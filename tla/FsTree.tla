------------------------------- MODULE FsTree -------------------------------
(* The /fs and /files/by-ino trees Engine::create builds from the inodes   *)
(* of the page cache (src/app/engine.cpp, with the DirNode operations of   *)
(* DirTree).                                                               *)
(*                                                                         *)
(* Two loops.  The first takes the inodes in the order the kernel's lists  *)
(* gave them: it makes every directory a path needs, adds directories and  *)
(* symbolic links, and keeps the best regular file per path as a           *)
(* candidate.  The second takes the candidates in the order of an          *)
(* unordered_map, that is in any order, and adds those whose name is       *)
(* still free.  Paths come out of a memory image: two inodes may claim one *)
(* path, and a path may run through what another inode says is a file.     *)
EXTENDS DirTree

CONSTANTS
    Names,          \* path components
    Inodes,         \* what enumerate_cached_inodes may return
    Safe,           \* components validate_path_component accepts
    RootDir,        \* the component "root"
    SystemdDir,     \* the component "systemd"
    RuntimeRoots,   \* kRuntimeRoots of normalise_fs_path
    SystemRoots,    \* kSystemRoots of normalise_fs_path
    MaxInodes       \* bound on the number of inodes taken

Types == {"reg", "dir", "lnk", "other"}

\* linux::CachedInode.  path is <<>> when inode_is_orphan: no dentry chain,
\* "/", "(null)" or a path that is not absolute.  rank orders what
\* score_regular computes: better_regular compares lexicographically, and
\* equal scores have equal rank.  fs is sb_fs, the *type* of the filesystem.
IsInode(c) ==
    /\ c.path \in Seq(Names)
    /\ c.type \in Types
    /\ c.pseudo \in BOOLEAN
    /\ c.cached \in BOOLEAN
    /\ c.rank \in Nat

ASSUME InodesAssumption == \A c \in Inodes : IsInode(c)
ASSUME BoundAssumption == MaxInodes \in Nat

VARIABLES
    heap,       \* the nodes: 1 is fs_dir, 2 is by_ino_dir
    pc,         \* where Engine::create is
    seen,       \* the inodes taken so far, in order
    item,       \* the path and inode in hand
    cur,        \* get_or_make_dir's cur
    rest,       \* the components it has still to walk
    candidates, \* regular_candidates
    todo,       \* the paths of candidates the second loop has not reached
    reg_count   \* regular files reported

vars == <<heap, pc, seen, item, cur, rest, candidates, todo, reg_count>>

FsDir == 1
ByInoDir == 2

inode_is_orphan(c) == c.path = <<>>

\* Not "." or "..", nothing a host forbids, well-formed UTF-8.
validate_path_component(n) == n \in Safe

\* linux::validate_recovered_fs_path.
validate_recovered_fs_path(p) == p # <<>> /\ \A i \in DOMAIN p : validate_path_component(p[i])

\* normalise_fs_path: <<>> hides the inode from /fs.
normalise_fs_path(p) ==
    IF p[1] = SystemdDir \/ p = <<RootDir>> THEN <<>>
    ELSE IF p[1] # RootDir THEN p
    ELSE IF p[2] \in RuntimeRoots THEN <<>>
    ELSE IF p[2] \in SystemRoots THEN Tail(p)
    ELSE p

FsPath(c) == IF inode_is_orphan(c) \/ c.pseudo THEN <<>> ELSE normalise_fs_path(c.path)

\* The inode gets past every "continue" before get_or_make_dir.
Exposed(c) == validate_recovered_fs_path(FsPath(c))

\* fmt "{kind}-{fs}-{ino}.bin".
OrphanName(c) == <<c.dying, c.fs, c.ino>>

GoesByIno(c) == c.type = "reg" /\ c.cached /\ inode_is_orphan(c)

Idle == [path |-> <<>>, ci |-> Null]

Init ==
    /\ heap = <<Dir("fs"), Dir("by-ino")>>
    /\ pc = "inodes"
    /\ seen = <<>>
    /\ item = Idle
    /\ cur = FsDir
    /\ rest = <<>>
    /\ candidates = <<>>
    /\ todo = {}
    /\ reg_count = 0

\* Head of the first loop: by-ino, then the tests that skip an inode.
TakeInode(c) ==
    /\ pc = "inodes"
    /\ Len(seen) < MaxInodes
    /\ \A i \in DOMAIN seen : seen[i] # c
    /\ seen' = Append(seen, c)
    /\ heap' = IF GoesByIno(c) THEN Add(heap, ByInoDir, File(OrphanName(c), "reg", c)) ELSE heap
    /\ IF Exposed(c)
       THEN /\ pc' = "walk"
            /\ item' = [path |-> FsPath(c), ci |-> c]
            /\ cur' = FsDir
            /\ rest' = Front(FsPath(c))
       ELSE UNCHANGED <<pc, item, cur, rest>>
    /\ UNCHANGED <<candidates, todo, reg_count>>

\* One turn of get_or_make_dir, which both loops call.  Its sanitise test
\* cannot fail: the whole path has been validated.
MakeComponent ==
    /\ pc \in {"walk", "walk_candidate"}
    /\ rest # <<>>
    /\ heap' = EnsureDirChild(heap, cur, Head(rest))
    /\ cur' = Find(heap', cur, Head(rest))
    /\ rest' = Tail(rest)
    /\ UNCHANGED <<pc, seen, item, candidates, todo, reg_count>>

\* The directory is there: what the inode's type asks for.
Arrived(at, type) == pc = at /\ rest = <<>> /\ item.ci.type = type

Return(to) ==
    /\ pc' = to
    /\ item' = Idle
    /\ cur' = FsDir
    /\ UNCHANGED <<seen, rest, todo>>

PlaceDir ==
    /\ Arrived("walk", "dir")
    /\ heap' = EnsureDirChild(heap, cur, Last(item.path))
    /\ Return("inodes")
    /\ UNCHANGED <<candidates, reg_count>>

\* A mutant: the last of equals replaces the first.
KeepLastCandidate ==
    LET p == item.path
        better == p \in DOMAIN candidates => item.ci.rank >= candidates[p].rank
    IN  /\ Arrived("walk", "reg")
        /\ candidates' = IF better
                         THEN [q \in DOMAIN candidates \cup {p} |->
                                   IF q = p THEN item.ci ELSE candidates[q]]
                         ELSE candidates
        /\ Return("inodes")
        /\ UNCHANGED <<heap, reg_count>>

\* better_regular is strict, so that of equals the first stays.
KeepCandidate ==
    LET p == item.path
        better == p \in DOMAIN candidates => item.ci.rank > candidates[p].rank
    IN  /\ Arrived("walk", "reg")
        /\ candidates' = IF better
                         THEN [q \in DOMAIN candidates \cup {p} |->
                                   IF q = p THEN item.ci ELSE candidates[q]]
                         ELSE candidates
        /\ Return("inodes")
        /\ UNCHANGED <<heap, reg_count>>

PlaceLink ==
    /\ Arrived("walk", "lnk")
    /\ heap' = IF Find(heap, cur, Last(item.path)) # Null THEN heap
               ELSE Add(heap, cur, File(Last(item.path), "lnk", item.ci))
    /\ Return("inodes")
    /\ UNCHANGED <<candidates, reg_count>>

\* Devices, sockets, pipes: the parent directories stay, nothing is added.
PlaceOther ==
    /\ Arrived("walk", "other")
    /\ Return("inodes")
    /\ UNCHANGED <<heap, candidates, reg_count>>

EndOfInodes ==
    /\ pc = "inodes"
    /\ pc' = "candidates"
    /\ todo' = DOMAIN candidates
    /\ UNCHANGED <<heap, seen, item, cur, rest, candidates, reg_count>>

TakeCandidate(p) ==
    /\ pc = "candidates"
    /\ todo' = todo \ {p}
    /\ pc' = "walk_candidate"
    /\ item' = [path |-> p, ci |-> candidates[p]]
    /\ cur' = FsDir
    /\ rest' = Front(p)
    /\ UNCHANGED <<heap, seen, candidates, reg_count>>

\* find before add: a directory or a link has the name already.
PlaceRegular ==
    LET free == Find(heap, cur, Last(item.path)) = Null
    IN  /\ Arrived("walk_candidate", "reg")
        /\ heap' = IF free THEN Add(heap, cur, File(Last(item.path), "reg", item.ci)) ELSE heap
        /\ reg_count' = IF free THEN reg_count + 1 ELSE reg_count
        /\ Return("candidates")
        /\ UNCHANGED candidates

EndOfCandidates ==
    /\ pc = "candidates"
    /\ todo = {}
    /\ pc' = "done"
    /\ UNCHANGED <<heap, seen, item, cur, rest, candidates, todo, reg_count>>

Terminating == pc = "done" /\ UNCHANGED vars

Next ==
    \/ \E c \in Inodes : TakeInode(c)
    \/ MakeComponent
    \/ PlaceDir
    \/ KeepCandidate
    \/ PlaceLink
    \/ PlaceOther
    \/ EndOfInodes
    \/ \E p \in todo : TakeCandidate(p)
    \/ PlaceRegular
    \/ EndOfCandidates
    \/ Terminating

Spec == Init /\ [][Next]_vars

----------------------------------------------------------------------------
(* Properties.                                                             *)

Nodes == DOMAIN heap

(* vfs.h: "Name uniqueness is a hard invariant, not a nicety".  In every   *)
(* directory no two children share a name, and names_, which add consults, *)
(* says what children_, which ensure_dir_child searches and rewrites in    *)
(* place, holds.                                                           *)
UniqueNames == \A d \in Nodes : IsDir(heap, d) => UniqueIn(heap, d)

\* Every path an inode of the image can put something at.
Paths == (UNION {Prefixes(FsPath(c)) : c \in Inodes}) \ {<<>>}

At(p) == Resolve(heap, FsDir, p)
DirAt(p) == At(p) # Null /\ IsDir(heap, At(p))

(* Once a directory stands at a path it stays there, the same node: the    *)
(* shared_ptr get_or_make_dir walks on with, and the subtree under it, are *)
(* never dropped by a later inode that claims the path for something else. *)
DirsStay ==
    [][\A p \in Paths : DirAt(p) => (At(p)' = At(p))]_vars

\* What /fs should hold, from the inodes alone.
Taken == {i \in DOMAIN seen : Exposed(seen[i])}
IsDirPath(p) ==
    \E i \in Taken :
        \/ FsPath(seen[i]) # p /\ p \in Prefixes(FsPath(seen[i]))
        \/ FsPath(seen[i]) = p /\ seen[i].type = "dir"
Claims(p, type) == {i \in Taken : FsPath(seen[i]) = p /\ seen[i].type = type}
BestOf(S) ==
    CHOOSE i \in S : \A j \in S : seen[i].rank > seen[j].rank
                                  \/ (seen[i].rank = seen[j].rank /\ i <= j)

Stands(p, kind, ci) == At(p) # Null /\ heap[At(p)].kind = kind /\ heap[At(p)].ci = ci

(* The tree is a function of the inodes and not of the hash order, nor of  *)
(* the order of the inodes beyond ties.  At a path stands a directory if   *)
(* any inode is one there or lies below it; else the first symbolic link   *)
(* that claims it; else the regular file with the best recovery, the first *)
(* of equals; and nothing stands where nothing claims to.  The number of   *)
(* regular files the mount log reports is the number that can be reached.  *)
TreeCanonical ==
    pc = "done" =>
        /\ \A p \in Paths :
              IF IsDirPath(p) THEN Stands(p, "dir", Null)
              ELSE IF Claims(p, "lnk") # {} THEN Stands(p, "lnk", seen[First(Claims(p, "lnk"))])
              ELSE IF Claims(p, "reg") # {} THEN Stands(p, "reg", seen[BestOf(Claims(p, "reg"))])
              ELSE At(p) = Null
        /\ reg_count = Cardinality({p \in Paths : At(p) # Null /\ heap[At(p)].kind = "reg"})
=============================================================================
