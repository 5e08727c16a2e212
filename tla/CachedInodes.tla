---------------------------- MODULE CachedInodes ----------------------------
(***************************************************************************)
(* enumerate_cached_inodes (src/os/linux/pagecache.cpp): the inodes of the *)
(* page cache, from the inode hash table; if that yields nothing, from the *)
(* super blocks; and if those yield nothing, from the open files of the    *)
(* processes together with the tree of dentries below the roots they lead  *)
(* to.  Links may be torn.                                                 *)
(*                                                                         *)
(* A link leads to an object, to the head of a list (HeadOf its owner), is *)
(* Null or is Wild, into memory that is not in the dump; Torn if it cannot *)
(* be read.                                                                *)
(***************************************************************************)
EXTENDS Naturals, Sequences, FiniteSets, SequencesExt

CONSTANTS
    Inodes, Supers, Dentries, Null, Wild, Torn,
    Images,
    MaxInodes,      \* both kInodeCaps and the guard of a chain
    MaxSupers,      \* kSbCap
    MaxSiblings,    \* kMaxSiblings
    MaxDentries     \* kMaxDentries

VARIABLES
    img,
    pc,
    cur,        \* the link the walk is at
    rest,       \* the buckets that are left
    sb,         \* the super block
    turns,      \* the super blocks walked
    todo,       \* the stack of dentries
    seen,       \* the dentries visited
    found,      \* the inodes walked to
    out         \* the CachedInodes

vars == <<img, pc, cur, rest, sb, turns, todo, seen, found, out>>

Init ==
    /\ img \in Images
    /\ pc = "hash"
    /\ cur = Null /\ rest = img.buckets /\ sb = Null /\ turns = 0
    /\ todo = <<>> /\ seen = {} /\ found = <<>> /\ out = <<>>

HeadOf(a) == <<"head", a>>
ReadNext(f, a) == IF a \in DOMAIN f THEN f[a] ELSE Torn

\* materialise: an inode without a super block, or all of whose fields are
\* zero, is left out.
Materialise(s) == SelectSeq(s, LAMBDA i : i \in img.good)

-----------------------------------------------------------------------------
(* walk_inode_hashtable.  img.buckets is empty if a symbol is missing or   *)
(* the table cannot be read.                                               *)

NextBucket ==
    /\ pc = "hash" /\ rest # <<>> /\ Len(found) < MaxInodes
    /\ cur \in {Null, Torn}
    /\ cur' = rest[1] /\ rest' = Tail(rest)
    /\ UNCHANGED <<img, pc, sb, turns, todo, seen, found, out>>

\* Mutant: the first inode of a bucket is all of it.
NextHashed_First ==
    /\ pc = "hash" /\ cur \notin {Null, Torn} /\ Len(found) < MaxInodes
    /\ found' = Append(found, cur)
    /\ cur' = Null
    /\ UNCHANGED <<img, pc, rest, sb, turns, todo, seen, out>>

NextHashed ==
    /\ pc = "hash" /\ cur \notin {Null, Torn} /\ Len(found) < MaxInodes
    /\ found' = Append(found, cur)
    /\ cur' = IF ReadNext(img.hnext, cur) = cur THEN Null ELSE ReadNext(img.hnext, cur)
    /\ UNCHANGED <<img, pc, rest, sb, turns, todo, seen, out>>

\* Whatever the table led to, good or not, is all there is; an empty table
\* makes way for the super blocks.  (Without the symbol the walk is free of
\* symbols; a head that cannot be read ends it.)
HashDone ==
    /\ pc = "hash"
    /\ Len(found) >= MaxInodes \/ (cur \in {Null, Torn} /\ rest = <<>>)
    /\ out' = Materialise(found)
    /\ pc' = IF found # <<>> THEN "done"
             ELSE IF ~img.supers THEN "files"
             ELSE IF img.sfirst = Torn THEN "done" ELSE "supers"
    /\ cur' = Null /\ sb' = img.sfirst
    /\ UNCHANGED <<img, rest, turns, todo, seen, found>>

-----------------------------------------------------------------------------
(* The super blocks and their lists of inodes, none of which is tested.    *)

SupersOver == sb \in {Null, Torn, HeadOf("supers")} \/ turns >= MaxSupers

EnterSuper ==
    /\ pc = "supers" /\ ~SupersOver
    /\ cur' = ReadNext(img.slist, sb)
    /\ pc' = "inodes"
    /\ UNCHANGED <<img, rest, sb, turns, todo, seen, found, out>>

InodesOver == cur \in {Null, Torn, HeadOf(sb)} \/ Len(out) >= MaxInodes

NextInode ==
    /\ pc = "inodes" /\ ~InodesOver
    /\ out' = Append(out, cur)
    /\ cur' = IF ReadNext(img.inext, cur) = cur THEN Null ELSE ReadNext(img.inext, cur)
    /\ UNCHANGED <<img, pc, rest, sb, turns, todo, seen, found>>

LeaveSuper ==
    /\ pc = "inodes" /\ InodesOver
    /\ sb' = IF ReadNext(img.snext, sb) = sb THEN Null ELSE ReadNext(img.snext, sb)
    /\ turns' = turns + 1
    /\ pc' = "supers"
    /\ UNCHANGED <<img, cur, rest, todo, seen, found, out>>

SupersDone ==
    /\ pc = "supers" /\ SupersOver
    /\ pc' = IF out = <<>> THEN "files" ELSE "done"
    /\ UNCHANGED <<img, cur, rest, sb, turns, todo, seen, found, out>>

-----------------------------------------------------------------------------
(* walk_fdtables_for_inodes, and the roots it and enumerate_mounts supply. *)
(* img.files are the open files in the order of the tables that can be     *)
(* read.                                                                   *)

Distinct(s) == FoldLeft(LAMBDA kept, x : IF x \in Range(kept) THEN kept ELSE Append(kept, x), <<>>, s)

FromFds ==
    Distinct(SelectSeq([k \in 1..Len(img.files) |-> img.files[k].inode],
                       LAMBDA i : i \notin {Null, Torn}))
Roots ==
    ({img.files[k].root : k \in 1..Len(img.files)} \cup img.mroots) \ {Null, Torn}

\* The set of roots is pushed in any order.
WalkFiles ==
    /\ pc = "files"
    /\ \E s \in SetToSeqs(Roots) : todo' = s
    /\ pc' = "tree"
    /\ UNCHANGED <<img, cur, rest, sb, turns, seen, found, out>>

-----------------------------------------------------------------------------
(* walk_dentry_tree_for_inodes.                                            *)

\* The children of a dentry: from its first, along their links.
Onward(d, s) ==
    LET link == IF s = <<>> THEN ReadNext(img.kids, d) ELSE ReadNext(img.sib, s[Len(s)])
    IN  IF link \in {Null, Torn, HeadOf(d)} \/ (s # <<>> /\ link = s[Len(s)]) THEN s
        ELSE Append(s, link)
Children(d) ==
    LET go[k \in 0..MaxSiblings] ==
            IF k = 0 THEN <<>> ELSE CHOOSE t \in {Onward(d, s) : s \in {go[k - 1]}} : TRUE
    IN  go[MaxSiblings]

VisitDentry ==
    /\ pc = "tree" /\ todo # <<>> /\ Cardinality(seen) < MaxDentries
    /\ LET d == todo[Len(todo)]
           below == SubSeq(todo, 1, Len(todo) - 1)
           inode == ReadNext(img.dinode, d)
       IN  IF d \in seen THEN todo' = below /\ UNCHANGED <<seen, found>>
           ELSE /\ seen' = seen \cup {d}
                /\ found' = IF inode \in {Null, Torn} \cup Range(found) THEN found
                            ELSE Append(found, inode)
                /\ todo' = below \o Children(d)
    /\ UNCHANGED <<img, pc, cur, rest, sb, turns, out>>

\* The tree's inodes, then those of the files that are not among them.
TreeDone ==
    /\ pc = "tree"
    /\ todo = <<>> \/ Cardinality(seen) >= MaxDentries
    /\ out' = Materialise(Distinct(found \o FromFds))
    /\ pc' = "done"
    /\ UNCHANGED <<img, cur, rest, sb, turns, todo, seen, found>>

Next ==
    \/ NextBucket \/ NextHashed \/ HashDone
    \/ EnterSuper \/ NextInode \/ LeaveSuper \/ SupersDone
    \/ WalkFiles \/ VisitDentry \/ TreeDone

Spec == Init /\ [][Next]_vars /\ WF_vars(Next)
-----------------------------------------------------------------------------
Once(s) == \A i, j \in 1..Len(s) : s[i] = s[j] => i = j

\* Everything that links lead to from a set of places, each place a member
\* of the domain of one of the functions in fs.
Closure(S, fs) ==
    LET widen(T) == T \cup {f[a] : <<f, a>> \in {p \in fs \X T : p[2] \in DOMAIN p[1]}}
        n == Cardinality(Inodes \cup Dentries \cup Supers) + 1
        go[k \in 0..n] == IF k = 0 THEN S ELSE CHOOSE y \in {widen(x) : x \in {go[k - 1]}} : TRUE
    IN  go[n]

\* A table as the kernel keeps it: chains that end and share no inode.
Firsts == Range(img.buckets) \ {Null}
Hashed == Closure(Firsts, {img.hnext}) \cap Inodes
HashIntact ==
    /\ Firsts # {} /\ Firsts \subseteq Inodes
    /\ \A k, m \in 1..Len(img.buckets) : img.buckets[k] = img.buckets[m] => k = m \/ img.buckets[k] = Null
    /\ \A i \in Hashed : img.hnext[i] \in (Inodes \cup {Null}) \ (Firsts \cup {i})
    /\ \A i, j \in Hashed : img.hnext[i] = img.hnext[j] => i = j \/ img.hnext[i] = Null

\* Lists of super blocks and inodes as the kernel keeps them.
Listed(s) == Closure({img.slist[s]}, {img.inext}) \cap Inodes
SupersIntact ==
    /\ img.supers /\ img.sfirst \in Supers
    /\ LET ss == Closure({img.sfirst}, {img.snext}) IN
         /\ ss \subseteq Supers \cup {HeadOf("supers")}
         /\ \E s \in ss \cap Supers : img.snext[s] = HeadOf("supers")
         /\ \A s \in ss \cap Supers :
               /\ img.slist[s] \in Inodes \cup {HeadOf(s)}
               /\ \A i \in Listed(s) : img.inext[i] \in Inodes \cup {HeadOf(s)}
               /\ Listed(s) # {} => \E i \in Listed(s) : img.inext[i] = HeadOf(s)
               /\ \A t \in ss \cap Supers : s # t => Listed(s) \cap Listed(t) = {}

AllListed == UNION {Listed(s) : s \in Closure({img.sfirst}, {img.snext}) \cap Supers}
Unhashed == Firsts = {}
Symbolless == ~img.supers \/ img.sfirst \in {Null, HeadOf("supers")}
Open == Range(FromFds)
Below(S) == S \cup UNION {Closure({img.kids[d]}, {img.sib}) \cap Dentries : d \in S}
InTree ==
    LET go[k \in 0..Cardinality(Dentries)] ==
            IF k = 0 THEN Roots \cap Dentries ELSE CHOOSE y \in {Below(x) : x \in {go[k - 1]}} : TRUE
    IN  {img.dinode[d] : d \in go[Cardinality(Dentries)]}

(* The inodes found are all there are, each once: those of the hash table  *)
(* if it leads to any, else those of the super blocks, else those that are *)
(* open or in the tree of dentries, torn or not.  And while the head of    *)
(* super_blocks can be read, and the table does not lead to garbage only,  *)
(* a file that is open does not leave /fs empty.                           *)
InodesFound ==
    pc = "done" =>
        /\ HashIntact => Once(out) /\ Range(out) = Hashed \cap img.good
        /\ Unhashed /\ SupersIntact /\ AllListed # {} => Once(out) /\ Range(out) = AllListed
        /\ Unhashed /\ Symbolless => Once(out) /\ Range(out) = (Open \cup InTree) \cap img.good
        /\ Unhashed /\ ~(img.supers /\ img.sfirst = Torn) /\ Open \cap img.good # {} => out # <<>>

(* The enumeration ends.                                                   *)
Ended == pc = "done"
=============================================================================
