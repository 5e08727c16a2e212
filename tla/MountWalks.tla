----------------------------- MODULE MountWalks -----------------------------
(***************************************************************************)
(* The mounts of the initial namespace (enumerate_mounts and               *)
(* walk_mount_tree, src/os/linux/mountinfo.cpp), each with the path of its *)
(* mount point (dentry_to_path, src/os/linux/dentry_path.cpp), in an image *)
(* whose links may be torn.                                                *)
(*                                                                         *)
(* A pointer is the object it leads to, Null, or Wild, which leads to      *)
(* memory that is not in the dump; a field that cannot be read is Torn.    *)
(* The head of a list is an address too: a torn link may lead to one.  A   *)
(* dentry stands for its name.                                             *)
(***************************************************************************)
EXTENDS Naturals, Sequences, FiniteSets, SequencesExt

CONSTANTS
    Mounts, Dentries, Null, Wild, Torn,
    Root,           \* mnt_namespace.root
    Images,
    MaxDepth,       \* of walk_mount_tree
    MaxHops,        \* of dentry_to_path
    MaxReported     \* bound on what an endless walk reports

VARIABLES
    img,
    pc,
    todo,       \* the frames of walk_mount_tree, the innermost first
    out         \* the MountInfos

vars == <<img, pc, todo, out>>

Init ==
    /\ img \in Images
    /\ pc = "start"
    /\ todo = <<>> /\ out = <<>>

-----------------------------------------------------------------------------
(* img.parent is d_parent, img.up and img.point are mnt_parent and         *)
(* mnt_mountpoint, img.named the dentries whose name can be read and is    *)
(* not "/".                                                                *)

ParentOf(d) == IF d \in Dentries THEN img.parent[d] ELSE Torn

\* mnt_parent and mnt_mountpoint can be read and lead on.
Mounted(m) ==
    /\ m \in Mounts
    /\ img.up[m] \notin {Torn, Null, m}
    /\ img.point[m] \notin {Torn, Null}

\* Mutant: names in the order they are met.
Turn_Appends(s) ==
    LET parent == ParentOf(s.dentry) IN
    IF ~s.on \/ parent = Torn THEN [s EXCEPT !.on = FALSE]
    ELSE IF parent # s.dentry
    THEN [s EXCEPT !.dentry = parent,
                   !.parts = IF s.dentry \in img.named THEN Append(@, s.dentry) ELSE @]
    ELSE IF Mounted(s.mnt)
    THEN [s EXCEPT !.dentry = img.point[s.mnt], !.mnt = img.up[s.mnt]]
    ELSE [s EXCEPT !.on = FALSE]

\* One turn of dentry_to_path's loop: a name up, or from the root of a file
\* system to where it is mounted, or out of the loop (Null cannot be read).
Turn(s) ==
    LET parent == ParentOf(s.dentry) IN
    IF ~s.on \/ parent = Torn THEN [s EXCEPT !.on = FALSE]
    ELSE IF parent # s.dentry
    THEN [s EXCEPT !.dentry = parent,
                   !.parts = IF s.dentry \in img.named THEN <<s.dentry>> \o @ ELSE @]
    ELSE IF Mounted(s.mnt)
    THEN [s EXCEPT !.dentry = img.point[s.mnt], !.mnt = img.up[s.mnt]]
    ELSE [s EXCEPT !.on = FALSE]

\* Op(... Op(v)), n times.  (The bound x has TLC evaluate each once.)
Iterate(Op(_), v, n) ==
    LET go[k \in 0..n] == IF k = 0 THEN v ELSE CHOOSE y \in {Op(x) : x \in {go[k - 1]}} : TRUE
    IN  go[n]

dentry_to_path(d, m) ==
    Iterate(Turn, [on |-> TRUE, dentry |-> d, mnt |-> m, parts |-> <<>>], MaxHops).parts

Unknown == <<Null>>
PointOf(m) == IF m \in Mounts /\ img.point[m] # Torn THEN img.point[m] ELSE Null
SbOf(m) == IF m \in Mounts THEN img.sb[m] ELSE Null

\* The MountInfo of a mount found below parent.
Info(m, parent) ==
    [mount |-> m, parent |-> parent, sb |-> SbOf(m),
     path |-> IF parent \in {Null, m} THEN <<>>
              ELSE IF PointOf(m) = Null THEN Unknown
              ELSE dentry_to_path(PointOf(m), parent)]

-----------------------------------------------------------------------------
(* img.down is the first entry of a mount's list of children, img.next a   *)
(* mount's successor in the list it is in.                                 *)

HeadOf(m) == <<"head", m>>
Heads == {HeadOf(m) : m \in Mounts}

ReadLink(a) ==
    IF a \in Mounts THEN img.next[a]
    ELSE IF a \in Heads THEN img.down[a[2]]
    ELSE Torn

\* A call of walk_mount_tree.  An address that is no mount has no list.
Frame(m) == [mount |-> m, link |-> IF m \in Mounts THEN img.down[m] ELSE Torn]

\* img.ns: whether init_task leads to the namespace and its root.
Begin ==
    /\ pc = "start"
    /\ out' = IF img.ns THEN <<Info(Root, Null)>> ELSE <<>>
    /\ todo' = IF img.ns THEN <<Frame(Root)>> ELSE <<>>
    /\ pc' = "walk"
    /\ UNCHANGED img

Over(f) == f.link \in {Null, Torn, HeadOf(f.mount)}

\* The successor; one that cannot be read, or that leads to itself, ends the
\* list.
After(link) == IF ReadLink(link) = link THEN Null ELSE ReadLink(link)

\* Mutant: the list is left after the call for its first entry.
EnterChild_First ==
    /\ pc = "walk" /\ todo # <<>> /\ Len(out) < MaxReported
    /\ LET f == Head(todo)
           rest == <<[f EXCEPT !.link = Null]>> \o Tail(todo)
       IN  /\ ~Over(f)
           /\ IF Len(todo) > MaxDepth
              THEN todo' = rest /\ UNCHANGED out
              ELSE /\ out' = Append(out, Info(f.link, f.mount))
                   /\ todo' = <<Frame(f.link)>> \o rest
    /\ UNCHANGED <<img, pc>>

\* The call for a child, which does nothing below MaxDepth.
EnterChild ==
    /\ pc = "walk" /\ todo # <<>> /\ Len(out) < MaxReported
    /\ LET f == Head(todo)
           rest == <<[f EXCEPT !.link = After(f.link)]>> \o Tail(todo)
       IN  /\ ~Over(f)
           /\ IF Len(todo) > MaxDepth
              THEN todo' = rest /\ UNCHANGED out
              ELSE /\ out' = Append(out, Info(f.link, f.mount))
                   /\ todo' = <<Frame(f.link)>> \o rest
    /\ UNCHANGED <<img, pc>>

LeaveMount ==
    /\ pc = "walk" /\ todo # <<>>
    /\ Over(Head(todo))
    /\ todo' = Tail(todo)
    /\ UNCHANGED <<img, pc, out>>

Done ==
    /\ pc = "walk" /\ todo = <<>>
    /\ pc' = "done"
    /\ UNCHANGED <<img, todo, out>>

Next == Begin \/ EnterChild \/ LeaveMount \/ Done

Spec == Init /\ [][Next]_vars /\ WF_vars(Next)

\* build_sb_to_mount_map: the first mount found of a super block.
MountOfSb(sb) ==
    LET of == {i \in 1..Len(out) : out[i].sb = sb}
    IN  out[CHOOSE i \in of : \A j \in of : i <= j].mount

-----------------------------------------------------------------------------
\* A mount's list followed to where it leads, and whom it meets.
Follow(w) == IF w.at \in Mounts THEN [at |-> img.next[w.at], met |-> w.met \cup {w.at}] ELSE w
Along(m) == Iterate(Follow, [at |-> img.down[m], met |-> {}], Cardinality(Mounts))

Linked(m) == Along(m).met
LeadsTo(m) == Along(m).at

\* The lists as the kernel keeps them: each ends at its own head, every mount
\* but the root is in one, and all of them hang below the root.
Intact ==
    /\ img.ns
    /\ \A m \in Mounts : LeadsTo(m) = HeadOf(m) /\ Root \notin Linked(m)
    /\ \A c \in Mounts \ {Root} : \E m \in Mounts : \A n \in Mounts : c \in Linked(n) <=> n = m
    /\ \A m \in Mounts \ {Root} : m \notin Linked(m)

(* Every mount of an intact tree is reported once, after the mount whose   *)
(* list it is in: "the full list of mounts in this kernel's primary        *)
(* namespace" (mountinfo.h:54).                                            *)
MountsFound ==
    pc = "done" /\ Intact =>
        /\ \A i, j \in 1..Len(out) : out[i].mount = out[j].mount => i = j
        /\ \A i \in 2..Len(out) : out[i].mount \in Linked(out[i].parent)
        /\ \A m \in Mounts, i \in 1..Len(out) :
              m \in Linked(out[i].mount) => \E j \in (i + 1)..Len(out) : out[j].mount = m

\* What a look-up finds from the global root in n steps, a name or a mount
\* a step: dentry, mount, path.
NamesIn(f) == {d \in Dentries : img.parent[d] = f[1] /\ d # f[1]}
MountsOn(f) == {m \in Mounts \ {Root} : img.point[m] = f[1] /\ img.up[m] = f[2]}
Step(f) ==
    {<<d, f[2], Append(f[3], d)>> : d \in NamesIn(f)} \cup {<<img.root[m], m, f[3]>> : m \in MountsOn(f)}
Widen(F) == F \cup UNION {Step(f) : f \in F}
Lookup(n) == Iterate(Widen, {<<img.root[Root], Root, <<>>>>}, n)

\* The fields of the mounts agree with the lists, every mount shows its file
\* system from the root, and every name can be read.
WellMounted ==
    /\ Intact
    /\ \A m \in Mounts : img.root[m] \in Dentries /\ img.parent[img.root[m]] = img.root[m]
    /\ \A m, n \in Mounts : m \in Linked(n) => img.up[m] = n /\ img.point[m] \in Dentries
    /\ img.up[Root] = Root
    /\ \A d \in Dentries : img.parent[d] # d => d \in img.named

(* Looked up from the global root, the path that is reported for a mount   *)
(* leads to it, and the path of a dentry, through the mount the map has    *)
(* for its super block, to the dentry (both as far as they are attached at *)
(* all).                                                                   *)
PathsLeadBack ==
    pc = "done" /\ WellMounted =>
        LET found == Lookup(MaxHops)
            attached == {<<f[1], f[2]>> : f \in found}
        IN  /\ \A i \in 1..Len(out) :
                  LET m == out[i].mount IN
                  <<img.root[m], m>> \in attached => <<img.root[m], m, out[i].path>> \in found
            /\ \A sb \in {out[i].sb : i \in 1..Len(out)} \ {Null} : \A d \in Dentries :
                  LET m == MountOfSb(sb) IN
                  <<d, m>> \in attached => <<d, m, dentry_to_path(d, m)>> \in found

\* A list of children that comes back to itself without its head.
Circles(m) ==
    LET onward(l) == IF l \in {Null, Torn, HeadOf(m)} THEN Null ELSE After(l)
    IN  Iterate(onward, img.down[m], 2 * Cardinality(Mounts) + 1) \notin {Null, Torn}

(* The walk ends, unless a torn list of siblings runs in a circle: the     *)
(* loop over them has no bound of its own.                                 *)
Ended == pc = "done" \/ \E m \in Mounts : Circles(m)
=============================================================================
