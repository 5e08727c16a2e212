------------------------------ MODULE VmaWalk ------------------------------
(***************************************************************************)
(* enumerate_vmas (src/os/linux/vma.cpp): the VMAs of a process, from the  *)
(* maple tree of its mm or, before Linux 6.1, from the list of its mm, in  *)
(* an image whose nodes may be torn; then sorted and freed of repetitions. *)
(*                                                                         *)
(* img.root is ma_root or mm->mmap.  A slot or a link is Null, or leads to *)
(* a maple node, to a VMA, or to what is not in the dump (Wild); a field   *)
(* that cannot be read is Torn.                                            *)
(***************************************************************************)
EXTENDS Naturals, Sequences, FiniteSets, SequencesExt

CONSTANTS
    MapleNodes, Vmas, Null, Wild, Torn,
    Images,
    MaxDepth,       \* of walk_maple_node
    MaxVmas,        \* kMaxVmasPerProcess
    MaxSize         \* the largest size that is believed

VARIABLES
    img,
    pc,
    todo,       \* the calls of walk_maple_node that are pending, and the next VMA of the list
    seen,
    out

vars == <<img, pc, todo, seen, out>>

Init ==
    /\ img \in Images
    /\ pc = "start"
    /\ todo = <<>> /\ seen = {} /\ out = <<>>

Call(a, depth) == [entry |-> a, depth |-> depth]

\* No mm, or one that cannot be read, has no VMAs.
Begin ==
    /\ pc = "start"
    /\ todo' = IF img.root \in {Null, Torn} THEN <<>> ELSE <<Call(img.root, 1)>>
    /\ pc' = "walk"
    /\ UNCHANGED <<img, seen, out>>

\* read_vma's tests of what it has read.
Believed(v) ==
    /\ v \in Vmas /\ img.area[v] # Torn
    /\ img.area[v].end > img.area[v].start
    /\ img.area[v].end - img.area[v].start <= MaxSize

\* read_vma, for a sequence of them.
ReadVmas(s) ==
    LET found == out \o SelectSeq(s, Believed)
    IN  SubSeq(found, 1, IF Len(found) > MaxVmas THEN MaxVmas ELSE Len(found))

Pop == Head(todo)

\* One call.  An entry that is no node is of an unknown type or has no slots
\* that can be read.
WalkMapleNode ==
    /\ pc = "walk" /\ img.kind = "maple" /\ todo # <<>>
    /\ LET n == Pop.entry
           node == img.nodes[n]
           slots == SelectSeq(node.slots, LAMBDA a : a \notin {Null, Torn})
       IN  IF Pop.depth > MaxDepth \/ n \in seen
           THEN todo' = Tail(todo) /\ UNCHANGED <<seen, out>>
           ELSE /\ seen' = seen \cup {n}
                /\ out' = IF n \in MapleNodes /\ node.type = "leaf" THEN ReadVmas(slots) ELSE out
                /\ todo' = IF n \in MapleNodes /\ node.type = "range" /\ Len(out) < MaxVmas
                           THEN [i \in 1..Len(slots) |-> Call(slots[i], Pop.depth + 1)] \o Tail(todo)
                           ELSE Tail(todo)
    /\ UNCHANGED <<img, pc>>

LinkOf(v) == IF v \in Vmas THEN img.next[v] ELSE Torn

\* One turn of the loop over the list.
WalkVmaList ==
    /\ pc = "walk" /\ img.kind = "list" /\ todo # <<>>
    /\ LET v == Pop.entry IN
         IF v \in seen \/ Len(out) >= MaxVmas
         THEN todo' = <<>> /\ UNCHANGED <<seen, out>>
         ELSE /\ seen' = seen \cup {v}
              /\ out' = ReadVmas(<<v>>)
              /\ todo' = IF LinkOf(v) \in {Null, Torn} THEN <<>> ELSE <<Call(LinkOf(v), 1)>>
    /\ UNCHANGED <<img, pc>>

\* std::sort by vm_start, which may leave equals in any order.
Sorted(s) ==
    {t \in [1..Len(s) -> Range(s)] :
        /\ \A i \in 1..(Len(s) - 1) : img.area[t[i]].start <= img.area[t[i + 1]].start
        /\ \A v \in Range(s) : Len(SelectSeq(t, LAMBDA w : w = v)) = Len(SelectSeq(s, LAMBDA w : w = v))}

\* Mutant: only the start is compared.
SameArea_Start(v, w) == img.area[v].start = img.area[w].start

SameArea(v, w) == img.area[v] = img.area[w]

\* std::unique drops what equals the last that was kept.
Unique(s) ==
    FoldLeft(LAMBDA kept, v : IF kept # <<>> /\ SameArea(kept[Len(kept)], v) THEN kept
                              ELSE Append(kept, v), <<>>, s)

SortVmas ==
    /\ pc = "walk" /\ todo = <<>>
    /\ \E s \in Sorted(out) : out' = Unique(s)
    /\ pc' = "done"
    /\ UNCHANGED <<img, todo, seen>>

Next == Begin \/ WalkMapleNode \/ WalkVmaList \/ SortVmas

Spec == Init /\ [][Next]_vars /\ WF_vars(Next)

-----------------------------------------------------------------------------
\* The nodes or VMAs that links lead to from the root.
Onward(S) ==
    S \cup UNION {IF a \in Vmas THEN {img.next[a]}
                  ELSE IF a \in MapleNodes /\ img.nodes[a].type = "range"
                  THEN Range(img.nodes[a].slots) ELSE {} : a \in S}
ReachedIn[n \in Nat] == IF n = 0 THEN {img.root} ELSE Onward(ReachedIn[n - 1])
Reached ==
    IF img.kind = "list" THEN ReachedIn[Cardinality(Vmas)] \cap Vmas
    ELSE UNION {Range(img.nodes[n].slots) :
                   n \in {m \in ReachedIn[MaxDepth - 1] \cap MapleNodes : img.nodes[m].type = "leaf"}}

(* The areas are in the order of their addresses, and they are the areas   *)
(* of the process: every VMA the tree or the list leads to, and no other   *)
(* (within the limits on depth and number).  Where they do not overlap, as *)
(* in an mm that is not torn, each is there once.                          *)
VmasFound ==
    pc = "done" /\ Cardinality(Vmas) <= MaxVmas =>
        LET areas == [i \in 1..Len(out) |-> img.area[out[i]]]
            real == {img.area[v] : v \in {w \in Reached : Believed(w)}}
        IN  /\ \A i \in 1..(Len(areas) - 1) : areas[i].start <= areas[i + 1].start
            /\ Range(areas) = real
            /\ (\A a, b \in real : a = b \/ a.end <= b.start \/ b.end <= a.start)
               => Len(areas) = Cardinality(real)

(* The walk ends, also in a tree or a list that runs in a circle.          *)
Ended == pc = "done"
=============================================================================
