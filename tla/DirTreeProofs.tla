---------------------------- MODULE DirTreeProofs ----------------------------
(***************************************************************************)
(* Facts about the directories of DirTree, for any names and contents:     *)
(* what the operations do to a well-formed heap, and what resolve finds    *)
(* before and after.                                                       *)
(*                                                                         *)
(* A heap is followed by its paths.  Whatever add and ensure_dir_child do, *)
(* one path comes to a new node and every other path leads where it led.   *)
(***************************************************************************)
EXTENDS DirTree, SequenceTheorems, WellFoundedInduction, TLAPS

-----------------------------------------------------------------------------
(* Induction over numbers and paths, with sets for the properties.         *)

LEMMA CountingUp ==
    ASSUME NEW n \in Nat, NEW Good,
           0 \in Good, \A k \in 0..(n - 1) : k \in Good => k + 1 \in Good
    PROVE  \A k \in 0..n : k \in Good
  <1> SUFFICES ASSUME NEW bad \in 0..n, bad \notin Good PROVE FALSE
    OBVIOUS
  <1> DEFINE T == (0..n) \ Good
  <1>1. T \subseteq Nat /\ T # {}
    OBVIOUS
  <1>2. PICK k \in T : \A j \in T : ~(<<j, k>> \in OpToRel(<, Nat))
    <2> HIDE DEF T
    <2> QED
      BY <1>1, NatLessThanWellFounded, WFMin
  <1>3. \A j \in T : ~(j < k)
    BY <1>1, <1>2 DEF OpToRel
  <1>4. k # 0 /\ k - 1 \in 0..(n - 1)
    OBVIOUS
  <1>5. k - 1 \in Good
    BY <1>3, <1>4
  <1> QED
    BY <1>4, <1>5

\* A step repeated n times has a record of its results.
Steps(step, base, n, S) == n \in Nat /\ base \in S /\ step \in [1..n -> [S -> S]]
Record(w, step, base, n, S) ==
    w \in [0..n -> S] /\ w[0] = base /\ \A i \in 1..n : w[i] = step[i][w[i - 1]]

LEMMA Iteration ==
    ASSUME NEW step, NEW base, NEW n, NEW S, Steps(step, base, n, S)
    PROVE  \E w : Record(w, step, base, n, S)
  <1>0. n \in Nat /\ base \in S /\ step \in [1..n -> [S -> S]]
    BY DEF Steps
  <1> DEFINE Runs(k) == {w \in [0..k -> S] : w[0] = base /\ \A i \in 1..k : w[i] = step[i][w[i - 1]]}
             Good == {k \in 0..n : Runs(k) # {}}
  <1>1. 0 \in Good
    <2>1. [i \in 0..0 |-> base] \in Runs(0)
      BY <1>0
    <2> QED
      BY <1>0, <2>1
  <1>2. ASSUME NEW k \in 0..(n - 1), k \in Good PROVE k + 1 \in Good
    <2>0. k \in Nat /\ k + 1 \in 1..n
      BY <1>0
    <2>1. PICK w : w \in Runs(k)
      BY <1>2
    <2> DEFINE v == [i \in 0..(k + 1) |-> IF i = k + 1 THEN step[k + 1][w[k]] ELSE w[i]]
    <2>2. w[k] \in S /\ step[k + 1] \in [S -> S]
      BY <1>0, <2>0, <2>1
    <2>3. v \in [0..(k + 1) -> S] /\ v[0] = base
      BY <2>0, <2>1, <2>2
    <2>4. \A i \in 1..(k + 1) : v[i] = step[i][v[i - 1]]
      <3> SUFFICES ASSUME NEW i \in 1..(k + 1) PROVE v[i] = step[i][v[i - 1]]
        OBVIOUS
      <3>1. CASE i = k + 1
        BY <2>0, <3>1
      <3>2. CASE i # k + 1
        <4>1. i \in 1..k /\ i - 1 \in 0..k
          BY <2>0, <3>2
        <4>2. v[i] = w[i] /\ v[i - 1] = w[i - 1]
          BY <3>2, <4>1
        <4>3. w[i] = step[i][w[i - 1]]
          BY <2>1, <4>1
        <4> QED
          BY <4>2, <4>3
      <3> QED
        BY <3>1, <3>2
    <2> HIDE DEF v
    <2>5. v \in Runs(k + 1)
      BY <2>3, <2>4
    <2> QED
      BY <2>0, <2>5
  <1>3. n \in Good
    <2> HIDE DEF Good
    <2>1. \A k \in 0..(n - 1) : k \in Good => k + 1 \in Good
      BY <1>2
    <2>2. \A k \in 0..n : k \in Good
      BY <1>0, <1>1, <2>1, CountingUp
    <2> QED
      BY <1>0, <2>2
  <1> QED
    BY <1>3 DEF Record

\* Paths are reached by appending components to the empty one.
LEMMA PathInduction ==
    ASSUME NEW N, NEW Good, <<>> \in Good,
           \A q \in Seq(N), x \in N : q \in Good => Append(q, x) \in Good
    PROVE  \A p \in Seq(N) : p \in Good
  <1> SUFFICES ASSUME NEW p \in Seq(N) PROVE p \in Good
    OBVIOUS
  <1> DEFINE Short == {k \in Nat : \A q \in Seq(N) : Len(q) = k => q \in Good}
  <1>1. 0 \in Short
    BY EmptySeq
  <1>2. ASSUME NEW k \in Nat, k \in Short PROVE k + 1 \in Short
    <2> SUFFICES ASSUME NEW q \in Seq(N), Len(q) = k + 1 PROVE q \in Good
      OBVIOUS
    <2>0. q # <<>>
      OBVIOUS
    <2>1. PICK s \in Seq(N), x \in N : q = Append(s, x)
      BY <2>0, SequenceEmptyOrAppend
    <2>2. Len(s) = k
      BY <2>1
    <2> QED
      BY <1>2, <2>1, <2>2
  <1>3. Len(p) \in Nat
    OBVIOUS
  <1>4. Len(p) \in Short
    <2> HIDE DEF Short
    <2> DEFINE n == Len(p)
    <2>1. n \in Nat
      BY <1>3
    <2> HIDE DEF n
    <2>2. \A k \in 0..(n - 1) : k \in Short => k + 1 \in Short
      BY <1>2, <2>1
    <2>3. \A k \in 0..n : k \in Short
      BY <1>1, <2>1, <2>2, CountingUp
    <2> QED
      BY <2>1, <2>3 DEF n
  <1> QED
    BY <1>4

-----------------------------------------------------------------------------
(* Well-formed heaps.                                                      *)

\* N names, K kinds, C contents.
NodeSet(N, K, C) ==
    [name : N, kind : K, ci : C, kids : Seq(Nat), names : SUBSET N]

\* Every child is a node, and every directory's two records agree.
Linked(h) == \A d \in 1..Len(h) : \A i \in 1..Len(h[d].kids) : h[d].kids[i] \in 1..Len(h)
Unique(h) == \A d \in 1..Len(h) : UniqueIn(h, d)
HeapOK(h, N, K, C) == h \in Seq(NodeSet(N, K, C)) /\ Linked(h) /\ Unique(h)

\* g is h with node as a new last child of d.
Pushed(g, h, d, node, N, K, C) ==
    /\ g \in Seq(NodeSet(N, K, C))
    /\ Len(g) = Len(h) + 1
    /\ g[Len(h) + 1] = node
    /\ g[d].kids = Append(h[d].kids, Len(h) + 1)
    /\ g[d].names = h[d].names \cup {node.name}
    /\ g[d].name = h[d].name /\ g[d].kind = h[d].kind /\ g[d].ci = h[d].ci
    /\ \A n \in 1..Len(h) : n # d => g[n] = h[n]

(* What push_back does to a heap, node by node.                            *)
LEMMA PushEffect ==
    ASSUME NEW N, NEW K, NEW C, NEW h \in Seq(NodeSet(N, K, C)), NEW d \in 1..Len(h), NEW node \in NodeSet(N, K, C)
    PROVE  Pushed(PushChild(h, d, node), h, d, node, N, K, C)
<1> DEFINE e == [h EXCEPT ![d].kids = Append(@, Len(h) + 1), ![d].names = @ \cup {node.name}]
<1>1. /\ h[d] \in NodeSet(N, K, C)
      /\ DOMAIN h = 1..Len(h)
      /\ Len(h) \in Nat
  OBVIOUS
<1>2. Append(h[d].kids, Len(h) + 1) \in Seq(Nat)
  <2>1. h[d].kids \in Seq(Nat)
    BY <1>1 DEF NodeSet
  <2> QED BY <2>1, <1>1
<1>3. h[d].names \cup {node.name} \in SUBSET N
  BY <1>1 DEF NodeSet
<1>4. /\ e[d].kids = Append(h[d].kids, Len(h) + 1)
      /\ e[d].names = h[d].names \cup {node.name}
      /\ e[d].name = h[d].name /\ e[d].kind = h[d].kind /\ e[d].ci = h[d].ci
      /\ e[d] \in NodeSet(N, K, C)
  BY <1>1, <1>2, <1>3 DEF NodeSet
<1>5. \A n \in 1..Len(h) : n # d => e[n] = h[n]
  BY <1>1
<1>6. e \in Seq(NodeSet(N, K, C)) /\ Len(e) = Len(h)
  <2>1. DOMAIN e = 1..Len(h) /\ \A n \in 1..Len(h) : e[n] \in NodeSet(N, K, C)
    BY <1>1, <1>4, <1>5
  <2>2. e \in [1..Len(h) -> NodeSet(N, K, C)]
    BY <2>1
  <2> HIDE DEF e
  <2> QED BY <1>1, <2>2
<1>7. PushChild(h, d, node) = Append(e, node)
  BY DEF PushChild
<1> HIDE DEF e
<1>8. /\ Append(e, node) \in Seq(NodeSet(N, K, C))
      /\ Len(Append(e, node)) = Len(h) + 1
      /\ Append(e, node)[Len(h) + 1] = node
      /\ \A n \in 1..Len(h) : Append(e, node)[n] = e[n]
  BY <1>1, <1>6
<1> QED BY <1>1, <1>4, <1>5, <1>7, <1>8 DEF Pushed

(* A child appended under a name no child has leaves a well-formed heap.   *)
LEMMA PushOK ==
    ASSUME NEW N, NEW K, NEW C, NEW h, HeapOK(h, N, K, C), NEW d \in 1..Len(h), NEW node \in NodeSet(N, K, C),
           node.kids = <<>>, node.names = {}, Positions(h, d, node.name) = {}
    PROVE  /\ HeapOK(PushChild(h, d, node), N, K, C)
           /\ Len(PushChild(h, d, node)) = Len(h) + 1
           /\ PushChild(h, d, node)[d].kids[Len(h[d].kids) + 1] = Len(h) + 1
           /\ PushChild(h, d, node)[d].kids \in Seq(Nat)
           /\ Len(PushChild(h, d, node)[d].kids) = Len(h[d].kids) + 1
<1> DEFINE g == PushChild(h, d, node)
           m == Len(h[d].kids)
<1>1. h \in Seq(NodeSet(N, K, C)) /\ Len(h) \in Nat
  BY DEF HeapOK
<1>a. g = PushChild(h, d, node)
  OBVIOUS
<1> HIDE DEF g
<1>2. /\ g \in Seq(NodeSet(N, K, C))
      /\ Len(g) = Len(h) + 1
      /\ g[Len(h) + 1] = node
      /\ g[d].kids = Append(h[d].kids, Len(h) + 1)
      /\ g[d].names = h[d].names \cup {node.name}
      /\ g[d].name = h[d].name
      /\ \A n \in 1..Len(h) : n # d => g[n] = h[n]
  <2>1. Pushed(g, h, d, node, N, K, C)
    BY <1>1, <1>a, PushEffect
  <2> QED BY <2>1 DEF Pushed
<1>3. \A n \in 1..Len(h) : h[n].kids \in Seq(Nat) /\ Len(h[n].kids) \in Nat
                           /\ DOMAIN h[n].kids = 1..Len(h[n].kids)
  <2>1. \A n \in 1..Len(h) : h[n] \in NodeSet(N, K, C)
    BY <1>1
  <2> QED BY <2>1 DEF NodeSet
<1>4. /\ g[d].kids \in Seq(Nat)
      /\ Len(g[d].kids) = m + 1
      /\ DOMAIN g[d].kids = 1..(m + 1)
      /\ g[d].kids[m + 1] = Len(h) + 1
      /\ \A i \in 1..m : g[d].kids[i] = h[d].kids[i]
  BY <1>1, <1>2, <1>3
<1>5. \A n \in 1..Len(h) : g[n].name = h[n].name
  BY <1>2
<1>6. \A n \in 1..Len(h) : \A i \in 1..Len(h[n].kids) : h[n].kids[i] \in 1..Len(h)
  BY DEF HeapOK, Linked
<1>7. Linked(g)
  <2> SUFFICES ASSUME NEW n \in 1..Len(g), NEW i \in 1..Len(g[n].kids)
               PROVE  g[n].kids[i] \in 1..Len(g)
    BY DEF Linked
  <2>1. CASE n = d
    <3>1. i \in 1..m \/ i = m + 1
      BY <2>1, <1>4, <1>3
    <3> QED BY <3>1, <2>1, <1>1, <1>2, <1>4, <1>6
  <2>2. CASE n = Len(h) + 1
    BY <2>2, <1>2
  <2>3. CASE n \in 1..Len(h) /\ n # d
    BY <2>3, <1>1, <1>2, <1>6
  <2> QED BY <2>1, <2>2, <2>3, <1>1, <1>2
<1>8. Unique(g)
  <2> SUFFICES ASSUME NEW n \in 1..Len(g)
               PROVE  UniqueIn(g, n)
    BY DEF Unique
  <2>1. CASE n = d
    <3>1. \A i \in 1..m : NameAt(g, d, i) = NameAt(h, d, i)
      BY <1>4, <1>5, <1>6 DEF NameAt
    <3>2. NameAt(g, d, m + 1) = node.name
      BY <1>2, <1>4 DEF NameAt
    <3>3. /\ h[d].names = {NameAt(h, d, i) : i \in 1..m}
          /\ \A i, j \in 1..m : NameAt(h, d, i) = NameAt(h, d, j) => i = j
      BY <1>3 DEF HeapOK, Unique, UniqueIn
    <3>4. \A i \in 1..m : NameAt(h, d, i) # node.name
      BY <1>3 DEF Positions
    <3>5. m \in Nat
      BY <1>3
    <3>6. g[d].names = {NameAt(g, d, i) : i \in 1..(m + 1)}
      <4>1. g[d].names = {NameAt(h, d, i) : i \in 1..m} \cup {node.name}
        BY <1>2, <3>3
      <4>2. 1..(m + 1) = 1..m \cup {m + 1}
        BY <3>5
      <4> QED BY <4>1, <4>2, <3>1, <3>2
    <3>7. \A i, j \in 1..(m + 1) : NameAt(g, d, i) = NameAt(g, d, j) => i = j
      <4>1. \A i \in 1..(m + 1) : i \in 1..m \/ i = m + 1
        BY <3>5
      <4> QED BY <4>1, <3>1, <3>2, <3>3, <3>4
    <3> QED BY <2>1, <1>4, <3>6, <3>7 DEF UniqueIn
  <2>2. CASE n = Len(h) + 1
    BY <2>2, <1>2 DEF UniqueIn
  <2>3. CASE n \in 1..Len(h) /\ n # d
    <3>1. g[n] = h[n] /\ DOMAIN h[n].kids = 1..Len(h[n].kids)
      BY <2>3, <1>2, <1>3
    <3>2. \A i \in 1..Len(h[n].kids) : NameAt(g, n, i) = NameAt(h, n, i)
      BY <2>3, <3>1, <1>5, <1>6 DEF NameAt
    <3>3. UniqueIn(h, n)
      BY <2>3 DEF HeapOK, Unique
    <3> QED BY <3>1, <3>2, <3>3 DEF UniqueIn
  <2> QED BY <2>1, <2>2, <2>3, <1>1, <1>2
<1> QED BY <1>2, <1>4, <1>7, <1>8 DEF HeapOK, g

\* g is h with node in the place of d's i-th child.
Replaced(g, h, d, i, node, N, K, C) ==
    /\ g \in Seq(NodeSet(N, K, C))
    /\ Len(g) = Len(h) + 1
    /\ g[Len(h) + 1] = node
    /\ g[d].kids = [h[d].kids EXCEPT ![i] = Len(h) + 1]
    /\ g[d].names = h[d].names
    /\ g[d].name = h[d].name /\ g[d].kind = h[d].kind /\ g[d].ci = h[d].ci
    /\ \A n \in 1..Len(h) : n # d => g[n] = h[n]

Replacing(h, d, i, node) == Append([h EXCEPT ![d].kids[i] = Len(h) + 1], node)

(* What the assignment to a child does to a heap, node by node.            *)
LEMMA ReplaceEffect ==
    ASSUME NEW N, NEW K, NEW C, NEW h \in Seq(NodeSet(N, K, C)), NEW d \in 1..Len(h), NEW node \in NodeSet(N, K, C),
           NEW i \in 1..Len(h[d].kids)
    PROVE  Replaced(Replacing(h, d, i, node), h, d, i, node, N, K, C)
<1> DEFINE e == [h EXCEPT ![d].kids[i] = Len(h) + 1]
<1>1. /\ h[d] \in NodeSet(N, K, C)
      /\ DOMAIN h = 1..Len(h)
      /\ Len(h) \in Nat
  OBVIOUS
<1>2. [h[d].kids EXCEPT ![i] = Len(h) + 1] \in Seq(Nat)
  <2>1. h[d].kids \in Seq(Nat)
    BY <1>1 DEF NodeSet
  <2> QED BY <2>1, <1>1, ExceptSeq
<1>3. /\ e[d].kids = [h[d].kids EXCEPT ![i] = Len(h) + 1]
      /\ e[d].names = h[d].names
      /\ e[d].name = h[d].name /\ e[d].kind = h[d].kind /\ e[d].ci = h[d].ci
      /\ e[d] \in NodeSet(N, K, C)
  BY <1>1, <1>2 DEF NodeSet
<1>4. \A n \in 1..Len(h) : n # d => e[n] = h[n]
  BY <1>1
<1>5. e \in Seq(NodeSet(N, K, C)) /\ Len(e) = Len(h)
  <2>1. DOMAIN e = 1..Len(h) /\ \A n \in 1..Len(h) : e[n] \in NodeSet(N, K, C)
    BY <1>1, <1>3, <1>4
  <2>2. e \in [1..Len(h) -> NodeSet(N, K, C)]
    BY <2>1
  <2> HIDE DEF e
  <2> QED BY <1>1, <2>2
<1>6. Replacing(h, d, i, node) = Append(e, node)
  BY DEF Replacing
<1> HIDE DEF e
<1>7. /\ Append(e, node) \in Seq(NodeSet(N, K, C))
      /\ Len(Append(e, node)) = Len(h) + 1
      /\ Append(e, node)[Len(h) + 1] = node
      /\ \A n \in 1..Len(h) : Append(e, node)[n] = e[n]
  BY <1>1, <1>5
<1> QED BY <1>1, <1>3, <1>4, <1>6, <1>7 DEF Replaced

(* A child replaced by a node of the same name leaves a well-formed heap:  *)
(* names_ need not change.                                                 *)
LEMMA ReplaceOK ==
    ASSUME NEW N, NEW K, NEW C, NEW h, HeapOK(h, N, K, C), NEW d \in 1..Len(h), NEW node \in NodeSet(N, K, C),
           node.kids = <<>>, node.names = {},
           NEW i \in 1..Len(h[d].kids), NameAt(h, d, i) = node.name
    PROVE  /\ HeapOK(Replacing(h, d, i, node), N, K, C)
           /\ Len(Replacing(h, d, i, node)) = Len(h) + 1
           /\ NameAt(Replacing(h, d, i, node), d, i) = node.name
           /\ Len(Replacing(h, d, i, node)[d].kids) = Len(h[d].kids)
<1> DEFINE g == Replacing(h, d, i, node)
           m == Len(h[d].kids)
<1>1. h \in Seq(NodeSet(N, K, C)) /\ Len(h) \in Nat
  BY DEF HeapOK
<1>2. Replaced(g, h, d, i, node, N, K, C)
  BY <1>1, ReplaceEffect
<1> HIDE DEF g
<1>3. \A n \in 1..Len(h) : h[n].kids \in Seq(Nat) /\ Len(h[n].kids) \in Nat
                           /\ DOMAIN h[n].kids = 1..Len(h[n].kids)
  <2>1. \A n \in 1..Len(h) : h[n] \in NodeSet(N, K, C)
    BY <1>1
  <2> QED BY <2>1 DEF NodeSet
<1>4. /\ g[d].kids \in Seq(Nat)
      /\ Len(g[d].kids) = m
      /\ DOMAIN g[d].kids = 1..m
      /\ g[d].kids[i] = Len(h) + 1
      /\ \A j \in 1..m : j # i => g[d].kids[j] = h[d].kids[j]
  <2>1. g[d].kids = [h[d].kids EXCEPT ![i] = Len(h) + 1]
    BY <1>2 DEF Replaced
  <2>2. Len(h) + 1 \in Nat
    BY <1>1
  <2> QED BY <2>1, <2>2, <1>3, ExceptSeq
<1>5. \A n \in 1..Len(h) : g[n].name = h[n].name
  BY <1>2 DEF Replaced
<1>6. \A n \in 1..Len(h) : \A j \in 1..Len(h[n].kids) : h[n].kids[j] \in 1..Len(h)
  BY DEF HeapOK, Linked
<1>7. \A j \in 1..m : NameAt(g, d, j) = NameAt(h, d, j)
  <2>1. NameAt(g, d, i) = node.name
    BY <1>2, <1>4 DEF NameAt, Replaced
  <2>2. ASSUME NEW j \in 1..m, j # i
        PROVE  NameAt(g, d, j) = NameAt(h, d, j)
    BY <2>2, <1>4, <1>5, <1>6 DEF NameAt
  <2> QED BY <2>1, <2>2
<1>8. Linked(g)
  <2> SUFFICES ASSUME NEW n \in 1..Len(g), NEW j \in 1..Len(g[n].kids)
               PROVE  g[n].kids[j] \in 1..Len(g)
    BY DEF Linked
  <2>1. CASE n = d
    BY <2>1, <1>1, <1>2, <1>4, <1>6 DEF Replaced
  <2>2. CASE n = Len(h) + 1
    BY <2>2, <1>2 DEF Replaced
  <2>3. CASE n \in 1..Len(h) /\ n # d
    BY <2>3, <1>1, <1>2, <1>6 DEF Replaced
  <2>4. Len(g) = Len(h) + 1
    BY <1>2 DEF Replaced
  <2>5. n = d \/ n = Len(h) + 1 \/ (n \in 1..Len(h) /\ n # d)
    BY <2>4, <1>1
  <2> QED BY <2>1, <2>2, <2>3, <2>5
<1>9. Unique(g)
  <2> SUFFICES ASSUME NEW n \in 1..Len(g)
               PROVE  UniqueIn(g, n)
    BY DEF Unique
  <2>1. CASE n = d
    <3>1. UniqueIn(h, d)
      BY DEF HeapOK, Unique
    <3>2. g[d].names = h[d].names
      BY <1>2 DEF Replaced
    <3>3. /\ h[d].names = {NameAt(h, d, j) : j \in 1..m}
          /\ \A j, k \in 1..m : NameAt(h, d, j) = NameAt(h, d, k) => j = k
      BY <3>1, <1>3 DEF UniqueIn
    <3>4. g[d].names = {NameAt(g, d, j) : j \in 1..m}
      BY <3>2, <3>3, <1>7
    <3>5. \A j, k \in 1..m : NameAt(g, d, j) = NameAt(g, d, k) => j = k
      BY <3>3, <1>7
    <3>6. DOMAIN g[d].kids = 1..m
      BY <1>4
    <3> HIDE DEF m
    <3> QED BY <2>1, <3>4, <3>5, <3>6 DEF UniqueIn
  <2>2. CASE n = Len(h) + 1
    BY <2>2, <1>2 DEF UniqueIn, Replaced
  <2>3. CASE n \in 1..Len(h) /\ n # d
    <3>1. g[n] = h[n] /\ DOMAIN h[n].kids = 1..Len(h[n].kids)
      BY <2>3, <1>2, <1>3 DEF Replaced
    <3>2. \A j \in 1..Len(h[n].kids) : NameAt(g, n, j) = NameAt(h, n, j)
      BY <2>3, <3>1, <1>5, <1>6 DEF NameAt
    <3>3. UniqueIn(h, n)
      BY <2>3 DEF HeapOK, Unique
    <3> QED BY <3>1, <3>2, <3>3 DEF UniqueIn
  <2> QED BY <2>1, <2>2, <2>3, <1>1, <1>2 DEF Replaced
<1>10. g \in Seq(NodeSet(N, K, C)) /\ Len(g) = Len(h) + 1
  BY <1>2 DEF Replaced
<1>11. HeapOK(g, N, K, C)
  BY <1>8, <1>9, <1>10 DEF HeapOK
<1> QED BY <1>4, <1>7, <1>10, <1>11 DEF g

(* Names are unique, so find's first match is the only one.                *)
LEMMA FindOK ==
    ASSUME NEW N, NEW K, NEW C, NEW h, HeapOK(h, N, K, C), NEW d \in 1..Len(h),
           NEW i \in 1..Len(h[d].kids)
    PROVE  /\ Positions(h, d, NameAt(h, d, i)) = {i}
           /\ First(Positions(h, d, NameAt(h, d, i))) = i
           /\ Find(h, d, NameAt(h, d, i)) = h[d].kids[i]
           /\ Find(h, d, NameAt(h, d, i)) \in 1..Len(h)
<1> DEFINE P == Positions(h, d, NameAt(h, d, i))
<1>1. h[d].kids \in Seq(Nat)
  <2>1. h[d] \in NodeSet(N, K, C)
    BY DEF HeapOK
  <2> QED BY <2>1 DEF NodeSet
<1>2. DOMAIN h[d].kids = 1..Len(h[d].kids) /\ Len(h[d].kids) \in Nat
  BY <1>1
<1>3. \A j \in DOMAIN h[d].kids : NameAt(h, d, j) = NameAt(h, d, i) => j = i
  BY <1>2 DEF HeapOK, Unique, UniqueIn
<1>4. P = {i}
  BY <1>2, <1>3 DEF Positions
<1>5. First({i}) = i
  BY <1>2 DEF First
<1>6. Find(h, d, NameAt(h, d, i)) = h[d].kids[i]
  BY <1>4, <1>5 DEF Find
<1>7. h[d].kids[i] \in 1..Len(h)
  BY DEF HeapOK, Linked
<1> QED BY <1>4, <1>5, <1>6, <1>7

(* DirNode::add keeps the heap well-formed: names_ answers for children_.  *)
LEMMA AddOK ==
    ASSUME NEW N, NEW K, NEW C, NEW h, HeapOK(h, N, K, C), NEW d \in 1..Len(h), NEW node \in NodeSet(N, K, C),
           node.kids = <<>>, node.names = {}
    PROVE  HeapOK(Add(h, d, node), N, K, C) /\ Len(h) <= Len(Add(h, d, node))
<1>1. Len(h) \in Nat
  BY DEF HeapOK
<1>2. CASE node.name \in h[d].names
  BY <1>1, <1>2 DEF Add
<1>3. CASE node.name \notin h[d].names
  <2>1. Positions(h, d, node.name) = {}
    BY <1>3 DEF HeapOK, Unique, UniqueIn, Positions
  <2>2. HeapOK(PushChild(h, d, node), N, K, C) /\ Len(PushChild(h, d, node)) = Len(h) + 1
    BY <2>1, PushOK
  <2> QED BY <1>1, <1>3, <2>2 DEF Add
<1> QED BY <1>2, <1>3

(* DirNode::ensure_dir_child keeps the heap well-formed, and the child is  *)
(* found afterwards.                                                       *)
LEMMA EnsureOK ==
    ASSUME NEW N, NEW K, NEW C, NEW h, HeapOK(h, N, K, C), NEW d \in 1..Len(h), NEW name \in N, Null \in C, "dir" \in K
    PROVE  /\ HeapOK(EnsureDirChild(h, d, name), N, K, C)
           /\ Len(h) <= Len(EnsureDirChild(h, d, name))
           /\ Find(EnsureDirChild(h, d, name), d, name) \in 1..Len(EnsureDirChild(h, d, name))
<1> DEFINE node == Dir(name)
           at == Positions(h, d, name)
           g == EnsureDirChild(h, d, name)
<1>1. h \in Seq(NodeSet(N, K, C)) /\ Len(h) \in Nat
  BY DEF HeapOK
<1>2. h[d].kids \in Seq(Nat) /\ Len(h[d].kids) \in Nat /\ DOMAIN h[d].kids = 1..Len(h[d].kids)
  <2>1. h[d] \in NodeSet(N, K, C)
    BY <1>1
  <2> QED BY <2>1 DEF NodeSet
<1>3. node \in NodeSet(N, K, C) /\ node.kids = <<>> /\ node.names = {} /\ node.name = name
  <2>1. name \in N /\ Null \in C /\ "dir" \in K /\ <<>> \in Seq(Nat) /\ {} \in SUBSET N
    OBVIOUS
  <2> QED BY <2>1 DEF Dir, NodeSet
<1>4. CASE at = {}
  <2>1. g = PushChild(h, d, node)
    BY <1>4 DEF EnsureDirChild
  <2>2. /\ HeapOK(g, N, K, C)
        /\ Len(g) = Len(h) + 1
        /\ g[d].kids[Len(h[d].kids) + 1] = Len(h) + 1
        /\ Len(g[d].kids) = Len(h[d].kids) + 1
    <3> HIDE DEF node
    <3> QED BY <2>1, <1>3, <1>4, PushOK
  <2>3. g[Len(h) + 1] = node
    <3> HIDE DEF node
    <3>1. Pushed(PushChild(h, d, node), h, d, node, N, K, C)
      BY <1>1, <1>3, PushEffect
    <3> QED BY <3>1, <2>1 DEF Pushed
  <2>4. NameAt(g, d, Len(h[d].kids) + 1) = name
    BY <2>2, <2>3, <1>3 DEF NameAt
  <2>5. Len(h[d].kids) + 1 \in 1..Len(g[d].kids) /\ d \in 1..Len(g)
    BY <1>1, <1>2, <2>2
  <2> HIDE DEF g
  <2>6. Find(g, d, name) \in 1..Len(g)
    BY <2>2, <2>4, <2>5, FindOK
  <2> QED BY <1>1, <2>2, <2>6 DEF g
<1>5. CASE at # {}
  <2>1. PICK i \in 1..Len(h[d].kids) : NameAt(h, d, i) = name
    BY <1>5, <1>2 DEF Positions
  <2>2. First(at) = i /\ Find(h, d, name) \in 1..Len(h)
    BY <2>1, FindOK
  <2>3. CASE IsDir(h, h[d].kids[First(at)])
    BY <1>1, <1>5, <2>2, <2>3 DEF EnsureDirChild
  <2>4. CASE ~IsDir(h, h[d].kids[First(at)])
    <3>1. g = Replacing(h, d, i, node)
      BY <1>5, <2>2, <2>4 DEF EnsureDirChild, Replacing
    <3> HIDE DEF node
    <3>2. /\ HeapOK(g, N, K, C)
          /\ Len(g) = Len(h) + 1
          /\ NameAt(g, d, i) = name
          /\ Len(g[d].kids) = Len(h[d].kids)
      BY <3>1, <1>3, <2>1, ReplaceOK
    <3>3. i \in 1..Len(g[d].kids) /\ d \in 1..Len(g)
      BY <1>1, <2>1, <3>2
    <3> HIDE DEF g
    <3>4. Find(g, d, name) \in 1..Len(g)
      BY <3>2, <3>3, FindOK
    <3> QED BY <1>1, <3>2, <3>4 DEF g
  <2> QED BY <2>3, <2>4
<1> QED BY <1>4, <1>5

-----------------------------------------------------------------------------
(* Heaps that grow by one node.                                            *)

\* In g, d's child called name is a new node without children; all else
\* that find answers is as in h.
Grown(g, h, d, name, node) ==
    /\ Len(g) = Len(h) + 1
    /\ g[Len(h) + 1] = node
    /\ \A n \in 1..Len(h) : g[n].kind = h[n].kind /\ g[n].ci = h[n].ci
    /\ \A n \in 1..Len(h) : \A x :
          Find(g, n, x) = IF n = d /\ x = name THEN Len(h) + 1 ELSE Find(h, n, x)
    /\ \A x : Find(g, Len(h) + 1, x) = Null

\* What is typed in a node of a well-formed heap.
LEMMA NodeFacts ==
    ASSUME NEW N, NEW K, NEW C, NEW h, HeapOK(h, N, K, C), NEW n \in 1..Len(h)
    PROVE  /\ Len(h) \in Nat
           /\ h[n].kids \in Seq(Nat) /\ Len(h[n].kids) \in Nat
           /\ DOMAIN h[n].kids = 1..Len(h[n].kids)
           /\ \A i \in 1..Len(h[n].kids) : h[n].kids[i] \in 1..Len(h)
           /\ h[n].ci \in C /\ h[n].kind \in K
           /\ h[n].names = {NameAt(h, n, i) : i \in 1..Len(h[n].kids)}
<1>1. h \in Seq(NodeSet(N, K, C)) /\ Len(h) \in Nat /\ h[n] \in NodeSet(N, K, C)
  BY DEF HeapOK
<1>2. h[n].kids \in Seq(Nat) /\ h[n].ci \in C /\ h[n].kind \in K
  BY <1>1 DEF NodeSet
<1>3. Len(h[n].kids) \in Nat /\ DOMAIN h[n].kids = 1..Len(h[n].kids)
  BY <1>2
<1>4. h[n].names = {NameAt(h, n, i) : i \in 1..Len(h[n].kids)}
  BY <1>3 DEF HeapOK, Unique, UniqueIn
<1> QED BY <1>1, <1>2, <1>3, <1>4 DEF HeapOK, Linked

\* find gives Null or a node, and the node if there is a child of the name.
LEMMA FindFacts ==
    ASSUME NEW N, NEW K, NEW C, NEW h, HeapOK(h, N, K, C), NEW n \in 1..Len(h), NEW x
    PROVE  /\ Find(h, n, x) \in 0..Len(h)
           /\ Find(h, n, x) = Null <=> Positions(h, n, x) = {}
           /\ Find(h, n, x) = Null <=> x \notin h[n].names
           /\ h[n].kids = <<>> => Find(h, n, x) = Null
<1>1. /\ DOMAIN h[n].kids = 1..Len(h[n].kids)
      /\ Len(h) \in Nat
      /\ h[n].names = {NameAt(h, n, i) : i \in 1..Len(h[n].kids)}
  BY NodeFacts
<1>2. CASE Positions(h, n, x) = {}
  <2>1. x \notin h[n].names
    BY <1>1, <1>2 DEF Positions
  <2> QED BY <1>1, <1>2, <2>1 DEF Find, Null
<1>3. CASE Positions(h, n, x) # {}
  <2>1. PICK i \in 1..Len(h[n].kids) : NameAt(h, n, i) = x
    BY <1>1, <1>3 DEF Positions
  <2>2. Find(h, n, x) \in 1..Len(h)
    BY <2>1, FindOK
  <2>3. x \in h[n].names
    BY <1>1, <2>1
  <2>4. h[n].kids # <<>>
    BY <2>1
  <2> QED BY <1>1, <1>3, <2>2, <2>3, <2>4 DEF Null
<1> QED BY <1>2, <1>3

\* Where the names agree, find does.
LEMMA FindSame ==
    ASSUME NEW N, NEW K, NEW C, NEW h, HeapOK(h, N, K, C), NEW n \in 1..Len(h), NEW g, NEW x,
           DOMAIN g[n].kids = DOMAIN h[n].kids,
           \A i \in DOMAIN h[n].kids : NameAt(g, n, i) = NameAt(h, n, i),
           \A i \in Positions(h, n, x) : g[n].kids[i] = h[n].kids[i]
    PROVE  Find(g, n, x) = Find(h, n, x)
<1>1. Positions(g, n, x) = Positions(h, n, x)
  BY DEF Positions
<1>2. CASE Positions(h, n, x) = {}
  BY <1>1, <1>2 DEF Find
<1>3. CASE Positions(h, n, x) # {}
  <2>1. PICK i \in 1..Len(h[n].kids) : NameAt(h, n, i) = x
    BY <1>3, NodeFacts DEF Positions
  <2>2. Positions(h, n, x) = {i} /\ First(Positions(h, n, x)) = i
    BY <2>1, FindOK
  <2>3. Find(g, n, x) = g[n].kids[i] /\ Find(h, n, x) = h[n].kids[i]
    BY <1>1, <1>3, <2>2 DEF Find
  <2> QED BY <2>2, <2>3
<1> QED BY <1>2, <1>3

LEMMA PushGrows ==
    ASSUME NEW N, NEW K, NEW C, NEW h, HeapOK(h, N, K, C), NEW d \in 1..Len(h), NEW node \in NodeSet(N, K, C),
           node.kids = <<>>, node.names = {}, Positions(h, d, node.name) = {}
    PROVE  Grown(PushChild(h, d, node), h, d, node.name, node)
<1> DEFINE g == PushChild(h, d, node)
           m == Len(h[d].kids)
<1>1. h \in Seq(NodeSet(N, K, C)) /\ Len(h) \in Nat
  BY DEF HeapOK
<1>2. Pushed(g, h, d, node, N, K, C)
  BY <1>1, PushEffect
<1>3. HeapOK(g, N, K, C)
  BY PushOK
<1> HIDE DEF g
<1>4. /\ g[d].kids = Append(h[d].kids, Len(h) + 1)
      /\ DOMAIN h[d].kids = 1..m /\ m \in Nat
      /\ DOMAIN g[d].kids = 1..(m + 1)
      /\ g[d].kids[m + 1] = Len(h) + 1
      /\ \A i \in 1..m : g[d].kids[i] = h[d].kids[i]
  <2>1. g[d].kids = Append(h[d].kids, Len(h) + 1)
    BY <1>2 DEF Pushed
  <2> QED BY <1>1, <2>1, NodeFacts
<1>5. Len(g) = Len(h) + 1 /\ g[Len(h) + 1] = node
  BY <1>2 DEF Pushed
<1>6. \A n \in 1..Len(h) : g[n].name = h[n].name /\ g[n].kind = h[n].kind /\ g[n].ci = h[n].ci
  BY <1>2 DEF Pushed
<1>7. \A n \in 1..Len(h) : \A i \in DOMAIN h[n].kids : h[n].kids[i] \in 1..Len(h)
  BY NodeFacts
<1>8. ASSUME NEW n \in 1..Len(h), NEW x
      PROVE  Find(g, n, x) = IF n = d /\ x = node.name THEN Len(h) + 1 ELSE Find(h, n, x)
  <2>1. CASE n # d
    <3>1. g[n] = h[n]
      BY <1>2, <2>1 DEF Pushed
    <3>2. \A i \in DOMAIN h[n].kids : NameAt(g, n, i) = NameAt(h, n, i)
      BY <1>6, <1>7, <3>1 DEF NameAt
    <3> QED BY <2>1, <3>1, <3>2, FindSame
  <2>2. CASE n = d /\ x = node.name
    <3>1. NameAt(g, d, m + 1) = x
      BY <1>4, <1>5, <2>2 DEF NameAt
    <3>2. d \in 1..Len(g) /\ m + 1 \in 1..Len(g[d].kids)
      BY <1>1, <1>4, <1>5
    <3>3. Find(g, d, NameAt(g, d, m + 1)) = g[d].kids[m + 1]
      BY <1>3, <3>2, FindOK
    <3> QED BY <1>4, <2>2, <3>1, <3>3
  <2>3. CASE n = d /\ x # node.name
    <3>1. \A i \in 1..m : NameAt(g, d, i) = NameAt(h, d, i)
      BY <1>4, <1>6, <1>7 DEF NameAt
    <3>2. NameAt(g, d, m + 1) = node.name
      BY <1>4, <1>5 DEF NameAt
    <3>3. Positions(g, d, x) = Positions(h, d, x)
      <4>1. 1..(m + 1) = 1..m \cup {m + 1}
        BY <1>4
      <4> HIDE DEF m
      <4> QED BY <1>4, <2>3, <3>1, <3>2, <4>1 DEF Positions
    <3>4. Positions(h, d, x) \subseteq 1..m
      BY <1>4 DEF Positions
    <3>5. CASE Positions(h, d, x) = {}
      BY <2>3, <3>3, <3>5 DEF Find
    <3>6. CASE Positions(h, d, x) # {}
      <4>1. PICK i \in 1..m : NameAt(h, d, i) = x
        BY <1>4, <3>6 DEF Positions
      <4>2. First(Positions(h, d, x)) = i
        BY <4>1, FindOK
      <4>3. Find(g, d, x) = g[d].kids[i] /\ Find(h, d, x) = h[d].kids[i]
        BY <3>3, <3>6, <4>2 DEF Find
      <4> QED BY <1>4, <2>3, <4>3
    <3> QED BY <3>5, <3>6
  <2> QED BY <2>1, <2>2, <2>3
<1>9. \A x : Find(g, Len(h) + 1, x) = Null
  <2>1. Len(h) + 1 \in 1..Len(g) /\ g[Len(h) + 1].kids = <<>>
    BY <1>1, <1>5
  <2> QED BY <1>3, <2>1, FindFacts
<1>10. Grown(g, h, d, node.name, node)
  BY <1>5, <1>6, <1>8, <1>9 DEF Grown
<1> QED BY <1>10 DEF g

LEMMA ReplaceGrows ==
    ASSUME NEW N, NEW K, NEW C, NEW h, HeapOK(h, N, K, C), NEW d \in 1..Len(h), NEW node \in NodeSet(N, K, C),
           node.kids = <<>>, node.names = {},
           NEW i \in 1..Len(h[d].kids), NameAt(h, d, i) = node.name
    PROVE  Grown(Replacing(h, d, i, node), h, d, node.name, node)
<1> DEFINE g == Replacing(h, d, i, node)
           m == Len(h[d].kids)
<1>1. h \in Seq(NodeSet(N, K, C)) /\ Len(h) \in Nat
  BY DEF HeapOK
<1>2. Replaced(g, h, d, i, node, N, K, C)
  BY <1>1, ReplaceEffect
<1>3. HeapOK(g, N, K, C)
  BY ReplaceOK
<1> HIDE DEF g
<1>4. /\ DOMAIN h[d].kids = 1..m /\ m \in Nat
      /\ DOMAIN g[d].kids = 1..m
      /\ Len(g[d].kids) = m
      /\ g[d].kids[i] = Len(h) + 1
      /\ \A j \in 1..m : j # i => g[d].kids[j] = h[d].kids[j]
  <2>1. g[d].kids = [h[d].kids EXCEPT ![i] = Len(h) + 1]
    BY <1>2 DEF Replaced
  <2>2. h[d].kids \in Seq(Nat) /\ DOMAIN h[d].kids = 1..m /\ m \in Nat
    BY NodeFacts
  <2> QED BY <1>1, <2>1, <2>2, ExceptSeq
<1>5. Len(g) = Len(h) + 1 /\ g[Len(h) + 1] = node
  BY <1>2 DEF Replaced
<1>6. \A n \in 1..Len(h) : g[n].name = h[n].name /\ g[n].kind = h[n].kind /\ g[n].ci = h[n].ci
  BY <1>2 DEF Replaced
<1>7. \A n \in 1..Len(h) : \A j \in DOMAIN h[n].kids : h[n].kids[j] \in 1..Len(h)
  BY NodeFacts
<1>8. ASSUME NEW n \in 1..Len(h), NEW x
      PROVE  Find(g, n, x) = IF n = d /\ x = node.name THEN Len(h) + 1 ELSE Find(h, n, x)
  <2>1. CASE n # d
    <3>1. g[n] = h[n]
      BY <1>2, <2>1 DEF Replaced
    <3>2. \A j \in DOMAIN h[n].kids : NameAt(g, n, j) = NameAt(h, n, j)
      BY <1>6, <1>7, <3>1 DEF NameAt
    <3> QED BY <2>1, <3>1, <3>2, FindSame
  <2>2. CASE n = d /\ x = node.name
    <3>1. NameAt(g, d, i) = x
      BY <1>4, <1>5, <2>2 DEF NameAt
    <3>2. d \in 1..Len(g) /\ i \in 1..Len(g[d].kids)
      BY <1>1, <1>4, <1>5
    <3>3. Find(g, d, NameAt(g, d, i)) = g[d].kids[i]
      BY <1>3, <3>2, FindOK
    <3> QED BY <1>4, <2>2, <3>1, <3>3
  <2>3. CASE n = d /\ x # node.name
    <3>1. \A j \in 1..m : NameAt(g, d, j) = NameAt(h, d, j)
      <4>1. NameAt(g, d, i) = NameAt(h, d, i)
        BY <1>4, <1>5 DEF NameAt
      <4>2. \A j \in 1..m : j # i => NameAt(g, d, j) = NameAt(h, d, j)
        BY <1>4, <1>6, <1>7 DEF NameAt
      <4> QED BY <4>1, <4>2
    <3>2. \A j \in Positions(h, d, x) : g[d].kids[j] = h[d].kids[j]
      BY <1>4, <2>3 DEF Positions
    <3> QED BY <1>4, <2>3, <3>1, <3>2, FindSame
  <2> QED BY <2>1, <2>2, <2>3
<1>9. \A x : Find(g, Len(h) + 1, x) = Null
  <2>1. Len(h) + 1 \in 1..Len(g) /\ g[Len(h) + 1].kids = <<>>
    BY <1>1, <1>5
  <2> QED BY <1>3, <2>1, FindFacts
<1>10. Grown(g, h, d, node.name, node)
  BY <1>5, <1>6, <1>8, <1>9 DEF Grown
<1> QED BY <1>10 DEF g

(* add: nothing if there is a child of the name, else a new child.         *)
LEMMA AddGrows ==
    ASSUME NEW N, NEW K, NEW C, NEW h, HeapOK(h, N, K, C), NEW d \in 1..Len(h), NEW node \in NodeSet(N, K, C),
           node.kids = <<>>, node.names = {}
    PROVE  \/ Find(h, d, node.name) # Null /\ Add(h, d, node) = h
           \/ /\ Find(h, d, node.name) = Null
              /\ Grown(Add(h, d, node), h, d, node.name, node)
<1>1. /\ Find(h, d, node.name) = Null <=> Positions(h, d, node.name) = {}
      /\ Find(h, d, node.name) = Null <=> node.name \notin h[d].names
  BY FindFacts
<1>2. CASE node.name \in h[d].names
  BY <1>1, <1>2 DEF Add
<1>3. CASE node.name \notin h[d].names
  <2>1. Grown(PushChild(h, d, node), h, d, node.name, node)
    BY <1>1, <1>3, PushGrows
  <2> QED BY <1>1, <1>3, <2>1 DEF Add
<1> QED BY <1>2, <1>3

(* ensure_dir_child: nothing if the child is there and a directory, else a *)
(* new child of the name, where no child or a file was.                    *)
LEMMA EnsureGrows ==
    ASSUME NEW N, NEW K, NEW C, NEW h, HeapOK(h, N, K, C), NEW d \in 1..Len(h), NEW name \in N, Null \in C, "dir" \in K
    PROVE  \/ /\ Find(h, d, name) # Null /\ IsDir(h, Find(h, d, name))
              /\ EnsureDirChild(h, d, name) = h
           \/ /\ Find(h, d, name) = Null \/ ~IsDir(h, Find(h, d, name))
              /\ Grown(EnsureDirChild(h, d, name), h, d, name, Dir(name))
<1> DEFINE node == Dir(name)
           at == Positions(h, d, name)
<1>1. /\ node \in NodeSet(N, K, C) /\ node.kids = <<>> /\ node.names = {}
      /\ node.name = name
  <2>1. name \in N /\ Null \in C /\ "dir" \in K /\ <<>> \in Seq(Nat) /\ {} \in SUBSET N
    OBVIOUS
  <2> QED BY <2>1 DEF Dir, NodeSet
<1>2. CASE at = {}
  <2>1. EnsureDirChild(h, d, name) = PushChild(h, d, node) /\ Find(h, d, name) = Null
    BY <1>2 DEF EnsureDirChild, Find
  <2> HIDE DEF node
  <2>2. Grown(PushChild(h, d, node), h, d, name, node)
    BY <1>1, <1>2, PushGrows
  <2> QED BY <2>1, <2>2 DEF node
<1>3. CASE at # {}
  <2>1. PICK i \in 1..Len(h[d].kids) : NameAt(h, d, i) = name
    BY <1>3, NodeFacts DEF Positions
  <2>2. First(at) = i /\ Find(h, d, name) = h[d].kids[i] /\ Find(h, d, name) \in 1..Len(h)
    BY <2>1, FindOK
  <2>3. CASE IsDir(h, h[d].kids[i])
    BY <1>3, <2>2, <2>3 DEF EnsureDirChild, Null
  <2>4. CASE ~IsDir(h, h[d].kids[i])
    <3>1. EnsureDirChild(h, d, name) = Replacing(h, d, i, node)
      BY <1>3, <2>2, <2>4 DEF EnsureDirChild, Replacing
    <3> HIDE DEF node
    <3>2. Grown(Replacing(h, d, i, node), h, d, name, node)
      BY <1>1, <2>1, ReplaceGrows
    <3> QED BY <2>2, <2>4, <3>1, <3>2 DEF node
  <2> QED BY <2>3, <2>4
<1> QED BY <1>2, <1>3

-----------------------------------------------------------------------------
(* Paths.                                                                  *)

\* w records the walk from root down p.
Descent(w, h, root, p, S) ==
    /\ Len(p) \in Nat
    /\ w \in [0..Len(p) -> S]
    /\ w[0] = root
    /\ \A i \in 1..Len(p) : w[i] = Child(h, w[i - 1], p[i])

\* The record tells what resolve answers.
LEMMA ResolveWalk ==
    ASSUME NEW w, NEW h, NEW root, NEW p, NEW S, Descent(w, h, root, p, S)
    PROVE  Resolve(h, root, p) = w[Len(p)]
<1> DEFINE n == Len(p)
           Rec(f) == f = [i \in 0..n |-> IF i = 0 THEN root ELSE Child(h, f[i - 1], p[i])]
           at == CHOOSE f : Rec(f)
<1>0. n \in Nat /\ w \in [0..n -> S] /\ w[0] = root
      /\ \A i \in 1..n : w[i] = Child(h, w[i - 1], p[i])
  BY DEF Descent
<1>1. Resolve(h, root, p) = at[n]
  BY DEF Resolve
<1> HIDE DEF n
<1>2. Rec(w)
  <2>1. \A i \in 0..n : w[i] = IF i = 0 THEN root ELSE Child(h, w[i - 1], p[i])
    BY <1>0
  <2>2. w \in [0..n -> S]
    BY <1>0
  <2> QED BY <2>1, <2>2
<1>3. Rec(at)
  <2> HIDE DEF Rec
  <2> QED BY <1>2
<1>4. \A i \in 0..n : at[i] = IF i = 0 THEN root ELSE Child(h, at[i - 1], p[i])
  <2> HIDE DEF at
  <2> QED BY <1>3
<1> HIDE DEF at
<1> DEFINE Good == {k \in 0..n : at[k] = w[k]}
<1>5. 0 \in Good
  BY <1>0, <1>4
<1>6. \A k \in 0..(n - 1) : k \in Good => k + 1 \in Good
  <2> SUFFICES ASSUME NEW k \in 0..(n - 1), k \in Good PROVE k + 1 \in Good
    OBVIOUS
  <2>1. k + 1 \in 1..n /\ k + 1 # 0 /\ (k + 1) - 1 = k
    BY <1>0
  <2>2. at[k + 1] = Child(h, at[k], p[k + 1])
    BY <1>4, <2>1, <1>0
  <2>3. w[k + 1] = Child(h, w[k], p[k + 1])
    BY <1>0, <2>1
  <2> QED BY <2>1, <2>2, <2>3, <1>0
<1>7. \A k \in 0..n : k \in Good
  <2> HIDE DEF Good
  <2> QED BY <1>0, <1>5, <1>6, CountingUp
<1>8. at[n] = w[n]
  BY <1>0, <1>7
<1> QED BY <1>1, <1>8 DEF n

LEMMA ChildFacts ==
    ASSUME NEW N, NEW K, NEW C, NEW h, HeapOK(h, N, K, C), NEW c \in 0..Len(h), NEW x
    PROVE  Child(h, c, x) \in 0..Len(h)
<1>1. Len(h) \in Nat
  BY DEF HeapOK
<1>2. CASE c = Null
  BY <1>1, <1>2 DEF Child, Null
<1>3. CASE c # Null
  <2>1. c \in 1..Len(h)
    BY <1>1, <1>3 DEF Null
  <2>2. Find(h, c, x) \in 0..Len(h)
    BY <2>1, FindFacts
  <2> QED BY <1>1, <2>2 DEF Child, Null
<1> QED BY <1>2, <1>3

\* The walk down a path exists.
LEMMA WalkExists ==
    ASSUME NEW N, NEW K, NEW C, NEW h, HeapOK(h, N, K, C), NEW root \in 1..Len(h), NEW M, NEW p \in Seq(M)
    PROVE  \E w : Descent(w, h, root, p, 0..Len(h))
<1> DEFINE S == 0..Len(h)
           step == [i \in 1..Len(p) |-> [c \in S |-> Child(h, c, p[i])]]
<1>0. Len(h) \in Nat /\ Len(p) \in Nat
  BY DEF HeapOK
<1>1. root \in S
  BY <1>0
<1>2. step \in [1..Len(p) -> [S -> S]]
  <2>1. \A i \in 1..Len(p) : \A c \in S : Child(h, c, p[i]) \in S
    BY ChildFacts
  <2> HIDE DEF S
  <2> QED BY <2>1
<1>3. \A i \in 1..Len(p) : \A c \in S : step[i][c] = Child(h, c, p[i])
  OBVIOUS
<1> DEFINE n == Len(p)
<1>4. Steps(step, root, n, S)
  <2> HIDE DEF step, S
  <2> QED BY <1>0, <1>1, <1>2 DEF Steps
<1> HIDE DEF step
<1>5. PICK w : Record(w, step, root, n, S)
  <2> HIDE DEF n, S
  <2> QED BY <1>4, Iteration
<1>6. w \in [0..n -> S] /\ w[0] = root /\ \A i \in 1..n : w[i] = step[i][w[i - 1]]
  <2> HIDE DEF n, S
  <2> QED BY <1>5 DEF Record
<1>7. \A i \in 1..n : w[i] = Child(h, w[i - 1], p[i])
  <2> SUFFICES ASSUME NEW i \in 1..n PROVE w[i] = Child(h, w[i - 1], p[i])
    OBVIOUS
  <2>1. i - 1 \in 0..n
    BY <1>0
  <2> HIDE DEF S
  <2>2. w[i - 1] \in S
    BY <1>6, <2>1
  <2> QED BY <1>3, <1>6, <2>2
<1>8. Descent(w, h, root, p, S)
  <2> HIDE DEF S
  <2> QED BY <1>0, <1>6, <1>7 DEF Descent
<1> QED BY <1>8

(* resolve descends: nothing for the empty path, one Child for each        *)
(* component.                                                              *)
LEMMA ResolveEmpty ==
    ASSUME NEW h, NEW root
    PROVE  Resolve(h, root, <<>>) = root
<1> DEFINE w == [i \in 0..0 |-> root]
<1>1. w \in [0..0 -> {root}] /\ w[0] = root
  OBVIOUS
<1>2. Len(<<>>) = 0 /\ 1..0 = {}
  OBVIOUS
<1> HIDE DEF w
<1>3. Descent(w, h, root, <<>>, {root})
  BY <1>1, <1>2 DEF Descent
<1>4. Resolve(h, root, <<>>) = w[Len(<<>>)]
  BY <1>3, ResolveWalk
<1> QED BY <1>1, <1>2, <1>4

LEMMA ResolveAppend ==
    ASSUME NEW N, NEW K, NEW C, NEW h, HeapOK(h, N, K, C), NEW root \in 1..Len(h),
           NEW M, NEW q \in Seq(M), NEW x \in M
    PROVE  /\ Resolve(h, root, Append(q, x)) = Child(h, Resolve(h, root, q), x)
           /\ Resolve(h, root, q) \in 0..Len(h)
<1> DEFINE n == Len(q)
           p == Append(q, x)
<1>0. n \in Nat /\ Len(p) = n + 1 /\ p[n + 1] = x /\ \A i \in 1..n : p[i] = q[i]
  OBVIOUS
<1>p. p \in Seq(M)
  OBVIOUS
<1> HIDE DEF p, n
<1>1. PICK w : Descent(w, h, root, p, 0..Len(h))
  BY <1>p, WalkExists
<1>2. Resolve(h, root, p) = w[Len(p)]
  BY <1>1, ResolveWalk
<1>3. /\ w \in [0..(n + 1) -> 0..Len(h)] /\ w[0] = root
      /\ \A i \in 1..(n + 1) : w[i] = Child(h, w[i - 1], p[i])
  BY <1>0, <1>1 DEF Descent
<1> DEFINE v == [i \in 0..n |-> w[i]]
<1>4. /\ v \in [0..n -> 0..Len(h)]
      /\ v[0] = root /\ \A i \in 1..n : v[i] = Child(h, v[i - 1], q[i])
      /\ v[n] = w[n]
  BY <1>0, <1>3
<1> HIDE DEF v
<1>5. Descent(v, h, root, q, 0..Len(h))
  BY <1>0, <1>4 DEF Descent, n
<1>6. Resolve(h, root, q) = v[n]
  BY <1>5, ResolveWalk DEF n
<1>7. w[n + 1] = Child(h, w[n], x)
  BY <1>0, <1>3
<1>8. v[n] \in 0..Len(h)
  BY <1>0, <1>4
<1> QED BY <1>0, <1>2, <1>4, <1>6, <1>7, <1>8 DEF p

\* The path to a node or to nothing, and only directories have paths
\* below them.
LEMMA ResolveFacts ==
    ASSUME NEW N, NEW K, NEW C, NEW h, HeapOK(h, N, K, C), NEW root \in 1..Len(h), NEW M, NEW p \in Seq(M)
    PROVE  Resolve(h, root, p) \in 0..Len(h)
<1>0. Len(h) \in Nat
  BY DEF HeapOK
<1>1. CASE p = <<>>
  BY <1>0, <1>1, ResolveEmpty
<1>2. CASE p # <<>>
  <2>1. PICK q \in Seq(M), x \in M : p = Append(q, x)
    BY <1>2, SequenceEmptyOrAppend
  <2>2. Append(q, x) \in Seq(M) /\ \E y \in M : TRUE
    BY <2>1
  <2>3. Resolve(h, root, q) \in 0..Len(h) /\ Resolve(h, root, p) = Child(h, Resolve(h, root, q), x)
    BY <2>1, ResolveAppend
  <2> QED BY <2>3, ChildFacts
<1> QED BY <1>1, <1>2

LEMMA ResolveBelow ==
    ASSUME NEW N, NEW K, NEW C, NEW h, HeapOK(h, N, K, C), NEW root \in 1..Len(h),
           NEW M, NEW q \in Seq(M), NEW x \in M,
           Resolve(h, root, Append(q, x)) # Null
    PROVE  /\ Resolve(h, root, q) \in 1..Len(h)
           /\ IsDir(h, Resolve(h, root, q))
           /\ Resolve(h, root, Append(q, x)) = Find(h, Resolve(h, root, q), x)
<1>0. Len(h) \in Nat
  BY DEF HeapOK
<1>1. /\ Resolve(h, root, Append(q, x)) = Child(h, Resolve(h, root, q), x)
      /\ Resolve(h, root, q) \in 0..Len(h)
  BY ResolveAppend
<1> QED BY <1>0, <1>1 DEF Child, Null

(* When d's child name becomes a new node, in no directory's place, the    *)
(* path to it is new and every other path leads where it led.              *)
LEMMA ResolveGrown ==
    ASSUME NEW N, NEW K, NEW C, NEW h, HeapOK(h, N, K, C), NEW g, HeapOK(g, N, K, C),
           NEW root \in 1..Len(h), NEW d \in 1..Len(h), IsDir(h, d), NEW name, NEW node,
           Grown(g, h, d, name, node),
           Find(h, d, name) = Null \/ ~IsDir(h, Find(h, d, name)),
           NEW M, NEW p \in Seq(M)
    PROVE  Resolve(g, root, p) =
              IF \E q \in Seq(M) : p = Append(q, name) /\ Resolve(h, root, q) = d
              THEN Len(h) + 1 ELSE Resolve(h, root, p)
<1> DEFINE New(r) == \E q \in Seq(M) : r = Append(q, name) /\ Resolve(h, root, q) = d
           Good == {r \in Seq(M) : Resolve(g, root, r) = IF New(r) THEN Len(h) + 1 ELSE Resolve(h, root, r)}
<1>1. /\ Len(h) \in Nat /\ Len(g) = Len(h) + 1
      /\ \A n \in 1..Len(h) : IsDir(g, n) <=> IsDir(h, n)
      /\ \A n \in 1..Len(h) : \A x :
            Find(g, n, x) = IF n = d /\ x = name THEN Len(h) + 1 ELSE Find(h, n, x)
      /\ \A x : Find(g, Len(h) + 1, x) = Null
  BY DEF Grown, HeapOK, IsDir
<1>2. root \in 1..Len(g)
  BY <1>1
<1>3. <<>> \in Good
  <2>1. ~New(<<>>)
    <3> SUFFICES ASSUME NEW q \in Seq(M), <<>> = Append(q, name) PROVE FALSE
      OBVIOUS
    <3>1. Len(Append(q, name)) = Len(q) + 1 /\ Len(q) \in Nat
      OBVIOUS
    <3> QED BY <3>1
  <2> QED BY <2>1, ResolveEmpty
<1>4. ASSUME NEW q \in Seq(M), NEW x \in M, q \in Good PROVE Append(q, x) \in Good
  <2> DEFINE r == Append(q, x)
             a == Resolve(h, root, q)
             b == Resolve(g, root, q)
  <2>1. r \in Seq(M)
    OBVIOUS
  <2>2. Resolve(h, root, r) = Child(h, a, x) /\ a \in 0..Len(h)
    BY ResolveAppend
  <2>3. Resolve(g, root, r) = Child(g, b, x)
    BY <1>2, ResolveAppend
  <2>4. New(r) <=> x = name /\ a = d
    <3>1. \A s \in Seq(M) : r = Append(s, name) => s = q /\ x = name
      <4> SUFFICES ASSUME NEW s \in Seq(M), Append(q, x) = Append(s, name) PROVE s = q /\ x = name
        OBVIOUS
      <4>1. Len(q) = Len(s)
        <5>1. Len(Append(q, x)) = Len(q) + 1 /\ Len(Append(s, name)) = Len(s) + 1
          OBVIOUS
        <5> QED BY <5>1
      <4>2. \A i \in 1..Len(q) : Append(q, x)[i] = q[i] /\ Append(s, name)[i] = s[i]
        BY <4>1
      <4>3. Append(q, x)[Len(q) + 1] = x /\ Append(s, name)[Len(s) + 1] = name
        OBVIOUS
      <4> QED BY <4>1, <4>2, <4>3, SeqEqual
    <3> QED BY <3>1
  <2>5. b = IF New(q) THEN Len(h) + 1 ELSE a
    BY <1>4
  <2> HIDE DEF r, a, b
  <2>6. CASE New(q)
    <3>1. b = Len(h) + 1
      BY <2>5, <2>6
    <3>2. Child(g, b, x) = Null
      BY <1>1, <3>1 DEF Child, Null
    <3>3. a = Find(h, d, name)
      <4>1. PICK s \in Seq(M) : q = Append(s, name) /\ Resolve(h, root, s) = d
        BY <2>6
      <4>2. name \in M
        <5>1. Len(q) = Len(s) + 1 /\ q[Len(s) + 1] = name /\ Len(s) \in Nat
          BY <4>1
        <5> QED BY <5>1
      <4>3. a = Child(h, d, name)
        BY <4>1, <4>2, ResolveAppend DEF a
      <4> QED BY <1>1, <4>3 DEF Child, Null
    <3>4. Child(h, a, x) = Null /\ a # d
      BY <1>1, <3>3 DEF Child, Null
    <3> QED BY <2>1, <2>2, <2>3, <2>4, <3>2, <3>4 DEF r
  <2>7. CASE ~New(q)
    <3>1. b = a
      BY <2>5, <2>7
    <3>2. CASE a = Null
      <4>1. Child(g, b, x) = Null /\ Child(h, a, x) = Null /\ a # d
        BY <1>1, <3>1, <3>2 DEF Child, Null
      <4> QED BY <2>1, <2>2, <2>3, <2>4, <4>1 DEF r
    <3>3. CASE a # Null
      <4>1. a \in 1..Len(h)
        BY <1>1, <2>2, <3>3 DEF Null
      <4>2. Child(g, a, x) = IF a = d /\ x = name THEN Len(h) + 1 ELSE Child(h, a, x)
        BY <1>1, <3>3, <4>1 DEF Child
      <4> QED BY <2>1, <2>2, <2>3, <2>4, <3>1, <4>2 DEF r
    <3> QED BY <3>2, <3>3
  <2> QED BY <2>6, <2>7 DEF r
<1>5. p \in Good
  <2> HIDE DEF Good
  <2>1. \A q \in Seq(M), x \in M : q \in Good => Append(q, x) \in Good
    BY <1>4
  <2> QED BY <1>3, <2>1, PathInduction
<1> QED BY <1>5

\* A directory is reached along one path only.
PathUnique(h, root, M) ==
    \A p, q \in Seq(M) :
        Resolve(h, root, p) = Resolve(h, root, q) /\ Resolve(h, root, p) # Null => p = q

(* Growth below a directory that is reached: one path is given a new node. *)
LEMMA GrownAt ==
    ASSUME NEW N, NEW K, NEW C, NEW h, HeapOK(h, N, K, C), NEW g, HeapOK(g, N, K, C),
           NEW root \in 1..Len(h), NEW d \in 1..Len(h), IsDir(h, d), NEW name, NEW node,
           Grown(g, h, d, name, node),
           Find(h, d, name) = Null \/ ~IsDir(h, Find(h, d, name)),
           NEW M, name \in M, PathUnique(h, root, M), NEW r \in Seq(M), Resolve(h, root, r) = d
    PROVE  /\ \A p \in Seq(M) : Resolve(g, root, p) =
                 IF p = Append(r, name) THEN Len(h) + 1 ELSE Resolve(h, root, p)
           /\ PathUnique(g, root, M)
           /\ Resolve(h, root, Append(r, name)) = Find(h, d, name)
<1>0. Len(h) \in Nat
  BY DEF HeapOK
<1>1. \A p \in Seq(M) : Resolve(g, root, p) =
          IF \E q \in Seq(M) : p = Append(q, name) /\ Resolve(h, root, q) = d
          THEN Len(h) + 1 ELSE Resolve(h, root, p)
  BY ResolveGrown
<1>2. \A q \in Seq(M) : Resolve(h, root, q) = d => q = r
  BY <1>0 DEF PathUnique, Null
<1>3. \A p \in Seq(M) : Resolve(g, root, p) =
          IF p = Append(r, name) THEN Len(h) + 1 ELSE Resolve(h, root, p)
  BY <1>1, <1>2
<1>4. \A p \in Seq(M) : Resolve(h, root, p) \in 0..Len(h)
  BY ResolveFacts
<1>5. PathUnique(g, root, M)
  <2> DEFINE new == Append(r, name)
  <2> HIDE DEF new
  <2> SUFFICES ASSUME NEW p \in Seq(M), NEW q \in Seq(M),
                      Resolve(g, root, p) = Resolve(g, root, q), Resolve(g, root, p) # Null
               PROVE  p = q
    BY DEF PathUnique
  <2>1. /\ Resolve(g, root, p) = IF p = new THEN Len(h) + 1 ELSE Resolve(h, root, p)
        /\ Resolve(g, root, q) = IF q = new THEN Len(h) + 1 ELSE Resolve(h, root, q)
    BY <1>3 DEF new
  <2>2. Resolve(h, root, p) \in 0..Len(h) /\ Resolve(h, root, q) \in 0..Len(h)
    BY <1>4
  <2>3. p = new <=> q = new
    <3>1. Resolve(h, root, p) # Len(h) + 1 /\ Resolve(h, root, q) # Len(h) + 1
      <4> DEFINE a == Resolve(h, root, p)
                 b == Resolve(h, root, q)
      <4>1. a \in 0..Len(h) /\ b \in 0..Len(h)
        BY <2>2
      <4> HIDE DEF a, b
      <4>2. a # Len(h) + 1 /\ b # Len(h) + 1
        BY <1>0, <4>1
      <4> QED BY <4>2 DEF a, b
    <3> QED BY <2>1, <3>1
  <2>4. p # new => Resolve(h, root, p) = Resolve(h, root, q) /\ Resolve(h, root, p) # Null
    BY <2>1, <2>3
  <2> QED BY <2>3, <2>4 DEF PathUnique
<1>6. Resolve(h, root, Append(r, name)) = Child(h, d, name)
  BY ResolveAppend
<1> QED BY <1>0, <1>3, <1>5, <1>6 DEF Child, Null

(* Growth below a directory that is not reached: no path is changed.       *)
LEMMA GrownAside ==
    ASSUME NEW N, NEW K, NEW C, NEW h, HeapOK(h, N, K, C), NEW g, HeapOK(g, N, K, C),
           NEW root \in 1..Len(h), NEW d \in 1..Len(h), IsDir(h, d), NEW name, NEW node,
           Grown(g, h, d, name, node),
           Find(h, d, name) = Null \/ ~IsDir(h, Find(h, d, name)),
           NEW M, PathUnique(h, root, M), \A q \in Seq(M) : Resolve(h, root, q) # d
    PROVE  /\ \A p \in Seq(M) : Resolve(g, root, p) = Resolve(h, root, p)
           /\ PathUnique(g, root, M)
<1>1. \A p \in Seq(M) : Resolve(g, root, p) =
          IF \E q \in Seq(M) : p = Append(q, name) /\ Resolve(h, root, q) = d
          THEN Len(h) + 1 ELSE Resolve(h, root, p)
  BY ResolveGrown
<1>2. \A p \in Seq(M) : Resolve(g, root, p) = Resolve(h, root, p)
  BY <1>1
<1> QED BY <1>2 DEF PathUnique

(* Below an empty directory there is nothing.                              *)
LEMMA EmptyTree ==
    ASSUME NEW N, NEW K, NEW C, NEW h, HeapOK(h, N, K, C), NEW root \in 1..Len(h), h[root].kids = <<>>, NEW M
    PROVE  /\ \A p \in Seq(M) : p # <<>> => Resolve(h, root, p) = Null
           /\ PathUnique(h, root, M)
<1> DEFINE Good == {p \in Seq(M) : p # <<>> => Resolve(h, root, p) = Null}
<1>0. Len(h) \in Nat
  BY DEF HeapOK
<1>1. <<>> \in Good
  OBVIOUS
<1>2. ASSUME NEW q \in Seq(M), NEW x \in M, q \in Good PROVE Append(q, x) \in Good
  <2>1. Resolve(h, root, Append(q, x)) = Child(h, Resolve(h, root, q), x)
    BY ResolveAppend
  <2>2. CASE q = <<>>
    <3>1. Resolve(h, root, q) = root
      BY <2>2, ResolveEmpty
    <3>2. Find(h, root, x) = Null
      BY FindFacts
    <3> QED BY <2>1, <3>1, <3>2 DEF Child
  <2>3. CASE q # <<>>
    <3>1. Resolve(h, root, q) = Null
      BY <1>2, <2>3
    <3> QED BY <2>1, <3>1 DEF Child
  <2> QED BY <2>2, <2>3
<1>3. \A p \in Seq(M) : p \in Good
  <2> HIDE DEF Good
  <2>1. \A q \in Seq(M), x \in M : q \in Good => Append(q, x) \in Good
    BY <1>2
  <2> QED BY <1>1, <2>1, PathInduction
<1>4. \A p \in Seq(M) : p # <<>> => Resolve(h, root, p) = Null
  BY <1>3
<1> QED BY <1>4 DEF PathUnique

(* What is reached is reached through directories.                         *)
LEMMA PrefixDirs ==
    ASSUME NEW N, NEW K, NEW C, NEW h, HeapOK(h, N, K, C), NEW root \in 1..Len(h),
           NEW M, NEW p \in Seq(M), Resolve(h, root, p) # Null, NEW k \in 0..(Len(p) - 1)
    PROVE  /\ Resolve(h, root, SubSeq(p, 1, k)) # Null
           /\ IsDir(h, Resolve(h, root, SubSeq(p, 1, k)))
<1> DEFINE Dirs(r) == Resolve(h, root, r) # Null /\ IsDir(h, Resolve(h, root, r))
           Good == {r \in Seq(M) : Resolve(h, root, r) # Null =>
                                      \A i \in 0..(Len(r) - 1) : Dirs(SubSeq(r, 1, i))}
<1>1. <<>> \in Good
  OBVIOUS
<1>2. ASSUME NEW q \in Seq(M), NEW x \in M, q \in Good PROVE Append(q, x) \in Good
  <2> DEFINE r == Append(q, x)
  <2>1. r \in Seq(M) /\ Len(r) = Len(q) + 1 /\ Len(q) \in Nat
    OBVIOUS
  <2> SUFFICES ASSUME Resolve(h, root, r) # Null, NEW i \in 0..Len(q) PROVE Dirs(SubSeq(r, 1, i))
    BY <2>1
  <2>2. Resolve(h, root, q) \in 1..Len(h) /\ Dirs(q)
    <3>1. Len(h) \in Nat
      BY DEF HeapOK
    <3>2. Resolve(h, root, q) \in 1..Len(h) /\ IsDir(h, Resolve(h, root, q))
      BY ResolveBelow
    <3> QED BY <3>1, <3>2 DEF Null
  <2>3. SubSeq(r, 1, i) = SubSeq(q, 1, i)
    <3>1. \A j \in 1..i : r[j] = q[j]
      BY <2>1
    <3>2. /\ SubSeq(r, 1, i) \in Seq(M) /\ Len(SubSeq(r, 1, i)) = i
          /\ \A j \in 1..i : SubSeq(r, 1, i)[j] = r[j]
      BY <2>1
    <3>3. /\ SubSeq(q, 1, i) \in Seq(M) /\ Len(SubSeq(q, 1, i)) = i
          /\ \A j \in 1..i : SubSeq(q, 1, i)[j] = q[j]
      BY <2>1
    <3> QED BY <3>1, <3>2, <3>3, SeqEqual
  <2> HIDE DEF r, Dirs
  <2>4. CASE i = Len(q)
    <3>1. SubSeq(q, 1, i) = q
      BY <2>4, SubSeqFull
    <3> QED BY <2>2, <2>3, <3>1
  <2>5. CASE i # Len(q)
    <3>1. i \in 0..(Len(q) - 1)
      BY <2>1, <2>5
    <3>2. Resolve(h, root, q) # Null
      BY <2>2 DEF Dirs
    <3> QED BY <1>2, <2>3, <3>1, <3>2
  <2> QED BY <2>4, <2>5
<1>3. p \in Good
  <2> HIDE DEF Good
  <2>1. \A q \in Seq(M), x \in M : q \in Good => Append(q, x) \in Good
    BY <1>2
  <2> QED BY <1>1, <2>1, PathInduction
<1> QED BY <1>3

-----------------------------------------------------------------------------
(* What a step does to the tree below root.                                *)

\* What stands at a path.
Entry(h, root, p) ==
    IF Resolve(h, root, p) = Null THEN [kind |-> "none", ci |-> Null]
    ELSE [kind |-> h[Resolve(h, root, p)].kind, ci |-> h[Resolve(h, root, p)].ci]

\* No path leads elsewhere, or to something else.
AlikeAt(g, h, root, p) ==
    Resolve(g, root, p) = Resolve(h, root, p) /\ Entry(g, root, p) = Entry(h, root, p)
Alike(g, h, root, M) == \A p \in Seq(M) : AlikeAt(g, h, root, p)

\* A new node at t, and no other change.
Put(g, h, root, M, t, node) ==
    /\ \A p \in Seq(M) : p # t => AlikeAt(g, h, root, p)
    /\ Resolve(g, root, t) = Len(h) + 1
    /\ Entry(g, root, t) = [kind |-> node.kind, ci |-> node.ci]

LEMMA PutAt ==
    ASSUME NEW N, NEW K, NEW C, NEW h, HeapOK(h, N, K, C), NEW g, HeapOK(g, N, K, C),
           NEW root \in 1..Len(h), NEW d \in 1..Len(h), IsDir(h, d), NEW name, NEW node,
           Grown(g, h, d, name, node),
           Find(h, d, name) = Null \/ ~IsDir(h, Find(h, d, name)),
           NEW M, name \in M, PathUnique(h, root, M), NEW r \in Seq(M), Resolve(h, root, r) = d
    PROVE  Put(g, h, root, M, Append(r, name), node)
<1> DEFINE t == Append(r, name)
<1>1. /\ Len(h) \in Nat
      /\ \A n \in 1..Len(h) : g[n].kind = h[n].kind /\ g[n].ci = h[n].ci
      /\ g[Len(h) + 1] = node
  BY DEF HeapOK, Grown
<1>2. \A p \in Seq(M) : Resolve(g, root, p) = IF p = t THEN Len(h) + 1 ELSE Resolve(h, root, p)
  BY GrownAt
<1>3. \A p \in Seq(M) : Resolve(h, root, p) \in 0..Len(h)
  BY ResolveFacts
<1>4. t \in Seq(M)
  OBVIOUS
<1> HIDE DEF t
<1>5. ASSUME NEW p \in Seq(M), p # t PROVE AlikeAt(g, h, root, p)
  <2> DEFINE a == Resolve(h, root, p)
  <2>1. Resolve(g, root, p) = a /\ a \in 0..Len(h)
    BY <1>2, <1>3, <1>5
  <2> HIDE DEF a
  <2>2. a # Null => g[a].kind = h[a].kind /\ g[a].ci = h[a].ci
    BY <1>1, <2>1 DEF Null
  <2> QED BY <2>1, <2>2 DEF AlikeAt, Entry, a
<1>6. Resolve(g, root, t) = Len(h) + 1 /\ Len(h) + 1 # Null
  BY <1>1, <1>2, <1>4 DEF Null
<1>7. Entry(g, root, t) = [kind |-> node.kind, ci |-> node.ci]
  BY <1>1, <1>6 DEF Entry
<1> QED BY <1>5, <1>6, <1>7 DEF Put, t

\* Below root, where paths are unique, r leads to the directory d.
Reached(h, root, r, d, M, N, K, C) ==
    /\ HeapOK(h, N, K, C)
    /\ root \in 1..Len(h)
    /\ PathUnique(h, root, M)
    /\ r \in Seq(M)
    /\ Resolve(h, root, r) = d
    /\ d \in 1..Len(h) /\ IsDir(h, d)

\* g is h after a call in d: well-formed, its directories as they were.
Grew(g, h, root, M, N, K, C) ==
    /\ HeapOK(g, N, K, C) /\ PathUnique(g, root, M) /\ Len(h) <= Len(g)
    /\ \A n \in 1..Len(h) : IsDir(g, n) <=> IsDir(h, n)

\* A directory is at t, made if it was not there, and find finds it.
Ensured(g, h, root, t, d, name, M) ==
    /\ \/ Entry(h, root, t).kind = "dir" /\ g = h
       \/ Entry(h, root, t).kind # "dir" /\ Put(g, h, root, M, t, Dir(name))
    /\ Find(g, d, name) \in 1..Len(g) /\ IsDir(g, Find(g, d, name))
    /\ Resolve(g, root, t) = Find(g, d, name)

\* The node is at t, unless something was there.
Added(g, h, root, t, d, node, M) ==
    /\ Find(h, d, node.name) # Null <=> Entry(h, root, t).kind # "none"
    /\ \/ Find(h, d, node.name) # Null /\ g = h
       \/ Find(h, d, node.name) = Null /\ Put(g, h, root, M, t, node)

(* ensure_dir_child in a directory that is reached: a directory is there,  *)
(* or it is made.                                                          *)
LEMMA EnsureAt ==
    ASSUME NEW N, NEW K, NEW C, NEW h, NEW root, NEW r, NEW d, NEW M, Reached(h, root, r, d, M, N, K, C),
           NEW name, name \in N, name \in M, Null \in C, "dir" \in K,
           NEW g, g = EnsureDirChild(h, d, name), NEW t, t = Append(r, name)
    PROVE  Grew(g, h, root, M, N, K, C) /\ Ensured(g, h, root, t, d, name, M)
<1>0. /\ HeapOK(h, N, K, C) /\ root \in 1..Len(h) /\ d \in 1..Len(h) /\ IsDir(h, d)
      /\ PathUnique(h, root, M) /\ r \in Seq(M) /\ Resolve(h, root, r) = d
  BY DEF Reached
<1> USE <1>0
<1>1. HeapOK(g, N, K, C) /\ Len(h) <= Len(g) /\ Find(g, d, name) \in 1..Len(g)
  BY EnsureOK
<1>2. Resolve(h, root, t) = Find(h, d, name) /\ t \in Seq(M) /\ Len(h) \in Nat
  <2>1. Resolve(h, root, Append(r, name)) = Child(h, d, name)
    BY ResolveAppend
  <2>2. Len(h) \in Nat
    BY DEF HeapOK
  <2> QED BY <2>1, <2>2 DEF Child, Null
<1>3. CASE Find(h, d, name) # Null /\ IsDir(h, Find(h, d, name))
  <2>1. g = h
    BY <1>3, EnsureGrows
  <2>2. Entry(h, root, t).kind = "dir"
    BY <1>2, <1>3 DEF Entry, IsDir
  <2> QED BY <1>1, <1>2, <1>3, <2>1, <2>2 DEF Grew, Ensured
<1>4. CASE ~(Find(h, d, name) # Null /\ IsDir(h, Find(h, d, name)))
  <2>1. Grown(g, h, d, name, Dir(name))
    BY <1>4, EnsureGrows
  <2>2. PathUnique(g, root, M) /\ Put(g, h, root, M, t, Dir(name))
    BY <1>1, <1>4, <2>1, GrownAt, PutAt
  <2>3. Entry(h, root, t).kind # "dir"
    BY <1>2, <1>4 DEF Entry, IsDir
  <2>4. \A n \in 1..Len(h) : IsDir(g, n) <=> IsDir(h, n)
    BY <2>1 DEF Grown, IsDir
  <2>5. Find(g, d, name) = Len(h) + 1 /\ IsDir(g, Len(h) + 1)
    BY <2>1 DEF Grown, IsDir, Dir
  <2>6. Resolve(g, root, t) = Len(h) + 1
    BY <2>2 DEF Put
  <2> QED BY <1>1, <2>2, <2>3, <2>4, <2>5, <2>6 DEF Grew, Ensured
<1> QED BY <1>3, <1>4

(* add in a directory that is reached: something is there, or the node is  *)
(* put there.                                                              *)
LEMMA AddAt ==
    ASSUME NEW N, NEW K, NEW C, NEW h, NEW root, NEW r, NEW d, NEW M, Reached(h, root, r, d, M, N, K, C), "none" \notin K,
           NEW node, node \in NodeSet(N, K, C), node.kids = <<>>, node.names = {}, node.name \in M,
           NEW g, g = Add(h, d, node), NEW t, t = Append(r, node.name)
    PROVE  Grew(g, h, root, M, N, K, C) /\ Added(g, h, root, t, d, node, M)
<1>0. /\ HeapOK(h, N, K, C) /\ root \in 1..Len(h) /\ d \in 1..Len(h) /\ IsDir(h, d)
      /\ PathUnique(h, root, M) /\ r \in Seq(M) /\ Resolve(h, root, r) = d
  BY DEF Reached
<1> USE <1>0
<1>1. HeapOK(g, N, K, C) /\ Len(h) <= Len(g)
  BY AddOK
<1>2. Resolve(h, root, t) = Find(h, d, node.name) /\ Len(h) \in Nat
  <2>1. Resolve(h, root, Append(r, node.name)) = Child(h, d, node.name)
    BY ResolveAppend
  <2>2. Len(h) \in Nat
    BY DEF HeapOK
  <2> QED BY <2>1, <2>2 DEF Child, Null
<1>3. Find(h, d, node.name) # Null <=> Entry(h, root, t).kind # "none"
  <2>1. Find(h, d, node.name) \in 0..Len(h)
    BY FindFacts
  <2>2. \A n \in 1..Len(h) : h[n].kind # "none"
    BY NodeFacts
  <2> QED BY <1>2, <2>1, <2>2 DEF Entry, Null
<1>4. CASE Find(h, d, node.name) # Null
  <2>1. g = h
    BY <1>4, AddGrows
  <2> QED BY <1>1, <1>3, <1>4, <2>1 DEF Grew, Added
<1>5. CASE Find(h, d, node.name) = Null
  <2>1. Grown(g, h, d, node.name, node)
    BY <1>5, AddGrows
  <2>2. PathUnique(g, root, M) /\ Put(g, h, root, M, t, node)
    BY <1>1, <1>5, <2>1, GrownAt, PutAt
  <2>3. \A n \in 1..Len(h) : IsDir(g, n) <=> IsDir(h, n)
    BY <2>1 DEF Grown, IsDir
  <2> QED BY <1>1, <1>3, <1>5, <2>2, <2>3 DEF Grew, Added
<1> QED BY <1>4, <1>5

(* add in a directory that is not reached changes no path.                 *)
LEMMA AddAside ==
    ASSUME NEW N, NEW K, NEW C, NEW h, HeapOK(h, N, K, C), NEW root \in 1..Len(h),
           NEW d \in 1..Len(h), IsDir(h, d), NEW node \in NodeSet(N, K, C),
           node.kids = <<>>, node.names = {},
           NEW M, PathUnique(h, root, M), \A q \in Seq(M) : Resolve(h, root, q) # d,
           NEW g, g = Add(h, d, node)
    PROVE  Grew(g, h, root, M, N, K, C) /\ Alike(g, h, root, M)
<1>1. HeapOK(g, N, K, C) /\ Len(h) <= Len(g)
  BY AddOK
<1>2. CASE Find(h, d, node.name) # Null
  <2>1. g = h
    BY <1>2, AddGrows
  <2> QED BY <1>1, <2>1 DEF Alike, AlikeAt, Grew
<1>3. CASE Find(h, d, node.name) = Null
  <2>1. Grown(g, h, d, node.name, node)
    BY <1>3, AddGrows
  <2>2. \A p \in Seq(M) : Resolve(g, root, p) = Resolve(h, root, p)
    BY <1>1, <1>3, <2>1, GrownAside
  <2>3. PathUnique(g, root, M)
    BY <1>1, <1>3, <2>1, GrownAside
  <2>4. /\ \A n \in 1..Len(h) : IsDir(g, n) <=> IsDir(h, n)
        /\ \A n \in 1..Len(h) : g[n].kind = h[n].kind /\ g[n].ci = h[n].ci
    BY <2>1 DEF Grown, IsDir
  <2>5. ASSUME NEW p \in Seq(M) PROVE AlikeAt(g, h, root, p)
    <3> DEFINE a == Resolve(h, root, p)
    <3>1. a \in 0..Len(h) /\ Resolve(g, root, p) = a /\ Len(h) \in Nat
      BY <2>2, ResolveFacts DEF HeapOK
    <3> HIDE DEF a
    <3>2. a # Null => g[a].kind = h[a].kind /\ g[a].ci = h[a].ci
      BY <2>4, <3>1 DEF Null
    <3> QED BY <3>1, <3>2 DEF AlikeAt, Entry, a
  <2> QED BY <1>1, <2>3, <2>4, <2>5 DEF Alike, Grew
<1> QED BY <1>2, <1>3

-----------------------------------------------------------------------------
(* A path, and the components before its last one that a loop over them    *)
(* has still to walk.                                                      *)

Follows(left, p, M) ==
    /\ left \in Seq(M)
    /\ Len(left) <= Len(p) - 1
    /\ \A i \in 1..Len(left) : left[i] = p[Len(p) - 1 - Len(left) + i]
Walked(left, p) == SubSeq(p, 1, Len(p) - 1 - Len(left))

LEMMA FirstPart ==
    ASSUME NEW S, NEW p \in Seq(S), NEW k \in 0..Len(p)
    PROVE  /\ SubSeq(p, 1, k) \in Seq(S)
           /\ Len(SubSeq(p, 1, k)) = k
           /\ \A i \in 1..k : SubSeq(p, 1, k)[i] = p[i]
  OBVIOUS

LEMMA FollowsStart ==
    ASSUME NEW M, NEW p \in Seq(M), p # <<>>
    PROVE  /\ Follows(Front(p), p, M)
           /\ Walked(Front(p), p) = <<>>
<1>1. Len(p) \in Nat \ {0}
  BY EmptySeq
<1>2. /\ Front(p) \in Seq(M) /\ Len(Front(p)) = Len(p) - 1
      /\ \A i \in 1..(Len(p) - 1) : Front(p)[i] = p[i]
  <2>1. Len(p) - 1 \in 0..Len(p)
    BY <1>1
  <2> QED BY <2>1, FirstPart DEF Front
<1> QED BY <1>1, <1>2 DEF Follows, Walked

LEMMA FollowsStep ==
    ASSUME NEW M, NEW p \in Seq(M), NEW left, Follows(left, p, M), left # <<>>
    PROVE  /\ Follows(Tail(left), p, M)
           /\ Walked(left, p) \in Seq(M)
           /\ Head(left) \in M
           /\ Walked(Tail(left), p) = Append(Walked(left, p), Head(left))
           /\ Walked(Tail(left), p) \in Prefixes(p) \ {<<>>, p}
<1> DEFINE n == Len(left)
           m == Len(p)
           k == m - 1 - n
<1>1. /\ left \in Seq(M) /\ n \in Nat \ {0} /\ m \in Nat /\ n <= m - 1 /\ k \in 0..(m - 2)
      /\ \A i \in 1..n : left[i] = p[k + i]
  BY EmptySeq DEF Follows
<1>2. /\ Tail(left) \in Seq(M) /\ Len(Tail(left)) = n - 1
      /\ \A i \in 1..(n - 1) : Tail(left)[i] = left[i + 1]
      /\ Head(left) = left[1] /\ Head(left) \in M
  BY <1>1
<1>3. Follows(Tail(left), p, M)
  <2>1. \A i \in 1..(n - 1) : Tail(left)[i] = p[m - 1 - (n - 1) + i]
    <3> SUFFICES ASSUME NEW i \in 1..(n - 1) PROVE Tail(left)[i] = p[m - 1 - (n - 1) + i]
      OBVIOUS
    <3>1. i + 1 \in 1..n /\ k + (i + 1) = m - 1 - (n - 1) + i
      BY <1>1
    <3> QED BY <1>1, <1>2, <3>1
  <2> HIDE DEF n, m
  <2> QED BY <1>1, <1>2, <2>1 DEF Follows, n, m
<1>4. Walked(left, p) = SubSeq(p, 1, k) /\ Walked(Tail(left), p) = SubSeq(p, 1, k + 1)
  <2>1. m - 1 - (n - 1) = k + 1
    BY <1>1
  <2> QED BY <1>2, <2>1 DEF Walked
<1>5. /\ SubSeq(p, 1, k) \in Seq(M) /\ Len(SubSeq(p, 1, k)) = k
      /\ \A i \in 1..k : SubSeq(p, 1, k)[i] = p[i]
  BY <1>1
<1>6. /\ SubSeq(p, 1, k + 1) \in Seq(M) /\ Len(SubSeq(p, 1, k + 1)) = k + 1
      /\ \A i \in 1..(k + 1) : SubSeq(p, 1, k + 1)[i] = p[i]
  BY <1>1
<1>7. SubSeq(p, 1, k + 1) = Append(SubSeq(p, 1, k), Head(left))
  <2> DEFINE a == SubSeq(p, 1, k)
             b == SubSeq(p, 1, k + 1)
             c == Append(a, Head(left))
  <2>1. Head(left) = p[k + 1]
    BY <1>1, <1>2
  <2> HIDE DEF a, b
  <2>2. c \in Seq(M) /\ Len(c) = k + 1 /\ c[k + 1] = p[k + 1] /\ \A i \in 1..k : c[i] = p[i]
    BY <1>1, <1>2, <1>5, <2>1 DEF a
  <2> HIDE DEF c
  <2>3. \A i \in 1..(k + 1) : b[i] = c[i]
    <3>1. \A i \in 1..(k + 1) : i \in 1..k \/ i = k + 1
      BY <1>1
    <3> QED BY <1>6, <2>2, <3>1 DEF b
  <2>4. b = c
    BY <1>6, <2>2, <2>3, SeqEqual DEF b
  <2> QED BY <2>4 DEF a, b, c
<1>8. SubSeq(p, 1, k + 1) \in Prefixes(p) \ {<<>>, p}
  <2>1. k + 1 \in 0..m /\ k + 1 # 0 /\ k + 1 # m
    BY <1>1
  <2>2. SubSeq(p, 1, k + 1) \in Prefixes(p)
    BY <2>1 DEF Prefixes
  <2>3. SubSeq(p, 1, k + 1) # <<>> /\ SubSeq(p, 1, k + 1) # p
    BY <1>6, <2>1
  <2> QED BY <2>2, <2>3
<1> HIDE DEF k
<1> QED BY <1>2, <1>3, <1>4, <1>5, <1>7, <1>8

LEMMA FollowsEnd ==
    ASSUME NEW M, NEW p \in Seq(M), p # <<>>
    PROVE  /\ Walked(<<>>, p) \in Seq(M)
           /\ Last(p) \in M
           /\ Append(Walked(<<>>, p), Last(p)) = p
           /\ p \in Prefixes(p)
           /\ \A q \in Prefixes(p) \ {p} : \E k \in 0..(Len(p) - 1) : q = SubSeq(p, 1, k)
<1> DEFINE m == Len(p)
<1>1. m \in Nat \ {0}
  BY EmptySeq
<1>2. Walked(<<>>, p) = SubSeq(p, 1, m - 1)
  BY <1>1 DEF Walked
<1>3. /\ SubSeq(p, 1, m - 1) \in Seq(M) /\ Len(SubSeq(p, 1, m - 1)) = m - 1
      /\ \A i \in 1..(m - 1) : SubSeq(p, 1, m - 1)[i] = p[i]
  <2>1. m - 1 \in 0..m
    BY <1>1
  <2> QED BY <2>1, FirstPart
<1>4. Last(p) = p[m] /\ Last(p) \in M
  BY <1>1 DEF Last
<1>5. Append(Walked(<<>>, p), Last(p)) = p
  <2> DEFINE a == SubSeq(p, 1, m - 1)
             c == Append(a, Last(p))
  <2> HIDE DEF a
  <2>1. c \in Seq(M) /\ Len(c) = m /\ c[m] = p[m] /\ \A i \in 1..(m - 1) : c[i] = p[i]
    BY <1>1, <1>3, <1>4 DEF a
  <2> HIDE DEF c
  <2>2. \A i \in 1..m : c[i] = p[i]
    <3>1. \A i \in 1..m : i \in 1..(m - 1) \/ i = m
      BY <1>1
    <3> QED BY <2>1, <3>1
  <2>3. c = p
    BY <2>1, <2>2, SeqEqual
  <2> QED BY <1>2, <2>3 DEF a, c
<1>6. SubSeq(p, 1, m) = p
  BY SubSeqFull
<1>7. p \in Prefixes(p)
  <2>1. m \in 0..m
    BY <1>1
  <2> HIDE DEF m
  <2> QED BY <1>6, <2>1 DEF Prefixes, m
<1>8. \A q \in Prefixes(p) \ {p} : \E k \in 0..(m - 1) : q = SubSeq(p, 1, k)
  <2>1. \A k \in 0..m : k = m \/ k \in 0..(m - 1)
    BY <1>1
  <2> HIDE DEF m
  <2> QED BY <1>6, <2>1 DEF Prefixes, m
<1> QED BY <1>2, <1>3, <1>4, <1>5, <1>7, <1>8

-----------------------------------------------------------------------------
(* Nodes no path leads to.                                                 *)

\* No directory has the root for a child, and no two have one in common.
Rooted(h, root) ==
    \A c, d \in 1..Len(h) : \A x, y :
        Find(h, c, x) # Null =>
            Find(h, c, x) # root /\ (Find(h, c, x) = Find(h, d, y) => c = d)
Apart(h, root, d, M) == \A p \in Seq(M) : Resolve(h, root, p) # d

LEMMA RootedGrown ==
    ASSUME NEW N, NEW K, NEW C, NEW h, HeapOK(h, N, K, C), NEW root \in 1..Len(h), Rooted(h, root),
           NEW g, NEW d \in 1..Len(h), NEW name, NEW node, Grown(g, h, d, name, node)
    PROVE  Rooted(g, root)
<1>1. Len(h) \in Nat /\ Len(g) = Len(h) + 1
  BY DEF HeapOK, Grown
<1>2. \A n \in 1..Len(h) : \A x : Find(h, n, x) \in 0..Len(h)
  BY FindFacts
<1>3. /\ \A n \in 1..Len(h) : \A x :
            Find(g, n, x) = IF n = d /\ x = name THEN Len(h) + 1 ELSE Find(h, n, x)
      /\ \A x : Find(g, Len(h) + 1, x) = Null
  BY DEF Grown
<1> SUFFICES ASSUME NEW c \in 1..Len(g), NEW e \in 1..Len(g), NEW x, NEW y, Find(g, c, x) # Null
             PROVE  Find(g, c, x) # root /\ (Find(g, c, x) = Find(g, e, y) => c = e)
  BY DEF Rooted
<1>4. c \in 1..Len(h)
  BY <1>1, <1>3
<1>5. CASE c = d /\ x = name
  <2>1. Find(g, c, x) = Len(h) + 1
    BY <1>3, <1>4, <1>5
  <2>2. ASSUME Find(g, e, y) = Len(h) + 1 PROVE e = d
    <3>1. e \in 1..Len(h)
      BY <1>1, <1>3, <2>2 DEF Null
    <3>2. Find(h, e, y) # Len(h) + 1
      BY <1>1, <1>2, <3>1
    <3> QED BY <1>3, <2>2, <3>1, <3>2
  <2> QED BY <1>1, <1>5, <2>1, <2>2
<1>6. CASE ~(c = d /\ x = name)
  <2>1. Find(g, c, x) = Find(h, c, x) /\ Find(h, c, x) \in 1..Len(h)
    BY <1>1, <1>2, <1>3, <1>4, <1>6 DEF Null
  <2>2. Find(h, c, x) # root
    BY <1>4, <2>1 DEF Rooted, Null
  <2>3. ASSUME Find(g, e, y) = Find(g, c, x) PROVE c = e
    <3>1. e \in 1..Len(h)
      BY <1>1, <1>3, <2>1, <2>3 DEF Null
    <3>2. Find(h, e, y) = Find(h, c, x)
      BY <1>1, <1>3, <2>1, <2>3, <3>1
    <3> QED BY <1>4, <2>1, <3>1, <3>2 DEF Rooted, Null
  <2> QED BY <2>1, <2>2, <2>3
<1> QED BY <1>5, <1>6

\* What lies below a node no path leads to is not led to either.
LEMMA ApartBelow ==
    ASSUME NEW N, NEW K, NEW C, NEW h, HeapOK(h, N, K, C), NEW root \in 1..Len(h), Rooted(h, root),
           NEW M, NEW d \in 1..Len(h), Apart(h, root, d, M), NEW x, Find(h, d, x) # Null
    PROVE  Apart(h, root, Find(h, d, x), M)
<1> SUFFICES ASSUME NEW p \in Seq(M), Resolve(h, root, p) = Find(h, d, x) PROVE FALSE
  BY DEF Apart
<1>1. CASE p = <<>>
  BY <1>1, ResolveEmpty DEF Rooted
<1>2. CASE p # <<>>
  <2>1. PICK q \in Seq(M), y \in M : p = Append(q, y)
    BY <1>2, SequenceEmptyOrAppend
  <2>2. Resolve(h, root, Append(q, y)) # Null
    BY <2>1
  <2>3. /\ Resolve(h, root, q) \in 1..Len(h)
        /\ Resolve(h, root, Append(q, y)) = Find(h, Resolve(h, root, q), y)
    BY <2>2, ResolveBelow
  <2> DEFINE e == Resolve(h, root, q)
  <2>4. e \in 1..Len(h) /\ Find(h, e, y) = Find(h, d, x)
    BY <2>1, <2>3
  <2> HIDE DEF e
  <2>5. e = d
    BY <2>4 DEF Rooted
  <2> QED BY <2>5 DEF Apart, e
<1> QED BY <1>1, <1>2

\* A node that is made and not added.
Loose(g, h, node) == g = Append(h, node)

LEMMA LooseOK ==
    ASSUME NEW N, NEW K, NEW C, NEW h, HeapOK(h, N, K, C),
           NEW node \in NodeSet(N, K, C), node.kids = <<>>, node.names = {}, NEW g, Loose(g, h, node)
    PROVE  /\ HeapOK(g, N, K, C) /\ Len(h) \in Nat
           /\ Len(g) = Len(h) + 1 /\ g[Len(h) + 1] = node
           /\ \A n \in 1..Len(h) : g[n] = h[n]
           /\ \A n \in 1..Len(h) : \A x : Find(g, n, x) = Find(h, n, x)
           /\ \A x : Find(g, Len(h) + 1, x) = Null
<1>1. /\ h \in Seq(NodeSet(N, K, C)) /\ Len(h) \in Nat
      /\ \A n \in 1..Len(h) : \A i \in 1..Len(h[n].kids) : h[n].kids[i] \in 1..Len(h)
  BY DEF HeapOK, Linked
<1>2. /\ g \in Seq(NodeSet(N, K, C)) /\ Len(g) = Len(h) + 1 /\ g[Len(h) + 1] = node
      /\ \A n \in 1..Len(h) : g[n] = h[n]
  BY <1>1 DEF Loose
<1>3. \A n \in 1..Len(h) : DOMAIN h[n].kids = 1..Len(h[n].kids)
  BY NodeFacts
<1>4. \A n \in 1..Len(h) : \A i \in 1..Len(h[n].kids) : NameAt(g, n, i) = NameAt(h, n, i)
  BY <1>1, <1>2 DEF NameAt
<1>5. \A n \in 1..Len(h) : \A x : Find(g, n, x) = Find(h, n, x)
  <2> SUFFICES ASSUME NEW n \in 1..Len(h), NEW x PROVE Find(g, n, x) = Find(h, n, x)
    OBVIOUS
  <2>1. DOMAIN g[n].kids = DOMAIN h[n].kids
    BY <1>2
  <2>2. \A i \in DOMAIN h[n].kids : NameAt(g, n, i) = NameAt(h, n, i)
    BY <1>3, <1>4
  <2>3. \A i \in Positions(h, n, x) : g[n].kids[i] = h[n].kids[i]
    BY <1>2
  <2> QED BY <2>1, <2>2, <2>3, FindSame
<1>6. \A x : Find(g, Len(h) + 1, x) = Null
  BY <1>2 DEF Find, Positions
<1>7. HeapOK(g, N, K, C)
  <2>1. Linked(g)
    <3> SUFFICES ASSUME NEW n \in 1..Len(g), NEW i \in 1..Len(g[n].kids) PROVE g[n].kids[i] \in 1..Len(g)
      BY DEF Linked
    <3>0. n \in 1..Len(h) \/ n = Len(h) + 1
      BY <1>1, <1>2
    <3>1. n \in 1..Len(h)
      <4>1. n = Len(h) + 1 => Len(g[n].kids) = 0
        BY <1>2
      <4> QED BY <3>0, <4>1
    <3>2. h[n].kids[i] \in 1..Len(h)
      BY <1>1, <1>2, <3>1
    <3> QED BY <1>1, <1>2, <3>1, <3>2
  <2>2. Unique(g)
    <3> SUFFICES ASSUME NEW n \in 1..Len(g) PROVE UniqueIn(g, n)
      BY DEF Unique
    <3>1. CASE n = Len(h) + 1
      BY <1>2, <3>1 DEF UniqueIn
    <3>2. CASE n \in 1..Len(h)
      <4>1. UniqueIn(h, n) /\ g[n] = h[n] /\ DOMAIN h[n].kids = 1..Len(h[n].kids)
        BY <1>2, <1>3, <3>2 DEF HeapOK, Unique
      <4> QED BY <1>4, <3>2, <4>1 DEF UniqueIn
    <3> QED BY <1>1, <1>2, <3>1, <3>2
  <2> QED BY <1>2, <2>1, <2>2 DEF HeapOK
<1> QED BY <1>1, <1>2, <1>5, <1>6, <1>7

LEMMA LooseNode ==
    ASSUME NEW N, NEW K, NEW C, NEW h, HeapOK(h, N, K, C), NEW root \in 1..Len(h), PathUnique(h, root, N),
           Rooted(h, root), NEW node \in NodeSet(N, K, C), node.kids = <<>>, node.names = {},
           NEW g, Loose(g, h, node)
    PROVE  /\ Grew(g, h, root, N, N, K, C) /\ Alike(g, h, root, N) /\ Rooted(g, root)
           /\ Len(g) = Len(h) + 1 /\ g[Len(h) + 1] = node
           /\ \A n \in 1..Len(h) : g[n] = h[n]
<1>1. /\ Len(h) \in Nat /\ Len(g) = Len(h) + 1 /\ g[Len(h) + 1] = node
      /\ \A n \in 1..Len(h) : g[n] = h[n]
  BY LooseOK
<1>2. HeapOK(g, N, K, C)
  BY LooseOK
<1>3. /\ \A n \in 1..Len(h) : \A x : Find(g, n, x) = Find(h, n, x)
      /\ \A x : Find(g, Len(h) + 1, x) = Null
  BY LooseOK
<1>4. \A p \in Seq(N) : Resolve(g, root, p) = Resolve(h, root, p)
  <2> DEFINE Good == {p \in Seq(N) : Resolve(g, root, p) = Resolve(h, root, p)}
  <2>1. <<>> \in Good
    BY ResolveEmpty
  <2>2. ASSUME NEW q \in Seq(N), NEW x \in N, q \in Good PROVE Append(q, x) \in Good
    <3>1. root \in 1..Len(g)
      BY <1>1
    <3>2. /\ Resolve(h, root, Append(q, x)) = Child(h, Resolve(h, root, q), x)
          /\ Resolve(h, root, q) \in 0..Len(h)
      BY ResolveAppend
    <3>3. Resolve(g, root, Append(q, x)) = Child(g, Resolve(g, root, q), x)
      BY <1>2, <3>1, ResolveAppend
    <3> DEFINE a == Resolve(h, root, q)
    <3>4. Child(g, a, x) = Child(h, a, x)
      <4>1. a \in 0..Len(h)
        BY <3>2
      <4> HIDE DEF a
      <4>2. CASE a = Null
        BY <4>2 DEF Child
      <4>3. CASE a # Null
        <5>1. a \in 1..Len(h)
          BY <1>1, <4>1, <4>3 DEF Null
        <5> QED BY <1>1, <1>3, <5>1 DEF Child, IsDir
      <4> QED BY <4>2, <4>3
    <3>5. Resolve(g, root, q) = a
      BY <2>2
    <3>6. Append(q, x) \in Seq(N)
      OBVIOUS
    <3> QED BY <3>2, <3>3, <3>4, <3>5, <3>6
  <2> HIDE DEF Good
  <2>3. \A p \in Seq(N) : p \in Good
    <3>1. \A q \in Seq(N), x \in N : q \in Good => Append(q, x) \in Good
      BY <2>2
    <3> QED BY <2>1, <3>1, PathInduction
  <2> QED BY <2>3 DEF Good
<1>5. Alike(g, h, root, N)
  <2> SUFFICES ASSUME NEW p \in Seq(N) PROVE AlikeAt(g, h, root, p)
    BY DEF Alike
  <2> DEFINE a == Resolve(h, root, p)
  <2>1. a \in 0..Len(h) /\ Resolve(g, root, p) = a
    BY <1>4, ResolveFacts
  <2> HIDE DEF a
  <2>2. a # Null => g[a] = h[a]
    BY <1>1, <2>1 DEF Null
  <2> QED BY <2>1, <2>2 DEF AlikeAt, Entry, a
<1>6. PathUnique(g, root, N)
  BY <1>4 DEF PathUnique
<1>7. Rooted(g, root)
  <2> SUFFICES ASSUME NEW c \in 1..Len(g), NEW d \in 1..Len(g), NEW x, NEW y, Find(g, c, x) # Null
               PROVE  Find(g, c, x) # root /\ (Find(g, c, x) = Find(g, d, y) => c = d)
    BY DEF Rooted
  <2>0. \A n \in 1..Len(g) : n \in 1..Len(h) \/ n = Len(h) + 1
    <3>1. Len(h) \in Nat /\ Len(g) = Len(h) + 1
      BY <1>1
    <3> QED BY <3>1
  <2>1. c \in 1..Len(h) /\ Find(g, c, x) = Find(h, c, x)
    BY <1>3, <2>0
  <2>2. CASE d \in 1..Len(h)
    <3>1. Find(g, d, y) = Find(h, d, y)
      BY <1>3, <2>2
    <3> QED BY <2>1, <2>2, <3>1 DEF Rooted
  <2>3. CASE d = Len(h) + 1
    <3>1. Find(g, d, y) = Null /\ Find(h, c, x) # root
      BY <1>3, <2>1, <2>3 DEF Rooted
    <3> QED BY <2>1, <3>1
  <2> QED BY <2>0, <2>2, <2>3
<1>8. \A n \in 1..Len(h) : IsDir(g, n) <=> IsDir(h, n)
  BY <1>1 DEF IsDir
<1> QED BY <1>1, <1>2, <1>5, <1>6, <1>7, <1>8 DEF Grew

\* Before a path whose last directory is there, everything is a directory.
LEMMA ParentDirs ==
    ASSUME NEW N, NEW K, NEW C, NEW h, HeapOK(h, N, K, C), NEW root \in 1..Len(h),
           NEW M, NEW t \in Seq(M), t # <<>>, NEW d \in 1..Len(h), IsDir(h, d),
           Resolve(h, root, Walked(<<>>, t)) = d, NEW p \in Prefixes(t) \ {<<>>, t}
    PROVE  Entry(h, root, p).kind = "dir"
<1> DEFINE r == Walked(<<>>, t)
           m == Len(t)
<1>2. r \in Seq(M) /\ \E k \in 0..(m - 1) : p = SubSeq(t, 1, k)
  BY FollowsEnd
<1>3. PICK k \in 0..(m - 1) : p = SubSeq(t, 1, k)
  BY <1>2
<1>4. m \in Nat \ {0} /\ r = SubSeq(t, 1, m - 1)
  BY EmptySeq DEF Walked
<1>5. r \in Seq(M) /\ Resolve(h, root, r) = d /\ d # Null
  BY <1>2 DEF Null
<1>6. CASE k = m - 1
  BY <1>3, <1>4, <1>5, <1>6 DEF Entry, IsDir
<1>7. CASE k # m - 1
  <2> HIDE DEF r, m
  <2>0. k \in 0..m /\ m - 1 \in 0..m /\ m = Len(t) /\ k \in 0..(m - 1 - 1)
    BY <1>4, <1>7 DEF m
  <2>1. Len(r) = m - 1 /\ \A j \in 1..(m - 1) : r[j] = t[j]
    BY <1>4, <2>0, FirstPart
  <2>2. /\ SubSeq(t, 1, k) \in Seq(M) /\ Len(SubSeq(t, 1, k)) = k
        /\ \A j \in 1..k : SubSeq(t, 1, k)[j] = t[j]
    BY <2>0, FirstPart
  <2>3. /\ SubSeq(r, 1, k) \in Seq(M) /\ Len(SubSeq(r, 1, k)) = k
        /\ \A j \in 1..k : SubSeq(r, 1, k)[j] = r[j]
    <3>1. k \in 0..Len(r)
      BY <2>0, <2>1
    <3> QED BY <1>5, <3>1, FirstPart
  <2>4. SubSeq(r, 1, k) = SubSeq(t, 1, k)
    BY <2>0, <2>1, <2>2, <2>3, SeqEqual
  <2>5. k \in 0..(Len(r) - 1)
    BY <2>0, <2>1
  <2>6. /\ Resolve(h, root, SubSeq(r, 1, k)) # Null
        /\ IsDir(h, Resolve(h, root, SubSeq(r, 1, k)))
    BY <1>5, <2>5, PrefixDirs
  <2> QED BY <1>3, <2>4, <2>6 DEF Entry, IsDir
<1> QED BY <1>6, <1>7
=============================================================================
