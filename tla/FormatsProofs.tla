--------------------------- MODULE FormatsProofs ---------------------------
(***************************************************************************)
(* That the four formats implement PhysicalLayer, for files of any number  *)
(* of records and any reads.                                               *)
(*                                                                         *)
(* All reads are put together in the same way: there is a set of addresses *)
(* for which the buffer and the count are right so far (Partial), a turn   *)
(* of the loop adds a block to it, and at the end it covers what the       *)
(* window has of the dump.  What differs is the index a format builds, and *)
(* how its loop finds the next block: LiME and AVML go through ascending   *)
(* segments, kdump goes by addresses through ranges it has sorted, a raw   *)
(* image is one range.                                                     *)
(***************************************************************************)
EXTENDS FormatFactory, FiniteSetTheorems, TLAPS

Counting == INSTANCE DirTreeProofs

\* PhysicalLayer and the formats have Cardinality, Min and Max of their own.
LEMMA SameCardinality == ASSUME NEW S PROVE Layer!Cardinality(S) = Cardinality(S)
  BY DEF Layer!Cardinality, Cardinality

LEMMA SameMax == ASSUME NEW S PROVE Layer!Max(S) = Max(S) /\ Lime!Max(S) = Max(S) /\ Lime!Min(S) = Min(S)
  BY DEF Layer!Max, Max, Lime!Max, Lime!Min, Min

-----------------------------------------------------------------------------
(* A read in progress.                                                     *)

\* Of a read of len at pa, b and n are right about the addresses in P, and b is
\* zero elsewhere.
Partial(S, P, pa, len, b, n) ==
    /\ DOMAIN b = 1..len
    /\ \A k \in 1..len :
          IF pa + k - 1 \in P THEN b[k] \in Layer!Sources(S, pa + k - 1)
                              ELSE b[k] = Layer!Zero
    /\ n = Cardinality(Layer!Window(pa, len) \cap P)

\* A read starts with nothing done.
LEMMA PartialStart ==
    ASSUME NEW S, NEW P, NEW pa \in Nat, NEW len \in Nat, Layer!Window(pa, len) \cap P = {}
    PROVE  Partial(S, P, pa, len, [k \in 1..len |-> Layer!Zero], 0)
  <1>1. \A k \in 1..len : pa + k - 1 \in Layer!Window(pa, len)
    BY DEF Layer!Window
  <1>2. \A k \in 1..len : pa + k - 1 \notin P
    BY <1>1
  <1> QED BY <1>2, FS_EmptySet DEF Partial

\* It is over when nothing is left to do.
LEMMA PartialDone ==
    ASSUME NEW S, NEW P, NEW pa \in Nat, NEW len \in Nat, NEW b, NEW n,
           Partial(S, P, pa, len, b, n),
           Layer!Window(pa, len) \cap P = Layer!Window(pa, len) \cap Layer!Backed(S)
    PROVE  Layer!Faithful(S, pa, len, b) /\ Layer!Honest(S, pa, len, n)
  <1>1. \A k \in 1..len : pa + k - 1 \in Layer!Window(pa, len)
    BY DEF Layer!Window
  <1>2. \A k \in 1..len : pa + k - 1 \in P <=> pa + k - 1 \in Layer!Backed(S)
    BY <1>1
  <1> QED BY <1>2, SameCardinality DEF Partial, Layer!Faithful, Layer!Honest

\* What is outside the window does not matter.
LEMMA PartialSame ==
    ASSUME NEW S, NEW P, NEW Q, NEW pa \in Nat, NEW len \in Nat, NEW b, NEW n,
           Partial(S, P, pa, len, b, n),
           Layer!Window(pa, len) \cap P = Layer!Window(pa, len) \cap Q
    PROVE  Partial(S, Q, pa, len, b, n)
  <1>1. \A k \in 1..len : pa + k - 1 \in Layer!Window(pa, len)
    BY DEF Layer!Window
  <1>2. \A k \in 1..len : pa + k - 1 \in P <=> pa + k - 1 \in Q
    BY <1>1
  <1> QED BY <1>2 DEF Partial

\* A block of m bytes at lo is copied: what was right stays right.
LEMMA PartialCopy ==
    ASSUME NEW S, NEW P, NEW Q, NEW pa \in Nat, NEW len \in Nat, NEW b, NEW n, NEW c,
           NEW lo \in Nat, NEW m \in Nat, NEW at \in Int,
           Partial(S, P, pa, len, b, n),
           Layer!Window(pa, len) \cap Q = (Layer!Window(pa, len) \cap P) \cup Layer!Window(lo, m),
           Layer!Window(lo, m) \cap P = {},
           \A a \in Layer!Window(lo, m) : at + (a - lo) \in Layer!Sources(S, a),
           DOMAIN c = 1..len,
           \A k \in 1..len : LET a == pa + k - 1 IN
               c[k] = IF a \in Layer!Window(lo, m) THEN at + (a - lo) ELSE b[k]
    PROVE  Partial(S, Q, pa, len, c, n + m)
  <1> DEFINE W == Layer!Window(pa, len)
             B == Layer!Window(lo, m)
  <1>1. \A k \in 1..len : pa + k - 1 \in W
    BY DEF Layer!Window
  <1>2. IsFiniteSet(W) /\ IsFiniteSet(B) /\ Cardinality(B) = m
    <2>1. IsFiniteSet(W)
      BY FS_Interval DEF Layer!Window
    <2>2. lo \in Int /\ lo + m - 1 \in Int
      OBVIOUS
    <2>3. /\ IsFiniteSet(lo..(lo + m - 1))
          /\ Cardinality(lo..(lo + m - 1)) = IF lo > lo + m - 1 THEN 0 ELSE (lo + m - 1) - lo + 1
      BY <2>2, FS_Interval
    <2>4. (IF lo > lo + m - 1 THEN 0 ELSE (lo + m - 1) - lo + 1) = m
      OBVIOUS
    <2> QED BY <2>1, <2>3, <2>4 DEF Layer!Window
  <1>3. IsFiniteSet(W \cap P) /\ (W \cap P) \cap B = {}
    <2>1. IsFiniteSet(W \cap P)
      BY <1>2, FS_Intersection
    <2> QED BY <2>1
  <1>4. Cardinality((W \cap P) \cup B) = Cardinality(W \cap P) + m
    <2>1. /\ IsFiniteSet((W \cap P) \cup B)
          /\ Cardinality((W \cap P) \cup B)
                = Cardinality(W \cap P) + Cardinality(B) - Cardinality((W \cap P) \cap B)
      <3> HIDE DEF W, B
      <3> QED BY <1>2, <1>3, FS_Union
    <2>2. Cardinality((W \cap P) \cap B) = 0
      BY <1>3, FS_EmptySet
    <2>3. Cardinality(W \cap P) \in Nat
      BY <1>3, FS_CardinalityType
    <2> QED
      <3> HIDE DEF W, B
      <3> QED BY <2>1, <2>2, <2>3, <1>2
  <1>5. n = Cardinality(W \cap P) /\ DOMAIN b = 1..len
        /\ \A k \in 1..len : IF pa + k - 1 \in P THEN b[k] \in Layer!Sources(S, pa + k - 1)
                                                  ELSE b[k] = Layer!Zero
    BY DEF Partial
  <1>6. n + m = Cardinality(W \cap Q)
    BY <1>4, <1>5
  <1>7. ASSUME NEW k \in 1..len
        PROVE  IF pa + k - 1 \in Q THEN c[k] \in Layer!Sources(S, pa + k - 1) ELSE c[k] = Layer!Zero
    <2> DEFINE a == pa + k - 1
    <2>1. c[k] = IF a \in B THEN at + (a - lo) ELSE b[k]
      OBVIOUS
    <2>2. a \in Q <=> a \in P \/ a \in B
      BY <1>1
    <2>3. CASE a \in B
      BY <2>1, <2>2, <2>3
    <2>4. CASE a \notin B
      <3> HIDE DEF B
      <3> QED BY <2>1, <2>2, <2>4, <1>5
    <2> QED BY <2>3, <2>4
  <1> QED
    <2> HIDE DEF W, B
    <2>1. \A k \in 1..len : IF pa + k - 1 \in Q THEN c[k] \in Layer!Sources(S, pa + k - 1)
                                                ELSE c[k] = Layer!Zero
      BY <1>7
    <2>2. n + m = Cardinality(Layer!Window(pa, len) \cap Q)
      BY <1>6 DEF W
    <2> QED BY <2>1, <2>2 DEF Partial

-----------------------------------------------------------------------------
(* Segments in ascending order, which LiME and AVML read one by one.       *)

Segments == [pa : Nat, len : Nat, off : Nat]
Ascending(s) == \A i, j \in 1..Len(s) : i < j => s[i].pa + s[i].len <= s[j].pa
Items(s) == {s[i] : i \in 1..Len(s)}
Seen(s, i) == UNION {Layer!Span(s[j]) : j \in 1..(i - 1)}

LEMMA SegmentFacts ==
    ASSUME NEW s \in Seq(Segments)
    PROVE  /\ Len(s) \in Nat
           /\ \A i \in 1..Len(s) :
                 /\ s[i] \in Segments
                 /\ s[i].pa \in Nat /\ s[i].len \in Nat /\ s[i].off \in Nat
                 /\ Layer!Span(s[i]) = Layer!Window(s[i].pa, s[i].len)
                 /\ \A a : a \in Layer!Span(s[i]) <=> a \in Int /\ s[i].pa <= a /\ a < s[i].pa + s[i].len
  <1>1. Len(s) \in Nat
    OBVIOUS
  <1>2. \A i \in 1..Len(s) : s[i] \in Segments
    OBVIOUS
  <1>3. \A i \in 1..Len(s) : s[i].pa \in Nat /\ s[i].len \in Nat /\ s[i].off \in Nat
    BY <1>2 DEF Segments
  <1> QED BY <1>1, <1>2, <1>3 DEF Layer!Span, Layer!Window

LEMMA SeenFacts ==
    ASSUME NEW s \in Seq(Segments)
    PROVE  /\ Seen(s, 1) = {}
           /\ Seen(s, Len(s) + 1) = Layer!Backed(Items(s))
           /\ \A i \in 1..Len(s) : Seen(s, i + 1) = Seen(s, i) \cup Layer!Span(s[i])
  <1>1. Len(s) \in Nat
    OBVIOUS
  <1>2. Seen(s, 1) = {}
    BY DEF Seen
  <1>3. Seen(s, Len(s) + 1) = Layer!Backed(Items(s))
    <2>1. 1..((Len(s) + 1) - 1) = 1..Len(s)
      BY <1>1
    <2> QED BY <2>1 DEF Seen, Layer!Backed, Items
  <1>4. ASSUME NEW i \in 1..Len(s) PROVE Seen(s, i + 1) = Seen(s, i) \cup Layer!Span(s[i])
    <2>1. 1..((i + 1) - 1) = (1..(i - 1)) \cup {i}
      BY <1>1
    <2> QED BY <2>1 DEF Seen
  <1> QED BY <1>2, <1>3, <1>4

\* The common bytes of segment i and the window are copied.
LEMMA CopyKeeps ==
    ASSUME NEW s \in Seq(Segments), Ascending(s), NEW i \in 1..Len(s),
           NEW pa \in Nat, NEW len \in Nat, NEW b, NEW n, NEW c, NEW lo \in Nat, NEW m \in Nat,
           Partial(Items(s), Seen(s, i), pa, len, b, n),
           Layer!Window(pa, len) \cap Layer!Span(s[i]) = Layer!Window(lo, m),
           DOMAIN c = 1..len,
           \A k \in 1..len : LET a == pa + k - 1 IN
               c[k] = IF a \in Layer!Window(lo, m) THEN s[i].off + (a - s[i].pa) ELSE b[k]
    PROVE  Partial(Items(s), Seen(s, i + 1), pa, len, c, n + m)
  <1> DEFINE B == Layer!Window(lo, m)
             W == Layer!Window(pa, len)
             at == s[i].off + (lo - s[i].pa)
  <1>1. /\ Len(s) \in Nat
        /\ s[i].pa \in Nat /\ s[i].len \in Nat /\ s[i].off \in Nat
        /\ \A a : a \in Layer!Span(s[i]) <=> a \in Int /\ s[i].pa <= a /\ a < s[i].pa + s[i].len
    BY SegmentFacts
  <1>2. at \in Int /\ \A a \in Int : at + (a - lo) = s[i].off + (a - s[i].pa)
    BY <1>1
  <1>3. W \cap Seen(s, i + 1) = (W \cap Seen(s, i)) \cup B
    BY SeenFacts
  <1>4. B \cap Seen(s, i) = {}
    <2> SUFFICES ASSUME NEW j \in 1..(i - 1), NEW a, a \in B, a \in Layer!Span(s[j]) PROVE FALSE
      BY DEF Seen
    <2>1. j \in 1..Len(s) /\ j < i
      BY <1>1
    <2>2. s[j].pa \in Nat /\ s[j].len \in Nat /\ a \in Int /\ a < s[j].pa + s[j].len
      BY <2>1, SegmentFacts
    <2>3. s[j].pa + s[j].len <= s[i].pa
      BY <2>1 DEF Ascending
    <2>4. s[i].pa <= a
      BY <1>1
    <2> QED BY <2>2, <2>3, <2>4, <1>1
  <1>5. \A a \in B : a \in Int /\ at + (a - lo) \in Layer!Sources(Items(s), a)
    <2> SUFFICES ASSUME NEW a \in B PROVE a \in Int /\ at + (a - lo) \in Layer!Sources(Items(s), a)
      OBVIOUS
    <2>1. a \in Layer!Span(s[i]) /\ a \in Int
      BY <1>1
    <2>2. s[i] \in Items(s)
      BY DEF Items
    <2>3. s[i].off + (a - s[i].pa) \in Layer!Sources(Items(s), a)
      BY <2>1, <2>2 DEF Layer!Sources
    <2> QED BY <2>1, <2>3, <1>2
  <1>6. \A k \in 1..len : LET a == pa + k - 1 IN
           c[k] = IF a \in B THEN at + (a - lo) ELSE b[k]
    <2> SUFFICES ASSUME NEW k \in 1..len
                 PROVE  c[k] = IF pa + k - 1 \in B THEN at + ((pa + k - 1) - lo) ELSE b[k]
      OBVIOUS
    <2>1. pa + k - 1 \in Int
      OBVIOUS
    <2>2. at + ((pa + k - 1) - lo) = s[i].off + ((pa + k - 1) - s[i].pa)
      BY <2>1, <1>2
    <2>3. c[k] = IF pa + k - 1 \in B THEN s[i].off + ((pa + k - 1) - s[i].pa) ELSE b[k]
      OBVIOUS
    <2> HIDE DEF at, B
    <2> QED BY <2>2, <2>3
  <1> HIDE DEF at
  <1> QED BY <1>2, <1>3, <1>4, <1>5, <1>6, PartialCopy

\* A segment outside the window is passed.
LEMMA PassKeeps ==
    ASSUME NEW s \in Seq(Segments), NEW i \in 1..Len(s),
           NEW pa \in Nat, NEW len \in Nat, NEW b, NEW n,
           Partial(Items(s), Seen(s, i), pa, len, b, n),
           Layer!Window(pa, len) \cap Layer!Span(s[i]) = {}
    PROVE  Partial(Items(s), Seen(s, i + 1), pa, len, b, n)
  <1>1. Layer!Window(pa, len) \cap Seen(s, i) = Layer!Window(pa, len) \cap Seen(s, i + 1)
    BY SeenFacts
  <1> QED BY <1>1, PartialSame

\* The loop may stop at a segment above the window, or after the last one.
LEMMA NothingAbove ==
    ASSUME NEW s \in Seq(Segments), Ascending(s), NEW i \in 1..(Len(s) + 1),
           NEW pa \in Nat, NEW len \in Nat,
           i <= Len(s) => s[i].pa >= pa + len
    PROVE  Layer!Window(pa, len) \cap Seen(s, i) = Layer!Window(pa, len) \cap Layer!Backed(Items(s))
  <1>1. Seen(s, i) \subseteq Layer!Backed(Items(s))
    <2>1. \A j \in 1..(i - 1) : s[j] \in Items(s)
      BY SegmentFacts DEF Items
    <2> QED BY <2>1 DEF Seen, Layer!Backed
  <1>2. ASSUME NEW a \in Layer!Window(pa, len), NEW j \in 1..Len(s), a \in Layer!Span(s[j])
        PROVE  a \in Seen(s, i)
    <2>1. a < pa + len /\ a \in Int
      BY DEF Layer!Window
    <2>2. s[j].pa \in Nat /\ s[j].len \in Nat /\ s[j].pa <= a /\ Len(s) \in Nat
      BY <1>2, SegmentFacts
    <2>3. j < i
      <3> SUFFICES ASSUME i <= j PROVE FALSE
        BY <2>2
      <3>1. i \in 1..Len(s) /\ s[i].pa \in Nat /\ s[i].len \in Nat
        BY <2>2, SegmentFacts
      <3>2. s[i].pa <= s[j].pa
        <4>1. CASE i = j
          BY <4>1, <3>1
        <4>2. CASE i < j
          <5>1. s[i].pa + s[i].len <= s[j].pa
            BY <4>2, <3>1 DEF Ascending
          <5> QED BY <5>1, <3>1, <2>2
        <4> QED BY <4>1, <4>2
      <3>3. s[i].pa >= pa + len
        BY <3>1
      <3> QED BY <2>1, <2>2, <3>1, <3>2, <3>3
    <2>4. j \in 1..(i - 1)
      BY <2>2, <2>3
    <2> QED BY <1>2, <2>4 DEF Seen
  <1>3. Layer!Window(pa, len) \cap Layer!Backed(Items(s)) \subseteq Seen(s, i)
    BY <1>2 DEF Layer!Backed, Items
  <1> QED BY <1>1, <1>3

\* The last segment ends above every other.
LEMMA LastTop ==
    ASSUME NEW s \in Seq(Segments), Ascending(s), s # <<>>, s[Len(s)].len > 0
    PROVE  Layer!Top(Items(s)) = s[Len(s)].pa + s[Len(s)].len
  <1> DEFINE l == s[Len(s)]
             S == Layer!Backed(Items(s))
             t == l.pa + l.len - 1
  <1>1. Len(s) \in Nat \ {0} /\ l.pa \in Nat /\ l.len \in Nat \ {0}
    <2>1. Len(s) \in Nat \ {0}
      OBVIOUS
    <2>2. Len(s) \in 1..Len(s)
      BY <2>1
    <2> QED BY <2>1, <2>2, SegmentFacts
  <1>2. t \in S
    <2>1. Len(s) \in 1..Len(s)
      BY <1>1
    <2>2. t \in Layer!Span(l)
      BY <1>1 DEF Layer!Span
    <2>3. l \in Items(s)
      BY <2>1 DEF Items
    <2> QED BY <2>2, <2>3 DEF Layer!Backed
  <1>3. ASSUME NEW a \in S PROVE a \in Int /\ a <= t
    <2>1. PICK j \in 1..Len(s) : a \in Layer!Span(s[j])
      BY DEF Layer!Backed, Items
    <2>2. s[j].pa \in Nat /\ s[j].len \in Nat /\ a \in Int /\ a < s[j].pa + s[j].len
      BY <2>1, SegmentFacts
    <2>3. CASE j = Len(s)
      BY <2>2, <2>3, <1>1
    <2>4. CASE j < Len(s)
      <3>1. s[j].pa + s[j].len <= l.pa
        BY <2>4, <1>1 DEF Ascending
      <3> QED BY <3>1, <2>2, <1>1
    <2> QED BY <2>3, <2>4, <1>1
  <1> HIDE DEF S, t
  <1>4. Layer!Max(S) = t
    <2>1. Layer!Max(S) = CHOOSE x \in S : \A y \in S : x >= y
      BY DEF Layer!Max
    <2>2. t \in Int /\ \A y \in S : t >= y
      BY <1>2, <1>3
    <2>3. \A x \in S : (\A y \in S : x >= y) => x = t
      BY <1>2, <1>3, <2>2
    <2> QED BY <2>1, <2>2, <2>3, <1>2
  <1> USE DEF S
  <1>5. Layer!Top(Items(s)) = 1 + t
    BY <1>2, <1>4 DEF Layer!Top
  <1> QED BY <1>5, <1>1 DEF t

-----------------------------------------------------------------------------
(* LiME: the records of a file.                                            *)

LimeFile == [recs : Seq(LimeRecords), size : Nat]

LEMMA DataLenFacts ==
    ASSUME NEW r \in LimeRecords
    PROVE  /\ r.start \in Nat /\ r.end \in Nat /\ Lime!DataLen(r) \in Nat
           /\ r.end >= r.start => Lime!DataLen(r) = r.end - r.start + 1
  <1>1. r.start \in Nat /\ r.end \in Nat
    BY DEF LimeRecords
  <1>2. CASE r.end < r.start
    BY <1>1, <1>2 DEF Lime!DataLen
  <1>3. CASE ~(r.end < r.start)
    BY <1>1, <1>3 DEF Lime!DataLen
  <1> QED BY <1>1, <1>2, <1>3

\* Each record begins where the one before it ends.
LEMMA RecordOffFacts ==
    ASSUME NEW f \in LimeFile
    PROVE  /\ Len(f.recs) \in Nat
           /\ \A i \in 1..Len(f.recs) : f.recs[i] \in LimeRecords
           /\ Lime!RecordOff(f, 1) = 0
           /\ \A i \in 1..(Len(f.recs) + 1) : Lime!RecordOff(f, i) \in Nat
           /\ \A i \in 1..Len(f.recs) :
                 Lime!RecordOff(f, i + 1) = Lime!RecordOff(f, i) + Hdr + Lime!DataLen(f.recs[i])
  <1> DEFINE n == Len(f.recs)
             size(i) == Hdr + Lime!DataLen(f.recs[i])
             step == [i \in 1..n |-> [x \in Nat |-> x + size(i)]]
             Rec(g) == g = [k \in 0..n |-> IF k = 0 THEN 0 ELSE g[k-1] + Hdr + Lime!DataLen(f.recs[k])]
             at == CHOOSE g : Rec(g)
  <1>1. n \in Nat /\ \A i \in 1..n : f.recs[i] \in LimeRecords
    <2>1. f.recs \in Seq(LimeRecords)
      BY DEF LimeFile
    <2> QED BY <2>1
  <1>2. \A i \in 1..n : Lime!DataLen(f.recs[i]) \in Nat /\ size(i) \in Nat
    BY <1>1, DataLenFacts, FormatAssumption
  <1>3. step \in [1..n -> [Nat -> Nat]] /\ \A i \in 1..n, x \in Nat : step[i][x] = x + size(i)
    <2> HIDE DEF size, n
    <2> QED BY <1>2
  <1>4. Counting!Steps(step, 0, n, Nat)
    <2> HIDE DEF step, n
    <2> QED BY <1>1, <1>3 DEF Counting!Steps
  <1> HIDE DEF step
  <1>5. PICK w : Counting!Record(w, step, 0, n, Nat)
    <2> HIDE DEF n
    <2> QED BY <1>4, Counting!Iteration
  <1>6. w \in [0..n -> Nat] /\ w[0] = 0 /\ \A i \in 1..n : w[i] = step[i][w[i - 1]]
    BY <1>5 DEF Counting!Record
  <1>7. \A i \in 1..n : w[i] = w[i - 1] + Hdr + Lime!DataLen(f.recs[i])
    <2> SUFFICES ASSUME NEW i \in 1..n PROVE w[i] = w[i - 1] + Hdr + Lime!DataLen(f.recs[i])
      OBVIOUS
    <2>1. i - 1 \in 0..n
      BY <1>1
    <2>2. w[i - 1] \in Nat
      BY <1>6, <2>1
    <2>3. w[i] = w[i - 1] + size(i)
      BY <1>3, <1>6, <2>2
    <2> QED BY <2>2, <2>3, <1>2, FormatAssumption
  <1>8. Rec(w)
    <2>1. \A i \in 0..n : w[i] = IF i = 0 THEN 0 ELSE w[i - 1] + Hdr + Lime!DataLen(f.recs[i])
      BY <1>1, <1>6, <1>7
    <2> HIDE DEF n
    <2> QED BY <1>6, <2>1
  <1>9. Rec(at)
    <2> HIDE DEF Rec
    <2> QED BY <1>8
  <1>10. \A i \in 0..n : at[i] = IF i = 0 THEN 0 ELSE at[i - 1] + Hdr + Lime!DataLen(f.recs[i])
    <2> HIDE DEF at
    <2> QED BY <1>9
  <1>11. \A i : Lime!RecordOff(f, i) = at[i - 1]
    BY DEF Lime!RecordOff
  <1> HIDE DEF at
  <1>12. \A i \in 0..n : at[i] \in Nat
    <2> DEFINE Good == {k \in 0..n : at[k] \in Nat}
    <2>1. 0 \in Good
      BY <1>1, <1>10
    <2>2. ASSUME NEW k \in 0..(n - 1), k \in Good PROVE k + 1 \in Good
      <3>1. k + 1 \in 1..n /\ k + 1 # 0 /\ (k + 1) - 1 = k
        BY <1>1
      <3>2. at[k + 1] = at[k] + Hdr + Lime!DataLen(f.recs[k + 1])
        BY <1>10, <3>1, <1>1
      <3> QED BY <2>2, <3>1, <3>2, <1>1, <1>2, FormatAssumption
    <2>3. \A k \in 0..n : k \in Good
      <3> HIDE DEF Good
      <3> QED BY <1>1, <2>1, <2>2, Counting!CountingUp
    <2> QED BY <2>3
  <1>13. \A i \in 1..(n + 1) : i - 1 \in 0..n
    BY <1>1
  <1>14. \A i \in 1..n : i \in 0..n /\ i # 0 /\ (i + 1) - 1 = i
    BY <1>1
  <1>15. Lime!RecordOff(f, 1) = 0 /\ \A i \in 1..(n + 1) : Lime!RecordOff(f, i) \in Nat
    BY <1>1, <1>10, <1>11, <1>12, <1>13
  <1>16. \A i \in 1..n : Lime!RecordOff(f, i + 1) = Lime!RecordOff(f, i) + Hdr + Lime!DataLen(f.recs[i])
    BY <1>10, <1>11, <1>14
  <1> QED BY <1>1, <1>15, <1>16

\* A later record begins behind the end of an earlier one.
LEMMA RecordsApart ==
    ASSUME NEW f \in LimeFile, NEW i \in 1..Len(f.recs), NEW j \in (i + 1)..(Len(f.recs) + 1)
    PROVE  Lime!RecordOff(f, i) + Hdr + Lime!DataLen(f.recs[i]) <= Lime!RecordOff(f, j)
  <1> DEFINE n == Len(f.recs)
             R(k) == Lime!RecordOff(f, k)
             m == n - i
             Good == {k \in 0..m : R(i + 1) <= R((i + 1) + k)}
  <1>1. n \in Nat /\ m \in Nat /\ (i + 1) + 0 = i + 1 /\ R(i + 1) \in Nat
    BY RecordOffFacts
  <1>2. 0 \in Good
    BY <1>1
  <1>3. ASSUME NEW k \in 0..(m - 1), k \in Good PROVE k + 1 \in Good
    <2>1. (i + 1) + k \in 1..n /\ ((i + 1) + k) + 1 = (i + 1) + (k + 1) /\ k + 1 \in 0..m
      BY <1>1
    <2>2. /\ R((i + 1) + (k + 1)) = R((i + 1) + k) + Hdr + Lime!DataLen(f.recs[(i + 1) + k])
          /\ R((i + 1) + k) \in Nat /\ R((i + 1) + (k + 1)) \in Nat
          /\ f.recs[(i + 1) + k] \in LimeRecords
      BY <1>1, <2>1, RecordOffFacts
    <2>3. Lime!DataLen(f.recs[(i + 1) + k]) \in Nat
      BY <2>2, DataLenFacts
    <2>4. R(i + 1) <= R((i + 1) + k)
      BY <1>3
    <2>5. R(i + 1) <= R((i + 1) + (k + 1))
      <3> HIDE DEF R
      <3> QED BY <1>1, <2>2, <2>3, <2>4, FormatAssumption
    <2> QED BY <2>1, <2>5
  <1>4. \A k \in 0..m : k \in Good
    <2> HIDE DEF Good, m
    <2> QED BY <1>1, <1>2, <1>3, Counting!CountingUp
  <1>5. j - (i + 1) \in 0..m /\ (i + 1) + (j - (i + 1)) = j
    BY <1>1
  <1>6. R(i + 1) <= R(j)
    BY <1>4, <1>5
  <1> QED BY <1>6, RecordOffFacts

\* load_segments() finds record i at its place, and nothing behind the last.
LEMMA HeaderFacts ==
    ASSUME NEW f \in LimeFile
    PROVE  /\ \A i \in 1..Len(f.recs) : Lime!HeaderAt(f, Lime!RecordOff(f, i)) = f.recs[i]
           /\ ~Lime!HeaderAt(f, Lime!RecordOff(f, Len(f.recs) + 1)).good
  <1> DEFINE n == Len(f.recs)
             R(k) == Lime!RecordOff(f, k)
  <1>1. n \in Nat /\ \A k \in 1..(n + 1) : R(k) \in Nat
    BY RecordOffFacts
  <1>2. ASSUME NEW i \in 1..n, NEW j \in 1..(n + 1), i < j PROVE R(i) < R(j)
    <2>1. j \in (i + 1)..(n + 1)
      BY <1>1, <1>2
    <2>2. R(i) + Hdr + Lime!DataLen(f.recs[i]) <= R(j)
      BY <2>1, RecordsApart
    <2>3. Lime!DataLen(f.recs[i]) \in Nat
      BY DataLenFacts, RecordOffFacts
    <2>4. R(i) \in Nat /\ R(j) \in Nat
      BY <1>1
    <2> HIDE DEF R
    <2> QED BY <2>2, <2>3, <2>4, FormatAssumption
  <1>3. ASSUME NEW i \in 1..n, NEW j \in 1..n, R(i) = R(j) PROVE i = j
    <2>1. i < j \/ j < i \/ i = j
      BY <1>1
    <2>2. R(i) \in Nat /\ R(j) \in Nat
      BY <1>1
    <2> HIDE DEF R
    <2> QED BY <1>1, <1>2, <1>3, <2>1, <2>2
  <1>4. ASSUME NEW i \in 1..n PROVE Lime!HeaderAt(f, R(i)) = f.recs[i]
    <2>1. \E j \in 1..n : R(j) = R(i)
      OBVIOUS
    <2>2. (CHOOSE j \in 1..n : R(j) = R(i)) = i
      <3> HIDE DEF R
      <3> QED BY <1>3
    <2> QED BY <2>1, <2>2 DEF Lime!HeaderAt
  <1>5. ~\E j \in 1..n : R(j) = R(n + 1)
    <2> SUFFICES ASSUME NEW j \in 1..n, R(j) = R(n + 1) PROVE FALSE
      OBVIOUS
    <2>1. n + 1 \in 1..(n + 1) /\ j < n + 1
      BY <1>1
    <2>2. R(j) < R(n + 1) /\ R(j) \in Nat /\ R(n + 1) \in Nat
      BY <1>1, <1>2, <2>1
    <2> HIDE DEF R
    <2> QED BY <2>2
  <1>6. Lime!HeaderAt(f, R(n + 1)) = Lime!Junk
    BY <1>5 DEF Lime!HeaderAt
  <1> QED BY <1>4, <1>6 DEF Lime!Junk

\* What the loader makes of record i.
LimeSeg(f, i) ==
    [pa |-> f.recs[i].start, len |-> Lime!DataLen(f.recs[i]), off |-> Lime!RecordOff(f, i) + Hdr]

\* load_segments() has taken the first Len(segs) records, which ascend.
LimeLoaded ==
    /\ file \in LimeFiles
    /\ segs \in Seq(Segments) /\ Len(segs) <= Len(file.recs)
    /\ \A i \in 1..Len(segs) : segs[i] = LimeSeg(file, i) /\ segs[i].len > 0
    /\ Ascending(segs)
    /\ off = Lime!RecordOff(file, Len(segs) + 1) /\ off <= file.size
    /\ prev_end \in Nat
    /\ \A i \in 1..Len(segs) : segs[i].pa + segs[i].len <= prev_end

\* The loop of read() is at segment idx: the buffer is right about those below,
\* and cur is where the window starts or lies in no segment that is left.
LimeReads ==
    /\ req \in [pa : Nat, len : Nat]
    /\ idx \in 1..(Len(segs) + 1)
    /\ cur \in Nat /\ req.pa <= cur /\ cur <= req.pa + req.len
    /\ cur = req.pa \/ \A j \in idx..Len(segs) : cur <= segs[j].pa
    /\ Partial(Items(segs), Seen(segs, idx), req.pa, req.len, dst, total)

\* Loaded, or loading, or in a read of what was loaded.
LimeIInv ==
    /\ LimeLoaded
    /\ status = "open" => off = file.size /\ segs # <<>>
    /\ req = Layer!NoReq \/ (status = "open" /\ LimeReads)

\* The extremes of two numbers.
LEMMA OfTwo ==
    ASSUME NEW x \in Int, NEW y \in Int
    PROVE  /\ Min({x, y}) = IF x <= y THEN x ELSE y
           /\ Max({x, y}) = IF x >= y THEN x ELSE y
  BY DEF Min, Max

LEMMA LimeOfTwo ==
    ASSUME NEW x \in Int, NEW y \in Int
    PROVE  /\ Lime!Min({x, y}) = IF x <= y THEN x ELSE y
           /\ Lime!Max({x, y}) = IF x >= y THEN x ELSE y
  BY OfTwo, SameMax

LEMMA NoRequest == Layer!NoReq \notin [pa : Nat, len : Nat] /\ Lime!NoReq = Layer!NoReq
  BY DEF Layer!NoReq, Lime!NoReq

\* When the headers reach to the end of the file, it holds what was loaded.
LEMMA LimeCaptures ==
    ASSUME LimeLoaded, off = file.size
    PROVE  Lime!Captured(file) = Items(segs)
  <1> DEFINE n == Len(file.recs)
             m == Len(segs)
             R(k) == Lime!RecordOff(file, k)
  <1>1. file \in LimeFile
    BY FileAssumption DEF LimeLoaded, LimeFile
  <1>2. /\ n \in Nat /\ m \in Nat /\ m <= n
        /\ \A i \in 1..m : segs[i] = LimeSeg(file, i)
        /\ R(m + 1) = file.size
    BY <1>1, RecordOffFacts DEF LimeLoaded
  <1>3. \A k \in 1..(n + 1) : R(k) \in Nat
    BY <1>1, RecordOffFacts
  <1>4. ASSUME NEW k \in 1..n PROVE R(k) < file.size <=> k <= m
    <2>1. CASE k <= m
      <3>1. m + 1 \in (k + 1)..(n + 1)
        BY <1>2, <2>1
      <3>2. R(k) + Hdr + Lime!DataLen(file.recs[k]) <= R(m + 1)
        BY <1>1, <3>1, RecordsApart
      <3>3. Lime!DataLen(file.recs[k]) \in Nat
        BY <1>1, DataLenFacts, RecordOffFacts
      <3>4. R(k) \in Nat /\ R(m + 1) \in Nat
        BY <1>2, <1>3
      <3> HIDE DEF R
      <3> QED BY <2>1, <3>2, <3>3, <3>4, <1>2, FormatAssumption
    <2>2. CASE k = m + 1
      <3>1. R(k) = file.size /\ R(k) \in Nat
        BY <1>2, <1>3, <2>2
      <3> HIDE DEF R
      <3> QED BY <3>1, <2>2, <1>2
    <2>3. CASE k > m + 1
      <3>1. m + 1 \in 1..n /\ k \in ((m + 1) + 1)..(n + 1)
        BY <1>2, <2>3
      <3>2. R(m + 1) + Hdr + Lime!DataLen(file.recs[m + 1]) <= R(k)
        BY <1>1, <3>1, RecordsApart
      <3>3. Lime!DataLen(file.recs[m + 1]) \in Nat
        BY <1>1, <3>1, DataLenFacts, RecordOffFacts
      <3>4. R(k) \in Nat /\ R(m + 1) \in Nat
        BY <1>2, <1>3
      <3> HIDE DEF R
      <3> QED BY <2>3, <3>2, <3>3, <3>4, <1>2, FormatAssumption
    <2> QED BY <1>2, <2>1, <2>2, <2>3
  <1>5. {k \in 1..n : R(k) < file.size} = 1..m
    <2> HIDE DEF R
    <2> QED BY <1>2, <1>4
  <1>6. Lime!Captured(file) = {LimeSeg(file, i) : i \in 1..m}
    BY <1>5 DEF Lime!Captured, LimeSeg
  <1>7. {LimeSeg(file, i) : i \in 1..m} = {segs[i] : i \in 1..m}
    <2> HIDE DEF m
    <2> QED BY <1>2
  <1> QED BY <1>6, <1>7 DEF Items

\* The contract's view of a LiME dump.
LEMMA LimeView ==
    ASSUME format = "lime"
    PROVE  Captured = Lime!Captured(file) /\ Declared = Lime!Captured(file)
  BY DEF Captured, Declared

\* A step of LiME leaves the dump as it is.
LEMMA LimeSame ==
    ASSUME IsLime, file' = file
    PROVE  Captured' = Captured /\ Declared' = Declared /\ format = "lime" /\ format' = "lime"
  <1>1. format = "lime" /\ format' = "lime"
    BY DEF IsLime
  <1>2. Lime!Captured(file)' = Lime!Captured(file)
    OBVIOUS
  <1> QED BY <1>1, <1>2 DEF Captured, Declared

\* A file of which nothing is loaded yet.
LEMMA LimeInit ==
    ASSUME format = "lime", Lime!Init
    PROVE  LimeIInv /\ Layer!Init
  <1>1. /\ file \in LimeFiles /\ segs = <<>> /\ off = 0 /\ prev_end = 0
        /\ status = "opening" /\ req = Layer!NoReq
    BY NoRequest DEF Lime!Init
  <1>2. file \in LimeFile
    BY <1>1, FileAssumption DEF LimeFile
  <1>3. Len(file.recs) \in Nat /\ Lime!RecordOff(file, 1) = 0 /\ file.size \in Nat
    BY <1>2, RecordOffFacts DEF LimeFile
  <1>4. segs \in Seq(Segments) /\ Len(segs) = 0 /\ 1..Len(segs) = {}
    BY <1>1
  <1>5. LimeLoaded
    BY <1>1, <1>3, <1>4 DEF LimeLoaded, Ascending
  <1>6. Layer!Init
    BY DEF Lime!Init, Layer!Init, Lime!NoReq, Layer!NoReq, Lime!NoReply, Layer!NoReply
  <1> QED BY <1>1, <1>5, <1>6 DEF LimeIInv

\* A header that passes the checks adds a segment above the others.
LEMMA LimeLoadStep ==
    ASSUME LimeIInv, IsLime, Lime!LoadSegment
    PROVE  LimeIInv' /\ [Layer!Next]_(Layer!layer)
  <1> DEFINE n == Len(file.recs)
             m == Len(segs)
             h == Lime!HeaderAt(file, off)
             s == [pa |-> h.start, len |-> Lime!DataLen(h), off |-> off + Hdr]
  <1>1. /\ status = "opening" /\ off + Hdr <= file.size
        /\ UNCHANGED <<file, max, req, idx, cur, dst, total, reply>>
    BY DEF Lime!LoadSegment, Lime!reading
  <1>2. /\ LimeLoaded /\ file \in LimeFile
        /\ req = Layer!NoReq
    BY <1>1, FileAssumption DEF LimeIInv, LimeLoaded, LimeFile
  <1>3. /\ segs \in Seq(Segments) /\ m \in Nat /\ n \in Nat /\ m <= n
        /\ off = Lime!RecordOff(file, m + 1) /\ off \in Nat /\ file.size \in Nat
        /\ prev_end \in Nat /\ Ascending(segs)
        /\ \A i \in 1..m : segs[i] = LimeSeg(file, i) /\ segs[i].len > 0
        /\ \A i \in 1..m : segs[i].pa + segs[i].len <= prev_end
    <2>1. n \in Nat /\ \A i \in 1..(n + 1) : Lime!RecordOff(file, i) \in Nat
      BY <1>2, RecordOffFacts
    <2>2. segs \in Seq(Segments) /\ m <= n /\ off = Lime!RecordOff(file, m + 1)
      BY <1>2 DEF LimeLoaded
    <2>3. m \in Nat /\ m + 1 \in 1..(n + 1)
      BY <2>1, <2>2
    <2>4. off \in Nat
      BY <2>1, <2>2, <2>3
    <2> QED BY <1>2, <2>1, <2>2, <2>3, <2>4 DEF LimeLoaded, LimeFile
  <1>4. Captured' = Captured /\ Declared' = Declared
    BY <1>1, LimeSame
  <1>5. CASE ~Lime!Acceptable(h)
    <2>1. status' = "failed" /\ UNCHANGED <<off, prev_end, segs>>
      BY <1>5 DEF Lime!LoadSegment, Lime!loading
    <2>2. LimeLoaded'
      BY <1>1, <1>2, <2>1 DEF LimeLoaded
    <2>3. LimeIInv'
      BY <1>1, <1>2, <2>1, <2>2 DEF LimeIInv
    <2>4. Layer!Refuse
      BY <1>1, <1>4, <2>1 DEF Layer!Refuse
    <2> QED BY <2>3, <2>4 DEF Layer!Next
  <1>6. CASE Lime!Acceptable(h)
    <2>1. /\ segs' = Append(segs, s)
          /\ prev_end' = h.end + 1
          /\ off' = off + Hdr + Lime!DataLen(h)
          /\ status' = status
      BY <1>6 DEF Lime!LoadSegment
    <2>2. /\ h.good /\ h.end >= h.start /\ h.start >= prev_end
          /\ Lime!DataLen(h) <= file.size - (off + Hdr)
      BY <1>6 DEF Lime!Acceptable
    <2>3. m < n /\ h = file.recs[m + 1]
      <3>1. CASE m = n
        BY <1>2, <1>3, <2>2, <3>1, HeaderFacts
      <3>2. CASE m < n
        <4>1. m + 1 \in 1..n
          BY <1>3, <3>2
        <4> QED BY <1>2, <1>3, <3>2, <4>1, HeaderFacts
      <3> QED BY <1>3, <3>1, <3>2
    <2>4. m + 1 \in 1..n /\ h \in LimeRecords
      <3>1. m + 1 \in 1..n
        BY <1>3, <2>3
      <3> QED BY <1>2, <2>3, <3>1, RecordOffFacts
    <2>5. /\ h.start \in Nat /\ h.end \in Nat
          /\ Lime!DataLen(h) = h.end - h.start + 1 /\ Lime!DataLen(h) \in Nat /\ Lime!DataLen(h) > 0
      <3> HIDE DEF h
      <3>1. h.start \in Nat /\ h.end \in Nat /\ Lime!DataLen(h) = h.end - h.start + 1
        BY <2>2, <2>4, DataLenFacts
      <3> QED BY <2>2, <3>1
    <2>6. s \in Segments /\ s = LimeSeg(file, m + 1) /\ s.len > 0
          /\ s.pa = h.start /\ s.len = Lime!DataLen(h)
      <3> HIDE DEF h, n, m
      <3>1. s \in Segments
        BY <2>5, <1>3, FormatAssumption DEF Segments
      <3> QED BY <3>1, <2>3, <2>5, <1>3 DEF LimeSeg
    <2> HIDE DEF s, h
    <2>7. /\ segs' \in Seq(Segments) /\ Len(segs') = m + 1
          /\ segs'[m + 1] = s /\ \A i \in 1..m : segs'[i] = segs[i]
      BY <1>3, <2>1, <2>6
    <2>8. \A i \in 1..m : segs[i].pa \in Nat /\ segs[i].len \in Nat
      BY <1>3, SegmentFacts
    <2>9. Ascending(segs')
      <3> SUFFICES ASSUME NEW i \in 1..(m + 1), NEW j \in 1..(m + 1), i < j
                   PROVE  segs'[i].pa + segs'[i].len <= segs'[j].pa
        BY <2>7 DEF Ascending
      <3>1. i \in 1..m
        BY <1>3
      <3>2. CASE j \in 1..m
        BY <3>1, <3>2, <2>7, <1>3 DEF Ascending
      <3>3. CASE j = m + 1
        <4>1. segs[i].pa + segs[i].len <= prev_end
          BY <3>1, <1>3
        <4>2. segs'[j].pa = h.start /\ segs'[i] = segs[i]
          BY <3>1, <3>3, <2>6, <2>7
        <4> QED BY <3>1, <4>1, <4>2, <2>2, <2>5, <2>8, <1>3
      <3> QED BY <1>3, <3>2, <3>3
    <2>10. \A i \in 1..(m + 1) : segs'[i] = LimeSeg(file, i) /\ segs'[i].len > 0
      <3> SUFFICES ASSUME NEW i \in 1..(m + 1) PROVE segs'[i] = LimeSeg(file, i) /\ segs'[i].len > 0
        OBVIOUS
      <3>1. CASE i = m + 1
        BY <3>1, <2>6, <2>7
      <3>2. CASE i \in 1..m
        BY <3>2, <2>7, <1>3
      <3> QED BY <1>3, <3>1, <3>2
    <2>11. off' = Lime!RecordOff(file, (m + 1) + 1) /\ off' <= file.size
      <3>1. Lime!RecordOff(file, (m + 1) + 1)
               = Lime!RecordOff(file, m + 1) + Hdr + Lime!DataLen(file.recs[m + 1])
        BY <1>2, <2>4, RecordOffFacts
      <3>2. off + Hdr + Lime!DataLen(h) <= file.size
        BY <2>2, <2>5, <1>3, FormatAssumption
      <3> QED BY <3>1, <3>2, <2>1, <2>3, <1>3
    <2>12. prev_end' \in Nat /\ \A i \in 1..(m + 1) : segs'[i].pa + segs'[i].len <= prev_end'
      <3>1. prev_end' \in Nat /\ prev_end' = h.start + Lime!DataLen(h)
        BY <2>1, <2>5
      <3> SUFFICES ASSUME NEW i \in 1..(m + 1) PROVE segs'[i].pa + segs'[i].len <= prev_end'
        BY <3>1
      <3>2. CASE i = m + 1
        BY <3>1, <3>2, <2>6, <2>7, <2>5
      <3>3. CASE i \in 1..m
        <4>1. segs'[i].pa + segs'[i].len <= prev_end
          BY <3>3, <2>7, <1>3
        <4>2. prev_end <= h.start /\ h.start <= prev_end' /\ segs'[i] = segs[i]
          BY <3>1, <3>3, <2>2, <2>5, <2>7, <1>3
        <4>3. segs[i].pa + segs[i].len \in Nat
          BY <3>3, <2>8
        <4> QED BY <3>1, <4>1, <4>2, <4>3, <2>5, <1>3
      <3> QED BY <1>3, <3>2, <3>3
    <2>13. file' = file /\ file' \in LimeFiles /\ Len(segs') <= Len(file'.recs)
      BY <1>1, <1>2, <1>3, <2>3, <2>7 DEF LimeLoaded
    <2>14. LimeLoaded'
      BY <2>7, <2>9, <2>10, <2>11, <2>12, <2>13 DEF LimeLoaded
    <2>15. LimeIInv'
      BY <1>1, <1>2, <2>1, <2>14 DEF LimeIInv
    <2>16. UNCHANGED Layer!layer
      BY <1>1, <1>4, <2>1 DEF Layer!layer
    <2> QED BY <2>15, <2>16
  <1> QED BY <1>5, <1>6

\* A file of whole segments is opened, with the end of the last one for max.
LEMMA LimeFinishStep ==
    ASSUME LimeIInv, IsLime, Lime!FinishLoad
    PROVE  LimeIInv' /\ [Layer!Next]_(Layer!layer)
  <1>1. /\ status = "opening" /\ LimeLoaded /\ req = Layer!NoReq
        /\ UNCHANGED <<file, off, prev_end, segs, req, idx, cur, dst, total, reply>>
    BY DEF Lime!FinishLoad, Lime!reading, Lime!loading, LimeIInv
  <1>2. Captured' = Captured /\ Declared' = Declared /\ format = "lime"
    BY <1>1, LimeSame
  <1>3. LimeLoaded'
    BY <1>1 DEF LimeLoaded
  <1>4. CASE off = file.size /\ segs # <<>>
    <2>1. status' = "open" /\ max' = segs[Len(segs)].pa + segs[Len(segs)].len
      BY <1>4 DEF Lime!FinishLoad
    <2>2. Declared = Items(segs)
      BY <1>1, <1>2, <1>4, LimeCaptures, LimeView
    <2>3. segs \in Seq(Segments) /\ Ascending(segs) /\ Len(segs) \in 1..Len(segs)
      <3>1. segs \in Seq(Segments) /\ Ascending(segs)
        BY <1>1 DEF LimeLoaded
      <3>2. Len(segs) \in Nat \ {0}
        BY <1>4, <3>1
      <3> QED BY <3>1, <3>2
    <2>4. segs[Len(segs)].len > 0
      BY <1>1, <2>3 DEF LimeLoaded
    <2>5. max' = Layer!Top(Declared)
      BY <2>1, <2>2, <2>3, <2>4, <1>4, LastTop
    <2>6. Layer!Open
      BY <1>1, <1>2, <2>1, <2>5 DEF Layer!Open
    <2>7. LimeIInv'
      BY <1>1, <1>3, <1>4, <2>1 DEF LimeIInv
    <2> QED BY <2>6, <2>7 DEF Layer!Next
  <1>5. CASE ~(off = file.size /\ segs # <<>>)
    <2>1. status' = "failed" /\ max' = max
      BY <1>5 DEF Lime!FinishLoad
    <2>2. Layer!Refuse
      BY <1>1, <1>2, <2>1 DEF Layer!Refuse
    <2>3. LimeIInv'
      BY <1>1, <1>3, <2>1 DEF LimeIInv
    <2> QED BY <2>2, <2>3 DEF Layer!Next
  <1> QED BY <1>4, <1>5

\* A read begins with nothing done.
LEMMA LimeCallStep ==
    ASSUME LimeIInv, IsLime, Lime!Call
    PROVE  LimeIInv' /\ [Layer!Next]_(Layer!layer)
  <1>1. PICK pa \in Addr, len \in Lengths :
           /\ req' = [pa |-> pa, len |-> len]
           /\ idx' = 1 /\ cur' = pa /\ total' = 0
           /\ dst' = [k \in 1..len |-> Lime!Zero]
    BY DEF Lime!Call
  <1>2. /\ status = "open" /\ req = Layer!NoReq /\ reply' = Layer!NoReply
        /\ UNCHANGED <<file, status, off, prev_end, segs, max>>
    BY NoRequest DEF Lime!Call, Lime!loading, Lime!NoReply, Layer!NoReply
  <1>3. Captured' = Captured /\ Declared' = Declared
    BY <1>2, LimeSame
  <1>4. Layer!Call
    BY <1>1, <1>2, <1>3 DEF Layer!Call
  <1>5. LimeLoaded /\ LimeLoaded' /\ segs \in Seq(Segments) /\ Len(segs) \in Nat
    <2>1. LimeLoaded
      BY DEF LimeIInv
    <2>2. LimeLoaded'
      BY <1>2, <2>1 DEF LimeLoaded
    <2>3. segs \in Seq(Segments)
      BY <2>1 DEF LimeLoaded
    <2> QED BY <2>1, <2>2, <2>3
  <1>6. pa \in Nat /\ len \in Nat
    BY FormatAssumption
  <1>7. Partial(Items(segs), Seen(segs, 1), pa, len, [k \in 1..len |-> Layer!Zero], 0)
    <2>1. Seen(segs, 1) = {}
      BY <1>5, SeenFacts
    <2>2. Layer!Window(pa, len) \cap Seen(segs, 1) = {}
      BY <2>1
    <2> QED BY <1>6, <2>2, PartialStart
  <1>8. Partial(Items(segs'), Seen(segs', idx'), req'.pa, req'.len, dst', total')
    <2>1. dst' = [k \in 1..len |-> Layer!Zero]
      BY <1>1 DEF Lime!Zero, Layer!Zero
    <2>2. segs' = segs /\ idx' = 1 /\ req'.pa = pa /\ req'.len = len /\ total' = 0
      BY <1>1, <1>2
    <2> QED BY <1>7, <2>1, <2>2
  <1>9. LimeReads'
    <2>1. req' \in [pa : Nat, len : Nat] /\ req'.pa = pa /\ req'.len = len
      BY <1>1, <1>6
    <2>2. idx' \in 1..(Len(segs') + 1)
      BY <1>1, <1>2, <1>5
    <2>3. cur' \in Nat /\ req'.pa <= cur' /\ cur' <= req'.pa + req'.len /\ cur' = req'.pa
      BY <1>1, <1>6, <2>1
    <2> QED BY <2>1, <2>2, <2>3, <1>8 DEF LimeReads
  <1>10. LimeIInv'
    BY <1>2, <1>5, <1>9 DEF LimeIInv
  <1> QED BY <1>4, <1>10 DEF Layer!Next

\* What the steps of the loop rest on.
LEMMA LimeReadFacts ==
    ASSUME LimeIInv, req # Lime!NoReq
    PROVE  /\ LimeLoaded /\ LimeReads /\ status = "open" /\ off = file.size /\ segs # <<>>
           /\ segs \in Seq(Segments) /\ Ascending(segs) /\ Len(segs) \in Nat
           /\ \A i \in 1..Len(segs) :
                 /\ segs[i].pa \in Nat /\ segs[i].len \in Nat /\ segs[i].off \in Nat /\ segs[i].len > 0
                 /\ \A a : a \in Layer!Span(segs[i]) <=> a \in Int /\ segs[i].pa <= a /\ a < segs[i].pa + segs[i].len
           /\ req.pa \in Nat /\ req.len \in Nat /\ req \in [pa : Nat, len : Nat]
           /\ idx \in 1..(Len(segs) + 1) /\ cur \in Nat /\ req.pa <= cur /\ cur <= req.pa + req.len
  <1>1. LimeLoaded /\ LimeReads /\ status = "open" /\ off = file.size /\ segs # <<>>
    BY NoRequest DEF LimeIInv
  <1>2. segs \in Seq(Segments) /\ Ascending(segs) /\ \A i \in 1..Len(segs) : segs[i].len > 0
    BY <1>1 DEF LimeLoaded
  <1>3. Len(segs) \in Nat
    BY <1>2
  <1>4. req \in [pa : Nat, len : Nat] /\ idx \in 1..(Len(segs) + 1)
        /\ cur \in Nat /\ req.pa <= cur /\ cur <= req.pa + req.len
    BY <1>1 DEF LimeReads
  <1> QED BY <1>1, <1>2, <1>3, <1>4, SegmentFacts

\* A segment below cur holds nothing of the window.
LEMMA LimeSkipStep ==
    ASSUME LimeIInv, IsLime, Lime!SkipSegment
    PROVE  LimeIInv' /\ [Layer!Next]_(Layer!layer)
  <1>1. /\ req # Lime!NoReq /\ idx <= Len(segs) /\ segs[idx].pa + segs[idx].len <= cur /\ idx' = idx + 1
        /\ UNCHANGED <<file, status, off, prev_end, segs, max, req, cur, dst, total, reply>>
    BY DEF Lime!SkipSegment, Lime!loading, Lime!SegEnd, Lime!Seg
  <1>2. /\ LimeLoaded /\ LimeReads
        /\ segs \in Seq(Segments) /\ Ascending(segs) /\ Len(segs) \in Nat
        /\ req.pa \in Nat /\ req.len \in Nat /\ req \in [pa : Nat, len : Nat] /\ cur \in Nat
        /\ req.pa <= cur /\ cur <= req.pa + req.len
    BY <1>1, LimeReadFacts
  <1>3. idx \in 1..Len(segs) /\ idx + 1 \in 1..(Len(segs) + 1)
    <2>1. idx \in 1..(Len(segs) + 1)
      BY <1>1, LimeReadFacts
    <2> QED BY <2>1, <1>1, <1>2
  <1>4. /\ segs[idx].pa \in Nat /\ segs[idx].len \in Nat /\ segs[idx].len > 0
        /\ \A a : a \in Layer!Span(segs[idx]) <=> a \in Int /\ segs[idx].pa <= a /\ a < segs[idx].pa + segs[idx].len
    BY <1>1, <1>3, LimeReadFacts
  <1>5. cur = req.pa
    <2>1. cur = req.pa \/ cur <= segs[idx].pa
      BY <1>2, <1>3 DEF LimeReads
    <2> QED BY <2>1, <1>1, <1>2, <1>4
  <1>6. Layer!Window(req.pa, req.len) \cap Layer!Span(segs[idx]) = {}
    BY <1>1, <1>2, <1>4, <1>5 DEF Layer!Window
  <1>7. Partial(Items(segs), Seen(segs, idx), req.pa, req.len, dst, total)
    BY <1>2 DEF LimeReads
  <1>8. Partial(Items(segs), Seen(segs, idx + 1), req.pa, req.len, dst, total)
    BY <1>2, <1>3, <1>6, <1>7, PassKeeps
  <1>9. LimeReads'
    BY <1>1, <1>2, <1>3, <1>5, <1>8 DEF LimeReads
  <1>10. LimeLoaded'
    BY <1>1, <1>2 DEF LimeLoaded
  <1>11. LimeIInv'
    BY <1>1, <1>9, <1>10 DEF LimeIInv
  <1>12. UNCHANGED Layer!layer
    BY <1>1, LimeSame DEF Layer!layer
  <1> QED BY <1>11, <1>12

\* Every byte a loaded segment has in common with the window is in the file.
LEMMA LimeCopyStep ==
    ASSUME LimeIInv, IsLime, Lime!CopySegment
    PROVE  LimeIInv' /\ [Layer!Next]_(Layer!layer)
  <1> DEFINE s == segs[idx]
             end == req.pa + req.len
             send == s.pa + s.len
             rs == Lime!Max({cur, s.pa})
             re == Lime!Min({end, send})
             at == s.off + (rs - s.pa)
             got == Lime!SourceRead(file, at, re - rs)
  <1>1. /\ req # Lime!NoReq /\ idx <= Len(segs) /\ send > cur /\ s.pa < end
        /\ idx' = idx + 1 /\ cur' = re /\ total' = total + got
        /\ dst' = [k \in DOMAIN dst |->
                     LET i == k - 1 - (rs - req.pa)
                     IN  IF i >= 0 /\ i < got THEN at + i ELSE dst[k]]
        /\ UNCHANGED <<file, status, off, prev_end, segs, max, req, reply>>
    BY DEF Lime!CopySegment, Lime!loading, Lime!SegEnd, Lime!Seg, Lime!End
  <1>2. /\ LimeLoaded /\ LimeReads /\ off = file.size
        /\ segs \in Seq(Segments) /\ Ascending(segs) /\ Len(segs) \in Nat
        /\ req.pa \in Nat /\ req.len \in Nat /\ req \in [pa : Nat, len : Nat] /\ cur \in Nat
        /\ req.pa <= cur /\ cur <= req.pa + req.len
    BY <1>1, LimeReadFacts
  <1>3. idx \in 1..Len(segs) /\ idx + 1 \in 1..(Len(segs) + 1)
    <2>1. idx \in 1..(Len(segs) + 1)
      BY <1>1, LimeReadFacts
    <2> QED BY <2>1, <1>1, <1>2
  <1>4. /\ s.pa \in Nat /\ s.len \in Nat /\ s.len > 0 /\ s.off \in Nat
        /\ \A a : a \in Layer!Span(s) <=> a \in Int /\ s.pa <= a /\ a < send
    BY <1>1, <1>3, LimeReadFacts
  <1>5. cur = req.pa \/ cur <= s.pa
    BY <1>2, <1>3 DEF LimeReads
  <1>6. /\ rs = IF cur >= s.pa THEN cur ELSE s.pa
        /\ re = IF end <= send THEN end ELSE send
        /\ rs \in Nat /\ re \in Nat /\ rs <= re /\ cur <= re /\ re <= end /\ re <= send /\ s.pa <= rs
        /\ send \in Nat /\ end \in Nat
    <2>1. end \in Nat /\ send \in Nat
      BY <1>2, <1>4
    <2>2. rs = IF cur >= s.pa THEN cur ELSE s.pa
      <3> HIDE DEF s
      <3>1. cur \in Int /\ s.pa \in Int
        BY <1>2, <1>4
      <3> QED BY <3>1, LimeOfTwo
    <2>3. re = IF end <= send THEN end ELSE send
      <3> HIDE DEF end, send
      <3>1. end \in Int /\ send \in Int
        BY <2>1
      <3> QED BY <3>1, LimeOfTwo
    <2> HIDE DEF rs, re
    <2>4. rs \in Nat /\ re \in Nat
      BY <1>2, <1>4, <2>1, <2>2, <2>3
    <2>5. cur <= end /\ cur < send /\ s.pa < end /\ s.pa < send
      BY <1>1, <1>2, <1>4
    <2> HIDE DEF s, end, send
    <2> QED BY <1>2, <1>4, <2>1, <2>2, <2>3, <2>4, <2>5
  <1>7. s.off + s.len <= file.size
    <2>1. s = LimeSeg(file, idx) /\ file \in LimeFile /\ idx \in 1..Len(file.recs) /\ Len(segs) <= Len(file.recs)
      <3>1. file \in LimeFile
        BY <1>2, FileAssumption DEF LimeLoaded, LimeFile
      <3>2. Len(segs) <= Len(file.recs) /\ s = LimeSeg(file, idx)
        BY <1>2, <1>3 DEF LimeLoaded
      <3> QED BY <1>2, <1>3, <3>1, <3>2, RecordOffFacts
    <2>2. Len(segs) + 1 \in (idx + 1)..(Len(file.recs) + 1) /\ Len(file.recs) \in Nat
      <3>1. Len(file.recs) \in Nat
        BY <2>1, RecordOffFacts
      <3> QED BY <1>2, <1>3, <2>1, <3>1
    <2>3. Lime!RecordOff(file, idx) + Hdr + Lime!DataLen(file.recs[idx]) <= Lime!RecordOff(file, Len(segs) + 1)
      BY <2>1, <2>2, RecordsApart
    <2>4. Lime!RecordOff(file, Len(segs) + 1) = file.size
      BY <1>2 DEF LimeLoaded
    <2>5. s.off = Lime!RecordOff(file, idx) + Hdr /\ s.len = Lime!DataLen(file.recs[idx])
      BY <2>1 DEF LimeSeg
    <2> QED BY <2>3, <2>4, <2>5
  <1>8. got = re - rs
    <2>1. file.size \in Nat
      <3>1. file \in LimeFile
        BY <1>2, FileAssumption DEF LimeLoaded, LimeFile
      <3> QED BY <3>1 DEF LimeFile
    <2>2. at \in Nat /\ at + (re - rs) <= file.size /\ re - rs \in Nat
      <3> HIDE DEF s, end, re, rs
      <3> QED BY <1>4, <1>6, <1>7, <2>1
    <2> HIDE DEF at, re, rs
    <2>3. CASE at >= file.size
      BY <2>1, <2>2, <2>3 DEF Lime!SourceRead
    <2>4. CASE at < file.size
      <3>1. file.size - at \in Int /\ re - rs \in Int
        BY <2>1, <2>2
      <3>2. Lime!Min({re - rs, file.size - at}) = IF re - rs <= file.size - at THEN re - rs ELSE file.size - at
        BY <3>1, LimeOfTwo
      <3> QED BY <2>1, <2>2, <2>4, <3>2 DEF Lime!SourceRead
    <2> QED BY <2>1, <2>2, <2>3, <2>4
  <1>9. Layer!Window(req.pa, req.len) \cap Layer!Span(s) = Layer!Window(rs, re - rs)
    <2> SUFFICES ASSUME NEW a
                 PROVE  a \in Layer!Window(req.pa, req.len) /\ a \in Layer!Span(s)
                           <=> a \in Layer!Window(rs, re - rs)
      OBVIOUS
    <2>1. a \in Layer!Window(req.pa, req.len) <=> a \in Int /\ req.pa <= a /\ a < end
      BY <1>2 DEF Layer!Window
    <2>2. a \in Layer!Window(rs, re - rs) <=> a \in Int /\ rs <= a /\ a < re
      <3> HIDE DEF rs, re
      <3> QED BY <1>6 DEF Layer!Window
    <2>3. a \in Layer!Span(s) <=> a \in Int /\ s.pa <= a /\ a < send
      BY <1>4
    <2> HIDE DEF s, rs, re, end, send
    <2> QED BY <2>1, <2>2, <2>3, <1>2, <1>4, <1>5, <1>6
  <1>10. Partial(Items(segs), Seen(segs, idx), req.pa, req.len, dst, total)
    BY <1>2 DEF LimeReads
  <1>11. DOMAIN dst = 1..req.len /\ DOMAIN dst' = 1..req.len
    <2>1. DOMAIN dst = 1..req.len
      BY <1>10 DEF Partial
    <2> QED BY <2>1, <1>1
  <1>12. \A k \in 1..req.len : LET a == req.pa + k - 1 IN
            dst'[k] = IF a \in Layer!Window(rs, re - rs) THEN s.off + (a - s.pa) ELSE dst[k]
    <2> SUFFICES ASSUME NEW k \in 1..req.len
                 PROVE  dst'[k] = IF req.pa + k - 1 \in Layer!Window(rs, re - rs)
                                  THEN s.off + ((req.pa + k - 1) - s.pa) ELSE dst[k]
      OBVIOUS
    <2> DEFINE i == k - 1 - (rs - req.pa)
    <2>1. dst'[k] = IF i >= 0 /\ i < got THEN at + i ELSE dst[k]
      <3>1. k \in DOMAIN dst
        BY <1>11
      <3> HIDE DEF rs, got, at
      <3> QED BY <3>1, <1>1
    <2>2. i >= 0 /\ i < got <=> req.pa + k - 1 \in Layer!Window(rs, re - rs)
      <3>1. /\ req.pa \in Nat /\ req.len \in Nat /\ k \in Int /\ got = re - rs
            /\ rs \in Nat /\ re \in Nat /\ rs <= re
        BY <1>2, <1>6, <1>8
      <3> HIDE DEF rs, re, got
      <3>2. req.pa + k - 1 \in Layer!Window(rs, re - rs) <=> rs <= req.pa + k - 1 /\ req.pa + k - 1 < re
        BY <3>1 DEF Layer!Window
      <3> QED BY <3>1, <3>2
    <2>3. at + i = s.off + ((req.pa + k - 1) - s.pa)
      <3> HIDE DEF rs, s
      <3> QED BY <1>2, <1>4, <1>6
    <2> HIDE DEF i, at, got, rs, re, s
    <2> QED BY <2>1, <2>2, <2>3
  <1>13. Partial(Items(segs), Seen(segs, idx + 1), req.pa, req.len, dst', total + (re - rs))
    <2>1. re - rs \in Nat /\ rs \in Nat
      <3> HIDE DEF rs, re
      <3> QED BY <1>6
    <2> HIDE DEF rs, re
    <2> QED BY <2>1, <1>2, <1>3, <1>9, <1>10, <1>11, <1>12, CopyKeeps DEF s
  <1>14. \A j \in (idx + 1)..Len(segs) : cur' <= segs[j].pa
    <2> SUFFICES ASSUME NEW j \in (idx + 1)..Len(segs) PROVE cur' <= segs[j].pa
      OBVIOUS
    <2>1. j \in 1..Len(segs) /\ idx < j
      BY <1>2, <1>3
    <2>2. send <= segs[j].pa
      BY <2>1, <1>2, <1>3 DEF Ascending
    <2>3. segs[j].pa \in Nat
      BY <1>1, <2>1, LimeReadFacts
    <2> HIDE DEF re, send
    <2> QED BY <2>2, <2>3, <1>1, <1>6
  <1>15. LimeReads'
    <2>1. cur' \in Nat /\ req.pa <= cur' /\ cur' <= req.pa + req.len
      <3> HIDE DEF re
      <3> QED BY <1>1, <1>2, <1>6
    <2>2. total' = total + (re - rs)
      BY <1>1, <1>8
    <2>3. Partial(Items(segs), Seen(segs, idx + 1), req.pa, req.len, dst', total')
      BY <1>13, <2>2
    <2>4. segs' = segs /\ req' = req /\ idx' = idx + 1
      BY <1>1
    <2> HIDE DEF re, rs, got, at, s, send, end
    <2> QED BY <2>1, <2>3, <2>4, <1>2, <1>3, <1>14 DEF LimeReads
  <1>16. LimeLoaded'
    BY <1>1, <1>2 DEF LimeLoaded
  <1>17. LimeIInv'
    <2>1. UNCHANGED <<status, file, off, segs, req>> /\ status = "open" /\ off = file.size /\ segs # <<>>
      BY <1>1, LimeReadFacts
    <2> QED BY <2>1, <1>15, <1>16 DEF LimeIInv
  <1>18. UNCHANGED Layer!layer
    BY <1>1, LimeSame DEF Layer!layer
  <1> QED BY <1>17, <1>18

\* What is left lies above the window: the buffer is what was asked for.
LEMMA LimeReturnStep ==
    ASSUME LimeIInv, IsLime, Lime!Return
    PROVE  LimeIInv' /\ [Layer!Next]_(Layer!layer)
  <1>1. /\ req # Lime!NoReq
        /\ idx <= Len(segs) => segs[idx].pa >= req.pa + req.len
        /\ reply' = [pa |-> req.pa, bytes |-> dst, count |-> total]
        /\ req' = Lime!NoReq
        /\ UNCHANGED <<file, status, off, prev_end, segs, max, idx, cur, dst, total>>
    BY DEF Lime!Return, Lime!loading, Lime!Seg, Lime!End
  <1>2. /\ LimeLoaded /\ LimeReads /\ off = file.size /\ status = "open" /\ segs # <<>>
        /\ segs \in Seq(Segments) /\ Ascending(segs)
        /\ req.pa \in Nat /\ req.len \in Nat /\ idx \in 1..(Len(segs) + 1)
    BY <1>1, LimeReadFacts
  <1>3. Captured' = Captured /\ Declared' = Declared /\ Captured = Items(segs)
    BY <1>1, <1>2, LimeSame, LimeView, LimeCaptures
  <1>4. Layer!Window(req.pa, req.len) \cap Seen(segs, idx)
           = Layer!Window(req.pa, req.len) \cap Layer!Backed(Items(segs))
    BY <1>1, <1>2, NothingAbove
  <1>5. Partial(Items(segs), Seen(segs, idx), req.pa, req.len, dst, total)
    BY <1>2 DEF LimeReads
  <1>6. Layer!Faithful(Captured, req.pa, req.len, dst) /\ Layer!Honest(Captured, req.pa, req.len, total)
    BY <1>2, <1>3, <1>4, <1>5, PartialDone
  <1>7. reply'.pa = req.pa /\ reply'.bytes = dst /\ reply'.count = total
    BY <1>1
  <1>8. Layer!Return
    BY <1>1, <1>3, <1>6, <1>7, NoRequest DEF Layer!Return
  <1>9. LimeLoaded'
    BY <1>1, <1>2 DEF LimeLoaded
  <1>10. LimeIInv'
    BY <1>1, <1>2, <1>9, NoRequest DEF LimeIInv
  <1> QED BY <1>8, <1>10 DEF Layer!Next

LEMMA LimeStep ==
    ASSUME LimeIInv, IsLime, Lime!Next
    PROVE  LimeIInv' /\ [Layer!Next]_(Layer!layer)
  BY LimeLoadStep, LimeFinishStep, LimeCallStep, LimeSkipStep, LimeCopyStep, LimeReturnStep DEF Lime!Next

-----------------------------------------------------------------------------
(* A raw image.                                                            *)

\* A raw image is open as soon as it is there, and read in one go.
RawIInv ==
    /\ file \in [size : RawSizes]
    /\ req = Layer!NoReq \/ req \in [pa : Nat, len : Nat]

LEMMA RawInitial ==
    ASSUME format = "raw", RawInit
    PROVE  RawIInv /\ Layer!Init
  BY NoRequest DEF RawInit, RawIInv, Layer!Init, Lime!NoReply, Layer!NoReply

\* Its one range is the file.
LEMMA RawView ==
    ASSUME format = "raw", file \in [size : RawSizes]
    PROVE  /\ file.size \in Nat
           /\ Captured = RawRange /\ Declared = RawRange
           /\ \A a : a \in Layer!Backed(RawRange) <=> a \in Int /\ 0 <= a /\ a < file.size
           /\ \A a \in Layer!Backed(RawRange) : a \in Layer!Sources(RawRange, a)
           /\ Layer!Top(RawRange) = file.size
  <1> DEFINE r == [pa |-> 0, len |-> file.size, off |-> 0]
  <1>1. file.size \in Nat
    BY FileAssumption
  <1>2. Captured = RawRange /\ Declared = RawRange
    BY DEF Captured, Declared
  <1>3. Layer!Backed(RawRange) = Layer!Span(r)
    BY DEF Layer!Backed, RawRange
  <1>4. \A a : a \in Layer!Span(r) <=> a \in Int /\ 0 <= a /\ a < file.size
    BY <1>1 DEF Layer!Span
  <1>5. ASSUME NEW a \in Layer!Span(r) PROVE a \in Layer!Sources(RawRange, a)
    <2>1. r \in {t \in RawRange : a \in Layer!Span(t)} /\ r.off + (a - r.pa) = a
      BY <1>4, <1>5 DEF RawRange
    <2> QED BY <2>1 DEF Layer!Sources
  <1>6. Layer!Top(RawRange) = file.size
    <2>1. CASE file.size = 0
      <3>1. Layer!Span(r) = {}
        BY <1>4, <2>1
      <3> QED BY <3>1, <1>3, <2>1 DEF Layer!Top
    <2>2. CASE file.size > 0
      <3> DEFINE s == <<r>>
      <3>1. s \in Seq(Segments) /\ Len(s) = 1 /\ s[1] = r /\ s # <<>> /\ r.pa = 0 /\ r.len = file.size
        BY <1>1 DEF Segments
      <3>2. Ascending(s)
        BY <3>1 DEF Ascending
      <3>3. Items(s) = RawRange
        BY <3>1 DEF Items, RawRange
      <3> HIDE DEF s
      <3>4. Layer!Top(Items(s)) = s[Len(s)].pa + s[Len(s)].len
        <4>1. s[Len(s)].len > 0
          BY <3>1, <2>2
        <4> QED BY <3>1, <3>2, <4>1, LastTop
      <3> QED BY <3>1, <3>3, <3>4, <1>1
    <2> QED BY <1>1, <2>1, <2>2
  <1> QED BY <1>1, <1>2, <1>3, <1>4, <1>5, <1>6

\* It stays as it is.
LEMMA RawSame ==
    ASSUME IsRaw, file' = file
    PROVE  Captured' = Captured /\ Declared' = Declared /\ format = "raw" /\ format' = "raw"
  <1>1. format = "raw" /\ format' = "raw"
    BY DEF IsRaw
  <1>2. RawRange' = RawRange
    BY DEF RawRange
  <1> QED BY <1>1, <1>2 DEF Captured, Declared

\* A read takes what the file has of the window.
LEMMA RawStep ==
    ASSUME RawIInv, IsRaw, RawNext
    PROVE  RawIInv' /\ [Layer!Next]_(Layer!layer)
  <1>1. /\ file' = file /\ file \in [size : RawSizes] /\ file.size \in Nat
        /\ Captured = RawRange /\ Declared = RawRange /\ Captured' = Captured /\ Declared' = Declared
    <2>1. file' = file /\ file \in [size : RawSizes]
      BY DEF RawIInv, RawNext, RawOpen, RawCall, RawRead
    <2> QED BY <2>1, RawSame, RawView
  <1>2. CASE RawOpen
    <2>1. status = "opening" /\ status' = "open" /\ max' = Layer!Top(Declared)
      BY <1>1, <1>2, RawSame, RawView DEF RawOpen
    <2>2. Layer!Open
      BY <1>1, <1>2, <2>1 DEF RawOpen, Layer!Open
    <2>3. RawIInv'
      BY <1>1, <1>2 DEF RawOpen, RawIInv
    <2> QED BY <2>2, <2>3 DEF Layer!Next
  <1>3. CASE RawCall
    <2>1. Layer!Call
      BY <1>1, <1>3, NoRequest DEF RawCall, Layer!Call, Lime!NoReply, Layer!NoReply
    <2>2. req' \in [pa : Nat, len : Nat]
      BY <1>3, FormatAssumption DEF RawCall
    <2> QED BY <2>1, <2>2, <1>1 DEF RawIInv, Layer!Next
  <1>4. CASE RawRead
    <2> DEFINE W == Layer!Window(req.pa, req.len)
               m == IF req.pa >= file.size THEN 0 ELSE Min({req.len, file.size - req.pa})
    <2>1. /\ req # Layer!NoReq /\ req' = Layer!NoReq /\ total' = m
          /\ dst' = [k \in 1..req.len |-> IF k <= total' THEN req.pa + k - 1 ELSE Layer!Zero]
          /\ reply' = [pa |-> req.pa, bytes |-> dst', count |-> total']
          /\ UNCHANGED <<file, status, max>>
      BY <1>4, NoRequest DEF RawRead, Lime!Zero, Layer!Zero
    <2>2. req.pa \in Nat /\ req.len \in Nat
      BY <2>1 DEF RawIInv
    <2>3. m \in Nat /\ m <= req.len
          /\ \A a \in Int : req.pa <= a => (a < req.pa + m <=> a < req.pa + req.len /\ a < file.size)
      <3>1. CASE req.pa >= file.size
        BY <3>1, <2>2, <1>1
      <3>2. CASE req.pa < file.size
        <4>1. req.len \in Int /\ file.size - req.pa \in Int
          BY <2>2, <1>1
        <4>2. Min({req.len, file.size - req.pa})
                 = IF req.len <= file.size - req.pa THEN req.len ELSE file.size - req.pa
          BY <4>1, OfTwo
        <4> QED BY <3>2, <4>2, <2>2, <1>1
      <3> QED BY <3>1, <3>2, <2>2, <1>1
    <2> HIDE DEF m
    <2>4. Partial(RawRange, {}, req.pa, req.len, [k \in 1..req.len |-> Layer!Zero], 0)
      BY <2>2, PartialStart
    <2>5. \A a : a \in Layer!Window(req.pa, m) <=> a \in W /\ a \in Layer!Backed(RawRange)
      <3>1. \A a : a \in Layer!Window(req.pa, m) <=> a \in Int /\ req.pa <= a /\ a < req.pa + m
        BY <2>2, <2>3 DEF Layer!Window
      <3>2. \A a : a \in W <=> a \in Int /\ req.pa <= a /\ a < req.pa + req.len
        BY <2>2 DEF Layer!Window
      <3>3. \A a : a \in Layer!Backed(RawRange) <=> a \in Int /\ 0 <= a /\ a < file.size
        BY <1>1, RawSame, RawView
      <3> HIDE DEF W
      <3> QED BY <2>2, <2>3, <3>1, <3>2, <3>3
    <2>6. W \cap Layer!Backed(RawRange) = (W \cap {}) \cup Layer!Window(req.pa, m)
      BY <2>5
    <2>7. \A a \in Layer!Window(req.pa, m) : req.pa + (a - req.pa) \in Layer!Sources(RawRange, a)
      <3> SUFFICES ASSUME NEW a \in Layer!Window(req.pa, m)
                   PROVE  req.pa + (a - req.pa) \in Layer!Sources(RawRange, a)
        OBVIOUS
      <3>1. a \in Int /\ a \in Layer!Backed(RawRange)
        BY <2>2, <2>5 DEF Layer!Window
      <3>2. a \in Layer!Sources(RawRange, a)
        BY <3>1, <1>1, RawSame, RawView
      <3>3. req.pa + (a - req.pa) = a
        BY <3>1, <2>2
      <3> QED BY <3>2, <3>3
    <2>8. DOMAIN dst' = 1..req.len
      BY <2>1
    <2>9. \A k \in 1..req.len : LET a == req.pa + k - 1 IN
             dst'[k] = IF a \in Layer!Window(req.pa, m) THEN req.pa + (a - req.pa)
                       ELSE [j \in 1..req.len |-> Layer!Zero][k]
      <3> SUFFICES ASSUME NEW k \in 1..req.len
                   PROVE  dst'[k] = IF req.pa + k - 1 \in Layer!Window(req.pa, m)
                                    THEN req.pa + ((req.pa + k - 1) - req.pa) ELSE Layer!Zero
        OBVIOUS
      <3>1. dst'[k] = IF k <= m THEN req.pa + k - 1 ELSE Layer!Zero
        BY <2>1
      <3>2. k <= m <=> req.pa + k - 1 \in Layer!Window(req.pa, m)
        BY <2>2, <2>3 DEF Layer!Window
      <3>3. req.pa + ((req.pa + k - 1) - req.pa) = req.pa + k - 1
        BY <2>2
      <3> QED BY <3>1, <3>2, <3>3
    <2>10. Partial(RawRange, Layer!Backed(RawRange), req.pa, req.len, dst', 0 + m)
      <3>1. Layer!Window(req.pa, m) \cap {} = {} /\ req.pa \in Int
        BY <2>2
      <3> HIDE DEF W
      <3>2. Layer!Window(req.pa, req.len) \cap Layer!Backed(RawRange)
               = (Layer!Window(req.pa, req.len) \cap {}) \cup Layer!Window(req.pa, m)
        BY <2>6 DEF W
      <3> QED BY <2>2, <2>3, <2>4, <2>7, <2>8, <2>9, <3>1, <3>2, PartialCopy
    <2>11. Partial(RawRange, Layer!Backed(RawRange), req.pa, req.len, dst', total')
      BY <2>1, <2>3, <2>10
    <2>12. Layer!Faithful(RawRange, req.pa, req.len, dst') /\ Layer!Honest(RawRange, req.pa, req.len, total')
      BY <2>2, <2>11, PartialDone
    <2>13. reply'.pa = req.pa /\ reply'.bytes = dst' /\ reply'.count = total'
      BY <2>1
    <2>14. Layer!Return
      BY <1>1, <2>1, <2>12, <2>13 DEF Layer!Return
    <2>15. RawIInv'
      BY <1>1, <2>1 DEF RawIInv
    <2> QED BY <2>14, <2>15 DEF Layer!Next
  <1> QED BY <1>2, <1>3, <1>4 DEF RawNext

-----------------------------------------------------------------------------
(* kdump.                                                                  *)

KdumpFile == [good : BOOLEAN, phdrs : Seq(ProgramHeaders), size : Nat]

RangeOfHeader(ph) == [pa |-> ph.paddr, len |-> ph.filesz, off |-> ph.offset]
LoadIndices(f) == {i \in 1..Len(f.phdrs) : f.phdrs[i].type = "load"}

\* No PT_LOAD lies in another.
Unnested(f) == \A i, j \in LoadIndices(f) :
    i # j => Layer!Span(RangeOfHeader(f.phdrs[i])) \cap Layer!Span(RangeOfHeader(f.phdrs[j])) = {}

\* The part of a range that the file holds.
Clip(r, size) == Kdump!Min({r.len, Kdump!Max({0, size - r.off})})
ClippedTo(r, size) == [pa |-> r.pa, len |-> Clip(r, size), off |-> r.off]

\* A PT_LOAD of header h makes range r.
Makes(f, h, r) == f.phdrs[h].type = "load" /\ f.phdrs[h].filesz > 0 /\ r = RangeOfHeader(f.phdrs[h])

Apart(s) == \A i, j \in 1..Len(s) : i # j => Layer!Span(s[i]) \cap Layer!Span(s[j]) = {}

\* The ranges are those of the headers before phdr.
KdumpScanned ==
    /\ file \in KdumpFiles /\ Unnested(file)
    /\ phdr \in 1..(Len(file.phdrs) + 1)
    /\ ranges \in Seq(Segments)
    /\ Apart(ranges)
    /\ \A i \in 1..Len(ranges) : \E h \in 1..(phdr - 1) : Makes(file, h, ranges[i])
    /\ \A h \in 1..(phdr - 1) :
          file.phdrs[h].type = "load" /\ file.phdrs[h].filesz > 0
             => \E i \in 1..Len(ranges) : Makes(file, h, ranges[i])

\* What a dump holds of its ranges below address c.
Below(S, c) == {a \in Layer!Backed(S) : a < c}

\* The loop of read() is at cur, rest bytes before the end of the window.
KdumpReads ==
    /\ req \in [pa : Nat, len : Nat] /\ req.pa + req.len < Infinity
    /\ rest \in 0..req.len
    /\ cur = req.pa + (req.len - rest)
    /\ Partial(Kdump!Captured, Below(Kdump!Captured, cur), req.pa, req.len, dst, total)

\* The same of kdump.
KdumpIInv ==
    /\ KdumpScanned
    /\ status = "open" => phdr = Len(file.phdrs) + 1 /\ Ascending(ranges) /\ ranges # <<>>
    /\ req = Layer!NoReq \/ (status = "open" /\ KdumpReads)

LEMMA KdumpOfTwo ==
    ASSUME NEW x \in Int, NEW y \in Int
    PROVE  /\ Kdump!Min({x, y}) = IF x <= y THEN x ELSE y
           /\ Kdump!Max({x, y}) = IF x >= y THEN x ELSE y
  BY DEF Kdump!Min, Kdump!Max

LEMMA HeaderShape ==
    ASSUME NEW f \in KdumpFile
    PROVE  /\ Len(f.phdrs) \in Nat /\ f.size \in Nat
           /\ \A h \in 1..Len(f.phdrs) :
                 /\ f.phdrs[h] \in ProgramHeaders
                 /\ RangeOfHeader(f.phdrs[h]) \in Segments
                 /\ f.phdrs[h].paddr \in Nat /\ f.phdrs[h].filesz \in Nat /\ f.phdrs[h].offset \in Nat
  <1>1. f.phdrs \in Seq(ProgramHeaders) /\ f.size \in Nat
    BY DEF KdumpFile
  <1>2. Len(f.phdrs) \in Nat
    BY <1>1
  <1>3. \A h \in 1..Len(f.phdrs) : f.phdrs[h] \in ProgramHeaders
    BY <1>1
  <1>4. \A p \in ProgramHeaders : /\ p.paddr \in Nat /\ p.filesz \in Nat /\ p.offset \in Nat
                                  /\ RangeOfHeader(p) \in Segments
    BY DEF ProgramHeaders, RangeOfHeader, Segments
  <1> QED BY <1>1, <1>2, <1>3, <1>4

\* What the file holds of a range.
LEMMA ClipFacts ==
    ASSUME NEW r \in Segments, NEW size \in Nat
    PROVE  /\ ClippedTo(r, size) \in Segments
           /\ ClippedTo(r, size).pa = r.pa /\ ClippedTo(r, size).off = r.off
           /\ \A a : a \in Layer!Span(ClippedTo(r, size)) <=>
                 a \in Int /\ r.pa <= a /\ a < r.pa + r.len /\ r.off + (a - r.pa) < size
  <1> DEFINE left == Kdump!Max({0, size - r.off})
             len == Clip(r, size)
  <1>1. r.pa \in Nat /\ r.len \in Nat /\ r.off \in Nat
    BY DEF Segments
  <1>2. left = IF 0 >= size - r.off THEN 0 ELSE size - r.off
    <2>1. size - r.off \in Int /\ 0 \in Int
      BY <1>1
    <2> QED BY <2>1, KdumpOfTwo
  <1>3. left \in Nat
    <2> HIDE DEF left
    <2> QED BY <1>1, <1>2
  <1>4. len = IF r.len <= left THEN r.len ELSE left
    <2> HIDE DEF left
    <2>1. r.len \in Int /\ left \in Int
      BY <1>1, <1>3
    <2>2. Kdump!Min({r.len, left}) = IF r.len <= left THEN r.len ELSE left
      BY <2>1, KdumpOfTwo
    <2> QED BY <2>2 DEF Clip, left
  <1> HIDE DEF left
  <1>5. len \in Nat
    <2> HIDE DEF len
    <2> QED BY <1>1, <1>3, <1>4
  <1>6. /\ ClippedTo(r, size) = [pa |-> r.pa, len |-> len, off |-> r.off]
        /\ ClippedTo(r, size) \in Segments
    <2>1. ClippedTo(r, size) = [pa |-> r.pa, len |-> len, off |-> r.off]
      BY DEF ClippedTo
    <2> HIDE DEF len
    <2> QED BY <2>1, <1>1, <1>5 DEF Segments
  <1> HIDE DEF len
  <1>7. ASSUME NEW a
        PROVE  a \in Layer!Span(ClippedTo(r, size)) <=>
                 a \in Int /\ r.pa <= a /\ a < r.pa + r.len /\ r.off + (a - r.pa) < size
    <2>1. a \in Layer!Span(ClippedTo(r, size)) <=> a \in r.pa .. (r.pa + len - 1)
      BY <1>6 DEF Layer!Span
    <2> QED BY <2>1, <1>1, <1>2, <1>4, <1>5
  <1> QED BY <1>6, <1>7

LEMMA KdumpSame ==
    ASSUME IsKdump, file' = file
    PROVE  /\ Captured' = Captured /\ Declared' = Declared /\ format = "elf" /\ format' = "elf"
           /\ Captured = Kdump!Captured /\ Declared = Kdump!Declared /\ (Kdump!Captured)' = Kdump!Captured
  <1>1. format = "elf" /\ format' = "elf"
    BY DEF IsKdump
  <1>2. (Kdump!Captured)' = Kdump!Captured /\ (Kdump!Declared)' = Kdump!Declared
    BY DEF Kdump!Captured, Kdump!Declared, Kdump!LoadHeaders
  <1> QED BY <1>1, <1>2 DEF Captured, Declared

\* Once all headers are scanned, a byte of the dump lies in one of the ranges.
LEMMA KdumpViews ==
    ASSUME KdumpScanned, phdr = Len(file.phdrs) + 1
    PROVE  /\ Layer!Backed(Kdump!Declared) = Layer!Backed(Items(ranges))
           /\ Kdump!Captured = {ClippedTo(RangeOfHeader(file.phdrs[h]), file.size) : h \in LoadIndices(file)}
           /\ \A i \in 1..Len(ranges) : ClippedTo(ranges[i], file.size) \in Kdump!Captured
           /\ \A a : a \in Layer!Backed(Kdump!Captured) <=>
                 \E i \in 1..Len(ranges) : a \in Layer!Span(ClippedTo(ranges[i], file.size))
  <1> DEFINE n == Len(file.phdrs)
             L == LoadIndices(file)
             R(h) == RangeOfHeader(file.phdrs[h])
             C(h) == ClippedTo(R(h), file.size)
  <1>1. file \in KdumpFile
    BY FileAssumption DEF KdumpScanned, KdumpFile
  <1>2. n \in Nat /\ file.size \in Nat /\ phdr - 1 = n /\ \A h \in L : h \in 1..n /\ R(h) \in Segments
    BY <1>1, HeaderShape DEF LoadIndices
  <1>3. \A i \in 1..Len(ranges) : \E h \in L : ranges[i] = R(h)
    BY <1>2 DEF KdumpScanned, Makes, LoadIndices
  <1>4. \A h \in L : file.phdrs[h].filesz > 0 => \E i \in 1..Len(ranges) : ranges[i] = R(h)
    BY <1>2 DEF KdumpScanned, Makes, LoadIndices
  <1>5. \A h \in L : R(h).pa \in Nat /\ R(h).len \in Nat /\ R(h).len = file.phdrs[h].filesz
    <2>1. \A h \in L : R(h).len = file.phdrs[h].filesz
      BY DEF RangeOfHeader
    <2>2. \A h \in L : R(h).pa \in Nat /\ R(h).len \in Nat
      <3> HIDE DEF R
      <3> QED BY <1>2 DEF Segments
    <2> QED BY <2>1, <2>2
  <1>6. Kdump!Declared = {R(h) : h \in L}
    BY DEF Kdump!Declared, Kdump!LoadHeaders, RangeOfHeader, LoadIndices
  <1>7. Kdump!Captured = {C(h) : h \in L}
    BY DEF Kdump!Captured, Kdump!LoadHeaders, RangeOfHeader, LoadIndices, ClippedTo, Clip
  <1>8. \A h \in L : file.phdrs[h].filesz = 0 => Layer!Span(R(h)) = {} /\ Layer!Span(C(h)) = {}
    <2> SUFFICES ASSUME NEW h \in L, file.phdrs[h].filesz = 0 PROVE Layer!Span(R(h)) = {} /\ Layer!Span(C(h)) = {}
      OBVIOUS
    <2>1. R(h) \in Segments /\ R(h).pa \in Nat /\ R(h).len = 0
      BY <1>2, <1>5
    <2> HIDE DEF R
    <2>2. Layer!Span(R(h)) = {}
      BY <2>1 DEF Layer!Span
    <2>3. ASSUME NEW a, a \in Layer!Span(C(h)) PROVE FALSE
      <3>1. a \in Int /\ R(h).pa <= a /\ a < R(h).pa + R(h).len
        BY <2>1, <2>3, <1>2, ClipFacts
      <3> QED BY <3>1, <2>1
    <2> QED BY <2>2, <2>3
  <1>9. \A h \in L : file.phdrs[h].filesz = 0 \/ file.phdrs[h].filesz > 0
    BY <1>5
  <1> HIDE DEF R, L
  <1>10. Layer!Backed(Kdump!Declared) = Layer!Backed(Items(ranges))
    <2>1. ASSUME NEW a, a \in Layer!Backed(Kdump!Declared) PROVE a \in Layer!Backed(Items(ranges))
      <3>1. PICK h \in L : a \in Layer!Span(R(h))
        BY <2>1, <1>6 DEF Layer!Backed
      <3>2. PICK i \in 1..Len(ranges) : ranges[i] = R(h)
        BY <3>1, <1>4, <1>8, <1>9
      <3> QED BY <3>1, <3>2 DEF Layer!Backed, Items
    <2>2. ASSUME NEW a, a \in Layer!Backed(Items(ranges)) PROVE a \in Layer!Backed(Kdump!Declared)
      BY <2>2, <1>3, <1>6 DEF Layer!Backed, Items
    <2> QED BY <2>1, <2>2
  <1>11. \A i \in 1..Len(ranges) : ClippedTo(ranges[i], file.size) \in Kdump!Captured
    BY <1>3, <1>7
  <1>12. ASSUME NEW a
         PROVE  a \in Layer!Backed(Kdump!Captured) <=>
                   \E i \in 1..Len(ranges) : a \in Layer!Span(ClippedTo(ranges[i], file.size))
    <2>1. ASSUME a \in Layer!Backed(Kdump!Captured)
          PROVE  \E i \in 1..Len(ranges) : a \in Layer!Span(ClippedTo(ranges[i], file.size))
      <3>1. PICK h \in L : a \in Layer!Span(C(h))
        BY <2>1, <1>7 DEF Layer!Backed
      <3>2. PICK i \in 1..Len(ranges) : ranges[i] = R(h)
        BY <3>1, <1>4, <1>8, <1>9
      <3> QED BY <3>1, <3>2
    <2>2. ASSUME NEW i \in 1..Len(ranges), a \in Layer!Span(ClippedTo(ranges[i], file.size))
          PROVE  a \in Layer!Backed(Kdump!Captured)
      BY <2>2, <1>11 DEF Layer!Backed
    <2> QED BY <2>1, <2>2
  <1> QED BY <1>7, <1>10, <1>11, <1>12 DEF R, L

LEMMA KdumpInit ==
    ASSUME format = "elf", Kdump!Init, Unnested(file)
    PROVE  KdumpIInv /\ Layer!Init
  <1>1. /\ file \in KdumpFiles /\ phdr = 1 /\ ranges = <<>> /\ status = "opening" /\ req = Layer!NoReq
    BY DEF Kdump!Init, Kdump!NoReq, Layer!NoReq
  <1>2. Len(file.phdrs) \in Nat
    BY <1>1, FileAssumption, HeaderShape DEF KdumpFile
  <1>3. ranges \in Seq(Segments) /\ Len(ranges) = 0 /\ 1..Len(ranges) = {} /\ 1..(phdr - 1) = {}
    BY <1>1
  <1>4. KdumpScanned
    BY <1>1, <1>2, <1>3 DEF KdumpScanned, Apart
  <1>5. Layer!Init
    BY DEF Kdump!Init, Layer!Init, Kdump!NoReq, Layer!NoReq, Kdump!NoReply, Layer!NoReply
  <1> QED BY <1>1, <1>4, <1>5 DEF KdumpIInv

LEMMA KdumpBadStep ==
    ASSUME KdumpIInv, IsKdump, Kdump!BadHeader
    PROVE  KdumpIInv' /\ [Layer!Next]_(Layer!layer)
  <1>1. /\ status = "opening" /\ status' = "failed"
        /\ UNCHANGED <<file, phdr, ranges, max, req, cur, rest, dst, total, reply>>
    BY DEF Kdump!BadHeader, Kdump!reading
  <1>2. Layer!Refuse
    BY <1>1, KdumpSame DEF Layer!Refuse
  <1>3. KdumpScanned'
    BY <1>1 DEF KdumpIInv, KdumpScanned
  <1>4. KdumpIInv'
    BY <1>1, <1>3 DEF KdumpIInv
  <1> QED BY <1>2, <1>4 DEF Layer!Next

\* The next header adds a range apart from the others, or none.
LEMMA KdumpScanStep ==
    ASSUME KdumpIInv, IsKdump, Kdump!ScanHeader
    PROVE  KdumpIInv' /\ [Layer!Next]_(Layer!layer)
  <1> DEFINE n == Len(file.phdrs)
             m == Len(ranges)
             ph == file.phdrs[phdr]
             r == RangeOfHeader(ph)
  <1>1. /\ status = "opening" /\ phdr <= n /\ phdr' = phdr + 1
        /\ ranges' = IF ph.type = "load" /\ ph.filesz > 0 THEN Append(ranges, r) ELSE ranges
        /\ UNCHANGED <<file, status, max, req, cur, rest, dst, total, reply>>
    BY DEF Kdump!ScanHeader, Kdump!reading, RangeOfHeader
  <1>2. /\ KdumpScanned /\ req = Layer!NoReq /\ file \in KdumpFiles /\ Unnested(file) /\ file \in KdumpFile
    BY <1>1, FileAssumption DEF KdumpIInv, KdumpScanned, KdumpFile
  <1>3. /\ phdr \in 1..n /\ n \in Nat /\ ranges \in Seq(Segments) /\ m \in Nat /\ Apart(ranges)
    <2>1. n \in Nat
      BY <1>2, HeaderShape
    <2>2. phdr \in 1..(n + 1) /\ ranges \in Seq(Segments) /\ Apart(ranges)
      BY <1>2 DEF KdumpScanned
    <2>3. m \in Nat
      BY <2>2
    <2> QED BY <1>1, <2>1, <2>2, <2>3
  <1>4. /\ \A i \in 1..m : \E h \in 1..(phdr - 1) : Makes(file, h, ranges[i])
        /\ \A h \in 1..(phdr - 1) : file.phdrs[h].type = "load" /\ file.phdrs[h].filesz > 0
              => \E i \in 1..m : Makes(file, h, ranges[i])
    BY <1>2 DEF KdumpScanned
  <1>5. r \in Segments
    BY <1>2, <1>3, HeaderShape
  <1>6. (phdr' - 1) = phdr /\ phdr' \in 1..(n + 1) /\ 1..phdr = (1..(phdr - 1)) \cup {phdr}
    BY <1>1, <1>3
  <1>7. UNCHANGED Layer!layer
    BY <1>1, KdumpSame DEF Layer!layer
  <1>8. CASE ph.type = "load" /\ ph.filesz > 0
    <2>1. ranges' = Append(ranges, r)
      BY <1>1, <1>8
    <2>2. Makes(file, phdr, r)
      BY <1>8 DEF Makes
    <2> HIDE DEF r
    <2>3. /\ ranges' \in Seq(Segments) /\ Len(ranges') = m + 1 /\ ranges'[m + 1] = r
          /\ \A i \in 1..m : ranges'[i] = ranges[i]
      BY <2>1, <1>3, <1>5
    <2>4. \A i \in 1..m : Layer!Span(ranges[i]) \cap Layer!Span(r) = {}
      <3> SUFFICES ASSUME NEW i \in 1..m PROVE Layer!Span(ranges[i]) \cap Layer!Span(r) = {}
        OBVIOUS
      <3>1. PICK h \in 1..(phdr - 1) : Makes(file, h, ranges[i])
        BY <1>4
      <3>2. h # phdr /\ h \in LoadIndices(file) /\ phdr \in LoadIndices(file)
        <4>1. h \in 1..n /\ h # phdr
          BY <1>3
        <4> QED BY <3>1, <4>1, <1>3, <1>8 DEF Makes, LoadIndices
      <3>3. ranges[i] = RangeOfHeader(file.phdrs[h]) /\ r = RangeOfHeader(file.phdrs[phdr])
        BY <3>1, <2>2 DEF Makes
      <3> QED BY <3>2, <3>3, <1>2 DEF Unnested
    <2>5. Apart(ranges')
      <3> SUFFICES ASSUME NEW i \in 1..(m + 1), NEW j \in 1..(m + 1), i # j
                   PROVE  Layer!Span(ranges'[i]) \cap Layer!Span(ranges'[j]) = {}
        BY <2>3 DEF Apart
      <3>1. CASE i \in 1..m /\ j \in 1..m
        BY <3>1, <2>3, <1>3 DEF Apart
      <3>2. CASE i \in 1..m /\ j = m + 1
        BY <3>2, <2>3, <2>4
      <3>3. CASE i = m + 1 /\ j \in 1..m
        BY <3>3, <2>3, <2>4
      <3> QED BY <1>3, <3>1, <3>2, <3>3
    <2>6. \A i \in 1..(m + 1) : \E h \in 1..phdr : Makes(file, h, ranges'[i])
      <3> SUFFICES ASSUME NEW i \in 1..(m + 1) PROVE \E h \in 1..phdr : Makes(file, h, ranges'[i])
        OBVIOUS
      <3>1. CASE i = m + 1
        <4>1. phdr \in 1..phdr /\ ranges'[i] = r
          BY <3>1, <2>3, <1>3
        <4> QED BY <4>1, <2>2
      <3>2. CASE i \in 1..m
        <4>1. PICK h \in 1..(phdr - 1) : Makes(file, h, ranges[i])
          BY <3>2, <1>4
        <4> QED BY <4>1, <3>2, <2>3, <1>6
      <3> QED BY <1>3, <3>1, <3>2
    <2>7. \A h \in 1..phdr : file.phdrs[h].type = "load" /\ file.phdrs[h].filesz > 0
              => \E i \in 1..(m + 1) : Makes(file, h, ranges'[i])
      <3> SUFFICES ASSUME NEW h \in 1..phdr, file.phdrs[h].type = "load", file.phdrs[h].filesz > 0
                   PROVE  \E i \in 1..(m + 1) : Makes(file, h, ranges'[i])
        OBVIOUS
      <3>1. CASE h = phdr
        <4>1. m + 1 \in 1..(m + 1)
          BY <1>3
        <4> QED BY <3>1, <4>1, <2>2, <2>3
      <3>2. CASE h \in 1..(phdr - 1)
        <4>1. PICK i \in 1..m : Makes(file, h, ranges[i])
          BY <3>2, <1>4
        <4>2. i \in 1..(m + 1) /\ ranges'[i] = ranges[i]
          BY <1>3, <2>3
        <4> QED BY <4>1, <4>2
      <3> QED BY <1>6, <3>1, <3>2
    <2>8. KdumpScanned'
      BY <1>1, <1>2, <1>6, <2>3, <2>5, <2>6, <2>7 DEF KdumpScanned
    <2>9. KdumpIInv'
      BY <1>1, <1>2, <2>8 DEF KdumpIInv
    <2> QED BY <1>7, <2>9
  <1>9. CASE ~(ph.type = "load" /\ ph.filesz > 0)
    <2>1. ranges' = ranges
      BY <1>1, <1>9
    <2>2. \A i \in 1..m : \E h \in 1..phdr : Makes(file, h, ranges[i])
      BY <1>4, <1>6
    <2>3. \A h \in 1..phdr : file.phdrs[h].type = "load" /\ file.phdrs[h].filesz > 0
              => \E i \in 1..m : Makes(file, h, ranges[i])
      BY <1>4, <1>6, <1>9
    <2>4. KdumpScanned'
      BY <1>1, <1>2, <1>3, <1>6, <2>1, <2>2, <2>3 DEF KdumpScanned
    <2>5. KdumpIInv'
      BY <1>1, <1>2, <2>4 DEF KdumpIInv
    <2> QED BY <1>7, <2>5
  <1> QED BY <1>8, <1>9

\* Sorting keeps the ranges, and puts ranges that are apart in ascending order.
LEMMA SortedFacts ==
    ASSUME NEW s \in Seq(Segments), Apart(s), \A i \in 1..Len(s) : s[i].len > 0,
           NEW t, t \in Kdump!Sorted(s)
    PROVE  /\ t \in Seq(Segments) /\ Len(t) = Len(s)
           /\ \A i \in 1..Len(s) : \E j \in 1..Len(s) : t[i] = s[j]
           /\ \A j \in 1..Len(s) : \E i \in 1..Len(s) : t[i] = s[j]
           /\ Apart(t) /\ Ascending(t)
  <1> DEFINE n == Len(s)
  <1>1. n \in Nat
    OBVIOUS
  <1>2. PICK p \in [1..n -> 1..n] : Kdump!IsInjective(p) /\ t = [i \in 1..n |-> s[p[i]]]
    BY DEF Kdump!Sorted
  <1>3. \A i \in 1..(n - 1) : t[i].pa <= t[i + 1].pa
    BY DEF Kdump!Sorted
  <1>4. /\ \A i \in 1..n : p[i] \in 1..n /\ t[i] = s[p[i]] /\ s[p[i]] \in Segments
        /\ \A i, j \in 1..n : p[i] = p[j] => i = j
    <2>1. \A i \in 1..n : p[i] \in 1..n
      BY <1>2
    <2>2. \A i \in 1..n : t[i] = s[p[i]]
      BY <1>2
    <2>3. \A j \in 1..n : s[j] \in Segments
      OBVIOUS
    <2>4. DOMAIN p = 1..n
      BY <1>2
    <2>5. \A i, j \in 1..n : p[i] = p[j] => i = j
      BY <1>2, <2>4 DEF Kdump!IsInjective
    <2> HIDE DEF n
    <2> QED BY <2>1, <2>2, <2>3, <2>5
  <1>5. t \in Seq(Segments) /\ Len(t) = n
    <2>1. t \in [1..n -> Segments]
      BY <1>2, <1>4
    <2> QED BY <2>1, <1>1
  <1>6. \A j \in 1..n : \E i \in 1..n : p[i] = j
    <2>1. p \in Injection(1..n, 1..n)
      BY <1>2, <1>4 DEF Injection, IsInjective
    <2>2. IsFiniteSet(1..n)
      <3>1. 1 \in Int /\ n \in Int
        BY <1>1
      <3> HIDE DEF n
      <3> QED BY <3>1, FS_Interval
    <2>3. p \in Surjection(1..n, 1..n)
      BY <2>1, <2>2, FS_Injection
    <2> QED BY <2>3 DEF Surjection
  <1> HIDE DEF n
  <1>7. Apart(t)
    <2> SUFFICES ASSUME NEW i \in 1..n, NEW j \in 1..n, i # j PROVE Layer!Span(t[i]) \cap Layer!Span(t[j]) = {}
      BY <1>5 DEF Apart
    <2>1. p[i] \in 1..n /\ p[j] \in 1..n /\ p[i] # p[j]
      BY <1>4
    <2> QED BY <2>1, <1>4 DEF Apart, n
  <1>8. \A i \in 1..n : t[i].pa \in Nat /\ t[i].len \in Nat /\ t[i].len > 0
    <2>1. \A i \in 1..n : t[i].len > 0
      BY <1>4 DEF n
    <2> QED BY <2>1, <1>5, SegmentFacts
  <1>9. ASSUME NEW i \in 1..n, NEW j \in 1..n, i < j PROVE t[i].pa <= t[j].pa
    <2> DEFINE m == j - i
               Good == {k \in 0..m : t[i].pa <= t[i + k].pa}
    <2>1. m \in Nat /\ i + m = j /\ i + 0 = i
      BY <1>1, <1>9
    <2>2. 0 \in Good
      BY <2>1, <1>8
    <2>3. ASSUME NEW k \in 0..(m - 1), k \in Good PROVE k + 1 \in Good
      <3>1. i + k \in 1..(n - 1) /\ i + k \in 1..n /\ i + (k + 1) = (i + k) + 1 /\ (i + k) + 1 \in 1..n /\ k + 1 \in 0..m
        BY <1>1, <2>1
      <3>2. t[i + k].pa <= t[(i + k) + 1].pa /\ t[i].pa <= t[i + k].pa
        BY <1>3, <2>3, <3>1 DEF n
      <3>3. t[i].pa \in Nat /\ t[i + k].pa \in Nat /\ t[(i + k) + 1].pa \in Nat
        BY <1>8, <3>1
      <3> QED BY <3>1, <3>2, <3>3
    <2>4. \A k \in 0..m : k \in Good
      <3> HIDE DEF Good, m
      <3> QED BY <2>1, <2>2, <2>3, Counting!CountingUp
    <2> QED BY <2>1, <2>4
  <1>10. Ascending(t)
    <2> SUFFICES ASSUME NEW i \in 1..n, NEW j \in 1..n, i < j, t[i].pa + t[i].len > t[j].pa PROVE FALSE
      <3>1. \A i \in 1..n : t[i].pa \in Nat /\ t[i].len \in Nat
        BY <1>8
      <3>2. \A i, j \in 1..n : ~(t[i].pa + t[i].len > t[j].pa) => t[i].pa + t[i].len <= t[j].pa
        BY <3>1
      <3> QED BY <3>2, <1>5 DEF Ascending
    <2>1. t[i].pa <= t[j].pa /\ t[j].len > 0 /\ t[i].pa \in Nat /\ t[j].pa \in Nat /\ t[i].len \in Nat /\ t[j].len \in Nat
      BY <1>8, <1>9
    <2>2. t[j].pa \in Layer!Span(t[i]) /\ t[j].pa \in Layer!Span(t[j])
      BY <2>1 DEF Layer!Span
    <2>3. i # j /\ Len(t) = n
      BY <1>1, <1>5
    <2> QED BY <2>2, <2>3, <1>7 DEF Apart
  <1>11. \A j \in 1..n : \E i \in 1..n : t[i] = s[j]
    BY <1>4, <1>6
  <1>12. \A i \in 1..n : \E j \in 1..n : t[i] = s[j]
    BY <1>4
  <1> QED BY <1>5, <1>7, <1>10, <1>11, <1>12 DEF n

\* The greatest end of the ranges is where the last sorted one ends.
LEMMA GreatestEnd ==
    ASSUME NEW s, NEW t \in Seq(Segments), Ascending(t), t # <<>>, Len(t) = Len(s),
           \A i \in 1..Len(s) : \E j \in 1..Len(s) : t[i] = s[j],
           \A j \in 1..Len(s) : \E i \in 1..Len(s) : t[i] = s[j]
    PROVE  Kdump!Max(Kdump!Ends(s)) = t[Len(t)].pa + t[Len(t)].len
  <1> DEFINE n == Len(s)
             e(i) == t[i].pa + t[i].len
             E == Kdump!Ends(s)
  <1>1. n \in Nat \ {0} /\ n \in 1..n /\ \A i \in 1..n : t[i].pa \in Nat /\ t[i].len \in Nat /\ e(i) \in Nat
    <2>1. Len(t) \in Nat \ {0}
      OBVIOUS
    <2>2. \A i \in 1..n : t[i].pa \in Nat /\ t[i].len \in Nat
      BY SegmentFacts
    <2>3. n = Len(t)
      OBVIOUS
    <2> HIDE DEF n
    <2>4. n \in Nat \ {0} /\ n \in 1..n
      BY <2>1, <2>3
    <2> QED BY <2>2, <2>4
  <1>2. \A x \in E : \E i \in 1..n : x = e(i)
    BY DEF Kdump!Ends
  <1>3. \A i \in 1..n : e(i) \in E
    <2> SUFFICES ASSUME NEW i \in 1..n PROVE e(i) \in E
      OBVIOUS
    <2>1. PICK j \in 1..n : t[i] = s[j]
      OBVIOUS
    <2>2. e(i) = s[j].pa + s[j].len
      BY <2>1
    <2> QED BY <2>2 DEF Kdump!Ends
  <1>4. \A i \in 1..n : e(i) <= e(n)
    <2> SUFFICES ASSUME NEW i \in 1..n PROVE e(i) <= e(n)
      OBVIOUS
    <2>1. CASE i = n
      <3>1. e(i) = e(n)
        BY <2>1
      <3>2. e(i) \in Nat
        BY <1>1
      <3> HIDE DEF e
      <3> QED BY <3>1, <3>2
    <2>2. CASE i < n
      <3>1. t[i].pa + t[i].len <= t[n].pa
        BY <2>2, <1>1 DEF Ascending
      <3>2. t[i].pa \in Nat /\ t[i].len \in Nat /\ t[n].pa \in Nat /\ t[n].len \in Nat
        BY <1>1
      <3>3. t[i].pa + t[i].len <= t[n].pa + t[n].len
        <4> HIDE DEF n
        <4> QED BY <3>1, <3>2
      <3> QED BY <3>3
    <2>3. i = n \/ i < n
      <3> HIDE DEF n
      <3> QED BY <1>1
    <2> QED BY <2>1, <2>2, <2>3
  <1> HIDE DEF E
  <1>5. \A x \in E : x \in Nat /\ x <= e(n)
    <2> SUFFICES ASSUME NEW x \in E PROVE x \in Nat /\ x <= e(n)
      OBVIOUS
    <2>1. PICK i \in 1..n : x = e(i)
      BY <1>2
    <2> HIDE DEF e
    <2> QED BY <2>1, <1>1, <1>4
  <1>6. e(n) \in E /\ e(n) \in Nat
    BY <1>1, <1>3
  <1>7. Kdump!Max(E) = e(n)
    <2> HIDE DEF e
    <2>1. \A x \in E : (\A y \in E : x >= y) => x = e(n)
      BY <1>5, <1>6
    <2>2. \A y \in E : e(n) >= y
      BY <1>5, <1>6
    <2> QED BY <1>6, <2>1, <2>2 DEF Kdump!Max
  <1> QED BY <1>7 DEF E

\* The ranges are sorted, and max is the end of the last one.
LEMMA KdumpFinishStep ==
    ASSUME KdumpIInv, IsKdump, Kdump!FinishOpen
    PROVE  KdumpIInv' /\ [Layer!Next]_(Layer!layer)
  <1>1. /\ status = "opening" /\ phdr > Len(file.phdrs)
        /\ UNCHANGED <<file, phdr, req, cur, rest, dst, total, reply>>
    BY DEF Kdump!FinishOpen, Kdump!reading
  <1>2. /\ KdumpScanned /\ req = Layer!NoReq /\ file \in KdumpFiles /\ Unnested(file) /\ file \in KdumpFile
    BY <1>1, FileAssumption DEF KdumpIInv, KdumpScanned, KdumpFile
  <1>3. phdr = Len(file.phdrs) + 1
    <2>1. Len(file.phdrs) \in Nat /\ phdr \in 1..(Len(file.phdrs) + 1)
      BY <1>2, HeaderShape DEF KdumpScanned
    <2> QED BY <2>1, <1>1
  <1>4. Captured' = Captured /\ Declared' = Declared /\ Declared = Kdump!Declared
    BY <1>1, KdumpSame
  <1>5. CASE ranges = <<>>
    <2>1. status' = "failed" /\ UNCHANGED <<ranges, max>>
      BY <1>5 DEF Kdump!FinishOpen
    <2>2. Layer!Refuse
      BY <1>1, <1>4, <2>1 DEF Layer!Refuse
    <2>3. KdumpScanned'
      BY <1>1, <1>2, <2>1 DEF KdumpScanned
    <2>4. KdumpIInv'
      BY <1>1, <1>2, <2>1, <2>3 DEF KdumpIInv
    <2> QED BY <2>2, <2>4 DEF Layer!Next
  <1>6. CASE ranges # <<>>
    <2>1. status' = "open" /\ ranges' \in Kdump!Sorted(ranges) /\ max' = Kdump!Max(Kdump!Ends(ranges))
      BY <1>6 DEF Kdump!FinishOpen
    <2>2. /\ ranges \in Seq(Segments) /\ Apart(ranges)
          /\ \A i \in 1..Len(ranges) : \E h \in 1..(phdr - 1) : Makes(file, h, ranges[i])
          /\ \A h \in 1..(phdr - 1) : file.phdrs[h].type = "load" /\ file.phdrs[h].filesz > 0
                => \E i \in 1..Len(ranges) : Makes(file, h, ranges[i])
      BY <1>2 DEF KdumpScanned
    <2>3. \A i \in 1..Len(ranges) : ranges[i].len > 0
      <3> SUFFICES ASSUME NEW i \in 1..Len(ranges) PROVE ranges[i].len > 0
        OBVIOUS
      <3>1. PICK h \in 1..(phdr - 1) : Makes(file, h, ranges[i])
        BY <2>2
      <3> QED BY <3>1 DEF Makes, RangeOfHeader
    <2>4. /\ ranges' \in Seq(Segments) /\ Len(ranges') = Len(ranges)
          /\ \A i \in 1..Len(ranges) : \E j \in 1..Len(ranges) : ranges'[i] = ranges[j]
          /\ \A j \in 1..Len(ranges) : \E i \in 1..Len(ranges) : ranges'[i] = ranges[j]
          /\ Apart(ranges') /\ Ascending(ranges')
      BY <2>1, <2>2, <2>3, SortedFacts
    <2>5. ranges' # <<>> /\ Len(ranges') \in 1..Len(ranges')
      <3>1. Len(ranges) \in Nat \ {0}
        BY <2>2, <1>6
      <3> QED BY <3>1, <2>4
    <2>6. KdumpScanned'
      <3>1. \A i \in 1..Len(ranges) : \E h \in 1..(phdr - 1) : Makes(file, h, ranges'[i])
        BY <2>2, <2>4
      <3>2. \A h \in 1..(phdr - 1) : file.phdrs[h].type = "load" /\ file.phdrs[h].filesz > 0
                => \E i \in 1..Len(ranges) : Makes(file, h, ranges'[i])
        <4> SUFFICES ASSUME NEW h \in 1..(phdr - 1), file.phdrs[h].type = "load", file.phdrs[h].filesz > 0
                     PROVE  \E i \in 1..Len(ranges) : Makes(file, h, ranges'[i])
          OBVIOUS
        <4>1. PICK j \in 1..Len(ranges) : Makes(file, h, ranges[j])
          BY <2>2
        <4>2. PICK i \in 1..Len(ranges) : ranges'[i] = ranges[j]
          BY <2>4
        <4> QED BY <4>1, <4>2
      <3> QED BY <1>1, <1>2, <2>4, <3>1, <3>2 DEF KdumpScanned
    <2>7. Items(ranges') = Items(ranges)
      <3>1. ASSUME NEW x \in Items(ranges') PROVE x \in Items(ranges)
        <4>1. PICK i \in 1..Len(ranges) : x = ranges'[i]
          BY <2>4 DEF Items
        <4>2. PICK j \in 1..Len(ranges) : ranges'[i] = ranges[j]
          BY <2>4
        <4> QED BY <4>1, <4>2 DEF Items
      <3>2. ASSUME NEW x \in Items(ranges) PROVE x \in Items(ranges')
        <4>1. PICK j \in 1..Len(ranges) : x = ranges[j]
          BY DEF Items
        <4>2. PICK i \in 1..Len(ranges) : ranges'[i] = ranges[j]
          BY <2>4
        <4>3. i \in 1..Len(ranges') /\ x = ranges'[i]
          BY <4>1, <4>2, <2>4
        <4> QED BY <4>3 DEF Items
      <3> QED BY <3>1, <3>2
    <2>8. Layer!Top(Declared) = Layer!Top(Items(ranges'))
      <3>1. Layer!Backed(Declared) = Layer!Backed(Items(ranges'))
        BY <1>2, <1>3, <1>4, <2>7, KdumpViews
      <3> QED BY <3>1 DEF Layer!Top
    <2>9. Layer!Top(Items(ranges')) = ranges'[Len(ranges')].pa + ranges'[Len(ranges')].len
      <3>1. ranges'[Len(ranges')].len > 0
        BY <2>3, <2>4, <2>5
      <3> QED BY <2>4, <2>5, <3>1, LastTop
    <2>10. max' = ranges'[Len(ranges')].pa + ranges'[Len(ranges')].len
      BY <2>1, <2>4, <2>5, GreatestEnd
    <2>11. Layer!Open
      BY <1>1, <1>4, <2>1, <2>8, <2>9, <2>10 DEF Layer!Open
    <2>12. KdumpIInv'
      BY <1>1, <1>2, <1>3, <2>1, <2>4, <2>5, <2>6 DEF KdumpIInv
    <2> QED BY <2>11, <2>12 DEF Layer!Next
  <1> QED BY <1>5, <1>6

\* The binary search of read() finds the last range that starts at or below a.
LEMMA RangeOfFacts ==
    ASSUME ranges \in Seq(Segments), Ascending(ranges), NEW a \in Nat
    PROVE  /\ Kdump!RangeOf(a) \in 0..Len(ranges)
           /\ \A i \in 1..Len(ranges) : ranges[i].pa <= a <=> i <= Kdump!RangeOf(a)
  <1> DEFINE n == Len(ranges)
             Good == {k \in 0..n : \E c \in 0..k : \A i \in 1..k : ranges[i].pa <= a <=> i <= c}
  <1>1. n \in Nat /\ \A i \in 1..n : ranges[i].pa \in Nat /\ ranges[i].len \in Nat
    BY SegmentFacts
  <1> HIDE DEF n
  <1>2. 0 \in Good
    <2>1. 0 \in 0..n /\ 0 \in 0..0 /\ 1..0 = {}
      BY <1>1
    <2> QED BY <2>1
  <1>3. ASSUME NEW k \in 0..(n - 1), k \in Good PROVE k + 1 \in Good
    <2>1. k \in Nat /\ k + 1 \in 1..n /\ k + 1 \in 0..n /\ 1..(k + 1) = (1..k) \cup {k + 1}
      BY <1>1
    <2>2. PICK c \in 0..k : \A i \in 1..k : ranges[i].pa <= a <=> i <= c
      BY <1>3
    <2>3. CASE ranges[k + 1].pa <= a
      <3>1. \A i \in 1..k : ranges[i].pa <= a
        <4> SUFFICES ASSUME NEW i \in 1..k PROVE ranges[i].pa <= a
          OBVIOUS
        <4>1. i \in 1..n /\ i < k + 1
          BY <2>1, <1>1
        <4>2. ranges[i].pa + ranges[i].len <= ranges[k + 1].pa
          BY <4>1, <2>1 DEF Ascending, n
        <4> QED BY <4>1, <4>2, <2>1, <2>3, <1>1
      <3>2. \A i \in 1..(k + 1) : ranges[i].pa <= a <=> i <= k + 1
        BY <2>1, <2>3, <3>1
      <3>3. k + 1 \in 0..(k + 1)
        BY <2>1
      <3> QED BY <2>1, <3>2, <3>3
    <2>4. CASE ~(ranges[k + 1].pa <= a)
      <3>1. c \in 0..(k + 1) /\ ~(k + 1 <= c)
        BY <2>1
      <3>2. \A i \in 1..(k + 1) : ranges[i].pa <= a <=> i <= c
        BY <2>1, <2>2, <2>4, <3>1
      <3> QED BY <2>1, <3>1, <3>2
    <2> QED BY <2>3, <2>4
  <1>4. n \in Good
    <2>1. \A k \in 0..n : k \in Good
      <3> HIDE DEF Good
      <3> QED BY <1>1, <1>2, <1>3, Counting!CountingUp
    <2>2. n \in 0..n
      BY <1>1
    <2> HIDE DEF Good
    <2> QED BY <2>1, <2>2
  <1>5. PICK c \in 0..n : \A i \in 1..n : ranges[i].pa <= a <=> i <= c
    BY <1>4
  <1>6. {i \in 1..n : ranges[i].pa <= a} = 1..c
    BY <1>1, <1>5
  <1>7. Kdump!RangeOf(a) = Cardinality(1..c)
    <2>1. \A S : Kdump!Cardinality(S) = Cardinality(S)
      BY DEF Kdump!Cardinality, Cardinality
    <2> QED BY <1>6, <2>1 DEF Kdump!RangeOf, n
  <1>8. Cardinality(1..c) = c
    <2>1. 1 \in Int /\ c \in Int /\ c \in Nat
      BY <1>1
    <2>2. Cardinality(1..c) = IF 1 > c THEN 0 ELSE c - 1 + 1
      BY <2>1, FS_Interval
    <2> QED BY <2>1, <2>2
  <1> QED BY <1>5, <1>7, <1>8 DEF n

LEMMA KdumpCallStep ==
    ASSUME KdumpIInv, IsKdump, Kdump!Call
    PROVE  KdumpIInv' /\ [Layer!Next]_(Layer!layer)
  <1> DEFINE S == Kdump!Captured
  <1>1. PICK pa \in Addr, len \in Lengths :
           /\ req' = [pa |-> pa, len |-> len]
           /\ cur' = pa /\ rest' = len /\ total' = 0
           /\ dst' = [k \in 1..len |-> Kdump!Zero]
    BY DEF Kdump!Call
  <1>2. /\ status = "open" /\ req = Layer!NoReq /\ reply' = Layer!NoReply
        /\ UNCHANGED <<file, status, phdr, ranges, max>>
    BY DEF Kdump!Call, Kdump!NoReq, Layer!NoReq, Kdump!NoReply, Layer!NoReply
  <1>3. Captured' = Captured /\ Declared' = Declared /\ S' = S
    BY <1>2, KdumpSame
  <1>4. Layer!Call
    BY <1>1, <1>2, <1>3 DEF Layer!Call
  <1>5. pa \in Nat /\ len \in Nat /\ pa + len < Infinity
    BY FormatAssumption
  <1> HIDE DEF S
  <1>6. Partial(S, Below(S, pa), pa, len, [k \in 1..len |-> Layer!Zero], 0)
    <2>1. Layer!Window(pa, len) \cap Below(S, pa) = {}
      BY <1>5 DEF Layer!Window, Below
    <2> QED BY <1>5, <2>1, PartialStart
  <1>7. /\ req' \in [pa : Nat, len : Nat] /\ req'.pa = pa /\ req'.len = len
        /\ rest' \in 0..len /\ cur' = pa + (len - rest') /\ cur' = pa /\ total' = 0
        /\ dst' = [k \in 1..len |-> Layer!Zero]
    BY <1>1, <1>5 DEF Kdump!Zero, Layer!Zero
  <1>8. Partial(S', Below(S', cur'), req'.pa, req'.len, dst', total')
    BY <1>3, <1>6, <1>7
  <1>9. KdumpReads'
    BY <1>5, <1>7, <1>8 DEF KdumpReads, S
  <1>10. KdumpScanned'
    BY <1>2 DEF KdumpIInv, KdumpScanned
  <1>11. KdumpIInv'
    BY <1>2, <1>9, <1>10 DEF KdumpIInv
  <1> QED BY <1>4, <1>11 DEF Layer!Next

\* What the steps of the loop rest on.
LEMMA KdumpReadFacts ==
    ASSUME KdumpIInv, req # Kdump!NoReq
    PROVE  /\ KdumpScanned /\ KdumpReads /\ status = "open" /\ phdr = Len(file.phdrs) + 1
           /\ ranges \in Seq(Segments) /\ Ascending(ranges) /\ ranges # <<>> /\ Len(ranges) \in Nat
           /\ \A i \in 1..Len(ranges) :
                 ranges[i] \in Segments /\ ranges[i].pa \in Nat /\ ranges[i].len \in Nat /\ ranges[i].off \in Nat
           /\ file.size \in Nat
           /\ req.pa \in Nat /\ req.len \in Nat /\ req \in [pa : Nat, len : Nat] /\ req.pa + req.len < Infinity
           /\ rest \in 0..req.len /\ cur = req.pa + (req.len - rest) /\ cur \in Nat
           /\ Partial(Kdump!Captured, Below(Kdump!Captured, cur), req.pa, req.len, dst, total)
  <1>1. KdumpScanned /\ KdumpReads /\ status = "open"
    BY DEF KdumpIInv, Kdump!NoReq, Layer!NoReq
  <1>2. phdr = Len(file.phdrs) + 1 /\ Ascending(ranges) /\ ranges # <<>>
    BY <1>1 DEF KdumpIInv
  <1>3. ranges \in Seq(Segments)
    BY <1>1 DEF KdumpScanned
  <1>4. Len(ranges) \in Nat
    BY <1>3
  <1>5. file.size \in Nat
    BY <1>1, FileAssumption DEF KdumpScanned
  <1>6. /\ req \in [pa : Nat, len : Nat] /\ req.pa + req.len < Infinity /\ rest \in 0..req.len
        /\ cur = req.pa + (req.len - rest)
        /\ Partial(Kdump!Captured, Below(Kdump!Captured, cur), req.pa, req.len, dst, total)
    BY <1>1 DEF KdumpReads
  <1>7. req.pa \in Nat /\ req.len \in Nat
    BY <1>6
  <1>8. cur \in Nat
    BY <1>6, <1>7
  <1> QED BY <1>1, <1>2, <1>3, <1>4, <1>5, <1>6, <1>7, <1>8, SegmentFacts

\* The dump has nothing between the end of a range and the start of the next.
LEMMA KdumpSkipStep ==
    ASSUME KdumpIInv, IsKdump, Kdump!SkipHole
    PROVE  KdumpIInv' /\ [Layer!Next]_(Layer!layer)
  <1> DEFINE S == Kdump!Captured
             n == Len(ranges)
             r == Kdump!RangeOf(cur)
             next == Kdump!NextStart(r)
             step == Kdump!Min({rest, next - cur})
  <1>1. /\ req # Kdump!NoReq /\ rest > 0
        /\ r > 0 => cur >= ranges[r].pa + ranges[r].len
        /\ IF cur >= next THEN cur' = cur + 1 /\ rest' = rest ELSE cur' = cur + step /\ rest' = rest - step
        /\ UNCHANGED <<file, status, phdr, ranges, max, req, dst, total, reply>>
    BY DEF Kdump!SkipHole, Kdump!RangeEnd, Kdump!Advance
  <1>2. /\ KdumpScanned /\ status = "open" /\ phdr = Len(file.phdrs) + 1
        /\ ranges \in Seq(Segments) /\ Ascending(ranges) /\ ranges # <<>> /\ n \in Nat
        /\ \A i \in 1..n : ranges[i] \in Segments /\ ranges[i].pa \in Nat /\ ranges[i].len \in Nat
        /\ file.size \in Nat
        /\ req.pa \in Nat /\ req.len \in Nat /\ req \in [pa : Nat, len : Nat] /\ req.pa + req.len < Infinity
        /\ rest \in 0..req.len /\ cur = req.pa + (req.len - rest) /\ cur \in Nat
        /\ Partial(S, Below(S, cur), req.pa, req.len, dst, total)
    BY <1>1, KdumpReadFacts
  <1>3. r \in 0..n /\ \A i \in 1..n : ranges[i].pa <= cur <=> i <= r
    BY <1>2, RangeOfFacts
  <1> HIDE DEF r, S
  <1>4. next \in Int /\ cur < next /\ \A i \in 1..n : i > r => next <= ranges[i].pa
    <2>1. CASE r = n
      <3>1. next = Infinity
        BY <2>1 DEF Kdump!NextStart
      <3>2. Infinity \in Int /\ req.pa + req.len < Infinity
        BY <1>2, FormatAssumption
      <3> QED BY <2>1, <3>1, <3>2, <1>2, <1>3
    <2>2. CASE r < n
      <3>1. next = ranges[r + 1].pa /\ r + 1 \in 1..n
        BY <2>2, <1>2, <1>3 DEF Kdump!NextStart
      <3>2. ranges[r + 1].pa \in Nat /\ ~(ranges[r + 1].pa <= cur)
        BY <3>1, <1>2, <1>3
      <3>3. \A i \in 1..n : i > r => ranges[r + 1].pa <= ranges[i].pa
        <4> SUFFICES ASSUME NEW i \in 1..n, i > r PROVE ranges[r + 1].pa <= ranges[i].pa
          OBVIOUS
        <4>1. i = r + 1 \/ r + 1 < i
          BY <1>2, <1>3
        <4>2. CASE i = r + 1
          BY <4>2, <3>2
        <4>3. CASE r + 1 < i
          <5>1. ranges[r + 1].pa + ranges[r + 1].len <= ranges[i].pa
            BY <4>3, <3>1, <1>2 DEF Ascending
          <5> QED BY <5>1, <3>1, <1>2
        <4> QED BY <4>1, <4>2, <4>3
      <3> HIDE DEF next
      <3> QED BY <3>1, <3>2, <3>3, <1>2
    <2> QED BY <1>2, <1>3, <2>1, <2>2
  <1> HIDE DEF next
  <1>5. step \in Nat /\ step > 0 /\ step <= rest /\ cur + step <= next
    <2>1. rest \in Int /\ next - cur \in Int /\ next - cur > 0 /\ rest > 0
      BY <1>1, <1>2, <1>4
    <2>2. step = IF rest <= next - cur THEN rest ELSE next - cur
      BY <2>1, KdumpOfTwo
    <2> HIDE DEF step
    <2>3. rest \in Nat /\ cur \in Nat /\ next \in Int /\ next - cur > 0 /\ rest > 0
      BY <2>1, <1>2, <1>4
    <2>4. CASE rest <= next - cur
      BY <2>2, <2>3, <2>4
    <2>5. CASE ~(rest <= next - cur)
      BY <2>2, <2>3, <2>5
    <2> QED BY <2>4, <2>5
  <1> HIDE DEF step
  <1>6. cur' = cur + step /\ rest' = rest - step
    BY <1>1, <1>2, <1>4
  <1>7. \A a : a \in Layer!Backed(S) => a < cur \/ next <= a
    <2> SUFFICES ASSUME NEW a, a \in Layer!Backed(S) PROVE a < cur \/ next <= a
      OBVIOUS
    <2>1. PICK i \in 1..n : a \in Layer!Span(ClippedTo(ranges[i], file.size))
      BY <1>2, KdumpViews DEF S
    <2>2. a \in Int /\ ranges[i].pa <= a /\ a < ranges[i].pa + ranges[i].len
      BY <2>1, <1>2, ClipFacts
    <2>3. CASE i <= r
      <3>1. r \in 1..n /\ r > 0 /\ cur >= ranges[r].pa + ranges[r].len
        BY <2>3, <1>1, <1>2, <1>3
      <3>2. ranges[i].pa + ranges[i].len <= ranges[r].pa + ranges[r].len
        <4>1. i = r \/ i < r
          BY <2>3, <1>2, <1>3
        <4>2. /\ ranges[i].pa \in Nat /\ ranges[i].len \in Nat
              /\ ranges[r].pa \in Nat /\ ranges[r].len \in Nat
          BY <3>1, <1>2
        <4>3. CASE i = r
          BY <4>2, <4>3
        <4>4. CASE i < r
          <5>1. ranges[i].pa + ranges[i].len <= ranges[r].pa
            BY <4>4, <3>1, <1>2 DEF Ascending
          <5> QED BY <4>2, <5>1
        <4> QED BY <4>1, <4>3, <4>4
      <3>3. /\ ranges[i].pa \in Nat /\ ranges[i].len \in Nat
            /\ ranges[r].pa \in Nat /\ ranges[r].len \in Nat /\ cur \in Nat
        BY <3>1, <1>2
      <3> QED BY <2>2, <3>1, <3>2, <3>3
    <2>4. CASE i > r
      <3>1. next <= ranges[i].pa
        BY <2>4, <1>4
      <3> QED BY <3>1, <2>2, <1>2, <1>4
    <2> QED BY <1>2, <1>3, <2>3, <2>4
  <1>8. Layer!Window(req.pa, req.len) \cap Below(S, cur) = Layer!Window(req.pa, req.len) \cap Below(S, cur + step)
    <2> SUFFICES ASSUME NEW a, a \in Layer!Window(req.pa, req.len)
                 PROVE  a \in Below(S, cur) <=> a \in Below(S, cur + step)
      OBVIOUS
    <2>1. a \in Int
      BY <1>2 DEF Layer!Window
    <2>2. a \in Layer!Backed(S) => (a < cur <=> a < cur + step)
      BY <2>1, <1>2, <1>4, <1>5, <1>7
    <2> QED BY <2>2 DEF Below
  <1>9. Partial(S, Below(S, cur + step), req.pa, req.len, dst, total)
    BY <1>2, <1>8, PartialSame
  <1>10. (Kdump!Captured)' = Kdump!Captured
    BY <1>1, KdumpSame
  <1>11. KdumpReads'
    <2>1. rest' \in 0..req.len /\ cur' = req.pa + (req.len - rest')
      BY <1>2, <1>5, <1>6
    <2>2. Partial((Kdump!Captured)', Below((Kdump!Captured)', cur'), req.pa, req.len, dst, total)
      BY <1>6, <1>9, <1>10 DEF S
    <2> QED BY <1>1, <1>2, <2>1, <2>2 DEF KdumpReads
  <1>12. KdumpScanned'
    BY <1>1, <1>2 DEF KdumpScanned
  <1>13. KdumpIInv'
    <2>1. Ascending(ranges') /\ ranges' # <<>> /\ phdr' = Len(file'.phdrs) + 1 /\ status' = "open"
      BY <1>1, <1>2
    <2> QED BY <2>1, <1>11, <1>12 DEF KdumpIInv
  <1>14. UNCHANGED Layer!layer
    BY <1>1, KdumpSame DEF Layer!layer
  <1> QED BY <1>13, <1>14

\* A range gives the window what the file has of it.
LEMMA KdumpCopyStep ==
    ASSUME KdumpIInv, IsKdump, Kdump!CopyRange
    PROVE  KdumpIInv' /\ [Layer!Next]_(Layer!layer)
  <1> DEFINE S == Kdump!Captured
             W == Layer!Window(req.pa, req.len)
             n == Len(ranges)
             r == Kdump!RangeOf(cur)
             g == ranges[r]
             at == g.off + (cur - g.pa)
             want == Kdump!Min({rest, (g.pa + g.len) - cur})
             got == Kdump!SourceRead(at, want)
             fill == req.len - rest
  <1>1. /\ req # Kdump!NoReq /\ rest > 0 /\ r > 0 /\ cur < g.pa + g.len
        /\ dst' = [k \in DOMAIN dst |->
                      IF k > fill /\ k <= fill + got THEN at + (k - fill - 1) ELSE dst[k]]
        /\ total' = total + got
        /\ cur' = cur + want /\ rest' = rest - want
        /\ UNCHANGED <<file, status, phdr, ranges, max, req, reply>>
    BY DEF Kdump!CopyRange, Kdump!RangeEnd, Kdump!Advance
  <1>2. /\ KdumpScanned /\ status = "open" /\ phdr = Len(file.phdrs) + 1
        /\ ranges \in Seq(Segments) /\ Ascending(ranges) /\ ranges # <<>> /\ n \in Nat
        /\ \A i \in 1..n :
              ranges[i] \in Segments /\ ranges[i].pa \in Nat /\ ranges[i].len \in Nat /\ ranges[i].off \in Nat
        /\ file.size \in Nat
        /\ req.pa \in Nat /\ req.len \in Nat /\ req \in [pa : Nat, len : Nat] /\ req.pa + req.len < Infinity
        /\ rest \in 0..req.len /\ cur = req.pa + (req.len - rest) /\ cur \in Nat
        /\ Partial(S, Below(S, cur), req.pa, req.len, dst, total)
    BY <1>1, KdumpReadFacts
  <1>3. r \in 0..n /\ \A i \in 1..n : ranges[i].pa <= cur <=> i <= r
    BY <1>2, RangeOfFacts
  <1> HIDE DEF r, S
  <1>4. /\ r \in 1..n /\ g \in Segments /\ g.pa \in Nat /\ g.len \in Nat /\ g.off \in Nat /\ g.pa <= cur
        /\ cur < g.pa + g.len
    <2>1. r \in 1..n
      BY <1>1, <1>2, <1>3
    <2>2. g.pa <= cur
      BY <2>1, <1>2, <1>3
    <2> QED BY <2>1, <2>2, <1>1, <1>2
  <1> HIDE DEF g
  <1>4a. /\ rest \in Nat /\ rest > 0 /\ rest <= req.len /\ req.pa \in Nat /\ req.len \in Nat
         /\ cur \in Nat /\ cur = req.pa + (req.len - rest) /\ file.size \in Nat
         /\ g.pa \in Nat /\ g.len \in Nat /\ g.off \in Nat /\ g.pa <= cur /\ cur < g.pa + g.len
    BY <1>1, <1>2, <1>4
  <1>5. want \in Nat /\ want > 0 /\ want <= rest /\ cur + want <= g.pa + g.len
    <2>1. rest \in Int /\ (g.pa + g.len) - cur \in Int /\ (g.pa + g.len) - cur > 0 /\ rest > 0
      BY <1>4a
    <2>2. want = IF rest <= (g.pa + g.len) - cur THEN rest ELSE (g.pa + g.len) - cur
      BY <2>1, KdumpOfTwo
    <2> HIDE DEF want
    <2>3. rest \in Nat /\ cur \in Nat /\ g.pa \in Nat /\ g.len \in Nat
      BY <1>4a
    <2>4. CASE rest <= (g.pa + g.len) - cur
      BY <2>1, <2>2, <2>3, <2>4
    <2>5. CASE ~(rest <= (g.pa + g.len) - cur)
      BY <2>1, <2>2, <2>3, <2>5
    <2> QED BY <2>4, <2>5
  <1> HIDE DEF want
  <1>6. at \in Nat
    BY <1>4a
  <1>7. /\ got \in Nat /\ got <= want
        /\ \A a \in Int : a >= cur => (a < cur + got <=> a < cur + want /\ at + (a - cur) < file.size)
    <2> HIDE DEF at
    <2>1. CASE at >= file.size
      <3>1. got = 0
        BY <2>1 DEF Kdump!SourceRead
      <3>2. \A a \in Int : a >= cur => ~(a < cur + 0) /\ ~(at + (a - cur) < file.size)
        BY <2>1, <1>4a, <1>6
      <3> HIDE DEF got
      <3> QED BY <3>1, <3>2, <1>5
    <2>2. CASE at < file.size
      <3>1. want \in Int /\ file.size - at \in Int
        BY <1>2, <1>5, <1>6
      <3>2. Kdump!Min({want, file.size - at}) = IF want <= file.size - at THEN want ELSE file.size - at
        BY <3>1, KdumpOfTwo
      <3>3. got = IF want <= file.size - at THEN want ELSE file.size - at
        BY <2>2, <3>2, <1>2, <1>6 DEF Kdump!SourceRead
      <3> HIDE DEF got
      <3>4. CASE want <= file.size - at
        BY <3>3, <3>4, <1>4a, <1>5, <1>6
      <3>5. CASE ~(want <= file.size - at)
        BY <3>3, <3>5, <2>2, <1>4a, <1>5, <1>6
      <3> QED BY <3>4, <3>5
    <2> QED BY <1>4a, <1>6, <2>1, <2>2
  <1> HIDE DEF got
  <1>8. \A a : a \in Layer!Window(cur, got) <=> a \in Int /\ cur <= a /\ a < cur + got
    BY <1>2, <1>7 DEF Layer!Window
  <1>9. \A a : a \in W <=> a \in Int /\ req.pa <= a /\ a < req.pa + req.len
    BY <1>2 DEF Layer!Window
  <1>10. \A a : a \in Layer!Span(ClippedTo(g, file.size)) <=>
            a \in Int /\ g.pa <= a /\ a < g.pa + g.len /\ g.off + (a - g.pa) < file.size
    BY <1>2, <1>4, ClipFacts
  <1>11. \A a \in Int : at + (a - cur) = g.off + (a - g.pa)
    BY <1>4a
  <1>12. ClippedTo(g, file.size) \in S
    BY <1>2, <1>4, KdumpViews DEF S, g
  <1>13. ASSUME NEW a, a \in Layer!Window(cur, got)
         PROVE  a \in Int /\ a \in Layer!Span(ClippedTo(g, file.size))
    <2>1. a \in Int /\ cur <= a /\ a < cur + got
      BY <1>8, <1>13
    <2>2. a < cur + want /\ at + (a - cur) < file.size
      BY <2>1, <1>7
    <2>3. g.off + (a - g.pa) < file.size
      BY <2>1, <2>2, <1>11
    <2>4. g.pa <= a /\ a < g.pa + g.len
      BY <2>1, <2>2, <1>4a, <1>5
    <2> QED BY <2>1, <2>3, <2>4, <1>10
  <1>14. ASSUME NEW a, a \in Layer!Backed(S), cur <= a, a < cur + want
         PROVE  a \in Layer!Window(cur, got)
    <2>1. PICK i \in 1..n : a \in Layer!Span(ClippedTo(ranges[i], file.size))
      BY <1>2, <1>14, KdumpViews DEF S
    <2>2. a \in Int /\ ranges[i].pa <= a /\ a < ranges[i].pa + ranges[i].len
          /\ ranges[i].off + (a - ranges[i].pa) < file.size
      BY <2>1, <1>2, ClipFacts
    <2>3. /\ ranges[i].pa \in Nat /\ ranges[i].len \in Nat /\ ranges[r].pa \in Nat /\ ranges[r].len \in Nat
          /\ ranges[r].pa <= a /\ a < ranges[r].pa + ranges[r].len
      <3>1. ranges[r].pa <= cur /\ cur + want <= ranges[r].pa + ranges[r].len
        BY <1>4, <1>5 DEF g
      <3>2. ranges[i].pa \in Nat /\ ranges[i].len \in Nat
        BY <1>2
      <3>3. ranges[r].pa \in Nat /\ ranges[r].len \in Nat
        BY <1>4a DEF g
      <3>4. ranges[r].pa <= a
        BY <2>2, <3>1, <3>3, <1>4a, <1>14
      <3>5. a < ranges[r].pa + ranges[r].len
        <4>1. a \in Int /\ a < cur + want /\ cur \in Nat /\ want \in Nat
          BY <2>2, <1>4a, <1>5, <1>14
        <4> QED BY <4>1, <3>1, <3>3
      <3> QED BY <3>2, <3>3, <3>4, <3>5
    <2>4. i = r
      <3>1. CASE i < r
        <4>1. ranges[i].pa + ranges[i].len <= ranges[r].pa
          BY <3>1, <1>2, <1>4 DEF Ascending
        <4> QED BY <4>1, <2>2, <2>3
      <3>2. CASE r < i
        <4>1. ranges[r].pa + ranges[r].len <= ranges[i].pa
          BY <3>2, <1>2, <1>4 DEF Ascending
        <4> QED BY <4>1, <2>2, <2>3
      <3> QED BY <3>1, <3>2, <1>2, <1>4
    <2>5. at + (a - cur) < file.size
      BY <2>2, <2>4, <1>11 DEF g
    <2>6. a < cur + got
      BY <2>2, <2>5, <1>7, <1>14
    <2> QED BY <2>2, <2>6, <1>8, <1>14
  <1>15. W \cap Below(S, cur + want) = (W \cap Below(S, cur)) \cup Layer!Window(cur, got)
    <2>1. ASSUME NEW a, a \in W, a \in Below(S, cur + want), a \notin Below(S, cur)
          PROVE  a \in Layer!Window(cur, got)
      <3>1. a \in Int /\ a \in Layer!Backed(S) /\ a < cur + want /\ ~(a < cur)
        BY <2>1, <1>9 DEF Below
      <3>2. cur <= a
        BY <3>1, <1>2
      <3> QED BY <3>1, <3>2, <1>14
    <2>2. ASSUME NEW a, a \in Layer!Window(cur, got)
          PROVE  a \in W /\ a \in Below(S, cur + want)
      <3>1. a \in Int /\ cur <= a /\ a < cur + got
        BY <2>2, <1>8
      <3>2. a \in Layer!Backed(S)
        BY <2>2, <1>12, <1>13 DEF Layer!Backed
      <3>3. a < cur + want
        BY <3>1, <1>2, <1>5, <1>7
      <3>4. req.pa <= a /\ a < req.pa + req.len
        BY <3>1, <3>3, <1>2, <1>5
      <3> QED BY <3>1, <3>2, <3>3, <3>4, <1>9 DEF Below
    <2>3. ASSUME NEW a, a \in W, a \in Below(S, cur)
          PROVE  a \in Below(S, cur + want)
      <3>1. a \in Int /\ a < cur /\ a \in Layer!Backed(S)
        BY <2>3, <1>9 DEF Below
      <3>2. a < cur + want
        BY <3>1, <1>2, <1>5
      <3> QED BY <3>1, <3>2 DEF Below
    <2> HIDE DEF W
    <2> QED BY <2>1, <2>2, <2>3
  <1>16. Layer!Window(cur, got) \cap Below(S, cur) = {}
    BY <1>2, <1>8 DEF Below
  <1>17. \A a \in Layer!Window(cur, got) : at + (a - cur) \in Layer!Sources(S, a)
    <2> SUFFICES ASSUME NEW a \in Layer!Window(cur, got) PROVE at + (a - cur) \in Layer!Sources(S, a)
      OBVIOUS
    <2>1. a \in Int /\ a \in Layer!Span(ClippedTo(g, file.size))
      BY <1>13
    <2>2. ClippedTo(g, file.size).pa = g.pa /\ ClippedTo(g, file.size).off = g.off
      BY <1>2, <1>4, ClipFacts
    <2>3. g.off + (a - g.pa) \in Layer!Sources(S, a)
      <3> DEFINE c == ClippedTo(g, file.size)
      <3>1. c \in {t \in S : a \in Layer!Span(t)} /\ c.off + (a - c.pa) = g.off + (a - g.pa)
        BY <2>1, <2>2, <1>12
      <3> HIDE DEF c
      <3>2. c.off + (a - c.pa) \in Layer!Sources(S, a)
        BY <3>1 DEF Layer!Sources
      <3> QED BY <3>1, <3>2
    <2> QED BY <2>1, <2>3, <1>11
  <1>18. DOMAIN dst = 1..req.len /\ DOMAIN dst' = 1..req.len
    <2>1. DOMAIN dst = 1..req.len
      BY <1>2 DEF Partial
    <2> QED BY <2>1, <1>1
  <1>19. \A k \in 1..req.len : LET a == req.pa + k - 1 IN
            dst'[k] = IF a \in Layer!Window(cur, got) THEN at + (a - cur) ELSE dst[k]
    <2> SUFFICES ASSUME NEW k \in 1..req.len
                 PROVE  dst'[k] = IF req.pa + k - 1 \in Layer!Window(cur, got)
                                  THEN at + ((req.pa + k - 1) - cur) ELSE dst[k]
      OBVIOUS
    <2>1. k \in DOMAIN dst
      BY <1>18
    <2>2. dst'[k] = IF k > fill /\ k <= fill + got THEN at + (k - fill - 1) ELSE dst[k]
      BY <2>1, <1>1
    <2>3. k > fill /\ k <= fill + got <=> req.pa + k - 1 \in Layer!Window(cur, got)
      BY <1>2, <1>7, <1>8
    <2>4. at + (k - fill - 1) = at + ((req.pa + k - 1) - cur)
      <3> HIDE DEF at
      <3> QED BY <1>2, <1>6
    <2> HIDE DEF at, fill
    <2> QED BY <2>2, <2>3, <2>4
  <1>20. Partial(S, Below(S, cur + want), req.pa, req.len, dst', total')
    <2> HIDE DEF at
    <2>1. at \in Int
      BY <1>6
    <2>2. Partial(S, Below(S, cur + want), req.pa, req.len, dst', total + got)
      BY <2>1, <1>2, <1>7, <1>15, <1>16, <1>17, <1>18, <1>19, PartialCopy DEF W
    <2> QED BY <2>2, <1>1
  <1>21. (Kdump!Captured)' = Kdump!Captured
    BY <1>1, KdumpSame
  <1>22. KdumpReads'
    <2>1. rest' \in 0..req.len /\ cur' = req.pa + (req.len - rest')
      BY <1>1, <1>2, <1>5
    <2>2. Partial((Kdump!Captured)', Below((Kdump!Captured)', cur'), req.pa, req.len, dst', total')
      BY <1>1, <1>20, <1>21 DEF S
    <2>3. req' = req
      BY <1>1
    <2> QED BY <1>2, <2>1, <2>2, <2>3 DEF KdumpReads
  <1>23. KdumpScanned'
    BY <1>1, <1>2 DEF KdumpScanned
  <1>24. KdumpIInv'
    <2>1. Ascending(ranges') /\ ranges' # <<>> /\ phdr' = Len(file'.phdrs) + 1 /\ status' = "open"
      BY <1>1, <1>2
    <2> QED BY <2>1, <1>22, <1>23 DEF KdumpIInv
  <1>25. UNCHANGED Layer!layer
    BY <1>1, KdumpSame DEF Layer!layer
  <1> QED BY <1>24, <1>25

\* At the end of the window everything below it is done.
LEMMA KdumpReturnStep ==
    ASSUME KdumpIInv, IsKdump, Kdump!Return
    PROVE  KdumpIInv' /\ [Layer!Next]_(Layer!layer)
  <1> DEFINE S == Kdump!Captured
             W == Layer!Window(req.pa, req.len)
  <1>1. /\ req # Kdump!NoReq /\ rest = 0
        /\ reply' = [pa |-> req.pa, bytes |-> dst, count |-> total]
        /\ req' = Layer!NoReq
        /\ UNCHANGED <<file, status, phdr, ranges, max>>
    BY DEF Kdump!Return, Kdump!NoReq, Layer!NoReq
  <1>2. /\ KdumpScanned /\ status = "open" /\ phdr = Len(file.phdrs) + 1
        /\ Ascending(ranges) /\ ranges # <<>>
        /\ req.pa \in Nat /\ req.len \in Nat /\ cur = req.pa + (req.len - rest) /\ cur \in Nat
        /\ Partial(S, Below(S, cur), req.pa, req.len, dst, total)
    BY <1>1, KdumpReadFacts
  <1>3. Captured = S /\ Captured' = Captured /\ Declared' = Declared
    BY <1>1, KdumpSame
  <1> HIDE DEF S
  <1>4. W \cap Below(S, cur) = W \cap Layer!Backed(S)
    <2> SUFFICES ASSUME NEW a, a \in W, a \in Layer!Backed(S) PROVE a < cur
      BY DEF Below
    <2> QED BY <1>1, <1>2 DEF Layer!Window
  <1>5. Layer!Faithful(S, req.pa, req.len, dst) /\ Layer!Honest(S, req.pa, req.len, total)
    BY <1>2, <1>4, PartialDone
  <1>6. reply'.pa = req.pa /\ reply'.bytes = dst /\ reply'.count = total /\ req # Layer!NoReq
    BY <1>1 DEF Kdump!NoReq, Layer!NoReq
  <1>7. Layer!Return
    BY <1>1, <1>3, <1>5, <1>6 DEF Layer!Return
  <1>8. KdumpScanned'
    BY <1>1, <1>2 DEF KdumpScanned
  <1>9. KdumpIInv'
    BY <1>1, <1>2, <1>8 DEF KdumpIInv
  <1> QED BY <1>7, <1>9 DEF Layer!Next

LEMMA KdumpStep ==
    ASSUME KdumpIInv, IsKdump, Kdump!Next
    PROVE  KdumpIInv' /\ [Layer!Next]_(Layer!layer)
  BY KdumpBadStep, KdumpScanStep, KdumpFinishStep, KdumpCallStep, KdumpSkipStep, KdumpCopyStep,
     KdumpReturnStep DEF Kdump!Next

-----------------------------------------------------------------------------
(* AVML: the tokens of a file.                                             *)

\* What the loader makes of the data frame at position i, and the frames it
\* makes: those of a chunk that still expects data.
AvmlFrame(i) ==
    [pa |-> file[Avml!ChunkOf(i)].start + Avml!Before(i), len |-> file[i].dec, off |-> Stride * i]
AvmlHeld ==
    {i \in 1..Len(file) : file[i].t = "data" /\ Avml!HasChunk(i) /\ Avml!Before(i) < Avml!Expected(i)}

\* The frames ascend, and the last one is not empty.
AvmlAscends ==
    /\ \A i \in AvmlHeld : (\A j \in AvmlHeld : j <= i) => file[i].dec > 0
    /\ \A i, j \in AvmlHeld : i < j => AvmlFrame(i).pa + AvmlFrame(i).len <= AvmlFrame(j).pa

AvmlAdds(i) == IF file[i].t = "data" THEN file[i].dec ELSE 0

\* What a token holds is a number.
LEMMA TokenFacts ==
    ASSUME file \in Seq(AvmlTokens), NEW i \in 1..Len(file)
    PROVE  /\ file[i].t = "chunk" => file[i].start \in Nat /\ file[i].end \in Nat
           /\ file[i].t = "data" => file[i].dec \in Nat
           /\ AvmlAdds(i) \in Nat
  <1>1. file[i] \in AvmlTokens
    OBVIOUS
  <1>2. \A x \in AvmlTokens : /\ x.t = "chunk" => x.start \in Nat /\ x.end \in Nat
                              /\ x.t = "data" => x.dec \in Nat
    BY DEF AvmlTokens
  <1> QED BY <1>1, <1>2 DEF AvmlAdds

\* The count of a chunk's data starts at its header and grows with its frames.
LEMMA BeforeFacts ==
    ASSUME file \in Seq(AvmlTokens)
    PROVE  /\ \A i \in 1..(Len(file) + 1) : Avml!Before(i) \in Nat
           /\ \A i \in 1..Len(file) :
                 Avml!Before(i + 1) = IF file[i].t = "chunk" THEN 0 ELSE Avml!Before(i) + AvmlAdds(i)
  <1> DEFINE n == Len(file)
             body(k, x) == IF file[k].t = "chunk" THEN 0 ELSE x + AvmlAdds(k)
             step == [k \in 1..n |-> [x \in Nat |-> body(k, x)]]
             Rec(g) == g = [k \in 0..n |->
                              IF k = 0 \/ file[k].t = "chunk" THEN 0
                              ELSE g[k-1] + (IF file[k].t = "data" THEN file[k].dec ELSE 0)]
             at == CHOOSE g : Rec(g)
  <1>1. n \in Nat /\ \A k \in 1..n : AvmlAdds(k) \in Nat
    <2>1. n \in Nat
      OBVIOUS
    <2> QED BY <2>1, TokenFacts
  <1>2. \A k \in 1..n, x \in Nat : body(k, x) \in Nat
    <2> HIDE DEF n
    <2> QED BY <1>1
  <1>3. step \in [1..n -> [Nat -> Nat]] /\ \A k \in 1..n, x \in Nat : step[k][x] = body(k, x)
    <2> HIDE DEF body, n
    <2> QED BY <1>2
  <1>4. Counting!Steps(step, 0, n, Nat)
    <2> HIDE DEF step, n
    <2> QED BY <1>1, <1>3 DEF Counting!Steps
  <1> HIDE DEF step
  <1>5. PICK w : Counting!Record(w, step, 0, n, Nat)
    <2> HIDE DEF n
    <2> QED BY <1>4, Counting!Iteration
  <1>6. w \in [0..n -> Nat] /\ w[0] = 0 /\ \A k \in 1..n : w[k] = step[k][w[k - 1]]
    BY <1>5 DEF Counting!Record
  <1>7. \A k \in 1..n : w[k] = body(k, w[k - 1])
    <2> SUFFICES ASSUME NEW k \in 1..n PROVE w[k] = body(k, w[k - 1])
      OBVIOUS
    <2>1. k - 1 \in 0..n
      BY <1>1
    <2>2. w[k - 1] \in Nat
      BY <1>6, <2>1
    <2> HIDE DEF body, n
    <2> QED BY <1>3, <1>6, <2>2
  <1>8. Rec(w)
    <2>1. \A k \in 0..n : w[k] = IF k = 0 \/ file[k].t = "chunk" THEN 0
                                 ELSE w[k-1] + (IF file[k].t = "data" THEN file[k].dec ELSE 0)
      <3> SUFFICES ASSUME NEW k \in 0..n
                   PROVE  w[k] = IF k = 0 \/ file[k].t = "chunk" THEN 0
                                 ELSE w[k-1] + (IF file[k].t = "data" THEN file[k].dec ELSE 0)
        OBVIOUS
      <3>1. CASE k = 0
        BY <3>1, <1>6
      <3>2. CASE k # 0
        <4>1. k \in 1..n
          BY <3>2, <1>1
        <4>2. w[k] = body(k, w[k - 1])
          BY <4>1, <1>7
        <4> QED BY <3>2, <4>2 DEF AvmlAdds
      <3> QED BY <3>1, <3>2
    <2> HIDE DEF n
    <2> QED BY <1>6, <2>1
  <1>9. Rec(at)
    <2> HIDE DEF Rec
    <2> QED BY <1>8
  <1>10. \A k \in 0..n : at[k] = IF k = 0 \/ file[k].t = "chunk" THEN 0
                                 ELSE at[k-1] + (IF file[k].t = "data" THEN file[k].dec ELSE 0)
    <2> HIDE DEF at
    <2> QED BY <1>9
  <1>11. \A i : Avml!Before(i) = at[i - 1]
    BY DEF Avml!Before
  <1> HIDE DEF at
  <1>12. at[0] = 0 /\ \A k \in 1..n : at[k] = IF file[k].t = "chunk" THEN 0 ELSE at[k - 1] + AvmlAdds(k)
    <2>1. \A k \in 1..n : k \in 0..n /\ k # 0
      BY <1>1
    <2>2. 0 \in 0..n
      BY <1>1
    <2> QED BY <1>10, <2>1, <2>2 DEF AvmlAdds
  <1>13. \A k \in 0..n : at[k] \in Nat
    <2> DEFINE Good == {k \in 0..n : at[k] \in Nat}
    <2>1. 0 \in Good
      BY <1>1, <1>12
    <2>2. ASSUME NEW k \in 0..(n - 1), k \in Good PROVE k + 1 \in Good
      <3>1. k + 1 \in 1..n /\ (k + 1) - 1 = k /\ k + 1 \in 0..n
        BY <1>1
      <3>2. at[k + 1] = IF file[k + 1].t = "chunk" THEN 0 ELSE at[k] + AvmlAdds(k + 1)
        BY <1>12, <3>1
      <3>3. at[k] \in Nat /\ AvmlAdds(k + 1) \in Nat
        BY <2>2, <1>1, <3>1
      <3> QED BY <3>1, <3>2, <3>3
    <2>3. \A k \in 0..n : k \in Good
      <3> HIDE DEF Good
      <3> QED BY <1>1, <2>1, <2>2, Counting!CountingUp
    <2> QED BY <2>3
  <1>14. \A i \in 1..(n + 1) : i - 1 \in 0..n
    BY <1>1
  <1>15. \A i \in 1..n : (i + 1) - 1 = i
    BY <1>1
  <1>16. \A i \in 1..(n + 1) : Avml!Before(i) \in Nat
    BY <1>11, <1>13, <1>14
  <1>17. \A i \in 1..n : Avml!Before(i + 1) = IF file[i].t = "chunk" THEN 0 ELSE Avml!Before(i) + AvmlAdds(i)
    BY <1>11, <1>12, <1>15
  <1> QED BY <1>16, <1>17

\* Within a chunk it never falls.
LEMMA BeforeGrows ==
    ASSUME file \in Seq(AvmlTokens), NEW i \in 1..Len(file), NEW j \in i..Len(file),
           \A k \in i..j : file[k].t # "chunk"
    PROVE  Avml!Before(i) <= Avml!Before(j)
  <1> DEFINE m == j - i
             Good == {k \in 0..m : Avml!Before(i) <= Avml!Before(i + k)}
  <1>1. Len(file) \in Nat /\ m \in Nat /\ i + 0 = i /\ i + m = j /\ i \in 1..(Len(file) + 1)
    <2>1. Len(file) \in Nat
      OBVIOUS
    <2> QED BY <2>1
  <1>2. 0 \in Good
    BY <1>1, BeforeFacts
  <1>3. ASSUME NEW k \in 0..(m - 1), k \in Good PROVE k + 1 \in Good
    <2>1. i + k \in 1..Len(file) /\ i + k \in i..j /\ (i + k) + 1 = i + (k + 1) /\ k + 1 \in 0..m
          /\ i + k \in 1..(Len(file) + 1)
      BY <1>1
    <2>2. Avml!Before((i + k) + 1) = Avml!Before(i + k) + AvmlAdds(i + k)
      BY <2>1, BeforeFacts
    <2>3. AvmlAdds(i + k) \in Nat /\ Avml!Before(i) \in Nat /\ Avml!Before(i + k) \in Nat
      BY <1>1, <2>1, TokenFacts, BeforeFacts
    <2>4. Avml!Before(i) <= Avml!Before(i + k)
      BY <1>3
    <2>5. Avml!Before(i) <= Avml!Before((i + k) + 1)
      BY <2>2, <2>3, <2>4
    <2> QED BY <2>1, <2>5
  <1>4. \A k \in 0..m : k \in Good
    <2> HIDE DEF Good, m
    <2> QED BY <1>1, <1>2, <1>3, Counting!CountingUp
  <1>5. m \in 0..m
    <2> HIDE DEF m
    <2> QED BY <1>1
  <1>6. m \in Good
    <2> HIDE DEF Good, m
    <2> QED BY <1>4, <1>5
  <1>7. Avml!Before(i) <= Avml!Before(i + m)
    <2> HIDE DEF m
    <2> QED BY <1>6
  <1> HIDE DEF m
  <1> QED BY <1>1, <1>7

\* The chunk of a position is the last header at or before it.
LEMMA ChunkOfFacts ==
    ASSUME NEW i \in Nat, NEW c \in 1..i, file[c].t = "chunk", \A k \in (c + 1)..i : file[k].t # "chunk"
    PROVE  Avml!HasChunk(i) /\ Avml!ChunkOf(i) = c
  <1> DEFINE T == {k \in 1..i : file[k].t = "chunk"}
  <1>1. c \in T
    OBVIOUS
  <1>2. \A k \in T : k \in Int /\ k <= c
    OBVIOUS
  <1> HIDE DEF T
  <1>3. Avml!Max(T) = c
    <2>1. \A k \in T : c >= k
      BY <1>2
    <2>2. \A x \in T : (\A y \in T : x >= y) => x = c
      BY <1>1, <1>2
    <2> QED BY <1>1, <2>1, <2>2 DEF Avml!Max
  <1> QED BY <1>3 DEF T, Avml!ChunkOf, Avml!HasChunk

\* std::upper_bound finds the first frame that ends above pa.
LEMMA UpperBoundFacts ==
    ASSUME frames \in Seq(Segments), Ascending(frames), NEW pa \in Nat
    PROVE  /\ Avml!UpperBound(pa) \in 1..(Len(frames) + 1)
           /\ \A j \in 1..Len(frames) :
                 frames[j].pa + frames[j].len <= pa <=> j < Avml!UpperBound(pa)
  <1> DEFINE n == Len(frames)
             End(j) == frames[j].pa + frames[j].len
             Fits(i, m) == /\ i \in 1..(n + 1) /\ m \in 0..n /\ i + m <= n + 1
                           /\ \A j \in 1..n : j < i => End(j) <= pa
                           /\ \A j \in 1..n : j >= i + m => pa < End(j)
             S == {x \in (1..(n + 1)) \X (0..n) : Fits(x[1], x[2])}
             body(x) == IF x[2] = 0 THEN x ELSE Avml!Halve(pa, x[1], x[2])
             step == [k \in 1..n |-> [x \in S |-> body(x)]]
             Rec(g) == g = [k \in 0..n |->
                              IF k = 0 THEN <<1, n>>
                              ELSE IF g[k-1][2] = 0 THEN g[k-1]
                              ELSE Avml!Halve(pa, g[k-1][1], g[k-1][2])]
             search == CHOOSE g : Rec(g)
  <1>1. n \in Nat /\ \A j \in 1..n : frames[j].pa \in Nat /\ frames[j].len \in Nat /\ End(j) \in Nat
    BY SegmentFacts
  <1>2. \A i, j \in 1..n : i <= j => End(i) <= End(j)
    <2> SUFFICES ASSUME NEW i \in 1..n, NEW j \in 1..n, i <= j PROVE End(i) <= End(j)
      OBVIOUS
    <2>1. CASE i = j
      BY <2>1, <1>1
    <2>2. CASE i < j
      <3>1. End(i) <= frames[j].pa
        BY <2>2 DEF Ascending
      <3> QED BY <3>1, <1>1
    <2> QED BY <2>1, <2>2
  <1>3. ASSUME NEW x \in S, x[2] # 0
        PROVE  Avml!Halve(pa, x[1], x[2]) \in S /\ Avml!Halve(pa, x[1], x[2])[2] < x[2]
    <2> DEFINE i == x[1]
               m == x[2]
               half == m \div 2
               mid == i + half
    <2>1. Fits(i, m) /\ m # 0
      BY <1>3
    <2>2. i \in Nat /\ m \in Nat /\ m > 0 /\ 1 <= i /\ i + m <= n + 1 /\ m <= n
      <3> HIDE DEF n, i, m, End
      <3> QED BY <2>1, <1>1
    <2>3. half \in Nat /\ half < m
      <3> HIDE DEF m, i
      <3> QED BY <2>2
    <2> HIDE DEF i, m, half
    <2>4. mid \in 1..n /\ mid < i + m /\ End(mid) \in Nat
      <3>1. mid \in 1..n /\ mid < i + m
        <4> HIDE DEF n
        <4> QED BY <2>2, <2>3, <1>1
      <3> HIDE DEF mid
      <3> QED BY <3>1, <1>1
    <2>5. Avml!Halve(pa, i, m) = IF pa < End(mid) THEN <<i, half>> ELSE <<mid + 1, (m - half) - 1>>
      <3>1. i + half + 1 = mid + 1 /\ m - half - 1 = (m - half) - 1
        BY <2>2, <2>3
      <3> QED BY <3>1 DEF half, Avml!Halve, Avml!FrameEnd
    <2>6. CASE pa < End(mid)
      <3>1. \A j \in 1..n : j >= i + half => pa < End(j)
        <4> SUFFICES ASSUME NEW j \in 1..n, j >= mid PROVE pa < End(j)
          OBVIOUS
        <4>1. End(mid) <= End(j) /\ End(j) \in Nat
          <5> HIDE DEF mid, End
          <5> QED BY <1>1, <1>2, <2>4
        <4> HIDE DEF mid, End
        <4> QED BY <4>1, <2>4, <2>6
      <3>2. half \in 0..n /\ i + half <= n + 1
        <4> HIDE DEF n, End
        <4> QED BY <2>2, <2>3, <1>1
      <3>3. Fits(i, half)
        <4> HIDE DEF n, End
        <4> QED BY <2>1, <3>1, <3>2
      <3>4. <<i, half>> \in S
        <4>1. i \in 1..(n + 1)
          BY <2>1
        <4> HIDE DEF n, Fits
        <4> QED BY <3>2, <3>3, <4>1
      <3> HIDE DEF S
      <3>5. Avml!Halve(pa, i, m) = <<i, half>>
        BY <2>5, <2>6
      <3>6. Avml!Halve(pa, i, m) \in S /\ Avml!Halve(pa, i, m)[2] < m
        BY <3>4, <3>5, <2>3
      <3> QED BY <3>6 DEF i, m
    <2>7. CASE ~(pa < End(mid))
      <3> DEFINE r == (m - half) - 1
      <3>1. r \in Nat /\ r < m /\ r \in 0..n /\ mid + 1 \in 1..(n + 1) /\ (mid + 1) + r = i + m
        <4> HIDE DEF n, End
        <4> QED BY <2>2, <2>3, <2>4, <1>1
      <3>2. \A j \in 1..n : j < mid + 1 => End(j) <= pa
        <4> SUFFICES ASSUME NEW j \in 1..n, j < mid + 1 PROVE End(j) <= pa
          OBVIOUS
        <4>1. j <= mid /\ mid \in Int
          BY <2>4
        <4>2. End(j) <= End(mid) /\ End(j) \in Nat
          <5> HIDE DEF mid, End
          <5> QED BY <1>1, <1>2, <2>4, <4>1
        <4> HIDE DEF mid, End
        <4> QED BY <4>2, <2>4, <2>7
      <3>3. Fits(mid + 1, r)
        <4>1. \A j \in 1..n : j >= (mid + 1) + r => pa < End(j)
          <5> HIDE DEF End, mid, r
          <5> QED BY <2>1, <3>1
        <4>2. (mid + 1) + r <= n + 1
          <5> HIDE DEF End, mid, r, n
          <5> QED BY <2>2, <3>1
        <4> HIDE DEF End, mid, r, n
        <4> QED BY <3>1, <3>2, <4>1, <4>2
      <3>4. <<mid + 1, r>> \in S
        <4> HIDE DEF n, Fits, r, mid
        <4> QED BY <3>1, <3>3
      <3> HIDE DEF S
      <3>5. Avml!Halve(pa, i, m) = <<mid + 1, r>>
        <4> HIDE DEF mid
        <4> QED BY <2>5, <2>7 DEF r
      <3> HIDE DEF r, mid
      <3>6. Avml!Halve(pa, i, m) \in S /\ Avml!Halve(pa, i, m)[2] < m
        BY <3>1, <3>4, <3>5
      <3> QED BY <3>6 DEF i, m
    <2> QED BY <2>6, <2>7
  <1>4. <<1, n>> \in S
    <2>1. Fits(1, n)
      <3> HIDE DEF n, End
      <3> QED BY <1>1
    <2> HIDE DEF Fits, n
    <2> QED BY <1>1, <2>1
  <1>5. \A x \in S : body(x) \in S
    <2> HIDE DEF S
    <2> QED BY <1>3
  <1>6. step \in [1..n -> [S -> S]] /\ \A k \in 1..n, x \in S : step[k][x] = body(x)
    <2> HIDE DEF S, body, n
    <2> QED BY <1>5
  <1>7. Counting!Steps(step, <<1, n>>, n, S)
    <2> HIDE DEF S, step, n
    <2> QED BY <1>1, <1>4, <1>6 DEF Counting!Steps
  <1> HIDE DEF step
  <1>8. PICK w : Counting!Record(w, step, <<1, n>>, n, S)
    <2> HIDE DEF S, n
    <2> QED BY <1>7, Counting!Iteration
  <1>9. w \in [0..n -> S] /\ w[0] = <<1, n>> /\ \A k \in 1..n : w[k] = step[k][w[k - 1]]
    <2> HIDE DEF S
    <2> QED BY <1>8 DEF Counting!Record
  <1>10. \A k \in 1..n : w[k - 1] \in S /\ w[k] = body(w[k - 1])
    <2> SUFFICES ASSUME NEW k \in 1..n PROVE w[k - 1] \in S /\ w[k] = body(w[k - 1])
      OBVIOUS
    <2>1. k - 1 \in 0..n
      BY <1>1
    <2> HIDE DEF S, n, body
    <2> QED BY <2>1, <1>6, <1>9
  <1>11. Rec(w)
    <2>1. \A k \in 0..n : w[k] = IF k = 0 THEN <<1, n>>
                                 ELSE IF w[k-1][2] = 0 THEN w[k-1]
                                 ELSE Avml!Halve(pa, w[k-1][1], w[k-1][2])
      <3> SUFFICES ASSUME NEW k \in 0..n
                   PROVE  w[k] = IF k = 0 THEN <<1, n>>
                                 ELSE IF w[k-1][2] = 0 THEN w[k-1]
                                 ELSE Avml!Halve(pa, w[k-1][1], w[k-1][2])
        OBVIOUS
      <3>1. CASE k = 0
        <4> HIDE DEF S, n
        <4> QED BY <3>1, <1>9
      <3>2. CASE k # 0
        <4>1. k \in 1..n
          BY <3>2, <1>1
        <4> HIDE DEF S, n
        <4> QED BY <3>2, <4>1, <1>10
      <3> QED BY <3>1, <3>2
    <2> HIDE DEF S, n
    <2> QED BY <1>9, <2>1
  <1>12. Rec(search)
    <2> HIDE DEF Rec
    <2> QED BY <1>11
  <1>13. \A k \in 0..n : search[k] = IF k = 0 THEN <<1, n>>
                                     ELSE IF search[k-1][2] = 0 THEN search[k-1]
                                     ELSE Avml!Halve(pa, search[k-1][1], search[k-1][2])
    <2> HIDE DEF search
    <2> QED BY <1>12
  <1>14. Avml!UpperBound(pa) = search[n][1]
    BY DEF Avml!UpperBound
  <1> HIDE DEF search
  <1>15. search[0] = <<1, n>> /\ \A k \in 1..n : search[k] = body(search[k - 1])
    <2>1. \A k \in 1..n : k \in 0..n /\ k # 0
      BY <1>1
    <2>2. 0 \in 0..n
      BY <1>1
    <2> HIDE DEF n
    <2> QED BY <1>13, <2>1, <2>2
  <1>16. \A k \in 0..n : search[k] \in S /\ search[k][2] <= n - k
    <2> DEFINE Good == {k \in 0..n : search[k] \in S /\ search[k][2] <= n - k}
    <2>1. 0 \in Good
      <3>1. 0 \in 0..n /\ search[0][2] = n /\ n <= n - 0
        <4>1. search[0][2] = n
          BY <1>15
        <4> HIDE DEF n
        <4> QED BY <4>1, <1>1
      <3>2. search[0] \in S
        <4> HIDE DEF S, n
        <4> QED BY <1>4, <1>15
      <3> HIDE DEF S, n
      <3> QED BY <3>1, <3>2
    <2>2. ASSUME NEW k \in 0..(n - 1), k \in Good PROVE k + 1 \in Good
      <3>1. k + 1 \in 1..n /\ (k + 1) - 1 = k /\ k + 1 \in 0..n /\ k \in Nat
        BY <1>1
      <3>2. search[k + 1] = body(search[k])
        <4> HIDE DEF body, n
        <4> QED BY <1>15, <3>1
      <3>3. search[k] \in S /\ search[k][2] <= n - k
        BY <2>2
      <3>4. search[k][2] \in Nat
        <4>1. \A x \in S : x[2] \in Nat
          OBVIOUS
        <4> HIDE DEF S
        <4> QED BY <3>3, <4>1
      <3>5. CASE search[k][2] = 0
        <4>1. search[k + 1] = search[k] /\ 0 <= n - (k + 1)
          <5>1. search[k + 1] = search[k]
            BY <3>2, <3>5
          <5> HIDE DEF n
          <5> QED BY <5>1, <3>1, <1>1
        <4> HIDE DEF S, n
        <4> QED BY <4>1, <3>1, <3>3, <3>5
      <3>6. CASE search[k][2] # 0
        <4>1. search[k + 1] = Avml!Halve(pa, search[k][1], search[k][2])
          BY <3>2, <3>6
        <4>2. search[k + 1] \in S /\ search[k + 1][2] < search[k][2]
          <5> HIDE DEF S
          <5> QED BY <1>3, <3>3, <3>6, <4>1
        <4>3. search[k + 1][2] \in Nat
          <5>1. \A x \in S : x[2] \in Nat
            OBVIOUS
          <5> HIDE DEF S
          <5> QED BY <4>2, <5>1
        <4>4. search[k + 1][2] <= n - (k + 1)
          <5> HIDE DEF n, S
          <5> QED BY <3>1, <3>3, <3>4, <4>2, <4>3, <1>1
        <4> HIDE DEF S, n
        <4> QED BY <3>1, <4>2, <4>4
      <3> QED BY <3>5, <3>6
    <2>3. \A k \in 0..n : k \in Good
      <3> HIDE DEF Good, n
      <3> QED BY <1>1, <2>1, <2>2, Counting!CountingUp
    <2> HIDE DEF S, n
    <2> QED BY <2>3
  <1>17. search[n] \in S /\ search[n][2] = 0
    <2>1. n \in 0..n /\ n - n = 0
      BY <1>1
    <2>2. \A x \in S : x[2] \in Nat
      OBVIOUS
    <2>3. search[n] \in S /\ search[n][2] <= 0
      <3> HIDE DEF S, n
      <3> QED BY <2>1, <1>16
    <2>4. search[n][2] \in Nat
      <3> HIDE DEF S, n
      <3> QED BY <2>2, <2>3
    <2> HIDE DEF S, n
    <2> QED BY <2>3, <2>4
  <1> DEFINE u == search[n][1]
  <1>18. Fits(u, 0)
    <2>1. \A x \in S : Fits(x[1], x[2])
      OBVIOUS
    <2> HIDE DEF S, Fits
    <2> QED BY <2>1, <1>17
  <1>19. u \in 1..(n + 1) /\ \A j \in 1..n : End(j) <= pa <=> j < u
    <2>1. u \in 1..(n + 1) /\ u \in Int /\ u + 0 = u
      <3> HIDE DEF n, End, u
      <3> QED BY <1>18, <1>1
    <2> HIDE DEF u
    <2>2. ASSUME NEW j \in 1..n PROVE End(j) <= pa <=> j < u
      <3>1. (j < u => End(j) <= pa) /\ (j >= u => pa < End(j))
        <4> HIDE DEF End, n
        <4> QED BY <1>18, <2>1
      <3>2. End(j) \in Nat /\ j \in Int
        BY <1>1
      <3> HIDE DEF End, n
      <3> QED BY <3>1, <3>2, <2>1
    <2> QED BY <2>1, <2>2
  <1> HIDE DEF S
  <1> QED BY <1>14, <1>19

-----------------------------------------------------------------------------
(* AVML: the loop of load_chunks().                                        *)

\* The loader is in the chunk whose header is token c.
InChunk(c) ==
    /\ pos <= Len(file) + 1
    /\ c \in 1..(pos - 1) /\ c <= Len(file)
    /\ file[c].t = "chunk"
    /\ \A k \in (c + 1)..(pos - 1) : file[k].t # "chunk"
    /\ chunk = [start |-> file[c].start, expected |-> file[c].end - file[c].start]
    /\ done = Avml!Before(pos)

\* The frames are those of the tokens before pos.
AvmlLoaded ==
    /\ file \in AvmlFiles /\ AvmlAscends
    /\ pos \in Nat \ {0}
    /\ frames \in Seq(Segments) /\ Ascending(frames)
    /\ \A k \in 1..Len(frames) : \E i \in AvmlHeld : i < pos /\ frames[k] = AvmlFrame(i)
    /\ \A i \in AvmlHeld : i < pos => \E k \in 1..Len(frames) : frames[k] = AvmlFrame(i)
    /\ frames # <<>> => \E i \in AvmlHeld : /\ frames[Len(frames)] = AvmlFrame(i)
                                           /\ \A j \in AvmlHeld : j < pos => j <= i
    /\ chunk = Avml!Between \/ \E c \in Nat : InChunk(c)

\* The loop of read() is at frame idx; those below it that reach into the
\* window are copied.
AvmlReads ==
    /\ req \in [pa : Nat, len : Nat]
    /\ idx \in 1..(Len(frames) + 1)
    /\ \A j \in idx..Len(frames) : frames[j].pa + frames[j].len > req.pa
    /\ Partial(Items(frames), Seen(frames, idx), req.pa, req.len, dst, total)

\* The same of AVML.
AvmlIInv ==
    /\ status # "failed" => AvmlLoaded
    /\ status = "open" => pos > Len(file) /\ frames # <<>>
    /\ req = Layer!NoReq \/ (status = "open" /\ AvmlReads)

\* A step of AVML leaves the dump as it is.
LEMMA AvmlSame ==
    ASSUME IsAvml, file' = file
    PROVE  /\ Captured' = Captured /\ Declared' = Declared /\ format = "avml" /\ format' = "avml"
           /\ AvmlHeld' = AvmlHeld /\ AvmlAscends' = AvmlAscends
           /\ \A i : AvmlFrame(i)' = AvmlFrame(i)
           /\ \A i : Avml!Before(i)' = Avml!Before(i)
  <1>1. format = "avml" /\ format' = "avml"
    BY DEF IsAvml
  <1>2. (Avml!Captured)' = Avml!Captured
    BY DEF Avml!Captured, Avml!ChunkOf, Avml!HasChunk, Avml!Before, Avml!Expected
  <1>3. AvmlHeld' = AvmlHeld
    BY DEF AvmlHeld, Avml!ChunkOf, Avml!HasChunk, Avml!Before, Avml!Expected
  <1>4. AvmlAscends' = AvmlAscends
    BY DEF AvmlAscends, AvmlFrame, AvmlHeld, Avml!ChunkOf, Avml!HasChunk, Avml!Before, Avml!Expected
  <1>5. \A i : AvmlFrame(i)' = AvmlFrame(i)
    BY DEF AvmlFrame, Avml!ChunkOf, Avml!Before
  <1>6. \A i : Avml!Before(i)' = Avml!Before(i)
    BY DEF Avml!Before
  <1> QED BY <1>1, <1>2, <1>3, <1>4, <1>5, <1>6 DEF Captured, Declared

\* The contract's view of an AVML dump.
LEMMA AvmlView ==
    ASSUME format = "avml"
    PROVE  Captured = {AvmlFrame(i) : i \in AvmlHeld} /\ Declared = Captured
  <1>1. Avml!Captured = {AvmlFrame(i) : i \in AvmlHeld}
    BY DEF Avml!Captured, AvmlFrame, AvmlHeld
  <1> QED BY <1>1 DEF Captured, Declared

\* At the end of the file, the frames are all it holds.
LEMMA AvmlCaptures ==
    ASSUME AvmlLoaded, pos > Len(file)
    PROVE  {AvmlFrame(i) : i \in AvmlHeld} = Items(frames)
  <1>1. \A i \in AvmlHeld : i < pos
    <2>1. \A i \in AvmlHeld : i \in 1..Len(file)
      BY DEF AvmlHeld
    <2>2. Len(file) \in Nat /\ pos \in Nat
      <3>1. file \in Seq(AvmlTokens)
        BY FileAssumption DEF AvmlLoaded
      <3> QED BY <3>1 DEF AvmlLoaded
    <2> QED BY <2>1, <2>2
  <1>2. \A i \in AvmlHeld : AvmlFrame(i) \in Items(frames)
    BY <1>1 DEF AvmlLoaded, Items
  <1>3. \A k \in 1..Len(frames) : frames[k] \in {AvmlFrame(i) : i \in AvmlHeld}
    BY DEF AvmlLoaded
  <1> QED BY <1>2, <1>3 DEF Items

\* A dump whose frames ascend starts with none of them loaded.
LEMMA AvmlInit ==
    ASSUME format = "avml", Avml!Init, AvmlAscends
    PROVE  AvmlIInv /\ Layer!Init
  <1>1. /\ file \in AvmlFiles /\ pos = 1 /\ chunk = Avml!Between /\ frames = <<>>
        /\ status = "opening" /\ req = Layer!NoReq
    BY DEF Avml!Init, Avml!NoReq, Layer!NoReq
  <1>2. frames \in Seq(Segments) /\ Len(frames) = 0 /\ 1..Len(frames) = {}
    BY <1>1
  <1>3. \A i \in AvmlHeld : ~(i < pos)
    <2>1. \A i \in AvmlHeld : i \in Int /\ i >= 1
      BY DEF AvmlHeld
    <2> QED BY <1>1, <2>1
  <1>4. AvmlLoaded
    BY <1>1, <1>2, <1>3 DEF AvmlLoaded, Ascending
  <1>5. Layer!Init
    BY DEF Avml!Init, Layer!Init, Avml!NoReq, Layer!NoReq, Avml!NoReply, Layer!NoReply
  <1> QED BY <1>1, <1>4, <1>5 DEF AvmlIInv

\* A refused file breaks no promise.
LEMMA AvmlFailStep ==
    ASSUME AvmlIInv, IsAvml, status = "opening", Avml!Fail
    PROVE  AvmlIInv' /\ [Layer!Next]_(Layer!layer)
  <1>1. status' = "failed" /\ UNCHANGED <<file, pos, chunk, done, frames, max, req, idx, dst, total, reply>>
    BY DEF Avml!Fail, Avml!loading, Avml!reading
  <1>2. Captured' = Captured /\ Declared' = Declared
    BY <1>1, AvmlSame
  <1>3. Layer!Refuse
    BY <1>1, <1>2 DEF Layer!Refuse
  <1>4. req = Layer!NoReq
    BY DEF AvmlIInv
  <1>5. AvmlIInv'
    BY <1>1, <1>4 DEF AvmlIInv
  <1> QED BY <1>3, <1>5 DEF Layer!Next

\* The loader may pass tokens that hold no data of a chunk.
LEMMA AvmlMovesOn ==
    ASSUME AvmlIInv, IsAvml, status = "opening",
           UNCHANGED <<file, status, frames, max, req, idx, dst, total, reply>>,
           pos' \in Nat \ {0}, pos <= pos', \A i \in AvmlHeld : i < pos' => i < pos,
           chunk' = Avml!Between \/ \E c \in Nat : InChunk(c)'
    PROVE  AvmlIInv' /\ [Layer!Next]_(Layer!layer)
  <1>1. /\ Captured' = Captured /\ Declared' = Declared
        /\ AvmlHeld' = AvmlHeld /\ AvmlAscends' = AvmlAscends /\ \A i : AvmlFrame(i)' = AvmlFrame(i)
    BY AvmlSame
  <1>2. UNCHANGED Layer!layer
    BY <1>1 DEF Layer!layer
  <1>3. AvmlLoaded /\ req = Layer!NoReq
    BY DEF AvmlIInv
  <1>4. frames' \in Seq(Segments) /\ Ascending(frames') /\ file' \in AvmlFiles /\ AvmlAscends'
    BY <1>1, <1>3 DEF AvmlLoaded
  <1>5. ASSUME NEW k \in 1..Len(frames') PROVE \E i \in AvmlHeld' : i < pos' /\ frames'[k] = AvmlFrame(i)'
    <2>1. PICK i \in AvmlHeld : i < pos /\ frames[k] = AvmlFrame(i)
      BY <1>3 DEF AvmlLoaded
    <2>2. i \in Int /\ pos \in Int
      BY <1>3 DEF AvmlLoaded, AvmlHeld
    <2>3. i < pos'
      BY <2>1, <2>2
    <2> QED BY <2>1, <2>3, <1>1
  <1>6. ASSUME NEW i \in AvmlHeld', i < pos' PROVE \E k \in 1..Len(frames') : frames'[k] = AvmlFrame(i)'
    <2>1. i \in AvmlHeld /\ i < pos
      BY <1>1, <1>6
    <2>2. PICK k \in 1..Len(frames) : frames[k] = AvmlFrame(i)
      BY <2>1, <1>3 DEF AvmlLoaded
    <2> QED BY <2>2, <1>1
  <1>7. frames' # <<>> => \E i \in AvmlHeld' : /\ frames'[Len(frames')] = AvmlFrame(i)'
                                              /\ \A j \in AvmlHeld' : j < pos' => j <= i
    <2> SUFFICES ASSUME frames # <<>>
                 PROVE  \E i \in AvmlHeld : /\ frames[Len(frames)] = AvmlFrame(i)
                                            /\ \A j \in AvmlHeld : j < pos' => j <= i
      BY <1>1
    <2>1. PICK i \in AvmlHeld : /\ frames[Len(frames)] = AvmlFrame(i)
                               /\ \A j \in AvmlHeld : j < pos => j <= i
      BY <1>3 DEF AvmlLoaded
    <2> QED BY <2>1
  <1>8. AvmlLoaded'
    BY <1>4, <1>5, <1>6, <1>7 DEF AvmlLoaded
  <1>9. AvmlIInv'
    BY <1>3, <1>8 DEF AvmlIInv
  <1> QED BY <1>2, <1>9

\* What a step of the loader rests on.
LEMMA AvmlLoadFacts ==
    ASSUME AvmlIInv, status = "opening"
    PROVE  /\ AvmlLoaded /\ req = Layer!NoReq
           /\ file \in Seq(AvmlTokens) /\ Len(file) \in Nat /\ pos \in Nat /\ pos > 0
           /\ chunk # Avml!Between => \E c \in Nat : InChunk(c)
  <1>1. AvmlLoaded /\ req = Layer!NoReq
    BY DEF AvmlIInv
  <1>2. file \in Seq(AvmlTokens) /\ pos \in Nat \ {0}
    BY <1>1, FileAssumption DEF AvmlLoaded
  <1>3. Len(file) \in Nat
    BY <1>2
  <1> QED BY <1>1, <1>2, <1>3 DEF AvmlLoaded

\* A header starts the count at zero.
LEMMA AvmlHeaderStep ==
    ASSUME AvmlIInv, IsAvml, Avml!LoadHeader
    PROVE  AvmlIInv' /\ [Layer!Next]_(Layer!layer)
  <1>1. /\ status = "opening" /\ pos <= Len(file) /\ file[pos].t = "chunk"
        /\ chunk' = [start |-> file[pos].start, expected |-> file[pos].end - file[pos].start]
        /\ done' = 0 /\ pos' = pos + 1
        /\ UNCHANGED <<file, status, frames, max, req, idx, dst, total, reply>>
    BY DEF Avml!LoadHeader, Avml!Token, Avml!reading
  <1>2. AvmlLoaded /\ file \in Seq(AvmlTokens) /\ Len(file) \in Nat /\ pos \in Nat /\ pos > 0
    BY <1>1, AvmlLoadFacts
  <1>3. pos \in 1..Len(file) /\ pos' \in Nat \ {0} /\ pos <= pos'
    BY <1>1, <1>2
  <1>4. \A i \in AvmlHeld : i < pos' => i < pos
    <2> SUFFICES ASSUME NEW i \in AvmlHeld, i < pos' PROVE i < pos
      OBVIOUS
    <2>1. i \in Int /\ file[i].t = "data"
      BY DEF AvmlHeld
    <2>2. i # pos
      BY <2>1, <1>1
    <2> QED BY <2>1, <2>2, <1>1, <1>2
  <1>5. done' = Avml!Before(pos + 1)
    BY <1>1, <1>2, <1>3, BeforeFacts
  <1>6. done' = Avml!Before(pos)'
    BY <1>1, <1>5 DEF Avml!Before
  <1>7. PICK c \in Nat : c = pos
    BY <1>2
  <1>8. InChunk(c)'
    <2>1. /\ pos' <= Len(file') + 1 /\ c \in 1..(pos' - 1) /\ c <= Len(file')
          /\ (c + 1)..(pos' - 1) = {}
      BY <1>1, <1>2, <1>7
    <2>2. file'[c].t = "chunk" /\ chunk' = [start |-> file'[c].start, expected |-> file'[c].end - file'[c].start]
      BY <1>1, <1>7
    <2> QED BY <1>6, <2>1, <2>2 DEF InChunk
  <1> QED BY <1>1, <1>3, <1>4, <1>8, AvmlMovesOn

\* What a step inside a chunk rests on.
LEMMA AvmlChunkFacts ==
    ASSUME AvmlIInv, Avml!InFrames
    PROVE  /\ status = "opening" /\ AvmlLoaded
           /\ file \in Seq(AvmlTokens) /\ Len(file) \in Nat
           /\ \E c \in Nat :
                 /\ InChunk(c) /\ c < pos /\ c \in 1..Len(file) /\ pos \in 1..(Len(file) + 1)
                 /\ file[c].start \in Nat /\ chunk.start = file[c].start
                 /\ chunk.expected = file[c].end - file[c].start
                 /\ done = Avml!Before(pos) /\ done \in Nat
                 /\ \A i \in pos..Len(file) :
                       (\A k \in pos..i : file[k].t # "chunk") => Avml!HasChunk(i) /\ Avml!ChunkOf(i) = c
  <1>1. /\ status = "opening" /\ AvmlLoaded /\ file \in Seq(AvmlTokens) /\ Len(file) \in Nat
        /\ pos \in Nat /\ pos > 0
    BY AvmlLoadFacts DEF Avml!InFrames
  <1>2. PICK c \in Nat : InChunk(c)
    BY <1>1, AvmlLoadFacts DEF Avml!InFrames
  <1>3. c < pos /\ c \in 1..Len(file) /\ pos \in 1..(Len(file) + 1)
    BY <1>1, <1>2 DEF InChunk
  <1>4. file[c].start \in Nat
    BY <1>1, <1>2, <1>3, TokenFacts DEF InChunk
  <1>5. done = Avml!Before(pos) /\ done \in Nat
    BY <1>1, <1>2, <1>3, BeforeFacts DEF InChunk
  <1>6. ASSUME NEW i \in pos..Len(file), \A k \in pos..i : file[k].t # "chunk"
        PROVE  Avml!HasChunk(i) /\ Avml!ChunkOf(i) = c
    <2>1. i \in Nat /\ c \in 1..i
      BY <1>1, <1>3
    <2>2. \A k \in (c + 1)..i : file[k].t # "chunk"
      <3> SUFFICES ASSUME NEW k \in (c + 1)..i PROVE file[k].t # "chunk"
        OBVIOUS
      <3>1. k \in (c + 1)..(pos - 1) \/ k \in pos..i
        BY <1>1, <1>3
      <3> QED BY <3>1, <1>2, <1>6 DEF InChunk
    <2>3. file[c].t = "chunk"
      BY <1>2 DEF InChunk
    <2> QED BY <2>1, <2>2, <2>3, ChunkOfFacts
  <1>7. chunk.start = file[c].start /\ chunk.expected = file[c].end - file[c].start
    BY <1>2 DEF InChunk
  <1> QED BY <1>1, <1>2, <1>3, <1>4, <1>5, <1>6, <1>7

\* The chunk of the loader stays the same over a token that is no header.
LEMMA InChunkMoves ==
    ASSUME NEW c \in Nat, InChunk(c), pos \in 1..Len(file), Len(file) \in Nat, file[pos].t # "chunk",
           file' = file, chunk' = chunk, pos' = pos + 1, done' = Avml!Before(pos + 1)
    PROVE  InChunk(c)'
  <1>1. /\ pos' <= Len(file') + 1 /\ c \in 1..(pos' - 1) /\ c <= Len(file')
    BY DEF InChunk
  <1>2. \A k \in (c + 1)..(pos' - 1) : file'[k].t # "chunk"
    <2> SUFFICES ASSUME NEW k \in (c + 1)..pos PROVE file[k].t # "chunk"
      OBVIOUS
    <2>1. k = pos \/ k \in (c + 1)..(pos - 1)
      OBVIOUS
    <2> QED BY <2>1 DEF InChunk
  <1>3. done' = Avml!Before(pos)'
    BY DEF Avml!Before
  <1>4. file'[c].t = "chunk" /\ chunk' = [start |-> file'[c].start, expected |-> file'[c].end - file'[c].start]
    BY DEF InChunk
  <1> QED BY <1>1, <1>2, <1>3, <1>4 DEF InChunk

\* A frame without data counts nothing.
LEMMA AvmlPassStep ==
    ASSUME AvmlIInv, IsAvml, Avml!PassFrame
    PROVE  AvmlIInv' /\ [Layer!Next]_(Layer!layer)
  <1>1. /\ Avml!InFrames /\ pos <= Len(file) /\ file[pos].t = "pass" /\ pos' = pos + 1
        /\ UNCHANGED <<file, status, chunk, done, frames, max, req, idx, dst, total, reply>>
    BY DEF Avml!PassFrame, Avml!WantFrame, Avml!Token, Avml!reading
  <1>2. /\ status = "opening" /\ AvmlLoaded /\ file \in Seq(AvmlTokens) /\ Len(file) \in Nat
    BY <1>1, AvmlChunkFacts
  <1>3. PICK c \in Nat : /\ InChunk(c) /\ pos \in 1..(Len(file) + 1)
                         /\ done = Avml!Before(pos) /\ done \in Nat
    BY <1>1, AvmlChunkFacts
  <1>4. pos \in 1..Len(file) /\ pos' \in Nat \ {0} /\ pos <= pos'
    BY <1>1, <1>2, <1>3
  <1>5. \A i \in AvmlHeld : i < pos' => i < pos
    <2> SUFFICES ASSUME NEW i \in AvmlHeld, i < pos' PROVE i < pos
      OBVIOUS
    <2>1. i \in Int /\ file[i].t = "data"
      BY DEF AvmlHeld
    <2>2. i # pos
      BY <2>1, <1>1
    <2> QED BY <2>1, <2>2, <1>1, <1>4
  <1>6. done' = Avml!Before(pos + 1)
    <2>1. Avml!Before(pos + 1) = Avml!Before(pos) + AvmlAdds(pos) /\ AvmlAdds(pos) = 0
      BY <1>1, <1>2, <1>4, BeforeFacts DEF AvmlAdds
    <2> QED BY <2>1, <1>1, <1>3
  <1>7. InChunk(c)'
    BY <1>1, <1>2, <1>3, <1>4, <1>6, InChunkMoves
  <1> QED BY <1>1, <1>2, <1>4, <1>5, <1>7, AvmlMovesOn

\* A chunk that ends early holds no more frames, whatever follows.
LEMMA AvmlEndStep ==
    ASSUME AvmlIInv, IsAvml, Avml!EndChunk
    PROVE  AvmlIInv' /\ [Layer!Next]_(Layer!layer)
  <1>1. /\ Avml!InFrames /\ chunk' = Avml!Between
        /\ done >= chunk.expected \/ pos > Len(file)
        /\ UNCHANGED <<file, done, frames, max, req, idx, dst, total, reply>>
    BY DEF Avml!EndChunk, Avml!reading
  <1>2. /\ status = "opening" /\ AvmlLoaded /\ file \in Seq(AvmlTokens) /\ Len(file) \in Nat
    BY <1>1, AvmlChunkFacts
  <1>3. PICK c \in Nat :
           /\ InChunk(c) /\ pos \in 1..(Len(file) + 1) /\ c \in 1..Len(file)
           /\ chunk.expected = file[c].end - file[c].start
           /\ done = Avml!Before(pos) /\ done \in Nat
           /\ \A i \in pos..Len(file) :
                 (\A k \in pos..i : file[k].t # "chunk") => Avml!HasChunk(i) /\ Avml!ChunkOf(i) = c
    BY <1>1, AvmlChunkFacts
  <1>4. CASE pos <= Len(file) => file[pos].t = "trailer"
    <2>1. pos' = pos + 1 /\ status' = status
      BY <1>4 DEF Avml!EndChunk, Avml!Token
    <2>2. \A i \in AvmlHeld : i < pos' => i < pos
      <3> SUFFICES ASSUME NEW i \in AvmlHeld, i < pos' PROVE i < pos
        OBVIOUS
      <3>1. i \in 1..Len(file) /\ file[i].t = "data"
        BY DEF AvmlHeld
      <3>2. i # pos
        BY <3>1, <1>2, <1>4
      <3> QED BY <3>1, <3>2, <2>1, <1>2, <1>3
    <2>3. pos' \in Nat \ {0} /\ pos <= pos'
      BY <2>1, <1>3
    <2> QED BY <1>1, <1>2, <2>1, <2>2, <2>3, AvmlMovesOn
  <1>5. CASE ~(pos <= Len(file) => file[pos].t = "trailer")
    <2>1. /\ pos' = Len(file) + 1 /\ pos <= Len(file)
          /\ status' \in IF \E k \in pos..Len(file) : file[k].t = "chunk"
                         THEN {"failed"} ELSE {"opening", "failed"}
      BY <1>5 DEF Avml!EndChunk, Avml!Token
    <2>2. CASE status' = "failed"
      <3>1. Captured' = Captured /\ Declared' = Declared
        BY <1>1, AvmlSame
      <3>2. Layer!Refuse
        BY <1>1, <1>2, <2>2, <3>1 DEF Layer!Refuse
      <3>3. req = Layer!NoReq
        BY <1>2 DEF AvmlIInv
      <3>4. AvmlIInv'
        BY <1>1, <2>2, <3>3 DEF AvmlIInv
      <3> QED BY <3>2, <3>4 DEF Layer!Next
    <2>3. CASE status' = "opening"
      <3>1. \A k \in pos..Len(file) : file[k].t # "chunk"
        BY <2>1, <2>3
      <3>2. done >= chunk.expected
        BY <1>1, <1>2, <1>3, <2>1
      <3>3. \A i \in AvmlHeld : i < pos' => i < pos
        <4> SUFFICES ASSUME NEW i \in AvmlHeld, ~(i < pos) PROVE FALSE
          OBVIOUS
        <4>1. i \in 1..Len(file) /\ Avml!Before(i) < Avml!Expected(i)
          BY DEF AvmlHeld
        <4>2. i \in pos..Len(file) /\ pos \in 1..Len(file)
          BY <4>1, <1>2, <1>3, <2>1
        <4>3. \A k \in pos..i : file[k].t # "chunk"
          BY <4>2, <3>1, <1>2
        <4>4. Avml!ChunkOf(i) = c
          BY <4>2, <4>3, <1>3
        <4>5. Avml!Before(pos) <= Avml!Before(i)
          BY <4>2, <4>3, <1>2, BeforeGrows
        <4>6. Avml!Expected(i) = chunk.expected
          BY <4>4, <1>3 DEF Avml!Expected
        <4>7. Avml!Before(i) \in Nat /\ i \in 1..(Len(file) + 1)
          <5>1. i \in 1..(Len(file) + 1)
            BY <4>1, <1>2
          <5> QED BY <5>1, <1>2, BeforeFacts
        <4>8. chunk.expected \in Int
          <5>1. file[c].t = "chunk"
            BY <1>3 DEF InChunk
          <5> QED BY <5>1, <1>2, <1>3, TokenFacts
        <4> QED BY <4>1, <4>5, <4>6, <4>7, <4>8, <3>2, <1>3
      <3>4. pos' \in Nat \ {0} /\ pos <= pos'
        BY <1>2, <1>3, <2>1
      <3> QED BY <1>1, <1>2, <2>3, <3>3, <3>4, AvmlMovesOn
    <2> QED BY <2>1, <2>2, <2>3
  <1> QED BY <1>4, <1>5

\* A data frame goes on top of the others.
LEMMA AvmlFrameStep ==
    ASSUME AvmlIInv, IsAvml, Avml!LoadFrame
    PROVE  AvmlIInv' /\ [Layer!Next]_(Layer!layer)
  <1> DEFINE m == Len(frames)
             f == [pa |-> chunk.start + done, len |-> file[pos].dec, off |-> Stride * pos]
  <1>1. /\ Avml!InFrames /\ done < chunk.expected /\ pos <= Len(file) /\ file[pos].t = "data"
        /\ frames' = Append(frames, f) /\ done' = done + file[pos].dec /\ pos' = pos + 1
        /\ UNCHANGED <<file, status, chunk, max, req, idx, dst, total, reply>>
    BY DEF Avml!LoadFrame, Avml!WantFrame, Avml!Token, Avml!reading
  <1>2. /\ status = "opening" /\ AvmlLoaded /\ file \in Seq(AvmlTokens) /\ Len(file) \in Nat
    BY <1>1, AvmlChunkFacts
  <1>3. PICK c \in Nat :
           /\ InChunk(c) /\ pos \in 1..(Len(file) + 1)
           /\ file[c].start \in Nat /\ chunk.start = file[c].start
           /\ chunk.expected = file[c].end - file[c].start
           /\ done = Avml!Before(pos) /\ done \in Nat
           /\ \A i \in pos..Len(file) :
                 (\A k \in pos..i : file[k].t # "chunk") => Avml!HasChunk(i) /\ Avml!ChunkOf(i) = c
    BY <1>1, AvmlChunkFacts
  <1>4. pos \in 1..Len(file) /\ pos \in pos..Len(file) /\ pos \in Nat /\ pos..pos = {pos}
    BY <1>1, <1>2, <1>3
  <1>5. Avml!HasChunk(pos) /\ Avml!ChunkOf(pos) = c
    <2>1. \A k \in pos..pos : file[k].t # "chunk"
      BY <1>1, <1>4
    <2> QED BY <2>1, <1>3, <1>4
  <1>6. pos \in AvmlHeld /\ f = AvmlFrame(pos)
    <2>1. Avml!Before(pos) < Avml!Expected(pos)
      BY <1>1, <1>3, <1>5 DEF Avml!Expected
    <2>2. pos \in AvmlHeld
      BY <2>1, <1>1, <1>4, <1>5 DEF AvmlHeld
    <2>3. f = AvmlFrame(pos)
      BY <1>3, <1>5 DEF AvmlFrame
    <2> QED BY <2>2, <2>3
  <1>7. f \in Segments
    <2>1. file[pos].dec \in Nat
      BY <1>1, <1>2, <1>4, TokenFacts
    <2>2. chunk.start + done \in Nat
      BY <1>3
    <2>3. Stride * pos \in Nat
      <3>1. Stride \in Nat
        BY FormatAssumption
      <3> QED BY <3>1, <1>4
    <2> QED BY <2>1, <2>2, <2>3 DEF Segments
  <1>8. frames \in Seq(Segments) /\ Ascending(frames) /\ m \in Nat
    <2>1. frames \in Seq(Segments) /\ Ascending(frames)
      BY <1>2 DEF AvmlLoaded
    <2> QED BY <2>1
  <1> HIDE DEF f
  <1>9. /\ frames' \in Seq(Segments) /\ Len(frames') = m + 1
        /\ frames'[m + 1] = f /\ \A i \in 1..m : frames'[i] = frames[i]
    BY <1>1, <1>7, <1>8
  <1>10. \A k \in 1..m : \E i \in AvmlHeld : i < pos /\ frames[k] = AvmlFrame(i)
    BY <1>2 DEF AvmlLoaded
  <1>11. Ascending(frames')
    <2> SUFFICES ASSUME NEW i \in 1..(m + 1), NEW j \in 1..(m + 1), i < j
                 PROVE  frames'[i].pa + frames'[i].len <= frames'[j].pa
      BY <1>9 DEF Ascending
    <2>1. i \in 1..m
      BY <1>8
    <2>2. CASE j \in 1..m
      BY <2>1, <2>2, <1>8, <1>9 DEF Ascending
    <2>3. CASE j = m + 1
      <3>1. PICK h \in AvmlHeld : h < pos /\ frames[i] = AvmlFrame(h)
        BY <2>1, <1>10
      <3>2. AvmlFrame(h).pa + AvmlFrame(h).len <= AvmlFrame(pos).pa
        BY <3>1, <1>2, <1>6 DEF AvmlLoaded, AvmlAscends
      <3> QED BY <2>1, <2>3, <3>1, <3>2, <1>6, <1>9
    <2> QED BY <1>8, <2>2, <2>3
  <1>12. /\ Captured' = Captured /\ Declared' = Declared
         /\ AvmlHeld' = AvmlHeld /\ AvmlAscends' = AvmlAscends /\ \A i : AvmlFrame(i)' = AvmlFrame(i)
    BY <1>1, AvmlSame
  <1>13. ASSUME NEW k \in 1..Len(frames') PROVE \E i \in AvmlHeld' : i < pos' /\ frames'[k] = AvmlFrame(i)'
    <2>1. CASE k = m + 1
      <3>1. PICK i \in AvmlHeld : i = pos
        BY <1>6
      <3>2. i < pos' /\ frames'[k] = AvmlFrame(i)
        BY <2>1, <3>1, <1>1, <1>4, <1>6, <1>9
      <3> QED BY <3>1, <3>2, <1>12
    <2>2. CASE k \in 1..m
      <3>1. PICK i \in AvmlHeld : i < pos /\ frames[k] = AvmlFrame(i)
        BY <2>2, <1>10
      <3>2. i < pos'
        <4>1. i \in Int
          BY DEF AvmlHeld
        <4> QED BY <3>1, <4>1, <1>1, <1>4
      <3> QED BY <2>2, <3>1, <3>2, <1>9, <1>12
    <2> QED BY <2>1, <2>2, <1>8, <1>9
  <1>14. ASSUME NEW i \in AvmlHeld', i < pos' PROVE \E k \in 1..Len(frames') : frames'[k] = AvmlFrame(i)'
    <2>1. i \in AvmlHeld /\ i \in Int
      BY <1>12 DEF AvmlHeld
    <2>2. CASE i = pos
      <3>1. m + 1 \in 1..Len(frames')
        BY <1>8, <1>9
      <3>2. frames'[m + 1] = AvmlFrame(i)
        BY <2>2, <1>6, <1>9
      <3> QED BY <3>1, <3>2, <1>12
    <2>3. CASE i < pos
      <3>1. PICK k \in 1..m : frames[k] = AvmlFrame(i)
        BY <2>1, <2>3, <1>2 DEF AvmlLoaded
      <3>2. k \in 1..Len(frames')
        BY <1>8, <1>9
      <3> QED BY <3>1, <3>2, <1>9, <1>12
    <2> QED BY <2>1, <2>2, <2>3, <1>1, <1>4, <1>14
  <1>15. \E d \in Nat : InChunk(d)'
    <2>1. done' = Avml!Before(pos + 1)
      <3>1. Avml!Before(pos + 1) = Avml!Before(pos) + AvmlAdds(pos) /\ AvmlAdds(pos) = file[pos].dec
        BY <1>1, <1>2, <1>4, BeforeFacts DEF AvmlAdds
      <3> QED BY <3>1, <1>1, <1>3
    <2>2. file[pos].t # "chunk"
      BY <1>1
    <2>3. InChunk(c)'
      BY <1>1, <1>2, <1>3, <1>4, <2>1, <2>2, InChunkMoves
    <2> QED BY <2>3
  <1>16. pos' \in Nat \ {0} /\ file' \in AvmlFiles /\ AvmlAscends'
    BY <1>1, <1>2, <1>4, <1>12 DEF AvmlLoaded
  <1>17. AvmlLoaded'
    <2>1. PICK i \in AvmlHeld : i = pos
      BY <1>6
    <2>2. frames'[Len(frames')] = AvmlFrame(i)
      BY <2>1, <1>6, <1>9
    <2>3. \A j \in AvmlHeld : j < pos' => j <= i
      <3>1. \A j \in AvmlHeld : j \in Int
        BY DEF AvmlHeld
      <3> QED BY <2>1, <3>1, <1>1, <1>4
    <2>4. frames' # <<>> => \E h \in AvmlHeld' : /\ frames'[Len(frames')] = AvmlFrame(h)'
                                                /\ \A j \in AvmlHeld' : j < pos' => j <= h
      BY <2>2, <2>3, <1>12
    <2> QED BY <2>4, <1>9, <1>11, <1>13, <1>14, <1>15, <1>16 DEF AvmlLoaded
  <1>18. AvmlIInv'
    <2>1. req = Layer!NoReq
      BY <1>2 DEF AvmlIInv
    <2> QED BY <2>1, <1>1, <1>2, <1>17 DEF AvmlIInv
  <1>19. UNCHANGED Layer!layer
    BY <1>1, <1>12 DEF Layer!layer
  <1> QED BY <1>18, <1>19

\* What follows the loading leaves the frames as they are.
LEMMA AvmlLoadedSame ==
    ASSUME IsAvml, AvmlLoaded, UNCHANGED <<file, pos, chunk, done, frames>>
    PROVE  AvmlLoaded'
  <1>1. /\ AvmlHeld' = AvmlHeld /\ AvmlAscends' = AvmlAscends /\ \A i : AvmlFrame(i)' = AvmlFrame(i)
    BY AvmlSame
  <1>2. \A c : InChunk(c)' <=> InChunk(c)
    <2> SUFFICES ASSUME NEW c PROVE InChunk(c)' <=> InChunk(c)
      OBVIOUS
    <2>1. Avml!Before(pos)' = Avml!Before(pos)
      BY DEF Avml!Before
    <2> QED BY <2>1 DEF InChunk
  <1> QED BY <1>1, <1>2 DEF AvmlLoaded

\* A file with frames is opened, with the end of the last one for max.
LEMMA AvmlFinishStep ==
    ASSUME AvmlIInv, IsAvml, Avml!FinishLoad
    PROVE  AvmlIInv' /\ [Layer!Next]_(Layer!layer)
  <1>1. /\ status = "opening" /\ pos > Len(file)
        /\ UNCHANGED <<file, pos, chunk, done, frames, req, idx, dst, total, reply>>
    BY DEF Avml!FinishLoad, Avml!loading, Avml!reading
  <1>2. AvmlLoaded /\ req = Layer!NoReq
    BY <1>1, AvmlLoadFacts
  <1>3. /\ Captured' = Captured /\ Declared' = Declared /\ format = "avml"
    BY <1>1, AvmlSame
  <1>4. CASE frames = <<>>
    <2>1. status' = "failed" /\ max' = max
      BY <1>4 DEF Avml!FinishLoad
    <2>2. Layer!Refuse
      BY <1>1, <1>3, <2>1 DEF Layer!Refuse
    <2>3. AvmlIInv'
      BY <1>1, <1>2, <2>1 DEF AvmlIInv
    <2> QED BY <2>2, <2>3 DEF Layer!Next
  <1>5. CASE frames # <<>>
    <2>1. status' = "open" /\ max' = frames[Len(frames)].pa + frames[Len(frames)].len
      BY <1>5 DEF Avml!FinishLoad
    <2>2. frames \in Seq(Segments) /\ Ascending(frames) /\ Len(frames) \in 1..Len(frames)
      <3>1. frames \in Seq(Segments) /\ Ascending(frames)
        BY <1>2 DEF AvmlLoaded
      <3>2. Len(frames) \in Nat \ {0}
        BY <1>5, <3>1
      <3> QED BY <3>1, <3>2
    <2>3. frames[Len(frames)].len > 0
      <3>1. PICK i \in AvmlHeld : /\ frames[Len(frames)] = AvmlFrame(i)
                                 /\ \A j \in AvmlHeld : j < pos => j <= i
        BY <1>2, <1>5 DEF AvmlLoaded
      <3>2. \A j \in AvmlHeld : j <= i
        <4>1. \A j \in AvmlHeld : j < pos
          <5>1. \A j \in AvmlHeld : j \in 1..Len(file)
            BY DEF AvmlHeld
          <5>2. Len(file) \in Nat /\ pos \in Nat
            BY <1>1, AvmlLoadFacts
          <5> QED BY <5>1, <5>2, <1>1
        <4> QED BY <3>1, <4>1
      <3>3. AvmlFrame(i).len > 0
        BY <3>2, <1>2 DEF AvmlLoaded, AvmlAscends, AvmlFrame
      <3> QED BY <3>1, <3>3
    <2>4. Declared = Items(frames)
      BY <1>1, <1>2, <1>3, AvmlCaptures, AvmlView
    <2>5. max' = Layer!Top(Declared)
      BY <2>1, <2>2, <2>3, <2>4, <1>5, LastTop
    <2>6. Layer!Open
      BY <1>1, <1>3, <2>1, <2>5 DEF Layer!Open
    <2>7. AvmlLoaded'
      BY <1>1, <1>2, AvmlLoadedSame
    <2>8. AvmlIInv'
      BY <1>1, <1>2, <1>5, <2>1, <2>7 DEF AvmlIInv
    <2> QED BY <2>6, <2>8 DEF Layer!Next
  <1> QED BY <1>4, <1>5

\* What a read rests on.
LEMMA AvmlReadFacts ==
    ASSUME AvmlIInv, format = "avml", status = "open"
    PROVE  /\ AvmlLoaded /\ pos > Len(file) /\ frames # <<>>
           /\ frames \in Seq(Segments) /\ Ascending(frames) /\ Len(frames) \in Nat
           /\ Captured = Items(frames)
  <1>1. AvmlLoaded /\ pos > Len(file) /\ frames # <<>>
    BY DEF AvmlIInv
  <1>2. frames \in Seq(Segments) /\ Ascending(frames)
    BY <1>1 DEF AvmlLoaded
  <1>3. Captured = Items(frames)
    BY <1>1, AvmlCaptures, AvmlView
  <1> QED BY <1>1, <1>2, <1>3

LEMMA AvmlOfTwo ==
    ASSUME NEW x \in Int, NEW y \in Int
    PROVE  /\ Avml!Min({x, y}) = IF x <= y THEN x ELSE y
           /\ Avml!Max({x, y}) = IF x >= y THEN x ELSE y
  BY DEF Avml!Min, Avml!Max

\* The search has passed the frames that end below the window.
LEMMA AvmlCallStep ==
    ASSUME AvmlIInv, IsAvml, Avml!Call
    PROVE  AvmlIInv' /\ [Layer!Next]_(Layer!layer)
  <1>1. PICK pa \in Addr, len \in Lengths :
           /\ req' = [pa |-> pa, len |-> len]
           /\ idx' = IF len = 0 THEN Len(frames) + 1 ELSE Avml!UpperBound(pa)
           /\ dst' = [k \in 1..len |-> Avml!Zero] /\ total' = 0
    BY DEF Avml!Call
  <1>2. /\ status = "open" /\ req = Layer!NoReq /\ reply' = Layer!NoReply
        /\ UNCHANGED <<file, status, pos, chunk, done, frames, max>>
    BY DEF Avml!Call, Avml!loading, Avml!NoReply, Layer!NoReply, Avml!NoReq, Layer!NoReq
  <1>3. Captured' = Captured /\ Declared' = Declared /\ format = "avml"
    BY <1>2, AvmlSame
  <1>4. Layer!Call
    BY <1>1, <1>2, <1>3 DEF Layer!Call
  <1>5. /\ AvmlLoaded /\ pos > Len(file) /\ frames # <<>>
        /\ frames \in Seq(Segments) /\ Ascending(frames) /\ Len(frames) \in Nat
    BY <1>2, <1>3, AvmlReadFacts
  <1>6. pa \in Nat /\ len \in Nat
    BY FormatAssumption
  <1> DEFINE i == IF len = 0 THEN Len(frames) + 1 ELSE Avml!UpperBound(pa)
  <1>7. i \in 1..(Len(frames) + 1) /\ \A j \in i..Len(frames) : frames[j].pa + frames[j].len > pa
    <2>1. CASE len = 0
      BY <2>1, <1>5
    <2>2. CASE len # 0
      <3>1. i \in 1..(Len(frames) + 1)
        BY <2>2, <1>5, <1>6, UpperBoundFacts
      <3>2. ASSUME NEW j \in i..Len(frames) PROVE frames[j].pa + frames[j].len > pa
        <4>1. i = Avml!UpperBound(pa)
          BY <2>2
        <4> HIDE DEF i
        <4>2. j \in 1..Len(frames) /\ ~(j < i)
          BY <3>1, <1>5
        <4>3. frames[j].pa + frames[j].len \in Nat
          BY <4>2, <1>5, SegmentFacts
        <4>4. ~(frames[j].pa + frames[j].len <= pa)
          BY <4>1, <4>2, <1>5, <1>6, UpperBoundFacts
        <4> QED BY <4>3, <4>4, <1>6
      <3> QED BY <3>1, <3>2
    <2> QED BY <2>1, <2>2
  <1>8. Layer!Window(pa, len) \cap Seen(frames, i) = {}
    <2>1. CASE len = 0
      <3>1. Layer!Window(pa, len) = {}
        BY <2>1, <1>6 DEF Layer!Window
      <3> QED BY <3>1
    <2>2. CASE len # 0
      <3>1. i = Avml!UpperBound(pa)
        BY <2>2
      <3> HIDE DEF i
      <3> SUFFICES ASSUME NEW j \in 1..(i - 1), NEW a, a \in Layer!Window(pa, len), a \in Layer!Span(frames[j])
                   PROVE  FALSE
        BY DEF Seen
      <3>2. j \in 1..Len(frames) /\ j < i
        BY <1>5, <1>7
      <3>3. frames[j].pa + frames[j].len <= pa
        BY <3>1, <3>2, <1>5, <1>6, UpperBoundFacts
      <3>4. a \in Int /\ a < frames[j].pa + frames[j].len /\ frames[j].pa \in Nat /\ frames[j].len \in Nat
        BY <3>2, <1>5, SegmentFacts
      <3>5. pa <= a
        BY <1>6 DEF Layer!Window
      <3> QED BY <3>3, <3>4, <3>5, <1>6
    <2> QED BY <2>1, <2>2
  <1> HIDE DEF i
  <1>9. Partial(Items(frames), Seen(frames, i), pa, len, [k \in 1..len |-> Layer!Zero], 0)
    BY <1>6, <1>8, PartialStart
  <1>10. AvmlReads'
    <2>1. req' \in [pa : Nat, len : Nat] /\ req'.pa = pa /\ req'.len = len
      BY <1>1, <1>6
    <2>2. idx' = i /\ frames' = frames /\ total' = 0 /\ dst' = [k \in 1..len |-> Layer!Zero]
      BY <1>1, <1>2 DEF i, Avml!Zero, Layer!Zero
    <2> QED BY <2>1, <2>2, <1>7, <1>9 DEF AvmlReads
  <1>11. AvmlLoaded'
    BY <1>2, <1>5, AvmlLoadedSame
  <1>12. AvmlIInv'
    BY <1>2, <1>5, <1>10, <1>11 DEF AvmlIInv
  <1> QED BY <1>4, <1>12 DEF Layer!Next

\* A frame is whole, so all it has in common with the window is copied.
LEMMA AvmlCopyStep ==
    ASSUME AvmlIInv, IsAvml, Avml!CopyFrame
    PROVE  AvmlIInv' /\ [Layer!Next]_(Layer!layer)
  <1> DEFINE f == frames[idx]
             end == req.pa + req.len
             fend == f.pa + f.len
             rs == Avml!Max({req.pa, f.pa})
             re == Avml!Min({end, fend})
  <1>1. /\ req # Layer!NoReq /\ idx <= Len(frames) /\ f.pa < end
        /\ idx' = idx + 1 /\ total' = total + (re - rs)
        /\ dst' = [k \in DOMAIN dst |->
                     LET a == req.pa + k - 1
                     IN  IF a >= rs /\ a < re THEN f.off + (a - f.pa) ELSE dst[k]]
        /\ UNCHANGED <<file, status, pos, chunk, done, frames, max, req, reply>>
    BY DEF Avml!CopyFrame, Avml!More, Avml!End, Avml!FrameEnd, Avml!loading, Avml!NoReq, Layer!NoReq
  <1>2. format = "avml" /\ Captured' = Captured /\ Declared' = Declared
    BY <1>1, AvmlSame
  <1>3. status = "open" /\ AvmlReads
    BY <1>1 DEF AvmlIInv
  <1>4. /\ AvmlLoaded /\ pos > Len(file) /\ frames # <<>>
        /\ frames \in Seq(Segments) /\ Ascending(frames) /\ Len(frames) \in Nat
    BY <1>2, <1>3, AvmlReadFacts
  <1>5. /\ req \in [pa : Nat, len : Nat] /\ req.pa \in Nat /\ req.len \in Nat
        /\ idx \in 1..Len(frames) /\ idx + 1 \in 1..(Len(frames) + 1)
        /\ \A j \in idx..Len(frames) : frames[j].pa + frames[j].len > req.pa
        /\ Partial(Items(frames), Seen(frames, idx), req.pa, req.len, dst, total)
    <2>1. req \in [pa : Nat, len : Nat] /\ idx \in 1..(Len(frames) + 1)
      BY <1>3 DEF AvmlReads
    <2>2. idx \in 1..Len(frames) /\ idx + 1 \in 1..(Len(frames) + 1)
      BY <2>1, <1>1, <1>4
    <2> QED BY <2>1, <2>2, <1>3 DEF AvmlReads
  <1>6. /\ f.pa \in Nat /\ f.len \in Nat /\ f.off \in Nat
        /\ \A a : a \in Layer!Span(f) <=> a \in Int /\ f.pa <= a /\ a < fend
    BY <1>4, <1>5, SegmentFacts
  <1>7. fend > req.pa
    BY <1>4, <1>5
  <1>8. /\ rs = IF req.pa >= f.pa THEN req.pa ELSE f.pa
        /\ re = IF end <= fend THEN end ELSE fend
        /\ rs \in Nat /\ re \in Nat /\ rs <= re /\ re - rs \in Nat
        /\ end \in Nat /\ fend \in Nat
    <2>1. end \in Nat /\ fend \in Nat
      BY <1>5, <1>6
    <2>2. rs = IF req.pa >= f.pa THEN req.pa ELSE f.pa
      <3> HIDE DEF f
      <3>1. req.pa \in Int /\ f.pa \in Int
        BY <1>5, <1>6
      <3> QED BY <3>1, AvmlOfTwo
    <2>3. re = IF end <= fend THEN end ELSE fend
      <3> HIDE DEF end, fend
      <3>1. end \in Int /\ fend \in Int
        BY <2>1
      <3> QED BY <3>1, AvmlOfTwo
    <2> HIDE DEF rs, re
    <2>4. rs \in Nat /\ re \in Nat
      BY <1>5, <1>6, <2>1, <2>2, <2>3
    <2>5. req.pa <= end /\ f.pa <= fend /\ f.pa < end
      BY <1>1, <1>5, <1>6
    <2> HIDE DEF f, end, fend
    <2>6. rs <= re
      BY <1>5, <1>6, <1>7, <2>1, <2>2, <2>3, <2>4, <2>5
    <2> QED BY <2>1, <2>2, <2>3, <2>4, <2>6
  <1>9. Layer!Window(req.pa, req.len) \cap Layer!Span(f) = Layer!Window(rs, re - rs)
    <2> SUFFICES ASSUME NEW a
                 PROVE  a \in Layer!Window(req.pa, req.len) /\ a \in Layer!Span(f)
                           <=> a \in Layer!Window(rs, re - rs)
      OBVIOUS
    <2>1. a \in Layer!Window(req.pa, req.len) <=> a \in Int /\ req.pa <= a /\ a < end
      BY <1>5 DEF Layer!Window
    <2>2. a \in Layer!Window(rs, re - rs) <=> a \in Int /\ rs <= a /\ a < re
      <3> HIDE DEF rs, re
      <3> QED BY <1>8 DEF Layer!Window
    <2>3. a \in Layer!Span(f) <=> a \in Int /\ f.pa <= a /\ a < fend
      BY <1>6
    <2> HIDE DEF f, rs, re, end, fend
    <2> QED BY <2>1, <2>2, <2>3, <1>5, <1>6, <1>8
  <1>10. DOMAIN dst = 1..req.len /\ DOMAIN dst' = 1..req.len
    <2>1. DOMAIN dst = 1..req.len
      BY <1>5 DEF Partial
    <2> QED BY <2>1, <1>1
  <1>11. \A k \in 1..req.len : LET a == req.pa + k - 1 IN
            dst'[k] = IF a \in Layer!Window(rs, re - rs) THEN f.off + (a - f.pa) ELSE dst[k]
    <2> SUFFICES ASSUME NEW k \in 1..req.len
                 PROVE  dst'[k] = IF req.pa + k - 1 \in Layer!Window(rs, re - rs)
                                  THEN f.off + ((req.pa + k - 1) - f.pa) ELSE dst[k]
      OBVIOUS
    <2> DEFINE a == req.pa + k - 1
    <2>1. a \in Int
      BY <1>5
    <2>2. dst'[k] = IF a >= rs /\ a < re THEN f.off + (a - f.pa) ELSE dst[k]
      <3>1. k \in DOMAIN dst
        BY <1>10
      <3> HIDE DEF rs, re, f
      <3> QED BY <3>1, <1>1
    <2> HIDE DEF a
    <2>3. a \in Layer!Window(rs, re - rs) <=> a >= rs /\ a < re
      <3> HIDE DEF rs, re
      <3> QED BY <2>1, <1>8 DEF Layer!Window
    <2>4. dst'[k] = IF a \in Layer!Window(rs, re - rs) THEN f.off + (a - f.pa) ELSE dst[k]
      <3> HIDE DEF rs, re, f
      <3> QED BY <2>2, <2>3
    <2> QED BY <2>4 DEF a
  <1>12. Partial(Items(frames), Seen(frames, idx + 1), req.pa, req.len, dst', total + (re - rs))
    <2>1. re - rs \in Nat /\ rs \in Nat
      BY <1>8
    <2> HIDE DEF rs, re
    <2> QED BY <2>1, <1>4, <1>5, <1>9, <1>10, <1>11, CopyKeeps DEF f
  <1>13. AvmlReads'
    <2>1. \A j \in (idx + 1)..Len(frames) : frames[j].pa + frames[j].len > req.pa
      <3> SUFFICES ASSUME NEW j \in (idx + 1)..Len(frames) PROVE frames[j].pa + frames[j].len > req.pa
        OBVIOUS
      <3>1. j \in idx..Len(frames)
        BY <1>4, <1>5
      <3> QED BY <3>1, <1>5
    <2>2. Partial(Items(frames), Seen(frames, idx + 1), req.pa, req.len, dst', total')
      BY <1>1, <1>12
    <2>3. frames' = frames /\ req' = req /\ idx' = idx + 1
      BY <1>1
    <2> HIDE DEF f, rs, re, end, fend
    <2> QED BY <2>1, <2>2, <2>3, <1>5 DEF AvmlReads
  <1>14. AvmlLoaded'
    BY <1>1, <1>4, AvmlLoadedSame
  <1>15. AvmlIInv'
    <2>1. UNCHANGED <<status, file, pos, frames, req>> /\ status = "open"
      BY <1>1, <1>3
    <2> QED BY <2>1, <1>4, <1>13, <1>14 DEF AvmlIInv
  <1>16. UNCHANGED Layer!layer
    BY <1>1, <1>2 DEF Layer!layer
  <1> QED BY <1>15, <1>16

\* What is left lies above the window: the buffer is what was asked for.
LEMMA AvmlReturnStep ==
    ASSUME AvmlIInv, IsAvml, Avml!Return
    PROVE  AvmlIInv' /\ [Layer!Next]_(Layer!layer)
  <1>1. /\ req # Layer!NoReq
        /\ ~(idx <= Len(frames) /\ frames[idx].pa < req.pa + req.len)
        /\ reply' = [pa |-> req.pa, bytes |-> dst, count |-> total]
        /\ req' = Layer!NoReq
        /\ UNCHANGED <<file, status, pos, chunk, done, frames, max, idx, dst, total>>
    BY DEF Avml!Return, Avml!More, Avml!End, Avml!loading, Avml!NoReq, Layer!NoReq
  <1>2. status = "open" /\ AvmlReads /\ format = "avml" /\ Captured' = Captured /\ Declared' = Declared
    BY <1>1, AvmlSame DEF AvmlIInv
  <1>3. /\ AvmlLoaded /\ pos > Len(file) /\ frames # <<>>
        /\ frames \in Seq(Segments) /\ Ascending(frames) /\ Len(frames) \in Nat
        /\ Captured = Items(frames)
    BY <1>2, AvmlReadFacts
  <1>4. /\ req.pa \in Nat /\ req.len \in Nat /\ idx \in 1..(Len(frames) + 1)
        /\ Partial(Items(frames), Seen(frames, idx), req.pa, req.len, dst, total)
    BY <1>2 DEF AvmlReads
  <1>5. idx <= Len(frames) => frames[idx].pa >= req.pa + req.len
    <2> SUFFICES ASSUME idx <= Len(frames) PROVE frames[idx].pa >= req.pa + req.len
      OBVIOUS
    <2>1. frames[idx].pa \in Nat
      <3>1. idx \in 1..Len(frames)
        BY <1>3, <1>4
      <3> QED BY <3>1, <1>3, SegmentFacts
    <2> QED BY <2>1, <1>1, <1>4
  <1>6. Layer!Window(req.pa, req.len) \cap Seen(frames, idx)
           = Layer!Window(req.pa, req.len) \cap Layer!Backed(Items(frames))
    BY <1>3, <1>4, <1>5, NothingAbove
  <1>7. Layer!Faithful(Captured, req.pa, req.len, dst) /\ Layer!Honest(Captured, req.pa, req.len, total)
    BY <1>3, <1>4, <1>6, PartialDone
  <1>8. reply'.pa = req.pa /\ reply'.bytes = dst /\ reply'.count = total
    BY <1>1
  <1>9. Layer!Return
    BY <1>1, <1>2, <1>7, <1>8 DEF Layer!Return
  <1>10. AvmlLoaded'
    BY <1>1, <1>3, AvmlLoadedSame
  <1>11. AvmlIInv'
    BY <1>1, <1>3, <1>10 DEF AvmlIInv
  <1> QED BY <1>9, <1>11 DEF Layer!Next

LEMMA AvmlStep ==
    ASSUME AvmlIInv, IsAvml, Avml!Next
    PROVE  AvmlIInv' /\ [Layer!Next]_(Layer!layer)
  <1>1. CASE Avml!RefuseHeader \/ Avml!RefuseFrame
    <2>1. status = "opening" /\ Avml!Fail
      BY <1>1 DEF Avml!RefuseHeader, Avml!RefuseFrame, Avml!WantFrame, Avml!InFrames
    <2> QED BY <2>1, AvmlFailStep
  <1> QED BY <1>1, AvmlHeaderStep, AvmlFrameStep, AvmlPassStep, AvmlEndStep, AvmlFinishStep,
             AvmlCallStep, AvmlCopyStep, AvmlReturnStep DEF Avml!Next

-----------------------------------------------------------------------------
(* The four formats together.                                              *)

\* The files the contract is kept for: kdumps without a PT_LOAD inside another,
\* AVML files whose frames ascend, the last of them not empty.
Regular ==
    /\ format = "elf" => Unnested(file)
    /\ format = "avml" => AvmlAscends

\* The invariant of the format that the magic has chosen.
FormatsIInv ==
    /\ format \in {"lime", "elf", "avml", "raw"}
    /\ format = "lime" => LimeIInv
    /\ format = "elf" => KdumpIInv
    /\ format = "avml" => AvmlIInv
    /\ format = "raw" => RawIInv

\* A regular file, unread.
LEMMA FormatsInit ==
    ASSUME Init, Regular
    PROVE  FormatsIInv /\ Layer!Init
  <1>1. CASE format = "lime" /\ Lime!Init
    BY <1>1, LimeInit DEF FormatsIInv
  <1>2. CASE format = "elf" /\ Kdump!Init
    BY <1>2, KdumpInit DEF FormatsIInv, Regular
  <1>3. CASE format = "avml" /\ Avml!Init
    BY <1>3, AvmlInit DEF FormatsIInv, Regular
  <1>4. CASE format = "raw" /\ RawInit
    BY <1>4, RawInitial DEF FormatsIInv
  <1> QED BY <1>1, <1>2, <1>3, <1>4 DEF Init

\* A step of a format is one of the contract, or none.
LEMMA FormatsStep ==
    ASSUME FormatsIInv, Next
    PROVE  FormatsIInv' /\ [Layer!Next]_(Layer!layer)
  <1>1. CASE IsLime /\ Lime!Next
    <2>1. format = "lime" /\ format' = "lime"
      BY <1>1 DEF IsLime
    <2> QED BY <2>1, <1>1, LimeStep DEF FormatsIInv
  <1>2. CASE IsKdump /\ Kdump!Next
    <2>1. format = "elf" /\ format' = "elf"
      BY <1>2 DEF IsKdump
    <2> QED BY <2>1, <1>2, KdumpStep DEF FormatsIInv
  <1>3. CASE IsAvml /\ Avml!Next
    <2>1. format = "avml" /\ format' = "avml"
      BY <1>3 DEF IsAvml
    <2> QED BY <2>1, <1>3, AvmlStep DEF FormatsIInv
  <1>4. CASE IsRaw /\ RawNext
    <2>1. format = "raw" /\ format' = "raw"
      BY <1>4 DEF IsRaw
    <2> QED BY <2>1, <1>4, RawStep DEF FormatsIInv
  <1> QED BY <1>1, <1>2, <1>3, <1>4 DEF Next

\* Nothing happens to a layer nobody uses.
LEMMA FormatsStutter ==
    ASSUME FormatsIInv, UNCHANGED vars
    PROVE  FormatsIInv' /\ UNCHANGED Layer!layer
  <1>1. UNCHANGED <<format, file, status, max, req, dst, total, reply, off, prev_end, segs, idx, cur,
                    phdr, ranges, vmcoreinfo, rest, pos, chunk, done, frames>>
    BY DEF vars, layer, limeOnly, kdumpOnly, avmlOnly
  <1>2. CASE format = "lime"
    <2>1. IsLime
      BY <1>1, <1>2 DEF IsLime, kdumpOnly, avmlOnly
    <2>2. UNCHANGED Layer!layer
      BY <1>1, <2>1, LimeSame DEF Layer!layer
    <2>3. LimeIInv
      BY <1>2 DEF FormatsIInv
    <2>4. LimeIInv'
      BY <1>1, <2>3 DEF LimeIInv, LimeLoaded, LimeReads
    <2> QED BY <1>1, <1>2, <2>2, <2>4 DEF FormatsIInv
  <1>3. CASE format = "elf"
    <2>1. IsKdump
      BY <1>1, <1>3 DEF IsKdump, limeOnly, avmlOnly
    <2>2. Captured' = Captured /\ Declared' = Declared /\ (Kdump!Captured)' = Kdump!Captured
      BY <1>1, <2>1, KdumpSame
    <2>3. UNCHANGED Layer!layer
      BY <1>1, <2>2 DEF Layer!layer
    <2>4. KdumpIInv
      BY <1>3 DEF FormatsIInv
    <2>5. KdumpScanned'
      BY <1>1, <2>4 DEF KdumpIInv, KdumpScanned
    <2>6. KdumpReads' <=> KdumpReads
      BY <1>1, <2>2 DEF KdumpReads
    <2>7. KdumpIInv'
      BY <1>1, <2>4, <2>5, <2>6 DEF KdumpIInv
    <2> QED BY <1>1, <1>3, <2>3, <2>7 DEF FormatsIInv
  <1>4. CASE format = "avml"
    <2>1. IsAvml
      BY <1>1, <1>4 DEF IsAvml, limeOnly, kdumpOnly
    <2>2. UNCHANGED Layer!layer
      BY <1>1, <2>1, AvmlSame DEF Layer!layer
    <2>3. AvmlIInv
      BY <1>4 DEF FormatsIInv
    <2>4. status # "failed" => AvmlLoaded'
      BY <1>1, <2>1, <2>3, AvmlLoadedSame DEF AvmlIInv
    <2>5. AvmlReads' <=> AvmlReads
      BY <1>1 DEF AvmlReads
    <2>6. AvmlIInv'
      BY <1>1, <2>3, <2>4, <2>5 DEF AvmlIInv
    <2> QED BY <1>1, <1>4, <2>2, <2>6 DEF FormatsIInv
  <1>5. CASE format = "raw"
    <2>1. IsRaw
      BY <1>1, <1>5 DEF IsRaw, limeOnly, kdumpOnly, avmlOnly
    <2>2. UNCHANGED Layer!layer
      BY <1>1, <2>1, RawSame DEF Layer!layer
    <2>3. RawIInv'
      BY <1>1, <1>5 DEF FormatsIInv, RawIInv
    <2> QED BY <1>1, <1>5, <2>2, <2>3 DEF FormatsIInv
  <1> QED BY <1>2, <1>3, <1>4, <1>5 DEF FormatsIInv

(* Every format keeps the promises of PhysicalLayer (physical_layer.h): a  *)
(* regular file is refused, or opened with the right max_address; then     *)
(* every read gives the byte of the file for each address that has one,    *)
(* zero for the others, and counts the former.                             *)
THEOREM FormatsKeepContract == Spec /\ Regular => KeepsContract
  <1>1. Init /\ Regular => FormatsIInv /\ Layer!Init
    BY FormatsInit
  <1>2. FormatsIInv /\ [Next]_vars => FormatsIInv' /\ [Layer!Next]_(Layer!layer)
    BY FormatsStep, FormatsStutter
  <1> QED BY <1>1, <1>2, PTL DEF Spec, KeepsContract, Layer!Spec
=============================================================================
