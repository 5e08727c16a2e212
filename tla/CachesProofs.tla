---------------------------- MODULE CachesProofs ----------------------------
(***************************************************************************)
(* Proofs about what the threads of a client share: UserPageCache, for any *)
(* number of pages and readers and any budget of at least one page;        *)
(* FrameCache, for any sizes of frames within the budget; CApi, for any    *)
(* threads, handles, processes and page size.                              *)
(*                                                                         *)
(* A list of the pages or frames in the cache is a prefix of the order in  *)
(* which they were used last.  UserPageCache's is shorter than that order  *)
(* only when the cache is full, so that an insertion of a page fetched     *)
(* before always meets a full cache, and one eviction restores the budget. *)
(* FrameCache's may be shorter for any reason: a frame that is not in it   *)
(* was used less recently than all that are.                               *)
(*                                                                         *)
(* A handle of VMMDLL_Initialize() that is open is in one place: in        *)
(* g_handles, with the thread that registers or closes it, or in the list  *)
(* a VMMDLL_CloseAll() took.                                               *)
(***************************************************************************)
EXTENDS UserPageCache, FrameCache, CApi, FiniteSetTheorems, TLAPS

\* The induction over the natural numbers that DirTreeProofs states.
Counting == INSTANCE DirTreeProofs

---------------------------------------------------------------------------
(* Lists in order of use.                                                  *)
\* What splicing an element to the front of a list does.
LEMMA ToFrontFacts ==
    ASSUME NEW S, NEW s \in Seq(S), NEW i \in 1..Len(s)
    PROVE  /\ ToFront(s, i) \in Seq(S)
           /\ Len(ToFront(s, i)) = Len(s)
           /\ ToFront(s, i)[1] = s[i]
           /\ \A j \in 2..i : ToFront(s, i)[j] = s[j - 1]
           /\ \A j \in (i + 1)..Len(s) : ToFront(s, i)[j] = s[j]
           /\ Range(ToFront(s, i)) = Range(s)
           /\ NoDup(s) => NoDup(ToFront(s, i))
  <1> DEFINE f == ToFront(s, i)
  <1>1. /\ f \in [1..Len(s) -> S]
        /\ Len(s) \in Nat
        /\ DOMAIN s = 1..Len(s)
    BY DEF ToFront
  <1>2. f \in Seq(S) /\ Len(f) = Len(s) /\ DOMAIN f = 1..Len(s)
    BY <1>1
  <1>3. /\ f[1] = s[i]
        /\ \A j \in 2..i : f[j] = s[j - 1]
        /\ \A j \in (i + 1)..Len(s) : f[j] = s[j]
    BY <1>1 DEF ToFront
  <1>4. Range(f) = Range(s)
    <2>1. ASSUME NEW j \in 1..Len(s) PROVE f[j] \in Range(s)
      BY <1>1, <2>1 DEF ToFront, Range
    <2>2. ASSUME NEW j \in 1..Len(s) PROVE s[j] \in Range(f)
      <3>1. CASE j = i
        BY <1>1, <1>2, <1>3, <3>1 DEF Range
      <3>2. CASE j < i
        <4>1. j + 1 \in 2..i /\ f[j + 1] = s[j]
          BY <1>1, <1>3, <3>2
        <4> QED
          BY <1>1, <1>2, <4>1 DEF Range
      <3>3. CASE j > i
        BY <1>1, <1>2, <1>3, <3>3 DEF Range
      <3> QED
        BY <3>1, <3>2, <3>3, <1>1
    <2> QED
      BY <1>1, <1>2, <2>1, <2>2 DEF Range
  <1>5. NoDup(s) => NoDup(f)
    BY <1>1, <1>2 DEF NoDup, ToFront
  <1> QED
    BY <1>2, <1>3, <1>4, <1>5

\* The position CHOOSE finds is one where the element is.
LEMMA PositionFacts ==
    ASSUME NEW S, NEW s \in Seq(S), NEW p \in Range(s)
    PROVE  /\ PositionOf(s, p) \in 1..Len(s)
           /\ s[PositionOf(s, p)] = p
  <1>1. \E i \in 1..Len(s) : s[i] = p
    BY DEF Range
  <1> QED
    BY <1>1 DEF PositionOf

\* Putting a new element in front of a list.
LEMMA PushFacts ==
    ASSUME NEW S, NEW s \in Seq(S), NEW p \in S
    PROVE  /\ <<p>> \o s \in Seq(S)
           /\ Len(<<p>> \o s) = Len(s) + 1
           /\ (<<p>> \o s)[1] = p
           /\ \A j \in 2..(Len(s) + 1) : (<<p>> \o s)[j] = s[j - 1]
           /\ Range(<<p>> \o s) = Range(s) \cup {p}
           /\ NoDup(s) /\ p \notin Range(s) => NoDup(<<p>> \o s)
  <1> DEFINE f == <<p>> \o s
  <1>1. /\ f \in Seq(S)
        /\ Len(f) = Len(s) + 1
        /\ f[1] = p
        /\ \A j \in 2..(Len(s) + 1) : f[j] = s[j - 1]
        /\ Len(s) \in Nat
        /\ DOMAIN s = 1..Len(s)
        /\ DOMAIN f = 1..(Len(s) + 1)
    OBVIOUS
  <1>2. Range(f) = Range(s) \cup {p}
    <2>1. ASSUME NEW j \in 1..Len(s) PROVE s[j] \in Range(f)
      <3>1. j + 1 \in DOMAIN f /\ f[j + 1] = s[j]
        BY <1>1
      <3> HIDE DEF f
      <3> QED
        BY <3>1 DEF Range
    <2>2. ASSUME NEW j \in 1..(Len(s) + 1) PROVE f[j] \in Range(s) \cup {p}
      BY <1>1 DEF Range
    <2>3. p \in Range(f)
      BY <1>1 DEF Range
    <2> HIDE DEF f
    <2> QED
      BY <1>1, <2>1, <2>2, <2>3 DEF Range
  <1>3. NoDup(s) /\ p \notin Range(s) => NoDup(f)
    <2> SUFFICES ASSUME NoDup(s), p \notin Range(s),
                        NEW i \in 1..(Len(s) + 1), NEW j \in 1..(Len(s) + 1),
                        f[i] = f[j]
                 PROVE  i = j
      BY <1>1 DEF NoDup
    <2> HIDE DEF f
    <2>1. ASSUME NEW k \in 2..(Len(s) + 1)
          PROVE  k - 1 \in 1..Len(s) /\ f[k] = s[k - 1] /\ f[k] # p
      <3>1. k - 1 \in 1..Len(s) /\ f[k] = s[k - 1]
        BY <1>1
      <3> QED
        BY <1>1, <3>1 DEF Range
    <2>2. CASE i = 1
      BY <1>1, <2>1, <2>2
    <2>3. CASE j = 1
      BY <1>1, <2>1, <2>3
    <2>4. CASE i # 1 /\ j # 1
      <3>1. i - 1 \in 1..Len(s) /\ j - 1 \in 1..Len(s) /\ s[i - 1] = s[j - 1]
        BY <1>1, <2>1, <2>4
      <3> QED
        BY <3>1 DEF NoDup
    <2> QED
      BY <2>2, <2>3, <2>4
  <1> QED
    BY <1>1, <1>2, <1>3

\* A used page goes to the front of the recency order, without duplicates.
LEMMA UsedFacts ==
    ASSUME NEW S, NEW s \in Seq(S), NEW p \in S, NoDup(s)
    PROVE  /\ Used(s, p) \in Seq(S)
           /\ NoDup(Used(s, p))
           /\ Used(s, p) # <<>>
           /\ Used(s, p)[1] = p
  <1>1. CASE p \in Range(s)
    <2> DEFINE i == PositionOf(s, p)
    <2>1. i \in 1..Len(s) /\ s[i] = p /\ Used(s, p) = ToFront(s, i)
      BY <1>1, PositionFacts DEF Used
    <2> HIDE DEF i
    <2>2. /\ ToFront(s, i) \in Seq(S)
          /\ Len(ToFront(s, i)) = Len(s)
          /\ ToFront(s, i)[1] = p
          /\ NoDup(ToFront(s, i))
      BY <2>1, ToFrontFacts
    <2> QED
      BY <2>1, <2>2
  <1>2. CASE p \notin Range(s)
    BY <1>2, PushFacts DEF Used
  <1> QED
    BY <1>1, <1>2

---------------------------------------------------------------------------
(* UserPageCache.                                                          *)

\* Cached contents are those of memory.
MapIsMemory == \A p \in DOMAIN map : map[p] = Mem[p]

\* The inductive invariant of the page cache.
IInv ==
    /\ TypeOK
    /\ Consistent
    /\ WithinBudget
    /\ HoldsMostRecent
    /\ NoDup(recency)
    /\ MapIsMemory
    /\ ReadsMemory

\* Promotion of a cached page keeps the cache part of the invariant.
LEMMA PromoteIInv ==
    ASSUME IInv, NEW p \in DOMAIN map, Promote(p)
    PROVE  /\ lru' \in Seq(Pages) /\ recency' \in Seq(Pages)
           /\ Consistent' /\ WithinBudget' /\ HoldsMostRecent'
           /\ NoDup(recency)' /\ MapIsMemory'
  <1> DEFINE i == PositionOf(lru, p)
             k == PositionOf(recency, p)
  <1>1. /\ lru \in Seq(Pages) /\ recency \in Seq(Pages)
        /\ p \in Range(lru) /\ p \in Pages
        /\ Len(lru) \in Nat /\ Len(recency) \in Nat
        /\ DOMAIN recency = 1..Len(recency)
    BY DEF IInv, TypeOK, Consistent
  <1>2. i \in 1..Len(lru) /\ lru[i] = p
    BY <1>1, PositionFacts
  <1>3. p \in Range(recency) /\ i \in 1..Len(recency) /\ recency[i] = p
    BY <1>1, <1>2 DEF IInv, HoldsMostRecent, Range
  <1>4. k \in 1..Len(recency) /\ recency[k] = p
    BY <1>1, <1>3, PositionFacts
  <1>5. k = i
    BY <1>3, <1>4 DEF IInv, NoDup
  <1>6. lru' = ToFront(lru, i) /\ recency' = ToFront(recency, i) /\ UNCHANGED <<map, bytes>>
    BY <1>3, <1>5 DEF Promote, Used
  <1> HIDE DEF i, k
  <1>7. /\ lru' \in Seq(Pages)
        /\ Len(lru') = Len(lru)
        /\ lru'[1] = p
        /\ \A j \in 2..i : lru'[j] = lru[j - 1]
        /\ \A j \in (i + 1)..Len(lru) : lru'[j] = lru[j]
        /\ Range(lru') = Range(lru)
        /\ NoDup(lru')
    BY <1>1, <1>2, <1>6, ToFrontFacts DEF IInv, Consistent
  <1>8. /\ recency' \in Seq(Pages)
        /\ Len(recency') = Len(recency)
        /\ recency'[1] = p
        /\ \A j \in 2..i : recency'[j] = recency[j - 1]
        /\ \A j \in (i + 1)..Len(recency) : recency'[j] = recency[j]
        /\ NoDup(recency')
    BY <1>1, <1>3, <1>6, ToFrontFacts DEF IInv
  <1>9. Consistent' /\ MapIsMemory'
    BY <1>6, <1>7 DEF IInv, Consistent, MapIsMemory, NoDup, Range
  <1>10. HoldsMostRecent'
    <2>1. ASSUME NEW j \in 1..Len(lru) PROVE lru'[j] = recency'[j]
      <3>1. CASE j = 1
        BY <3>1, <1>7, <1>8
      <3>2. CASE j \in 2..i
        BY <3>2, <1>1, <1>2, <1>7, <1>8 DEF IInv, HoldsMostRecent
      <3>3. CASE j \in (i + 1)..Len(lru)
        BY <3>3, <1>1, <1>2, <1>7, <1>8 DEF IInv, HoldsMostRecent
      <3> QED
        BY <3>1, <3>2, <3>3, <1>1, <1>2
    <2> QED
      BY <2>1, <1>7, <1>8 DEF IInv, HoldsMostRecent
  <1>11. WithinBudget'
    BY <1>1, <1>2, <1>6, <1>7, <1>8 DEF IInv, WithinBudget
  <1> QED
    BY <1>7, <1>8, <1>9, <1>10, <1>11 DEF NoDup

\* With at most one page too many, evict_locked() takes off at most one.
LEMMA ExcessFacts ==
    ASSUME NEW b \in Nat \ {0}, b <= MaxPages + 1
    PROVE  Excess(b, b) = IF b > MaxPages THEN 1 ELSE 0
  <1> DEFINE P(n) == /\ b - n <= MaxPages \/ n = b
                     /\ \A k \in 0..(n - 1) : b - k > MaxPages
             n0 == IF b > MaxPages THEN 1 ELSE 0
  <1>1. MaxPages \in Nat \ {0}
    BY UserPageCacheAssumption
  <1>2. n0 \in 0..b /\ P(n0)
    BY <1>1
  <1>3. ASSUME NEW n \in 0..b, P(n) PROVE n = n0
    <2>1. ASSUME n > n0 PROVE FALSE
      <3>1. n0 \in 0..(n - 1)
        BY <2>1, <1>2
      <3>2. b - n0 > MaxPages
        BY <3>1, <1>3
      <3> QED
        BY <3>2, <1>1
    <2>2. ASSUME n < n0 PROVE FALSE
      BY <2>2, <1>1, <1>3
    <2> QED
      BY <2>1, <2>2, <1>2
  <1> QED
    BY <1>2, <1>3 DEF Excess

\* What is left of a list when at most one element is taken off its back.
LEMMA KeepFacts ==
    ASSUME NEW S, NEW list \in Seq(S), NEW n \in {0, 1}, n < Len(list), NoDup(list),
           NEW kept \in Seq(S), Len(kept) = Len(list) - n,
           \A j \in 1..(Len(list) - n) : kept[j] = list[j]
    PROVE  /\ NoDup(kept)
           /\ Range(kept) = Range(list) \ Victims(list, n)
  <1>1. /\ DOMAIN list = 1..Len(list) /\ Len(list) \in Nat
        /\ DOMAIN kept = 1..(Len(list) - n)
    OBVIOUS
  <1>2. Range(kept) = Range(list) \ Victims(list, n)
    <2>1. Range(kept) = {list[i] : i \in 1..(Len(list) - n)}
      BY <1>1 DEF Range
    <2>2. Range(list) = {list[i] : i \in 1..Len(list)}
      BY <1>1 DEF Range
    <2>3. \A i, j \in 1..Len(list) : list[i] = list[j] => i = j
      BY DEF NoDup
    <2> QED
      BY <2>1, <2>2, <2>3, <1>1 DEF Victims
  <1>3. NoDup(kept)
    BY <1>1 DEF NoDup
  <1> QED
    BY <1>2, <1>3

\* Insertion of a page that is not cached, and the eviction that follows.
LEMMA InsertIInv ==
    ASSUME IInv, NEW r \in Readers, InsertNew(r)
    PROVE  /\ lru' \in Seq(Pages) /\ recency' \in Seq(Pages) /\ bytes' \in Nat
           /\ DOMAIN map' \subseteq Pages
           /\ Consistent' /\ WithinBudget' /\ HoldsMostRecent'
           /\ NoDup(recency)' /\ MapIsMemory'
  <1> DEFINE p == cur[r]
             list == <<p>> \o lru
             m == [q \in DOMAIN map \cup {p} |-> IF q = p THEN Mem[p] ELSE map[q]]
             n == Excess(Len(list), bytes + 1)
  <1>1. /\ lru \in Seq(Pages) /\ recency \in Seq(Pages)
        /\ Len(lru) \in Nat /\ Len(recency) \in Nat /\ MaxPages \in Nat \ {0}
        /\ bytes = Len(lru) /\ bytes <= MaxPages
        /\ NoDup(lru) /\ NoDup(recency)
        /\ Range(lru) = DOMAIN map
    BY UserPageCacheAssumption DEF IInv, TypeOK, Consistent, WithinBudget
  <1>0. p \in Pages /\ p \notin DOMAIN map /\ recency' = Used(recency, p)
    BY UserPageCacheAssumption DEF InsertNew, IInv, TypeOK, Pages
  <1>2. /\ list \in Seq(Pages)
        /\ Len(list) = Len(lru) + 1
        /\ list[1] = p
        /\ \A j \in 2..(Len(lru) + 1) : list[j] = lru[j - 1]
        /\ Range(list) = DOMAIN map \cup {p}
        /\ NoDup(list)
    BY <1>0, <1>1, PushFacts
  <1>3. /\ lru' = SubSeq(list, 1, Len(list) - n)
        /\ map' = [q \in DOMAIN m \ Victims(list, n) |-> m[q]]
        /\ bytes' = (bytes + 1) - n
    <2>1. lru' = SubSeq(list, 1, Len(list) - n)
      BY Zenon DEF InsertNew, EvictLocked
    <2>2. map' = [q \in DOMAIN m \ Victims(list, n) |-> m[q]]
      BY Zenon DEF InsertNew, EvictLocked
    <2>3. bytes' = (bytes + 1) - n
      BY Zenon DEF InsertNew, EvictLocked
    <2> QED
      BY <2>1, <2>2, <2>3
  <1>4. DOMAIN m = DOMAIN map \cup {p} /\ \A q \in DOMAIN m : m[q] = Mem[q]
    BY DEF IInv, MapIsMemory
  <1>a. n = IF Len(lru) = MaxPages THEN 1 ELSE 0
    <2>1. n = Excess(Len(lru) + 1, Len(lru) + 1)
      BY <1>1, <1>2
    <2> QED
      BY <2>1, <1>1, ExcessFacts
  <1> HIDE DEF p, list, m, n
  <1>5. /\ lru' \in Seq(Pages)
        /\ Len(lru') = Len(list) - n
        /\ \A j \in 1..Len(lru') : lru'[j] = list[j]
        /\ NoDup(lru')
        /\ Range(lru') = Range(list) \ Victims(list, n)
    <2>1. n \in {0, 1} /\ n < Len(list)
      BY <1>1, <1>2, <1>a
    <2>2. /\ lru' \in Seq(Pages)
          /\ Len(lru') = Len(list) - n
          /\ \A j \in 1..(Len(list) - n) : lru'[j] = list[j]
      <3>1. Len(list) - n \in 1..Len(list)
        BY <2>1, <1>2
      <3>2. lru' = SubSeq(list, 1, Len(list) - n)
        BY <1>3
      <3> QED
        BY <3>1, <3>2, <1>2
    <2>3. NoDup(lru') /\ Range(lru') = Range(list) \ Victims(list, n)
      BY <2>1, <2>2, <1>2, KeepFacts
    <2> QED
      BY <2>2, <2>3
  <1>b. DOMAIN map' = Range(lru') /\ bytes' = Len(lru')
    <2>1. DOMAIN map' = DOMAIN m \ Victims(list, n)
      BY <1>3
    <2>2. bytes' = Len(lru')
      <3>1. bytes' = (bytes + 1) - n
        BY <1>3
      <3>2. Len(lru') = (Len(lru) + 1) - n
        BY <1>1, <1>2, <1>5, <1>a
      <3> QED
        BY <3>1, <3>2, <1>1, <1>a
    <2> QED
      BY <2>1, <2>2, <1>2, <1>4, <1>5
  <1>6. Len(lru') = IF Len(lru) = MaxPages THEN Len(lru) ELSE Len(lru) + 1
    BY <1>1, <1>2, <1>5, <1>a
  <1>7. MapIsMemory'
    BY <1>3, <1>4 DEF MapIsMemory
  <1>8. Consistent'
    BY <1>5, <1>b DEF Consistent, NoDup, Range
  <1>9. /\ recency' \in Seq(Pages)
        /\ NoDup(recency')
        /\ recency' # <<>>
        /\ recency'[1] = p
    BY <1>0, <1>1, UsedFacts
  <1>10. WithinBudget'
    BY <1>1, <1>2, <1>5, <1>6, <1>9, <1>b DEF WithinBudget
  <1>11. HoldsMostRecent'
    <2>1. CASE p \in Range(recency)
      <3> DEFINE k == PositionOf(recency, p)
      <3>1. k \in 1..Len(recency) /\ recency[k] = p /\ recency' = ToFront(recency, k)
        BY <2>1, <1>0, <1>1, PositionFacts DEF Used
      <3> HIDE DEF k
      <3>2. /\ Len(recency') = Len(recency)
            /\ \A j \in 2..k : recency'[j] = recency[j - 1]
        BY <3>1, <1>1, ToFrontFacts
      <3>3. k > Len(lru)
        <4> SUFFICES ASSUME k <= Len(lru) PROVE FALSE
          BY <3>1, <1>1
        <4>1. k \in 1..Len(lru) /\ lru[k] = p
          BY <3>1, <1>1 DEF IInv, HoldsMostRecent
        <4> QED
          BY <4>1, <1>0, <1>1 DEF Range
      <3>4. Len(lru) = MaxPages /\ Len(recency) > MaxPages
        BY <3>1, <3>3, <1>1 DEF IInv, HoldsMostRecent
      <3>5. Len(lru') = MaxPages
        BY <3>4, <1>1, <1>6
      <3>6. ASSUME NEW j \in 1..Len(lru') PROVE lru'[j] = recency'[j]
        <4>1. CASE j = 1
          BY <4>1, <1>2, <1>5, <1>9
        <4>2. CASE j > 1
          <5>1. /\ j \in 2..(Len(lru) + 1) /\ j \in 2..k
                /\ j - 1 \in 1..Len(lru)
            BY <4>2, <3>1, <3>3, <3>4, <3>5, <1>1
          <5> QED
            BY <5>1, <3>2, <1>2, <1>5 DEF IInv, HoldsMostRecent
        <4> QED
          BY <4>1, <4>2
      <3> QED
        BY <3>2, <3>4, <3>5, <3>6, <1>1 DEF HoldsMostRecent
    <2>2. CASE p \notin Range(recency)
      <3>1. /\ Len(recency') = Len(recency) + 1
            /\ \A j \in 2..(Len(recency) + 1) : recency'[j] = recency[j - 1]
        BY <2>2, <1>0, <1>1, PushFacts DEF Used
      <3>2. ASSUME NEW j \in 1..Len(lru') PROVE lru'[j] = recency'[j]
        <4>1. CASE j = 1
          BY <4>1, <1>2, <1>5, <1>9
        <4>2. CASE j > 1
          <5>1. /\ j \in 2..(Len(lru) + 1) /\ j \in 2..(Len(recency) + 1)
                /\ j - 1 \in 1..Len(lru)
            BY <4>2, <1>1, <1>2, <1>5, <1>6 DEF IInv, HoldsMostRecent
          <5> QED
            BY <5>1, <3>1, <1>2, <1>5 DEF IInv, HoldsMostRecent
        <4> QED
          BY <4>1, <4>2
      <3>3. Len(lru') <= Len(recency')
        BY <3>1, <1>1, <1>2, <1>5, <1>6 DEF IInv, HoldsMostRecent
      <3>4. Len(lru') < MaxPages => Len(lru') = Len(recency')
        BY <3>1, <1>1, <1>2, <1>5, <1>6 DEF IInv, HoldsMostRecent
      <3> QED
        BY <3>2, <3>3, <3>4 DEF HoldsMostRecent
    <2> QED
      BY <2>1, <2>2
  <1> QED
    <2>1. bytes' \in Nat
      BY <1>1, <1>6, <1>b
    <2>2. DOMAIN map' \subseteq Pages
      BY <1>5, <1>b DEF Range
    <2> QED
      BY <2>1, <2>2, <1>5, <1>7, <1>8, <1>9, <1>10, <1>11 DEF MapIsMemory, NoDup

---------------------------------------------------------------------------
\* Delivering the right bytes keeps what a reader has been given right.
LEMMA DeliverReads ==
    ASSUME IInv, NEW r \in Readers, pc[r] # "idle", Deliver(r, Mem[cur[r]])
    PROVE  /\ ReadsMemory'
           /\ pc' \in [Readers -> {"idle", "fetch", "decode", "insert"}]
           /\ cur' \in [Readers -> 0..(NPages + 1)]
           /\ last' \in [Readers -> 0..NPages]
           /\ \A x \in Readers : pc'[x] # "idle" => cur'[x] \in 1..last'[x]
           /\ out' \in [Readers -> Seq(Contents)]
           /\ total' \in [Readers -> Nat]
  <1>1. /\ cur[r] \in 1..last[r] /\ last[r] \in 0..NPages /\ NPages \in Nat
        /\ out[r] \in Seq(Contents)
    BY UserPageCacheAssumption DEF IInv, TypeOK
  <1>2. Mem[cur[r]] \in Contents
    BY <1>1, UserPageCacheAssumption DEF Contents, Range, Pages
  <1>3. out' = [out EXCEPT ![r] = Append(out[r], Mem[cur[r]])] /\ cur' = [cur EXCEPT ![r] = cur[r] + 1]
    BY DEF Deliver
  <1>4. out' \in [Readers -> Seq(Contents)] /\ total' \in [Readers -> Nat]
    BY <1>1, <1>2, <1>3 DEF IInv, TypeOK, Deliver
  <1>5. /\ pc' \in [Readers -> {"idle", "fetch", "decode", "insert"}]
        /\ cur' \in [Readers -> 0..(NPages + 1)]
        /\ last' \in [Readers -> 0..NPages]
        /\ \A x \in Readers : pc'[x] # "idle" => cur'[x] \in 1..last'[x]
    BY <1>1 DEF IInv, TypeOK, Deliver
  <1>6. ReadsMemory'
    <2> SUFFICES ASSUME NEW x \in Readers, NEW i \in 1..Len(out'[x])
                 PROVE  out'[x][i] = Mem[cur'[x] - Len(out'[x]) + i - 1]
      BY DEF ReadsMemory
    <2>1. CASE x # r
      <3>1. out'[x] = out[x] /\ cur'[x] = cur[x]
        BY <2>1, <1>3 DEF IInv, TypeOK
      <3> QED
        BY <3>1 DEF IInv, ReadsMemory
    <2>2. CASE x = r
      <3>1. /\ out'[x] = Append(out[r], Mem[cur[r]])
            /\ cur'[x] = cur[r] + 1
        BY <2>2, <1>3 DEF IInv, TypeOK
      <3>2. /\ Len(out'[x]) = Len(out[r]) + 1
            /\ \A j \in 1..Len(out[r]) : out'[x][j] = out[r][j]
            /\ out'[x][Len(out[r]) + 1] = Mem[cur[r]]
            /\ Len(out[r]) \in Nat
        BY <3>1, <1>1, <1>2
      <3>3. cur'[x] - Len(out'[x]) + i - 1 = cur[r] - Len(out[r]) + i - 1
        BY <3>1, <3>2, <1>1
      <3>4. CASE i \in 1..Len(out[r])
        BY <3>2, <3>3, <3>4 DEF IInv, ReadsMemory
      <3>5. CASE i = Len(out[r]) + 1
        <4>1. cur[r] - Len(out[r]) + i - 1 = cur[r]
          BY <3>2, <3>5, <1>1
        <4> QED
          BY <4>1, <3>2, <3>3, <3>5
      <3> QED
        BY <3>2, <3>4, <3>5
    <2> QED
      BY <2>1, <2>2
  <1> QED
    BY <1>4, <1>5, <1>6

\* The empty cache satisfies the invariant.
LEMMA InitIInv == Init => IInv
  <1> SUFFICES ASSUME Init PROVE IInv
    OBVIOUS
  <1>1. TypeOK
    BY UserPageCacheAssumption DEF Init, TypeOK
  <1>2. /\ lru = <<>> /\ recency = <<>> /\ map = <<>> /\ bytes = 0
        /\ Len(lru) = 0 /\ Len(recency) = 0 /\ MaxPages \in Nat
    BY UserPageCacheAssumption DEF Init
  <1>3. Range(lru) = {} /\ DOMAIN map = {}
    BY <1>2 DEF Range
  <1>4. Consistent /\ WithinBudget /\ NoDup(recency) /\ MapIsMemory
    BY <1>2, <1>3 DEF Consistent, WithinBudget, NoDup, MapIsMemory
  <1>5. HoldsMostRecent
    BY <1>2 DEF HoldsMostRecent
  <1>6. ReadsMemory
    BY DEF Init, ReadsMemory
  <1> QED
    BY <1>1, <1>4, <1>5, <1>6 DEF IInv

\* Every step of every reader preserves the invariant.
LEMMA NextIInv == IInv /\ [Next]_vars => IInv'
  <1> SUFFICES ASSUME IInv, [Next]_vars PROVE IInv'
    OBVIOUS
  <1> DEFINE CacheOK == /\ Consistent /\ WithinBudget /\ HoldsMostRecent
                        /\ NoDup(recency) /\ MapIsMemory
                        /\ lru \in Seq(Pages) /\ recency \in Seq(Pages)
                        /\ bytes \in Nat /\ DOMAIN map \subseteq Pages
  <1>1. CacheOK
    BY DEF IInv, TypeOK
  <1>2. ASSUME UNCHANGED <<lru, map, bytes, recency>> PROVE CacheOK'
    BY <1>1, <1>2 DEF Consistent, WithinBudget, HoldsMostRecent, NoDup, MapIsMemory, Range
  <1>3. ASSUME NEW r \in Readers, NEW first \in Pages, NEW final \in Pages,
               Read(r, first, final)
        PROVE  IInv'
    <2>1. CacheOK'
      BY <1>2, <1>3 DEF Read, cache
    <2>2. TypeOK'
      BY <1>3, <2>1, UserPageCacheAssumption DEF IInv, TypeOK, Read, Pages
    <2>3. ReadsMemory'
      BY <1>3 DEF IInv, TypeOK, ReadsMemory, Read
    <2> QED
      BY <2>1, <2>2, <2>3 DEF IInv
  <1>4. ASSUME NEW r \in Readers, Hit(r) \/ InsertRaced(r)
        PROVE  IInv'
    <2>1. /\ pc[r] # "idle" /\ cur[r] \in DOMAIN map /\ Promote(cur[r])
          /\ Deliver(r, Mem[cur[r]])
      BY <1>4 DEF Hit, InsertRaced, IInv, MapIsMemory
    <2>2. CacheOK'
      BY <2>1, <1>1, PromoteIInv DEF Promote
    <2> QED
      BY <2>1, <2>2, DeliverReads DEF IInv, TypeOK
  <1>5. ASSUME NEW r \in Readers, InsertNew(r)
        PROVE  IInv'
    <2>1. pc[r] # "idle" /\ Deliver(r, Mem[cur[r]])
      BY <1>5 DEF InsertNew
    <2>2. CacheOK'
      BY <1>5, InsertIInv
    <2> QED
      BY <2>1, <2>2, DeliverReads DEF IInv, TypeOK
  <1>6. ASSUME NEW r \in Readers, Miss(r) \/ Decode(r) \/ DecodeThrows(r)
        PROVE  IInv'
    <2>1. CacheOK'
      BY <1>2, <1>6 DEF Miss, Decode, DecodeThrows, cache
    <2>2. TypeOK' /\ ReadsMemory'
      BY <1>6, <2>1 DEF IInv, TypeOK, ReadsMemory, Miss, Decode, DecodeThrows
    <2> QED
      BY <2>1, <2>2 DEF IInv
  <1>7. CASE UNCHANGED vars
    <2>1. CacheOK'
      BY <1>2, <1>7 DEF vars
    <2>2. TypeOK' /\ ReadsMemory'
      BY <1>7, <2>1 DEF IInv, TypeOK, ReadsMemory, vars
    <2> QED
      BY <2>1, <2>2 DEF IInv
  <1> QED
    BY <1>3, <1>4, <1>5, <1>6, <1>7 DEF Next, Step

\* The inductive invariant holds in every reachable state.
THEOREM Invariance == Spec => []IInv
  BY InitIInv, NextIInv, PTL DEF Spec

\* List, map and byte count agree, whatever the interleaving of fetches.
THEOREM CacheConsistent == Spec => []Consistent
  <1>1. IInv => Consistent
    BY DEF IInv
  <1> QED
    BY <1>1, Invariance, PTL

\* The budget is kept and what fetch() inserts survives its own eviction.
THEOREM BudgetKept == Spec => []WithinBudget
  <1>1. IInv => WithinBudget
    BY DEF IInv
  <1> QED
    BY <1>1, Invariance, PTL

\* The cache holds the most recently fetched pages: it is an LRU cache.
THEOREM LeastRecentlyUsed == Spec => []HoldsMostRecent
  <1>1. IInv => HoldsMostRecent
    BY DEF IInv
  <1> QED
    BY <1>1, Invariance, PTL

\* Readers are given the bytes of the pages they asked for.
THEOREM ReadsAreMemory == Spec => []ReadsMemory
  <1>1. IInv => ReadsMemory
    BY DEF IInv
  <1> QED
    BY <1>1, Invariance, PTL

---------------------------------------------------------------------------
(* FrameCache: lists and the recency order.                                *)

\* s is the beginning of g.
Leads(s, g) == Len(s) <= Len(g) /\ \A i \in 1..Len(s) : s[i] = g[i]

\* A list promoted with the order it leads still leads it.
LEMMA PromoteLeads ==
    ASSUME NEW S, NEW s \in Seq(S), NEW g \in Seq(S), NoDup(g), Leads(s, g), NEW p \in Range(s)
    PROVE  Leads(ToFront(s, PositionOf(s, p)), Used(g, p))
  <1> DEFINE i == PositionOf(s, p)
             k == PositionOf(g, p)
  <1>1. i \in 1..Len(s) /\ s[i] = p
    BY PositionFacts
  <1>2. Len(s) \in Nat /\ Len(g) \in Nat /\ DOMAIN g = 1..Len(g)
    OBVIOUS
  <1>3. i \in 1..Len(g) /\ g[i] = p
    BY <1>1, <1>2 DEF Leads
  <1>4. p \in Range(g)
    BY <1>2, <1>3 DEF Range
  <1>5. k \in 1..Len(g) /\ g[k] = p
    BY <1>4, PositionFacts
  <1>6. k = i
    BY <1>3, <1>5 DEF NoDup
  <1>7. Used(g, p) = ToFront(g, i)
    BY <1>4, <1>6 DEF Used
  <1> HIDE DEF i, k
  <1>8. /\ Len(ToFront(s, i)) = Len(s)
        /\ ToFront(s, i)[1] = s[i]
        /\ \A j \in 2..i : ToFront(s, i)[j] = s[j - 1]
        /\ \A j \in (i + 1)..Len(s) : ToFront(s, i)[j] = s[j]
    BY <1>1, ToFrontFacts
  <1>9. /\ Len(ToFront(g, i)) = Len(g)
        /\ ToFront(g, i)[1] = g[i]
        /\ \A j \in 2..i : ToFront(g, i)[j] = g[j - 1]
        /\ \A j \in (i + 1)..Len(g) : ToFront(g, i)[j] = g[j]
    BY <1>3, ToFrontFacts
  <1>10. ASSUME NEW j \in 1..Len(s) PROVE ToFront(s, i)[j] = ToFront(g, i)[j]
    <2>1. CASE j = 1
      BY <2>1, <1>1, <1>3, <1>8, <1>9
    <2>2. CASE j \in 2..i
      <3>1. j - 1 \in 1..Len(s) /\ s[j - 1] = g[j - 1]
        BY <2>2, <1>1, <1>2 DEF Leads
      <3> QED
        BY <2>2, <3>1, <1>8, <1>9
    <2>3. CASE j \in (i + 1)..Len(s)
      <3>1. j \in (i + 1)..Len(g) /\ s[j] = g[j]
        BY <2>3, <1>2 DEF Leads
      <3> QED
        BY <2>3, <3>1, <1>8, <1>9
    <2> QED
      BY <2>1, <2>2, <2>3, <1>1, <1>2
  <1> QED
    BY <1>7, <1>8, <1>9, <1>10 DEF Leads, i

\* A new element in front, and any of the last ones taken off the back.
LEMMA InsertLeads ==
    ASSUME NEW S, NEW s \in Seq(S), NEW g \in Seq(S), NoDup(g), Leads(s, g),
           NEW p \in S, p \notin Range(s), NEW m \in 0..(Len(s) + 1)
    PROVE  Leads(SubSeq(<<p>> \o s, 1, m), Used(g, p))
  <1> DEFINE list == <<p>> \o s
             front == SubSeq(list, 1, m)
  <1> SUFFICES Leads(front, Used(g, p))
    OBVIOUS
  <1>1. /\ list \in Seq(S) /\ Len(list) = Len(s) + 1 /\ list[1] = p
        /\ \A j \in 2..(Len(s) + 1) : list[j] = s[j - 1]
    BY PushFacts
  <1>2. Len(s) \in Nat /\ Len(g) \in Nat /\ DOMAIN g = 1..Len(g) /\ DOMAIN s = 1..Len(s)
    OBVIOUS
  <1> HIDE DEF list
  <1>3. Len(front) = m /\ \A j \in 1..m : front[j] = list[j]
    BY <1>1, <1>2
  <1> HIDE DEF front
  <1>4. CASE p \in Range(g)
    <2> DEFINE k == PositionOf(g, p)
    <2>1. k \in 1..Len(g) /\ g[k] = p /\ Used(g, p) = ToFront(g, k)
      BY <1>4, PositionFacts DEF Used
    <2> HIDE DEF k
    <2>2. k > Len(s)
      <3> SUFFICES ASSUME k <= Len(s) PROVE FALSE
        BY <1>2, <2>1
      <3>1. k \in 1..Len(s) /\ s[k] = p
        BY <2>1, <1>2 DEF Leads
      <3> QED
        BY <3>1, <1>2 DEF Range
    <2>3. /\ Len(ToFront(g, k)) = Len(g)
          /\ ToFront(g, k)[1] = g[k]
          /\ \A j \in 2..k : ToFront(g, k)[j] = g[j - 1]
      BY <2>1, ToFrontFacts
    <2>4. ASSUME NEW j \in 1..m PROVE front[j] = ToFront(g, k)[j]
      <3>1. CASE j = 1
        BY <3>1, <1>1, <1>3, <2>1, <2>3
      <3>2. CASE j # 1
        <4>1. j \in 2..k /\ j \in 2..(Len(s) + 1) /\ j - 1 \in 1..Len(s)
          BY <3>2, <1>2, <2>1, <2>2
        <4>2. s[j - 1] = g[j - 1]
          BY <4>1 DEF Leads
        <4> QED
          BY <4>1, <4>2, <1>1, <1>3, <2>3
      <3> QED
        BY <3>1, <3>2
    <2>5. m <= Len(g)
      BY <1>2, <2>1, <2>2
    <2> QED
      BY <1>3, <2>1, <2>3, <2>4, <2>5 DEF Leads
  <1>5. CASE p \notin Range(g)
    <2>1. Used(g, p) = <<p>> \o g
      BY <1>5 DEF Used
    <2>2. /\ Len(<<p>> \o g) = Len(g) + 1 /\ (<<p>> \o g)[1] = p
          /\ \A j \in 2..(Len(g) + 1) : (<<p>> \o g)[j] = g[j - 1]
      BY PushFacts
    <2>3. ASSUME NEW j \in 1..m PROVE front[j] = (<<p>> \o g)[j]
      <3>1. CASE j = 1
        BY <3>1, <1>1, <1>3, <2>2
      <3>2. CASE j # 1
        <4>1. j \in 2..(Len(g) + 1) /\ j \in 2..(Len(s) + 1) /\ j - 1 \in 1..Len(s)
          BY <3>2, <1>2 DEF Leads
        <4>2. s[j - 1] = g[j - 1]
          BY <4>1 DEF Leads
        <4> QED
          BY <4>1, <4>2, <1>1, <1>3, <2>2
      <3> QED
        BY <3>1, <3>2
    <2>5. m <= Len(g) + 1
      BY <1>2 DEF Leads
    <2> QED
      BY <1>3, <2>1, <2>2, <2>3, <2>5 DEF Leads
  <1> QED
    BY <1>4, <1>5

---------------------------------------------------------------------------
(* FrameCache: the bytes of a list.                                        *)

\* w counts the bytes of the first frames of s.
Tally(w, s) ==
    w \in [0..Len(s) -> Nat] /\ w[0] = 0 /\ \A i \in 1..Len(s) : w[i] = w[i - 1] + Size[s[i]]

\* Every list has a tally: the sizes added up from its front.
LEMMA TallyExists ==
    ASSUME NEW s \in Seq(Frames)
    PROVE  \E w : Tally(w, s)
  <1> DEFINE n == Len(s)
             step == [i \in 1..n |-> [x \in Nat |-> x + Size[s[i]]]]
  <1>1. n \in Nat /\ \A i \in 1..n : Size[s[i]] \in Nat
    BY FrameCacheAssumption DEF Frames
  <1>2. step \in [1..n -> [Nat -> Nat]] /\ \A i \in 1..n, x \in Nat : step[i][x] = x + Size[s[i]]
    BY <1>1
  <1>3. Counting!Steps(step, 0, n, Nat)
    <2> HIDE DEF step, n
    <2> QED BY <1>1, <1>2 DEF Counting!Steps
  <1> HIDE DEF step
  <1>4. PICK w : Counting!Record(w, step, 0, n, Nat)
    <2> HIDE DEF n
    <2> QED BY <1>3, Counting!Iteration
  <1>5. w \in [0..n -> Nat] /\ w[0] = 0 /\ \A i \in 1..n : w[i] = step[i][w[i - 1]]
    BY <1>4 DEF Counting!Record
  <1>6. \A i \in 1..n : w[i] = w[i - 1] + Size[s[i]]
    <2> SUFFICES ASSUME NEW i \in 1..n PROVE w[i] = w[i - 1] + Size[s[i]]
      OBVIOUS
    <2>1. i - 1 \in 0..n
      BY <1>1
    <2>2. w[i - 1] \in Nat
      BY <1>5, <2>1
    <2> QED BY <1>2, <1>5, <2>2
  <1> QED
    BY <1>5, <1>6 DEF Tally

\* A count that grows from one position to the next is the one the recursion defines.
LEMMA TotalTally ==
    ASSUME NEW s \in Seq(Frames), NEW w, Tally(w, s)
    PROVE  TotalSize(s) = w[Len(s)]
  <1> DEFINE n == Len(s)
             Rec(f) == f = [i \in 0..n |-> IF i = 0 THEN 0 ELSE f[i - 1] + Size[s[i]]]
             at == CHOOSE f : Rec(f)
  <1>0. n \in Nat /\ w \in [0..n -> Nat] /\ w[0] = 0 /\ \A i \in 1..n : w[i] = w[i - 1] + Size[s[i]]
    BY DEF Tally
  <1>1. TotalSize(s) = at[n]
    BY DEF TotalSize
  <1> HIDE DEF n
  <1>2. Rec(w)
    <2>1. \A i \in 0..n : w[i] = IF i = 0 THEN 0 ELSE w[i - 1] + Size[s[i]]
      BY <1>0
    <2> QED BY <1>0, <2>1
  <1>3. Rec(at)
    <2> HIDE DEF Rec
    <2> QED BY <1>2
  <1>4. \A i \in 0..n : at[i] = IF i = 0 THEN 0 ELSE at[i - 1] + Size[s[i]]
    <2> HIDE DEF at
    <2> QED BY <1>3
  <1> HIDE DEF at
  <1> DEFINE Good == {k \in 0..n : at[k] = w[k]}
  <1>5. 0 \in Good
    BY <1>0, <1>4
  <1>6. \A k \in 0..(n - 1) : k \in Good => k + 1 \in Good
    <2> SUFFICES ASSUME NEW k \in 0..(n - 1), k \in Good PROVE k + 1 \in Good
      OBVIOUS
    <2>1. k + 1 \in 1..n /\ k + 1 # 0 /\ (k + 1) - 1 = k
      BY <1>0
    <2>2. at[k + 1] = at[k] + Size[s[k + 1]]
      BY <1>4, <2>1, <1>0
    <2>3. w[k + 1] = w[k] + Size[s[k + 1]]
      BY <1>0, <2>1
    <2> QED BY <2>1, <2>2, <2>3, <1>0
  <1>7. \A k \in 0..n : k \in Good
    <2> HIDE DEF Good
    <2> QED BY <1>0, <1>5, <1>6, Counting!CountingUp
  <1> QED BY <1>0, <1>1, <1>7 DEF n

\* Promotion moves no bytes in or out.
LEMMA TotalToFront ==
    ASSUME NEW s \in Seq(Frames), NEW i \in 1..Len(s)
    PROVE  TotalSize(ToFront(s, i)) = TotalSize(s)
  <1> DEFINE n == Len(s)
             t == ToFront(s, i)
  <1>1. PICK w : Tally(w, s)
    BY TallyExists
  <1>2. n \in Nat /\ w \in [0..n -> Nat] /\ w[0] = 0 /\ \A j \in 1..n : w[j] = w[j - 1] + Size[s[j]]
    BY <1>1 DEF Tally
  <1>3. /\ t \in Seq(Frames) /\ Len(t) = n /\ t[1] = s[i]
        /\ \A j \in 2..i : t[j] = s[j - 1]
        /\ \A j \in (i + 1)..n : t[j] = s[j]
    BY ToFrontFacts
  <1>4. \A j \in 1..n : Size[s[j]] \in Nat
    BY FrameCacheAssumption DEF Frames
  <1> DEFINE v == [j \in 0..n |-> IF j = 0 \/ j >= i THEN w[j] ELSE Size[s[i]] + w[j - 1]]
  <1> HIDE DEF n, t
  <1>5. v \in [0..n -> Nat] /\ v[0] = 0
    <2>1. \A j \in 0..n : (j = 0 \/ j >= i) \/ j - 1 \in 0..n
      BY <1>2
    <2> QED BY <1>2, <1>4, <2>1 DEF n
  <1>6. ASSUME NEW j \in 1..n PROVE v[j] = v[j - 1] + Size[t[j]]
    <2>0. j - 1 \in 0..n /\ w[j] = w[j - 1] + Size[s[j]] /\ w[j - 1] \in Nat /\ i \in 1..n
      BY <1>2 DEF n
    <2>1. CASE j > i
      <3>1. v[j] = w[j] /\ v[j - 1] = w[j - 1] /\ j \in (i + 1)..n
        BY <2>0, <2>1
      <3> HIDE DEF v
      <3> QED BY <2>0, <3>1, <1>3
    <2>2. CASE j <= i /\ j = 1
      <3>1. v[j] = Size[s[i]]
        <4>1. CASE i = 1
          BY <4>1, <2>2, <2>0, <1>2, <1>4
        <4>2. CASE i > 1
          BY <4>2, <2>2, <2>0, <1>2, <1>4
        <4> QED BY <4>1, <4>2, <2>0
      <3> QED BY <3>1, <2>0, <2>2, <1>2, <1>3, <1>4, <1>5
    <2>3. CASE j <= i /\ j > 1
      <3>0. j - 1 \in 1..n /\ j - 2 \in 0..n /\ (j - 1) - 1 = j - 2
        BY <2>3, <1>2
      <3>a. w[j - 1] = w[(j - 1) - 1] + Size[s[j - 1]]
        BY <3>0, <1>2
      <3>b. w[j - 2] \in Nat
        BY <3>0, <1>2
      <3>1. /\ j - 1 \in 1..n /\ j - 2 \in 0..n /\ w[j - 1] = w[j - 2] + Size[s[j - 1]]
            /\ w[j - 2] \in Nat
        BY <3>0, <3>a, <3>b
      <3>2. v[j - 1] = Size[s[i]] + w[j - 2]
        BY <2>3, <3>1, <2>0
      <3>3. t[j] = s[j - 1]
        BY <2>3, <2>0, <1>3
      <3>4. v[j] = Size[s[i]] + w[j - 1]
        <4>1. CASE j = i
          BY <4>1, <2>0, <1>2, <1>4
        <4>2. CASE j < i
          BY <4>2, <2>0, <2>3
        <4> QED BY <4>1, <4>2, <2>3, <2>0
      <3>5. Size[s[i]] \in Nat /\ Size[s[j - 1]] \in Nat
        BY <3>1, <2>0, <1>4 DEF n
      <3> HIDE DEF v
      <3> QED BY <3>1, <3>2, <3>3, <3>4, <3>5, <2>0
    <2> QED BY <2>1, <2>2, <2>3, <2>0
  <1>7. v[n] = w[n]
    BY <1>2 DEF n
  <1> HIDE DEF v
  <1>8. Tally(v, t)
    BY <1>3, <1>5, <1>6 DEF Tally
  <1>9. TotalSize(t) = v[n] /\ TotalSize(s) = w[n]
    <2>1. TotalSize(t) = v[Len(t)]
      BY <1>3, <1>8, TotalTally
    <2>2. TotalSize(s) = w[Len(s)]
      BY <1>1, TotalTally
    <2> QED BY <2>1, <2>2, <1>3 DEF n
  <1> QED BY <1>7, <1>9 DEF t

\* The bytes of a list with a new frame in front.
LEMMA TotalPush ==
    ASSUME NEW s \in Seq(Frames), NEW f \in Frames
    PROVE  TotalSize(<<f>> \o s) = TotalSize(s) + Size[f]
  <1> DEFINE n == Len(s)
             t == <<f>> \o s
  <1>1. PICK w : Tally(w, s)
    BY TallyExists
  <1>2. n \in Nat /\ w \in [0..n -> Nat] /\ w[0] = 0 /\ \A j \in 1..n : w[j] = w[j - 1] + Size[s[j]]
    BY <1>1 DEF Tally
  <1>3. /\ t \in Seq(Frames) /\ Len(t) = n + 1 /\ t[1] = f
        /\ \A j \in 2..(n + 1) : t[j] = s[j - 1]
    BY PushFacts
  <1>4. Size[f] \in Nat
    BY FrameCacheAssumption DEF Frames
  <1>a. \A j \in 1..n : Size[s[j]] \in Nat
    BY FrameCacheAssumption DEF Frames
  <1> DEFINE v == [j \in 0..(n + 1) |-> IF j = 0 THEN 0 ELSE w[j - 1] + Size[f]]
  <1> HIDE DEF n, t
  <1>5. v \in [0..(n + 1) -> Nat] /\ v[0] = 0 /\ v[n + 1] = w[n] + Size[f]
    <2>1. \A j \in 0..(n + 1) : j = 0 \/ j - 1 \in 0..n
      BY <1>2
    <2> QED BY <1>2, <1>4, <2>1
  <1>6. ASSUME NEW j \in 1..(n + 1) PROVE v[j] = v[j - 1] + Size[t[j]]
    <2>0. j - 1 \in 0..n /\ w[j - 1] \in Nat /\ v[j] = w[j - 1] + Size[f]
      BY <1>2
    <2>1. CASE j = 1
      BY <2>0, <2>1, <1>2, <1>3, <1>4
    <2>2. CASE j # 1
      <3>1. j - 1 \in 1..n /\ j \in 2..(n + 1) /\ (j - 1) - 1 \in 0..n
        BY <2>0, <2>2, <1>2
      <3>2. w[j - 1] = w[(j - 1) - 1] + Size[s[j - 1]]
        BY <3>1, <1>2
      <3>3. t[j] = s[j - 1]
        BY <3>1, <1>3
      <3>4. v[j - 1] = w[(j - 1) - 1] + Size[f]
        <4>1. j - 1 \in 0..(n + 1) /\ j - 1 # 0
          BY <1>2, <3>1
        <4> QED BY <4>1
      <3>5. w[(j - 1) - 1] \in Nat
        BY <3>1, <1>2
      <3>6. Size[s[j - 1]] \in Nat
        BY <3>1, <1>a
      <3> HIDE DEF v
      <3> QED BY <2>0, <3>2, <3>3, <3>4, <3>5, <3>6, <1>4
    <2> QED BY <2>1, <2>2
  <1> HIDE DEF v
  <1>8. Tally(v, t)
    BY <1>3, <1>5, <1>6 DEF Tally
  <1>9. TotalSize(t) = v[n + 1] /\ TotalSize(s) = w[n]
    <2>1. TotalSize(t) = v[Len(t)]
      BY <1>3, <1>8, TotalTally
    <2>2. TotalSize(s) = w[Len(s)]
      BY <1>1, TotalTally
    <2> QED BY <2>1, <2>2, <1>3 DEF n
  <1> QED BY <1>5, <1>9 DEF t

\* The bytes of the first frames of a list.
LEMMA TotalFront ==
    ASSUME NEW s \in Seq(Frames), NEW w, Tally(w, s), NEW m \in 0..Len(s)
    PROVE  TotalSize(SubSeq(s, 1, m)) = w[m]
  <1> DEFINE t == SubSeq(s, 1, m)
             v == [j \in 0..m |-> w[j]]
  <1>1. t \in Seq(Frames) /\ Len(t) = m /\ \A j \in 1..m : t[j] = s[j]
    OBVIOUS
  <1>2. v \in [0..m -> Nat] /\ v[0] = 0 /\ \A j \in 1..m : v[j] = v[j - 1] + Size[s[j]]
    BY DEF Tally
  <1>3. v[m] = w[m]
    OBVIOUS
  <1> HIDE DEF t, v
  <1>4. Tally(v, t)
    BY <1>1, <1>2 DEF Tally
  <1>5. TotalSize(t) = v[Len(t)]
    BY <1>1, <1>4, TotalTally
  <1> QED BY <1>1, <1>3, <1>5 DEF t

\* What evict_if_needed() leaves: the first frames of the list, as many as the
\* budget has room for.
Evicted(list, w, b, n) ==
    /\ \A k \in 0..(n - 1) : w[Len(list) - k] > MaxBytes
    /\ w[Len(list) - n] <= MaxBytes \/ n = Len(list)
    /\ order' = SubSeq(list, 1, Len(list) - n)
    /\ bufs' = [f \in DOMAIN b \ {list[i] : i \in (Len(list) - n + 1)..Len(list)} |-> b[f]]
    /\ frameBytes' = w[Len(list) - n]

\* The loop of evict_if_needed() leaves a front of the list and its tally.
LEMMA EvictFacts ==
    ASSUME NEW list \in Seq(Frames), NEW w, Tally(w, list), NEW b, NEW sum, sum = w[Len(list)],
           EvictIfNeeded(list, b, sum)
    PROVE  \E n \in 0..Len(list) : Evicted(list, w, b, n)
  <1> DEFINE m == Len(list)
             Rec(f) == f = [k \in 0..m |-> IF k = 0 THEN sum ELSE f[k - 1] - Size[list[m - k + 1]]]
             left == CHOOSE f : Rec(f)
             back == [k \in 0..m |-> w[m - k]]
  <1>a. \A i \in 1..m : Size[list[i]] \in Nat
    BY FrameCacheAssumption DEF Frames
  <1>0. /\ m \in Nat /\ w \in [0..m -> Nat] /\ \A i \in 1..m : w[i] = w[i - 1] + Size[list[i]]
        /\ sum = w[m] /\ \A i \in 1..m : Size[list[i]] \in Nat
    BY <1>a DEF Tally
  <1>1. PICK n \in 0..m :
            /\ \A k \in 0..(n - 1) : left[k] > MaxBytes
            /\ left[n] <= MaxBytes \/ n = m
            /\ order' = SubSeq(list, 1, m - n)
            /\ bufs' = [f \in DOMAIN b \ {list[i] : i \in (m - n + 1)..m} |-> b[f]]
            /\ frameBytes' = left[n]
    BY DEF EvictIfNeeded
  <1> HIDE DEF m
  <1>2. Rec(back)
    <2>1. ASSUME NEW k \in 1..m PROVE back[k] = back[k - 1] - Size[list[m - k + 1]]
      <3>1. m - k + 1 \in 1..m /\ (m - k + 1) - 1 = m - k /\ m - (k - 1) = m - k + 1
            /\ k - 1 \in 0..m /\ k \in 0..m /\ m - k \in 0..m
        BY <1>0
      <3>2. back[k] = w[m - k] /\ back[k - 1] = w[m - k + 1]
        BY <3>1
      <3>3. w[m - k + 1] = w[m - k] + Size[list[m - k + 1]]
        BY <1>0, <3>1
      <3>4. w[m - k] \in Nat /\ Size[list[m - k + 1]] \in Nat
        BY <1>0, <3>1
      <3> HIDE DEF back
      <3> QED BY <3>2, <3>3, <3>4
    <2>2. back[0] = sum
      BY <1>0
    <2>3. \A k \in 0..m : back[k] = IF k = 0 THEN sum ELSE back[k - 1] - Size[list[m - k + 1]]
      <3> HIDE DEF back
      <3> QED BY <1>0, <2>1, <2>2
    <2> QED BY <2>3
  <1>3. Rec(left)
    <2> HIDE DEF Rec
    <2> QED BY <1>2
  <1>4. \A k \in 0..m : left[k] = IF k = 0 THEN sum ELSE left[k - 1] - Size[list[m - k + 1]]
    <2> HIDE DEF left
    <2> QED BY <1>3
  <1>5. \A k \in 0..m : back[k] = IF k = 0 THEN sum ELSE back[k - 1] - Size[list[m - k + 1]]
    <2> HIDE DEF back
    <2> QED BY <1>2
  <1>6. \A k \in 0..m : back[k] = w[m - k]
    OBVIOUS
  <1> HIDE DEF left, back, Rec
  <1> DEFINE Good == {k \in 0..m : left[k] = back[k]}
  <1>7. 0 \in Good
    BY <1>0, <1>4, <1>5
  <1>8. \A k \in 0..(m - 1) : k \in Good => k + 1 \in Good
    <2> SUFFICES ASSUME NEW k \in 0..(m - 1), k \in Good PROVE k + 1 \in Good
      OBVIOUS
    <2>1. k + 1 \in 0..m /\ k + 1 # 0 /\ (k + 1) - 1 = k
      BY <1>0
    <2>2. left[k + 1] = left[k] - Size[list[m - (k + 1) + 1]]
      BY <1>4, <2>1
    <2>3. back[k + 1] = back[k] - Size[list[m - (k + 1) + 1]]
      BY <1>5, <2>1
    <2> QED BY <2>1, <2>2, <2>3
  <1>9. \A k \in 0..m : k \in Good
    <2> HIDE DEF Good
    <2> QED BY <1>0, <1>7, <1>8, Counting!CountingUp
  <1>10. \A k \in 0..m : left[k] = w[m - k]
    BY <1>6, <1>9
  <1>11. \A k \in 0..(n - 1) : w[m - k] > MaxBytes
    <2> SUFFICES ASSUME NEW k \in 0..(n - 1) PROVE w[m - k] > MaxBytes
      OBVIOUS
    <2>1. k \in 0..m
      BY <1>0, <1>1
    <2>2. left[k] > MaxBytes
      BY <1>1
    <2> QED BY <2>1, <2>2, <1>10
  <1>12. left[n] = w[m - n]
    BY <1>10
  <1> QED BY <1>1, <1>11, <1>12 DEF m, Evicted

---------------------------------------------------------------------------
(* FrameCache: the invariant.                                              *)

\* The inductive invariant of the frame cache.
FrameIInv ==
    /\ order \in Seq(Frames) /\ got \in Seq(Frames)
    /\ NoDup(got)
    /\ framePc \in [FrameReaders -> {"idle", "get", "copy"}]
    /\ frame \in [FrameReaders -> Nat] /\ lastFrame \in [FrameReaders -> Nat]
    /\ \A r \in FrameReaders : framePc[r] # "idle" =>
          frame[r] \in Frames /\ lastFrame[r] \in Frames /\ frame[r] <= lastFrame[r]
    /\ FramesKeptByUse

\* What is left of a list when elements are taken off its back.
LEMMA FrontFacts ==
    ASSUME NEW S, NEW list \in Seq(S), NoDup(list), NEW n \in 0..Len(list)
    PROVE  /\ SubSeq(list, 1, Len(list) - n) \in Seq(S)
           /\ Len(SubSeq(list, 1, Len(list) - n)) = Len(list) - n
           /\ NoDup(SubSeq(list, 1, Len(list) - n))
           /\ Range(SubSeq(list, 1, Len(list) - n)) =
                 Range(list) \ {list[i] : i \in (Len(list) - n + 1)..Len(list)}
  <1> DEFINE m == Len(list) - n
             kept == SubSeq(list, 1, m)
  <1>1. Len(list) \in Nat /\ m \in 0..Len(list) /\ DOMAIN list = 1..Len(list)
    OBVIOUS
  <1>2. kept \in Seq(S) /\ Len(kept) = m /\ DOMAIN kept = 1..m /\ \A j \in 1..m : kept[j] = list[j]
    <2> HIDE DEF m
    <2> QED BY <1>1
  <1> HIDE DEF kept
  <1>3. NoDup(kept)
    BY <1>1, <1>2 DEF NoDup
  <1>4. Range(kept) = {list[i] : i \in 1..m}
    BY <1>2 DEF Range
  <1>5. Range(list) = {list[i] : i \in 1..Len(list)}
    BY <1>1 DEF Range
  <1>6. \A i, j \in 1..Len(list) : list[i] = list[j] => i = j
    BY DEF NoDup
  <1>7. Range(kept) = Range(list) \ {list[i] : i \in (m + 1)..Len(list)}
    <2> HIDE DEF m
    <2>1. \A i \in 1..m : i \in 1..Len(list) /\ i \notin (m + 1)..Len(list)
      BY <1>1
    <2>2. \A i \in 1..Len(list) : i \in 1..m \/ i \in (m + 1)..Len(list)
      BY <1>1
    <2>3. \A i \in (m + 1)..Len(list) : i \in 1..Len(list)
      BY <1>1
    <2> QED BY <1>4, <1>5, <1>6, <2>1, <2>2, <2>3
  <1> QED BY <1>2, <1>3, <1>7 DEF kept

\* Range and length of a prefix.
LEMMA LeadsNoDup ==
    ASSUME NEW s, NEW g, Len(s) \in Nat, Len(g) \in Nat, NoDup(g), Leads(s, g)
    PROVE  NoDup(s)
  BY DEF NoDup, Leads

\* An empty cache satisfies it.
LEMMA FrameInitIInv == FrameInit => FrameIInv
  <1> SUFFICES ASSUME FrameInit PROVE FrameIInv
    OBVIOUS
  <1>1. order = <<>> /\ got = <<>> /\ DOMAIN bufs = {} /\ frameBytes = 0
    BY DEF FrameInit
  <1>2. /\ order \in Seq(Frames) /\ got \in Seq(Frames)
        /\ NoDup(got) /\ NoDup(order) /\ Range(order) = {} /\ Len(order) = 0
    BY <1>1 DEF NoDup, Range
  <1>3. TotalSize(order) = 0
    <2>1. PICK w : Tally(w, order)
      BY <1>2, TallyExists
    <2>2. TotalSize(order) = w[Len(order)]
      BY <1>2, <2>1, TotalTally
    <2> QED BY <1>2, <2>1, <2>2 DEF Tally
  <1>4. FramesKeptByUse
    BY <1>1, <1>2, <1>3, FrameCacheAssumption DEF FramesKeptByUse
  <1>5. framePc \in [FrameReaders -> {"idle", "get", "copy"}]
        /\ frame \in [FrameReaders -> Nat] /\ lastFrame \in [FrameReaders -> Nat]
        /\ \A r \in FrameReaders : framePc[r] = "idle"
    BY DEF FrameInit
  <1> QED BY <1>2, <1>4, <1>5 DEF FrameIInv

\* What a reader does besides keeps its frames.
ReaderOK ==
    /\ framePc \in [FrameReaders -> {"idle", "get", "copy"}]
    /\ frame \in [FrameReaders -> Nat] /\ lastFrame \in [FrameReaders -> Nat]
    /\ \A r \in FrameReaders : framePc[r] # "idle" =>
          frame[r] \in Frames /\ lastFrame[r] \in Frames /\ frame[r] <= lastFrame[r]

\* The part of it that is about the cache; ReaderOK is the part about readers.
BooksOK == order \in Seq(Frames) /\ got \in Seq(Frames) /\ NoDup(got) /\ FramesKeptByUse

\* The two parts are all of it.
LEMMA Halves == FrameIInv <=> ReaderOK /\ BooksOK
  BY Zenon DEF FrameIInv, ReaderOK, BooksOK

\* A hit moves its frame to the front and keeps the books.
LEMMA CachedBooks ==
    ASSUME FrameIInv, NEW r \in FrameReaders, GetCached(r)
    PROVE  BooksOK'
  <1> DEFINE f == frame[r]
             i == PositionOf(order, f)
  <1>1. /\ f \in DOMAIN bufs /\ order' = ToFront(order, i) /\ got' = Used(got, f)
        /\ UNCHANGED <<bufs, frameBytes>>
    BY DEF GetCached
  <1>2. /\ order \in Seq(Frames) /\ got \in Seq(Frames) /\ NoDup(got) /\ NoDup(order)
        /\ Range(order) = DOMAIN bufs /\ frameBytes = TotalSize(order) /\ frameBytes <= MaxBytes
        /\ Leads(order, got) /\ f \in Frames
    <2>1. f \in Frames
      BY DEF FrameIInv, GetCached
    <2> QED BY <2>1 DEF FrameIInv, FramesKeptByUse, Leads
  <1>3. f \in Range(order)
    BY <1>1, <1>2
  <1> HIDE DEF f
  <1>4. i \in 1..Len(order)
    BY <1>2, <1>3, PositionFacts
  <1>5. Leads(order', got')
    BY <1>1, <1>2, <1>3, PromoteLeads
  <1> HIDE DEF i
  <1>6. /\ order' \in Seq(Frames) /\ Len(order') = Len(order) /\ Range(order') = Range(order)
        /\ NoDup(order')
    BY <1>1, <1>2, <1>4, ToFrontFacts
  <1>7. TotalSize(order') = TotalSize(order)
    BY <1>1, <1>2, <1>4, TotalToFront
  <1>8. got' \in Seq(Frames) /\ NoDup(got')
    BY <1>1, <1>2, UsedFacts
  <1>9. order' # <<>>
    BY <1>2, <1>4, <1>6
  <1>10. NoDup(order)' /\ Range(order)' = DOMAIN bufs' /\ frameBytes' = TotalSize(order)'
        /\ frameBytes' <= MaxBytes
    BY <1>1, <1>2, <1>6, <1>7 DEF NoDup
  <1>11. FramesKeptByUse'
    BY <1>5, <1>9, <1>10 DEF FramesKeptByUse, Leads
  <1> QED BY <1>6, <1>8, <1>11 DEF BooksOK, NoDup

\* An insertion and the eviction after it keep the books.
LEMMA DecodedBooks ==
    ASSUME FrameIInv, NEW r \in FrameReaders, GetDecoded(r)
    PROVE  BooksOK'
  <1> DEFINE f == frame[r]
             list == <<f>> \o order
             b == [g \in DOMAIN bufs \cup {f} |-> IF g = f THEN nextBuf ELSE bufs[g]]
  <1>1. /\ f \notin DOMAIN bufs /\ got' = Used(got, f)
        /\ EvictIfNeeded(list, b, frameBytes + Size[f])
    BY DEF GetDecoded
  <1>2. /\ order \in Seq(Frames) /\ got \in Seq(Frames) /\ NoDup(got) /\ NoDup(order)
        /\ Range(order) = DOMAIN bufs /\ frameBytes = TotalSize(order)
        /\ Leads(order, got) /\ f \in Frames
    <2>1. f \in Frames
      BY DEF FrameIInv, GetDecoded
    <2> QED BY <2>1 DEF FrameIInv, FramesKeptByUse, Leads
  <1>a. Size[f] \in Nat /\ Size[f] <= MaxBytes /\ MaxBytes \in Nat
    BY <1>2, FrameCacheAssumption DEF Frames
  <1> HIDE DEF f
  <1>3. DOMAIN b = DOMAIN bufs \cup {f}
    OBVIOUS
  <1>4. /\ list \in Seq(Frames) /\ Len(list) = Len(order) + 1 /\ list[1] = f
        /\ Range(list) = Range(order) \cup {f} /\ NoDup(list)
    BY <1>1, <1>2, PushFacts
  <1>5. TotalSize(list) = frameBytes + Size[f]
    BY <1>2, TotalPush
  <1>b. \A m \in 0..(Len(order) + 1) : Leads(SubSeq(list, 1, m), Used(got, f))
    BY <1>1, <1>2, InsertLeads
  <1> HIDE DEF list, b
  <1>6. PICK w : Tally(w, list)
    BY <1>4, TallyExists
  <1>7. frameBytes + Size[f] = w[Len(list)]
    BY <1>4, <1>5, <1>6, TotalTally
  <1>c. PICK n \in 0..Len(list) : Evicted(list, w, b, n)
    BY <1>1, <1>4, <1>6, <1>7, EvictFacts
  <1>8. /\ \A k \in 0..(n - 1) : w[Len(list) - k] > MaxBytes
        /\ w[Len(list) - n] <= MaxBytes \/ n = Len(list)
        /\ order' = SubSeq(list, 1, Len(list) - n)
        /\ DOMAIN bufs' = DOMAIN b \ {list[i] : i \in (Len(list) - n + 1)..Len(list)}
        /\ frameBytes' = w[Len(list) - n]
    BY <1>c DEF Evicted
  <1>9. Len(order) \in Nat /\ Len(list) - n \in 0..Len(list)
    BY <1>2, <1>4
  <1>10. /\ w[0] = 0 /\ w \in [0..Len(list) -> Nat]
         /\ \A i \in 1..Len(list) : w[i] = w[i - 1] + Size[list[i]]
    BY <1>6 DEF Tally
  <1>11. /\ order' \in Seq(Frames) /\ Len(order') = Len(list) - n /\ NoDup(order')
         /\ Range(order') = Range(list) \ {list[i] : i \in (Len(list) - n + 1)..Len(list)}
    BY <1>4, <1>8, FrontFacts
  <1>12. Range(order') = DOMAIN bufs'
    BY <1>2, <1>3, <1>4, <1>8, <1>11
  <1>13. TotalSize(order') = frameBytes'
    <2>1. TotalSize(SubSeq(list, 1, Len(list) - n)) = w[Len(list) - n]
      BY <1>4, <1>6, <1>9, TotalFront
    <2> QED BY <1>8, <2>1
  <1>14. frameBytes' <= MaxBytes
    <2>1. CASE n = Len(list)
      <3>1. Len(list) - n = 0
        BY <2>1, <1>9
      <3> QED BY <3>1, <1>a, <1>8, <1>10
    <2>2. CASE n # Len(list)
      BY <2>2, <1>8
    <2> QED BY <2>1, <2>2
  <1>15. n # Len(list)
    <2> SUFFICES ASSUME n = Len(list) PROVE FALSE
      OBVIOUS
    <2>1. Len(list) - 1 \in 0..(n - 1) /\ Len(list) - (Len(list) - 1) = 1 /\ 1 \in 1..Len(list)
      BY <1>4, <1>9
    <2>2. w[1] > MaxBytes
      <3>1. w[Len(list) - (Len(list) - 1)] > MaxBytes
        BY <1>8, <2>1
      <3> QED BY <2>1, <3>1
    <2>3. w[1] = Size[f]
      <3>1. w[1] = w[1 - 1] + Size[list[1]]
        BY <1>10, <2>1
      <3> QED BY <3>1, <1>4, <1>10, <1>a
    <2> QED BY <2>2, <2>3, <1>a
  <1>16. order' # <<>>
    BY <1>9, <1>11, <1>15, <1>4
  <1>17. Leads(order', got')
    <2>1. Len(list) - n \in 0..(Len(order) + 1)
      BY <1>4, <1>9
    <2> QED BY <1>1, <1>8, <1>b, <2>1
  <1>18. got' \in Seq(Frames) /\ NoDup(got')
    BY <1>1, <1>2, UsedFacts
  <1>19. NoDup(order)' /\ Range(order)' = DOMAIN bufs' /\ frameBytes' = TotalSize(order)'
    BY <1>11, <1>12, <1>13 DEF NoDup
  <1>20. FramesKeptByUse'
    BY <1>14, <1>16, <1>17, <1>19 DEF FramesKeptByUse, Leads
  <1> QED BY <1>11, <1>18, <1>20 DEF BooksOK, NoDup

\* Every step of a reader keeps the invariant.
LEMMA FrameNextIInv == FrameIInv /\ [FrameNext]_frameVars => FrameIInv'
  <1> SUFFICES ASSUME FrameIInv, [FrameNext]_frameVars PROVE FrameIInv'
    OBVIOUS
  <1>0. ReaderOK /\ BooksOK
    BY Halves
  <1>1. ASSUME NEW r \in FrameReaders, NEW first \in Frames, NEW final \in Frames, ReadFrames(r, first, final)
        PROVE  FrameIInv'
    <2>1. first \in Nat /\ final \in Nat
      BY FrameCacheAssumption DEF Frames
    <2>2. ReaderOK'
      BY <1>0, <1>1, <2>1 DEF ReaderOK, ReadFrames
    <2>3. BooksOK'
      BY <1>0, <1>1 DEF BooksOK, FramesKeptByUse, ReadFrames, frameCache
    <2> QED BY <2>2, <2>3 DEF FrameIInv, ReaderOK, BooksOK
  <1>2. ASSUME NEW r \in FrameReaders, GetCached(r)
        PROVE  FrameIInv'
    <2>1. ReaderOK'
      BY <1>0, <1>2 DEF ReaderOK, GetCached
    <2>2. BooksOK'
      BY <1>2, CachedBooks
    <2> QED BY <2>1, <2>2 DEF FrameIInv, ReaderOK, BooksOK
  <1>3. ASSUME NEW r \in FrameReaders, GetThrows(r)
        PROVE  FrameIInv'
    <2>1. ReaderOK'
      BY <1>0, <1>3 DEF ReaderOK, GetThrows
    <2>2. BooksOK'
      BY <1>0, <1>3 DEF BooksOK, FramesKeptByUse, GetThrows, frameCache
    <2> QED BY <2>1, <2>2 DEF FrameIInv, ReaderOK, BooksOK
  <1>4. ASSUME NEW r \in FrameReaders, GetDecoded(r)
        PROVE  FrameIInv'
    <2>1. ReaderOK'
      BY <1>0, <1>4 DEF ReaderOK, GetDecoded
    <2>2. BooksOK'
      BY <1>4, DecodedBooks
    <2> QED BY <2>1, <2>2 DEF FrameIInv, ReaderOK, BooksOK
  <1>5. ASSUME NEW r \in FrameReaders, Copy(r)
        PROVE  FrameIInv'
    <2>1. Frames = 1..Len(Size) /\ Len(Size) \in Nat
      BY FrameCacheAssumption DEF Frames
    <2>2. ReaderOK'
      BY <1>0, <1>5, <2>1 DEF ReaderOK, Copy
    <2>3. BooksOK'
      BY <1>0, <1>5 DEF BooksOK, FramesKeptByUse, Copy, frameCache
    <2> QED BY <2>2, <2>3 DEF FrameIInv, ReaderOK, BooksOK
  <1>6. CASE UNCHANGED frameVars
    <2>1. ReaderOK'
      BY <1>0, <1>6 DEF ReaderOK, frameVars
    <2>2. BooksOK'
      BY <1>0, <1>6 DEF BooksOK, FramesKeptByUse, frameVars
    <2> QED BY <2>1, <2>2 DEF FrameIInv, ReaderOK, BooksOK
  <1> QED BY <1>1, <1>2, <1>3, <1>4, <1>5, <1>6 DEF FrameNext

\* The cache of decompressed AVML frames keeps its list, its map and its byte
\* count together, its budget, and the frames got most recently, with the one
\* get() is about to return a pointer into.
THEOREM FramesAreKept == FrameSpec => []FramesKeptByUse
  <1>1. FrameIInv => FramesKeptByUse
    BY DEF FrameIInv
  <1> QED BY <1>1, FrameInitIInv, FrameNextIInv, PTL DEF FrameSpec

---------------------------------------------------------------------------
(* CApi: what a read of kernel memory gives.                               *)

\* An address is its page and its offset in the page.
LEMMA DivFacts ==
    ASSUME NEW x \in Nat, NEW p \in Nat \ {0}
    PROVE  x \div p \in Nat /\ x % p \in 0..(p - 1) /\ x = p * (x \div p) + (x % p)
  OBVIOUS

\* Pages do not overlap.
LEMMA MultipleGrows ==
    ASSUME NEW p \in Nat \ {0}, NEW i \in Nat, NEW j \in Nat, i < j
    PROVE  p * i + p <= p * j
  <1>1. p * (j - i - 1) >= 0
    OBVIOUS
  <1> QED BY <1>1

\* The addresses up to the end of a page lie in it.
LEMMA SamePage ==
    ASSUME NEW x \in Nat, NEW p \in Nat \ {0}, NEW y \in Nat, x <= y, y < x + (p - (x % p))
    PROVE  y \div p = x \div p
  <1>1. x \div p \in Nat /\ x % p \in 0..(p - 1) /\ x = p * (x \div p) + (x % p)
    BY DivFacts
  <1>2. y \div p \in Nat /\ y % p \in 0..(p - 1) /\ y = p * (y \div p) + (y % p)
    BY DivFacts
  <1>3. CASE x \div p < y \div p
    <2>1. p * (x \div p) + p <= p * (y \div p)
      BY <1>1, <1>2, <1>3, MultipleGrows
    <2> QED BY <1>1, <1>2, <2>1
  <1>4. CASE y \div p < x \div p
    <2>1. p * (y \div p) + p <= p * (x \div p)
      BY <1>1, <1>2, <1>4, MultipleGrows
    <2> QED BY <1>1, <1>2, <2>1
  <1> QED BY <1>1, <1>2, <1>3, <1>4

\* Min of two numbers.
LEMMA MinOfTwo ==
    ASSUME NEW x \in Int, NEW y \in Int
    PROVE  Min({x, y}) = IF x <= y THEN x ELSE y
  BY DEF Min

\* A chunk is not empty, ends where the read does at the latest, and does not
\* cross the end of its page.
LEMMA ChunkFacts ==
    ASSUME NEW x \in Nat, NEW n \in Nat \ {0}
    PROVE  /\ Chunk(x, n) \in 1..n
           /\ Chunk(x, n) <= Page - (x % Page)
  <1>1. Page \in Nat \ {0}
    BY CApiAssumption
  <1>2. x % Page \in 0..(Page - 1)
    BY <1>1, DivFacts
  <1>3. Page - (x % Page) \in Int /\ Page - (x % Page) >= 1
    BY <1>1, <1>2
  <1> DEFINE room == Page - (x % Page)
  <1>4. Chunk(x, n) = Min({room, n})
    BY DEF Chunk
  <1> HIDE DEF room
  <1>5. Min({room, n}) = IF room <= n THEN room ELSE n
    BY <1>3, MinOfTwo DEF room
  <1> QED BY <1>3, <1>4, <1>5 DEF room

\* The bytes a range really has.
Bytes(x, n) == [k \in 1..n |-> Byte(x + k - 1)]

\* Within a page kva_read() gives the bytes of the range, mapped or not.
LEMMA ReadWithinPage ==
    ASSUME NEW x \in Nat, NEW n \in Nat, n <= Page - (x % Page)
    PROVE  kva_read(x, n) = Bytes(x, n)
  <1>1. Page \in Nat \ {0}
    BY CApiAssumption
  <1>2. \A j \in x..(x + n - 1) : j \div Page = x \div Page
    <2> SUFFICES ASSUME NEW j \in x..(x + n - 1) PROVE j \div Page = x \div Page
      OBVIOUS
    <2>1. x % Page \in 0..(Page - 1)
      BY <1>1, DivFacts
    <2>2. j \in Nat /\ x <= j /\ j < x + (Page - (x % Page))
      BY <1>1, <2>1
    <2> QED BY <1>1, <2>2, SamePage
  <1>3. ASSUME NEW k \in 1..n
        PROVE  (IF \A j \in x..(x + n - 1) : j \div Page \in Mapped THEN Byte(x + k - 1) ELSE 0) = Byte(x + k - 1)
    <2>1. x + k - 1 \in x..(x + n - 1)
      OBVIOUS
    <2>2. (x + k - 1) \div Page = x \div Page
      BY <1>2, <2>1
    <2>3. CASE x \div Page \in Mapped
      BY <1>2, <2>3
    <2>4. CASE x \div Page \notin Mapped
      <3>1. Byte(x + k - 1) = 0
        BY <2>2, <2>4 DEF Byte
      <3> QED BY <3>1
    <2> QED BY <2>3, <2>4
  <1> QED BY <1>3 DEF kva_read, Bytes

\* One range after the other.
LEMMA BytesJoin ==
    ASSUME NEW x \in Nat, NEW m \in Nat, NEW n \in Nat
    PROVE  Bytes(x, m) \o Bytes(x + m, n) = Bytes(x, m + n)
  <1> DEFINE s == Bytes(x, m)
             t == Bytes(x + m, n)
             u == Bytes(x, m + n)
             V == {Byte(z) : z \in Int}
  <1>1. /\ s \in Seq(V) /\ Len(s) = m /\ \A k \in 1..m : s[k] = Byte(x + k - 1)
        /\ t \in Seq(V) /\ Len(t) = n /\ \A k \in 1..n : t[k] = Byte((x + m) + k - 1)
        /\ u \in Seq(V) /\ Len(u) = m + n /\ \A k \in 1..(m + n) : u[k] = Byte(x + k - 1)
    BY DEF Bytes
  <1> HIDE DEF s, t, u, V
  <1>a. s \in Seq(V) /\ t \in Seq(V) /\ u \in Seq(V) /\ Len(s) = m /\ Len(t) = n /\ Len(u) = m + n
    BY <1>1
  <1>2. s \o t \in Seq(V) /\ Len(s \o t) = m + n
    BY <1>a
  <1>3. ASSUME NEW k \in 1..(m + n) PROVE (s \o t)[k] = u[k]
    <2>1. CASE k <= m
      BY <1>1, <2>1
    <2>2. CASE k > m
      <3>1. k - m \in 1..n /\ (x + m) + (k - m) - 1 = x + k - 1
        BY <2>2
      <3>2. (s \o t)[k] = t[k - m]
        BY <1>1, <2>2
      <3>3. t[k - m] = Byte((x + m) + (k - m) - 1)
        BY <1>1, <3>1
      <3> QED BY <1>1, <3>1, <3>2, <3>3
    <2>3. k <= m \/ k > m
      OBVIOUS
    <2> QED BY <2>1, <2>2, <2>3
  <1>4. s \o t = u
    <2> DEFINE st == s \o t
    <2>1. st \in Seq(V) /\ Len(st) = m + n /\ u \in Seq(V) /\ Len(u) = m + n
      BY <1>a, <1>2
    <2>2. \A k \in 1..(m + n) : st[k] = u[k]
      BY <1>3
    <2> HIDE DEF st
    <2>3. st = u
      BY <2>1, <2>2
    <2> QED BY <2>3 DEF st
  <1> QED BY <1>4 DEF s, t, u

\* lmpfs_mem_read_kva() gives the bytes of the range, whatever pages it crosses.
LEMMA KvaBytes ==
    ASSUME NEW x \in Nat, NEW n \in Nat
    PROVE  lmpfs_mem_read_kva(x, n) = Gives("lmpfs_mem_read_kva", Bytes(x, n))
  <1> DEFINE Filled(f, done) == IF done = n THEN <<>>
                                ELSE kva_read(x + done, Chunk(x + done, n - done)) \o f[done + Chunk(x + done, n - done)]
             Rec(f) == f = [done \in 0..n |-> Filled(f, done)]
             filled == CHOOSE f : Rec(f)
             rest == [done \in 0..n |-> Bytes(x + done, n - done)]
  <1>1. lmpfs_mem_read_kva(x, n) = Gives("lmpfs_mem_read_kva", filled[0])
    BY DEF lmpfs_mem_read_kva
  <1>2. ASSUME NEW done \in 0..n, done # n
        PROVE  /\ Chunk(x + done, n - done) \in 1..(n - done)
               /\ kva_read(x + done, Chunk(x + done, n - done)) = Bytes(x + done, Chunk(x + done, n - done))
    <2>1. x + done \in Nat /\ n - done \in Nat \ {0}
      BY <1>2
    <2>2. Chunk(x + done, n - done) \in 1..(n - done) /\ Chunk(x + done, n - done) <= Page - ((x + done) % Page)
      BY <2>1, ChunkFacts
    <2> QED BY <2>1, <2>2, ReadWithinPage
  <1>3. ASSUME NEW done \in 0..n PROVE rest[done] = Filled(rest, done)
    <2>1. CASE done = n
      <3>1. Bytes(x + done, n - done) = <<>>
        BY <2>1 DEF Bytes
      <3> QED BY <2>1, <3>1
    <2>2. CASE done # n
      <3> DEFINE c == Chunk(x + done, n - done)
      <3>1. c \in 1..(n - done) /\ kva_read(x + done, c) = Bytes(x + done, c)
        BY <1>2, <2>2
      <3>2. Filled(rest, done) = kva_read(x + done, c) \o rest[done + c]
        BY <2>2
      <3> HIDE DEF c
      <3>3. done + c \in 0..n /\ x + done \in Nat /\ c \in Nat /\ n - (done + c) \in Nat
        BY <3>1
      <3>4. rest[done + c] = Bytes(x + (done + c), n - (done + c)) /\ rest[done] = Bytes(x + done, n - done)
        BY <3>3
      <3>5. Bytes(x + done, c) \o Bytes((x + done) + c, n - (done + c)) = Bytes(x + done, c + (n - (done + c)))
        BY <3>3, BytesJoin
      <3>6. (x + done) + c = x + (done + c) /\ c + (n - (done + c)) = n - done
        BY <3>3
      <3> HIDE DEF Filled, rest
      <3> QED BY <3>1, <3>2, <3>4, <3>5, <3>6
    <2> QED BY <2>1, <2>2
  <1>4. Rec(rest)
    <2> HIDE DEF Filled
    <2> QED BY <1>3
  <1>5. Rec(filled)
    <2> HIDE DEF Rec
    <2> QED BY <1>4
  <1>6. \A done \in 0..n : filled[done] = Filled(filled, done)
    <2> HIDE DEF filled, Filled
    <2> QED BY <1>5
  <1>7. \A done \in 0..n : rest[done] = Bytes(x + done, n - done)
    OBVIOUS
  <1> HIDE DEF filled, rest, Rec
  <1> DEFINE Good == {k \in 0..n : \A done \in (n - k)..n : filled[done] = rest[done]}
  <1>8. 0 \in Good
    <2>1. filled[n] = Filled(filled, n) /\ rest[n] = Filled(rest, n)
      BY <1>3, <1>6
    <2>2. filled[n] = <<>> /\ rest[n] = <<>>
      BY <2>1
    <2> QED BY <2>2
  <1>9. \A k \in 0..(n - 1) : k \in Good => k + 1 \in Good
    <2> SUFFICES ASSUME NEW k \in 0..(n - 1), k \in Good PROVE k + 1 \in Good
      OBVIOUS
    <2> DEFINE d == n - (k + 1)
               c == Chunk(x + d, n - d)
    <2>1. d \in 0..n /\ d # n
      OBVIOUS
    <2>2. c \in 1..(n - d)
      BY <1>2, <2>1
    <2>3. d + c \in (n - k)..n
      <3> HIDE DEF c
      <3> QED BY <2>2
    <2>4. filled[d + c] = rest[d + c]
      BY <2>3
    <2>5. Filled(filled, d) = Filled(rest, d)
      BY <2>1, <2>4
    <2>6. filled[d] = rest[d]
      BY <1>3, <1>6, <2>1, <2>5
    <2>7. \A done \in (n - (k + 1))..n : done = d \/ done \in (n - k)..n
      OBVIOUS
    <2> HIDE DEF d, c
    <2> QED BY <2>6, <2>7
  <1>10. \A k \in 0..n : k \in Good
    <2> HIDE DEF Good
    <2> QED BY <1>8, <1>9, Counting!CountingUp
  <1>11. filled[0] = rest[0]
    BY <1>10
  <1>12. rest[0] = Bytes(x, n)
    BY <1>7
  <1> QED BY <1>1, <1>11, <1>12

---------------------------------------------------------------------------
(* CApi: what the calls answer.                                            *)

\* The calls that have to leave an error when they fail.
NativeCalls == {"lmpfs_open", "lmpfs_process_get", "lmpfs_vfs_list", "lmpfs_vfs_size",
                "lmpfs_vfs_read", "VMMDLL_VfsListU", "VMMDLL_VfsReadU"}
\* The pids of eng.processes(), in its order.
Pids == [i \in DOMAIN Procs |-> Procs[i][1]]

\* An answer that CallsAnswered allows, with the error that goes with it.
GoodAnswer(call, ok, result, error) ==
    /\ ~ok /\ call \in NativeCalls => error # ""
    /\ call = "lmpfs_mem_read_kva" /\ ok => \E x \in Vas : result = Bytes(x, Len(result))
    /\ call = "VMMDLL_PidList" => IsPrefix(result, Pids)

\* A good answer keeps CallsAnswered.
LEMMA AnswerKeeps ==
    ASSUME DOMAIN last_error = Threads, NEW t \in Threads, NEW call, NEW ok, NEW result, NEW error,
           GoodAnswer(call, ok, result, error), Answer(t, call, ok, result, error)
    PROVE  CallsAnswered' /\ DOMAIN last_error' = Threads
  <1>1. /\ ret'.thread = t /\ ret'.call = call /\ ret'.ok = ok /\ ret'.out = result
        /\ last_error'[t] = error /\ DOMAIN last_error' = Threads
    BY DEF Answer
  <1>2. ~ret'.ok /\ ret'.call \in NativeCalls => last_error'[ret'.thread] # ""
    BY <1>1 DEF GoodAnswer
  <1>3. ret'.call = "lmpfs_mem_read_kva" /\ ret'.ok => \E x \in Vas : ret'.out = Bytes(x, Len(ret'.out))
    BY <1>1 DEF GoodAnswer
  <1>4. ret'.call = "VMMDLL_PidList" => IsPrefix(ret'.out, Pids)
    BY <1>1 DEF GoodAnswer
  <1> QED BY <1>1, <1>2, <1>3, <1>4 DEF CallsAnswered, NativeCalls, Bytes, Pids

\* A call whose answer is good.
GoodCall(c) == GoodAnswer(c.call, c.ok, c.out, c.error)

\* VMMDLL_PidList() gives the first pids, as many as fit.
LEMMA PidListGood == ASSUME NEW cap \in Nat PROVE GoodCall(VMMDLL_PidList(cap))
  <1> DEFINE n == Min({cap, Len(Procs)})
             s == [i \in 1..n |-> Procs[i][1]]
  <1>1. Procs \in Seq(Int \X STRING) /\ Len(Procs) \in Nat /\ DOMAIN Procs = 1..Len(Procs)
    BY CApiAssumption
  <1>2. n \in 0..Len(Procs)
    <2>1. n = IF cap <= Len(Procs) THEN cap ELSE Len(Procs)
      BY <1>1, MinOfTwo
    <2> HIDE DEF n
    <2>2. Len(Procs) \in Nat
      BY <1>1
    <2> QED BY <2>1, <2>2
  <1>3. VMMDLL_PidList(cap) = Gives("VMMDLL_PidList", s)
    BY DEF VMMDLL_PidList
  <1> HIDE DEF n
  <1>4. \A i \in 1..Len(Procs) : Procs[i][1] \in Int
    BY <1>1
  <1>5. /\ s \in Seq(Int) /\ Len(s) = n /\ \A i \in 1..n : s[i] = Procs[i][1]
        /\ Pids \in Seq(Int) /\ Len(Pids) = Len(Procs) /\ \A i \in 1..Len(Procs) : Pids[i] = Procs[i][1]
    BY <1>1, <1>2, <1>4 DEF Pids
  <1> HIDE DEF s
  <1>6. SubSeq(s, 1, Len(s)) = SubSeq(Pids, 1, Len(s))
    <2> DEFINE u == SubSeq(s, 1, n)
               v == SubSeq(Pids, 1, n)
    <2>1. /\ u \in Seq(Int) /\ Len(u) = n /\ \A i \in 1..n : u[i] = s[i]
          /\ v \in Seq(Int) /\ Len(v) = n /\ \A i \in 1..n : v[i] = Pids[i]
      BY <1>1, <1>2, <1>5
    <2>2. \A i \in 1..n : u[i] = v[i]
      BY <1>1, <1>2, <1>5, <2>1
    <2> HIDE DEF u, v
    <2>3. u = v
      BY <2>1, <2>2
    <2> QED BY <1>5, <2>3 DEF u, v
  <1>7. IsPrefix(s, Pids)
    BY <1>2, <1>5, <1>6 DEF IsPrefix
  <1>8. GoodCall(Gives("VMMDLL_PidList", s))
    BY <1>7 DEF GoodCall, GoodAnswer, Gives, NativeCalls
  <1> QED BY <1>3, <1>8

\* The calls about one process answer well.
LEMMA ProcessCallsGood == \A c \in ProcessCalls : GoodCall(c)
  <1>1. ASSUME NEW i PROVE GoodCall(lmpfs_process_get(i))
    BY DEF lmpfs_process_get, GoodCall, GoodAnswer, Gives, Fails, NativeCalls
  <1>2. ASSUME NEW name PROVE GoodCall(lmpfs_process_find_by_name(name))
    BY DEF lmpfs_process_find_by_name, GoodCall, GoodAnswer, Gives, Misses, NativeCalls
  <1>3. ASSUME NEW pid PROVE GoodCall(lmpfs_process_find_by_pid(pid))
    BY DEF lmpfs_process_find_by_pid, GoodCall, GoodAnswer, Gives, Misses, NativeCalls
  <1> QED BY <1>1, <1>2, <1>3 DEF ProcessCalls

\* The calls with sizes, addresses and counts answer well.
LEMMA NumberCallsGood == \A c \in NumberCalls : GoodCall(c)
  <1>1. GoodCall(lmpfs_process_count)
    BY DEF lmpfs_process_count, GoodCall, GoodAnswer, Gives, NativeCalls
  <1>2. ASSUME NEW path PROVE GoodCall(lmpfs_vfs_size(path))
    BY DEF lmpfs_vfs_size, GoodCall, GoodAnswer, Gives, Fails, NativeCalls
  <1>3. ASSUME NEW x \in Vas, NEW n \in Lens PROVE GoodCall(lmpfs_mem_read_kva(x, n))
    <2>1. x \in Nat /\ n \in Nat
      BY CApiAssumption
    <2>2. lmpfs_mem_read_kva(x, n) = Gives("lmpfs_mem_read_kva", Bytes(x, n))
      BY <2>1, KvaBytes
    <2>3. Len(Bytes(x, n)) = n
      BY <2>1 DEF Bytes
    <2>4. Bytes(x, n) = Bytes(x, Len(Bytes(x, n)))
      BY <2>3
    <2>5. GoodCall(Gives("lmpfs_mem_read_kva", Bytes(x, n)))
      BY <2>4 DEF GoodCall, GoodAnswer, Gives, NativeCalls
    <2> QED BY <2>2, <2>5
  <1>4. ASSUME NEW pa, NEW n PROVE GoodCall(lmpfs_mem_read_phys(pa, n))
    BY DEF lmpfs_mem_read_phys, GoodCall, GoodAnswer, Gives, NativeCalls
  <1>5. ASSUME NEW pa, NEW n PROVE GoodCall(VMMDLL_MemRead(pa, n)) /\ GoodCall(VMMDLL_MemReadEx(pa, n))
    BY DEF VMMDLL_MemRead, VMMDLL_MemReadEx, lmpfs_mem_read_phys, GoodCall, GoodAnswer, Gives, NativeCalls
  <1>6. \A n \in 0..(Len(Procs) + 1) : GoodCall(VMMDLL_PidList(n))
    BY PidListGood
  <1>7. ASSUME NEW name PROVE GoodCall(VMMDLL_PidGetFromName(name))
    BY DEF VMMDLL_PidGetFromName, lmpfs_process_find_by_name, GoodCall, GoodAnswer, Gives, Misses, NativeCalls
  <1> QED BY <1>1, <1>2, <1>3, <1>4, <1>5, <1>6, <1>7 DEF NumberCalls

\* The calls with a path answer well.
LEMMA PathCallsGood == \A c \in PathCalls : GoodCall(c)
  <1>1. ASSUME NEW path PROVE GoodCall(lmpfs_vfs_list(path)) /\ GoodCall(VMMDLL_VfsListU(path))
    BY DEF lmpfs_vfs_list, VMMDLL_VfsListU, GoodCall, GoodAnswer, Gives, Fails, NativeCalls
  <1>2. ASSUME NEW path, NEW offset, NEW len
        PROVE  GoodCall(lmpfs_vfs_read(path, offset, len)) /\ GoodCall(VMMDLL_VfsReadU(path, offset, len))
    BY DEF lmpfs_vfs_read, VMMDLL_VfsReadU, GoodCall, GoodAnswer, Gives, Fails, NativeCalls
  <1> QED BY <1>1, <1>2 DEF PathCalls

---------------------------------------------------------------------------
(* CApi: who has a handle.                                                 *)

\* What g_handles.push_back() does.
LEMMA AppendFacts ==
    ASSUME NEW S, NEW s \in Seq(S), NEW x \in S
    PROVE  /\ Append(s, x) \in Seq(S)
           /\ ToSet(Append(s, x)) = ToSet(s) \cup {x}
           /\ NoDup(s) /\ x \notin ToSet(s) => NoDup(Append(s, x))
  <1> DEFINE t == Append(s, x)
  <1>1. /\ t \in Seq(S) /\ Len(t) = Len(s) + 1 /\ t[Len(s) + 1] = x
        /\ \A i \in 1..Len(s) : t[i] = s[i]
        /\ Len(s) \in Nat /\ DOMAIN s = 1..Len(s) /\ DOMAIN t = 1..(Len(s) + 1)
    OBVIOUS
  <1> HIDE DEF t
  <1>2. ToSet(t) = ToSet(s) \cup {x}
    <2>1. \A i \in 1..(Len(s) + 1) : i \in 1..Len(s) \/ i = Len(s) + 1
      BY <1>1
    <2>2. \A i \in 1..Len(s) : i \in 1..(Len(s) + 1)
      BY <1>1
    <2>3. Len(s) + 1 \in 1..(Len(s) + 1)
      BY <1>1
    <2> QED BY <1>1, <2>1, <2>2, <2>3 DEF ToSet
  <1>3. ASSUME NoDup(s), x \notin ToSet(s) PROVE NoDup(t)
    <2>1. \A i \in 1..Len(s) : s[i] # x
      BY <1>1, <1>3 DEF ToSet
    <2> QED BY <1>1, <1>3, <2>1 DEF NoDup
  <1> QED BY <1>1, <1>2, <1>3 DEF t

\* What taking the first handle of a list does.
LEMMA TailFacts ==
    ASSUME NEW S, NEW s \in Seq(S), s # <<>>, NoDup(s)
    PROVE  /\ Head(s) \in S /\ Tail(s) \in Seq(S) /\ NoDup(Tail(s))
           /\ ToSet(Tail(s)) = ToSet(s) \ {Head(s)} /\ Head(s) \in ToSet(s)
  <1> DEFINE t == Tail(s)
             h == Head(s)
  <1>1. /\ Len(s) \in Nat /\ Len(s) >= 1 /\ DOMAIN s = 1..Len(s) /\ h = s[1] /\ h \in S
        /\ t \in Seq(S) /\ Len(t) = Len(s) - 1 /\ DOMAIN t = 1..(Len(s) - 1)
        /\ \A i \in 1..(Len(s) - 1) : t[i] = s[i + 1]
    OBVIOUS
  <1> HIDE DEF t, h
  <1>2. NoDup(t)
    <2> SUFFICES ASSUME NEW i \in 1..Len(t), NEW j \in 1..Len(t), t[i] = t[j] PROVE i = j
      BY DEF NoDup
    <2>1. i + 1 \in 1..Len(s) /\ j + 1 \in 1..Len(s) /\ s[i + 1] = s[j + 1]
      BY <1>1
    <2>2. i + 1 = j + 1
      BY <2>1 DEF NoDup
    <2> QED BY <1>1, <2>2
  <1>3. h \in ToSet(s)
    BY <1>1 DEF ToSet
  <1>4. ASSUME NEW y PROVE y \in ToSet(t) <=> y \in ToSet(s) /\ y # h
    <2>1. ASSUME y \in ToSet(t) PROVE y \in ToSet(s) /\ y # h
      <3>1. PICK i \in 1..(Len(s) - 1) : y = t[i]
        BY <1>1, <2>1 DEF ToSet
      <3>2. i + 1 \in 1..Len(s) /\ y = s[i + 1] /\ i + 1 # 1 /\ 1 \in 1..Len(s)
        BY <1>1, <3>1
      <3>3. s[i + 1] # s[1]
        BY <3>2 DEF NoDup
      <3> QED BY <1>1, <3>2, <3>3 DEF ToSet
    <2>2. ASSUME y \in ToSet(s), y # h PROVE y \in ToSet(t)
      <3>1. PICK i \in 1..Len(s) : y = s[i]
        BY <1>1, <2>2 DEF ToSet
      <3>2. i # 1
        BY <1>1, <2>2, <3>1
      <3>3. i - 1 \in 1..(Len(s) - 1) /\ (i - 1) + 1 = i
        BY <1>1, <3>2
      <3>4. t[i - 1] = s[i]
        BY <1>1, <3>3
      <3> QED BY <1>1, <3>1, <3>3, <3>4 DEF ToSet
    <2> QED BY <2>1, <2>2
  <1> QED BY <1>1, <1>2, <1>3, <1>4 DEF t, h

\* What erasing a handle from a list without repetitions does.
LEMMA RemoveFacts ==
    ASSUME NEW S, NEW s \in Seq(S), NoDup(s), NEW x
    PROVE  /\ RemoveFirst(s, x) \in Seq(S) /\ NoDup(RemoveFirst(s, x))
           /\ ToSet(RemoveFirst(s, x)) = ToSet(s) \ {x}
  <1>0. Len(s) \in Nat /\ DOMAIN s = 1..Len(s)
    OBVIOUS
  <1>1. CASE ~\E i \in 1..Len(s) : s[i] = x
    <2>1. RemoveFirst(s, x) = s
      BY <1>1 DEF RemoveFirst
    <2>2. x \notin ToSet(s)
      BY <1>0, <1>1 DEF ToSet
    <2> QED BY <2>1, <2>2
  <1>2. CASE \E i \in 1..Len(s) : s[i] = x
    <2>1. PICK k \in 1..Len(s) : s[k] = x
      BY <1>2
    <2>0. k \in Nat /\ Len(s) \in Nat /\ 1 <= k /\ k <= Len(s)
      BY <1>0, <2>1
    <2> DEFINE I == {i \in 1..Len(s) : s[i] = x}
    <2>2. I = {k}
      BY <2>1 DEF NoDup
    <2>3. Min(I) = k
      <3>1. Min({k}) \in {k}
        BY <2>1 DEF Min
      <3> QED BY <2>2, <3>1
    <2>4. RemoveFirst(s, x) = RemoveAt(s, k)
      <3>1. RemoveFirst(s, x) = RemoveAt(s, IF I # {} THEN Min(I) ELSE 0)
        BY <1>2 DEF RemoveFirst, SelectInSeq
      <3> HIDE DEF I
      <3> QED BY <2>2, <2>3, <3>1
    <2> HIDE DEF I
    <2> DEFINE a == SubSeq(s, 1, k - 1)
               b == SubSeq(s, k + 1, Len(s))
               t == a \o b
    <2>a. a \in Seq(S) /\ Len(a) = k - 1 /\ \A i \in 1..(k - 1) : a[i] = s[i]
      BY <1>0, <2>1
    <2>b. b \in Seq(S) /\ Len(b) = Len(s) - k
      <3>1. b \in Seq(S)
        BY <1>0, <2>1
      <3>2. CASE k = Len(s)
        BY <1>0, <2>1, <3>2
      <3>3. CASE k < Len(s)
        <4>1. k \in Nat /\ Len(s) \in Nat /\ k + 1 \in 1..Len(s)
          BY <1>0, <2>1, <3>3
        <4>2. Len(b) = Len(s) - (k + 1) + 1
          BY <4>1
        <4> QED BY <3>1, <4>1, <4>2
      <3>4. k = Len(s) \/ k < Len(s)
        BY <2>0
      <3> QED BY <3>2, <3>3, <3>4
    <2>c. ASSUME NEW i \in 1..(Len(s) - k) PROVE b[i] = s[i + k]
      <3>1. b[i] = s[(k + 1) + i - 1]
        BY <1>0, <2>1
      <3>2. (k + 1) + i - 1 = i + k
        BY <2>1
      <3> QED BY <3>1, <3>2
    <2> HIDE DEF a, b
    <2>5. /\ a \in Seq(S) /\ Len(a) = k - 1 /\ \A i \in 1..(k - 1) : a[i] = s[i]
          /\ b \in Seq(S) /\ Len(b) = Len(s) - k /\ \A i \in 1..(Len(s) - k) : b[i] = s[i + k]
      BY <2>a, <2>b, <2>c
    <2>6. /\ t \in Seq(S) /\ Len(t) = Len(s) - 1
          /\ \A i \in 1..(k - 1) : t[i] = s[i]
          /\ \A i \in k..(Len(s) - 1) : t[i] = s[i + 1]
      <3>1. t \in Seq(S) /\ Len(t) = Len(s) - 1
        <4>1. t \in Seq(S) /\ Len(t) = Len(a) + Len(b)
          BY <2>a, <2>b
        <4> QED BY <1>0, <2>1, <2>a, <2>b, <4>1
      <3>2. ASSUME NEW i \in 1..(k - 1) PROVE t[i] = s[i]
        BY <1>0, <2>1, <2>5
      <3>3. ASSUME NEW i \in k..(Len(s) - 1) PROVE t[i] = s[i + 1]
        <4>1. i - (k - 1) \in 1..(Len(s) - k) /\ (i - (k - 1)) + k = i + 1
          BY <1>0, <2>1
        <4>2. t[i] = b[i - (k - 1)]
          BY <1>0, <2>1, <2>5
        <4> QED BY <2>5, <4>1, <4>2
      <3> QED BY <3>1, <3>2, <3>3
    <2>7. RemoveFirst(s, x) = t
      BY <2>4 DEF RemoveAt, a, b
    <2> HIDE DEF t
    <2> DEFINE at(i) == IF i < k THEN i ELSE i + 1
    <2>8. ASSUME NEW i \in 1..(Len(s) - 1)
          PROVE  at(i) \in 1..Len(s) /\ at(i) # k /\ t[i] = s[at(i)]
      <3>1. CASE i < k
        BY <1>0, <2>1, <2>6, <3>1
      <3>2. CASE i >= k
        BY <1>0, <2>1, <2>6, <3>2
      <3> QED BY <2>1, <3>1, <3>2
    <2>9. NoDup(t)
      <3> SUFFICES ASSUME NEW i \in 1..Len(t), NEW j \in 1..Len(t), t[i] = t[j] PROVE i = j
        BY DEF NoDup
      <3>1. at(i) = at(j)
        <4> HIDE DEF at
        <4> QED BY <2>6, <2>8 DEF NoDup
      <3> QED BY <1>0, <2>1, <2>6, <3>1
    <2>10. ASSUME NEW y PROVE y \in ToSet(t) <=> y \in ToSet(s) /\ y # x
      <3>0. DOMAIN t = 1..(Len(s) - 1)
        BY <2>6
      <3>1. ASSUME y \in ToSet(t) PROVE y \in ToSet(s) /\ y # x
        <4>1. PICK i \in 1..(Len(s) - 1) : y = t[i]
          BY <3>0, <3>1 DEF ToSet
        <4>2. at(i) \in 1..Len(s) /\ at(i) # k /\ y = s[at(i)]
          BY <2>8, <4>1
        <4> HIDE DEF at
        <4>3. s[at(i)] # s[k]
          BY <2>1, <4>2 DEF NoDup
        <4> QED BY <1>0, <2>1, <4>2, <4>3 DEF ToSet
      <3>2. ASSUME y \in ToSet(s), y # x PROVE y \in ToSet(t)
        <4>1. PICK i \in 1..Len(s) : y = s[i]
          BY <1>0, <3>2 DEF ToSet
        <4>2. i # k
          BY <2>1, <3>2, <4>1
        <4>3. CASE i < k
          <5>1. i \in 1..(k - 1) /\ i \in 1..(Len(s) - 1)
            BY <1>0, <2>1, <4>3
          <5>2. t[i] = y
            BY <2>6, <4>1, <5>1
          <5> QED BY <3>0, <5>1, <5>2 DEF ToSet
        <4>4. CASE i > k
          <5>1. i - 1 \in k..(Len(s) - 1) /\ i - 1 \in 1..(Len(s) - 1) /\ (i - 1) + 1 = i
            BY <1>0, <2>1, <4>4
          <5>2. t[i - 1] = y
            BY <2>6, <4>1, <5>1
          <5> QED BY <3>0, <5>1, <5>2 DEF ToSet
        <4> QED BY <2>1, <4>2, <4>3, <4>4
      <3> QED BY <3>1, <3>2
    <2> QED BY <2>6, <2>7, <2>9, <2>10
  <1> QED BY <1>1, <1>2

\* The open engines of the MemProcFS-shaped interface, and who will close one:
\* the thread that registers or closes it, or VMMDLL_CloseAll() of a thread.
Vmm(h) == engine[h] = "open" /\ owner[h][2] = "vmm"
\* Thread t is about to register or close h, or took it in VMMDLL_CloseAll().
Holds(t, h) == arg[t] = h \/ h \in ToSet(snapshot[t])

\* The types of the variables that are about handles.
HandleTypes ==
    /\ engine \in [Handles -> {"none", "open", "closed"}]
    /\ DOMAIN owner = Handles
    /\ DOMAIN last_error = Threads
    /\ apiPc \in [Threads -> {"idle", "register", "close", "close_all"}]
    /\ arg \in [Threads -> Handles \cup {None}]
    /\ snapshot \in [Threads -> Seq(Handles)]
    /\ g_handles \in Seq(Handles)

\* An open handle of VMMDLL_Initialize() is in one place.
HandlesPlaced ==
    /\ NoDup(g_handles)
    /\ \A t \in Threads : NoDup(snapshot[t])
    /\ \A t \in Threads : arg[t] # None <=> apiPc[t] \in {"register", "close"}
    /\ \A t \in Threads : snapshot[t] # <<>> => apiPc[t] = "close_all"
    /\ \A t \in Threads : apiPc[t] = "register" => owner[arg[t]][1] = t
    /\ \A h \in ToSet(g_handles) : Vmm(h) /\ \A t \in Threads : ~Holds(t, h)
    /\ \A t \in Threads : \A h \in Handles :
          Holds(t, h) => Vmm(h) /\ \A u \in Threads : Holds(u, h) => u = t
    /\ \A h \in Handles : Vmm(h) => h \in ToSet(g_handles) \/ \E t \in Threads : Holds(t, h)

\* The inductive invariant of the C interface.
ApiIInv == HandleTypes /\ HandlesPlaced /\ CallsAnswered

\* A handle in one place is counted once.
LEMMA PlacedOnce ==
    ASSUME ApiIInv
    PROVE  HandlesClosedOnce
  <1>0. HandleTypes /\ HandlesPlaced
    BY DEF ApiIInv
  <1>1. \A h \in Handles : engine[h] # "freed twice"
    BY <1>0 DEF HandleTypes
  <1>2. ASSUME NEW h \in Handles, engine[h] = "open", owner[h][2] = "vmm"
        PROVE  Cardinality({i \in DOMAIN g_handles : g_handles[i] = h})
                 + Cardinality({t \in Threads : arg[t] = h \/ h \in ToSet(snapshot[t])}) = 1
    <2> DEFINE I == {i \in DOMAIN g_handles : g_handles[i] = h}
               T == {t \in Threads : Holds(t, h)}
    <2>1. DOMAIN g_handles = 1..Len(g_handles)
      BY <1>0 DEF HandleTypes
    <2>2. CASE h \in ToSet(g_handles)
      <3>1. PICK i \in DOMAIN g_handles : g_handles[i] = h
        BY <2>2 DEF ToSet
      <3>2. I = {i}
        BY <1>0, <2>1, <3>1 DEF HandlesPlaced, NoDup
      <3>3. T = {}
        BY <1>0, <2>2 DEF HandlesPlaced
      <3>4. Cardinality(I) = 1 /\ Cardinality(T) = 0
        BY <3>2, <3>3, FS_EmptySet, FS_Singleton
      <3> QED BY <3>4 DEF Holds
    <2>3. CASE h \notin ToSet(g_handles)
      <3>1. PICK t \in Threads : Holds(t, h)
        BY <1>0, <1>2, <2>3 DEF HandlesPlaced, Vmm
      <3>2. T = {t}
        BY <1>0, <3>1 DEF HandlesPlaced
      <3>3. I = {}
        BY <2>3 DEF ToSet
      <3>4. Cardinality(I) = 0 /\ Cardinality(T) = 1
        BY <3>2, <3>3, FS_EmptySet, FS_Singleton
      <3> QED BY <3>4 DEF Holds
    <2> QED BY <2>2, <2>3
  <1> QED BY <1>1, <1>2 DEF HandlesClosedOnce

\* lmpfs_open() puts a handle nowhere but with its user.
LEMMA OpensKeeps ==
    ASSUME ApiIInv, NEW t \in Threads, NEW h \in Fresh, Opens(t, "lmpfs", h), UNCHANGED calls
    PROVE  HandleTypes' /\ HandlesPlaced'
  <1>0. HandleTypes /\ HandlesPlaced
    BY DEF ApiIInv
  <1>1. /\ h \in Handles /\ engine[h] = "none"
        /\ engine' = [engine EXCEPT ![h] = "open"] /\ owner' = [owner EXCEPT ![h] = <<t, "lmpfs">>]
        /\ DOMAIN last_error' = Threads
        /\ UNCHANGED <<g_handles, apiPc, arg, snapshot>>
    BY <1>0 DEF Fresh, Opens, Answer, calls, HandleTypes
  <1>2. HandleTypes'
    BY <1>0, <1>1 DEF HandleTypes
  <1>3. /\ ~Vmm(h) /\ ~Vmm(h)'
        /\ \A k \in Handles : k # h => (Vmm(k)' <=> Vmm(k)) /\ owner'[k] = owner[k]
    BY <1>0, <1>1 DEF Vmm, HandleTypes
  <1>4. \A u \in Threads : \A k \in Handles : Holds(u, k)' <=> Holds(u, k)
    BY <1>1 DEF Holds
  <1>5. ToSet(g_handles) \subseteq Handles
    BY <1>0 DEF HandleTypes, ToSet
  <1>6. ASSUME NEW u \in Threads, apiPc[u] = "register" PROVE owner'[arg[u]][1] = u
    <2>1. arg[u] \in Handles /\ Holds(u, arg[u])
      BY <1>0, <1>6, CApiAssumption DEF HandleTypes, HandlesPlaced, Holds
    <2>2. Vmm(arg[u])
      BY <1>0, <2>1 DEF HandlesPlaced
    <2> QED BY <1>0, <1>3, <1>6, <2>1, <2>2 DEF HandlesPlaced
  <1>7. HandlesPlaced'
    BY <1>0, <1>1, <1>3, <1>4, <1>5, <1>6 DEF HandlesPlaced, NoDup
  <1> QED BY <1>2, <1>7

\* VMMDLL_Initialize() has the engine to itself until it is registered.
LEMMA InitializeKeeps ==
    ASSUME ApiIInv, NEW t \in Threads, apiPc[t] = "idle", NEW h \in Fresh, Opens(t, "vmm", h),
           apiPc' = [apiPc EXCEPT ![t] = "register"], arg' = [arg EXCEPT ![t] = h],
           UNCHANGED <<g_handles, snapshot>>
    PROVE  HandleTypes' /\ HandlesPlaced'
  <1>0. HandleTypes /\ HandlesPlaced
    BY DEF ApiIInv
  <1>1. /\ h \in Handles /\ engine[h] = "none"
        /\ engine' = [engine EXCEPT ![h] = "open"] /\ owner' = [owner EXCEPT ![h] = <<t, "vmm">>]
        /\ DOMAIN last_error' = Threads
    BY <1>0 DEF Fresh, Opens, Answer, HandleTypes
  <1>2. HandleTypes'
    BY <1>0, <1>1 DEF HandleTypes
  <1>3. /\ ~Vmm(h) /\ Vmm(h)'
        /\ \A k \in Handles : k # h => (Vmm(k)' <=> Vmm(k)) /\ owner'[k] = owner[k]
    BY <1>0, <1>1 DEF Vmm, HandleTypes
  <1>4. snapshot[t] = <<>> /\ arg[t] = None
    BY <1>0 DEF HandlesPlaced, HandleTypes
  <1>5. /\ \A u \in Threads : \A k \in Handles : u # t => (Holds(u, k)' <=> Holds(u, k))
        /\ \A k \in Handles : Holds(t, k)' <=> k = h
    BY <1>0, <1>4 DEF Holds, HandleTypes, ToSet
  <1>6. ToSet(g_handles) \subseteq Handles /\ h \notin ToSet(g_handles)
    BY <1>0, <1>3 DEF HandleTypes, HandlesPlaced, ToSet
  <1>7. \A k \in Handles : ~Holds(t, k)
    BY <1>4, CApiAssumption DEF Holds, ToSet
  <1>8. \A u \in Threads : ~Holds(u, h)
    BY <1>0, <1>1, <1>3 DEF HandlesPlaced
  <1>9. ASSUME NEW u \in Threads, apiPc'[u] = "register" PROVE owner'[arg'[u]][1] = u
    <2>1. CASE u = t
      BY <1>0, <1>1, <2>1 DEF HandleTypes
    <2>2. CASE u # t
      <3>1. apiPc[u] = "register" /\ arg'[u] = arg[u]
        BY <1>0, <1>9, <2>2 DEF HandleTypes
      <3>2. arg[u] \in Handles /\ Holds(u, arg[u])
        BY <1>0, <3>1, CApiAssumption DEF HandleTypes, HandlesPlaced, Holds
      <3>3. arg[u] # h
        BY <1>8, <3>2
      <3> QED BY <1>0, <1>3, <3>1, <3>2, <3>3 DEF HandlesPlaced
    <2> QED BY <2>1, <2>2
  <1>10. \A u \in Threads : arg'[u] # None <=> apiPc'[u] \in {"register", "close"}
    BY <1>0, <1>1, CApiAssumption DEF HandlesPlaced, HandleTypes
  <1>11. \A u \in Threads : snapshot'[u] # <<>> => apiPc'[u] = "close_all"
    BY <1>0, <1>4 DEF HandlesPlaced, HandleTypes
  <1>12. \A k \in ToSet(g_handles) : Vmm(k)' /\ \A u \in Threads : ~Holds(u, k)'
    BY <1>0, <1>3, <1>5, <1>6 DEF HandlesPlaced
  <1>13. \A u \in Threads : \A k \in Handles :
            Holds(u, k)' => Vmm(k)' /\ \A v \in Threads : Holds(v, k)' => v = u
    BY <1>0, <1>3, <1>5, <1>8 DEF HandlesPlaced
  <1>14. \A k \in Handles : Vmm(k)' => k \in ToSet(g_handles) \/ \E u \in Threads : Holds(u, k)'
    BY <1>0, <1>3, <1>5, <1>7 DEF HandlesPlaced
  <1>15. HandlesPlaced'
    BY <1>0, <1>9, <1>10, <1>11, <1>12, <1>13, <1>14 DEF HandlesPlaced, NoDup
  <1> QED BY <1>2, <1>15

\* An engine of the native interface is in no list.
LEMMA NativeCloseKeeps ==
    ASSUME ApiIInv, ~Mixed, NEW t \in Threads, lmpfs_close(t)
    PROVE  HandleTypes' /\ HandlesPlaced'
  <1>0. HandleTypes /\ HandlesPlaced
    BY DEF ApiIInv
  <1>1. PICK h \in Owned(t, "lmpfs") : engine' = Delete(h)
    BY DEF lmpfs_close
  <1>2. /\ h \in Handles /\ engine[h] = "open" /\ owner[h][2] = "lmpfs"
        /\ UNCHANGED <<owner, last_error, g_handles, apiPc, arg, snapshot>>
    BY <1>1 DEF Owned, lmpfs_close, calls
  <1>3. engine' = [engine EXCEPT ![h] = "closed"]
    BY <1>0, <1>1, <1>2 DEF Delete, HandleTypes
  <1>4. HandleTypes'
    BY <1>0, <1>2, <1>3 DEF HandleTypes
  <1>5. \A k \in Handles : Vmm(k)' <=> Vmm(k)
    BY <1>0, <1>2, <1>3 DEF Vmm, HandleTypes
  <1>6. \A u \in Threads : \A k \in Handles : Holds(u, k)' <=> Holds(u, k)
    BY <1>2 DEF Holds
  <1>7. ToSet(g_handles) \subseteq Handles
    BY <1>0 DEF HandleTypes, ToSet
  <1>8. HandlesPlaced'
    BY <1>0, <1>2, <1>5, <1>6, <1>7 DEF HandlesPlaced, NoDup
  <1> QED BY <1>4, <1>8

\* A registered handle goes from the thread to g_handles.
LEMMA RegisterKeeps ==
    ASSUME ApiIInv, NEW t \in Threads, register_handle(t)
    PROVE  HandleTypes' /\ HandlesPlaced'
  <1>0. HandleTypes /\ HandlesPlaced
    BY DEF ApiIInv
  <1> DEFINE h == arg[t]
  <1>1. /\ apiPc[t] = "register" /\ g_handles' = Append(g_handles, h)
        /\ apiPc' = [apiPc EXCEPT ![t] = "idle"] /\ arg' = [arg EXCEPT ![t] = None]
        /\ UNCHANGED <<engine, owner, last_error, snapshot>>
    BY DEF register_handle, Idle
  <1>2. h \in Handles /\ Holds(t, h) /\ snapshot[t] = <<>>
    BY <1>0, <1>1, CApiAssumption DEF HandleTypes, HandlesPlaced, Holds
  <1> HIDE DEF h
  <1>3. Vmm(h) /\ h \notin ToSet(g_handles) /\ \A u \in Threads : Holds(u, h) => u = t
    BY <1>0, <1>2 DEF HandlesPlaced
  <1>4. g_handles \in Seq(Handles) /\ NoDup(g_handles)
    BY <1>0 DEF HandleTypes, HandlesPlaced
  <1>5. g_handles' \in Seq(Handles) /\ ToSet(g_handles') = ToSet(g_handles) \cup {h} /\ NoDup(g_handles')
    BY <1>1, <1>2, <1>3, <1>4, AppendFacts
  <1>6. HandleTypes'
    BY <1>0, <1>1, <1>5 DEF HandleTypes
  <1>7. \A k \in Handles : Vmm(k)' <=> Vmm(k)
    BY <1>1 DEF Vmm
  <1>8. /\ \A u \in Threads : \A k \in Handles : u # t => (Holds(u, k)' <=> Holds(u, k))
        /\ \A k \in Handles : ~Holds(t, k)' /\ (Holds(t, k) <=> k = h)
    BY <1>0, <1>1, <1>2, CApiAssumption DEF Holds, HandleTypes, ToSet, h
  <1>9. ToSet(g_handles) \subseteq Handles
    BY <1>0 DEF HandleTypes, ToSet
  <1>10. \A u \in Threads : arg'[u] # None <=> apiPc'[u] \in {"register", "close"}
    BY <1>0, <1>1 DEF HandlesPlaced, HandleTypes
  <1>11. \A u \in Threads : snapshot'[u] # <<>> => apiPc'[u] = "close_all"
    BY <1>0, <1>1, <1>2 DEF HandlesPlaced, HandleTypes
  <1>12. \A u \in Threads : apiPc'[u] = "register" => owner'[arg'[u]][1] = u
    BY <1>0, <1>1 DEF HandlesPlaced, HandleTypes
  <1>13. \A k \in ToSet(g_handles') : Vmm(k)' /\ \A u \in Threads : ~Holds(u, k)'
    BY <1>0, <1>2, <1>3, <1>5, <1>7, <1>8, <1>9 DEF HandlesPlaced
  <1>14. \A u \in Threads : \A k \in Handles :
            Holds(u, k)' => Vmm(k)' /\ \A v \in Threads : Holds(v, k)' => v = u
    BY <1>0, <1>7, <1>8 DEF HandlesPlaced
  <1>15. \A k \in Handles : Vmm(k)' => k \in ToSet(g_handles') \/ \E u \in Threads : Holds(u, k)'
    BY <1>0, <1>5, <1>7, <1>8 DEF HandlesPlaced
  <1>16. HandlesPlaced'
    BY <1>0, <1>1, <1>5, <1>10, <1>11, <1>12, <1>13, <1>14, <1>15 DEF HandlesPlaced, NoDup
  <1> QED BY <1>6, <1>16

\* A handle leaves the list with the thread that closes it.
LEMMA UnregisterKeeps ==
    ASSUME ApiIInv, NEW t \in Threads, unregister_handle(t)
    PROVE  HandleTypes' /\ HandlesPlaced'
  <1>0. HandleTypes /\ HandlesPlaced
    BY DEF ApiIInv
  <1>1. PICK h \in Owned(t, "vmm") : g_handles' = RemoveFirst(g_handles, h) /\ arg' = [arg EXCEPT ![t] = h]
    BY DEF unregister_handle
  <1>2. /\ apiPc[t] = "idle" /\ apiPc' = [apiPc EXCEPT ![t] = "close"]
        /\ \A u \in Threads : apiPc[u] \in {"idle", "register"}
        /\ UNCHANGED <<engine, owner, last_error, snapshot>>
    BY <1>0 DEF unregister_handle, Closing, HandleTypes
  <1>3. h \in Handles /\ Vmm(h) /\ owner[h][1] = t
    BY <1>1 DEF Owned, Vmm
  <1>4. \A u \in Threads : snapshot[u] = <<>>
    BY <1>0, <1>2 DEF HandlesPlaced, HandleTypes
  <1>5. \A u \in Threads : ~Holds(u, h)
    <2> SUFFICES ASSUME NEW u \in Threads, Holds(u, h) PROVE FALSE
      OBVIOUS
    <2>1. arg[u] = h /\ arg[u] # None
      BY <1>3, <1>4, CApiAssumption DEF Holds, ToSet
    <2>2. apiPc[u] = "register"
      BY <1>0, <1>2, <2>1 DEF HandlesPlaced
    <2>3. owner[h][1] = u
      BY <1>0, <2>1, <2>2 DEF HandlesPlaced
    <2> QED BY <1>2, <1>3, <2>2, <2>3
  <1>6. g_handles \in Seq(Handles) /\ NoDup(g_handles)
    BY <1>0 DEF HandleTypes, HandlesPlaced
  <1>7. g_handles' \in Seq(Handles) /\ ToSet(g_handles') = ToSet(g_handles) \ {h} /\ NoDup(g_handles')
    BY <1>1, <1>6, RemoveFacts
  <1>8. HandleTypes'
    BY <1>0, <1>1, <1>2, <1>3, <1>7 DEF HandleTypes
  <1>9. \A k \in Handles : Vmm(k)' <=> Vmm(k)
    BY <1>2 DEF Vmm
  <1>10. /\ \A u \in Threads : \A k \in Handles : u # t => (Holds(u, k)' <=> Holds(u, k))
         /\ \A k \in Handles : (Holds(t, k)' <=> k = h)
    BY <1>0, <1>1, <1>2, <1>4 DEF Holds, HandleTypes, ToSet
  <1>11. \A k \in Handles : ~Holds(t, k)
    BY <1>0, <1>2, <1>4, CApiAssumption DEF Holds, HandlesPlaced, HandleTypes, ToSet
  <1>12. ToSet(g_handles) \subseteq Handles
    BY <1>0 DEF HandleTypes, ToSet
  <1>13. \A u \in Threads : arg'[u] # None <=> apiPc'[u] \in {"register", "close"}
    BY <1>0, <1>1, <1>2, <1>3, CApiAssumption DEF HandlesPlaced, HandleTypes
  <1>14. \A u \in Threads : snapshot'[u] # <<>> => apiPc'[u] = "close_all"
    BY <1>2, <1>4
  <1>15. \A u \in Threads : apiPc'[u] = "register" => owner'[arg'[u]][1] = u
    BY <1>0, <1>1, <1>2 DEF HandlesPlaced, HandleTypes
  <1>16. \A k \in ToSet(g_handles') : Vmm(k)' /\ \A u \in Threads : ~Holds(u, k)'
    BY <1>0, <1>7, <1>9, <1>10, <1>12 DEF HandlesPlaced
  <1>17. \A u \in Threads : \A k \in Handles :
            Holds(u, k)' => Vmm(k)' /\ \A v \in Threads : Holds(v, k)' => v = u
    BY <1>0, <1>3, <1>5, <1>9, <1>10 DEF HandlesPlaced
  <1>18. \A k \in Handles : Vmm(k)' => k \in ToSet(g_handles') \/ \E u \in Threads : Holds(u, k)'
    BY <1>0, <1>7, <1>9, <1>10, <1>11 DEF HandlesPlaced
  <1>19. HandlesPlaced'
    BY <1>0, <1>2, <1>7, <1>13, <1>14, <1>15, <1>16, <1>17, <1>18 DEF HandlesPlaced, NoDup
  <1> QED BY <1>8, <1>19

\* VMMDLL_Close() deletes a handle that is in no list any more.
LEMMA CloseKeeps ==
    ASSUME ApiIInv, NEW t \in Threads, VMMDLL_Close(t)
    PROVE  HandleTypes' /\ HandlesPlaced'
  <1>0. HandleTypes /\ HandlesPlaced
    BY DEF ApiIInv
  <1>b. apiPc[t] = "close" /\ arg[t] \in Handles
    BY <1>0, CApiAssumption DEF VMMDLL_Close, HandleTypes, HandlesPlaced
  <1>c. PICK h \in Handles : h = arg[t]
    BY <1>b
  <1>1. /\ apiPc[t] = "close" /\ engine' = Delete(h)
        /\ apiPc' = [apiPc EXCEPT ![t] = "idle"] /\ arg' = [arg EXCEPT ![t] = None]
        /\ UNCHANGED <<owner, last_error, g_handles, snapshot>>
    BY <1>c DEF VMMDLL_Close, Idle
  <1>2. h \in Handles /\ Holds(t, h) /\ snapshot[t] = <<>>
    BY <1>0, <1>1, <1>c DEF HandleTypes, HandlesPlaced, Holds
  <1>a. \A k \in Handles : Holds(t, k) => k = h
    BY <1>2, <1>c DEF Holds, ToSet
  <1>3. Vmm(h) /\ h \notin ToSet(g_handles) /\ \A u \in Threads : Holds(u, h) => u = t
    BY <1>0, <1>2 DEF HandlesPlaced
  <1>4. engine' = [engine EXCEPT ![h] = "closed"]
    BY <1>0, <1>1, <1>2, <1>3 DEF Delete, HandleTypes, Vmm
  <1>5. HandleTypes'
    BY <1>0, <1>1, <1>4 DEF HandleTypes
  <1>6. ~Vmm(h)' /\ \A k \in Handles : k # h => (Vmm(k)' <=> Vmm(k))
    BY <1>0, <1>1, <1>2, <1>4 DEF Vmm, HandleTypes
  <1>7. /\ \A u \in Threads : \A k \in Handles : u # t => (Holds(u, k)' <=> Holds(u, k))
        /\ \A k \in Handles : ~Holds(t, k)'
    BY <1>0, <1>1, <1>2, CApiAssumption DEF Holds, HandleTypes, ToSet
  <1>8. ToSet(g_handles) \subseteq Handles
    BY <1>0 DEF HandleTypes, ToSet
  <1>9. \A u \in Threads : arg'[u] # None <=> apiPc'[u] \in {"register", "close"}
    BY <1>0, <1>1 DEF HandlesPlaced, HandleTypes
  <1>10. \A u \in Threads : snapshot'[u] # <<>> => apiPc'[u] = "close_all"
    BY <1>0, <1>1, <1>2 DEF HandlesPlaced, HandleTypes
  <1>11. \A u \in Threads : apiPc'[u] = "register" => owner'[arg'[u]][1] = u
    BY <1>0, <1>1 DEF HandlesPlaced, HandleTypes
  <1>12. \A k \in ToSet(g_handles) : Vmm(k)' /\ \A u \in Threads : ~Holds(u, k)'
    BY <1>0, <1>3, <1>6, <1>7, <1>8 DEF HandlesPlaced
  <1>13. \A u \in Threads : \A k \in Handles :
            Holds(u, k)' => Vmm(k)' /\ \A v \in Threads : Holds(v, k)' => v = u
    BY <1>0, <1>3, <1>6, <1>7 DEF HandlesPlaced
  <1>14. \A k \in Handles : Vmm(k)' => k \in ToSet(g_handles) \/ \E u \in Threads : Holds(u, k)'
    BY <1>0, <1>6, <1>7, <1>a DEF HandlesPlaced
  <1>15. HandlesPlaced'
    BY <1>0, <1>1, <1>9, <1>10, <1>11, <1>12, <1>13, <1>14 DEF HandlesPlaced, NoDup
  <1> QED BY <1>5, <1>15

\* VMMDLL_CloseAll() takes the whole list.
LEMMA CloseAllKeeps ==
    ASSUME ApiIInv, NEW t \in Threads, VMMDLL_CloseAll(t)
    PROVE  HandleTypes' /\ HandlesPlaced'
  <1>0. HandleTypes /\ HandlesPlaced
    BY DEF ApiIInv
  <1>1. /\ apiPc[t] = "idle" /\ snapshot' = [snapshot EXCEPT ![t] = g_handles] /\ g_handles' = <<>>
        /\ apiPc' = [apiPc EXCEPT ![t] = "close_all"]
        /\ UNCHANGED <<engine, owner, last_error, arg>>
    BY DEF VMMDLL_CloseAll, Taken
  <1>2. arg[t] = None /\ snapshot[t] = <<>>
    BY <1>0, <1>1 DEF HandleTypes, HandlesPlaced
  <1>3. ToSet(g_handles') = {} /\ NoDup(g_handles') /\ g_handles' \in Seq(Handles)
    BY <1>1 DEF ToSet, NoDup
  <1>4. HandleTypes'
    BY <1>0, <1>1, <1>3 DEF HandleTypes
  <1>5. \A k \in Handles : Vmm(k)' <=> Vmm(k)
    BY <1>1 DEF Vmm
  <1>6. /\ \A u \in Threads : \A k \in Handles : u # t => (Holds(u, k)' <=> Holds(u, k))
        /\ \A k \in Handles : Holds(t, k)' <=> k \in ToSet(g_handles)
    BY <1>0, <1>1, <1>2, CApiAssumption DEF Holds, HandleTypes
  <1>7. \A k \in Handles : ~Holds(t, k)
    BY <1>2, CApiAssumption DEF Holds, ToSet
  <1>8. \A u \in Threads : NoDup(snapshot'[u])
    BY <1>0, <1>1 DEF HandlesPlaced, HandleTypes
  <1>9. \A u \in Threads : arg'[u] # None <=> apiPc'[u] \in {"register", "close"}
    BY <1>0, <1>1, <1>2 DEF HandlesPlaced, HandleTypes
  <1>10. \A u \in Threads : snapshot'[u] # <<>> => apiPc'[u] = "close_all"
    BY <1>0, <1>1 DEF HandlesPlaced, HandleTypes
  <1>11. \A u \in Threads : apiPc'[u] = "register" => owner'[arg'[u]][1] = u
    BY <1>0, <1>1 DEF HandlesPlaced, HandleTypes
  <1>12. \A u \in Threads : \A k \in Handles :
            Holds(u, k)' => Vmm(k)' /\ \A v \in Threads : Holds(v, k)' => v = u
    BY <1>0, <1>5, <1>6 DEF HandlesPlaced
  <1>13. \A k \in Handles : Vmm(k)' => \E u \in Threads : Holds(u, k)'
    BY <1>0, <1>5, <1>6, <1>7 DEF HandlesPlaced
  <1>14. HandlesPlaced'
    BY <1>3, <1>8, <1>9, <1>10, <1>11, <1>12, <1>13 DEF HandlesPlaced, NoDup
  <1> QED BY <1>4, <1>14

\* VMMDLL_CloseAll() deletes handles no other thread can reach.
LEMMA CloseNextKeeps ==
    ASSUME ApiIInv, NEW t \in Threads, CloseNext(t)
    PROVE  HandleTypes' /\ HandlesPlaced'
  <1>0. HandleTypes /\ HandlesPlaced
    BY DEF ApiIInv
  <1>1. apiPc[t] = "close_all" /\ UNCHANGED <<owner, last_error, g_handles, arg>> /\ arg[t] = None
    BY <1>0 DEF CloseNext, HandlesPlaced
  <1>2. CASE snapshot[t] = <<>>
    <2>1. apiPc' = [apiPc EXCEPT ![t] = "idle"] /\ UNCHANGED <<engine, snapshot>>
      BY <1>2 DEF CloseNext
    <2>2. HandleTypes'
      BY <1>0, <1>1, <2>1 DEF HandleTypes
    <2>3. /\ \A k \in Handles : Vmm(k)' <=> Vmm(k)
          /\ \A u \in Threads : \A k \in Handles : Holds(u, k)' <=> Holds(u, k)
      BY <1>1, <2>1 DEF Vmm, Holds
    <2>4. /\ \A u \in Threads : arg'[u] # None <=> apiPc'[u] \in {"register", "close"}
          /\ \A u \in Threads : snapshot'[u] # <<>> => apiPc'[u] = "close_all"
          /\ \A u \in Threads : apiPc'[u] = "register" => owner'[arg'[u]][1] = u
      BY <1>0, <1>1, <1>2, <2>1 DEF HandlesPlaced, HandleTypes
    <2>5. ToSet(g_handles) \subseteq Handles
      BY <1>0 DEF HandleTypes, ToSet
    <2>6. HandlesPlaced'
      BY <1>0, <1>1, <2>1, <2>3, <2>4, <2>5 DEF HandlesPlaced, NoDup
    <2> QED BY <2>2, <2>6
  <1>3. CASE snapshot[t] # <<>>
    <2>0. PICK h, rest : h = Head(snapshot[t]) /\ rest = Tail(snapshot[t])
      OBVIOUS
    <2>1. engine' = Delete(h) /\ snapshot' = [snapshot EXCEPT ![t] = rest] /\ UNCHANGED apiPc
      BY <1>3, <2>0 DEF CloseNext
    <2>2. snapshot[t] \in Seq(Handles) /\ NoDup(snapshot[t])
      BY <1>0 DEF HandleTypes, HandlesPlaced
    <2>3. /\ h \in Handles /\ rest \in Seq(Handles) /\ NoDup(rest)
          /\ ToSet(rest) = ToSet(snapshot[t]) \ {h} /\ h \in ToSet(snapshot[t])
      BY <1>3, <2>0, <2>2, TailFacts
    <2>4. Vmm(h) /\ h \notin ToSet(g_handles) /\ Holds(t, h) /\ \A u \in Threads : Holds(u, h) => u = t
      BY <1>0, <2>3 DEF HandlesPlaced, Holds
    <2>5. engine' = [engine EXCEPT ![h] = "closed"]
      BY <1>0, <2>1, <2>3, <2>4 DEF Delete, HandleTypes, Vmm
    <2>6. HandleTypes'
      BY <1>0, <1>1, <2>1, <2>3, <2>5 DEF HandleTypes
    <2>7. ~Vmm(h)' /\ \A k \in Handles : k # h => (Vmm(k)' <=> Vmm(k))
      BY <1>0, <1>1, <2>3, <2>5 DEF Vmm, HandleTypes
    <2>8. /\ \A u \in Threads : \A k \in Handles : u # t => (Holds(u, k)' <=> Holds(u, k))
          /\ \A k \in Handles : Holds(t, k)' <=> (Holds(t, k) /\ k # h)
      BY <1>0, <1>1, <2>1, <2>3, CApiAssumption DEF Holds, HandleTypes
    <2>9. ToSet(g_handles) \subseteq Handles
      BY <1>0 DEF HandleTypes, ToSet
    <2>10. /\ \A u \in Threads : NoDup(snapshot'[u])
           /\ \A u \in Threads : arg'[u] # None <=> apiPc'[u] \in {"register", "close"}
           /\ \A u \in Threads : snapshot'[u] # <<>> => apiPc'[u] = "close_all"
           /\ \A u \in Threads : apiPc'[u] = "register" => owner'[arg'[u]][1] = u
      BY <1>0, <1>1, <2>1, <2>3 DEF HandlesPlaced, HandleTypes
    <2>11. \A k \in ToSet(g_handles) : Vmm(k)' /\ \A u \in Threads : ~Holds(u, k)'
      BY <1>0, <2>4, <2>7, <2>8, <2>9 DEF HandlesPlaced
    <2>12. \A u \in Threads : \A k \in Handles :
              Holds(u, k)' => Vmm(k)' /\ \A v \in Threads : Holds(v, k)' => v = u
      BY <1>0, <2>4, <2>7, <2>8 DEF HandlesPlaced
    <2>13. \A k \in Handles : Vmm(k)' => k \in ToSet(g_handles) \/ \E u \in Threads : Holds(u, k)'
      BY <1>0, <2>7, <2>8 DEF HandlesPlaced
    <2>14. HandlesPlaced'
      BY <1>0, <1>1, <2>10, <2>11, <2>12, <2>13 DEF HandlesPlaced, NoDup
    <2> QED BY <2>6, <2>14
  <1> QED BY <1>2, <1>3

\* Steps that leave the handles alone.
LEMMA OthersKeep ==
    ASSUME ApiIInv, UNCHANGED <<engine, owner, calls>>, DOMAIN last_error' = Threads
    PROVE  HandleTypes' /\ HandlesPlaced'
  <1>1. UNCHANGED <<engine, owner, g_handles, apiPc, arg, snapshot>>
    BY DEF calls
  <1>2. HandleTypes'
    BY <1>1 DEF ApiIInv, HandleTypes
  <1>3. /\ \A k : Vmm(k)' <=> Vmm(k)
        /\ \A u, k : Holds(u, k)' <=> Holds(u, k)
    BY <1>1 DEF Vmm, Holds
  <1>4. HandlesPlaced'
    BY <1>1, <1>3 DEF ApiIInv, HandlesPlaced, NoDup
  <1> QED BY <1>2, <1>4

\* Nothing is open at the start.
LEMMA ApiInitIInv == ApiInit => ApiIInv
  <1> SUFFICES ASSUME ApiInit PROVE ApiIInv
    OBVIOUS
  <1>1. HandleTypes
    <2>1. <<>> \in Seq(Handles)
      OBVIOUS
    <2>2. snapshot \in [Threads -> Seq(Handles)] /\ g_handles \in Seq(Handles)
      BY <2>1 DEF ApiInit
    <2>3. engine \in [Handles -> {"none", "open", "closed"}] /\ DOMAIN owner = Handles
      BY DEF ApiInit
    <2>4. DOMAIN last_error = Threads /\ apiPc \in [Threads -> {"idle", "register", "close", "close_all"}]
          /\ arg \in [Threads -> Handles \cup {None}]
      BY DEF ApiInit
    <2> QED BY <2>2, <2>3, <2>4 DEF HandleTypes
  <1>2. \A h \in Handles : ~Vmm(h)
    BY DEF ApiInit, Vmm
  <1>a. ToSet(<<>>) = {} /\ NoDup(<<>>)
    BY DEF ToSet, NoDup
  <1>3. /\ \A t \in Threads : arg[t] = None /\ snapshot[t] = <<>> /\ apiPc[t] = "idle"
        /\ ToSet(g_handles) = {} /\ NoDup(g_handles)
    <2>1. \A t \in Threads : arg[t] = None /\ snapshot[t] = <<>> /\ apiPc[t] = "idle"
      BY DEF ApiInit
    <2>2. g_handles = <<>>
      BY DEF ApiInit
    <2> QED BY <1>a, <2>1, <2>2
  <1>b. \A t \in Threads, h \in Handles : ~Holds(t, h)
    BY <1>3, <1>a, CApiAssumption DEF Holds
  <1>4. HandlesPlaced
    BY <1>2, <1>3, <1>a, <1>b DEF HandlesPlaced
  <1>5. CallsAnswered
    BY DEF ApiInit, Nothing, CallsAnswered
  <1> QED BY <1>1, <1>4, <1>5 DEF ApiIInv

\* Every step keeps the invariant while the two close functions are not mixed.
LEMMA ApiNextIInv ==
    ASSUME ~Mixed, ApiIInv, [ApiNext]_apiVars
    PROVE  ApiIInv'
  <1>0. HandleTypes /\ CallsAnswered /\ DOMAIN last_error = Threads
    BY DEF ApiIInv, HandleTypes
  <1>a. UNCHANGED <<last_error, ret>> => CallsAnswered'
    BY <1>0 DEF CallsAnswered
  <1>b. ASSUME NEW t \in Threads, OpenFails(t) PROVE CallsAnswered' /\ DOMAIN last_error' = Threads
    <2>1. GoodAnswer("lmpfs_open", FALSE, <<>>, "message")
      BY DEF GoodAnswer
    <2> QED BY <1>0, <1>b, <2>1, AnswerKeeps DEF OpenFails
  <1>c. ASSUME NEW t \in Threads, NEW api, NEW h, Opens(t, api, h) PROVE CallsAnswered'
    <2>1. \A error : GoodAnswer("lmpfs_open", TRUE, <<>>, error)
      BY DEF GoodAnswer
    <2> QED BY <1>0, <1>c, <2>1, AnswerKeeps DEF Opens
  <1>1. ASSUME NEW t \in Threads, lmpfs_open(t) PROVE ApiIInv'
    <2>1. CASE OpenFails(t)
      BY <1>1, <1>b, <2>1, OthersKeep DEF lmpfs_open, OpenFails, ApiIInv
    <2>2. CASE \E h \in Fresh : Opens(t, "lmpfs", h)
      BY <1>1, <1>c, <2>2, OpensKeeps DEF lmpfs_open, ApiIInv
    <2> QED BY <1>1, <2>1, <2>2 DEF lmpfs_open
  <1>2. ASSUME NEW t \in Threads, lmpfs_close(t) PROVE ApiIInv'
    BY <1>2, <1>a, NativeCloseKeeps DEF lmpfs_close, ApiIInv
  <1>3. ASSUME NEW t \in Threads, VMMDLL_Initialize(t) PROVE ApiIInv'
    <2>1. CASE /\ ret' = [thread |-> t, call |-> "VMMDLL_Initialize", ok |-> FALSE, out |-> <<>>]
               /\ UNCHANGED <<engine, owner, last_error, calls>>
      <3>1. CallsAnswered'
        BY <2>1 DEF CallsAnswered
      <3> QED BY <1>0, <2>1, <3>1, OthersKeep DEF ApiIInv
    <2>2. CASE OpenFails(t) /\ UNCHANGED calls
      BY <1>b, <2>2, OthersKeep DEF OpenFails, ApiIInv
    <2>3. CASE \E h \in Fresh :
                  /\ Opens(t, "vmm", h)
                  /\ apiPc' = [apiPc EXCEPT ![t] = "register"] /\ arg' = [arg EXCEPT ![t] = h]
                  /\ UNCHANGED <<g_handles, snapshot>>
      <3>1. apiPc[t] = "idle"
        BY <1>3 DEF VMMDLL_Initialize
      <3> QED BY <1>c, <2>3, <3>1, InitializeKeeps DEF ApiIInv
    <2> QED BY <1>3, <2>1, <2>2, <2>3 DEF VMMDLL_Initialize
  <1>4. ASSUME NEW t \in Threads, register_handle(t) PROVE ApiIInv'
    BY <1>4, <1>a, RegisterKeeps DEF register_handle, ApiIInv
  <1>5. ASSUME NEW t \in Threads, unregister_handle(t) PROVE ApiIInv'
    BY <1>5, <1>a, UnregisterKeeps DEF unregister_handle, ApiIInv
  <1>6. ASSUME NEW t \in Threads, VMMDLL_Close(t) PROVE ApiIInv'
    BY <1>6, <1>a, CloseKeeps DEF VMMDLL_Close, ApiIInv
  <1>7. ASSUME NEW t \in Threads, VMMDLL_CloseAll(t) PROVE ApiIInv'
    BY <1>7, <1>a, CloseAllKeeps DEF VMMDLL_CloseAll, ApiIInv
  <1>8. ASSUME NEW t \in Threads, CloseNext(t) PROVE ApiIInv'
    BY <1>8, <1>a, CloseNextKeeps DEF CloseNext, ApiIInv
  <1>9. ASSUME NEW t \in Threads, Call(t) PROVE ApiIInv'
    <2>1. PICK c \in ProcessCalls \cup NumberCalls \cup PathCalls : Answer(t, c.call, c.ok, c.out, c.error)
      BY <1>9 DEF Call
    <2>2. GoodAnswer(c.call, c.ok, c.out, c.error)
      BY ProcessCallsGood, NumberCallsGood, PathCallsGood DEF GoodCall
    <2>3. CallsAnswered' /\ DOMAIN last_error' = Threads
      BY <1>0, <2>1, <2>2, AnswerKeeps
    <2> QED BY <1>9, <2>3, OthersKeep DEF Call, ApiIInv
  <1>10. ASSUME NEW t \in Threads, NullHandle(t) PROVE ApiIInv'
    <2>1. PICK call \in {"lmpfs_process_count", "lmpfs_vfs_list", "lmpfs_mem_read_kva"} :
             Answer(t, call, FALSE, <<>>, "message")
      BY <1>10 DEF NullHandle
    <2>2. GoodAnswer(call, FALSE, <<>>, "message")
      BY <2>1 DEF GoodAnswer
    <2>3. CallsAnswered' /\ DOMAIN last_error' = Threads
      BY <1>0, <2>1, <2>2, AnswerKeeps
    <2> QED BY <1>10, <2>3, OthersKeep DEF NullHandle, ApiIInv
  <1>11. ASSUME NEW t \in Threads, lmpfs_kernel_direct_map_base(t) PROVE ApiIInv'
    <2>1. /\ ret' = [thread |-> t, call |-> "lmpfs_kernel_direct_map_base", ok |-> TRUE, out |-> <<>>]
          /\ UNCHANGED <<engine, owner, last_error, calls>>
      BY <1>11 DEF lmpfs_kernel_direct_map_base
    <2>2. CallsAnswered'
      BY <2>1 DEF CallsAnswered
    <2> QED BY <1>0, <2>1, <2>2, OthersKeep DEF ApiIInv
  <1>12. CASE UNCHANGED apiVars
    BY <1>0, <1>a, <1>12, OthersKeep DEF apiVars, calls, ApiIInv
  <1> QED
    BY <1>1, <1>2, <1>3, <1>4, <1>5, <1>6, <1>7, <1>8, <1>9, <1>10, <1>11, <1>12 DEF ApiNext

\* An engine of either interface is deleted once, whoever closes it and
\* whatever VMMDLL_CloseAll() takes in between; and each call answers for
\* itself: with its own thread's error, or the bytes and pids there are.
THEOREM ClientsAreServed ==
    ASSUME ~Mixed
    PROVE  ApiSpec => []ClientsServed
  <1>1. ApiInit => ApiIInv
    BY ApiInitIInv
  <1>2. ApiIInv /\ [ApiNext]_apiVars => ApiIInv'
    BY ApiNextIInv
  <1>3. ApiIInv => ClientsServed
    BY PlacedOnce DEF ClientsServed, ApiIInv
  <1> QED BY <1>1, <1>2, <1>3, PTL DEF ApiSpec
=============================================================================
