---------------------------- MODULE NodesProofs ----------------------------
(***************************************************************************)
(* Proofs about file nodes and the threads that warm them: VfsNode, for    *)
(* any set of nodes, threads and buffer lengths, and ForensicWarmer, for   *)
(* any tree, any command lines and any number of hardware threads.         *)
(*                                                                         *)
(* The nodes: a thread past the lock_guard of a method that takes one      *)
(* holds the node's mutex (MutexHeld), and on a guarded node every thread  *)
(* has gone through that lock_guard.  So at most one thread at a time is   *)
(* between the test of loaded_ and the return of the method, and whoever   *)
(* runs the producer found loaded_ clear and is alone (Pending, Counted).  *)
(*                                                                         *)
(* The pool: what makes the summary right is a count kept in two places.   *)
(* The indices taken from next_ are those counted in warmed_ and those in  *)
(* the hands of a thread, and remaining_workers_ counts the threads, born  *)
(* or not, that have not left.  Who finds remaining_workers_ at zero, or   *)
(* has joined the threads, finds nobody with a target in hand.             *)
(***************************************************************************)
EXTENDS VfsNode, ForensicWarmer, FiniteSetTheorems, TLAPS

Inside == {"check", "produce", "store", "use"}

\* The lock_guard of every method but LazyFileNode::warm is in force.
MutexHeld ==
    \A t \in Threads :
        pc[t] \in Inside /\ ~WarmsUnlocked(t) => mu[cur[t]] = t

\* Only the warm pool warms, and only what it collected.
WarmOnTargets == \A t \in Threads : op[t] = "warm" => cur[t] \in WarmTargets

\* Whoever is running the producer of a guarded node found loaded_ clear, and
\* it still is.
Pending ==
    \A t \in Threads :
        cur[t] \in Guarded /\ pc[t] \in {"produce", "store"} => ~loaded[cur[t]]

\* A producer of a guarded node that has run has filled data_ or is about to.
Counted ==
    \A n \in Guarded :
        /\ runs[n] \in {0, 1}
        /\ runs[n] = 1 =>
              loaded[n] \/ \E t \in Threads : pc[t] = "store" /\ cur[t] = n

\* A data_ in use is a loaded one.
UsesLoaded ==
    \A t \in Threads : pc[t] = "use" => loaded[cur[t]]

\* Only a SizedLazyFileNode has a size function.
SizingSized == \A t \in Threads : pc[t] = "sizing" => cur[t] \in Sized

\* Between the size() and the read() of a mount Read of an unwarmed
\* LazyFileNode, data_ keeps the length size() reported.
WantIsSize ==
    \A t \in Threads :
        /\ op[t] = "mount_read" /\ pc[t] # "idle" /\ want[t] # None
        /\ cur[t] \in Guarded \ Sized
        => loaded[cur[t]] /\ data[cur[t]] = want[t]

IInv ==
    /\ TypeOK
    /\ MutexHeld
    /\ WarmOnTargets
    /\ Pending
    /\ Counted
    /\ UsesLoaded
    /\ SizingSized
    /\ WantIsSize
    /\ NeverPadded
---------------------------------------------------------------------------
\* On a guarded node every thread past its lock_guard holds the mutex: warm()
\* of a LazyFileNode, which takes none, is never called there.
LEMMA GuardedLocked ==
    ASSUME IInv, NEW t \in Threads, cur[t] \in Guarded
    PROVE  /\ ~WarmsUnlocked(t)
           /\ pc[t] \in Inside => mu[cur[t]] = t
  BY DEF IInv, MutexHeld, WarmOnTargets, Guarded, WarmsUnlocked

\* The members' initial values satisfy the invariant.
LEMMA InitIInv == Init => IInv
  <1> SUFFICES ASSUME Init PROVE IInv
    OBVIOUS
  <1>1. (CHOOSE n \in Nodes : TRUE) \in Nodes
    BY VfsNodeAssumption
  <1>2. TypeOK
    BY <1>1, VfsNodeAssumption DEF Init, TypeOK, Ops, Threads, None
  <1> QED
    BY <1>1, <1>2, VfsNodeAssumption
    DEF Init, IInv, MutexHeld, WarmOnTargets, Pending, Counted, UsesLoaded,
        SizingSized, WantIsSize, NeverPadded, Inside, Guarded

\* A thread entering a method preserves the invariant.
LEMMA CallIInv ==
    ASSUME IInv, NEW t \in Threads, NEW n \in Nodes, NEW o \in Ops,
           o = "warm" => n \in WarmTargets,
           Call(t, n, o)
    PROVE  IInv'
  BY VfsNodeAssumption
  DEF Call, Goto, IInv, TypeOK, MutexHeld, WarmOnTargets, Pending, Counted,
      UsesLoaded, SizingSized, WantIsSize, NeverPadded, Inside, Guarded, WarmsUnlocked, None

\* A thread's step inside a method preserves the invariant.
LEMMA StepIInv ==
    ASSUME IInv, NEW t \in Threads, Step(t)
    PROVE  IInv'
  <1>1. CASE LockData(t)
    BY <1>1, VfsNodeAssumption, GuardedLocked
    DEF LockData, Goto, IInv, TypeOK, MutexHeld, WarmOnTargets, Pending,
       Counted, UsesLoaded, SizingSized, WantIsSize, NeverPadded, Inside, Guarded,
       WarmsUnlocked, None, Threads, UsesSizeMu, InSizeCall
  <1>2. CASE WarmUnlocked(t)
    BY <1>2, VfsNodeAssumption, GuardedLocked
    DEF WarmUnlocked, Goto, IInv, TypeOK, MutexHeld, WarmOnTargets, Pending,
       Counted, UsesLoaded, SizingSized, WantIsSize, NeverPadded, Inside, Guarded,
       WarmsUnlocked, None
  <1>3. CASE FindLoaded(t)
    BY <1>3, VfsNodeAssumption, GuardedLocked
    DEF FindLoaded, Goto, Unlock, IInv, TypeOK, MutexHeld, WarmOnTargets, Pending,
       Counted, UsesLoaded, SizingSized, WantIsSize, NeverPadded, Inside, Guarded,
       WarmsUnlocked, None
  <1>4. CASE HintUnknown(t)
    BY <1>4, VfsNodeAssumption, GuardedLocked
    DEF HintUnknown, Goto, Unlock, IInv, TypeOK, MutexHeld, WarmOnTargets, Pending,
       Counted, UsesLoaded, SizingSized, WantIsSize, NeverPadded, Inside, Guarded,
       WarmsUnlocked, None
  <1>5. CASE FindUnloaded(t)
    BY <1>5, VfsNodeAssumption, GuardedLocked
    DEF FindUnloaded, Goto, IInv, TypeOK, MutexHeld, WarmOnTargets, Pending,
       Counted, UsesLoaded, SizingSized, WantIsSize, NeverPadded, Inside, Guarded,
       WarmsUnlocked, None
  <1>6. CASE \E len \in Lengths : Produce(t, len)
    BY <1>6, VfsNodeAssumption, GuardedLocked
    DEF Produce, Goto, IInv, TypeOK, MutexHeld, WarmOnTargets, Pending,
       Counted, UsesLoaded, SizingSized, WantIsSize, NeverPadded, Inside, Guarded,
       WarmsUnlocked, None
  <1>7. CASE ProduceThrows(t)
    BY <1>7, VfsNodeAssumption, GuardedLocked
    DEF ProduceThrows, Goto, Unlock, IInv, TypeOK, MutexHeld, WarmOnTargets, Pending,
       Counted, UsesLoaded, SizingSized, WantIsSize, NeverPadded, Inside, Guarded,
       WarmsUnlocked, None
  <1>8. CASE Store(t)
    BY <1>8, VfsNodeAssumption, GuardedLocked
    DEF Store, Goto, Unlock, IInv, TypeOK, MutexHeld, WarmOnTargets, Pending,
       Counted, UsesLoaded, SizingSized, WantIsSize, NeverPadded, Inside, Guarded,
       WarmsUnlocked, None
  <1>9. CASE UseSize(t)
    <2>1. PICK s \in Seen(t) : AfterSize(t, s)
      BY <1>9 DEF UseSize
    <2>2. /\ loaded[cur[t]]
          /\ s \in Lengths
          /\ cur[t] \in Guarded => s = data[cur[t]]
      BY <1>9, <2>1, GuardedLocked
      DEF UseSize, Seen, IInv, TypeOK, UsesLoaded, Inside
    <2>3. /\ TypeOK'
          /\ MutexHeld'
          /\ WarmOnTargets'
      BY <1>9, <2>1, <2>2
      DEF UseSize, AfterSize, Goto, Unlock, IInv, TypeOK, MutexHeld,
          WarmOnTargets, Inside, WarmsUnlocked
    <2>4. /\ Pending'
          /\ Counted'
          /\ UsesLoaded'
          /\ SizingSized'
          /\ NeverPadded'
      BY <1>9, <2>1, <2>2, VfsNodeAssumption
      DEF UseSize, AfterSize, Goto, IInv, TypeOK, Pending, Counted,
          UsesLoaded, SizingSized, NeverPadded, Guarded
    <2>5. WantIsSize'
      BY <1>9, <2>1, <2>2, VfsNodeAssumption
      DEF UseSize, AfterSize, Goto, IInv, TypeOK, SizingSized, WantIsSize, Guarded
    <2> QED
      BY <2>3, <2>4, <2>5 DEF IInv
  <1>10. CASE UseBytes(t)
    BY <1>10, VfsNodeAssumption, GuardedLocked
    DEF UseBytes, Seen, Goto, Unlock, IInv, TypeOK, MutexHeld, WarmOnTargets, Pending,
       Counted, UsesLoaded, SizingSized, WantIsSize, NeverPadded, Inside, Guarded,
       WarmsUnlocked, None, InSizeCall
  <1>11. CASE LockSize(t)
    BY <1>11, VfsNodeAssumption, GuardedLocked
    DEF LockSize, UsesSizeMu, Goto, IInv, TypeOK, MutexHeld, WarmOnTargets, Pending,
       Counted, UsesLoaded, SizingSized, WantIsSize, NeverPadded, Inside, Guarded,
       WarmsUnlocked, None
  <1>12. CASE \E s \in Lengths : SizeFrom(t, s)
    <2>1. PICK s \in Lengths : SizeFrom(t, s)
      BY <1>12
    <2>2. /\ TypeOK'
          /\ MutexHeld'
          /\ WarmOnTargets'
      BY <2>1, VfsNodeAssumption
      DEF SizeFrom, AfterSize, Goto, IInv, TypeOK, MutexHeld, WarmOnTargets,
          Inside, WarmsUnlocked
    <2>3. /\ Pending'
          /\ Counted'
          /\ UsesLoaded'
          /\ SizingSized'
          /\ NeverPadded'
      BY <2>1, VfsNodeAssumption
      DEF SizeFrom, AfterSize, Goto, IInv, TypeOK, Pending, Counted,
          UsesLoaded, SizingSized, NeverPadded, Guarded
    <2>4. WantIsSize'
      BY <2>1, VfsNodeAssumption
      DEF SizeFrom, AfterSize, Goto, IInv, TypeOK, SizingSized, WantIsSize, Guarded
    <2> QED
      BY <2>2, <2>3, <2>4 DEF IInv
  <1>13. CASE SizeThrows(t)
    BY <1>13, VfsNodeAssumption, GuardedLocked
    DEF SizeThrows, Goto, IInv, TypeOK, MutexHeld, WarmOnTargets, Pending,
       Counted, UsesLoaded, SizingSized, WantIsSize, NeverPadded, Inside, Guarded,
       WarmsUnlocked, None
  <1> QED
    BY <1>1, <1>2, <1>3, <1>4, <1>5, <1>6, <1>7, <1>8, <1>9, <1>10, <1>11, <1>12, <1>13 DEF Step
---------------------------------------------------------------------------
\* IInv is preserved by every step of every thread.
LEMMA NextIInv == IInv /\ [Next]_vars => IInv'
  <1> SUFFICES ASSUME IInv, [Next]_vars PROVE IInv'
    OBVIOUS
  <1>1. CASE \E t \in Dispatchers : Dispatch(t)
    <2>1. PICK t \in Dispatchers, n \in Nodes, o \in Ops \ {"warm"} : Call(t, n, o)
      BY <1>1 DEF Dispatch
    <2> QED
      BY <2>1, CallIInv DEF Threads
  <1>2. CASE \E t \in Warmers, n \in WarmTargets, o \in {"warm", "size_hint"} : Call(t, n, o)
    BY <1>2, CallIInv, VfsNodeAssumption DEF Threads, Ops
  <1>3. CASE \E t \in Threads : Step(t)
    BY <1>3, StepIInv
  <1>4. CASE UNCHANGED vars
    BY <1>4 DEF vars, IInv, TypeOK, MutexHeld, WarmOnTargets, Pending, Counted,
       UsesLoaded, SizingSized, WantIsSize, NeverPadded, Inside, Guarded,
       WarmsUnlocked
  <1> QED
    BY <1>1, <1>2, <1>3, <1>4 DEF Next

\* The inductive invariant holds in every reachable state, for any number of
\* nodes, dispatcher threads and warm-pool threads.
THEOREM Invariance == Spec => []IInv
  BY InitIInv, NextIInv, PTL DEF Spec

\* The variables keep their types.
THEOREM TypeCorrect == Spec => []TypeOK
  <1>1. IInv => TypeOK
    BY DEF IInv
  <1> QED
    BY <1>1, Invariance, PTL

\* The producer of a node whose loads all take the mutex completes at most
\* once (LazyFileNode::ensure_loaded, SizedLazyFileNode::ensure_loaded).
THEOREM ProducesOnce == Spec => []GuardedProducedOnce
  <1>1. IInv => GuardedProducedOnce
    BY DEF IInv, Counted, GuardedProducedOnce
  <1> QED
    BY <1>1, Invariance, PTL

\* The assignment to data_ in ensure_loaded() never overlaps another access
\* to data_ of the same guarded node.
THEOREM RaceFree == Spec => []GuardedRaceFree
  <1>1. IInv => GuardedRaceFree
    <2> SUFFICES ASSUME IInv, NEW n \in Guarded, NEW t \in Threads,
                        NEW u \in Threads, t # u, Accesses(t, n), Accesses(u, n)
                 PROVE  FALSE
      BY DEF GuardedRaceFree
    <2> QED
      BY GuardedLocked DEF Accesses, Inside
  <1> QED
    BY <1>1, Invariance, PTL

\* The mount adapters never zero-fill a read of an unwarmed LazyFileNode.
THEOREM NoPadding == Spec => []NeverPadded
  <1>1. IInv => NeverPadded
    BY DEF IInv
  <1> QED
    BY <1>1, Invariance, PTL

\* A step of a thread fills one cell or leaves all of them alone.
LEMMA StepFills ==
    ASSUME IInv, [Next]_vars
    PROVE  [Cell!Next]_Content
  <1>1. ASSUME NEW t \in Threads, Store(t)
        PROVE  [Cell!Next]_Content
    <2>1. CASE cur[t] \in Guarded
      <3>1. /\ ~loaded[cur[t]]
            /\ tmp[t] \in Lengths
        BY <1>1, <2>1 DEF Store, IInv, TypeOK, Pending
      <3>2. /\ Content[cur[t]] = None
            /\ Content' = [Content EXCEPT ![cur[t]] = tmp[t]]
        BY <1>1, <2>1, <3>1, VfsNodeAssumption
        DEF Store, Content, IInv, TypeOK, Guarded
      <3> QED
        BY <2>1, <3>1, <3>2 DEF Cell!Next, Cell!Fill
    <2>2. CASE cur[t] \notin Guarded
      BY <1>1, <2>2, VfsNodeAssumption DEF Store, Content, IInv, TypeOK, Guarded
    <2> QED
      BY <2>1, <2>2
  <1>2. CASE UNCHANGED <<data, loaded>>
    BY <1>2 DEF Content
  <1>3. ASSUME NEW t \in Threads, Step(t), ~Store(t)
        PROVE  UNCHANGED <<data, loaded>>
    BY <1>3 DEF Step, LockData, WarmUnlocked, FindLoaded, HintUnknown,
       FindUnloaded, Produce, ProduceThrows, UseSize, UseBytes, LockSize,
       SizeFrom, SizeThrows
  <1> QED
    BY <1>1, <1>2, <1>3 DEF Next, Dispatch, Call, vars

\* Guarded nodes implement write-once cells.
THEOREM Refinement == Spec => ImplementsOnceCell
  <1>1. Init => Cell!Init
    BY VfsNodeAssumption DEF Init, Cell!Init, Content, Guarded
  <1> QED
    BY <1>1, StepFills, Invariance, PTL DEF Spec, ImplementsOnceCell, Cell!Spec

\* The size a SizedLazyFileNode reports never changes (SizedLazyFileNode::size).
THEOREM SizesStable == Spec => SizeStable
  <1>1. ASSUME IInv, [Next]_vars
        PROVE  [\A n \in Nodes : sizeCache[n] # None => sizeCache'[n] = sizeCache[n]]_vars
    <2>1. ASSUME NEW t \in Threads, NEW s \in Lengths, SizeFrom(t, s)
          PROVE  \A n \in Nodes : sizeCache[n] # None => sizeCache'[n] = sizeCache[n]
      BY <2>1 DEF SizeFrom, IInv, TypeOK
    <2>2. ASSUME NEW t \in Threads, Step(t), ~\E s \in Lengths : SizeFrom(t, s)
          PROVE  UNCHANGED sizeCache
      BY <2>2 DEF Step, LockData, WarmUnlocked, FindLoaded, HintUnknown,
         FindUnloaded, Produce, ProduceThrows, Store, UseSize, UseBytes,
         LockSize, SizeThrows
    <2> QED
      BY <1>1, <2>1, <2>2 DEF Next, Dispatch, Call, vars
  <1> QED
    BY <1>1, Invariance, PTL DEF Spec, SizeStable

-----------------------------------------------------------------------------
(* The pool that warms the nodes.                                          *)

Mains == {"create", "spawn", "mounted", "join", "report", "destroyed"}
Places == {"unborn", "claim", "warm", "count", "leave", "report", "done"}

PoolTypeInv ==
    /\ main \in Mains
    /\ Len(targets) \in Nat
    /\ next \in Nat
    /\ warmed \in Nat
    /\ remaining \in Nat
    /\ jobs \in 0..MaxJobs
    /\ spawned \in 0..jobs
    /\ reported \in BOOLEAN
    /\ workerPc \in [Workers -> Places]
    /\ claim \in [Workers -> Nat]

\* The threads with a target in hand, and those that have not left.
Active == {w \in Workers : workerPc[w] \in {"warm", "count"}}
Staying == {w \in Workers : w <= jobs /\ workerPc[w] \notin {"report", "done"}}

Beginning ==
    main = "create" =>
        /\ jobs = 0 /\ next = 0 /\ warmed = 0 /\ remaining = 0
        /\ summary = <<>>

Birth ==
    /\ \A w \in Workers : workerPc[w] = "unborn" <=> w > spawned
    /\ main = "spawn" => spawned < jobs
    /\ spawned = 0 => next = 0

Claims ==
    /\ \A w \in Active : claim[w] <= next
    /\ DistinctClaims

OutOfTargets ==
    \A w \in Workers : workerPc[w] \in {"leave", "report", "done"} => next >= Len(targets)

AllCounted ==
    warmed + Cardinality(Active) = IF next < Len(targets) THEN next ELSE Len(targets)

Leaving ==
    /\ remaining = Cardinality(Staying)
    /\ \A w \in Workers : workerPc[w] = "report" => remaining = 0

Joined ==
    main \in {"report", "destroyed"} => \A w \in Workers : workerPc[w] \in {"unborn", "done"}

Logged == summary = <<>> \/ (reported /\ summary = <<Len(targets)>>)

PoolInv ==
    /\ PoolTypeInv /\ Beginning /\ Birth /\ Claims /\ OutOfTargets
    /\ AllCounted /\ Leaving /\ Joined /\ Logged

---------------------------------------------------------------------------
\* The sets counted are finite, and change by one element at a time.
LEMMA WorkersFinite == IsFiniteSet(Workers) /\ \A S \in SUBSET Workers : IsFiniteSet(S)
  <1>1. IsFiniteSet(1..MaxJobs)
    <2>1. 1 \in Int /\ MaxJobs \in Int
      BY DEF MaxJobs
    <2> QED
      BY <2>1, FS_Interval, Zenon
  <1> QED
    BY <1>1, FS_Subset DEF Workers

LEMMA CountsAreNat ==
    ASSUME NEW S \in SUBSET Workers
    PROVE  /\ Cardinality(S) \in Nat
           /\ Cardinality(S) = 0 <=> S = {}
  BY WorkersFinite, FS_CardinalityType, FS_EmptySet

LEMMA OneMore ==
    ASSUME NEW S \in SUBSET Workers, NEW w \in Workers, w \notin S
    PROVE  Cardinality(S \cup {w}) = Cardinality(S) + 1
  BY WorkersFinite, FS_AddElement

LEMMA OneLess ==
    ASSUME NEW S \in SUBSET Workers, NEW w \in S
    PROVE  Cardinality(S \ {w}) = Cardinality(S) - 1
  BY WorkersFinite, FS_RemoveElement

\* Targets are a sequence, and the pool is no larger than its cap.
LEMMA LaunchFacts ==
    ASSUME NEW o
    PROVE  /\ Len(SortByRank(Selected(o))) \in Nat
           /\ \A n \in Nat : PoolSize(n) \in 0..MaxJobs
  <1>1. Selected(o) \in SUBSET (1..Len(Tree)) /\ Len(Tree) \in Nat
    BY ForensicWarmerAssumption DEF Selected
  <1>2. IsFiniteSet(Selected(o))
    <2>1. 1 \in Int /\ Len(Tree) \in Int
      BY <1>1
    <2>2. IsFiniteSet(1..Len(Tree))
      BY <2>1, FS_Interval, Zenon
    <2> QED
      BY <1>1, <2>2, FS_Subset, Zenon
  <1>3. Cardinality(Selected(o)) \in Nat
    BY <1>2, FS_CardinalityType
  <1>4. Len(SortByRank(Selected(o))) = Cardinality(Selected(o))
    BY <1>3 DEF SortByRank
  <1>5. \A n \in Nat : PoolSize(n) \in 0..MaxJobs
    BY ForensicWarmerAssumption DEF PoolSize, MaxJobs
  <1> QED
    BY <1>3, <1>4, <1>5

\* When nobody has a target in hand, and threads that left found no more, or
\* none was ever created, what was warmed is everything or nothing.
LEMMA AllOrNothing ==
    ASSUME PoolInv, Active = {}, (\E w \in Workers : workerPc[w] \in {"report", "done"}) \/ spawned = 0
    PROVE  warmed = 0 \/ warmed = Len(targets)
  <1>1. warmed = IF next < Len(targets) THEN next ELSE Len(targets)
    BY CountsAreNat DEF PoolInv, PoolTypeInv, AllCounted, Active
  <1> QED
    BY <1>1 DEF PoolInv, PoolTypeInv, OutOfTargets, Birth

\* Reporting then leaves the log right.
LEMMA ReportRight ==
    ASSUME PoolInv, warmed = 0 \/ warmed = Len(targets), ReportSummary, targets' = targets
    PROVE  Logged'
  <1>1. Append(<<>>, warmed) = <<warmed>>
    BY DEF PoolInv, PoolTypeInv
  <1>2. reported' /\ (summary' = summary \/ (~reported /\ warmed # 0 /\ summary' = Append(summary, warmed)))
    BY DEF ReportSummary
  <1>3. CASE summary' = summary
    BY <1>2, <1>3 DEF PoolInv, Logged
  <1>4. CASE ~reported /\ warmed # 0 /\ summary' = Append(summary, warmed)
    <2>1. summary = <<>> /\ warmed = Len(targets)
      BY <1>4 DEF PoolInv, Logged
    <2>2. summary' = <<Len(targets)>>
      BY <1>1, <1>4, <2>1
    <2> QED
      BY <1>2, <2>2 DEF Logged
  <1> QED
    BY <1>2, <1>3, <1>4

---------------------------------------------------------------------------
LEMMA PoolInitInv == WarmerInit => PoolInv
  <1> SUFFICES ASSUME WarmerInit PROVE PoolInv
    OBVIOUS
  <1>1. Active = {} /\ Staying = {}
    BY DEF WarmerInit, Active, Staying, Workers, MaxJobs
  <1>2. Len(targets) = 0
    BY DEF WarmerInit
  <1>3. PoolTypeInv /\ Beginning /\ Birth /\ Claims /\ OutOfTargets /\ Joined /\ Logged
    <2>1. PoolTypeInv
      <3>1. workerPc \in [Workers -> Places] /\ claim \in [Workers -> Nat]
        BY DEF WarmerInit, Places
      <3>2. jobs \in 0..MaxJobs /\ spawned \in 0..jobs
        BY DEF WarmerInit, MaxJobs
      <3>3. main \in Mains /\ Len(targets) \in Nat
        BY <1>2 DEF WarmerInit, Mains
      <3>4. next \in Nat /\ warmed \in Nat /\ remaining \in Nat /\ reported \in BOOLEAN
        BY DEF WarmerInit
      <3> QED
        BY <3>1, <3>2, <3>3, <3>4 DEF PoolTypeInv
    <2>2. Beginning /\ Joined /\ Logged
      BY DEF WarmerInit, Beginning, Joined, Logged
    <2>3. Birth
      BY DEF WarmerInit, Birth, Workers, MaxJobs
    <2>4. Claims /\ OutOfTargets
      BY <1>1 DEF WarmerInit, Claims, DistinctClaims, OutOfTargets
    <2> QED
      BY <2>1, <2>2, <2>3, <2>4
  <1>4. AllCounted /\ Leaving
    BY <1>1, <1>2, FS_EmptySet DEF WarmerInit, AllCounted, Leaving
  <1> QED
    BY <1>3, <1>4 DEF PoolInv

---------------------------------------------------------------------------
(* The Engine's thread *)

LEMMA LaunchInv == ASSUME PoolInv, Launch PROVE PoolInv'
  <1>1. Len(targets') \in Nat /\ jobs' \in 0..MaxJobs
    BY LaunchFacts DEF Launch
  <1>2. spawned = 0 /\ next = 0 /\ warmed = 0 /\ summary = <<>> /\ \A w \in Workers : workerPc[w] = "unborn"
    BY DEF PoolInv, PoolTypeInv, Beginning, Birth, Launch, Workers, MaxJobs
  <1>3. Active' = {} /\ Cardinality({}) = 0
    BY <1>2, FS_EmptySet DEF Active, Launch
  <1>4. Staying' = 1..jobs'
    BY <1>1, <1>2 DEF Staying, Launch, Workers, MaxJobs
  <1>5. Cardinality(1..jobs') = jobs'
    <2> DEFINE n == jobs'
    <2>1. 1 \in Int /\ n \in Int /\ n \in Nat
      BY <1>1 DEF MaxJobs
    <2> HIDE DEF n
    <2>2. Cardinality(1..n) = IF 1 > n THEN 0 ELSE n - 1 + 1
      BY <2>1, FS_Interval, Zenon
    <2>3. Cardinality(1..n) = n
      BY <2>1, <2>2
    <2> QED
      BY <2>3 DEF n
  <1>6. PoolTypeInv' /\ Beginning' /\ Birth' /\ Claims' /\ OutOfTargets' /\ Joined' /\ Logged'
    BY <1>1, <1>2, <1>3 DEF PoolInv, PoolTypeInv, Mains, Beginning, Birth, Claims, DistinctClaims,
        OutOfTargets, Joined, Logged, Launch, Workers
  <1>7. AllCounted'
    BY <1>1, <1>2, <1>3 DEF AllCounted, Launch
  <1>8. Leaving'
    BY <1>2, <1>4, <1>5 DEF Leaving, Launch
  <1> QED
    BY <1>6, <1>7, <1>8 DEF PoolInv

LEMMA SpawnInv == ASSUME PoolInv, Spawn PROVE PoolInv'
  <1>1. spawned' \in Workers /\ workerPc[spawned'] = "unborn" /\ spawned' = spawned + 1 /\ spawned' <= jobs
    BY DEF PoolInv, PoolTypeInv, Birth, Spawn, Workers, MaxJobs
  <1>2. workerPc' = [workerPc EXCEPT ![spawned'] = "claim"]
    BY DEF Spawn
  <1>3. Active' = Active /\ Staying' = Staying
    BY <1>1, <1>2 DEF PoolInv, PoolTypeInv, Active, Staying, Spawn
  <1>4. PoolTypeInv' /\ Beginning' /\ Claims' /\ OutOfTargets' /\ Joined' /\ Logged'
    BY <1>1, <1>2, <1>3 DEF PoolInv, PoolTypeInv, Mains, Places, Beginning, Claims,
        DistinctClaims, OutOfTargets, Joined, Logged, Spawn
  <1>5. Birth'
    BY <1>1, <1>2 DEF PoolInv, PoolTypeInv, Birth, Spawn, Workers, MaxJobs
  <1>6. AllCounted' /\ Leaving'
    BY <1>1, <1>2, <1>3 DEF PoolInv, PoolTypeInv, AllCounted, Leaving, Spawn
  <1> QED
    BY <1>4, <1>5, <1>6 DEF PoolInv

\* The exit to join, and the join.
LEMMA EndInv == ASSUME PoolInv, SpawnFails \/ Unmount \/ Join PROVE PoolInv'
  <1>1. Active' = Active /\ Staying' = Staying
    BY DEF Active, Staying, SpawnFails, Unmount, Join, pool
  <1>2. PoolTypeInv' /\ Beginning' /\ Birth' /\ Claims' /\ OutOfTargets' /\ Logged'
    BY <1>1 DEF PoolInv, PoolTypeInv, Mains, Beginning, Birth, Claims, DistinctClaims,
        OutOfTargets, Logged, SpawnFails, Unmount, Join, pool
  <1>3. Joined'
    <2>1. CASE Join
      BY <2>1 DEF PoolInv, PoolTypeInv, Joined, Join, pool, Birth, Workers
    <2>2. CASE SpawnFails \/ Unmount
      BY <2>2 DEF Joined, SpawnFails, Unmount
    <2> QED
      BY <2>1, <2>2
  <1>4. AllCounted' /\ Leaving'
    BY <1>1 DEF PoolInv, AllCounted, Leaving, SpawnFails, Unmount, Join, pool
  <1> QED
    BY <1>2, <1>3, <1>4 DEF PoolInv

LEMMA DestroyInv == ASSUME PoolInv, Destroy PROVE PoolInv'
  <1>1. Active' = Active /\ Staying' = Staying
    BY DEF Active, Staying, Destroy
  <1>2. \A w \in Workers : workerPc[w] \in {"unborn", "done"}
    BY DEF PoolInv, Joined, Destroy
  <1>3. Active = {}
    BY <1>2 DEF Active
  <1>4. (\E w \in Workers : workerPc[w] \in {"report", "done"}) \/ spawned = 0
    <2>1. CASE spawned = 0
      BY <2>1
    <2>2. CASE spawned # 0
      <3>1. 1 \in Workers /\ ~(1 > spawned)
        BY <2>2 DEF PoolInv, PoolTypeInv, Workers, MaxJobs
      <3>2. workerPc[1] = "done"
        BY <3>1, <1>2 DEF PoolInv, Birth
      <3> QED
        BY <3>1, <3>2
    <2> QED
      BY <2>1, <2>2
  <1>5. warmed = 0 \/ warmed = Len(targets)
    BY <1>3, <1>4, AllOrNothing
  <1>6. Logged'
    <2>1. CASE ReportSummary
      BY <2>1, <1>5, ReportRight DEF Destroy
    <2>2. CASE UNCHANGED <<reported, summary>>
      BY <2>2 DEF PoolInv, Logged, Destroy
    <2> QED
      BY <2>1, <2>2 DEF Destroy
  <1>7. reported' \in BOOLEAN
    BY DEF PoolInv, PoolTypeInv, Destroy, ReportSummary
  <1>8. PoolTypeInv' /\ Beginning' /\ Birth' /\ Claims' /\ OutOfTargets' /\ Joined'
    BY <1>1, <1>2, <1>7 DEF PoolInv, PoolTypeInv, Mains, Beginning, Birth, Claims,
        DistinctClaims, OutOfTargets, Joined, Destroy
  <1>9. AllCounted' /\ Leaving'
    BY <1>1 DEF PoolInv, AllCounted, Leaving, Destroy
  <1> QED
    BY <1>6, <1>8, <1>9 DEF PoolInv

---------------------------------------------------------------------------
(* The pool's threads.  One that moves is born, and not yet joined. *)

LEMMA Running ==
    ASSUME PoolInv, NEW w \in Workers, workerPc[w] \notin {"unborn", "done"}
    PROVE  /\ main \notin {"create", "report", "destroyed"}
           /\ w <= spawned /\ spawned <= jobs /\ spawned # 0
  BY DEF PoolInv, PoolTypeInv, Beginning, Birth, Joined, Workers

\* A thread with a new place that is neither an end nor a beginning.
LEMMA MoveKeeps ==
    ASSUME PoolInv, NEW w \in Workers, workerPc[w] \notin {"unborn", "done"},
           NEW p \in Places \ {"unborn"}, workerPc' = [workerPc EXCEPT ![w] = p],
           UNCHANGED <<main, targets, jobs, spawned>>
    PROVE  /\ workerPc' \in [Workers -> Places]
           /\ Beginning' /\ Birth' /\ Joined'
  BY Running DEF PoolInv, PoolTypeInv, Beginning, Birth, Joined

LEMMA ClaimInv == ASSUME PoolInv, NEW w \in Workers, Claim(w) PROVE PoolInv'
  <1>1. workerPc[w] = "claim" /\ workerPc' = [workerPc EXCEPT ![w] = "warm"] /\ next < Len(targets) /\ next' = next + 1
    BY DEF Claim
  <1>2. workerPc' \in [Workers -> Places] /\ Beginning' /\ Birth' /\ Joined'
    BY <1>1, MoveKeeps DEF Claim, Places
  <1>3. Active' = Active \cup {w} /\ w \notin Active
    BY <1>1 DEF PoolInv, PoolTypeInv, Active
  <1>4. Staying' = Staying
    BY <1>1 DEF PoolInv, PoolTypeInv, Staying, Claim
  <1>5. Cardinality(Active') = Cardinality(Active) + 1 /\ Cardinality(Active) \in Nat
    BY <1>3, OneMore, CountsAreNat DEF Active
  <1>6. PoolTypeInv' /\ Logged'
    BY <1>1, <1>2 DEF PoolInv, PoolTypeInv, Logged, Claim
  <1>7. Claims'
    <2>1. claim' = [claim EXCEPT ![w] = next + 1] /\ claim \in [Workers -> Nat] /\ next \in Nat
      BY DEF Claim, PoolInv, PoolTypeInv
    <2>2. \A v \in Active' : claim'[v] <= next'
      BY <1>1, <1>3, <2>1 DEF PoolInv, Claims, Active
    <2>3. \A v \in Active : claim'[v] = claim[v] /\ claim[v] # claim'[w]
      BY <1>3, <2>1 DEF PoolInv, Claims, Active
    <2>4. DistinctClaims'
      BY <1>3, <2>3 DEF PoolInv, Claims, DistinctClaims, Active
    <2> QED
      BY <2>2, <2>4 DEF Claims
  <1>8. OutOfTargets'
    BY <1>1 DEF PoolInv, PoolTypeInv, OutOfTargets, Claim
  <1>9. AllCounted'
    BY <1>1, <1>5 DEF PoolInv, PoolTypeInv, AllCounted, Claim
  <1>10. Leaving'
    BY <1>1, <1>4 DEF PoolInv, PoolTypeInv, Leaving, Claim
  <1> QED
    BY <1>2, <1>6, <1>7, <1>8, <1>9, <1>10 DEF PoolInv

LEMMA OutOfWorkInv == ASSUME PoolInv, NEW w \in Workers, OutOfWork(w) PROVE PoolInv'
  <1>1. workerPc[w] = "claim" /\ workerPc' = [workerPc EXCEPT ![w] = "leave"] /\ next >= Len(targets) /\ next' = next + 1
    BY DEF OutOfWork
  <1>2. workerPc' \in [Workers -> Places] /\ Beginning' /\ Birth' /\ Joined'
    BY <1>1, MoveKeeps DEF OutOfWork, Places
  <1>3. Active' = Active /\ Staying' = Staying
    BY <1>1 DEF PoolInv, PoolTypeInv, Active, Staying, OutOfWork
  <1>4. PoolTypeInv' /\ Claims' /\ OutOfTargets' /\ Logged'
    BY <1>1, <1>2, <1>3 DEF PoolInv, PoolTypeInv, Claims, DistinctClaims, Active, OutOfTargets,
        Logged, OutOfWork
  <1>5. AllCounted'
    BY <1>1, <1>3, CountsAreNat DEF PoolInv, PoolTypeInv, AllCounted, OutOfWork
  <1>6. Leaving'
    BY <1>1, <1>3 DEF PoolInv, PoolTypeInv, Leaving, OutOfWork
  <1> QED
    BY <1>2, <1>4, <1>5, <1>6 DEF PoolInv

LEMMA WarmInv == ASSUME PoolInv, NEW w \in Workers, Warm(w) PROVE PoolInv'
  <1>1. workerPc[w] = "warm" /\ workerPc' = [workerPc EXCEPT ![w] = "count"]
    BY DEF Warm
  <1>2. workerPc' \in [Workers -> Places] /\ Beginning' /\ Birth' /\ Joined'
    BY <1>1, MoveKeeps DEF Warm, Places
  <1>3. Active' = Active /\ Staying' = Staying
    BY <1>1 DEF PoolInv, PoolTypeInv, Active, Staying, Warm
  <1>4. PoolTypeInv' /\ Claims' /\ OutOfTargets' /\ Logged'
    BY <1>1, <1>2, <1>3 DEF PoolInv, PoolTypeInv, Claims, DistinctClaims, Active, OutOfTargets,
        Logged, Warm
  <1>5. AllCounted' /\ Leaving'
    BY <1>1, <1>3 DEF PoolInv, PoolTypeInv, AllCounted, Leaving, Warm
  <1> QED
    BY <1>2, <1>4, <1>5 DEF PoolInv

LEMMA CountInv == ASSUME PoolInv, NEW w \in Workers, CountWarmed(w) PROVE PoolInv'
  <1>1. workerPc[w] = "count" /\ workerPc' = [workerPc EXCEPT ![w] = "claim"] /\ warmed' = warmed + 1
    BY DEF CountWarmed
  <1>2. workerPc' \in [Workers -> Places] /\ Birth' /\ Joined'
    BY <1>1, MoveKeeps DEF CountWarmed, Places
  <1>3. Active' = Active \ {w} /\ w \in Active
    BY <1>1 DEF PoolInv, PoolTypeInv, Active
  <1>4. Staying' = Staying
    BY <1>1 DEF PoolInv, PoolTypeInv, Staying, CountWarmed
  <1>5. Cardinality(Active') = Cardinality(Active) - 1 /\ Cardinality(Active) \in Nat
    BY <1>3, OneLess, CountsAreNat DEF Active
  <1>6. Beginning'
    BY <1>1, Running DEF Beginning, CountWarmed
  <1>7. PoolTypeInv' /\ Claims' /\ OutOfTargets' /\ Logged'
    BY <1>1, <1>2, <1>3 DEF PoolInv, PoolTypeInv, Claims, DistinctClaims, Active, OutOfTargets,
        Logged, CountWarmed
  <1>8. AllCounted'
    BY <1>1, <1>5 DEF PoolInv, PoolTypeInv, AllCounted, CountWarmed
  <1>9. Leaving'
    BY <1>1, <1>4 DEF PoolInv, PoolTypeInv, Leaving, CountWarmed
  <1> QED
    BY <1>2, <1>6, <1>7, <1>8, <1>9 DEF PoolInv

LEMMA LeaveInv == ASSUME PoolInv, NEW w \in Workers, Leave(w) PROVE PoolInv'
  <1> DEFINE p == IF remaining = 1 THEN "report" ELSE "done"
  <1>1. workerPc[w] = "leave" /\ workerPc' = [workerPc EXCEPT ![w] = p] /\ remaining' = remaining - 1 /\ p \in {"report", "done"}
    BY DEF Leave
  <1>2. workerPc' \in [Workers -> Places] /\ Birth' /\ Joined' /\ main # "create" /\ w <= jobs
    <2>1. workerPc' \in [Workers -> Places] /\ Birth' /\ Joined' /\ main # "create"
      BY <1>1, MoveKeeps, Running DEF Leave, Places
    <2>2. w <= spawned /\ spawned <= jobs
      BY <1>1, Running
    <2> QED
      BY <2>1, <2>2 DEF PoolInv, PoolTypeInv, Workers, MaxJobs
  <1>3. Active' = Active
    BY <1>1 DEF PoolInv, PoolTypeInv, Active
  <1>4. Staying' = Staying \ {w} /\ w \in Staying
    BY <1>1, <1>2 DEF PoolInv, PoolTypeInv, Staying, Leave
  <1>5. Cardinality(Staying') = Cardinality(Staying) - 1 /\ remaining = Cardinality(Staying) /\ remaining # 0
    BY <1>4, OneLess, CountsAreNat DEF PoolInv, Leaving, Staying
  <1>6. remaining' \in Nat /\ remaining' = Cardinality(Staying')
    BY <1>1, <1>5 DEF PoolInv, PoolTypeInv
  <1>7. PoolTypeInv' /\ Beginning' /\ Claims' /\ OutOfTargets' /\ Logged'
    BY <1>1, <1>2, <1>3, <1>6 DEF PoolInv, PoolTypeInv, Beginning, Claims, DistinctClaims, Active,
        OutOfTargets, Logged, Leave
  <1>8. AllCounted'
    BY <1>3 DEF PoolInv, AllCounted, Leave
  <1>9. \A v \in Workers : workerPc'[v] = "report" => remaining' = 0
    BY <1>1, <1>5 DEF PoolInv, PoolTypeInv, Leaving
  <1> QED
    BY <1>2, <1>6, <1>7, <1>8, <1>9 DEF PoolInv, Leaving

LEMMA ReportsInv == ASSUME PoolInv, NEW w \in Workers, LastOneReports(w) PROVE PoolInv'
  <1>1. workerPc[w] = "report" /\ workerPc' = [workerPc EXCEPT ![w] = "done"] /\ ReportSummary
    BY DEF LastOneReports
  <1>2. workerPc' \in [Workers -> Places] /\ Birth' /\ Joined' /\ main # "create" /\ spawned <= jobs
    BY <1>1, MoveKeeps, Running DEF LastOneReports, Places
  <1>3. Active' = Active /\ Staying' = Staying
    BY <1>1 DEF PoolInv, PoolTypeInv, Active, Staying, LastOneReports
  <1>4. Staying = {}
    BY <1>1, CountsAreNat DEF PoolInv, Leaving, Staying
  <1>5. Active = {}
    <2> SUFFICES ASSUME NEW v \in Active PROVE FALSE
      OBVIOUS
    <2>1. v \in Workers /\ workerPc[v] \in {"warm", "count"}
      BY DEF Active
    <2>2. v <= spawned /\ spawned <= jobs
      BY <2>1, Running
    <2>3. v <= jobs
      BY <2>1, <2>2 DEF PoolInv, PoolTypeInv, Workers, MaxJobs
    <2> QED
      BY <2>1, <2>3, <1>4 DEF Staying
  <1>6. warmed = 0 \/ warmed = Len(targets)
    BY <1>1, <1>5, AllOrNothing
  <1>7. Logged' /\ reported' \in BOOLEAN
    BY <1>1, <1>6, ReportRight DEF LastOneReports, ReportSummary
  <1>8. PoolTypeInv' /\ Beginning' /\ Claims' /\ OutOfTargets'
    BY <1>1, <1>2, <1>3, <1>7 DEF PoolInv, PoolTypeInv, Beginning, Claims, DistinctClaims, Active,
        OutOfTargets, LastOneReports
  <1>9. AllCounted' /\ Leaving'
    BY <1>1, <1>3 DEF PoolInv, PoolTypeInv, AllCounted, Leaving, LastOneReports
  <1> QED
    BY <1>2, <1>7, <1>8, <1>9 DEF PoolInv

---------------------------------------------------------------------------
LEMMA PoolNextInv == ASSUME PoolInv, [WarmerNext]_warmerVars PROVE PoolInv'
  <1>1. CASE Launch
    BY <1>1, LaunchInv
  <1>2. CASE Spawn
    BY <1>2, SpawnInv
  <1>3. CASE SpawnFails \/ Unmount \/ Join
    BY <1>3, EndInv
  <1>4. CASE Destroy
    BY <1>4, DestroyInv
  <1>5. CASE \E w \in Workers : Worker(w)
    BY <1>5, ClaimInv, OutOfWorkInv, WarmInv, CountInv, LeaveInv, ReportsInv DEF Worker
  <1>6. CASE UNCHANGED warmerVars
    BY <1>6 DEF warmerVars, PoolInv, PoolTypeInv, Beginning, Birth, Claims, DistinctClaims, OutOfTargets,
        AllCounted, Leaving, Joined, Logged, Active, Staying
  <1> QED
    BY <1>1, <1>2, <1>3, <1>4, <1>5, <1>6 DEF WarmerNext, Engine, Exited

(* Two pool threads never warm one target, and none runs when the members  *)
(* that its producers use are destroyed: worker(), join() and ~Engine.     *)
THEOREM PoolIsSound == WarmerSpec => []PoolSound
  <1>1. PoolInv => PoolSound
    BY DEF PoolInv, Claims, Joined, PoolSound, JoinedBeforeDestroyed
  <1> QED
    BY PoolInitInv, PoolNextInv, <1>1, PTL DEF WarmerSpec

(* The completion line is logged at most once and counts every target,     *)
(* whoever logs it and however many threads could be created:              *)
(* report_summary().                                                       *)
THEOREM SummaryIsComplete == WarmerSpec => []SummaryComplete
  <1>1. ASSUME PoolInv PROVE SummaryComplete
    <2>1. Len(<<>>) <= 1 /\ DOMAIN <<>> = {}
      OBVIOUS
    <2>2. summary = <<>> \/ summary = <<Len(targets)>>
      BY <1>1 DEF PoolInv, Logged
    <2>3. CASE summary = <<>>
      BY <2>1, <2>3 DEF SummaryComplete
    <2>4. CASE summary = <<Len(targets)>>
      <3>1. Len(summary) = 1 /\ DOMAIN summary = {1} /\ summary[1] = Len(targets)
        BY <2>4
      <3> QED
        BY <3>1 DEF SummaryComplete
    <2> QED
      BY <2>2, <2>3, <2>4
  <1> QED
    BY PoolInitInv, PoolNextInv, <1>1, PTL DEF WarmerSpec
---------------------------------------------------------------------------
(* What is warmed.  The sort is stated by counting: the k-th target is the *)
(* file with k - 1 before it.  That there is one for every k is the        *)
(* pigeonhole principle: the counts are distinct and below the number of   *)
(* files, so all of them occur.                                            *)

Earlier(S, i) == {j \in S : Before(j, i)}

\* Ties in rank are broken by position, so that any two files are ordered.
LEMMA BeforeIsStrict ==
    /\ \A i \in DOMAIN Tree : ~Before(i, i)
    /\ \A i, j \in DOMAIN Tree : i # j => Before(i, j) \/ Before(j, i)
    /\ \A i, j, k \in DOMAIN Tree : Before(i, j) /\ Before(j, k) => Before(i, k)
  <1>1. DOMAIN Tree \subseteq Nat
    BY ForensicWarmerAssumption
  <1>2. \A f : Rank(f) \in Nat
    BY DEF Rank
  <1> QED
    BY <1>1, <1>2 DEF Before

LEMMA SelectionFinite ==
    ASSUME NEW S \in SUBSET DOMAIN Tree
    PROVE  IsFiniteSet(S) /\ Cardinality(S) \in Nat
  <1>1. DOMAIN Tree = 1..Len(Tree) /\ Len(Tree) \in Nat
    BY ForensicWarmerAssumption
  <1>2. 1 \in Int /\ Len(Tree) \in Int
    BY <1>1
  <1>3. IsFiniteSet(1..Len(Tree))
    BY <1>2, FS_Interval, Zenon
  <1>4. IsFiniteSet(S)
    BY <1>1, <1>3, FS_Subset
  <1> QED
    BY <1>4, FS_CardinalityType

\* A file has more files before it than any that is before it.
LEMMA EarlierCounts ==
    ASSUME NEW S \in SUBSET DOMAIN Tree, NEW i \in S
    PROVE  /\ Cardinality(Earlier(S, i)) \in 0..(Cardinality(S) - 1)
           /\ \A j \in S : Before(j, i) => Cardinality(Earlier(S, j)) < Cardinality(Earlier(S, i))
  <1>1. ASSUME NEW T \in SUBSET S, NEW U \in SUBSET T, NEW x \in T \ U
        PROVE  Cardinality(U) \in Nat /\ Cardinality(T) \in Nat /\ Cardinality(U) < Cardinality(T)
    <2>1. IsFiniteSet(T) /\ Cardinality(T) \in Nat /\ Cardinality(U) \in Nat
      BY SelectionFinite
    <2>2. Cardinality(U) <= Cardinality(T) /\ (Cardinality(T) = Cardinality(U) => T = U)
      BY <2>1, FS_Subset
    <2> QED
      BY <2>1, <2>2
  <1>2. Earlier(S, i) \in SUBSET S /\ i \notin Earlier(S, i)
    BY BeforeIsStrict DEF Earlier
  <1>3. Cardinality(Earlier(S, i)) \in 0..(Cardinality(S) - 1)
    <2>1. /\ Cardinality(Earlier(S, i)) \in Nat /\ Cardinality(S) \in Nat
          /\ Cardinality(Earlier(S, i)) < Cardinality(S)
      BY <1>1, <1>2
    <2> QED
      BY <2>1
  <1>4. ASSUME NEW j \in S, Before(j, i)
        PROVE  Cardinality(Earlier(S, j)) < Cardinality(Earlier(S, i))
    <2>1. j \in Earlier(S, i) /\ j \notin Earlier(S, j)
      BY <1>4, BeforeIsStrict DEF Earlier
    <2>2. Earlier(S, j) \in SUBSET Earlier(S, i)
      BY <1>4, BeforeIsStrict DEF Earlier
    <2> QED
      BY <1>1, <1>2, <2>1, <2>2
  <1> QED
    BY <1>3, <1>4

\* Every place of the sorted order is taken by one of the files sorted.
LEMMA EveryPlaceIsTaken ==
    ASSUME NEW S \in SUBSET DOMAIN Tree, NEW k \in 1..Cardinality(S)
    PROVE  \E i \in S : Cardinality(Earlier(S, i)) = k - 1
  <1> DEFINE n == Cardinality(S)
             places == 0..(n - 1)
             f == [i \in S |-> Cardinality(Earlier(S, i))]
  <1>1. n \in Nat
    BY SelectionFinite
  <1>2. f \in [S -> places]
    BY EarlierCounts
  <1>3. ASSUME NEW i \in S, NEW j \in S, f[i] = f[j] PROVE i = j
    <2>1. f[i] \in Nat /\ f[j] \in Nat
      BY <1>1, <1>2
    <2>2. i # j => f[i] < f[j] \/ f[j] < f[i]
      BY BeforeIsStrict, EarlierCounts
    <2> QED
      BY <1>3, <2>1, <2>2
  <1>4. f \in Injection(S, places)
    BY <1>2, <1>3 DEF Injection, IsInjective
  <1>5. IsFiniteSet(places) /\ Cardinality(places) = n
    <2> HIDE DEF n
    <2>1. 0 \in Int /\ n - 1 \in Int
      BY <1>1
    <2>2. /\ IsFiniteSet(0..(n - 1))
          /\ Cardinality(0..(n - 1)) = IF 0 > n - 1 THEN 0 ELSE (n - 1) - 0 + 1
      BY <2>1, FS_Interval, Zenon
    <2> QED
      BY <1>1, <2>2
  <1>6. f \in Surjection(S, places)
    <2> HIDE DEF f, places
    <2> QED
      BY <1>4, <1>5, FS_Injection
  <1>7. k - 1 \in places
    BY <1>1
  <1> QED
    BY <1>6, <1>7 DEF Surjection

\* The targets are files of those selected.
LEMMA TargetsSelected ==
    ASSUME NEW S \in SUBSET DOMAIN Tree, NEW k \in DOMAIN SortByRank(S)
    PROVE  \E i \in S : SortByRank(S)[k] = Tree[i]
  <1>1. k \in 1..Cardinality(S)
    BY DEF SortByRank
  <1>2. \E i \in S : Cardinality({j \in S : Before(j, i)}) = k - 1
    BY <1>1, EveryPlaceIsTaken DEF Earlier
  <1> DEFINE c == CHOOSE i \in S : Cardinality({j \in S : Before(j, i)}) = k - 1
  <1>3. c \in S
    BY <1>2
  <1>4. SortByRank(S)[k] = Tree[c]
    BY <1>1 DEF SortByRank
  <1> QED
    BY <1>3, <1>4

\* No selection holds a file of a category that the exclusions name.
LEMMA SelectionExcludes ==
    ASSUME NEW o, o.forensic, NEW i \in Selected(o)
    PROVE  Tree[i].category \notin o.exclude \cap HeavyCategories
  <1>1. Wanted(Tree[i], o)
    BY DEF Selected
  <1> QED
    BY <1>1 DEF Wanted, Mask

(* Nothing of a category --forensic-exclude names is warmed, whatever the  *)
(* mode, the inclusions and the tree: Options::forensic_mask, collect()    *)
(* and the sort in launch().                                               *)
THEOREM ExclusionsWin == WarmerSpec => []ExclusionWins
  <1>1. WarmerInit => ExclusionWins
    BY DEF WarmerInit, ExclusionWins
  <1>2. ExclusionWins /\ [WarmerNext]_warmerVars => ExclusionWins'
    <2> SUFFICES ASSUME ExclusionWins, [WarmerNext]_warmerVars PROVE ExclusionWins'
      OBVIOUS
    <2>1. CASE Launch
      <3>1. targets' = SortByRank(Selected(opts)) /\ opts' = opts
        BY <2>1 DEF Launch
      <3>2. Selected(opts) \in SUBSET DOMAIN Tree
        BY DEF Selected
      <3>3. ASSUME NEW k \in DOMAIN targets', opts.forensic
            PROVE  targets'[k].category \notin opts.exclude \cap HeavyCategories
        BY <3>1, <3>2, <3>3, TargetsSelected, SelectionExcludes
      <3> QED
        BY <3>1, <3>3 DEF ExclusionWins
    <2>2. CASE UNCHANGED <<targets, opts>>
      BY <2>2 DEF ExclusionWins
    <2>3. CASE Spawn \/ SpawnFails \/ Join \/ Destroy \/ Unmount
      BY <2>2, <2>3 DEF Spawn, SpawnFails, Join, Destroy, Unmount, pool
    <2>4. CASE \E w \in Workers : Worker(w)
      BY <2>2, <2>4 DEF Worker, Claim, OutOfWork, Warm, CountWarmed, Leave, LastOneReports
    <2>5. CASE UNCHANGED warmerVars
      BY <2>2, <2>5 DEF warmerVars
    <2> QED
      BY <2>1, <2>3, <2>4, <2>5 DEF WarmerNext, Engine, Exited
  <1> QED
    BY <1>1, <1>2, PTL DEF WarmerSpec
=============================================================================
