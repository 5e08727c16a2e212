------------------------------ MODULE VfsNode ------------------------------
(***************************************************************************)
(* The lazily produced file nodes of the virtual file system: the classes  *)
(* LazyFileNode and SizedLazyFileNode of src/vfs/vfs.h, entered at the     *)
(* same time by mount dispatcher threads (size, size_hint, read, and the   *)
(* mount adapters' Read, which calls size and then read) and by the warm   *)
(* pool's threads (warm).                                                  *)
(*                                                                         *)
(* A buffer (ByteBuf) is abstracted to its length: two producer runs with  *)
(* different results differ in length, and size() and read() report it.    *)
(* Every read asks for the whole file from offset 0.                       *)
(***************************************************************************)
EXTENDS Integers, FiniteSets

CONSTANTS
    Nodes,        \* the lazy file nodes of the tree
    Sized,        \* those that are SizedLazyFileNodes
    CheapToSize,  \* those whose cost() is cheap_to_size()
    WarmTargets,  \* those the warm pool calls warm() on
    Dispatchers,  \* mount dispatcher threads
    Warmers,      \* warm-pool threads
    Lengths,      \* the possible lengths of a produced buffer
    NoThread      \* "the mutex is free"

ASSUME VfsNodeAssumption ==
    /\ Nodes # {}
    /\ Sized \subseteq Nodes
    /\ CheapToSize \subseteq Nodes
    /\ WarmTargets \subseteq Nodes
    /\ Dispatchers \cap Warmers = {}
    /\ NoThread \notin Dispatchers \cup Warmers
    /\ Lengths \subseteq Nat
    /\ 0 \in Lengths

Threads == Dispatchers \cup Warmers

None == -1      \* no size is cached, no size() has returned yet

VARIABLES
    mu,        \* mu[n]: holder of mu_ (LazyFileNode) or data_mu_ (Sized...)
    sizeMu,    \* sizeMu[n]: holder of size_mu_ (SizedLazyFileNode only)
    data,      \* data[n]: length of data_
    loaded,    \* loaded[n]: loaded_ / data_loaded_
    sizeCache, \* sizeCache[n]: cached_size_, None while size_cached_ is false
    runs,      \* runs[n]: completed runs of producer_ (history)
    pc,        \* what each thread is doing
    op,        \* the node method each thread has called
    cur,       \* the node it called it on
    tmp,       \* the buffer producer_() returned, not yet stored in data_
    want,      \* mount Read: the size() it capped the request to
    padded     \* nodes a mount Read of which was zero-filled (history)

vars == <<mu, sizeMu, data, loaded, sizeCache, runs, pc, op, cur, tmp, want, padded>>

Ops == {"size", "size_hint", "read", "mount_read", "warm"}

TypeOK ==
    /\ mu \in [Nodes -> Threads \cup {NoThread}]
    /\ sizeMu \in [Nodes -> Threads \cup {NoThread}]
    /\ data \in [Nodes -> Lengths]
    /\ loaded \in [Nodes -> BOOLEAN]
    /\ sizeCache \in [Nodes -> Lengths \cup {None}]
    /\ runs \in [Nodes -> Nat]
    /\ pc \in [Threads -> {"idle", "enter", "check", "produce", "store", "use", "sizing"}]
    /\ op \in [Threads -> Ops]
    /\ cur \in [Threads -> Nodes]
    /\ tmp \in [Threads -> Lengths]
    /\ want \in [Threads -> Lengths \cup {None}]
    /\ padded \subseteq Nodes

Init ==
    /\ mu = [n \in Nodes |-> NoThread]
    /\ sizeMu = [n \in Nodes |-> NoThread]
    /\ data = [n \in Nodes |-> 0]
    /\ loaded = [n \in Nodes |-> FALSE]
    /\ sizeCache = [n \in Nodes |-> None]
    /\ runs = [n \in Nodes |-> 0]
    /\ pc = [t \in Threads |-> "idle"]
    /\ op = [t \in Threads |-> "size"]
    /\ cur = [t \in Threads |-> CHOOSE n \in Nodes : TRUE]
    /\ tmp = [t \in Threads |-> 0]
    /\ want = [t \in Threads |-> None]
    /\ padded = {}

Goto(t, label) == pc' = [pc EXCEPT ![t] = label]

\* The lock_guard of mu_ / data_mu_ goes out of scope.  A thread that never
\* took the mutex (LazyFileNode::warm) leaves it alone.
Unlock(t) ==
    mu' = [mu EXCEPT ![cur[t]] = IF @ = t THEN NoThread ELSE @]

---------------------------------------------------------------------------
\* A thread enters a method of node n.
Call(t, n, o) ==
    /\ pc[t] = "idle"
    /\ op' = [op EXCEPT ![t] = o]
    /\ cur' = [cur EXCEPT ![t] = n]
    /\ want' = [want EXCEPT ![t] = None]
    /\ Goto(t, "enter")
    /\ UNCHANGED <<mu, sizeMu, data, loaded, sizeCache, runs, tmp, padded>>

\* The mount adapters' Read first calls size() and then read().
InSizeCall(t) ==
    \/ op[t] \in {"size", "size_hint"}
    \/ op[t] = "mount_read" /\ want[t] = None

UsesSizeMu(t) == cur[t] \in Sized /\ InSizeCall(t)

WarmsUnlocked(t) == op[t] = "warm" /\ cur[t] \notin Sized

\* Mutant of LockData: the lock_guard is missing.
LockData_NoGuard(t) ==
    /\ pc[t] = "enter"
    /\ ~UsesSizeMu(t)
    /\ ~WarmsUnlocked(t)
    /\ Goto(t, "check")
    /\ UNCHANGED <<mu, sizeMu, data, loaded, sizeCache, runs, op, cur, tmp, want, padded>>

\* LazyFileNode::size / size_hint / read and SizedLazyFileNode::read / warm
\* take mu_ / data_mu_ before anything else.
LockData(t) ==
    /\ pc[t] = "enter"
    /\ ~UsesSizeMu(t)
    /\ ~WarmsUnlocked(t)
    /\ mu[cur[t]] = NoThread
    /\ mu' = [mu EXCEPT ![cur[t]] = t]
    /\ Goto(t, "check")
    /\ UNCHANGED <<sizeMu, data, loaded, sizeCache, runs, op, cur, tmp, want, padded>>

\* LazyFileNode::warm() calls ensure_loaded() without taking mu_.
WarmUnlocked(t) ==
    /\ pc[t] = "enter"
    /\ WarmsUnlocked(t)
    /\ Goto(t, "check")
    /\ UNCHANGED <<mu, sizeMu, data, loaded, sizeCache, runs, op, cur, tmp, want, padded>>

\* ensure_loaded() finds loaded_ set.
FindLoaded(t) ==
    /\ pc[t] = "check"
    /\ loaded[cur[t]]
    /\ \/ /\ op[t] = "warm"
          /\ Unlock(t)
          /\ Goto(t, "idle")
       \/ /\ op[t] # "warm"
          /\ Goto(t, "use")
          /\ UNCHANGED mu
    /\ UNCHANGED <<sizeMu, data, loaded, sizeCache, runs, op, cur, tmp, want, padded>>

\* LazyFileNode::size_hint() on a node that is not loaded and not cheap to
\* size: 0, without running the producer.
HintUnknown(t) ==
    /\ pc[t] = "check"
    /\ ~loaded[cur[t]]
    /\ op[t] = "size_hint" /\ cur[t] \notin CheapToSize
    /\ Unlock(t)
    /\ Goto(t, "idle")
    /\ UNCHANGED <<sizeMu, data, loaded, sizeCache, runs, op, cur, tmp, want, padded>>

\* Mutant of FindUnloaded: the producer runs whether or not loaded_ is set.
FindUnloaded_Unchecked(t) ==
    /\ pc[t] = "check"
    /\ ~(op[t] = "size_hint" /\ cur[t] \notin CheapToSize)
    /\ Goto(t, "produce")
    /\ UNCHANGED <<mu, sizeMu, data, loaded, sizeCache, runs, op, cur, tmp, want, padded>>

\* ensure_loaded() finds loaded_ clear and calls producer_().
FindUnloaded(t) ==
    /\ pc[t] = "check"
    /\ ~loaded[cur[t]]
    /\ ~(op[t] = "size_hint" /\ cur[t] \notin CheapToSize)
    /\ Goto(t, "produce")
    /\ UNCHANGED <<mu, sizeMu, data, loaded, sizeCache, runs, op, cur, tmp, want, padded>>

\* Mutant of Produce: the buffer is one byte too long.
Produce_OffByOne(t, len) ==
    /\ pc[t] = "produce"
    /\ tmp' = [tmp EXCEPT ![t] = len + 1]
    /\ runs' = [runs EXCEPT ![cur[t]] = @ + 1]
    /\ Goto(t, "store")
    /\ UNCHANGED <<mu, sizeMu, data, loaded, sizeCache, op, cur, want, padded>>

\* producer_() returns a buffer; the assignment to data_ begins.
Produce(t, len) ==
    /\ pc[t] = "produce"
    /\ tmp' = [tmp EXCEPT ![t] = len]
    /\ runs' = [runs EXCEPT ![cur[t]] = @ + 1]
    /\ Goto(t, "store")
    /\ UNCHANGED <<mu, sizeMu, data, loaded, sizeCache, op, cur, want, padded>>

\* Mutant of ProduceThrows: ensure_loaded() retries until the producer works.
ProduceThrows_Retries(t) ==
    /\ pc[t] = "produce"
    /\ Goto(t, "check")
    /\ UNCHANGED <<mu, sizeMu, data, loaded, sizeCache, runs, op, cur, tmp, want, padded>>

\* producer_() throws: data_ and loaded_ stay as they were, the lock_guard is
\* unwound and the caller sees the exception.  The next call tries again.
ProduceThrows(t) ==
    /\ pc[t] = "produce"
    /\ Unlock(t)
    /\ Goto(t, "idle")
    /\ UNCHANGED <<sizeMu, data, loaded, sizeCache, runs, op, cur, tmp, want, padded>>

\* Mutant of Store: loaded_ is not set.
Store_Forgets(t) ==
    /\ pc[t] = "store"
    /\ data' = [data EXCEPT ![cur[t]] = tmp[t]]
    /\ IF op[t] = "warm"
       THEN Unlock(t) /\ Goto(t, "idle")
       ELSE Goto(t, "use") /\ UNCHANGED mu
    /\ UNCHANGED <<sizeMu, loaded, sizeCache, runs, op, cur, tmp, want, padded>>

\* The assignment to data_ ends and loaded_ is set; a warm() is over.
Store(t) ==
    /\ pc[t] = "store"
    /\ data' = [data EXCEPT ![cur[t]] = tmp[t]]
    /\ loaded' = [loaded EXCEPT ![cur[t]] = TRUE]
    /\ \/ /\ op[t] = "warm"
          /\ Unlock(t)
          /\ Goto(t, "idle")
       \/ /\ op[t] # "warm"
          /\ Goto(t, "use")
          /\ UNCHANGED mu
    /\ UNCHANGED <<sizeMu, sizeCache, runs, op, cur, tmp, want, padded>>

\* What a thread using data_ sees: its length, or anything at all while
\* another thread is assigning to it.
Seen(t) ==
    IF \E u \in Threads \ {t} : pc[u] = "store" /\ cur[u] = cur[t]
    THEN Lengths
    ELSE {data[cur[t]]}

\* A size() returned s: the mount Read goes on to read() unless s says end of
\* file; for the other callers the call is over.
AfterSize(t, s) ==
    IF op[t] = "mount_read" /\ s > 0
    THEN want' = [want EXCEPT ![t] = s] /\ Goto(t, "enter")
    ELSE Goto(t, "idle") /\ UNCHANGED want

\* data_.size() is returned and the mutex released.
UseSize(t) ==
    /\ pc[t] = "use"
    /\ InSizeCall(t)
    /\ \E s \in Seen(t) : AfterSize(t, s)
    /\ Unlock(t)
    /\ UNCHANGED <<sizeMu, data, loaded, sizeCache, runs, op, cur, tmp, padded>>

\* data_ is copied out and the mutex released.  The mount Read zero-fills
\* what the node delivered too little of.
UseBytes(t) ==
    /\ pc[t] = "use"
    /\ ~InSizeCall(t)
    /\ \E got \in Seen(t) :
          padded' = IF op[t] = "mount_read" /\ got < want[t]
                    THEN padded \cup {cur[t]}
                    ELSE padded
    /\ Unlock(t)
    /\ Goto(t, "idle")
    /\ UNCHANGED <<sizeMu, data, loaded, sizeCache, runs, op, cur, tmp, want>>

\* SizedLazyFileNode::size() (and size_hint(), which is size()) takes size_mu_.
LockSize(t) ==
    /\ pc[t] = "enter"
    /\ UsesSizeMu(t)
    /\ sizeMu[cur[t]] = NoThread
    /\ sizeMu' = [sizeMu EXCEPT ![cur[t]] = t]
    /\ Goto(t, "sizing")
    /\ UNCHANGED <<mu, data, loaded, sizeCache, runs, op, cur, tmp, want, padded>>

\* size_fn_() runs on the first call only; its result is cached.
SizeFrom(t, s) ==
    /\ pc[t] = "sizing"
    /\ sizeCache[cur[t]] \in {None, s}
    /\ sizeCache' = [sizeCache EXCEPT ![cur[t]] = s]
    /\ sizeMu' = [sizeMu EXCEPT ![cur[t]] = NoThread]
    /\ AfterSize(t, s)
    /\ UNCHANGED <<mu, data, loaded, runs, op, cur, tmp, padded>>

\* size_fn_() throws: nothing is cached.
SizeThrows(t) ==
    /\ pc[t] = "sizing"
    /\ sizeCache[cur[t]] = None
    /\ sizeMu' = [sizeMu EXCEPT ![cur[t]] = NoThread]
    /\ Goto(t, "idle")
    /\ UNCHANGED <<mu, data, loaded, sizeCache, runs, op, cur, tmp, want, padded>>

---------------------------------------------------------------------------
\* The steps a thread takes inside a method, up to its return.
Step(t) ==
    \/ LockData(t)
    \/ WarmUnlocked(t)
    \/ FindLoaded(t)
    \/ HintUnknown(t)
    \/ FindUnloaded(t)
    \/ \E len \in Lengths : Produce(t, len)
    \/ ProduceThrows(t)
    \/ Store(t)
    \/ UseSize(t)
    \/ UseBytes(t)
    \/ LockSize(t)
    \/ \E s \in Lengths : SizeFrom(t, s)
    \/ SizeThrows(t)

Dispatch(t) == \E n \in Nodes, o \in Ops \ {"warm"} : Call(t, n, o)

Next ==
    \/ \E t \in Dispatchers : Dispatch(t)
    \/ \E t \in Warmers, n \in WarmTargets, o \in {"warm", "size_hint"} : Call(t, n, o)
    \/ \E t \in Threads : Step(t)

Spec == Init /\ [][Next]_vars

\* A running thread is scheduled, producers and size functions end (in a
\* value or an exception), and a mutex that is released again and again is
\* eventually granted to each thread that waits for it.
Fairness ==
    \A t \in Threads :
        /\ WF_vars(Step(t))
        /\ SF_vars(LockData(t))
        /\ SF_vars(LockSize(t))

FairSpec == Spec /\ Fairness

---------------------------------------------------------------------------
(* Properties *)

\* The nodes every load of which is under the node's mutex.
Guarded == Sized \cup (Nodes \ WarmTargets)

\* docs/features/forensic-mode.md: "The warmer and an on-demand open share one
\* cache slot, so content is never produced twice."  For every node, the
\* producer completes at most once, however many threads open it.
ProducedOnce == \A n \in Nodes : runs[n] <= 1

\* The same for the nodes whose loads all take the mutex: SizedLazyFileNodes,
\* and LazyFileNodes the warm pool leaves alone.
GuardedProducedOnce == \A n \in Guarded : runs[n] <= 1

Accesses(t, n) == cur[t] = n /\ pc[t] \in {"store", "use"}

\* No thread assigns to data_ of a guarded node while another one assigns to
\* it, takes its size or copies from it.
GuardedRaceFree ==
    \A n \in Guarded, t, u \in Threads :
        t # u /\ Accesses(t, n) /\ pc[t] = "store" => ~Accesses(u, n)

\* The content of the guarded nodes, as their readers know it.
Content == [n \in Guarded |-> IF loaded[n] THEN data[n] ELSE None]

Cell == INSTANCE OnceCell
        WITH Keys <- Guarded, Values <- Lengths, Unset <- None, cell <- Content

\* A guarded node is a write-once cell: produced on first access, then cached,
\* every later open seeing the bytes of the first one.
ImplementsOnceCell == Cell!Spec

\* The size in a SizedLazyFileNode's file info never changes once reported.
SizeStable ==
    [][\A n \in Nodes : sizeCache[n] # None => sizeCache'[n] = sizeCache[n]]_vars

\* A mount Read of an unwarmed LazyFileNode delivers the size() it was capped
\* to: the adapters' zero-fill of an under-delivered read never hides a gap
\* there, because size() and read() see one buffer.
NeverPadded == padded \cap (Guarded \ Sized) = {}

\* Every call on a node returns: no thread waits for a mutex for ever, also
\* after exceptions.
EveryCallReturns == \A t \in Threads : pc[t] = "enter" ~> pc[t] = "idle"

===========================================================================
