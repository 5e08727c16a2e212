--------------------------- MODULE ForensicWarmer ---------------------------
(***************************************************************************)
(* Background pre-warming: which files the command line's --forensic and   *)
(* --precompute options select (src/cli/main.cpp, Engine::create), and the *)
(* thread pool that warms them and reports completion once                 *)
(* (src/vfs/forensic_warmer.cpp), until the Engine's destructor joins it.  *)
(*                                                                         *)
(* The VFS tree is the sequence of its files in the order collect() visits *)
(* them.  A file is a record: the directory names on its path, whether it  *)
(* is warmable(), and its FileCost tags.                                   *)
(***************************************************************************)
EXTENDS Integers, Sequences, FiniteSets

CONSTANTS
    Tree,      \* the files of the tree, in listing order
    Options,   \* the command lines considered
    HwThreads  \* std::thread::hardware_concurrency(), 0 when unknown

Categories == {"SystemInfo", "ThreatHunt", "PerProcess", "Yara"}

FileType ==
    [path : SUBSET STRING, warmable : BOOLEAN,
     compute : {"Trivial", "Cheap", "Expensive"}, mem : {"Small", "Large"},
     category : Categories \cup {"None"}]

ASSUME ForensicWarmerAssumption ==
    /\ Tree \in Seq(FileType)
    /\ HwThreads \in Nat

MaxJobs == 4               \* the pool's cap
Workers == 1..MaxJobs

VARIABLES
    main,       \* what the thread that owns the Engine is doing
    opts,       \* the command line
    targets,    \* targets_
    next,       \* next_
    warmed,     \* warmed_
    remaining,  \* remaining_workers_
    reported,   \* reported_
    jobs,       \* n of launch()
    spawned,    \* threads_.size()
    workerPc,   \* what each pool thread is doing
    claim,      \* i of worker(), 1-based
    summary     \* the completion lines logged, as the count each one gives

warmerVars == <<main, opts, targets, next, warmed, remaining, reported, jobs, spawned,
                workerPc, claim, summary>>
pool == <<next, warmed, remaining, reported, workerPc, claim, summary>>

WarmerInit ==
    /\ main = "create"
    /\ opts \in Options
    /\ targets = <<>>
    /\ next = 0
    /\ warmed = 0
    /\ remaining = 0
    /\ reported = FALSE
    /\ jobs = 0
    /\ spawned = 0
    /\ workerPc = [w \in Workers |-> "unborn"]
    /\ claim = [w \in Workers |-> 0]
    /\ summary = <<>>

---------------------------------------------------------------------------
(* Which files are warmed *)

ModeMask(mode) ==
    CASE mode = "quick" -> {"SystemInfo", "ThreatHunt"}
      [] mode = "full"  -> Categories
      [] OTHER          -> {"SystemInfo", "ThreatHunt", "PerProcess"}

\* Mutant of Mask: exclusions are applied before inclusions.
Mask_ExcludeFirst(o) ==
    IF o.forensic THEN (ModeMask(o.mode) \ o.exclude) \cup o.include ELSE {}

\* Engine::Options::forensic_mask
Mask(o) ==
    IF o.forensic THEN (ModeMask(o.mode) \cup o.include) \ o.exclude ELSE {}

\* Engine::Options::precompute: --forensic=full implies --precompute.
WarmAll(o) == o.precompute \/ (o.forensic /\ o.mode = "full")

HeavyDirs == {"proc", "files", "fs", "search", "forensic", "pagecache"}
HeavyCategories == {"ThreatHunt", "PerProcess", "Yara"}

WorthWarming(f) == f.compute = "Expensive" /\ f.mem = "Small"

\* collect()'s decision for one file.
Wanted(f, o) ==
    IF WarmAll(o)
    THEN /\ f.warmable /\ f.mem = "Small"
         /\ \/ f.category \in HeavyCategories /\ f.category \in Mask(o)
            \/ f.category \notin HeavyCategories /\ f.path \cap HeavyDirs = {}
    ELSE WorthWarming(f) /\ f.category \in Mask(o)

\* start() with no category selected collects nothing; neither method is
\* called without one of the options.
Selected(o) ==
    IF WarmAll(o) \/ o.forensic
    THEN {i \in DOMAIN Tree : Wanted(Tree[i], o)}
    ELSE {}

Rank(f) == (IF f.compute = "Expensive" THEN 1 ELSE 0)
         + (IF f.mem = "Large" THEN 2 ELSE 0)

\* std::stable_sort by rank: cheapest first, tree order within a rank.
Before(i, j) ==
    \/ Rank(Tree[i]) < Rank(Tree[j])
    \/ Rank(Tree[i]) = Rank(Tree[j]) /\ i < j

SortByRank(S) ==
    [k \in 1..Cardinality(S) |->
        Tree[CHOOSE i \in S : Cardinality({j \in S : Before(j, i)}) = k - 1]]

PoolSize(count) ==
    LET hw == IF HwThreads = 0 THEN 2 ELSE HwThreads
        n  == IF hw < MaxJobs THEN hw ELSE MaxJobs
    IN  IF n < count THEN n ELSE count

---------------------------------------------------------------------------
(* The Engine's thread *)

\* Mutant of Launch: remaining_workers_ is off by one.
Launch_OneShort ==
    /\ main = "create"
    /\ targets' = SortByRank(Selected(opts))
    /\ jobs' = PoolSize(Len(targets'))
    /\ remaining' = IF jobs' > 1 THEN jobs' - 1 ELSE jobs'
    /\ main' = IF jobs' = 0 THEN "mounted" ELSE "spawn"
    /\ UNCHANGED <<opts, next, warmed, reported, spawned, workerPc, claim, summary>>

\* Engine::create ends in start() or start_precompute(): collect, sort, and
\* set the number of workers still running before any of them starts.
Launch ==
    /\ main = "create"
    /\ targets' = SortByRank(Selected(opts))
    /\ jobs' = PoolSize(Len(targets'))
    /\ remaining' = jobs'
    /\ main' = IF jobs' = 0 THEN "mounted" ELSE "spawn"
    /\ UNCHANGED <<opts, next, warmed, reported, spawned, workerPc, claim, summary>>

\* threads_.emplace_back; the new thread runs at once, beside the loop.
Spawn ==
    /\ main = "spawn"
    /\ spawned' = spawned + 1
    /\ workerPc' = [workerPc EXCEPT ![spawned'] = "claim"]
    /\ main' = IF spawned' = jobs THEN "mounted" ELSE "spawn"
    /\ UNCHANGED <<opts, targets, jobs, next, warmed, remaining, reported, claim, summary>>

\* The thread cannot be created: the exception leaves Engine::create, which
\* destroys the Engine and so the warmer first.
SpawnFails ==
    /\ main = "spawn"
    /\ main' = "join"
    /\ UNCHANGED <<opts, targets, jobs, spawned, pool>>

\* Unmount: ~Engine runs ~ForensicWarmer before any other member's destructor.
Unmount ==
    /\ main = "mounted"
    /\ main' = "join"
    /\ UNCHANGED <<opts, targets, jobs, spawned, pool>>

\* Mutant of Join: the thread created last is not waited for.
Join_OneShort ==
    /\ main = "join"
    /\ \A w \in 1..(spawned - 1) : workerPc[w] = "done"
    /\ main' = "report"
    /\ UNCHANGED <<opts, targets, jobs, spawned, pool>>

\* join() has waited for every thread in threads_.
Join ==
    /\ main = "join"
    /\ \A w \in 1..spawned : workerPc[w] = "done"
    /\ main' = "report"
    /\ UNCHANGED <<opts, targets, jobs, spawned, pool>>

\* report_summary(): only the first caller logs, and only if anything ran.
ReportSummary ==
    /\ reported' = TRUE
    /\ summary' = IF reported \/ warmed = 0 THEN summary ELSE Append(summary, warmed)

\* join()'s fallback report if start was called; then the other members go.
Destroy ==
    /\ main = "report"
    /\ IF WarmAll(opts) \/ opts.forensic
       THEN ReportSummary
       ELSE UNCHANGED <<reported, summary>>
    /\ main' = "destroyed"
    /\ UNCHANGED <<opts, targets, jobs, spawned, next, warmed, remaining, workerPc, claim>>

---------------------------------------------------------------------------
(* The pool's threads: worker() *)

\* Mutant of Claim: next_ is read and written back without being advanced.
Claim_Racy(w) ==
    /\ workerPc[w] = "claim"
    /\ next < Len(targets)
    /\ claim' = [claim EXCEPT ![w] = next + 1]
    /\ next' = IF \E v \in Workers \ {w} : workerPc[v] = "claim" THEN next ELSE next + 1
    /\ workerPc' = [workerPc EXCEPT ![w] = "warm"]
    /\ UNCHANGED <<main, opts, targets, jobs, spawned, warmed, remaining, reported, summary>>

\* next_.fetch_add(1) yields a target.
Claim(w) ==
    /\ workerPc[w] = "claim"
    /\ next < Len(targets)
    /\ claim' = [claim EXCEPT ![w] = next + 1]
    /\ next' = next + 1
    /\ workerPc' = [workerPc EXCEPT ![w] = "warm"]
    /\ UNCHANGED <<main, opts, targets, jobs, spawned, warmed, remaining, reported, summary>>

\* next_.fetch_add(1) is past the end.
OutOfWork(w) ==
    /\ workerPc[w] = "claim"
    /\ next >= Len(targets)
    /\ next' = next + 1
    /\ workerPc' = [workerPc EXCEPT ![w] = "leave"]
    /\ UNCHANGED <<main, opts, targets, jobs, spawned, warmed, remaining, reported, claim, summary>>

\* warm() and size_hint() return, or one of them throws and is caught.
Warm(w) ==
    /\ workerPc[w] = "warm"
    /\ workerPc' = [workerPc EXCEPT ![w] = "count"]
    /\ UNCHANGED <<main, opts, targets, jobs, spawned, next, warmed, remaining, reported, claim, summary>>

\* warmed_.fetch_add(1), whether or not the producer threw.
CountWarmed(w) ==
    /\ workerPc[w] = "count"
    /\ warmed' = warmed + 1
    /\ workerPc' = [workerPc EXCEPT ![w] = "claim"]
    /\ UNCHANGED <<main, opts, targets, jobs, spawned, next, remaining, reported, claim, summary>>

\* Mutant of Leave: the last worker out does not report.
Leave_Silent(w) ==
    /\ workerPc[w] = "leave"
    /\ remaining' = remaining - 1
    /\ workerPc' = [workerPc EXCEPT ![w] = "done"]
    /\ UNCHANGED <<main, opts, targets, jobs, spawned, next, warmed, reported, claim, summary>>

\* remaining_workers_.fetch_sub(1): the last worker out reports.
Leave(w) ==
    /\ workerPc[w] = "leave"
    /\ remaining' = remaining - 1
    /\ workerPc' = [workerPc EXCEPT ![w] = IF remaining = 1 THEN "report" ELSE "done"]
    /\ UNCHANGED <<main, opts, targets, jobs, spawned, next, warmed, reported, claim, summary>>

\* Mutant of LastOneReports: having reported, the thread goes back to its loop.
LastOneReports_Loops(w) ==
    /\ workerPc[w] = "report"
    /\ ReportSummary
    /\ workerPc' = [workerPc EXCEPT ![w] = "report"]
    /\ UNCHANGED <<main, opts, targets, jobs, spawned, next, warmed, remaining, claim>>

\* The last worker calls report_summary() and ends.
LastOneReports(w) ==
    /\ workerPc[w] = "report"
    /\ ReportSummary
    /\ workerPc' = [workerPc EXCEPT ![w] = "done"]
    /\ UNCHANGED <<main, opts, targets, jobs, spawned, next, warmed, remaining, claim>>

---------------------------------------------------------------------------
Worker(w) ==
    \/ Claim(w)
    \/ OutOfWork(w)
    \/ Warm(w)
    \/ CountWarmed(w)
    \/ Leave(w)
    \/ LastOneReports(w)

Engine == Launch \/ Spawn \/ SpawnFails \/ Join \/ Destroy

\* The program has exited.
Exited == main = "destroyed" /\ UNCHANGED warmerVars

WarmerNext ==
    \/ Engine
    \/ Unmount
    \/ \E w \in Workers : Worker(w)
    \/ Exited

WarmerSpec == WarmerInit /\ [][WarmerNext]_warmerVars

\* Threads run and producers end.  Nothing says that anybody ever unmounts.
WarmerFairSpec ==
    /\ WarmerSpec
    /\ WF_warmerVars(Engine)
    /\ \A w \in Workers : WF_warmerVars(Worker(w))

---------------------------------------------------------------------------
(* Properties *)

\* Two pool threads never warm the same target (next_ is one fetch_add).
DistinctClaims ==
    \A v, w \in Workers :
        v # w /\ workerPc[v] \in {"warm", "count"} /\ workerPc[w] \in {"warm", "count"}
        => claim[v] # claim[w]

\* No pool thread is running a producer, or anything else, once the Engine's
\* other members, which the producers use, are destroyed (engine.h: "MUST be
\* the last member").
JoinedBeforeDestroyed ==
    main = "destroyed" => \A w \in Workers : workerPc[w] \in {"unborn", "done"}

\* The pool shares its work without overlap and is gone before what it uses.
PoolSound == DistinctClaims /\ JoinedBeforeDestroyed

\* "logs the one-line completion summary, once", and it accounts for every
\* target: it is never logged while files are still to be warmed, whether the
\* last worker, a destructor or a failed thread creation leads to it.
SummaryComplete ==
    /\ Len(summary) <= 1
    /\ \A i \in DOMAIN summary : summary[i] = Len(targets)

\* Whatever the mode and the inclusions, nothing of a toggleable category
\* that --forensic-exclude names is warmed.
ExclusionWins ==
    opts.forensic =>
        \A i \in DOMAIN targets :
            targets[i].category \notin opts.exclude \cap HeavyCategories

\* The completion line comes while mounted, without an unmount, when all
\* threads could be created and there is something to warm.
SummaryMidMount ==
    main = "mounted" /\ targets # <<>> ~> summary # <<>>

\* An unmount in the middle of warming ends: the pool drains and is joined.
UnmountEnds == main = "join" ~> main = "destroyed"
===========================================================================
