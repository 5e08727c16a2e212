---------------------------- MODULE ReportsProofs ----------------------------
(***************************************************************************)
(* Proofs about SymbolResolver, for any directories, dumps, mirrors and    *)
(* options, and any number of runs, killed at any step; about Timeline,    *)
(* for any machine, dump, timekeepers and number of events; about          *)
(* KernelLocator, for any image of a kernel, its copies and its holes; and *)
(* about KernelLog, for rings of any size, whenever the dump is taken.     *)
(*                                                                         *)
(* A run that writes into the --symbol-cache directory has searched it     *)
(* first and found no symbol-rich file of its own name: that is what       *)
(* PrefSearched says of every step after the search.                       *)
(*                                                                         *)
(* Every row of the timeline is of an event and has the time of one of its *)
(* clocks, or none (TrueRows), whatever was added to it before it is       *)
(* sorted, and sorting is a permutation.                                   *)
(*                                                                         *)
(* A scan that has passed init_task has it (TaskFound); the bases tried    *)
(* before the kernel's score less than it, and none after it replaces it   *)
(* (BaseFound).                                                            *)
(*                                                                         *)
(* The records in the ring are a run of sequence numbers, one behind the   *)
(* other within the ring of text (InRing); the walk has listed those of    *)
(* the ids it has gone through (Walking).                                  *)
(***************************************************************************)
EXTENDS SymbolResolver, Timeline, KernelLocator, KernelLog, FiniteSetTheorems, TLAPS

PrefRich == disk[Pref]["named"] = "rich"

\* The steps at which something may be written.  At "http-check" the file
\* is a download, perhaps a rich one, which is then kept.
Late == (Steps \cup Scripts) \ {"idle", "user", "cache", "http-check", "load", "failed"}

PrefSearched ==
    opts.cache =>
        /\ pc = "cache" => todo = CacheDirs \/ ~PrefRich
        /\ pc \in Late => ~PrefRich

IInv == TypeOK /\ PrefSearched

-----------------------------------------------------------------------------
\* Put writes one file of the save directory, which is Pref only when the
\* user named it.
LEMMA PutFacts ==
    ASSUME TypeOK, NEW f \in Files, Put(f)
    PROVE  /\ disk' \in [Dirs -> [Places -> Files]]
           /\ opts.cache => disk'[Pref]["named"] = f
           /\ ~opts.cache => disk'[Pref]["named"] = disk[Pref]["named"]
  <1>1. /\ disk \in [Dirs -> [Places -> Files]]
        /\ "named" \in Places
        /\ Pref \in Dirs /\ StdSave \in Dirs /\ StdSave # Pref
    BY SaveAssumption DEF TypeOK, Dirs, Places
  <1>2. CASE opts.cache
    BY <1>1, <1>2 DEF Put, SaveDir
  <1>3. CASE ~opts.cache
    BY <1>1, <1>3 DEF Put, SaveDir
  <1> QED
    BY <1>2, <1>3

\* A search of Pref that does not return its rich file finds that it has none.
LEMMA SearchFacts ==
    ASSUME PrefRich
    PROVE  Search(Pref) # NoPath /\ At(Search(Pref)) = "rich"
  BY DEF PrefRich, Search, Matching, NoPath, At

\* The directory the user named is searched first.
LEMMA PrefIsFirst ==
    ASSUME opts.cache
    PROVE  CacheDirs # <<>> /\ Head(CacheDirs) = Pref
  BY SaveAssumption DEF CacheDirs

-----------------------------------------------------------------------------
\* A step that leaves the files alone and does not enter the late steps
\* unsearched keeps the invariant.
LEMMA QuietStep ==
    ASSUME IInv,
           UNCHANGED <<disk, dump, opts>>,
           pc' \in Steps \cup Scripts,
           body' \in Files,
           pc' = "cache" => pc = "cache" /\ UNCHANGED todo,
           pc' \in Late => pc \in Late
    PROVE  IInv' /\ (PrefRich => PrefRich')
  BY DEF IInv, TypeOK, PrefSearched, PrefRich, CacheDirs

\* A step of the late part that writes: Pref is written to only when it has
\* no rich file.
LEMMA WriteStep ==
    ASSUME IInv, NEW f \in Files, Put(f),
           UNCHANGED <<dump, opts>>,
           pc \in Late,
           pc' \in Steps \cup Scripts,
           pc' # "cache",
           pc' \in Late => f # "rich",
           body' \in Files
    PROVE  IInv' /\ (PrefRich => PrefRich')
  <1>1. /\ disk' \in [Dirs -> [Places -> Files]]
        /\ opts.cache => disk'[Pref]["named"] = f
        /\ ~opts.cache => disk'[Pref]["named"] = disk[Pref]["named"]
    BY PutFacts DEF IInv
  <1>2. TypeOK'
    BY <1>1 DEF IInv, TypeOK
  <1>3. PrefSearched'
    BY <1>1 DEF PrefSearched, PrefRich
  <1>4. PrefRich => PrefRich'
    BY <1>1 DEF IInv, PrefSearched, PrefRich
  <1> QED
    BY <1>2, <1>3, <1>4 DEF IInv

\* Every step keeps the invariant and a rich file of Pref.
LEMMA StepKeeps ==
    ASSUME IInv, Next
    PROVE  IInv' /\ (PrefRich => PrefRich')
  <1> USE DEF Steps, Scripts, Late
  <1>0. body \in Files /\ pc \in Steps \cup Scripts /\ opts \in Opts
    BY DEF IInv, TypeOK
  <1>1. CASE Start
    BY <1>1, InputAssumption DEF IInv, TypeOK, PrefSearched, PrefRich, Start, chain
  <1>2. CASE UserFile
    BY <1>0, <1>2, QuietStep DEF UserFile, Return
  <1>3. CASE RefuseDump
    BY <1>0, <1>3, QuietStep DEF RefuseDump, Goto, chain
  <1>4. CASE UserDir
    <2>1. CASE pc' = "load"
      BY <1>0, <1>4, <2>1, QuietStep DEF UserDir, Return
    <2>2. CASE pc' # "load"
      <3>1. /\ todo' = CacheDirs /\ pc' = "cache"
            /\ UNCHANGED <<disk, dump, opts, body>>
        BY <1>4, <2>2 DEF UserDir, Return
      <3> QED
        BY <3>1 DEF IInv, TypeOK, PrefSearched, PrefRich, CacheDirs
    <2> QED
      BY <2>1, <2>2
  <1>5. CASE SearchCache
    <2> DEFINE p == Search(Head(todo))
    <2>1. /\ pc = "cache"
          /\ UNCHANGED <<disk, dump, opts, body>>
      BY <1>5 DEF SearchCache, Return
    <2>2. CASE p # NoPath /\ At(p) = "rich"
      BY <1>0, <1>5, <2>1, <2>2, QuietStep DEF SearchCache, Return
    <2>3. CASE ~(p # NoPath /\ At(p) = "rich")
      <3>1. pc' \in {"cache", "btf"}
        BY <1>5, <2>3 DEF SearchCache
      <3>2. opts.cache => ~PrefRich
        <4>1. CASE opts.cache /\ todo = CacheDirs
          BY <2>3, <4>1, SearchFacts, PrefIsFirst
        <4>2. CASE opts.cache /\ todo # CacheDirs
          BY <2>1, <4>2 DEF IInv, PrefSearched
        <4> QED
          BY <4>1, <4>2
      <3> QED
        BY <2>1, <3>1, <3>2 DEF IInv, TypeOK, PrefSearched, PrefRich
    <2> QED
      BY <2>2, <2>3
  <1>6. CASE CacheMiss
    <2>1. pc = "cache" /\ todo = <<>> /\ pc' = "btf" /\ UNCHANGED <<disk, dump, opts, body>>
      BY <1>6 DEF CacheMiss, Goto, chain
    <2>2. opts.cache => ~PrefRich
      BY <2>1, PrefIsFirst DEF IInv, PrefSearched
    <2> QED
      BY <2>1, <2>2 DEF IInv, TypeOK, PrefSearched, PrefRich
  <1>7. CASE BadBlob
    BY <1>0, <1>7, QuietStep DEF BadBlob
  <1>8. CASE OpenBtf
    BY <1>0, <1>8, WriteStep DEF OpenBtf, chain, Files
  <1>9. CASE CloseBtf
    <2>1. CASE dump.kallsyms
      BY <1>0, <1>9, <2>1, WriteStep DEF CloseBtf, Files, Matching
    <2>2. CASE ~dump.kallsyms
      BY <1>0, <1>9, <2>2, WriteStep DEF CloseBtf, Files, Matching
    <2> QED
      BY <2>1, <2>2
  <1>10. CASE BtfMiss
    BY <1>0, <1>10, QuietStep DEF BtfMiss, Goto, chain
  <1>11. CASE Vmlinux
    <2>1. opts.vmlinux \in {"none", "missing", "file"}
      BY <1>0 DEF Opts
    <2> QED
      BY <1>0, <1>11, <2>1, QuietStep DEF Vmlinux, Goto, chain
  <1>12. CASE Fetch
    BY <1>0, <1>12, QuietStep DEF Fetch, Goto, chain
  <1>13. CASE ScriptKeeps
    BY <1>0, <1>13, QuietStep DEF ScriptKeeps, Return
  <1>14. CASE ScriptFails
    BY <1>0, <1>14, QuietStep DEF ScriptFails, AfterScript, Goto, chain
  <1>15. CASE ScriptOpens
    BY <1>0, <1>15, WriteStep DEF ScriptOpens, Files
  <1>16. CASE ScriptCloses
    <2>1. PICK f \in {"rich", "foreign"} : Put(f)
      BY <1>16 DEF ScriptCloses
    <2> QED
      BY <1>0, <1>16, <2>1, WriteStep DEF ScriptCloses, Files, Matching
  <1>17. CASE ScriptBreaks
    BY <1>0, <1>17, QuietStep DEF ScriptBreaks
  <1>18. CASE BeginHttp
    BY <1>0, <1>18, QuietStep DEF BeginHttp
  <1>19. CASE MirrorsMiss
    BY <1>0, <1>19, QuietStep DEF MirrorsMiss, Goto, chain
  <1>20. CASE MirrorMisses
    BY <1>0, <1>20, QuietStep DEF MirrorMisses
  <1>21. ASSUME NEW f \in Files \ {"none"}, MirrorAnswers(f)
         PROVE  IInv' /\ (PrefRich => PrefRich')
    BY <1>21, WriteStep DEF MirrorAnswers, Files
  <1>22. CASE CloseDownload
    BY <1>0, <1>22, WriteStep DEF CloseDownload, chain
  <1>23. CASE CheckDownload
    <2>1. CASE At(Out) \in Matching
      BY <1>0, <1>23, <2>1, QuietStep DEF CheckDownload, Return
    <2>2. CASE At(Out) \notin Matching
      <3>1. /\ Put("none") /\ pc = "http-check" /\ pc' = "mirrors"
            /\ UNCHANGED <<dump, opts, body>>
        BY <1>23, <2>2 DEF CheckDownload
      <3>2. /\ disk' \in [Dirs -> [Places -> Files]]
            /\ opts.cache => disk'[Pref]["named"] = "none"
            /\ ~opts.cache => disk'[Pref]["named"] = disk[Pref]["named"]
        BY <3>1, PutFacts DEF IInv, Files
      <3>3. opts.cache => ~PrefRich
        BY <2>2 DEF At, Out, SaveDir, PrefRich, Matching
      <3>4. TypeOK'
        BY <3>1, <3>2 DEF IInv, TypeOK
      <3>5. PrefSearched'
        BY <3>1, <3>2 DEF PrefSearched, PrefRich
      <3> QED
        BY <3>2, <3>3, <3>4, <3>5 DEF IInv, PrefRich
    <2> QED
      BY <2>1, <2>2
  <1>24. CASE Fallback
    BY <1>0, <1>24, QuietStep DEF Fallback, Return, Goto, chain
  <1>25. CASE Finish \/ Crash
    <2>1. pc' = "idle" /\ opts' = NoOpts /\ dump' = NoDump /\ body' = "none" /\ UNCHANGED disk
      BY <1>25 DEF Finish, Crash, End
    <2>2. NoOpts \in Opts /\ ~NoOpts.cache /\ NoDump \in Dumps
      BY DEF NoOpts, Opts, NoDump, Dumps
    <2> QED
      BY <2>1, <2>2 DEF IInv, TypeOK, PrefSearched, PrefRich, Files
  <1> QED
    BY <1>1, <1>2, <1>3, <1>4, <1>5, <1>6, <1>7, <1>8, <1>9, <1>10, <1>11, <1>12, <1>13,
       <1>14, <1>15, <1>16, <1>17, <1>18, <1>19, <1>20, <1>21, <1>22, <1>23, <1>24, <1>25
    DEF Next

\* An idle program has searched nothing and writes nothing.
LEMMA InitHolds == Init => IInv
  <1> SUFFICES ASSUME Init PROVE IInv
    OBVIOUS
  <1>1. NoOpts \in Opts /\ ~NoOpts.cache /\ NoDump \in Dumps
    BY DEF NoOpts, Opts, NoDump, Dumps
  <1>2. TypeOK
    BY <1>1, InputAssumption DEF Init, TypeOK, Files, Steps
  <1>3. PrefSearched
    BY <1>1 DEF Init, PrefSearched
  <1> QED
    BY <1>2, <1>3 DEF IInv

\* The invariant holds in every state.
THEOREM Invariant == Spec => []IInv
  <1>1. IInv /\ [Next]_vars => IInv'
    <2> SUFFICES ASSUME IInv, [Next]_vars PROVE IInv'
      OBVIOUS
    <2>1. CASE Next
      BY <2>1, StepKeeps
    <2>2. CASE UNCHANGED vars
      BY <2>2 DEF vars, chain, IInv, TypeOK, PrefSearched, PrefRich, CacheDirs
    <2> QED
      BY <2>1, <2>2
  <1> QED
    BY <1>1, InitHolds, PTL DEF Spec

(* No run ever overwrites or removes a symbol-rich ISF of the              *)
(* --symbol-cache directory.                                               *)
THEOREM RichIsKept == Spec => RichKept
  <1>1. IInv /\ [Next]_vars
          => [disk[Pref]["named"] = "rich" => disk'[Pref]["named"] = "rich"]_vars
    BY StepKeeps DEF PrefRich
  <1> QED
    BY <1>1, Invariant, PTL DEF Spec, RichKept
-----------------------------------------------------------------------------
\* What a script writes is returned under a name of its own.
LoadInv == CheckedLoads /\ (pc = "script-write" => how \in Scripts)

\* Out is what Put wrote.
LEMMA OutIsPut ==
    ASSUME TypeOK, NEW f, Put(f)
    PROVE  disk'[SaveDir]["named"] = f
  BY SaveAssumption DEF TypeOK, Dirs, Places, Put, SaveDir

\* A search finds nothing, or a file of the release.
LEMMA SearchMatches ==
    ASSUME NEW d, Search(d) # NoPath
    PROVE  At(Search(d)) \in Matching
  BY DEF Search, At

LEMMA StepLoads ==
    ASSUME IInv, LoadInv, Next
    PROVE  LoadInv'
  <1> USE DEF LoadInv, CheckedLoads, Checked, Scripts
  <1>1. CASE Start
    BY <1>1 DEF Start
  <1>2. CASE UserFile \/ ScriptKeeps
    BY <1>2 DEF UserFile, ScriptKeeps, Return
  <1>3. CASE UserDir
    BY <1>3, SearchMatches DEF UserDir, Return, At
  <1>4. CASE SearchCache
    BY <1>4 DEF SearchCache, Return, At, Matching
  <1>5. CASE RefuseDump \/ CacheMiss \/ BtfMiss \/ Vmlinux \/ Fetch \/ ScriptFails \/ MirrorsMiss
    <2>1. opts.vmlinux \in {"none", "missing", "file"}
      BY DEF IInv, TypeOK, Opts
    <2> QED
      BY <1>5, <2>1 DEF RefuseDump, CacheMiss, BtfMiss, Vmlinux, Fetch, ScriptFails,
                        MirrorsMiss, Goto, AfterScript
  <1>6. CASE BadBlob \/ OpenBtf \/ BeginHttp \/ MirrorMisses \/ CloseDownload \/ ScriptBreaks
    BY <1>6 DEF BadBlob, OpenBtf, BeginHttp, MirrorMisses, CloseDownload, ScriptBreaks
  <1>7. CASE CloseBtf
    <2>1. disk'[SaveDir]["named"] \in Matching
      BY <1>7, OutIsPut DEF IInv, CloseBtf, Matching
    <2> QED
      BY <1>7, <2>1 DEF CloseBtf, At, Out
  <1>8. CASE ScriptOpens \/ ScriptCloses
    BY <1>8 DEF ScriptOpens, ScriptCloses
  <1>9. ASSUME NEW f \in Files \ {"none"}, MirrorAnswers(f)
        PROVE  LoadInv'
    BY <1>9 DEF MirrorAnswers
  <1>10. CASE CheckDownload
    BY <1>10 DEF CheckDownload, Return, At
  <1>11. CASE Fallback
    BY <1>11 DEF Fallback, Return, Goto
  <1>12. CASE Finish \/ Crash
    BY <1>12 DEF Finish, Crash, End
  <1> QED
    BY <1>1, <1>2, <1>3, <1>4, <1>5, <1>6, <1>7, <1>8, <1>9, <1>10, <1>11, <1>12 DEF Next

(* Every run that returns an ISF it searched for, made from the dump or    *)
(* downloaded returns one that loads and has the release of the dump,      *)
(* whatever the runs before it left in the directories.                    *)
THEOREM CheckedAlwaysLoads == Spec => []CheckedLoads
  <1>1. Init => LoadInv
    BY DEF Init, LoadInv, CheckedLoads
  <1>2. IInv /\ LoadInv /\ [Next]_vars => LoadInv'
    <2> SUFFICES ASSUME IInv, LoadInv, [Next]_vars PROVE LoadInv'
      OBVIOUS
    <2>1. CASE UNCHANGED vars
      BY <2>1 DEF vars, chain, LoadInv, CheckedLoads, At
    <2> QED
      BY <2>1, StepLoads
  <1>3. LoadInv => CheckedLoads
    BY DEF LoadInv
  <1> QED
    BY <1>1, <1>2, <1>3, Invariant, PTL DEF Spec
-----------------------------------------------------------------------------
\* A dump that carries its symbols, in a run that has met no types-only ISF.
Offline == opts.user = "none" /\ Recoverable(dump) /\ ~cached

\* Such a run searches and converts blob after blob, past none that is good,
\* and so never comes to the steps that use a script or the network.
OfflineInv ==
    /\ pc \in {"idle", "user", "cache"} => next = 1
    /\ Offline =>
          /\ pc \in {"idle", "user", "cache", "btf", "btf-write"} \/ (pc = "load" /\ At(path) = "rich")
          /\ pc = "btf" => next \in Nat /\ \A i \in 1..(next - 1) : dump.blobs[i] # "good"

\* While a blob that converts is ahead, the loop has not ended.
LEMMA GoodBlobAhead ==
    ASSUME TypeOK, OfflineInv, Offline, pc = "btf"
    PROVE  BlobsLeft
  <1>1. PICK i \in 1..Len(dump.blobs) : i <= MostBlobs /\ dump.blobs[i] = "good"
    BY DEF Offline, Recoverable
  <1>2. Len(dump.blobs) \in Nat
    <2>1. dump.blobs \in Blobs \cup {<<>>}
      BY DEF TypeOK, Dumps
    <2>2. Blobs \subseteq Seq({"good", "bad"})
      BY InputAssumption
    <2>3. CASE dump.blobs \in Blobs
      BY <2>2, <2>3
    <2>4. CASE dump.blobs = <<>>
      BY <2>4
    <2> QED
      BY <2>1, <2>3, <2>4
  <1>3. next \in Nat /\ ~(i \in 1..(next - 1))
    BY <1>1 DEF OfflineInv
  <1> QED
    BY <1>1, <1>2, <1>3 DEF BlobsLeft, Offline, MostBlobs

LEMMA StepOffline ==
    ASSUME IInv, OfflineInv, Next
    PROVE  OfflineInv'
  <1> USE DEF OfflineInv, Offline
  <1>1. CASE Start
    BY <1>1 DEF Start, chain
  <1>2. CASE UserFile \/ ScriptKeeps
    BY <1>2 DEF UserFile, ScriptKeeps, Return, Scripts
  <1>3. CASE RefuseDump
    BY <1>3 DEF RefuseDump, Goto, chain, Unsupported, Recoverable
  <1>4. CASE UserDir
    BY <1>4 DEF UserDir, Return
  <1>5. CASE SearchCache
    BY <1>5 DEF SearchCache, Return, At
  <1>6. CASE CacheMiss
    BY <1>6 DEF CacheMiss, Goto, chain
  <1>7. CASE BadBlob
    BY <1>7 DEF BadBlob
  <1>8. CASE OpenBtf
    BY <1>8 DEF OpenBtf, chain
  <1>9. CASE CloseBtf
    <2>1. disk'[SaveDir]["named"] = IF dump.kallsyms THEN "rich" ELSE "types"
      BY <1>9, OutIsPut DEF IInv, CloseBtf
    <2> QED
      BY <1>9, <2>1 DEF CloseBtf, At, Out, Recoverable
  <1>10. CASE BtfMiss
    BY <1>10, GoodBlobAhead DEF BtfMiss, Goto, chain, IInv
  <1>11. CASE Vmlinux \/ Fetch \/ ScriptFails \/ MirrorsMiss
    <2>1. opts.vmlinux \in {"none", "missing", "file"}
      BY DEF IInv, TypeOK, Opts
    <2> QED
      BY <1>11, <2>1 DEF Vmlinux, Fetch, ScriptFails, MirrorsMiss, Goto, chain, AfterScript, Scripts
  <1>12. CASE ScriptOpens \/ ScriptCloses \/ ScriptBreaks
    BY <1>12 DEF ScriptOpens, ScriptCloses, ScriptBreaks, Scripts
  <1>13. CASE BeginHttp \/ MirrorMisses \/ CloseDownload
    BY <1>13 DEF BeginHttp, MirrorMisses, CloseDownload, chain
  <1>14. ASSUME NEW f \in Files \ {"none"}, MirrorAnswers(f)
         PROVE  OfflineInv'
    BY <1>14 DEF MirrorAnswers
  <1>15. CASE CheckDownload
    BY <1>15 DEF CheckDownload, Return
  <1>16. CASE Fallback
    BY <1>16 DEF Fallback, Return, Goto, chain
  <1>17. CASE Finish \/ Crash
    BY <1>17 DEF Finish, Crash, End
  <1> QED
    BY <1>1, <1>2, <1>3, <1>4, <1>5, <1>6, <1>7, <1>8, <1>9, <1>10, <1>11, <1>12, <1>13,
       <1>14, <1>15, <1>16, <1>17 DEF Next

(* A dump that holds BTF and kallsyms is given full symbols by the step    *)
(* that converts it (resolve_symbols, step 3.5): no earlier failure, and   *)
(* nothing the directories hold, short of a types-only ISF, leads past it. *)
THEOREM OfflineIsRich == Spec => []OfflineRich
  <1>1. Init => OfflineInv
    BY DEF Init, OfflineInv, Offline
  <1>2. IInv /\ OfflineInv /\ [Next]_vars => OfflineInv'
    <2> SUFFICES ASSUME IInv, OfflineInv, [Next]_vars PROVE OfflineInv'
      OBVIOUS
    <2>1. CASE UNCHANGED vars
      BY <2>1 DEF vars, chain, OfflineInv, Offline, At
    <2> QED
      BY <2>1, StepOffline
  <1>3. OfflineInv => OfflineRich
    BY DEF OfflineInv, Offline, OfflineRich
  <1> QED
    BY <1>1, <1>2, <1>3, Invariant, PTL DEF Spec

-----------------------------------------------------------------------------
(* Timeline.                                                               *)

\* How many come before i in an order, a set of pairs.
Rank(S, R, i) == Cardinality({j \in S : <<j, i>> \in R})

Orders(R, S) ==
    /\ \A i \in S : <<i, i>> \notin R
    /\ \A i, j, k \in S : <<i, j>> \in R /\ <<j, k>> \in R => <<i, k>> \in R
    /\ \A i, j \in S : i # j => <<i, j>> \in R \/ <<j, i>> \in R

\* In a strict total order of a finite set every place is taken once.
LEMMA Ranks ==
    ASSUME NEW S, IsFiniteSet(S), NEW R, Orders(R, S)
    PROVE  /\ \A i \in S : Rank(S, R, i) \in 0..(Cardinality(S) - 1)
           /\ \A i, j \in S : <<i, j>> \in R => Rank(S, R, i) < Rank(S, R, j)
           /\ \A n \in 1..Cardinality(S) : \E i \in S : Rank(S, R, i) = n - 1
  <1> DEFINE Below(i) == {j \in S : <<j, i>> \in R}
             f == [i \in S |-> Rank(S, R, i)]
             T == 0..(Cardinality(S) - 1)
  <1>0. Cardinality(S) \in Nat
    BY FS_CardinalityType
  <1>1. ASSUME NEW i \in S
        PROVE  IsFiniteSet(Below(i)) /\ Rank(S, R, i) \in Nat /\ Rank(S, R, i) < Cardinality(S)
    <2>1. Below(i) \in SUBSET S /\ Below(i) # S
      BY <1>1 DEF Orders
    <2>2. IsFiniteSet(Below(i)) /\ Cardinality(Below(i)) <= Cardinality(S) /\ Cardinality(S) # Cardinality(Below(i))
      BY <2>1, FS_Subset
    <2>3. Cardinality(Below(i)) \in Nat
      BY <2>2, FS_CardinalityType
    <2> QED
      BY <2>2, <2>3, <1>0 DEF Rank
  <1>2. ASSUME NEW i \in S, NEW j \in S, <<i, j>> \in R PROVE Rank(S, R, i) < Rank(S, R, j)
    <2>1. Below(i) \in SUBSET Below(j) /\ i \in Below(j) /\ i \notin Below(i)
      BY <1>2 DEF Orders
    <2>2. Cardinality(Below(i)) <= Cardinality(Below(j)) /\ Cardinality(Below(i)) # Cardinality(Below(j))
      BY <2>1, <1>1, FS_Subset
    <2> QED
      BY <2>2, <1>1 DEF Rank
  <1>3. \A i \in S : Rank(S, R, i) \in T
    <2> TAKE i \in S
    <2>1. Rank(S, R, i) \in Nat /\ Rank(S, R, i) < Cardinality(S)
      BY <1>1
    <2> QED BY <2>1, <1>0
  <1>4. f \in Injection(S, T)
    <2>1. f \in [S -> T]
      BY <1>3
    <2>2. ASSUME NEW i \in S, NEW j \in S, i # j PROVE Rank(S, R, i) # Rank(S, R, j)
      <3>1. <<i, j>> \in R \/ <<j, i>> \in R
        BY <2>2 DEF Orders
      <3>2. Rank(S, R, i) \in Int /\ Rank(S, R, j) \in Int
        BY <1>3, <1>0
      <3> QED
        BY <3>1, <3>2, <1>2
    <2>3. \A i, j \in S : f[i] = f[j] => i = j
      BY <2>2
    <2> QED
      BY <2>1, <2>3 DEF Injection, IsInjective
  <1>5. f \in Surjection(S, T)
    <2>1. IsFiniteSet(T) /\ Cardinality(T) = Cardinality(S)
      BY <1>0, FS_Interval
    <2> QED
      BY <2>1, <1>4, FS_Injection
  <1>6. \A n \in T : \E i \in S : Rank(S, R, i) = n
    BY <1>5 DEF Surjection
  <1>7. \A n \in 1..Cardinality(S) : n - 1 \in T
    BY <1>0
  <1>8. \A n \in 1..Cardinality(S) : \E i \in S : Rank(S, R, i) = n - 1
    <2> HIDE DEF T
    <2> QED BY <1>6, <1>7
  <1> QED
    BY <1>3, <1>2, <1>8

\* The n-th of some numbers, from the first to the last.
LEMMA NthFacts ==
    ASSUME NEW S \in SUBSET Int, IsFiniteSet(S)
    PROVE  /\ Cardinality(S) \in Nat
           /\ \A n \in 1..Cardinality(S) : Nth(S, n) \in S
           /\ \A m, n \in 1..Cardinality(S) : m < n => Nth(S, m) < Nth(S, n)
           /\ \A i \in S : \E n \in 1..Cardinality(S) : Nth(S, n) = i
  <1> DEFINE R == {p \in S \X S : p[1] < p[2]}
  <1>1. \A i, j \in S : <<i, j>> \in R <=> i < j
    OBVIOUS
  <1>2. Orders(R, S)
    <2> HIDE DEF R
    <2> QED BY <1>1 DEF Orders
  <1>3. \A i \in S : Rank(S, R, i) = Cardinality({j \in S : j < i})
    <2> TAKE i \in S
    <2>1. {j \in S : <<j, i>> \in R} = {j \in S : j < i}
      BY <1>1
    <2> QED BY <2>1 DEF Rank
  <1>4. Cardinality(S) \in Nat
    BY FS_CardinalityType
  <1> HIDE DEF R
  <1>5. ASSUME NEW n \in 1..Cardinality(S)
        PROVE  Nth(S, n) \in S /\ Rank(S, R, Nth(S, n)) = n - 1
    <2>1. \E i \in S : Rank(S, R, i) = n - 1
      BY <1>2, Ranks
    <2>2. \E i \in S : Cardinality({j \in S : j < i}) = n - 1
      BY <2>1, <1>3
    <2> QED
      BY <2>2, <1>3 DEF Nth
  <1>6. ASSUME NEW m \in 1..Cardinality(S), NEW n \in 1..Cardinality(S), m < n PROVE Nth(S, m) < Nth(S, n)
    <2>1. \A i, j \in S : i < j => Rank(S, R, i) < Rank(S, R, j)
      BY <1>1, <1>2, Ranks
    <2>2. \A i \in S : Rank(S, R, i) \in Int
      BY <1>2, Ranks
    <2>3. Nth(S, m) \in S /\ Nth(S, n) \in S /\ Rank(S, R, Nth(S, m)) = m - 1 /\ Rank(S, R, Nth(S, n)) = n - 1
      BY <1>5
    <2>4. m - 1 < n - 1 /\ m - 1 \in Int /\ n - 1 \in Int
      BY <1>6, <1>4
    <2> DEFINE a == Nth(S, m)
               b == Nth(S, n)
    <2>5. a \in S /\ b \in S /\ Rank(S, R, a) < Rank(S, R, b)
      BY <2>3, <2>4
    <2>6. ~(b < a) /\ a # b
      <3> HIDE DEF a, b
      <3>1. Rank(S, R, a) \in Int /\ Rank(S, R, b) \in Int
        BY <2>5, <2>2
      <3>2. b < a => Rank(S, R, b) < Rank(S, R, a)
        BY <2>5, <2>1
      <3> QED BY <2>5, <3>1, <3>2
    <2>7. a \in Int /\ b \in Int
      BY <2>5
    <2> QED
      <3> HIDE DEF a, b
      <3>1. a < b
        BY <2>6, <2>7
      <3> QED BY <3>1 DEF a, b
  <1>7. ASSUME NEW i \in S PROVE \E n \in 1..Cardinality(S) : Nth(S, n) = i
    <2>1. Rank(S, R, i) \in 0..(Cardinality(S) - 1)
      BY <1>2, Ranks
    <2>2. Rank(S, R, i) + 1 \in 1..Cardinality(S)
      BY <2>1, <1>4
    <2>3. Nth(S, Rank(S, R, i) + 1) \in S /\ Rank(S, R, Nth(S, Rank(S, R, i) + 1)) = Rank(S, R, i)
      BY <2>1, <2>2, <1>5
    <2>4. \A j \in S : j # i => Rank(S, R, j) # Rank(S, R, i)
      <3> TAKE j \in S
      <3>1. <<i, j>> \in R \/ <<j, i>> \in R \/ i = j
        BY <1>2 DEF Orders
      <3>2. Rank(S, R, i) \in Int /\ Rank(S, R, j) \in Int
        BY <1>2, Ranks
      <3> QED BY <3>1, <3>2, <1>2, Ranks
    <2> QED
      BY <2>2, <2>3, <2>4
  <1> QED
    BY <1>4, <1>5, <1>6, <1>7

\* Of some numbers there is a least.
LEMMA LeastFacts ==
    ASSUME NEW S \in SUBSET Int, IsFiniteSet(S), S # {}
    PROVE  \E i \in S : \A j \in S : i <= j
  <1>1. Cardinality(S) \in Nat /\ Cardinality(S) # 0
    BY FS_CardinalityType, FS_EmptySet
  <1>2. 1 \in 1..Cardinality(S)
    BY <1>1
  <1>3. Nth(S, 1) \in S
    BY <1>2, NthFacts
  <1>4. ASSUME NEW j \in S PROVE Nth(S, 1) <= j
    <2>1. PICK n \in 1..Cardinality(S) : Nth(S, n) = j
      BY NthFacts
    <2>2. CASE n = 1
      BY <2>1, <2>2
    <2>3. CASE n # 1
      <3>1. 1 < n
        BY <2>3
      <3>2. Nth(S, 1) < Nth(S, n)
        BY <3>1, <1>2, NthFacts
      <3>3. Nth(S, 1) \in Int /\ j \in Int
        BY <1>3
      <3>4. Nth(S, 1) < j
        BY <3>2, <2>1
      <3> QED BY <3>3, <3>4
    <2> QED BY <2>2, <2>3, <2>1
  <1> QED BY <1>3, <1>4

-----------------------------------------------------------------------------
Stages == {"run", "epoch", "proc", "dmesg", "crash", "shell", "files", "ebpf", "net", "sort", "done"}
Events == [kind : Kinds, up : Nat, asleep : Nat]
Keys == {0, 1, 2} \X Int \X Int
Rows == [event : Nat, type : {"PROC", "KERN", "SHELL", "FILE", "NET", "EVIL"}, key : Keys]
Taken == [field : {"start_boottime", "start_time", "none"}, symbol : BOOLEAN, timekeepers : Timekeepers]

\* The rows there may be: each is of an event and has the time of one of its
\* clocks, or none.
NoTime(r) == r.key[1] = 2 /\ (r.event = 0 \/ r.event \in DOMAIN happened)
ByBoot(r) ==
    /\ r.event \in DOMAIN happened /\ ByUptime(r)
    /\ \E t \in {Event(r).up, Event(r).up + Event(r).asleep} : r.key = SinceBoot(t)
ByUtc(r) ==
    /\ r.event \in DOMAIN happened /\ ~ByUptime(r)
    /\ r.key = dated_keys(Seconds(Wall(Event(r))), 0)
TrueRows == {r \in Rows : NoTime(r) \/ ByBoot(r) \/ ByUtc(r)}

TimelineType ==
    /\ booted \in Nat /\ up \in Nat /\ asleep \in Nat
    /\ happened \in Seq(Events)
    /\ \A n \in DOMAIN happened : happened[n].asleep <= asleep
    /\ stage \in Stages
    /\ stage # "run" => dumped \in Taken
    /\ epoch \in Int
    /\ rows \in Seq(TrueRows)
    /\ stage \in {"run", "epoch"} => rows = <<>> /\ epoch = 0

\* The boot time is off by less than a second.
EpochTrue == epoch = 0 \/ epoch = Seconds(booted + up + asleep) - Seconds(up)

\* The kinds of events that have been gone through.
Gathered ==
    CASE stage \in {"run", "epoch", "proc"} -> {}
      [] stage = "dmesg" -> {"exec"}
      [] stage \in {"crash", "shell"} -> {"exec", "printk", "panic"}
      [] stage = "files" -> {"exec", "printk", "panic", "command"}
      [] stage = "ebpf" -> {"exec", "printk", "panic", "command", "write"}
      [] stage \in {"net", "sort", "done"} -> Kinds

\* An event without a row.
Excused(n) ==
    \/ happened[n].kind = "exec" /\ (dumped.field = "none" \/ StartTime(n) = 0)
    \/ happened[n].kind = "load" /\ BootTime(n) = 0
    \/ happened[n].kind = "write" /\ n \notin Recent

HasRow(n) == \E i \in DOMAIN rows : rows[i].event = n
AllGathered == \A n \in DOMAIN happened : happened[n].kind \in Gathered => HasRow(n) \/ Excused(n)

Sorted == stage = "done" => \A i, j \in DOMAIN rows : i < j => ~Earlier(rows[j].key, rows[i].key)

TimelineIInv == TimelineType /\ EpochTrue /\ AllGathered /\ Sorted

LEMMA TimelineInitIInv == TimelineInit => TimelineIInv
  <1> SUFFICES ASSUME TimelineInit PROVE TimelineIInv
    OBVIOUS
  <1>1. TimelineType
    BY TimelineAssumption DEF TimelineInit, TimelineType, Stages
  <1>2. EpochTrue /\ AllGathered /\ Sorted
    BY DEF TimelineInit, EpochTrue, AllGathered, Sorted
  <1> QED BY <1>1, <1>2 DEF TimelineIInv

\* A time in seconds and the rest.
LEMMA ClockFacts ==
    ASSUME NEW t \in Nat
    PROVE  Seconds(t) \in Nat /\ Fraction(t) \in 0..(Hz - 1) /\ t = Hz * Seconds(t) + Fraction(t)
  BY TimelineAssumption DEF Seconds, Fraction

LEMMA HappenKeeps ==
    ASSUME TimelineIInv, NEW kind \in Kinds, Happen(kind)
    PROVE  TimelineIInv'
  <1>1. PICK t \in Times, s \in Naps :
           /\ up' = up + t /\ asleep' = asleep + s
           /\ happened' = Append(happened, [kind |-> kind, up |-> up', asleep |-> asleep'])
    BY DEF Happen
  <1>2. /\ stage = "run" /\ stage' = "run" /\ epoch = 0 /\ epoch' = 0 /\ rows = <<>> /\ rows' = <<>> /\ booted' = booted
    BY DEF Happen, TimelineIInv, TimelineType
  <1>3. t \in Nat /\ s \in Nat /\ booted \in Nat /\ up \in Nat /\ asleep \in Nat /\ happened \in Seq(Events)
        /\ \A n \in DOMAIN happened : happened[n].asleep <= asleep
    BY TimelineAssumption DEF TimelineIInv, TimelineType
  <1>4. up' \in Nat /\ asleep' \in Nat /\ asleep <= asleep'
    BY <1>1, <1>3
  <1> DEFINE e == [kind |-> kind, up |-> up', asleep |-> asleep']
  <1>5. e \in Events
    BY <1>4 DEF Events
  <1>6. happened' \in Seq(Events) /\ DOMAIN happened' = 1..(Len(happened) + 1)
        /\ \A n \in DOMAIN happened' : happened'[n] = IF n = Len(happened) + 1 THEN e ELSE happened[n]
    <2> HIDE DEF e
    <2> QED BY <1>1, <1>3, <1>5 DEF e
  <1>7. \A n \in DOMAIN happened' : happened'[n].asleep <= asleep'
    <2> TAKE n \in DOMAIN happened'
    <2>1. CASE n = Len(happened) + 1
      BY <2>1, <1>6, <1>4
    <2>2. CASE n # Len(happened) + 1
      <3>1. n \in DOMAIN happened
        BY <2>2, <1>6, <1>3
      <3>2. happened[n] \in Events
        BY <3>1, <1>3
      <3> QED BY <3>1, <3>2, <2>2, <1>6, <1>3, <1>4 DEF Events
    <2> QED BY <2>1, <2>2
  <1>8. TimelineType'
    <2>1. rows' \in Seq(TrueRows')
      BY <1>2
    <2> QED
      BY <1>2, <1>3, <1>4, <1>6, <1>7, <2>1 DEF TimelineType, Stages
  <1>9. EpochTrue' /\ AllGathered' /\ Sorted'
    BY <1>2 DEF EpochTrue, AllGathered, Sorted, Gathered
  <1> QED BY <1>8, <1>9 DEF TimelineIInv

LEMMA DumpKeeps ==
    ASSUME TimelineIInv, Dump
    PROVE  TimelineIInv'
  <1>1. PICK t \in Times : up' = up + t
    BY DEF Dump
  <1>2. /\ stage = "run" /\ stage' = "epoch" /\ epoch = 0 /\ epoch' = 0 /\ rows = <<>> /\ rows' = <<>>
        /\ booted' = booted /\ asleep' = asleep /\ happened' = happened
    BY DEF Dump, TimelineIInv, TimelineType
  <1>3. up' \in Nat
    BY <1>1, TimelineAssumption DEF TimelineIInv, TimelineType
  <1>4. dumped' \in Taken
    BY DEF Dump, Taken
  <1>5. TimelineType'
    <2>1. rows' \in Seq(TrueRows')
      BY <1>2
    <2> QED
      BY <1>2, <1>3, <1>4, <2>1 DEF TimelineIInv, TimelineType, Stages
  <1>6. EpochTrue' /\ AllGathered' /\ Sorted'
    BY <1>2 DEF EpochTrue, AllGathered, Sorted, Gathered
  <1> QED BY <1>5, <1>6 DEF TimelineIInv

\* What compute_boot_epoch() gives is nothing, or what the timekeeper says.
LEMMA AnchorKeeps ==
    ASSUME TimelineIInv, Anchor
    PROVE  TimelineIInv'
  <1> DEFINE places == dumped.timekeepers
             sane == {i \in DOMAIN places : Sane(places[i])}
  <1>1. /\ stage = "epoch" /\ stage' = "proc" /\ rows = <<>> /\ rows' = <<>>
        /\ booted' = booted /\ up' = up /\ asleep' = asleep /\ happened' = happened /\ dumped' = dumped
        /\ dumped \in Taken /\ booted \in Nat /\ up \in Nat /\ asleep \in Nat
    BY DEF Anchor, machine, TimelineIInv, TimelineType
  <1>2. places \in Timekeepers
    BY <1>1 DEF Taken
  <1>3. ASSUME NEW i \in sane PROVE Since(places[i]) = Seconds(booted + up + asleep) - Seconds(up)
    <2>1. places[i] \in {<<"unreadable">>, <<"tk">>} \cup ({"is"} \X Int \X Int)
      BY <1>2, TimelineAssumption
    <2>2. places[i][1] # "unreadable"
      BY DEF Sane
    <2>3. CASE places[i] \in {"is"} \X Int \X Int
      <3>1. places[i][1] = "is"
        BY <2>3
      <3>2. ~(places[i][3] > 0 /\ places[i][2] - places[i][3] \in MinEpoch..MaxEpoch)
        BY <3>1, <1>2, TimelineAssumption
      <3>3. ReadAt(places[i]) = [xtime |-> places[i][2], ktime |-> places[i][3]]
        BY <3>1 DEF ReadAt
      <3> QED BY <3>2, <3>3 DEF Sane, Since
    <2>4. CASE places[i] = <<"tk">>
      BY <2>4 DEF Since, ReadAt
    <2> QED BY <2>1, <2>2, <2>3, <2>4
  <1>4. ASSUME sane # {} PROVE (CHOOSE i \in sane : \A j \in sane : i <= j) \in sane
    <2>1. places \in Seq({<<"unreadable">>, <<"tk">>} \cup ({"is"} \X Int \X Int))
      BY <1>2, TimelineAssumption
    <2>2. \E i \in sane : \A j \in sane : i <= j
      <3>1. sane \in SUBSET (1..Len(places)) /\ Len(places) \in Nat
        BY <2>1
      <3> HIDE DEF sane, places
      <3>2. IsFiniteSet(sane)
        <4>1. IsFiniteSet(1..Len(places))
          BY <3>1, FS_Interval
        <4> QED BY <3>1, <4>1, FS_Subset
      <3> QED BY <3>1, <3>2, <1>4, LeastFacts
    <2> QED BY <2>2
  <1>5. epoch' = 0 \/ epoch' = Seconds(booted + up + asleep) - Seconds(up)
    <2>1. epoch' = compute_boot_epoch
      BY DEF Anchor
    <2>2. CASE ~dumped.symbol \/ sane = {}
      BY <2>1, <2>2 DEF compute_boot_epoch
    <2>3. CASE dumped.symbol /\ sane # {}
      <3>1. epoch' = Since(places[CHOOSE i \in sane : \A j \in sane : i <= j])
        BY <2>1, <2>3 DEF compute_boot_epoch
      <3> QED BY <3>1, <1>3, <1>4, <2>3
    <2> QED BY <2>2, <2>3
  <1>6. epoch' \in Int
    <2>1. booted + up + asleep \in Nat
      BY <1>1
    <2>2. Seconds(booted + up + asleep) \in Nat /\ Seconds(up) \in Nat
      BY <2>1, <1>1, ClockFacts
    <2> QED
      BY <1>5, <2>2
  <1>7. TimelineType'
    <2>1. rows' \in Seq(TrueRows')
      BY <1>1
    <2> QED
      BY <1>1, <1>6, <2>1 DEF TimelineIInv, TimelineType, Stages
  <1>8. EpochTrue' /\ AllGathered' /\ Sorted'
    <2>1. EpochTrue'
      BY <1>1, <1>5 DEF EpochTrue, Seconds
    <2> QED
      BY <1>1, <2>1 DEF AllGathered, Sorted, Gathered
  <1> QED BY <1>7, <1>8 DEF TimelineIInv
-----------------------------------------------------------------------------
\* The rows of a set of events: one of each.
LEMMA RowsOfAll ==
    ASSUME NEW S \in SUBSET (DOMAIN happened), happened \in Seq(Events), NEW type, NEW keys
    PROVE  /\ Cardinality(S) \in Nat
           /\ \A i \in 1..Cardinality(S) :
                 Nth(S, i) \in S /\ RowsOf(S, type, keys)[i] = Row(Nth(S, i), type, keys[Nth(S, i)])
           /\ \A n \in S : \E i \in 1..Cardinality(S) : Nth(S, i) = n
  <1>1. S \in SUBSET (1..Len(happened)) /\ Len(happened) \in Nat
    OBVIOUS
  <1>2. IsFiniteSet(S)
    <2>1. IsFiniteSet(1..Len(happened))
      BY <1>1, FS_Interval
    <2> QED BY <1>1, <2>1, FS_Subset
  <1>3. S \in SUBSET Int
    BY <1>1
  <1> QED
    BY <1>2, <1>3, NthFacts DEF RowsOf

LEMMA RowsOfEach ==
    ASSUME NEW S \in SUBSET (DOMAIN happened), happened \in Seq(Events), NEW type, NEW keys
    PROVE  \A n \in S : \E i \in DOMAIN RowsOf(S, type, keys) : RowsOf(S, type, keys)[i].event = n
  <1> TAKE n \in S
  <1>1. PICK i \in 1..Cardinality(S) : Nth(S, i) = n
    BY RowsOfAll
  <1>2. RowsOf(S, type, keys)[i] = Row(n, type, keys[n])
    BY <1>1, RowsOfAll
  <1>3. i \in DOMAIN RowsOf(S, type, keys)
    BY DEF RowsOf
  <1> QED
    BY <1>2, <1>3 DEF Row

LEMMA RowsOfIn ==
    ASSUME NEW S \in SUBSET (DOMAIN happened), happened \in Seq(Events), NEW type, NEW keys, NEW R,
           \A n \in S : Row(n, type, keys[n]) \in R
    PROVE  RowsOf(S, type, keys) \in Seq(R)
  <1>1. Cardinality(S) \in Nat /\ \A i \in 1..Cardinality(S) : RowsOf(S, type, keys)[i] \in R
    BY RowsOfAll
  <1>2. DOMAIN RowsOf(S, type, keys) = 1..Cardinality(S)
        /\ RowsOf(S, type, keys) = [i \in 1..Cardinality(S) |-> RowsOf(S, type, keys)[i]]
    BY DEF RowsOf
  <1>3. RowsOf(S, type, keys) \in [1..Cardinality(S) -> R]
    <2> DEFINE f == RowsOf(S, type, keys)
               N == Cardinality(S)
    <2>1. f = [i \in 1..N |-> f[i]] /\ \A i \in 1..N : f[i] \in R
      BY <1>1, <1>2
    <2> HIDE DEF f, N
    <2>2. f \in [1..N -> R]
      BY <2>1
    <2> QED BY <2>2 DEF f, N
  <1> QED
    BY <1>1, <1>3

\* Rows that are added to those there are, and between them leave out no
\* event that has now been gone through without its excuse.
LEMMA AddKeeps ==
    ASSUME TimelineIInv, NEW s \in Seq(TrueRows), rows' = rows \o s,
           UNCHANGED <<machine, dumped, epoch>>,
           stage \in Stages \ {"run", "epoch", "done"}, stage' \in Stages \ {"run", "epoch", "done"},
           \A n \in DOMAIN happened : happened[n].kind \in Gathered' =>
              \/ happened[n].kind \in Gathered
              \/ Excused(n)
              \/ \E i \in DOMAIN s : s[i].event = n
    PROVE  TimelineIInv'
  <1>1. /\ booted' = booted /\ up' = up /\ asleep' = asleep /\ happened' = happened
        /\ dumped' = dumped /\ epoch' = epoch
    BY DEF machine
  <1>2. TrueRows' = TrueRows
    BY <1>1 DEF TrueRows, NoTime, ByBoot, ByUtc, ByUptime, Event, SinceBoot, Wall, Seconds, Fraction
  <1>3. rows \in Seq(TrueRows) /\ rows' \in Seq(TrueRows)
    BY DEF TimelineIInv, TimelineType
  <1>4. TimelineType'
    BY <1>1, <1>2, <1>3 DEF TimelineIInv, TimelineType
  <1>5. EpochTrue'
    BY <1>1 DEF TimelineIInv, EpochTrue, Seconds
  <1>6. Sorted'
    BY DEF Sorted
  <1>7. \A n : Excused(n)' <=> Excused(n)
    BY <1>1 DEF Excused, StartTime, BootTime, Recent, InWindow, Of, Seconds, Wall
  <1>8. ASSUME NEW n, HasRow(n) PROVE HasRow(n)'
    <2>1. PICK i \in DOMAIN rows : rows[i].event = n
      BY <1>8 DEF HasRow
    <2>2. i \in DOMAIN rows' /\ rows'[i] = rows[i]
      BY <1>3
    <2> QED BY <2>1, <2>2 DEF HasRow
  <1>9. ASSUME NEW n, NEW i \in DOMAIN s, s[i].event = n PROVE HasRow(n)'
    <2>1. Len(rows) + i \in DOMAIN rows' /\ rows'[Len(rows) + i] = s[i]
      BY <1>3
    <2> QED BY <2>1, <1>9 DEF HasRow
  <1>10. AllGathered'
    <2> SUFFICES ASSUME NEW n \in DOMAIN happened, happened[n].kind \in Gathered'
                 PROVE  HasRow(n)' \/ Excused(n)'
      BY <1>1 DEF AllGathered
    <2>1. CASE happened[n].kind \in Gathered
      BY <2>1, <1>7, <1>8 DEF TimelineIInv, AllGathered
    <2>2. CASE Excused(n)
      BY <2>2, <1>7
    <2>3. CASE \E i \in DOMAIN s : s[i].event = n
      BY <2>3, <1>9
    <2> QED BY <2>1, <2>2, <2>3
  <1> QED BY <1>4, <1>5, <1>6, <1>10 DEF TimelineIInv

-----------------------------------------------------------------------------
\* The keys, and the rows, of each kind of clock.
LEMMA KeyFacts ==
    ASSUME NEW t \in Nat, epoch \in Int
    PROVE  SinceBoot(t) \in Keys
  <1>1. Seconds(t) \in Int /\ Fraction(t) \in Int
    BY ClockFacts, TimelineAssumption
  <1>2. epoch + Seconds(t) \in Int
    BY <1>1
  <1> QED
    BY <1>1, <1>2 DEF SinceBoot, dated_keys, boot_rel_keys, Keys

LEMMA EventFacts ==
    ASSUME TimelineIInv, NEW n \in DOMAIN happened
    PROVE  /\ happened[n] \in Events
           /\ happened[n].kind \in Kinds /\ happened[n].up \in Nat /\ happened[n].asleep \in Nat
           /\ BootTime(n) \in Nat /\ Wall(happened[n]) \in Nat /\ n \in Nat
           /\ booted \in Nat /\ epoch \in Int
  <1>1. happened \in Seq(Events) /\ booted \in Nat /\ epoch \in Int
    BY DEF TimelineIInv, TimelineType
  <1>2. happened[n] \in Events /\ n \in Nat
    BY <1>1
  <1> QED BY <1>1, <1>2 DEF Events, BootTime, Wall

LEMMA BootRow ==
    ASSUME TimelineIInv, NEW n \in DOMAIN happened, happened[n].kind \notin {"command", "write"},
           NEW type \in {"PROC", "KERN"}, NEW t \in {happened[n].up, BootTime(n)}
    PROVE  Row(n, type, SinceBoot(t)) \in TrueRows
  <1>1. t \in Nat /\ n \in Nat /\ epoch \in Int
    BY EventFacts
  <1>2. SinceBoot(t) \in Keys
    BY <1>1, KeyFacts
  <1>3. t \in {happened[n].up, happened[n].up + happened[n].asleep}
    BY DEF BootTime
  <1> HIDE DEF Keys
  <1>4. Row(n, type, SinceBoot(t)) \in Rows
    BY <1>1, <1>2 DEF Row, Rows
  <1> DEFINE r == Row(n, type, SinceBoot(t))
  <1>5. r.event = n /\ r.key = SinceBoot(t)
    BY DEF Row
  <1>6. ByBoot(r)
    <2> HIDE DEF r
    <2> QED BY <1>3, <1>5 DEF ByBoot, ByUptime, Event
  <1> QED BY <1>4, <1>6 DEF TrueRows

LEMMA UtcRow ==
    ASSUME TimelineIInv, NEW n \in DOMAIN happened, happened[n].kind \in {"command", "write"},
           NEW type \in {"SHELL", "FILE"}
    PROVE  Row(n, type, dated_keys(Seconds(Wall(happened[n])), 0)) \in TrueRows
  <1>1. Wall(happened[n]) \in Nat /\ n \in Nat
    BY EventFacts
  <1>2. dated_keys(Seconds(Wall(happened[n])), 0) \in Keys
    BY <1>1, ClockFacts DEF dated_keys, Keys
  <1> DEFINE k == dated_keys(Seconds(Wall(happened[n])), 0)
             r == Row(n, type, k)
  <1>3. r.event = n /\ r.key = k
    BY DEF Row
  <1>4. r \in Rows
    <2>1. k \in Keys
      BY <1>2
    <2> HIDE DEF k, Keys
    <2> QED BY <1>1, <2>1 DEF Row, Rows
  <1>5. ByUtc(r)
    <2>1. k = dated_keys(Seconds(Wall(happened[n])), 0)
      OBVIOUS
    <2> HIDE DEF r, k
    <2> QED BY <2>1, <1>3 DEF ByUtc, ByUptime, Event
  <1> QED BY <1>4, <1>5 DEF TrueRows

LEMMA NoTimeRow ==
    ASSUME TimelineIInv, NEW n, n = 0 \/ n \in DOMAIN happened, NEW x \in 0..2,
           NEW type \in {"KERN", "NET", "EVIL"}
    PROVE  Row(n, type, undated(x, 0)) \in TrueRows
  <1>1. n \in Nat
    BY EventFacts
  <1>2. undated(x, 0) \in Keys /\ undated(x, 0)[1] = 2
    BY DEF undated, Keys
  <1> DEFINE r == Row(n, type, undated(x, 0))
  <1>3. r \in Rows
    <2> HIDE DEF Keys
    <2> QED BY <1>1, <1>2 DEF Row, Rows
  <1>4. NoTime(r)
    BY <1>2 DEF NoTime, Row
  <1> QED BY <1>3, <1>4 DEF TrueRows
-----------------------------------------------------------------------------
\* The sources, one by one.
LEMMA ProcessStartsKeeps ==
    ASSUME TimelineIInv, ProcessStarts
    PROVE  TimelineIInv'
  <1> DEFINE keys == [n \in DOMAIN happened |-> SinceBoot(StartTime(n))]
             S == Started
             s == RowsOf(S, "PROC", keys)
  <1>1. /\ stage = "proc" /\ stage' = "dmesg" /\ rows' = rows \o s /\ UNCHANGED <<machine, dumped, epoch>>
        /\ happened \in Seq(Events)
    BY DEF ProcessStarts, Add, TimelineIInv, TimelineType
  <1>2. S \in SUBSET (DOMAIN happened) /\ \A n \in S : happened[n].kind \in {"exec"}
    BY DEF Of, Started
  <1>3. \A n \in S : Row(n, "PROC", keys[n]) \in TrueRows
    <2> TAKE n \in S
    <2>1. n \in DOMAIN happened /\ happened[n].kind \notin {"command", "write"} /\ keys[n] = SinceBoot(StartTime(n))
      BY <1>2
    <2>2. StartTime(n) \in {happened[n].up, BootTime(n)}
      BY DEF StartTime
    <2> HIDE DEF keys, S
    <2> QED BY <2>1, BootRow, <2>2
  <1>4. s \in Seq(TrueRows)
    <2> HIDE DEF keys, S
    <2> QED BY <1>1, <1>2, <1>3, RowsOfIn
  <1>5. \A n \in S : \E i \in DOMAIN s : s[i].event = n
    <2> HIDE DEF keys, S
    <2> QED BY <1>1, <1>2, RowsOfEach
  <1>6. \A n \in DOMAIN happened : happened[n].kind \in Gathered' =>
           happened[n].kind \in Gathered \/ Excused(n) \/ n \in S
    BY <1>1 DEF Gathered, Excused, Started, Of
  <1> QED
    <2> HIDE DEF s, S
    <2> QED BY <1>1, <1>4, <1>5, <1>6, AddKeeps DEF Stages

LEMMA DmesgLinesKeeps ==
    ASSUME TimelineIInv, DmesgLines
    PROVE  TimelineIInv'
  <1> DEFINE keys == [n \in DOMAIN happened |-> SinceBoot(happened[n].up)]
             S == Of({"printk", "panic"})
             s == RowsOf(S, "KERN", keys)
  <1>1. /\ stage = "dmesg" /\ stage' = "crash" /\ rows' = rows \o s /\ UNCHANGED <<machine, dumped, epoch>>
        /\ happened \in Seq(Events)
    BY DEF DmesgLines, Add, TimelineIInv, TimelineType
  <1>2. S \in SUBSET (DOMAIN happened) /\ \A n \in S : happened[n].kind \in {"printk", "panic"}
    BY DEF Of
  <1>3. \A n \in S : Row(n, "KERN", keys[n]) \in TrueRows
    <2> TAKE n \in S
    <2>1. n \in DOMAIN happened /\ happened[n].kind \notin {"command", "write"} /\ keys[n] = SinceBoot(happened[n].up)
      BY <1>2
    <2> HIDE DEF keys, S
    <2> QED BY <2>1, BootRow
  <1>4. s \in Seq(TrueRows)
    <2> HIDE DEF keys, S
    <2> QED BY <1>1, <1>2, <1>3, RowsOfIn
  <1>5. \A n \in S : \E i \in DOMAIN s : s[i].event = n
    <2> HIDE DEF keys, S
    <2> QED BY <1>1, <1>2, RowsOfEach
  <1>6. \A n \in DOMAIN happened : happened[n].kind \in Gathered' =>
           happened[n].kind \in Gathered \/ Excused(n) \/ n \in S
    BY <1>1 DEF Gathered, Of
  <1> QED
    <2> HIDE DEF s, S
    <2> QED BY <1>1, <1>4, <1>5, <1>6, AddKeeps DEF Stages

LEMMA CrashEventsKeeps ==
    ASSUME TimelineIInv, CrashEvents
    PROVE  TimelineIInv'
  <1> DEFINE S == Of({"panic"})
             timed == [n \in DOMAIN happened |-> SinceBoot(happened[n].up)]
             untimed == [n \in DOMAIN happened |-> undated(0, 0)]
             a == RowsOf(S, "KERN", timed)
             b == RowsOf(S, "KERN", untimed)
  <1>1. /\ stage = "crash" /\ stage' = "shell" /\ rows' = rows \o a \o b /\ UNCHANGED <<machine, dumped, epoch>>
        /\ happened \in Seq(Events) /\ rows \in Seq(TrueRows)
    BY DEF CrashEvents, TimelineIInv, TimelineType
  <1>2. S \in SUBSET (DOMAIN happened) /\ \A n \in S : happened[n].kind = "panic"
    BY DEF Of
  <1>3. \A n \in S : Row(n, "KERN", timed[n]) \in TrueRows
    <2> TAKE n \in S
    <2>1. n \in DOMAIN happened /\ happened[n].kind \notin {"command", "write"} /\ timed[n] = SinceBoot(happened[n].up)
      BY <1>2
    <2> HIDE DEF timed, S
    <2> QED BY <2>1, BootRow
  <1>4. \A n \in S : Row(n, "KERN", untimed[n]) \in TrueRows
    <2> TAKE n \in S
    <2>1. n \in DOMAIN happened /\ untimed[n] = undated(0, 0)
      BY <1>2
    <2> HIDE DEF untimed, S
    <2> QED BY <2>1, NoTimeRow
  <1>5. a \in Seq(TrueRows)
    <2> HIDE DEF timed, S
    <2> QED BY <1>1, <1>2, <1>3, RowsOfIn
  <1>6. b \in Seq(TrueRows)
    <2> HIDE DEF untimed, S
    <2> QED BY <1>1, <1>2, <1>4, RowsOfIn
  <1>7. \A n \in DOMAIN happened : happened[n].kind \in Gathered' => happened[n].kind \in Gathered
    BY <1>1 DEF Gathered
  <1>8. a \o b \in Seq(TrueRows) /\ rows' = rows \o (a \o b)
    <2> HIDE DEF a, b
    <2> QED BY <1>1, <1>5, <1>6
  <1> QED
    <2> HIDE DEF a, b
    <2> QED BY <1>1, <1>7, <1>8, AddKeeps DEF Stages

LEMMA ShellCommandsKeeps ==
    ASSUME TimelineIInv, ShellCommands
    PROVE  TimelineIInv'
  <1> DEFINE keys == [n \in DOMAIN happened |-> dated_keys(Seconds(Wall(happened[n])), 0)]
             S == Of({"command"})
             s == RowsOf(S, "SHELL", keys)
  <1>1. /\ stage = "shell" /\ stage' = "files" /\ rows' = rows \o s /\ UNCHANGED <<machine, dumped, epoch>>
        /\ happened \in Seq(Events)
    BY DEF ShellCommands, Add, TimelineIInv, TimelineType
  <1>2. S \in SUBSET (DOMAIN happened) /\ \A n \in S : happened[n].kind \in {"command"}
    BY DEF Of
  <1>3. \A n \in S : Row(n, "SHELL", keys[n]) \in TrueRows
    <2> TAKE n \in S
    <2>1. n \in DOMAIN happened /\ happened[n].kind \in {"command", "write"}
          /\ keys[n] = dated_keys(Seconds(Wall(happened[n])), 0)
      BY <1>2
    <2> HIDE DEF keys, S
    <2> QED BY <2>1, UtcRow
  <1>4. s \in Seq(TrueRows)
    <2> HIDE DEF keys, S
    <2> QED BY <1>1, <1>2, <1>3, RowsOfIn
  <1>5. \A n \in S : \E i \in DOMAIN s : s[i].event = n
    <2> HIDE DEF keys, S
    <2> QED BY <1>1, <1>2, RowsOfEach
  <1>6. \A n \in DOMAIN happened : happened[n].kind \in Gathered' =>
           happened[n].kind \in Gathered \/ Excused(n) \/ n \in S
    BY <1>1 DEF Gathered, Of
  <1> QED
    <2> HIDE DEF s, S
    <2> QED BY <1>1, <1>4, <1>5, <1>6, AddKeeps DEF Stages

LEMMA FileTimesKeeps ==
    ASSUME TimelineIInv, FileTimes
    PROVE  TimelineIInv'
  <1> DEFINE keys == [n \in DOMAIN happened |-> dated_keys(Seconds(Wall(happened[n])), 0)]
             S == Recent
             s == RowsOf(S, "FILE", keys)
  <1>1. /\ stage = "files" /\ stage' = "ebpf" /\ rows' = rows \o s /\ UNCHANGED <<machine, dumped, epoch>>
        /\ happened \in Seq(Events)
    BY DEF FileTimes, Add, TimelineIInv, TimelineType
  <1>2. S \in SUBSET (DOMAIN happened) /\ \A n \in S : happened[n].kind \in {"write"}
    BY DEF Of, Recent, InWindow
  <1>3. \A n \in S : Row(n, "FILE", keys[n]) \in TrueRows
    <2> TAKE n \in S
    <2>1. n \in DOMAIN happened /\ happened[n].kind \in {"command", "write"}
          /\ keys[n] = dated_keys(Seconds(Wall(happened[n])), 0)
      BY <1>2
    <2> HIDE DEF keys, S
    <2> QED BY <2>1, UtcRow
  <1>4. s \in Seq(TrueRows)
    <2> HIDE DEF keys, S
    <2> QED BY <1>1, <1>2, <1>3, RowsOfIn
  <1>5. \A n \in S : \E i \in DOMAIN s : s[i].event = n
    <2> HIDE DEF keys, S
    <2> QED BY <1>1, <1>2, RowsOfEach
  <1>6. \A n \in DOMAIN happened : happened[n].kind \in Gathered' =>
           happened[n].kind \in Gathered \/ Excused(n) \/ n \in S
    BY <1>1 DEF Gathered, Excused
  <1> QED
    <2> HIDE DEF s, S
    <2> QED BY <1>1, <1>4, <1>5, <1>6, AddKeeps DEF Stages

LEMMA ProgramsKeeps ==
    ASSUME TimelineIInv, Programs
    PROVE  TimelineIInv'
  <1> DEFINE keys == [n \in DOMAIN happened |-> SinceBoot(BootTime(n))]
             S == {n \in Of({"load"}) : BootTime(n) # 0}
             s == RowsOf(S, "KERN", keys)
  <1>1. /\ stage = "ebpf" /\ stage' = "net" /\ rows' = rows \o s /\ UNCHANGED <<machine, dumped, epoch>>
        /\ happened \in Seq(Events)
    BY DEF Programs, Add, TimelineIInv, TimelineType
  <1>2. S \in SUBSET (DOMAIN happened) /\ \A n \in S : happened[n].kind \in {"load"}
    BY DEF Of
  <1>3. \A n \in S : Row(n, "KERN", keys[n]) \in TrueRows
    <2> TAKE n \in S
    <2>1. n \in DOMAIN happened /\ happened[n].kind \notin {"command", "write"} /\ keys[n] = SinceBoot(BootTime(n))
      BY <1>2
    <2> HIDE DEF keys, S
    <2> QED BY <2>1, BootRow
  <1>4. s \in Seq(TrueRows)
    <2> HIDE DEF keys, S
    <2> QED BY <1>1, <1>2, <1>3, RowsOfIn
  <1>5. \A n \in S : \E i \in DOMAIN s : s[i].event = n
    <2> HIDE DEF keys, S
    <2> QED BY <1>1, <1>2, RowsOfEach
  <1>6. \A n \in DOMAIN happened : happened[n].kind \in Gathered' =>
           happened[n].kind \in Gathered \/ Excused(n) \/ n \in S
    <2> TAKE n \in DOMAIN happened
    <2>1. happened[n].kind \in Kinds
      BY EventFacts
    <2> QED BY <1>1, <2>1 DEF Gathered, Excused, Of, Kinds
  <1> QED
    <2> HIDE DEF s, S
    <2> QED BY <1>1, <1>4, <1>5, <1>6, AddKeeps DEF Stages

LEMMA SnapshotsKeeps ==
    ASSUME TimelineIInv, Snapshots
    PROVE  TimelineIInv'
  <1> DEFINE a == Row(0, "NET", undated(2, 0))
             b == Row(0, "EVIL", undated(1, 0))
  <1>1. stage = "net" /\ stage' = "sort" /\ rows' = rows \o <<a, b>> /\ UNCHANGED <<machine, dumped, epoch>>
    BY DEF Snapshots
  <1>2. a \in TrueRows /\ b \in TrueRows
    BY NoTimeRow
  <1>3. \A n \in DOMAIN happened : happened[n].kind \in Gathered' => happened[n].kind \in Gathered
    BY <1>1 DEF Gathered
  <1> HIDE DEF a, b
  <1>4. <<a, b>> \in Seq(TrueRows)
    BY <1>2
  <1> QED
    BY <1>1, <1>3, <1>4, AddKeeps DEF Stages
-----------------------------------------------------------------------------
\* Keys are compared as a strict total order.
LEMMA KeyOrder ==
    /\ \A a \in Keys : ~Earlier(a, a)
    /\ \A a, b, c \in Keys : Earlier(a, b) /\ Earlier(b, c) => Earlier(a, c)
    /\ \A a, b \in Keys : a # b => Earlier(a, b) \/ Earlier(b, a)
  <1>1. \A a \in Keys : a[1] \in Int /\ a[2] \in Int /\ a[3] \in Int
    BY DEF Keys
  <1>2. \A a \in Keys : ~Earlier(a, a)
    BY <1>1 DEF Earlier
  <1>3. ASSUME NEW a \in Keys, NEW b \in Keys, NEW c \in Keys, Earlier(a, b), Earlier(b, c) PROVE Earlier(a, c)
    BY <1>1, <1>3 DEF Earlier
  <1>4. ASSUME NEW a \in Keys, NEW b \in Keys, a # b PROVE Earlier(a, b) \/ Earlier(b, a)
    <2>1. a[1] # b[1] \/ a[2] # b[2] \/ a[3] # b[3]
      BY <1>4 DEF Keys
    <2> QED BY <2>1, <1>1 DEF Earlier
  <1> QED
    BY <1>2, <1>3, <1>4

LEMMA RowFacts ==
    ASSUME TimelineIInv, NEW i \in DOMAIN rows
    PROVE  /\ rows[i] \in TrueRows /\ rows[i] \in Rows /\ rows[i].key \in Keys /\ rows[i].event \in Nat
           /\ i \in Nat
  <1>1. rows \in Seq(TrueRows)
    BY DEF TimelineIInv, TimelineType
  <1>2. rows[i] \in TrueRows /\ i \in Nat
    BY <1>1
  <1>3. rows[i] \in Rows
    BY <1>2 DEF TrueRows
  <1> QED
    BY <1>2, <1>3 DEF Rows

\* The rows' own order, as pairs of their places.
Order == {p \in (DOMAIN rows) \X (DOMAIN rows) : Precedes(p[1], p[2])}

LEMMA OrderFacts ==
    ASSUME TimelineIInv
    PROVE  /\ IsFiniteSet(DOMAIN rows) /\ Cardinality(DOMAIN rows) = Len(rows) /\ Len(rows) \in Nat
           /\ DOMAIN rows = 1..Len(rows)
           /\ \A i, j \in DOMAIN rows : <<i, j>> \in Order <=> Precedes(i, j)
           /\ Orders(Order, DOMAIN rows)
           /\ \A i \in DOMAIN rows :
                 Rank(DOMAIN rows, Order, i) = Cardinality({j \in DOMAIN rows : Precedes(j, i)})
  <1>1. DOMAIN rows = 1..Len(rows) /\ Len(rows) \in Nat
    BY DEF TimelineIInv, TimelineType
  <1>2. IsFiniteSet(DOMAIN rows) /\ Cardinality(DOMAIN rows) = Len(rows)
    <2>1. IsFiniteSet(1..Len(rows)) /\ Cardinality(1..Len(rows)) = IF 1 > Len(rows) THEN 0 ELSE Len(rows) - 1 + 1
      BY <1>1, FS_Interval
    <2> QED BY <1>1, <2>1
  <1>3. \A i, j \in DOMAIN rows : <<i, j>> \in Order <=> Precedes(i, j)
    BY DEF Order
  <1>4. \A i \in DOMAIN rows : rows[i].key \in Keys /\ i \in Nat
    BY RowFacts
  <1>5. \A i \in DOMAIN rows : ~Precedes(i, i)
    BY <1>4, KeyOrder DEF Precedes
  <1>6. ASSUME NEW i \in DOMAIN rows, NEW j \in DOMAIN rows, NEW k \in DOMAIN rows, Precedes(i, j), Precedes(j, k)
        PROVE  Precedes(i, k)
    <2> DEFINE a == rows[i].key
               b == rows[j].key
               c == rows[k].key
    <2>1. a \in Keys /\ b \in Keys /\ c \in Keys /\ i \in Nat /\ j \in Nat /\ k \in Nat
      BY <1>4
    <2>2. (Earlier(a, b) \/ (a = b /\ i < j)) /\ (Earlier(b, c) \/ (b = c /\ j < k))
      BY <1>6 DEF Precedes
    <2>3. Earlier(a, c) \/ (a = c /\ i < k)
      <3> HIDE DEF a, b, c, Keys
      <3>1. Earlier(a, b) /\ Earlier(b, c) => Earlier(a, c)
        BY <2>1, KeyOrder
      <3>2. i < j /\ j < k => i < k
        BY <2>1
      <3> QED BY <2>2, <3>1, <3>2
    <2> QED BY <2>3 DEF Precedes
  <1>7. ASSUME NEW i \in DOMAIN rows, NEW j \in DOMAIN rows, i # j PROVE Precedes(i, j) \/ Precedes(j, i)
    <2>1. i < j \/ j < i
      BY <1>4, <1>7
    <2>2. rows[i].key = rows[j].key \/ Earlier(rows[i].key, rows[j].key) \/ Earlier(rows[j].key, rows[i].key)
      BY <1>4, KeyOrder
    <2> QED BY <2>1, <2>2 DEF Precedes
  <1>8. Orders(Order, DOMAIN rows)
    <2>1. \A i \in DOMAIN rows : <<i, i>> \notin Order
      BY <1>3, <1>5
    <2>2. \A i, j, k \in DOMAIN rows : <<i, j>> \in Order /\ <<j, k>> \in Order => <<i, k>> \in Order
      BY <1>3, <1>6
    <2>3. \A i, j \in DOMAIN rows : i # j => <<i, j>> \in Order \/ <<j, i>> \in Order
      BY <1>3, <1>7
    <2> QED BY <2>1, <2>2, <2>3 DEF Orders
  <1>9. \A i \in DOMAIN rows : Rank(DOMAIN rows, Order, i) = Cardinality({j \in DOMAIN rows : Precedes(j, i)})
    <2> TAKE i \in DOMAIN rows
    <2>1. {j \in DOMAIN rows : <<j, i>> \in Order} = {j \in DOMAIN rows : Precedes(j, i)}
      BY <1>3
    <2> QED BY <2>1 DEF Rank
  <1> QED
    BY <1>1, <1>2, <1>3, <1>8, <1>9

\* Sorting keeps every row, and no row is before an earlier one.
LEMMA SortKeeps ==
    ASSUME TimelineIInv, Sort
    PROVE  TimelineIInv'
  <1> DEFINE D == DOMAIN rows
             From(n) == CHOOSE i \in D : Cardinality({j \in D : Precedes(j, i)}) = n - 1
  <1>1. /\ stage = "sort" /\ stage' = "done" /\ rows' = [n \in D |-> rows[From(n)]]
        /\ booted' = booted /\ up' = up /\ asleep' = asleep /\ happened' = happened
        /\ dumped' = dumped /\ epoch' = epoch /\ rows \in Seq(TrueRows)
    BY DEF Sort, machine, TimelineIInv, TimelineType
  <1>2. /\ IsFiniteSet(D) /\ Cardinality(D) = Len(rows) /\ Len(rows) \in Nat /\ D = 1..Len(rows)
        /\ Orders(Order, D) /\ \A i, j \in D : <<i, j>> \in Order <=> Precedes(i, j)
        /\ \A i \in D : Rank(D, Order, i) = Cardinality({j \in D : Precedes(j, i)})
    BY OrderFacts
  <1>3. ASSUME NEW n \in D PROVE From(n) \in D /\ Rank(D, Order, From(n)) = n - 1
    <2>1. \E i \in D : Rank(D, Order, i) = n - 1
      <3> HIDE DEF D
      <3> QED BY <1>2, Ranks
    <2>2. \E i \in D : Cardinality({j \in D : Precedes(j, i)}) = n - 1
      BY <2>1, <1>2
    <2>3. From(n) \in D /\ Cardinality({j \in D : Precedes(j, From(n))}) = n - 1
      BY <2>2
    <2> QED BY <2>3, <1>2
  <1>4. ASSUME NEW i \in D PROVE \E n \in D : From(n) = i
    <2>1. Rank(D, Order, i) \in 0..(Cardinality(D) - 1)
      <3> HIDE DEF D
      <3> QED BY <1>2, Ranks
    <2> DEFINE n == Rank(D, Order, i) + 1
    <2>2. n \in D /\ n - 1 = Rank(D, Order, i)
      BY <2>1, <1>2
    <2>3. From(n) \in D /\ Rank(D, Order, From(n)) = Rank(D, Order, i)
      BY <2>2, <1>3
    <2>4. \A j \in D : j # i => Rank(D, Order, j) # Rank(D, Order, i)
      <3> TAKE j \in D
      <3>1. <<i, j>> \in Order \/ <<j, i>> \in Order \/ i = j
        BY <1>2 DEF Orders
      <3> HIDE DEF D
      <3>2. Rank(D, Order, i) \in Int /\ Rank(D, Order, j) \in Int
        BY <1>2, Ranks
      <3>3. (<<i, j>> \in Order => Rank(D, Order, i) < Rank(D, Order, j))
            /\ (<<j, i>> \in Order => Rank(D, Order, j) < Rank(D, Order, i))
        BY <1>2, Ranks
      <3> QED BY <3>1, <3>2, <3>3
    <2>5. From(n) = i
      <3> HIDE DEF From, n
      <3> QED BY <2>3, <2>4
    <2> QED BY <2>2, <2>5
  <1>5. DOMAIN rows' = D /\ \A n \in D : rows'[n] = rows[From(n)]
    <2> HIDE DEF From
    <2> QED BY <1>1
  <1>6. TrueRows' = TrueRows
    BY <1>1 DEF TrueRows, NoTime, ByBoot, ByUtc, ByUptime, Event, SinceBoot, Wall, Seconds, Fraction
  <1>7. rows' \in Seq(TrueRows')
    <2>1. \A n \in D : rows[From(n)] \in TrueRows
      <3> HIDE DEF From
      <3> QED BY <1>3, <1>1
    <2> HIDE DEF From
    <2>2. rows' \in [1..Len(rows) -> TrueRows]
      BY <2>1, <1>1, <1>2
    <2> QED BY <2>2, <1>2, <1>6
  <1>8. TimelineType'
    BY <1>1, <1>7 DEF TimelineIInv, TimelineType, Stages
  <1>9. EpochTrue'
    BY <1>1 DEF TimelineIInv, EpochTrue, Seconds
  <1>10. AllGathered'
    <2>1. \A n : Excused(n)' <=> Excused(n)
      BY <1>1 DEF Excused, StartTime, BootTime, Recent, InWindow, Of, Seconds, Wall
    <2>2. ASSUME NEW n, HasRow(n) PROVE HasRow(n)'
      <3>1. PICK i \in D : rows[i].event = n
        BY <2>2 DEF HasRow
      <3>2. PICK k \in D : From(k) = i
        BY <1>4
      <3> HIDE DEF From, D
      <3> QED BY <3>1, <3>2, <1>5 DEF HasRow
    <2>3. Gathered' = Gathered
      BY <1>1 DEF Gathered
    <2> QED
      BY <2>1, <2>2, <2>3, <1>1 DEF AllGathered, TimelineIInv
  <1>11. Sorted'
    <2> SUFFICES ASSUME NEW i \in D, NEW j \in D, i < j, Earlier(rows'[j].key, rows'[i].key) PROVE FALSE
      BY <1>5 DEF Sorted
    <2>1. PICK a \in D : a = From(i) /\ Rank(D, Order, a) = i - 1
      BY <1>3
    <2>2. PICK b \in D : b = From(j) /\ Rank(D, Order, b) = j - 1
      BY <1>3
    <2>3. Earlier(rows[b].key, rows[a].key)
      <3> HIDE DEF From
      <3> QED BY <2>1, <2>2, <1>5
    <2>4. <<b, a>> \in Order
      BY <2>3, <1>2 DEF Precedes
    <2>5. Rank(D, Order, b) < Rank(D, Order, a)
      <3> HIDE DEF D
      <3> QED BY <2>4, <1>2, Ranks
    <2>6. i \in Nat /\ j \in Nat
      BY <1>2
    <2> QED
      BY <2>1, <2>2, <2>5, <2>6
  <1> QED
    BY <1>8, <1>9, <1>10, <1>11 DEF TimelineIInv

LEMMA TimelineNextIInv == TimelineIInv /\ [TimelineNext]_timelineVars => TimelineIInv'
  <1> SUFFICES ASSUME TimelineIInv, [TimelineNext]_timelineVars PROVE TimelineIInv'
    OBVIOUS
  <1>1. CASE \E kind \in Kinds : Happen(kind)
    BY <1>1, HappenKeeps
  <1>2. CASE Dump
    BY <1>2, DumpKeeps
  <1>3. CASE Anchor
    BY <1>3, AnchorKeeps
  <1>4. CASE ProcessStarts
    BY <1>4, ProcessStartsKeeps
  <1>5. CASE DmesgLines
    BY <1>5, DmesgLinesKeeps
  <1>6. CASE CrashEvents
    BY <1>6, CrashEventsKeeps
  <1>7. CASE ShellCommands
    BY <1>7, ShellCommandsKeeps
  <1>8. CASE FileTimes
    BY <1>8, FileTimesKeeps
  <1>9. CASE Programs
    BY <1>9, ProgramsKeeps
  <1>10. CASE Snapshots
    BY <1>10, SnapshotsKeeps
  <1>11. CASE Sort
    BY <1>11, SortKeeps
  <1>12. CASE UNCHANGED timelineVars
    <2>1. /\ booted' = booted /\ up' = up /\ asleep' = asleep /\ happened' = happened
          /\ stage' = stage /\ dumped' = dumped /\ epoch' = epoch /\ rows' = rows
      BY <1>12 DEF timelineVars, machine
    <2>2. TrueRows' = TrueRows
      BY <2>1 DEF TrueRows, NoTime, ByBoot, ByUtc, ByUptime, Event, SinceBoot, Wall, Seconds, Fraction
    <2>3. TimelineType'
      BY <2>1, <2>2 DEF TimelineIInv, TimelineType
    <2>4. EpochTrue' /\ Sorted' /\ Gathered' = Gathered
      BY <2>1 DEF TimelineIInv, EpochTrue, Seconds, Sorted, Gathered
    <2>5. \A n : (Excused(n)' <=> Excused(n)) /\ (HasRow(n)' <=> HasRow(n))
      BY <2>1 DEF Excused, StartTime, BootTime, Recent, InWindow, Of, Seconds, Wall, HasRow
    <2>6. AllGathered'
      BY <2>1, <2>4, <2>5 DEF TimelineIInv, AllGathered
    <2> QED BY <2>3, <2>4, <2>6 DEF TimelineIInv
  <1> QED
    BY <1>1, <1>2, <1>3, <1>4, <1>5, <1>6, <1>7, <1>8, <1>9, <1>10, <1>11, <1>12 DEF TimelineNext
-----------------------------------------------------------------------------
\* The place of a key of two rows of one rank, in ticks.
Ticks(key) == Hz * key[2] + key[3]

LEMMA TicksOrder ==
    ASSUME NEW a \in Keys, NEW b \in Keys, a[1] = b[1], ~Earlier(b, a),
           a[3] \in 0..(Hz - 1), b[3] \in 0..(Hz - 1)
    PROVE  Ticks(a) <= Ticks(b)
  <1> DEFINE h == Hz
             p == a[2]
             q == b[2]
             x == a[3]
             y == b[3]
  <1>1. h \in Nat /\ p \in Int /\ q \in Int /\ x \in 0..(h - 1) /\ y \in 0..(h - 1)
    BY TimelineAssumption DEF Keys
  <1>2. p < q \/ (p = q /\ x <= y)
    BY <1>1 DEF Earlier
  <1> HIDE DEF h, p, q, x, y
  <1>3. h * p \in Int /\ h * q \in Int
    BY <1>1
  <1>4. CASE p < q
    <2>1. \A d \in Nat : d >= 1 => h * d >= h
      BY <1>1
    <2>2. q - p \in Nat /\ q - p >= 1
      BY <1>1, <1>4
    <2>3. h * (q - p) >= h
      BY <2>1, <2>2
    <2>4. h * (q - p) = (h * q) - (h * p)
      BY <1>1
    <2>5. (h * p) + x <= (h * q) + y
      BY <1>1, <1>3, <2>3, <2>4
    <2> QED BY <2>5 DEF h, p, q, x, y, Ticks
  <1>5. CASE p = q /\ x <= y
    <2>1. (h * p) + x <= (h * q) + y
      BY <1>1, <1>3, <1>5
    <2> QED BY <2>1 DEF h, p, q, x, y, Ticks
  <1> QED
    BY <1>2, <1>4, <1>5

\* What a row of a clock since boot says, on a machine that never slept: the
\* same is added to its time for all.
Axis == IF epoch # 0 THEN Hz * epoch ELSE 0

LEMMA BootClock ==
    ASSUME TimelineIInv, asleep = 0, NEW r \in TrueRows, ByBoot(r)
    PROVE  /\ r.key[1] = (IF epoch # 0 THEN 1 ELSE 0) /\ r.key[3] \in 0..(Hz - 1)
           /\ Event(r).up \in Nat /\ Wall(Event(r)) = booted + Event(r).up
           /\ Ticks(r.key) = Axis + Event(r).up
  <1> DEFINE n == r.event
             t == happened[n].up
  <1>1. n \in DOMAIN happened /\ r.key \in {SinceBoot(happened[n].up), SinceBoot(happened[n].up + happened[n].asleep)}
    BY DEF ByBoot, Event
  <1>2. happened[n].up \in Nat /\ happened[n].asleep \in Nat /\ booted \in Nat /\ epoch \in Int
    BY <1>1, EventFacts
  <1>3. happened[n].asleep = 0
    <2>1. happened[n].asleep <= 0
      BY <1>1 DEF TimelineIInv, TimelineType
    <2> QED BY <2>1, <1>2
  <1>4. r.key = SinceBoot(t) /\ t \in Nat
    BY <1>1, <1>2, <1>3
  <1>5. Wall(Event(r)) = booted + t
    BY <1>2, <1>3 DEF Wall, Event
  <1>6. Seconds(t) \in Nat /\ Fraction(t) \in 0..(Hz - 1) /\ t = Hz * Seconds(t) + Fraction(t) /\ Hz \in Nat
    BY <1>4, ClockFacts, TimelineAssumption
  <1>7. CASE epoch # 0
    <2>1. r.key = <<1, epoch + Seconds(t), Fraction(t)>>
      BY <1>4, <1>7 DEF SinceBoot, dated_keys
    <2>2. Hz * (epoch + Seconds(t)) = (Hz * epoch) + (Hz * Seconds(t))
      BY <1>2, <1>6
    <2>3. Ticks(r.key) = (Hz * (epoch + Seconds(t))) + Fraction(t)
      BY <2>1 DEF Ticks
    <2>4. Ticks(r.key) = (Hz * epoch) + t
      <3> DEFINE A == Hz * epoch
                 B == Hz * Seconds(t)
                 f == Fraction(t)
                 T == Ticks(r.key)
      <3>1. A \in Int /\ B \in Int /\ f \in Int
        BY <1>2, <1>6
      <3>2. T = (A + B) + f /\ t = B + f
        BY <2>2, <2>3, <1>6
      <3> HIDE DEF A, B, f, T, t
      <3>3. T = A + t
        BY <3>1, <3>2
      <3> QED BY <3>3 DEF A, T, t
    <2> QED BY <2>1, <2>4, <1>4, <1>5, <1>6, <1>7 DEF Axis, Event
  <1>8. CASE epoch = 0
    <2>1. r.key = <<0, Seconds(t), Fraction(t)>>
      BY <1>4, <1>8 DEF SinceBoot, boot_rel_keys
    <2>2. Ticks(r.key) = t
      BY <2>1, <1>6 DEF Ticks
    <2> QED BY <2>1, <2>2, <1>4, <1>5, <1>6, <1>8 DEF Axis, Event
  <1> QED
    BY <1>7, <1>8

\* The axis is off by less than a second.
LEMMA AxisTrue ==
    ASSUME TimelineIInv, asleep = 0, epoch # 0
    PROVE  Axis \in Int /\ Axis - booted < Hz /\ booted - Axis < Hz
  <1>1. booted \in Nat /\ up \in Nat /\ epoch \in Int /\ epoch = Seconds(booted + up) - Seconds(up) /\ Hz \in Nat
    BY TimelineAssumption DEF TimelineIInv, TimelineType, EpochTrue
  <1> DEFINE p == Seconds(booted + up)
             q == Seconds(up)
             x == Fraction(booted + up)
             y == Fraction(up)
             A == Hz * p
             B == Hz * q
  <1>2. /\ p \in Nat /\ x \in 0..(Hz - 1) /\ booted + up = A + x
        /\ q \in Nat /\ y \in 0..(Hz - 1) /\ up = B + y
    <2>1. booted + up \in Nat
      BY <1>1
    <2>2. p \in Nat /\ x \in 0..(Hz - 1) /\ booted + up = A + x
      BY <2>1, ClockFacts
    <2>3. q \in Nat /\ y \in 0..(Hz - 1) /\ up = B + y
      BY <1>1, ClockFacts
    <2> QED BY <2>2, <2>3
  <1>3. Axis = Hz * (p - q)
    BY <1>1 DEF Axis
  <1>4. A \in Int /\ B \in Int /\ Hz * (p - q) = A - B
    <2> HIDE DEF p, q
    <2> QED BY <1>1, <1>2
  <1> HIDE DEF p, q, x, y, A, B
  <1> QED
    BY <1>1, <1>2, <1>3, <1>4

\* A row that is dated is less than a second off.
LEMMA DatedClock ==
    ASSUME TimelineIInv, asleep = 0, NEW r \in TrueRows, Dated(r)
    PROVE  /\ r.key[3] \in 0..(Hz - 1) /\ Ticks(r.key) \in Int /\ Wall(Event(r)) \in Int
           /\ Ticks(r.key) - Wall(Event(r)) < Hz /\ Wall(Event(r)) - Ticks(r.key) < Hz
  <1>1. ByBoot(r) \/ ByUtc(r)
    BY DEF TrueRows, Dated, NoTime
  <1>2. CASE ByBoot(r)
    <2> DEFINE T == Ticks(r.key)
               W == Wall(Event(r))
               u == Event(r).up
    <2>1. r.key[1] = (IF epoch # 0 THEN 1 ELSE 0) /\ r.key[3] \in 0..(Hz - 1) /\ u \in Nat /\ W = booted + u /\ T = Axis + u
      BY <1>2, BootClock
    <2>2. epoch # 0
      BY <2>1 DEF Dated
    <2>3. Axis \in Int /\ Axis - booted < Hz /\ booted - Axis < Hz /\ booted \in Nat /\ Hz \in Nat
      BY <2>2, AxisTrue, TimelineAssumption DEF TimelineIInv, TimelineType
    <2> HIDE DEF T, W, u
    <2>4. T \in Int /\ W \in Int /\ T - W < Hz /\ W - T < Hz
      BY <2>1, <2>3
    <2> QED BY <2>1, <2>4 DEF T, W
  <1>3. CASE ByUtc(r)
    <2> DEFINE W == Wall(Event(r))
               T == Ticks(r.key)
               A == Hz * Seconds(W)
               f == Fraction(W)
    <2>1. r.event \in DOMAIN happened /\ r.key = <<1, Seconds(W), 0>>
      BY <1>3 DEF ByUtc, dated_keys
    <2>2. W \in Nat
      BY <2>1, EventFacts DEF Event
    <2>3. Seconds(W) \in Nat /\ f \in 0..(Hz - 1) /\ W = A + f /\ Hz \in Nat /\ Hz # 0
      <3> HIDE DEF W
      <3> QED BY <2>2, ClockFacts, TimelineAssumption
    <2>4. A \in Nat
      <3> HIDE DEF W
      <3> QED BY <2>3
    <2>5. T = A /\ r.key[3] = 0
      <3> HIDE DEF W
      <3> QED BY <2>1, <2>4, <2>3 DEF Ticks
    <2> HIDE DEF T, A, f, W
    <2>6. T \in Int /\ W \in Int /\ T - W < Hz /\ W - T < Hz /\ r.key[3] \in 0..(Hz - 1)
      BY <2>3, <2>4, <2>5
    <2> QED BY <2>6 DEF T, W
  <1> QED BY <1>1, <1>2, <1>3

LEMMA IsChronological == TimelineIInv => Chronological
  <1> SUFFICES ASSUME TimelineIInv, stage = "done", asleep = 0,
                      NEW i \in DOMAIN rows, NEW j \in DOMAIN rows, i < j
               PROVE  /\ Dated(rows[i]) /\ Dated(rows[j]) => Wall(Event(rows[i])) - Wall(Event(rows[j])) < 2 * Hz
                      /\ rows[i].key[1] = rows[j].key[1] /\ rows[i].key[1] < 2
                            /\ ByUptime(rows[i]) /\ ByUptime(rows[j]) => Wall(Event(rows[i])) <= Wall(Event(rows[j]))
                      /\ rows[i].event = 0 => rows[j].key[1] = 2
    BY DEF Chronological
  <1>1. /\ rows[i] \in TrueRows /\ rows[i].key \in Keys
        /\ rows[j] \in TrueRows /\ rows[j].key \in Keys
        /\ ~Earlier(rows[j].key, rows[i].key)
    BY RowFacts DEF TimelineIInv, Sorted
  <1>2. ASSUME Dated(rows[i]), Dated(rows[j])
        PROVE  Wall(Event(rows[i])) - Wall(Event(rows[j])) < 2 * Hz
    <2> DEFINE K == Ticks(rows[i].key)
               L == Ticks(rows[j].key)
               V == Wall(Event(rows[i]))
               W == Wall(Event(rows[j]))
    <2>1. rows[i].key[3] \in 0..(Hz - 1) /\ K \in Int /\ V \in Int /\ V - K < Hz
      BY <1>1, <1>2, DatedClock
    <2>2. rows[j].key[3] \in 0..(Hz - 1) /\ L \in Int /\ W \in Int /\ L - W < Hz
      BY <1>1, <1>2, DatedClock
    <2>3. K <= L
      BY <1>1, <1>2, <2>1, <2>2, TicksOrder DEF Dated
    <2> HIDE DEF K, L, V, W
    <2>4. V - W < 2 * Hz
      BY <2>1, <2>2, <2>3, TimelineAssumption
    <2> QED BY <2>4 DEF V, W
  <1>3. ASSUME rows[i].key[1] = rows[j].key[1], rows[i].key[1] < 2, ByUptime(rows[i]), ByUptime(rows[j])
        PROVE  Wall(Event(rows[i])) <= Wall(Event(rows[j]))
    <2> DEFINE K == Ticks(rows[i].key)
               L == Ticks(rows[j].key)
               t == Event(rows[i]).up
               u == Event(rows[j]).up
    <2>1. ByBoot(rows[i]) /\ ByBoot(rows[j])
      BY <1>1, <1>3 DEF TrueRows, NoTime, ByUtc
    <2>2. rows[i].key[3] \in 0..(Hz - 1) /\ t \in Nat /\ Wall(Event(rows[i])) = booted + t /\ K = Axis + t
      BY <1>1, <2>1, BootClock
    <2>3. rows[j].key[3] \in 0..(Hz - 1) /\ u \in Nat /\ Wall(Event(rows[j])) = booted + u /\ L = Axis + u
      BY <1>1, <2>1, BootClock
    <2>4. K <= L
      BY <1>1, <1>3, <2>2, <2>3, TicksOrder
    <2>5. booted \in Nat /\ Axis \in Int
      BY TimelineAssumption DEF TimelineIInv, TimelineType, Axis
    <2>6. booted + t <= booted + u
      <3> HIDE DEF K, L, t, u
      <3> QED BY <2>2, <2>3, <2>4, <2>5
    <2> QED BY <2>2, <2>3, <2>6
  <1>4. ASSUME rows[i].event = 0 PROVE rows[j].key[1] = 2
    <2>1. 0 \notin DOMAIN happened
      BY DEF TimelineIInv, TimelineType
    <2>2. rows[i].key[1] = 2
      BY <1>1, <1>4, <2>1 DEF TrueRows, NoTime, ByBoot, ByUtc
    <2>3. ~(rows[j].key[1] < 2)
      BY <1>1, <2>2 DEF Earlier
    <2> QED BY <1>1, <2>3 DEF Keys
  <1> QED
    BY <1>2, <1>3, <1>4
-----------------------------------------------------------------------------
\* Some of the rows, in their order.
LEMMA AmongFacts ==
    ASSUME TimelineIInv, NEW S \in SUBSET (DOMAIN rows)
    PROVE  /\ Cardinality(S) \in Nat /\ Len(Among(S)) = Cardinality(S) /\ DOMAIN Among(S) = 1..Cardinality(S)
           /\ Among(S) \in Seq(Rows)
           /\ \A n \in 1..Cardinality(S) : Nth(S, n) \in S /\ Among(S)[n] = rows[Nth(S, n)]
           /\ \A m, n \in 1..Cardinality(S) : m < n => Nth(S, m) < Nth(S, n)
           /\ \A i \in S : \E n \in 1..Cardinality(S) : Nth(S, n) = i
           /\ \A r : r \in ToSet(Among(S)) <=> \E i \in S : rows[i] = r
  <1>1. IsFiniteSet(S) /\ S \in SUBSET Int
    <2>1. IsFiniteSet(DOMAIN rows) /\ DOMAIN rows = 1..Len(rows) /\ Len(rows) \in Nat
      BY OrderFacts
    <2>2. IsFiniteSet(S)
      BY <2>1, FS_Subset
    <2> QED BY <2>1, <2>2
  <1>2. /\ Cardinality(S) \in Nat
        /\ \A n \in 1..Cardinality(S) : Nth(S, n) \in S
        /\ \A m, n \in 1..Cardinality(S) : m < n => Nth(S, m) < Nth(S, n)
        /\ \A i \in S : \E n \in 1..Cardinality(S) : Nth(S, n) = i
    BY <1>1, NthFacts
  <1> DEFINE N == Cardinality(S)
             s == Among(S)
  <1>3. s = [n \in 1..N |-> rows[Nth(S, n)]]
    BY DEF Among
  <1>4. \A n \in 1..N : Nth(S, n) \in S /\ s[n] = rows[Nth(S, n)] /\ s[n] \in Rows
    BY <1>2, <1>3, RowFacts
  <1>5. s \in Seq(Rows) /\ Len(s) = N /\ DOMAIN s = 1..N
    <2>1. N \in Nat /\ DOMAIN s = 1..N
      BY <1>2, <1>3
    <2>2. s = [n \in 1..N |-> s[n]]
      BY <1>3
    <2> HIDE DEF s, N
    <2>3. s \in [1..N -> Rows]
      BY <2>2, <1>4
    <2> QED BY <2>1, <2>3
  <1>6. \A r : r \in ToSet(s) <=> \E i \in S : rows[i] = r
    <2>1. \A r : r \in ToSet(s) <=> \E n \in 1..N : s[n] = r
      <3> HIDE DEF s, N
      <3> QED BY <1>5 DEF ToSet
    <2> QED
      <3> HIDE DEF s
      <3> QED BY <2>1, <1>2, <1>4
  <1> QED
    BY <1>2, <1>4, <1>5, <1>6

\* The domains of a timeline are those of the types of its rows.
LEMMA DomainFacts ==
    /\ DOMAIN Domain = {"process", "network", "shell", "kernel", "findevil"}
    /\ Domain["process"] = "PROC" /\ Domain["network"] = "NET" /\ Domain["shell"] = "SHELL"
    /\ Domain["kernel"] = "KERN" /\ Domain["findevil"] = "EVIL"
  BY DEF Domain

LEMMA FilterFacts ==
    ASSUME TimelineIInv, NEW d \in DOMAIN Domain
    PROVE  filter_domain(d) = Among(RowsOfType(Domain[d]))
  <1>1. d # "all"
    BY DomainFacts
  <1>2. {i \in DOMAIN rows : d = "all" \/ rows[i].type = Domain[d]} = RowsOfType(Domain[d])
    BY <1>1 DEF RowsOfType
  <1> QED BY <1>2 DEF filter_domain

\* Every event has its row, or its excuse.
LEMMA EventsKept ==
    ASSUME TimelineIInv, stage = "done", NEW n \in DOMAIN happened
    PROVE  \/ \E i \in DOMAIN rows : rows[i].event = n
           \/ happened[n].kind = "exec" /\ (dumped.field = "none" \/ StartTime(n) = 0)
           \/ happened[n].kind = "load" /\ BootTime(n) = 0
           \/ /\ happened[n].kind = "write"
              /\ \/ Seconds(Wall(happened[n])) \notin MinEpoch..MaxEpoch
                 \/ Cardinality({m \in DOMAIN happened : m > n /\ happened[m].kind = "write"}) >= FsCap
  <1>1. happened[n].kind \in Gathered
    <2>1. happened[n].kind \in Kinds
      BY EventFacts
    <2> QED BY <2>1 DEF Gathered
  <1>2. HasRow(n) \/ Excused(n)
    BY <1>1 DEF TimelineIInv, AllGathered
  <1>3. CASE happened[n].kind = "write" /\ n \notin Recent /\ Seconds(Wall(happened[n])) \in MinEpoch..MaxEpoch
    <2> DEFINE S == {m \in InWindow : m > n}
               T == {m \in DOMAIN happened : m > n /\ happened[m].kind = "write"}
    <2>1. n \in InWindow
      BY <1>3 DEF InWindow, Of
    <2>2. ~(Cardinality(S) < FsCap)
      BY <1>3, <2>1 DEF Recent
    <2>3. S \in SUBSET T
      BY DEF InWindow, Of
    <2>4. IsFiniteSet(T)
      <3>1. T \in SUBSET (1..Len(happened)) /\ Len(happened) \in Nat
        BY DEF TimelineIInv, TimelineType
      <3>2. IsFiniteSet(1..Len(happened))
        BY <3>1, FS_Interval
      <3> HIDE DEF T
      <3> QED BY <3>1, <3>2, FS_Subset
    <2>5. Cardinality(S) <= Cardinality(T) /\ IsFiniteSet(S)
      <3> HIDE DEF S, T
      <3> QED BY <2>3, <2>4, FS_Subset
    <2>6. Cardinality(S) \in Nat /\ Cardinality(T) \in Nat
      <3> HIDE DEF S, T
      <3> QED BY <2>4, <2>5, FS_CardinalityType
    <2>7. Cardinality(T) >= FsCap
      <3> HIDE DEF S, T
      <3> QED BY <2>2, <2>5, <2>6, TimelineAssumption
    <2> QED BY <1>3, <2>7
  <1> QED
    BY <1>2, <1>3 DEF HasRow, Excused

\* A row that is not of a file is in one of the domains.
LEMMA OneDomain ==
    ASSUME TimelineIInv, NEW i \in DOMAIN rows, rows[i].type # "FILE"
    PROVE  Cardinality({d \in DOMAIN Domain : rows[i] \in ToSet(filter_domain(d))}) = 1
  <1>1. ASSUME NEW d \in DOMAIN Domain
        PROVE  rows[i] \in ToSet(filter_domain(d)) <=> rows[i].type = Domain[d]
    <2> DEFINE S == RowsOfType(Domain[d])
    <2>1. S \in SUBSET (DOMAIN rows) /\ \A k \in DOMAIN rows : k \in S <=> rows[k].type = Domain[d]
      BY DEF RowsOfType
    <2>2. filter_domain(d) = Among(S)
      BY FilterFacts
    <2>3. rows[i] \in ToSet(Among(S)) <=> \E k \in S : rows[k] = rows[i]
      <3> HIDE DEF S
      <3> QED BY <2>1, AmongFacts
    <2> QED
      <3> HIDE DEF S
      <3> QED BY <2>1, <2>2, <2>3
  <1>2. rows[i].type \in {"PROC", "KERN", "SHELL", "NET", "EVIL"}
    BY RowFacts DEF Rows
  <1>3. PICK d \in DOMAIN Domain : {e \in DOMAIN Domain : Domain[e] = rows[i].type} = {d}
    <2>1. CASE rows[i].type = "PROC"
      <3>1. {e \in DOMAIN Domain : Domain[e] = rows[i].type} = {"process"}
        BY <2>1, DomainFacts
      <3> QED BY <3>1, DomainFacts
    <2>2. CASE rows[i].type = "KERN"
      <3>1. {e \in DOMAIN Domain : Domain[e] = rows[i].type} = {"kernel"}
        BY <2>2, DomainFacts
      <3> QED BY <3>1, DomainFacts
    <2>3. CASE rows[i].type = "SHELL"
      <3>1. {e \in DOMAIN Domain : Domain[e] = rows[i].type} = {"shell"}
        BY <2>3, DomainFacts
      <3> QED BY <3>1, DomainFacts
    <2>4. CASE rows[i].type = "NET"
      <3>1. {e \in DOMAIN Domain : Domain[e] = rows[i].type} = {"network"}
        BY <2>4, DomainFacts
      <3> QED BY <3>1, DomainFacts
    <2>5. CASE rows[i].type = "EVIL"
      <3>1. {e \in DOMAIN Domain : Domain[e] = rows[i].type} = {"findevil"}
        BY <2>5, DomainFacts
      <3> QED BY <3>1, DomainFacts
    <2> QED BY <1>2, <2>1, <2>2, <2>3, <2>4, <2>5
  <1>4. {e \in DOMAIN Domain : rows[i] \in ToSet(filter_domain(e))} = {d}
    BY <1>1, <1>3
  <1>5. Cardinality({d}) = 1
    BY FS_Singleton
  <1> QED BY <1>4, <1>5

\* A domain has as many rows as the summary counts.
LEMMA AsCounted ==
    ASSUME TimelineIInv, NEW d \in DOMAIN Domain
    PROVE  Counts[Domain[d]] = Len(filter_domain(d))
  <1>1. Counts[Domain[d]] = Cardinality(RowsOfType(Domain[d]))
    BY DEF Counts
  <1>2. RowsOfType(Domain[d]) \in SUBSET (DOMAIN rows)
    BY DEF RowsOfType
  <1>3. Len(Among(RowsOfType(Domain[d]))) = Cardinality(RowsOfType(Domain[d]))
    BY <1>2, AmongFacts
  <1> QED
    BY <1>1, <1>3, FilterFacts

\* A command that the summary leaves out is no earlier than those it lists.
LEMMA LatestLeftOut ==
    ASSUME TimelineIInv, stage = "done", NEW i \in DOMAIN rows, rows[i].type = "SHELL"
    PROVE  \/ rows[i] \in ToSet(Listed("SHELL"))
           \/ /\ Len(Listed("SHELL")) = MaxListed
              /\ \A r \in ToSet(Listed("SHELL")) : ~Earlier(rows[i].key, r.key)
  <1> DEFINE S == RowsOfType("SHELL")
             N == Cardinality(S)
             s == Among(S)
             M == Min({N, MaxListed})
             l == Listed("SHELL")
  <1>1. S \in SUBSET (DOMAIN rows) /\ i \in S
    BY DEF RowsOfType
  <1>2. /\ N \in Nat /\ Len(s) = N /\ s \in Seq(Rows)
        /\ \A n \in 1..N : Nth(S, n) \in S /\ s[n] = rows[Nth(S, n)]
        /\ \A m, n \in 1..N : m < n => Nth(S, m) < Nth(S, n)
        /\ \E n \in 1..N : Nth(S, n) = i
    <2> HIDE DEF S
    <2> QED BY <1>1, AmongFacts
  <1>3. PICK k \in 1..N : Nth(S, k) = i
    BY <1>2
  <1>4. MaxListed \in Nat
    BY TimelineAssumption
  <1>5. M \in {N, MaxListed} /\ M <= N /\ M <= MaxListed
    <2> HIDE DEF N
    <2>1. \E x \in {N, MaxListed} : \A y \in {N, MaxListed} : x <= y
      BY <1>2, <1>4
    <2> QED BY <2>1 DEF Min
  <1>6. l = SubSeq(s, 1, M)
    BY DEF Listed
  <1>7. Len(l) = M /\ DOMAIN l = 1..M /\ \A n \in 1..M : l[n] = s[n]
    <2> HIDE DEF s, M, l, N
    <2> QED BY <1>2, <1>4, <1>5, <1>6
  <1> HIDE DEF N, s, M, l, S
  <1>8. CASE k <= M
    <2>1. k \in 1..M
      BY <1>8, <1>2, <1>4, <1>5
    <2>2. l[k] = rows[i] /\ k \in DOMAIN l
      BY <2>1, <1>2, <1>3, <1>7
    <2>3. rows[i] \in ToSet(l)
      BY <2>2 DEF ToSet
    <2> QED BY <2>3 DEF l
  <1>9. CASE ~(k <= M)
    <2>1. M = MaxListed /\ M < k
      BY <1>9, <1>2, <1>4, <1>5
    <2>2. ASSUME NEW r \in ToSet(l) PROVE ~Earlier(rows[i].key, r.key)
      <3>1. PICK n \in 1..M : l[n] = r
        BY <1>7 DEF ToSet
      <3>2. n \in 1..N /\ n < k
        BY <2>1, <1>2, <1>4, <1>5
      <3>3. r = rows[Nth(S, n)] /\ Nth(S, n) \in S /\ Nth(S, n) < i
        BY <3>1, <3>2, <1>2, <1>3, <1>7
      <3> QED
        BY <3>3, <1>1 DEF TimelineIInv, Sorted
    <2> QED BY <2>1, <2>2, <1>7 DEF l
  <1> QED
    BY <1>8, <1>9

LEMMA IsKept == TimelineIInv => RowsKept
  BY EventsKept, OneDomain, AsCounted, LatestLeftOut DEF RowsKept

(* On a machine that never slept, what happened two seconds apart or more  *)
(* is in order whoever recorded it, the clocks since boot to the tick, and *)
(* what has no time comes last; every event has its row, or its excuse;    *)
(* and the domains' timelines and the summary leave out no row they should *)
(* hold.  For any machine, dump, timekeepers and number of events.         *)
THEOREM TimelineIsTrue == TimelineSpec => []TimelineTrue
  <1>1. TimelineInit => TimelineIInv
    BY TimelineInitIInv
  <1>2. TimelineIInv /\ [TimelineNext]_timelineVars => TimelineIInv'
    BY TimelineNextIInv
  <1>3. TimelineIInv => TimelineTrue
    BY IsChronological, IsKept DEF TimelineTrue
  <1> QED
    BY <1>1, <1>2, <1>3, PTL DEF TimelineSpec
-----------------------------------------------------------------------------
\* KernelLocator: what is known at each step.
Scanning == {"banners", "swapper", "task"}
Located == {"base", "based", "banner", "done"}
Strategies == {"none", "banner", "init_task", "brute-force", "btf-types-only"}
Contexts == [task : Int, shift : Int, base : Int, dtb : Int, validated : BOOLEAN, strategy : Strategies,
             virt : Int, banner : Int]

LocatorType ==
    /\ img \in KernelImages
    /\ phase \in Scanning \cup Located \cup {"error"}
    /\ pos \in Nat
    /\ banners \subseteq Banners /\ hits \subseteq Swappers
    /\ best \in [base : Int, score : Int]
    /\ ctx \in Contexts
    /\ phase \in Scanning => best = NoBest /\ ctx = NoCtx
    /\ phase \in Located => ctx.task \in Swappers /\ LooksInit(img.tasks[ctx.task])
    /\ phase \in {"base", "based"} => ctx.virt = TaskShift(ctx.task) /\ ~ctx.validated

\* The scan that has passed init_task has it, and no hit before it looks like it.
TaskFound ==
    InitSeen =>
        /\ phase = "swapper" /\ img.init < pos => img.init \in hits
        /\ phase = "task" => img.init \in hits
        /\ phase \in Located => ctx.task = img.init

\* The bases above the kernel's score less than it, and those below do not replace it.
TrueScore == Score(img.base, TaskIn(FirstAt))

BaseFound ==
    InitSeen /\ Anchored =>
        /\ phase = "base" =>
              \/ BaseAt(pos) >= img.base /\ best.score < TrueScore
              \/ BaseAt(pos) < img.base /\ best = [base |-> img.base, score |-> TrueScore]
        /\ phase = "based" => best.base = img.base
        /\ phase \in {"banner", "done"} => ctx.base = img.base

DirectoryFound == phase \in {"banner", "done"} /\ img.syms.task => DirectoryMaps

LocatorIInv == LocatorType /\ TaskFound /\ BaseFound /\ DirectoryFound

\* Of cells below a bound there is a least.
LEMMA LeastCell ==
    ASSUME NEW n \in Int, NEW S \in SUBSET (0..n), S # {}
    PROVE  Least(S) \in S /\ \A a \in S : Least(S) <= a
  <1>1. IsFiniteSet(0..n)
    BY FS_Interval
  <1>2. IsFiniteSet(S) /\ S \in SUBSET Int
    <2>1. IsFiniteSet(S)
      BY <1>1, FS_Subset
    <2> QED BY <2>1
  <1>3. \E i \in S : \A j \in S : i <= j
    BY <1>2, LeastFacts
  <1> QED BY <1>3 DEF Least

LEMMA ImageFacts ==
    ASSUME img \in KernelImages
    PROVE  KernelImage(img)
  BY LocatorAssumption

\* What is known of init_task.
LEMMA InitFacts ==
    ASSUME img \in KernelImages
    PROVE  /\ img.max \in Nat /\ img.max <= Wrap /\ img.init \in Nat /\ img.base \in Nat /\ img.base > 0
           /\ img.base % GiB = 0 /\ img.shift \in Int /\ img.shift % Align = 0
           /\ img.init = TaskAt + img.shift /\ img.init \in DOMAIN img.tasks
           /\ DOMAIN img.tasks \subseteq Nat /\ DOMAIN img.banners \subseteq Nat /\ DOMAIN img.pgds \subseteq Nat
           /\ \A a \in DOMAIN img.tasks : img.tasks[a] \in Tasks
           /\ \A d \in DOMAIN img.pgds : img.pgds[d].maps \in Int /\ img.pgds[d].maps % Align = 0
           /\ img.tasks[img.init].comm = "swapper" /\ LooksInit(img.tasks[img.init])
           /\ img.syms \in [task : BOOLEAN, banner : BOOLEAN, pgt : BOOLEAN]
  <1>1. KernelImage(img)
    BY ImageFacts
  <1>2. Wrap \in Nat
    BY LocatorAssumption
  <1> QED BY <1>1, <1>2 DEF KernelImage

LEMMA CellFacts ==
    ASSUME img \in KernelImages
    PROVE  /\ Swappers \subseteq 0..(img.max - 1) /\ Banners \subseteq 0..(img.max - 1)
           /\ Swappers \subseteq DOMAIN img.tasks /\ Banners \subseteq DOMAIN img.banners
           /\ \A a \in Swappers : img.tasks[a].comm = "swapper"
           /\ InitSeen => img.init \in Swappers
  <1>1. InitSeen => Captured(img.init)
    BY InitFacts DEF InitSeen
  <1> QED BY <1>1, InitFacts DEF Swappers, Banners, IsTask, IsBanner, Captured

\* What depends on the image only.
LEMMA SameImage ==
    ASSUME img' = img
    PROVE  /\ InitSeen' = InitSeen /\ Anchored' = Anchored /\ OneKernel' = OneKernel
           /\ Swappers' = Swappers /\ Banners' = Banners /\ FirstAt' = FirstAt
  BY DEF InitSeen, Anchored, OneKernel, Swappers, Banners, FirstAt, SecondAt, Captured, IsTask, IsBanner, IsInit,
         LinksBack, PairedAt

LEMMA LocatorStarts == LocatorInit => LocatorIInv
  <1> SUFFICES ASSUME LocatorInit PROVE LocatorIInv
    OBVIOUS
  <1>1. LocatorType
    <2>1. NoBest \in [base : Int, score : Int]
      BY DEF NoBest
    <2>2. NoCtx \in Contexts
      BY DEF NoCtx, Contexts, Strategies
    <2> QED
      BY <2>1, <2>2 DEF LocatorInit, LocatorType, Scanning, Located
  <1> QED
    BY <1>1 DEF LocatorInit, LocatorIInv, TaskFound, BaseFound, DirectoryFound, Located

-----------------------------------------------------------------------------
LEMMA BannersKeep ==
    ASSUME LocatorIInv, ScanBanners \/ BannersDone
    PROVE  LocatorIInv'
  <1>1. img' = img /\ hits' = hits /\ best' = best /\ ctx' = ctx /\ phase' \in {"banners", "swapper"}
    BY DEF ScanBanners, BannersDone
  <1>2. banners' \subseteq Banners
    BY DEF ScanBanners, BannersDone, LocatorIInv, LocatorType, Found
  <1>3. pos' \in Nat
    BY LocatorAssumption DEF ScanBanners, BannersDone, LocatorIInv, LocatorType
  <1>4. phase' = "swapper" => pos' = 0
    BY DEF ScanBanners, BannersDone
  <1>5. phase = "banners"
    BY DEF ScanBanners, BannersDone
  <1>6. LocatorType'
    BY <1>1, <1>2, <1>3, <1>5, SameImage DEF LocatorIInv, LocatorType, Scanning, Located
  <1>7. TaskFound'
    <2>1. phase' = "swapper" => ~(img'.init < pos')
      BY <1>1, <1>4, InitFacts DEF LocatorIInv, LocatorType
    <2> QED BY <2>1, <1>1 DEF TaskFound, Located
  <1> QED
    BY <1>1, <1>6, <1>7 DEF LocatorIInv, BaseFound, DirectoryFound, Located

\* A window that has init_task has the cell after it, and all of its cells
\* from the first: the number of cells read reaches past init_task.
LEMMA WindowFacts ==
    ASSUME img \in KernelImages, InitSeen, pos \in Nat, pos <= img.init, img.init < pos + Chunk
    PROVE  img.init \in pos..(pos + (Got(pos, Want(1)) - 1) - 1)
  <1> DEFINE W == {a \in pos..(pos + Want(1) - 1) : Captured(a)}
             V == pos..(img.init + 1)
  <1>0. Chunk \in Nat /\ img.max \in Nat /\ img.init \in Nat
    BY InitFacts, LocatorAssumption
  <1>1. Captured(img.init + 1) /\ \A a \in V : Captured(a)
    BY <1>0 DEF InitSeen
  <1>2. img.init + 1 < img.max
    BY <1>0, <1>1 DEF Captured
  <1>3. Want(1) \in Int /\ img.init + 1 <= pos + Want(1) - 1
    BY <1>0, <1>2 DEF Want, SmallerOf
  <1>4. V \subseteq W
    BY <1>0, <1>1, <1>3
  <1>5. IsFiniteSet(pos..(pos + Want(1) - 1))
    BY <1>3, FS_Interval
  <1>6. IsFiniteSet(W)
    <2>1. W \subseteq pos..(pos + Want(1) - 1)
      OBVIOUS
    <2> HIDE DEF W
    <2> QED BY <2>1, <1>5, FS_Subset
  <1>7. Cardinality(V) <= Cardinality(W) /\ Cardinality(W) \in Nat
    <2> HIDE DEF W, V
    <2>1. Cardinality(V) <= Cardinality(W)
      BY <1>4, <1>6, FS_Subset
    <2>2. Cardinality(W) \in Nat
      BY <1>6, FS_CardinalityType
    <2> QED BY <2>1, <2>2
  <1>8. Cardinality(V) = img.init + 2 - pos
    <2>1. Cardinality(V) = IF pos > img.init + 1 THEN 0 ELSE img.init + 1 - pos + 1
      <3> DEFINE h == img.init + 1
      <3>1. h \in Int /\ pos \in Int
        BY <1>0
      <3> HIDE DEF h
      <3>2. Cardinality(pos..h) = IF pos > h THEN 0 ELSE h - pos + 1
        BY <3>1, FS_Interval
      <3>3. V = pos..h
        BY DEF h
      <3> QED BY <3>1, <3>2, <3>3, <1>0 DEF h
    <2> QED BY <2>1, <1>0
  <1>9. Got(pos, Want(1)) = Cardinality(W)
    BY DEF Got
  <1> HIDE DEF W, V
  <1> QED
    BY <1>0, <1>7, <1>8, <1>9

LEMMA SwapperKeeps ==
    ASSUME LocatorIInv, ScanSwapper \/ SwapperDone
    PROVE  LocatorIInv'
  <1>1. img' = img /\ banners' = banners /\ best' = best /\ ctx' = ctx /\ phase = "swapper"
        /\ phase' \in {"swapper", "task", "error"}
    BY DEF ScanSwapper, SwapperDone
  <1>2. img \in KernelImages /\ pos \in Nat /\ hits \subseteq Swappers
    BY DEF LocatorIInv, LocatorType
  <1>3. hits' \subseteq Swappers
    BY <1>2 DEF ScanSwapper, SwapperDone, Found
  <1>4. pos' \in Nat
    BY <1>2, LocatorAssumption DEF ScanSwapper, SwapperDone
  <1>5. LocatorType'
    BY <1>1, <1>2, <1>3, <1>4, SameImage DEF LocatorIInv, LocatorType, Scanning, Located
  <1>6. TaskFound'
    <2> SUFFICES ASSUME InitSeen
                 PROVE  (phase' = "swapper" /\ img.init < pos') \/ phase' = "task" => img.init \in hits'
      BY <1>1, SameImage DEF TaskFound, Located
    <2>0. img.init \in Nat /\ img.max \in Nat /\ Chunk \in Nat /\ img.init < img.max
      BY <1>2, InitFacts, LocatorAssumption DEF InitSeen, Captured
    <2>1. img.init < pos => img.init \in hits
      BY <1>1 DEF LocatorIInv, TaskFound
    <2>2. CASE ScanSwapper
      <3>1. pos' = pos + Chunk /\ phase' = "swapper" /\ hits \subseteq hits'
            /\ hits' = hits \cup Found(Swappers, Got(pos, Want(1)) - 1)
        BY <2>2, <1>1 DEF ScanSwapper
      <3>2. CASE img.init < pos
        BY <3>2, <3>1, <2>1
      <3>3. CASE pos <= img.init /\ img.init < pos + Chunk
        <4>1. img.init \in pos..(pos + (Got(pos, Want(1)) - 1) - 1)
          BY <3>3, <1>2, WindowFacts
        <4>2. img.init \in Swappers
          BY <1>2, CellFacts
        <4> QED BY <4>1, <4>2, <3>1 DEF Found
      <3> QED BY <3>1, <3>2, <3>3, <2>0, <1>2
    <2>3. CASE SwapperDone
      <3>1. img.init < pos /\ hits' = hits
        BY <2>3, <2>0, <1>2 DEF SwapperDone
      <3> QED BY <3>1, <2>1
    <2> QED BY <2>2, <2>3
  <1> QED
    BY <1>1, <1>5, <1>6 DEF LocatorIInv, BaseFound, DirectoryFound, Located

-----------------------------------------------------------------------------
\* The kernel's base of the direct map, of all that are tried.
LEMMA BaseSteps ==
    ASSUME img \in KernelImages, Sample \in Nat, NEW k \in Nat
    PROVE  /\ BaseAt(k) \in Int /\ BaseAt(k) + k * GiB <= Sample /\ BaseAt(k + 1) = BaseAt(k) - GiB
           /\ BaseAt(k) > img.base => BaseAt(k) - GiB >= img.base
  <1> DEFINE q == Sample \div GiB
             m == img.base \div GiB
  <1>1. GiB \in Nat /\ GiB > 0 /\ img.base \in Nat /\ img.base % GiB = 0
    BY InitFacts, LocatorAssumption
  <1>2. q \in Int /\ m \in Int /\ q * GiB <= Sample /\ img.base = m * GiB
    <2>1. Sample = GiB * (Sample \div GiB) + (Sample % GiB) /\ Sample % GiB >= 0 /\ Sample \div GiB \in Int
          /\ Sample % GiB \in Int
      BY <1>1
    <2>2. img.base = GiB * (img.base \div GiB) + (img.base % GiB) /\ img.base \div GiB \in Int
      BY <1>1
    <2> QED BY <1>1, <2>1, <2>2
  <1>3. BaseAt(k) = (q - k) * GiB /\ BaseAt(k + 1) = (q - (k + 1)) * GiB
    BY DEF BaseAt
  <1> HIDE DEF q, m
  <1>4. (q - k) * GiB = (q * GiB) - (k * GiB) /\ (q - (k + 1)) * GiB = ((q - k) * GiB) - GiB
    BY <1>1, <1>2
  <1>5. (q - k) * GiB \in Int /\ q * GiB \in Int /\ k * GiB \in Int
    BY <1>1, <1>2
  <1>6. (q - k) * GiB > m * GiB => ((q - k) * GiB) - GiB >= m * GiB
    <2> SUFFICES ASSUME (q - k) * GiB > m * GiB PROVE ((q - k) * GiB) - GiB >= m * GiB
      OBVIOUS
    <2>1. \A d \in Int : d <= 0 => d * GiB <= 0
      BY <1>1
    <2>2. \A d \in Int : d >= 1 => d * GiB >= GiB
      BY <1>1
    <2>3. ((q - k) - m) * GiB = ((q - k) * GiB) - (m * GiB) /\ (q - k) - m \in Int /\ m * GiB \in Int
      BY <1>1, <1>2
    <2>4. (q - k) - m >= 1
      BY <2>1, <2>3, <1>5
    <2>5. ((q - k) - m) * GiB >= GiB
      BY <2>2, <2>3, <2>4
    <2> QED BY <2>3, <2>5, <1>5, <1>1
  <1> QED
    BY <1>1, <1>2, <1>3, <1>4, <1>5, <1>6

\* Where the kernel's base leads to.
LEMMA FirstFacts ==
    ASSUME img \in KernelImages, Anchored, ctx.task = img.init, ctx.virt = TaskShift(ctx.task)
    PROVE  /\ Sample \in Nat /\ Sample - img.base = FirstAt /\ FirstAt \in DOMAIN img.tasks
           /\ TaskIn(FirstAt) = img.tasks[FirstAt] /\ IsUser(img.tasks[FirstAt])
           /\ ScoreAt(img.base) = TrueScore
           /\ SecondFits(img.base, TaskIn(FirstAt)) <=> IsTask(SecondAt)
  <1>1. Linked(img) /\ FirstAt \in DOMAIN img.tasks /\ FirstAt + 1 < img.max /\ Captured(FirstAt)
    BY ImageFacts DEF Anchored, IsTask, KernelImage
  <1>2. Sample \in Nat /\ Sample = img.tasks[img.init].next
    BY InitFacts DEF Sample, Tasks
  <1>3. Sample - img.base = FirstAt
    BY <1>2 DEF FirstAt, FirstOf
  <1>4. TaskIn(FirstAt) = img.tasks[FirstAt]
    BY <1>1 DEF TaskIn
  <1>5. IsUser(img.tasks[FirstAt]) /\ img.tasks[FirstAt].next > img.base
    BY <1>1 DEF Linked, FirstAt
  <1>6. ScoreAt(img.base) = TrueScore
    BY <1>1, <1>3 DEF ScoreAt, Readable, TrueScore
  <1>7. IsTask(SecondAt) => IsUser(img.tasks[SecondAt]) /\ img.tasks[SecondAt].prev = Sample
    BY <1>1, <1>2 DEF Linked, FirstAt, SecondAt, IsTask
  <1>8. SecondAt = img.tasks[FirstAt].next - img.base
    BY DEF SecondAt, SecondOf, FirstAt
  <1>9. SecondFits(img.base, TaskIn(FirstAt)) <=> IsTask(SecondAt)
    BY <1>4, <1>5, <1>7, <1>8 DEF SecondFits
  <1> QED
    BY <1>1, <1>2, <1>3, <1>4, <1>5, <1>6, <1>9

\* The heads a task is compared with are the list's own.
LEMMA HeadFacts ==
    ASSUME img \in KernelImages, ctx.task = img.init, ctx.virt = TaskShift(ctx.task)
    PROVE  \A a \in DOMAIN img.tasks : img.tasks[a].prev \in Heads <=> img.syms.task /\ LinksBack(a)
  <1>1. img.syms.task => ctx.virt = img.shift
    BY InitFacts, LocatorAssumption DEF TaskShift
  <1> QED BY <1>1 DEF Heads, LinksBack

LEMMA ScoreBounds ==
    ASSUME NEW base, NEW t
    PROVE  /\ Score(base, t) \in 0..14
           /\ ~SecondFits(base, t) => Score(base, t) <= 10
           /\ ~SecondFits(base, t) /\ t.prev \notin Heads => Score(base, t) <= 6
           /\ IsUser(t) => Score(base, t) = 6 + Bool(t.prev \in Heads, 4) + Bool(SecondFits(base, t), 4)
           /\ ~IsUser(t) /\ t.comm = "garbage" /\ t.pid = 0 => Score(base, t) <= 8
  BY DEF Score, Bool, IsUser

\* It scores more than any other, and than what the others may stop at.
LEMMA TrueScoreWins ==
    ASSUME img \in KernelImages, Anchored, ctx.task = img.init, ctx.virt = TaskShift(ctx.task)
    PROVE  /\ TrueScore \in 10..14
           /\ \A b \in Int : b > 0 /\ b # img.base => ScoreAt(b) < TrueScore /\ ScoreAt(b) < 11 /\ ScoreAt(b) \in Int
  <1> DEFINE first == TaskIn(FirstAt)
             heads == first.prev \in Heads
             fits == SecondFits(img.base, first)
  <1>1. /\ Sample \in Nat /\ Sample - img.base = FirstAt /\ FirstAt \in DOMAIN img.tasks
        /\ first = img.tasks[FirstAt] /\ IsUser(first)
        /\ (fits <=> IsTask(SecondAt))
    BY FirstFacts
  <1>2. TrueScore = 6 + Bool(heads, 4) + Bool(fits, 4)
    <2>1. IsUser(first)
      BY <1>1
    <2>2. Score(img.base, first) = 6 + Bool(heads, 4) + Bool(fits, 4)
      <3> HIDE DEF first
      <3> QED BY <2>1, ScoreBounds DEF heads, fits
    <2> QED BY <2>2 DEF TrueScore
  <1>3. heads <=> img.syms.task /\ LinksBack(FirstAt)
    <2>1. \A a \in DOMAIN img.tasks : img.tasks[a].prev \in Heads <=> img.syms.task /\ LinksBack(a)
      BY HeadFacts
    <2>2. img.tasks[FirstAt].prev \in Heads <=> img.syms.task /\ LinksBack(FirstAt)
      BY <2>1, <1>1
    <2> QED BY <2>2, <1>1
  <1>4. heads \/ fits
    BY <1>1, <1>3 DEF Anchored
  <1>5. TrueScore \in 10..14 /\ (heads /\ fits => TrueScore = 14)
    <2> HIDE DEF heads, fits
    <2> QED BY <1>2, <1>4 DEF Bool
  <1>6. ASSUME NEW b \in Int, b > 0, b # img.base
        PROVE  ScoreAt(b) < TrueScore /\ ScoreAt(b) < 11 /\ ScoreAt(b) \in Int
    <2> DEFINE a == Sample - b
               t == TaskIn(a)
    <2>0. a \in Int /\ a # FirstAt
      BY <1>1, <1>6, InitFacts
    <2>1. CASE ~Readable(b)
      BY <2>1, <1>5 DEF ScoreAt
    <2>2. CASE Readable(b) /\ a \notin DOMAIN img.tasks
      <3>1. t = [comm |-> "garbage", pid |-> 0, next |-> 0, prev |-> 0]
        BY <2>2 DEF TaskIn
      <3>2. Score(b, t) <= 8 /\ Score(b, t) \in 0..14
        <4>1. t.comm = "garbage" /\ t.pid = 0 /\ ~IsUser(t)
          BY <3>1 DEF IsUser
        <4> HIDE DEF t
        <4> QED BY <4>1, ScoreBounds
      <3>3. ScoreAt(b) = Score(b, t)
        BY <2>2 DEF ScoreAt
      <3> HIDE DEF t
      <3> QED BY <3>2, <3>3, <1>5
    <2>3. CASE Readable(b) /\ a \in DOMAIN img.tasks
      <3>1. t = img.tasks[a] /\ t \in Tasks
        BY <2>3, InitFacts DEF TaskIn
      <3>2. ~PairedAt(a)
        BY <2>0, <2>3 DEF Anchored
      <3>3. ~SecondFits(b, t)
        <4> SUFFICES ASSUME SecondFits(b, t) PROVE FALSE
          OBVIOUS
        <4>1. t.next - b \in DOMAIN img.tasks /\ img.tasks[t.next - b].prev = img.tasks[img.init].next
          BY DEF SecondFits, IsTask, Sample
        <4>2. img.tasks[a].next - (t.next - b) = img.tasks[img.init].next - a
          <5>1. Sample = img.tasks[img.init].next
            BY DEF Sample
          <5>2. t.next \in Int
            BY <3>1 DEF Tasks
          <5> QED BY <3>1, <5>1, <5>2, <1>1, <1>6
        <4> QED BY <4>1, <4>2, <3>2 DEF PairedAt
      <3>4. ScoreAt(b) = Score(b, t)
        BY <2>3 DEF ScoreAt
      <3>5. (heads /\ fits) \/ t.prev \notin Heads
        BY <1>1, <1>3, <1>4, <2>0, <2>3, <3>1, HeadFacts DEF Anchored
      <3>6. Score(b, t) \in 0..14 /\ Score(b, t) <= 10 /\ (t.prev \notin Heads => Score(b, t) <= 6)
        <4> HIDE DEF t
        <4> QED BY <3>3, ScoreBounds
      <3> HIDE DEF t, heads, fits
      <3> QED BY <3>4, <3>5, <3>6, <1>5
    <2> QED BY <2>1, <2>2, <2>3
  <1> QED BY <1>5, <1>6

\* The search starts at or above the kernel's base.
LEMMA BaseTop ==
    ASSUME img \in KernelImages, NEW s \in Nat, img.base <= s
    PROVE  ((s \div GiB) - 0) * GiB >= img.base
  <1> DEFINE q == s \div GiB
             m == img.base \div GiB
  <1>1. GiB \in Nat /\ GiB > 0 /\ img.base \in Nat /\ img.base % GiB = 0
    BY InitFacts, LocatorAssumption
  <1>2. q \in Int /\ m \in Int /\ s < (q + 1) * GiB /\ img.base = m * GiB
    <2>1. s = GiB * (s \div GiB) + (s % GiB) /\ s % GiB < GiB /\ s \div GiB \in Int /\ s % GiB \in Int
      BY <1>1
    <2>2. img.base = GiB * (img.base \div GiB) + (img.base % GiB) /\ img.base \div GiB \in Int
      BY <1>1
    <2>3. img.base = m * GiB
      BY <1>1, <2>2
    <2>4. (q + 1) * GiB = (GiB * q) + GiB /\ GiB * q \in Int
      BY <1>1, <2>1
    <2>5. s < (q + 1) * GiB
      BY <1>1, <2>1, <2>4
    <2> QED BY <2>1, <2>2, <2>3, <2>5
  <1>3. (q - 0) * GiB = q * GiB
    BY <1>1, <1>2
  <1> HIDE DEF q, m
  <1>4. m <= q
    <2> SUFFICES ASSUME m > q PROVE FALSE
      BY <1>2
    <2>1. \A d \in Int : d >= 0 => d * GiB >= 0
      BY <1>1
    <2>2. (m - (q + 1)) * GiB = (m * GiB) - ((q + 1) * GiB) /\ m - (q + 1) \in Int /\ m - (q + 1) >= 0
      BY <1>1, <1>2
    <2>3. (m - (q + 1)) * GiB >= 0
      BY <2>1, <2>2
    <2>4. m * GiB \in Int /\ (q + 1) * GiB \in Int
      BY <1>1, <1>2
    <2> QED BY <2>2, <2>3, <2>4, <1>1, <1>2
  <1>5. m * GiB <= q * GiB
    <2>1. \A d \in Int : d >= 0 => d * GiB >= 0
      BY <1>1
    <2>2. (q - m) * GiB = (q * GiB) - (m * GiB) /\ q - m \in Int /\ q - m >= 0
      BY <1>1, <1>2, <1>4
    <2>3. m * GiB \in Int /\ q * GiB \in Int
      BY <1>1, <1>2
    <2> QED BY <2>1, <2>2, <2>3
  <1>6. m * GiB \in Int /\ q * GiB \in Int
    BY <1>1, <1>2
  <1>7. (q - 0) * GiB >= img.base
    BY <1>2, <1>3, <1>5, <1>6
  <1> QED BY <1>7 DEF q

\* init_task is the lowest hit that looks like it.
LEMMA TakeTaskKeeps ==
    ASSUME LocatorIInv, TakeTask
    PROVE  LocatorIInv'
  <1> DEFINE a == Least(hits)
  <1>1. /\ img' = img /\ banners' = banners /\ best' = best /\ phase = "task" /\ best = NoBest /\ ctx = NoCtx
        /\ img \in KernelImages /\ pos \in Nat /\ hits \subseteq Swappers /\ hits # {} /\ banners \subseteq Banners
        /\ best \in [base : Int, score : Int]
    BY DEF TakeTask, LocatorIInv, LocatorType, Scanning
  <1>2. a \in hits /\ \A b \in hits : a <= b
    <2>1. img.max - 1 \in Int /\ hits \in SUBSET (0..(img.max - 1))
      BY <1>1, CellFacts, InitFacts
    <2> QED BY <1>1, <2>1, LeastCell
  <1>3. /\ a \in Swappers /\ a \in Int /\ a \in DOMAIN img.tasks /\ img.tasks[a].comm = "swapper"
    BY <1>1, <1>2, CellFacts, InitFacts
  <1>4. InitSeen => img.init \in hits
    BY <1>1 DEF LocatorIInv, TaskFound
  <1>5. CASE LooksInit(img.tasks[a])
    <2>1. /\ phase' = "base" /\ pos' = 0 /\ hits' = hits
          /\ ctx' = [ctx EXCEPT !.task = a, !.shift = TaskShift(a), !.virt = TaskShift(a)]
      BY <1>5 DEF TakeTask
    <2>2. TaskShift(a) \in Int
      BY <1>3, LocatorAssumption DEF TaskShift
    <2>3. ctx' \in Contexts /\ ctx'.task = a /\ ctx'.virt = TaskShift(a) /\ ~ctx'.validated
      <3> HIDE DEF a
      <3>1. NoCtx \in Contexts /\ ~NoCtx.validated
        BY DEF NoCtx, Contexts, Strategies
      <3>2. ctx \in Contexts /\ ~ctx.validated
        BY <3>1, <1>1
      <3> QED BY <2>1, <2>2, <3>2, <1>3 DEF Contexts
    <2>4. TaskShift(ctx.task)' = ctx'.virt
      BY <2>3, <1>1 DEF TaskShift
    <2>5. LocatorType'
      <3>1. ctx'.task \in Swappers' /\ LooksInit(img'.tasks[ctx'.task])
        BY <2>3, <1>1, <1>3, <1>5, SameImage
      <3> HIDE DEF a
      <3> QED
        BY <2>1, <2>3, <2>4, <3>1, <1>1, SameImage DEF LocatorType, Scanning, Located
    <2>6. InitSeen => a = img.init
      <3> SUFFICES ASSUME InitSeen PROVE a = img.init
        OBVIOUS
      <3>1. a <= img.init
        BY <1>2, <1>4
      <3>2. img.init <= a
        BY <1>3, <1>5 DEF InitSeen, IsInit
      <3> QED BY <3>1, <3>2, <1>3, <1>1, InitFacts
    <2>7. TaskFound'
      BY <2>1, <2>3, <2>6, <1>1, SameImage DEF TaskFound, Located
    <2>8. BaseFound'
      <3> SUFFICES ASSUME InitSeen PROVE BaseAt(pos)' >= img.base /\ best'.score < TrueScore'
        BY <2>1, <1>1, SameImage DEF BaseFound
      <3>1. PICK s : s = img.tasks[img.init].next
        OBVIOUS
      <3>2. s \in Nat /\ img.base <= s
        BY <3>1, <1>1, ImageFacts, InitFacts DEF KernelImage, Linked, Tasks
      <3>3. ((s \div GiB) - 0) * GiB >= img.base
        BY <3>2, <1>1, BaseTop
      <3>4. Sample' = s
        BY <3>1, <2>3, <2>6, <1>1 DEF Sample
      <3>5. BaseAt(pos)' = ((s \div GiB) - 0) * GiB
        BY <3>4, <2>1 DEF BaseAt
      <3>6. TrueScore' \in Nat
        BY DEF TrueScore, Score, Bool
      <3>7. best'.score = -1
        BY <1>1 DEF NoBest
      <3> QED BY <3>3, <3>5, <3>6, <3>7
    <2> QED
      BY <2>1, <2>5, <2>7, <2>8 DEF LocatorIInv, DirectoryFound
  <1>6. CASE ~LooksInit(img.tasks[a])
    <2>1. hits' = hits \ {a} /\ ctx' = ctx /\ pos' = pos /\ phase' = phase
      BY <1>6 DEF TakeTask
    <2>2. LocatorType'
      BY <1>1, <2>1, SameImage DEF LocatorIInv, LocatorType, Scanning, Located
    <2>3. InitSeen => img.init \in hits'
      <3>1. LooksInit(img.tasks[img.init])
        BY <1>1, InitFacts
      <3> QED BY <3>1, <2>1, <1>4, <1>6
    <2>4. TaskFound'
      BY <2>1, <2>3, <1>1, SameImage DEF TaskFound, Located
    <2> QED
      BY <2>1, <2>2, <2>4, <1>1 DEF LocatorIInv, BaseFound, DirectoryFound, Located
  <1> QED BY <1>5, <1>6

LEMMA NoTaskKeeps ==
    ASSUME LocatorIInv, NoTask
    PROVE  LocatorIInv'
  <1>1. /\ img' = img /\ pos' = pos /\ banners' = banners /\ hits' = hits /\ best' = best /\ ctx' = ctx
        /\ phase = "task" /\ phase' = "error"
    BY DEF NoTask
  <1>2. LocatorType'
    BY <1>1, SameImage DEF LocatorIInv, LocatorType, Scanning, Located
  <1> QED
    BY <1>1, <1>2 DEF LocatorIInv, TaskFound, BaseFound, DirectoryFound, Located

LEMMA TryBaseKeeps ==
    ASSUME LocatorIInv, TryBase
    PROVE  LocatorIInv'
  <1> DEFINE b == BaseAt(pos)
             n == ScoreAt(b)
  <1>1. /\ img' = img /\ banners' = banners /\ hits' = hits /\ ctx' = ctx /\ pos' = pos + 1
        /\ phase = "base" /\ pos < MaxTries /\ b > 0
        /\ best' = IF n > best.score THEN [base |-> b, score |-> n] ELSE best
        /\ phase' = IF n >= 11 THEN "based" ELSE phase
    BY DEF TryBase
  <1>2. /\ img \in KernelImages /\ pos \in Nat /\ best \in [base : Int, score : Int]
        /\ ctx.task \in Swappers /\ LooksInit(img.tasks[ctx.task]) /\ ctx.virt = TaskShift(ctx.task)
    BY <1>1 DEF LocatorIInv, LocatorType, Located
  <1>3. Sample \in Nat
    BY <1>2, CellFacts, InitFacts DEF Sample, Tasks
  <1>4. b \in Int /\ BaseAt(pos + 1) = b - GiB /\ (b > img.base => b - GiB >= img.base)
    BY <1>2, <1>3, BaseSteps
  <1>5. n \in Int
    BY ScoreBounds DEF ScoreAt
  <1>6. best' \in [base : Int, score : Int]
    <2> HIDE DEF b, n
    <2> QED BY <1>1, <1>2, <1>4, <1>5
  <1>7. TaskShift(ctx.task)' = TaskShift(ctx.task)
    BY <1>1 DEF TaskShift
  <1>8. LocatorType'
    <2> HIDE DEF b, n
    <2> QED BY <1>1, <1>2, <1>6, <1>7, SameImage DEF LocatorIInv, LocatorType, Scanning, Located
  <1>9. TaskFound'
    <2> HIDE DEF b, n
    <2> QED BY <1>1, SameImage DEF LocatorIInv, TaskFound, Located
  <1>10. BaseFound'
    <2> SUFFICES ASSUME InitSeen, Anchored
                 PROVE  /\ phase' = "base" =>
                              \/ BaseAt(pos)' >= img.base /\ best'.score < TrueScore
                              \/ BaseAt(pos)' < img.base /\ best' = [base |-> img.base, score |-> TrueScore]
                        /\ phase' = "based" => best'.base = img.base
      <3>1. TrueScore' = TrueScore
        BY <1>1 DEF TrueScore, Score, Bool, TaskIn, FirstAt, FirstOf, Heads, SecondFits, IsTask, Captured, Sample
      <3>2. phase' \in {"base", "based"}
        <4> HIDE DEF b, n
        <4> QED BY <1>1
      <3> HIDE DEF b, n
      <3> QED BY <3>1, <3>2, <1>1, SameImage DEF BaseFound
    <2>1. ctx.task = img.init
      BY <1>1 DEF LocatorIInv, TaskFound, Located
    <2>2. /\ TrueScore \in 10..14
          /\ \A c \in Int : c > 0 /\ c # img.base => ScoreAt(c) < TrueScore /\ ScoreAt(c) < 11 /\ ScoreAt(c) \in Int
      BY <1>2, <2>1, TrueScoreWins
    <2>3. ScoreAt(img.base) = TrueScore
      BY <1>2, <2>1, FirstFacts
    <2>4. BaseAt(pos)' = b - GiB
      <3>1. Sample' = Sample
        BY <1>1 DEF Sample
      <3>2. BaseAt(pos)' = BaseAt(pos + 1)
        BY <3>1, <1>1 DEF BaseAt
      <3> QED BY <3>2, <1>4
    <2>5. \/ b >= img.base /\ best.score < TrueScore
          \/ b < img.base /\ best = [base |-> img.base, score |-> TrueScore]
      BY <1>1 DEF LocatorIInv, BaseFound
    <2>6. /\ b = img.base => n = TrueScore
          /\ b # img.base => n < TrueScore /\ n < 11
      BY <2>2, <2>3, <1>1, <1>4
    <2>7. img.base \in Int /\ GiB \in Nat /\ GiB > 0 /\ best.score \in Int
      BY <1>2, InitFacts, LocatorAssumption
    <2> HIDE DEF b, n
    <2>8. CASE b > img.base
      BY <2>8, <2>2, <2>4, <2>5, <2>6, <2>7, <1>1, <1>4, <1>5
    <2>9. CASE b = img.base
      BY <2>9, <2>2, <2>4, <2>5, <2>6, <2>7, <1>1, <1>4, <1>5
    <2>10. CASE b < img.base
      <3>1. best' = best /\ phase' = "base" /\ best = [base |-> img.base, score |-> TrueScore]
        BY <2>10, <2>2, <2>5, <2>6, <2>7, <1>1, <1>4, <1>5
      <3> QED BY <3>1, <2>10, <2>4, <2>7, <1>4
    <2> QED BY <2>8, <2>9, <2>10, <2>7, <1>4
  <1> QED
    <2>1. phase' \in {"base", "based"}
      <3> HIDE DEF b, n
      <3> QED BY <1>1
    <2> QED BY <2>1, <1>8, <1>9, <1>10 DEF LocatorIInv, DirectoryFound

\* Within MaxTries bases is the kernel's.
LEMMA BasesOverKeeps ==
    ASSUME LocatorIInv, BasesOver
    PROVE  LocatorIInv'
  <1>1. /\ img' = img /\ pos' = pos /\ banners' = banners /\ hits' = hits /\ best' = best /\ ctx' = ctx
        /\ phase = "base" /\ phase' \in {"based", "error"} /\ (pos >= MaxTries \/ BaseAt(pos) <= 0)
    BY DEF BasesOver
  <1>2. /\ img \in KernelImages /\ pos \in Nat /\ ctx.task \in Swappers /\ ctx.virt = TaskShift(ctx.task)
    BY <1>1 DEF LocatorIInv, LocatorType, Located
  <1>3. TaskShift(ctx.task)' = TaskShift(ctx.task)
    BY <1>1 DEF TaskShift
  <1>4. LocatorType'
    BY <1>1, <1>3, SameImage DEF LocatorIInv, LocatorType, Scanning, Located
  <1>5. TaskFound'
    BY <1>1, SameImage DEF LocatorIInv, TaskFound, Located
  <1>6. BaseFound'
    <2> SUFFICES ASSUME InitSeen, Anchored PROVE best.base = img.base
      BY <1>1, SameImage DEF BaseFound
    <2>1. ctx.task = img.init
      BY <1>1 DEF LocatorIInv, TaskFound, Located
    <2>2. \/ BaseAt(pos) >= img.base
          \/ best = [base |-> img.base, score |-> TrueScore]
      BY <1>1 DEF LocatorIInv, BaseFound
    <2>3. ~(BaseAt(pos) >= img.base)
      <3>1. Sample \in Nat /\ Sample - img.base = FirstAt
        BY <1>2, <2>1, FirstFacts
      <3>2. BaseAt(pos) \in Int /\ BaseAt(pos) + pos * GiB <= Sample
        BY <1>2, <3>1, BaseSteps
      <3>3. FirstAt < MaxTries * GiB /\ MaxTries \in Nat /\ GiB \in Nat /\ img.base \in Nat /\ img.base > 0
        BY <1>2, InitFacts, LocatorAssumption DEF Anchored
      <3>4. pos >= MaxTries => pos * GiB >= MaxTries * GiB
        <4>1. \A d \in Int : d >= 0 => d * GiB >= 0
          BY <3>3
        <4>2. (pos - MaxTries) * GiB = (pos * GiB) - (MaxTries * GiB) /\ pos - MaxTries \in Int
          BY <3>3, <1>2
        <4>3. pos * GiB \in Int /\ MaxTries * GiB \in Int
          BY <3>3, <1>2
        <4>4. pos >= MaxTries => pos - MaxTries >= 0
          BY <3>3, <1>2
        <4> QED BY <4>1, <4>2, <4>3, <4>4
      <3>5. pos * GiB \in Int /\ MaxTries * GiB \in Int
        BY <3>3, <1>2
      <3> QED BY <3>1, <3>2, <3>3, <3>4, <3>5, <1>1
    <2> QED BY <2>2, <2>3
  <1> QED
    BY <1>1, <1>4, <1>5, <1>6 DEF LocatorIInv, DirectoryFound

-----------------------------------------------------------------------------
\* The candidates for the page directory.
Resolving ==
    /\ img \in KernelImages /\ banners \subseteq Banners
    /\ ctx.task \in Swappers /\ LooksInit(img.tasks[ctx.task])

LEMMA ShiftFacts ==
    ASSUME Resolving
    PROVE  /\ \A a \in banners : ShiftOf(a) \in Int
           /\ banners \in SUBSET (0..(img.max - 1)) /\ img.max - 1 \in Int
           /\ banners # {} => Least(banners) \in banners
           /\ Aligned # {} => Least(Aligned) \in Aligned
           /\ OwnShift \in Int /\ BestShift \in Int
  <1>1. banners \in SUBSET (0..(img.max - 1)) /\ img.max - 1 \in Int
    BY CellFacts, InitFacts DEF Resolving
  <1>2. \A a \in banners : ShiftOf(a) \in Int
    BY <1>1, LocatorAssumption DEF ShiftOf
  <1>3. banners # {} => Least(banners) \in banners
    BY <1>1, LeastCell
  <1>4. Aligned # {} => Least(Aligned) \in Aligned
    <2>1. Aligned \in SUBSET (0..(img.max - 1))
      BY <1>1 DEF Aligned
    <2> QED BY <1>1, <2>1, LeastCell
  <1>5. OwnShift \in Int
    BY CellFacts, InitFacts, LocatorAssumption DEF OwnShift, Resolving
  <1>6. BestShift \in Int
    BY <1>2, <1>3, <1>4, <1>5 DEF BestShift, Aligned
  <1> QED BY <1>1, <1>2, <1>3, <1>4, <1>5, <1>6

\* An address in the dump is one of the machine's.
LEMMA AddressFacts ==
    ASSUME img \in KernelImages
    PROVE  /\ \A n \in Int : Address(n) \in 0..(Wrap - 1)
           /\ \A n \in 0..(img.max - 1) : Address(n) = n
  <1>1. Wrap \in Nat /\ Wrap > 0 /\ img.max \in Nat /\ img.max <= Wrap
    BY InitFacts, LocatorAssumption
  <1>2. \A n \in Int : n % Wrap \in 0..(Wrap - 1)
    BY <1>1
  <1>3. \A n \in 0..(Wrap - 1) : n % Wrap = n
    BY <1>1
  <1> QED BY <1>1, <1>2, <1>3 DEF Address

LEMMA BruteFacts ==
    ASSUME Resolving, Brute # {}
    PROVE  Least(Brute) \in Brute /\ Least(Brute) \in 0..(img.max - 1)
  <1>1. Brute \in SUBSET (0..(img.max - 1)) /\ img.max - 1 \in Int
    BY InitFacts DEF Resolving, Brute, Validates, Captured
  <1>2. Least(Brute) \in Brute
    BY <1>1, LeastCell
  <1> QED BY <1>1, <1>2

LEMMA CandidateFacts ==
    ASSUME Resolving, NEW c \in Candidates
    PROVE  /\ c.dtb \in 0..(Wrap - 1) /\ c.shift \in Int /\ c.strategy \in Strategies
           /\ \/ \E a \in Aligned : c.shift = ShiftOf(a)
              \/ c.shift = OwnShift
              \/ Brute # {} /\ c.shift = BestShift
  <1>0. /\ \A n \in Int : Address(n) \in 0..(Wrap - 1)
        /\ \A n \in 0..(img.max - 1) : Address(n) = n
        /\ PgtAt \in Nat
    BY AddressFacts, LocatorAssumption DEF Resolving
  <1>1. CASE c \in FromBanners
    <2>1. PICK a \in Aligned : c = Candidate(PgtAt + ShiftOf(a), ShiftOf(a), "banner")
      BY <1>1 DEF FromBanners
    <2>2. ShiftOf(a) \in Int
      BY ShiftFacts DEF Aligned
    <2>3. Address(PgtAt + ShiftOf(a)) \in 0..(Wrap - 1)
      <3>1. PgtAt + ShiftOf(a) \in Int
        BY <1>0, <2>2
      <3> QED BY <1>0, <3>1
    <2> QED BY <2>1, <2>2, <2>3 DEF Candidate, Strategies
  <1>2. CASE c \in FromTask
    <2>1. c = Candidate(PgtAt + OwnShift, OwnShift, "init_task")
      BY <1>2 DEF FromTask
    <2>2. OwnShift \in Int
      BY ShiftFacts
    <2>3. Address(PgtAt + OwnShift) \in 0..(Wrap - 1)
      <3>1. PgtAt + OwnShift \in Int
        BY <1>0, <2>2
      <3> QED BY <1>0, <3>1
    <2> QED BY <2>1, <2>2, <2>3 DEF Candidate, Strategies
  <1>3. CASE c \in FromBrute
    <2>1. c = Candidate(Least(Brute), BestShift, "brute-force") /\ Brute # {}
      BY <1>3 DEF FromBrute
    <2>2. BestShift \in Int
      BY ShiftFacts
    <2>3. Address(Least(Brute)) \in 0..(Wrap - 1)
      <3>1. Least(Brute) \in 0..(img.max - 1)
        BY <2>1, BruteFacts
      <3>2. Least(Brute) \in Int
        BY <3>1
      <3> QED BY <1>0, <3>2
    <2> QED BY <2>1, <2>2, <2>3 DEF Candidate, Strategies
  <1> QED BY <1>1, <1>2, <1>3 DEF Candidates

\* What validates is where the kernel is.
LEMMA RightShift ==
    ASSUME Resolving, BannerSeen, OneKernel, NEW c \in Candidates, Validates(c.dtb, c.shift)
    PROVE  c.shift = img.shift
  <1>1. c.dtb \in DOMAIN img.pgds /\ img.pgds[c.dtb].maps = c.shift /\ c.shift % Align = 0
    BY InitFacts DEF Validates, Resolving
  <1>2. c.shift = OwnShift => c.shift = img.shift
    <2>1. ctx.task \in DOMAIN img.tasks /\ IsInit(ctx.task)
      BY CellFacts DEF Resolving, IsInit
    <2>2. c.shift = OwnShift => ctx.task = img.init
      BY <1>1, <2>1 DEF OneKernel, OwnShift
    <2> QED BY <2>2, InitFacts, LocatorAssumption DEF OwnShift, Resolving
  <1>3. \A a \in Aligned : ShiftOf(a) = img.shift
    BY DEF BannerSeen
  <1>4. c.shift = BestShift => c.shift = img.shift
    <2>1. CASE Aligned # {} /\ ShiftOf(Least(Aligned)) # 0
      BY <2>1, <1>3, ShiftFacts DEF BestShift
    <2>2. CASE ~(Aligned # {} /\ ShiftOf(Least(Aligned)) # 0) /\ img.syms.pgt /\ OwnShift # 0
      BY <2>2, <1>2 DEF BestShift
    <2>3. CASE ~(Aligned # {} /\ ShiftOf(Least(Aligned)) # 0) /\ ~(img.syms.pgt /\ OwnShift # 0)
      <3>1. banners # {}
        BY DEF BannerSeen
      <3>2. BestShift = ShiftOf(Least(banners)) /\ Least(banners) \in banners
        BY <2>3, <3>1, ShiftFacts DEF BestShift
      <3>3. c.shift = BestShift => Least(banners) \in Aligned
        BY <3>2, <1>1 DEF Aligned
      <3> QED BY <3>2, <3>3, <1>3
    <2> QED BY <2>1, <2>2, <2>3
  <1> QED BY <1>2, <1>3, <1>4, CandidateFacts

\* All candidates are for the kernel's shift, and the brute force finds one
\* whenever there is one.
LEMMA OneValidates ==
    ASSUME Resolving, BannerSeen, ctx.task = img.init,
           img.shift # 0 \/ Least(banners) \in Aligned,
           \E d \in DOMAIN img.pgds : img.pgds[d].sane /\ Validates(d, img.shift)
    PROVE  /\ \A c \in Candidates : c.shift = img.shift
           /\ \E c \in Candidates : Validates(c.dtb, c.shift)
  <1>1. OwnShift = img.shift
    BY InitFacts, LocatorAssumption DEF OwnShift, Resolving
  <1>2. \A a \in Aligned : ShiftOf(a) = img.shift
    BY DEF BannerSeen
  <1>3. Aligned # {}
    <2>1. ShiftOf(BannerAt + img.shift) = img.shift
      BY InitFacts, LocatorAssumption DEF ShiftOf, BannerSeen, Resolving
    <2>2. BannerAt + img.shift \in Aligned
      BY <2>1, InitFacts DEF Aligned, BannerSeen, Resolving
    <2> QED BY <2>2
  <1>4. BestShift = img.shift
    <2>1. Least(Aligned) \in Aligned
      BY <1>3, ShiftFacts
    <2>2. CASE img.shift # 0
      BY <2>1, <2>2, <1>2, <1>3 DEF BestShift
    <2>3. CASE img.shift = 0
      <3>1. Least(banners) \in Aligned /\ banners # {}
        BY <2>3, <1>3 DEF Aligned
      <3> QED BY <2>1, <2>3, <3>1, <1>1, <1>2 DEF BestShift
    <2> QED BY <2>2, <2>3
  <1>5. \A c \in Candidates : c.shift = img.shift
    BY <1>1, <1>2, <1>4, CandidateFacts
  <1>6. Brute # {}
    BY <1>4 DEF Brute
  <1>7. Least(Brute) \in Brute /\ Address(Least(Brute)) = Least(Brute)
    BY <1>6, BruteFacts, AddressFacts DEF Resolving
  <1> DEFINE c == Candidate(Least(Brute), BestShift, "brute-force")
  <1>8. c \in Candidates
    BY <1>6 DEF Candidates, FromBrute
  <1>9. c.dtb = Least(Brute) /\ c.shift = BestShift
    BY <1>7 DEF Candidate
  <1>10. Validates(Least(Brute), BestShift)
    BY <1>7 DEF Brute
  <1>11. Validates(c.dtb, c.shift)
    <2> HIDE DEF c
    <2> QED BY <1>9, <1>10
  <1> QED BY <1>5, <1>8, <1>11

LEMMA LowestFacts ==
    ASSUME NEW C, C # {}, \A c \in C : c.dtb \in 0..(Wrap - 1)
    PROVE  Lowest(C) \in C
  <1> DEFINE S == {c.dtb : c \in C}
  <1>1. S \in SUBSET (0..(Wrap - 1)) /\ S # {} /\ Wrap - 1 \in Int
    BY LocatorAssumption
  <1>2. Least(S) \in S /\ \A a \in S : Least(S) <= a
    <2> HIDE DEF S
    <2> QED BY <1>1, LeastCell
  <1>3. PICK c \in C : c.dtb = Least(S)
    BY <1>2
  <1>4. \A d \in C : c.dtb <= d.dtb
    BY <1>2, <1>3
  <1> QED BY <1>4 DEF Lowest

LEMMA PickFacts ==
    ASSUME Resolving, NEW C \in Deduplicated, C # {}
    PROVE  /\ Pick(C) \in Candidates
           /\ (\E c \in C : Validates(c.dtb, c.shift)) => Validates(Pick(C).dtb, Pick(C).shift)
  <1>1. C \subseteq Candidates
    BY DEF Deduplicated
  <1>2. \A c \in C : c.dtb \in 0..(Wrap - 1)
    BY <1>1, CandidateFacts
  <1>3. Lowest(C) \in C
    BY <1>2, LowestFacts
  <1>4. Valid(C) # {} => Lowest(Valid(C)) \in Valid(C)
    <2>1. \A c \in Valid(C) : c.dtb \in 0..(Wrap - 1)
      BY <1>2 DEF Valid
    <2> QED BY <2>1, LowestFacts
  <1>5. CASE Valid(C) # {}
    BY <1>1, <1>4, <1>5 DEF Pick, Valid
  <1>6. CASE Valid(C) = {}
    BY <1>1, <1>3, <1>6 DEF Pick, Valid
  <1> QED BY <1>5, <1>6

\* What depends on the image and the banners only.
LEMMA SameBanners ==
    ASSUME img' = img, banners' = banners
    PROVE  /\ BannerSeen' = BannerSeen /\ Aligned' = Aligned /\ Least(banners)' = Least(banners)
           /\ \A d, v : Validates(d, v)' = Validates(d, v)
  BY DEF BannerSeen, Aligned, ShiftOf, Least, Validates, Captured

LEMMA ResolveKeeps ==
    ASSUME LocatorIInv, Resolve
    PROVE  LocatorIInv'
  <1>1. /\ img' = img /\ pos' = pos /\ banners' = banners /\ hits' = hits /\ best' = best
        /\ phase = "based" /\ phase' = "banner"
    BY DEF Resolve
  <1>2. /\ Resolving /\ img \in KernelImages /\ ctx \in Contexts /\ ~ctx.validated /\ best \in [base : Int, score : Int]
    BY <1>1 DEF LocatorIInv, LocatorType, Located, Resolving
  <1>3. ctx' \in Contexts /\ ctx'.task = ctx.task /\ ctx'.base = best.base /\ (img.syms.task => DirectoryMaps')
    <2>1. CASE ~img.syms.task
      <3>1. ctx' = [ctx EXCEPT !.base = best.base, !.strategy = "btf-types-only"]
        BY <2>1 DEF Resolve
      <3> QED BY <3>1, <2>1, <1>2 DEF Contexts, Strategies
    <2>2. CASE img.syms.task
      <3>1. PICK C \in Deduplicated :
              ctx' = IF C = {} THEN [ctx EXCEPT !.base = best.base]
                     ELSE [ctx EXCEPT !.base = best.base,
                                      !.dtb = Pick(C).dtb, !.shift = Pick(C).shift, !.virt = Pick(C).shift,
                                      !.strategy = Pick(C).strategy,
                                      !.validated = Validates(Pick(C).dtb, Pick(C).shift)]
        BY <2>2 DEF Resolve, ResolveDtb
      <3>2. \A c \in Candidates : \E d \in C : d.dtb = c.dtb
        BY DEF Deduplicated
      <3>3. C \subseteq Candidates
        BY DEF Deduplicated
      <3>4. /\ BannerSeen' = BannerSeen /\ OneKernel' = OneKernel /\ InitSeen' = InitSeen /\ Aligned' = Aligned
            /\ Least(banners)' = Least(banners) /\ \A d, v : Validates(d, v)' = Validates(d, v)
        BY <1>1, SameImage, SameBanners
      <3> DEFINE Seen == /\ InitSeen /\ (img.shift # 0 \/ Least(banners) \in Aligned)
                         /\ \E d \in DOMAIN img.pgds : img.pgds[d].sane /\ Validates(d, img.shift)
      <3>5. BannerSeen /\ Seen => \E c \in C : Validates(c.dtb, c.shift)
        <4> SUFFICES ASSUME BannerSeen, Seen PROVE \E c \in C : Validates(c.dtb, c.shift)
          OBVIOUS
        <4>1. ctx.task = img.init
          BY <1>1 DEF LocatorIInv, TaskFound, Located
        <4>2. /\ \A c \in Candidates : c.shift = img.shift
              /\ \E c \in Candidates : Validates(c.dtb, c.shift)
          BY <4>1, <1>2, OneValidates
        <4>3. PICK c \in Candidates : Validates(c.dtb, c.shift)
          BY <4>2
        <4>4. PICK d \in C : d.dtb = c.dtb
          BY <3>2
        <4>5. d.shift = c.shift
          BY <4>2, <3>3
        <4> QED BY <4>3, <4>4, <4>5
      <3>6. (BannerSeen /\ Seen)' = (BannerSeen /\ Seen)
        BY <3>4, <1>1
      <3>7. CASE C = {}
        <4>1. ctx' = [ctx EXCEPT !.base = best.base]
          BY <3>1, <3>7
        <4>2. ctx' \in Contexts /\ ctx'.task = ctx.task /\ ctx'.base = best.base /\ ~ctx'.validated
          BY <4>1, <1>2 DEF Contexts
        <4>3. ~(BannerSeen /\ Seen)
          BY <3>5, <3>7
        <4>4. DirectoryMaps'
          BY <4>2, <4>3, <3>6 DEF DirectoryMaps
        <4> QED BY <4>2, <4>4
      <3>8. CASE C # {}
        <4>1. PICK p : p = Pick(C)
          OBVIOUS
        <4>2. p \in Candidates /\ ((\E c \in C : Validates(c.dtb, c.shift)) => Validates(p.dtb, p.shift))
          BY <4>1, <3>8, <1>2, PickFacts
        <4>3. p.dtb \in Int /\ p.shift \in Int /\ p.strategy \in Strategies
          <5>1. p.dtb \in 0..(Wrap - 1) /\ p.shift \in Int /\ p.strategy \in Strategies
            BY <4>2, <1>2, CandidateFacts
          <5> QED BY <5>1
        <4>4. PICK v \in BOOLEAN : v <=> Validates(p.dtb, p.shift)
          OBVIOUS
        <4>5. /\ ctx' \in Contexts /\ ctx'.task = ctx.task /\ ctx'.base = best.base
              /\ ctx'.dtb = p.dtb /\ ctx'.virt = p.shift
              /\ (ctx'.validated <=> Validates(p.dtb, p.shift))
          <5>1. ctx' = [ctx EXCEPT !.base = best.base, !.dtb = p.dtb, !.shift = p.shift, !.virt = p.shift,
                                   !.strategy = p.strategy, !.validated = Validates(p.dtb, p.shift)]
            BY <3>1, <3>8, <4>1
          <5>2. Validates(p.dtb, p.shift) = v
            BY <4>4 DEF Validates
          <5>3. ctx' = [ctx EXCEPT !.base = best.base, !.dtb = p.dtb, !.shift = p.shift, !.virt = p.shift,
                                   !.strategy = p.strategy, !.validated = v]
            BY <5>1, <5>2
          <5>4. v \in BOOLEAN
            OBVIOUS
          <5> QED BY <5>3, <5>4, <4>3, <4>4, <1>2 DEF Contexts
        <4>6. Validates(ctx.dtb, ctx.virt)' <=> Validates(p.dtb, p.shift)
          BY <4>5, <1>1 DEF Validates, Captured
        <4>7. BannerSeen /\ OneKernel /\ Validates(p.dtb, p.shift) => p.shift = img.shift
          BY <4>2, <1>2, RightShift
        <4>8. DirectoryMaps'
          <5>1. ctx'.validated => Validates(ctx.dtb, ctx.virt)'
            BY <4>5, <4>6
          <5>2. (BannerSeen /\ OneKernel)' /\ ctx'.validated => ctx'.virt = img'.shift
            BY <4>5, <4>7, <3>4, <1>1
          <5>3. (BannerSeen /\ Seen)' => ctx'.validated
            BY <4>2, <4>5, <3>5, <3>6
          <5> QED BY <5>1, <5>2, <5>3 DEF DirectoryMaps
        <4> QED BY <4>5, <4>8
      <3> QED BY <3>7, <3>8
    <2> QED BY <2>1, <2>2
  <1>4. LocatorType'
    <2>1. ctx'.task \in Swappers' /\ LooksInit(img'.tasks[ctx'.task])
      BY <1>1, <1>2, <1>3, SameImage DEF Resolving
    <2> QED
      BY <2>1, <1>1, <1>3, SameImage DEF LocatorIInv, LocatorType, Scanning, Located
  <1>5. TaskFound'
    BY <1>1, <1>3, SameImage DEF LocatorIInv, TaskFound, Located
  <1>6. BaseFound'
    BY <1>1, <1>3, SameImage DEF LocatorIInv, BaseFound
  <1> QED
    BY <1>1, <1>3, <1>4, <1>5, <1>6 DEF LocatorIInv, DirectoryFound

LEMMA TakeBannerKeeps ==
    ASSUME LocatorIInv, TakeBanner
    PROVE  LocatorIInv'
  <1> DEFINE at == CASE img.syms.banner -> BannerAt + ctx.shift
                     [] ~img.syms.banner /\ banners # {} -> Least(banners)
                     [] OTHER -> -1
  <1>1. /\ img' = img /\ pos' = pos /\ banners' = banners /\ hits' = hits /\ best' = best
        /\ phase = "banner" /\ phase' = "done" /\ ctx' = [ctx EXCEPT !.banner = at]
    BY DEF TakeBanner
  <1>2. Resolving /\ ctx \in Contexts
    BY <1>1 DEF LocatorIInv, LocatorType, Located, Resolving
  <1>3. at \in Int
    <2>1. CASE img.syms.banner
      BY <2>1, <1>2, LocatorAssumption DEF Contexts
    <2>2. CASE ~img.syms.banner /\ banners # {}
      BY <2>2, <1>2, ShiftFacts
    <2>3. CASE ~img.syms.banner /\ banners = {}
      BY <2>3
    <2> QED BY <2>1, <2>2, <2>3
  <1>4. /\ ctx' \in Contexts /\ ctx'.task = ctx.task /\ ctx'.base = ctx.base /\ ctx'.dtb = ctx.dtb
        /\ ctx'.virt = ctx.virt /\ ctx'.validated = ctx.validated
    <2> HIDE DEF at
    <2> QED BY <1>1, <1>2, <1>3 DEF Contexts
  <1> HIDE DEF at
  <1>5. LocatorType'
    <2>1. ctx'.task \in Swappers' /\ LooksInit(img'.tasks[ctx'.task])
      BY <1>1, <1>2, <1>4, SameImage DEF Resolving
    <2> QED
      BY <2>1, <1>1, <1>4, SameImage DEF LocatorIInv, LocatorType, Scanning, Located
  <1>6. TaskFound'
    BY <1>1, <1>4, SameImage DEF LocatorIInv, TaskFound, Located
  <1>7. BaseFound'
    BY <1>1, <1>4, SameImage DEF LocatorIInv, BaseFound
  <1>8. img.syms.task => DirectoryMaps'
    <2>1. img.syms.task => DirectoryMaps
      BY <1>1 DEF LocatorIInv, DirectoryFound
    <2>2. Validates(ctx.dtb, ctx.virt)' <=> Validates(ctx.dtb, ctx.virt)
      BY <1>1, <1>4 DEF Validates, Captured
    <2>3. /\ BannerSeen' = BannerSeen /\ OneKernel' = OneKernel /\ InitSeen' = InitSeen /\ Aligned' = Aligned
          /\ Least(banners)' = Least(banners) /\ \A d, v : Validates(d, v)' = Validates(d, v)
      BY <1>1, SameImage, SameBanners
    <2>4. DirectoryMaps' <=> DirectoryMaps
      BY <2>2, <2>3, <1>1, <1>4 DEF DirectoryMaps
    <2> QED BY <2>1, <2>4
  <1> QED
    BY <1>1, <1>5, <1>6, <1>7, <1>8 DEF LocatorIInv, DirectoryFound

LEMMA LocatorStutters ==
    ASSUME LocatorIInv, UNCHANGED locatorVars
    PROVE  LocatorIInv'
  <1>1. /\ img' = img /\ phase' = phase /\ pos' = pos /\ banners' = banners /\ hits' = hits /\ best' = best
        /\ ctx' = ctx
    BY DEF locatorVars
  <1>2. TaskShift(ctx.task)' = TaskShift(ctx.task)
    BY <1>1 DEF TaskShift
  <1>3. LocatorType'
    BY <1>1, <1>2, SameImage DEF LocatorIInv, LocatorType
  <1>4. TaskFound'
    BY <1>1, SameImage DEF LocatorIInv, TaskFound
  <1>5. BaseFound'
    <2>1. TrueScore' = TrueScore
      BY <1>1 DEF TrueScore, Score, Bool, TaskIn, FirstAt, FirstOf, Heads, SecondFits, IsTask, Captured, Sample
    <2>2. BaseAt(pos)' = BaseAt(pos)
      BY <1>1 DEF BaseAt, Sample
    <2> QED BY <2>1, <2>2, <1>1, SameImage DEF LocatorIInv, BaseFound
  <1>6. DirectoryFound'
    <2>1. /\ BannerSeen' = BannerSeen /\ OneKernel' = OneKernel /\ InitSeen' = InitSeen /\ Aligned' = Aligned
          /\ Least(banners)' = Least(banners) /\ \A d, v : Validates(d, v)' = Validates(d, v)
      BY <1>1, SameImage, SameBanners
    <2>2. Validates(ctx.dtb, ctx.virt)' <=> Validates(ctx.dtb, ctx.virt)
      BY <1>1 DEF Validates, Captured
    <2> QED BY <2>1, <2>2, <1>1 DEF LocatorIInv, DirectoryFound, DirectoryMaps
  <1> QED
    BY <1>3, <1>4, <1>5, <1>6 DEF LocatorIInv

LEMMA LocatorNextIInv == LocatorIInv /\ [LocatorNext]_locatorVars => LocatorIInv'
  BY BannersKeep, SwapperKeeps, TakeTaskKeeps, NoTaskKeeps, TryBaseKeeps, BasesOverKeeps, ResolveKeeps,
     TakeBannerKeeps, LocatorStutters DEF LocatorNext

LEMMA LocatorInvImplies == LocatorIInv => KernelLocated
  <1> SUFFICES ASSUME LocatorIInv PROVE KernelLocated
    OBVIOUS
  <1>1. BaseRight
    BY DEF BaseRight, LocatorIInv, TaskFound, BaseFound, Located
  <1>2. DirectoryRight
    BY DEF DirectoryRight, LocatorIInv, DirectoryFound
  <1> QED BY <1>1, <1>2 DEF KernelLocated

(* The kernel is located right, whatever the dump holds and wherever its   *)
(* holes and look-alikes are: init_task and the base of the direct map are *)
(* the kernel's own whenever the dump has init_task, its first task and    *)
(* one witness for the latter; and a page directory that is said to be     *)
(* validated maps the kernel, and is found whenever there is one           *)
(* (resolve_kernel(), resolve_dtb()).                                      *)
THEOREM KernelIsLocated == LocatorSpec => []KernelLocated
  <1>1. LocatorInit => LocatorIInv
    BY LocatorStarts
  <1>2. LocatorIInv /\ [LocatorNext]_locatorVars => LocatorIInv'
    BY LocatorNextIInv
  <1>3. LocatorIInv => KernelLocated
    BY LocatorInvImplies
  <1> QED
    BY <1>1, <1>2, <1>3, PTL DEF LocatorSpec

-----------------------------------------------------------------------------
(* Arithmetic of rings.                                                    *)

LEMMA Remainder ==
    ASSUME NEW a \in Nat, NEW n \in Nat \ {0}
    PROVE  a % n \in 0..(n - 1) /\ a \div n \in Nat /\ a = n * (a \div n) + (a % n)
  OBVIOUS

\* Numbers of less than n apart are not the same in a ring of n.
LEMMA ApartInRing ==
    ASSUME NEW n \in Nat \ {0}, NEW a \in Nat, NEW b \in Nat, a < b, b - a < n
    PROVE  a % n # b % n
  <1> SUFFICES ASSUME a % n = b % n PROVE FALSE
    OBVIOUS
  <1> DEFINE p == a \div n
             q == b \div n
             r == a % n
  <1>0. p \in Nat /\ a = n * p + r /\ r \in Nat
    <2>1. a % n \in 0..(n - 1) /\ a \div n \in Nat /\ a = n * (a \div n) + (a % n)
      BY Remainder
    <2> QED BY <2>1
  <1>4. q \in Nat /\ b = n * q + r
    BY Remainder
  <1> HIDE DEF p, q, r
  <1>1. p \in Nat /\ q \in Nat /\ b - a = n * (q - p)
    BY <1>0, <1>4
  <1>2. q - p > 0
    BY <1>1
  <1>3. n * (q - p) >= n
    BY <1>1, <1>2
  <1> QED BY <1>1, <1>3

LEMMA UniqueRemainder ==
    ASSUME NEW n \in Nat \ {0}, NEW a \in Nat, NEW q \in Nat, NEW r \in 0..(n - 1), a = n * q + r
    PROVE  a % n = r /\ a \div n = q
  <1> DEFINE p == a \div n
             s == a % n
  <1>1. p \in Nat /\ s \in 0..(n - 1) /\ n * p + s = n * q + r
    BY Remainder
  <1> HIDE DEF p, s
  <1>2. ~(p < q)
    <2> SUFFICES ASSUME p < q PROVE FALSE
      OBVIOUS
    <2>1. n * (q - p) = s - r
      BY <1>1
    <2>2. q - p >= 1
      BY <1>1
    <2>3. n * (q - p) >= n
      BY <1>1, <2>2
    <2> QED BY <1>1, <2>1, <2>3
  <1>3. ~(q < p)
    <2> SUFFICES ASSUME q < p PROVE FALSE
      OBVIOUS
    <2>1. n * (p - q) = r - s
      BY <1>1
    <2>2. p - q >= 1
      BY <1>1
    <2>3. n * (p - q) >= n
      BY <1>1, <2>2
    <2> QED BY <1>1, <2>1, <2>3
  <1>4. p = q /\ s = r
    BY <1>1, <1>2, <1>3
  <1> QED BY <1>4 DEF p, s

\* Ids are a ring, and descriptors a ring within it.
LEMMA RingInRing ==
    ASSUME NEW a \in Nat, NEW k \in Nat
    PROVE  DescIndex((a % IdSpace) + k) = DescIndex(a + k)
  <1> DEFINE n == Descs
             m == IdSpace
             q == a \div m
             c == m \div n
             b == (a % m) + k
             d == b \div n
             r == b % n
  <1>9. n \in Nat \ {0} /\ m \in Nat \ {0} /\ m % n = 0
    BY LogAssumption
  <1> HIDE DEF n, m
  <1>1. q \in Nat /\ a = m * q + (a % m) /\ a % m \in Nat
    <2>1. a \div m \in Nat /\ a = m * (a \div m) + (a % m) /\ a % m \in 0..(m - 1)
      BY <1>9, Remainder
    <2> QED BY <2>1
  <1>2. c \in Nat /\ m = n * c
    <2>1. m \div n \in Nat /\ m = n * (m \div n) + (m % n)
      BY <1>9, Remainder
    <2> QED BY <1>9, <2>1
  <1>0. b \in Nat
    BY <1>1
  <1>3. b \in Nat /\ d \in Nat /\ r \in 0..(n - 1) /\ b = n * d + r
    <2> HIDE DEF b
    <2> QED BY <1>0, <1>9, Remainder
  <1>4. a + k = m * q + b
    BY <1>1, <1>9
  <1> HIDE DEF q, c, d, r, b
  <1>5. m * q = n * (c * q)
    BY <1>1, <1>2, <1>9
  <1>6. a + k = n * (c * q + d) + r /\ c * q + d \in Nat
    <2>1. c * q \in Nat
      BY <1>1, <1>2
    <2>2. n * (c * q + d) = n * (c * q) + n * d
      BY <1>3, <1>9, <2>1
    <2> QED BY <1>1, <1>3, <1>4, <1>5, <1>9, <2>1, <2>2
  <1>7. (a + k) % n = r
    <2> DEFINE e == a + k
    <2>1. e \in Nat /\ e = n * (c * q + d) + r
      BY <1>6
    <2> HIDE DEF e
    <2>2. e % n = r
      BY <1>3, <1>6, <1>9, <2>1, UniqueRemainder
    <2> QED BY <2>2 DEF e
  <1> QED BY <1>7 DEF r, b, n, m, DescIndex

\* n places in a row are all there are.
LEMMA AllPlaces ==
    ASSUME NEW n \in Nat \ {0}, NEW a \in Nat, NEW x \in 0..(n - 1)
    PROVE  \E k \in 0..(n - 1) : (a + k) % n = x
  <1> DEFINE q == a \div n
             r == a % n
  <1>1. q \in Nat /\ r \in 0..(n - 1) /\ a = n * q + r
    BY Remainder
  <1> HIDE DEF q, r
  <1>2. CASE x >= r
    <2>1. a + (x - r) = n * q + x /\ x - r \in 0..(n - 1)
      BY <1>1, <1>2
    <2>2. (a + (x - r)) % n = x
      BY <1>1, <2>1, UniqueRemainder
    <2> QED BY <2>1, <2>2
  <1>3. CASE x < r
    <2>1. n + x - r \in 0..(n - 1)
      BY <1>1, <1>3
    <2>2. a + (n + x - r) = n * (q + 1) + x
      BY <1>1
    <2>3. (a + (n + x - r)) % n = x
      BY <1>1, <2>1, <2>2, UniqueRemainder
    <2> QED BY <2>1, <2>3
  <1> QED BY <1>1, <1>2, <1>3

LEMMA OnceAround ==
    ASSUME NEW n \in Nat \ {0}, NEW a \in Nat
    PROVE  (a + n) % n = a % n
  <1> DEFINE q == a \div n
             r == a % n
  <1>1. q \in Nat /\ r \in 0..(n - 1) /\ a = n * q + r
    BY Remainder
  <1> HIDE DEF q, r
  <1>2. a + n = n * (q + 1) + r
    BY <1>1
  <1>3. (a + n) % n = r
    BY <1>1, <1>2, UniqueRemainder
  <1> QED BY <1>3 DEF r

LEMMA NextInRing ==
    ASSUME NEW n \in Nat \ {0}, NEW a \in Nat
    PROVE  ((a % n) + 1) % n = (a + 1) % n
  <1> DEFINE q == a \div n
             r == a % n
  <1>1. q \in Nat /\ r \in 0..(n - 1) /\ a = n * q + r
    BY Remainder
  <1> HIDE DEF q, r
  <1> DEFINE b == r + 1
             p == b \div n
             s == b % n
  <1>2. p \in Nat /\ s \in 0..(n - 1) /\ b = n * p + s
    <2>1. b \in Nat
      BY <1>1
    <2> HIDE DEF b
    <2> QED BY <2>1, Remainder
  <1> HIDE DEF p, s
  <1>3. a + 1 = n * (q + p) + s
    BY <1>1, <1>2
  <1>4. (a + 1) % n = s
    <2> DEFINE c == a + 1
    <2>1. c \in Nat /\ c = n * (q + p) + s /\ q + p \in Nat
      BY <1>1, <1>2, <1>3
    <2> HIDE DEF c
    <2>2. c % n = s
      BY <1>2, <2>1, UniqueRemainder
    <2> QED BY <2>2 DEF c
  <1> QED BY <1>4 DEF r, s

\* Numbers less than n apart, whose places ascend, are as far apart as these.
LEMMA SameRound ==
    ASSUME NEW n \in Nat \ {0}, NEW a \in Nat, NEW b \in Nat, a <= b, b - a < n, a % n <= b % n
    PROVE  (b % n) - (a % n) = b - a
  <1> DEFINE p == a \div n
             q == b \div n
             r == a % n
             s == b % n
  <1>1. p \in Nat /\ a = n * p + r /\ r \in 0..(n - 1)
    <2>1. a % n \in 0..(n - 1) /\ a \div n \in Nat /\ a = n * (a \div n) + (a % n)
      BY Remainder
    <2> QED BY <2>1
  <1>2. q \in Nat /\ b = n * q + s /\ s \in 0..(n - 1)
    <2>1. b % n \in 0..(n - 1) /\ b \div n \in Nat /\ b = n * (b \div n) + (b % n)
      BY Remainder
    <2> QED BY <2>1
  <1>3. r <= s
    OBVIOUS
  <1> HIDE DEF p, q, r, s
  <1>4. n * (q - p) = (b - a) - (s - r)
    BY <1>1, <1>2
  <1>5. q = p
    <2>1. CASE q > p
      <3>1. q - p >= 1
        BY <1>1, <1>2, <2>1
      <3>2. n * (q - p) >= n
        BY <1>1, <1>2, <3>1
      <3> QED BY <1>1, <1>2, <1>3, <1>4, <3>2
    <2>2. CASE q < p
      <3>1. p - q >= 1
        BY <1>1, <1>2, <2>2
      <3>2. n * (p - q) >= n
        BY <1>1, <1>2, <3>1
      <3>3. n * (p - q) = (s - r) - (b - a)
        BY <1>1, <1>2
      <3> QED BY <1>1, <1>2, <1>3, <3>2, <3>3
    <2> QED BY <1>1, <1>2, <2>1, <2>2
  <1>6. s - r = b - a
    BY <1>1, <1>2, <1>4, <1>5
  <1> QED BY <1>6 DEF r, s

-----------------------------------------------------------------------------
(* The blocks of the data ring.                                            *)

\* Where the block's id is, on the line that is wound around the ring.
StartOf(b, e) == IF Wrapped(b, e) THEN (e \div TextSize) * TextSize ELSE b

LEMMA BlockFacts ==
    ASSUME NEW b \in Nat, NEW n \in Nat, 1 <= n, n < TextSize, NEW e, e = NextLpos(b, n)
    PROVE  /\ e \in Nat /\ StartOf(b, e) \in Nat /\ b <= StartOf(b, e) /\ StartOf(b, e) + n = e
           /\ BlockAt(b, e) \in Nat
           /\ \A k \in 0..(n - 1) : BlockAt(b, e) + k = (StartOf(b, e) + k) % TextSize /\ BlockAt(b, e) + k < TextSize
           /\ ~Wrapped(b, e) => (b % TextSize) + n < TextSize
  <1> DEFINE T == TextSize
             p == b \div T
             q == (b + n) \div T
             r == b % T
             s == (b + n) % T
  <1>0. T \in Nat \ {0}
    BY LogAssumption
  <1>1. p \in Nat /\ r \in 0..(T - 1) /\ b = T * p + r
    BY <1>0, Remainder
  <1>2. q \in Nat /\ s \in 0..(T - 1) /\ b + n = T * q + s
    <2>1. b + n \in Nat
      OBVIOUS
    <2> HIDE DEF T
    <2> QED BY <1>0, <2>1, Remainder
  <1>3. e = IF p = q THEN b + n ELSE q * T + n
    BY DEF NextLpos
  <1>4. CASE p = q
    <2>1. e = b + n /\ e \div T = p
      BY <1>3, <1>4
    <2>2. ~Wrapped(b, e)
      BY <2>1 DEF Wrapped
    <2>3. StartOf(b, e) = b /\ BlockAt(b, e) = r
      BY <2>2 DEF StartOf, BlockAt
    <2> HIDE DEF T, p, q, r, s
    <2>4. r + n = s
      BY <1>0, <1>1, <1>2, <1>4
    <2>5. \A k \in 0..(n - 1) : r + k < T /\ (b + k) % T = r + k
      <3> TAKE k \in 0..(n - 1)
      <3>1. r + k \in 0..(T - 1) /\ b + k = T * p + (r + k) /\ b + k \in Nat
        BY <1>0, <1>1, <1>2, <2>4
      <3> DEFINE a == b + k
      <3>2. a \in Nat /\ r + k \in 0..(T - 1) /\ a = T * p + (r + k)
        BY <3>1
      <3> HIDE DEF a
      <3>3. a % T = r + k
        BY <1>0, <1>1, <3>2, UniqueRemainder
      <3> QED BY <1>0, <1>1, <3>1, <3>3 DEF a
    <2>6. r + n < T
      BY <1>2, <2>4, <1>0
    <2> QED BY <1>0, <1>1, <2>1, <2>2, <2>3, <2>5, <2>6 DEF T, r
  <1>5. CASE p # q
    <2> HIDE DEF T, p, q, r, s
    <2>1. e = T * q + n /\ e \in Nat
      BY <1>0, <1>2, <1>3, <1>5
    <2>2. e \div T = q
      BY <1>0, <1>2, <2>1, UniqueRemainder DEF T
    <2>3. Wrapped(b, e)
      BY <2>2, <1>5 DEF Wrapped, T, p
    <2>4. StartOf(b, e) = q * T /\ BlockAt(b, e) = 0
      BY <2>2, <2>3 DEF StartOf, BlockAt, T
    <2>5. b <= T * q
      <3>1. p < q
        <4> SUFFICES ASSUME q < p PROVE FALSE
          BY <1>1, <1>2, <1>5
        <4>1. T * (p - q) >= T
          <5>1. p - q >= 1
            BY <1>1, <1>2
          <5> QED BY <1>0, <1>1, <1>2, <5>1
        <4>2. T * (p - q) = s - r - n
          BY <1>0, <1>1, <1>2
        <4> QED BY <1>0, <1>1, <1>2, <4>1, <4>2
      <3>2. T * (q - p) >= T
        <4>1. q - p >= 1
          BY <1>1, <1>2, <3>1
        <4> QED BY <1>0, <1>1, <1>2, <4>1
      <3>3. T * q - T * p >= T
        BY <1>0, <1>1, <1>2, <3>2
      <3> QED BY <1>0, <1>1, <1>2, <3>3
    <2>6. \A k \in 0..(n - 1) : k < T /\ (q * T + k) % T = k
      <3> TAKE k \in 0..(n - 1)
      <3>1. k \in 0..(T - 1) /\ q * T + k = T * q + k /\ q * T + k \in Nat
        BY <1>0, <1>2 DEF T
      <3> DEFINE a == q * T + k
      <3>2. a \in Nat /\ a = T * q + k
        BY <3>1
      <3> HIDE DEF a
      <3>3. a % T = k
        BY <1>0, <1>2, <3>1, <3>2, UniqueRemainder
      <3> QED BY <1>0, <3>1, <3>3 DEF a
    <2>7. q * T = T * q /\ T * q \in Nat
      BY <1>0, <1>2
    <2> QED BY <2>1, <2>3, <2>4, <2>5, <2>6, <2>7 DEF T
  <1> QED BY <1>4, <1>5

-----------------------------------------------------------------------------
(* The records in the ring.                                                *)

RingType ==
    /\ logged \in Seq(Texts)
    /\ descs \in [0..(Descs - 1) -> [state : 0..3, id : Nat, begin : Nat, next : Nat]]
    /\ infos \in [0..(Descs - 1) -> [seq : Nat, ts : Nat, len : Nat]]
    /\ DOMAIN data = 0..(TextSize - 1) /\ data = [c \in DOMAIN data |-> data[c]]
    /\ dhead \in Nat

\* The descriptor of record s, when the first id was `base'.
Place(base, s) == DescIndex(base + s)

\* Record s is in x, and once it is committed its words are in their cells.
RecordIn(x, base, s) ==
    /\ descs[x].state # Reusable /\ descs[x].id = (base + s) % IdSpace
    /\ infos[x].seq = s
    /\ infos[x].len = IF descs[x].state = Reserved THEN 0 ELSE Len(logged[s])
    /\ descs[x].next = NextLpos(descs[x].begin, Len(logged[s]) + 1)
    /\ descs[x].next <= dhead /\ StartOf(descs[x].begin, descs[x].next) >= dhead - TextSize
    /\ ValidDesc(x) =>
          \A k \in 1..Len(logged[s]) : data[BlockAt(descs[x].begin, descs[x].next) + k] = <<s, logged[s][k]>>

\* The records from `old' on are in the ring, one behind the other.
InRing(base, old) ==
    /\ old \in 1..(Len(logged) + 1) /\ Len(logged) - old < Descs
    /\ head = (base + Len(logged)) % IdSpace
    /\ logged # <<>> => old <= Len(logged) /\ tail = (base + old) % IdSpace
    /\ Live = {Place(base, s) : s \in old..Len(logged)}
    /\ \A s \in old..Len(logged) : RecordIn(Place(base, s), base, s)
    /\ \A s, t \in old..Len(logged) : s < t => descs[Place(base, s)].next <= descs[Place(base, t)].begin

RingIInv ==
    /\ RingType
    /\ \E base \in 0..(IdSpace - 1) : \E old \in 1..(Len(logged) + 1) : InRing(base, old)

-----------------------------------------------------------------------------
(* The walk.                                                               *)

LineOf(x) == <<infos[x].seq, infos[x].ts, clean_text(TextAt(descs[x].begin, infos[x].len))>>
Visited(n) == {DescIndex(tail + k) : k \in 0..(n - 1)}
ListedSeqs == {lines[m][1] : m \in DOMAIN lines}
SeqsOf(X) == {infos[x].seq : x \in X}
Ascending == \A m, n \in DOMAIN lines : m < n => lines[m][1] < lines[n][1]

Walking(n) ==
    /\ ListedSeqs = SeqsOf(Kept \cap Visited(n))
    /\ left > 0 =>
          /\ <<"ring", 0>> \notin holes
          /\ left = Descs + 1 - n /\ id = tail + n /\ (tail <= head => id <= head)
    /\ left = 0 => Kept \subseteq Visited(n)
    /\ tail <= head => \A m \in DOMAIN lines : lines[m][1] < infos[DescIndex(tail)].seq + n

LogIInv ==
    /\ RingIInv
    /\ left \in Nat
    /\ logPc = "run" => lines = <<>>
    /\ logPc # "run" =>
          /\ logged # <<>>
          /\ lines \in Seq({LineOf(x) : x \in Kept})
          /\ tail <= head => Ascending
    /\ logPc = "walk" => \E n \in 0..(Descs + 1) : Walking(n)
    /\ logPc \notin {"run", "walk"} => ListedSeqs = SeqsOf(Kept)

LEMMA PlaceFacts ==
    ASSUME NEW base \in Nat, NEW s \in Nat
    PROVE  /\ Place(base, s) \in 0..(Descs - 1)
           /\ \A k \in Nat : DescIndex(((base + s) % IdSpace) + k) = Place(base, s + k)
           /\ \A t \in Nat : s < t /\ t - s < Descs => Place(base, s) # Place(base, t)
           /\ Place(base, s + Descs) = Place(base, s)
  <1>0. Descs \in Nat \ {0} /\ IdSpace \in Nat \ {0} /\ IdSpace % Descs = 0
    BY LogAssumption
  <1> DEFINE a == base + s
  <1>1. a \in Nat
    OBVIOUS
  <1>2. Place(base, s) \in 0..(Descs - 1)
    BY <1>0, <1>1, Remainder DEF Place, DescIndex
  <1>3. ASSUME NEW k \in Nat PROVE DescIndex((a % IdSpace) + k) = Place(base, s + k)
    <2>2. a + k = base + (s + k)
      BY <1>1
    <2> HIDE DEF a
    <2>1. DescIndex((a % IdSpace) + k) = DescIndex(a + k)
      BY <1>1, RingInRing
    <2> QED BY <2>1, <2>2 DEF Place, a
  <1>4. ASSUME NEW t \in Nat, s < t, t - s < Descs PROVE Place(base, s) # Place(base, t)
    <2> DEFINE b == base + t
    <2>1. b \in Nat /\ a < b /\ b - a < Descs
      BY <1>4
    <2>2. a % Descs # b % Descs
      BY <1>0, <1>1, <2>1, ApartInRing
    <2> QED BY <2>2 DEF Place, DescIndex
  <1>5. Place(base, s + Descs) = Place(base, s)
    <2>1. (a + Descs) % Descs = a % Descs
      BY <1>0, <1>1, OnceAround
    <2>2. a + Descs = base + (s + Descs)
      BY <1>0
    <2> QED BY <2>1, <2>2 DEF Place, DescIndex
  <1> QED BY <1>2, <1>3, <1>4, <1>5

LEMMA TextFacts ==
    ASSUME RingType, NEW s \in 1..Len(logged)
    PROVE  /\ logged[s] \in Texts /\ logged[s] \in Seq(Range(logged[s]))
           /\ Len(logged[s]) \in Nat /\ Len(logged[s]) >= 1 /\ Len(logged[s]) + 1 < TextSize
  <1>1. logged[s] \in Texts
    BY DEF RingType
  <1>2. logged[s] \in Seq(Range(logged[s])) /\ Len(logged[s]) \in 1..(TextSize - 2) /\ TextSize \in Nat
    BY <1>1, LogAssumption
  <1>3. Len(logged[s]) \in Nat
    BY <1>2
  <1> QED BY <1>1, <1>2, <1>3

\* What the invariant says of a record of the ring.
LEMMA RecordFacts ==
    ASSUME RingType, NEW base \in Nat, NEW old \in Nat, InRing(base, old), NEW s \in old..Len(logged)
    PROVE  LET x == Place(base, s) IN
           /\ s \in 1..Len(logged) /\ x \in 0..(Descs - 1) /\ x \in Live /\ RecordIn(x, base, s)
           /\ descs[x].begin \in Nat /\ descs[x].next \in Nat /\ descs[x].begin <= descs[x].next
           /\ StartOf(descs[x].begin, descs[x].next) \in Nat
           /\ descs[x].begin <= StartOf(descs[x].begin, descs[x].next)
           /\ StartOf(descs[x].begin, descs[x].next) + Len(logged[s]) + 1 = descs[x].next
  <1> DEFINE x == Place(base, s)
             b == descs[x].begin
             e == descs[x].next
             n == Len(logged[s]) + 1
  <1>1. s \in 1..Len(logged)
    BY DEF InRing, RingType
  <1>2. x \in 0..(Descs - 1) /\ x \in Live /\ RecordIn(x, base, s)
    <2>1. s \in Nat
      BY <1>1
    <2>2. x \in 0..(Descs - 1)
      BY <2>1, PlaceFacts
    <2> QED BY <2>2 DEF InRing
  <1>3. b \in Nat /\ e \in Nat
    BY <1>2 DEF RingType
  <1>4. e = NextLpos(b, n)
    BY <1>2 DEF RecordIn
  <1>5. n \in Nat /\ 1 <= n /\ n < TextSize
    BY <1>1, TextFacts
  <1> HIDE DEF x, b, e, n
  <1>6. StartOf(b, e) \in Nat /\ b <= StartOf(b, e) /\ StartOf(b, e) + n = e
    BY <1>3, <1>4, <1>5, BlockFacts
  <1>7. b <= e
    BY <1>3, <1>5, <1>6
  <1>8. StartOf(b, e) + Len(logged[s]) + 1 = e
    <2>1. Len(logged[s]) \in Nat
      BY <1>1, TextFacts
    <2> QED BY <1>6, <2>1 DEF n
  <1> QED BY <1>1, <1>2, <1>3, <1>6, <1>7, <1>8 DEF x, b, e

\* A descriptor in use has one record.
LEMMA LiveFacts ==
    ASSUME RingType, NEW base \in Nat, NEW old \in Nat, InRing(base, old), NEW x \in Live
    PROVE  /\ infos[x].seq \in old..Len(logged) /\ x = Place(base, infos[x].seq)
           /\ \A y \in Live : infos[y].seq = infos[x].seq => y = x
  <1>1. \A y \in Live : infos[y].seq \in old..Len(logged) /\ y = Place(base, infos[y].seq)
    <2> TAKE y \in Live
    <2>1. PICK s \in old..Len(logged) : y = Place(base, s)
      BY DEF InRing
    <2>2. infos[y].seq = s
      BY <2>1 DEF InRing, RecordIn
    <2> QED BY <2>1, <2>2
  <1> QED BY <1>1

\* No cell is of two records.
LEMMA CellsApart ==
    ASSUME RingType, NEW base \in Nat, NEW old \in Nat, InRing(base, old),
           NEW s \in old..Len(logged), NEW t \in old..Len(logged), s # t,
           NEW j \in 0..Len(logged[s]), NEW k \in 0..Len(logged[t])
    PROVE  BlockAt(descs[Place(base, s)].begin, descs[Place(base, s)].next) + j
             # BlockAt(descs[Place(base, t)].begin, descs[Place(base, t)].next) + k
  <1> DEFINE Cells(r) == BlockAt(descs[Place(base, r)].begin, descs[Place(base, r)].next)
             Begins(r) == StartOf(descs[Place(base, r)].begin, descs[Place(base, r)].next)
  <1>1. ASSUME NEW r \in old..Len(logged), NEW i \in 0..Len(logged[r])
        PROVE  Cells(r) + i = (Begins(r) + i) % TextSize
    <2> DEFINE b == descs[Place(base, r)].begin
               e == descs[Place(base, r)].next
               n == Len(logged[r]) + 1
    <2>1. b \in Nat /\ e = NextLpos(b, n) /\ r \in 1..Len(logged)
      BY RecordFacts DEF RecordIn
    <2>2. n \in Nat /\ 1 <= n /\ n < TextSize /\ i \in 0..(n - 1)
      BY <2>1, TextFacts
    <2> HIDE DEF b, e, n
    <2>3. BlockAt(b, e) + i = (StartOf(b, e) + i) % TextSize
      BY <2>1, <2>2, BlockFacts
    <2> QED BY <2>3 DEF b, e
  <1>2. ASSUME NEW r \in old..Len(logged), NEW u \in old..Len(logged), r < u,
               NEW i \in 0..Len(logged[r]), NEW l \in 0..Len(logged[u])
        PROVE  Cells(r) + i # Cells(u) + l
    <2> DEFINE a == Begins(r) + i
               c == Begins(u) + l
    <2>1. Begins(r) \in Nat /\ Begins(r) + Len(logged[r]) + 1 = descs[Place(base, r)].next
          /\ Begins(r) >= dhead - TextSize /\ r \in 1..Len(logged)
      BY <1>2, RecordFacts DEF RecordIn
    <2>2. Begins(u) \in Nat /\ Begins(u) + Len(logged[u]) + 1 = descs[Place(base, u)].next
          /\ descs[Place(base, u)].next <= dhead /\ descs[Place(base, u)].begin <= Begins(u) /\ u \in 1..Len(logged)
          /\ descs[Place(base, u)].begin \in Nat
      BY <1>2, RecordFacts DEF RecordIn
    <2>3. descs[Place(base, r)].next <= descs[Place(base, u)].begin /\ descs[Place(base, r)].next \in Nat
      BY <1>2, RecordFacts DEF InRing
    <2>4. Len(logged[r]) \in Nat /\ Len(logged[u]) \in Nat /\ TextSize \in Nat \ {0} /\ dhead \in Nat
      <3>1. Len(logged[r]) \in Nat /\ Len(logged[r]) + 1 < TextSize
        BY <2>1, TextFacts
      <3>2. Len(logged[u]) \in Nat
        BY <2>2, TextFacts
      <3>3. TextSize \in Nat /\ dhead \in Nat
        BY LogAssumption DEF RingType
      <3> QED BY <3>1, <3>2, <3>3
    <2>7. i \in 0..Len(logged[r]) /\ l \in 0..Len(logged[u])
      BY <1>2
    <2> HIDE DEF Begins, Cells
    <2>5. a \in Nat /\ c \in Nat /\ a < c /\ c - a < TextSize
      <3> DEFINE p == Begins(r)
                 q == Begins(u)
                 m == Len(logged[r])
                 n == Len(logged[u])
                 f == descs[Place(base, r)].next
                 g == descs[Place(base, u)].next
                 h == descs[Place(base, u)].begin
      <3>1. /\ p \in Nat /\ p + m + 1 = f /\ p >= dhead - TextSize /\ q \in Nat /\ q + n + 1 = g
            /\ g <= dhead /\ h <= q /\ h \in Nat /\ f <= h /\ f \in Nat /\ m \in Nat /\ n \in Nat
            /\ TextSize \in Nat /\ dhead \in Nat /\ i \in 0..m /\ l \in 0..n
        BY <2>1, <2>2, <2>3, <2>4, <2>7
      <3> HIDE DEF p, q, m, n, f, g, h
      <3>2. p + i \in Nat /\ q + l \in Nat /\ p + i < q + l /\ (q + l) - (p + i) < TextSize
        BY <3>1
      <3> QED BY <3>2 DEF p, q
    <2> HIDE DEF a, c
    <2>6. a % TextSize # c % TextSize
      BY <2>4, <2>5, ApartInRing
    <2> QED BY <1>1, <2>6 DEF a, c
  <1>3. s \in Nat /\ t \in Nat
    BY RecordFacts
  <1>4. CASE s < t
    BY <1>2, <1>4 DEF Cells
  <1>5. CASE t < s
    BY <1>2, <1>5 DEF Cells
  <1> QED BY <1>3, <1>4, <1>5

LEMMA NumbersOfStates == Reserved = 0 /\ Committed = 1 /\ Finalized = 2 /\ Reusable = 3
  BY DEF Reserved, Committed, Finalized, Reusable

LEMMA RingStarts == LogInit => RingIInv
  <1> SUFFICES ASSUME LogInit PROVE RingIInv
    OBVIOUS
  <1>1. Descs \in Nat \ {0} /\ IdSpace \in Nat \ {0} /\ FirstIds \subseteq 0..(IdSpace - 1) /\ TextSize \in Nat
    BY LogAssumption
  <1>2. RingType
    BY <1>1, NumbersOfStates DEF LogInit, RingType
  <1>3. head \in 0..(IdSpace - 1)
    BY <1>1 DEF LogInit
  <1>4. Live = {} /\ logged = <<>> /\ Len(logged) = 0
    BY DEF LogInit, Live
  <1>5. head % IdSpace = head
    <2>1. head \in Nat /\ head = IdSpace * 0 + head
      BY <1>1, <1>3
    <2> QED BY <1>1, <1>3, <2>1, UniqueRemainder
  <1>6. InRing(head, 1)
    <2>1. (head + 0) % IdSpace = head
      BY <1>3, <1>5
    <2>2. 1..0 = {}
      OBVIOUS
    <2> QED BY <1>1, <1>4, <2>1, <2>2 DEF InRing
  <1> QED BY <1>2, <1>3, <1>4, <1>6 DEF RingIInv

\* What Reserve keeps of the ring are its last records.
LEMMA SurvivorsAreLast ==
    ASSUME RingType, NEW base \in Nat, NEW old \in Nat, InRing(base, old), NEW end \in Nat
    PROVE  \E lo \in old..(Len(logged) + 1) :
              /\ \A s \in old..Len(logged) : Place(base, s) \notin Evicted(end) <=> lo <= s
              /\ Len(logged) + 1 - lo < Descs
  <1> DEFINE L == Len(logged)
             S == {s \in old..L : Place(base, s) \notin Evicted(end)}
  <1>0. L \in Nat /\ Descs \in Nat \ {0} /\ TextSize \in Nat /\ IdSpace \in Nat \ {0} /\ old <= L + 1 /\ L - old < Descs
    BY LogAssumption DEF RingType, InRing
  <1>1. DescIndex(head + 1) = Place(base, L + 1)
    <2>1. head = (base + L) % IdSpace
      BY DEF InRing
    <2>2. DescIndex(head + 1) = Place(base, L + 1)
      <3>1. \A k \in Nat : DescIndex(((base + L) % IdSpace) + k) = Place(base, L + k)
        BY <1>0, PlaceFacts
      <3> QED BY <2>1, <3>1
    <2> QED BY <2>2
  <1>2. \A s \in old..L : Place(base, s) \in Evicted(end) <=>
            Place(base, s) = Place(base, L + 1) \/ descs[Place(base, s)].begin < end - TextSize
    BY <1>1, RecordFacts DEF Evicted
  <1>3. ASSUME NEW s \in S, NEW t \in s..L PROVE t \in S
    <2>1. CASE t = s
      BY <2>1
    <2>2. CASE t # s
      <3>1. s \in Nat /\ t \in Nat /\ s < t /\ t \in old..L /\ s \in old..L
        BY <1>0, <1>3, <2>2
      <3>2. Place(base, t) # Place(base, L + 1)
        <4>1. L + 1 - t < Descs /\ t < L + 1 /\ L + 1 \in Nat
          BY <1>0, <3>1
        <4> QED BY <3>1, <4>1, PlaceFacts
      <3>3. descs[Place(base, s)].begin >= end - TextSize
        <4>1. descs[Place(base, s)].begin \in Nat
          BY <3>1, RecordFacts
        <4> QED BY <1>0, <1>2, <3>1, <4>1
      <3>4. descs[Place(base, s)].begin <= descs[Place(base, t)].begin
        <4>1. descs[Place(base, s)].next <= descs[Place(base, t)].begin
          BY <3>1 DEF InRing
        <4>2. descs[Place(base, s)].begin \in Nat /\ descs[Place(base, s)].next \in Nat
              /\ descs[Place(base, s)].begin <= descs[Place(base, s)].next /\ descs[Place(base, t)].begin \in Nat
          BY <3>1, RecordFacts
        <4> QED BY <4>1, <4>2
      <3>5. ~(descs[Place(base, t)].begin < end - TextSize)
        <4>1. descs[Place(base, s)].begin \in Nat /\ descs[Place(base, t)].begin \in Nat
          BY <3>1, RecordFacts
        <4> QED BY <1>0, <3>3, <3>4, <4>1
      <3> QED BY <1>2, <3>1, <3>2, <3>5
    <2> QED BY <2>1, <2>2
  <1>4. CASE S = {}
    <2>1. \A s \in old..L : Place(base, s) \notin Evicted(end) <=> L + 1 <= s
      BY <1>0, <1>4
    <2> QED BY <1>0, <2>1
  <1>5. CASE S # {}
    <2>1. PICK lo \in S : \A s \in S : lo <= s
      <3>1. S \in SUBSET Int /\ IsFiniteSet(S)
        <4>1. IsFiniteSet(old..L) /\ S \subseteq old..L
          BY <1>0, FS_Interval
        <4> QED BY <4>1, FS_Subset
      <3> HIDE DEF S
      <3> QED BY <1>5, <3>1, LeastFacts
    <2>2. \A s \in old..L : s \in S <=> lo <= s
      BY <1>0, <1>3, <2>1
    <2>3. L + 1 - lo < Descs
      <3> SUFFICES ASSUME L + 1 - lo >= Descs PROVE FALSE
        BY <1>0, <2>1
      <3>1. lo \in Nat /\ lo + Descs = L + 1
        BY <1>0, <2>1
      <3>2. Place(base, L + 1) = Place(base, lo)
        BY <3>1, PlaceFacts
      <3> QED BY <1>2, <2>1, <3>2
    <2> QED BY <1>0, <2>1, <2>2, <2>3
  <1> QED BY <1>4, <1>5

LEMMA ReserveKeeps ==
    ASSUME RingIInv, NEW text \in Texts, Reserve(text)
    PROVE  RingIInv'
  <1> DEFINE L == Len(logged)
             n == Len(text) + 1
             end == NextLpos(dhead, n)
             new == (head + 1) % IdSpace
             x0 == DescIndex(new)
  <1>0. /\ L \in Nat /\ Descs \in Nat \ {0} /\ TextSize \in Nat /\ IdSpace \in Nat \ {0} /\ dhead \in Nat
        /\ RingType
    BY LogAssumption DEF RingIInv, RingType
  <1>1. n \in Nat /\ 1 <= n /\ n < TextSize
    <2>1. text \in Seq(Range(text)) /\ Len(text) \in 1..(TextSize - 2)
      BY LogAssumption
    <2> QED BY <1>0, <2>1
  <1>2. /\ end \in Nat /\ StartOf(dhead, end) \in Nat /\ dhead <= StartOf(dhead, end)
        /\ StartOf(dhead, end) + n = end
    <2> DEFINE e == end
    <2>1. e = NextLpos(dhead, n)
      OBVIOUS
    <2> HIDE DEF e, n
    <2> QED BY <1>0, <1>1, <2>1, BlockFacts DEF e
  <1>3. PICK base \in 0..(IdSpace - 1) : \E old \in 1..(L + 1) : InRing(base, old)
    BY DEF RingIInv
  <1>4. PICK old \in 1..(L + 1) : InRing(base, old)
    BY <1>3
  <1>5. base \in Nat /\ old \in Nat
    BY <1>0, <1>3
  <1>6. PICK lo \in old..(L + 1) :
              /\ \A s \in old..L : Place(base, s) \notin Evicted(end) <=> lo <= s
              /\ L + 1 - lo < Descs
    BY <1>0, <1>2, <1>4, <1>5, SurvivorsAreLast
  <1>7. head = (base + L) % IdSpace /\ new = (base + (L + 1)) % IdSpace /\ new \in Nat
    <2>1. head = (base + L) % IdSpace
      BY <1>4 DEF InRing
    <2>2. (((base + L) % IdSpace) + 1) % IdSpace = (base + L + 1) % IdSpace
      <3> DEFINE a == base + L
      <3>1. a \in Nat
        BY <1>0, <1>5
      <3> HIDE DEF a
      <3>2. ((a % IdSpace) + 1) % IdSpace = (a + 1) % IdSpace
        BY <1>0, <3>1, NextInRing
      <3> QED BY <3>2 DEF a
    <2>3. head \in Nat
      BY <1>0, <1>5, <2>1
    <2> QED BY <1>0, <2>1, <2>2, <2>3
  <1>8. x0 = Place(base, L + 1) /\ DescIndex(head + 1) = x0 /\ x0 \in 0..(Descs - 1)
    <2> HIDE DEF L
    <2>1. \A k \in Nat : DescIndex(((base + (L + 1)) % IdSpace) + k) = Place(base, (L + 1) + k)
      <3> DEFINE m == L + 1
      <3>1. m \in Nat
        BY <1>0
      <3> HIDE DEF m
      <3>2. \A k \in Nat : DescIndex(((base + m) % IdSpace) + k) = Place(base, m + k)
        BY <1>5, <3>1, PlaceFacts
      <3> QED BY <3>2 DEF m
    <2>2. DescIndex(new + 0) = Place(base, (L + 1) + 0)
      BY <1>7, <2>1
    <2>3. \A k \in Nat : DescIndex(((base + L) % IdSpace) + k) = Place(base, L + k)
      BY <1>0, <1>5, PlaceFacts
    <2>4. DescIndex(head + 1) = Place(base, L + 1)
      BY <1>7, <2>3
    <2>5. Place(base, L + 1) \in 0..(Descs - 1)
      BY <1>0, <1>5, PlaceFacts
    <2> QED BY <1>0, <1>7, <2>2, <2>4, <2>5
  <1>9. /\ logged' = Append(logged, text) /\ dhead' = end /\ data' = data /\ head' = new
        /\ descs' = [x \in DOMAIN descs |->
                       IF x = x0 THEN [state |-> Reserved, id |-> new, begin |-> dhead, next |-> end]
                       ELSE IF x \in Evicted(end) THEN [descs[x] EXCEPT !.state = Reusable] ELSE descs[x]]
        /\ infos' = [infos EXCEPT ![x0] = [seq |-> L + 1, ts |-> L + 1, len |-> 0]]
    BY DEF Reserve
  <1>10. /\ logged' \in Seq(Texts) /\ Len(logged') = L + 1 /\ logged'[L + 1] = text
         /\ \A s \in 1..L : logged'[s] = logged[s]
    BY <1>0, <1>9 DEF RingType
  <1>11. RingType'
    <2> HIDE DEF end, new, x0, L, n
    <2>1. descs' \in [0..(Descs - 1) -> [state : 0..3, id : Nat, begin : Nat, next : Nat]]
      <3>1. \A x \in 0..(Descs - 1) : descs'[x] \in [state : 0..3, id : Nat, begin : Nat, next : Nat]
        <4> TAKE x \in 0..(Descs - 1)
        <4>1. descs[x] \in [state : 0..3, id : Nat, begin : Nat, next : Nat] /\ x \in DOMAIN descs
          BY <1>0 DEF RingType
        <4>2. CASE x = x0
          BY <1>0, <1>2, <1>7, <1>9, <4>1, <4>2, NumbersOfStates
        <4>3. CASE x # x0 /\ x \in Evicted(end)
          BY <1>9, <4>1, <4>3, NumbersOfStates
        <4>4. CASE x # x0 /\ x \notin Evicted(end)
          BY <1>9, <4>1, <4>4
        <4> QED BY <4>2, <4>3, <4>4
      <3>2. DOMAIN descs = 0..(Descs - 1)
        BY <1>0 DEF RingType
      <3> QED BY <1>9, <3>1, <3>2
    <2>2. infos' \in [0..(Descs - 1) -> [seq : Nat, ts : Nat, len : Nat]]
      BY <1>0, <1>8, <1>9 DEF RingType
    <2> QED BY <1>0, <1>2, <1>9, <1>10, <2>1, <2>2 DEF RingType
  <1>12. \A s \in lo..L : /\ s \in old..L /\ Place(base, s) # x0 /\ Place(base, s) \in 0..(Descs - 1)
                          /\ Place(base, s) \notin Evicted(end)
    <2> TAKE s \in lo..L
    <2> HIDE DEF end, x0, L
    <2>1. s \in old..L /\ s \in Nat
      BY <1>0, <1>5, <1>6
    <2>2. Place(base, s) \notin Evicted(end)
      BY <1>6, <2>1
    <2>3. Place(base, s) \in Live
      BY <1>0, <1>4, <1>5, <2>1, RecordFacts DEF L
    <2>4. Place(base, s) \in 0..(Descs - 1)
      BY <1>5, <2>1, PlaceFacts
    <2> QED BY <1>8, <2>1, <2>2, <2>3, <2>4 DEF Evicted
  <1>13. Live' = {Place(base, s) : s \in lo..(L + 1)}
    <2> HIDE DEF end, x0, L, n, new
    <2>1. Live' = {x0} \cup (Live \ Evicted(end))
      <3>1. ASSUME NEW x PROVE x \in Live' <=> x \in {x0} \cup (Live \ Evicted(end))
        <4>1. DOMAIN descs = 0..(Descs - 1) /\ DOMAIN descs' = 0..(Descs - 1)
          BY <1>0, <1>11 DEF RingType
        <4>2. CASE x = x0
          BY <1>8, <1>9, <4>1, <4>2, NumbersOfStates DEF Live
        <4>3. CASE x # x0 /\ x \in Evicted(end)
          <5>1. x \in DOMAIN descs => descs'[x].state = Reusable
            BY <1>0, <1>9, <4>1, <4>3 DEF RingType
          <5> QED BY <4>1, <4>3, <5>1 DEF Live
        <4>4. CASE x # x0 /\ x \notin Evicted(end)
          BY <1>9, <4>1, <4>4 DEF Live
        <4> QED BY <4>2, <4>3, <4>4
      <3> QED BY <3>1
    <2>2. Live = {Place(base, s) : s \in old..L}
      BY <1>4 DEF InRing, L
    <2>3. Live \ Evicted(end) = {Place(base, s) : s \in lo..L}
      BY <1>0, <1>5, <1>6, <1>12, <2>2
    <2>4. lo..(L + 1) = (lo..L) \cup {L + 1}
      BY <1>0, <1>5, <1>6
    <2> QED BY <1>8, <2>1, <2>3, <2>4
  <1>14. \A s \in lo..L : /\ descs'[Place(base, s)] = descs[Place(base, s)]
                          /\ infos'[Place(base, s)] = infos[Place(base, s)]
                          /\ logged'[s] = logged[s]
    <2> HIDE DEF end, x0, L, n, new
    <2>1. \A s \in lo..L : s \in 1..L
      BY <1>0, <1>4, <1>5, <1>6
    <2> QED BY <1>0, <1>9, <1>10, <1>12, <2>1 DEF RingType
  <1>15. ASSUME NEW s \in lo..L PROVE RecordIn(Place(base, s), base, s)'
    <2> DEFINE x == Place(base, s)
    <2>1. s \in old..L
      BY <1>12
    <2>2. RecordIn(x, base, s) /\ descs[x].next \in Nat /\ descs[x].begin \in Nat
          /\ StartOf(descs[x].begin, descs[x].next) \in Nat
          /\ descs[x].begin <= StartOf(descs[x].begin, descs[x].next)
      BY <1>0, <1>4, <1>5, <2>1, RecordFacts
    <2>3. descs[x].next <= end
      BY <1>0, <1>2, <2>2 DEF RecordIn
    <2>4. StartOf(descs[x].begin, descs[x].next) >= end - TextSize
      <3>1. x \in Live /\ x \notin Evicted(end)
        BY <1>0, <1>4, <1>5, <1>12, <2>1, RecordFacts
      <3>2. ~(descs[x].begin < end - TextSize)
        BY <3>1 DEF Evicted
      <3> HIDE DEF end, x
      <3> QED BY <1>0, <1>2, <2>2, <3>2
    <2>5. Place(base, s)' = x
      BY DEF Place, DescIndex, Descs
    <2>6. descs'[x] = descs[x] /\ infos'[x] = infos[x] /\ logged'[s] = logged[s]
      BY <1>14
    <2>7. /\ dhead' = end /\ data' = data
      BY <1>9
    <2> HIDE DEF end, x, L, n, new, x0
    <2>8. RecordIn(x, base, s)'
      BY <2>2, <2>3, <2>4, <2>6, <2>7 DEF RecordIn, ValidDesc, StartOf, Wrapped, BlockAt
    <2> QED BY <2>5, <2>8 DEF RecordIn, ValidDesc
  <1>16. PICK top \in Nat : top = L + 1
    BY <1>0
  <1>19. RecordIn(Place(base, top), base, top)'
    <2> DEFINE x == Place(base, top)
    <2>1. descs'[x] = [state |-> Reserved, id |-> new, begin |-> dhead, next |-> end]
      BY <1>0, <1>8, <1>9, <1>16 DEF RingType
    <2>2. infos'[x] = [seq |-> top, ts |-> top, len |-> 0]
      BY <1>0, <1>8, <1>9, <1>16 DEF RingType
    <2>3. logged'[top] = text /\ Len(text) + 1 = n
      BY <1>10, <1>16
    <2>4. StartOf(dhead, end) >= end - TextSize /\ end <= end
      <3> HIDE DEF end, n
      <3> QED BY <1>0, <1>1, <1>2
    <2>5. end = NextLpos(dhead, Len(logged'[top]) + 1)
      BY <2>3
    <2>6. new = (base + top) % IdSpace /\ dhead' = end
      BY <1>7, <1>9, <1>16
    <2>7. Place(base, top)' = x
      BY DEF Place, DescIndex, Descs
    <2> HIDE DEF end, x, L, n, new, x0
    <2>8. RecordIn(x, base, top)'
      BY <2>1, <2>2, <2>4, <2>5, <2>6, NumbersOfStates DEF RecordIn, ValidDesc, StartOf, Wrapped, BlockAt
    <2> QED BY <2>7, <2>8 DEF RecordIn, ValidDesc
  <1>17. InRing(base, lo)'
    <2>1. lo \in 1..(L + 2) /\ lo <= L + 1
      BY <1>0, <1>4, <1>5, <1>6
    <2>2. tail' = (base + lo) % IdSpace
      <3> DEFINE kept == Live \ Evicted(end)
      <3>1. tail' = IF kept = {} THEN new
                    ELSE descs[CHOOSE x \in kept : \A y \in kept : infos[x].seq <= infos[y].seq].id
        BY DEF Reserve
      <3>2. kept = {Place(base, s) : s \in lo..L}
        <4>1. Live = {Place(base, s) : s \in old..L}
          BY <1>4 DEF InRing
        <4> HIDE DEF end, L
        <4> QED BY <1>0, <1>5, <1>6, <1>12, <4>1
      <3>3. CASE lo = L + 1
        <4>1. kept = {}
          BY <1>0, <3>2, <3>3
        <4> HIDE DEF kept, new, L
        <4> QED BY <1>7, <3>1, <3>3, <4>1
      <3>4. CASE lo # L + 1
        <4>1. lo \in lo..L
          BY <1>0, <1>5, <1>6, <3>4
        <4>2. \A s \in lo..L : infos[Place(base, s)].seq = s
          BY <1>4, <1>12 DEF InRing, RecordIn
        <4>3. Place(base, lo) \in kept /\ \A y \in kept : infos[Place(base, lo)].seq <= infos[y].seq
          <5> HIDE DEF kept, L
          <5> QED BY <3>2, <4>1, <4>2
        <4>4. \A x \in kept : (\A y \in kept : infos[x].seq <= infos[y].seq) => x = Place(base, lo)
          <5> TAKE x \in kept
          <5> HAVE \A y \in kept : infos[x].seq <= infos[y].seq
          <5>1. PICK s \in lo..L : x = Place(base, s)
            BY <3>2
          <5>2. s <= lo
            <6>1. infos[x].seq <= infos[Place(base, lo)].seq
              BY <4>3
            <6>2. infos[x].seq = s /\ infos[Place(base, lo)].seq = lo
              BY <4>1, <4>2, <5>1
            <6> QED BY <6>1, <6>2
          <5>3. s = lo
            BY <1>0, <1>5, <5>1, <5>2
          <5> QED BY <5>1, <5>3
        <4>5. (CHOOSE x \in kept : \A y \in kept : infos[x].seq <= infos[y].seq) = Place(base, lo)
          <5> HIDE DEF kept
          <5> QED BY <4>3, <4>4
        <4>6. tail' = descs[Place(base, lo)].id
          <5> HIDE DEF kept
          <5> QED BY <3>1, <4>3, <4>5
        <4>7. descs[Place(base, lo)].id = (base + lo) % IdSpace
          BY <1>4, <1>12, <4>1 DEF InRing, RecordIn
        <4> QED BY <4>6, <4>7
      <3> QED BY <3>3, <3>4
    <2>3. \A s \in lo..(L + 1) : s \in lo..L \/ s = L + 1
      BY <1>0, <1>5, <1>6
    <2>4. \A s, t \in lo..(L + 1) : s < t => descs'[Place(base, s)].next <= descs'[Place(base, t)].begin
      <3> TAKE s, t \in lo..(L + 1)
      <3> HAVE s < t
      <3> HIDE DEF end, new
      <3>1. s \in lo..L /\ s \in old..L
        <4>1. s \in lo..L
          BY <1>0, <1>5, <1>6
        <4> QED BY <1>12, <4>1
      <3>2. CASE t = L + 1
        <4>1. descs[Place(base, s)].next <= dhead
          BY <1>4, <3>1 DEF InRing, RecordIn
        <4>2. descs'[Place(base, t)].begin = dhead
          BY <1>0, <1>8, <1>9, <3>2 DEF RingType
        <4> QED BY <1>14, <3>1, <4>1, <4>2
      <3>3. CASE t # L + 1
        <4>1. t \in lo..L /\ t \in old..L
          BY <1>12, <2>3, <3>3
        <4>2. descs[Place(base, s)].next <= descs[Place(base, t)].begin
          BY <1>4, <3>1, <4>1 DEF InRing
        <4> QED BY <1>14, <3>1, <4>1, <4>2
      <3> QED BY <3>2, <3>3
    <2>5. \A s \in lo..(L + 1) : RecordIn(Place(base, s), base, s)'
      <3> TAKE s \in lo..(L + 1)
      <3>1. CASE s \in lo..L
        BY <1>15, <3>1
      <3>2. CASE s = L + 1
        <4>1. s = top
          BY <1>16, <3>2
        <4> HIDE DEF L
        <4> QED BY <1>19, <4>1
      <3> QED BY <2>3, <3>1, <3>2
    <2>7. Len(logged)' = L + 1 /\ head' = (base + (L + 1)) % IdSpace
      BY <1>7, <1>9, <1>10
    <2> HIDE DEF L, new, end
    <2>8. (lo \in 1..(Len(logged) + 1) /\ Len(logged) - lo < Descs)'
      BY <1>0, <1>6, <2>1, <2>7 DEF Descs
    <2>9. (logged # <<>> => lo <= Len(logged) /\ tail = (base + lo) % IdSpace)'
      BY <2>1, <2>2, <2>7
    <2>10. (Live = {Place(base, s) : s \in lo..Len(logged)})'
      BY <1>13, <2>7 DEF Place, DescIndex, Descs
    <2>11. (\A s \in lo..Len(logged) : RecordIn(Place(base, s), base, s))'
      BY <2>5, <2>7
    <2>12. (\A s, t \in lo..Len(logged) : s < t => descs[Place(base, s)].next <= descs[Place(base, t)].begin)'
      BY <2>4, <2>7 DEF Place, DescIndex, Descs
    <2> QED BY <2>7, <2>8, <2>9, <2>10, <2>11, <2>12 DEF InRing
  <1>18. lo \in 1..(Len(logged)' + 1)
    BY <1>0, <1>4, <1>5, <1>6, <1>10
  <1> QED BY <1>3, <1>11, <1>17, <1>18 DEF RingIInv

LEMMA CommitKeeps ==
    ASSUME RingIInv, NEW x \in DOMAIN descs, Commit(x)
    PROVE  RingIInv'
  <1>0. RingType /\ Descs \in Nat \ {0} /\ Len(logged) \in Nat
    BY LogAssumption DEF RingIInv, RingType
  <1>1. PICK base \in 0..(IdSpace - 1) : \E old \in 1..(Len(logged) + 1) : InRing(base, old)
    BY DEF RingIInv
  <1>2. PICK old \in 1..(Len(logged) + 1) : InRing(base, old)
    BY <1>1
  <1>3. base \in Nat /\ old \in Nat
    BY <1>0, <1>1, LogAssumption
  <1>4. x \in Live /\ x \in 0..(Descs - 1)
    BY <1>0, NumbersOfStates DEF Commit, Live, RingType
  <1>5. PICK r : r = infos[x].seq
    OBVIOUS
  <1>6. r \in old..Len(logged) /\ x = Place(base, r)
    BY <1>0, <1>2, <1>3, <1>4, <1>5, LiveFacts
  <1>7. PICK text : text = logged[r]
    OBVIOUS
  <1>8. PICK at : at = BlockAt(descs[x].begin, descs[x].next)
    OBVIOUS
  <1>9. /\ r \in 1..Len(logged) /\ RecordIn(x, base, r)
        /\ text \in Seq(Range(text)) /\ Len(text) \in Nat /\ Len(text) + 1 < TextSize
    <2>1. r \in 1..Len(logged) /\ RecordIn(x, base, r)
      BY <1>0, <1>2, <1>3, <1>6, RecordFacts
    <2> QED BY <1>0, <1>7, <2>1, TextFacts
  <1>10. at \in Nat /\ \A k \in 0..Len(text) : at + k \in DOMAIN data
    <2> DEFINE b == descs[x].begin
               e == descs[x].next
               n == Len(text) + 1
    <2>1. b \in Nat /\ e = NextLpos(b, n)
      BY <1>0, <1>4, <1>7, <1>9 DEF RecordIn, RingType
    <2>2. n \in Nat /\ 1 <= n /\ n < TextSize
      BY <1>9
    <2> HIDE DEF b, e
    <2>3. BlockAt(b, e) \in Nat /\ \A k \in 0..(n - 1) : BlockAt(b, e) + k < TextSize
      BY <2>1, <2>2, BlockFacts
    <2>4. at = BlockAt(b, e)
      BY <1>8 DEF b, e
    <2> HIDE DEF n
    <2>5. \A k \in 0..(n - 1) : at + k \in 0..(TextSize - 1)
      <3> TAKE k \in 0..(n - 1)
      <3>1. at \in Nat /\ at + k < TextSize
        BY <2>3, <2>4
      <3> QED BY <2>2, <3>1, LogAssumption
    <2> QED BY <1>0, <1>9, <2>3, <2>4, <2>5 DEF RingType, n
  <1>11. /\ data' = [c \in DOMAIN data |->
                       IF c = at THEN <<r>> ELSE IF c - at \in 1..Len(text) THEN <<r, text[c - at]>> ELSE data[c]]
         /\ infos' = [infos EXCEPT ![x].len = Len(text)]
         /\ descs' = [descs EXCEPT ![x].state = Committed]
         /\ UNCHANGED <<head, tail, dhead, dtail, logged>> /\ descs[x].state = Reserved
    BY <1>5, <1>7, <1>8 DEF Commit
  <1>12. RingType'
    <2>1. descs' \in [0..(Descs - 1) -> [state : 0..3, id : Nat, begin : Nat, next : Nat]]
      <3>1. descs \in [0..(Descs - 1) -> [state : 0..3, id : Nat, begin : Nat, next : Nat]]
        BY <1>0 DEF RingType
      <3>2. \A y \in 0..(Descs - 1) : descs'[y] \in [state : 0..3, id : Nat, begin : Nat, next : Nat]
        <4> TAKE y \in 0..(Descs - 1)
        <4>1. descs[y] \in [state : 0..3, id : Nat, begin : Nat, next : Nat]
          BY <3>1
        <4>2. CASE y = x
          <5>1. descs'[y] = [descs[y] EXCEPT !.state = 1]
            BY <1>4, <1>11, <3>1, <4>2, NumbersOfStates
          <5> QED BY <4>1, <5>1
        <4>3. CASE y # x
          BY <1>4, <1>11, <3>1, <4>1, <4>3
        <4> QED BY <4>2, <4>3
      <3> QED BY <1>11, <3>1, <3>2
    <2>2. infos' \in [0..(Descs - 1) -> [seq : Nat, ts : Nat, len : Nat]]
      BY <1>0, <1>4, <1>9, <1>11 DEF RingType
    <2>3. DOMAIN data' = 0..(TextSize - 1) /\ data' = [c \in DOMAIN data' |-> data'[c]]
      BY <1>0, <1>11 DEF RingType
    <2> QED BY <1>0, <1>11, <2>1, <2>2, <2>3 DEF RingType
  <1>13. /\ \A y \in 0..(Descs - 1) : y # x => descs'[y] = descs[y] /\ infos'[y] = infos[y]
         /\ descs'[x] = [descs[x] EXCEPT !.state = Committed]
         /\ infos'[x] = [infos[x] EXCEPT !.len = Len(text)]
    BY <1>0, <1>4, <1>11 DEF RingType
  <1>14. Live' = Live
    <2>1. ASSUME NEW y PROVE y \in Live' <=> y \in Live
      <3>1. DOMAIN descs = 0..(Descs - 1) /\ DOMAIN descs' = 0..(Descs - 1)
        BY <1>0, <1>12 DEF RingType
      <3>2. descs'[x].state = Committed
        BY <1>0, <1>4, <1>13 DEF RingType
      <3>3. CASE y = x
        BY <1>4, <3>1, <3>2, <3>3, NumbersOfStates DEF Live
      <3>4. CASE y # x
        BY <1>13, <3>1, <3>4 DEF Live
      <3> QED BY <3>3, <3>4
    <2> QED BY <2>1
  <1>15. \A y \in 0..(Descs - 1) : descs'[y].begin = descs[y].begin /\ descs'[y].next = descs[y].next
                                    /\ descs'[y].id = descs[y].id /\ infos'[y].seq = infos[y].seq
    <2> TAKE y \in 0..(Descs - 1)
    <2>1. CASE y = x
      BY <1>0, <1>4, <1>13, <2>1 DEF RingType
    <2>2. CASE y # x
      BY <1>13, <2>2
    <2> QED BY <2>1, <2>2
  <1>16. ASSUME NEW s \in old..Len(logged) PROVE RecordIn(Place(base, s), base, s)'
    <2> DEFINE y == Place(base, s)
    <2>1. RecordIn(y, base, s) /\ y \in 0..(Descs - 1) /\ s \in 1..Len(logged)
      BY <1>0, <1>2, <1>3, RecordFacts
    <2>2. Place(base, s)' = y
      BY DEF Place, DescIndex, Descs
    <2>3. CASE s = r
      <3>1. y = x
        BY <1>6, <2>3
      <3>2. \A k \in 1..Len(text) : data'[at + k] = <<r, text[k]>>
        <4> TAKE k \in 1..Len(text)
        <4>1. at + k \in DOMAIN data
          BY <1>9, <1>10
        <4>2. (at + k) - at = k /\ at + k # at
          BY <1>9, <1>10
        <4> QED BY <1>11, <4>1, <4>2
      <3>3. descs'[x].state = Committed /\ infos'[x].len = Len(text)
        BY <1>0, <1>4, <1>13 DEF RingType
      <3> HIDE DEF y
      <3>4. RecordIn(x, base, s)'
        <4>1. /\ descs'[x].begin = descs[x].begin /\ descs'[x].next = descs[x].next
              /\ descs'[x].id = descs[x].id /\ infos'[x].seq = infos[x].seq
          BY <1>4, <1>15
        <4>2. BlockAt(descs'[x].begin, descs'[x].next) = at
          BY <1>8, <4>1
        <4>3. logged'[s] = text /\ dhead' = dhead
          BY <1>7, <1>11, <2>3
        <4>4. \A k \in 1..Len(logged'[s]) : data'[BlockAt(descs'[x].begin, descs'[x].next) + k] = <<s, logged'[s][k]>>
          BY <2>3, <3>2, <4>2, <4>3
        <4>5. /\ descs[x].id = (base + s) % IdSpace /\ infos[x].seq = s
              /\ descs[x].next = NextLpos(descs[x].begin, Len(text) + 1)
              /\ descs[x].next <= dhead /\ StartOf(descs[x].begin, descs[x].next) >= dhead - TextSize
          BY <1>7, <1>9, <2>3 DEF RecordIn
        <4>6. /\ descs'[x].state # Reusable /\ descs'[x].state # Reserved
          BY <3>3, NumbersOfStates
        <4>7. StartOf(descs'[x].begin, descs'[x].next) >= dhead - TextSize
              /\ descs'[x].next = NextLpos(descs'[x].begin, Len(text) + 1)
          BY <4>1, <4>5
        <4> QED BY <3>3, <4>1, <4>3, <4>4, <4>5, <4>6, <4>7 DEF RecordIn, ValidDesc
      <3> QED BY <2>2, <3>1, <3>4 DEF RecordIn, ValidDesc
    <2>4. CASE s # r
      <3>1. y # x
        <4>1. infos[y].seq = s
          BY <2>1 DEF RecordIn
        <4> QED BY <1>5, <2>4, <4>1
      <3>2. \A k \in 1..Len(logged[s]) : BlockAt(descs[y].begin, descs[y].next) + k \in DOMAIN data =>
               data'[BlockAt(descs[y].begin, descs[y].next) + k] = data[BlockAt(descs[y].begin, descs[y].next) + k]
        <4> TAKE k \in 1..Len(logged[s])
        <4> DEFINE c == BlockAt(descs[y].begin, descs[y].next) + k
        <4> SUFFICES ASSUME c \in DOMAIN data PROVE data'[c] = data[c]
          OBVIOUS
        <4>1. \A j \in 0..Len(text) : c # at + j
          <5> TAKE j \in 0..Len(text)
          <5>1. k \in 0..Len(logged[s])
            OBVIOUS
          <5>2. j \in 0..Len(logged[r])
            BY <1>7
          <5> QED BY <1>0, <1>2, <1>3, <1>6, <1>8, <2>4, <5>1, <5>2, CellsApart
        <4>2. c \in Int
          BY <1>0 DEF RingType
        <4> HIDE DEF c
        <4>3. c # at
          <5>1. c # at + 0 /\ at + 0 = at
            BY <1>9, <1>10, <4>1
          <5> QED BY <5>1
        <4>4. c - at \notin 1..Len(text)
          <5> SUFFICES ASSUME c - at \in 1..Len(text) PROVE FALSE
            OBVIOUS
          <5>1. c = at + (c - at) /\ c - at \in 0..Len(text)
            BY <1>10, <4>2
          <5> QED BY <4>1, <5>1
        <4> QED BY <1>11, <4>3, <4>4
      <3>3. \A k \in 1..Len(logged[s]) : BlockAt(descs[y].begin, descs[y].next) + k \in DOMAIN data
        <4> DEFINE b == descs[y].begin
                   e == descs[y].next
                   n == Len(logged[s]) + 1
        <4>1. b \in Nat /\ e = NextLpos(b, n)
          BY <1>0, <2>1 DEF RecordIn, RingType
        <4>2. n \in Nat /\ 1 <= n /\ n < TextSize
          BY <1>0, <2>1, TextFacts
        <4>5. \A k \in 1..Len(logged[s]) : k \in 0..(n - 1)
          BY <1>0, <2>1, TextFacts
        <4> HIDE DEF b, e, n
        <4>3. BlockAt(b, e) \in Nat /\ \A k \in 0..(n - 1) : BlockAt(b, e) + k < TextSize
          BY <4>1, <4>2, BlockFacts
        <4>4. \A k \in 0..(n - 1) : BlockAt(b, e) + k \in 0..(TextSize - 1)
          <5> TAKE k \in 0..(n - 1)
          <5>1. BlockAt(b, e) \in Nat /\ BlockAt(b, e) + k < TextSize
            BY <4>3
          <5> QED BY <4>2, <5>1, LogAssumption
        <4> QED BY <1>0, <4>4, <4>5 DEF RingType, b, e
      <3> HIDE DEF y
      <3>4. descs'[y] = descs[y] /\ infos'[y] = infos[y]
        BY <1>13, <2>1, <3>1
      <3>5. RecordIn(y, base, s)'
        BY <1>11, <2>1, <3>2, <3>3, <3>4 DEF RecordIn, ValidDesc
      <3> QED BY <2>2, <3>5 DEF RecordIn, ValidDesc
    <2> QED BY <2>3, <2>4
  <1>17. InRing(base, old)'
    <2>1. (\A s \in old..Len(logged) : RecordIn(Place(base, s), base, s))'
      BY <1>11, <1>16
    <2>2. (\A s, t \in old..Len(logged) : s < t => descs[Place(base, s)].next <= descs[Place(base, t)].begin)'
      <3>1. \A s \in old..Len(logged) : Place(base, s) \in 0..(Descs - 1)
        BY <1>0, <1>2, <1>3, RecordFacts
      <3>2. \A s, t \in old..Len(logged) : s < t => descs'[Place(base, s)].next <= descs'[Place(base, t)].begin
        BY <1>2, <1>15, <3>1 DEF InRing
      <3> QED BY <1>11, <3>2 DEF Place, DescIndex, Descs
    <2>3. (Live = {Place(base, s) : s \in old..Len(logged)})'
      <3>1. Live' = {Place(base, s) : s \in old..Len(logged)}
        BY <1>2, <1>14 DEF InRing
      <3> QED BY <1>11, <3>1 DEF Place, DescIndex, Descs
    <2>4. (old \in 1..(Len(logged) + 1) /\ Len(logged) - old < Descs)'
      BY <1>2, <1>11 DEF InRing, Descs
    <2>5. (head = (base + Len(logged)) % IdSpace
            /\ (logged # <<>> => old <= Len(logged) /\ tail = (base + old) % IdSpace))'
      BY <1>2, <1>11 DEF InRing
    <2> QED BY <2>1, <2>2, <2>3, <2>4, <2>5 DEF InRing
  <1>18. old \in 1..(Len(logged)' + 1)
    BY <1>11
  <1> QED BY <1>1, <1>12, <1>17, <1>18 DEF RingIInv

LEMMA FinalizeKeeps ==
    ASSUME RingIInv, NEW x \in DOMAIN descs, Finalize(x)
    PROVE  RingIInv'
  <1>0. RingType /\ Descs \in Nat \ {0} /\ Len(logged) \in Nat /\ x \in 0..(Descs - 1)
    BY LogAssumption DEF RingIInv, RingType
  <1>1. PICK base \in 0..(IdSpace - 1) : \E old \in 1..(Len(logged) + 1) : InRing(base, old)
    BY DEF RingIInv
  <1>2. PICK old \in 1..(Len(logged) + 1) : InRing(base, old)
    BY <1>1
  <1>3. base \in Nat /\ old \in Nat
    BY <1>0, <1>1, LogAssumption
  <1>4. /\ descs' = [descs EXCEPT ![x].state = Finalized] /\ descs[x].state = Committed
        /\ UNCHANGED <<infos, data, head, tail, dhead, dtail, logged>>
    BY DEF Finalize
  <1>5. /\ \A y \in 0..(Descs - 1) : y # x => descs'[y] = descs[y]
        /\ descs'[x] = [descs[x] EXCEPT !.state = Finalized] /\ descs'[x].state = Finalized
        /\ DOMAIN descs = 0..(Descs - 1) /\ DOMAIN descs' = 0..(Descs - 1)
    BY <1>0, <1>4 DEF RingType
  <1>6. \A y \in 0..(Descs - 1) : descs'[y].begin = descs[y].begin /\ descs'[y].next = descs[y].next
                                    /\ descs'[y].id = descs[y].id
                                    /\ (descs'[y].state = descs[y].state
                                          \/ (descs[y].state = Committed /\ descs'[y].state = Finalized))
    <2> TAKE y \in 0..(Descs - 1)
    <2>1. CASE y = x
      BY <1>0, <1>4, <1>5, <2>1 DEF RingType
    <2>2. CASE y # x
      <3>1. descs'[y] = descs[y]
        BY <1>5, <2>2
      <3> QED BY <3>1
    <2> QED BY <2>1, <2>2
  <1>7. RingType'
    <2>1. descs' \in [0..(Descs - 1) -> [state : 0..3, id : Nat, begin : Nat, next : Nat]]
      <3>1. descs \in [0..(Descs - 1) -> [state : 0..3, id : Nat, begin : Nat, next : Nat]]
        BY <1>0 DEF RingType
      <3>2. \A y \in 0..(Descs - 1) : descs'[y] \in [state : 0..3, id : Nat, begin : Nat, next : Nat]
        <4> TAKE y \in 0..(Descs - 1)
        <4>1. descs[y] \in [state : 0..3, id : Nat, begin : Nat, next : Nat]
          BY <3>1
        <4>2. CASE y = x
          <5>1. descs'[y] = [descs[y] EXCEPT !.state = 2]
            BY <1>5, <4>2, NumbersOfStates
          <5> QED BY <4>1, <5>1
        <4>3. CASE y # x
          BY <1>5, <4>1, <4>3
        <4> QED BY <4>2, <4>3
      <3> QED BY <1>4, <3>1, <3>2
    <2> QED BY <1>0, <1>4, <2>1 DEF RingType
  <1>8. Live' = Live
    <2>1. ASSUME NEW y PROVE y \in Live' <=> y \in Live
      BY <1>5, <1>6, NumbersOfStates DEF Live
    <2> QED BY <2>1
  <1>9. ASSUME NEW s \in old..Len(logged) PROVE RecordIn(Place(base, s), base, s)'
    <2> DEFINE y == Place(base, s)
    <2>1. RecordIn(y, base, s) /\ y \in 0..(Descs - 1)
      BY <1>0, <1>2, <1>3, RecordFacts
    <2>2. Place(base, s)' = y
      BY DEF Place, DescIndex, Descs
    <2> HIDE DEF y
    <2>3. /\ descs'[y].begin = descs[y].begin /\ descs'[y].next = descs[y].next /\ descs'[y].id = descs[y].id
          /\ \/ descs'[y].state = descs[y].state
             \/ descs[y].state = Committed /\ descs'[y].state = Finalized
      BY <1>6, <2>1
    <2>4. BlockAt(descs'[y].begin, descs'[y].next) = BlockAt(descs[y].begin, descs[y].next)
          /\ StartOf(descs'[y].begin, descs'[y].next) = StartOf(descs[y].begin, descs[y].next)
          /\ NextLpos(descs'[y].begin, Len(logged[s]) + 1) = NextLpos(descs[y].begin, Len(logged[s]) + 1)
      BY <2>3
    <2>5. RecordIn(y, base, s)'
      BY <1>4, <2>1, <2>3, <2>4, NumbersOfStates DEF RecordIn, ValidDesc
    <2> QED BY <2>2, <2>5 DEF RecordIn, ValidDesc
  <1>10. InRing(base, old)'
    <2>1. (\A s \in old..Len(logged) : RecordIn(Place(base, s), base, s))'
      BY <1>4, <1>9
    <2>2. (\A s, t \in old..Len(logged) : s < t => descs[Place(base, s)].next <= descs[Place(base, t)].begin)'
      <3>1. \A s \in old..Len(logged) : Place(base, s) \in 0..(Descs - 1)
        BY <1>0, <1>2, <1>3, RecordFacts
      <3>2. \A s, t \in old..Len(logged) : s < t => descs'[Place(base, s)].next <= descs'[Place(base, t)].begin
        BY <1>2, <1>6, <3>1 DEF InRing
      <3> QED BY <1>4, <3>2 DEF Place, DescIndex, Descs
    <2>3. (Live = {Place(base, s) : s \in old..Len(logged)})'
      <3>1. Live' = {Place(base, s) : s \in old..Len(logged)}
        BY <1>2, <1>8 DEF InRing
      <3> QED BY <1>4, <3>1 DEF Place, DescIndex, Descs
    <2>4. (old \in 1..(Len(logged) + 1) /\ Len(logged) - old < Descs)'
      BY <1>2, <1>4 DEF InRing, Descs
    <2>5. (head = (base + Len(logged)) % IdSpace
            /\ (logged # <<>> => old <= Len(logged) /\ tail = (base + old) % IdSpace))'
      BY <1>2, <1>4 DEF InRing
    <2> QED BY <2>1, <2>2, <2>3, <2>4, <2>5 DEF InRing
  <1>11. old \in 1..(Len(logged)' + 1)
    BY <1>4
  <1> QED BY <1>1, <1>7, <1>10, <1>11 DEF RingIInv

LEMMA RingStays ==
    ASSUME RingIInv, UNCHANGED ring
    PROVE  RingIInv'
  <1>1. /\ descs' = descs /\ infos' = infos /\ data' = data /\ head' = head /\ tail' = tail /\ dhead' = dhead
        /\ logged' = logged
    BY DEF ring
  <1>2. RingType'
    BY <1>1 DEF RingIInv, RingType
  <1>3. PICK base \in 0..(IdSpace - 1), old \in 1..(Len(logged) + 1) : InRing(base, old)
    BY DEF RingIInv
  <1>4. InRing(base, old)'
    <2>2. ASSUME NEW s \in old..Len(logged) PROVE RecordIn(Place(base, s), base, s)'
      <3>1. RecordIn(Place(base, s), base, s)
        BY <1>3 DEF InRing
      <3> QED BY <1>1, <3>1 DEF RecordIn, ValidDesc, Place, DescIndex, Descs
    <2>3. (\A s \in old..Len(logged) : RecordIn(Place(base, s), base, s))'
      BY <1>1, <2>2
    <2> QED BY <1>1, <1>3, <2>3 DEF InRing, Live, Place, DescIndex, Descs
  <1> QED BY <1>1, <1>2, <1>3, <1>4 DEF RingIInv

-----------------------------------------------------------------------------
(* The walk goes over the records.                                         *)

LEMMA TailFacts ==
    ASSUME RingType, NEW base \in Nat, NEW old \in Nat, InRing(base, old), logged # <<>>
    PROVE  /\ tail \in Nat /\ head \in Nat
           /\ \A k \in Nat : DescIndex(tail + k) = Place(base, old + k)
           /\ tail <= head => head - tail = Len(logged) - old
           /\ infos[DescIndex(tail)].seq = old /\ old <= Len(logged)
           /\ \A k \in 0..(Len(logged) - old) : infos[DescIndex(tail + k)].seq = old + k
  <1> DEFINE L == Len(logged)
  <1>0. /\ L \in Nat /\ Descs \in Nat \ {0} /\ IdSpace \in Nat \ {0} /\ old <= L /\ L - old < Descs
        /\ head = (base + L) % IdSpace /\ tail = (base + old) % IdSpace
    BY LogAssumption DEF RingType, InRing
  <1>1. tail \in Nat /\ head \in Nat
    <2>1. base + L \in Nat /\ base + old \in Nat
      BY <1>0
    <2> QED BY <1>0, <2>1
  <1>2. \A k \in Nat : DescIndex(tail + k) = Place(base, old + k)
    <2>1. \A k \in Nat : DescIndex(((base + old) % IdSpace) + k) = Place(base, old + k)
      BY PlaceFacts
    <2> QED BY <1>0, <2>1
  <1>3. ASSUME tail <= head PROVE head - tail = L - old
    <2> DEFINE a == base + old
               b == base + L
    <2>1. a \in Nat /\ b \in Nat /\ a <= b /\ b - a = L - old
      BY <1>0
    <2>2. Descs <= IdSpace
      <3>1. IdSpace % Descs = 0
        BY LogAssumption
      <3>2. IdSpace \div Descs \in Nat /\ IdSpace = Descs * (IdSpace \div Descs) + (IdSpace % Descs)
        BY <1>0, Remainder
      <3> DEFINE c == IdSpace \div Descs
      <3>3. c \in Nat /\ IdSpace = Descs * c
        BY <1>0, <3>1, <3>2
      <3> HIDE DEF c
      <3>4. c >= 1
        BY <1>0, <3>3
      <3> QED BY <1>0, <3>3, <3>4
    <2>3. b - a < IdSpace
      BY <1>0, <2>1, <2>2
    <2>4. a % IdSpace <= b % IdSpace
      BY <1>0, <1>3
    <2> HIDE DEF a, b
    <2>5. (b % IdSpace) - (a % IdSpace) = b - a
      BY <1>0, <2>1, <2>3, <2>4, SameRound
    <2> QED BY <1>0, <2>1, <2>5 DEF a, b
  <1>4. ASSUME NEW k \in 0..(L - old) PROVE infos[DescIndex(tail + k)].seq = old + k
    <2>1. old + k \in old..L /\ k \in Nat
      BY <1>0
    <2>2. infos[Place(base, old + k)].seq = old + k
      BY <2>1 DEF InRing, RecordIn
    <2> QED BY <1>2, <2>1, <2>2
  <1>5. infos[DescIndex(tail)].seq = old
    <2>1. 0 \in 0..(L - old) /\ tail + 0 = tail /\ old + 0 = old
      BY <1>0, <1>1
    <2>2. infos[DescIndex(tail + 0)].seq = old + 0
      BY <1>4, <2>1
    <2> QED BY <2>1, <2>2
  <1> QED BY <1>0, <1>1, <1>2, <1>3, <1>4, <1>5

\* Descs ids in a row lead to every descriptor.
LEMMA AllVisited ==
    ASSUME RingType, tail \in Nat
    PROVE  DOMAIN descs \subseteq Visited(Descs + 1)
  <1>1. Descs \in Nat \ {0} /\ DOMAIN descs = 0..(Descs - 1)
    BY LogAssumption DEF RingType
  <1>2. ASSUME NEW x \in 0..(Descs - 1) PROVE x \in Visited(Descs + 1)
    <2>1. PICK k \in 0..(Descs - 1) : (tail + k) % Descs = x
      BY <1>1, AllPlaces
    <2>2. k \in 0..((Descs + 1) - 1) /\ x = DescIndex(tail + k)
      BY <1>1, <2>1 DEF DescIndex
    <2> QED BY <2>2 DEF Visited
  <1> QED BY <1>1, <1>2

\* From tail to head they lead to all records.
LEMMA LiveVisited ==
    ASSUME RingType, NEW base \in Nat, NEW old \in Nat, InRing(base, old), logged # <<>>, tail <= head,
           NEW n \in Nat, head - tail < n
    PROVE  Live \subseteq Visited(n)
  <1>1. Len(logged) \in Nat /\ head - tail = Len(logged) - old /\ tail \in Nat /\ head \in Nat
    BY TailFacts DEF RingType
  <1>2. ASSUME NEW x \in Live PROVE x \in Visited(n)
    <2>1. PICK s \in old..Len(logged) : x = Place(base, s)
      BY DEF InRing
    <2>2. s - old \in Nat /\ s - old \in 0..(n - 1) /\ old + (s - old) = s
      BY <1>1
    <2>3. DescIndex(tail + (s - old)) = Place(base, old + (s - old))
      BY <2>2, TailFacts
    <2> QED BY <2>1, <2>2, <2>3 DEF Visited
  <1> QED BY <1>2

LEMMA KeptAreLive == RingType => Kept \subseteq Live /\ Kept \subseteq DOMAIN descs
  BY NumbersOfStates DEF Kept, Live, ValidDesc

LEMMA SnapshotKeeps ==
    ASSUME LogIInv, Snapshot
    PROVE  LogIInv'
  <1>1. /\ logPc = "run" /\ logged # <<>> /\ logPc' = "walk" /\ id' = tail /\ lines' = lines
        /\ left' = (IF <<"ring", 0>> \notin holes' THEN Descs + 1 ELSE 0) /\ UNCHANGED ring
    BY DEF Snapshot, Opens
  <1>2. RingIInv'
    BY <1>1, RingStays DEF LogIInv
  <1>3. lines' = <<>> /\ logged' = logged /\ tail' = tail /\ head' = head
    BY <1>1 DEF LogIInv, ring
  <1>4. Descs \in Nat \ {0}
    BY LogAssumption
  <1>5. Walking(0)'
    <2>1. Visited(0)' = {}
      <3>1. 0..(0 - 1) = {}
        OBVIOUS
      <3> QED BY <3>1 DEF Visited
    <2>2. ListedSeqs' = {}
      BY <1>3 DEF ListedSeqs
    <2>3. SeqsOf(Kept \cap Visited(0))' = {}
      BY <2>1 DEF SeqsOf
    <2>4. tail \in Nat
      <3>1. RingType /\ \E base \in 0..(IdSpace - 1) : \E old \in 1..(Len(logged) + 1) : InRing(base, old)
        BY DEF LogIInv, RingIInv
      <3>2. PICK base \in 0..(IdSpace - 1), old \in 1..(Len(logged) + 1) : InRing(base, old)
        BY <3>1
      <3>3. base \in Nat /\ old \in Nat
        BY <3>1, <3>2, LogAssumption DEF RingType
      <3> QED BY <1>1, <3>1, <3>2, <3>3, TailFacts
    <2>5. (left > 0 => <<"ring", 0>> \notin holes /\ left = Descs + 1 - 0 /\ id = tail + 0 /\ (tail <= head => id <= head))'
      BY <1>1, <1>3, <1>4, <2>4 DEF Descs
    <2>6. (left = 0 => Kept \subseteq Visited(0))'
      BY <1>1, <1>4 DEF Kept
    <2>7. (tail <= head => \A m \in DOMAIN lines : lines[m][1] < infos[DescIndex(tail)].seq + 0)'
      BY <1>3
    <2> QED BY <2>2, <2>3, <2>5, <2>6, <2>7 DEF Walking
  <1>6. lines' \in Seq({LineOf(x) : x \in Kept}') /\ Ascending'
    BY <1>3 DEF Ascending
  <1>7. left' \in Nat
    BY <1>1, <1>4
  <1>8. 0 \in 0..(Descs + 1)'
    BY <1>4 DEF Descs
  <1> QED BY <1>1, <1>2, <1>3, <1>5, <1>6, <1>7, <1>8 DEF LogIInv

LEMMA WalkKeeps ==
    ASSUME LogIInv, Walk
    PROVE  LogIInv'
  <1> DEFINE x == DescIndex(id)
  <1>0. /\ RingIInv /\ RingType /\ logPc = "walk" /\ left > 0 /\ left \in Nat /\ logged # <<>>
        /\ lines \in Seq({LineOf(y) : y \in Kept}) /\ (tail <= head => Ascending)
        /\ Descs \in Nat \ {0}
    BY LogAssumption DEF Walk, LogIInv, RingIInv
  <1>1. PICK base \in 0..(IdSpace - 1), old \in 1..(Len(logged) + 1) : InRing(base, old)
    BY <1>0 DEF RingIInv
  <1>2. base \in Nat /\ old \in Nat /\ tail \in Nat /\ head \in Nat
    <2>1. base \in Nat /\ old \in Nat
      BY <1>0, <1>1, LogAssumption DEF RingType
    <2> QED BY <1>0, <1>1, <2>1, TailFacts
  <1>3. PICK n \in 0..(Descs + 1) : Walking(n)
    BY <1>0 DEF LogIInv
  <1>4. /\ <<"ring", 0>> \notin holes /\ left = Descs + 1 - n /\ id = tail + n /\ (tail <= head => id <= head)
        /\ n \in 0..Descs /\ n + 1 \in 0..(Descs + 1)
    BY <1>0, <1>3 DEF Walking
  <1>5. x = DescIndex(tail + n) /\ x \in DOMAIN descs
    <2>1. (tail + n) % Descs \in 0..(Descs - 1)
      <3> DEFINE a == tail + n
      <3>1. a \in Nat
        BY <1>2, <1>4
      <3> HIDE DEF a
      <3>2. a % Descs \in 0..(Descs - 1)
        BY <1>0, <3>1, Remainder
      <3> QED BY <3>2 DEF a
    <2> QED BY <1>0, <1>4, <2>1 DEF DescIndex, RingType
  <1>6. /\ UNCHANGED <<descs, infos, data, head, tail, dhead, logged, holes>> /\ UNCHANGED ring
        /\ logPc' = "walk" /\ id' = (IF id = head THEN id ELSE NextId)
        /\ left' = (IF id = head THEN 0 ELSE left - 1)
    BY <1>0 DEF Walk, ring, logDump
  <1>7. Kept' = Kept /\ \A y : LineOf(y)' = LineOf(y)
    BY <1>6 DEF Kept, LineOf, ValidDesc, Reads, TextAt, Cell
  <1>8. \A k : Visited(k)' = Visited(k)
    BY <1>6 DEF Visited, DescIndex, Descs
  <1>9. Visited(n + 1) = Visited(n) \cup {x}
    <2>1. 0..((n + 1) - 1) = (0..(n - 1)) \cup {n}
      BY <1>4
    <2> QED BY <1>5, <2>1 DEF Visited
  <1>10. \/ x \in Kept /\ lines' = Append(lines, LineOf(x))
         \/ x \notin Kept /\ lines' = lines
    <2>1. CASE <<"desc", x>> \in holes
      <3>1. lines' = lines
        BY <2>1 DEF Walk
      <3> QED BY <2>1, <3>1 DEF Kept
    <2>2. CASE <<"desc", x>> \notin holes /\ (~ValidDesc(x) \/ infos[x].len = 0)
      <3>1. lines' = lines
        BY <2>2 DEF Walk
      <3>2. x \notin Kept
        BY <2>2 DEF Kept
      <3> QED BY <3>1, <3>2
    <2>3. CASE <<"desc", x>> \notin holes /\ ValidDesc(x) /\ infos[x].len > 0
      <3>1. infos[x].len # 0
        BY <2>3
      <3>2. x \in Kept <=> Reads(descs[x].begin, infos[x].len)
        BY <1>4, <1>5, <2>3 DEF Kept
      <3>3. lines' = IF Reads(descs[x].begin, infos[x].len) THEN Append(lines, LineOf(x)) ELSE lines
        BY <2>3, <3>1 DEF Walk, LineOf
      <3> QED BY <3>2, <3>3
    <2>4. infos[x].len \in Nat
      BY <1>0, <1>5 DEF RingType
    <2> QED BY <2>1, <2>2, <2>3, <2>4
  <1>11. lines' \in Seq({LineOf(y) : y \in Kept})
    BY <1>0, <1>10
  <1>12. ListedSeqs' = SeqsOf(Kept \cap Visited(n + 1))
    <2>1. ListedSeqs = SeqsOf(Kept \cap Visited(n))
      BY <1>3 DEF Walking
    <2>2. CASE x \notin Kept /\ lines' = lines
      BY <1>9, <2>1, <2>2 DEF ListedSeqs, SeqsOf
    <2>3. CASE x \in Kept /\ lines' = Append(lines, LineOf(x))
      <3>1. ListedSeqs' = ListedSeqs \cup {infos[x].seq}
        <4>1. /\ DOMAIN lines' = DOMAIN lines \cup {Len(lines) + 1}
              /\ \A m \in DOMAIN lines : lines'[m] = lines[m]
              /\ lines'[Len(lines) + 1] = LineOf(x)
          BY <1>0, <2>3
        <4>2. LineOf(x)[1] = infos[x].seq
          BY DEF LineOf
        <4> QED BY <4>1, <4>2 DEF ListedSeqs
      <3>2. Kept \cap Visited(n + 1) = (Kept \cap Visited(n)) \cup {x}
        BY <1>9, <2>3
      <3> QED BY <2>1, <3>1, <3>2 DEF SeqsOf
    <2> QED BY <1>10, <2>2, <2>3
  <1>13. ASSUME tail <= head
         PROVE  Ascending' /\ \A m \in DOMAIN lines' : lines'[m][1] < infos[DescIndex(tail)].seq + (n + 1)
    <2>1. infos[DescIndex(tail)].seq = old /\ head - tail = Len(logged) - old /\ Len(logged) \in Nat
      <3>1. infos[DescIndex(tail)].seq = old /\ (tail <= head => head - tail = Len(logged) - old)
        BY <1>0, <1>1, <1>2, TailFacts
      <3>2. Len(logged) \in Nat
        BY <1>0 DEF RingType
      <3> QED BY <1>13, <3>1, <3>2
    <2>2. n \in 0..(Len(logged) - old)
      BY <1>2, <1>4, <1>13, <2>1
    <2>3. infos[x].seq = old + n
      BY <1>0, <1>1, <1>2, <1>5, <2>2, TailFacts
    <2>4. \A m \in DOMAIN lines : lines[m][1] \in Nat /\ lines[m][1] < old + n
      <3>1. \A m \in DOMAIN lines : lines[m] \in {LineOf(y) : y \in Kept}
        BY <1>0
      <3>2. \A y \in Kept : LineOf(y)[1] \in Nat
        BY <1>0, KeptAreLive DEF LineOf, RingType
      <3>3. \A m \in DOMAIN lines : lines[m][1] < old + n
        BY <1>3, <1>13, <2>1 DEF Walking
      <3> QED BY <3>1, <3>2, <3>3
    <2>5. CASE x \notin Kept /\ lines' = lines
      <3>1. \A m \in DOMAIN lines : lines[m][1] < old + (n + 1)
        BY <1>2, <1>4, <2>4
      <3> QED BY <1>0, <1>13, <2>1, <2>5, <3>1 DEF Ascending
    <2>6. CASE x \in Kept /\ lines' = Append(lines, LineOf(x))
      <3>1. /\ DOMAIN lines' = 1..(Len(lines) + 1) /\ DOMAIN lines = 1..Len(lines) /\ Len(lines) \in Nat
            /\ \A m \in DOMAIN lines : lines'[m] = lines[m]
            /\ lines'[Len(lines) + 1] = LineOf(x)
        BY <1>0, <2>6
      <3>2. LineOf(x)[1] = old + n
        BY <2>3 DEF LineOf
      <3>3. \A m \in DOMAIN lines' : m \in DOMAIN lines \/ m = Len(lines) + 1
        BY <3>1
      <3>4. \A m \in DOMAIN lines' : lines'[m][1] < old + (n + 1)
        <4> TAKE m \in DOMAIN lines'
        <4>1. CASE m \in DOMAIN lines
          BY <1>2, <1>4, <2>4, <3>1, <4>1
        <4>2. CASE m = Len(lines) + 1
          BY <1>2, <1>4, <3>1, <3>2, <4>2
        <4> QED BY <3>3, <4>1, <4>2
      <3>5. ASSUME NEW m \in DOMAIN lines', NEW k \in DOMAIN lines', m < k PROVE lines'[m][1] < lines'[k][1]
        <4>1. m \in DOMAIN lines
          BY <3>1, <3>5
        <4>2. CASE k \in DOMAIN lines
          <5>1. lines[m][1] < lines[k][1]
            BY <1>0, <1>13, <3>5, <4>1, <4>2 DEF Ascending
          <5> QED BY <3>1, <4>1, <4>2, <5>1
        <4>3. CASE k = Len(lines) + 1
          BY <2>4, <3>1, <3>2, <4>1, <4>3
        <4> QED BY <3>3, <4>2, <4>3
      <3> QED BY <2>1, <3>4, <3>5 DEF Ascending
    <2> QED BY <1>10, <2>5, <2>6
  <1>14. ASSUME left' = 0 PROVE Kept \subseteq Visited(n + 1)
    <2>1. CASE id = head
      <3>1. tail <= head /\ head - tail < n + 1 /\ n + 1 \in Nat
        BY <1>2, <1>4, <2>1
      <3>2. Live \subseteq Visited(n + 1)
        BY <1>0, <1>1, <1>2, <3>1, LiveVisited
      <3> QED BY <1>0, <3>2, KeptAreLive
    <2>2. CASE id # head
      <3>1. n = Descs
        BY <1>0, <1>4, <1>6, <1>14, <2>2
      <3>2. DOMAIN descs \subseteq Visited(n + 1)
        BY <1>0, <1>2, <3>1, AllVisited
      <3> QED BY <1>0, <3>2, KeptAreLive
    <2> QED BY <2>1, <2>2
  <1>15. PICK end \in 0..(Descs + 1) : end = n + 1
    BY <1>4
  <1>16. Walking(end)'
    <2>1. (ListedSeqs = SeqsOf(Kept \cap Visited(end)))'
      BY <1>6, <1>7, <1>8, <1>12, <1>15 DEF SeqsOf
    <2>2. ASSUME left' > 0
          PROVE  left' = Descs + 1 - end /\ id' = tail + end /\ (tail <= head => id' <= head)
      <3>1. id # head /\ left' = left - 1 /\ id \in Nat
        BY <1>2, <1>4, <1>6, <2>2
      <3>2. id' = id + 1
        BY <1>6, <3>1 DEF NextId
      <3> QED BY <1>0, <1>2, <1>4, <1>15, <3>1, <3>2
    <2>3. left' = 0 => Kept \subseteq Visited(end)
      BY <1>14, <1>15
    <2>4. tail <= head => \A m \in DOMAIN lines' : lines'[m][1] < infos[DescIndex(tail)].seq + end
      BY <1>13, <1>15
    <2>5. (left > 0 => <<"ring", 0>> \notin holes /\ left = Descs + 1 - end /\ id = tail + end
                         /\ (tail <= head => id <= head))'
      BY <1>4, <1>6, <2>2 DEF Descs
    <2>6. (left = 0 => Kept \subseteq Visited(end))'
      BY <1>7, <1>8, <2>3
    <2>7. (tail <= head => \A m \in DOMAIN lines : lines[m][1] < infos[DescIndex(tail)].seq + end)'
      BY <1>6, <2>4 DEF DescIndex, Descs
    <2> QED BY <2>1, <2>5, <2>6, <2>7 DEF Walking
  <1>17. left' \in Nat
    BY <1>0, <1>6
  <1>18. RingIInv'
    BY <1>0, <1>6, RingStays
  <1>19. (lines \in Seq({LineOf(y) : y \in Kept}))'
    BY <1>7, <1>11
  <1>20. (tail <= head => Ascending)'
    BY <1>6, <1>13
  <1>21. end \in (0..(Descs + 1))'
    BY <1>15 DEF Descs
  <1> QED BY <1>0, <1>6, <1>16, <1>17, <1>18, <1>19, <1>20, <1>21 DEF LogIInv

\* The steps after the walk leave all of it alone.
LEMMA ReportKeeps ==
    ASSUME LogIInv, UNCHANGED <<ring, walk, logDump>>, logPc # "run", logPc' # "run",
           logPc' = "walk" => logPc = "walk", logPc = "walk" => logPc' = "walk" \/ left = 0
    PROVE  LogIInv'
  <1>1. /\ UNCHANGED <<descs, infos, data, head, tail, dhead, logged, holes>> /\ UNCHANGED ring
        /\ id' = id /\ left' = left /\ lines' = lines
    BY DEF ring, walk, logDump
  <1>2. RingIInv'
    BY <1>1, RingStays DEF LogIInv
  <1>3. Kept' = Kept /\ \A y : LineOf(y)' = LineOf(y)
    BY <1>1 DEF Kept, LineOf, ValidDesc, Reads, TextAt, Cell
  <1>4. \A k : Visited(k)' = Visited(k)
    BY <1>1 DEF Visited, DescIndex, Descs
  <1>5. ListedSeqs' = ListedSeqs /\ SeqsOf(Kept)' = SeqsOf(Kept) /\ Ascending' = Ascending
    BY <1>1, <1>3 DEF ListedSeqs, SeqsOf, Ascending
  <1>6. (lines \in Seq({LineOf(y) : y \in Kept}))'
    BY <1>1, <1>3 DEF LogIInv
  <1>7. ASSUME logPc' = "walk" PROVE \E n \in 0..(Descs + 1)' : Walking(n)'
    <2>1. PICK n \in 0..(Descs + 1) : Walking(n)
      BY <1>7 DEF LogIInv
    <2>2. SeqsOf(Kept \cap Visited(n))' = SeqsOf(Kept \cap Visited(n))
      BY <1>1, <1>3, <1>4 DEF SeqsOf
    <2>3. Walking(n)'
      BY <1>1, <1>3, <1>4, <1>5, <2>1, <2>2 DEF Walking, DescIndex, Descs
    <2> QED BY <2>1, <2>3 DEF Descs
  <1>8. ASSUME logPc' # "walk" PROVE ListedSeqs' = SeqsOf(Kept)'
    <2>1. CASE logPc # "walk"
      BY <1>5, <2>1 DEF LogIInv
    <2>2. CASE logPc = "walk"
      <3>1. PICK n \in 0..(Descs + 1) : Walking(n)
        BY <2>2 DEF LogIInv
      <3>2. left = 0
        BY <1>8, <2>2
      <3>3. Kept \cap Visited(n) = Kept /\ ListedSeqs = SeqsOf(Kept \cap Visited(n))
        BY <3>1, <3>2 DEF Walking
      <3> QED BY <1>5, <3>3
    <2> QED BY <2>1, <2>2
  <1> QED BY <1>1, <1>2, <1>5, <1>6, <1>7, <1>8 DEF LogIInv, Descs

\* While the kernel logs there is no dump.
LEMMA RunKeeps ==
    ASSUME LogIInv, RingIInv', logPc = "run", logPc' = "run", UNCHANGED walk
    PROVE  LogIInv'
  BY DEF LogIInv, walk

LEMMA LogInitInv == LogInit => LogIInv
  BY RingStarts DEF LogIInv, LogInit

LEMMA LogNextInv == LogIInv /\ [LogNext]_logVars => LogIInv'
  <1> SUFFICES ASSUME LogIInv, [LogNext]_logVars PROVE LogIInv'
    OBVIOUS
  <1>0. RingIInv /\ RingType /\ DOMAIN descs = 0..(Descs - 1)
    BY DEF LogIInv, RingIInv, RingType
  <1>1. ASSUME NEW text \in Texts, Reserve(text) PROVE LogIInv'
    <2>1. RingIInv'
      BY <1>0, <1>1, ReserveKeeps
    <2>2. logPc = "run" /\ logPc' = "run" /\ UNCHANGED walk
      BY <1>1 DEF Reserve
    <2> QED BY <2>1, <2>2, RunKeeps
  <1>2. ASSUME NEW x \in DOMAIN descs, Commit(x) PROVE LogIInv'
    <2>1. RingIInv'
      BY <1>0, <1>2, CommitKeeps
    <2>2. logPc = "run" /\ logPc' = "run" /\ UNCHANGED walk
      BY <1>2 DEF Commit
    <2> QED BY <2>1, <2>2, RunKeeps
  <1>3. ASSUME NEW x \in DOMAIN descs, Finalize(x) PROVE LogIInv'
    <2>1. RingIInv'
      BY <1>0, <1>3, FinalizeKeeps
    <2>2. logPc = "run" /\ logPc' = "run" /\ UNCHANGED walk
      BY <1>3 DEF Finalize
    <2> QED BY <2>1, <2>2, RunKeeps
  <1>4. CASE Walked
    <2>1. UNCHANGED <<ring, walk, logDump>> /\ logPc = "walk" /\ logPc' = "sources" /\ left = 0
      BY <1>4 DEF Walked
    <2> QED BY <2>1, ReportKeeps
  <1>5. CASE Collect
    <2>1. UNCHANGED <<ring, walk, logDump>> /\ logPc = "sources" /\ logPc' = "scan"
      BY <1>5 DEF Collect
    <2> QED BY <2>1, ReportKeeps
  <1>6. CASE Scan
    <2>1. UNCHANGED <<ring, walk, logDump>> /\ logPc = "scan" /\ logPc' = "done"
      BY <1>6 DEF Scan
    <2> QED BY <2>1, ReportKeeps
  <1>7. CASE UNCHANGED logVars
    <2>1. UNCHANGED <<ring, walk, logDump>> /\ logPc' = logPc
      BY <1>7 DEF logVars
    <2>2. CASE logPc = "run"
      <3>1. RingIInv'
        BY <1>0, <2>1, RingStays
      <3> QED BY <2>1, <2>2, <3>1, RunKeeps
    <2>3. CASE logPc # "run"
      BY <2>1, <2>3, ReportKeeps
    <2> QED BY <2>2, <2>3
  <1> QED BY <1>1, <1>2, <1>3, <1>4, <1>5, <1>6, <1>7, SnapshotKeeps, WalkKeeps DEF LogNext

\* A record in one piece is read as it was written.
LEMMA TextIsRead ==
    ASSUME RingType, NEW base \in Nat, NEW old \in Nat, InRing(base, old), NEW x \in Live, ValidDesc(x),
           ~Wrapped(descs[x].begin, descs[x].next)
    PROVE  TextAt(descs[x].begin, infos[x].len) = logged[infos[x].seq]
  <1> DEFINE s == infos[x].seq
             b == descs[x].begin
             e == descs[x].next
             text == logged[s]
  <1>1. s \in old..Len(logged) /\ x = Place(base, s)
    BY LiveFacts
  <1>2. RecordIn(x, base, s) /\ s \in 1..Len(logged) /\ b \in Nat
    BY <1>1, RecordFacts
  <1>3. text \in Seq(Range(text)) /\ Len(text) \in Nat /\ Len(text) >= 1 /\ Len(text) + 1 < TextSize
    BY <1>2, TextFacts
  <1>4. descs[x].state # Reserved
    BY NumbersOfStates DEF ValidDesc
  <1>5. infos[x].len = Len(text)
    BY <1>2, <1>4 DEF RecordIn
  <1>6. e = NextLpos(b, Len(text) + 1) /\ \A k \in 1..Len(text) : data[BlockAt(b, e) + k] = <<s, text[k]>>
    BY <1>2 DEF RecordIn
  <1>7. BlockAt(b, e) = b % TextSize
    BY DEF BlockAt
  <1> HIDE DEF s, b, e
  <1>8. (b % TextSize) + (Len(text) + 1) < TextSize
    <2> DEFINE n == Len(text) + 1
    <2>1. n \in Nat /\ 1 <= n /\ n < TextSize /\ e = NextLpos(b, n) /\ ~Wrapped(b, e)
      BY <1>3, <1>6 DEF b, e
    <2> HIDE DEF n
    <2>2. (b % TextSize) + n < TextSize
      BY <1>2, <2>1, BlockFacts
    <2> QED BY <2>2 DEF n
  <1>9. b % TextSize \in Nat /\ TextSize \in Nat
    BY <1>2, <1>3, LogAssumption, Remainder
  <1>10. ASSUME NEW k \in 1..Len(text) PROVE Cell((b % TextSize) + k) = text[k]
    <2>1. (b % TextSize) + k < TextSize
      BY <1>3, <1>8, <1>9
    <2>2. data[(b % TextSize) + k] = <<s, text[k]>>
      BY <1>6, <1>7
    <2>3. Len(<<s, text[k]>>) = 2 /\ <<s, text[k]>>[2] = text[k]
      OBVIOUS
    <2> QED BY <2>1, <2>2, <2>3 DEF Cell
  <1>11. TextAt(b, Len(text)) = [k \in 1..Len(text) |-> text[k]]
    BY <1>10 DEF TextAt
  <1>12. text = [k \in 1..Len(text) |-> text[k]]
    BY <1>3
  <1> QED BY <1>5, <1>11, <1>12 DEF b, s

LEMMA LogInvSuffices == LogIInv => LogInOrder
  <1> SUFFICES ASSUME LogIInv PROVE LogInOrder
    OBVIOUS
  <1>1. logPc # "run" /\ tail <= head => \A m, n \in DOMAIN lines : m < n => lines[m][1] < lines[n][1]
    BY DEF LogIInv, Ascending
  <1>2. ASSUME NEW n \in DOMAIN lines, InOnePiece(lines[n][1])
        PROVE  lines[n][3] = clean_text(logged[lines[n][1]])
    <2>1. RingType /\ logPc # "run"
      BY <1>2 DEF LogIInv, RingIInv
    <2>2. PICK base \in 0..(IdSpace - 1), old \in 1..(Len(logged) + 1) : InRing(base, old)
      BY DEF LogIInv, RingIInv
    <2>3. base \in Nat /\ old \in Nat
      BY <2>1, <2>2, LogAssumption DEF RingType
    <2>4. PICK x \in Kept : lines[n] = LineOf(x)
      BY <1>2, <2>1 DEF LogIInv
    <2>5. x \in Live /\ ValidDesc(x)
      BY <2>1, KeptAreLive DEF Kept
    <2>6. lines[n][1] = infos[x].seq /\ lines[n][3] = clean_text(TextAt(descs[x].begin, infos[x].len))
      BY <2>4 DEF LineOf
    <2>7. PICK y \in Live : infos[y].seq = infos[x].seq /\ ~Wrapped(descs[y].begin, descs[y].next)
      BY <1>2, <2>6 DEF InOnePiece
    <2>8. y = x
      BY <2>1, <2>2, <2>3, <2>5, <2>7, LiveFacts
    <2>9. TextAt(descs[x].begin, infos[x].len) = logged[infos[x].seq]
      BY <2>1, <2>2, <2>3, <2>5, <2>7, <2>8, TextIsRead
    <2> QED BY <2>6, <2>9
  <1>3. logPc \notin {"run", "walk"} => {infos[x].seq : x \in Kept} = {lines[n][1] : n \in DOMAIN lines}
    BY DEF LogIInv, ListedSeqs, SeqsOf
  <1> QED BY <1>1, <1>2, <1>3 DEF LogInOrder

(* Whenever the dump is taken, format_dmesg() lists every committed record *)
(* that can be read, the oldest first, once, and with its own text.        *)
THEOREM LogIsInOrder == LogSpec => []LogInOrder
  <1>1. LogInit => LogIInv
    BY LogInitInv
  <1>2. LogIInv /\ [LogNext]_logVars => LogIInv'
    BY LogNextInv
  <1>3. LogIInv => LogInOrder
    BY LogInvSuffices
  <1> QED BY <1>1, <1>2, <1>3, PTL DEF LogSpec
=============================================================================
