--------------------------- MODULE SymbolResolver ---------------------------
(* resolve_symbols (src/symbols/symbol_resolver.cpp): runs of the program, *)
(* one after the other, on dumps of one kernel release, look for an ISF    *)
(* in a chain of sources and leave what they make in a cache directory     *)
(* for the next run.  A run may be killed at any step.                     *)
(*                                                                         *)
(* A directory has two places for an ISF of the release: the file named    *)
(* after it, which is the one that is written, and a file of another name, *)
(* which only the slow scan finds.  A file is "none", "torn" (it does not  *)
(* parse), "foreign" (another release), "types" (no symbols) or "rich".    *)
(* Opening a file for writing truncates it: it is torn until it is closed. *)
EXTENDS Naturals, Sequences, SequencesExt

CONSTANTS
    Pref,       \* the directory --symbol-cache names
    User,       \* the directory --symbols may name
    StdDirs,    \* the other directories searched, in order
    StdSave,    \* the one of them written to without --symbol-cache
    Blobs,      \* what probe_btf_all may find: sequences of "good", "bad"
    NMirrors,   \* number of mirrors
    Disks,      \* what the directories may hold at first
    Options     \* the SymbolResolveOptions of the runs

Dirs == {Pref, User} \cup Range(StdDirs)

\* Every branch of cache_output_dir is a directory standard_cache_dirs lists.
ASSUME SaveAssumption ==
    /\ StdDirs \in Seq(Range(StdDirs))
    /\ StdSave \in Range(StdDirs)
    /\ Pref \notin Range(StdDirs) /\ User \notin Range(StdDirs) \cup {Pref}
    /\ NMirrors \in Nat

VARIABLES
    disk,       \* directory and place to file
    dump,       \* the dump of this run: banner, BTF blobs, kallsyms
    opts,       \* its SymbolResolveOptions
    pc,         \* the step it is at
    todo,       \* directories still to search
    fallback,   \* types_only_fallback
    cached,     \* have_types_only_cache
    next,       \* the blob or mirror to try next
    body,       \* the download being written
    how, path   \* the result

chain == <<todo, fallback, cached, next, body, how, path>>
vars == <<disk, dump, opts, pc, chain>>

Matching == {"types", "rich"}
Files == {"none", "torn", "foreign"} \cup Matching
Places == {"named", "other"}
NoPath == [dir |-> User, place |-> "nowhere"]

Opts == [user : {"none", "file", "dir"}, cache : BOOLEAN,
         vmlinux : {"none", "missing", "file"}, http : BOOLEAN, fetch : BOOLEAN]
NoOpts == [user |-> "none", cache |-> FALSE, vmlinux |-> "none", http |-> FALSE, fetch |-> FALSE]

\* Below the support floor is "old".
Dumps == [banner : {"none", "garbled"}, blobs : {<<>>}, kallsyms : {FALSE}]
         \cup [banner : {"old", "ok"}, blobs : Blobs, kallsyms : BOOLEAN]
NoDump == [banner |-> "none", blobs |-> <<>>, kallsyms |-> FALSE]

ASSUME InputAssumption ==
    /\ Blobs \subseteq Seq({"good", "bad"})
    /\ Disks \subseteq [Dirs -> [Places -> Files]]
    /\ Options \subseteq Opts

At(p) == disk[p.dir][p.place]

-----------------------------------------------------------------------------
\* A mutant: the directories of the host before the one the user named.
CacheDirs_PrefLast == IF opts.cache THEN StdDirs \o <<Pref>> ELSE StdDirs

\* standard_cache_dirs and cache_output_dir.
CacheDirs == IF opts.cache THEN <<Pref>> \o StdDirs ELSE StdDirs
SaveDir == IF opts.cache THEN Pref ELSE StdSave

Out == [dir |-> SaveDir, place |-> "named"]
Put(file) == disk' = [disk EXCEPT ![SaveDir]["named"] = file]

\* A mutant: the name is believed.
Search_ByName(d) ==
    IF disk[d]["named"] # "none" THEN [dir |-> d, place |-> "named"]
    ELSE IF disk[d]["other"] \in Matching THEN [dir |-> d, place |-> "other"]
    ELSE NoPath

\* search_dir_for_release: names that contain the release first, then every
\* ISF; both times only if its metadata has the release (isf_release).
Search(d) ==
    IF disk[d]["named"] \in Matching THEN [dir |-> d, place |-> "named"]
    ELSE IF disk[d]["other"] \in Matching THEN [dir |-> d, place |-> "other"]
    ELSE NoPath

-----------------------------------------------------------------------------
Init ==
    /\ disk \in Disks
    /\ dump = NoDump /\ opts = NoOpts /\ pc = "idle"
    /\ todo = <<>> /\ fallback = NoPath /\ cached = FALSE /\ next = 1
    /\ body = "none" /\ how = "" /\ path = NoPath

\* The user runs the program.
Start ==
    /\ pc = "idle"
    /\ opts' \in Options /\ dump' \in Dumps
    /\ pc' = "user"
    /\ UNCHANGED <<disk, chain>>

Return(p, h) ==
    /\ path' = p /\ how' = h
    /\ pc' = "load"
    /\ UNCHANGED <<disk, dump, opts, todo, fallback, cached, next, body>>

Goto(step) ==
    /\ pc' = step
    /\ UNCHANGED <<disk, dump, opts, chain>>

\* Step 1: a file is used as it is.
UserFile == pc = "user" /\ opts.user = "file" /\ Return(NoPath, "user-file")

Unsupported ==
    \/ dump.banner \in {"none", "garbled"}
    \/ dump.banner = "old" /\ opts.user = "none" /\ opts.vmlinux = "none"

RefuseDump == pc = "user" /\ opts.user # "file" /\ Unsupported /\ Goto("failed")

\* Step 2: --symbols names a directory; then the caches are next.
UserDir ==
    /\ pc = "user" /\ opts.user # "file" /\ ~Unsupported
    /\ IF opts.user = "dir" /\ Search(User) # NoPath
       THEN Return(Search(User), "auto-discover-user-dir")
       ELSE /\ todo' = CacheDirs
            /\ pc' = "cache"
            /\ UNCHANGED <<disk, dump, opts, fallback, cached, next, body, how, path>>

\* Step 3: the first hit ends the search, with or without symbols.
SearchCache ==
    /\ pc = "cache" /\ todo # <<>>
    /\ LET p == Search(Head(todo)) IN
         \/ /\ p = NoPath
            /\ todo' = Tail(todo)
            /\ UNCHANGED <<disk, dump, opts, pc, fallback, cached, next, body, how, path>>
         \/ /\ p # NoPath /\ At(p) = "rich"
            /\ Return(p, "auto-discover-cache")
         \/ /\ p # NoPath /\ At(p) = "types"
            /\ fallback' = p /\ cached' = TRUE
            /\ pc' = "btf"
            /\ UNCHANGED <<disk, dump, opts, todo, next, body, how, path>>

CacheMiss == pc = "cache" /\ todo = <<>> /\ Goto("btf")

-----------------------------------------------------------------------------
(* Step 3.5: an ISF from the dump itself, from one of the three largest    *)
(* blobs.  btf_to_isf refuses a degenerate blob before it opens the file.  *)

MostBlobs == 3
BlobsLeft == ~cached /\ next <= Len(dump.blobs) /\ next <= MostBlobs

\* A mutant: the first blob that does not convert ends the loop.
BadBlob_Break == pc = "btf" /\ BlobsLeft /\ dump.blobs[next] = "bad" /\ Goto("vmlinux")

BadBlob ==
    /\ pc = "btf" /\ BlobsLeft /\ dump.blobs[next] = "bad"
    /\ next' = next + 1
    /\ UNCHANGED <<disk, dump, opts, pc, todo, fallback, cached, body, how, path>>

OpenBtf ==
    /\ pc = "btf" /\ BlobsLeft /\ dump.blobs[next] = "good"
    /\ Put("torn")
    /\ pc' = "btf-write"
    /\ UNCHANGED <<dump, opts, chain>>

\* The kallsyms of the dump are its symbols; without them it is kept as a
\* fallback unless there is one.
CloseBtf ==
    /\ pc = "btf-write"
    /\ Put(IF dump.kallsyms THEN "rich" ELSE "types")
    /\ IF dump.kallsyms
       THEN /\ path' = Out /\ how' = "btf+kallsyms-from-dump" /\ pc' = "load"
            /\ UNCHANGED fallback
       ELSE /\ fallback' = IF fallback = NoPath THEN Out ELSE fallback
            /\ pc' = "vmlinux"
            /\ UNCHANGED <<path, how>>
    /\ UNCHANGED <<dump, opts, todo, cached, next, body>>

BtfMiss == pc = "btf" /\ ~BlobsLeft /\ Goto("vmlinux")

-----------------------------------------------------------------------------
(* Steps 4 and 6: try_fetch runs tools/fetch_symbols.sh, which leaves a    *)
(* file that exists alone and succeeds.                                    *)

Vmlinux ==
    /\ pc = "vmlinux"
    /\ CASE opts.vmlinux = "none"    -> Goto("http")
         [] opts.vmlinux = "missing" -> Goto("failed")
         [] opts.vmlinux = "file"    -> Goto("from-vmlinux")

Fetch ==
    /\ pc = "fetch"
    /\ Goto(IF opts.fetch THEN "auto-fetched" ELSE "fallback")

Scripts == {"from-vmlinux", "auto-fetched"}
AfterScript == IF pc = "from-vmlinux" THEN "http" ELSE "fallback"

ScriptKeeps == pc \in Scripts /\ At(Out) # "none" /\ Return(Out, pc)

\* No script is found, or there is no package, no dwarf2json, no network.
ScriptFails == pc \in Scripts /\ Goto(AfterScript)

ScriptOpens ==
    /\ pc \in Scripts /\ At(Out) = "none"
    /\ Put("torn")
    /\ how' = pc
    /\ pc' = "script-write"
    /\ UNCHANGED <<dump, opts, todo, fallback, cached, next, body, path>>

\* xz ends.  A vmlinux the user supplied may be another kernel's, and
\* nothing compares its release.
ScriptCloses ==
    /\ pc = "script-write"
    /\ \E f \in {"rich", "foreign"} :
          /\ f = "foreign" => how = "from-vmlinux"
          /\ Put(f)
    /\ path' = Out
    /\ pc' = "load"
    /\ UNCHANGED <<dump, opts, todo, fallback, cached, next, body, how>>

\* xz fails, and with it the script.
ScriptBreaks ==
    /\ pc = "script-write"
    /\ pc' = IF how = "from-vmlinux" THEN "http" ELSE "fallback"
    /\ how' = ""
    /\ UNCHANGED <<disk, dump, opts, todo, fallback, cached, next, body, path>>

-----------------------------------------------------------------------------
(* Step 5: fetch_isf_from_mirrors.                                         *)

BeginHttp ==
    /\ pc = "http"
    /\ next' = 1
    /\ pc' = IF opts.http THEN "mirrors" ELSE "fetch"
    /\ UNCHANGED <<disk, dump, opts, todo, fallback, cached, body, how, path>>

MirrorsMiss == pc = "mirrors" /\ next > NMirrors /\ Goto("fetch")

\* Not found, or too small to be an ISF.
MirrorMisses ==
    /\ pc = "mirrors" /\ next <= NMirrors
    /\ next' = next + 1
    /\ UNCHANGED <<disk, dump, opts, pc, todo, fallback, cached, body, how, path>>

MirrorAnswers(file) ==
    /\ pc = "mirrors" /\ next <= NMirrors
    /\ Put("torn")
    /\ body' = file
    /\ pc' = "http-write"
    /\ UNCHANGED <<dump, opts, todo, fallback, cached, next, how, path>>

CloseDownload ==
    /\ pc = "http-write"
    /\ Put(body)
    /\ pc' = "http-check"
    /\ UNCHANGED <<dump, opts, chain>>

\* validate_downloaded_isf; what does not pass is removed.
CheckDownload ==
    /\ pc = "http-check"
    /\ IF At(Out) \in Matching
       THEN Return(Out, "community-cache")
       ELSE /\ Put("none")
            /\ next' = next + 1
            /\ pc' = "mirrors"
            /\ UNCHANGED <<dump, opts, todo, fallback, cached, body, how, path>>

-----------------------------------------------------------------------------
Fallback ==
    /\ pc = "fallback"
    /\ IF fallback # NoPath THEN Return(fallback, "types-only") ELSE Goto("failed")

\* Engine::create loads the ISF or fails; the user is back at the prompt.
End ==
    /\ opts' = NoOpts /\ dump' = NoDump /\ pc' = "idle"
    /\ todo' = <<>> /\ fallback' = NoPath /\ cached' = FALSE /\ next' = 1
    /\ body' = "none" /\ how' = "" /\ path' = NoPath
    /\ UNCHANGED disk

Finish == pc \in {"load", "failed"} /\ End

\* The process is killed.
Crash == pc \notin {"idle", "load", "failed"} /\ End

Next ==
    \/ Start
    \/ UserFile \/ RefuseDump \/ UserDir
    \/ SearchCache \/ CacheMiss
    \/ BadBlob \/ OpenBtf \/ CloseBtf \/ BtfMiss
    \/ Vmlinux \/ Fetch
    \/ ScriptKeeps \/ ScriptFails \/ ScriptOpens \/ ScriptCloses \/ ScriptBreaks
    \/ BeginHttp \/ MirrorsMiss \/ MirrorMisses
    \/ \E f \in Files \ {"none"} : MirrorAnswers(f)
    \/ CloseDownload \/ CheckDownload
    \/ Fallback \/ Finish \/ Crash

Spec == Init /\ [][Next]_vars

-----------------------------------------------------------------------------
Steps == {"idle", "user", "cache", "btf", "btf-write", "vmlinux", "script-write", "http",
          "mirrors", "http-write", "http-check", "fetch", "fallback", "load", "failed"}

TypeOK ==
    /\ disk \in [Dirs -> [Places -> Files]]
    /\ dump \in Dumps
    /\ opts \in Opts
    /\ pc \in Steps \cup Scripts
    /\ body \in Files

Checked == {"auto-discover-user-dir", "auto-discover-cache",
            "btf+kallsyms-from-dump", "community-cache"}

(* Whatever earlier runs left behind, killed ones included, an ISF that    *)
(* was searched for, made from the dump or downloaded loads and has the    *)
(* release of the dump.  (Not so for a file the script finds in its place, *)
(* nor for a fallback in the save directory, which a download that does    *)
(* not validate has overwritten and removed.)                              *)
CheckedLoads == pc = "load" /\ how \in Checked => At(path) \in Matching

(* A symbol-rich ISF in the --symbol-cache directory survives every later  *)
(* run: that directory is searched before anything is written to it.       *)
RichKept == [][disk[Pref]["named"] = "rich" => disk'[Pref]["named"] = "rich"]_vars

Recoverable(d) ==
    /\ d.banner = "ok" /\ d.kallsyms
    /\ \E i \in 1..Len(d.blobs) : i <= MostBlobs /\ d.blobs[i] = "good"

(* "truly offline": a dump that holds BTF and kallsyms gives full symbols  *)
(* in every run that meets no types-only ISF on its way, whatever broken   *)
(* files it finds and whatever the network does.                           *)
OfflineRich ==
    pc \in {"load", "failed"} /\ opts.user = "none" /\ Recoverable(dump) /\ ~cached
        => pc = "load" /\ At(path) = "rich"

(* "For full symbols, re-run with --auto-fetch or --vmlinux <path>.": what *)
(* is returned as fetched has symbols.                                     *)
FetchedIsRich == pc = "load" /\ how \in Scripts => At(path) # "types"
=============================================================================
