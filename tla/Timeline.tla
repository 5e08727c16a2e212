------------------------------ MODULE Timeline ------------------------------
(***************************************************************************)
(* The forensic timeline (src/os/linux/timeline.cpp): what happened on a   *)
(* machine, by the clocks of the sources that recorded it, put on one axis *)
(* by the boot time the kernel's timekeeper gives, and sorted.             *)
(*                                                                         *)
(* The machine comes first: time passes, it sleeps, things happen, and a   *)
(* dump is taken.  Time is in ticks, Hz of them a second.                  *)
(***************************************************************************)
EXTENDS Integers, Sequences, FiniteSets, SequencesExt, FiniteSetsExt

CONSTANTS
    Hz,             \* bound: ticks of a second
    Boots,          \* when the machine may have booted, in ticks of UTC
    Times, Naps,    \* ticks it may be up, and asleep, before the next event
    MaxEvents,      \* bound: events before the dump
    MinEpoch,       \* kMinEpoch
    MaxEpoch,       \* kMaxEpoch
    FsCap,          \* kFsCap
    MaxListed,      \* rows of a kind that the summary lists
    Timekeepers     \* what is read where the timekeeper may be, in order tried

\* "A wrong offset reads unrelated bytes and fails that gate": only the
\* timekeeper itself makes sense.
ASSUME TimelineAssumption ==
    /\ Hz \in Nat \ {0} /\ Boots \subseteq Nat /\ Times \subseteq Nat /\ Naps \subseteq Nat
    /\ MinEpoch \in Nat /\ MaxEpoch \in Nat /\ FsCap \in Nat /\ MaxListed \in Nat
    /\ \A places \in Timekeepers :
          /\ places \in Seq({<<"unreadable">>, <<"tk">>} \cup ({"is"} \X Int \X Int))
          /\ \A i \in DOMAIN places : places[i][1] = "is" =>
                ~(places[i][3] > 0 /\ places[i][2] - places[i][3] \in MinEpoch..MaxEpoch)

VARIABLES
    booted,         \* when it was booted, in ticks of UTC
    up, asleep,     \* ticks it was up, and asleep, since
    happened,       \* events: [kind, up, asleep] at the time
    stage,
    dumped,         \* what else is in the dump
    epoch,          \* boot_epoch, in seconds; 0 if unknown
    rows

machine == <<booted, up, asleep, happened>>
timelineVars == <<machine, stage, dumped, epoch, rows>>

Kinds == {"exec", "printk", "panic", "command", "write", "load"}

TimelineInit ==
    /\ booted \in Boots /\ up = 0 /\ asleep = 0 /\ happened = <<>>
    /\ stage = "run"
    /\ dumped = <<>> /\ epoch = 0 /\ rows = <<>>

-----------------------------------------------------------------------------
(* The machine.                                                            *)

\* An event of some kind, after a while and perhaps a nap.
Happen(kind) ==
    /\ stage = "run" /\ Len(happened) < MaxEvents
    /\ \E t \in Times, s \in Naps :
          /\ up' = up + t /\ asleep' = asleep + s
          /\ happened' = Append(happened, [kind |-> kind, up |-> up', asleep |-> asleep'])
    /\ UNCHANGED <<booted, stage, dumped, epoch, rows>>

\* The dump: which start time a task_struct has, whether tk_core is known,
\* and what is where its timekeeper may be.
Dump ==
    /\ stage = "run" /\ happened # <<>>
    /\ up' \in {up + t : t \in Times}
    /\ stage' = "epoch"
    /\ \E field \in {"start_boottime", "start_time", "none"}, tk \in BOOLEAN, at \in Timekeepers :
          dumped' = [field |-> field, symbol |-> tk, timekeepers |-> at]
    /\ UNCHANGED <<booted, asleep, happened, epoch, rows>>

Wall(e) == booted + e.up + e.asleep
Seconds(t) == t \div Hz
Fraction(t) == t % Hz

-----------------------------------------------------------------------------
\* compute_boot_epoch(): the first place that reads and makes sense.  At
\* <<"tk">> are xtime_sec, and ktime_sec of CLOCK_MONOTONIC; elsewhere what
\* the place itself says, if it reads.
ReadAt(place) ==
    IF place[1] = "tk" THEN [xtime |-> Seconds(booted + up + asleep), ktime |-> Seconds(up)]
    ELSE [xtime |-> place[2], ktime |-> place[3]]
Since(place) == ReadAt(place).xtime - ReadAt(place).ktime
Sane(place) == place[1] # "unreadable" /\ ReadAt(place).ktime > 0 /\ Since(place) > 0 /\ Since(place) \in MinEpoch..MaxEpoch

compute_boot_epoch ==
    LET places == dumped.timekeepers
        sane == {i \in DOMAIN places : Sane(places[i])}
    IN  IF ~dumped.symbol \/ sane = {} THEN 0 ELSE Since(places[CHOOSE i \in sane : \A j \in sane : i <= j])

Anchor ==
    /\ stage = "epoch"
    /\ epoch' = compute_boot_epoch
    /\ stage' = "proc"
    /\ UNCHANGED <<machine, dumped, rows>>

\* Sort keys: "0|", "1|" and "2|", then what is compared next.
boot_rel_keys(t) == <<0, Seconds(t), Fraction(t)>>
\* Mutant: what is below a second is left out of the key.
dated_keys_Seconds(sec, frac) == <<1, sec, 0>>

dated_keys(sec, frac) == <<1, sec, frac>>

undated(rank, n) == <<2, rank, n>>

\* A time since boot, on the axis there is.
SinceBoot(t) == IF epoch # 0 THEN dated_keys(epoch + Seconds(t), Fraction(t)) ELSE boot_rel_keys(t)

Row(n, type, key) == [event |-> n, type |-> type, key |-> key]
Of(kinds) == {n \in DOMAIN happened : happened[n].kind \in kinds}

\* The n-th of some numbers has n - 1 of them before it.
Nth(S, n) == CHOOSE i \in S : Cardinality({j \in S : j < i}) = n - 1

\* The rows of some events in their order, each with its key.
RowsOf(events, type, keys) ==
    [i \in 1..Cardinality(events) |-> Row(Nth(events, i), type, keys[Nth(events, i)])]

Add(from, events, type, to, keys) ==
    /\ stage = from
    /\ rows' = rows \o RowsOf(events, type, keys)
    /\ stage' = to
    /\ UNCHANGED <<machine, dumped, epoch>>

BootTime(n) == happened[n].up + happened[n].asleep

\* task_struct.start_boottime counts sleep, start_time does not; a process
\* that started at 0 has no row.
StartTime(n) == IF dumped.field = "start_boottime" THEN BootTime(n) ELSE happened[n].up
Started == IF dumped.field = "none" THEN {} ELSE {n \in Of({"exec"}) : StartTime(n) # 0}
ProcessStarts == Add("proc", Started, "PROC", "dmesg", [n \in DOMAIN happened |-> SinceBoot(StartTime(n))])

DmesgLines ==
    Add("dmesg", Of({"printk", "panic"}), "KERN", "crash",
        [n \in DOMAIN happened |-> SinceBoot(happened[n].up)])

\* collect_crash_log_timeline_events() and rekey_legacy_event(): a panic is
\* in dmesg, with its time, and in a log file, without.
CrashEvents ==
    /\ stage = "crash"
    /\ rows' = rows \o RowsOf(Of({"panic"}), "KERN", [n \in DOMAIN happened |-> SinceBoot(happened[n].up)])
                    \o RowsOf(Of({"panic"}), "KERN", [n \in DOMAIN happened |-> undated(0, 0)])
    /\ stage' = "shell"
    /\ UNCHANGED <<machine, dumped, epoch>>

\* Shells note whole seconds of UTC.
ShellCommands ==
    Add("shell", Of({"command"}), "SHELL", "files",
        [n \in DOMAIN happened |-> dated_keys(Seconds(Wall(happened[n])), 0)])

\* Modification times in the window; the most recent FsCap of them.
InWindow == {n \in Of({"write"}) : Seconds(Wall(happened[n])) \in MinEpoch..MaxEpoch}

\* Mutant: the first FsCap are kept.
Recent_First == {n \in InWindow : Cardinality({m \in InWindow : m < n}) < FsCap}

Recent == {n \in InWindow : Cardinality({m \in InWindow : m > n}) < FsCap}

FileTimes ==
    Add("files", Recent, "FILE", "ebpf",
        [n \in DOMAIN happened |-> dated_keys(Seconds(Wall(happened[n])), 0)])

\* bpf_prog_aux.load_time counts sleep; a program loaded at 0 has no row.
Programs ==
    Add("ebpf", {n \in Of({"load"}) : BootTime(n) # 0}, "KERN", "net",
        [n \in DOMAIN happened |-> SinceBoot(BootTime(n))])

\* Sockets and findings have no time: one of each.
Snapshots ==
    /\ stage = "net"
    /\ rows' = rows \o <<Row(0, "NET", undated(2, 0)), Row(0, "EVIL", undated(1, 0))>>
    /\ stage' = "sort"
    /\ UNCHANGED <<machine, dumped, epoch>>

Earlier(a, b) ==
    \/ a[1] < b[1]
    \/ a[1] = b[1] /\ a[2] < b[2]
    \/ a[1] = b[1] /\ a[2] = b[2] /\ a[3] < b[3]

\* std::sort leaves rows of one key in any order: here, as they came.
Precedes(i, j) == Earlier(rows[i].key, rows[j].key) \/ (rows[i].key = rows[j].key /\ i < j)

Sort ==
    /\ stage = "sort"
    /\ rows' = [n \in DOMAIN rows |->
                   rows[CHOOSE i \in DOMAIN rows : Cardinality({j \in DOMAIN rows : Precedes(j, i)}) = n - 1]]
    /\ stage' = "done"
    /\ UNCHANGED <<machine, dumped, epoch>>

\* domain_match() and filter_domain()
Domain == [process |-> "PROC", network |-> "NET", shell |-> "SHELL", kernel |-> "KERN", findevil |-> "EVIL"]
Among(S) == [n \in 1..Cardinality(S) |-> rows[Nth(S, n)]]
filter_domain(d) == Among({i \in DOMAIN rows : d = "all" \/ rows[i].type = Domain[d]})

\* format_timeline_summary_txt(): rows of each type but the files', and the
\* first of those that are listed.
RowsOfType(type) == {i \in DOMAIN rows : rows[i].type = type}
Counts == [t \in {Domain[d] : d \in DOMAIN Domain} |-> Cardinality(RowsOfType(t))]
Listed(type) == SubSeq(Among(RowsOfType(type)), 1, Min({Cardinality(RowsOfType(type)), MaxListed}))

TimelineNext ==
    \/ \E kind \in Kinds : Happen(kind)
    \/ Dump \/ Anchor \/ ProcessStarts \/ DmesgLines \/ CrashEvents \/ ShellCommands
    \/ FileTimes \/ Programs \/ Snapshots \/ Sort

TimelineSpec == TimelineInit /\ [][TimelineNext]_timelineVars

-----------------------------------------------------------------------------
Dated(r) == r.key[1] = 1
Event(r) == happened[r.event]
ByUptime(r) == Event(r).kind \notin {"command", "write"}

(* On a machine that never slept, whatever the fractions of a second of    *)
(* its boot and of the dump: what happened two seconds apart or more is in *)
(* order whoever recorded it, what the clocks since boot recorded is in    *)
(* its exact order, and rows without a time come last.                     *)
Chronological ==
    stage = "done" /\ asleep = 0 =>
        \A i, j \in DOMAIN rows : i < j =>
            /\ Dated(rows[i]) /\ Dated(rows[j]) => Wall(Event(rows[i])) - Wall(Event(rows[j])) < 2 * Hz
            /\ rows[i].key[1] = rows[j].key[1] /\ rows[i].key[1] < 2
                  /\ ByUptime(rows[i]) /\ ByUptime(rows[j]) => Wall(Event(rows[i])) <= Wall(Event(rows[j]))
            /\ rows[i].event = 0 => rows[j].key[1] = 2

(* Every event is a row, by whatever clock, but for processes when no      *)
(* start time is known and the files' times that are no times or older     *)
(* than the FsCap most recent, or the clock of its start or load is at 0.  *)
(* The domains' timelines hold between them every row that is not of a     *)
(* file, as many as the summary counts; and a command the summary leaves   *)
(* out is no earlier than those it lists.                                  *)
RowsKept ==
    stage = "done" =>
        /\ \A n \in DOMAIN happened :
              \/ \E i \in DOMAIN rows : rows[i].event = n
              \/ happened[n].kind = "exec" /\ (dumped.field = "none" \/ StartTime(n) = 0)
              \/ happened[n].kind = "load" /\ BootTime(n) = 0
              \/ /\ happened[n].kind = "write"
                 /\ \/ Seconds(Wall(happened[n])) \notin MinEpoch..MaxEpoch
                    \/ Cardinality({m \in DOMAIN happened : m > n /\ happened[m].kind = "write"}) >= FsCap
        /\ \A i \in DOMAIN rows : rows[i].type # "FILE" =>
              Cardinality({d \in DOMAIN Domain : rows[i] \in ToSet(filter_domain(d))}) = 1
        /\ \A d \in DOMAIN Domain : Counts[Domain[d]] = Len(filter_domain(d))
        /\ \A i \in DOMAIN rows : rows[i].type = "SHELL" =>
              \/ rows[i] \in ToSet(Listed("SHELL"))
              \/ /\ Len(Listed("SHELL")) = MaxListed
                 /\ \A r \in ToSet(Listed("SHELL")) : ~Earlier(rows[i].key, r.key)

(* The timeline, its domains and its summary keep what happened, in order. *)
TimelineTrue == Chronological /\ RowsKept

(* timeline.cpp:53: "so they interleave with wall-clock events (shell,     *)
(* file MAC) on ONE true chronological axis".  What happened two seconds   *)
(* apart or more is in order.                                              *)
OneTrueAxis ==
    stage = "done" =>
        \A i, j \in DOMAIN rows : i < j /\ Dated(rows[i]) /\ Dated(rows[j]) =>
            Wall(Event(rows[i])) - Wall(Event(rows[j])) < 2 * Hz
=============================================================================
