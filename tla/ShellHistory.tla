---------------------------- MODULE ShellHistory ----------------------------
(***************************************************************************)
(* Shell history (src/os/linux/bash_history.cpp): what bash's HIST_ENTRY   *)
(* structures, the strings of a shell's heap and the history files in the  *)
(* page cache give, and the report that merges them.                       *)
(*                                                                         *)
(* A piece of text is [form, text, time]: a command ("cmd"), a variable    *)
(* ("env"), "#<time>" ("mark"), zsh's ": <time>:0;<text>" ("zsh"), fish's  *)
(* "- cmd: <text>" ("fish") and "when: <time>" ("when"); text "odd" has    *)
(* characters of no command.  A file is pieces and newlines; a heap has a  *)
(* piece, a pointer ("ptr", to cell `time') or zeros in every cell.  What  *)
(* is not in the dump reads as zeros: no command has any.                  *)
(***************************************************************************)
EXTENDS Integers, Sequences, FiniteSets, SequencesExt, FiniteSetsExt

CONSTANTS
    Dumps,          \* [procs, files]: procs are [pid, comm, meta, heap, used],
                    \* files are [kind, entries, lost, reads]
    PageTokens,     \* bound: pieces of a page of a file
    Generic,        \* commands generic_command_candidate() accepts
    Cap,            \* 5000: commands of a file
    MaxGeneric      \* 25: generic candidates of a heap

VARIABLES
    dump,
    pc,
    at,             \* the process, then the file, that is read
    out,            \* scan_shell_history() of this process
    all,            \* rows so far
    unavailable     \* history files whose content is not

vars == <<dump, pc, at, out, all, unavailable>>

Init ==
    /\ dump \in Dumps
    /\ pc = "bash" /\ at = 1
    /\ out = <<>> /\ all = <<>> /\ unavailable = {}

Piece(form, text, time) == [form |-> form, text |-> text, time |-> time]
Newline == Piece("nl", "", 0)
Zeros == Piece("zero", "", 0)

Row(source, origin, pid, time, command, note) ==
    [source |-> source, origin |-> origin, pid |-> pid, time |-> time, command |-> command, note |-> note]

looks_like_command(t) == t.form \in {"cmd", "env", "zsh", "fish", "when"} /\ t.text # "odd"
generic_command_candidate(t) == t.form = "cmd" /\ t.text \in Generic

\* A command's text: that of a whole line, or what is parsed out of it.
Command(t) == <<t.form, t.text>>
Parsed(t) == <<"cmd", t.text>>

-----------------------------------------------------------------------------
(* A process.                                                              *)

Proc == dump.procs[at]
Shells == {"bash", "zsh", "fish", "sh", "dash", "ksh", "mksh"}
\* meta: what the command line and the environment say.
shell_like_process(p) == p.used /\ (p.comm \in Shells \/ p.meta \in {"SHELL=", "HISTFILE="})
generic_heap_scan_allowed(p) == p.comm \in Shells \/ p.meta = "HISTFILE="

InHeap(h, v) == v.form = "ptr" /\ v.time \in DOMAIN h

\* A HIST_ENTRY: the line, the time or null, and null.
IsEntry(h, i) ==
    /\ InHeap(h, h[i]) /\ h[i + 2] = Zeros
    /\ h[i + 1] = Zeros \/ (InHeap(h, h[i + 1]) /\ h[h[i + 1].time].form = "mark")
    /\ looks_like_command(h[h[i].time]) /\ h[h[i].time].form # "env"

\* scan_bash_history(): the entries, the first of each line.
scan_bash_history(p) ==
    LET h == p.heap
        entries == SelectSeq([i \in 1..(Len(h) - 2) |-> i], LAMBDA i : IsEntry(h, i))
    IN  IF ~p.used THEN <<>>
        ELSE SelectSeq(entries, LAMBDA i : \A j \in ToSet(entries) : j < i => h[j].time # h[i].time)

\* The note is chosen after the timestamp has been moved from: it always
\* says there is none.
BashRow(p, i) ==
    LET h == p.heap
    IN  Row("bash", "heap", p.pid, IF h[i + 1] = Zeros THEN 0 ELSE h[h[i + 1].time].time, Command(h[h[i].time]), "medium")

BashHeap ==
    /\ pc = "bash" /\ at <= Len(dump.procs)
    /\ out' = IF Proc.comm # "bash" THEN <<>>
              ELSE LET found == SelectSeq(scan_bash_history(Proc), LAMBDA i :
                                   BashRow(Proc, i).time # 0 \/ generic_command_candidate(Proc.heap[Proc.heap[i].time]))
                   IN  [n \in DOMAIN found |-> BashRow(Proc, found[n])]
    /\ pc' = "strings"
    /\ UNCHANGED <<dump, at, all, unavailable>>

Seen(rows, command) == \E i \in DOMAIN rows : rows[i].command = command

\* One printable string of the heap.
AddString(rows, t) ==
    CASE ~looks_like_command(t) -> rows
      [] looks_like_command(t) /\ t.form = "zsh" -> IF Seen(rows, Parsed(t)) THEN rows
                           ELSE Append(rows, Row("zsh", "heap", Proc.pid, t.time, Parsed(t), "medium"))
      [] looks_like_command(t) /\ t.form = "fish" -> IF Seen(rows, Parsed(t)) THEN rows
                            ELSE Append(rows, Row("fish", "heap", Proc.pid, 0, Parsed(t), "medium"))
      [] OTHER -> IF /\ generic_heap_scan_allowed(Proc) /\ generic_command_candidate(t)
                     /\ Cardinality({i \in DOMAIN rows : rows[i].note = "low"}) < MaxGeneric
                     /\ ~Seen(rows, Command(t))
                  THEN Append(rows, Row("shell?", "heap", Proc.pid, 0, Command(t), "low"))
                  ELSE rows

HeapStrings ==
    /\ pc = "strings"
    /\ out' = IF shell_like_process(Proc) THEN FoldLeft(AddString, out, Proc.heap) ELSE out
    /\ pc' = "process"
    /\ UNCHANGED <<dump, at, all, unavailable>>

NextProcess ==
    /\ pc = "process"
    /\ all' = all \o out
    /\ at' = at + 1 /\ pc' = "bash"
    /\ UNCHANGED <<dump, out, unavailable>>

Processes ==
    /\ pc = "bash" /\ at > Len(dump.procs)
    /\ at' = 1 /\ pc' = "file"
    /\ UNCHANGED <<dump, out, all, unavailable>>

-----------------------------------------------------------------------------
(* What shells write to their history files, and what is left of it.       *)

Line(piece) == <<piece, Newline>>
Lines(kind, e) ==
    CASE kind \in {"bash", "tcsh"} /\ e.time # 0 -> Line(Piece("mark", "", e.time)) \o Line(Piece("cmd", e.text, 0))
      [] kind = "zsh" /\ e.time # 0 -> Line(Piece("zsh", e.text, e.time))
      [] kind = "fish" -> Line(Piece("fish", e.text, 0)) \o Line(Piece("when", "", e.time))
      [] OTHER -> Line(Piece("cmd", e.text, 0))
Written(f) == FlattenSeq([n \in DOMAIN f.entries |-> Lines(f.kind, f.entries[n])])
PageOf(i) == (i - 1) \div PageTokens
Recovered(f) == [i \in DOMAIN Written(f) |-> IF PageOf(i) \in f.lost THEN Zeros ELSE Written(f)[i]]

\* split_lines(): each the pieces of a line.
Newlines(s) == {i \in DOMAIN s : s[i] = Newline}
split_lines(s) ==
    LET ends == SortSeq(SetToSeq(Newlines(s) \cup {Len(s) + 1}), LAMBDA i, j : i < j)
        whole == [n \in DOMAIN ends |-> SubSeq(s, (IF n = 1 THEN 0 ELSE ends[n - 1]) + 1, ends[n] - 1)]
    IN  IF Last(whole) = <<>> THEN Front(whole) ELSE whole

\* A line of anything but one piece is no command and no time.
OnLine(line) == IF Len(line) = 1 THEN line[1] ELSE Zeros

\* Mutant: there is room for one less.
Emit_OneLess(got, f, time, t, command) ==
    IF Len(got.rows) + 1 < Cap /\ looks_like_command(t)
    THEN [got EXCEPT !.rows = Append(@, Row(f.kind, "file", 0, time, command, "high"))] ELSE got

\* A command of the file, if there is room and it looks like one.
Emit(got, f, time, t, command) ==
    IF Len(got.rows) < Cap /\ looks_like_command(t)
    THEN [got EXCEPT !.rows = Append(@, Row(f.kind, "file", 0, time, command, "high"))] ELSE got

\* fish: `pending' is the record that is open, written when the next begins.
FlushFish(got, f) ==
    [Emit(got, f, got.time, got.pending, Parsed(got.pending)) EXCEPT !.pending = Zeros, !.time = 0, !.have = FALSE]
FishLine(got, line, f) ==
    IF line # <<>> /\ line[1].form = "fish"
    THEN [FlushFish(got, f) EXCEPT !.pending = OnLine(line), !.have = TRUE]
    ELSE IF got.have /\ OnLine(line).form = "when" THEN [got EXCEPT !.time = OnLine(line).time] ELSE got

\* Mutant: a line that is no command leaves the time to the next one.
TextLine_KeepsTime(got, line, f) ==
    LET t == OnLine(line) IN
    IF line = <<>> THEN got
    ELSE IF f.kind \in {"zsh", "generic"} /\ t.form = "zsh" /\ t.text # "odd" THEN [Emit(got, f, t.time, t, Parsed(t)) EXCEPT !.time = 0]
    ELSE IF t.form = "mark" THEN [got EXCEPT !.time = t.time]
    ELSE IF looks_like_command(t) THEN [Emit(got, f, got.time, t, Command(t)) EXCEPT !.time = 0] ELSE got

\* bash, zsh, tcsh and the others: a time is for the line after it.
TextLine(got, line, f) ==
    LET t == OnLine(line) IN
    IF line = <<>> THEN got
    ELSE IF f.kind \in {"zsh", "generic"} /\ t.form = "zsh" /\ t.text # "odd" THEN [Emit(got, f, t.time, t, Parsed(t)) EXCEPT !.time = 0]
    ELSE IF t.form = "mark" THEN [got EXCEPT !.time = t.time]
    ELSE [Emit(got, f, got.time, t, Command(t)) EXCEPT !.time = 0]

parse_history_file(f) ==
    LET none == [rows |-> <<>>, time |-> 0, pending |-> Zeros, have |-> FALSE]
        s == Recovered(f)
    IN  CASE f.kind = "fish" -> FlushFish(FoldLeft(LAMBDA got, l : FishLine(got, l, f), none, split_lines(s)), f).rows
          [] f.kind = "ksh" -> FoldLeft(LAMBDA got, t : Emit(got, f, 0, t, Command(t)), none, s).rows
          [] OTHER -> FoldLeft(LAMBDA got, l : TextLine(got, l, f), none, split_lines(s)).rows

HistoryFile ==
    /\ pc = "file" /\ at <= Len(dump.files)
    /\ LET f == dump.files[at] IN
          /\ all' = IF f.kind # "unknown" /\ f.reads = "cached" THEN all \o parse_history_file(f) ELSE all
          /\ unavailable' = IF f.kind # "unknown" /\ f.reads \in {"zero", "uncached", "large"}
                            THEN unavailable \cup {at} ELSE unavailable
    /\ at' = at + 1
    /\ UNCHANGED <<dump, pc, out>>

\* A row is listed once; rows with a time come first, the earliest first.
Deduplicated(s) == SelectSeq([i \in DOMAIN s |-> i], LAMBDA i : \A j \in 1..(i - 1) : s[j] # s[i])
Earlier(a, b) ==
    IF (a.time = 0) # (b.time = 0) THEN a.time # 0
    ELSE IF a.time # b.time THEN a.time < b.time ELSE a.pid < b.pid

Report ==
    /\ pc = "file" /\ at > Len(dump.files)
    /\ LET once == Deduplicated(all)
       IN  all' = SortSeq([n \in DOMAIN once |-> all[once[n]]], Earlier)
    /\ pc' = "done"
    /\ UNCHANGED <<dump, at, out, unavailable>>

high_confidence_history(r) ==
    \/ r.note = "high"
    \/ r.note # "low" /\ (r.time # 0 \/ r.origin # "heap")
High == SelectSeq(all, high_confidence_history)
Low == SelectSeq(all, LAMBDA r : ~high_confidence_history(r))

Next == BashHeap \/ HeapStrings \/ NextProcess \/ Processes \/ HistoryFile \/ Report

Spec == Init /\ [][Next]_vars

-----------------------------------------------------------------------------
\* What was run and when, by the heaps and the files.
RunAt(text, time) ==
    \/ \E f \in ToSet(dump.files) : \E e \in ToSet(f.entries) : e.text = text /\ e.time = time
    \/ \E p \in ToSet(dump.procs) : \E i \in DOMAIN p.heap :
          \/ p.heap[i].form = "zsh" /\ p.heap[i].text = text /\ p.heap[i].time = time
          \/ i + 2 <= Len(p.heap) /\ IsEntry(p.heap, i) /\ p.heap[p.heap[i].time].text = text
                /\ p.heap[i + 1] # Zeros /\ p.heap[p.heap[i + 1].time] = Piece("mark", "", time)

(* "This pairs each command with the timestamp line that PRECEDES it ...   *)
(* or FOLLOWS it": a command has a time it was run at, whatever of a file  *)
(* is lost, but for fish, where the time of a later record may follow the  *)
(* gap.                                                                    *)
TimesOwn ==
    \A i \in DOMAIN all : all[i].time # 0 /\ all[i].source # "fish" => RunAt(all[i].command[2], all[i].time)

\* The pieces of entry n of a file, by place.
Before(f, n) == Len(FlattenSeq([m \in 1..(n - 1) |-> Lines(f.kind, f.entries[m])]))
Survives(f, n) ==
    \A i \in (Before(f, n) + 1)..(Before(f, n) + Len(Lines(f.kind, f.entries[n]))) : Recovered(f)[i] # Zeros
AfterNewline(f, n) == Before(f, n) = 0 \/ Recovered(f)[Before(f, n)] = Newline

(* Every command of a history file that is in the page cache is reported,  *)
(* if its lines are there and the file has no more than Cap, and at its    *)
(* time, among those to be trusted; a file that cannot be read is said to  *)
(* be there; and so is every timed entry of a bash's heap.                 *)
CommandsFound ==
    pc = "done" =>
        /\ \A k \in DOMAIN dump.files : LET f == dump.files[k] IN
              /\ f.kind # "unknown" => (k \in unavailable <=> f.reads # "cached")
              /\ f.kind # "unknown" /\ f.reads = "cached" /\ Len(f.entries) <= Cap =>
                    \A n \in DOMAIN f.entries :
                       Survives(f, n) /\ AfterNewline(f, n) /\ f.entries[n].text # "odd" =>
                          \E r \in ToSet(High) :
                             /\ r.command = Parsed(f.entries[n]) /\ r.origin = "file"
                             /\ f.kind \in {"bash", "tcsh", "zsh", "fish"} => r.time = f.entries[n].time
        /\ \A p \in ToSet(dump.procs) : p.comm = "bash" /\ p.used =>
              \A i \in 1..(Len(p.heap) - 2) : IsEntry(p.heap, i) =>
                 \E r \in ToSet(High) \cup ToSet(Low) :
                    \/ r.command = Command(p.heap[p.heap[i].time]) /\ r.pid = p.pid
                    \/ p.heap[i + 1] = Zeros /\ ~generic_command_candidate(p.heap[p.heap[i].time])

(* bash_history.cpp:386: "this pairs each command with the timestamp line  *)
(* that PRECEDES it (bash "#<ts>", tcsh "#+<ts>") or FOLLOWS it (fish      *)
(* "when:")".                                                              *)
FishTimesOwn ==
    \A i \in DOMAIN all : all[i].time # 0 => RunAt(all[i].command[2], all[i].time)
=============================================================================
