----------------------------- MODULE KernelLog -----------------------------
(***************************************************************************)
(* The kernel's log: the printk ring buffer as the kernel fills it, until  *)
(* a dump is taken at any moment; format_dmesg() (src/os/linux/dmesg.cpp)  *)
(* walking it; and the crash report (src/os/linux/crash_journal.cpp) over  *)
(* what that gave and what the page cache holds of the log files.          *)
(*                                                                         *)
(* Text is a sequence of words, and a word takes one cell of the data      *)
(* ring, as the id before a block's text does.  "nl" is a newline, "gap" a *)
(* byte that was not recovered.                                            *)
(***************************************************************************)
EXTENDS Integers, Sequences, FiniteSets, SequencesExt, FiniteSetsExt

CONSTANTS
    CountBits,      \* 2^CountBits descriptors
    TextSize,       \* cells of the data ring
    IdSpace,        \* 2^62: DESC_ID_MASK + 1
    Texts,          \* what the kernel logs
    MaxRecords,     \* bound: records the kernel logs
    FirstIds,       \* where its id counter may be
    Holes,          \* what may be missing of the ring
    LogFiles,       \* lists of log files
    MaxLine,        \* kMaxLineBytes
    TraceBefore, TraceAfter,  \* lines of a trace before and from the one that matches
    MaxShown        \* lines shown of a text log

Descs == 2^CountBits

\* The ids of a descriptor's records differ by multiples of Descs; a text is
\* of at least a word and shorter than the ring.
ASSUME LogAssumption ==
    /\ Descs \in Nat \ {0} /\ IdSpace \in Nat \ {0} /\ IdSpace % Descs = 0
    /\ FirstIds \subseteq 0..(IdSpace - 1)
    /\ TextSize \in Nat
    /\ \A t \in Texts : t \in Seq(Range(t)) /\ Len(t) \in 1..(TextSize - 2)

VARIABLES
    descs, infos,   \* descriptor ring: by index
    data,           \* data ring: <<record, word>>, or <<record>> for an id
    head, tail,     \* head_id and tail_id
    dhead, dtail,   \* head_lpos and tail_lpos
    logged,         \* every record so far, by sequence number
    logPc,
    holes, files,   \* of the dump
    id, left,       \* the walk: the descriptor and how many more
    lines,          \* dmesg: <<sequence number, time, text>>
    skipped,
    sources,        \* sources of the crash report
    events

ring == <<descs, infos, data, head, tail, dhead, dtail, logged>>
logDump == <<holes, files>>
walk == <<id, left, lines, skipped>>
report == <<sources, events>>
logVars == <<ring, logPc, logDump, walk, report>>

\* DESC_STATE_*
Reserved == 0
Committed == 1
Finalized == 2
Reusable == 3

DescIndex(i) == i % Descs

LogInit ==
    /\ head \in FirstIds /\ tail = head
    /\ descs = [x \in 0..(Descs - 1) |-> [state |-> Reusable, id |-> 0, begin |-> 0, next |-> 0]]
    /\ infos = [x \in 0..(Descs - 1) |-> [seq |-> 0, ts |-> 0, len |-> 0]]
    /\ data = [c \in 0..(TextSize - 1) |-> <<>>]
    /\ dhead = 0 /\ dtail = 0
    /\ logged = <<>>
    /\ logPc = "run"
    /\ holes = {} /\ files = <<>>
    /\ id = 0 /\ left = 0 /\ lines = <<>> /\ skipped = 0
    /\ sources = <<>> /\ events = <<>>

-----------------------------------------------------------------------------
(* The kernel: kernel/printk/printk_ringbuffer.c.                          *)

\* Where a block of n cells goes: one that does not fit before the end of
\* the ring lies at its start.
NextLpos(begin, n) ==
    IF begin \div TextSize = (begin + n) \div TextSize THEN begin + n
    ELSE ((begin + n) \div TextSize) * TextSize + n
Wrapped(begin, next) == begin \div TextSize # next \div TextSize
BlockAt(begin, next) == IF Wrapped(begin, next) THEN 0 ELSE begin % TextSize

Live == {x \in DOMAIN descs : descs[x].state # Reusable}

\* The descriptors that must go: the one whose place the next id takes, and
\* those whose text is in the way.
Evicted(next) ==
    {x \in Live : x = DescIndex(head + 1) \/ descs[x].begin < next - TextSize}

\* A record is reserved, with room for its text.
Reserve(text) ==
    LET next == NextLpos(dhead, Len(text) + 1)
        gone == Evicted(next)
        new == (head + 1) % IdSpace
    IN
    /\ logPc = "run" /\ Len(logged) < MaxRecords
    /\ \A x \in gone : descs[x].state = Finalized
    /\ head' = new
    /\ tail' = IF Live \ gone = {} THEN new
               ELSE descs[CHOOSE x \in Live \ gone : \A y \in Live \ gone : infos[x].seq <= infos[y].seq].id
    /\ descs' = [x \in DOMAIN descs |->
                    IF x = DescIndex(new) THEN [state |-> Reserved, id |-> new, begin |-> dhead, next |-> next]
                    ELSE IF x \in gone THEN [descs[x] EXCEPT !.state = Reusable] ELSE descs[x]]
    /\ infos' = [infos EXCEPT ![DescIndex(new)] = [seq |-> Len(logged) + 1, ts |-> Len(logged) + 1, len |-> 0]]
    /\ dhead' = next /\ dtail' = Max({dtail, next - TextSize})
    /\ logged' = Append(logged, text)
    /\ UNCHANGED <<data, logPc, logDump, walk, report>>

\* Its writer copies the text and commits.
Commit(x) ==
    /\ logPc = "run" /\ descs[x].state = Reserved
    /\ LET text == logged[infos[x].seq]
           at == BlockAt(descs[x].begin, descs[x].next)
       IN  /\ data' = [c \in DOMAIN data |->
                          IF c = at THEN <<infos[x].seq>>
                          ELSE IF c - at \in 1..Len(text) THEN <<infos[x].seq, text[c - at]>> ELSE data[c]]
           /\ infos' = [infos EXCEPT ![x].len = Len(text)]
    /\ descs' = [descs EXCEPT ![x].state = Committed]
    /\ UNCHANGED <<head, tail, dhead, dtail, logged, logPc, logDump, walk, report>>

Finalize(x) ==
    /\ logPc = "run" /\ descs[x].state = Committed
    /\ descs' = [descs EXCEPT ![x].state = Finalized]
    /\ UNCHANGED <<infos, data, head, tail, dhead, dtail, logged, logPc, logDump, walk, report>>

\* The printk_ringbuffer itself can be read, and its sizes are plausible.
Opens == <<"ring", 0>> \notin holes'

\* The dump is taken.  A hole is <<"ring", 0>>, <<"desc", index>> or
\* <<"text", cell>>.
Snapshot ==
    /\ logPc = "run" /\ logged # <<>>
    /\ logPc' = "walk"
    /\ holes' \in Holes /\ files' \in LogFiles
    /\ id' = tail /\ left' = IF Opens THEN Descs + 1 ELSE 0
    /\ UNCHANGED <<ring, lines, skipped, report>>

-----------------------------------------------------------------------------
(* format_dmesg()                                                          *)

\* clean_text(): up to the first newline.
clean_text(words) == IF "nl" \in ToSet(words) THEN SubSeq(words, 1, SelectInSeq(words, LAMBDA w : w = "nl") - 1) ELSE words

\* What is in the ring from the block's beginning on, past its end too.
Cell(c) == IF c < TextSize /\ Len(data[c]) = 2 THEN data[c][2] ELSE "junk"
\* Mutant: the id before the text is read as part of it.
TextAt_NoHeader(begin, n) == [k \in 1..n |-> Cell((begin % TextSize) + k - 1)]

TextAt(begin, n) == [k \in 1..n |-> Cell((begin % TextSize) + k)]

Reads(begin, n) == \A k \in 1..n : <<"text", (begin % TextSize) + k>> \notin holes

ValidDesc(x) == descs[x].state \in {Committed, Finalized}

\* The range ends at head_id; ids are not masked on the way.
NextId == IF id + 1 = 0 THEN 1 ELSE id + 1

Walk ==
    /\ logPc = "walk" /\ left > 0
    /\ LET x == DescIndex(id) IN
          \/ /\ <<"desc", x>> \in holes
             /\ skipped' = skipped + 1 /\ UNCHANGED lines
          \/ /\ <<"desc", x>> \notin holes /\ (~ValidDesc(x) \/ infos[x].len = 0)
             /\ UNCHANGED <<skipped, lines>>
          \/ /\ <<"desc", x>> \notin holes /\ ValidDesc(x) /\ infos[x].len > 0
             /\ IF Reads(descs[x].begin, infos[x].len)
                THEN /\ lines' = Append(lines, <<infos[x].seq, infos[x].ts,
                                                 clean_text(TextAt(descs[x].begin, infos[x].len))>>)
                     /\ UNCHANGED skipped
                ELSE skipped' = skipped + 1 /\ UNCHANGED lines
    /\ left' = IF id = head THEN 0 ELSE left - 1
    /\ id' = IF id = head THEN id ELSE NextId
    /\ UNCHANGED <<ring, logPc, logDump, report>>

Walked ==
    /\ logPc = "walk" /\ left = 0
    /\ logPc' = "sources"
    /\ UNCHANGED <<ring, logDump, walk, report>>

-----------------------------------------------------------------------------
(* crash_journal.cpp.  A log file is its kind, whether it is larger than   *)
(* kMaxRecoveredLogBytes, and its words.                                   *)

\* describe_recovered_file_state() of it.
State(f) ==
    IF ToSet(f.words) \subseteq {"gap"} THEN "unavailable"
    ELSE IF "gap" \in ToSet(f.words) THEN "partial" ELSE "checked"

Cached(f) == f.words # <<>>

\* read_candidate_text(): what was not recovered is closed up.
read_candidate_text(f) == SelectSeq(f.words, LAMBDA w : w # "gap")

\* split_lines_limited()
Ends(text) == {i \in DOMAIN text : text[i] = "nl"}
LineEnding(text, i) ==
    SubSeq(text, Max({0} \cup {j \in Ends(text) : j < i}) + 1, i - 1)
split_lines_limited(text) ==
    LET ends == SetToSortSeq(Ends(text) \cup {Len(text) + 1}, LAMBDA i, j : i < j)
        whole == [n \in DOMAIN ends |-> LineEnding(text, ends[n])]
        all == IF text = <<>> \/ Last(text) = "nl" THEN Front(whole) ELSE whole
    IN  [n \in DOMAIN all |-> SubSeq(all[n], 1, Min({Len(all[n]), MaxLine}))]

\* classify_crash_line(): the first category of which it has a word.
Category(line) ==
    LET has == ToSet(line) IN
    IF "skip" \in has THEN "" ELSE IF "panic" \in has THEN "CRITICAL"
    ELSE IF "trace" \in has THEN "HIGH" ELSE IF "oom" \in has THEN "MEDIUM" ELSE ""

Source(name, state, checked, text) == [name |-> name, state |-> state, checked |-> checked, lines |-> text]

\* get_dmesg_source(): an empty log is a diagnostic that begins with ";".
Dmesg ==
    LET text == [n \in DOMAIN lines |-> SubSeq(lines[n][3], 1, Min({Len(lines[n][3]), MaxLine}))]
    IN  IF lines = <<>> THEN Source("dmesg", "unavailable", FALSE, <<>>)
        ELSE Source("dmesg", "checked", TRUE, text)

\* Mutant: a file too large to be read counts as not there.
TextLog_LargeUnavailable(f) ==
    IF ~Cached(f) \/ f.large THEN Source(f.kind, "unavailable", FALSE, <<>>)
    ELSE LET text == read_candidate_text(f)
         IN  Source(f.kind, State(f), text # <<>>, split_lines_limited(text))

\* collect_text_log_sources(), for one file.
TextLog(f) ==
    IF ~Cached(f) THEN Source(f.kind, "unavailable", FALSE, <<>>)
    ELSE IF f.large THEN Source(f.kind, "partial", FALSE, <<>>)
    ELSE LET text == read_candidate_text(f)
         IN  IF text = <<>> THEN Source(f.kind, "unavailable", FALSE, <<>>)
             ELSE Source(f.kind, State(f), TRUE, split_lines_limited(text))

TextLogs == SelectSeq(files, LAMBDA f : f.kind = "text-log")

Collect ==
    /\ logPc = "sources"
    /\ sources' = <<Dmesg>> \o [n \in DOMAIN TextLogs |-> TextLog(TextLogs[n])]
    /\ logPc' = "scan"
    /\ UNCHANGED <<ring, logDump, walk, events>>

\* scan_crash_events()
EventsOf(s) ==
    IF ~s.checked THEN <<>>
    ELSE LET hits == SelectSeq(s.lines, LAMBDA l : Category(l) # "")
         IN  [n \in DOMAIN hits |-> [source |-> s.name, severity |-> Category(hits[n]), evidence |-> hits[n]]]

Scan ==
    /\ logPc = "scan"
    /\ events' = FlattenSeq([n \in DOMAIN sources |-> EventsOf(sources[n])])
    /\ logPc' = "done"
    /\ UNCHANGED <<ring, logDump, walk, sources>>

\* format_crash_summary() and format_crash_events(): the result.
States == {s.state : s \in ToSet(sources)}
Result ==
    IF events # <<>> THEN (IF "partial" \in States THEN "partial" ELSE "checked")
    ELSE IF States \cap {"checked", "partial"} = {} THEN "unavailable"
    ELSE IF "partial" \in States THEN "partial" ELSE "checked"

\* format_crash_call_traces(): the lines around each that may be one's.
Traced(line) == ToSet(line) \cap {"panic", "trace"} # {}
CallTraces ==
    IF ~sources[1].checked THEN {}
    ELSE UNION {Max({1, i - TraceBefore})..Min({Len(sources[1].lines), i + TraceAfter - 1}) :
                  i \in {j \in DOMAIN sources[1].lines : Traced(sources[1].lines[j])}}

\* format_journal_text_logs(): what is shown of a log.
Shown(s) ==
    LET all == SelectSeq(s.lines, LAMBDA l : l # <<>>)
    IN  IF s.checked THEN SubSeq(all, 1, Min({Len(all), MaxShown})) ELSE <<>>

\* format_journald_entries(): the signature is only said to be there if the
\* header's page was read.
Signature(f) ==
    IF f.words = <<>> \/ f.words[1] = "gap" THEN "unavailable"
    ELSE IF f.words[1] # "magic" THEN "partial"
    ELSE IF State(f) = "checked" THEN "checked" ELSE "partial"

LogNext ==
    \/ \E text \in Texts : Reserve(text)
    \/ \E x \in DOMAIN descs : Commit(x) \/ Finalize(x)
    \/ Snapshot \/ Walk \/ Walked \/ Collect \/ Scan

LogSpec == LogInit /\ [][LogNext]_logVars

-----------------------------------------------------------------------------
\* What of the log is in the dump: records that are written, and readable.
Kept == {x \in DOMAIN descs : <<"ring", 0>> \notin holes /\ ValidDesc(x) /\ <<"desc", x>> \notin holes /\ infos[x].len > 0
                                /\ Reads(descs[x].begin, infos[x].len)}

\* A record in one piece.
InOnePiece(n) == \E x \in Live : infos[x].seq = n /\ ~Wrapped(descs[x].begin, descs[x].next)

(* Whenever the dump is taken, in the middle of other writers' records     *)
(* too, dmesg lists every committed record that can be read, the oldest    *)
(* first, once, and with its own text, as long as the ids between tail and *)
(* head do not wrap and the text does not (see LinesOwn).                  *)
LogInOrder ==
    /\ logPc # "run" /\ tail <= head =>
          \A m, n \in DOMAIN lines : m < n => lines[m][1] < lines[n][1]
    /\ \A n \in DOMAIN lines : InOnePiece(lines[n][1]) => lines[n][3] = clean_text(logged[lines[n][1]])
    /\ logPc \notin {"run", "walk"} => {infos[x].seq : x \in Kept} = {lines[n][1] : n \in DOMAIN lines}

(* "This report never treats missing evidence as proof of no crash": when  *)
(* it says it checked and found nothing, every log file with cached pages  *)
(* was recovered whole, and no line of it or of dmesg is one of a crash.   *)
(* A crash in a line that was recovered is among the events, in the blocks *)
(* of call traces if dmesg has it, and among the lines shown of its log    *)
(* unless those are full.                                                  *)
AbsenceHonest ==
    logPc = "done" =>
        /\ Result = "checked" /\ events = <<>> =>
              /\ \A f \in ToSet(TextLogs) : ToSet(f.words) \subseteq {"gap"}
                    \/ (~f.large /\ "gap" \notin ToSet(f.words)
                        /\ \A l \in ToSet(split_lines_limited(f.words)) : Category(l) = "")
              /\ \A n \in DOMAIN lines : \A k \in 1..Min({MaxLine, Len(lines[n][3])}) :
                    lines[n][3][k] = "panic" => "skip" \in ToSet(lines[n][3])
        /\ \A f \in ToSet(TextLogs) : State(f) = "checked" /\ ~f.large =>
              \A l \in ToSet(split_lines_limited(f.words)) : Category(l) # "" =>
                 \E n \in DOMAIN events : events[n].evidence = l
        /\ \A n \in DOMAIN events :
              \/ /\ events[n].source = "dmesg"
                 /\ Traced(events[n].evidence) =>
                       \E i \in CallTraces : sources[1].lines[i] = events[n].evidence
              \/ \E m \in 2..Len(sources) :
                    sources[m].name = events[n].source
                       /\ (events[n].evidence \in ToSet(Shown(sources[m])) \/ Len(Shown(sources[m])) = MaxShown)
        /\ \A f \in ToSet(files) : f.kind = "journald" /\ Signature(f) = "checked" => State(f) = "checked"

(* dmesg.h:21: "Produces a printable /var/log/kern.log-style listing - one *)
(* line per committed/finalized record."  A line is the record's text.     *)
LinesOwn ==
    \A n \in DOMAIN lines : lines[n][3] = clean_text(logged[lines[n][1]])
=============================================================================
