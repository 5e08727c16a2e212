---------------------------- MODULE MemorySearch ----------------------------
(***************************************************************************)
(* The searches of user memory: the printable strings of a process and the *)
(* indicators of all (src/os/linux/strings_search.cpp), and the YARA scan  *)
(* (src/os/linux/yara_search.cpp), all through PageTable::read()           *)
(* (src/arch/x86_64/paging.cpp), which counts the bytes it got and leaves  *)
(* zeros for the others.                                                   *)
(*                                                                         *)
(* A process is its VMAs and what its memory holds: cells[va] is 0 for a   *)
(* byte that does not print, else a character; pages of p.holes are not in *)
(* the dump.  A string is an indicator of every kind in Kinds it contains  *)
(* the character of, and matches every rule whose pattern it contains.     *)
(***************************************************************************)
EXTENDS Integers, Sequences, FiniteSets, SequencesExt, FiniteSetsExt

CONSTANTS
    Tasks,          \* lists of processes, each [mm, pgd, vmas, cells, holes]
    Page,           \* kPageSize
    Chunk,          \* kReadChunkBytes and kChunk
    VmaLimit,       \* kVmaSizeLimit and kVmaCap
    MaxLen,         \* kMaxStringLen
    MinLen,         \* min_len
    PidCap,         \* max_hits of the indicators' pass
    GlobalCap,      \* kGlobalCap
    Kinds,          \* kinds of indicators, each the character it goes by
    Rules,          \* YARA rules: their patterns
    MaxHits         \* 5000

VARIABLES
    tasks,
    scan,       \* "strings", "iocs" or "yara"
    pc,
    at,         \* the process being scanned
    vmas,       \* the VMAs left of it
    va, left,   \* where in the first of them, and how much of it is left
    carry,      \* carry and carry_va
    out,        \* hits of this process; of all for YARA
    agg,        \* the indicators of each kind
    total,      \* strings that gave some
    rows        \* the section of each kind: <<process, match>>

vars == <<tasks, scan, pc, at, vmas, va, left, carry, out, agg, total, rows>>
place == <<va, left, carry>>

NoCarry == [va |-> 0, text |-> <<>>]

Init ==
    /\ tasks \in Tasks
    /\ scan \in {"strings", "iocs", "yara"}
    /\ pc = "task" /\ at = 1 /\ vmas = <<>> /\ va = 0 /\ left = 0 /\ carry = NoCarry /\ out = <<>>
    /\ agg = [k \in Kinds |-> <<>>] /\ total = 0 /\ rows = [k \in Kinds |-> <<>>]

-----------------------------------------------------------------------------
\* PageTable::read()
Captured(p, a) == a \in DOMAIN p.cells /\ a \div Page \notin p.holes
Byte(p, a) == IF Captured(p, a) THEN p.cells[a] ELSE 0
Got(p, a, n) == Cardinality({x \in a..(a + n - 1) : Captured(p, x)})

Task == tasks[at]
Capped == scan = "iocs" /\ Len(out) >= PidCap

\* vma_scan_priority(): anonymous data, anonymous code, the rest of it, then
\* what files back.
Priority(v) ==
    CASE ~v.file /\ v.write -> 0
      [] ~v.file /\ ~v.write /\ v.exec -> 1
      [] ~v.file /\ ~v.write /\ ~v.exec -> 2
      [] v.file /\ v.write -> 3
      [] OTHER -> 4

\* std::stable_sort by priority; YARA takes them as they come.
Ordered(vs) ==
    IF scan = "yara" THEN vs
    ELSE FlattenSeq([i \in 1..5 |-> SelectSeq(vs, LAMBDA v : Priority(v) = i - 1)])

\* strings.txt and a process's yara.txt are those of the first process.
StartTask ==
    /\ pc = "task" /\ at <= (IF scan = "strings" THEN 1 ELSE Len(tasks))
    /\ out' = IF scan = "yara" THEN out ELSE <<>>
    /\ vmas' = IF ~Task.mm \/ ~Task.pgd THEN <<>> ELSE Ordered(Task.vmas)
    /\ pc' = "vma"
    /\ UNCHANGED <<tasks, scan, at, place, agg, total, rows>>

LastTask ==
    /\ pc = "task" /\ at > (IF scan = "strings" THEN 1 ELSE Len(tasks))
    /\ pc' = "done"
    /\ UNCHANGED <<tasks, scan, at, vmas, place, out, agg, total, rows>>

Skipped(v) == ~v.read \/ v.end = v.start \/ v.end - v.start > VmaLimit

SkipVma ==
    /\ pc = "vma" /\ vmas # <<>> /\ ~Capped /\ Skipped(Head(vmas))
    /\ vmas' = Tail(vmas)
    /\ UNCHANGED <<tasks, scan, pc, at, place, out, agg, total, rows>>

TakeVma ==
    /\ pc = "vma" /\ vmas # <<>> /\ ~Capped /\ ~Skipped(Head(vmas))
    /\ va' = Head(vmas).start /\ left' = Head(vmas).end - Head(vmas).start
    /\ carry' = NoCarry
    /\ pc' = IF scan = "yara" THEN "match" ELSE "chunk"
    /\ UNCHANGED <<tasks, scan, at, vmas, out, agg, total, rows>>

VmasDone ==
    /\ pc = "vma" /\ (vmas = <<>> \/ Capped)
    /\ pc' = IF scan = "iocs" THEN "attribute" ELSE "task"
    /\ at' = IF scan = "iocs" THEN at ELSE at + 1
    /\ UNCHANGED <<tasks, scan, vmas, place, out, agg, total, rows>>

-----------------------------------------------------------------------------
\* extract_vma_strings(), a chunk at a time.

Want == Min({left, Chunk})
Window == [i \in 1..Got(Task, va, Want) |-> Byte(Task, va + i - 1)]

Runs(w) == {r \in (1..Len(w)) \X (1..Len(w)) :
              /\ r[1] <= r[2]
              /\ \A i \in r[1]..r[2] : w[i] # 0
              /\ r[1] > 1 => w[r[1] - 1] = 0
              /\ r[2] < Len(w) => w[r[2] + 1] = 0}

Cut(text) == SubSeq(text, 1, Min({Len(text), MaxLen}))
StringHit(a, text) == [task |-> at, va |-> a, text |-> Cut(text)]

\* The run that continues what the last chunk carried over.
Continued(w) == {r \in Runs(w) : r[1] = 1 /\ carry.text # <<>>}

\* The one that may go on in the next chunk.
Carried(w) == {r \in Runs(w) \ Continued(w) : r[2] = Len(w) /\ Len(w) = Want}

\* Mutant: what was carried over is not put before what follows.
Found_NoCarry(w) ==
    SelectSeq([i \in 1..Cardinality(Runs(w) \ Carried(w)) |->
                 LET r == SetToSortSeq(Runs(w) \ Carried(w), LAMBDA p, q : p[1] < q[1])[i]
                 IN  StringHit(va + r[1] - 1, SubSeq(w, r[1], r[2]))],
              LAMBDA h : Len(h.text) >= MinLen)

\* The hits of a chunk, in order.
Found(w) ==
    LET whole == IF carry.text = <<>> THEN <<>>
                 ELSE <<StringHit(carry.va, carry.text \o
                                    (IF Continued(w) = {} THEN <<>>
                                     ELSE SubSeq(w, 1, (CHOOSE r \in Continued(w) : TRUE)[2])))>>
        fresh == SetToSortSeq(Runs(w) \ (Continued(w) \cup Carried(w)), LAMBDA p, q : p[1] < q[1])
    IN  SelectSeq(whole \o [i \in DOMAIN fresh |->
                              StringHit(va + fresh[i][1] - 1, SubSeq(w, fresh[i][1], fresh[i][2]))],
                  LAMBDA h : Len(h.text) >= MinLen)

Push(hits) == IF scan = "iocs" THEN SubSeq(out \o hits, 1, Min({Len(out \o hits), PidCap})) ELSE out \o hits

\* A window with nothing in it: the scan goes on a page later.
Unreadable ==
    /\ pc \in {"chunk", "match"} /\ left > 0 /\ ~Capped /\ Window = <<>>
    /\ va' = va + Min({left, Page}) /\ left' = left - Min({left, Page})
    /\ carry' = NoCarry
    /\ UNCHANGED <<tasks, scan, pc, at, vmas, out, agg, total, rows>>

\* The scan goes on by as much as was read, wherever in the window that was.
Extract ==
    /\ pc = "chunk" /\ left > 0 /\ ~Capped /\ Window # <<>>
    /\ out' = Push(Found(Window))
    /\ carry' = IF Carried(Window) = {} THEN NoCarry
                ELSE LET r == CHOOSE r \in Carried(Window) : TRUE
                     IN  [va |-> va + r[1] - 1, text |-> Cut(SubSeq(Window, r[1], r[2]))]
    /\ va' = va + Len(Window) /\ left' = left - Len(Window)
    /\ UNCHANGED <<tasks, scan, pc, at, vmas, agg, total, rows>>

Flush ==
    /\ pc = "chunk" /\ (left = 0 \/ Capped)
    /\ out' = IF Len(carry.text) >= MinLen /\ ~Capped THEN Push(<<StringHit(carry.va, carry.text)>>) ELSE out
    /\ carry' = NoCarry
    /\ vmas' = Tail(vmas) /\ pc' = "vma"
    /\ UNCHANGED <<tasks, scan, at, va, left, agg, total, rows>>

-----------------------------------------------------------------------------
\* format_global_iocs(): the indicators of one process after another.

\* extract_iocs() of a string.
Iocs(text, k) == IF k \in ToSet(text) THEN <<text>> ELSE <<>>

\* The indicators of kind k up to hit i.
UpTo(k, i) == agg[k] \o FlattenSeq([j \in 1..i |-> Iocs(out[j].text, k)])

\* The hits that give an indicator of some kind, until there are enough.
Giving == SelectSeq([i \in DOMAIN out |-> i], LAMBDA i : \E k \in Kinds : Iocs(out[i].text, k) # <<>>)
Considered == SubSeq(Giving, 1, Min({Len(Giving), GlobalCap - total}))

\* Each adds the last indicator of every kind, this process's or not.
Attributed(k) ==
    LET given == SelectSeq(Considered, LAMBDA i : UpTo(k, i) # <<>>)
    IN  [n \in DOMAIN given |-> <<at, Last(UpTo(k, given[n]))>>]

\* The last hit that is looked at.
Reached == IF total + Len(Considered) = GlobalCap THEN Last(Considered) ELSE Len(out)

Attribute ==
    /\ pc = "attribute"
    /\ agg' = [k \in Kinds |-> UpTo(k, Reached)]
    /\ rows' = [k \in Kinds |-> rows[k] \o Attributed(k)]
    /\ total' = total + Len(Considered)
    /\ at' = at + 1 /\ pc' = IF total' = GlobalCap THEN "done" ELSE "task"
    /\ UNCHANGED <<tasks, scan, vmas, place, out>>

-----------------------------------------------------------------------------
\* scan_process(): every rule that matches in a window, with the window's
\* address; nothing is carried over to the next.
HasWithin(w, s) == \E i \in 0..(Len(w) - Len(s)) : SubSeq(w, i + 1, i + Len(s)) = s

\* Mutant: the address is not taken along with the window.
Matches_AtStart(w) ==
    LET rules == SetToSeq({s \in Rules : HasWithin(w, s)})
    IN  [i \in DOMAIN rules |-> [task |-> at, va |-> Head(vmas).start, text |-> rules[i]]]

Matches(w) ==
    LET rules == SetToSeq({s \in Rules : HasWithin(w, s)})
    IN  [i \in DOMAIN rules |-> [task |-> at, va |-> va, text |-> rules[i]]]

YaraFull == Len(out) >= MaxHits

Match ==
    /\ pc = "match" /\ left > 0 /\ ~YaraFull /\ Window # <<>>
    /\ out' = SubSeq(out \o Matches(Window), 1, Min({Len(out \o Matches(Window)), MaxHits}))
    /\ va' = va + Len(Window) /\ left' = left - Len(Window)
    /\ UNCHANGED <<tasks, scan, pc, at, vmas, carry, agg, total, rows>>

MatchEnds ==
    /\ pc = "match" /\ (left = 0 \/ YaraFull)
    /\ pc' = IF YaraFull THEN "done" ELSE "vma"
    /\ vmas' = Tail(vmas)
    /\ UNCHANGED <<tasks, scan, at, place, out, agg, total, rows>>

\* format_yara_per_rule(): of the hits there was room for.
PerRule(s) == SelectSeq(out, LAMBDA h : h.text = s)

Next ==
    \/ StartTask \/ LastTask \/ SkipVma \/ TakeVma \/ VmasDone
    \/ Unreadable \/ Extract \/ Flush \/ Attribute \/ Match \/ MatchEnds

Spec == Init /\ [][Next]_vars

-----------------------------------------------------------------------------
CellsAt(p, a, n) == [i \in 1..n |-> Byte(p, a + i - 1)]
Intact(p, v) == \A a \in v.start..(v.end - 1) : Captured(p, a)
Scanned(p) == {p.vmas[i] : i \in {j \in DOMAIN p.vmas : p.mm /\ p.pgd /\ ~Skipped(p.vmas[j])}}

\* What is to be found in a VMA: strings and where they are.
StringsOf(p, v) ==
    LET w == CellsAt(p, v.start, v.end - v.start)
    IN  {[va |-> v.start + r[1] - 1, text |-> Cut(SubSeq(w, r[1], r[2]))] :
            r \in {r \in Runs(w) : r[2] - r[1] + 1 \in MinLen..Chunk}}

(* A string is reported once, at its own address and with what is there    *)
(* there, whatever is missing around it; and when a process is over, every *)
(* string of a region that is all in the dump has been, where it straddles *)
(* windows too (extract_vma_strings carries it over).                      *)
StringsWhole ==
    scan # "yara" =>
        /\ \A i \in DOMAIN out : out[i].text = CellsAt(tasks[out[i].task], out[i].va, Len(out[i].text))
        /\ \A i, j \in DOMAIN out : i # j =>
              out[i].va + Len(out[i].text) <= out[j].va \/ out[j].va + Len(out[j].text) <= out[i].va
        /\ pc = "vma" /\ vmas = <<>> /\ ~Capped =>
              \A v \in Scanned(Task) : Intact(Task, v) =>
                 \A h \in StringsOf(Task, v) : \E i \in DOMAIN out : out[i].va = h.va /\ out[i].text = h.text

(* A YARA hit is of a rule that matches within a window of its address, in *)
(* the process it names; and a match inside one window of a region that is *)
(* all there is listed under its rule unless the hits are full.            *)
RulesMatched ==
    scan = "yara" =>
        /\ \A i \in DOMAIN out : HasWithin(CellsAt(tasks[out[i].task], out[i].va, Chunk), out[i].text)
        /\ pc = "done" /\ ~YaraFull =>
              \A t \in DOMAIN tasks : \A v \in Scanned(tasks[t]) : Intact(tasks[t], v) =>
                 \A s \in Rules : \A a \in v.start..(v.end - Len(s)) :
                    CellsAt(tasks[t], a, Len(s)) = s
                       /\ (a - v.start) \div Chunk = (a + Len(s) - 1 - v.start) \div Chunk
                    => \E i \in DOMAIN PerRule(s) :
                          PerRule(s)[i].task = t /\ PerRule(s)[i].va = a - ((a - v.start) % Chunk)

(* strings_search.cpp:364: "Track ONE per-pid attribution per category     *)
(* (the first)."  An indicator listed with a process is one of that        *)
(* process's strings.                                                      *)
IocsOwn ==
    \A k \in Kinds : \A n \in DOMAIN rows[k] :
        \E a \in DOMAIN tasks[rows[k][n][1]].cells :
            CellsAt(tasks[rows[k][n][1]], a, Len(rows[k][n][2])) = rows[k][n][2]
=============================================================================
