-------------------------- MODULE MCFormatFactory --------------------------
(* FormatFactory over small dumps of every format; addresses are 0..MaxPA. *)
EXTENDS FormatFactory

CONSTANTS
    MaxPA,
    Pad,        \* bound: bytes behind the last record of a LiME file
    Nesting     \* kdump: a PT_LOAD lies in another, or none does

-----------------------------------------------------------------------------
(* LiME: every file of up to two records, good or bad, cut at any byte or  *)
(* padded, and every file of three good records.                           *)

Records(goods) == [good : goods, start : 0..MaxPA, end : 0..MaxPA]

\* The size of the file that holds recs whole.
Bytes(r) == IF r.end < r.start THEN 0 ELSE r.end - r.start + 1
Whole(recs) == MapThenSumSet(LAMBDA i : Hdr + Bytes(recs[i]), 1..Len(recs))

CutAnywhere(recs) == {[recs |-> recs, size |-> n] : n \in 0..(Whole(recs) + Pad)}

UpTo(n, S) == UNION {[1..k -> S] : k \in 0..n}

MCLimeFiles ==
    UNION {CutAnywhere(recs) : recs \in UpTo(2, Records(BOOLEAN))}
    \cup {[recs |-> recs, size |-> Whole(recs)] :
             recs \in [1..3 -> {r \in Records({TRUE}) : r.end >= r.start}]}

-----------------------------------------------------------------------------
(* kdump: up to three program headers with disjoint PT_LOADs in any order, *)
(* or, as /proc/vmcore has the kernel's text, one inside another.          *)
(* A range's bytes lie at 10 times the index of its header; a file is      *)
(* whole at 100 bytes and cut inside a range at 11 and 21.                 *)

Loads == {l \in [type : {"load"}, paddr : 0..MaxPA, filesz : 0..(MaxPA + 1)] :
             l.paddr + l.filesz <= MaxPA + 1}
Others == [type : {"vmcoreinfo", "note"}, paddr : {0}, filesz : {1}]

SpanOf(ph) == ph.paddr .. (ph.paddr + ph.filesz - 1)

Disjoint(s) == \A i, j \in 1..Len(s) :
    (i # j /\ s[i].type = "load" /\ s[j].type = "load") => SpanOf(s[i]) \cap SpanOf(s[j]) = {}

Inside(s) == SpanOf(s[2]) # {} /\ SpanOf(s[2]) \subseteq SpanOf(s[1]) \ {s[1].paddr}

Placed(s) == [i \in 1..Len(s) |-> [type |-> s[i].type, paddr |-> s[i].paddr,
                                   filesz |-> s[i].filesz, offset |-> 10 * i]]

Headers ==
    {s \in UpTo(3, Loads) : Disjoint(s)}
    \cup {<<l, o>> : l \in Loads, o \in Others}
    \cup {<<o, l, o2>> : l \in Loads, o \in Others, o2 \in Others}

Nested == {[good |-> TRUE, phdrs |-> Placed(s), size |-> 100] : s \in {x \in [1..2 -> Loads] : Inside(x)}}

MCKdumpFiles ==
    IF Nesting THEN Nested ELSE
    {[good |-> TRUE, phdrs |-> Placed(s), size |-> n] : s \in Headers, n \in {100, 11, 21}}
    \cup {[good |-> FALSE, phdrs |-> <<>>, size |-> 1]}

-----------------------------------------------------------------------------
(* AVML: up to two ascending chunks whose data may overshoot their range   *)
(* into a hole, with identifiers, bad frames and missing trailers.         *)

Chunk(s, e) == [t |-> "chunk", start |-> s, end |-> e]
Data(n) == [t |-> "data", dec |-> n]
Pass == [t |-> "pass"]
Bad == [t |-> "bad"]
Trailer == [t |-> "trailer"]

FrameSeqs ==
    {<<Pass, Data(n)>> : n \in 1..3} \cup {<<Data(n), Data(k)>> : n \in 1..2, k \in 1..2}
    \cup {<<Data(1), Pass, Data(k)>> : k \in 1..2} \cup {<<Data(1), Bad>>, <<>>}

Chunks == {<<Chunk(s, e)>> \o fs \o tr :
              s \in 0..MaxPA, e \in 0..MaxPA, fs \in FrameSeqs, tr \in {<<Trailer>>, <<>>}}

SumData(c) == MapThenSumSet(LAMBDA k : c[k].dec, {k \in 1..Len(c) : c[k].t = "data"})

InOrder(c, d) == c[1].start + Max({SumData(c), c[1].end - c[1].start}) <= d[1].start

MCAvmlFiles ==
    Chunks \cup {<<Data(1)>>, <<>>}
    \cup UNION {{c \o d : d \in {x \in Chunks : InOrder(c, x)}} :
                   c \in {x \in Chunks : x[Len(x)] = Trailer}}

-----------------------------------------------------------------------------
MCRawSizes == 0..(MaxPA + 1)
MCAddr == 0..(MaxPA + 1)
MCLengths == 0..(MaxPA + 1)
===========================================================================
