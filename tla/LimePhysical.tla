---------------------------- MODULE LimePhysical ----------------------------
(***************************************************************************)
(* LiME dumps (src/formats/lime_format.cpp): load_segments() walks the     *)
(* headers of the file and refuses what it cannot trust, read() walks the  *)
(* segments.                                                               *)
(*                                                                         *)
(* A file is a sequence of records, each a header of Hdr bytes and the     *)
(* bytes of its range, cut at `size` bytes or padded with junk up to it.   *)
(***************************************************************************)
EXTENDS Integers, Sequences, FiniteSets, FiniteSetsExt

CONSTANTS
    Files,      \* the files to open: [recs, size]
    Hdr,        \* sizeof(LimeHeader)
    Addr,       \* the addresses a caller asks for
    Lengths     \* the lengths it asks for

VARIABLES
    file,       \* the MemorySource
    status,     \* "opening", "open", "failed"
    off,        \* load_segments: where the next header is
    prev_end,   \* load_segments: the end of the last segment
    segs,       \* segs_
    max,        \* max_addr_
    req,        \* the read in progress
    idx,        \* read: the segment the loop is at
    cur,        \* read: cur
    dst,        \* read: the caller's buffer
    total,      \* read: the bytes counted so far
    reply       \* what the last read returned

vars == <<file, status, off, prev_end, segs, max, req, idx, cur, dst, total, reply>>
loading == <<off, prev_end, segs>>
reading == <<req, idx, cur, dst, total, reply>>

NoReq == [pa |-> -1, len |-> 0]
NoReply == [pa |-> -1, bytes |-> <<>>, count |-> 0]
Zero == -1

-----------------------------------------------------------------------------
(* The file.                                                               *)

DataLen(r) == IF r.end < r.start THEN 0 ELSE r.end - r.start + 1

\* Where record i of f begins.
RecordOff(f, i) ==
    LET at[k \in 0..Len(f.recs)] == IF k = 0 THEN 0 ELSE at[k-1] + Hdr + DataLen(f.recs[k])
    IN  at[i-1]

Junk == [good |-> FALSE, start |-> 0, end |-> 0]

HeaderAt(f, o) ==
    IF \E i \in 1..Len(f.recs) : RecordOff(f, i) = o
    THEN f.recs[CHOOSE i \in 1..Len(f.recs) : RecordOff(f, i) = o]
    ELSE Junk

\* MemorySource::read clamps to the end of the file.
SourceRead(f, o, n) == IF o >= f.size THEN 0 ELSE Min({n, f.size - o})

\* The ranges the file holds, read off the records and not off the loader.
Captured(f) ==
    {[pa |-> f.recs[i].start, len |-> DataLen(f.recs[i]), off |-> RecordOff(f, i) + Hdr] :
        i \in {k \in 1..Len(f.recs) : RecordOff(f, k) < f.size}}

-----------------------------------------------------------------------------
Init ==
    /\ file \in Files
    /\ status = "opening"
    /\ off = 0 /\ prev_end = 0 /\ segs = <<>>
    /\ max = 0
    /\ req = NoReq /\ idx = 1 /\ cur = 0 /\ dst = <<>> /\ total = 0
    /\ reply = NoReply

\* Mutant: segments in any order.
Acceptable_AnyOrder(h) ==
    /\ h.good
    /\ h.end >= h.start
    /\ DataLen(h) <= file.size - (off + Hdr)

(* One round of the loop of load_segments(): the checks in the order of    *)
(* the code, all of them refusals.                                         *)
Acceptable(h) ==
    /\ h.good                                \* magic and version
    /\ h.end >= h.start
    /\ h.start >= prev_end                   \* out-of-order segment
    /\ DataLen(h) <= file.size - (off + Hdr) \* truncated segment

LoadSegment ==
    /\ status = "opening"
    /\ off + Hdr <= file.size
    /\ LET h == HeaderAt(file, off) IN
         IF Acceptable(h)
         THEN /\ segs' = Append(segs, [pa |-> h.start, len |-> DataLen(h), off |-> off + Hdr])
              /\ prev_end' = h.end + 1
              /\ off' = off + Hdr + DataLen(h)
              /\ UNCHANGED status
         ELSE /\ status' = "failed"
              /\ UNCHANGED loading
    /\ UNCHANGED <<file, max, reading>>

\* No room for another header: what is left must be nothing, and there must
\* have been a segment.
FinishLoad ==
    /\ status = "opening"
    /\ off + Hdr > file.size
    /\ IF off = file.size /\ segs # <<>>
       THEN /\ status' = "open"
            /\ max' = segs[Len(segs)].pa + segs[Len(segs)].len
       ELSE /\ status' = "failed"
            /\ UNCHANGED max
    /\ UNCHANGED <<file, loading, reading>>

Call ==
    /\ status = "open" /\ req = NoReq
    /\ \E pa \in Addr, len \in Lengths :
          /\ req' = [pa |-> pa, len |-> len]
          /\ idx' = 1 /\ cur' = pa /\ total' = 0
          /\ dst' = [k \in 1..len |-> Zero]
    /\ reply' = NoReply
    /\ UNCHANGED <<file, status, loading, max>>

(* The loop of read().                                                     *)
End == req.pa + req.len
Seg == segs[idx]
SegEnd == Seg.pa + Seg.len

\* The segment lies below the window.
SkipSegment ==
    /\ req # NoReq /\ idx <= Len(segs)
    /\ SegEnd <= cur
    /\ idx' = idx + 1
    /\ UNCHANGED <<file, status, loading, max, req, cur, dst, total, reply>>

\* It overlaps the window: the common bytes are copied and counted.
CopySegment ==
    /\ req # NoReq /\ idx <= Len(segs)
    /\ SegEnd > cur /\ Seg.pa < End
    /\ LET rs == Max({cur, Seg.pa})
           re == Min({End, SegEnd})
           at == Seg.off + (rs - Seg.pa)
           got == SourceRead(file, at, re - rs)
       IN  /\ dst' = [k \in DOMAIN dst |->
                        LET i == k - 1 - (rs - req.pa)
                        IN  IF i >= 0 /\ i < got THEN at + i ELSE dst[k]]
           /\ total' = total + got
           /\ cur' = re
    /\ idx' = idx + 1
    /\ UNCHANGED <<file, status, loading, max, req, reply>>

\* It lies above the window, or there is none left.
Return ==
    /\ req # NoReq
    /\ idx <= Len(segs) => SegEnd > cur /\ Seg.pa >= End
    /\ reply' = [pa |-> req.pa, bytes |-> dst, count |-> total]
    /\ req' = NoReq
    /\ UNCHANGED <<file, status, loading, max, idx, cur, dst, total>>

Next ==
    \/ LoadSegment \/ FinishLoad
    \/ Call
    \/ SkipSegment \/ CopySegment \/ Return

Spec == Init /\ [][Next]_vars

Loading == LoadSegment \/ FinishLoad
Reading == SkipSegment \/ CopySegment \/ Return
=============================================================================
