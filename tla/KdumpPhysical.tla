---------------------------- MODULE KdumpPhysical ----------------------------
(***************************************************************************)
(* ELF64 cores (src/formats/kdump_format.cpp): open_kdump_physical()       *)
(* collects the PT_LOAD headers, the constructor sorts them, read() walks  *)
(* from the address asked for, each round with a binary search.            *)
(***************************************************************************)
EXTENDS Integers, Sequences, FiniteSets, FiniteSetsExt, SequencesExt

CONSTANTS
    Files,      \* the files to open: [good, phdrs, size]
    Addr,       \* the addresses a caller asks for
    Lengths,    \* the lengths it asks for
    Infinity    \* PAddr(~0ULL), above every address

VARIABLES
    file,       \* the MemorySource
    status,     \* "opening", "open", "failed"
    phdr,       \* open: the program header the loop is at
    ranges,     \* ranges_, sorted once open
    vmcoreinfo, \* open: the note that gave VMCOREINFO, 0 for none
    max,        \* max_pa_
    req,        \* the read in progress
    cur,        \* read: cur
    rest,       \* read: remaining
    dst,        \* read: the caller's buffer
    total,      \* read: got_total
    reply       \* what the last read returned

vars == <<file, status, phdr, ranges, vmcoreinfo, max, req, cur, rest, dst, total, reply>>
reading == <<req, cur, rest, dst, total, reply>>

NoReq == [pa |-> -1, len |-> 0]
NoReply == [pa |-> -1, bytes |-> <<>>, count |-> 0]
Zero == -1

Init ==
    /\ file \in Files
    /\ status = "opening"
    /\ phdr = 1 /\ ranges = <<>> /\ vmcoreinfo = 0
    /\ max = 0
    /\ req = NoReq /\ cur = 0 /\ rest = 0 /\ dst = <<>> /\ total = 0
    /\ reply = NoReply

\* MemorySource::read clamps to the end of the file.
SourceRead(o, n) == IF o >= file.size THEN 0 ELSE Min({n, file.size - o})

-----------------------------------------------------------------------------
(* open_kdump_physical().                                                  *)

\* The ELF header is short, of the wrong class, type or header size, or
\* announces no program headers.
BadHeader ==
    /\ status = "opening" /\ phdr = 1
    /\ ~file.good \/ file.phdrs = <<>>
    /\ status' = "failed"
    /\ UNCHANGED <<file, phdr, ranges, vmcoreinfo, max, reading>>

\* A PT_LOAD with file bytes becomes a range; the first PT_NOTE that holds a
\* VMCOREINFO note gives vmcoreinfo.
ScanHeader ==
    /\ status = "opening" /\ file.good
    /\ phdr <= Len(file.phdrs)
    /\ LET ph == file.phdrs[phdr] IN
         /\ ranges' = IF ph.type = "load" /\ ph.filesz > 0
                      THEN Append(ranges, [pa |-> ph.paddr, len |-> ph.filesz, off |-> ph.offset])
                      ELSE ranges
         /\ vmcoreinfo' = IF ph.type = "vmcoreinfo" /\ vmcoreinfo = 0 THEN phdr ELSE vmcoreinfo
    /\ phdr' = phdr + 1
    /\ UNCHANGED <<file, status, max, reading>>

\* Mutant: the ranges stay in file order.
FinishOpen_Unsorted ==
    /\ status = "opening" /\ file.good
    /\ file.phdrs # <<>> /\ phdr > Len(file.phdrs)
    /\ ranges # <<>>
    /\ status' = "open"
    /\ UNCHANGED <<file, phdr, ranges, vmcoreinfo, max, reading>>

Ends(s) == {s[i].pa + s[i].len : i \in 1..Len(s)}

\* s sorted by pa; std::sort leaves equal keys in any order.
Sorted(s) ==
    {t \in {[i \in 1..Len(s) |-> s[p[i]]] : p \in {q \in [1..Len(s) -> 1..Len(s)] : IsInjective(q)}} :
        \A i \in 1..(Len(s) - 1) : t[i].pa <= t[i+1].pa}

FinishOpen ==
    /\ status = "opening" /\ file.good
    /\ file.phdrs # <<>> /\ phdr > Len(file.phdrs)
    /\ IF ranges = <<>>
       THEN status' = "failed" /\ UNCHANGED <<ranges, max>>
       ELSE /\ status' = "open"
            /\ ranges' \in Sorted(ranges)
            /\ max' = Max(Ends(ranges))
    /\ UNCHANGED <<file, phdr, vmcoreinfo, reading>>

-----------------------------------------------------------------------------
(* read().                                                                 *)

Call ==
    /\ status = "open" /\ req = NoReq
    /\ \E pa \in Addr, len \in Lengths :
          /\ req' = [pa |-> pa, len |-> len]
          /\ cur' = pa /\ rest' = len /\ total' = 0
          /\ dst' = [k \in 1..len |-> Zero]
    /\ reply' = NoReply
    /\ UNCHANGED <<file, status, phdr, ranges, vmcoreinfo, max>>

\* upper_bound - 1: the last range that starts at or below a, 0 for none.
RangeOf(a) == Cardinality({i \in 1..Len(ranges) : ranges[i].pa <= a})
RangeEnd(i) == ranges[i].pa + ranges[i].len

\* The start of the next range, or no limit.
NextStart(i) == IF i = Len(ranges) THEN Infinity ELSE ranges[i+1].pa

Advance(n) == cur' = cur + n /\ rest' = rest - n

\* Below the first range, or past the end of the last one that starts here.
\* The inner IF is the branch the code comments with "shouldn't happen": cur
\* moves, dst and remaining do not.
SkipHole ==
    /\ req # NoReq /\ rest > 0
    /\ LET i == RangeOf(cur) IN
         /\ i > 0 => cur >= RangeEnd(i)
         /\ IF cur >= NextStart(i)
            THEN cur' = cur + 1 /\ UNCHANGED rest
            ELSE Advance(Min({rest, NextStart(i) - cur}))
    /\ UNCHANGED <<file, status, phdr, ranges, vmcoreinfo, max, req, dst, total, reply>>

\* Mutant: a short read of the file advances the cursor by what was read.
CopyRange_AdvanceByGot ==
    /\ req # NoReq /\ rest > 0
    /\ LET i == RangeOf(cur) IN
         /\ i > 0
         /\ cur < RangeEnd(i)
         /\ LET got == SourceRead(ranges[i].off + (cur - ranges[i].pa),
                                  Min({rest, RangeEnd(i) - cur}))
            IN  total' = total + got /\ Advance(got)
    /\ UNCHANGED <<file, status, phdr, ranges, vmcoreinfo, max, req, dst, reply>>

\* Inside a range: what it still holds of the window is copied and counted.
CopyRange ==
    /\ req # NoReq /\ rest > 0
    /\ LET i == RangeOf(cur) IN
         /\ i > 0
         /\ cur < RangeEnd(i)
         /\ LET at   == ranges[i].off + (cur - ranges[i].pa)
                want == Min({rest, RangeEnd(i) - cur})
                got  == SourceRead(at, want)
                fill == req.len - rest       \* dst - out
            IN  /\ dst' = [k \in DOMAIN dst |->
                              IF k > fill /\ k <= fill + got THEN at + (k - fill - 1) ELSE dst[k]]
                /\ total' = total + got
                /\ Advance(want)
    /\ UNCHANGED <<file, status, phdr, ranges, vmcoreinfo, max, req, reply>>

Return ==
    /\ req # NoReq /\ rest = 0
    /\ reply' = [pa |-> req.pa, bytes |-> dst, count |-> total]
    /\ req' = NoReq
    /\ UNCHANGED <<file, status, phdr, ranges, vmcoreinfo, max, cur, rest, dst, total>>

Next ==
    \/ BadHeader \/ ScanHeader \/ FinishOpen
    \/ Call
    \/ SkipHole \/ CopyRange \/ Return

Spec == Init /\ [][Next]_vars

Loading == BadHeader \/ ScanHeader \/ FinishOpen
Reading == SkipHole \/ CopyRange \/ Return

-----------------------------------------------------------------------------
\* What the PT_LOAD headers declare, and the bytes of it the file holds.
LoadHeaders == {file.phdrs[i] : i \in {k \in 1..Len(file.phdrs) : file.phdrs[k].type = "load"}}
Declared ==
    {[pa |-> ph.paddr, len |-> ph.filesz, off |-> ph.offset] : ph \in LoadHeaders}
Captured ==
    {[pa |-> ph.paddr, len |-> Min({ph.filesz, Max({0, file.size - ph.offset})}), off |-> ph.offset] :
        ph \in LoadHeaders}
=============================================================================
