--------------------------- MODULE ElfCoreStream ---------------------------
(***************************************************************************)
(* proc.dmp (src/os/linux/elf_core_stream.cpp): plan() lays an ELF core    *)
(* out over the readable VMAs of a process, read() serves any window of it *)
(* from the header blob and from the process's memory.  A client copies    *)
(* the file from some offset on, chunk by chunk, as lmpfs_vfs_read and the *)
(* mounts let it.                                                          *)
(*                                                                         *)
(* A byte of the file is named by what it is: <<"hdr", k>>, <<"mem", va>>  *)
(* or Zero.  That a mapped page gives its bytes and a hole zeros is        *)
(* UserPageCache's business: here memory at va is <<"mem", va>>.           *)
(***************************************************************************)
EXTENDS Integers, Sequences, FiniteSets, FiniteSetsExt

CONSTANTS
    VmaLists,   \* the VMAs of processes: sequences of [start, size, readable]
    EhdrSize,   \* sizeof(Elf64_Ehdr)
    PhdrSize,   \* sizeof(Elf64_Phdr)
    HdrAlign,   \* kHdrAlign
    PhnumLimit, \* 2^16: e_phnum is a u16
    CoreOffsets,  \* where a client starts
    CoreChunks,   \* how much it asks for at a time
    PosBound      \* bound on the client's position

ASSUME ElfCoreAssumption ==
    /\ VmaLists \subseteq Seq([start : Nat, size : Nat, readable : BOOLEAN])
    /\ EhdrSize \in Nat /\ PhdrSize \in Nat
    /\ HdrAlign \in Nat \ {0} /\ PhnumLimit \in Nat \ {0}
    /\ CoreOffsets \subseteq Nat /\ CoreChunks \subseteq Nat /\ PosBound \in Nat

VARIABLES
    vmas,       \* vmas_
    hdr,        \* header_blob_.size(), 0 before plan() has made it
    phnum,      \* e_phnum in the blob
    phdrs,      \* the program headers in the blob
    segs,       \* segs_
    total,      \* total_size_, while planning file_off
    coreClient,     \* "idle", "calling", "reading", "checking", "done"
    corePos, coreChunk, \* the client's position and request
    coreOffset,     \* the offset it started from
    cur, coreLen,   \* read: cur, and len after the clamp
    idx,        \* read: the segment the loop is at, 0 before the header step
    coreOut,        \* read: the caller's buffer
    coreReply       \* what the last read returned

coreVars == <<vmas, hdr, phnum, phdrs, segs, total, coreClient, corePos, coreChunk, coreOffset,
              cur, coreLen, idx, coreOut, coreReply>>
plan == <<vmas, hdr, phnum, phdrs, segs, total>>

Zero == <<"zero", 0>>
NoReply == [pos |-> -1, bytes |-> <<>>, count |-> 0]

Dumpable(v) == v.readable /\ v.size # 0

\* plan()'s filter.
Filter(list) ==
    LET kept[i \in 0..Len(list)] ==
            IF i = 0 THEN <<>>
            ELSE IF Dumpable(list[i]) THEN Append(kept[i - 1], list[i]) ELSE kept[i - 1]
    IN  kept[Len(list)]
Use == Filter(vmas)

\* Linux gives a process 65530 mappings unless its administrator says more;
\* with 65536 of them e_phnum would wrap.
FewSegments == \A list \in VmaLists : Len(Filter(list)) < PhnumLimit

RoundUp(n) == ((n + (HdrAlign - 1)) \div HdrAlign) * HdrAlign

CoreInit ==
    /\ vmas \in VmaLists
    /\ hdr = 0 /\ phnum = 0 /\ phdrs = <<>> /\ segs = <<>> /\ total = 0
    /\ coreClient = "idle" /\ corePos = 0 /\ coreChunk = 0 /\ coreOffset = 0
    /\ cur = 0 /\ coreLen = 0 /\ idx = 0 /\ coreOut = <<>>
    /\ coreReply = NoReply

-----------------------------------------------------------------------------
(* plan(), called by the constructor before anything reads.                *)

\* The ELF header and the size of the blob.
PlanHeader ==
    /\ hdr = 0
    /\ hdr' = RoundUp(EhdrSize + Len(Use) * PhdrSize)
    /\ phnum' = Len(Use) % PhnumLimit
    /\ total' = RoundUp(EhdrSize + Len(Use) * PhdrSize)
    /\ UNCHANGED <<vmas, phdrs, segs, coreClient, corePos, coreChunk, coreOffset, cur, coreLen, idx, coreOut, coreReply>>

\* Mutant: the next segment starts on the next page.
PlanSegment_Aligned ==
    /\ hdr # 0 /\ Len(segs) < Len(Use)
    /\ LET v == Use[Len(segs) + 1] IN
         /\ phdrs' = Append(phdrs, [off |-> total, vaddr |-> v.start, filesz |-> v.size])
         /\ segs' = Append(segs, [off |-> total, size |-> v.size, start |-> v.start])
         /\ total' = RoundUp(total + v.size)
    /\ UNCHANGED <<vmas, hdr, phnum, coreClient, corePos, coreChunk, coreOffset, cur, coreLen, idx, coreOut, coreReply>>

\* One VMA: its program header and where its bytes go.
PlanSegment ==
    /\ hdr # 0 /\ Len(segs) < Len(Use)
    /\ LET v == Use[Len(segs) + 1] IN
         /\ phdrs' = Append(phdrs, [off |-> total, vaddr |-> v.start, filesz |-> v.size])
         /\ segs' = Append(segs, [off |-> total, size |-> v.size, start |-> v.start])
         /\ total' = total + v.size
    /\ UNCHANGED <<vmas, hdr, phnum, coreClient, corePos, coreChunk, coreOffset, cur, coreLen, idx, coreOut, coreReply>>

Planned == hdr # 0 /\ Len(segs) = Len(Use)

-----------------------------------------------------------------------------
(* The client.                                                             *)

StartCore(o, n) ==
    /\ Planned /\ coreClient = "idle"
    /\ coreClient' = "calling"
    /\ corePos' = o /\ coreOffset' = o /\ coreChunk' = n
    /\ UNCHANGED <<plan, cur, coreLen, idx, coreOut, coreReply>>

\* After a read the client is at the size it was told, or asks for more.
CheckCore ==
    /\ coreClient = "checking"
    /\ coreClient' = IF corePos >= total THEN "done" ELSE "calling"
    /\ UNCHANGED <<plan, corePos, coreChunk, coreOffset, cur, coreLen, idx, coreOut, coreReply>>

FinishCore(n, bytes) ==
    /\ coreReply' = [pos |-> corePos, bytes |-> bytes, count |-> n]
    /\ corePos' = Min({corePos + n, PosBound})
    /\ coreClient' = "checking"

-----------------------------------------------------------------------------
(* read().                                                                 *)

\* Past the end: zeros, and a count of len.
ReadPastEnd ==
    /\ coreClient = "calling"
    /\ corePos >= total
    /\ FinishCore(coreChunk, [k \in 1..coreChunk |-> Zero])
    /\ UNCHANGED <<plan, coreChunk, coreOffset, cur, coreLen, idx, coreOut>>

\* The buffer is cleared, len is clamped, the header's part is copied.
ReadHeader ==
    /\ coreClient = "calling"
    /\ corePos < total
    /\ LET n == Min({coreChunk, total - corePos})
           take == IF corePos < hdr THEN Min({hdr - corePos, n}) ELSE 0
       IN  /\ coreOut' = [k \in 1..coreChunk |-> IF k <= take THEN <<"hdr", corePos + (k - 1)>> ELSE Zero]
           /\ coreLen' = n
           /\ cur' = corePos + take
           /\ IF take = n
              THEN FinishCore(n, coreOut') /\ UNCHANGED idx
              ELSE coreClient' = "reading" /\ idx' = 1 /\ UNCHANGED <<corePos, coreReply>>
    /\ UNCHANGED <<plan, coreChunk, coreOffset>>

Seg == segs[idx]
SegEnd == Seg.off + Seg.size
ReadEnd == corePos + coreLen            \* cur + remaining

SkipSegment ==
    /\ coreClient = "reading" /\ idx <= Len(segs)
    /\ SegEnd <= cur
    /\ idx' = idx + 1
    /\ UNCHANGED <<plan, coreClient, corePos, coreChunk, coreOffset, cur, coreLen, coreOut, coreReply>>

\* Mutant: the bytes of a segment are put at the start of what is left.
CopySegment_AtCursor ==
    /\ coreClient = "reading" /\ idx <= Len(segs)
    /\ SegEnd > cur /\ Seg.off < ReadEnd
    /\ LET from == Max({cur, Seg.off})
           to   == Min({ReadEnd, SegEnd})
           va   == Seg.start + (from - Seg.off)
       IN  coreOut' = [k \in DOMAIN coreOut |->
                     LET i == k - 1 - (cur - corePos)
                     IN  IF i >= 0 /\ i < to - from THEN <<"mem", va + i>> ELSE coreOut[k]]
    /\ idx' = idx + 1
    /\ UNCHANGED <<plan, coreClient, corePos, coreChunk, coreOffset, cur, coreLen, coreReply>>

CopySegment ==
    /\ coreClient = "reading" /\ idx <= Len(segs)
    /\ SegEnd > cur /\ Seg.off < ReadEnd
    /\ LET from == Max({cur, Seg.off})
           to   == Min({ReadEnd, SegEnd})
           va   == Seg.start + (from - Seg.off)
       IN  coreOut' = [k \in DOMAIN coreOut |->
                     LET i == k - 1 - (from - corePos)
                     IN  IF i >= 0 /\ i < to - from THEN <<"mem", va + i>> ELSE coreOut[k]]
    /\ idx' = idx + 1
    /\ UNCHANGED <<plan, coreClient, corePos, coreChunk, coreOffset, cur, coreLen, coreReply>>

Return ==
    /\ coreClient = "reading"
    /\ idx <= Len(segs) => SegEnd > cur /\ Seg.off >= ReadEnd
    /\ FinishCore(coreLen, coreOut)
    /\ UNCHANGED <<plan, coreChunk, coreOffset, cur, coreLen, idx, coreOut>>

CoreNext ==
    \/ PlanHeader \/ PlanSegment
    \/ \E o \in CoreOffsets, n \in CoreChunks : StartCore(o, n)
    \/ CheckCore \/ ReadPastEnd \/ ReadHeader \/ SkipSegment \/ CopySegment \/ Return

\* The constructor, read() and the client's loop do not stop in the middle.
CoreSpec == CoreInit /\ [][CoreNext]_coreVars /\ WF_coreVars(CoreNext)

-----------------------------------------------------------------------------
\* Whether program header p, as a debugger reads it, describes offset o.
In(p, o) == o >= p.off /\ o < p.off + p.filesz

(* A debugger that follows the headers finds every readable byte of the    *)
(* process at one place: the headers counted by e_phnum are the readable   *)
(* VMAs, and their bytes follow the blob without gap or overlap up to the  *)
(* advertised size.                                                        *)
HeadersDescribe ==
    Planned =>
        /\ phnum = Len(phdrs)
        /\ \A i \in 1..Len(vmas) : Dumpable(vmas[i]) =>
              \E j \in 1..phnum : phdrs[j].vaddr = vmas[i].start /\ phdrs[j].filesz = vmas[i].size
        /\ hdr % HdrAlign = 0 /\ hdr >= EhdrSize + phnum * PhdrSize
        /\ \A o \in hdr..(total - 1) : Cardinality({j \in 1..phnum : In(phdrs[j], o)}) = 1
        /\ \A j \in 1..phnum : phdrs[j].off >= hdr /\ phdrs[j].off + phdrs[j].filesz <= total

\* What the file holds at o according to its own headers.
Image(o) ==
    IF o < hdr THEN <<"hdr", o>>
    ELSE IF \E j \in 1..Len(phdrs) : In(phdrs[j], o)
    THEN LET p == phdrs[CHOOSE j \in 1..Len(phdrs) : In(phdrs[j], o)]
         IN  <<"mem", p.vaddr + (o - p.off)>>
    ELSE Zero

(* Every read gives the bytes the headers promise at its offset, and zeros *)
(* in the rest of the buffer: windows that cross the end of the header,    *)
(* several VMAs or the end of the file included.                           *)
ReadsImage ==
    coreReply # NoReply =>
        /\ Len(coreReply.bytes) = coreChunk
        /\ coreReply.count <= coreChunk
        /\ \A k \in 1..coreChunk : coreReply.bytes[k] = Image(coreReply.pos + k - 1)

(* A client that copies up to size() in chunks ends, and exactly at size() *)
(* unless it started beyond it.                                            *)
CoreCopyEnds ==
    coreClient = "calling" ~> (coreClient = "done" /\ (coreOffset < total => corePos = total))
=============================================================================
