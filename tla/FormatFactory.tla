---------------------------- MODULE FormatFactory ----------------------------
(***************************************************************************)
(* open_physical_layer() (src/formats/format_factory.cpp): the magic       *)
(* number of a dump picks the format, and from then on the engine reads    *)
(* physical memory through that format's layer.  LiME, kdump and AVML are  *)
(* modules of their own; a raw image is small enough to be modelled here.  *)
(*                                                                         *)
(* There is one dump, one layer and one read at a time, so the formats     *)
(* share the variables they have in common.                                *)
(***************************************************************************)
EXTENDS Integers, Sequences, FiniteSetsExt

CONSTANTS
    LimeFiles, KdumpFiles, AvmlFiles,   \* dumps, as each format's module has them
    RawSizes,   \* sizes of raw images
    Hdr,        \* sizeof(LimeHeader)
    Stride,     \* AVML: longer than every frame
    Infinity,   \* kdump: PAddr(~0ULL), above every address
    Addr,       \* the addresses a caller asks for
    Lengths     \* the lengths it asks for

ASSUME FormatAssumption ==
    /\ Hdr \in Nat \ {0}
    /\ Stride \in Nat \ {0}
    /\ Infinity \in Nat
    /\ \A a \in Addr, n \in Lengths : a \in Nat /\ n \in Nat /\ a + n < Infinity

\* The fields of the files are unsigned.
LimeRecords == [good : BOOLEAN, start : Nat, end : Nat]
ProgramHeaders == [type : STRING, paddr : Nat, filesz : Nat, offset : Nat]
AvmlTokens ==
    [t : {"chunk"}, start : Nat, end : Nat] \cup [t : {"data"}, dec : Nat] \cup [t : {"pass", "bad", "trailer"}]

ASSUME FileAssumption ==
    /\ LimeFiles \subseteq [recs : Seq(LimeRecords), size : Nat]
    /\ KdumpFiles \subseteq [good : BOOLEAN, phdrs : Seq(ProgramHeaders), size : Nat]
    /\ AvmlFiles \subseteq Seq(AvmlTokens)
    /\ RawSizes \subseteq Nat

VARIABLES
    format,                             \* what the magic said
    file, status, max, req, dst, total, reply,
    off, prev_end, segs, idx, cur,      \* LiME (idx: AVML too; cur: kdump too)
    phdr, ranges, vmcoreinfo, rest,     \* kdump
    pos, chunk, done, frames            \* AVML

layer == <<file, status, max, req, dst, total, reply>>
limeOnly == <<off, prev_end, segs>>
kdumpOnly == <<phdr, ranges, vmcoreinfo, rest>>
avmlOnly == <<pos, chunk, done, frames>>
vars == <<format, layer, idx, cur, limeOnly, kdumpOnly, avmlOnly>>

Lime == INSTANCE LimePhysical WITH Files <- LimeFiles
Kdump == INSTANCE KdumpPhysical WITH Files <- KdumpFiles
Avml == INSTANCE AvmlPhysical WITH Files <- AvmlFiles

NoLime == off = 0 /\ prev_end = 0 /\ segs = <<>>
NoKdump == phdr = 0 /\ ranges = <<>> /\ vmcoreinfo = 0 /\ rest = 0
NoAvml == pos = 0 /\ chunk = <<>> /\ done = 0 /\ frames = <<>>

-----------------------------------------------------------------------------
(* A raw image: address a is byte a of the file.                           *)

RawInit ==
    /\ file \in [size : RawSizes]
    /\ status = "opening" /\ max = 0
    /\ req = Lime!NoReq /\ dst = <<>> /\ total = 0 /\ reply = Lime!NoReply

RawOpen ==
    /\ status = "opening"
    /\ status' = "open"
    /\ max' = file.size
    /\ UNCHANGED <<file, req, dst, total, reply>>

RawCall ==
    /\ status = "open" /\ req = Lime!NoReq
    /\ \E pa \in Addr, len \in Lengths : req' = [pa |-> pa, len |-> len]
    /\ reply' = Lime!NoReply
    /\ UNCHANGED <<file, status, max, dst, total>>

\* read(): nothing at or past the end, else what the file has of the window;
\* the rest of the buffer is zeroed.
RawRead ==
    /\ req # Lime!NoReq
    /\ total' = IF req.pa >= file.size THEN 0 ELSE Min({req.len, file.size - req.pa})
    /\ dst' = [k \in 1..req.len |-> IF k <= total' THEN req.pa + k - 1 ELSE Lime!Zero]
    /\ reply' = [pa |-> req.pa, bytes |-> dst', count |-> total']
    /\ req' = Lime!NoReq
    /\ UNCHANGED <<file, status, max>>

RawNext == RawOpen \/ RawCall \/ RawRead

-----------------------------------------------------------------------------
Init ==
    \/ format = "lime" /\ Lime!Init /\ NoKdump /\ NoAvml
    \/ format = "elf" /\ Kdump!Init /\ NoLime /\ NoAvml /\ idx = 0
    \/ format = "avml" /\ Avml!Init /\ NoLime /\ NoKdump /\ cur = 0
    \/ format = "raw" /\ RawInit /\ NoLime /\ NoKdump /\ NoAvml /\ idx = 0 /\ cur = 0

IsLime == format = "lime" /\ UNCHANGED <<format, kdumpOnly, avmlOnly>>
IsKdump == format = "elf" /\ UNCHANGED <<format, limeOnly, avmlOnly, idx>>
IsAvml == format = "avml" /\ UNCHANGED <<format, limeOnly, kdumpOnly, cur>>
IsRaw == format = "raw" /\ UNCHANGED <<format, limeOnly, kdumpOnly, avmlOnly, idx, cur>>

Next ==
    \/ IsLime /\ Lime!Next
    \/ IsKdump /\ Kdump!Next
    \/ IsAvml /\ Avml!Next
    \/ IsRaw /\ RawNext

Loading ==
    \/ IsLime /\ Lime!Loading
    \/ IsKdump /\ Kdump!Loading
    \/ IsAvml /\ Avml!Loading
    \/ IsRaw /\ RawOpen

Reading ==
    \/ IsLime /\ Lime!Reading
    \/ IsKdump /\ Kdump!Reading
    \/ IsAvml /\ Avml!Reading
    \/ IsRaw /\ RawRead

\* The loops of the factory and of read() run; nobody has to call read().
Spec == Init /\ [][Next]_vars /\ WF_vars(Loading) /\ WF_vars(Reading)

-----------------------------------------------------------------------------
RawRange == {[pa |-> 0, len |-> file.size, off |-> 0]}

Captured ==
    CASE format = "lime" -> Lime!Captured(file)
      [] format = "elf"  -> Kdump!Captured
      [] format = "avml" -> Avml!Captured
      [] format = "raw"  -> RawRange

Declared == IF format = "elf" THEN Kdump!Declared ELSE Captured

Layer == INSTANCE PhysicalLayer WITH captured <- Captured, declared <- Declared

(* Every format keeps the promises of PhysicalLayer: a file is refused, or *)
(* opened with the right max_address; then every read gives memory where   *)
(* the file has some, zeros elsewhere, and a count of the former, so that  *)
(* read_exact() succeeds exactly on memory that is there.                  *)
KeepsContract == Layer!Spec

(* Whatever the file holds, opening it ends, and so does every read: the   *)
(* cursors of load_segments(), parse_snappy_frames() and the three read()  *)
(* loops always advance, also over truncated data.                         *)
CallsEnd ==
    /\ status = "opening" ~> status # "opening"
    /\ req # Lime!NoReq ~> req = Lime!NoReq
=============================================================================
