----------------------------- MODULE RawStreams -----------------------------
(***************************************************************************)
(* The two sparse views of memory: /mem/phys.raw                           *)
(* (src/formats/phys_raw_stream.h) over a PhysicalLayer, and               *)
(* /mem/kern_va.raw (src/os/linux/kern_va_stream.cpp) over kva_read, page  *)
(* by page; and a client that copies one of them in chunks.                *)
(*                                                                         *)
(* Memory is a function from addresses to "data" or "hole"; the byte at    *)
(* address a is <<"mem", a>>.  The layer gives the bytes there are and     *)
(* clears the rest (PhysicalLayer); kva_read gives all of a page's part or *)
(* fails (KvaReader, on pages captured whole).                             *)
(*                                                                         *)
(* The names of bytes and the bound on positions are ElfCoreStream's: the  *)
(* three streams are one kind of thing to who reads them.                  *)
(***************************************************************************)
EXTENDS ElfCoreStream

CONSTANTS
    Memories,   \* the memories to expose: sequences of "data" and "hole"
    PageSize,
    Offsets,    \* where a client starts
    Chunks      \* how much it asks for at a time

\* Pages are captured whole.
ASSUME RawStreamsAssumption ==
    /\ PageSize \in Nat \ {0}
    /\ Memories \subseteq Seq({"data", "hole"})
    /\ \A m \in Memories : \A i, j \in 1..Len(m) :
          (i - 1) \div PageSize = (j - 1) \div PageSize => m[i] = m[j]
    /\ Offsets \subseteq Nat /\ Chunks \subseteq Nat

VARIABLES
    source,     \* "phys" or "kern"
    mem,        \* the memory: address a is mem[a + 1]
    client, pos, chunk, offset,
    len,        \* kern read: len after the clamp
    done,       \* kern read: done
    out,        \* kern read: the caller's buffer
    reply       \* what the last read returned

rawVars == <<source, mem, client, pos, chunk, offset, len, done, out, reply>>

Dirty == <<"dirty", 0>>      \* what the caller's buffer held before
Data(a) == a + 1 \in 1..Len(mem) /\ mem[a + 1] = "data"
Byte(a) == IF Data(a) THEN <<"mem", a>> ELSE Zero

\* size(): for phys.raw max_address(), for kern_va.raw the whole window.
Top == Max({0} \cup {i \in 1..Len(mem) : mem[i] = "data"})
Size == IF source = "phys" THEN Top ELSE Len(mem)

RawInit ==
    /\ source \in {"phys", "kern"}
    /\ mem \in Memories
    /\ client = "idle" /\ pos = 0 /\ chunk = 0 /\ offset = 0
    /\ len = 0 /\ done = 0 /\ out = <<>>
    /\ reply = NoReply

StartRaw(o, n) ==
    /\ client = "idle"
    /\ client' = "calling"
    /\ pos' = o /\ offset' = o /\ chunk' = n
    /\ UNCHANGED <<source, mem, len, done, out, reply>>

\* After a read the client is at the size it was told, or asks for more.
CheckRaw ==
    /\ client = "checking"
    /\ client' = IF pos >= Size THEN "done" ELSE "calling"
    /\ UNCHANGED <<source, mem, pos, chunk, offset, len, done, out, reply>>

FinishRaw(n, bytes) ==
    /\ reply' = [pos |-> pos, bytes |-> bytes, count |-> n]
    /\ pos' = Min({pos + n, PosBound})
    /\ client' = "checking"

-----------------------------------------------------------------------------
\* Mutant: the count of the layer's bytes is passed on.
ReadPhys_LayerCount ==
    /\ client = "calling" /\ source = "phys"
    /\ FinishRaw(Cardinality({k \in 1..chunk : Data(pos + k - 1)}),
              [k \in 1..chunk |-> Byte(pos + k - 1)])
    /\ UNCHANGED <<source, mem, chunk, offset, len, done, out>>

\* PhysRawStream::read clears the buffer; past the end it returns 0, else
\* the layer fills in what there is and the count is the window's.
ReadPhys ==
    /\ client = "calling" /\ source = "phys"
    /\ IF pos >= Size
       THEN FinishRaw(0, [k \in 1..chunk |-> Zero])
       ELSE FinishRaw(Min({chunk, Size - pos}), [k \in 1..chunk |-> Byte(pos + k - 1)])
    /\ UNCHANGED <<source, mem, chunk, offset, len, done, out>>

\* KernVaRawStream::read past the end: zeros and len.
ReadKernPastEnd ==
    /\ client = "calling" /\ source = "kern"
    /\ pos >= Size
    /\ FinishRaw(chunk, [k \in 1..chunk |-> Zero])
    /\ UNCHANGED <<source, mem, chunk, offset, len, done, out>>

\* Mutant: only the part inside the file is cleared.
ReadKern_TailDirty ==
    /\ client = "calling" /\ source = "kern"
    /\ pos < Size
    /\ len' = Min({chunk, Size - pos})
    /\ out' = [k \in 1..chunk |-> IF k <= len' THEN Zero ELSE Dirty]
    /\ done' = 0
    /\ client' = "reading"
    /\ UNCHANGED <<source, mem, pos, chunk, offset, reply>>

\* Otherwise the tail beyond the file is cleared, len clamped, and the rest
\* of the buffer cleared.
ReadKern ==
    /\ client = "calling" /\ source = "kern"
    /\ pos < Size
    /\ len' = Min({chunk, Size - pos})
    /\ out' = [k \in 1..chunk |-> Zero]
    /\ done' = 0
    /\ client' = "reading"
    /\ UNCHANGED <<source, mem, pos, chunk, offset, reply>>

\* One page: kva_read of its part of the window, all or nothing.
ReadKernPage ==
    /\ client = "reading" /\ done < len
    /\ LET n == Min({PageSize - ((pos + done) % PageSize), len - done})
           all == \A k \in 0..(n - 1) : Data(pos + done + k)
       IN  /\ out' = [k \in DOMAIN out |->
                        IF all /\ k > done /\ k <= done + n THEN Byte(pos + k - 1) ELSE out[k]]
           /\ done' = done + n
    /\ UNCHANGED <<source, mem, client, pos, chunk, offset, len, reply>>

ReturnKern ==
    /\ client = "reading" /\ done >= len
    /\ FinishRaw(len, out)
    /\ UNCHANGED <<source, mem, chunk, offset, len, done, out>>

RawNext ==
    \/ \E o \in Offsets, n \in Chunks : StartRaw(o, n)
    \/ CheckRaw \/ ReadPhys \/ ReadKernPastEnd \/ ReadKern \/ ReadKernPage \/ ReturnKern

\* The client's loop and the reads do not stop in the middle.
RawSpec == RawInit /\ [][RawNext]_rawVars /\ WF_rawVars(RawNext)

-----------------------------------------------------------------------------
(* A window of either view holds memory where there is some and zeros      *)
(* everywhere else, the part beyond the end included: "never leave the     *)
(* caller's buffer with uninitialized memory" (core/stream.h:12).          *)
ReadsMemory ==
    reply # NoReply =>
        \A k \in 1..chunk : reply.bytes[k] = Byte(reply.pos + k - 1)

(* A copy up to size() ends there: no hole makes a read come back short,   *)
(* "so cat/dd/HxD stream the whole image without stopping at the first     *)
(* hole" (phys_raw_stream.h:5).                                            *)
RawCopyEnds ==
    client = "calling" ~> (client = "done" /\ (offset < Size => pos = Size))

(* Every window of proc.dmp, phys.raw and kern_va.raw holds the bytes      *)
(* there are at its offset and zeros everywhere else: "never leave the     *)
(* caller's buffer with uninitialized memory" (core/stream.h:12).          *)
(* The program headers of proc.dmp describe the process's readable memory. *)
ImagesTrue == HeadersDescribe /\ ReadsImage /\ ReadsMemory
=============================================================================
