----------------------------- MODULE FrameCache -----------------------------
(***************************************************************************)
(* The LRU of decompressed AVML frames (FrameCache of                      *)
(* src/formats/avml_format.cpp) and the readers of AvmlPhysical::read,     *)
(* which take a raw pointer into a cached frame from get() and copy from   *)
(* it after get() has released the mutex.                                  *)
(*                                                                         *)
(* A frame is its index; Size gives its decompressed length.  A buffer is  *)
(* the frame's bytes at one stay in the cache: bufs holds, for every       *)
(* cached frame, the serial number of its buffer.                          *)
(***************************************************************************)
EXTENDS Integers, Sequences, LruList

CONSTANTS
    Size,           \* Size[i]: pa_length of frame i
    MaxBytes,       \* max_bytes_, 128 MB
    FrameReaders,   \* threads inside AvmlPhysical::read
    MaxBuffers      \* bound: how many buffers are ever allocated

Frames == DOMAIN Size

\* A frame is at most kMaxFrameDecompressed, 64 MiB.
ASSUME FrameCacheAssumption ==
    /\ Size \in Seq(Nat)
    /\ MaxBytes \in Nat
    /\ \A f \in Frames : Size[f] <= MaxBytes
    /\ MaxBuffers \in Nat

VARIABLES
    order,       \* order_, most recent first
    bufs,        \* map_: the cached frames, each with its buffer
    frameBytes,  \* cur_bytes_
    nextBuf,     \* serial number of the next buffer
    framePc,     \* what each reader is doing
    frame,       \* the frame it is at
    lastFrame,   \* the last frame its range touches
    ptr,         \* the buffer its pointer points into
    torn,        \* readers that copied from a freed buffer (history)
    got          \* all frames ever got, most recent first (history)

frameCache == <<order, bufs, frameBytes, nextBuf>>
frameVars == <<order, bufs, frameBytes, nextBuf, framePc, frame, lastFrame, ptr, torn, got>>

FrameInit ==
    /\ order = <<>>
    /\ bufs = <<>>
    /\ frameBytes = 0
    /\ nextBuf = 1
    /\ framePc = [r \in FrameReaders |-> "idle"]
    /\ frame = [r \in FrameReaders |-> 1]
    /\ lastFrame = [r \in FrameReaders |-> 1]
    /\ ptr = [r \in FrameReaders |-> 0]
    /\ torn = {}
    /\ got = <<>>

---------------------------------------------------------------------------
\* The bytes of the frames in a list.
TotalSize(list) ==
    LET upTo[i \in 0..Len(list)] == IF i = 0 THEN 0 ELSE upTo[i - 1] + Size[list[i]]
    IN  upTo[Len(list)]

\* read() of a range that touches the frames from first to final.
ReadFrames(r, first, final) ==
    /\ framePc[r] = "idle"
    /\ first <= final
    /\ framePc' = [framePc EXCEPT ![r] = "get"]
    /\ frame' = [frame EXCEPT ![r] = first]
    /\ lastFrame' = [lastFrame EXCEPT ![r] = final]
    /\ UNCHANGED <<frameCache, ptr, torn, got>>

\* get() under the mutex: the frame is cached, promoted and pointed to.
GetCached(r) ==
    /\ framePc[r] = "get"
    /\ frame[r] \in DOMAIN bufs
    /\ order' = ToFront(order, PositionOf(order, frame[r]))
    /\ got' = Used(got, frame[r])
    /\ ptr' = [ptr EXCEPT ![r] = bufs[frame[r]]]
    /\ framePc' = [framePc EXCEPT ![r] = "copy"]
    /\ UNCHANGED <<bufs, frameBytes, nextBuf, frame, lastFrame, torn>>

\* The payload is short, or does not decompress to the parsed length: get()
\* throws before it touches the cache, and read() with it.
GetThrows(r) ==
    /\ framePc[r] = "get"
    /\ frame[r] \notin DOMAIN bufs
    /\ framePc' = [framePc EXCEPT ![r] = "idle"]
    /\ UNCHANGED <<frameCache, frame, lastFrame, ptr, torn, got>>

\* Mutant of EvictIfNeeded: one frame at most is evicted.
EvictIfNeeded_Once(list, b, total) ==
    LET victim == list[Len(list)]
    IN  IF total > MaxBytes
        THEN /\ order' = SubSeq(list, 1, Len(list) - 1)
             /\ bufs' = [f \in DOMAIN b \ {victim} |-> b[f]]
             /\ frameBytes' = total - Size[victim]
        ELSE order' = list /\ bufs' = b /\ frameBytes' = total

\* evict_if_needed(): frames go from the back until the budget is kept; after
\* k rounds of the loop, left[k] bytes are.
EvictIfNeeded(list, b, total) ==
    LET left[k \in 0..Len(list)] ==
            IF k = 0 THEN total ELSE left[k - 1] - Size[list[Len(list) - k + 1]]
    IN  \E n \in 0..Len(list) :
            /\ \A k \in 0..(n - 1) : left[k] > MaxBytes
            /\ left[n] <= MaxBytes \/ n = Len(list)
            /\ order' = SubSeq(list, 1, Len(list) - n)
            /\ bufs' = [f \in DOMAIN b \ {list[i] : i \in (Len(list) - n + 1)..Len(list)} |-> b[f]]
            /\ frameBytes' = left[n]

\* get() under the mutex: the frame is decompressed, inserted and counted, the
\* cache trimmed, and the pointer returned.
GetDecoded(r) ==
    LET f == frame[r] IN
    /\ framePc[r] = "get"
    /\ f \notin DOMAIN bufs
    /\ nextBuf <= MaxBuffers
    /\ EvictIfNeeded(<<f>> \o order,
                     [g \in DOMAIN bufs \cup {f} |-> IF g = f THEN nextBuf ELSE bufs[g]],
                     frameBytes + Size[f])
    /\ nextBuf' = nextBuf + 1
    /\ got' = Used(got, f)
    /\ ptr' = [ptr EXCEPT ![r] = nextBuf]
    /\ framePc' = [framePc EXCEPT ![r] = "copy"]
    /\ UNCHANGED <<frame, lastFrame, torn>>

Live(buf) == \E f \in DOMAIN bufs : bufs[f] = buf

\* The memcpy out of the frame, without the mutex; then the next frame.
Copy(r) ==
    /\ framePc[r] = "copy"
    /\ torn' = IF Live(ptr[r]) THEN torn ELSE torn \cup {r}
    /\ framePc' = [framePc EXCEPT ![r] = IF frame[r] = lastFrame[r] THEN "idle" ELSE "get"]
    /\ frame' = [frame EXCEPT ![r] = IF @ = lastFrame[r] THEN @ ELSE @ + 1]
    /\ UNCHANGED <<frameCache, lastFrame, ptr, got>>

---------------------------------------------------------------------------
FrameNext ==
    \E r \in FrameReaders :
        \/ \E first, final \in Frames : ReadFrames(r, first, final)
        \/ GetCached(r)
        \/ GetThrows(r)
        \/ GetDecoded(r)
        \/ Copy(r)

FrameSpec == FrameInit /\ [][FrameNext]_frameVars

---------------------------------------------------------------------------
(* Properties *)

\* order_, map_ and cur_bytes_ agree whenever the mutex is free; the budget is
\* kept, also when one large frame displaces several small ones; and eviction
\* takes the least recently used frames, so that what is cached is the most
\* recent part of everything ever got, with the last frame got in it, as the
\* pointer get() returns requires.
FramesKeptByUse ==
    /\ NoDup(order)
    /\ Range(order) = DOMAIN bufs
    /\ frameBytes = TotalSize(order)
    /\ frameBytes <= MaxBytes
    /\ Len(order) <= Len(got)
    /\ \A i \in 1..Len(order) : order[i] = got[i]
    /\ got # <<>> => order # <<>>

\* lmpfs.h: "the engine itself is thread-safe (WinFsp dispatches concurrent
\* reads against it)".  No reader copies from a buffer that was freed.
NoTornCopy == torn = {}
===========================================================================
