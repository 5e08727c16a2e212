---------------------------- MODULE AvmlPhysical ----------------------------
(***************************************************************************)
(* AVML dumps (src/formats/avml_format.cpp): load_chunks() and             *)
(* parse_snappy_frames() index the frames of the file, read() finds the    *)
(* first frame that ends above the address and copies from there on.  The  *)
(* decoded frames themselves are kept by FrameCache, a module of its own.  *)
(*                                                                         *)
(* A file is a sequence of what the loader consumes at a time: a chunk     *)
(* header, a snappy frame, the 8-byte trailer of a chunk.  Byte k of the   *)
(* frame at position i is named Stride * i + k.                            *)
(***************************************************************************)
EXTENDS Integers, Sequences, FiniteSets, FiniteSetsExt

CONSTANTS
    Files,      \* the files to open: sequences of tokens
    Stride,     \* longer than every frame
    Addr,       \* the addresses a caller asks for
    Lengths     \* the lengths it asks for

VARIABLES
    file,       \* the MemorySource
    status,     \* "opening", "open", "failed"
    pos,        \* load: the token the loader is at
    chunk,      \* load: [start, left] in a chunk's frames, or Between
    done,       \* load: decompressed
    frames,     \* frames_
    max,        \* max_addr_
    req,        \* the read in progress
    idx,        \* read: it
    dst,        \* read: the caller's buffer
    total,      \* read: the bytes counted so far
    reply       \* what the last read returned

vars == <<file, status, pos, chunk, done, frames, max, req, idx, dst, total, reply>>
loading == <<pos, chunk, done, frames>>
reading == <<req, idx, dst, total, reply>>

NoReq == [pa |-> -1, len |-> 0]
NoReply == [pa |-> -1, bytes |-> <<>>, count |-> 0]
Zero == -1
Between == [start |-> -1, expected |-> 0]

Init ==
    /\ file \in Files
    /\ status = "opening"
    /\ pos = 1 /\ chunk = Between /\ done = 0 /\ frames = <<>>
    /\ max = 0
    /\ req = NoReq /\ idx = 1 /\ dst = <<>> /\ total = 0
    /\ reply = NoReply

-----------------------------------------------------------------------------
(* load_chunks() and parse_snappy_frames().                                *)

Token == file[pos]

Fail == status' = "failed" /\ UNCHANGED <<file, loading, max, reading>>

LoadHeader ==
    /\ status = "opening" /\ chunk = Between /\ pos <= Len(file)
    /\ Token.t = "chunk" /\ Token.end > Token.start
    /\ chunk' = [start |-> Token.start, expected |-> Token.end - Token.start]
    /\ done' = 0
    /\ pos' = pos + 1
    /\ UNCHANGED <<file, status, frames, max, reading>>

\* Bad magic or version, or an empty range.
RefuseHeader ==
    /\ status = "opening" /\ chunk = Between /\ pos <= Len(file)
    /\ Token.t = "chunk" => Token.end <= Token.start
    /\ Fail

InFrames == status = "opening" /\ chunk # Between
WantFrame == InFrames /\ done < chunk.expected /\ pos <= Len(file)

\* A compressed or uncompressed data frame.  Its length is not clamped to
\* what the chunk still expects: the last one may overshoot.
LoadFrame ==
    /\ WantFrame /\ Token.t = "data"
    /\ frames' = Append(frames, [pa |-> chunk.start + done, len |-> Token.dec, off |-> Stride * pos])
    /\ done' = done + Token.dec
    /\ pos' = pos + 1
    /\ UNCHANGED <<file, status, chunk, max, reading>>

\* A stream identifier or a skippable frame.
PassFrame ==
    /\ WantFrame /\ Token.t = "pass"
    /\ pos' = pos + 1
    /\ UNCHANGED <<file, status, chunk, done, frames, max, reading>>

\* A frame that is cut, tiny, undecodable, too large or of a reserved type;
\* a chunk header or a trailer where a frame should be is one of these.
RefuseFrame ==
    /\ WantFrame /\ Token.t \notin {"data", "pass"}
    /\ Fail

\* The chunk has all it expects, or the file ends: the next 8 bytes are
\* skipped as the trailer, whatever they are.
EndChunk ==
    /\ InFrames
    /\ done >= chunk.expected \/ pos > Len(file)
    /\ chunk' = Between
    /\ IF pos <= Len(file) => Token.t = "trailer"
       THEN pos' = pos + 1 /\ UNCHANGED status
       ELSE \* amid a frame: junk follows, unless less than a header is left
            /\ pos' = Len(file) + 1
            /\ status' \in IF \E k \in pos..Len(file) : file[k].t = "chunk"
                           THEN {"failed"} ELSE {"opening", "failed"}
    /\ UNCHANGED <<file, done, frames, max, reading>>

FinishLoad ==
    /\ status = "opening" /\ chunk = Between /\ pos > Len(file)
    /\ IF frames = <<>>
       THEN status' = "failed" /\ UNCHANGED max
       ELSE /\ status' = "open"
            /\ max' = frames[Len(frames)].pa + frames[Len(frames)].len
    /\ UNCHANGED <<file, loading, reading>>

-----------------------------------------------------------------------------
(* read().                                                                 *)

FrameEnd(i) == frames[i].pa + frames[i].len

\* One round of std::upper_bound: n frames from i on are left to search.
Halve(pa, i, n) ==
    LET half == n \div 2 IN
    IF pa < FrameEnd(i + half) THEN <<i, half>> ELSE <<i + half + 1, n - half - 1>>

\* It ends when none is left, after at most a round for every frame.
UpperBound(pa) ==
    LET search[k \in 0..Len(frames)] ==
            IF k = 0 THEN <<1, Len(frames)>>
            ELSE IF search[k-1][2] = 0 THEN search[k-1]
            ELSE Halve(pa, search[k-1][1], search[k-1][2])
    IN  search[Len(frames)][1]

\* A read of no bytes returns at once.
Call ==
    /\ status = "open" /\ req = NoReq
    /\ \E pa \in Addr, len \in Lengths :
          /\ req' = [pa |-> pa, len |-> len]
          /\ idx' = IF len = 0 THEN Len(frames) + 1 ELSE UpperBound(pa)
          /\ dst' = [k \in 1..len |-> Zero]
          /\ total' = 0
    /\ reply' = NoReply
    /\ UNCHANGED <<file, status, loading, max>>

End == req.pa + req.len
More == idx <= Len(frames) /\ frames[idx].pa < End

CopyFrame ==
    /\ req # NoReq /\ More
    /\ LET f == frames[idx]
           rs == Max({req.pa, f.pa})
           re == Min({End, FrameEnd(idx)})
       IN  /\ dst' = [k \in DOMAIN dst |->
                        LET a == req.pa + k - 1
                        IN  IF a >= rs /\ a < re THEN f.off + (a - f.pa) ELSE dst[k]]
           /\ total' = total + (re - rs)
    /\ idx' = idx + 1
    /\ UNCHANGED <<file, status, loading, max, req, reply>>

Return ==
    /\ req # NoReq /\ ~More
    /\ reply' = [pa |-> req.pa, bytes |-> dst, count |-> total]
    /\ req' = NoReq
    /\ UNCHANGED <<file, status, loading, max, idx, dst, total>>

Next ==
    \/ LoadHeader \/ RefuseHeader \/ LoadFrame \/ PassFrame \/ RefuseFrame
    \/ EndChunk \/ FinishLoad
    \/ Call
    \/ CopyFrame \/ Return

Spec == Init /\ [][Next]_vars

Loading ==
    \/ LoadHeader \/ RefuseHeader \/ LoadFrame \/ PassFrame \/ RefuseFrame
    \/ EndChunk \/ FinishLoad
Reading == CopyFrame \/ Return

-----------------------------------------------------------------------------
\* The frames of the file and their addresses, read off the tokens: data
\* frame i belongs to the last chunk header before it, and lies above the
\* frames between the two.
ChunkOf(i) == Max({c \in 1..i : file[c].t = "chunk"})
Before(i) ==
    LET sum[k \in 0..Len(file)] ==
            IF k = 0 \/ file[k].t = "chunk" THEN 0
            ELSE sum[k-1] + (IF file[k].t = "data" THEN file[k].dec ELSE 0)
    IN  sum[i-1]
Expected(i) == file[ChunkOf(i)].end - file[ChunkOf(i)].start
HasChunk(i) == \E c \in 1..i : file[c].t = "chunk"

Captured ==
    {[pa |-> file[ChunkOf(i)].start + Before(i), len |-> file[i].dec, off |-> Stride * i] :
        i \in {k \in 1..Len(file) : file[k].t = "data" /\ HasChunk(k) /\ Before(k) < Expected(k)}}
=============================================================================
