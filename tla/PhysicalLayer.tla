---------------------------- MODULE PhysicalLayer ----------------------------
(***************************************************************************)
(* What a dump format promises (src/formats/physical_layer.h): once open   *)
(* it answers reads of a sparse physical address space.  A byte of memory  *)
(* is named by the file offset it is stored at, so a reader who is given   *)
(* the wrong byte is given the wrong offset.                               *)
(*                                                                         *)
(* Addresses are small numbers that never wrap: a physical address of the  *)
(* dumped machines has at most 52 of the 64 bits.                          *)
(***************************************************************************)
EXTENDS Integers, FiniteSets, FiniteSetsExt

CONSTANTS
    Addr,       \* the addresses a caller asks for
    Lengths     \* the lengths it asks for

VARIABLES
    declared,   \* the ranges the file's headers announce, [pa, len, off]
    captured,   \* the part of them whose bytes the file holds
    status,     \* "opening", "open", or "failed" when the factory threw
    max,        \* max_address()
    req,        \* the read in progress, or NoReq
    reply       \* what the last read gave: bytes and count, or NoReply

layer == <<declared, captured, status, max, req, reply>>

NoReq == [pa |-> -1, len |-> 0]
NoReply == [pa |-> -1, bytes |-> <<>>, count |-> 0]
Zero == -1

Span(s) == s.pa .. (s.pa + s.len - 1)

\* The addresses that have data, and where the file keeps the one at a.
Backed(parts) == UNION {Span(s) : s \in parts}
Sources(parts, a) == {s.off + (a - s.pa) : s \in {t \in parts : a \in Span(t)}}

\* "Largest physical address that has data + 1 (exclusive upper bound)."
Top(parts) == IF Backed(parts) = {} THEN 0 ELSE 1 + Max(Backed(parts))

Window(pa, len) == pa .. (pa + len - 1)

\* The bytes a read of len at pa must leave in the caller's buffer: memory
\* where there is some, zero in the holes.
Faithful(parts, pa, len, bytes) ==
    /\ DOMAIN bytes = 1..len
    /\ \A k \in 1..len : LET a == pa + k - 1 IN
           IF a \in Backed(parts) THEN bytes[k] \in Sources(parts, a)
                                 ELSE bytes[k] = Zero

\* "holes and unreadable bytes are NOT counted in the return value".
Honest(parts, pa, len, count) ==
    count = Cardinality(Window(pa, len) \cap Backed(parts))

Init ==
    /\ status = "opening"
    /\ max = 0
    /\ req = NoReq
    /\ reply = NoReply

Open ==
    /\ status = "opening"
    /\ status' = "open"
    /\ max' = Top(declared)
    /\ UNCHANGED <<declared, captured, req, reply>>

Refuse ==
    /\ status = "opening"
    /\ status' = "failed"
    /\ UNCHANGED <<declared, captured, max, req, reply>>

Call ==
    /\ status = "open" /\ req = NoReq
    /\ \E pa \in Addr, len \in Lengths : req' = [pa |-> pa, len |-> len]
    /\ reply' = NoReply
    /\ UNCHANGED <<declared, captured, status, max>>

Return ==
    /\ req # NoReq
    /\ reply'.pa = req.pa
    /\ Faithful(captured, req.pa, req.len, reply'.bytes)
    /\ Honest(captured, req.pa, req.len, reply'.count)
    /\ req' = NoReq
    /\ UNCHANGED <<declared, captured, status, max>>

Next == Open \/ Refuse \/ Call \/ Return

Spec == Init /\ [][Next]_layer
=============================================================================
