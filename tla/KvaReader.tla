----------------------------- MODULE KvaReader -----------------------------
(***************************************************************************)
(* Reads of kernel virtual addresses (src/os/linux/kva_reader.cpp): a      *)
(* chain of strategies by region of the address, the last of them a walk   *)
(* of init_mm's page table, whose address is found once and kept in a      *)
(* static atomic that all engines of the process share.                    *)
(*                                                                         *)
(* What a strategy gives for an address of an engine's dump is constant:   *)
(* all the bytes asked for, the first part of them, or none.  "part" holds *)
(* the first byte.  Walking one dump with another dump's page table gives  *)
(* none of the bytes, bytes of something else, or, should the two tables   *)
(* lie at the same address, the right ones.                                *)
(***************************************************************************)
EXTENDS Integers, Sequences

CONSTANTS
    Engines,    \* dumps
    Threads,    \* dispatcher and warm-pool threads
    VAs,        \* kernel addresses
    Region,     \* VA -> "vmalloc" | "physmap" | "image" | "other"
    Gives,      \* engine -> VA -> strategy -> "full" | "part" | "none"
    HasDtb,     \* engine -> dtb_validated
    HasInitMm,  \* engine -> init_mm.pgd can be read from the dump
    Unresolved, \* ~PAddr{0}, nothing cached
    NoPgd       \* 0, the cached failure

Strategies == {"direct", "image", "dtb", "init"}

ASSUME KvaAssumption ==
    /\ Region \in [VAs -> {"vmalloc", "physmap", "image", "other"}]
    /\ Gives \in [Engines -> [VAs -> [Strategies -> {"full", "part", "none"}]]]
    /\ HasDtb \in [Engines -> BOOLEAN]
    /\ HasInitMm \in [Engines -> BOOLEAN]
    /\ Unresolved \notin Engines /\ NoPgd \notin Engines

VARIABLES
    open,       \* the engines open in this process
    cached,     \* resolve_init_mm_pgd_pa's cached: an engine's PGD, named by it
    pc,         \* thread -> where it is
    call,       \* thread -> [op, eng, va], the call in progress
    todo,       \* thread -> the strategies left to try
    pgd,        \* thread -> what resolve_init_mm_pgd_pa gives it
    buf,        \* thread -> dst: "zero" from the caller, or what was read last
    result      \* thread -> what the last call returned

vars == <<open, cached, pc, call, todo, pgd, buf, result>>

Ops == {"read", "translate"}
Calls == [op : Ops, eng : Engines, va : VAs]
NoCall == [op |-> "none"]

\* Mutant: module addresses are taken for the kernel image's.
Chain_ImageFirst(va) ==
    CASE Region[va] \in {"vmalloc", "image"} -> <<"image">>
      [] Region[va] = "physmap" -> <<"direct", "dtb", "init">>
      [] Region[va] = "other"   -> <<"dtb", "init">>

\* The strategies in the order kva_read and kva_translate try them.
Chain(va) ==
    CASE Region[va] = "vmalloc" -> <<"dtb", "init">>
      [] Region[va] = "physmap" -> <<"direct", "dtb", "init">>
      [] Region[va] = "image"   -> <<"image", "dtb", "init">>
      [] Region[va] = "other"   -> <<"dtb", "init">>

Init ==
    /\ open \in SUBSET Engines
    /\ cached = Unresolved
    /\ pc = [t \in Threads |-> "idle"]
    /\ call = [t \in Threads |-> NoCall]
    /\ todo = [t \in Threads |-> <<>>]
    /\ pgd = [t \in Threads |-> NoPgd]
    /\ buf = [t \in Threads |-> "zero"]
    /\ result = [t \in Threads |-> "none"]

\* A caller clears its buffer and asks; kva_read_cstr is a read of maxlen
\* bytes into a buffer of its own.
Begin(t, c) ==
    /\ pc[t] = "idle"
    /\ c.eng \in open
    /\ pc' = [pc EXCEPT ![t] = "try"]
    /\ call' = [call EXCEPT ![t] = c]
    /\ todo' = [todo EXCEPT ![t] = Chain(c.va)]
    /\ buf' = [buf EXCEPT ![t] = "zero"]
    /\ result' = [result EXCEPT ![t] = "none"]
    /\ UNCHANGED <<cached, pgd>>

\* Mutant: kva_read takes any bytes for an answer.
Succeeds_Any(op, got) == got # "none"

\* kva_read wants all n bytes, kva_translate probes the first.
Succeeds(op, got) == got = "full" \/ got = "wrong" \/ (op = "translate" /\ got = "part")

Outcome(got) == IF got = "none" THEN "zero" ELSE got

\* The end of a strategy that gave got: the call returns, or the next
\* strategy is tried.  Every read of memory clears the buffer first.
Tried(t, got) ==
    LET op == call[t].op
        ok == Succeeds(op, got)
    IN  /\ buf' = [buf EXCEPT ![t] = IF op = "translate" THEN @ ELSE Outcome(got)]
        /\ todo' = [todo EXCEPT ![t] = Tail(@)]
        /\ IF ok \/ Len(todo[t]) = 1
           THEN /\ pc' = [pc EXCEPT ![t] = "idle"]
                /\ result' = [result EXCEPT ![t] = IF ok THEN "ok" ELSE "fail"]
           ELSE /\ pc' = [pc EXCEPT ![t] = "try"]
                /\ UNCHANGED result

\* A linear translation.
TryLinear(t) ==
    /\ pc[t] = "try" /\ Head(todo[t]) \in {"direct", "image"}
    /\ Tried(t, Gives[call[t].eng][call[t].va][Head(todo[t])])
    /\ UNCHANGED <<cached, call, pgd>>

\* The validated DTB, or none to try.
TryDtb(t) ==
    /\ pc[t] = "try" /\ Head(todo[t]) = "dtb"
    /\ IF HasDtb[call[t].eng]
       THEN Tried(t, Gives[call[t].eng][call[t].va]["dtb"])
       ELSE todo' = [todo EXCEPT ![t] = Tail(@)] /\ UNCHANGED <<pc, buf, result>>
    /\ UNCHANGED <<cached, call, pgd>>

\* Mutant: the cache is claimed with 0 while the resolution is under way.
LoadCached_Claim(t) ==
    /\ pc[t] = "try" /\ Head(todo[t]) = "init"
    /\ IF cached = Unresolved
       THEN /\ pgd' = [pgd EXCEPT ![t] = IF HasInitMm[call[t].eng] THEN call[t].eng ELSE NoPgd]
            /\ pc' = [pc EXCEPT ![t] = "store"]
            /\ cached' = NoPgd
       ELSE /\ pgd' = [pgd EXCEPT ![t] = cached]
            /\ pc' = [pc EXCEPT ![t] = "walk"]
            /\ UNCHANGED cached
    /\ UNCHANGED <<call, todo, buf, result>>

\* resolve_init_mm_pgd_pa: cached.load, and the resolution if it is needed.
LoadCached(t) ==
    /\ pc[t] = "try" /\ Head(todo[t]) = "init"
    /\ IF cached = Unresolved
       THEN /\ pgd' = [pgd EXCEPT ![t] = IF HasInitMm[call[t].eng] THEN call[t].eng ELSE NoPgd]
            /\ pc' = [pc EXCEPT ![t] = "store"]
       ELSE /\ pgd' = [pgd EXCEPT ![t] = cached]
            /\ pc' = [pc EXCEPT ![t] = "walk"]
    /\ UNCHANGED <<cached, call, todo, buf, result>>

StoreCached(t) ==
    /\ pc[t] = "store"
    /\ cached' = pgd[t]
    /\ pc' = [pc EXCEPT ![t] = "walk"]
    /\ UNCHANGED <<call, todo, pgd, buf, result>>

\* The walk of the page table at pgd in the dump of the call's engine.
WalkInit(t) ==
    /\ pc[t] = "walk"
    /\ CASE pgd[t] = NoPgd       -> /\ pc' = [pc EXCEPT ![t] = "idle"]
                                    /\ todo' = [todo EXCEPT ![t] = Tail(@)]
                                    /\ result' = [result EXCEPT ![t] = "fail"]
                                    /\ UNCHANGED buf
         [] pgd[t] = call[t].eng -> Tried(t, Gives[call[t].eng][call[t].va]["init"])
         [] OTHER                -> \E got \in {"none", "wrong", Gives[call[t].eng][call[t].va]["init"]} :
                                        Tried(t, got)
    /\ UNCHANGED <<cached, call, pgd>>

Next ==
    \E t \in Threads :
        /\ \/ \E c \in Calls : Begin(t, c)
           \/ TryLinear(t) \/ TryDtb(t)
           \/ LoadCached(t) \/ StoreCached(t) \/ WalkInit(t)
        /\ UNCHANGED open

Spec == Init /\ [][Next]_vars

-----------------------------------------------------------------------------
\* The strategies that can be right for va, given what engine e has
\* (kva_reader.h:3-18).
Applicable(e, va) ==
    (IF Region[va] = "physmap" THEN {"direct"} ELSE {})
    \cup (IF Region[va] = "image" THEN {"image"} ELSE {})
    \cup (IF HasDtb[e] THEN {"dtb"} ELSE {})
    \cup (IF HasInitMm[e] THEN {"init"} ELSE {})

\* One dump in the process.  With more, the cached page table is whichever
\* engine resolved its own first.
Alone == \A e, f \in open : e = f

Returned(t, r, op) == result[t] = r /\ call[t].op = op
What(t, s) == Gives[call[t].eng][call[t].va][s]
Usable(t) == Applicable(call[t].eng, call[t].va)

(* A kva_read that returns true has put bytes of that address of that dump *)
(* in the buffer, all of them: "true iff all n bytes resolved              *)
(* successfully" (kva_reader.h:35).                                        *)
TrueMeansAll ==
    Alone => \A t \in Threads : Returned(t, "ok", "read") => buf[t] = "full"

(* kva_read gives up only on an address no strategy can read whole, and    *)
(* kva_translate on one no strategy can read at all, whichever thread      *)
(* resolves, or races to resolve, the page table of init_mm ("a benign     *)
(* race just redoes the work", kva_reader.cpp:26).                         *)
GivesUpRightly ==
    Alone =>
        \A t \in Threads :
            /\ Returned(t, "fail", "read") => \A s \in Usable(t) : What(t, s) # "full"
            /\ Returned(t, "fail", "translate") => \A s \in Usable(t) : What(t, s) = "none"

(* Both answers of kva_read and kva_translate can be relied on.            *)
AnswersTrue == TrueMeansAll /\ GivesUpRightly

(* Whatever the shared cache holds, an address that a linear translation   *)
(* or the engine's own DTB can read is read, and read right, however many  *)
(* dumps are open.                                                         *)
OwnStrategiesSuffice ==
    \A t \in Threads :
        (Returned(t, "ok", "read") \/ Returned(t, "fail", "read"))
        /\ (\E s \in Usable(t) \ {"init"} : What(t, s) = "full")
        => result[t] = "ok" /\ buf[t] = "full"
=============================================================================
