------------------------------ MODULE OnceCell ------------------------------
(***************************************************************************)
(* What a lazily produced file promises its readers ("produced on first    *)
(* read, then cached"): one cell per file, empty until some access fills   *)
(* it, and from then on the same value for everyone.                       *)
(***************************************************************************)
CONSTANTS Keys, Values, Unset

VARIABLE cell

Init == cell = [k \in Keys |-> Unset]

Fill(k, v) ==
    /\ cell[k] = Unset
    /\ cell' = [cell EXCEPT ![k] = v]

Next == \E k \in Keys, v \in Values : Fill(k, v)

Spec == Init /\ [][Next]_cell
===========================================================================
