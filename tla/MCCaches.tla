------------------------------ MODULE MCCaches ------------------------------
(* What the threads of a client share: the two caches of an engine's       *)
(* readers, and the handles and errors of the C interface.  They are       *)
(* objects of their own: each behaviour uses one of them, the others stay  *)
(* as they were made, so that the instance has the sum of their states.    *)
(*                                                                         *)
(* UserPageCache has four pages, one of them unmapped, and room for two.   *)
(* FrameCache has frames of different sizes and a budget that the largest  *)
(* of them fills alone.  CApi has two handles, three processes, a          *)
(* directory with a file, and a page of kernel memory between two holes.   *)
EXTENDS UserPageCache, FrameCache, CApi, TLC

CONSTANTS
    r1, r2, a, b, c, h1, h2,
    Caches      \* of "pages", "frames", "handles"

MCMem == <<a, b, Unmapped, c>>
MCSize == <<1, 2, 1, 3>>
MCProcs == <<<<1, "init">>, <<7, "sh">>, <<9, "sh">>>>
MCNodes == [p \in {<<"/">>, <<"/", "f">>} |->
    IF p = <<"/">> THEN [kind |-> "dir", children |-> <<"f">>] ELSE [kind |-> "file", children |-> <<"a", "b">>]]
MCAsked == {<<>>, <<"\\", "/", "f", "/">>, <<"f">>, <<"x">>}
MCArgvs == {<<"-norefresh">>, <<"d">>, <<"d", "-device", "e", "-symbol">>}

Reader_symmetry == Permutations({r1, r2})

VARIABLE used

allVars == <<used, vars, frameVars, apiVars>>

CachesInit == used \in Caches /\ Init /\ FrameInit /\ ApiInit

CachesNext ==
    \/ used = "pages" /\ Next /\ UNCHANGED <<used, frameVars, apiVars>>
    \/ used = "frames" /\ FrameNext /\ UNCHANGED <<used, vars, apiVars>>
    \/ used = "handles" /\ ApiNext /\ UNCHANGED <<used, vars, frameVars>>

CachesSpec == CachesInit /\ [][CachesNext]_allVars
=============================================================================
