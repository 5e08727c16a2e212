----------------------------- MODULE ListWalks -----------------------------
(***************************************************************************)
(* The kernel's lists the views are made of, each walked with the loop of  *)
(* its own source file over an image whose links may be torn: the tasks    *)
(* (list_processes, src/os/linux/process_list.cpp), the threads of a task  *)
(* (enumerate_threads, src/os/linux/threads.cpp) and the modules           *)
(* (enumerate_modules, src/os/linux/modules.cpp).                          *)
(*                                                                         *)
(* A link leads to a Node, to the Head (init_task is in the kernel's text, *)
(* outside the direct map), is Null, is Odd, not aligned, or Wild, into    *)
(* memory that is not in the dump; Torn if it cannot be read.  A node's    *)
(* fields are "ok", "bad" (no pid, no name: garbage) or "torn".            *)
(***************************************************************************)
EXTENDS Integers, Sequences, FiniteSets

CONSTANTS
    Nodes, Head0, Null, Odd, Wild, Torn, Leader,
    Images,
    MaxWalk         \* kMaxTaskWalk and the guards of the other two

Links == Nodes \cup {Head0, Null, Odd, Wild, Torn}

\* No node is the head or one of the links that lead to none; what cannot be
\* read is no link.
ASSUME ListAssumption ==
    /\ MaxWalk \in Nat
    /\ Nodes \cap {Head0, Null, Odd, Wild, Torn, Leader} = {}
    /\ Torn \notin {Head0, Null, Odd, Wild}
    /\ Images \subseteq [kind : {"tasks", "threads", "modules"}, anchor : BOOLEAN, first : Links,
                          next : [Nodes -> Links], fields : [Nodes -> {"ok", "bad", "torn"}]]

VARIABLES
    listImg,
    listPc,
    listCur,
    seen,       \* the links list_processes has been at
    turns,      \* the guard of the other two
    listOut

listVars == <<listImg, listPc, listCur, seen, turns, listOut>>

ListInit ==
    /\ listImg \in Images
    /\ listPc = "start"
    /\ listCur = Null /\ seen = {} /\ turns = 0 /\ listOut = <<>>

ReadLink(a) == IF a \in Nodes THEN listImg.next[a] ELSE Torn
Fields(a) == IF a \in Nodes THEN listImg.fields[a] ELSE "torn"

\* Without init_task's link list_processes throws; without a signal_struct
\* the leader is the only thread.
BeginList ==
    /\ listPc = "start"
    /\ listCur' = listImg.first
    /\ listOut' = IF listImg.kind = "threads" /\ ~listImg.anchor THEN <<Leader>> ELSE <<>>
    /\ listPc' = IF listImg.kind = "threads" /\ ~listImg.anchor THEN "done"
                ELSE IF listImg.first # Torn THEN "walk"
                ELSE IF listImg.kind = "tasks" THEN "error" ELSE "done"
    /\ UNCHANGED <<listImg, seen, turns>>

\* Mutant: no set of the links seen.
TasksOver_Unseen == listCur \in {Null, Odd, Head0} \/ Cardinality(seen) >= MaxWalk

TasksOver == listCur \in {Null, Odd, Head0} \cup seen \/ Cardinality(seen) >= MaxWalk

\* Mutant: a task that is not plausible ends the walk.
NextTask_Stops ==
    /\ listPc = "walk" /\ listImg.kind = "tasks" /\ ~TasksOver
    /\ seen' = seen \cup {listCur}
    /\ listOut' = IF Fields(listCur) = "ok" THEN Append(listOut, listCur) ELSE listOut
    /\ listCur' = ReadLink(listCur)
    /\ listPc' = IF ReadLink(listCur) \in {Torn, listImg.first} \/ Fields(listCur) # "ok" THEN "done" ELSE listPc
    /\ UNCHANGED <<listImg, turns>>

\* A task that is not plausible is left out and its link followed.
NextTask ==
    /\ listPc = "walk" /\ listImg.kind = "tasks" /\ ~TasksOver
    /\ seen' = seen \cup {listCur}
    /\ listOut' = IF Fields(listCur) = "ok" THEN Append(listOut, listCur) ELSE listOut
    /\ listCur' = ReadLink(listCur)
    /\ listPc' = IF ReadLink(listCur) \in {Torn, listImg.first} THEN "done" ELSE listPc
    /\ UNCHANGED <<listImg, turns>>

ListOver == listCur \in {Null, Head0} \/ turns >= MaxWalk

\* A pid that is too large ends the walk; one that cannot be read is 0.
NextThread ==
    /\ listPc = "walk" /\ listImg.kind = "threads" /\ ~ListOver
    /\ turns' = turns + 1
    /\ listOut' = IF Fields(listCur) = "bad" THEN listOut ELSE Append(listOut, listCur)
    /\ listCur' = ReadLink(listCur)
    /\ listPc' = IF Fields(listCur) = "bad" \/ ReadLink(listCur) \in {Torn, listCur} THEN "done" ELSE listPc
    /\ UNCHANGED <<listImg, seen>>

\* A state that cannot be read ends the walk; an impossible name is left out.
NextModule ==
    /\ listPc = "walk" /\ listImg.kind = "modules" /\ ~ListOver
    /\ turns' = turns + 1
    /\ listOut' = IF Fields(listCur) = "ok" THEN Append(listOut, listCur) ELSE listOut
    /\ listCur' = ReadLink(listCur)
    /\ listPc' = IF Fields(listCur) = "torn" \/ ReadLink(listCur) \in {Torn, listCur} THEN "done" ELSE listPc
    /\ UNCHANGED <<listImg, seen>>

StopList ==
    /\ listPc = "walk"
    /\ IF listImg.kind = "tasks" THEN TasksOver ELSE ListOver
    /\ listPc' = "done"
    /\ UNCHANGED <<listImg, listCur, seen, turns, listOut>>

ListNext == BeginList \/ NextTask \/ NextThread \/ NextModule \/ StopList

ListSpec == ListInit /\ [][ListNext]_listVars /\ WF_listVars(ListNext)

-----------------------------------------------------------------------------
\* Where the links of an image lead, one after the other.
Linked(im) ==
    LET link[k \in 0..MaxWalk] ==
            IF k = 0 THEN im.first ELSE IF link[k - 1] \in Nodes THEN im.next[link[k - 1]] ELSE Torn
    IN  link
Link(k) == Linked(listImg)[k]

\* Tasks that are garbage are passed over, threads are listed up to one that
\* is, and modules up to one that cannot be read.
Plausible(a) == IF listImg.kind = "threads" THEN Fields(a) # "bad" ELSE Fields(a) = "ok"
Damaged(a) ==
    \/ listImg.kind = "threads" /\ Fields(a) = "bad"
    \/ listImg.kind = "modules" /\ Fields(a) = "torn"

\* Up to link i there are nodes, none of them damaged, none of them twice.
Sound(i) == \A j \in 0..i : Link(j) \in Nodes /\ ~Damaged(Link(j))
Different(i) == \A j, k \in 0..i : Link(j) = Link(k) => j = k

\* The links whose nodes are to be reported.
Due == {i \in 0..(MaxWalk - 1) : Sound(i) /\ Different(i) /\ Plausible(Link(i))}

\* listOut has the plausible ones of some links, each place[m] from the first.
PlacedBy(place) ==
    /\ \A m, n \in DOMAIN listOut : m < n => place[m] < place[n]
    /\ \A m \in DOMAIN listOut : listOut[m] = Link(place[m]) /\ Plausible(listOut[m])

(* What precedes the damage to a list, or the guard, is reported, in its   *)
(* order; and nothing else is: only threads and modules whose links run in *)
(* a circle past the head are reported again and again, up to the guard,   *)
(* and a last link that leads to no node is taken for a thread.            *)
ListsFound ==
    listPc = "done" /\ (listImg.kind = "threads" => listImg.anchor) =>
        \E place \in [DOMAIN listOut -> 0..(MaxWalk - 1)] :
            /\ PlacedBy(place)
            /\ Due \subseteq {place[m] : m \in DOMAIN listOut}
            /\ \A m \in DOMAIN listOut :
                  \/ Sound(place[m]) /\ (listImg.kind = "tasks" => Different(place[m]))
                  \/ listImg.kind = "threads" /\ m = Len(listOut) /\ listOut[m] \notin Nodes

(* Every walk ends, also along a list that runs in a circle.               *)
ListEnded == listPc \in {"done", "error"}
=============================================================================
