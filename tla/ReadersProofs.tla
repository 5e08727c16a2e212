---------------------------- MODULE ReadersProofs ----------------------------
(***************************************************************************)
(* Proofs about what reads memory for somebody: the kernel address reader, *)
(* the two raw memory streams and proc.dmp, the walks over the lists of    *)
(* tasks, threads and modules, whatever the dump holds, and the files put  *)
(* together from the page cache.                                           *)
(*                                                                         *)
(* KvaReader, for any dumps, threads and addresses: a call in progress has *)
(* tried, without success, every strategy that can be right for its        *)
(* address and is not among those left; and with one dump in the process   *)
(* every thread that resolves the page table of init_mm, in whatever order *)
(* they race to, resolves it to the same value.                            *)
(*                                                                         *)
(* RawStreams: a page is put into the caller's buffer whole or not at all, *)
(* and what no page has covered yet is still the zeros it was cleared to.  *)
(*                                                                         *)
(* ElfCoreStream: the segments plan() has laid out follow the header blob  *)
(* without gap or overlap, and at segment i of read()'s loop the buffer    *)
(* holds the header and every earlier segment's part of the window, and    *)
(* zeros in the rest.                                                      *)
(*                                                                         *)
(* ListWalks: after n links a walk has listed the plausible ones of them,  *)
(* and none of them was damaged or, in a list of tasks, met before; what   *)
(* ends it is a link after which none is to be reported.                   *)
(*                                                                         *)
(* RecoveredFile: of the pages the copying is through with, each byte was  *)
(* read from the frame of a page found for its place, or its page is said  *)
(* to be dropped.                                                          *)
(***************************************************************************)
EXTENDS KvaReader, RawStreams, ListWalks, RecoveredFile, FiniteSetTheorems, TLAPS

\* What may be left to try in a call.
Todos == {<<"direct", "dtb", "init">>, <<"image", "dtb", "init">>, <<"dtb", "init">>, <<"init">>}

\* The strategies in a list of them.
Items(td) == {td[i] : i \in DOMAIN td}

\* The values of the reader's variables.
TypeInv ==
    /\ open \subseteq Engines
    /\ cached \in Engines \cup {Unresolved, NoPgd}
    /\ pc \in [Threads -> {"idle", "try", "store", "walk"}]
    /\ call \in [Threads -> Calls \cup {NoCall}]
    /\ todo \in [Threads -> Todos \cup {<<>>}]
    /\ pgd \in [Threads -> Engines \cup {NoPgd}]
    /\ buf \in [Threads -> {"zero", "full", "part", "wrong"}]
    /\ result \in [Threads -> {"none", "ok", "fail"}]

\* Strategy s does not serve the call of t.
Failed(t, s) == ~Succeeds(call[t].op, What(t, s))

\* What holds of a thread in a call.
InCall(t) ==
    pc[t] # "idle" =>
        /\ call[t] \in Calls /\ call[t].eng \in open
        /\ result[t] = "none"
        /\ todo[t] \in Todos
        /\ pc[t] \in {"store", "walk"} => todo[t] = <<"init">>
        /\ \A s \in Usable(t) : s \in Items(todo[t]) \/ Failed(t, s)

\* What holds when the call has returned.
AfterCall(t) ==
    result[t] # "none" =>
        /\ call[t] \in Calls /\ call[t].eng \in open
        /\ /\ call[t].op = "read"
           /\ \E s \in Usable(t) \ {"init"} : What(t, s) = "full"
           => result[t] = "ok" /\ buf[t] = "full"
        /\ Alone =>
             /\ result[t] = "ok" /\ call[t].op = "read" => buf[t] = "full"
             /\ result[t] = "fail" => \A s \in Usable(t) : Failed(t, s)

\* What the page table of init_mm is resolved to in the dump of e.
Own(e) == IF HasInitMm[e] THEN e ELSE NoPgd

\* While one dump is open there is one page table of init_mm to resolve.
Resolved ==
    Alone =>
        /\ cached # Unresolved => \A e \in open : cached = Own(e)
        /\ \A t \in Threads : pc[t] \in {"store", "walk"} => pgd[t] = Own(call[t].eng)

\* The inductive invariant of the reader.
IInv == TypeInv /\ Resolved /\ \A t \in Threads : InCall(t) /\ AfterCall(t)

---------------------------------------------------------------------------
\* The lists of strategies, and their ends.
LEMMA TodoFacts ==
    ASSUME NEW td \in Todos
    PROVE  /\ Head(td) = "init" => td = <<"init">> /\ Len(td) = 1 /\ Tail(td) = <<>>
           /\ Head(td) # "init" => Tail(td) \in Todos /\ Len(td) # 1
           /\ Head(td) # "init" => Items(td) = Items(Tail(td)) \cup {Head(td)}
           /\ Head(td) \in Strategies
           /\ Items(<<"init">>) = {"init"}
  <1>1. Items(<<"init">>) = {"init"}
    BY DEF Items
  <1>2. CASE td = <<"init">>
    BY <1>1, <1>2 DEF Strategies
  <1>3. CASE td = <<"dtb", "init">>
    <2>1. Tail(td) = <<"init">> /\ Head(td) = "dtb" /\ Len(td) = 2
      BY <1>3
    <2>2. Items(td) = {"dtb", "init"}
      BY <1>3 DEF Items
    <2>3. Items(Tail(td)) = {"init"} /\ Tail(td) \in Todos
      BY <1>1, <2>1 DEF Todos
    <2>4. {"dtb", "init"} = {"init"} \cup {"dtb"}
      OBVIOUS
    <2>5. Items(td) = Items(Tail(td)) \cup {Head(td)}
      BY <2>1, <2>2, <2>3, <2>4
    <2> QED
      BY <1>1, <2>1, <2>3, <2>5 DEF Strategies
  <1>4. Items(<<"dtb", "init">>) = {"dtb", "init"}
    BY DEF Items
  <1>5. ASSUME NEW s \in {"direct", "image"}, td = <<s, "dtb", "init">>
        PROVE  /\ Tail(td) = <<"dtb", "init">> /\ Head(td) = s /\ Len(td) = 3
               /\ Items(td) = {s, "dtb", "init"}
    BY <1>5 DEF Items
  <1>6. CASE td = <<"direct", "dtb", "init">>
    BY <1>1, <1>4, <1>5, <1>6 DEF Todos, Strategies
  <1>7. CASE td = <<"image", "dtb", "init">>
    BY <1>1, <1>4, <1>5, <1>7 DEF Todos, Strategies
  <1> QED
    BY <1>2, <1>3, <1>6, <1>7 DEF Todos

\* A new call has every strategy that can be right still to try.
LEMMA ChainFacts ==
    ASSUME NEW va \in VAs
    PROVE  /\ Chain(va) \in Todos
           /\ \A e \in Engines : Applicable(e, va) \subseteq Items(Chain(va))
  <1>1. /\ Items(<<"dtb", "init">>) = {"dtb", "init"}
        /\ Items(<<"direct", "dtb", "init">>) = {"direct", "dtb", "init"}
        /\ Items(<<"image", "dtb", "init">>) = {"image", "dtb", "init"}
    BY DEF Items
  <1>2. Region[va] \in {"vmalloc", "physmap", "image", "other"}
    BY KvaAssumption
  <1> QED
    BY <1>1, <1>2 DEF Chain, Todos, Applicable

\* What a strategy puts into the buffer is one of the four outcomes.
LEMMA GivesType ==
    ASSUME NEW e \in Engines, NEW va \in VAs, NEW s \in Strategies
    PROVE  Gives[e][va][s] \in {"full", "part", "none"}
  BY KvaAssumption

---------------------------------------------------------------------------
LEMMA InitInv == Init => IInv
  BY DEF Init, IInv, TypeInv, Resolved, InCall, AfterCall

\* A step of a thread is no business of the others.
LEMMA OthersKeep ==
    ASSUME IInv, NEW t \in Threads, NEW u \in Threads,
           UNCHANGED open,
           pc'[u] = pc[u], call'[u] = call[u], todo'[u] = todo[u],
           buf'[u] = buf[u], result'[u] = result[u]
    PROVE  InCall(u)' /\ AfterCall(u)'
  <1>1. InCall(u) /\ AfterCall(u)
    BY DEF IInv
  <1> QED
    BY <1>1 DEF InCall, AfterCall, Usable, What, Failed, Alone

\* The end of a strategy.  A strategy of the engine's own gives what the
\* dump has; with one dump the walk does too.
LEMMA TriedKeeps ==
    ASSUME IInv, NEW t \in Threads, pc[t] \in {"try", "walk"},
           NEW got \in {"full", "part", "none", "wrong"}, Tried(t, got),
           UNCHANGED <<open, call>>,
           NEW s, s = Head(todo[t]),
           s # "init" => got = What(t, s),
           Alone => (s \in Usable(t) => got = What(t, s)) /\ got # "wrong"
    PROVE  InCall(t)' /\ AfterCall(t)'
  <1> DEFINE ok == Succeeds(call[t].op, got)
  <1>1. InCall(t) /\ pc[t] # "idle"
    BY DEF IInv
  <1>2. /\ call[t] \in Calls /\ call[t].eng \in open /\ result[t] = "none" /\ todo[t] \in Todos
        /\ \A r \in Usable(t) : r \in Items(todo[t]) \/ Failed(t, r)
    BY <1>1 DEF InCall
  <1>3. /\ buf'[t] = IF call[t].op = "translate" THEN buf[t] ELSE Outcome(got)
        /\ todo'[t] = Tail(todo[t])
        /\ call'[t] = call[t]
    BY DEF Tried, IInv, TypeInv
  <1>4. \A r : What(t, r)' = What(t, r) /\ Failed(t, r)' = Failed(t, r) /\ Usable(t)' = Usable(t) /\ (Alone' = Alone)
    BY DEF What, Failed, Usable, Alone
  <1>5. CASE ok
    <2>1. pc'[t] = "idle" /\ result'[t] = "ok"
      BY <1>5 DEF Tried, IInv, TypeInv
    <2>2. call[t].op = "read" => got \in {"full", "wrong"}
      BY <1>5 DEF Succeeds
    <2>3. call[t].op = "read" /\ got = "full" => buf'[t] = "full"
      BY <1>3 DEF Outcome
    <2>4. call[t].op = "read" /\ Alone => buf'[t] = "full"
      BY <2>2, <2>3
    <2>5. ASSUME call[t].op = "read", NEW r \in Usable(t) \ {"init"}, What(t, r) = "full"
          PROVE  buf'[t] = "full"
      <3>1. ~Failed(t, r)
        BY <2>5 DEF Failed, Succeeds
      <3>2. r \in Items(todo[t])
        BY <1>2, <3>1
      <3>3. s # "init"
        BY <1>2, <3>2, TodoFacts
      <3>4. got \in {"full", "part", "none"}
        BY <1>2, <3>3, TodoFacts, GivesType DEF What, Calls, IInv, TypeInv
      <3> QED
        BY <2>2, <2>3, <2>5, <3>4
    <2>6. InCall(t)'
      BY <2>1 DEF InCall
    <2>7. AfterCall(t)'
      BY <1>2, <1>3, <1>4, <2>1, <2>4, <2>5 DEF AfterCall
    <2> QED
      BY <2>6, <2>7
  <1>6. CASE ~ok /\ s # "init"
    <2>1. Len(todo[t]) # 1 /\ Tail(todo[t]) \in Todos /\ Items(todo[t]) = Items(Tail(todo[t])) \cup {s}
      BY <1>2, <1>6, TodoFacts
    <2>2. pc'[t] = "try" /\ result'[t] = "none"
      BY <1>2, <1>6, <2>1 DEF Tried, IInv, TypeInv
    <2>3. Failed(t, s)
      BY <1>6 DEF Failed
    <2>4. \A r \in Usable(t) : r \in Items(Tail(todo[t])) \/ Failed(t, r)
      BY <1>2, <2>1, <2>3
    <2>5. InCall(t)'
      BY <1>2, <1>3, <1>4, <2>1, <2>2, <2>4 DEF InCall
    <2> QED
      BY <2>2, <2>5 DEF AfterCall
  <1>7. CASE ~ok /\ s = "init"
    <2>1. Len(todo[t]) = 1 /\ todo[t] = <<"init">> /\ Items(todo[t]) = {"init"}
      BY <1>2, <1>7, TodoFacts
    <2>2. pc'[t] = "idle" /\ result'[t] = "fail"
      BY <1>7, <2>1 DEF Tried, IInv, TypeInv
    <2>3. \A r \in Usable(t) \ {"init"} : Failed(t, r)
      BY <1>2, <2>1
    <2>4. ASSUME call[t].op = "read", NEW r \in Usable(t) \ {"init"}, What(t, r) = "full"
          PROVE  FALSE
      BY <2>3, <2>4 DEF Failed, Succeeds
    <2>5. Alone => \A r \in Usable(t) : Failed(t, r)
      BY <1>7, <2>3 DEF Failed
    <2>6. InCall(t)'
      BY <2>2 DEF InCall
    <2>7. AfterCall(t)'
      BY <1>2, <1>3, <1>4, <2>2, <2>4, <2>5 DEF AfterCall
    <2> QED
      BY <2>6, <2>7
  <1> QED
    BY <1>5, <1>6, <1>7

\* Nor does it change types, or what is resolved.
LEMMA TriedTypes ==
    ASSUME IInv, NEW t \in Threads, pc[t] \in {"try", "walk"},
           NEW got \in {"full", "part", "none", "wrong"}, Tried(t, got),
           UNCHANGED <<open, cached, call, pgd>>
    PROVE  TypeInv' /\ Resolved' /\ \A u \in Threads \ {t} : InCall(u)' /\ AfterCall(u)'
  <1>1. todo[t] \in Todos /\ Tail(todo[t]) \in Todos \cup {<<>>}
    BY TodoFacts DEF IInv, InCall
  <1>2. Outcome(got) \in {"zero", "full", "part", "wrong"}
    BY DEF Outcome
  <1>3. TypeInv'
    BY <1>1, <1>2 DEF IInv, TypeInv, Tried
  <1>4. /\ \A u \in Threads \ {t} : pc'[u] = pc[u] /\ todo'[u] = todo[u] /\ buf'[u] = buf[u] /\ result'[u] = result[u]
        /\ pc'[t] \in {"idle", "try"}
    BY DEF IInv, TypeInv, Tried
  <1>5. Resolved'
    BY <1>4 DEF IInv, TypeInv, Resolved, Alone
  <1> QED
    BY <1>3, <1>4, <1>5, OthersKeep

---------------------------------------------------------------------------
LEMMA BeginInv ==
    ASSUME IInv, NEW t \in Threads, NEW c \in Calls, Begin(t, c), UNCHANGED open PROVE IInv'
  <1>1. Chain(c.va) \in Todos /\ Applicable(c.eng, c.va) \subseteq Items(Chain(c.va))
    BY ChainFacts DEF Calls
  <1>2. TypeInv'
    BY <1>1 DEF IInv, TypeInv, Begin
  <1>3. Resolved'
    BY DEF IInv, TypeInv, Resolved, Alone, Begin
  <1>4. /\ pc'[t] = "try" /\ call'[t] = c /\ todo'[t] = Chain(c.va) /\ result'[t] = "none"
        /\ c.eng \in open'
    BY DEF IInv, TypeInv, Begin
  <1>5. InCall(t)' /\ AfterCall(t)'
    BY <1>1, <1>4 DEF InCall, AfterCall, Usable
  <1>6. \A u \in Threads \ {t} : InCall(u)' /\ AfterCall(u)'
    BY OthersKeep DEF IInv, TypeInv, Begin
  <1> QED
    BY <1>2, <1>3, <1>5, <1>6 DEF IInv

\* The direct map and the image, which go on to the next when they fail.
LEMMA TryLinearInv ==
    ASSUME IInv, NEW t \in Threads, TryLinear(t), UNCHANGED open PROVE IInv'
  <1> DEFINE s == Head(todo[t])
  <1>1. call[t] \in Calls /\ s \in Strategies \ {"init"} /\ pc[t] = "try"
    BY DEF TryLinear, IInv, InCall, Strategies
  <1>2. What(t, s) \in {"full", "part", "none"}
    BY <1>1, GivesType DEF What, Calls
  <1>3. Tried(t, What(t, s)) /\ UNCHANGED <<open, cached, call, pgd>>
    BY DEF TryLinear, What
  <1>4. TypeInv' /\ Resolved' /\ \A u \in Threads \ {t} : InCall(u)' /\ AfterCall(u)'
    BY <1>1, <1>2, <1>3, TriedTypes
  <1>5. InCall(t)' /\ AfterCall(t)'
    BY <1>1, <1>2, <1>3, TriedKeeps
  <1> QED
    BY <1>4, <1>5 DEF IInv

\* The dump's own page table, if it has one.
LEMMA TryDtbInv ==
    ASSUME IInv, NEW t \in Threads, TryDtb(t), UNCHANGED open PROVE IInv'
  <1>1. /\ call[t] \in Calls /\ call[t].eng \in open /\ todo[t] \in Todos /\ result[t] = "none"
        /\ pc[t] = "try" /\ Head(todo[t]) = "dtb" /\ "dtb" \in Strategies
        /\ \A r \in Usable(t) : r \in Items(todo[t]) \/ Failed(t, r)
    BY DEF TryDtb, IInv, InCall, Strategies
  <1>2. CASE HasDtb[call[t].eng]
    <2>1. What(t, "dtb") \in {"full", "part", "none"}
      BY <1>1, GivesType DEF What, Calls
    <2>2. Tried(t, What(t, "dtb")) /\ UNCHANGED <<open, cached, call, pgd>>
      BY <1>2 DEF TryDtb, What
    <2>3. TypeInv' /\ Resolved' /\ \A u \in Threads \ {t} : InCall(u)' /\ AfterCall(u)'
      BY <1>1, <2>1, <2>2, TriedTypes
    <2>4. InCall(t)' /\ AfterCall(t)'
      BY <1>1, <2>1, <2>2, TriedKeeps
    <2> QED
      BY <2>3, <2>4 DEF IInv
  <1>3. CASE ~HasDtb[call[t].eng]
    <2>1. todo' = [todo EXCEPT ![t] = Tail(@)] /\ UNCHANGED <<open, cached, pc, call, pgd, buf, result>>
      BY <1>3 DEF TryDtb
    <2>2. Tail(todo[t]) \in Todos /\ Items(todo[t]) = Items(Tail(todo[t])) \cup {"dtb"}
      BY <1>1, TodoFacts
    <2>3. TypeInv'
      BY <2>1, <2>2 DEF IInv, TypeInv
    <2>4. Resolved'
      BY <2>1 DEF IInv, Resolved, Alone
    <2>5. "dtb" \notin Usable(t)
      BY <1>3 DEF Usable, Applicable
    <2>6. \A r \in Usable(t) : r \in Items(Tail(todo[t])) \/ Failed(t, r)
      BY <1>1, <2>2, <2>5
    <2>7. todo'[t] = Tail(todo[t])
      BY <2>1 DEF IInv, TypeInv
    <2>8. \A r : Failed(t, r)' = Failed(t, r) /\ Usable(t)' = Usable(t)
      BY <2>1 DEF Failed, What, Usable
    <2>9. InCall(t)' /\ AfterCall(t)'
      BY <1>1, <2>1, <2>2, <2>6, <2>7, <2>8 DEF InCall, AfterCall
    <2>10. \A u \in Threads \ {t} : InCall(u)' /\ AfterCall(u)'
      BY <2>1, OthersKeep DEF IInv, TypeInv
    <2> QED
      BY <2>3, <2>4, <2>9, <2>10 DEF IInv
  <1> QED
    BY <1>2, <1>3

\* What a thread resolves, or finds, is what every thread resolves.
LEMMA LoadInv ==
    ASSUME IInv, NEW t \in Threads, LoadCached(t), UNCHANGED open PROVE IInv'
  <1>1. /\ call[t] \in Calls /\ call[t].eng \in open /\ todo[t] = <<"init">> /\ result[t] = "none"
        /\ \A r \in Usable(t) : r \in Items(todo[t]) \/ Failed(t, r)
    BY TodoFacts DEF LoadCached, IInv, InCall
  <1>2. UNCHANGED <<open, cached, call, todo, buf, result>>
    BY DEF LoadCached
  <1>3. /\ pc'[t] \in {"store", "walk"}
        /\ pgd'[t] = IF cached = Unresolved THEN Own(call[t].eng) ELSE cached
        /\ \A u \in Threads \ {t} : pc'[u] = pc[u] /\ pgd'[u] = pgd[u]
    BY DEF LoadCached, IInv, TypeInv, Own
  <1>4. pgd'[t] \in Engines \cup {NoPgd}
    BY <1>1, <1>3 DEF IInv, TypeInv, Own, Calls
  <1>5. TypeInv'
    <2>1. pc' \in [Threads -> {"idle", "try", "store", "walk"}] /\ pgd' \in [Threads -> Engines \cup {NoPgd}]
      BY <1>1, <1>4 DEF LoadCached, IInv, TypeInv, Calls
    <2> QED
      BY <1>2, <2>1 DEF IInv, TypeInv
  <1>6. Resolved'
    BY <1>1, <1>2, <1>3 DEF IInv, Resolved, Alone, Own
  <1>7. \A r : Failed(t, r)' = Failed(t, r) /\ Usable(t)' = Usable(t)
    BY <1>2 DEF Failed, What, Usable
  <1>8. InCall(t)' /\ AfterCall(t)'
    BY <1>1, <1>2, <1>3, <1>7 DEF InCall, AfterCall, Todos
  <1>9. \A u \in Threads \ {t} : InCall(u)' /\ AfterCall(u)'
    BY <1>2, <1>3, OthersKeep
  <1> QED
    BY <1>5, <1>6, <1>8, <1>9 DEF IInv

\* The store of what was resolved, by whichever thread comes first.
LEMMA StoreInv ==
    ASSUME IInv, NEW t \in Threads, StoreCached(t), UNCHANGED open PROVE IInv'
  <1>1. InCall(t) /\ pc[t] = "store" /\ call[t].eng \in open
    BY DEF StoreCached, IInv, InCall
  <1>2. UNCHANGED <<open, call, todo, pgd, buf, result>> /\ cached' = pgd[t]
    BY DEF StoreCached
  <1>3. pc'[t] = "walk" /\ \A u \in Threads \ {t} : pc'[u] = pc[u]
    BY DEF StoreCached, IInv, TypeInv
  <1>4. TypeInv'
    BY <1>2 DEF StoreCached, IInv, TypeInv
  <1>5. Resolved'
    BY <1>1, <1>2, <1>3 DEF IInv, Resolved, Alone
  <1>6. \A r : Failed(t, r)' = Failed(t, r) /\ Usable(t)' = Usable(t)
    BY <1>2 DEF Failed, What, Usable
  <1>7. InCall(t)' /\ AfterCall(t)'
    BY <1>1, <1>2, <1>3, <1>6 DEF InCall, AfterCall
  <1>8. \A u \in Threads \ {t} : InCall(u)' /\ AfterCall(u)'
    BY <1>2, <1>3, OthersKeep
  <1> QED
    BY <1>4, <1>5, <1>7, <1>8 DEF IInv

\* The walk that ends a call.
LEMMA WalkInv ==
    ASSUME IInv, NEW t \in Threads, WalkInit(t), UNCHANGED open PROVE IInv'
  <1>1. /\ call[t] \in Calls /\ call[t].eng \in open /\ todo[t] = <<"init">> /\ result[t] = "none"
        /\ pc[t] = "walk" /\ call[t].eng # NoPgd
        /\ \A r \in Usable(t) : r \in Items(todo[t]) \/ Failed(t, r)
    BY KvaAssumption DEF WalkInit, IInv, InCall, Calls
  <1>2. Head(todo[t]) = "init" /\ "init" \in Strategies /\ Items(todo[t]) = {"init"}
    BY <1>1, TodoFacts DEF Todos, Strategies
  <1>3. What(t, "init") \in {"full", "part", "none"}
    BY <1>1, <1>2, GivesType DEF What, Calls
  <1>4. Alone => pgd[t] = Own(call[t].eng)
    BY <1>1 DEF IInv, Resolved
  <1>5. UNCHANGED <<open, cached, call, pgd>>
    BY DEF WalkInit
  <1>6. CASE pgd[t] = NoPgd
    <2>0. /\ pc' = [pc EXCEPT ![t] = "idle"] /\ todo' = [todo EXCEPT ![t] = Tail(@)]
          /\ result' = [result EXCEPT ![t] = "fail"] /\ UNCHANGED buf
      BY <1>1, <1>6 DEF WalkInit
    <2>1. /\ pc'[t] = "idle" /\ result'[t] = "fail" /\ UNCHANGED buf
          /\ \A u \in Threads \ {t} : pc'[u] = pc[u] /\ todo'[u] = todo[u] /\ result'[u] = result[u]
      BY <2>0 DEF IInv, TypeInv
    <2>2. TypeInv'
      <3>1. Tail(todo[t]) = <<>>
        BY <1>1, TodoFacts DEF Todos
      <3>2. todo' = [todo EXCEPT ![t] = <<>>]
        BY <2>0, <3>1
      <3> QED
        BY <1>5, <2>0, <3>2 DEF IInv, TypeInv
    <2>3. Resolved'
      BY <1>5, <2>1 DEF IInv, Resolved, Alone
    <2>4. \A r \in Usable(t) \ {"init"} : Failed(t, r)
      BY <1>1, <1>2
    <2>5. Alone => "init" \notin Usable(t)
      BY <1>1, <1>4, <1>6 DEF Own, Usable, Applicable
    <2>6. \A r : What(t, r)' = What(t, r) /\ Failed(t, r)' = Failed(t, r) /\ Usable(t)' = Usable(t) /\ (Alone' = Alone)
      BY <1>5 DEF Failed, What, Usable, Alone
    <2>7. ASSUME call[t].op = "read", NEW r \in Usable(t) \ {"init"}, What(t, r) = "full"
          PROVE  FALSE
      BY <2>4, <2>7 DEF Failed, Succeeds
    <2>8. AfterCall(t)'
      BY <1>1, <1>5, <2>1, <2>4, <2>5, <2>6, <2>7 DEF AfterCall
    <2>9. InCall(t)'
      BY <2>1 DEF InCall
    <2>10. \A u \in Threads \ {t} : InCall(u)' /\ AfterCall(u)'
      BY <1>5, <2>1, OthersKeep
    <2> QED
      BY <2>2, <2>3, <2>8, <2>9, <2>10 DEF IInv
  <1>7. CASE pgd[t] = call[t].eng
    <2>1. Tried(t, What(t, "init"))
      BY <1>1, <1>7 DEF WalkInit, What
    <2>2. InCall(t)' /\ AfterCall(t)'
      BY <1>1, <1>2, <1>3, <1>5, <2>1, TriedKeeps
    <2>3. TypeInv' /\ Resolved' /\ \A u \in Threads \ {t} : InCall(u)' /\ AfterCall(u)'
      BY <1>1, <1>3, <1>5, <2>1, TriedTypes
    <2> QED
      BY <2>2, <2>3 DEF IInv
  <1>8. CASE pgd[t] # NoPgd /\ pgd[t] # call[t].eng
    <2>1. PICK got \in {"none", "wrong", What(t, "init")} : Tried(t, got)
      BY <1>8 DEF WalkInit, What
    <2>2. ~Alone
      BY <1>4, <1>8 DEF Own
    <2>3. got \in {"full", "part", "none", "wrong"}
      BY <1>3
    <2>4. InCall(t)' /\ AfterCall(t)'
      BY <1>1, <1>2, <1>5, <2>1, <2>2, <2>3, TriedKeeps
    <2>5. TypeInv' /\ Resolved' /\ \A u \in Threads \ {t} : InCall(u)' /\ AfterCall(u)'
      BY <1>1, <1>5, <2>1, <2>3, TriedTypes
    <2> QED
      BY <2>4, <2>5 DEF IInv
  <1> QED
    BY <1>6, <1>7, <1>8

\* Every step of the reader.
LEMMA NextInv == ASSUME IInv, [Next]_vars PROVE IInv'
  <1>1. CASE Next
    BY <1>1, BeginInv, TryLinearInv, TryDtbInv, LoadInv, StoreInv, WalkInv DEF Next
  <1>2. CASE UNCHANGED vars
    BY <1>2 DEF vars, IInv, TypeInv, Resolved, Alone, InCall, AfterCall, Usable, What, Failed
  <1> QED
    BY <1>1, <1>2

---------------------------------------------------------------------------
(* With one dump open, a kva_read that returns true has read all the bytes *)
(* of that address, and one that gives up had no strategy that could,      *)
(* however threads race in resolve_init_mm_pgd_pa.                         *)
THEOREM AnswersAreTrue == Spec => []AnswersTrue
  <1>1. ASSUME IInv PROVE AnswersTrue
    <2>1. TrueMeansAll
      BY <1>1 DEF IInv, AfterCall, TrueMeansAll, Returned
    <2>2. ASSUME NEW t \in Threads, NEW s \in Usable(t), result[t] = "fail", Failed(t, s)
          PROVE  /\ call[t].op = "read" => What(t, s) # "full"
                 /\ call[t].op = "translate" => What(t, s) = "none"
      <3>1. call[t] \in Calls
        BY <1>1, <2>2 DEF IInv, AfterCall
      <3>2. s \in Strategies
        BY DEF Usable, Applicable, Strategies
      <3>3. What(t, s) \in {"full", "part", "none"}
        BY <3>1, <3>2, GivesType DEF What, Calls
      <3> QED
        BY <2>2, <3>3 DEF Failed, Succeeds
    <2>3. GivesUpRightly
      BY <1>1, <2>2 DEF IInv, AfterCall, GivesUpRightly, Returned
    <2> QED
      BY <2>1, <2>3 DEF AnswersTrue
  <1> QED
    BY InitInv, NextInv, <1>1, PTL DEF Spec

(* Whatever the shared cache holds and however many dumps are open, an     *)
(* address a linear translation or the engine's own DTB can read is read,  *)
(* and right: kva_read tries them before the shared page table.            *)
THEOREM OwnSuffice == Spec => []OwnStrategiesSuffice
  <1>1. ASSUME IInv PROVE OwnStrategiesSuffice
    BY <1>1 DEF IInv, AfterCall, OwnStrategiesSuffice, Returned
  <1> QED
    BY InitInv, NextInv, <1>1, PTL DEF Spec

-----------------------------------------------------------------------------
Counting == INSTANCE DirTreeProofs

\* Max and Min of two numbers.
LEMMA OfTwo ==
    ASSUME NEW x \in Int, NEW y \in Int
    PROVE  /\ Min({x, y}) = IF x <= y THEN x ELSE y
           /\ Max({x, y}) = IF x >= y THEN x ELSE y
  BY DEF Min, Max

\* An address is its page and its offset in the page.
LEMMA PageFacts ==
    ASSUME NEW x \in Nat, NEW p \in Nat \ {0}
    PROVE  x \div p \in Nat /\ x % p \in 0..(p - 1) /\ x = p * (x \div p) + (x % p)
  OBVIOUS

\* Up to the end of a page the page is the same.
LEMMA SamePage ==
    ASSUME NEW x \in Nat, NEW p \in Nat \ {0}, NEW k \in Nat, k < p - (x % p)
    PROVE  (x + k) \div p = x \div p
  <1> DEFINE q == x \div p
             r == x % p
             c == (x + k) \div p
             d == (x + k) % p
  <1>1. /\ q \in Nat /\ r \in 0..(p - 1) /\ x = p * q + r
        /\ c \in Nat /\ d \in 0..(p - 1) /\ x + k = p * c + d
    <2>1. x + k \in Nat
      OBVIOUS
    <2> QED BY PageFacts, <2>1
  <1>2. k < p - r
    OBVIOUS
  <1> HIDE DEF q, r, c, d
  <1>3. p * (c - q) = r + k - d
    <2>1. p * (c - q) = p * c - p * q
      BY <1>1
    <2> QED BY <1>1, <2>1
  <1>4. CASE c > q
    <2>1. p * (c - q) >= p
      BY <1>1, <1>4
    <2> QED BY <1>1, <1>2, <1>3, <2>1
  <1>5. CASE c < q
    <2>1. p * (q - c) >= p
      BY <1>1, <1>5
    <2>2. p * (c - q) = -(p * (q - c))
      BY <1>1
    <2> QED BY <1>1, <1>2, <1>3, <2>1, <2>2
  <1> QED BY <1>1, <1>4, <1>5 DEF q, c

\* A set of numbers up to n has a greatest one.
LEMMA GreatestExists ==
    ASSUME NEW n \in Nat
    PROVE  \A S \in SUBSET (0..n) : S # {} => Max(S) \in S /\ \A x \in S : x <= Max(S)
  <1> DEFINE Has(S) == \E x \in S : \A y \in S : x >= y
             Good == {k \in 0..n : \A S \in SUBSET (0..k) : S # {} => Has(S)}
  <1>1. 0 \in Good
    <2>1. ASSUME NEW S \in SUBSET (0..0), S # {} PROVE Has(S)
      <3>1. PICK x \in S : TRUE
        BY <2>1
      <3>2. x = 0 /\ \A y \in S : y = 0
        BY <2>1, <3>1
      <3> QED BY <3>1, <3>2
    <2> QED BY <2>1
  <1>2. ASSUME NEW k \in 0..(n - 1), k \in Good PROVE k + 1 \in Good
    <2>1. ASSUME NEW S \in SUBSET (0..(k + 1)), S # {} PROVE Has(S)
      <3>1. CASE k + 1 \in S
        BY <3>1, <2>1
      <3>2. CASE k + 1 \notin S
        <4>1. S \in SUBSET (0..k)
          BY <3>2, <2>1
        <4> QED BY <4>1, <2>1, <1>2
      <3> QED BY <3>1, <3>2
    <2> QED BY <2>1
  <1>3. n \in Good
    <2> HIDE DEF Good
    <2>1. \A k \in 0..n : k \in Good
      BY <1>1, <1>2, Counting!CountingUp
    <2> QED BY <2>1
  <1>4. ASSUME NEW S \in SUBSET (0..n), S # {} PROVE Max(S) \in S /\ \A x \in S : x <= Max(S)
    <2>1. Has(S)
      BY <1>3, <1>4
    <2>2. Max(S) \in S /\ \A y \in S : Max(S) >= y
      BY <2>1 DEF Max
    <2>3. S \subseteq Int
      BY <1>4
    <2>4. \A y \in S : y \in Int /\ Max(S) \in Int
      BY <2>2, <2>3
    <2> QED BY <2>2, <2>4
  <1> QED BY <1>4

-----------------------------------------------------------------------------
(* The sparse views.                                                       *)

\* Up to done the buffer holds what there is, and beyond it zeros.
RawIInv ==
    /\ source \in {"phys", "kern"} /\ mem \in Memories
    /\ client \in {"idle", "calling", "reading", "checking", "done"}
    /\ pos \in Nat /\ chunk \in Nat
    /\ client = "idle" => reply = NoReply
    /\ ReadsMemory
    /\ client = "reading" =>
          /\ source = "kern" /\ len \in Nat /\ done \in 0..len
          /\ len <= chunk /\ pos + len <= Len(mem)
          /\ len < chunk => pos + len = Len(mem)
          /\ DOMAIN out = 1..chunk
          /\ \A k \in 1..chunk : out[k] = IF k <= done THEN Byte(pos + k - 1) ELSE Zero

\* Nothing is beyond the size of either view.
LEMMA NothingBeyond ==
    ASSUME mem \in Memories, source \in {"phys", "kern"}
    PROVE  /\ Size \in Nat
           /\ source = "kern" => Size = Len(mem)
           /\ \A a \in Nat : a >= Size => Byte(a) = Zero
  <1>1. Len(mem) \in Nat
    BY RawStreamsAssumption
  <1> DEFINE S == {0} \cup {i \in 1..Len(mem) : mem[i] = "data"}
  <1>2. S \in SUBSET (0..Len(mem)) /\ 0 \in S
    BY <1>1
  <1>3. Top \in S /\ \A x \in S : x <= Top
    <2>1. Top = Max(S)
      BY DEF Top
    <2> HIDE DEF S
    <2> QED BY <1>1, <1>2, <2>1, GreatestExists
  <1>4. Top \in Nat
    BY <1>2, <1>3
  <1>5. ASSUME NEW a \in Nat, Data(a) PROVE a < Top /\ a < Len(mem)
    <2>1. a + 1 \in S /\ a + 1 <= Len(mem)
      BY <1>1, <1>5 DEF Data
    <2> HIDE DEF S
    <2>2. a + 1 <= Top
      BY <1>3, <2>1
    <2> QED BY <2>1, <2>2, <1>1, <1>4
  <1> QED BY <1>1, <1>4, <1>5 DEF Size, Byte

\* A client moves on by what it was given.
LEMMA FinishMoves ==
    ASSUME NEW n \in Nat, NEW bytes, pos \in Nat, FinishRaw(n, bytes)
    PROVE  pos' \in Nat /\ client' = "checking" /\ reply'.pos = pos /\ reply'.bytes = bytes
  <1>1. PosBound \in Nat
    BY ElfCoreAssumption
  <1>2. pos' = Min({pos + n, PosBound}) /\ pos + n \in Nat
    BY DEF FinishRaw
  <1>3. pos' \in Nat
    BY <1>1, <1>2, OfTwo
  <1> QED BY <1>3 DEF FinishRaw

\* Nothing has been asked at the start.
LEMMA RawInitIInv == RawInit => RawIInv
  BY DEF RawInit, RawIInv, ReadsMemory

\* A page of kern_va.raw goes to its place in the buffer, or leaves its zeros.
LEMMA PageKeeps ==
    ASSUME RawIInv, ReadKernPage
    PROVE  RawIInv'
  <1>1. /\ client = "reading" /\ source = "kern" /\ mem \in Memories
        /\ pos \in Nat /\ chunk \in Nat /\ len \in Nat /\ done \in 0..len /\ done < len
        /\ len <= chunk /\ pos + len <= Len(mem) /\ Len(mem) \in Nat
        /\ DOMAIN out = 1..chunk
        /\ \A k \in 1..chunk : out[k] = IF k <= done THEN Byte(pos + k - 1) ELSE Zero
    BY RawStreamsAssumption DEF RawIInv, ReadKernPage
  <1> DEFINE x == pos + done
             rest == PageSize - (x % PageSize)
             n == Min({rest, len - done})
             all == \A k \in 0..(n - 1) : Data(pos + done + k)
  <1>2. /\ x \in Nat /\ rest \in Nat \ {0} /\ len - done \in Nat \ {0}
    <2>1. x \in Nat
      BY <1>1
    <2>2. x % PageSize \in 0..(PageSize - 1) /\ PageSize \in Nat \ {0}
      BY <2>1, PageFacts, RawStreamsAssumption
    <2> QED BY <1>1, <2>1, <2>2
  <1>3. n \in Nat \ {0} /\ n <= rest /\ done + n <= len
    <2> HIDE DEF x, rest
    <2>1. rest \in Int /\ len - done \in Int
      BY <1>2
    <2>2. n = IF rest <= len - done THEN rest ELSE len - done
      BY <2>1, OfTwo
    <2> HIDE DEF n
    <2> QED BY <1>1, <1>2, <2>2
  <1>4. /\ out' = [k \in DOMAIN out |-> IF all /\ k > done /\ k <= done + n THEN Byte(pos + k - 1) ELSE out[k]]
        /\ done' = done + n
        /\ UNCHANGED <<source, mem, client, pos, chunk, offset, len, reply>>
    BY DEF ReadKernPage
  <1>5. ASSUME ~all, NEW k \in 1..chunk, k > done, k <= done + n PROVE Byte(pos + k - 1) = Zero
    <2>1. PICK j \in 0..(n - 1) : ~Data(x + j)
      BY <1>5
    <2>2. /\ k - 1 - done \in 0..(n - 1) /\ (pos + k) - 1 = x + (k - 1 - done)
          /\ x + j + 1 \in 1..Len(mem) /\ pos + k \in 1..Len(mem)
      <3> HIDE DEF n
      <3> QED BY <1>1, <1>3, <1>5
    <2>3. \A i \in 0..(n - 1) : (x + i) \div PageSize = x \div PageSize
      <3> HIDE DEF n
      <3>1. ASSUME NEW i \in 0..(n - 1) PROVE (x + i) \div PageSize = x \div PageSize
        <4>1. i \in Nat /\ i < PageSize - (x % PageSize)
          BY <1>2, <1>3
        <4> HIDE DEF x
        <4> QED BY <1>2, <4>1, SamePage, RawStreamsAssumption
      <3> QED BY <3>1
    <2>4. mem[x + j + 1] = mem[pos + k]
      <3>1. ((x + j + 1) - 1) \div PageSize = ((pos + k) - 1) \div PageSize
        <4>1. (x + j + 1) - 1 = x + j
          BY <1>2, <2>1, <1>3
        <4>2. (x + j) \div PageSize = x \div PageSize
          BY <2>1, <2>3
        <4>3. (x + (k - 1 - done)) \div PageSize = x \div PageSize
          BY <2>2, <2>3
        <4> HIDE DEF x, n
        <4> QED BY <4>1, <4>2, <4>3, <2>2
      <3>2. \A a, b \in 1..Len(mem) : (a - 1) \div PageSize = (b - 1) \div PageSize => mem[a] = mem[b]
        BY <1>1, RawStreamsAssumption
      <3> DEFINE a == x + j + 1
                 b == pos + k
      <3>3. a \in 1..Len(mem) /\ b \in 1..Len(mem) /\ (a - 1) \div PageSize = (b - 1) \div PageSize
        <4>1. a \in 1..Len(mem) /\ b \in 1..Len(mem)
          BY <2>2
        <4>2. (a - 1) \div PageSize = (b - 1) \div PageSize
          BY ONLY <3>1
        <4> QED BY ONLY <4>1, <4>2
      <3> HIDE DEF a, b
      <3>4. mem[a] = mem[b]
        BY <3>2, <3>3
      <3> QED BY <3>4 DEF a, b
    <2>5. mem[x + j + 1] # "data"
      <3> HIDE DEF x, n
      <3> QED BY <2>1, <2>2 DEF Data
    <2>6. pos + k - 1 + 1 = pos + k
      BY <1>1
    <2> QED BY <2>4, <2>5, <2>6 DEF Byte, Data
  <1>6. \A a : Byte(a)' = Byte(a)
    BY <1>4 DEF Byte, Data
  <1>7. \A k \in 1..chunk : out'[k] = IF k <= done + n THEN Byte(pos + k - 1) ELSE Zero
    <2> SUFFICES ASSUME NEW k \in 1..chunk PROVE out'[k] = IF k <= done + n THEN Byte(pos + k - 1) ELSE Zero
      OBVIOUS
    <2>1. out'[k] = IF all /\ k > done /\ k <= done + n THEN Byte(pos + k - 1) ELSE out[k]
      BY <1>1, <1>4
    <2> HIDE DEF all, n
    <2> QED BY <1>1, <1>3, <1>5, <2>1
  <1>8. DOMAIN out' = 1..chunk /\ done' \in 0..len
    <2> HIDE DEF all, n
    <2> QED BY <1>1, <1>3, <1>4
  <1>9. ReadsMemory'
    BY <1>4, <1>6 DEF ReadsMemory, RawIInv
  <1> HIDE DEF all, n, x
  <1> QED BY <1>4, <1>6, <1>7, <1>8, <1>9 DEF RawIInv

\* Every step of the raw streams.
LEMMA RawNextIInv == RawIInv /\ [RawNext]_rawVars => RawIInv'
  <1> SUFFICES ASSUME RawIInv, [RawNext]_rawVars PROVE RawIInv'
    OBVIOUS
  <1>0. /\ mem \in Memories /\ Len(mem) \in Nat /\ pos \in Nat /\ chunk \in Nat
        /\ Size \in Nat /\ (source = "kern" => Size = Len(mem))
        /\ \A a \in Nat : a >= Size => Byte(a) = Zero
    BY NothingBeyond, RawStreamsAssumption DEF RawIInv
  <1>a. UNCHANGED mem => \A a : Byte(a)' = Byte(a)
    BY DEF Byte, Data
  <1>1. ASSUME NEW o \in Offsets, NEW n \in Chunks, StartRaw(o, n) PROVE RawIInv'
    <2>1. o \in Nat /\ n \in Nat
      BY RawStreamsAssumption
    <2> QED BY <1>1, <2>1 DEF StartRaw, RawIInv, ReadsMemory
  <1>2. CASE CheckRaw
    <2>1. ReadsMemory'
      BY <1>2, <1>a DEF CheckRaw, ReadsMemory, RawIInv
    <2> QED BY <1>2, <2>1 DEF CheckRaw, RawIInv
  <1>3. CASE ReadPhys
    <2>1. CASE pos >= Size
      <3>1. FinishRaw(0, [k \in 1..chunk |-> Zero]) /\ UNCHANGED <<source, mem, chunk, offset, len, done, out>>
        BY <1>3, <2>1 DEF ReadPhys
      <3>2. pos' \in Nat /\ client' = "checking" /\ reply'.pos = pos /\ reply'.bytes = [k \in 1..chunk |-> Zero]
        BY <1>0, <3>1, FinishMoves
      <3>3. \A k \in 1..chunk : pos + k - 1 \in Nat /\ pos + k - 1 >= Size
        BY <1>0, <2>1
      <3>4. ReadsMemory'
        BY <1>0, <1>a, <3>1, <3>2, <3>3 DEF ReadsMemory
      <3> QED BY <3>1, <3>2, <3>4 DEF RawIInv
    <2>2. CASE pos < Size
      <3>1. /\ FinishRaw(Min({chunk, Size - pos}), [k \in 1..chunk |-> Byte(pos + k - 1)])
            /\ UNCHANGED <<source, mem, chunk, offset, len, done, out>>
        BY <1>0, <1>3, <2>2 DEF ReadPhys
      <3>2. Min({chunk, Size - pos}) \in Nat
        BY <1>0, <2>2, OfTwo
      <3>3. pos' \in Nat /\ client' = "checking" /\ reply'.pos = pos /\ reply'.bytes = [k \in 1..chunk |-> Byte(pos + k - 1)]
        BY <1>0, <3>1, <3>2, FinishMoves
      <3>4. ReadsMemory'
        BY <1>a, <3>1, <3>3 DEF ReadsMemory
      <3> QED BY <3>1, <3>3, <3>4 DEF RawIInv
    <2> QED BY <1>0, <2>1, <2>2
  <1>4. CASE ReadKernPastEnd
    <2>1. /\ FinishRaw(chunk, [k \in 1..chunk |-> Zero]) /\ UNCHANGED <<source, mem, chunk, offset, len, done, out>>
          /\ pos >= Size
      BY <1>4 DEF ReadKernPastEnd
    <2>2. pos' \in Nat /\ client' = "checking" /\ reply'.pos = pos /\ reply'.bytes = [k \in 1..chunk |-> Zero]
      BY <1>0, <2>1, FinishMoves
    <2>3. \A k \in 1..chunk : pos + k - 1 \in Nat /\ pos + k - 1 >= Size
      BY <1>0, <2>1
    <2>4. ReadsMemory'
      BY <1>0, <1>a, <2>1, <2>2, <2>3 DEF ReadsMemory
    <2> QED BY <2>1, <2>2, <2>4 DEF RawIInv
  <1>5. CASE ReadKern
    <2>1. /\ source = "kern" /\ pos < Size /\ len' = Min({chunk, Size - pos})
          /\ out' = [k \in 1..chunk |-> Zero] /\ done' = 0 /\ client' = "reading"
          /\ UNCHANGED <<source, mem, pos, chunk, offset, reply>>
      BY <1>5 DEF ReadKern
    <2>2. len' = IF chunk <= Size - pos THEN chunk ELSE Size - pos
      BY <1>0, <2>1, OfTwo
    <2>3. /\ len' \in Nat /\ done' \in 0..len' /\ len' <= chunk /\ pos + len' <= Len(mem)
          /\ (len' < chunk => pos + len' = Len(mem))
      BY <1>0, <2>1, <2>2
    <2>4. DOMAIN out' = 1..chunk /\ \A k \in 1..chunk : out'[k] = Zero /\ ~(k <= done')
      BY <2>1
    <2>5. ReadsMemory'
      BY <1>a, <2>1 DEF ReadsMemory, RawIInv
    <2> QED BY <2>1, <2>3, <2>4, <2>5 DEF RawIInv
  <1>6. CASE ReadKernPage
    BY <1>6, PageKeeps
  <1>7. CASE ReturnKern
    <2>1. /\ source = "kern" /\ len \in Nat /\ done = len /\ len <= chunk /\ (len < chunk => pos + len = Len(mem))
          /\ \A k \in 1..chunk : out[k] = IF k <= done THEN Byte(pos + k - 1) ELSE Zero
          /\ FinishRaw(len, out) /\ UNCHANGED <<source, mem, chunk, offset, len, done, out>>
      BY <1>7 DEF ReturnKern, RawIInv
    <2>2. pos' \in Nat /\ client' = "checking" /\ reply'.pos = pos /\ reply'.bytes = out
      BY <1>0, <2>1, FinishMoves
    <2>3. ASSUME NEW k \in 1..chunk PROVE out[k] = Byte(pos + k - 1)
      <3>1. CASE k <= done
        BY <2>1, <3>1
      <3>2. CASE k > done
        <4>1. pos + k - 1 \in Nat /\ pos + k - 1 >= Size
          BY <1>0, <2>1, <3>2
        <4> QED BY <1>0, <2>1, <3>2, <4>1
      <3> QED BY <2>1, <3>1, <3>2
    <2>4. ReadsMemory'
      BY <1>a, <2>1, <2>2, <2>3 DEF ReadsMemory
    <2> QED BY <2>1, <2>2, <2>4 DEF RawIInv
  <1>8. CASE UNCHANGED rawVars
    <2>1. ReadsMemory'
      BY <1>8, <1>a DEF rawVars, ReadsMemory, RawIInv
    <2>2. \A a : Byte(a)' = Byte(a)
      BY <1>8, <1>a DEF rawVars
    <2> QED BY <1>8, <2>1, <2>2 DEF rawVars, RawIInv
  <1> QED
    BY <1>1, <1>2, <1>3, <1>4, <1>5, <1>6, <1>7, <1>8 DEF RawNext

-----------------------------------------------------------------------------
(* The layout of a core.                                                   *)

\* VMAs, segments and program headers.
VmaSet == [start : Nat, size : Nat, readable : BOOLEAN]
SegSet == [off : Nat, size : Nat, start : Nat]
PhdrSet == [off : Nat, vaddr : Nat, filesz : Nat]

\* What plan()'s filter has kept of the first i VMAs.
KeptOf(list, i, s) ==
    /\ s \in Seq(VmaSet) /\ Len(s) <= i
    /\ \A k \in 1..i : Dumpable(list[k]) => \E j \in 1..Len(s) : s[j] = list[k]

\* The filter keeps all of the VMAs that are readable and not empty.
LEMMA FilterKeeps ==
    ASSUME NEW list \in Seq(VmaSet)
    PROVE  KeptOf(list, Len(list), Filter(list))
  <1> DEFINE n == Len(list)
             S == Seq(VmaSet)
             step == [i \in 1..n |-> [s \in S |-> IF Dumpable(list[i]) THEN Append(s, list[i]) ELSE s]]
             Rec(f) == f = [i \in 0..n |-> IF i = 0 THEN <<>>
                                           ELSE IF Dumpable(list[i]) THEN Append(f[i - 1], list[i]) ELSE f[i - 1]]
             kept == CHOOSE f : Rec(f)
  <1>0. n \in Nat /\ \A i \in 1..n : list[i] \in VmaSet
    OBVIOUS
  <1>1. /\ step \in [1..n -> [S -> S]]
        /\ \A i \in 1..n, s \in S : step[i][s] = IF Dumpable(list[i]) THEN Append(s, list[i]) ELSE s
    BY <1>0
  <1>2. <<>> \in S
    OBVIOUS
  <1>3. Filter(list) = kept[n]
    BY DEF Filter
  <1> HIDE DEF step, S, n
  <1>4. Counting!Steps(step, <<>>, n, S)
    BY <1>0, <1>1, <1>2 DEF Counting!Steps
  <1>5. PICK w : Counting!Record(w, step, <<>>, n, S)
    BY <1>4, Counting!Iteration
  <1>6. w \in [0..n -> S] /\ w[0] = <<>> /\ \A i \in 1..n : w[i] = step[i][w[i - 1]]
    BY <1>5 DEF Counting!Record
  <1>7. \A i \in 1..n : w[i] = IF Dumpable(list[i]) THEN Append(w[i - 1], list[i]) ELSE w[i - 1]
    <2> SUFFICES ASSUME NEW i \in 1..n
                 PROVE w[i] = IF Dumpable(list[i]) THEN Append(w[i - 1], list[i]) ELSE w[i - 1]
      OBVIOUS
    <2>1. i - 1 \in 0..n
      BY <1>0
    <2>2. w[i - 1] \in S
      BY <1>6, <2>1
    <2> QED BY <1>1, <1>6, <2>2
  <1>8. Rec(w)
    <2> DEFINE g == [i \in 0..n |-> IF i = 0 THEN <<>>
                                    ELSE IF Dumpable(list[i]) THEN Append(w[i - 1], list[i]) ELSE w[i - 1]]
    <2>1. \A i \in 0..n : w[i] = g[i]
      <3>1. \A i \in 0..n : i = 0 \/ i \in 1..n
        BY <1>0
      <3> QED BY <1>6, <1>7, <3>1
    <2>2. w = [i \in 0..n |-> w[i]] /\ g = [i \in 0..n |-> g[i]]
      BY <1>6
    <2>3. w = g
      <3> HIDE DEF g
      <3> QED BY <2>1, <2>2
    <2> QED BY <2>3
  <1>9. Rec(kept)
    BY <1>8
  <1>10. kept[0] = <<>> /\ \A i \in 1..n : kept[i] = IF Dumpable(list[i]) THEN Append(kept[i - 1], list[i]) ELSE kept[i - 1]
    <2> HIDE DEF kept
    <2>1. 0 \in 0..n /\ \A i \in 1..n : i \in 0..n /\ i # 0
      BY <1>0
    <2> QED BY <1>9, <2>1
  <1> HIDE DEF kept
  <1> DEFINE Good == {i \in 0..n : KeptOf(list, i, kept[i])}
  <1>11. 0 \in Good
    <2>1. KeptOf(list, 0, <<>>)
      BY DEF KeptOf
    <2> QED BY <1>0, <1>10, <2>1
  <1>12. ASSUME NEW k \in 0..(n - 1), k \in Good PROVE k + 1 \in Good
    <2> DEFINE s == kept[k]
               t == kept[k + 1]
               v == list[k + 1]
    <2>1. k + 1 \in 1..n /\ k \in Nat /\ (k + 1) - 1 = k
      BY <1>0
    <2>2. t = IF Dumpable(v) THEN Append(s, v) ELSE s
      BY <1>10, <2>1
    <2>3. /\ s \in Seq(VmaSet) /\ Len(s) <= k
          /\ \A i \in 1..k : Dumpable(list[i]) => \E j \in 1..Len(s) : s[j] = list[i]
      BY <1>12 DEF KeptOf
    <2>4. v \in VmaSet
      BY <1>0, <2>1
    <2>5. \A i \in 1..(k + 1) : i \in 1..k \/ i = k + 1
      BY <2>1
    <2> HIDE DEF s, t, v
    <2>6. KeptOf(list, k + 1, t)
      <3>1. CASE Dumpable(v)
        <4>1. /\ t \in Seq(VmaSet) /\ Len(t) = Len(s) + 1 /\ t[Len(s) + 1] = v
              /\ \A j \in 1..Len(s) : t[j] = s[j]
          BY <2>2, <2>3, <2>4, <3>1
        <4>2. Len(s) \in Nat
          BY <2>3
        <4>3. ASSUME NEW i \in 1..(k + 1), Dumpable(list[i]) PROVE \E j \in 1..Len(t) : t[j] = list[i]
          <5>1. CASE i \in 1..k
            BY <5>1, <4>3, <2>3, <4>1, <4>2
          <5>2. CASE i = k + 1
            <6>1. Len(s) + 1 \in 1..Len(t)
              BY <4>1, <4>2
            <6> QED BY <5>2, <4>1, <6>1 DEF v
          <5> QED BY <5>1, <5>2, <2>5
        <4>4. Len(t) <= k + 1
          BY <4>1, <4>2, <2>1, <2>3
        <4> QED BY <4>1, <4>3, <4>4 DEF KeptOf
      <3>2. CASE ~Dumpable(v)
        <4>1. t = s /\ Len(s) <= k + 1
          <5>1. Len(s) \in Nat
            BY <2>3
          <5> QED BY <2>1, <2>2, <2>3, <3>2, <5>1
        <4> QED BY <4>1, <2>3, <2>5, <3>2 DEF KeptOf, v
      <3> QED BY <3>1, <3>2
    <2> QED BY <2>1, <2>6, <1>0 DEF t
  <1>13. n \in Good
    <2> HIDE DEF Good
    <2>1. \A k \in 0..n : k \in Good
      BY <1>0, <1>11, <1>12, Counting!CountingUp
    <2> QED BY <1>0, <2>1
  <1> QED BY <1>3, <1>13 DEF n

\* Rounding up gives a multiple that is not less.
LEMMA RoundUpFacts ==
    ASSUME NEW n \in Nat
    PROVE  RoundUp(n) \in Nat /\ RoundUp(n) >= n /\ RoundUp(n) % HdrAlign = 0
  <1>0. HdrAlign \in Nat \ {0}
    BY ElfCoreAssumption
  <1> DEFINE a == HdrAlign
             m == n + (a - 1)
             q == m \div a
             r == m % a
  <1>1. q \in Nat /\ r \in 0..(a - 1) /\ m = a * q + r /\ m \in Nat
    <2>1. m \in Nat
      BY <1>0
    <2> QED BY <1>0, <2>1, PageFacts
  <1>2. RoundUp(n) = q * a
    BY DEF RoundUp
  <1>3. q * a \in Nat /\ q * a = a * q
    <2> HIDE DEF q
    <2> QED BY <1>0, <1>1
  <1>4. q * a >= n
    <2> HIDE DEF q, r
    <2> QED BY <1>0, <1>1, <1>3
  <1>5. (q * a) % a = 0
    <2> DEFINE x == q * a
    <2>1. x \in Nat /\ x = a * q
      BY <1>3
    <2> HIDE DEF x, q
    <2>2. x \div a \in Nat /\ x % a \in 0..(a - 1) /\ x = a * (x \div a) + (x % a)
      BY <1>0, <2>1, PageFacts
    <2> DEFINE c == x \div a
               d == x % a
    <2>3. c \in Nat /\ d \in 0..(a - 1) /\ a * q = a * c + d
      BY <2>1, <2>2
    <2> HIDE DEF c, d
    <2>4. a * (q - c) = d
      <3>1. a * (q - c) = a * q - a * c
        BY <1>0, <1>1, <2>3
      <3>2. a * q \in Int /\ a * c \in Int
        BY <1>0, <1>1, <2>3
      <3> QED BY <3>1, <3>2, <2>3
    <2>5. CASE q > c
      <3>1. a * (q - c) >= a
        BY <1>0, <1>1, <2>3, <2>5
      <3> QED BY <1>0, <2>3, <2>4, <3>1
    <2>6. CASE q <= c
      <3>1. a * (q - c) <= 0
        BY <1>0, <1>1, <2>3, <2>6
      <3>2. d = 0
        BY <2>3, <2>4, <3>1
      <3> QED BY <3>2 DEF d, x
    <2> QED BY <1>1, <2>3, <2>5, <2>6
  <1> QED BY <1>2, <1>3, <1>4, <1>5

\* Segment j has offset o of the file.
Within(j, o) == o >= segs[j].off /\ o < segs[j].off + segs[j].size

\* The header blob is followed by the segments made so far, without gap.
PlanOK ==
    /\ vmas \in VmaLists
    /\ hdr \in Nat /\ total \in Nat /\ hdr <= total
    /\ segs \in Seq(SegSet) /\ phdrs \in Seq(PhdrSet)
    /\ Len(phdrs) = Len(segs) /\ Len(segs) <= Len(Use)
    /\ hdr = 0 => segs = <<>> /\ total = 0
    /\ hdr # 0 => hdr = RoundUp(EhdrSize + Len(Use) * PhdrSize) /\ phnum = Len(Use) % PhnumLimit
    /\ \A j \in 1..Len(segs) :
          /\ segs[j].start = Use[j].start /\ segs[j].size = Use[j].size
          /\ phdrs[j].off = segs[j].off /\ phdrs[j].vaddr = segs[j].start /\ phdrs[j].filesz = segs[j].size
          /\ hdr <= segs[j].off /\ segs[j].off + segs[j].size <= total
    /\ \A i, j \in 1..Len(segs) : i < j => segs[i].off + segs[i].size <= segs[j].off
    /\ \A o \in hdr..(total - 1) : \E j \in 1..Len(segs) : Within(j, o)

\* The VMAs plan() keeps are VMAs that can be dumped.
LEMMA UseFacts ==
    ASSUME vmas \in VmaLists
    PROVE  /\ vmas \in Seq(VmaSet) /\ Use \in Seq(VmaSet)
           /\ \A i \in 1..Len(vmas) : Dumpable(vmas[i]) => \E j \in 1..Len(Use) : Use[j] = vmas[i]
  <1>1. vmas \in Seq(VmaSet)
    BY ElfCoreAssumption DEF VmaSet
  <1>2. KeptOf(vmas, Len(vmas), Use)
    BY <1>1, FilterKeeps DEF Use
  <1> QED BY <1>1, <1>2 DEF KeptOf

\* An offset is in one segment at most.
LEMMA WithinOne ==
    ASSUME PlanOK, NEW i \in 1..Len(segs), NEW j \in 1..Len(segs), NEW o \in Nat, Within(i, o), Within(j, o)
    PROVE  i = j
  <1>1. /\ Len(segs) \in Nat /\ segs[i] \in SegSet /\ segs[j] \in SegSet
        /\ (i < j => segs[i].off + segs[i].size <= segs[j].off)
        /\ (j < i => segs[j].off + segs[j].size <= segs[i].off)
    BY DEF PlanOK
  <1> QED BY <1>1 DEF Within, SegSet

\* What the headers say of an offset, by the segments.
LEMMA ImageFacts ==
    ASSUME PlanOK, NEW o \in Nat
    PROVE  /\ o < hdr => Image(o) = <<"hdr", o>>
           /\ o >= total => Image(o) = Zero
           /\ \A j \in 1..Len(segs) : Within(j, o) => Image(o) = <<"mem", segs[j].start + (o - segs[j].off)>>
  <1>0. /\ hdr \in Nat /\ total \in Nat /\ hdr <= total /\ Len(segs) \in Nat /\ Len(phdrs) = Len(segs)
        /\ \A j \in 1..Len(segs) : /\ segs[j] \in SegSet
                                   /\ hdr <= segs[j].off /\ segs[j].off + segs[j].size <= total
    BY DEF PlanOK
  <1>1. \A j \in 1..Len(segs) : In(phdrs[j], o) <=> Within(j, o)
    BY DEF PlanOK, In, Within
  <1>2. o < hdr => Image(o) = <<"hdr", o>>
    BY DEF Image
  <1>3. ASSUME o >= total PROVE Image(o) = Zero
    <2>1. ~(o < hdr) /\ \A j \in 1..Len(segs) : ~Within(j, o)
      BY <1>0, <1>3 DEF Within, SegSet
    <2>2. ~\E j \in 1..Len(phdrs) : In(phdrs[j], o)
      BY <1>0, <1>1, <2>1
    <2> QED BY <2>1, <2>2 DEF Image
  <1>4. ASSUME NEW j \in 1..Len(segs), Within(j, o)
        PROVE  Image(o) = <<"mem", segs[j].start + (o - segs[j].off)>>
    <2>1. ~(o < hdr)
      BY <1>0, <1>4 DEF Within, SegSet
    <2>2. \E i \in 1..Len(phdrs) : In(phdrs[i], o)
      BY <1>0, <1>1, <1>4
    <2> DEFINE c == CHOOSE i \in 1..Len(phdrs) : In(phdrs[i], o)
    <2>3. c \in 1..Len(phdrs) /\ In(phdrs[c], o)
      BY <2>2
    <2>4. Image(o) = <<"mem", phdrs[c].vaddr + (o - phdrs[c].off)>>
      BY <2>1, <2>2 DEF Image
    <2> HIDE DEF c
    <2>5. c \in 1..Len(segs) /\ Within(c, o)
      BY <1>0, <1>1, <2>3
    <2>6. c = j
      BY <1>4, <2>5, WithinOne
    <2>7. phdrs[j].vaddr = segs[j].start /\ phdrs[j].off = segs[j].off
      BY DEF PlanOK
    <2> QED BY <2>4, <2>6, <2>7
  <1> QED BY <1>2, <1>3, <1>4

\* A plan like that is one a debugger can follow.
LEMMA PlanDescribes ==
    ASSUME FewSegments, PlanOK
    PROVE  HeadersDescribe
  <1> SUFFICES ASSUME Planned PROVE HeadersDescribe
    BY DEF HeadersDescribe
  <1> DEFINE n == Len(segs)
  <1>0. /\ n \in Nat /\ Len(phdrs) = n /\ n = Len(Use) /\ hdr \in Nat /\ hdr # 0 /\ total \in Nat /\ vmas \in VmaLists
        /\ hdr = RoundUp(EhdrSize + n * PhdrSize) /\ phnum = n % PhnumLimit
    BY DEF PlanOK, Planned
  <1>1. phnum = n
    <2>1. n < PhnumLimit /\ PhnumLimit \in Nat \ {0}
      BY <1>0, ElfCoreAssumption DEF FewSegments, Use
    <2> HIDE DEF n
    <2>2. n % PhnumLimit = n
      BY <1>0, <2>1
    <2> QED BY <1>0, <2>2
  <1>2. ASSUME NEW i \in 1..Len(vmas), Dumpable(vmas[i])
        PROVE  \E j \in 1..phnum : phdrs[j].vaddr = vmas[i].start /\ phdrs[j].filesz = vmas[i].size
    <2>1. PICK j \in 1..Len(Use) : Use[j] = vmas[i]
      BY <1>0, <1>2, UseFacts
    <2>2. phdrs[j].vaddr = Use[j].start /\ phdrs[j].filesz = Use[j].size
      BY <1>0 DEF PlanOK
    <2> QED BY <1>0, <1>1, <2>1, <2>2
  <1>3. hdr % HdrAlign = 0 /\ hdr >= EhdrSize + phnum * PhdrSize
    <2>1. EhdrSize + n * PhdrSize \in Nat
      <3> HIDE DEF n
      <3>1. n * PhdrSize \in Nat
        BY <1>0, ElfCoreAssumption
      <3> QED BY <3>1, ElfCoreAssumption
    <2> QED BY <1>0, <1>1, <2>1, RoundUpFacts
  <1>4. ASSUME NEW o \in hdr..(total - 1) PROVE Cardinality({j \in 1..phnum : In(phdrs[j], o)}) = 1
    <2>1. PICK j \in 1..n : Within(j, o)
      BY DEF PlanOK
    <2>2. \A i \in 1..n : In(phdrs[i], o) <=> Within(i, o)
      BY DEF PlanOK, In, Within
    <2>3. o \in Nat
      BY <1>0
    <2>4. {i \in 1..phnum : In(phdrs[i], o)} = {j}
      BY <1>1, <2>1, <2>2, <2>3, WithinOne
    <2> QED BY <2>4, FS_Singleton
  <1>5. \A j \in 1..phnum : phdrs[j].off >= hdr /\ phdrs[j].off + phdrs[j].filesz <= total
    <2>1. \A j \in 1..n : /\ phdrs[j].off = segs[j].off /\ phdrs[j].filesz = segs[j].size /\ segs[j] \in SegSet
                          /\ hdr <= segs[j].off /\ segs[j].off + segs[j].size <= total
      BY DEF PlanOK
    <2> QED BY <1>0, <1>1, <2>1 DEF SegSet
  <1> QED BY <1>0, <1>1, <1>2, <1>3, <1>4, <1>5 DEF HeadersDescribe

\* Everything plan() has made stays once it is made.
LEMMA PlanStays ==
    ASSUME PlanOK, UNCHANGED plan
    PROVE  /\ PlanOK' /\ (Planned => Planned')
           /\ \A o : Image(o)' = Image(o)
           /\ \A j, o : Within(j, o)' <=> Within(j, o)
  <1>1. UNCHANGED <<vmas, hdr, phnum, phdrs, segs, total>>
    BY DEF plan
  <1>2. Use' = Use
    BY <1>1 DEF Use
  <1>3. \A o : Image(o)' = Image(o)
    BY <1>1 DEF Image
  <1>4. \A j, o : Within(j, o)' <=> Within(j, o)
    BY <1>1 DEF Within
  <1> QED BY <1>1, <1>2, <1>3, <1>4 DEF PlanOK, Planned

\* plan() sizes the blob before any segment.
LEMMA HeaderKeeps ==
    ASSUME PlanOK, PlanHeader
    PROVE  PlanOK'
  <1>1. /\ hdr = 0 /\ hdr' = RoundUp(EhdrSize + Len(Use) * PhdrSize) /\ phnum' = Len(Use) % PhnumLimit
        /\ total' = hdr' /\ UNCHANGED <<vmas, phdrs, segs>>
    BY DEF PlanHeader
  <1>2. vmas \in VmaLists /\ segs = <<>> /\ Len(segs) = 0 /\ Len(phdrs) = 0 /\ phdrs \in Seq(PhdrSet)
    BY <1>1 DEF PlanOK
  <1>3. Use' = Use
    BY <1>1 DEF Use
  <1>4. Len(Use) \in Nat
    BY <1>2, UseFacts
  <1>5. hdr' \in Nat
    <2>1. Len(Use) * PhdrSize \in Nat
      BY <1>4, ElfCoreAssumption
    <2>2. EhdrSize + Len(Use) * PhdrSize \in Nat
      BY <2>1, ElfCoreAssumption
    <2> QED BY <1>1, <2>2, RoundUpFacts
  <1>6. segs' = <<>> /\ Len(segs') = 0 /\ segs' \in Seq(SegSet)
    BY <1>1, <1>2
  <1>7. hdr'..(total' - 1) = {} /\ 1..Len(segs') = {}
    BY <1>1, <1>5, <1>6
  <1> QED
    BY <1>1, <1>2, <1>3, <1>4, <1>5, <1>6, <1>7 DEF PlanOK

\* plan() puts a segment where the last one ended.
LEMMA SegmentKeeps ==
    ASSUME PlanOK, PlanSegment
    PROVE  PlanOK'
  <1> DEFINE n == Len(segs)
             v == Use[n + 1]
             seg == [off |-> total, size |-> v.size, start |-> v.start]
             phdr == [off |-> total, vaddr |-> v.start, filesz |-> v.size]
  <1>1. /\ hdr # 0 /\ n < Len(Use) /\ phdrs' = Append(phdrs, phdr) /\ segs' = Append(segs, seg)
        /\ total' = total + v.size /\ UNCHANGED <<vmas, hdr, phnum>>
    BY DEF PlanSegment
  <1>2. /\ vmas \in VmaLists /\ n \in Nat /\ Len(phdrs) = n /\ segs \in Seq(SegSet) /\ phdrs \in Seq(PhdrSet)
        /\ hdr \in Nat /\ total \in Nat /\ hdr <= total
    BY DEF PlanOK
  <1>3. Use' = Use /\ Use \in Seq(VmaSet)
    BY <1>1, <1>2, UseFacts DEF Use
  <1>4. v \in VmaSet /\ v.size \in Nat /\ v.start \in Nat
    <2>1. n + 1 \in 1..Len(Use)
      BY <1>1, <1>2, <1>3
    <2>2. v \in VmaSet
      BY <1>3, <2>1
    <2> HIDE DEF v
    <2> QED BY <2>2 DEF VmaSet
  <1>5. seg \in SegSet /\ phdr \in PhdrSet
    <2> HIDE DEF v
    <2> QED BY <1>2, <1>4 DEF SegSet, PhdrSet
  <1>6. /\ seg.off = total /\ seg.size = v.size /\ seg.start = v.start
        /\ phdr.off = total /\ phdr.vaddr = v.start /\ phdr.filesz = v.size
    OBVIOUS
  <1> HIDE DEF seg, phdr, v
  <1>7. /\ segs' \in Seq(SegSet) /\ Len(segs') = n + 1 /\ segs'[n + 1] = seg
        /\ \A j \in 1..n : segs'[j] = segs[j]
    BY <1>1, <1>2, <1>5
  <1>8. /\ phdrs' \in Seq(PhdrSet) /\ Len(phdrs') = n + 1 /\ phdrs'[n + 1] = phdr
        /\ \A j \in 1..n : phdrs'[j] = phdrs[j]
    BY <1>1, <1>2, <1>5
  <1>9. \A j \in 1..n : segs[j] \in SegSet
    BY <1>2
  <1>10. /\ \A j \in 1..n :
              /\ segs[j].start = Use[j].start /\ segs[j].size = Use[j].size
              /\ phdrs[j].off = segs[j].off /\ phdrs[j].vaddr = segs[j].start /\ phdrs[j].filesz = segs[j].size
              /\ hdr <= segs[j].off /\ segs[j].off + segs[j].size <= total
         /\ \A i, j \in 1..n : i < j => segs[i].off + segs[i].size <= segs[j].off
         /\ \A o \in hdr..(total - 1) : \E j \in 1..n : Within(j, o)
         /\ hdr = RoundUp(EhdrSize + Len(Use) * PhdrSize) /\ phnum = Len(Use) % PhnumLimit
    BY <1>1 DEF PlanOK
  <1> HIDE DEF n
  <1>11. \A j \in 1..(n + 1) : j \in 1..n \/ j = n + 1
    BY <1>2
  <1>12. total' \in Nat /\ hdr <= total' /\ total <= total'
    BY <1>1, <1>2, <1>4
  <1>13. ASSUME NEW j \in 1..(n + 1)
         PROVE  /\ segs'[j].start = Use[j].start /\ segs'[j].size = Use[j].size
                /\ phdrs'[j].off = segs'[j].off /\ phdrs'[j].vaddr = segs'[j].start
                /\ phdrs'[j].filesz = segs'[j].size
                /\ hdr <= segs'[j].off /\ segs'[j].off + segs'[j].size <= total'
    <2>1. CASE j \in 1..n
      <3>1. segs'[j] = segs[j] /\ phdrs'[j] = phdrs[j]
        BY <2>1, <1>7, <1>8
      <3>2. segs[j].off + segs[j].size <= total'
        <4>1. segs[j].off + segs[j].size \in Nat /\ segs[j].off + segs[j].size <= total
          BY <2>1, <1>9, <1>10 DEF SegSet
        <4> QED BY <4>1, <1>2, <1>12
      <3> QED BY <2>1, <3>1, <3>2, <1>10
    <2>2. CASE j = n + 1
      <3>1. segs'[j] = seg /\ phdrs'[j] = phdr /\ Use[j] = v
        BY <2>2, <1>7, <1>8 DEF v
      <3>2. seg.off + seg.size = total'
        BY <1>1, <1>6
      <3> QED BY <3>1, <3>2, <1>2, <1>4, <1>6
    <2> QED BY <2>1, <2>2, <1>11
  <1>14. ASSUME NEW i \in 1..(n + 1), NEW j \in 1..(n + 1), i < j
         PROVE  segs'[i].off + segs'[i].size <= segs'[j].off
    <2>1. i \in 1..n
      BY <1>2, <1>14
    <2>2. CASE j \in 1..n
      BY <2>1, <2>2, <1>7, <1>10, <1>14
    <2>3. CASE j = n + 1
      BY <2>1, <2>3, <1>6, <1>7, <1>10
    <2> QED BY <2>2, <2>3, <1>11
  <1>15. ASSUME NEW o \in hdr..(total' - 1) PROVE \E j \in 1..(n + 1) : Within(j, o)'
    <2>1. CASE o < total
      <3>1. PICK j \in 1..n : Within(j, o)
        BY <2>1, <1>2, <1>10, <1>12
      <3>2. j \in 1..(n + 1) /\ segs'[j] = segs[j]
        BY <3>1, <1>2, <1>7
      <3>3. Within(j, o)'
        BY <3>1, <3>2 DEF Within
      <3> QED BY <3>2, <3>3
    <2>2. CASE o >= total
      <3>0. n + 1 \in 1..(n + 1)
        BY <1>2
      <3>1. segs'[n + 1].off = total /\ segs'[n + 1].size = v.size
        BY <1>6, <1>7
      <3>2. o < total + v.size
        BY <1>1, <1>2, <1>4, <1>12
      <3>3. PICK j \in 1..(n + 1) : j = n + 1
        BY <3>0
      <3>4. Within(j, o)'
        BY <2>2, <3>1, <3>2, <3>3 DEF Within
      <3> QED BY <3>4
    <2> QED BY <2>1, <2>2, <1>2, <1>12
  <1>16. n + 1 <= Len(Use) /\ n + 1 \in Nat
    BY <1>1, <1>2, <1>3 DEF n
  <1> QED
    BY <1>1, <1>2, <1>3, <1>7, <1>8, <1>10, <1>12, <1>13, <1>14, <1>15, <1>16 DEF PlanOK

\* What a byte of the buffer can be.
Cells == {"hdr", "mem", "zero"} \X Nat

\* What is in the buffer when the loop is at segment i, at place k of it.
Placed(k) ==
    LET o == corePos + (k - 1) IN
    /\ o < cur => o < hdr /\ coreOut[k] = <<"hdr", o>>
    /\ o >= total => coreOut[k] = Zero
    /\ o >= cur => \A j \in 1..Len(segs) : Within(j, o) =>
           coreOut[k] = IF j < idx /\ o < corePos + coreLen
                        THEN <<"mem", segs[j].start + (o - segs[j].off)>> ELSE Zero

\* The plan, the buffer of the read in progress and the last reply.
CoreIInv ==
    /\ PlanOK
    /\ coreClient \in {"idle", "calling", "reading", "checking", "done"}
    /\ corePos \in Nat /\ coreChunk \in Nat
    /\ coreClient # "idle" => Planned
    /\ coreClient = "idle" => coreReply = NoReply
    /\ ReadsImage
    /\ coreClient = "reading" =>
          /\ cur \in Nat /\ hdr <= cur /\ coreLen \in Nat /\ idx \in Nat \ {0}
          /\ coreLen <= coreChunk /\ corePos + coreLen <= total
          /\ coreLen < coreChunk => corePos + coreLen = total
          /\ coreOut \in [1..coreChunk -> Cells]
          /\ \A k \in 1..coreChunk : Placed(k)

\* Nothing is planned and nothing has been asked at the start.
LEMMA CoreInitIInv == CoreInit => CoreIInv
  <1> SUFFICES ASSUME CoreInit PROVE CoreIInv
    OBVIOUS
  <1>1. vmas \in VmaLists /\ hdr = 0 /\ total = 0 /\ segs = <<>> /\ phdrs = <<>> /\ coreReply = NoReply
        /\ coreClient = "idle" /\ corePos = 0 /\ coreChunk = 0
    BY DEF CoreInit
  <1>2. Len(Use) \in Nat
    BY <1>1, UseFacts
  <1>3. /\ segs \in Seq(SegSet) /\ phdrs \in Seq(PhdrSet) /\ Len(segs) = 0 /\ Len(phdrs) = 0
        /\ 1..Len(segs) = {} /\ hdr..(total - 1) = {}
    BY <1>1
  <1>4. PlanOK
    BY <1>1, <1>2, <1>3 DEF PlanOK
  <1> QED BY <1>1, <1>4 DEF CoreIInv, ReadsImage

\* A read that returns the bytes the headers promise.
LEMMA FinishGood ==
    ASSUME CoreIInv, NEW n \in 0..coreChunk, NEW bytes \in [1..coreChunk -> Cells],
           Planned, FinishCore(n, bytes), UNCHANGED <<plan, coreChunk>>,
           \A k \in 1..coreChunk : bytes[k] = Image(corePos + (k - 1))
    PROVE  CoreIInv'
  <1>1. PlanOK /\ corePos \in Nat /\ coreChunk \in Nat /\ n \in Nat
    BY DEF CoreIInv
  <1>2. corePos' = Min({corePos + n, PosBound}) /\ coreClient' = "checking"
        /\ coreReply' = [pos |-> corePos, bytes |-> bytes, count |-> n] /\ coreChunk' = coreChunk
    BY DEF FinishCore
  <1>3. corePos' \in Nat
    <2>1. PosBound \in Nat /\ corePos + n \in Nat
      BY <1>1, ElfCoreAssumption
    <2> QED BY <1>2, <2>1, OfTwo
  <1>4. PlanOK' /\ Planned' /\ \A o : Image(o)' = Image(o)
    BY <1>1, PlanStays
  <1>5. Len(bytes) = coreChunk
    BY <1>1
  <1>6. ReadsImage'
    <2>1. \A k \in 1..coreChunk : corePos + (k - 1) = corePos + k - 1
      BY <1>1
    <2>2. coreReply'.pos = corePos /\ coreReply'.bytes = bytes /\ coreReply'.count = n
      BY <1>2
    <2> QED BY <1>1, <1>2, <1>4, <1>5, <2>1, <2>2 DEF ReadsImage
  <1> QED BY <1>1, <1>2, <1>3, <1>4, <1>6 DEF CoreIInv

\* A read past the end gives zeros.
LEMMA PastEndKeeps ==
    ASSUME CoreIInv, ReadPastEnd
    PROVE  CoreIInv'
  <1>1. /\ PlanOK /\ Planned /\ corePos \in Nat /\ coreChunk \in Nat /\ total \in Nat
        /\ corePos >= total /\ FinishCore(coreChunk, [k \in 1..coreChunk |-> Zero])
        /\ UNCHANGED <<plan, coreChunk>>
    BY DEF ReadPastEnd, CoreIInv, PlanOK
  <1>2. Zero \in Cells
    BY DEF Zero, Cells
  <1>3. \A k \in 1..coreChunk : Image(corePos + (k - 1)) = Zero
    <2> SUFFICES ASSUME NEW k \in 1..coreChunk PROVE Image(corePos + (k - 1)) = Zero
      OBVIOUS
    <2>1. corePos + (k - 1) \in Nat /\ corePos + (k - 1) >= total
      BY <1>1
    <2> QED BY <1>1, <2>1, ImageFacts
  <1> DEFINE zeros == [k \in 1..coreChunk |-> Zero]
  <1>4. zeros \in [1..coreChunk -> Cells] /\ \A k \in 1..coreChunk : zeros[k] = Image(corePos + (k - 1))
    BY <1>2, <1>3
  <1>5. FinishCore(coreChunk, zeros) /\ coreChunk \in 0..coreChunk
    BY <1>1
  <1> HIDE DEF zeros
  <1> QED BY <1>1, <1>4, <1>5, FinishGood

\* The header's part of a read; it may be all of it.
LEMMA ReadHeaderKeeps ==
    ASSUME CoreIInv, ReadHeader
    PROVE  CoreIInv'
  <1> DEFINE n == Min({coreChunk, total - corePos})
             take == IF corePos < hdr THEN Min({hdr - corePos, n}) ELSE 0
             buf0 == [k \in 1..coreChunk |-> IF k <= take THEN <<"hdr", corePos + (k - 1)>> ELSE Zero]
  <1>1. /\ PlanOK /\ Planned /\ corePos \in Nat /\ coreChunk \in Nat /\ total \in Nat /\ hdr \in Nat /\ hdr <= total
        /\ corePos < total /\ coreOut' = buf0 /\ coreLen' = n /\ cur' = corePos + take
        /\ UNCHANGED <<plan, coreChunk>>
    BY DEF ReadHeader, CoreIInv, PlanOK
  <1>2. IF take = n THEN FinishCore(n, coreOut')
        ELSE coreClient' = "reading" /\ idx' = 1 /\ UNCHANGED <<corePos, coreReply>>
    BY DEF ReadHeader
  <1>3. n = IF coreChunk <= total - corePos THEN coreChunk ELSE total - corePos
    BY <1>1, OfTwo
  <1>4. n \in 0..coreChunk /\ corePos + n <= total /\ (n < coreChunk => corePos + n = total)
    <2> HIDE DEF n
    <2> QED BY <1>1, <1>3
  <1> HIDE DEF n
  <1>5. take = IF corePos < hdr THEN IF hdr - corePos <= n THEN hdr - corePos ELSE n ELSE 0
    BY <1>1, <1>4, OfTwo
  <1>6. /\ take \in Nat /\ take <= n /\ (take < n => hdr <= corePos + take)
        /\ \A k \in 1..coreChunk : k <= take => corePos + (k - 1) < hdr
    <2> HIDE DEF take
    <2> QED BY <1>1, <1>4, <1>5
  <1> HIDE DEF take
  <1>7. /\ buf0 \in [1..coreChunk -> Cells]
        /\ \A k \in 1..coreChunk : buf0[k] = IF k <= take THEN <<"hdr", corePos + (k - 1)>> ELSE Zero
    <2>1. \A k \in 1..coreChunk : <<"hdr", corePos + (k - 1)>> \in Cells
      BY <1>1 DEF Cells
    <2>2. Zero \in Cells
      BY DEF Zero, Cells
    <2> QED BY <2>1, <2>2
  <1> HIDE DEF buf0
  <1>8. \A k \in 1..coreChunk : corePos + (k - 1) \in Nat
    BY <1>1
  <1>9. CASE take = n
    <2>1. ASSUME NEW k \in 1..coreChunk PROVE buf0[k] = Image(corePos + (k - 1))
      <3>1. CASE k <= take
        BY <3>1, <1>1, <1>6, <1>7, <1>8, ImageFacts
      <3>2. CASE k > take
        <4>1. corePos + (k - 1) >= total
          BY <3>2, <1>1, <1>4, <1>9
        <4> QED BY <3>2, <4>1, <1>1, <1>6, <1>7, <1>8, ImageFacts
      <3> QED BY <3>1, <3>2, <1>6
    <2>2. FinishCore(n, buf0)
      BY <1>1, <1>2, <1>9
    <2> QED BY <1>1, <1>4, <1>7, <2>1, <2>2, FinishGood
  <1>10. CASE take < n
    <2>1. coreClient' = "reading" /\ idx' = 1 /\ UNCHANGED <<corePos, coreReply, coreChunk>>
      BY <1>1, <1>2, <1>4, <1>6, <1>10
    <2>2. /\ PlanOK' /\ Planned' /\ (\A o : Image(o)' = Image(o)) /\ (\A j, o : Within(j, o)' <=> Within(j, o))
          /\ UNCHANGED <<hdr, total, segs>>
      BY <1>1, PlanStays DEF plan
    <2>3. ReadsImage'
      BY <2>1, <2>2 DEF ReadsImage, CoreIInv
    <2>4. ASSUME NEW k \in 1..coreChunk PROVE Placed(k)'
      <3> DEFINE o == corePos + (k - 1)
      <3>0. o \in Nat /\ o' = o
        BY <1>8, <2>1
      <3>1. o < cur' => o < hdr /\ coreOut'[k] = <<"hdr", o>>
        <4>1. o < cur' => k <= take
          BY <1>1, <1>6
        <4> QED BY <4>1, <1>1, <1>6, <1>7
      <3>2. o >= cur' => coreOut'[k] = Zero
        <4>1. o >= cur' => ~(k <= take)
          BY <1>1, <1>6
        <4> QED BY <4>1, <1>1, <1>7
      <3>3. o < cur' \/ o >= cur'
        BY <1>1, <1>6, <3>0
      <3>4. o >= total => o >= cur'
        BY <1>1, <1>4, <1>6, <1>10, <3>0
      <3>5. \A j \in 1..Len(segs) : ~(j < 1)
        BY <1>1 DEF PlanOK
      <3> HIDE DEF o
      <3>6. Placed(k)' <=> /\ o < cur' => o < hdr' /\ coreOut'[k] = <<"hdr", o>>
                           /\ o >= total' => coreOut'[k] = Zero
                           /\ o >= cur' => \A j \in 1..Len(segs') : Within(j, o)' =>
                                  coreOut'[k] = IF j < idx' /\ o < corePos' + coreLen'
                                                THEN <<"mem", segs'[j].start + (o - segs'[j].off)>> ELSE Zero
        BY <2>1 DEF Placed, o
      <3> QED BY <2>1, <2>2, <3>1, <3>2, <3>4, <3>5, <3>6
    <2>5. cur' \in Nat /\ hdr' <= cur' /\ coreLen' \in Nat /\ idx' \in Nat \ {0}
      BY <1>1, <1>4, <1>6, <1>10, <2>1, <2>2
    <2>6. coreLen' <= coreChunk' /\ corePos' + coreLen' <= total' /\ (coreLen' < coreChunk' => corePos' + coreLen' = total')
      BY <1>1, <1>4, <2>1, <2>2
    <2> QED BY <1>1, <1>7, <2>1, <2>2, <2>3, <2>4, <2>5, <2>6 DEF CoreIInv
  <1> QED BY <1>4, <1>6, <1>9, <1>10

\* What a step of the loop keeps besides the buffer.
LEMMA LoopKeeps ==
    ASSUME CoreIInv, coreClient = "reading", idx' = idx + 1, coreOut' \in [1..coreChunk -> Cells],
           UNCHANGED <<plan, coreClient, corePos, coreChunk, cur, coreLen, coreReply>>,
           \A k \in 1..coreChunk : Placed(k)'
    PROVE  CoreIInv'
  <1>1. /\ PlanOK' /\ (Planned => Planned') /\ (\A o : Image(o)' = Image(o)) /\ UNCHANGED <<hdr, total, segs>>
    BY PlanStays DEF plan, CoreIInv
  <1>2. ReadsImage'
    BY <1>1 DEF ReadsImage, CoreIInv
  <1> QED BY <1>1, <1>2 DEF CoreIInv

\* What the invariant says inside read()'s loop.
LEMMA Reading ==
    ASSUME CoreIInv, coreClient = "reading"
    PROVE  /\ PlanOK /\ Planned /\ corePos \in Nat /\ coreChunk \in Nat /\ cur \in Nat /\ hdr \in Nat
           /\ hdr <= cur /\ idx \in Nat \ {0} /\ Len(segs) \in Nat
           /\ coreLen \in Nat /\ coreLen <= coreChunk /\ total \in Nat /\ corePos + coreLen <= total
           /\ (coreLen < coreChunk => corePos + coreLen = total)
           /\ coreOut \in [1..coreChunk -> Cells] /\ \A k \in 1..coreChunk : Placed(k)
  <1>1. PlanOK
    BY DEF CoreIInv
  <1>2. hdr \in Nat /\ total \in Nat /\ Len(segs) \in Nat
    BY <1>1 DEF PlanOK
  <1> QED BY <1>1, <1>2 DEF CoreIInv

\* A segment that ends before what is wanted changes nothing.
LEMMA SkipKeeps ==
    ASSUME CoreIInv, SkipSegment
    PROVE  CoreIInv'
  <1>1. /\ coreClient = "reading" /\ idx <= Len(segs) /\ segs[idx].off + segs[idx].size <= cur /\ idx' = idx + 1
        /\ UNCHANGED <<plan, coreClient, corePos, coreChunk, coreOffset, cur, coreLen, coreOut, coreReply>>
    BY DEF SkipSegment, SegEnd, Seg
  <1>2. /\ PlanOK /\ corePos \in Nat /\ coreChunk \in Nat /\ cur \in Nat /\ idx \in Nat /\ Len(segs) \in Nat
        /\ coreOut \in [1..coreChunk -> Cells] /\ \A k \in 1..coreChunk : Placed(k)
    BY <1>1, Reading
  <1>3. UNCHANGED <<hdr, total, segs>>
    BY <1>1 DEF plan
  <1>4. ASSUME NEW k \in 1..coreChunk PROVE Placed(k)'
    <2> DEFINE o == corePos + (k - 1)
    <2>1. \A j \in 1..Len(segs) : Within(j, o) /\ o >= cur => (j < idx <=> j < idx + 1)
      <3> SUFFICES ASSUME NEW j \in 1..Len(segs), Within(j, o), o >= cur, j = idx PROVE FALSE
        BY <1>2
      <3>1. segs[j] \in SegSet /\ o \in Nat
        BY <1>2 DEF PlanOK
      <3> QED BY <1>1, <1>2, <3>1 DEF Within, SegSet
    <2> QED BY <1>1, <1>2, <1>3, <2>1 DEF Placed, Within
  <1> QED BY <1>1, <1>2, <1>4, LoopKeeps

\* A segment's part goes to its own place in the buffer.
LEMMA CopyKeeps ==
    ASSUME CoreIInv, CopySegment
    PROVE  CoreIInv'
  <1> DEFINE from == Max({cur, segs[idx].off})
             to == Min({corePos + coreLen, segs[idx].off + segs[idx].size})
             va == segs[idx].start + (from - segs[idx].off)
             buf1 == [k \in DOMAIN coreOut |->
                        LET i == k - 1 - (from - corePos)
                        IN  IF i >= 0 /\ i < to - from THEN <<"mem", va + i>> ELSE coreOut[k]]
  <1>1. /\ coreClient = "reading" /\ idx <= Len(segs) /\ segs[idx].off + segs[idx].size > cur
        /\ idx' = idx + 1 /\ coreOut' = buf1
        /\ UNCHANGED <<plan, coreClient, corePos, coreChunk, coreOffset, cur, coreLen, coreReply>>
    BY DEF CopySegment, SegEnd, Seg, ReadEnd
  <1>2. /\ PlanOK /\ corePos \in Nat /\ coreChunk \in Nat /\ cur \in Nat /\ hdr \in Nat /\ idx \in Nat \ {0} /\ Len(segs) \in Nat
        /\ coreLen \in Nat /\ total \in Nat /\ corePos + coreLen <= total
        /\ coreOut \in [1..coreChunk -> Cells] /\ \A k \in 1..coreChunk : Placed(k)
    BY <1>1, Reading
  <1>3. UNCHANGED <<hdr, total, segs>>
    BY <1>1 DEF plan
  <1>4. PICK c \in 1..Len(segs) : c = idx
    BY <1>1, <1>2
  <1> DEFINE off == segs[c].off
             end == segs[c].off + segs[c].size
             start == segs[c].start
  <1>5. off \in Nat /\ end \in Nat /\ start \in Nat /\ end > cur /\ end <= total /\ hdr <= off
    <2>1. segs[c] \in SegSet /\ hdr <= segs[c].off /\ segs[c].off + segs[c].size <= total
      BY <1>2 DEF PlanOK
    <2> QED BY <1>1, <1>4, <2>1 DEF SegSet
  <1>6. /\ from \in Nat /\ to \in Nat /\ va = start + (from - off) /\ from >= cur /\ from >= off
        /\ to <= corePos + coreLen /\ to <= end /\ va \in Nat
        /\ \A x \in Nat : (x >= from <=> x >= cur /\ x >= off) /\ (x < to <=> x < corePos + coreLen /\ x < end)
    <2>1. from = IF cur >= off THEN cur ELSE off
      <3>1. from = Max({cur, off})
        BY <1>4
      <3>2. cur \in Int /\ off \in Int
        BY <1>2, <1>5
      <3> HIDE DEF off, from
      <3> QED BY <3>1, <3>2, OfTwo
    <2>2. to = IF corePos + coreLen <= end THEN corePos + coreLen ELSE end
      <3>1. to = Min({corePos + coreLen, end})
        BY <1>4
      <3>2. corePos + coreLen \in Int /\ end \in Int
        BY <1>2, <1>5
      <3> HIDE DEF end, to
      <3> QED BY <3>1, <3>2, OfTwo
    <2>3. va = start + (from - off)
      BY <1>4
    <2> HIDE DEF from, to, va, off, end, start
    <2> QED BY <1>2, <1>5, <2>1, <2>2, <2>3
  <1>7. \A k \in 1..coreChunk :
           coreOut'[k] = LET i == (k - 1) - (from - corePos)
                         IN  IF i >= 0 /\ i < to - from THEN <<"mem", va + i>> ELSE coreOut[k]
    <2> HIDE DEF from, to, va
    <2>1. \A k \in 1..coreChunk : k - 1 - (from - corePos) = (k - 1) - (from - corePos)
      BY <1>2, <1>6
    <2> QED BY <1>1, <1>2, <2>1
  <1>8. DOMAIN coreOut' = 1..coreChunk /\ coreOut' = [k \in 1..coreChunk |-> coreOut'[k]]
    BY <1>1, <1>2
  <1> HIDE DEF buf1, from, to, va, off, end, start
  <1>9. ASSUME NEW k \in 1..coreChunk
        PROVE  LET o == corePos + (k - 1) IN
               coreOut'[k] = IF o >= cur /\ Within(c, o) /\ o < corePos + coreLen
                             THEN <<"mem", start + (o - off)>> ELSE coreOut[k]
    <2> DEFINE o == corePos + (k - 1)
               i == (k - 1) - (from - corePos)
    <2>1. o \in Nat /\ i \in Int /\ i = o - from
      BY <1>2, <1>6
    <2>2. i >= 0 /\ i < to - from <=> o >= from /\ o < to
      <3> HIDE DEF o, i
      <3> QED BY <1>6, <2>1
    <2>3. Within(c, o) <=> o >= off /\ o < end
      BY DEF Within, off, end
    <2>4. i >= 0 /\ i < to - from <=> o >= cur /\ Within(c, o) /\ o < corePos + coreLen
      <3> HIDE DEF o, i
      <3> QED BY <1>6, <2>1, <2>2, <2>3
    <2>5. va + i = start + (o - off)
      <3> HIDE DEF o, i
      <3> QED BY <1>5, <1>6, <2>1
    <2>6. coreOut'[k] = IF i >= 0 /\ i < to - from THEN <<"mem", va + i>> ELSE coreOut[k]
      BY <1>7
    <2> QED BY <2>4, <2>5, <2>6
  <1>10. coreOut' \in [1..coreChunk -> Cells]
    <2>1. ASSUME NEW k \in 1..coreChunk PROVE coreOut'[k] \in Cells
      <3> DEFINE o == corePos + (k - 1)
      <3>1. o \in Nat
        BY <1>2
      <3>2. Within(c, o) => start + (o - off) \in Nat
        <4> HIDE DEF o
        <4>1. Within(c, o) => o >= off
          BY DEF Within, off
        <4> QED BY <1>5, <3>1, <4>1
      <3>3. coreOut[k] \in Cells
        BY <1>2
      <3>4. CASE o >= cur /\ Within(c, o) /\ o < corePos + coreLen
        <4>1. coreOut'[k] = <<"mem", start + (o - off)>>
          BY <1>9, <3>4
        <4> QED BY <3>2, <3>4, <4>1 DEF Cells
      <3>5. CASE ~(o >= cur /\ Within(c, o) /\ o < corePos + coreLen)
        BY <1>9, <3>3, <3>5
      <3> QED BY <3>4, <3>5
    <2> QED BY <1>8, <2>1
  <1>11. ASSUME NEW k \in 1..coreChunk PROVE Placed(k)'
    <2> DEFINE o == corePos + (k - 1)
    <2>1. o \in Nat /\ o' = o
      BY <1>1, <1>2
    <2>2. /\ (o < cur => o < hdr /\ coreOut[k] = <<"hdr", o>>)
          /\ (o >= total => coreOut[k] = Zero)
          /\ (o >= cur => \A j \in 1..Len(segs) : Within(j, o) =>
                 coreOut[k] = IF j < idx /\ o < corePos + coreLen
                              THEN <<"mem", segs[j].start + (o - segs[j].off)>> ELSE Zero)
      BY <1>2 DEF Placed
    <2>3. coreOut'[k] = IF o >= cur /\ Within(c, o) /\ o < corePos + coreLen
                        THEN <<"mem", start + (o - off)>> ELSE coreOut[k]
      BY <1>9
    <2> HIDE DEF o
    <2>4. o < cur => coreOut'[k] = coreOut[k]
      BY <1>2, <2>1, <2>3
    <2>5. o >= total => coreOut'[k] = coreOut[k]
      <3>1. Within(c, o) => o < end
        BY DEF Within, end
      <3> QED BY <1>2, <1>5, <2>1, <2>3, <3>1
    <2>6. ASSUME o >= cur, NEW j \in 1..Len(segs), Within(j, o)
          PROVE  coreOut'[k] = IF j < idx + 1 /\ o < corePos + coreLen
                               THEN <<"mem", segs[j].start + (o - segs[j].off)>> ELSE Zero
      <3>1. CASE j = c
        <4>1. ~(j < idx) /\ j < idx + 1
          BY <1>2, <1>4, <3>1
        <4> QED BY <2>2, <2>3, <2>6, <3>1, <4>1 DEF start, off
      <3>2. CASE j # c
        <4>1. ~Within(c, o)
          BY <1>2, <2>1, <2>6, <3>2, WithinOne
        <4>2. j < idx <=> j < idx + 1
          BY <1>2, <1>4, <3>2
        <4> QED BY <2>2, <2>3, <2>6, <4>1, <4>2
      <3> QED BY <3>1, <3>2
    <2>7. UNCHANGED <<hdr, total, segs, cur, corePos, coreLen>> /\ idx' = idx + 1
      BY <1>1, <1>3
    <2>8. \A j : Within(j, o)' <=> Within(j, o)
      BY <2>1, <2>7 DEF Within
    <2> QED BY <2>1, <2>2, <2>4, <2>5, <2>6, <2>7, <2>8 DEF Placed, o
  <1> QED BY <1>1, <1>10, <1>11, LoopKeeps

\* What the loop leaves is the whole window.
LEMMA ReturnKeeps ==
    ASSUME CoreIInv, Return
    PROVE  CoreIInv'
  <1>1. /\ coreClient = "reading" /\ FinishCore(coreLen, coreOut) /\ UNCHANGED <<plan, coreChunk>>
        /\ idx <= Len(segs) => segs[idx].off >= corePos + coreLen
    BY DEF Return, Seg, ReadEnd
  <1>2. /\ PlanOK /\ Planned /\ corePos \in Nat /\ coreChunk \in Nat /\ cur \in Nat /\ hdr \in Nat
        /\ hdr <= cur /\ idx \in Nat \ {0} /\ Len(segs) \in Nat
        /\ coreLen \in Nat /\ coreLen <= coreChunk /\ total \in Nat /\ corePos + coreLen <= total
        /\ (coreLen < coreChunk => corePos + coreLen = total)
        /\ coreOut \in [1..coreChunk -> Cells] /\ \A k \in 1..coreChunk : Placed(k)
    BY <1>1, Reading
  <1>3. ASSUME NEW k \in 1..coreChunk PROVE coreOut[k] = Image(corePos + (k - 1))
    <2> DEFINE o == corePos + (k - 1)
    <2> SUFFICES coreOut[k] = Image(o)
      OBVIOUS
    <2>1. o \in Nat
      BY <1>2
    <2>2. /\ (o < cur => o < hdr /\ coreOut[k] = <<"hdr", o>>)
          /\ (o >= total => coreOut[k] = Zero)
          /\ (o >= cur => \A j \in 1..Len(segs) : Within(j, o) =>
                 coreOut[k] = IF j < idx /\ o < corePos + coreLen
                              THEN <<"mem", segs[j].start + (o - segs[j].off)>> ELSE Zero)
      BY <1>2 DEF Placed
    <2>3. o >= corePos + coreLen => o >= total
      BY <1>2
    <2> HIDE DEF o
    <2>4. CASE o < cur
      BY <1>2, <2>1, <2>2, <2>4, ImageFacts
    <2>5. CASE o >= total
      BY <1>2, <2>1, <2>2, <2>5, ImageFacts
    <2>6. CASE o >= cur /\ o < total
      <3>1. o \in hdr..(total - 1)
        BY <1>2, <2>1, <2>6
      <3>2. PICK j \in 1..Len(segs) : Within(j, o)
        BY <1>2, <3>1 DEF PlanOK
      <3>3. o < corePos + coreLen
        BY <1>2, <2>1, <2>3, <2>6
      <3>4. j < idx
        <4> SUFFICES ASSUME j >= idx PROVE FALSE
          BY <1>2
        <4>1. PICK c \in 1..Len(segs) : c = idx
          BY <1>2
        <4>2. segs[c] \in SegSet /\ segs[j] \in SegSet /\ segs[c].off >= corePos + coreLen
          BY <1>1, <1>2, <4>1 DEF PlanOK
        <4>3. segs[c].off <= segs[j].off
          <5>1. c < j => segs[c].off + segs[c].size <= segs[j].off
            BY <1>2 DEF PlanOK
          <5>2. c < j \/ c = j
            BY <1>2, <4>1
          <5> QED BY <4>2, <5>1, <5>2 DEF SegSet
        <4> QED BY <1>2, <2>1, <3>2, <3>3, <4>2, <4>3 DEF Within, SegSet
      <3>5. coreOut[k] = <<"mem", segs[j].start + (o - segs[j].off)>>
        BY <2>2, <2>6, <3>2, <3>3, <3>4
      <3>6. Image(o) = <<"mem", segs[j].start + (o - segs[j].off)>>
        BY <1>2, <2>1, <3>2, ImageFacts
      <3> QED BY <3>5, <3>6
    <2>7. o < cur \/ o >= total \/ (o >= cur /\ o < total)
      BY <1>2, <2>1
    <2> QED BY <2>4, <2>5, <2>6, <2>7
  <1>4. coreLen \in 0..coreChunk
    BY <1>2
  <1> QED BY <1>1, <1>2, <1>3, <1>4, FinishGood

\* Every step of proc.dmp.
LEMMA CoreNextIInv == CoreIInv /\ [CoreNext]_coreVars => CoreIInv'
  <1> SUFFICES ASSUME CoreIInv, [CoreNext]_coreVars PROVE CoreIInv'
    OBVIOUS
  <1>0. PlanOK
    BY DEF CoreIInv
  <1>1. ASSUME PlanHeader \/ PlanSegment PROVE CoreIInv'
    <2>1. /\ ~Planned /\ coreClient = "idle" /\ coreReply = NoReply
          /\ UNCHANGED <<coreClient, corePos, coreChunk, coreReply>>
      <3>1. ~Planned
        <4>1. Len(segs) \in Nat /\ Len(Use) \in Nat
          BY <1>0, UseFacts DEF PlanOK
        <4> QED BY <1>1, <4>1 DEF PlanHeader, PlanSegment, Planned
      <3> QED BY <1>1, <3>1 DEF PlanHeader, PlanSegment, CoreIInv
    <2>2. PlanOK'
      BY <1>0, <1>1, HeaderKeeps, SegmentKeeps
    <2> QED BY <2>1, <2>2 DEF CoreIInv, ReadsImage
  <1>2. ASSUME NEW o \in CoreOffsets, NEW n \in CoreChunks, StartCore(o, n) PROVE CoreIInv'
    <2>1. o \in Nat /\ n \in Nat
      BY ElfCoreAssumption
    <2>2. /\ Planned /\ coreClient = "idle" /\ coreClient' = "calling" /\ corePos' = o /\ coreChunk' = n
          /\ UNCHANGED <<plan, coreReply>>
      BY <1>2 DEF StartCore
    <2>3. coreReply = NoReply
      BY <2>2 DEF CoreIInv
    <2>4. PlanOK' /\ Planned'
      BY <1>0, <2>2, PlanStays
    <2> QED BY <2>1, <2>2, <2>3, <2>4 DEF CoreIInv, ReadsImage
  <1>3. CASE CheckCore
    <2>1. /\ coreClient = "checking" /\ coreClient' \in {"done", "calling"}
          /\ UNCHANGED <<plan, corePos, coreChunk, coreReply>>
      BY <1>3 DEF CheckCore
    <2>2. PlanOK' /\ (Planned => Planned') /\ \A o : Image(o)' = Image(o)
      BY <1>0, <2>1, PlanStays
    <2>3. ReadsImage'
      BY <2>1, <2>2 DEF ReadsImage, CoreIInv
    <2> QED BY <2>1, <2>2, <2>3 DEF CoreIInv
  <1>4. CASE UNCHANGED coreVars
    <2>1. UNCHANGED <<coreClient, corePos, coreChunk, coreReply, cur, coreLen, idx, coreOut, hdr, total, segs>> /\ UNCHANGED plan
      BY <1>4 DEF coreVars, plan
    <2>2. /\ PlanOK' /\ (Planned => Planned') /\ (\A o : Image(o)' = Image(o))
          /\ \A j, o : Within(j, o)' <=> Within(j, o)
      BY <1>0, <2>1, PlanStays
    <2>3. ReadsImage'
      BY <2>1, <2>2 DEF ReadsImage, CoreIInv
    <2>4. \A k : Placed(k)' <=> Placed(k)
      BY <2>1, <2>2 DEF Placed
    <2> QED BY <2>1, <2>2, <2>3, <2>4 DEF CoreIInv
  <1> QED
    BY <1>1, <1>2, <1>3, <1>4, PastEndKeeps, ReadHeaderKeeps, SkipKeeps, CopyKeeps, ReturnKeeps DEF CoreNext

(* Whatever the memory and the VMAs, every window of the three streams     *)
(* holds the bytes there are and zeros, and the headers of proc.dmp        *)
(* describe the readable memory of its process.                            *)
THEOREM ImagesAreTrue ==
    ASSUME FewSegments
    PROVE  CoreSpec /\ RawSpec => []ImagesTrue
  <1>1. CoreIInv /\ RawIInv => ImagesTrue
    BY PlanDescribes DEF CoreIInv, RawIInv, ImagesTrue
  <1> QED
    BY CoreInitIInv, CoreNextIInv, RawInitIInv, RawNextIInv, <1>1, PTL DEF CoreSpec, RawSpec

-----------------------------------------------------------------------------
(* The lists of tasks, threads and modules.                                *)

\* The links of an image are those its nodes have.
LEMMA LinkedFacts ==
    ASSUME NEW im \in Images
    PROVE  /\ Linked(im)[0] = im.first
           /\ \A k \in 0..(MaxWalk - 1) :
                 Linked(im)[k + 1] = IF Linked(im)[k] \in Nodes THEN im.next[Linked(im)[k]] ELSE Torn
           /\ \A k \in 0..MaxWalk : Linked(im)[k] \in Links
  <1> DEFINE n == MaxWalk
             After(a) == IF a \in Nodes THEN im.next[a] ELSE Torn
             step == [i \in 1..n |-> [a \in Links |-> After(a)]]
             Rec(g) == g = [k \in 0..n |-> IF k = 0 THEN im.first ELSE IF g[k - 1] \in Nodes THEN im.next[g[k - 1]] ELSE Torn]
             link == CHOOSE g : Rec(g)
  <1>1. n \in Nat /\ im.first \in Links /\ \A a \in Links : After(a) \in Links
    BY ListAssumption DEF Links
  <1>2. step \in [1..n -> [Links -> Links]] /\ \A i \in 1..n, a \in Links : step[i][a] = After(a)
    <2> HIDE DEF After, n
    <2> QED BY <1>1
  <1>3. Counting!Steps(step, im.first, n, Links)
    <2> HIDE DEF step, n
    <2> QED BY <1>1, <1>2 DEF Counting!Steps
  <1> HIDE DEF step
  <1>4. PICK w : Counting!Record(w, step, im.first, n, Links)
    <2> HIDE DEF n
    <2> QED BY <1>3, Counting!Iteration
  <1>5. w \in [0..n -> Links] /\ w[0] = im.first /\ \A i \in 1..n : w[i] = step[i][w[i - 1]]
    BY <1>4 DEF Counting!Record
  <1>6. Rec(w)
    <2>1. \A i \in 0..n : w[i] = IF i = 0 THEN im.first ELSE IF w[i - 1] \in Nodes THEN im.next[w[i - 1]] ELSE Torn
      <3> SUFFICES ASSUME NEW i \in 0..n, i # 0 PROVE w[i] = After(w[i - 1])
        BY <1>5
      <3>1. i \in 1..n /\ i - 1 \in 0..n
        BY <1>1
      <3>2. w[i - 1] \in Links
        BY <1>5, <3>1
      <3> HIDE DEF After
      <3> QED BY <1>2, <1>5, <3>1, <3>2
    <2> HIDE DEF n
    <2> QED BY <1>5, <2>1
  <1>7. Rec(link)
    <2> HIDE DEF Rec
    <2> QED BY <1>6
  <1>8. \A i \in 0..n : link[i] = IF i = 0 THEN im.first ELSE After(link[i - 1])
    <2> HIDE DEF link
    <2> QED BY <1>7
  <1>9. Linked(im) = link
    BY DEF Linked
  <1> HIDE DEF link
  <1>10. link[0] = im.first /\ \A k \in 0..(n - 1) : link[k + 1] = After(link[k])
    <2>1. 0 \in 0..n /\ \A k \in 0..(n - 1) : k + 1 \in 0..n /\ k + 1 # 0 /\ (k + 1) - 1 = k
      BY <1>1
    <2> HIDE DEF After, n
    <2> QED BY <1>8, <2>1
  <1>11. \A k \in 0..n : link[k] \in Links
    <2> DEFINE Good == {k \in 0..n : link[k] \in Links}
    <2>1. 0 \in Good
      BY <1>1, <1>10
    <2>2. ASSUME NEW k \in 0..(n - 1), k \in Good PROVE k + 1 \in Good
      <3>1. k + 1 \in 0..n /\ link[k] \in Links
        BY <1>1, <2>2
      <3> HIDE DEF After
      <3> QED BY <1>1, <1>10, <3>1
    <2>3. \A k \in 0..n : k \in Good
      <3> HIDE DEF Good
      <3> QED BY <1>1, <2>1, <2>2, Counting!CountingUp
    <2> QED BY <2>3
  <1> QED
    BY <1>9, <1>10, <1>11

\* The links the walk has been at.
Visited == IF listImg.kind = "tasks" THEN Cardinality(seen) ELSE turns

\* listOut has the plausible ones of the first n.
Listed(n) ==
    \E place \in [DOMAIN listOut -> 0..(n - 1)] :
        /\ PlacedBy(place)
        /\ \A i \in 0..(n - 1) : Plausible(Link(i)) => \E m \in DOMAIN listOut : place[m] = i

\* In the walk, where it is and what it has been at.
Walking ==
    /\ Visited \in 0..MaxWalk /\ listCur = Link(Visited)
    /\ \A i \in 0..(Visited - 1) : Link(i) \in Nodes /\ ~Damaged(Link(i))
    /\ Listed(Visited)
    /\ listImg.kind = "tasks" =>
          /\ IsFiniteSet(seen) /\ seen = {Link(i) : i \in 0..(Visited - 1)}
          /\ Different(Visited - 1)

\* A walk that is over after n links has been at all that are due.
Over(n) ==
    /\ \A i \in Due : i < n
    /\ \A i \in 0..(n - 1) : Plausible(Link(i)) =>
          \/ Sound(i) /\ (listImg.kind = "tasks" => Different(i))
          \/ listImg.kind = "threads" /\ i = n - 1 /\ Link(i) \notin Nodes

ListIInv ==
    /\ listImg \in Images /\ listPc \in {"start", "walk", "done", "error"} /\ listOut \in Seq(Links \cup {Leader})
    /\ listPc = "start" => seen = {} /\ turns = 0 /\ listOut = <<>>
    /\ listPc = "walk" => Walking
    /\ listPc = "done" /\ (listImg.kind = "threads" => listImg.anchor) =>
          \E n \in 0..MaxWalk : Listed(n) /\ Over(n)

LEMMA ListInitInv == ListInit => ListIInv
  BY DEF ListInit, ListIInv

\* What a step of a walk does, whichever list it is of.
Visits ==
    /\ listPc = "walk" /\ Visited < MaxWalk
    /\ listImg' = listImg /\ listCur' = ReadLink(listCur)
    /\ listOut' = IF Plausible(listCur) THEN Append(listOut, listCur) ELSE listOut
    /\ Visited' = Visited + 1
    /\ listImg.kind = "tasks" =>
          /\ listCur \notin seen /\ seen' = seen \cup {listCur} /\ IsFiniteSet(seen')
    /\ \/ listPc' = "walk" /\ ~Damaged(listCur) /\ ReadLink(listCur) # Torn
       \/ listPc' = "done" /\ (Damaged(listCur) \/ ReadLink(listCur) \in {Torn, listImg.first, listCur})

LEMMA StepsVisit ==
    ASSUME ListIInv, NextTask \/ NextThread \/ NextModule
    PROVE  Visits
  <1>1. listPc = "walk" /\ Walking /\ listImg \in Images
    BY DEF ListIInv, NextTask, NextThread, NextModule
  <1>2. listImg.kind \in {"tasks", "threads", "modules"} /\ MaxWalk \in Nat
    BY <1>1, ListAssumption
  <1>3. CASE NextTask
    <2>1. listImg.kind = "tasks" /\ listImg' = listImg /\ IsFiniteSet(seen)
      BY <1>1, <1>3 DEF NextTask, Walking
    <2>2. /\ listCur \notin seen /\ ~(Cardinality(seen) >= MaxWalk) /\ seen' = seen \cup {listCur}
      BY <1>3 DEF NextTask, TasksOver
    <2>3. IsFiniteSet(seen') /\ Cardinality(seen') = Cardinality(seen) + 1
      BY <2>1, <2>2, FS_AddElement
    <2>4. Cardinality(seen) \in Nat
      BY <2>1, FS_CardinalityType
    <2>5. Visited = Cardinality(seen) /\ Visited' = Cardinality(seen')
      BY <2>1 DEF Visited
    <2>6. (Plausible(listCur) <=> Fields(listCur) = "ok") /\ ~Damaged(listCur)
      BY <2>1 DEF Plausible, Damaged
    <2> QED BY <1>2, <1>3, <2>1, <2>2, <2>3, <2>4, <2>5, <2>6 DEF NextTask, Visits
  <1>4. CASE NextThread
    <2>1. listImg.kind = "threads" /\ listImg' = listImg /\ turns' = turns + 1
      BY <1>4 DEF NextThread
    <2>2. Visited = turns /\ Visited' = turns' /\ turns \in Nat
      BY <1>1, <2>1 DEF Visited, Walking
    <2>3. (Plausible(listCur) <=> Fields(listCur) # "bad") /\ (Damaged(listCur) <=> Fields(listCur) = "bad")
      BY <2>1 DEF Plausible, Damaged
    <2> QED BY <1>2, <1>4, <2>1, <2>2, <2>3 DEF NextThread, ListOver, Visits
  <1>5. CASE NextModule
    <2>1. listImg.kind = "modules" /\ listImg' = listImg /\ turns' = turns + 1
      BY <1>5 DEF NextModule
    <2>2. Visited = turns /\ Visited' = turns' /\ turns \in Nat
      BY <1>1, <2>1 DEF Visited, Walking
    <2>3. (Plausible(listCur) <=> Fields(listCur) = "ok") /\ (Damaged(listCur) <=> Fields(listCur) = "torn")
      BY <2>1 DEF Plausible, Damaged
    <2> QED BY <1>2, <1>5, <2>1, <2>2, <2>3 DEF NextModule, ListOver, Visits
  <1> QED BY <1>3, <1>4, <1>5

\* The links stay what they are.
LEMMA SameLinks ==
    ASSUME listImg' = listImg
    PROVE  /\ \A k : Link(k)' = Link(k)
           /\ \A a : (Plausible(a)' <=> Plausible(a)) /\ (Damaged(a)' <=> Damaged(a))
           /\ \A i : (Sound(i)' <=> Sound(i)) /\ (Different(i)' <=> Different(i))
           /\ Due' = Due
  BY DEF Link, Plausible, Damaged, Fields, Sound, Different, Due

\* A step lists the link it is at, if it is plausible.
LEMMA VisitLists ==
    ASSUME ListIInv, Visits
    PROVE  Listed(Visited)'
  <1> DEFINE n == Visited
             L(k) == Link(k)
  <1>1. Walking /\ n \in Nat /\ listCur = L(n) /\ listOut \in Seq(Links \cup {Leader})
    BY ListAssumption DEF ListIInv, Visits, Walking
  <1>2. PICK place \in [DOMAIN listOut -> 0..(n - 1)] :
            /\ PlacedBy(place)
            /\ \A i \in 0..(n - 1) : Plausible(L(i)) => \E m \in DOMAIN listOut : place[m] = i
    BY <1>1 DEF Walking, Listed
  <1>3. /\ \A k : Link(k)' = L(k)
        /\ \A a : Plausible(a)' <=> Plausible(a)
        /\ Visited' = n + 1
    BY SameLinks DEF Visits
  <1>4. (n + 1) - 1 = n
    BY <1>1
  <1>5. CASE Plausible(listCur)
    <2> DEFINE size == Len(listOut)
               put == [m \in 1..(size + 1) |-> IF m = size + 1 THEN n ELSE place[m]]
    <2>1. size \in Nat /\ DOMAIN listOut = 1..size
      BY <1>1
    <2>2. listOut' = Append(listOut, listCur)
      BY <1>5 DEF Visits
    <2>3. DOMAIN listOut' = 1..(size + 1) /\ listOut'[size + 1] = listCur /\ \A m \in 1..size : listOut'[m] = listOut[m]
      BY <1>1, <2>1, <2>2
    <2> HIDE DEF size, n, L
    <2>3a. PICK at : at = put
      OBVIOUS
    <2>4. at \in [DOMAIN listOut' -> 0..((n + 1) - 1)]
      BY <1>1, <1>2, <2>1, <2>3, <2>3a
    <2>5. at[size + 1] = n /\ \A m \in 1..size : at[m] = place[m] /\ at[m] \in 0..(n - 1)
      BY <1>1, <1>2, <2>1, <2>3a
    <2> HIDE DEF put
    <2>6. \A m, k \in 1..size : m < k => place[m] < place[k]
      BY <1>2, <2>1 DEF PlacedBy
    <2>7. \A m, k \in DOMAIN listOut' : m < k => at[m] < at[k]
      BY <1>1, <2>1, <2>3, <2>5, <2>6
    <2>8. \A m \in 1..size : listOut[m] = L(place[m]) /\ Plausible(listOut[m])
      BY <1>2, <2>1 DEF PlacedBy, L
    <2>9. \A m \in DOMAIN listOut' : listOut'[m] = Link(at[m])' /\ Plausible(listOut[m])'
      <3> SUFFICES ASSUME NEW m \in 1..(size + 1) PROVE listOut'[m] = L(at[m]) /\ Plausible(listOut'[m])
        BY <1>3, <2>3 DEF Plausible, Fields, Visits
      <3>1. CASE m = size + 1
        BY <1>1, <1>5, <2>3, <2>5, <3>1
      <3>2. CASE m # size + 1
        <4>1. m \in 1..size
          BY <2>1, <3>2
        <4> QED BY <2>3, <2>5, <2>8, <4>1
      <3> QED BY <3>1, <3>2
    <2>10. \A i \in 0..((n + 1) - 1) : Plausible(L(i)) => \E m \in DOMAIN listOut' : at[m] = i
      <3> SUFFICES ASSUME NEW i \in 0..n, Plausible(L(i)) PROVE \E m \in 1..(size + 1) : at[m] = i
        BY <1>4, <2>3
      <3>1. CASE i = n
        BY <2>1, <2>5, <3>1
      <3>2. CASE i # n
        <4>1. i \in 0..(n - 1)
          BY <1>1, <3>2
        <4>2. PICK m \in 1..size : place[m] = i
          BY <1>2, <2>1, <4>1 DEF L
        <4>3. m \in 1..(size + 1) /\ at[m] = i
          BY <2>1, <2>5, <4>2
        <4> QED BY <4>3
      <3> QED BY <3>1, <3>2
    <2>11. PlacedBy(at)'
      BY <2>7, <2>9 DEF PlacedBy
    <2>12. \A i \in 0..(Visited' - 1) : Plausible(Link(i))' => \E m \in DOMAIN listOut' : at[m] = i
      BY <1>3, <2>10 DEF L, Plausible, Fields, Visits
    <2>13. at \in [DOMAIN listOut' -> 0..(Visited' - 1)]
      BY <1>3, <2>4
    <2> QED BY <2>11, <2>12, <2>13 DEF Listed
  <1>6. CASE ~Plausible(listCur)
    <2>1. listOut' = listOut
      BY <1>6 DEF Visits
    <2>2. place \in [DOMAIN listOut' -> 0..((n + 1) - 1)]
      <3> HIDE DEF n
      <3> QED BY <1>1, <1>2, <2>1
    <2>3. \A i \in 0..((n + 1) - 1) : Plausible(L(i)) => i \in 0..(n - 1)
      <3> HIDE DEF n, L
      <3> QED BY <1>1, <1>4, <1>6
    <2> QED BY <1>2, <1>3, <2>1, <2>2, <2>3 DEF Listed, PlacedBy
  <1> QED BY <1>5, <1>6

\* What is listed of a walk is sound; a walk of tasks comes to no link twice.
LEMMA WalkingFacts ==
    ASSUME ListIInv, listPc = "walk"
    PROVE  /\ Visited \in 0..MaxWalk /\ listCur = Link(Visited)
           /\ Link(0) = listImg.first
           /\ Visited < MaxWalk => ReadLink(listCur) = Link(Visited + 1)
           /\ \A i \in 0..(Visited - 1) : Sound(i) /\ (listImg.kind = "tasks" => Different(i))
  <1> DEFINE n == Visited
  <1>1. Walking /\ listImg \in Images /\ MaxWalk \in Nat
    BY ListAssumption DEF ListIInv
  <1>2. n \in 0..MaxWalk /\ listCur = Link(n) /\ n \in Nat
    BY <1>1 DEF Walking
  <1>3. Link(0) = listImg.first
    BY <1>1, LinkedFacts DEF Link
  <1>4. ASSUME n < MaxWalk PROVE ReadLink(listCur) = Link(n + 1)
    <2>1. n \in 0..(MaxWalk - 1)
      BY <1>1, <1>2, <1>4
    <2>2. Linked(listImg)[n + 1] = IF Linked(listImg)[n] \in Nodes THEN listImg.next[Linked(listImg)[n]] ELSE Torn
      BY <1>1, <2>1, LinkedFacts
    <2> QED BY <1>2, <2>2 DEF Link, ReadLink
  <1>5. ASSUME NEW i \in 0..(n - 1) PROVE Sound(i) /\ (listImg.kind = "tasks" => Different(i))
    <2>1. \A j \in 0..i : j \in 0..(n - 1)
      BY <1>2, <1>5
    <2>2. Sound(i)
      BY <1>1, <2>1 DEF Walking, Sound
    <2>3. listImg.kind = "tasks" => Different(i)
      BY <1>1, <2>1 DEF Walking, Different
    <2> QED BY <2>2, <2>3
  <1> QED BY <1>2, <1>3, <1>4, <1>5

\* A step of a walk that goes on.
LEMMA VisitGoesOn ==
    ASSUME ListIInv, Visits, listPc' = "walk"
    PROVE  Walking'
  <1> DEFINE n == Visited
  <1>1. /\ n \in Nat /\ n < MaxWalk /\ Visited' = n + 1 /\ MaxWalk \in Nat /\ listPc = "walk" /\ listImg' = listImg
        /\ listCur = Link(n) /\ listCur' = Link(n + 1)
        /\ \A i \in 0..(n - 1) : Sound(i) /\ (listImg.kind = "tasks" => Different(i))
    BY WalkingFacts, ListAssumption DEF Visits
  <1>2. Listed(Visited)'
    BY VisitLists
  <1>3. listCur \in Nodes /\ ~Damaged(listCur)
    BY DEF Visits, ReadLink
  <1>4. \A i \in 0..n : Link(i) \in Nodes /\ ~Damaged(Link(i))
    <2> SUFFICES ASSUME NEW i \in 0..n PROVE Link(i) \in Nodes /\ ~Damaged(Link(i))
      OBVIOUS
    <2>1. CASE i = n
      BY <1>1, <1>3, <2>1
    <2>2. CASE i # n
      <3>1. i \in 0..(n - 1) /\ i \in 0..i
        BY <1>1, <2>2
      <3> QED BY <1>1, <3>1 DEF Sound
    <2> QED BY <2>1, <2>2
  <1>5. ASSUME listImg.kind = "tasks"
        PROVE  IsFiniteSet(seen') /\ seen' = {Link(i) : i \in 0..n} /\ Different(n)
    <2>1. /\ listCur \notin seen /\ seen' = seen \cup {listCur} /\ IsFiniteSet(seen')
          /\ seen = {Link(i) : i \in 0..(n - 1)} /\ Different(n - 1)
      BY <1>1, <1>5 DEF Visits, ListIInv, Walking
    <2>2. \A i \in 0..n : i = n \/ i \in 0..(n - 1)
      BY <1>1
    <2>3. \A i \in 0..(n - 1) : i \in 0..n
      BY <1>1
    <2>4. n \in 0..n
      BY <1>1
    <2> HIDE DEF n
    <2>5. seen' = {Link(i) : i \in 0..n}
      BY <1>1, <2>1, <2>2, <2>3, <2>4
    <2>6. \A j, k \in 0..n : Link(j) = Link(k) => j = k
      <3> SUFFICES ASSUME NEW j \in 0..n, NEW k \in 0..n, Link(j) = Link(k) PROVE j = k
        OBVIOUS
      <3>1. \A i \in 0..(n - 1) : Link(i) # Link(n)
        BY <1>1, <2>1
      <3>2. \A i, o \in 0..(n - 1) : Link(i) = Link(o) => i = o
        BY <2>1 DEF Different
      <3> QED BY <2>2, <3>1, <3>2
    <2> QED BY <2>1, <2>5, <2>6 DEF Different
  <1>6. /\ \A k : Link(k)' = Link(k)
        /\ \A a : Damaged(a)' <=> Damaged(a)
        /\ \A i : Different(i)' <=> Different(i)
    BY <1>1, SameLinks
  <1>7. PICK v : v = Visited'
    OBVIOUS
  <1>8. v = n + 1 /\ v - 1 = n /\ v \in 0..MaxWalk
    BY <1>1, <1>7
  <1>9. \A i \in 0..(v - 1) : Link(i)' \in Nodes /\ ~Damaged(Link(i))'
    BY <1>1, <1>4, <1>8 DEF Link, Damaged, Fields
  <1>10. listCur' = Link(Visited)'
    BY <1>1 DEF Link
  <1>11. listImg'.kind = "tasks" =>
            /\ IsFiniteSet(seen') /\ seen' = {Link(i)' : i \in 0..(v - 1)}
            /\ \A j, k \in 0..(v - 1) : Link(j)' = Link(k)' => j = k
    BY <1>1, <1>5, <1>6, <1>8 DEF Different
  <1> QED BY <1>2, <1>7, <1>8, <1>9, <1>10, <1>11 DEF Walking, Different

\* No link that is due is after one that is not sound, one that was there
\* before or the guard.
LEMMA NoneDueAfter ==
    ASSUME NEW i \in Due, NEW n \in 0..MaxWalk, i >= n
    PROVE  /\ n < MaxWalk /\ Link(n) \in Nodes
           /\ \A j \in 0..(n - 1) : Link(j) # Link(n) /\ ~Damaged(Link(j))
  <1>1. MaxWalk \in Nat /\ i \in 0..(MaxWalk - 1) /\ n \in 0..i /\ Sound(i) /\ Different(i)
    BY ListAssumption DEF Due
  <1>2. \A j \in 0..(n - 1) : j \in 0..i /\ j # n
    BY <1>1
  <1> QED BY <1>1, <1>2 DEF Sound, Different

\* A step of a walk that ends.
LEMMA VisitEnds ==
    ASSUME ListIInv, Visits, listPc' = "done"
    PROVE  (\E n \in 0..MaxWalk : Listed(n) /\ Over(n))'
  <1> DEFINE n == Visited
  <1>1. /\ n \in Nat /\ n < MaxWalk /\ Visited' = n + 1 /\ MaxWalk \in Nat /\ listPc = "walk" /\ listImg' = listImg
        /\ listCur = Link(n) /\ ReadLink(listCur) = Link(n + 1) /\ Link(0) = listImg.first
        /\ \A i \in 0..(n - 1) : Sound(i) /\ (listImg.kind = "tasks" => Different(i))
    BY WalkingFacts, ListAssumption DEF Visits
  <1>2. Listed(Visited)'
    BY VisitLists
  <1>3. ASSUME NEW i \in Due PROVE i < n + 1
    <2> SUFFICES ASSUME i >= n + 1 PROVE FALSE
      <3>1. i \in Nat
        BY <1>1, <1>3 DEF Due
      <3> QED BY <1>1, <3>1
    <2>1. n + 1 \in 0..MaxWalk /\ 0 \in 0..((n + 1) - 1) /\ n \in 0..((n + 1) - 1)
      BY <1>1
    <2>2. /\ Link(n + 1) \in Nodes
          /\ \A j \in 0..((n + 1) - 1) : Link(j) # Link(n + 1) /\ ~Damaged(Link(j))
      BY <2>1, NoneDueAfter
    <2>3. Link(n + 1) # Torn
      BY <2>2, ListAssumption
    <2>4. Damaged(listCur) \/ ReadLink(listCur) \in {Torn, listImg.first, listCur}
      BY DEF Visits
    <2> HIDE DEF n
    <2> QED BY <1>1, <2>1, <2>2, <2>3, <2>4
  <1>4. ASSUME NEW i \in 0..n, Plausible(Link(i))
        PROVE  \/ Sound(i) /\ (listImg.kind = "tasks" => Different(i))
               \/ listImg.kind = "threads" /\ i = n /\ Link(i) \notin Nodes
    <2>1. CASE i \in 0..(n - 1)
      BY <1>1, <2>1
    <2>2. CASE i \notin 0..(n - 1)
      <3>1. i = n
        BY <1>1, <2>2
      <3>2. ~Damaged(Link(n)) /\ (Link(n) \notin Nodes => listImg.kind = "threads")
        BY <1>4, <3>1 DEF Plausible, Damaged, Fields
      <3>3. ASSUME Link(n) \in Nodes PROVE Sound(n)
        <4>1. \A j \in 0..n : j = n \/ (j \in 0..(n - 1) /\ j \in 0..j)
          BY <1>1
        <4>2. \A j \in 0..(n - 1) : \A o \in 0..j : Link(o) \in Nodes /\ ~Damaged(Link(o))
          BY <1>1 DEF Sound
        <4> QED BY <3>2, <3>3, <4>1, <4>2 DEF Sound
      <3>4. ASSUME listImg.kind = "tasks" PROVE Different(n)
        <4>1. listCur \notin seen /\ seen = {Link(o) : o \in 0..(n - 1)} /\ Different(n - 1)
          BY <1>1, <3>4 DEF Visits, ListIInv, Walking
        <4>2. \A j \in 0..n : j = n \/ j \in 0..(n - 1)
          BY <1>1
        <4>3. \A j \in 0..(n - 1) : Link(j) # Link(n)
          BY <1>1, <4>1
        <4> QED BY <4>1, <4>2, <4>3 DEF Different
      <3> QED BY <3>1, <3>2, <3>3, <3>4
    <2> QED BY <2>1, <2>2
  <1>5. PICK v : v = Visited'
    OBVIOUS
  <1>6. v = n + 1 /\ v - 1 = n /\ v \in 0..MaxWalk
    BY <1>1, <1>5
  <1>7. /\ \A k : Link(k)' = Link(k)
        /\ \A i : (Sound(i)' <=> Sound(i)) /\ (Different(i)' <=> Different(i))
        /\ Due' = Due
    BY <1>1, SameLinks
  <1>8. Listed(v)'
    BY <1>2, <1>5 DEF Listed, PlacedBy
  <1>9. Over(v)'
    <2>1. \A i \in Due' : i < v
      BY <1>3, <1>6, <1>7
    <2>2. ASSUME NEW i \in 0..(v - 1), Plausible(Link(i))'
          PROVE  \/ Sound(i)' /\ (listImg'.kind = "tasks" => Different(i)')
                 \/ listImg'.kind = "threads" /\ i = v - 1 /\ Link(i)' \notin Nodes
      <3>1. Plausible(Link(i)) /\ i \in 0..n
        BY <1>1, <1>6, <2>2 DEF Plausible, Fields, Link
      <3> QED BY <1>1, <1>4, <1>6, <1>7, <3>1
    <2> QED BY <2>1, <2>2 DEF Over
  <1> QED BY <1>6, <1>8, <1>9

LEMMA StopEnds ==
    ASSUME ListIInv, StopList
    PROVE  \E n \in 0..MaxWalk : Listed(n) /\ Over(n)
  <1> DEFINE n == Visited
  <1>1. /\ n \in Nat /\ n \in 0..MaxWalk /\ listPc = "walk" /\ listCur = Link(n) /\ Walking /\ MaxWalk \in Nat
        /\ \A i \in 0..(n - 1) : Sound(i) /\ (listImg.kind = "tasks" => Different(i))
    <2>1. listPc = "walk"
      BY DEF StopList
    <2> QED BY <2>1, WalkingFacts, ListAssumption DEF ListIInv
  <1>2. Listed(n)
    BY <1>1 DEF Walking
  <1>3. n >= MaxWalk \/ listCur \notin Nodes \/ (listImg.kind = "tasks" /\ listCur \in seen)
    BY <1>1, ListAssumption DEF StopList, TasksOver, ListOver, Visited
  <1>4. ASSUME NEW i \in Due PROVE i < n
    <2> SUFFICES ASSUME i >= n PROVE FALSE
      <3>1. i \in Nat
        BY <1>1, <1>4 DEF Due
      <3>2. PICK v : v = n
        OBVIOUS
      <3> QED BY <1>1, <3>1, <3>2
    <2>1. /\ n < MaxWalk /\ Link(n) \in Nodes
          /\ \A j \in 0..(n - 1) : Link(j) # Link(n)
      BY <1>1, NoneDueAfter
    <2>2. listImg.kind = "tasks" => seen = {Link(o) : o \in 0..(n - 1)}
      BY <1>1 DEF Walking
    <2> QED BY <1>1, <1>3, <2>1, <2>2
  <1>5. Over(n)
    BY <1>1, <1>4 DEF Over
  <1> QED BY <1>1, <1>2, <1>5

\* What is over stays so.
LEMMA OverStays ==
    ASSUME UNCHANGED <<listImg, listOut>>, \E n \in 0..MaxWalk : Listed(n) /\ Over(n)
    PROVE  (\E n \in 0..MaxWalk : Listed(n) /\ Over(n))'
  <1>1. PICK n \in 0..MaxWalk : Listed(n) /\ Over(n)
    OBVIOUS
  <1>2. Listed(n)'
    BY <1>1 DEF Listed, PlacedBy, Plausible, Fields, Link
  <1>3. Over(n)'
    BY <1>1 DEF Over, Due, Sound, Different, Damaged, Plausible, Fields, Link
  <1> QED BY <1>2, <1>3

LEMMA ListNextInv == ListIInv /\ [ListNext]_listVars => ListIInv'
  <1> SUFFICES ASSUME ListIInv, [ListNext]_listVars PROVE ListIInv'
    OBVIOUS
  <1> DEFINE Finished == \E n \in 0..MaxWalk : Listed(n) /\ Over(n)
  <1>0. /\ listImg \in Images /\ listOut \in Seq(Links \cup {Leader}) /\ MaxWalk \in Nat
        /\ listImg.kind \in {"tasks", "threads", "modules"} /\ listImg.first \in Links
    BY ListAssumption DEF ListIInv
  <1>1. CASE BeginList
    <2>1. /\ listPc = "start" /\ seen = {} /\ turns = 0 /\ listImg' = listImg /\ seen' = {} /\ turns' = 0
          /\ listCur' = listImg.first /\ listPc' \in {"walk", "done", "error"}
          /\ listOut' \in Seq(Links \cup {Leader})
      <3>1. <<Leader>> \in Seq(Links \cup {Leader}) /\ <<>> \in Seq(Links \cup {Leader})
        OBVIOUS
      <3>2. listOut' = <<Leader>> \/ listOut' = <<>>
        BY <1>1 DEF BeginList
      <3>3. listPc' \in {"walk", "done", "error"}
        BY <1>1 DEF BeginList
      <3> QED BY <1>1, <3>1, <3>2, <3>3 DEF BeginList, ListIInv
    <2>2. Linked(listImg)[0] = listImg.first
      BY <1>0, LinkedFacts
    <2>3. ASSUME listPc' # "error", listImg.kind = "threads" => listImg.anchor
          PROVE  listOut' = <<>> /\ Listed(0)'
      <3>1. listOut' = <<>>
        BY <1>1, <2>3 DEF BeginList
      <3>2. [m \in {} |-> 0] \in [DOMAIN listOut' -> 0..(0 - 1)]
        BY <3>1
      <3>3. \A i \in 0..(0 - 1) : FALSE
        OBVIOUS
      <3>4. DOMAIN listOut' = {}
        BY <3>1
      <3> QED BY <3>1, <3>2, <3>3, <3>4 DEF Listed, PlacedBy
    <2>4. ASSUME listPc' = "walk" PROVE Walking'
      <3>1. Visited' = 0
        BY <2>1, FS_EmptySet DEF Visited
      <3>2. listImg.kind = "threads" => listImg.anchor
        BY <1>1, <2>4 DEF BeginList
      <3>3. \A i \in 0..(Visited' - 1) : FALSE
        BY <3>1
      <3>4. Listed(Visited)'
        BY <2>3, <2>4, <3>1, <3>2 DEF Listed
      <3>5. IsFiniteSet(seen') /\ seen' = {Link(i)' : i \in 0..(Visited' - 1)}
        BY <2>1, <3>3, FS_EmptySet
      <3>6. Visited' \in 0..MaxWalk /\ listCur' = Link(Visited)'
        BY <1>0, <2>1, <2>2, <3>1 DEF Link
      <3>7. Different(Visited - 1)'
        BY <3>3 DEF Different
      <3> QED BY <3>3, <3>4, <3>5, <3>6, <3>7 DEF Walking
    <2>5. ASSUME listPc' = "done", listImg.kind = "threads" => listImg.anchor PROVE Finished'
      <3>1. Listed(0)' /\ 0 \in 0..MaxWalk
        BY <1>0, <2>3, <2>5
      <3>2. listImg.first = Torn /\ Torn \notin Nodes
        BY <1>1, <2>5, ListAssumption DEF BeginList
      <3>3. ASSUME NEW i \in Due' PROVE i < 0
        <4>1. 0 \in 0..i /\ Sound(i)'
          BY <1>0 DEF Due
        <4>2. Link(0)' \in Nodes
          BY <4>1 DEF Sound
        <4> QED BY <2>1, <2>2, <3>2, <4>2 DEF Link
      <3>4. \A i \in 0..(0 - 1) : FALSE
        OBVIOUS
      <3>5. Over(0)'
        BY <3>3, <3>4 DEF Over
      <3> QED BY <3>1, <3>5
    <2> QED BY <1>0, <2>1, <2>4, <2>5 DEF ListIInv
  <1>2. CASE NextTask \/ NextThread \/ NextModule
    <2>1. Visits
      BY <1>2, StepsVisit
    <2>2. listPc = "walk" /\ listImg' = listImg /\ listPc' \in {"walk", "done"}
      BY <2>1 DEF Visits
    <2>3. listCur \in Links
      <3>1. Visited \in 0..MaxWalk /\ listCur = Link(Visited)
        BY <2>2, WalkingFacts
      <3> QED BY <1>0, <3>1, LinkedFacts DEF Link
    <2>4. listOut' \in Seq(Links \cup {Leader})
      BY <1>0, <2>1, <2>3 DEF Visits
    <2>5. /\ listPc' = "walk" => Walking'
          /\ listPc' = "done" => Finished'
      BY <2>1, VisitGoesOn, VisitEnds
    <2> QED BY <1>0, <2>2, <2>4, <2>5 DEF ListIInv
  <1>3. CASE StopList
    <2>1. /\ listPc' = "done" /\ UNCHANGED <<listImg, listOut>>
      BY <1>3 DEF StopList
    <2>2. Finished
      BY <1>3, StopEnds
    <2>3. Finished'
      BY <2>1, <2>2, OverStays
    <2> QED BY <1>0, <2>1, <2>3 DEF ListIInv
  <1>4. CASE UNCHANGED listVars
    <2>1. UNCHANGED <<listImg, listPc, listCur, seen, turns, listOut>>
      BY <1>4 DEF listVars
    <2>2. Walking => Walking'
      BY <2>1 DEF Walking, Visited, Listed, PlacedBy, Different, Damaged, Plausible, Fields, Link
    <2>3. Finished => Finished'
      BY <2>1, OverStays
    <2> QED BY <2>1, <2>2, <2>3 DEF ListIInv
  <1> QED BY <1>1, <1>2, <1>3, <1>4 DEF ListNext

LEMMA ListInvSuffices == ListIInv => ListsFound
  <1> SUFFICES ASSUME ListIInv, listPc = "done", listImg.kind = "threads" => listImg.anchor
               PROVE  \E place \in [DOMAIN listOut -> 0..(MaxWalk - 1)] :
                         /\ PlacedBy(place)
                         /\ Due \subseteq {place[m] : m \in DOMAIN listOut}
                         /\ \A m \in DOMAIN listOut :
                               \/ Sound(place[m]) /\ (listImg.kind = "tasks" => Different(place[m]))
                               \/ listImg.kind = "threads" /\ m = Len(listOut) /\ listOut[m] \notin Nodes
    BY DEF ListsFound
  <1>1. PICK n \in 0..MaxWalk : Listed(n) /\ Over(n)
    BY DEF ListIInv
  <1>2. PICK place \in [DOMAIN listOut -> 0..(n - 1)] :
            /\ PlacedBy(place)
            /\ \A i \in 0..(n - 1) : Plausible(Link(i)) => \E m \in DOMAIN listOut : place[m] = i
    BY <1>1 DEF Listed
  <1>3. MaxWalk \in Nat /\ n \in Nat /\ Len(listOut) \in Nat /\ DOMAIN listOut = 1..Len(listOut)
    BY ListAssumption, <1>1 DEF ListIInv
  <1>4. place \in [DOMAIN listOut -> 0..(MaxWalk - 1)]
    <2>1. \A m \in DOMAIN listOut : place[m] \in 0..(MaxWalk - 1)
      BY <1>1, <1>2, <1>3
    <2> QED BY <1>2, <2>1
  <1>5. ASSUME NEW i \in Due PROVE \E m \in DOMAIN listOut : place[m] = i
    <2>1. i \in 0..(MaxWalk - 1) /\ Plausible(Link(i)) /\ i < n
      BY <1>1, <1>5 DEF Due, Over
    <2>2. i \in 0..(n - 1)
      BY <1>3, <2>1
    <2> QED BY <1>2, <2>1, <2>2
  <1>6. ASSUME NEW m \in DOMAIN listOut
        PROVE  \/ Sound(place[m]) /\ (listImg.kind = "tasks" => Different(place[m]))
               \/ listImg.kind = "threads" /\ m = Len(listOut) /\ listOut[m] \notin Nodes
    <2>1. place[m] \in 0..(n - 1) /\ listOut[m] = Link(place[m]) /\ Plausible(Link(place[m]))
      BY <1>2, <1>6 DEF PlacedBy
    <2>2. \/ Sound(place[m]) /\ (listImg.kind = "tasks" => Different(place[m]))
          \/ listImg.kind = "threads" /\ place[m] = n - 1 /\ Link(place[m]) \notin Nodes
      BY <1>1, <2>1 DEF Over
    <2>3. ASSUME place[m] = n - 1 PROVE m = Len(listOut)
      <3> SUFFICES ASSUME m # Len(listOut) PROVE FALSE
        OBVIOUS
      <3>1. m \in 1..Len(listOut) /\ m < Len(listOut) /\ Len(listOut) \in DOMAIN listOut
        BY <1>3, <1>6
      <3>2. place[m] < place[Len(listOut)] /\ place[Len(listOut)] \in 0..(n - 1)
        BY <1>2, <3>1 DEF PlacedBy
      <3> QED BY <1>3, <2>3, <3>2
    <2> QED BY <2>1, <2>2, <2>3
  <1> QED BY <1>2, <1>4, <1>5, <1>6

(* However a list of tasks, threads or modules is linked and torn, and     *)
(* however far its walk may go: what precedes the damage is reported, in   *)
(* its order, and nothing that does not.                                   *)
THEOREM ListsAreFound == ListSpec => []ListsFound
  BY ListInitInv, ListNextInv, ListInvSuffices, PTL DEF ListSpec

-----------------------------------------------------------------------------
(* RecoveredFile.                                                          *)

\* The stages after the walk of the xarray.
Copying == {"copy", "ranges", "done"}

\* The values of the variables.
FileTypeInv ==
    /\ fileImg \in FileImages
    /\ filePc \in {"start", "walk"} \cup Copying
    /\ calls \in Seq([entry : Entries(fileImg), index : Nat, depth : Nat])
    /\ pages \in Seq([index : Nat, folio : Nat])
    /\ page \in Nat \ {0} /\ vmemmap \in Nat
    /\ stats.copied \subseteq Nat /\ stats.dropped \subseteq Nat
    /\ stats = [copied |-> stats.copied, dropped |-> stats.dropped, nbytes |-> stats.nbytes,
                missing |-> stats.missing, lost |-> stats.lost]

\* What was found has a last index and a lowest folio.
FileBounds ==
    pages # <<>> =>
        /\ \E p \in Range(pages) : \A q \in Range(pages) : q.index <= p.index
        /\ \E p \in Range(pages) : \A q \in Range(pages) : p.folio <= q.folio

\* A page is said to be dropped, or every byte of its place was read.
Told(j) ==
    \/ pages[j].index \in stats.dropped
    \/ \A k \in 1..FileSize : (k - 1) \div PageBytes = pages[j].index => Real(k)

\* The pages before the next one were copied or are told of; without a base
\* none is.
FileCopied ==
    /\ filePc \in {"start", "walk"} => page = 1 /\ stats = NoStats /\ content = <<>> /\ vmemmap = 0
    /\ filePc \in Copying =>
          /\ content = [k \in 1..FileSize |-> content[k]]
          /\ \A k \in 1..FileSize : Real(k) => \E p \in Range(pages) : FromPage(k, p)
          /\ \A j \in Inside : j < page => Told(j)
          /\ filePc # "copy" /\ FileSize > 0 => page > Len(pages) \/ stats.copied = {}

FileIInv == FileTypeInv /\ FileBounds /\ FileCopied

LEMMA FileImageFacts ==
    ASSUME NEW f \in FileImages
    PROVE  /\ f.size \in Nat /\ f.symbol \in Nat
           /\ Len(f.mem) \in Nat
           /\ \A i \in 1..Len(f.mem) : f.mem[i].captured \in Nat
           /\ \A e \in Entries(f) : e[1] = "folio" => e[2] \in Nat
  <1>1. f.mem \in Seq(Range(f.mem)) /\ \A m \in Range(f.mem) : m.captured \in Nat
    BY RecoveredFileAssumption
  <1>2. \A i \in 1..Len(f.mem) : f.mem[i] \in Range(f.mem)
    BY <1>1
  <1> QED
    BY <1>1, <1>2, RecoveredFileAssumption

LEMMA FileConstants == PageBytes \in Nat \ {0} /\ GiB \in Nat \ {0} /\ MaxRecover \in Nat
  BY RecoveredFileAssumption

LEMMA RangeOfPages ==
    ASSUME NEW S, NEW s \in Seq(S)
    PROVE  /\ Range(s) \subseteq S
           /\ \A i \in 1..Len(s) : s[i] \in Range(s)
           /\ s # <<>> => Range(s) # {}
  <1>1. \A i \in 1..Len(s) : s[i] \in S /\ s[i] \in Range(s)
    BY DEF Range
  <1>2. Range(s) \subseteq S
    BY DEF Range
  <1>3. s # <<>> => 1 \in 1..Len(s)
    OBVIOUS
  <1> QED BY <1>1, <1>2, <1>3

\* A file has a number of bytes.
LEMMA FileSizeFacts ==
    ASSUME FileTypeInv, FileBounds
    PROVE  FileSize \in Nat
  <1>1. fileImg.size \in Nat /\ MaxRecover \in Nat /\ PageBytes \in Nat
    BY FileImageFacts, FileConstants DEF FileTypeInv
  <1>2. CASE fileImg.size > 0
    <2> DEFINE n == fileImg.size
    <2>1. n \in Nat
      BY <1>1
    <2> HIDE DEF n
    <2>2. Min({n, MaxRecover}) \in {n, MaxRecover}
      BY <1>1, <2>1, OfTwo
    <2>3. Min({n, MaxRecover}) \in Nat
      BY <1>1, <2>1, <2>2
    <2> QED BY <1>2, <2>3 DEF FileSize, n
  <1>3. CASE ~(fileImg.size > 0) /\ pages = <<>>
    BY <1>3 DEF FileSize
  <1>4. CASE ~(fileImg.size > 0) /\ pages # <<>>
    <2> DEFINE I == {p.index : p \in Range(pages)}
               m == Max(I)
    <2>0. Range(pages) \subseteq [index : Nat, folio : Nat]
      BY RangeOfPages DEF FileTypeInv
    <2>1. \E x \in I : \A y \in I : x >= y
      <3>1. PICK p \in Range(pages) : \A q \in Range(pages) : q.index <= p.index
        BY <1>4 DEF FileBounds
      <3>2. \A q \in Range(pages) : q.index \in Nat
        BY <2>0
      <3> QED BY <3>1, <3>2
    <2>2. m \in I
      BY <2>1 DEF Max
    <2>3. m \in Nat
      BY <2>2, <2>0
    <2> HIDE DEF m
    <2> DEFINE n == (m + 1) * PageBytes
    <2>4. n \in Nat
      BY <1>1, <2>3
    <2> HIDE DEF n
    <2>5. Min({n, MaxRecover}) \in {n, MaxRecover}
      BY <1>1, <2>4, OfTwo
    <2>6. Min({n, MaxRecover}) \in Nat
      BY <1>1, <2>4, <2>5
    <2> QED BY <1>4, <2>6 DEF FileSize, n, m
  <1> QED BY <1>2, <1>3, <1>4

\* A byte is of a page that is expected; a page that is has its place in the
\* file.
LEMMA PlaceFacts ==
    ASSUME FileTypeInv, FileBounds
    PROVE  /\ Expected \in Nat
           /\ \A k \in 1..FileSize : (k - 1) \div PageBytes \in 0..(Expected - 1)
           /\ \A i \in Nat : i < Expected =>
                 /\ Chunk(i) \in 1..PageBytes
                 /\ \A k \in 1..FileSize :
                       (k - i * PageBytes \in 1..Chunk(i)) <=> (k - 1) \div PageBytes = i
  <1> DEFINE P == PageBytes
             n == FileSize
             e == (n + P - 1) \div P
  <1>1. n \in Nat /\ P \in Nat \ {0}
    BY FileSizeFacts, FileConstants
  <1>8. e = Expected
    BY DEF Expected
  <1>2. \A i : Chunk(i) = Min({P, n - i * P})
    BY DEF Chunk
  <1> HIDE DEF P, n
  <1>3. n + P - 1 \in Nat
    BY <1>1
  <1>4. e \in Nat /\ n + P - 1 >= P * e /\ n + P - 1 < P * e + P
    <2> DEFINE x == n + P - 1
               r == x % P
    <2>1. x \in Nat
      BY <1>1
    <2>2. x \div P \in Nat /\ r \in 0..(P - 1) /\ x = P * (x \div P) + r
      BY <2>1, <1>1, PageFacts
    <2> HIDE DEF r
    <2>3. e \in Nat /\ P * e \in Nat
      BY <2>2, <1>1
    <2>4. x = P * e + r
      BY <2>2
    <2> HIDE DEF e
    <2> QED BY <1>1, <2>2, <2>3, <2>4
  <1>5. \A i \in Nat : i < e => i * P < n
    <2> SUFFICES ASSUME NEW i \in Nat, i < e PROVE i * P < n
      OBVIOUS
    <2> HIDE DEF e
    <2>1. P * (i + 1) <= P * e
      BY <1>1, <1>4
    <2>2. P * (i + 1) = (i * P) + P
      BY <1>1
    <2>3. i * P \in Nat /\ P * e \in Nat
      BY <1>1, <1>4
    <2> QED BY <2>1, <2>2, <2>3, <1>1, <1>4
  <1>6. ASSUME NEW k \in 1..n PROVE (k - 1) \div P \in 0..(e - 1)
    <2> DEFINE d == (k - 1) \div P
               r == (k - 1) % P
    <2>0. k - 1 \in Nat
      BY <1>1
    <2>1. d \in Nat /\ r \in 0..(P - 1) /\ k - 1 = P * d + r
      BY <2>0, <1>1, PageFacts
    <2> HIDE DEF d, r, e
    <2>2. d < e
      <3> SUFFICES ASSUME d >= e PROVE FALSE
        BY <2>1, <1>4
      <3>1. P * d >= P * e
        BY <1>1, <1>4, <2>1
      <3>2. P * d \in Nat /\ P * e \in Nat
        BY <1>1, <1>4, <2>1
      <3> QED BY <3>1, <3>2, <2>1, <1>1, <1>4
    <2> QED BY <2>1, <2>2, <1>4 DEF d
  <1>7. ASSUME NEW i \in Nat, i < e
        PROVE  /\ Chunk(i) \in 1..P
               /\ \A k \in 1..n : (k - i * P \in 1..Chunk(i)) <=> (k - 1) \div P = i
    <2> DEFINE o == i * P
               c == Min({P, n - o})
    <2>1. o \in Nat /\ o < n
      BY <1>1, <1>5, <1>7
    <2>2. Chunk(i) = c
      BY <1>2
    <2>3. c \in {P, n - o} /\ c <= P /\ c <= n - o
      <3> HIDE DEF o
      <3> QED BY <2>1, <1>1, OfTwo
    <2>4. ASSUME NEW k \in 1..n PROVE (k - o \in 1..c) <=> (k - 1) \div P = i
      <3> DEFINE d == (k - 1) \div P
                 r == (k - 1) % P
      <3>0. k - 1 \in Nat
        BY <1>1
      <3>1. d \in Nat /\ r \in 0..(P - 1) /\ k - 1 = P * d + r
        BY <3>0, <1>1, PageFacts
      <3>2. o = P * i
        BY <1>1
      <3> HIDE DEF d, r, o, c, e
      <3>3. CASE d = i
        <4>1. k - 1 = o + r
          BY <3>1, <3>2, <3>3
        <4> QED BY <4>1, <3>1, <2>1, <2>3, <3>3, <1>1 DEF d
      <3>4. CASE d < i
        <4>1. P * (d + 1) <= P * i
          BY <3>1, <3>4, <1>1
        <4>2. P * (d + 1) = P * d + P /\ P * d \in Nat
          BY <3>1, <1>1
        <4>3. k - 1 < o
          BY <4>1, <4>2, <3>1, <3>2, <2>1, <1>1
        <4> QED BY <4>3, <3>1, <3>4, <2>1, <2>3, <1>1 DEF d
      <3>5. CASE d > i
        <4>1. P * (i + 1) <= P * d
          BY <3>1, <3>5, <1>1
        <4>2. P * (i + 1) = P * i + P /\ P * d \in Nat
          BY <3>1, <1>1
        <4>3. k - 1 >= o + P
          BY <4>1, <4>2, <3>1, <3>2, <2>1, <1>1
        <4> QED BY <4>3, <3>1, <3>5, <2>1, <2>3, <1>1 DEF d
      <3> QED BY <3>1, <3>3, <3>4, <3>5
    <2>5. c \in 1..P
      <3> HIDE DEF c, o
      <3> QED BY <2>1, <2>3, <1>1
    <2> HIDE DEF c
    <2> QED BY <2>2, <2>4, <2>5
  <1> HIDE DEF e
  <1> QED BY <1>1, <1>8, <1>4, <1>6, <1>7 DEF P, n

LEMMA FileInitInv == FileInit => FileIInv
  <1> SUFFICES ASSUME FileInit PROVE FileIInv
    OBVIOUS
  <1>1. FileTypeInv
    BY DEF FileInit, FileTypeInv, NoStats
  <1>2. FileBounds
    BY DEF FileInit, FileBounds
  <1>3. FileCopied
    BY DEF FileInit, FileCopied, Copying
  <1> QED BY <1>1, <1>2, <1>3 DEF FileIInv

-----------------------------------------------------------------------------
(* The walk of the xarray.                                                 *)

LEMMA OrFacts ==
    ASSUME NEW index \in Nat, NEW i \in Nat, NEW unit \in Nat
    PROVE  Or(index, i, unit) \in Nat
  <1> DEFINE bit(b) == IF (i \div b) % 2 = 1 /\ (index \div (unit * b)) % 2 = 0 THEN unit * b ELSE 0
  <1>1. \A b \in {1, 2, 4, 8, 16, 32} : unit * b \in Nat
    OBVIOUS
  <1>2. \A b \in {1, 2, 4, 8, 16, 32} : bit(b) \in Nat
    BY <1>1
  <1>3. Or(index, i, unit) = index + bit(1) + bit(2) + bit(4) + bit(8) + bit(16) + bit(32)
    BY DEF Or
  <1> HIDE DEF bit
  <1>4. /\ bit(1) \in Nat /\ bit(2) \in Nat /\ bit(4) \in Nat
        /\ bit(8) \in Nat /\ bit(16) \in Nat /\ bit(32) \in Nat
    BY <1>2
  <1> QED BY <1>3, <1>4

LEMMA EntryFacts ==
    ASSUME NEW f \in FileImages
    PROVE  /\ f.head \in Entries(f)
           /\ \A n \in DOMAIN f.nodes :
                 /\ f.nodes[n].unit \in Nat /\ Len(f.nodes[n].slots) \in Nat
                 /\ \A i \in 1..Len(f.nodes[n].slots) : f.nodes[n].slots[i] \in Entries(f)
  <1>1. ASSUME NEW n \in DOMAIN f.nodes, NEW i \in 1..Len(f.nodes[n].slots)
        PROVE  f.nodes[n].slots[i] \in Entries(f)
    <2>1. f.nodes[n].slots \in Seq(Range(f.nodes[n].slots))
      BY RecoveredFileAssumption
    <2>2. f.nodes[n].slots[i] \in Range(f.nodes[n].slots)
      BY <2>1
    <2> QED BY <2>2 DEF Entries
  <1>2. \A n \in DOMAIN f.nodes :
           f.nodes[n].unit \in Nat /\ f.nodes[n].slots \in Seq(Range(f.nodes[n].slots))
    BY RecoveredFileAssumption
  <1>3. f.head \in Entries(f)
    BY DEF Entries
  <1> QED BY <1>1, <1>2, <1>3

\* The calls a node makes are of its entries, at numbers.
LEMMA CallsFacts ==
    ASSUME FileTypeInv,
           NEW c \in [entry : Entries(fileImg), index : Nat, depth : Nat],
           c.entry[2] \in DOMAIN fileImg.nodes
    PROVE  CallsOf(c) \in Seq([entry : Entries(fileImg), index : Nat, depth : Nat])
  <1> DEFINE C == [entry : Entries(fileImg), index : Nat, depth : Nat]
             node == fileImg.nodes[c.entry[2]]
             made(i) == Call(node.slots[i], Or(c.index, i - 1, node.unit), c.depth + 1)
  <1>1. /\ node.unit \in Nat /\ Len(node.slots) \in Nat
        /\ \A i \in 1..Len(node.slots) : node.slots[i] \in Entries(fileImg)
    BY EntryFacts DEF FileTypeInv
  <1>2. CallsOf(c) = [i \in 1..Len(node.slots) |-> made(i)]
    BY DEF CallsOf
  <1>3. ASSUME NEW i \in 1..Len(node.slots) PROVE made(i) \in C
    <2>1. i - 1 \in Nat /\ c.index \in Nat /\ c.depth + 1 \in Nat
      BY <1>1
    <2>2. Or(c.index, i - 1, node.unit) \in Nat
      BY <1>1, <2>1, OrFacts
    <2>3. node.slots[i] \in Entries(fileImg)
      BY <1>1
    <2> HIDE DEF node
    <2> QED BY <2>1, <2>2, <2>3 DEF Call
  <1> HIDE DEF node, made, C
  <1>4. [i \in 1..Len(node.slots) |-> made(i)] \in Seq(C)
    BY <1>1, <1>3
  <1> QED BY <1>2, <1>4 DEF C

\* One more page has no influence on there being a last and a lowest.
LEMMA BoundsOfAppend ==
    ASSUME NEW s \in Seq([index : Nat, folio : Nat]), NEW e \in [index : Nat, folio : Nat],
           s # <<>> => /\ \E p \in Range(s) : \A q \in Range(s) : q.index <= p.index
                       /\ \E p \in Range(s) : \A q \in Range(s) : p.folio <= q.folio
    PROVE  /\ \E p \in Range(Append(s, e)) : \A q \in Range(Append(s, e)) : q.index <= p.index
           /\ \E p \in Range(Append(s, e)) : \A q \in Range(Append(s, e)) : p.folio <= q.folio
  <1> DEFINE t == Append(s, e)
  <1>1. Range(t) = Range(s) \cup {e}
    <2>1. t \in Seq([index : Nat, folio : Nat]) /\ Len(t) = Len(s) + 1 /\ t[Len(s) + 1] = e
      OBVIOUS
    <2>2. \A i \in 1..Len(s) : t[i] = s[i]
      OBVIOUS
    <2>3. DOMAIN s = 1..Len(s) /\ DOMAIN t = 1..(Len(s) + 1)
      BY <2>1
    <2>4. 1..(Len(s) + 1) = 1..Len(s) \cup {Len(s) + 1}
      OBVIOUS
    <2> HIDE DEF t
    <2>5. ASSUME NEW x \in Range(t) PROVE x \in Range(s) \cup {e}
      <3>1. PICK i \in 1..(Len(s) + 1) : x = t[i]
        BY <2>3 DEF Range
      <3>2. CASE i = Len(s) + 1
        BY <3>1, <3>2, <2>1
      <3>3. CASE i \in 1..Len(s)
        <4>1. x = s[i]
          BY <3>1, <3>3, <2>2
        <4> QED BY <4>1, <3>3, <2>3 DEF Range
      <3> QED BY <3>2, <3>3, <2>4
    <2>6. e \in Range(t)
      <3>1. Len(s) + 1 \in DOMAIN t
        BY <2>3
      <3> QED BY <3>1, <2>1 DEF Range
    <2>7. ASSUME NEW x \in Range(s) PROVE x \in Range(t)
      <3>1. PICK i \in 1..Len(s) : x = s[i]
        BY <2>3 DEF Range
      <3>2. x = t[i] /\ i \in DOMAIN t
        BY <3>1, <2>2, <2>3, <2>4
      <3> QED BY <3>2 DEF Range
    <2> QED BY <2>5, <2>6, <2>7
  <1>2. Range(s) \subseteq [index : Nat, folio : Nat]
    BY RangeOfPages
  <1> HIDE DEF t
  <1>3. CASE s = <<>>
    <2>1. Range(t) = {e}
      BY <1>1, <1>3 DEF Range
    <2>2. e.index <= e.index /\ e.folio <= e.folio
      OBVIOUS
    <2> QED BY <2>1, <2>2 DEF t
  <1>4. CASE s # <<>>
    <2>1. \E p \in Range(t) : \A q \in Range(t) : q.index <= p.index
      <3>1. PICK p \in Range(s) : \A q \in Range(s) : q.index <= p.index
        BY <1>4
      <3>2. CASE e.index <= p.index
        BY <1>1, <3>1, <3>2
      <3>3. CASE ~(e.index <= p.index)
        <4>1. \A q \in Range(t) : q.index <= e.index
          BY <1>1, <1>2, <3>1, <3>3
        <4> QED BY <4>1, <1>1
      <3> QED BY <3>2, <3>3
    <2>2. \E p \in Range(t) : \A q \in Range(t) : p.folio <= q.folio
      <3>1. PICK p \in Range(s) : \A q \in Range(s) : p.folio <= q.folio
        BY <1>4
      <3>2. CASE p.folio <= e.folio
        BY <1>1, <3>1, <3>2
      <3>3. CASE ~(p.folio <= e.folio)
        <4>1. \A q \in Range(t) : e.folio <= q.folio
          BY <1>1, <1>2, <3>1, <3>3
        <4> QED BY <4>1, <1>1
      <3> QED BY <3>2, <3>3
    <2> QED BY <2>1, <2>2 DEF t
  <1> QED BY <1>3, <1>4

LEMMA CollectInv == FileIInv /\ Collect => FileIInv'
  <1> SUFFICES ASSUME FileIInv, Collect PROVE FileIInv'
    OBVIOUS
  <1> USE DEF FileIInv
  <1> DEFINE f == fileImg
             h == f.head
             C == [entry : Entries(f), index : Nat, depth : Nat]
  <1>1. /\ h \in Entries(f) /\ (h[1] = "folio" => h[2] \in Nat)
    BY EntryFacts, FileImageFacts DEF FileTypeInv
  <1>2. /\ pages' = IF h[1] = "folio" THEN <<Page(0, h[2])>> ELSE <<>>
        /\ calls' = IF h[1] = "node" THEN <<Call(h, 0, 0)>> ELSE <<>>
        /\ filePc' = "walk" /\ f' = f /\ vmemmap' = vmemmap /\ page' = page
        /\ content' = content /\ stats' = stats /\ filePc = "start"
    BY DEF Collect
  <1>3. pages' \in Seq([index : Nat, folio : Nat])
    <2> DEFINE S == [index : Nat, folio : Nat]
    <2>1. h[1] = "folio" => Page(0, h[2]) \in S
      BY <1>1 DEF Page
    <2> HIDE DEF S
    <2>2. pages' \in Seq(S)
      BY <2>1, <1>2
    <2> QED BY <2>2 DEF S
  <1>4. calls' \in Seq(C)
    <2>1. Call(h, 0, 0) \in C
      BY <1>1 DEF Call
    <2> HIDE DEF C
    <2> QED BY <2>1, <1>2
  <1>5. FileTypeInv'
    BY <1>2, <1>3, <1>4 DEF FileTypeInv
  <1>6. FileBounds'
    <2>1. CASE h[1] = "folio"
      <3> DEFINE p == Page(0, h[2])
      <3>1. pages' = <<p>> /\ p.index = 0 /\ p.folio = h[2]
        BY <2>1, <1>2 DEF Page
      <3> HIDE DEF p
      <3>2. Range(<<p>>) = {p}
        BY DEF Range
      <3>3. p.index <= p.index /\ p.folio <= p.folio
        BY <3>1, <2>1, <1>1
      <3>4. Range(pages') = {p}
        BY <3>1, <3>2
      <3> QED BY <3>3, <3>4 DEF FileBounds
    <2>2. CASE h[1] # "folio"
      BY <2>2, <1>2 DEF FileBounds
    <2> QED BY <2>1, <2>2
  <1>7. FileCopied'
    BY <1>2 DEF FileCopied, Copying
  <1> QED BY <1>5, <1>6, <1>7

LEMMA WalkXarrayInv == FileIInv /\ WalkXarray => FileIInv'
  <1> SUFFICES ASSUME FileIInv, WalkXarray PROVE FileIInv'
    OBVIOUS
  <1> USE DEF FileIInv
  <1> DEFINE C == [entry : Entries(fileImg), index : Nat, depth : Nat]
             c == Head(calls)
  <1>1. /\ filePc = "walk" /\ calls # <<>> /\ filePc' = filePc /\ fileImg' = fileImg
        /\ vmemmap' = vmemmap /\ page' = page /\ content' = content /\ stats' = stats
        /\ \/ pages' = pages
           \/ c.entry[1] = "folio" /\ pages' = Append(pages, Page(c.index, c.entry[2]))
        /\ \/ calls' = Tail(calls)
           \/ c.entry[2] \in DOMAIN fileImg.nodes /\ calls' = CallsOf(c) \o Tail(calls)
    BY DEF WalkXarray
  <1>2. calls \in Seq(C)
    BY DEF FileTypeInv
  <1>3. c \in C /\ Tail(calls) \in Seq(C)
    <2> HIDE DEF C
    <2> QED BY <1>1, <1>2
  <1> HIDE DEF c
  <1>4. calls' \in Seq(C)
    <2>1. CASE calls' = Tail(calls)
      BY <2>1, <1>3
    <2>2. CASE c.entry[2] \in DOMAIN fileImg.nodes /\ calls' = CallsOf(c) \o Tail(calls)
      <3>1. CallsOf(c) \in Seq(C)
        BY <2>2, <1>3, CallsFacts
      <3> HIDE DEF C
      <3> QED BY <2>2, <3>1, <1>3
    <2> QED BY <1>1, <2>1, <2>2
  <1>5. pages' \in Seq([index : Nat, folio : Nat]) /\ FileBounds'
    <2>1. CASE pages' = pages
      BY <2>1 DEF FileTypeInv, FileBounds
    <2>2. CASE c.entry[1] = "folio" /\ pages' = Append(pages, Page(c.index, c.entry[2]))
      <3> DEFINE e == Page(c.index, c.entry[2])
      <3>1. e \in [index : Nat, folio : Nat]
        BY <2>2, <1>3, FileImageFacts DEF Page, FileTypeInv
      <3> HIDE DEF e
      <3>2. pages' = Append(pages, e) /\ pages \in Seq([index : Nat, folio : Nat])
        BY <2>2 DEF e, FileTypeInv
      <3>3. /\ \E p \in Range(Append(pages, e)) : \A q \in Range(Append(pages, e)) : q.index <= p.index
            /\ \E p \in Range(Append(pages, e)) : \A q \in Range(Append(pages, e)) : p.folio <= q.folio
        BY <3>1, <3>2, BoundsOfAppend DEF FileBounds
      <3>4. FileBounds'
        BY <3>2, <3>3 DEF FileBounds
      <3> QED BY <3>1, <3>2, <3>4
    <2> QED BY <1>1, <2>1, <2>2
  <1>6. FileTypeInv'
    BY <1>1, <1>4, <1>5 DEF FileTypeInv
  <1>7. FileCopied'
    BY <1>1 DEF FileCopied, Copying
  <1> QED BY <1>5, <1>6, <1>7

-----------------------------------------------------------------------------
(* The base and the copying.                                               *)

LEMMA InsideFacts ==
    ASSUME FileTypeInv
    PROVE  \A k \in Inside : /\ k \in 1..Len(pages) /\ pages[k] \in Range(pages)
                             /\ pages[k].index \in Nat /\ pages[k].folio \in Nat
                             /\ pages[k].index < Expected
  <1>1. pages \in Seq([index : Nat, folio : Nat])
    BY DEF FileTypeInv
  <1>2. \A k \in 1..Len(pages) : /\ pages[k] \in [index : Nat, folio : Nat]
                                 /\ pages[k] \in Range(pages)
    BY <1>1, RangeOfPages
  <1>3. \A k \in Inside : k \in 1..Len(pages) /\ pages[k].index < Expected
    BY DEF Inside
  <1> QED BY <1>2, <1>3

\* The base is a number, and an attempt without one copies nothing.
LEMMA AttemptFacts ==
    ASSUME FileTypeInv, FileBounds
    PROVE  /\ Derived \in Nat
           /\ \A a \in Attempts :
                 /\ a.base \in Nat /\ a.copied \subseteq Nat /\ a.dropped \subseteq Nat
                 /\ a.base = 0 => a.copied = {}
  <1>1. fileImg.symbol \in Nat /\ GiB \in Nat \ {0}
    BY FileImageFacts, FileConstants DEF FileTypeInv
  <1>2. Derived \in Nat
    <2> DEFINE F == {p.folio : p \in Range(pages)}
               m == Min(F)
    <2>0. Range(pages) \subseteq [index : Nat, folio : Nat]
      BY RangeOfPages DEF FileTypeInv
    <2>1. CASE pages = <<>>
      <3>1. F = {}
        BY <2>1 DEF Range
      <3> QED BY <3>1 DEF Derived
    <2>2. CASE pages # <<>>
      <3>1. \E x \in F : \A y \in F : x =< y
        BY <2>2 DEF FileBounds
      <3>2. m \in F
        BY <3>1 DEF Min
      <3>3. m \in Nat
        BY <3>2, <2>0
      <3>4. Derived \in {0, m - (m % GiB)}
        BY DEF Derived
      <3> HIDE DEF m
      <3>5. (m % GiB) \in 0..(GiB - 1) /\ m \div GiB \in Nat /\ m = GiB * (m \div GiB) + (m % GiB)
        BY <3>3, <1>1, PageFacts
      <3>6. m - (m % GiB) \in Nat
        <4> DEFINE d == m \div GiB
                   r == m % GiB
        <4>1. GiB * d \in Nat
          BY <3>5, <1>1
        <4>2. m = GiB * d + r /\ r \in 0..(GiB - 1)
          BY <3>5
        <4> HIDE DEF d, r
        <4>3. m - r \in Nat
          BY <4>1, <4>2, <3>3, <1>1
        <4> QED BY <4>3 DEF r
      <3> QED BY <3>4, <3>6
    <2> QED BY <2>1, <2>2
  <1>3. \A k \in Inside : pages[k].index \in Nat
    BY InsideFacts
  <1>4. ASSUME NEW a \in Attempts
        PROVE  /\ a.base \in Nat /\ a.copied \subseteq Nat /\ a.dropped \subseteq Nat
               /\ a.base = 0 => a.copied = {}
    <2>1. PICK b \in IF Bases = {} THEN {0} ELSE Bases : a = Attempt(b)
      BY <1>4 DEF Attempts
    <2>2. b \in Nat
      BY <2>1, <1>1, <1>2 DEF Bases
    <2> DEFINE good == {k \in Inside : b # 0 /\ Copies(pages[k], b)}
    <2>3. /\ a.base = b /\ a.copied = {pages[k].index : k \in good}
          /\ a.dropped = {pages[k].index : k \in Inside \ good}
      BY <2>1 DEF Attempt
    <2> QED BY <2>2, <2>3, <1>3
  <1> QED BY <1>2, <1>4

\* One of the two attempts is the better one.
LEMMA ChosenFacts == Chosen \in Attempts
  <1> DEFINE Wins(a) == \A c \in Attempts \ {a} :
                 IF a.base = fileImg.symbol THEN ~Better(c, a) ELSE Better(a, c)
  <1>1. \E a \in Attempts : Wins(a)
    <2>1. CASE Bases = {}
      <3>1. Attempts = {Attempt(0)}
        BY <2>1 DEF Attempts
      <3> QED BY <3>1
    <2>2. CASE Bases = {fileImg.symbol} \/ Bases = {Derived}
      <3>1. PICK b : Bases = {b}
        BY <2>2
      <3>2. Attempts = {Attempt(b)}
        BY <3>1 DEF Attempts
      <3> QED BY <3>2
    <2>3. CASE Bases = {fileImg.symbol, Derived} /\ fileImg.symbol # Derived
      <3> DEFINE a == Attempt(fileImg.symbol)
                 c == Attempt(Derived)
      <3>1. Attempts = {a, c}
        BY <2>3 DEF Attempts
      <3>2. a.base = fileImg.symbol /\ c.base = Derived
        BY DEF Attempt
      <3>3. a # c
        BY <3>2, <2>3
      <3> HIDE DEF a, c
      <3>4. CASE Better(c, a)
        <4>1. Wins(c)
          BY <3>1, <3>2, <3>3, <3>4, <2>3
        <4> QED BY <4>1, <3>1
      <3>5. CASE ~Better(c, a)
        <4>1. Wins(a)
          BY <3>1, <3>2, <3>3, <3>5
        <4> QED BY <4>1, <3>1
      <3> QED BY <3>4, <3>5
    <2>4. Bases = {fileImg.symbol, Derived} \ {0}
      BY DEF Bases
    <2> QED BY <2>1, <2>2, <2>3, <2>4
  <1>2. Chosen = CHOOSE a \in Attempts : Wins(a)
    BY DEF Chosen
  <1> HIDE DEF Wins
  <1> QED BY <1>1, <1>2

LEMMA ChooseBaseInv == FileIInv /\ ChooseBase => FileIInv'
  <1> SUFFICES ASSUME FileIInv, ChooseBase PROVE FileIInv'
    OBVIOUS
  <1> USE DEF FileIInv
  <1>1. PICK chosen \in {Chosen} :
          /\ vmemmap' = IF FileSize = 0 THEN 0 ELSE chosen.base
          /\ stats' = [stats EXCEPT !.copied = chosen.copied, !.dropped = chosen.dropped]
          /\ filePc' = IF FileSize = 0 THEN "done" ELSE IF chosen.base = 0 THEN "ranges" ELSE "copy"
    BY DEF ChooseBase
  <1>2. /\ filePc = "walk" /\ fileImg' = fileImg /\ calls' = calls /\ pages' = pages /\ page' = page
        /\ content' = [k \in 1..FileSize |-> NoByte]
    BY DEF ChooseBase
  <1>3. /\ chosen.base \in Nat /\ chosen.copied \subseteq Nat /\ chosen.dropped \subseteq Nat
        /\ chosen.base = 0 => chosen.copied = {}
    BY <1>1, AttemptFacts, ChosenFacts
  <1>4. /\ stats' = [copied |-> chosen.copied, dropped |-> chosen.dropped, nbytes |-> stats.nbytes,
                     missing |-> stats.missing, lost |-> stats.lost]
        /\ page = 1
    BY <1>1, <1>2 DEF FileTypeInv, FileCopied
  <1>5. FileTypeInv'
    BY <1>1, <1>2, <1>3, <1>4 DEF FileTypeInv, Copying
  <1>6. FileBounds'
    BY <1>2 DEF FileBounds
  <1>7. FileSize' = FileSize /\ FileSize \in Nat
    BY <1>2, FileSizeFacts DEF FileSize
  <1>8. FileCopied'
    <2>1. filePc' \notin {"start", "walk"}
      BY <1>1
    <2>2. content' = [k \in 1..FileSize' |-> content'[k]]
      BY <1>2, <1>7
    <2>3. \A k \in 1..FileSize' : ~Real(k)'
      BY <1>2, <1>7 DEF Real
    <2>4. \A j \in Inside' : ~(j < page')
      <3>1. \A j \in Inside' : j \in 1..Len(pages')
        BY DEF Inside
      <3> QED BY <3>1, <1>2, <1>4 DEF FileTypeInv
    <2>5. filePc' # "copy" /\ FileSize' > 0 => stats'.copied = {}
      BY <1>1, <1>3, <1>4, <1>7
    <2> QED BY <2>1, <2>2, <2>3, <2>4, <2>5 DEF FileCopied
  <1> QED BY <1>5, <1>6, <1>8

\* What a frame put in the place of page i makes of the content.
Fills(cells, i, pfn) ==
    /\ pfn \in Nat /\ Captured(pfn) \in Nat
    /\ cells = [k \in 1..FileSize |-> cells[k]]
    /\ \A k \in 1..FileSize :
          IF (k - 1) \div PageBytes = i
          THEN /\ k - i * PageBytes \in 1..Chunk(i)
               /\ cells[k] = IF k - i * PageBytes <= Captured(pfn)
                           THEN <<pfn, k - i * PageBytes - 1>> ELSE NoByte
          ELSE cells[k] = content[k]

\* A frame that is read covers the place of its page and nothing else.
LEMMA FillFacts ==
    ASSUME FileTypeInv, FileBounds, NEW p, NEW j \in Inside, p = pages[j], InRam(p.folio, vmemmap),
           NEW pfn, pfn = p.folio - vmemmap,
           NEW cells, cells = Filled(p.index, ReadFrame(pfn, Chunk(p.index)))
    PROVE  Fills(cells, p.index, pfn)
  <1> DEFINE c == Chunk(p.index)
             b == p.index * PageBytes
             frame == ReadFrame(pfn, c)
  <1>1. p.index \in Nat /\ p.folio \in Nat /\ p.index < Expected /\ vmemmap \in Nat
    BY InsideFacts DEF FileTypeInv
  <1>2. pfn \in Nat /\ pfn + 1 \in 1..Len(fileImg.mem)
    <2>1. Len(fileImg.mem) \in Nat
      BY FileImageFacts DEF FileTypeInv
    <2>2. p.folio >= vmemmap /\ p.folio - vmemmap < Len(fileImg.mem)
      BY DEF InRam
    <2> QED BY <1>1, <2>1, <2>2
  <1>3. Captured(pfn) \in Nat
    BY <1>2, FileImageFacts DEF Captured, FileTypeInv
  <1>4. \A k \in 1..FileSize : (k - b \in 1..c) <=> (k - 1) \div PageBytes = p.index
    BY <1>1, PlaceFacts
  <1>5. frame = [k \in 1..c |-> IF k <= Captured(pfn) THEN <<pfn, k - 1>> ELSE NoByte]
    BY DEF ReadFrame
  <1>6. cells = [k \in 1..FileSize |-> IF k - b \in DOMAIN frame THEN frame[k - b] ELSE content[k]]
    BY DEF Filled
  <1> HIDE DEF c, b, frame
  <1>7. DOMAIN frame = 1..c
    BY <1>5
  <1>8. cells = [k \in 1..FileSize |-> cells[k]]
    BY <1>6
  <1>9. ASSUME NEW k \in 1..FileSize, (k - 1) \div PageBytes = p.index
        PROVE  /\ k - b \in 1..c
               /\ cells[k] = IF k - b <= Captured(pfn) THEN <<pfn, k - b - 1>> ELSE NoByte
    <2>1. k - b \in 1..c
      BY <1>4, <1>9
    <2>2. cells[k] = frame[k - b]
      BY <1>6, <1>7, <2>1
    <2> QED BY <2>1, <2>2, <1>5
  <1>10. ASSUME NEW k \in 1..FileSize, (k - 1) \div PageBytes # p.index
         PROVE  cells[k] = content[k]
    BY <1>4, <1>6, <1>7, <1>10
  <1> QED BY <1>2, <1>3, <1>8, <1>9, <1>10 DEF Fills, b, c

LEMMA CopyPageInv == FileIInv /\ CopyPage => FileIInv'
  <1> SUFFICES ASSUME FileIInv, CopyPage PROVE FileIInv'
    OBVIOUS
  <1> USE DEF FileIInv
  <1> DEFINE n == FileSize
  <1>0. PICK g : g = page
    OBVIOUS
  <1>1. /\ filePc = "copy" /\ filePc' = filePc /\ page \in 1..Len(pages) /\ page' = page + 1
        /\ fileImg' = fileImg /\ calls' = calls /\ pages' = pages /\ vmemmap' = vmemmap
    BY DEF CopyPage, FileTypeInv
  <1>2. FileSize' = FileSize /\ Expected' = Expected /\ Inside' = Inside
    BY <1>1 DEF FileSize, Expected, Inside
  <1>3. FileBounds'
    BY <1>1 DEF FileBounds
  <1>4. /\ content = [k \in 1..n |-> content[k]]
        /\ \A k \in 1..n : Real(k) => \E p \in Range(pages) : FromPage(k, p)
        /\ \A j \in Inside : j < page => Told(j)
    BY <1>1 DEF FileCopied, Copying
  <1>5. \A j \in Inside : j \in 1..Len(pages)
    BY InsideFacts
  <1>6. ASSUME /\ stats'.copied \subseteq Nat /\ stats'.dropped \subseteq Nat
               /\ stats' = [copied |-> stats'.copied, dropped |-> stats'.dropped,
                            nbytes |-> stats'.nbytes, missing |-> stats'.missing, lost |-> stats'.lost],
               content' = [k \in 1..n |-> content'[k]],
               \A k \in 1..n : Real(k)' => \E p \in Range(pages) : FromPage(k, p)',
               \A j \in Inside : j < page => Told(j)',
               g \in Inside => Told(g)'
        PROVE  FileIInv'
    <2>1. FileTypeInv'
      BY <1>1, <1>6 DEF FileTypeInv
    <2>2. ASSUME NEW j \in Inside, j < page' PROVE Told(j)'
      <3>1. j < page \/ j = g
        BY <2>2, <1>0, <1>1, <1>5
      <3>2. CASE j < page
        BY <3>2, <1>6
      <3>3. CASE j = g
        BY <3>3, <1>6
      <3> QED BY <3>1, <3>2, <3>3
    <2>3. FileCopied'
      BY <1>1, <1>2, <1>6, <2>2 DEF FileCopied, Copying
    <2> QED BY <2>1, <2>3, <1>3
  <1>7. CASE page \notin Inside
    <2>1. content' = content /\ stats' = stats
      BY <1>7 DEF CopyPage
    <2>2. /\ \A k \in 1..n : Real(k)' = Real(k)
          /\ \A k \in 1..n : \A p \in Range(pages) : FromPage(k, p)' = FromPage(k, p)
      BY <2>1, <1>1 DEF Real, FromPage, Captured
    <2>3. \A j \in Inside : Told(j)' = Told(j)
      BY <2>1, <2>2, <1>1, <1>2 DEF Told
    <2> QED BY <1>0, <1>4, <1>6, <1>7, <2>1, <2>2, <2>3 DEF FileTypeInv
  <1>8. CASE page \in Inside
    <2>1. PICK p : p = pages[g]
      OBVIOUS
    <2>2. PICK i : i = p.index
      OBVIOUS
    <2>3. p \in Range(pages) /\ i \in Nat /\ p.folio \in Nat /\ i < Expected
      BY <1>0, <1>8, <2>1, <2>2, InsideFacts
    <2>4. CASE ~InRam(p.folio, vmemmap)
      <3>1. content' = content /\ stats' = [stats EXCEPT !.dropped = @ \cup {i}]
        BY <1>0, <1>8, <2>1, <2>2, <2>4 DEF CopyPage
      <3>2. stats' = [copied |-> stats.copied, dropped |-> stats.dropped \cup {i}, nbytes |-> stats.nbytes,
                      missing |-> stats.missing, lost |-> stats.lost]
        BY <3>1 DEF FileTypeInv
      <3>3. /\ \A k \in 1..n : Real(k)' = Real(k)
            /\ \A k \in 1..n : \A q \in Range(pages) : FromPage(k, q)' = FromPage(k, q)
        BY <3>1, <1>1 DEF Real, FromPage, Captured
      <3>4. \A j \in Inside : Told(j) => Told(j)'
        BY <3>2, <3>3, <1>1, <1>2 DEF Told
      <3>5. Told(g)'
        BY <3>2, <1>1, <2>1, <2>2 DEF Told
      <3>6. stats'.copied \subseteq Nat /\ stats'.dropped \subseteq Nat
        BY <3>2, <2>3 DEF FileTypeInv
      <3>7. content' = [k \in 1..n |-> content'[k]]
        BY <3>1, <1>4
      <3> QED BY <1>0, <1>4, <1>6, <3>2, <3>3, <3>4, <3>5, <3>6, <3>7
    <2>5. CASE InRam(p.folio, vmemmap)
      <3> DEFINE o(k) == k - i * PageBytes
                 here(k) == (k - 1) \div PageBytes = i
      <3>1. PICK pfn : pfn = p.folio - vmemmap
        OBVIOUS
      <3>2. PICK cells : cells = Filled(i, ReadFrame(pfn, Chunk(i)))
        OBVIOUS
      <3>3. /\ content' = cells
            /\ stats' = IF Copies(p, vmemmap)
                        THEN [stats EXCEPT !.copied = @ \cup {i}, !.nbytes = @ + Chunk(i)]
                        ELSE [stats EXCEPT !.dropped = @ \cup {i}]
        BY <1>0, <1>8, <2>1, <2>2, <2>5, <3>1, <3>2 DEF CopyPage
      <3>4. /\ pfn \in Nat /\ Captured(pfn) \in Nat
            /\ cells = [k \in 1..n |-> cells[k]]
            /\ \A k \in 1..n : IF here(k)
                               THEN /\ o(k) \in 1..Chunk(i)
                                    /\ cells[k] = IF o(k) <= Captured(pfn) THEN <<pfn, o(k) - 1>> ELSE NoByte
                               ELSE cells[k] = content[k]
        <4>1. g \in Inside /\ p = pages[g] /\ cells = Filled(p.index, ReadFrame(pfn, Chunk(p.index)))
          BY <1>0, <1>8, <2>1, <2>2, <3>2
        <4>2. Fills(cells, p.index, pfn)
          BY <4>1, <2>5, <3>1, FillFacts
        <4>3. Fills(cells, i, pfn)
          BY <4>2, <2>2
        <4> QED BY <4>3 DEF Fills
      <3>5. Copies(p, vmemmap) => Captured(pfn) >= Chunk(i)
        BY <2>2, <3>1 DEF Copies
      <3>6. i * PageBytes \in Nat /\ Chunk(i) \in Nat
        BY <2>3, PlaceFacts, FileConstants
      <3>7. pfn = p.folio - vmemmap /\ p.folio \in Nat /\ vmemmap \in Nat
        BY <2>3, <3>1 DEF FileTypeInv
      <3> HIDE DEF here
      <3>8. /\ \A k \in 1..n : ~here(k) => Real(k)' = Real(k)
            /\ \A k \in 1..n : ~here(k) => \A q \in Range(pages) : FromPage(k, q)' = FromPage(k, q)
        BY <3>3, <3>4, <1>1 DEF Real, FromPage, Captured
      <3>9. ASSUME NEW k \in 1..n, here(k), Real(k)' PROVE FromPage(k, p)'
        <4>1. content'[k] # NoByte /\ content'[k] = cells[k]
          BY <3>3, <3>9 DEF Real
        <4>2. o(k) <= Captured(pfn) /\ content'[k] = <<pfn, o(k) - 1>> /\ o(k) \in Nat
          BY <3>4, <3>9, <4>1
        <4>4. content'[k][1] = pfn /\ content'[k][2] = o(k) - 1
          BY <4>2
        <4>5. k = i * PageBytes + (o(k) - 1) + 1 /\ o(k) - 1 < Captured(pfn)
          BY <4>2, <3>4, <3>6
        <4> HIDE DEF o
        <4>6. k = p.index * PageBytes + content'[k][2] + 1
          BY <4>4, <4>5, <2>2
        <4>7. content'[k][2] < fileImg'.mem[content'[k][1] + 1].captured
          BY <4>4, <4>5, <1>1 DEF Captured
        <4>8. content'[k][1] = p.folio - vmemmap'
          BY <4>4, <3>7, <1>1
        <4> QED BY <4>6, <4>7, <4>8 DEF FromPage, Captured
      <3>10. ASSUME Copies(p, vmemmap), NEW k \in 1..n, here(k) PROVE Real(k)'
        <4>1. o(k) \in 1..Chunk(i) /\ o(k) <= Captured(pfn)
          BY <3>4, <3>5, <3>6, <3>10
        <4>2. content'[k] = <<pfn, o(k) - 1>>
          BY <3>3, <3>4, <3>10, <4>1
        <4>3. content'[k] # NoByte
          BY <4>2, <3>4 DEF NoByte
        <4> QED BY <4>3 DEF Real
      <3>11. stats' = IF Copies(p, vmemmap)
                     THEN [copied |-> stats.copied \cup {i}, dropped |-> stats.dropped,
                           nbytes |-> stats.nbytes + Chunk(i), missing |-> stats.missing, lost |-> stats.lost]
                     ELSE [copied |-> stats.copied, dropped |-> stats.dropped \cup {i},
                           nbytes |-> stats.nbytes, missing |-> stats.missing, lost |-> stats.lost]
        <4>1. stats = [copied |-> stats.copied, dropped |-> stats.dropped, nbytes |-> stats.nbytes,
                       missing |-> stats.missing, lost |-> stats.lost]
          BY DEF FileTypeInv
        <4>2. CASE Copies(p, vmemmap)
          <5>1. PICK x, y : x = stats.copied \cup {i} /\ y = stats.nbytes + Chunk(i)
            OBVIOUS
          <5>2. stats' = [stats EXCEPT !.copied = x, !.nbytes = y]
            BY <3>3, <4>2, <5>1
          <5>3. [stats EXCEPT !.copied = x, !.nbytes = y] =
                   [copied |-> x, dropped |-> stats.dropped, nbytes |-> y, missing |-> stats.missing,
                    lost |-> stats.lost]
            <6>1. PICK t : t = [stats EXCEPT !.copied = x]
              OBVIOUS
            <6>2. t = [copied |-> x, dropped |-> stats.dropped, nbytes |-> stats.nbytes,
                       missing |-> stats.missing, lost |-> stats.lost]
              BY <4>1, <6>1
            <6>3. [t EXCEPT !.nbytes = y] = [copied |-> x, dropped |-> stats.dropped, nbytes |-> y,
                                             missing |-> stats.missing, lost |-> stats.lost]
              BY <6>2
            <6>4. [stats EXCEPT !.copied = x, !.nbytes = y] = [t EXCEPT !.nbytes = y]
              BY <6>1
            <6> QED BY <6>3, <6>4
          <5> QED BY <4>2, <5>1, <5>2, <5>3
        <4>3. CASE ~Copies(p, vmemmap)
          <5>1. stats' = [stats EXCEPT !.dropped = stats.dropped \cup {i}]
            BY <3>3, <4>3
          <5> QED BY <4>1, <4>3, <5>1
        <4> QED BY <4>2, <4>3
      <3>12. \A k \in 1..n : Real(k)' => \E q \in Range(pages) : FromPage(k, q)'
        BY <1>4, <2>3, <3>8, <3>9
      <3>13. ASSUME NEW j \in Inside, Told(j) \/ j = g PROVE Told(j)'
        <4>1. CASE Copies(p, vmemmap)
          <5>1. stats'.dropped = stats.dropped
            BY <3>11, <4>1
          <5>2. CASE pages[j].index = i
            <6>1. \A k \in 1..n : (k - 1) \div PageBytes = pages[j].index => Real(k)'
              BY <5>2, <4>1, <3>10 DEF here
            <6> QED BY <6>1, <1>1, <1>2 DEF Told
          <5>3. CASE pages[j].index # i
            <6>1. j # g
              BY <5>3, <2>1, <2>2
            <6>2. CASE pages[j].index \in stats.dropped
              BY <6>2, <5>1, <1>1 DEF Told
            <6>3. CASE pages[j].index \notin stats.dropped
              <7>1. \A k \in 1..n : (k - 1) \div PageBytes = pages[j].index => Real(k) /\ ~here(k)
                BY <6>1, <6>3, <5>3, <3>13 DEF Told, here
              <7>2. \A k \in 1..n : (k - 1) \div PageBytes = pages[j].index => Real(k)'
                BY <7>1, <3>8
              <7> QED BY <7>2, <1>1, <1>2 DEF Told
            <6> QED BY <6>2, <6>3
          <5> QED BY <5>2, <5>3
        <4>2. CASE ~Copies(p, vmemmap)
          <5>1. stats'.dropped = stats.dropped \cup {i}
            BY <3>11, <4>2
          <5>2. CASE pages[j].index \in stats.dropped \cup {i}
            BY <5>1, <5>2, <1>1 DEF Told
          <5>3. CASE pages[j].index \notin stats.dropped \cup {i}
            <6>1. j # g
              BY <5>3, <2>1, <2>2
            <6>2. \A k \in 1..n : (k - 1) \div PageBytes = pages[j].index => Real(k) /\ ~here(k)
              BY <6>1, <5>3, <3>13 DEF Told, here
            <6>3. \A k \in 1..n : (k - 1) \div PageBytes = pages[j].index => Real(k)'
              BY <6>2, <3>8
            <6> QED BY <6>3, <1>1, <1>2 DEF Told
          <5> QED BY <5>2, <5>3
        <4> QED BY <4>1, <4>2
      <3>14. /\ stats'.copied \subseteq Nat /\ stats'.dropped \subseteq Nat
             /\ stats' = [copied |-> stats'.copied, dropped |-> stats'.dropped,
                          nbytes |-> stats'.nbytes, missing |-> stats'.missing, lost |-> stats'.lost]
        BY <3>11, <2>3 DEF FileTypeInv
      <3>15. content' = [k \in 1..n |-> content'[k]]
        BY <3>3, <3>4
      <3> QED BY <1>0, <1>4, <1>6, <1>8, <3>12, <3>13, <3>14, <3>15
    <2> QED BY <2>4, <2>5
  <1> QED BY <1>7, <1>8

\* What is only read by the copying stays.
LEMMA CopiedKeeps ==
    ASSUME FileTypeInv, FileBounds, fileImg' = fileImg, pages' = pages, content' = content, vmemmap' = vmemmap
    PROVE  /\ FileBounds' /\ FileSize' = FileSize /\ Inside' = Inside
           /\ \A k : Real(k)' = Real(k)
           /\ \A k, p : FromPage(k, p)' = FromPage(k, p)
  <1>1. FileBounds' /\ FileSize' = FileSize
    BY DEF FileBounds, FileSize
  <1>2. Inside' = Inside
    BY <1>1 DEF Inside, Expected
  <1>3. \A k : Real(k)' = Real(k)
    BY DEF Real
  <1>4. \A k, p : FromPage(k, p)' = FromPage(k, p)
    BY DEF FromPage, Captured
  <1> QED BY <1>1, <1>2, <1>3, <1>4

LEMMA CopyDoneInv == FileIInv /\ CopyDone => FileIInv'
  <1> SUFFICES ASSUME FileIInv, CopyDone PROVE FileIInv'
    OBVIOUS
  <1> USE DEF FileIInv
  <1>1. /\ filePc = "copy" /\ filePc' = "ranges" /\ page > Len(pages) /\ fileImg' = fileImg /\ calls' = calls
        /\ pages' = pages /\ vmemmap' = vmemmap /\ page' = page /\ content' = content /\ stats' = stats
    BY DEF CopyDone
  <1>2. FileTypeInv'
    BY <1>1 DEF FileTypeInv, Copying
  <1>3. /\ FileBounds' /\ FileSize' = FileSize /\ Inside' = Inside
        /\ \A k : Real(k)' = Real(k)
        /\ \A k, p : FromPage(k, p)' = FromPage(k, p)
    BY <1>1, CopiedKeeps
  <1>4. \A j \in Inside : Told(j)' = Told(j)
    BY <1>1, <1>3 DEF Told
  <1>5. FileCopied'
    BY <1>1, <1>3, <1>4 DEF FileCopied, Copying
  <1> QED BY <1>2, <1>3, <1>5

LEMMA RangesInv == FileIInv /\ Ranges => FileIInv'
  <1> SUFFICES ASSUME FileIInv, Ranges PROVE FileIInv'
    OBVIOUS
  <1> USE DEF FileIInv
  <1>1. /\ filePc = "ranges" /\ filePc' = "done" /\ fileImg' = fileImg /\ calls' = calls
        /\ pages' = pages /\ vmemmap' = vmemmap /\ page' = page /\ content' = content
        /\ stats' = [stats EXCEPT !.dropped = @ \cup Lost, !.missing = RangesOf(Missing), !.lost = RangesOf(Lost)]
    BY DEF Ranges
  <1>2. stats' = [copied |-> stats.copied, dropped |-> stats.dropped \cup Lost, nbytes |-> stats.nbytes,
                  missing |-> RangesOf(Missing), lost |-> RangesOf(Lost)]
    <2>1. PICK x, y, z : x = stats.dropped \cup Lost /\ y = RangesOf(Missing) /\ z = RangesOf(Lost)
      OBVIOUS
    <2>2. PICK t : t = [stats EXCEPT !.dropped = x]
      OBVIOUS
    <2>3. t = [copied |-> stats.copied, dropped |-> x, nbytes |-> stats.nbytes,
               missing |-> stats.missing, lost |-> stats.lost]
      BY <2>2 DEF FileTypeInv
    <2>4. PICK u : u = [t EXCEPT !.missing = y]
      OBVIOUS
    <2>5. u = [copied |-> stats.copied, dropped |-> x, nbytes |-> stats.nbytes,
               missing |-> y, lost |-> stats.lost]
      BY <2>3, <2>4
    <2>6. [u EXCEPT !.lost = z] = [copied |-> stats.copied, dropped |-> x, nbytes |-> stats.nbytes,
                                   missing |-> y, lost |-> z]
      BY <2>5
    <2>7. stats' = [stats EXCEPT !.dropped = x, !.missing = y, !.lost = z]
      BY <1>1, <2>1
    <2>8. stats' = [u EXCEPT !.lost = z]
      BY <2>2, <2>4, <2>7
    <2> QED BY <2>1, <2>6, <2>8
  <1>3. Lost \subseteq Nat
    <2>1. pages \in Seq([index : Nat, folio : Nat])
      BY DEF FileTypeInv
    <2>2. Range(pages) \subseteq [index : Nat, folio : Nat]
      BY <2>1, RangeOfPages
    <2>3. Seen \subseteq Nat
      BY <2>2 DEF Seen
    <2> QED BY <2>3 DEF Lost
  <1>4. FileTypeInv'
    BY <1>1, <1>2, <1>3 DEF FileTypeInv, Copying
  <1>5. /\ FileBounds' /\ FileSize' = FileSize /\ Inside' = Inside
        /\ \A k : Real(k)' = Real(k)
        /\ \A k, p : FromPage(k, p)' = FromPage(k, p)
    BY <1>1, CopiedKeeps
  <1>6. \A j \in Inside : Told(j) => Told(j)'
    BY <1>1, <1>2, <1>5 DEF Told
  <1>7. FileCopied'
    BY <1>1, <1>2, <1>5, <1>6 DEF FileCopied, Copying
  <1> QED BY <1>4, <1>5, <1>7

LEMMA FileNextInv == FileIInv /\ [FileNext]_fileVars => FileIInv'
  <1> SUFFICES ASSUME FileIInv, [FileNext]_fileVars PROVE FileIInv'
    OBVIOUS
  <1>1. CASE UNCHANGED fileVars
    <2>1. /\ fileImg' = fileImg /\ filePc' = filePc /\ calls' = calls /\ pages' = pages /\ vmemmap' = vmemmap
          /\ page' = page /\ content' = content /\ stats' = stats
      BY <1>1 DEF fileVars
    <2>2. FileTypeInv'
      BY <2>1 DEF FileTypeInv, FileIInv
    <2>3. /\ FileBounds' /\ FileSize' = FileSize /\ Inside' = Inside
          /\ \A k : Real(k)' = Real(k)
          /\ \A k, p : FromPage(k, p)' = FromPage(k, p)
      BY <2>1, CopiedKeeps DEF FileIInv
    <2>4. \A j \in Inside : Told(j)' = Told(j)
      BY <2>1, <2>3 DEF Told
    <2>5. FileCopied'
      BY <2>1, <2>3, <2>4 DEF FileCopied, FileIInv
    <2> QED BY <2>2, <2>3, <2>5 DEF FileIInv
  <1>2. CASE FileNext
    BY <1>2, CollectInv, WalkXarrayInv, ChooseBaseInv, CopyPageInv, CopyDoneInv, RangesInv DEF FileNext
  <1> QED BY <1>1, <1>2

LEMMA FileInvSuffices == FileIInv => PagesHonest
  <1> SUFFICES ASSUME FileIInv, filePc = "done" PROVE PagesHonest
    BY DEF PagesHonest
  <1> USE DEF FileIInv
  <1>1. /\ \A k \in 1..FileSize : Real(k) => \E p \in Range(pages) : FromPage(k, p)
        /\ \A j \in Inside : j < page => Told(j)
        /\ FileSize > 0 => page > Len(pages) \/ stats.copied = {}
    BY DEF FileCopied, Copying
  <1>2. ASSUME NEW k \in 1..FileSize, ~Real(k)
        PROVE  (k - 1) \div PageBytes \in Missing \cup Lost \cup (stats.copied \cap stats.dropped)
    <2> DEFINE i == (k - 1) \div PageBytes
    <2>1. i \in 0..(Expected - 1) /\ FileSize > 0
      BY PlaceFacts, FileSizeFacts
    <2>2. CASE i \notin Seen
      BY <2>1, <2>2 DEF Missing
    <2>3. CASE i \in Seen /\ i \notin stats.copied
      BY <2>3 DEF Lost
    <2>4. CASE i \in Seen /\ i \in stats.copied
      <3>1. PICK p \in Range(pages) : p.index = i
        BY <2>4 DEF Seen
      <3>2. PICK j \in DOMAIN pages : pages[j] = p
        BY <3>1 DEF Range
      <3>3. pages \in Seq([index : Nat, folio : Nat]) /\ page \in Nat
        BY DEF FileTypeInv
      <3>4. j \in 1..Len(pages)
        BY <3>2, <3>3
      <3>5. i < Expected
        BY <2>1, PlaceFacts
      <3>6. j \in Inside
        BY <3>1, <3>2, <3>4, <3>5 DEF Inside
      <3>7. page > Len(pages)
        BY <1>1, <2>1, <2>4
      <3>8. Told(j)
        BY <1>1, <3>3, <3>4, <3>6, <3>7
      <3>9. i \in stats.dropped
        BY <1>2, <3>1, <3>2, <3>8 DEF Told
      <3> QED BY <3>9, <2>4
    <2> QED BY <2>2, <2>3, <2>4
  <1>3. ASSUME Describe = "checked", NEW k \in 1..FileSize PROVE Real(k)
    <2>1. Missing = {} /\ Lost = {} /\ stats.dropped = {}
      BY <1>3 DEF Describe
    <2> QED BY <1>2, <2>1
  <1> QED BY <1>1, <1>2, <1>3 DEF PagesHonest

(* However torn an xarray is, whatever the dump holds for the base of      *)
(* vmemmap and however little was captured: a recovered file does not pass *)
(* a synthetic byte off as one that was read, nor a byte of another page   *)
(* as one of the file, and what was not read is said to be missing or      *)
(* dropped.                                                                *)
THEOREM PagesAreHonest == FileSpec => []PagesHonest
  BY FileInitInv, FileNextInv, FileInvSuffices, PTL DEF FileSpec
=============================================================================
