--------------------------- MODULE UserPageCache ---------------------------
(***************************************************************************)
(* The LRU of decoded user pages behind every proc.dmp                     *)
(* (src/arch/x86_64/page_cache.cpp): read() walks a range page by page,    *)
(* fetch() looks a page up under the lock, decodes it without the lock,    *)
(* and looks again before it inserts and evicts.                           *)
(*                                                                         *)
(* Every ElfCoreStream owns one cache and uses it with one page table, for *)
(* which key() is injective: pages stand for their keys.  The dump never   *)
(* changes, so decoding page p always gives Mem[p].  Bytes are counted in  *)
(* units of sizeof(Page), reads in whole pages.                            *)
(***************************************************************************)
EXTENDS Integers, Sequences, FiniteSets, LruList

CONSTANTS
    NPages,     \* the virtual pages are 1..NPages
    Mem,        \* what decoding each page gives
    Unmapped,   \* the sentinel page, mapped = false
    Readers,    \* dispatcher threads
    MaxPages    \* max_bytes_

Pages == 1..NPages
Contents == Range(Mem) \cup {Unmapped}

ASSUME UserPageCacheAssumption ==
    /\ NPages \in Nat
    /\ MaxPages \in Nat \ {0}      \* 16 MiB in ElfCoreStream
    /\ DOMAIN Mem = Pages

VARIABLES
    lru,      \* lru_, most recent first
    map,      \* map_: the cached pages with their contents
    bytes,    \* cur_bytes_
    pc,       \* what each reader is doing
    cur,      \* the page it is fetching, or fetches next
    last,     \* the last page of its request
    out,      \* the contents it has copied to the caller
    total,    \* the count it will return
    recency   \* all pages ever fetched, most recent first (history)

cache == <<lru, map, bytes>>
vars == <<lru, map, bytes, pc, cur, last, out, total, recency>>

TypeOK ==
    /\ lru \in Seq(Pages)
    /\ DOMAIN map \subseteq Pages
    /\ bytes \in Nat
    /\ pc \in [Readers -> {"idle", "fetch", "decode", "insert"}]
    /\ cur \in [Readers -> 0..(NPages + 1)]
    /\ last \in [Readers -> 0..NPages]
    /\ \A r \in Readers : pc[r] # "idle" => cur[r] \in 1..last[r]
    /\ out \in [Readers -> Seq(Contents)]
    /\ total \in [Readers -> Nat]
    /\ recency \in Seq(Pages)

Init ==
    /\ lru = <<>>
    /\ map = <<>>
    /\ bytes = 0
    /\ pc = [r \in Readers |-> "idle"]
    /\ cur = [r \in Readers |-> 0]
    /\ last = [r \in Readers |-> 0]
    /\ out = [r \in Readers |-> <<>>]
    /\ total = [r \in Readers |-> 0]
    /\ recency = <<>>

---------------------------------------------------------------------------
\* Mutant of Promote: a hit leaves the list as it is (first in, first out).
Promote_Fifo(p) ==
    /\ recency' = Used(recency, p)
    /\ UNCHANGED cache

\* lru_.splice(lru_.begin(), lru_, lru_it)
Promote(p) ==
    /\ lru' = ToFront(lru, PositionOf(lru, p))
    /\ recency' = Used(recency, p)
    /\ UNCHANGED <<map, bytes>>

\* fetch() returned content to read(): it is copied unless the page is
\* unmapped (the buffer was zeroed first), and the loop goes on.
Deliver(r, content) ==
    /\ out' = [out EXCEPT ![r] = Append(@, content)]
    /\ total' = [total EXCEPT ![r] = IF content = Unmapped THEN @ ELSE @ + 1]
    /\ pc' = [pc EXCEPT ![r] = IF cur[r] = last[r] THEN "idle" ELSE "fetch"]
    /\ cur' = [cur EXCEPT ![r] = @ + 1]
    /\ UNCHANGED last

\* read() of the pages from first to final begins.
Read(r, first, final) ==
    /\ pc[r] = "idle"
    /\ first <= final
    /\ pc' = [pc EXCEPT ![r] = "fetch"]
    /\ cur' = [cur EXCEPT ![r] = first]
    /\ last' = [last EXCEPT ![r] = final]
    /\ out' = [out EXCEPT ![r] = <<>>]
    /\ total' = [total EXCEPT ![r] = 0]
    /\ UNCHANGED <<cache, recency>>

\* fetch(): under the lock, the page is found and promoted.
Hit(r) ==
    /\ pc[r] = "fetch"
    /\ cur[r] \in DOMAIN map
    /\ Promote(cur[r])
    /\ Deliver(r, map[cur[r]])

\* It is not found; the lock is released.
Miss(r) ==
    /\ pc[r] = "fetch"
    /\ cur[r] \notin DOMAIN map
    /\ pc' = [pc EXCEPT ![r] = "decode"]
    /\ UNCHANGED <<cache, cur, last, out, total, recency>>

\* translate() and read() without the lock; Mem[cur[r]] is in the thread's hands.
Decode(r) ==
    /\ pc[r] = "decode"
    /\ pc' = [pc EXCEPT ![r] = "insert"]
    /\ UNCHANGED <<cache, cur, last, out, total, recency>>

\* The physical layer throws; the exception leaves fetch() and read().
DecodeThrows(r) ==
    /\ pc[r] = "decode"
    /\ pc' = [pc EXCEPT ![r] = "idle"]
    /\ UNCHANGED <<cache, cur, last, out, total, recency>>

\* Locked again: another thread inserted the page while this one decoded it.
InsertRaced(r) ==
    /\ pc[r] = "insert"
    /\ cur[r] \in DOMAIN map
    /\ Promote(cur[r])
    /\ Deliver(r, map[cur[r]])

\* The number of pages evict_locked() takes off a list of length len: it goes
\* on while over budget and the list is not empty.
Excess(len, b) ==
    CHOOSE n \in 0..len :
        /\ b - n <= MaxPages \/ n = len
        /\ \A k \in 0..(n - 1) : b - k > MaxPages

Victims(list, n) == {list[i] : i \in (Len(list) - n + 1)..Len(list)}

\* evict_locked(): the pages at the back go.
EvictLocked(list, m, b) ==
    LET n == Excess(Len(list), b)
    IN  /\ lru' = SubSeq(list, 1, Len(list) - n)
        /\ map' = [p \in DOMAIN m \ Victims(list, n) |-> m[p]]
        /\ bytes' = b - n

\* Mutant of InsertNew: the second look-up is missing.
InsertNew_NoRecheck(r) ==
    LET p == cur[r] IN
    /\ pc[r] = "insert"
    /\ EvictLocked(<<p>> \o lru,
                   [q \in DOMAIN map \cup {p} |-> IF q = p THEN Mem[p] ELSE map[q]],
                   bytes + 1)
    /\ recency' = Used(recency, p)
    /\ Deliver(r, Mem[p])

\* Mutant of InsertNew: the neighbouring page is stored under this key.
InsertNew_WrongPage(r) ==
    LET p == cur[r]
        q == IF p < NPages THEN p + 1 ELSE p
    IN
    /\ pc[r] = "insert"
    /\ p \notin DOMAIN map
    /\ EvictLocked(<<p>> \o lru,
                   [x \in DOMAIN map \cup {p} |-> IF x = p THEN Mem[q] ELSE map[x]],
                   bytes + 1)
    /\ recency' = Used(recency, p)
    /\ Deliver(r, Mem[q])

\* It is still missing: insert at the front, then evict.
InsertNew(r) ==
    LET p == cur[r] IN
    /\ pc[r] = "insert"
    /\ p \notin DOMAIN map
    /\ EvictLocked(<<p>> \o lru,
                   [q \in DOMAIN map \cup {p} |-> IF q = p THEN Mem[p] ELSE map[q]],
                   bytes + 1)
    /\ recency' = Used(recency, p)
    /\ Deliver(r, Mem[p])

---------------------------------------------------------------------------
Step(r) ==
    \/ Hit(r)
    \/ Miss(r)
    \/ Decode(r)
    \/ DecodeThrows(r)
    \/ InsertRaced(r)
    \/ InsertNew(r)

Next ==
    \E r \in Readers :
        \/ \E first, final \in Pages : Read(r, first, final)
        \/ Step(r)

Spec == Init /\ [][Next]_vars

---------------------------------------------------------------------------
(* Properties *)

\* The list and the map describe the same set of pages, each once, and
\* cur_bytes_ is their number: no interleaving of two misses of one page
\* leaves an entry with two list nodes or a list node with no entry.
Consistent ==
    /\ NoDup(lru)
    /\ Range(lru) = DOMAIN map
    /\ bytes = Len(lru)

\* The budget is kept whenever the lock is free, and what fetch() has just
\* inserted survives the eviction that follows: fetch() returns through the
\* iterator of that entry.
WithinBudget ==
    /\ bytes <= MaxPages
    /\ recency # <<>> => lru # <<>> /\ lru[1] = recency[1]

\* Least recently used: the cache holds the most recently fetched pages, in
\* order, and as many of them as fit.
HoldsMostRecent ==
    /\ Len(lru) <= Len(recency)
    /\ \A i \in 1..Len(lru) : lru[i] = recency[i]
    /\ Len(lru) < MaxPages => Len(lru) = Len(recency)

\* What a reader has been given are the bytes of the pages it asked for, in
\* order, whoever cached them and whatever was evicted meanwhile.
ReadsMemory ==
    \A r \in Readers :
        \A i \in 1..Len(out[r]) : out[r][i] = Mem[cur[r] - Len(out[r]) + i - 1]
===========================================================================
