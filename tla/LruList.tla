------------------------------ MODULE LruList ------------------------------
(* A std::list in order of use, with iterators into it, as the two caches  *)
(* keep one: UserPageCache and FrameCache.                                 *)
EXTENDS Naturals, Sequences, Functions

NoDup(s) == \A i, j \in 1..Len(s) : s[i] = s[j] => i = j

\* std::list::splice to the front of the element at position i.
ToFront(s, i) ==
    [j \in 1..Len(s) |-> IF j = 1 THEN s[i] ELSE IF j <= i THEN s[j - 1] ELSE s[j]]

PositionOf(s, p) == CHOOSE i \in 1..Len(s) : s[i] = p

\* An element has been used: to the front, or in at the front.
Used(s, p) == IF p \in Range(s) THEN ToFront(s, PositionOf(s, p)) ELSE <<p>> \o s
=============================================================================
