---------------------------- MODULE MCSyncDeque -----------------------------
(***************************************************************************)
(* The instance of SyncDeque for TLC: two threads on each side, a deque    *)
(* without limit (the only one the program builds) and one with limit 2.   *)
(***************************************************************************)
EXTENDS SyncDeque

CONSTANTS p1, p2, c1, c2, x1, x2, x3

Producers == {p1, p2}
Consumers == {c1, c2}
Items == {x1, x2, x3}
LimitOrNot == {0, 2}
=============================================================================
