----------------------------- MODULE MCNotifier -----------------------------
(***************************************************************************)
(* The instance of Notifier for TLC.  Eight epochs: the counter starts     *)
(* five steps before its overflow and passes it.  With seven a thread may  *)
(* be lapped while it is between two accesses (NoFullCircle).              *)
(***************************************************************************)
EXTENDS Notifier, TLC

CONSTANTS w1, w2, c1, c2

Waiters == {w1, w2}
Callers == {c1, c2}

Symmetry == Permutations(Waiters) \cup Permutations(Callers)
=============================================================================
