----------------------------- MODULE MCTaskPool -----------------------------
(***************************************************************************)
(* The instance of TaskPool for TLC: two workers, three closures, and two  *)
(* joins, the second one that of the destructor.                           *)
(***************************************************************************)
EXTENDS TaskPool

CONSTANTS w1, w2, k1, k2, k3

Workers == {w1, w2}
Tasks == {k1, k2, k3}
=============================================================================
