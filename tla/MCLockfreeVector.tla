-------------------------- MODULE MCLockfreeVector --------------------------
(***************************************************************************)
(* Two threads push data while one edits: a reader recycles late while the *)
(* other reader holds what the writer removes.                             *)
(***************************************************************************)
EXTENDS LockfreeVector, TLC

CONSTANTS w, r1, r2, x1, x2, x3

Items == {x1, x2, x3}
Writers == {w}
Readers == {r1, r2}
Symmetry == Permutations(Items) \cup Permutations(Readers)
=============================================================================
