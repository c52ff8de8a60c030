------------------------------- MODULE MCNest -------------------------------
(***************************************************************************)
(* Two threads edit a nest with a spore r, a child a in it that has an OUT *)
(* and an IN pin, and an IN and an OUT pin of r itself; a second spore q   *)
(* competes with r for the child.  Then any one of the spores is cloned;   *)
(* the IN pin of r is one whose clone is null.                             *)
(***************************************************************************)
EXTENDS NestClone, TLC

CONSTANTS r, q, a, ai, ao, ri, ro, t1, t2, x1, x2, x3

Spores == {r, q, a}
InPins == {ai, ri}
OutPins == {ao, ro}
Paths == {x1, x2, x3}
Threads == {t1, t2}
TypedPins == {ri}
Tree == (r :> <<a, ri, ro>>) @@ (q :> <<>>) @@ (a :> <<ao, ai>>)
Symmetry == Permutations(Paths) \cup Permutations(Threads)
=============================================================================
