------------------------ MODULE MCWorkStealingQueue -------------------------
(***************************************************************************)
(* The instance of WorkStealingQueue for TLC: four items go through an     *)
(* array of two slots, so that it is replaced and its slots are reused,    *)
(* with two thieves.                                                       *)
(***************************************************************************)
EXTENDS WorkStealingQueue

CONSTANTS th1, th2

Thieves == {th1, th2}
=============================================================================
