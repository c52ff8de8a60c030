---------------------- MODULE MCWorkStealingThreadpool ----------------------
(***************************************************************************)
(* The instance of WorkStealingThreadpool for TLC.                         *)
(***************************************************************************)
EXTENDS WorkStealingThreadpool

CONSTANTS w1, w2, t1, t2, t3

Workers == {w1, w2}
Tasks == {t1, t2, t3}
=============================================================================
