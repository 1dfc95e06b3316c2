---------------------------- MODULE MCBlockQueue ----------------------------
(***************************************************************************)
(* Constants of the model-checking run of BlockQueue.                      *)
(***************************************************************************)
EXTENDS BlockQueue

CONSTANTS t1, t2, t3, x1, x2

ThreeThreads == {t1, t2, t3}
TwoItems     == {x1, x2}
=============================================================================
