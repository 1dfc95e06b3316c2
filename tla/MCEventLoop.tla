---------------------------- MODULE MCEventLoop ----------------------------
(***************************************************************************)
(* Constants of the model-checking runs of EventLoop.                      *)
(***************************************************************************)
EXTENDS EventLoop, TLC

CONSTANTS f1, f2, w1, w2

OneFd  == {f1}
TwoFds == {f1, f2}
TwoWorkers == {w1, w2}

\* Slots and workers are interchangeable in the run of one safety property.
Interchangeable == Permutations(TwoFds) \cup Permutations(TwoWorkers)
=============================================================================
