------------------------------ MODULE MCLogFile ------------------------------
(***************************************************************************)
(* Constants of the model-checking run of LogFile.                         *)
(***************************************************************************)
EXTENDS LogFile

CONSTANTS w1, w2

TwoWriters == {w1, w2}
=============================================================================
