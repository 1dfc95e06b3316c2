---------------------------- MODULE MCHttpWrite ----------------------------
(***************************************************************************)
(* Constants of the model-checking runs of HttpWrite.                      *)
(***************************************************************************)
EXTENDS HttpWrite
=============================================================================
