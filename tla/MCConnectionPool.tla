-------------------------- MODULE MCConnectionPool --------------------------
(***************************************************************************)
(* Constants of the model-checking runs of ConnectionPool.                 *)
(***************************************************************************)
EXTENDS ConnectionPool, TLC

CONSTANTS t1, t2, t3, c1, c2, c3

ThreeThreads == {t1, t2, t3}
ThreeConns   == {c1, c2, c3}

Interchangeable == Permutations(ThreeThreads) \cup Permutations(ThreeConns)
=============================================================================
