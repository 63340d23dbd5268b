----------------------------- MODULE MCConsole -----------------------------
(* The console at the coordinator, on a small instance; the connections are *)
(* interchangeable.                                                         *)
EXTENDS Console, TLC

Interchangeable == Permutations(Conns)
=============================================================================
