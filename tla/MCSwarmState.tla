---------------------------- MODULE MCSwarmState ----------------------------
(* SwarmState on small instances; sessions are interchangeable.            *)
EXTENDS SwarmState, TLC
SessionSymmetry == Permutations(Sessions)
=============================================================================
