------------------------- MODULE MCCollectiveMemory -------------------------
(* CollectiveMemory on a small instance; sessions and agents are            *)
(* interchangeable.                                                         *)
EXTENDS CollectiveMemory, TLC
CONSTANTS s1, s2, a1, a2, k1

OneAlias == [n \in {"finding"} |-> "findings"]
Interchangeable == Permutations(Sessions) \cup Permutations(Agents)
=============================================================================
