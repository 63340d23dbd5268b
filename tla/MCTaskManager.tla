---------------------------- MODULE MCTaskManager ----------------------------
(* Small instances of TaskManager for TLC. *)
EXTENDS TaskManager, TLC

OneDep == {{}, {1}}
TwoDeps == {{}, {1, 2}}
Interchangeable == Permutations(Agent) \cup Permutations(Process)

=============================================================================
