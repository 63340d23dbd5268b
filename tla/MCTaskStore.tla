----------------------------- MODULE MCTaskStore -----------------------------
(* Small instances of TaskStore for TLC. *)
EXTENDS TaskStoreInvariant, TLC

CONSTANTS t1, t2, k1, k2, demo, other

Req(key, body, kind, deps, max) ==
    [key |-> key, body |-> body, kind |-> kind, deps |-> deps, max |-> max]

\* One task, tried at most twice.
OneTask == {Req(k1, 1, demo, {}, 2)}

\* A parent and a dependent of whatever task drew id t1.
ParentChild == {Req(k1, 1, demo, {}, 2), Req(k2, 1, other, {t1}, 1)}

\* The same two, tried once.
TriedOnce == {[r EXCEPT !.max = 1] : r \in ParentChild}

\* Every task tried once; a second body competes for the parent's key.
SharedKey == TriedOnce \cup {Req(k1, 2, demo, {}, 1)}

\* A task tried twice and one beside it that is tried once: independent of it,
\* so that both may be due together, or its dependent.
SideBySide == {Req(k1, 1, demo, {}, 2), Req(k2, 1, other, {}, 1), Req(k2, 2, other, {t1}, 1)}

\* The requests of both instances of MCTaskLiveness.
EitherBook == SideBySide \cup TriedOnce

Symmetric == Permutations(Worker) \cup Permutations(Session)
Sessions == Permutations(Session)

=============================================================================
