--------------------------- MODULE MCTaskLiveness ---------------------------
(***************************************************************************)
(* Liveness of TaskStore on two small instances, of which Init chooses     *)
(* one.  The first has one session at a time, but everything that can      *)
(* delay a task's end: a retry, a dependent, two rows that are due when a  *)
(* recovery takes one, an aborted transaction or a lost reply.  The second *)
(* has two sessions that overlap, on a parent and its dependent.           *)
(***************************************************************************)
EXTENDS MCTaskStore

VARIABLE instance

Instances == {[crew |-> {CHOOSE s \in Session : TRUE}, book |-> SideBySide, faults |-> 1],
              [crew |-> Session, book |-> TriedOnce, faults |-> 0]}

\* Calls are made by the instance's sessions, for its requests.
Within == /\ \A s \in Session : pc[s] = "idle" /\ pc'[s] # "idle" =>
                /\ s \in instance.crew
                /\ job'[s].op = "create" => job'[s].req \in instance.book
          /\ faults' <= instance.faults
          \* Ids are drawn in one order: nothing else tells them apart.
          /\ work[t2].status = "absent" /\ work[t1].status = "absent"
                => work'[t2].status = "absent"

LiveSpec == /\ Init /\ instance \in Instances
            /\ [][Next /\ Within /\ UNCHANGED instance]_<<vars, instance>>
            /\ Fairness

=============================================================================
