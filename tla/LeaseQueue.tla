------------------------------ MODULE LeaseQueue ------------------------------
(***************************************************************************)
(* What the task queue promises to its clients (docs/architecture.md,      *)
(* internal/queue/store.go): each task has one life cycle, and every step  *)
(* of the queue, seen as one atomic change of the committed tasks, moves   *)
(* tasks only along it.                                                    *)
(*                                                                         *)
(*   pending -> running -> completed | failed                              *)
(*   running -> pending            (the lease ran out, attempts are left)  *)
(*   running -> failed             (the lease ran out at the last attempt) *)
(*   pending -> failed             (a dependency failed)                   *)
(*                                                                         *)
(* There are no statements, sessions, locks or snapshots here: TaskStore   *)
(* has them, and implements this specification.                            *)
(***************************************************************************)
EXTENDS Integers

CONSTANTS Task, Worker, NoWorker

VARIABLES
    task,   \* the committed tasks
    clock   \* the time that leases are measured in

Fresh == [status |-> "absent", deps |-> {}, max |-> 0, worker |-> NoWorker,
          token |-> 0, until |-> 0, attempts |-> 0]

Init == /\ task = [t \in Task |-> Fresh]
        /\ clock = 0

LeaseOver(t) == task[t].status = "running" /\ task[t].until <= clock

Released(t, status) ==
    task'[t] = [task[t] EXCEPT !.status = status, !.worker = NoWorker,
                               !.token = 0, !.until = 0]

\* A new lease replaces whatever token the task had by one no task carries.
Leased(t) ==
    /\ task'[t].worker \in Worker
    /\ \A u \in Task : task[u].token # task'[t].token
    /\ task'[t] = [task[t] EXCEPT !.status = "running",
                                  !.worker = task'[t].worker,
                                  !.token = task'[t].token,
                                  !.until = task'[t].until,
                                  !.attempts = @ + 1]

Grant(t) ==
    /\ task[t].status = "pending"
    /\ \A d \in task[t].deps : task[d].status = "completed"
    /\ task[t].attempts < task[t].max
    /\ Leased(t)

\* The lease runs out and the task is leased again in one step.
TakeOver(t) ==
    /\ LeaseOver(t)
    /\ task[t].attempts < task[t].max
    /\ Leased(t)

Requeue(t) ==
    /\ LeaseOver(t)
    /\ task[t].attempts < task[t].max
    /\ Released(t, "pending")

Exhaust(t) ==
    /\ LeaseOver(t)
    /\ task[t].attempts >= task[t].max
    /\ Released(t, "failed")

Cascade(t) ==
    /\ task[t].status = "pending"
    /\ \E d \in task[t].deps : task'[d].status = "failed"
    /\ task'[t] = [task[t] EXCEPT !.status = "failed"]

-----------------------------------------------------------------------------
OnlyChanges(t) ==
    /\ task' = [task EXCEPT ![t] = task'[t]]
    /\ clock' = clock

Submit(t) ==
    /\ task[t].status = "absent"
    /\ task'[t].status = "pending"
    /\ task'[t] = [Fresh EXCEPT !.status = "pending", !.deps = task'[t].deps,
                                !.max = task'[t].max]
    /\ \A d \in task'[t].deps : d \in Task /\ task[d].status # "absent"
    /\ OnlyChanges(t)

\* The holder extends its lease, never shortens it.
Renew(t) ==
    /\ task[t].status = "running"
    /\ task'[t].until >= task[t].until
    /\ task'[t] = [task[t] EXCEPT !.until = task'[t].until]
    /\ OnlyChanges(t)

\* The holder ends its lease with a result.
Finish(t) ==
    /\ task[t].status = "running"
    /\ \E status \in {"completed", "failed"} :
          task'[t] = [task[t] EXCEPT !.status = status, !.token = 0, !.until = 0]
    /\ OnlyChanges(t)

\* A claim: housekeeping on any number of tasks, and at most one new lease.
Claim ==
    /\ task' = [t \in Task |-> task'[t]]
    /\ \A t \in Task : \/ task'[t] = task[t]
                       \/ Grant(t)
                       \/ TakeOver(t)
                       \/ Requeue(t)
                       \/ Exhaust(t)
                       \/ Cascade(t)
    /\ \A t, u \in Task : (/\ task'[t].token \notin {0, task[t].token}
                           /\ task'[u].token \notin {0, task[u].token}) => t = u
    /\ clock' = clock

Tick == clock' = clock + 1 /\ task' = task

Next == Claim \/ Tick \/ \E t \in Task : Submit(t) \/ Renew(t) \/ Finish(t)

Spec == Init /\ [][Next]_<<task, clock>>

=============================================================================
