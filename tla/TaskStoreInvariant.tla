-------------------------- MODULE TaskStoreInvariant --------------------------
(***************************************************************************)
(* The inductive invariant of TaskStore: what a session's program counter  *)
(* and its row locks say about the rows, and how far a statement's         *)
(* snapshot may lag behind the committed rows.                             *)
(***************************************************************************)
EXTENDS TaskStore

Claiming == {"recovering", "propagate", "propagating", "claim", "claiming"}
LeaseOp == {"heartbeat"} \cup Terminal

\* A session's request matches the statement it has reached.
JobOK(s) ==
    /\ pc[s] \in {"insert", "lookup"} =>
          /\ job[s].op = "create" /\ job[s].req \in Request
          /\ \A d \in job[s].req.deps : row[d].status # "absent"
    /\ pc[s] \in Claiming =>
          job[s].op = "claim" /\ job[s].worker \in Worker /\ job[s].task = NoTask
    /\ pc[s] \in {"lock", "update"} =>
          job[s].op \in LeaseOp /\ HeldLease(job[s]) \in Lease
    /\ pc[s] = "update" => lock[job[s].task] = s
    /\ pc[s] = "commit" =>
          \/ job[s].op = "create" /\ job[s].req \in Request /\ job[s].task \in Task
          \/ job[s].op = "claim" /\ job[s].worker \in Worker
          \/ job[s].op \in LeaseOp /\ HeldLease(job[s]) \in Lease

\* A row version is whole, and within its attempts.
RowOK(r) ==
    /\ r.status = "absent" => r = AbsentRow
    /\ r.status # "absent" => r.req \in Request /\ r.attempts <= r.req.max
    /\ r.status = "pending" => r.attempts < r.req.max
    /\ r.status = "running" => r.worker \in Worker

\* The newest version differs from the committed one only under a lock; it is
\* the same task; a terminal row has no newer version.
VersionOK(t) ==
    /\ lock[t] = NoSession => work[t] = row[t] /\ wevents[t] = events[t]
    /\ row[t].status \in Terminal => work[t] = row[t] /\ wevents[t] = events[t]
    /\ row[t].status # "absent" => /\ work[t].status # "absent"
                                   /\ work[t].req = row[t].req

\* What it means that session s has locked row t.
LockOK(s, t) ==
    lock[t] = s =>
        /\ pc[s] \in Claiming \cup {"update", "commit"}
        /\ pc[s] \in Claiming => work[t].status \in {"pending", "failed"}
        /\ pc[s] = "update" => /\ t = job[s].task
                               /\ work[t] = row[t] /\ wevents[t] = events[t]
        /\ job[s].op = "create" => /\ row[t].status = "absent"
                                   /\ work[t].status = "pending"
        /\ job[s].op = "claim" =>
              /\ row[t].status \in {"pending", "running"}
              /\ row[t].status = "running" => row[t].until <= clock
              /\ work[t].status # "completed"
        /\ pc[s] = "commit" /\ job[s].op \in LeaseOp =>
              /\ t = job[s].task
              /\ row[t].status = "running"
              /\ row[t].token = job[s].token /\ row[t].worker = job[s].worker
              /\ work[t].attempts = row[t].attempts
              /\ work[t].worker = row[t].worker
              /\ work[t].status = IF job[s].op = "heartbeat" THEN "running"
                                                             ELSE job[s].op

\* A version's dependencies exist, and are completed once it has run.
DepsOK(r) ==
    /\ r.status # "absent" => \A d \in r.req.deps : row[d].status # "absent"
    /\ r.status \in {"running", "completed"} =>
          \A d \in r.req.deps : row[d].status = "completed"

\* A snapshot may be stale, but what it shows exists, with its dependencies,
\* and what it shows as completed is completed.
SnapOK(s, t) ==
    /\ snap[s][t].status # "absent" =>
          /\ row[t].status # "absent" /\ row[t].req = snap[s][t].req
          /\ \A d \in snap[s][t].req.deps : snap[s][d].status # "absent"
    /\ snap[s][t].status = "completed" => row[t].status = "completed"

\* Every session at every statement respects the protocol of row locks,
\* snapshots and dependencies of store.go:169-325.
SessionInv ==
    /\ TypeOK
    /\ \A s \in Session : JobOK(s)
    /\ \A t \in Task : RowOK(row[t]) /\ RowOK(work[t]) /\ VersionOK(t)
    /\ \A s \in Session, t \in Task : LockOK(s, t) /\ SnapOK(s, t)
    /\ \A t \in Task : DepsOK(row[t]) /\ DepsOK(work[t])

-----------------------------------------------------------------------------
(* What the tables say of the order of the inserts, of the request keys and *)
(* of the histories. Each rests on SessionInv.                              *)

\* A version's insertion number has been drawn, and those of its dependencies
\* were drawn before.
AgeOK(r) == r.status # "absent" =>
               /\ r.created < nextCreated
               /\ \A d \in r.req.deps : row[d].created < r.created

\* Insertion numbers are the order in which tasks were inserted, and no later
\* version of a task changes its own.
AgeInv ==
    \A t \in Task : /\ AgeOK(row[t]) /\ AgeOK(work[t])
                    /\ row[t].status # "absent" => work[t].created = row[t].created

\* A request key names one task, committed or being inserted; a create about
\* to commit names the task of its request, and so does every answer.
KeyInv ==
    /\ \A t, u \in Task :
          (/\ work[t].status # "absent" /\ work[u].status # "absent"
           /\ work[t].req.key = work[u].req.key) => t = u
    /\ \A s \in Session : pc[s] = "commit" /\ job[s].op = "create" =>
          LET t == job[s].task IN
          /\ work[t].status # "absent" /\ work[t].req = job[s].req
          /\ row[t].status = "absent" => lock[t] = s
    /\ \A a \in replies : row[a.task].status # "absent" /\ row[a.task].req = a.req

\* h is the history of a task whose version is r.
HistoryOK(r, h) ==
    /\ r.status = "absent" => h = << >>
    /\ r.status # "absent" =>
          /\ Len(h) > 0 /\ LegalHistory(h)
          /\ h[Len(h)].action \in Outcome(r)
          /\ Cardinality(Claims(h)) = r.attempts
          /\ r.attempts = 0 => h[Len(h)].action # "lease_expired"
    /\ r.status = "running" => h[Len(h)] = Ev("claimed", r.worker) /\ r.attempts > 0

\* A task that was ever claimed has completed dependencies.
RanOK(r) == r.attempts > 0 => \A d \in r.req.deps : row[d].status = "completed"

\* Both versions of a task agree with their histories. A parent that a claim
\* saw failed has failed, or the claim itself fails it.
HistoryInv ==
    /\ \A t \in Task : /\ HistoryOK(row[t], events[t]) /\ HistoryOK(work[t], wevents[t])
                       /\ RanOK(row[t]) /\ RanOK(work[t])
    /\ \A s \in Session, t \in Task : snap[s][t].status = "failed" =>
          row[t].status = "failed" \/ (lock[t] = s /\ work[t].status = "failed")

-----------------------------------------------------------------------------
(* What a transaction will have changed when it commits.                    *)

\* The lease of a version has a token that was drawn, and ends in time.
LeaseOK(r) == /\ r.token < nextToken
              /\ r.until <= clock + LeaseDuration
              /\ r.status # "running" => r.token = 0

\* Session s has requeued or exhausted t, whose lease ran out.
Reaped(s, t) ==
    /\ row[t].status = "running" /\ t # job[s].task
    /\ work[t] = Recovered(row[t])

\* Session s has failed t, which waits for a task that failed, or that s fails.
Cascaded(s, t) ==
    /\ row[t].status = "pending" /\ t # job[s].task
    /\ work[t] = DependencyFailed(row[t])
    /\ \E d \in row[t].req.deps : \/ row[d].status = "failed"
                                  \/ lock[d] = s /\ work[d].status = "failed"

\* Session s has leased t, which was pending or had lost its lease.
Granted(s, t) ==
    /\ t = job[s].task
    /\ row[t].attempts < row[t].req.max
    /\ work[t].token \notin {0, row[t].token}
    /\ work[t] = [row[t] EXCEPT !.status = "running", !.worker = work[t].worker,
                                !.token = work[t].token, !.until = work[t].until,
                                !.attempts = @ + 1]

\* The change of t that session s carries.
ChangeOK(s, t) ==
    /\ job[s].op = "create" =>
          /\ t = job[s].task
          /\ work[t] = [AbsentRow EXCEPT !.status = "pending", !.req = work[t].req,
                                         !.created = work[t].created]
    /\ job[s].op = "claim" => Reaped(s, t) \/ Cascaded(s, t) \/ Granted(s, t)
    /\ pc[s] = "commit" /\ job[s].op = "heartbeat" =>
          /\ work[t] = [row[t] EXCEPT !.until = work[t].until]
          /\ work[t].until >= row[t].until
    /\ pc[s] = "commit" /\ job[s].op \in Terminal => work[t] = Finished(row[t], job[s].op)

\* No two tasks have had the same token, and every locked row is one step of
\* its life cycle away from the committed one.
LeaseInv ==
    /\ \A t \in Task : LeaseOK(row[t]) /\ LeaseOK(work[t])
    /\ \A t, u \in Task : t # u =>
          \A x \in {row[t], work[t]}, y \in {row[u], work[u]} :
             x.token = y.token => x.token = 0
    /\ \A s \in Session, t \in Task : lock[t] = s => ChangeOK(s, t)

=============================================================================
