------------------------------ MODULE TaskStore ------------------------------
(***************************************************************************)
(* The durable task queue of internal/queue/store.go, at the granularity   *)
(* of SQL statements.                                                      *)
(*                                                                         *)
(* A Session is one handler call with its database transaction.  Between   *)
(* two statements of a session any other session may run.  PostgreSQL is   *)
(* external; what store.go relies on is modelled explicitly:               *)
(*   - READ COMMITTED: each statement reads the rows committed when it     *)
(*     starts (snap[s]), overlaid with the transaction's own writes;       *)
(*   - FOR UPDATE SKIP LOCKED passes over rows another session has locked, *)
(*     and tests the predicate again on the newest version of the row it   *)
(*     locks, the joined parent rows still being those of the snapshot;    *)
(*   - FOR UPDATE waits for the row lock; locks last until the end of the  *)
(*     transaction; COMMIT publishes all its writes, ROLLBACK none;        *)
(*   - a unique index makes a second INSERT of a key wait for the first    *)
(*     transaction, then do nothing if that one committed.                 *)
(*                                                                         *)
(* row[t] is the committed version of a row, work[t] the newest version,   *)
(* possibly uncommitted and then visible only to lock[t].  events and      *)
(* wevents are the same pair for the task's entries in task_events.        *)
(*                                                                         *)
(* Payloads are abstracted: a Request stands for a normalised              *)
(* CreateRequest, so its fingerprint is the request itself.                *)
(***************************************************************************)
EXTENDS Integers, FiniteSets, Sequences

CONSTANTS
    Task,           \* task ids randomID can draw
    Session,        \* concurrent handler calls
    Worker,         \* worker names
    Kind,           \* task kinds
    Wanted,         \* kinds, or AnyKind, that workers ask for
    Request,        \* normalised create requests
    NoTask, NoSession, NoWorker, AnyKind, NoRequest,    \* null values
    LeaseDuration,  \* lease length in clock ticks
    RecoverLimit,   \* LIMIT 100 of the two recovery statements
    HeartbeatUntil, \* bound: workers send heartbeats only before this time
    MaxFaults       \* bound: aborted transactions and lost replies

ASSUME StoreAssumption ==
    /\ NoTask \notin Task
    /\ NoSession \notin Session
    /\ NoWorker \notin Worker
    /\ AnyKind \notin Kind
    /\ Wanted \subseteq Kind \cup {AnyKind}
    /\ NoRequest \notin Request
    /\ LeaseDuration \in Nat \ {0}
    /\ RecoverLimit \in Nat \ {0}
    /\ HeartbeatUntil \in Nat
    /\ MaxFaults \in Nat

\* What normalize lets through: 1..5 attempts, and distinct task ids.
Admissible(r) == /\ r.kind \in Kind
                 /\ r.deps \subseteq Task
                 /\ r.max \in 1..5

ASSUME RequestAssumption == \A r \in Request : Admissible(r)

VARIABLES
    row, work, events, wevents,   \* the two tables, committed and newest
    lock,                         \* row locks
    pc, job, snap,                \* the sessions
    clock,                        \* clock_timestamp() of PostgreSQL
    nextToken, nextCreated,       \* fresh lease tokens, insertion order
    leases,                       \* leases workers hold, as far as they know
    replies,                      \* successful answers to Create
    faults                        \* aborts and lost replies so far

tables == <<row, work, events, wevents>>
sessions == <<pc, job, snap>>
clients == <<leases, replies>>
fresh == <<nextToken, nextCreated>>
vars == <<tables, lock, sessions, clock, fresh, clients, faults>>

-----------------------------------------------------------------------------
(* Types. NULL and the empty string are 0 in lease_until and lease_token.   *)

Status == {"absent", "pending", "running", "completed", "failed"}
Terminal == {"completed", "failed"}
Op == {"none", "create", "claim", "heartbeat", "completed", "failed"}
PC == {"idle", "insert", "lookup", "recovering", "propagate", "propagating",
       "claim", "claiming", "lock", "update", "commit"}

Row == [status : Status, req : Request \cup {NoRequest}, created : Nat,
        worker : Worker \cup {NoWorker}, token : Nat, until : Nat,
        attempts : Nat]

Event == [action : {"created", "claimed", "lease_expired", "completed",
                    "failed", "attempts_exhausted", "dependency_failed"},
          worker : Worker \cup {NoWorker}]

Lease == [task : Task, worker : Worker, token : Nat]

Job == [op : Op, req : Request \cup {NoRequest}, kind : Kind \cup {AnyKind},
        worker : Worker \cup {NoWorker}, task : Task \cup {NoTask},
        token : Nat]

AbsentRow == [status |-> "absent", req |-> NoRequest, created |-> 0,
              worker |-> NoWorker, token |-> 0, until |-> 0, attempts |-> 0]

NoJob == [op |-> "none", req |-> NoRequest, kind |-> AnyKind,
          worker |-> NoWorker, task |-> NoTask, token |-> 0]

NoSnap == [t \in Task |-> AbsentRow]

-----------------------------------------------------------------------------
(* The row versions the SQL statements write.                               *)

NewRow(r) == [AbsentRow EXCEPT !.status = "pending", !.req = r,
                               !.created = nextCreated]

Claimed(r, w) == [r EXCEPT !.status = "running", !.worker = w,
                           !.token = nextToken,
                           !.until = clock + LeaseDuration,
                           !.attempts = @ + 1]

\* Mutant: the attempts used up are not counted.
RecoveredAlways(r) == [r EXCEPT !.status = "pending", !.worker = NoWorker,
                                !.token = 0, !.until = 0]

Recovered(r) == [r EXCEPT !.status = IF r.attempts >= r.req.max
                                     THEN "failed" ELSE "pending",
                          !.worker = NoWorker, !.token = 0, !.until = 0]

RecoveryAction(r) == IF Recovered(r).status = "failed"
                     THEN "attempts_exhausted" ELSE "lease_expired"

DependencyFailed(r) == [r EXCEPT !.status = "failed"]

Renewed(r) == [r EXCEPT !.until = clock + LeaseDuration]

Finished(r, status) == [r EXCEPT !.status = status, !.token = 0, !.until = 0]

Ev(action, w) == [action |-> action, worker |-> w]

-----------------------------------------------------------------------------
(* The predicates of the SQL statements; v is the statement's view of the   *)
(* joined parent rows, r the version of the row under test.                 *)

\* Mutants: the status, or the deadline, is not tested.
ExpiredAnyStatus(r) == r.status # "absent" /\ r.until <= clock
ExpiredEarly(r) == r.status = "running"

Expired(r) == r.status = "running" /\ r.until <= clock

\* Mutant: any unfinished parent fails the task.
BlockedUnfinished(v, r) ==
    r.status = "pending" /\ \E d \in r.req.deps : v[d].status # "completed"

Blocked(v, r) == /\ r.status = "pending"
                 /\ \E d \in r.req.deps : v[d].status = "failed"

\* Mutant: only failed parents hold a task back.
ReadyUnlessFailed(v, r, k) == /\ r.status = "pending"
                              /\ k \in {AnyKind, r.req.kind}
                              /\ \A d \in r.req.deps : v[d].status # "failed"

Ready(v, r, k) == /\ r.status = "pending"
                  /\ k \in {AnyKind, r.req.kind}
                  /\ \A d \in r.req.deps : v[d].status \in {"absent", "completed"}

\* Mutant: the token is not compared.
OwnedByName(r, j) == r.worker = j.worker /\ r.status = "running" /\ r.until > clock

Owned(r, j) == /\ r.worker = j.worker
               /\ r.token = j.token
               /\ r.status = "running"
               /\ r.until > clock

\* What session s reads now: committed rows, and its own uncommitted ones.
View(s) == [t \in Task |-> IF lock[t] = s THEN work[t] ELSE row[t]]

\* Rows SKIP LOCKED does not pass over.
Lockable(s) == {t \in Task : lock[t] \in {NoSession, s}}

\* R is what LIMIT keeps of S, when any order will do.
Limited(R, S) == /\ R \subseteq S
                 /\ \/ R = S /\ Cardinality(S) <= RecoverLimit
                    \/ Cardinality(R) = RecoverLimit

-----------------------------------------------------------------------------
Init ==
    /\ row = NoSnap /\ work = NoSnap
    /\ events = [t \in Task |-> << >>] /\ wevents = events
    /\ lock = [t \in Task |-> NoSession]
    /\ pc = [s \in Session |-> "idle"]
    /\ job = [s \in Session |-> NoJob]
    /\ snap = [s \in Session |-> NoSnap]
    /\ clock = 0
    /\ nextToken = 1 /\ nextCreated = 1
    /\ leases = {} /\ replies = {}
    /\ faults = 0

\* Session s locks the rows of S, writes version new[t] and adds event ev[t].
Write(s, S, new, ev) ==
    /\ work' = [t \in Task |-> IF t \in S THEN new[t] ELSE work[t]]
    /\ wevents' = [t \in Task |-> IF t \in S THEN Append(wevents[t], ev[t])
                                             ELSE wevents[t]]
    /\ lock' = [t \in Task |-> IF t \in S THEN s ELSE lock[t]]
    /\ UNCHANGED <<row, events>>

Goto(s, label) == pc' = [pc EXCEPT ![s] = label]

\* The transaction of s is over.
EndSession(s) ==
    /\ Goto(s, "idle")
    /\ job' = [job EXCEPT ![s] = NoJob]
    /\ snap' = [snap EXCEPT ![s] = NoSnap]
    /\ lock' = [t \in Task |-> IF lock[t] = s THEN NoSession ELSE lock[t]]

Publish(s) ==
    /\ row' = [t \in Task |-> IF lock[t] = s THEN work[t] ELSE row[t]]
    /\ events' = [t \in Task |-> IF lock[t] = s THEN wevents[t] ELSE events[t]]
    /\ EndSession(s)
    /\ UNCHANGED <<work, wevents>>

Rollback(s) ==
    /\ work' = [t \in Task |-> IF lock[t] = s THEN row[t] ELSE work[t]]
    /\ wevents' = [t \in Task |-> IF lock[t] = s THEN events[t] ELSE wevents[t]]
    /\ EndSession(s)
    /\ UNCHANGED <<row, events>>

\* A new statement of s begins and takes its snapshot.
TakeSnapshot(s, from, to) ==
    /\ pc[s] = from
    /\ Goto(s, to)
    /\ snap' = [snap EXCEPT ![s] = View(s)]
    /\ UNCHANGED <<tables, lock, job, clock, fresh, clients, faults>>

-----------------------------------------------------------------------------
(* Create.                                                                  *)

\* Mutant: the dependencies are not looked up.
BeginCreateUnchecked(s, r) ==
    /\ pc[s] = "idle"
    /\ job' = [job EXCEPT ![s] = [NoJob EXCEPT !.op = "create", !.req = r]]
    /\ Goto(s, "insert")
    /\ UNCHANGED <<tables, lock, snap, clock, fresh, clients, faults>>

\* The dependency checks. A dependency that does not exist is ErrInvalid and
\* changes nothing; tasks are never deleted, so the checks of the loop can be
\* taken together.
BeginCreate(s, r) ==
    /\ pc[s] = "idle"
    /\ \A d \in r.deps : row[d].status # "absent"
    /\ job' = [job EXCEPT ![s] = [NoJob EXCEPT !.op = "create", !.req = r]]
    /\ Goto(s, "insert")
    /\ UNCHANGED <<tables, lock, snap, clock, fresh, clients, faults>>

HasKey(r, k) == r.status # "absent" /\ r.req.key = k

\* The unique index makes the INSERT wait for an uncommitted row of its key.
KeyBusy(s, k) == \E t \in Task : /\ lock[t] \notin {NoSession, s}
                                 /\ row[t].status = "absent"
                                 /\ HasKey(work[t], k)

InsertRow(s, id) ==
    LET r == job[s].req IN
    /\ pc[s] = "insert"
    /\ ~KeyBusy(s, r.key)
    /\ ~ \E t \in Task : HasKey(row[t], r.key)
    /\ row[id].status = "absent" /\ lock[id] = NoSession
    /\ Write(s, {id}, [t \in {id} |-> NewRow(r)], [t \in {id} |-> Ev("created", NoWorker)])
    /\ nextCreated' = nextCreated + 1
    /\ job' = [job EXCEPT ![s].task = id]
    /\ Goto(s, "commit")
    /\ UNCHANGED <<snap, clock, nextToken, clients, faults>>

\* ON CONFLICT (request_key) DO NOTHING returned no row.
InsertConflict(s) ==
    /\ pc[s] = "insert"
    /\ ~KeyBusy(s, job[s].req.key)
    /\ \E t \in Task : HasKey(row[t], job[s].req.key)
    /\ Goto(s, "lookup")
    /\ UNCHANGED <<tables, lock, job, snap, clock, fresh, clients, faults>>

\* Mutant: the fingerprint is not compared.
LookupSameKey(s, t) ==
    /\ pc[s] = "lookup"
    /\ HasKey(row[t], job[s].req.key)
    /\ job' = [job EXCEPT ![s].task = t]
    /\ Goto(s, "commit")
    /\ UNCHANGED <<tables, lock, snap, clock, fresh, clients, faults>>

\* The SELECTs of the existing row, its fingerprint equal: an idempotent retry.
LookupSame(s, t) ==
    /\ pc[s] = "lookup"
    /\ HasKey(row[t], job[s].req.key)
    /\ row[t].req = job[s].req
    /\ job' = [job EXCEPT ![s].task = t]
    /\ Goto(s, "commit")
    /\ UNCHANGED <<tables, lock, snap, clock, fresh, clients, faults>>

\* The fingerprint differs: ErrConflict.
LookupConflict(s, t) ==
    /\ pc[s] = "lookup"
    /\ HasKey(row[t], job[s].req.key)
    /\ row[t].req # job[s].req
    /\ Rollback(s)
    /\ UNCHANGED <<clock, fresh, clients, faults>>

-----------------------------------------------------------------------------
(* Claim: recoverExpired's two statements, then the claiming UPDATE.        *)

BeginClaim(s, w, k) ==
    /\ pc[s] = "idle"
    /\ job' = [job EXCEPT ![s] = [NoJob EXCEPT !.op = "claim", !.worker = w,
                                               !.kind = k]]
    /\ snap' = [snap EXCEPT ![s] = View(s)]
    /\ Goto(s, "recovering")
    /\ UNCHANGED <<tables, lock, clock, fresh, clients, faults>>

\* The expired leases the first statement may take, and the LIMIT of them
\* that ORDER BY lease_until puts first.
ExpiredRows(s) == {t \in Lockable(s) : /\ Expired(snap[s][t])
                                       /\ Expired(View(s)[t])}

EarliestFirst(s, R, S) == \A t \in R, u \in S \ R : snap[s][t].until <= snap[s][u].until

RecoverExpired(s) ==
    /\ pc[s] = "recovering"
    /\ \E R \in SUBSET ExpiredRows(s) :
          /\ Limited(R, ExpiredRows(s))
          /\ EarliestFirst(s, R, ExpiredRows(s))
          /\ Write(s, R, [t \in R |-> Recovered(View(s)[t])],
                   [t \in R |-> Ev(RecoveryAction(View(s)[t]), NoWorker)])
    /\ snap' = [snap EXCEPT ![s] = NoSnap]
    /\ Goto(s, "propagate")
    /\ UNCHANGED <<job, clock, fresh, clients, faults>>

BlockedRows(s) == {t \in Lockable(s) : /\ Blocked(snap[s], snap[s][t])
                                       /\ Blocked(snap[s], View(s)[t])}

FailBlocked(s) ==
    /\ pc[s] = "propagating"
    /\ \E R \in SUBSET BlockedRows(s) :
          /\ Limited(R, BlockedRows(s))
          /\ Write(s, R, [t \in R |-> DependencyFailed(View(s)[t])],
                   [t \in R |-> Ev("dependency_failed", NoWorker)])
    /\ snap' = [snap EXCEPT ![s] = NoSnap]
    /\ Goto(s, "claim")
    /\ UNCHANGED <<job, clock, fresh, clients, faults>>

\* Mutant: the predicate is not tested again on the newest version.
ReadyRowsStale(s) == {t \in Lockable(s) : Ready(snap[s], snap[s][t], job[s].kind)}

ReadyRows(s) == {t \in Lockable(s) : /\ Ready(snap[s], snap[s][t], job[s].kind)
                                     /\ Ready(snap[s], View(s)[t], job[s].kind)}

ClaimTask(s, t) ==
    /\ pc[s] = "claiming"
    /\ t \in ReadyRows(s)
    /\ \A u \in ReadyRows(s) : snap[s][t].created <= snap[s][u].created
    /\ Write(s, {t}, [u \in {t} |-> Claimed(View(s)[u], job[s].worker)],
             [u \in {t} |-> Ev("claimed", job[s].worker)])
    /\ nextToken' = nextToken + 1
    /\ job' = [job EXCEPT ![s].task = t, ![s].token = nextToken]
    /\ snap' = [snap EXCEPT ![s] = NoSnap]
    /\ Goto(s, "commit")
    /\ UNCHANGED <<clock, nextCreated, clients, faults>>

\* Mutant: the early return forgets to commit the recovery.
ClaimNothingRollback(s) ==
    /\ pc[s] = "claiming"
    /\ ReadyRows(s) = {}
    /\ Rollback(s)
    /\ UNCHANGED <<clock, fresh, clients, faults>>

\* No row: the recovery work is still committed.
ClaimNothing(s) ==
    /\ pc[s] = "claiming"
    /\ ReadyRows(s) = {}
    /\ snap' = [snap EXCEPT ![s] = NoSnap]
    /\ Goto(s, "commit")
    /\ UNCHANGED <<tables, lock, job, clock, fresh, clients, faults>>

-----------------------------------------------------------------------------
(* updateLease: Heartbeat, Complete and Fail.                               *)

BeginUpdate(s, l, op) ==
    /\ pc[s] = "idle"
    /\ op = "heartbeat" => clock < HeartbeatUntil
    /\ job' = [job EXCEPT ![s] = [NoJob EXCEPT !.op = op, !.worker = l.worker,
                                       !.task = l.task, !.token = l.token]]
    /\ Goto(s, "lock")
    /\ UNCHANGED <<tables, lock, snap, clock, fresh, clients, faults>>

\* Mutant: the row is read without waiting for its lock.
LockRowNoWait(s) ==
    /\ pc[s] = "lock"
    /\ lock' = [lock EXCEPT ![job[s].task] = s]
    /\ Goto(s, "update")
    /\ UNCHANGED <<tables, job, snap, clock, fresh, clients, faults>>

\* SELECT id ... FOR UPDATE waits here for the row.
LockRow(s) ==
    /\ pc[s] = "lock"
    /\ lock[job[s].task] = NoSession
    /\ lock' = [lock EXCEPT ![job[s].task] = s]
    /\ Goto(s, "update")
    /\ UNCHANGED <<tables, job, snap, clock, fresh, clients, faults>>

Heartbeat(s) ==
    LET t == job[s].task IN
    /\ pc[s] = "update"
    /\ job[s].op = "heartbeat"
    /\ Owned(work[t], job[s])
    /\ work' = [work EXCEPT ![t] = Renewed(@)]
    /\ Goto(s, "commit")
    /\ UNCHANGED <<row, events, wevents, lock, job, snap, clock, fresh, clients, faults>>

\* Mutant: a heartbeat falls through to the terminal update.
FinishAnyOp(s) ==
    LET t == job[s].task IN
    /\ pc[s] = "update"
    /\ Owned(work[t], job[s])
    /\ Write(s, {t}, [u \in {t} |-> Finished(work[u], job[s].op)],
             [u \in {t} |-> Ev(job[s].op, job[s].worker)])
    /\ Goto(s, "commit")
    /\ UNCHANGED <<job, snap, clock, fresh, clients, faults>>

Finish(s) ==
    LET t == job[s].task IN
    /\ pc[s] = "update"
    /\ job[s].op \in Terminal
    /\ Owned(work[t], job[s])
    /\ Write(s, {t}, [u \in {t} |-> Finished(work[u], job[s].op)],
             [u \in {t} |-> Ev(job[s].op, job[s].worker)])
    /\ Goto(s, "commit")
    /\ UNCHANGED <<job, snap, clock, fresh, clients, faults>>

HeldLease(j) == [task |-> j.task, worker |-> j.worker, token |-> j.token]

\* Mutant: a refused update is tried again.
RejectUpdateRetry(s) ==
    /\ pc[s] = "update"
    /\ ~Owned(work[job[s].task], job[s])
    /\ Goto(s, "lock")
    /\ lock' = [lock EXCEPT ![job[s].task] = NoSession]
    /\ UNCHANGED <<tables, job, snap, clock, fresh, clients, faults>>

\* ErrLease, answered as 409: the worker has lost the lease and stops.
RejectUpdate(s) ==
    /\ pc[s] = "update"
    /\ ~Owned(work[job[s].task], job[s])
    /\ Rollback(s)
    /\ leases' = leases \ {HeldLease(job[s])}
    /\ UNCHANGED <<clock, fresh, replies, faults>>

-----------------------------------------------------------------------------
(* End of a transaction, and time.                                          *)

\* COMMIT, and the answer reaches the client.
Commit(s) ==
    /\ pc[s] = "commit"
    /\ Publish(s)
    /\ leases' = CASE job[s].op = "claim" /\ job[s].task # NoTask
                         -> leases \cup {HeldLease(job[s])}
                   [] job[s].op \in Terminal -> leases \ {HeldLease(job[s])}
                   [] OTHER -> leases
    /\ replies' = IF job[s].op = "create"
                  THEN replies \cup {[req |-> job[s].req, task |-> job[s].task]}
                  ELSE replies
    /\ UNCHANGED <<clock, fresh, faults>>

\* COMMIT, but the answer is lost: the request timed out or the connection
\* broke, and the client cannot tell this from Abort.
CommitLost(s) ==
    /\ pc[s] = "commit"
    /\ faults < MaxFaults
    /\ Publish(s)
    /\ faults' = faults + 1
    /\ UNCHANGED <<clock, fresh, clients>>

\* The request's deadline, its cancellation, an invalid result, a database
\* error or the end of the coordinator: the deferred tx.Rollback.
Abort(s) ==
    /\ pc[s] # "idle"
    /\ faults < MaxFaults
    /\ Rollback(s)
    /\ faults' = faults + 1
    /\ UNCHANGED <<clock, fresh, clients>>

\* Time matters only while some lease has not expired.
Tick ==
    /\ \E t \in Task : row[t].until > clock \/ work[t].until > clock
    /\ clock' = clock + 1
    /\ UNCHANGED <<tables, lock, sessions, fresh, clients, faults>>

-----------------------------------------------------------------------------
CreateStep(s) == \/ \E id \in Task : InsertRow(s, id)
                 \/ InsertConflict(s)
                 \/ \E t \in Task : LookupSame(s, t)
                 \/ \E t \in Task : LookupConflict(s, t)

ClaimStep(s) == \/ RecoverExpired(s)
                \/ TakeSnapshot(s, "propagate", "propagating")
                \/ FailBlocked(s)
                \/ TakeSnapshot(s, "claim", "claiming")
                \/ \E t \in Task : ClaimTask(s, t)
                \/ ClaimNothing(s)

UpdateStep(s) == Heartbeat(s) \/ Finish(s) \/ RejectUpdate(s)

Begin(s) == \/ \E r \in Request : BeginCreate(s, r)
            \/ \E w \in Worker, k \in Wanted : BeginClaim(s, w, k)
            \/ \E l \in leases, op \in {"heartbeat", "completed", "failed"} :
                  BeginUpdate(s, l, op)

Next == \/ \E s \in Session : \/ Begin(s)
                              \/ CreateStep(s)
                              \/ ClaimStep(s)
                              \/ LockRow(s)
                              \/ UpdateStep(s)
                              \/ Commit(s)
                              \/ CommitLost(s)
                              \/ Abort(s)
        \/ Tick

Spec == Init /\ [][Next]_vars

-----------------------------------------------------------------------------
(* Properties.                                                              *)

\* Type invariant of the tables, the sessions and the clients.
TypeOK ==
    /\ row \in [Task -> Row] /\ work \in [Task -> Row]
    /\ events \in [Task -> Seq(Event)] /\ wevents \in [Task -> Seq(Event)]
    /\ lock \in [Task -> Session \cup {NoSession}]
    /\ pc \in [Session -> PC]
    /\ job \in [Session -> Job]
    /\ snap \in [Session -> [Task -> Row]]
    /\ clock \in Nat
    /\ nextToken \in Nat \ {0} /\ nextCreated \in Nat \ {0}
    /\ leases \subseteq Lease
    /\ replies \subseteq [req : Request, task : Task]
    /\ faults \in 0..MaxFaults

\* What the last entry of a task's history says of its status.
Outcome(r) == CASE r.status = "pending" -> {"created", "lease_expired"}
                [] r.status = "running" -> {"claimed"}
                [] r.status = "completed" -> {"completed"}
                [] r.status = "failed" -> {"failed", "attempts_exhausted",
                                           "dependency_failed"}

Claims(h) == {i \in DOMAIN h : h[i].action = "claimed"}

\* A history reads: created, then a claim and its ending for each attempt.
\* A claim is ended by the worker it names, or by the expiry of its lease.
LegalHistory(h) ==
    /\ h[1].action = "created"
    /\ \A i \in 2..Len(h) :
          CASE h[i].action = "claimed" ->
                  h[i-1].action \in {"created", "lease_expired"}
            [] h[i].action = "dependency_failed" -> h[i-1].action = "created"
            [] h[i].action \in {"lease_expired", "attempts_exhausted"} ->
                  h[i-1].action = "claimed"
            [] h[i].action \in {"completed", "failed"} ->
                  h[i-1] = Ev("claimed", h[i].worker)
            [] OTHER -> FALSE

\* store.go:202-217, 221-237, 268, 321: a transition and its event commit
\* together, so the committed events of a task are a legal history of leases
\* that ends in the task's status and holds one claim per counted attempt,
\* never more than max_attempts of them.
AuditTrail ==
    \A t \in Task : row[t].status # "absent" =>
        LET h == events[t] IN
        /\ LegalHistory(h)
        /\ h[Len(h)].action \in Outcome(row[t])
        /\ Cardinality(Claims(h)) = row[t].attempts
        /\ row[t].attempts <= row[t].req.max

\* store.go:256: a task that runs, or has completed, has only completed
\* parents, although the claim read the parents in an earlier snapshot.
DependenciesCompleted ==
    \A t \in Task : row[t].status \in {"running", "completed"} =>
        \A d \in row[t].req.deps : row[d].status = "completed"

\* store.go:182-190: a dependency was committed before its dependent was
\* inserted, so the dependencies of committed tasks have no cycle.
DependenciesOlder ==
    \A t \in Task : row[t].status # "absent" =>
        \A d \in row[t].req.deps : /\ row[d].status # "absent"
                                   /\ row[d].created < row[t].created

\* store.go:191-211: every successful answer for a request key names the same
\* task and was given for the same input, and the task exists.
IdempotentCreate ==
    /\ \A a, b \in replies : a.req.key = b.req.key => a = b
    /\ \A a \in replies : row[a.task].status # "absent" /\ row[a.task].req = a.req

\* store.go:224, 235, 253, 313: completed and failed are final; no late
\* heartbeat, recovery, claim or second completion alters such a task.
TerminalIsFinal ==
    [][\A t \in Task : row[t].status \in Terminal =>
          row'[t] = row[t] /\ events'[t] = events[t]]_<<row, events>>

\* store.go:222, 296, 313: until its lease expires a running task is changed
\* only on behalf of the lease: renewed under the same token, or finished by
\* a session that presented that token.
LeaseRespected ==
    [][\A t \in Task :
          (row[t].status = "running" /\ row[t].until > clock /\ row'[t] # row[t]) =>
             /\ \E s \in Session : /\ job[s].task = t
                                   /\ job[s].token = row[t].token
                                   /\ job[s].op \in {"heartbeat"} \cup Terminal
             /\ row'[t].worker = row[t].worker
             /\ row'[t].attempts = row[t].attempts]_row

\* store.go:277-278, 313: a task is completed only by the holder of the
\* lease that is current in the committed table when the update commits.
CompletedByHolder ==
    [][\A t \in Task :
          (row'[t].status = "completed" /\ row[t].status # "completed") =>
             \E s \in Session : /\ job[s].task = t
                                /\ job[s].op = "completed"
                                /\ row[t].status = "running"
                                /\ row[t].token = job[s].token
                                /\ row[t].worker = job[s].worker]_row

-----------------------------------------------------------------------------
(* The queue implements LeaseQueue: the committed rows are its tasks.       *)

Promised(r) == [status |-> r.status,
                deps |-> IF r.status = "absent" THEN {} ELSE r.req.deps,
                max |-> IF r.status = "absent" THEN 0 ELSE r.req.max,
                worker |-> r.worker, token |-> r.token, until |-> r.until,
                attempts |-> r.attempts]

Queue == INSTANCE LeaseQueue WITH task <- [t \in Task |-> Promised(row[t])]

\* store.go:169-334: every transaction, at its commit, is one step of the life
\* cycle of LeaseQueue on the committed tasks, and every other statement none.
ImplementsLeaseQueue == Queue!Spec

-----------------------------------------------------------------------------
(* Liveness. A session's statements run and end; PostgreSQL queues waiters  *)
(* for a row, so one that waits again and again is served; workers poll.    *)

Fairness ==
    /\ \A s \in Session : /\ WF_vars(\/ CreateStep(s) \/ ClaimStep(s) \/ UpdateStep(s)
                                    \/ Commit(s) \/ CommitLost(s))
                          /\ SF_vars(LockRow(s))
    /\ SF_vars(\E s \in Session, w \in Worker : BeginClaim(s, w, AnyKind))
    /\ WF_vars(Tick)

FairSpec == Spec /\ Fairness

\* store.go:219-238: claims alone drive recovery, and that is enough: every
\* accepted task is eventually completed or failed, whatever workers crash,
\* replies are lost or transactions roll back, if some worker keeps polling.
EveryTaskEnds ==
    \A t \in Task : row[t].status # "absent" ~> row[t].status \in Terminal

\* store.go:192, 222, 234, 257, 289: no handler waits for ever for a row lock
\* or for another insert of its key: there is no cycle of waiting sessions.
EverySessionEnds == \A s \in Session : pc[s] # "idle" ~> pc[s] = "idle"

=============================================================================
