--------------------------- MODULE TaskStoreProofs ---------------------------
(***************************************************************************)
(* Proofs about TaskStore, for every set of tasks, sessions, workers and   *)
(* requests, every lease duration and every LIMIT, in three parts: the     *)
(* sessions and their locks (SessionInv); what the store records: the      *)
(* order of the inserts, the request keys and the histories in             *)
(* task_events, from one lemma that lists everything a step can do to a    *)
(* task; and that TaskStore implements LeaseQueue: every commit is one     *)
(* step of the tasks' life cycle, every other statement none.              *)
(***************************************************************************)
EXTENDS TaskStoreInvariant, FiniteSetTheorems, TLAPS

USE DEF Terminal, LeaseOp, Claiming, Admissible

LEMMA InitInv == Init => SessionInv
<1> SUFFICES ASSUME Init PROVE SessionInv
  OBVIOUS
<1>1. AbsentRow \in Row
  BY DEF AbsentRow, Row, Status
<1>2. NoJob \in Job
  BY DEF NoJob, Job, Op
<1>3. TypeOK
  BY <1>1, <1>2, StoreAssumption DEF Init, TypeOK, NoSnap, PC
<1>4. \A s \in Session : JobOK(s)
  BY DEF Init, JobOK
<1>5. \A t \in Task : row[t] = AbsentRow /\ work[t] = AbsentRow
  BY DEF Init, NoSnap
<1>6. \A t \in Task : RowOK(row[t]) /\ RowOK(work[t]) /\ DepsOK(row[t]) /\ DepsOK(work[t])
  BY <1>5 DEF RowOK, DepsOK, AbsentRow
<1>7. \A t \in Task : VersionOK(t)
  BY <1>5 DEF Init, VersionOK, AbsentRow
<1>8. \A s \in Session, t \in Task : LockOK(s, t) /\ SnapOK(s, t)
  BY StoreAssumption DEF Init, LockOK, SnapOK, AbsentRow, NoSnap
<1> QED
  BY <1>3, <1>4, <1>6, <1>7, <1>8 DEF SessionInv

\* The versions the statements write are rows.
LEMMA RowTypes ==
    ASSUME NEW r \in Row, clock \in Nat, nextToken \in Nat, nextCreated \in Nat
    PROVE  /\ \A q \in Request : NewRow(q) \in Row
           /\ \A w \in Worker : Claimed(r, w) \in Row
           /\ Recovered(r) \in Row
           /\ DependencyFailed(r) \in Row
           /\ Renewed(r) \in Row
           /\ \A st \in Terminal : Finished(r, st) \in Row
<1> USE StoreAssumption DEF Row, Status
<1>1. \A q \in Request : NewRow(q) \in Row
  BY DEF NewRow, AbsentRow
<1>2. clock + LeaseDuration \in Nat
  OBVIOUS
<1>3. ASSUME NEW w \in Worker PROVE Claimed(r, w) \in Row
  <2>1. r.attempts + 1 \in Nat
    OBVIOUS
  <2> QED
    BY <1>2, <2>1 DEF Claimed
<1>4. Recovered(r) \in Row
  BY DEF Recovered
<1>5. DependencyFailed(r) \in Row
  BY DEF DependencyFailed
<1>6. Renewed(r) \in Row
  BY <1>2 DEF Renewed
<1>7. ASSUME NEW st \in Terminal PROVE Finished(r, st) \in Row
  BY DEF Finished
<1> QED
  BY <1>1, <1>3, <1>4, <1>5, <1>6, <1>7

LEMMA TickInv == SessionInv /\ Tick => SessionInv'
<1> SUFFICES ASSUME SessionInv, Tick PROVE SessionInv'
  OBVIOUS
<1> USE DEF Tick, tables, sessions, fresh, clients
<1>1. TypeOK'
  BY DEF SessionInv, TypeOK
<1>2. ASSUME NEW s \in Session PROVE JobOK(s)'
  BY DEF SessionInv, JobOK, HeldLease
<1>3. ASSUME NEW t \in Task PROVE (RowOK(row[t]) /\ RowOK(work[t]) /\ VersionOK(t))'
  BY DEF SessionInv, RowOK, VersionOK
<1>4. ASSUME NEW s \in Session, NEW t \in Task PROVE LockOK(s, t)'
  <2>1. row[t].until \in Nat /\ clock \in Nat
    BY DEF SessionInv, TypeOK, Row
  <2> QED
    BY <2>1 DEF SessionInv, LockOK
<1>5. ASSUME NEW s \in Session, NEW t \in Task PROVE SnapOK(s, t)'
  BY DEF SessionInv, SnapOK
<1>6. ASSUME NEW t \in Task PROVE (DepsOK(row[t]) /\ DepsOK(work[t]))'
  BY DEF SessionInv, DepsOK
<1> QED
  BY <1>1, <1>2, <1>3, <1>4, <1>5, <1>6 DEF SessionInv

-----------------------------------------------------------------------------
(* Steps of one session that leave the tables and the locks alone.          *)

\* Such a step preserves the invariant when the session's new job and its
\* new snapshot are right, and what its locks mean does not depend on the move.
LEMMA LocalStep ==
    ASSUME SessionInv, NEW s \in Session,
           UNCHANGED <<tables, lock, clock, fresh, clients, faults>>,
           NEW label \in PC, Goto(s, label),
           NEW j \in Job, job' = [job EXCEPT ![s] = j],
           NEW v \in [Task -> Row], snap' = [snap EXCEPT ![s] = v],
           JobOK(s)',
           \A t \in Task : LockOK(s, t)',
           \A t \in Task : SnapOK(s, t)'
    PROVE  SessionInv'
<1> USE DEF tables, fresh, clients, Goto
<1>1. TypeOK'
  BY DEF SessionInv, TypeOK
<1>2. ASSUME NEW q \in Session PROVE JobOK(q)'
  <2>1. CASE q = s
    BY <2>1
  <2>2. CASE q # s
    <3>1. pc'[q] = pc[q] /\ job'[q] = job[q]
      BY <2>2 DEF SessionInv, TypeOK
    <3> QED
      BY <3>1 DEF SessionInv, JobOK, HeldLease
  <2> QED
    BY <2>1, <2>2
<1>3. ASSUME NEW t \in Task PROVE (RowOK(row[t]) /\ RowOK(work[t]) /\ VersionOK(t))'
  BY DEF SessionInv, RowOK, VersionOK
<1>4. ASSUME NEW q \in Session, NEW t \in Task PROVE LockOK(q, t)' /\ SnapOK(q, t)'
  <2>1. CASE q = s
    BY <2>1
  <2>2. CASE q # s
    <3>1. pc'[q] = pc[q] /\ job'[q] = job[q] /\ snap'[q] = snap[q]
      BY <2>2 DEF SessionInv, TypeOK
    <3> QED
      BY <3>1 DEF SessionInv, LockOK, SnapOK
  <2> QED
    BY <2>1, <2>2
<1>5. ASSUME NEW t \in Task PROVE (DepsOK(row[t]) /\ DepsOK(work[t]))'
  BY DEF SessionInv, DepsOK
<1> QED
  BY <1>1, <1>2, <1>3, <1>4, <1>5 DEF SessionInv

LEMMA BeginCreateInv ==
    ASSUME SessionInv, NEW s \in Session, NEW r \in Request, BeginCreate(s, r)
    PROVE  SessionInv'
<1> DEFINE j == [NoJob EXCEPT !.op = "create", !.req = r]
<1>1. j \in Job /\ j.op = "create" /\ j.req = r
  BY DEF NoJob, Job, Op
<1>2. /\ pc[s] = "idle" /\ pc'[s] = "insert"
      /\ job' = [job EXCEPT ![s] = j] /\ job'[s] = j
  BY DEF BeginCreate, SessionInv, TypeOK, Goto
<1>3. JobOK(s)'
  BY <1>1, <1>2 DEF BeginCreate, JobOK, tables
<1>4. ASSUME NEW t \in Task PROVE LockOK(s, t)'
  BY <1>2 DEF BeginCreate, SessionInv, LockOK
<1>5. snap[s] \in [Task -> Row] /\ snap' = [snap EXCEPT ![s] = snap[s]]
  BY DEF BeginCreate, SessionInv, TypeOK
<1>6. ASSUME NEW t \in Task PROVE SnapOK(s, t)'
  BY DEF BeginCreate, SessionInv, SnapOK, tables
<1>7. "insert" \in PC /\ Goto(s, "insert")
  BY DEF PC, BeginCreate
<1> HIDE DEF j
<1> QED
  BY <1>1, <1>2, <1>3, <1>4, <1>5, <1>6, <1>7, LocalStep DEF BeginCreate

LEMMA InsertConflictInv ==
    ASSUME SessionInv, NEW s \in Session, InsertConflict(s)
    PROVE  SessionInv'
<1>1. /\ pc[s] = "insert" /\ pc'[s] = "lookup" /\ job[s] \in Job
      /\ job' = [job EXCEPT ![s] = job[s]] /\ snap[s] \in [Task -> Row]
      /\ snap' = [snap EXCEPT ![s] = snap[s]] /\ "lookup" \in PC
  BY DEF InsertConflict, SessionInv, TypeOK, Goto, PC
<1>2. JobOK(s)'
  BY <1>1 DEF InsertConflict, SessionInv, JobOK, tables
<1>3. ASSUME NEW t \in Task PROVE LockOK(s, t)' /\ SnapOK(s, t)'
  BY <1>1 DEF InsertConflict, SessionInv, LockOK, SnapOK, tables
<1> QED
  BY <1>1, <1>2, <1>3, LocalStep DEF InsertConflict

LEMMA LookupSameInv ==
    ASSUME SessionInv, NEW s \in Session, NEW t \in Task, LookupSame(s, t)
    PROVE  SessionInv'
<1> DEFINE j == [job[s] EXCEPT !.task = t]
<1>1. j \in Job /\ j.op = job[s].op /\ j.req = job[s].req /\ j.task = t
  BY DEF SessionInv, TypeOK, Job
<1>2. /\ pc[s] = "lookup" /\ pc'[s] = "commit" /\ "commit" \in PC
      /\ job' = [job EXCEPT ![s] = j] /\ job'[s] = j
      /\ snap[s] \in [Task -> Row] /\ snap' = [snap EXCEPT ![s] = snap[s]]
  BY DEF LookupSame, SessionInv, TypeOK, Goto, PC
<1> HIDE DEF j
<1>3. JobOK(s)'
  BY <1>1, <1>2 DEF SessionInv, JobOK
<1>4. ASSUME NEW u \in Task PROVE LockOK(s, u)' /\ SnapOK(s, u)'
  BY <1>2 DEF LookupSame, SessionInv, LockOK, SnapOK, tables
<1> QED
  BY <1>1, <1>2, <1>3, <1>4, LocalStep DEF LookupSame

\* What a claim reads: the newest version of every row it may lock, and a
\* state of the table that its later statements can rely on.
LEMMA ViewOK ==
    ASSUME SessionInv, NEW s \in Session
    PROVE  /\ View(s) \in [Task -> Row]
           /\ \A t \in Lockable(s) : View(s)[t] = work[t]
           /\ pc[s] \in Claiming \cup {"idle"} => \A t \in Task :
                /\ View(s)[t].status # "absent" =>
                      /\ row[t].status # "absent" /\ row[t].req = View(s)[t].req
                      /\ \A d \in View(s)[t].req.deps : View(s)[d].status # "absent"
                /\ View(s)[t].status = "completed" => row[t].status = "completed"
<1>1. View(s) \in [Task -> Row]
  BY DEF SessionInv, TypeOK, View
<1>2. \A t \in Lockable(s) : View(s)[t] = work[t]
  BY DEF SessionInv, VersionOK, View, Lockable
<1>3. ASSUME pc[s] \in Claiming \cup {"idle"}, NEW t \in Task
      PROVE  /\ lock[t] = s => /\ row[t].status # "absent" /\ work[t].req = row[t].req
                               /\ work[t].status # "completed"
             /\ View(s)[t].status # "absent" =>
                   row[t].status # "absent" /\ row[t].req = View(s)[t].req
             /\ row[t].status # "absent" => View(s)[t].status # "absent"
             /\ View(s)[t].status = "completed" => row[t].status = "completed"
  <2>1. lock[t] = s => /\ row[t].status # "absent" /\ work[t].req = row[t].req
                       /\ work[t].status \notin {"completed", "absent"}
    BY <1>3 DEF SessionInv, JobOK, LockOK, VersionOK
  <2> QED
    BY <2>1 DEF View
<1>4. ASSUME pc[s] \in Claiming \cup {"idle"}, NEW t \in Task,
             View(s)[t].status # "absent", NEW d \in View(s)[t].req.deps
      PROVE  View(s)[d].status # "absent"
  <2>1. row[t].status # "absent" /\ row[t].req = View(s)[t].req
    BY <1>3, <1>4
  <2>2. row[t].req \in Request /\ row[d].status # "absent"
    BY <2>1, <1>4 DEF SessionInv, RowOK, DepsOK
  <2>3. d \in Task
    BY <2>1, <2>2, <1>4, RequestAssumption
  <2> QED
    BY <2>2, <2>3, <1>3, <1>4
<1> QED
  BY <1>1, <1>2, <1>3, <1>4

LEMMA BeginClaimInv ==
    ASSUME SessionInv, NEW s \in Session, NEW w \in Worker, NEW k \in Wanted,
           BeginClaim(s, w, k)
    PROVE  SessionInv'
<1> DEFINE j == [NoJob EXCEPT !.op = "claim", !.worker = w, !.kind = k]
<1>1. j \in Job /\ j.op = "claim" /\ j.worker = w /\ j.task = NoTask
  BY StoreAssumption DEF NoJob, Job, Op
<1>2. /\ pc[s] = "idle" /\ pc'[s] = "recovering" /\ "recovering" \in PC
      /\ job' = [job EXCEPT ![s] = j] /\ job'[s] = j
      /\ snap' = [snap EXCEPT ![s] = View(s)] /\ snap'[s] = View(s)
  BY DEF BeginClaim, SessionInv, TypeOK, Goto, PC
<1> HIDE DEF j
<1>3. JobOK(s)'
  BY <1>1, <1>2 DEF JobOK
<1>4. ASSUME NEW t \in Task PROVE LockOK(s, t)'
  BY <1>2 DEF BeginClaim, SessionInv, LockOK
<1>5. ASSUME NEW t \in Task PROVE SnapOK(s, t)'
  BY <1>2, ViewOK DEF BeginClaim, SnapOK, tables
<1> QED
  BY <1>1, <1>2, <1>3, <1>4, <1>5, ViewOK, LocalStep DEF BeginClaim

LEMMA TakeSnapshotInv ==
    ASSUME SessionInv, NEW s \in Session, NEW from \in Claiming, NEW to \in Claiming,
           TakeSnapshot(s, from, to)
    PROVE  SessionInv'
<1>1. /\ pc[s] = from /\ pc'[s] = to /\ to \in PC
      /\ job[s] \in Job /\ job' = [job EXCEPT ![s] = job[s]]
      /\ snap' = [snap EXCEPT ![s] = View(s)] /\ snap'[s] = View(s)
  BY DEF TakeSnapshot, SessionInv, TypeOK, Goto, PC
<1>2. JobOK(s)'
  BY <1>1 DEF TakeSnapshot, SessionInv, JobOK
<1>3. ASSUME NEW t \in Task PROVE LockOK(s, t)'
  BY <1>1 DEF TakeSnapshot, SessionInv, LockOK, JobOK, tables
<1>4. ASSUME NEW t \in Task PROVE SnapOK(s, t)'
  BY <1>1, ViewOK DEF TakeSnapshot, SnapOK, tables
<1> QED
  BY <1>1, <1>2, <1>3, <1>4, ViewOK, LocalStep DEF TakeSnapshot

\* The snapshot of no statement shows no row.
LEMMA NoSnapOK ==
    ASSUME NEW s \in Session, NEW t \in Task, snap'[s] = NoSnap
    PROVE  SnapOK(s, t)'
BY DEF SnapOK, NoSnap, AbsentRow

LEMMA NoSnapType == NoSnap \in [Task -> Row]
BY DEF NoSnap, AbsentRow, Row, Status

LEMMA ClaimNothingInv ==
    ASSUME SessionInv, NEW s \in Session, ClaimNothing(s)
    PROVE  SessionInv'
<1>1. /\ pc[s] = "claiming" /\ pc'[s] = "commit" /\ "commit" \in PC
      /\ job[s] \in Job /\ job' = [job EXCEPT ![s] = job[s]]
      /\ snap' = [snap EXCEPT ![s] = NoSnap] /\ snap'[s] = NoSnap
  BY DEF ClaimNothing, SessionInv, TypeOK, Goto, PC
<1>2. JobOK(s)'
  BY <1>1 DEF ClaimNothing, SessionInv, JobOK
<1>3. ASSUME NEW t \in Task PROVE LockOK(s, t)'
  BY <1>1 DEF ClaimNothing, SessionInv, LockOK, JobOK, tables
<1> QED
  BY <1>1, <1>2, <1>3, NoSnapOK, NoSnapType, LocalStep DEF ClaimNothing

LEMMA BeginUpdateInv ==
    ASSUME SessionInv, NEW s \in Session, NEW l \in leases, NEW op \in LeaseOp,
           BeginUpdate(s, l, op)
    PROVE  SessionInv'
<1> DEFINE j == [NoJob EXCEPT !.op = op, !.worker = l.worker,
                              !.task = l.task, !.token = l.token]
<1>1. /\ j \in Job /\ j.op = op
      /\ j.worker = l.worker /\ j.task = l.task /\ j.token = l.token /\ l \in Lease
  BY DEF NoJob, Job, Op, Lease, SessionInv, TypeOK
<1>2. /\ pc[s] = "idle" /\ pc'[s] = "lock" /\ "lock" \in PC
      /\ job' = [job EXCEPT ![s] = j] /\ job'[s] = j
      /\ snap[s] \in [Task -> Row] /\ snap' = [snap EXCEPT ![s] = snap[s]]
  BY DEF BeginUpdate, SessionInv, TypeOK, Goto, PC
<1> HIDE DEF j
<1>3. JobOK(s)'
  BY <1>1, <1>2 DEF JobOK, HeldLease, Lease
<1>4. ASSUME NEW t \in Task PROVE LockOK(s, t)' /\ SnapOK(s, t)'
  BY <1>2 DEF BeginUpdate, SessionInv, LockOK, SnapOK, tables
<1> QED
  BY <1>1, <1>2, <1>3, <1>4, LocalStep DEF BeginUpdate

-----------------------------------------------------------------------------
(* Statements that write rows.                                              *)

\* Session s may replace the newest version of row t by r and add event e.
GoodWrite(s, t, r, e) ==
    /\ r \in Row /\ e \in Event
    /\ lock[t] \in {NoSession, s}
    /\ RowOK(r) /\ DepsOK(r)
    /\ row[t].status \notin Terminal
    /\ row[t].status # "absent" => r.status # "absent" /\ r.req = row[t].req

\* A write of row versions under locks preserves the invariant when the new
\* versions are right and replace versions that are neither terminal nor
\* those of another task.
LEMMA WriteStep ==
    ASSUME SessionInv, NEW s \in Session,
           NEW S \in SUBSET Task, NEW new, NEW ev, Write(s, S, new, ev),
           UNCHANGED <<clock, clients, faults>>,
           nextToken' \in Nat \ {0}, nextCreated' \in Nat \ {0},
           NEW label \in PC, Goto(s, label),
           NEW j \in Job, job' = [job EXCEPT ![s] = j],
           NEW v \in [Task -> Row], snap' = [snap EXCEPT ![s] = v],
           \A t \in S : GoodWrite(s, t, new[t], ev[t]),
           JobOK(s)',
           \A t \in Task : LockOK(s, t)',
           \A t \in Task : SnapOK(s, t)'
    PROVE  SessionInv'
<1> USE DEF Goto, Write, clients, GoodWrite
<1>1. TypeOK'
  <2>1. /\ row' \in [Task -> Row] /\ events' \in [Task -> Seq(Event)]
        /\ lock' \in [Task -> Session \cup {NoSession}]
    BY DEF SessionInv, TypeOK
  <2>2. work' \in [Task -> Row]
    BY DEF SessionInv, TypeOK
  <2>3. wevents' \in [Task -> Seq(Event)]
    BY DEF SessionInv, TypeOK
  <2>4. /\ pc' \in [Session -> PC] /\ job' \in [Session -> Job]
        /\ snap' \in [Session -> [Task -> Row]]
    BY DEF SessionInv, TypeOK
  <2>5. /\ clock' \in Nat /\ leases' \subseteq Lease /\ faults' \in 0..MaxFaults
        /\ replies' \subseteq [req : Request, task : Task]
    BY DEF SessionInv, TypeOK
  <2> QED
    BY <2>1, <2>2, <2>3, <2>4, <2>5 DEF TypeOK
<1>2. ASSUME NEW q \in Session PROVE JobOK(q)'
  <2>1. CASE q = s
    BY <2>1
  <2>2. CASE q # s
    <3>1. pc'[q] = pc[q] /\ job'[q] = job[q]
      BY <2>2 DEF SessionInv, TypeOK
    <3>2. pc[q] = "update" => /\ job[q].task \in Task /\ lock[job[q].task] = q
                              /\ job[q].task \notin S
      BY <2>2, StoreAssumption DEF SessionInv, JobOK, HeldLease, Lease
    <3>3. pc[q] = "update" => lock'[job[q].task] = q
      BY <3>2
    <3> QED
      BY <3>1, <3>3 DEF SessionInv, JobOK, HeldLease
  <2> QED
    BY <2>1, <2>2
<1>3. ASSUME NEW t \in Task
      PROVE  /\ t \in S => work'[t] = new[t] /\ lock'[t] = s
             /\ t \notin S => /\ work'[t] = work[t] /\ lock'[t] = lock[t]
                              /\ wevents'[t] = wevents[t]
             /\ row'[t] = row[t] /\ events'[t] = events[t]
  OBVIOUS
<1>4. ASSUME NEW t \in Task PROVE (RowOK(row[t]) /\ RowOK(work[t]) /\ VersionOK(t))'
  <2>1. RowOK(row[t])' /\ RowOK(work[t])'
    BY <1>3 DEF SessionInv, RowOK
  <2>2. VersionOK(t)'
    BY <1>3, StoreAssumption DEF SessionInv, VersionOK
  <2> QED
    BY <2>1, <2>2
<1>5. ASSUME NEW q \in Session, NEW t \in Task PROVE LockOK(q, t)' /\ SnapOK(q, t)'
  <2>1. CASE q = s
    BY <2>1
  <2>2. CASE q # s
    <3>1. pc'[q] = pc[q] /\ job'[q] = job[q] /\ snap'[q] = snap[q]
      BY <2>2 DEF SessionInv, TypeOK
    <3>2. LockOK(q, t)'
      BY <2>2, <3>1, <1>3 DEF SessionInv, LockOK
    <3>3. SnapOK(q, t)'
      BY <3>1 DEF SessionInv, SnapOK
    <3> QED
      BY <3>2, <3>3
  <2> QED
    BY <2>1, <2>2
<1>6. ASSUME NEW t \in Task PROVE (DepsOK(row[t]) /\ DepsOK(work[t]))'
  BY <1>3 DEF SessionInv, DepsOK
<1> QED
  BY <1>1, <1>2, <1>4, <1>5, <1>6 DEF SessionInv

LEMMA InsertRowInv ==
    ASSUME SessionInv, NEW s \in Session, NEW id \in Task, InsertRow(s, id)
    PROVE  SessionInv'
<1> DEFINE r == job[s].req
           new == [t \in {id} |-> NewRow(r)]
           ev == [t \in {id} |-> Ev("created", NoWorker)]
           j == [job[s] EXCEPT !.task = id]
<1>1. /\ pc[s] = "insert" /\ job[s].op = "create" /\ r \in Request
      /\ \A d \in r.deps : row[d].status # "absent"
  BY DEF InsertRow, SessionInv, JobOK
<1>2. j \in Job /\ j.op = "create" /\ j.req = r /\ j.task = id
  BY <1>1 DEF SessionInv, TypeOK, Job
<1>3. /\ Write(s, {id}, new, ev) /\ UNCHANGED <<clock, clients, faults>>
      /\ nextToken' \in Nat \ {0} /\ nextCreated' \in Nat \ {0}
  BY DEF InsertRow, SessionInv, TypeOK
<1>4. /\ pc'[s] = "commit" /\ "commit" \in PC /\ Goto(s, "commit")
      /\ job' = [job EXCEPT ![s] = j] /\ job'[s] = j
      /\ snap[s] \in [Task -> Row] /\ snap' = [snap EXCEPT ![s] = snap[s]]
  BY DEF InsertRow, SessionInv, TypeOK, Goto, PC
<1>5. /\ NewRow(r) \in Row /\ NewRow(r).status = "pending" /\ NewRow(r).req = r
      /\ NewRow(r).attempts = 0
  BY <1>1, StoreAssumption DEF NewRow, AbsentRow, Row, Status, SessionInv, TypeOK
<1>6. /\ RowOK(NewRow(r)) /\ DepsOK(NewRow(r)) /\ row[id].status = "absent"
      /\ lock[id] = NoSession /\ Ev("created", NoWorker) \in Event
  BY <1>1, <1>5, RequestAssumption DEF RowOK, DepsOK, InsertRow, Ev, Event
<1>7. JobOK(s)'
  BY <1>1, <1>2, <1>4 DEF JobOK
<1>8. ASSUME NEW t \in Task PROVE LockOK(s, t)'
  <2>1. t # id => lock'[t] # s
    BY <1>1, <1>3 DEF SessionInv, LockOK, Write
  <2>2. row'[id].status = "absent" /\ work'[id].status = "pending"
    BY <1>3, <1>5, <1>6 DEF Write
  <2> HIDE DEF j
  <2> QED
    BY <2>1, <2>2, <1>2, <1>4 DEF LockOK
<1>9. ASSUME NEW t \in Task PROVE SnapOK(s, t)'
  BY <1>3, <1>4 DEF SessionInv, SnapOK, TypeOK, Write
<1>10. GoodWrite(s, id, NewRow(r), Ev("created", NoWorker))
  BY <1>5, <1>6 DEF GoodWrite
<1>12. \A t \in {id} : GoodWrite(s, t, new[t], ev[t])
  BY <1>10
<1>11. {id} \in SUBSET Task
  OBVIOUS
<1> HIDE DEF j, new, ev, r
<1> QED
  BY <1>2, <1>3, <1>4, <1>7, <1>8, <1>9, <1>11, <1>12, WriteStep

LEMMA RecoverExpiredInv ==
    ASSUME SessionInv, NEW s \in Session, RecoverExpired(s)
    PROVE  SessionInv'
<1> PICK R \in SUBSET ExpiredRows(s) :
        Write(s, R, [t \in R |-> Recovered(View(s)[t])],
                    [t \in R |-> Ev(RecoveryAction(View(s)[t]), NoWorker)])
  BY DEF RecoverExpired
<1> DEFINE new == [t \in R |-> Recovered(View(s)[t])]
           ev == [t \in R |-> Ev(RecoveryAction(View(s)[t]), NoWorker)]
<1>1. /\ pc[s] = "recovering" /\ pc'[s] = "propagate" /\ "propagate" \in PC
      /\ job[s] \in Job /\ job' = [job EXCEPT ![s] = job[s]] /\ job'[s] = job[s]
      /\ snap' = [snap EXCEPT ![s] = NoSnap] /\ snap'[s] = NoSnap
      /\ job[s].op = "claim"
  BY DEF RecoverExpired, SessionInv, TypeOK, Goto, PC, JobOK
<1>2. R \in SUBSET Task
  BY DEF ExpiredRows, Lockable
<1>3. ASSUME NEW t \in R
      PROVE  /\ View(s)[t] = row[t] /\ lock[t] = NoSession
             /\ row[t].status = "running" /\ row[t].until <= clock
  <2>1. /\ t \in Task /\ lock[t] \in {NoSession, s} /\ View(s)[t] = work[t]
        /\ work[t].status = "running" /\ work[t].until <= clock
    BY ViewOK DEF ExpiredRows, Lockable, Expired
  <2>2. lock[t] # s
    BY <1>1, <2>1 DEF SessionInv, LockOK
  <2> QED
    BY <2>1, <2>2 DEF SessionInv, VersionOK
<1>4. ASSUME NEW t \in R
      PROVE  /\ new[t] = Recovered(row[t]) /\ new[t] \in Row
             /\ new[t].status \in {"pending", "failed"} /\ new[t].req = row[t].req
             /\ new[t].attempts = row[t].attempts
             /\ new[t].status = "pending" => ~(row[t].attempts >= row[t].req.max)
  <2>1. row[t] \in Row
    BY <1>2 DEF SessionInv, TypeOK
  <2>2. Recovered(row[t]) \in Row
    BY <2>1, RowTypes DEF SessionInv, TypeOK
  <2> QED
    BY <2>1, <2>2, <1>3 DEF Recovered, Row
<1>5. ASSUME NEW t \in R
      PROVE  RowOK(new[t]) /\ DepsOK(new[t]) /\ ev[t] \in Event
  <2>1. /\ row[t].req \in Request /\ row[t].attempts <= row[t].req.max
        /\ row[t].attempts \in Nat /\ row[t].req.max \in Nat
    <3>1. row[t].req \in Request /\ row[t].attempts <= row[t].req.max
      BY <1>2, <1>3 DEF SessionInv, RowOK
    <3>2. row[t].req.max \in Nat
      BY <3>1, RequestAssumption
    <3>3. row[t].attempts \in Nat
      BY <1>2 DEF SessionInv, TypeOK, Row
    <3> QED
      BY <3>1, <3>2, <3>3
  <2>2. RowOK(new[t])
    BY <1>4, <2>1 DEF RowOK
  <2>3. DepsOK(new[t])
    BY <1>2, <1>3, <1>4 DEF SessionInv, DepsOK
  <2>4. ev[t] \in Event
    BY DEF Ev, RecoveryAction, Event
  <2> QED
    BY <2>2, <2>3, <2>4
<1>6. JobOK(s)'
  BY <1>1 DEF SessionInv, JobOK
<1>7. ASSUME NEW t \in Task PROVE LockOK(s, t)'
  <2>1. CASE t \in R
    <3>1. /\ work'[t] = new[t] /\ row'[t] = row[t] /\ clock' = clock
      BY <2>1, <1>2 DEF Write, RecoverExpired
    <3> QED
      BY <2>1, <3>1, <1>1, <1>3, <1>4 DEF LockOK
  <2>2. CASE t \notin R
    <3>1. /\ work'[t] = work[t] /\ row'[t] = row[t] /\ clock' = clock
          /\ lock'[t] = lock[t]
      BY <2>2 DEF Write, RecoverExpired
    <3> QED
      BY <3>1, <1>1 DEF SessionInv, LockOK
  <2> QED
    BY <2>1, <2>2
<1>8. ASSUME NEW t \in Task PROVE SnapOK(s, t)'
  BY <1>1, NoSnapOK
<1>9. /\ Write(s, R, new, ev) /\ UNCHANGED <<clock, clients, faults>>
      /\ nextToken' \in Nat \ {0} /\ nextCreated' \in Nat \ {0}
      /\ Goto(s, "propagate") /\ NoSnap \in [Task -> Row]
  BY NoSnapType DEF RecoverExpired, SessionInv, TypeOK, fresh
<1>10. \A t \in R : GoodWrite(s, t, new[t], ev[t])
  BY <1>3, <1>4, <1>5 DEF GoodWrite
<1> HIDE DEF new, ev
<1> QED
  BY <1>1, <1>2, <1>6, <1>7, <1>8, <1>9, <1>10, WriteStep

LEMMA FailBlockedInv ==
    ASSUME SessionInv, NEW s \in Session, FailBlocked(s)
    PROVE  SessionInv'
<1> PICK R \in SUBSET BlockedRows(s) :
        Write(s, R, [t \in R |-> DependencyFailed(View(s)[t])],
                    [t \in R |-> Ev("dependency_failed", NoWorker)])
  BY DEF FailBlocked
<1> DEFINE new == [t \in R |-> DependencyFailed(View(s)[t])]
           ev == [t \in R |-> Ev("dependency_failed", NoWorker)]
<1>1. /\ pc[s] = "propagating" /\ pc'[s] = "claim" /\ "claim" \in PC
      /\ job[s] \in Job /\ job' = [job EXCEPT ![s] = job[s]] /\ job'[s] = job[s]
      /\ snap' = [snap EXCEPT ![s] = NoSnap] /\ snap'[s] = NoSnap
      /\ job[s].op = "claim"
  BY DEF FailBlocked, SessionInv, TypeOK, Goto, PC, JobOK
<1>2. R \in SUBSET Task
  BY DEF BlockedRows, Lockable
<1>3. ASSUME NEW t \in R
      PROVE  /\ View(s)[t] = work[t] /\ lock[t] \in {NoSession, s}
             /\ work[t].status = "pending"
             /\ row[t].status \in {"pending", "running"}
             /\ row[t].status = "running" => row[t].until <= clock
             /\ work[t].req = row[t].req
  <2>1. /\ t \in Task /\ lock[t] \in {NoSession, s} /\ View(s)[t] = work[t]
        /\ work[t].status = "pending"
    BY ViewOK DEF BlockedRows, Lockable, Blocked
  <2> QED
    BY <1>1, <2>1 DEF SessionInv, VersionOK, LockOK
<1>4. ASSUME NEW t \in R
      PROVE  /\ new[t] \in Row /\ new[t].status = "failed"
             /\ new[t].req = work[t].req /\ new[t].attempts = work[t].attempts
  <2>1. work[t] \in Row
    BY <1>2 DEF SessionInv, TypeOK
  <2>2. DependencyFailed(work[t]) \in Row
    BY <2>1, RowTypes DEF SessionInv, TypeOK
  <2> QED
    BY <2>1, <2>2, <1>3 DEF DependencyFailed, Row
<1>5. ASSUME NEW t \in R
      PROVE  RowOK(new[t]) /\ DepsOK(new[t]) /\ ev[t] \in Event
  <2>1. RowOK(new[t])
    BY <1>2, <1>3, <1>4 DEF SessionInv, RowOK
  <2>2. DepsOK(new[t])
    BY <1>2, <1>3, <1>4 DEF SessionInv, DepsOK
  <2>3. ev[t] \in Event
    BY DEF Ev, Event
  <2> QED
    BY <2>1, <2>2, <2>3
<1>6. JobOK(s)'
  BY <1>1 DEF SessionInv, JobOK
<1>7. ASSUME NEW t \in Task PROVE LockOK(s, t)'
  <2>1. CASE t \in R
    <3>1. /\ work'[t] = new[t] /\ row'[t] = row[t] /\ clock' = clock
      BY <2>1, <1>2 DEF Write, FailBlocked
    <3> QED
      BY <2>1, <3>1, <1>1, <1>3, <1>4 DEF LockOK
  <2>2. CASE t \notin R
    <3>1. /\ work'[t] = work[t] /\ row'[t] = row[t] /\ clock' = clock
          /\ lock'[t] = lock[t]
      BY <2>2 DEF Write, FailBlocked
    <3> QED
      BY <3>1, <1>1 DEF SessionInv, LockOK
  <2> QED
    BY <2>1, <2>2
<1>8. ASSUME NEW t \in Task PROVE SnapOK(s, t)'
  BY <1>1, NoSnapOK
<1>9. /\ Write(s, R, new, ev) /\ UNCHANGED <<clock, clients, faults>>
      /\ nextToken' \in Nat \ {0} /\ nextCreated' \in Nat \ {0}
      /\ Goto(s, "claim") /\ NoSnap \in [Task -> Row]
  BY NoSnapType DEF FailBlocked, SessionInv, TypeOK, fresh
<1>10. \A t \in R : GoodWrite(s, t, new[t], ev[t])
  BY <1>3, <1>4, <1>5 DEF GoodWrite
<1> HIDE DEF new, ev
<1> QED
  BY <1>1, <1>2, <1>6, <1>7, <1>8, <1>9, <1>10, WriteStep

LEMMA ClaimTaskInv ==
    ASSUME SessionInv, NEW s \in Session, NEW t \in Task, ClaimTask(s, t)
    PROVE  SessionInv'
<1> DEFINE w == job[s].worker
           new == [u \in {t} |-> Claimed(View(s)[u], w)]
           ev == [u \in {t} |-> Ev("claimed", w)]
           j == [job[s] EXCEPT !.task = t, !.token = nextToken]
<1>1. /\ pc[s] = "claiming" /\ pc'[s] = "commit" /\ "commit" \in PC
      /\ job' = [job EXCEPT ![s] = j] /\ job'[s] = j
      /\ snap' = [snap EXCEPT ![s] = NoSnap] /\ snap'[s] = NoSnap
      /\ job[s].op = "claim" /\ w \in Worker
  BY DEF ClaimTask, SessionInv, TypeOK, Goto, PC, JobOK
<1>2. j \in Job /\ j.op = "claim" /\ j.worker = w
  BY <1>1 DEF SessionInv, TypeOK, Job
<1>3. /\ View(s)[t] = work[t] /\ lock[t] \in {NoSession, s}
      /\ work[t].status = "pending"
      /\ row[t].status \in {"pending", "running"}
      /\ row[t].status = "running" => row[t].until <= clock
      /\ work[t].req = row[t].req
  <2>1. /\ lock[t] \in {NoSession, s} /\ View(s)[t] = work[t]
        /\ work[t].status = "pending"
    BY ViewOK DEF ClaimTask, ReadyRows, Lockable, Ready
  <2> QED
    BY <1>1, <2>1 DEF SessionInv, VersionOK, LockOK
<1>4. /\ new[t] \in Row /\ new[t].status = "running" /\ new[t].worker = w
      /\ new[t].req = work[t].req /\ new[t].attempts = work[t].attempts + 1
      /\ work[t].attempts \in Nat
  <2>1. work[t] \in Row
    BY DEF SessionInv, TypeOK
  <2>2. Claimed(work[t], w) \in Row
    BY <2>1, <1>1, RowTypes DEF SessionInv, TypeOK
  <2> QED
    BY <2>1, <2>2, <1>3 DEF Claimed, Row
<1>5. RowOK(new[t]) /\ ev[t] \in Event
  <2>1. /\ work[t].req \in Request /\ work[t].attempts < work[t].req.max
    BY <1>3 DEF SessionInv, RowOK
  <2>2. work[t].req.max \in Nat
    BY <2>1, RequestAssumption
  <2>3. RowOK(new[t])
    BY <1>1, <1>4, <2>1, <2>2 DEF RowOK
  <2>4. ev[t] \in Event
    BY <1>1 DEF Ev, Event
  <2> QED
    BY <2>3, <2>4
<1>6. DepsOK(new[t])
  <2>1. /\ snap[s][t].status = "pending"
        /\ \A d \in work[t].req.deps : snap[s][d].status \in {"absent", "completed"}
    BY <1>3 DEF ClaimTask, ReadyRows, Ready
  <2>2. /\ work[t].req = snap[s][t].req /\ work[t].req \in Request
        /\ \A d \in work[t].req.deps : snap[s][d].status = "completed"
    BY <1>3, <2>1 DEF SessionInv, SnapOK, RowOK
  <2>3. \A d \in work[t].req.deps : row[d].status = "completed"
    BY <2>2, RequestAssumption DEF SessionInv, SnapOK
  <2> QED
    BY <1>4, <2>3 DEF DepsOK
<1>7. JobOK(s)'
  <2> HIDE DEF j, w
  <2> QED
    BY <1>1, <1>2 DEF JobOK
<1>8. ASSUME NEW u \in Task PROVE LockOK(s, u)'
  <2> HIDE DEF j, w
  <2>1. CASE u = t
    <3>1. /\ work'[t] = new[t] /\ row'[t] = row[t] /\ clock' = clock
      BY DEF Write, ClaimTask, w
    <3> QED
      BY <2>1, <3>1, <1>1, <1>2, <1>3, <1>4 DEF LockOK
  <2>2. CASE u # t
    <3>1. /\ work'[u] = work[u] /\ row'[u] = row[u] /\ clock' = clock
          /\ lock'[u] = lock[u]
      BY <2>2 DEF Write, ClaimTask
    <3> QED
      BY <3>1, <1>1, <1>2 DEF SessionInv, LockOK
  <2> QED
    BY <2>1, <2>2
<1>9. ASSUME NEW u \in Task PROVE SnapOK(s, u)'
  BY <1>1, NoSnapOK
<1>10. /\ Write(s, {t}, new, ev) /\ UNCHANGED <<clock, clients, faults>>
       /\ nextToken' \in Nat \ {0} /\ nextCreated' \in Nat \ {0}
       /\ Goto(s, "commit") /\ NoSnap \in [Task -> Row] /\ {t} \in SUBSET Task
  BY NoSnapType DEF ClaimTask, SessionInv, TypeOK
<1>11. \A u \in {t} : GoodWrite(s, u, new[u], ev[u])
  BY <1>3, <1>4, <1>5, <1>6 DEF GoodWrite
<1> HIDE DEF new, ev, j, w
<1> QED
  BY <1>1, <1>2, <1>7, <1>8, <1>9, <1>10, <1>11, WriteStep

LEMMA LockRowInv ==
    ASSUME SessionInv, NEW s \in Session, LockRow(s)
    PROVE  SessionInv'
<1> USE DEF tables, fresh, clients, Goto
<1> DEFINE t0 == job[s].task
<1>1. /\ pc[s] = "lock" /\ job[s].op \in LeaseOp /\ t0 \in Task
      /\ lock[t0] = NoSession /\ lock' = [lock EXCEPT ![t0] = s]
      /\ pc' = [pc EXCEPT ![s] = "update"]
      /\ UNCHANGED <<tables, job, snap, clock, fresh, clients, faults>>
  BY DEF LockRow, SessionInv, JobOK, HeldLease, Lease
<1>2. TypeOK'
  BY <1>1 DEF SessionInv, TypeOK, PC
<1>3. ASSUME NEW q \in Session PROVE JobOK(q)'
  <2>1. CASE q = s
    BY <2>1, <1>1 DEF SessionInv, TypeOK, JobOK, HeldLease
  <2>2. CASE q # s
    <3>1. pc'[q] = pc[q]
      BY <2>2, <1>1 DEF SessionInv, TypeOK
    <3>2. pc[q] = "update" => lock[job[q].task] = q /\ job[q].task \in Task
      BY DEF SessionInv, JobOK, HeldLease, Lease
    <3>3. pc[q] = "update" => lock'[job[q].task] = q
      BY <3>2, <1>1, StoreAssumption DEF SessionInv, TypeOK
    <3> QED
      BY <3>1, <3>3, <1>1 DEF SessionInv, JobOK, HeldLease
  <2> QED
    BY <2>1, <2>2
<1>4. ASSUME NEW t \in Task PROVE (RowOK(row[t]) /\ RowOK(work[t]) /\ VersionOK(t))'
  BY <1>1, StoreAssumption DEF SessionInv, TypeOK, RowOK, VersionOK
<1>5. ASSUME NEW q \in Session, NEW t \in Task PROVE LockOK(q, t)'
  <2>1. CASE q = s
    <3>1. t # t0 => lock'[t] # s
      BY <1>1 DEF SessionInv, TypeOK, LockOK
    <3>2. /\ pc'[s] = "update" /\ job'[s].op \in LeaseOp
          /\ work'[t0] = row'[t0] /\ wevents'[t0] = events'[t0]
      BY <1>1 DEF SessionInv, TypeOK, VersionOK
    <3> QED
      BY <2>1, <3>1, <3>2, <1>1 DEF LockOK
  <2>2. CASE q # s
    <3>1. /\ pc'[q] = pc[q]
          /\ lock'[t] = q => lock[t] = q
      BY <2>2, <1>1 DEF SessionInv, TypeOK
    <3> QED
      BY <3>1, <1>1 DEF SessionInv, LockOK
  <2> QED
    BY <2>1, <2>2
<1>6. ASSUME NEW q \in Session, NEW t \in Task PROVE SnapOK(q, t)'
  BY <1>1 DEF SessionInv, SnapOK
<1>7. ASSUME NEW t \in Task PROVE (DepsOK(row[t]) /\ DepsOK(work[t]))'
  BY <1>1 DEF SessionInv, DepsOK
<1> QED
  BY <1>2, <1>3, <1>4, <1>5, <1>6, <1>7 DEF SessionInv

\* What a session knows between locking a row and its conditional UPDATE.
LEMMA UpdateFacts ==
    ASSUME SessionInv, NEW s \in Session, pc[s] = "update",
           Owned(work[job[s].task], job[s])
    PROVE  LET t == job[s].task IN
           /\ t \in Task /\ job[s] \in Job /\ job[s].worker \in Worker
           /\ job[s].op \in LeaseOp /\ HeldLease(job[s]) \in Lease
           /\ work[t].status = "running" /\ work[t].token = job[s].token
           /\ work[t].worker = job[s].worker /\ work[t] \in Row
           /\ lock[t] = s /\ work[t] = row[t]
           /\ \A u \in Task : lock[u] = s => u = t
BY DEF SessionInv, TypeOK, JobOK, HeldLease, Lease, Owned, LockOK

LEMMA HeartbeatInv ==
    ASSUME SessionInv, NEW s \in Session, Heartbeat(s)
    PROVE  SessionInv'
<1> USE DEF fresh, clients, Goto
<1> DEFINE t0 == job[s].task
           r == Renewed(work[t0])
<1>1. /\ t0 \in Task /\ job[s] \in Job /\ HeldLease(job[s]) \in Lease
      /\ job[s].op = "heartbeat" /\ work[t0] = row[t0] /\ lock[t0] = s
      /\ row[t0].status = "running" /\ row[t0].token = job[s].token
      /\ row[t0].worker = job[s].worker /\ work[t0] \in Row
      /\ \A u \in Task : lock[u] = s => u = t0
  BY UpdateFacts DEF Heartbeat
<1>2. /\ work' = [work EXCEPT ![t0] = r] /\ pc' = [pc EXCEPT ![s] = "commit"]
      /\ pc[s] = "update"
      /\ UNCHANGED <<row, events, wevents, lock, job, snap, clock, fresh, clients, faults>>
  BY DEF Heartbeat
<1>3. /\ r \in Row /\ r.status = "running" /\ r.req = row[t0].req
      /\ r.attempts = row[t0].attempts /\ r.worker = row[t0].worker
  <2>1. r \in Row
    BY <1>1, RowTypes DEF SessionInv, TypeOK
  <2> QED
    BY <1>1, <2>1 DEF Renewed, Row
<1> HIDE DEF r
<1>4. TypeOK'
  BY <1>2, <1>3 DEF SessionInv, TypeOK, PC
<1>5. ASSUME NEW q \in Session PROVE JobOK(q)'
  BY <1>1, <1>2 DEF SessionInv, TypeOK, JobOK, HeldLease
<1>6. ASSUME NEW t \in Task
      PROVE  /\ t = t0 => work'[t] = r
             /\ t # t0 => work'[t] = work[t]
  BY <1>1, <1>2 DEF SessionInv, TypeOK
<1>7. RowOK(r) /\ DepsOK(r)
  <2>1. RowOK(row[t0]) /\ DepsOK(row[t0])
    BY <1>1 DEF SessionInv
  <2> QED
    BY <2>1, <1>1, <1>3 DEF RowOK, DepsOK
<1>8. ASSUME NEW t \in Task PROVE (RowOK(row[t]) /\ RowOK(work[t]) /\ VersionOK(t))'
  <2>1. RowOK(row[t])' /\ RowOK(work[t])'
    BY <1>2, <1>6, <1>7 DEF SessionInv, RowOK
  <2>2. VersionOK(t)'
    BY <1>1, <1>2, <1>3, <1>6, StoreAssumption DEF SessionInv, VersionOK
  <2> QED
    BY <2>1, <2>2
<1>9. ASSUME NEW q \in Session, NEW t \in Task PROVE LockOK(q, t)'
  <2>1. CASE q = s
    BY <2>1, <1>1, <1>2, <1>3, <1>6 DEF SessionInv, TypeOK, LockOK
  <2>2. CASE q # s
    <3>1. /\ pc'[q] = pc[q]
          /\ lock'[t] = q => t # t0
      BY <2>2, <1>1, <1>2 DEF SessionInv, TypeOK
    <3> QED
      BY <3>1, <1>2, <1>6 DEF SessionInv, LockOK
  <2> QED
    BY <2>1, <2>2
<1>10. ASSUME NEW q \in Session, NEW t \in Task PROVE SnapOK(q, t)'
  BY <1>2 DEF SessionInv, SnapOK
<1>11. ASSUME NEW t \in Task PROVE (DepsOK(row[t]) /\ DepsOK(work[t]))'
  BY <1>2, <1>6, <1>7 DEF SessionInv, DepsOK
<1> QED
  BY <1>4, <1>5, <1>8, <1>9, <1>10, <1>11 DEF SessionInv

LEMMA FinishInv ==
    ASSUME SessionInv, NEW s \in Session, Finish(s)
    PROVE  SessionInv'
<1> DEFINE t == job[s].task
           new == [u \in {t} |-> Finished(work[u], job[s].op)]
           ev == [u \in {t} |-> Ev(job[s].op, job[s].worker)]
<1>1. /\ t \in Task /\ job[s] \in Job /\ job[s].worker \in Worker
      /\ HeldLease(job[s]) \in Lease /\ job[s].op \in Terminal
      /\ work[t] = row[t] /\ lock[t] = s
      /\ row[t].status = "running" /\ row[t].token = job[s].token
      /\ row[t].worker = job[s].worker /\ row[t] \in Row
      /\ \A u \in Task : lock[u] = s => u = t
  BY UpdateFacts DEF Finish
<1>2. /\ pc[s] = "update" /\ pc'[s] = "commit" /\ "commit" \in PC /\ Goto(s, "commit")
      /\ job' = [job EXCEPT ![s] = job[s]] /\ job'[s] = job[s]
      /\ snap[s] \in [Task -> Row] /\ snap' = [snap EXCEPT ![s] = snap[s]]
      /\ Write(s, {t}, new, ev) /\ UNCHANGED <<clock, clients, faults>>
      /\ nextToken' \in Nat \ {0} /\ nextCreated' \in Nat \ {0}
  BY DEF Finish, SessionInv, TypeOK, Goto, PC, fresh
<1>3. /\ new[t] \in Row /\ new[t].status = job[s].op /\ new[t].req = row[t].req
      /\ new[t].attempts = row[t].attempts /\ new[t].worker = row[t].worker
  <2>1. Finished(row[t], job[s].op) \in Row
    BY <1>1, RowTypes DEF SessionInv, TypeOK
  <2> QED
    BY <1>1, <2>1 DEF Finished, Row
<1>4. RowOK(new[t]) /\ DepsOK(new[t])
  <2>1. RowOK(row[t]) /\ DepsOK(row[t])
    BY <1>1 DEF SessionInv
  <2> QED
    BY <2>1, <1>1, <1>3 DEF RowOK, DepsOK
<1>5. ev[t] \in Event
  BY <1>1 DEF Ev, Event
<1>6. \A u \in {t} : GoodWrite(s, u, new[u], ev[u])
  BY <1>1, <1>3, <1>4, <1>5 DEF GoodWrite
<1>7. JobOK(s)'
  BY <1>1, <1>2 DEF JobOK, HeldLease
<1>8. ASSUME NEW u \in Task PROVE LockOK(s, u)'
  <2>1. /\ work'[t] = new[t] /\ row'[t] = row[t]
        /\ lock'[u] = s => u = t
    BY <1>1, <1>2 DEF Write
  <2> QED
    BY <2>1, <1>1, <1>2, <1>3 DEF LockOK
<1>9. ASSUME NEW u \in Task PROVE SnapOK(s, u)'
  BY <1>2 DEF SessionInv, SnapOK, TypeOK, Write
<1>10. {t} \in SUBSET Task /\ job[s] \in Job
  BY <1>1
<1> HIDE DEF new, ev, t
<1> QED
  BY <1>2, <1>6, <1>7, <1>8, <1>9, <1>10, WriteStep

-----------------------------------------------------------------------------
(* The end of a transaction.                                                *)

LEMMA NoJobType == NoJob \in Job
BY DEF NoJob, Job, Op

\* The other sessions keep their places and their locks when s ends.
LEMMA EndSessionFacts ==
    ASSUME SessionInv, NEW s \in Session, EndSession(s)
    PROVE  /\ pc' \in [Session -> PC] /\ job' \in [Session -> Job]
           /\ snap' \in [Session -> [Task -> Row]]
           /\ lock' \in [Task -> Session \cup {NoSession}]
           /\ pc'[s] = "idle" /\ snap'[s] = NoSnap
           /\ \A q \in Session \ {s} :
                 pc'[q] = pc[q] /\ job'[q] = job[q] /\ snap'[q] = snap[q]
           /\ \A t \in Task : /\ lock[t] = s => lock'[t] = NoSession
                              /\ lock[t] # s => lock'[t] = lock[t]
BY NoJobType, NoSnapType DEF EndSession, Goto, SessionInv, TypeOK, PC

LEMMA PublishInv ==
    ASSUME SessionInv, NEW s \in Session, Publish(s), UNCHANGED <<clock, fresh>>,
           leases' \subseteq Lease, replies' \subseteq [req : Request, task : Task],
           faults' \in 0..MaxFaults
    PROVE  SessionInv'
<1> USE DEF fresh
<1>1. EndSession(s) /\ UNCHANGED <<work, wevents>>
  BY DEF Publish
<1>2. TypeOK'
  <2>1. row' \in [Task -> Row] /\ events' \in [Task -> Seq(Event)]
    BY DEF Publish, SessionInv, TypeOK
  <2> QED
    BY <1>1, <2>1, EndSessionFacts DEF SessionInv, TypeOK
<1>3. ASSUME NEW t \in Task
      PROVE  /\ lock[t] = s => row'[t] = work[t] /\ events'[t] = wevents[t]
             /\ lock[t] # s => row'[t] = row[t] /\ events'[t] = events[t]
             /\ row[t].status # "absent" =>
                   row'[t].status # "absent" /\ row'[t].req = row[t].req
             /\ row[t].status = "completed" => row'[t].status = "completed"
  BY DEF Publish, SessionInv, VersionOK
<1>4. ASSUME NEW r, RowOK(r), DepsOK(r), r.status # "absent", NEW d \in r.req.deps
      PROVE  /\ row'[d].status # "absent"
             /\ r.status \in {"running", "completed"} => row'[d].status = "completed"
  BY <1>3, <1>4, RequestAssumption DEF RowOK, DepsOK
<1>5. ASSUME NEW q \in Session PROVE JobOK(q)'
  <2>1. CASE q = s
    BY <2>1, <1>1, EndSessionFacts DEF JobOK
  <2>2. CASE q # s
    <3>1. pc'[q] = pc[q] /\ job'[q] = job[q]
      BY <2>2, <1>1, EndSessionFacts
    <3>2. pc[q] = "update" => lock'[job[q].task] = q
      BY <2>2, <1>1, EndSessionFacts DEF SessionInv, JobOK, HeldLease, Lease
    <3>3. pc[q] \in {"insert", "lookup"} =>
             \A d \in job[q].req.deps : row'[d].status # "absent"
      BY <1>3, RequestAssumption DEF SessionInv, JobOK
    <3> QED
      BY <3>1, <3>2, <3>3 DEF SessionInv, JobOK, HeldLease
  <2> QED
    BY <2>1, <2>2
<1>6. ASSUME NEW t \in Task PROVE (RowOK(row[t]) /\ RowOK(work[t]) /\ VersionOK(t))'
  <2>1. RowOK(row[t])' /\ RowOK(work[t])'
    BY <1>1, <1>3 DEF SessionInv, RowOK
  <2>2. VersionOK(t)'
    BY <1>1, <1>3, EndSessionFacts, StoreAssumption DEF SessionInv, VersionOK
  <2> QED
    BY <2>1, <2>2
<1>7. ASSUME NEW q \in Session, NEW t \in Task PROVE LockOK(q, t)' /\ SnapOK(q, t)'
  <2>1. CASE q = s
    <3>1. LockOK(q, t)'
      BY <2>1, <1>1, EndSessionFacts, StoreAssumption DEF LockOK
    <3> QED
      BY <3>1, <2>1, <1>1, EndSessionFacts, NoSnapOK
  <2>2. CASE q # s
    <3>1. /\ pc'[q] = pc[q] /\ job'[q] = job[q] /\ snap'[q] = snap[q]
          /\ lock'[t] = q => lock[t] = q /\ row'[t] = row[t] /\ events'[t] = events[t]
      BY <2>2, <1>1, <1>3, EndSessionFacts, StoreAssumption
    <3>2. LockOK(q, t)'
      BY <3>1, <1>1 DEF SessionInv, LockOK
    <3>3. SnapOK(q, t)'
      BY <3>1, <1>3 DEF SessionInv, SnapOK
    <3> QED
      BY <3>2, <3>3
  <2> QED
    BY <2>1, <2>2
<1>8. ASSUME NEW t \in Task PROVE (DepsOK(row[t]) /\ DepsOK(work[t]))'
  <2>1. /\ RowOK(row[t]) /\ RowOK(work[t]) /\ DepsOK(row[t]) /\ DepsOK(work[t])
    BY DEF SessionInv
  <2>2. DepsOK(row[t])'
    BY <2>1, <1>3, <1>4 DEF DepsOK
  <2>3. DepsOK(work[t])'
    BY <2>1, <1>1, <1>4 DEF DepsOK
  <2> QED
    BY <2>2, <2>3
<1> QED
  BY <1>2, <1>5, <1>6, <1>7, <1>8 DEF SessionInv

LEMMA RollbackInv ==
    ASSUME SessionInv, NEW s \in Session, Rollback(s), UNCHANGED <<clock, fresh, replies>>,
           leases' \subseteq Lease, faults' \in 0..MaxFaults
    PROVE  SessionInv'
<1> USE DEF fresh
<1>1. EndSession(s) /\ UNCHANGED <<row, events>>
  BY DEF Rollback
<1>2. TypeOK'
  <2>1. work' \in [Task -> Row] /\ wevents' \in [Task -> Seq(Event)]
    BY DEF Rollback, SessionInv, TypeOK
  <2> QED
    BY <1>1, <2>1, EndSessionFacts DEF SessionInv, TypeOK
<1>3. ASSUME NEW t \in Task
      PROVE  /\ lock[t] = s => work'[t] = row[t] /\ wevents'[t] = events[t]
             /\ lock[t] # s => work'[t] = work[t] /\ wevents'[t] = wevents[t]
  BY DEF Rollback
<1>4. ASSUME NEW q \in Session PROVE JobOK(q)'
  <2>1. CASE q = s
    BY <2>1, <1>1, EndSessionFacts DEF JobOK
  <2>2. CASE q # s
    <3>1. pc'[q] = pc[q] /\ job'[q] = job[q]
      BY <2>2, <1>1, EndSessionFacts
    <3>2. pc[q] = "update" => lock'[job[q].task] = q
      BY <2>2, <1>1, EndSessionFacts DEF SessionInv, JobOK, HeldLease, Lease
    <3> QED
      BY <1>1, <3>1, <3>2 DEF SessionInv, JobOK, HeldLease
  <2> QED
    BY <2>1, <2>2
<1>5. ASSUME NEW t \in Task PROVE (RowOK(row[t]) /\ RowOK(work[t]) /\ VersionOK(t))'
  <2>1. RowOK(row[t])' /\ RowOK(work[t])'
    BY <1>1, <1>3 DEF SessionInv, RowOK
  <2>2. VersionOK(t)'
    BY <1>1, <1>3, EndSessionFacts, StoreAssumption DEF SessionInv, VersionOK
  <2> QED
    BY <2>1, <2>2
<1>6. ASSUME NEW q \in Session, NEW t \in Task PROVE LockOK(q, t)' /\ SnapOK(q, t)'
  <2>1. CASE q = s
    <3>1. LockOK(q, t)'
      BY <2>1, <1>1, EndSessionFacts, StoreAssumption DEF LockOK
    <3> QED
      BY <3>1, <2>1, <1>1, EndSessionFacts, NoSnapOK
  <2>2. CASE q # s
    <3>1. /\ pc'[q] = pc[q] /\ job'[q] = job[q] /\ snap'[q] = snap[q]
          /\ lock'[t] = q => lock[t] = q /\ work'[t] = work[t] /\ wevents'[t] = wevents[t]
      BY <2>2, <1>1, <1>3, EndSessionFacts, StoreAssumption
    <3> QED
      BY <3>1, <1>1 DEF SessionInv, LockOK, SnapOK
  <2> QED
    BY <2>1, <2>2
<1>7. ASSUME NEW t \in Task PROVE (DepsOK(row[t]) /\ DepsOK(work[t]))'
  BY <1>1, <1>3 DEF SessionInv, DepsOK
<1> QED
  BY <1>2, <1>4, <1>5, <1>6, <1>7 DEF SessionInv

LEMMA CommitInv ==
    ASSUME SessionInv, NEW s \in Session, Commit(s) \/ CommitLost(s)
    PROVE  SessionInv'
<1>1. Publish(s) /\ UNCHANGED <<clock, fresh>> /\ faults' \in 0..MaxFaults
  BY StoreAssumption DEF Commit, CommitLost, SessionInv, TypeOK
<1>2. /\ leases \subseteq Lease /\ job[s] \in Job
      /\ replies \subseteq [req : Request, task : Task]
  BY DEF SessionInv, TypeOK
<1>3. leases' \subseteq Lease
  <2>1. CASE Commit(s)
    <3>1. pc[s] = "commit" /\ JobOK(s)
      BY <2>1 DEF Commit, SessionInv
    <3>2. job[s].op = "claim" /\ job[s].task # NoTask => HeldLease(job[s]) \in Lease
      BY <1>2, <3>1 DEF JobOK, HeldLease, Lease, Job
    <3> QED
      BY <1>2, <2>1, <3>2 DEF Commit
  <2>2. CASE CommitLost(s)
    BY <1>2, <2>2 DEF CommitLost, clients
  <2> QED
    BY <2>1, <2>2
<1>4. replies' \subseteq [req : Request, task : Task]
  <2>1. CASE Commit(s)
    <3>1. pc[s] = "commit" /\ JobOK(s)
      BY <2>1 DEF Commit, SessionInv
    <3>2. job[s].op = "create" => [req |-> job[s].req, task |-> job[s].task] \in
                                     [req : Request, task : Task]
      BY <3>1 DEF JobOK
    <3> QED
      BY <1>2, <2>1, <3>2 DEF Commit
  <2>2. CASE CommitLost(s)
    BY <1>2, <2>2 DEF CommitLost, clients
  <2> QED
    BY <2>1, <2>2
<1> QED
  BY <1>1, <1>3, <1>4, PublishInv

LEMMA GiveUpInv ==
    ASSUME SessionInv, NEW s \in Session,
           \/ Abort(s)
           \/ RejectUpdate(s)
           \/ \E t \in Task : LookupConflict(s, t)
    PROVE  SessionInv'
<1>1. Rollback(s) /\ UNCHANGED <<clock, fresh, replies>>
  BY DEF Abort, RejectUpdate, LookupConflict, clients
<1>2. faults' \in 0..MaxFaults
  BY StoreAssumption DEF Abort, RejectUpdate, LookupConflict, SessionInv, TypeOK
<1>3. leases' \subseteq Lease
  BY DEF Abort, RejectUpdate, LookupConflict, clients, SessionInv, TypeOK
<1> QED
  BY <1>1, <1>2, <1>3, RollbackInv

LEMMA StutterInv == SessionInv /\ UNCHANGED vars => SessionInv'
<1> SUFFICES ASSUME SessionInv, UNCHANGED vars PROVE SessionInv'
  OBVIOUS
<1> USE DEF vars, tables, sessions, fresh, clients
<1>1. TypeOK'
  BY DEF SessionInv, TypeOK
<1>2. ASSUME NEW s \in Session PROVE JobOK(s)'
  BY DEF SessionInv, JobOK, HeldLease
<1>3. ASSUME NEW t \in Task PROVE (RowOK(row[t]) /\ RowOK(work[t]) /\ VersionOK(t))'
  BY DEF SessionInv, RowOK, VersionOK
<1>4. ASSUME NEW s \in Session, NEW t \in Task PROVE LockOK(s, t)' /\ SnapOK(s, t)'
  BY DEF SessionInv, LockOK, SnapOK
<1>5. ASSUME NEW t \in Task PROVE (DepsOK(row[t]) /\ DepsOK(work[t]))'
  BY DEF SessionInv, DepsOK
<1> QED
  BY <1>1, <1>2, <1>3, <1>4, <1>5 DEF SessionInv

LEMMA NextInv == SessionInv /\ [Next]_vars => SessionInv'
<1> SUFFICES ASSUME SessionInv, [Next]_vars PROVE SessionInv'
  OBVIOUS
<1>1. CASE UNCHANGED vars
  BY <1>1, StutterInv
<1>2. CASE Tick
  BY <1>2, TickInv
<1>3. ASSUME NEW s \in Session, Begin(s) PROVE SessionInv'
  BY <1>3, BeginCreateInv, BeginClaimInv, BeginUpdateInv DEF Begin
<1>4. ASSUME NEW s \in Session, CreateStep(s) PROVE SessionInv'
  BY <1>4, InsertRowInv, InsertConflictInv, LookupSameInv, GiveUpInv DEF CreateStep
<1>5. ASSUME NEW s \in Session, ClaimStep(s) PROVE SessionInv'
  <2>1. CASE TakeSnapshot(s, "propagate", "propagating") \/ TakeSnapshot(s, "claim", "claiming")
    BY <2>1, TakeSnapshotInv
  <2> QED
    BY <1>5, <2>1, RecoverExpiredInv, FailBlockedInv, ClaimTaskInv, ClaimNothingInv
       DEF ClaimStep
<1>6. ASSUME NEW s \in Session, LockRow(s) \/ UpdateStep(s) PROVE SessionInv'
  BY <1>6, LockRowInv, HeartbeatInv, FinishInv, GiveUpInv DEF UpdateStep
<1>7. ASSUME NEW s \in Session, Commit(s) \/ CommitLost(s) \/ Abort(s) PROVE SessionInv'
  BY <1>7, CommitInv, GiveUpInv
<1> QED
  BY <1>1, <1>2, <1>3, <1>4, <1>5, <1>6, <1>7 DEF Next

\* Nothing but COMMIT changes what other sessions can read.
LEMMA OnlyCommitsPublish ==
    ASSUME [Next]_vars
    PROVE  \/ UNCHANGED <<row, events>>
           \/ \E s \in Session : Commit(s) \/ CommitLost(s)
<1> USE DEF tables
<1>1. CASE UNCHANGED vars \/ Tick
  BY <1>1 DEF vars, Tick
<1>2. ASSUME NEW s \in Session, Begin(s) PROVE UNCHANGED <<row, events>>
  BY <1>2 DEF Begin, BeginCreate, BeginClaim, BeginUpdate
<1>3. ASSUME NEW s \in Session, CreateStep(s) PROVE UNCHANGED <<row, events>>
  BY <1>3 DEF CreateStep, InsertRow, InsertConflict, LookupSame, LookupConflict,
              Write, Rollback
<1>4. ASSUME NEW s \in Session, ClaimStep(s) PROVE UNCHANGED <<row, events>>
  BY <1>4 DEF ClaimStep, RecoverExpired, TakeSnapshot, FailBlocked, ClaimTask,
              ClaimNothing, Write
<1>5. ASSUME NEW s \in Session, LockRow(s) \/ UpdateStep(s) \/ Abort(s)
      PROVE  UNCHANGED <<row, events>>
  BY <1>5 DEF LockRow, UpdateStep, Heartbeat, Finish, RejectUpdate, Abort, Write, Rollback
<1> QED
  BY <1>1, <1>2, <1>3, <1>4, <1>5 DEF Next

\* Every session at every statement of store.go respects the discipline of
\* locks, snapshots and dependencies, in every instance.
THEOREM SessionsSafe == Spec => []SessionInv
<1>1. Init => SessionInv
  BY InitInv
<1>2. SessionInv /\ [Next]_vars => SessionInv'
  BY NextInv
<1> QED
  BY <1>1, <1>2, PTL DEF Spec

\* The tables, sessions and clients keep their types.
THEOREM TypeCorrect == Spec => []TypeOK
<1>1. SessionInv => TypeOK
  BY DEF SessionInv
<1> QED
  BY <1>1, SessionsSafe, PTL

\* store.go:256: whatever snapshot a claim read its parents in, a task that is
\* running or completed has only completed parents.
THEOREM DependenciesSafe == Spec => []DependenciesCompleted
<1>1. SessionInv => DependenciesCompleted
  BY DEF SessionInv, DepsOK, DependenciesCompleted
<1> QED
  BY <1>1, SessionsSafe, PTL

\* store.go:224, 235, 253, 313: no step of any session alters a task whose
\* completion or failure is committed, or adds to its history.
THEOREM TerminalSafe == Spec => TerminalIsFinal
<1>1. SessionInv /\ [Next]_vars =>
        [\A t \in Task : row[t].status \in Terminal =>
            row'[t] = row[t] /\ events'[t] = events[t]]_<<row, events>>
  <2> SUFFICES ASSUME SessionInv, [Next]_vars, NEW t \in Task, row[t].status \in Terminal
               PROVE  row'[t] = row[t] /\ events'[t] = events[t]
    OBVIOUS
  <2>1. work[t] = row[t] /\ wevents[t] = events[t]
    BY DEF SessionInv, VersionOK
  <2>2. ASSUME NEW s \in Session, Commit(s) \/ CommitLost(s)
        PROVE  row'[t] = row[t] /\ events'[t] = events[t]
    BY <2>1, <2>2 DEF Commit, CommitLost, Publish
  <2>3. CASE UNCHANGED <<row, events>>
    BY <2>3
  <2>4. \/ UNCHANGED <<row, events>>
        \/ \E s \in Session : Commit(s) \/ CommitLost(s)
    BY OnlyCommitsPublish
  <2> QED
    BY <2>2, <2>3, <2>4
<1> QED
  BY <1>1, SessionsSafe, PTL DEF Spec, TerminalIsFinal

\* A committed row changes only when the session that has locked it commits.
LEMMA ChangedByHolder ==
    ASSUME SessionInv, [Next]_vars, NEW t \in Task, row'[t] # row[t]
    PROVE  \E s \in Session : /\ lock[t] = s /\ pc[s] = "commit" /\ row'[t] = work[t]
                              /\ LockOK(s, t) /\ JobOK(s)
<1>1. PICK s \in Session : Commit(s) \/ CommitLost(s)
  BY OnlyCommitsPublish
<1>2. pc[s] = "commit" /\ Publish(s)
  BY <1>1 DEF Commit, CommitLost
<1>3. lock[t] = s /\ row'[t] = work[t]
  BY <1>2 DEF Publish
<1> QED
  BY <1>2, <1>3 DEF SessionInv

\* store.go:222, 296, 313: before its lease expires, a running task is changed
\* only by a session that presented the current token, and only as the holder
\* of the lease may.
THEOREM LeaseSafe == Spec => LeaseRespected
<1>1. SessionInv /\ [Next]_vars =>
        [\A t \in Task :
          (row[t].status = "running" /\ row[t].until > clock /\ row'[t] # row[t]) =>
             /\ \E s \in Session : /\ job[s].task = t
                                   /\ job[s].token = row[t].token
                                   /\ job[s].op \in {"heartbeat"} \cup Terminal
             /\ row'[t].worker = row[t].worker
             /\ row'[t].attempts = row[t].attempts]_row
  <2> SUFFICES ASSUME SessionInv, [Next]_vars, NEW t \in Task,
                      row[t].status = "running", row[t].until > clock, row'[t] # row[t]
               PROVE  /\ \E s \in Session : /\ job[s].task = t
                                            /\ job[s].token = row[t].token
                                            /\ job[s].op \in LeaseOp
                      /\ row'[t].worker = row[t].worker
                      /\ row'[t].attempts = row[t].attempts
    OBVIOUS
  <2>1. PICK s \in Session : /\ lock[t] = s /\ pc[s] = "commit" /\ row'[t] = work[t]
                             /\ LockOK(s, t) /\ JobOK(s)
    BY ChangedByHolder
  <2>2. ~(row[t].until <= clock)
    BY DEF SessionInv, TypeOK, Row
  <2>3. job[s].op \in LeaseOp
    BY <2>1, <2>2 DEF JobOK, LockOK
  <2> QED
    BY <2>1, <2>3 DEF LockOK
<1> QED
  BY <1>1, SessionsSafe, PTL DEF Spec, LeaseRespected

\* store.go:277-278, 313: only a session that presented the token and the worker
\* of the current lease completes a task, however long it waited for the row.
THEOREM CompletionSafe == Spec => CompletedByHolder
<1>1. SessionInv /\ [Next]_vars =>
        [\A t \in Task :
          (row'[t].status = "completed" /\ row[t].status # "completed") =>
             \E s \in Session : /\ job[s].task = t
                                /\ job[s].op = "completed"
                                /\ row[t].status = "running"
                                /\ row[t].token = job[s].token
                                /\ row[t].worker = job[s].worker]_row
  <2> SUFFICES ASSUME SessionInv, [Next]_vars, NEW t \in Task,
                      row'[t].status = "completed", row[t].status # "completed"
               PROVE  \E s \in Session : /\ job[s].task = t
                                         /\ job[s].op = "completed"
                                         /\ row[t].status = "running"
                                         /\ row[t].token = job[s].token
                                         /\ row[t].worker = job[s].worker
    OBVIOUS
  <2>1. PICK s \in Session : /\ lock[t] = s /\ pc[s] = "commit" /\ row'[t] = work[t]
                             /\ LockOK(s, t) /\ JobOK(s)
    BY ChangedByHolder
  <2>2. job[s].op \in LeaseOp
    BY <2>1 DEF JobOK, LockOK
  <2> QED
    BY <2>1, <2>2 DEF LockOK
<1> QED
  BY <1>1, SessionsSafe, PTL DEF Spec, CompletedByHolder

-----------------------------------------------------------------------------
(* Records.                                                                 *)

(* What one step may do to the versions of task t.                          *)

Kept(t) == work'[t] = work[t] /\ wevents'[t] = wevents[t]

Still(t) == row'[t] = row[t] /\ events'[t] = events[t]

Undone(s, t) ==
    /\ lock[t] = s /\ EndSession(s)
    /\ work'[t] = row[t] /\ wevents'[t] = events[t]
    /\ Still(t)

Written(t, r, e) == work'[t] = r /\ wevents'[t] = Append(wevents[t], e)

Published(s, t) ==
    /\ pc[s] = "commit" /\ lock[t] = s /\ EndSession(s)
    /\ row'[t] = work[t] /\ events'[t] = wevents[t]
    /\ Kept(t)

Inserted(s, t) ==
    /\ pc[s] = "insert" /\ row[t].status = "absent" /\ lock[t] = NoSession
    /\ ~KeyBusy(s, job[s].req.key)
    /\ ~ \E u \in Task : HasKey(row[u], job[s].req.key)
    /\ lock'[t] = s /\ nextCreated' = nextCreated + 1
    /\ job'[s].op = job[s].op /\ job'[s].task = t
    /\ Written(t, NewRow(job[s].req), Ev("created", NoWorker))

Requeued(s, t) ==
    /\ pc[s] = "recovering" /\ lock[t] = NoSession
    /\ Expired(work[t]) /\ lock'[t] = s /\ job'[s] = job[s]
    /\ Written(t, Recovered(work[t]), Ev(RecoveryAction(work[t]), NoWorker))

Failed(s, t) ==
    /\ pc[s] = "propagating" /\ lock[t] \in {NoSession, s}
    /\ Blocked(snap[s], work[t]) /\ lock'[t] = s /\ job'[s] = job[s]
    /\ Written(t, DependencyFailed(work[t]), Ev("dependency_failed", NoWorker))

Leased(s, t) ==
    /\ pc[s] = "claiming" /\ lock[t] \in {NoSession, s}
    /\ work[t].status = "pending" /\ lock'[t] = s
    /\ job'[s].op = job[s].op /\ job'[s].task = t /\ nextToken' = nextToken + 1
    /\ \A d \in work[t].req.deps : row[d].status = "completed"
    /\ Written(t, Claimed(work[t], job[s].worker), Ev("claimed", job[s].worker))

Extended(s, t) ==
    /\ pc[s] = "update" /\ t = job[s].task /\ lock[t] = s /\ lock'[t] = s
    /\ Owned(work[t], job[s]) /\ job[s].op = "heartbeat" /\ job'[s] = job[s]
    /\ work'[t] = Renewed(work[t]) /\ wevents'[t] = wevents[t]

Ended(s, t) ==
    /\ pc[s] = "update" /\ t = job[s].task /\ lock[t] = s /\ lock'[t] = s
    /\ Owned(work[t], job[s]) /\ job[s].op \in Terminal /\ job'[s] = job[s]
    /\ Written(t, Finished(work[t], job[s].op), Ev(job[s].op, job[s].worker))

Locked(s, t) ==
    /\ pc[s] = "lock" /\ pc'[s] = "update" /\ job[s].op \in LeaseOp
    /\ job'[s] = job[s] /\ lock[t] = NoSession /\ lock'[t] = s
    /\ Kept(t) /\ Still(t)

Moved(s, t) == \/ Inserted(s, t) \/ Requeued(s, t) \/ Failed(s, t)
               \/ Leased(s, t) \/ Extended(s, t) \/ Ended(s, t)

\* Everything that can happen to a task.
Happens(t) == \/ Kept(t) /\ Still(t) /\ lock'[t] = lock[t]
              \/ \E s \in Session : Published(s, t) \/ Undone(s, t) \/ Locked(s, t)
              \/ Still(t) /\ \E s \in Session : Moved(s, t)

LEMMA InsertMoves ==
    ASSUME SessionInv, NEW s \in Session, NEW id \in Task, InsertRow(s, id), NEW t \in Task
    PROVE  Happens(t)
<1>1. CASE t = id
  BY <1>1 DEF InsertRow, Write, Inserted, Moved, Written, Happens, Still, SessionInv, TypeOK, Job
<1>2. CASE t # id
  BY <1>2 DEF InsertRow, Write, Happens, Still, Kept
<1> QED
  BY <1>1, <1>2

LEMMA RecoverMoves ==
    ASSUME SessionInv, NEW s \in Session, RecoverExpired(s), NEW t \in Task
    PROVE  Happens(t)
<1> PICK R \in SUBSET ExpiredRows(s) :
        Write(s, R, [u \in R |-> Recovered(View(s)[u])],
                    [u \in R |-> Ev(RecoveryAction(View(s)[u]), NoWorker)])
  BY DEF RecoverExpired
<1>1. CASE t \in R
  <2>1. /\ lock[t] \in {NoSession, s} /\ View(s)[t] = work[t] /\ Expired(work[t])
        /\ pc[s] = "recovering"
    BY <1>1, ViewOK DEF ExpiredRows, Lockable, RecoverExpired
  <2>2. lock[t] = NoSession
    BY <2>1 DEF SessionInv, LockOK, Expired
  <2>3. Requeued(s, t) /\ Still(t)
    BY <1>1, <2>1, <2>2 DEF RecoverExpired, Write, Requeued, Written, Still
  <2> QED
    BY <2>3 DEF Happens, Moved
<1>2. CASE t \notin R
  BY <1>2 DEF Write, Happens, Still, Kept
<1> QED
  BY <1>1, <1>2

LEMMA FailMoves ==
    ASSUME SessionInv, NEW s \in Session, FailBlocked(s), NEW t \in Task
    PROVE  Happens(t)
<1> PICK R \in SUBSET BlockedRows(s) :
        Write(s, R, [u \in R |-> DependencyFailed(View(s)[u])],
                    [u \in R |-> Ev("dependency_failed", NoWorker)])
  BY DEF FailBlocked
<1>1. CASE t \in R
  <2>1. /\ lock[t] \in {NoSession, s} /\ View(s)[t] = work[t]
        /\ Blocked(snap[s], work[t]) /\ pc[s] = "propagating"
    BY <1>1, ViewOK DEF BlockedRows, Lockable, FailBlocked
  <2>2. Failed(s, t) /\ Still(t)
    BY <1>1, <2>1 DEF FailBlocked, Write, Failed, Written, Still
  <2> QED
    BY <2>2 DEF Happens, Moved
<1>2. CASE t \notin R
  BY <1>2 DEF Write, Happens, Still, Kept
<1> QED
  BY <1>1, <1>2

LEMMA ClaimMoves ==
    ASSUME SessionInv, NEW s \in Session, NEW c \in Task, ClaimTask(s, c), NEW t \in Task
    PROVE  Happens(t) /\ (t = c => Leased(s, t))
<1>1. CASE t = c
  <2>1. /\ lock[t] \in {NoSession, s} /\ View(s)[t] = work[t]
        /\ Ready(snap[s], work[t], job[s].kind) /\ pc[s] = "claiming"
        /\ Ready(snap[s], snap[s][t], job[s].kind)
    BY <1>1, ViewOK DEF ReadyRows, Lockable, ClaimTask
  <2>2. /\ work[t].status = "pending" /\ work[t].req = row[t].req
        /\ row[t].req = snap[s][t].req /\ row[t].req \in Request
        /\ \A d \in row[t].req.deps : snap[s][d].status = "completed"
    BY <2>1 DEF SessionInv, SnapOK, RowOK, VersionOK, Ready
  <2>3. \A d \in work[t].req.deps : row[d].status = "completed"
    BY <2>2, RequestAssumption DEF SessionInv, SnapOK
  <2>4. Leased(s, t) /\ Still(t)
    BY <1>1, <2>1, <2>2, <2>3
       DEF ClaimTask, Write, Leased, Written, Still, SessionInv, TypeOK, Job
  <2> QED
    BY <2>4 DEF Happens, Moved
<1>2. CASE t # c
  BY <1>2 DEF ClaimTask, Write, Happens, Still, Kept
<1> QED
  BY <1>1, <1>2

LEMMA UpdateMoves ==
    ASSUME SessionInv, NEW s \in Session, Heartbeat(s) \/ Finish(s), NEW t \in Task
    PROVE  Happens(t)
<1>1. /\ pc[s] = "update" /\ Owned(work[job[s].task], job[s])
  BY DEF Heartbeat, Finish
<1>2. job[s].task \in Task /\ lock[job[s].task] = s
  BY <1>1, UpdateFacts
<1>3. CASE Heartbeat(s) /\ t = job[s].task
  <2>1. Extended(s, t) /\ Still(t)
    BY <1>1, <1>2, <1>3 DEF Heartbeat, Extended, Still, SessionInv, TypeOK
  <2> QED
    BY <2>1 DEF Happens, Moved
<1>4. CASE Finish(s) /\ t = job[s].task
  <2>1. Ended(s, t) /\ Still(t)
    BY <1>1, <1>2, <1>4 DEF Finish, Write, Ended, Written, Still
  <2> QED
    BY <2>1 DEF Happens, Moved
<1>5. CASE t # job[s].task
  <2>1. Kept(t) /\ Still(t) /\ lock'[t] = lock[t]
    BY <1>2, <1>5 DEF Heartbeat, Finish, Write, Still, Kept, SessionInv, TypeOK
  <2> QED
    BY <2>1 DEF Happens
<1> QED
  BY <1>3, <1>4, <1>5

LEMMA Versions ==
    ASSUME SessionInv, [Next]_vars, NEW t \in Task
    PROVE  Happens(t)
<1> USE DEF tables
<1>1. CASE UNCHANGED vars \/ Tick
  BY <1>1 DEF vars, Tick, Happens, Kept, Still
<1>2. ASSUME NEW s \in Session, Begin(s) PROVE Happens(t)
  BY <1>2 DEF Begin, BeginCreate, BeginClaim, BeginUpdate, Happens, Kept, Still
<1>9. ASSUME NEW s \in Session, LockRow(s) PROVE Happens(t)
  <2>1. /\ pc[s] = "lock" /\ pc'[s] = "update" /\ job'[s] = job[s] /\ Kept(t) /\ Still(t)
        /\ job[s].task \in Task /\ job[s].op \in LeaseOp /\ lock[job[s].task] = NoSession
        /\ lock' = [lock EXCEPT ![job[s].task] = s]
    BY <1>9 DEF LockRow, Goto, Kept, Still, SessionInv, TypeOK, JobOK, HeldLease, Lease
  <2>2. /\ t = job[s].task => lock'[t] = s
        /\ t # job[s].task => lock'[t] = lock[t]
    BY <2>1 DEF SessionInv, TypeOK
  <2> QED
    BY <2>1, <2>2 DEF Happens, Locked
<1>3. ASSUME NEW s \in Session, Rollback(s) PROVE Happens(t)
  BY <1>3 DEF Rollback, EndSession, Happens, Kept, Still, Undone
<1>4. ASSUME NEW s \in Session, Publish(s), pc[s] = "commit" PROVE Happens(t)
  BY <1>4 DEF Publish, EndSession, Happens, Kept, Still, Published
<1>5. ASSUME NEW s \in Session, CreateStep(s) PROVE Happens(t)
  <2>1. CASE \E u \in Task : LookupConflict(s, u)
    BY <2>1, <1>3 DEF LookupConflict
  <2>2. CASE InsertConflict(s) \/ \E u \in Task : LookupSame(s, u)
    BY <2>2 DEF InsertConflict, LookupSame, Happens, Kept, Still
  <2> QED
    BY <1>5, <2>1, <2>2, InsertMoves DEF CreateStep
<1>6. ASSUME NEW s \in Session, ClaimStep(s) PROVE Happens(t)
  <2>1. ASSUME NEW from, NEW to, TakeSnapshot(s, from, to) PROVE Happens(t)
    BY <2>1 DEF TakeSnapshot, Happens, Kept, Still
  <2>2. CASE ClaimNothing(s)
    BY <2>2 DEF ClaimNothing, Happens, Kept, Still
  <2> QED
    BY <1>6, <2>1, <2>2, RecoverMoves, FailMoves, ClaimMoves DEF ClaimStep
<1>7. ASSUME NEW s \in Session, UpdateStep(s) PROVE Happens(t)
  BY <1>7, <1>3, UpdateMoves DEF UpdateStep, RejectUpdate
<1>8. ASSUME NEW s \in Session, Commit(s) \/ CommitLost(s) \/ Abort(s) PROVE Happens(t)
  BY <1>8, <1>3, <1>4 DEF Commit, CommitLost, Abort
<1> QED
  BY <1>1, <1>2, <1>5, <1>6, <1>7, <1>8, <1>9 DEF Next

-----------------------------------------------------------------------------
(* The order of the inserts.                                                *)

\* A statement that replaces a version keeps what the INSERT wrote.
LEMMA MoveKeeps ==
    ASSUME SessionInv, NEW s \in Session, NEW t \in Task, Moved(s, t)
    PROVE  \/ Inserted(s, t)
           \/ /\ work[t].status # "absent" /\ work'[t].status # "absent"
              /\ row[t].status # "absent"
              /\ work'[t].req = work[t].req /\ work'[t].created = work[t].created
<1>1. work[t] \in Row
  BY DEF SessionInv, TypeOK
<1>2. CASE Requeued(s, t)
  <2>1. row[t] = work[t]
    BY <1>2 DEF Requeued, SessionInv, VersionOK
  <2> QED
    BY <1>1, <1>2, <2>1 DEF Requeued, Written, Recovered, Expired, Row
<1>3. CASE Failed(s, t) \/ Leased(s, t)
  <2>1. /\ lock[t] \in {NoSession, s} /\ work[t].status = "pending" /\ pc[s] \in Claiming
    BY <1>3 DEF Failed, Leased, Blocked
  <2>2. row[t].status # "absent"
    BY <2>1 DEF SessionInv, VersionOK, LockOK, JobOK
  <2> QED
    BY <1>1, <1>3, <2>1, <2>2 DEF Failed, Leased, Written, DependencyFailed, Claimed, Row
<1>4. CASE Extended(s, t) \/ Ended(s, t)
  <2>1. work[t].status = "running" /\ row[t] = work[t]
    BY <1>4 DEF Extended, Ended, Owned, SessionInv, LockOK
  <2> QED
    BY <1>1, <1>4, <2>1 DEF Extended, Ended, Written, Renewed, Finished, Row
<1> QED
  BY <1>2, <1>3, <1>4 DEF Moved

\* What an INSERT writes.
LEMMA InsertFacts ==
    ASSUME SessionInv, NEW s \in Session, NEW t \in Task, Inserted(s, t)
    PROVE  /\ work'[t].status = "pending" /\ work'[t].req = job[s].req
           /\ work'[t].created = nextCreated /\ work'[t].attempts = 0
           /\ work[t].status = "absent" /\ job[s].req \in Request
           /\ \A d \in job[s].req.deps : d \in Task /\ row[d].status # "absent"
<1>1. work'[t] = NewRow(job[s].req) /\ work[t] = row[t] /\ row[t].status = "absent"
  BY DEF Inserted, Written, SessionInv, VersionOK
<1>2. /\ job[s].req \in Request
      /\ \A d \in job[s].req.deps : row[d].status # "absent"
  BY DEF Inserted, SessionInv, JobOK
<1>3. \A d \in job[s].req.deps : d \in Task
  BY <1>2, RequestAssumption
<1> QED
  BY <1>1, <1>2, <1>3 DEF NewRow, AbsentRow

\* The sequence of insertion numbers advances by one at each INSERT.
LEMMA CreatedAdvances ==
    ASSUME SessionInv, [Next]_vars
    PROVE  /\ nextCreated \in Nat
           /\ \/ nextCreated' = nextCreated
              \/ /\ nextCreated' = nextCreated + 1
                 /\ \E s \in Session, id \in Task : InsertRow(s, id)
<1> USE DEF fresh
<1>1. ASSUME UNCHANGED vars \/ Tick PROVE UNCHANGED nextCreated
  BY <1>1 DEF vars, Tick
<1>2. ASSUME NEW s \in Session, Begin(s) \/ LockRow(s) PROVE UNCHANGED nextCreated
  BY <1>2 DEF Begin, BeginCreate, BeginClaim, BeginUpdate, LockRow
<1>3. ASSUME NEW s \in Session, CreateStep(s)
      PROVE  \/ UNCHANGED nextCreated
             \/ \E id \in Task : InsertRow(s, id) /\ nextCreated' = nextCreated + 1
  <2>1. ASSUME NEW id \in Task, InsertRow(s, id) PROVE nextCreated' = nextCreated + 1
    BY <2>1 DEF InsertRow
  <2>2. ASSUME InsertConflict(s) \/ \E t \in Task : LookupSame(s, t) \/ LookupConflict(s, t)
        PROVE  UNCHANGED nextCreated
    BY <2>2 DEF InsertConflict, LookupSame, LookupConflict
  <2> QED
    BY <1>3, <2>1, <2>2 DEF CreateStep
<1>4. ASSUME NEW s \in Session, ClaimStep(s) PROVE UNCHANGED nextCreated
  BY <1>4 DEF ClaimStep, RecoverExpired, TakeSnapshot, FailBlocked, ClaimTask, ClaimNothing
<1>5. ASSUME NEW s \in Session, UpdateStep(s) \/ Commit(s) \/ CommitLost(s) \/ Abort(s)
      PROVE  UNCHANGED nextCreated
  BY <1>5 DEF UpdateStep, Heartbeat, Finish, RejectUpdate, Commit, CommitLost, Abort
<1>6. nextCreated \in Nat
  BY DEF SessionInv, TypeOK
<1> QED
  BY <1>1, <1>2, <1>3, <1>4, <1>5, <1>6 DEF Next

\* A committed task stays, with its request.
LEMMA RowsStay ==
    ASSUME SessionInv, [Next]_vars, NEW t \in Task, row[t].status # "absent"
    PROVE  /\ row'[t].status # "absent" /\ row'[t].req = row[t].req
           /\ row[t].status \in Terminal => row'[t] = row[t]
           /\ AgeInv => row'[t].created = row[t].created
<1>1. Happens(t)
  BY Versions
<1> QED
  BY <1>1 DEF Happens, Published, Undone, Locked, Still, SessionInv, VersionOK, AgeInv

LEMMA AgeStep == SessionInv /\ AgeInv /\ [Next]_vars => AgeInv'
<1> SUFFICES ASSUME SessionInv, AgeInv, [Next]_vars, NEW t \in Task
             PROVE  (/\ AgeOK(row[t]) /\ AgeOK(work[t])
                     /\ row[t].status # "absent" => work[t].created = row[t].created)'
  BY DEF AgeInv
<1>1. /\ row[t] \in Row /\ work[t] \in Row /\ nextCreated \in Nat
      /\ nextCreated' \in {nextCreated, nextCreated + 1}
  BY CreatedAdvances DEF SessionInv, TypeOK
\* A version that keeps its request and its number stays in order.
<1>2. ASSUME NEW r \in {row[t], work[t]}, NEW q, r.status # "absent",
             q.status # "absent" => q.req = r.req /\ q.created = r.created
      PROVE  AgeOK(q)'
  <2>1. /\ r.created \in Nat /\ r.created < nextCreated
        /\ \A d \in r.req.deps : row[d].created < r.created
    BY <1>1, <1>2 DEF AgeInv, AgeOK, Row
  <2>2. \A d \in r.req.deps : d \in Task /\ row[d].status # "absent"
    <3>1. r.req \in Request /\ \A d \in r.req.deps : row[d].status # "absent"
      BY <1>2 DEF SessionInv, RowOK, DepsOK
    <3> QED
      BY <3>1, RequestAssumption
  <2>3. \A d \in r.req.deps : row'[d].created < r.created
    BY <2>1, <2>2, RowsStay
  <2>4. r.created < nextCreated'
    BY <1>1, <2>1
  <2> QED
    BY <1>2, <2>3, <2>4 DEF AgeOK
<1>3. CASE Kept(t) /\ Still(t)
  <2>1. AgeOK(row[t])'
    BY <1>2, <1>3 DEF Still, AgeOK
  <2>2. AgeOK(work[t])'
    BY <1>2, <1>3 DEF Kept, AgeOK
  <2> QED
    BY <1>3, <2>1, <2>2 DEF Kept, Still, AgeInv
<1>4. CASE \E s \in Session : Published(s, t)
  <2>1. AgeOK(work[t])'
    BY <1>2, <1>4 DEF Published, Kept, AgeOK
  <2> QED
    BY <1>4, <2>1 DEF Published, Kept, AgeOK
<1>5. CASE \E s \in Session : Undone(s, t)
  <2>1. AgeOK(row[t])'
    BY <1>2, <1>5 DEF Undone, Still, AgeOK
  <2> QED
    BY <1>5, <2>1 DEF Undone, Still, AgeOK
<1>6. ASSUME NEW s \in Session, Still(t), Moved(s, t)
      PROVE  (/\ AgeOK(row[t]) /\ AgeOK(work[t])
              /\ row[t].status # "absent" => work[t].created = row[t].created)'
  <2>1. AgeOK(row[t])'
    BY <1>2, <1>6 DEF Still, AgeOK
  <2>2. CASE Inserted(s, t)
    <3>1. /\ work'[t].created = nextCreated /\ work'[t].req = job[s].req
          /\ nextCreated' = nextCreated + 1 /\ row'[t].status = "absent"
      BY <1>6, <2>2, InsertFacts DEF Inserted, Still
    <3>2. ASSUME NEW d \in job[s].req.deps PROVE row'[d].created < nextCreated
      <4>1. d \in Task /\ row[d].status # "absent"
        BY <2>2, InsertFacts
      <4> QED
        BY <4>1, RowsStay DEF AgeInv, AgeOK
    <3> QED
      BY <1>1, <2>1, <3>1, <3>2 DEF AgeOK
  <2>3. CASE ~Inserted(s, t)
    <3>1. /\ work[t].status # "absent" /\ row[t].status # "absent"
          /\ work'[t].req = work[t].req /\ work'[t].created = work[t].created
      BY <1>6, <2>3, MoveKeeps
    <3>2. AgeOK(work[t])'
      BY <1>2, <3>1 DEF AgeOK
    <3> QED
      BY <1>6, <2>1, <3>1, <3>2 DEF Still, AgeInv
  <2> QED
    BY <2>2, <2>3
<1>7. Happens(t)
  BY Versions
<1> QED
  BY <1>3, <1>4, <1>5, <1>6, <1>7 DEF Happens, Locked

-----------------------------------------------------------------------------
(* Request keys.                                                            *)

\* The two versions of a task have one key.
LEMMA KeysDistinct ==
    ASSUME SessionInv, [Next]_vars, KeyInv, NEW t \in Task, NEW u \in Task,
           work'[t].status # "absent", work'[u].status # "absent",
           work'[t].req.key = work'[u].req.key
    PROVE  t = u
\* A step either inserts v or leaves it the task it was.
<1>1. ASSUME NEW v \in Task, work'[v].status # "absent"
      PROVE  \/ work[v].status # "absent" /\ work'[v].req = work[v].req
             \/ \E s \in Session : Inserted(s, v)
  <2>1. Happens(v)
    BY Versions
  <2>2. ASSUME NEW s \in Session, Moved(s, v)
        PROVE  \/ work[v].status # "absent" /\ work'[v].req = work[v].req
               \/ Inserted(s, v)
    BY <2>2, MoveKeeps
  <2>3. CASE \E s \in Session : Undone(s, v)
    BY <1>1, <2>3 DEF Undone, SessionInv, VersionOK
  <2>4. CASE Kept(v) \/ \E s \in Session : Published(s, v)
    BY <1>1, <2>4 DEF Kept, Published
  <2> QED
    BY <2>1, <2>2, <2>3, <2>4 DEF Happens, Locked
\* Nobody else has the key of a task being inserted.
<1>2. ASSUME NEW s \in Session, NEW v \in Task, Inserted(s, v), NEW x \in Task,
             work[x].status # "absent"
      PROVE  work[x].req.key # work'[v].req.key
  <2>1. work'[v].req = job[s].req
    BY <1>2, InsertFacts
  <2>2. CASE row[x].status # "absent"
    BY <1>2, <2>1, <2>2 DEF Inserted, HasKey, SessionInv, VersionOK
  <2>3. CASE row[x].status = "absent"
    <3>1. lock[x] # NoSession
      BY <1>2, <2>3 DEF SessionInv, VersionOK
    <3>2. lock[x] # s
      BY <1>2 DEF Inserted, SessionInv, LockOK
    <3> QED
      BY <1>2, <2>1, <2>3, <3>1, <3>2 DEF Inserted, KeyBusy, HasKey
  <2> QED
    BY <2>2, <2>3
\* One statement inserts one row.
<1>3. ASSUME NEW s \in Session, Inserted(s, t), NEW q \in Session, Inserted(q, u)
      PROVE  t = u
  <2>1. PICK z \in Session, id \in Task : InsertRow(z, id)
    BY <1>3, CreatedAdvances DEF Inserted
  <2>2. \A v \in Task : v # id => work'[v] = work[v]
    BY <2>1 DEF InsertRow, Write
  <2>3. work'[t] # work[t] /\ work'[u] # work[u]
    BY <1>3, InsertFacts
  <2> QED
    BY <2>2, <2>3
<1> QED
  BY <1>1, <1>2, <1>3 DEF KeyInv

\* A session keeps its locks until its transaction ends.
LEMMA LocksHeld ==
    ASSUME SessionInv, [Next]_vars, NEW s \in Session, NEW t \in Task, lock[t] = s
    PROVE  lock'[t] = s \/ EndSession(s)
<1> USE DEF tables
<1>1. ASSUME NEW q \in Session, EndSession(q) PROVE lock'[t] = s \/ EndSession(s)
  BY <1>1 DEF EndSession
<1>2. ASSUME NEW q \in Session, NEW S \in SUBSET Task, NEW new, NEW ev, Write(q, S, new, ev),
             \A u \in S : lock[u] \in {NoSession, q}
      PROVE  lock'[t] = s
  BY <1>2, StoreAssumption DEF Write
<1>3. ASSUME UNCHANGED lock PROVE lock'[t] = s
  BY <1>3
<1>4. CASE UNCHANGED vars \/ Tick
  BY <1>3, <1>4 DEF vars, Tick
<1>5. ASSUME NEW q \in Session, Begin(q) PROVE lock'[t] = s
  BY <1>3, <1>5 DEF Begin, BeginCreate, BeginClaim, BeginUpdate
<1>6. ASSUME NEW q \in Session, LockRow(q) PROVE lock'[t] = s
  BY <1>6, StoreAssumption DEF LockRow, SessionInv, TypeOK
<1>7. ASSUME NEW q \in Session, CreateStep(q) PROVE lock'[t] = s \/ EndSession(s)
  <2>1. ASSUME NEW id \in Task, InsertRow(q, id) PROVE lock'[t] = s
    BY <2>1, StoreAssumption DEF InsertRow, Write
  <2>2. ASSUME InsertConflict(q) \/ \E u \in Task : LookupSame(q, u) PROVE lock'[t] = s
    BY <2>2, <1>3 DEF InsertConflict, LookupSame
  <2>3. ASSUME NEW u \in Task, LookupConflict(q, u) PROVE lock'[t] = s \/ EndSession(s)
    BY <2>3, <1>1 DEF LookupConflict, Rollback
  <2> QED
    BY <1>7, <2>1, <2>2, <2>3 DEF CreateStep
<1>8. ASSUME NEW q \in Session, ClaimStep(q) PROVE lock'[t] = s
  <2>1. CASE RecoverExpired(q)
    BY <2>1, <1>2 DEF RecoverExpired, ExpiredRows, Lockable
  <2>2. CASE FailBlocked(q)
    BY <2>2, <1>2 DEF FailBlocked, BlockedRows, Lockable
  <2>3. ASSUME NEW u \in Task, ClaimTask(q, u) PROVE lock'[t] = s
    BY <2>3, StoreAssumption DEF ClaimTask, ReadyRows, Lockable, Write
  <2>4. ASSUME NEW from, NEW to, TakeSnapshot(q, from, to) PROVE lock'[t] = s
    BY <2>4 DEF TakeSnapshot
  <2>5. CASE ClaimNothing(q)
    BY <2>5 DEF ClaimNothing
  <2> QED
    BY <1>8, <2>1, <2>2, <2>3, <2>4, <2>5 DEF ClaimStep
<1>9. ASSUME NEW q \in Session, UpdateStep(q) PROVE lock'[t] = s \/ EndSession(s)
  <2>1. CASE Heartbeat(q)
    BY <2>1 DEF Heartbeat
  <2>2. CASE Finish(q)
    <3>1. job[q].task \in Task /\ lock[job[q].task] = q
      BY <2>2, UpdateFacts DEF Finish
    <3> QED
      BY <2>2, <3>1 DEF Finish, Write
  <2>3. CASE RejectUpdate(q)
    BY <2>3, <1>1 DEF RejectUpdate, Rollback
  <2> QED
    BY <1>9, <2>1, <2>2, <2>3 DEF UpdateStep
<1>10. ASSUME NEW q \in Session, Commit(q) \/ CommitLost(q) \/ Abort(q)
       PROVE  lock'[t] = s \/ EndSession(s)
  BY <1>10, <1>1 DEF Commit, CommitLost, Abort, Publish, Rollback
<1> QED
  BY <1>4, <1>5, <1>6, <1>7, <1>8, <1>9, <1>10 DEF Next

\* How a session comes to the COMMIT of a create.
LEMMA CreateCommits ==
    ASSUME SessionInv, [Next]_vars, NEW s \in Session,
           pc'[s] = "commit", job'[s].op = "create"
    PROVE  \/ pc[s] = "commit" /\ job'[s] = job[s]
           \/ \E t \in Task : InsertRow(s, t) \/ LookupSame(s, t)
<1>1. \A q \in Session : pc[q] \in PC /\ job[q] \in Job
  BY DEF SessionInv, TypeOK
<1> USE DEF Goto
<1>2. CASE UNCHANGED vars \/ Tick
  BY <1>2 DEF vars, Tick, sessions
<1>3. ASSUME NEW q \in Session, Begin(q) PROVE pc[s] = "commit" /\ job'[s] = job[s]
  <2>1. pc'[q] \in {"insert", "recovering", "lock"}
    BY <1>3 DEF Begin, BeginCreate, BeginClaim, BeginUpdate, SessionInv, TypeOK
  <2>2. q # s => pc'[s] = pc[s] /\ job'[s] = job[s]
    BY <1>3 DEF Begin, BeginCreate, BeginClaim, BeginUpdate, SessionInv, TypeOK
  <2> QED
    BY <2>1, <2>2
<1>4. ASSUME NEW q \in Session, EndSession(q) PROVE pc[s] = "commit" /\ job'[s] = job[s]
  BY <1>4 DEF EndSession, SessionInv, TypeOK
<1>5. ASSUME NEW q \in Session, CreateStep(q)
      PROVE  \/ pc[s] = "commit" /\ job'[s] = job[s]
             \/ \E t \in Task : InsertRow(s, t) \/ LookupSame(s, t)
  <2>1. CASE q = s
    <3>1. ~InsertConflict(s)
      BY DEF InsertConflict, SessionInv, TypeOK
    <3>2. ASSUME NEW t \in Task, LookupConflict(s, t) PROVE FALSE
      BY <3>2 DEF LookupConflict, Rollback, EndSession, SessionInv, TypeOK
    <3> QED
      BY <1>5, <2>1, <3>1, <3>2 DEF CreateStep
  <2>2. CASE q # s
    <3>1. ASSUME NEW t \in Task, LookupConflict(q, t)
          PROVE  pc[s] = "commit" /\ job'[s] = job[s]
      BY <3>1, <1>4 DEF LookupConflict, Rollback
    <3>2. ASSUME InsertConflict(q) \/ \E t \in Task : InsertRow(q, t) \/ LookupSame(q, t)
          PROVE  pc[s] = "commit" /\ job'[s] = job[s]
      BY <2>2, <3>2 DEF InsertConflict, InsertRow, LookupSame, SessionInv, TypeOK
    <3> QED
      BY <1>5, <3>1, <3>2 DEF CreateStep
  <2> QED
    BY <2>1, <2>2
<1>6. ASSUME NEW q \in Session, ClaimStep(q) PROVE pc[s] = "commit" /\ job'[s] = job[s]
  <2>1. pc[q] \in Claiming
    BY <1>6 DEF ClaimStep, RecoverExpired, TakeSnapshot, FailBlocked, ClaimTask, ClaimNothing
  <2>2. job[q].op = "claim"
    BY <2>1 DEF SessionInv, JobOK
  <2>3. job'[q].op = "claim" /\ (q # s => pc'[s] = pc[s] /\ job'[s] = job[s])
    <3>1. ASSUME NEW t \in Task, ClaimTask(q, t)
          PROVE  job'[q].op = "claim" /\ (q # s => pc'[s] = pc[s] /\ job'[s] = job[s])
      BY <2>2, <3>1 DEF ClaimTask, SessionInv, TypeOK, Job
    <3>2. ASSUME ~ \E t \in Task : ClaimTask(q, t)
          PROVE  job' = job /\ (q # s => pc'[s] = pc[s])
      BY <1>6, <3>2 DEF ClaimStep, RecoverExpired, TakeSnapshot, FailBlocked, ClaimNothing,
                        SessionInv, TypeOK
    <3> QED
      BY <2>2, <3>1, <3>2
  <2> QED
    BY <2>3
<1>7. ASSUME NEW q \in Session, LockRow(q) \/ Heartbeat(q) \/ Finish(q)
      PROVE  pc[s] = "commit" /\ job'[s] = job[s]
  <2>1. job[q].op \in LeaseOp /\ job' = job
    BY <1>7 DEF LockRow, Heartbeat, Finish, SessionInv, JobOK
  <2>2. q # s => pc'[s] = pc[s]
    BY <1>7 DEF LockRow, Heartbeat, Finish, SessionInv, TypeOK
  <2> QED
    BY <2>1, <2>2
<1>8. ASSUME NEW q \in Session, RejectUpdate(q) \/ Commit(q) \/ CommitLost(q) \/ Abort(q)
      PROVE  pc[s] = "commit" /\ job'[s] = job[s]
  BY <1>8, <1>4 DEF RejectUpdate, Commit, CommitLost, Abort, Publish, Rollback
<1> QED
  BY <1>2, <1>3, <1>5, <1>6, <1>7, <1>8 DEF Next, UpdateStep

\* Only the COMMIT of a create answers a create.
LEMMA Answers ==
    ASSUME SessionInv, [Next]_vars, NEW a \in replies'
    PROVE  \/ a \in replies
           \/ \E s \in Session : /\ pc[s] = "commit" /\ job[s].op = "create" /\ Publish(s)
                                 /\ a = [req |-> job[s].req, task |-> job[s].task]
<1> USE DEF clients
<1>1. CASE UNCHANGED vars \/ Tick
  BY <1>1 DEF vars, Tick
<1>2. ASSUME NEW s \in Session, Begin(s) \/ LockRow(s) PROVE UNCHANGED replies
  BY <1>2 DEF Begin, BeginCreate, BeginClaim, BeginUpdate, LockRow
<1>3. ASSUME NEW s \in Session, CreateStep(s) PROVE UNCHANGED replies
  BY <1>3 DEF CreateStep, InsertRow, InsertConflict, LookupSame, LookupConflict
<1>4. ASSUME NEW s \in Session, ClaimStep(s) PROVE UNCHANGED replies
  BY <1>4 DEF ClaimStep, RecoverExpired, TakeSnapshot, FailBlocked, ClaimTask, ClaimNothing
<1>5. ASSUME NEW s \in Session, UpdateStep(s) \/ CommitLost(s) \/ Abort(s)
      PROVE  UNCHANGED replies
  BY <1>5 DEF UpdateStep, Heartbeat, Finish, RejectUpdate, CommitLost, Abort
<1>6. ASSUME NEW s \in Session, Commit(s), a \notin replies
      PROVE  /\ pc[s] = "commit" /\ job[s].op = "create" /\ Publish(s)
             /\ a = [req |-> job[s].req, task |-> job[s].task]
  BY <1>6 DEF Commit
<1> QED
  BY <1>1, <1>2, <1>3, <1>4, <1>5, <1>6 DEF Next

LEMMA KeyStep == SessionInv /\ KeyInv /\ [Next]_vars => KeyInv'
<1> SUFFICES ASSUME SessionInv, KeyInv, [Next]_vars PROVE KeyInv'
  OBVIOUS
<1>1. \A t, u \in Task : (/\ work'[t].status # "absent" /\ work'[u].status # "absent"
                          /\ work'[t].req.key = work'[u].req.key) => t = u
  BY KeysDistinct
<1>2. \A t \in Task : VersionOK(t)'
  BY NextInv DEF SessionInv
<1>3. ASSUME NEW s \in Session, pc'[s] = "commit", job'[s].op = "create"
      PROVE  LET t == job'[s].task IN
             /\ work'[t].status # "absent" /\ work'[t].req = job'[s].req
             /\ row'[t].status = "absent" => lock'[t] = s
  <2>1. ASSUME NEW t \in Task, InsertRow(s, t)
        PROVE  /\ job'[s].task = t /\ job'[s].req = job[s].req /\ lock'[t] = s
               /\ work'[t].status # "absent" /\ work'[t].req = job[s].req
    BY <2>1 DEF InsertRow, Write, NewRow, AbsentRow, SessionInv, TypeOK, Job
  <2>2. ASSUME NEW t \in Task, LookupSame(s, t)
        PROVE  /\ job'[s].task = t /\ job'[s].req = job[s].req /\ row'[t].status # "absent"
               /\ work'[t].status # "absent" /\ work'[t].req = job[s].req
    <3>1. /\ job'[s].task = t /\ job'[s].req = job[s].req /\ row'[t].status # "absent"
          /\ row'[t].req = job[s].req
      BY <2>2 DEF LookupSame, HasKey, tables, SessionInv, TypeOK, Job
    <3> QED
      BY <3>1, <1>2 DEF VersionOK
  <2>3. ASSUME pc[s] = "commit", job'[s] = job[s]
        PROVE  LET t == job[s].task IN
               /\ work'[t].status # "absent" /\ work'[t].req = job[s].req
               /\ row'[t].status = "absent" => lock'[t] = s
    <3> DEFINE t == job[s].task
    <3>1. /\ t \in Task /\ work[t].status # "absent" /\ work[t].req = job[s].req
          /\ row[t].status = "absent" => lock[t] = s
      BY <1>3, <2>3 DEF SessionInv, JobOK, KeyInv
    <3>2. ~EndSession(s)
      BY <1>3 DEF EndSession, Goto, SessionInv, TypeOK
    <3> HIDE DEF t
    <3>3. CASE row[t].status # "absent"
      <4>1. row'[t].status # "absent" /\ row'[t].req = row[t].req
        BY <3>1, <3>3, RowsStay
      <4>2. row[t].req = work[t].req
        BY <3>1, <3>3 DEF SessionInv, VersionOK
      <4> QED
        BY <1>2, <3>1, <4>1, <4>2 DEF VersionOK, t
    <3>4. CASE row[t].status = "absent"
      <4>1. lock[t] = s /\ lock'[t] = s
        BY <3>1, <3>2, <3>4, LocksHeld
      <4>2. Happens(t)
        BY <3>1, Versions
      <4>3. ASSUME NEW q \in Session, Moved(q, t) PROVE FALSE
        BY <3>1, <3>4, <4>1, <4>3, MoveKeeps, StoreAssumption DEF Inserted
      <4>4. ASSUME NEW q \in Session, Published(q, t) \/ Undone(q, t) PROVE FALSE
        BY <3>2, <4>1, <4>4 DEF Published, Undone
      <4> QED
        BY <3>1, <4>1, <4>2, <4>3, <4>4 DEF Happens, Locked, Kept, t
    <3> QED
      BY <3>3, <3>4
  <2> QED
    BY <1>3, <2>1, <2>2, <2>3, CreateCommits
<1>4. ASSUME NEW a \in replies' PROVE row'[a.task].status # "absent" /\ row'[a.task].req = a.req
  <2>1. CASE a \in replies
    <3>1. /\ row[a.task].status # "absent" /\ row[a.task].req = a.req /\ a.task \in Task
      BY <2>1 DEF KeyInv, SessionInv, TypeOK
    <3> QED
      BY <3>1, RowsStay
  <2>2. ASSUME NEW s \in Session, pc[s] = "commit", job[s].op = "create", Publish(s),
               a = [req |-> job[s].req, task |-> job[s].task]
        PROVE  row'[a.task].status # "absent" /\ row'[a.task].req = a.req
    <3>1. /\ a.task \in Task /\ a.task = job[s].task /\ a.req = job[s].req
      BY <2>2 DEF SessionInv, JobOK
    <3>2. /\ work[a.task].status # "absent" /\ work[a.task].req = a.req
          /\ row[a.task].status = "absent" => lock[a.task] = s
      BY <2>2, <3>1 DEF KeyInv
    <3>3. row[a.task].status # "absent" => row[a.task].req = a.req
      BY <3>1, <3>2 DEF SessionInv, VersionOK
    <3> QED
      BY <2>2, <3>1, <3>2, <3>3 DEF Publish
  <2> QED
    BY <2>1, <2>2, Answers
<1> QED
  BY <1>1, <1>3, <1>4 DEF KeyInv

-----------------------------------------------------------------------------
(* Histories.                                                               *)

\* Event e may come right after event f in a legal history.
Follows(e, f) ==
    CASE e.action = "claimed" -> f.action \in {"created", "lease_expired"}
      [] e.action = "dependency_failed" -> f.action = "created"
      [] e.action \in {"lease_expired", "attempts_exhausted"} -> f.action = "claimed"
      [] e.action \in {"completed", "failed"} -> f = Ev("claimed", e.worker)
      [] OTHER -> FALSE

LEMMA LegalAppend ==
    ASSUME NEW h \in Seq(Event), Len(h) > 0, LegalHistory(h),
           NEW e \in Event, Follows(e, h[Len(h)])
    PROVE  LegalHistory(Append(h, e))
<1> DEFINE g == Append(h, e)
<1>1. /\ Len(g) = Len(h) + 1 /\ Len(h) \in Nat /\ g[Len(h) + 1] = e
      /\ \A i \in 1..Len(h) : g[i] = h[i]
  OBVIOUS
<1> HIDE DEF g
<1>2. g[1].action = "created"
  BY <1>1 DEF LegalHistory
<1>3. ASSUME NEW i \in 2..Len(g) PROVE Follows(g[i], g[i-1])
  <2>1. CASE i = Len(h) + 1
    BY <1>1, <2>1
  <2>2. CASE i # Len(h) + 1
    <3>1. i \in 2..Len(h) /\ i \in 1..Len(h) /\ i - 1 \in 1..Len(h)
      BY <1>1, <2>2
    <3>2. Follows(h[i], h[i-1])
      BY <3>1 DEF LegalHistory, Follows
    <3> QED
      BY <1>1, <3>1, <3>2
  <2> QED
    BY <2>1, <2>2
<1>4. \A i \in 2..Len(g) :
          CASE g[i].action = "claimed" ->
                  g[i-1].action \in {"created", "lease_expired"}
            [] g[i].action = "dependency_failed" -> g[i-1].action = "created"
            [] g[i].action \in {"lease_expired", "attempts_exhausted"} ->
                  g[i-1].action = "claimed"
            [] g[i].action \in {"completed", "failed"} ->
                  g[i-1] = Ev("claimed", g[i].worker)
            [] OTHER -> FALSE
  BY <1>3 DEF Follows
<1>5. LegalHistory(g)
  BY <1>2, <1>4 DEF LegalHistory
<1> QED
  BY <1>5 DEF g

\* The claims of a history that one more event is added to.
LEMMA ClaimsAppend ==
    ASSUME NEW h \in Seq(Event), NEW e \in Event
    PROVE  /\ Cardinality(Claims(h)) \in Nat
           /\ Cardinality(Claims(Append(h, e))) =
                 IF e.action = "claimed" THEN Cardinality(Claims(h)) + 1
                                         ELSE Cardinality(Claims(h))
<1> DEFINE g == Append(h, e)
           n == Len(h) + 1
<1>1. /\ DOMAIN h = 1..Len(h) /\ DOMAIN g = 1..n /\ Len(h) \in Nat /\ g[n] = e
      /\ \A i \in 1..Len(h) : g[i] = h[i]
  OBVIOUS
<1>2. IsFiniteSet(Claims(h)) /\ n \notin Claims(h)
  <2>1. Claims(h) \subseteq 1..Len(h) /\ n \notin 1..Len(h)
    BY <1>1 DEF Claims
  <2>2. IsFiniteSet(1..Len(h))
    BY <1>1, FS_Interval
  <2> QED
    BY <2>1, <2>2, FS_Subset
<1> HIDE DEF g
<1>3. Claims(g) = IF e.action = "claimed" THEN Claims(h) \cup {n} ELSE Claims(h)
  <2>1. 1..n = 1..Len(h) \cup {n}
    BY <1>1
  <2>2. \A i : i \in Claims(g) <=> i \in 1..n /\ g[i].action = "claimed"
    BY <1>1 DEF Claims
  <2>3. \A i : i \in Claims(h) <=> i \in 1..Len(h) /\ h[i].action = "claimed"
    BY <1>1 DEF Claims
  <2> QED
    BY <1>1, <2>1, <2>2, <2>3
<1>4. Cardinality(Claims(h) \cup {n}) = Cardinality(Claims(h)) + 1
  BY <1>2, FS_AddElement
<1>5. Cardinality(Claims(h)) \in Nat
  BY <1>2, FS_CardinalityType
<1> QED
  BY <1>3, <1>4, <1>5 DEF g

LEMMA ClaimsEmpty == Cardinality(Claims(<<>>)) = 0
<1>1. Claims(<<>>) = {}
  BY DEF Claims
<1> QED
  BY <1>1, FS_EmptySet

\* What has completed stays completed.
LEMMA RanStays ==
    ASSUME SessionInv, [Next]_vars, NEW r \in Row, RanOK(r), RowOK(r)
    PROVE  r.attempts > 0 => \A d \in r.req.deps : row'[d].status = "completed"
<1> SUFFICES ASSUME r.attempts > 0, NEW d \in r.req.deps PROVE row'[d].status = "completed"
  OBVIOUS
<1>1. r.status # "absent"
  BY DEF RowOK, AbsentRow
<1>2. d \in Task /\ row[d].status = "completed"
  BY <1>1, RequestAssumption DEF RowOK, RanOK
<1> QED
  BY <1>2, RowsStay

\* A snapshot is taken, dropped or left; it is dropped when the session ends.
LEMMA SnapshotMoves ==
    ASSUME SessionInv, [Next]_vars, NEW s \in Session
    PROVE  \/ snap'[s] = NoSnap
           \/ snap'[s] = snap[s] /\ ~EndSession(s)
           \/ snap'[s] = View(s) /\ UNCHANGED <<row, work, lock>>
<1> USE DEF tables
<1>0. snap \in [Session -> [Task -> Row]]
  BY DEF SessionInv, TypeOK
<1>1. EndSession(s) => snap'[s] = NoSnap
  BY <1>0 DEF EndSession
<1>2. ASSUME NEW q \in Session, EndSession(q)
      PROVE  snap'[s] = NoSnap \/ snap'[s] = snap[s]
  BY <1>0, <1>2 DEF EndSession
<1>3. CASE UNCHANGED snap
  BY <1>1, <1>3
<1>4. CASE UNCHANGED vars \/ Tick
  BY <1>3, <1>4 DEF vars, Tick, sessions
<1>5. ASSUME NEW q \in Session, Begin(q)
      PROVE  \/ snap'[s] = snap[s]
             \/ snap'[s] = View(s) /\ UNCHANGED <<row, work, lock>>
  BY <1>0, <1>5 DEF Begin, BeginCreate, BeginClaim, BeginUpdate
<1>6. ASSUME NEW q \in Session, CreateStep(q)
      PROVE  snap'[s] = NoSnap \/ snap'[s] = snap[s]
  BY <1>2, <1>6 DEF CreateStep, InsertRow, InsertConflict, LookupSame, LookupConflict, Rollback
<1>7. ASSUME NEW q \in Session, ClaimStep(q)
      PROVE  \/ snap'[s] = NoSnap \/ snap'[s] = snap[s]
             \/ snap'[s] = View(s) /\ UNCHANGED <<row, work, lock>>
  BY <1>0, <1>7 DEF ClaimStep, RecoverExpired, TakeSnapshot, FailBlocked, ClaimTask, ClaimNothing
<1>8. ASSUME NEW q \in Session, LockRow(q) \/ UpdateStep(q)
      PROVE  snap'[s] = NoSnap \/ snap'[s] = snap[s]
  BY <1>2, <1>8 DEF LockRow, UpdateStep, Heartbeat, Finish, RejectUpdate, Rollback
<1>9. ASSUME NEW q \in Session, Commit(q) \/ CommitLost(q) \/ Abort(q)
      PROVE  snap'[s] = NoSnap \/ snap'[s] = snap[s]
  BY <1>2, <1>9 DEF Commit, CommitLost, Abort, Publish, Rollback
<1> QED
  BY <1>1, <1>3, <1>4, <1>5, <1>6, <1>7, <1>8, <1>9 DEF Next

\* Only a task that never ran fails with a dependency.
LEMMA BlockedNeverRan ==
    ASSUME SessionInv, HistoryInv, NEW s \in Session, NEW t \in Task, Failed(s, t)
    PROVE  work[t].attempts = 0
<1>1. pc[s] = "propagating" /\ Blocked(snap[s], work[t]) /\ work[t] \in Row
  BY DEF Failed, SessionInv, TypeOK
<1>2. PICK d \in work[t].req.deps : snap[s][d].status = "failed"
  BY <1>1 DEF Blocked
<1>3. d \in Task
  BY <1>1, <1>2, RequestAssumption DEF SessionInv, RowOK, Blocked
<1>4. row[d].status # "completed"
  <2>1. row[d].status = "failed" \/ lock[d] = s
    BY <1>2, <1>3 DEF HistoryInv
  <2>2. lock[d] = s => row[d].status \in {"pending", "running"}
    BY <1>1, <1>3 DEF SessionInv, LockOK, JobOK
  <2> QED
    BY <2>1, <2>2
<1>5. ~(work[t].attempts > 0)
  BY <1>1, <1>2, <1>4 DEF HistoryInv, RanOK
<1> QED
  BY <1>1, <1>5 DEF Row

\* A statement's new version and the history with the event it adds.
LEMMA MoveHistory ==
    ASSUME SessionInv, HistoryInv, NEW s \in Session, NEW t \in Task, Moved(s, t)
    PROVE  /\ HistoryOK(work'[t], wevents'[t])
           /\ work'[t].attempts > 0 => \A d \in work'[t].req.deps : row[d].status = "completed"
<1> DEFINE r == work[t]
           h == wevents[t]
           q == work'[t]
           Good == /\ HistoryOK(q, wevents'[t])
                   /\ q.attempts > 0 => \A d \in q.req.deps : row[d].status = "completed"
<1> SUFFICES Good
  OBVIOUS
<1>1. /\ r \in Row /\ h \in Seq(Event) /\ HistoryOK(r, h) /\ RanOK(r) /\ r.attempts \in Nat
      /\ job[s] \in Job /\ job[s].req \in Request \cup {NoRequest}
  BY DEF SessionInv, TypeOK, HistoryInv, Row, Job
<1>2. CASE Inserted(s, t)
  <2> DEFINE e == Ev("created", NoWorker)
  <2>1. /\ q.status = "pending" /\ q.attempts = 0 /\ h = <<>> /\ wevents'[t] = Append(h, e)
    BY <1>1, <1>2, InsertFacts DEF Inserted, Written, HistoryOK
  <2>2. e \in Event /\ e.action = "created"
    BY DEF Ev, Event
  <2> HIDE DEF e
  <2>3. /\ Len(Append(h, e)) = 1 /\ Append(h, e)[1] = e
    BY <1>1, <2>1
  <2>4. LegalHistory(Append(h, e))
    BY <2>2, <2>3 DEF LegalHistory
  <2>5. Cardinality(Claims(Append(h, e))) = 0
    BY <1>1, <2>1, <2>2, ClaimsAppend, ClaimsEmpty
  <2> QED
    BY <2>1, <2>2, <2>3, <2>4, <2>5 DEF HistoryOK, Outcome
\* The other statements replace a version of the same task and request.
<1>3. ASSUME NEW e \in Event, wevents'[t] = Append(h, e), r.status # "absent",
             Follows(e, h[Len(h)]), q.status # "absent", e.action \in Outcome(q),
             q.attempts = IF e.action = "claimed" THEN r.attempts + 1 ELSE r.attempts,
             q.attempts = 0 => e.action # "lease_expired",
             q.attempts > 0 => \A d \in q.req.deps : row[d].status = "completed",
             q.status = "running" => e = Ev("claimed", q.worker) /\ q.attempts > 0
      PROVE  Good
  <2> DEFINE g == Append(h, e)
  <2>1. Len(h) > 0 /\ LegalHistory(h) /\ Cardinality(Claims(h)) = r.attempts
    BY <1>1, <1>3 DEF HistoryOK
  <2>2. Len(g) > 0 /\ g[Len(g)] = e
    BY <1>1, <1>3
  <2>3. LegalHistory(g)
    BY <1>1, <1>3, <2>1, LegalAppend
  <2>4. Cardinality(Claims(g)) = q.attempts
    BY <1>1, <1>3, <2>1, ClaimsAppend
  <2> HIDE DEF g, q
  <2> QED
    BY <1>3, <2>2, <2>3, <2>4 DEF HistoryOK, g
<1>4. CASE Requeued(s, t)
  <2> DEFINE e == Ev(RecoveryAction(r), NoWorker)
  <2>1. /\ r.status = "running" /\ q = Recovered(r) /\ wevents'[t] = Append(h, e)
        /\ h[Len(h)].action = "claimed" /\ r.attempts > 0
        /\ \A d \in r.req.deps : row[d].status = "completed"
    BY <1>1, <1>4 DEF Requeued, Written, Expired, HistoryOK, Outcome, RanOK
  <2>2. /\ q.status \in {"pending", "failed"} /\ q.req = r.req /\ q.attempts = r.attempts
        /\ RecoveryAction(r) = IF q.status = "failed" THEN "attempts_exhausted"
                                                      ELSE "lease_expired"
    BY <1>1, <2>1 DEF Recovered, RecoveryAction, Row
  <2>3. e \in Event /\ e.action = RecoveryAction(r)
    BY <2>2 DEF Ev, Event
  <2> HIDE DEF e, q
  <2>4. Follows(e, h[Len(h)]) /\ e.action \in Outcome(q)
    BY <2>1, <2>2, <2>3 DEF Follows, Outcome
  <2> QED
    BY <1>1, <1>3, <2>1, <2>2, <2>3, <2>4
<1>5. CASE Failed(s, t)
  <2> DEFINE e == Ev("dependency_failed", NoWorker)
  <2>1. /\ r.status = "pending" /\ q = DependencyFailed(r) /\ wevents'[t] = Append(h, e)
        /\ r.attempts = 0 /\ h[Len(h)].action = "created"
    BY <1>1, <1>5, BlockedNeverRan DEF Failed, Written, Blocked, HistoryOK, Outcome
  <2>2. q.status = "failed" /\ q.req = r.req /\ q.attempts = r.attempts
    BY <1>1, <2>1 DEF DependencyFailed, Row
  <2>3. e \in Event /\ e.action = "dependency_failed"
    BY DEF Ev, Event
  <2> HIDE DEF e, q
  <2>4. Follows(e, h[Len(h)]) /\ e.action \in Outcome(q)
    BY <2>1, <2>2, <2>3 DEF Follows, Outcome
  <2> QED
    BY <1>1, <1>3, <2>1, <2>2, <2>3, <2>4
<1>6. CASE Leased(s, t)
  <2> DEFINE w == job[s].worker
             e == Ev("claimed", w)
  <2>1. /\ r.status = "pending" /\ q = Claimed(r, w) /\ wevents'[t] = Append(h, e)
        /\ h[Len(h)].action \in {"created", "lease_expired"} /\ w \in Worker
        /\ \A d \in r.req.deps : row[d].status = "completed"
    BY <1>1, <1>6 DEF Leased, Written, HistoryOK, Outcome, SessionInv, JobOK
  <2>2. /\ q.status = "running" /\ q.req = r.req /\ q.attempts = r.attempts + 1
        /\ q.worker = w
    BY <1>1, <2>1 DEF Claimed, Row
  <2>3. e \in Event /\ e.action = "claimed"
    BY <2>1 DEF Ev, Event
  <2> HIDE DEF e, q, w
  <2>4. Follows(e, h[Len(h)]) /\ e.action \in Outcome(q)
    BY <2>1, <2>2, <2>3 DEF Follows, Outcome
  <2> QED
    BY <1>1, <1>3, <2>1, <2>2, <2>3, <2>4 DEF e
<1>7. CASE Extended(s, t)
  <2>1. /\ r.status = "running" /\ q = Renewed(r) /\ wevents'[t] = h
    BY <1>7 DEF Extended, Owned
  <2>2. /\ q.status = r.status /\ q.req = r.req /\ q.attempts = r.attempts
        /\ q.worker = r.worker
    BY <1>1, <2>1 DEF Renewed, Row
  <2>3. Outcome(q) = Outcome(r)
    BY <2>2 DEF Outcome
  <2> HIDE DEF q
  <2> QED
    BY <1>1, <2>1, <2>2, <2>3 DEF HistoryOK, RanOK
<1>8. CASE Ended(s, t)
  <2> DEFINE e == Ev(job[s].op, job[s].worker)
  <2>1. /\ r.status = "running" /\ q = Finished(r, job[s].op) /\ wevents'[t] = Append(h, e)
        /\ r.worker = job[s].worker /\ job[s].op \in Terminal
    BY <1>8 DEF Ended, Owned, Written
  <2>2. /\ q.status = job[s].op /\ q.req = r.req /\ q.attempts = r.attempts
    BY <1>1, <2>1 DEF Finished, Row
  <2>3. e \in Event /\ e.action = job[s].op /\ e.worker = r.worker
    BY <1>1, <2>1 DEF Ev, Event, Row
  <2>4. h[Len(h)] = Ev("claimed", r.worker) /\ r.attempts > 0
    BY <1>1, <2>1 DEF HistoryOK
  <2> HIDE DEF e, q
  <2>5. Follows(e, h[Len(h)]) /\ e.action \in Outcome(q)
    BY <2>1, <2>2, <2>3, <2>4 DEF Follows, Outcome
  <2>6. \A d \in r.req.deps : row[d].status = "completed"
    BY <1>1, <2>4 DEF RanOK
  <2> QED
    BY <1>1, <1>3, <2>1, <2>2, <2>3, <2>4, <2>5, <2>6
<1> QED
  BY <1>2, <1>4, <1>5, <1>6, <1>7, <1>8 DEF Moved

LEMMA HistoryStep == SessionInv /\ HistoryInv /\ [Next]_vars => HistoryInv'
<1> SUFFICES ASSUME SessionInv, HistoryInv, [Next]_vars PROVE HistoryInv'
  OBVIOUS
<1>1. ASSUME NEW t \in Task
      PROVE  /\ HistoryOK(row'[t], events'[t]) /\ HistoryOK(work'[t], wevents'[t])
             /\ RanOK(row[t])' /\ RanOK(work[t])'
  <2>1. /\ HistoryOK(row[t], events[t]) /\ HistoryOK(work[t], wevents[t])
        /\ RanOK(row[t]) /\ RanOK(work[t])
        /\ row[t] \in Row /\ RowOK(row[t]) /\ work[t] \in Row /\ RowOK(work[t])
    BY DEF HistoryInv, SessionInv, TypeOK
  <2>2. /\ row[t].attempts > 0 => \A d \in row[t].req.deps : row'[d].status = "completed"
        /\ work[t].attempts > 0 => \A d \in work[t].req.deps : row'[d].status = "completed"
    BY <2>1, RanStays
  <2>3. CASE Kept(t) /\ Still(t)
    BY <2>1, <2>2, <2>3 DEF Kept, Still, RanOK
  <2>4. CASE \E s \in Session : Published(s, t) \/ Undone(s, t)
    BY <2>1, <2>2, <2>4 DEF Published, Undone, Kept, Still, RanOK
  <2>5. ASSUME NEW s \in Session, Still(t), Moved(s, t)
        PROVE  /\ HistoryOK(row'[t], events'[t]) /\ HistoryOK(work'[t], wevents'[t])
               /\ RanOK(row[t])' /\ RanOK(work[t])'
    <3>1. /\ HistoryOK(work'[t], wevents'[t])
          /\ work'[t].attempts > 0 => \A d \in work'[t].req.deps : row[d].status = "completed"
      BY <2>5, MoveHistory
    <3>2. /\ work'[t] \in Row /\ RowOK(work'[t])
      BY NextInv DEF SessionInv, TypeOK, RowOK
    <3>3. RanOK(work'[t])
      BY <3>1 DEF RanOK
    <3>4. RanOK(work[t])'
      BY <3>2, <3>3, RanStays DEF RanOK
    <3> QED
      BY <2>1, <2>2, <2>5, <3>1, <3>4 DEF Still, RanOK
  <2>6. Happens(t)
    BY Versions
  <2> QED
    BY <2>3, <2>4, <2>5, <2>6 DEF Happens, Locked
<1>2. ASSUME NEW s \in Session, NEW t \in Task, snap'[s][t].status = "failed"
      PROVE  row'[t].status = "failed" \/ (lock'[t] = s /\ work'[t].status = "failed")
  <2>1. CASE snap'[s] = NoSnap
    BY <1>2, <2>1 DEF NoSnap, AbsentRow
  <2>2. CASE snap'[s] = View(s) /\ UNCHANGED <<row, work, lock>>
    BY <1>2, <2>2 DEF View
  <2>3. CASE snap'[s] = snap[s] /\ ~EndSession(s)
    <3>1. row[t].status = "failed" \/ (lock[t] = s /\ work[t].status = "failed")
      BY <1>2, <2>3 DEF HistoryInv
    <3>2. CASE row[t].status = "failed"
      BY <3>2, RowsStay
    <3>3. CASE lock[t] = s /\ work[t].status = "failed"
      <4>1. ASSUME NEW q \in Session, Moved(q, t) PROVE FALSE
        BY <3>3, <4>1, InsertFacts DEF Moved, Requeued, Failed, Leased, Extended, Ended,
                                       Expired, Blocked, Owned
      <4>2. ASSUME NEW q \in Session, Published(q, t) \/ Undone(q, t) PROVE FALSE
        BY <2>3, <3>3, <4>2 DEF Published, Undone
      <4>3. Happens(t)
        BY Versions
      <4> QED
        BY <2>3, <3>3, <4>1, <4>2, <4>3, LocksHeld DEF Happens, Locked, Kept
    <3> QED
      BY <3>1, <3>2, <3>3
  <2> QED
    BY <2>1, <2>2, <2>3, SnapshotMoves
<1> QED
  BY <1>1, <1>2 DEF HistoryInv

-----------------------------------------------------------------------------
\* Insertion numbers, request keys and histories are right in every reachable
\* state of every instance.
THEOREM RecordsSafe == Spec => [](AgeInv /\ KeyInv /\ HistoryInv)
<1>1. Init => AgeInv /\ KeyInv
  BY DEF Init, AgeInv, AgeOK, KeyInv, NoSnap, AbsentRow
<1>2. Init => HistoryInv
  BY DEF Init, HistoryInv, HistoryOK, RanOK, NoSnap, AbsentRow
<1>3. SessionInv /\ (AgeInv /\ KeyInv /\ HistoryInv) /\ [Next]_vars
        => (AgeInv /\ KeyInv /\ HistoryInv)'
  BY AgeStep, KeyStep, HistoryStep
<1> QED
  BY <1>1, <1>2, <1>3, SessionsSafe, PTL DEF Spec

\* store.go:182-190: every dependency of a committed task is a committed task
\* that was inserted before it, so no chain of dependencies closes.
THEOREM DependencyOrder == Spec => []DependenciesOlder
<1>1. SessionInv /\ AgeInv => DependenciesOlder
  BY DEF SessionInv, DepsOK, AgeInv, AgeOK, DependenciesOlder
<1> QED
  BY <1>1, SessionsSafe, RecordsSafe, PTL

\* store.go:191-211: two successful answers for one request key are the same
\* answer, for the same input, and name a task that exists: whatever retries
\* raced, whichever transactions aborted and whichever answers were lost.
THEOREM CreateIdempotent == Spec => []IdempotentCreate
<1>1. SessionInv /\ KeyInv => IdempotentCreate
  <2> SUFFICES ASSUME SessionInv, KeyInv, NEW a \in replies, NEW b \in replies,
                      a.req.key = b.req.key
               PROVE  a = b
    BY DEF IdempotentCreate, KeyInv
  <2>1. /\ a.task \in Task /\ b.task \in Task
        /\ a = [req |-> a.req, task |-> a.task] /\ b = [req |-> b.req, task |-> b.task]
    BY DEF SessionInv, TypeOK
  <2>2. /\ row[a.task].status # "absent" /\ row[a.task].req = a.req
        /\ row[b.task].status # "absent" /\ row[b.task].req = b.req
    BY DEF KeyInv
  <2>3. /\ work[a.task].status # "absent" /\ work[a.task].req = a.req
        /\ work[b.task].status # "absent" /\ work[b.task].req = b.req
    BY <2>1, <2>2 DEF SessionInv, VersionOK
  <2>4. a.task = b.task
    BY <2>1, <2>3 DEF KeyInv
  <2> QED
    BY <2>1, <2>2, <2>4
<1> QED
  BY <1>1, SessionsSafe, RecordsSafe, PTL

\* store.go:202-217, 221-237, 268, 321: the committed events of every committed
\* task are a legal history of leases that ends in the task's status and counts
\* its attempts, within max_attempts.
THEOREM HistorySafe == Spec => []AuditTrail
<1>1. SessionInv /\ HistoryInv => AuditTrail
  BY DEF SessionInv, RowOK, HistoryInv, HistoryOK, AuditTrail
<1> QED
  BY <1>1, SessionsSafe, RecordsSafe, PTL

-----------------------------------------------------------------------------
(* Refinement of LeaseQueue.                                                *)

(* The counters.                                                            *)

\* Time does not run backwards, and passes only between statements.
LEMMA TimePasses ==
    ASSUME SessionInv, [Next]_vars
    PROVE  /\ clock \in Nat
           /\ \/ clock' = clock
              \/ clock' = clock + 1 /\ Tick
<1>1. ASSUME UNCHANGED vars PROVE clock' = clock
  BY <1>1 DEF vars
<1>2. ASSUME NEW s \in Session, Begin(s) \/ LockRow(s) \/ CreateStep(s) PROVE clock' = clock
  BY <1>2 DEF Begin, BeginCreate, BeginClaim, BeginUpdate, LockRow, CreateStep, InsertRow,
              InsertConflict, LookupSame, LookupConflict
<1>3. ASSUME NEW s \in Session, ClaimStep(s) PROVE clock' = clock
  BY <1>3 DEF ClaimStep, RecoverExpired, TakeSnapshot, FailBlocked, ClaimTask, ClaimNothing
<1>4. ASSUME NEW s \in Session, UpdateStep(s) \/ Commit(s) \/ CommitLost(s) \/ Abort(s)
      PROVE  clock' = clock
  BY <1>4 DEF UpdateStep, Heartbeat, Finish, RejectUpdate, Commit, CommitLost, Abort
<1>5. Tick => clock' = clock + 1
  BY DEF Tick
<1>6. clock \in Nat
  BY DEF SessionInv, TypeOK
<1> QED
  BY <1>1, <1>2, <1>3, <1>4, <1>5, <1>6 DEF Next

\* A token is drawn for each lease.
LEMMA TokensAdvance ==
    ASSUME SessionInv, [Next]_vars
    PROVE  /\ nextToken \in Nat \ {0}
           /\ \/ nextToken' = nextToken
              \/ /\ nextToken' = nextToken + 1
                 /\ \E s \in Session, t \in Task : ClaimTask(s, t)
<1> USE DEF fresh
<1>1. ASSUME UNCHANGED vars \/ Tick PROVE UNCHANGED nextToken
  BY <1>1 DEF vars, Tick
<1>2. ASSUME NEW s \in Session, Begin(s) \/ LockRow(s) \/ CreateStep(s)
      PROVE  UNCHANGED nextToken
  BY <1>2 DEF Begin, BeginCreate, BeginClaim, BeginUpdate, LockRow, CreateStep, InsertRow,
              InsertConflict, LookupSame, LookupConflict
<1>3. ASSUME NEW s \in Session, ClaimStep(s)
      PROVE  \/ UNCHANGED nextToken
             \/ \E t \in Task : ClaimTask(s, t) /\ nextToken' = nextToken + 1
  <2>1. ASSUME NEW t \in Task, ClaimTask(s, t) PROVE nextToken' = nextToken + 1
    BY <2>1 DEF ClaimTask
  <2>2. ASSUME ~ \E t \in Task : ClaimTask(s, t) PROVE UNCHANGED nextToken
    BY <1>3, <2>2 DEF ClaimStep, RecoverExpired, TakeSnapshot, FailBlocked, ClaimNothing
  <2> QED
    BY <2>1, <2>2
<1>4. ASSUME NEW s \in Session, UpdateStep(s) \/ Commit(s) \/ CommitLost(s) \/ Abort(s)
      PROVE  UNCHANGED nextToken
  BY <1>4 DEF UpdateStep, Heartbeat, Finish, RejectUpdate, Commit, CommitLost, Abort
<1>5. nextToken \in Nat \ {0}
  BY DEF SessionInv, TypeOK
<1> QED
  BY <1>1, <1>2, <1>3, <1>4, <1>5 DEF Next

-----------------------------------------------------------------------------
(* Tokens and deadlines.                                                    *)

\* The fields a statement writes.
LEMMA MoveFields ==
    ASSUME SessionInv, NEW s \in Session, NEW t \in Task, Moved(s, t)
    PROVE  /\ Inserted(s, t) => /\ work'[t].token = 0 /\ work'[t].until = 0
                                /\ work'[t].status = "pending"
           /\ Requeued(s, t) \/ Ended(s, t) =>
                 work'[t].token = 0 /\ work'[t].until = 0 /\ work'[t].status # "running"
           /\ Failed(s, t) => /\ work'[t].token = work[t].token
                              /\ work'[t].until = work[t].until /\ work'[t].status = "failed"
           /\ Leased(s, t) => /\ work'[t].token = nextToken
                              /\ work'[t].until = clock + LeaseDuration
                              /\ work'[t].status = "running"
           /\ Extended(s, t) => /\ work'[t].token = work[t].token
                                /\ work'[t].until = clock + LeaseDuration
                                /\ work'[t].status = "running"
<1>1. work[t] \in Row
  BY DEF SessionInv, TypeOK
<1>2. CASE Inserted(s, t)
  <2>1. work'[t] = NewRow(job[s].req)
    BY <1>2 DEF Inserted, Written
  <2> QED
    BY <1>2, <2>1 DEF NewRow, AbsentRow, Inserted, Requeued, Ended, Failed, Leased, Extended
<1>3. Requeued(s, t) =>
        work'[t].token = 0 /\ work'[t].until = 0 /\ work'[t].status # "running"
  BY <1>1 DEF Requeued, Written, Recovered, Row
<1>4. Ended(s, t) =>
        work'[t].token = 0 /\ work'[t].until = 0 /\ work'[t].status # "running"
  BY <1>1 DEF Ended, Written, Finished, Row
<1>5. Failed(s, t) => /\ work'[t].token = work[t].token
                      /\ work'[t].until = work[t].until /\ work'[t].status = "failed"
  BY <1>1 DEF Failed, Written, DependencyFailed, Row
<1>6. Leased(s, t) => /\ work'[t].token = nextToken
                      /\ work'[t].until = clock + LeaseDuration
                      /\ work'[t].status = "running"
  BY <1>1 DEF Leased, Written, Claimed, Row
<1>7. Extended(s, t) => /\ work'[t].token = work[t].token
                        /\ work'[t].until = clock + LeaseDuration
                        /\ work'[t].status = "running"
  BY <1>1 DEF Extended, Owned, Renewed, Row
<1> QED
  BY <1>2, <1>3, <1>4, <1>5, <1>6, <1>7

\* Only a claim gives a task a token that none of its versions had, and then
\* to one task only.
LEMMA TokenSource ==
    ASSUME SessionInv, [Next]_vars
    PROVE  /\ \A t \in Task :
                /\ row'[t].token \in {row[t].token, work[t].token}
                /\ \/ work'[t].token \in {0, row[t].token, work[t].token}
                   \/ \E s \in Session : Leased(s, t) /\ work'[t].token = nextToken
           /\ \A t, u \in Task : (/\ \E s \in Session : Leased(s, t)
                                  /\ \E s \in Session : Leased(s, u)) => t = u
<1>1. ASSUME NEW t \in Task
      PROVE  /\ row'[t].token \in {row[t].token, work[t].token}
             /\ \/ work'[t].token \in {0, row[t].token, work[t].token}
                \/ \E s \in Session : Leased(s, t) /\ work'[t].token = nextToken
  <2>1. CASE Kept(t) /\ Still(t)
    BY <2>1 DEF Kept, Still
  <2>2. CASE \E s \in Session : Published(s, t) \/ Undone(s, t)
    BY <2>2 DEF Published, Undone, Kept, Still
  <2>3. ASSUME NEW s \in Session, Still(t), Moved(s, t)
        PROVE  /\ row'[t].token \in {row[t].token, work[t].token}
               /\ \/ work'[t].token \in {0, row[t].token, work[t].token}
                  \/ \E q \in Session : Leased(q, t) /\ work'[t].token = nextToken
    BY <2>3, MoveFields DEF Moved, Still
  <2>4. Happens(t)
    BY Versions
  <2> QED
    BY <2>1, <2>2, <2>3, <2>4 DEF Happens, Locked
<1>2. ASSUME NEW t \in Task, NEW u \in Task, NEW s \in Session, Leased(s, t),
             NEW q \in Session, Leased(q, u)
      PROVE  t = u
  <2>1. PICK z \in Session, c \in Task : ClaimTask(z, c)
    BY <1>2, TokensAdvance DEF Leased
  <2>2. \A v \in Task : v # c => work'[v] = work[v]
    BY <2>1 DEF ClaimTask, Write
  <2>3. work'[t] # work[t] /\ work'[u] # work[u]
    BY <1>2, MoveFields DEF Leased, Moved
  <2> QED
    BY <2>2, <2>3
<1> QED
  BY <1>1, <1>2

\* The first two parts of LeaseInv.
LEMMA TokenStep ==
    ASSUME SessionInv, LeaseInv, [Next]_vars
    PROVE  /\ \A t \in Task : LeaseOK(row[t])' /\ LeaseOK(work[t])'
           /\ \A t, u \in Task : t # u =>
                 \A x \in {row'[t], work'[t]}, y \in {row'[u], work'[u]} :
                    x.token = y.token => x.token = 0
<1>1. /\ clock \in Nat /\ clock' \in {clock, clock + 1} /\ nextToken \in Nat \ {0}
      /\ nextToken' \in {nextToken, nextToken + 1} /\ LeaseDuration \in Nat
  BY TimePasses, TokensAdvance, StoreAssumption
<1>2. ASSUME NEW t \in Task PROVE LeaseOK(row[t])' /\ LeaseOK(work[t])'
  <2>1. row[t] \in Row /\ work[t] \in Row /\ LeaseOK(row[t]) /\ LeaseOK(work[t])
    BY DEF SessionInv, TypeOK, LeaseInv
  <2>2. ASSUME NEW r \in Row, LeaseOK(r)
        PROVE  /\ r.token < nextToken' /\ r.until <= clock' + LeaseDuration
               /\ r.status # "running" => r.token = 0
    BY <1>1, <2>2 DEF LeaseOK, Row
  <2>3. CASE Kept(t) /\ Still(t)
    BY <2>1, <2>2, <2>3 DEF Kept, Still, LeaseOK
  <2>4. CASE \E s \in Session : Published(s, t) \/ Undone(s, t)
    BY <2>1, <2>2, <2>4 DEF Published, Undone, Kept, Still, LeaseOK
  <2>5. ASSUME NEW s \in Session, Still(t), Moved(s, t)
        PROVE  LeaseOK(row[t])' /\ LeaseOK(work[t])'
    <3>1. LeaseOK(row[t])'
      BY <2>1, <2>2, <2>5 DEF Still, LeaseOK
    <3>2. CASE Inserted(s, t) \/ Requeued(s, t) \/ Ended(s, t)
      <4>1. work'[t].token = 0 /\ work'[t].until = 0
        BY <2>5, <3>2, MoveFields
      <4> QED
        BY <1>1, <3>1, <4>1 DEF LeaseOK
    <3>3. CASE Failed(s, t)
      <4>1. /\ work'[t].token = work[t].token /\ work'[t].until = work[t].until
            /\ work[t].status = "pending"
        BY <2>5, <3>3, MoveFields DEF Failed, Blocked
      <4> QED
        BY <2>1, <2>2, <3>1, <4>1 DEF LeaseOK
    <3>4. CASE Leased(s, t)
      <4>1. /\ work'[t].token = nextToken /\ work'[t].until = clock + LeaseDuration
            /\ work'[t].status = "running" /\ nextToken' = nextToken + 1
        BY <2>5, <3>4, MoveFields DEF Leased
      <4> QED
        BY <1>1, <3>1, <4>1 DEF LeaseOK
    <3>5. CASE Extended(s, t)
      <4>1. /\ work'[t].token = work[t].token /\ work'[t].until = clock + LeaseDuration
            /\ work'[t].status = "running"
        BY <2>5, <3>5, MoveFields
      <4> QED
        BY <1>1, <2>1, <2>2, <3>1, <4>1 DEF LeaseOK
    <3> QED
      BY <2>5, <3>2, <3>3, <3>4, <3>5 DEF Moved
  <2>6. Happens(t)
    BY Versions
  <2> QED
    BY <2>3, <2>4, <2>5, <2>6 DEF Happens, Locked
<1>3. ASSUME NEW t \in Task, NEW u \in Task, t # u,
             NEW x \in {row'[t], work'[t]}, NEW y \in {row'[u], work'[u]},
             x.token = y.token
      PROVE  x.token = 0
  <2>1. /\ row[t].token < nextToken /\ work[t].token < nextToken
        /\ row[u].token < nextToken /\ work[u].token < nextToken
        /\ row[t].token \in Nat /\ work[t].token \in Nat
        /\ row[u].token \in Nat /\ work[u].token \in Nat
    BY DEF LeaseInv, LeaseOK, SessionInv, TypeOK, Row
  <2>2. \A a \in {row[t].token, work[t].token}, b \in {row[u].token, work[u].token} :
           a = b => a = 0
    BY <1>3 DEF LeaseInv
  <2>3. \/ x.token \in {0, row[t].token, work[t].token}
        \/ \E s \in Session : Leased(s, t) /\ x.token = nextToken
    BY <1>3, TokenSource
  <2>4. \/ y.token \in {0, row[u].token, work[u].token}
        \/ \E s \in Session : Leased(s, u) /\ y.token = nextToken
    BY <1>3, TokenSource
  <2>5. ~ (/\ \E s \in Session : Leased(s, t)
           /\ \E s \in Session : Leased(s, u))
    BY <1>3, TokenSource
  <2> QED
    BY <1>1, <1>3, <2>1, <2>2, <2>3, <2>4, <2>5
<1> QED
  BY <1>2, <1>3

-----------------------------------------------------------------------------
(* The change a transaction carries.                                        *)

\* While it has locked rows, a session keeps to its operation.
LEMMA JobStays ==
    ASSUME SessionInv, [Next]_vars, NEW s \in Session, NEW t \in Task,
           lock[t] = s, lock'[t] = s
    PROVE  \/ Moved(s, t)
           \/ /\ job'[s].op = job[s].op
              /\ \/ job'[s].task = job[s].task
                 \/ job[s].op = "claim" /\ job[s].task = NoTask /\ job'[s].task # t
              /\ pc'[s] = "commit" /\ job[s].op \in LeaseOp => pc[s] = "commit"
<1> DEFINE Same == job'[s] = job[s] /\ pc'[s] = pc[s]
<1>1. /\ s # NoSession /\ pc[s] \in Claiming \cup {"update", "commit"}
      /\ pc[s] \in Claiming => job[s].op = "claim"
  BY StoreAssumption DEF SessionInv, LockOK, JobOK
<1> USE DEF Goto
<1>2. ASSUME UNCHANGED vars \/ Tick PROVE Same
  BY <1>2 DEF vars, Tick, sessions
<1>3. ASSUME NEW q \in Session, Begin(q) PROVE Same
  BY <1>1, <1>3 DEF Begin, BeginCreate, BeginClaim, BeginUpdate, SessionInv, TypeOK
<1>4. ASSUME NEW q \in Session, EndSession(q) PROVE Same
  BY <1>1, <1>4 DEF EndSession, SessionInv, TypeOK
<1>5. ASSUME NEW q \in Session, CreateStep(q) PROVE Same
  <2>1. ASSUME NEW u \in Task, LookupConflict(q, u) PROVE Same
    BY <1>4, <2>1 DEF LookupConflict, Rollback
  <2>2. ASSUME InsertConflict(q) \/ \E u \in Task : InsertRow(q, u) \/ LookupSame(q, u)
        PROVE  Same
    BY <1>1, <2>2 DEF InsertRow, InsertConflict, LookupSame, SessionInv, TypeOK
  <2> QED
    BY <1>5, <2>1, <2>2 DEF CreateStep
<1>6. ASSUME NEW q \in Session, q # s, ClaimStep(q) \/ LockRow(q) \/ Heartbeat(q) \/ Finish(q)
      PROVE  Same
  BY <1>6 DEF ClaimStep, RecoverExpired, TakeSnapshot, FailBlocked, ClaimTask, ClaimNothing,
              LockRow, Heartbeat, Finish, SessionInv, TypeOK
<1>7. ASSUME ClaimStep(s)
      PROVE  \/ Moved(s, t)
             \/ job[s].op = "claim" /\ job'[s] = job[s]
             \/ /\ job[s].op = "claim" /\ job'[s].op = "claim"
                /\ job[s].task = NoTask /\ job'[s].task # t
  <2>1. job[s].op = "claim" /\ job[s].task = NoTask /\ job[s] \in Job
    BY <1>1, <1>7 DEF SessionInv, TypeOK, JobOK, ClaimStep, RecoverExpired, TakeSnapshot,
                      FailBlocked, ClaimTask, ClaimNothing
  <2>2. ASSUME NEW c \in Task, ClaimTask(s, c), c # t
        PROVE  job'[s].op = "claim" /\ job'[s].task # t
    BY <2>1, <2>2 DEF ClaimTask, SessionInv, TypeOK, Job
  <2>3. ASSUME ClaimTask(s, t) PROVE Moved(s, t)
    BY <2>3, ClaimMoves DEF Moved
  <2>4. ASSUME ~ \E c \in Task : ClaimTask(s, c) PROVE job'[s] = job[s]
    BY <1>7, <2>4 DEF ClaimStep, RecoverExpired, TakeSnapshot, FailBlocked, ClaimNothing
  <2> QED
    BY <2>1, <2>2, <2>3, <2>4
<1>8. ~LockRow(s)
  BY <1>1 DEF LockRow
<1>9. ASSUME Heartbeat(s) \/ Finish(s) PROVE Moved(s, t)
  <2>1. pc[s] = "update" /\ t = job[s].task /\ Owned(work[t], job[s])
    BY <1>9 DEF Heartbeat, Finish, SessionInv, LockOK
  <2>2. Heartbeat(s) => Extended(s, t)
    BY <2>1 DEF Heartbeat, Extended, SessionInv, TypeOK
  <2>3. Finish(s) => Ended(s, t)
    BY <2>1 DEF Finish, Write, Ended, Written
  <2> QED
    BY <1>9, <2>2, <2>3 DEF Moved
<1>10. ASSUME NEW q \in Session, RejectUpdate(q) \/ Commit(q) \/ CommitLost(q) \/ Abort(q)
       PROVE  Same
  BY <1>4, <1>10 DEF RejectUpdate, Commit, CommitLost, Abort, Publish, Rollback
<1> QED
  BY <1>2, <1>3, <1>5, <1>6, <1>7, <1>8, <1>9, <1>10 DEF Next, UpdateStep

\* A parent of t that claim s saw fail has failed, or fails with the claim,
\* and this does not change while the claim runs.
LEMMA FailureStays ==
    ASSUME SessionInv, [Next]_vars, NEW s \in Session, ~EndSession(s), NEW d \in Task,
           row[d].status = "failed" \/ (lock[d] = s /\ work[d].status = "failed")
    PROVE  row'[d].status = "failed" \/ (lock'[d] = s /\ work'[d].status = "failed")
<1>1. CASE row[d].status = "failed"
  BY <1>1, RowsStay
<1>2. CASE lock[d] = s /\ work[d].status = "failed"
  <2>1. ASSUME NEW q \in Session, Moved(q, d) PROVE FALSE
    BY <1>2, <2>1, InsertFacts DEF Moved, Requeued, Failed, Leased, Extended, Ended,
                                   Expired, Blocked, Owned
  <2>2. ASSUME NEW q \in Session, Published(q, d) \/ Undone(q, d) PROVE FALSE
    BY <1>2, <2>2 DEF Published, Undone
  <2>3. Happens(d)
    BY Versions
  <2> QED
    BY <1>2, <2>1, <2>2, <2>3, LocksHeld DEF Happens, Locked, Kept
<1> QED
  BY <1>1, <1>2

\* Row r under the lease of q.
Relet(r, q) == [r EXCEPT !.status = "running", !.worker = q.worker, !.token = q.token,
                         !.until = q.until, !.attempts = @ + 1]

\* A claim overwrites what the recovery of the same row wrote.
LEMMA ClaimedAgain ==
    ASSUME NEW r \in Row, NEW x \in {r, Recovered(r)}, NEW w, NEW q, q = Claimed(x, w)
    PROVE  q = Relet(r, q)
<1> USE DEF Relet
<1> DEFINE p == [r EXCEPT !.status = "running", !.worker = w, !.token = nextToken,
                          !.until = clock + LeaseDuration, !.attempts = r.attempts + 1]
<1>1. CASE x = r
  <2>1. q = p
    BY <1>1 DEF Claimed
  <2>2. p.worker = w /\ p.token = nextToken /\ p.until = clock + LeaseDuration
    BY DEF Row
  <2> QED
    BY <2>1, <2>2
<1>2. CASE x = Recovered(r)
  <2>1. x.attempts = r.attempts
    BY <1>2 DEF Recovered, Row
  <2>2. q = p
    BY <1>2, <2>1 DEF Claimed, Recovered, Row
  <2>3. p.worker = w /\ p.token = nextToken /\ p.until = clock + LeaseDuration
    BY DEF Row
  <2> QED
    BY <2>2, <2>3
<1> QED
  BY <1>1, <1>2

\* A statement that writes a row takes it one step along its life cycle.
LEMMA ChangeMoved ==
    ASSUME SessionInv, HistoryInv, LeaseInv, [Next]_vars,
           NEW s \in Session, NEW t \in Task, Moved(s, t), Still(t)
    PROVE  ChangeOK(s, t)'
<1>1. row[t] \in Row /\ work[t] \in Row /\ row'[t] = row[t] /\ NoTask # t
  BY StoreAssumption DEF SessionInv, TypeOK, Still
<1>2. CASE Inserted(s, t)
  <2>1. /\ work'[t] = NewRow(job[s].req) /\ job'[s].op = "create" /\ job'[s].task = t
    BY <1>2 DEF Inserted, Written, SessionInv, JobOK
  <2>2. work'[t] = [AbsentRow EXCEPT !.status = "pending", !.req = work'[t].req,
                                     !.created = work'[t].created]
    BY <2>1 DEF NewRow, AbsentRow
  <2> QED
    BY <2>1, <2>2 DEF ChangeOK
<1>3. CASE Requeued(s, t)
  <2>1. /\ work[t] = row[t] /\ row[t].status = "running" /\ work'[t] = Recovered(row[t])
        /\ job'[s].op = "claim" /\ job'[s].task = NoTask
    BY <1>3 DEF Requeued, Written, Expired, SessionInv, JobOK, VersionOK
  <2>2. Reaped(s, t)'
    BY <1>1, <2>1 DEF Reaped, Recovered
  <2> QED
    BY <2>1, <2>2 DEF ChangeOK
<1>4. CASE Failed(s, t)
  <2>1. /\ pc[s] = "propagating" /\ job[s].op = "claim" /\ job[s].task = NoTask
        /\ job'[s] = job[s] /\ work[t].status = "pending"
        /\ work'[t] = DependencyFailed(work[t]) /\ work[t].attempts = 0
        /\ lock[t] \in {NoSession, s} /\ ~EndSession(s)
    <3>1. lock'[t] = s /\ s # NoSession
      BY <1>4, StoreAssumption DEF Failed
    <3> QED
      BY <1>4, <3>1, BlockedNeverRan
         DEF Failed, Written, Blocked, SessionInv, JobOK, EndSession
  <2>2. lock[t] = NoSession
    <3>1. ASSUME lock[t] = s PROVE FALSE
      <4>1. Reaped(s, t) \/ Cascaded(s, t)
        BY <1>1, <2>1, <3>1 DEF LeaseInv, ChangeOK, Granted
      <4>2. ~Cascaded(s, t)
        BY <1>1, <2>1 DEF Cascaded, DependencyFailed, Row
      <4>3. row[t].status = "running" /\ row[t].attempts = 0
        BY <1>1, <2>1, <4>1, <4>2 DEF Reaped, Recovered, Row
      <4> QED
        BY <4>3 DEF HistoryInv, HistoryOK
    <3> QED
      BY <2>1, <3>1
  <2>3. work[t] = row[t]
    BY <2>2 DEF SessionInv, VersionOK
  <2>4. PICK d \in row[t].req.deps : snap[s][d].status = "failed"
    BY <1>4, <2>3 DEF Failed, Blocked
  <2>5. d \in Task
    BY <2>1, <2>3, <2>4, RequestAssumption DEF SessionInv, RowOK
  <2>6. row'[d].status = "failed" \/ (lock'[d] = s /\ work'[d].status = "failed")
    BY <2>1, <2>4, <2>5, FailureStays DEF HistoryInv
  <2>7. Cascaded(s, t)'
    BY <1>1, <2>1, <2>3, <2>4, <2>6 DEF Cascaded, DependencyFailed
  <2> QED
    BY <2>1, <2>7 DEF ChangeOK
<1>5. CASE Leased(s, t)
  <2>1. /\ pc[s] = "claiming" /\ job[s].op = "claim" /\ job[s].task = NoTask
        /\ job'[s].op = "claim" /\ job'[s].task = t /\ work[t].status = "pending"
        /\ work'[t] = Claimed(work[t], job[s].worker)
        /\ lock[t] \in {NoSession, s}
    BY <1>5 DEF Leased, Written, SessionInv, JobOK
  <2>2. /\ work[t].attempts < work[t].req.max /\ work[t].req = row[t].req
        /\ work[t].attempts = row[t].attempts
        /\ work[t] \in {row[t], Recovered(row[t])}
    <3>1. work[t].attempts < work[t].req.max
      BY <2>1 DEF SessionInv, RowOK
    <3>2. CASE lock[t] = NoSession
      BY <3>1, <3>2 DEF SessionInv, VersionOK
    <3>3. CASE lock[t] = s
      <4>1. Reaped(s, t) \/ Cascaded(s, t)
        BY <1>1, <2>1, <3>3 DEF LeaseInv, ChangeOK, Granted
      <4>2. ~Cascaded(s, t)
        BY <1>1, <2>1 DEF Cascaded, DependencyFailed, Row
      <4> QED
        BY <1>1, <3>1, <4>1, <4>2 DEF Reaped, Recovered, Row
    <3> QED
      BY <2>1, <3>2, <3>3
  <2>3. work'[t] = Relet(row[t], work'[t])
    BY <1>1, <2>1, <2>2, ClaimedAgain
  <2>4. work'[t].token \notin {0, row[t].token}
    <3>1. work'[t].token = nextToken
      BY <1>5, MoveFields
    <3>2. row[t].token < nextToken /\ row[t].token \in Nat /\ nextToken \in Nat \ {0}
      BY DEF LeaseInv, LeaseOK, SessionInv, TypeOK, Row
    <3> QED
      BY <3>1, <3>2
  <2>5. Granted(s, t)'
    BY <1>1, <2>1, <2>2, <2>3, <2>4 DEF Granted, Relet
  <2> QED
    BY <2>1, <2>5 DEF ChangeOK
<1>6. CASE Extended(s, t)
  <2>1. /\ work[t] = row[t] /\ work'[t] = Renewed(row[t]) /\ job'[s] = job[s]
        /\ job[s].op = "heartbeat"
    BY <1>6 DEF Extended, SessionInv, LockOK
  <2>2. /\ work'[t] = [row[t] EXCEPT !.until = work'[t].until]
        /\ work'[t].until = clock + LeaseDuration
    BY <1>1, <2>1 DEF Renewed, Row
  <2>3. clock + LeaseDuration >= row[t].until
    BY StoreAssumption DEF LeaseInv, LeaseOK, SessionInv, TypeOK, Row
  <2> QED
    BY <1>1, <2>1, <2>2, <2>3 DEF ChangeOK
<1>7. CASE Ended(s, t)
  <2>1. /\ work[t] = row[t] /\ work'[t] = Finished(row[t], job[s].op) /\ job'[s] = job[s]
        /\ job[s].op \in Terminal
    BY <1>7 DEF Ended, Written, SessionInv, LockOK
  <2> QED
    BY <1>1, <2>1 DEF ChangeOK, Finished
<1> QED
  BY <1>2, <1>3, <1>4, <1>5, <1>6, <1>7 DEF Moved

\* What a session carries stays what it is while others run.
LEMMA ChangeStays ==
    ASSUME SessionInv, HistoryInv, LeaseInv, [Next]_vars,
           NEW s \in Session, NEW t \in Task, lock[t] = s, lock'[t] = s
    PROVE  ChangeOK(s, t)'
<1>1. s # NoSession /\ ~EndSession(s)
  BY StoreAssumption DEF EndSession
<1>2. Happens(t)
  BY Versions
<1>3. ~ \E q \in Session : Published(q, t) \/ Undone(q, t) \/ Locked(q, t)
  BY <1>1 DEF Published, Undone, Locked
<1>4. ASSUME NEW q \in Session, Moved(q, t) PROVE q = s
  BY <1>4 DEF Moved, Inserted, Requeued, Failed, Leased, Extended, Ended
<1>5. Still(t)
  BY <1>2, <1>3 DEF Happens
<1>6. CASE Moved(s, t)
  BY <1>5, <1>6, ChangeMoved
<1>7. CASE ~Moved(s, t)
  <2>1. Kept(t)
    BY <1>2, <1>3, <1>4, <1>7 DEF Happens
  <2>2. /\ job'[s].op = job[s].op
        /\ \/ job'[s].task = job[s].task
           \/ job[s].op = "claim" /\ job[s].task = NoTask /\ job'[s].task # t
        /\ pc'[s] = "commit" /\ job[s].op \in LeaseOp => pc[s] = "commit"
    BY <1>7, JobStays
  <2>3. row'[t] = row[t] /\ work'[t] = work[t] /\ ChangeOK(s, t)
    BY <1>5, <2>1 DEF Still, Kept, LeaseInv
  <2>4. Reaped(s, t) => Reaped(s, t)'
    BY <2>2, <2>3 DEF Reaped, Recovered
  <2>5. Cascaded(s, t) => Cascaded(s, t)'
    <3> SUFFICES ASSUME Cascaded(s, t) PROVE Cascaded(s, t)'
      OBVIOUS
    <3>1. PICK d \in row[t].req.deps :
             row[d].status = "failed" \/ (lock[d] = s /\ work[d].status = "failed")
      BY DEF Cascaded
    <3>2. d \in Task
      BY RequestAssumption DEF Cascaded, SessionInv, RowOK
    <3>3. row'[d].status = "failed" \/ (lock'[d] = s /\ work'[d].status = "failed")
      BY <1>1, <3>1, <3>2, FailureStays
    <3> QED
      BY <2>2, <2>3, <3>1, <3>3 DEF Cascaded, DependencyFailed
  <2>6. Granted(s, t) => Granted(s, t)'
    BY <2>2, <2>3, StoreAssumption DEF Granted
  <2>7. CASE job[s].op = "claim"
    BY <2>2, <2>3, <2>4, <2>5, <2>6, <2>7 DEF ChangeOK
  <2>8. CASE job[s].op # "claim"
    BY <2>2, <2>3, <2>8 DEF ChangeOK, Finished
  <2> QED
    BY <2>7, <2>8
<1> QED
  BY <1>6, <1>7

LEMMA LeaseStep == SessionInv /\ HistoryInv /\ LeaseInv /\ [Next]_vars => LeaseInv'
<1> SUFFICES ASSUME SessionInv, HistoryInv, LeaseInv, [Next]_vars PROVE LeaseInv'
  OBVIOUS
<1>1. ASSUME NEW s \in Session, NEW t \in Task, lock'[t] = s PROVE ChangeOK(s, t)'
  <2>1. CASE lock[t] = s
    BY <1>1, <2>1, ChangeStays
  <2>2. CASE lock[t] # s
    <3>1. s # NoSession /\ Happens(t)
      BY Versions, StoreAssumption
    <3>2. ASSUME NEW q \in Session, Published(q, t) \/ Undone(q, t) PROVE FALSE
      BY <1>1, <2>2, <3>1, <3>2 DEF Published, Undone, EndSession
    <3>3. ASSUME NEW q \in Session, Moved(q, t), Still(t) PROVE ChangeOK(s, t)'
      <4>1. q = s
        BY <1>1, <3>3 DEF Moved, Inserted, Requeued, Failed, Leased, Extended, Ended
      <4> QED
        BY <3>3, <4>1, ChangeMoved
    <3>4. ASSUME NEW q \in Session, Locked(q, t) PROVE ChangeOK(s, t)'
      BY <1>1, <3>4 DEF Locked, ChangeOK
    <3> QED
      BY <1>1, <2>2, <3>1, <3>2, <3>3, <3>4 DEF Happens
  <2> QED
    BY <2>1, <2>2
<1> QED
  BY <1>1, TokenStep DEF LeaseInv

-----------------------------------------------------------------------------
(* A commit is a step of LeaseQueue.                                        *)

promised == [t \in Task |-> Promised(row[t])]

Promise == [status : Status, deps : SUBSET Task, max : Nat, worker : Worker \cup {NoWorker},
            token : Nat, until : Nat, attempts : Nat]

LEMMA PromisedType ==
    ASSUME NEW r \in Row, RowOK(r)
    PROVE  /\ Promised(r) \in Promise
           /\ Promised(r).status = r.status /\ Promised(r).worker = r.worker
           /\ Promised(r).token = r.token /\ Promised(r).until = r.until
           /\ Promised(r).attempts = r.attempts
           /\ r.status # "absent" => /\ Promised(r).deps = r.req.deps
                                     /\ Promised(r).max = r.req.max
<1>1. r.status # "absent" => r.req.deps \in SUBSET Task /\ r.req.max \in Nat
  BY RequestAssumption DEF RowOK
<1> QED
  BY <1>1 DEF Promised, Promise, Row

\* What COMMIT publishes of task t.
LEMMA Committed ==
    ASSUME SessionInv, LeaseInv, NEW s \in Session, pc[s] = "commit", Publish(s),
           NEW t \in Task
    PROVE  /\ promised[t] = Promised(row[t]) /\ promised'[t] = Promised(row'[t])
           /\ row[t] \in Row /\ row'[t] \in Row /\ RowOK(row[t]) /\ RowOK(row'[t])
           /\ lock[t] # s => row'[t] = row[t]
           /\ lock[t] = s => row'[t] = work[t] /\ ChangeOK(s, t) /\ LockOK(s, t)
BY DEF Publish, SessionInv, TypeOK, LeaseInv, promised

\* Record q is record p with some of its fields replaced by those of q.
ReleasedAs(p, q) == [p EXCEPT !.status = q.status, !.worker = q.worker,
                              !.token = q.token, !.until = q.until]
LeasedAs(p, q) == [p EXCEPT !.status = q.status, !.worker = q.worker,
                            !.token = q.token, !.until = q.until, !.attempts = @ + 1]
FailedAs(p, q) == [p EXCEPT !.status = q.status]
RenewedAs(p, q) == [p EXCEPT !.until = q.until]
FinishedAs(p, q) == [p EXCEPT !.status = q.status, !.token = q.token, !.until = q.until]

SubmittedAs(p, q) == [p EXCEPT !.status = q.status, !.deps = q.deps, !.max = q.max]

LEMMA PromiseMade ==
    ASSUME NEW p \in Promise, NEW q \in Promise, q.worker = p.worker,
           q.token = p.token, q.until = p.until, q.attempts = p.attempts
    PROVE  q = SubmittedAs(p, q)
BY DEF Promise, SubmittedAs

LEMMA PromiseChanges ==
    ASSUME NEW p \in Promise, NEW q \in Promise, q.deps = p.deps, q.max = p.max
    PROVE  /\ q.attempts = p.attempts => q = ReleasedAs(p, q)
           /\ q.attempts = p.attempts + 1 => q = LeasedAs(p, q)
           /\ (/\ q.attempts = p.attempts /\ q.worker = p.worker
               /\ q.token = p.token /\ q.until = p.until) => q = FailedAs(p, q)
           /\ (/\ q.attempts = p.attempts /\ q.worker = p.worker
               /\ q.token = p.token /\ q.status = p.status) => q = RenewedAs(p, q)
           /\ (q.attempts = p.attempts /\ q.worker = p.worker) => q = FinishedAs(p, q)
<1>1. q.attempts = p.attempts => q = ReleasedAs(p, q)
  BY DEF Promise, ReleasedAs
<1>2. q.attempts = p.attempts + 1 => q = LeasedAs(p, q)
  BY DEF Promise, LeasedAs
<1>3. (/\ q.attempts = p.attempts /\ q.worker = p.worker
       /\ q.token = p.token /\ q.until = p.until) => q = FailedAs(p, q)
  BY DEF Promise, FailedAs
<1>4. (/\ q.attempts = p.attempts /\ q.worker = p.worker
       /\ q.token = p.token /\ q.status = p.status) => q = RenewedAs(p, q)
  BY DEF Promise, RenewedAs
<1>5. (q.attempts = p.attempts /\ q.worker = p.worker) => q = FinishedAs(p, q)
  BY DEF Promise, FinishedAs
<1> QED
  BY <1>1, <1>2, <1>3, <1>4, <1>5

\* What the two versions of a row that s publishes are to a client.
LEMMA TwoPromises ==
    ASSUME SessionInv, LeaseInv, NEW s \in Session, pc[s] = "commit", Publish(s),
           NEW t \in Task, lock[t] = s, row[t].status # "absent"
    PROVE  /\ promised[t] \in Promise /\ promised'[t] \in Promise
           /\ promised'[t].deps = promised[t].deps /\ promised[t].deps = row[t].req.deps
           /\ promised'[t].max = promised[t].max /\ promised[t].max = row[t].req.max
           /\ promised[t].status = row[t].status /\ promised'[t].status = work[t].status
           /\ promised[t].worker = row[t].worker /\ promised'[t].worker = work[t].worker
           /\ promised[t].token = row[t].token /\ promised'[t].token = work[t].token
           /\ promised[t].until = row[t].until /\ promised'[t].until = work[t].until
           /\ promised[t].attempts = row[t].attempts
           /\ promised'[t].attempts = work[t].attempts
<1>1. /\ promised[t] = Promised(row[t]) /\ promised'[t] = Promised(work[t])
      /\ row[t] \in Row /\ work[t] \in Row /\ RowOK(row[t]) /\ RowOK(work[t])
  BY Committed
<1>2. work[t].status # "absent" /\ work[t].req = row[t].req
  BY DEF SessionInv, VersionOK
<1> QED
  BY <1>1, <1>2, PromisedType

LEMMA ReapedOne ==
    ASSUME SessionInv, LeaseInv, NEW s \in Session, pc[s] = "commit", Publish(s),
           job[s].op = "claim", NEW t \in Task, lock[t] = s, Reaped(s, t)
    PROVE  (Queue!Requeue(t) \/ Queue!Exhaust(t)) /\ promised'[t].token = 0
<1> DEFINE a == promised[t]
           b == promised'[t]
<1>1. /\ row[t].status = "running" /\ row[t].until <= clock
      /\ row[t] \in Row /\ RowOK(row[t])
  BY Committed DEF Reaped, LockOK
<1>2. /\ work[t].attempts = row[t].attempts /\ work[t].worker = NoWorker
      /\ work[t].token = 0 /\ work[t].until = 0
      /\ work[t].status = IF row[t].attempts >= row[t].req.max THEN "failed" ELSE "pending"
  BY <1>1 DEF Reaped, Recovered, Row
<1>3. /\ a \in Promise /\ b \in Promise /\ b.deps = a.deps /\ b.max = a.max
      /\ a.max = row[t].req.max /\ a.status = "running" /\ a.until <= clock
      /\ b.attempts = a.attempts /\ b.worker = NoWorker /\ b.token = 0 /\ b.until = 0
      /\ b.status = IF a.attempts >= a.max THEN "failed" ELSE "pending"
  BY <1>1, <1>2, TwoPromises
<1> HIDE DEF a, b
<1>4. b = ReleasedAs(a, b)
  BY <1>3, PromiseChanges
<1>5. b = [a EXCEPT !.status = b.status, !.worker = NoWorker, !.token = 0, !.until = 0]
  BY <1>3, <1>4 DEF ReleasedAs
<1>6. Queue!Released(t, b.status)
  BY <1>5 DEF a, b, promised, Queue!Released
<1>7. Queue!LeaseOver(t)
  BY <1>3 DEF a, promised, Queue!LeaseOver
<1>8. CASE a.attempts >= a.max
  <2>1. Queue!Released(t, "failed")
    BY <1>3, <1>6, <1>8
  <2> QED
    BY <1>3, <1>7, <1>8, <2>1 DEF a, b, promised, Queue!Exhaust
<1>9. CASE ~(a.attempts >= a.max)
  <2>1. Queue!Released(t, "pending")
    BY <1>3, <1>6, <1>9
  <2>2. a.attempts < a.max
    BY <1>3, <1>9 DEF Promise
  <2> QED
    BY <1>3, <1>7, <2>1, <2>2 DEF a, b, promised, Queue!Requeue
<1> QED
  BY <1>8, <1>9

LEMMA CascadedOne ==
    ASSUME SessionInv, LeaseInv, NEW s \in Session, pc[s] = "commit", Publish(s),
           NEW t \in Task, lock[t] = s, Cascaded(s, t)
    PROVE  Queue!Cascade(t) /\ promised'[t].token = promised[t].token
<1> DEFINE a == promised[t]
           b == promised'[t]
<1>1. /\ row[t].status = "pending" /\ row[t] \in Row /\ RowOK(row[t])
      /\ row[t].req.deps \subseteq Task
  BY Committed, RequestAssumption DEF Cascaded, RowOK, Admissible
<1>2. /\ work[t].attempts = row[t].attempts /\ work[t].worker = row[t].worker
      /\ work[t].token = row[t].token /\ work[t].until = row[t].until
      /\ work[t].status = "failed"
  BY <1>1 DEF Cascaded, DependencyFailed, Row
<1>3. /\ a \in Promise /\ b \in Promise /\ b.deps = a.deps /\ b.max = a.max
      /\ a.deps = row[t].req.deps /\ a.status = "pending" /\ b.attempts = a.attempts
      /\ b.worker = a.worker /\ b.token = a.token /\ b.until = a.until
      /\ b.status = "failed"
  BY <1>1, <1>2, TwoPromises
<1>4. PICK d \in row[t].req.deps : \/ row[d].status = "failed"
                                   \/ lock[d] = s /\ work[d].status = "failed"
  BY DEF Cascaded
<1>5. promised'[d].status = "failed"
  <2>1. /\ d \in Task /\ promised'[d] = Promised(row'[d]) /\ row'[d] \in Row
        /\ RowOK(row'[d])
    BY <1>1, <1>4, Committed
  <2>2. row'[d].status = "failed"
    BY <1>4, <2>1 DEF Publish, SessionInv, VersionOK, Terminal
  <2> QED
    BY <2>1, <2>2, PromisedType
<1> HIDE DEF a, b
<1>6. b = FailedAs(a, b)
  BY <1>3, PromiseChanges
<1>7. b = [a EXCEPT !.status = "failed"]
  BY <1>3, <1>6 DEF FailedAs
<1>8. \E x \in a.deps : promised'[x].status = "failed"
  BY <1>3, <1>4, <1>5
<1>9. Queue!Cascade(t)
  BY <1>3, <1>7, <1>8 DEF a, b, promised, Queue!Cascade
<1> QED
  BY <1>3, <1>9 DEF a, b

LEMMA GrantedOne ==
    ASSUME SessionInv, LeaseInv, NEW s \in Session, pc[s] = "commit", Publish(s),
           job[s].op = "claim", NEW t \in Task, lock[t] = s, Granted(s, t)
    PROVE  Queue!Grant(t) \/ Queue!TakeOver(t)
<1> DEFINE a == promised[t]
           b == promised'[t]
<1>1. /\ row[t].status \in {"pending", "running"}
      /\ row[t].status = "running" => row[t].until <= clock
      /\ row[t] \in Row /\ RowOK(row[t]) /\ work[t] \in Row /\ RowOK(work[t])
      /\ row[t].req.deps \subseteq Task
  BY Committed, RequestAssumption DEF LockOK, RowOK, Admissible
<1>2. /\ work[t].attempts = row[t].attempts + 1 /\ work[t].status = "running"
      /\ work[t].req = row[t].req
  BY <1>1 DEF Granted, Row
<1>3. /\ a \in Promise /\ b \in Promise /\ b.deps = a.deps /\ b.max = a.max
      /\ a.deps = row[t].req.deps /\ a.max = row[t].req.max
      /\ a.status = row[t].status /\ b.status = "running" /\ a.until = row[t].until
      /\ a.attempts = row[t].attempts /\ b.attempts = a.attempts + 1
      /\ b.token = work[t].token
  BY <1>1, <1>2, TwoPromises
<1>4. b.worker \in Worker
  BY <1>1, <1>2, TwoPromises DEF RowOK
<1>5. ASSUME NEW u \in Task PROVE promised[u].token # b.token
  <2>1. promised[u].token = row[u].token
    BY Committed, PromisedType
  <2>2. row[u].token # work[t].token
    BY DEF LeaseInv, Granted
  <2> QED
    BY <1>3, <2>1, <2>2
<1>6. a.attempts < a.max
  BY <1>3 DEF Granted
<1>7. ASSUME NEW d \in a.deps PROVE promised[d].status = "completed"
  <2>1. d \in Task /\ row[d].status = "completed"
    BY <1>1, <1>2, <1>3 DEF SessionInv, DepsOK
  <2> QED
    BY <2>1, Committed, PromisedType
<1> HIDE DEF a, b
<1>8. b = LeasedAs(a, b)
  BY <1>3, PromiseChanges
<1>9. b = [a EXCEPT !.status = "running", !.worker = b.worker, !.token = b.token,
                    !.until = b.until, !.attempts = @ + 1]
  BY <1>3, <1>8 DEF LeasedAs
<1>10. Queue!Leased(t)
  BY <1>4, <1>5, <1>9 DEF a, b, promised, Queue!Leased
<1>11. CASE a.status = "pending"
  BY <1>6, <1>7, <1>10, <1>11 DEF a, promised, Queue!Grant
<1>12. CASE a.status = "running"
  <2>1. Queue!LeaseOver(t)
    BY <1>1, <1>3, <1>12 DEF a, promised, Queue!LeaseOver
  <2> QED
    BY <1>6, <1>10, <2>1 DEF a, promised, Queue!TakeOver
<1> QED
  BY <1>1, <1>3, <1>11, <1>12

LEMMA ClaimCommits ==
    ASSUME SessionInv, LeaseInv, NEW s \in Session, pc[s] = "commit", Publish(s),
           clock' = clock, job[s].op = "claim"
    PROVE  Queue!Claim
<1>1. ASSUME NEW t \in Task
      PROVE  /\ \/ promised'[t] = promised[t]
                \/ Queue!Grant(t) \/ Queue!TakeOver(t) \/ Queue!Requeue(t)
                \/ Queue!Exhaust(t) \/ Queue!Cascade(t)
             /\ promised'[t].token \notin {0, promised[t].token} => t = job[s].task
  <2>1. CASE lock[t] # s
    BY <2>1, Committed
  <2>2. CASE lock[t] = s
    <3>1. Reaped(s, t) \/ Cascaded(s, t) \/ Granted(s, t)
      BY <2>2, Committed DEF ChangeOK
    <3> QED
      BY <2>2, <3>1, ReapedOne, CascadedOne, GrantedOne DEF Granted
  <2> QED
    BY <2>1, <2>2
<1>2. promised' = [t \in Task |-> promised'[t]]
  BY DEF promised
<1>3. \A t, u \in Task : (/\ promised'[t].token \notin {0, promised[t].token}
                          /\ promised'[u].token \notin {0, promised[u].token}) => t = u
  BY <1>1
<1> QED
  BY <1>1, <1>2, <1>3 DEF promised, Queue!Claim

\* A commit that holds at most the lock of t changes at most t.
LEMMA OneRow ==
    ASSUME SessionInv, LeaseInv, NEW s \in Session, pc[s] = "commit", Publish(s),
           clock' = clock, NEW t \in Task, \A u \in Task : lock[u] = s => u = t
    PROVE  /\ Queue!OnlyChanges(t)
           /\ lock[t] # s => promised' = promised
<1>1. ASSUME NEW u \in Task, u # t \/ lock[t] # s PROVE row'[u] = row[u]
  BY <1>1, Committed
<1>2. promised' = [promised EXCEPT ![t] = promised'[t]]
  BY <1>1 DEF promised
<1>3. lock[t] # s => promised' = promised
  BY <1>1 DEF promised
<1> QED
  BY <1>2, <1>3 DEF promised, Queue!OnlyChanges

LEMMA CreateIsSubmit ==
    ASSUME SessionInv, LeaseInv, NEW s \in Session, pc[s] = "commit", Publish(s),
           clock' = clock, job[s].op = "create"
    PROVE  promised' = promised \/ \E t \in Task : Queue!Submit(t)
<1> DEFINE t == job[s].task
           a == promised[t]
           b == promised'[t]
<1>1. t \in Task /\ \A u \in Task : lock[u] = s => u = t
  <2>1. t \in Task
    BY DEF SessionInv, JobOK, LeaseOp, Terminal
  <2> QED
    BY <2>1, Committed DEF ChangeOK
<1> HIDE DEF t
<1>2. CASE lock[t] # s
  BY <1>1, <1>2, OneRow
<1>3. CASE lock[t] = s
  <2>1. /\ row[t] \in Row /\ RowOK(row[t]) /\ work[t] \in Row /\ RowOK(work[t])
        /\ a = Promised(row[t]) /\ b = Promised(work[t])
        /\ row[t].status = "absent" /\ work[t].status = "pending"
    BY <1>1, <1>3, Committed DEF LockOK
  <2>2. /\ work[t].worker = NoWorker /\ work[t].token = 0 /\ work[t].until = 0
        /\ work[t].attempts = 0
    <3>1. ChangeOK(s, t)
      BY <1>1, <1>3, Committed
    <3>2. work[t] = [AbsentRow EXCEPT !.status = "pending", !.req = work[t].req,
                                      !.created = work[t].created]
      BY <3>1 DEF ChangeOK
    <3> QED
      BY <3>2 DEF AbsentRow
  <2>3. /\ b \in Promise /\ a.status = "absent" /\ b.status = "pending"
        /\ b.worker = NoWorker /\ b.token = 0 /\ b.until = 0 /\ b.attempts = 0
        /\ b.deps = work[t].req.deps
    BY <2>1, <2>2, PromisedType
  <2>4. ASSUME NEW d \in b.deps PROVE d \in Task /\ promised[d].status # "absent"
    <3>1. d \in Task /\ row[d].status # "absent"
      BY <1>1, <2>1, <2>3, RequestAssumption DEF SessionInv, DepsOK, RowOK, Admissible
    <3> QED
      BY <3>1, Committed, PromisedType
  <2> HIDE DEF a, b
  <2>5. b = [Queue!Fresh EXCEPT !.status = "pending", !.deps = b.deps, !.max = b.max]
    <3>1. b = SubmittedAs(Queue!Fresh, b)
      <4>1. Queue!Fresh \in Promise
        BY DEF Queue!Fresh, Promise, Status
      <4>2. /\ b.worker = Queue!Fresh.worker /\ b.token = Queue!Fresh.token
            /\ b.until = Queue!Fresh.until /\ b.attempts = Queue!Fresh.attempts
        BY <2>3 DEF Queue!Fresh
      <4> QED
        BY <2>3, <4>1, <4>2, PromiseMade
    <3> QED
      BY <2>3, <3>1 DEF SubmittedAs
  <2>6. Queue!OnlyChanges(t)
    BY <1>1, OneRow
  <2>7. Queue!Submit(t)
    BY <2>3, <2>4, <2>5, <2>6 DEF a, b, promised, Queue!Submit
  <2> QED
    BY <1>1, <2>7
<1> QED
  BY <1>2, <1>3

LEMMA UpdateIsRenewOrFinish ==
    ASSUME SessionInv, LeaseInv, NEW s \in Session, pc[s] = "commit", Publish(s),
           clock' = clock, job[s].op \in LeaseOp
    PROVE  promised' = promised \/ \E t \in Task : Queue!Renew(t) \/ Queue!Finish(t)
<1> DEFINE t == job[s].task
           a == promised[t]
           b == promised'[t]
<1>1. t \in Task /\ \A u \in Task : lock[u] = s => u = t
  <2>1. t \in Task
    BY DEF SessionInv, JobOK, HeldLease, Lease, LeaseOp, Terminal
  <2> QED
    BY <2>1, Committed DEF LockOK
<1> HIDE DEF t
<1>2. CASE lock[t] # s
  BY <1>1, <1>2, OneRow
<1>3. CASE lock[t] = s
  <2>1. /\ row[t] \in Row /\ row[t].status = "running" /\ ChangeOK(s, t)
        /\ work[t].attempts = row[t].attempts /\ work[t].worker = row[t].worker
        /\ work[t].status = IF job[s].op = "heartbeat" THEN "running" ELSE job[s].op
    BY <1>1, <1>3, Committed DEF LockOK
  <2>2. /\ a \in Promise /\ b \in Promise /\ b.deps = a.deps /\ b.max = a.max
        /\ a.status = "running" /\ b.attempts = a.attempts /\ b.worker = a.worker
        /\ b.status = IF job[s].op = "heartbeat" THEN "running" ELSE job[s].op
        /\ b.token = work[t].token /\ b.until = work[t].until
        /\ a.token = row[t].token /\ a.until = row[t].until
    BY <1>1, <1>3, <2>1, TwoPromises
  <2>3. Queue!OnlyChanges(t)
    BY <1>1, OneRow
  <2>4. CASE job[s].op = "heartbeat"
    <3>1. b.token = a.token /\ b.until >= a.until
      BY <2>1, <2>2, <2>4 DEF ChangeOK, Row
    <3> HIDE DEF a, b
    <3>2. b = RenewedAs(a, b)
      BY <2>2, <2>4, <3>1, PromiseChanges
    <3>3. Queue!Renew(t)
      BY <2>2, <2>3, <3>1, <3>2 DEF a, b, promised, RenewedAs, Queue!Renew
    <3> QED
      BY <1>1, <3>3
  <2>5. CASE job[s].op \in Terminal
    <3>1. b.token = 0 /\ b.until = 0 /\ b.status = job[s].op
      BY <2>1, <2>2, <2>5 DEF ChangeOK, Finished, Row, Terminal
    <3> HIDE DEF a, b
    <3>2. b = FinishedAs(a, b)
      BY <2>2, PromiseChanges
    <3>3. b = [a EXCEPT !.status = b.status, !.token = 0, !.until = 0]
      BY <3>1, <3>2 DEF FinishedAs
    <3>4. \E status \in {"completed", "failed"} :
             b = [a EXCEPT !.status = status, !.token = 0, !.until = 0]
      BY <2>5, <3>1, <3>3 DEF Terminal
    <3>5. Queue!Finish(t)
      BY <2>2, <2>3, <3>4 DEF a, b, promised, Queue!Finish
    <3> QED
      BY <1>1, <3>5
  <2> QED
    BY <2>4, <2>5 DEF LeaseOp
<1> QED
  BY <1>2, <1>3

LEMMA CommitIsStep ==
    ASSUME SessionInv, LeaseInv, NEW s \in Session, pc[s] = "commit", Publish(s),
           clock' = clock
    PROVE  Queue!Next \/ promised' = promised
<1>1. job[s].op \in {"create", "claim"} \cup LeaseOp
  BY DEF SessionInv, JobOK
<1> QED
  BY <1>1, ClaimCommits, CreateIsSubmit, UpdateIsRenewOrFinish DEF Queue!Next

\* The statements before the commit change nothing that is committed.
LEMMA StatementsAreSilent ==
    ASSUME [Next]_vars,
           ~ \E s \in Session : pc[s] = "commit" /\ Publish(s) /\ clock' = clock,
           ~ Tick
    PROVE  UNCHANGED <<row, clock>>
<1>1. CASE UNCHANGED vars
  BY <1>1 DEF vars, tables
<1>2. ASSUME NEW s \in Session,
             \/ Begin(s) \/ CreateStep(s) \/ ClaimStep(s) \/ LockRow(s)
             \/ UpdateStep(s) \/ Abort(s)
      PROVE  UNCHANGED <<row, clock>>
  BY <1>2 DEF Begin, BeginCreate, BeginClaim, BeginUpdate, CreateStep, InsertRow,
     InsertConflict, LookupSame, LookupConflict, ClaimStep, RecoverExpired, TakeSnapshot,
     FailBlocked, ClaimTask, ClaimNothing, LockRow, UpdateStep, Heartbeat, Finish,
     RejectUpdate, Abort, Rollback, Write, tables
<1>3. ASSUME NEW s \in Session, Commit(s) \/ CommitLost(s)
      PROVE  FALSE
  BY <1>3 DEF Commit, CommitLost
<1> QED
  BY <1>1, <1>2, <1>3 DEF Next

-----------------------------------------------------------------------------
\* store.go:202-325: every version of a row that a transaction has written is
\* one step of the task's life cycle away from the committed row, and no two
\* tasks ever carry the same lease token.
THEOREM LeasesSafe == Spec => []LeaseInv
<1>1. Init => LeaseInv
  BY StoreAssumption DEF Init, LeaseInv, LeaseOK, NoSnap, AbsentRow
<1> QED
  BY <1>1, SessionsSafe, RecordsSafe, LeaseStep, PTL DEF Spec

\* store.go:169-334: the queue, with its statements, snapshots and row locks,
\* implements the life cycle that LeaseQueue promises.
THEOREM ImplementsQueue == Spec => ImplementsLeaseQueue
<1>1. Init => Queue!Init
  BY DEF Init, Queue!Init, Queue!Fresh, Promised, NoSnap, AbsentRow
<1>2. ASSUME SessionInv, LeaseInv, [Next]_vars
      PROVE  [Queue!Next]_<<promised, clock>>
  <2>1. CASE \E s \in Session : pc[s] = "commit" /\ Publish(s) /\ clock' = clock
    BY <1>2, <2>1, CommitIsStep
  <2>2. CASE Tick
    <3>1. Queue!Tick
      BY <2>2 DEF Tick, tables, Queue!Tick
    <3> QED
      BY <3>1 DEF Queue!Next
  <2>3. CASE UNCHANGED <<row, clock>>
    BY <2>3 DEF promised
  <2> QED
    BY <1>2, <2>1, <2>2, <2>3, StatementsAreSilent
<1>3. SessionInv /\ LeaseInv /\ [Next]_vars
         => [Queue!Next]_<<[t \in Task |-> Promised(row[t])], clock>>
  BY <1>2 DEF promised
<1> QED
  BY <1>1, <1>3, SessionsSafe, LeasesSafe, PTL DEF Spec, Queue!Spec, ImplementsLeaseQueue

=============================================================================
