----------------------------- MODULE TaskManager -----------------------------
(***************************************************************************)
(* The reference profile's task graph,                                     *)
(* profiles/reference/sec/extensions/task-manager.ts: a JSON file that     *)
(* every pi process reads whole, changes and writes back whole.            *)
(*                                                                         *)
(* A tool's execute has no await in it, so calls of one process do not     *)
(* interleave; calls of two processes do, between load (Load) and save     *)
(* (the other actions, which take the call's parameters: nothing depends   *)
(* on them before).  A process may die while it writes: the file is then   *)
(* no JSON, and load answers an empty graph.  A write that ends is one     *)
(* step here: that another process reads the file in its middle, which     *)
(* gives it an empty graph as well, is left out.                           *)
(*                                                                         *)
(* nextId is called once for each task pushed and tasks are never removed, *)
(* so a task's id is its position in the file.  Times are minutes, counted *)
(* from 1; 0 stands for null.  Hypotheses, targets, evidence and costs     *)
(* have no influence on the rest and are left out, and so are the tools    *)
(* that only report (task_list, task_get, the /tasks dashboard).           *)
(***************************************************************************)
EXTENDS Integers, FiniteSets, Sequences

CONSTANTS
    Process,    \* pi processes sharing the data directory
    Agent,      \* agent names
    NoAgent,    \* null owner
    DepSets,    \* dependency lists that callers pass, as sets of ids
    Priority,   \* ranks: 0 is CRITICAL
    Thresholds, \* staleness limits callers give to task_reclaim
    STALE,      \* STALE_THRESHOLD_MS
    MaxTasks,   \* bound on the tasks created
    MaxTime,    \* bound on time
    MaxCalls,   \* bound on the calls of all processes
    MaxCrashes  \* bound on crashes

ASSUME ManagerAssumption ==
    /\ NoAgent \notin Agent
    /\ DepSets \subseteq SUBSET (Nat \ {0})
    /\ Priority \subseteq 0..3
    /\ STALE \in Nat /\ STALE \in Thresholds /\ Thresholds \subseteq Nat
    /\ MaxTasks \in Nat /\ MaxTime \in Nat \ {0} /\ MaxCalls \in Nat /\ MaxCrashes \in Nat

VARIABLES
    file,     \* the content of task-graph.json
    torn,     \* whether a write was cut short: load then finds no task
    graph,    \* what each process has loaded
    copy,     \* "none" between calls, "current" from load on, "overtaken"
              \* once another process has written the file since
    clock,
    calls,    \* calls so far
    crashes

vars == <<file, torn, graph, copy, clock, calls, crashes>>

Status == {"PENDING", "CLAIMED", "RUNNING", "BLOCKED", "COMPLETED", "FAILED",
           "CANCELLED"}
Active == {"CLAIMED", "RUNNING"}
Lost == {"FAILED", "CANCELLED"}

\* The calls that can change the graph; task_id 0 is an omitted one.
CreateCall == [prio : Priority, deps : DepSets, owner : Agent \cup {NoAgent}]
ClaimCall == [id : 0..MaxTasks, agent : Agent]
UpdateCall == [id : 1..MaxTasks, status : Status \cup {"none"}, heartbeat : BOOLEAN]
ReclaimCall == [id : 0..MaxTasks, agent : Agent, limit : Thresholds]
BlockCall == [id : 1..MaxTasks, deps : DepSets \ {{}}]

-----------------------------------------------------------------------------
(* Reading a graph.                                                         *)

Completed(g, d) == d \in DOMAIN g /\ g[d].status = "COMPLETED"

depsSatisfied(g, deps) == \A d \in deps : Completed(g, d)

\* Mutant: a heartbeat that is old enough counts, whatever the status.
StaleAnyStatus(t, limit) ==
    LET ref == IF t.heartbeat # 0 THEN t.heartbeat ELSE t.claimed
    IN  ref # 0 /\ clock - ref >= limit

\* isOrphaned, and checkOrphan with the caller's threshold.
isOrphaned(t, limit) ==
    LET ref == IF t.heartbeat # 0 THEN t.heartbeat ELSE t.claimed
    IN  t.status \in Active /\ ref # 0 /\ clock - ref > limit

Orphans(g, limit) == {i \in DOMAIN g : isOrphaned(g[i], limit)}

\* Sorting by priority, then by creation.
Before(g, i, j) == g[i].prio < g[j].prio \/ (g[i].prio = g[j].prio /\ i <= j)

IsFirst(g, i, S) == i \in S /\ \A j \in S : Before(g, i, j)

\* The task a claim or a reclaim is about: the one named, or the best of S.
Selects(g, id, i, S) == IF id = 0 THEN IsFirst(g, i, S) ELSE i = id /\ i \in DOMAIN g

Pending(g) == {i \in DOMAIN g : g[i].status = "PENDING"}

-----------------------------------------------------------------------------
(* Changing a graph.  lost is history: whether a task has ever failed or    *)
(* been cancelled.                                                          *)

NewTask(g, c) ==
    [status |-> IF depsSatisfied(g, c.deps) THEN "PENDING" ELSE "BLOCKED",
     owner |-> c.owner, prio |-> c.prio, deps |-> c.deps,
     claimed |-> 0, heartbeat |-> 0, lost |-> FALSE]

Own(t, a) == [t EXCEPT !.owner = a, !.status = "CLAIMED",
                       !.claimed = clock, !.heartbeat = clock]

Release(t) == [t EXCEPT !.owner = NoAgent, !.status = "PENDING",
                        !.claimed = 0, !.heartbeat = 0]

Beat(t) == [t EXCEPT !.heartbeat = clock,
                     !.status = IF @ = "PENDING" THEN "CLAIMED" ELSE @]

\* task_update: a heartbeat comes first, then the change of status.
Beaten(g, c) == IF c.heartbeat THEN [g EXCEPT ![c.id] = Beat(@)] ELSE g

Changes(g, c) == c.status \notin {"none", g[c.id].status}

UpdateRefused(g, c) ==
    /\ Changes(g, c)
    /\ \/ c.status = "COMPLETED" /\ ~depsSatisfied(g, g[c.id].deps)
       \/ c.status = "RUNNING" /\ g[c.id].status \notin Active

Changed(g, c) ==
    CASE ~Changes(g, c) -> g
      [] Changes(g, c) /\ c.status = "PENDING" -> [g EXCEPT ![c.id] = Release(@)]
      [] OTHER -> [g EXCEPT ![c.id].status = c.status,
                            ![c.id].lost = @ \/ c.status \in Lost]

\* Mutant: a blocked task that has an owner is passed over.
PropagatedUnowned(g, id) ==
    [i \in DOMAIN g |->
        CASE /\ g[id].status = "COMPLETED" /\ g[i].status = "BLOCKED" /\ g[i].owner = NoAgent
             /\ id \in g[i].deps /\ depsSatisfied(g, g[i].deps)
                -> [g[i] EXCEPT !.status = "PENDING"]
          [] OTHER -> g[i]]

\* Dependents are unblocked by the last completion, blocked by a failure.
Propagated(g, id) ==
    [i \in DOMAIN g |->
        CASE /\ g[id].status = "COMPLETED" /\ g[i].status = "BLOCKED"
             /\ id \in g[i].deps /\ depsSatisfied(g, g[i].deps)
                -> [g[i] EXCEPT !.status = "PENDING"]
          [] /\ g[id].status \in Lost /\ g[i].status = "PENDING" /\ id \in g[i].deps
                -> [g[i] EXCEPT !.status = "BLOCKED"]
          [] OTHER -> g[i]]

-----------------------------------------------------------------------------
Init ==
    /\ file = << >> /\ torn = FALSE
    /\ graph = [p \in Process |-> << >>]
    /\ copy = [p \in Process |-> "none"]
    /\ clock = 1 /\ calls = 0 /\ crashes = 0

Load(p) ==
    /\ copy[p] = "none"
    /\ calls < MaxCalls /\ calls' = calls + 1
    /\ copy' = [copy EXCEPT ![p] = "current"]
    /\ graph' = [graph EXCEPT ![p] = file]
    /\ UNCHANGED <<file, torn, clock, crashes>>

Return(p) ==
    /\ graph' = [graph EXCEPT ![p] = << >>]
    /\ UNCHANGED <<clock, calls>>

Save(p, g) ==
    /\ \/ file' = g /\ torn' = FALSE /\ UNCHANGED crashes
       \* The process dies in writeFileSync, which has truncated the file.
       \/ /\ crashes < MaxCrashes /\ crashes' = crashes + 1
          /\ file' = << >> /\ torn' = TRUE
    /\ Return(p)
    /\ copy' = [q \in Process |-> IF q = p \/ copy[q] = "none" THEN "none" ELSE "overtaken"]

\* An early return: nothing is saved.
Refuse(p) ==
    /\ Return(p)
    /\ copy' = [copy EXCEPT ![p] = "none"]
    /\ UNCHANGED <<file, torn, crashes>>

TaskCreate(p, c) ==
    LET g == graph[p] IN
    /\ Len(g) < MaxTasks
    /\ Save(p, Append(g, NewTask(g, c)))

\* Mutant: the owner is not compared.
ClaimRefusedUnowned(t, a) == t.status \in {"COMPLETED", "CANCELLED", "BLOCKED"}

\* The refusals of task_claim before its test of the dependencies.
ClaimRefused(t, a) ==
    \/ t.status \in {"COMPLETED", "CANCELLED", "BLOCKED"}
    \/ /\ t.owner \notin {NoAgent, a}
       /\ t.status \in Active
       /\ ~isOrphaned(t, STALE)

TaskClaim(p, c) ==
    LET g == graph[p] IN
    \E i \in DOMAIN g :
       /\ Selects(g, c.id, i, Pending(g))
       /\ ~ClaimRefused(g[i], c.agent)
       /\ Save(p, [g EXCEPT ![i] = IF depsSatisfied(g, g[i].deps)
                                   THEN Own(@, c.agent)
                                   ELSE [@ EXCEPT !.status = "BLOCKED"]])

TaskClaimRefused(p, c) ==
    LET g == graph[p] IN
    /\ \A i \in DOMAIN g : Selects(g, c.id, i, Pending(g)) => ClaimRefused(g[i], c.agent)
    /\ Refuse(p)

TaskUpdate(p, c) ==
    LET g == graph[p] IN
    /\ c.id \in DOMAIN g
    /\ ~UpdateRefused(Beaten(g, c), c)
    /\ Save(p, Propagated(Changed(Beaten(g, c), c), c.id))

TaskUpdateRefused(p, c) ==
    LET g == graph[p] IN
    /\ c.id \in DOMAIN g => UpdateRefused(Beaten(g, c), c)
    /\ Refuse(p)

\* A named orphan, or the orphan of highest priority, gets a new owner.
TaskReclaim(p, c) ==
    LET g == graph[p] IN
    \E i \in Orphans(g, c.limit) :
       /\ Selects(g, c.id, i, Orphans(g, c.limit))
       /\ Save(p, [g EXCEPT ![i] = Own(@, c.agent)])

TaskReclaimRefused(p, c) ==
    LET g == graph[p] IN
    /\ ~ \E i \in Orphans(g, c.limit) : Selects(g, c.id, i, Orphans(g, c.limit))
    /\ Refuse(p)

\* reset_all.
TaskReset(p, limit) ==
    LET g == graph[p] IN
    Save(p, [i \in DOMAIN g |-> IF i \in Orphans(g, limit) THEN Release(g[i]) ELSE g[i]])

\* add_dependencies; a list of which one does not exist is refused whole.
TaskBlock(p, c) ==
    LET g == graph[p] IN
    /\ c.id \in DOMAIN g
    /\ c.deps \subseteq DOMAIN g \cup g[c.id].deps
    /\ LET deps == g[c.id].deps \cup c.deps IN
       Save(p, [g EXCEPT ![c.id].deps = deps,
                         ![c.id].status = IF depsSatisfied(g, deps) THEN @ ELSE "BLOCKED"])

TaskBlockRefused(p, c) ==
    LET g == graph[p] IN
    /\ c.id \in DOMAIN g => ~(c.deps \subseteq DOMAIN g \cup g[c.id].deps)
    /\ Refuse(p)

Tick == /\ clock < MaxTime
        /\ clock' = clock + 1
        /\ UNCHANGED <<file, torn, graph, copy, calls, crashes>>

Tool(p) ==
    /\ copy[p] # "none"
    /\ \/ \E c \in CreateCall : TaskCreate(p, c)
       \/ \E c \in ClaimCall : TaskClaim(p, c) \/ TaskClaimRefused(p, c)
       \/ \E c \in UpdateCall : TaskUpdate(p, c) \/ TaskUpdateRefused(p, c)
       \/ \E c \in ReclaimCall : TaskReclaim(p, c) \/ TaskReclaimRefused(p, c)
       \/ \E limit \in Thresholds : TaskReset(p, limit)
       \/ \E c \in BlockCall : TaskBlock(p, c) \/ TaskBlockRefused(p, c)

Next == \/ \E p \in Process : Load(p) \/ Tool(p)
        \/ Tick

Spec == Init /\ [][Next]_vars

-----------------------------------------------------------------------------
(* Properties.                                                              *)

Both == DOMAIN file \cap DOMAIN file'

\* The call of p ends in this step, and no other process has written the file
\* since its load: what it saves follows from what the file held.
EndsCurrent(p) == copy[p] = "current" /\ copy'[p] = "none"

\* task-manager.ts:363-376, 798: a task whose agent has sent a heartbeat within
\* the threshold keeps its owner, unless it is put back to PENDING: only a call
\* whose copy of the graph was overtaken may take it away.
OwnershipRespected ==
    [][\A p \in Process : EndsCurrent(p) =>
         \A i \in Both :
          (/\ file[i].status \in Active /\ file[i].owner # NoAgent
           /\ file'[i].owner # file[i].owner) =>
             \/ \E l \in Thresholds : isOrphaned(file[i], l)
             \/ file'[i].status = "PENDING"]_vars

\* task-manager.ts:553-565: the call that completes the last dependency of a
\* blocked task also unblocks it; nobody has to notice later.  Left out are
\* the tasks of which a dependency has once failed or been cancelled: they are
\* "permanently blocked" by lines 267, 897 and 976, and unblocked all the same
\* by lines 553-565 when that dependency is tried again and completed.
NoLostUnblock ==
    [][\A p \in Process : EndsCurrent(p) =>
         \A i \in Both :
          (/\ file[i].status = "BLOCKED" /\ ~depsSatisfied(file, file[i].deps)
           /\ \A d \in file'[i].deps : Completed(file', d) /\ ~file'[d].lost) =>
             file'[i].status # "BLOCKED"]_vars

\* task-manager.ts:343-361, 379: no call but task_update gives work on a task
\* that is blocked, completed or cancelled to an agent, unless its copy of the
\* graph was overtaken.
OnlyOpenTasksClaimed ==
    [][\A p \in Process : EndsCurrent(p) =>
         \A i \in Both :
          (/\ file[i].status \in {"BLOCKED", "COMPLETED", "CANCELLED"}
           /\ file'[i].status \in Active) =>
             \E c \in UpdateCall : c.id = i /\ TaskUpdate(p, c)]_vars

=============================================================================
