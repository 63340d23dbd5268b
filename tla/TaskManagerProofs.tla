-------------------------- MODULE TaskManagerProofs --------------------------
(***************************************************************************)
(* Proofs about TaskManager for any number of processes, tasks, agents,    *)
(* priorities, dependencies and limits.  A copy of the graph that no other *)
(* process has overtaken is still what the file holds when it is saved, so *)
(* the guards that a tool evaluates on its copy hold of the file.          *)
(***************************************************************************)
EXTENDS TaskManager, TLAPS

TaskRecord == [status : Status, owner : Agent \cup {NoAgent}, prio : Priority,
               deps : SUBSET Nat, claimed : Nat, heartbeat : Nat, lost : BOOLEAN]

\* The graph file, what the processes have loaded and their calls are well formed.
TypeOK ==
    /\ file \in Seq(TaskRecord)
    /\ graph \in [Process -> Seq(TaskRecord)]
    /\ copy \in [Process -> {"none", "current", "overtaken"}]
    /\ clock \in Nat

\* A process whose copy is current has the file's content in its hands.
Fresh == \A p \in Process : copy[p] = "current" => graph[p] = file

-----------------------------------------------------------------------------
(* What the tools write of one task.                                        *)

LEMMA Versions ==
    ASSUME NEW t \in TaskRecord, NEW a \in Agent, clock \in Nat
    PROVE  /\ Own(t, a) \in TaskRecord /\ Own(t, a).status = "CLAIMED"
           /\ Own(t, a).owner = a /\ Own(t, a).deps = t.deps
           /\ Release(t) \in TaskRecord /\ Release(t).status = "PENDING"
           /\ Release(t).deps = t.deps
           /\ Beat(t) \in TaskRecord /\ Beat(t).owner = t.owner /\ Beat(t).deps = t.deps
           /\ Beat(t).status = IF t.status = "PENDING" THEN "CLAIMED" ELSE t.status
<1>1. /\ Own(t, a) \in TaskRecord /\ Own(t, a).status = "CLAIMED"
      /\ Own(t, a).owner = a /\ Own(t, a).deps = t.deps
  BY DEF Own, TaskRecord, Status
<1>2. /\ Release(t) \in TaskRecord /\ Release(t).status = "PENDING"
      /\ Release(t).deps = t.deps
  BY DEF Release, TaskRecord, Status
<1>3. /\ Beat(t) \in TaskRecord /\ Beat(t).owner = t.owner /\ Beat(t).deps = t.deps
      /\ Beat(t).status = IF t.status = "PENDING" THEN "CLAIMED" ELSE t.status
  BY DEF Beat, TaskRecord, Status
<1> QED
  BY <1>1, <1>2, <1>3

LEMMA StatusChanged ==
    ASSUME NEW t \in TaskRecord, NEW x \in Status
    PROVE  /\ [t EXCEPT !.status = x] \in TaskRecord
           /\ [t EXCEPT !.status = x].status = x
           /\ [t EXCEPT !.status = x].owner = t.owner
           /\ [t EXCEPT !.status = x].deps = t.deps
BY DEF TaskRecord

\* A graph one task of which is replaced.
LEMMA Replaced ==
    ASSUME NEW g \in Seq(TaskRecord), NEW i \in DOMAIN g, NEW t \in TaskRecord
    PROVE  /\ [g EXCEPT ![i] = t] \in Seq(TaskRecord)
           /\ DOMAIN [g EXCEPT ![i] = t] = DOMAIN g
           /\ [g EXCEPT ![i] = t][i] = t
           /\ \A j \in DOMAIN g : j # i => [g EXCEPT ![i] = t][j] = g[j]
OBVIOUS

-----------------------------------------------------------------------------
(* What the properties say of a tool that turns graph g into graph h.       *)

Owners(g, h) ==
    \A i \in DOMAIN g \cap DOMAIN h :
       (/\ g[i].status \in Active /\ g[i].owner # NoAgent
        /\ h[i].owner # g[i].owner) =>
          \/ \E l \in Thresholds : isOrphaned(g[i], l)
          \/ h[i].status = "PENDING"

Unblocks(g, h) ==
    \A i \in DOMAIN g \cap DOMAIN h :
       (/\ g[i].status = "BLOCKED" /\ ~depsSatisfied(g, g[i].deps)
        /\ depsSatisfied(h, h[i].deps)) => h[i].status # "BLOCKED"

\* Only task i, if any, may be put to work although it is closed or blocked.
Starts(g, h, ids) ==
    \A i \in DOMAIN g \cap DOMAIN h :
       (/\ g[i].status \in {"BLOCKED", "COMPLETED", "CANCELLED"}
        /\ h[i].status \in Active) => i \in ids

\* A tool that completes nothing and drops no dependency unblocks nothing.
LEMMA NothingCompletes ==
    ASSUME NEW g, NEW h,
           \A d \in DOMAIN h : h[d].status = "COMPLETED" => Completed(g, d),
           \A i \in DOMAIN g \cap DOMAIN h : g[i].deps \subseteq h[i].deps
    PROVE  Unblocks(g, h)
BY DEF Unblocks, depsSatisfied, Completed

LEMMA CreateEffect ==
    ASSUME NEW g \in Seq(TaskRecord), NEW c \in CreateCall
    PROVE  LET h == Append(g, NewTask(g, c)) IN
           h \in Seq(TaskRecord) /\ Owners(g, h) /\ Unblocks(g, h) /\ Starts(g, h, {})
<1> DEFINE n == NewTask(g, c)
           h == Append(g, n)
<1>1. n \in TaskRecord /\ n.status \in {"PENDING", "BLOCKED"}
  <2>1. c.deps \in SUBSET Nat /\ c.owner \in Agent \cup {NoAgent} /\ c.prio \in Priority
    BY ManagerAssumption DEF CreateCall
  <2> QED
    BY <2>1 DEF NewTask, TaskRecord, Status
<1> HIDE DEF n
<1>2. /\ h \in Seq(TaskRecord) /\ DOMAIN g \subseteq DOMAIN h
      /\ \A i \in DOMAIN g : h[i] = g[i]
      /\ \A i \in DOMAIN h : i \in DOMAIN g \/ h[i] = n
  BY <1>1
<1> HIDE DEF h
<1>3. Unblocks(g, h)
  BY <1>1, <1>2, NothingCompletes DEF Completed
<1>4. Owners(g, h)
  BY <1>2 DEF Owners
<1>5. Starts(g, h, {})
  BY <1>2 DEF Starts, Active
<1> QED
  BY <1>2, <1>3, <1>4, <1>5 DEF h, n

\* One task gets another version that is not newly completed.
LEMMA OneTaskEffect ==
    ASSUME NEW g \in Seq(TaskRecord), NEW i \in DOMAIN g, NEW t \in TaskRecord,
           NEW h, h = [g EXCEPT ![i] = t],
           t.status = "COMPLETED" => g[i].status = "COMPLETED",
           g[i].deps \subseteq t.deps,
           g[i].status \in {"BLOCKED", "COMPLETED", "CANCELLED"} => t.status \notin Active,
           (/\ g[i].status \in Active /\ g[i].owner # NoAgent /\ t.owner # g[i].owner) =>
              \E l \in Thresholds : isOrphaned(g[i], l)
    PROVE  h \in Seq(TaskRecord) /\ Owners(g, h) /\ Unblocks(g, h) /\ Starts(g, h, {})
<1>1. /\ h \in Seq(TaskRecord) /\ DOMAIN h = DOMAIN g /\ h[i] = t
      /\ \A j \in DOMAIN g : j # i => h[j] = g[j]
  BY Replaced
<1>2. Unblocks(g, h)
  BY <1>1, NothingCompletes DEF Completed
<1>3. Owners(g, h)
  <2> SUFFICES ASSUME NEW j \in DOMAIN g, g[j].status \in Active, g[j].owner # NoAgent,
                      h[j].owner # g[j].owner
               PROVE  \E l \in Thresholds : isOrphaned(g[j], l)
    BY <1>1 DEF Owners
  <2> QED
    BY <1>1
<1>4. Starts(g, h, {})
  BY <1>1 DEF Starts, Active
<1> QED
  BY <1>1, <1>2, <1>3, <1>4

LEMMA ClaimEffect ==
    ASSUME NEW g \in Seq(TaskRecord), NEW i \in DOMAIN g, NEW a \in Agent, clock \in Nat,
           ~ClaimRefused(g[i], a)
    PROVE  LET h == [g EXCEPT ![i] = IF depsSatisfied(g, g[i].deps) THEN Own(@, a)
                                     ELSE [@ EXCEPT !.status = "BLOCKED"]] IN
           h \in Seq(TaskRecord) /\ Owners(g, h) /\ Unblocks(g, h) /\ Starts(g, h, {})
<1> DEFINE t == IF depsSatisfied(g, g[i].deps) THEN Own(g[i], a)
                ELSE [g[i] EXCEPT !.status = "BLOCKED"]
           h == [g EXCEPT ![i] = t]
<1>1. g[i] \in TaskRecord
  OBVIOUS
<1>2. /\ t \in TaskRecord /\ t.status \in {"CLAIMED", "BLOCKED"} /\ t.deps = g[i].deps
      /\ t.status = "BLOCKED" => t.owner = g[i].owner
      /\ t.owner \in {g[i].owner, a}
  <2>1. CASE depsSatisfied(g, g[i].deps)
    BY <1>1, <2>1, Versions
  <2>2. CASE ~depsSatisfied(g, g[i].deps)
    BY <1>1, <2>2, StatusChanged DEF Status
  <2> QED
    BY <2>1, <2>2
<1> HIDE DEF t
<1>3. g[i].status \notin {"BLOCKED", "COMPLETED", "CANCELLED"}
  BY DEF ClaimRefused
<1>4. (/\ g[i].status \in Active /\ g[i].owner # NoAgent /\ t.owner # g[i].owner) =>
         \E l \in Thresholds : isOrphaned(g[i], l)
  BY <1>2, ManagerAssumption DEF ClaimRefused
<1> HIDE DEF h
<1>5. h \in Seq(TaskRecord) /\ Owners(g, h) /\ Unblocks(g, h) /\ Starts(g, h, {})
  BY <1>2, <1>3, <1>4, OneTaskEffect DEF h
<1> QED
  BY <1>5 DEF h, t

LEMMA ReclaimEffect ==
    ASSUME NEW g \in Seq(TaskRecord), NEW a \in Agent, clock \in Nat, NEW l \in Thresholds,
           NEW i \in Orphans(g, l)
    PROVE  LET h == [g EXCEPT ![i] = Own(@, a)] IN
           h \in Seq(TaskRecord) /\ Owners(g, h) /\ Unblocks(g, h) /\ Starts(g, h, {})
<1> DEFINE t == Own(g[i], a)
           h == [g EXCEPT ![i] = t]
<1>1. i \in DOMAIN g /\ isOrphaned(g[i], l) /\ g[i] \in TaskRecord
  BY DEF Orphans
<1>2. t \in TaskRecord /\ t.status = "CLAIMED" /\ t.deps = g[i].deps
  BY <1>1, Versions
<1>3. g[i].status \in Active
  BY <1>1 DEF isOrphaned
<1> HIDE DEF t, h
<1>4. h \in Seq(TaskRecord) /\ Owners(g, h) /\ Unblocks(g, h) /\ Starts(g, h, {})
  BY <1>1, <1>2, <1>3, OneTaskEffect DEF h, Active
<1> QED
  BY <1>4 DEF h, t

LEMMA ResetEffect ==
    ASSUME NEW g \in Seq(TaskRecord), clock \in Nat, NEW l
    PROVE  LET h == [i \in DOMAIN g |-> IF i \in Orphans(g, l) THEN Release(g[i]) ELSE g[i]] IN
           h \in Seq(TaskRecord) /\ Owners(g, h) /\ Unblocks(g, h) /\ Starts(g, h, {})
<1> DEFINE h == [i \in DOMAIN g |-> IF i \in Orphans(g, l) THEN Release(g[i]) ELSE g[i]]
<1>1. ASSUME NEW i \in DOMAIN g
      PROVE  /\ h[i] \in TaskRecord
             /\ h[i] = g[i] \/ (h[i].status = "PENDING" /\ h[i].deps = g[i].deps)
  <2>1. g[i] \in TaskRecord
    OBVIOUS
  <2>2. /\ Release(g[i]) \in TaskRecord /\ Release(g[i]).status = "PENDING"
        /\ Release(g[i]).deps = g[i].deps
    BY <2>1 DEF Release, TaskRecord, Status
  <2> QED
    BY <2>1, <2>2
<1>2. DOMAIN h = DOMAIN g
  OBVIOUS
<1>3. h \in Seq(TaskRecord)
  <2>1. DOMAIN g = 1..Len(g) /\ Len(g) \in Nat
    OBVIOUS
  <2>2. h \in [1..Len(g) -> TaskRecord]
    BY <1>1, <2>1
  <2> QED
    BY <2>1, <2>2
<1> HIDE DEF h
<1>4. Unblocks(g, h)
  BY <1>1, <1>2, NothingCompletes DEF Completed
<1>5. Owners(g, h)
  BY <1>1, <1>2 DEF Owners
<1>6. Starts(g, h, {})
  BY <1>1, <1>2 DEF Starts, Active
<1> QED
  BY <1>3, <1>4, <1>5, <1>6 DEF h

LEMMA BlockEffect ==
    ASSUME NEW g \in Seq(TaskRecord), NEW i \in DOMAIN g, NEW D \in SUBSET Nat
    PROVE  LET deps == g[i].deps \cup D
               h == [g EXCEPT ![i].deps = deps,
                              ![i].status = IF depsSatisfied(g, deps) THEN @ ELSE "BLOCKED"] IN
           h \in Seq(TaskRecord) /\ Owners(g, h) /\ Unblocks(g, h) /\ Starts(g, h, {})
<1> DEFINE deps == g[i].deps \cup D
           h == [g EXCEPT ![i].deps = deps,
                          ![i].status = IF depsSatisfied(g, deps) THEN @ ELSE "BLOCKED"]
           t == h[i]
<1>1. /\ t \in TaskRecord /\ t.status \in {g[i].status, "BLOCKED"}
      /\ t.deps = deps /\ t.owner = g[i].owner
  <2>1. g[i] \in TaskRecord
    OBVIOUS
  <2>2. deps \in SUBSET Nat
    BY <2>1 DEF TaskRecord
  <2> QED
    BY <2>1, <2>2 DEF TaskRecord, Status
<1>2. h = [g EXCEPT ![i] = t]
  OBVIOUS
<1> HIDE DEF h, t
<1>3. h \in Seq(TaskRecord) /\ Owners(g, h) /\ Unblocks(g, h) /\ Starts(g, h, {})
  BY <1>1, <1>2, OneTaskEffect DEF Active
<1> QED
  BY <1>3 DEF h

\* task_update before the dependents are told.
LEMMA ChangedOne ==
    ASSUME NEW g \in Seq(TaskRecord), NEW c \in UpdateCall, c.id \in DOMAIN g, clock \in Nat
    PROVE  LET h == Changed(Beaten(g, c), c) IN
           /\ h \in Seq(TaskRecord) /\ DOMAIN h = DOMAIN g
           /\ \A j \in DOMAIN g : j # c.id => h[j] = g[j]
           /\ h[c.id].deps = g[c.id].deps
           /\ h[c.id].owner = g[c.id].owner \/ h[c.id].status = "PENDING"
<1> DEFINE b == Beaten(g, c)
           h == Changed(b, c)
           i == c.id
<1>1. g[i] \in TaskRecord /\ c.status \in Status \cup {"none"} /\ i \in DOMAIN g
  BY DEF UpdateCall
<1>2. /\ b \in Seq(TaskRecord) /\ DOMAIN b = DOMAIN g
      /\ \A j \in DOMAIN g : j # i => b[j] = g[j]
      /\ b[i] \in TaskRecord /\ b[i].deps = g[i].deps /\ b[i].owner = g[i].owner
  <2>1. CASE ~c.heartbeat
    BY <1>1, <2>1 DEF Beaten
  <2>2. CASE c.heartbeat
    <3>1. Beat(g[i]) \in TaskRecord /\ Beat(g[i]).deps = g[i].deps /\ Beat(g[i]).owner = g[i].owner
      BY <1>1 DEF Beat, TaskRecord, Status
    <3>2. b = [g EXCEPT ![i] = Beat(g[i])]
      BY <2>2 DEF Beaten
    <3> HIDE DEF b
    <3> QED
      BY <1>1, <3>1, <3>2, Replaced
  <2> QED
    BY <2>1, <2>2
<1> HIDE DEF b, i
<1>3. \E t \in TaskRecord : /\ h = [b EXCEPT ![i] = t] /\ t.deps = b[i].deps
                            /\ t.owner = b[i].owner \/ t.status = "PENDING"
  <2>1. CASE ~Changes(b, c)
    <3>1. h = b
      BY <2>1 DEF Changed
    <3>2. b = [b EXCEPT ![i] = b[i]]
      BY <1>2
    <3> QED
      BY <1>2, <3>1, <3>2
  <2>2. CASE Changes(b, c) /\ c.status = "PENDING"
    <3>1. /\ Release(b[i]) \in TaskRecord /\ Release(b[i]).deps = b[i].deps
          /\ Release(b[i]).status = "PENDING"
      BY <1>2 DEF Release, TaskRecord, Status
    <3>2. h = [b EXCEPT ![i] = Release(b[i])]
      BY <2>2 DEF Changed, i
    <3> QED
      BY <3>1, <3>2
  <2>3. CASE Changes(b, c) /\ c.status # "PENDING"
    <3>1. c.status \in Status
      BY <1>1, <2>3 DEF Changes
    <3> DEFINE t == [b[i] EXCEPT !.status = c.status, !.lost = @ \/ c.status \in Lost]
    <3>2. t \in TaskRecord /\ t.deps = b[i].deps /\ t.owner = b[i].owner
      BY <1>2, <3>1 DEF TaskRecord
    <3>3. h = [b EXCEPT ![i] = t]
      BY <2>3 DEF Changed, i
    <3> QED
      BY <3>2, <3>3
  <2> QED
    BY <2>1, <2>2, <2>3
<1>4. PICK t \in TaskRecord : /\ h = [b EXCEPT ![i] = t] /\ t.deps = b[i].deps
                              /\ t.owner = b[i].owner \/ t.status = "PENDING"
  BY <1>3
<1> HIDE DEF h
<1>5. /\ h \in Seq(TaskRecord) /\ DOMAIN h = DOMAIN g /\ h[i] = t
      /\ \A j \in DOMAIN g : j # i => h[j] = g[j]
  BY <1>1, <1>2, <1>4, Replaced DEF i
<1>6. /\ h[i].deps = g[i].deps
      /\ h[i].owner = g[i].owner \/ h[i].status = "PENDING"
  BY <1>2, <1>4, <1>5
<1> QED
  BY <1>5, <1>6 DEF h, b, i

LEMMA PropagatedAll ==
    ASSUME NEW g \in Seq(TaskRecord), NEW i \in DOMAIN g
    PROVE  LET h == Propagated(g, i) IN
           /\ h \in Seq(TaskRecord) /\ DOMAIN h = DOMAIN g
           /\ \A j \in DOMAIN g :
                 /\ h[j].owner = g[j].owner /\ h[j].deps = g[j].deps
                 /\ \/ h[j].status = g[j].status
                    \/ h[j].status = "PENDING" /\ g[j].status = "BLOCKED"
                    \/ h[j].status = "BLOCKED" /\ g[j].status = "PENDING" /\ g[i].status \in Lost
                 /\ (/\ g[i].status = "COMPLETED" /\ g[j].status = "BLOCKED" /\ i \in g[j].deps
                     /\ depsSatisfied(g, g[j].deps)) => h[j].status = "PENDING"
<1> DEFINE h == Propagated(g, i)
<1>1. ASSUME NEW j \in DOMAIN g
      PROVE  /\ h[j] \in TaskRecord
             /\ h[j].owner = g[j].owner /\ h[j].deps = g[j].deps
             /\ \/ h[j].status = g[j].status
                \/ h[j].status = "PENDING" /\ g[j].status = "BLOCKED"
                \/ h[j].status = "BLOCKED" /\ g[j].status = "PENDING" /\ g[i].status \in Lost
             /\ (/\ g[i].status = "COMPLETED" /\ g[j].status = "BLOCKED" /\ i \in g[j].deps
                 /\ depsSatisfied(g, g[j].deps)) => h[j].status = "PENDING"
  <2> DEFINE up == /\ g[i].status = "COMPLETED" /\ g[j].status = "BLOCKED"
                   /\ i \in g[j].deps /\ depsSatisfied(g, g[j].deps)
             down == /\ g[i].status \in Lost /\ g[j].status = "PENDING" /\ i \in g[j].deps
  <2>1. g[j] \in TaskRecord
    OBVIOUS
  <2>2. h[j] = CASE up -> [g[j] EXCEPT !.status = "PENDING"]
                 [] down -> [g[j] EXCEPT !.status = "BLOCKED"]
                 [] OTHER -> g[j]
    BY DEF Propagated
  <2> HIDE DEF h
  <2>3. CASE up
    <3>1. ~down
      BY <2>3 DEF Lost
    <3>2. h[j] = [g[j] EXCEPT !.status = "PENDING"]
      BY <2>2, <2>3, <3>1
    <3>3. /\ h[j] \in TaskRecord /\ h[j].status = "PENDING"
          /\ h[j].owner = g[j].owner /\ h[j].deps = g[j].deps
      BY <2>1, <3>2 DEF TaskRecord, Status
    <3> QED
      BY <2>1, <2>3, <3>3
  <2>4. CASE down
    <3>1. ~up
      BY <2>4 DEF Lost
    <3>2. h[j] = [g[j] EXCEPT !.status = "BLOCKED"]
      BY <2>2, <2>4, <3>1
    <3>3. /\ h[j] \in TaskRecord /\ h[j].status = "BLOCKED"
          /\ h[j].owner = g[j].owner /\ h[j].deps = g[j].deps
      BY <2>1, <3>2 DEF TaskRecord, Status
    <3> QED
      BY <2>1, <2>4, <3>1, <3>3
  <2>5. CASE ~up /\ ~down
    <3>1. h[j] = g[j]
      BY <2>2, <2>5
    <3> QED
      BY <2>1, <2>5, <3>1
  <2> QED
    BY <2>3, <2>4, <2>5
<1>2. DOMAIN h = DOMAIN g
  BY DEF Propagated
<1>3. h \in Seq(TaskRecord)
  <2>1. DOMAIN g = 1..Len(g) /\ Len(g) \in Nat
    OBVIOUS
  <2>2. h \in [1..Len(g) -> TaskRecord]
    <3>1. h = [j \in DOMAIN g |-> h[j]]
      BY DEF Propagated
    <3> HIDE DEF h
    <3> QED
      BY <1>1, <2>1, <3>1
  <2> QED
    BY <2>1, <2>2
<1> HIDE DEF h
<1>4. \A j \in DOMAIN g :
                 /\ h[j].owner = g[j].owner /\ h[j].deps = g[j].deps
                 /\ \/ h[j].status = g[j].status
                    \/ h[j].status = "PENDING" /\ g[j].status = "BLOCKED"
                    \/ h[j].status = "BLOCKED" /\ g[j].status = "PENDING" /\ g[i].status \in Lost
                 /\ (/\ g[i].status = "COMPLETED" /\ g[j].status = "BLOCKED" /\ i \in g[j].deps
                     /\ depsSatisfied(g, g[j].deps)) => h[j].status = "PENDING"
  BY <1>1
<1> QED
  BY <1>2, <1>3, <1>4 DEF h

LEMMA UpdateEffect ==
    ASSUME NEW g \in Seq(TaskRecord), NEW c \in UpdateCall, c.id \in DOMAIN g, clock \in Nat
    PROVE  LET h == Propagated(Changed(Beaten(g, c), c), c.id) IN
           h \in Seq(TaskRecord) /\ Owners(g, h) /\ Unblocks(g, h) /\ Starts(g, h, {c.id})
<1> DEFINE i == c.id
           b == Changed(Beaten(g, c), c)
           h == Propagated(b, i)
<1>1. /\ b \in Seq(TaskRecord) /\ DOMAIN b = DOMAIN g
      /\ \A j \in DOMAIN g : j # i => b[j] = g[j]
      /\ b[i].deps = g[i].deps
      /\ b[i].owner = g[i].owner \/ b[i].status = "PENDING"
  BY ChangedOne
<1> HIDE DEF b
<1>2. /\ h \in Seq(TaskRecord) /\ DOMAIN h = DOMAIN b
      /\ \A j \in DOMAIN b :
            /\ h[j].owner = b[j].owner /\ h[j].deps = b[j].deps
            /\ \/ h[j].status = b[j].status
               \/ h[j].status = "PENDING" /\ b[j].status = "BLOCKED"
               \/ h[j].status = "BLOCKED" /\ b[j].status = "PENDING" /\ b[i].status \in Lost
            /\ (/\ b[i].status = "COMPLETED" /\ b[j].status = "BLOCKED" /\ i \in b[j].deps
                /\ depsSatisfied(b, b[j].deps)) => h[j].status = "PENDING"
  BY <1>1, PropagatedAll
<1>0. i \in DOMAIN g
  OBVIOUS
<1> HIDE DEF h, i
<1>3. Owners(g, h)
  <2> SUFFICES ASSUME NEW j \in DOMAIN g, h[j].owner # g[j].owner
               PROVE  h[j].status = "PENDING"
    BY <1>1, <1>2 DEF Owners
  <2>1. j = i /\ b[i].status = "PENDING"
    BY <1>0, <1>1, <1>2
  <2> QED
    BY <1>0, <1>1, <1>2, <2>1 DEF Lost
<1>4. Starts(g, h, {i})
  <2> SUFFICES ASSUME NEW j \in DOMAIN g, j # i,
                      g[j].status \in {"BLOCKED", "COMPLETED", "CANCELLED"},
                      h[j].status \in Active
               PROVE  FALSE
    BY <1>1, <1>2 DEF Starts
  <2> QED
    BY <1>1, <1>2 DEF Active
<1>5. Unblocks(g, h)
  <2> SUFFICES ASSUME NEW j \in DOMAIN g, g[j].status = "BLOCKED",
                      ~depsSatisfied(g, g[j].deps), depsSatisfied(h, h[j].deps),
                      h[j].status = "BLOCKED"
               PROVE  FALSE
    BY <1>1, <1>2 DEF Unblocks
  <2>1. h[j].deps = g[j].deps /\ b[j].deps = g[j].deps
    BY <1>0, <1>1, <1>2
  <2>2. PICK d \in g[j].deps : ~Completed(g, d)
    BY DEF depsSatisfied
  <2>3. ASSUME NEW x \in g[j].deps
        PROVE  x \in DOMAIN g /\ b[x].status = "COMPLETED"
    <3>1. x \in DOMAIN h /\ h[x].status = "COMPLETED"
      BY <2>1 DEF depsSatisfied, Completed
    <3> QED
      BY <1>1, <1>2, <3>1
  <2>4. d = i
    BY <1>1, <2>2, <2>3 DEF Completed
  <2>5. b[i].status = "COMPLETED"
    BY <2>3, <2>4
  <2>6. b[j].status = "BLOCKED"
    BY <1>1, <1>2, <2>5 DEF Lost
  <2>7. depsSatisfied(b, b[j].deps)
    BY <1>1, <2>1, <2>3 DEF depsSatisfied, Completed
  <2> QED
    BY <1>1, <1>2, <2>1, <2>2, <2>4, <2>5, <2>6, <2>7
<1> QED
  BY <1>2, <1>3, <1>4, <1>5 DEF h, b, i

-----------------------------------------------------------------------------
(* Steps.                                                                   *)

\* What a call that turns graph g into graph h may put to work in any state.
Effect(g, h, ids) ==
    h \in Seq(TaskRecord) /\ Owners(g, h) /\ Unblocks(g, h) /\ Starts(g, h, ids)

\* The process of a call that ends no longer has a copy; others are overtaken.
Leaves(p) ==
    /\ copy' = [q \in Process |-> IF q = p \/ copy[q] = "none" THEN "none" ELSE "overtaken"]
    /\ graph' = [graph EXCEPT ![p] = << >>]
    /\ clock' = clock

LEMMA SaveEffect ==
    ASSUME NEW p \in Process, NEW g, NEW h, NEW ids, Save(p, h), Effect(g, h, ids)
    PROVE  Effect(g, file', ids) /\ Leaves(p)
<1>1. Effect(g, << >>, ids)
  BY DEF Effect, Owners, Unblocks, Starts
<1> QED
  BY <1>1 DEF Save, Return, Leaves

Saves(p) ==
    \/ \E c \in CreateCall : TaskCreate(p, c)
    \/ \E c \in ClaimCall : TaskClaim(p, c)
    \/ \E c \in ReclaimCall : TaskReclaim(p, c)
    \/ \E limit \in Thresholds : TaskReset(p, limit)
    \/ \E c \in BlockCall : TaskBlock(p, c)

Refuses(p) ==
    \/ \E c \in ClaimCall : TaskClaimRefused(p, c)
    \/ \E c \in UpdateCall : TaskUpdateRefused(p, c)
    \/ \E c \in ReclaimCall : TaskReclaimRefused(p, c)
    \/ \E c \in BlockCall : TaskBlockRefused(p, c)

LEMMA UpdateSaves ==
    ASSUME TypeOK, NEW p \in Process, NEW c \in UpdateCall, TaskUpdate(p, c)
    PROVE  Effect(graph[p], file', {c.id}) /\ Leaves(p)
<1> DEFINE g == graph[p]
           h == Propagated(Changed(Beaten(g, c), c), c.id)
<1>1. g \in Seq(TaskRecord) /\ clock \in Nat
  BY DEF TypeOK
<1>2. c.id \in DOMAIN g /\ Save(p, h)
  BY DEF TaskUpdate
<1> HIDE DEF g
<1>3. h \in Seq(TaskRecord) /\ Owners(g, h) /\ Unblocks(g, h) /\ Starts(g, h, {c.id})
  BY <1>1, <1>2, UpdateEffect
<1> HIDE DEF h
<1>4. Effect(g, h, {c.id})
  BY <1>3 DEF Effect
<1> QED
  BY <1>2, <1>4, SaveEffect DEF g

LEMMA OtherSaves ==
    ASSUME TypeOK, NEW p \in Process, Saves(p)
    PROVE  Effect(graph[p], file', {}) /\ Leaves(p)
<1> DEFINE g == graph[p]
<1>1. g \in Seq(TaskRecord) /\ clock \in Nat
  BY DEF TypeOK
<1> SUFFICES \E h : Save(p, h) /\ Effect(g, h, {})
  BY SaveEffect
<1>2. ASSUME NEW c \in CreateCall, TaskCreate(p, c)
      PROVE  \E h : Save(p, h) /\ Effect(g, h, {})
  <2> DEFINE h == Append(g, NewTask(g, c))
  <2>1. Save(p, h)
    BY <1>2 DEF TaskCreate
  <2> HIDE DEF g
  <2>2. h \in Seq(TaskRecord) /\ Owners(g, h) /\ Unblocks(g, h) /\ Starts(g, h, {})
    BY <1>1, CreateEffect
  <2> HIDE DEF h
  <2> QED
    BY <2>1, <2>2 DEF Effect
<1>3. ASSUME NEW c \in ClaimCall, TaskClaim(p, c)
      PROVE  \E h : Save(p, h) /\ Effect(g, h, {})
  <2>1. PICK i \in DOMAIN g :
           /\ Selects(g, c.id, i, Pending(g))
           /\ ~ClaimRefused(g[i], c.agent)
           /\ Save(p, [g EXCEPT ![i] = IF depsSatisfied(g, g[i].deps)
                                       THEN Own(@, c.agent)
                                       ELSE [@ EXCEPT !.status = "BLOCKED"]])
    BY <1>3 DEF TaskClaim
  <2> DEFINE h == [g EXCEPT ![i] = IF depsSatisfied(g, g[i].deps)
                                   THEN Own(@, c.agent)
                                   ELSE [@ EXCEPT !.status = "BLOCKED"]]
  <2>2. Save(p, h)
    BY <2>1
  <2>3. c.agent \in Agent
    BY DEF ClaimCall
  <2> HIDE DEF g
  <2>4. h \in Seq(TaskRecord) /\ Owners(g, h) /\ Unblocks(g, h) /\ Starts(g, h, {})
    BY <1>1, <2>1, <2>3, ClaimEffect
  <2> HIDE DEF h
  <2> QED
    BY <2>2, <2>4 DEF Effect
<1>4. ASSUME NEW c \in ReclaimCall, TaskReclaim(p, c)
      PROVE  \E h : Save(p, h) /\ Effect(g, h, {})
  <2>1. PICK i \in Orphans(g, c.limit) :
           /\ Selects(g, c.id, i, Orphans(g, c.limit))
           /\ Save(p, [g EXCEPT ![i] = Own(@, c.agent)])
    BY <1>4 DEF TaskReclaim
  <2> DEFINE h == [g EXCEPT ![i] = Own(@, c.agent)]
  <2>2. Save(p, h)
    BY <2>1
  <2>3. c.agent \in Agent /\ c.limit \in Thresholds
    BY DEF ReclaimCall
  <2> HIDE DEF g
  <2>4. h \in Seq(TaskRecord) /\ Owners(g, h) /\ Unblocks(g, h) /\ Starts(g, h, {})
    BY <1>1, <2>1, <2>3, ReclaimEffect
  <2> HIDE DEF h
  <2> QED
    BY <2>2, <2>4 DEF Effect
<1>5. ASSUME NEW limit \in Thresholds, TaskReset(p, limit)
      PROVE  \E h : Save(p, h) /\ Effect(g, h, {})
  <2> DEFINE h == [i \in DOMAIN g |-> IF i \in Orphans(g, limit) THEN Release(g[i]) ELSE g[i]]
  <2>1. Save(p, h)
    BY <1>5 DEF TaskReset
  <2> HIDE DEF g
  <2>2. h \in Seq(TaskRecord) /\ Owners(g, h) /\ Unblocks(g, h) /\ Starts(g, h, {})
    BY <1>1, ResetEffect
  <2> HIDE DEF h
  <2> QED
    BY <2>1, <2>2 DEF Effect
<1>6. ASSUME NEW c \in BlockCall, TaskBlock(p, c)
      PROVE  \E h : Save(p, h) /\ Effect(g, h, {})
  <2> DEFINE deps == g[c.id].deps \cup c.deps
             h == [g EXCEPT ![c.id].deps = deps,
                            ![c.id].status = IF depsSatisfied(g, deps) THEN @ ELSE "BLOCKED"]
  <2>1. c.id \in DOMAIN g /\ Save(p, h)
    BY <1>6 DEF TaskBlock
  <2>2. c.deps \in SUBSET Nat
    BY ManagerAssumption DEF BlockCall
  <2> HIDE DEF g
  <2>3. h \in Seq(TaskRecord) /\ Owners(g, h) /\ Unblocks(g, h) /\ Starts(g, h, {})
    BY <1>1, <2>1, <2>2, BlockEffect
  <2> HIDE DEF h
  <2> QED
    BY <2>1, <2>3 DEF Effect
<1> QED
  BY <1>2, <1>3, <1>4, <1>5, <1>6 DEF Saves

\* A step changes the file only at the end of a call that saves.
LEMMA StepEffect ==
    ASSUME TypeOK, [Next]_vars
    PROVE  \/ file' = file
           \/ \E p \in Process : Saves(p)
           \/ \E p \in Process, c \in UpdateCall : TaskUpdate(p, c)
BY DEF Next, Tool, Saves, Load, Tick, vars, TaskClaimRefused, TaskUpdateRefused,
       TaskReclaimRefused, TaskBlockRefused, Refuse

LEMMA StepFresh ==
    ASSUME TypeOK, Fresh, [Next]_vars
    PROVE  TypeOK' /\ Fresh'
<1>1. ASSUME NEW p \in Process, Load(p)
      PROVE  TypeOK' /\ Fresh'
  BY <1>1 DEF Load, TypeOK, Fresh
<1>2. ASSUME NEW p \in Process, file' \in Seq(TaskRecord), Leaves(p)
      PROVE  TypeOK' /\ Fresh'
  BY <1>2 DEF Leaves, TypeOK, Fresh
<1>3. ASSUME NEW p \in Process, Refuses(p)
      PROVE  TypeOK' /\ Fresh'
  <2>1. Refuse(p)
    BY <1>3 DEF Refuses, TaskClaimRefused, TaskUpdateRefused, TaskReclaimRefused,
                TaskBlockRefused
  <2> QED
    BY <2>1 DEF Refuse, Return, TypeOK, Fresh
<1>4. CASE Tick
  BY <1>4 DEF Tick, TypeOK, Fresh
<1>5. CASE UNCHANGED vars
  BY <1>5 DEF vars, TypeOK, Fresh
<1>6. ASSUME NEW p \in Process, Tool(p)
      PROVE  TypeOK' /\ Fresh'
  <2>1. Saves(p) \/ Refuses(p) \/ \E c \in UpdateCall : TaskUpdate(p, c)
    BY <1>6 DEF Tool, Saves, Refuses
  <2>2. CASE Saves(p)
    BY <1>2, <2>2, OtherSaves DEF Effect
  <2>3. ASSUME NEW c \in UpdateCall, TaskUpdate(p, c)
        PROVE  TypeOK' /\ Fresh'
    BY <1>2, <2>3, UpdateSaves DEF Effect
  <2> QED
    BY <1>3, <2>1, <2>2, <2>3
<1> QED
  BY <1>1, <1>4, <1>5, <1>6 DEF Next

\* The call that ends with a current copy in this step is the one that saved.
LEMMA CurrentEffect ==
    ASSUME TypeOK, Fresh, [Next]_vars, NEW p \in Process, EndsCurrent(p)
    PROVE  \/ file' = file
           \/ Effect(file, file', {})
           \/ \E c \in UpdateCall : TaskUpdate(p, c) /\ Effect(file, file', {c.id})
<1>1. graph[p] = file
  BY DEF Fresh, EndsCurrent
<1>2. ASSUME NEW q \in Process, Leaves(q)
      PROVE  q = p
  BY <1>2 DEF Leaves, EndsCurrent, TypeOK
<1>3. CASE file' = file
  BY <1>3
<1>4. ASSUME NEW q \in Process, Saves(q)
      PROVE  Effect(file, file', {})
  BY <1>1, <1>2, <1>4, OtherSaves
<1>5. ASSUME NEW q \in Process, NEW c \in UpdateCall, TaskUpdate(q, c)
      PROVE  TaskUpdate(p, c) /\ Effect(file, file', {c.id})
  BY <1>1, <1>2, <1>5, UpdateSaves
<1> QED
  BY <1>3, <1>4, <1>5, StepEffect

-----------------------------------------------------------------------------
\* task-manager.ts:68-83: the graph that a tool changes is the file's, from its
\* load until it saves or another process does.
THEOREM CopiesFresh == Spec => [](TypeOK /\ Fresh)
<1>1. Init => TypeOK /\ Fresh
  BY DEF Init, TypeOK, Fresh
<1>2. TypeOK /\ Fresh /\ [Next]_vars => TypeOK' /\ Fresh'
  BY StepFresh
<1> QED
  BY <1>1, <1>2, PTL DEF Spec

\* task-manager.ts:363-376, 798: no tool takes an active task from an owner
\* whose heartbeat is fresh, except from a copy that another process has
\* overtaken.
THEOREM OwnershipSafe == Spec => OwnershipRespected
<1>1. TypeOK /\ Fresh /\ [Next]_vars =>
         [\A p \in Process : EndsCurrent(p) =>
            \A i \in Both :
             (/\ file[i].status \in Active /\ file[i].owner # NoAgent
              /\ file'[i].owner # file[i].owner) =>
                \/ \E l \in Thresholds : isOrphaned(file[i], l)
                \/ file'[i].status = "PENDING"]_vars
  BY CurrentEffect DEF Effect, Owners, Both
<1> QED
  BY <1>1, CopiesFresh, PTL DEF Spec, OwnershipRespected

\* task-manager.ts:553-565: the call that completes the last dependency of a
\* blocked task, none of which had ever failed or been cancelled, also
\* unblocks it, except from a copy that another process has overtaken.
THEOREM UnblockSafe == Spec => NoLostUnblock
<1>1. TypeOK /\ Fresh /\ [Next]_vars =>
         [\A p \in Process : EndsCurrent(p) =>
            \A i \in Both :
             (/\ file[i].status = "BLOCKED" /\ ~depsSatisfied(file, file[i].deps)
              /\ \A d \in file'[i].deps : Completed(file', d) /\ ~file'[d].lost) =>
                file'[i].status # "BLOCKED"]_vars
  <2> SUFFICES ASSUME TypeOK, Fresh, [Next]_vars,
                      NEW p \in Process, EndsCurrent(p), NEW i \in Both,
                      file[i].status = "BLOCKED", ~depsSatisfied(file, file[i].deps),
                      depsSatisfied(file', file'[i].deps)
               PROVE  file'[i].status # "BLOCKED"
    BY DEF depsSatisfied
  <2>1. file' = file \/ Unblocks(file, file')
    BY CurrentEffect DEF Effect
  <2> QED
    BY <2>1 DEF Unblocks, Both
<1> QED
  BY <1>1, CopiesFresh, PTL DEF Spec, NoLostUnblock

\* task-manager.ts:343-361, 379: only task_update puts a task that is blocked,
\* completed or cancelled to work, except from a copy that another process has
\* overtaken.
THEOREM ClaimsSafe == Spec => OnlyOpenTasksClaimed
<1>1. TypeOK /\ Fresh /\ [Next]_vars =>
         [\A p \in Process : EndsCurrent(p) =>
            \A i \in Both :
             (/\ file[i].status \in {"BLOCKED", "COMPLETED", "CANCELLED"}
              /\ file'[i].status \in Active) =>
                \E c \in UpdateCall : c.id = i /\ TaskUpdate(p, c)]_vars
  <2> SUFFICES ASSUME TypeOK, Fresh, [Next]_vars,
                      NEW p \in Process, EndsCurrent(p), NEW i \in Both,
                      file[i].status \in {"BLOCKED", "COMPLETED", "CANCELLED"},
                      file'[i].status \in Active
               PROVE  \E c \in UpdateCall : c.id = i /\ TaskUpdate(p, c)
    OBVIOUS
  <2>1. file' # file
    BY DEF Active
  <2>2. ~Effect(file, file', {})
    BY DEF Effect, Starts, Both
  <2>3. PICK c \in UpdateCall : TaskUpdate(p, c) /\ Effect(file, file', {c.id})
    BY <2>1, <2>2, CurrentEffect
  <2> QED
    BY <2>3 DEF Effect, Starts, Both
<1> QED
  BY <1>1, CopiesFresh, PTL DEF Spec, OnlyOpenTasksClaimed

=============================================================================
