---------------------------- MODULE LearningLoop ----------------------------
(***************************************************************************)
(* The learning loop of the reference profile (learning-loop.ts) beside    *)
(* the collective memory of module CollectiveMemory.  A lesson, from a     *)
(* confirmed finding or a rejected hypothesis, is written to one file of   *)
(* its own, then to an index, to collective-memory.json (under the key     *)
(* entries, which the memory tools do not know), to the security graph and *)
(* perhaps to a benchmark case: five files, one after the other, each      *)
(* opened (truncated) and then written, while other sessions do the same.  *)
(* Texts, tags and dates of a lesson are left out.                         *)
(***************************************************************************)
EXTENDS CollectiveMemory

CONSTANTS Findings, Hypotheses,   \* ids of findings and of hypotheses
          SafeId,       \* the file name of an id: a function
          NodeId,       \* the id of a node: a function of its prefix and its name
          Within,       \* <<x, y>>: the text y contains the text x, and is not x
          Planted,      \* BOUND: the nodes sec_graph_add may have left, sequences of them
          MAX_ENTRIES,  \* entries kept (500 in the code)
          MaxLessons    \* BOUND: lessons started in one behaviour

Ids == Findings \cup Hypotheses
SafeIds == {SafeId[i] : i \in Ids}

IdPrefixes == {"pattern", "rejected", "finding", "hypothesis"}

(* A safe id is as long as its id, so that with a prefix it is another text. *)
ASSUME LearningAssumption ==
  /\ DOMAIN SafeId = Ids /\ DOMAIN NodeId = IdPrefixes \X (Ids \cup SafeIds)
  /\ \A i \in Ids, p \in IdPrefixes : NodeId[p, SafeId[i]] # i
  /\ \A f \in Findings : <<f, NodeId["finding", f]>> \in Within
  /\ \A nodes \in Planted : nodes \in Seq(Range(nodes))
  /\ MAX_ENTRIES \in Nat \ {0} /\ MaxLessons \in Nat

VARIABLES disk,    \* the files of the learning loop, collective-memory.json apart
          lesson,  \* the running call of each session
          lessons  \* lessons started so far
learnVars == <<disk, lesson, lessons>>
vars == <<memoryVars, learnVars>>

Files == ({"finding", "rejection", "case"} \X SafeIds)
           \cup {<<"index", "finding">>, <<"index", "rejection">>, <<"graph", "">>}
GraphFile == <<"graph", "">>

(* todo: the parts of the lesson still to be saved; at: before the read of  *)
(* the next one, before its open, or before its write; alone: no other      *)
(* session has run a call since this one began.                             *)
NoLesson == [kind |-> "none", todo |-> <<>>]
busy(s) == proc[s] # Idle \/ lesson[s] # NoLesson

-----------------------------------------------------------------------------
(* Reading and rewriting a file *)

loadJson(f, fallback) == IF f.at = "ok" THEN f ELSE fallback
noGraph == [at |-> "ok", nodes |-> <<>>, edges |-> {}]
graph == loadJson(disk[GraphFile], noGraph)

(* A node of type finding, as all that the loop adds are.  Nodes of other    *)
(* types, labels and details are left out.                                  *)
NodeOf(id) == [id |-> id, meta |-> FALSE]
Node(prefix, name) == NodeOf(NodeId[prefix, name])
same(n, m) == n.id = m.id

(* The first finding whose id contains the one looked for, equal or not.    *)
FirstContaining(f) ==
  LET found == {k \in DOMAIN graph.nodes :
                  graph.nodes[k].id = f \/ <<f, graph.nodes[k].id>> \in Within}
  IN IF found = {} THEN {} ELSE {graph.nodes[Min(found)]}

(* The finding of the graph with that id, or else the first whose id        *)
(* contains it, as a set.                                                   *)
findGraphFinding(f) ==
  LET exact == {k \in DOMAIN graph.nodes : graph.nodes[k].id = f}
      found == IF exact # {} THEN exact
               ELSE {k \in DOMAIN graph.nodes : <<f, graph.nodes[k].id>> \in Within}
  IN IF found = {} THEN {} ELSE {graph.nodes[Min(found)]}

(* An entry learned again replaces the old one; the oldest rotate out.      *)
rotated(entries, e) ==
  LET all == Append(filtered(entries, {k \in DOMAIN entries : entries[k] # e}), e)
  IN SubSeq(all, IF Len(all) > MAX_ENTRIES THEN 1 + Len(all) - MAX_ENTRIES ELSE 1, Len(all))

entryOf(l) == <<l.kind, l.id>>
addCollectiveMemory(l) ==
  LET m == loadJson(file, [at |-> "ok", items |-> <<>>, counter |-> 0, entries |-> {<<>>}])
  IN [m EXCEPT !.entries = {rotated(es, entryOf(l)) : es \in @}]

upsert(nodes, n) == IF \E k \in DOMAIN nodes : same(nodes[k], n)
                    THEN [k \in DOMAIN nodes |-> IF same(nodes[k], n) THEN n ELSE nodes[k]]
                    ELSE Append(nodes, n)
knowledge(l) == Node(IF l.kind = "finding" THEN "pattern" ELSE "rejected", SafeId[l.id])
EdgeOf(from, to) == <<from.id, to.id>>
updateGraphKnowledge(l) ==
  LET nodes == upsert(graph.nodes, knowledge(l))
  IN [at |-> "ok",
      nodes |-> IF \E k \in DOMAIN nodes : same(nodes[k], l.link) THEN nodes ELSE Append(nodes, l.link),
      edges |-> graph.edges \cup {EdgeOf(l.link, knowledge(l))}]

indexed(l) ==
  LET ids == loadJson(disk[<<"index", l.kind>>], [at |-> "ok", ids |-> <<>>]).ids
  IN [at |-> "ok", ids |-> Append(filtered(ids, {k \in DOMAIN ids : ids[k] # l.id}), l.id)]

(* The file a part of a lesson goes to, and what is written to it.          *)
target(l, part) == CASE part = "own" -> <<l.kind, SafeId[l.id]>>
                     [] part = "case" -> <<"case", SafeId[l.id]>>
                     [] part = "index" -> <<"index", l.kind>>
                     [] part = "graph" -> GraphFile
content(l, part) == CASE part \in {"own", "case"} -> [at |-> "ok", of |-> l.id]
                      [] part = "index" -> indexed(l)
                      [] part = "graph" -> updateGraphKnowledge(l)
                      [] part = "memory" -> addCollectiveMemory(l)

-----------------------------------------------------------------------------
(* Calls *)

(* A file of the memory tools has no entries: both addCollectiveMemory and  *)
(* computeStatus use the missing array and throw.                           *)
noEntries == readable /\ file.entries = {}

Crowded(s) == [t \in Sessions |-> IF t # s /\ lesson[t] # NoLesson
                                  THEN [lesson[t] EXCEPT !.alone = FALSE] ELSE lesson[t]]

(* The index written before the file it names.                              *)
IndexFirst(suitable) == <<"index", "own", "memory", "graph", "status">>
parts(suitable) == IF suitable THEN <<"own", "index", "memory", "graph", "case", "status">>
                   ELSE <<"own", "index", "memory", "graph", "status">>

Start(s, kind, id, link, suitable) ==
  /\ ~busy(s) /\ lessons < MaxLessons /\ lessons' = lessons + 1
  /\ lesson' = [Crowded(s) EXCEPT ![s] =
       [kind |-> kind, id |-> id, link |-> link, suitable |-> suitable, todo |-> parts(suitable),
        at |-> "next", data |-> <<>>, stale |-> FALSE, alone |-> \A t \in Sessions \ {s} : ~busy(t)]]
  /\ UNCHANGED <<memoryVars, disk>>

(* Enough evidence, and a class that is not merely informational.           *)
benchmarkSuitable(evidence, exploitable) == evidence /\ exploitable

(* With any target context, given or found in the graph, the handler throws *)
(* before it has written anything: it then names an undefined variable.     *)
learn_from_finding(s) ==
  \E f \in Findings, evidence, exploitable \in BOOLEAN :
    LET node == findGraphFinding(f) IN
    /\ \A n \in node : ~n.meta
    /\ Start(s, "finding", f,
             IF node = {} THEN Node("finding", f) ELSE CHOOSE n \in node : TRUE,
             benchmarkSuitable(evidence, exploitable))

learn_from_rejection(s) ==
  \E h \in Hypotheses : Start(s, "rejection", h, Node("hypothesis", h), FALSE)

-----------------------------------------------------------------------------
(* Steps of a started call *)

part(s) == IF lesson[s].todo = <<>> THEN "none" ELSE Head(lesson[s].todo)
at(s, where) == lesson[s] # NoLesson /\ lesson[s].at = where

Read(s) ==
  /\ at(s, "next") /\ part(s) # "status" /\ ~(part(s) = "memory" /\ noEntries)
  /\ lesson' = [lesson EXCEPT ![s].at = "read", ![s].data = content(lesson[s], part(s)),
                              ![s].stale = part(s) = "memory" /\ file = Torn]
  /\ UNCHANGED <<memoryVars, disk, lessons>>

(* From an open of the memory file on, every other copy of it is outdated.  *)
Outdated(s, ls) == [t \in Sessions |->
                      IF t # s /\ ls[t] # NoLesson /\ part(t) = "memory"
                      THEN [ls[t] EXCEPT !.stale = ls[t].at # "next"] ELSE ls[t]]

Put(s, c) ==
  IF part(s) = "memory"
  THEN file' = c /\ proc' = Overtaken(s, proc) /\ UNCHANGED disk
  ELSE disk' = [disk EXCEPT ![target(lesson[s], part(s))] = c] /\ UNCHANGED <<file, proc>>

OpenJson(s) ==
  /\ at(s, "read") /\ Put(s, Torn)
  /\ lesson' = LET ls == [lesson EXCEPT ![s].at = "open"]
               IN IF part(s) = "memory" THEN Outdated(s, ls) ELSE ls
  /\ UNCHANGED <<clock, calls, last, given, damaged, lessons>>

WriteJson(s) ==
  /\ at(s, "open") /\ Put(s, lesson[s].data)
  /\ lesson' = LET ls == [lesson EXCEPT ![s].at = "next", ![s].todo = Tail(@), ![s].data = <<>>]
               IN IF part(s) = "memory" THEN Outdated(s, ls) ELSE ls
  /\ damaged' = (damaged \/ lesson[s].stale)
  /\ UNCHANGED <<clock, calls, last, given, lessons>>

End(s) == lesson' = [lesson EXCEPT ![s] = NoLesson] /\ UNCHANGED <<disk, lessons>>
(* computeStatus has counted what is there.                                 *)
Answer(s) == at(s, "next") /\ part(s) = "status" /\ ~noEntries /\ End(s) /\ UNCHANGED memoryVars
Throw(s) == at(s, "next") /\ part(s) \in {"memory", "status"} /\ noEntries /\ End(s) /\ UNCHANGED memoryVars
Die(s) ==
  /\ at(s, "open") /\ End(s) /\ damaged' = (damaged \/ part(s) = "memory")
  /\ UNCHANGED <<file, proc, clock, calls, last, given>>

LessonStep(s) == Read(s) \/ OpenJson(s) \/ WriteJson(s) \/ Answer(s) \/ Throw(s) \/ Die(s)

-----------------------------------------------------------------------------
(* No graph, or one that sec_graph_add left.                                *)
Init ==
  /\ MemoryInit /\ lessons = 0 /\ lesson = [s \in Sessions |-> NoLesson]
  /\ \E g \in {Absent} \cup {[noGraph EXCEPT !.nodes = nodes] : nodes \in Planted} :
       disk = [f \in Files |-> IF f = GraphFile THEN g ELSE Absent]

(* The memory tools of a session that is not learning.                      *)
ToolCall(s) == lesson[s] = NoLesson /\ MemoryCall(s) /\ lesson' = Crowded(s) /\ UNCHANGED <<disk, lessons>>
ToolSave(s) == (Open(s) \/ Write(s)) /\ lesson' = Outdated(s, lesson) /\ UNCHANGED <<disk, lessons>>
ToolCrash(s) == Crash(s) /\ UNCHANGED learnVars

(* The clock stands still: no lesson depends on it, and a prune then only   *)
(* saves the file again (CollectiveMemory has the one that removes items).  *)
Next == \E s \in Sessions :
          \/ ToolCall(s) \/ ToolSave(s) \/ ToolCrash(s)
          \/ learn_from_finding(s) \/ learn_from_rejection(s) \/ LessonStep(s)

Spec == Init /\ [][Next]_vars

-----------------------------------------------------------------------------
(* Properties *)

(* The link of a lesson in a graph with these nodes is the finding itself   *)
(* where that has a node of exactly its id, and else a node whose id        *)
(* contains it: "finding:" and the id or, when such a finding is learned    *)
(* again, what its first lesson left, perhaps the very node of the lesson.  *)
Linked(l, nodes) ==
  IF l.kind = "finding"
  THEN \/ l.link.id = l.id
       \/ l.id \notin {n.id : n \in Range(nodes)} /\ <<l.id, l.link.id>> \in Within
  ELSE l.link.id = NodeId["hypothesis", l.id]

(* All that a lesson leaves behind: its file, its index entry, one entry in *)
(* the memory, within the limit and the newest, its benchmark case when it  *)
(* is suitable, and its node in the graph, reached from its link.           *)
complete(l) ==
  /\ disk[<<l.kind, SafeId[l.id]>>] = [at |-> "ok", of |-> l.id]
  /\ l.id \in Range(disk[<<"index", l.kind>>].ids)
  /\ readable /\ \E es \in file.entries :
       /\ Last(es) = entryOf(l) /\ Len(es) <= MAX_ENTRIES
       /\ Cardinality({k \in DOMAIN es : es[k] = entryOf(l)}) = 1
  /\ l.suitable => disk[<<"case", SafeId[l.id]>>] = [at |-> "ok", of |-> l.id]
  /\ EdgeOf(l.link, knowledge(l)) \in graph.edges
  /\ {l.link.id, knowledge(l).id} \subseteq {n.id : n \in Range(graph.nodes)}
  /\ Linked(l, graph.nodes)

(* A lesson that was answered while no other session ran a call is complete *)
(* in all its files, whatever earlier calls left torn.                      *)
LessonComplete ==
  [][\A s \in Sessions : Answer(s) /\ lesson[s].alone => complete(lesson[s])]_vars

(* "Extract knowledge from a CONFIRMED finding and update all knowledge     *)
(* subsystems": a call that ran alone to its end, answered or not, leaves   *)
(* no lesson that only some of the files know of.                           *)
NoHalfLesson ==
  [][\A s \in Sessions : (Answer(s) \/ Throw(s)) /\ lesson[s].alone => complete(lesson[s])]_vars

(* What an index names has a file, also after races and after a session     *)
(* that died in a write (the file is saved before the index).               *)
IndexedHaveFiles ==
  \A kind \in {"finding", "rejection"} :
    disk[<<"index", kind>>].at = "ok" =>
      \A i \in Range(disk[<<"index", kind>>].ids) : disk[<<kind, SafeId[i]>>].at # "absent"

(* The memory tools, which know nothing of lessons, take none out of a file *)
(* they could read, unless another session overtook them.                   *)
LessonsSurviveTools ==
  [][\A s \in Sessions : Open(s) /\ readable /\ ~proc[s].stale => proc[s].m.entries = file.entries]_vars
=============================================================================
