----------------------------- MODULE SwarmState -----------------------------
(***************************************************************************)
(* The budget manager (budget-manager.ts) and the observability extension  *)
(* (observability.ts) of the reference profile keep their state in ONE     *)
(* file, swarm-state.json.  Every Pi session loads both extensions.  A     *)
(* handler runs without an await, so the calls of one session never        *)
(* overlap; the file operations of different sessions do.  Each handler is *)
(* its reads followed by the writes it still has to make (proc[s].todo),   *)
(* and writeFileSync is its two system calls: open, which truncates, then  *)
(* write.  The budget manager's save() reads the file a second time.       *)
(***************************************************************************)
EXTENDS Naturals, Sequences, FiniteSets, SequencesExt, FiniteSetsExt

CONSTANTS Sessions,        \* the Pi sessions that share the data directory
          Investigations,  \* investigation ids
          Tokens,          \* token counts a budget_track call may report
          Limits,          \* max_tokens values of budget_set_limit
          MAX_COSTS,       \* cost entries kept (5000 in the code)
          MAX_ACTIVITY,    \* activity entries kept (500 in the code)
          MaxCalls,        \* BOUND: calls started in one behaviour
          Crashes          \* whether a session may die between open and write

ASSUME SwarmAssumption ==
  /\ MAX_COSTS \in Nat \ {0} /\ MAX_ACTIVITY \in Nat \ {0} /\ MaxCalls \in Nat
  /\ Tokens \subseteq Nat /\ Limits \subseteq Nat /\ Crashes \in BOOLEAN

VARIABLES file,    \* swarm-state.json
          proc,    \* what the running call of each session has still to do
          calls,   \* calls started so far; also the id of the next cost entry
          acked    \* cost entries whose budget_track has been answered
vars == <<file, proc, calls, acked>>

Absent == [at |-> "absent"]
Torn   == [at |-> "torn"]      \* truncated: JSON.parse("") throws

(* A cost entry: its id, its investigation and its tokens; the cost is the  *)
(* tokens at the model's rate and is summed and limited the same way.       *)
Entries == [id : 1..MaxCalls, inv : Investigations, tokens : Tokens]

(* The file: the budget manager's keys (costs, limits) and the observers'   *)
(* (activity, newest first, and whether any agent is registered).           *)
\* A limit is a set: {max_tokens}, or {} when the dimension is unbounded.
NoLimits == [i \in Investigations |-> {}]
emptyState == [at |-> "ok", costs |-> <<>>, limits |-> NoLimits,
               activity |-> <<>>, agents |-> FALSE]

readable == file.at = "ok"

(* todo: the writes left; open: the file is open for the first of them;     *)
(* stale, late: another session has opened or written the file since this   *)
(* call's first read, since its last read; why: the call.                   *)
Idle == [todo |-> <<>>, open |-> FALSE, stale |-> FALSE, late |-> FALSE, why |-> "none"]

-----------------------------------------------------------------------------
(* budget-manager.ts *)

load == IF readable THEN file ELSE emptyState

(* slice(0, MAX_COSTS) in place of slice(-MAX_COSTS): the oldest are kept.   *)
FirstCosts(costs) == SubSeq(costs, 1, IF Len(costs) > MAX_COSTS THEN MAX_COSTS ELSE Len(costs))
lastCosts(costs) == SubSeq(costs, 1 + (IF Len(costs) > MAX_COSTS
                                       THEN Len(costs) - MAX_COSTS ELSE 0), Len(costs))

(* A save that replaces the file by the budget manager's own keys: save()   *)
(* without its second read.                                                 *)
SaveBlind(state) == [emptyState EXCEPT !.costs = state.costs, !.limits = state.limits]

(* save() re-reads the file and replaces the keys it owns in what it finds. *)
save(state) ==
  [(IF readable THEN file ELSE emptyState)
     EXCEPT !.costs = state.costs, !.limits = state.limits]

-----------------------------------------------------------------------------
(* observability.ts *)

(* loadState writes a fresh file at once when there is none to read.        *)
loadWrites == IF readable THEN <<>> ELSE <<[kind |-> "state", state |-> emptyState]>>

(* loadState that keeps only the keys the SwarmState interface names.       *)
AddToKnownKeys(state) == [emptyState EXCEPT !.activity = <<calls + 1>>, !.agents = state.agents]
addActivity(state) ==
  [state EXCEPT !.activity =
     SubSeq(<<calls + 1>> \o @, 1, IF Len(@) < MAX_ACTIVITY THEN Len(@) + 1 ELSE MAX_ACTIVITY)]

-----------------------------------------------------------------------------
(* Calls *)

Start(s, why, todo) ==
  /\ proc[s].todo = <<>> /\ calls < MaxCalls
  /\ calls' = calls + 1
  /\ proc' = [proc EXCEPT ![s] = [Idle EXCEPT !.todo = todo, !.why = why]]
  /\ UNCHANGED <<file, acked>>

budget_track(s) ==
  \E i \in Investigations, n \in Tokens :
    LET entry == [id |-> calls + 1, inv |-> i, tokens |-> n]
        state == [load EXCEPT !.costs = lastCosts(Append(@, entry))]
    IN Start(s, "track", <<[kind |-> "save", state |-> state, entry |-> entry]>>)

budget_set_limit(s) ==
  \E i \in Investigations, m \in {{}} \cup {{n} : n \in Limits} :
    Start(s, "limit", <<[kind |-> "save", state |-> [load EXCEPT !.limits[i] = m]]>>)

session_start(s) ==
  LET state == IF readable THEN file ELSE emptyState
  IN Start(s, "start",
           loadWrites \o (IF state.agents THEN <<>>
                          ELSE <<[kind |-> "state", state |-> addActivity(state)]>>))

(* The reports only read, except that loadState may write.                  *)
Report(s) == ~readable /\ Start(s, "report", loadWrites)
swarm_status(s)   == Report(s)
swarm_activity(s) == Report(s)
swarm_cost(s)     == Report(s)
swarmCommand(s) ==
  \/ Report(s)
  \/ Start(s, "reset", loadWrites \o <<[kind |-> "state", state |-> emptyState]>>)

-----------------------------------------------------------------------------
(* File operations of a started call *)

(* Every session that has read the file and not yet written has a stale     *)
(* copy from here on.                                                       *)
Overtaken(s, p) == [t \in Sessions |->
                      IF t # s /\ p[t].todo # <<>> 
                      THEN [p[t] EXCEPT !.stale = TRUE, !.late = TRUE] ELSE p[t]]

Reread(s) ==
  LET w == proc[s].todo[1] IN
  /\ proc[s].todo # <<>> /\ w.kind = "save"
  /\ proc' = [proc EXCEPT ![s].todo[1] = [w EXCEPT !.kind = "state", !.state = save(w.state)],
                          ![s].late = FALSE]
  /\ UNCHANGED <<file, calls, acked>>

Open(s) ==
  /\ proc[s].todo # <<>> /\ Head(proc[s].todo).kind = "state" /\ ~proc[s].open
  /\ file' = Torn
  /\ proc' = Overtaken(s, [proc EXCEPT ![s].open = TRUE])
  /\ UNCHANGED <<calls, acked>>

Write(s) ==
  LET w == Head(proc[s].todo) IN
  /\ proc[s].open
  /\ file' = w.state
  /\ proc' = Overtaken(s, [proc EXCEPT ![s].open = FALSE, ![s].todo = Tail(@)])
  /\ acked' = IF proc[s].why = "track" THEN acked \cup {w.entry}
              ELSE IF proc[s].why = "reset" THEN {} ELSE acked
  /\ UNCHANGED calls

(* The session dies after open and before write: the file stays truncated.  *)
Crash(s) ==
  /\ Crashes /\ proc[s].open
  /\ proc' = [proc EXCEPT ![s] = Idle]
  /\ UNCHANGED <<file, calls, acked>>

Init == /\ file \in {Absent, emptyState, [emptyState EXCEPT !.agents = TRUE]}
        /\ proc = [s \in Sessions |-> Idle]
        /\ calls = 0 /\ acked = {}

Next == \E s \in Sessions :
          \/ budget_track(s) \/ budget_set_limit(s)
          \/ session_start(s) \/ swarm_status(s) \/ swarm_activity(s) \/ swarm_cost(s)
          \/ swarmCommand(s)
          \/ Reread(s) \/ Open(s) \/ Write(s) \/ Crash(s)

Spec == Init /\ [][Next]_vars

-----------------------------------------------------------------------------
(* Properties *)

Opening(s, whys) == Open(s) /\ readable /\ proc[s].why \in whys
Content(s) == Head(proc[s].todo).state

(* "Other keys in that file are preserved untouched": unless another        *)
(* session has touched the file since save()'s own re-read, a budget save   *)
(* leaves the activity log and the agents as they are in the file, also     *)
(* those written after the budget manager's first read.                     *)
OthersKeysPreserved ==
  [][\A s \in Sessions : Opening(s, {"track", "limit"}) /\ ~proc[s].late
       => Content(s).activity = file.activity /\ Content(s).agents = file.agents]_vars

(* Only /swarm reset and an overlapping call of another session can take    *)
(* cost entries or limits out of a readable file: neither a session start   *)
(* nor a report of the observers does, nor does setting a limit drop costs. *)
LedgerKept ==
  [][\A s \in Sessions : Opening(s, {"start", "report", "limit"}) /\ ~proc[s].stale
       => /\ Content(s).costs = file.costs
          /\ proc[s].why # "limit" => Content(s).limits = file.limits]_vars

(* A budget_track that no other session overlapped adds its entry as the    *)
(* newest and gives up nothing but the oldest entries beyond MAX_COSTS.     *)
NewestCostsKept ==
  [][\A s \in Sessions : Opening(s, {"track"}) /\ ~proc[s].stale
       => LET all == Append(file.costs, Head(proc[s].todo).entry)
          IN /\ IsSuffix(Content(s).costs, all)
             /\ Len(Content(s).costs) = Min({Len(all), MAX_COSTS})]_vars

=============================================================================
