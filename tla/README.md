# A TLA+ model of the Pi Sec Workbench

The workbench coordinates tasks across agents: a Go coordinator keeps a durable
queue in PostgreSQL, workers claim tasks under leases through an HTTP API, a
browser console watches. A collection of reference profiles, kept for design
context, holds an earlier file-based generation of the same tools. This
directory models the parts whose correctness depends on interleavings,
failures and the order of calls. Paths below are relative to the repository.

## Inventory

| Component | State | Operations | What is hard | What makes it correct |
|---|---|---|---|---|
| Task store, `internal/queue/store.go`, `schema.sql` | tables `tasks`, `task_events` | `Create`, `Claim` (with `recoverExpired`), `Heartbeat`, `Complete`, `Fail`, `Get`, `Snapshot` | concurrent transactions at READ COMMITTED, `SKIP LOCKED`, waiting for row locks while leases expire, cancelled requests, lost replies | one task per request key; a task runs only after its parents; only the current lease changes it; final states are final; row and history agree; every task ends if workers poll |
| HTTP API, `internal/httpapi/server.go` | 32 request slots, 16 stream slots | admission, authentication, decoding, routing, error mapping, SSE loop | slots on every exit path, the 5 s deadline against a commit, streams that outlive their reader | slots are bounded and come back; a status code tells the truth about the store |
| Coordinator process, `cmd/coordinator/main.go` | base context | start, migrate, serve, shut down | a signal cancels requests in flight, then `Shutdown` waits | nothing half done survives a stop |
| SDK and Pi extension, `sdk/src/client.ts`, `extensions/coordinator.ts` | none | one request per call, 10 s timeout | an error does not tell whether the call took effect | retries use the same key or token |
| URL scope, `sdk/src/scope.ts` | a set of origins | `allows` | none | exact origins only |
| Console, `web/src/app.ts` | attempt number, connection, draft key | connect, disconnect, render, create | late frames and late answers after a reconnect | nothing of an old connection is shown; a retried draft keeps its key |
| Demo, end-to-end script, `scripts/` | worker loops | create, claim, complete | a worker stops at its first empty claim | all tasks are completed at the end |
| Task manager, `profiles/reference/sec/extensions/task-manager.ts` | `task-graph.json` | `task_create`, `task_claim`, `task_update`, `task_reclaim`, `task_block`, three reports | several processes rewrite one file, staleness, orders of status changes | an agent that is alive keeps its task; completing the last dependency unblocks |
| Budget manager, `budget-manager.ts`, and observability, `observability.ts` | `swarm-state.json`, shared by both | `budget_track`, `budget_set_limit`; `session_start`, three reports, `/swarm` | two read-modify-write tools on one file, a report that writes, a ledger that is trimmed | neither loses the other's keys; the newest costs stay |
| Collective memory, `collective-memory.ts` | `collective-memory.json` | store, retrieve, search, check for duplicates, prune | reads rewrite the file, slots differ by level, pruning | one item per slot, the last value is found, durable items stay, ids are not reused |
| Security graph, `security-graph.ts` | `security-graph.json` | add, link, path query, chain search, export | cycles, parallel edges, two depth tests, a cap tested late | exactly the simple paths up to depth and cap, and an end |
| Scope guard, `scope-guard-v2.ts`, and its predecessor `scope-guard.ts` | `scope.yaml`, `scope-violations.json`, the profile's scope | `/scope` commands, `scope_check`, `scope_violation`, the `tool_call` hook | a file truncated or moved, shift arithmetic, order of the lists | fails closed, exclusion wins, no violation lost |
| Learning loop, `learning-loop.ts` | `patterns/`, `false-positives/`, `benchmark/` with two indexes, a key of `collective-memory.json`, nodes of the graph | `learn_from_finding`, `learn_from_rejection`, status and digest | five files rewritten in a row, two of them shared with other tools | a lesson is in all of them or in none; an index names what exists |
| Evaluation, `evaluation.ts` | `metrics.json`, `cases.json` | record, score, compare | rewriting, as in the collective memory | no entry lost |
| Corpus ingestor, pattern library, RAG, reference web UI, profile switcher | static data, files of the others | parse, search, show, copy | little | — |

Components meet in three places. Workers, Pi tools and the console call the
HTTP API, and each call is one store transaction; sessions of all callers, and
of several coordinator processes, meet only in PostgreSQL. The console reads
snapshots from a stream. The reference tools meet only in the files of their
data directory. `PROJECT.json` lists the components, the hazards of each line,
and the source lines each definition stands for.

## Modules

- **`LeaseQueue`**: the promise to the queue's clients. A task goes from pending to
  running to a final state; a lease that ran out brings it back, or fails it at
  its last attempt; a failed parent fails it. A claim is one step: any
  housekeeping and at most one new lease, under a token no task carries.
- **`TaskStore`**: `store.go` statement by statement. A *session* is a handler
  call with its transaction; `pc` says which statement comes next. `row` and
  `events` are the committed tables, `work` and `wevents` the newest versions,
  visible to the session in `lock[t]` alone. A statement that reads other rows
  takes a snapshot in one step (`BeginClaim`, `TakeSnapshot`) and acts in a
  later one (`RecoverExpired`, `FailBlocked`, `ClaimTask`), testing its
  predicate again on the newest version of the row it locks, as PostgreSQL does
  at READ COMMITTED; the joined parents remain those of the snapshot. `LockRow`
  waits; the test of token and deadline (`Heartbeat`, `Finish`,
  `RejectUpdate`) follows in its own step. `Commit`, `CommitLost` (committed,
  answer lost) and `Abort` (the deferred rollback) end a session. `leases` and
  `replies` are what clients were told. A `Request` stands for a normalised
  `CreateRequest` and so for its fingerprint; `attempts`, tokens and times are
  integers, with 0 for null.
- **`TaskStoreInvariant`**: the inductive invariants `SessionInv`, `AgeInv`, `KeyInv`,
  `HistoryInv` and `LeaseInv`.
- **`ListOps`**: `Array.prototype.filter`, as memory, learning loop and graph use it:
  the elements at the positions kept.
- **`TaskStoreProofs`**, **`TaskManagerProofs`**, **`ConsoleProofs`**, **`SwarmStateProofs`**,
  **`MemoryProofs`** (collective memory and learning loop), **`ScopeGuardProofs`**,
  **`SecurityGraphProofs`**: the proofs, with the inductive invariants of the modules
  other than `TaskStore`. **`ListOpsProofs`**: the lemmas on lists and recursion that
  the last three share.
- **`TaskManager`**: the reference task graph. `Load` copies the file into the
  calling process; one action per tool computes the new graph and saves it, or
  returns without saving (`...Refused`). A tool body has no `await`, so calls
  interleave only between processes, of which there may be any number on one
  `PI_SEC_DATA_DIR`. `copy` says whether the graph a call has loaded is still
  the file's: a save of another process overtakes it, and the later save is then
  a lost update. `lost` marks the tasks that have once failed or been cancelled.
  A save may be cut short by a crash, and `load` takes the unreadable file for
  an empty graph. An id is a position, since `nextId` counts pushes and nothing
  is removed.
- **`Server`**: the HTTP API and the coordinator process. `conn[c]` is the
  request a connection carries; `requests` and `streams` are the tokens in the two
  channels, written by the code on the paths it writes them and never computed
  from `conn`. `Admit`, `Commit`, `Answer` and `fail` are a short request, in
  which the deadline may fall before or after the commit; `openStream`, `Frame`
  and `endStream` a stream; `Signal` the cancelled base context.
- **`Console`** EXTENDS `Server`: one tab, whose handlers run from `await` to
  `await`, beside other clients of the same server. `inbox` is the network in
  between, `attempt` the fence, `draft` the title and key of the form. The store is
  one task per key, which `TaskStore` shows. `strayed` records what the code does
  not claim to handle: two creates in flight after a reconnect, or a title
  given up without an answer.
- **`SwarmState`**: budget manager and observability on their common file. A call
  is the writes it still has to make (`proc[s].todo`); `Reread` is the second read
  of the budget manager's `save`.
- **`CollectiveMemory`**: the five memory tools; a text query selects any of the
  items it looks at.
- **`LearningLoop`** EXTENDS `CollectiveMemory`: lessons on the files they share with
  the memory tools. `lesson[s].todo` are the parts still to be saved; `Read`,
  `OpenJson` and `WriteJson` are one `loadJson` and `saveJson`, `Throw` the use of an
  array the file does not have. Ids of findings, file names and ids of nodes are
  texts, given by constants (`SafeId`, `NodeId`, `Within`); the instance computes them
  from strings. The memory tools keep the key `entries` because
  `load` returns the whole parsed object; a file they created has none.
- **`ScopeGuard`**: the scope file as its lines, `saveScopeYaml` and
  `parseScopeYaml` between it and the lists, the fallback to the profile, the
  matching of names, addresses and blocks, the hook and the log. The bit arithmetic is
  the code's at a small `Width`: shift counts wrap, `<<` and `&` give signed results,
  `>>> 0` makes a mask unsigned. `authorized` is a flag of the scope like any other,
  since the hook does not read it; `listed` are the rules that some command or the
  profile has ever named. Normalising a target's text is left out: targets are names
  or addresses.
- **`SecurityGraph`**: nodes and edges, and both searches with one step per
  iteration of their loop.
- **`MC...`**: instances for TLC. `MCTaskLiveness` puts two instances of `TaskStore` into
  one specification: `LiveSpec` chooses one at the start and restricts the calls to its
  sessions and requests, under the same fairness as `FairSpec`.

In the five modules of JSON or YAML files a handler has no `await`, so calls of one
Pi session do not overlap; sessions meet at the file. `writeFileSync` is two steps,
`Open`, which truncates, and `Write`; another session may read between them and a
session may die there (`Crash`). `stale` marks a call whose copy another session
has overtaken: the code takes no lock, and the properties say what holds up to such
an overlap. Half-written contents other than the empty file are left out.

`PROJECT.json` calls external what PostgreSQL and the network do (snapshots,
commit, rollback, clock, lost connections); it is modelled only as far as
`store.go` relies on it. The operators that `PROJECT.json` lists under
"mutants" are wrong variants of the definition after them. No specification uses
them: each shows that a property would notice the bug.

## Runs

| Run | Instance | What it shows |
|---|---|---|
| `leases` | one task, two attempts, two workers, two sessions, one fault | `AuditTrail`, `TerminalIsFinal`, `LeaseRespected`, `CompletedByHolder`, the inductive invariant, and that the store implements `LeaseQueue`, with heartbeats, expiry and late updates in every order |
| `dependencies` | two bodies for a parent's key, a child of another kind, two sessions, a rollback or lost reply | `DependenciesCompleted` although parents are read in earlier snapshots, `IdempotentCreate`, `DependenciesOlder`, and `LeaseQueue` with failure passed on |
| `cascade_ends` | one session, a task tried twice beside one tried once, independent of it or its dependent, one fault, a LIMIT of one; or two sessions, parent and child tried once, no fault | every task and every session ends |
| `manager` | two processes, two agents, three tasks of which one may wait for two others, times past the limit, a crash | `OwnershipRespected`, `OnlyOpenTasksClaimed`, `NoLostUnblock` |
| `swarm` | two sessions, two logs of two entries, crashes | `OthersKeysPreserved`, `LedgerKept`, `NewestCostsKept` |
| `scope` | two sessions, three profiles, authorized or not, names and 2-bit addresses, prefix lengths 0, 1 and full, crashes | `FailsClosed`, `DecisionExact`, `ExclusionKept`, `ViolationsKept` |
| `graph` | four nodes, six edges to choose from, with a cycle, three of them parallel and one that is not followed, two pairs asked for, caps of two | `FoundArePaths`, `NonePassedOver`, `CapOvershoot`, `SearchEnds` |
| `memory` | two sessions, two categories, prunes at different ages, a crash | `OneItemPerSlot`, `LastStoreKept`, `DurableKept`, `IdNeverReused` |
| `learning` | two sessions, graphs with and without the finding, two findings with one file name of which one is found in the ids of other nodes, a hypothesis, two lessons and a call of a memory tool, deaths in every write, one entry kept | `LessonComplete`, `IndexedHaveFiles`, `LessonsSurviveTools` |
| `console` | three connections, one slot of each kind, two attempts, three keys | `SlotsBalanced`, `NoLateFrame`, `OneTaskPerTitle` |
| `console_live` | two connections | `SlotsReturn`, `FormReturns` |

One run ends in a counterexample, on a sentence of the source. `half_lesson`, with a
single session: `learn_from_finding` says "update all knowledge subsystems"
(`learning-loop.ts:329`). If a memory tool has created `collective-memory.json`,
the file has no `entries`; the call saves the pattern and its index, throws in
`addCollectiveMemory` (`:173`), and memory, graph and benchmark never learn of it.
Nothing adds the key later, so every lesson after it ends in the same way, and so
does `computeStatus` with the digest of each agent start.

### Observations

Other places where the code does less than a reader may expect; no property
claims otherwise:

- `task-manager.ts:523`: a task created with an owner and set to CLAIMED by
  `task_update` has no time to measure staleness from, so no reclaim finds it.
- `:500`: two legal updates run a blocked task. `:400`: two processes overwrite each
  other's graph: a save from a copy that another save has overtaken loses what came
  between, and can take a task from an agent that is alive. The three properties of
  the task manager are about the calls that nobody has overtaken.
- `:267`, `:897`, `:976`: a task of which a dependency has failed or been cancelled is
  "permanently blocked" by the comments and by the report of `task_block`. It is not:
  a failed task may be claimed again (`:343`), and when it is then completed,
  `:553-565` unblocks those that wait for it, as they would any other.
  `NoLostUnblock` demands neither of the two.
- `:937`: `task_block` accepts a cycle, whose tasks stay blocked.
- `scope-guard-v2.ts:155-162`: `loadScope` takes over targets and exclusions and does not
  look at `authorized`, nor does the hook. `scope_set` writes the flag beside the
  targets (`scope-guard.ts:103-118`), and the profile ships with `false`: a command on a
  listed target runs although the flag says that the scope is not authorised, while
  `scope-guard.ts:75` tells the agent "NOT AUTHORIZED" and `:116-117` answers
  "Authorization removed". `FailsClosed` promises therefore only that nothing runs on a
  host that no rule has ever listed.
- `budget-manager.ts:400`: trimming lowers the spend a limit is compared with.
- `app.ts:85`: a create answered after a reconnect clears the key of a later draft.
- `security-graph.ts:851`: `sec_graph_find_chains` with both ends given follows all
  relationships.
- `learning-loop.ts:402`: with any target context the handler names an undefined
  variable and throws before it writes; such calls take no step in the model.
  `:439`: the knowledge node is "linked back to the finding" (`:438`) where the graph has
  a node of exactly the finding's id. Otherwise the first node whose id contains it
  serves (`:130`), and after a first lesson that is the lesson's own pattern node when
  the id needs no escaping: learned again, the pattern is linked to itself.
  `LessonComplete` asks for the former, and in the latter case only that the id of the
  link contains the finding's. `:407`: ids that differ only in special
  characters share their file. The false-positive check looks for an `outcome`
  (`security-rag.ts:202`) that no lesson has, and `cases.json` and `patterns.json`
  are not among the files a lesson reaches.
- `scripts/demo.ts:19`: a worker stops at its first empty claim, which SKIP LOCKED
  can give while work is left.

### Bounds

Lease tokens, creation order and the clock are unbounded in `TaskStore`; the clock stops
by itself once no lease is left to expire, attempts are bounded by the requests, so the
instances are finite. `HeartbeatUntil` bounds how long heartbeats go on, `MaxFaults`
counts rollbacks and lost replies together. Two sessions are enough for every pair of
statements to interleave; a lease of one tick can expire at any statement.
`RecoverLimit` is 1, the smallest LIMIT: in `cascade_ends` the leases of two tasks that
do not depend on each other may end together, and two rows are then due for a recovery
that takes one. Liveness with two sessions, faults and a retry at once is out of TLC's
reach in the time of a run, so that `cascade_ends` has an instance for each: what delays
an end (`SideBySide`, one fault) and what overlaps (`TriedOnce`, no fault, and no
retry). Ids are drawn in one order there. `Wanted` restricts the kinds asked for; the
`dependencies` run asks for the child's kind and for any. In `TaskManager`, `MaxTasks`,
`MaxTime`, `MaxCrashes` and `MaxCalls` bound tasks, minutes, crashes and calls; a
staleness limit and three points of time separate fresh, at the limit and stale; five
calls create a task with two dependencies and complete those, or let one process
overtake the other. Sessions, workers and agents are symmetric. Symmetry is used in no
run that checks liveness.

In the file modules `MaxCalls` bounds the calls of one behaviour: three to four are
enough for a call to be overtaken by another, a third to read what they left, and a log
or ledger of two entries (`MAX_COSTS`, `MAX_ACTIVITY`) to be trimmed. `Width` is 2,
where a shift by the width and by less differ as they do at 32, and half of the
addresses are negative as signed numbers. The profiles are the one shipped, which lists
nothing, one whose targets nobody has authorised, and one with `allowed_domains` of its
own. In the security graph three parallel edges lead to a target, so that a search of
either kind ends above its cap of two; chains with different ends fill the cap they
share; `MaxEdits` builds all graphs of up to five nodes and edges together, in which
paths have up to three edges. In `Console` two attempts allow a reconnect or a
disconnect while answers of the first are on their way, and three keys a retried and a
second draft. In `LearningLoop` two lessons may race on every shared file or follow each
other, `MaxLessons` and `MaxCalls` bounding them; `Planted` are the nodes that
`sec_graph_add` may have left: none, a finding under its id, the same behind a node
whose id contains it, and one with metadata; `MAX_ENTRIES` is 1, so that the second
rotates the first out; the clock stands still, since lessons do not depend on it. These
runs do not report deadlocks: sessions and tabs may stop when their calls are used up.

### Fairness

`FairSpec`, and `LiveSpec` of `MCTaskLiveness` with it, assumes that a session
whose next statement can run runs it (weak fairness: the handler has no other
work between statements); that a session that can take a row lock again and
again gets it (strong fairness of `LockRow`: PostgreSQL queues those who wait
for a row); that some worker keeps polling for any kind (`BeginClaim`, strong,
because a free handler must exist to begin one); and that time passes. It does
not assume that workers finish, send heartbeats or come back: this is the
situation in which only claims recover tasks ("No claim traffic means no
background recovery", `README.md`). Without the polling the liveness properties
are false, and the documentation says so.

`ServerFairness` is weak: a short request ends by its deadline, and a stream
notices within a tick that its context is done. `TabFairness`: a create is answered
or aborted by `AbortSignal.timeout`. No client or operator has to act. In
`SecurityGraph` the search runs inside one synchronous handler, so its steps are
weakly fair.

## Proofs

Every theorem holds for all values of the constants that satisfy the module's named
assumptions, which say that bounds are numbers, limits positive and null values not
members. The runs check the same properties on small instances, and TLC has checked
each inductive invariant there as well. All safety properties of the runs that hold, the
refinement among them, are proved.

**Task store.** `TaskStoreProofs`, from `StoreAssumption` and `RequestAssumption`
(requests are normalised):

- `SessionsSafe`: `SessionInv` is an invariant;
- `TypeCorrect`, `DependenciesSafe`: it contains `TypeOK` and implies
  `DependenciesCompleted`;
- `TerminalSafe`, `LeaseSafe`, `CompletionSafe`: every step from a state
  with `SessionInv` satisfies the action properties `TerminalIsFinal`,
  `LeaseRespected` and `CompletedByHolder`.

`DependenciesCompleted` is not inductive. A claim writes an uncommitted version
on the word of a snapshot, and publishes it later, so the invariant has to say
what is true of versions not yet committed (`DepsOK(work[t])`), why a stale
snapshot is good enough (`SnapOK`: what it shows as completed is completed,
because completed rows never change again), and why nobody changes a row
between a session's test and its commit (`LockOK`: what a lock's holder has
tested remains true while it holds the lock; `VersionOK`: versions differ only
under a lock, and never for a final row). `RowOK` bounds attempts, `JobOK` ties
the program counter to the request. The proof has one lemma per action;
`LocalStep` serves those that touch no table, `WriteStep` those that write
versions, `PublishInv` and `RollbackInv` the ends of a transaction.
`OnlyCommitsPublish` reduces the three action properties to the commit.

The second part of the module adds three invariants on top of `SessionInv`:

- `DependencyOrder`: `DependenciesOlder`, from `AgeInv`. An insertion number is drawn
  before the task is published, and its dependencies were found published;
- `CreateIdempotent`: `IdempotentCreate`, from `KeyInv`. A key is held by one version,
  committed or not, since an insert waits for the lock of a conflicting one; a create
  about to commit names the task that carries its request;
- `HistorySafe`: `AuditTrail`, from `HistoryInv`. Both versions of a task agree with
  their own history. For the step that fails a waiting child, `HistoryInv` needs that a
  task once claimed has completed parents (`RanOK`), and that a parent seen as failed
  has failed, or is failed by the same claim.

The third part shows the refinement, `ImplementsQueue`:
`Spec => ImplementsLeaseQueue`. Its invariant `LeaseInv` says what the open transaction
of a session has changed so far (`ChangeOK`): a create has one fresh row, a claim has
recovered leases that ran out, passed failures on and granted at most one lease, under
a token that no row carries, and an update has renewed or ended its own lease. A commit is
then one step of `LeaseQueue` (`ClaimCommits`, `CreateIsSubmit`,
`UpdateIsRenewOrFinish`); every other statement leaves the committed rows alone and is
a stutter, or a tick of the clock (`StatementsAreSilent`).

**HTTP API and console.** `ConsoleProofs`, from `ServerAssumption` (finitely many
connections) and `ConsoleAssumption`:

- `SlotsSafe`: `SlotsBalanced`. The tokens are counted by cardinalities of sets of
  connections, of which each step moves at most one;
- `FenceSafe`: `NoLateFrame`, from `FenceInv`: no stream of the tab carries the number
  that the last disconnect drew;
- `TabTyped`: the types of server and tab;
- `FormSafe`: `OneTaskPerTitle`, from `FormInv`: until the operator strays, a task asked
  for has an answered title, never typed again, or is the draft.

**Task manager.** `TaskManagerProofs`, for any number of processes. `CopiesFresh`: a copy
that no save has overtaken is the file's content. `OwnershipSafe`, `UnblockSafe` and
`ClaimsSafe` then follow from what each tool does to its copy (`StepEffect`), since a call
that ends with a current copy is the one that saved it (`CurrentEffect`).

**Budget and observability.** `SwarmStateProofs`: `OthersKeysSafe`, `LedgerSafe` and
`NewestCostsSafe`. The properties speak of the moment a file is opened for writing, long
after it was read. `WritesInv` says at all times what the next write of a call owes to
the file that is there (`Keeps`), and what the second write of a session start that found
no file must contain (`Shape`); a call that was overtaken owes nothing. `OpenInv`: a file
is open only for a write that is left.

**Collective memory.** `MemoryProofs`: `OneItemSafe`, `LastStoreSafe`,
`DurableSafe` and `IdsSafe`. `Result` relates the copy a call read and the copy it will
save; one lemma for each kind of call (read, append, refresh, prune) shows it. `MemoryInv`
carries it to the write: uniqueness of slots and ids holds of every copy, also of an
overtaken one; agreement with what was stored, and with the ids handed out, as long as
nothing was damaged.

**Learning loop.** In the second part of `MemoryProofs`, `LearningSafe` shows that
`DiskInv /\ LessonInv` is inductive:

- `IndexedSafe`: `IndexedHaveFiles`, from `DiskInv`. No file of the loop disappears
  (`Stays`), and a lesson that has come to its index has its own file behind it
  (`Progress`), so an index read, kept and written later names only what exists;
- `LessonCompleteSafe`: `LessonComplete`. What a lesson is about to write contains it
  (`Good`: the lemmas `Rotated`, `IndexedIndex`, `Upserted`), the parts of a lesson go to
  different files (`Targets`), and as long as a lesson is alone no other session is busy,
  so that what it has saved stays (`Done`), its benchmark case included. Its link is
  chosen at the start (`FoundNode`) and suits the graph to the end, because the lesson adds no
  node with the finding's id but the link itself (`LinkedStays`, `Ties`): with its prefix
  an id is another text, which is all that is assumed of texts;
- `LessonsSurvive`: `LessonsSurviveTools`. Every copy that a memory tool is going to
  save, and that nobody has overtaken, has the entries of the file (`Tool`).

**Lists and recursion.** `ListOpsProofs`. Induction over numbers is done by hand, since
the induction theorems of the library take an operator as a parameter: a set of
counterexamples that is not empty has a least element (`LeastOf`, from the
well-foundedness of the naturals), and the step from the number before refutes it. In this
way `IterationExists` shows that a function may be defined by recursion, which makes the
recursive functions of the models usable in proofs, and `Filtered` that `filtered` lists
the elements at the positions kept, each of them once and in order.

**Scope guard.** `ScopeGuardProofs`, from `ScopeAssumption` (addresses fit in `Width` bits,
prefix lengths are at most `Width`, rules are typed):

- `ScopeSafe`: `ScopeInv`. The scope file is empty or the lines of a scope that was saved
  and goes beyond nothing that was ever authorised (`Saved`, `Fine`), and a call about to
  write owes its file what it read (`Owes`), unless it was overtaken;
- `DecisionsExact`: `DecisionExact`. `MaskValue` computes the mask, including the shift
  count that wraps at /0; `CIDRExact` shows that two addresses agree under it exactly if
  they lie in the same block of `pow2[Width - bits]` addresses; `MatchExact` adds names;
- `GuardFailsClosed`: `FailsClosed`; `ExclusionsKept`: `ExclusionKept`. Both rest on
  `RoundTrip`: `parseScopeYaml` of what `saveScopeYaml` writes is the scope with its
  quotes stripped. `ParseRun` unfolds the parser to one state per line, `ParseList` follows
  it through one section of any length;
- `LogKept`: `ViolationsKept`.

**Security graph.** `SecurityGraphProofs`, from `GraphAssumption` (links and queries are
between ids, caps are positive). `GraphSafe` shows that `GraphInv` is inductive; what it
says beyond the types:

- what is in the queue and in the result are trails: each edge starts where the one before
  ended, and no node is met twice (`Trail`, `TrailGrows`);
- below the cap, each pair that was asked for still waits or has all its simple paths in
  the result (`AllCovered`), and each simple path of the pair being searched is found or has
  a proper prefix in the queue (`HeadCovered`). `GetsCloser` is the step behind it: a dequeued
  prefix of a path q passes both depth tests and has an extension that is q, or a longer
  prefix of q that may still grow;
- only the parallel edges of one iteration can have exceeded the cap (`CapOK`), counted
  by an injection of their positions (`ParallelCount`), for which edges must be recorded once
  (`EdgesOnce`).

`FoundSound`, `SearchComplete` and `CapBounded` conclude `FoundArePaths`, `NonePassedOver` and
`CapOvershoot` for every graph, depth and cap. `ChainPairs` shows that the rows and columns of
`attackPairs` are all pairs of a low and a high node.

### What the proofs changed in the models

None of these changes what TLC explores. `Changed` in `TaskManager` and `checkScope` in
`ScopeGuard` had a CASE whose guards overlap, which leaves the choice open where the code
takes the first that applies. Filters are stated by positions (`filtered`), since the prover
has no definition of `SelectSeq`, and the nested loops of `findAttackChains` by row and
column instead of a flattened list. `parseScopeYaml` and the powers of two of `ScopeGuard`
are recursive functions in place of a fold and of exponentiation, of which the prover knows
nothing. `ScopeAssumption` and `GraphAssumption` state the types of the constants.

### What is only model-checked

- Liveness (`EveryTaskEnds`, `EverySessionEnds`, `SlotsReturn`, `FormReturns`, `SearchEnds`):
  fairness is beyond this prover.
- `NoHalfLesson` is false, and has its counterexample in `half_lesson`.

## What is left out

`Get` and `Snapshot` change nothing; `Open` and `Migrate` run before the first
request. The dependency lookups of `Create` are one step, since tasks are never
deleted, and a refused lookup changes nothing. Requests that fail validation do
not reach the store. PostgreSQL's deadlock detector, serialisation failures and
failover appear only as `Abort`. Task payloads, titles and results are opaque.
In the task manager, evidence, costs, targets and reports are left out, and a
write that ends is one step, so that no reader sees half a file.

Reports that only read are no actions, except where their load may write: the
dashboards, `budget_status`, `budget_prioritize`, `budget_model_route`,
`scope_check`, `/memory`, the query modes of the graph other than paths. Costs are
tokens at a fixed rate, and whether a limit is exceeded is not compared. The
hook is given hosts; how it finds them in a command line is not modelled. The
graph's file is written by one session. Lessons are told apart by
kind and id only; status and digest of the learning loop only report. The evaluation
keeps files as the collective memory does and adds arithmetic; the corpus ingestor, the
pattern library and the RAG search transform text; the reference web UI renders the
files of the others; the profile switcher copies files. SDK, Pi extension and the
scripts keep no state: their calls, lost answers and retries are those of `TaskStore`
and `Console`.

## Plan

1. Done: `LeaseQueue`, `TaskStore` with its invariant and proofs, `TaskManager`.
2. Done: `Server` and `Console`, composed; `SwarmState`, `CollectiveMemory` and
   `LearningLoop`, composed; `ScopeGuard` and `SecurityGraph`.
3. Done: the proofs above, the refinement of `LeaseQueue` among them.
4. Done: the proofs of `ScopeGuard` and `SecurityGraph`; no safety property of a passing
   run is left to TLC alone.
5. Candidates for further modules: the worker loop of the demo over `LeaseQueue`,
   the evaluation's counters and benchmark.
