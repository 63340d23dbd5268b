-------------------------- MODULE CollectiveMemory --------------------------
(***************************************************************************)
(* The collective memory of the reference profile (collective-memory.ts):  *)
(* the tools that store, read, search and prune the items of one file,     *)
(* collective-memory.json, from several Pi sessions.  A handler has no     *)
(* await: it loads the file, and most handlers, the reading ones too, save *)
(* it again.  writeFileSync is its two system calls, open (which           *)
(* truncates) and write; other sessions run between the read, the open and *)
(* the write.  What a text query finds relevant or similar is any          *)
(* selection of the items it looks at; confidence, title and target are    *)
(* left out.                                                               *)
(***************************************************************************)
EXTENDS Naturals, Sequences, FiniteSets, SequencesExt, FiniteSetsExt, ListOps

CONSTANTS Sessions,     \* the Pi sessions that share the data directory
          Categories,   \* the categories of memory
          Durable,      \* those that pruning spares: findings, false_positives
          Aliases,      \* other names of categories: a function to Categories
          Keys, Agents,
          Ages,         \* max_age_days values of a prune
          MaxResults,   \* results a retrieval returns (25 in the code)
          MaxCalls,     \* BOUND: calls started in one behaviour
          MaxTime       \* BOUND: the clock, in days

ASSUME MemoryAssumption ==
  /\ Durable \subseteq Categories /\ \A a \in DOMAIN Aliases : Aliases[a] \in Categories
  /\ Ages \subseteq Nat \ {0} /\ MaxResults \in Nat \ {0} /\ MaxCalls \in Nat /\ MaxTime \in Nat

VARIABLES file,     \* collective-memory.json; entries is {} when that key is missing
          proc,     \* the running call of each session
          clock,    \* Date.now()
          calls,    \* calls started so far; also the value the next one stores
          last,     \* for each slot, the value last stored and not pruned; 0 for none
          given,    \* ids of the items written so far
          damaged   \* a write was based on a copy that another session had outdated,
                    \* or a session died between open and write
memoryVars == <<file, proc, clock, calls, last, given, damaged>>

Absent == [at |-> "absent"]
Torn   == [at |-> "torn"]      \* truncated: JSON.parse("") throws
readable == file.at = "ok"

Names == Categories \cup DOMAIN Aliases \cup {"unknown"}
Levels == {"local", "collective"}
Items == [id : 1..MaxCalls, level : Levels, category : Categories, key : Keys, agent : Agents,
          value : 1..MaxCalls, updated : 0..MaxTime, hits : 0..MaxCalls]

(* Local memory is kept per agent, collective memory is shared.             *)
Slots == [level : {"collective"}, category : Categories, key : Keys, agent : {"any"}]
           \cup [level : {"local"}, category : Categories, key : Keys, agent : Agents]
slot(i) == [level |-> i.level, category |-> i.category, key |-> i.key,
            agent |-> IF i.level = "local" THEN i.agent ELSE "any"]

Idle == [at |-> "idle"]

-----------------------------------------------------------------------------
(* Helpers *)

(* A store rebuilt from the two keys the interface names.                   *)
LoadKnownKeys == [at |-> "ok", items |-> IF readable THEN file.items ELSE <<>>,
                  counter |-> IF readable THEN file.counter ELSE 0, entries |-> {}]
(* The object read keeps keys that are not the memory's own: entries, which *)
(* the learning loop keeps in this file.                                    *)
load == IF readable THEN file ELSE [at |-> "ok", items |-> <<>>, counter |-> 0, entries |-> {}]

(* The category a name stands for, none if it is not known.                 *)
normalizeCategory(c) ==
  IF c \in Categories THEN {c} ELSE IF c \in DOMAIN Aliases THEN {Aliases[c]} ELSE {}

(* The id taken from the number of items.                                   *)
IdFromLength(m) == Len(m.items) + 1
nextId(m) == m.counter + 1

markAccessed(items, found) ==
  [k \in DOMAIN items |-> IF k \in found THEN [items[k] EXCEPT !.hits = @ + 1] ELSE items[k]]

(* What a query finds: any selection of at most n of the items.             *)
relevant(matching, n) == {found \in SUBSET matching : Cardinality(found) <= n}

-----------------------------------------------------------------------------
(* Calls *)

(* A call that ends in save(m).  A copy read while the file is truncated is *)
(* outdated from the start.                                                 *)
Saves(s, why, m, new) ==
  /\ proc[s] = Idle /\ calls < MaxCalls /\ calls' = calls + 1
  /\ proc' = [proc EXCEPT ![s] = [at |-> "loaded", why |-> why, m |-> m, new |-> new,
                                  stale |-> file = Torn]]
  /\ UNCHANGED <<file, clock, last, given, damaged>>

(* The same slot only for the same agent, in collective memory too.         *)
SameAgent(i, new) ==
  i.level = new.level /\ i.category = new.category /\ i.key = new.key /\ i.agent = new.agent
existing(i, new) == slot(i) = slot(new)

(* The item touched and its old value kept.                                 *)
TouchOnly(i, new) == [i EXCEPT !.updated = new.updated]
refreshed(i, new) == [i EXCEPT !.value = new.value, !.updated = new.updated, !.agent = new.agent]

memory_store(s) ==
  \E name \in Names, level \in Levels, key \in Keys, agent \in Agents :
  \E category \in normalizeCategory(name) :
    LET m == load
        new == [id |-> nextId(m), level |-> level, category |-> category, key |-> key,
                agent |-> agent, value |-> calls + 1, updated |-> clock, hits |-> 0]
        same == {k \in DOMAIN m.items : existing(m.items[k], new)}
    IN Saves(s, "store",
             IF same # {}
             THEN [m EXCEPT !.items[Min(same)] = refreshed(@, new)]
             ELSE [m EXCEPT !.items = Append(@, new), !.counter = nextId(m)],
             {new})

(* A category given to memory_retrieve must be known; its other filters     *)
(* and its query keep any selection.                                        *)
matching(m, name) == {k \in DOMAIN m.items :
                        name # "" => m.items[k].category \in normalizeCategory(name)}

memory_retrieve(s) ==
  \E name \in Names \cup {""} :
    /\ name # "" => normalizeCategory(name) # {}
    /\ \E found \in relevant(matching(load, name), MaxResults) :
         Saves(s, "read", [load EXCEPT !.items = markAccessed(@, found)], {})

memory_search(s) ==
  \E found \in relevant(DOMAIN load.items, MaxResults) :
    Saves(s, "read", [load EXCEPT !.items = markAccessed(@, found)], {})

(* A type maps to the categories worth checking, an unknown one to all.     *)
memory_check_duplicate(s) ==
  \E cats \in {{c} : c \in Categories} \cup {Durable, Categories} :
    LET candidates == {k \in DOMAIN load.items : load.items[k].category \in cats}
    IN \E found \in relevant(candidates, 5) :
         Saves(s, "read", [load EXCEPT !.items = markAccessed(@, found)], {})

(* Durable knowledge not spared.                                            *)
PruneAll(i, cats, force, age) == i.category \in cats /\ i.updated + age < clock
prunable(i, cats, force, age) ==
  /\ i.category \in cats
  /\ ~force => i.category \notin Durable
  /\ i.updated + age < clock

(* A dry run, like /memory and its preview, writes nothing.                 *)
memory_prune(s) ==
  \E cats \in {Categories} \cup {{c} : c \in Categories}, force \in BOOLEAN, age \in Ages :
    LET m == load
        kept == {k \in DOMAIN m.items : ~prunable(m.items[k], cats, force, age)}
    IN Saves(s, IF force THEN "force" ELSE "prune",
             [m EXCEPT !.items = filtered(@, kept)], {})

-----------------------------------------------------------------------------
(* save(m), in two steps; from its open on, every other copy is outdated.   *)

Overtaken(s, p) == [t \in Sessions |->
                      IF t # s /\ p[t] # Idle THEN [p[t] EXCEPT !.stale = TRUE] ELSE p[t]]

Open(s) ==
  /\ proc[s].at = "loaded" /\ file' = Torn
  /\ proc' = Overtaken(s, [proc EXCEPT ![s].at = "open"])
  /\ UNCHANGED <<clock, calls, last, given, damaged>>

Write(s) ==
  LET p == proc[s]
      before == {slot(i) : i \in Range(p.m.items)} IN
  /\ p.at = "open" /\ file' = p.m
  /\ proc' = Overtaken(s, [proc EXCEPT ![s] = Idle])
  /\ last' = [x \in Slots |-> IF \E n \in p.new : slot(n) = x THEN (CHOOSE n \in p.new : TRUE).value
                              ELSE IF p.why \in {"prune", "force"} /\ x \notin before THEN 0
                              ELSE last[x]]
  /\ given' = given \cup {i.id : i \in Range(p.m.items)}
  /\ damaged' = (damaged \/ p.stale)
  /\ UNCHANGED <<clock, calls>>

Crash(s) ==
  /\ proc[s].at = "open" /\ proc' = [proc EXCEPT ![s] = Idle] /\ damaged' = TRUE
  /\ UNCHANGED <<file, clock, calls, last, given>>

Tick == clock < MaxTime /\ clock' = clock + 1 /\ UNCHANGED <<file, proc, calls, last, given, damaged>>

MemoryInit ==
  /\ file = Absent /\ proc = [s \in Sessions |-> Idle] /\ clock = 0 /\ calls = 0
  /\ last = [x \in Slots |-> 0] /\ given = {} /\ damaged = FALSE

MemoryCall(s) == \/ memory_store(s) \/ memory_retrieve(s) \/ memory_search(s)
                 \/ memory_check_duplicate(s) \/ memory_prune(s)

MemoryNext == Tick \/ \E s \in Sessions : MemoryCall(s) \/ Open(s) \/ Write(s) \/ Crash(s)

MemorySpec == MemoryInit /\ [][MemoryNext]_memoryVars

-----------------------------------------------------------------------------
(* Properties *)

(* An item is found by its slot and by its id: no two items share either,   *)
(* whatever overlapped, tore or was pruned (memory_store updates in place,  *)
(* the counter outlives the items).                                         *)
OneItemPerSlot ==
  readable => \A k, j \in DOMAIN file.items :
                k # j => /\ slot(file.items[k]) # slot(file.items[j])
                         /\ file.items[k].id # file.items[j].id

(* As long as no write was outdated and no session died in one, the file is *)
(* the map of what was last stored in each slot and not pruned since, the   *)
(* reads that save the file again included.                                 *)
LastStoreKept ==
  readable /\ ~damaged =>
    \A x \in Slots : last[x] = Max({0} \cup {i.value : i \in {j \in Range(file.items) : slot(j) = x}})

(* No call but a forced prune takes a finding or false positive out of the  *)
(* file, unless another session overlapped it (memory_prune: "Never prunes  *)
(* findings or false_positives unless force=true").                         *)
DurableKept ==
  [][\A s \in Sessions : Open(s) /\ readable /\ ~proc[s].stale /\ proc[s].why # "force"
       => \A i \in Range(file.items) : i.category \in Durable
            => \E j \in Range(proc[s].m.items) : j.id = i.id /\ slot(j) = slot(i)]_memoryVars

(* Without damage an id is never handed out twice, not even after its item  *)
(* was pruned (nextId).                                                     *)
IdNeverReused ==
  [][\A s \in Sessions : Write(s) /\ ~damaged' =>
       \A n \in proc[s].new, i \in Range(file'.items) :
         i.id = n.id /\ i.value = n.value => n.id \notin given]_memoryVars
=============================================================================
