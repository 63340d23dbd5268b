-------------------------- MODULE SwarmStateProofs --------------------------
(***************************************************************************)
(* Proofs about SwarmState for any number of sessions, calls and entries:  *)
(* what the write that a call has ready owes to the file, as long as no    *)
(* other session has touched the file since the call read it.              *)
(***************************************************************************)
EXTENDS SwarmState, SequenceTheorems, TLAPS

FileState == [at : {"ok"}, costs : Seq(Entries), limits : [Investigations -> SUBSET Limits],
              activity : Seq(Nat), agents : BOOLEAN]

\* A write to make; that of a budget_track carries its cost entry.
PlainWrite == [kind : {"save", "state"}, state : FileState]
TrackWrite == [kind : {"save", "state"}, state : FileState, entry : Entries]

Whys == {"none", "track", "limit", "start", "report", "reset"}

Proc == [todo : Seq(PlainWrite \cup TrackWrite), open : BOOLEAN, stale : BOOLEAN,
         late : BOOLEAN, why : Whys]

TypeOK ==
  /\ file \in FileState \cup {Absent, Torn}
  /\ proc \in [Sessions -> Proc]
  /\ calls \in Nat /\ calls <= MaxCalls

\* The writes that a call makes: one, or the two of a session start that finds
\* no file to read, the first of which creates an empty one.
Shape(r) ==
  /\ r.why \in {"track", "limit", "report"} => Len(r.todo) <= 1
  /\ r.why = "track" => \A k \in DOMAIN r.todo : r.todo[k] \in TrackWrite
  /\ r.why \in {"start", "report"} => \A k \in DOMAIN r.todo : r.todo[k].kind = "state"
  /\ r.why = "start" =>
        /\ Len(r.todo) <= 2
        /\ Len(r.todo) = 2 => /\ r.todo[1].state = emptyState
                              /\ r.todo[2].state.costs = emptyState.costs
                              /\ r.todo[2].state.limits = emptyState.limits

\* What the next write of call r keeps of the file f that is there.
Keeps(r, f) ==
  (f.at = "ok" /\ ~r.open /\ r.todo # <<>>) =>
    /\ (r.why \in {"track", "limit"} /\ r.todo[1].kind = "state" /\ ~r.late) =>
          r.todo[1].state.activity = f.activity /\ r.todo[1].state.agents = f.agents
    /\ (r.why \in {"start", "report", "limit"} /\ ~r.stale) =>
          /\ r.todo[1].state.costs = f.costs
          /\ r.why # "limit" => r.todo[1].state.limits = f.limits
    /\ (r.why = "track" /\ ~r.stale) =>
          r.todo[1].state.costs = lastCosts(Append(f.costs, r.todo[1].entry))

WritesInv == /\ TypeOK
             /\ \A s \in Sessions : Shape(proc[s]) /\ Keeps(proc[s], file)

\* The file is open only for a write that is still to be made.
OpenInv == \A s \in Sessions : proc[s].open => proc[s].todo # <<>>

-----------------------------------------------------------------------------
(* Sequences.                                                               *)

LEMMA NonEmpty ==
  ASSUME NEW S, NEW x \in Seq(S), x # <<>>
  PROVE  Len(x) \in Nat \ {0} /\ 1 \in DOMAIN x /\ Head(x) = x[1] /\ x[1] \in S
OBVIOUS

LEMMA Tails ==
  ASSUME NEW S, NEW x \in Seq(S), x # <<>>
  PROVE  /\ Tail(x) \in Seq(S) /\ Len(Tail(x)) = Len(x) - 1
         /\ \A k \in DOMAIN Tail(x) : k + 1 \in DOMAIN x /\ Tail(x)[k] = x[k + 1]
OBVIOUS

\* The tail of a sequence of at most two elements.
LEMMA ShortTails ==
  ASSUME NEW S, NEW x \in Seq(S), x # <<>>, Len(x) <= 2
  PROVE  /\ Len(Tail(x)) \in {0, 1}
         /\ Tail(x) # <<>> => Len(x) = 2 /\ Tail(x)[1] = x[2]
<1>1. Len(x) \in {1, 2}
  <2>1. Len(x) \in Nat \ {0}
    BY NonEmpty
  <2>2. \A n \in Nat \ {0} : n <= 2 => n \in {1, 2}
    OBVIOUS
  <2> QED
    BY <2>1, <2>2
<1>2. Len(Tail(x)) \in {0, 1}
  BY <1>1, Tails
<1>3. ASSUME Tail(x) # <<>> PROVE Len(x) = 2 /\ Tail(x)[1] = x[2]
  <2>1. Tail(x) \in Seq(S) /\ Len(Tail(x)) = Len(x) - 1
    BY Tails
  <2>2. Len(Tail(x)) \in Nat \ {0} /\ 1 \in DOMAIN Tail(x)
    BY <1>3, <2>1, NonEmpty
  <2>3. Tail(x)[1] = x[1 + 1]
    BY <2>2, Tails
  <2> QED
    BY <1>1, <2>1, <2>2, <2>3
<1> QED
  BY <1>2, <1>3

LEMMA SingleTails ==
  ASSUME NEW S, NEW x \in Seq(S), x # <<>>, Len(x) <= 1
  PROVE  Tail(x) = <<>> /\ Len(Tail(x)) <= 1
<1>1. Tail(x) \in Seq(S) /\ Len(Tail(x)) = Len(x) - 1 /\ Len(x) \in Nat \ {0}
  BY Tails, NonEmpty
<1>2. Len(Tail(x)) = 0
  BY <1>1
<1> QED
  BY <1>1, <1>2, EmptySeq

-----------------------------------------------------------------------------
(* The states that calls write.                                             *)

LEMMA EmptyType == emptyState \in FileState
<1>1. NoLimits \in [Investigations -> SUBSET Limits]
  BY DEF NoLimits
<1> QED
  BY <1>1 DEF emptyState, FileState

LEMMA LastCosts ==
  ASSUME NEW c \in Seq(Entries)
  PROVE  /\ lastCosts(c) \in Seq(Entries)
         /\ Len(lastCosts(c)) = IF Len(c) > MAX_COSTS THEN MAX_COSTS ELSE Len(c)
         /\ \A k \in 1..Len(lastCosts(c)) :
               lastCosts(c)[k] = c[k + Len(c) - Len(lastCosts(c))]
<1> DEFINE m == 1 + (IF Len(c) > MAX_COSTS THEN Len(c) - MAX_COSTS ELSE 0)
<1>1. /\ Len(c) \in Nat /\ m \in 1..(Len(c) + 1)
      /\ Len(c) - m + 1 = IF Len(c) > MAX_COSTS THEN MAX_COSTS ELSE Len(c)
  BY SwarmAssumption
<1>2. lastCosts(c) = SubSeq(c, m, Len(c))
  BY DEF lastCosts
<1> HIDE DEF m
<1>3. /\ SubSeq(c, m, Len(c)) \in Seq(Entries)
      /\ Len(SubSeq(c, m, Len(c))) = Len(c) - m + 1
      /\ \A k \in 1..(Len(c) - m + 1) : SubSeq(c, m, Len(c))[k] = c[m + k - 1]
  BY <1>1, SubSeqProperties
<1> QED
  BY <1>1, <1>2, <1>3

LEMMA LoadType ==
  ASSUME TypeOK
  PROVE  load \in FileState /\ (readable => load = file /\ file \in FileState)
BY EmptyType DEF load, readable, TypeOK, Absent, Torn, FileState

LEMMA AddActivity ==
  ASSUME NEW f \in FileState, calls \in Nat
  PROVE  /\ addActivity(f) \in FileState
         /\ addActivity(f).costs = f.costs /\ addActivity(f).limits = f.limits
<1> DEFINE all == <<calls + 1>> \o f.activity
           n == IF Len(f.activity) < MAX_ACTIVITY THEN Len(f.activity) + 1 ELSE MAX_ACTIVITY
           a == SubSeq(all, 1, n)
<1>1. f.activity \in Seq(Nat)
  BY DEF FileState
<1>2. all \in Seq(Nat) /\ Len(all) = Len(f.activity) + 1 /\ Len(f.activity) \in Nat
  BY <1>1
<1>3. n \in Nat /\ n <= Len(all)
  BY <1>2, SwarmAssumption
<1> HIDE DEF all, n
<1>4. a \in Seq(Nat)
  BY <1>2, <1>3, SubSeqProperties
<1>5. addActivity(f) = [f EXCEPT !.activity = a]
  BY DEF addActivity, a, all, n
<1> HIDE DEF a
<1> QED
  BY <1>4, <1>5 DEF FileState

-----------------------------------------------------------------------------
(* Starting a call.                                                         *)

LEMMA Started ==
  ASSUME WritesInv, NEW s \in Sessions, NEW why \in Whys,
         NEW todo \in Seq(PlainWrite \cup TrackWrite), Start(s, why, todo)
  PROVE  /\ file' = file /\ TypeOK'
         /\ \A t \in Sessions : t # s => proc'[t] = proc[t]
         /\ proc'[s].todo = todo /\ proc'[s].why = why
         /\ ~proc'[s].open /\ ~proc'[s].stale /\ ~proc'[s].late
<1> DEFINE r == [Idle EXCEPT !.todo = todo, !.why = why]
<1>1. /\ r \in Proc /\ r.todo = todo /\ r.why = why /\ ~r.open /\ ~r.stale /\ ~r.late
  BY DEF Idle, Proc
<1> HIDE DEF r
<1>2. proc' = [proc EXCEPT ![s] = r] /\ file' = file /\ calls' = calls + 1 /\ calls < MaxCalls
  BY DEF Start, r
<1> QED
  BY <1>1, <1>2, SwarmAssumption DEF WritesInv, TypeOK

LEMMA StartKeeps ==
  ASSUME WritesInv, NEW s \in Sessions, NEW why \in Whys,
         NEW todo \in Seq(PlainWrite \cup TrackWrite), Start(s, why, todo),
         Shape(proc'[s]), Keeps(proc'[s], file)
  PROVE  WritesInv'
BY Started DEF WritesInv

LEMMA TrackStarts ==
  ASSUME WritesInv, NEW s \in Sessions, budget_track(s)
  PROVE  WritesInv'
<1>1. PICK i \in Investigations, n \in Tokens :
        LET entry == [id |-> calls + 1, inv |-> i, tokens |-> n]
            state == [load EXCEPT !.costs = lastCosts(Append(@, entry))]
        IN Start(s, "track", <<[kind |-> "save", state |-> state, entry |-> entry]>>)
  BY DEF budget_track
<1> DEFINE entry == [id |-> calls + 1, inv |-> i, tokens |-> n]
           costs == lastCosts(Append(load.costs, entry))
           state == [load EXCEPT !.costs = costs]
           w == [kind |-> "save", state |-> state, entry |-> entry]
<1>2. Start(s, "track", <<w>>)
  BY <1>1
<1>3. entry \in Entries
  BY <1>2, SwarmAssumption DEF Entries, Start, WritesInv, TypeOK
<1>4. load \in FileState /\ (readable => load = file)
  BY LoadType DEF WritesInv
<1> HIDE DEF entry
<1>5. costs \in Seq(Entries)
  <2>1. Append(load.costs, entry) \in Seq(Entries)
    BY <1>3, <1>4 DEF FileState
  <2> QED
    BY <2>1, LastCosts
<1>6. readable => costs = lastCosts(Append(file.costs, entry))
  BY <1>4
<1> HIDE DEF costs
<1>7. state \in FileState /\ state.costs = costs
  BY <1>4, <1>5 DEF FileState
<1> HIDE DEF state
<1>8. w \in TrackWrite /\ w.kind = "save" /\ w.state = state /\ w.entry = entry
  BY <1>3, <1>7 DEF TrackWrite
<1> HIDE DEF w
<1>9. <<w>> \in Seq(PlainWrite \cup TrackWrite) /\ Len(<<w>>) = 1 /\ <<w>>[1] = w
      /\ DOMAIN <<w>> = {1}
  BY <1>8
<1>10. /\ proc'[s].todo = <<w>> /\ proc'[s].why = "track"
       /\ ~proc'[s].open /\ ~proc'[s].stale /\ ~proc'[s].late
  BY <1>2, <1>9, Started DEF Whys
<1>11. Shape(proc'[s])
  BY <1>8, <1>9, <1>10 DEF Shape
<1>12. Keeps(proc'[s], file)
  BY <1>6, <1>7, <1>8, <1>9, <1>10 DEF Keeps, readable
<1> QED
  BY <1>2, <1>9, <1>11, <1>12, StartKeeps DEF Whys

LEMMA LimitStarts ==
  ASSUME WritesInv, NEW s \in Sessions, budget_set_limit(s)
  PROVE  WritesInv'
<1>1. PICK i \in Investigations, m \in {{}} \cup {{n} : n \in Limits} :
        Start(s, "limit", <<[kind |-> "save", state |-> [load EXCEPT !.limits[i] = m]]>>)
  BY DEF budget_set_limit
<1> DEFINE state == [load EXCEPT !.limits[i] = m]
           w == [kind |-> "save", state |-> state]
<1>2. load \in FileState /\ (readable => load = file)
  BY LoadType DEF WritesInv
<1>3. state \in FileState /\ state.costs = load.costs
  <2>1. m \in SUBSET Limits
    OBVIOUS
  <2>2. [load.limits EXCEPT ![i] = m] \in [Investigations -> SUBSET Limits]
    BY <1>2, <2>1 DEF FileState
  <2>3. state = [load EXCEPT !.limits = [load.limits EXCEPT ![i] = m]]
    BY <1>2 DEF FileState
  <2> QED
    BY <1>2, <2>2, <2>3 DEF FileState
<1>4. Start(s, "limit", <<w>>)
  BY <1>1
<1> HIDE DEF state
<1>5. w \in PlainWrite /\ w.kind = "save" /\ w.state = state
  BY <1>3 DEF PlainWrite
<1> HIDE DEF w
<1>6. <<w>> \in Seq(PlainWrite \cup TrackWrite) /\ Len(<<w>>) = 1 /\ <<w>>[1] = w
  BY <1>5
<1>7. /\ proc'[s].todo = <<w>> /\ proc'[s].why = "limit"
      /\ ~proc'[s].open /\ ~proc'[s].stale /\ ~proc'[s].late
  BY <1>4, <1>6, Started DEF Whys
<1>8. Shape(proc'[s])
  BY <1>6, <1>7 DEF Shape
<1>9. Keeps(proc'[s], file)
  BY <1>2, <1>3, <1>5, <1>6, <1>7 DEF Keeps, readable
<1> QED
  BY <1>4, <1>6, <1>8, <1>9, StartKeeps DEF Whys

\* The write by which loadState creates a file.
FirstWrite == [kind |-> "state", state |-> emptyState]

LEMMA FirstWriteType ==
  /\ FirstWrite \in PlainWrite /\ FirstWrite.state = emptyState /\ FirstWrite.kind = "state"
  /\ loadWrites = IF readable THEN <<>> ELSE <<FirstWrite>>
BY EmptyType DEF FirstWrite, PlainWrite, loadWrites

LEMMA TwoWrites ==
  ASSUME NEW r, r.why = "start", Len(r.todo) = 2, DOMAIN r.todo = 1..2,
         r.todo[1].kind = "state", r.todo[2].kind = "state", r.todo[1].state = emptyState,
         r.todo[2].state.costs = emptyState.costs, r.todo[2].state.limits = emptyState.limits
  PROVE  Shape(r)
<1>1. \A k \in DOMAIN r.todo : r.todo[k].kind = "state"
  <2>1. \A k \in 1..2 : k = 1 \/ k = 2
    OBVIOUS
  <2> QED
    BY <2>1
<1> QED
  BY <1>1 DEF Shape

LEMMA OneWrite ==
  ASSUME NEW r, r.why \in {"start", "report"}, Len(r.todo) \in {0, 1},
         \A k \in DOMAIN r.todo : r.todo[k].kind = "state"
  PROVE  Shape(r)
<1>1. \A n \in {0, 1} : n <= 1 /\ n <= 2 /\ n # 2
  OBVIOUS
<1>2. Len(r.todo) <= 1 /\ Len(r.todo) <= 2 /\ Len(r.todo) # 2
  BY <1>1, Zenon
<1>3. r.why # "track"
  <2>1. CASE r.why = "start"
    BY <2>1
  <2>2. CASE r.why = "report"
    BY <2>2
  <2> QED
    BY <2>1, <2>2, Zenon
<1> QED
  BY <1>2, <1>3, Zenon DEF Shape

LEMMA SessionStarts ==
  ASSUME WritesInv, NEW s \in Sessions, session_start(s)
  PROVE  WritesInv'
<1> DEFINE f == IF readable THEN file ELSE emptyState
           w == [kind |-> "state", state |-> addActivity(f)]
           second == IF f.agents THEN <<>> ELSE <<w>>
           todo == loadWrites \o second
<1>1. Start(s, "start", todo)
  BY DEF session_start
<1>2. f \in FileState
  BY EmptyType, LoadType DEF WritesInv
<1>3. /\ w \in PlainWrite /\ w.state.costs = f.costs /\ w.state.limits = f.limits
      /\ w.kind = "state"
  <2>1. /\ addActivity(f) \in FileState
        /\ addActivity(f).costs = f.costs /\ addActivity(f).limits = f.limits
    BY <1>2, AddActivity DEF WritesInv, TypeOK
  <2> QED
    BY <2>1 DEF PlainWrite
<1>4. ~readable => f = emptyState /\ ~f.agents
  BY DEF emptyState
<1> HIDE DEF f, w
<1>0. /\ <<w>> \in Seq(PlainWrite \cup TrackWrite) /\ Len(<<w>>) = 1 /\ <<w>>[1] = w
      /\ <<>> \in Seq(PlainWrite \cup TrackWrite)
      /\ <<FirstWrite>> \in Seq(PlainWrite \cup TrackWrite) /\ Len(<<FirstWrite>>) = 1
      /\ <<FirstWrite>>[1] = FirstWrite
  BY <1>3, FirstWriteType
<1>5. CASE readable
  <2>1. loadWrites = <<>>
    BY <1>5, FirstWriteType
  <2>2. todo \in Seq(PlainWrite \cup TrackWrite) /\ Len(todo) \in {0, 1}
        /\ (todo # <<>> => todo[1] = w) /\ \A k \in DOMAIN todo : todo[k].kind = "state"
    <3>1. CASE f.agents
      BY <2>1, <3>1
    <3>2. CASE ~f.agents
      <4>1. todo = <<w>>
        BY <2>1, <3>2
      <4> HIDE DEF todo
      <4> QED
        BY <1>0, <1>3, <4>1
    <3> QED
      BY <3>1, <3>2
  <2> HIDE DEF todo
  <2>3. /\ proc'[s].todo = todo /\ proc'[s].why = "start"
        /\ ~proc'[s].open /\ ~proc'[s].stale /\ ~proc'[s].late
    BY <1>1, <2>2, Started DEF Whys
  <2>4. Shape(proc'[s])
    BY <2>2, <2>3, OneWrite
  <2>5. Keeps(proc'[s], file)
    BY <1>3, <1>5, <2>2, <2>3 DEF Keeps, f
  <2> QED
    BY <1>1, <2>2, <2>4, <2>5, StartKeeps DEF Whys
<1>6. CASE ~readable
  <2>1. loadWrites = <<FirstWrite>> /\ second = <<w>>
    BY <1>4, <1>6, FirstWriteType
  <2>2. /\ todo \in Seq(PlainWrite \cup TrackWrite) /\ Len(todo) = 2
        /\ todo[1] = FirstWrite /\ todo[2] = w
    <3>1. todo = <<FirstWrite>> \o <<w>>
      BY <2>1
    <3> HIDE DEF todo, w
    <3> QED
      BY <1>0, <3>1, ConcatProperties
  <2> HIDE DEF todo
  <2>3. /\ proc'[s].todo = todo /\ proc'[s].why = "start"
        /\ ~proc'[s].open /\ ~proc'[s].stale /\ ~proc'[s].late
    BY <1>1, <2>2, Started DEF Whys
  <2>4. Shape(proc'[s])
    <3>1. /\ todo[1].state = emptyState
          /\ todo[2].state.costs = emptyState.costs
          /\ todo[2].state.limits = emptyState.limits
      BY <1>3, <1>4, <1>6, <2>2, FirstWriteType
    <3>2. DOMAIN todo = 1..2 /\ todo[1].kind = "state" /\ todo[2].kind = "state"
      BY <1>3, <2>2, FirstWriteType
    <3> QED
      BY <2>2, <2>3, <3>1, <3>2, TwoWrites
  <2>5. Keeps(proc'[s], file)
    BY <1>6 DEF Keeps, readable
  <2> QED
    BY <1>1, <2>2, <2>4, <2>5, StartKeeps DEF Whys
<1> QED
  BY <1>5, <1>6

LEMMA ReportStarts ==
  ASSUME WritesInv, NEW s \in Sessions, Report(s)
  PROVE  WritesInv'
<1>1. ~readable /\ Start(s, "report", <<FirstWrite>>)
  BY FirstWriteType DEF Report
<1>2. <<FirstWrite>> \in Seq(PlainWrite \cup TrackWrite) /\ Len(<<FirstWrite>>) = 1
  BY FirstWriteType
<1>3. proc'[s].todo = <<FirstWrite>> /\ proc'[s].why = "report"
  BY <1>1, <1>2, Started DEF Whys
<1>4. Shape(proc'[s]) /\ Keeps(proc'[s], file)
  <2>1. \A k \in DOMAIN <<FirstWrite>> : <<FirstWrite>>[k].kind = "state"
    BY FirstWriteType
  <2>2. Shape(proc'[s])
    BY <1>2, <1>3, <2>1, OneWrite
  <2> QED
    BY <1>1, <2>2 DEF Keeps, readable
<1> QED
  BY <1>1, <1>2, <1>4, StartKeeps DEF Whys

LEMMA ResetStarts ==
  ASSUME WritesInv, NEW s \in Sessions,
         Start(s, "reset", loadWrites \o <<[kind |-> "state", state |-> emptyState]>>)
  PROVE  WritesInv'
<1> DEFINE todo == loadWrites \o <<FirstWrite>>
<1>1. Start(s, "reset", todo)
  BY DEF FirstWrite
<1>2. todo \in Seq(PlainWrite \cup TrackWrite)
  <2>1. <<FirstWrite>> \in Seq(PlainWrite \cup TrackWrite)
    BY FirstWriteType
  <2>2. loadWrites \in Seq(PlainWrite \cup TrackWrite)
    <3>1. CASE readable
      BY <3>1, FirstWriteType
    <3>2. CASE ~readable
      BY <2>1, <3>2, FirstWriteType
    <3> QED
      BY <3>1, <3>2
  <2> QED
    BY <2>1, <2>2
<1> HIDE DEF todo
<1>3. proc'[s].why = "reset"
  BY <1>1, <1>2, Started DEF Whys
<1>4. Shape(proc'[s]) /\ Keeps(proc'[s], file)
  BY <1>3 DEF Shape, Keeps
<1> QED
  BY <1>1, <1>2, <1>4, StartKeeps DEF Whys

-----------------------------------------------------------------------------
(* The file operations.                                                     *)

\* save(state) keeps the observers' keys of the file, and the costs of state.
LEMMA SaveMerges ==
  ASSUME TypeOK, NEW f \in FileState
  PROVE  /\ save(f) \in FileState /\ save(f).costs = f.costs
         /\ readable => save(f).activity = file.activity /\ save(f).agents = file.agents
<1> DEFINE g == IF readable THEN file ELSE emptyState
<1>1. g \in FileState
  BY EmptyType, LoadType
<1>2. save(f) = [g EXCEPT !.costs = f.costs, !.limits = f.limits]
  BY DEF save
<1>3. readable => g = file
  OBVIOUS
<1> HIDE DEF g
<1> QED
  BY <1>1, <1>2, <1>3 DEF FileState

LEMMA RereadKeeps ==
  ASSUME WritesInv, NEW s \in Sessions, Reread(s)
  PROVE  WritesInv'
<1> DEFINE r == proc[s]
           w == r.todo[1]
           v == [w EXCEPT !.kind = "state", !.state = save(w.state)]
           q == [r EXCEPT !.todo = [r.todo EXCEPT ![1] = v], !.late = FALSE]
<1>1. r \in Proc /\ r.todo \in Seq(PlainWrite \cup TrackWrite) /\ r.todo # <<>>
      /\ Shape(r) /\ Keeps(r, file) /\ TypeOK
  BY DEF WritesInv, TypeOK, Proc, Reread
<1>2. w \in PlainWrite \cup TrackWrite /\ w.kind = "save" /\ w.state \in FileState
  <2>1. w \in PlainWrite \cup TrackWrite
    BY <1>1
  <2> QED
    BY <2>1 DEF Reread, PlainWrite, TrackWrite
<1>3. /\ save(w.state) \in FileState /\ save(w.state).costs = w.state.costs
      /\ readable => /\ save(w.state).activity = file.activity
                     /\ save(w.state).agents = file.agents
  BY <1>1, <1>2, SaveMerges
<1>4. file' = file /\ calls' = calls
      /\ proc' = [proc EXCEPT ![s].todo[1] = v, ![s].late = FALSE]
  BY DEF Reread
<1> HIDE DEF w
<1>5. /\ v \in PlainWrite \cup TrackWrite /\ v.kind = "state" /\ v.state = save(w.state)
      /\ w \in TrackWrite => v \in TrackWrite /\ v.entry = w.entry
  <2>1. CASE w \in PlainWrite
    BY <1>3, <2>1 DEF PlainWrite, TrackWrite
  <2>2. CASE w \in TrackWrite
    BY <1>3, <2>2 DEF TrackWrite
  <2> QED
    BY <1>2, <2>1, <2>2
<1> HIDE DEF v
<1>6. /\ proc' = [proc EXCEPT ![s] = q]
      /\ \A t \in Sessions \ {s} : proc'[t] = proc[t]
      /\ proc'[s] = q /\ proc \in [Sessions -> Proc]
  BY <1>1, <1>4 DEF TypeOK, Proc
<1>7. /\ [r.todo EXCEPT ![1] = v] \in Seq(PlainWrite \cup TrackWrite)
      /\ Len([r.todo EXCEPT ![1] = v]) = Len(r.todo)
      /\ [r.todo EXCEPT ![1] = v][1] = v
      /\ \A k \in DOMAIN r.todo : k # 1 => [r.todo EXCEPT ![1] = v][k] = r.todo[k]
      /\ DOMAIN [r.todo EXCEPT ![1] = v] = DOMAIN r.todo
  BY <1>1, <1>5
<1>8. /\ q \in Proc /\ q.todo = [r.todo EXCEPT ![1] = v] /\ q.why = r.why
      /\ q.open = r.open /\ q.stale = r.stale
  BY <1>1, <1>7 DEF Proc
<1>9. ~q.late
  BY <1>1 DEF Proc
<1>10. q.todo[1] = v /\ Len(q.todo) = Len(r.todo) /\ DOMAIN q.todo = DOMAIN r.todo
       /\ \A k \in DOMAIN r.todo : k # 1 => q.todo[k] = r.todo[k]
  BY <1>7, <1>8
<1> HIDE DEF q, r
<1>11. Shape(q)
  <2>1. q.why = "track" => \A k \in DOMAIN q.todo : q.todo[k] \in TrackWrite
    BY <1>1, <1>5, <1>8, <1>10 DEF Shape, w
  <2>2. q.why \notin {"start", "report"}
    BY <1>1, <1>2, <1>8 DEF Shape, w
  <2> QED
    BY <1>1, <1>8, <1>10, <2>1, <2>2 DEF Shape
<1>12. Keeps(q, file)
  <2>1. r.why \notin {"start", "report"} /\ r.todo # <<>>
    BY <1>1, <1>2, <1>8 DEF Shape, w
  <2>2. r.why = "track" => w \in TrackWrite
    BY <1>1 DEF Shape, w
  <2>3. q.todo[1].state.costs = r.todo[1].state.costs
    BY <1>3, <1>5, <1>10 DEF w
  <2>4. r.why = "track" => q.todo[1].entry = r.todo[1].entry
    BY <1>5, <1>10, <2>2 DEF w
  <2>5. readable => /\ q.todo[1].state.activity = file.activity
                    /\ q.todo[1].state.agents = file.agents
    BY <1>3, <1>5, <1>10
  <2> QED
    BY <1>1, <1>8, <1>9, <2>1, <2>3, <2>4, <2>5 DEF Keeps, readable
<1>13. TypeOK'
  BY <1>1, <1>4, <1>6, <1>8 DEF TypeOK
<1> QED
  BY <1>4, <1>6, <1>11, <1>12, <1>13 DEF WritesInv

\* A session whose copy was overtaken promises nothing about the file.
Behind(r) == [r EXCEPT !.stale = TRUE, !.late = TRUE]

LEMMA OvertakenKeeps ==
  ASSUME NEW r \in Proc, NEW f, Shape(r), r.todo # <<>>
  PROVE  Behind(r) \in Proc /\ Shape(Behind(r)) /\ Keeps(Behind(r), f)
<1> DEFINE q == Behind(r)
<1>1. q \in Proc /\ q.todo = r.todo /\ q.why = r.why /\ q.stale /\ q.late
  BY DEF Proc, Behind
<1> HIDE DEF q
<1>2. Shape(q)
  BY <1>1 DEF Shape
<1>3. Keeps(q, f)
  BY <1>1 DEF Keeps
<1> QED
  BY <1>1, <1>2, <1>3 DEF q

\* A session changes the file and its own record to q; the others fall behind.
LEMMA OvertakenAll ==
  ASSUME NEW s \in Sessions, NEW p
  PROVE  /\ DOMAIN Overtaken(s, p) = Sessions
         /\ Overtaken(s, p) = [t \in Sessions |-> Overtaken(s, p)[t]]
         /\ Overtaken(s, p)[s] = p[s]
         /\ \A t \in Sessions \ {s} :
               /\ p[t].todo # <<>> => Overtaken(s, p)[t] = Behind(p[t])
               /\ p[t].todo = <<>> => Overtaken(s, p)[t] = p[t]
BY DEF Overtaken, Behind

LEMMA FileChanges ==
  ASSUME WritesInv, NEW s \in Sessions, NEW q \in Proc, NEW f \in FileState \cup {Absent, Torn},
         proc' = Overtaken(s, [proc EXCEPT ![s] = q]), file' = f, calls' = calls,
         Shape(q), Keeps(q, f)
  PROVE  WritesInv'
<1> DEFINE p == [proc EXCEPT ![s] = q]
<1>1. proc \in [Sessions -> Proc] /\ calls \in Nat /\ calls <= MaxCalls
  BY DEF WritesInv, TypeOK
<1>2. p[s] = q /\ \A t \in Sessions \ {s} : p[t] = proc[t]
  BY <1>1
<1>0. proc' = Overtaken(s, p)
  OBVIOUS
<1> HIDE DEF p
<1>3. /\ proc' = [t \in Sessions |-> proc'[t]] /\ proc'[s] = q
      /\ \A t \in Sessions \ {s} : /\ proc[t].todo # <<>> => proc'[t] = Behind(proc[t])
                                   /\ proc[t].todo = <<>> => proc'[t] = proc[t]
  <2>1. /\ Overtaken(s, p) = [t \in Sessions |-> Overtaken(s, p)[t]]
        /\ Overtaken(s, p)[s] = p[s]
        /\ \A t \in Sessions \ {s} :
              /\ p[t].todo # <<>> => Overtaken(s, p)[t] = Behind(p[t])
              /\ p[t].todo = <<>> => Overtaken(s, p)[t] = p[t]
    BY OvertakenAll
  <2> QED
    BY <1>0, <1>2, <2>1, Zenon
<1>4. ASSUME NEW t \in Sessions PROVE proc'[t] \in Proc /\ Shape(proc'[t]) /\ Keeps(proc'[t], f)
  <2>1. proc[t] \in Proc /\ Shape(proc[t])
    BY <1>1 DEF WritesInv
  <2>2. CASE t = s
    BY <1>3, <2>2
  <2>3. CASE t # s /\ proc[t].todo # <<>>
    BY <1>3, <2>1, <2>3, OvertakenKeeps
  <2>4. CASE t # s /\ proc[t].todo = <<>>
    <3>1. Keeps(proc[t], f)
      BY <2>4 DEF Keeps
    <3> QED
      BY <1>3, <2>1, <2>4, <3>1
  <2> QED
    BY <2>2, <2>3, <2>4
<1>5. proc' \in [Sessions -> Proc]
  BY <1>3, <1>4
<1> QED
  BY <1>1, <1>4, <1>5 DEF WritesInv, TypeOK

LEMMA OpenKeeps ==
  ASSUME WritesInv, NEW s \in Sessions, Open(s)
  PROVE  WritesInv'
<1> DEFINE q == [proc[s] EXCEPT !.open = TRUE]
<1>1. proc[s] \in Proc /\ Shape(proc[s])
  BY DEF WritesInv, TypeOK
<1>2. q \in Proc /\ q.todo = proc[s].todo /\ q.why = proc[s].why /\ q.open
  BY <1>1 DEF Proc
<1>3. proc' = Overtaken(s, [proc EXCEPT ![s] = q]) /\ file' = Torn /\ calls' = calls
  BY DEF Open
<1> HIDE DEF q
<1>4. Shape(q) /\ Keeps(q, Torn)
  BY <1>1, <1>2 DEF Shape, Keeps
<1> QED
  BY <1>2, <1>3, <1>4, FileChanges

LEMMA WriteKeeps ==
  ASSUME WritesInv, NEW s \in Sessions, proc[s].todo # <<>>, Write(s)
  PROVE  WritesInv'
<1> DEFINE r == proc[s]
           q == [r EXCEPT !.open = FALSE, !.todo = Tail(r.todo)]
           f == r.todo[1].state
<1>1. r \in Proc /\ Shape(r) /\ r.todo \in Seq(PlainWrite \cup TrackWrite) /\ r.todo # <<>>
  BY DEF WritesInv, TypeOK, Proc
<1>2. f \in FileState
  <2>1. r.todo[1] \in PlainWrite \cup TrackWrite
    BY <1>1
  <2> QED
    BY <2>1 DEF PlainWrite, TrackWrite
<1>3. proc' = Overtaken(s, [proc EXCEPT ![s] = q]) /\ file' = f /\ calls' = calls
  <2>1. Head(r.todo) = r.todo[1]
    BY <1>1
  <2>2. [proc EXCEPT ![s].open = FALSE, ![s].todo = Tail(@)] = [proc EXCEPT ![s] = q]
    BY <1>1 DEF WritesInv, TypeOK, Proc
  <2> QED
    BY <2>1, <2>2 DEF Write
<1>4. /\ Tail(r.todo) \in Seq(PlainWrite \cup TrackWrite) /\ Len(Tail(r.todo)) = Len(r.todo) - 1
      /\ \A k \in DOMAIN Tail(r.todo) : k + 1 \in DOMAIN r.todo /\ Tail(r.todo)[k] = r.todo[k + 1]
  BY <1>1
<1>5. q \in Proc /\ q.todo = Tail(r.todo) /\ q.why = r.why
  BY <1>1, <1>4 DEF Proc
<1> HIDE DEF q, r, f
<1>6. /\ r.why \in {"track", "limit", "report"} => q.todo = <<>> /\ Len(q.todo) <= 1
      /\ r.why = "start" => Len(q.todo) \in {0, 1}
      /\ (r.why = "start" /\ q.todo # <<>>) => Len(r.todo) = 2 /\ q.todo[1] = r.todo[2]
  <2>1. CASE r.why \in {"track", "limit", "report"}
    <3>1. Len(r.todo) <= 1
      BY <1>1, <2>1 DEF Shape
    <3>2. Tail(r.todo) = <<>> /\ Len(Tail(r.todo)) <= 1
      BY <1>1, <3>1, SingleTails
    <3> QED
      BY <1>5, <2>1, <3>2
  <2>2. CASE r.why = "start"
    <3>1. Len(r.todo) <= 2
      BY <1>1, <2>2 DEF Shape
    <3>2. /\ Len(Tail(r.todo)) \in {0, 1}
          /\ Tail(r.todo) # <<>> => Len(r.todo) = 2 /\ Tail(r.todo)[1] = r.todo[2]
      BY <1>1, <3>1, ShortTails
    <3> QED
      BY <1>5, <2>2, <3>2
  <2> QED
    BY <2>1, <2>2
<1>7. Shape(q)
  <2>1. \A k \in DOMAIN q.todo : k + 1 \in DOMAIN r.todo /\ q.todo[k] = r.todo[k + 1]
    BY <1>4, <1>5
  <2>2. r.why = "track" => \A k \in DOMAIN q.todo : q.todo[k] \in TrackWrite
    BY <1>1, <2>1 DEF Shape
  <2>3. r.why \in {"start", "report"} => \A k \in DOMAIN q.todo : q.todo[k].kind = "state"
    BY <1>1, <2>1 DEF Shape
  <2>4. CASE r.why = "start"
    <3>1. q.why = "start" /\ Len(q.todo) \in {0, 1}
      BY <1>5, <1>6, <2>4
    <3>2. \A k \in DOMAIN q.todo : q.todo[k].kind = "state"
      BY <2>3, <2>4
    <3> QED
      BY <3>1, <3>2, OneWrite
  <2>5. CASE r.why # "start"
    BY <1>5, <1>6, <2>2, <2>3, <2>5 DEF Shape
  <2> QED
    BY <2>4, <2>5
<1>8. Keeps(q, f)
  <2>1. (r.why = "start" /\ q.todo # <<>>) =>
           q.todo[1].state.costs = f.costs /\ q.todo[1].state.limits = f.limits
    BY <1>1, <1>6 DEF Shape, f
  <2> QED
    BY <1>5, <1>6, <2>1 DEF Keeps
<1> QED
  BY <1>2, <1>3, <1>5, <1>7, <1>8, FileChanges

LEMMA CrashKeeps ==
  ASSUME WritesInv, NEW s \in Sessions, Crash(s)
  PROVE  WritesInv'
<1>1. Idle \in Proc /\ Idle.todo = <<>> /\ Idle.why = "none"
  BY DEF Idle, Proc, Whys
<1>2. Shape(Idle) /\ Keeps(Idle, file)
  BY <1>1 DEF Shape, Keeps
<1> QED
  BY <1>1, <1>2 DEF Crash, WritesInv, TypeOK

-----------------------------------------------------------------------------
(* The inductive invariant.                                                 *)

LEMMA StartOpens ==
  ASSUME WritesInv, OpenInv, NEW s \in Sessions, NEW why, NEW todo, Start(s, why, todo)
  PROVE  OpenInv'
<1> DEFINE r == [Idle EXCEPT !.todo = todo, !.why = why]
<1>1. ~r.open
  BY DEF Idle
<1> HIDE DEF r
<1>2. proc' = [proc EXCEPT ![s] = r] /\ proc \in [Sessions -> Proc]
  BY DEF Start, r, WritesInv, TypeOK
<1>3. \A t \in Sessions : proc'[t] = IF t = s THEN r ELSE proc[t]
  BY <1>2
<1> QED
  BY <1>1, <1>3 DEF OpenInv

LEMMA OvertakenOpens ==
  ASSUME WritesInv, OpenInv, NEW s \in Sessions, NEW q \in Proc,
         proc' = Overtaken(s, [proc EXCEPT ![s] = q]), q.open => q.todo # <<>>
  PROVE  OpenInv'
<1> DEFINE p == [proc EXCEPT ![s] = q]
<1>1. proc \in [Sessions -> Proc]
  BY DEF WritesInv, TypeOK
<1>2. p[s] = q /\ (\A t \in Sessions : p[t] \in Proc) /\ \A t \in Sessions \ {s} : p[t] = proc[t]
  BY <1>1
<1>3. proc' = Overtaken(s, p)
  OBVIOUS
<1> HIDE DEF p
<1>4. /\ proc'[s] = p[s]
      /\ \A t \in Sessions \ {s} : /\ p[t].todo # <<>> => proc'[t] = Behind(p[t])
                                   /\ p[t].todo = <<>> => proc'[t] = p[t]
  <2>1. /\ Overtaken(s, p)[s] = p[s]
        /\ \A t \in Sessions \ {s} :
              /\ p[t].todo # <<>> => Overtaken(s, p)[t] = Behind(p[t])
              /\ p[t].todo = <<>> => Overtaken(s, p)[t] = p[t]
    BY OvertakenAll
  <2> QED
    BY <1>3, <2>1, Zenon
<1>5. \A r \in Proc : Behind(r).open = r.open /\ Behind(r).todo = r.todo
  BY DEF Behind, Proc
<1>6. ASSUME NEW t \in Sessions, proc'[t].open PROVE proc'[t].todo # <<>>
  <2>1. CASE t = s
    BY <1>2, <1>4, <1>6, <2>1
  <2>2. CASE t # s
    <3>1. p[t] = proc[t] /\ p[t] \in Proc /\ (proc[t].open => proc[t].todo # <<>>)
      BY <1>2, <2>2 DEF OpenInv
    <3>2. CASE p[t].todo # <<>>
      BY <1>4, <1>5, <2>2, <3>1, <3>2, Zenon
    <3>3. CASE p[t].todo = <<>>
      BY <1>4, <1>6, <2>2, <3>1, <3>3, Zenon
    <3> QED
      BY <3>2, <3>3
  <2> QED
    BY <2>1, <2>2
<1> QED
  BY <1>6 DEF OpenInv

LEMMA RereadOpens ==
  ASSUME WritesInv, OpenInv, NEW s \in Sessions, Reread(s)
  PROVE  OpenInv'
<1> DEFINE w == proc[s].todo[1]
           v == [w EXCEPT !.kind = "state", !.state = save(w.state)]
           x == proc[s].todo
           y == [x EXCEPT ![1] = v]
<1>1. proc \in [Sessions -> Proc] /\ proc[s] \in Proc /\ x # <<>>
      /\ x \in Seq(PlainWrite \cup TrackWrite)
  BY DEF WritesInv, TypeOK, Reread, Proc
<1>2. proc' = [proc EXCEPT ![s].todo[1] = v, ![s].late = FALSE]
  BY DEF Reread
<1> HIDE DEF v
<1>3. /\ \A t \in Sessions \ {s} : proc'[t] = proc[t]
      /\ proc'[s].todo = y
  BY <1>1, <1>2 DEF Proc
<1>4. y # <<>>
  <2>1. DOMAIN y = DOMAIN x /\ 1 \in DOMAIN x
    BY <1>1, NonEmpty
  <2>2. DOMAIN <<>> = 1..0 /\ 1 \notin 1..0
    OBVIOUS
  <2> QED
    BY <2>1, <2>2
<1> QED
  BY <1>3, <1>4 DEF OpenInv

LEMMA OpenOpens ==
  ASSUME WritesInv, OpenInv, NEW s \in Sessions, Open(s)
  PROVE  OpenInv'
<1> DEFINE q == [proc[s] EXCEPT !.open = TRUE]
<1>1. proc[s] \in Proc /\ proc[s].todo # <<>>
  BY DEF WritesInv, TypeOK, Open
<1>2. q \in Proc /\ q.todo = proc[s].todo
  BY <1>1 DEF Proc
<1>3. proc' = Overtaken(s, [proc EXCEPT ![s] = q])
  BY DEF Open
<1> HIDE DEF q
<1> QED
  BY <1>1, <1>2, <1>3, OvertakenOpens

LEMMA WriteOpens ==
  ASSUME WritesInv, OpenInv, NEW s \in Sessions, Write(s)
  PROVE  OpenInv'
<1> DEFINE r == proc[s]
           q == [r EXCEPT !.open = FALSE, !.todo = Tail(r.todo)]
<1>1. r \in Proc /\ r.todo \in Seq(PlainWrite \cup TrackWrite) /\ r.todo # <<>>
  BY DEF WritesInv, OpenInv, TypeOK, Proc, Write
<1>2. Tail(r.todo) \in Seq(PlainWrite \cup TrackWrite)
  BY <1>1, Tails
<1>3. q \in Proc /\ ~q.open
  BY <1>1, <1>2 DEF Proc
<1>4. proc' = Overtaken(s, [proc EXCEPT ![s] = q])
  <2>1. [proc EXCEPT ![s].open = FALSE, ![s].todo = Tail(@)] = [proc EXCEPT ![s] = q]
    BY <1>1 DEF WritesInv, TypeOK, Proc
  <2> QED
    BY <2>1 DEF Write
<1> HIDE DEF q
<1> QED
  BY <1>3, <1>4, OvertakenOpens

LEMMA CrashOpens ==
  ASSUME WritesInv, OpenInv, NEW s \in Sessions, Crash(s)
  PROVE  OpenInv'
<1>1. ~Idle.open
  BY DEF Idle
<1>2. \A t \in Sessions : proc'[t] = IF t = s THEN Idle ELSE proc[t]
  BY DEF Crash, WritesInv, TypeOK
<1> QED
  BY <1>1, <1>2 DEF OpenInv

LEMMA StepKeeps ==
  ASSUME WritesInv, OpenInv, [Next]_vars
  PROVE  WritesInv' /\ OpenInv'
<1>1. CASE UNCHANGED vars
  BY <1>1 DEF vars, WritesInv, OpenInv, TypeOK
<1>2. ASSUME NEW s \in Sessions, budget_track(s) PROVE WritesInv' /\ OpenInv'
  BY <1>2, TrackStarts, StartOpens DEF budget_track
<1>3. ASSUME NEW s \in Sessions, budget_set_limit(s) PROVE WritesInv' /\ OpenInv'
  BY <1>3, LimitStarts, StartOpens DEF budget_set_limit
<1>4. ASSUME NEW s \in Sessions, session_start(s) PROVE WritesInv' /\ OpenInv'
  BY <1>4, SessionStarts, StartOpens DEF session_start
<1>5. ASSUME NEW s \in Sessions, Report(s) PROVE WritesInv' /\ OpenInv'
  BY <1>5, ReportStarts, StartOpens DEF Report
<1>6. ASSUME NEW s \in Sessions, swarmCommand(s) PROVE WritesInv' /\ OpenInv'
  BY <1>5, <1>6, ResetStarts, StartOpens DEF swarmCommand
<1>7. ASSUME NEW s \in Sessions, Reread(s) PROVE WritesInv' /\ OpenInv'
  BY <1>7, RereadKeeps, RereadOpens
<1>8. ASSUME NEW s \in Sessions, Open(s) PROVE WritesInv' /\ OpenInv'
  BY <1>8, OpenKeeps, OpenOpens
<1>9. ASSUME NEW s \in Sessions, Write(s) PROVE WritesInv' /\ OpenInv'
  <2>1. proc[s].todo # <<>>
    BY <1>9 DEF Write, OpenInv
  <2> QED
    BY <1>9, <2>1, WriteKeeps, WriteOpens
<1>10. ASSUME NEW s \in Sessions, Crash(s) PROVE WritesInv' /\ OpenInv'
  BY <1>10, CrashKeeps, CrashOpens
<1> QED
  BY <1>1, <1>2, <1>3, <1>4, <1>5, <1>6, <1>7, <1>8, <1>9, <1>10
  DEF Next, swarm_status, swarm_activity, swarm_cost

LEMMA InitWrites == Init => WritesInv /\ OpenInv
<1> SUFFICES ASSUME Init PROVE WritesInv /\ OpenInv
  OBVIOUS
<1>1. Idle \in Proc /\ Idle.todo = <<>> /\ Idle.why = "none" /\ ~Idle.open
  BY DEF Idle, Proc, Whys
<1>2. Shape(Idle) /\ Keeps(Idle, file)
  BY <1>1 DEF Shape, Keeps
<1>3. proc = [s \in Sessions |-> Idle] /\ calls = 0
  BY DEF Init
<1>4. file \in FileState \cup {Absent, Torn}
  <2>1. [emptyState EXCEPT !.agents = TRUE] \in FileState
    BY EmptyType DEF FileState
  <2> QED
    BY <2>1, EmptyType DEF Init
<1>5. TypeOK
  BY <1>1, <1>3, <1>4, SwarmAssumption DEF TypeOK
<1> QED
  BY <1>1, <1>2, <1>3, <1>5 DEF WritesInv, OpenInv

\* The next write that each running call has ready is what the call owes to the
\* file, whatever the other sessions have done in between.
THEOREM WritesSafe == Spec => [](WritesInv /\ OpenInv)
<1>1. Init => WritesInv /\ OpenInv
  BY InitWrites
<1>2. WritesInv /\ OpenInv /\ [Next]_vars => WritesInv' /\ OpenInv'
  BY StepKeeps
<1> QED
  BY <1>1, <1>2, PTL DEF Spec

-----------------------------------------------------------------------------
(* The properties.                                                          *)

LEMMA Opened ==
  ASSUME WritesInv, NEW s \in Sessions, NEW whys, Opening(s, whys)
  PROVE  /\ proc[s] \in Proc /\ Keeps(proc[s], file) /\ Shape(proc[s])
         /\ file.at = "ok" /\ file \in FileState /\ ~proc[s].open /\ proc[s].todo # <<>>
         /\ proc[s].todo[1] \in PlainWrite \cup TrackWrite
         /\ Head(proc[s].todo) = proc[s].todo[1] /\ proc[s].todo[1].kind = "state"
         /\ proc[s].why \in whys /\ 1 \in DOMAIN proc[s].todo
<1>1. Open(s) /\ readable /\ proc[s].why \in whys
  BY DEF Opening
<1>2. proc[s] \in Proc /\ Keeps(proc[s], file) /\ Shape(proc[s]) /\ TypeOK
  BY DEF WritesInv, TypeOK
<1>3. proc[s].todo \in Seq(PlainWrite \cup TrackWrite) /\ proc[s].todo # <<>>
  BY <1>1, <1>2 DEF Open, Proc
<1>4. Head(proc[s].todo) = proc[s].todo[1] /\ proc[s].todo[1] \in PlainWrite \cup TrackWrite
      /\ 1 \in DOMAIN proc[s].todo
  BY <1>3, NonEmpty
<1>5. file.at = "ok" /\ file \in FileState
  BY <1>1, <1>2, LoadType DEF readable
<1> QED
  BY <1>1, <1>2, <1>3, <1>4, <1>5 DEF Open

\* A budget save that read the file last leaves the observers' keys as they are:
\* save()'s second read is what makes that so, whatever else has been written
\* since the first.
THEOREM OthersKeysSafe == Spec => OthersKeysPreserved
<1>1. ASSUME WritesInv, NEW s \in Sessions, Opening(s, {"track", "limit"}), ~proc[s].late
      PROVE  Content(s).activity = file.activity /\ Content(s).agents = file.agents
  BY <1>1, Opened DEF Keeps, Content
<1>2. WritesInv =>
       \A s \in Sessions : Opening(s, {"track", "limit"}) /\ ~proc[s].late
         => Content(s).activity = file.activity /\ Content(s).agents = file.agents
  BY <1>1
<1> QED
  BY <1>2, WritesSafe, PTL DEF OthersKeysPreserved

\* Neither a session start nor a report of the observers takes cost entries or
\* limits out of a readable file, and setting a limit takes no cost entry.
THEOREM LedgerSafe == Spec => LedgerKept
<1>1. ASSUME WritesInv, NEW s \in Sessions, Opening(s, {"start", "report", "limit"}),
             ~proc[s].stale
      PROVE  /\ Content(s).costs = file.costs
             /\ proc[s].why # "limit" => Content(s).limits = file.limits
  BY <1>1, Opened DEF Keeps, Content
<1>2. WritesInv =>
       \A s \in Sessions : Opening(s, {"start", "report", "limit"}) /\ ~proc[s].stale
         => /\ Content(s).costs = file.costs
            /\ proc[s].why # "limit" => Content(s).limits = file.limits
  BY <1>1
<1> QED
  BY <1>2, WritesSafe, PTL DEF LedgerKept

LEMMA KeptIsSuffix ==
  ASSUME NEW S, NEW c \in Seq(S), NEW d \in Seq(S), Len(d) <= Len(c),
         \A k \in 1..Len(d) : d[k] = c[k + Len(c) - Len(d)]
  PROVE  IsSuffix(d, c)
<1>1. /\ Len(c) \in Nat /\ Len(d) \in Nat
      /\ \A i \in 1..Len(c) : c[Len(c) - i + 1] \in S
      /\ \A i \in 1..Len(d) : d[Len(d) - i + 1] \in S
  OBVIOUS
<1>2. Reverse(c) \in Seq(S) /\ Len(Reverse(c)) = Len(c)
      /\ \A i \in 1..Len(c) : Reverse(c)[i] = c[Len(c) - i + 1]
  BY <1>1 DEF Reverse
<1>3. Reverse(d) \in Seq(S) /\ Len(Reverse(d)) = Len(d)
      /\ \A i \in 1..Len(d) : Reverse(d)[i] = d[Len(d) - i + 1]
  BY <1>1 DEF Reverse
<1>4. ASSUME NEW i \in 1..Len(d) PROVE Reverse(d)[i] = Reverse(c)[i]
  <2> DEFINE k == Len(d) - i + 1
  <2>1. k \in 1..Len(d) /\ i \in 1..Len(c) /\ k + Len(c) - Len(d) = Len(c) - i + 1
    BY <1>1
  <2>2. Reverse(d)[i] = d[k] /\ Reverse(c)[i] = c[Len(c) - i + 1]
    BY <1>2, <1>3, <2>1
  <2> HIDE DEF k
  <2>3. d[k] = c[k + Len(c) - Len(d)]
    BY <2>1
  <2> QED
    BY <2>1, <2>2, <2>3
<1> DEFINE x == SubSeq(Reverse(d), 1, Len(d))
           y == SubSeq(Reverse(c), 1, Len(d))
<1>5. /\ x \in Seq(S) /\ Len(x) = Len(d)
      /\ \A i \in 1..Len(d) : x[i] = Reverse(d)[i]
  BY <1>1, <1>3, SubSeqProperties
<1>6. /\ y \in Seq(S) /\ Len(y) = Len(d)
      /\ \A i \in 1..Len(d) : y[i] = Reverse(c)[i]
  BY <1>1, <1>2, SubSeqProperties
<1> HIDE DEF x, y
<1>7. x = y
  <2>1. \A i \in 1..Len(x) : x[i] = y[i]
    BY <1>4, <1>5, <1>6
  <2>2. Len(x) = Len(y)
    BY <1>5, <1>6
  <2> QED
    BY <1>5, <1>6, <2>1, <2>2, SeqEqual
<1> QED
  BY <1>2, <1>3, <1>7 DEF IsSuffix, IsPrefix, x, y

LEMMA Minimum ==
  ASSUME NEW a \in Nat, NEW b \in Nat
  PROVE  Min({a, b}) = IF a > b THEN b ELSE a
<1>1. \E x \in {a, b} : \A y \in {a, b} : x <= y
  OBVIOUS
<1>2. Min({a, b}) \in {a, b} /\ \A y \in {a, b} : Min({a, b}) <= y
  BY <1>1 DEF Min
<1> QED
  BY <1>2

\* A budget_track that nobody overlapped adds its entry as the newest and drops
\* only the oldest entries beyond MAX_COSTS, for every MAX_COSTS.
THEOREM NewestCostsSafe == Spec => NewestCostsKept
<1>1. ASSUME WritesInv, NEW s \in Sessions, Opening(s, {"track"}), ~proc[s].stale
      PROVE  LET all == Append(file.costs, Head(proc[s].todo).entry)
             IN /\ IsSuffix(Content(s).costs, all)
                /\ Len(Content(s).costs) = Min({Len(all), MAX_COSTS})
  <2> DEFINE w == proc[s].todo[1]
             all == Append(file.costs, w.entry)
             kept == w.state.costs
  <2>1. Head(proc[s].todo) = w
    BY <1>1, Opened
  <2>2. w.entry \in Entries /\ file.costs \in Seq(Entries)
    <3>1. w \in TrackWrite
      BY <1>1, Opened DEF Shape
    <3> QED
      BY <1>1, <3>1, Opened DEF FileState, TrackWrite
  <2>3. kept = lastCosts(all)
    BY <1>1, Opened DEF Keeps
  <2>4. all \in Seq(Entries)
    BY <2>2
  <2> HIDE DEF all, kept
  <2>5. /\ kept \in Seq(Entries)
        /\ Len(kept) = IF Len(all) > MAX_COSTS THEN MAX_COSTS ELSE Len(all)
        /\ \A k \in 1..Len(kept) : kept[k] = all[k + Len(all) - Len(kept)]
    BY <2>3, <2>4, LastCosts
  <2>6. Len(all) \in Nat /\ MAX_COSTS \in Nat
    BY <2>4, SwarmAssumption
  <2>7. Len(kept) <= Len(all) /\ Len(kept) = Min({Len(all), MAX_COSTS})
    BY <2>5, <2>6, Minimum
  <2>8. IsSuffix(kept, all)
    BY <2>4, <2>5, <2>7, KeptIsSuffix
  <2> QED
    BY <2>1, <2>7, <2>8 DEF Content, all, kept
<1>2. WritesInv =>
       \A s \in Sessions : Opening(s, {"track"}) /\ ~proc[s].stale
         => LET all == Append(file.costs, Head(proc[s].todo).entry)
            IN /\ IsSuffix(Content(s).costs, all)
               /\ Len(Content(s).costs) = Min({Len(all), MAX_COSTS})
  BY <1>1
<1> QED
  BY <1>2, WritesSafe, PTL DEF NewestCostsKept

=============================================================================
