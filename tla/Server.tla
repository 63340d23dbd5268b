------------------------------- MODULE Server -------------------------------
(***************************************************************************)
(* The coordinator's HTTP API (internal/httpapi/server.go) and its process *)
(* (cmd/coordinator/main.go): admission of short requests and of streams   *)
(* to their slots, the five-second deadline of a request, the snapshot     *)
(* loop of a stream, clients that go away, and the shutdown that a signal  *)
(* starts.  The store is what a create leaves in it: one task per request  *)
(* key (TaskStore shows that it does); a short read only holds a slot.     *)
(***************************************************************************)
EXTENDS Naturals, Sequences, FiniteSets

CONSTANTS Conns,        \* connections that may be open at the same time
          MaxRequests,  \* slots for short requests (32 in the code)
          MaxStreams    \* slots for streams (16 in the code)

ASSUME ServerAssumption ==
  IsFiniteSet(Conns) /\ MaxRequests \in Nat /\ MaxStreams \in Nat

VARIABLES conn,      \* the request each connection carries
          requests,  \* tokens in the channel s.requests
          streams,   \* tokens in the channel s.streams
          created,   \* tasks in the store: [key, title]
          inbox,     \* whether a frame is on its way to the tab
          stopping   \* the signal context is cancelled
serverVars == <<conn, requests, streams, created, inbox, stopping>>

(* at: idle, arrived, serving, committed, streaming or closed; here: the    *)
(* client still waits; from: the attempt of the console's tab that opened   *)
(* the stream, 0 for any other client; task: what a create asks for.        *)
NoConn == [at |-> "idle", kind |-> "none", from |-> 0, task |-> <<>>, status |-> 0, here |-> FALSE]

ServerInit ==
  /\ conn = [c \in Conns |-> NoConn]
  /\ requests = 0 /\ streams = 0 /\ created = {} /\ stopping = FALSE
  /\ inbox = [c \in Conns |-> FALSE]

idle(c) == conn[c].at = "idle"
serving(c) == conn[c].at \in {"serving", "committed"}
isStream(c) == conn[c].kind \in {"stream", "console"}

-----------------------------------------------------------------------------
(* Clients *)

Send(kind, from, task) ==
  [at |-> "arrived", kind |-> kind, from |-> from, task |-> task, status |-> 0, here |-> TRUE]

(* Another client's request, from its admission on; one that is refused     *)
(* leaves nothing behind.                                                   *)
OtherRead(c) ==
  /\ idle(c) /\ ~stopping /\ requests < MaxRequests /\ requests' = requests + 1
  /\ conn' = [conn EXCEPT ![c] = [Send("read", 0, <<>>) EXCEPT !.at = "serving"]]
  /\ UNCHANGED <<streams, created, inbox, stopping>>
OtherStream(c) ==
  /\ idle(c) /\ ~stopping /\ streams < MaxStreams /\ streams' = streams + 1
  /\ conn' = [conn EXCEPT ![c] = [Send("stream", 0, <<>>) EXCEPT !.at = "streaming"]]
  /\ UNCHANGED <<requests, created, inbox, stopping>>

(* The client goes away; the server learns of it from the request context.  *)
Left(c) == IF conn[c].at = "closed" THEN NoConn ELSE [conn[c] EXCEPT !.here = FALSE]
OtherLeaves(c) ==
  /\ conn[c].here /\ conn[c].kind = "stream"
  /\ conn' = [conn EXCEPT ![c] = Left(c)]
  /\ UNCHANGED <<requests, streams, created, inbox, stopping>>

-----------------------------------------------------------------------------
(* The handler *)

(* The answer reaches the tab that waits for it; that of anybody else is    *)
(* no longer of interest.                                                   *)
reply(c, status) ==
  LET waits == conn[c].here /\ conn[c].kind \in {"console", "create"}
  IN /\ conn' = [conn EXCEPT ![c] = IF waits THEN [@ EXCEPT !.at = "closed", !.status = status] ELSE NoConn]
     /\ inbox' = [inbox EXCEPT ![c] = IF waits THEN @ ELSE FALSE]

(* 401 for a mistyped token, before any slot is taken; 503 when the channel *)
(* is full.                                                                 *)
Refuse(c) ==
  /\ conn[c].at = "arrived"
  /\ \/ isStream(c) /\ reply(c, 401)
     \/ ~isStream(c) /\ requests = MaxRequests /\ reply(c, 503)
     \/ isStream(c) /\ streams = MaxStreams /\ reply(c, 503)
  /\ UNCHANGED <<requests, streams, created, stopping>>

Admit(c) ==
  /\ conn[c].at = "arrived" /\ ~isStream(c)
  /\ requests < MaxRequests /\ requests' = requests + 1
  /\ conn' = [conn EXCEPT ![c].at = "serving"]
  /\ UNCHANGED <<streams, created, inbox, stopping>>

(* The transaction of the request commits.                                  *)
Commit(c) ==
  /\ conn[c].at = "serving"
  /\ conn' = [conn EXCEPT ![c].at = "committed"]
  /\ created' = IF conn[c].kind = "create" THEN created \cup {conn[c].task} ELSE created
  /\ UNCHANGED <<requests, streams, inbox, stopping>>

Answer(c) ==
  /\ conn[c].at = "committed" /\ reply(c, 201)
  /\ requests' = requests - 1 /\ UNCHANGED <<streams, created, stopping>>

(* A slot given back after the answer and not by a deferred call.           *)
FailLeaks(c) ==
  /\ serving(c) /\ reply(c, 503)
  /\ UNCHANGED <<requests, streams, created, stopping>>
(* Invalid input, a conflict, the five-second deadline, a client that is    *)
(* gone or the shutdown: the transaction is rolled back, or its commit is   *)
(* done and the acknowledgement lost.                                       *)
fail(c) ==
  /\ serving(c) /\ reply(c, 503)
  /\ requests' = requests - 1 /\ UNCHANGED <<streams, created, stopping>>

openStream(c) ==
  /\ conn[c].at = "arrived" /\ isStream(c)
  /\ streams < MaxStreams /\ streams' = streams + 1
  /\ conn' = [conn EXCEPT ![c].at = "streaming"]
  /\ UNCHANGED <<requests, created, inbox, stopping>>

(* One turn of the stream loop: a snapshot of the store is written.         *)
Frame(c) ==
  /\ conn[c].at = "streaming" /\ conn[c].here /\ ~stopping /\ ~inbox[c]
  /\ inbox' = [inbox EXCEPT ![c] = conn[c].kind = "console"]
  /\ UNCHANGED <<conn, requests, streams, created, stopping>>

(* A loop that only looks at its writes, never at the context.              *)
EndOnlyLive(c) ==
  /\ conn[c].at = "streaming" /\ conn[c].here /\ reply(c, 200)
  /\ streams' = streams - 1 /\ UNCHANGED <<requests, created, stopping>>
(* The loop ends: a snapshot or a write fails, at the latest when the       *)
(* request context is done.                                                 *)
endStream(c) ==
  /\ conn[c].at = "streaming" /\ reply(c, 200)
  /\ streams' = streams - 1 /\ UNCHANGED <<requests, created, stopping>>

(* SIGINT or SIGTERM cancels the base context of all requests.              *)
Signal == ~stopping /\ stopping' = TRUE /\ UNCHANGED <<conn, requests, streams, created, inbox>>

Handler(c) ==
  \/ Refuse(c) \/ Admit(c) \/ Commit(c) \/ Answer(c) \/ fail(c)
  \/ openStream(c) \/ Frame(c) \/ endStream(c)

ServerNext ==
  \/ Signal
  \/ \E c \in Conns : OtherRead(c) \/ OtherStream(c) \/ OtherLeaves(c) \/ Handler(c)

(* A short request ends by its deadline; a stream notices within a tick     *)
(* that its context is done.                                                *)
ServerFairness ==
  \A c \in Conns : /\ WF_serverVars(Commit(c) \/ Answer(c) \/ fail(c))
                   /\ WF_serverVars((~conn[c].here \/ stopping) /\ endStream(c))

-----------------------------------------------------------------------------
(* Properties *)

(* A slot comes back on every path: the tokens in the two channels are the  *)
(* requests being served and the open streams, never more than the limits.  *)
SlotsBalanced ==
  /\ requests = Cardinality({c \in Conns : serving(c)}) /\ requests <= MaxRequests
  /\ streams = Cardinality({c \in Conns : conn[c].at = "streaming"}) /\ streams <= MaxStreams

(* Every short request ends, every stream whose client is gone gives its    *)
(* slot back, and after a signal nothing keeps Shutdown waiting.            *)
SlotsReturn ==
  \A c \in Conns : /\ serving(c) ~> ~serving(c)
                   /\ (conn[c].at = "streaming" /\ (~conn[c].here \/ stopping)) ~> conn[c].at # "streaming"
=============================================================================
