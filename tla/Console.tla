------------------------------ MODULE Console ------------------------------
(***************************************************************************)
(* One tab of the operations console (web/src/app.ts) at the coordinator   *)
(* of module Server: the connection attempts and the fence between them,   *)
(* the frames that are rendered, and the create form with its draft key.   *)
(* Handlers of the page run to their next await; what an await waits for   *)
(* is a step of the server, of the network or of the clock.  The operator  *)
(* wants one task per title and submits a title again until it sees the    *)
(* answer.                                                                 *)
(***************************************************************************)
EXTENDS Server

CONSTANTS Titles,       \* titles the operator wants tasks for
          MaxKeys,      \* BOUND: request keys the tab draws
          MaxAttempts   \* BOUND: connect and disconnect clicks

ASSUME ConsoleAssumption == MaxKeys \in Nat /\ MaxAttempts \in Nat

VARIABLES attempt,    \* the counter that fences attempts
          connected,
          field,      \* the title field; "" when empty
          draft,      \* [title, key]: draftTitle and draftKey, key 0 for undefined
          keys,       \* keys drawn so far
          disabled,   \* the create button
          view,       \* the attempt whose snapshot is shown; 0 for none
          cleared,    \* the attempt counter at the last disconnect
          seen,       \* titles whose answer the operator has seen
          strayed     \* two creates were in flight, or a title was given up unanswered
formVars == <<field, draft, keys, seen, strayed>>
linkVars == <<attempt, view, cleared>>
tabVars == <<connected, disabled, formVars, linkVars>>
vars == <<serverVars, tabVars>>

ConsoleInit ==
  /\ attempt = 0 /\ connected = FALSE /\ disabled = TRUE /\ view = 0 /\ cleared = 0
  /\ field = "" /\ draft = [title |-> "", key |-> 0] /\ keys = 0 /\ seen = {} /\ strayed = FALSE

mine(c) == conn[c].kind = "console"
noServer == UNCHANGED <<requests, streams, created, stopping>>
setConnected(b) == connected' = b /\ disabled' = ~b

(* What is shown afterwards comes from attempt a; 0 is the empty snapshot.   *)
render(a) == view' = a

-----------------------------------------------------------------------------
(* Connecting *)

(* Aborting the stream of the attempt before this one.                      *)
aborted == [c \in Conns |-> IF mine(c) THEN Left(c) ELSE conn[c]]

(* The stream of the earlier attempt left open.                             *)
ConnectKeepsOld(c) ==
  /\ idle(c) /\ ~stopping /\ attempt < MaxAttempts
  /\ attempt' = attempt + 1
  /\ conn' = [conn EXCEPT ![c] = Send("console", attempt + 1, <<>>)]
  /\ setConnected(FALSE) /\ noServer /\ UNCHANGED <<inbox, view, cleared, formVars>>
connect(c) ==
  /\ idle(c) /\ ~stopping /\ attempt < MaxAttempts
  /\ attempt' = attempt + 1
  /\ conn' = [aborted EXCEPT ![c] = Send("console", attempt + 1, <<>>)]
  /\ setConnected(FALSE) /\ noServer /\ UNCHANGED <<inbox, view, cleared, formVars>>

(* The headers of /api/stream come with its first frame; fetch rejects once *)
(* it is aborted.                                                           *)
streamOpened(c) ==
  /\ mine(c) /\ conn[c].here /\ inbox[c] /\ ~connected
  /\ setConnected(TRUE) /\ noServer /\ UNCHANGED <<conn, inbox, linkVars, formVars>>

(* A page without the fence.                                                *)
RenderAlways(c) ==
  /\ mine(c) /\ inbox[c]
  /\ inbox' = [inbox EXCEPT ![c] = FALSE] /\ render(conn[c].from)
  /\ noServer /\ UNCHANGED <<conn, connected, disabled, attempt, cleared, formVars>>
(* A frame read from the body, perhaps after the abort; rendered only for   *)
(* the current attempt.                                                     *)
readFrame(c) ==
  /\ mine(c) /\ inbox[c] /\ (conn[c].from = attempt => connected)
  /\ inbox' = [inbox EXCEPT ![c] = FALSE]
  /\ render(IF conn[c].from = attempt THEN conn[c].from ELSE view)
  /\ noServer /\ UNCHANGED <<conn, connected, disabled, attempt, cleared, formVars>>

(* The current stream was refused, ended or broke: the catch block.         *)
streamFailed(c) ==
  /\ mine(c) /\ conn[c].at = "closed" /\ conn[c].from = attempt
  /\ setConnected(FALSE)
  /\ conn' = [conn EXCEPT ![c] = Left(c)] /\ inbox' = [inbox EXCEPT ![c] = FALSE]
  /\ noServer /\ UNCHANGED <<linkVars, formVars>>

disconnect ==
  /\ connected /\ attempt < MaxAttempts
  /\ attempt' = attempt + 1 /\ cleared' = attempt + 1 /\ render(0)
  /\ conn' = aborted /\ setConnected(FALSE) /\ noServer /\ UNCHANGED <<inbox, formVars>>

-----------------------------------------------------------------------------
(* Creating a task *)

typeTitle(t) ==
  /\ connected /\ field # t /\ t \notin seen /\ field' = t
  /\ noServer /\ UNCHANGED <<conn, inbox, connected, disabled, linkVars, draft, keys, seen, strayed>>

pending(c) == conn[c].kind = "create" /\ conn[c].here
submitWith(c, d) ==
  /\ connected /\ ~disabled /\ field # "" /\ idle(c) /\ d.key <= MaxKeys
  /\ draft' = d /\ keys' = IF d.key > keys THEN d.key ELSE keys
  /\ disabled' = TRUE
  /\ strayed' = (strayed \/ (\E o \in Conns : pending(o)) \/ (draft.key # 0 /\ draft.title # field))
  /\ conn' = [conn EXCEPT ![c] = Send("create", 0, [key |-> d.key, title |-> field])]
  /\ noServer /\ UNCHANGED <<inbox, connected, field, seen, linkVars>>

(* A fresh key for every submit.                                            *)
SubmitFreshKey(c) == submitWith(c, [title |-> field, key |-> keys + 1])
submit(c) ==
  submitWith(c, IF draft.title # field \/ draft.key = 0
                THEN [title |-> field, key |-> keys + 1] ELSE draft)

(* 201: the key is forgotten, the field emptied, whatever it holds by now.  *)
createAnswered(c) ==
  /\ pending(c) /\ conn[c].status = 201
  /\ draft' = [draft EXCEPT !.key = 0] /\ field' = "" /\ disabled' = ~connected
  /\ seen' = seen \cup {conn[c].task.title}
  /\ conn' = [conn EXCEPT ![c] = Left(c)]
  /\ noServer /\ UNCHANGED <<inbox, connected, linkVars, keys, strayed>>

(* The button freed by the answer and not in a finally block.               *)
FailedLocked(c) ==
  /\ pending(c) /\ conn[c].status # 201 /\ conn' = [conn EXCEPT ![c] = Left(c)]
  /\ noServer /\ UNCHANGED <<inbox, connected, disabled, linkVars, formVars>>
(* A refusal, a failure, or ten seconds without an answer.                  *)
createFailed(c) ==
  /\ pending(c) /\ conn[c].status # 201 /\ disabled' = ~connected
  /\ conn' = [conn EXCEPT ![c] = Left(c)]
  /\ noServer /\ UNCHANGED <<inbox, connected, linkVars, formVars>>

TabNext ==
  \/ disconnect \/ \E t \in Titles : typeTitle(t)
  \/ \E c \in Conns :
       \/ connect(c) \/ streamOpened(c) \/ readFrame(c) \/ streamFailed(c)
       \/ submit(c) \/ createAnswered(c) \/ createFailed(c)

(* A create that is neither answered nor refused is aborted by its timeout. *)
TabFairness == \A c \in Conns : WF_vars(createAnswered(c) \/ createFailed(c))

Init == ServerInit /\ ConsoleInit
Next == TabNext \/ (ServerNext /\ UNCHANGED tabVars)
Spec == Init /\ [][Next]_vars /\ ServerFairness /\ TabFairness

-----------------------------------------------------------------------------
(* Properties *)

(* Types of the tab and of what it left in the store; at most one stream of *)
(* the tab is not aborted.                                                  *)
TypeOK ==
  /\ attempt \in 0..MaxAttempts /\ keys \in 0..MaxKeys /\ draft.key \in 0..keys
  /\ field \in Titles \cup {""} /\ seen \subseteq Titles
  /\ \A t \in created : t.key \in 1..keys /\ t.title \in Titles
  /\ \A c, d \in Conns : mine(c) /\ mine(d) /\ conn[c].here /\ conn[d].here => c = d

(* Nothing received on a connection opened before a disconnect is shown     *)
(* after it (the fence on attempt in connect).                              *)
NoLateFrame == view # 0 => view > cleared

(* A title submitted again after a lost answer reuses its key, so that the  *)
(* operator gets one task for it, as long as no two creates were in flight  *)
(* at once (after a reconnect) and no title was given up unanswered.        *)
OneTaskPerTitle ==
  ~strayed => \A t, u \in created : t.title = u.title => t = u

(* The create button of a connected tab comes back, whatever became of the  *)
(* create that locked it.                                                   *)
FormReturns == connected /\ disabled ~> ~connected \/ ~disabled
=============================================================================
