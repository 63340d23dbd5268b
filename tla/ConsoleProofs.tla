---------------------------- MODULE ConsoleProofs ----------------------------
(***************************************************************************)
(* Proofs about Console and the server it EXTENDS, for every finite set of *)
(* connections, every limit on the slots, and any number of attempts,      *)
(* titles and keys.  Four invariants, one for each thing that could go     *)
(* wrong, each shown inductive by itself once the shape of a connection is *)
(* known: slots, the fence of the attempts, types, and the form's key.     *)
(***************************************************************************)
EXTENDS Console, FiniteSetTheorems, TLAPS

(* Records of a connection and of the form.                                 *)
Text == Titles \cup {""}
Asked == [key : Nat, title : Text]
Conn == [at : {"idle", "arrived", "serving", "committed", "streaming", "closed"},
         kind : {"none", "read", "stream", "console", "create"},
         from : Nat, task : Asked \cup {<<>>}, status : Nat, here : BOOLEAN]
TypeInv == /\ conn \in [Conns -> Conn] /\ attempt \in Nat
           /\ field \in Text /\ draft \in Asked /\ keys \in Nat

(* The tokens are numbers, which SlotsBalanced does not say of requests - 1 *)
(* and streams - 1.                                                         *)
SlotInv == requests \in Nat /\ streams \in Nat /\ SlotsBalanced

(* The fence: the counter was at cleared at the last disconnect, and no     *)
(* stream of the tab carries that number: a disconnect draws one that no    *)
(* stream has, and a stream opened later a higher one.                      *)
FenceInv ==
  /\ cleared \in 0..attempt /\ view \in Nat
  /\ \A c \in Conns : mine(c) => conn[c].from \in 1..attempt /\ conn[c].from # cleared
  /\ NoLateFrame

(* What a create carries was drawn and typed before it was sent.            *)
SentTypes ==
  \A c \in Conns : conn[c].kind = "create" =>
    conn[c].task.key \in 1..keys /\ conn[c].task.title \in Titles
TabInv == TypeOK /\ SentTypes

(* The tasks asked for so far, in the store or still on their way.          *)
Sent == created \cup {conn[c].task : c \in {d \in Conns : conn[d].kind = "create"}}

(* Until the operator strays, every task asked for either has a title that  *)
(* was answered, and is then never typed again, or is the draft, which the  *)
(* one create that still waits is about.                                    *)
FormInv ==
  /\ field # "" => field \notin seen
  /\ ~strayed =>
       /\ \A t, u \in Sent : t.title = u.title => t = u
       /\ \A t \in Sent : t.title \in seen \/ (draft.key # 0 /\ t = draft)
       /\ \A c \in Conns : pending(c) => draft.key # 0 /\ conn[c].task = draft
       /\ \A c, d \in Conns : pending(c) /\ pending(d) => c = d

-----------------------------------------------------------------------------
(* Types, and what a step of the server leaves alone.                       *)

LEMMA NoConnType == NoConn \in Conn
BY DEF NoConn, Conn

LEMMA SendType ==
  ASSUME NEW kind \in {"read", "stream", "console", "create"}, NEW from \in Nat,
         NEW task \in Asked \cup {<<>>}
  PROVE  Send(kind, from, task) \in Conn
BY DEF Send, Conn

(* A client that leaves, and an answer, change only the fields they name.   *)
LEMMA LeftIs ==
  ASSUME TypeInv, NEW c \in Conns
  PROVE  /\ Left(c) \in Conn /\ ~Left(c).here
         /\ Left(c).at = (IF conn[c].at = "closed" THEN "idle" ELSE conn[c].at)
         /\ \/ Left(c).kind = "none"
            \/ Left(c).kind = conn[c].kind /\ Left(c).from = conn[c].from /\ Left(c).task = conn[c].task
BY NoConnType DEF TypeInv, Conn, Left, NoConn

LEMMA ReplyIs ==
  ASSUME TypeInv, NEW c \in Conns, NEW status \in Nat, reply(c, status)
  PROVE  /\ conn' \in [Conns -> Conn]
         /\ \A d \in Conns \ {c} : conn'[d] = conn[d]
         /\ conn'[c].at \in {"closed", "idle"}
         /\ \/ conn'[c].kind = "none"
            \/ /\ conn'[c].kind = conn[c].kind /\ conn'[c].from = conn[c].from
               /\ conn'[c].task = conn[c].task /\ conn'[c].here = conn[c].here
BY NoConnType DEF reply, TypeInv, Conn, NoConn

(* Connection d carries the request it carried before, or none of the tab's; *)
(* its client may be gone.                                                  *)
Keeps(d) ==
  \/ conn'[d].kind \in {"none", "read", "stream"}
  \/ /\ conn'[d].kind = conn[d].kind /\ conn'[d].from = conn[d].from
     /\ conn'[d].task = conn[d].task /\ (conn'[d].here => conn[d].here)
OnlyAsked == \A t \in created' :
  t \in created \/ \E d \in Conns : conn[d].kind = "create" /\ t = conn[d].task
Carried == conn' \in [Conns -> Conn] /\ OnlyAsked /\ \A d \in Conns : Keeps(d)

(* No step of the server makes up a request of the tab or a task.           *)
LEMMA ServerKeeps ==
  ASSUME TypeInv, ServerNext
  PROVE  Carried
<1>1. ASSUME NEW c \in Conns, OtherRead(c) PROVE Carried
  <2>1. Send("read", 0, <<>>) \in Conn
    BY SendType
  <2> QED
    BY <1>1, <2>1 DEF OtherRead, Send, Conn, TypeInv, Carried, Keeps, OnlyAsked
<1>2. ASSUME NEW c \in Conns, OtherStream(c) PROVE Carried
  <2>1. Send("stream", 0, <<>>) \in Conn
    BY SendType
  <2> QED
    BY <1>2, <2>1 DEF OtherStream, Send, Conn, TypeInv, Carried, Keeps, OnlyAsked
<1>3. ASSUME NEW c \in Conns, OtherLeaves(c) PROVE Carried
  BY <1>3, LeftIs DEF OtherLeaves, TypeInv, Carried, Keeps, OnlyAsked
<1>4. ASSUME NEW c \in Conns, NEW status \in Nat, reply(c, status), created' = created
      PROVE  Carried
  BY <1>4, ReplyIs DEF Carried, Keeps, OnlyAsked
<1>5. ASSUME NEW c \in Conns, Refuse(c) PROVE Carried
  BY <1>4, <1>5 DEF Refuse
<1>6. ASSUME NEW c \in Conns, Answer(c) \/ fail(c) \/ endStream(c) PROVE Carried
  BY <1>4, <1>6 DEF Answer, fail, endStream
<1>7. ASSUME NEW c \in Conns, Admit(c) \/ openStream(c) PROVE Carried
  <2>1. CASE Admit(c)
    BY <2>1 DEF Admit, Conn, TypeInv, Carried, Keeps, OnlyAsked
  <2>2. CASE openStream(c)
    BY <2>2 DEF openStream, Conn, TypeInv, Carried, Keeps, OnlyAsked
  <2> QED
    BY <1>7, <2>1, <2>2
<1>8. ASSUME NEW c \in Conns, Commit(c) PROVE Carried
  BY <1>8 DEF Commit, Conn, TypeInv, Carried, Keeps, OnlyAsked
<1>9. CASE Signal \/ \E c \in Conns : Frame(c)
  BY <1>9 DEF Signal, Frame, TypeInv, Carried, Keeps, OnlyAsked
<1> QED
  BY <1>1, <1>2, <1>3, <1>5, <1>6, <1>7, <1>8, <1>9 DEF ServerNext, Handler

(* An abort, an answer taken or a failure in the tab.                       *)
LEMMA LeftKeeps ==
  ASSUME TypeInv, NEW c \in Conns, conn' = [conn EXCEPT ![c] = Left(c)], created' = created
  PROVE  Carried /\ ~conn'[c].here /\ \A d \in Conns \ {c} : conn'[d] = conn[d]
BY LeftIs DEF TypeInv, Carried, Keeps, OnlyAsked

LEMMA AbortedIs ==
  ASSUME TypeInv
  PROVE  /\ aborted \in [Conns -> Conn]
         /\ \A d \in Conns :
              /\ \/ aborted[d].kind = "none"
                 \/ /\ aborted[d].kind = conn[d].kind /\ aborted[d].from = conn[d].from
                    /\ aborted[d].task = conn[d].task /\ (aborted[d].here => conn[d].here)
              /\ aborted[d].kind = "console" => ~aborted[d].here
              /\ aborted[d].at = conn[d].at \/ (conn[d].at = "closed" /\ aborted[d].at = "idle")
BY LeftIs DEF aborted, mine, TypeInv

(* Every handler of server and tab leaves a whole record in conn.           *)
LEMMA TypeInit == Init => TypeInv
<1> SUFFICES ASSUME Init PROVE TypeInv
  OBVIOUS
<1>1. conn \in [Conns -> Conn]
  BY NoConnType DEF Init, ServerInit
<1> QED
  BY <1>1 DEF Init, ConsoleInit, TypeInv, Asked, Text

LEMMA TypeStep == TypeInv /\ [Next]_vars => TypeInv'
<1> SUFFICES ASSUME TypeInv, [Next]_vars PROVE TypeInv'
  OBVIOUS
<1>1. CASE ServerNext /\ UNCHANGED tabVars
  BY <1>1, ServerKeeps DEF TypeInv, Carried, tabVars, formVars, linkVars
<1>2. ASSUME NEW c \in Conns, connect(c) PROVE TypeInv'
  <2>1. attempt + 1 \in Nat
    BY DEF TypeInv
  <2>2. Send("console", attempt + 1, <<>>) \in Conn
    BY <2>1, SendType
  <2>3. aborted \in [Conns -> Conn]
    BY AbortedIs
  <2> QED
    BY <1>2, <2>1, <2>2, <2>3 DEF connect, TypeInv, formVars
<1>3. CASE disconnect
  <2>1. aborted \in [Conns -> Conn]
    BY AbortedIs
  <2> QED
    BY <1>3, <2>1 DEF disconnect, TypeInv, formVars
<1>4. ASSUME NEW c \in Conns, streamOpened(c) \/ readFrame(c) PROVE TypeInv'
  BY <1>4 DEF streamOpened, readFrame, TypeInv, formVars, linkVars
<1>5. ASSUME NEW c \in Conns, streamFailed(c) PROVE TypeInv'
  BY <1>5, LeftIs DEF streamFailed, TypeInv, formVars, linkVars
<1>6. ASSUME NEW c \in Conns, submit(c) PROVE TypeInv'
  <2> DEFINE d == IF draft.title # field \/ draft.key = 0
                  THEN [title |-> field, key |-> keys + 1] ELSE draft
  <2>1. submitWith(c, d) /\ d \in Asked
    BY <1>6 DEF submit, TypeInv, Asked
  <2> HIDE DEF d
  <2>2. [key |-> d.key, title |-> field] \in Asked
    BY <2>1 DEF TypeInv, Asked
  <2>3. Send("create", 0, [key |-> d.key, title |-> field]) \in Conn
    BY <2>2, SendType
  <2> QED
    BY <2>1, <2>3 DEF submitWith, TypeInv, Asked, linkVars
<1>7. ASSUME NEW c \in Conns, createAnswered(c) PROVE TypeInv'
  BY <1>7, LeftIs DEF createAnswered, TypeInv, linkVars, Asked, Text
<1>8. ASSUME NEW c \in Conns, createFailed(c) PROVE TypeInv'
  BY <1>8, LeftIs DEF createFailed, TypeInv, formVars, linkVars
<1>9. ASSUME NEW t \in Titles, typeTitle(t) PROVE TypeInv'
  BY <1>9 DEF typeTitle, TypeInv, linkVars, Text
<1>10. CASE UNCHANGED vars
  BY <1>10 DEF vars, serverVars, tabVars, formVars, linkVars, TypeInv
<1> QED
  BY <1>1, <1>2, <1>3, <1>4, <1>5, <1>6, <1>7, <1>8, <1>9, <1>10 DEF Next, TabNext

LEMMA Typed == Spec => []TypeInv
BY TypeInit, TypeStep, PTL DEF Spec

-----------------------------------------------------------------------------
(* Slots.                                                                   *)

Served == {c \in Conns : serving(c)}
Streaming == {c \in Conns : conn[c].at = "streaming"}
LEMMA FiniteParts == IsFiniteSet(Served) /\ IsFiniteSet(Streaming)
BY FS_Subset, ServerAssumption DEF Served, Streaming

(* A step that leaves every connection in the same kind of place.           *)
LEMMA SlotsKept ==
  ASSUME SlotsBalanced, requests' = requests, streams' = streams,
         \A c \in Conns : /\ serving(c)' <=> serving(c)
                          /\ conn'[c].at = "streaming" <=> conn[c].at = "streaming"
  PROVE  SlotsBalanced'
<1>1. Served' = Served /\ Streaming' = Streaming
  BY DEF Served, Streaming
<1> QED
  BY <1>1 DEF SlotsBalanced, Served, Streaming

(* A step that moves connection c alone.                                    *)
LEMMA SlotTaken ==
  ASSUME SlotsBalanced, NEW c \in Conns, requests \in Nat, streams \in Nat,
         \A d \in Conns \ {c} : conn'[d].at = conn[d].at,
         ~serving(c), conn[c].at # "streaming",
         \/ /\ serving(c)' /\ conn'[c].at # "streaming"
            /\ requests < MaxRequests /\ requests' = requests + 1 /\ streams' = streams
         \/ /\ conn'[c].at = "streaming"
            /\ streams < MaxStreams /\ streams' = streams + 1 /\ requests' = requests
  PROVE  SlotsBalanced'
<1>1. requests = Cardinality(Served) /\ streams = Cardinality(Streaming)
  BY DEF SlotsBalanced, Served, Streaming
<1>2. c \notin Served /\ c \notin Streaming
  BY DEF Served, Streaming
<1>3. /\ Cardinality(Served \cup {c}) = Cardinality(Served) + 1
      /\ Cardinality(Streaming \cup {c}) = Cardinality(Streaming) + 1
  BY <1>2, FiniteParts, FS_AddElement
<1>4. CASE serving(c)' /\ conn'[c].at # "streaming"
  <2>1. Served' = Served \cup {c} /\ Streaming' = Streaming
    BY <1>4 DEF Served, Streaming, serving
  <2>2. requests < MaxRequests /\ requests' = requests + 1 /\ streams' = streams
    BY <1>4 DEF serving
  <2>3. requests' = Cardinality(Served') /\ streams' = Cardinality(Streaming')
    BY <2>1, <2>2, <1>1, <1>3
  <2>4. requests' <= MaxRequests /\ streams' <= MaxStreams
    BY <2>2, ServerAssumption DEF SlotsBalanced
  <2> QED
    BY <2>3, <2>4 DEF SlotsBalanced, Served, Streaming
<1>5. CASE conn'[c].at = "streaming"
  <2>1. Streaming' = Streaming \cup {c} /\ Served' = Served
    BY <1>5 DEF Served, Streaming, serving
  <2>2. streams < MaxStreams /\ streams' = streams + 1 /\ requests' = requests
    BY <1>5 DEF serving
  <2>3. requests' = Cardinality(Served') /\ streams' = Cardinality(Streaming')
    BY <2>1, <2>2, <1>1, <1>3
  <2>4. requests' <= MaxRequests /\ streams' <= MaxStreams
    BY <2>2, ServerAssumption DEF SlotsBalanced
  <2> QED
    BY <2>3, <2>4 DEF SlotsBalanced, Served, Streaming
<1> QED
  BY <1>4, <1>5

LEMMA SlotReturned ==
  ASSUME SlotsBalanced, NEW c \in Conns, requests \in Nat, streams \in Nat,
         \A d \in Conns \ {c} : conn'[d].at = conn[d].at,
         ~serving(c)', conn'[c].at # "streaming",
         \/ serving(c) /\ requests' = requests - 1 /\ streams' = streams
         \/ conn[c].at = "streaming" /\ streams' = streams - 1 /\ requests' = requests
  PROVE  SlotsBalanced' /\ requests' \in Nat /\ streams' \in Nat
<1>1. requests = Cardinality(Served) /\ streams = Cardinality(Streaming)
  BY DEF SlotsBalanced, Served, Streaming
<1>2. /\ IsFiniteSet(Served \ {c}) /\ IsFiniteSet(Streaming \ {c})
      /\ c \in Served => Cardinality(Served \ {c}) = Cardinality(Served) - 1
      /\ c \in Streaming => Cardinality(Streaming \ {c}) = Cardinality(Streaming) - 1
  BY FiniteParts, FS_RemoveElement
<1>3. Cardinality(Served \ {c}) \in Nat /\ Cardinality(Streaming \ {c}) \in Nat
  BY <1>2, FS_CardinalityType
<1>4. CASE serving(c)
  <2>1. c \in Served /\ Served' = Served \ {c} /\ Streaming' = Streaming
    BY <1>4 DEF Served, Streaming, serving
  <2>2. requests' = requests - 1 /\ streams' = streams
    BY <1>4 DEF serving
  <2>3. requests' = Cardinality(Served') /\ streams' = Cardinality(Streaming')
    BY <2>1, <2>2, <1>1, <1>2
  <2>4. /\ requests' <= MaxRequests /\ streams' <= MaxStreams
        /\ requests' \in Nat /\ streams' \in Nat
    BY <2>1, <2>2, <2>3, <1>3, ServerAssumption DEF SlotsBalanced
  <2> QED
    BY <2>3, <2>4 DEF SlotsBalanced, Served, Streaming
<1>5. CASE conn[c].at = "streaming"
  <2>1. c \in Streaming /\ Streaming' = Streaming \ {c} /\ Served' = Served
    BY <1>5 DEF Served, Streaming, serving
  <2>2. streams' = streams - 1 /\ requests' = requests
    BY <1>5 DEF serving
  <2>3. requests' = Cardinality(Served') /\ streams' = Cardinality(Streaming')
    BY <2>1, <2>2, <1>1, <1>2
  <2>4. /\ requests' <= MaxRequests /\ streams' <= MaxStreams
        /\ requests' \in Nat /\ streams' \in Nat
    BY <2>1, <2>2, <2>3, <1>3, ServerAssumption DEF SlotsBalanced
  <2> QED
    BY <2>3, <2>4 DEF SlotsBalanced, Served, Streaming
<1> QED
  BY <1>4, <1>5
LEMMA SlotInit == Init => SlotInv
<1> SUFFICES ASSUME Init PROVE SlotInv
  OBVIOUS
<1>1. Served = {} /\ Streaming = {}
  BY DEF Init, ServerInit, Served, Streaming, serving, NoConn
<1>2. Cardinality(Served) = 0 /\ Cardinality(Streaming) = 0
  BY <1>1, FS_EmptySet
<1> QED
  BY <1>2, ServerAssumption DEF Init, ServerInit, SlotInv, SlotsBalanced, Served, Streaming

(* An answer ends a request or a stream, or leaves one that had no slot.    *)
LEMMA ReplyReturns ==
  ASSUME TypeInv, NEW c \in Conns, NEW status \in Nat, reply(c, status)
  PROVE  /\ \A d \in Conns \ {c} : conn'[d].at = conn[d].at
         /\ ~serving(c)' /\ conn'[c].at # "streaming"
BY ReplyIs DEF serving

(* One token is taken by each admission, one is given back by each end, and *)
(* whatever the tab does moves none.                                        *)
LEMMA SlotStep == TypeInv /\ SlotInv /\ [Next]_vars => SlotInv'
<1> SUFFICES ASSUME TypeInv, SlotInv, [Next]_vars PROVE SlotInv'
  OBVIOUS
<1>a. SlotsBalanced /\ requests \in Nat /\ streams \in Nat
  BY DEF SlotInv
<1>1. ASSUME requests' = requests, streams' = streams,
             \A d \in Conns : conn'[d].at = conn[d].at
                \/ (conn[d].at \in {"idle", "arrived", "closed"} /\ conn'[d].at \in {"idle", "arrived", "closed"})
                \/ (serving(d) /\ conn'[d].at = "committed")
      PROVE  SlotInv'
  <2>1. \A d \in Conns : /\ serving(d)' <=> serving(d)
                         /\ conn'[d].at = "streaming" <=> conn[d].at = "streaming"
    BY <1>1 DEF serving
  <2> QED
    BY <2>1, <1>1, <1>a, SlotsKept DEF SlotInv
<1>2. ASSUME NEW c \in Conns, OtherRead(c) \/ Admit(c) PROVE SlotInv'
  <2>1. /\ \A d \in Conns \ {c} : conn'[d].at = conn[d].at
        /\ conn[c].at \in {"idle", "arrived"} /\ conn'[c].at = "serving"
        /\ requests < MaxRequests /\ requests' = requests + 1 /\ streams' = streams
    BY <1>2 DEF OtherRead, Admit, idle, Send, TypeInv, Conn
  <2>2. SlotsBalanced'
    BY <2>1, <1>a, SlotTaken DEF serving
  <2> QED
    BY <2>1, <2>2, <1>a DEF SlotInv
<1>3. ASSUME NEW c \in Conns, OtherStream(c) \/ openStream(c) PROVE SlotInv'
  <2>1. /\ \A d \in Conns \ {c} : conn'[d].at = conn[d].at
        /\ conn[c].at \in {"idle", "arrived"} /\ conn'[c].at = "streaming"
        /\ streams < MaxStreams /\ streams' = streams + 1 /\ requests' = requests
    BY <1>3 DEF OtherStream, openStream, idle, Send, TypeInv, Conn
  <2>2. SlotsBalanced'
    BY <2>1, <1>a, SlotTaken DEF serving
  <2> QED
    BY <2>1, <2>2, <1>a DEF SlotInv
<1>4. ASSUME NEW c \in Conns, Answer(c) \/ fail(c) PROVE SlotInv'
  <2>1. PICK status \in Nat : reply(c, status)
    BY <1>4 DEF Answer, fail
  <2>2. serving(c) /\ requests' = requests - 1 /\ streams' = streams
    BY <1>4 DEF Answer, fail, serving
  <2> QED
    BY <2>1, <2>2, <1>a, ReplyReturns, SlotReturned DEF SlotInv
<1>5. ASSUME NEW c \in Conns, endStream(c) PROVE SlotInv'
  <2>1. PICK status \in Nat : reply(c, status)
    BY <1>5 DEF endStream
  <2>2. conn[c].at = "streaming" /\ streams' = streams - 1 /\ requests' = requests
    BY <1>5 DEF endStream
  <2> QED
    BY <2>1, <2>2, <1>a, ReplyReturns, SlotReturned DEF SlotInv
<1>6. ASSUME NEW c \in Conns, Refuse(c) PROVE SlotInv'
  <2>1. PICK status \in Nat : reply(c, status)
    BY <1>6 DEF Refuse
  <2>2. conn[c].at = "arrived" /\ requests' = requests /\ streams' = streams
    BY <1>6 DEF Refuse
  <2> QED
    BY <2>1, <2>2, <1>1, ReplyIs
<1>7. ASSUME NEW c \in Conns, Commit(c) PROVE SlotInv'
  <2>1. /\ \A d \in Conns \ {c} : conn'[d].at = conn[d].at
        /\ conn[c].at = "serving" /\ conn'[c].at = "committed"
        /\ requests' = requests /\ streams' = streams
    BY <1>7 DEF Commit, TypeInv, Conn
  <2> QED
    BY <2>1, <1>1 DEF serving
<1>8. ASSUME NEW c \in Conns, requests' = requests, streams' = streams,
             conn' = [conn EXCEPT ![c] = Left(c)]
      PROVE  SlotInv'
  BY <1>8, <1>1, LeftIs DEF TypeInv
<1>9. ASSUME NEW c \in Conns, connect(c) PROVE SlotInv'
  <2>1. conn' = [aborted EXCEPT ![c] = Send("console", attempt + 1, <<>>)] /\ idle(c)
    BY <1>9 DEF connect
  <2>2. \A d \in Conns \ {c} : conn'[d] = aborted[d]
    BY <2>1, AbortedIs
  <2>3. conn'[c].at = "arrived" /\ conn[c].at = "idle"
    BY <2>1, AbortedIs DEF Send, idle
  <2> QED
    BY <1>1, <1>9, <2>2, <2>3, AbortedIs DEF connect, noServer
<1>10. CASE disconnect
  BY <1>10, <1>1, AbortedIs DEF disconnect, noServer
<1>11. ASSUME NEW c \in Conns, submit(c) PROVE SlotInv'
  <2>1. PICK d : submitWith(c, d)
    BY <1>11 DEF submit
  <2>2. /\ \A e \in Conns \ {c} : conn'[e] = conn[e]
        /\ conn'[c].at = "arrived" /\ conn[c].at = "idle"
        /\ requests' = requests /\ streams' = streams
    BY <2>1 DEF submitWith, TypeInv, Send, idle, noServer
  <2> QED
    BY <1>1, <2>2
<1>12. ASSUME NEW c \in Conns,
              streamFailed(c) \/ createAnswered(c) \/ createFailed(c) \/ OtherLeaves(c)
       PROVE  SlotInv'
  BY <1>8, <1>12 DEF streamFailed, createAnswered, createFailed, OtherLeaves, noServer
<1>13. ASSUME UNCHANGED <<conn, requests, streams>> PROVE SlotInv'
  BY <1>1, <1>13
<1>14. ASSUME NEW c \in Conns, streamOpened(c) \/ readFrame(c) \/ Frame(c) PROVE SlotInv'
  BY <1>13, <1>14 DEF streamOpened, readFrame, Frame, noServer
<1>15. CASE Signal \/ (\E t \in Titles : typeTitle(t)) \/ UNCHANGED vars
  BY <1>13, <1>15 DEF Signal, typeTitle, noServer, vars, serverVars
<1> QED
  BY <1>2, <1>3, <1>4, <1>5, <1>6, <1>7, <1>9, <1>10, <1>11, <1>12, <1>14, <1>15
     DEF Next, TabNext, ServerNext, Handler

(* SlotsBalanced: the tokens in the two channels of server.go are, at every *)
(* moment, the requests being served and the streams open, never more than  *)
(* the limits, whoever leaves, fails, times out or shuts down.              *)
THEOREM SlotsSafe == Spec => []SlotsBalanced
<1>1. SlotInv => SlotsBalanced
  BY DEF SlotInv
<1> QED
  BY <1>1, SlotInit, SlotStep, Typed, PTL DEF Spec

-----------------------------------------------------------------------------
(* The fence.                                                               *)

LEMMA FenceInit == Init => FenceInv
<1> SUFFICES ASSUME Init PROVE FenceInv
  OBVIOUS
<1>1. attempt = 0 /\ cleared = 0 /\ view = 0
  BY DEF Init, ConsoleInit
<1>2. \A c \in Conns : ~mine(c)
  BY DEF Init, ServerInit, mine, NoConn
<1> QED
  BY <1>1, <1>2 DEF FenceInv, NoLateFrame

(* The one step that shows something shows the current attempt, and no      *)
(* stream carries the number of a disconnect.                               *)
LEMMA FenceStep == TypeInv /\ FenceInv /\ [Next]_vars => FenceInv'
<1> SUFFICES ASSUME TypeInv, FenceInv, [Next]_vars PROVE FenceInv'
  OBVIOUS
<1>1. ASSUME UNCHANGED linkVars, \A d \in Conns : Keeps(d) \/ conn'[d].kind = "create"
      PROVE  FenceInv'
  BY <1>1 DEF FenceInv, NoLateFrame, mine, linkVars, Keeps
<1>2. CASE ServerNext /\ UNCHANGED tabVars
  BY <1>1, <1>2, ServerKeeps DEF Carried, tabVars
<1>3. ASSUME NEW c \in Conns, connect(c) PROVE FenceInv'
  <2>1. /\ attempt' = attempt + 1 /\ UNCHANGED <<view, cleared>>
        /\ conn' = [aborted EXCEPT ![c] = Send("console", attempt + 1, <<>>)]
    BY <1>3 DEF connect
  <2>2. conn'[c].from = attempt + 1 /\ \A d \in Conns \ {c} : conn'[d] = aborted[d]
    BY <2>1, AbortedIs DEF Send
  <2>3. \A d \in Conns \ {c} : conn'[d].kind = "console" => /\ conn[d].kind = "console"
                                                            /\ conn'[d].from = conn[d].from
    BY <2>2, AbortedIs
  <2>4. attempt \in Nat /\ cleared \in 0..attempt
    BY DEF TypeInv, FenceInv
  <2>5. ASSUME NEW d \in Conns, mine(d)' PROVE conn'[d].from \in 1..attempt' /\ conn'[d].from # cleared'
    <3>1. CASE d = c
      BY <3>1, <2>1, <2>2, <2>4
    <3>2. CASE d # c
      BY <3>2, <2>1, <2>3, <2>4, <2>5 DEF FenceInv, mine
    <3> QED
      BY <3>1, <3>2
  <2> QED
    BY <2>1, <2>4, <2>5 DEF FenceInv, NoLateFrame
<1>4. CASE disconnect
  <2>1. /\ attempt' = attempt + 1 /\ cleared' = attempt + 1 /\ view' = 0 /\ conn' = aborted
    BY <1>4 DEF disconnect, render
  <2>2. \A d \in Conns : conn'[d].kind = "console" => /\ conn[d].kind = "console"
                                                      /\ conn'[d].from = conn[d].from
    BY <2>1, AbortedIs
  <2> QED
    BY <2>1, <2>2 DEF FenceInv, NoLateFrame, mine, TypeInv
<1>5. ASSUME NEW c \in Conns, readFrame(c) PROVE FenceInv'
  BY <1>5 DEF readFrame, render, FenceInv, NoLateFrame, mine, TypeInv
<1>6. ASSUME NEW c \in Conns, streamFailed(c) \/ createAnswered(c) \/ createFailed(c)
      PROVE  FenceInv'
  <2>1. conn' = [conn EXCEPT ![c] = Left(c)] /\ created' = created /\ UNCHANGED linkVars
    BY <1>6 DEF streamFailed, createAnswered, createFailed, noServer
  <2> QED
    BY <1>1, <2>1, LeftKeeps DEF Carried
<1>7. ASSUME NEW c \in Conns, submit(c) PROVE FenceInv'
  <2>1. PICK d : submitWith(c, d)
    BY <1>7 DEF submit
  <2>2. /\ UNCHANGED linkVars /\ conn'[c].kind = "create"
        /\ \A e \in Conns \ {c} : conn'[e] = conn[e]
    BY <2>1 DEF submitWith, Send, TypeInv
  <2> QED
    BY <1>1, <2>2 DEF Keeps
<1>8. CASE UNCHANGED <<conn, linkVars>>
  BY <1>8, <1>1 DEF Keeps
<1>9. ASSUME NEW c \in Conns, streamOpened(c) PROVE FenceInv'
  BY <1>8, <1>9 DEF streamOpened
<1>10. CASE (\E t \in Titles : typeTitle(t)) \/ UNCHANGED vars
  BY <1>8, <1>10 DEF typeTitle, vars, serverVars, tabVars
<1> QED
  BY <1>2, <1>3, <1>4, <1>5, <1>6, <1>7, <1>9, <1>10 DEF Next, TabNext

(* NoLateFrame: nothing that was received on a connection opened before a   *)
(* disconnect is shown after it, however late its frames are read: the      *)
(* comparison with attempt in connect of app.ts is enough.                  *)
THEOREM FenceSafe == Spec => []NoLateFrame
<1>1. FenceInv => NoLateFrame
  BY DEF FenceInv
<1> QED
  BY <1>1, FenceInit, FenceStep, Typed, PTL DEF Spec

-----------------------------------------------------------------------------
(* Types of the tab, and the key of the form.                               *)

LEMMA TabInit == Init => TabInv
<1> SUFFICES ASSUME Init PROVE TabInv
  OBVIOUS
<1>1. field = "" /\ seen = {} /\ created = {}
  BY DEF Init, ServerInit, ConsoleInit
<1>a. attempt = 0 /\ keys = 0 /\ draft.key = 0
  BY DEF Init, ConsoleInit
<1>2. attempt \in 0..MaxAttempts /\ keys \in 0..MaxKeys /\ draft.key \in 0..keys
  BY <1>a, ConsoleAssumption
<1>3. \A c \in Conns : conn[c].kind = "none"
  BY DEF Init, ServerInit, NoConn
<1> QED
  BY <1>1, <1>2, <1>3 DEF TabInv, TypeOK, SentTypes, mine

(* The counters of TypeOK by themselves.                                    *)
LEMMA Counters ==
  ASSUME TypeInv, TabInv
  PROVE  /\ attempt \in 0..MaxAttempts /\ keys \in 0..MaxKeys /\ keys \in Nat
         /\ draft \in Asked /\ draft.key \in 0..keys
         /\ \A t \in created : t.key \in 1..keys /\ t.title \in Titles
BY Zenon DEF TypeInv, TabInv, TypeOK

(* Two keys, titles or streams are only ever told apart by what the tab has *)
(* drawn, typed or opened itself.                                           *)
LEMMA TabStep == TypeInv /\ TabInv /\ [Next]_vars => TabInv'
<1> SUFFICES ASSUME TypeInv, TabInv, [Next]_vars PROVE TabInv'
  OBVIOUS
<1>1. ASSUME Carried, attempt' = attempt, UNCHANGED <<keys, draft, field, seen>>
      PROVE  TabInv'
  BY <1>1 DEF TabInv, TypeOK, SentTypes, Carried, OnlyAsked, Keeps, mine
<1>2. CASE ServerNext /\ UNCHANGED tabVars
  BY <1>1, <1>2, ServerKeeps DEF tabVars, formVars, linkVars
<1>3. ASSUME NEW c \in Conns, connect(c) PROVE TabInv'
  <2>1. /\ attempt' = attempt + 1 /\ attempt < MaxAttempts
        /\ UNCHANGED <<keys, draft, field, seen, created>>
        /\ conn' = [aborted EXCEPT ![c] = Send("console", attempt + 1, <<>>)]
    BY <1>3 DEF connect, noServer, formVars
  <2>2. conn'[c].kind = "console" /\ \A d \in Conns \ {c} : conn'[d] = aborted[d]
    BY <2>1, AbortedIs DEF Send
  <2>3. \A d \in Conns \ {c} : /\ conn'[d].kind = "console" => ~conn'[d].here
                               /\ conn'[d].kind = "create" => /\ conn[d].kind = "create"
                                                              /\ conn'[d].task = conn[d].task
    BY <2>2, AbortedIs
  <2>4. attempt' \in 0..MaxAttempts
    BY <2>1, Counters, ConsoleAssumption
  <2>5. SentTypes'
    BY <2>1, <2>2, <2>3 DEF TabInv, SentTypes
  <2>6. \A d, e \in Conns : (mine(d) /\ mine(e) /\ conn[d].here /\ conn[e].here)' => d = e
    BY <2>3 DEF mine
  <2> QED
    BY <2>1, <2>4, <2>5, <2>6 DEF TabInv, TypeOK
<1>4. CASE disconnect
  <2>1. /\ attempt' = attempt + 1 /\ attempt < MaxAttempts
        /\ UNCHANGED <<keys, draft, field, seen, created>> /\ conn' = aborted
    BY <1>4 DEF disconnect, noServer, formVars
  <2>2. \A d \in Conns : /\ conn'[d].kind = "console" => ~conn'[d].here
                         /\ conn'[d].kind = "create" => /\ conn[d].kind = "create"
                                                        /\ conn'[d].task = conn[d].task
    BY <2>1, AbortedIs
  <2>3. attempt' \in 0..MaxAttempts
    BY <2>1, Counters, ConsoleAssumption
  <2>4. SentTypes'
    BY <2>1, <2>2 DEF TabInv, SentTypes
  <2>5. \A d, e \in Conns : (mine(d) /\ mine(e) /\ conn[d].here /\ conn[e].here)' => d = e
    BY <2>2 DEF mine
  <2> QED
    BY <2>1, <2>3, <2>4, <2>5 DEF TabInv, TypeOK
<1>5. ASSUME NEW c \in Conns, streamFailed(c) \/ createFailed(c) PROVE TabInv'
  <2>1. /\ conn' = [conn EXCEPT ![c] = Left(c)] /\ created' = created
        /\ UNCHANGED <<attempt, keys, draft, field, seen>>
    BY <1>5 DEF streamFailed, createFailed, noServer, linkVars, formVars
  <2> QED
    BY <1>1, <2>1, LeftKeeps
<1>6. ASSUME NEW c \in Conns, createAnswered(c) PROVE TabInv'
  <2>1. /\ conn' = [conn EXCEPT ![c] = Left(c)] /\ UNCHANGED <<created, attempt, keys>>
        /\ draft' = [draft EXCEPT !.key = 0] /\ field' = ""
        /\ seen' = seen \cup {conn[c].task.title} /\ pending(c)
    BY <1>6 DEF createAnswered, noServer, linkVars
  <2>2. draft'.key = 0 /\ conn[c].task.title \in Titles
    BY <2>1 DEF TypeInv, Asked, TabInv, SentTypes, pending
  <2>3. Carried
    BY <2>1, LeftKeeps
  <2>4. SentTypes'
    BY <2>1, <2>3 DEF TabInv, SentTypes, Carried, Keeps
  <2>5. \A d, e \in Conns : (mine(d) /\ mine(e) /\ conn[d].here /\ conn[e].here)' => d = e
    BY <2>3 DEF mine, Carried, Keeps, TabInv, TypeOK
  <2>6. keys \in Nat /\ keys \in 0..MaxKeys
    BY DEF TypeInv, TabInv, TypeOK
  <2>7. 0 \in 0..keys
    BY <2>6
  <2>8. field' \in Titles \cup {""} /\ seen' \subseteq Titles
    BY <2>1, <2>2 DEF TabInv, TypeOK
  <2> QED
    BY <2>1, <2>2, <2>4, <2>5, <2>6, <2>7, <2>8 DEF TabInv, TypeOK
<1>7. ASSUME NEW c \in Conns, submit(c) PROVE TabInv'
  <2> DEFINE d == IF draft.title # field \/ draft.key = 0
                  THEN [title |-> field, key |-> keys + 1] ELSE draft
  <2>1. submitWith(c, d)
    BY <1>7 DEF submit
  <2>2. keys \in Nat /\ keys <= MaxKeys /\ draft \in Asked /\ draft.key \in 0..keys
    BY Counters, ConsoleAssumption
  <2>3. d.key \in 1..(keys + 1) /\ d.key \in Nat
    BY <2>2 DEF Asked
  <2> HIDE DEF d
  <2>4. keys' \in Nat /\ keys <= keys' /\ d.key \in 1..keys' /\ keys' <= MaxKeys
    <3>1. d.key <= MaxKeys /\ keys' = (IF d.key > keys THEN d.key ELSE keys)
      BY <2>1 DEF submitWith
    <3> QED
      BY <3>1, <2>2, <2>3, ConsoleAssumption
  <2>5. /\ conn'[c].kind = "create" /\ conn'[c].task = [key |-> d.key, title |-> field]
        /\ \A e \in Conns \ {c} : conn'[e] = conn[e]
    BY <2>1 DEF submitWith, Send, TypeInv
  <2>6. field \in Titles
    BY <2>1 DEF submitWith, TabInv, TypeOK
  <2>7. SentTypes'
    <3> SUFFICES ASSUME NEW e \in Conns, conn'[e].kind = "create"
                 PROVE  conn'[e].task.key \in 1..keys' /\ conn'[e].task.title \in Titles
      BY DEF SentTypes
    <3>1. CASE e = c
      BY <3>1, <2>4, <2>5, <2>6
    <3>2. CASE e # c
      BY <3>2, <2>2, <2>4, <2>5 DEF TabInv, SentTypes
    <3> QED
      BY <3>1, <3>2
  <2>8. \A a, b \in Conns : (mine(a) /\ mine(b) /\ conn[a].here /\ conn[b].here)' => a = b
    BY <2>5 DEF mine, TabInv, TypeOK
  <2>9. /\ UNCHANGED <<attempt, field, seen, created>> /\ draft' = d
    BY <2>1 DEF submitWith, noServer, linkVars
  <2>10. \A t \in created' : t.key \in 1..keys' /\ t.title \in Titles
    BY <2>2, <2>4, <2>9, Counters
  <2>11. keys' \in 0..MaxKeys /\ draft'.key \in 0..keys'
    BY <2>4, <2>9, ConsoleAssumption
  <2> QED
    BY <2>7, <2>8, <2>9, <2>10, <2>11 DEF TabInv, TypeOK
<1>8. ASSUME NEW c \in Conns, streamOpened(c) \/ readFrame(c) PROVE TabInv'
  <2>1. UNCHANGED <<conn, created, attempt, keys, draft, field, seen>>
    BY <1>8 DEF streamOpened, readFrame, noServer, linkVars, formVars
  <2> QED
    BY <2>1 DEF TabInv, TypeOK, SentTypes, mine
<1>9. ASSUME NEW t \in Titles, typeTitle(t) PROVE TabInv'
  <2>1. UNCHANGED <<conn, created, attempt, keys, draft, seen>> /\ field' = t
    BY <1>9 DEF typeTitle, noServer, linkVars
  <2> QED
    BY <2>1 DEF TabInv, TypeOK, SentTypes, mine
<1>10. CASE UNCHANGED vars
  BY <1>10 DEF vars, serverVars, tabVars, formVars, linkVars, TabInv, TypeOK, SentTypes, mine
<1> QED
  BY <1>2, <1>3, <1>4, <1>5, <1>6, <1>7, <1>8, <1>9, <1>10 DEF Next, TabNext

(* TypeOK: the counters of app.ts stay in their ranges, every task in the   *)
(* store has a key the tab drew and a title that was typed, and the tab     *)
(* never has two streams that are not aborted.                              *)
THEOREM TabTyped == Spec => []TypeOK
<1>1. TabInv => TypeOK
  BY DEF TabInv
<1> QED
  BY <1>1, TabInit, TabStep, Typed, PTL DEF Spec

-----------------------------------------------------------------------------
(* One task per title.                                                      *)

LEMMA FormInit == Init => FormInv
<1> SUFFICES ASSUME Init PROVE FormInv
  OBVIOUS
<1>1. \A c \in Conns : conn[c].kind = "none"
  BY DEF Init, ServerInit, NoConn
<1>2. created = {} /\ field = ""
  BY DEF Init, ServerInit, ConsoleInit
<1>3. Sent = {} /\ \A c \in Conns : ~pending(c)
  BY <1>1, <1>2 DEF Sent, pending
<1> QED
  BY <1>2, <1>3 DEF FormInv

(* A step that only carries requests on asks for nothing new.               *)
LEMMA CarriedSent ==
  ASSUME Carried
  PROVE  Sent' \subseteq Sent /\ \A c \in Conns : pending(c)' => pending(c) /\ conn'[c].task = conn[c].task
BY DEF Carried, OnlyAsked, Keeps, Sent, pending

(* The key changes only when the draft was answered, and its title is then  *)
(* never typed again, or when the operator strays.                          *)
LEMMA FormStep == TypeInv /\ FormInv /\ [Next]_vars => FormInv'
<1> SUFFICES ASSUME TypeInv, FormInv, [Next]_vars PROVE FormInv'
  OBVIOUS
<1>1. ASSUME Sent' \subseteq Sent,
             \A c \in Conns : pending(c)' => pending(c) /\ conn'[c].task = conn[c].task,
             UNCHANGED <<draft, field, seen, strayed>>
      PROVE  FormInv'
  BY <1>1 DEF FormInv
<1>2. CASE ServerNext /\ UNCHANGED tabVars
  BY <1>1, <1>2, ServerKeeps, CarriedSent DEF tabVars, formVars
<1>3. ASSUME NEW c \in Conns, connect(c) PROVE FormInv'
  <2>1. /\ UNCHANGED <<draft, field, seen, strayed, created>>
        /\ conn' = [aborted EXCEPT ![c] = Send("console", attempt + 1, <<>>)]
    BY <1>3 DEF connect, noServer, formVars
  <2>2. conn'[c].kind = "console" /\ \A d \in Conns \ {c} : conn'[d] = aborted[d]
    BY <2>1, AbortedIs DEF Send
  <2>3. \A d \in Conns : conn'[d].kind = "create" =>
           /\ conn[d].kind = "create" /\ conn'[d].task = conn[d].task
           /\ conn'[d].here => conn[d].here
    BY <2>2, AbortedIs
  <2> QED
    BY <1>1, <2>1, <2>3 DEF Sent, pending
<1>4. CASE disconnect
  <2>1. UNCHANGED <<draft, field, seen, strayed, created>> /\ conn' = aborted
    BY <1>4 DEF disconnect, noServer, formVars
  <2>2. \A d \in Conns : conn'[d].kind = "create" =>
           /\ conn[d].kind = "create" /\ conn'[d].task = conn[d].task
           /\ conn'[d].here => conn[d].here
    BY <2>1, AbortedIs
  <2> QED
    BY <1>1, <2>1, <2>2 DEF Sent, pending
<1>5. ASSUME NEW c \in Conns, streamFailed(c) \/ createFailed(c) PROVE FormInv'
  <2>1. /\ conn' = [conn EXCEPT ![c] = Left(c)] /\ created' = created
        /\ UNCHANGED <<draft, field, seen, strayed>>
    BY <1>5 DEF streamFailed, createFailed, noServer, formVars
  <2> QED
    BY <1>1, <2>1, LeftKeeps, CarriedSent
<1>6. ASSUME NEW c \in Conns, createAnswered(c) PROVE FormInv'
  <2>1. /\ conn' = [conn EXCEPT ![c] = Left(c)] /\ UNCHANGED <<created, strayed>>
        /\ field' = "" /\ seen' = seen \cup {conn[c].task.title} /\ pending(c)
    BY <1>6 DEF createAnswered, noServer
  <2>2. /\ Sent' \subseteq Sent
        /\ \A d \in Conns : pending(d)' => pending(d) /\ d # c
    BY <2>1, LeftKeeps, CarriedSent DEF pending
  <2> SUFFICES ASSUME ~strayed
               PROVE  /\ \A t, u \in Sent : t.title = u.title => t = u
                      /\ \A t \in Sent : t.title \in seen'
                      /\ \A d \in Conns : ~pending(d)'
    BY <2>1, <2>2 DEF FormInv
  <2>3. draft.key # 0 /\ conn[c].task = draft
    BY <2>1 DEF FormInv
  <2>4. \A t \in Sent : t.title \in seen'
    BY <2>1, <2>3 DEF FormInv
  <2>5. ASSUME NEW d \in Conns, pending(d)' PROVE FALSE
    BY <2>1, <2>2, <2>5 DEF FormInv
  <2> QED
    BY <2>4, <2>5 DEF FormInv
<1>7. ASSUME NEW c \in Conns, submit(c) PROVE FormInv'
  <2> DEFINE d == IF draft.title # field \/ draft.key = 0
                  THEN [title |-> field, key |-> keys + 1] ELSE draft
             new == [key |-> d.key, title |-> field]
  <2>1. submitWith(c, d)
    BY <1>7 DEF submit
  <2>2. d \in Asked /\ d.title = field /\ d.key # 0
    BY DEF TypeInv, Asked
  <2>3. new = d
    BY <2>2 DEF Asked
  <2>4. d = draft \/ draft.key = 0 \/ draft.title # field
    OBVIOUS
  <2> HIDE DEF d, new
  <2>5. /\ conn'[c].kind = "create" /\ conn'[c].task = new
        /\ \A e \in Conns \ {c} : conn'[e] = conn[e]
        /\ conn[c].at = "idle"
    BY <2>1 DEF submitWith, Send, TypeInv, idle, new
  <2>6. /\ draft' = d /\ UNCHANGED <<created, field, seen>> /\ field # ""
        /\ ~strayed' => /\ ~strayed /\ \A o \in Conns : ~pending(o)
                        /\ draft.key = 0 \/ draft.title = field
    BY <2>1 DEF submitWith, noServer
  <2>7. Sent' \subseteq Sent \cup {d}
    BY <2>3, <2>5, <2>6 DEF Sent
  <2>8. \A e \in Conns : pending(e)' => e = c \/ pending(e)
    BY <2>5 DEF pending
  <2> SUFFICES ASSUME ~strayed'
               PROVE  /\ \A t, u \in Sent' : t.title = u.title => t = u
                      /\ \A t \in Sent' : t.title \in seen \/ t = d
                      /\ \A e \in Conns : pending(e)' => conn'[e].task = d
                      /\ \A a, b \in Conns : pending(a)' /\ pending(b)' => a = b
    BY <2>2, <2>6 DEF FormInv
  <2>9. \A t \in Sent : t.title \in seen \/ t = d
    BY <2>4, <2>6 DEF FormInv
  <2>10. field \notin seen
    BY <2>6 DEF FormInv
  <2>11. \A t, u \in Sent' : t.title = u.title => t = u
    BY <2>2, <2>6, <2>7, <2>9, <2>10 DEF FormInv
  <2>12. \A t \in Sent' : t.title \in seen \/ t = d
    BY <2>7, <2>9
  <2>13. \A e \in Conns : pending(e)' => e = c
    BY <2>6, <2>8
  <2> QED
    BY <2>3, <2>5, <2>11, <2>12, <2>13
<1>8. ASSUME NEW c \in Conns, streamOpened(c) \/ readFrame(c) PROVE FormInv'
  <2>1. UNCHANGED <<conn, created, draft, field, seen, strayed>>
    BY <1>8 DEF streamOpened, readFrame, noServer, formVars
  <2>2. Sent' = Sent /\ \A d \in Conns : pending(d)' <=> pending(d)
    BY <2>1 DEF Sent, pending
  <2> QED
    BY <1>1, <2>1, <2>2
<1>9. ASSUME NEW t \in Titles, typeTitle(t) PROVE FormInv'
  <2>1. UNCHANGED <<conn, created, draft, seen, strayed>> /\ field' = t /\ t \notin seen
    BY <1>9 DEF typeTitle, noServer
  <2>2. Sent' = Sent /\ \A d \in Conns : pending(d)' <=> pending(d)
    BY <2>1 DEF Sent, pending
  <2> QED
    BY <2>1, <2>2 DEF FormInv
<1>10. CASE UNCHANGED vars
  <2>1. UNCHANGED <<conn, created, draft, field, seen, strayed>>
    BY <1>10 DEF vars, serverVars, tabVars, formVars
  <2>2. Sent' = Sent /\ \A d \in Conns : pending(d)' <=> pending(d)
    BY <2>1 DEF Sent, pending
  <2> QED
    BY <1>1, <2>1, <2>2
<1> QED
  BY <1>2, <1>3, <1>4, <1>5, <1>6, <1>7, <1>8, <1>9, <1>10 DEF Next, TabNext

(* OneTaskPerTitle: a create whose answer was lost, timed out or came from  *)
(* a server that had committed it is sent again with the same request key,  *)
(* so that the operator gets one task for one title, unless two creates     *)
(* were in flight at once or a title was given up unanswered.               *)
THEOREM FormSafe == Spec => []OneTaskPerTitle
<1>1. FormInv => OneTaskPerTitle
  BY DEF FormInv, Sent, OneTaskPerTitle
<1> QED
  BY <1>1, FormInit, FormStep, Typed, PTL DEF Spec
=============================================================================
