--------------------------- MODULE SessionProofs ---------------------------
(***************************************************************************)
(* Proofs about Session: any number of clients, subscriptions, ports,      *)
(* crashes of the server and broken connections.                           *)
(***************************************************************************)
EXTENDS Session, TLAPS

\* Something of the subscription can still reach a client.
Heard(id) == sub[id].state # "gone" \/ id \in wire

\* A subscription that can be heard of has tickers, and its quotes go to the
\* port its client was started on.
Addressed == \A id \in Ids : /\ sub[id].port = sub[id].client
                             /\ Heard(id) => sub[id].want \in Wants

\* As long as no thread has panicked every stream has its monitor.
Watched == /\ panics \in Nat
           /\ panics = 0 => \A id \in Ids : sub[id].state # "unwatched"

\* The inductive form of OwnQuotes.  It adds what has not been received yet:
\* whatever can still be heard on the client's port is the client's own.  A
\* new client starts with it because the full wait leaves nothing on its port,
\* every stream having a monitor that ends it, and only
\* the client itself subscribes for that port while it runs.
OwnInv ==
    Wait = "full" /\ panics = 0 /\ cpc # "off" =>
        /\ got \subseteq {want}
        /\ src # None => sub[src].want = want
        /\ \A id \in Ids : Heard(id) /\ sub[id].port = port
                              => sub[id].want = want

SessionInv == TypeOK /\ Addressed /\ Watched /\ OwnInv

\* The invariant holds before anything has started.
LEMMA InitSession == Init => SessionInv
<1> SUFFICES ASSUME Init PROVE SessionInv
  OBVIOUS
<1> USE SessionAssumption
<1>1. sub \in [Ids -> Subscription] /\ \A id \in Ids : sub[id].state = "gone"
  BY DEF Init, Subscription
<1>2. TypeOK
  BY <1>1 DEF Init, TypeOK
<1>3. Addressed /\ Watched /\ OwnInv
  BY <1>1 DEF Init, Addressed, Heard, Watched, OwnInv
<1> QED
  BY <1>2, <1>3 DEF SessionInv

\* Steps that change neither a subscription's tickers, port or client nor the
\* client's arguments, and let nothing be heard that was not before.
LEMMA Quiet ==
    ASSUME SessionInv, TypeOK', got' = got, src' = src, want' = want,
           port' = port, cpc' # "off" => cpc # "off", Watched',
           panics' = 0 => panics = 0,
           \A id \in Ids : /\ sub'[id].want = sub[id].want
                           /\ sub'[id].port = sub[id].port
                           /\ sub'[id].client = sub[id].client
                           /\ Heard(id)' => Heard(id)
    PROVE  SessionInv'
BY DEF SessionInv, TypeOK, Addressed, OwnInv

\* Every step keeps it.
LEMMA NextSession == SessionInv /\ [Next]_vars => SessionInv'
<1> SUFFICES ASSUME SessionInv, [Next]_vars PROVE SessionInv'
  OBVIOUS
<1> USE SessionAssumption
<1>0. TypeOK /\ Addressed /\ Watched /\ OwnInv
  BY DEF SessionInv
<1> USE DEF vars, serverVars, argVars, listenVars, mainVars
<1>1. ASSUME NEW w \in Wants, NEW p \in Ports, ClientStart(w, p)
      PROVE  SessionInv'
  <2>1. TypeOK'
    BY <1>0, <1>1 DEF TypeOK, ClientStart
  <2>2. Addressed'
    BY <1>0, <1>1 DEF Addressed, Heard, ClientStart
  <2>3. Watched'
    BY <1>0, <1>1 DEF Watched, ClientStart
  <2>4. OwnInv'
    <3> SUFFICES ASSUME Wait = "full", panics' = 0 PROVE OwnInv'
      BY DEF OwnInv
    <3>1. panics = 0 /\ Outlasts = {"unwatched"} /\ Waited(p)
      BY <1>1 DEF ClientStart, Outlasts
    <3>2. \A id \in Ids : Heard(id) => sub[id].port # p
      BY <1>0, <3>1 DEF Watched, Addressed, Waited, Heard
    <3> QED
      BY <1>1, <3>2 DEF OwnInv, Heard, ClientStart
  <2> QED
    BY <2>1, <2>2, <2>3, <2>4 DEF SessionInv
<1>2. CASE ClientStops
  <2>1. TypeOK'
    BY <1>0, <1>2 DEF TypeOK, ClientStops
  <2>2. Watched'
    BY <1>0, <1>2 DEF Watched, ClientStops
  <2> QED
    BY <1>2, <2>1, <2>2, Quiet DEF ClientStops, Heard
<1>3. CASE ConnectFails \/ ReadAck \/ ReadErr \/ AnswerLost \/ Retry \/ Break
  <2> USE DEF ConnectFails, ReadAck, ReadErr, AnswerLost, Retry, Break
  <2>1. TypeOK'
    BY <1>0, <1>3 DEF TypeOK
  <2>2. Watched'
    BY <1>0, <1>3 DEF Watched
  <2> QED
    BY <1>3, <2>1, <2>2, Quiet DEF Heard
<1>4. CASE GiveUp \/ Leave
  <2>1. TypeOK'
    BY <1>0, <1>4 DEF TypeOK, GiveUp, Leave
  <2>2. Watched'
    BY <1>0, <1>4 DEF Watched, GiveUp, Leave
  <2> QED
    BY <1>4, <2>1, <2>2, Quiet DEF GiveUp, Leave, Heard
<1>5. ASSUME NEW id \in Ids, SendCommand(id) PROVE SessionInv'
  <2>1. /\ sub' = [sub EXCEPT ![id] = [state |-> "sent", want |-> want,
                                       port |-> port, client |-> port,
                                       answer |-> "none"]]
        /\ want \in Wants /\ port \in Ports /\ id # src /\ up
    BY <1>0, <1>5 DEF SendCommand, Free, TypeOK
  <2>2. sub' \in [Ids -> Subscription]
    BY <1>0, <2>1 DEF TypeOK, Subscription, Streaming
  <2>3. TypeOK'
    BY <1>0, <1>5, <2>1, <2>2 DEF TypeOK, SendCommand
  <2>4. Addressed'
    BY <1>0, <1>5, <2>1 DEF TypeOK, Addressed, Heard, SendCommand
  <2>5. OwnInv'
    BY <1>0, <1>5, <2>1 DEF TypeOK, OwnInv, Heard, SendCommand
  <2>6. Watched'
    BY <1>0, <1>5, <2>1 DEF TypeOK, Watched, SendCommand
  <2> QED
    BY <2>3, <2>4, <2>5, <2>6 DEF SessionInv
<1>6. ASSUME NEW id \in Ids, Recv(id) PROVE SessionInv'
  <2>1. sub[id].want \in Wants /\ Heard(id)
    BY <1>0, <1>6 DEF Addressed, Heard, Recv
  <2>2. TypeOK'
    BY <1>0, <1>6, <2>1 DEF TypeOK, Recv
  <2>3. Addressed'
    BY <1>0, <1>6 DEF Addressed, Heard, Recv
  <2>4. OwnInv'
    BY <1>0, <1>6, <2>1 DEF OwnInv, Heard, Recv
  <2>5. Watched'
    BY <1>0, <1>6 DEF Watched, Recv
  <2> QED
    BY <2>2, <2>3, <2>4, <2>5 DEF SessionInv
<1>7. ASSUME NEW id \in Ids,
             \/ SubscriptionStep(id) \/ Ping(id) \/ MonitorPanics(id)
      PROVE  SessionInv'
  <2> USE DEF SubscriptionStep, Handle, Refuse, SpawnPanics, HandlerFails,
              Expire, Ping, MonitorPanics
  <2> DEFINE States == {"gone"} \cup Streaming
             Answers == {"none", "ack", "err"}
  <2>1. /\ UNCHANGED <<up, wire, cpc, want, port, att, src, got, shutdown>>
        /\ sub[id].state # "gone"
        /\ panics' \in Nat
        /\ panics' = 0 => panics = 0
    BY <1>0, <1>7 DEF Watched, Streaming
  <2> DEFINE Turns(s, a) ==
               /\ sub' = [sub EXCEPT ![id].state = s, ![id].answer = a]
               /\ panics' = 0 => s # "unwatched"
  <2>2. \E s \in States, a \in Answers : Turns(s, a)
    <3>0. sub[id].answer \in Answers
      BY <1>0 DEF TypeOK, Subscription
    <3>1. ASSUME NEW s, sub' = [sub EXCEPT ![id].state = s],
                 panics' = 0 => s # "unwatched"
          PROVE  Turns(s, sub[id].answer)
      BY <1>0, <3>1 DEF TypeOK, Subscription
    <3>2. CASE Handle(id)
      <4>1. Turns("waiting", "ack") \/ Turns("gone", "ack")
        BY <3>2
      <4> QED
        BY <4>1, Zenon DEF Streaming
    <3>3. CASE Refuse(id)
      <4>1. Turns("gone", "err")
        BY <3>3
      <4> QED
        BY <4>1, Zenon DEF Streaming
    <3>4. CASE SpawnPanics(id) \/ HandlerFails(id) \/ Expire(id)
      <4>1. Turns("gone", sub[id].answer)
        BY <3>1, <3>4
      <4> QED
        BY <3>0, <4>1, Zenon DEF Streaming
    <3>5. CASE Ping(id)
      <4>1. Turns("pinged", sub[id].answer)
        BY <3>1, <3>5
      <4> QED
        BY <3>0, <4>1, Zenon DEF Streaming
    <3>6. CASE MonitorPanics(id)
      <4>1. panics' # 0
        BY <1>0, <3>6 DEF Watched
      <4>2. Turns("unwatched", sub[id].answer)
        BY <3>1, <3>6, <4>1
      <4> QED
        BY <3>0, <4>2, Zenon DEF Streaming
    <3> QED
      BY <1>7, <3>2, <3>3, <3>4, <3>5, <3>6
  <2>3. PICK s \in States, a \in Answers :
           /\ sub' = [sub EXCEPT ![id].state = s, ![id].answer = a]
           /\ panics' = 0 => s # "unwatched"
    BY <2>2
  <2>4. /\ sub' \in [Ids -> Subscription]
        /\ sub'[id].state = s
        /\ \A j \in Ids : /\ sub'[j].want = sub[j].want
                          /\ sub'[j].port = sub[j].port
                          /\ sub'[j].client = sub[j].client
                          /\ j # id => sub'[j].state = sub[j].state
    <3>1. ASSUME NEW j \in Ids, j # id PROVE sub'[j] = sub[j]
      BY <1>0, <2>3, <3>1 DEF TypeOK
    <3>2. sub'[id] = [sub[id] EXCEPT !.state = s, !.answer = a]
      BY <1>0, <2>3 DEF TypeOK
    <3>3. DOMAIN sub' = Ids /\ sub' = [j \in Ids |-> sub'[j]]
      BY <1>0, <2>3 DEF TypeOK
    <3>4. sub[id] \in Subscription /\ s \in States /\ a \in Answers
      BY <1>0, <2>3 DEF TypeOK
    <3>5. /\ sub'[id] \in Subscription /\ sub'[id].want = sub[id].want
          /\ sub'[id].port = sub[id].port /\ sub'[id].client = sub[id].client
          /\ sub'[id].state = s
      BY <3>2, <3>4 DEF Subscription
    <3>6. sub' \in [Ids -> Subscription]
      BY <1>0, <3>1, <3>3, <3>5 DEF TypeOK
    <3> QED
      BY <3>1, <3>5, <3>6
  <2>5. up
    BY <1>0, <2>1 DEF TypeOK
  <2>6. TypeOK'
    BY <1>0, <2>1, <2>4, <2>5 DEF TypeOK
  <2>7. Watched'
    BY <1>0, <2>1, <2>3, <2>4 DEF Watched
  <2>8. \A j \in Ids : Heard(j)' => Heard(j)
    BY <2>1, <2>4 DEF Heard
  <2> QED
    BY <2>1, <2>4, <2>6, <2>7, <2>8, Quiet
<1>8. ASSUME NEW id \in Ids, Quote(id) PROVE SessionInv'
  <2>1. TypeOK'
    BY <1>0, <1>8 DEF TypeOK, Quote
  <2>2. Watched'
    BY <1>0, <1>8 DEF Watched, Quote
  <2> QED
    BY <1>8, <2>1, <2>2, Quiet DEF Quote, Heard, Alive, Streaming
<1>9. ASSUME NEW id \in Ids, Lose(id) PROVE SessionInv'
  <2>1. TypeOK'
    BY <1>0, <1>9 DEF TypeOK, Lose
  <2>2. Watched'
    BY <1>0, <1>9 DEF Watched, Lose
  <2> QED
    BY <1>9, <2>1, <2>2, Quiet DEF Lose, Heard
<1>10. CASE ServerCrash
  <2>1. PICK delivered \in BOOLEAN :
           sub' = [id \in Ids |->
                     [sub[id] EXCEPT
                        !.state = "gone",
                        !.answer = IF delivered THEN @ ELSE "none"]]
    BY <1>10 DEF ServerCrash
  <2>2. /\ sub' \in [Ids -> Subscription]
        /\ \A j \in Ids : /\ sub'[j].want = sub[j].want
                          /\ sub'[j].port = sub[j].port
                          /\ sub'[j].client = sub[j].client
                          /\ sub'[j].state = "gone"
    <3>1. ASSUME NEW j \in Ids
          PROVE  /\ sub'[j] \in Subscription /\ sub'[j].want = sub[j].want
                 /\ sub'[j].port = sub[j].port
                 /\ sub'[j].client = sub[j].client /\ sub'[j].state = "gone"
      <4>1. sub[j] \in Subscription
        BY <1>0 DEF TypeOK
      <4>2. PICK a \in {"none", "ack", "err"} :
               sub'[j] = [sub[j] EXCEPT !.state = "gone", !.answer = a]
        BY <2>1, <4>1 DEF Subscription
      <4> QED
        BY <4>1, <4>2 DEF Subscription
    <3> QED
      BY <2>1, <3>1
  <2>3. TypeOK'
    BY <1>0, <1>10, <2>2 DEF TypeOK, ServerCrash
  <2>4. Watched'
    BY <1>0, <1>10, <2>2 DEF Watched, ServerCrash
  <2> QED
    BY <1>10, <2>2, <2>3, <2>4, Quiet DEF ServerCrash, Heard
<1>11. CASE ServerStart
  <2>1. TypeOK'
    BY <1>0, <1>11 DEF TypeOK, ServerStart
  <2>2. Watched'
    BY <1>0, <1>11 DEF Watched, ServerStart
  <2> QED
    BY <1>11, <2>1, <2>2, Quiet DEF ServerStart, Heard
<1>12. CASE UNCHANGED vars
  <2>1. TypeOK'
    BY <1>0, <1>12 DEF TypeOK
  <2>2. Watched'
    BY <1>0, <1>12 DEF Watched
  <2> QED
    BY <1>12, <2>1, <2>2, Quiet DEF Heard
<1> QED
  BY <1>1, <1>2, <1>3, <1>4, <1>5, <1>6, <1>7, <1>8, <1>9, <1>10, <1>11,
     <1>12 DEF Next, ClientStep

\* It holds in every reachable state.
LEMMA SessionInvariant == Spec => []SessionInv
BY InitSession, NextSession, PTL DEF Spec

\* The type invariant: Acks are awaited for subscriptions of the client's own,
\* and nothing survives a crash of the server.
THEOREM SessionTypeCorrect == Spec => []TypeOK
<1>1. SessionInv => TypeOK
  BY DEF SessionInv
<1> QED
  BY <1>1, SessionInvariant, PTL

\* A client that is started after the full wait only ever sees and pings what
\* is its own, as long as no thread of the server panics.  The documented wait
\* is not enough: OldStreamEnds.
THEOREM OwnQuotesCorrect == Spec => []OwnQuotes
<1>1. SessionInv => OwnQuotes
  BY DEF SessionInv, OwnInv, OwnQuotes
<1> QED
  BY <1>1, SessionInvariant, PTL
=============================================================================
