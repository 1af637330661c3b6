-------------------------- MODULE ProcessorProofs --------------------------
(***************************************************************************)
(* Proofs about the server for every set of tickers and connections and    *)
(* every number of subscriptions.                                          *)
(***************************************************************************)
EXTENDS Processor, TLAPS

-----------------------------------------------------------------------------
(***************************************************************************)
(* Types.                                                                  *)
(***************************************************************************)

\* Ids are numbers, and the first one is 0.
LEMMA IdType == Id \subseteq Nat /\ 0 \in Id
  BY GeneratorAssumption DEF Id

\* What a ticker thread sends is a Quote.
LEMMA QuoteType ==
  ASSUME NEW t \in Ticker, NEW n \in 0 .. (Wrap - 1)
  PROVE  [ticker |-> t, number |-> n] \in Quote
  BY DEF Quote

\* Quote numbers stay below the bound.
LEMMA WrapType ==
  ASSUME NEW n \in 0 .. (Wrap - 1)
  PROVE  (n + 1) % Wrap \in 0 .. (Wrap - 1)
  BY GeneratorAssumption

\* TypeOK is not inductive: receivers only get configured tickers because
\* add_receiver has checked them before it inserts.
CheckedTickers ==
  \A c \in Conn : hpc[c] \in {"insert", "subscribe"} => hreq[c] \subseteq Ticker

\* The steps of a handler thread keep the types.
LEMMA HandlerTypes ==
  ASSUME TypeOK, CheckedTickers, NEW c \in Conn, HandlerStep(c)
  PROVE  TypeOK'
<1> USE IdType DEF TypeOK, GeneratorTypeOK, generatorVars, registryVars,
      channelVars, sharedVars, tickerVars, reapVars, handlerVars,
      processorVars, streamVars, HandlerPc, StreamPc
<1>1. CASE Accept(c)
  BY <1>1 DEF Accept
<1>2. CASE ReadFails(c)
  BY <1>2 DEF ReadFails
<1>3. CASE ReadUnexpected(c)
  BY <1>3 DEF ReadUnexpected
<1>4. ASSUME NEW ts \in Request, ReadCommand(c, ts) PROVE TypeOK'
  <2>1. next_id \in Id /\ next_id' \in Nat
    BY <1>4, GeneratorAssumption DEF ReadCommand, Id
  <2>2. hid' \in [Conn -> Id] /\ hpc' \in [Conn -> HandlerPc]
    BY <1>4, <2>1 DEF ReadCommand
  <2>3. hreq' \in [Conn -> SUBSET (Ticker \cup Unknown)]
    BY <1>4 DEF ReadCommand, Request
  <2>4. rx_open' \in [Id -> BOOLEAN]
    BY <1>4, <2>1 DEF ReadCommand
  <2> QED
    BY <1>4, <2>1, <2>2, <2>3, <2>4 DEF ReadCommand
<1>5. CASE AddRejected(c)
  BY <1>5 DEF AddRejected, AddReceiverRejects
<1>6. CASE AddChecked(c)
  BY <1>6 DEF AddChecked, AddReceiverChecks
<1>7. CASE AddInserted(c)
  <2>1. hreq[c] \in SUBSET Ticker
    BY <1>7 DEF AddInserted, CheckedTickers
  <2>2. subscribed_tickers' \in [Id -> SUBSET Ticker] /\ receivers' \in SUBSET Id
    BY <1>7, <2>1 DEF AddInserted, AddReceiverInserts
  <2> QED
    BY <1>7, <2>2 DEF AddInserted, AddReceiverInserts
<1>8. CASE AddSubscribed(c)
  BY <1>8 DEF AddSubscribed, AddReceiverSubscribes
<1>9. CASE RegisterSubscriber(c)
  BY <1>9 DEF RegisterSubscriber
<1>10. CASE SpawnStreaming(c)
  BY <1>10 DEF SpawnStreaming
<1>11. CASE SpawnPanics(c)
  BY <1>11 DEF SpawnPanics
<1>12. CASE Respond(c)
  BY <1>12 DEF Respond
<1> QED
  BY <1>1, <1>2, <1>3, <1>4, <1>5, <1>6, <1>7, <1>8, <1>9, <1>10, <1>11, <1>12
  DEF HandlerStep

\* A handler reaches receivers.write() only with tickers that were checked.
LEMMA HandlersCheck ==
  ASSUME TypeOK, CheckedTickers, NEW c \in Conn, HandlerStep(c)
  PROVE  CheckedTickers'
<1> SUFFICES ASSUME NEW d \in Conn, hpc'[d] \in {"insert", "subscribe"}
             PROVE  hreq'[d] \subseteq Ticker
  BY DEF CheckedTickers
<1> USE DEF TypeOK, CheckedTickers
<1>1. CASE d # c
  BY <1>1 DEF HandlerStep, Accept, ReadFails, ReadUnexpected, ReadCommand,
    AddRejected, AddChecked, AddInserted, AddSubscribed, RegisterSubscriber,
    SpawnStreaming, SpawnPanics, Respond
<1>2. CASE d = c
  BY <1>2 DEF HandlerStep, Accept, ReadFails, ReadUnexpected, ReadCommand,
    AddRejected, AddChecked, AddReceiverChecks, AddInserted, AddSubscribed,
    RegisterSubscriber, SpawnStreaming, SpawnPanics, Respond
<1> QED
  BY <1>1, <1>2

\* Streaming and monitor threads do not touch what handlers own.
LEMMA StreamFrame ==
  ASSUME NEW id \in Id, StreamStep(id) \/ MonitorStep(id)
  PROVE  UNCHANGED <<handlerVars, next_id, subs_read>>
  BY DEF StreamStep, MonitorStep, MonitorExpires, MonitorPanics, BindFails,
    StartMonitor, StreamingPanics,
    CheckShutdown, StreamQuote, JoinMonitor, RemoveSubscriber, LockGenerator,
    StreamReadsTickers, StreamRemovesReceiver, StreamRemovesTickers,
    RemoveFromReceivers, RemoveFromTickers, generatorVars,
    sharedVars, processorVars

\* The steps of a streaming and of a monitor thread keep the types.
LEMMA StreamTypes ==
  ASSUME TypeOK, NEW id \in Id, StreamStep(id) \/ MonitorStep(id)
  PROVE  TypeOK'
<1> USE DEF TypeOK, GeneratorTypeOK, generatorVars, registryVars,
      channelVars, sharedVars, tickerVars, reapVars, handlerVars,
      processorVars, StreamPc, MonitorPc
<1>1. CASE BindFails(id)
  BY <1>1 DEF BindFails
<1>2. CASE StartMonitor(id)
  BY <1>2 DEF StartMonitor
<1>3. CASE StreamingPanics(id)
  BY <1>3 DEF StreamingPanics
<1>4. CASE CheckShutdown(id)
  BY <1>4 DEF CheckShutdown
<1>5. CASE StreamQuote(id)
  <2>1. channel' \in [Id -> Seq(Quote)]
    <3>1. CASE channel[id] = <<>>
      BY <1>5, <3>1 DEF StreamQuote, RecvTimeout
    <3>2. CASE channel[id] # <<>>
      <4>1. Tail(channel[id]) \in Seq(Quote)
        BY <3>2
      <4> QED
        BY <1>5, <4>1 DEF StreamQuote, RecvTimeout
    <3> QED
      BY <3>1, <3>2
  <2>2. shutdown' \in [Id -> BOOLEAN]
    BY <1>5 DEF StreamQuote
  <2>3. spc' \in [Id -> StreamPc]
    BY <1>5 DEF StreamQuote
  <2> QED
    BY <1>5, <2>1, <2>2, <2>3 DEF StreamQuote
<1>6. CASE JoinMonitor(id)
  BY <1>6 DEF JoinMonitor
<1>7. CASE RemoveSubscriber(id)
  <2>1. CASE id \in subscribers
    BY <1>7, <2>1 DEF RemoveSubscriber
  <2>2. CASE id \notin subscribers
    <3>1. rx_open' \in [Id -> BOOLEAN] /\ spc' \in [Id -> StreamPc]
      BY <1>7, <2>2 DEF RemoveSubscriber
    <3>2. channel' \in [Id -> Seq(Quote)]
      <4>1. channel' = [channel EXCEPT ![id] = <<>>]
        BY <1>7, <2>2 DEF RemoveSubscriber
      <4> QED
        BY <4>1
    <3> QED
      BY <1>7, <2>2, <3>1, <3>2 DEF RemoveSubscriber
  <2> QED
    BY <2>1, <2>2
<1>8. CASE LockGenerator(id)
  BY <1>8 DEF LockGenerator
<1>9. CASE StreamReadsTickers(id)
  BY <1>9 DEF StreamReadsTickers, ReceiverTickers
<1>10. CASE StreamRemovesReceiver(id)
  BY <1>10 DEF StreamRemovesReceiver, RemoveFromReceivers
<1>11. CASE StreamRemovesTickers(id)
  BY <1>11 DEF StreamRemovesTickers, RemoveFromTickers
<1>12. CASE MonitorExpires(id)
  BY <1>12 DEF MonitorExpires
<1>13. CASE MonitorPanics(id)
  BY <1>13 DEF MonitorPanics
<1> QED
  BY <1>1, <1>2, <1>3, <1>4, <1>5, <1>6, <1>7, <1>8, <1>9, <1>10, <1>11,
     <1>12, <1>13
  DEF StreamStep, MonitorStep

\* The steps of a ticker thread keep the types.
LEMMA TickerTypes ==
  ASSUME TypeOK, NEW t \in Ticker, TickerThread(t)
  PROVE  TypeOK'
<1> USE IdType DEF TypeOK, GeneratorTypeOK, TickerThread, registryVars,
      channelVars, sharedVars, reapVars, handlerVars, processorVars, streamVars, TickerPc
<1>1. CASE GenerateQuote(t)
  BY <1>1, WrapType DEF GenerateQuote
<1>2. CASE LookupReceivers(t)
  BY <1>2 DEF LookupReceivers
<1>3. CASE LockReceivers(t)
  BY <1>3 DEF LockReceivers
<1>4. ASSUME NEW id \in Id, SendQuote(t, id) PROVE TypeOK'
  BY <1>4, QuoteType DEF SendQuote
<1>5. CASE UnlockReceivers(t)
  BY <1>5 DEF UnlockReceivers
<1>6. ASSUME NEW id \in Id, ReapReadsTickers(t, id) PROVE TypeOK'
  BY <1>6 DEF ReapReadsTickers, ReceiverTickers
<1>7. CASE ReapRemovesReceiver(t)
  BY <1>7 DEF ReapRemovesReceiver, RemoveFromReceivers
<1>8. CASE ReapRemovesTickers(t)
  BY <1>8 DEF ReapRemovesTickers, RemoveFromTickers
<1> QED
  BY <1>1, <1>2, <1>3, <1>4, <1>5, <1>6, <1>7, <1>8
  DEF TickerThread, TickerStep

\* The server starts with all types right.
LEMMA InitTypes == Init => TypeOK /\ CheckedTickers
<1> SUFFICES ASSUME Init PROVE TypeOK /\ CheckedTickers
  OBVIOUS
<1>1. GeneratorTypeOK
  <2>1. number \in [Ticker -> 0 .. (Wrap - 1)]
    BY GeneratorAssumption DEF Init, GeneratorInit
  <2>2. channel \in [Id -> Seq(Quote)]
    BY DEF Init, GeneratorInit
  <2>3. subs_read \in BOOLEAN
    BY Zenon DEF Init, GeneratorInit
  <2> QED
    BY <2>1, <2>2, <2>3, IdType
    DEF Init, GeneratorInit, GeneratorTypeOK, TickerPc
<1>2. TypeOK
  BY <1>1, IdType DEF Init, TypeOK, HandlerPc, StreamPc, MonitorPc
<1> QED
  BY <1>2 DEF Init, CheckedTickers

\* Every variable of the server keeps its type, whatever the threads do.
THEOREM TypeCorrect == Spec => [](TypeOK /\ CheckedTickers)
<1>1. Init => TypeOK /\ CheckedTickers
  BY InitTypes
<1>2. TypeOK /\ CheckedTickers /\ [Next]_vars => TypeOK' /\ CheckedTickers'
  <2> SUFFICES ASSUME TypeOK, CheckedTickers, [Next]_vars
               PROVE  TypeOK' /\ CheckedTickers'
    OBVIOUS
  <2>1. CASE UNCHANGED vars
    BY <2>1 DEF vars, TypeOK, GeneratorTypeOK, generatorVars, registryVars,
      channelVars, sharedVars, tickerVars, reapVars, handlerVars,
      processorVars, streamVars, CheckedTickers
  <2>2. ASSUME NEW c \in Conn, HandlerStep(c) PROVE TypeOK' /\ CheckedTickers'
    BY <2>2, HandlerTypes, HandlersCheck
  <2>3. ASSUME UNCHANGED handlerVars PROVE CheckedTickers'
    BY <2>3 DEF handlerVars, CheckedTickers
  <2>4. ASSUME NEW id \in Id, StreamStep(id) \/ MonitorStep(id)
        PROVE  TypeOK' /\ CheckedTickers'
    BY <2>3, <2>4, StreamTypes, StreamFrame
  <2>5. ASSUME NEW t \in Ticker, TickerThread(t) PROVE TypeOK' /\ CheckedTickers'
    BY <2>3, <2>5, TickerTypes DEF TickerThread
  <2> QED
    BY <2>1, <2>2, <2>4, <2>5 DEF Next
<1> QED
  BY <1>1, <1>2, PTL DEF Spec

-----------------------------------------------------------------------------
(***************************************************************************)
(* The inductive invariant behind the consistency of the two maps.         *)
(***************************************************************************)

\* The id of c is in neither of the generator's maps.
Unregistered(id) ==
  id \notin receivers /\ \A t \in Ticker : id \notin tickers_to_receivers[t]

\* Handlers hold pairwise different ids, all of them handed out by next_id.
HandlerInv ==
  /\ next_id <= MaxRequests
  /\ \A c \in Conn :
       /\ hpc[c] \in {"idle", "read"} => hreq[c] = {}
       /\ hpc[c] \notin {"idle", "read", "err", "done"} => hreq[c] # {}
       /\ hpc[c] # "done" => resp[c] = "none"
       /\ hreq[c] # {} => hid[c] < next_id
  /\ \A c, d \in Conn :
       hreq[c] # {} /\ hreq[d] # {} /\ hid[c] = hid[d] => c = d
  /\ \A id \in Id : id < next_id =>
       \E c \in Conn : hreq[c] # {} /\ hid[c] = id

\* What the position of a handler says about its id.
PhaseOf(c) ==
  /\ hpc[c] \in {"lock", "insert"} =>
       Unregistered(hid[c]) /\ rx_open[hid[c]]
  /\ hpc[c] = "subscribe" =>
       \A t \in Ticker : hid[c] \notin tickers_to_receivers[t]
  /\ hpc[c] \in {"subscribe", "register", "spawn"} => hid[c] \in receivers
  /\ hpc[c] \in {"lock", "insert", "subscribe", "register", "spawn", "err"}
       /\ hreq[c] # {} => spc[hid[c]] = "none"
  /\ hpc[c] = "spawn" => hid[c] \in subscribers
  /\ hpc[c] \in {"lock", "insert", "subscribe", "register", "err"}
       /\ hreq[c] # {} => hid[c] \notin subscribers
  /\ hpc[c] = "err" \/ resp[c] = "err" =>
       \/ hreq[c] = {}
       \/ /\ Unregistered(hid[c])
          /\ hid[c] \notin subscribers
          /\ spc[hid[c]] = "none"
  /\ hreq[c] # {} /\ hid[c] \in receivers =>
       subscribed_tickers[hid[c]] = hreq[c]

PhaseInv == \A c \in Conn : PhaseOf(c)

\* What the position of a streaming thread says about its id.
LifeOf(id) ==
  /\ id >= next_id =>
       Unregistered(id) /\ id \notin subscribers /\ spc[id] = "none"
  /\ spc[id] \in {"bind", "check", "recv", "join", "remove"} =>
       id \in receivers /\ id \in subscribers
  /\ spc[id] \in {"lock", "rm_lookup", "rm_receivers"} => id \in receivers
  /\ spc[id] \in {"rm_tickers", "done"} => id \notin receivers
  /\ spc[id] = "rm_receivers" => rm_tickers[id] = subscribed_tickers[id]
  /\ id \in receivers /\ ~rx_open[id] => spc[id] = "panicked"
  /\ id \in subscribers =>
       \/ spc[id] \in {"bind", "check", "recv", "join", "remove", "panicked"}
       \/ \E c \in Conn : hpc[c] = "spawn" /\ hid[c] = id

LifeInv == \A id \in Id : LifeOf(id)

\* Ticker threads only reap ids whose streaming thread panicked, and know the
\* tickers of the receiver they are about to remove.
ReapOf(t) ==
  /\ \A id \in dead_recv[t] : spc[id] = "panicked"
  /\ tpc[t] \in {"reap_receivers", "reap_tickers"} => reap_id[t] \in dead_recv[t]
  /\ tpc[t] = "reap_tickers" => reap_id[t] \notin receivers
  /\ tpc[t] = "reap_receivers" /\ reap_id[t] \in receivers =>
       reap_tickers[t] = subscribed_tickers[reap_id[t]]

ReapInv == \A t \in Ticker : ReapOf(t)

IndInv ==
  /\ TypeOK
  /\ CheckedTickers
  /\ HandlerInv
  /\ PhaseInv
  /\ LifeInv
  /\ ReapInv
  /\ RegistryConsistent

\* A new id is different from the ids in use.
LEMMA FreshId ==
  ASSUME TypeOK, HandlerInv, NEW d \in Conn, hreq[d] # {}
  PROVE  hid[d] # next_id /\ hid[d] < next_id /\ hid[d] < next_id + 1
<1>1. hid[d] \in Nat /\ next_id \in Nat
  BY IdType DEF TypeOK
<1>2. hid[d] < next_id
  BY DEF HandlerInv
<1> QED
  BY <1>1, <1>2

\* A parsed command asks for something: split(',') is never empty.
LEMMA RequestNotEmpty == \A ts \in Request : ts # {}
  BY Zenon DEF Request

\* A handler that may take an id takes one of Id.
LEMMA NextIdInRange ==
  ASSUME TypeOK, next_id < MaxRequests
  PROVE  next_id \in Id
  BY GeneratorAssumption DEF TypeOK, Id

\* The steps of a handler thread preserve the inductive invariant.
LEMMA HandlerInd ==
  ASSUME IndInv, NEW c \in Conn, HandlerStep(c)
  PROVE  IndInv'
<1> USE IdType DEF IndInv, TypeOK, GeneratorTypeOK, generatorVars, registryVars,
      channelVars, sharedVars, tickerVars, reapVars, handlerVars,
      processorVars, streamVars, Unregistered
<1>0. TypeOK' /\ CheckedTickers'
  BY HandlerTypes, HandlersCheck
<1>1. CASE Accept(c)
  <2>1. HandlerInv'
    BY <1>1 DEF Accept, HandlerInv
  <2>2. PhaseInv'
    BY <1>1 DEF Accept, PhaseInv, PhaseOf
  <2>3. LifeInv'
    BY <1>1 DEF Accept, LifeInv, LifeOf
  <2>4. ReapInv'
    BY <1>1 DEF Accept, ReapInv, ReapOf
  <2>5. RegistryConsistent'
    BY <1>1 DEF Accept, RegistryConsistent, ConsistentAt, Removing, Adding
  <2> QED
    BY <1>0, <2>1, <2>2, <2>3, <2>4, <2>5
<1>2. CASE ReadFails(c)
  <2>1. HandlerInv'
    BY <1>2 DEF ReadFails, HandlerInv
  <2>2. PhaseInv'
    BY <1>2 DEF ReadFails, PhaseInv, PhaseOf
  <2>3. LifeInv'
    BY <1>2 DEF ReadFails, LifeInv, LifeOf
  <2>4. ReapInv'
    BY <1>2 DEF ReadFails, ReapInv, ReapOf
  <2>5. RegistryConsistent'
    BY <1>2 DEF ReadFails, RegistryConsistent, ConsistentAt, Removing, Adding
  <2> QED
    BY <1>0, <2>1, <2>2, <2>3, <2>4, <2>5
<1>3. CASE ReadUnexpected(c)
  <2>1. HandlerInv'
    BY <1>3 DEF ReadUnexpected, HandlerInv
  <2>2. PhaseInv'
    BY <1>3 DEF ReadUnexpected, PhaseInv, PhaseOf, HandlerInv
  <2>3. LifeInv'
    BY <1>3 DEF ReadUnexpected, LifeInv, LifeOf
  <2>4. ReapInv'
    BY <1>3 DEF ReadUnexpected, ReapInv, ReapOf
  <2>5. RegistryConsistent'
    BY <1>3
    DEF ReadUnexpected, RegistryConsistent, ConsistentAt, Removing, Adding
  <2> QED
    BY <1>0, <2>1, <2>2, <2>3, <2>4, <2>5
<1>4. ASSUME NEW ts \in Request, ReadCommand(c, ts) PROVE IndInv'
  <2>0. /\ next_id \in Id
        /\ hid' = [hid EXCEPT ![c] = next_id]
        /\ hreq' = [hreq EXCEPT ![c] = ts]
        /\ hpc[c] = "read"
        /\ hpc' = [hpc EXCEPT ![c] = "lock"]
        /\ next_id' = next_id + 1
        /\ resp' = resp
        /\ ts # {}
        /\ hreq[c] = {}
    <3>1. ts # {}
      BY RequestNotEmpty
    <3>2. next_id \in Id
      BY <1>4, NextIdInRange DEF ReadCommand
    <3> QED
      BY <1>4, <3>1, <3>2 DEF ReadCommand, HandlerInv
  <2>1. HandlerInv'
    <3>1. next_id' <= MaxRequests
      BY <1>4, GeneratorAssumption DEF ReadCommand
    <3>2. ASSUME NEW d \in Conn
          PROVE  /\ hpc'[d] \in {"idle", "read"} => hreq'[d] = {}
                 /\ hpc'[d] \notin {"idle", "read", "err", "done"} => hreq'[d] # {}
                 /\ hpc'[d] # "done" => resp'[d] = "none"
                 /\ hreq'[d] # {} => hid'[d] < next_id'
      <4>1. CASE d = c
        BY <2>0, <4>1 DEF HandlerInv
      <4>2. CASE d # c
        BY <2>0, <4>2, FreshId DEF HandlerInv
      <4> QED
        BY <4>1, <4>2
    <3>3. ASSUME NEW d \in Conn, NEW e \in Conn,
                 hreq'[d] # {}, hreq'[e] # {}, hid'[d] = hid'[e]
          PROVE  d = e
      <4>1. CASE d # c /\ e # c
        BY <2>0, <3>3, <4>1 DEF HandlerInv
      <4>2. CASE d = c /\ e # c
        BY <2>0, <3>3, <4>2, FreshId
      <4>3. CASE d # c /\ e = c
        BY <2>0, <3>3, <4>3, FreshId
      <4> QED
        BY <4>1, <4>2, <4>3
    <3>4. ASSUME NEW id \in Id, id < next_id'
          PROVE  \E d \in Conn : hreq'[d] # {} /\ hid'[d] = id
      <4>1. CASE id = next_id
        BY <2>0, <4>1
      <4>2. CASE id # next_id
        <5>1. PICK d \in Conn : hreq[d] # {} /\ hid[d] = id
          BY <2>0, <3>4, <4>2 DEF HandlerInv
        <5> QED
          BY <2>0, <5>1
      <4> QED
        BY <4>1, <4>2
    <3> QED
      BY <3>1, <3>2, <3>3, <3>4 DEF HandlerInv
  <2>2. PhaseInv'
    <3> SUFFICES ASSUME NEW d \in Conn PROVE PhaseOf(d)'
      BY DEF PhaseInv
    <3>1. CASE d = c
      <4>1. LifeOf(next_id) /\ resp[c] = "none" /\ next_id >= next_id
        BY <2>0 DEF LifeInv, HandlerInv
      <4> QED
        BY <1>4, <2>0, <3>1, <4>1 DEF ReadCommand, PhaseOf, LifeOf
    <3>2. CASE d # c
      <4>1. hreq[d] = {} \/ hid[d] # next_id
        BY FreshId
      <4>2. PhaseOf(d)
        BY DEF PhaseInv
      <4>3. hpc[d] \in {"lock", "insert"} => hreq[d] # {}
        BY DEF HandlerInv
      <4> QED
        BY <1>4, <2>0, <3>2, <4>1, <4>2, <4>3 DEF ReadCommand, PhaseOf
    <3> QED
      BY <3>1, <3>2
  <2>3. LifeInv'
    BY <1>4, <2>0 DEF ReadCommand, LifeInv, LifeOf
  <2>4. ReapInv'
    BY <1>4 DEF ReadCommand, ReapInv, ReapOf
  <2>5. RegistryConsistent'
    BY <1>4 DEF ReadCommand, RegistryConsistent, ConsistentAt, Removing, Adding
  <2> QED
    BY <1>0, <2>1, <2>2, <2>3, <2>4, <2>5
<1>5. CASE AddRejected(c)
  <2>1. HandlerInv'
    BY <1>5 DEF AddRejected, AddReceiverRejects, HandlerInv
  <2>2. PhaseInv'
    <3> SUFFICES ASSUME NEW d \in Conn PROVE PhaseOf(d)'
      BY DEF PhaseInv
    <3>1. CASE d = c
      BY <1>5, <3>1 DEF AddRejected, AddReceiverRejects, PhaseInv, PhaseOf
    <3>2. CASE d # c
      <4>1. hreq[d] = {} \/ hid[d] # hid'[c]
        BY <1>5, <3>2 DEF AddRejected, AddReceiverRejects, HandlerInv
      <4>2. PhaseOf(d)
        BY DEF PhaseInv
      <4>3. hpc[d] \notin {"idle", "read", "err", "done"} => hreq[d] # {}
        BY DEF HandlerInv
      <4> QED
        BY <1>5, <3>2, <4>1, <4>2, <4>3
        DEF AddRejected, AddReceiverRejects, PhaseOf
    <3> QED
      BY <3>1, <3>2
  <2>3. LifeInv'
    BY <1>5
    DEF AddRejected, AddReceiverRejects, LifeInv, LifeOf, PhaseInv, PhaseOf
  <2>4. ReapInv'
    BY <1>5 DEF AddRejected, AddReceiverRejects, ReapInv, ReapOf
  <2>5. RegistryConsistent'
    BY <1>5
    DEF AddRejected, AddReceiverRejects, RegistryConsistent, ConsistentAt,
        Removing, Adding
  <2> QED
    BY <1>0, <2>1, <2>2, <2>3, <2>4, <2>5
<1>6. CASE AddChecked(c)
  <2>1. HandlerInv'
    BY <1>6 DEF AddChecked, AddReceiverChecks, HandlerInv
  <2>2. PhaseInv'
    BY <1>6 DEF AddChecked, AddReceiverChecks, PhaseInv, PhaseOf
  <2>3. LifeInv'
    BY <1>6 DEF AddChecked, AddReceiverChecks, LifeInv, LifeOf
  <2>4. ReapInv'
    BY <1>6 DEF AddChecked, AddReceiverChecks, ReapInv, ReapOf
  <2>5. RegistryConsistent'
    BY <1>6
    DEF AddChecked, AddReceiverChecks, RegistryConsistent, ConsistentAt,
        Removing, Adding
  <2> QED
    BY <1>0, <2>1, <2>2, <2>3, <2>4, <2>5
<1>7. CASE AddInserted(c)
  <2>1. HandlerInv'
    BY <1>7 DEF AddInserted, AddReceiverInserts, HandlerInv
  <2>2. PhaseInv'
    <3> SUFFICES ASSUME NEW d \in Conn PROVE PhaseOf(d)'
      BY DEF PhaseInv
    <3>1. CASE d = c
      BY <1>7, <3>1
      DEF AddInserted, AddReceiverInserts, PhaseInv, PhaseOf, HandlerInv
    <3>2. CASE d # c
      <4>1. hreq[d] = {} \/ hid[d] # hid'[c]
        BY <1>7, <3>2 DEF AddInserted, AddReceiverInserts, HandlerInv
      <4>2. PhaseOf(d)
        BY DEF PhaseInv
      <4>3. hpc[d] \notin {"idle", "read", "err", "done"} => hreq[d] # {}
        BY DEF HandlerInv
      <4> QED
        BY <1>7, <3>2, <4>1, <4>2, <4>3
        DEF AddInserted, AddReceiverInserts, PhaseOf
    <3> QED
      BY <3>1, <3>2
  <2>3. LifeInv'
    <3> SUFFICES ASSUME NEW id \in Id PROVE LifeOf(id)'
      BY DEF LifeInv
    <3>1. CASE id = hid[c]
      <4>1. /\ PhaseOf(c) /\ hpc[c] = "insert" /\ LifeOf(id)
            /\ hreq[c] # {} /\ hid[c] < next_id
        BY <1>7, <3>1 DEF AddInserted, PhaseInv, HandlerInv, LifeInv
      <4>2. ~(id >= next_id)
        BY <3>1, <4>1
      <4> QED
        BY <1>7, <3>1, <4>1, <4>2
        DEF AddInserted, AddReceiverInserts, PhaseOf, LifeOf
    <3>2. CASE id # hid[c]
      BY <1>7, <3>2 DEF AddInserted, AddReceiverInserts, LifeInv, LifeOf
    <3> QED
      BY <3>1, <3>2
  <2>4. ReapInv'
    <3> SUFFICES ASSUME NEW t \in Ticker PROVE ReapOf(t)'
      BY DEF ReapInv
    <3>1. hid[c] \notin dead_recv[t]
      BY <1>7
      DEF AddInserted, AddReceiverInserts, HandlerInv, PhaseInv, PhaseOf,
          ReapInv, ReapOf
    <3> QED
      BY <1>7, <3>1 DEF AddInserted, AddReceiverInserts, ReapInv, ReapOf
  <2>5. RegistryConsistent'
    BY <1>7
    DEF AddInserted, AddReceiverInserts, RegistryConsistent, ConsistentAt,
        Removing, Adding, PhaseInv, PhaseOf
  <2> QED
    BY <1>0, <2>1, <2>2, <2>3, <2>4, <2>5
<1>8. CASE AddSubscribed(c)
  <2>1. HandlerInv'
    BY <1>8 DEF AddSubscribed, AddReceiverSubscribes, HandlerInv
  <2>2. PhaseInv'
    <3> SUFFICES ASSUME NEW d \in Conn PROVE PhaseOf(d)'
      BY DEF PhaseInv
    <3>1. CASE d = c
      BY <1>8, <3>1 DEF AddSubscribed, AddReceiverSubscribes, PhaseInv, PhaseOf
    <3>2. CASE d # c
      <4>1. hreq[d] = {} \/ hid[d] # hid'[c]
        BY <1>8, <3>2 DEF AddSubscribed, AddReceiverSubscribes, HandlerInv
      <4>2. PhaseOf(d)
        BY DEF PhaseInv
      <4>3. hpc[d] \notin {"idle", "read", "err", "done"} => hreq[d] # {}
        BY DEF HandlerInv
      <4> QED
        BY <1>8, <3>2, <4>1, <4>2, <4>3
        DEF AddSubscribed, AddReceiverSubscribes, PhaseOf
    <3> QED
      BY <3>1, <3>2
  <2>3. LifeInv'
    BY <1>8
    DEF AddSubscribed, AddReceiverSubscribes, LifeInv, LifeOf, PhaseInv,
        PhaseOf
  <2>4. ReapInv'
    BY <1>8 DEF AddSubscribed, AddReceiverSubscribes, ReapInv, ReapOf
  <2>5. RegistryConsistent'
    <3> SUFFICES ASSUME NEW id \in Id, NEW t \in Ticker
                 PROVE  ConsistentAt(id, t)'
      BY DEF RegistryConsistent
    <3>0. /\ ConsistentAt(id, t)
          /\ Removing(id, t)' <=> Removing(id, t)
          /\ receivers' = receivers /\ subscribed_tickers' = subscribed_tickers
      BY <1>8
      DEF AddSubscribed, AddReceiverSubscribes, RegistryConsistent, Removing
    <3>1. CASE id = hid[c]
      <4>1. hid[c] \in receivers /\ subscribed_tickers[hid[c]] = hreq[c]
        BY <1>8 DEF AddSubscribed, PhaseInv, PhaseOf, HandlerInv
      <4>2. ASSUME t \in hreq[c] PROVE id \in tickers_to_receivers'[t]
        BY <1>8, <3>1, <4>2 DEF AddSubscribed, AddReceiverSubscribes
      <4>3. ASSUME t \notin hreq[c]
            PROVE  tickers_to_receivers'[t] = tickers_to_receivers[t]
        BY <1>8, <4>3 DEF AddSubscribed, AddReceiverSubscribes
      <4> QED
        BY <3>0, <3>1, <4>1, <4>2, <4>3 DEF ConsistentAt
    <3>2. CASE id # hid[c]
      <4>1. id \in tickers_to_receivers'[t] <=> id \in tickers_to_receivers[t]
        BY <1>8, <3>2 DEF AddSubscribed, AddReceiverSubscribes
      <4>2. Adding(id)' <=> Adding(id)
        BY <1>8, <3>2 DEF AddSubscribed, Adding
      <4> QED
        BY <3>0, <4>1, <4>2 DEF ConsistentAt
    <3> QED
      BY <3>1, <3>2
  <2> QED
    BY <1>0, <2>1, <2>2, <2>3, <2>4, <2>5
<1>9. CASE RegisterSubscriber(c)
  <2>1. HandlerInv'
    BY <1>9 DEF RegisterSubscriber, HandlerInv
  <2>2. PhaseInv'
    <3> SUFFICES ASSUME NEW d \in Conn PROVE PhaseOf(d)'
      BY DEF PhaseInv
    <3>1. CASE d = c
      BY <1>9, <3>1 DEF RegisterSubscriber, PhaseInv, PhaseOf
    <3>2. CASE d # c
      <4>1. hreq[d] = {} \/ hid[d] # hid'[c]
        BY <1>9, <3>2 DEF RegisterSubscriber, HandlerInv
      <4> QED
        BY <1>9, <3>2, <4>1 DEF RegisterSubscriber, PhaseInv, PhaseOf
    <3> QED
      BY <3>1, <3>2
  <2>3. LifeInv'
    BY <1>9 DEF RegisterSubscriber, LifeInv, LifeOf, PhaseInv, PhaseOf
  <2>4. ReapInv'
    BY <1>9 DEF RegisterSubscriber, ReapInv, ReapOf
  <2>5. RegistryConsistent'
    BY <1>9
    DEF RegisterSubscriber, RegistryConsistent, ConsistentAt, Removing, Adding
  <2> QED
    BY <1>0, <2>1, <2>2, <2>3, <2>4, <2>5
<1>10. CASE SpawnStreaming(c)
  <2>1. HandlerInv'
    BY <1>10 DEF SpawnStreaming, HandlerInv
  <2>2. PhaseInv'
    <3> SUFFICES ASSUME NEW d \in Conn PROVE PhaseOf(d)'
      BY DEF PhaseInv
    <3>1. CASE d = c
      BY <1>10, <3>1 DEF SpawnStreaming, PhaseInv, PhaseOf
    <3>2. CASE d # c
      <4>1. hreq[d] = {} \/ hid[d] # hid'[c]
        BY <1>10, <3>2 DEF SpawnStreaming, HandlerInv
      <4> QED
        BY <1>10, <3>2, <4>1 DEF SpawnStreaming, PhaseInv, PhaseOf
    <3> QED
      BY <3>1, <3>2
  <2>3. LifeInv'
    <3> SUFFICES ASSUME NEW id \in Id PROVE LifeOf(id)'
      BY DEF LifeInv
    <3>1. CASE id = hid[c]
      BY <1>10, <3>1
      DEF SpawnStreaming, LifeInv, LifeOf, PhaseInv, PhaseOf, HandlerInv
    <3>2. CASE id # hid[c]
      BY <1>10, <3>2 DEF SpawnStreaming, LifeInv, LifeOf
    <3> QED
      BY <3>1, <3>2
  <2>4. ReapInv'
    <3> SUFFICES ASSUME NEW t \in Ticker PROVE ReapOf(t)'
      BY DEF ReapInv
    <3>1. hid[c] \notin dead_recv[t]
      BY <1>10
      DEF SpawnStreaming, HandlerInv, PhaseInv, PhaseOf, ReapInv, ReapOf
    <3> QED
      BY <1>10, <3>1 DEF SpawnStreaming, ReapInv, ReapOf
  <2>5. RegistryConsistent'
    BY <1>10
    DEF SpawnStreaming, RegistryConsistent, ConsistentAt, Removing, Adding,
        LifeInv, LifeOf, PhaseInv, PhaseOf, ReapInv, ReapOf, HandlerInv
  <2> QED
    BY <1>0, <2>1, <2>2, <2>3, <2>4, <2>5
<1>11. CASE SpawnPanics(c)
  <2>1. HandlerInv'
    BY <1>11 DEF SpawnPanics, HandlerInv
  <2>2. PhaseInv'
    <3> SUFFICES ASSUME NEW d \in Conn PROVE PhaseOf(d)'
      BY DEF PhaseInv
    <3>1. CASE d = c
      BY <1>11, <3>1 DEF SpawnPanics, PhaseInv, PhaseOf
    <3>2. CASE d # c
      <4>1. hreq[d] = {} \/ hid[d] # hid'[c]
        BY <1>11, <3>2 DEF SpawnPanics, HandlerInv
      <4> QED
        BY <1>11, <3>2, <4>1 DEF SpawnPanics, PhaseInv, PhaseOf
    <3> QED
      BY <3>1, <3>2
  <2>3. LifeInv'
    BY <1>11 DEF SpawnPanics, LifeInv, LifeOf, PhaseInv, PhaseOf
  <2>4. ReapInv'
    BY <1>11 DEF SpawnPanics, ReapInv, ReapOf
  <2>5. RegistryConsistent'
    BY <1>11
    DEF SpawnPanics, RegistryConsistent, ConsistentAt, Removing, Adding,
        LifeInv, LifeOf, PhaseInv, PhaseOf, ReapInv, ReapOf, HandlerInv
  <2> QED
    BY <1>0, <2>1, <2>2, <2>3, <2>4, <2>5
<1>12. CASE Respond(c)
  <2>1. HandlerInv'
    BY <1>12 DEF Respond, HandlerInv
  <2>2. PhaseInv'
    BY <1>12 DEF Respond, PhaseInv, PhaseOf
  <2>3. LifeInv'
    BY <1>12 DEF Respond, LifeInv, LifeOf
  <2>4. ReapInv'
    BY <1>12 DEF Respond, ReapInv, ReapOf
  <2>5. RegistryConsistent'
    BY <1>12 DEF Respond, RegistryConsistent, ConsistentAt, Removing, Adding
  <2> QED
    BY <1>0, <2>1, <2>2, <2>3, <2>4, <2>5
<1> QED
  BY <1>1, <1>2, <1>3, <1>4, <1>5, <1>6, <1>7, <1>8, <1>9, <1>10, <1>11, <1>12
  DEF HandlerStep

\* The steps of a streaming and of a monitor thread preserve it.
LEMMA StreamInd ==
  ASSUME IndInv, NEW id \in Id, StreamStep(id) \/ MonitorStep(id)
  PROVE  IndInv'
<1> USE IdType DEF IndInv, TypeOK, GeneratorTypeOK, generatorVars, registryVars,
      channelVars, sharedVars, tickerVars, reapVars, handlerVars,
      processorVars, streamVars, Unregistered
<1>0. TypeOK' /\ CheckedTickers'
  BY StreamTypes, StreamFrame DEF CheckedTickers, handlerVars, processorVars
<1>1. CASE BindFails(id)
  <2>1. HandlerInv'
    BY <1>1 DEF BindFails, HandlerInv
  <2>2. PhaseInv'
    BY <1>1 DEF BindFails, PhaseInv, PhaseOf
  <2>3. LifeInv'
    BY <1>1 DEF BindFails, LifeInv, LifeOf
  <2>4. ReapInv'
    BY <1>1 DEF BindFails, ReapInv, ReapOf
  <2>5. RegistryConsistent'
    BY <1>1 DEF BindFails, RegistryConsistent, ConsistentAt, Removing, Adding
  <2> QED
    BY <1>0, <2>1, <2>2, <2>3, <2>4, <2>5
<1>2. CASE StartMonitor(id)
  <2>1. HandlerInv'
    BY <1>2 DEF StartMonitor, HandlerInv
  <2>2. PhaseInv'
    BY <1>2 DEF StartMonitor, PhaseInv, PhaseOf
  <2>3. LifeInv'
    BY <1>2 DEF StartMonitor, LifeInv, LifeOf
  <2>4. ReapInv'
    BY <1>2 DEF StartMonitor, ReapInv, ReapOf
  <2>5. RegistryConsistent'
    BY <1>2
    DEF StartMonitor, RegistryConsistent, ConsistentAt, Removing, Adding
  <2> QED
    BY <1>0, <2>1, <2>2, <2>3, <2>4, <2>5
<1>3. CASE StreamingPanics(id)
  <2>1. HandlerInv'
    BY <1>3 DEF StreamingPanics, HandlerInv
  <2>2. PhaseInv'
    BY <1>3 DEF StreamingPanics, PhaseInv, PhaseOf, HandlerInv
  <2>3. LifeInv'
    BY <1>3 DEF StreamingPanics, LifeInv, LifeOf
  <2>4. ReapInv'
    BY <1>3 DEF StreamingPanics, ReapInv, ReapOf
  <2>5. RegistryConsistent'
    BY <1>3
    DEF StreamingPanics, RegistryConsistent, ConsistentAt, Removing, Adding
  <2> QED
    BY <1>0, <2>1, <2>2, <2>3, <2>4, <2>5
<1>4. CASE CheckShutdown(id)
  <2>1. HandlerInv'
    BY <1>4 DEF CheckShutdown, HandlerInv
  <2>2. PhaseInv'
    BY <1>4 DEF CheckShutdown, PhaseInv, PhaseOf
  <2>3. LifeInv'
    BY <1>4 DEF CheckShutdown, LifeInv, LifeOf
  <2>4. ReapInv'
    BY <1>4 DEF CheckShutdown, ReapInv, ReapOf
  <2>5. RegistryConsistent'
    BY <1>4
    DEF CheckShutdown, RegistryConsistent, ConsistentAt, Removing, Adding
  <2> QED
    BY <1>0, <2>1, <2>2, <2>3, <2>4, <2>5
<1>5. CASE StreamQuote(id)
  <2>1. HandlerInv'
    BY <1>5 DEF StreamQuote, RecvTimeout, HandlerInv
  <2>2. PhaseInv'
    BY <1>5 DEF StreamQuote, RecvTimeout, PhaseInv, PhaseOf
  <2>3. LifeInv'
    BY <1>5 DEF StreamQuote, RecvTimeout, LifeInv, LifeOf
  <2>4. ReapInv'
    BY <1>5 DEF StreamQuote, RecvTimeout, ReapInv, ReapOf
  <2>5. RegistryConsistent'
    BY <1>5
    DEF StreamQuote, RecvTimeout, RegistryConsistent, ConsistentAt, Removing,
        Adding
  <2> QED
    BY <1>0, <2>1, <2>2, <2>3, <2>4, <2>5
<1>6. CASE JoinMonitor(id)
  <2>1. HandlerInv'
    BY <1>6 DEF JoinMonitor, HandlerInv
  <2>2. PhaseInv'
    BY <1>6 DEF JoinMonitor, PhaseInv, PhaseOf
  <2>3. LifeInv'
    BY <1>6 DEF JoinMonitor, LifeInv, LifeOf
  <2>4. ReapInv'
    BY <1>6 DEF JoinMonitor, ReapInv, ReapOf
  <2>5. RegistryConsistent'
    BY <1>6 DEF JoinMonitor, RegistryConsistent, ConsistentAt, Removing, Adding
  <2> QED
    BY <1>0, <2>1, <2>2, <2>3, <2>4, <2>5
<1>7. CASE RemoveSubscriber(id)
  <2>1. HandlerInv'
    BY <1>7 DEF RemoveSubscriber, HandlerInv
  <2>2. PhaseInv'
    <3> SUFFICES ASSUME NEW d \in Conn PROVE PhaseOf(d)'
      BY DEF PhaseInv
    <3>1. CASE hid[d] = id
      BY <1>7, <3>1 DEF RemoveSubscriber, PhaseInv, PhaseOf, HandlerInv
    <3>2. CASE hid[d] # id
      <4>1. PhaseOf(d) /\ UNCHANGED <<registryVars, handlerVars>>
        BY <1>7 DEF RemoveSubscriber, PhaseInv
      <4>2. spc'[hid[d]] = spc[hid[d]]
        BY <1>7, <3>2 DEF RemoveSubscriber
      <4>3. rx_open'[hid[d]] = rx_open[hid[d]]
        <5>1. rx_open' = rx_open \/ rx_open' = [rx_open EXCEPT ![id] = FALSE]
          BY <1>7 DEF RemoveSubscriber
        <5> QED
          BY <3>2, <5>1
      <4>4. hid[d] \in subscribers' <=> hid[d] \in subscribers
        BY <1>7, <3>2 DEF RemoveSubscriber
      <4> QED
        BY <4>1, <4>2, <4>3, <4>4 DEF PhaseOf
    <3> QED
      BY <3>1, <3>2
  <2>3. LifeInv'
    BY <1>7 DEF RemoveSubscriber, LifeInv, LifeOf
  <2>4. ReapInv'
    BY <1>7 DEF RemoveSubscriber, ReapInv, ReapOf
  <2>5. RegistryConsistent'
    BY <1>7
    DEF RemoveSubscriber, RegistryConsistent, ConsistentAt, Removing, Adding
  <2> QED
    BY <1>0, <2>1, <2>2, <2>3, <2>4, <2>5
<1>8. CASE LockGenerator(id)
  <2>1. HandlerInv'
    BY <1>8 DEF LockGenerator, HandlerInv
  <2>2. PhaseInv'
    BY <1>8 DEF LockGenerator, PhaseInv, PhaseOf
  <2>3. LifeInv'
    BY <1>8 DEF LockGenerator, LifeInv, LifeOf
  <2>4. ReapInv'
    BY <1>8 DEF LockGenerator, ReapInv, ReapOf
  <2>5. RegistryConsistent'
    BY <1>8
    DEF LockGenerator, RegistryConsistent, ConsistentAt, Removing, Adding
  <2> QED
    BY <1>0, <2>1, <2>2, <2>3, <2>4, <2>5
<1>9. CASE StreamReadsTickers(id)
  <2>1. HandlerInv'
    BY <1>9 DEF StreamReadsTickers, ReceiverTickers, HandlerInv
  <2>2. PhaseInv'
    BY <1>9 DEF StreamReadsTickers, ReceiverTickers, PhaseInv, PhaseOf
  <2>3. LifeInv'
    BY <1>9 DEF StreamReadsTickers, ReceiverTickers, LifeInv, LifeOf
  <2>4. ReapInv'
    BY <1>9 DEF StreamReadsTickers, ReceiverTickers, ReapInv, ReapOf
  <2>5. RegistryConsistent'
    BY <1>9
    DEF StreamReadsTickers, ReceiverTickers, RegistryConsistent, ConsistentAt,
        Removing, Adding
  <2> QED
    BY <1>0, <2>1, <2>2, <2>3, <2>4, <2>5
<1>10. CASE StreamRemovesReceiver(id)
  <2>1. HandlerInv'
    BY <1>10 DEF StreamRemovesReceiver, RemoveFromReceivers, HandlerInv
  <2>2. PhaseInv'
    <3> SUFFICES ASSUME NEW d \in Conn PROVE PhaseOf(d)'
      BY DEF PhaseInv
    <3>1. CASE hid[d] = id
      BY <1>10, <3>1
      DEF StreamRemovesReceiver, RemoveFromReceivers, PhaseInv, PhaseOf,
          HandlerInv
    <3>2. CASE hid[d] # id
      BY <1>10, <3>2
      DEF StreamRemovesReceiver, RemoveFromReceivers, PhaseInv, PhaseOf
    <3> QED
      BY <3>1, <3>2
  <2>3. LifeInv'
    BY <1>10 DEF StreamRemovesReceiver, RemoveFromReceivers, LifeInv, LifeOf
  <2>4. ReapInv'
    BY <1>10 DEF StreamRemovesReceiver, RemoveFromReceivers, ReapInv, ReapOf
  <2>5. RegistryConsistent'
    BY <1>10
    DEF StreamRemovesReceiver, RemoveFromReceivers, RegistryConsistent,
        ConsistentAt, Removing, Adding, LifeInv, LifeOf
  <2> QED
    BY <1>0, <2>1, <2>2, <2>3, <2>4, <2>5
<1>11. CASE StreamRemovesTickers(id)
  <2>1. HandlerInv'
    BY <1>11 DEF StreamRemovesTickers, RemoveFromTickers, HandlerInv
  <2>2. PhaseInv'
    BY <1>11
    DEF StreamRemovesTickers, RemoveFromTickers, PhaseInv, PhaseOf, HandlerInv
  <2>3. LifeInv'
    BY <1>11 DEF StreamRemovesTickers, RemoveFromTickers, LifeInv, LifeOf
  <2>4. ReapInv'
    BY <1>11 DEF StreamRemovesTickers, RemoveFromTickers, ReapInv, ReapOf
  <2>5. RegistryConsistent'
    BY <1>11
    DEF StreamRemovesTickers, RemoveFromTickers, RegistryConsistent,
        ConsistentAt, Removing, Adding, LifeInv, LifeOf
  <2> QED
    BY <1>0, <2>1, <2>2, <2>3, <2>4, <2>5
<1>12. CASE MonitorExpires(id)
  <2>1. HandlerInv'
    BY <1>12 DEF MonitorExpires, HandlerInv
  <2>2. PhaseInv'
    BY <1>12 DEF MonitorExpires, PhaseInv, PhaseOf
  <2>3. LifeInv'
    BY <1>12 DEF MonitorExpires, LifeInv, LifeOf
  <2>4. ReapInv'
    BY <1>12 DEF MonitorExpires, ReapInv, ReapOf
  <2>5. RegistryConsistent'
    BY <1>12
    DEF MonitorExpires, RegistryConsistent, ConsistentAt, Removing, Adding
  <2> QED
    BY <1>0, <2>1, <2>2, <2>3, <2>4, <2>5
<1>13. CASE MonitorPanics(id)
  <2>1. HandlerInv'
    BY <1>13 DEF MonitorPanics, HandlerInv
  <2>2. PhaseInv'
    BY <1>13 DEF MonitorPanics, PhaseInv, PhaseOf
  <2>3. LifeInv'
    BY <1>13 DEF MonitorPanics, LifeInv, LifeOf
  <2>4. ReapInv'
    BY <1>13 DEF MonitorPanics, ReapInv, ReapOf
  <2>5. RegistryConsistent'
    BY <1>13
    DEF MonitorPanics, RegistryConsistent, ConsistentAt, Removing, Adding
  <2> QED
    BY <1>0, <2>1, <2>2, <2>3, <2>4, <2>5
<1> QED
  BY <1>1, <1>2, <1>3, <1>4, <1>5, <1>6, <1>7, <1>8, <1>9, <1>10, <1>11,
     <1>12, <1>13
  DEF StreamStep, MonitorStep

\* The steps of a ticker thread preserve it.
LEMMA TickerInd ==
  ASSUME IndInv, NEW t \in Ticker, TickerThread(t)
  PROVE  IndInv'
<1> USE IdType DEF IndInv, TypeOK, GeneratorTypeOK, generatorVars, registryVars,
      channelVars, sharedVars, tickerVars, reapVars, handlerVars,
      processorVars, streamVars, Unregistered
<1> USE DEF TickerThread
<1>0. TypeOK' /\ CheckedTickers'
  BY TickerTypes DEF CheckedTickers, TickerThread, handlerVars, processorVars
<1>1. CASE GenerateQuote(t)
  <2>1. HandlerInv'
    BY <1>1 DEF GenerateQuote, HandlerInv
  <2>2. PhaseInv'
    BY <1>1 DEF GenerateQuote, PhaseInv, PhaseOf
  <2>3. LifeInv'
    BY <1>1 DEF GenerateQuote, LifeInv, LifeOf
  <2>4. ReapInv'
    BY <1>1 DEF GenerateQuote, ReapInv, ReapOf
  <2>5. RegistryConsistent'
    BY <1>1
    DEF GenerateQuote, RegistryConsistent, ConsistentAt, Removing, Adding
  <2> QED
    BY <1>0, <2>1, <2>2, <2>3, <2>4, <2>5
<1>2. CASE LookupReceivers(t)
  <2>1. HandlerInv'
    BY <1>2 DEF LookupReceivers, HandlerInv
  <2>2. PhaseInv'
    BY <1>2 DEF LookupReceivers, PhaseInv, PhaseOf
  <2>3. LifeInv'
    BY <1>2 DEF LookupReceivers, LifeInv, LifeOf
  <2>4. ReapInv'
    BY <1>2 DEF LookupReceivers, ReapInv, ReapOf
  <2>5. RegistryConsistent'
    BY <1>2
    DEF LookupReceivers, RegistryConsistent, ConsistentAt, Removing, Adding
  <2> QED
    BY <1>0, <2>1, <2>2, <2>3, <2>4, <2>5
<1>3. CASE LockReceivers(t)
  <2>1. HandlerInv'
    BY <1>3 DEF LockReceivers, HandlerInv
  <2>2. PhaseInv'
    BY <1>3 DEF LockReceivers, PhaseInv, PhaseOf
  <2>3. LifeInv'
    BY <1>3 DEF LockReceivers, LifeInv, LifeOf
  <2>4. ReapInv'
    BY <1>3 DEF LockReceivers, ReapInv, ReapOf
  <2>5. RegistryConsistent'
    BY <1>3
    DEF LockReceivers, RegistryConsistent, ConsistentAt, Removing, Adding
  <2> QED
    BY <1>0, <2>1, <2>2, <2>3, <2>4, <2>5
<1>4. ASSUME NEW id \in Id, SendQuote(t, id) PROVE IndInv'
  <2>1. HandlerInv'
    BY <1>4 DEF SendQuote, HandlerInv
  <2>2. PhaseInv'
    BY <1>4 DEF SendQuote, PhaseInv, PhaseOf
  <2>3. LifeInv'
    BY <1>4 DEF SendQuote, LifeInv, LifeOf
  <2>4. ReapInv'
    BY <1>4 DEF SendQuote, ReapInv, ReapOf, LifeInv, LifeOf
  <2>5. RegistryConsistent'
    BY <1>4 DEF SendQuote, RegistryConsistent, ConsistentAt, Removing, Adding
  <2> QED
    BY <1>0, <2>1, <2>2, <2>3, <2>4, <2>5
<1>5. CASE UnlockReceivers(t)
  <2>1. HandlerInv'
    BY <1>5 DEF UnlockReceivers, HandlerInv
  <2>2. PhaseInv'
    BY <1>5 DEF UnlockReceivers, PhaseInv, PhaseOf
  <2>3. LifeInv'
    BY <1>5 DEF UnlockReceivers, LifeInv, LifeOf
  <2>4. ReapInv'
    BY <1>5 DEF UnlockReceivers, ReapInv, ReapOf
  <2>5. RegistryConsistent'
    BY <1>5
    DEF UnlockReceivers, RegistryConsistent, ConsistentAt, Removing, Adding
  <2> QED
    BY <1>0, <2>1, <2>2, <2>3, <2>4, <2>5
<1>6. ASSUME NEW id \in Id, ReapReadsTickers(t, id) PROVE IndInv'
  <2>1. HandlerInv'
    BY <1>6 DEF ReapReadsTickers, ReceiverTickers, HandlerInv
  <2>2. PhaseInv'
    BY <1>6 DEF ReapReadsTickers, ReceiverTickers, PhaseInv, PhaseOf
  <2>3. LifeInv'
    BY <1>6 DEF ReapReadsTickers, ReceiverTickers, LifeInv, LifeOf
  <2>4. ReapInv'
    BY <1>6 DEF ReapReadsTickers, ReceiverTickers, ReapInv, ReapOf
  <2>5. RegistryConsistent'
    BY <1>6
    DEF ReapReadsTickers, ReceiverTickers, RegistryConsistent, ConsistentAt,
        Removing, Adding
  <2> QED
    BY <1>0, <2>1, <2>2, <2>3, <2>4, <2>5
<1>7. CASE ReapRemovesReceiver(t)
  <2>1. HandlerInv'
    BY <1>7 DEF ReapRemovesReceiver, RemoveFromReceivers, HandlerInv
  <2>0. spc[reap_id[t]] = "panicked"
    BY <1>7 DEF ReapRemovesReceiver, ReapInv, ReapOf
  <2>2. PhaseInv'
    <3> SUFFICES ASSUME NEW d \in Conn PROVE PhaseOf(d)'
      BY DEF PhaseInv
    <3>1. PhaseOf(d) /\ (hpc[d] \notin {"idle", "read", "err", "done"} => hreq[d] # {})
      BY DEF PhaseInv, HandlerInv
    <3>2. CASE hid[d] = reap_id[t]
      BY <1>7, <2>0, <3>1, <3>2
      DEF ReapRemovesReceiver, RemoveFromReceivers, PhaseOf
    <3>3. CASE hid[d] # reap_id[t]
      BY <1>7, <3>1, <3>3 DEF ReapRemovesReceiver, RemoveFromReceivers, PhaseOf
    <3> QED
      BY <3>2, <3>3
  <2>3. LifeInv'
    <3> SUFFICES ASSUME NEW i \in Id PROVE LifeOf(i)'
      BY DEF LifeInv
    <3>1. LifeOf(i)
      BY DEF LifeInv
    <3>2. CASE i = reap_id[t]
      BY <1>7, <2>0, <3>1, <3>2
      DEF ReapRemovesReceiver, RemoveFromReceivers, LifeOf
    <3>3. CASE i # reap_id[t]
      BY <1>7, <3>1, <3>3 DEF ReapRemovesReceiver, RemoveFromReceivers, LifeOf
    <3> QED
      BY <3>2, <3>3
  <2>4. ReapInv'
    BY <1>7 DEF ReapRemovesReceiver, RemoveFromReceivers, ReapInv, ReapOf
  <2>5. RegistryConsistent'
    BY <1>7
    DEF ReapRemovesReceiver, RemoveFromReceivers, RegistryConsistent,
        ConsistentAt, Removing, Adding, ReapInv, ReapOf
  <2> QED
    BY <1>0, <2>1, <2>2, <2>3, <2>4, <2>5
<1>8. CASE ReapRemovesTickers(t)
  <2>1. HandlerInv'
    BY <1>8 DEF ReapRemovesTickers, RemoveFromTickers, HandlerInv
  <2>2. PhaseInv'
    BY <1>8 DEF ReapRemovesTickers, RemoveFromTickers, PhaseInv, PhaseOf
  <2>3. LifeInv'
    BY <1>8 DEF ReapRemovesTickers, RemoveFromTickers, LifeInv, LifeOf
  <2>4. ReapInv'
    BY <1>8 DEF ReapRemovesTickers, RemoveFromTickers, ReapInv, ReapOf
  <2>5. RegistryConsistent'
    BY <1>8
    DEF ReapRemovesTickers, RemoveFromTickers, RegistryConsistent,
        ConsistentAt, Removing, Adding, ReapInv, ReapOf
  <2> QED
    BY <1>0, <2>1, <2>2, <2>3, <2>4, <2>5
<1> QED
  BY <1>1, <1>2, <1>3, <1>4, <1>5, <1>6, <1>7, <1>8
  DEF TickerThread, TickerStep

\* The inductive invariant holds when the server starts.
LEMMA InitInd == Init => IndInv
<1> SUFFICES ASSUME Init PROVE IndInv
  OBVIOUS
<1>1. TypeOK /\ CheckedTickers
  BY InitTypes
<1>2. HandlerInv
  <2>1. next_id <= MaxRequests /\ \A id \in Id : ~(id < next_id)
    BY GeneratorAssumption, IdType DEF Init
  <2> QED
    BY <2>1 DEF Init, HandlerInv
<1>3. PhaseInv
  BY DEF Init, PhaseInv, PhaseOf
<1>4. LifeInv
  BY DEF Init, GeneratorInit, LifeInv, LifeOf, Unregistered
<1>5. ReapInv
  BY DEF Init, GeneratorInit, ReapInv, ReapOf
<1>6. RegistryConsistent
  BY DEF Init, GeneratorInit, RegistryConsistent, ConsistentAt
<1> QED
  BY <1>1, <1>2, <1>3, <1>4, <1>5, <1>6 DEF IndInv

\* Every step of the server preserves the inductive invariant.
LEMMA NextInd == IndInv /\ [Next]_vars => IndInv'
<1> SUFFICES ASSUME IndInv, [Next]_vars PROVE IndInv'
  OBVIOUS
<1>1. CASE UNCHANGED vars
  <2> USE <1>1 DEF vars, generatorVars, registryVars, channelVars, sharedVars, tickerVars, reapVars,
        handlerVars, processorVars, streamVars, IndInv
  <2>1. TypeOK'
    BY DEF TypeOK, GeneratorTypeOK
  <2>2. CheckedTickers' /\ HandlerInv'
    BY DEF CheckedTickers, HandlerInv
  <2>3. PhaseInv'
    BY DEF PhaseInv, PhaseOf, Unregistered
  <2>4. LifeInv'
    BY DEF LifeInv, LifeOf, Unregistered
  <2>5. ReapInv'
    BY DEF ReapInv, ReapOf
  <2>6. RegistryConsistent'
    BY DEF RegistryConsistent, ConsistentAt, Removing, Adding
  <2> QED
    BY <2>1, <2>2, <2>3, <2>4, <2>5, <2>6
<1> QED
  BY <1>1, HandlerInd, StreamInd, TickerInd DEF Next

\* The inductive invariant holds in every reachable state of the server.
THEOREM IndInvCorrect == Spec => []IndInv
  BY InitInd, NextInd, PTL DEF Spec

\* The two maps of the generator stay consistent, although handlers,
\* streaming threads and ticker threads change them under two different
\* locks, taken and released one after the other.
THEOREM RegistryCorrect == Spec => []RegistryConsistent
<1>1. IndInv => RegistryConsistent
  BY DEF IndInv
<1> QED
  BY <1>1, IndInvCorrect, PTL

\* The tickers of an id are those of the one command that was given it.
LEMMA WantedIs ==
  ASSUME IndInv, NEW c \in Conn, hreq[c] # {}
  PROVE  Wanted(hid[c]) = hreq[c]
  BY DEF IndInv, HandlerInv, Wanted

\* A streaming thread in its loop is always registered for exactly the
\* tickers of its command and its channel is open, so recv_timeout never
\* reports a disconnect.
THEOREM StreamingIsFedCorrect == Spec => []StreamingIsFed
<1>1. ASSUME IndInv, NEW id \in Id, spc[id] \in {"bind", "check", "recv"}
      PROVE  /\ rx_open[id]
             /\ id \in receivers
             /\ \A t \in Ticker : id \in tickers_to_receivers[t] <=> t \in Wanted(id)
  <2>1. LifeOf(id)
    BY <1>1 DEF IndInv, LifeInv
  <2>2. id \in receivers /\ rx_open[id]
    BY <1>1, <2>1 DEF LifeOf
  <2>3. id < next_id
    <3>1. ~(id >= next_id)
      BY <1>1, <2>1 DEF LifeOf
    <3> QED
      BY <1>1, <3>1, IdType DEF IndInv, TypeOK
  <2>4. PICK c \in Conn : hreq[c] # {} /\ hid[c] = id
    BY <1>1, <2>3 DEF IndInv, HandlerInv
  <2>5. subscribed_tickers[id] = Wanted(id)
    BY <1>1, <2>2, <2>4, WantedIs DEF IndInv, PhaseInv, PhaseOf
  <2>6. ~Adding(id)
    BY <1>1 DEF IndInv, PhaseInv, PhaseOf, HandlerInv, Adding
  <2>7. ASSUME NEW t \in Ticker PROVE ~Removing(id, t)
    BY <1>1 DEF IndInv, ReapInv, ReapOf, Removing
  <2>8. ASSUME NEW t \in Ticker
        PROVE  id \in tickers_to_receivers[t] <=> t \in Wanted(id)
    <3>1. ConsistentAt(id, t)
      BY <1>1 DEF IndInv, RegistryConsistent
    <3> QED
      BY <2>2, <2>5, <2>6, <2>7, <3>1 DEF ConsistentAt
  <2> QED
    BY <2>2, <2>8
<1>2. IndInv => StreamingIsFed
  BY <1>1 DEF StreamingIsFed
<1> QED
  BY <1>2, IndInvCorrect, PTL

\* A refused subscription, and one whose streaming thread returned, is in
\* none of the three maps; no handle outlives its thread, a panic excepted.
THEOREM CleanupCorrect == Spec => []CleanupComplete
<1>1. ASSUME IndInv, NEW id \in Id, spc[id] = "done"
      PROVE  /\ id \notin receivers \cup subscribers
             /\ \A t \in Ticker : id \notin tickers_to_receivers[t]
  <2>1. LifeOf(id)
    BY <1>1 DEF IndInv, LifeInv
  <2>2. id \notin receivers
    BY <1>1, <2>1 DEF LifeOf
  <2>3. id \notin subscribers
    BY <1>1, <2>1 DEF LifeOf, IndInv, PhaseInv, PhaseOf, HandlerInv
  <2>4. ASSUME NEW t \in Ticker PROVE id \notin tickers_to_receivers[t]
    <3>1. ~Removing(id, t)
      BY <1>1 DEF IndInv, ReapInv, ReapOf, Removing
    <3> QED
      BY <1>1, <2>2, <3>1 DEF IndInv, RegistryConsistent, ConsistentAt
  <2> QED
    BY <2>2, <2>3, <2>4
<1>2. ASSUME IndInv, NEW c \in Conn, hpc[c] = "err" \/ resp[c] = "err",
             NEW id \in Id, hid[c] = id, hreq[c] # {}
      PROVE  /\ id \notin receivers \cup subscribers
             /\ \A t \in Ticker : id \notin tickers_to_receivers[t]
  BY <1>2 DEF IndInv, PhaseInv, PhaseOf, Unregistered
<1>3. ASSUME IndInv, NEW id \in subscribers
      PROVE  \/ spc[id] \in {"bind", "check", "recv", "join", "remove", "panicked"}
             \/ \E c \in Conn : hpc[c] = "spawn" /\ hid[c] = id
  BY <1>3 DEF IndInv, LifeInv, LifeOf, TypeOK
<1>4. IndInv => CleanupComplete
  BY <1>1, <1>2, <1>3 DEF CleanupComplete
<1> QED
  BY <1>4, IndInvCorrect, PTL

-----------------------------------------------------------------------------
(***************************************************************************)
(* The streaming thread and its monitor.                                   *)
(***************************************************************************)

\* While a streaming thread is in its loop only its monitor, in ending, can
\* have set shutdown; before the loop nobody has and there is no monitor.
JoinOf(id) ==
  /\ spc[id] \in {"none", "bind"} => ~shutdown[id] /\ mpc[id] = "none"
  /\ spc[id] \in {"check", "recv"} /\ shutdown[id] => mpc[id] = "done"
  /\ spc[id] = "join" => mpc[id] = "done"

JoinInv == \A id \in Id : JoinOf(id)

\* Handlers leave the flag and the monitor alone; the thread they spawn was
\* not there before.
LEMMA HandlerJoin ==
  ASSUME IndInv, JoinInv, NEW c \in Conn, HandlerStep(c)
  PROVE  JoinInv'
<1> USE DEF JoinInv, JoinOf, IndInv, TypeOK, handlerVars, processorVars, streamVars
<1>1. CASE SpawnStreaming(c) \/ SpawnPanics(c)
  <2>1. hpc[c] = "spawn" /\ hid[c] \in Id /\ hreq[c] # {}
    BY <1>1 DEF SpawnStreaming, SpawnPanics, HandlerInv
  <2>2. spc[hid[c]] = "none"
    BY <2>1 DEF PhaseInv, PhaseOf
  <2> QED
    BY <1>1, <2>1, <2>2 DEF SpawnStreaming, SpawnPanics
<1>2. CASE ~(SpawnStreaming(c) \/ SpawnPanics(c))
  <2>1. UNCHANGED <<spc, mpc, shutdown>>
    BY <1>2 DEF HandlerStep, Accept, ReadFails, ReadUnexpected, ReadCommand,
        AddRejected, AddChecked, AddInserted, AddSubscribed,
        RegisterSubscriber, Respond
  <2> QED
    BY <2>1
<1> QED
  BY <1>1, <1>2

\* The streaming thread leaves its loop only after it has seen the flag: its
\* receiver is registered (LifeOf), so it never sees a disconnect.
LEMMA StreamJoin ==
  ASSUME IndInv, JoinInv, NEW id \in Id, StreamStep(id) \/ MonitorStep(id)
  PROVE  JoinInv'
<1> USE DEF JoinInv, JoinOf, IndInv, TypeOK, processorVars, streamVars
<1>1. CASE BindFails(id) \/ StartMonitor(id) \/ StreamingPanics(id)
  BY <1>1 DEF BindFails, StartMonitor, StreamingPanics
<1>2. CASE CheckShutdown(id)
  BY <1>2 DEF CheckShutdown
<1>3. CASE StreamQuote(id)
  <2>1. spc[id] = "recv" /\ id \in receivers
    BY <1>3 DEF StreamQuote, LifeInv, LifeOf
  <2>2. RecvTimeout(id) # "disconnected"
    BY <2>1 DEF RecvTimeout
  <2>3. spc' = [spc EXCEPT ![id] = "check"] /\ UNCHANGED <<shutdown, mpc>>
    BY <1>3, <2>2 DEF StreamQuote
  <2> QED
    BY <2>1, <2>3
<1>4. CASE JoinMonitor(id)
  BY <1>4 DEF JoinMonitor
<1>5. CASE RemoveSubscriber(id)
  BY <1>5 DEF RemoveSubscriber
<1>6. CASE LockGenerator(id) \/ StreamReadsTickers(id)
           \/ StreamRemovesReceiver(id) \/ StreamRemovesTickers(id)
  BY <1>6 DEF LockGenerator, StreamReadsTickers, StreamRemovesReceiver,
      StreamRemovesTickers
<1>7. CASE MonitorExpires(id)
  BY <1>7 DEF MonitorExpires
<1>8. CASE MonitorPanics(id)
  BY <1>8 DEF MonitorPanics
<1> QED
  BY <1>1, <1>2, <1>3, <1>4, <1>5, <1>6, <1>7, <1>8 DEF StreamStep, MonitorStep

\* A streaming thread that joins its monitor finds it ended: it gets there
\* only by the monitor's signal, never because its channel was disconnected,
\* so the join cannot keep it from cleaning up.
THEOREM JoinNeverWaitsCorrect == Spec => []JoinNeverWaits
<1>1. Init => JoinInv
  BY DEF Init, JoinInv, JoinOf
<1>2. IndInv /\ JoinInv /\ [Next]_vars => JoinInv'
  <2> SUFFICES ASSUME IndInv, JoinInv, [Next]_vars PROVE JoinInv'
    OBVIOUS
  <2>1. CASE UNCHANGED <<spc, mpc, shutdown>>
    BY <2>1 DEF JoinInv, JoinOf
  <2>2. ASSUME NEW t \in Ticker, TickerThread(t) PROVE JoinInv'
    BY <2>1, <2>2 DEF TickerThread, processorVars, streamVars
  <2>3. CASE UNCHANGED vars
    BY <2>1, <2>3 DEF vars, processorVars, streamVars
  <2> QED
    BY <2>2, <2>3, HandlerJoin, StreamJoin DEF Next
<1>3. JoinInv => JoinNeverWaits
  BY DEF JoinInv, JoinOf, JoinNeverWaits
<1> QED
  BY <1>1, <1>2, <1>3, IndInvCorrect, PTL DEF Spec

-----------------------------------------------------------------------------
(***************************************************************************)
(* What subscribers are sent: no quote that was not asked for, no gap, and *)
(* the refinement of PubSub.  The proofs rest on the invariant of the two  *)
(* maps (IndInv) and on a second one about the copies ticker threads take  *)
(* of the sets of ids and about the channels.                              *)
(***************************************************************************)

\* The sets of ids of a ticker, and the copies of them that a ticker thread
\* works on after it has released the lock, hold only ids that asked for the
\* ticker; and a copied id that still has a receiver is still in the set.
CopyOf(id, t) ==
  /\ id \in tickers_to_receivers[t] => t \in Wanted(id)
  /\ id \in receiver_ids[t] => t \in Wanted(id)
  /\ id \in receiver_ids[t] /\ id \in receivers => id \in tickers_to_receivers[t]

CopyInv == \A id \in Id, t \in Ticker : CopyOf(id, t)

\* The id has not been put into the set of any ticker yet.
NotYet(id) ==
  \/ id >= next_id
  \/ \E c \in Conn : hpc[c] \in {"lock", "insert", "subscribe"} /\ hid[c] = id

\* Nobody knows of an id before it is in the set of a ticker.
UnknownOf(id) ==
  NotYet(id) => channel[id] = <<>> /\ \A t \in Ticker : id \notin receiver_ids[t]

UnknownInv == \A id \in Id : UnknownOf(id)

\* A thread about to send has copied every receiver that was already sent a
\* quote of its ticker.
CopiedOf(id, t) ==
  tpc[t] = "read_lock" /\ id \in receivers =>
    \A i \in 1 .. Len(channel[id]) :
      channel[id][i].ticker = t => id \in receiver_ids[t]

CopiedInv == \A id \in Id, t \in Ticker : CopiedOf(id, t)

\* When the Receiver of a channel is dropped its quotes go with it.
ClosedOf(id) == ~rx_open[id] => channel[id] = <<>>

ClosedInv == \A id \in Id : ClosedOf(id)

DeliveryInv ==
  /\ IndInv
  /\ CopyInv
  /\ UnknownInv
  /\ ClosedInv
  /\ CopiedInv
  /\ NoMisdelivery
  /\ GapFree

\* GapFree and NoMisdelivery, for one subscriber and one ticker.
QueueOf(id, t) ==
  /\ \A i, j \in 1 .. Len(channel[id]) :
       Successive(channel[id], t, i, j) =>
         channel[id][j].number = (channel[id][i].number + 1) % Wrap
  /\ \A i \in 1 .. Len(channel[id]) :
       IsLast(channel[id], t, i) /\ id \in receivers =>
         number[t] = IF Pending(id, t) THEN (channel[id][i].number + 1) % Wrap
                                       ELSE channel[id][i].number

WantedOf(id) ==
  \A i \in 1 .. Len(channel[id]) : channel[id][i].ticker \in Wanted(id)

\* The two properties are those of every subscriber and ticker.
LEMMA QueueParts ==
  /\ GapFree <=> \A id \in Id, t \in Ticker : QueueOf(id, t)
  /\ NoMisdelivery <=> \A id \in Id : WantedOf(id)
  BY DEF GapFree, QueueOf, NoMisdelivery, WantedOf

-----------------------------------------------------------------------------
(***************************************************************************)
(* Queues.                                                                 *)
(***************************************************************************)

\* What is left after the first quote was taken.
LEMMA TailQueue ==
  ASSUME NEW s \in Seq(Quote), s # <<>>, NEW t
  PROVE  /\ Tail(s) \in Seq(Quote)
         /\ Len(Tail(s)) = Len(s) - 1
         /\ \A i \in 1 .. Len(Tail(s)) :
              i + 1 \in 1 .. Len(s) /\ Tail(s)[i] = s[i + 1]
         /\ \A i, j \in 1 .. Len(Tail(s)) :
              Successive(Tail(s), t, i, j) => Successive(s, t, i + 1, j + 1)
         /\ \A i \in 1 .. Len(Tail(s)) :
              IsLast(Tail(s), t, i) => IsLast(s, t, i + 1)
<1>1. /\ Tail(s) \in Seq(Quote)
      /\ Len(Tail(s)) = Len(s) - 1
      /\ \A i \in 1 .. Len(Tail(s)) :
           i + 1 \in 1 .. Len(s) /\ Tail(s)[i] = s[i + 1]
  OBVIOUS
<1>2. ASSUME NEW i \in 1 .. Len(Tail(s)), NEW j \in 1 .. Len(Tail(s)),
             Successive(Tail(s), t, i, j)
      PROVE  Successive(s, t, i + 1, j + 1)
  <2>1. i + 1 < j + 1 /\ s[i + 1].ticker = t /\ s[j + 1].ticker = t
    BY <1>1, <1>2 DEF Successive
  <2>2. ASSUME NEW k \in (i + 1 + 1) .. (j + 1 - 1) PROVE s[k].ticker # t
    <3>1. k - 1 \in (i + 1) .. (j - 1) /\ k - 1 \in 1 .. Len(Tail(s))
      BY <1>1
    <3>2. Tail(s)[k - 1].ticker # t
      BY <1>2, <3>1 DEF Successive
    <3> QED
      BY <1>1, <3>1, <3>2
  <2> QED
    BY <2>1, <2>2 DEF Successive
<1>3. ASSUME NEW i \in 1 .. Len(Tail(s)), IsLast(Tail(s), t, i)
      PROVE  IsLast(s, t, i + 1)
  <2>1. s[i + 1].ticker = t
    BY <1>1, <1>3 DEF IsLast
  <2>2. ASSUME NEW k \in (i + 1 + 1) .. Len(s) PROVE s[k].ticker # t
    <3>1. k - 1 \in (i + 1) .. Len(Tail(s)) /\ k - 1 \in 1 .. Len(Tail(s))
      BY <1>1
    <3>2. Tail(s)[k - 1].ticker # t
      BY <1>3, <3>1 DEF IsLast
    <3> QED
      BY <1>1, <3>1, <3>2
  <2> QED
    BY <2>1, <2>2 DEF IsLast
<1> QED
  BY <1>1, <1>2, <1>3

\* A quote is put at the end of a queue: the new quote of t follows the last
\* one, and a quote of another ticker changes nothing for t.
LEMMA AppendQueue ==
  ASSUME NEW s \in Seq(Quote), NEW q \in Quote, NEW t
  PROVE  /\ Append(s, q) \in Seq(Quote)
         /\ Len(Append(s, q)) = Len(s) + 1
         /\ \A i \in 1 .. Len(s) : Append(s, q)[i] = s[i]
         /\ Append(s, q)[Len(s) + 1] = q
         /\ \A i, j \in 1 .. Len(s) :
              Successive(Append(s, q), t, i, j) => Successive(s, t, i, j)
         /\ \A i \in 1 .. Len(s) :
              Successive(Append(s, q), t, i, Len(s) + 1) => IsLast(s, t, i)
         /\ \A i \in 1 .. Len(s) :
              IsLast(Append(s, q), t, i) => q.ticker # t /\ IsLast(s, t, i)
<1>1. /\ Append(s, q) \in Seq(Quote)
      /\ Len(Append(s, q)) = Len(s) + 1
      /\ \A i \in 1 .. Len(s) : Append(s, q)[i] = s[i]
      /\ Append(s, q)[Len(s) + 1] = q
      /\ Len(s) \in Nat
  OBVIOUS
<1>2. ASSUME NEW i \in 1 .. Len(s), NEW j \in 1 .. Len(s),
             Successive(Append(s, q), t, i, j)
      PROVE  Successive(s, t, i, j)
  <2>1. ASSUME NEW k \in (i + 1) .. (j - 1) PROVE s[k].ticker # t
    <3>1. k \in 1 .. Len(s)
      BY <1>1
    <3> QED
      BY <1>1, <1>2, <3>1 DEF Successive
  <2> QED
    BY <1>1, <1>2, <2>1 DEF Successive
<1>3. ASSUME NEW i \in 1 .. Len(s), Successive(Append(s, q), t, i, Len(s) + 1)
      PROVE  IsLast(s, t, i)
  <2>1. ASSUME NEW k \in (i + 1) .. Len(s) PROVE s[k].ticker # t
    <3>1. k \in 1 .. Len(s) /\ k \in (i + 1) .. (Len(s) + 1 - 1)
      BY <1>1
    <3> QED
      BY <1>1, <1>3, <3>1 DEF Successive
  <2> QED
    BY <1>1, <1>3, <2>1 DEF Successive, IsLast
<1>4. ASSUME NEW i \in 1 .. Len(s), IsLast(Append(s, q), t, i)
      PROVE  q.ticker # t /\ IsLast(s, t, i)
  <2>1. Len(s) + 1 \in (i + 1) .. Len(Append(s, q))
    BY <1>1
  <2>2. q.ticker # t
    BY <1>1, <1>4, <2>1 DEF IsLast
  <2>3. ASSUME NEW k \in (i + 1) .. Len(s) PROVE s[k].ticker # t
    <3>1. k \in 1 .. Len(s) /\ k \in (i + 1) .. Len(Append(s, q))
      BY <1>1
    <3> QED
      BY <1>1, <1>4, <3>1 DEF IsLast
  <2> QED
    BY <1>1, <1>4, <2>2, <2>3 DEF IsLast
<1> QED
  BY <1>1, <1>2, <1>3, <1>4

\* A step that takes quotes out of a queue, or leaves it alone, and lets the
\* thread of t be keeps what is known of the quotes of t in it.
LEMMA QueueKept ==
  ASSUME NEW id \in Id, NEW t \in Ticker, TypeOK,
         QueueOf(id, t), CopiedOf(id, t),
         \/ channel'[id] = <<>>
         \/ channel'[id] = channel[id]
         \/ channel[id] # <<>> /\ channel'[id] = Tail(channel[id]),
         channel'[id] # <<>> /\ id \in receivers' => id \in receivers,
         number'[t] = number[t],
         Pending(id, t)' <=> Pending(id, t),
         tpc'[t] = "read_lock" =>
           tpc[t] = "read_lock" /\ receiver_ids'[t] = receiver_ids[t]
  PROVE  QueueOf(id, t)' /\ CopiedOf(id, t)'
<1>0. channel[id] \in Seq(Quote)
  BY DEF TypeOK, GeneratorTypeOK
<1>1. CASE channel'[id] = <<>>
  <2>1. 1 .. Len(channel'[id]) = {}
    BY <1>1
  <2> QED
    BY <2>1 DEF QueueOf, CopiedOf
<1>2. CASE channel'[id] = channel[id] /\ channel[id] # <<>>
  BY <1>2 DEF QueueOf, CopiedOf
<1>3. CASE channel'[id] = Tail(channel[id]) /\ channel[id] # <<>>
             /\ channel'[id] # <<>>
  <2>0. id \in receivers' => id \in receivers
    BY <1>3
  <2>1. ASSUME NEW i \in 1 .. Len(channel'[id]), NEW j \in 1 .. Len(channel'[id]),
               Successive(channel'[id], t, i, j)
        PROVE  channel'[id][j].number = (channel'[id][i].number + 1) % Wrap
    <3>1. /\ i + 1 \in 1 .. Len(channel[id]) /\ j + 1 \in 1 .. Len(channel[id])
          /\ Successive(channel[id], t, i + 1, j + 1)
          /\ channel'[id][i] = channel[id][i + 1]
          /\ channel'[id][j] = channel[id][j + 1]
      BY <1>0, <1>3, <2>1, TailQueue
    <3> QED
      BY <3>1 DEF QueueOf
  <2>2. ASSUME NEW i \in 1 .. Len(channel'[id]), IsLast(channel'[id], t, i),
               id \in receivers'
        PROVE  number'[t] = IF Pending(id, t)' THEN (channel'[id][i].number + 1) % Wrap
                                               ELSE channel'[id][i].number
    <3>1. /\ i + 1 \in 1 .. Len(channel[id])
          /\ IsLast(channel[id], t, i + 1)
          /\ channel'[id][i] = channel[id][i + 1]
      BY <1>0, <1>3, <2>2, TailQueue
    <3> QED
      BY <2>0, <2>2, <3>1 DEF QueueOf
  <2>3. CopiedOf(id, t)'
    BY <1>0, <1>3, <2>0, TailQueue DEF CopiedOf
  <2> QED
    BY <2>1, <2>2, <2>3 DEF QueueOf
<1> QED
  BY <1>1, <1>2, <1>3

\* The same for the addressees: the tickers of an id are never taken back.
LEMMA WantedKept ==
  ASSUME NEW id \in Id, TypeOK, WantedOf(id), Wanted(id) \subseteq Wanted(id)',
         \/ channel'[id] = <<>>
         \/ channel'[id] = channel[id]
         \/ channel[id] # <<>> /\ channel'[id] = Tail(channel[id])
  PROVE  WantedOf(id)'
<1>0. channel[id] \in Seq(Quote)
  BY DEF TypeOK, GeneratorTypeOK
<1>1. CASE channel'[id] = <<>>
  <2>1. 1 .. Len(channel'[id]) = {}
    BY <1>1
  <2> QED
    BY <2>1 DEF WantedOf
<1>2. CASE channel'[id] = channel[id]
  BY <1>2 DEF WantedOf
<1>3. CASE channel[id] # <<>> /\ channel'[id] = Tail(channel[id])
  BY <1>0, <1>3, TailQueue DEF WantedOf
<1> QED
  BY <1>1, <1>2, <1>3

-----------------------------------------------------------------------------
(***************************************************************************)
(* The steps of handler, streaming and monitor threads.                    *)
(***************************************************************************)

\* What a handler does to the state that ticker threads work on.
LEMMA HandlerEffect ==
  ASSUME IndInv, NEW c \in Conn, HandlerStep(c)
  PROVE  /\ UNCHANGED tickerVars
         /\ channel' = channel \/ channel' = [channel EXCEPT ![hid[c]] = <<>>]
         /\ \/ receivers' = receivers
            \/ hpc[c] = "insert" /\ receivers' = receivers \cup {hid[c]}
         /\ \/ tickers_to_receivers' = tickers_to_receivers
            \/ /\ hpc[c] = "subscribe"
               /\ tickers_to_receivers' =
                    [t \in Ticker |->
                       IF t \in hreq[c] THEN tickers_to_receivers[t] \cup {hid[c]}
                                        ELSE tickers_to_receivers[t]]
<1> USE DEF generatorVars, registryVars, channelVars, sharedVars
<1>1. CASE ~AddInserted(c) /\ ~AddSubscribed(c)
  BY <1>1 DEF HandlerStep, Accept, ReadFails, ReadUnexpected, ReadCommand,
    AddRejected, AddReceiverRejects, AddChecked, AddReceiverChecks,
    RegisterSubscriber, SpawnStreaming, SpawnPanics, Respond
<1>2. CASE AddInserted(c)
  BY <1>2 DEF AddInserted, AddReceiverInserts
<1>3. CASE AddSubscribed(c)
  BY <1>3 DEF AddSubscribed, AddReceiverSubscribes
<1> QED
  BY <1>1, <1>2, <1>3

\* A handler never takes back what an id asked for: it reads one command,
\* and gives it an id nobody has had.
LEMMA HandlerWants ==
  ASSUME IndInv, NEW c \in Conn, HandlerStep(c), NEW id \in Id
  PROVE  Wanted(id) \subseteq Wanted(id)'
<1>1. CASE UNCHANGED <<hid, hreq>>
  BY <1>1 DEF Wanted
<1>2. ASSUME NEW ts \in Request, ReadCommand(c, ts)
      PROVE  Wanted(id) \subseteq Wanted(id)'
  <2>1. hreq[c] = {}
    BY <1>2 DEF ReadCommand, IndInv, HandlerInv
  <2>2. ASSUME NEW d \in Conn, d # c PROVE hid'[d] = hid[d] /\ hreq'[d] = hreq[d]
    BY <1>2, <2>2 DEF ReadCommand, IndInv, TypeOK
  <2> QED
    BY <2>1, <2>2 DEF Wanted
<1>3. UNCHANGED <<hid, hreq>> \/ \E ts \in Request : ReadCommand(c, ts)
  BY DEF HandlerStep, Accept, ReadFails, ReadUnexpected,
    AddRejected, AddChecked, AddInserted, AddSubscribed, RegisterSubscriber,
    SpawnStreaming, SpawnPanics, Respond
<1> QED
  BY <1>1, <1>2, <1>3

\* An id is unknown until its handler puts it into the sets of its tickers.
LEMMA HandlerNotYet ==
  ASSUME IndInv, NEW c \in Conn, HandlerStep(c), NEW id \in Id, NotYet(id)'
  PROVE  NotYet(id)
<1> USE DEF IndInv, TypeOK
<1>1. ASSUME NEW ts \in Request, ReadCommand(c, ts) PROVE NotYet(id)
  <2>1. CASE id >= next_id
    BY <2>1 DEF NotYet
  <2>2. CASE ~(id >= next_id)
    <3>1. id # next_id /\ ~(id >= next_id')
      BY <1>1, <2>2, IdType DEF ReadCommand
    <3>2. PICK d \in Conn :
             hpc'[d] \in {"lock", "insert", "subscribe"} /\ hid'[d] = id
      BY <3>1 DEF NotYet
    <3>3. d # c
      BY <1>1, <3>1, <3>2 DEF ReadCommand
    <3> QED
      BY <1>1, <3>2, <3>3 DEF ReadCommand, NotYet
  <2> QED
    BY <2>1, <2>2
<1>2. CASE ~\E ts \in Request : ReadCommand(c, ts)
  <2>1. UNCHANGED <<hid, next_id>>
    BY <1>2 DEF HandlerStep, Accept, ReadFails, ReadUnexpected,
      AddRejected, AddChecked, AddInserted, AddSubscribed, RegisterSubscriber,
      SpawnStreaming, SpawnPanics, Respond, processorVars
  <2>2. ASSUME NEW d \in Conn, hpc'[d] \in {"lock", "insert", "subscribe"}
        PROVE  hpc[d] \in {"lock", "insert", "subscribe"}
    BY <1>2, <2>2 DEF HandlerStep, Accept, ReadFails, ReadUnexpected,
      AddRejected, AddChecked, AddInserted, AddSubscribed, RegisterSubscriber,
      SpawnStreaming, SpawnPanics, Respond
  <2> QED
    BY <2>1, <2>2 DEF NotYet
<1> QED
  BY <1>1, <1>2

\* A handler that closes a channel empties it, or has just created it.
LEMMA HandlerCloses ==
  ASSUME DeliveryInv, NEW c \in Conn, HandlerStep(c), NEW id \in Id
  PROVE  ClosedOf(id)'
<1> USE DEF DeliveryInv, IndInv, TypeOK, GeneratorTypeOK, generatorVars,
      channelVars, sharedVars
<1>0. ClosedOf(id) /\ UnknownOf(id) /\ hid[c] \in Id
  BY DEF ClosedInv, UnknownInv
<1>1. CASE AddRejected(c)
  <2>1. hpc[c] = "lock" /\ rx_open' = [rx_open EXCEPT ![hid[c]] = FALSE]
        /\ channel' = channel
    BY <1>1 DEF AddRejected
  <2>2. CASE id = hid[c]
    BY <1>0, <2>1, <2>2 DEF ClosedOf, UnknownOf, NotYet
  <2>3. CASE id # hid[c]
    BY <1>0, <2>1, <2>3 DEF ClosedOf
  <2> QED
    BY <2>2, <2>3
<1>2. ASSUME NEW ts \in Request, ReadCommand(c, ts) PROVE ClosedOf(id)'
  BY <1>0, <1>2, NextIdInRange DEF ReadCommand, ClosedOf
<1>3. CASE SpawnPanics(c)
  BY <1>0, <1>3 DEF SpawnPanics, ClosedOf
<1>4. CASE UNCHANGED <<rx_open, channel>>
  BY <1>0, <1>4 DEF ClosedOf
<1> QED
  BY <1>1, <1>2, <1>3, <1>4 DEF HandlerStep, Accept, ReadFails, ReadUnexpected,
    AddChecked, AddInserted, AddSubscribed, RegisterSubscriber,
    SpawnStreaming, Respond

\* The steps of a handler thread preserve the invariant.
LEMMA HandlerDelivery ==
  ASSUME DeliveryInv, NEW c \in Conn, HandlerStep(c)
  PROVE  DeliveryInv'
<1> DEFINE I == hid[c]
<1>0. /\ IndInv /\ TypeOK /\ I \in Id
      /\ UNCHANGED <<number, tpc, receiver_ids>>
      /\ channel \in [Id -> Seq(Quote)]
      /\ tickers_to_receivers \in [Ticker -> SUBSET Id]
  BY HandlerEffect DEF DeliveryInv, IndInv, TypeOK, GeneratorTypeOK, tickerVars
<1>1. IndInv'
  BY <1>0, HandlerInd
<1>2. ASSUME NEW id \in Id, NEW t \in Ticker PROVE CopyOf(id, t)'
  <2>1. CopyOf(id, t) /\ Wanted(id) \subseteq Wanted(id)'
    BY <1>0, HandlerWants DEF DeliveryInv, CopyInv
  <2>2. id \in receiver_ids[t] /\ id \in receivers' => id \in receivers
    <3>1. UnknownOf(I)
      BY <1>0 DEF DeliveryInv, UnknownInv
    <3>2. hpc[c] = "insert" => I \notin receiver_ids[t]
      BY <3>1 DEF UnknownOf, NotYet
    <3> QED
      BY <1>0, <3>2, HandlerEffect
  <2>3. id \in tickers_to_receivers[t] => id \in tickers_to_receivers'[t]
    <3>1. CASE tickers_to_receivers' = tickers_to_receivers
      BY <3>1
    <3>2. CASE tickers_to_receivers' # tickers_to_receivers
      <4>1. tickers_to_receivers' =
              [x \in Ticker |->
                 IF x \in hreq[c] THEN tickers_to_receivers[x] \cup {hid[c]}
                                  ELSE tickers_to_receivers[x]]
        BY <1>0, <3>2, HandlerEffect, Zenon
      <4> QED
        BY <4>1
    <3> QED
      BY <3>1, <3>2
  <2>4. id \in tickers_to_receivers'[t] /\ id \notin tickers_to_receivers[t] =>
          t \in Wanted(id)
    <3>1. SUFFICES ASSUME id \in tickers_to_receivers'[t],
                          id \notin tickers_to_receivers[t]
                   PROVE  t \in Wanted(id)
      OBVIOUS
    <3>2. id = I /\ t \in hreq[c]
      BY <1>0, <3>1, HandlerEffect
    <3> QED
      BY <3>2 DEF Wanted
  <2> QED
    BY <1>0, <2>1, <2>2, <2>3, <2>4 DEF CopyOf
<1>3. ASSUME NEW id \in Id PROVE UnknownOf(id)'
  <2>1. UnknownOf(id) /\ (NotYet(id)' => NotYet(id))
    BY <1>0, HandlerNotYet DEF DeliveryInv, UnknownInv
  <2>2. channel[id] = <<>> => channel'[id] = <<>>
    BY <1>0, HandlerEffect
  <2> QED
    BY <1>0, <2>1, <2>2 DEF UnknownOf
<1>4. ASSUME NEW id \in Id, NEW t \in Ticker
      PROVE  QueueOf(id, t)' /\ CopiedOf(id, t)'
  <2>1. QueueOf(id, t) /\ CopiedOf(id, t)
    BY QueueParts DEF DeliveryInv, CopiedInv
  <2>2. channel'[id] = <<>> \/ channel'[id] = channel[id]
    BY <1>0, HandlerEffect
  <2>3. channel'[id] # <<>> /\ id \in receivers' => id \in receivers
    <3>1. UnknownOf(I)
      BY <1>0 DEF DeliveryInv, UnknownInv
    <3>2. hpc[c] = "insert" => channel[I] = <<>>
      BY <3>1 DEF UnknownOf, NotYet
    <3> QED
      BY <1>0, <2>2, <3>2, HandlerEffect
  <2>4. Pending(id, t)' <=> Pending(id, t)
    BY <1>0 DEF Pending
  <2> QED
    BY <1>0, <2>1, <2>2, <2>3, <2>4, QueueKept
<1>5. ASSUME NEW id \in Id PROVE WantedOf(id)'
  <2>1. WantedOf(id) /\ Wanted(id) \subseteq Wanted(id)'
    BY <1>0, HandlerWants, QueueParts DEF DeliveryInv
  <2>2. channel'[id] = <<>> \/ channel'[id] = channel[id]
    BY <1>0, HandlerEffect
  <2> QED
    BY <1>0, <2>1, <2>2, WantedKept
<1>6. GapFree'
  BY <1>4 DEF GapFree, QueueOf
<1>7. NoMisdelivery'
  BY <1>5 DEF NoMisdelivery, WantedOf
<1> QED
  BY <1>1, <1>2, <1>3, <1>4, <1>6, <1>7, HandlerCloses
  DEF DeliveryInv, CopyInv, UnknownInv, CopiedInv, ClosedInv

\* What streaming and monitor threads do to that state.
LEMMA StreamEffect ==
  ASSUME IndInv, NEW id \in Id, StreamStep(id) \/ MonitorStep(id)
  PROVE  /\ UNCHANGED tickerVars
         /\ \/ channel' = channel
            \/ channel' = [channel EXCEPT ![id] = <<>>]
            \/ channel[id] # <<>> /\ channel' = [channel EXCEPT ![id] = Tail(@)]
         /\ receivers' \subseteq receivers
         /\ \A t \in Ticker : tickers_to_receivers'[t] \subseteq tickers_to_receivers[t]
         /\ \A t \in Ticker, i \in Id :
              i \in tickers_to_receivers[t] /\ i \in receivers' =>
                i \in tickers_to_receivers'[t]
<1> USE DEF generatorVars, registryVars, channelVars, sharedVars
<1>1. CASE ~StreamQuote(id) /\ ~StreamRemovesReceiver(id) /\ ~StreamRemovesTickers(id)
  BY <1>1 DEF StreamStep, MonitorStep, MonitorExpires, MonitorPanics, BindFails,
    StartMonitor, StreamingPanics, CheckShutdown, JoinMonitor,
    RemoveSubscriber, LockGenerator, StreamReadsTickers
<1>2. CASE StreamQuote(id)
  <2>1. CASE channel[id] = <<>>
    BY <1>2, <2>1 DEF StreamQuote, RecvTimeout
  <2>2. CASE channel[id] # <<>>
    BY <1>2, <2>2 DEF StreamQuote, RecvTimeout
  <2> QED
    BY <2>1, <2>2
<1>3. CASE StreamRemovesReceiver(id)
  BY <1>3 DEF StreamRemovesReceiver, RemoveFromReceivers
<1>4. CASE StreamRemovesTickers(id)
  <2>1. id \notin receivers
    BY <1>4 DEF StreamRemovesTickers, IndInv, LifeInv, LifeOf
  <2> QED
    BY <1>4, <2>1 DEF StreamRemovesTickers, RemoveFromTickers, IndInv, TypeOK,
      GeneratorTypeOK
<1> QED
  BY <1>1, <1>2, <1>3, <1>4

\* A streaming thread that closes its channel empties it.
LEMMA StreamCloses ==
  ASSUME DeliveryInv, NEW d \in Id, StreamStep(d) \/ MonitorStep(d), NEW id \in Id
  PROVE  ClosedOf(id)'
<1> USE DEF DeliveryInv, IndInv, TypeOK, GeneratorTypeOK, generatorVars,
      channelVars, sharedVars
<1>0. ClosedOf(id)
  BY DEF ClosedInv
<1>1. CASE StreamQuote(d)
  <2>1. \/ channel' = channel
        \/ channel[d] # <<>> /\ channel' = [channel EXCEPT ![d] = Tail(@)]
    <3>1. CASE channel[d] = <<>>
      BY <1>1, <3>1 DEF StreamQuote, RecvTimeout
    <3>2. CASE channel[d] # <<>>
      BY <1>1, <3>2 DEF StreamQuote, RecvTimeout
    <3> QED
      BY <3>1, <3>2
  <2>2. rx_open' = rx_open
    BY <1>1 DEF StreamQuote
  <2> QED
    BY <1>0, <2>1, <2>2 DEF ClosedOf
<1>2. CASE /\ rx_open' = [rx_open EXCEPT ![d] = FALSE]
           /\ channel' = [channel EXCEPT ![d] = <<>>]
  BY <1>0, <1>2 DEF ClosedOf
<1>3. CASE UNCHANGED <<rx_open, channel>>
  BY <1>0, <1>3 DEF ClosedOf
<1> QED
  BY <1>1, <1>2, <1>3 DEF StreamStep, MonitorStep, MonitorExpires, MonitorPanics,
    BindFails, StartMonitor, StreamingPanics, CheckShutdown, JoinMonitor,
    RemoveSubscriber, LockGenerator, StreamReadsTickers, StreamRemovesReceiver,
    StreamRemovesTickers

\* The steps of streaming and monitor threads preserve the invariant.
LEMMA StreamDelivery ==
  ASSUME DeliveryInv, NEW d \in Id, StreamStep(d) \/ MonitorStep(d)
  PROVE  DeliveryInv'
<1>0. /\ IndInv /\ TypeOK
      /\ UNCHANGED <<number, tpc, receiver_ids, hpc, hid, hreq, next_id>>
      /\ channel \in [Id -> Seq(Quote)]
  BY StreamEffect, StreamFrame
  DEF DeliveryInv, IndInv, TypeOK, GeneratorTypeOK, tickerVars, handlerVars
<1>1. IndInv'
  BY <1>0, StreamInd
<1>2. ASSUME NEW id \in Id PROVE Wanted(id)' = Wanted(id)
  BY <1>0 DEF Wanted
<1>3. ASSUME NEW id \in Id
      PROVE  \/ channel'[id] = <<>>
             \/ channel'[id] = channel[id]
             \/ channel[id] # <<>> /\ channel'[id] = Tail(channel[id])
  BY <1>0, StreamEffect
<1>4. ASSUME NEW id \in Id, NEW t \in Ticker PROVE CopyOf(id, t)'
  <2>1. CopyOf(id, t)
    BY DEF DeliveryInv, CopyInv
  <2> QED
    BY <1>0, <1>2, <2>1, StreamEffect DEF CopyOf
<1>5. ASSUME NEW id \in Id PROVE UnknownOf(id)'
  <2>1. UnknownOf(id) /\ (NotYet(id)' <=> NotYet(id))
    BY <1>0 DEF DeliveryInv, UnknownInv, NotYet
  <2> QED
    BY <1>0, <1>3, <2>1 DEF UnknownOf
<1>6. ASSUME NEW id \in Id, NEW t \in Ticker
      PROVE  QueueOf(id, t)' /\ CopiedOf(id, t)'
  <2>1. QueueOf(id, t) /\ CopiedOf(id, t)
    BY QueueParts DEF DeliveryInv, CopiedInv
  <2>2. Pending(id, t)' <=> Pending(id, t)
    BY <1>0 DEF Pending
  <2>3. id \in receivers' => id \in receivers
    BY <1>0, StreamEffect
  <2> QED
    BY <1>0, <1>3, <2>1, <2>2, <2>3, QueueKept
<1>7. ASSUME NEW id \in Id PROVE WantedOf(id)'
  <2>1. WantedOf(id)
    BY QueueParts DEF DeliveryInv
  <2> QED
    BY <1>0, <1>2, <1>3, <2>1, WantedKept
<1>8. GapFree'
  BY <1>6 DEF GapFree, QueueOf
<1>9. NoMisdelivery'
  BY <1>7 DEF NoMisdelivery, WantedOf
<1> QED
  BY <1>1, <1>4, <1>5, <1>6, <1>8, <1>9, StreamCloses
  DEF DeliveryInv, CopyInv, UnknownInv, CopiedInv, ClosedInv

-----------------------------------------------------------------------------
(***************************************************************************)
(* The steps of ticker threads.                                            *)
(***************************************************************************)

\* An id that was not yet put into the set of a ticker is in none of them.
LEMMA NotYetUnset ==
  ASSUME IndInv, NEW id \in Id, NotYet(id), NEW t \in Ticker
  PROVE  id \notin tickers_to_receivers[t]
<1>1. CASE id >= next_id
  BY <1>1 DEF IndInv, LifeInv, LifeOf, Unregistered
<1>2. ASSUME NEW c \in Conn, hpc[c] \in {"lock", "insert", "subscribe"}, hid[c] = id
      PROVE  id \notin tickers_to_receivers[t]
  BY <1>2 DEF IndInv, PhaseInv, PhaseOf, Unregistered
<1> QED
  BY <1>1, <1>2 DEF NotYet

\* A registered id that was put into the sets is in those of its tickers.
LEMMA RegisteredIsSet ==
  ASSUME IndInv, NEW id \in Id, id \in receivers, ~NotYet(id),
         NEW t \in Ticker, t \in Wanted(id)
  PROVE  id \in tickers_to_receivers[t]
<1>1. PICK c \in Conn : hid[c] = id /\ t \in hreq[c]
  BY DEF Wanted
<1>2. subscribed_tickers[id] = hreq[c]
  BY <1>1 DEF IndInv, PhaseInv, PhaseOf
<1>3. ~Adding(id)
  BY DEF Adding, NotYet
<1> QED
  BY <1>1, <1>2, <1>3 DEF IndInv, RegistryConsistent, ConsistentAt

\* What the thread of u leaves alone.
LEMMA TickerFrame ==
  ASSUME IndInv, NEW u \in Ticker, TickerThread(u)
  PROVE  /\ UNCHANGED <<next_id, hpc, hid, hreq, rx_open>>
         /\ \A t \in Ticker \ {u} :
              /\ number'[t] = number[t]
              /\ tpc'[t] = tpc[t]
              /\ receiver_ids'[t] = receiver_ids[t]
  BY DEF TickerThread, TickerStep, processorVars, handlerVars, streamVars,
    sharedVars, channelVars, IndInv, TypeOK, GeneratorTypeOK,
    GenerateQuote, LookupReceivers, LockReceivers, SendQuote, UnlockReceivers,
    ReapReadsTickers, ReapRemovesReceiver, ReapRemovesTickers

\* What the thread of u does to the maps.
LEMMA TickerEffect ==
  ASSUME IndInv, NEW u \in Ticker, TickerThread(u)
  PROVE  /\ receivers' \subseteq receivers
         /\ \A t \in Ticker : tickers_to_receivers'[t] \subseteq tickers_to_receivers[t]
         /\ \A t \in Ticker, i \in Id :
              i \in tickers_to_receivers[t] /\ i \in receivers' =>
                i \in tickers_to_receivers'[t]
<1> USE DEF sharedVars, registryVars
<1>1. CASE ReapRemovesReceiver(u)
  BY <1>1 DEF ReapRemovesReceiver, RemoveFromReceivers
<1>2. CASE ReapRemovesTickers(u)
  <2>1. reap_id[u] \notin receivers
    BY <1>2 DEF ReapRemovesTickers, IndInv, ReapInv, ReapOf
  <2> QED
    BY <1>2, <2>1 DEF ReapRemovesTickers, RemoveFromTickers, IndInv, TypeOK,
      GeneratorTypeOK
<1>3. CASE UNCHANGED registryVars
  BY <1>3
<1> QED
  BY <1>1, <1>2, <1>3 DEF TickerThread, TickerStep, GenerateQuote,
    LookupReceivers, LockReceivers, SendQuote, UnlockReceivers, ReapReadsTickers

\* The copy of the thread of u shrinks, or is taken anew from the set of u.
LEMMA TickerCopies ==
  ASSUME IndInv, NEW u \in Ticker, TickerThread(u)
  PROVE  \/ receiver_ids'[u] \subseteq receiver_ids[u]
         \/ /\ receiver_ids'[u] = tickers_to_receivers[u]
            /\ UNCHANGED <<receivers, tickers_to_receivers>>
<1> USE DEF sharedVars, registryVars, IndInv, TypeOK, GeneratorTypeOK
<1>1. CASE LookupReceivers(u)
  BY <1>1 DEF LookupReceivers
<1>2. ASSUME NEW id \in Id, SendQuote(u, id)
      PROVE  receiver_ids'[u] \subseteq receiver_ids[u]
  BY <1>2 DEF SendQuote
<1>3. CASE receiver_ids' = receiver_ids
  BY <1>3
<1> QED
  BY <1>1, <1>2, <1>3 DEF TickerThread, TickerStep, GenerateQuote,
    LockReceivers, UnlockReceivers, ReapReadsTickers,
    ReapRemovesReceiver, ReapRemovesTickers

\* The parts of the invariant about the copies.
LEMMA TickerCopyInv ==
  ASSUME DeliveryInv, NEW u \in Ticker, TickerThread(u), NEW id \in Id
  PROVE  /\ \A t \in Ticker : CopyOf(id, t)'
         /\ NotYet(id)' <=> NotYet(id)
         /\ Wanted(id)' = Wanted(id)
         /\ NotYet(id) => \A t \in Ticker : id \notin receiver_ids'[t]
<1>0. IndInv /\ UNCHANGED <<next_id, hpc, hid, hreq>>
  BY TickerFrame DEF DeliveryInv
<1>1. Wanted(id)' = Wanted(id)
  BY <1>0 DEF Wanted
<1>2. NotYet(id)' <=> NotYet(id)
  BY <1>0 DEF NotYet
<1>3. ASSUME NEW t \in Ticker
      PROVE  /\ CopyOf(id, t)'
             /\ NotYet(id) => id \notin receiver_ids'[t]
  <2>0. CopyOf(id, t) /\ UnknownOf(id)
    BY DEF DeliveryInv, CopyInv, UnknownInv
  <2>1. CASE receiver_ids'[t] \subseteq receiver_ids[t]
    BY <1>0, <1>1, <2>0, <2>1, TickerEffect DEF CopyOf, UnknownOf
  <2>2. CASE /\ receiver_ids'[t] = tickers_to_receivers[t]
             /\ UNCHANGED <<receivers, tickers_to_receivers>>
    BY <1>0, <1>1, <2>0, <2>2, NotYetUnset DEF CopyOf
  <2> QED
    BY <1>0, <2>1, <2>2, TickerFrame, TickerCopies
<1> QED
  BY <1>1, <1>2, <1>3

\* A ticker thread that sends nothing keeps the queues in order.
LEMMA TickerQueues ==
  ASSUME DeliveryInv, NEW u \in Ticker, TickerThread(u), channel' = channel,
         ~\E i \in Id : SendQuote(u, i), NEW id \in Id, NEW t \in Ticker
  PROVE  QueueOf(id, t)' /\ CopiedOf(id, t)'
<1>0. /\ IndInv /\ TypeOK /\ QueueOf(id, t) /\ CopiedOf(id, t) /\ UnknownOf(id)
      /\ WantedOf(id) /\ channel[id] \in Seq(Quote)
      /\ id \in receivers' => id \in receivers
      /\ tpc \in [Ticker -> TickerPc] /\ number \in [Ticker -> 0 .. (Wrap - 1)]
  BY QueueParts, TickerEffect
  DEF DeliveryInv, CopiedInv, UnknownInv, IndInv, TypeOK, GeneratorTypeOK
<1>1. CASE t # u
  <2>1. /\ number'[t] = number[t]
        /\ tpc'[t] = tpc[t]
        /\ receiver_ids'[t] = receiver_ids[t]
    BY <1>0, <1>1, TickerFrame
  <2>2. Pending(id, t)' <=> Pending(id, t)
    BY <2>1 DEF Pending
  <2> QED
    BY <1>0, <2>1, <2>2, QueueKept
<1>2. CASE t = u /\ GenerateQuote(u)
  <2>1. /\ tpc[t] = "top" /\ tpc'[t] = "lookup"
        /\ number'[t] = (number[t] + 1) % Wrap
    BY <1>0, <1>2 DEF GenerateQuote
  <2>2. ~Pending(id, t) /\ Pending(id, t)'
    BY <2>1 DEF Pending
  <2> QED
    BY <1>0, <2>1, <2>2 DEF QueueOf, CopiedOf
<1>3. CASE t = u /\ LookupReceivers(u)
  <2>1. /\ tpc[t] = "lookup" /\ tpc'[t] = "read_lock"
        /\ number' = number
        /\ receiver_ids'[t] = tickers_to_receivers[t]
        /\ receivers' = receivers
    BY <1>0, <1>3
    DEF LookupReceivers, IndInv, TypeOK, GeneratorTypeOK, sharedVars, registryVars
  <2>2. Pending(id, t) /\ Pending(id, t)'
    BY <2>1 DEF Pending
  <2>3. ASSUME NEW i \in 1 .. Len(channel[id]), channel[id][i].ticker = t,
               id \in receivers
        PROVE  id \in tickers_to_receivers[t]
    <3>1. channel[id] # <<>>
      <4>1. Len(channel[id]) # 0
        BY <1>0, <2>3
      <4> QED
        BY <4>1
    <3>2. ~NotYet(id)
      BY <1>0, <3>1 DEF UnknownOf
    <3>3. t \in Wanted(id)
      BY <1>0, <2>3 DEF WantedOf
    <3> QED
      BY <1>0, <2>3, <3>2, <3>3, RegisteredIsSet
  <2>4. CopiedOf(id, t)'
    BY <2>1, <2>3 DEF CopiedOf
  <2> QED
    BY <1>0, <2>1, <2>2, <2>4 DEF QueueOf
<1>4. CASE t = u /\ LockReceivers(u)
  <2>1. /\ tpc[t] = "read_lock" /\ tpc'[t] = "send"
        /\ number' = number /\ receiver_ids' = receiver_ids
        /\ receivers' = receivers
    BY <1>0, <1>4 DEF LockReceivers, sharedVars, registryVars
  <2>2. /\ Pending(id, t)
        /\ \A i \in 1 .. Len(channel[id]) :
             channel[id][i].ticker = t /\ id \in receivers => Pending(id, t)'
    BY <1>0, <2>1 DEF Pending, CopiedOf
  <2> QED
    BY <1>0, <2>1, <2>2 DEF QueueOf, CopiedOf, IsLast
<1>5. CASE t = u /\ ~GenerateQuote(u) /\ ~LookupReceivers(u) /\ ~LockReceivers(u)
  <2>1. /\ number' = number /\ receiver_ids' = receiver_ids
        /\ tpc[t] = "send" => receiver_ids[t] = {}
        /\ tpc[t] \notin {"lookup", "read_lock"}
        /\ tpc'[t] \in {"top", "reap", "reap_receivers", "reap_tickers"}
    BY <1>0, <1>5 DEF TickerThread, TickerStep, UnlockReceivers, ReapReadsTickers,
      ReapRemovesReceiver, ReapRemovesTickers
  <2>2. ~Pending(id, t) /\ ~Pending(id, t)'
    BY <2>1 DEF Pending
  <2> QED
    BY <1>0, <2>1, <2>2 DEF QueueOf, CopiedOf
<1> QED
  BY <1>1, <1>2, <1>3, <1>4, <1>5

\* A quote that is sent follows the last one of its ticker in the queue.
LEMMA SendQueues ==
  ASSUME DeliveryInv, NEW u \in Ticker, NEW i \in Id, SendQuote(u, i),
         TickerThread(u), NEW id \in Id, NEW t \in Ticker
  PROVE  QueueOf(id, t)' /\ CopiedOf(id, t)' /\ WantedOf(id)'
<1> DEFINE q == [ticker |-> u, number |-> number[u]]
<1>0. /\ IndInv /\ TypeOK /\ QueueOf(id, t) /\ CopiedOf(id, t) /\ ClosedOf(id)
      /\ WantedOf(id) /\ CopyOf(id, u) /\ channel[id] \in Seq(Quote)
      /\ channel \in [Id -> Seq(Quote)]
      /\ number' = number /\ tpc' = tpc /\ receivers' = receivers
      /\ tpc[u] = "send" /\ i \in receiver_ids[u]
      /\ receiver_ids' = [receiver_ids EXCEPT ![u] = @ \ {i}]
      /\ Wanted(id)' = Wanted(id)
      /\ number[u] \in 0 .. (Wrap - 1)
  BY QueueParts, TickerCopyInv
  DEF DeliveryInv, CopiedInv, CopyInv, ClosedInv, IndInv, TypeOK, GeneratorTypeOK,
      SendQuote, registryVars
<1>1. /\ number'[t] = number[t]
      /\ tpc'[t] = "read_lock" =>
           tpc[t] = "read_lock" /\ receiver_ids'[t] = receiver_ids[t]
  BY <1>0 DEF IndInv, TypeOK, GeneratorTypeOK
<1>2. id # i \/ t # u => (Pending(id, t)' <=> Pending(id, t))
  BY <1>0 DEF Pending, IndInv, TypeOK, GeneratorTypeOK
<1>3. CASE id # i \/ ~(i \in receivers /\ rx_open[i])
  <2>1. channel'[id] = channel[id]
    BY <1>0, <1>3 DEF SendQuote
  <2>2. WantedOf(id)'
    BY <1>0, <2>1, WantedKept
  <2>3. CASE id # i \/ t # u
    BY <1>0, <1>1, <1>2, <2>1, <2>2, <2>3, QueueKept
  <2>4. CASE id = i /\ t = u /\ i \notin receivers
    BY <1>0, <2>1, <2>2, <2>4 DEF QueueOf, CopiedOf
  <2>5. CASE id = i /\ t = u /\ ~rx_open[i]
    <3>1. 1 .. Len(channel'[id]) = {}
      BY <1>0, <2>1, <2>5 DEF ClosedOf
    <3> QED
      BY <2>2, <3>1 DEF QueueOf, CopiedOf
  <2> QED
    BY <1>3, <2>3, <2>4, <2>5
<1>4. CASE id = i /\ i \in receivers /\ rx_open[i]
  <2> DEFINE s == channel[id]
  <2>1. channel'[id] = Append(s, q) /\ q \in Quote /\ s \in Seq(Quote)
    BY <1>0, <1>4, QuoteType DEF SendQuote
  <2>2. u \in Wanted(id)
    BY <1>0, <1>4 DEF CopyOf
  <2>3. /\ Len(channel'[id]) = Len(s) + 1 /\ Len(s) \in Nat
        /\ \A k \in 1 .. Len(s) : channel'[id][k] = s[k]
        /\ channel'[id][Len(s) + 1] = q
        /\ \A k, j \in 1 .. Len(s) :
             Successive(channel'[id], t, k, j) => Successive(s, t, k, j)
        /\ \A k \in 1 .. Len(s) :
             Successive(channel'[id], t, k, Len(s) + 1) => IsLast(s, t, k)
        /\ \A k \in 1 .. Len(s) :
             IsLast(channel'[id], t, k) => q.ticker # t /\ IsLast(s, t, k)
    <3> HIDE DEF s, q
    <3>1. Len(s) \in Nat
      BY <2>1
    <3>2. /\ Len(Append(s, q)) = Len(s) + 1
          /\ \A k \in 1 .. Len(s) : Append(s, q)[k] = s[k]
          /\ Append(s, q)[Len(s) + 1] = q
          /\ \A k, j \in 1 .. Len(s) :
               Successive(Append(s, q), t, k, j) => Successive(s, t, k, j)
          /\ \A k \in 1 .. Len(s) :
               Successive(Append(s, q), t, k, Len(s) + 1) => IsLast(s, t, k)
          /\ \A k \in 1 .. Len(s) :
               IsLast(Append(s, q), t, k) => q.ticker # t /\ IsLast(s, t, k)
      BY <2>1, AppendQueue
    <3> QED
      BY <2>1, <3>1, <3>2, Zenon
  <2>4. WantedOf(id)'
    <3>1. ASSUME NEW k \in 1 .. Len(channel'[id])
          PROVE  channel'[id][k].ticker \in Wanted(id)
      <4>1. CASE k \in 1 .. Len(s)
        BY <1>0, <2>3, <4>1 DEF WantedOf
      <4>2. CASE k = Len(s) + 1
        BY <2>2, <2>3, <4>2
      <4> QED
        BY <2>3, <4>1, <4>2
    <3> QED
      BY <1>0, <3>1 DEF WantedOf
  <2>5. CopiedOf(id, t)'
    <3>1. SUFFICES ASSUME tpc[t] = "read_lock" PROVE CopiedOf(id, t)'
      BY <1>0 DEF CopiedOf
    <3>2. t # u /\ receiver_ids'[t] = receiver_ids[t]
      BY <1>0, <1>1, <3>1
    <3>3. ASSUME NEW k \in 1 .. Len(channel'[id]), channel'[id][k].ticker = t
          PROVE  id \in receiver_ids[t]
      <4>1. k \in 1 .. Len(s)
        <5>1. k # Len(s) + 1
          BY <2>3, <3>2, <3>3
        <5> QED
          BY <2>3, <5>1
      <4> QED
        BY <1>0, <1>4, <2>3, <3>1, <3>3, <4>1 DEF CopiedOf
    <3> QED
      BY <3>2, <3>3 DEF CopiedOf
  <2>6. ASSUME NEW k \in 1 .. Len(s), IsLast(s, t, k), t = u
        PROVE  number[u] = (s[k].number + 1) % Wrap
    <3>1. Pending(id, t)
      BY <1>0, <1>4, <2>6 DEF Pending
    <3> QED
      BY <1>0, <1>4, <2>6, <3>1 DEF QueueOf
  <2>7. ASSUME NEW k \in 1 .. Len(channel'[id]), NEW j \in 1 .. Len(channel'[id]),
               Successive(channel'[id], t, k, j)
        PROVE  channel'[id][j].number = (channel'[id][k].number + 1) % Wrap
    <3>1. k \in 1 .. Len(s) /\ (j \in 1 .. Len(s) \/ j = Len(s) + 1)
      BY <2>3, <2>7 DEF Successive
    <3>2. CASE j \in 1 .. Len(s)
      <4>1. Successive(s, t, k, j)
        BY <2>3, <2>7, <3>1, <3>2
      <4>2. s[j].number = (s[k].number + 1) % Wrap
        BY <1>0, <3>1, <3>2, <4>1 DEF QueueOf
      <4> QED
        BY <2>3, <3>1, <3>2, <4>2
    <3>3. CASE j = Len(s) + 1
      <4>1. IsLast(s, t, k) /\ channel'[id][j] = q
        BY <2>3, <2>7, <3>1, <3>3
      <4>2. t = u
        BY <2>7, <4>1 DEF Successive
      <4> QED
        BY <2>3, <2>6, <3>1, <4>1, <4>2
    <3> QED
      BY <3>1, <3>2, <3>3
  <2>8. ASSUME NEW k \in 1 .. Len(channel'[id]), IsLast(channel'[id], t, k)
        PROVE  number'[t] = IF Pending(id, t)' THEN (channel'[id][k].number + 1) % Wrap
                                               ELSE channel'[id][k].number
    <3>1. CASE k \in 1 .. Len(s)
      <4>1. u # t /\ IsLast(s, t, k) /\ channel'[id][k] = s[k]
        BY <2>3, <2>8, <3>1
      <4> QED
        BY <1>0, <1>2, <1>4, <3>1, <4>1 DEF QueueOf
    <3>2. CASE k = Len(s) + 1
      <4>1. t = u /\ channel'[id][k] = q
        BY <2>3, <2>8, <3>2 DEF IsLast
      <4>2. ~Pending(id, t)'
        BY <1>0, <1>4, <4>1 DEF Pending, TypeOK, GeneratorTypeOK
      <4> QED
        BY <1>0, <4>1, <4>2
    <3> QED
      BY <2>3, <3>1, <3>2
  <2> QED
    BY <2>4, <2>5, <2>7, <2>8 DEF QueueOf
<1> QED
  BY <1>3, <1>4

\* The steps of a ticker thread preserve the invariant.
LEMMA TickerDelivery ==
  ASSUME DeliveryInv, NEW u \in Ticker, TickerThread(u)
  PROVE  DeliveryInv'
<1>0. IndInv /\ TypeOK /\ UNCHANGED rx_open /\ channel \in [Id -> Seq(Quote)]
  BY TickerFrame DEF DeliveryInv, IndInv, TypeOK, GeneratorTypeOK
<1>1. IndInv'
  BY <1>0, TickerInd
<1>2. CASE ~\E i \in Id : SendQuote(u, i)
  <2>1. channel' = channel
    BY <1>2 DEF TickerThread, TickerStep, sharedVars, channelVars, GenerateQuote,
      LookupReceivers, LockReceivers, UnlockReceivers, ReapReadsTickers,
      ReapRemovesReceiver, ReapRemovesTickers
  <2>2. ASSUME NEW id \in Id
        PROVE  /\ \A t \in Ticker : CopyOf(id, t)' /\ QueueOf(id, t)' /\ CopiedOf(id, t)'
               /\ UnknownOf(id)' /\ ClosedOf(id)' /\ WantedOf(id)'
    <3>0. UnknownOf(id) /\ ClosedOf(id) /\ WantedOf(id)
      BY QueueParts DEF DeliveryInv, UnknownInv, ClosedInv
    <3>1. UnknownOf(id)' /\ ClosedOf(id)'
      BY <1>0, <2>1, <3>0, TickerCopyInv DEF UnknownOf, ClosedOf
    <3>2. WantedOf(id)'
      BY <1>0, <2>1, <3>0, TickerCopyInv DEF WantedOf
    <3> QED
      BY <1>2, <2>1, <3>1, <3>2, TickerCopyInv, TickerQueues
  <2>3. GapFree'
    BY <2>2 DEF GapFree, QueueOf
  <2>4. NoMisdelivery'
    BY <2>2 DEF NoMisdelivery, WantedOf
  <2> QED
    BY <1>1, <2>2, <2>3, <2>4
    DEF DeliveryInv, CopyInv, UnknownInv, CopiedInv, ClosedInv
<1>3. ASSUME NEW i \in Id, SendQuote(u, i) PROVE DeliveryInv'
  <2>1. ASSUME NEW id \in Id
        PROVE  /\ \A t \in Ticker : CopyOf(id, t)' /\ QueueOf(id, t)' /\ CopiedOf(id, t)'
               /\ UnknownOf(id)' /\ ClosedOf(id)' /\ WantedOf(id)'
    <3>0. UnknownOf(id) /\ ClosedOf(id)
      BY DEF DeliveryInv, UnknownInv, ClosedInv
    <3>1. \/ channel'[id] = channel[id]
          \/ id \in receiver_ids[u] /\ rx_open[id]
      BY <1>0, <1>3 DEF SendQuote
    <3>2. UnknownOf(id)' /\ ClosedOf(id)'
      BY <1>0, <3>0, <3>1, TickerCopyInv DEF UnknownOf, ClosedOf
    <3> QED
      BY <1>3, <3>2, TickerCopyInv, SendQueues
  <2>2. GapFree'
    BY <2>1 DEF GapFree, QueueOf
  <2>3. NoMisdelivery'
    BY <2>1 DEF NoMisdelivery, WantedOf
  <2> QED
    BY <1>1, <2>1, <2>2, <2>3
    DEF DeliveryInv, CopyInv, UnknownInv, CopiedInv, ClosedInv
<1> QED
  BY <1>2, <1>3

-----------------------------------------------------------------------------
(***************************************************************************)
(* The results about queues.                                               *)
(***************************************************************************)

\* The invariant holds when the server starts.
LEMMA InitDelivery == Init => DeliveryInv
<1> SUFFICES ASSUME Init PROVE DeliveryInv
  OBVIOUS
<1>1. IndInv
  BY InitInd
<1>2. \A id \in Id : channel[id] = <<>>
  BY DEF Init, GeneratorInit
<1>3. CopyInv /\ UnknownInv /\ ClosedInv
  BY <1>2 DEF Init, GeneratorInit, CopyInv, CopyOf, UnknownInv, UnknownOf,
    ClosedInv, ClosedOf
<1>4. \A id \in Id : 1 .. Len(channel[id]) = {}
  BY <1>2
<1>5. CopiedInv /\ NoMisdelivery /\ GapFree
  BY <1>4 DEF CopiedInv, CopiedOf, NoMisdelivery, GapFree
<1> QED
  BY <1>1, <1>3, <1>5 DEF DeliveryInv

\* Every step of the server preserves it.
LEMMA NextDelivery == DeliveryInv /\ [Next]_vars => DeliveryInv'
<1> SUFFICES ASSUME DeliveryInv, [Next]_vars PROVE DeliveryInv'
  OBVIOUS
<1>1. CASE UNCHANGED vars
  <2>1. IndInv'
    BY <1>1, NextInd DEF DeliveryInv
  <2> QED
    BY <1>1, <2>1 DEF DeliveryInv, vars, generatorVars, sharedVars, registryVars,
      channelVars, tickerVars, processorVars, handlerVars, CopyInv, CopyOf,
      UnknownInv, UnknownOf, NotYet, ClosedInv, ClosedOf, CopiedInv, CopiedOf,
      NoMisdelivery, GapFree, Pending, Wanted
<1> QED
  BY <1>1, HandlerDelivery, StreamDelivery, TickerDelivery DEF Next

\* The invariant about copies and channels holds in every reachable state.
THEOREM DeliveryInvCorrect == Spec => []DeliveryInv
  BY InitDelivery, NextDelivery, PTL DEF Spec

\* No subscriber is ever queued a quote it did not ask for, although ticker
\* threads send from copies of the sets of ids that may be stale.
THEOREM NoMisdeliveryCorrect == Spec => []NoMisdelivery
<1>1. DeliveryInv => NoMisdelivery
  BY DEF DeliveryInv
<1> QED
  BY <1>1, DeliveryInvCorrect, PTL

\* The quotes of a ticker in the queue of a subscriber are successive ones,
\* and while it is registered the last one queued is the current one or, when
\* the ticker thread has still to reach the subscriber, the one before.
THEOREM GapFreeCorrect == Spec => []GapFree
<1>1. DeliveryInv => GapFree
  BY DEF DeliveryInv
<1> QED
  BY <1>1, DeliveryInvCorrect, PTL

-----------------------------------------------------------------------------
(***************************************************************************)
(* The refinement of PubSub.                                               *)
(***************************************************************************)

\* The phase of one subscription.
PhaseAt(id) ==
  IF id \in receivers /\ ~Adding(id) THEN "active"
  ELSE IF spc[id] \in {"rm_tickers", "done", "panicked"} THEN "closed"
  ELSE "new"

\* A step is invisible in PubSub when every subscription keeps its phase and
\* its tickers and no queue changes.
LEMMA Invisible ==
  ASSUME \A id \in Id : PhaseAt(id)' = PhaseAt(id),
         \A t \in Ticker : tickers_to_receivers'[t] \cap receivers' =
                             tickers_to_receivers[t] \cap receivers
  PROVE  UNCHANGED <<SubscriptionPhase, EffectiveSubs>>
<1>1. SubscriptionPhase' = SubscriptionPhase
  BY DEF SubscriptionPhase, PhaseAt
<1>2. EffectiveSubs' = EffectiveSubs
  BY DEF EffectiveSubs
<1> QED
  BY <1>1, <1>2

\* While an id is being added its streaming thread does not exist yet.
LEMMA AddingIs ==
  ASSUME IndInv, NEW id \in Id, Adding(id)
  PROVE  /\ spc[id] = "none"
         /\ id \in receivers
         /\ \A t \in Ticker : id \notin tickers_to_receivers[t]
  BY DEF IndInv, PhaseInv, PhaseOf, HandlerInv, Adding

\* A step of a handler is Subscribe when it puts its id into the sets of its
\* tickers, Discard when it panics, and invisible otherwise.
LEMMA HandlerRefines ==
  ASSUME DeliveryInv, NEW c \in Conn, HandlerStep(c)
  PROVE  PS!Next \/ UNCHANGED <<SubscriptionPhase, EffectiveSubs, channel>>
<1> USE DEF generatorVars, registryVars, channelVars, sharedVars, streamVars
<1> DEFINE I == hid[c]
<1>0. /\ IndInv /\ I \in Id /\ PhaseOf(c)
      /\ hpc \in [Conn -> HandlerPc] /\ spc \in [Id -> StreamPc]
      /\ hpc[c] \notin {"idle", "read", "err", "done"} => hreq[c] # {}
      /\ \A d \in Conn : hpc[d] = "subscribe" => hreq[d] # {}
      /\ \A d \in Conn : hreq[c] # {} /\ hreq[d] # {} /\ hid[c] = hid[d] => c = d
  BY DEF DeliveryInv, IndInv, TypeOK, PhaseInv, HandlerInv
<1>1. CASE AddInserted(c)
  <2>1. /\ hpc[c] = "insert" /\ hpc' = [hpc EXCEPT ![c] = "subscribe"]
        /\ receivers' = receivers \cup {I}
        /\ UNCHANGED <<tickers_to_receivers, channel, spc, hid>>
    BY <1>1 DEF AddInserted, AddReceiverInserts
  <2>2. /\ I \notin receivers /\ spc[I] = "none"
        /\ \A t \in Ticker : I \notin tickers_to_receivers[t]
    BY <1>0, <2>1 DEF PhaseOf, Unregistered
  <2>3. ASSUME NEW id \in Id PROVE PhaseAt(id)' = PhaseAt(id)
    <3>1. CASE id = I
      <4>1. Adding(id)'
        BY <1>0, <2>1, <3>1 DEF Adding
      <4> QED
        BY <2>1, <2>2, <3>1, <4>1 DEF PhaseAt
    <3>2. CASE id # I
      <4>1. Adding(id)' <=> Adding(id)
        BY <1>0, <2>1, <3>2 DEF Adding
      <4> QED
        BY <2>1, <3>2, <4>1 DEF PhaseAt
    <3> QED
      BY <3>1, <3>2
  <2> QED
    BY <2>1, <2>2, <2>3, Invisible
<1>2. CASE AddSubscribed(c)
  <2>1. /\ hpc[c] = "subscribe" /\ hpc' = [hpc EXCEPT ![c] = "register"]
        /\ tickers_to_receivers' =
             [t \in Ticker |-> IF t \in hreq[c] THEN tickers_to_receivers[t] \cup {I}
                                                ELSE tickers_to_receivers[t]]
        /\ UNCHANGED <<receivers, channel, spc, hid>>
    BY <1>2 DEF AddSubscribed, AddReceiverSubscribes
  <2>2. I \in receivers /\ spc[I] = "none" /\ Adding(I)
    BY <1>0, <2>1 DEF PhaseOf, Adding
  <2>3. ~Adding(I)'
    <3>1. ASSUME NEW d \in Conn, hpc'[d] = "subscribe", hid'[d] = I PROVE FALSE
      <4>1. d # c /\ hpc[d] = "subscribe" /\ hid[d] = hid[c]
        BY <1>0, <2>1, <3>1
      <4> QED
        BY <1>0, <2>1, <4>1
    <3> QED
      BY <2>1, <3>1 DEF Adding
  <2>4. ASSUME NEW id \in Id, id # I PROVE PhaseAt(id)' = PhaseAt(id)
    <3>1. Adding(id)' <=> Adding(id)
      BY <1>0, <2>1, <2>4 DEF Adding
    <3> QED
      BY <2>1, <3>1 DEF PhaseAt
  <2>5. PhaseAt(I) = "new" /\ PhaseAt(I)' = "active"
    BY <2>1, <2>2, <2>3 DEF PhaseAt
  <2>6. SubscriptionPhase[I] = "new"
    BY <1>0, <2>5 DEF SubscriptionPhase, PhaseAt
  <2>7. SubscriptionPhase' = [SubscriptionPhase EXCEPT ![I] = "active"]
    BY <1>0, <2>1, <2>4, <2>5 DEF SubscriptionPhase, PhaseAt
  <2>8. EffectiveSubs' = [t \in Ticker |-> IF t \in hreq[c]
                                           THEN EffectiveSubs[t] \cup {I}
                                           ELSE EffectiveSubs[t]]
    BY <2>1, <2>2 DEF EffectiveSubs
  <2>9. hreq[c] \in SUBSET Ticker
    BY <1>0, <2>1 DEF IndInv, CheckedTickers
  <2>10. PS!Subscribe(I, hreq[c])
    BY <2>1, <2>6, <2>7, <2>8 DEF PS!Subscribe
  <2> QED
    BY <1>0, <2>9, <2>10 DEF PS!Next
<1>3. CASE SpawnStreaming(c) \/ SpawnPanics(c)
  <2>1. /\ hpc[c] = "spawn" /\ UNCHANGED <<receivers, tickers_to_receivers, hid>>
        /\ \A id \in Id : id # I => spc'[id] = spc[id]
        /\ hpc' \in {[hpc EXCEPT ![c] = "ack"], [hpc EXCEPT ![c] = "done"]}
        /\ channel' = channel \/ channel' = [channel EXCEPT ![I] = <<>>]
    BY <1>0, <1>3 DEF SpawnStreaming, SpawnPanics
  <2>2. I \in receivers
    BY <1>0, <2>1 DEF PhaseOf
  <2>3. ASSUME NEW id \in Id PROVE Adding(id)' <=> Adding(id)
    BY <1>0, <2>1 DEF Adding
  <2>4. ~Adding(I)
    BY <1>0, <2>1 DEF Adding
  <2>5. ASSUME NEW id \in Id PROVE PhaseAt(id)' = PhaseAt(id)
    BY <2>1, <2>2, <2>3, <2>4 DEF PhaseAt
  <2>6. UNCHANGED <<SubscriptionPhase, EffectiveSubs>>
    BY <2>1, <2>5, Invisible
  <2>7. CASE channel' = [channel EXCEPT ![I] = <<>>]
    BY <1>0, <2>6, <2>7 DEF PS!Next, PS!Discard
  <2> QED
    BY <2>1, <2>6, <2>7
<1>4. CASE ~AddInserted(c) /\ ~AddSubscribed(c) /\ ~SpawnStreaming(c)
             /\ ~SpawnPanics(c)
  <2>1. UNCHANGED <<receivers, tickers_to_receivers, channel, spc>>
    BY <1>4 DEF HandlerStep, Accept, ReadFails, ReadUnexpected, ReadCommand,
      AddRejected, AddReceiverRejects, AddChecked, AddReceiverChecks,
      RegisterSubscriber, Respond
  <2>2. /\ hpc[c] # "subscribe" /\ hpc'[c] # "subscribe"
        /\ \A d \in Conn \ {c} : hpc'[d] = hpc[d] /\ hid'[d] = hid[d]
    BY <1>0, <1>4 DEF HandlerStep, Accept, ReadFails, ReadUnexpected, ReadCommand,
      AddRejected, AddChecked, RegisterSubscriber, Respond, IndInv, TypeOK
  <2>3. ASSUME NEW id \in Id PROVE Adding(id)' <=> Adding(id)
    BY <2>2 DEF Adding
  <2>4. ASSUME NEW id \in Id PROVE PhaseAt(id)' = PhaseAt(id)
    BY <2>1, <2>3 DEF PhaseAt
  <2> QED
    BY <2>1, <2>4, Invisible
<1> QED
  BY <1>1, <1>2, <1>3, <1>4

\* Removing the entry of an id that is not being added ends its subscription
\* for all of its tickers at once.
LEMMA RemovalRefines ==
  ASSUME DeliveryInv, NEW id \in Id, id \in receivers, ~Adding(id),
         receivers' = receivers \ {id},
         UNCHANGED <<tickers_to_receivers, channel, hpc, hid>>,
         \A i \in Id : i # id => spc'[i] = spc[i],
         spc'[id] \in {"rm_tickers", "panicked"}
  PROVE  PS!Next
<1>1. ASSUME NEW i \in Id PROVE Adding(i)' <=> Adding(i)
  BY DEF Adding
<1>2. ASSUME NEW i \in Id, i # id PROVE PhaseAt(i)' = PhaseAt(i)
  BY <1>1, <1>2 DEF PhaseAt
<1>3. PhaseAt(id) = "active" /\ PhaseAt(id)' = "closed"
  BY <1>1 DEF PhaseAt
<1>4. SubscriptionPhase[id] = "active"
  BY <1>3 DEF SubscriptionPhase, PhaseAt
<1>5. SubscriptionPhase' = [SubscriptionPhase EXCEPT ![id] = "closed"]
  BY <1>2, <1>3 DEF SubscriptionPhase, PhaseAt
<1>6. EffectiveSubs' = [t \in Ticker |-> EffectiveSubs[t] \ {id}]
  BY DEF EffectiveSubs
<1>7. PS!Unsubscribe(id)
  BY <1>4, <1>5, <1>6 DEF PS!Unsubscribe
<1> QED
  BY <1>7 DEF PS!Next

\* A step of a streaming thread is Take, Unsubscribe when it removes the
\* entry in receivers, Discard when it drops rx, and invisible otherwise; a
\* monitor is invisible.
LEMMA StreamRefines ==
  ASSUME DeliveryInv, NEW id \in Id, StreamStep(id) \/ MonitorStep(id)
  PROVE  PS!Next \/ UNCHANGED <<SubscriptionPhase, EffectiveSubs, channel>>
<1> USE DEF generatorVars, registryVars, channelVars, sharedVars
<1>0. /\ IndInv /\ LifeOf(id) /\ UNCHANGED <<hpc, hid>>
      /\ spc \in [Id -> StreamPc]
      /\ tickers_to_receivers \in [Ticker -> SUBSET Id]
  BY StreamFrame DEF DeliveryInv, IndInv, TypeOK, GeneratorTypeOK, LifeInv, handlerVars
<1>1. ASSUME NEW i \in Id PROVE Adding(i)' <=> Adding(i)
  BY <1>0 DEF Adding
<1>2. CASE StreamRemovesReceiver(id)
  <2>1. spc[id] = "rm_receivers" /\ receivers' = receivers \ {id}
        /\ UNCHANGED <<tickers_to_receivers, channel>>
        /\ spc' = [spc EXCEPT ![id] = "rm_tickers"]
    BY <1>2 DEF StreamRemovesReceiver, RemoveFromReceivers
  <2>2. id \in receivers /\ ~Adding(id)
    BY <1>0, <2>1, AddingIs DEF LifeOf
  <2> QED
    BY <1>0, <2>1, <2>2, RemovalRefines
<1>3. CASE StreamRemovesTickers(id)
  <2>1. /\ spc[id] = "rm_tickers" /\ id \notin receivers /\ receivers' = receivers
        /\ \A t \in Ticker : \/ tickers_to_receivers'[t] = tickers_to_receivers[t]
                             \/ tickers_to_receivers'[t] = tickers_to_receivers[t] \ {id}
        /\ spc' = [spc EXCEPT ![id] = "done"]
        /\ channel' = [channel EXCEPT ![id] = <<>>]
    BY <1>0, <1>3 DEF StreamRemovesTickers, RemoveFromTickers, LifeOf
  <2>2. ASSUME NEW i \in Id PROVE PhaseAt(i)' = PhaseAt(i)
    BY <1>0, <1>1, <2>1 DEF PhaseAt
  <2>3. ASSUME NEW t \in Ticker
        PROVE  tickers_to_receivers'[t] \cap receivers' =
                 tickers_to_receivers[t] \cap receivers
    BY <2>1
  <2>4. UNCHANGED <<SubscriptionPhase, EffectiveSubs>>
    BY <2>2, <2>3, Invisible
  <2> QED
    BY <2>1, <2>4 DEF PS!Next, PS!Discard
<1>4. CASE ~StreamRemovesReceiver(id) /\ ~StreamRemovesTickers(id)
  <2>1. UNCHANGED <<receivers, tickers_to_receivers>>
    BY <1>4 DEF StreamStep, MonitorStep, MonitorExpires, MonitorPanics, BindFails,
      StartMonitor, StreamingPanics, CheckShutdown, StreamQuote, JoinMonitor,
      RemoveSubscriber, LockGenerator, StreamReadsTickers
  <2>2. /\ \A i \in Id \ {id} : spc'[i] = spc[i]
        /\ \/ spc' = spc
           \/ spc[id] \in {"bind", "check", "recv", "join", "remove"}
           \/ /\ spc[id] \in {"lock", "rm_lookup"}
              /\ spc'[id] \in {"rm_lookup", "rm_receivers"}
    BY <1>0, <1>4 DEF StreamStep, MonitorStep, MonitorExpires, MonitorPanics,
      BindFails, StartMonitor, StreamingPanics, CheckShutdown, StreamQuote,
      JoinMonitor, RemoveSubscriber, LockGenerator, StreamReadsTickers
  <2>3. ASSUME NEW i \in Id PROVE PhaseAt(i)' = PhaseAt(i)
    <3>1. CASE i # id \/ spc' = spc
      BY <1>1, <2>1, <2>2, <3>1 DEF PhaseAt
    <3>2. CASE i = id /\ spc' # spc
      <4>1. id \in receivers /\ ~Adding(id)
        BY <1>0, <2>2, <3>2, AddingIs DEF LifeOf
      <4> QED
        BY <1>1, <2>1, <3>2, <4>1 DEF PhaseAt
    <3> QED
      BY <3>1, <3>2
  <2>4. UNCHANGED <<SubscriptionPhase, EffectiveSubs>>
    BY <2>1, <2>3, Invisible
  <2>5. CASE channel[id] # <<>> /\ channel' = [channel EXCEPT ![id] = Tail(@)]
    BY <2>4, <2>5 DEF PS!Next, PS!Take
  <2>6. CASE channel' = [channel EXCEPT ![id] = <<>>]
    BY <2>4, <2>6 DEF PS!Next, PS!Discard
  <2> QED
    BY <1>0, <2>4, <2>5, <2>6, StreamEffect
<1> QED
  BY <1>2, <1>3, <1>4

\* A step of a ticker thread is Deliver when it sends, Unsubscribe when it
\* removes the entry of a dead receiver that is still there, and invisible
\* otherwise.
LEMMA TickerRefines ==
  ASSUME DeliveryInv, NEW u \in Ticker, TickerThread(u)
  PROVE  PS!Next \/ UNCHANGED <<SubscriptionPhase, EffectiveSubs, channel>>
<1> USE DEF registryVars, channelVars, sharedVars
<1>0. /\ IndInv /\ ReapOf(u) /\ UNCHANGED <<hpc, hid, spc>>
      /\ number[u] \in 0 .. (Wrap - 1)
      /\ reap_id[u] \in Id
      /\ tickers_to_receivers \in [Ticker -> SUBSET Id]
  BY TickerFrame DEF DeliveryInv, IndInv, TypeOK, GeneratorTypeOK, ReapInv,
    TickerThread, streamVars
<1>1. ASSUME receivers' = receivers, NEW i \in Id PROVE PhaseAt(i)' = PhaseAt(i)
  BY <1>0, <1>1 DEF PhaseAt, Adding
<1>2. ASSUME NEW id \in Id, SendQuote(u, id)
      PROVE  PS!Next \/ UNCHANGED <<SubscriptionPhase, EffectiveSubs, channel>>
  <2>1. UNCHANGED <<receivers, tickers_to_receivers>>
    BY <1>2 DEF SendQuote
  <2>2. UNCHANGED <<SubscriptionPhase, EffectiveSubs>>
    BY <1>1, <2>1, Invisible
  <2>3. CASE id \in receivers /\ rx_open[id]
    <3> DEFINE q == [ticker |-> u, number |-> number[u]]
    <3>1. q \in Quote /\ q.ticker = u
      BY <1>0, QuoteType
    <3>2. id \in receiver_ids[u] /\ channel' = [channel EXCEPT ![id] = Append(@, q)]
      BY <1>2, <2>3 DEF SendQuote
    <3>3. id \in EffectiveSubs[u]
      BY <2>3, <3>2 DEF DeliveryInv, CopyInv, CopyOf, EffectiveSubs
    <3>4. PS!Deliver(id, q)
      BY <2>2, <3>1, <3>2, <3>3 DEF PS!Deliver
    <3> QED
      BY <3>1, <3>4 DEF PS!Next
  <2>4. CASE ~(id \in receivers /\ rx_open[id])
    BY <1>2, <2>2, <2>4 DEF SendQuote
  <2> QED
    BY <2>3, <2>4
<1>3. CASE ReapRemovesReceiver(u)
  <2> DEFINE d == reap_id[u]
  <2>1. /\ tpc[u] = "reap_receivers" /\ receivers' = receivers \ {d}
        /\ UNCHANGED <<tickers_to_receivers, channel>>
    BY <1>3 DEF ReapRemovesReceiver, RemoveFromReceivers
  <2>2. spc[d] = "panicked"
    BY <1>0, <2>1 DEF ReapOf
  <2>3. CASE d \in receivers
    <3>1. ~Adding(d)
      BY <1>0, <2>2, AddingIs
    <3> QED
      BY <1>0, <2>1, <2>2, <2>3, <3>1, RemovalRefines
  <2>4. CASE d \notin receivers
    <3>1. receivers' = receivers
      BY <2>1, <2>4
    <3> QED
      BY <1>1, <2>1, <3>1, Invisible
  <2> QED
    BY <2>3, <2>4
<1>4. CASE ReapRemovesTickers(u)
  <2>1. /\ reap_id[u] \notin receivers /\ receivers' = receivers /\ channel' = channel
        /\ \A t \in Ticker : \/ tickers_to_receivers'[t] = tickers_to_receivers[t]
                             \/ tickers_to_receivers'[t] =
                                  tickers_to_receivers[t] \ {reap_id[u]}
    BY <1>0, <1>4 DEF ReapRemovesTickers, RemoveFromTickers, ReapOf
  <2>2. ASSUME NEW t \in Ticker
        PROVE  tickers_to_receivers'[t] \cap receivers' =
                 tickers_to_receivers[t] \cap receivers
    BY <2>1
  <2> QED
    BY <1>1, <2>1, <2>2, Invisible
<1>5. CASE UNCHANGED <<receivers, tickers_to_receivers, channel>>
  BY <1>1, <1>5, Invisible
<1> QED
  BY <1>2, <1>3, <1>4, <1>5 DEF TickerThread, TickerStep, GenerateQuote,
    LookupReceivers, LockReceivers, UnlockReceivers, ReapReadsTickers

\* The server starts as PubSub does.
LEMMA InitRefines == Init => PS!Init
<1> SUFFICES ASSUME Init PROVE PS!Init
  OBVIOUS
<1>1. SubscriptionPhase = [id \in Id |-> "new"]
  BY DEF Init, GeneratorInit, SubscriptionPhase
<1>2. EffectiveSubs = [t \in Ticker |-> {}]
  BY DEF Init, GeneratorInit, EffectiveSubs
<1> QED
  BY <1>1, <1>2 DEF Init, GeneratorInit, PS!Init

\* The server implements PubSub: with several locks taken one after the other
\* by three kinds of threads, a subscription begins and ends at one instant
\* for all of its tickers, at most once each, and quotes are queued for a
\* subscriber only in between.
THEOREM PubSubRefinement == Spec => PubSubSpec
<1>1. ASSUME DeliveryInv, [Next]_vars
      PROVE  [PS!Next]_<<SubscriptionPhase, EffectiveSubs, channel>>
  <2>1. CASE UNCHANGED vars
    BY <2>1 DEF vars, generatorVars, sharedVars, registryVars, channelVars,
      handlerVars, streamVars, SubscriptionPhase, EffectiveSubs, Adding
  <2> QED
    BY <1>1, <2>1, HandlerRefines, StreamRefines, TickerRefines DEF Next
<1> QED
  BY <1>1, InitRefines, DeliveryInvCorrect, PTL DEF Spec, PubSubSpec, PS!Spec
=============================================================================
