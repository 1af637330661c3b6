------------------------------ MODULE Processor ------------------------------
(***************************************************************************)
(* The server: the processor (server/src/processor.rs) composed with the   *)
(* quote generator it shares with its threads.  Every TCP connection has a *)
(* handler thread; every accepted subscription has a streaming thread that *)
(* drains its channel into UDP datagrams and a monitor thread that signals *)
(* shutdown when pings stop.                                               *)
(*                                                                         *)
(* Time is abstract here: the monitor may find its timeout expired at any  *)
(* moment, the streaming thread may find its channel empty whenever it is. *)
(***************************************************************************)
EXTENDS QuoteGenerator

CONSTANTS
  Conn,     \* TCP connections
  Unknown   \* ticker names clients ask for that are not in the tickers file

ASSUME ProcessorAssumption == Unknown \cap Ticker = {}

\* tickers_list of a parsed command: split(',') never yields an empty list.
Request == (SUBSET (Ticker \cup Unknown)) \ {{}}

VARIABLES
  next_id,      \* the AtomicU64 counter
  subscribers,  \* keys of the map subscribers: id -> SubscriberHandle
  shutdown,     \* the AtomicBool shared by handle, streaming and monitor
  hpc,          \* program counter of the handler thread of each connection
  hid,          \* the id a handler got from next_id
  hreq,         \* the tickers_list a handler read
  resp,         \* the response a connection received
  spc,          \* program counter of the streaming thread of each id
  mpc,          \* program counter of its monitor thread
  rm_tickers    \* local tickers of remove_receiver in the streaming thread

handlerVars == <<hpc, hid, hreq, resp>>
streamVars  == <<spc, mpc, rm_tickers>>
processorVars == <<next_id, subscribers, shutdown>>
vars == <<generatorVars, processorVars, handlerVars, streamVars>>

HandlerPc == {"idle", "read", "lock", "insert", "subscribe", "register",
              "spawn", "ack", "err", "done"}
StreamPc  == {"none", "bind", "check", "recv", "join", "remove", "lock",
              "rm_lookup", "rm_receivers", "rm_tickers", "done", "panicked"}
MonitorPc == {"none", "listen", "done"}

\* Type invariant of the server.
TypeOK ==
  /\ GeneratorTypeOK
  /\ next_id \in Nat
  /\ subscribers \in SUBSET Id
  /\ shutdown \in [Id -> BOOLEAN]
  /\ hpc \in [Conn -> HandlerPc]
  /\ hid \in [Conn -> Id]
  /\ hreq \in [Conn -> SUBSET (Ticker \cup Unknown)]
  /\ resp \in [Conn -> {"none", "ack", "err"}]
  /\ spc \in [Id -> StreamPc]
  /\ mpc \in [Id -> MonitorPc]
  /\ rm_tickers \in [Id -> SUBSET Ticker]

\* Processor::new and the start of start_tcp_server.
Init ==
  /\ GeneratorInit
  /\ next_id = 0
  /\ subscribers = {}
  /\ shutdown = [id \in Id |-> FALSE]
  /\ hpc = [c \in Conn |-> "idle"]
  /\ hid = [c \in Conn |-> 0]
  /\ hreq = [c \in Conn |-> {}]
  /\ resp = [c \in Conn |-> "none"]
  /\ spc = [id \in Id |-> "none"]
  /\ mpc = [id \in Id |-> "none"]
  /\ rm_tickers = [id \in Id |-> {}]

\* The generator mutex is held by the add_receiver of some handler.
GeneratorHeld == \E c \in Conn : hpc[c] \in {"insert", "subscribe"}

-----------------------------------------------------------------------------
(***************************************************************************)
(* Handler threads: accept, handle_request, add_subscriber.                *)
(***************************************************************************)

\* listener.accept() returned a stream; a handler thread is spawned.
Accept(c) ==
  /\ hpc[c] = "idle"
  /\ hpc' = [hpc EXCEPT ![c] = "read"]
  /\ UNCHANGED <<generatorVars, processorVars, hid, hreq, resp, streamVars>>

\* read_tcp_message failed (disconnect, oversized, not parsable): the handler
\* returns the error and the stream is dropped without a response.
ReadFails(c) ==
  /\ hpc[c] = "read"
  /\ hpc' = [hpc EXCEPT ![c] = "done"]
  /\ UNCHANGED <<generatorVars, processorVars, hid, hreq, resp, streamVars>>

\* A well-formed message that is not Cmd.
ReadUnexpected(c) ==
  /\ hpc[c] = "read"
  /\ hpc' = [hpc EXCEPT ![c] = "err"]
  /\ UNCHANGED <<generatorVars, processorVars, hid, hreq, resp, streamVars>>

\* A Cmd: add_subscriber takes an id and creates the channel.
ReadCommand(c, ts) ==
  /\ hpc[c] = "read"
  /\ next_id < MaxRequests
  /\ hid' = [hid EXCEPT ![c] = next_id]
  /\ hreq' = [hreq EXCEPT ![c] = ts]
  /\ next_id' = next_id + 1
  /\ rx_open' = [rx_open EXCEPT ![next_id] = TRUE]
  /\ hpc' = [hpc EXCEPT ![c] = "lock"]
  /\ UNCHANGED <<registryVars, subs_read, channel, tickerVars, subscribers,
                 shutdown, resp, streamVars>>

\* generator.lock(), then add_receiver fails: `?` returns, dropping rx.
AddRejected(c) ==
  /\ hpc[c] = "lock"
  /\ ~GeneratorHeld
  /\ AddReceiverRejects(hreq[c])
  /\ rx_open' = [rx_open EXCEPT ![hid[c]] = FALSE]
  /\ hpc' = [hpc EXCEPT ![c] = "err"]
  /\ UNCHANGED <<channel, tickerVars, processorVars, hid, hreq, resp,
                 streamVars>>

\* generator.lock(), then add_receiver goes ahead.
AddChecked(c) ==
  /\ hpc[c] = "lock"
  /\ ~GeneratorHeld
  /\ AddReceiverChecks(hreq[c])
  /\ hpc' = [hpc EXCEPT ![c] = "insert"]
  /\ UNCHANGED <<channelVars, tickerVars, processorVars, hid, hreq, resp,
                 streamVars>>

AddInserted(c) ==
  /\ hpc[c] = "insert"
  /\ AddReceiverInserts(hid[c], hreq[c])
  /\ hpc' = [hpc EXCEPT ![c] = "subscribe"]
  /\ UNCHANGED <<channelVars, tickerVars, processorVars, hid, hreq, resp,
                 streamVars>>

\* add_receiver returns and the generator mutex is released.
AddSubscribed(c) ==
  /\ hpc[c] = "subscribe"
  /\ AddReceiverSubscribes(hid[c], hreq[c])
  /\ hpc' = [hpc EXCEPT ![c] = "register"]
  /\ UNCHANGED <<channelVars, tickerVars, processorVars, hid, hreq, resp,
                 streamVars>>

\* subscribers.write().insert(id, handle)
RegisterSubscriber(c) ==
  /\ hpc[c] = "register"
  /\ subscribers' = subscribers \cup {hid[c]}
  /\ hpc' = [hpc EXCEPT ![c] = "spawn"]
  /\ UNCHANGED <<generatorVars, next_id, shutdown, hid, hreq, resp,
                 streamVars>>

\* The streaming thread is spawned; it owns rx from now on.
SpawnStreaming(c) ==
  /\ hpc[c] = "spawn"
  /\ spc' = [spc EXCEPT ![hid[c]] = "bind"]
  /\ hpc' = [hpc EXCEPT ![c] = "ack"]
  /\ UNCHANGED <<generatorVars, processorVars, hid, hreq, resp, mpc,
                 rm_tickers>>

\* thread::spawn panics when the OS refuses a thread: the closure with rx is
\* dropped, the handler unwinds and the stream closes without a response.
SpawnPanics(c) ==
  /\ hpc[c] = "spawn"
  /\ spc' = [spc EXCEPT ![hid[c]] = "panicked"]
  /\ rx_open' = [rx_open EXCEPT ![hid[c]] = FALSE]
  /\ channel' = [channel EXCEPT ![hid[c]] = <<>>]
  /\ hpc' = [hpc EXCEPT ![c] = "done"]
  /\ UNCHANGED <<registryVars, subs_read, tickerVars, processorVars, hid,
                 hreq, resp, mpc, rm_tickers>>

\* send_tcp_message; a write error loses the response and nothing else.
Respond(c) ==
  /\ hpc[c] \in {"ack", "err"}
  /\ resp' \in {resp, [resp EXCEPT ![c] = hpc[c]]}
  /\ hpc' = [hpc EXCEPT ![c] = "done"]
  /\ UNCHANGED <<generatorVars, processorVars, hid, hreq, streamVars>>

-----------------------------------------------------------------------------
(***************************************************************************)
(* Streaming threads: start_streaming and remove_subscriber.               *)
(***************************************************************************)

\* UdpSocket::bind failed: straight to remove_subscriber.
BindFails(id) ==
  /\ spc[id] = "bind"
  /\ spc' = [spc EXCEPT ![id] = "remove"]
  /\ UNCHANGED <<generatorVars, processorVars, handlerVars, mpc, rm_tickers>>

\* The socket is bound and cloned, the monitor is spawned.
StartMonitor(id) ==
  /\ spc[id] = "bind"
  /\ spc' = [spc EXCEPT ![id] = "check"]
  /\ mpc' = [mpc EXCEPT ![id] = "listen"]
  /\ UNCHANGED <<generatorVars, processorVars, handlerVars, rm_tickers>>

\* try_clone().expect(..), or the spawn of the monitor, panics (no more file
\* descriptors or threads): the thread unwinds, dropping rx.
StreamingPanics(id) ==
  /\ spc[id] = "bind"
  /\ spc' = [spc EXCEPT ![id] = "panicked"]
  /\ rx_open' = [rx_open EXCEPT ![id] = FALSE]
  /\ channel' = [channel EXCEPT ![id] = <<>>]
  /\ UNCHANGED <<registryVars, subs_read, tickerVars, processorVars,
                 handlerVars, mpc, rm_tickers>>

\* Variant: the flag is not looked at.
CheckNothing(id) ==
  /\ spc[id] = "check"
  /\ spc' = [spc EXCEPT ![id] = "recv"]
  /\ UNCHANGED <<generatorVars, processorVars, handlerVars, mpc, rm_tickers>>

\* The head of the streaming loop.
CheckShutdown(id) ==
  /\ spc[id] = "check"
  /\ spc' = [spc EXCEPT ![id] = IF shutdown[id] THEN "join" ELSE "recv"]
  /\ UNCHANGED <<generatorVars, processorVars, handlerVars, mpc, rm_tickers>>

\* What recv_timeout returns: the only Sender lives in the receivers map.
RecvTimeout(id) ==
  IF channel[id] # <<>> THEN "quote"
  ELSE IF id \in receivers THEN "timeout" ELSE "disconnected"

\* recv_timeout and the branch it selects: a quote is sent as a datagram
\* (an error is only logged), a timeout continues, a disconnect breaks out of
\* the loop and sets shutdown.
StreamQuote(id) ==
  /\ spc[id] = "recv"
  /\ channel' = IF RecvTimeout(id) = "quote"
                THEN [channel EXCEPT ![id] = Tail(@)] ELSE channel
  /\ spc' = [spc EXCEPT ![id] =
               IF RecvTimeout(id) = "disconnected" THEN "join" ELSE "check"]
  /\ shutdown' = IF RecvTimeout(id) = "disconnected"
                 THEN [shutdown EXCEPT ![id] = TRUE] ELSE shutdown
  /\ UNCHANGED <<registryVars, subs_read, rx_open, tickerVars, next_id,
                 subscribers, handlerVars, mpc, rm_tickers>>

\* monitor_handle.join()
JoinMonitor(id) ==
  /\ spc[id] = "join"
  /\ mpc[id] = "done"
  /\ spc' = [spc EXCEPT ![id] = "remove"]
  /\ UNCHANGED <<generatorVars, processorVars, handlerVars, mpc, rm_tickers>>

\* Variant: the handle is read and not removed.
GetSubscriber(id) ==
  /\ spc[id] = "remove"
  /\ id \in subscribers
  /\ shutdown' = [shutdown EXCEPT ![id] = TRUE]
  /\ spc' = [spc EXCEPT ![id] = "lock"]
  /\ UNCHANGED <<generatorVars, subscribers, next_id, handlerVars, mpc,
                 rm_tickers>>

\* remove_subscriber: subscribers.write().remove(&id).  Without a handle
\* nothing else is removed and the thread returns, dropping rx.
RemoveSubscriber(id) ==
  /\ spc[id] = "remove"
  /\ subscribers' = subscribers \ {id}
  /\ IF id \in subscribers
     THEN /\ shutdown' = [shutdown EXCEPT ![id] = TRUE]
          /\ spc' = [spc EXCEPT ![id] = "lock"]
          /\ UNCHANGED channelVars
     ELSE /\ spc' = [spc EXCEPT ![id] = "done"]
          /\ rx_open' = [rx_open EXCEPT ![id] = FALSE]
          /\ channel' = [channel EXCEPT ![id] = <<>>]
          /\ UNCHANGED shutdown
  /\ UNCHANGED <<registryVars, subs_read, tickerVars, next_id, handlerVars,
                 mpc, rm_tickers>>

\* generator.lock(), held only to clone the two Arcs.
LockGenerator(id) ==
  /\ spc[id] = "lock"
  /\ ~GeneratorHeld
  /\ spc' = [spc EXCEPT ![id] = "rm_lookup"]
  /\ UNCHANGED <<generatorVars, processorVars, handlerVars, mpc, rm_tickers>>

\* The three steps of remove_receiver(id, ..).
StreamReadsTickers(id) ==
  /\ spc[id] = "rm_lookup"
  /\ rm_tickers' = [rm_tickers EXCEPT ![id] = ReceiverTickers(id)]
  /\ spc' = [spc EXCEPT ![id] = "rm_receivers"]
  /\ UNCHANGED <<generatorVars, processorVars, handlerVars, mpc>>

StreamRemovesReceiver(id) ==
  /\ spc[id] = "rm_receivers"
  /\ RemoveFromReceivers(id)
  /\ spc' = [spc EXCEPT ![id] = "rm_tickers"]
  /\ UNCHANGED <<channelVars, tickerVars, processorVars, handlerVars, mpc,
                 rm_tickers>>

\* The last step; start_streaming then returns, dropping rx.
StreamRemovesTickers(id) ==
  /\ spc[id] = "rm_tickers"
  /\ RemoveFromTickers(id, rm_tickers[id])
  /\ rm_tickers' = [rm_tickers EXCEPT ![id] = {}]
  /\ spc' = [spc EXCEPT ![id] = "done"]
  /\ rx_open' = [rx_open EXCEPT ![id] = FALSE]
  /\ channel' = [channel EXCEPT ![id] = <<>>]
  /\ UNCHANGED <<tickerVars, processorVars, handlerVars, mpc>>

\* monitor_connection finds a timeout expired: it signals and ends.  It never
\* looks at shutdown itself.
MonitorExpires(id) ==
  /\ mpc[id] = "listen"
  /\ shutdown' = [shutdown EXCEPT ![id] = TRUE]
  /\ mpc' = [mpc EXCEPT ![id] = "done"]
  /\ UNCHANGED <<generatorVars, next_id, subscribers, handlerVars, spc,
                 rm_tickers>>

\* One of its two expects panics (the read timeout cannot be set, a Pong does
\* not serialize): it ends without a signal, and nothing else notices.
MonitorPanics(id) ==
  /\ mpc[id] = "listen"
  /\ mpc' = [mpc EXCEPT ![id] = "done"]
  /\ UNCHANGED <<generatorVars, processorVars, handlerVars, spc, rm_tickers>>

-----------------------------------------------------------------------------
HandlerStep(c) ==
  \/ Accept(c)
  \/ ReadFails(c)
  \/ ReadUnexpected(c)
  \/ \E ts \in Request : ReadCommand(c, ts)
  \/ AddRejected(c)
  \/ AddChecked(c)
  \/ AddInserted(c)
  \/ AddSubscribed(c)
  \/ RegisterSubscriber(c)
  \/ SpawnStreaming(c)
  \/ SpawnPanics(c)
  \/ Respond(c)

StreamStep(id) ==
  \/ BindFails(id)
  \/ StartMonitor(id)
  \/ StreamingPanics(id)
  \/ CheckShutdown(id)
  \/ StreamQuote(id)
  \/ JoinMonitor(id)
  \/ RemoveSubscriber(id)
  \/ LockGenerator(id)
  \/ StreamReadsTickers(id)
  \/ StreamRemovesReceiver(id)
  \/ StreamRemovesTickers(id)

MonitorStep(id) == MonitorExpires(id) \/ MonitorPanics(id)

TickerThread(t) ==
  /\ TickerStep(t)
  /\ UNCHANGED <<processorVars, handlerVars, streamVars>>

Next ==
  \/ \E c \in Conn : HandlerStep(c)
  \/ \E id \in Id : StreamStep(id) \/ MonitorStep(id)
  \/ \E t \in Ticker : TickerThread(t)

Spec == Init /\ [][Next]_vars

-----------------------------------------------------------------------------
(***************************************************************************)
(* Fairness.  Every thread that can run keeps running (the OS scheduler);  *)
(* parking_lot's RwLock is task-fair, so some writer that waits for        *)
(* receivers gets in although ticker threads keep taking the read lock.    *)
(* Clients, and so Accept, the reads and the monitors, owe nothing.        *)
(***************************************************************************)
HandlerRuns(c) ==
  \/ AddRejected(c) \/ AddChecked(c) \/ AddInserted(c) \/ AddSubscribed(c)
  \/ RegisterSubscriber(c) \/ SpawnStreaming(c) \/ SpawnPanics(c)
  \/ Respond(c)

\* Some writer that waits for receivers gets its write lock.
WriterEnters ==
  \/ \E c \in Conn : AddInserted(c)
  \/ \E id \in Id : StreamRemovesReceiver(id)
  \/ \E t \in Ticker :
       /\ ReapRemovesReceiver(t)
       /\ UNCHANGED <<processorVars, handlerVars, streamVars>>

Fairness ==
  /\ \A c \in Conn : WF_vars(HandlerRuns(c))
  /\ \A id \in Id : WF_vars(StreamStep(id))
  /\ \A t \in Ticker : WF_vars(TickerThread(t))
  /\ SF_vars(WriterEnters)

FairSpec == Spec /\ Fairness

-----------------------------------------------------------------------------
(***************************************************************************)
(* Safety.                                                                 *)
(***************************************************************************)

\* The tickers that the command which was given id asked for.
Wanted(id) == UNION {hreq[c] : c \in {x \in Conn : hid[x] = id}}

\* A remove_receiver of id has still to take id out of the set of t.
Removing(id, t) ==
  \/ spc[id] = "rm_tickers" /\ t \in rm_tickers[id]
  \/ \E u \in Ticker : /\ tpc[u] = "reap_tickers"
                       /\ reap_id[u] = id
                       /\ t \in reap_tickers[u]

\* An add_receiver of id is between its two write locks.
Adding(id) == \E c \in Conn : hpc[c] = "subscribe" /\ hid[c] = id

\* The two maps agree about id and t, or a thread is between its locks.
ConsistentAt(id, t) ==
  /\ id \in tickers_to_receivers[t] =>
       \/ id \in receivers /\ t \in subscribed_tickers[id]
       \/ Removing(id, t)
  /\ id \in receivers /\ t \in subscribed_tickers[id] =>
       id \in tickers_to_receivers[t] \/ Adding(id)

\* The two maps, changed under two different locks by handlers, streaming
\* threads and ticker threads, never disagree except about an id that some
\* thread is in the middle of adding or removing, and that thread still
\* knows the tickers it has to clean up (add_receiver, remove_receiver).
RegistryConsistent == \A id \in Id, t \in Ticker : ConsistentAt(id, t)

\* While a streaming thread is in its loop its receiver is registered for
\* exactly the tickers its client asked for, in both maps, and its channel is
\* open: recv_timeout never returns Disconnected.
StreamingIsFed ==
  \A id \in Id : spc[id] \in {"bind", "check", "recv"} =>
    /\ rx_open[id]
    /\ id \in receivers
    /\ \A t \in Ticker : id \in tickers_to_receivers[t] <=> t \in Wanted(id)

\* A streaming thread that calls monitor_handle.join() finds its monitor ended.
\* The monitor does not look at shutdown while it listens, so a thread that
\* left its loop for any other reason than the monitor's signal would wait
\* for as long as the client keeps pinging, and its subscription would stay.
JoinNeverWaits == \A id \in Id : spc[id] = "join" => mpc[id] = "done"

\* No subscriber is ever queued a quote of a ticker it did not ask for, even
\* by a ticker thread that sends from a stale copy of receiver_ids.  This is
\* what the remark on unique ids at add_receiver relies on.
NoMisdelivery ==
  \A id \in Id : \A i \in 1 .. Len(channel[id]) :
    channel[id][i].ticker \in Wanted(id)

\* Positions i and j of the queue s hold two quotes of t, and no other quote
\* of t is between them.
Successive(s, t, i, j) ==
  /\ i < j
  /\ s[i].ticker = t
  /\ s[j].ticker = t
  /\ \A k \in (i + 1) .. (j - 1) : s[k].ticker # t

\* Position i of the queue s holds its last quote of t.
IsLast(s, t, i) ==
  /\ s[i].ticker = t
  /\ \A k \in (i + 1) .. Len(s) : s[k].ticker # t

\* The thread of t has generated a quote it has not yet tried to send to id.
Pending(id, t) ==
  \/ tpc[t] \in {"lookup", "read_lock"}
  \/ tpc[t] = "send" /\ id \in receiver_ids[t]

\* A registered subscriber gets the quotes of a ticker in the order they are
\* generated and without a gap: the last one queued is the current one, or
\* the previous one when the thread has not yet reached this subscriber.
GapFree ==
  \A id \in Id, t \in Ticker :
    LET s == channel[id]
    IN  /\ \A i, j \in 1 .. Len(s) :
             Successive(s, t, i, j) => s[j].number = (s[i].number + 1) % Wrap
        /\ \A i \in 1 .. Len(s) : IsLast(s, t, i) /\ id \in receivers =>
             number[t] = IF Pending(id, t) THEN (s[i].number + 1) % Wrap
                                           ELSE s[i].number

\* A subscription that was refused, and one whose streaming thread returned,
\* has left nothing behind in any of the three maps (remove_subscriber, the
\* early return of add_receiver); and a handle stays in subscribers only
\* while a thread is there to remove it, or after that thread panicked.
CleanupComplete ==
  /\ \A c \in Conn : hpc[c] = "err" \/ resp[c] = "err" =>
       \A id \in Id : (hid[c] = id /\ hreq[c] # {}) =>
         /\ id \notin receivers \cup subscribers
         /\ \A t \in Ticker : id \notin tickers_to_receivers[t]
  /\ \A id \in Id : spc[id] = "done" =>
       /\ id \notin receivers \cup subscribers
       /\ \A t \in Ticker : id \notin tickers_to_receivers[t]
  /\ \A id \in subscribers :
       \/ spc[id] \in {"bind", "check", "recv", "join", "remove", "panicked"}
       \/ \E c \in Conn : hpc[c] = "spawn" /\ hid[c] = id

-----------------------------------------------------------------------------
(***************************************************************************)
(* The abstract view of the two maps.                                      *)
(***************************************************************************)

\* An id is effectively subscribed to t when it is in both maps: that is what
\* makes a ticker thread send to it.
EffectiveSubs == [t \in Ticker |-> tickers_to_receivers[t] \cap receivers]

SubscriptionPhase ==
  [id \in Id |->
     IF id \in receivers /\ ~Adding(id) THEN "active"
     ELSE IF spc[id] \in {"rm_tickers", "done", "panicked"} THEN "closed"
     ELSE "new"]

PS == INSTANCE PubSub WITH phase <- SubscriptionPhase,
                           subs <- EffectiveSubs,
                           queue <- channel

\* The server implements PubSub: although add_receiver and remove_receiver
\* take several locks one after the other, a subscription begins and ends
\* atomically, once, and quotes are queued only while it lasts.
PubSubSpec == PS!Spec

-----------------------------------------------------------------------------
(***************************************************************************)
(* Liveness.                                                               *)
(***************************************************************************)

Forgotten(id) ==
  /\ id \notin receivers
  /\ \A t \in Ticker : id \notin tickers_to_receivers[t]

\* Every command is answered (or its handler panicked): no handler waits for
\* ever for the generator mutex or for receivers.write().
CommandsFinish == \A c \in Conn : hpc[c] = "lock" ~> hpc[c] = "done"

\* Once the monitor has signalled shutdown the subscription disappears from
\* all three maps, whatever locks the ticker threads take meanwhile.
SignalledIsForgotten ==
  \A id \in Id : shutdown[id] ~> Forgotten(id) /\ id \notin subscribers

\* The receiver of a streaming thread that panicked is cleaned up by a ticker
\* thread that finds its channel closed (dead_recv).
PanickedIsReaped ==
  \A id \in Id : spc[id] = "panicked" ~> Forgotten(id)
=============================================================================
