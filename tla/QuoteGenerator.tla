--------------------------- MODULE QuoteGenerator ---------------------------
(***************************************************************************)
(* The quote generator of the server (server/src/generator.rs): one thread *)
(* per ticker that generates quotes and sends them to the mpsc channels of *)
(* the subscribed receivers, and the two maps behind separate RwLocks      *)
(* that the threads of the generator and of the processor share.           *)
(*                                                                         *)
(* A critical section that takes a single lock and does not block inside   *)
(* it is one step.  The two sections that hold a lock over several steps   *)
(* are explicit: a ticker thread holds receivers.read() while it sends     *)
(* (tpc = "send"), and add_receiver holds tickers_to_receivers.read()      *)
(* while it waits for receivers.write() (subs_read).                       *)
(*                                                                         *)
(* The module has the ticker threads as actions of its own, and the steps  *)
(* of add_receiver and remove_receiver as actions that their callers, in   *)
(* module Processor, conjoin with their own program counters.              *)
(***************************************************************************)
EXTENDS Naturals, Sequences, FiniteSets

CONSTANTS
  Ticker,       \* the tickers loaded from the tickers file
  MaxRequests,  \* bound: number of subscribe commands the server reads
  MaxQueue,     \* bound: no quote is generated while a channel is this long
  Wrap          \* bound: quotes of a ticker are numbered modulo Wrap

ASSUME GeneratorAssumption ==
  /\ MaxRequests \in Nat \ {0}
  /\ MaxQueue \in Nat \ {0}
  /\ Wrap \in Nat \ {0}

\* Subscriber ids, as handed out by next_id.fetch_add.
Id == 0 .. (MaxRequests - 1)

\* StockQuote, reduced to what the properties tell apart.
Quote == [ticker : Ticker, number : 0 .. (Wrap - 1)]

VARIABLES
  receivers,            \* keys of the map receivers: id -> ReceiverInfo
  subscribed_tickers,   \* ReceiverInfo.subscribed_tickers; {} if id has no entry
  tickers_to_receivers, \* ticker -> set of ids
  subs_read,            \* is tickers_to_receivers.read() held by add_receiver?
  channel,              \* the quotes queued in the mpsc channel of each id
  rx_open,              \* is the Receiver half of the channel of id alive?
  number,               \* number of the last quote generated for each ticker
  tpc,                  \* program counter of each ticker thread
  receiver_ids,         \* local receiver_ids: the ids still to be sent to
  dead_recv,            \* local dead_recv: ids whose channel was closed
  reap_id,              \* the id a ticker thread runs remove_receiver for
  reap_tickers          \* local tickers of that remove_receiver

registryVars == <<receivers, subscribed_tickers, tickers_to_receivers>>
channelVars  == <<channel, rx_open>>
reapVars     == <<reap_id, reap_tickers>>
sharedVars   == <<registryVars, subs_read, channelVars>>
tickerVars   == <<number, tpc, receiver_ids, dead_recv, reapVars>>
generatorVars == <<sharedVars, tickerVars>>

TickerPc == {"top", "lookup", "read_lock", "send",
             "reap", "reap_receivers", "reap_tickers"}

GeneratorTypeOK ==
  /\ receivers \in SUBSET Id
  /\ subscribed_tickers \in [Id -> SUBSET Ticker]
  /\ tickers_to_receivers \in [Ticker -> SUBSET Id]
  /\ subs_read \in BOOLEAN
  /\ channel \in [Id -> Seq(Quote)]
  /\ rx_open \in [Id -> BOOLEAN]
  /\ number \in [Ticker -> 0 .. (Wrap - 1)]
  /\ tpc \in [Ticker -> TickerPc]
  /\ receiver_ids \in [Ticker -> SUBSET Id]
  /\ dead_recv \in [Ticker -> SUBSET Id]
  /\ reap_id \in [Ticker -> Id]
  /\ reap_tickers \in [Ticker -> SUBSET Ticker]

\* QuoteGenerator::new followed by start: every configured ticker has an
\* entry in both maps and a thread of its own.
GeneratorInit ==
  /\ receivers = {}
  /\ subscribed_tickers = [id \in Id |-> {}]
  /\ tickers_to_receivers = [t \in Ticker |-> {}]
  /\ subs_read = FALSE
  /\ channel = [id \in Id |-> <<>>]
  /\ rx_open = [id \in Id |-> FALSE]
  /\ number = [t \in Ticker |-> 0]
  /\ tpc = [t \in Ticker |-> "top"]
  /\ receiver_ids = [t \in Ticker |-> {}]
  /\ dead_recv = [t \in Ticker |-> {}]
  /\ reap_id = [t \in Ticker |-> 0]
  /\ reap_tickers = [t \in Ticker |-> {}]

-----------------------------------------------------------------------------
(***************************************************************************)
(* Locks.                                                                  *)
(***************************************************************************)

\* Some ticker thread holds recv_guard = receivers.read(): no writer of
\* receivers can get in.  The guard's scope ends before the cleanup.
ReceiversReadHeld == \E t \in Ticker : tpc[t] = "send"

-----------------------------------------------------------------------------
(***************************************************************************)
(* add_receiver, called with the generator mutex held.                     *)
(***************************************************************************)

\* One of the requested tickers has no entry: Err(TickerNotExists), nothing
\* is registered.
AddReceiverRejects(ts) ==
  /\ ~(ts \subseteq Ticker)
  /\ UNCHANGED <<registryVars, subs_read>>

\* Variant: the tickers are not checked.
AddReceiverSkipsCheck(ts) ==
  /\ subs_read' = TRUE
  /\ UNCHANGED registryVars

\* All requested tickers exist; tickers_to_receivers.read() stays held.
AddReceiverChecks(ts) ==
  /\ ts \subseteq Ticker
  /\ subs_read' = TRUE
  /\ UNCHANGED registryVars

\* Variant: drop(ticker_subs) is missing.
AddReceiverKeepsReadLock(id, ts) ==
  /\ ~ReceiversReadHeld
  /\ receivers' = receivers \cup {id}
  /\ subscribed_tickers' = [subscribed_tickers EXCEPT ![id] = ts]
  /\ UNCHANGED <<tickers_to_receivers, subs_read>>

\* receivers.write().insert(id, ..), then drop(ticker_subs).
AddReceiverInserts(id, ts) ==
  /\ ~ReceiversReadHeld
  /\ receivers' = receivers \cup {id}
  /\ subscribed_tickers' = [subscribed_tickers EXCEPT ![id] = ts]
  /\ subs_read' = FALSE
  /\ UNCHANGED tickers_to_receivers

\* The id is added to the set of every requested ticker under one write lock.
AddReceiverSubscribes(id, ts) ==
  /\ ~subs_read
  /\ tickers_to_receivers' =
       [t \in Ticker |-> IF t \in ts THEN tickers_to_receivers[t] \cup {id}
                                     ELSE tickers_to_receivers[t]]
  /\ UNCHANGED <<receivers, subscribed_tickers, subs_read>>

-----------------------------------------------------------------------------
(***************************************************************************)
(* remove_receiver, called by ticker threads and by streaming threads.     *)
(***************************************************************************)

\* Variant: the tickers are looked up after the entry was removed.
ReceiverTickersTooLate(id) == {}

\* 1. receivers.read().get(&id): the tickers of id, or the empty default.
ReceiverTickers(id) == IF id \in receivers THEN subscribed_tickers[id] ELSE {}

\* 2. receivers.write().remove(&id), which also drops the Sender.
RemoveFromReceivers(id) ==
  /\ ~ReceiversReadHeld
  /\ receivers' = receivers \ {id}
  /\ subscribed_tickers' = [subscribed_tickers EXCEPT ![id] = {}]
  /\ UNCHANGED <<tickers_to_receivers, subs_read>>

\* 3. The id leaves the sets of the tickers read in 1, under one write lock.
RemoveFromTickers(id, ts) ==
  /\ ~subs_read
  /\ tickers_to_receivers' =
       [t \in Ticker |-> IF t \in ts THEN tickers_to_receivers[t] \ {id}
                                     ELSE tickers_to_receivers[t]]
  /\ UNCHANGED <<receivers, subscribed_tickers, subs_read>>

-----------------------------------------------------------------------------
(***************************************************************************)
(* start_for_quote: the loop of the thread of ticker t.                    *)
(***************************************************************************)

\* generate_quote.  Prices are the subject of another module; the bound
\* stands for streaming threads that drain their channels within the
\* BASE_DELAY a ticker thread sleeps.
GenerateQuote(t) ==
  /\ tpc[t] = "top"
  /\ \A id \in Id : Len(channel[id]) < MaxQueue
  /\ number' = [number EXCEPT ![t] = (number[t] + 1) % Wrap]
  /\ tpc' = [tpc EXCEPT ![t] = "lookup"]
  /\ UNCHANGED <<sharedVars, receiver_ids, dead_recv, reapVars>>

\* Variant: the ids of all receivers, not those of the ticker.
LookupAllReceivers(t) ==
  /\ tpc[t] = "lookup"
  /\ receiver_ids' = [receiver_ids EXCEPT ![t] = receivers]
  /\ tpc' = [tpc EXCEPT ![t] = "read_lock"]
  /\ UNCHANGED <<sharedVars, number, dead_recv, reapVars>>

\* The ids are copied under tickers_to_receivers.read(), which is released.
LookupReceivers(t) ==
  /\ tpc[t] = "lookup"
  /\ receiver_ids' = [receiver_ids EXCEPT ![t] = tickers_to_receivers[t]]
  /\ tpc' = [tpc EXCEPT ![t] = "read_lock"]
  /\ UNCHANGED <<sharedVars, number, dead_recv, reapVars>>

\* recv_guard = receivers.read()
LockReceivers(t) ==
  /\ tpc[t] = "read_lock"
  /\ tpc' = [tpc EXCEPT ![t] = "send"]
  /\ UNCHANGED <<sharedVars, number, receiver_ids, dead_recv, reapVars>>

\* Variants of SendQuote: what is sent to id and when id counts as dead.
SendVariant(t, id, sent, dead) ==
  /\ tpc[t] = "send"
  /\ id \in receiver_ids[t]
  /\ receiver_ids' = [receiver_ids EXCEPT ![t] = @ \ {id}]
  /\ channel' = IF sent
                THEN [channel EXCEPT ![id] =
                        Append(@, [ticker |-> t, number |-> number[t]])]
                ELSE channel
  /\ dead_recv' = IF dead THEN [dead_recv EXCEPT ![t] = @ \cup {id}]
                  ELSE dead_recv
  /\ UNCHANGED <<registryVars, subs_read, rx_open, number, tpc, reapVars>>

\* The senders were copied with the ids: the entry is not looked up again.
SendToCopiedSender(t, id) ==
  SendVariant(t, id, rx_open[id], id \in receivers /\ ~rx_open[id])

\* A receiver that lags behind is taken for dead.
SendDropsLagging(t, id) ==
  SendVariant(t, id, id \in receivers /\ rx_open[id],
              id \in receivers /\ (~rx_open[id] \/ channel[id] # <<>>))

\* A quote is skipped when the receiver has not taken the previous one.
SendSkipsLagging(t, id) ==
  SendVariant(t, id, id \in receivers /\ rx_open[id] /\ channel[id] = <<>>,
              id \in receivers /\ ~rx_open[id])

\* The error of send is ignored.
SendIgnoresError(t, id) ==
  SendVariant(t, id, id \in receivers /\ rx_open[id], FALSE)

\* One iteration of the send loop, in the arbitrary order of a HashSet: an
\* id without an entry is skipped, a closed channel makes it a dead receiver.
SendQuote(t, id) ==
  /\ tpc[t] = "send"
  /\ id \in receiver_ids[t]
  /\ receiver_ids' = [receiver_ids EXCEPT ![t] = @ \ {id}]
  /\ channel' = IF id \in receivers /\ rx_open[id]
                THEN [channel EXCEPT ![id] =
                        Append(@, [ticker |-> t, number |-> number[t]])]
                ELSE channel
  /\ dead_recv' = IF id \in receivers /\ ~rx_open[id]
                  THEN [dead_recv EXCEPT ![t] = @ \cup {id}]
                  ELSE dead_recv
  /\ UNCHANGED <<registryVars, subs_read, rx_open, number, tpc, reapVars>>

\* End of the scope of recv_guard; the thread cleans up or goes to sleep.
UnlockReceivers(t) ==
  /\ tpc[t] = "send"
  /\ receiver_ids[t] = {}
  /\ tpc' = [tpc EXCEPT ![t] = IF dead_recv[t] = {} THEN "top" ELSE "reap"]
  /\ UNCHANGED <<sharedVars, number, receiver_ids, dead_recv, reapVars>>

\* remove_receiver(*id, ..) for the ids of dead_recv, one after the other.
ReapReadsTickers(t, id) ==
  /\ tpc[t] = "reap"
  /\ id \in dead_recv[t]
  /\ reap_id' = [reap_id EXCEPT ![t] = id]
  /\ reap_tickers' = [reap_tickers EXCEPT ![t] = ReceiverTickers(id)]
  /\ tpc' = [tpc EXCEPT ![t] = "reap_receivers"]
  /\ UNCHANGED <<sharedVars, number, receiver_ids, dead_recv>>

ReapRemovesReceiver(t) ==
  /\ tpc[t] = "reap_receivers"
  /\ RemoveFromReceivers(reap_id[t])
  /\ tpc' = [tpc EXCEPT ![t] = "reap_tickers"]
  /\ UNCHANGED <<channelVars, number, receiver_ids, dead_recv, reapVars>>

ReapRemovesTickers(t) ==
  /\ tpc[t] = "reap_tickers"
  /\ RemoveFromTickers(reap_id[t], reap_tickers[t])
  /\ dead_recv' = [dead_recv EXCEPT ![t] = @ \ {reap_id[t]}]
  /\ tpc' = [tpc EXCEPT ![t] = IF dead_recv'[t] = {} THEN "top" ELSE "reap"]
  /\ reap_id' = [reap_id EXCEPT ![t] = 0]
  /\ reap_tickers' = [reap_tickers EXCEPT ![t] = {}]
  /\ UNCHANGED <<channelVars, number, receiver_ids>>

\* The thread of ticker t.
TickerStep(t) ==
  \/ GenerateQuote(t)
  \/ LookupReceivers(t)
  \/ LockReceivers(t)
  \/ \E id \in Id : SendQuote(t, id)
  \/ UnlockReceivers(t)
  \/ \E id \in Id : ReapReadsTickers(t, id)
  \/ ReapRemovesReceiver(t)
  \/ ReapRemovesTickers(t)

=============================================================================
