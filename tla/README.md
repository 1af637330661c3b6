# Verification of stocks-streaming

TLA+ models, TLC runs and TLAPS proofs for the quote server (`server/`) and the
streaming client (`client/`). Sizes and line numbers refer to the repository at
the commit this directory was written for; paths below start at `src/`.

## 1. The system

A server generates quotes for the tickers of a file, one thread per ticker. A
client connects over TCP, sends one command (a UDP address and a list of
tickers), gets `Ack` or `Err`, and from then on receives quotes as UDP
datagrams. Client and server watch each other with pings and pongs on the same
UDP sockets.

| Component | State | Operations | Talks to |
|---|---|---|---|
| `QuoteGenerator` (`server/src/generator.rs`) | `receivers` (id to channel sender and tickers), `tickers_to_receivers`, `prices`; an `RwLock` each | `start_for_quote` (loop of a ticker thread), `add_receiver`, `remove_receiver`, `generate_quote` | sends into the mpsc channel of every subscribed receiver |
| `Processor` (`server/src/processor.rs`) | `subscribers` behind an `RwLock`, `next_id`, a shutdown flag per subscriber, the generator behind a `Mutex` | `start_tcp_server`, `handle_request`, `add_subscriber`, `start_streaming`, `remove_subscriber` | a handler thread per connection, a streaming thread per subscription; calls the generator |
| `monitor_connection` (same file) | `last_ping`, `start_time` | answers pings; signals shutdown when they stop | a thread per subscription; shares the flag with the streaming thread |
| `Worker` (`client/src/worker.rs`) | `pings` (ring buffer), `shutdown` | `start` (subscribe, with retries), `udp_listener_loop`, `start_pinging` | TCP and UDP to the server |
| client `main` | `running` | Ctrl+C handler, waiting loop, join | shares `shutdown` with the worker |
| protocol types (`server/src/types.rs`) | none | parse and format TCP messages and commands, encode UDP messages | used by both programs |
| framing (`read_tcp_message`, `send_tcp_message`, `send_command`) | none | length-prefixed messages, size limit | handler and client, on one TCP stream |
| server `main` | none | starts generator and processor; nothing is persisted | |

What is hard here:

- **The two maps of the generator have two locks**, and `add_receiver`,
  `remove_receiver` and the ticker threads take them one after the other. Three
  kinds of thread may remove or use the same id at the same time.
- **Stale copies**: a ticker thread copies the ids of a ticker, releases the
  lock, and sends later under the other lock.
- **Locks held across waits**: `add_receiver` waits for `receivers.write()`
  with `tickers_to_receivers.read()` and the generator mutex held.
- **Partial failure**: UDP bind errors after the `Ack`, panics of
  `try_clone().expect` or `thread::spawn` after registration, lost responses,
  threads of the client that panic while the others run on.
- **Joins**: the streaming thread joins a monitor that never reads the shutdown
  flag; client main joins the listener, which joins the ping thread.
- **Timeouts**: pings are lost and late, and the monitor looks at the time only
  when its socket has been silent for a second.
- **A price is read under one lock and written under another**; a second thread
  for the same ticker would lose updates.
- **Streams are not messages**: TCP hands out a frame in pieces of any size, may
  break in the middle of it, and neither side has a read timeout.
- **Text without escapes**: fields and names are joined with separators that a
  name may contain.
- **Lost acknowledgements, restarts and crashes**: a client that misses its `Ack`
  subscribes again, a client started again on its port meets the packets of
  its predecessor's subscription, a server that starts again knows nobody.
- **Fair locks**: a reader queues behind a waiting writer, so a thread may be
  held up by one that holds nothing.
- **Send before record**: the client sends a ping before its record is in the
  ring buffer that the listener searches.

The correctness properties per component, in words:

- *Generator and processor*: the maps agree; a running stream is registered
  for just what its client asked for; nobody gets a foreign ticker; quotes are
  queued in order, without gaps; refused and finished subscriptions leave
  nothing behind; a join of a monitor does not wait; commands are answered;
  signalled subscriptions disappear.
- *Prices*: the quotes of a ticker are a walk within the change limit, never
  below the floor; what is stored is what was quoted.
- *Locks*: nobody waits in a circle or for a lock that is never released,
  everybody gets in.
- *Exchange*: a message is read as it was sent; an `Ack` is for exactly the names
  the client was started with, and separators in them do not touch its address; the
  sides do not wait for each other; every
  attempt ends.
- *Client and server together*: a client gets what it has asked for; what lost
  `Ack`s and ended clients leave behind expires; an `Ack` arrives in the end, unless
  the tickers are refused.
- *Monitor*: a pinging client is not given up, a silent one is, in time.
- *Worker and main*: the ring is the window of the last pings; round-trip times
  belong to their pings; a dead server is noticed; Ctrl+C ends all threads.

## 2. Modules

| Module | Models | Main variables |
|---|---|---|
| `QuoteGenerator` | ticker threads, the steps of `add_receiver` and `remove_receiver`, both RwLocks | `receivers`, `subscribed_tickers`, `tickers_to_receivers`, `channel`, `rx_open`, `tpc` |
| `Processor` | the server: handlers, streaming threads, monitors, composed with the generator (`EXTENDS`) | `hpc`, `spc`, `mpc`, `subscribers`, `shutdown`, `next_id` |
| `PubSub` | the abstract specification that `Processor` implements | `phase`, `subs`, `queue` |
| `Health` | `monitor_connection` against the ping schedule of a client, in discrete time | `waited`, `elapsed`, `last_ping`, `flight`, `next_ping` |
| `Worker` | the client: main, listener and ping threads, with server and network as environment | `pings`, `mainpc`, `lpc`, `ppc`, `wire_pings`, `wire_pongs` |
| `Locks` | what each kind of thread acquires and releases, and the queues of the locks | `todo`, `queue`, `readers`, `writer` |
| `Prices` | tickers file, `prices` map, `generate_quote` with its two locks | `prices`, `pc`, `new`, `quote` |
| `PriceWalk` | the abstract specification that `Prices` implements | `quote` |
| `Text`, `Protocol` | trimming and splitting; format and parse of TCP messages, with the errors in their order (operators only) | |
| `Exchange` | one TCP subscription as bytes: framing, `read_tcp_message` on both sides, `handle_request`, the attempts of `Worker::start` | `out`, `wire`, `reader`, `registered`, `response` |
| `Session` | clients that come and go, the subscriptions they leave, a server that crashes | `sub`, `wire`, `cpc`, `att`, `src`, `got` |
| `MCProcessor`, `MCPrices`, `MCExchange` | symmetry, a tickers file, the inputs for the runs | |
| `ProcessorProofs`, `WorkerProofs`, `HealthProofs`, `PricesProofs`, `TextProofs`, `ExchangeProofs`, `SessionProofs`, `LocksProofs` | theorems; those about `PubSub` are in `ProcessorProofs` | |

`Processor` extends `QuoteGenerator`; `Exchange` extends `Protocol`, which with
`Prices` extends `Text`; `Processor` and `Prices` instantiate their abstract
specifications, `PubSub` and `PriceWalk`. `Session` composes client and server
from what the other modules establish of each.

### Correspondence with the code

**Program counters and locks.** Every thread has a program counter; a value
names the next step. A critical section that takes one lock and does not block
inside is one step. The sections that hold a lock over several steps are
explicit: a ticker thread holds `receivers.read()` while `tpc = "send"`
(`ReceiversReadHeld`); `add_receiver` holds `tickers_to_receivers.read()` while
`subs_read` is true, and the generator mutex while `hpc` is `"insert"` or
`"subscribe"` (`GeneratorHeld`). `remove_subscriber` holds the mutex only to
clone two `Arc`s, one step (`LockGenerator`).

**`add_receiver`** (generator.rs 255-285) is `AddReceiverRejects` or
`AddReceiverChecks`, `AddReceiverInserts`, `AddReceiverSubscribes`;
**`remove_receiver`** (288-310) is `ReceiverTickers`, `RemoveFromReceivers`,
`RemoveFromTickers`. These are actions without program counters: the handler
(`AddRejected`, `AddChecked`, `AddInserted`, `AddSubscribed`), the streaming
thread (`StreamReadsTickers`, ...) and the ticker thread (`ReapReadsTickers`,
...) conjoin them with their own.

**Channels.** `channel[id]` is the mpsc queue. Its only `Sender` lives in the
`receivers` entry, so `recv_timeout` is disconnected exactly when the queue is
empty and the entry is gone (`RecvTimeout`). Its `Receiver` is owned by the
handler, then by the streaming thread; `rx_open` is cleared where the code drops
it, panics and early returns included.

**Failures** are actions: `ReadFails`, `Respond` with a lost response,
`BindFails`, `SpawnPanics`, `StreamingPanics`, `MonitorPanics`, and in the
client `AttemptFails`, `Bind`, `PingNotSent`. Every `expect` and `unwrap` of the
client's threads may panic: of main before and after the subscription (`StartPanics`,
`SetHandlerPanics`, `JoinListener` over a listener that panicked), of the listener
(`RecvQuote` with the panic of `try_clone` or of the spawn, `PongPanics`), of the ping
thread (`PingerPanics`). A panic ends its thread only, but for main, whose end is the
end of the process (`Running`).

**Time.** `Processor` and `Worker` leave time out: a timeout may be over at any
moment. `Health` has it, for one monitor and one client, with actions for what
happens and `Tick` for time passing when nobody is due.

**The client's timestamps** are milliseconds of distinct pings, reduced to the
order in which they are sent, modulo `MaxTimestamp`.

**Texts** are sequences of tokens: a separator, a blank or a word that the parser
compares as a whole. `Split`, `SplitOnce`, `Trim`, `NonEmpty` and `Join` do what
Rust's `split`, `splitn`, `trim`, `filter` and `join` do with characters: what they do to
separators, empty lists and blanks is what `AckIsExact` and `NamesAreCut` are about. A
token counts as one unit on the wire, the length in front of a text as four
(`ToBeBytes`, base 256). A token `"not UTF-8"` stands for bytes that `from_utf8` refuses.

**The exchange.** `read_tcp_message` is `Recv` (one piece of `read_exact`),
`RecvFails`, `GotLength`, `GotText`, for the handler and for the client's reading
thread alike. Peers other than the client (`kind = "raw"`) send any bytes and
close. A handler that still works on a stream its client has abandoned is
forgotten at the next `Connect`; what it does to the server's state is in
`Processor` and `Session`.

**Prices** are natural numbers of an arbitrary unit, and the change limit is a
fraction `ChangeNum / ChangeDen` (2 / 100 in the code): `NewPrices` is the set of
what the random generator may draw. A thread is the first line of the file that
holds its ticker, since the code spawns one per key of the map.

**Session** reduces each side to what the other sees. Of `Worker`: the attempts
until an `Ack`, `src_addr`, the shutdown flag, and main, which looks at the flag only
after `start` has returned. Of `Processor`: a command becomes a subscription with a
socket of its own and an `Ack`, or is refused with an `Err`, after which the client
tries again for ever (`Refuse`, `ReadErr`), or the handler panics after it has registered
(`SpawnPanics`). Of `Health`: a subscription that is pinged does not expire, one that is
not does, and one whose monitor panicked never (`MonitorPanics`). Of the network: TCP
connections break, quotes arrive late or never. A crash empties the server.

How long users wait before they start a client on the same port again is the constant
`Wait`. The code drops a subscription 5 seconds after its last ping, or 15 seconds after
its start if it was never pinged (processor.rs 430, 439), each plus at most the read
timeout of one second. `"none"` is no wait. `"documented"` is the "5+ seconds" of README.md
114: what was pinged is gone (reading "5+" as at least 6), what was never pinged may
still be there (`Outlasts`). `"full"`, 16 seconds, leaves only streams whose monitor
panicked.

**Locks** writes each operation as the list of its lock steps (`AddReceiver`,
`RemoveSubscriber`, ...). Its queues are strictly first come, first served, which is
what parking_lot's eventual fairness amounts to for readers behind a waiting
writer; the short cuts it allows a lucky thread in between are left out. A thread holds
nothing between two operations, so a round that finds several dead receivers is a
`SendAndCleanup` followed by a `RemoveReceiver` for each of the others.

**Variants.** Operators with a comment that begins with "Variant" are not part
of the specifications. Each is a plausible mistake in the definition that
follows it (a dropped check, a lock kept, an off-by-one); replacing the
definition by its variant makes TLC report the property that guards against
that mistake. `PROJECT.json` pairs them under `mutants`.

## 3. Runs

`tlc -config <cfg> <module>`; times are with two workers.

| Run (cfg, module) | Checks | Shows |
|---|---|---|
| registry (`MCRegistry`, `MCProcessor`), 2.7 M states, 2 min | `RegistryConsistent`, `StreamingIsFed`, `NoMisdelivery`, `PubSubSpec` | The maps never disagree except about an id some thread is adding or removing; a running stream can never see `Disconnected`; the server implements `PubSub`: a subscription starts and ends once, atomically, and quotes are queued only in between. |
| delivery (`MCDelivery`, `MCProcessor`) | `TypeOK`, `GapFree`, `CleanupComplete`, `JoinNeverWaits` | Order and completeness of what is queued; nothing is left of refused and finished subscriptions; a streaming thread joins only a monitor that has ended. |
| liveness (`MCLiveness`, `MCProcessor`), 1.5 min | `CommandsFinish`, `SignalledIsForgotten`, `PanickedIsReaped` | Under fairness no handler waits for ever for mutex or locks, signalled subscriptions leave all maps, ticker threads reap what a panicked streaming thread left. |
| worker (`MCWorker`, `Worker`), 570 000 states, 2.5 min | `TypeOK`, `RingIsWindow`, `RttIsEarned`, `ExitIsClean`, `CtrlCExits`, `DeadServerNoticed` | The ring buffer under lost, duplicated, late and reordered pongs, and the shutdown order, with panics of each thread; under fairness Ctrl+C ends the process whoever has panicked, and the self-shutdown after unanswered pings works as long as listener and ping thread live. |
| health (`MCHealth`, `Health`), 89 000 states | `TypeOK`, `NoFalseTimeout`, `DetectedInTime`, `StoppedIsNoticed` | The timeouts of the code tolerate every other ping lost, whatever else reaches the socket; a silent client is given up within the limit plus one read timeout, or once other datagrams stop. |
| prices (`MCPrices`), 15 000 states | `TypeOK`, `StoredIsQuoted`, `PriceWalkSpec` | A file with blanks and a repeated name: no update is lost between the two locks, and the quotes of a ticker implement `PriceWalk`, at the floor too. |
| exchange (`MCExchange`), 9 000 states, 40 s | `TypeOK`, `FrameIntegrity`, `AckIsExact`, `NamesAreCut`, `NeverBothWait`, `AttemptEnds` | Whatever the pieces and wherever the stream breaks, messages arrive as sent or as errors; no buffer exceeds the limit; the `Ack` is exact; separators in names cut the names and nothing else; client and handler never wait for each other. |
| session (`MCSession`, `Session`), 921 000 states, 3 min | `TypeOK`, `OwnQuotes`, `StraysExpire`, `AckEventually` | Clients that are started only when the server keeps nothing for their port see only their own quotes (the documented wait does not suffice, see run `restart`); left-over subscriptions with a living monitor expire; after crashes, panics and lost `Ack`s a client whose tickers are known is acknowledged or ends. |
| locks (`MCLocks`, `Locks`), 179 000 states, 1.5 min | `NoCircularWait`, `NobodyStuck`, `EveryoneEnters` | A handler, a streaming and two ticker threads: no circle, counting those who wait in front; whatever a thread waits for, one of it can go on; with weak fairness alone every thread gets its lock. |
| pong_before_record (`MCPong`, `Worker`), unnoticed (`MCUnnoticed`, `Session`), restart (`MCRestart`, `Session`) | `PongRecorded`, `LossDetected`, `OldStreamEnds` | Violations, see section 6. |

The deadlock check is on everywhere except in `Health`, whose monitor ends, in
`Prices`, where a clock before the epoch panics every ticker thread, and in
`Session`, where no client need be started again. In `Processor` a ticker thread
can always go on, and the ends of `Worker` and `Exchange` are steps of their own
(`Exited`, `Done`).

### Bounds

- `MaxRequests` (2): commands the server reads. Interference about an id is
  between its handler, its streaming thread and the ticker threads; a second id
  adds the contention for locks and mutex. Two connections suffice for two
  commands; further connections only wait in `read`. The bound is a guard of
  `ReadCommand`.
- `Ticker`: two in `registry`, so that a subscription spans two ticker threads
  and both may reap it; one elsewhere. `Unknown` holds a name that is not
  configured.
- `MaxQueue` (1 or 2): a ticker thread generates no quote while a channel is that
  long. It does not stop a quote generated before, so channels get as long as
  `MaxQueue` plus the ticker threads under way. It stands for streaming threads
  that keep up; the code has no bound, and none of the properties needs one.
- `Wrap` (3 in `delivery`): quotes are numbered modulo `Wrap`, enough to tell a
  gap or a repetition of one from the right successor. It is 1, no numbering,
  where order is not the question.
- `MAX_PING_LOGS` (2 instead of the code's constant) and `MaxTimestamp` (4): a
  ring that fills and pops, with pings in flight beyond it. A timestamp is not
  reused while a copy of its previous use is on the wire.
- `Health` uses the constants of the code in quarters of a second (5 s = 20,
  1 s = 4, 2 s = 8). `MaxJitter`, `MaxDelay`, `MaxLost` and `MaxFirst` are what the
  network and the scheduler may do: they fill `TimingAssumption` to its limit.
  `elapsed` stops at `MaxElapsed`, beyond every comparison.
- `Prices`: floor 3, starting prices 3 and 4, a change limit of 1/3 instead of 2 %
  and `MaxPrice` 6: small prices need a large limit to move at all, and they reach
  the floor from above. `MaxTime` 1: two times, in any order. The theorems hold for
  every value.
- `Exchange`: `MAX_MSG_LEN` 16 tokens instead of 10^7 bytes, with texts on both
  sides of it; `Inputs` holds one input per kind of client argument and per error
  of the parser.
- `Session`: three `Ids`, so that a retry and a predecessor can be alive at the
  same time (an id is free again once nothing refers to it), two ticker lists and one
  with an unknown ticker, two ports, two starts, one crash, one broken connection, one
  panic. `restart` and `unnoticed` need less and use less: `restart` has one port and no
  fault at all.
- `Locks`: a thread of each kind and a second ticker thread, as it takes two
  readers to have a reader behind a writer behind a reader. Handlers take all
  their locks but the last under the generator mutex, which the streaming
  thread competes for too.

### Fairness

- `Processor`: weak fairness for each handler past its read, each streaming and
  each ticker thread: the OS runs threads. Strong fairness for *some* writer of
  `receivers` getting in (`WriterEnters`): ticker threads take the read lock again
  and again, and parking_lot's `RwLock` does not let readers overtake a waiting
  writer. Nothing is assumed of clients, monitors or `Accept`.
- `Worker`: weak fairness for the three threads and for the network giving up
  a datagram, as long as the process runs. Strong fairness for `SilentTimeout` (against
  a dead server the listener meets 100 ms of silence again and again, no other host
  sending to its port all the time) and for `PingSent` (`send_to`
  does not fail for ever; UDP sends to an unreachable host normally succeed).
  Nothing is assumed of the TCP attempts, the server or Ctrl+C.
- `Exchange`: weak fairness for `Step`: threads run and the network delivers.
  Other peers close what they have opened; one that does not holds its handler
  for ever, which the code does not prevent.
- `Session`: weak fairness for the client's main thread and listener, for
  handlers and for monitors that have not panicked, for datagrams arriving or being lost. Nobody has to
  start or stop a client or start the server again, and the server need not
  send quotes; `AckEventually` assumes that the server stays up from some time on.
- `Locks`: weak fairness for asking, entering and leaving. `EveryoneEnters` then
  yields what `Processor` assumes of `WriterEnters`.
- `Health`: time passes, the monitor returns from `recv_from`, the client pings.

## 4. Proofs

`tlapm` on each module whose name ends in `Proofs`; `ExchangeProofs` extends
`TextProofs`, the others stand alone. The theorems hold for all tickers,
connections, numbers of commands and queue bounds; in `Worker` for every capacity of
the ring; in `Locks` for any number of threads of each kind; in `Exchange` for all
texts; in `Health` for all time constants; in `Prices` for all files, floors and
change limits; in `Session` for any number of clients, subscriptions, crashes and
broken connections.

| Theorem | States |
|---|---|
| `TypeCorrect` | `TypeOK`, with `CheckedTickers`: a handler past the check asked only for configured tickers |
| `IndInvCorrect` | the inductive invariant of the server |
| `RegistryCorrect` | `RegistryConsistent` |
| `StreamingIsFedCorrect` | `StreamingIsFed` |
| `CleanupCorrect` | `CleanupComplete` |
| `JoinNeverWaitsCorrect` | `JoinNeverWaits` |
| `DeliveryInvCorrect` | the inductive invariant of delivery |
| `NoMisdeliveryCorrect` | `NoMisdelivery` |
| `GapFreeCorrect` | `GapFree` |
| `PubSubRefinement` | `PubSubSpec`: the server implements `PubSub` |
| `WorkerTypeCorrect` | `TypeOK` of `Worker` |
| `RingIsWindowCorrect` | `RingIsWindow` |
| `RttIsEarnedCorrect` | `RttIsEarned` |
| `ExitIsCleanCorrect` | `ExitIsClean`, whichever threads have panicked |
| `NoCircularWaitCorrect` | `NoCircularWait` |
| `NobodyStuckCorrect` | `NobodyStuck`: absence of deadlock and of leaked locks |
| `ExchangeTypeCorrect` | `TypeOK` of `Exchange`: no buffer beyond the limit |
| `FrameIntegrityCorrect` | `FrameIntegrity` |
| `AckIsRegisteredCorrect` | `AckIsRegistered`: an Ack stands for the list in the command's text |
| `SplitJoin` | splitting undoes joining, for lists and pieces of any length |
| `CommandRoundTrip` | a command without separators in its names is parsed to what it was made from |
| `AckIsExactCorrect` | `AckIsExact`, for every list of names |
| `NamesAreCutCorrect` | `NamesAreCut`: what an Ack stands for whatever separators the names hold |
| `NeverBothWaitCorrect` | `NeverBothWait`: client and handler never wait for each other |
| `HealthTypeCorrect` | `TypeOK` of `Health` |
| `NoFalseTimeoutCorrect` | `NoFalseTimeout`, whenever `TimingAssumption` holds |
| `DetectedInTimeCorrect` | `DetectedInTime` |
| `PricesTypeCorrect` | `TypeOK` of `Prices`: no price is below the floor |
| `StoredIsQuotedCorrect` | `StoredIsQuoted`: no lost update |
| `PriceWalkCorrect` | `PriceWalkSpec`: `generate_quote` implements the bounded walk |
| `SessionTypeCorrect` | `TypeOK` of `Session` |
| `OwnQuotesCorrect` | `OwnQuotes`, for the full wait and monitors that do not panic |

**Assumptions.** `GeneratorAssumption` (the bounds are positive),
`ProcessorAssumption` (unknown names are not configured), `HealthAssumption`
(types; a datagram arrives before the next one is sent), `TimingAssumption`
(losses, jitter and delay fit the timeouts), `PriceAssumption` (the floor is
positive and below the starting prices; no relation between floor and change
limit is needed), `SessionAssumption` (types), `ExchangeAssumption` (types; no
empty name is configured; `|` is not the text of an address or a port) and
`InputsAssumption`: the lines of a file, and an argument, are sequences; the length
of a command's text is one a u32 can say (the code casts with `len() as u32`; a
command comes from a command line or a file of tickers, a response is bounded by
the longest command that is read); and the first four units of what another peer
sends are bytes. TLC evaluates them in every run.

**The invariant of the server.** `RegistryConsistent` is not inductive: that
`remove_receiver` cleans the right tickers depends on what its local copy held
when it was read, and on nobody re-adding the id. `IndInv` adds, per thread, what
its position implies:

- `HandlerInv`: ids of handlers are distinct and below `next_id` (this is what
  `fetch_add` gives), so the steps of two handlers never concern the same id;
- `PhaseInv`: how far the handler of an id is, against the start of its streaming
  thread and the entries in the three maps;
- `LifeInv`: for each position of the streaming thread, what the maps and
  `rx_open` say about its id;
- `ReapInv`: a ticker thread reaps only ids whose streaming thread panicked, and
  as long as the entry exists its copy of the tickers is that of the entry;
- `RegistryConsistent` itself.

The proof has a lemma per thread (`HandlerInd`, `StreamInd`, `TickerInd`) with a
step per action and, under it, one per conjunct. The essential cases are two
`remove_receiver`s. A streaming thread and a ticker thread never remove the same
id: a channel that is closed while its entry exists belongs to a streaming thread
that panicked. Two ticker threads may: whichever removes the entry has its
tickers, because both read them while it existed or found the empty default, so
the sets never keep an id that nobody will remove.

**The invariant of delivery.** A ticker thread copies the set of ids of its ticker,
releases the lock, and sends to the ids of the copy under another lock; in between
subscribers come and go. `DeliveryInv` adds to `IndInv` what the copy is worth:

- `CopyInv`: an id in a set or in a copy asked for that ticker, and a copied id that
  still has a receiver is still in the set (an id is never removed from a set before
  it is removed from `receivers`);
- `UnknownInv`: before an id is in a set no copy holds it and its channel is empty;
- `CopiedInv`: a thread about to send has copied every id that already holds a quote
  of its ticker. This is what rules out gaps: without it a thread might send a quote
  to all but one of its subscribers and the next one to that subscriber too;
- `ClosedInv`: with the `Receiver` its quotes are gone.

`GapFree` is stated on indexes (`Successive`, `IsLast`, `Pending`) rather than on
subsequences, so that one quote added at the end or taken from the front changes
one pair of neighbours. For the refinement each step of the server is matched
with the step of `PubSub` it implements; the abstract subscription begins where
`add_receiver` enters the id into the sets of its tickers, under one lock, and ends
where the id is removed from `receivers`.

`JoinNeverWaits` needs `JoinInv` besides: before the loop nobody has set `shutdown`;
in the loop only the monitor can have, in ending. `LifeInv` rules out the other way
out of the loop, a disconnect.

**The invariant of `Worker`.** `RingIsWindow` relates neighbours in the ring. `AgeInv`
says instead that the place of a record determines its timestamp, modulo
`MaxTimestamp`; hence the timestamp of the next ping is in no record, a pong is
credited to one record at most, and `RttIsEarned` survives the reuse of a
timestamp. `ThreadInv` orders the ends of the threads for `ExitIsClean`: a listener that
is done has joined its ping thread, which then is done or has panicked, and main returns
over a listener that is done or failed to bind, never over one that panicked.

**The invariant of `Locks`.** `Disciplined` is a property of sequences of lock steps:
a lock is taken only while all locks held are below it (generator, tickers,
receivers, subscribers), and released before it is taken again. Every operation of
the server is disciplined, and so is what is left of one (`DisciplineInv`); a thread
holds exactly the locks its rest will release (`HoldInv`); it stands in a queue once,
for the lock its next step asks for (`QueueInv`, `OnceInv`). Suppose everyone in a
group waits for someone in it. Among those who wait for the highest lock, the first
in its queue waits for a holder in the group; that one waits for a lock above
it, a contradiction. For `NobodyStuck` take the group of the unfinished operations.
Some member waits for no other of them, and whoever holds a lock or stands in a
queue is unfinished (`Unfinished`); so that member stands in no queue, or first in
the queue of a lock nobody holds, and can go on.

**The invariant of `Exchange`.** Seen from a reader a connection is one stream: what it
has taken, what is on the wire and what its peer has yet to write continue one
another (`PipeInv`). `RequestInv` says so of the command; `ResponseInv` says that the
client is sent nothing until the handler has decided, and then the frame of the
response. That the last complete buffer is the framed text follows from
`from_be_bytes` undoing `to_be_bytes` (`BeBytes`), and that it parses to what was
sent from lemmas about `Split` for texts of any length: its cut number k is the
place with exactly k separators before it, so an error text that contains
separators comes back whole (`ErrRoundTrip`). For `AckIsRegistered`, `AckInv` ties the
Ack to the command that was read on the same connection. `AckIsExact` is that with
`CommandRoundTrip`. `Join` is a recursive function on the length of the list; what
it returns is shown by induction, with the least length at which a statement fails
as the witness (`SetInduction`), and so is `SplitJoin`: the separators of a joined
text are those that `Join` put there, so the cuts of `Split` fall between the pieces.
For `NamesAreCut` only the first four fields are known to hold no separator: a text that
goes on behind a separator is split into the same pieces and more (`SplitPrefix`), hence
the four stay as they were and the fifth ends at the first `|` of the names (`SplitFive`).

`NeverBothWait` counts. Units read of the frame, units on the wire and units not yet
written add up to 4 plus the length of the text as long as the handler reads
(`WholeInv`); a handler that ended has closed its end, and a client that sends or
waits has one (`EndsInv`). When the client waits it has written everything. A handler
that needs more therefore finds it on the wire, and one that read it all answers or
closes.

**The invariant of `Health`.** `BudgetInv` bounds the time until the next ping
arrives (time to send it, losses still allowed, delay) plus `elapsed` by
`Limit`: while the client lives this sum never grows. The product `MaxLost *
MaxGap` is treated by two small lemmas. `ScheduleInv` says that `elapsed`
is at most `Limit` plus the time the present `recv_from` has waited.

**The invariant of `Prices`.** `ThreadInv` says, per position in `generate_quote`,
that what a thread has drawn was drawn from the price that is *still* stored, and
that what it has stored and not yet returned follows the last quote. It survives
the steps of other threads because of `OneThreadPerTicker`: two threads never have
the same ticker. `NewPricesClose` is the arithmetic: raising a price to the floor
brings it nearer to the old one, which was not below the floor either.

**The invariant of `Session`.** `OwnQuotes` speaks of what was received. `OwnInv`
adds what can still be: every subscription that lives or has a quote on its way to
the client's port holds the client's own tickers. A new client starts with that
because the full wait leaves nothing on its port: every stream has a monitor that ends
it (`Watched`, as long as nothing panicked), and `Addressed` ties the port a subscription
sends to to the port its client was started on. With the documented wait the invariant
is false, which the run `restart` shows.

**Only model-checked**: the liveness properties of the runs `liveness`, `worker`,
`health`, `exchange`, `locks` and `session`. The prover has no fairness and no `ENABLED`.

## 5. Not modelled

- **Shutdown of the server**: the shutdown flags of `QuoteGenerator` and
  `Processor` are set, if at all, by tests only, and `server/src/main.rs` installs no signal
  handler: threads run until the process ends. Their checks are left out.
- **Ctrl+C before the client's handler is set** (during the TCP subscription)
  ends the process at once; main in the model can only be interrupted after.
- **Unbounded channels**: memory is not modelled.
- **Clocks**: `SystemTime` may step back, and two pings might then share a
  millisecond; the client model has distinct timestamps. `Instant` is monotonic.
- **Volumes** of quotes: drawn and sent, nothing depends on them.
- **UDP encodings**: bincode is a library and lossless on these types.
  `StockQuote::to_string` and `from_string` are called by tests only.
- **Half-open connections**: when a host loses power, TCP tells the other side
  nothing. In `Exchange` and `Session` the end of a process or a broken connection is
  noticed by whoever reads.
- **A peer that neither sends nor closes** holds its handler thread; nothing in
  the code bounds that.
- **Port numbers**: the server's ephemeral UDP ports are distinct for as long as
  anyone refers to them; the reuse of one after a restart is left out.
- **Lost pings in `Session`**: a pinged subscription does not expire there. How much
  loss that tolerates is the subject of `Health`.
- Wording of errors, argument parsing, opening of files, logging.

## 6. Findings

Where the program does something other than a comment or a README says.

Kept as runs that TLC must find violated:

1. `pong_before_record`: `rtt_ms` "is filled in when the matching pong arrives"
   (worker.rs 25). The ping is sent before its record is pushed; a pong handled
   in between is lost and the ping counts as unanswered.
2. `unnoticed`: "Automatic ping/pong mechanism to detect connection issues"
   (README.md 9). The ping thread starts with the first packet; a client whose
   server goes away between `Ack` and first quote waits for ever.
3. `restart`: old and new client sockets "may briefly coexist" (README.md 111), and the
   workaround is to "Wait 5+ seconds between stopping and restarting" (114). A client
   that stops before its first ping leaves a subscription that the server keeps for 15
   seconds (processor.rs 439). A client started after 5 or 6 of them that hears it first
   pings it and keeps it alive for as long as it runs. `OwnQuotes` holds for
   those who wait 16 seconds.

Plain to see in the actions named, without a run:

- `subscribers` is the "Map of active subscribers" (processor.rs 51). When
  `try_clone().expect` or a `thread::spawn` panics after registration (`SpawnPanics`,
  `StreamingPanics`), the handle stays in it for ever. The generator's maps are
  cleaned all the same (`PanickedIsReaped`).
- The client "Reconnects automatically on connection loss" (client/README.md 96).
  Once subscribed, a client whose pings go unanswered ends (`Worker`, `RecvTimeout`).
- "If no ping is received within MAX_PING_TIMEOUT seconds, signals shutdown"
  (processor.rs 377). Before the first ping it waits three times as long (`Limit`).
- `handle_request` "sends back either an ACK (on success) or ERR (on failure)
  response" (processor.rs 137). A message that was received whole and cannot be
  parsed gets none (`HandlerFails` of `Exchange`).
- "Server validates subscription and responds with Ack or Error"
  (server/README.md 74). Names are not escaped: `A|B` is acknowledged as `A`, and a
  file line `A,B` as two tickers (`SeparatorInputs`); `AckIsExact` is therefore
  about names without separators, and `NamesAreCut` says what becomes of the others.
- The client "Sends periodic pings and monitors server responsiveness"
  (client/README.md 10). When the ping thread or the listener panics nobody looks until
  the client is ended (worker.rs 261, main.rs 92): it runs on and does not notice the
  end of its server (`DeadServerNoticed` exempts it).
- "Retries connection on failures with exponential backoff" (client/README.md 9).
  The delays are constant, 5 and 3 seconds.

## 7. Plan

Done, in this order: `QuoteGenerator` and `Processor` with the lock steps and the
registry properties; `PubSub` and the refinement; liveness; `Worker`; `Health`;
their proofs; `Prices` with `PriceWalk` and proofs; `Protocol` and `Exchange`;
`Session` with proofs; `Locks`. The models are complete up to section 5.

The proofs followed the same order: registry, timing, prices, session; then delivery
and the refinement of `PubSub`, the client, the locks and the exchange; then what was
left of the exchange (`AckIsExact` and `NamesAreCut`, by induction over lists) and, for any number of
threads, the safety facts behind the liveness runs: `NobodyStuck`, `NeverBothWait`
and `JoinNeverWaits`. Every invariant of the runs is a theorem. Liveness stays with TLC.
