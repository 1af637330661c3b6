------------------------------- MODULE Worker -------------------------------
(***************************************************************************)
(* The client (client/src/worker.rs and main.rs): the main thread that     *)
(* subscribes over TCP and waits for Ctrl+C, the UDP listener thread, and  *)
(* the ping thread that the listener spawns on the first packet of the     *)
(* server.  Listener and ping thread share the ring buffer pings.          *)
(*                                                                         *)
(* The server and the network are the environment: the server may answer   *)
(* a ping and may die; datagrams are lost, duplicated, delayed and         *)
(* reordered.  Delays are abstract: a sleep or a read timeout may end at   *)
(* any moment.  Every expect and unwrap may panic: a panic ends its thread *)
(* and, in main, the process with all of its threads.                      *)
(***************************************************************************)
EXTENDS Naturals, Sequences, FiniteSets, SequencesExt

CONSTANTS
  MAX_PING_LOGS,  \* capacity of the ring buffer
  MaxTimestamp    \* bound: ping timestamps are numbered modulo MaxTimestamp

ASSUME WorkerAssumption ==
  /\ MAX_PING_LOGS \in Nat \ {0}
  /\ MaxTimestamp \in Nat
  /\ MaxTimestamp > MAX_PING_LOGS + 1

\* Milliseconds of distinct pings, reduced to the order they are sent in.
Timestamp == 0 .. (MaxTimestamp - 1)

PingRecord == [timestamp : Timestamp, rtt_ms : {"None", "Some"}]

VARIABLES
  mainpc,      \* program counter of the main thread (start, then main)
  running,     \* the flag cleared by the Ctrl+C handler
  shutdown,    \* Worker.shutdown
  pings,       \* Worker.pings, the ring buffer
  lpc,         \* program counter of udp_listener_loop
  src_addr,    \* is the listener's src_addr set?
  ppc,         \* program counter of start_pinging
  timestamp,   \* of the last ping sent
  server_up,   \* does the server still run?
  wire_pings,  \* timestamps of the pings on their way to the server
  wire_pongs,  \* timestamps of the pongs on their way to the client
  heard        \* history: pings of the ring, or the last one sent, whose pong
               \* the listener has processed

mainVars == <<mainpc, running>>
listenVars == <<lpc, src_addr>>
threadVars == <<mainVars, shutdown, listenVars, ppc>>
ringVars == <<pings, timestamp, heard>>
wireVars == <<server_up, wire_pings, wire_pongs>>
vars == <<threadVars, ringVars, wireVars>>

\* Type invariant of the client; the ring buffer never exceeds its capacity.
TypeOK ==
  /\ mainpc \in {"connect", "await", "backoff", "watch", "join", "exit",
                "panicked"}
  /\ running \in BOOLEAN
  /\ shutdown \in BOOLEAN
  /\ pings \in Seq(PingRecord)
  /\ Len(pings) <= MAX_PING_LOGS
  /\ lpc \in {"bind", "check", "recv", "join", "done", "failed", "panicked"}
  /\ src_addr \in BOOLEAN
  /\ ppc \in {"none", "check", "send", "record", "sleep", "done", "panicked"}
  /\ timestamp \in Timestamp
  /\ server_up \in BOOLEAN
  /\ wire_pings \subseteq Timestamp
  /\ wire_pongs \subseteq Timestamp
  /\ heard \subseteq Timestamp

\* Worker::new, and start up to the spawn of the listener.
Init ==
  /\ mainpc = "connect"
  /\ running = TRUE
  /\ shutdown = FALSE
  /\ pings = <<>>
  /\ lpc = "bind"
  /\ src_addr = FALSE
  /\ ppc = "none"
  /\ timestamp = 0
  /\ server_up = TRUE
  /\ wire_pings = {}
  /\ wire_pongs = {}
  /\ heard = {}

\* The pings that history is kept of.
Recent(ring) == {timestamp} \cup {ring[i].timestamp : i \in DOMAIN ring}

-----------------------------------------------------------------------------
(***************************************************************************)
(* Main thread: the loop of start, then the loop of main.                  *)
(***************************************************************************)

\* connect and send_command succeeded.
SendCommand ==
  /\ mainpc = "connect"
  /\ server_up
  /\ mainpc' = "await"
  /\ UNCHANGED <<running, shutdown, listenVars, ppc, ringVars, wireVars>>

\* connect succeeded, the clone of the stream or the spawn of the reader did
\* not: main panics while the listener runs.
StartPanics ==
  /\ mainpc = "connect"
  /\ server_up
  /\ mainpc' = "panicked"
  /\ UNCHANGED <<running, shutdown, listenVars, ppc, ringVars, wireVars>>

\* connect or send_command failed; or the answer is not Ack: Err, another
\* message, a read error, a reader that panicked.
AttemptFails ==
  /\ mainpc \in {"connect", "await"}
  /\ mainpc' = "backoff"
  /\ UNCHANGED <<running, shutdown, listenVars, ppc, ringVars, wireVars>>

\* The sleep of 3 or 5 seconds is over.
Retry ==
  /\ mainpc = "backoff"
  /\ mainpc' = "connect"
  /\ UNCHANGED <<running, shutdown, listenVars, ppc, ringVars, wireVars>>

\* Ack: start returns and the Ctrl+C handler is set.
Acknowledged ==
  /\ mainpc = "await"
  /\ server_up
  /\ mainpc' = "watch"
  /\ UNCHANGED <<running, shutdown, listenVars, ppc, ringVars, wireVars>>

\* Ack, but the handler cannot be set: main panics without a word to the
\* other threads.
SetHandlerPanics ==
  /\ mainpc = "await"
  /\ server_up
  /\ mainpc' = "panicked"
  /\ UNCHANGED <<running, shutdown, listenVars, ppc, ringVars, wireVars>>

\* The Ctrl+C handler.
CtrlC ==
  /\ mainpc \in {"watch", "join"}
  /\ running
  /\ running' = FALSE
  /\ UNCHANGED <<mainpc, shutdown, listenVars, ppc, ringVars, wireVars>>

\* The loop of main ends and shutdown is stored for the other threads.
LeaveLoop ==
  /\ mainpc = "watch"
  /\ ~running \/ shutdown
  /\ shutdown' = TRUE
  /\ mainpc' = "join"
  /\ UNCHANGED <<running, listenVars, ppc, ringVars, wireVars>>

\* handle.join() returned: main ends; its expect panics when the listener did.
JoinListener ==
  /\ mainpc = "join"
  /\ lpc \in {"done", "failed", "panicked"}
  /\ mainpc' = IF lpc = "panicked" THEN "panicked" ELSE "exit"
  /\ UNCHANGED <<running, shutdown, listenVars, ppc, ringVars, wireVars>>

MainStep ==
  \/ SendCommand
  \/ StartPanics
  \/ AttemptFails
  \/ Retry
  \/ Acknowledged
  \/ SetHandlerPanics
  \/ LeaveLoop
  \/ JoinListener

-----------------------------------------------------------------------------
(***************************************************************************)
(* Listener thread: udp_listener_loop.                                     *)
(***************************************************************************)

\* bind or set_read_timeout: on an error the thread returns it to join only.
Bind ==
  /\ lpc = "bind"
  /\ lpc' \in {"check", "failed"}
  /\ UNCHANGED <<mainVars, shutdown, src_addr, ppc, ringVars, wireVars>>

CheckShutdown ==
  /\ lpc = "check"
  /\ lpc' = IF shutdown THEN "join" ELSE "recv"
  /\ UNCHANGED <<mainVars, shutdown, src_addr, ppc, ringVars, wireVars>>

\* A datagram of the server that carries a quote: the first one fixes
\* src_addr and spawns the ping thread, or panics on the clone of the socket
\* or on the spawn.
RecvQuote ==
  /\ lpc = "recv"
  /\ server_up
  /\ \/ /\ lpc' = "check"
        /\ src_addr' = TRUE
        /\ ppc' = IF src_addr THEN ppc ELSE "check"
     \/ /\ ~src_addr
        /\ lpc' = "panicked"
        /\ UNCHANGED <<src_addr, ppc>>
  /\ UNCHANGED <<mainVars, shutdown, ringVars, wireVars>>

\* Variant: a pong is taken for the answer to the last ping.
AnswerLast(ring, ts) ==
  [i \in DOMAIN ring |->
     IF i = Len(ring) THEN [ring[i] EXCEPT !.rtt_ms = "Some"] ELSE ring[i]]

\* The record of ts, if there is one, gets its round-trip time.
Answer(ring, ts) ==
  [i \in DOMAIN ring |->
     IF ring[i].timestamp = ts THEN [ring[i] EXCEPT !.rtt_ms = "Some"]
                               ELSE ring[i]]

\* A pong; the network may hold another copy of it.
RecvPong(ts) ==
  /\ lpc = "recv"
  /\ ts \in wire_pongs
  /\ pings' = Answer(pings, ts)
  /\ heard' = heard \cup ({ts} \cap Recent(pings))
  /\ wire_pongs' \in {wire_pongs, wire_pongs \ {ts}}
  /\ lpc' = "check"
  /\ UNCHANGED <<mainVars, shutdown, src_addr, ppc, timestamp, server_up,
                 wire_pings>>

\* The clock is before the epoch: the listener panics on a pong, before the
\* ring is locked, and leaves its ping thread running.
PongPanics(ts) ==
  /\ lpc = "recv"
  /\ ts \in wire_pongs
  /\ wire_pongs' \in {wire_pongs, wire_pongs \ {ts}}
  /\ lpc' = "panicked"
  /\ UNCHANGED <<mainVars, shutdown, src_addr, ppc, ringVars, server_up,
                 wire_pings>>

\* A datagram of another host while src_addr is None; a quote of any host
\* later, the sender being checked no more; a datagram that does not decode or
\* is not expected; a socket error: nothing but the loop's next turn.
RecvIgnored ==
  /\ lpc = "recv"
  /\ lpc' = "check"
  /\ UNCHANGED <<mainVars, shutdown, src_addr, ppc, ringVars, wireVars>>

\* How many records of the ring have no pong.
Unanswered == Cardinality({i \in DOMAIN pings : pings[i].rtt_ms = "None"})

\* Variant: the comparison is off by one.
RecvTimeoutOffByOne ==
  /\ lpc = "recv"
  /\ IF Unanswered > MAX_PING_LOGS
     THEN shutdown' = TRUE /\ lpc' = "join"
     ELSE lpc' = "check" /\ UNCHANGED shutdown
  /\ UNCHANGED <<mainVars, src_addr, ppc, ringVars, wireVars>>

\* 100 ms of silence: the only place where unanswered pings are counted.
RecvTimeout ==
  /\ lpc = "recv"
  /\ IF Unanswered >= MAX_PING_LOGS
     THEN shutdown' = TRUE /\ lpc' = "join"
     ELSE lpc' = "check" /\ UNCHANGED shutdown
  /\ UNCHANGED <<mainVars, src_addr, ppc, ringVars, wireVars>>

\* Variant: the ping thread is not joined.
LeavePinger ==
  /\ lpc = "join"
  /\ lpc' = "done"
  /\ UNCHANGED <<mainVars, shutdown, src_addr, ppc, ringVars, wireVars>>

\* The ping thread is joined, if there is one; that it panicked is logged.
JoinPinger ==
  /\ lpc = "join"
  /\ ppc \in {"none", "done", "panicked"}
  /\ lpc' = "done"
  /\ UNCHANGED <<mainVars, shutdown, src_addr, ppc, ringVars, wireVars>>

ListenerStep ==
  \/ Bind
  \/ CheckShutdown
  \/ RecvQuote
  \/ \E ts \in Timestamp : RecvPong(ts) \/ PongPanics(ts)
  \/ RecvIgnored
  \/ RecvTimeout
  \/ JoinPinger

-----------------------------------------------------------------------------
(***************************************************************************)
(* Ping thread: start_pinging.                                             *)
(***************************************************************************)

\* Variant: the ping thread does not look at shutdown.
PingAlways ==
  /\ ppc = "check"
  /\ ppc' = "send"
  /\ UNCHANGED <<mainVars, shutdown, listenVars, ringVars, wireVars>>

PingCheck ==
  /\ ppc = "check"
  /\ ppc' = IF shutdown THEN "done" ELSE "send"
  /\ UNCHANGED <<mainVars, shutdown, listenVars, ringVars, wireVars>>

NextTimestamp == (timestamp + 1) % MaxTimestamp

\* send_to succeeded: the ping is out before its record is in the ring.  The
\* bound on timestamps excludes one whose previous use is still around.
PingSent ==
  /\ ppc = "send"
  /\ NextTimestamp \notin wire_pings \cup wire_pongs
  /\ timestamp' = NextTimestamp
  /\ wire_pings' = wire_pings \cup {NextTimestamp}
  /\ heard' = heard \ {NextTimestamp}
  /\ ppc' = "record"
  /\ UNCHANGED <<mainVars, shutdown, listenVars, pings, server_up,
                 wire_pongs>>

\* The clock is before the epoch, or the ping does not serialize: the ping
\* thread ends, and nobody looks before the listener joins it.
PingerPanics ==
  /\ ppc = "send"
  /\ ppc' = "panicked"
  /\ UNCHANGED <<mainVars, shutdown, listenVars, ringVars, wireVars>>

\* send_to failed: no record.
PingNotSent ==
  /\ ppc = "send"
  /\ ppc' = "sleep"
  /\ UNCHANGED <<mainVars, shutdown, listenVars, ringVars, wireVars>>

\* Variants: the comparison is off by one; the newest record is popped.
PushOffByOne(ring, r) ==
  Append(IF Len(ring) > MAX_PING_LOGS THEN Tail(ring) ELSE ring, r)

PushPopsBack(ring, r) ==
  Append(IF Len(ring) >= MAX_PING_LOGS THEN Front(ring) ELSE ring, r)

\* pop_front when the ring is full, then push_back.
Push(ring, r) ==
  Append(IF Len(ring) >= MAX_PING_LOGS THEN Tail(ring) ELSE ring, r)

RecordPing ==
  /\ ppc = "record"
  /\ pings' = Push(pings, [timestamp |-> timestamp, rtt_ms |-> "None"])
  /\ heard' = heard \cap Recent(pings')
  /\ ppc' = "sleep"
  /\ UNCHANGED <<mainVars, shutdown, listenVars, timestamp, wireVars>>

\* BASE_PING_DELAY is over.
Wake ==
  /\ ppc = "sleep"
  /\ ppc' = "check"
  /\ UNCHANGED <<mainVars, shutdown, listenVars, ringVars, wireVars>>

PingerStep ==
  \/ PingCheck
  \/ PingSent
  \/ PingerPanics
  \/ PingNotSent
  \/ RecordPing
  \/ Wake

-----------------------------------------------------------------------------
(***************************************************************************)
(* Environment: server and network.                                        *)
(***************************************************************************)

\* monitor_connection answers a ping with a pong of the same timestamp.
ServerPongs(ts) ==
  /\ server_up
  /\ ts \in wire_pings
  /\ wire_pings' = wire_pings \ {ts}
  /\ wire_pongs' = wire_pongs \cup {ts}
  /\ UNCHANGED <<threadVars, ringVars, server_up>>

\* The server crashes, or its monitor gave this client up.
ServerDies ==
  /\ server_up
  /\ server_up' = FALSE
  /\ UNCHANGED <<threadVars, ringVars, wire_pings, wire_pongs>>

Lose(ts) ==
  /\ ts \in wire_pings \cup wire_pongs
  /\ wire_pings' = wire_pings \ {ts}
  /\ wire_pongs' = wire_pongs \ {ts}
  /\ UNCHANGED <<threadVars, ringVars, server_up>>

\* The process runs until main returns or panics; either way its threads end.
Running == mainpc \notin {"exit", "panicked"}

Exited == ~Running /\ UNCHANGED vars

Step ==
  \/ MainStep
  \/ CtrlC
  \/ ListenerStep
  \/ PingerStep
  \/ ServerDies
  \/ \E ts \in Timestamp : ServerPongs(ts) \/ Lose(ts)

Next == (Running /\ Step) \/ Exited

Spec == Init /\ [][Next]_vars

-----------------------------------------------------------------------------
(***************************************************************************)
(* Fairness.  The scheduler runs the three threads; a datagram does not    *)
(* stay in the network for ever; the listener meets a silence of 100 ms    *)
(* again and again once the server is gone, no other host sending to its   *)
(* port all the time; and sending a ping does not fail for ever.  Nothing  *)
(* is assumed of the server, of the TCP attempts or of Ctrl+C, and nothing *)
(* once the process has ended.                                             *)
(***************************************************************************)
SilentTimeout == ~server_up /\ RecvTimeout

Fairness ==
  /\ WF_vars(Running /\ (LeaveLoop \/ JoinListener))
  /\ WF_vars(Running /\ ListenerStep)
  /\ WF_vars(Running /\ PingerStep)
  /\ SF_vars(Running /\ SilentTimeout)
  /\ SF_vars(Running /\ PingSent)
  /\ \A ts \in Timestamp : WF_vars(Running /\ Lose(ts))

FairSpec == Spec /\ Fairness

-----------------------------------------------------------------------------
(***************************************************************************)
(* Properties.                                                             *)
(***************************************************************************)

\* The ring holds the most recent pings, oldest first and without a gap,
\* whatever pongs arrived meanwhile; it may lack the very last ping only
\* while the ping thread is between send_to and push_back.
RingIsWindow ==
  /\ \A i \in 1 .. (Len(pings) - 1) :
       pings[i + 1].timestamp = (pings[i].timestamp + 1) % MaxTimestamp
  /\ pings # <<>> =>
       (IF ppc = "record" THEN (Last(pings).timestamp + 1) % MaxTimestamp
                          ELSE Last(pings).timestamp) = timestamp

\* A round-trip time is only ever recorded for a ping whose own pong came
\* back since it was sent: late, duplicated and reordered pongs, and pongs of
\* records that were popped, are not credited to another ping.
RttIsEarned ==
  \A i \in DOMAIN pings :
    pings[i].rtt_ms = "Some" => pings[i].timestamp \in heard

\* When main returns, shutdown has been signalled and no thread is left to be
\* cut off by the end of the process: the listener has returned, with or
\* without an error, and the ping thread is done, was never started or has
\* panicked.  In particular main never returns over a listener that panicked
\* and left its ping thread running: its expect panics then.  Nothing is
\* claimed of a main that panics, which ends the process with the threads it
\* has.
ExitIsClean ==
  mainpc = "exit" =>
    /\ shutdown
    /\ lpc \in {"done", "failed"}
    /\ ppc \in {"none", "done", "panicked"}

\* worker.rs says of a record that rtt_ms "is filled in when the matching pong
\* arrives".
PongRecorded ==
  \A i \in DOMAIN pings :
    pings[i].timestamp \in heard => pings[i].rtt_ms = "Some"

\* Ctrl+C ends the program, whatever the threads and the network do and
\* whichever of the threads has panicked.
CtrlCExits == ~running ~> ~Running

\* A client that has found its server and lost it gives up by itself, unless
\* one of its threads panicked: without the listener nobody counts the
\* unanswered pings, and without the ping thread the ring does not fill.
DeadServerNoticed ==
  src_addr /\ ~server_up ~>
    shutdown \/ "panicked" \in {mainpc, lpc, ppc}
=============================================================================
