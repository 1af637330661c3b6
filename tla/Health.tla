------------------------------- MODULE Health -------------------------------
(***************************************************************************)
(* The timing of the ping protocol: monitor_connection of the server       *)
(* (server/src/processor.rs) against the ping thread of one client         *)
(* (client/src/worker.rs).  Time is discrete; threads act in the instant   *)
(* in which what they wait for happens.                                    *)
(*                                                                         *)
(* A monitor's recv_from returns when a datagram arrives or when the read  *)
(* timeout is over, and only in the second case are last_ping and          *)
(* start_time looked at.                                                   *)
(***************************************************************************)
EXTENDS Naturals

CONSTANTS
  MAX_PING_TIMEOUT,  \* the monitor's timeout
  ReadTimeout,       \* read timeout of the monitor's socket
  BASE_PING_DELAY,   \* sleep between two pings of the client
  MaxJitter,         \* bound: by how much that sleep may be exceeded
  MaxDelay,          \* bound: how long a datagram may be on its way
  MaxLost,           \* bound: how many pings in a row the network may lose
  MaxFirst           \* bound: when the client sends its first ping

ASSUME HealthAssumption ==
  /\ MAX_PING_TIMEOUT \in Nat \ {0}
  /\ ReadTimeout \in Nat \ {0}
  /\ BASE_PING_DELAY \in Nat \ {0}
  /\ MaxJitter \in Nat
  /\ MaxDelay \in Nat
  /\ MaxDelay < BASE_PING_DELAY
  /\ MaxLost \in Nat
  /\ MaxFirst \in Nat

\* The longest time between two pings.
MaxGap == BASE_PING_DELAY + MaxJitter

\* What the client and the network may do without the server losing patience:
\* the worst sequence of losses, jitter and delay fits into the timeouts.
ASSUME TimingAssumption ==
  /\ MaxLost * MaxGap + MaxGap + MaxDelay <= MAX_PING_TIMEOUT
  /\ MaxLost * MaxGap + MaxFirst + MaxDelay <= 3 * MAX_PING_TIMEOUT

VARIABLES
  mpc,        \* program counter of the monitor
  waited,     \* how long its present recv_from has been waiting
  last_ping,  \* is last_ping Some?
  elapsed,    \* time since last_ping, or since start_time when it is None
  alive,      \* does the client still run?
  next_ping,  \* time until the client sends its next ping
  flight,     \* age of the ping on its way, or NoPing
  lost,       \* pings lost in a row
  stray       \* whether other datagrams come: "never", "now", or "over"

clientVars == <<alive, next_ping, flight, lost, stray>>
monitorVars == <<mpc, waited, last_ping, elapsed>>
vars == <<monitorVars, clientVars>>

NoPing == MaxDelay + 1

\* Bound: elapsed stops counting once no comparison can tell it from more.
MaxElapsed == 3 * MAX_PING_TIMEOUT + ReadTimeout + 1

\* The longest time without a ping before the monitor looks and gives up.
Limit == IF last_ping THEN MAX_PING_TIMEOUT ELSE 3 * MAX_PING_TIMEOUT

\* Type invariant of monitor and client.
TypeOK ==
  /\ mpc \in {"listen", "done"}
  /\ waited \in 0 .. ReadTimeout
  /\ last_ping \in BOOLEAN
  /\ elapsed \in 0 .. MaxElapsed
  /\ alive \in BOOLEAN
  /\ next_ping \in Nat
  /\ flight \in 0 .. NoPing
  /\ lost \in 0 .. MaxLost
  /\ stray \in {"never", "now", "over"}

\* The monitor is spawned; the client pings as soon as it has received a
\* first packet.
Init ==
  /\ mpc = "listen"
  /\ waited = 0
  /\ last_ping = FALSE
  /\ elapsed = 0
  /\ alive = TRUE
  /\ next_ping \in 0 .. MaxFirst
  /\ flight = NoPing
  /\ lost = 0
  /\ stray \in {"never", "now"}

-----------------------------------------------------------------------------
(***************************************************************************)
(* The client.                                                             *)
(***************************************************************************)

\* start_pinging sends a ping and sleeps.
SendPing ==
  /\ alive
  /\ next_ping = 0
  /\ next_ping' \in BASE_PING_DELAY .. MaxGap
  /\ \/ flight' = 0 /\ lost' = 0
     \/ lost < MaxLost /\ lost' = lost + 1 /\ UNCHANGED flight
  /\ UNCHANGED <<monitorVars, alive, stray>>

\* The client ends, or its packets stop getting through.
ClientStops ==
  /\ alive
  /\ alive' = FALSE
  /\ UNCHANGED <<monitorVars, next_ping, flight, lost, stray>>

\* Whoever else sent to the monitor's socket stops.
StrayEnds ==
  /\ stray = "now"
  /\ stray' = "over"
  /\ UNCHANGED <<monitorVars, alive, next_ping, flight, lost>>

-----------------------------------------------------------------------------
(***************************************************************************)
(* monitor_connection.                                                     *)
(***************************************************************************)

\* Variant: the datagram is peeked at and stays in the socket.
PeekPing ==
  /\ mpc = "listen"
  /\ flight # NoPing
  /\ last_ping' = TRUE
  /\ elapsed' = 0
  /\ waited' = 0
  /\ UNCHANGED <<mpc, clientVars>>

\* A Ping: last_ping is now, a Pong is sent back.
RecvPing ==
  /\ mpc = "listen"
  /\ flight # NoPing
  /\ flight' = NoPing
  /\ last_ping' = TRUE
  /\ elapsed' = 0
  /\ waited' = 0
  /\ UNCHANGED <<mpc, alive, next_ping, lost, stray>>

\* A datagram that is not a Ping, or a socket error other than a timeout:
\* the loop goes round without looking at the time.
RecvOther ==
  /\ mpc = "listen"
  /\ stray = "now"
  /\ waited' = 0
  /\ UNCHANGED <<mpc, last_ping, elapsed, clientVars>>

\* Variants: no grace before the first ping; no limit before the first ping.
TimedOutWithoutGrace ==
  /\ mpc = "listen"
  /\ waited = ReadTimeout
  /\ waited' = 0
  /\ mpc' = IF elapsed > MAX_PING_TIMEOUT THEN "done" ELSE "listen"
  /\ UNCHANGED <<last_ping, elapsed, clientVars>>

TimedOutAfterPing ==
  /\ mpc = "listen"
  /\ waited = ReadTimeout
  /\ waited' = 0
  /\ mpc' = IF last_ping /\ elapsed > Limit THEN "done" ELSE "listen"
  /\ UNCHANGED <<last_ping, elapsed, clientVars>>

\* The read timeout is over.
RecvTimedOut ==
  /\ mpc = "listen"
  /\ waited = ReadTimeout
  /\ waited' = 0
  /\ mpc' = IF elapsed > Limit THEN "done" ELSE "listen"
  /\ UNCHANGED <<last_ping, elapsed, clientVars>>

-----------------------------------------------------------------------------
\* Variant: the socket has no read timeout.
TickForEver ==
  /\ mpc = "listen"
  /\ alive => next_ping > 0
  /\ flight # MaxDelay
  /\ waited' = waited + 1
  /\ elapsed' = IF elapsed = MaxElapsed THEN elapsed ELSE elapsed + 1
  /\ next_ping' = IF alive THEN next_ping - 1 ELSE next_ping
  /\ flight' = IF flight = NoPing THEN NoPing ELSE flight + 1
  /\ UNCHANGED <<mpc, last_ping, alive, lost, stray>>

\* Time passes unless somebody is due.
Tick ==
  /\ mpc = "listen"
  /\ waited < ReadTimeout
  /\ alive => next_ping > 0
  /\ flight # MaxDelay
  /\ waited' = waited + 1
  /\ elapsed' = IF elapsed = MaxElapsed THEN elapsed ELSE elapsed + 1
  /\ next_ping' = IF alive THEN next_ping - 1 ELSE next_ping
  /\ flight' = IF flight = NoPing THEN NoPing ELSE flight + 1
  /\ UNCHANGED <<mpc, last_ping, alive, lost, stray>>

Next == SendPing \/ ClientStops \/ StrayEnds \/ RecvPing \/ RecvOther \/ RecvTimedOut \/ Tick

Spec == Init /\ [][Next]_vars

Fairness == WF_vars(RecvPing \/ RecvTimedOut) /\ WF_vars(Tick) /\ WF_vars(SendPing)

FairSpec == Spec /\ Fairness

-----------------------------------------------------------------------------
(***************************************************************************)
(* Properties.                                                             *)
(***************************************************************************)

\* A client that keeps pinging is never given up, as long as the delays and
\* the losses of the network fit into the timeouts (TimingAssumption): with
\* the constants of the code, every other ping may be lost.
NoFalseTimeout == mpc = "done" => ~alive

\* The monitor never waits longer than its limit plus one read timeout, when
\* nothing but pings reaches its socket.
DetectedInTime ==
  mpc = "listen" /\ stray = "never" => elapsed <= Limit + ReadTimeout

\* A client that stops is given up by monitor_connection once its socket is
\* left alone, however long other datagrams have kept it from looking.
StoppedIsNoticed == ~alive /\ stray # "now" ~> mpc = "done"
=============================================================================
