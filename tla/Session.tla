------------------------------ MODULE Session ------------------------------
(***************************************************************************)
(* Clients that come and go on their UDP ports, the subscriptions they     *)
(* leave on the server, and a server that may crash and start again: the   *)
(* composition of Worker, Processor and Health, each reduced to what the   *)
(* others see of it.  A client subscribes until an Ack reaches it, fixes   *)
(* the socket its first quote comes from, and pings that one and no other. *)
(* A subscription lives as long as it is pinged, and some time before the  *)
(* first ping (Health).                                                    *)
(***************************************************************************)
EXTENDS Naturals, FiniteSets

CONSTANTS
    Ids,          \* the subscriptions, each with a UDP socket of its own; how
                  \*   many there are bounds how many can be alive at a time
    Wants,        \* the ticker lists clients are started with
    Unknown,      \* those with a ticker the server does not have
    Ports,        \* the UDP ports they are started on
    Wait,         \* what users wait for before they start a client on a port
                  \*   again: "none", nothing; "documented", the 5+ seconds of
                  \*   README.md; "full", as long as the server keeps anything
    MaxStarts,    \* bound: how often a client is started
    MaxCrashes,   \* bound: how often the server crashes
    MaxBreaks,    \* bound: how many TCP connections break
    MaxPanics,    \* bound: how many of the server's threads panic
    None

ASSUME SessionAssumption ==
    /\ Wait \in {"none", "documented", "full"}
    /\ Unknown \subseteq Wants
    /\ MaxStarts \in Nat /\ MaxCrashes \in Nat /\ MaxBreaks \in Nat
    /\ MaxPanics \in Nat
    /\ Ids \subseteq Nat /\ None \notin Ids

VARIABLES
    up,           \* the server process runs
    sub,          \* the server's subscriptions: state, tickers, UDP port, the
                  \*   port the client was started on, and the answer that is
                  \*   on its way
    wire,         \* the subscriptions that have a quote on its way
    cpc,          \* where the client's main thread is; "off": no client runs
    att,          \* the subscription at the other end of the client's TCP
                  \*   connection, if there is one
    want, port,   \* the client's arguments
    src,          \* src_addr: the subscription the client pings
    got,          \* the ticker lists it has had quotes of
    shutdown,     \* the client's shutdown flag
    starts, crashes, breaks, panics

serverVars == <<up, sub, crashes, panics>>
argVars == <<want, port, starts>>
listenVars == <<src, got, shutdown>>
mainVars == <<cpc, att>>
vars == <<serverVars, argVars, listenVars, mainVars, wire, breaks>>

\* A stream is waiting for its first ping, or pinged, or unwatched: its monitor
\* has panicked.
Streaming == {"waiting", "pinged", "unwatched"}

Subscription == [state : {"sent", "gone"} \cup Streaming,
                 want : Wants \cup {None},
                 port : Ports \cup {None}, client : Ports \cup {None},
                 answer : {"none", "ack", "err"}]

Alive(id) == sub[id].state \in Streaming

\* The ping thread pings src_addr until shutdown.
Pinged(id) == cpc # "off" /\ ~shutdown /\ src = id

\* No subscription, and none a datagram or a client still refers to.
Free(id) == sub[id].state = "gone" /\ id \notin wire /\ id # src

\* What may be left of earlier clients after a wait.  The server drops a
\* stream 5 seconds after its last ping, but one that was never pinged only
\* after 15, each plus a read timeout of a second; one that nobody watches
\* stays.
Outlasts == CASE Wait = "none" -> {"sent", "gone"} \cup Streaming
              [] Wait = "documented" -> {"waiting", "unwatched"}
              [] Wait = "full" -> {"unwatched"}

\* The user has waited since the last client on port p; on a port that was not
\* used before there is nothing to wait for.
Waited(p) == \A id \in Ids :
    /\ sub[id].client = p
    /\ sub[id].state # "gone" \/ id \in wire
    => sub[id].state \in Outlasts

Init == /\ up = TRUE /\ crashes = 0 /\ breaks = 0 /\ panics = 0
        /\ starts = 0
        /\ sub = [id \in Ids |-> [state |-> "gone", want |-> None,
                                  port |-> None, client |-> None,
                                  answer |-> "none"]]
        /\ wire = {}
        /\ cpc = "off" /\ att = None
        /\ want = None /\ port = None
        /\ src = None /\ got = {} /\ shutdown = FALSE

-----------------------------------------------------------------------------
(* The client: main, Worker::start and the UDP listener.                   *)

ClientStart(w, p) ==
    /\ cpc = "off" /\ starts < MaxStarts
    /\ Waited(p)
    /\ want' = w /\ port' = p /\ starts' = starts + 1
    /\ cpc' = "connect" /\ att' = None
    /\ src' = None /\ got' = {} /\ shutdown' = FALSE
    /\ UNCHANGED <<serverVars, wire, breaks>>

\* Ctrl+C or a crash, at any time: nothing is said to the server.
ClientStops ==
    /\ cpc # "off"
    /\ cpc' = "off" /\ att' = None
    /\ UNCHANGED <<serverVars, argVars, listenVars, wire, breaks>>

ConnectFails ==
    /\ cpc = "connect" /\ ~up
    /\ cpc' = "sleep"
    /\ UNCHANGED <<att, serverVars, argVars, listenVars, wire, breaks>>

\* Variant: the command names the default port whatever the client listens on.
SendDefaultPort(id) ==
    /\ cpc = "connect" /\ up
    /\ Free(id) /\ \A j \in Ids : Free(j) => id <= j
    /\ sub' = [sub EXCEPT ![id] = [state |-> "sent", want |-> want,
                                   port |-> CHOOSE p \in Ports : TRUE,
                                   client |-> port, answer |-> "none"]]
    /\ cpc' = "await" /\ att' = id
    /\ UNCHANGED <<up, crashes, panics, argVars, listenVars, wire, breaks>>

\* The command is sent; id is the subscription the server will make of it.
SendCommand(id) ==
    /\ cpc = "connect" /\ up
    /\ Free(id) /\ \A j \in Ids : Free(j) => id <= j
    /\ sub' = [sub EXCEPT ![id] = [state |-> "sent", want |-> want,
                                   port |-> port, client |-> port,
                                   answer |-> "none"]]
    /\ cpc' = "await" /\ att' = id
    /\ UNCHANGED <<up, crashes, panics, argVars, listenVars, wire, breaks>>

ReadAck ==
    /\ cpc = "await" /\ att # None /\ sub[att].answer = "ack"
    /\ cpc' = "watch" /\ att' = None
    /\ UNCHANGED <<serverVars, argVars, listenVars, wire, breaks>>

\* The server refuses the tickers: the client tries again, for ever.
ReadErr ==
    /\ cpc = "await" /\ att # None /\ sub[att].answer = "err"
    /\ cpc' = "sleep" /\ att' = None
    /\ UNCHANGED <<serverVars, argVars, listenVars, wire, breaks>>

\* The connection breaks.  What the server makes of the command stays.
Break ==
    /\ att # None /\ breaks < MaxBreaks
    /\ att' = None /\ breaks' = breaks + 1
    /\ UNCHANGED <<cpc, serverVars, argVars, listenVars, wire>>

\* Variant: the end of the server is noticed, that of the connection is not.
CrashNoticed ==
    /\ cpc = "await" /\ att # None
    /\ sub[att].state = "gone" /\ sub[att].answer = "none"
    /\ cpc' = "sleep" /\ att' = None
    /\ UNCHANGED <<serverVars, argVars, listenVars, wire, breaks>>

\* The connection broke, or ended with the server or with the handler, before
\* an answer was read.
AnswerLost ==
    /\ cpc = "await"
    /\ att # None => sub[att].state = "gone" /\ sub[att].answer = "none"
    /\ cpc' = "sleep" /\ att' = None
    /\ UNCHANGED <<serverVars, argVars, listenVars, wire, breaks>>

Retry ==
    /\ cpc = "sleep"
    /\ cpc' = "connect"
    /\ UNCHANGED <<att, serverVars, argVars, listenVars, wire, breaks>>

\* Variant: src_addr is the sender of the last packet.
RecvFollows(id) ==
    /\ id \in wire /\ cpc # "off" /\ ~shutdown /\ sub[id].port = port
    /\ wire' = wire \ {id}
    /\ src' = id
    /\ got' = got \cup {sub[id].want}
    /\ UNCHANGED <<shutdown, serverVars, argVars, mainVars, breaks>>

\* The listener takes any packet from the server's address; the first one
\* fixes src_addr and starts the ping thread.
Recv(id) ==
    /\ id \in wire /\ cpc # "off" /\ ~shutdown /\ sub[id].port = port
    /\ wire' = wire \ {id}
    /\ src' = IF src = None THEN id ELSE src
    /\ got' = got \cup {sub[id].want}
    /\ UNCHANGED <<shutdown, serverVars, argVars, mainVars, breaks>>

\* The subscription it pings is no more, or its monitor is not: the pings stay
\* unanswered.
GiveUp ==
    /\ cpc # "off" /\ ~shutdown /\ src # None
    /\ ~Alive(src) \/ sub[src].state = "unwatched"
    /\ shutdown' = TRUE
    /\ UNCHANGED <<src, got, serverVars, argVars, mainVars, wire, breaks>>

\* main looks at the flag only after start has returned with an Ack.
Leave ==
    /\ cpc = "watch" /\ shutdown
    /\ cpc' = "off"
    /\ UNCHANGED <<att, serverVars, argVars, listenVars, wire, breaks>>

-----------------------------------------------------------------------------
(* The server and the network.                                             *)

\* The handler registers the subscription and answers.  The streaming thread
\* binds its socket, or cannot, or panics, and no quote will come.
Handle(id) ==
    /\ sub[id].state = "sent" /\ sub[id].want \notin Unknown
    /\ \E s \in {"waiting", "gone"} :
          sub' = [sub EXCEPT ![id].state = s, ![id].answer = "ack"]
    /\ UNCHANGED <<up, crashes, panics, argVars, listenVars, mainVars, wire, breaks>>

\* A ticker is not known: nothing is registered and the answer is Err.
Refuse(id) ==
    /\ sub[id].state = "sent" /\ sub[id].want \in Unknown
    /\ sub' = [sub EXCEPT ![id].state = "gone", ![id].answer = "err"]
    /\ UNCHANGED <<up, crashes, panics, argVars, listenVars, mainVars, wire, breaks>>

\* The streaming thread cannot be spawned: the handler panics after it has
\* registered and before it answers.  No quote will be sent.
SpawnPanics(id) ==
    /\ sub[id].state = "sent" /\ sub[id].want \notin Unknown
    /\ panics < MaxPanics
    /\ panics' = panics + 1
    /\ sub' = [sub EXCEPT ![id].state = "gone"]
    /\ UNCHANGED <<up, crashes, argVars, listenVars, mainVars, wire, breaks>>

\* The connection broke before the whole command was read.
HandlerFails(id) ==
    /\ sub[id].state = "sent" /\ id # att
    /\ sub' = [sub EXCEPT ![id].state = "gone"]
    /\ UNCHANGED <<up, crashes, panics, argVars, listenVars, mainVars, wire, breaks>>

\* A quote is sent to the address of the command.
Quote(id) ==
    /\ Alive(id) /\ id \notin wire
    /\ wire' = wire \cup {id}
    /\ UNCHANGED <<serverVars, argVars, listenVars, mainVars, breaks>>

Lose(id) ==
    /\ id \in wire
    /\ wire' = wire \ {id}
    /\ UNCHANGED <<serverVars, argVars, listenVars, mainVars, breaks>>

\* The monitor hears its first ping and applies the short limit from now on.
Ping(id) ==
    /\ sub[id].state = "waiting" /\ Pinged(id)
    /\ sub' = [sub EXCEPT ![id].state = "pinged"]
    /\ UNCHANGED <<up, crashes, panics, argVars, listenVars, mainVars, wire, breaks>>

\* An expect of the monitor panics.  The stream goes on, and nothing ends it
\* but the end of the server.
MonitorPanics(id) ==
    /\ sub[id].state \in {"waiting", "pinged"} /\ panics < MaxPanics
    /\ panics' = panics + 1
    /\ sub' = [sub EXCEPT ![id].state = "unwatched"]
    /\ UNCHANGED <<up, crashes, argVars, listenVars, mainVars, wire, breaks>>

\* The monitor's timeout.  A last quote may still be on its way.
Expire(id) ==
    /\ sub[id].state \in {"waiting", "pinged"} /\ ~Pinged(id)
    /\ sub' = [sub EXCEPT ![id].state = "gone"]
    /\ UNCHANGED <<up, crashes, panics, argVars, listenVars, mainVars, wire, breaks>>

\* Everything is in memory and lost.  An Ack may have been delivered already.
ServerCrash ==
    /\ up /\ crashes < MaxCrashes
    /\ up' = FALSE /\ crashes' = crashes + 1
    /\ \E delivered \in BOOLEAN :
          sub' = [id \in Ids |->
                    [sub[id] EXCEPT !.state = "gone",
                                    !.answer = IF delivered THEN @ ELSE "none"]]
    /\ UNCHANGED <<panics, argVars, listenVars, mainVars, wire, breaks>>

ServerStart ==
    /\ ~up
    /\ up' = TRUE
    /\ UNCHANGED <<sub, crashes, panics, argVars, listenVars, mainVars, wire, breaks>>

ClientStep == \/ ConnectFails \/ ReadAck \/ ReadErr \/ AnswerLost \/ Retry
              \/ GiveUp \/ Leave \/ \E id \in Ids : SendCommand(id)

SubscriptionStep(id) == \/ Handle(id) \/ Refuse(id) \/ SpawnPanics(id)
                        \/ HandlerFails(id) \/ Expire(id)

Next == \/ \E w \in Wants, p \in Ports : ClientStart(w, p)
        \/ ClientStops \/ Break \/ ClientStep \/ ServerCrash \/ ServerStart
        \/ \E id \in Ids : \/ SubscriptionStep(id) \/ Ping(id)
                           \/ MonitorPanics(id) \/ Quote(id) \/ Recv(id)
                           \/ Lose(id)

\* The client's and the server's threads run and datagrams arrive or are lost.
\* Nobody has to start or stop a client or to start the server again.
Spec == /\ Init /\ [][Next]_vars
        /\ WF_vars(ClientStep)
        /\ WF_vars(GiveUp) /\ WF_vars(Leave)
        /\ \A id \in Ids : /\ WF_vars(SubscriptionStep(id))
                           /\ WF_vars(Recv(id) \/ Lose(id))

-----------------------------------------------------------------------------
\* A client that waits for an Ack waits for a subscription of its own, and
\* subscriptions live only in a server that runs.
TypeOK ==
    /\ up \in BOOLEAN /\ shutdown \in BOOLEAN
    /\ sub \in [Ids -> Subscription]
    /\ ~up => \A id \in Ids : sub[id].state = "gone"
    /\ wire \subseteq Ids
    /\ cpc \in {"off", "connect", "await", "sleep", "watch"}
    /\ cpc # "off" => want \in Wants /\ port \in Ports
    /\ att \in Ids \cup {None}
    /\ att # None => sub[att].want = want /\ sub[att].port = port
    /\ src \in Ids \cup {None} /\ got \subseteq Wants

\* A client that is started on a port once the server keeps nothing for it, 16
\* seconds after the last client there at the latest (Health), never sees
\* quotes that another client has asked for and never pings another one's
\* subscription, although lost Acks leave several subscriptions and Recv looks
\* at nothing but the port.  It takes the full wait, not the documented one,
\* and monitors that do not panic.
OwnQuotes ==
    Wait = "full" /\ panics = 0 /\ cpc # "off" =>
        /\ got \subseteq {want}
        /\ src # None => sub[src].want = want

\* The subscriptions that lost Acks, ended clients and clients that give up
\* leave behind all go, but for those whose monitor has panicked: in the end
\* the one that the client pings remains.
StraysExpire ==
    <>[](\A id \in Ids :
            Alive(id) => Pinged(id) \/ sub[id].state = "unwatched")

\* Once the server stays up, every client whose tickers it knows gets its Ack
\* or ends, whatever was lost before, and one that has given up in the meantime
\* ends too.  A client with an unknown ticker is refused for ever.
AckEventually ==
    <>[]up => (cpc = "connect" /\ want \notin Unknown
                 ~> cpc = "off" \/ (cpc = "watch" /\ ~shutdown))

\* README.md, Health Checks: "Automatic ping/pong mechanism to detect
\* connection issues".  A client whose server is gone does not wait for ever.
LossDetected ==
    cpc = "watch" /\ ~up ~> cpc = "off" \/ up

\* README.md, Immediate Client Restart: "Both the old (dead) and new client
\* sockets may briefly coexist"; "Workaround: Wait 5+ seconds between stopping
\* and restarting".  After that wait, what an earlier client on this port has
\* asked for does not stay for ever.
OldStreamEnds ==
    []<>(\A id \in Ids : Alive(id) /\ cpc = "watch" => sub[id].want = want)
=============================================================================
