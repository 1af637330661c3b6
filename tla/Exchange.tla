------------------------------ MODULE Exchange ------------------------------
(***************************************************************************)
(* The TCP exchange of a subscription, byte stream and text included: the  *)
(* client turns its arguments into a ticker list, send_command frames the  *)
(* command, read_tcp_message takes it apart on the other side,             *)
(* handle_request answers, and the same read_tcp_message reads the answer. *)
(* The stream delivers in pieces of any size and may break at any moment.  *)
(* Peers other than the client send what they like and then close.         *)
(***************************************************************************)
EXTENDS Integers, Functions, Protocol

CONSTANTS Inputs,        \* how the peer was started, see ClientTickers
          Configured,    \* the names the generator knows
          Ip, Port,      \* 127.0.0.1 and worker_udp_port
          MAX_MSG_LEN,   \* read_tcp_message reads no longer texts (1e7 bytes)
          None           \* nothing yet

ASSUME ExchangeAssumption ==
    /\ Ip \in Ips /\ Port \in Ports
    /\ "|" \notin Ips \cup Ports
    /\ MAX_MSG_LEN \in Nat
    /\ <<>> \notin Configured

Sides == {"client", "server"}
Peer(s) == IF s = "client" THEN "server" ELSE "client"

VARIABLES
    input,        \* the member of Inputs this peer was started with
    cpc,          \* where in Worker::start the client is
    spc,          \* where in handle_request the handler is
    out,          \* what each side has yet to write: one text per write_all
    wire,         \* the units on their way to each side
    closed,       \* the sides that have closed their end of the stream
    broken,       \* the stream is lost
    reader,       \* each side's call of read_tcp_message
    registered,   \* the ticker list add_receiver has accepted
    response      \* what the handler answers

vars == <<input, cpc, spc, out, wire, closed, broken, reader, registered,
          response>>

-----------------------------------------------------------------------------
\* The client's ticker list: the lines of a file, trimmed and without the
\* empty ones, or an argument that clap splits at its commas.
ClientTickers(i) ==
    IF i.kind = "file"
    THEN NonEmpty([k \in DOMAIN i.lines |-> Trim(i.lines[k])])
    ELSE Split(i.arg, ",")

\* u32::to_be_bytes and from_be_bytes
ToBeBytes(n) == <<(n \div 2^24) % 256, (n \div 2^16) % 256, (n \div 2^8) % 256,
                  n % 256>>
FromBeBytes(b) == b[1] * 2^24 + b[2] * 2^16 + b[3] * 2^8 + b[4]

\* Variant: the length counts its own last byte.
FramedWithPrefix(text) == <<ToBeBytes(Len(text) + 1), text>>

\* What send_command and send_tcp_message write: first the length of the text,
\* then the text.
Framed(text) == <<ToBeBytes(Len(text)), text>>

Command(i) == Cmd([ip |-> Ip, port |-> Port, tickers_list |-> ClientTickers(i)])

\* A text, or a list, is a sequence; the length of a text that is sent fits a
\* u32.
IsText(t) == Len(t) \in Nat /\ t = [k \in 1..Len(t) |-> t[k]]
FitsU32(n) == n \div 2^24 < 256

\* Commands and responses are not longer than a length can say; None is not a
\* list; the first four units of what another peer sends are bytes.
ASSUME InputsAssumption ==
    /\ FitsU32(MAX_MSG_LEN + 3)
    /\ \A i \in Inputs :
         IF i.kind = "raw"
         THEN /\ IsText(i.bytes)
              /\ \A k \in DOMAIN i.bytes : k <= 4 => i.bytes[k] \in 0..255
         ELSE /\ IF i.kind = "file"
                 THEN /\ IsText(i.lines)
                      /\ \A k \in DOMAIN i.lines : IsText(i.lines[k])
                 ELSE IsText(i.arg)
              /\ FitsU32(Len(TcpToString(Command(i))))
              /\ ClientTickers(i) # None

Reading == [pc |-> "len", buf |-> <<>>, msg_len |-> 4, msg |-> None]

Init == /\ input \in Inputs
        /\ cpc = "connect" /\ spc = "off"
        /\ out = [s \in Sides |-> <<>>]
        /\ wire = [s \in Sides |-> <<>>]
        /\ closed = {}
        /\ broken = FALSE
        /\ reader = [s \in Sides |-> Reading]
        /\ registered = None /\ response = None

\* A new connection with a handler of its own; one that still works on an
\* abandoned connection has no say in this one.  The client's reader starts
\* before the command is sent.
Connect ==
    /\ cpc = "connect"
    /\ cpc' = "send" /\ spc' = "read"
    /\ out' = [s \in Sides |->
                 IF s = "server" THEN <<>>
                 ELSE IF input.kind = "raw" THEN <<input.bytes>>
                 ELSE Framed(TcpToString(Command(input)))]
    /\ wire' = [s \in Sides |-> <<>>]
    /\ closed' = {} /\ broken' = FALSE
    /\ reader' = [s \in Sides |-> Reading]
    /\ registered' = None /\ response' = None
    /\ UNCHANGED input

\* One write_all.
Write(s) ==
    /\ out[s] # <<>> /\ ~broken
    /\ wire' = [wire EXCEPT ![Peer(s)] = @ \o Head(out[s])]
    /\ out' = [out EXCEPT ![s] = Tail(@)]
    /\ UNCHANGED <<input, cpc, spc, closed, broken, reader, registered, response>>

\* The stream breaks: what was on its way is gone.
Break == /\ cpc \in {"send", "await"} /\ ~broken
         /\ broken' = TRUE
         /\ wire' = [s \in Sides |-> <<>>]
         /\ UNCHANGED <<input, cpc, spc, out, closed, reader, registered, response>>

-----------------------------------------------------------------------------
(* read_tcp_message, called by the handler and by a thread of the client.  *)

Active(s) == /\ reader[s].pc \in {"len", "data"}
             /\ IF s = "server" THEN spc = "read" ELSE cpc \in {"send", "await"}

Missing(s) == reader[s].msg_len - Len(reader[s].buf)

Set(s, r) == reader' = [reader EXCEPT ![s] = r]

readUnchanged == <<input, cpc, spc, out, closed, broken, registered, response>>

\* Variant: one read fills what it can; the rest of the buffer is zeroes.
RecvOnce(s) ==
    \E k \in 1..Len(wire[s]) :
        LET got == reader[s].buf \o SubSeq(wire[s], 1, k)
            zeroes == [j \in 1..(reader[s].msg_len - Len(got)) |-> "0"]
        IN  /\ Active(s) /\ k <= Missing(s)
            /\ Set(s, [reader[s] EXCEPT !.buf = IF @ = <<>> /\ reader[s].pc = "data"
                                                THEN got \o zeroes ELSE got])
            /\ wire' = [wire EXCEPT ![s] = SubSeq(@, k + 1, Len(@))]
            /\ UNCHANGED readUnchanged

\* read_exact takes what has arrived, up to what it still misses.
Recv(s) ==
    \E k \in 1..Len(wire[s]) :
        /\ Active(s) /\ k <= Missing(s)
        /\ Set(s, [reader[s] EXCEPT !.buf = @ \o SubSeq(wire[s], 1, k)])
        /\ wire' = [wire EXCEPT ![s] = SubSeq(@, k + 1, Len(@))]
        /\ UNCHANGED readUnchanged

\* read_exact fails: the stream broke, or ended before the last byte.
RecvFails(s) ==
    /\ Active(s) /\ Missing(s) > 0 /\ wire[s] = <<>>
    /\ broken \/ Peer(s) \in closed
    /\ Set(s, [reader[s] EXCEPT !.pc = "done", !.msg = ParseErr("Io")])
    /\ UNCHANGED <<wire, readUnchanged>>

\* Variant: a buffer of the announced length, whatever it is.
GotAnyLength(s) ==
    /\ Active(s) /\ Missing(s) = 0 /\ reader[s].pc = "len"
    /\ Set(s, [reader[s] EXCEPT !.pc = "data", !.buf = <<>>,
                                !.msg_len = FromBeBytes(reader[s].buf)])
    /\ UNCHANGED <<wire, readUnchanged>>

\* The length is complete: the buffer is allocated, unless it is too long.
GotLength(s) ==
    /\ Active(s) /\ Missing(s) = 0 /\ reader[s].pc = "len"
    /\ LET n == FromBeBytes(reader[s].buf)
       IN  IF n > MAX_MSG_LEN
           THEN Set(s, [reader[s] EXCEPT !.pc = "done",
                                         !.msg = ParseErr("MsgToBig")])
           ELSE Set(s, [reader[s] EXCEPT !.pc = "data", !.buf = <<>>,
                                         !.msg_len = n])
    /\ UNCHANGED <<wire, readUnchanged>>

\* The text is complete: it must be UTF-8 and parse as a TcpMessage.
GotText(s) ==
    /\ Active(s) /\ Missing(s) = 0 /\ reader[s].pc = "data"
    /\ LET text == reader[s].buf
       IN  Set(s, [reader[s] EXCEPT
                     !.pc = "done",
                     !.msg = IF "not UTF-8" \in Range(text)
                             THEN ParseErr("Utf8Error")
                             ELSE TcpFromString(text)])
    /\ UNCHANGED <<wire, readUnchanged>>

-----------------------------------------------------------------------------
(* The handler of the connection.                                          *)

handlerUnchanged == <<input, cpc, wire, broken, reader>>

\* add_receiver refuses a list with a name the generator does not know.
Missed(list) == {k \in DOMAIN list : list[k] \notin Configured}

\* A message was read: handle_request decides on the response.
Handle ==
    /\ spc = "read" /\ reader["server"].pc = "done"
    /\ LET m == reader["server"].msg
       IN  /\ m.type # "ParseErr"
           /\ IF m.type # "Cmd"
              THEN /\ response' = Err(<<"Unexpected message type">>)
                   /\ UNCHANGED registered
              ELSE LET list == m.cmd.tickers_list
                   IN  IF Missed(list) # {}
                       THEN /\ response' = Err(<<"Ticker does not exist">>
                                                 \o list[Min(Missed(list))])
                            /\ UNCHANGED registered
                       ELSE registered' = list /\ response' = Ack
    /\ out' = [out EXCEPT !["server"] = Framed(TcpToString(response'))]
    /\ spc' = "respond"
    /\ UNCHANGED <<closed, handlerUnchanged>>

\* The streaming thread cannot be spawned: the handler panics after the list
\* has been registered, which drops the stream without a response.
SpawnPanics ==
    /\ spc = "read" /\ reader["server"].pc = "done"
    /\ LET m == reader["server"].msg
       IN  /\ m.type = "Cmd" /\ Missed(m.cmd.tickers_list) = {}
           /\ registered' = m.cmd.tickers_list
    /\ spc' = "done" /\ closed' = closed \cup {"server"}
    /\ UNCHANGED <<out, response, handlerUnchanged>>

\* The message could not be read: handle_request returns the error to its
\* thread, which drops the stream.  No response is sent.
HandlerFails ==
    /\ spc = "read" /\ reader["server"].pc = "done"
    /\ reader["server"].msg.type = "ParseErr"
    /\ spc' = "done" /\ closed' = closed \cup {"server"}
    /\ UNCHANGED <<out, registered, response, handlerUnchanged>>

\* The response is written, or cannot be: the thread ends, and with it the
\* server's end of the stream.
HandlerEnds ==
    /\ spc = "respond"
    /\ out["server"] = <<>> \/ broken
    /\ spc' = "done" /\ closed' = closed \cup {"server"}
    /\ out' = [out EXCEPT !["server"] = <<>>]
    /\ UNCHANGED <<registered, response, handlerUnchanged>>

-----------------------------------------------------------------------------
(* The client's loop in Worker::start.                                     *)

clientUnchanged == <<input, spc, wire, broken, registered, response>>

\* send_command returns.  A peer of another kind closes its end.
Sent == /\ cpc = "send" /\ out["client"] = <<>>
        /\ cpc' = "await"
        /\ closed' = closed \cup (IF input.kind = "raw" THEN {"client"} ELSE {})
        /\ UNCHANGED <<out, reader, clientUnchanged>>

\* write_all fails: sleep and try again.
SendFails == /\ cpc = "send" /\ out["client"] # <<>> /\ broken
             /\ cpc' = "sleep"
             /\ out' = [out EXCEPT !["client"] = <<>>]
             /\ UNCHANGED <<closed, reader, clientUnchanged>>

\* The reading thread is joined: only an Ack ends the loop.
Joined == /\ cpc = "await" /\ reader["client"].pc = "done"
          /\ cpc' = IF reader["client"].msg = Ack THEN "subscribed" ELSE "sleep"
          /\ closed' = closed \cup {"client"}
          /\ UNCHANGED <<out, reader, clientUnchanged>>

Retry == /\ cpc = "sleep"
         /\ cpc' = "connect"
         /\ UNCHANGED <<out, closed, reader, clientUnchanged>>

Done == cpc = "subscribed" /\ spc = "done" /\ UNCHANGED vars

Step == \/ Connect \/ Handle \/ SpawnPanics \/ HandlerFails \/ HandlerEnds
        \/ Sent \/ SendFails \/ Joined \/ Retry
        \/ \E s \in Sides : Write(s) \/ Recv(s) \/ RecvFails(s)
                            \/ GotLength(s) \/ GotText(s)

Next == Step \/ Break \/ Done

\* Threads run and the network delivers; nothing forces the stream to break.
Spec == Init /\ [][Next]_vars /\ WF_vars(Step)

-----------------------------------------------------------------------------
\* Names without the separators of the command's text.
Plain(list) == \A k \in DOMAIN list : {"|", ","} \cap Range(list[k]) = {}

\* No buffer is longer than MAX_MSG_LEN, whatever length a peer announces, and
\* no reader takes more than it asked for.
TypeOK ==
    /\ input \in Inputs
    /\ cpc \in {"connect", "send", "await", "subscribed", "sleep"}
    /\ spc \in {"off", "read", "respond", "done"}
    /\ closed \subseteq Sides
    /\ broken \in BOOLEAN
    /\ \A s \in Sides : /\ reader[s].pc \in {"len", "data", "done"}
                        /\ reader[s].msg_len <= Max({4, MAX_MSG_LEN})
                        /\ Missing(s) >= 0

\* A message that was read is the message that was sent, in whatever pieces it
\* arrived: the command up to what its text can carry, the response exactly,
\* the separators in an error's text included.
FrameIntegrity ==
    /\ reader["server"].pc = "done" /\ reader["server"].msg.type # "ParseErr"
          => input.kind = "raw" \/ reader["server"].msg
                                     = TcpFromString(TcpToString(Command(input)))
    /\ reader["client"].pc = "done" /\ reader["client"].msg.type # "ParseErr"
          => reader["client"].msg = response

\* An Ack in the client's hands means that the server has registered the names
\* the client was started with, all of them and no others.  In particular a
\* client without any ticker is never subscribed.
AckIsExact ==
    LET list == ClientTickers(input)
    IN  cpc = "subscribed" /\ input.kind # "raw" /\ Plain(list) =>
            /\ list # <<>>
            /\ registered # None /\ Range(registered) = Range(list)

\* Names are not escaped, so separators inside them move boundaries: a client
\* with an Ack is registered for its names up to the first "|" in any of them,
\* cut at every comma, and for nothing else.  They come last in the command,
\* so its address stays the client's own.
NamesAreCut ==
    LET kept == Split(Join(ClientTickers(input), ","), "|")[1]
    IN  cpc = "subscribed" /\ input.kind # "raw" =>
            /\ registered = Split(kept, ",")
            /\ reader["server"].msg.cmd.ip = Ip
            /\ reader["server"].msg.cmd.port = Port

\* A read_exact for which nothing is on its way, and that nobody will end.
Starved(s) == /\ Active(s) /\ Missing(s) > 0
              /\ wire[s] = <<>> /\ out[Peer(s)] = <<>>
              /\ ~broken /\ Peer(s) \notin closed

\* Neither side has a read timeout.  While the client's reader waits and nothing
\* is on its way to it, the handler is still there and does not wait for the
\* client: it has all that the length it was sent makes it read.
NeverBothWait ==
    cpc = "await" /\ Starved("client") =>
        spc \in {"read", "respond"} /\ ~Starved("server")

\* Every attempt to subscribe ends, with an Ack or with a retry: the two sides
\* never wait for each other, whatever was sent and wherever it broke.
AttemptEnds == cpc = "send" ~> cpc \in {"subscribed", "sleep"}
=============================================================================
