------------------------------ MODULE Protocol ------------------------------
(***************************************************************************)
(* The messages of the TCP connection and their text: TcpMessage and       *)
(* SubscribeCommand of the server's types module, with the errors of       *)
(* parsing.  A text is a sequence of tokens (see Text).                    *)
(***************************************************************************)
EXTENDS Text

CONSTANTS Ips,      \* tokens that parse as an IPv4 address
          Ports     \* tokens that parse as a u16

Ack      == [type |-> "Ack"]
Cmd(c)   == [type |-> "Cmd", cmd |-> c]
Err(e)   == [type |-> "Err", text |-> e]

\* Result of a parser that fails with this variant of ParseCommandErr.
ParseErr(variant) == [type |-> "ParseErr", variant |-> variant]

\* Display of SubscribeCommand.  Commands and Protocol have one variant each.
Display(c) ==
    Join(<< <<"STREAM">>, <<"UDP">>, <<c.ip>>, <<c.port>>,
            Join(c.tickers_list, ",") >>, "|")

\* Variant: empty names are skipped.
NonEmptyNames(field) == NonEmpty(Split(field, ","))

\* The names of the last field.  An empty field holds one empty name.
TickerNames(field) == Split(field, ",")

\* Variant: the names are taken from the last field there is.
FromStrLast(s) ==
    LET parts == Split(s, "|")
        one(field, words) == \E w \in words : parts[field] = <<w>>
    IN  IF Len(parts) < 5 THEN ParseErr("NotEnoughArguments")
        ELSE IF ~one(1, {"STREAM", "stream"}) \/ ~one(2, {"UDP", "udp"})
        THEN ParseErr("VariantNotFound")
        ELSE IF ~one(3, Ips) THEN ParseErr("InvalidIpAddress")
        ELSE IF ~one(4, Ports) THEN ParseErr("InvalidPort")
        ELSE Cmd([ip |-> parts[3][1], port |-> parts[4][1],
                  tickers_list |-> TickerNames(parts[Len(parts)])])

\* FromStr of SubscribeCommand: the fields are parsed in their order, and what
\* stands behind a fifth separator is not looked at.
FromStr(s) ==
    LET parts == Split(s, "|")
        one(field, words) == \E w \in words : parts[field] = <<w>>
    IN  IF Len(parts) < 5 THEN ParseErr("NotEnoughArguments")
        ELSE IF ~one(1, {"STREAM", "stream"}) \/ ~one(2, {"UDP", "udp"})
        THEN ParseErr("VariantNotFound")
        ELSE IF ~one(3, Ips) THEN ParseErr("InvalidIpAddress")
        ELSE IF ~one(4, Ports) THEN ParseErr("InvalidPort")
        ELSE Cmd([ip |-> parts[3][1], port |-> parts[4][1],
                  tickers_list |-> TickerNames(parts[5])])

\* TcpMessage::to_string
TcpToString(m) ==
    CASE m.type = "Ack" -> <<"ACK">>
      [] m.type = "Cmd" -> <<"CMD", "|">> \o Display(m.cmd)
      [] m.type = "Err" -> <<"ERR", "|">> \o m.text

\* TcpMessage::from_string
TcpFromString(s) ==
    LET parts == SplitOnce(s, "|")
        bare == Len(parts) = 1
    IN  CASE parts[1] = <<"ACK">> -> Ack
          [] parts[1] = <<"CMD">> /\ ~bare -> FromStr(parts[2])
          [] parts[1] = <<"ERR">> /\ ~bare -> Err(parts[2])
          [] parts[1] \in {<<"CMD">>, <<"ERR">>} /\ bare ->
                ParseErr("NotEnoughArguments")
          [] OTHER -> ParseErr("UnknownCommand")
=============================================================================
