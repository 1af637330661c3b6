----------------------------- MODULE MCExchange -----------------------------
EXTENDS Exchange

File(lines) == [kind |-> "file", lines |-> lines]
Arg(text) == [kind |-> "arg", arg |-> text]
Raw(n, text) == [kind |-> "raw", bytes |-> ToBeBytes(n) \o text]
RawText(text) == Raw(Len(text), text)

MCConfigured == {<<"A">>, <<"B">>}

Request(cmd, proto, ip, port) ==
    <<"CMD", "|", cmd, "|", proto, "|", ip, "|", port, "|", "A">>

\* Files and arguments of the client: one and two names, twice the same name,
\* unknown names, blanks (only the lines of a file are trimmed), no name.
ClientInputs ==
    {File(<< <<"A", " ">>, <<" ">>, <<" ", "B">> >>),
     File(<< <<>>, <<" ">> >>), File(<< <<"X">> >>),
     Arg(<<"A", ",", "A">>), Arg(<<"A", ",", " ", "B">>), Arg(<<"A", ",">>)}

\* Other peers: too long, cut short, not UTF-8, no command, parts missing or
\* wrong, words in lower case, a separator too many.
RawInputs ==
    {Raw(256, <<"ACK">>), Raw(4, <<"ACK">>), RawText(<<>>),
     RawText(<<"not UTF-8">>), RawText(<<"ACK">>), RawText(<<"ERR", "|", "x">>),
     RawText(<<"CMD">>), RawText(<<"PING", "|", "A">>),
     RawText(<<"CMD", "|", "STREAM", "|", "UDP">>),
     RawText(Request("stream", "udp", "127.0.0.1", "8091")),
     RawText(Request("STOP", "UDP", "127.0.0.1", "8091")),
     RawText(Request("STREAM", "TCP", "127.0.0.1", "8091")),
     RawText(Request("STREAM", "UDP", "localhost", "8091")),
     RawText(Request("STREAM", "UDP", "127.0.0.1", "70000"))}

\* Names that hold a separator of the command's text.
SeparatorInputs == {File(<< <<"A", ",", "B">> >>), Arg(<<"A", "|", "B">>)}

MCInputs == ClientInputs \cup RawInputs \cup SeparatorInputs
=============================================================================
