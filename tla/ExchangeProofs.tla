--------------------------- MODULE ExchangeProofs ---------------------------
(***************************************************************************)
(* What a side reads is what the other has sent, for every text, every way *)
(* to cut the stream into pieces and every moment at which it breaks.      *)
(*                                                                         *)
(* Seen from the reader, a connection is one stream: the units it has      *)
(* taken, those on the wire and those yet to be written continue one       *)
(* another.  The invariant says so for both directions, and that nothing   *)
(* is sent to the client before the handler has decided.                   *)
(***************************************************************************)
EXTENDS Exchange, TextProofs

-----------------------------------------------------------------------------
(***************************************************************************)
(* The text of a command.                                                  *)
(***************************************************************************)

\* A text is a sequence.
LEMMA TextIsSeq ==
  ASSUME NEW t, IsText(t), NEW U, \A k \in Nat : t[k] \in U
  PROVE  t \in Seq(U) /\ Len(t) \in Nat /\ DOMAIN t = 1 .. Len(t)
<1>1. Len(t) \in Nat /\ t = [k \in 1 .. Len(t) |-> t[k]]
  BY DEF IsText
<1>2. t \in [1 .. Len(t) -> U] /\ DOMAIN t = 1 .. Len(t)
  BY <1>1
<1> QED
  BY <1>1, <1>2

\* The names of the client are texts.
LEMMA TickersType ==
  ASSUME NEW i \in Inputs, i.kind # "raw"
  PROVE  \E U : ClientTickers(i) \in Seq(Seq(U))
<1>1. CASE i.kind = "file"
  <2>1. PICK L : L = i.lines
    OBVIOUS
  <2>2. IsText(L) /\ \A k \in DOMAIN L : IsText(L[k])
    BY <1>1, <2>1, InputsAssumption
  <2> DEFINE U == UNION {{L[k][j] : j \in Nat} : k \in Nat}
             names == [k \in DOMAIN L |-> Trim(L[k])]
  <2>3. DOMAIN L = 1 .. Len(L) /\ Len(L) \in Nat
    BY <2>2 DEF IsText
  <2>4. ASSUME NEW k \in DOMAIN L PROVE Trim(L[k]) \in Seq(U)
    <3>1. \A j \in Nat : L[k][j] \in U
      BY <2>3
    <3> HIDE DEF U
    <3>2. L[k] \in Seq(U)
      BY <2>2, <3>1, TextIsSeq
    <3> QED
      BY <3>2, TrimType
  <2> HIDE DEF U
  <2>5. names \in [1 .. Len(L) -> Seq(U)]
    BY <2>3, <2>4
  <2>6. names \in Seq(Seq(U))
    BY <2>3, <2>5, FunctionIsSeq
  <2>7. ClientTickers(i) = NonEmpty(names)
    BY <1>1, <2>1 DEF ClientTickers
  <2> HIDE DEF names
  <2> QED
    BY <2>6, <2>7, NonEmptyType, Zenon
<1>2. CASE i.kind # "file"
  <2>1. PICK a : a = i.arg
    OBVIOUS
  <2>2. IsText(a)
    BY <1>2, <2>1, InputsAssumption
  <2> DEFINE U == {a[j] : j \in Nat}
  <2>3. \A j \in Nat : a[j] \in U
    OBVIOUS
  <2> HIDE DEF U
  <2>4. a \in Seq(U)
    BY <2>2, <2>3, TextIsSeq
  <2>5. Split(a, ",") \in Seq(Seq(U))
    BY <2>4, SplitPieces
  <2>6. ClientTickers(i) = Split(a, ",")
    BY <1>2, <2>1 DEF ClientTickers
  <2> QED
    BY <2>5, <2>6, Zenon
<1> QED
  BY <1>1, <1>2

\* Messages of different kinds are different.
LEMMA Kinds ==
  /\ Ack.type = "Ack" /\ \A e : Err(e).type = "Err" /\ \A c : Cmd(c).type = "Cmd"
  /\ \A v : ParseErr(v).type = "ParseErr" /\ \A c : Cmd(c).cmd = c
BY DEF Ack, Err, Cmd, ParseErr

\* Five texts.
LEMMA FiveTexts ==
  ASSUME NEW U, NEW a \in U, NEW b \in U, NEW c \in U, NEW d \in U, NEW j \in Seq(U)
  PROVE  LET p == << <<a>>, <<b>>, <<c>>, <<d>>, j >>
         IN  /\ p \in Seq(Seq(U)) /\ Len(p) = 5
             /\ p[1] = <<a>> /\ p[2] = <<b>> /\ p[3] = <<c>> /\ p[4] = <<d>> /\ p[5] = j
<1>1. <<a>> \in Seq(U) /\ <<b>> \in Seq(U) /\ <<c>> \in Seq(U) /\ <<d>> \in Seq(U)
  OBVIOUS
<1>2. PICK S, t, u, v, w : /\ S = Seq(U)
                           /\ t = <<a>> /\ u = <<b>> /\ v = <<c>> /\ w = <<d>>
  OBVIOUS
<1>3. t \in S /\ u \in S /\ v \in S /\ w \in S /\ j \in S
  BY <1>1, <1>2
<1>4. PICK p : p = <<t, u, v, w, j>>
  OBVIOUS
<1>5. /\ p \in Seq(S) /\ Len(p) = 5
      /\ p[1] = t /\ p[2] = u /\ p[3] = v /\ p[4] = w /\ p[5] = j
  BY <1>3, <1>4
<1> QED
  BY <1>2, <1>4, <1>5

\* The fields of a command.
Fields(ip, port, list) ==
  << <<"STREAM">>, <<"UDP">>, <<ip>>, <<port>>, Join(list, ",") >>

\* They are texts.
LEMMA FieldsType ==
  ASSUME NEW U, "STREAM" \in U, "UDP" \in U, "," \in U, NEW ip \in U, NEW port \in U,
         NEW list \in Seq(Seq(U)), NEW p, p = Fields(ip, port, list)
  PROVE  /\ p \in Seq(Seq(U)) /\ Len(p) = 5
         /\ p[1] = <<"STREAM">> /\ p[2] = <<"UDP">> /\ p[3] = <<ip>>
         /\ p[4] = <<port>> /\ p[5] = Join(list, ",")
<1>1. Join(list, ",") \in Seq(U)
  BY JoinType, Zenon
<1> QED
  BY <1>1, FiveTexts, Zenon DEF Fields

\* The text of a command.
LEMMA CommandText ==
  ASSUME NEW ip, NEW port, NEW list
  PROVE  TcpToString(Cmd([ip |-> ip, port |-> port, tickers_list |-> list]))
           = <<"CMD", "|">> \o Join(Fields(ip, port, list), "|")
<1>1. PICK c : c = [ip |-> ip, port |-> port, tickers_list |-> list]
  OBVIOUS
<1>2. c.ip = ip /\ c.port = port /\ c.tickers_list = list
  BY <1>1
<1>3. Cmd(c).type = "Cmd" /\ Cmd(c).cmd = c
  BY Kinds
<1>4. TcpToString(Cmd(c)) = <<"CMD", "|">> \o Display(c)
  BY <1>3, Zenon DEF TcpToString
<1>5. Display(c) = Join(Fields(ip, port, list), "|")
  BY <1>2, Zenon DEF Display, Fields
<1> QED
  BY <1>1, <1>4, <1>5

\* It is a text, whatever the names.
LEMMA CommandIsText ==
  ASSUME NEW U, NEW list \in Seq(Seq(U)), NEW ip, NEW port
  PROVE  IsText(TcpToString(Cmd([ip |-> ip, port |-> port, tickers_list |-> list])))
<1> DEFINE V == U \cup {"STREAM", "UDP", ",", "|", "CMD", ip, port}
<1>1. /\ "STREAM" \in V /\ "UDP" \in V /\ "," \in V /\ "|" \in V /\ "CMD" \in V
      /\ ip \in V /\ port \in V /\ U \subseteq V
  OBVIOUS
<1> HIDE DEF V
<1>2. list \in Seq(Seq(V))
  BY <1>1, TextsInto, Zenon
<1> DEFINE p == Fields(ip, port, list)
           j == Join(p, "|")
           h == <<"CMD", "|">>
           t == h \o j
<1>3. p \in Seq(Seq(V))
  BY <1>1, <1>2, FieldsType
<1>4. j \in Seq(V)
  <2> HIDE DEF p
  <2> QED
    BY <1>1, <1>3, JoinType, Zenon
<1>5. h \in Seq(V)
  BY <1>1, TwoUnits, Zenon
<1>6. t \in Seq(V)
  <2> HIDE DEF j, h
  <2> QED
    BY <1>4, <1>5, ConcatProperties
<1>7. Len(t) \in Nat /\ t = [k \in 1 .. Len(t) |-> t[k]]
  <2> HIDE DEF t
  <2> QED
    BY <1>6
<1>8. TcpToString(Cmd([ip |-> ip, port |-> port, tickers_list |-> list])) = t
  BY CommandText, Zenon
<1> HIDE DEF t
<1> QED
  BY <1>7, <1>8, Zenon DEF IsText

-----------------------------------------------------------------------------
(***************************************************************************)
(* Streams and lengths.                                                    *)
(***************************************************************************)

ClientText(i) == TcpToString(Command(i))

\* All that travels: lengths, the words of responses, what peers send.
Bytes == 0 .. 255
Words == {"ACK", "ERR", "|", "Unexpected message type", "Ticker does not exist"}
InputUnits(i) == {i.bytes[k] : k \in Nat} \cup {ClientText(i)[k] : k \in Nat}
Units == Bytes \cup Words \cup UNION {InputUnits(i) : i \in Inputs}

\* What a side sends on a connection, as one stream.
Frame(text) == ToBeBytes(Len(text)) \o text
Stream(i) == IF i.kind = "raw" THEN i.bytes ELSE Frame(ClientText(i))

\* A stream begins with a length of four bytes.
IsStream(F) == \A k \in 1 .. 4 : k <= Len(F) => F[k] \in Bytes

\* The announced text.
Announced(F) == SubSeq(F, 5, 4 + FromBeBytes(F))

\* The units.
LEMMA UnitsAre ==
  /\ \A b \in Bytes : b \in Units
  /\ \A w \in Words : w \in Units
  /\ \A i \in Inputs : \A k \in Nat : i.bytes[k] \in Units /\ ClientText(i)[k] \in Units
<1>1. \A b \in Bytes : b \in Units
  BY Zenon DEF Units
<1>2. \A w \in Words : w \in Units
  BY Zenon DEF Units
<1>3. ASSUME NEW i \in Inputs, NEW k \in Nat
      PROVE  i.bytes[k] \in Units /\ ClientText(i)[k] \in Units
  <2>1. i.bytes[k] \in InputUnits(i) /\ ClientText(i)[k] \in InputUnits(i)
    BY DEF InputUnits
  <2> QED
    BY <2>1 DEF Units
<1> QED
  BY <1>1, <1>2, <1>3, Zenon

\* from_be_bytes undoes to_be_bytes for every u32.
LEMMA BeBytes ==
  ASSUME NEW n \in Nat, FitsU32(n)
  PROVE  /\ \A U : Bytes \subseteq U => ToBeBytes(n) \in Seq(U)
         /\ Len(ToBeBytes(n)) = 4 /\ \A k \in 1 .. 4 : ToBeBytes(n)[k] \in Bytes
         /\ FromBeBytes(ToBeBytes(n)) = n
<1>1. /\ ToBeBytes(n)[1] = (n \div 2^24) % 256 /\ ToBeBytes(n)[2] = (n \div 2^16) % 256
      /\ ToBeBytes(n)[3] = (n \div 2^8) % 256 /\ ToBeBytes(n)[4] = n % 256
  BY SMT DEF ToBeBytes
<1>2. 2^24 = 16777216 /\ 2^16 = 65536 /\ 2^8 = 256
  BY SMT
<1>3. n \div 16777216 < 256
  BY <1>2, SMT DEF FitsU32
<1>4. ((n \div 16777216) % 256) * 16777216 + ((n \div 65536) % 256) * 65536
        + ((n \div 256) % 256) * 256 + (n % 256) = n
  BY <1>3, SMT
<1>5. FromBeBytes(ToBeBytes(n)) = n
  BY <1>1, <1>2, <1>4, SMT DEF FromBeBytes
<1>6. /\ (n \div 2^24) % 256 \in Bytes /\ (n \div 2^16) % 256 \in Bytes
      /\ (n \div 2^8) % 256 \in Bytes /\ n % 256 \in Bytes
  BY <1>2, SMT DEF Bytes
<1>7. \A U : Bytes \subseteq U => ToBeBytes(n) \in Seq(U)
  BY <1>6, SMT DEF ToBeBytes
<1>8. Len(ToBeBytes(n)) = 4
  BY SMT DEF ToBeBytes
<1>9. \A k \in 1 .. 4 : ToBeBytes(n)[k] \in Bytes
  BY <1>1, <1>6, SMT
<1> QED
  BY <1>5, <1>7, <1>8, <1>9

\* A length is a number.
LEMMA FromBytesType ==
  ASSUME NEW b, \A k \in 1 .. 4 : b[k] \in Bytes
  PROVE  FromBeBytes(b) \in Nat
<1>1. 2^24 \in Nat /\ 2^16 \in Nat /\ 2^8 \in Nat
  BY SMT
<1>2. b[1] \in Nat /\ b[2] \in Nat /\ b[3] \in Nat /\ b[4] \in Nat
  BY SMT DEF Bytes
<1>3. b[1] * 2^24 \in Nat /\ b[2] * 2^16 \in Nat /\ b[3] * 2^8 \in Nat
  BY <1>1, <1>2, SMT
<1> QED
  BY <1>2, <1>3, SMT DEF FromBeBytes

\* A text that is framed is announced.
LEMMA FrameType ==
  ASSUME NEW U, Bytes \subseteq U, NEW text \in Seq(U), FitsU32(Len(text))
  PROVE  /\ Frame(text) \in Seq(U) /\ IsStream(Frame(text))
         /\ Len(Frame(text)) = 4 + Len(text)
         /\ FromBeBytes(Frame(text)) = Len(text) /\ Announced(Frame(text)) = text
         /\ \A k \in 1 .. 4 : Frame(text)[k] = ToBeBytes(Len(text))[k]
         /\ \A k \in 1 .. Len(text) : Frame(text)[4 + k] = text[k]
<1>1. Len(text) \in Nat
  OBVIOUS
<1>2. PICK b : b = ToBeBytes(Len(text))
  OBVIOUS
<1>3. /\ b \in Seq(U) /\ Len(b) = 4 /\ \A k \in 1 .. 4 : b[k] \in Bytes
      /\ FromBeBytes(b) = Len(text)
  BY <1>1, <1>2, BeBytes
<1>4. PICK F : F = Frame(text) /\ F = b \o text
  BY <1>2 DEF Frame
<1>5. /\ F \in Seq(U) /\ Len(F) = 4 + Len(text)
      /\ \A k \in 1 .. 4 : F[k] = b[k]
      /\ \A k \in 1 .. Len(text) : F[4 + k] = text[k]
  <2>1. b \in Seq(U) /\ Len(b) = 4 /\ F = b \o text
    BY <1>3, <1>4
  <2>2. /\ F \in Seq(U) /\ Len(F) = Len(b) + Len(text)
        /\ \A k \in 1 .. (Len(b) + Len(text)) :
             F[k] = IF k <= Len(b) THEN b[k] ELSE text[k - Len(b)]
    BY <2>1, ConcatProperties
  <2> QED
    BY <1>1, <2>1, <2>2
<1>6. IsStream(F)
  BY <1>3, <1>5 DEF IsStream
<1>7. FromBeBytes(F) = Len(text)
  <2>1. F[1] = b[1] /\ F[2] = b[2] /\ F[3] = b[3] /\ F[4] = b[4]
    BY <1>5
  <2> QED
    BY <1>3, <2>1 DEF FromBeBytes
<1>8. SubSeq(F, 5, 4 + Len(text)) = text
  <2>1. /\ SubSeq(F, 5, 4 + Len(text)) \in Seq(U)
        /\ Len(SubSeq(F, 5, 4 + Len(text))) = Len(text)
        /\ \A k \in 1 .. Len(text) : SubSeq(F, 5, 4 + Len(text))[k] = text[k]
    BY <1>1, <1>5
  <2> QED
    BY <2>1, SeqEqual
<1> QED
  BY <1>2, <1>4, <1>5, <1>6, <1>7, <1>8 DEF Announced

\* What the peers send are streams.
LEMMA StreamType ==
  ASSUME NEW i \in Inputs
  PROVE  /\ Stream(i) \in Seq(Units) /\ IsStream(Stream(i))
         /\ i.kind # "raw" =>
              /\ ClientText(i) \in Seq(Units) /\ FitsU32(Len(ClientText(i)))
              /\ Announced(Stream(i)) = ClientText(i)
<1>1. CASE i.kind = "raw"
  <2>1. /\ IsText(i.bytes)
        /\ \A k \in DOMAIN i.bytes : k <= 4 => i.bytes[k] \in 0 .. 255
    BY <1>1, InputsAssumption
  <2>2. i.bytes \in Seq(Units) /\ Len(i.bytes) \in Nat /\ DOMAIN i.bytes = 1 .. Len(i.bytes)
    BY <2>1, TextIsSeq, UnitsAre
  <2>3. ASSUME NEW k \in 1 .. 4, k <= Len(i.bytes) PROVE i.bytes[k] \in Bytes
    <3>1. k \in DOMAIN i.bytes /\ k <= 4
      BY <2>2, <2>3
    <3> QED
      BY <2>1, <3>1, Zenon DEF Bytes
  <2> QED
    BY <1>1, <2>2, <2>3, Zenon DEF IsStream, Stream
<1>2. CASE i.kind # "raw"
  <2>0. PICK U : ClientTickers(i) \in Seq(Seq(U))
    BY <1>2, TickersType
  <2>1. IsText(ClientText(i)) /\ FitsU32(Len(ClientText(i)))
    <3>1. IsText(ClientText(i))
      BY <2>0, CommandIsText, Zenon DEF ClientText, Command
    <3>2. FitsU32(Len(ClientText(i)))
      BY <1>2, InputsAssumption DEF ClientText
    <3> QED
      BY <3>1, <3>2
  <2>2. ClientText(i) \in Seq(Units)
    BY <2>1, TextIsSeq, UnitsAre
  <2>3. Bytes \subseteq Units
    BY UnitsAre
  <2>4. /\ Frame(ClientText(i)) \in Seq(Units) /\ IsStream(Frame(ClientText(i)))
        /\ Announced(Frame(ClientText(i))) = ClientText(i)
    BY <2>1, <2>2, <2>3, FrameType
  <2> QED
    BY <1>2, <2>1, <2>2, <2>4, Zenon DEF Stream
<1> QED
  BY <1>1, <1>2

-----------------------------------------------------------------------------
(***************************************************************************)
(* Messages: what is written is read, the names of a command are pieces of *)
(* its text, and those without separators come back as they were.          *)
(***************************************************************************)

\* Ack, written and read.
LEMMA AckRoundTrip == TcpToString(Ack) = <<"ACK">> /\ TcpFromString(<<"ACK">>) = Ack
<1>1. Ack.type = "Ack"
  BY DEF Ack
<1>2. TcpToString(Ack) = <<"ACK">>
  BY <1>1, Zenon DEF TcpToString
<1> DEFINE s == <<"ACK">>
           parts == SplitOnce(s, "|")
<1>3. Split(s, "|")[1] = <<"ACK">> /\ Len(Split(s, "|")) = 1
  <2>0. s \in Seq({"ACK"}) /\ Len(s) = 1 /\ s[1] = "ACK"
    OBVIOUS
  <2> HIDE DEF s
  <2>1. /\ 2 \in 1 .. (Len(s) + 1) /\ 2 = Len(s) + 1
        /\ \A i \in 1 .. (2 - 1) : s[i] # "|"
        /\ SubSeq(s, 1, 2 - 1) = <<"ACK">>
    BY <2>0, OneUnit
  <2>2. Split(s, "|")[1] = SubSeq(s, 1, 2 - 1) /\ (Len(Split(s, "|")) = 1 <=> 2 = Len(s) + 1)
    BY <2>0, <2>1, FirstPiece
  <2> QED
    BY <2>1, <2>2
<1>4. parts[1] = <<"ACK">>
  BY <1>3 DEF SplitOnce
<1>5. TcpFromString(s) = Ack
  <2>1. <<"ACK">> # <<"CMD">> /\ <<"ACK">> # <<"ERR">>
    OBVIOUS
  <2> HIDE DEF s
  <2> QED
    BY <1>4, <2>1, Zenon DEF TcpFromString
<1> QED
  BY <1>2, <1>5

\* An error, written and read: separators in its text stay.
LEMMA ErrRoundTrip ==
  ASSUME NEW U, NEW e \in Seq(U)
  PROVE  /\ TcpToString(Err(e)) = <<"ERR", "|">> \o e
         /\ TcpFromString(<<"ERR", "|">> \o e) = Err(e)
<1>1. Err(e).type = "Err" /\ Err(e).text = e
  BY DEF Err
<1>2. TcpToString(Err(e)) = <<"ERR", "|">> \o e
  BY <1>1, Zenon DEF TcpToString
<1> DEFINE s == <<"ERR", "|">> \o e
           parts == SplitOnce(s, "|")
<1>3. "ERR" # "|"
  OBVIOUS
<1>6. parts[1] = <<"ERR">> /\ parts[2] = e /\ Len(parts) # 1
  BY <1>3, SplitWord, Zenon
<1>7. TcpFromString(s) = Err(e)
  <2>1. <<"ERR">> # <<"CMD">> /\ <<"ERR">> # <<"ACK">>
    OBVIOUS
  <2> HIDE DEF s
  <2> QED
    BY <1>6, <2>1, Zenon DEF TcpFromString
<1> QED
  BY <1>2, <1>7

\* A command that parses has its five fields.
LEMMA ParsedFields ==
  ASSUME NEW x, FromStr(x).type # "ParseErr"
  PROVE  LET p == Split(x, "|")
         IN  /\ ~(Len(p) < 5)
             /\ FromStr(x) = Cmd([ip |-> p[3][1], port |-> p[4][1],
                                  tickers_list |-> TickerNames(p[5])])
<1> DEFINE p == Split(x, "|")
           one(field, words) == \E w \in words : p[field] = <<w>>
<1>1. \A v : ParseErr(v).type = "ParseErr"
  BY Kinds
<1>2. PICK c : c = Cmd([ip |-> p[3][1], port |-> p[4][1], tickers_list |-> TickerNames(p[5])])
  OBVIOUS
<1>3. FromStr(x) = IF Len(p) < 5 THEN ParseErr("NotEnoughArguments")
                   ELSE IF ~one(1, {"STREAM", "stream"}) \/ ~one(2, {"UDP", "udp"})
                   THEN ParseErr("VariantNotFound")
                   ELSE IF ~one(3, Ips) THEN ParseErr("InvalidIpAddress")
                   ELSE IF ~one(4, Ports) THEN ParseErr("InvalidPort")
                   ELSE c
  BY <1>2, Zenon DEF FromStr
<1> HIDE DEF p, one
<1>4. ~(Len(p) < 5) /\ FromStr(x) = c
  BY <1>1, <1>3, Zenon
<1> QED
  BY <1>2, <1>4, Zenon DEF p

\* The names that a command asks for are texts no longer than its own.
LEMMA ParsedNames ==
  ASSUME NEW U, NEW s \in Seq(U), TcpFromString(s).type = "Cmd"
  PROVE  LET list == TcpFromString(s).cmd.tickers_list
         IN  /\ list \in Seq(Seq(U))
             /\ \A k \in DOMAIN list : Len(list[k]) <= Len(s)
<1> DEFINE parts == SplitOnce(s, "|")
<1>1. Len(parts) # 1 /\ TcpFromString(s) = FromStr(parts[2])
  <2>1. CASE Len(parts) = 1
    <3>1. TcpFromString(s) \in {Ack, ParseErr("NotEnoughArguments"),
                                ParseErr("UnknownCommand")}
      BY <2>1, Zenon DEF TcpFromString
    <3> QED
      BY <3>1, Kinds
  <2>2. CASE Len(parts) # 1
    <3>1. TcpFromString(s) \in {Ack, FromStr(parts[2]), Err(parts[2]),
                                ParseErr("NotEnoughArguments"),
                                ParseErr("UnknownCommand")}
      BY <2>2, Zenon DEF TcpFromString
    <3> HIDE DEF parts
    <3> QED
      BY <2>2, <3>1, Kinds
  <2> QED
    BY <2>1, <2>2
<1>2. parts[2] \in Seq(U) /\ Len(parts[2]) <= Len(s) /\ Len(s) \in Nat
  BY <1>1, SplitOnceType
<1> DEFINE fields == Split(parts[2], "|")
<1> HIDE DEF parts
<1>3. /\ fields \in Seq(Seq(U))
      /\ \A k \in 1 .. Len(fields) : Len(fields[k]) <= Len(parts[2])
  BY <1>2, SplitPieces
<1>4. /\ Len(fields) >= 5
      /\ FromStr(parts[2]) = Cmd([ip |-> fields[3][1], port |-> fields[4][1],
                                  tickers_list |-> TickerNames(fields[5])])
  <2>1. PICK x : x = parts[2] /\ FromStr(x).type # "ParseErr"
    BY <1>1
  <2>2. ~(Len(fields) < 5)
    BY <2>1, ParsedFields, Zenon
  <2>3. FromStr(x) = Cmd([ip |-> fields[3][1], port |-> fields[4][1],
                          tickers_list |-> TickerNames(fields[5])])
    BY <2>1, ParsedFields, Zenon
  <2> HIDE DEF fields
  <2>4. Len(fields) \in Nat
    BY <1>3
  <2>5. Len(fields) >= 5
    BY <2>2, <2>4
  <2> QED
    BY <2>1, <2>3, <2>5
<1> DEFINE list == Split(fields[5], ",")
<1>5. TcpFromString(s).cmd.tickers_list = list
  <2> HIDE DEF fields
  <2>1. TcpFromString(s).cmd = [ip |-> fields[3][1], port |-> fields[4][1],
                                tickers_list |-> TickerNames(fields[5])]
    BY <1>1, <1>4, Kinds
  <2>2. TickerNames(fields[5]) = list
    BY DEF TickerNames
  <2> HIDE DEF list
  <2> QED
    BY <2>1, <2>2
<1> HIDE DEF fields
<1>6. fields[5] \in Seq(U) /\ Len(fields[5]) <= Len(parts[2])
  BY <1>3, <1>4
<1>7. list \in Seq(Seq(U)) /\ \A k \in 1 .. Len(list) : Len(list[k]) <= Len(fields[5])
  BY <1>6, SplitPieces
<1>8. ASSUME NEW k \in DOMAIN list PROVE Len(list[k]) <= Len(s)
  <2> HIDE DEF list
  <2>1. k \in 1 .. Len(list) /\ list[k] \in Seq(U)
    BY <1>7
  <2>2. Len(list[k]) \in Nat /\ Len(fields[5]) \in Nat /\ Len(parts[2]) \in Nat
    BY <1>2, <1>6, <2>1
  <2> QED
    BY <1>2, <1>6, <1>7, <2>1, <2>2
<1> HIDE DEF list
<1> QED
  BY <1>5, <1>7, <1>8

\* The list that comes back: an empty one has become one empty name.
Returned(list) == IF list = <<>> THEN << <<>> >> ELSE list

\* Names without separators come back as they were joined.
LEMMA NamesReturn ==
  ASSUME NEW U, NEW list \in Seq(Seq(U)), "," \in U, Plain(list)
  PROVE  TickerNames(Join(list, ",")) = Returned(list)
<1>1. CASE list = <<>>
  <2>1. Split(<<>>, ",") = << <<>> >>
    BY SplitNothing
  <2> QED
    BY <1>1, <2>1, JoinEmpty, Zenon DEF TickerNames, Returned
<1>2. CASE list # <<>>
  <2>1. ASSUME NEW k \in 1 .. Len(list), NEW j \in 1 .. Len(list[k])
        PROVE  list[k][j] # ","
    <3>1. list[k] \in Seq(U) /\ k \in DOMAIN list
      BY Element, Zenon
    <3>2. list[k][j] \in Range(list[k])
      BY <3>1, Element, Zenon
    <3>3. {"|", ","} \cap Range(list[k]) = {}
      BY <3>1, Zenon DEF Plain
    <3> QED
      BY <3>2, <3>3, Zenon
  <2>2. Split(Join(list, ","), ",") = list
    BY <1>2, <2>1, SplitJoin, Zenon
  <2> QED
    BY <1>2, <2>2, Zenon DEF TickerNames, Returned
<1> QED
  BY <1>1, <1>2

\* Five fields, the last one a list of its own, come back.
LEMMA FieldsReturn ==
  ASSUME NEW V, NEW a \in V, NEW b \in V, NEW c \in V, NEW d \in V,
         NEW comma \in V, NEW bar, bar \notin V, NEW list \in Seq(Seq(V)),
         NEW p, p = << <<a>>, <<b>>, <<c>>, <<d>>, Join(list, comma) >>
  PROVE  /\ Split(Join(p, bar), bar) = p /\ \E W : Join(p, bar) \in Seq(W)
         /\ Len(p) = 5 /\ p[1] = <<a>> /\ p[2] = <<b>> /\ p[3] = <<c>>
         /\ p[4] = <<d>> /\ p[5] = Join(list, comma)
<1>1. Join(list, comma) \in Seq(V)
  BY JoinType
<1>2. /\ p \in Seq(Seq(V)) /\ Len(p) = 5
      /\ p[1] = <<a>> /\ p[2] = <<b>> /\ p[3] = <<c>>
      /\ p[4] = <<d>> /\ p[5] = Join(list, comma)
  BY <1>1, FiveTexts
<1>3. p # <<>>
  <2>1. Len(p) = 5 /\ Len(<<>>) = 0
    BY <1>2
  <2> QED
    BY <2>1
<1>4. Split(Join(p, bar), bar) = p /\ \E W : Join(p, bar) \in Seq(W)
  BY <1>2, <1>3, SplitJoinApart
<1> QED
  BY <1>2, <1>4, Zenon

\* What stands behind the first separator is read as a command.
LEMMA CommandBody ==
  ASSUME NEW x, \E W : x \in Seq(W)
  PROVE  TcpFromString(<<"CMD", "|">> \o x) = FromStr(x)
<1>1. PICK s : s = <<"CMD", "|">> \o x
  OBVIOUS
<1> DEFINE parts == SplitOnce(s, "|")
<1>2. parts[1] = <<"CMD">> /\ parts[2] = x /\ Len(parts) # 1
  <2>1. PICK cmd, bar : cmd = "CMD" /\ bar = "|"
    OBVIOUS
  <2>2. cmd # bar
    BY <2>1
  <2>3. PICK W : x \in Seq(W)
    OBVIOUS
  <2>4. LET cut == SplitOnce(<<cmd, bar>> \o x, bar)
        IN  cut[1] = <<cmd>> /\ cut[2] = x /\ Len(cut) # 1
    BY <2>2, <2>3, SplitWord, Zenon
  <2> QED
    BY <1>1, <2>1, <2>4, Zenon
<1>3. <<"CMD">> # <<"ACK">> /\ <<"CMD">> # <<"ERR">>
  OBVIOUS
<1>4. TcpFromString(s) = FromStr(x)
  BY <1>2, <1>3, Zenon DEF TcpFromString
<1> QED
  BY <1>1, <1>4

\* A command, written by TcpMessage::to_string and read by from_string.  Its
\* names come back, all of them, in their order and as they were, when no name
\* holds a separator.
THEOREM CommandRoundTrip ==
  ASSUME NEW U, NEW list \in Seq(Seq(U)), Plain(list),
         NEW ip \in Ips, NEW port \in Ports
  PROVE  TcpFromString(TcpToString(Cmd([ip |-> ip, port |-> port, tickers_list |-> list])))
           = Cmd([ip |-> ip, port |-> port, tickers_list |-> Returned(list)])
<1> DEFINE V == (U \ {"|"}) \cup {"STREAM", "UDP", ",", ip, port}
<1>1. /\ "STREAM" \in V /\ "UDP" \in V /\ "," \in V /\ ip \in V /\ port \in V
      /\ "|" \notin V /\ U \ {"|"} \subseteq V
  BY ExchangeAssumption
<1> HIDE DEF V
<1>2. list \in Seq(Seq(V))
  <2>1. ASSUME NEW k \in 1 .. Len(list) PROVE list[k] \in Seq(V)
    <3>1. list[k] \in Seq(U) /\ k \in DOMAIN list
      BY Element, Zenon
    <3>2. {"|", ","} \cap Range(list[k]) = {}
      BY <3>1, Zenon DEF Plain
    <3>3. ASSUME NEW j \in 1 .. Len(list[k]) PROVE list[k][j] \in V
      <4>1. list[k][j] \in Range(list[k]) /\ list[k][j] \in U
        BY <3>1, Element, Zenon
      <4>2. list[k][j] # "|"
        BY <3>2, <4>1, Zenon
      <4> QED
        BY <1>1, <4>1, <4>2, Zenon
    <3> QED
      BY <3>1, <3>3, SeqInto, Zenon
  <2> QED
    BY <2>1, SeqInto, Zenon
<1>3. PICK p : p = Fields(ip, port, list)
  OBVIOUS
<1> DEFINE x == Join(p, "|")
<1>4. /\ Split(x, "|") = p /\ \E W : x \in Seq(W)
      /\ Len(p) = 5 /\ p[1] = <<"STREAM">> /\ p[2] = <<"UDP">> /\ p[3] = <<ip>>
      /\ p[4] = <<port>> /\ p[5] = Join(list, ",")
  <2>1. PICK a, b, comma, bar : a = "STREAM" /\ b = "UDP" /\ comma = "," /\ bar = "|"
    OBVIOUS
  <2>2. /\ a \in V /\ b \in V /\ comma \in V /\ bar \notin V /\ ip \in V /\ port \in V
        /\ list \in Seq(Seq(V))
    BY <1>1, <1>2, <2>1, Zenon
  <2>3. p = << <<a>>, <<b>>, <<ip>>, <<port>>, Join(list, comma) >>
    BY <1>3, <2>1, Zenon DEF Fields
  <2>4. /\ Split(Join(p, bar), bar) = p /\ \E W : Join(p, bar) \in Seq(W)
        /\ Len(p) = 5 /\ p[1] = <<a>> /\ p[2] = <<b>> /\ p[3] = <<ip>>
        /\ p[4] = <<port>> /\ p[5] = Join(list, comma)
    BY <2>2, <2>3, FieldsReturn, SMTT(40)
  <2> QED
    BY <2>1, <2>4, Zenon
<1> HIDE DEF x
<1>7. TcpFromString(<<"CMD", "|">> \o x) = FromStr(x)
  BY <1>4, CommandBody
<1>8. FromStr(x) = Cmd([ip |-> p[3][1], port |-> p[4][1], tickers_list |-> TickerNames(p[5])])
  <2>1. /\ \E w \in {"STREAM", "stream"} : p[1] = <<w>>
        /\ \E w \in {"UDP", "udp"} : p[2] = <<w>>
        /\ \E w \in Ips : p[3] = <<w>>
        /\ \E w \in Ports : p[4] = <<w>>
        /\ ~(Len(p) < 5)
    <3>0. Len(p) = 5
      BY <1>4
    <3>1. ~(Len(p) < 5)
      BY <3>0
    <3> QED
      BY <1>4, <3>1, Zenon
  <2> QED
    BY <1>4, <2>1, Zenon DEF FromStr
<1>9. p[3][1] = ip /\ p[4][1] = port
  <2>1. \A w : <<w>>[1] = w
    OBVIOUS
  <2> QED
    BY <1>4, <2>1, Zenon
<1>10. TickerNames(p[5]) = Returned(list)
  BY <1>1, <1>2, <1>4, NamesReturn
<1>11. TcpToString(Cmd([ip |-> ip, port |-> port, tickers_list |-> list]))
         = <<"CMD", "|">> \o x
  BY <1>3, CommandText DEF x
<1> QED
  BY <1>7, <1>8, <1>9, <1>10, <1>11

\* The names that come back whatever separators they hold.
CutNames(list) == Split(Split(Join(list, ","), "|")[1], ",")

\* The fields of a command but the last hold no separator.
LEMMA FieldsFree ==
  ASSUME NEW ip \in Ips, NEW port \in Ports, NEW p,
         p[1] = <<"STREAM">>, p[2] = <<"UDP">>, p[3] = <<ip>>, p[4] = <<port>>
  PROVE  Free(p, "|", 4)
<1>1. ip # "|" /\ port # "|" /\ "STREAM" # "|" /\ "UDP" # "|"
  BY ExchangeAssumption
<1>2. ASSUME NEW a, a # "|", NEW j \in 1 .. Len(<<a>>) PROVE <<a>>[j] # "|"
  <2>1. Len(<<a>>) = 1 /\ <<a>>[1] = a
    OBVIOUS
  <2>2. j = 1
    BY <2>1
  <2> QED
    BY <1>2, <2>1, <2>2, Zenon
<1>3. \A k \in 1 .. 4 : k = 1 \/ k = 2 \/ k = 3 \/ k = 4
  OBVIOUS
<1>4. ASSUME NEW k \in 1 .. 4 PROVE \E a : a # "|" /\ p[k] = <<a>>
  BY <1>1, <1>3, Zenon
<1>5. ASSUME NEW k \in 1 .. 4, NEW j \in 1 .. Len(p[k]) PROVE p[k][j] # "|"
  <2>1. PICK a : a # "|" /\ p[k] = <<a>>
    BY <1>4
  <2> QED
    BY <1>2, <2>1, Zenon
<1> QED
  BY <1>5, Zenon DEF Free

\* A command that parses carries the client's address and the names up to the
\* first "|" among them, cut at every comma.
LEMMA CommandIsCut ==
  ASSUME NEW U, NEW list \in Seq(Seq(U)), NEW ip \in Ips, NEW port \in Ports, NEW m,
         m = TcpFromString(TcpToString(Cmd([ip |-> ip, port |-> port, tickers_list |-> list]))),
         m.type = "Cmd"
  PROVE  m.cmd.ip = ip /\ m.cmd.port = port /\ m.cmd.tickers_list = CutNames(list)
<1> DEFINE V == U \cup {"STREAM", "UDP", ",", "|", ip, port}
<1>1. /\ "STREAM" \in V /\ "UDP" \in V /\ "," \in V /\ "|" \in V
      /\ ip \in V /\ port \in V /\ U \subseteq V
  OBVIOUS
<1> HIDE DEF V
<1>2. list \in Seq(Seq(V))
  BY <1>1, TextsInto, Zenon
<1>3. PICK p : p = Fields(ip, port, list)
  OBVIOUS
<1>4. /\ p \in Seq(Seq(V)) /\ Len(p) = 5
      /\ p[1] = <<"STREAM">> /\ p[2] = <<"UDP">> /\ p[3] = <<ip>>
      /\ p[4] = <<port>> /\ p[5] = Join(list, ",")
  <2>1. "STREAM" \in V /\ "UDP" \in V /\ "," \in V /\ ip \in V /\ port \in V
    BY <1>1, Zenon
  <2>2. Join(list, ",") \in Seq(V)
    BY <1>2, <2>1, JoinType, Zenon
  <2>3. PICK a, b, j : a = "STREAM" /\ b = "UDP" /\ j = Join(list, ",")
    OBVIOUS
  <2>4. /\ a \in V /\ b \in V /\ j \in Seq(V)
        /\ p = << <<a>>, <<b>>, <<ip>>, <<port>>, j >>
    BY <1>3, <2>1, <2>2, <2>3, Zenon DEF Fields
  <2>5. /\ p \in Seq(Seq(V)) /\ Len(p) = 5
        /\ p[1] = <<a>> /\ p[2] = <<b>> /\ p[3] = <<ip>>
        /\ p[4] = <<port>> /\ p[5] = j
    BY <2>1, <2>4, FiveTexts, Zenon
  <2> QED
    BY <2>3, <2>5, Zenon
<1>5. Free(p, "|", 4)
  BY <1>4, FieldsFree, Zenon
<1> DEFINE x == Join(p, "|")
           parts == Split(x, "|")
<1>6. x \in Seq(V)
  BY <1>1, <1>4, JoinType, Zenon
<1>7. /\ \A k \in 1 .. 4 : parts[k] = p[k]
      /\ parts[5] = Split(p[5], "|")[1]
  BY <1>1, <1>4, <1>5, SplitFive, Zenon
<1>8. m = FromStr(x)
  <2>1. TcpToString(Cmd([ip |-> ip, port |-> port, tickers_list |-> list]))
          = <<"CMD", "|">> \o x
    BY <1>3, CommandText, Zenon
  <2> HIDE DEF x
  <2>2. TcpFromString(<<"CMD", "|">> \o x) = FromStr(x)
    BY <1>6, CommandBody
  <2> QED
    BY <2>1, <2>2, Zenon
<1> HIDE DEF x
<1>9. FromStr(x) = Cmd([ip |-> parts[3][1], port |-> parts[4][1],
                        tickers_list |-> TickerNames(parts[5])])
  <2>1. FromStr(x).type # "ParseErr"
    BY <1>8
  <2> QED
    BY <2>1, ParsedFields, Zenon
<1> HIDE DEF parts
<1>10. m.cmd = [ip |-> parts[3][1], port |-> parts[4][1],
                tickers_list |-> TickerNames(parts[5])]
  BY <1>8, <1>9, Kinds, Zenon
<1>11. parts[3][1] = ip /\ parts[4][1] = port
  <2>1. \A w : <<w>>[1] = w
    OBVIOUS
  <2>2. 3 \in 1 .. 4 /\ 4 \in 1 .. 4
    OBVIOUS
  <2> QED
    BY <1>4, <1>7, <2>1, <2>2, Zenon
<1>12. TickerNames(parts[5]) = CutNames(list)
  BY <1>4, <1>7, Zenon DEF TickerNames, CutNames
<1>13. PICK a, b, d : a = parts[3][1] /\ b = parts[4][1] /\ d = TickerNames(parts[5])
  OBVIOUS
<1>14. m.cmd = [ip |-> a, port |-> b, tickers_list |-> d]
  BY <1>10, <1>13, Zenon
<1>15. m.cmd.ip = a /\ m.cmd.port = b /\ m.cmd.tickers_list = d
  BY <1>14
<1> QED
  BY <1>11, <1>12, <1>13, <1>15, Zenon

-----------------------------------------------------------------------------
(***************************************************************************)
(* A reader and its stream.                                                *)
(***************************************************************************)

\* a is what the stream F holds behind its first n units.
Follows(a, F, n) == /\ n + Len(a) <= Len(F)
                    /\ \A k \in 1 .. Len(a) : a[k] = F[n + k]

\* The units that were read before the current buffer.
Base(r) == IF r.pc = "len" THEN 0 ELSE 4

\* What reader r has read is the beginning of F, and its message is the one
\* that F announces.
ReaderInv(r, F) ==
  /\ r.pc = "len" => r.msg_len = 4 /\ Follows(r.buf, F, 0)
  /\ r.pc = "data" => /\ r.msg_len = FromBeBytes(F) /\ r.msg_len <= MAX_MSG_LEN
                      /\ Follows(r.buf, F, 4)
  /\ r.pc = "done" =>
       \/ r.msg.type = "ParseErr"
       \/ /\ FromBeBytes(F) \in Nat /\ FromBeBytes(F) <= MAX_MSG_LEN
          /\ 4 + FromBeBytes(F) <= Len(F)
          /\ r.msg = TcpFromString(Announced(F))

\* The wire w and what is yet to be written, o, continue F behind n.
PendingInv(n, F, w, o) ==
  /\ Follows(w, F, n)
  /\ Len(o) >= 1 => Follows(o[1], F, n + Len(w))
  /\ Len(o) = 2 => Follows(o[2], F, n + Len(w) + Len(o[1]))

\* Two pieces one after the other.
LEMMA FollowsConcat ==
  ASSUME NEW U, NEW F \in Seq(U), NEW a \in Seq(U), NEW b \in Seq(U), NEW n \in Nat,
         Follows(a, F, n), Follows(b, F, n + Len(a))
  PROVE  Follows(a \o b, F, n)
<1>1. PICK c : c = a \o b
  OBVIOUS
<1>2. /\ Len(a) \in Nat /\ Len(b) \in Nat /\ Len(F) \in Nat
      /\ Len(c) = Len(a) + Len(b)
      /\ \A k \in 1 .. (Len(a) + Len(b)) :
           c[k] = IF k <= Len(a) THEN a[k] ELSE b[k - Len(a)]
  BY <1>1, ConcatProperties
<1>3. /\ n + Len(a) <= Len(F) /\ \A k \in 1 .. Len(a) : a[k] = F[n + k]
      /\ n + Len(a) + Len(b) <= Len(F)
      /\ \A k \in 1 .. Len(b) : b[k] = F[n + Len(a) + k]
  BY DEF Follows
<1>4. ASSUME NEW k \in 1 .. Len(c) PROVE c[k] = F[n + k]
  <2>1. CASE k <= Len(a)
    <3>1. k \in 1 .. Len(a) /\ c[k] = a[k]
      BY <1>2, <2>1
    <3> QED
      BY <1>3, <3>1
  <2>2. CASE k > Len(a)
    <3>1. k - Len(a) \in 1 .. Len(b) /\ c[k] = b[k - Len(a)]
          /\ n + Len(a) + (k - Len(a)) = n + k
      BY <1>2, <2>2
    <3> QED
      BY <1>3, <3>1
  <2> QED
    BY <1>2, <2>1, <2>2
<1>5. n + Len(c) <= Len(F)
  BY <1>2, <1>3
<1> QED
  BY <1>1, <1>4, <1>5 DEF Follows

\* A piece cut in two.
LEMMA FollowsCut ==
  ASSUME NEW U, NEW F \in Seq(U), NEW w \in Seq(U), NEW n \in Nat, NEW k \in 1 .. Len(w),
         Follows(w, F, n)
  PROVE  LET a == SubSeq(w, 1, k)
             b == SubSeq(w, k + 1, Len(w))
         IN  /\ a \in Seq(U) /\ b \in Seq(U) /\ Len(a) = k /\ Len(b) = Len(w) - k
             /\ Follows(a, F, n) /\ Follows(b, F, n + k)
<1>1. PICK a, b : a = SubSeq(w, 1, k) /\ b = SubSeq(w, k + 1, Len(w))
  OBVIOUS
<1>2. Len(w) \in Nat /\ Len(F) \in Nat /\ k \in Nat
  OBVIOUS
<1>3. /\ a \in Seq(U) /\ Len(a) = k /\ \A i \in 1 .. k : a[i] = w[i]
  BY <1>1, <1>2
<1>4. /\ b \in Seq(U) /\ Len(b) = Len(w) - k
      /\ \A i \in 1 .. (Len(w) - k) : b[i] = w[k + i]
  BY <1>1, <1>2
<1>5. n + Len(w) <= Len(F) /\ \A i \in 1 .. Len(w) : w[i] = F[n + i]
  BY DEF Follows
<1>6. Follows(a, F, n)
  <2>1. ASSUME NEW i \in 1 .. Len(a) PROVE a[i] = F[n + i]
    <3>1. i \in 1 .. k /\ i \in 1 .. Len(w)
      BY <1>2, <1>3
    <3> QED
      BY <1>3, <1>5, <3>1
  <2>2. n + Len(a) <= Len(F)
    BY <1>2, <1>3, <1>5
  <2> QED
    BY <2>1, <2>2 DEF Follows
<1>7. Follows(b, F, n + k)
  <2>1. ASSUME NEW i \in 1 .. Len(b) PROVE b[i] = F[n + k + i]
    <3>1. k + i \in 1 .. Len(w) /\ b[i] = w[k + i] /\ n + (k + i) = n + k + i
      BY <1>2, <1>4
    <3> QED
      BY <1>5, <3>1
  <2>2. n + k + Len(b) <= Len(F)
    BY <1>2, <1>4, <1>5
  <2> QED
    BY <2>1, <2>2 DEF Follows
<1> QED
  BY <1>1, <1>3, <1>4, <1>6, <1>7

\* read_exact takes k units from the wire.
Got(buf, w, k) == buf \o SubSeq(w, 1, k)
Rest(w, k) == SubSeq(w, k + 1, Len(w))

\* The buffer grows by what was taken.
LEMMA GotLen ==
  ASSUME NEW U, NEW buf \in Seq(U), NEW w \in Seq(U), NEW k \in 1 .. Len(w)
  PROVE  Len(Got(buf, w, k)) = Len(buf) + k
<1>1. SubSeq(w, 1, k) \in Seq(U) /\ Len(SubSeq(w, 1, k)) = k
  OBVIOUS
<1> QED
  BY <1>1, ConcatProperties DEF Got

\* The rest of the wire follows what was taken.
LEMMA RecvFollows ==
  ASSUME NEW U, NEW F \in Seq(U), NEW buf \in Seq(U), NEW w \in Seq(U), NEW o,
         NEW n \in Nat, Follows(buf, F, n), PendingInv(n + Len(buf), F, w, o),
         NEW k \in 1 .. Len(w)
  PROVE  /\ Got(buf, w, k) \in Seq(U) /\ Rest(w, k) \in Seq(U)
         /\ Len(Got(buf, w, k)) = Len(buf) + k
         /\ Follows(Got(buf, w, k), F, n)
         /\ PendingInv(n + Len(Got(buf, w, k)), F, Rest(w, k), o)
<1>1. PICK a, b : a = SubSeq(w, 1, k) /\ b = SubSeq(w, k + 1, Len(w))
  OBVIOUS
<1>2. PICK p : p = n + Len(buf) /\ p \in Nat
  OBVIOUS
<1>3. /\ a \in Seq(U) /\ b \in Seq(U) /\ Len(a) = k /\ Len(b) = Len(w) - k
      /\ Follows(a, F, p) /\ Follows(b, F, p + k)
  <2>1. Follows(w, F, p)
    BY <1>2 DEF PendingInv
  <2> QED
    BY <1>1, <1>2, <2>1, FollowsCut
<1>4. PICK got : got = buf \o a
  OBVIOUS
<1>5. Len(buf) \in Nat /\ Len(w) \in Nat
  OBVIOUS
<1>6. got \in Seq(U) /\ Len(got) = Len(buf) + k
  BY <1>3, <1>4, ConcatProperties
<1>7. Follows(got, F, n)
  BY <1>2, <1>3, <1>4, FollowsConcat
<1>8. n + Len(got) = p + k /\ n + Len(got) + Len(b) = p + Len(w)
  BY <1>2, <1>3, <1>5, <1>6
<1>9. PendingInv(n + Len(got), F, b, o)
  BY <1>2, <1>3, <1>8 DEF PendingInv
<1>10. got = Got(buf, w, k) /\ b = Rest(w, k)
  BY <1>1, <1>4 DEF Got, Rest
<1> QED
  BY <1>3, <1>6, <1>7, <1>9, <1>10

\* Of two pieces, one remains.
LEMMA SmallLength ==
  ASSUME NEW m \in Nat, m <= 2
  PROVE  m - 1 # 2
OBVIOUS

\* write_all puts the next piece on the wire.
LEMMA WriteFollows ==
  ASSUME NEW U, NEW F \in Seq(U), NEW w \in Seq(U), NEW o \in Seq(Seq(U)),
         Len(o) <= 2, o # <<>>, NEW n \in Nat, PendingInv(n, F, w, o)
  PROVE  PendingInv(n, F, w \o Head(o), Tail(o))
<1>1. PICK a, q : a = Head(o) /\ q = Tail(o)
  OBVIOUS
<1>2. /\ a = o[1] /\ a \in Seq(U) /\ Len(o) \in Nat /\ Len(o) >= 1
      /\ Len(q) = Len(o) - 1 /\ (Len(o) = 2 => q[1] = o[2])
      /\ Len(o) <= 2
  BY <1>1
<1>3. PICK v : v = w \o a
  OBVIOUS
<1>4. Len(w) \in Nat /\ Len(a) \in Nat /\ Len(v) = Len(w) + Len(a)
  BY <1>2, <1>3, ConcatProperties
<1>5. Follows(w, F, n) /\ Follows(a, F, n + Len(w))
  BY <1>2 DEF PendingInv
<1>6. Follows(v, F, n)
  BY <1>2, <1>3, <1>5, FollowsConcat
<1>7. ASSUME Len(q) = 2 PROVE FALSE
  <2>1. PICK m : m = Len(o)
    OBVIOUS
  <2>2. m - 1 = 2 /\ m \in Nat /\ m <= 2
    BY <1>2, <1>7, <2>1
  <2> QED
    BY <2>2, SmallLength
<1>8. ASSUME Len(q) >= 1 PROVE Follows(q[1], F, n + Len(v))
  <2>1. Len(o) = 2 /\ q[1] = o[2]
    BY <1>2, <1>8
  <2>2. Follows(o[2], F, n + Len(w) + Len(o[1]))
    BY <2>1 DEF PendingInv
  <2>3. n + Len(v) = n + Len(w) + Len(a)
    BY <1>4
  <2> QED
    BY <1>2, <2>1, <2>2, <2>3
<1> QED
  BY <1>1, <1>3, <1>6, <1>7, <1>8 DEF PendingInv

\* A complete length is that of the stream.
LEMMA LengthFollows ==
  ASSUME NEW U, NEW F \in Seq(U), IsStream(F), NEW buf \in Seq(U), Len(buf) = 4,
         Follows(buf, F, 0)
  PROVE  /\ FromBeBytes(buf) = FromBeBytes(F) /\ FromBeBytes(F) \in Nat
         /\ 4 <= Len(F)
<1>1. Len(F) \in Nat /\ 4 <= Len(F) /\ \A k \in 1 .. 4 : buf[k] = F[0 + k]
  BY DEF Follows
<1>2. /\ buf[1] = F[1] /\ buf[2] = F[2] /\ buf[3] = F[3] /\ buf[4] = F[4]
  BY <1>1
<1>3. \A k \in 1 .. 4 : F[k] \in Bytes
  BY <1>1 DEF IsStream
<1>4. FromBeBytes(F) \in Nat
  BY <1>3, FromBytesType
<1>5. FromBeBytes(buf) = FromBeBytes(F)
  BY <1>2 DEF FromBeBytes
<1> QED
  BY <1>1, <1>4, <1>5

\* A complete text is the announced one.
LEMMA TextFollows ==
  ASSUME NEW U, NEW F \in Seq(U), NEW buf \in Seq(U), Len(buf) = FromBeBytes(F),
         Follows(buf, F, 4)
  PROVE  /\ buf = Announced(F) /\ FromBeBytes(F) \in Nat
         /\ 4 + FromBeBytes(F) <= Len(F)
<1>1. PICK n : n = FromBeBytes(F) /\ n = Len(buf) /\ n \in Nat
  OBVIOUS
<1>2. 4 + n <= Len(F) /\ \A k \in 1 .. n : buf[k] = F[4 + k]
  BY <1>1 DEF Follows
<1>3. PICK t : t = SubSeq(F, 5, 4 + n)
  OBVIOUS
<1>4. /\ t \in Seq(U) /\ Len(t) = n /\ \A k \in 1 .. n : t[k] = F[4 + k]
  BY <1>1, <1>2, <1>3
<1>5. \A k \in 1 .. Len(buf) : buf[k] = t[k]
  BY <1>1, <1>2, <1>4
<1>6. buf = t
  BY <1>1, <1>4, <1>5, SeqEqual
<1> QED
  BY <1>1, <1>2, <1>3, <1>6 DEF Announced


-----------------------------------------------------------------------------
(***************************************************************************)
(* The steps of a reader and of the peer that writes to it, on their       *)
(* values: r is the reader, b says whether the stream is broken, w is the  *)
(* wire and o what the peer has yet to write.                              *)
(***************************************************************************)

PipeInv(r, F, b, w, o) ==
  /\ ReaderInv(r, F)
  /\ ~b /\ r.pc # "done" => PendingInv(Base(r) + Len(r.buf), F, w, o)

\* A length that is accepted, or the four bytes of one.
Lengths == {n \in Nat : n <= 4 \/ n <= MAX_MSG_LEN}

Messages(U) == {None} \cup {ParseErr(v) : v \in {"Io", "MsgToBig", "Utf8Error"}}
                      \cup {TcpFromString(t) : t \in Seq(U)}

Readers(U) == {r \in [pc : {"len", "data", "done"}, buf : Seq(U), msg_len : Lengths,
                      msg : Messages(U)] : Len(r.buf) <= r.msg_len}

\* The two parts of a reader's type.
LEMMA ReadersAre ==
  ASSUME NEW U, NEW r
  PROVE  r \in Readers(U) <=>
           /\ r \in [pc : {"len", "data", "done"}, buf : Seq(U), msg_len : Lengths,
                     msg : Messages(U)]
           /\ Len(r.buf) <= r.msg_len
BY Zenon DEF Readers

\* A reader that starts.
LEMMA ReadingType ==
  ASSUME NEW U
  PROVE  /\ Reading \in Readers(U) /\ Reading.pc = "len" /\ Reading.buf = <<>>
         /\ Reading.msg_len = 4
<1>1. PICK M : M = Messages(U)
  OBVIOUS
<1>2. None \in M
  BY <1>1 DEF Messages
<1>3. 4 \in Lengths
  BY SMT DEF Lengths
<1>4. PICK L : L = Lengths
  OBVIOUS
<1>5. PICK r : r = Reading
  OBVIOUS
<1>6. r = [pc |-> "len", buf |-> <<>>, msg_len |-> 4, msg |-> None]
  BY <1>5 DEF Reading
<1>7. /\ r.pc = "len" /\ r.buf = <<>> /\ r.msg_len = 4
      /\ r \in [pc : {"len", "data", "done"}, buf : Seq(U), msg_len : L, msg : M]
  BY <1>2, <1>3, <1>4, <1>6
<1>8. Len(r.buf) <= r.msg_len
  BY <1>7
<1> QED
  BY <1>1, <1>4, <1>5, <1>7, <1>8, ReadersAre

\* A reader has fields of these types.
LEMMA ReaderFields ==
  ASSUME NEW U, NEW r \in Readers(U)
  PROVE  /\ r.pc \in {"len", "data", "done"} /\ r.buf \in Seq(U) /\ Len(r.buf) \in Nat
         /\ r.msg_len \in Lengths /\ r.msg_len \in Nat /\ Len(r.buf) <= r.msg_len
         /\ r.msg \in Messages(U)
         /\ r = [pc |-> r.pc, buf |-> r.buf, msg_len |-> r.msg_len, msg |-> r.msg]
<1>1. PICK L, M : L = Lengths /\ M = Messages(U)
  OBVIOUS
<1>2. /\ r \in [pc : {"len", "data", "done"}, buf : Seq(U), msg_len : L, msg : M]
      /\ Len(r.buf) <= r.msg_len
  BY <1>1, ReadersAre
<1>3. /\ r.pc \in {"len", "data", "done"} /\ r.buf \in Seq(U) /\ Len(r.buf) \in Nat
      /\ r.msg_len \in L /\ r.msg \in M
      /\ r = [pc |-> r.pc, buf |-> r.buf, msg_len |-> r.msg_len, msg |-> r.msg]
  BY <1>2
<1>4. \A n \in Lengths : n \in Nat
  BY DEF Lengths
<1> QED
  BY <1>1, <1>2, <1>3, <1>4

\* The place in the stream.
LEMMA Position ==
  ASSUME NEW U, NEW r \in Readers(U)
  PROVE  Base(r) \in Nat /\ Base(r) + Len(r.buf) \in Nat
<1>1. PICK x : x = Len(r.buf) /\ x \in Nat
  BY ReaderFields
<1>2. PICK y : y = Base(r) /\ y \in Nat
  BY DEF Base
<1>3. x + y \in Nat /\ y + x \in Nat
  BY <1>1, <1>2
<1> QED
  BY <1>1, <1>2, <1>3

\* The three updates that the steps of a reader make.
Filled(r, c) == [r EXCEPT !.buf = c]
Finished(r, m) == [r EXCEPT !.pc = "done", !.msg = m]
Allocated(r, n) == [r EXCEPT !.pc = "data", !.buf = <<>>, !.msg_len = n]

\* The buffer grows.
LEMMA FilledType ==
  ASSUME NEW U, NEW r \in Readers(U), NEW c \in Seq(U), Len(c) <= r.msg_len
  PROVE  /\ Filled(r, c) \in Readers(U)
         /\ Filled(r, c).pc = r.pc /\ Filled(r, c).buf = c
         /\ Filled(r, c).msg_len = r.msg_len /\ Filled(r, c).msg = r.msg
<1>1. PICK P, B, L, M : P = {"len", "data", "done"} /\ B = Seq(U) /\ L = Lengths
                        /\ M = Messages(U)
  OBVIOUS
<1>2. /\ r \in [pc : P, buf : B, msg_len : L, msg : M] /\ Len(r.buf) <= r.msg_len
      /\ c \in B /\ Len(c) <= r.msg_len
  BY <1>1, ReadersAre, Zenon
<1>3. PICK q : q = Filled(r, c)
  OBVIOUS
<1>4. /\ q \in [pc : P, buf : B, msg_len : L, msg : M]
      /\ q.pc = r.pc /\ q.buf = c /\ q.msg_len = r.msg_len /\ q.msg = r.msg
  BY <1>2, <1>3 DEF Filled
<1>5. Len(q.buf) <= q.msg_len
  BY <1>2, <1>4
<1> QED
  BY <1>1, <1>3, <1>4, <1>5, ReadersAre, Zenon

\* The read ends.
LEMMA FinishedType ==
  ASSUME NEW U, NEW r \in Readers(U), NEW m \in Messages(U)
  PROVE  /\ Finished(r, m) \in Readers(U)
         /\ Finished(r, m).pc = "done" /\ Finished(r, m).buf = r.buf
         /\ Finished(r, m).msg_len = r.msg_len /\ Finished(r, m).msg = m
<1>1. PICK P, B, L, M : P = {"len", "data", "done"} /\ B = Seq(U) /\ L = Lengths
                        /\ M = Messages(U)
  OBVIOUS
<1>2. /\ r \in [pc : P, buf : B, msg_len : L, msg : M] /\ Len(r.buf) <= r.msg_len
      /\ "done" \in P /\ m \in M
  BY <1>1, ReadersAre, Zenon
<1>3. PICK q : q = Finished(r, m)
  OBVIOUS
<1>4. /\ q \in [pc : P, buf : B, msg_len : L, msg : M]
      /\ q.pc = "done" /\ q.buf = r.buf /\ q.msg_len = r.msg_len /\ q.msg = m
  BY <1>2, <1>3 DEF Finished
<1>5. Len(q.buf) <= q.msg_len
  BY <1>2, <1>4
<1> QED
  BY <1>1, <1>3, <1>4, <1>5, ReadersAre, Zenon

\* A new buffer.
LEMMA AllocatedType ==
  ASSUME NEW U, NEW r \in Readers(U), NEW n \in Lengths
  PROVE  /\ Allocated(r, n) \in Readers(U)
         /\ Allocated(r, n).pc = "data" /\ Allocated(r, n).buf = <<>>
         /\ Allocated(r, n).msg_len = n /\ Allocated(r, n).msg = r.msg
<1>1. PICK P, B, L, M : P = {"len", "data", "done"} /\ B = Seq(U) /\ L = Lengths
                        /\ M = Messages(U)
  OBVIOUS
<1>2. /\ r \in [pc : P, buf : B, msg_len : L, msg : M] /\ Len(r.buf) <= r.msg_len
      /\ "data" \in P /\ n \in L
  BY <1>1, ReadersAre, Zenon
<1>6. n >= 0 /\ <<>> \in B
  BY <1>1, SMT DEF Lengths
<1>3. PICK q : q = Allocated(r, n)
  OBVIOUS
<1>4. /\ q \in [pc : P, buf : B, msg_len : L, msg : M]
      /\ q.pc = "data" /\ q.buf = <<>> /\ q.msg_len = n /\ q.msg = r.msg
  BY <1>2, <1>3, <1>6 DEF Allocated
<1>5. Len(q.buf) <= q.msg_len
  BY <1>4, <1>6
<1> QED
  BY <1>1, <1>3, <1>4, <1>5, ReadersAre, Zenon

\* The next piece is written.
LEMMA PipeWrite ==
  ASSUME NEW U, NEW F \in Seq(U), NEW r \in Readers(U), NEW w \in Seq(U),
         NEW o \in Seq(Seq(U)), Len(o) <= 2, o # <<>>, NEW b, PipeInv(r, F, b, w, o)
  PROVE  PipeInv(r, F, b, w \o Head(o), Tail(o))
<1>1. Base(r) + Len(r.buf) \in Nat
  BY Position
<1>2. ReaderInv(r, F) /\ (~b /\ r.pc # "done" => PendingInv(Base(r) + Len(r.buf), F, w, o))
  BY DEF PipeInv
<1>3. ASSUME ~b, r.pc # "done"
      PROVE  PendingInv(Base(r) + Len(r.buf), F, w \o Head(o), Tail(o))
  BY <1>1, <1>2, <1>3, WriteFollows
<1> QED
  BY <1>2, <1>3 DEF PipeInv

\* What the reader takes and leaves.
LEMMA RecvTypes ==
  ASSUME NEW U, NEW r \in Readers(U), NEW w \in Seq(U), NEW k \in 1 .. Len(w),
         k <= r.msg_len - Len(r.buf)
  PROVE  Filled(r, Got(r.buf, w, k)) \in Readers(U) /\ Rest(w, k) \in Seq(U)
<1>1. PICK c, n : c = r.buf /\ n = r.msg_len
  OBVIOUS
<1>2. c \in Seq(U) /\ Len(c) \in Nat /\ n \in Nat
  BY <1>1, ReaderFields
<1>3. PICK g : g = Got(c, w, k)
  OBVIOUS
<1>4. g \in Seq(U)
  <2>1. SubSeq(w, 1, k) \in Seq(U)
    OBVIOUS
  <2> QED
    BY <1>2, <1>3, <2>1, ConcatProperties DEF Got
<1>5. Len(g) = Len(c) + k
  BY <1>2, <1>3, GotLen
<1>6. Len(g) <= n
  <2>1. k \in Nat /\ k <= n - Len(c)
    BY <1>1
  <2> QED
    BY <1>2, <1>5, <2>1
<1>7. Filled(r, g) \in Readers(U)
  BY <1>1, <1>4, <1>6, FilledType, Zenon
<1>8. Rest(w, k) \in Seq(U)
  BY DEF Rest
<1> QED
  BY <1>1, <1>3, <1>7, <1>8, Zenon

\* The reader takes k units.
LEMMA PipeRecv ==
  ASSUME NEW U, NEW F \in Seq(U), NEW r \in Readers(U), NEW w \in Seq(U), NEW o,
         NEW b, ~b, r.pc \in {"len", "data"}, PipeInv(r, F, b, w, o),
         NEW k \in 1 .. Len(w), k <= r.msg_len - Len(r.buf)
  PROVE  /\ Filled(r, Got(r.buf, w, k)) \in Readers(U) /\ Rest(w, k) \in Seq(U)
         /\ PipeInv(Filled(r, Got(r.buf, w, k)), F, b, Rest(w, k), o)
<1>1. /\ r.buf \in Seq(U) /\ Len(r.buf) \in Nat /\ r.msg_len \in Lengths /\ r.msg_len \in Nat
      /\ r.msg \in Messages(U) /\ r.pc \in {"len", "data", "done"}
      /\ r = [pc |-> r.pc, buf |-> r.buf, msg_len |-> r.msg_len, msg |-> r.msg]
  BY ReaderFields
<1>2. PICK n : n = Base(r) /\ n \in Nat
  BY DEF Base
<1>3. Follows(r.buf, F, n)
  BY <1>2 DEF Base, PipeInv, ReaderInv
<1>4. PendingInv(n + Len(r.buf), F, w, o)
  BY <1>2 DEF PipeInv
<1>5. PICK got, rest : got = Got(r.buf, w, k) /\ rest = Rest(w, k)
  OBVIOUS
<1>6. /\ got \in Seq(U) /\ rest \in Seq(U) /\ Len(got) = Len(r.buf) + k
      /\ Follows(got, F, n) /\ PendingInv(n + Len(got), F, rest, o)
  <2>1. PICK c : c = r.buf /\ c \in Seq(U)
    BY <1>1
  <2>2. n \in Nat /\ Follows(c, F, n)
    BY <1>2, <1>3, <2>1
  <2>3. PendingInv(n + Len(c), F, w, o)
    BY <1>4, <2>1
  <2>4. Got(c, w, k) \in Seq(U)
    BY <2>1, <2>2, <2>3, RecvFollows, Zenon
  <2>5. Rest(w, k) \in Seq(U)
    BY <2>1, <2>2, <2>3, RecvFollows, Zenon
  <2>6. Len(Got(c, w, k)) = Len(c) + k
    BY <2>1, GotLen
  <2>7. Follows(Got(c, w, k), F, n)
    BY <2>1, <2>2, <2>3, RecvFollows, Zenon
  <2>8. PendingInv(n + Len(Got(c, w, k)), F, Rest(w, k), o)
    BY <2>1, <2>2, <2>3, RecvFollows, Zenon
  <2> QED
    BY <1>5, <2>1, <2>4, <2>5, <2>6, <2>7, <2>8
<1>7. Len(w) \in Nat /\ k \in Nat /\ Len(got) <= r.msg_len
  BY <1>1, <1>6
<1>8. PICK q : q = Filled(r, got)
  OBVIOUS
<1>10. /\ q \in Readers(U) /\ q.pc = r.pc /\ q.buf = got /\ q.msg_len = r.msg_len
       /\ q.msg = r.msg
  BY <1>1, <1>6, <1>7, <1>8, FilledType, Zenon
<1>11. Base(q) = n
  BY <1>2, <1>10 DEF Base
<1>12. ReaderInv(q, F)
  BY <1>2, <1>6, <1>10 DEF Base, PipeInv, ReaderInv
<1>13. PipeInv(q, F, b, rest, o)
  BY <1>6, <1>10, <1>11, <1>12 DEF PipeInv
<1> QED
  BY <1>5, <1>6, <1>8, <1>10, <1>13

\* The read ends with an error.
LEMMA PipeError ==
  ASSUME NEW U, NEW r \in Readers(U), NEW v \in {"Io", "MsgToBig", "Utf8Error"}
  PROVE  LET q == Finished(r, ParseErr(v))
         IN  /\ q \in Readers(U) /\ q.pc = "done" /\ q.msg.type = "ParseErr"
             /\ \A F, b, w, o : PipeInv(q, F, b, w, o)
<1>1. /\ r.buf \in Seq(U) /\ r.msg_len \in Lengths /\ Len(r.buf) <= r.msg_len
      /\ r = [pc |-> r.pc, buf |-> r.buf, msg_len |-> r.msg_len, msg |-> r.msg]
  BY ReaderFields
<1>2. PICK m : m = ParseErr(v)
  OBVIOUS
<1>3. m \in Messages(U) /\ m.type = "ParseErr"
  BY <1>2, Kinds DEF Messages
<1>4. PICK q : q = Finished(r, m)
  OBVIOUS
<1>5. q = Finished(r, ParseErr(v))
  BY <1>2, <1>4
<1>6. q \in Readers(U) /\ q.pc = "done" /\ q.msg = m
  BY <1>3, <1>4, FinishedType, SMT
<1>7. \A F, b, w, o : PipeInv(q, F, b, w, o)
  BY <1>3, <1>6 DEF PipeInv, ReaderInv
<1> QED
  BY <1>3, <1>5, <1>6, <1>7

\* The length is complete and accepted.
LEMMA PipeLength ==
  ASSUME NEW U, NEW F \in Seq(U), IsStream(F), NEW r \in Readers(U), NEW w, NEW o,
         NEW b, r.pc = "len", PipeInv(r, F, b, w, o), r.msg_len - Len(r.buf) = 0,
         ~(FromBeBytes(r.buf) > MAX_MSG_LEN)
  PROVE  LET q == Allocated(r, FromBeBytes(r.buf))
         IN  q \in Readers(U) /\ PipeInv(q, F, b, w, o)
<1>1. /\ r.buf \in Seq(U) /\ Len(r.buf) \in Nat /\ r.msg_len \in Nat
      /\ r.msg \in Messages(U)
      /\ r = [pc |-> r.pc, buf |-> r.buf, msg_len |-> r.msg_len, msg |-> r.msg]
  BY ReaderFields
<1>2. /\ r.msg_len = 4 /\ Follows(r.buf, F, 0)
      /\ ~b => PendingInv(0 + Len(r.buf), F, w, o)
  BY DEF PipeInv, ReaderInv, Base
<1>3. Len(r.buf) = 4
  BY <1>1, <1>2
<1>4. PICK n : n = FromBeBytes(r.buf)
  OBVIOUS
<1>5. n = FromBeBytes(F) /\ n \in Nat /\ 4 <= Len(F)
  BY <1>1, <1>2, <1>3, <1>4, LengthFollows
<1>6. n <= MAX_MSG_LEN
  BY <1>4, <1>5, ExchangeAssumption
<1>7. n \in Lengths
  BY <1>5, <1>6 DEF Lengths
<1>8. PICK q : q = Allocated(r, n)
  OBVIOUS
<1>9. q = Allocated(r, FromBeBytes(r.buf))
  BY <1>4, <1>8
<1>10. <<>> \in Seq(U) /\ Len(<<>>) <= n
  BY <1>5
<1>11. q \in Readers(U) /\ q.pc = "data" /\ q.buf = <<>> /\ q.msg_len = n
  BY <1>7, <1>8, AllocatedType, Zenon
<1>12. Follows(<<>>, F, 4)
  BY <1>5 DEF Follows
<1>13. ReaderInv(q, F)
  BY <1>5, <1>6, <1>11, <1>12 DEF ReaderInv
<1>14. Base(q) + Len(q.buf) = 0 + Len(r.buf)
  BY <1>3, <1>11 DEF Base
<1>15. PipeInv(q, F, b, w, o)
  BY <1>2, <1>13, <1>14 DEF PipeInv
<1> QED
  BY <1>9, <1>11, <1>15

\* The text is complete.
LEMMA PipeText ==
  ASSUME NEW U, NEW F \in Seq(U), NEW r \in Readers(U), NEW w, NEW o,
         NEW b, r.pc = "data", PipeInv(r, F, b, w, o), r.msg_len - Len(r.buf) = 0
  PROVE  LET q == Finished(r, TcpFromString(r.buf))
         IN  q \in Readers(U) /\ PipeInv(q, F, b, w, o)
<1>1. /\ r.buf \in Seq(U) /\ Len(r.buf) \in Nat /\ r.msg_len \in Lengths /\ r.msg_len \in Nat
      /\ Len(r.buf) <= r.msg_len
      /\ r = [pc |-> r.pc, buf |-> r.buf, msg_len |-> r.msg_len, msg |-> r.msg]
  BY ReaderFields
<1>2. r.msg_len = FromBeBytes(F) /\ r.msg_len <= MAX_MSG_LEN /\ Follows(r.buf, F, 4)
  BY DEF PipeInv, ReaderInv
<1>3. Len(r.buf) = FromBeBytes(F)
  BY <1>1, <1>2
<1>4. r.buf = Announced(F) /\ FromBeBytes(F) \in Nat /\ 4 + FromBeBytes(F) <= Len(F)
  BY <1>1, <1>2, <1>3, TextFollows
<1>5. PICK m : m = TcpFromString(r.buf)
  OBVIOUS
<1>6. m \in Messages(U)
  BY <1>1, <1>5, Zenon DEF Messages
<1>7. PICK q : q = Finished(r, m)
  OBVIOUS
<1>8. q = Finished(r, TcpFromString(r.buf))
  BY <1>5, <1>7
<1>9. q \in Readers(U) /\ q.pc = "done" /\ q.msg = m
  BY <1>6, <1>7, FinishedType
<1>10. ReaderInv(q, F)
  BY <1>2, <1>4, <1>5, <1>9 DEF ReaderInv
<1>11. PipeInv(q, F, b, w, o)
  BY <1>9, <1>10 DEF PipeInv
<1> QED
  BY <1>8, <1>9, <1>11

\* A reader that has read nothing, at the beginning of a stream sent in one
\* piece or in two.
LEMMA PipeStart ==
  ASSUME NEW U, NEW F \in Seq(U), NEW r, r.pc = "len", r.buf = <<>>, r.msg_len = 4,
         NEW b, NEW o,
         \/ o = <<F>>
         \/ \E x \in Seq(U), y \in Seq(U) : F = x \o y /\ o = <<x, y>>
  PROVE  PipeInv(r, F, b, <<>>, o)
<1>1. Follows(<<>>, F, 0)
  BY DEF Follows
<1>2. ReaderInv(r, F)
  BY <1>1 DEF ReaderInv
<1>3. Base(r) + Len(r.buf) = 0
  BY DEF Base
<1>4. CASE o = <<F>>
  <2>1. Len(o) = 1 /\ o[1] = F
    BY <1>4
  <2>2. Follows(F, F, 0)
    BY DEF Follows
  <2>3. PendingInv(0, F, <<>>, o)
    BY <1>1, <2>1, <2>2 DEF PendingInv
  <2> QED
    BY <1>2, <1>3, <2>3 DEF PipeInv
<1>5. CASE \E x \in Seq(U), y \in Seq(U) : F = x \o y /\ o = <<x, y>>
  <2>1. PICK x \in Seq(U), y \in Seq(U) : F = x \o y /\ o = <<x, y>>
    BY <1>5
  <2>2. Len(o) = 2 /\ o[1] = x /\ o[2] = y /\ Len(x) \in Nat /\ Len(y) \in Nat
    BY <2>1
  <2>3. /\ Len(F) = Len(x) + Len(y)
        /\ \A k \in 1 .. (Len(x) + Len(y)) : F[k] = IF k <= Len(x) THEN x[k] ELSE y[k - Len(x)]
    BY <2>1, ConcatProperties
  <2>4. Follows(x, F, 0)
    BY <2>2, <2>3 DEF Follows
  <2>5. Follows(y, F, Len(x))
    <3>1. ASSUME NEW k \in 1 .. Len(y) PROVE y[k] = F[Len(x) + k]
      <4>1. Len(x) + k \in 1 .. (Len(x) + Len(y)) /\ ~(Len(x) + k <= Len(x))
            /\ Len(x) + k - Len(x) = k
        BY <2>2
      <4> QED
        BY <2>3, <4>1
    <3> QED
      BY <2>2, <2>3, <3>1 DEF Follows
  <2>6. 0 + Len(<<>>) = 0 /\ 0 + Len(<<>>) + Len(o[1]) = Len(x)
    BY <2>2
  <2>7. PendingInv(0, F, <<>>, o)
    BY <1>1, <2>2, <2>4, <2>5, <2>6 DEF PendingInv
  <2> QED
    BY <1>2, <1>3, <2>7 DEF PipeInv
<1> QED
  BY <1>4, <1>5

-----------------------------------------------------------------------------
(***************************************************************************)
(* The inductive invariant.                                                *)
(***************************************************************************)

TypeInv(U) ==
  /\ input \in Inputs
  /\ cpc \in {"connect", "send", "await", "subscribed", "sleep"}
  /\ spc \in {"off", "read", "respond", "done"}
  /\ closed \subseteq Sides
  /\ broken \in BOOLEAN
  /\ wire \in [Sides -> Seq(U)]
  /\ out \in [Sides -> Seq(Seq(U))]
  /\ reader \in [Sides -> Readers(U)]
  /\ \A s \in Sides : Len(out[s]) <= 2
  /\ broken => \A s \in Sides : wire[s] = <<>>

\* What is sent to s is the stream F.
Pipe(s, F) == PipeInv(reader[s], F, broken, wire[s], out[Peer(s)])

\* Nothing was sent to s.
Silent(s) ==
  /\ out[Peer(s)] = <<>> /\ wire[s] = <<>>
  /\ reader[s].pc # "data"
  /\ reader[s].pc = "len" => reader[s].buf = <<>> /\ reader[s].msg_len = 4
  /\ reader[s].pc = "done" => reader[s].msg.type = "ParseErr"

\* The answers of a handler.  Their texts are no longer than the longest
\* name and a word.
Responses == {Ack} \cup {Err(e) : e \in {t \in Seq(Units) : Len(t) <= MAX_MSG_LEN + 1}}

\* The handler is sent what the client has to say.
RequestInv ==
  /\ spc = "off" => reader["server"].pc # "done"
  /\ spc # "off" => Pipe("server", Stream(input))

\* The client is sent nothing, or the response that the handler decided on.
ResponseInv ==
  \/ spc \in {"off", "read", "done"} /\ Silent("client")
  \/ /\ spc \in {"respond", "done"} /\ response \in Responses
     /\ Pipe("client", Frame(TcpToString(response)))

ExchangeInv == TypeInv(Units) /\ RequestInv /\ ResponseInv

-----------------------------------------------------------------------------
(***************************************************************************)
(* The steps of the two sides.                                             *)
(***************************************************************************)

\* Each side has the other as its peer.
LEMMA PeerIs ==
  /\ Peer("client") = "server" /\ Peer("server") = "client"
  /\ \A s \in Sides : Peer(s) \in Sides /\ Peer(s) # s /\ Peer(Peer(s)) = s
  /\ "client" \in Sides /\ "server" \in Sides
BY DEF Peer, Sides

\* A side to which nothing happens.
Untouched(s) == /\ reader'[s] = reader[s] /\ wire'[s] = wire[s]
                /\ out'[Peer(s)] = out[Peer(s)] /\ broken' = broken

\* It keeps its stream, or its silence.
LEMMA UntouchedPipe ==
  ASSUME NEW s \in Sides, Untouched(s)
  PROVE  /\ \A F : Pipe(s, F) => Pipe(s, F)'
         /\ Silent(s) => Silent(s)'
<1>1. ASSUME NEW F, Pipe(s, F) PROVE Pipe(s, F)'
  BY <1>1 DEF Pipe, Untouched
<1>2. Silent(s) => Silent(s)'
  BY DEF Silent, Untouched
<1> QED
  BY <1>1, <1>2

\* The types of one side.
LEMMA SideTypes ==
  ASSUME NEW U, TypeInv(U), NEW s \in Sides
  PROVE  /\ wire[s] \in Seq(U) /\ out[s] \in Seq(Seq(U)) /\ out[Peer(s)] \in Seq(Seq(U))
         /\ reader[s] \in Readers(U) /\ Len(out[s]) <= 2 /\ Len(out[Peer(s)]) <= 2
<1>1. PICK R, W, O : R = Readers(U) /\ W = Seq(U) /\ O = Seq(Seq(U))
  OBVIOUS
<1>2. reader \in [Sides -> R] /\ wire \in [Sides -> W] /\ out \in [Sides -> O]
  BY <1>1 DEF TypeInv
<1>3. reader[s] \in R /\ wire[s] \in W /\ out[s] \in O /\ out[Peer(s)] \in O
  BY <1>2, PeerIs
<1>4. Len(out[s]) <= 2 /\ Len(out[Peer(s)]) <= 2
  BY PeerIs DEF TypeInv
<1> QED
  BY <1>1, <1>3, <1>4

\* A step that changes one reader and its wire.
LEMMA ReadTypes ==
  ASSUME NEW U, TypeInv(U), NEW s \in Sides, NEW r \in Readers(U), NEW w \in Seq(U),
         reader' = [reader EXCEPT ![s] = r],
         wire' = wire \/ (~broken /\ wire' = [wire EXCEPT ![s] = w]),
         UNCHANGED readUnchanged
  PROVE  /\ TypeInv(U)' /\ reader'[s] = r /\ Untouched(Peer(s)) /\ out' = out
         /\ wire' # wire => wire'[s] = w
<1>1. PICK R, W, O : R = Readers(U) /\ W = Seq(U) /\ O = Seq(Seq(U))
  OBVIOUS
<1>2. reader \in [Sides -> R] /\ wire \in [Sides -> W] /\ out \in [Sides -> O]
  BY <1>1 DEF TypeInv
<1>3. r \in R /\ w \in W /\ Peer(s) # s /\ Peer(s) \in Sides
  BY <1>1, PeerIs
<1>4. reader' \in [Sides -> R] /\ reader'[s] = r /\ reader'[Peer(s)] = reader[Peer(s)]
  BY <1>2, <1>3
<1>5. wire' \in [Sides -> W] /\ wire'[Peer(s)] = wire[Peer(s)] /\ (wire' # wire => wire'[s] = w)
  BY <1>2, <1>3
<1>6. /\ out' = out /\ input' = input /\ cpc' = cpc /\ spc' = spc /\ closed' = closed
      /\ broken' = broken
  BY DEF readUnchanged
<1>7. broken' => \A t \in Sides : wire'[t] = <<>>
  BY <1>6 DEF TypeInv
<1>8. TypeInv(U)'
  BY <1>1, <1>2, <1>4, <1>5, <1>6, <1>7, Zenon DEF TypeInv
<1> QED
  BY <1>4, <1>5, <1>6, <1>8 DEF Untouched

\* read_exact takes what has arrived.
LEMMA RecvStep ==
  ASSUME NEW U, TypeInv(U), NEW s \in Sides, Recv(s)
  PROVE  /\ ~Silent(s)
         /\ \A F \in Seq(U) : Pipe(s, F) => TypeInv(U)' /\ Pipe(s, F)' /\ Untouched(Peer(s))
<1>1. PICK k \in 1 .. Len(wire[s]) :
        /\ Active(s) /\ k <= Missing(s)
        /\ Set(s, [reader[s] EXCEPT !.buf = @ \o SubSeq(wire[s], 1, k)])
        /\ wire' = [wire EXCEPT ![s] = SubSeq(@, k + 1, Len(@))]
        /\ UNCHANGED readUnchanged
  BY DEF Recv
<1>2. PICK r, w, o : r = reader[s] /\ w = wire[s] /\ o = out[Peer(s)]
  OBVIOUS
<1>3. r \in Readers(U) /\ w \in Seq(U)
  BY <1>2, SideTypes
<1>4. k \in 1 .. Len(w) /\ k <= r.msg_len - Len(r.buf) /\ r.pc \in {"len", "data"}
  BY <1>1, <1>2 DEF Active, Missing
<1>5. w # <<>>
  BY <1>3, <1>4
<1>6. ~Silent(s)
  BY <1>2, <1>5 DEF Silent
<1>7. ~broken
  BY <1>2, <1>5 DEF TypeInv
<1>8. /\ reader' = [reader EXCEPT ![s] = Filled(r, Got(r.buf, w, k))]
      /\ wire' = [wire EXCEPT ![s] = Rest(w, k)]
  <2>1. [reader[s] EXCEPT !.buf = @ \o SubSeq(wire[s], 1, k)] = Filled(r, Got(r.buf, w, k))
    BY <1>2, Zenon DEF Filled, Got
  <2>2. [wire EXCEPT ![s] = SubSeq(@, k + 1, Len(@))] = [wire EXCEPT ![s] = Rest(w, k)]
    BY <1>2, Zenon DEF Rest
  <2> QED
    BY <1>1, <2>1, <2>2, Zenon DEF Set
<1>9. ASSUME NEW F \in Seq(U), Pipe(s, F)
      PROVE  TypeInv(U)' /\ Pipe(s, F)' /\ Untouched(Peer(s))
  <2>1. PICK b : b = broken
    OBVIOUS
  <2>2. PipeInv(r, F, b, w, o) /\ ~b
    BY <1>2, <1>7, <1>9, <2>1 DEF Pipe
  <2>3. PICK q, rest : q = Filled(r, Got(r.buf, w, k)) /\ rest = Rest(w, k)
    OBVIOUS
  <2>4. q \in Readers(U) /\ rest \in Seq(U) /\ PipeInv(q, F, b, rest, o)
    <3>1. q \in Readers(U) /\ rest \in Seq(U)
      BY <1>3, <1>4, <2>3, RecvTypes, Zenon
    <3>3. PipeInv(q, F, b, rest, o)
      BY <1>3, <1>4, <2>2, <2>3, PipeRecv, Zenon
    <3> QED
      BY <3>1, <3>3
  <2>5. reader' = [reader EXCEPT ![s] = q] /\ wire' = [wire EXCEPT ![s] = rest]
    BY <1>8, <2>3
  <2>6. TypeInv(U)' /\ reader'[s] = q /\ Untouched(Peer(s)) /\ out' = out
    BY <1>1, <1>7, <2>4, <2>5, ReadTypes, Zenon
  <2>7. wire'[s] = rest /\ broken' = broken
    <3>1. wire \in [Sides -> Seq(U)]
      BY DEF TypeInv
    <3> QED
      BY <1>1, <2>5, <3>1, Zenon DEF readUnchanged
  <2>8. Pipe(s, F)'
    BY <1>2, <2>1, <2>4, <2>6, <2>7 DEF Pipe
  <2> QED
    BY <2>6, <2>8
<1> QED
  BY <1>6, <1>9

\* The read ends with an error.
LEMMA ErrorStep ==
  ASSUME NEW U, TypeInv(U), NEW s \in Sides, NEW v \in {"Io", "MsgToBig", "Utf8Error"},
         reader' = [reader EXCEPT ![s] = Finished(reader[s], ParseErr(v))],
         UNCHANGED <<wire, readUnchanged>>
  PROVE  /\ TypeInv(U)' /\ Untouched(Peer(s)) /\ \A F : Pipe(s, F)'
         /\ Silent(s) => Silent(s)'
<1>1. PICK q : q = Finished(reader[s], ParseErr(v))
  OBVIOUS
<1>2. reader[s] \in Readers(U) /\ wire[s] \in Seq(U)
  BY SideTypes
<1>3. /\ q \in Readers(U) /\ q.pc = "done" /\ q.msg.type = "ParseErr"
      /\ \A F, b, w, o : PipeInv(q, F, b, w, o)
  BY <1>1, <1>2, PipeError, Zenon
<1>4. reader' = [reader EXCEPT ![s] = q] /\ wire' = wire /\ UNCHANGED readUnchanged
  BY <1>1
<1>5. TypeInv(U)' /\ reader'[s] = q /\ Untouched(Peer(s)) /\ out' = out
  <2>1. PICK w \in Seq(U) : w = wire[s]
    BY <1>2
  <2>2. q \in Readers(U)
    BY <1>3
  <2> QED
    BY <1>4, <2>1, <2>2, ReadTypes, Zenon
<1>6. \A F : Pipe(s, F)'
  BY <1>3, <1>5 DEF Pipe
<1>7. Silent(s) => Silent(s)'
  BY <1>3, <1>4, <1>5 DEF Silent
<1> QED
  BY <1>5, <1>6, <1>7

\* read_exact fails.
LEMMA FailStep ==
  ASSUME NEW U, TypeInv(U), NEW s \in Sides, RecvFails(s)
  PROVE  /\ TypeInv(U)' /\ Untouched(Peer(s)) /\ \A F : Pipe(s, F)'
         /\ Silent(s) => Silent(s)'
<1>1. /\ reader' = [reader EXCEPT ![s] = Finished(reader[s], ParseErr("Io"))]
      /\ UNCHANGED <<wire, readUnchanged>>
  BY Zenon DEF RecvFails, Set, Finished
<1>2. PICK v \in {"Io", "MsgToBig", "Utf8Error"} : v = "Io"
  OBVIOUS
<1>3. reader' = [reader EXCEPT ![s] = Finished(reader[s], ParseErr(v))]
  BY <1>1, <1>2
<1> QED
  BY <1>1, <1>3, ErrorStep, Zenon

\* The length is complete.
LEMMA LengthStep ==
  ASSUME NEW U, TypeInv(U), NEW s \in Sides, GotLength(s)
  PROVE  /\ ~Silent(s)
         /\ \A F \in Seq(U) : IsStream(F) /\ Pipe(s, F) =>
              TypeInv(U)' /\ Pipe(s, F)' /\ Untouched(Peer(s))
<1>1. PICK r, w, o : r = reader[s] /\ w = wire[s] /\ o = out[Peer(s)]
  OBVIOUS
<1>2. r \in Readers(U) /\ w \in Seq(U)
  BY <1>1, SideTypes
<1>3. r.pc = "len" /\ r.msg_len - Len(r.buf) = 0 /\ UNCHANGED <<wire, readUnchanged>>
  BY <1>1 DEF GotLength, Missing
<1>4. ~Silent(s)
  BY <1>1, <1>3 DEF Silent
<1>5. CASE FromBeBytes(r.buf) > MAX_MSG_LEN
  <2>1. reader' = [reader EXCEPT ![s] = Finished(reader[s], ParseErr("MsgToBig"))]
    BY <1>1, <1>5, Zenon DEF GotLength, Set, Finished
  <2>2. PICK v \in {"Io", "MsgToBig", "Utf8Error"} : v = "MsgToBig"
    OBVIOUS
  <2>3. reader' = [reader EXCEPT ![s] = Finished(reader[s], ParseErr(v))]
    BY <2>1, <2>2
  <2>4. TypeInv(U)' /\ Untouched(Peer(s)) /\ \A F : Pipe(s, F)'
    BY <1>3, <2>3, ErrorStep, Zenon
  <2> QED
    BY <1>4, <2>4
<1>6. CASE ~(FromBeBytes(r.buf) > MAX_MSG_LEN)
  <2>1. PICK q : q = Allocated(r, FromBeBytes(r.buf))
    OBVIOUS
  <2>2. reader' = [reader EXCEPT ![s] = q]
    BY <1>1, <1>6, <2>1, Zenon DEF GotLength, Set, Allocated
  <2>3. ASSUME NEW F \in Seq(U), IsStream(F), Pipe(s, F)
        PROVE  TypeInv(U)' /\ Pipe(s, F)' /\ Untouched(Peer(s))
    <3>1. PICK b : b = broken
      OBVIOUS
    <3>2. PipeInv(r, F, b, w, o)
      BY <1>1, <2>3, <3>1 DEF Pipe
    <3>3. q \in Readers(U) /\ PipeInv(q, F, b, w, o)
      BY <1>2, <1>3, <1>6, <2>1, <2>3, <3>2, PipeLength, Zenon
    <3>4. TypeInv(U)' /\ reader'[s] = q /\ Untouched(Peer(s)) /\ out' = out
      BY <1>2, <1>3, <2>2, <3>3, ReadTypes, Zenon
    <3>5. wire' = wire /\ broken' = broken
      BY <1>3 DEF readUnchanged
    <3>6. Pipe(s, F)'
      BY <1>1, <3>1, <3>3, <3>4, <3>5 DEF Pipe
    <3> QED
      BY <3>4, <3>6
  <2> QED
    BY <1>4, <2>3
<1> QED
  BY <1>5, <1>6

\* The text is complete.
LEMMA TextStep ==
  ASSUME NEW U, TypeInv(U), NEW s \in Sides, GotText(s)
  PROVE  /\ ~Silent(s)
         /\ \A F \in Seq(U) : Pipe(s, F) => TypeInv(U)' /\ Pipe(s, F)' /\ Untouched(Peer(s))
<1>1. PICK r, w, o : r = reader[s] /\ w = wire[s] /\ o = out[Peer(s)]
  OBVIOUS
<1>2. r \in Readers(U) /\ w \in Seq(U)
  BY <1>1, SideTypes
<1>3. r.pc = "data" /\ r.msg_len - Len(r.buf) = 0 /\ UNCHANGED <<wire, readUnchanged>>
  BY <1>1 DEF GotText, Missing
<1>4. ~Silent(s)
  BY <1>1, <1>3 DEF Silent
<1>5. CASE "not UTF-8" \in Range(r.buf)
  <2>1. reader' = [reader EXCEPT ![s] = Finished(reader[s], ParseErr("Utf8Error"))]
    BY <1>1, <1>5, Zenon DEF GotText, Set, Finished
  <2>2. PICK v \in {"Io", "MsgToBig", "Utf8Error"} : v = "Utf8Error"
    OBVIOUS
  <2>3. reader' = [reader EXCEPT ![s] = Finished(reader[s], ParseErr(v))]
    BY <2>1, <2>2
  <2>4. TypeInv(U)' /\ Untouched(Peer(s)) /\ \A F : Pipe(s, F)'
    BY <1>3, <2>3, ErrorStep, Zenon
  <2> QED
    BY <1>4, <2>4
<1>6. CASE "not UTF-8" \notin Range(r.buf)
  <2>1. PICK q : q = Finished(r, TcpFromString(r.buf))
    OBVIOUS
  <2>2. reader' = [reader EXCEPT ![s] = q]
    BY <1>1, <1>6, <2>1, Zenon DEF GotText, Set, Finished
  <2>3. ASSUME NEW F \in Seq(U), Pipe(s, F)
        PROVE  TypeInv(U)' /\ Pipe(s, F)' /\ Untouched(Peer(s))
    <3>1. PICK b : b = broken
      OBVIOUS
    <3>2. PipeInv(r, F, b, w, o)
      BY <1>1, <2>3, <3>1 DEF Pipe
    <3>3. q \in Readers(U) /\ PipeInv(q, F, b, w, o)
      BY <1>2, <1>3, <2>1, <3>2, PipeText, Zenon
    <3>4. TypeInv(U)' /\ reader'[s] = q /\ Untouched(Peer(s)) /\ out' = out
      BY <1>2, <1>3, <2>2, <3>3, ReadTypes, Zenon
    <3>5. wire' = wire /\ broken' = broken
      BY <1>3 DEF readUnchanged
    <3>6. Pipe(s, F)'
      BY <1>1, <3>1, <3>3, <3>4, <3>5 DEF Pipe
    <3> QED
      BY <3>4, <3>6
  <2> QED
    BY <1>4, <2>3
<1> QED
  BY <1>5, <1>6

\* One write_all.
LEMMA WriteStep ==
  ASSUME NEW U, TypeInv(U), NEW s \in Sides, Write(s)
  PROVE  /\ ~Silent(Peer(s)) /\ TypeInv(U)' /\ Untouched(s)
         /\ \A F \in Seq(U) : Pipe(Peer(s), F) => Pipe(Peer(s), F)'
<1>1. PICK t \in Sides : t = Peer(s) /\ t # s /\ Peer(t) = s
  BY PeerIs
<1>2. PICK r, w, o : r = reader[t] /\ w = wire[t] /\ o = out[s]
  OBVIOUS
<1>3. r \in Readers(U) /\ w \in Seq(U) /\ o \in Seq(Seq(U)) /\ Len(o) <= 2
  BY <1>2, SideTypes
<1>4. /\ o # <<>> /\ ~broken
      /\ wire' = [wire EXCEPT ![t] = w \o Head(o)] /\ out' = [out EXCEPT ![s] = Tail(o)]
      /\ input' = input /\ cpc' = cpc /\ spc' = spc /\ closed' = closed /\ broken' = broken
      /\ reader' = reader
  BY <1>1, <1>2, Zenon DEF Write
<1>5. ~Silent(t)
  BY <1>1, <1>2, <1>4 DEF Silent
<1>6. PICK v, q : v = w \o Head(o) /\ q = Tail(o)
  OBVIOUS
<1>7. Head(o) \in Seq(U) /\ q \in Seq(Seq(U)) /\ Len(o) \in Nat /\ Len(q) = Len(o) - 1
  BY <1>3, <1>4, <1>6, HeadTailProperties
<1>8. v \in Seq(U)
  BY <1>3, <1>6, <1>7, ConcatProperties
<1>9. Len(q) <= 2
  BY <1>3, <1>7, SMT
<1>10. wire' = [wire EXCEPT ![t] = v] /\ out' = [out EXCEPT ![s] = q]
  BY <1>4, <1>6
<1>11. PICK W, O : W = Seq(U) /\ O = Seq(Seq(U))
  OBVIOUS
<1>12. wire \in [Sides -> W] /\ out \in [Sides -> O] /\ v \in W /\ q \in O
  BY <1>7, <1>8, <1>11 DEF TypeInv
<1>13. /\ wire' \in [Sides -> W] /\ out' \in [Sides -> O]
       /\ wire'[t] = v /\ wire'[s] = wire[s] /\ out'[s] = q /\ out'[t] = out[t]
  BY <1>1, <1>10, <1>12
<1>14. \A u \in Sides : u = s \/ u = t
  BY <1>1 DEF Sides, Peer
<1>15. \A u \in Sides : Len(out'[u]) <= 2
  <2>1. Len(out[t]) <= 2
    BY <1>1 DEF TypeInv
  <2> QED
    BY <1>9, <1>13, <1>14, <2>1, Zenon
<1>16. TypeInv(U)'
  BY <1>4, <1>11, <1>13, <1>15, Zenon DEF TypeInv
<1>17. Untouched(s)
  BY <1>1, <1>4, <1>13 DEF Untouched
<1>18. ASSUME NEW F \in Seq(U), Pipe(t, F) PROVE Pipe(t, F)'
  <2>1. PICK b : b = broken
    OBVIOUS
  <2>2. PipeInv(r, F, b, w, o)
    BY <1>1, <1>2, <1>18, <2>1 DEF Pipe
  <2>3. PipeInv(r, F, b, v, q)
    BY <1>3, <1>4, <1>6, <2>2, PipeWrite, Zenon
  <2> QED
    BY <1>1, <1>2, <1>4, <1>13, <2>1, <2>3 DEF Pipe
<1> QED
  BY <1>1, <1>5, <1>16, <1>17, <1>18

\* A writer that gives up on a broken stream, or has nothing left to write.
LEMMA DropStep ==
  ASSUME NEW U, TypeInv(U), NEW s \in Sides, broken \/ out[s] = <<>>,
         out' = [out EXCEPT ![s] = <<>>], UNCHANGED <<input, wire, reader, broken>>,
         cpc' \in {"connect", "send", "await", "subscribed", "sleep"},
         spc' \in {"off", "read", "respond", "done"}, closed' \subseteq Sides
  PROVE  /\ TypeInv(U)' /\ Untouched(s)
         /\ \A F : Pipe(Peer(s), F) => Pipe(Peer(s), F)'
         /\ Silent(Peer(s)) => Silent(Peer(s))'
<1>1. PICK t \in Sides : t = Peer(s) /\ t # s /\ Peer(t) = s
  BY PeerIs
<1>2. PICK q : q = <<>>
  OBVIOUS
<1>3. q \in Seq(Seq(U)) /\ Len(q) <= 2
  BY <1>2
<1>4. PICK O : O = Seq(Seq(U))
  OBVIOUS
<1>5. out \in [Sides -> O] /\ q \in O /\ out' = [out EXCEPT ![s] = q]
  BY <1>2, <1>3, <1>4 DEF TypeInv
<1>6. out' \in [Sides -> O] /\ out'[s] = q /\ out'[t] = out[t]
  BY <1>1, <1>5
<1>7. \A u \in Sides : u = s \/ u = t
  BY <1>1 DEF Sides, Peer
<1>8. \A u \in Sides : Len(out'[u]) <= 2
  <2>1. Len(out[t]) <= 2
    BY <1>1 DEF TypeInv
  <2> QED
    BY <1>3, <1>6, <1>7, <2>1, Zenon
<1>9. TypeInv(U)'
  BY <1>4, <1>6, <1>8, Zenon DEF TypeInv
<1>10. Untouched(s)
  BY <1>1, <1>6 DEF Untouched
<1>11. ASSUME NEW F, Pipe(t, F) PROVE Pipe(t, F)'
  <2>1. reader'[t] = reader[t] /\ wire'[t] = wire[t] /\ broken' = broken
    OBVIOUS
  <2>2. CASE broken
    BY <1>11, <2>1, <2>2 DEF Pipe, PipeInv
  <2>3. CASE out[s] = <<>>
    BY <1>1, <1>2, <1>6, <1>11, <2>1, <2>3 DEF Pipe
  <2> QED
    BY <2>2, <2>3
<1>12. Silent(t) => Silent(t)'
  BY <1>1, <1>2, <1>6 DEF Silent
<1> QED
  BY <1>1, <1>9, <1>10, <1>11, <1>12

\* A step that neither reads nor writes.
LEMMA IdleStep ==
  ASSUME NEW U, TypeInv(U), UNCHANGED <<input, wire, out, reader, broken>>,
         cpc' \in {"connect", "send", "await", "subscribed", "sleep"},
         spc' \in {"off", "read", "respond", "done"}, closed' \subseteq Sides
  PROVE  TypeInv(U)' /\ \A s \in Sides : Untouched(s)
<1>1. TypeInv(U)'
  BY Zenon DEF TypeInv
<1>2. \A s \in Sides : Untouched(s)
  BY DEF Untouched
<1> QED
  BY <1>1, <1>2

\* The stream breaks.
LEMMA BreakStep ==
  ASSUME NEW U, TypeInv(U), Break, NEW s \in Sides
  PROVE  /\ TypeInv(U)' /\ (Silent(s) => Silent(s)')
         /\ \A F : Pipe(s, F) => Pipe(s, F)'
<1>1. PICK W, e : W = Seq(U) /\ e = <<>>
  OBVIOUS
<1>2. /\ wire' = [u \in Sides |-> e] /\ broken' = TRUE /\ input' = input /\ cpc' = cpc
      /\ spc' = spc /\ closed' = closed /\ out' = out /\ reader' = reader
  BY <1>1 DEF Break
<1>3. e \in W
  BY <1>1
<1>4. wire' \in [Sides -> W] /\ \A u \in Sides : wire'[u] = e
  BY <1>2, <1>3
<1>5. TypeInv(U)'
  BY <1>1, <1>2, <1>4, Zenon DEF TypeInv
<1>6. Silent(s) => Silent(s)'
  BY <1>1, <1>2, <1>4 DEF Silent
<1>7. \A F : Pipe(s, F) => Pipe(s, F)'
  BY <1>2 DEF Pipe, PipeInv
<1> QED
  BY <1>5, <1>6, <1>7

-----------------------------------------------------------------------------
(***************************************************************************)
(* The connection and the handler.                                         *)
(***************************************************************************)

\* What a side starts from when there is a new connection.
LEMMA FreshTypes ==
  ASSUME NEW U, NEW p \in Seq(Seq(U)), Len(p) <= 2,
         reader' = [s \in Sides |-> Reading], wire' = [s \in Sides |-> <<>>],
         out' = [s \in Sides |-> IF s = "server" THEN <<>> ELSE p]
  PROVE  /\ wire' \in [Sides -> Seq(U)] /\ out' \in [Sides -> Seq(Seq(U))]
         /\ reader' \in [Sides -> Readers(U)] /\ \A s \in Sides : Len(out'[s]) <= 2
         /\ \A s \in Sides : reader'[s] = Reading /\ wire'[s] = <<>>
         /\ out'["server"] = <<>> /\ out'["client"] = p
<1>1. PICK W, O, R, r, e : W = Seq(U) /\ O = Seq(Seq(U)) /\ R = Readers(U) /\ r = Reading
                           /\ e = <<>>
  OBVIOUS
<1>2. r \in R
  BY <1>1, ReadingType, Zenon
<1>3. e \in W /\ e \in O /\ Len(e) <= 2 /\ p \in O
  BY <1>1
<1>4. /\ reader' = [s \in Sides |-> r] /\ wire' = [s \in Sides |-> e]
      /\ out' = [s \in Sides |-> IF s = "server" THEN e ELSE p]
  BY <1>1
<1>5. /\ wire' \in [Sides -> W] /\ out' \in [Sides -> O] /\ reader' \in [Sides -> R]
      /\ \A s \in Sides : reader'[s] = r /\ wire'[s] = e
      /\ \A s \in Sides : out'[s] = IF s = "server" THEN e ELSE p
  BY <1>2, <1>3, <1>4
<1>6. out'["server"] = e /\ out'["client"] = p
  BY <1>5, PeerIs
<1>7. \A s \in Sides : Len(out'[s]) <= 2
  BY <1>3, <1>5
<1> QED
  BY <1>1, <1>5, <1>6, <1>7, Zenon

\* Nothing was sent to a fresh client.
LEMMA FreshSilent ==
  ASSUME reader'["client"] = Reading, wire'["client"] = <<>>, out'["server"] = <<>>
  PROVE  Silent("client")'
<1>1. Reading.pc = "len" /\ Reading.buf = <<>> /\ Reading.msg_len = 4
  BY ReadingType
<1> QED
  BY <1>1, PeerIs DEF Silent

\* A new connection.
LEMMA ConnectStep ==
  ASSUME ExchangeInv, Connect
  PROVE  ExchangeInv'
<1>1. PICK U, i : U = Units /\ i = input
  OBVIOUS
<1>2. i \in Inputs
  BY <1>1 DEF ExchangeInv, TypeInv
<1>3. PICK F, t : F = Stream(i) /\ t = ClientText(i)
  OBVIOUS
<1>4. /\ F \in Seq(U)
      /\ i.kind # "raw" => t \in Seq(U) /\ FitsU32(Len(t))
  BY <1>1, <1>2, <1>3, StreamType, Zenon
<1>5. PICK p : p = IF i.kind = "raw" THEN <<i.bytes>> ELSE Framed(t)
  OBVIOUS
<1>6. /\ input' = i /\ cpc' = "send" /\ spc' = "read" /\ closed' = {} /\ broken' = FALSE
      /\ reader' = [s \in Sides |-> Reading] /\ wire' = [s \in Sides |-> <<>>]
      /\ out' = [s \in Sides |-> IF s = "server" THEN <<>> ELSE p]
  <2>1. /\ input' = i /\ cpc' = "send" /\ spc' = "read" /\ closed' = {} /\ broken' = FALSE
        /\ reader' = [s \in Sides |-> Reading] /\ wire' = [s \in Sides |-> <<>>]
    BY <1>1 DEF Connect
  <2>2. out' = [s \in Sides |->
                  IF s = "server" THEN <<>>
                  ELSE IF i.kind = "raw" THEN <<i.bytes>> ELSE Framed(t)]
    BY <1>1, <1>3, Zenon DEF Connect, ClientText
  <2> QED
    BY <1>5, <2>1, <2>2, Zenon
<1>7. /\ p \in Seq(Seq(U)) /\ Len(p) <= 2
      /\ \/ p = <<F>>
         \/ \E x \in Seq(U), y \in Seq(U) : F = x \o y /\ p = <<x, y>>
  <2>1. CASE i.kind = "raw"
    <3>1. p = <<F>>
      BY <1>3, <1>5, <2>1 DEF Stream
    <3> QED
      BY <1>4, <3>1
  <2>2. CASE i.kind # "raw"
    <3>1. PICK x : x = ToBeBytes(Len(t))
      OBVIOUS
    <3>2. p = <<x, t>> /\ F = x \o t
      BY <1>3, <1>5, <2>2, <3>1 DEF Framed, Stream, Frame
    <3>3. t \in Seq(U) /\ FitsU32(Len(t)) /\ Len(t) \in Nat
      BY <1>4, <2>2
    <3>4. Bytes \subseteq U
      BY <1>1, UnitsAre
    <3>5. x \in Seq(U)
      BY <3>1, <3>3, <3>4, BeBytes, Zenon
    <3> QED
      BY <3>2, <3>3, <3>5
  <2> QED
    BY <2>1, <2>2
<1>8. /\ wire' \in [Sides -> Seq(U)] /\ out' \in [Sides -> Seq(Seq(U))]
      /\ reader' \in [Sides -> Readers(U)] /\ \A s \in Sides : Len(out'[s]) <= 2
      /\ \A s \in Sides : reader'[s] = Reading /\ wire'[s] = <<>>
      /\ out'["server"] = <<>> /\ out'["client"] = p
  BY <1>6, <1>7, FreshTypes, Zenon
<1>9. TypeInv(U)'
  BY <1>2, <1>6, <1>8, Zenon DEF TypeInv
<1>10. Silent("client")'
  BY <1>8, PeerIs, FreshSilent, Zenon
<1>11. Pipe("server", F)'
  <2>1. PICK r, b : r = Reading /\ b = FALSE
    OBVIOUS
  <2>2. r.pc = "len" /\ r.buf = <<>> /\ r.msg_len = 4
    BY <2>1, ReadingType
  <2>3. PipeInv(r, F, b, <<>>, p)
    BY <1>4, <1>7, <2>2, PipeStart, Zenon
  <2> QED
    BY <1>6, <1>8, <2>1, <2>3, PeerIs, Zenon DEF Pipe
<1>12. Stream(input') = F /\ spc' = "read"
  BY <1>3, <1>6
<1> QED
  BY <1>1, <1>9, <1>10, <1>11, <1>12, Zenon DEF ExchangeInv, RequestInv, ResponseInv

\* A shorter length fits as well.
LEMMA ShorterFits ==
  ASSUME NEW n \in Nat, NEW m \in Nat, n <= m, FitsU32(m)
  PROVE  FitsU32(n)
<1>1. 2^24 = 16777216
  BY SMT
<1>2. m \div 16777216 < 256
  BY <1>1, SMT DEF FitsU32
<1>3. n \div 16777216 < 256
  BY <1>2, SMT
<1> QED
  BY <1>1, <1>3, SMT DEF FitsU32

\* A response can be sent, and it is what its text says.
LEMMA ResponseText ==
  ASSUME NEW m \in Responses
  PROVE  /\ TcpToString(m) \in Seq(Units) /\ FitsU32(Len(TcpToString(m)))
         /\ TcpFromString(TcpToString(m)) = m
<1>1. PICK U : U = Units
  OBVIOUS
<1>2. "ACK" \in U /\ "ERR" \in U /\ "|" \in U
  BY <1>1, UnitsAre DEF Words
<1>3. MAX_MSG_LEN \in Nat /\ FitsU32(MAX_MSG_LEN + 3)
  BY ExchangeAssumption, InputsAssumption
<1>4. \A n \in Nat : n <= MAX_MSG_LEN + 3 => FitsU32(n)
  <2>1. PICK M : M = MAX_MSG_LEN + 3 /\ M \in Nat
    BY <1>3
  <2> QED
    BY <1>3, <2>1, ShorterFits
<1>5. CASE m = Ack
  <2>1. PICK t : t = TcpToString(m)
    OBVIOUS
  <2>2. t = <<"ACK">> /\ TcpFromString(t) = m
    BY <1>5, <2>1, AckRoundTrip
  <2>3. t \in Seq(U) /\ Len(t) = 1 /\ Len(t) <= MAX_MSG_LEN + 3
    BY <1>2, <1>3, <2>2
  <2>4. Len(t) \in Nat
    BY <2>3
  <2>5. FitsU32(Len(t))
    BY <1>4, <2>3, <2>4
  <2> QED
    BY <1>1, <2>1, <2>2, <2>3, <2>5, Zenon
<1>6. CASE \E e \in Seq(Units) : Len(e) <= MAX_MSG_LEN + 1 /\ m = Err(e)
  <2>1. PICK e \in Seq(U) : Len(e) <= MAX_MSG_LEN + 1 /\ m = Err(e)
    BY <1>1, <1>6, Zenon
  <2>2. PICK t, h : t = TcpToString(m) /\ h = <<"ERR", "|">>
    OBVIOUS
  <2>3. t = h \o e /\ TcpFromString(t) = m
    BY <2>1, <2>2, ErrRoundTrip, Zenon
  <2>4. h \in Seq(U) /\ Len(h) = 2
    BY <1>2, <2>2
  <2>5. t \in Seq(U) /\ Len(t) = Len(h) + Len(e)
    BY <2>1, <2>3, <2>4, ConcatProperties
  <2>6. Len(t) \in Nat /\ Len(t) <= MAX_MSG_LEN + 3
    <3>1. PICK a, c : a = Len(e) /\ c = Len(t) /\ a \in Nat /\ c = 2 + a
                      /\ a <= MAX_MSG_LEN + 1
      BY <2>1, <2>4, <2>5
    <3>2. c \in Nat /\ c <= MAX_MSG_LEN + 3
      BY <1>3, <3>1
    <3> QED
      BY <3>1, <3>2
  <2>7. FitsU32(Len(t))
    BY <1>4, <2>6
  <2> QED
    BY <1>1, <2>2, <2>3, <2>5, <2>7, Zenon
<1> QED
  BY <1>5, <1>6, Zenon DEF Responses

\* The text that a complete stream announces.
LEMMA AnnouncedType ==
  ASSUME NEW U, NEW F \in Seq(U), FromBeBytes(F) \in Nat, 4 + FromBeBytes(F) <= Len(F)
  PROVE  Announced(F) \in Seq(U) /\ Len(Announced(F)) = FromBeBytes(F)
<1>1. PICK n : n = FromBeBytes(F) /\ n \in Nat /\ 4 + n <= Len(F)
  OBVIOUS
<1>2. SubSeq(F, 5, 4 + n) \in Seq(U) /\ Len(SubSeq(F, 5, 4 + n)) = n
  BY <1>1
<1> QED
  BY <1>1, <1>2 DEF Announced

\* The name that add_receiver misses is one of the list.
LEMMA MissedIn ==
  ASSUME NEW V, NEW list \in Seq(V), Missed(list) # {}
  PROVE  Min(Missed(list)) \in DOMAIN list /\ list[Min(Missed(list))] \in V
<1>1. PICK T : T = Missed(list)
  OBVIOUS
<1>2. T \subseteq DOMAIN list /\ T # {}
  BY <1>1 DEF Missed
<1>3. DOMAIN list = 1 .. Len(list) /\ Len(list) \in Nat
  OBVIOUS
<1>4. T \subseteq Nat
  BY <1>2, <1>3
<1>5. PICK k : k = Min(T) /\ k \in DOMAIN list
  BY <1>2, <1>4, MinIn
<1>6. list[k] \in V
  BY <1>3, <1>5, ElementOfSeq
<1> QED
  BY <1>1, <1>5, <1>6

\* A word before a text.
LEMMA Prefixed ==
  ASSUME NEW U, NEW w \in U, NEW name \in Seq(U)
  PROVE  /\ <<w>> \o name \in Seq(U) /\ Len(<<w>> \o name) = 1 + Len(name)
         /\ Len(name) \in Nat
<1>1. PICK h : h = <<w>>
  OBVIOUS
<1>2. h \in Seq(U) /\ Len(h) = 1
  BY <1>1
<1>3. h \o name \in Seq(U) /\ Len(h \o name) = Len(h) + Len(name)
  BY <1>2, ConcatProperties
<1> QED
  BY <1>1, <1>2, <1>3

\* Both sides of a comparison grow by one.
LEMMA OneMore ==
  ASSUME NEW n \in Nat, NEW k \in Nat, k <= n
  PROVE  1 + k <= n + 1
OBVIOUS

\* What handle_request says of it.
LEMMA MissedText ==
  ASSUME NEW U, NEW name \in Seq(U), Len(name) <= MAX_MSG_LEN, "Ticker does not exist" \in U
  PROVE  LET e == <<"Ticker does not exist">> \o name
         IN  e \in Seq(U) /\ Len(e) <= MAX_MSG_LEN + 1
<1>1. PICK w \in U : w = "Ticker does not exist"
  OBVIOUS
<1>2. PICK e : e = <<w>> \o name
  OBVIOUS
<1>3. e \in Seq(U) /\ Len(e) = 1 + Len(name) /\ Len(name) \in Nat
  BY <1>2, Prefixed, Zenon
<1>4. MAX_MSG_LEN \in Nat
  BY ExchangeAssumption
<1>5. 1 + Len(name) <= MAX_MSG_LEN + 1
  BY <1>3, <1>4, OneMore, Zenon
<1> QED
  BY <1>1, <1>2, <1>3, <1>5, Zenon

\* A client that was sent nothing is sent the response.
LEMMA Answered ==
  ASSUME NEW U, Bytes \subseteq U, NEW t \in Seq(U), FitsU32(Len(t)), NEW r, NEW b,
         \/ r.pc = "len" /\ r.buf = <<>> /\ r.msg_len = 4
         \/ r.pc = "done" /\ r.msg.type = "ParseErr"
  PROVE  PipeInv(r, Frame(t), b, <<>>, Framed(t))
<1>1. PICK x, F, p : x = ToBeBytes(Len(t)) /\ F = Frame(t) /\ p = Framed(t)
  OBVIOUS
<1>2. F = x \o t /\ p = <<x, t>>
  BY <1>1 DEF Frame, Framed
<1>3. x \in Seq(U)
  <2>1. Len(t) \in Nat
    OBVIOUS
  <2> QED
    BY <1>1, <2>1, BeBytes, Zenon
<1>4. F \in Seq(U)
  BY <1>1, FrameType, Zenon
<1>5. \E y \in Seq(U), z \in Seq(U) : F = y \o z /\ p = <<y, z>>
  BY <1>2, <1>3, Zenon
<1>6. CASE r.pc = "len" /\ r.buf = <<>> /\ r.msg_len = 4
  BY <1>1, <1>4, <1>5, <1>6, PipeStart, Zenon
<1>7. CASE r.pc = "done" /\ r.msg.type = "ParseErr"
  BY <1>7 DEF PipeInv, ReaderInv
<1> QED
  BY <1>6, <1>7

\* Sequences of one and two.
LEMMA OnePiece ==
  ASSUME NEW V, NEW x \in V
  PROVE  <<x>> \in Seq(V) /\ Len(<<x>>) = 1
OBVIOUS

\* A length and a text.
LEMMA TwoPieces ==
  ASSUME NEW V, NEW x \in V, NEW y \in V
  PROVE  <<x, y>> \in Seq(V) /\ Len(<<x, y>>) <= 2
OBVIOUS

\* handle_request decides on one of the responses.
LEMMA Decided ==
  ASSUME ExchangeInv, Handle
  PROVE  response' \in Responses
<1>1. PICK U, F, m : U = Units /\ F = Stream(input) /\ m = reader["server"].msg
  OBVIOUS
<1>2. F \in Seq(U)
  <2>1. input \in Inputs
    BY DEF ExchangeInv, TypeInv
  <2> QED
    BY <1>1, <2>1, StreamType, Zenon
<1>3. PICK a : a = Announced(F)
  OBVIOUS
<1>4. /\ FromBeBytes(F) \in Nat /\ FromBeBytes(F) <= MAX_MSG_LEN
      /\ 4 + FromBeBytes(F) <= Len(F) /\ m = TcpFromString(a)
  <2>1. spc = "read" /\ reader["server"].pc = "done" /\ m.type # "ParseErr"
    BY <1>1, Zenon DEF Handle
  <2>2. Pipe("server", F)
    BY <1>1, <2>1 DEF ExchangeInv, RequestInv
  <2>3. ReaderInv(reader["server"], F)
    BY <2>2 DEF Pipe, PipeInv
  <2> QED
    BY <1>1, <1>3, <2>1, <2>3, Zenon DEF ReaderInv
<1>5. a \in Seq(U) /\ Len(a) = FromBeBytes(F)
  BY <1>2, <1>3, <1>4, AnnouncedType, Zenon
<1>6. "Ticker does not exist" \in U /\ "Unexpected message type" \in U
  BY <1>1, UnitsAre DEF Words
<1>7. \A e \in Seq(U) : Len(e) <= MAX_MSG_LEN + 1 => Err(e) \in Responses
  BY <1>1, Zenon DEF Responses
<1>8. CASE m.type # "Cmd"
  <2>1. response' = Err(<<"Unexpected message type">>)
    BY <1>1, <1>8, Zenon DEF Handle
  <2>2. PICK e : e = <<"Unexpected message type">>
    OBVIOUS
  <2>3. e \in Seq(U) /\ Len(e) = 1
    BY <1>6, <2>2, OnePiece, Zenon
  <2>4. Len(e) <= MAX_MSG_LEN + 1
    <3>1. \A n \in Nat : 1 <= n + 1
      OBVIOUS
    <3> QED
      BY <2>3, <3>1, ExchangeAssumption, Zenon
  <2> QED
    BY <1>7, <2>1, <2>2, <2>3, <2>4, Zenon
<1>9. CASE m.type = "Cmd"
  <2>1. PICK list : list = m.cmd.tickers_list
    OBVIOUS
  <2>2. CASE Missed(list) = {}
    <3>1. response' = Ack
      BY <1>1, <1>9, <2>1, <2>2, Zenon DEF Handle
    <3> QED
      BY <3>1, Zenon DEF Responses
  <2>3. CASE Missed(list) # {}
    <3>1. response' = Err(<<"Ticker does not exist">> \o list[Min(Missed(list))])
      BY <1>1, <1>9, <2>1, <2>3, Zenon DEF Handle
    <3>2. list \in Seq(Seq(U)) /\ \A k \in DOMAIN list : Len(list[k]) <= Len(a)
      BY <1>4, <1>5, <1>9, <2>1, ParsedNames, Zenon
    <3>3. PICK V : V = Seq(U)
      OBVIOUS
    <3>4. Min(Missed(list)) \in DOMAIN list /\ list[Min(Missed(list))] \in V
      BY <2>3, <3>2, <3>3, MissedIn, Zenon
    <3>5. PICK name : name = list[Min(Missed(list))]
      OBVIOUS
    <3>6. name \in Seq(U) /\ Len(name) <= Len(a)
      BY <3>2, <3>3, <3>4, <3>5, Zenon
    <3>7. Len(name) <= MAX_MSG_LEN
      <4>1. PICK x, y : x = Len(name) /\ y = FromBeBytes(F) /\ x \in Nat /\ y \in Nat
                        /\ x <= y /\ y <= MAX_MSG_LEN
        BY <1>4, <1>5, <3>6
      <4>2. MAX_MSG_LEN \in Nat
        BY ExchangeAssumption
      <4>3. x <= MAX_MSG_LEN
        BY <4>1, <4>2
      <4> QED
        BY <4>1, <4>3
    <3>8. PICK e : e = <<"Ticker does not exist">> \o name
      OBVIOUS
    <3>9. e \in Seq(U) /\ Len(e) <= MAX_MSG_LEN + 1
      BY <1>6, <3>6, <3>7, <3>8, MissedText, Zenon
    <3> QED
      BY <1>7, <3>1, <3>5, <3>8, <3>9, Zenon
  <2> QED
    BY <2>2, <2>3
<1> QED
  BY <1>8, <1>9

\* A message was read.
LEMMA HandleStep ==
  ASSUME ExchangeInv, Handle
  PROVE  ExchangeInv'
<1>1. PICK U, t : U = Units /\ t = TcpToString(response')
  OBVIOUS
<1>2. response' \in Responses
  BY Decided
<1>3. t \in Seq(U) /\ FitsU32(Len(t)) /\ Bytes \subseteq U
  <2>1. PICK m \in Responses : m = response'
    BY <1>2
  <2>2. t \in Seq(U) /\ FitsU32(Len(t))
    BY <1>1, <2>1, ResponseText, Zenon
  <2>3. Bytes \subseteq U
    BY <1>1, UnitsAre
  <2> QED
    BY <2>2, <2>3
<1>4. PICK p : p = Framed(t)
  OBVIOUS
<1>5. /\ spc = "read" /\ spc' = "respond" /\ out' = [out EXCEPT !["server"] = p]
      /\ closed' = closed /\ input' = input /\ cpc' = cpc /\ wire' = wire
      /\ broken' = broken /\ reader' = reader
  BY <1>1, <1>4, Zenon DEF Handle, handlerUnchanged
<1>6. TypeInv(U) /\ Silent("client") /\ Pipe("server", Stream(input))
  BY <1>1, <1>5 DEF ExchangeInv, RequestInv, ResponseInv
<1>7. p \in Seq(Seq(U)) /\ Len(p) <= 2
  <2>1. PICK x : x = ToBeBytes(Len(t))
    OBVIOUS
  <2>2. Len(t) \in Nat
    BY <1>3
  <2>3. x \in Seq(U)
    BY <1>3, <2>1, <2>2, BeBytes, Zenon
  <2>4. p = <<x, t>> /\ t \in Seq(U)
    BY <1>3, <1>4, <2>1 DEF Framed
  <2> QED
    BY <2>3, <2>4, TwoPieces, Zenon
<1>8. PICK O : O = Seq(Seq(U))
  OBVIOUS
<1>9. out \in [Sides -> O] /\ p \in O
  BY <1>6, <1>7, <1>8 DEF TypeInv
<1>10. out' \in [Sides -> O] /\ out'["server"] = p /\ out'["client"] = out["client"]
  BY <1>5, <1>9, PeerIs
<1>11. \A s \in Sides : Len(out'[s]) <= 2
  <2>1. \A s \in Sides : s = "server" \/ s = "client"
    BY DEF Sides
  <2>2. Len(out["client"]) <= 2
    BY <1>6, PeerIs DEF TypeInv
  <2> QED
    BY <1>7, <1>10, <2>1, <2>2, Zenon
<1>12. TypeInv(U)'
  BY <1>5, <1>6, <1>8, <1>10, <1>11, Zenon DEF TypeInv
<1>13. Untouched("server")
  BY <1>5, <1>10, PeerIs DEF Untouched
<1>14. PICK F : F = Stream(input)
  OBVIOUS
<1>15. Pipe("server", F)'
  BY <1>6, <1>13, <1>14, PeerIs, UntouchedPipe, Zenon
<1>16. PICK r, b : r = reader["client"] /\ b = broken
  OBVIOUS
<1>17. \/ r.pc = "len" /\ r.buf = <<>> /\ r.msg_len = 4
       \/ r.pc = "done" /\ r.msg.type = "ParseErr"
  <2>1. r.pc \in {"len", "data", "done"}
    <3>1. r \in Readers(U)
      BY <1>6, <1>16, PeerIs, SideTypes, Zenon
    <3> QED
      BY <3>1, ReaderFields, Zenon
  <2> QED
    BY <1>6, <1>16, <2>1 DEF Silent
<1>18. PipeInv(r, Frame(t), b, <<>>, p)
  BY <1>3, <1>4, <1>17, Answered, Zenon
<1>19. Pipe("client", Frame(t))'
  <2>1. wire["client"] = <<>>
    BY <1>6 DEF Silent
  <2>2. reader'["client"] = r /\ broken' = b /\ wire'["client"] = <<>> /\ out'[Peer("client")] = p
    BY <1>5, <1>10, <1>16, <2>1, PeerIs
  <2> QED
    BY <1>18, <2>2, Zenon DEF Pipe
<1>20. RequestInv'
  BY <1>5, <1>14, <1>15, Zenon DEF RequestInv
<1>21. ResponseInv'
  BY <1>1, <1>2, <1>5, <1>19, Zenon DEF ResponseInv
<1> QED
  BY <1>1, <1>12, <1>20, <1>21, Zenon DEF ExchangeInv

-----------------------------------------------------------------------------
(***************************************************************************)
(* The invariant is inductive.                                             *)
(***************************************************************************)

\* Both directions keep their streams, if nothing else is decided.
LEMMA Kept ==
  ASSUME ExchangeInv, TypeInv(Units)', input' = input, response' = response,
         spc' = spc \/ (spc = "read" /\ spc' = "done") \/ (spc = "respond" /\ spc' = "done"),
         spc = "off" => reader'["server"].pc # "done",
         spc # "off" => \A F \in Seq(Units) :
                          IsStream(F) /\ Pipe("server", F) => Pipe("server", F)',
         Silent("client") => Silent("client")',
         \A F \in Seq(Units) : IsStream(F) /\ Pipe("client", F) => Pipe("client", F)'
  PROVE  ExchangeInv'
<1>1. RequestInv'
  <2>1. PICK F : F = Stream(input)
    OBVIOUS
  <2>2. F \in Seq(Units) /\ IsStream(F)
    BY <2>1, StreamType, Zenon DEF ExchangeInv, TypeInv
  <2>3. spc # "off" => Pipe("server", F)'
    BY <2>1, <2>2, Zenon DEF ExchangeInv, RequestInv
  <2>4. (spc' = "off" => spc = "off") /\ (spc' # "off" => spc # "off")
    OBVIOUS
  <2> QED
    BY <2>1, <2>3, <2>4, Zenon DEF RequestInv
<1>2. ResponseInv'
  <2>1. CASE spc \in {"off", "read", "done"} /\ Silent("client")
    <3>1. spc' \in {"off", "read", "done"} /\ Silent("client")'
      BY <2>1
    <3> QED
      BY <3>1, Zenon DEF ResponseInv
  <2>2. CASE /\ spc \in {"respond", "done"} /\ response \in Responses
             /\ Pipe("client", Frame(TcpToString(response)))
    <3>1. PICK m, F : m = response /\ F = Frame(TcpToString(response))
      OBVIOUS
    <3>2. F \in Seq(Units) /\ IsStream(F)
      <4>1. TcpToString(m) \in Seq(Units) /\ FitsU32(Len(TcpToString(m)))
        BY <2>2, <3>1, ResponseText, Zenon
      <4>2. Bytes \subseteq Units
        BY UnitsAre
      <4> QED
        BY <3>1, <4>1, <4>2, FrameType, Zenon
    <3>3. Pipe("client", F)'
      BY <2>2, <3>1, <3>2, Zenon
    <3>4. spc' \in {"respond", "done"} /\ response' \in Responses
      BY <2>2
    <3> QED
      BY <3>1, <3>3, <3>4, Zenon DEF ResponseInv
  <2> QED
    BY <2>1, <2>2, Zenon DEF ExchangeInv, ResponseInv
<1> QED
  BY <1>1, <1>2, Zenon DEF ExchangeInv

\* What a step of a reader does to the two sides.
LEMMA ReaderEffect ==
  ASSUME ExchangeInv, NEW s \in Sides,
         Recv(s) \/ RecvFails(s) \/ GotLength(s) \/ GotText(s)
  PROVE  /\ TypeInv(Units)' /\ Untouched(Peer(s)) /\ (Silent(s) => Silent(s)')
         /\ \A F \in Seq(Units) : IsStream(F) /\ Pipe(s, F) => Pipe(s, F)'
<1>1. PICK U : U = Units
  OBVIOUS
<1>2. TypeInv(U)
  BY <1>1 DEF ExchangeInv
<1>3. Active(s)
  BY DEF Recv, RecvFails, GotLength, GotText
<1>4. /\ Silent(s) => TypeInv(U)' /\ Silent(s)' /\ Untouched(Peer(s))
      /\ \A F \in Seq(U) : IsStream(F) /\ Pipe(s, F) =>
           TypeInv(U)' /\ Pipe(s, F)' /\ Untouched(Peer(s))
  <2>1. CASE Recv(s)
    BY <1>2, <2>1, RecvStep, Zenon
  <2>2. CASE RecvFails(s)
    BY <1>2, <2>2, FailStep, Zenon
  <2>3. CASE GotLength(s)
    BY <1>2, <2>3, LengthStep, Zenon
  <2>4. CASE GotText(s)
    BY <1>2, <2>4, TextStep, Zenon
  <2> QED
    BY <2>1, <2>2, <2>3, <2>4
<1>5. Silent(s) \/ \E F \in Seq(U) : IsStream(F) /\ Pipe(s, F)
  <2>1. CASE s = "server"
    <3>1. PICK F : F = Stream(input)
      OBVIOUS
    <3>2. Pipe(s, F)
      BY <1>3, <2>1, <3>1 DEF Active, ExchangeInv, RequestInv
    <3> QED
      BY <1>1, <1>2, <3>1, <3>2, StreamType, Zenon DEF TypeInv
  <2>2. CASE s = "client" /\ ~Silent(s)
    <3>1. PICK m, F : m = response /\ F = Frame(TcpToString(response))
      OBVIOUS
    <3>2. m \in Responses /\ Pipe(s, F)
      BY <2>2, <3>1, Zenon DEF ExchangeInv, ResponseInv
    <3>3. TcpToString(m) \in Seq(Units) /\ FitsU32(Len(TcpToString(m)))
      BY <3>2, ResponseText, Zenon
    <3>4. Bytes \subseteq Units
      BY UnitsAre
    <3>5. F \in Seq(U) /\ IsStream(F)
      BY <1>1, <3>1, <3>3, <3>4, FrameType, Zenon
    <3> QED
      BY <3>2, <3>5
  <2> QED
    BY <2>1, <2>2 DEF Sides
<1> QED
  BY <1>1, <1>4, <1>5, Zenon

\* A step of a reader.
LEMMA ReaderStep ==
  ASSUME ExchangeInv, NEW s \in Sides,
         Recv(s) \/ RecvFails(s) \/ GotLength(s) \/ GotText(s)
  PROVE  ExchangeInv'
<1>1. input' = input /\ response' = response /\ spc' = spc /\ Active(s)
  BY DEF Recv, RecvFails, GotLength, GotText, readUnchanged
<1>2. /\ TypeInv(Units)' /\ Untouched(Peer(s)) /\ (Silent(s) => Silent(s)')
      /\ \A F \in Seq(Units) : IsStream(F) /\ Pipe(s, F) => Pipe(s, F)'
  BY ReaderEffect, Zenon
<1>3. CASE s = "server"
  <2>1. spc = "read" /\ Peer(s) = "client"
    BY <1>1, <1>3, PeerIs DEF Active
  <2>2. /\ Silent("client") => Silent("client")'
        /\ \A F : Pipe("client", F) => Pipe("client", F)'
    BY <1>2, <2>1, PeerIs, UntouchedPipe, Zenon
  <2> QED
    BY <1>1, <1>2, <1>3, <2>1, <2>2, Kept, Zenon
<1>4. CASE s = "client"
  <2>1. Untouched("server")
    BY <1>2, <1>4, PeerIs, Zenon
  <2>2. \A F : Pipe("server", F) => Pipe("server", F)'
    BY <2>1, PeerIs, UntouchedPipe, Zenon
  <2>3. spc = "off" => reader'["server"].pc # "done"
    BY <2>1 DEF Untouched, ExchangeInv, RequestInv
  <2> QED
    BY <1>1, <1>2, <1>4, <2>2, <2>3, Kept, Zenon
<1> QED
  BY <1>3, <1>4 DEF Sides

\* A step that leaves both directions alone.
LEMMA QuietStep ==
  ASSUME ExchangeInv, UNCHANGED <<input, wire, out, reader, broken, response>>,
         spc' = spc \/ (spc = "read" /\ spc' = "done"),
         cpc' \in {"connect", "send", "await", "subscribed", "sleep"}, closed' \subseteq Sides
  PROVE  ExchangeInv'
<1>1. TypeInv(Units) /\ spc' \in {"off", "read", "respond", "done"}
  BY DEF ExchangeInv, TypeInv
<1>2. TypeInv(Units)' /\ \A s \in Sides : Untouched(s)
  BY <1>1, IdleStep, Zenon
<1>3. \A s \in Sides : /\ \A F : Pipe(s, F) => Pipe(s, F)'
                       /\ Silent(s) => Silent(s)'
  BY <1>2, UntouchedPipe, Zenon
<1>4. spc = "off" => reader'["server"].pc # "done"
  BY DEF ExchangeInv, RequestInv
<1> QED
  BY <1>2, <1>3, <1>4, PeerIs, Kept, Zenon

\* A step of a writer: it writes, or it stops.
LEMMA WriterStep ==
  ASSUME ExchangeInv, NEW s \in Sides, TypeInv(Units)', Untouched(s),
         Silent(Peer(s)) => Silent(Peer(s))',
         \A F \in Seq(Units) : Pipe(Peer(s), F) => Pipe(Peer(s), F)',
         reader' = reader, input' = input, response' = response,
         spc' = spc \/ (spc = "respond" /\ spc' = "done")
  PROVE  ExchangeInv'
<1>1. /\ \A F : Pipe(s, F) => Pipe(s, F)'
      /\ Silent(s) => Silent(s)'
  BY UntouchedPipe, Zenon
<1>2. spc = "off" => reader'["server"].pc # "done"
  BY DEF ExchangeInv, RequestInv
<1>3. /\ Silent("client") => Silent("client")'
      /\ \A F \in Seq(Units) : Pipe("client", F) => Pipe("client", F)'
      /\ \A F \in Seq(Units) : Pipe("server", F) => Pipe("server", F)'
  <2>1. CASE s = "client"
    BY <1>1, <2>1, PeerIs, Zenon
  <2>2. CASE s = "server"
    BY <1>1, <2>2, PeerIs, Zenon
  <2> QED
    BY <2>1, <2>2 DEF Sides
<1> QED
  BY <1>2, <1>3, Kept, Zenon

\* Every step keeps the invariant.
LEMMA ExchangeNext == ExchangeInv /\ [Next]_vars => ExchangeInv'
<1> SUFFICES ASSUME ExchangeInv, [Next]_vars PROVE ExchangeInv'
  OBVIOUS
<1>1. /\ TypeInv(Units) /\ closed \subseteq Sides
      /\ cpc \in {"connect", "send", "await", "subscribed", "sleep"}
      /\ spc \in {"off", "read", "respond", "done"}
  BY DEF ExchangeInv, TypeInv
<1>2. \A C : C \subseteq Sides => closed \cup C \subseteq Sides
  BY <1>1
<1>3. CASE Connect
  BY <1>3, ConnectStep
<1>4. CASE Handle
  BY <1>4, HandleStep
<1>5. CASE HandlerFails \/ SpawnPanics
  <2>1. /\ UNCHANGED <<input, wire, out, reader, broken, response>> /\ cpc' = cpc
        /\ spc = "read" /\ spc' = "done" /\ closed' = closed \cup {"server"}
    BY <1>5 DEF HandlerFails, SpawnPanics, handlerUnchanged
  <2>2. closed' \subseteq Sides
    BY <1>2, <2>1, PeerIs
  <2> QED
    BY <1>1, <2>1, <2>2, QuietStep, Zenon
<1>6. CASE HandlerEnds
  <2>1. /\ spc = "respond" /\ (broken \/ out["server"] = <<>>) /\ spc' = "done"
        /\ out' = [out EXCEPT !["server"] = <<>>] /\ closed' = closed \cup {"server"}
        /\ UNCHANGED <<input, wire, reader, broken>> /\ cpc' = cpc /\ response' = response
    BY <1>6, Zenon DEF HandlerEnds, handlerUnchanged
  <2>2. PICK s \in Sides : s = "server"
    BY PeerIs
  <2>3. closed' \subseteq Sides /\ spc' \in {"off", "read", "respond", "done"}
    BY <1>2, <2>1, PeerIs
  <2>4. /\ TypeInv(Units)' /\ Untouched(s)
        /\ \A F : Pipe(Peer(s), F) => Pipe(Peer(s), F)'
        /\ Silent(Peer(s)) => Silent(Peer(s))'
    BY <1>1, <2>1, <2>2, <2>3, DropStep, Zenon
  <2> QED
    BY <2>1, <2>4, WriterStep, Zenon
<1>7. CASE Sent
  <2>1. /\ UNCHANGED <<input, wire, out, reader, broken, response>> /\ cpc' = "await"
        /\ spc' = spc
        /\ closed' = closed \cup (IF input.kind = "raw" THEN {"client"} ELSE {})
    BY <1>7 DEF Sent, clientUnchanged
  <2>2. closed' \subseteq Sides
    BY <1>2, <2>1, PeerIs
  <2> QED
    BY <2>1, <2>2, QuietStep, Zenon
<1>8. CASE SendFails
  <2>1. /\ broken /\ cpc' = "sleep" /\ spc' = spc
        /\ out' = [out EXCEPT !["client"] = <<>>] /\ closed' = closed
        /\ UNCHANGED <<input, wire, reader, broken>> /\ response' = response
    BY <1>8, Zenon DEF SendFails, clientUnchanged
  <2>2. PICK s \in Sides : s = "client"
    BY PeerIs
  <2>3. /\ TypeInv(Units)' /\ Untouched(s)
        /\ \A F : Pipe(Peer(s), F) => Pipe(Peer(s), F)'
        /\ Silent(Peer(s)) => Silent(Peer(s))'
    BY <1>1, <2>1, <2>2, DropStep, Zenon
  <2> QED
    BY <2>1, <2>3, WriterStep, Zenon
<1>9. CASE Joined
  <2>1. /\ UNCHANGED <<input, wire, out, reader, broken, response>>
        /\ cpc' \in {"subscribed", "sleep"} /\ spc' = spc
        /\ closed' = closed \cup {"client"}
    BY <1>9 DEF Joined, clientUnchanged
  <2>2. closed' \subseteq Sides
    BY <1>2, <2>1, PeerIs
  <2> QED
    BY <2>1, <2>2, QuietStep, Zenon
<1>10. CASE Retry
  <2>1. /\ UNCHANGED <<input, wire, out, reader, broken, response>> /\ cpc' = "connect"
        /\ spc' = spc /\ closed' = closed
    BY <1>10 DEF Retry, clientUnchanged
  <2> QED
    BY <1>1, <2>1, QuietStep, Zenon
<1>11. ASSUME NEW s \in Sides, Write(s) PROVE ExchangeInv'
  <2>1. /\ reader' = reader /\ input' = input /\ response' = response /\ spc' = spc
    BY <1>11 DEF Write
  <2>2. /\ ~Silent(Peer(s)) /\ TypeInv(Units)' /\ Untouched(s)
        /\ \A F \in Seq(Units) : Pipe(Peer(s), F) => Pipe(Peer(s), F)'
    BY <1>1, <1>11, WriteStep, Zenon
  <2> QED
    BY <2>1, <2>2, WriterStep, Zenon
<1>12. ASSUME NEW s \in Sides, Recv(s) \/ RecvFails(s) \/ GotLength(s) \/ GotText(s)
       PROVE  ExchangeInv'
  BY <1>12, ReaderStep, Zenon
<1>13. CASE Break
  <2>1. reader' = reader /\ input' = input /\ response' = response /\ spc' = spc
    BY <1>13 DEF Break
  <2>2. TypeInv(Units)'
    BY <1>1, <1>13, PeerIs, BreakStep, Zenon
  <2>3. \A s \in Sides : /\ Silent(s) => Silent(s)'
                         /\ \A F : Pipe(s, F) => Pipe(s, F)'
    BY <1>1, <1>13, BreakStep, Zenon
  <2>4. spc = "off" => reader'["server"].pc # "done"
    BY <2>1 DEF ExchangeInv, RequestInv
  <2> QED
    BY <2>1, <2>2, <2>3, <2>4, PeerIs, Kept, Zenon
<1>14. CASE Done \/ UNCHANGED vars
  <2>1. /\ UNCHANGED <<input, wire, out, reader, broken, response>> /\ cpc' = cpc
        /\ spc' = spc /\ closed' = closed
    BY <1>14 DEF Done, vars
  <2> QED
    BY <1>1, <2>1, QuietStep, Zenon
<1> QED
  BY <1>3, <1>4, <1>5, <1>6, <1>7, <1>8, <1>9, <1>10, <1>11, <1>12, <1>13, <1>14
     DEF Next, Step

\* It holds before the first connection.
LEMMA ExchangeInit == Init => ExchangeInv
<1> SUFFICES ASSUME Init PROVE ExchangeInv
  OBVIOUS
<1>1. PICK W, O, R, r, e : W = Seq(Units) /\ O = Seq(Seq(Units)) /\ R = Readers(Units)
                           /\ r = Reading /\ e = <<>>
  OBVIOUS
<1>2. r \in R /\ r.pc = "len" /\ r.buf = e /\ r.msg_len = 4
  BY <1>1, ReadingType, Zenon
<1>3. e \in W /\ e \in O /\ Len(e) <= 2
  <2>1. \A V : <<>> \in Seq(V) /\ Len(<<>>) <= 2
    OBVIOUS
  <2> QED
    BY <1>1, <2>1, Zenon
<1>4. /\ input \in Inputs /\ cpc = "connect" /\ spc = "off" /\ closed = {} /\ broken = FALSE
      /\ out = [s \in Sides |-> e] /\ wire = [s \in Sides |-> e]
      /\ reader = [s \in Sides |-> r]
  BY <1>1, Zenon DEF Init
<1>5. /\ out \in [Sides -> O] /\ wire \in [Sides -> W] /\ reader \in [Sides -> R]
      /\ \A s \in Sides : out[s] = e /\ wire[s] = e /\ reader[s] = r
  BY <1>2, <1>3, <1>4
<1>6. TypeInv(Units)
  BY <1>1, <1>3, <1>4, <1>5, Zenon DEF TypeInv
<1>7. RequestInv
  BY <1>2, <1>4, <1>5, PeerIs DEF RequestInv
<1>8. Silent("client")
  BY <1>1, <1>2, <1>5, PeerIs DEF Silent
<1> QED
  BY <1>4, <1>6, <1>7, <1>8, Zenon DEF ExchangeInv, ResponseInv

\* Everything that was, is and will be read on a connection is one stream.
THEOREM ExchangeInvCorrect == Spec => []ExchangeInv
<1>1. Init => ExchangeInv
  BY ExchangeInit
<1>2. ExchangeInv /\ [Next]_vars => ExchangeInv'
  BY ExchangeNext
<1> QED
  BY <1>1, <1>2, PTL DEF Spec

-----------------------------------------------------------------------------
(***************************************************************************)
(* What the runs check.                                                    *)
(***************************************************************************)

\* The types of the runs follow.
LEMMA InvType == ExchangeInv => TypeOK
<1> SUFFICES ASSUME ExchangeInv PROVE TypeOK
  OBVIOUS
<1>1. PICK U : U = Units
  OBVIOUS
<1>2. TypeInv(U)
  BY <1>1 DEF ExchangeInv
<1>3. \A y \in {4, MAX_MSG_LEN} : Max({4, MAX_MSG_LEN}) >= y
  <2>1. \E x \in {4, MAX_MSG_LEN} : \A y \in {4, MAX_MSG_LEN} : x >= y
    BY ExchangeAssumption, SMT
  <2> QED
    BY <2>1, Zenon DEF Max
<1>4. Max({4, MAX_MSG_LEN}) \in Nat
  <2>1. \E x \in {4, MAX_MSG_LEN} : \A y \in {4, MAX_MSG_LEN} : x >= y
    BY ExchangeAssumption, SMT
  <2>2. Max({4, MAX_MSG_LEN}) \in {4, MAX_MSG_LEN}
    BY <2>1, Zenon DEF Max
  <2> QED
    BY <2>2, ExchangeAssumption
<1>5. PICK x : x = Max({4, MAX_MSG_LEN}) /\ x \in Nat /\ x >= 4 /\ x >= MAX_MSG_LEN
  BY <1>3, <1>4
<1>6. \A n \in Lengths : n <= x
  BY <1>5, ExchangeAssumption DEF Lengths
<1>7. ASSUME NEW s \in Sides
      PROVE  /\ reader[s].pc \in {"len", "data", "done"} /\ reader[s].msg_len <= x
             /\ Missing(s) >= 0
  <2>1. PICK r \in Readers(U) : r = reader[s]
    BY <1>2, SideTypes, Zenon
  <2>2. /\ r.pc \in {"len", "data", "done"} /\ Len(r.buf) \in Nat /\ r.msg_len \in Lengths
        /\ r.msg_len \in Nat /\ Len(r.buf) <= r.msg_len
    BY ReaderFields, Zenon
  <2>3. PICK a, b : a = r.msg_len /\ b = Len(r.buf) /\ a \in Nat /\ b \in Nat /\ b <= a
    BY <2>2
  <2>4. a - b >= 0
    BY <2>3
  <2>5. Missing(s) = a - b
    BY <2>1, <2>3 DEF Missing
  <2> QED
    BY <1>6, <2>1, <2>2, <2>4, <2>5, Zenon
<1> QED
  BY <1>2, <1>5, <1>7, Zenon DEF TypeOK, TypeInv

\* No length that a peer announces makes a reader allocate more than
\* MAX_MSG_LEN, or take more units than it asked for.
THEOREM ExchangeTypeCorrect == Spec => []TypeOK
<1>1. ExchangeInv => TypeOK
  BY InvType
<1> QED
  BY <1>1, ExchangeInvCorrect, PTL

\* The streams hold the texts that the two sides have framed.
LEMMA InvIntegrity == ExchangeInv => FrameIntegrity
<1> SUFFICES ASSUME ExchangeInv PROVE FrameIntegrity
  OBVIOUS
<1>1. ASSUME reader["server"].pc = "done", reader["server"].msg.type # "ParseErr",
             input.kind # "raw"
      PROVE  reader["server"].msg = TcpFromString(TcpToString(Command(input)))
  <2>1. PICK F : F = Stream(input)
    OBVIOUS
  <2>2. Pipe("server", F)
    BY <1>1, <2>1 DEF ExchangeInv, RequestInv
  <2>3. reader["server"].msg = TcpFromString(Announced(F))
    BY <1>1, <2>2, Zenon DEF Pipe, PipeInv, ReaderInv
  <2>4. input \in Inputs
    BY DEF ExchangeInv, TypeInv
  <2>5. Announced(F) = ClientText(input)
    BY <1>1, <2>1, <2>4, StreamType, Zenon
  <2> QED
    BY <2>3, <2>5, Zenon DEF ClientText
<1>2. ASSUME reader["client"].pc = "done", reader["client"].msg.type # "ParseErr"
      PROVE  reader["client"].msg = response
  <2>1. ~Silent("client")
    BY <1>2 DEF Silent
  <2>2. PICK m, t : m = response /\ t = TcpToString(response)
    OBVIOUS
  <2>3. m \in Responses /\ Pipe("client", Frame(t))
    BY <2>1, <2>2, Zenon DEF ExchangeInv, ResponseInv
  <2>4. reader["client"].msg = TcpFromString(Announced(Frame(t)))
    BY <1>2, <2>3, Zenon DEF Pipe, PipeInv, ReaderInv
  <2>5. t \in Seq(Units) /\ FitsU32(Len(t)) /\ TcpFromString(t) = m
    BY <2>2, <2>3, ResponseText, Zenon
  <2>6. Bytes \subseteq Units
    BY UnitsAre
  <2>7. Announced(Frame(t)) = t
    BY <2>5, <2>6, FrameType, Zenon
  <2> QED
    BY <2>2, <2>4, <2>5, <2>7, Zenon
<1> QED
  BY <1>1, <1>2, Zenon DEF FrameIntegrity

\* What read_tcp_message returns is what the peer has framed, for every text
\* and every way in which the stream is cut or lost.
THEOREM FrameIntegrityCorrect == Spec => []FrameIntegrity
<1>1. ExchangeInv => FrameIntegrity
  BY InvIntegrity
<1> QED
  BY <1>1, ExchangeInvCorrect, PTL

-----------------------------------------------------------------------------
(***************************************************************************)
(* What an Ack means.                                                      *)
(***************************************************************************)

\* The list that the command's text carries was registered, as it is.
AckIsRegistered ==
  cpc = "subscribed" /\ input.kind # "raw" =>
    LET m == TcpFromString(TcpToString(Command(input)))
    IN  /\ m.type = "Cmd" /\ registered = m.cmd.tickers_list
        /\ \A k \in DOMAIN registered : registered[k] \in Configured

\* A subscribed client has read an Ack, and an Ack that was sent is one for
\* the list of the command that was read.
AckInv ==
  /\ cpc = "subscribed" => reader["client"].pc = "done" /\ reader["client"].msg = Ack
  /\ ~Silent("client") /\ response = Ack =>
       /\ reader["server"].pc = "done" /\ reader["server"].msg.type = "Cmd"
       /\ registered = reader["server"].msg.cmd.tickers_list
       /\ Missed(registered) = {}

\* A step that neither connects nor decides.
LEMMA AckKept ==
  ASSUME ExchangeInv, AckInv, response' = response, registered' = registered,
         Silent("client") => Silent("client")',
         spc \in {"respond", "done"} => reader'["server"] = reader["server"],
         cpc' = "subscribed" => reader'["client"].pc = "done" /\ reader'["client"].msg = Ack
  PROVE  AckInv'
<1>1. ASSUME ~Silent("client")', response' = Ack
      PROVE  /\ reader'["server"].pc = "done" /\ reader'["server"].msg.type = "Cmd"
             /\ registered' = reader'["server"].msg.cmd.tickers_list
             /\ Missed(registered') = {}
  <2>1. ~Silent("client") /\ response = Ack
    BY <1>1
  <2>2. spc \in {"respond", "done"}
    BY <2>1 DEF ExchangeInv, ResponseInv
  <2> QED
    BY <2>1, <2>2, Zenon DEF AckInv
<1> QED
  BY <1>1, Zenon DEF AckInv

\* Every step keeps the invariant of the Ack.
LEMMA AckNext == ExchangeInv /\ AckInv /\ [Next]_vars => AckInv'
<1> SUFFICES ASSUME ExchangeInv, AckInv, [Next]_vars PROVE AckInv'
  OBVIOUS
<1>1. TypeInv(Units)
  BY DEF ExchangeInv
<1>2. Ack.type # "ParseErr" /\ \A e : Err(e) # Ack
  <2>1. \A e : Err(e).type = "Err" /\ Ack.type = "Ack"
    BY Kinds
  <2> QED
    BY <2>1
<1>3. CASE Connect
  <2>1. /\ reader'["client"] = Reading /\ wire'["client"] = <<>> /\ out'["server"] = <<>>
        /\ cpc' = "send"
    BY <1>3, PeerIs DEF Connect
  <2>2. Silent("client")'
    BY <2>1, FreshSilent, Zenon
  <2> QED
    BY <2>1, <2>2 DEF AckInv
<1>4. CASE Handle
  <2>1. reader' = reader /\ cpc' = cpc /\ reader["server"].pc = "done"
    BY <1>4 DEF Handle, handlerUnchanged
  <2>2. PICK m : m = reader["server"].msg
    OBVIOUS
  <2>3. ASSUME response' = Ack
        PROVE  m.type = "Cmd" /\ registered' = m.cmd.tickers_list /\ Missed(registered') = {}
    <3>1. m.type = "Cmd"
      BY <1>2, <1>4, <2>2, <2>3, Zenon DEF Handle
    <3>2. PICK list : list = m.cmd.tickers_list
      OBVIOUS
    <3>3. Missed(list) = {}
      BY <1>2, <1>4, <2>2, <2>3, <3>1, <3>2, Zenon DEF Handle
    <3>4. registered' = list
      BY <1>4, <2>2, <3>1, <3>2, <3>3, Zenon DEF Handle
    <3> QED
      BY <3>1, <3>2, <3>3, <3>4
  <2> QED
    BY <2>1, <2>2, <2>3, Zenon DEF AckInv
<1>5. CASE \/ HandlerFails \/ Sent \/ Retry \/ Done \/ UNCHANGED vars
  <2>1. /\ UNCHANGED <<wire, out, reader, response, registered>>
        /\ cpc' = "subscribed" => cpc = "subscribed"
    BY <1>5 DEF HandlerFails, handlerUnchanged, Sent, Retry, clientUnchanged, Done, vars
  <2>2. Silent("client") => Silent("client")'
    BY <2>1 DEF Silent
  <2> QED
    BY <2>1, <2>2, AckKept DEF AckInv
<1>6. CASE Joined
  <2>1. /\ UNCHANGED <<wire, out, reader, response, registered>>
        /\ reader["client"].pc = "done"
        /\ cpc' = "subscribed" => reader["client"].msg = Ack
    BY <1>6 DEF Joined, clientUnchanged
  <2>2. Silent("client") => Silent("client")'
    BY <2>1 DEF Silent
  <2> QED
    BY <2>1, <2>2, AckKept
<1>7. CASE HandlerEnds \/ SendFails
  <2>1. /\ UNCHANGED <<wire, reader, response, registered>>
        /\ cpc' = "subscribed" => cpc = "subscribed"
        /\ \/ out' = [out EXCEPT !["server"] = <<>>]
           \/ out' = [out EXCEPT !["client"] = <<>>]
    BY <1>7, Zenon DEF HandlerEnds, handlerUnchanged, SendFails, clientUnchanged
  <2>2. out["server"] = <<>> => out'["server"] = <<>>
    <3>1. PICK O, e : O = Seq(Seq(Units)) /\ e = <<>>
      OBVIOUS
    <3>2. out \in [Sides -> O]
      BY <1>1, <3>1 DEF TypeInv
    <3>3. \/ out' = [out EXCEPT !["server"] = e]
          \/ out' = [out EXCEPT !["client"] = e]
      BY <2>1, <3>1
    <3> QED
      BY <3>1, <3>2, <3>3, PeerIs
  <2>3. Silent("client") => Silent("client")'
    BY <2>1, <2>2, PeerIs DEF Silent
  <2> QED
    BY <2>1, <2>3, AckKept DEF AckInv
<1>8. CASE Break
  <2>1. Silent("client") => Silent("client")'
    BY <1>1, <1>8, PeerIs, BreakStep, Zenon
  <2>2. UNCHANGED <<cpc, reader, response, registered>>
    BY <1>8 DEF Break
  <2> QED
    BY <2>1, <2>2, AckKept DEF AckInv
<1>9. ASSUME NEW s \in Sides, Write(s) PROVE AckInv'
  <2>1. ~Silent(Peer(s)) /\ Untouched(s)
    BY <1>1, <1>9, WriteStep, Zenon
  <2>2. Silent("client") => Silent("client")'
    <3>1. CASE s = "server"
      BY <2>1, <3>1, PeerIs
    <3>2. CASE s = "client"
      BY <2>1, <3>2, UntouchedPipe, Zenon
    <3> QED
      BY <3>1, <3>2 DEF Sides
  <2>3. UNCHANGED <<cpc, reader, response, registered>>
    BY <1>9 DEF Write
  <2> QED
    BY <2>2, <2>3, AckKept DEF AckInv
<1>10. ASSUME NEW s \in Sides, Recv(s) \/ RecvFails(s) \/ GotLength(s) \/ GotText(s)
       PROVE  AckInv'
  <2>1. UNCHANGED <<cpc, response, registered>> /\ Active(s)
    BY <1>10 DEF Recv, RecvFails, GotLength, GotText, readUnchanged
  <2>2. Untouched(Peer(s)) /\ (Silent(s) => Silent(s)')
    BY <1>10, ReaderEffect, Zenon
  <2>3. CASE s = "server"
    <3>1. Untouched("client")
      BY <2>2, <2>3, PeerIs, Zenon
    <3>2. spc = "read"
      BY <2>1, <2>3 DEF Active
    <3>3. Silent("client") => Silent("client")'
      BY <3>1, PeerIs, UntouchedPipe, Zenon
    <3>4. reader'["client"] = reader["client"]
      BY <3>1 DEF Untouched
    <3> QED
      BY <2>1, <3>2, <3>3, <3>4, AckKept DEF AckInv
  <2>4. CASE s = "client"
    <3>1. Untouched("server")
      BY <2>2, <2>4, PeerIs, Zenon
    <3>2. cpc \in {"send", "await"}
      BY <2>1, <2>4 DEF Active
    <3>3. reader'["server"] = reader["server"]
      BY <3>1 DEF Untouched
    <3> QED
      BY <2>1, <2>2, <2>4, <3>2, <3>3, AckKept
  <2> QED
    BY <2>3, <2>4 DEF Sides
<1>11. CASE SpawnPanics
  <2>1. spc = "read" /\ UNCHANGED <<wire, out, reader, cpc>>
    BY <1>11 DEF SpawnPanics, handlerUnchanged
  <2>2. Silent("client")
    BY <2>1 DEF ExchangeInv, ResponseInv
  <2>3. Silent("client")'
    BY <2>1, <2>2 DEF Silent
  <2> QED
    BY <2>1, <2>3 DEF AckInv
<1> QED
  BY <1>3, <1>4, <1>5, <1>6, <1>7, <1>8, <1>9, <1>10, <1>11 DEF Next, Step

\* It holds at the beginning, when nothing was sent.
LEMMA AckInit == Init => AckInv
<1> SUFFICES ASSUME Init PROVE AckInv
  OBVIOUS
<1>1. ExchangeInv /\ spc = "off" /\ cpc = "connect"
  BY ExchangeInit DEF Init
<1>2. Silent("client")
  BY <1>1 DEF ExchangeInv, ResponseInv
<1> QED
  BY <1>1, <1>2 DEF AckInv

\* The two invariants give the command that an Ack answers.
LEMMA AckedCommand ==
  ASSUME ExchangeInv, AckInv, cpc = "subscribed", input.kind # "raw"
  PROVE  LET m == reader["server"].msg
         IN  /\ m.type = "Cmd" /\ registered = m.cmd.tickers_list
             /\ Missed(registered) = {} /\ m = TcpFromString(TcpToString(Command(input)))
<1>1. Ack.type # "ParseErr" /\ "Cmd" # "ParseErr"
  BY Kinds
<1>2. reader["client"].pc = "done" /\ reader["client"].msg = Ack
  BY DEF AckInv
<1>3. ~Silent("client")
  BY <1>1, <1>2 DEF Silent
<1>4. FrameIntegrity
  BY InvIntegrity
<1>5. response = Ack
  BY <1>1, <1>2, <1>4, Zenon DEF FrameIntegrity
<1>6. /\ reader["server"].pc = "done" /\ reader["server"].msg.type = "Cmd"
      /\ registered = reader["server"].msg.cmd.tickers_list
      /\ Missed(registered) = {}
  BY <1>3, <1>5, Zenon DEF AckInv
<1>7. reader["server"].msg = TcpFromString(TcpToString(Command(input)))
  BY <1>1, <1>4, <1>6, Zenon DEF FrameIntegrity
<1> QED
  BY <1>6, <1>7, Zenon

\* Its names are configured.
LEMMA InvRegistered == ExchangeInv /\ AckInv => AckIsRegistered
<1> SUFFICES ASSUME ExchangeInv, AckInv, cpc = "subscribed", input.kind # "raw"
             PROVE  LET m == TcpFromString(TcpToString(Command(input)))
                    IN  /\ m.type = "Cmd" /\ registered = m.cmd.tickers_list
                        /\ \A k \in DOMAIN registered : registered[k] \in Configured
  BY DEF AckIsRegistered
<1>1. PICK m : /\ m = reader["server"].msg /\ m.type = "Cmd"
               /\ registered = m.cmd.tickers_list /\ Missed(registered) = {}
               /\ m = TcpFromString(TcpToString(Command(input)))
  BY AckedCommand, Zenon
<1>2. \A k \in DOMAIN registered : registered[k] \in Configured
  BY <1>1, Zenon DEF Missed
<1> QED
  BY <1>1, <1>2, Zenon

\* A client that holds an Ack is registered for the list that the text of its
\* command carries, every name of which the generator knows, whatever
\* connections it gave up on before.
THEOREM AckIsRegisteredCorrect == Spec => []AckIsRegistered
<1>1. Init => AckInv
  BY AckInit
<1>2. ExchangeInv /\ AckInv /\ [Next]_vars => AckInv'
  BY AckNext
<1>3. ExchangeInv /\ AckInv => AckIsRegistered
  BY InvRegistered
<1> QED
  BY <1>1, <1>2, <1>3, ExchangeInvCorrect, PTL DEF Spec

\* An Ack is for the names of the client.
LEMMA RegisteredIsExact == input \in Inputs /\ AckIsRegistered => AckIsExact
<1> DEFINE list == ClientTickers(input)
<1> SUFFICES ASSUME input \in Inputs, AckIsRegistered, cpc = "subscribed",
                    input.kind # "raw", Plain(list)
             PROVE  /\ list # <<>>
                    /\ registered # None /\ Range(registered) = Range(list)
  BY DEF AckIsExact
<1>1. PICK U : list \in Seq(Seq(U))
  BY TickersType
<1>2. list # None
  BY InputsAssumption
<1>3. Ip \in Ips /\ Port \in Ports /\ <<>> \notin Configured
  BY ExchangeAssumption
<1> HIDE DEF list
<1>4. PICK c : c = [ip |-> Ip, port |-> Port, tickers_list |-> Returned(list)]
  OBVIOUS
<1>5. TcpFromString(TcpToString(Command(input))) = Cmd(c)
  <2>1. Command(input) = Cmd([ip |-> Ip, port |-> Port, tickers_list |-> list])
    BY DEF Command, list
  <2> QED
    BY <1>1, <1>3, <1>4, <2>1, CommandRoundTrip
<1>6. registered = Returned(list) /\ \A k \in DOMAIN registered : registered[k] \in Configured
  <2>1. Cmd(c).cmd = c /\ c.tickers_list = Returned(list)
    BY <1>4, Kinds
  <2> QED
    BY <1>5, <2>1, Zenon DEF AckIsRegistered
<1>7. list # <<>>
  <2>1. SUFFICES ASSUME list = <<>> PROVE FALSE
    OBVIOUS
  <2>2. registered = << <<>> >>
    BY <1>6, <2>1 DEF Returned
  <2>3. 1 \in DOMAIN registered /\ registered[1] = <<>>
    BY <2>2
  <2> QED
    BY <1>3, <1>6, <2>3
<1>8. registered = list
  BY <1>6, <1>7 DEF Returned
<1> QED
  BY <1>2, <1>7, <1>8

\* A client that holds an Ack is registered for the names it was started with,
\* all of them and no others, if they hold no separators, and there is at
\* least one: whatever the length of the list and of the names.
THEOREM AckIsExactCorrect == Spec => []AckIsExact
<1>1. ExchangeInv => input \in Inputs
  BY InvType DEF TypeOK
<1>2. input \in Inputs /\ AckIsRegistered => AckIsExact
  BY RegisteredIsExact
<1> QED
  BY <1>1, <1>2, ExchangeInvCorrect, AckIsRegisteredCorrect, PTL

\* Names with separators are cut.
LEMMA InvNames == ExchangeInv /\ AckInv => NamesAreCut
<1> DEFINE list == ClientTickers(input)
           msg == reader["server"].msg
<1> SUFFICES ASSUME ExchangeInv, AckInv, cpc = "subscribed", input.kind # "raw"
             PROVE  /\ registered = CutNames(list)
                    /\ msg.cmd.ip = Ip /\ msg.cmd.port = Port
  BY Zenon DEF NamesAreCut, CutNames
<1>1. /\ msg.type = "Cmd" /\ registered = msg.cmd.tickers_list
      /\ msg = TcpFromString(TcpToString(Command(input)))
  BY AckedCommand
<1>2. input \in Inputs
  BY InvType DEF TypeOK
<1>3. PICK U : list \in Seq(Seq(U))
  BY <1>2, TickersType
<1>4. Ip \in Ips /\ Port \in Ports
  BY ExchangeAssumption
<1>5. Command(input) = Cmd([ip |-> Ip, port |-> Port, tickers_list |-> list])
  BY DEF Command
<1> HIDE DEF list, msg
<1>6. msg = TcpFromString(TcpToString(Cmd([ip |-> Ip, port |-> Port, tickers_list |-> list])))
  BY <1>1, <1>5, Zenon
<1>7. msg.cmd.ip = Ip /\ msg.cmd.port = Port /\ msg.cmd.tickers_list = CutNames(list)
  BY <1>1, <1>3, <1>4, <1>6, CommandIsCut
<1> QED
  BY <1>1, <1>7, Zenon

\* A client that holds an Ack, whatever separators its names hold, is
\* registered for them up to the first "|", cut at every comma, and the command
\* that was handled carries its own address.
THEOREM NamesAreCutCorrect == Spec => []NamesAreCut
<1>1. Init => AckInv
  BY AckInit
<1>2. ExchangeInv /\ AckInv /\ [Next]_vars => AckInv'
  BY AckNext
<1>3. ExchangeInv /\ AckInv => NamesAreCut
  BY InvNames
<1> QED
  BY <1>1, <1>2, <1>3, ExchangeInvCorrect, PTL DEF Spec

-----------------------------------------------------------------------------
(***************************************************************************)
(* Neither side waits for the other: what is announced is what is written, *)
(* so a handler that has been sent everything misses nothing.              *)
(***************************************************************************)

\* The units that are yet to be written.
Unwritten(o) ==
  IF Len(o) = 0 THEN 0 ELSE IF Len(o) = 1 THEN Len(o[1]) ELSE Len(o[1]) + Len(o[2])

\* With those that are read and those on the wire.
Total(r, w, o) == Base(r) + Len(r.buf) + Len(w) + Unwritten(o)

\* One piece, or two.
LEMMA UnwrittenPieces ==
  ASSUME NEW o
  PROVE  /\ Len(o) = 0 => Unwritten(o) = 0
         /\ Len(o) = 1 => Unwritten(o) = Len(o[1])
         /\ Len(o) = 2 => Unwritten(o) = Len(o[1]) + Len(o[2])
<1>1. 1 # 0 /\ 2 # 0 /\ 2 # 1
  OBVIOUS
<1> QED
  BY <1>1, Zenon DEF Unwritten

\* A sequence of at most two.
LEMMA AtMostTwo ==
  ASSUME NEW V, NEW o \in Seq(V), Len(o) <= 2
  PROVE  \/ Len(o) = 0 /\ o = <<>>
         \/ Len(o) = 1 /\ o[1] \in V /\ Head(o) = o[1] /\ Len(Tail(o)) = 0
         \/ /\ Len(o) = 2 /\ o[1] \in V /\ o[2] \in V /\ Head(o) = o[1]
            /\ Len(Tail(o)) = 1 /\ Tail(o)[1] = o[2]
<1>1. Len(o) = 0 \/ Len(o) = 1 \/ Len(o) = 2
  <2>1. PICK n \in Nat : n = Len(o) /\ n <= 2
    OBVIOUS
  <2>2. n = 0 \/ n = 1 \/ n = 2
    BY <2>1
  <2> QED
    BY <2>1, <2>2
<1>2. CASE Len(o) = 0
  BY <1>2
<1>3. CASE Len(o) = 1
  BY <1>3
<1>4. CASE Len(o) = 2
  <2>1. /\ Head(o) = o[1] /\ Len(Tail(o)) = Len(o) - 1
        /\ \A k \in 1 .. Len(Tail(o)) : Tail(o)[k] = o[k + 1]
    <3>1. o # <<>>
      BY <1>4
    <3> QED
      BY <3>1, HeadTailProperties
  <2>2. Len(Tail(o)) = 1
    BY <1>4, <2>1
  <2>3. Tail(o)[1] = o[1 + 1]
    BY <2>1, <2>2
  <2>4. o[1] \in V /\ o[2] \in V
    BY <1>4
  <2>5. 1 + 1 = 2
    OBVIOUS
  <2> QED
    BY <1>4, <2>1, <2>2, <2>3, <2>4, <2>5
<1> QED
  BY <1>1, <1>2, <1>3, <1>4

\* They are the first piece and the others.
LEMMA UnwrittenIs ==
  ASSUME NEW U, NEW o \in Seq(Seq(U)), Len(o) <= 2
  PROVE  /\ Unwritten(o) \in Nat
         /\ o # <<>> => Unwritten(o) = Len(Head(o)) + Unwritten(Tail(o))
<1>1. PICK V : V = Seq(U)
  OBVIOUS
<1>2. \A x \in V : Len(x) \in Nat
  BY <1>1
<1>3. PICK h, q : h = Head(o) /\ q = Tail(o)
  OBVIOUS
<1>4. \/ Len(o) = 0 /\ o = <<>>
      \/ Len(o) = 1 /\ o[1] \in V /\ h = o[1] /\ Len(q) = 0
      \/ /\ Len(o) = 2 /\ o[1] \in V /\ o[2] \in V /\ h = o[1]
         /\ Len(q) = 1 /\ q[1] = o[2]
  BY <1>1, <1>3, AtMostTwo, Zenon
<1>5. CASE Len(o) = 0 /\ o = <<>>
  <2>1. Unwritten(o) = 0
    BY <1>5, UnwrittenPieces
  <2> QED
    BY <1>5, <2>1
<1>6. CASE Len(o) = 1 /\ o[1] \in V /\ h = o[1] /\ Len(q) = 0
  <2>1. PICK x \in Nat : x = Len(h)
    BY <1>2, <1>6
  <2>2. Unwritten(o) = x /\ Unwritten(q) = 0
    BY <1>6, <2>1, UnwrittenPieces, Zenon
  <2>3. x = x + 0
    OBVIOUS
  <2> QED
    BY <1>3, <2>1, <2>2, <2>3, Zenon
<1>7. CASE /\ Len(o) = 2 /\ o[1] \in V /\ o[2] \in V /\ h = o[1]
           /\ Len(q) = 1 /\ q[1] = o[2]
  <2>1. PICK x \in Nat, y \in Nat : x = Len(h) /\ y = Len(o[2])
    BY <1>2, <1>7, Zenon
  <2>2. Unwritten(o) = x + y /\ Unwritten(q) = y
    BY <1>7, <2>1, UnwrittenPieces, Zenon
  <2>3. x + y \in Nat
    OBVIOUS
  <2> QED
    BY <1>3, <2>1, <2>2, <2>3, Zenon
<1> QED
  BY <1>4, <1>5, <1>6, <1>7

\* Writing moves units to the wire.
LEMMA TotalWrite ==
  ASSUME NEW U, NEW r \in Readers(U), NEW w \in Seq(U), NEW o \in Seq(Seq(U)),
         Len(o) <= 2, o # <<>>
  PROVE  Total(r, w \o Head(o), Tail(o)) = Total(r, w, o)
<1>1. PICK a, q, v : a = Head(o) /\ q = Tail(o) /\ v = w \o Head(o)
  OBVIOUS
<1>2. a \in Seq(U) /\ q \in Seq(Seq(U)) /\ Len(q) <= 2
  <2>1. /\ a \in Seq(U) /\ q \in Seq(Seq(U)) /\ Len(o) \in Nat /\ Len(q) = Len(o) - 1
    BY <1>1, HeadTailProperties
  <2> QED
    BY <2>1, SMT
<1>3. Len(w) \in Nat /\ Len(a) \in Nat /\ Len(v) = Len(w) + Len(a)
  BY <1>1, <1>2, ConcatProperties
<1>4. PICK n \in Nat : n = Base(r) + Len(r.buf)
  BY Position
<1>5. Unwritten(q) \in Nat /\ Unwritten(o) = Len(a) + Unwritten(q)
  BY <1>1, <1>2, UnwrittenIs, Zenon
<1>6. Total(r, v, q) = n + Len(v) + Unwritten(q) /\ Total(r, w, o) = n + Len(w) + Unwritten(o)
  BY <1>4, Zenon DEF Total
<1> QED
  BY <1>1, <1>3, <1>5, <1>6

\* Reading moves them to the buffer.
LEMMA TotalRecv ==
  ASSUME NEW U, NEW r \in Readers(U), NEW w \in Seq(U), NEW o \in Seq(Seq(U)), Len(o) <= 2,
         NEW k \in 1 .. Len(w)
  PROVE  Total(Filled(r, Got(r.buf, w, k)), Rest(w, k), o) = Total(r, w, o)
<1>1. PICK q, g, x : q = Filled(r, Got(r.buf, w, k)) /\ g = Got(r.buf, w, k) /\ x = Rest(w, k)
  OBVIOUS
<1>2. /\ r.buf \in Seq(U) /\ Len(r.buf) \in Nat
      /\ r = [pc |-> r.pc, buf |-> r.buf, msg_len |-> r.msg_len, msg |-> r.msg]
  BY ReaderFields
<1>3. q.pc = r.pc /\ q.buf = g
  BY <1>1, <1>2 DEF Filled
<1>4. Len(g) = Len(r.buf) + k
  <2>1. PICK c \in Seq(U) : c = r.buf
    BY <1>2
  <2> QED
    BY <1>1, <2>1, GotLen
<1>5. Len(w) \in Nat /\ Len(x) = Len(w) - k
  BY <1>1 DEF Rest
<1>6. PICK m \in Nat : m = Unwritten(o)
  BY UnwrittenIs, Zenon
<1>7. PICK n \in Nat : n = Base(r) /\ n = Base(q)
  <2>1. Base(q) = Base(r) /\ Base(r) \in Nat
    BY <1>3 DEF Base
  <2> QED
    BY <2>1
<1>8. Total(q, x, o) = n + Len(g) + Len(x) + m /\ Total(r, w, o) = n + Len(r.buf) + Len(w) + m
  BY <1>3, <1>6, <1>7, Zenon DEF Total
<1> QED
  BY <1>1, <1>2, <1>4, <1>5, <1>8

\* The four units of the length are read.
LEMMA TotalLength ==
  ASSUME NEW U, NEW r \in Readers(U), NEW w, NEW o, NEW n, r.pc = "len", Len(r.buf) = 4
  PROVE  Total(Allocated(r, n), w, o) = Total(r, w, o)
<1>1. PICK q : q = Allocated(r, n)
  OBVIOUS
<1>2. r = [pc |-> r.pc, buf |-> r.buf, msg_len |-> r.msg_len, msg |-> r.msg]
  BY ReaderFields
<1>3. q.pc = "data" /\ q.buf = <<>>
  BY <1>1, <1>2 DEF Allocated
<1>4. Base(q) = 4 /\ Len(q.buf) = 0 /\ Base(r) = 0
  BY <1>3 DEF Base
<1>5. Base(q) + Len(q.buf) = Base(r) + Len(r.buf)
  BY <1>4
<1> QED
  BY <1>1, <1>5 DEF Total

\* A reader that is done.
LEMMA FinishedPc ==
  ASSUME NEW U, NEW r \in Readers(U), NEW m
  PROVE  Finished(r, m).pc = "done"
<1>1. r = [pc |-> r.pc, buf |-> r.buf, msg_len |-> r.msg_len, msg |-> r.msg]
  BY ReaderFields
<1> QED
  BY <1>1 DEF Finished

\* A command that is framed.
LEMMA TotalFramed ==
  ASSUME NEW U, Bytes \subseteq U, NEW t \in Seq(U), FitsU32(Len(t))
  PROVE  Total(Reading, <<>>, Framed(t)) = 4 + Len(t)
<1>1. PICK x : x = ToBeBytes(Len(t))
  OBVIOUS
<1>2. Len(t) \in Nat /\ Len(x) = 4
  BY <1>1, BeBytes
<1>3. PICK o : o = <<x, t>>
  OBVIOUS
<1>4. Len(o) = 2 /\ o[1] = x /\ o[2] = t
  BY <1>3
<1>5. Base(Reading) = 0 /\ Len(Reading.buf) = 0
  <2>1. Reading.pc = "len" /\ Reading.buf = <<>>
    BY ReadingType
  <2> QED
    BY <2>1 DEF Base
<1>6. Framed(t) = o
  BY <1>1, <1>3 DEF Framed
<1>7. Len(<<>>) = 0
  OBVIOUS
<1>8. Total(Reading, <<>>, o) = 0 + 0 + 0 + (4 + Len(t))
  <2>1. Unwritten(o) = 4 + Len(t)
    BY <1>2, <1>4, UnwrittenPieces, Zenon
  <2> QED
    BY <1>5, <1>7, <2>1, Zenon DEF Total
<1> QED
  BY <1>2, <1>6, <1>8

\* Where the ends of the stream stand.
EndsInv ==
  /\ spc = "done" => "server" \in closed
  /\ cpc \in {"send", "await"} => spc # "off"
  /\ cpc = "await" /\ input.kind = "raw" => "client" \in closed

\* As long as the handler reads, the units of the client's frame are all there.
WholeInv ==
  cpc \in {"send", "await"} /\ input.kind # "raw" /\ ~broken /\ reader["server"].pc # "done"
    => Total(reader["server"], wire["server"], out["client"]) = 4 + Len(ClientText(input))

\* A thread that ends closes its end.
LEMMA EndsNext == EndsInv /\ [Next]_vars => EndsInv'
<1> SUFFICES ASSUME EndsInv, [Next]_vars PROVE EndsInv'
  OBVIOUS
<1> USE DEF EndsInv
<1>1. CASE Connect
  BY <1>1 DEF Connect
<1>2. CASE Handle
  <2>1. spc' = "respond" /\ UNCHANGED <<input, cpc, closed>>
    BY <1>2 DEF Handle, handlerUnchanged
  <2> QED
    BY <2>1
<1>3. CASE HandlerFails \/ SpawnPanics \/ HandlerEnds
  <2>1. spc' = "done" /\ closed' = closed \cup {"server"} /\ UNCHANGED <<input, cpc>>
    BY <1>3 DEF HandlerFails, SpawnPanics, HandlerEnds, handlerUnchanged
  <2> QED
    BY <2>1
<1>4. CASE Sent
  BY <1>4 DEF Sent, clientUnchanged
<1>5. CASE SendFails
  BY <1>5 DEF SendFails, clientUnchanged
<1>6. CASE Joined
  BY <1>6 DEF Joined, clientUnchanged
<1>7. CASE Retry
  BY <1>7 DEF Retry, clientUnchanged
<1>8. CASE Break \/ Done \/ UNCHANGED vars
  BY <1>8 DEF Break, Done, vars
<1>9. ASSUME NEW s \in Sides, Write(s) PROVE EndsInv'
  BY <1>9 DEF Write
<1>10. ASSUME NEW s \in Sides, Recv(s) \/ RecvFails(s) \/ GotLength(s) \/ GotText(s)
       PROVE  EndsInv'
  <2>1. UNCHANGED <<input, cpc, spc, closed>>
    BY <1>10 DEF Recv, RecvFails, GotLength, GotText, readUnchanged
  <2> QED
    BY <2>1
<1> QED
  BY <1>1, <1>2, <1>3, <1>4, <1>5, <1>6, <1>7, <1>8, <1>9, <1>10 DEF Next, Step

\* A step that adds and loses nothing.
LEMMA WholeKept ==
  ASSUME WholeInv, input' = input, ~broken' => ~broken,
         cpc' \in {"send", "await"} => cpc \in {"send", "await"},
         ~broken' /\ reader'["server"].pc # "done" =>
           /\ reader["server"].pc # "done"
           /\ Total(reader'["server"], wire'["server"], out'["client"])
                = Total(reader["server"], wire["server"], out["client"])
  PROVE  WholeInv'
BY DEF WholeInv

\* Every step keeps the frame whole.
LEMMA WholeNext == ExchangeInv /\ WholeInv /\ [Next]_vars => WholeInv'
<1> SUFFICES ASSUME ExchangeInv, WholeInv, [Next]_vars PROVE WholeInv'
  OBVIOUS
<1>1. PICK U : U = Units /\ TypeInv(U)
  BY DEF ExchangeInv
<1>2. PICK r, w, o : r = reader["server"] /\ w = wire["server"] /\ o = out["client"]
  OBVIOUS
<1>3. r \in Readers(U) /\ w \in Seq(U) /\ o \in Seq(Seq(U)) /\ Len(o) <= 2
  BY <1>1, <1>2, PeerIs, SideTypes, Zenon
<1>4. CASE Connect
  <2>1. SUFFICES ASSUME input'.kind # "raw"
                 PROVE  Total(reader'["server"], wire'["server"], out'["client"])
                          = 4 + Len(ClientText(input'))
    BY DEF WholeInv
  <2>2. PICK i \in Inputs : i = input /\ i = input' /\ i.kind # "raw"
    BY <1>1, <1>4, <2>1 DEF TypeInv, Connect
  <2>3. PICK t \in Seq(U) : t = ClientText(i) /\ FitsU32(Len(t))
    BY <1>1, <2>2, StreamType, Zenon
  <2>4. /\ reader'["server"] = Reading /\ wire'["server"] = <<>>
        /\ out'["client"] = Framed(t)
    <3>1. /\ reader' = [s \in Sides |-> Reading] /\ wire' = [s \in Sides |-> <<>>]
      BY <1>4 DEF Connect
    <3>2. PICK p : p = Framed(t)
      OBVIOUS
    <3>3. out' = [s \in Sides |-> IF s = "server" THEN <<>> ELSE
                                  IF i.kind = "raw" THEN <<i.bytes>> ELSE p]
      BY <1>4, <2>2, <2>3, <3>2, Zenon DEF Connect, ClientText
    <3>4. out'["client"] = p
      BY <2>2, <3>3, PeerIs
    <3> QED
      BY <3>1, <3>2, <3>4, PeerIs
  <2>5. Bytes \subseteq U
    BY <1>1, UnitsAre
  <2>6. Total(Reading, <<>>, Framed(t)) = 4 + Len(t)
    BY <2>3, <2>5, TotalFramed, Zenon
  <2> QED
    BY <2>2, <2>3, <2>4, <2>6, Zenon
<1>5. CASE Handle \/ SpawnPanics \/ HandlerFails
  <2>1. UNCHANGED <<input, cpc, broken, reader>> /\ reader["server"].pc = "done"
    BY <1>5 DEF Handle, SpawnPanics, HandlerFails, handlerUnchanged
  <2> QED
    BY <2>1, WholeKept
<1>6. CASE HandlerEnds
  <2>1. /\ UNCHANGED <<input, cpc, broken, reader, wire>>
        /\ out' = [out EXCEPT !["server"] = <<>>]
    BY <1>6 DEF HandlerEnds, handlerUnchanged
  <2>2. out'["client"] = out["client"]
    BY <1>1, <2>1, PeerIs, Zenon DEF TypeInv
  <2> QED
    BY <2>1, <2>2, WholeKept, Zenon
<1>7. CASE SendFails \/ Joined \/ Retry
  <2>1. cpc' \notin {"send", "await"}
    BY <1>7 DEF SendFails, Joined, Retry
  <2> QED
    BY <2>1 DEF WholeInv
<1>8. CASE Sent \/ Done \/ UNCHANGED vars
  <2>1. /\ UNCHANGED <<input, broken, reader, wire, out>>
        /\ cpc' \in {"send", "await"} => cpc \in {"send", "await"}
    BY <1>8 DEF Sent, clientUnchanged, Done, vars
  <2> QED
    BY <2>1, WholeKept, Zenon
<1>9. CASE Break
  BY <1>9 DEF Break, WholeInv
<1>10. ASSUME NEW s \in Sides, Write(s) PROVE WholeInv'
  <2>1. /\ UNCHANGED <<input, cpc, broken, reader>> /\ out[s] # <<>>
        /\ wire' = [wire EXCEPT ![Peer(s)] = wire[Peer(s)] \o Head(out[s])]
        /\ out' = [out EXCEPT ![s] = Tail(out[s])]
    BY <1>10, Zenon DEF Write
  <2>2. PICK W, O : W = Seq(U) /\ O = Seq(Seq(U)) /\ wire \in [Sides -> W] /\ out \in [Sides -> O]
    BY <1>1 DEF TypeInv
  <2>3. CASE s = "server"
    <3>1. wire'["server"] = wire["server"] /\ out'["client"] = out["client"]
      BY <2>1, <2>2, <2>3, PeerIs, Zenon
    <3> QED
      BY <2>1, <3>1, WholeKept, Zenon
  <2>4. CASE s = "client"
    <3>1. wire'["server"] = w \o Head(o) /\ out'["client"] = Tail(o) /\ o # <<>>
      BY <1>2, <2>1, <2>2, <2>4, PeerIs, Zenon
    <3>2. Total(r, w \o Head(o), Tail(o)) = Total(r, w, o)
      BY <1>3, <3>1, TotalWrite, Zenon
    <3> QED
      BY <1>2, <2>1, <3>1, <3>2, WholeKept, Zenon
  <2> QED
    BY <2>3, <2>4 DEF Sides
<1>11. ASSUME Recv("client") \/ RecvFails("client") \/ GotLength("client") \/ GotText("client")
       PROVE  WholeInv'
  <2>1. Untouched("server")
    BY <1>11, PeerIs, ReaderEffect, Zenon
  <2>2. UNCHANGED <<input, cpc, broken>>
    BY <1>11 DEF Recv, RecvFails, GotLength, GotText, readUnchanged
  <2>3. /\ reader'["server"] = reader["server"] /\ wire'["server"] = wire["server"]
        /\ out'["client"] = out["client"]
    BY <2>1, PeerIs DEF Untouched
  <2> QED
    BY <2>2, <2>3, WholeKept, Zenon
<1>12. CASE Recv("server")
  <2>1. PICK k \in 1 .. Len(w) :
          /\ reader' = [reader EXCEPT !["server"] = [r EXCEPT !.buf = @ \o SubSeq(w, 1, k)]]
          /\ wire' = [wire EXCEPT !["server"] = SubSeq(w, k + 1, Len(w))]
          /\ UNCHANGED readUnchanged /\ r.pc \in {"len", "data"}
    BY <1>2, <1>12, Zenon DEF Recv, Set, Active
  <2>2. PICK q, x : q = Filled(r, Got(r.buf, w, k)) /\ x = Rest(w, k)
    OBVIOUS
  <2>3. reader' = [reader EXCEPT !["server"] = q] /\ wire' = [wire EXCEPT !["server"] = x]
    BY <2>1, <2>2, Zenon DEF Filled, Got, Rest
  <2>4. PICK R, W : R = Readers(U) /\ W = Seq(U) /\ wire \in [Sides -> W] /\ reader \in [Sides -> R]
    BY <1>1 DEF TypeInv
  <2>5. reader'["server"] = q /\ wire'["server"] = x /\ out'["client"] = o
    BY <1>2, <2>1, <2>3, <2>4, PeerIs, Zenon DEF readUnchanged
  <2>6. Total(q, x, o) = Total(r, w, o)
    BY <1>3, <2>2, TotalRecv, Zenon
  <2>7. UNCHANGED <<input, cpc, broken>> /\ r.pc # "done"
    BY <2>1 DEF readUnchanged
  <2> QED
    BY <1>2, <2>5, <2>6, <2>7, WholeKept, Zenon
<1>13. CASE GotLength("server")
  <2>1. /\ r.pc = "len" /\ r.msg_len - Len(r.buf) = 0 /\ UNCHANGED <<wire, readUnchanged>>
        /\ Active("server")
    BY <1>2, <1>13 DEF GotLength, Missing
  <2>2. PICK R : R = Readers(U) /\ reader \in [Sides -> R]
    BY <1>1 DEF TypeInv
  <2>3. UNCHANGED <<input, cpc, broken, wire, out>>
    BY <2>1 DEF readUnchanged
  <2>4. CASE FromBeBytes(r.buf) > MAX_MSG_LEN
    <3>1. reader' = [reader EXCEPT !["server"] = Finished(r, ParseErr("MsgToBig"))]
      BY <1>2, <1>13, <2>4, Zenon DEF GotLength, Set, Finished
    <3>2. reader'["server"] = Finished(r, ParseErr("MsgToBig"))
      BY <2>2, <3>1, PeerIs, Zenon
    <3>3. reader'["server"].pc = "done"
      BY <1>3, <3>2, FinishedPc, Zenon
    <3> QED
      BY <2>3, <3>3, WholeKept, Zenon
  <2>5. CASE ~(FromBeBytes(r.buf) > MAX_MSG_LEN)
    <3>1. PICK q : q = Allocated(r, FromBeBytes(r.buf))
      OBVIOUS
    <3>2. reader' = [reader EXCEPT !["server"] = q]
      BY <1>2, <1>13, <2>5, <3>1, Zenon DEF GotLength, Set, Allocated
    <3>3. reader'["server"] = q
      BY <2>2, <3>2, PeerIs, Zenon
    <3>4. Len(r.buf) = 4
      <4>1. spc = "read"
        BY <2>1 DEF Active
      <4>2. ReaderInv(r, Stream(input))
        BY <1>2, <4>1 DEF ExchangeInv, RequestInv, Pipe, PipeInv
      <4>3. r.msg_len = 4
        BY <2>1, <4>2 DEF ReaderInv
      <4>4. Len(r.buf) \in Nat
        BY <1>3, ReaderFields
      <4> QED
        BY <2>1, <4>3, <4>4
    <3>5. Total(q, w, o) = Total(r, w, o)
      BY <1>3, <2>1, <3>1, <3>4, TotalLength, Zenon
    <3>6. reader["server"].pc # "done"
      BY <1>2, <2>1
    <3> QED
      BY <1>2, <2>3, <3>3, <3>5, <3>6, WholeKept, Zenon
  <2> QED
    BY <2>4, <2>5
<1>14. CASE RecvFails("server") \/ GotText("server")
  <2>1. PICK m : reader' = [reader EXCEPT !["server"] = Finished(r, m)]
    BY <1>2, <1>14, Zenon DEF RecvFails, GotText, Set, Finished
  <2>2. PICK R : R = Readers(U) /\ reader \in [Sides -> R]
    BY <1>1 DEF TypeInv
  <2>3. reader'["server"] = Finished(r, m)
    BY <2>1, <2>2, PeerIs, Zenon
  <2>4. reader'["server"].pc = "done"
    BY <1>3, <2>3, FinishedPc, Zenon
  <2> QED
    BY <2>4 DEF WholeInv
<1> QED
  BY <1>4, <1>5, <1>6, <1>7, <1>8, <1>9, <1>10, <1>11, <1>12, <1>13, <1>14
     DEF Next, Step, Sides

\* Before the first connection.
LEMMA WholeInit == Init => EndsInv /\ WholeInv
  BY DEF Init, EndsInv, WholeInv

\* A handler that has been sent everything has the length and the text.
LEMMA NothingMissed ==
  ASSUME ExchangeInv, EndsInv, WholeInv, cpc = "await", Starved("server")
  PROVE  FALSE
<1>1. PICK U : U = Units /\ TypeInv(U)
  BY DEF ExchangeInv
<1>2. PICK r, i : r = reader["server"] /\ i = input
  OBVIOUS
<1>3. r \in Readers(U) /\ i \in Inputs
  BY <1>1, <1>2, PeerIs, SideTypes, Zenon DEF TypeInv
<1>4. /\ r.pc \in {"len", "data"} /\ spc = "read" /\ r.msg_len - Len(r.buf) > 0
      /\ wire["server"] = <<>> /\ out["client"] = <<>> /\ ~broken /\ "client" \notin closed
  BY <1>2, PeerIs DEF Starved, Active, Missing
<1>5. i.kind # "raw"
  BY <1>2, <1>4 DEF EndsInv
<1>6. PICK F, t : F = Stream(i) /\ t = ClientText(i)
  OBVIOUS
<1>7. t \in Seq(U) /\ FitsU32(Len(t)) /\ F = Frame(t)
  BY <1>1, <1>3, <1>5, <1>6, StreamType, Zenon DEF Stream
<1>8. Len(t) \in Nat /\ FromBeBytes(F) = Len(t)
  <2>1. Bytes \subseteq U
    BY <1>1, UnitsAre
  <2>2. FromBeBytes(F) = Len(t)
    BY <1>7, <2>1, FrameType, Zenon
  <2> QED
    BY <1>7, <2>2
<1>9. Base(r) + Len(r.buf) + 0 + 0 = 4 + Len(t)
  <2>1. Total(r, <<>>, <<>>) = 4 + Len(t)
    BY <1>2, <1>4, <1>5, <1>6, Zenon DEF WholeInv
  <2>2. Len(<<>>) = 0
    OBVIOUS
  <2>3. Unwritten(<<>>) = 0
    BY <2>2, UnwrittenPieces, Zenon
  <2> QED
    BY <2>1, <2>2, <2>3, Zenon DEF Total
<1>10. ReaderInv(r, F)
  BY <1>2, <1>4, <1>6 DEF ExchangeInv, RequestInv, Pipe, PipeInv
<1>11. Len(r.buf) \in Nat
  BY <1>3, ReaderFields
<1>12. CASE r.pc = "len"
  <2>1. r.msg_len = 4 /\ Base(r) = 0
    BY <1>10, <1>12 DEF ReaderInv, Base
  <2> QED
    BY <1>4, <1>8, <1>9, <1>11, <2>1
<1>13. CASE r.pc = "data"
  <2>1. r.msg_len = Len(t) /\ Base(r) = 4
    BY <1>8, <1>10, <1>13 DEF ReaderInv, Base
  <2> QED
    BY <1>4, <1>8, <1>9, <1>11, <2>1
<1> QED
  BY <1>4, <1>12, <1>13

\* The two sides never wait for each other.
LEMMA InvNeverBothWait == ExchangeInv /\ EndsInv /\ WholeInv => NeverBothWait
<1> SUFFICES ASSUME ExchangeInv, EndsInv, WholeInv, cpc = "await", Starved("client")
             PROVE  spc \in {"read", "respond"} /\ ~Starved("server")
  BY DEF NeverBothWait
<1>1. ~Starved("server")
  BY NothingMissed
<1>2. "server" \notin closed
  BY PeerIs DEF Starved
<1>3. spc \in {"off", "read", "respond", "done"}
  BY DEF ExchangeInv, TypeInv
<1> QED
  BY <1>1, <1>2, <1>3 DEF EndsInv

\* Neither read_exact has a timeout, and yet the client's reader and the handler
\* never wait for each other: for every command, however it is cut into pieces,
\* the length that send_command announces is that of the text it writes, and a
\* handler that ends, with or without a response, closes the stream.
THEOREM NeverBothWaitCorrect == Spec => []NeverBothWait
<1>1. Init => ExchangeInv /\ EndsInv /\ WholeInv
  BY ExchangeInit, WholeInit
<1>2. ExchangeInv /\ EndsInv /\ WholeInv /\ [Next]_vars => (ExchangeInv /\ EndsInv /\ WholeInv)'
  BY ExchangeNext, EndsNext, WholeNext
<1>3. ExchangeInv /\ EndsInv /\ WholeInv => NeverBothWait
  BY InvNeverBothWait
<1> QED
  BY <1>1, <1>2, <1>3, PTL DEF Spec
=============================================================================
