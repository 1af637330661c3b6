---------------------------- MODULE WorkerProofs ----------------------------
(***************************************************************************)
(* Proofs about the client for every capacity of the ring buffer: the      *)
(* buffer is a window on the pings sent, a round-trip time is never        *)
(* credited to another ping, and a main that returns leaves no thread.     *)
(***************************************************************************)
EXTENDS Worker, TLAPS

-----------------------------------------------------------------------------
(***************************************************************************)
(* Timestamps and rings.                                                   *)
(***************************************************************************)

\* The number after n, written without the modulus.
LEMMA NextIs ==
  ASSUME NEW n \in Timestamp
  PROVE  /\ (n + 1) % MaxTimestamp \in Timestamp
         /\ (n + 1) % MaxTimestamp =
              IF n + 1 = MaxTimestamp THEN 0 ELSE n + 1
  BY WorkerAssumption DEF Timestamp

\* Counting forward from a timestamp, for at most the length of the cycle: the
\* next ping is one step further, and has another timestamp.
LEMMA CountForward ==
  ASSUME NEW a \in Timestamp, NEW ts \in Timestamp, NEW k \in Nat,
         k < MAX_PING_LOGS, a + k = ts \/ a + k = ts + MaxTimestamp
  PROVE  /\ a # (ts + 1) % MaxTimestamp
         /\ \/ a + k + 1 = (ts + 1) % MaxTimestamp
            \/ a + k + 1 = ((ts + 1) % MaxTimestamp) + MaxTimestamp
<1>1. (ts + 1) % MaxTimestamp = IF ts + 1 = MaxTimestamp THEN 0 ELSE ts + 1
  BY NextIs
<1>2. CASE ts + 1 = MaxTimestamp
  <2>1. (ts + 1) % MaxTimestamp = 0
    BY <1>1, <1>2
  <2> QED
    BY <1>2, <2>1, WorkerAssumption DEF Timestamp
<1>3. CASE ts + 1 # MaxTimestamp
  <2>1. (ts + 1) % MaxTimestamp = ts + 1
    BY <1>1, <1>3
  <2> QED
    BY <1>3, <2>1, WorkerAssumption DEF Timestamp
<1> QED
  BY <1>2, <1>3

\* Of two timestamps that are one step apart the later one is the next.
LEMMA OneStep ==
  ASSUME NEW a \in Timestamp, NEW b \in Timestamp, NEW ts \in Timestamp,
         NEW k \in Nat, k < MAX_PING_LOGS,
         b + k = ts \/ b + k = ts + MaxTimestamp,
         a + k + 1 = ts \/ a + k + 1 = ts + MaxTimestamp
  PROVE  b = (a + 1) % MaxTimestamp
<1>1. (a + 1) % MaxTimestamp = IF a + 1 = MaxTimestamp THEN 0 ELSE a + 1
  BY NextIs
<1>2. CASE a + 1 = MaxTimestamp
  <2>1. b = 0
    BY <1>2, WorkerAssumption DEF Timestamp
  <2> QED
    BY <1>1, <1>2, <2>1
<1>3. CASE a + 1 # MaxTimestamp
  <2>1. b = a + 1
    BY <1>3, WorkerAssumption DEF Timestamp
  <2> QED
    BY <1>1, <1>3, <2>1
<1> QED
  BY <1>2, <1>3

\* Answering a ping changes no timestamp and no position.
LEMMA AnswerType ==
  ASSUME NEW ring \in Seq(PingRecord), NEW ts
  PROVE  /\ Answer(ring, ts) \in Seq(PingRecord)
         /\ Len(Answer(ring, ts)) = Len(ring)
         /\ \A i \in 1 .. Len(ring) :
              /\ Answer(ring, ts)[i].timestamp = ring[i].timestamp
              /\ Answer(ring, ts)[i].rtt_ms = "Some" =>
                   ring[i].rtt_ms = "Some" \/ ring[i].timestamp = ts
<1> DEFINE n == Len(ring)
           a == [i \in 1 .. n |->
                   IF ring[i].timestamp = ts THEN [ring[i] EXCEPT !.rtt_ms = "Some"]
                                             ELSE ring[i]]
<1>1. n \in Nat /\ DOMAIN ring = 1 .. n /\ \A i \in 1 .. n : ring[i] \in PingRecord
  OBVIOUS
<1>2. Answer(ring, ts) = a
  BY <1>1 DEF Answer
<1>3. ASSUME NEW i \in 1 .. n
      PROVE  /\ a[i] \in PingRecord
             /\ a[i].timestamp = ring[i].timestamp
             /\ a[i].rtt_ms = "Some" => ring[i].rtt_ms = "Some" \/ ring[i].timestamp = ts
  BY <1>1 DEF PingRecord
<1>4. a \in Seq(PingRecord) /\ Len(a) = n
  BY <1>1, <1>3
<1> QED
  BY <1>2, <1>3, <1>4

\* A push keeps the most recent records, in order, and the new one is last.
LEMMA PushType ==
  ASSUME NEW ring \in Seq(PingRecord), Len(ring) <= MAX_PING_LOGS,
         NEW r \in PingRecord
  PROVE  /\ Push(ring, r) \in Seq(PingRecord)
         /\ Len(Push(ring, r)) \in 1 .. MAX_PING_LOGS
         /\ Push(ring, r)[Len(Push(ring, r))] = r
         /\ \A i \in 1 .. (Len(Push(ring, r)) - 1) :
              LET j == i + (Len(ring) + 1 - Len(Push(ring, r)))
              IN  j \in 1 .. Len(ring) /\ Push(ring, r)[i] = ring[j]
<1>1. CASE Len(ring) >= MAX_PING_LOGS
  <2>1. /\ Tail(ring) \in Seq(PingRecord) /\ Len(Tail(ring)) = Len(ring) - 1
        /\ \A i \in 1 .. (Len(ring) - 1) : Tail(ring)[i] = ring[i + 1]
        /\ Len(ring) \in Nat \ {0}
    BY <1>1, WorkerAssumption
  <2>2. Push(ring, r) = Append(Tail(ring), r)
    BY <1>1 DEF Push
  <2> QED
    BY <2>1, <2>2, WorkerAssumption
<1>2. CASE ~(Len(ring) >= MAX_PING_LOGS)
  <2>1. Push(ring, r) = Append(ring, r)
    BY <1>2 DEF Push
  <2> QED
    BY <1>2, <2>1, WorkerAssumption
<1> QED
  BY <1>1, <1>2

-----------------------------------------------------------------------------
(***************************************************************************)
(* The invariant.                                                          *)
(***************************************************************************)

\* How many pings ago the i-th record of the ring was sent.
Age(i) == Len(pings) - i + (IF ppc = "record" THEN 1 ELSE 0)

\* Every timestamp in the ring is determined by its place.  RingIsWindow only
\* relates neighbours; from this it follows that the timestamp of the next
\* ping is in no record.
AgeInv ==
  \A i \in 1 .. Len(pings) :
    \/ pings[i].timestamp + Age(i) = timestamp
    \/ pings[i].timestamp + Age(i) = timestamp + MaxTimestamp

\* The order in which the threads start and end.
ThreadInv ==
  /\ ppc # "none" => src_addr
  /\ lpc \in {"bind", "failed"} => ~src_addr
  /\ lpc \in {"join", "done"} => shutdown
  /\ lpc = "done" => ppc \in {"none", "done", "panicked"}
  /\ mainpc \in {"join", "exit"} => shutdown
  /\ mainpc = "exit" => lpc \in {"done", "failed"}

WorkerInv == TypeOK /\ AgeInv /\ RttIsEarned /\ ThreadInv

\* The types of what is in the ring.
LEMMA RingType ==
  ASSUME TypeOK
  PROVE  /\ Len(pings) \in Nat /\ Len(pings) <= MAX_PING_LOGS
         /\ timestamp \in Timestamp
         /\ \A i \in 1 .. Len(pings) : pings[i].timestamp \in Timestamp
<1>1. pings \in Seq(PingRecord) /\ Len(pings) <= MAX_PING_LOGS /\ timestamp \in Timestamp
  BY DEF TypeOK
<1>2. \A i \in 1 .. Len(pings) : pings[i] \in PingRecord
  BY <1>1
<1>3. \A r \in PingRecord : r.timestamp \in Timestamp
  BY DEF PingRecord
<1>4. Len(pings) \in Nat
  BY <1>1
<1> QED
  BY <1>1, <1>2, <1>3, <1>4

\* A new timestamp is in no record: the ring is shorter than the cycle.
LEMMA NextIsFresh ==
  ASSUME TypeOK, AgeInv, ppc = "send", NEW i \in 1 .. Len(pings)
  PROVE  /\ pings[i].timestamp # NextTimestamp
         /\ \/ pings[i].timestamp + (Len(pings) - i) + 1 = NextTimestamp
            \/ pings[i].timestamp + (Len(pings) - i) + 1 = NextTimestamp + MaxTimestamp
<1> DEFINE k == Len(pings) - i
<1>1. /\ pings[i].timestamp \in Timestamp
      /\ timestamp \in Timestamp
      /\ Len(pings) \in Nat /\ Len(pings) <= MAX_PING_LOGS
  BY RingType
<1>2. k \in Nat /\ k < MAX_PING_LOGS /\ Age(i) = k
  BY <1>1, WorkerAssumption DEF Age
<1>3. \/ pings[i].timestamp + k = timestamp
      \/ pings[i].timestamp + k = timestamp + MaxTimestamp
  BY <1>2 DEF AgeInv
<1> HIDE DEF k
<1>4. /\ pings[i].timestamp # NextTimestamp
      /\ \/ pings[i].timestamp + k + 1 = NextTimestamp
         \/ pings[i].timestamp + k + 1 = NextTimestamp + MaxTimestamp
  BY <1>1, <1>2, <1>3, CountForward DEF NextTimestamp
<1> QED
  BY <1>4 DEF k

\* Steps that leave the ring and the last timestamp alone.
LEMMA RingKept ==
  ASSUME WorkerInv, UNCHANGED ringVars, ppc' = "record" <=> ppc = "record"
  PROVE  AgeInv' /\ RttIsEarned'
  BY DEF WorkerInv, ringVars, AgeInv, Age, RttIsEarned

\* Every step of the main thread and of the environment.
LEMMA MainStepInv ==
  ASSUME WorkerInv,
         \/ MainStep \/ CtrlC \/ ServerDies
         \/ \E ts \in Timestamp : ServerPongs(ts) \/ Lose(ts)
  PROVE  WorkerInv'
<1> USE DEF WorkerInv, TypeOK, threadVars, listenVars, mainVars, wireVars, ringVars
<1>1. UNCHANGED ringVars /\ UNCHANGED <<ppc, lpc, src_addr>>
  BY DEF MainStep, CtrlC, ServerDies, ServerPongs, Lose, SendCommand,
    AttemptFails, Retry, Acknowledged, LeaveLoop, JoinListener, StartPanics,
      SetHandlerPanics
<1>2. AgeInv' /\ RttIsEarned'
  BY <1>1, RingKept
<1>3. TypeOK'
  <2>1. mainpc' \in {"connect", "await", "backoff", "watch", "join", "exit",
                   "panicked"}
    BY DEF MainStep, CtrlC, ServerDies, ServerPongs, Lose, SendCommand,
      AttemptFails, Retry, Acknowledged, LeaveLoop, JoinListener, StartPanics,
      SetHandlerPanics
  <2>2. wire_pings' \subseteq Timestamp /\ wire_pongs' \subseteq Timestamp
    BY DEF MainStep, CtrlC, ServerDies, ServerPongs, Lose, SendCommand,
      AttemptFails, Retry, Acknowledged, LeaveLoop, JoinListener, StartPanics,
      SetHandlerPanics
  <2>3. shutdown' \in BOOLEAN /\ running' \in BOOLEAN /\ server_up' \in BOOLEAN
    BY Zenon DEF MainStep, CtrlC, ServerDies, ServerPongs, Lose, SendCommand,
      AttemptFails, Retry, Acknowledged, LeaveLoop, JoinListener, StartPanics,
      SetHandlerPanics
  <2> QED
    BY <1>1, <2>1, <2>2, <2>3
<1>4. ThreadInv'
  BY <1>1 DEF ThreadInv, MainStep, CtrlC, ServerDies, ServerPongs, Lose,
    SendCommand, AttemptFails, Retry, Acknowledged, LeaveLoop, JoinListener, StartPanics,
      SetHandlerPanics
<1> QED
  BY <1>2, <1>3, <1>4

\* Every step of the listener.
LEMMA ListenerStepInv ==
  ASSUME WorkerInv, ListenerStep
  PROVE  WorkerInv'
<1> USE DEF WorkerInv, TypeOK, mainVars, wireVars
<1>1. ASSUME NEW ts \in Timestamp, RecvPong(ts) PROVE WorkerInv'
  <2>1. /\ pings' = Answer(pings, ts) /\ lpc = "recv" /\ lpc' = "check"
        /\ heard' = heard \cup ({ts} \cap Recent(pings))
        /\ wire_pongs' \subseteq wire_pongs
        /\ UNCHANGED <<mainpc, running, shutdown, src_addr, ppc, timestamp,
                       server_up, wire_pings>>
    BY <1>1 DEF RecvPong
  <2>2. /\ pings' \in Seq(PingRecord)
        /\ Len(pings') = Len(pings)
        /\ \A i \in 1 .. Len(pings) :
             /\ pings'[i].timestamp = pings[i].timestamp
             /\ pings'[i].rtt_ms = "Some" =>
                  pings[i].rtt_ms = "Some" \/ pings[i].timestamp = ts
    BY <2>1, AnswerType
  <2>3. AgeInv'
    BY <2>1, <2>2 DEF AgeInv, Age
  <2>4. RttIsEarned'
    <3>1. ASSUME NEW i \in 1 .. Len(pings), pings'[i].rtt_ms = "Some"
          PROVE  pings'[i].timestamp \in heard'
      <4>1. pings[i].timestamp \in Recent(pings)
        BY DEF Recent
      <4> QED
        BY <2>1, <2>2, <3>1, <4>1 DEF RttIsEarned
    <3> QED
      BY <2>2, <3>1 DEF RttIsEarned
  <2>5. TypeOK'
    BY <2>1, <2>2
  <2>6. ThreadInv'
    BY <2>1 DEF ThreadInv
  <2> QED
    BY <2>3, <2>4, <2>5, <2>6
<1>2. ASSUME NEW ts \in Timestamp, PongPanics(ts) PROVE WorkerInv'
  <2>1. /\ lpc = "recv" /\ lpc' = "panicked"
        /\ wire_pongs' \subseteq wire_pongs
        /\ UNCHANGED ringVars
        /\ UNCHANGED <<mainpc, running, shutdown, src_addr, ppc, server_up, wire_pings>>
    BY <1>2 DEF PongPanics
  <2>2. AgeInv' /\ RttIsEarned'
    BY <2>1, RingKept
  <2>3. TypeOK'
    BY <2>1 DEF ringVars
  <2>4. ThreadInv'
    BY <2>1 DEF ThreadInv
  <2> QED
    BY <2>2, <2>3, <2>4
<1>3. CASE Bind \/ CheckShutdown \/ RecvQuote \/ RecvIgnored \/ RecvTimeout
             \/ JoinPinger
  <2>1. UNCHANGED ringVars /\ (ppc' = "record" <=> ppc = "record")
    BY <1>3 DEF Bind, CheckShutdown, RecvQuote, RecvIgnored, RecvTimeout,
      JoinPinger, ThreadInv
  <2>2. AgeInv' /\ RttIsEarned'
    BY <2>1, RingKept
  <2>3. TypeOK'
    <3>1. shutdown' \in BOOLEAN /\ src_addr' \in BOOLEAN
      BY <1>3, Zenon DEF Bind, CheckShutdown, RecvQuote, RecvIgnored, RecvTimeout,
        JoinPinger
    <3> QED
      BY <1>3, <2>1, <3>1 DEF Bind, CheckShutdown, RecvQuote, RecvIgnored,
        RecvTimeout, JoinPinger, ringVars
  <2>4. ThreadInv'
    BY <1>3 DEF ThreadInv, Bind, CheckShutdown, RecvQuote, RecvIgnored,
      RecvTimeout, JoinPinger
  <2> QED
    BY <2>2, <2>3, <2>4
<1> QED
  BY <1>1, <1>2, <1>3 DEF ListenerStep

\* Every step of the ping thread.
LEMMA PingerStepInv ==
  ASSUME WorkerInv, PingerStep
  PROVE  WorkerInv'
<1> USE DEF WorkerInv, TypeOK, mainVars, listenVars, wireVars
<1>1. CASE PingCheck \/ PingerPanics \/ PingNotSent \/ Wake
  <2>1. UNCHANGED ringVars /\ (ppc' = "record" <=> ppc = "record")
    BY <1>1 DEF PingCheck, PingerPanics, PingNotSent, Wake
  <2>2. AgeInv' /\ RttIsEarned'
    BY <2>1, RingKept
  <2>3. TypeOK'
    BY <1>1 DEF PingCheck, PingerPanics, PingNotSent, Wake, ringVars
  <2>4. ThreadInv'
    BY <1>1 DEF PingCheck, PingerPanics, PingNotSent, Wake, ThreadInv
  <2> QED
    BY <2>2, <2>3, <2>4
<1>2. CASE PingSent
  <2>1. /\ ppc = "send" /\ ppc' = "record"
        /\ timestamp' = NextTimestamp /\ pings' = pings
        /\ heard' = heard \ {NextTimestamp}
        /\ wire_pings' = wire_pings \cup {NextTimestamp}
        /\ UNCHANGED <<mainpc, running, shutdown, lpc, src_addr, server_up, wire_pongs>>
    BY <1>2 DEF PingSent
  <2>2. NextTimestamp \in Timestamp
    BY NextIs DEF NextTimestamp
  <2>3. AgeInv'
    <3>1. ASSUME NEW i \in 1 .. Len(pings)
          PROVE  \/ pings'[i].timestamp + Age(i)' = timestamp'
                 \/ pings'[i].timestamp + Age(i)' = timestamp' + MaxTimestamp
      <4>1. Age(i)' = Len(pings) - i + 1
        BY <2>1 DEF Age
      <4>2. pings[i].timestamp + Age(i)' = pings[i].timestamp + (Len(pings) - i) + 1
        <5>1. pings[i].timestamp \in Timestamp /\ Len(pings) \in Nat
          BY RingType
        <5> QED
          BY <4>1, <5>1 DEF Timestamp
      <4> QED
        BY <2>1, <4>2, NextIsFresh
    <3> QED
      BY <2>1, <3>1 DEF AgeInv
  <2>4. RttIsEarned'
    <3>1. ASSUME NEW i \in 1 .. Len(pings), pings[i].rtt_ms = "Some"
          PROVE  pings[i].timestamp \in heard \ {NextTimestamp}
      BY <2>1, <3>1, NextIsFresh DEF RttIsEarned
    <3> QED
      BY <2>1, <3>1 DEF RttIsEarned
  <2>5. TypeOK'
    BY <2>1, <2>2
  <2>6. ThreadInv'
    BY <2>1 DEF ThreadInv
  <2> QED
    BY <2>3, <2>4, <2>5, <2>6
<1>3. CASE RecordPing
  <2> DEFINE r == [timestamp |-> timestamp, rtt_ms |-> "None"]
             n == Len(pings')
             shift == Len(pings) + 1 - n
  <2>1. /\ ppc = "record" /\ ppc' = "sleep" /\ pings' = Push(pings, r)
        /\ heard' = heard \cap Recent(pings)'
        /\ UNCHANGED <<mainpc, running, shutdown, lpc, src_addr, timestamp,
                       server_up, wire_pings, wire_pongs>>
    BY <1>3 DEF RecordPing, Recent
  <2>2. r \in PingRecord
    BY DEF PingRecord
  <2>3. /\ pings' \in Seq(PingRecord)
        /\ n \in 1 .. MAX_PING_LOGS
        /\ pings'[n] = r
        /\ \A i \in 1 .. (n - 1) :
             i + shift \in 1 .. Len(pings) /\ pings'[i] = pings[i + shift]
    BY <2>1, <2>2, PushType
  <2>4. AgeInv'
    <3>0. n \in Nat /\ Len(pings) \in Nat
      BY <2>3, WorkerAssumption
    <3>1. ASSUME NEW i \in 1 .. n
          PROVE  \/ pings'[i].timestamp + Age(i)' = timestamp
                 \/ pings'[i].timestamp + Age(i)' = timestamp + MaxTimestamp
      <4>1. Age(i)' = n - i
        BY <2>1, <3>0 DEF Age
      <4>2. CASE i = n
        <5>1. Age(i)' = 0 /\ pings'[i].timestamp = timestamp
          BY <2>3, <3>0, <4>1, <4>2
        <5> QED
          BY <5>1, WorkerAssumption DEF Timestamp
      <4>3. CASE i # n
        <5>1. i + shift \in 1 .. Len(pings) /\ pings'[i] = pings[i + shift]
          BY <2>3, <3>0, <3>1, <4>3
        <5>2. Age(i + shift) = Age(i)'
          BY <2>1, <3>0, <4>1 DEF Age
        <5> QED
          BY <5>1, <5>2 DEF AgeInv
      <4> QED
        BY <4>2, <4>3
    <3> QED
      BY <2>1, <3>1 DEF AgeInv
  <2>5. RttIsEarned'
    <3>1. ASSUME NEW i \in 1 .. n, pings'[i].rtt_ms = "Some"
          PROVE  pings'[i].timestamp \in heard'
      <4>1. i # n
        BY <2>3, <3>1
      <4>2. i + shift \in 1 .. Len(pings) /\ pings'[i] = pings[i + shift]
        BY <2>3, <3>1, <4>1, WorkerAssumption
      <4>3. pings'[i].timestamp \in heard
        BY <3>1, <4>2 DEF RttIsEarned
      <4>4. pings'[i].timestamp \in Recent(pings)'
        BY <2>3, <3>1 DEF Recent
      <4> QED
        BY <2>1, <4>3, <4>4
    <3> QED
      BY <2>3, <3>1 DEF RttIsEarned
  <2>6. TypeOK'
    BY <2>1, <2>3, WorkerAssumption
  <2>7. ThreadInv'
    BY <2>1 DEF ThreadInv
  <2> QED
    BY <2>4, <2>5, <2>6, <2>7
<1> QED
  BY <1>1, <1>2, <1>3 DEF PingerStep

-----------------------------------------------------------------------------
(***************************************************************************)
(* The results.                                                            *)
(***************************************************************************)

\* The inductive invariant holds in every reachable state of the client.
THEOREM WorkerInvCorrect == Spec => []WorkerInv
<1>1. Init => WorkerInv
  <2> SUFFICES ASSUME Init PROVE WorkerInv
    OBVIOUS
  <2>1. TypeOK
    <3>1. running \in BOOLEAN /\ shutdown \in BOOLEAN /\ src_addr \in BOOLEAN
            /\ server_up \in BOOLEAN
      BY Zenon DEF Init
    <3>2. pings \in Seq(PingRecord) /\ Len(pings) <= MAX_PING_LOGS
      BY WorkerAssumption DEF Init
    <3> QED
      BY <3>1, <3>2, WorkerAssumption DEF Init, TypeOK, Timestamp
  <2> QED
    BY <2>1 DEF Init, WorkerInv, AgeInv, RttIsEarned, ThreadInv
<1>2. WorkerInv /\ [Next]_vars => WorkerInv'
  <2> SUFFICES ASSUME WorkerInv, [Next]_vars PROVE WorkerInv'
    OBVIOUS
  <2>1. CASE UNCHANGED vars
    BY <2>1 DEF vars, threadVars, mainVars, listenVars, ringVars, wireVars,
      WorkerInv, TypeOK, AgeInv, Age, RttIsEarned, ThreadInv
  <2> QED
    BY <2>1, MainStepInv, ListenerStepInv, PingerStepInv DEF Next, Step, Exited
<1> QED
  BY <1>1, <1>2, PTL DEF Spec

\* Every variable of the client keeps its type, and the ring its capacity.
THEOREM WorkerTypeCorrect == Spec => []TypeOK
<1>1. WorkerInv => TypeOK
  BY DEF WorkerInv
<1> QED
  BY <1>1, WorkerInvCorrect, PTL

\* The ring is a window without a gap that ends with the last ping sent,
\* whatever pongs arrive, late or twice, and however often it has wrapped.
THEOREM RingIsWindowCorrect == Spec => []RingIsWindow
<1>1. ASSUME WorkerInv PROVE RingIsWindow
  <2>0. /\ Len(pings) \in Nat /\ Len(pings) <= MAX_PING_LOGS
        /\ timestamp \in Timestamp
        /\ \A i \in 1 .. Len(pings) : pings[i].timestamp \in Timestamp
    BY <1>1, RingType DEF WorkerInv
  <2>1. ASSUME NEW i \in 1 .. (Len(pings) - 1)
        PROVE  pings[i + 1].timestamp = (pings[i].timestamp + 1) % MaxTimestamp
    <3>1. i \in 1 .. Len(pings) /\ i + 1 \in 1 .. Len(pings)
      BY <2>0
    <3> DEFINE k == Age(i + 1)
    <3>2. Age(i) = k + 1 /\ k \in Nat
      BY <2>0 DEF Age
    <3>3. \/ pings[i + 1].timestamp + k = timestamp
          \/ pings[i + 1].timestamp + k = timestamp + MaxTimestamp
      BY <1>1, <3>1 DEF WorkerInv, AgeInv
    <3>4. \/ pings[i].timestamp + k + 1 = timestamp
          \/ pings[i].timestamp + k + 1 = timestamp + MaxTimestamp
      <4>1. pings[i].timestamp + Age(i) = pings[i].timestamp + k + 1
        BY <2>0, <3>1, <3>2 DEF Timestamp
      <4> QED
        BY <1>1, <3>1, <4>1 DEF WorkerInv, AgeInv
    <3>5. k < MAX_PING_LOGS
      BY <2>0, <3>1, WorkerAssumption DEF Age
    <3> HIDE DEF k
    <3> QED
      BY <2>0, <3>1, <3>2, <3>3, <3>4, <3>5, OneStep
  <2>2. ASSUME pings # <<>>
        PROVE  (IF ppc = "record" THEN (Last(pings).timestamp + 1) % MaxTimestamp
                                  ELSE Last(pings).timestamp) = timestamp
    <3>1. Len(pings) \in 1 .. Len(pings) /\ Last(pings) = pings[Len(pings)]
      BY <1>1, <2>2 DEF WorkerInv, TypeOK, Last
    <3>2. Age(Len(pings)) = IF ppc = "record" THEN 1 ELSE 0
      BY <2>0 DEF Age
    <3>3. pings[Len(pings)].timestamp \in Timestamp
      BY <2>0, <3>1
    <3>4. \/ pings[Len(pings)].timestamp + Age(Len(pings)) = timestamp
          \/ pings[Len(pings)].timestamp + Age(Len(pings)) = timestamp + MaxTimestamp
      BY <1>1, <3>1 DEF WorkerInv, AgeInv
    <3>5. CASE ppc = "record"
      <4>1. timestamp = IF pings[Len(pings)].timestamp + 1 = MaxTimestamp THEN 0
                        ELSE pings[Len(pings)].timestamp + 1
        BY <2>0, <3>2, <3>3, <3>4, <3>5, WorkerAssumption DEF Timestamp
      <4> QED
        BY <3>1, <3>3, <3>5, <4>1, NextIs
    <3>6. CASE ppc # "record"
      BY <2>0, <3>1, <3>2, <3>3, <3>4, <3>6, WorkerAssumption DEF Timestamp
    <3> QED
      BY <3>5, <3>6
  <2> QED
    BY <2>1, <2>2 DEF RingIsWindow
<1> QED
  BY <1>1, WorkerInvCorrect, PTL

\* A late, duplicated or reordered pong never gives a round-trip time to a
\* ping other than its own.
THEOREM RttIsEarnedCorrect == Spec => []RttIsEarned
<1>1. WorkerInv => RttIsEarned
  BY DEF WorkerInv
<1> QED
  BY <1>1, WorkerInvCorrect, PTL

\* Whichever thread failed or panicked, main does not return before shutdown
\* is set, the listener has returned and the ping thread, if there was one, has
\* ended; over a panicked listener it does not return at all.
THEOREM ExitIsCleanCorrect == Spec => []ExitIsClean
<1>1. ASSUME WorkerInv PROVE ExitIsClean
  BY <1>1 DEF WorkerInv, TypeOK, ThreadInv, ExitIsClean
<1> QED
  BY <1>1, WorkerInvCorrect, PTL
=============================================================================
