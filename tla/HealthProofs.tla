---------------------------- MODULE HealthProofs ----------------------------
(***************************************************************************)
(* Proofs about the timing of the ping protocol, for every timeout, delay, *)
(* jitter and number of losses that satisfies the assumptions of module    *)
(* Health.                                                                 *)
(***************************************************************************)
EXTENDS Health, TLAPS

\* What the network may still spend before a ping of a living client arrives:
\* a ping on its way arrives within MaxDelay of being sent; otherwise the
\* next one is sent in next_ping, and MaxLost - lost more may be lost.
Budget ==
  IF flight # NoPing THEN MaxDelay - flight
  ELSE next_ping + (MaxLost - lost) * MaxGap + MaxDelay

\* While the client lives, the time already elapsed and the time its next
\* ping may still take fit into the monitor's limit.
BudgetInv ==
  /\ mpc = "done" => ~alive
  /\ alive => /\ elapsed + Budget <= Limit
              /\ next_ping <= MaxGap \/ ~last_ping
              /\ flight # NoPing => /\ next_ping + flight <= MaxGap
                                    /\ next_ping + flight >= BASE_PING_DELAY
                                    /\ lost = 0

\* With only pings on the socket, recv_from times out on schedule.
ScheduleInv ==
  mpc = "listen" /\ stray = "never" => elapsed <= Limit + waited

\* The derived bounds are natural numbers.
LEMMA GapType == MaxGap \in Nat /\ MaxGap > 0 /\ NoPing \in Nat /\ MaxElapsed \in Nat
  BY HealthAssumption DEF MaxGap, NoPing, MaxElapsed

\* Every variable of the ping protocol keeps its type.
THEOREM HealthTypeCorrect == Spec => []TypeOK
<1>1. Init => TypeOK
  <2> SUFFICES ASSUME Init PROVE TypeOK
    OBVIOUS
  <2>1. /\ waited \in 0 .. ReadTimeout /\ elapsed \in 0 .. MaxElapsed
        /\ next_ping \in Nat /\ flight \in 0 .. NoPing /\ lost \in 0 .. MaxLost
    BY HealthAssumption, GapType DEF Init
  <2> QED
    BY <2>1, Zenon DEF Init, TypeOK
<1>2. TypeOK /\ [Next]_vars => TypeOK'
  <2> SUFFICES ASSUME TypeOK, [Next]_vars PROVE TypeOK'
    OBVIOUS
  <2> USE HealthAssumption, GapType DEF TypeOK, NoPing
  <2>1. CASE SendPing
    BY <2>1 DEF SendPing, monitorVars, MaxGap
  <2>2. CASE ClientStops
    BY <2>2 DEF ClientStops, monitorVars
  <2>3. CASE RecvPing
    BY <2>3 DEF RecvPing, MaxElapsed
  <2>4. CASE RecvOther
    BY <2>4 DEF RecvOther, clientVars
  <2>5. CASE RecvTimedOut
    BY <2>5 DEF RecvTimedOut, clientVars
  <2>6. CASE Tick
    BY <2>6 DEF Tick
  <2>7. CASE UNCHANGED vars
    BY <2>7 DEF vars, monitorVars, clientVars
  <2>8. CASE StrayEnds
    BY <2>8 DEF StrayEnds, monitorVars
  <2> QED
    BY <2>1, <2>2, <2>3, <2>4, <2>5, <2>6, <2>7, <2>8 DEF Next
<1> QED
  BY <1>1, <1>2, PTL DEF Spec

\* Losing one more ping moves one gap from the losses to next_ping.
LEMMA LossShift ==
  ASSUME NEW n \in Nat, NEW g \in Nat, n > 0
  PROVE  (n - 1) * g + g = n * g
  OBVIOUS

\* The time that losses may cost is a natural number.
LEMMA ProductNat ==
  ASSUME NEW n \in Nat, NEW g \in Nat
  PROVE  n * g \in Nat
  OBVIOUS

\* monitor_connection never gives up a client that keeps pinging, whatever
\* losses, jitter and delays within the bounds it meets, stray datagrams and
\* socket errors included.
THEOREM NoFalseTimeoutCorrect == Spec => []NoFalseTimeout
<1>1. Init => BudgetInv
  <2> SUFFICES ASSUME Init PROVE BudgetInv
    OBVIOUS
  <2>1. MaxLost * MaxGap \in Nat
    BY GapType, HealthAssumption, ProductNat
  <2>2. Budget <= 3 * MAX_PING_TIMEOUT
    BY <2>1, HealthAssumption, TimingAssumption, GapType DEF Init, Budget, NoPing
  <2> QED
    BY <2>1, <2>2, HealthAssumption, GapType DEF Init, BudgetInv, Limit, Budget, NoPing
<1>2. TypeOK /\ BudgetInv /\ [Next]_vars => BudgetInv'
  <2> SUFFICES ASSUME TypeOK, BudgetInv, [Next]_vars PROVE BudgetInv'
    OBVIOUS
  <2>0. MaxLost - lost \in Nat /\ (MaxLost - lost) * MaxGap \in Nat
    <3>1. MaxLost - lost \in Nat
      BY HealthAssumption DEF TypeOK
    <3> QED
      BY <3>1, GapType, ProductNat
  <2>1. CASE SendPing
    <3>0. alive /\ next_ping = 0 /\ flight = NoPing
      <4>1. alive /\ next_ping = 0
        BY <2>1 DEF SendPing
      <4> QED
        BY <4>1, HealthAssumption, GapType DEF BudgetInv, TypeOK, NoPing
    <3>a. elapsed + (MaxLost - lost) * MaxGap + MaxDelay <= Limit
      BY <3>0, <2>0, HealthAssumption DEF BudgetInv, Budget, TypeOK
    <3>b. /\ alive' = alive /\ elapsed' = elapsed /\ Limit' = Limit
          /\ mpc' = mpc /\ last_ping' = last_ping
      BY <2>1 DEF SendPing, monitorVars, Limit
    <3>c. next_ping' \in BASE_PING_DELAY .. MaxGap
      BY <2>1 DEF SendPing
    <3>1. CASE flight' = 0 /\ lost' = 0
      <4>1. Budget' = MaxDelay /\ elapsed + MaxDelay <= Limit
        <5>1. Budget' = MaxDelay
          BY <3>1, HealthAssumption DEF Budget, NoPing
        <5>2. elapsed \in Nat /\ Limit \in Nat
          BY HealthAssumption, GapType DEF TypeOK, Limit
        <5> QED
          BY <2>0, <3>a, <5>1, <5>2, HealthAssumption
      <4> QED
        <5>1. elapsed' + Budget' <= Limit'
          BY <3>b, <4>1
        <5>2. /\ next_ping' <= MaxGap
              /\ next_ping' + flight' <= MaxGap
              /\ next_ping' + flight' >= BASE_PING_DELAY
              /\ lost' = 0
          <6>1. BASE_PING_DELAY \in Nat /\ MaxGap \in Nat
            BY HealthAssumption, GapType
          <6>2. next_ping' \in Nat /\ next_ping' <= MaxGap /\ next_ping' >= BASE_PING_DELAY
            BY <3>c, <6>1
          <6>3. flight' = 0 /\ lost' = 0
            BY <3>1
          <6> QED
            BY <6>2, <6>3
        <5>3. mpc' # "done"
          BY <3>0, <3>b DEF BudgetInv
        <5> QED
          BY <5>1, <5>2, <5>3, Zenon DEF BudgetInv
    <3>2. CASE lost < MaxLost /\ lost' = lost + 1 /\ UNCHANGED flight
      <4>1. (MaxLost - lost') * MaxGap + MaxGap = (MaxLost - lost) * MaxGap
        <5>1. MaxLost - lost > 0 /\ MaxLost - lost' = (MaxLost - lost) - 1
          BY <3>2, HealthAssumption DEF TypeOK
        <5> QED
          BY <5>1, <2>0, GapType, LossShift
      <4>2. (MaxLost - lost') * MaxGap \in Nat
        BY <3>2, GapType, HealthAssumption, ProductNat DEF TypeOK
      <4>3. Budget' = next_ping' + (MaxLost - lost') * MaxGap + MaxDelay
        BY <3>0, <3>2 DEF Budget, NoPing
      <4>4. elapsed' + Budget' <= Limit'
        BY <3>a, <3>b, <3>c, <4>1, <4>2, <4>3, HealthAssumption, GapType
        DEF TypeOK, Limit
      <4> QED
        BY <3>0, <3>b, <3>c, <3>2, <4>4, HealthAssumption, GapType
        DEF BudgetInv, NoPing
    <3> QED
      BY <2>1, <3>1, <3>2 DEF SendPing
  <2>2. CASE ClientStops
    BY <2>2 DEF ClientStops, monitorVars, BudgetInv
  <2>3. CASE RecvPing
    BY <2>3, HealthAssumption, TimingAssumption, GapType
    DEF RecvPing, BudgetInv, Budget, Limit, TypeOK
  <2>4. CASE RecvOther
    BY <2>4 DEF RecvOther, clientVars, BudgetInv, Budget, Limit
  <2>5. CASE RecvTimedOut
    <3>1. ASSUME alive PROVE elapsed <= Limit
      BY <2>0, <3>1, HealthAssumption, GapType
      DEF BudgetInv, Budget, TypeOK, Limit, NoPing
    <3> QED
      BY <2>5, <3>1, HealthAssumption
      DEF RecvTimedOut, clientVars, BudgetInv, Budget, Limit, TypeOK
  <2>6. CASE Tick
    BY <2>0, <2>6, HealthAssumption, GapType
    DEF Tick, BudgetInv, Budget, Limit, TypeOK, NoPing
  <2>7. CASE UNCHANGED vars
    BY <2>7 DEF vars, monitorVars, clientVars, BudgetInv, Budget, Limit
  <2>8. CASE StrayEnds
    BY <2>8 DEF StrayEnds, monitorVars, BudgetInv, Budget, Limit
  <2> QED
    BY <2>1, <2>2, <2>3, <2>4, <2>5, <2>6, <2>7, <2>8 DEF Next
<1>3. BudgetInv => NoFalseTimeout
  BY DEF BudgetInv, NoFalseTimeout
<1> QED
  BY <1>1, <1>2, <1>3, HealthTypeCorrect, PTL DEF Spec

\* With nothing but pings on its socket, monitor_connection decides within
\* one read timeout of the moment its limit is exceeded.
THEOREM DetectedInTimeCorrect == Spec => []DetectedInTime
<1>1. Init => ScheduleInv
  BY HealthAssumption DEF Init, ScheduleInv, Limit
<1>2. TypeOK /\ ScheduleInv /\ [Next]_vars => ScheduleInv'
  <2> SUFFICES ASSUME TypeOK, ScheduleInv, [Next]_vars PROVE ScheduleInv'
    OBVIOUS
  <2> USE HealthAssumption DEF TypeOK, ScheduleInv, Limit
  <2>1. CASE SendPing
    BY <2>1 DEF SendPing, monitorVars
  <2>2. CASE ClientStops
    BY <2>2 DEF ClientStops, monitorVars
  <2>3. CASE RecvPing
    BY <2>3 DEF RecvPing
  <2>4. CASE RecvOther
    BY <2>4 DEF RecvOther, clientVars
  <2>5. CASE RecvTimedOut
    BY <2>5 DEF RecvTimedOut
  <2>6. CASE Tick
    BY <2>6, GapType DEF Tick
  <2>7. CASE UNCHANGED vars
    BY <2>7 DEF vars, monitorVars, clientVars
  <2>8. CASE StrayEnds
    BY <2>8 DEF StrayEnds, monitorVars
  <2> QED
    BY <2>1, <2>2, <2>3, <2>4, <2>5, <2>6, <2>7, <2>8 DEF Next
<1>3. TypeOK /\ ScheduleInv => DetectedInTime
  BY HealthAssumption DEF TypeOK, ScheduleInv, DetectedInTime, Limit
<1> QED
  BY <1>1, <1>2, <1>3, HealthTypeCorrect, PTL DEF Spec
=============================================================================
