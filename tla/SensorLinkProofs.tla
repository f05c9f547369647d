-------------------------- MODULE SensorLinkProofs --------------------------
(***************************************************************************)
(* Theorems about SensorLink, for every cap, all intervals and any number  *)
(* of faults.                                                              *)
(***************************************************************************)
EXTENDS SensorLink, TLAPS

\* The cap is above every exponent used.
LEMMA CapIsNat == MaxTrial \in Nat /\ MaxTrial = MAX_BACKOFF_EXP + 1 /\ MAX_BACKOFF_EXP \in Nat
  BY PeriodsAssumption DEF MaxTrial

\* Counting stops at the cap.
LEMMA SuccType == ASSUME NEW k \in 0..MaxTrial PROVE Succ(k) \in 0..MaxTrial
  BY CapIsNat DEF Succ

\* The interval after k losses in a row.
Interval(k) == IF k = 0 THEN DEFAULT_TIME_PERIOD ELSE RECONNECT_INTERVAL * 2^(k - 1)

\* Every back-off is one of the periods.
LEMMA BackoffIsPeriod == ASSUME NEW k \in 0..MaxTrial PROVE Backoff(k) \in Periods
  <1>1. CASE k < MAX_BACKOFF_EXP
    <2>1. k \in 0..MAX_BACKOFF_EXP
      BY <1>1, CapIsNat
    <2>2. Backoff(k) = RECONNECT_INTERVAL * 2^k
      BY <1>1 DEF Backoff
    <2> QED BY <2>1, <2>2 DEF Periods
  <1>2. CASE ~(k < MAX_BACKOFF_EXP)
    <2>1. MAX_BACKOFF_EXP \in 0..MAX_BACKOFF_EXP
      BY CapIsNat
    <2>2. Backoff(k) = RECONNECT_INTERVAL * 2^MAX_BACKOFF_EXP
      BY <1>2 DEF Backoff
    <2> QED BY <2>1, <2>2 DEF Periods
  <1> QED BY <1>1, <1>2

\* The back-off of a trial is the interval of one loss more.
LEMMA BackoffIsInterval == ASSUME NEW k \in 0..MaxTrial PROVE Backoff(k) = Interval(Succ(k))
  <1>1. CASE k < MAX_BACKOFF_EXP
    <2>1. Succ(k) = k + 1 /\ Succ(k) # 0 /\ (k + 1) - 1 = k
      BY <1>1, CapIsNat DEF Succ
    <2>2. Interval(Succ(k)) = RECONNECT_INTERVAL * 2^k
      BY <2>1 DEF Interval
    <2> QED BY <1>1, <2>2 DEF Backoff
  <1>2. CASE ~(k < MAX_BACKOFF_EXP)
    <2>1. Succ(k) = MaxTrial /\ Succ(k) # 0 /\ MaxTrial - 1 = MAX_BACKOFF_EXP
      BY <1>2, CapIsNat DEF Succ
    <2>2. Interval(Succ(k)) = RECONNECT_INTERVAL * 2^MAX_BACKOFF_EXP
      BY <2>1 DEF Interval
    <2> QED BY <1>2, <2>2 DEF Backoff
  <1> QED BY <1>1, <1>2
-----------------------------------------------------------------------------
(* Type correctness.                                                       *)

LEMMA TypeInit == Init => TypeOK
  <1> SUFFICES ASSUME Init PROVE TypeOK
    OBVIOUS
  <1>1. DEFAULT_TIME_PERIOD \in Periods
    BY DEF Periods
  <1>2. trial \in 0..MaxTrial /\ losses \in 0..MaxTrial /\ faults \in 0..MaxFaults
    BY CapIsNat, FaultsAssumption DEF Init
  <1> QED BY <1>1, <1>2 DEF Init, TypeOK, States

LEMMA TypeStep == TypeOK /\ [Next]_vars => TypeOK'
  <1> SUFFICES ASSUME TypeOK, [Next]_vars PROVE TypeOK'
    OBVIOUS
  <1> USE DEF TypeOK
  <1>0. DEFAULT_TIME_PERIOD \in Periods /\ PublishPeriod \in Periods
    BY DEF Periods
  <1>f. ASSUME NEW f, Fault(f) PROVE faults' \in 0..MaxFaults
    BY <1>f, FaultsAssumption DEF Fault
  <1>r. ASSUME NEW i, Round(i) PROVE timer' = i /\ due' \in BOOLEAN /\ poll' \in BOOLEAN
    <2>1. CASE poll /\ poll' = FALSE /\ UNCHANGED due
      BY <1>r, <2>1 DEF Round
    <2>2. CASE due /\ due' = FALSE /\ UNCHANGED poll
      BY <1>r, <2>2 DEF Round
    <2> QED BY <1>r, <2>1, <2>2 DEF Round
  <1>1. CASE Connect
    BY <1>1, <1>r DEF Connect, States
  <1>2. CASE NoConnectivity
    BY <1>2, <1>r DEF NoConnectivity, States, broker
  <1>3. CASE AwaitConnection
    BY <1>3, <1>r DEF AwaitConnection, client, leds, broker
  <1>4. CASE Subscribe
    <2>1. trial' \in 0..MaxTrial /\ losses' \in 0..MaxTrial
      BY <1>4, CapIsNat DEF Subscribe
    <2>2. blinking' \in BOOLEAN /\ red' \in BOOLEAN
      BY <1>4 DEF Subscribe
    <2> QED BY <1>4, <1>0, <1>r, <2>1, <2>2 DEF Subscribe, States
  <1>5. CASE SubscribeFails
    BY <1>5, <1>f, <1>r DEF SubscribeFails, client, leds, broker
  <1>6. CASE Publish
    BY <1>6, <1>0, <1>r DEF Publish, leds, broker
  <1>7. CASE GiveUpConnection
    <2>1. Backoff(trial) \in Periods /\ Succ(trial) \in 0..MaxTrial
      BY BackoffIsPeriod, SuccType
    <2> QED BY <1>7, <1>r, <2>1 DEF GiveUpConnection, States
  <1>8. CASE Connected
    BY <1>8 DEF Connected, States, leds
  <1>9. CASE Disconnected
    BY <1>9, <1>f, SuccType DEF Disconnected, States, leds
  <1>10. CASE SubAck
    BY <1>10 DEF SubAck, client, leds
  <1>11. CASE MessageReceived
    BY <1>11 DEF MessageReceived, client, leds, broker
  <1>12. CASE TimerExpires
    BY <1>12 DEF TimerExpires, client, leds, broker
  <1>13. CASE ToggleLed
    BY <1>13 DEF ToggleLed, client, wakeup, broker
  <1>14. CASE NetworkChanges
    BY <1>14, <1>f DEF NetworkChanges, client, wakeup, leds
  <1>15. CASE UNCHANGED vars
    BY <1>15 DEF vars, client, wakeup, leds, broker
  <1> QED BY <1>1, <1>2, <1>3, <1>4, <1>5, <1>6, <1>7, <1>8, <1>9, <1>10, <1>11,
             <1>12, <1>13, <1>14, <1>15 DEF Next, StateMachine, MqttEvent

\* The interval between two rounds of the state machine is bounded, however
\* many attempts to connect fail (state_machine).
THEOREM TypeCorrect == Spec => []TypeOK
  BY TypeInit, TypeStep, PTL DEF Spec
-----------------------------------------------------------------------------
(* The client, the library and the LED.                                    *)

LEMMA AgreementStep == LinkAgreement /\ [Next]_vars => LinkAgreement'
  <1> SUFFICES ASSUME LinkAgreement, [Next]_vars PROVE LinkAgreement'
    OBVIOUS
  <1> USE DEF LinkAgreement
  <1>1. CASE StateMachine
    BY <1>1 DEF StateMachine, Connect, NoConnectivity, AwaitConnection, Subscribe,
                SubscribeFails, Publish, GiveUpConnection, client, broker
  <1>2. CASE Connected
    BY <1>2 DEF Connected
  <1>3. CASE Disconnected
    BY <1>3 DEF Disconnected
  <1>4. CASE SubAck \/ MessageReceived
    BY <1>4 DEF SubAck, MessageReceived, client, broker
  <1>5. CASE TimerExpires \/ ToggleLed \/ NetworkChanges \/ UNCHANGED vars
    BY <1>5 DEF TimerExpires, ToggleLed, NetworkChanges, vars, client, broker
  <1> QED BY <1>1, <1>2, <1>3, <1>4, <1>5 DEF Next, MqttEvent

\* The client never takes a lost connection for an open one, nor leaves one
\* open that it has given up (mqtt_event, state_machine).
THEOREM Agreement == Spec => []LinkAgreement
  <1>1. Init => LinkAgreement
    BY DEF Init, LinkAgreement
  <1> QED BY <1>1, AgreementStep, PTL DEF Spec

\* What the LED does in each state; a loss waits for the round it has polled.
LedInv ==
    /\ state \in {"INIT", "CONNECTING", "CONNECTED"} => blinking
    /\ state = "SUBSCRIBED" => ~blinking
    /\ state = "DISCONNECTED" => poll
    /\ red => blinking

LEMMA LedStep == TypeOK /\ LinkAgreement /\ LedInv /\ [Next]_vars => LedInv'
  <1> SUFFICES ASSUME TypeOK, LinkAgreement, LedInv, [Next]_vars PROVE LedInv'
    OBVIOUS
  <1> USE DEF LedInv
  <1>1. CASE Connect \/ NoConnectivity
    BY <1>1 DEF Connect, NoConnectivity, broker
  <1>2. CASE AwaitConnection \/ SubscribeFails
    BY <1>2 DEF AwaitConnection, SubscribeFails, client, leds
  <1>3. CASE Subscribe
    BY <1>3 DEF Subscribe
  <1>4. CASE Publish
    BY <1>4 DEF Publish, leds
  <1>5. CASE GiveUpConnection
    BY <1>5 DEF GiveUpConnection
  <1>6. CASE Connected
    BY <1>6 DEF Connected, LinkAgreement, leds
  <1>7. CASE Disconnected
    BY <1>7 DEF Disconnected, leds
  <1>8. CASE SubAck \/ MessageReceived
    BY <1>8 DEF SubAck, MessageReceived, client, leds
  <1>9. CASE TimerExpires \/ NetworkChanges \/ UNCHANGED vars
    BY <1>9 DEF TimerExpires, NetworkChanges, vars, client, wakeup, leds
  <1>10. CASE ToggleLed
    BY <1>10 DEF ToggleLed, client, wakeup
  <1> QED BY <1>1, <1>2, <1>3, <1>4, <1>5, <1>6, <1>7, <1>8, <1>9, <1>10
          DEF Next, StateMachine, MqttEvent

\* The red LED blinks exactly while the mote is not connected and subscribed,
\* and is never left on (ctimer_stop, leds_off, ctimer_reset).
THEOREM Led == Spec => []LedTells
  <1>1. Init => LedInv
    BY DEF Init, LedInv
  <1>2. TypeOK /\ LedInv => LedTells
    BY DEF TypeOK, States, LedInv, LedTells
  <1> QED BY <1>1, <1>2, LedStep, TypeCorrect, Agreement, PTL DEF Spec
-----------------------------------------------------------------------------
(* The back-off.                                                           *)

\* The trials count the losses, one behind while a loss waits for its round;
\* between attempts the period is the interval they call for, and it is armed.
TrialInv ==
    /\ state \in {"BOOT", "INIT", "CONNECTING", "CONNECTED"} => losses = trial
    /\ state = "SUBSCRIBED" => losses = 0 /\ trial = 0
    /\ state = "DISCONNECTED" => losses = Succ(trial)
    /\ state = "BOOT" => trial = 0
    /\ state \in {"BOOT", "INIT", "CONNECTING"} =>
           period = Interval(trial) /\ timer \in {period, NoTimer}

LEMMA TrialStep == TypeOK /\ LinkAgreement /\ TrialInv /\ [Next]_vars => TrialInv'
  <1> SUFFICES ASSUME TypeOK, LinkAgreement, TrialInv, [Next]_vars PROVE TrialInv'
    OBVIOUS
  <1> USE DEF TrialInv
  <1>1. CASE Connect \/ NoConnectivity
    BY <1>1 DEF Connect, NoConnectivity, Round
  <1>2. CASE AwaitConnection
    BY <1>2 DEF AwaitConnection, Round, client
  <1>3. CASE Subscribe
    BY <1>3 DEF Subscribe
  <1>4. CASE SubscribeFails
    BY <1>4 DEF SubscribeFails, client
  <1>5. CASE Publish
    BY <1>5 DEF Publish
  <1>6. CASE GiveUpConnection
    <2>1. Backoff(trial) = Interval(Succ(trial))
      BY BackoffIsInterval DEF TypeOK
    <2>2. state = "DISCONNECTED" /\ state' = "INIT" /\ trial' = Succ(trial) /\ losses' = losses
      BY <1>6 DEF GiveUpConnection
    <2>3. period' = Backoff(trial) /\ timer' = Backoff(trial)
      BY <1>6 DEF GiveUpConnection, Round
    <2> QED BY <2>1, <2>2, <2>3
  <1>7. CASE Connected
    BY <1>7 DEF Connected, LinkAgreement
  <1>8. CASE Disconnected
    <2>1. state \in {"CONNECTING", "CONNECTED", "SUBSCRIBED"}
      BY <1>8 DEF Disconnected, LinkAgreement, TypeOK
    <2>2. state' = "DISCONNECTED" /\ trial' = trial /\ losses' = Succ(losses)
      BY <1>8 DEF Disconnected
    <2> QED BY <2>1, <2>2
  <1>9. CASE SubAck \/ MessageReceived
    BY <1>9 DEF SubAck, MessageReceived, client
  <1>10. CASE TimerExpires
    BY <1>10 DEF TimerExpires, client
  <1>11. CASE ToggleLed \/ NetworkChanges \/ UNCHANGED vars
    BY <1>11 DEF ToggleLed, NetworkChanges, vars, client, wakeup
  <1> QED BY <1>1, <1>2, <1>3, <1>4, <1>5, <1>6, <1>7, <1>8, <1>9, <1>10, <1>11
          DEF Next, StateMachine, MqttEvent

\* The interval between attempts doubles with every loss in a row up to the
\* cap, whatever interrupts the waiting, and starts again after a subscription
\* (state_machine, reconnection_trial and time_period).
THEOREM BackOff == Spec => []BackedOff
  <1>1. Init => TrialInv
    BY DEF Init, TrialInv, Interval
  <1>2. TrialInv => BackedOff
    <2> SUFFICES ASSUME TrialInv, state \in {"INIT", "CONNECTING"}, timer # NoTimer
                 PROVE timer = Interval(losses)
      BY DEF BackedOff, Interval
    <2> QED BY DEF TrialInv
  <1> QED BY <1>1, <1>2, TrialStep, TypeCorrect, Agreement, PTL DEF Spec
-----------------------------------------------------------------------------
(* What wakes the process.                                                 *)

\* A timer that has expired has posted its event; one that never expires was
\* armed by a failed subscription, and the connection it belongs to still stands
\* or its loss has polled the process.
WakeInv ==
    /\ timer = NoTimer => due
    /\ timer = CLOCK_MAX =>
           /\ "queue" \in Faults /\ faults > 0
           /\ state = "CONNECTED" \/ (state = "DISCONNECTED" /\ poll)

\* The process sleeps without anything to wake it only while it is connected
\* and its subscription has failed.
NothingElseParks ==
    ~poll /\ ~due /\ timer \in {NoTimer, CLOCK_MAX} =>
        timer = CLOCK_MAX /\ state = "CONNECTED" /\ "queue" \in Faults /\ faults > 0

\* The intervals of the state machine expire.
LEMMA PeriodsExpire == ASSUME TypeOK PROVE {period, PublishPeriod, Backoff(trial)} \cap {NoTimer, CLOCK_MAX} = {}
  <1>1. {period, PublishPeriod, Backoff(trial)} \subseteq Periods
    BY BackoffIsPeriod DEF TypeOK, Periods
  <1>2. CLOCK_MAX \notin Periods
    BY ClockAssumption DEF Periods
  <1>3. Periods \subseteq Int
    <2> SUFFICES ASSUME NEW k \in 0..MAX_BACKOFF_EXP PROVE RECONNECT_INTERVAL * 2^k \in Int
      BY PeriodsAssumption DEF Periods
    <2>1. k \in Nat /\ RECONNECT_INTERVAL \in Int
      BY PeriodsAssumption
    <2>2. 2^k \in Int
      BY <2>1
    <2> QED BY <2>1, <2>2
  <1> QED BY <1>1, <1>2, <1>3, ClockAssumption

LEMMA WakeStep == TypeOK /\ LinkAgreement /\ WakeInv /\ [Next]_vars => WakeInv'
  <1> SUFFICES ASSUME TypeOK, LinkAgreement, WakeInv, [Next]_vars PROVE WakeInv'
    OBVIOUS
  <1> USE DEF WakeInv
  <1>0. faults \in Nat /\ MaxFaults \in Nat
    BY FaultsAssumption DEF TypeOK
  <1>1. CASE Connect \/ NoConnectivity \/ AwaitConnection \/ Subscribe \/ Publish \/ GiveUpConnection
    <2>1. timer' \in {period, PublishPeriod, Backoff(trial)}
      BY <1>1 DEF Connect, NoConnectivity, AwaitConnection, Subscribe, Publish, GiveUpConnection, Round
    <2> QED BY <2>1, PeriodsExpire
  <1>2. CASE SubscribeFails
    <2>1. timer' = CLOCK_MAX /\ state' = "CONNECTED" /\ "queue" \in Faults /\ faults' = faults + 1
      BY <1>2 DEF SubscribeFails, Round, Fault, client
    <2> QED BY <1>0, <2>1, ClockAssumption
  <1>3. CASE Connected
    BY <1>3 DEF Connected
  <1>4. CASE Disconnected
    <2>1. state' = "DISCONNECTED" /\ poll' /\ faults' = faults + 1 /\ UNCHANGED <<timer, due>>
      BY <1>4 DEF Disconnected, Fault
    <2> QED BY <1>0, <2>1
  <1>5. CASE SubAck \/ MessageReceived
    BY <1>5 DEF SubAck, MessageReceived, client
  <1>6. CASE TimerExpires
    BY <1>6, ClockAssumption DEF TimerExpires
  <1>7. CASE ToggleLed \/ UNCHANGED vars
    BY <1>7 DEF ToggleLed, vars, client, wakeup
  <1>8. CASE NetworkChanges
    <2>1. faults' \in {faults, faults + 1} /\ UNCHANGED <<client, wakeup>>
      BY <1>8 DEF NetworkChanges, Fault
    <2> QED BY <1>0, <2>1 DEF client, wakeup
  <1> QED BY <1>1, <1>2, <1>3, <1>4, <1>5, <1>6, <1>7, <1>8 DEF Next, StateMachine, MqttEvent

\* Whatever is lost, in whichever order expiries, polls and reports come, the
\* process never waits for nothing, except after a subscription that failed.
THEOREM Woken == Spec => []NothingElseParks
  <1>1. Init => WakeInv
    BY ClockAssumption, PeriodsAssumption DEF Init, WakeInv
  <1>2. WakeInv => NothingElseParks
    BY DEF WakeInv, NothingElseParks
  <1> QED BY <1>1, <1>2, WakeStep, TypeCorrect, Agreement, PTL DEF Spec
=============================================================================
