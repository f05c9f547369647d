----------------------------- MODULE SensorLink -----------------------------
(***************************************************************************)
(* The MQTT link of a sensor mote: the connection state machine of         *)
(* mqtt-client.c and the process loop that drives it (flow-sensor.c and    *)
(* water-level-sensor.c).  The loop calls state_machine() when its timer   *)
(* expires and whenever the MQTT library polls the process; the library    *)
(* reports connection, loss and messages by calling mqtt_event between two *)
(* such rounds.  Contiki-NG runs both to completion, so that a round and a *)
(* report are each one step.                                               *)
(***************************************************************************)
EXTENDS Integers

CONSTANTS
    RECONNECT_INTERVAL, MAX_BACKOFF_EXP,    \* mqtt-client.h: 1 s and 6
    DEFAULT_TIME_PERIOD, PublishPeriod,     \* 1 s and 5 s
    CLOCK_MAX,      \* the largest clock_time_t: a timer that never expires
    NoTimer,        \* no interval: the timer has expired
    Faults, MaxFaults       \* the faults that occur, and how many of them

ASSUME PeriodsAssumption ==
    /\ {RECONNECT_INTERVAL, DEFAULT_TIME_PERIOD, PublishPeriod} \subseteq Nat \ {0}
    /\ MAX_BACKOFF_EXP \in Nat
ASSUME ClockAssumption ==
    /\ CLOCK_MAX \notin {DEFAULT_TIME_PERIOD, PublishPeriod, NoTimer}
                        \cup {RECONNECT_INTERVAL * 2^k : k \in 0..MAX_BACKOFF_EXP}
    /\ NoTimer \notin Int
ASSUME FaultsAssumption ==
    /\ Faults \subseteq {"link", "network", "queue"}
    /\ MaxFaults \in Nat

VARIABLES
    state, trial, period,   \* state, reconnection_trial, time_period
    timer, due, poll,       \* interval armed; expiry posted; poll requested
    blinking, red,          \* led_timer is running; the red LED is on
    link, subscription,     \* the connection as library and broker have it
    network,                \* the mote has an address and a route
    losses,                 \* auxiliary: losses since the last subscription
    faults                  \* faults so far

client == <<state, trial, period>>
wakeup == <<timer, due, poll>>
leds == <<blinking, red>>
broker == <<link, subscription, network>>
vars == <<client, wakeup, leds, broker, losses, faults>>
-----------------------------------------------------------------------------
States == {"BOOT", "INIT", "CONNECTING", "CONNECTED", "SUBSCRIBED", "DISCONNECTED"}

\* Seeded fault: the cap of the exponent forgotten.
BackoffUncapped(k) == RECONNECT_INTERVAL * 2^k

Backoff(k) ==
    IF k < MAX_BACKOFF_EXP THEN RECONNECT_INTERVAL * 2^k
    ELSE RECONNECT_INTERVAL * 2^MAX_BACKOFF_EXP

\* Counters of trials and losses matter up to the cap only, and stop after it.
MaxTrial == MAX_BACKOFF_EXP + 1
Succ(k) == IF k < MaxTrial THEN k + 1 ELSE k

Init ==
    /\ state = "BOOT" /\ trial = 0 /\ period = DEFAULT_TIME_PERIOD
    /\ timer = DEFAULT_TIME_PERIOD /\ due = FALSE /\ poll = FALSE
    /\ blinking = FALSE /\ red = FALSE
    /\ link = "down" /\ subscription = "none" /\ network \in BOOLEAN
    /\ losses = 0 /\ faults = 0

Fault(f) == f \in Faults /\ faults < MaxFaults /\ faults' = faults + 1
-----------------------------------------------------------------------------
(* The process loop: one round of state_machine(), then the timer is armed *)
(* with the interval it returns.  An expiry that was posted before is      *)
(* delivered all the same.                                                 *)

Round(interval) ==
    /\ \/ poll /\ poll' = FALSE /\ UNCHANGED due
       \/ due /\ due' = FALSE /\ UNCHANGED poll
    /\ timer' = interval

\* Seeded fault: the state is not advanced past NET_OK.
ConnectAgain ==
    /\ state \in {"BOOT", "INIT"}
    /\ network
    /\ Round(period)
    /\ state' = "INIT"
    /\ link' = "opening"
    /\ blinking' = (blinking \/ state = "BOOT")
    /\ UNCHANGED <<trial, period, red, subscription, network, losses, faults>>

\* From INIT through NET_OK in one round; the first round starts the LED.
Connect ==
    /\ state \in {"BOOT", "INIT"}
    /\ network
    /\ Round(period)
    /\ state' = "CONNECTING"
    /\ link' = "opening"
    /\ blinking' = (blinking \/ state = "BOOT")
    /\ UNCHANGED <<trial, period, red, subscription, network, losses, faults>>

NoConnectivity ==
    /\ state \in {"BOOT", "INIT"}
    /\ ~network
    /\ Round(period)
    /\ state' = "INIT"
    /\ blinking' = (blinking \/ state = "BOOT")
    /\ UNCHANGED <<trial, period, red, broker, losses, faults>>

AwaitConnection ==
    /\ state = "CONNECTING"
    /\ Round(period)
    /\ UNCHANGED <<client, leds, broker, losses, faults>>

\* Seeded fault: the number of trials kept.
SubscribeKeepingTrials ==
    /\ state = "CONNECTED"
    /\ Round(PublishPeriod)
    /\ state' = "SUBSCRIBED"
    /\ subscription' = "asked"
    /\ blinking' = FALSE /\ red' = FALSE
    /\ losses' = 0
    /\ UNCHANGED <<trial, period, link, network, faults>>

Subscribe ==
    /\ state = "CONNECTED"
    /\ Round(PublishPeriod)
    /\ state' = "SUBSCRIBED"
    /\ trial' = 0
    /\ subscription' = "asked"
    /\ blinking' = FALSE /\ red' = FALSE
    /\ losses' = 0
    /\ UNCHANGED <<period, link, network, faults>>

\* The library's queue is full: -1 is returned, which the unsigned period of
\* the process loop takes for the largest interval there is.
SubscribeFails ==
    /\ state = "CONNECTED"
    /\ Fault("queue")
    /\ Round(CLOCK_MAX)
    /\ UNCHANGED <<client, leds, broker, losses>>

Publish ==
    /\ state = "SUBSCRIBED"
    /\ Round(PublishPeriod)
    /\ period' = PublishPeriod
    /\ UNCHANGED <<state, trial, leds, broker, losses, faults>>

\* Seeded fault: the LED timer not restarted.
GiveUpConnectionDarkly ==
    /\ state = "DISCONNECTED"
    /\ Round(Backoff(trial))
    /\ state' = "INIT"
    /\ link' = "down"
    /\ period' = Backoff(trial)
    /\ trial' = Succ(trial)
    /\ UNCHANGED <<leds, subscription, network, losses, faults>>

\* Seeded fault: the state not reset.
GiveUpConnectionForever ==
    /\ state = "DISCONNECTED"
    /\ Round(Backoff(trial))
    /\ blinking' = TRUE
    /\ link' = "down"
    /\ period' = Backoff(trial)
    /\ trial' = Succ(trial)
    /\ UNCHANGED <<state, red, subscription, network, losses, faults>>

GiveUpConnection ==
    /\ state = "DISCONNECTED"
    /\ Round(Backoff(trial))
    /\ state' = "INIT"
    /\ blinking' = TRUE
    /\ link' = "down"
    /\ period' = Backoff(trial)
    /\ trial' = Succ(trial)
    /\ UNCHANGED <<red, subscription, network, losses, faults>>
-----------------------------------------------------------------------------
(* mqtt_event, called by the library, which polls the process after it.    *)

Connected ==
    /\ link = "opening"
    /\ network
    /\ link' = "up"
    /\ state' = "CONNECTED"
    /\ poll' = TRUE
    /\ UNCHANGED <<trial, period, timer, due, leds, subscription, network, losses, faults>>

\* An attempt fails or a connection is lost.
Disconnected ==
    /\ link # "down"
    /\ Fault("link")
    /\ link' = "down"
    /\ subscription' = "none"
    /\ state' = "DISCONNECTED"
    /\ losses' = Succ(losses)
    /\ poll' = TRUE
    /\ UNCHANGED <<trial, period, timer, due, leds, network>>

\* The subscription is granted, or refused and never asked for again.
SubAck ==
    /\ subscription = "asked"
    /\ subscription' \in {"granted", "none"}
    /\ poll' = TRUE
    /\ UNCHANGED <<client, timer, due, leds, link, network, losses, faults>>

\* A message on the topic "simulation".
MessageReceived ==
    /\ subscription = "granted"
    /\ poll' = TRUE
    /\ UNCHANGED <<client, timer, due, leds, broker, losses, faults>>
-----------------------------------------------------------------------------
(* The timers and the network.                                             *)

TimerExpires ==
    /\ timer \notin {NoTimer, CLOCK_MAX}
    /\ ~due
    /\ timer' = NoTimer
    /\ due' = TRUE
    /\ UNCHANGED <<client, poll, leds, broker, losses, faults>>

ToggleLed ==
    /\ blinking
    /\ red' = ~red
    /\ UNCHANGED <<client, wakeup, blinking, broker, losses, faults>>

NetworkChanges ==
    /\ \/ network /\ Fault("network")
       \/ ~network /\ UNCHANGED faults
    /\ network' = ~network
    /\ UNCHANGED <<client, wakeup, leds, link, subscription, losses>>
-----------------------------------------------------------------------------
StateMachine ==
    \/ Connect \/ NoConnectivity \/ AwaitConnection
    \/ Subscribe \/ SubscribeFails \/ Publish \/ GiveUpConnection
MqttEvent == Connected \/ Disconnected \/ SubAck \/ MessageReceived

Next == StateMachine \/ MqttEvent \/ TimerExpires \/ ToggleLed \/ NetworkChanges

Spec == Init /\ [][Next]_vars

\* The kernel delivers polls and expiries, timers expire, and an attempt that
\* does not fail succeeds.
FairSpec == Spec /\ WF_vars(StateMachine) /\ WF_vars(TimerExpires) /\ WF_vars(Connected)
-----------------------------------------------------------------------------
(* Properties                                                              *)

Periods == {DEFAULT_TIME_PERIOD, PublishPeriod} \cup {RECONNECT_INTERVAL * 2^k : k \in 0..MAX_BACKOFF_EXP}

\* Every variable has its type; the interval between two rounds is one of the
\* two fixed ones or a power of two up to the cap, however many attempts fail.
TypeOK ==
    /\ state \in States
    /\ trial \in 0..MaxTrial
    /\ period \in Periods
    /\ timer \in Periods \cup {NoTimer, CLOCK_MAX}
    /\ due \in BOOLEAN /\ poll \in BOOLEAN
    /\ blinking \in BOOLEAN /\ red \in BOOLEAN /\ network \in BOOLEAN
    /\ link \in {"down", "opening", "up"}
    /\ subscription \in {"none", "asked", "granted"}
    /\ losses \in 0..MaxTrial
    /\ faults \in 0..MaxFaults

\* The client's state and the library's connection never part: a report that
\* comes between two rounds, or several that one poll stands for, leave no
\* connection open that the client has given up and let nothing be published
\* on one that is lost (state_machine, mqtt_event).
LinkAgreement ==
    /\ state \in {"CONNECTED", "SUBSCRIBED"} <=> link = "up"
    /\ state = "CONNECTING" <=> link = "opening"
    /\ subscription # "none" => state = "SUBSCRIBED"

\* Outside a round that is still to come, the red LED blinks as long as the
\* mote is not connected and subscribed, and is off when it is (state_machine;
\* ctimer_stop and leds_off against the toggling timer callback).
LedTells ==
    ~poll /\ state # "BOOT" =>
        /\ blinking <=> state # "SUBSCRIBED"
        /\ red => blinking

\* The interval armed between attempts is set by the losses in a row, whichever
\* events interrupt the waiting: doubled by each up to the cap, and from the
\* start again once a subscription has succeeded (state_machine).
BackedOff ==
    state \in {"INIT", "CONNECTING"} /\ timer # NoTimer =>
        timer = IF losses = 0 THEN DEFAULT_TIME_PERIOD ELSE RECONNECT_INTERVAL * 2^(losses - 1)

\* With the network there and the faults at an end the mote publishes for ever
\* again, whatever was lost before and at whichever moment - unless a failed
\* subscription has parked its timer for good (state_machine, "infinite trials").
Reconnects ==
    <>[]network /\ []<>(timer # CLOCK_MAX) => []<><<Publish>>_vars

\* The same without the exception.  The documentation promises that the
\* connection comes back "without requiring manual intervention"; after one
\* full queue at the subscription the process waits for ever.
AlwaysReconnects ==
    <>[]network => []<><<Publish>>_vars
=============================================================================
