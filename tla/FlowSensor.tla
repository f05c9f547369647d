----------------------------- MODULE FlowSensor ------------------------------
(***************************************************************************)
(* The simulated flow rates, and the loop through which they determine one *)
(* another.  Every channel has a target, set by the button (inflow) or by  *)
(* a message on the topic "simulation", and a flow that is led towards it  *)
(* once a second.  The Collector publishes the inflow it has stored, as a  *)
(* percentage, on the same topic, to tell the water level sensor; the      *)
(* Controller publishes the openings it has commanded.  The firmware of a  *)
(* single sensor takes the inflow message for itself as well; the          *)
(* demonstration board mote-2, which carries all three sensors, does not.  *)
(***************************************************************************)
EXTENDS Integers, Sequences

CONSTANTS
    Channels,           \* "inflow" and outflows
    FULL, PRESS,        \* 100 percent, and the 10 that a push of the button adds
    INIT_INGATE,        \* 40 percent
    UNIT,               \* flow per percent: MAX_FLOW
    VAR_THRESHOLD,      \* 150: the width of the noise
    LINEAR_MIN, LINEAR_DIV,     \* 100 and 10, of LINEAR_VAR
    RAND_MAX,           \* the largest random number
    MaxInputs,          \* bound on pushes, gate commands and losses together
    MaxQueue            \* bound on the messages under way to a sensor

ASSUME ChannelsAssumption == "inflow" \in Channels
ASSUME PercentAssumption ==
    /\ FULL \in Nat /\ PRESS \in Nat \ {0} /\ INIT_INGATE \in 0..FULL
    /\ UNIT \in Nat \ {0}
ASSUME PressAssumption == FULL % PRESS = 0 /\ INIT_INGATE % PRESS = 0
ASSUME NoiseAssumption ==
    /\ VAR_THRESHOLD \in Nat
    /\ {LINEAR_MIN, LINEAR_DIV} \subseteq Nat \ {0}
    /\ RAND_MAX \in Nat
ASSUME BoundsAssumption == MaxInputs \in Nat /\ MaxQueue \in Nat

VARIABLES
    board,      \* "flow-sensor", one per channel, or "mote-2"
    target,     \* target_flow, in percent of the full flow
    flow,       \* flow
    btn_release,    \* FALSE while the button is held beyond three seconds
    halted,     \* the sensors that divided by zero
    inflowGate, \* the inflow the Collector published last, -1 before
    topic,      \* messages under way to the flow sensors
    topicLevel, \* messages under way to the water level sensor
    heard,      \* the percentages the water level sensor knows: its flow
    lost,       \* a message was lost
    inputs      \* pushes, gate commands and losses so far

sensor == <<target, flow, btn_release, halted>>
vars == <<board, sensor, inflowGate, topic, topicLevel, heard, lost, inputs>>
-----------------------------------------------------------------------------
Boards == {"flow-sensor", "mote-2"}
Abs(n) == IF n < 0 THEN -n ELSE n

Low(c) == target[c] * UNIT - VAR_THRESHOLD
High(c) == target[c] * UNIT + VAR_THRESHOLD

Initial(c) == IF c = "inflow" THEN INIT_INGATE ELSE 0

Init ==
    /\ board \in Boards
    /\ target = [c \in Channels |-> Initial(c)]
    /\ flow = [c \in Channels |-> Initial(c) * UNIT]
    /\ btn_release = TRUE
    /\ halted = {}
    /\ inflowGate = -1
    /\ topic = <<>> /\ topicLevel = <<>>
    /\ heard = [c \in Channels |-> Initial(c)]
    /\ lost = FALSE
    /\ inputs = 0

Input == inputs < MaxInputs /\ inputs' = inputs + 1
-----------------------------------------------------------------------------
(* simulate_read_flow.                                                     *)

\* The steps LINEAR_VAR can give.  When the distance is less than LINEAR_DIV
\* the modulus is zero: the processor stops, or returns the random number.
Modulus(bound, f) == Abs(bound - f) \div LINEAR_DIV
LINEAR_VAR(bound, f) ==
    {LINEAR_MIN + r : r \in 0..(IF Modulus(bound, f) = 0 THEN RAND_MAX ELSE Modulus(bound, f) - 1)}

STEADY_VAR(c) == IF target[c] = 0 THEN {0} ELSE Low(c)..High(c)

\* Seeded fault: no limit above.
ClampBelow(c, f) == IF f < 0 THEN 0 ELSE f

\* A flow that falls is at the upper limit at once, one that rises takes steps.
Clamp(c, f) == IF f < 0 THEN 0 ELSE IF f > High(c) THEN High(c) ELSE f

NextFlows(c) ==
    LET f == flow[c]
    IN {Clamp(c, n) : n \in IF f < Low(c) THEN {f + s : s \in LINEAR_VAR(Low(c), f)}
                            ELSE IF f > High(c) THEN {f - s : s \in LINEAR_VAR(High(c), f)}
                            ELSE STEADY_VAR(c)}

DividesByZero(c) ==
    \/ flow[c] < Low(c) /\ Modulus(Low(c), flow[c]) = 0
    \/ flow[c] > High(c) /\ Modulus(High(c), flow[c]) = 0

\* The channels a mote simulates together.
Together(c) == IF board = "mote-2" THEN Channels ELSE {c}

simulate_read_flow(c) ==
    /\ c \notin halted
    /\ LET nexts == [d \in Together(c) |-> NextFlows(d)]
       IN \E next \in [Together(c) -> UNION {nexts[d] : d \in Together(c)}] :
              /\ \A d \in Together(c) : next[d] \in nexts[d]
              /\ flow' = [d \in Channels |-> IF d \in Together(c) THEN next[d] ELSE flow[d]]
    /\ UNCHANGED <<board, target, btn_release, halted, inflowGate, topic, topicLevel, heard, lost, inputs>>

Halt(c) ==
    /\ c \notin halted
    /\ \E d \in Together(c) : DividesByZero(d)
    /\ halted' = halted \cup Together(c)
    /\ UNCHANGED <<board, target, flow, btn_release, inflowGate, topic, topicLevel, heard, lost, inputs>>
-----------------------------------------------------------------------------
(* The button of the inflow sensor.                                        *)

SetInflow(percent) ==
    /\ target' = [target EXCEPT !["inflow"] = percent]
    /\ flow' = [flow EXCEPT !["inflow"] = percent * UNIT]

\* Seeded fault: the maximum not looked at.
IncrementAnyway ==
    /\ btn_release
    /\ SetInflow(target["inflow"] + PRESS)
    /\ UNCHANGED btn_release

\* A short push: ten percent more, as long as the maximum is not reached.
Increment ==
    /\ btn_release
    /\ IF target["inflow"] < FULL THEN SetInflow(target["inflow"] + PRESS)
       ELSE UNCHANGED <<target, flow>>
    /\ UNCHANGED btn_release

\* Three seconds: no inflow, and the release that follows does not count.
LongPress ==
    /\ btn_release
    /\ btn_release' = FALSE
    /\ SetInflow(0)

Release ==
    /\ ~btn_release
    /\ btn_release' = TRUE
    /\ UNCHANGED <<target, flow>>

Button ==
    /\ "inflow" \notin halted
    /\ \/ Input /\ (Increment \/ LongPress)
       \/ Release /\ UNCHANGED inputs
    /\ UNCHANGED <<board, halted, inflowGate, topic, topicLevel, heard, lost>>
-----------------------------------------------------------------------------
(* The topic.                                                              *)

Message(c, percent) == [gate |-> c, value |-> percent]

\* The broker passes a message on to the motes that are connected.
Publish(c, percent) ==
    /\ Len(topic) < MaxQueue /\ Len(topicLevel) < MaxQueue
    /\ \E toFlow, toLevel \in BOOLEAN :
           /\ topic' = IF toFlow THEN Append(topic, Message(c, percent)) ELSE topic
           /\ topicLevel' = IF toLevel THEN Append(topicLevel, Message(c, percent)) ELSE topicLevel
           /\ lost' = (lost \/ ~toFlow \/ ~toLevel)

\* Seeded fault: the percentage cut off instead of rounded.
PercentCut(f) == f \div UNIT

Percent(f) == (2 * f + UNIT) \div (2 * UNIT)

\* The inflow sensor publishes, the Collector stores the rate and tells the
\* others, if the percentage has changed (Subscriber.simulate).
ReportInflow ==
    /\ "inflow" \notin halted
    /\ Percent(flow["inflow"]) # inflowGate
    /\ inflowGate' = Percent(flow["inflow"])
    /\ Publish("inflow", Percent(flow["inflow"]))
    /\ UNCHANGED <<board, sensor, heard, inputs>>

\* A gate has been commanded and stored (ControlLogic.simulate).
CommandGate ==
    /\ Input
    /\ \E c \in Channels \ {"inflow"}, level \in 0..FULL : Publish(c, level)
    /\ UNCHANGED <<board, sensor, inflowGate, heard>>

\* The gates a board listens for: mote-2 starts at 1.
Listens(c) == board = "flow-sensor" \/ c # "inflow"

\* Seeded fault: the value not tested.
SettingsUnchecked(old, S, m) ==
    [c \in Channels |-> IF c \in S /\ m.gate = c THEN m.value ELSE old[c]]

\* The settings of the channels of S after a message, which has a field for one
\* of them; what is not a percentage is refused.
Settings(old, S, m) ==
    [c \in Channels |-> IF c \in S /\ m.gate = c /\ m.value \in 0..FULL THEN m.value ELSE old[c]]

\* Seeded fault: mote-2 listening for all three gates.
HandleAny ==
    /\ topic # <<>>
    /\ topic' = Tail(topic)
    /\ target' = Settings(target, Channels \ halted, Head(topic))
    /\ UNCHANGED <<board, flow, btn_release, halted, inflowGate, topicLevel, heard, lost, inputs>>

handle_message ==
    /\ topic # <<>>
    /\ topic' = Tail(topic)
    /\ target' = Settings(target, {c \in Channels \ halted : Listens(c)}, Head(topic))
    /\ UNCHANGED <<board, flow, btn_release, halted, inflowGate, topicLevel, heard, lost, inputs>>

\* handle_message of the water level sensor.
HandleAtLevelSensor ==
    /\ topicLevel # <<>>
    /\ topicLevel' = Tail(topicLevel)
    /\ heard' = Settings(heard, Channels, Head(topicLevel))
    /\ UNCHANGED <<board, sensor, inflowGate, topic, lost, inputs>>
-----------------------------------------------------------------------------
Next ==
    \/ \E c \in Channels : simulate_read_flow(c) \/ Halt(c)
    \/ Button
    \/ ReportInflow \/ CommandGate
    \/ handle_message \/ HandleAtLevelSensor

Spec == Init /\ [][Next]_vars

\* The timer of a sensor goes on, it publishes, and what is under way arrives.
FairSpec ==
    /\ Spec
    /\ \A c \in Channels : WF_vars(simulate_read_flow(c))
    /\ WF_vars(ReportInflow) /\ WF_vars(handle_message) /\ WF_vars(HandleAtLevelSensor)
-----------------------------------------------------------------------------
(* Properties                                                              *)

\* The highest target: the maximum, which the firmware can miss by almost one
\* push, when a message has taken it off the multiples of ten.
Ceiling(c) == IF c = "inflow" /\ board = "flow-sensor" THEN FULL - 1 + PRESS ELSE FULL

TypeOK ==
    /\ board \in Boards
    /\ target \in [Channels -> Int] /\ flow \in [Channels -> Int]
    /\ btn_release \in BOOLEAN
    /\ halted \subseteq Channels
    /\ inflowGate \in Int
    /\ topic \in Seq([gate : Channels, value : Int]) /\ topicLevel \in Seq([gate : Channels, value : Int])
    /\ heard \in [Channels -> 0..FULL]
    /\ lost \in BOOLEAN
    /\ inputs \in 0..MaxInputs

\* No flow is negative, and none exceeds the highest target by more than the
\* noise, whatever pushes and messages come while it is led to a target (the
\* limits at the end of simulate_read_flow, the tests of the button handler
\* and of handle_message).
FlowBounded ==
    \A c \in Channels :
        /\ target[c] \in 0..Ceiling(c)
        /\ flow[c] >= 0
        /\ flow[c] <= Ceiling(c) * UNIT + VAR_THRESHOLD

\* On the board, which ignores the percentage measured from its own inflow, the
\* inflow never leaves the band of its target: it is never led anywhere, so
\* that no modulus is zero, no push is undone and what is measured rounds to
\* what is set (handle_message of mote-2.c starts at 1).
InflowInBand == board = "mote-2" => Low("inflow") <= flow["inflow"] /\ flow["inflow"] <= High("inflow")

\* While its target stands a flow does not leave the band again, falls into it or
\* below in one reading, and rises by at least LINEAR_MIN or to the upper limit:
\* it cannot swing between the two sides, although a zero modulus may return any
\* random number (the three branches and the limits of simulate_read_flow).
LedToTarget ==
    [][\A c \in Channels : target'[c] = target[c] =>
          IF Low(c) <= flow[c] /\ flow[c] <= High(c)
          THEN Low(c) <= flow'[c] /\ flow'[c] <= High(c)
          ELSE flow'[c] # flow[c] =>
                   /\ flow'[c] <= High(c)
                   /\ flow[c] < Low(c) => flow'[c] = High(c) \/ flow'[c] >= flow[c] + LINEAR_MIN]_vars

\* A flow gets to its target and stays with it, from above and from below, if
\* its sensor survives the way (simulate_read_flow).
Settles ==
    \A c \in Channels, t \in 0..FULL :
        <>[](target[c] = t /\ c \notin halted) => <>[](Low(c) <= flow[c] /\ flow[c] <= High(c))

\* The two kinds of sensor simulate the same dam: as long as no message is lost
\* the water level sensor ends up with the settings of the flow sensors of the
\* board (Subscriber.simulate, ControlLogic.simulate and both handle_message).
Follows ==
    board = "mote-2" /\ [](~lost /\ halted = {}) => <>[](heard = target)
=============================================================================
