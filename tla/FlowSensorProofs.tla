-------------------------- MODULE FlowSensorProofs ---------------------------
(***************************************************************************)
(* Theorems about FlowSensor, for every set of channels, percentage scale  *)
(* and width of the noise.                                                 *)
(***************************************************************************)
EXTENDS FlowSensor, TLAPS

\* On the board, whose inflow is set by the button only, the target is so many
\* pushes; it reaches the maximum exactly.
Pushes(n) == \E k \in Nat : n = k * PRESS
InflowPushed == board = "mote-2" => Pushes(target["inflow"])

FlowInv == TypeOK /\ FlowBounded /\ InflowPushed /\ InflowInBand
-----------------------------------------------------------------------------
(* Arithmetic.                                                             *)

LEMMA Numbers ==
    /\ FULL \in Nat /\ PRESS \in Nat /\ PRESS > 0 /\ INIT_INGATE \in 0..FULL
    /\ UNIT \in Nat /\ UNIT > 0 /\ VAR_THRESHOLD \in Nat /\ LINEAR_MIN \in Nat
    /\ MaxInputs \in Nat
  BY PercentAssumption, NoiseAssumption, BoundsAssumption

LEMMA WholeMultiple ==
    ASSUME NEW n \in Nat, NEW d \in Nat, d > 0, n % d = 0
    PROVE  \E k \in Nat : n = k * d
  <1> DEFINE k == n \div d
  <1>1. k \in Nat /\ n = k * d
    OBVIOUS
  <1> QED BY <1>1

LEMMA Multiples == Pushes(FULL) /\ Pushes(INIT_INGATE)
  <1>1. FULL \in Nat /\ INIT_INGATE \in Nat /\ PRESS \in Nat /\ PRESS > 0
    BY Numbers
  <1>2. FULL % PRESS = 0 /\ INIT_INGATE % PRESS = 0
    BY PressAssumption
  <1>3. \E k \in Nat : FULL = k * PRESS
    BY <1>1, <1>2, WholeMultiple
  <1>4. \E k \in Nat : INIT_INGATE = k * PRESS
    BY <1>1, <1>2, WholeMultiple
  <1> QED BY <1>3, <1>4 DEF Pushes

LEMMA TimesOrder ==
    ASSUME NEW a \in Int, NEW b \in Int, NEW d \in Nat, d > 0, a * d < b * d
    PROVE  a < b
  OBVIOUS

LEMMA TimesMonotone ==
    ASSUME NEW a \in Int, NEW b \in Int, NEW d \in Nat, a <= b
    PROVE  a * d <= b * d /\ a * d \in Int /\ b * d \in Int
  OBVIOUS

\* A push from below the maximum does not pass it.
LEMMA PushFits ==
    ASSUME NEW n \in Nat, Pushes(n), n < FULL
    PROVE  n + PRESS <= FULL /\ Pushes(n + PRESS)
  <1>1. PICK k \in Nat : n = k * PRESS
    BY DEF Pushes
  <1>2. PICK m \in Nat : FULL = m * PRESS
    BY Multiples DEF Pushes
  <1>3. k < m
    BY <1>1, <1>2, Numbers, TimesOrder
  <1>4. (k + 1) * PRESS <= m * PRESS
    BY <1>3, Numbers, TimesMonotone
  <1>5. (k + 1) * PRESS = n + PRESS
    BY <1>1, Numbers
  <1> QED BY <1>2, <1>4, <1>5 DEF Pushes

LEMMA Ceilings ==
    ASSUME NEW c \in Channels
    PROVE  /\ Ceiling(c) \in Nat /\ FULL <= Ceiling(c)
           /\ Initial(c) \in 0..FULL
  BY Numbers DEF Ceiling, Initial

LEMMA Percents == ASSUME NEW f \in Int PROVE Percent(f) \in Int
  <1>1. 2 * UNIT \in Nat /\ 2 * UNIT > 0 /\ 2 * f + UNIT \in Int
    BY Numbers
  <1> QED BY <1>1 DEF Percent
-----------------------------------------------------------------------------
(* A reading.                                                              *)

\* The limits keep a flow between none and the upper limit of its band.
LEMMA Clamped ==
    ASSUME NEW c \in Channels, target[c] \in Nat, NEW f \in Int
    PROVE  Clamp(c, f) \in Int /\ 0 <= Clamp(c, f) /\ Clamp(c, f) <= High(c)
  <1>1. High(c) \in Int /\ 0 <= High(c)
    BY Numbers DEF High
  <1> QED BY <1>1 DEF Clamp

LEMMA NextFlow ==
    ASSUME NEW c \in Channels, target[c] \in Nat, flow[c] \in Int, NEW n \in NextFlows(c)
    PROVE  /\ n \in Int /\ 0 <= n /\ n <= High(c)
           /\ Low(c) <= flow[c] /\ flow[c] <= High(c) => Low(c) <= n
  <1>1. Low(c) \in Int /\ High(c) \in Int /\ Low(c) <= High(c) /\ 0 <= High(c)
    BY Numbers DEF Low, High
  <1>2. target[c] = 0 => Low(c) <= 0
    BY Numbers DEF Low
  <1>3. \A b, f : LINEAR_VAR(b, f) \subseteq Int
    BY Numbers DEF LINEAR_VAR
  <1>4. STEADY_VAR(c) \subseteq Int /\ \A m \in STEADY_VAR(c) : Low(c) <= m
    BY <1>1, <1>2 DEF STEADY_VAR
  <1>5. CASE flow[c] < Low(c)
    <2>1. PICK s \in LINEAR_VAR(Low(c), flow[c]) : n = Clamp(c, flow[c] + s)
      BY <1>5 DEF NextFlows
    <2>2. flow[c] + s \in Int
      BY <1>3, <2>1
    <2> QED BY <1>1, <1>5, <2>1, <2>2, Clamped
  <1>6. CASE ~(flow[c] < Low(c)) /\ flow[c] > High(c)
    <2>1. PICK s \in LINEAR_VAR(High(c), flow[c]) : n = Clamp(c, flow[c] - s)
      BY <1>6 DEF NextFlows
    <2>2. flow[c] - s \in Int
      BY <1>3, <2>1
    <2> QED BY <1>1, <1>6, <2>1, <2>2, Clamped
  <1>7. CASE ~(flow[c] < Low(c)) /\ ~(flow[c] > High(c))
    <2>1. PICK m \in STEADY_VAR(c) : n = Clamp(c, m)
      BY <1>7 DEF NextFlows
    <2>2. m \in Int /\ Low(c) <= m
      BY <1>4, <2>1
    <2>3. n \in Int /\ 0 <= n /\ n <= High(c)
      BY <2>1, <2>2, Clamped
    <2>4. Low(c) <= n
      BY <1>1, <2>1, <2>2 DEF Clamp
    <2> QED BY <2>3, <2>4
  <1> QED BY <1>1, <1>5, <1>6, <1>7

LEMMA Read ==
    ASSUME NEW c \in Channels, simulate_read_flow(c)
    PROVE  /\ flow' = [d \in Channels |-> flow'[d]]
           /\ \A d \in Channels : flow'[d] = flow[d] \/ flow'[d] \in NextFlows(d)
  <1> DEFINE nexts == [d \in Together(c) |-> NextFlows(d)]
  <1>1. PICK next \in [Together(c) -> UNION {nexts[d] : d \in Together(c)}] :
              /\ \A d \in Together(c) : next[d] \in nexts[d]
              /\ flow' = [d \in Channels |-> IF d \in Together(c) THEN next[d] ELSE flow[d]]
    BY DEF simulate_read_flow
  <1>2. \A d \in Together(c) : next[d] \in NextFlows(d)
    BY <1>1
  <1>3. flow' = [d \in Channels |-> IF d \in Together(c) THEN next[d] ELSE flow[d]]
    BY <1>1
  <1> QED BY <1>2, <1>3

LEMMA ReadKeeps == ASSUME FlowInv, NEW c \in Channels, simulate_read_flow(c) PROVE FlowInv'
  <1>1. UNCHANGED <<board, target, btn_release, halted, inflowGate, topic, topicLevel, heard, lost, inputs>>
    BY DEF simulate_read_flow
  <1>2. flow' = [d \in Channels |-> flow'[d]]
    BY Read
  <1>3. ASSUME NEW d \in Channels
        PROVE  /\ flow'[d] \in Int /\ 0 <= flow'[d]
               /\ flow'[d] <= Ceiling(d) * UNIT + VAR_THRESHOLD
               /\ Low(d) <= flow[d] /\ flow[d] <= High(d) => Low(d) <= flow'[d] /\ flow'[d] <= High(d)
    <2>1. target[d] \in 0..Ceiling(d) /\ flow[d] \in Int
      BY DEF FlowInv, TypeOK, FlowBounded
    <2>2. Ceiling(d) \in Nat
      BY Ceilings
    <2>3. target[d] * UNIT <= Ceiling(d) * UNIT /\ target[d] * UNIT \in Int /\ Ceiling(d) * UNIT \in Int
      BY <2>1, <2>2, Numbers, TimesMonotone
    <2>4. High(d) <= Ceiling(d) * UNIT + VAR_THRESHOLD /\ High(d) \in Int
      BY <2>3, Numbers DEF High
    <2>5. CASE flow'[d] = flow[d]
      BY <2>1, <2>5 DEF FlowInv, FlowBounded
    <2>6. CASE flow'[d] \in NextFlows(d)
      <3>1. /\ flow'[d] \in Int /\ 0 <= flow'[d] /\ flow'[d] <= High(d)
            /\ Low(d) <= flow[d] /\ flow[d] <= High(d) => Low(d) <= flow'[d]
        BY <2>1, <2>2, <2>6, NextFlow
      <3>2. flow'[d] <= Ceiling(d) * UNIT + VAR_THRESHOLD
        BY <2>3, <2>4, <3>1, Numbers
      <3> QED BY <3>1, <3>2
    <2> QED BY <2>5, <2>6, Read
  <1>4. flow' \in [Channels -> Int]
    BY <1>2, <1>3
  <1>5. TypeOK'
    BY <1>1, <1>4 DEF FlowInv, TypeOK
  <1>6. FlowBounded' /\ InflowPushed'
    BY <1>1, <1>3 DEF FlowInv, FlowBounded, Ceiling, InflowPushed
  <1>7. InflowInBand'
    BY <1>1, <1>3, ChannelsAssumption DEF FlowInv, InflowInBand, Low, High
  <1> QED BY <1>5, <1>6, <1>7 DEF FlowInv
-----------------------------------------------------------------------------
(* The button.                                                             *)

\* A target set together with its flow.
LEMMA SetKeeps ==
    ASSUME FlowInv, NEW p \in 0..Ceiling("inflow"), SetInflow(p), UNCHANGED board,
           board = "mote-2" => Pushes(p)
    PROVE  /\ target' \in [Channels -> Int] /\ flow' \in [Channels -> Int]
           /\ FlowBounded' /\ InflowPushed' /\ InflowInBand'
  <1>1. target \in [Channels -> Int] /\ flow \in [Channels -> Int] /\ "inflow" \in Channels
    BY ChannelsAssumption DEF FlowInv, TypeOK
  <1>2. target' = [target EXCEPT !["inflow"] = p] /\ flow' = [flow EXCEPT !["inflow"] = p * UNIT]
    BY DEF SetInflow
  <1>3. p \in Int /\ Ceiling("inflow") \in Nat
    BY <1>1, Ceilings
  <1>4. p * UNIT \in Int /\ 0 <= p * UNIT /\ p * UNIT <= Ceiling("inflow") * UNIT
    BY <1>3, Numbers, TimesMonotone
  <1>5. target'["inflow"] = p /\ flow'["inflow"] = p * UNIT
    BY <1>1, <1>2
  <1>6. \A c \in Channels \ {"inflow"} : target'[c] = target[c] /\ flow'[c] = flow[c]
    BY <1>1, <1>2
  <1>7. target' \in [Channels -> Int] /\ flow' \in [Channels -> Int]
    BY <1>1, <1>2, <1>3, <1>4
  <1>8. Ceiling("inflow") * UNIT \in Int /\ VAR_THRESHOLD \in Nat
    BY <1>3, Numbers
  <1>9. flow'["inflow"] <= Ceiling("inflow") * UNIT + VAR_THRESHOLD
    BY <1>4, <1>5, <1>8
  <1>10. FlowBounded'
    BY <1>4, <1>5, <1>6, <1>9 DEF FlowInv, FlowBounded, Ceiling
  <1>11. InflowPushed'
    BY <1>5 DEF InflowPushed
  <1>12. InflowInBand'
    BY <1>4, <1>5, Numbers DEF InflowInBand, Low, High
  <1> QED BY <1>7, <1>10, <1>11, <1>12

LEMMA ButtonKeeps == ASSUME FlowInv, Button PROVE FlowInv'
  <1>1. UNCHANGED <<board, halted, inflowGate, topic, topicLevel, heard, lost>>
    BY DEF Button
  <1>2. inputs' \in 0..MaxInputs
    BY Numbers DEF Button, Input, FlowInv, TypeOK
  <1>3. btn_release' \in BOOLEAN
    BY DEF Button, Increment, LongPress, Release, FlowInv, TypeOK
  <1>4. "inflow" \in Channels
    BY ChannelsAssumption
  <1>5. CASE UNCHANGED <<target, flow>>
    <2>1. TypeOK'
      BY <1>1, <1>2, <1>3, <1>5 DEF FlowInv, TypeOK
    <2>2. FlowBounded' /\ InflowPushed' /\ InflowInBand'
      BY <1>1, <1>5 DEF FlowInv, FlowBounded, Ceiling, InflowPushed, InflowInBand, Low, High
    <2> QED BY <2>1, <2>2 DEF FlowInv
  <1>6. CASE \E p \in 0..Ceiling("inflow") : SetInflow(p) /\ (board = "mote-2" => Pushes(p))
    <2>1. /\ target' \in [Channels -> Int] /\ flow' \in [Channels -> Int]
          /\ FlowBounded' /\ InflowPushed' /\ InflowInBand'
      BY <1>1, <1>6, SetKeeps
    <2>2. TypeOK'
      BY <1>1, <1>2, <1>3, <2>1 DEF FlowInv, TypeOK
    <2> QED BY <2>1, <2>2 DEF FlowInv
  <1>7. CASE target["inflow"] < FULL /\ SetInflow(target["inflow"] + PRESS)
    <2> DEFINE n == target["inflow"]
    <2>1. n \in Nat /\ n < FULL
      BY <1>4, <1>7, Ceilings DEF FlowInv, FlowBounded
    <2>2. board = "mote-2" => Pushes(n)
      BY DEF FlowInv, InflowPushed
    <2> HIDE DEF n
    <2>3. board = "mote-2" => n + PRESS <= FULL /\ Pushes(n + PRESS)
      BY <2>1, <2>2, PushFits
    <2>4. n + PRESS \in Nat /\ n + PRESS <= FULL - 1 + PRESS
      BY <2>1, Numbers
    <2>5. n + PRESS \in 0..Ceiling("inflow")
      BY <1>1, <2>3, <2>4, Numbers DEF Ceiling, FlowInv, TypeOK, Boards
    <2> QED BY <1>6, <1>7, <2>3, <2>5 DEF n
  <1>8. CASE SetInflow(0)
    <2>1. 0 \in 0..Ceiling("inflow")
      BY <1>4, Ceilings
    <2>2. 0 = 0 * PRESS
      BY Numbers
    <2>3. Pushes(0)
      BY <2>2 DEF Pushes
    <2> QED BY <1>6, <1>8, <2>1, <2>3
  <1> QED BY <1>5, <1>7, <1>8 DEF Button, Increment, LongPress, Release
-----------------------------------------------------------------------------
(* The topic.                                                              *)

LEMMA Settled ==
    ASSUME NEW S \in SUBSET Channels, NEW old, NEW m
    PROVE  /\ Settings(old, S, m) = [c \in Channels |-> Settings(old, S, m)[c]]
           /\ \A c \in Channels :
                  \/ Settings(old, S, m)[c] = old[c]
                  \/ c \in S /\ Settings(old, S, m)[c] \in 0..FULL
  BY DEF Settings

LEMMA PublishKeeps ==
    ASSUME FlowInv, NEW c \in Channels, NEW percent \in Int, Publish(c, percent)
    PROVE  /\ topic' \in Seq([gate : Channels, value : Int])
           /\ topicLevel' \in Seq([gate : Channels, value : Int])
           /\ lost' \in BOOLEAN
  <1>1. Message(c, percent) \in [gate : Channels, value : Int]
    BY DEF Message
  <1>2. topic \in Seq([gate : Channels, value : Int]) /\ topicLevel \in Seq([gate : Channels, value : Int])
    BY DEF FlowInv, TypeOK
  <1>3. Append(topic, Message(c, percent)) \in Seq([gate : Channels, value : Int])
        /\ Append(topicLevel, Message(c, percent)) \in Seq([gate : Channels, value : Int])
    BY <1>1, <1>2
  <1>4. lost' \in BOOLEAN
    BY DEF Publish
  <1> QED BY <1>2, <1>3, <1>4 DEF Publish

LEMMA TopicKeeps ==
    ASSUME FlowInv, ReportInflow \/ CommandGate
    PROVE  FlowInv'
  <1>1. UNCHANGED <<board, sensor, heard>>
    BY DEF ReportInflow, CommandGate
  <1>0. flow["inflow"] \in Int /\ inflowGate \in Int /\ inputs \in 0..MaxInputs
    BY ChannelsAssumption DEF FlowInv, TypeOK
  <1>6. Percent(flow["inflow"]) \in Int
    BY <1>0, Percents
  <1>7. inflowGate' \in Int
    BY <1>0, <1>6 DEF ReportInflow, CommandGate
  <1>2. inputs' \in 0..MaxInputs
    BY <1>0, Numbers DEF ReportInflow, CommandGate, Input
  <1>3. \E c \in Channels, percent \in Int : Publish(c, percent)
    <2>1. CASE ReportInflow
      BY <1>6, <2>1, ChannelsAssumption DEF ReportInflow
    <2>2. CASE CommandGate
      BY <2>2, Numbers DEF CommandGate
    <2> QED BY <2>1, <2>2
  <1>4. TypeOK'
    BY <1>1, <1>2, <1>3, <1>7, PublishKeeps DEF FlowInv, TypeOK, sensor
  <1>5. FlowBounded' /\ InflowPushed' /\ InflowInBand'
    BY <1>1 DEF FlowInv, FlowBounded, Ceiling, InflowPushed, InflowInBand, Low, High, sensor
  <1> QED BY <1>4, <1>5 DEF FlowInv

LEMMA HandleKeeps == ASSUME FlowInv, handle_message PROVE FlowInv'
  <1>1. UNCHANGED <<board, flow, btn_release, halted, inflowGate, topicLevel, heard, lost, inputs>>
    BY DEF handle_message
  <1> DEFINE S == {c \in Channels \ halted : Listens(c)}
             m == Head(topic)
  <1>2. target' = Settings(target, S, m)
    BY DEF handle_message
  <1>3. S \in SUBSET Channels
    OBVIOUS
  <1>4. board = "mote-2" => "inflow" \notin S
    BY DEF Listens
  <1> HIDE DEF S, m
  <1>5. target' = [c \in Channels |-> target'[c]]
        /\ \A c \in Channels : target'[c] = target[c] \/ (c \in S /\ target'[c] \in 0..FULL)
    BY <1>2, <1>3, Settled
  <1>6. \A c \in Channels : target'[c] \in 0..Ceiling(c)
    <2> SUFFICES ASSUME NEW c \in Channels PROVE target'[c] \in 0..Ceiling(c)
      OBVIOUS
    <2>1. Ceiling(c) \in Nat /\ FULL <= Ceiling(c) /\ FULL \in Nat
      BY Ceilings, Numbers
    <2>2. target[c] \in 0..Ceiling(c)
      BY DEF FlowInv, FlowBounded
    <2> QED BY <1>5, <2>1, <2>2
  <1>7. target' \in [Channels -> Int]
    BY <1>5, <1>6
  <1>8. topic' \in Seq([gate : Channels, value : Int])
    BY DEF handle_message, FlowInv, TypeOK
  <1>9. TypeOK'
    BY <1>1, <1>7, <1>8 DEF FlowInv, TypeOK
  <1>10. FlowBounded'
    BY <1>1, <1>6 DEF FlowInv, FlowBounded, Ceiling
  <1>11. board = "mote-2" => target'["inflow"] = target["inflow"]
    BY <1>4, <1>5, ChannelsAssumption
  <1>12. InflowPushed' /\ InflowInBand'
    BY <1>1, <1>11 DEF FlowInv, InflowPushed, InflowInBand, Low, High
  <1> QED BY <1>9, <1>10, <1>12 DEF FlowInv

LEMMA HeardKeeps == ASSUME FlowInv, HandleAtLevelSensor PROVE FlowInv'
  <1>1. UNCHANGED <<board, sensor, inflowGate, topic, lost, inputs>>
    BY DEF HandleAtLevelSensor
  <1> DEFINE m == Head(topicLevel)
  <1>2. heard' = Settings(heard, Channels, m)
    BY DEF HandleAtLevelSensor
  <1> HIDE DEF m
  <1>3. heard' = [c \in Channels |-> heard'[c]]
        /\ \A c \in Channels : heard'[c] = heard[c] \/ heard'[c] \in 0..FULL
    BY <1>2, Settled
  <1>4. heard' \in [Channels -> 0..FULL]
    BY <1>3 DEF FlowInv, TypeOK
  <1>5. topicLevel' \in Seq([gate : Channels, value : Int])
    BY DEF HandleAtLevelSensor, FlowInv, TypeOK
  <1>6. TypeOK'
    BY <1>1, <1>4, <1>5 DEF FlowInv, TypeOK, sensor
  <1>7. FlowBounded' /\ InflowPushed' /\ InflowInBand'
    BY <1>1 DEF FlowInv, FlowBounded, Ceiling, InflowPushed, InflowInBand, Low, High, sensor
  <1> QED BY <1>6, <1>7 DEF FlowInv
-----------------------------------------------------------------------------
LEMMA FlowInit == Init => FlowInv
  <1> SUFFICES ASSUME Init PROVE FlowInv
    OBVIOUS
  <1>1. \A c \in Channels : Initial(c) \in 0..FULL
    BY Ceilings
  <1>2. target = [c \in Channels |-> Initial(c)] /\ flow = [c \in Channels |-> Initial(c) * UNIT]
        /\ heard = [c \in Channels |-> Initial(c)]
    BY DEF Init
  <1>3. ASSUME NEW c \in Channels
        PROVE  /\ target[c] = Initial(c) /\ flow[c] = Initial(c) * UNIT
               /\ Initial(c) * UNIT \in Nat
               /\ target[c] \in 0..Ceiling(c)
               /\ flow[c] <= Ceiling(c) * UNIT + VAR_THRESHOLD
    <2>1. Ceiling(c) \in Nat /\ FULL <= Ceiling(c) /\ Initial(c) \in 0..FULL /\ FULL \in Nat
      BY Ceilings, Numbers
    <2>2. target[c] = Initial(c) /\ flow[c] = Initial(c) * UNIT
      BY <1>2
    <2>3. Initial(c) \in Nat /\ Initial(c) <= Ceiling(c)
      BY <2>1
    <2>4. Initial(c) * UNIT <= Ceiling(c) * UNIT /\ Ceiling(c) * UNIT \in Int /\ Initial(c) * UNIT \in Nat
      BY <2>1, <2>3, Numbers, TimesMonotone
    <2>5. flow[c] <= Ceiling(c) * UNIT + VAR_THRESHOLD
      BY <2>2, <2>4, Numbers
    <2> QED BY <2>1, <2>2, <2>3, <2>4, <2>5
  <1>5. target \in [Channels -> Int] /\ flow \in [Channels -> Int]
    BY <1>1, <1>2, <1>3
  <1>11. heard \in [Channels -> 0..FULL]
    BY <1>1, <1>2
  <1>6. TypeOK
    <2>1. inputs \in 0..MaxInputs /\ inflowGate \in Int
      BY Numbers DEF Init
    <2>2. /\ topic \in Seq([gate : Channels, value : Int])
          /\ topicLevel \in Seq([gate : Channels, value : Int])
      BY DEF Init
    <2>3. board \in Boards /\ btn_release \in BOOLEAN /\ halted \subseteq Channels /\ lost \in BOOLEAN
      BY DEF Init
    <2> QED BY <1>5, <1>11, <2>1, <2>2, <2>3 DEF TypeOK
  <1>7. \A c \in Channels : flow[c] = Initial(c) * UNIT /\ target[c] = Initial(c)
    BY <1>3
  <1>8. FlowBounded
    <2> SUFFICES ASSUME NEW c \in Channels
                 PROVE  /\ target[c] \in 0..Ceiling(c)
                        /\ flow[c] >= 0
                        /\ flow[c] <= Ceiling(c) * UNIT + VAR_THRESHOLD
      BY DEF FlowBounded
    <2>1. flow[c] \in Nat
      BY <1>3
    <2> QED BY <1>3, <2>1
  <1>9. InflowPushed
    BY <1>7, Multiples, ChannelsAssumption DEF InflowPushed, Initial
  <1>10. InflowInBand
    BY <1>3, <1>7, ChannelsAssumption, Numbers DEF InflowInBand, Low, High
  <1> QED BY <1>6, <1>8, <1>9, <1>10 DEF FlowInv

LEMMA FlowStep == FlowInv /\ [Next]_vars => FlowInv'
  <1> SUFFICES ASSUME FlowInv, [Next]_vars PROVE FlowInv'
    OBVIOUS
  <1>1. CASE \E c \in Channels : simulate_read_flow(c)
    BY <1>1, ReadKeeps
  <1>2. CASE \E c \in Channels : Halt(c)
    <2>1. PICK c \in Channels : Halt(c)
      BY <1>2
    <2>2. TypeOK'
      BY <2>1 DEF Halt, FlowInv, TypeOK, Together
    <2>3. FlowBounded' /\ InflowPushed' /\ InflowInBand'
      BY <2>1 DEF Halt, FlowInv, FlowBounded, Ceiling, InflowPushed, InflowInBand, Low, High
    <2> QED BY <2>2, <2>3 DEF FlowInv
  <1>3. CASE Button
    BY <1>3, ButtonKeeps
  <1>4. CASE ReportInflow \/ CommandGate
    BY <1>4, TopicKeeps
  <1>5. CASE handle_message
    BY <1>5, HandleKeeps
  <1>6. CASE HandleAtLevelSensor
    BY <1>6, HeardKeeps
  <1>7. CASE UNCHANGED vars
    <2>1. TypeOK'
      BY <1>7 DEF vars, sensor, FlowInv, TypeOK
    <2>2. FlowBounded' /\ InflowPushed' /\ InflowInBand'
      BY <1>7 DEF vars, sensor, FlowInv, FlowBounded, Ceiling, InflowPushed, InflowInBand, Low, High
    <2> QED BY <2>1, <2>2 DEF FlowInv
  <1> QED BY <1>1, <1>2, <1>3, <1>4, <1>5, <1>6, <1>7 DEF Next

\* The variables keep their types, whatever the messages say.
THEOREM TypeCorrect == Spec => []TypeOK
  <1>1. FlowInv => TypeOK
    BY DEF FlowInv
  <1> QED BY <1>1, FlowInit, FlowStep, PTL DEF Spec

\* No flow is negative or beyond the highest target and the noise.
THEOREM Bounded == Spec => []FlowBounded
  <1>1. FlowInv => FlowBounded
    BY DEF FlowInv
  <1> QED BY <1>1, FlowInit, FlowStep, PTL DEF Spec

\* The inflow of the board stays in the band of its target.
THEOREM InBand == Spec => []InflowInBand
  <1>1. FlowInv => InflowInBand
    BY DEF FlowInv
  <1> QED BY <1>1, FlowInit, FlowStep, PTL DEF Spec
-----------------------------------------------------------------------------
(* The way to the target.                                                  *)

\* What a channel may do in one step while its target stands.
Led(c) ==
    IF Low(c) <= flow[c] /\ flow[c] <= High(c)
    THEN Low(c) <= flow'[c] /\ flow'[c] <= High(c)
    ELSE flow'[c] # flow[c] =>
             /\ flow'[c] <= High(c)
             /\ flow[c] < Low(c) => flow'[c] = High(c) \/ flow'[c] >= flow[c] + LINEAR_MIN

\* From below, a reading is the upper limit or a step of LINEAR_VAR higher.
LEMMA RisesEnough ==
    ASSUME NEW c \in Channels, target[c] \in Nat, flow[c] \in Nat, flow[c] < Low(c), NEW n \in NextFlows(c)
    PROVE  n = High(c) \/ n >= flow[c] + LINEAR_MIN
  <1>1. PICK s \in LINEAR_VAR(Low(c), flow[c]) : n = Clamp(c, flow[c] + s)
    BY DEF NextFlows
  <1>2. s \in Int /\ s >= LINEAR_MIN
    BY <1>1, Numbers DEF LINEAR_VAR
  <1>3. High(c) \in Int /\ flow[c] + s >= 0
    BY <1>2, Numbers DEF High
  <1> QED BY <1>1, <1>2, <1>3, Numbers DEF Clamp

\* Once a flow has reached the band it keeps to it until its target changes, and
\* no reading passes the band by on the way down to come back from above.
THEOREM OnTheWay == Spec => LedToTarget
  <1>1. ASSUME FlowInv, [Next]_vars, NEW c \in Channels, target'[c] = target[c] PROVE Led(c)
    <2>0. target[c] \in Nat /\ flow[c] \in Nat /\ Low(c) \in Int /\ High(c) \in Int /\ Low(c) <= High(c)
      <3>1. target[c] \in 0..Ceiling(c) /\ flow[c] \in Int /\ flow[c] >= 0 /\ Ceiling(c) \in Nat
        BY <1>1, Ceilings DEF FlowInv, TypeOK, FlowBounded
      <3> QED BY <3>1, Numbers DEF Low, High
    <2>1. CASE flow'[c] = flow[c]
      BY <2>1 DEF Led
    <2>2. CASE flow'[c] \in NextFlows(c)
      <3>1. /\ flow'[c] \in Int /\ 0 <= flow'[c] /\ flow'[c] <= High(c)
            /\ Low(c) <= flow[c] /\ flow[c] <= High(c) => Low(c) <= flow'[c]
        BY <2>0, <2>2, NextFlow
      <3>2. flow[c] < Low(c) => flow'[c] = High(c) \/ flow'[c] >= flow[c] + LINEAR_MIN
        BY <2>0, <2>2, RisesEnough
      <3> QED BY <3>1, <3>2 DEF Led
    <2>3. CASE target[c] = 0 /\ flow'[c] = 0
      <3>1. Low(c) <= 0 /\ 0 <= High(c) /\ ~(flow[c] < Low(c))
        BY <2>0, <2>3, Numbers DEF Low, High
      <3> QED BY <2>3, <3>1 DEF Led
    <2>4. CASE SetInflow(target["inflow"] + PRESS) \/ SetInflow(0)
      <3> DEFINE t == target["inflow"]
      <3>1. t \in Int /\ target \in [Channels -> Int] /\ flow \in [Channels -> Int]
        BY <1>1, ChannelsAssumption DEF FlowInv, TypeOK
      <3>2. CASE c # "inflow"
        BY <2>1, <2>4, <3>1, <3>2 DEF SetInflow
      <3>3. CASE c = "inflow"
        <4>1. target'[c] = t + PRESS \/ (target'[c] = 0 /\ flow'[c] = 0 * UNIT)
          BY <2>4, <3>1, <3>3 DEF SetInflow
        <4>2. t + PRESS # t
          BY <3>1, Numbers
        <4>3. target[c] = 0 /\ flow'[c] = 0 * UNIT
          BY <1>1, <3>3, <4>1, <4>2
        <4> QED BY <2>3, <4>3, Numbers
      <3> QED BY <3>2, <3>3
    <2>5. CASE \E d \in Channels : simulate_read_flow(d)
      <3>1. PICK d \in Channels : simulate_read_flow(d)
        BY <2>5
      <3>2. flow'[c] = flow[c] \/ flow'[c] \in NextFlows(c)
        BY <3>1 DEF simulate_read_flow
      <3> QED BY <2>1, <2>2, <3>2
    <2>6. CASE Button
      BY <2>1, <2>4, <2>6 DEF Button, Increment, LongPress, Release
    <2>7. CASE UNCHANGED flow
      BY <2>1, <2>7
    <2>8. (\E d \in Channels : Halt(d)) \/ ReportInflow \/ CommandGate \/ handle_message
             \/ HandleAtLevelSensor \/ UNCHANGED vars => UNCHANGED flow
      BY DEF Halt, ReportInflow, CommandGate, handle_message, HandleAtLevelSensor, vars, sensor
    <2> QED BY <1>1, <2>5, <2>6, <2>7, <2>8 DEF Next
  <1>2. FlowInv /\ [Next]_vars =>
            [\A c \in Channels : target'[c] = target[c] =>
                IF Low(c) <= flow[c] /\ flow[c] <= High(c)
                THEN Low(c) <= flow'[c] /\ flow'[c] <= High(c)
                ELSE flow'[c] # flow[c] =>
                         /\ flow'[c] <= High(c)
                         /\ flow[c] < Low(c) => flow'[c] = High(c) \/ flow'[c] >= flow[c] + LINEAR_MIN]_vars
    BY <1>1 DEF Led
  <1> QED BY <1>2, FlowInit, FlowStep, PTL DEF Spec, LedToTarget
-----------------------------------------------------------------------------
(* What the messages under way bring.                                      *)

Messages == [gate : Channels, value : Int]

\* handle_message takes the message for the channel.
Sets(m, c) == m.gate = c /\ m.value \in 0..FULL

\* The setting of a channel once a queue has been handled: the last message for
\* the channel decides, and the setting is the old one if there is none.
Brings(q, c, old, v) ==
    \/ (\A i \in 1..Len(q) : ~Sets(q[i], c)) /\ v = old
    \/ \E i \in 1..Len(q) :
           /\ Sets(q[i], c) /\ v = q[i].value
           /\ \A j \in (i + 1)..Len(q) : ~Sets(q[j], c)

LEMMA NoneUnderWay == ASSUME NEW c, NEW old, NEW v PROVE Brings(<<>>, c, old, v) <=> v = old
  <1>1. Len(<<>>) = 0 /\ 1..0 = {}
    OBVIOUS
  <1> QED BY <1>1 DEF Brings

\* A message that is sent has the last word.
LEMMA SentLast ==
    ASSUME NEW q \in Seq(Messages), NEW m \in Messages, NEW c, NEW old, NEW v
    PROVE  /\ Sets(m, c) => (Brings(Append(q, m), c, old, v) <=> v = m.value)
           /\ ~Sets(m, c) => (Brings(Append(q, m), c, old, v) <=> Brings(q, c, old, v))
  <1> DEFINE r == Append(q, m)
             n == Len(q)
  <1>1. /\ n \in Nat /\ Len(r) = n + 1 /\ r[n + 1] = m
        /\ \A i \in 1..n : r[i] = q[i]
    OBVIOUS
  <1> HIDE DEF r, n
  <1>2. CASE Sets(m, c)
    <2>1. n + 1 \in 1..Len(r) /\ Sets(r[n + 1], c) /\ \A j \in (n + 2)..Len(r) : ~Sets(r[j], c)
      BY <1>1, <1>2
    <2>2. ASSUME Brings(r, c, old, v) PROVE v = m.value
      <3>1. PICK i \in 1..Len(r) :
                Sets(r[i], c) /\ v = r[i].value /\ \A j \in (i + 1)..Len(r) : ~Sets(r[j], c)
        BY <2>1, <2>2 DEF Brings
      <3>2. i = n + 1
        BY <1>1, <2>1, <3>1
      <3> QED BY <1>1, <3>1, <3>2
    <2>3. ASSUME v = m.value PROVE Brings(r, c, old, v)
      <3>1. v = r[n + 1].value /\ (n + 1) + 1 = n + 2
        BY <1>1, <2>3
      <3> QED BY <2>1, <3>1 DEF Brings
    <2> QED BY <1>2, <2>2, <2>3 DEF r
  <1>3. CASE ~Sets(m, c)
    <2>1. \A i \in 1..Len(r) : Sets(r[i], c) => i \in 1..n
      BY <1>1, <1>3
    <2>2. \A i \in 1..n : i \in 1..Len(r) /\ (Sets(r[i], c) <=> Sets(q[i], c)) /\ r[i].value = q[i].value
      BY <1>1
    <2>3. ASSUME NEW i \in 1..n
          PROVE  (\A j \in (i + 1)..Len(r) : ~Sets(r[j], c)) <=> (\A j \in (i + 1)..n : ~Sets(q[j], c))
      BY <1>1, <1>3
    <2>4. Brings(r, c, old, v) <=> Brings(q, c, old, v)
      BY <2>1, <2>2, <2>3 DEF Brings, n
    <2> QED BY <1>3, <2>4 DEF r
  <1> QED BY <1>2, <1>3

\* A message that is handled gives way to those behind it.
LEMMA HandledFirst ==
    ASSUME NEW q \in Seq(Messages), q # <<>>, NEW c, NEW old, NEW v
    PROVE  Brings(q, c, old, v) <=> Brings(Tail(q), c, IF Sets(Head(q), c) THEN Head(q).value ELSE old, v)
  <1> DEFINE t == Tail(q)
             n == Len(t)
             new == IF Sets(Head(q), c) THEN Head(q).value ELSE old
  <1>1. /\ n \in Nat /\ Len(q) = n + 1 /\ q[1] = Head(q)
        /\ \A i \in 1..n : t[i] = q[i + 1]
    OBVIOUS
  <1> HIDE DEF t, n
  <1>2. ASSUME Brings(q, c, old, v) PROVE Brings(t, c, new, v)
    <2>1. CASE (\A i \in 1..Len(q) : ~Sets(q[i], c)) /\ v = old
      <3>1. 1 \in 1..Len(q) /\ \A i \in 1..n : i + 1 \in 1..Len(q)
        BY <1>1
      <3>2. ~Sets(Head(q), c) /\ \A i \in 1..n : ~Sets(t[i], c)
        BY <1>1, <2>1, <3>1
      <3> QED BY <2>1, <3>2 DEF Brings, n
    <2>2. CASE \E i \in 1..Len(q) :
                   Sets(q[i], c) /\ v = q[i].value /\ \A j \in (i + 1)..Len(q) : ~Sets(q[j], c)
      <3>1. PICK i \in 1..Len(q) :
                Sets(q[i], c) /\ v = q[i].value /\ \A j \in (i + 1)..Len(q) : ~Sets(q[j], c)
        BY <2>2
      <3>2. CASE i = 1
        <4>1. \A k \in 1..n : k + 1 \in (i + 1)..Len(q)
          BY <1>1, <3>2
        <4>2. \A k \in 1..n : ~Sets(t[k], c)
          BY <1>1, <3>1, <4>1
        <4>3. v = new
          BY <1>1, <3>1, <3>2
        <4> QED BY <4>2, <4>3 DEF Brings, n
      <3>3. CASE i # 1
        <4>1. i - 1 \in 1..n /\ (i - 1) + 1 = i
          BY <1>1, <3>3
        <4>2. Sets(t[i - 1], c) /\ v = t[i - 1].value
          BY <1>1, <3>1, <4>1
        <4>3. \A k \in ((i - 1) + 1)..n : k \in 1..n /\ k + 1 \in (i + 1)..Len(q)
          BY <1>1
        <4>4. \A k \in ((i - 1) + 1)..n : ~Sets(t[k], c)
          BY <1>1, <3>1, <4>3
        <4> QED BY <4>1, <4>2, <4>4 DEF Brings, n
      <3> QED BY <3>2, <3>3
    <2> QED BY <1>2, <2>1, <2>2 DEF Brings
  <1>3. ASSUME Brings(t, c, new, v) PROVE Brings(q, c, old, v)
    <2>1. CASE (\A i \in 1..n : ~Sets(t[i], c)) /\ v = new
      <3>1. \A j \in 2..Len(q) : j - 1 \in 1..n /\ (j - 1) + 1 = j
        BY <1>1
      <3>2. \A j \in 2..Len(q) : ~Sets(q[j], c)
        BY <1>1, <2>1, <3>1
      <3>3. CASE Sets(Head(q), c)
        <4>1. 1 \in 1..Len(q) /\ Sets(q[1], c) /\ v = q[1].value /\ 1 + 1 = 2
          BY <1>1, <2>1, <3>3
        <4> QED BY <3>2, <4>1 DEF Brings
      <3>4. CASE ~Sets(Head(q), c)
        <4>1. \A i \in 1..Len(q) : i = 1 \/ i \in 2..Len(q)
          BY <1>1
        <4>2. \A i \in 1..Len(q) : ~Sets(q[i], c)
          BY <1>1, <3>2, <3>4, <4>1
        <4> QED BY <2>1, <3>4, <4>2 DEF Brings
      <3> QED BY <3>3, <3>4
    <2>2. CASE \E i \in 1..n :
                   Sets(t[i], c) /\ v = t[i].value /\ \A j \in (i + 1)..n : ~Sets(t[j], c)
      <3>1. PICK i \in 1..n :
                Sets(t[i], c) /\ v = t[i].value /\ \A j \in (i + 1)..n : ~Sets(t[j], c)
        BY <2>2
      <3>2. i + 1 \in 1..Len(q) /\ Sets(q[i + 1], c) /\ v = q[i + 1].value
        BY <1>1, <3>1
      <3>3. \A j \in ((i + 1) + 1)..Len(q) : j - 1 \in (i + 1)..n /\ j - 1 \in 1..n /\ (j - 1) + 1 = j
        BY <1>1
      <3>4. \A j \in ((i + 1) + 1)..Len(q) : ~Sets(q[j], c)
        BY <1>1, <3>1, <3>3
      <3> QED BY <3>2, <3>4 DEF Brings
    <2> QED BY <1>3, <2>1, <2>2 DEF Brings, n
  <1> QED BY <1>2, <1>3 DEF t
-----------------------------------------------------------------------------
(* The two kinds of sensor simulate the same dam.                          *)

LEMMA Quotient ==
    ASSUME NEW a \in Int, NEW d \in Nat, d > 0, NEW t \in Int, t * d <= a, a < t * d + d
    PROVE  a \div d = t
  <1> DEFINE q == a \div d
  <1>1. q \in Int /\ q * d <= a /\ a < q * d + d
    OBVIOUS
  <1> HIDE DEF q
  <1>2. (q + 1) * d = q * d + d /\ (t + 1) * d = t * d + d
    BY <1>1
  <1>3. t < q + 1 /\ q < t + 1
    <2>1. t * d < (q + 1) * d /\ q * d < (t + 1) * d
      BY <1>1, <1>2
    <2> QED BY <1>1, <2>1, TimesOrder
  <1> QED BY <1>1, <1>3 DEF q

\* What the board measures of its inflow rounds to what is set.
LEMMA Measured ==
    ASSUME 2 * VAR_THRESHOLD < UNIT, FlowInv, board = "mote-2"
    PROVE  Percent(flow["inflow"]) = target["inflow"]
  <1> DEFINE t == target["inflow"]
             f == flow["inflow"]
             p == t * UNIT
  <1>1. t \in Int /\ f \in Int /\ UNIT \in Nat /\ UNIT > 0 /\ VAR_THRESHOLD \in Nat
    BY Numbers, ChannelsAssumption DEF FlowInv, TypeOK
  <1>2. p \in Int /\ p - VAR_THRESHOLD <= f /\ f <= p + VAR_THRESHOLD
    BY <1>1 DEF FlowInv, InflowInBand, Low, High
  <1> HIDE DEF p, f
  <1>3. 2 * p <= 2 * f + UNIT /\ 2 * f + UNIT < 2 * p + 2 * UNIT
    BY <1>1, <1>2
  <1>4. t * (2 * UNIT) = 2 * p
    BY <1>1 DEF p
  <1>5. 2 * f + UNIT \in Int /\ 2 * UNIT \in Nat /\ 2 * UNIT > 0
    BY <1>1
  <1>6. (2 * f + UNIT) \div (2 * UNIT) = t
    BY <1>1, <1>3, <1>4, <1>5, Quotient
  <1> QED BY <1>6 DEF Percent, f

\* As long as nothing is lost, what is under way to a flow sensor and what is
\* under way to the water level sensor bring both to the same setting of an
\* outflow, however far each of them has got with the messages.
Alike ==
    ~lost => \A c \in Channels \ ({"inflow"} \cup halted) : \A v \in Int :
                 Brings(topic, c, target[c], v) <=> Brings(topicLevel, c, heard[c], v)

\* The water level sensor of the board will know the inflow stored last.
Stored == IF inflowGate = -1 THEN INIT_INGATE ELSE inflowGate
InflowTold ==
    board = "mote-2" /\ ~lost =>
        \A v \in Int : Brings(topicLevel, "inflow", heard["inflow"], v) <=> v = Stored

FollowInv == Alike /\ InflowTold

LEMMA UnderWay == ASSUME FlowInv PROVE topic \in Seq(Messages) /\ topicLevel \in Seq(Messages)
  BY DEF FlowInv, TypeOK, Messages

LEMMA FollowInit == Init => FollowInv
  <1> SUFFICES ASSUME Init PROVE FollowInv
    OBVIOUS
  <1>1. /\ topic = <<>> /\ topicLevel = <<>> /\ inflowGate = -1
        /\ \A c \in Channels : target[c] = Initial(c) /\ heard[c] = Initial(c)
    BY DEF Init
  <1>2. Alike
    BY <1>1, NoneUnderWay DEF Alike
  <1>3. InflowTold
    BY <1>1, NoneUnderWay, ChannelsAssumption DEF InflowTold, Stored, Initial
  <1> QED BY <1>2, <1>3 DEF FollowInv

\* Steps that touch neither the messages nor the settings they change.
LEMMA FollowFrame ==
    ASSUME FollowInv, UNCHANGED <<board, inflowGate, topic, topicLevel, heard, lost>>,
           halted \subseteq halted',
           \A c \in Channels \ {"inflow"} : target'[c] = target[c]
    PROVE  FollowInv'
  <1>1. Alike'
    BY DEF FollowInv, Alike
  <1>2. InflowTold'
    BY DEF FollowInv, InflowTold, Stored
  <1> QED BY <1>1, <1>2 DEF FollowInv

\* A message that is not lost goes to both.
LEMMA PublishAlike ==
    ASSUME FlowInv, FollowInv, NEW d \in Channels, NEW percent \in Int, Publish(d, percent),
           UNCHANGED <<target, heard, halted>>
    PROVE  /\ Alike'
           /\ ~lost' => topicLevel' = Append(topicLevel, Message(d, percent)) /\ ~lost
  <1>1. ~lost' => /\ ~lost
                  /\ topic' = Append(topic, Message(d, percent))
                  /\ topicLevel' = Append(topicLevel, Message(d, percent))
    BY DEF Publish
  <1>2. Message(d, percent) \in Messages
    BY DEF Message, Messages
  <1>3. Alike'
    <2> SUFFICES ASSUME ~lost', NEW c \in Channels \ ({"inflow"} \cup halted), NEW v \in Int
                 PROVE  Brings(topic', c, target[c], v) <=> Brings(topicLevel', c, heard[c], v)
      BY DEF Alike
    <2>1. Brings(topic, c, target[c], v) <=> Brings(topicLevel, c, heard[c], v)
      BY <1>1 DEF FollowInv, Alike
    <2> DEFINE m == Message(d, percent)
    <2>2. /\ Sets(m, c) => (Brings(Append(topic, m), c, target[c], v) <=> v = m.value)
          /\ ~Sets(m, c) => (Brings(Append(topic, m), c, target[c], v) <=> Brings(topic, c, target[c], v))
      BY <1>2, UnderWay, SentLast
    <2>3. /\ Sets(m, c) => (Brings(Append(topicLevel, m), c, heard[c], v) <=> v = m.value)
          /\ ~Sets(m, c) => (Brings(Append(topicLevel, m), c, heard[c], v)
                                  <=> Brings(topicLevel, c, heard[c], v))
      BY <1>2, UnderWay, SentLast
    <2>4. topic' = Append(topic, m) /\ topicLevel' = Append(topicLevel, m)
      BY <1>1
    <2> HIDE DEF m
    <2> QED BY <2>1, <2>2, <2>3, <2>4
  <1> QED BY <1>1, <1>3

LEMMA ReportFollows ==
    ASSUME 2 * VAR_THRESHOLD < UNIT, FlowInv, FollowInv, ReportInflow
    PROVE  FollowInv'
  <1> DEFINE p == Percent(flow["inflow"])
  <1>1. /\ inflowGate' = p /\ Publish("inflow", p)
        /\ UNCHANGED <<board, target, heard, halted>>
    BY DEF ReportInflow, sensor
  <1>2. p \in Int
    BY Percents, ChannelsAssumption DEF FlowInv, TypeOK
  <1>3. board = "mote-2" => p \in 0..FULL
    BY Measured, ChannelsAssumption DEF FlowInv, FlowBounded, Ceiling
  <1> HIDE DEF p
  <1>4. Alike' /\ (~lost' => topicLevel' = Append(topicLevel, Message("inflow", p)) /\ ~lost)
    BY <1>1, <1>2, PublishAlike, ChannelsAssumption
  <1>5. InflowTold'
    <2> SUFFICES ASSUME board = "mote-2", ~lost', NEW v \in Int
                 PROVE  Brings(topicLevel', "inflow", heard["inflow"], v) <=> v = p
      BY <1>1, <1>3, Numbers DEF InflowTold, Stored
    <2>1. Message("inflow", p) \in Messages /\ Sets(Message("inflow", p), "inflow")
          /\ Message("inflow", p).value = p
      BY <1>2, <1>3, ChannelsAssumption DEF Message, Messages, Sets
    <2>2. Brings(Append(topicLevel, Message("inflow", p)), "inflow", heard["inflow"], v) <=> v = p
      BY <2>1, UnderWay, SentLast
    <2> QED BY <1>4, <2>2
  <1> QED BY <1>4, <1>5 DEF FollowInv

LEMMA CommandFollows == ASSUME FlowInv, FollowInv, CommandGate PROVE FollowInv'
  <1>1. PICK d \in Channels \ {"inflow"}, level \in 0..FULL : Publish(d, level)
    BY DEF CommandGate
  <1>2. UNCHANGED <<board, target, heard, halted, inflowGate>>
    BY DEF CommandGate, sensor
  <1>3. level \in Int
    BY Numbers
  <1>4. Alike' /\ (~lost' => topicLevel' = Append(topicLevel, Message(d, level)) /\ ~lost)
    BY <1>1, <1>2, <1>3, PublishAlike
  <1>5. Message(d, level) \in Messages /\ ~Sets(Message(d, level), "inflow")
    BY <1>1, <1>3 DEF Message, Messages, Sets
  <1>6. InflowTold'
    <2> SUFFICES ASSUME board = "mote-2", ~lost', NEW v \in Int
                 PROVE  Brings(topicLevel', "inflow", heard["inflow"], v) <=> v = Stored
      BY <1>2 DEF InflowTold, Stored
    <2>1. Brings(topicLevel, "inflow", heard["inflow"], v) <=> v = Stored
      BY <1>4 DEF FollowInv, InflowTold
    <2>2. Brings(Append(topicLevel, Message(d, level)), "inflow", heard["inflow"], v)
              <=> Brings(topicLevel, "inflow", heard["inflow"], v)
      BY <1>5, UnderWay, SentLast
    <2> QED BY <1>4, <2>1, <2>2
  <1> QED BY <1>4, <1>6 DEF FollowInv

\* What a message sets of the channels that listen.
LEMMA SettingOf ==
    ASSUME NEW S \in SUBSET Channels, NEW old, NEW m, NEW c \in S
    PROVE  Settings(old, S, m)[c] = IF Sets(m, c) THEN m.value ELSE old[c]
  BY DEF Settings, Sets

LEMMA HandleFollows == ASSUME FlowInv, FollowInv, handle_message PROVE FollowInv'
  <1> DEFINE S == {c \in Channels \ halted : Listens(c)}
  <1>1. /\ topic # <<>> /\ topic' = Tail(topic)
        /\ target' = Settings(target, S, Head(topic))
        /\ UNCHANGED <<board, halted, inflowGate, topicLevel, heard, lost>>
    BY DEF handle_message
  <1>2. S \in SUBSET Channels /\ \A c \in Channels \ ({"inflow"} \cup halted) : c \in S
    BY DEF Listens
  <1> HIDE DEF S
  <1>3. Alike'
    <2> SUFFICES ASSUME ~lost, NEW c \in Channels \ ({"inflow"} \cup halted), NEW v \in Int
                 PROVE  Brings(Tail(topic), c, target'[c], v) <=> Brings(topicLevel, c, heard[c], v)
      BY <1>1 DEF Alike
    <2>1. target'[c] = IF Sets(Head(topic), c) THEN Head(topic).value ELSE target[c]
      BY <1>1, <1>2, SettingOf
    <2>2. Brings(topic, c, target[c], v) <=> Brings(Tail(topic), c, target'[c], v)
      BY <1>1, <2>1, UnderWay, HandledFirst
    <2> QED BY <2>2 DEF FollowInv, Alike
  <1>4. InflowTold'
    BY <1>1 DEF FollowInv, InflowTold, Stored
  <1> QED BY <1>3, <1>4 DEF FollowInv

LEMMA HeardFollows == ASSUME FlowInv, FollowInv, HandleAtLevelSensor PROVE FollowInv'
  <1>1. /\ topicLevel # <<>> /\ topicLevel' = Tail(topicLevel)
        /\ heard' = Settings(heard, Channels, Head(topicLevel))
        /\ UNCHANGED <<board, target, halted, inflowGate, topic, lost>>
    BY DEF HandleAtLevelSensor, sensor
  <1>2. ASSUME NEW c \in Channels, NEW v
        PROVE  Brings(topicLevel, c, heard[c], v) <=> Brings(topicLevel', c, heard'[c], v)
    <2>1. heard'[c] = IF Sets(Head(topicLevel), c) THEN Head(topicLevel).value ELSE heard[c]
      BY <1>1, SettingOf
    <2> QED BY <1>1, <2>1, UnderWay, HandledFirst
  <1>3. Alike'
    BY <1>1, <1>2 DEF FollowInv, Alike
  <1>4. InflowTold'
    BY <1>1, <1>2, ChannelsAssumption DEF FollowInv, InflowTold, Stored
  <1> QED BY <1>3, <1>4 DEF FollowInv

LEMMA FollowStep ==
    ASSUME 2 * VAR_THRESHOLD < UNIT
    PROVE  FlowInv /\ FollowInv /\ [Next]_vars => FollowInv'
  <1> SUFFICES ASSUME FlowInv, FollowInv, [Next]_vars PROVE FollowInv'
    OBVIOUS
  <1>1. CASE (\E c \in Channels : simulate_read_flow(c) \/ Halt(c)) \/ UNCHANGED vars
    <2>1. /\ UNCHANGED <<board, target, inflowGate, topic, topicLevel, heard, lost>>
          /\ halted \subseteq halted'
      BY <1>1 DEF simulate_read_flow, Halt, vars, sensor
    <2> QED BY <2>1, FollowFrame
  <1>2. CASE Button
    <2>1. UNCHANGED <<board, halted, inflowGate, topic, topicLevel, heard, lost>>
      BY <1>2 DEF Button
    <2>2. \A c \in Channels \ {"inflow"} : target'[c] = target[c]
      BY <1>2 DEF Button, Increment, LongPress, Release, SetInflow, FlowInv, TypeOK
    <2> QED BY <2>1, <2>2, FollowFrame
  <1>3. CASE ReportInflow
    BY <1>3, ReportFollows
  <1>4. CASE CommandGate
    BY <1>4, CommandFollows
  <1>5. CASE handle_message
    BY <1>5, HandleFollows
  <1>6. CASE HandleAtLevelSensor
    BY <1>6, HeardFollows
  <1> QED BY <1>1, <1>2, <1>3, <1>4, <1>5, <1>6 DEF Next

\* When nothing is under way and nothing was lost the water level sensor has the
\* settings of the flow sensors that run: of the outflows in every firmware, and
\* of the inflow on the board, once what it measures has been stored.
InStep ==
    ~lost /\ topic = <<>> /\ topicLevel = <<>> =>
        /\ \A c \in Channels \ ({"inflow"} \cup halted) : heard[c] = target[c]
        /\ board = "mote-2" /\ inflowGate = Percent(flow["inflow"]) => heard["inflow"] = target["inflow"]

\* The safety half of Follows, whatever the order of pushes, readings, reports
\* and commands, and however many messages are under way: as the noise is less
\* than half a percent (150 against 350, 800 and 1000), the sensors part only
\* through a loss or a processor that stopped.
THEOREM SameDam == ASSUME 2 * VAR_THRESHOLD < UNIT PROVE Spec => []InStep
  <1>1. FlowInv /\ FollowInv => InStep
    <2> SUFFICES ASSUME FlowInv, FollowInv, ~lost, topic = <<>>, topicLevel = <<>>
                 PROVE  /\ \A c \in Channels \ ({"inflow"} \cup halted) : heard[c] = target[c]
                        /\ board = "mote-2" /\ inflowGate = Percent(flow["inflow"]) =>
                               heard["inflow"] = target["inflow"]
      BY DEF InStep
    <2>1. \A c \in Channels : target[c] \in Int /\ heard[c] \in Int
      BY Numbers DEF FlowInv, TypeOK
    <2>2. ASSUME NEW c \in Channels \ ({"inflow"} \cup halted) PROVE heard[c] = target[c]
      <3>1. Brings(topic, c, target[c], target[c]) <=> Brings(topicLevel, c, heard[c], target[c])
        BY <2>1 DEF FollowInv, Alike
      <3> QED BY <3>1, NoneUnderWay
    <2>3. ASSUME board = "mote-2", inflowGate = Percent(flow["inflow"])
          PROVE  heard["inflow"] = target["inflow"]
      <3>1. inflowGate = target["inflow"]
        BY <2>3, Measured
      <3>2. target["inflow"] \in 0..FULL
        BY <2>3, ChannelsAssumption DEF FlowInv, FlowBounded, Ceiling
      <3>3. Stored = target["inflow"]
        BY <3>1, <3>2, Numbers DEF Stored
      <3>4. Brings(topicLevel, "inflow", heard["inflow"], target["inflow"])
        BY <2>1, <2>3, <3>3, ChannelsAssumption DEF FollowInv, InflowTold
      <3> QED BY <3>4, NoneUnderWay
    <2> QED BY <2>2, <2>3
  <1>2. FlowInv /\ FollowInv /\ [Next]_vars => FollowInv'
    BY FollowStep
  <1> QED BY <1>1, <1>2, FlowInit, FlowStep, FollowInit, PTL DEF Spec
=============================================================================
