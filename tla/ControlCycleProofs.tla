------------------------- MODULE ControlCycleProofs -------------------------
(***************************************************************************)
(* Proofs about ControlCycle for every set of readings, rates and typed    *)
(* thresholds.                                                             *)
(***************************************************************************)
EXTENDS ControlCycle, TLAPS

Thresholds == Int \cup {NaN}

USE DEF FULL_OPEN, SHORT_STEP, STEP, LONG_STEP

\* The four branches of run(), each by the comparisons that lead to it.
LEMMA ZoneCases ==
    ASSUME NEW l \in Int, NEW min \in Thresholds, NEW max \in Thresholds, NEW safe \in Thresholds
    PROVE  /\ Zone(l, min, max, safe) \in Zones
           /\ Zone(l, min, max, safe) = "flood" <=> Gt(l, safe)
           /\ Zone(l, min, max, safe) = "high" <=> ~Gt(l, safe) /\ Gt(l, max)
           /\ Zone(l, min, max, safe) = "low" <=> ~Gt(l, safe) /\ ~Gt(l, max) /\ Gt(min, l)
  BY DEF Zone, Zones

\* Every branch orders a change between a full closing and a full opening.
LEMMA MoveBounds ==
    ASSUME NEW in \in Int, NEW out \in Int
    PROVE  /\ Move("flood", in, out) = FULL_OPEN
           /\ Move("high", in, out) \in STEP..LONG_STEP
           /\ Move("low", in, out) \in (-LONG_STEP)..(-STEP)
           /\ Move("normal", in, out) \in (-LONG_STEP)..LONG_STEP
           /\ Move("normal", in, out) < 0 => Move("low", in, out) <= Move("normal", in, out)
           /\ Move("normal", in, out) > 0 => Move("high", in, out) >= Move("normal", in, out)
  BY DEF Move, Balance, Step

\* A higher level is in a zone at least as high, if the thresholds are in order.
LEMMA ZoneMonotone ==
    ASSUME NEW a \in Int, NEW b \in Int, a <= b,
           NEW min \in Thresholds, NEW max \in Thresholds, NEW safe \in Thresholds,
           ~Gt(min, max), ~Gt(min, safe), ~Gt(max, safe)
    PROVE  /\ Zone(a, min, max, safe) = "flood" => Zone(b, min, max, safe) = "flood"
           /\ Zone(a, min, max, safe) = "high" => Zone(b, min, max, safe) \in {"high", "flood"}
           /\ Zone(b, min, max, safe) = "low" => Zone(a, min, max, safe) = "low"
  <1>1. a # NaN /\ b # NaN
    BY NaNAssumption
  <1>2. min # NaN => min \in Int
    BY DEF Thresholds
  <1>3. max # NaN => max \in Int
    BY DEF Thresholds
  <1>4. safe # NaN => safe \in Int
    BY DEF Thresholds
  <1>5. Gt(a, safe) => Gt(b, safe)
    BY <1>1, <1>4 DEF Gt
  <1>6. Gt(a, max) => Gt(b, max)
    BY <1>1, <1>3 DEF Gt
  <1>7. Gt(min, b) => Gt(min, a)
    BY <1>1, <1>2 DEF Gt
  <1>8. Gt(min, b) => ~Gt(a, safe) /\ ~Gt(a, max)
    BY <1>1, <1>2, <1>3, <1>4 DEF Gt
  <1> QED BY <1>5, <1>6, <1>7, <1>8 DEF Zone

\* The order of the responses: what a branch orders never falls short of what
\* the branch of a lower level would have ordered.
LEMMA MoveMonotone ==
    ASSUME NEW a \in Int, NEW b \in Int, a <= b,
           NEW min \in Thresholds, NEW max \in Thresholds, NEW safe \in Thresholds,
           ~Gt(min, max), ~Gt(min, safe), ~Gt(max, safe),
           NEW in \in Int, NEW out \in Int
    PROVE  Move(Zone(a, min, max, safe), in, out) <= Move(Zone(b, min, max, safe), in, out)
  <1> DEFINE za == Zone(a, min, max, safe)
             zb == Zone(b, min, max, safe)
  <1>1. za \in Zones /\ zb \in Zones
    BY ZoneCases
  <1>2. /\ za = "flood" => zb = "flood"
        /\ za = "high" => zb \in {"high", "flood"}
        /\ zb = "low" => za = "low"
    BY ZoneMonotone
  <1> HIDE DEF za, zb
  <1>3. \/ za = zb
        \/ za = "low" /\ zb \in {"normal", "high", "flood"}
        \/ za = "normal" /\ zb \in {"high", "flood"}
        \/ za = "high" /\ zb = "flood"
    BY <1>1, <1>2 DEF Zones
  <1>4. Move(za, in, out) <= Move(zb, in, out)
    BY <1>1, <1>3 DEF Move, Balance, Step, Zones
  <1> QED BY <1>4 DEF za, zb
-----------------------------------------------------------------------------
(* Type correctness.  TypeOK is inductive: every program counter is reached  *)
(* only after the local variables it needs were assigned.                    *)

\* A move is a whole number of percent.
LEMMA MoveType ==
    ASSUME NEW zone, NEW in \in Int, NEW out \in Int
    PROVE  Move(zone, in, out) \in Int
  BY DEF Move, Balance, Step

LEMMA VerdictType ==
    ASSUME NEW l, NEW min, NEW max, NEW safe
    PROVE  Verdict(l, min, max, safe) \subseteq Zones \cup {"unordered"}
  BY DEF Verdict, Zone, Zones

LEMMA TypeInit == Init => TypeOK
  <1> SUFFICES ASSUME Init PROVE TypeOK
    OBVIOUS
  <1>1. /\ unit \in [pc : Pcs, level : Levels \cup {NoRow}, inflow : Rates \cup {NoRow},
                     outflow : Rates \cup {NoRow}, zone : Zones \cup {"none"}, move : Int]
        /\ unit.pc = "idle"
    BY DEF Init, Idle, Pcs
  <1>2. {minThreshold, maxThreshold, safeThreshold} \subseteq Int \cup {NaN}
    BY InitialAssumption DEF Init
  <1> QED BY <1>1, <1>2 DEF Init, TypeOK, Deciding

LEMMA IdleKeepsType ==
    ASSUME TypeOK, unit' = Idle,
           UNCHANGED <<thresholds, mode, data>>,
           alarm' \in BOOLEAN, zonesSeen' \subseteq Zones \cup {"unordered"}
    PROVE  TypeOK'
  BY DEF TypeOK, Idle, Pcs, Deciding, thresholds, data

LEMMA DecideKeepsType ==
    ASSUME TypeOK, unit.pc \in Deciding, NEW zone \in Zones, Decide(zone),
           UNCHANGED <<thresholds, mode, data, alarm, zonesSeen>>
    PROVE  TypeOK'
  <1>1. unit.inflow \in Rates /\ unit.outflow \in Rates /\ unit.level \in Levels
    BY DEF TypeOK
  <1>2. Move(zone, unit.inflow, unit.outflow) \in Int
    BY <1>1, MoveType, RatesAssumption
  <1>3. unit' = [unit EXCEPT !.pc = "act", !.zone = zone, !.move = Move(zone, unit.inflow, unit.outflow)]
    BY DEF Decide
  <1> QED BY <1>1, <1>2, <1>3 DEF TypeOK, Pcs, Deciding, thresholds, data

LEMMA TypeStep == TypeOK /\ [Next]_vars => TypeOK'
  <1> SUFFICES ASSUME TypeOK, [Next]_vars PROVE TypeOK'
    OBVIOUS
  <1> USE DEF Pcs, Deciding, thresholds, data
  <1>1. CASE SetThreshold
    <2>1. PICK v \in Typed : SetMaxThreshold(v) \/ SetMinThreshold(v) \/ SetSafeThreshold(v)
      BY <1>1 DEF SetThreshold
    <2>2. {minThreshold', maxThreshold', safeThreshold'} \subseteq Int \cup {NaN}
      BY <2>1, TypedAssumption DEF TypeOK, SetMaxThreshold, SetMinThreshold, SetSafeThreshold
    <2>3. zonesSeen' \subseteq Zones \cup {"unordered"}
      BY <1>1, VerdictType DEF SetThreshold, SeeZone, TypeOK
    <2> QED BY <1>1, <2>2, <2>3 DEF SetThreshold, TypeOK
  <1>2. CASE StartAutomaticControlUnit \/ StopAutomaticControlUnit
    BY <1>2 DEF TypeOK, StartAutomaticControlUnit, StopAutomaticControlUnit
  <1>3. CASE RecordWaterLevel
    BY <1>3 DEF TypeOK, RecordWaterLevel, Levels
  <1>4. CASE RecordFlowRate
    BY <1>4 DEF TypeOK, RecordFlowRate
  <1>5. CASE GrowStale
    <2>1. waterLevel' \in Levels
      BY <1>5 DEF TypeOK, GrowStale, Levels
    <2>2. CASE unit.pc \in {"inflow", "outflow"} /\ unit.level # NoRow
      <3>1. unit.level \in Levels /\ unit' = [unit EXCEPT !.level.fresh = FALSE]
        BY <1>5, <2>2 DEF TypeOK, GrowStale
      <3>2. [unit.level EXCEPT !.fresh = FALSE] \in Levels
        BY <3>1 DEF Levels
      <3>3. unit' = [unit EXCEPT !.level = [unit.level EXCEPT !.fresh = FALSE]]
        BY <3>1, <3>2 DEF TypeOK
      <3> QED BY <1>5, <2>1, <2>2, <3>2, <3>3 DEF TypeOK, GrowStale
    <2>3. CASE ~(unit.pc \in {"inflow", "outflow"} /\ unit.level # NoRow)
      BY <1>5, <2>1, <2>3 DEF TypeOK, GrowStale
    <2> QED BY <2>2, <2>3
  <1>6. CASE RetrieveWaterLevel
    BY <1>6 DEF TypeOK, RetrieveWaterLevel
  <1>7. CASE RetrieveInflow
    <2>1. CASE inflow = NoRow
      BY <1>7, <2>1, IdleKeepsType DEF RetrieveInflow, TypeOK
    <2>2. CASE inflow # NoRow
      BY <1>7, <2>2 DEF RetrieveInflow, TypeOK
    <2> QED BY <2>1, <2>2
  <1>8. CASE RetrieveOutflow
    <2>1. CASE unit' = Idle
      BY <1>8, <2>1, IdleKeepsType DEF RetrieveOutflow, TypeOK
    <2>2. CASE outflow # NoRow /\ unit.level # NoRow /\ unit' = [unit EXCEPT !.pc = "alarm", !.outflow = outflow]
      <3>1. unit.inflow \in Rates
        BY <1>8 DEF RetrieveOutflow, TypeOK
      <3> QED BY <1>8, <2>2, <3>1 DEF RetrieveOutflow, TypeOK
    <2> QED BY <1>8, <2>1, <2>2 DEF RetrieveOutflow
  <1>9. CASE OrderAlarm
    <2>1. alarm' \in BOOLEAN
      BY <1>9 DEF OrderAlarm, Gt
    <2>2. zonesSeen' \subseteq Zones \cup {"unordered"}
      BY <1>9, VerdictType DEF OrderAlarm
    <2> QED BY <1>9, <2>1, <2>2 DEF OrderAlarm, TypeOK
  <1>10. CASE AlarmFails \/ QueryFails
    BY <1>10, IdleKeepsType DEF AlarmFails, QueryFails, TypeOK
  <1>11. CASE CheckMode
    <2>1. CASE mode = "MANUAL"
      BY <1>11, <2>1, IdleKeepsType DEF CheckMode, TypeOK
    <2>2. CASE mode # "MANUAL"
      BY <1>11, <2>2 DEF CheckMode, TypeOK
    <2> QED BY <2>1, <2>2
  <1>12. CASE TestSafeThreshold
    <2>1. CASE Decide("flood")
      BY <1>12, <2>1, DecideKeepsType DEF TestSafeThreshold, Zones
    <2>2. CASE unit' = [unit EXCEPT !.pc = "max"]
      BY <1>12, <2>2 DEF TestSafeThreshold, TypeOK
    <2> QED BY <1>12, <2>1, <2>2 DEF TestSafeThreshold
  <1>13. CASE TestMaxThreshold
    <2>1. CASE Decide("high")
      BY <1>13, <2>1, DecideKeepsType DEF TestMaxThreshold, Zones
    <2>2. CASE unit' = [unit EXCEPT !.pc = "min"]
      BY <1>13, <2>2 DEF TestMaxThreshold, TypeOK
    <2> QED BY <1>13, <2>1, <2>2 DEF TestMaxThreshold
  <1>14. CASE TestMinThreshold
    <2>1. Decide("low") \/ Decide("normal")
      BY <1>14 DEF TestMinThreshold
    <2> QED BY <1>14, <2>1, DecideKeepsType DEF TestMinThreshold, Zones
  <1>15. CASE EndCycle
    BY <1>15, IdleKeepsType DEF EndCycle, TypeOK
  <1>16. CASE UNCHANGED vars
    BY <1>16 DEF TypeOK, vars
  <1> QED BY <1>1, <1>2, <1>3, <1>4, <1>5, <1>6, <1>7, <1>8, <1>9, <1>10, <1>11, <1>12,
             <1>13, <1>14, <1>15, <1>16 DEF Next, Shell, Collector, Unit

\* The unit holds at every point of run() what it assigned before.
THEOREM TypeCorrect == Spec => []TypeOK
  BY TypeInit, TypeStep, PTL DEF Spec

\* What Actuation lets the unit decide on.
DecisionAllowed ==
    unit.pc = "act" => unit.move \in Moves(unit.zone, {SHORT_STEP, STEP, LONG_STEP}, FULL_OPEN)

\* Every decision of a run is one that Actuation carries out, if its Steps are
\* SHORT_STEP, STEP and LONG_STEP: no branch orders a move of another one's
\* direction or size (the four branches of AutomaticControlUnit.run).
THEOREM DecisionsAreMoves == Spec => []DecisionAllowed
  <1>1. TypeOK => DecisionAllowed
    <2> SUFFICES ASSUME TypeOK, unit.pc = "act" PROVE DecisionAllowed
      BY DEF DecisionAllowed
    <2> DEFINE steps == {SHORT_STEP, STEP, LONG_STEP}
    <2>1. /\ unit.zone \in Zones /\ unit.move = Move(unit.zone, unit.inflow, unit.outflow)
          /\ unit.inflow \in Int /\ unit.outflow \in Int
      BY RatesAssumption DEF TypeOK
    <2>2. \A s \in steps : -s \in {-x : x \in steps}
      OBVIOUS
    <2>3. \A gap \in Int : Step(gap) \in steps
      BY DEF Step
    <2>4. CASE unit.zone = "flood" \/ unit.zone = "high"
      BY <2>1, <2>4 DEF Move, Moves, DecisionAllowed
    <2>5. CASE unit.zone = "low"
      BY <2>1, <2>2, <2>5 DEF Move, Moves, DecisionAllowed
    <2>6. CASE unit.zone = "normal"
      <3>1. \/ unit.move \in steps
            \/ \E s \in steps : unit.move = -s
            \/ unit.move = 0
        BY <2>1, <2>3, <2>6 DEF Move, Balance
      <3> QED BY <2>2, <2>6, <3>1 DEF Moves, DecisionAllowed
    <2> QED BY <2>1, <2>4, <2>5, <2>6 DEF Zones
  <1> QED BY <1>1, TypeCorrect, PTL
-----------------------------------------------------------------------------
(* The order of the thresholds, and with it the order of the responses.      *)

LEMMA OrderedStep == TypeOK /\ ThresholdsOrdered /\ [Next]_vars => ThresholdsOrdered'
  <1> SUFFICES ASSUME TypeOK, ThresholdsOrdered, [Next]_vars PROVE ThresholdsOrdered'
    OBVIOUS
  <1>1. CASE SetThreshold
    <2>1. PICK v \in Typed : SetMaxThreshold(v) \/ SetMinThreshold(v) \/ SetSafeThreshold(v)
      BY <1>1 DEF SetThreshold
    <2>2. CASE SetMaxThreshold(v)
      BY <2>2 DEF SetMaxThreshold, ThresholdsOrdered
    <2>3. CASE SetMinThreshold(v)
      BY <2>3 DEF SetMinThreshold, ThresholdsOrdered
    <2>4. CASE SetSafeThreshold(v)
      BY <2>4 DEF SetSafeThreshold, ThresholdsOrdered
    <2> QED BY <2>1, <2>2, <2>3, <2>4
  <1>2. CASE UNCHANGED thresholds
    BY <1>2 DEF thresholds, ThresholdsOrdered
  <1> QED BY <1>1, <1>2 DEF Next, Shell, Collector, Unit, vars, StartAutomaticControlUnit,
        StopAutomaticControlUnit, RecordWaterLevel, RecordFlowRate, GrowStale, RetrieveWaterLevel,
        RetrieveInflow, RetrieveOutflow, QueryFails, OrderAlarm, AlarmFails, CheckMode, TestSafeThreshold,
        TestMaxThreshold, TestMinThreshold, EndCycle

\* Whatever is typed, NaN included, no two thresholds end up out of order.
THEOREM Ordered == Spec => []ThresholdsOrdered
  <1>1. Init => ThresholdsOrdered
    BY InitialAssumption DEF Init, ThresholdsOrdered, Gt
  <1> QED BY <1>1, TypeCorrect, OrderedStep, PTL DEF Spec

\* Under all the thresholds the operator can establish, and for all rates, a
\* higher level is answered by an opening at least as large.
THEOREM Monotone == Spec => []PlanMonotone
  <1>1. TypeOK /\ ThresholdsOrdered => PlanMonotone
    <2> SUFFICES ASSUME TypeOK, ThresholdsOrdered, NEW a \in Readings, NEW b \in Readings,
                        unit.pc = "act", a <= b
                 PROVE  Move(Zone(a, minThreshold, maxThreshold, safeThreshold), unit.inflow, unit.outflow)
                        <= Move(Zone(b, minThreshold, maxThreshold, safeThreshold), unit.inflow, unit.outflow)
      BY DEF PlanMonotone
    <2>1. unit.inflow \in Int /\ unit.outflow \in Int /\ a \in Int /\ b \in Int
      BY RatesAssumption, ReadingsAssumption DEF TypeOK
    <2>2. minThreshold \in Thresholds /\ maxThreshold \in Thresholds /\ safeThreshold \in Thresholds
      BY DEF TypeOK, Thresholds
    <2> QED BY <2>1, <2>2, MoveMonotone DEF ThresholdsOrdered
  <1> QED BY <1>1, TypeCorrect, Ordered, PTL
-----------------------------------------------------------------------------
(* The branch taken was right at some moment.  By the time max is tested the *)
(* safe threshold may already have been lowered below the level; then the    *)
(* level was in the zone "high" just before, because the new safe threshold  *)
(* is not below max.  The same holds of min, and of the zone "normal".       *)

Level == unit.level.value
Current == Verdict(Level, minThreshold, maxThreshold, safeThreshold)
Excused == "unordered" \in zonesSeen

DecisionInv ==
    /\ unit.pc \in Deciding => Current \subseteq zonesSeen
    /\ unit.pc = "max" /\ Gt(Level, safeThreshold) => "high" \in zonesSeen \/ Excused
    /\ unit.pc = "min" /\ Gt(Level, maxThreshold) => "normal" \in zonesSeen \/ Excused
    /\ ZoneWasTrue
    /\ unit.pc \in Deciding \cup {"act"} /\ zonesSeen = {"flood"} => alarm

\* The level held while deciding is an integer, the thresholds are numbers or NaN.
LEMMA DecidingTypes ==
    ASSUME TypeOK, unit.pc \in Deciding
    PROVE  /\ Level \in Int
           /\ minThreshold \in Thresholds /\ maxThreshold \in Thresholds /\ safeThreshold \in Thresholds
  <1>1. unit.level \in Levels
    BY DEF TypeOK
  <1> QED BY <1>1, ReadingsAssumption DEF TypeOK, Thresholds, Level, Levels

\* Unless a NaN has been seen, all thresholds in force are numbers.
LEMMA ExcusedOrNumbers ==
    ASSUME TypeOK, DecisionInv, unit.pc \in Deciding
    PROVE  Excused \/ {minThreshold, maxThreshold, safeThreshold} \subseteq Int
  BY DEF TypeOK, DecisionInv, Verdict, Excused, Current

\* A verdict names the zone of the level.
LEMMA VerdictHasZone ==
    ASSUME NEW l, NEW min, NEW max, NEW safe
    PROVE  /\ Zone(l, min, max, safe) \in Verdict(l, min, max, safe)
           /\ NaN \in {min, max, safe} => "unordered" \in Verdict(l, min, max, safe)
  BY DEF Verdict

\* A threshold command cannot make the unit's next test wrong without leaving
\* the zone it would have been right in among the zones seen.
LEMMA ThresholdKeepsDecision ==
    ASSUME TypeOK, TypeOK', ThresholdsOrdered, DecisionInv, SetThreshold, unit.pc \in Deciding
    PROVE  DecisionInv'
  <1>1. /\ unit' = unit /\ alarm' = alarm /\ Level' = Level
        /\ zonesSeen' = zonesSeen \cup Current'
    BY DEF SetThreshold, SeeZone, Current, Level
  <1>2. Level \in Int
    BY DecidingTypes
  <1>3. PICK v \in Typed : SetMaxThreshold(v) \/ SetMinThreshold(v) \/ SetSafeThreshold(v)
    BY DEF SetThreshold
  <1>4. Excused' \/ {minThreshold, maxThreshold, safeThreshold, minThreshold', maxThreshold', safeThreshold'} \subseteq Int
    <2>1. Excused => Excused'
      BY <1>1 DEF Excused
    <2>2. NaN \in {minThreshold', maxThreshold', safeThreshold'} => Excused'
      BY <1>1 DEF Excused, Current, Verdict
    <2>3. {minThreshold', maxThreshold', safeThreshold'} \subseteq Int \cup {NaN}
      BY DEF TypeOK
    <2> QED BY <2>1, <2>2, <2>3, ExcusedOrNumbers
  <1>5. Zone(Level, minThreshold, maxThreshold, safeThreshold) \in zonesSeen
    BY VerdictHasZone DEF DecisionInv, Current
  <1>6. ASSUME unit.pc = "max", Gt(Level, safeThreshold'), ~Excused'
        PROVE  "high" \in zonesSeen'
    <2>1. CASE Gt(Level, safeThreshold)
      BY <1>1, <1>6, <2>1 DEF DecisionInv, Excused
    <2>2. CASE ~Gt(Level, safeThreshold)
      <3>1. safeThreshold' = v /\ ~Gt(maxThreshold, v)
        BY <1>3, <1>6, <2>2 DEF SetMaxThreshold, SetMinThreshold, SetSafeThreshold
      <3>2. Gt(Level, maxThreshold)
        BY <1>2, <1>4, <1>6, <3>1, NaNAssumption DEF Gt
      <3>3. Zone(Level, minThreshold, maxThreshold, safeThreshold) = "high"
        BY <2>2, <3>2 DEF Zone
      <3> QED BY <1>1, <1>5, <3>3
    <2> QED BY <2>1, <2>2
  <1>7. ASSUME unit.pc = "min", Gt(Level, maxThreshold'), ~Excused'
        PROVE  "normal" \in zonesSeen'
    <2>1. CASE Gt(Level, maxThreshold)
      BY <1>1, <1>7, <2>1 DEF DecisionInv, Excused
    <2>2. CASE ~Gt(Level, maxThreshold)
      <3>1. maxThreshold' = v /\ ~Gt(minThreshold, v)
        BY <1>3, <1>7, <2>2 DEF SetMaxThreshold, SetMinThreshold, SetSafeThreshold
      <3>2. ~Gt(minThreshold, Level)
        BY <1>2, <1>4, <1>7, <3>1 DEF Gt
      <3>3. ~Gt(Level, safeThreshold)
        BY <1>2, <1>4, <1>7, <2>2, NaNAssumption DEF Gt, ThresholdsOrdered
      <3>4. Zone(Level, minThreshold, maxThreshold, safeThreshold) = "normal"
        BY <2>2, <3>2, <3>3 DEF Zone
      <3> QED BY <1>1, <1>5, <3>4
    <2> QED BY <2>1, <2>2
  <1>8. zonesSeen' = {"flood"} => zonesSeen = {"flood"}
    BY <1>1, <1>5
  <1>9. unit.pc # "act"
    BY DEF Deciding
  <1> QED BY <1>1, <1>6, <1>7, <1>8, <1>9 DEF DecisionInv, ZoneWasTrue, Deciding

\* Outside the decision the invariant asks nothing.
LEMMA NotDecidingKeepsDecision ==
    ASSUME unit'.pc \notin Deciding \cup {"act"}
    PROVE  DecisionInv'
  BY DEF DecisionInv, ZoneWasTrue, Deciding

LEMMA DecideKeepsDecision ==
    ASSUME TypeOK, DecisionInv, unit.pc \in Deciding, NEW zone, Decide(zone),
           zone \in zonesSeen \/ Excused,
           UNCHANGED <<zonesSeen, alarm>>
    PROVE  DecisionInv'
  <1>1. unit'.pc = "act" /\ unit'.zone = zone
    BY DEF Decide, TypeOK
  <1> QED BY <1>1 DEF DecisionInv, ZoneWasTrue, Deciding, Excused

LEMMA DecisionStep == TypeOK /\ TypeOK' /\ ThresholdsOrdered /\ DecisionInv /\ [Next]_vars => DecisionInv'
  <1> SUFFICES ASSUME TypeOK, TypeOK', ThresholdsOrdered, DecisionInv, [Next]_vars
               PROVE  DecisionInv'
    OBVIOUS
  <1> DEFINE Z == Zone(Level, minThreshold, maxThreshold, safeThreshold)
  <1>1. unit.pc \in Deciding => Z \in zonesSeen
    BY VerdictHasZone DEF DecisionInv, Current
  <1>2. CASE SetThreshold
    <2>1. CASE unit.pc \in Deciding
      BY <1>2, <2>1, ThresholdKeepsDecision
    <2>2. CASE unit.pc \notin Deciding
      <3>1. unit' = unit /\ alarm' = alarm /\ zonesSeen' = zonesSeen
        BY <1>2, <2>2 DEF SetThreshold, SeeZone
      <3> QED BY <2>2, <3>1 DEF DecisionInv, ZoneWasTrue, Deciding
    <2> QED BY <2>1, <2>2
  <1>3. CASE UNCHANGED <<thresholds, unit, alarm, zonesSeen>>
    <2>1. Level' = Level /\ Current' = Current /\ Excused' = Excused
      BY <1>3 DEF thresholds, Level, Current, Excused
    <2> QED BY <1>3, <2>1 DEF DecisionInv, ZoneWasTrue, thresholds
  <1>4. CASE GrowStale
    <2>1. CASE unit' = unit
      BY <1>3, <1>4, <2>1 DEF GrowStale
    <2>2. CASE unit.pc \in {"inflow", "outflow"} /\ unit' = [unit EXCEPT !.level.fresh = FALSE]
      BY <2>2, NotDecidingKeepsDecision DEF TypeOK, Deciding
    <2> QED BY <1>4, <2>1, <2>2 DEF GrowStale
  <1>5. CASE \/ RetrieveWaterLevel \/ RetrieveInflow \/ RetrieveOutflow
            \/ QueryFails \/ AlarmFails \/ EndCycle
    <2>1. unit'.pc \notin Deciding \cup {"act"}
      <3>1. CASE unit' = Idle
        BY <3>1 DEF Deciding, Idle
      <3>2. CASE RetrieveWaterLevel
        BY <3>2 DEF TypeOK, Deciding, RetrieveWaterLevel
      <3>3. CASE RetrieveInflow \/ RetrieveOutflow
        BY <3>1, <3>3 DEF TypeOK, Deciding, RetrieveInflow, RetrieveOutflow
      <3> QED BY <1>5, <3>1, <3>2, <3>3 DEF QueryFails, AlarmFails, EndCycle
    <2> QED BY <2>1, NotDecidingKeepsDecision
  <1>6. CASE OrderAlarm
    <2>1. unit'.pc = "mode" /\ Level' = Level /\ zonesSeen' = Current /\ Current' = Current
      BY <1>6 DEF OrderAlarm, TypeOK, Level, Current, thresholds
    <2>2. Z \in zonesSeen'
      BY <2>1, VerdictHasZone DEF Current
    <2>3. alarm' = Gt(Level, safeThreshold)
      BY <1>6 DEF OrderAlarm, Level
    <2>4. zonesSeen' = {"flood"} => alarm'
      BY <2>2, <2>3 DEF Zone
    <2> QED BY <2>1, <2>4 DEF DecisionInv, ZoneWasTrue
  <1>7. CASE CheckMode
    <2>1. CASE unit' = Idle
      BY <2>1, NotDecidingKeepsDecision DEF Idle, Deciding
    <2>2. CASE unit' = [unit EXCEPT !.pc = "safe"] /\ UNCHANGED zonesSeen
      <3>1. unit'.pc = "safe" /\ unit.pc \in Deciding /\ Level' = Level /\ Current' = Current
        BY <1>7, <2>2 DEF CheckMode, TypeOK, Deciding, Level, Current, thresholds
      <3> QED BY <1>7, <2>2, <3>1 DEF CheckMode, DecisionInv, ZoneWasTrue
    <2> QED BY <1>7, <2>1, <2>2 DEF CheckMode
  <1>8. CASE TestSafeThreshold
    <2>1. CASE Gt(Level, safeThreshold)
      <3>1. Z = "flood" /\ Decide("flood") /\ unit.pc \in Deciding
        BY <1>8, <2>1 DEF TestSafeThreshold, Level, Zone, Deciding
      <3> QED BY <1>1, <1>8, <3>1, DecideKeepsDecision DEF TestSafeThreshold
    <2>2. CASE ~Gt(Level, safeThreshold)
      <3>1. unit'.pc = "max" /\ unit.pc \in Deciding /\ Level' = Level /\ Current' = Current /\ safeThreshold' = safeThreshold
        BY <1>8, <2>2 DEF TestSafeThreshold, TypeOK, Deciding, Level, Current, thresholds
      <3> QED BY <1>8, <2>2, <3>1 DEF TestSafeThreshold, DecisionInv, ZoneWasTrue
    <2> QED BY <2>1, <2>2
  <1>9. CASE TestMaxThreshold
    <2>1. CASE Gt(Level, maxThreshold)
      <3>1. Decide("high") /\ unit.pc \in Deciding /\ unit.pc = "max"
        BY <1>9, <2>1 DEF TestMaxThreshold, Level, Deciding
      <3>2. "high" \in zonesSeen \/ Excused
        BY <1>1, <2>1, <3>1 DEF DecisionInv, Zone
      <3> QED BY <1>9, <3>1, <3>2, DecideKeepsDecision DEF TestMaxThreshold
    <2>2. CASE ~Gt(Level, maxThreshold)
      <3>1. unit'.pc = "min" /\ unit.pc \in Deciding /\ Level' = Level /\ Current' = Current /\ maxThreshold' = maxThreshold
        BY <1>9, <2>2 DEF TestMaxThreshold, TypeOK, Deciding, Level, Current, thresholds
      <3> QED BY <1>9, <2>2, <3>1 DEF TestMaxThreshold, DecisionInv, ZoneWasTrue
    <2> QED BY <2>1, <2>2
  <1>10. CASE TestMinThreshold
    <2> DEFINE zone == IF Gt(minThreshold, Level) THEN "low" ELSE "normal"
    <2>1. Decide(zone) /\ unit.pc \in Deciding /\ unit.pc = "min"
      BY <1>10 DEF TestMinThreshold, Level, Deciding
    <2>2. ASSUME ~Excused PROVE zone \in zonesSeen
      <3>1. {Level, minThreshold, maxThreshold, safeThreshold} \subseteq Int
        BY <2>1, <2>2, ExcusedOrNumbers, DecidingTypes
      <3>2. Gt(minThreshold, Level) => ~Gt(Level, safeThreshold) /\ ~Gt(Level, maxThreshold)
        BY <3>1, NaNAssumption DEF ThresholdsOrdered, Gt
      <3>3. ~Gt(Level, maxThreshold) => ~Gt(Level, safeThreshold)
        BY <3>1, NaNAssumption DEF ThresholdsOrdered, Gt
      <3>4. CASE Gt(Level, maxThreshold)
        BY <2>1, <2>2, <3>2, <3>4 DEF DecisionInv
      <3>5. CASE ~Gt(Level, maxThreshold)
        BY <1>1, <2>1, <3>3, <3>5 DEF Zone
      <3> QED BY <3>4, <3>5
    <2> HIDE DEF zone
    <2> QED BY <1>10, <2>1, <2>2, DecideKeepsDecision DEF TestMinThreshold
  <1> QED BY <1>2, <1>3, <1>4, <1>5, <1>6, <1>7, <1>8, <1>9, <1>10
        DEF Next, Shell, Collector, Unit, vars, StartAutomaticControlUnit,
            StopAutomaticControlUnit, RecordWaterLevel, RecordFlowRate

LEMMA DecisionCorrect == Spec => []DecisionInv
  <1>1. Init => DecisionInv
    BY DEF Init, Idle, DecisionInv, ZoneWasTrue, Deciding
  <1> QED BY <1>1, TypeCorrect, Ordered, DecisionStep, PTL DEF Spec

\* However the operator's threshold commands fall between the unit's tests, its
\* branch is one that the thresholds as a whole selected at some moment.
THEOREM RightZone == Spec => []ZoneWasTrue
  <1>1. DecisionInv => ZoneWasTrue
    BY DEF DecisionInv
  <1> QED BY <1>1, DecisionCorrect, PTL

\* All the gates are opened only after the alarm, or after a threshold command
\* that fell between the two readings of the safe threshold.
THEOREM Warned == Spec => []WarnedBeforeOpening
  <1>1. DecisionInv => WarnedBeforeOpening
    BY DEF DecisionInv, WarnedBeforeOpening
  <1> QED BY <1>1, DecisionCorrect, PTL
=============================================================================
