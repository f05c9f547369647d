---------------------------- MODULE ControlCycle ----------------------------
(***************************************************************************)
(* The decision taken by one run of the automatic control unit             *)
(* (AutomaticControlUnit.run) while the operator's shell changes the       *)
(* thresholds and the mode (ControlLogic) and the collector records new    *)
(* measurements (DataManager).  Three threads share the thresholds, the    *)
(* mode and the measurement tables; the unit reads them one by one.        *)
(* How the commands it decides on reach the gates and the alarms is the    *)
(* subject of module Actuation.                                            *)
(***************************************************************************)
EXTENDS Branches

CONSTANTS
    Readings,       \* water levels the sensors report
    Rates,          \* inflow and (total) outflow rates
    Typed,          \* threshold values the operator types: NaN is a legal Float
    InitialMin, InitialMax, InitialSafe,    \* controller.properties
    NaN,            \* the Float every comparison with which is false
    NoRow           \* an empty measurement table

ASSUME ReadingsAssumption == Readings \subseteq Int
ASSUME RatesAssumption == Rates \subseteq Int
ASSUME NaNAssumption == NaN \notin Int
ASSUME TypedAssumption == Typed \subseteq Int \cup {NaN}
ASSUME NoRowAssumption == NoRow \notin Rates /\ NoRow \notin [value : Readings, fresh : BOOLEAN]
ASSUME InitialAssumption ==
    /\ {InitialMin, InitialMax, InitialSafe} \subseteq Int
    /\ InitialMin <= InitialMax
    /\ InitialMax <= InitialSafe

VARIABLES
    minThreshold, maxThreshold, safeThreshold, mode,    \* ControlLogic
    waterLevel, inflow, outflow,    \* last row of each measurement table
    unit,           \* the control thread: program counter and local variables
    alarm,          \* the alarm status ordered last
    zonesSeen       \* auxiliary: the zones the level read has been in, under the
                    \* thresholds in force at some moment of the decision

thresholds == <<minThreshold, maxThreshold, safeThreshold>>
data == <<waterLevel, inflow, outflow>>
vars == <<thresholds, mode, data, unit, alarm, zonesSeen>>
-----------------------------------------------------------------------------
FULL_OPEN == 100
SHORT_STEP == 1
STEP == 5
LONG_STEP == 10

\* Java's comparison of two floats
Gt(a, b) == a # NaN /\ b # NaN /\ a > b

\* The branch a level selects when all the thresholds are read at once.
Zone(level, min, max, safe) ==
    IF Gt(level, safe) THEN "flood"
    ELSE IF Gt(level, max) THEN "high"
    ELSE IF Gt(min, level) THEN "low" ELSE "normal"

\* The change of opening the branch orders for every primary gate.
Step(gap) == IF gap > 20 THEN LONG_STEP ELSE IF gap > 10 THEN STEP ELSE SHORT_STEP

Balance(in, out) ==
    IF out < in - 1 THEN Step(in - out)
    ELSE IF out > in + 1 THEN -Step(out - in) ELSE 0

\* Seeded fault: the two steps of the low branch exchanged.
MoveLowExchanged(zone, in, out) ==
    IF zone = "flood" THEN FULL_OPEN
    ELSE IF zone = "high" THEN IF in > out THEN LONG_STEP ELSE STEP
    ELSE IF zone = "low" THEN IF in < out THEN -STEP ELSE -LONG_STEP
    ELSE Balance(in, out)

Move(zone, in, out) ==
    IF zone = "flood" THEN FULL_OPEN
    ELSE IF zone = "high" THEN IF in > out THEN LONG_STEP ELSE STEP
    ELSE IF zone = "low" THEN IF in < out THEN -LONG_STEP ELSE -STEP
    ELSE Balance(in, out)

-----------------------------------------------------------------------------
Pcs == {"idle", "inflow", "outflow", "alarm", "mode", "safe", "max", "min", "act"}
Deciding == {"mode", "safe", "max", "min"}

Levels == [value : Readings, fresh : BOOLEAN]
Idle == [pc |-> "idle", level |-> NoRow, inflow |-> NoRow, outflow |-> NoRow,
         zone |-> "none", move |-> 0]

Init ==
    /\ minThreshold = InitialMin
    /\ maxThreshold = InitialMax
    /\ safeThreshold = InitialSafe
    /\ mode = "MANUAL"
    /\ waterLevel \in Levels \cup {NoRow}
    /\ inflow \in Rates \cup {NoRow}
    /\ outflow \in Rates \cup {NoRow}
    /\ unit = Idle
    /\ alarm = FALSE
    /\ zonesSeen = {}

\* What a set of thresholds makes of a level; a NaN threshold puts no bound
\* on the others and leaves them unordered.
Verdict(level, min, max, safe) ==
    {Zone(level, min, max, safe)} \cup (IF NaN \in {min, max, safe} THEN {"unordered"} ELSE {})

\* The verdict of the thresholds just typed, as long as the unit is deciding.
SeeZone ==
    zonesSeen' = IF unit.pc \in Deciding
                 THEN zonesSeen \cup Verdict(unit.level.value, minThreshold', maxThreshold', safeThreshold')
                 ELSE zonesSeen
-----------------------------------------------------------------------------
(* The shell's thread: "threshold" and "mode" commands.                    *)

SetMaxThreshold(v) ==
    /\ ~Gt(v, safeThreshold) /\ ~Gt(minThreshold, v)
    /\ maxThreshold' = v
    /\ UNCHANGED <<minThreshold, safeThreshold>>

SetMinThreshold(v) ==
    /\ ~Gt(v, maxThreshold) /\ ~Gt(v, safeThreshold)
    /\ minThreshold' = v
    /\ UNCHANGED <<maxThreshold, safeThreshold>>

\* Seeded fault: the comparison with the max threshold dropped.
SetSafeAgainstMinOnly(v) ==
    /\ ~Gt(minThreshold, v)
    /\ safeThreshold' = v
    /\ UNCHANGED <<minThreshold, maxThreshold>>

SetSafeThreshold(v) ==
    /\ ~Gt(minThreshold, v) /\ ~Gt(maxThreshold, v)
    /\ safeThreshold' = v
    /\ UNCHANGED <<minThreshold, maxThreshold>>

SetThreshold ==
    /\ \E v \in Typed : SetMaxThreshold(v) \/ SetMinThreshold(v) \/ SetSafeThreshold(v)
    /\ SeeZone
    /\ UNCHANGED <<mode, data, unit, alarm>>

StartAutomaticControlUnit ==
    /\ mode = "MANUAL"
    /\ mode' = "AUTO"
    /\ UNCHANGED <<thresholds, data, unit, alarm, zonesSeen>>

StopAutomaticControlUnit ==
    /\ mode = "AUTO"
    /\ mode' = "MANUAL"
    /\ UNCHANGED <<thresholds, data, unit, alarm, zonesSeen>>
-----------------------------------------------------------------------------
(* The collector's process and the passing of time.                        *)

RecordWaterLevel ==
    /\ \E v \in Readings : waterLevel' = [value |-> v, fresh |-> TRUE]
    /\ UNCHANGED <<thresholds, mode, inflow, outflow, unit, alarm, zonesSeen>>

RecordFlowRate ==
    /\ \E r \in Rates : \/ inflow' = r /\ UNCHANGED outflow
                        \/ outflow' = r /\ UNCHANGED inflow
    /\ UNCHANGED <<thresholds, mode, waterLevel, unit, alarm, zonesSeen>>

\* maxStale minutes pass since the last reading, and so since the reading the
\* unit holds, which is no newer.  A reading does not grow stale in the
\* milliseconds between its retrieval and the check if a newer one exists.
GrowStale ==
    /\ waterLevel # NoRow /\ waterLevel.fresh
    /\ waterLevel' = [waterLevel EXCEPT !.fresh = FALSE]
    /\ unit' = IF unit.pc \in {"inflow", "outflow"} /\ unit.level # NoRow
               THEN [unit EXCEPT !.level.fresh = FALSE] ELSE unit
    /\ UNCHANGED <<thresholds, mode, inflow, outflow, alarm, zonesSeen>>
-----------------------------------------------------------------------------
(* The control thread: run() every taskPeriod.  Every query of the database *)
(* either brings its answer (the Retrieve actions) or fails (QueryFails).   *)

RetrieveWaterLevel ==
    /\ unit.pc = "idle"
    /\ unit' = [unit EXCEPT !.pc = "inflow", !.level = waterLevel]
    /\ UNCHANGED <<thresholds, mode, data, alarm, zonesSeen>>

\* Seeded fault: a missing inflow row passed on.
RetrieveInflowUnchecked ==
    /\ unit.pc = "inflow"
    /\ unit' = [unit EXCEPT !.pc = "outflow", !.inflow = inflow]
    /\ UNCHANGED <<thresholds, mode, data, alarm, zonesSeen>>

\* getValue() of a missing row raises NullPointerException: the cycle ends.
RetrieveInflow ==
    /\ unit.pc = "inflow"
    /\ unit' = IF inflow = NoRow THEN Idle
               ELSE [unit EXCEPT !.pc = "outflow", !.inflow = inflow]
    /\ UNCHANGED <<thresholds, mode, data, alarm, zonesSeen>>

\* Seeded fault: the age of the reading compared the wrong way round.
RetrieveOutflowStaleOnly ==
    /\ unit.pc = "outflow"
    /\ unit' = IF outflow = NoRow \/ unit.level = NoRow THEN Idle
               ELSE IF unit.level.fresh THEN Idle
               ELSE [unit EXCEPT !.pc = "alarm", !.outflow = outflow]
    /\ UNCHANGED <<thresholds, mode, data, alarm, zonesSeen>>

\* floatValue() of the sum of no rows raises NullPointerException too; with
\* both rates at hand the reading is checked for its age.
RetrieveOutflow ==
    /\ unit.pc = "outflow"
    /\ unit' = IF outflow = NoRow \/ unit.level = NoRow THEN Idle
               ELSE IF ~unit.level.fresh THEN Idle
               ELSE [unit EXCEPT !.pc = "alarm", !.outflow = outflow]
    /\ UNCHANGED <<thresholds, mode, data, alarm, zonesSeen>>

\* PersistenceException ends the cycle at whichever query it comes from: the
\* level, which leaves nothing behind, the inflow, the outflow, or the gates,
\* which are looked up when the mode is AUTO, before the first test.
QueryFails ==
    /\ unit.pc \in {"idle", "inflow", "outflow", "safe"}
    /\ unit' = Idle
    /\ zonesSeen' = {}
    /\ UNCHANGED <<thresholds, mode, data, alarm>>

OrderAlarm ==
    /\ unit.pc = "alarm"
    /\ alarm' = Gt(unit.level.value, safeThreshold)
    /\ unit' = [unit EXCEPT !.pc = "mode"]
    /\ zonesSeen' = Verdict(unit.level.value, minThreshold, maxThreshold, safeThreshold)
    /\ UNCHANGED <<thresholds, mode, data>>

\* Seeded fault: the failure caught around the alarm alone.
AlarmFailureIgnored ==
    /\ unit.pc = "alarm"
    /\ unit' = [unit EXCEPT !.pc = "mode"]
    /\ zonesSeen' = Verdict(unit.level.value, minThreshold, maxThreshold, safeThreshold)
    /\ UNCHANGED <<thresholds, mode, data, alarm>>

\* The alarms cannot be looked up, or one does not answer: the exception ends
\* the cycle.
AlarmFails ==
    /\ unit.pc = "alarm"
    /\ unit' = Idle
    /\ UNCHANGED <<thresholds, mode, data, alarm, zonesSeen>>

CheckMode ==
    /\ unit.pc = "mode"
    /\ IF mode = "MANUAL"
       THEN unit' = Idle /\ zonesSeen' = {}
       ELSE unit' = [unit EXCEPT !.pc = "safe"] /\ UNCHANGED zonesSeen
    /\ UNCHANGED <<thresholds, mode, data, alarm>>

Decide(zone) ==
    unit' = [unit EXCEPT !.pc = "act", !.zone = zone, !.move = Move(zone, unit.inflow, unit.outflow)]

TestSafeThreshold ==
    /\ unit.pc = "safe"
    /\ IF Gt(unit.level.value, safeThreshold) THEN Decide("flood")
       ELSE unit' = [unit EXCEPT !.pc = "max"]
    /\ UNCHANGED <<thresholds, mode, data, alarm, zonesSeen>>

TestMaxThreshold ==
    /\ unit.pc = "max"
    /\ IF Gt(unit.level.value, maxThreshold) THEN Decide("high")
       ELSE unit' = [unit EXCEPT !.pc = "min"]
    /\ UNCHANGED <<thresholds, mode, data, alarm, zonesSeen>>

TestMinThreshold ==
    /\ unit.pc = "min"
    /\ Decide(IF Gt(minThreshold, unit.level.value) THEN "low" ELSE "normal")
    /\ UNCHANGED <<thresholds, mode, data, alarm, zonesSeen>>

\* The commands of the branch are sent, or one fails and ends the cycle.
EndCycle ==
    /\ unit.pc = "act"
    /\ unit' = Idle
    /\ zonesSeen' = {}
    /\ UNCHANGED <<thresholds, mode, data, alarm>>
-----------------------------------------------------------------------------
Shell == SetThreshold \/ StartAutomaticControlUnit \/ StopAutomaticControlUnit
Collector == RecordWaterLevel \/ RecordFlowRate \/ GrowStale
Unit ==
    \/ RetrieveWaterLevel \/ RetrieveInflow \/ RetrieveOutflow \/ QueryFails
    \/ OrderAlarm \/ AlarmFails \/ CheckMode
    \/ TestSafeThreshold \/ TestMaxThreshold \/ TestMinThreshold \/ EndCycle

Next == Shell \/ Collector \/ Unit

Spec == Init /\ [][Next]_vars

\* The scheduler keeps running the unit; and what is asked again and again is
\* answered again and again, by the database and by the alarms.  The latter is
\* an assumption on them: in between, any number of queries and alarms fail.
\* For the query of the level, whose failure is a stuttering step, it is part
\* of WF_vars(Unit).
FairSpec ==
    /\ Spec
    /\ WF_vars(Unit)
    /\ SF_vars(RetrieveInflow) /\ SF_vars(RetrieveOutflow) /\ SF_vars(OrderAlarm)
-----------------------------------------------------------------------------
(* Properties                                                              *)

\* Every variable has its type, and the unit holds at each point of run() the
\* local variables that point has assigned (AutomaticControlUnit.run).
TypeOK ==
    /\ {minThreshold, maxThreshold, safeThreshold} \subseteq Int \cup {NaN}
    /\ mode \in {"MANUAL", "AUTO"}
    /\ waterLevel \in Levels \cup {NoRow}
    /\ inflow \in Rates \cup {NoRow}
    /\ outflow \in Rates \cup {NoRow}
    /\ unit \in [pc : Pcs, level : Levels \cup {NoRow}, inflow : Rates \cup {NoRow},
                 outflow : Rates \cup {NoRow}, zone : Zones \cup {"none"}, move : Int]
    /\ unit.pc \in Deciding \cup {"alarm", "act"} =>
           unit.level \in Levels /\ unit.inflow \in Rates /\ unit.outflow \in Rates
    /\ unit.pc = "outflow" => unit.inflow \in Rates
    /\ unit.pc = "act" => unit.zone \in Zones /\ unit.move = Move(unit.zone, unit.inflow, unit.outflow)
    /\ alarm \in BOOLEAN
    /\ zonesSeen \subseteq Zones \cup {"unordered"}

\* No sequence of threshold commands leaves two thresholds out of order: each
\* setter compares with both of the others, so that not even a NaN threshold,
\* which both comparisons with it let through, hides a wrong order of the
\* other two (ControlLogic.setMinThreshold, setMaxThreshold, setSafeThreshold).
ThresholdsOrdered ==
    /\ ~Gt(minThreshold, maxThreshold)
    /\ ~Gt(minThreshold, safeThreshold)
    /\ ~Gt(maxThreshold, safeThreshold)

\* run() reads the thresholds one by one, in the order safe, max, min, while
\* the operator changes them; the branch it takes is nevertheless the one that
\* all three thresholds, as they stood together at some moment of the
\* decision, select - unless one of them was NaN meanwhile.
ZoneWasTrue ==
    unit.pc = "act" => unit.zone \in zonesSeen \/ "unordered" \in zonesSeen

\* The two readings of the safe threshold, one for the alarm and one for the
\* gates, agree in this: a cycle opens all the gates without having turned the
\* alarm on only if a threshold command came in between
\* (AutomaticControlUnit.run, the alarm first and its failure fatal).
WarnedBeforeOpening ==
    unit.pc = "act" /\ unit.move = FULL_OPEN /\ zonesSeen = {"flood"} => alarm

\* Across the borders of the branches the response grows with the level: under
\* any thresholds the setters accept, and for the rates the unit has read, a
\* higher level never closes a primary gate more or opens it less than a
\* lower one would (the four branches of AutomaticControlUnit.run).
PlanMonotone ==
    \A a, b \in Readings :
        unit.pc = "act" /\ a <= b =>
            Move(Zone(a, minThreshold, maxThreshold, safeThreshold), unit.inflow, unit.outflow)
            <= Move(Zone(b, minThreshold, maxThreshold, safeThreshold), unit.inflow, unit.outflow)

\* A fresh reading above a settled safe threshold; none is above NaN.
Flood(s) ==
    /\ safeThreshold = s
    /\ waterLevel # NoRow
    /\ waterLevel.fresh
    /\ Gt(waterLevel.value, s)

\* If the level stays above the safe threshold, and both rates have been
\* reported once, the alarm is turned on for good, in AUTO as in MANUAL mode,
\* whatever the operator does with the mode and however many cycles are cut
\* short by a query or an alarm that fails, as long as neither fails for ever
\* (AutomaticControlUnit.run orders the alarm before it looks at the mode, and
\* catches what ends a cycle).
AlarmRaised ==
    \A s \in (Typed \ {NaN}) \cup {InitialSafe} :
        <>[](Flood(s) /\ inflow # NoRow /\ outflow # NoRow) => <>[]alarm

\* The same without the rates.  The documentation promises that the alarm is
\* always controlled by the automatic logic and triggered at once near the safe
\* threshold; the code looks at no level until both rates are known.
AlarmAlwaysControlled ==
    \A s \in (Typed \ {NaN}) \cup {InitialSafe} : <>[]Flood(s) => <>[]alarm
=============================================================================
