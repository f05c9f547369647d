---------------------------- MODULE MCActuation -----------------------------
(* Instances of Actuation: a mote with a primary gate and an alarm, as        *)
(* gate-controller.c has it, and a second mote with an emergency gate.        *)
EXTENDS Actuation

CONSTANTS g1, e1, a1, m1, m2

BothGates == {g1, e1}
PrimaryGate == {g1}
OneAlarm == {a1}
EmergencyGate == {e1}
NoGate == {}
TwoMotes == {m1, m2}
\* the two gates on motes of their own
HostGates == [r \in {g1, e1} |-> IF r = g1 THEN m1 ELSE m2]
\* the alarm on a mote of its own
HostApart == [r \in {g1, a1} |-> IF r = g1 THEN m1 ELSE m2]
OneStep == {1}
TwoSteps == {1, 2}
LegalAndNot == {1, 3}
Closed == {0}
NoFaults == {}
ResponseLost == {"response"}
AllButCrash == {"request", "response", "database", "reboot", "restart"}
AllFaults == AllButCrash \cup {"crash"}
=============================================================================
