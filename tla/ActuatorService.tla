--------------------------- MODULE ActuatorService ---------------------------
(***************************************************************************)
(* What the rest of the system may rely on about gates and alarms: an      *)
(* actuator is served only once the registry knows it, moves only while it *)
(* is served and only to a level of its scale, and starts again closed.    *)
(***************************************************************************)
CONSTANTS Resources, Scale      \* the levels of each resource

VARIABLES known, serving, level

service == <<known, serving, level>>

Init ==
    /\ known = {}
    /\ serving = {}
    /\ level = [r \in Resources |-> 0]

Register(S) ==
    /\ S \cap serving = {}
    /\ known' = known \cup S
    /\ serving' \in {serving, serving \cup S}
    /\ UNCHANGED level

Serve(S) ==
    /\ S \subseteq known
    /\ serving' = serving \cup S
    /\ UNCHANGED <<known, level>>

Set(r) ==
    /\ r \in serving
    /\ \E l \in Scale[r] : level' = [level EXCEPT ![r] = l]
    /\ UNCHANGED <<known, serving>>

Restart(S) ==
    /\ serving' = serving \ S
    /\ level' = [r \in Resources |-> IF r \in S THEN 0 ELSE level[r]]
    /\ UNCHANGED known

Next ==
    \/ \E S \in SUBSET Resources : Register(S) \/ Serve(S) \/ Restart(S)
    \/ \E r \in Resources : Set(r)

Spec == Init /\ [][Next]_service
=============================================================================
