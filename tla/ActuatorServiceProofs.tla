----------------------- MODULE ActuatorServiceProofs ------------------------
(***************************************************************************)
(* What follows from the service alone, and holds therefore of everything  *)
(* that implements it: of the mote's firmware (ActuatorMote) and of the    *)
(* Controller, the Collector and the motes together (Actuation).           *)
(***************************************************************************)
EXTENDS ActuatorService, TLAPS

\* Who is served is known, no level leaves its scale, and what is not served is
\* closed or off.
Kept ==
    /\ serving \subseteq known /\ known \subseteq Resources
    /\ level \in [Resources -> UNION {Scale[r] : r \in Resources}]
    /\ \A r \in Resources : level[r] \in Scale[r] /\ (r \notin serving => level[r] = 0)

LEMMA KeptInit == ASSUME \A r \in Resources : 0 \in Scale[r] PROVE Init => Kept
  BY DEF Init, Kept

LEMMA KeptStep ==
    ASSUME \A r \in Resources : 0 \in Scale[r], Kept, [Next]_service
    PROVE  Kept'
  <1>1. ASSUME NEW S \in SUBSET Resources, Register(S) PROVE Kept'
    BY <1>1 DEF Kept, Register
  <1>2. ASSUME NEW S \in SUBSET Resources, Serve(S) PROVE Kept'
    BY <1>2 DEF Kept, Serve
  <1>3. ASSUME NEW S \in SUBSET Resources, Restart(S) PROVE Kept'
    BY <1>3 DEF Kept, Restart
  <1>4. ASSUME NEW r \in Resources, Set(r) PROVE Kept'
    BY <1>4 DEF Kept, Set
  <1>5. CASE UNCHANGED service
    BY <1>5 DEF Kept, service
  <1> QED BY <1>1, <1>2, <1>3, <1>4, <1>5 DEF Next

\* The promise of the service, whatever the registrations, commands and reboots.
THEOREM Promised == ASSUME \A r \in Resources : 0 \in Scale[r] PROVE Spec => []Kept
  <1>1. Init => Kept
    BY KeptInit
  <1>2. Kept /\ [Next]_service => Kept'
    BY KeptStep
  <1> QED BY <1>1, <1>2, PTL DEF Spec
=============================================================================
