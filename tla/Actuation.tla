----------------------------- MODULE Actuation ------------------------------
(***************************************************************************)
(* How commands reach the gates and the alarms.  Two threads of the        *)
(* Controller command them: the automatic control unit, which goes through *)
(* all the alarms and then all the gates once per cycle, and the shell.    *)
(* Both read the level last stored in the registry (the table "resource"), *)
(* send a CoAP PUT only if the wanted level differs, and store the level   *)
(* once the mote has confirmed (ControlLogic.setGateOpening and its        *)
(* siblings).  Nothing makes the three steps atomic.  Motes reboot with    *)
(* everything closed and register again; requests, responses and database  *)
(* writes fail; the Controller restarts.                                   *)
(***************************************************************************)
EXTENDS Branches, FiniteSets

CONSTANTS
    Gates, Alarms, Emergency,   \* resources; the gates tagged "emergency"
    Motes, Host,                \* the mote each resource lives on
    FULL_OPEN,                  \* 100 in the code
    Steps,                      \* SHORT_STEP, STEP and LONG_STEP: 1, 5, 10
    Typed,                      \* levels the operator types, legal or not
    Faults, MaxFaults,          \* the faults that occur, and how many of them
    Absent, NoRes

Resources == Gates \cup Alarms

ASSUME SetsAssumption ==
    /\ Gates \cap Alarms = {}
    /\ Emergency \subseteq Gates
    /\ Host \in [Resources -> Motes]
    /\ NoRes \notin Resources
ASSUME LevelsAssumption ==
    /\ FULL_OPEN \in Nat \ {0}
    /\ Steps \subseteq Nat \ {0}
    /\ Typed \subseteq Int
    /\ Absent \notin Int
ASSUME FaultsAssumption ==
    /\ Faults \subseteq {"request", "response", "database", "reboot", "crash", "restart"}
    /\ MaxFaults \in Nat

VARIABLES
    registry,   \* level stored for every resource, Absent before it registers
    actual,     \* level at the mote
    mote,       \* what each mote is doing
    mode,       \* ControlLogic.mode
    zone,       \* the zone of the water level (environment)
    acu,        \* the automatic control unit: where its cycle is
    call,       \* the command each thread is executing
    doubt,      \* auxiliary: resources whose last command was interrupted,
                \* failed after it may have reached the mote, or overlapped another
    faults      \* faults so far

vars == <<registry, actual, mote, mode, zone, acu, call, doubt, faults>>
-----------------------------------------------------------------------------
Threads == {"acu", "shell"}
Levels(r) == IF r \in Gates THEN 0..FULL_OPEN ELSE {0, 1}
Registered(S) == {r \in S : registry[r] # Absent}

NoCall == [pc |-> "idle", res |-> NoRes, target |-> 0, reply |-> "none", clean |-> TRUE]
IdleCycle == [pc |-> "idle", todo |-> {}, zone |-> "normal", move |-> 0]

Init ==
    /\ registry = [r \in Resources |-> Absent]
    /\ actual = [r \in Resources |-> 0]
    /\ mote = [m \in Motes |-> "registering"]
    /\ mode = "MANUAL"
    /\ zone = "normal"
    /\ acu = IdleCycle
    /\ call = [t \in Threads |-> NoCall]
    /\ doubt = [r \in Resources |-> FALSE]
    /\ faults = 0

Fault(f) == f \in Faults /\ faults < MaxFaults /\ faults' = faults + 1

NewConditions ==
    /\ \E z \in Zones : z # zone /\ zone' = z
    /\ UNCHANGED <<registry, actual, mote, mode, acu, call, doubt, faults>>
-----------------------------------------------------------------------------
(* A command: read the registry, PUT, store.                               *)

On(t, r) == call[t].pc # "idle" /\ call[t].res = r

\* A command finds another one on the same resource: neither can be trusted
\* to leave the registry and the mote in agreement.
Send(t, r, level) ==
    LET overlap == \E u \in Threads \ {t} : On(u, r)
    IN call' = [u \in Threads |->
           IF u = t THEN [pc |-> "waiting", res |-> r, target |-> level, reply |-> "none", clean |-> ~overlap]
           ELSE IF On(u, r) THEN [call[u] EXCEPT !.clean = FALSE]
           ELSE call[u]]

\* Seeded fault: an exception that leaves run() cancels its schedule.
AbortUncaught(t) ==
    /\ call' = [call EXCEPT ![t] = NoCall]
    /\ acu' = IF t = "acu" THEN [IdleCycle EXCEPT !.pc = "cancelled"] ELSE acu
    /\ doubt' = [doubt EXCEPT ![call[t].res] = @ \/ ~call[t].clean \/ call[t].reply = "ok"]

\* The exception that ends a command ends the whole cycle of the unit.
Abort(t) ==
    /\ call' = [call EXCEPT ![t] = NoCall]
    /\ acu' = IF t = "acu" THEN IdleCycle ELSE acu
    /\ doubt' = [doubt EXCEPT ![call[t].res] = @ \/ ~call[t].clean \/ call[t].reply = "ok"]

\* Seeded fault: the mote trusts the Controller.
MoteTakesAnything(t) ==
    LET r == call[t].res
    IN /\ call[t].pc = "waiting"
       /\ mote[Host[r]] = "serving"
       /\ actual' = [actual EXCEPT ![r] = call[t].target]
       /\ call' = [call EXCEPT ![t].reply = "ok"]
       /\ UNCHANGED <<registry, mote, mode, zone, acu, doubt, faults>>

\* Seeded fault: the resources served before they are registered.
MoteServesEarly(t) ==
    LET r == call[t].res
    IN /\ call[t].pc = "waiting"
       /\ mote[Host[r]] # "off"
       /\ call[t].target \in Levels(r)
       /\ actual' = [actual EXCEPT ![r] = call[t].target]
       /\ call' = [call EXCEPT ![t].reply = "ok"]
       /\ UNCHANGED <<registry, mote, mode, zone, acu, doubt, faults>>

\* The mote validates the level and takes it on; a retransmitted PUT is
\* executed once more.
MoteHandlesPut(t) ==
    LET r == call[t].res
    IN /\ call[t].pc = "waiting"
       /\ mote[Host[r]] = "serving"
       /\ IF call[t].target \in Levels(r)
          THEN /\ actual' = [actual EXCEPT ![r] = call[t].target]
               /\ call' = [call EXCEPT ![t].reply = "ok"]
          ELSE /\ call' = [call EXCEPT ![t].reply = "bad"]
               /\ UNCHANGED actual
       /\ UNCHANGED <<registry, mote, mode, zone, acu, doubt, faults>>

\* Until it has registered a mote serves no resource and answers 4.04.
MoteNotFound(t) ==
    /\ call[t].pc = "waiting"
    /\ call[t].reply = "none"
    /\ mote[Host[call[t].res]] = "registering"
    /\ call' = [call EXCEPT ![t].reply = "bad"]
    /\ UNCHANGED <<registry, actual, mote, mode, zone, acu, doubt, faults>>

PutSucceeds(t) ==
    /\ call[t].pc = "waiting"
    /\ call[t].reply = "ok"
    /\ call' = [call EXCEPT ![t].pc = "store"]
    /\ UNCHANGED <<registry, actual, mote, mode, zone, acu, doubt, faults>>

PutRejected(t) ==
    /\ call[t].pc = "waiting"
    /\ call[t].reply = "bad"
    /\ Abort(t)
    /\ UNCHANGED <<registry, actual, mote, mode, zone, faults>>

\* No answer: the request or the response was lost, or the mote is not there.
PutTimesOut(t) ==
    /\ call[t].pc = "waiting"
    /\ \/ mote[Host[call[t].res]] # "serving" /\ UNCHANGED faults
       \/ call[t].reply = "none" /\ Fault("request")
       \/ call[t].reply # "none" /\ Fault("response")
    /\ Abort(t)
    /\ UNCHANGED <<registry, actual, mote, mode, zone>>

Store(t) ==
    /\ call[t].pc = "store"
    /\ registry' = [registry EXCEPT ![call[t].res] = call[t].target]
    /\ call' = [call EXCEPT ![t] = NoCall]
    /\ doubt' = [doubt EXCEPT ![call[t].res] = ~call[t].clean]
    /\ UNCHANGED <<actual, mote, mode, zone, acu, faults>>

StoreFails(t) ==
    /\ call[t].pc = "store"
    /\ Fault("database")
    /\ Abort(t)
    /\ UNCHANGED <<registry, actual, mote, mode, zone>>
-----------------------------------------------------------------------------
(* The automatic control unit.                                             *)

\* Fresh measurements are at hand; the list of alarms is read.
StartCycle ==
    /\ acu.pc = "idle"
    /\ acu' = [pc |-> "alarms", todo |-> Registered(Alarms), zone |-> zone, move |-> 0]
    /\ UNCHANGED <<registry, actual, mote, mode, zone, call, doubt, faults>>

\* The next resource of the list: a command if the level has to change.
Command(r, level) ==
    /\ acu' = [acu EXCEPT !.todo = @ \ {r}]
    /\ IF level # registry[r] THEN Send("acu", r, level) ELSE UNCHANGED call

\* Seeded fault: the alarm only ever turned on.
SetAlarmStatusOnly ==
    /\ acu.pc = "alarms"
    /\ call["acu"].pc = "idle"
    /\ \E a \in acu.todo : Command(a, IF acu.zone = "flood" THEN 1 ELSE registry[a])
    /\ UNCHANGED <<registry, actual, mote, mode, zone, doubt, faults>>

SetAlarmStatus ==
    /\ acu.pc = "alarms"
    /\ call["acu"].pc = "idle"
    /\ \E a \in acu.todo : Command(a, IF acu.zone = "flood" THEN 1 ELSE 0)
    /\ UNCHANGED <<registry, actual, mote, mode, zone, doubt, faults>>

\* In AUTO mode the list of gates is read and the branch chosen.  The level is
\* the one the alarms were set by; the thresholds are read again.
ChooseBranch ==
    \E z \in {acu.zone, zone} : \E d \in Moves(z, Steps, FULL_OPEN) :
        acu' = [pc |-> "gates", todo |-> Registered(Gates), zone |-> z, move |-> d]

\* Seeded fault: the mode not looked at.
CheckNothing ==
    /\ acu.pc = "alarms"
    /\ acu.todo = {}
    /\ call["acu"].pc = "idle"
    /\ ChooseBranch
    /\ UNCHANGED <<registry, actual, mote, mode, zone, call, doubt, faults>>

CheckMode ==
    /\ acu.pc = "alarms"
    /\ acu.todo = {}
    /\ call["acu"].pc = "idle"
    /\ IF mode = "MANUAL" THEN acu' = IdleCycle ELSE ChooseBranch
    /\ UNCHANGED <<registry, actual, mote, mode, zone, call, doubt, faults>>

Clamp(level) == IF level < 0 THEN 0 ELSE IF level > FULL_OPEN THEN FULL_OPEN ELSE level

\* increaseGateOpening and decreaseGateOpening for the primary gates, starting
\* from the level in the registry; emergency gates are open or closed.
Target(g) ==
    IF acu.zone = "flood" THEN FULL_OPEN
    ELSE IF g \in Emergency THEN 0
    ELSE Clamp(registry[g] + acu.move)

SetGateOpening ==
    /\ acu.pc = "gates"
    /\ call["acu"].pc = "idle"
    /\ \E g \in acu.todo : Command(g, Target(g))
    /\ UNCHANGED <<registry, actual, mote, mode, zone, doubt, faults>>

\* Seeded fault: the last command not waited for.
EndCycleEarly ==
    /\ acu.pc = "gates"
    /\ acu.todo = {}
    /\ acu' = IdleCycle
    /\ UNCHANGED <<registry, actual, mote, mode, zone, call, doubt, faults>>

EndCycle ==
    /\ acu.pc = "gates"
    /\ acu.todo = {}
    /\ call["acu"].pc = "idle"
    /\ acu' = IdleCycle
    /\ UNCHANGED <<registry, actual, mote, mode, zone, call, doubt, faults>>

\* A query of the unit fails: the exception ends the cycle.
QueryFails ==
    /\ acu.pc # "idle"
    /\ call["acu"].pc = "idle"
    /\ Fault("database")
    /\ acu' = IdleCycle
    /\ UNCHANGED <<registry, actual, mote, mode, zone, call, doubt>>
-----------------------------------------------------------------------------
(* The operator: one command of the shell after the other.                 *)

SetLevel ==
    /\ mode = "MANUAL"
    /\ call["shell"].pc = "idle"
    /\ \E g \in Registered(Gates), level \in Typed :
           level # registry[g] /\ Send("shell", g, level)
    /\ UNCHANGED <<registry, actual, mote, mode, zone, acu, doubt, faults>>

SetMode ==
    /\ call["shell"].pc = "idle"
    /\ mode' = IF mode = "AUTO" THEN "MANUAL" ELSE "AUTO"
    /\ UNCHANGED <<registry, actual, mote, zone, acu, call, doubt, faults>>

\* Everything the Controller was doing is lost; it starts in MANUAL mode.
Restart ==
    /\ Fault("restart")
    /\ mode' = "MANUAL"
    /\ acu' = IdleCycle
    /\ call' = [t \in Threads |-> NoCall]
    /\ doubt' = [r \in Resources |->
           doubt[r] \/ \E t \in Threads :
               On(t, r) /\ (~call[t].clean \/ call[t].reply = "ok")]
    /\ UNCHANGED <<registry, actual, mote, zone>>
-----------------------------------------------------------------------------
(* The actuator motes.                                                     *)

\* A mote starts again with its gates closed and its alarm off, and the
\* commands on their way to it find another mote than they were meant for.
Down(m, next) ==
    /\ mote' = [mote EXCEPT ![m] = next]
    /\ actual' = [r \in Resources |-> IF Host[r] = m THEN 0 ELSE actual[r]]
    /\ call' = [t \in Threads |->
           IF call[t].pc # "idle" /\ Host[call[t].res] = m THEN [call[t] EXCEPT !.clean = FALSE] ELSE call[t]]
    /\ UNCHANGED <<registry, mode, zone, acu, doubt>>

Reboot(m) == mote[m] # "off" /\ Fault("reboot") /\ Down(m, "registering")
Crash(m) == mote[m] # "off" /\ Fault("crash") /\ Down(m, "off")

\* Seeded fault: the Collector leaves the rows it has alone.
RegisterNewOnly(m) ==
    /\ mote[m] = "registering"
    /\ registry' = [r \in Resources |-> IF Host[r] = m /\ registry[r] = Absent THEN 0 ELSE registry[r]]
    /\ doubt' = [r \in Resources |-> doubt[r] /\ Host[r] # m]
    /\ \/ mote' = [mote EXCEPT ![m] = "serving"]
       \/ UNCHANGED mote
    /\ UNCHANGED <<actual, mode, zone, acu, call, faults>>

\* The Collector stores the resources the mote posts, all in one transaction
\* and all with the level 0; the mote serves them when it has the response,
\* and posts them again when it has not.
Register(m) ==
    /\ mote[m] = "registering"
    /\ registry' = [r \in Resources |-> IF Host[r] = m THEN 0 ELSE registry[r]]
    /\ doubt' = [r \in Resources |-> doubt[r] /\ Host[r] # m]
    /\ \/ mote' = [mote EXCEPT ![m] = "serving"]
       \/ UNCHANGED mote
    /\ UNCHANGED <<actual, mode, zone, acu, call, faults>>
-----------------------------------------------------------------------------
Answer(t) == MoteHandlesPut(t) \/ MoteNotFound(t)
Return(t) == PutSucceeds(t) \/ PutRejected(t) \/ PutTimesOut(t) \/ Store(t) \/ StoreFails(t)
Unit == StartCycle \/ SetAlarmStatus \/ CheckMode \/ SetGateOpening \/ EndCycle \/ QueryFails
Shell == SetLevel \/ SetMode
Mote(m) == Reboot(m) \/ Crash(m) \/ Register(m)

Next ==
    \/ \E t \in Threads : Answer(t) \/ Return(t)
    \/ Unit \/ Shell \/ Restart \/ NewConditions
    \/ \E m \in Motes : Mote(m)

Spec == Init /\ [][Next]_vars

\* The scheduler keeps starting cycles and a cycle goes on; a request is
\* answered or times out; a mote goes on registering until it is served.
FairSpec ==
    /\ Spec
    /\ WF_vars(StartCycle \/ SetAlarmStatus \/ CheckMode \/ SetGateOpening \/ EndCycle)
    /\ \A t \in Threads : WF_vars(MoteHandlesPut(t) /\ call[t].reply = "none") /\ WF_vars(Return(t))
    /\ \A m \in Motes : WF_vars(Register(m) /\ mote'[m] = "serving")
-----------------------------------------------------------------------------
(* Properties                                                              *)

\* Every variable has its type; in particular no level the operator types, and
\* no sequence of increases and decreases, ever takes a gate or its registry
\* entry out of 0..FULL_OPEN (the clamps of increaseGateOpening and
\* decreaseGateOpening, the validation in res-gate.c, and the store only after
\* a success in ControlLogic.setGateOpening).
TypeOK ==
    /\ registry \in [Resources -> Int \cup {Absent}]
    /\ actual \in [Resources -> Int]
    /\ \A r \in Resources : registry[r] \in Levels(r) \cup {Absent} /\ actual[r] \in Levels(r)
    /\ mote \in [Motes -> {"registering", "serving", "off"}]
    /\ mode \in {"AUTO", "MANUAL"}
    /\ zone \in Zones
    /\ acu \in [pc : {"idle", "alarms", "gates"}, todo : SUBSET Resources, zone : Zones, move : Int]
    /\ call \in [Threads -> [pc : {"idle", "waiting", "store"}, res : Resources \cup {NoRes},
                             target : Int, reply : {"none", "ok", "bad"}, clean : BOOLEAN]]
    /\ doubt \in [Resources -> BOOLEAN]
    /\ faults \in 0..MaxFaults

\* The registry is a cache that nothing keeps coherent.  It can disagree with a
\* serving mote only about a resource under command, or one whose last command
\* was cut short after the mote may have obeyed, met a reboot, or overlapped a
\* command of the other thread; registration brings the two together again
\* (ControlLogic.setGateOpening, setAlarmStatus; Registry.handlePOST).
RegistryExplained ==
    \A r \in Resources :
        mote[Host[r]] = "serving" /\ ~doubt[r] /\ (\A t \in Threads : ~On(t, r))
            => registry[r] = actual[r]

\* In MANUAL mode, once no cycle is at work on the gates, a gate moves only on
\* the operator's command or because its mote restarts: no command of a cycle
\* outlives the cycle (ControlLogic.setGateOpening blocks until it is done or
\* has failed, and its failure ends the cycle).
OperatorsGateStands ==
    [][\A g \in Gates :
          mode = "MANUAL" /\ acu.pc # "gates" /\ actual'[g] # actual[g]
              => On("shell", g) \/ mote'[Host[g]] # mote[Host[g]]]_vars

\* A command of the unit moves a gate as the cycle has decided.  In a flood the
\* gate is opened, whatever the registry says, and an emergency gate is closed
\* outside a flood; a primary gate moves by the decided step from the level it
\* really has, although the step is added to the one in the registry, unless
\* the entry was in doubt, a command of the shell overlapped, or the mote
\* registered again after the level had been computed
\* (ControlLogic.increaseGateOpening, decreaseGateOpening, setGateOpening).
UnitMovesAsDecided ==
    [][\A g \in Gates :
          On("acu", g) /\ ~On("shell", g) /\ mote' = mote /\ actual'[g] # actual[g] =>
              IF acu.zone = "flood" THEN actual'[g] = FULL_OPEN
              ELSE IF g \in Emergency THEN actual'[g] = 0
              ELSE call["acu"].clean /\ ~doubt[g] /\ call["acu"].target = Target(g)
                       => actual'[g] = Clamp(actual[g] + acu.move)]_vars

Service == INSTANCE ActuatorService WITH
    Scale <- [r \in Resources |-> Levels(r)],
    known <- Registered(Resources),
    serving <- {r \in Resources : mote[Host[r]] = "serving"},
    level <- actual

\* Through all faults of motes, messages, database and Controller a resource
\* moves only while it is registered and served, to a level of its scale, or
\* closes with its mote; the registry forgets none (Registry.handlePOST,
\* coap_br_proc, res_put_handler).  ActuatorMote promises the same of one mote.
Serves == Service!Spec

\* When the operator stays with MANUAL, the cycle that may be at work on the
\* gates comes to an end, whatever fails, and no other one begins
\* (AutomaticControlUnit.run looks at the mode once, before the gates).
ManualTakesOver ==
    <>[](mode = "MANUAL") => <>[](acu.pc # "gates")

Responsive(r) == mote[Host[r]] = "serving" /\ ~doubt[r]

\* Faults being finite in number, a lasting flood in AUTO mode gets every gate
\* open whose mote is up and whose registry entry is not in doubt, although any
\* failure ends the cycle and each cycle begins anew (AutomaticControlUnit.run,
\* first branch; ControlLogic.setGateOpening).
FloodOpensGates ==
    \A g \in Gates :
        <>[](mode = "AUTO" /\ zone = "flood" /\ Responsive(g)) => <>[](actual[g] = FULL_OPEN)

\* The alarms follow the water level in both modes: on in a lasting flood, and
\* off again for good after it (ControlLogic.setAlarmStatus).
AlarmsFollow ==
    \A a \in Alarms :
        /\ <>[](zone = "flood" /\ Responsive(a)) => <>[](actual[a] = 1)
        /\ <>[](zone # "flood" /\ Responsive(a)) => <>[](actual[a] = 0)

\* "Open all gates (those not already opened)", and setGateOpening sends "only
\* if the new level is different from the current": both speak of the gates,
\* while the code compares with the registry.
FloodOpensEveryGate ==
    \A g \in Gates :
        <>[](mode = "AUTO" /\ zone = "flood" /\ mote[Host[g]] = "serving")
            => <>[](actual[g] = FULL_OPEN)
=============================================================================
