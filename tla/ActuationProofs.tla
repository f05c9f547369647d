-------------------------- MODULE ActuationProofs ---------------------------
(***************************************************************************)
(* Proofs about Actuation for any number of gates, alarms and motes, any   *)
(* steps, any levels typed and any number of faults.                       *)
(***************************************************************************)
EXTENDS Actuation, TLAPS

Busy(t) == call[t].pc # "idle"

\* What a command in progress has made sure of.
CallsOK ==
    \A t \in Threads :
        /\ call[t].pc = "idle" => call[t] = NoCall
        /\ Busy(t) => call[t].res \in Resources /\ registry[call[t].res] # Absent
        /\ call[t].pc = "store" => call[t].reply = "ok"
        /\ call[t].reply = "ok" => call[t].target \in Levels(call[t].res)

\* The list a cycle goes through, and the command it waits for.
CycleOK ==
    /\ \A r \in acu.todo : r \in Resources /\ registry[r] # Absent
    /\ acu.pc = "idle" => ~Busy("acu")
    /\ acu.pc = "alarms" => acu.todo \subseteq Alarms /\ (Busy("acu") => call["acu"].res \in Alarms)
    /\ acu.pc = "gates" => acu.todo \subseteq Gates /\ (Busy("acu") => call["acu"].res \in Gates)

TypeInv == TypeOK /\ CallsOK /\ CycleOK

USE DEF Threads

LEMMA LevelsAreInts ==
    ASSUME NEW r \in Resources
    PROVE  Levels(r) \subseteq Int /\ 0 \in Levels(r)
  BY LevelsAssumption DEF Levels

LEMMA MovesAreInts ==
    ASSUME NEW z \in Zones, NEW d \in Moves(z, Steps, FULL_OPEN)
    PROVE  d \in Int
  <1>1. \A s \in Steps : s \in Int /\ -s \in Int
    BY LevelsAssumption
  <1> QED BY <1>1, LevelsAssumption DEF Moves, Zones

\* The level commanded by the unit is always legal.
LEMMA TargetLegal ==
    ASSUME TypeOK, NEW g \in Gates, registry[g] # Absent
    PROVE  Target(g) \in 0..FULL_OPEN
  <1>1. registry[g] \in Int /\ acu.move \in Int
    BY DEF TypeOK, Resources
  <1>2. Clamp(registry[g] + acu.move) \in 0..FULL_OPEN
    BY <1>1, LevelsAssumption DEF Clamp
  <1> QED BY <1>2, LevelsAssumption DEF Target

\* Sending a command makes the thread busy with it, and disturbs the other
\* thread's command only by telling it of the overlap.
LEMMA SendEffect ==
    ASSUME TypeInv, NEW t \in Threads, NEW r \in Resources, NEW level \in Int,
           Send(t, r, level)
    PROVE  /\ call' \in [Threads -> [pc : {"idle", "waiting", "store"}, res : Resources \cup {NoRes},
                             target : Int, reply : {"none", "ok", "bad"}, clean : BOOLEAN]]
           /\ call'[t].pc = "waiting" /\ call'[t].res = r /\ call'[t].target = level
           /\ call'[t].reply = "none"
           /\ call'[t].clean = ~\E u \in Threads \ {t} : On(u, r)
           /\ \A u \in Threads \ {t} :
                /\ call'[u].pc = call[u].pc /\ call'[u].res = call[u].res
                /\ call'[u].target = call[u].target /\ call'[u].reply = call[u].reply
                /\ call'[u].clean = (call[u].clean /\ ~On(u, r))
                /\ ~On(u, r) => call'[u] = call[u]
  <1> DEFINE overlap == \E u \in Threads \ {t} : On(u, r)
  <1>1. overlap \in BOOLEAN
    OBVIOUS
  <1> HIDE DEF overlap
  <1>2. call' = [u \in Threads |->
           IF u = t THEN [pc |-> "waiting", res |-> r, target |-> level, reply |-> "none", clean |-> ~overlap]
           ELSE IF On(u, r) THEN [call[u] EXCEPT !.clean = FALSE]
           ELSE call[u]]
    BY DEF Send, overlap
  <1>3. call \in [Threads -> [pc : {"idle", "waiting", "store"}, res : Resources \cup {NoRes},
                             target : Int, reply : {"none", "ok", "bad"}, clean : BOOLEAN]]
    BY DEF TypeInv, TypeOK
  <1>4. call'[t] = [pc |-> "waiting", res |-> r, target |-> level, reply |-> "none", clean |-> ~overlap]
    BY <1>2
  <1>5. ASSUME NEW u \in Threads \ {t}
        PROVE  /\ On(u, r) => call'[u] = [call[u] EXCEPT !.clean = FALSE]
               /\ ~On(u, r) => call'[u] = call[u]
    BY <1>2
  <1>6. call' \in [Threads -> [pc : {"idle", "waiting", "store"}, res : Resources \cup {NoRes},
                             target : Int, reply : {"none", "ok", "bad"}, clean : BOOLEAN]]
    BY <1>1, <1>2, <1>3
  <1>7. /\ call'[t].pc = "waiting" /\ call'[t].res = r /\ call'[t].target = level
        /\ call'[t].reply = "none"
        /\ call'[t].clean = ~overlap
    BY <1>4
  <1>8. ASSUME NEW u \in Threads \ {t}
        PROVE  /\ call'[u].pc = call[u].pc /\ call'[u].res = call[u].res
               /\ call'[u].target = call[u].target /\ call'[u].reply = call[u].reply
               /\ call'[u].clean = (call[u].clean /\ ~On(u, r))
    BY <1>3, <1>5
  <1> QED BY <1>5, <1>6, <1>7, <1>8 DEF overlap
-----------------------------------------------------------------------------
(* Type correctness.                                                        *)

Calls == [pc : {"idle", "waiting", "store"}, res : Resources \cup {NoRes},
          target : Int, reply : {"none", "ok", "bad"}, clean : BOOLEAN]

LEMMA FaultKeepsType == ASSUME TypeOK, NEW f, Fault(f) PROVE faults' \in 0..MaxFaults
  BY FaultsAssumption DEF TypeOK, Fault

LEMMA TypeInit == Init => TypeInv
  <1> SUFFICES ASSUME Init PROVE TypeInv
    OBVIOUS
  <1>1. \A r \in Resources : 0 \in Levels(r)
    BY LevelsAreInts
  <1>2. NoCall \in Calls
    BY DEF NoCall, Calls
  <1>3. TypeOK
    BY <1>1, <1>2, FaultsAssumption DEF Init, TypeOK, IdleCycle, Zones, Calls
  <1> QED BY <1>3 DEF Init, TypeInv, CallsOK, CycleOK, IdleCycle, NoCall, Busy

\* The end of a command, and of the cycle it belongs to.
LEMMA AbortKeepsType ==
    ASSUME TypeInv, NEW t \in Threads, Busy(t), Abort(t),
           UNCHANGED <<registry, actual, mote, mode, zone>>, faults' \in 0..MaxFaults
    PROVE  TypeInv'
  <1>1. NoCall \in Calls /\ NoCall.pc = "idle" /\ NoCall.reply = "none"
    BY DEF NoCall, Calls
  <1>2. /\ call' \in [Threads -> Calls]
        /\ call'[t] = NoCall
        /\ \A u \in Threads \ {t} : call'[u] = call[u]
    BY <1>1 DEF TypeInv, TypeOK, Abort, Calls
  <1>3. doubt' \in [Resources -> BOOLEAN]
    <2>1. call[t].res \in Resources /\ call[t] \in Calls
      BY DEF TypeInv, TypeOK, CallsOK, Calls
    <2>2. (doubt[call[t].res] \/ ~call[t].clean \/ call[t].reply = "ok") \in BOOLEAN
      OBVIOUS
    <2> QED BY <2>1, <2>2 DEF TypeInv, TypeOK, Abort
  <1>4. /\ t = "acu" => acu' = IdleCycle
        /\ t # "acu" => acu' = acu /\ call'["acu"] = call["acu"]
    BY <1>2 DEF Abort
  <1>5. TypeOK'
    BY <1>2, <1>3, <1>4 DEF TypeInv, TypeOK, IdleCycle, Zones, Calls
  <1>6. CallsOK'
    BY <1>1, <1>2 DEF TypeInv, CallsOK, Busy
  <1>7. CycleOK'
    <2>1. CASE t = "acu"
      BY <1>1, <1>2, <1>4, <2>1 DEF CycleOK, IdleCycle, Busy
    <2>2. CASE t # "acu"
      BY <1>4, <2>2 DEF TypeInv, CycleOK, Busy
    <2> QED BY <2>1, <2>2
  <1> QED BY <1>5, <1>6, <1>7 DEF TypeInv

\* One resource of the list commanded or passed over.
LEMMA CommandKeepsType ==
    ASSUME TypeInv, NEW r \in acu.todo, NEW level \in Int, Command(r, level), ~Busy("acu"),
           acu.pc # "idle",
           UNCHANGED <<registry, actual, mote, mode, zone, doubt, faults>>
    PROVE  TypeInv'
  <1>1. r \in Resources /\ registry[r] # Absent
    BY DEF TypeInv, CycleOK
  <1>2. acu' = [acu EXCEPT !.todo = acu.todo \ {r}]
    BY DEF Command
  <1>3. CASE level = registry[r]
    <2>1. UNCHANGED call
      BY <1>3 DEF Command
    <2> QED BY <1>2, <2>1 DEF TypeInv, TypeOK, CallsOK, CycleOK, Busy
  <1>4. CASE level # registry[r]
    <2>1. Send("acu", r, level)
      BY <1>4 DEF Command
    <2>2. /\ call' \in [Threads -> Calls]
          /\ call'["acu"].pc = "waiting" /\ call'["acu"].res = r
          /\ call'["acu"].reply = "none"
          /\ \A u \in Threads \ {"acu"} :
                /\ call'[u].pc = call[u].pc /\ call'[u].res = call[u].res
                /\ call'[u].target = call[u].target /\ call'[u].reply = call[u].reply
                /\ ~On(u, r) => call'[u] = call[u]
      BY <1>1, <2>1, SendEffect DEF Calls
    <2>3. TypeOK'
      BY <1>2, <2>2 DEF TypeInv, TypeOK, Calls
    <2>4. CallsOK'
      BY <1>1, <2>2 DEF TypeInv, CallsOK, Busy, On
    <2>5. CycleOK'
      BY <1>1, <1>2, <2>2 DEF TypeInv, TypeOK, CycleOK, Busy
    <2> QED BY <2>3, <2>4, <2>5 DEF TypeInv
  <1> QED BY <1>3, <1>4

LEMMA AnswerKeepsType ==
    ASSUME TypeInv, NEW t \in Threads, Answer(t) \/ PutSucceeds(t)
    PROVE  TypeInv'
  <1>1. call[t] \in Calls /\ call[t].res \in Resources /\ Busy(t) /\ call[t].pc = "waiting"
    BY DEF TypeInv, TypeOK, CallsOK, Busy, Calls, Answer, MoteHandlesPut, MoteNotFound, PutSucceeds
  <1>2. UNCHANGED <<registry, mote, mode, zone, acu, doubt, faults>>
    BY DEF Answer, MoteHandlesPut, MoteNotFound, PutSucceeds
  <1>3. /\ actual' \in [Resources -> Int]
        /\ \A r \in Resources : actual'[r] \in Levels(r)
    <2>1. CASE UNCHANGED actual
      BY <2>1 DEF TypeInv, TypeOK
    <2>2. CASE call[t].target \in Levels(call[t].res) /\ actual' = [actual EXCEPT ![call[t].res] = call[t].target]
      <3>1. call[t].target \in Int
        BY <1>1 DEF Calls
      <3> QED BY <1>1, <2>2, <3>1 DEF TypeInv, TypeOK
    <2> QED BY <2>1, <2>2 DEF Answer, MoteHandlesPut, MoteNotFound, PutSucceeds
  <1>4. \/ call' = [call EXCEPT ![t] = [call[t] EXCEPT !.reply = "ok"]] /\ call[t].target \in Levels(call[t].res)
        \/ call' = [call EXCEPT ![t] = [call[t] EXCEPT !.reply = "bad"]]
        \/ call' = [call EXCEPT ![t] = [call[t] EXCEPT !.pc = "store"]] /\ call[t].reply = "ok"
    BY DEF Answer, MoteHandlesPut, MoteNotFound, PutSucceeds, TypeInv, TypeOK
  <1>5. /\ call' \in [Threads -> Calls]
        /\ \A u \in Threads \ {t} : call'[u] = call[u]
        /\ call'[t].res = call[t].res /\ call'[t].target = call[t].target
        /\ call'[t].pc \in {"waiting", "store"}
        /\ call'[t].pc = "store" => call'[t].reply = "ok"
        /\ call'[t].reply = "ok" => call[t].target \in Levels(call[t].res)
    BY <1>1, <1>4 DEF TypeInv, TypeOK, CallsOK, Calls
  <1>6. TypeOK'
    BY <1>2, <1>3, <1>5 DEF TypeInv, TypeOK, Calls, Levels
  <1>7. CallsOK'
    BY <1>1, <1>2, <1>5 DEF TypeInv, CallsOK, Busy, Levels
  <1>8. CycleOK'
    BY <1>1, <1>2, <1>5 DEF TypeInv, CycleOK, Busy
  <1> QED BY <1>6, <1>7, <1>8 DEF TypeInv

LEMMA StoreKeepsType ==
    ASSUME TypeInv, NEW t \in Threads, Store(t)
    PROVE  TypeInv'
  <1>1. /\ call[t] \in Calls /\ call[t].res \in Resources /\ call[t].target \in Int
        /\ call[t].target \in Levels(call[t].res)
    BY DEF TypeInv, TypeOK, CallsOK, Busy, Calls, Store
  <1>2. /\ registry' \in [Resources -> Int \cup {Absent}]
        /\ \A r \in Resources : /\ registry'[r] \in Levels(r) \cup {Absent}
                                /\ registry[r] # Absent => registry'[r] # Absent
    <2>1. call[t].target # Absent
      BY <1>1, LevelsAssumption
    <2> QED BY <1>1, <2>1 DEF TypeInv, TypeOK, Store
  <1>3. NoCall \in Calls /\ NoCall.pc = "idle" /\ NoCall.reply = "none"
    BY DEF NoCall, Calls
  <1>4. /\ call' \in [Threads -> Calls]
        /\ call'[t] = NoCall
        /\ \A u \in Threads \ {t} : call'[u] = call[u]
    BY <1>3 DEF TypeInv, TypeOK, Store, Calls
  <1>5. doubt' \in [Resources -> BOOLEAN]
    <2>1. (~call[t].clean) \in BOOLEAN
      OBVIOUS
    <2> QED BY <1>1, <2>1 DEF TypeInv, TypeOK, Store
  <1>6. UNCHANGED <<actual, mote, mode, zone, acu, faults>>
    BY DEF Store
  <1>7. TypeOK'
    BY <1>2, <1>4, <1>5, <1>6 DEF TypeInv, TypeOK, Calls, Levels
  <1>8. CallsOK'
    BY <1>2, <1>3, <1>4 DEF TypeInv, CallsOK, Busy, Levels
  <1>9. CycleOK'
    BY <1>2, <1>3, <1>4, <1>6 DEF TypeInv, CycleOK, Busy, Store
  <1> QED BY <1>7, <1>8, <1>9 DEF TypeInv

LEMMA RegisterKeepsType ==
    ASSUME TypeInv, NEW m \in Motes, Register(m)
    PROVE  TypeInv'
  <1>1. 0 # Absent /\ \A r \in Resources : 0 \in Levels(r)
    BY LevelsAssumption, LevelsAreInts
  <1>2. /\ registry' \in [Resources -> Int \cup {Absent}]
        /\ \A r \in Resources : /\ registry'[r] \in Levels(r) \cup {Absent}
                                /\ registry[r] # Absent => registry'[r] # Absent
    BY <1>1 DEF TypeInv, TypeOK, Register
  <1>3. mote' \in [Motes -> {"registering", "serving", "off"}]
    BY DEF TypeInv, TypeOK, Register
  <1>4. doubt' \in [Resources -> BOOLEAN]
    BY DEF Register
  <1>5. UNCHANGED <<actual, mode, zone, acu, call, faults>>
    BY DEF Register
  <1>6. TypeOK'
    BY <1>2, <1>3, <1>4, <1>5 DEF TypeInv, TypeOK, Levels
  <1>7. CallsOK' /\ CycleOK'
    BY <1>2, <1>5 DEF TypeInv, CallsOK, CycleOK, Busy, Levels
  <1> QED BY <1>6, <1>7 DEF TypeInv

LEMMA DownKeepsType ==
    ASSUME TypeInv, NEW m \in Motes, Reboot(m) \/ Crash(m)
    PROVE  TypeInv'
  <1>1. PICK next \in {"registering", "off"} : Down(m, next)
    BY DEF Reboot, Crash
  <1>2. faults' \in 0..MaxFaults
    BY FaultKeepsType DEF Reboot, Crash, TypeInv
  <1>3. /\ actual' \in [Resources -> Int]
        /\ \A r \in Resources : actual'[r] \in Levels(r)
    BY <1>1, LevelsAreInts DEF TypeInv, TypeOK, Down
  <1>4. mote' \in [Motes -> {"registering", "serving", "off"}]
    BY <1>1 DEF TypeInv, TypeOK, Down
  <1>5. /\ call' \in [Threads -> Calls]
        /\ \A t \in Threads :
              /\ call'[t].pc = call[t].pc /\ call'[t].res = call[t].res
              /\ call'[t].target = call[t].target /\ call'[t].reply = call[t].reply
              /\ call[t].pc = "idle" => call'[t] = call[t]
    <2>1. call \in [Threads -> Calls]
      BY DEF TypeInv, TypeOK, Calls
    <2>2. ASSUME NEW t \in Threads
          PROVE  /\ call'[t] \in {call[t], [call[t] EXCEPT !.clean = FALSE]}
                 /\ call[t].pc = "idle" => call'[t] = call[t]
      BY <1>1 DEF Down
    <2>3. call' = [t \in Threads |-> call'[t]]
      BY <1>1 DEF Down
    <2>4. ASSUME NEW t \in Threads PROVE call'[t] \in Calls
      <3>1. call[t] \in Calls
        BY <2>1
      <3>2. [call[t] EXCEPT !.clean = FALSE] \in Calls
        BY <3>1 DEF Calls
      <3> QED BY <2>2, <3>1, <3>2
    <2>5. call' \in [Threads -> Calls]
      BY <2>3, <2>4
    <2>6. ASSUME NEW t \in Threads
          PROVE  /\ call'[t].pc = call[t].pc /\ call'[t].res = call[t].res
                 /\ call'[t].target = call[t].target /\ call'[t].reply = call[t].reply
      <3>1. call[t] \in Calls
        BY <2>1
      <3> QED BY <2>2, <3>1 DEF Calls
    <2> QED BY <2>2, <2>5, <2>6
  <1>6. UNCHANGED <<registry, mode, zone, acu, doubt>>
    BY <1>1 DEF Down
  <1>7. TypeOK'
    BY <1>2, <1>3, <1>4, <1>5, <1>6 DEF TypeInv, TypeOK, Calls, Levels
  <1>8. CallsOK'
    BY <1>5, <1>6 DEF TypeInv, CallsOK, Busy, Levels
  <1>9. CycleOK'
    BY <1>5, <1>6 DEF TypeInv, CycleOK, Busy
  <1> QED BY <1>7, <1>8, <1>9 DEF TypeInv

LEMMA RestartKeepsType == ASSUME TypeInv, Restart PROVE TypeInv'
  <1>1. NoCall \in Calls /\ NoCall.pc = "idle" /\ NoCall.reply = "none"
    BY DEF NoCall, Calls
  <1>2. /\ call' \in [Threads -> Calls]
        /\ \A t \in Threads : call'[t] = NoCall
    BY <1>1 DEF Restart
  <1>3. faults' \in 0..MaxFaults
    BY FaultKeepsType DEF Restart, TypeInv
  <1>4. doubt' \in [Resources -> BOOLEAN]
    BY DEF Restart, TypeInv, TypeOK
  <1>5. TypeOK'
    BY <1>2, <1>3, <1>4 DEF TypeInv, TypeOK, Restart, IdleCycle, Zones, Calls, Levels
  <1>6. CallsOK' /\ CycleOK'
    BY <1>1, <1>2 DEF CallsOK, CycleOK, Busy, IdleCycle, Restart
  <1> QED BY <1>5, <1>6 DEF TypeInv

LEMMA ShellKeepsType == ASSUME TypeInv, Shell PROVE TypeInv'
  <1>1. CASE SetMode
    BY <1>1 DEF SetMode, TypeInv, TypeOK, CallsOK, CycleOK, Busy, Levels
  <1>2. CASE SetLevel
    <2>1. PICK g \in Registered(Gates), level \in Typed : Send("shell", g, level)
      BY <1>2 DEF SetLevel
    <2>2. g \in Resources /\ registry[g] # Absent /\ level \in Int
      BY LevelsAssumption DEF Registered, Resources
    <2>3. /\ call' \in [Threads -> Calls]
          /\ call'["shell"].pc = "waiting" /\ call'["shell"].res = g
          /\ call'["shell"].reply = "none"
          /\ \A u \in Threads \ {"shell"} :
                /\ call'[u].pc = call[u].pc /\ call'[u].res = call[u].res
                /\ call'[u].target = call[u].target /\ call'[u].reply = call[u].reply
                /\ ~On(u, g) => call'[u] = call[u]
      BY <2>1, <2>2, SendEffect DEF Calls
    <2>4. UNCHANGED <<registry, actual, mote, mode, zone, acu, doubt, faults>>
      BY <1>2 DEF SetLevel
    <2>5. TypeOK'
      BY <2>3, <2>4 DEF TypeInv, TypeOK, Calls, Levels
    <2>6. CallsOK'
      BY <2>2, <2>3, <2>4 DEF TypeInv, CallsOK, Busy, On, Levels
    <2>7. CycleOK'
      BY <2>3, <2>4 DEF TypeInv, CycleOK, Busy
    <2> QED BY <2>5, <2>6, <2>7 DEF TypeInv
  <1> QED BY <1>1, <1>2 DEF Shell

LEMMA UnitKeepsType == ASSUME TypeInv, Unit PROVE TypeInv'
  <1>1. CASE StartCycle
    BY <1>1 DEF StartCycle, TypeInv, TypeOK, CallsOK, CycleOK, Busy, Registered, Levels, Resources
  <1>2. CASE SetAlarmStatus
    <2> DEFINE level == IF acu.zone = "flood" THEN 1 ELSE 0
    <2>1. PICK a \in acu.todo : Command(a, level)
      BY <1>2 DEF SetAlarmStatus
    <2>2. level \in Int
      OBVIOUS
    <2> HIDE DEF level
    <2> QED BY <1>2, <2>1, <2>2, CommandKeepsType DEF SetAlarmStatus, Busy
  <1>3. CASE CheckMode
    <2>0. call["acu"].pc = "idle" /\ UNCHANGED <<registry, actual, mote, mode, zone, call, doubt, faults>>
      BY <1>3 DEF CheckMode
    <2>1. CASE acu' = IdleCycle
      BY <2>0, <2>1 DEF TypeInv, TypeOK, CallsOK, CycleOK, Busy, IdleCycle, Zones, Levels
    <2>2. CASE ChooseBranch
      <3>1. PICK z \in {acu.zone, zone} : \E d \in Moves(z, Steps, FULL_OPEN) :
                acu' = [pc |-> "gates", todo |-> Registered(Gates), zone |-> z, move |-> d]
        BY <2>2 DEF ChooseBranch
      <3>2. PICK d \in Moves(z, Steps, FULL_OPEN) :
                acu' = [pc |-> "gates", todo |-> Registered(Gates), zone |-> z, move |-> d]
        BY <3>1
      <3>3. z \in Zones
        BY DEF TypeInv, TypeOK
      <3>4. d \in Int
        BY <3>3, MovesAreInts
      <3> QED BY <2>0, <3>2, <3>3, <3>4 DEF TypeInv, TypeOK, CallsOK, CycleOK, Busy, Registered,
                                      Levels, Resources
    <2> QED BY <1>3, <2>1, <2>2 DEF CheckMode
  <1>4. CASE SetGateOpening
    <2>1. PICK g \in acu.todo : Command(g, Target(g))
      BY <1>4 DEF SetGateOpening
    <2>2. g \in Gates /\ registry[g] # Absent
      BY <1>4 DEF SetGateOpening, TypeInv, CycleOK
    <2>3. Target(g) \in Int
      BY <2>2, TargetLegal, LevelsAssumption DEF TypeInv
    <2> QED BY <1>4, <2>1, <2>3, CommandKeepsType DEF SetGateOpening, Busy
  <1>5. CASE EndCycle
    BY <1>5 DEF EndCycle, TypeInv, TypeOK, CallsOK, CycleOK, Busy, IdleCycle, Zones, Levels
  <1>6. CASE QueryFails
    <2>1. faults' \in 0..MaxFaults
      BY <1>6, FaultKeepsType DEF QueryFails, TypeInv
    <2> QED BY <1>6, <2>1 DEF QueryFails, TypeInv, TypeOK, CallsOK, CycleOK, Busy, IdleCycle, Zones, Levels
  <1> QED BY <1>1, <1>2, <1>3, <1>4, <1>5, <1>6 DEF Unit

LEMMA ReturnKeepsType == ASSUME TypeInv, NEW t \in Threads, Return(t) PROVE TypeInv'
  <1>1. CASE PutSucceeds(t)
    BY <1>1, AnswerKeepsType
  <1>2. CASE PutRejected(t)
    BY <1>2, AbortKeepsType DEF PutRejected, Busy, TypeInv, TypeOK
  <1>3. CASE PutTimesOut(t)
    <2>1. faults' \in 0..MaxFaults
      BY <1>3, FaultKeepsType DEF PutTimesOut, TypeInv, TypeOK
    <2> QED BY <1>3, <2>1, AbortKeepsType DEF PutTimesOut, Busy
  <1>4. CASE Store(t)
    BY <1>4, StoreKeepsType
  <1>5. CASE StoreFails(t)
    <2>1. faults' \in 0..MaxFaults
      BY <1>5, FaultKeepsType DEF StoreFails, TypeInv
    <2> QED BY <1>5, <2>1, AbortKeepsType DEF StoreFails, Busy
  <1> QED BY <1>1, <1>2, <1>3, <1>4, <1>5 DEF Return

LEMMA TypeStep == TypeInv /\ [Next]_vars => TypeInv'
  <1> SUFFICES ASSUME TypeInv, [Next]_vars PROVE TypeInv'
    OBVIOUS
  <1>1. CASE NewConditions
    BY <1>1 DEF NewConditions, TypeInv, TypeOK, CallsOK, CycleOK, Busy, Levels
  <1>2. CASE UNCHANGED vars
    BY <1>2 DEF vars, TypeInv, TypeOK, CallsOK, CycleOK, Busy, Levels
  <1> QED BY <1>1, <1>2, AnswerKeepsType, ReturnKeepsType, UnitKeepsType, ShellKeepsType, RestartKeepsType,
             DownKeepsType, RegisterKeepsType DEF Next, Mote

\* No gate and no registry entry ever leaves its range.
THEOREM TypeCorrect == Spec => []TypeOK
  <1>1. Spec => []TypeInv
    BY TypeInit, TypeStep, PTL DEF Spec
  <1> QED BY <1>1, PTL DEF TypeInv
-----------------------------------------------------------------------------
(* The coherence of the registry.  RegistryExplained speaks of resources     *)
(* nobody commands; the induction needs what holds while one is commanded:   *)
(* a command that met neither another one nor a reboot finds the registry    *)
(* and the mote in agreement until the mote obeys, and the mote at the       *)
(* commanded level from then on.                                             *)

Clean(t) == Busy(t) /\ call[t].clean

CoherenceInv ==
    /\ \A r \in Resources : mote[Host[r]] # "serving" => actual[r] = 0
    /\ \A t \in Threads, u \in Threads : t # u /\ Clean(t) => ~On(u, call[t].res)
    /\ \A t \in Threads :
           Clean(t) /\ call[t].reply = "ok" =>
               mote[Host[call[t].res]] = "serving" /\ actual[call[t].res] = call[t].target
    /\ \A t \in Threads :
           Clean(t) /\ call[t].reply # "ok" /\ mote[Host[call[t].res]] = "serving" /\ ~doubt[call[t].res] =>
               registry[call[t].res] = actual[call[t].res]
    /\ RegistryExplained

LEMMA CoherenceInit == Init => CoherenceInv
  BY SetsAssumption DEF Init, CoherenceInv, RegistryExplained, Clean, Busy, NoCall

\* Nothing the invariant speaks of changes.
LEMMA StutterKeepsCoherence ==
    ASSUME CoherenceInv, UNCHANGED <<registry, actual, mote, call, doubt>>
    PROVE  CoherenceInv'
  BY DEF CoherenceInv, RegistryExplained, Clean, Busy, On

LEMMA SendKeepsCoherence ==
    ASSUME TypeInv, CoherenceInv, NEW t \in Threads, ~Busy(t), NEW r \in Resources, NEW level \in Int,
           Send(t, r, level), UNCHANGED <<registry, actual, mote, doubt>>
    PROVE  CoherenceInv'
  <1>1. /\ call'[t].pc = "waiting" /\ call'[t].res = r /\ call'[t].reply = "none"
        /\ call'[t].clean = ~\E u \in Threads \ {t} : On(u, r)
        /\ \A u \in Threads \ {t} :
              /\ call'[u].pc = call[u].pc /\ call'[u].res = call[u].res
              /\ call'[u].target = call[u].target /\ call'[u].reply = call[u].reply
              /\ call'[u].clean = (call[u].clean /\ ~On(u, r))
              /\ ~On(u, r) => call'[u] = call[u]
    BY SendEffect
  <1>2. \A u \in Threads \ {t} : Clean(u)' => Clean(u) /\ call[u].res # r /\ call'[u] = call[u]
    BY <1>1 DEF Clean, Busy, On
  <1>3. Clean(t)' => \A u \in Threads : ~On(u, r)
    BY <1>1 DEF Clean, Busy, On
  <1>4. \A u \in Threads \ {t}, x \in Resources : On(u, x)' <=> On(u, x)
    BY <1>1 DEF On
  <1>5. \A x \in Resources : On(t, x)' <=> x = r
    BY <1>1 DEF On
  <1>6. \A u \in Threads, v \in Threads : u # v /\ Clean(u)' => ~On(v, call[u].res)'
    BY <1>1, <1>2, <1>3, <1>4, <1>5 DEF CoherenceInv, TypeInv, CallsOK, Clean, Busy, On
  <1>7. \A u \in Threads :
           Clean(u)' /\ call'[u].reply = "ok" =>
               mote[Host[call'[u].res]] = "serving" /\ actual[call'[u].res] = call'[u].target
    BY <1>1, <1>2 DEF CoherenceInv
  <1>8. \A u \in Threads :
           Clean(u)' /\ call'[u].reply # "ok" /\ mote[Host[call'[u].res]] = "serving" /\ ~doubt[call'[u].res] =>
               registry[call'[u].res] = actual[call'[u].res]
    BY <1>1, <1>2, <1>3 DEF CoherenceInv, RegistryExplained
  <1>9. RegistryExplained'
    BY <1>4, <1>5 DEF CoherenceInv, RegistryExplained, On, Busy
  <1> QED BY <1>6, <1>7, <1>8, <1>9 DEF CoherenceInv

\* What AbortKeepsCoherence and StoreKeepsCoherence share: a command ends, and
\* its resource is in doubt unless the registry and the mote agree.
LEMMA EndKeepsCoherence ==
    ASSUME TypeInv, CoherenceInv, NEW t \in Threads, Busy(t), NEW r, r = call[t].res,
           call' = [call EXCEPT ![t] = NoCall],
           UNCHANGED <<actual, mote>>,
           \A x \in Resources \ {r} : registry'[x] = registry[x] /\ doubt'[x] = doubt[x],
           ~call[t].clean => doubt'[r],
           call[t].clean /\ ~doubt'[r] /\ mote[Host[r]] = "serving" => registry'[r] = actual[r]
    PROVE  CoherenceInv'
  <1>1. r \in Resources
    BY DEF TypeInv, CallsOK
  <1>2. ~Busy(t)' /\ \A u \in Threads \ {t} : call'[u] = call[u]
    BY DEF TypeInv, TypeOK, Busy, NoCall
  <1>3. \A u \in Threads : Clean(u)' => u # t /\ Clean(u) /\ call'[u] = call[u]
    BY <1>2 DEF Clean, Busy
  <1>4. \A u \in Threads : Clean(u)' => call[u].res # r
    BY <1>3 DEF CoherenceInv, On, Busy
  <1>5. \A u \in Threads : Clean(u)' => call[u].res \in Resources
    BY <1>3 DEF TypeInv, CallsOK, Clean
  <1>6. \A u \in Threads, x \in Resources : On(u, x)' => On(u, x)
    BY <1>2 DEF On, Busy
  <1>7. \A u \in Threads, x \in Resources : x # r /\ On(u, x) => On(u, x)'
    BY <1>2 DEF On, Busy
  <1>8. \A u \in Threads, v \in Threads : u # v /\ Clean(u)' => ~On(v, call[u].res)'
    BY <1>3, <1>5, <1>6 DEF CoherenceInv, On
  <1>9. \A u \in Threads :
           Clean(u)' /\ call'[u].reply = "ok" =>
               mote[Host[call'[u].res]] = "serving" /\ actual[call'[u].res] = call'[u].target
    BY <1>3 DEF CoherenceInv
  <1>10. \A u \in Threads :
           Clean(u)' /\ call'[u].reply # "ok" /\ mote[Host[call'[u].res]] = "serving" /\ ~doubt'[call'[u].res] =>
               registry'[call'[u].res] = actual[call'[u].res]
    BY <1>3, <1>4, <1>5 DEF CoherenceInv
  <1>11. RegistryExplained'
    BY <1>1, <1>7 DEF CoherenceInv, RegistryExplained
  <1> QED BY <1>8, <1>9, <1>10, <1>11 DEF CoherenceInv

LEMMA AbortKeepsCoherence ==
    ASSUME TypeInv, CoherenceInv, NEW t \in Threads, Busy(t), Abort(t),
           UNCHANGED <<registry, actual, mote>>
    PROVE  CoherenceInv'
  <1> DEFINE r == call[t].res
             now == doubt[r] \/ ~call[t].clean \/ call[t].reply = "ok"
  <1>1. r \in Resources
    BY DEF TypeInv, CallsOK
  <1>2. call' = [call EXCEPT ![t] = NoCall] /\ doubt' = [doubt EXCEPT ![r] = now]
    BY DEF Abort
  <1>3. doubt \in [Resources -> BOOLEAN]
    BY DEF TypeInv, TypeOK
  <1>4. doubt'[r] <=> now
    BY <1>1, <1>2, <1>3
  <1>5. \A x \in Resources \ {r} : registry'[x] = registry[x] /\ doubt'[x] = doubt[x]
    BY <1>2, <1>3
  <1>6. call[t].clean /\ ~doubt'[r] /\ mote[Host[r]] = "serving" => registry'[r] = actual[r]
    BY <1>4 DEF CoherenceInv, Clean
  <1>7. ~call[t].clean => doubt'[r]
    BY <1>4
  <1> HIDE DEF r
  <1> QED BY <1>2, <1>5, <1>6, <1>7, EndKeepsCoherence DEF r

LEMMA StoreKeepsCoherence ==
    ASSUME TypeInv, CoherenceInv, NEW t \in Threads, Store(t)
    PROVE  CoherenceInv'
  <1> DEFINE r == call[t].res
  <1>1. r \in Resources /\ Busy(t) /\ call[t].reply = "ok" /\ call[t] \in Calls
    BY DEF TypeInv, TypeOK, CallsOK, Busy, Store, Calls
  <1>2. /\ call' = [call EXCEPT ![t] = NoCall] /\ doubt' = [doubt EXCEPT ![r] = ~call[t].clean]
        /\ registry' = [registry EXCEPT ![r] = call[t].target]
        /\ UNCHANGED <<actual, mote>>
    BY DEF Store
  <1>3. doubt \in [Resources -> BOOLEAN] /\ registry \in [Resources -> Int \cup {Absent}]
    BY DEF TypeInv, TypeOK
  <1>4. doubt'[r] = ~call[t].clean /\ registry'[r] = call[t].target
    BY <1>1, <1>2, <1>3
  <1>5. \A x \in Resources \ {r} : registry'[x] = registry[x] /\ doubt'[x] = doubt[x]
    BY <1>2, <1>3
  <1>6. call[t].clean /\ ~doubt'[r] /\ mote[Host[r]] = "serving" => registry'[r] = actual[r]
    BY <1>1, <1>4 DEF CoherenceInv, Clean
  <1>7. ~call[t].clean => doubt'[r]
    BY <1>4
  <1> HIDE DEF r
  <1> QED BY <1>1, <1>2, <1>5, <1>6, <1>7, EndKeepsCoherence DEF r

LEMMA AnswerKeepsCoherence ==
    ASSUME TypeInv, CoherenceInv, NEW t \in Threads, Answer(t) \/ PutSucceeds(t)
    PROVE  CoherenceInv'
  <1> DEFINE r == call[t].res
  <1>1. r \in Resources /\ Busy(t) /\ call[t] \in Calls
    BY DEF TypeInv, TypeOK, CallsOK, Busy, Calls, Answer, MoteHandlesPut, MoteNotFound, PutSucceeds
  <1>2. UNCHANGED <<registry, mote, doubt>>
    BY DEF Answer, MoteHandlesPut, MoteNotFound, PutSucceeds
  <1>3. call \in [Threads -> Calls] /\ actual \in [Resources -> Int]
    BY DEF TypeInv, TypeOK, Calls
  <1>4. \/ /\ call' = [call EXCEPT ![t] = [call[t] EXCEPT !.reply = "ok"]]
           /\ mote[Host[r]] = "serving"
           /\ actual' = [actual EXCEPT ![r] = call[t].target]
        \/ /\ call' = [call EXCEPT ![t] = [call[t] EXCEPT !.reply = "bad"]]
           /\ UNCHANGED actual
           /\ call[t].reply = "ok" => call[t].target \notin Levels(r)
        \/ /\ call' = [call EXCEPT ![t] = [call[t] EXCEPT !.pc = "store"]]
           /\ UNCHANGED actual
    BY <1>3 DEF Answer, MoteHandlesPut, MoteNotFound, PutSucceeds
  <1>5. call[t].reply = "ok" => call[t].target \in Levels(r)
    BY DEF TypeInv, CallsOK
  <1>6. /\ \A u \in Threads \ {t} : call'[u] = call[u]
        /\ call'[t].res = r /\ call'[t].target = call[t].target /\ call'[t].clean = call[t].clean
        /\ Busy(t)'
    BY <1>1, <1>3, <1>4 DEF Calls, Busy, Answer, MoteHandlesPut, MoteNotFound, PutSucceeds
  <1>7. \A u \in Threads, x \in Resources : On(u, x)' <=> On(u, x)
    BY <1>1, <1>6 DEF On, Busy
  <1>8. \A u \in Threads : (Clean(u)' <=> Clean(u)) /\ call'[u].res = call[u].res /\ call'[u].target = call[u].target
    BY <1>1, <1>6 DEF Clean, Busy
  <1>9. \/ call'[t].reply = "ok" /\ mote[Host[r]] = "serving" /\ actual' = [actual EXCEPT ![r] = call[t].target]
        \/ call'[t].reply = "bad" /\ call[t].reply # "ok" /\ UNCHANGED actual
        \/ call'[t].reply = call[t].reply /\ UNCHANGED actual
    BY <1>1, <1>3, <1>4, <1>5 DEF Calls
  <1>10. actual'[r] = actual[r] \/ (actual'[r] = call[t].target /\ mote[Host[r]] = "serving")
    BY <1>1, <1>3, <1>9
  <1>11. \A x \in Resources \ {r} : actual'[x] = actual[x]
    BY <1>3, <1>9
  <1>12. \A x \in Resources : mote[Host[x]] # "serving" => actual'[x] = 0
    BY <1>10, <1>11 DEF CoherenceInv
  <1>13. \A u \in Threads, v \in Threads : u # v /\ Clean(u)' => ~On(v, call[u].res)'
    BY <1>7, <1>8 DEF CoherenceInv, TypeInv, CallsOK, Clean
  <1>14. \A u \in Threads \ {t} : Clean(u) => call[u].res \in Resources \ {r}
    BY <1>1 DEF CoherenceInv, On, Busy, TypeInv, CallsOK, Clean
  <1>15. ASSUME NEW u \in Threads, Clean(u)', call'[u].reply = "ok"
         PROVE  mote[Host[call'[u].res]] = "serving" /\ actual'[call'[u].res] = call'[u].target
    <2>1. CASE u = t
      BY <1>1, <1>3, <1>6, <1>8, <1>9, <1>15, <2>1 DEF CoherenceInv
    <2>2. CASE u # t
      BY <1>6, <1>8, <1>11, <1>14, <1>15, <2>2 DEF CoherenceInv
    <2> QED BY <2>1, <2>2
  <1>16. ASSUME NEW u \in Threads, Clean(u)', call'[u].reply # "ok", mote[Host[call'[u].res]] = "serving",
                ~doubt[call'[u].res]
         PROVE  registry[call'[u].res] = actual'[call'[u].res]
    <2>1. CASE u = t
      BY <1>6, <1>8, <1>9, <1>16, <2>1 DEF CoherenceInv
    <2>2. CASE u # t
      BY <1>6, <1>8, <1>11, <1>14, <1>16, <2>2 DEF CoherenceInv
    <2> QED BY <2>1, <2>2
  <1>17. RegistryExplained'
    <2>1. On(t, r)
      BY <1>1 DEF On, Busy
    <2> QED BY <1>2, <1>7, <1>11, <2>1 DEF CoherenceInv, RegistryExplained
  <1> QED BY <1>2, <1>12, <1>13, <1>15, <1>16, <1>17 DEF CoherenceInv

LEMMA RegisterKeepsCoherence ==
    ASSUME TypeInv, CoherenceInv, NEW m \in Motes, Register(m)
    PROVE  CoherenceInv'
  <1>1. /\ mote[m] = "registering"
        /\ UNCHANGED <<actual, call>>
        /\ \A x \in Resources : Host[x] = m => registry'[x] = 0 /\ actual[x] = 0
        /\ \A x \in Resources : Host[x] # m =>
               registry'[x] = registry[x] /\ doubt'[x] = doubt[x] /\ mote'[Host[x]] = mote[Host[x]]
        /\ \A x \in Resources : mote[Host[x]] = "serving" => Host[x] # m
        /\ \A x \in Resources : mote'[Host[x]] # "serving" => mote[Host[x]] # "serving"
    BY SetsAssumption DEF Register, CoherenceInv, TypeInv, TypeOK
  <1>2. \A t \in Threads : Clean(t) => call[t].res \in Resources
    BY DEF TypeInv, CallsOK, Clean
  <1>3. RegistryExplained'
    BY <1>1 DEF CoherenceInv, RegistryExplained, On
  <1>4. \A t \in Threads : /\ Clean(t)' <=> Clean(t)
                             /\ \A x \in Resources : On(t, x)' <=> On(t, x)
    BY <1>1 DEF Clean, Busy, On
  <1>5. \A x \in Resources : mote'[Host[x]] # "serving" => actual'[x] = 0
    BY <1>1 DEF CoherenceInv
  <1>6. \A t \in Threads, u \in Threads : t # u /\ Clean(t)' => ~On(u, call[t].res)'
    BY <1>1, <1>4 DEF CoherenceInv, On
  <1>7. ASSUME NEW t \in Threads, Clean(t)
        PROVE  /\ call[t].reply = "ok" =>
                     mote'[Host[call[t].res]] = "serving" /\ actual[call[t].res] = call[t].target
               /\ call[t].reply # "ok" /\ mote'[Host[call[t].res]] = "serving" /\ ~doubt'[call[t].res] =>
                     registry'[call[t].res] = actual[call[t].res]
    BY <1>1, <1>2, <1>7 DEF CoherenceInv
  <1> QED BY <1>1, <1>3, <1>4, <1>5, <1>6, <1>7 DEF CoherenceInv

LEMMA DownKeepsCoherence ==
    ASSUME TypeInv, CoherenceInv, NEW m \in Motes, Reboot(m) \/ Crash(m)
    PROVE  CoherenceInv'
  <1>1. PICK next \in {"registering", "off"} : Down(m, next)
    BY DEF Reboot, Crash
  <1>2. /\ UNCHANGED <<registry, doubt>>
        /\ \A x \in Resources : Host[x] = m => actual'[x] = 0 /\ mote'[Host[x]] # "serving"
        /\ \A x \in Resources : Host[x] # m => actual'[x] = actual[x] /\ mote'[Host[x]] = mote[Host[x]]
    BY <1>1, SetsAssumption DEF Down, TypeInv, TypeOK
  <1>3. call \in [Threads -> Calls]
    BY DEF TypeInv, TypeOK, Calls
  <1>4. ASSUME NEW t \in Threads
        PROVE  /\ Clean(t)' => Clean(t) /\ call'[t] = call[t] /\ call[t].res \in Resources /\ Host[call[t].res] # m
               /\ \A x \in Resources : On(t, x)' <=> On(t, x)
    <2>1. call[t] \in Calls
      BY <1>3
    <2>2. CASE Busy(t) /\ Host[call[t].res] = m
      <3>1. call'[t] = [call[t] EXCEPT !.clean = FALSE]
        BY <1>1, <2>2 DEF Down, Busy
      <3> QED BY <2>1, <3>1 DEF Calls, Clean, On, Busy
    <2>3. CASE ~(Busy(t) /\ Host[call[t].res] = m)
      <3>1. call'[t] = call[t]
        BY <1>1, <2>3 DEF Down, Busy
      <3> QED BY <2>3, <3>1 DEF Clean, On, Busy, TypeInv, CallsOK
    <2> QED BY <2>2, <2>3
  <1>5. RegistryExplained'
    BY <1>2, <1>4 DEF CoherenceInv, RegistryExplained
  <1>6. \A x \in Resources : mote'[Host[x]] # "serving" => actual'[x] = 0
    BY <1>2 DEF CoherenceInv
  <1>7. \A t \in Threads, u \in Threads : t # u /\ Clean(t)' => ~On(u, call[t].res)'
    BY <1>4 DEF CoherenceInv
  <1> QED BY <1>2, <1>4, <1>5, <1>6, <1>7 DEF CoherenceInv

LEMMA RestartKeepsCoherence == ASSUME TypeInv, CoherenceInv, Restart PROVE CoherenceInv'
  <1>1. \A t \in Threads : ~Busy(t)' /\ ~Clean(t)'
    BY DEF Restart, NoCall, Busy, Clean
  <1>2. UNCHANGED <<registry, actual, mote>>
    BY DEF Restart
  <1>3. ASSUME NEW r \in Resources, mote[Host[r]] = "serving", ~doubt'[r]
        PROVE  registry[r] = actual[r]
    <2>1. ~doubt[r] /\ \A t \in Threads : On(t, r) => call[t].clean /\ call[t].reply # "ok"
      BY <1>3 DEF Restart
    <2>2. CASE \E t \in Threads : On(t, r)
      BY <1>3, <2>1, <2>2 DEF CoherenceInv, On, Clean, Busy
    <2>3. CASE \A t \in Threads : ~On(t, r)
      BY <1>3, <2>1, <2>3 DEF CoherenceInv, RegistryExplained
    <2> QED BY <2>2, <2>3
  <1>4. RegistryExplained'
    BY <1>2, <1>3 DEF RegistryExplained
  <1> QED BY <1>1, <1>2, <1>4 DEF CoherenceInv

LEMMA CoherenceStep == TypeInv /\ CoherenceInv /\ [Next]_vars => CoherenceInv'
  <1> SUFFICES ASSUME TypeInv, CoherenceInv, [Next]_vars PROVE CoherenceInv'
    OBVIOUS
  <1>1. ASSUME NEW t \in Threads, Return(t) PROVE CoherenceInv'
    <2>1. CASE PutRejected(t) \/ PutTimesOut(t) \/ StoreFails(t)
      BY <2>1, AbortKeepsCoherence DEF PutRejected, PutTimesOut, StoreFails, Busy
    <2> QED BY <1>1, <2>1, AnswerKeepsCoherence, StoreKeepsCoherence DEF Return
  <1>2. ASSUME NEW r \in acu.todo, NEW level \in Int, Command(r, level), ~Busy("acu"),
               UNCHANGED <<registry, actual, mote, doubt>>
        PROVE  CoherenceInv'
    <2>1. r \in Resources
      BY DEF TypeInv, CycleOK
    <2>2. CASE UNCHANGED call
      BY <1>2, <2>2, StutterKeepsCoherence
    <2>3. CASE Send("acu", r, level)
      BY <1>2, <2>1, <2>3, SendKeepsCoherence
    <2> QED BY <1>2, <2>2, <2>3 DEF Command
  <1>3. CASE SetAlarmStatus
    <2> DEFINE level == IF acu.zone = "flood" THEN 1 ELSE 0
    <2>1. PICK a \in acu.todo : Command(a, level)
      BY <1>3 DEF SetAlarmStatus
    <2>2. level \in Int
      OBVIOUS
    <2> HIDE DEF level
    <2> QED BY <1>2, <1>3, <2>1, <2>2 DEF SetAlarmStatus, Busy
  <1>4. CASE SetGateOpening
    <2>1. PICK g \in acu.todo : Command(g, Target(g))
      BY <1>4 DEF SetGateOpening
    <2>2. g \in Gates /\ registry[g] # Absent
      BY <1>4 DEF SetGateOpening, TypeInv, CycleOK
    <2>3. Target(g) \in Int
      BY <2>2, TargetLegal, LevelsAssumption DEF TypeInv
    <2> QED BY <1>2, <1>4, <2>1, <2>3 DEF SetGateOpening, Busy
  <1>5. CASE SetLevel
    <2>1. PICK g \in Registered(Gates), level \in Typed : Send("shell", g, level)
      BY <1>5 DEF SetLevel
    <2>2. g \in Resources /\ level \in Int
      BY LevelsAssumption DEF Registered, Resources
    <2> QED BY <1>5, <2>1, <2>2, SendKeepsCoherence DEF SetLevel, Busy
  <1>6. CASE StartCycle \/ CheckMode \/ EndCycle \/ QueryFails \/ SetMode \/ NewConditions \/ UNCHANGED vars
    BY <1>6, StutterKeepsCoherence
       DEF StartCycle, CheckMode, EndCycle, QueryFails, SetMode, NewConditions, vars
  <1> QED BY <1>1, <1>3, <1>4, <1>5, <1>6, AnswerKeepsCoherence, RestartKeepsCoherence,
             DownKeepsCoherence, RegisterKeepsCoherence
          DEF Next, Unit, Shell, Mote

LEMMA Invariants == Spec => [](TypeInv /\ CoherenceInv)
  BY TypeInit, TypeStep, CoherenceInit, CoherenceStep, PTL DEF Spec

\* The registry disagrees with a serving mote only about resources in doubt.
THEOREM Coherent == Spec => []RegistryExplained
  <1>1. CoherenceInv => RegistryExplained
    BY DEF CoherenceInv
  <1> QED BY <1>1, Invariants, PTL
-----------------------------------------------------------------------------
(* The operator's gates.                                                     *)

\* Unless the mote goes down, a level changes only when the mote handles a
\* command for it, and then to the level commanded.
LEMMA CommandsMoveGates ==
    ASSUME TypeInv, CoherenceInv, [Next]_vars, NEW r \in Resources, actual'[r] # actual[r],
           mote'[Host[r]] = mote[Host[r]]
    PROVE  /\ mote[Host[r]] = "serving"
           /\ \E t \in Threads : On(t, r) /\ actual'[r] = call[t].target
  <1>1. ASSUME NEW t \in Threads, MoteHandlesPut(t)
        PROVE  mote[Host[r]] = "serving" /\ On(t, r) /\ actual'[r] = call[t].target
    <2>1. actual \in [Resources -> Int] /\ call[t].pc = "waiting"
      BY <1>1 DEF MoteHandlesPut, TypeInv, TypeOK
    <2>2. actual' = [actual EXCEPT ![call[t].res] = call[t].target]
      BY <1>1 DEF MoteHandlesPut
    <2> QED BY <1>1, <2>1, <2>2 DEF On, MoteHandlesPut
  <1>2. ASSUME NEW m \in Motes, Reboot(m) \/ Crash(m) PROVE FALSE
    <2>1. PICK next \in {"registering", "off"} : Down(m, next)
      BY <1>2 DEF Reboot, Crash
    <2>2. Host[r] = m
      BY <2>1 DEF Down, TypeInv, TypeOK
    <2>3. mote'[m] # "serving"
      BY <2>1 DEF Down, TypeInv, TypeOK
    <2>4. actual'[r] = 0
      BY <2>1, <2>2 DEF Down
    <2>5. mote[m] = "serving"
      BY <2>2, <2>4 DEF CoherenceInv
    <2> QED BY <2>2, <2>3, <2>5
  <1>3. UNCHANGED actual => FALSE
    OBVIOUS
  <1>4. ASSUME NEW t \in Threads, MoteNotFound(t) \/ Return(t) PROVE UNCHANGED actual
    BY <1>4 DEF MoteNotFound, Return, PutSucceeds, PutRejected, PutTimesOut, Store, StoreFails
  <1>5. ASSUME Unit \/ Shell \/ Restart \/ NewConditions \/ UNCHANGED vars PROVE UNCHANGED actual
    BY <1>5 DEF Unit, StartCycle, SetAlarmStatus, CheckMode, SetGateOpening, EndCycle, QueryFails, Shell,
                SetLevel, SetMode, Restart, NewConditions, vars
  <1>6. ASSUME NEW m \in Motes, Register(m) PROVE UNCHANGED actual
    BY <1>6 DEF Register
  <1> QED BY <1>1, <1>2, <1>3, <1>4, <1>5, <1>6 DEF Next, Answer, Mote

\* In MANUAL mode, outside the cycle's work on the gates, a gate moves only on
\* the operator's command or because its mote goes down.
THEOREM OperatorCommands == Spec => OperatorsGateStands
  <1>1. ASSUME TypeInv, CoherenceInv, [Next]_vars
        PROVE  \A g \in Gates :
                   mode = "MANUAL" /\ acu.pc # "gates" /\ actual'[g] # actual[g]
                       => On("shell", g) \/ mote'[Host[g]] # mote[Host[g]]
    <2> SUFFICES ASSUME NEW g \in Gates, acu.pc # "gates", actual'[g] # actual[g],
                        mote'[Host[g]] = mote[Host[g]]
                 PROVE  On("shell", g)
      OBVIOUS
    <2>1. PICK t \in Threads : On(t, g)
      BY <1>1, CommandsMoveGates DEF Resources
    <2>2. ~On("acu", g)
      BY <1>1, SetsAssumption DEF TypeInv, TypeOK, CycleOK, On, Busy
    <2> QED BY <2>1, <2>2
  <1>2. TypeInv /\ CoherenceInv /\ [Next]_vars =>
          [\A g \in Gates :
              mode = "MANUAL" /\ acu.pc # "gates" /\ actual'[g] # actual[g]
                  => On("shell", g) \/ mote'[Host[g]] # mote[Host[g]]]_vars
    BY <1>1
  <1> QED BY <1>2, Invariants, PTL DEF Spec, OperatorsGateStands
-----------------------------------------------------------------------------
(* The unit's commands.  The command under way is the one the cycle has      *)
(* decided on, although zone and registry go on changing meanwhile.          *)

ErrandInv ==
    acu.pc = "gates" /\ Busy("acu") =>
        /\ acu.zone = "flood" => call["acu"].target = FULL_OPEN
        /\ acu.zone # "flood" /\ call["acu"].res \in Emergency => call["acu"].target = 0

\* The unit and its command left alone, the command's progress apart.
LEMMA SameErrand ==
    ASSUME ErrandInv, acu' = acu, call'["acu"].target = call["acu"].target,
           call'["acu"].res = call["acu"].res, Busy("acu")' => Busy("acu")
    PROVE  ErrandInv'
  BY DEF ErrandInv

LEMMA NoErrand == ASSUME acu'.pc # "gates" \/ ~Busy("acu")' PROVE ErrandInv'
  BY DEF ErrandInv

LEMMA ErrandStep == TypeInv /\ TypeInv' /\ ErrandInv /\ [Next]_vars => ErrandInv'
  <1> SUFFICES ASSUME TypeInv, TypeInv', ErrandInv, [Next]_vars PROVE ErrandInv'
    OBVIOUS
  <1>0. call \in [Threads -> Calls] /\ call["acu"] \in Calls
    BY DEF TypeInv, TypeOK, Calls
  <1>1. ASSUME NEW t \in Threads, Answer(t) \/ PutSucceeds(t) PROVE ErrandInv'
    <2>1. \/ call' = [call EXCEPT ![t] = [call[t] EXCEPT !.reply = "ok"]]
          \/ call' = [call EXCEPT ![t] = [call[t] EXCEPT !.reply = "bad"]]
          \/ call' = [call EXCEPT ![t] = [call[t] EXCEPT !.pc = "store"]]
      BY <1>0, <1>1 DEF Answer, MoteHandlesPut, MoteNotFound, PutSucceeds
    <2>2. acu' = acu /\ Busy(t)
      BY <1>1 DEF Answer, MoteHandlesPut, MoteNotFound, PutSucceeds, Busy
    <2>3. call'["acu"].target = call["acu"].target /\ call'["acu"].res = call["acu"].res
      BY <1>0, <2>1 DEF Calls
    <2>4. Busy("acu")' => Busy("acu")
      BY <1>0, <2>1, <2>2 DEF Busy
    <2> QED BY <2>2, <2>3, <2>4, SameErrand
  <1>2. ASSUME NEW t \in Threads, PutRejected(t) \/ PutTimesOut(t) \/ StoreFails(t) PROVE ErrandInv'
    <2>1. Abort(t)
      BY <1>2 DEF PutRejected, PutTimesOut, StoreFails
    <2>2. CASE t = "acu"
      BY <1>0, <2>1, <2>2, NoErrand DEF Abort, IdleCycle
    <2>3. CASE t # "acu"
      <3>1. acu' = acu /\ call'["acu"] = call["acu"]
        BY <1>0, <2>1, <2>3 DEF Abort
      <3> QED BY <3>1, SameErrand DEF Busy
    <2> QED BY <2>2, <2>3
  <1>3. ASSUME NEW t \in Threads, Store(t) PROVE ErrandInv'
    <2>1. CASE t = "acu"
      BY <1>0, <1>3, <2>1, NoErrand DEF Store, NoCall, Busy
    <2>2. CASE t # "acu"
      <3>1. acu' = acu /\ call'["acu"] = call["acu"]
        BY <1>0, <1>3, <2>2 DEF Store
      <3> QED BY <3>1, SameErrand DEF Busy
    <2> QED BY <2>1, <2>2
  <1>4. CASE SetGateOpening
    <2>1. PICK g \in acu.todo : Command(g, Target(g))
      BY <1>4 DEF SetGateOpening
    <2>2. g \in Gates /\ g \in Resources /\ registry[g] # Absent /\ ~Busy("acu")
      BY <1>4 DEF SetGateOpening, TypeInv, CycleOK, Resources, Busy
    <2>3. acu'.zone = acu.zone /\ acu'.pc = acu.pc
      BY <2>1 DEF Command, TypeInv, TypeOK
    <2>4. CASE UNCHANGED call
      BY <2>2, <2>4, NoErrand DEF Busy
    <2>5. CASE Send("acu", g, Target(g))
      <3>1. Target(g) \in Int
        BY <2>2, TargetLegal, LevelsAssumption DEF TypeInv
      <3>2. call'["acu"].target = Target(g) /\ call'["acu"].res = g
        BY <2>2, <2>5, <3>1, SendEffect
      <3> QED BY <2>3, <3>2 DEF ErrandInv, Target
    <2> QED BY <2>1, <2>4, <2>5 DEF Command
  <1>5. CASE StartCycle \/ CheckMode \/ EndCycle \/ QueryFails \/ Restart
    <2>1. ~Busy("acu")'
      BY <1>5 DEF StartCycle, CheckMode, EndCycle, QueryFails, Restart, Busy, NoCall, TypeInv, CycleOK
    <2> QED BY <2>1, NoErrand
  <1>6. CASE SetAlarmStatus
    <2>1. acu'.pc = "alarms"
      BY <1>6 DEF SetAlarmStatus, Command, TypeInv, TypeOK
    <2> QED BY <2>1, NoErrand
  <1>7. CASE SetLevel
    <2>1. PICK g \in Registered(Gates), level \in Typed : Send("shell", g, level)
      BY <1>7 DEF SetLevel
    <2>2. g \in Resources /\ level \in Int
      BY LevelsAssumption DEF Registered, Resources
    <2>3. /\ call'["acu"].pc = call["acu"].pc /\ call'["acu"].res = call["acu"].res
          /\ call'["acu"].target = call["acu"].target
      BY <2>1, <2>2, SendEffect
    <2> QED BY <1>7, <2>3, SameErrand DEF SetLevel, Busy
  <1>8. ASSUME NEW m \in Motes, Reboot(m) \/ Crash(m) PROVE ErrandInv'
    <2>1. PICK next \in {"registering", "off"} : Down(m, next)
      BY <1>8 DEF Reboot, Crash
    <2>2. call'["acu"] \in {call["acu"], [call["acu"] EXCEPT !.clean = FALSE]} /\ acu' = acu
      BY <2>1 DEF Down
    <2>3. /\ call'["acu"].pc = call["acu"].pc /\ call'["acu"].res = call["acu"].res
          /\ call'["acu"].target = call["acu"].target
      BY <1>0, <2>2 DEF Calls
    <2> QED BY <2>2, <2>3, SameErrand DEF Busy
  <1>9. CASE \/ SetMode \/ NewConditions \/ UNCHANGED vars
             \/ \E m \in Motes : Register(m)
    BY <1>9, SameErrand DEF SetMode, NewConditions, Register, vars, Busy
  <1> QED BY <1>1, <1>2, <1>3, <1>4, <1>5, <1>6, <1>7, <1>8, <1>9
          DEF Next, Return, Unit, Shell, Mote

LEMMA ErrandsCorrect == Spec => []ErrandInv
  <1>1. Init => ErrandInv
    BY DEF Init, ErrandInv, IdleCycle
  <1> QED BY <1>1, ErrandStep, Invariants, PTL DEF Spec

\* A gate the unit moves is moved by the decided step from where it is, in a
\* flood opened whatever the registry says, and an emergency gate closed
\* outside a flood.
THEOREM MovesAsDecided == Spec => UnitMovesAsDecided
  <1> DEFINE Decided(g) ==
          IF acu.zone = "flood" THEN actual'[g] = FULL_OPEN
          ELSE IF g \in Emergency THEN actual'[g] = 0
          ELSE call["acu"].clean /\ ~doubt[g] /\ call["acu"].target = Target(g)
                   => actual'[g] = Clamp(actual[g] + acu.move)
  <1>1. ASSUME TypeInv, CoherenceInv, ErrandInv, [Next]_vars, NEW g \in Gates, On("acu", g), ~On("shell", g),
               mote' = mote, actual'[g] # actual[g]
        PROVE  Decided(g)
    <2>1. g \in Resources /\ Busy("acu") /\ call["acu"].res = g
      BY <1>1 DEF Resources, On, Busy
    <2>2. acu.pc = "gates"
      BY <1>1, <2>1, SetsAssumption DEF TypeInv, TypeOK, CycleOK
    <2>3. actual'[g] = call["acu"].target
      BY <1>1, <2>1, CommandsMoveGates
    <2>4. CASE acu.zone = "flood"
      BY <1>1, <2>1, <2>2, <2>3, <2>4 DEF ErrandInv
    <2>5. CASE acu.zone # "flood" /\ g \in Emergency
      BY <1>1, <2>1, <2>2, <2>3, <2>5 DEF ErrandInv
    <2>6. ASSUME acu.zone # "flood", g \notin Emergency,
                 call["acu"].clean, ~doubt[g], call["acu"].target = Target(g)
          PROVE  actual'[g] = Clamp(actual[g] + acu.move)
      <3>1. mote[Host[g]] = "serving"
        BY <1>1, <2>1, CommandsMoveGates
      <3>2. call["acu"].reply # "ok"
        BY <1>1, <2>1, <2>3, <2>6 DEF CoherenceInv, Clean
      <3>3. registry[g] = actual[g]
        BY <1>1, <2>1, <2>6, <3>1, <3>2 DEF CoherenceInv, Clean
      <3> QED BY <2>3, <2>6, <3>3 DEF Target
    <2> QED BY <2>4, <2>5, <2>6
  <1>2. TypeInv /\ CoherenceInv /\ ErrandInv /\ [Next]_vars =>
          [\A g \in Gates :
              On("acu", g) /\ ~On("shell", g) /\ mote' = mote /\ actual'[g] # actual[g] => Decided(g)]_vars
    BY <1>1
  <1> QED BY <1>2, Invariants, ErrandsCorrect, PTL DEF Spec, UnitMovesAsDecided
-----------------------------------------------------------------------------
(* Refinement.                                                             *)

Serving == {r \in Resources : mote[Host[r]] = "serving"}

\* A command in progress does nothing to the service before the mote has it,
\* and the store only replaces a level by another.
LEMMA CallsServe ==
    ASSUME TypeInv, NEW t \in Threads, Answer(t) \/ Return(t)
    PROVE  [Service!Next]_(Service!service)
  <1> USE DEF Service!service
  <1>1. CASE MoteHandlesPut(t)
    <2>1. call[t].res \in Resources /\ mote[Host[call[t].res]] = "serving"
          /\ UNCHANGED <<registry, mote>>
      BY <1>1 DEF MoteHandlesPut, TypeInv, CallsOK, Busy
    <2>2. \/ actual' = actual
          \/ /\ call[t].target \in Levels(call[t].res)
             /\ actual' = [actual EXCEPT ![call[t].res] = call[t].target]
      BY <1>1 DEF MoteHandlesPut
    <2>3. UNCHANGED <<Registered(Resources), Serving>>
      BY <2>1 DEF Registered, Serving
    <2>4. CASE actual' = actual
      BY <2>3, <2>4 DEF Serving
    <2>5. CASE actual' # actual
      <3>1. Service!Set(call[t].res)
        BY <2>1, <2>2, <2>3, <2>5 DEF Service!Set, Serving
      <3> QED BY <3>1, <2>1 DEF Service!Next
    <2> QED BY <2>4, <2>5
  <1>2. CASE MoteNotFound(t) \/ PutSucceeds(t) \/ PutRejected(t) \/ PutTimesOut(t) \/ StoreFails(t)
    <2>1. UNCHANGED <<registry, actual, mote>>
      BY <1>2 DEF MoteNotFound, PutSucceeds, PutRejected, PutTimesOut, StoreFails
    <2> QED BY <2>1 DEF Registered
  <1>3. CASE Store(t)
    <2>1. /\ registry' = [registry EXCEPT ![call[t].res] = call[t].target]
          /\ registry[call[t].res] # Absent
          /\ call[t].target # Absent
          /\ UNCHANGED <<actual, mote>>
      BY <1>3, LevelsAssumption DEF Store, TypeInv, TypeOK, CallsOK, Busy
    <2>2. \A r \in Resources : registry'[r] # Absent <=> registry[r] # Absent
      BY <2>1 DEF TypeInv, TypeOK
    <2>3. Registered(Resources)' = Registered(Resources)
      BY <2>2 DEF Registered
    <2> QED BY <2>1, <2>3
  <1> QED BY <1>1, <1>2, <1>3 DEF Answer, Return

LEMMA MotesServe ==
    ASSUME TypeInv, NEW m \in Motes, Mote(m)
    PROVE  Service!Next
  <1> DEFINE S == {r \in Resources : Host[r] = m}
  <1>0. S \in SUBSET Resources
    OBVIOUS
  <1>1. CASE Register(m)
    <2>1. /\ mote[m] = "registering"
          /\ registry' = [r \in Resources |-> IF Host[r] = m THEN 0 ELSE registry[r]]
          /\ mote' = [mote EXCEPT ![m] = "serving"] \/ mote' = mote
          /\ actual' = actual
      BY <1>1 DEF Register
    <2>2. S \cap Serving = {}
      BY <2>1 DEF Serving
    <2>3. Registered(Resources)' = Registered(Resources) \cup S
      BY <2>1, LevelsAssumption DEF Registered
    <2>4. Serving' \in {Serving, Serving \cup S}
      BY <2>1, SetsAssumption DEF Serving, TypeInv, TypeOK
    <2>5. Service!Register(S)
      BY <2>1, <2>2, <2>3, <2>4 DEF Service!Register, Serving
    <2> QED BY <1>0, <2>5 DEF Service!Next
  <1>2. CASE Reboot(m) \/ Crash(m)
    <2>1. PICK next \in {"registering", "off"} : Down(m, next)
      BY <1>2 DEF Reboot, Crash
    <2>2. /\ mote' = [mote EXCEPT ![m] = next]
          /\ actual' = [r \in Resources |-> IF Host[r] = m THEN 0 ELSE actual[r]]
          /\ registry' = registry
      BY <2>1 DEF Down
    <2>3. Serving' = Serving \ S
      BY <2>2, SetsAssumption DEF Serving, TypeInv, TypeOK
    <2>4. actual' = [r \in Resources |-> IF r \in S THEN 0 ELSE actual[r]]
      BY <2>2
    <2>5. Registered(Resources)' = Registered(Resources)
      BY <2>2 DEF Registered
    <2>6. Service!Restart(S)
      BY <2>3, <2>4, <2>5 DEF Service!Restart, Serving
    <2> QED BY <1>0, <2>6 DEF Service!Next
  <1> QED BY <1>1, <1>2 DEF Mote

\* A resource moves only while it is registered and served, to a level of its
\* scale, or closes with its mote: every step of the Controller, the Collector
\* and the motes is one of the abstract service or none of its business.
THEOREM Implements == Spec => Serves
  <1>1. Init => Service!Init
    BY SetsAssumption DEF Init, Service!Init, Registered
  <1>2. TypeInv /\ [Next]_vars => [Service!Next]_(Service!service)
    <2> SUFFICES ASSUME TypeInv, [Next]_vars PROVE [Service!Next]_(Service!service)
      OBVIOUS
    <2>1. ASSUME NEW t \in Threads, Answer(t) \/ Return(t) PROVE [Service!Next]_(Service!service)
      BY <2>1, CallsServe
    <2>2. ASSUME NEW m \in Motes, Mote(m) PROVE [Service!Next]_(Service!service)
      BY <2>2, MotesServe
    <2>3. CASE Unit \/ Shell \/ Restart \/ NewConditions \/ UNCHANGED vars
      <3>1. UNCHANGED <<registry, actual, mote>>
        BY <2>3 DEF Unit, StartCycle, SetAlarmStatus, CheckMode, SetGateOpening, EndCycle, QueryFails,
             Shell, SetLevel, SetMode, Restart, NewConditions, vars
      <3> QED BY <3>1 DEF Service!service, Registered
    <2> QED BY <2>1, <2>2, <2>3 DEF Next
  <1> QED BY <1>1, <1>2, Invariants, PTL DEF Spec, Serves, Service!Spec

\* What follows from the service holds here as well: no gate or alarm is in the
\* hands of a mote the registry does not know, none leaves its scale, and what
\* is not served is closed or off.
ServiceFacts == INSTANCE ActuatorServiceProofs WITH
    Scale <- [r \in Resources |-> Levels(r)],
    known <- Registered(Resources),
    serving <- {r \in Resources : mote[Host[r]] = "serving"},
    level <- actual

THEOREM ServiceKept == Spec => []ServiceFacts!Kept
  <1>1. \A r \in Resources : 0 \in [x \in Resources |-> Levels(x)][r]
    BY LevelsAssumption DEF Levels
  <1>2. Service!Init => ServiceFacts!Kept
    BY <1>1, ServiceFacts!KeptInit DEF Service!Init, ServiceFacts!Init
  <1>3. ServiceFacts!Kept /\ [Service!Next]_(Service!service) => ServiceFacts!Kept'
    <2>1. [Service!Next]_(Service!service) => [ServiceFacts!Next]_(ServiceFacts!service)
      BY DEF Service!Next, Service!Register, Service!Serve, Service!Restart, Service!Set, Service!service,
             ServiceFacts!Next, ServiceFacts!Register, ServiceFacts!Serve, ServiceFacts!Restart,
             ServiceFacts!Set, ServiceFacts!service
    <2> QED BY <1>1, <2>1, ServiceFacts!KeptStep
  <1> QED BY <1>2, <1>3, Implements, PTL DEF Serves, Service!Spec
=============================================================================
