------------------------- MODULE ActuatorMoteProofs --------------------------
(***************************************************************************)
(* Theorems about ActuatorMote, for every range of the openings, number of *)
(* blinks and set of requests.                                             *)
(***************************************************************************)
EXTENDS ActuatorMote, TLAPS

\* A registration is under way only in its loop, with an address written into
\* it; who is served has a row, and who is not has no timer.
Registering ==
    /\ request # "none" => pc = "registering" /\ uri # "none"
    /\ request = "created" \/ pc = "serving" => row # "absent"
    /\ pc # "serving" => listed = {}

\* The gates of another mote never move.
OthersClosed == \A g \in Gates \ Served : opening[g] = 0

\* While a gate blinks, what the last change still owes follows from the blinks
\* done and from the LED: two blinks make a flash.
Lit(g) == IF Led(g) \in lit THEN 1 ELSE 0
FlashesCounted ==
    \A g \in Gates :
        IF g \in listed THEN 2 * (Flashes - owed[g]) = (BLINKS - blinks[g]) + Lit(g)
        ELSE owed[g] = 0 /\ blinks[g] = BLINKS

MoteInv == TypeOK /\ Registering /\ OthersClosed /\ FlashesCounted /\ AlarmTells
-----------------------------------------------------------------------------
(* The operators.                                                          *)

LEMMA Blinked ==
    /\ BLINKS \in Nat /\ Flashes \in Nat
    /\ 2 * Flashes \in {BLINKS, BLINKS + 1}
  BY MoteAssumption DEF Flashes

LEMMA Leds ==
    /\ \A x \in Timers : Led(x) \in {"red", "green", "blue", "led2"}
    /\ \A g \in Gates : Led(g) # Led("alarm")
    /\ \A g, h \in Gates : g # h => Led(g) # Led(h)
    /\ Led("alarm") = "red"
    /\ ReadyLed \in {"green", "led2"}
  BY DEF Led, Timers, Gates, ReadyLed

LEMMA SomeServed == Served \subseteq Timers /\ "alarm" \in Served /\ "alarm" \notin Gates
  BY DEF Served, Timers, Gates

\* The handlers accept nothing but a level of the gate, and on or off.
LEMMA Accepted ==
    ASSUME NEW req
    PROVE  OpeningLevel(req) \subseteq 0..FULL_OPEN /\ AlarmState(req) \subseteq BOOLEAN
  BY DEF OpeningLevel, AlarmState

\* The flashes owed stay between none and all.
LEMMA OwedInRange ==
    ASSUME TypeOK, FlashesCounted
    PROVE  \A g \in Gates : owed[g] \in 0..Flashes
  <1> SUFFICES ASSUME NEW g \in Gates PROVE owed[g] \in 0..Flashes
    OBVIOUS
  <1>1. owed[g] \in Int /\ blinks[g] \in 0..BLINKS
    BY DEF TypeOK
  <1>2. Lit(g) \in {0, 1}
    BY DEF Lit
  <1>3. CASE g \in listed
    <2>1. 2 * (Flashes - owed[g]) = (BLINKS - blinks[g]) + Lit(g)
      BY <1>3 DEF FlashesCounted
    <2> QED BY <1>1, <1>2, <2>1, Blinked
  <1>4. CASE g \notin listed
    BY <1>4, Blinked DEF FlashesCounted
  <1> QED BY <1>3, <1>4
-----------------------------------------------------------------------------
(* The invariant.                                                          *)

LEMMA MoteInit == Init => MoteInv
  <1> SUFFICES ASSUME Init PROVE MoteInv
    OBVIOUS
  <1>1. FULL_OPEN \in Nat /\ BLINKS \in Nat /\ MaxReboots \in Nat
    BY MoteAssumption
  <1>4. opening \in [Gates -> 0..FULL_OPEN] /\ blinks \in [Gates -> 0..BLINKS] /\ owed \in [Gates -> Int]
    BY <1>1 DEF Init
  <1>5. reboots \in 0..MaxReboots
    BY <1>1 DEF Init
  <1>2. TypeOK
    BY <1>4, <1>5 DEF Init, TypeOK
  <1>3. Registering /\ OthersClosed /\ FlashesCounted /\ AlarmTells
    BY DEF Init, Registering, OthersClosed, FlashesCounted, AlarmTells, Gates
  <1> QED BY <1>2, <1>3 DEF MoteInv

LEMMA RebootKeeps == ASSUME MoteInv, Reboot PROVE MoteInv'
  <1>0. FULL_OPEN \in Nat /\ BLINKS \in Nat /\ MaxReboots \in Nat
    BY MoteAssumption
  <1>4. opening' \in [Gates -> 0..FULL_OPEN] /\ blinks' \in [Gates -> 0..BLINKS] /\ owed' \in [Gates -> Int]
    BY <1>0 DEF Reboot
  <1>5. reboots' \in 0..MaxReboots
    BY <1>0 DEF MoteInv, TypeOK, Reboot
  <1>1. TypeOK'
    BY <1>4, <1>5 DEF MoteInv, TypeOK, Reboot
  <1>2. Registering' /\ OthersClosed' /\ AlarmTells'
    BY DEF MoteInv, Registering, OthersClosed, AlarmTells, Reboot, Gates
  <1>3. FlashesCounted'
    BY DEF FlashesCounted, Reboot
  <1> QED BY <1>1, <1>2, <1>3 DEF MoteInv

\* What the registration does not touch.
LEMMA RegistrationKeeps ==
    ASSUME MoteInv,
           NetworkChanges \/ AwaitNetwork \/ CollectorStores \/ RegistrationFails \/ RegisterAgain
    PROVE  MoteInv'
  <1>1. UNCHANGED <<board, gates, state, timers, lit, reboots>>
    BY DEF NetworkChanges, AwaitNetwork, CollectorStores, RegistrationFails, RegisterAgain
  <1>2. TypeOK'
    BY <1>1 DEF MoteInv, TypeOK, Registering, gates, timers, process,
                NetworkChanges, AwaitNetwork, CollectorStores, RegistrationFails, RegisterAgain, Post
  <1>3. Registering'
    BY <1>1 DEF MoteInv, TypeOK, Registering, timers, process,
                NetworkChanges, AwaitNetwork, CollectorStores, RegistrationFails, RegisterAgain, Post
  <1>4. OthersClosed' /\ AlarmTells'
    BY <1>1 DEF MoteInv, OthersClosed, AlarmTells, gates, timers, Served
  <1>5. FlashesCounted'
    BY <1>1 DEF MoteInv, FlashesCounted, Lit, gates, timers
  <1> QED BY <1>2, <1>3, <1>4, <1>5 DEF MoteInv

LEMMA StartServerKeeps == ASSUME MoteInv, StartServer PROVE MoteInv'
  <1>1. listed = {} /\ UNCHANGED <<board, row, gates, state, timers>>
    BY DEF MoteInv, Registering, StartServer
  <1>2. ReadyLed \in {"green", "led2"}
    BY Leds
  <1>3. TypeOK'
    BY <1>2 DEF MoteInv, TypeOK, StartServer, gates, timers
  <1>4. Registering' /\ OthersClosed' /\ AlarmTells'
    BY <1>1, <1>2 DEF MoteInv, Registering, OthersClosed, AlarmTells, StartServer, gates, timers, Served
  <1>5. FlashesCounted'
    BY <1>1 DEF MoteInv, FlashesCounted, gates, timers
  <1> QED BY <1>3, <1>4, <1>5 DEF MoteInv

LEMMA ExpireKeeps == ASSUME MoteInv, NEW x \in Timers, Expire(x) PROVE MoteInv'
  <1>1. TypeOK'
    BY DEF MoteInv, TypeOK, Expire, process, gates
  <1>2. Registering' /\ OthersClosed' /\ AlarmTells'
    BY DEF MoteInv, Registering, OthersClosed, AlarmTells, Expire, process, gates, Served
  <1>3. FlashesCounted'
    BY DEF MoteInv, FlashesCounted, Lit, Expire, gates
  <1> QED BY <1>1, <1>2, <1>3 DEF MoteInv
-----------------------------------------------------------------------------
(* Timers that blink an LED.                                               *)

LEMMA BlinkCounts ==
    ASSUME TypeOK, FlashesCounted, NEW g \in Gates, g \in listed, Blink(g)
    PROVE  /\ FlashesCounted'
           /\ blinks' \in [Gates -> 0..BLINKS]
           /\ owed' \in [Gates -> Int]
  <1>1. blinks[g] \in 0..BLINKS /\ owed[g] \in Int /\ BLINKS \in Nat /\ Flashes \in Nat
    BY Blinked DEF TypeOK
  <1>2. blinks \in [Gates -> 0..BLINKS] /\ owed \in [Gates -> Int]
    BY DEF TypeOK
  <1>3. 2 * (Flashes - owed[g]) = (BLINKS - blinks[g]) + Lit(g)
    BY DEF FlashesCounted
  <1>4. \A h \in Gates \ {g} : Led(h) # Led(g)
    BY Leds
  <1>5. CASE blinks[g] > 0 /\ Led(g) \in lit
    <2>1. /\ lit' = lit \ {Led(g)}
          /\ blinks' = [blinks EXCEPT ![g] = @ - 1]
          /\ listed' = listed \cup {g}
          /\ owed' = owed
      BY <1>5 DEF Blink, Toggle, Start
    <2>2. blinks'[g] = blinks[g] - 1 /\ \A h \in Gates \ {g} : blinks'[h] = blinks[h]
      BY <1>2, <2>1
    <2>3. Lit(g) = 1 /\ Lit(g)' = 0
      BY <1>5, <2>1 DEF Lit
    <2>4. \A h \in Gates \ {g} : Lit(h)' = Lit(h)
      BY <1>4, <2>1 DEF Lit
    <2>5. 2 * (Flashes - owed'[g]) = (BLINKS - blinks'[g]) + Lit(g)'
      BY <1>1, <1>3, <2>1, <2>2, <2>3
    <2>6. FlashesCounted'
      BY <2>1, <2>2, <2>4, <2>5 DEF FlashesCounted, Flashes
    <2>7. blinks' \in [Gates -> 0..BLINKS]
      BY <1>1, <1>2, <1>5, <2>1
    <2> QED BY <1>2, <2>1, <2>6, <2>7
  <1>6. CASE blinks[g] > 0 /\ Led(g) \notin lit
    <2>1. /\ lit' = lit \cup {Led(g)}
          /\ blinks' = [blinks EXCEPT ![g] = @ - 1]
          /\ listed' = listed \cup {g}
          /\ owed' = [owed EXCEPT ![g] = @ - 1]
      BY <1>6 DEF Blink, Toggle, Start
    <2>2. blinks'[g] = blinks[g] - 1 /\ \A h \in Gates \ {g} : blinks'[h] = blinks[h]
      BY <1>2, <2>1
    <2>3. owed'[g] = owed[g] - 1 /\ \A h \in Gates \ {g} : owed'[h] = owed[h]
      BY <1>2, <2>1
    <2>4. Lit(g) = 0 /\ Lit(g)' = 1
      BY <1>6, <2>1 DEF Lit
    <2>5. \A h \in Gates \ {g} : Lit(h)' = Lit(h)
      BY <1>4, <2>1 DEF Lit
    <2>6. 2 * (Flashes - owed'[g]) = (BLINKS - blinks'[g]) + Lit(g)'
      BY <1>1, <1>3, <2>2, <2>3, <2>4
    <2>7. FlashesCounted'
      BY <2>1, <2>2, <2>3, <2>5, <2>6 DEF FlashesCounted, Flashes
    <2>8. blinks' \in [Gates -> 0..BLINKS] /\ owed' \in [Gates -> Int]
      BY <1>1, <1>2, <1>6, <2>1
    <2> QED BY <2>7, <2>8
  <1>7. CASE ~(blinks[g] > 0)
    <2>1. /\ lit' = lit \ {Led(g)}
          /\ blinks' = [blinks EXCEPT ![g] = BLINKS]
          /\ listed' = listed \ {g}
          /\ owed' = owed
      BY <1>7 DEF Blink
    <2>2. blinks'[g] = BLINKS /\ \A h \in Gates \ {g} : blinks'[h] = blinks[h]
      BY <1>2, <2>1
    <2>3. Lit(g) \in {0, 1}
      BY DEF Lit
    <2>4. owed[g] = 0
      BY <1>1, <1>3, <1>7, <2>3, Blinked
    <2>5. \A h \in Gates \ {g} : Lit(h)' = Lit(h)
      BY <1>4, <2>1 DEF Lit
    <2>6. FlashesCounted'
      BY <2>1, <2>2, <2>4, <2>5 DEF FlashesCounted, Flashes
    <2>7. blinks' \in [Gates -> 0..BLINKS]
      BY <1>1, <1>2, <2>1
    <2> QED BY <1>2, <2>1, <2>6, <2>7
  <1> QED BY <1>5, <1>6, <1>7

LEMMA TimerEventKeeps == ASSUME MoteInv, NEW x \in Timers, TimerEvent(x) PROVE MoteInv'
  <1>1. /\ due' = due \ {x}
        /\ UNCHANGED <<board, addr, route, process, row, reboots>>
    BY DEF TimerEvent
  <1>2. CASE x \notin listed
    <2>1. UNCHANGED <<listed, armed, lit, gates, state>>
      BY <1>2 DEF TimerEvent
    <2>2. TypeOK'
      BY <1>1, <2>1 DEF MoteInv, TypeOK, process, gates
    <2>3. Registering' /\ OthersClosed' /\ AlarmTells'
      BY <1>1, <2>1 DEF MoteInv, Registering, OthersClosed, AlarmTells, process, gates, Served
    <2>4. FlashesCounted'
      BY <2>1 DEF MoteInv, FlashesCounted, Lit, gates
    <2> QED BY <2>2, <2>3, <2>4 DEF MoteInv
  <1>3. CASE x \in listed /\ x = "alarm"
    <2>1. BlinkAlarm
      BY <1>3 DEF TimerEvent
    <2>2. lit' \subseteq lit \cup {"red"} /\ \A l \in lit : l = "red" \/ l \in lit'
      BY <2>1, Leds DEF BlinkAlarm, Toggle
    <2>3. listed' = listed /\ state' = state /\ UNCHANGED gates
      BY <1>3, <2>1 DEF BlinkAlarm, Start
    <2>4. TypeOK'
      BY <1>1, <2>1, <2>2, <2>3 DEF MoteInv, TypeOK, process, gates, BlinkAlarm, Start, Timers
    <2>5. state
      BY <1>3 DEF MoteInv, AlarmTells
    <2>6. Registering' /\ OthersClosed' /\ AlarmTells'
      BY <1>1, <2>3, <2>5 DEF MoteInv, Registering, OthersClosed, AlarmTells, process, gates, Served
    <2>7. \A g \in Gates : Lit(g)' = Lit(g)
      BY <2>2, Leds DEF Lit
    <2>8. FlashesCounted'
      BY <2>3, <2>7 DEF MoteInv, FlashesCounted, gates
    <2> QED BY <2>4, <2>6, <2>8 DEF MoteInv
  <1>4. CASE x \in listed /\ x # "alarm"
    <2>1. x \in Gates /\ Blink(x)
      BY <1>4 DEF TimerEvent, Timers
    <2>2. FlashesCounted' /\ blinks' \in [Gates -> 0..BLINKS] /\ owed' \in [Gates -> Int]
      BY <1>4, <2>1, BlinkCounts DEF MoteInv
    <2>3. /\ lit' \subseteq lit \cup {Led(x)}
          /\ listed' \subseteq Timers /\ armed' \subseteq Timers
          /\ "alarm" \in listed' <=> "alarm" \in listed
          /\ opening' = opening /\ state' = state
      BY <1>4, <2>1 DEF Blink, Toggle, Start, MoteInv, TypeOK
    <2>4. Led(x) \in {"red", "green", "blue", "led2"} /\ Led(x) # "red"
      BY <2>1, Leds
    <2>5. TypeOK'
      BY <1>1, <2>2, <2>3, <2>4 DEF MoteInv, TypeOK, process
    <2>6. pc = "serving"
      BY <1>4 DEF MoteInv, Registering
    <2>7. Registering' /\ OthersClosed'
      BY <1>1, <2>3, <2>6 DEF MoteInv, Registering, OthersClosed, process, Served
    <2>8. AlarmTells'
      BY <2>3, <2>4 DEF MoteInv, AlarmTells
    <2> QED BY <2>2, <2>5, <2>7, <2>8 DEF MoteInv
  <1> QED BY <1>2, <1>3, <1>4
-----------------------------------------------------------------------------
(* The resources.                                                          *)

LEMMA PutGateKeeps == ASSUME MoteInv, NEW g \in Gates, PutGate(g) PROVE MoteInv'
  <1>1. PICK level \in 0..FULL_OPEN : SetOpening(g, level)
    BY Accepted DEF PutGate
  <1>2. /\ pc = "serving" /\ g \in Served
        /\ UNCHANGED <<board, addr, route, process, row, state, due, reboots>>
    BY DEF PutGate
  <1>3. opening' = [opening EXCEPT ![g] = level]
    BY <1>1 DEF SetOpening
  <1>4. opening \in [Gates -> 0..FULL_OPEN]
    BY DEF MoteInv, TypeOK
  <1>5. opening' \in [Gates -> 0..FULL_OPEN] /\ \A h \in Gates \ {g} : opening'[h] = opening[h]
    BY <1>3, <1>4
  <1>6. OthersClosed'
    BY <1>2, <1>5 DEF MoteInv, OthersClosed, Served
  <1>7. CASE level = opening[g]
    <2>1. UNCHANGED <<listed, armed, lit, blinks, owed>>
      BY <1>1, <1>7 DEF SetOpening
    <2>2. TypeOK'
      BY <1>2, <1>5, <2>1 DEF MoteInv, TypeOK, process
    <2>3. Registering' /\ AlarmTells'
      BY <1>2, <2>1 DEF MoteInv, Registering, AlarmTells, process
    <2>4. FlashesCounted'
      BY <2>1 DEF MoteInv, FlashesCounted, Lit
    <2> QED BY <1>6, <2>2, <2>3, <2>4 DEF MoteInv
  <1>8. CASE level # opening[g]
    <2>1. /\ listed' = listed \cup {g} /\ armed' = armed \cup {g}
          /\ lit' = lit \ {Led(g)}
          /\ blinks' = [blinks EXCEPT ![g] = BLINKS]
          /\ owed' = [owed EXCEPT ![g] = Flashes]
      BY <1>1, <1>8 DEF SetOpening, Start
    <2>2. blinks \in [Gates -> 0..BLINKS] /\ owed \in [Gates -> Int] /\ BLINKS \in Nat /\ Flashes \in Nat
      BY Blinked DEF MoteInv, TypeOK
    <2>3. blinks' \in [Gates -> 0..BLINKS] /\ owed' \in [Gates -> Int]
      BY <2>1, <2>2
    <2>4. blinks'[g] = BLINKS /\ owed'[g] = Flashes
      BY <2>1, <2>2
    <2>5. \A h \in Gates \ {g} : blinks'[h] = blinks[h] /\ owed'[h] = owed[h]
      BY <2>1, <2>2
    <2>6. Lit(g)' = 0 /\ \A h \in Gates \ {g} : Lit(h)' = Lit(h)
      BY <2>1, Leds DEF Lit
    <2>7. 2 * (Flashes - owed'[g]) = (BLINKS - blinks'[g]) + Lit(g)'
      BY <2>2, <2>4, <2>6
    <2>8. FlashesCounted'
      BY <2>1, <2>5, <2>6, <2>7 DEF MoteInv, FlashesCounted, Flashes
    <2>9. TypeOK'
      BY <1>2, <1>5, <2>1, <2>3 DEF MoteInv, TypeOK, process, Timers
    <2>10. Registering' /\ AlarmTells'
      BY <1>2, <2>1, SomeServed DEF MoteInv, Registering, AlarmTells, process
    <2> QED BY <1>6, <2>8, <2>9, <2>10 DEF MoteInv
  <1> QED BY <1>7, <1>8

LEMMA PutAlarmKeeps == ASSUME MoteInv, PutAlarm PROVE MoteInv'
  <1>1. PICK new \in BOOLEAN : SetState(new)
    BY Accepted DEF PutAlarm
  <1>2. /\ pc = "serving"
        /\ UNCHANGED <<board, addr, route, process, row, gates, due, reboots>>
    BY DEF PutAlarm
  <1>3. /\ state' \in BOOLEAN
        /\ listed' \subseteq Timers /\ armed' \subseteq Timers
        /\ lit' \subseteq lit
        /\ \A l \in lit : l = "red" \/ l \in lit'
        /\ \A g \in Gates : g \in listed' <=> g \in listed
    BY <1>1, Leds, SomeServed DEF MoteInv, TypeOK, SetState, Start, Stop, Timers
  <1>4. TypeOK'
    BY <1>2, <1>3 DEF MoteInv, TypeOK, process, gates
  <1>5. Registering' /\ OthersClosed'
    BY <1>2 DEF MoteInv, Registering, OthersClosed, process, gates, Served
  <1>6. AlarmTells'
    BY <1>1, Leds DEF MoteInv, AlarmTells, SetState, Start, Stop
  <1>7. \A g \in Gates : Lit(g)' = Lit(g)
    BY <1>3, Leds DEF Lit
  <1>8. FlashesCounted'
    BY <1>2, <1>3, <1>7 DEF MoteInv, FlashesCounted, gates
  <1> QED BY <1>4, <1>5, <1>6, <1>8 DEF MoteInv

LEMMA MoteStep == MoteInv /\ [Next]_vars => MoteInv'
  <1> SUFFICES ASSUME MoteInv, [Next]_vars PROVE MoteInv'
    OBVIOUS
  <1>1. CASE Reboot
    BY <1>1, RebootKeeps
  <1>2. CASE NetworkChanges \/ AwaitNetwork \/ CollectorStores \/ RegistrationFails \/ RegisterAgain
    BY <1>2, RegistrationKeeps
  <1>3. CASE StartServer
    BY <1>3, StartServerKeeps
  <1>4. CASE \E x \in Timers : Expire(x) \/ TimerEvent(x)
    BY <1>4, ExpireKeeps, TimerEventKeeps
  <1>5. CASE (\E g \in Gates : PutGate(g)) \/ PutAlarm
    BY <1>5, PutGateKeeps, PutAlarmKeeps
  <1>6. CASE UNCHANGED vars
    <2>1. TypeOK' /\ Registering'
      BY <1>6 DEF vars, process, gates, timers, MoteInv, TypeOK, Registering
    <2>2. OthersClosed' /\ FlashesCounted' /\ AlarmTells'
      BY <1>6 DEF vars, process, gates, timers, MoteInv, OthersClosed, FlashesCounted, AlarmTells, Lit, Served
    <2> QED BY <2>1, <2>2 DEF MoteInv
  <1> QED BY <1>1, <1>2, <1>3, <1>4, <1>5, <1>6 DEF Next

\* The variables keep their types, whatever requests arrive: no payload makes a
\* handler set a level out of range.
THEOREM TypeCorrect == Spec => []TypeOK
  <1>1. MoteInv => TypeOK
    BY DEF MoteInv
  <1> QED BY <1>1, MoteInit, MoteStep, PTL DEF Spec

\* A timer that ctimer knows is running or has posted its event: what blinks is
\* never forgotten, whichever requests arrive between an expiry and its event.
TimersRun == listed \subseteq armed \cup due

LEMMA TimersStep == TimersRun /\ [Next]_vars => TimersRun'
  <1> SUFFICES ASSUME TimersRun, [Next]_vars PROVE TimersRun'
    OBVIOUS
  <1> USE DEF TimersRun
  <1>1. CASE Reboot
    BY <1>1 DEF Reboot
  <1>2. CASE \/ NetworkChanges \/ AwaitNetwork \/ CollectorStores \/ RegistrationFails
             \/ RegisterAgain \/ StartServer \/ UNCHANGED vars
    BY <1>2 DEF NetworkChanges, AwaitNetwork, CollectorStores, RegistrationFails,
                RegisterAgain, StartServer, vars, timers
  <1>3. CASE \E x \in Timers : Expire(x)
    BY <1>3 DEF Expire
  <1>4. ASSUME NEW x \in Timers, TimerEvent(x) PROVE TimersRun'
    <2>1. due' = due \ {x}
      BY <1>4 DEF TimerEvent
    <2>2. CASE x \notin listed
      BY <1>4, <2>1, <2>2 DEF TimerEvent
    <2>3. CASE listed' = listed \cup {x} /\ armed' = armed \cup {x}
      BY <2>1, <2>3
    <2>4. CASE listed' = listed \ {x} /\ armed' = armed
      BY <2>1, <2>4
    <2> QED BY <1>4, <2>2, <2>3, <2>4 DEF TimerEvent, Blink, BlinkAlarm, Start
  <1>5. ASSUME NEW g \in Gates, PutGate(g) PROVE TimersRun'
    BY <1>5 DEF PutGate, SetOpening, Start
  <1>6. CASE PutAlarm
    BY <1>6 DEF PutAlarm, SetState, Start, Stop
  <1> QED BY <1>1, <1>2, <1>3, <1>4, <1>5, <1>6 DEF Next

\* No LED stops in the middle of its blinking: while the alarm is on, or a gate
\* owes flashes of its last change, an expiry or its event is still to come.
BlinksOn ==
    /\ state => "alarm" \in armed \cup due
    /\ \A g \in Gates : owed[g] # 0 => g \in armed \cup due

\* What blinks goes on: the alarm until it is turned off, a gate until all the
\* flashes of its last change are given.
THEOREM GoesOn == Spec => []BlinksOn
  <1>1. Init => TimersRun
    BY DEF Init, TimersRun
  <1>2. MoteInv /\ TimersRun => BlinksOn
    BY DEF MoteInv, TimersRun, BlinksOn, AlarmTells, FlashesCounted
  <1> QED BY <1>1, <1>2, TimersStep, MoteInit, MoteStep, PTL DEF Spec

\* What the registry holds of a mote that serves is what the mote wrote into its
\* last attempt, and no earlier one.
LastAttemptStands == request = "created" \/ pc = "serving" => row = uri

LEMMA LastAttemptStep == Registering /\ LastAttemptStands /\ [Next]_vars => LastAttemptStands'
  <1> SUFFICES ASSUME Registering, LastAttemptStands, [Next]_vars PROVE LastAttemptStands'
    OBVIOUS
  <1> USE DEF LastAttemptStands
  <1>1. CASE UNCHANGED <<pc, request, uri, row>>
    BY <1>1
  <1>2. CASE Reboot
    BY <1>2 DEF Reboot
  <1>3. CASE AwaitNetwork \/ RegistrationFails \/ RegisterAgain
    BY <1>3 DEF AwaitNetwork, RegistrationFails, RegisterAgain, Post, Registering
  <1>4. CASE CollectorStores
    BY <1>4 DEF CollectorStores
  <1>5. CASE StartServer
    BY <1>5 DEF StartServer
  <1>6. CASE NetworkChanges \/ UNCHANGED vars
    BY <1>1, <1>6 DEF NetworkChanges, vars, process
  <1>7. CASE \E x \in Timers : Expire(x) \/ TimerEvent(x)
    BY <1>1, <1>7 DEF Expire, TimerEvent, process
  <1>8. CASE (\E g \in Gates : PutGate(g)) \/ PutAlarm
    BY <1>1, <1>8 DEF PutGate, PutAlarm, process
  <1> QED BY <1>2, <1>3, <1>4, <1>5, <1>6, <1>7, <1>8 DEF Next

\* The safety half of CommandableInTheEnd: whatever attempts failed, and whatever
\* those that only seemed to fail have left in the registry, a mote that serves
\* is registered with the address its last attempt was sent with.
THEOREM LastAttemptCounts == Spec => []LastAttemptStands
  <1>1. Init => LastAttemptStands
    BY DEF Init, LastAttemptStands
  <1>2. MoteInv => Registering
    BY DEF MoteInv
  <1> QED BY <1>1, <1>2, LastAttemptStep, MoteInit, MoteStep, PTL DEF Spec

\* Every change of an opening is told by its flashes, for any number of blinks.
THEOREM Flashed == Spec => []BlinksThrice
  <1>1. MoteInv => BlinksThrice
    BY OwedInRange DEF MoteInv, BlinksThrice, FlashesCounted
  <1> QED BY <1>1, MoteInit, MoteStep, PTL DEF Spec

\* The alarm's LED is dark while the alarm is off, and its timer in use while
\* it is on.
THEOREM AlarmTold == Spec => []AlarmTells
  <1>1. MoteInv => AlarmTells
    BY DEF MoteInv
  <1> QED BY <1>1, MoteInit, MoteStep, PTL DEF Spec
-----------------------------------------------------------------------------
(* Refinement.                                                             *)

Scales == [x \in Timers |-> IF x = "alarm" THEN {0, 1} ELSE 0..FULL_OPEN]
Known == IF row = "absent" THEN {} ELSE Served
Serving == IF pc = "serving" THEN Served ELSE {}
Level == [x \in Timers |-> IF x = "alarm" THEN (IF state THEN 1 ELSE 0) ELSE opening[x]]

LEMMA InitServes == Init => Service!Init
  <1> SUFFICES ASSUME Init PROVE Service!Init
    OBVIOUS
  <1>1. Level = [x \in Timers |-> 0]
    BY DEF Init, Level, Timers, Gates
  <1> QED BY <1>1 DEF Init, Service!Init, Level

\* Steps that a client of the mote does not see.
LEMMA StepStutters ==
    ASSUME UNCHANGED <<board, opening, state>>,
           row' = row \/ (row # "absent" /\ row' # "absent"),
           pc' = pc \/ (pc # "serving" /\ pc' # "serving")
    PROVE  UNCHANGED Service!service
  <1>1. Level' = Level /\ Known' = Known /\ Serving' = Serving
    BY DEF Level, Known, Serving, Served
  <1> QED BY <1>1 DEF Service!service, Level, Known, Serving

LEMMA StepServes == MoteInv /\ [Next]_vars => [Service!Next]_(Service!service)
  <1> SUFFICES ASSUME MoteInv, [Next]_vars PROVE [Service!Next]_(Service!service)
    OBVIOUS
  <1>0. Served \in SUBSET Timers
    BY SomeServed
  <1>1. CASE Reboot
    <2>1. Known' = Known /\ Serving' = Serving \ Served
      BY <1>1 DEF Reboot, Known, Serving, Served
    <2>2. \A g \in Gates \ Served : opening[g] = 0
      BY DEF MoteInv, OthersClosed
    <2>3. opening' = [g \in Gates |-> 0] /\ state' = FALSE
      BY <1>1 DEF Reboot
    <2>4. Level' = [r \in Timers |-> IF r \in Served THEN 0 ELSE Level[r]]
      BY <2>2, <2>3, SomeServed DEF Level, Timers
    <2>5. PICK S \in SUBSET Timers : S = Served
      BY <1>0
    <2>6. Known' = Known /\ Serving' = Serving \ S
      BY <2>1, <2>5
    <2>7. Level' = [r \in Timers |-> IF r \in S THEN 0 ELSE Level[r]]
      BY <2>4, <2>5
    <2>8. Service!Restart(S)
      BY <2>6, <2>7 DEF Service!Restart, Level, Known, Serving
    <2> QED BY <2>5, <2>8 DEF Service!Next
  <1>2. CASE NetworkChanges \/ AwaitNetwork \/ RegistrationFails \/ RegisterAgain
    BY <1>2, StepStutters
       DEF NetworkChanges, AwaitNetwork, RegistrationFails, RegisterAgain, process, gates
  <1>3. CASE CollectorStores
    <2>1. pc # "serving" /\ row' # "absent"
      BY <1>3 DEF CollectorStores, MoteInv, Registering, TypeOK
    <2>2. Known' = Known \cup Served /\ Serving' = Serving /\ Level' = Level /\ Serving = {}
      BY <1>3, <2>1 DEF CollectorStores, Known, Serving, Level, Served, gates
    <2>3. Service!Register(Served)
      BY <2>2 DEF Service!Register, Level, Known, Serving
    <2> QED BY <1>0, <2>3 DEF Service!Next
  <1>4. CASE StartServer
    <2>1. row # "absent"
      BY <1>4 DEF StartServer, MoteInv, Registering
    <2>2. Known' = Known /\ Known = Served /\ Serving' = Serving \cup Served /\ Level' = Level
      BY <1>4, <2>1 DEF StartServer, Known, Serving, Level, Served, gates
    <2>3. Service!Serve(Served)
      BY <2>2 DEF Service!Serve, Level, Known, Serving
    <2> QED BY <1>0, <2>3 DEF Service!Next
  <1>5. CASE \E x \in Timers : Expire(x) \/ TimerEvent(x)
    <2>1. UNCHANGED <<board, row, pc, opening, state>>
      BY <1>5 DEF Expire, TimerEvent, BlinkAlarm, Blink, process, gates
    <2> QED BY <2>1, StepStutters
  <1>6. CASE \E g \in Gates : PutGate(g)
    <2>1. PICK g \in Gates : PutGate(g)
      BY <1>6
    <2>2. PICK level \in 0..FULL_OPEN : SetOpening(g, level)
      BY <2>1, Accepted DEF PutGate
    <2>3. /\ g \in Serving /\ g \in Timers /\ g # "alarm"
          /\ Known' = Known /\ Serving' = Serving
      BY <2>1, SomeServed DEF PutGate, Known, Serving, Served, process
    <2>4. opening' = [opening EXCEPT ![g] = level] /\ state' = state
      BY <2>1, <2>2 DEF PutGate, SetOpening
    <2>5. opening \in [Gates -> 0..FULL_OPEN]
      BY DEF MoteInv, TypeOK
    <2>6. Level' = [Level EXCEPT ![g] = level]
      BY <2>3, <2>4, <2>5 DEF Level, Timers
    <2>7. level \in Scales[g]
      BY <2>3 DEF Scales
    <2>8. Service!Set(g)
      BY <2>3, <2>6, <2>7 DEF Service!Set, Scales, Level, Known, Serving
    <2> QED BY <2>3, <2>8 DEF Service!Next
  <1>7. CASE PutAlarm
    <2>1. PICK new \in BOOLEAN : SetState(new)
      BY <1>7, Accepted DEF PutAlarm
    <2>2. /\ "alarm" \in Serving /\ "alarm" \in Timers
          /\ Known' = Known /\ Serving' = Serving
      BY <1>7, SomeServed DEF PutAlarm, Known, Serving, Served, process
    <2>3. opening' = opening /\ state' = new
      BY <1>7, <2>1 DEF PutAlarm, SetState, gates
    <2>4. PICK level \in {0, 1} : level = (IF new THEN 1 ELSE 0)
      OBVIOUS
    <2>5. Level' = [Level EXCEPT !["alarm"] = level]
      BY <2>2, <2>3, <2>4 DEF Level
    <2>6. level \in Scales["alarm"]
      BY <2>2, <2>4 DEF Scales
    <2>7. Service!Set("alarm")
      BY <2>2, <2>5, <2>6 DEF Service!Set, Scales, Level, Known, Serving
    <2> QED BY <2>2, <2>7 DEF Service!Next
  <1>8. CASE UNCHANGED vars
    BY <1>8, StepStutters DEF vars, process, gates
  <1> QED BY <1>1, <1>2, <1>3, <1>4, <1>5, <1>6, <1>7, <1>8 DEF Next

\* Every behaviour of a mote is one of the service the rest of the system
\* relies on, whatever the board, the network and the requests.
THEOREM Implements == Spec => Serves
  BY InitServes, StepServes, MoteInit, MoteStep, PTL DEF Spec, Serves, Service!Spec

\* What follows from the service holds of the firmware: a mote that does not
\* serve, because it has rebooted or is not registered yet, has every gate
\* closed and its alarm off, and the gates of other motes stay closed.
ServiceFacts == INSTANCE ActuatorServiceProofs WITH
    Resources <- Timers,
    Scale <- [x \in Timers |-> IF x = "alarm" THEN {0, 1} ELSE 0..FULL_OPEN],
    known <- IF row = "absent" THEN {} ELSE Served,
    serving <- IF pc = "serving" THEN Served ELSE {},
    level <- [x \in Timers |-> IF x = "alarm" THEN (IF state THEN 1 ELSE 0) ELSE opening[x]]

THEOREM ServiceKept == Spec => []ServiceFacts!Kept
  <1>1. \A r \in Timers : 0 \in [x \in Timers |-> IF x = "alarm" THEN {0, 1} ELSE 0..FULL_OPEN][r]
    BY MoteAssumption
  <1>2. Service!Init => ServiceFacts!Kept
    BY <1>1, ServiceFacts!KeptInit DEF Service!Init, ServiceFacts!Init
  <1>3. ServiceFacts!Kept /\ [Service!Next]_(Service!service) => ServiceFacts!Kept'
    <2>1. [Service!Next]_(Service!service) => [ServiceFacts!Next]_(ServiceFacts!service)
      BY DEF Service!Next, Service!Register, Service!Serve, Service!Restart, Service!Set, Service!service,
             ServiceFacts!Next, ServiceFacts!Register, ServiceFacts!Serve, ServiceFacts!Restart,
             ServiceFacts!Set, ServiceFacts!service
    <2> QED BY <1>1, <2>1, ServiceFacts!KeptStep
  <1> QED BY <1>2, <1>3, Implements, PTL DEF Serves, Service!Spec
=============================================================================
