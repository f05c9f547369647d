---------------------------- MODULE ActuatorMote -----------------------------
(***************************************************************************)
(* An actuator mote: registration with the Collector (gate-controller.c    *)
(* and the demonstration board mote-1.c), the gates and the alarm it then  *)
(* serves (res-gate.c, res-alarm.c), and the timers that blink their LEDs. *)
(* Contiki-NG runs handlers and callbacks to completion, so that each is   *)
(* one step; a timer that expires only posts an event, which its handler   *)
(* meets after everything posted before it.                                *)
(***************************************************************************)
EXTENDS Payload, FiniteSets

CONSTANTS
    FULL_OPEN, BLINKS,      \* 100 and 5 in the code
    Requests,               \* the PUTs that arrive: their format and body
    MaxReboots              \* how often the mote reboots

ASSUME MoteAssumption ==
    /\ FULL_OPEN \in Nat \ {0}
    /\ BLINKS \in Nat
    /\ MaxReboots \in Nat
    /\ Requests \subseteq [format : {"none", "text", "json", "other"},
                           body : Bodies({"opening_level", "state", "other"}, Int)]

VARIABLES
    board,      \* the firmware: gate-controller with FLOW 1 or 2, or mote-1
    addr, route,    \* the mote has a global address; it has a default route
    pc,         \* where coap_br_proc is
    request,    \* the registration under way: "sent", or how it ended
    uri,        \* the address written into it: "usable", or bytes at NULL
    row,        \* the row of the registry
    opening, state,         \* gates[].opening_level, alarm.state
    blinks,     \* gates[].blinks
    listed, armed, due,     \* timers: known to ctimer, running, event posted
    lit,        \* the LEDs that are on
    owed,       \* auxiliary: flashes the last change of a gate still owes
    reboots     \* reboots so far

process == <<pc, request, uri>>
gates == <<opening, blinks, owed>>
timers == <<listed, armed, due>>
vars == <<board, addr, route, process, row, gates, state, timers, lit, reboots>>
-----------------------------------------------------------------------------
Gates == {"outflow-1", "outflow-2"}
Timers == Gates \cup {"alarm"}
Boards == {"controller-1", "controller-2", "mote-1"}

Served ==
    {"alarm"} \cup (IF board = "controller-1" THEN {"outflow-1"}
                    ELSE IF board = "controller-2" THEN {"outflow-2"} ELSE Gates)

Led(x) == IF x = "alarm" THEN "red" ELSE IF x = "outflow-1" THEN "green" ELSE "blue"
ReadyLed == IF board = "mote-1" THEN "led2" ELSE "green"
Flashes == (BLINKS + 1) \div 2

Init ==
    /\ board \in Boards
    /\ addr = FALSE /\ route = FALSE
    /\ pc = "network" /\ request = "none" /\ uri = "none"
    /\ row = "absent"
    /\ opening = [g \in Gates |-> 0] /\ state = FALSE
    /\ blinks = [g \in Gates |-> BLINKS]
    /\ listed = {} /\ armed = {} /\ due = {} /\ lit = {}
    /\ owed = [g \in Gates |-> 0]
    /\ reboots = 0

\* All but the row of the registry is lost.
Reboot ==
    /\ reboots < MaxReboots
    /\ reboots' = reboots + 1
    /\ addr' = FALSE /\ route' = FALSE
    /\ pc' = "network" /\ request' = "none" /\ uri' = "none"
    /\ opening' = [g \in Gates |-> 0] /\ state' = FALSE
    /\ blinks' = [g \in Gates |-> BLINKS]
    /\ listed' = {} /\ armed' = {} /\ due' = {} /\ lit' = {}
    /\ owed' = [g \in Gates |-> 0]
    /\ UNCHANGED <<board, row>>

\* The routing protocol finds and loses the network.
NetworkChanges ==
    /\ \/ addr' = ~addr /\ UNCHANGED route
       \/ route' = ~route /\ UNCHANGED addr
    /\ UNCHANGED <<board, process, row, gates, state, timers, lit, reboots>>
-----------------------------------------------------------------------------
(* Registration.                                                           *)

\* The firmware waits until it has an address or a route, the board until it
\* has an address.
NetworkFound == addr \/ (route /\ board # "mote-1")

\* The message is built anew for every attempt, from the address at that time.
Post ==
    /\ request' = "sent"
    /\ uri' = IF addr THEN "usable" ELSE "garbage"

AwaitNetwork ==
    /\ pc = "network"
    /\ NetworkFound
    /\ pc' = "registering"
    /\ Post
    /\ UNCHANGED <<board, addr, route, row, gates, state, timers, lit, reboots>>

\* The Collector stores the resources with their URIs and level 0.
CollectorStores ==
    /\ request = "sent"
    /\ row' = uri
    /\ request' = "created"
    /\ UNCHANGED <<board, addr, route, pc, uri, gates, state, timers, lit, reboots>>

\* The Collector cannot store them, or request or response is lost.
RegistrationFails ==
    /\ request \in {"sent", "created"}
    /\ request' = "failed"
    /\ UNCHANGED <<board, addr, route, pc, uri, row, gates, state, timers, lit, reboots>>

\* Seeded fault: the message of the first attempt sent again.
RegisterUnchanged ==
    /\ request = "failed"
    /\ request' = "sent"
    /\ UNCHANGED <<board, addr, route, pc, uri, row, gates, state, timers, lit, reboots>>

RegisterAgain ==
    /\ request = "failed"
    /\ Post
    /\ UNCHANGED <<board, addr, route, pc, row, gates, state, timers, lit, reboots>>

\* Seeded fault: the resources activated without waiting for the answer.
StartServerEarly ==
    /\ pc = "registering"
    /\ pc' = "serving"
    /\ request' = "none"
    /\ lit' = lit \cup {ReadyLed}
    /\ UNCHANGED <<board, addr, route, uri, row, gates, state, timers, reboots>>

\* handle_coap_response has the 2.01; the resources are activated.
StartServer ==
    /\ request = "created"
    /\ pc' = "serving"
    /\ request' = "none"
    /\ lit' = lit \cup {ReadyLed}
    /\ UNCHANGED <<board, addr, route, uri, row, gates, state, timers, reboots>>
-----------------------------------------------------------------------------
(* Timers: ctimer_set, ctimer_reset, ctimer_stop and the ctimer process.   *)

Start(x) == listed' = listed \cup {x} /\ armed' = armed \cup {x}
Stop(x) == listed' = listed \ {x} /\ armed' = armed \ {x}

Expire(x) ==
    /\ x \in armed
    /\ armed' = armed \ {x}
    /\ due' = due \cup {x}
    /\ UNCHANGED <<board, addr, route, process, row, gates, state, listed, lit, reboots>>

Toggle(led) == lit' = IF led \in lit THEN lit \ {led} ELSE lit \cup {led}

\* blink() of res-gate.c.
Blink(g) ==
    /\ IF blinks[g] > 0
       THEN /\ Toggle(Led(g))
            /\ blinks' = [blinks EXCEPT ![g] = @ - 1]
            /\ Start(g)
       ELSE /\ lit' = lit \ {Led(g)}
            /\ blinks' = [blinks EXCEPT ![g] = BLINKS]
            /\ listed' = listed \ {g}
            /\ UNCHANGED armed
    /\ owed' = IF Led(g) \in lit' \ lit THEN [owed EXCEPT ![g] = @ - 1] ELSE owed
    /\ UNCHANGED <<opening, state>>

\* Seeded fault: the LED turned on instead of toggled.
BlinkAlarmSteady ==
    /\ lit' = lit \cup {Led("alarm")}
    /\ Start("alarm")
    /\ UNCHANGED <<gates, state>>

\* blink() of res-alarm.c.
BlinkAlarm ==
    /\ Toggle(Led("alarm"))
    /\ Start("alarm")
    /\ UNCHANGED <<gates, state>>

\* The posted event calls the callback of a timer that is still in the list; of
\* one that was stopped in the meantime it finds nothing.
TimerEvent(x) ==
    /\ x \in due
    /\ due' = due \ {x}
    /\ IF x \notin listed THEN UNCHANGED <<listed, armed, lit, gates, state>>
       ELSE IF x = "alarm" THEN BlinkAlarm ELSE Blink(x)
    /\ UNCHANGED <<board, addr, route, process, row, reboots>>
-----------------------------------------------------------------------------
(* The resources.                                                          *)

\* Seeded fault: the number read, its range not looked at.
AnyLevel(req) ==
    LET params == IF req.format = "json" THEN get_json_int_field(req.body, "opening_level")
                  ELSE {Missing}
    IN {p.value : p \in {q \in params : q.ret = 1}}

\* The opening level the handler accepts, if any; every other request is
\* answered with 4.00.
OpeningLevel(req) ==
    LET params == IF req.format = "text" THEN {IntValue(coap_get_post_variable(req.body, "opening_level"))}
                  ELSE IF req.format = "json" THEN get_json_int_field(req.body, "opening_level")
                  ELSE {Missing}
    IN {p.value : p \in {q \in params : q.ret = 1}} \cap 0..FULL_OPEN

\* Seeded fault: the blinking under way not started afresh.
SetOpeningCarryingOn(g, level) ==
    /\ IF level # opening[g]
       THEN /\ Start(g)
            /\ owed' = [owed EXCEPT ![g] = Flashes]
       ELSE UNCHANGED <<listed, armed, owed>>
    /\ opening' = [opening EXCEPT ![g] = level]
    /\ UNCHANGED <<lit, blinks>>

\* A new level starts three flashes of the LED, from the dark.
SetOpening(g, level) ==
    /\ IF level # opening[g]
       THEN /\ Start(g)
            /\ lit' = lit \ {Led(g)}
            /\ blinks' = [blinks EXCEPT ![g] = BLINKS]
            /\ owed' = [owed EXCEPT ![g] = Flashes]
       ELSE UNCHANGED <<listed, armed, lit, blinks, owed>>
    /\ opening' = [opening EXCEPT ![g] = level]

PutGate(g) ==
    /\ pc = "serving"
    /\ g \in Served
    /\ \E req \in Requests : \E level \in OpeningLevel(req) : SetOpening(g, level)
    /\ UNCHANGED <<board, addr, route, process, row, state, due, reboots>>

\* A text is compared with as many characters of "true" and "false" as it has.
AlarmState(req) ==
    LET params == IF req.format = "text" THEN {BoolValue(coap_get_post_variable(req.body, "state"))}
                  ELSE IF req.format = "json" THEN get_json_bool_field(req.body, "state")
                  ELSE {Missing}
    IN {p.value = 1 : p \in {q \in params : q.ret = 1}}

\* Seeded fault: the LED turned off and its timer left running.
SetStateLedOnly(new) ==
    /\ state' = new
    /\ IF new THEN Start("alarm") /\ UNCHANGED lit
       ELSE lit' = lit \ {Led("alarm")} /\ UNCHANGED <<listed, armed>>

SetState(new) ==
    /\ state' = new
    /\ IF new THEN Start("alarm") /\ UNCHANGED lit
       ELSE Stop("alarm") /\ lit' = lit \ {Led("alarm")}

PutAlarm ==
    /\ pc = "serving"
    /\ \E req \in Requests : \E new \in AlarmState(req) : new # state /\ SetState(new)
    /\ UNCHANGED <<board, addr, route, process, row, gates, due, reboots>>
-----------------------------------------------------------------------------
Next ==
    \/ Reboot \/ NetworkChanges
    \/ AwaitNetwork \/ CollectorStores \/ RegistrationFails \/ RegisterAgain \/ StartServer
    \/ \E x \in Timers : Expire(x) \/ TimerEvent(x)
    \/ \E g \in Gates : PutGate(g)
    \/ PutAlarm

Spec == Init /\ [][Next]_vars

\* Timers expire and their events are handled; the process goes on; of
\* endlessly many registrations some reach the Collector and some are answered.
FairSpec ==
    /\ Spec
    /\ \A x \in Timers : WF_vars(Expire(x)) /\ WF_vars(TimerEvent(x))
    /\ WF_vars(AwaitNetwork \/ RegisterAgain)
    /\ SF_vars(CollectorStores)
    /\ SF_vars(StartServer)
-----------------------------------------------------------------------------
(* Properties                                                              *)

TypeOK ==
    /\ board \in Boards
    /\ addr \in BOOLEAN /\ route \in BOOLEAN
    /\ pc \in {"network", "registering", "serving"}
    /\ request \in {"none", "sent", "created", "failed"}
    /\ uri \in {"none", "usable", "garbage"}
    /\ row \in {"absent", "usable", "garbage"}
    /\ opening \in [Gates -> 0..FULL_OPEN] /\ state \in BOOLEAN
    /\ blinks \in [Gates -> 0..BLINKS]
    /\ owed \in [Gates -> Int]
    /\ listed \subseteq Timers /\ armed \subseteq Timers /\ due \subseteq Timers
    /\ lit \subseteq {"red", "green", "blue", "led2"}
    /\ reboots \in 0..MaxReboots

\* Every change of an opening is told by three flashes (the document says
\* "blinks three time"), whatever changes cut short the flashes of earlier ones
\* and whatever expiries were posted before: the LED has never flashed too
\* often, and owes nothing when it comes to rest (blink and res_put_handler of
\* res-gate.c).
BlinksThrice == \A g \in Gates : owed[g] \in 0..Flashes /\ (g \notin listed => owed[g] = 0)

\* The alarm's timer is in use exactly while the alarm is on, and the LED is
\* dark while it is off, although an expiry may have been posted just before
\* the alarm was turned off (blink and res_put_handler of res-alarm.c).
AlarmTells == (state <=> "alarm" \in listed) /\ (~state => "red" \notin lit)

\* While the alarm is on its LED keeps going on and off.
AlarmBlinks == <>[]state => []<>("red" \in lit) /\ []<>("red" \notin lit)

\* No registration of the mote is under way.
BetweenAttempts == pc = "network" \/ request = "failed"

\* A mote that has an address to stay is served in the end; and if it has it
\* before its next attempt to register, it can be commanded in the end: the
\* registry has its address, whatever the attempts before, with an address or
\* without, have left there (the loop of coap_br_proc, which writes the message
\* anew for every attempt).  More the code does not promise: an attempt that was
\* sent without an address and is answered leaves a mote that nobody reaches.
CommandableInTheEnd ==
    /\ <>[]addr => <>[](pc = "serving")
    /\ [](BetweenAttempts /\ []addr => <>[](pc = "serving" /\ row = "usable"))

Service == INSTANCE ActuatorService WITH
    Resources <- Timers,
    Scale <- [x \in Timers |-> IF x = "alarm" THEN {0, 1} ELSE 0..FULL_OPEN],
    known <- IF row = "absent" THEN {} ELSE Served,
    serving <- IF pc = "serving" THEN Served ELSE {},
    level <- [x \in Timers |-> IF x = "alarm" THEN (IF state THEN 1 ELSE 0) ELSE opening[x]]

\* What the rest of the system relies on: the mote serves only what the
\* registry knows, moves its gates and its alarm only while it serves them and
\* only within their scale, and is closed again after a reboot.
Serves == Service!Spec
=============================================================================
