# Formal models of DamMonitoring

TLA+ specifications of the dam monitoring and control system in `../src`, their
TLC model-checking runs and their TLAPS proofs. `PROJECT.json` is the machine
readable index: components, runs, the seeded faults ("mutants") that show each
property can fail, the map from definitions to source lines, the hazards of the
code, the findings and the theorems.

    tlc -workers 2 -config control_cycle.cfg MCControlCycle.tla
    tlapm ControlCycleProofs.tla

## 1. The system

A dam has a water level sensor, flow sensors (the inflow and any number of
outflow channels), gates (each on an outflow channel, "primary" or "emergency",
open between 0 and 100 per cent) and alarms. The motes run Contiki-NG; two Java
processes run on a server and share one MySQL database.

      sensor motes --MQTT--> broker --MQTT--> Collector --insert--> tables
           ^                    |                               flowRate, waterLevel, resource
           +---- "simulation" --+-- Controller (ControlLogic)        ^
                                                                     | select / update
      actuator motes --CoAP POST /registration--> Collector --------+
      actuator motes <--CoAP PUT /<gate>, /<alarm>------------- Controller

### Components: state, operations, interactions, what is hard

| component | state | operations | hard behaviour | correct when |
|---|---|---|---|---|
| **Automatic control unit** `AutomaticControlUnit` | none of its own; reads the measurement tables, thresholds, mode, registry | `run()`, every `taskPeriod` on a scheduled executor | nothing it reads is read atomically; each failure ends the cycle; stale or missing data | the branch it takes is one the thresholds selected; the response grows with the level; alarm before gates; a lasting flood opens the gates and raises the alarm |
| **Control parameters and commands** `ControlLogic` | `minThreshold`, `maxThreshold`, `safeThreshold`, `mode` (static atomic references, read and set one at a time) | threshold setters, start/stop of AUTO mode, `setGateOpening`, `increase/decreaseGateOpening`, `setAlarmStatus`, `simulate`, `shutdown` | two threads; read registry, PUT, store is not atomic | thresholds stay ordered; openings stay in 0..100; the registry says what the gate does unless something known went wrong |
| **CoAP client** `CoapManager` | one client per call | `coapPutRequest`, `coapGetRequest` | a lost response is a failure although the mote obeyed | an answer is never invented |
| **Shell** `Shell`, `commands/*` | none | `gate`, `mode`, `threshold`, `flow`, `level`, `alarm`, `shutdown` | runs beside the unit | gates can be commanded in MANUAL mode only, and then only by the operator |
| **Persistence** `DataManager` | session factory (lazy singleton); the three tables | inserts, last row, sums, registry | unsynchronised creation, `close()` under running threads | one factory; no use after close |
| **Registration** `RegistrationServer`, `Registry` | table `resource` | `handlePOST` | a lost response makes the mote post again; a reboot resets the level | after a registration registry and mote agree |
| **Subscriber** (Collector) | MQTT connection, reconnection scheduler, time of the last record per channel | `messageArrived`, `connectionLost`, `reconnect`, `disconnect` | callbacks against the scheduler's thread | comes back after every disconnection, subscribed; throttles |
| **MQTT link of the motes** `mqtt-client.c` | connection state, retry counter, period, LED timer | `state_machine`, `mqtt_event` | events between two rounds of the state machine; back-off; full queue | reconnects; publishes only when subscribed |
| **Flow sensor** `flow-sensor.c` | target and simulated flow | publish, message on "simulation", button | its own measured inflow comes back as a command, late; zero modulus | flows in range, they reach their targets |
| **Water level sensor** `water-level-sensor.c` | the three flows and the simulated reservoir (unsigned) | publish, message on "simulation", button | unsigned arithmetic, zero modulus | level in range; falls while more flows out than in |
| **Actuator mote** `gate-controller.c`, `res-gate.c`, `res-alarm.c` | opening, alarm, LEDs, blinking counter | registration, PUT, GET, timer | reboot; a PUT while the LEDs blink; expiries posted before a timer is stopped | serves only what the registry knows; takes legal levels only; blinks as documented |
| **Demonstration motes** `mote-1.c`, `mote-2.c`, `mote-3.c` | those of the firmwares, several resources or sensors per mote | those of the firmwares | several measurements per record, one simulation for all three flows | as the firmwares |
| **Process start and stop** `Controller`, `Collector` | threads, shutdown hook | `main`, hook | hook against running cycles | nothing is used after it is closed |

Left out: the border router and its web server (Contiki-NG examples, carry
packets only), the SQL script, the dashboards and the Cooja simulation (data).

## 2. Plan

Order: the decisions and commands that open a dam's gates first, then what
feeds them, then the edges.

1. `ControlCycle` + `ControlCycleProofs`: one cycle's decision against the shell,
   with `Branches`, the branches of `run()` as both halves of it know them. **Done.**
2. `Actuation` + `ActuationProofs`: how commands reach gates and alarms. **Done.**
3. `SensorLink` + `SensorLinkProofs`: the MQTT link of the motes. **Done.**
4. `Subscriber` + `SubscriberProofs`: the Collector's end of MQTT. **Done.**
5. `ActuatorService` + `ActuatorServiceProofs`: what the rest of the system relies
   on about gates and alarms; `Actuation` shown to implement it. **Done.**
6. `Payload`, `ActuatorMote` + `ActuatorMoteProofs`: the mote behind `Actuation`,
   with its parsers, timers and LEDs; it implements the same service. **Done.**
7. `FlowSensor` + `FlowSensorProofs` and `WaterLevel` + `WaterLevelProofs`: the
   simulated sensors and the topic "simulation" that joins them to Collector
   and Controller. **Done.**
8. `Lifecycle`: `DataManager`'s singleton, the hooks and `shutdown()`. Left; see
   "Not modelled".
9. `FlowsSpaced` as a refinement of a channel that stores at most one record per
   `minPeriod`, and the closed loop of `ControlCycle` and the water level. Left:
   the first says no more than the property does, the second has the product of
   two large state spaces.

How the modules compose: `ActuatorService` is instantiated by `ActuatorMote`
(one mote in detail) and by `Actuation` (all motes, coarsely, with the two
threads that command them), so that what `Actuation` takes for granted about a
mote is what `ActuatorMote` is shown to do. `ControlCycle` decides on a branch and
`Actuation` carries one out; `Branches` lists the branches and their steps for
both, and `DecisionsAreMoves` proves that the one never decides what the other
does not know. `FlowSensor` joins flow sensors, water
level sensor, Collector and Controller over the topic "simulation"; its `heard`
is where the flows of `WaterLevel` come from.

Bounds: one or two of everything that is symmetric, one or two faults, values
on either side of each comparison. The longest run takes about two minutes.

## 3. ControlCycle: what one cycle decides

| model | code |
|---|---|
| `minThreshold`, `maxThreshold`, `safeThreshold`, `mode` | the static fields of `ControlLogic` |
| `waterLevel`, `inflow`, `outflow` | last row of `waterLevel`, last inflow row, sum of the last outflow rows; `NoRow` is an empty table |
| `unit.pc` and its fields | the point `run()` has reached and its local variables |
| `alarm` | the status ordered by the last alarm command |
| `SetMaxThreshold`, `SetMinThreshold`, `SetSafeThreshold` | the setters, comparing as Java compares floats |
| `RetrieveWaterLevel` ... `TestMinThreshold`, `EndCycle` | each read of shared state in `run()` is a step of its own, in the code's order |
| `QueryFails` | a `PersistenceException` from any of the queries of a cycle (level, inflow, outflow, gates) ends it |
| `AlarmFails` | an exception from looking up or commanding the alarms ends the cycle |
| `RecordWaterLevel`, `RecordFlowRate`, `GrowStale` | the Collector's inserts, time passing |

`Typed` may hold `NaN`: `Float.parseFloat("NaN")` is a legal argument of the
`threshold` command, and every comparison with it is false (`Gt`), so each
setter accepts it. `zonesSeen` is an auxiliary variable: the branches that the
three thresholds together selected at some moment since the alarm was ordered;
it is also marked when one of them was NaN.

The rates are those of the channels as one sum; freshness is a flag, and time
may pass for the unit's copy as long as it has not checked it. A level that has
been superseded does not grow stale between its retrieval and the check, which
are milliseconds apart where `maxStale` is minutes. All steps of
opening but their values are kept: 1, 5, 10 and 100.

| run | distinct states | shows |
|---|---|---|
| `control_cycle` | 431 856 | `TypeOK`, `ThresholdsOrdered`, `ZoneWasTrue`, `WarnedBeforeOpening`, `PlanMonotone`, and `AlarmRaised` under fairness: three levels that the typed thresholds move between all four zones, NaN, rates on both sides of the balance (differences 0 and 23), threshold commands between any two reads |
| `control_blind` | violation | finding: with no flow rate recorded no level is looked at and the alarm is never ordered |

Fairness: `WF_vars(Unit)`, as `scheduleAtFixedRate` goes on calling `run()`
(its exceptions are caught inside) and nothing in a cycle blocks for ever. A
cycle can end before it gets to the alarm, because a query or an alarm fails, so
that this alone promises nothing about the alarm. What `AlarmRaised` assumes
beyond it is `SF_vars` of `RetrieveInflow`, `RetrieveOutflow` and `OrderAlarm`:
of the queries and alarm commands that are tried for ever, some succeed, however
many fail in between. That is an assumption on the database and the motes. For the
query of the level it is part of `WF_vars(Unit)`, since its failure leaves the
unit where it was. Without the assumption on the inflow TLC finds `AlarmRaised`
violated by a database that fails in every cycle. The shell and the sensors are
not fair: they need never act.

`WarnedBeforeOpening` admits one case, a threshold command between the two reads
of the safe threshold (for the alarm, for the gates): `run()` then opens all the
gates although it has just turned the alarm off. The property shows that this
interleaving is the only way, and that a failing alarm is none.

Why the bounds suffice: the setters and the branches only compare, so that
one value between each pair of neighbouring thresholds, and one equal to a
threshold, stand for the rest; the theorems below cover all values.

## 4. Actuation: how commands reach gates and alarms

| model | code |
|---|---|
| `registry` | column `value` of table `resource`; `Absent`: no row yet |
| `actual` | the level on the mote (`gate_opening`, `alarm_status`) |
| `mote` | registering, serving, or off for good |
| `acu` | where `run()` is: going through the alarms, then the gates (`todo`), with the zone and the step it has decided on |
| `call[t]` | the command that thread `t` ("acu" or "shell") is executing: waiting for the CoAP answer, or about to store |
| `Send`, `MoteHandlesPut`, `PutSucceeds`, `PutRejected`, `PutTimesOut`, `Store`, `StoreFails` | read registry, PUT, store in `setGateOpening`, `increaseGateOpening`, `decreaseGateOpening`, `setAlarmStatus` and `coapPutRequest` |
| `StartCycle`, `SetAlarmStatus`, `CheckMode`, `SetGateOpening`, `EndCycle`, `QueryFails` | the loop of `run()` |
| `SetLevel`, `SetMode` | shell commands `gate set` and `mode` |
| `Register`, `Reboot`, `Crash` | `coap_br_proc` and `Registry.handlePOST` |
| `Restart` | the Controller stops and starts again |

`doubt` is auxiliary: a resource is in doubt after a command whose answer or
store was lost although the mote may have obeyed, or that overlapped another
command or a reboot. Faults (lost request, lost response, failed database access,
reboot, death of a mote, restart) are counted up to `MaxFaults`.

Abstractions: `FULL_OPEN` is a constant (2 in the safety run, 1 in the liveness
runs, 100 in the code) and `Steps` the set of changes (1; in the code 1, 5, 10);
the unit chooses any of the steps of its branch (which one it is, is
ControlCycle's matter). The zone changes at any time; the branch for the gates is
chosen anew (`ChooseBranch`), by the zone that the alarms were set by or by the
one of that moment, as `run()` keeps the level but reads the thresholds again. A PUT retransmitted by
CoAP while the caller waits may be executed again; one that arrives after the
caller has given up may not (its exchange has ended on both sides). Level
commands that the shell addresses to an alarm are answered with a rejection and
left out. `simulate()`, which tells the sensor motes of the new opening over
MQTT, changes nothing here and is modelled in `FlowSensor`.

`Serves` says that all this is, for an observer of the gates, nothing but
`ActuatorService`: `known` is what the registry holds, `serving` the resources
of the motes that serve, `level` is `actual`.

| run | distinct states | shows |
|---|---|---|
| `actuation_safety` | 2 043 380 | `TypeOK`, `RegistryExplained`, `OperatorsGateStands`, `UnitMovesAsDecided`, `Serves`: a primary and an emergency gate on two motes, both threads, one fault of any kind, legal and illegal typed levels |
| `actuation_live` | 163 224 | `ManualTakesOver`, `FloodOpensGates`, `AlarmsFollow`: a gate and an alarm on two motes, two faults of any kind but a permanent crash |
| `actuation_stale` | violation | finding: one lost response hides a closed gate behind a registry entry "fully open" |

One fault suffices for safety, since all faults act through `doubt` and `clean`,
which the theorems treat for any number; two in the liveness run let a fault
strike a recovery. Two threads are all there are.

The liveness run leaves out the permanent crash, because the system does not
survive it: a command to a dead mote fails, `run()` catches the exception
outside its loops, and so an alarm or a gate that had registered and is gone ends
each cycle before the resources after it. `FloodOpensGates` holds only for
faults that pass.

Fairness: cycles are started and go on (`scheduleAtFixedRate`); a request that a
serving mote has received is handled; a call ends (answer or time-out, Californium's
exchange lifetime); a mote repeats its registration until it is served. The
operator, the water and the faults are not fair.

## 5. SensorLink: how a sensor mote stays connected

| model | code |
|---|---|
| `state`, `trial`, `period` | `state`, `reconnection_trial`, `time_period` of `mqtt-client.c` |
| `timer`, `due`, `poll` | the interval `periodic_timer` is armed with, its expiry posted to the process, the poll that the MQTT library requests |
| `blinking`, `red` | `led_timer` is running, the red LED is on |
| `link`, `subscription`, `network` | the connection and subscription as library and broker have them; address and route |
| `Connect` ... `GiveUpConnection` | one round of `state_machine()` and the re-arming of the timer, by the state it starts in |
| `Connected`, `Disconnected`, `SubAck`, `MessageReceived` | the cases of `mqtt_event` |
| `TimerExpires`, `ToggleLed` | the timers |

Contiki-NG runs a process and the library's callback to completion, so a round
and an event are one step each; what interleaves is their order, an expiry that
is posted already, and polls that merge. `losses` is auxiliary: the losses since
the last subscription, which `trial` should be equal to after each of them has
been dealt with.

Abstractions: the library polls the process after each event and reports a loss
once (`mqtt_disconnect` on a connection that is gone does nothing). What is
published is the sensors' matter. The keep-alive, the green LED and the events
that are only logged are left out. `CLOCK_MAX` is what -1 becomes in the
unsigned `clock_time_t` of the process loop: an interval that does not expire.

| run | distinct states | shows |
|---|---|---|
| `sensor_link` | 1 222 | `TypeOK`, `LinkAgreement`, `LedTells`, `BackedOff`, `Reconnects` |
| `sensor_link_full` | violation | finding: a full queue at the subscription stops the mote |

Bounds: the cap of the back-off is at exponent 2 (6 in the code) with four
faults, so that three losses in a row reach and one more passes the cap;
`trial` and `losses` stop one above the cap, where nothing distinguishes them any
more. The intervals (3, 6, 12; 1 and 5 for the two fixed ones) are all different.

Fairness: the kernel delivers polls and expiries (`StateMachine`), timers
expire, and an attempt to connect ends (`Connected`, or a loss, of which there
are finitely many). `Reconnects` supposes the network is back for good.

## 6. Subscriber: the Collector's end of MQTT

| model | code |
|---|---|
| `main`, `remaining` | how far the constructor is: connecting, subscribing, assigning the last field, done, or thrown; the topics its loop has yet to subscribe to |
| `client`, `subscribed`, `broker` | the Paho client and the broker's side of its session |
| `callback`, `lost` | what the client's callback thread is doing; a loss not yet reported |
| `scheduler`, `executors` | the field, and all the schedulers ever put there, each with the point its task has reached and whether it has been shut down |
| `lastRecord`, `row`, `now` | the map, the timestamp of the last row stored, the clock |
| `Connect`, `Subscribe`, `CreateMap` | the constructor |
| `ConnectionLost`, `ScheduleReconnect` | the two effects of `connectionLost` |
| `Reconnect`, `Reconnected`, `Resubscribe`, `Shutdown` | `reconnect`, by scheduler; one step per `subscribe` call |
| `SubscribeFails`, `ResubscribeFails` | `subscribe` throws, as the connection is gone or the broker does not grant the subscription: main gives up, the task is over until its next period |
| `callback.todo`, `MessageArrived`, `Store`, `StoreFails` | `messageArrived`: the measurements of a record that are not too fast, then for each the insert and the note, or the exception that drops the rest |

The field is overwritten by each loss, and `scheduler.shutdown()` goes to the
scheduler that is there *then*. A task that was still subscribing when the
connection broke again can so shut down its successor. The model follows Java: a scheduler
that is shut down while idle runs no more, one whose task is running ends with it,
one shut down between its creation and its first task rejects the task.

Abstractions: a record is the set `R` of the sensors it speaks of. (The
comment in `messageArrived` expects a single measurement, but `mote-2` sends
one for each of its flows.) A message that is malformed, of the wrong unit, too
fast for all its sensors, or comes before the map exists changes nothing and is
no step. The measurements are judged together, where the code judges each when
the loop gets to it: the limit of time is fixed before the loop, and no note
about one sensor changes the verdict about another. Losses are reported one at
a time, and the connection does not break again before `connectionLost` has
returned (it takes microseconds where the first attempt comes ten seconds
later). The delays and periods of the schedulers are arbitrary. `simulate()`
is in `FlowSensor`, `disconnect()` is not modelled.

| run | distinct states | shows |
|---|---|---|
| `subscriber` | 487 963 | `TypeOK`, `SomeoneRetries`, `RestsSubscribed`, `JudgedByRows`, `FlowsSpaced`, `ReceivesAgain` |
| `subscriber_levels` | violation | finding: water levels are not throttled |

`RestsSubscribed` is the safety half of `ReceivesAgain`: main and two tasks may
subscribe at the same time to what a loss has just undone, each going on with
the topics that it had left, and still nobody is the last to stop with a topic
missing. It does not speak of a main that was refused a subscription before any
loss: the constructor throws, and with the connection standing nobody tries
again.

A database failure (`StoreFails`) stores nothing. A commit that takes effect
although the call throws is left out: its row would be stored and not noted, and
`JudgedByRows` and `FlowsSpaced` do not hold for such a row.

Bounds: a mote with two flow sensors, so that a record can fail half way, and
for the levels the mote of the water level sensor; three losses, so that a
scheduler can be shut down by an earlier one while a third is created; a clock
of four instants with a minimum period of two. Deadlock is not checked, since a
constructor that throws leaves a subscriber with nothing to do, and since the
clock and the losses are bounded.

Fairness: each thread that can go on does, and an attempt to connect ends.
`ReceivesAgain` supposes that the broker is back for good, that it grants in the
end what the tasks ask for (`Refuses`; a task refused in every period for ever
has nothing to hope for), and that there is a
subscriber to speak of: that the constructor returned or that the callback was
registered and called.

## 7. ActuatorMote, Payload, ActuatorService: the mote behind the commands

| model | code |
|---|---|
| `board` | the firmware `gate-controller` built with `FLOW` 1 or 2, or `mote-1` with both gates |
| `pc`, `request`, `uri`, `row` | `coap_br_proc`: waiting for the network, registering, serving; the blocking request; the address written into the message; what the registry then holds |
| `opening`, `state`, `blinks` | `gates[]`, `alarm` |
| `listed`, `armed`, `due` | a `ctimer` is in the list, runs, has its event posted |
| `lit` | the LEDs |
| `AwaitNetwork` ... `StartServer` | the process: each attempt builds the message anew |
| `PutGate`, `PutAlarm` | `res_put_handler` of the two resources, with the parsers of `common.c` (`Payload`) |
| `Expire`, `TimerEvent` | the timer expires and posts; the event runs `blink()` if the timer is still listed |
| `Reboot`, `NetworkChanges` | power, routing |

A request is a format and a sequence of fields, each with its key, the type of
its value and the number `atoi` makes of it. `key_buf` is not initialised when
the first value of a JSON text has no name, and is compared all the same:
`Readings` lets it hold the key asked for, or not. The firmware leaves its
waiting loop with a route but no address, and then writes the bytes it finds at
address NULL into its URI: `uri` is "garbage" then, and so is the row, until a
later attempt writes another one.

`owed` is auxiliary: the flashes that the last change of a gate still owes the
reader of the LED. `gate-controller` shows with the green LED both that it is
ready and that gate 1 has changed; `blink()` leaves it dark, so that the ready
sign is gone after the first command. No document says otherwise.

Abstractions: GET handlers and the log change no state; the period of the alarm
LED, of both kinds of blinking, is arbitrary, as is the time a request takes.
`FULL_OPEN` is 2 (100 in the code), `BLINKS` is the code's 5.

| run | distinct states | shows |
|---|---|---|
| `actuator_mote` | 94 576 | `TypeOK`, `BlinksThrice`, `AlarmTells`, `Serves`, `AlarmBlinks`, `CommandableInTheEnd` |

`BlinksThrice` is what section 4.2 of `src/Docs/DamMonitoring.pdf` says of the
LEDs ("blinks three time each time the gate opening level is modified"),
`AlarmBlinks` and `AlarmTells` what it says of the alarm ("blinks periodically
when the alarm is on"). `Serves` is the refinement of `ActuatorService`.

`Serves` counts a mote as known as soon as the registry has a row of it, whatever
address is in it; the address is what `CommandableInTheEnd` is about. A mote
with an address to stay is served in the end, and one that has it before its next
attempt has it in the registry, although earlier attempts may have left bytes
that are none there. The code does not promise more: an attempt that is sent
with a route but no address (the loop at `gate-controller.c:53` ends with either)
and is answered ends the registration, and the mote then serves with a row
"garbage", out of reach of any command until it is restarted. The states of that
kind are reachable in the run.

Bounds: ten requests, one for each way through the handlers: legal levels, a
level out of range, text that is no number, a value with no name, the wrong
key first, no format, and the two alarm states with a text that is neither. One
reboot, which may fall between any two steps of a registration or of blinking.

Fairness: timers expire and their events are handled, the process goes on
(Contiki-NG's scheduler); `SF_vars(CollectorStores)` and `SF_vars(StartServer)`:
of the attempts that go on for ever some reach the Collector and some of its
answers come back, an assumption on the network. Strong, because each lost
message disables the step it would have enabled.

## 8. FlowSensor: the simulated flows and the topic "simulation"

| model | code |
|---|---|
| `board` | a mote with `flow-sensor.c` for each channel, or one `mote-2` for all of them |
| `target`, `flow` | `target_flow` in percent, `flow` |
| `simulate_read_flow`, `Halt` | the function, with `LINEAR_VAR` and `STEADY_VAR` |
| `Button` | the button handler: ten percent more, or none after three seconds, and the release that does not count |
| `ReportInflow`, `inflowGate` | `Subscriber.simulate`: the inflow rounded to percent, published if it has changed |
| `CommandGate` | `ControlLogic.simulate` after a gate was commanded |
| `topic`, `topicLevel`, `lost` | messages under way to the flow sensors and to the water level sensor; one of them was lost |
| `handle_message`, `HandleAtLevelSensor` | both handlers of the topic; `heard` is what the water level sensor then knows |

`LINEAR_VAR` divides by the distance from the band over ten, which is zero when
the flow is within ten of it. That is undefined in C: the sensor stops (`Halt`)
or goes on with the random number itself, as some processors return it. The
firmware of the inflow sensor takes for a target the percentage that the
Collector publishes from its own measurements; the demonstration board does not
(its loop starts at 1).

Messages can be lost at each of the two subscribers: a sensor that is not
connected when a message is published never gets it, and `ControlLogic.simulate`
opens a connection for each command, under the one client id of its
configuration, of which a broker keeps only the latest when both threads do so
at once.

| run | distinct states | shows |
|---|---|---|
| `flow_sensor` | 102 224 | `TypeOK`, `FlowBounded`, `InflowInBand`, `LedToTarget`, `Settles`, `Follows` |

`LedToTarget` is the safety half of `Settles`: from outside its band a flow gets
into it or below in one reading and then rises by at least `LINEAR_MIN` at a
time; it is never thrown back to the other side, not even by the random number
of a zero modulus. `FlowBounded` had to be stated with the ceiling the code has: for the firmware
it is just below `FULL + PRESS` percent, since a message can take the target off the
multiples of ten and `Increment` tests before it adds. `Follows` says nothing of
runs in which a message was lost, for nothing repeats one.

Bounds: inflow and one outflow; a percentage of 0, 1 and 2 with a push of two, so
that a message can move the target off the multiples of a push; four units of
flow per percent and noise of one, so that rounding can go either way; moduli of 0,
1 and 2; two inputs, one message under way to each sensor. Deadlock is not checked: sensors may halt,
and inputs are bounded.

Fairness: each sensor's timer goes on, the inflow sensor publishes, and what is
under way arrives. Operator, button and `Halt` are not fair.

## 9. WaterLevel: the simulated reservoir

| model | code |
|---|---|
| `flow`, `balance_flow` | `flow[]`, `balance_flow` |
| `reservoir`, `water_level` | the unsigned variables, modulo `WORD` |
| `simulate_read_water_level`, `Halt` | the function; a modulus of zero as in `FlowSensor` |
| `handle_message` | a percentage for a channel, and the balance anew |
| `Button` | reset, fill |

`mote-3.c` differs from `water-level-sensor.c` in an LED only, so that the model
is that of both.

| run | distinct states | shows |
|---|---|---|
| `water_level` | 6 210 | `TypeOK`, `ReservoirBounded`, `DrainsWhileWet` |

A limit of the code that `DrainsWhileWet` has in its precondition `Wet`: the test
`water_level < 0` is never true of an unsigned number. A dam that has run dry
wraps around to a huge one, which the next test makes a full one. No document
says what the simulation does then.

Bounds: flows of 2, 3 and 1 per percent and percentages of 0 to 2, so that the balance
goes from -8 to 4 and the modulus of the noise through zero; a word of 64, in
which a full dam with its noise is 24, so that wrapped contents are told from
real ones. Deadlock is not checked, since the sensor may halt.

## 10. Findings

1. `control_blind`: the documentation says the alarm is always controlled; until
   an inflow and an outflow have both been recorded, `run()` ends in a
   `NullPointerException` before it looks at the level.
2. `actuation_stale`: "only if the new level is different from the current"
   compares with the registry, and a gate whose entry is wrong is passed over
   for as long as a flood lasts.
3. `sensor_link_full`: reconnection "without requiring manual intervention": the
   error of a full queue, -1, is stored in an unsigned period before it is
   compared with zero, and becomes the longest of all waits.
4. `subscriber_levels`: messages of the same sensor closer than a minimum time
   are said to be discarded; the times of water levels are never noted.

## 11. Proofs

Assumed are only the named assumptions on the constants: readings and rates are
integers, NaN and the markers are none of the values, the initial thresholds
are in order; gates and alarms are disjoint, every resource has a host, the
levels typed are integers, `FULL_OPEN` and the steps are positive; the periods of
a mote are positive and the marker of a timer that never expires is none of
them nor of the back-offs (at most 64 seconds in the code); topics are strings and the periods and bounds of the Subscriber are naturals;
a mote's requests are of the formats CoAP has; the maximum and the initial inflow
are whole numbers of pushes (100, 40 and 10 in the code); the surface of the dam is at
least 2, and a full dam with its noise fits in a word.

`ControlCycleProofs`
- `TypeCorrect`: `Spec => []TypeOK`, inductive as it stands because `TypeOK`
  says which local variables are defined at each point of `run()`.
- `Ordered`: `Spec => []ThresholdsOrdered`. Each setter compares with both of the
  others, so the three conjuncts are inductive together, NaN included.
- `Monotone`: `Spec => []PlanMonotone`, from lemmas on the two operators:
  `ZoneMonotone` (a higher level is in no lower zone, with the thresholds in
  order) and `MoveMonotone` (a higher zone gets no smaller step).
- `RightZone`, `Warned`: neither is inductive. `DecisionInv` strengthens them:
  while the unit is between its tests, either a NaN excuses everything, or every
  verdict that the tests passed so far exclude was matched by one in
  `zonesSeen` that fits the test's outcome, and the zone that holds now is
  always in `zonesSeen`. Without it a threshold moved past the level *after* its
  test leaves nothing to argue from.
- `DecisionsAreMoves`: every decision of a cycle is a branch and a step that
  `Branches` lists, over all readings, rates and thresholds. `Actuation` lets the
  unit choose from that list, so that what is proved of `Actuation` covers all
  that `ControlCycle` can decide.

`ActuationProofs`
- `TypeCorrect`: from `TypeInv`, which adds that a call under way has a
  registered resource and, once confirmed, a legal target, and that the lists of
  a cycle hold resources of the right kind.
- `Coherent`: `Spec => []RegistryExplained`. `CoherenceInv` adds what is true
  during a command: one that overlaps nothing ("clean") and has been confirmed
  finds the mote at its target; one with no answer yet finds registry and mote
  still in agreement, unless the resource was in doubt before.
- `OperatorCommands`: `Spec => OperatorsGateStands`: the only steps that change a
  gate are the handling of a PUT and a restart of its mote, and by `TypeInv` a
  command of the unit on a gate implies that the cycle is at the gates.
- `MovesAsDecided`: `Spec => UnitMovesAsDecided`. `ErrandInv` says that a command
  of the unit that is under way while the cycle is at the gates has the target of
  its branch: fully open in a flood, closed for an emergency gate otherwise. For a
  primary gate `CoherenceInv` has registry and mote in agreement while a clean
  command is under way to a gate not in doubt, so that a target computed from the
  registry is the decided step from where the gate is.
- `Implements`: `Spec => Serves`, the refinement of `ActuatorService` for any
  motes, gates and alarms. `CallsServe` maps the steps of a call, `MotesServe`
  those of a mote, to a step of the service or a stutter; `TypeInv` gives that a
  PUT finds a registered resource and a legal level.
- `ServiceKept`: what `ActuatorServiceProofs` derives from the service holds of
  `Actuation` as well, by `Implements`: the two lemmas of that module are
  instantiated with the refinement mapping.

`ActuatorServiceProofs`
- `Promised`: from the service alone, with nothing known of the scales but that
  0 is a level of each: who is served is known, no level leaves its scale, and
  what is not served is closed or off. Proved once of the abstract specification,
  it holds of both implementations (`ServiceKept`, twice).

`SensorLinkProofs`
- `TypeCorrect`: the interval after a loss is one of the powers of two up to the
  cap, whatever the trial.
- `Agreement`: `Spec => []LinkAgreement`, inductive on its own: each event moves
  state and link together, and each round only from a state that they agree on.
- `Led`: `Spec => []LedTells`. `LedInv` says what holds with a poll pending as
  well: the LED stops in the round that subscribes and starts in the round that
  gives up, and the events between them always leave a poll.
- `BackOff`: `Spec => []BackedOff`. `TrialInv` ties `trial` to `losses`: they are
  equal, but for the loss that no round has dealt with yet, and `period` is the one
  the last loss called for.
- `Woken`: `Spec => []NothingElseParks`, the safety half of `Reconnects`: with no
  poll and no expiry posted the timer runs, unless the mote is connected after a
  subscription that failed. `WakeInv` follows the two ways a timer can be silent:
  one that has expired has its event posted, and one that never expires belongs
  to a connection that stands, or whose loss has left a poll. A full queue, the
  finding of this component, is so the only way to park a mote.

`SubscriberProofs`
- `TypeCorrect`: `TypeInv` adds that the schedulers beyond the latest are unused.
- `Spaced`: `Spec => FlowsSpaced`. `ThrottleInv` adds that the map holds the time
  of a noted sensor's last row, and that a message in the callback's hands is
  at least `minPeriod` later than that row, which the clock, going forward, does
  not spoil.
- `Judged`: `Spec => []JudgedByRows`, which is a conjunct of `ThrottleInv`: a
  failure in the middle of a record leaves rows and notes as they are.
- `Retries`: `Spec => []SomeoneRetries`. `RetryInv` follows the latest scheduler:
  it goes on, or its task is past the test of the connection, or it was stopped,
  which only an earlier task can have done, and that one has then not stopped its own
  scheduler: it is *leaked* and goes on. A leaked scheduler is never
  in the field again, so nobody stops it but the task that is its own.
- `RestsComplete`: `Spec => []RestsSubscribed`. `RestInv` says who has subscribed
  to what: before the first loss main, unless it was refused, the topics it has
  left apart; afterwards
  the task of the latest scheduler, again but for those it has left, unless that
  scheduler was stopped by the task of an earlier one. That one has then
  subscribed to everything, or a leaked scheduler (`RetryInv`) goes on.

`ActuatorMoteProofs`, from one invariant, `MoteInv`
- `TypeCorrect`: the handlers accept a level of the gate or nothing (`Accepted`),
  whatever the request.
- `Flashed`: `Spec => []BlinksThrice`. `FlashesCounted` ties what is still owed to
  the blinks done and to the LED (two blinks make a flash); it holds for any
  number of blinks, odd or even. `Registering` is needed with it: a mote that does
  not serve has no timer, so that switching on the green LED, the ready sign, meets
  no blinking.
- `AlarmTold`: `Spec => []AlarmTells`, inductive next to `TypeOK`: the event of a
  stopped timer finds it no longer listed.
- `LastAttemptCounts`: `Spec => []LastAttemptStands`, the safety half of
  `CommandableInTheEnd`: a mote that serves is in the registry with what its last
  attempt wrote, and with nothing an earlier one left. It needs `Registering`: a
  request that is answered is one that was stored.
- `GoesOn`: `Spec => []BlinksOn`, the safety half of `AlarmBlinks`: a timer that
  `ctimer` knows is running or has posted its event (`TimersRun`), so that no
  order of requests and expiries stops half way the blinking of the alarm, or of
  a gate which owes flashes.
- `ServiceKept`: as in `ActuationProofs`.
- `Implements`: `Spec => Serves`. `OthersClosed` says that the gates the board
  does not carry stay closed, which a reboot of the served ones needs.

`FlowSensorProofs`, from `FlowInv`
- `TypeCorrect`, `Bounded`: `Spec => []FlowBounded`, over all outcomes of
  `LINEAR_VAR` and `STEADY_VAR` (`NextFlow`), the limits at the end (`Clamped`)
  and multiplication by the flow per percent (`TimesMonotone`).
- `InBand`: `Spec => []InflowInBand`. `InflowPushed` is the reason that the
  ceiling of the board is `FULL`: its target is a whole number of pushes, which
  the test before the addition does not let pass the maximum (`PushFits`).
- `OnTheWay`: `Spec => LedToTarget`: readings by `NextFlow` and `RisesEnough`; a
  push always changes the target, and a long push that does not (it was 0
  already) leaves the flow in the band.
- `SameDam`: `Spec => []InStep`, the safety half of `Follows`, for queues of any
  length: with nothing lost and nothing under way both kinds of sensor have the
  same settings. `Brings(q, c, old, v)` says to what setting the messages of a
  queue will bring a channel: that of the last message for it, or the old one.
  `SentLast` and `HandledFirst` say what sending and handling do to it, and
  `Alike` is the invariant: both queues bring their readers to the same setting,
  however far each has got. For the inflow of the board `Measured` proves that
  what it measures rounds to what is set; that needs the hypothesis of the
  theorem, noise of less than half a per cent of the full flow (150 against 350,
  800 and 1000 for a per cent in the code).

`WaterLevelProofs`
- `TypeCorrect`, `Bounded`: from `LevelInv`; contents beyond the brim give a level
  beyond the maximum, noise included (`BeyondTheBrim`), so that the one limit that
  works catches every wrap-around.
- `DrainsDown`: `Spec => DrainsWhileWet`: while there is water, neither sum wraps
  (`SmallRemainder`), and the quotient by the surface is monotone.

TLC has also checked, on the configurations of the runs, the invariants of these
proofs that no run lists (`WakeInv`, `BlinksOn`, `Alike`, `InflowTold`, `InStep`; the
last three with two messages under way to each sensor as well).

Only model-checked: the liveness properties (`AlarmRaised`, `ManualTakesOver`,
`FloodOpensGates`, `AlarmsFollow`, `Reconnects`, `ReceivesAgain`, `AlarmBlinks`,
`CommandableInTheEnd`, `Settles`, `Follows`); fairness and ENABLED are beyond the
proof system, as are recursive definitions and induction over data. Of
`Reconnects`, `ReceivesAgain`, `AlarmBlinks`, `CommandableInTheEnd`, `Settles`
and `Follows` the safety halves are proved: that there is no state from which the
promised step has ceased to be on its way, or that what has come to rest has arrived.

## 12. Not modelled

- Process start and stop: `main` of Controller and Collector, their shutdown
  hooks, `ControlLogic.shutdown`, `Subscriber.disconnect` and `DataManager`'s lazy
  singleton. While a process runs, `main` has created the one `DataManager`
  before any other thread exists; the races that are left are those of a hook
  with threads that are about to end with their process. No document says
  what is to hold then. The hazards list names the places.
- A Collector whose constructor failed half way is modelled in `Subscriber`, but
  what `main` makes of it (it logs the error and goes on) is not.
- Border router and web server, database script, dashboards, Cooja simulation.
- GET handlers, commands of the shell that only print, logs, and the LEDs that
  only show that a sensor published (green) or that its button was pushed (yellow).
