----------------------------- MODULE Subscriber -----------------------------
(***************************************************************************)
(* The Collector's MQTT subscriber (Subscriber.java).  Four kinds of       *)
(* threads share it: main runs the constructor, the MQTT client reports a  *)
(* lost connection and delivers messages, one call at a time, and every    *)
(* loss starts a scheduler whose thread tries to reconnect until it has    *)
(* subscribed again.  The field "scheduler" holds the latest of them only. *)
(***************************************************************************)
EXTENDS Integers, FiniteSets

CONSTANTS
    Topics,             \* what the Collector subscribes to
    Sensors, Topic,     \* the sensors and the topic each publishes on
    Records,            \* the sensors whose measurements come in one record
    Throttled,          \* the topics whose records are noted: "flow-rate"
    MinPeriod,          \* minPeriod of collector.properties
    MaxTime, MaxLosses, \* bounds of the clock and of the losses
    Null

ASSUME SensorsAssumption ==
    /\ Topic \in [Sensors -> Topics] /\ Throttled \subseteq Topics
    /\ Records \subseteq SUBSET Sensors
ASSUME NumbersAssumption ==
    /\ {MinPeriod, MaxTime, MaxLosses} \subseteq Nat
    /\ Null \notin Int
    /\ Null \notin [Sensors -> Int \cup {Null}]

VARIABLES
    main,           \* how far the constructor is
    remaining,      \* topics the constructor has yet to subscribe to
    client,         \* the MQTT client's connection
    subscribed,     \* topics the broker forwards to it
    broker,         \* the broker is reachable
    callback,       \* what the client's callback is doing
    lost,           \* a loss not yet reported
    scheduler,      \* the field: number of the latest scheduler, 0 for null
    executors,      \* the schedulers: program counter, shutdown requested
    lastRecord,     \* time of the last record noted, by sensor
    row,            \* timestamp of the last row in the database, by sensor
    now, losses

constructor == <<main, remaining>>
connection == <<client, subscribed, broker>>
records == <<lastRecord, row, now>>
vars == <<constructor, connection, callback, lost, scheduler, executors, records, losses>>
-----------------------------------------------------------------------------
Executors == 1..MaxLosses
Unused == [pc |-> "unused", todo |-> {}, stop |-> FALSE]
Idle == [pc |-> "idle", todo |-> {}]

\* The periodic task is scheduled and goes on.
Alive(e) == executors[e].pc \in {"waiting", "subscribing", "shutdown"} /\ ~executors[e].stop

Init ==
    /\ main = "connect" /\ remaining = Topics
    /\ client = "disconnected" /\ subscribed = {} /\ broker \in BOOLEAN
    /\ callback = Idle /\ lost = FALSE
    /\ scheduler = 0
    /\ executors = [e \in Executors |-> Unused]
    /\ lastRecord = Null
    /\ row = [s \in Sensors |-> Null]
    /\ now = 0 /\ losses = 0
-----------------------------------------------------------------------------
(* main: the constructor.                                                  *)

\* connect() waits for the connection or throws, and main gives up.
Connect ==
    /\ main = "connect"
    /\ IF broker THEN main' = "subscribe" /\ client' = "connected"
       ELSE main' = "failed" /\ UNCHANGED client
    /\ UNCHANGED <<remaining, subscribed, broker, callback, lost, scheduler, executors, records, losses>>

Subscribe ==
    /\ main = "subscribe"
    /\ client = "connected"
    /\ IF remaining = {} THEN main' = "fields" /\ UNCHANGED <<remaining, subscribed>>
       ELSE \E t \in remaining :
                /\ remaining' = remaining \ {t}
                /\ subscribed' = subscribed \cup {t}
                /\ UNCHANGED main
    /\ UNCHANGED <<client, broker, callback, lost, scheduler, executors, records, losses>>

\* subscribe() throws when the connection is gone, or when the broker does not
\* grant the subscription; main gives up with the topics it has so far.
SubscribeFails ==
    /\ main = "subscribe"
    /\ main' = "failed"
    /\ UNCHANGED <<remaining, connection, callback, lost, scheduler, executors, records, losses>>

\* Seeded fault: the map left null.
CreateNoMap ==
    /\ main = "fields"
    /\ main' = "done"
    /\ UNCHANGED <<remaining, connection, callback, lost, scheduler, executors, records, losses>>

\* The map is the last field assigned: messages that arrive before are lost.
CreateMap ==
    /\ main = "fields"
    /\ main' = "done"
    /\ lastRecord' = [s \in Sensors |-> Null]
    /\ UNCHANGED <<remaining, connection, callback, lost, scheduler, executors, row, now, losses>>
-----------------------------------------------------------------------------
(* The connection.  A new session has no subscriptions.                    *)

LoseConnection ==
    /\ client = "connected"
    /\ ~lost /\ callback.pc # "schedule"
    /\ losses < MaxLosses
    /\ losses' = losses + 1
    /\ client' = "disconnected"
    /\ subscribed' = {}
    /\ broker' \in BOOLEAN
    /\ lost' = TRUE
    /\ UNCHANGED <<constructor, callback, scheduler, executors, records>>

BrokerReturns ==
    /\ ~broker
    /\ broker' = TRUE
    /\ UNCHANGED <<constructor, client, subscribed, callback, lost, scheduler, executors, records, losses>>

AttemptEnds ==
    /\ client = "connecting"
    /\ client' = IF broker THEN "connected" ELSE "disconnected"
    /\ UNCHANGED <<constructor, subscribed, broker, callback, lost, scheduler, executors, records, losses>>
-----------------------------------------------------------------------------
(* connectionLost: the field is assigned, then the task is scheduled.      *)

\* Seeded fault: a scheduler still at work taken on again.
ConnectionLostReusing ==
    /\ lost
    /\ callback.pc = "idle"
    /\ lost' = FALSE
    /\ IF scheduler # 0 /\ ~executors[scheduler].stop /\ executors[scheduler].pc # "over"
       THEN UNCHANGED <<scheduler, executors, callback>>
       ELSE /\ scheduler' = losses
            /\ executors' = [executors EXCEPT ![losses].pc = "new"]
            /\ callback' = [callback EXCEPT !.pc = "schedule"]
    /\ UNCHANGED <<constructor, connection, records, losses>>

ConnectionLost ==
    /\ lost
    /\ callback.pc = "idle"
    /\ lost' = FALSE
    /\ scheduler' = losses
    /\ executors' = [executors EXCEPT ![losses].pc = "new"]
    /\ callback' = [callback EXCEPT !.pc = "schedule"]
    /\ UNCHANGED <<constructor, connection, records, losses>>

\* A scheduler that was shut down meanwhile rejects the task.
ScheduleReconnect ==
    /\ callback.pc = "schedule"
    /\ callback' = Idle
    /\ executors' = [executors EXCEPT ![scheduler].pc = IF @ = "new" THEN "waiting" ELSE @]
    /\ UNCHANGED <<constructor, connection, lost, scheduler, records, losses>>
-----------------------------------------------------------------------------
(* reconnect, run by each scheduler every reconnectionTimeout.             *)

\* A task that ends after its scheduler was shut down is the last one.
Rest(x) == [Unused EXCEPT !.pc = IF x.stop THEN "over" ELSE "waiting"]

Reconnect(e) ==
    /\ executors[e].pc = "waiting"
    /\ client # "connected"
    /\ client' = "connecting"
    /\ UNCHANGED <<constructor, subscribed, broker, callback, lost, scheduler, executors, records, losses>>

Reconnected(e) ==
    /\ executors[e].pc = "waiting"
    /\ client = "connected"
    /\ executors' = [executors EXCEPT ![e].pc = "subscribing", ![e].todo = Topics]
    /\ UNCHANGED <<constructor, connection, callback, lost, scheduler, records, losses>>

\* Seeded fault: subscribed once, not again.
ResubscribeNothing(e) ==
    /\ executors[e].pc = "subscribing"
    /\ executors' = [executors EXCEPT ![e].pc = "shutdown"]
    /\ UNCHANGED <<constructor, connection, callback, lost, scheduler, records, losses>>

Resubscribe(e) ==
    /\ executors[e].pc = "subscribing"
    /\ client = "connected"
    /\ IF executors[e].todo = {}
       THEN executors' = [executors EXCEPT ![e].pc = "shutdown"] /\ UNCHANGED subscribed
       ELSE \E t \in executors[e].todo :
                /\ executors' = [executors EXCEPT ![e].todo = @ \ {t}]
                /\ subscribed' = subscribed \cup {t}
    /\ UNCHANGED <<constructor, client, broker, callback, lost, scheduler, records, losses>>

\* The connection is gone, or the broker does not grant a subscription: this run
\* of the task ends, and the next one starts with all the topics again.
ResubscribeFails(e) ==
    /\ executors[e].pc = "subscribing"
    /\ executors' = [executors EXCEPT ![e] = Rest(@)]
    /\ UNCHANGED <<constructor, connection, callback, lost, scheduler, records, losses>>

\* shutdown() goes to the scheduler in the field: the task's own one or, when
\* the connection was lost again meanwhile, a later one.
Shutdown(e) ==
    /\ executors[e].pc = "shutdown"
    /\ executors' =
           LET stopped == [executors EXCEPT
                   ![scheduler].stop = TRUE,
                   ![scheduler].pc = IF @ \in {"new", "waiting"} THEN "over" ELSE @]
           IN [stopped EXCEPT ![e] = Rest(stopped[e])]
    /\ UNCHANGED <<constructor, connection, callback, lost, scheduler, records, losses>>
-----------------------------------------------------------------------------
(* messageArrived.  A message that is malformed, too fast for its sensors, *)
(* or comes before the map exists is dropped and changes nothing.          *)

\* minNextTime is fixed when the record arrives.
TooFast(s) == lastRecord[s] # Null /\ now - MinPeriod < lastRecord[s]

MessageArrived(R) ==
    /\ callback.pc = "idle" /\ ~lost
    /\ client = "connected" /\ \A s \in R : Topic[s] \in subscribed
    /\ lastRecord # Null
    /\ LET todo == {s \in R : ~TooFast(s)}
       IN todo # {} /\ callback' = [pc |-> "store", todo |-> todo]
    /\ UNCHANGED <<constructor, connection, lost, scheduler, executors, records, losses>>

\* The loop over the measurements goes on, or ends.
Stored(s) ==
    /\ callback.pc = "store" /\ s \in callback.todo
    /\ row' = [row EXCEPT ![s] = now]
    /\ callback' = IF callback.todo = {s} THEN Idle ELSE [callback EXCEPT !.todo = @ \ {s}]

\* Seeded fault: the time of the record not noted.
StoreUnnoted(s) ==
    /\ Stored(s)
    /\ UNCHANGED <<constructor, connection, lost, scheduler, executors, lastRecord, now, losses>>

\* The time is that of the row, not the one the message was judged by.
Store(s) ==
    /\ Stored(s)
    /\ lastRecord' = IF Topic[s] \in Throttled THEN [lastRecord EXCEPT ![s] = now] ELSE lastRecord
    /\ UNCHANGED <<constructor, connection, lost, scheduler, executors, now, losses>>

\* Seeded fault: the sensors noted all the same.
StoreFailsNoted ==
    /\ callback.pc = "store"
    /\ lastRecord' = [s \in Sensors |->
           IF s \in callback.todo /\ Topic[s] \in Throttled THEN now ELSE lastRecord[s]]
    /\ callback' = Idle
    /\ UNCHANGED <<constructor, connection, lost, scheduler, executors, row, now, losses>>

\* The exception drops what is left of the record, and the row it concerns is
\* not in the database.
StoreFails ==
    /\ callback.pc = "store"
    /\ callback' = Idle
    /\ UNCHANGED <<constructor, connection, lost, scheduler, executors, records, losses>>

Clock ==
    /\ now < MaxTime
    /\ now' = now + 1
    /\ UNCHANGED <<constructor, connection, callback, lost, scheduler, executors, lastRecord, row, losses>>
-----------------------------------------------------------------------------
Constructor == Connect \/ Subscribe \/ SubscribeFails \/ CreateMap
Callback == ConnectionLost \/ ScheduleReconnect \/ (\E s \in Sensors : Store(s)) \/ StoreFails
Task(e) == Reconnect(e) \/ Reconnected(e) \/ Resubscribe(e) \/ ResubscribeFails(e) \/ Shutdown(e)

Next ==
    \/ Constructor \/ Callback
    \/ \E e \in Executors : Task(e)
    \/ \E R \in Records : MessageArrived(R)
    \/ LoseConnection \/ BrokerReturns \/ AttemptEnds \/ Clock

Spec == Init /\ [][Next]_vars

\* Every thread that can go on does, and an attempt to connect ends.
FairSpec ==
    /\ Spec
    /\ WF_vars(Constructor) /\ WF_vars(Callback) /\ WF_vars(AttemptEnds)
    /\ \A e \in Executors : WF_vars(Task(e))
-----------------------------------------------------------------------------
(* Properties                                                              *)

\* Every variable has its type, and a subscriber whose constructor has
\* returned has its map.
TypeOK ==
    /\ main \in {"connect", "subscribe", "fields", "done", "failed"}
    /\ client \in {"disconnected", "connecting", "connected"}
    /\ remaining \subseteq Topics /\ subscribed \subseteq Topics
    /\ broker \in BOOLEAN /\ lost \in BOOLEAN
    /\ callback \in [pc : {"idle", "schedule", "store"}, todo : SUBSET Sensors]
    /\ scheduler \in 0..losses
    /\ executors \in [Executors -> [pc : {"unused", "new", "waiting", "subscribing", "shutdown", "over"},
                                    todo : SUBSET Topics, stop : BOOLEAN]]
    /\ lastRecord \in {Null} \cup [Sensors -> Int \cup {Null}]
    /\ main = "done" => lastRecord # Null
    /\ row \in [Sensors -> Int \cup {Null}]
    /\ now \in 0..MaxTime
    /\ losses \in 0..MaxLosses

\* Although the field is overwritten while earlier schedulers are still at
\* work, and a task may shut down a scheduler that is not its own, one that
\* goes on trying is left whenever the connection is gone and the loss has been
\* dealt with (connectionLost, reconnect).
SomeoneRetries ==
    losses > 0 /\ client # "connected" /\ ~lost /\ callback.pc # "schedule" =>
        \E e \in Executors : Alive(e)

\* No scheduler comes to rest with a topic missing.  Two tasks and main may be
\* subscribing at once, a loss undoes what all of them have done so far and
\* leaves them going on with what was left, the broker may refuse any of them
\* half way, and any task may shut down the latest scheduler; yet when nobody
\* tries any more the new connection has every topic, and so has the first one
\* once main is past its own subscriptions without having given up (reconnect,
\* connectionLost, the loop over the topics in the constructor).
RestsSubscribed ==
    client = "connected" /\ ~lost /\ callback.pc # "schedule"
        /\ (losses > 0 \/ main \in {"fields", "done"}) /\ (\A e \in Executors : ~Alive(e))
            => subscribed = Topics

\* No two rows of a sensor in S are closer than minPeriod.
RowsApart(S) ==
    \A s \in S : row[s] # Null /\ row'[s] # row[s] => row'[s] - row[s] >= MinPeriod

\* The sensors whose records are noted.
Noted == {s \in Sensors : Topic[s] \in Throttled}

\* Two rows of a sensor whose records are noted are minPeriod apart, however
\* long a message waits between the check and the store, and whichever of the
\* rows in between the database does not take (messageArrived, "Discard messages
\* arrived roughly at the same time").  Not covered is a row whose commit takes
\* effect although it throws, which is never noted: in this model a commit that
\* throws has stored nothing.
FlowsSpaced == [][RowsApart(Noted)]_vars

\* The documentation says so of every sensor; water levels are never noted.
EverySensorSpaced == [][RowsApart(Sensors)]_vars

\* A sensor is judged by its last row, never by a measurement that was lost
\* with the rest of its record: what one failure drops is welcome in the next
\* record (messageArrived: the exception leaves the loop over the measurements).
JudgedByRows == lastRecord # Null => \A s \in Noted : lastRecord[s] = row[s]

\* The broker does not grant a subscription although it is connected.
Refuses == client = "connected" /\ \E e \in Executors : ResubscribeFails(e)

\* Once the broker stays reachable and grants what it is asked for, the
\* subscriber receives all its topics again, for good, at whichever point the
\* connection was lost or a subscription refused: while main was subscribing,
\* while a task was, or twice in a row (connectionLost, reconnect).  After a
\* refusal to main with no loss nobody tries again.
ReceivesAgain ==
    <>[]broker /\ <>[][~Refuses]_vars /\ <>(main = "done" \/ losses > 0)
        => <>[](subscribed = Topics)
=============================================================================
