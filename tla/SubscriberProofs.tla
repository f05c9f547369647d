-------------------------- MODULE SubscriberProofs --------------------------
(***************************************************************************)
(* Theorems about Subscriber, for any sensors and any number of losses.    *)
(***************************************************************************)
EXTENDS Subscriber, TLAPS

USE DEF constructor

Schedulers == [pc : {"unused", "new", "waiting", "subscribing", "shutdown", "over"},
            todo : SUBSET Topics, stop : BOOLEAN]

\* A scheduler beyond the latest has not been created; a record being stored
\* was judged by the map.
TypeInv ==
    /\ TypeOK
    /\ \A e \in Executors : e > scheduler => executors[e] = Unused
    /\ callback.pc = "store" => lastRecord # Null

LEMMA UnusedIsRecord == Unused \in Schedulers
  BY DEF Unused, Schedulers

\* What rest makes of a scheduler.
LEMMA RestType == ASSUME NEW x \in Schedulers
                  PROVE  /\ Rest(x) \in Schedulers
                         /\ ~Rest(x).stop
                         /\ Rest(x).pc = IF x.stop THEN "over" ELSE "waiting"
  BY DEF Rest, Unused, Schedulers

LEMMA TypeInit == Init => TypeInv
  <1> SUFFICES ASSUME Init PROVE TypeInv
    OBVIOUS
  <1>1. executors \in [Executors -> Schedulers]
    BY UnusedIsRecord DEF Init
  <1>2. callback \in [pc : {"idle", "schedule", "store"}, todo : SUBSET Sensors] /\ callback.pc # "store"
    BY DEF Init, Idle
  <1>3. now \in 0..MaxTime /\ losses \in 0..MaxLosses /\ scheduler \in 0..losses
    BY NumbersAssumption DEF Init
  <1>4. \A e \in Executors : executors[e] = Unused
    BY DEF Init
  <1> QED BY <1>1, <1>2, <1>3, <1>4 DEF Init, TypeInv, TypeOK, Schedulers

\* What one task does to the schedulers.
LEMMA TaskType ==
  ASSUME TypeInv, NEW e \in Executors, Task(e)
  PROVE  /\ executors' \in [Executors -> Schedulers]
         /\ \A d \in Executors : d > scheduler => executors'[d] = Unused
         /\ subscribed' \subseteq Topics
         /\ client' \in {"disconnected", "connecting", "connected"}
         /\ UNCHANGED <<constructor, broker, callback, lost, scheduler, records, losses>>
  <1>0. executors \in [Executors -> Schedulers] /\ subscribed \subseteq Topics
        /\ client \in {"disconnected", "connecting", "connected"} /\ scheduler \in Int
    BY NumbersAssumption DEF TypeInv, TypeOK, Schedulers
  <1>u. ASSUME executors[e].pc # "unused" PROVE ~(e > scheduler) /\ scheduler \in Executors
    <2>1. ~(e > scheduler)
      BY <1>u DEF TypeInv, Unused
    <2>2. scheduler \in 0..MaxLosses /\ e \in 1..MaxLosses
      BY NumbersAssumption DEF TypeInv, TypeOK, Executors
    <2> QED BY <2>1, <2>2, NumbersAssumption DEF Executors
  <1>1. CASE Reconnect(e)
    BY <1>1, <1>0 DEF Reconnect, TypeInv
  <1>2. CASE Reconnected(e)
    <2>1. executors' = [executors EXCEPT ![e] = [[@ EXCEPT !.pc = "subscribing"] EXCEPT !.todo = Topics]]
      BY <1>2, <1>0 DEF Reconnected
    <2>2. [[executors[e] EXCEPT !.pc = "subscribing"] EXCEPT !.todo = Topics] \in Schedulers
      BY <1>0 DEF Schedulers
    <2>3. ~(e > scheduler)
      BY <1>2, <1>u DEF Reconnected
    <2>4. executors' \in [Executors -> Schedulers]
      BY <2>1, <2>2, <1>0
    <2>5. \A d \in Executors : d > scheduler => executors'[d] = executors[d]
      BY <2>1, <2>3, <1>0
    <2> QED BY <2>4, <2>5, <1>2, <1>0 DEF Reconnected, connection, TypeInv
  <1>3. CASE Resubscribe(e)
    <2>1. ~(e > scheduler)
      BY <1>3, <1>u DEF Resubscribe
    <2>2. PICK x \in Schedulers : executors' = [executors EXCEPT ![e] = x] /\ subscribed' \subseteq Topics
      <3>1. CASE executors[e].todo = {}
        <4>1. executors' = [executors EXCEPT ![e] = [executors[e] EXCEPT !.pc = "shutdown"]] /\ subscribed' = subscribed
          BY <1>3, <3>1 DEF Resubscribe
        <4>2. [executors[e] EXCEPT !.pc = "shutdown"] \in Schedulers
          BY <1>0 DEF Schedulers
        <4> QED BY <4>1, <4>2, <1>0
      <3>2. CASE executors[e].todo # {}
        <4>1. PICK t \in executors[e].todo :
                  /\ executors' = [executors EXCEPT ![e].todo = @ \ {t}]
                  /\ subscribed' = subscribed \cup {t}
          BY <1>3, <3>2 DEF Resubscribe
        <4>2. [executors[e] EXCEPT !.todo = @ \ {t}] \in Schedulers /\ t \in Topics
          BY <1>0 DEF Schedulers
        <4> QED BY <4>1, <4>2, <1>0
      <3> QED BY <3>1, <3>2
    <2>3. executors' \in [Executors -> Schedulers]
      BY <2>2, <1>0
    <2>4. \A d \in Executors : d > scheduler => executors'[d] = executors[d]
      BY <2>1, <2>2, <1>0
    <2> QED BY <2>2, <2>3, <2>4, <1>3, <1>0 DEF Resubscribe, TypeInv
  <1>5. CASE ResubscribeFails(e)
    <2>1. ~(e > scheduler)
      BY <1>5, <1>u DEF ResubscribeFails
    <2>2. executors' = [executors EXCEPT ![e] = Rest(executors[e])]
      BY <1>5 DEF ResubscribeFails
    <2>3. Rest(executors[e]) \in Schedulers
      BY <1>0, RestType
    <2>4. executors' \in [Executors -> Schedulers]
      BY <2>2, <2>3, <1>0
    <2>5. \A d \in Executors : d > scheduler => executors'[d] = executors[d]
      BY <2>1, <2>2, <1>0
    <2> QED BY <2>4, <2>5, <1>5, <1>0 DEF ResubscribeFails, connection, TypeInv
  <1>4. CASE Shutdown(e)
    <2> DEFINE stopped == [executors EXCEPT
                   ![scheduler].stop = TRUE,
                   ![scheduler].pc = IF @ \in {"new", "waiting"} THEN "over" ELSE @]
    <2>1. ~(e > scheduler) /\ scheduler \in Executors
      BY <1>4, <1>u DEF Shutdown
    <2>2. stopped \in [Executors -> Schedulers] /\ \A d \in Executors : d # scheduler => stopped[d] = executors[d]
      BY <1>0, <2>1 DEF Schedulers
    <2>3. executors' = [stopped EXCEPT ![e] = Rest(stopped[e])]
      BY <1>4 DEF Shutdown
    <2> HIDE DEF stopped
    <2>4. Rest(stopped[e]) \in Schedulers
      BY <2>2, RestType
    <2>5. executors' \in [Executors -> Schedulers]
      BY <2>2, <2>3, <2>4
    <2>6. \A d \in Executors : d > scheduler => executors'[d] = executors[d]
      BY <2>1, <2>2, <2>3, <1>0
    <2> QED BY <2>5, <2>6, <1>4, <1>0 DEF Shutdown, connection, TypeInv
  <1> QED BY <1>1, <1>2, <1>3, <1>4, <1>5 DEF Task

LEMMA TypeStep == TypeInv /\ [Next]_vars => TypeInv'
  <1> SUFFICES ASSUME TypeInv, [Next]_vars PROVE TypeInv'
    OBVIOUS
  <1>0. /\ executors \in [Executors -> Schedulers]
        /\ losses \in Nat /\ MaxLosses \in Nat /\ now \in Int /\ now \in 0..MaxTime
        /\ scheduler \in 0..losses /\ losses \in 0..MaxLosses
    BY NumbersAssumption DEF TypeInv, TypeOK, Schedulers
  <1>1. CASE Connect
    BY <1>1 DEF Connect, TypeInv, TypeOK, records
  <1>2. CASE Subscribe \/ SubscribeFails
    BY <1>2 DEF Subscribe, SubscribeFails, TypeInv, TypeOK, connection, records
  <1>3. CASE CreateMap
    <2>1. lastRecord' \in [Sensors -> Int \cup {Null}]
      BY <1>3 DEF CreateMap
    <2>2. lastRecord' # Null
      BY <2>1, NumbersAssumption
    <2> QED BY <1>3, <2>1, <2>2 DEF CreateMap, TypeInv, TypeOK, connection
  <1>4. CASE ConnectionLost
    <2>1. losses \in Executors => executors' \in [Executors -> Schedulers]
      <3>1. \A x \in Schedulers : [x EXCEPT !.pc = "new"] \in Schedulers
        BY DEF Schedulers
      <3> QED BY <1>4, <1>0, <3>1 DEF ConnectionLost
    <2>2. executors' \in [Executors -> Schedulers]
      BY <2>1, <1>4, <1>0 DEF ConnectionLost
    <2>3. \A e \in Executors : e > losses => executors'[e] = Unused
      <3>1. SUFFICES ASSUME NEW e \in Executors, e > losses PROVE executors'[e] = Unused
        OBVIOUS
      <3>2. e > scheduler /\ e # losses
        BY <1>0, <3>1 DEF Executors
      <3> QED BY <3>2, <1>4, <1>0 DEF ConnectionLost, TypeInv
    <2>4. scheduler' = losses /\ losses' = losses /\ scheduler' \in 0..losses'
      BY <1>4, <1>0 DEF ConnectionLost
    <2>5. callback' \in [pc : {"idle", "schedule", "store"}, todo : SUBSET Sensors] /\ callback'.pc # "store"
      BY <1>4 DEF ConnectionLost, TypeInv, TypeOK
    <2> QED BY <2>2, <2>3, <2>4, <2>5, <1>4 DEF ConnectionLost, TypeInv, TypeOK, connection, records, Schedulers
  <1>5. CASE ScheduleReconnect
    <2>1. executors' \in [Executors -> Schedulers]
      <3>1. \A x \in Schedulers : [x EXCEPT !.pc = IF @ = "new" THEN "waiting" ELSE @] \in Schedulers
        BY DEF Schedulers
      <3> QED BY <1>5, <1>0, <3>1 DEF ScheduleReconnect
    <2>2. \A e \in Executors : e > scheduler => executors'[e] = Unused
      <3>1. \A e \in Executors : e > scheduler => e # scheduler
        BY <1>0 DEF Executors
      <3> QED BY <3>1, <1>5, <1>0 DEF ScheduleReconnect, TypeInv
    <2>3. callback' \in [pc : {"idle", "schedule", "store"}, todo : SUBSET Sensors] /\ callback'.pc # "store"
      BY <1>5 DEF ScheduleReconnect, Idle
    <2> QED BY <2>1, <2>2, <2>3, <1>5 DEF ScheduleReconnect, TypeInv, TypeOK, connection, records, Schedulers
  <1>6. ASSUME NEW s \in Sensors, Store(s) PROVE TypeInv'
    <2>1. lastRecord \in [Sensors -> Int \cup {Null}]
      BY <1>6 DEF Store, Stored, TypeInv, TypeOK
    <2>2. lastRecord' \in [Sensors -> Int \cup {Null}] /\ row' \in [Sensors -> Int \cup {Null}]
      BY <1>6, <1>0, <2>1 DEF Store, Stored, TypeInv, TypeOK
    <2>3. lastRecord' # Null
      BY <2>2, NumbersAssumption
    <2>4. callback' \in [pc : {"idle", "schedule", "store"}, todo : SUBSET Sensors]
      BY <1>6 DEF Store, Stored, Idle, TypeInv, TypeOK
    <2> QED BY <2>2, <2>3, <2>4, <1>6 DEF Store, Stored, TypeInv, TypeOK, connection
  <1>7. CASE StoreFails
    <2>1. callback' \in [pc : {"idle", "schedule", "store"}, todo : SUBSET Sensors] /\ callback'.pc # "store"
      BY <1>7 DEF StoreFails, Idle
    <2> QED BY <2>1, <1>7 DEF StoreFails, TypeInv, TypeOK, connection, records
  <1>8. ASSUME NEW e \in Executors, Task(e) PROVE TypeInv'
    BY <1>8, TaskType DEF TypeInv, TypeOK, records, Schedulers
  <1>9. ASSUME NEW R \in Records, MessageArrived(R) PROVE TypeInv'
    <2>1. callback' \in [pc : {"idle", "schedule", "store"}, todo : SUBSET Sensors]
      BY <1>9, SensorsAssumption DEF MessageArrived
    <2> QED BY <2>1, <1>9 DEF MessageArrived, TypeInv, TypeOK, connection, records
  <1>10. CASE LoseConnection
    BY <1>10, <1>0 DEF LoseConnection, TypeInv, TypeOK, records
  <1>11. CASE BrokerReturns
    BY <1>11 DEF BrokerReturns, TypeInv, TypeOK, records
  <1>12. CASE AttemptEnds
    BY <1>12 DEF AttemptEnds, TypeInv, TypeOK, records
  <1>13. CASE Clock
    BY <1>13, <1>0, NumbersAssumption DEF Clock, TypeInv, TypeOK, connection
  <1>14. CASE UNCHANGED vars
    BY <1>14 DEF vars, TypeInv, TypeOK, connection, records
  <1> QED BY <1>1, <1>2, <1>3, <1>4, <1>5, <1>6, <1>7, <1>8, <1>9, <1>10, <1>11,
             <1>12, <1>13, <1>14 DEF Next, Constructor, Callback

\* No thread finds the fields of another in a state it cannot handle: the map
\* is there once main is done and whenever a record is stored (Subscriber).
THEOREM TypeCorrect == Spec => []TypeOK
  <1>1. TypeInv => TypeOK
    BY DEF TypeInv
  <1> QED BY <1>1, TypeInit, TypeStep, PTL DEF Spec
-----------------------------------------------------------------------------
(* Throttling.                                                             *)

\* The map is created once, before any row, and holds the time of the last row
\* of each sensor that is noted; what is about to be stored is late enough.
ThrottleInv ==
    /\ IF lastRecord = Null THEN \A s \in Noted : row[s] = Null ELSE main = "done"
    /\ JudgedByRows
    /\ callback.pc = "store" =>
           \A s \in Noted : s \in callback.todo /\ row[s] # Null => now - MinPeriod >= row[s]

LEMMA ThrottleStep == TypeInv /\ ThrottleInv /\ [Next]_vars => ThrottleInv' /\ RowsApart(Noted)
  <1> SUFFICES ASSUME TypeInv, ThrottleInv, [Next]_vars
               PROVE  ThrottleInv' /\ RowsApart(Noted)
    OBVIOUS
  <1>0. now \in Int /\ MinPeriod \in Nat /\ row \in [Sensors -> Int \cup {Null}] /\ Null \notin Int
        /\ Noted \subseteq Sensors
    BY NumbersAssumption DEF TypeInv, TypeOK, Noted
  <1>a. ASSUME UNCHANGED <<lastRecord, row, now>>,
               main = "done" => main' = "done",
               callback'.pc = "store" => UNCHANGED callback
        PROVE  ThrottleInv' /\ RowsApart(Noted)
    BY <1>a DEF ThrottleInv, JudgedByRows, RowsApart, Noted
  <1>1. CASE \/ Connect \/ Subscribe \/ SubscribeFails
            \/ LoseConnection \/ BrokerReturns \/ AttemptEnds
    BY <1>1, <1>a DEF Connect, Subscribe, SubscribeFails, LoseConnection, BrokerReturns, AttemptEnds, records
  <1>2. CASE CreateMap
    <2>1. lastRecord = Null /\ \A s \in Noted : row[s] = Null
      BY <1>2 DEF CreateMap, ThrottleInv
    <2>2. lastRecord' = [s \in Sensors |-> Null] /\ main' = "done" /\ UNCHANGED <<row, now, callback>>
      BY <1>2 DEF CreateMap
    <2>3. lastRecord' # Null
      BY <2>2, NumbersAssumption
    <2> QED BY <2>1, <2>2, <2>3, <1>0 DEF ThrottleInv, JudgedByRows, RowsApart, Noted
  <1>3. CASE ConnectionLost
    BY <1>3, <1>a DEF ConnectionLost, TypeInv, TypeOK, records, connection
  <1>4. CASE ScheduleReconnect \/ StoreFails
    BY <1>4, <1>a DEF ScheduleReconnect, StoreFails, Idle, records, connection
  <1>5. ASSUME NEW t \in Sensors, Store(t) PROVE ThrottleInv' /\ RowsApart(Noted)
    <2>1. /\ callback.pc = "store" /\ t \in callback.todo
          /\ row' = [row EXCEPT ![t] = now]
          /\ lastRecord' = (IF Topic[t] \in Throttled THEN [lastRecord EXCEPT ![t] = now] ELSE lastRecord)
          /\ UNCHANGED <<main, now>>
      BY <1>5 DEF Store, Stored
    <2>2. lastRecord # Null /\ lastRecord \in [Sensors -> Int \cup {Null}] /\ main = "done"
      BY <2>1 DEF TypeInv, TypeOK, ThrottleInv
    <2>3. lastRecord' \in [Sensors -> Int \cup {Null}] /\ lastRecord' # Null
      <3>1. lastRecord' \in [Sensors -> Int \cup {Null}]
        BY <2>1, <2>2, <1>0
      <3> QED BY <3>1, NumbersAssumption
    <2>4. callback'.pc = "store" => t \notin callback'.todo /\ callback'.todo \subseteq callback.todo
      BY <1>5 DEF Store, Stored, Idle, TypeInv, TypeOK
    <2>5. t \in Noted => row'[t] = now /\ lastRecord'[t] = now /\ (row[t] # Null => now - MinPeriod >= row[t])
      BY <2>1, <2>2, <1>0 DEF ThrottleInv, Noted
    <2>6. \A s \in Noted \ {t} : row'[s] = row[s] /\ lastRecord'[s] = lastRecord[s]
      BY <2>1, <2>2, <1>0
    <2>7. \A s \in Noted : lastRecord'[s] = row'[s]
      BY <2>2, <2>5, <2>6 DEF ThrottleInv, JudgedByRows
    <2>8. callback'.pc = "store" =>
              \A s \in Noted : s \in callback'.todo /\ row'[s] # Null => now' - MinPeriod >= row'[s]
      BY <2>1, <2>4, <2>6 DEF ThrottleInv
    <2>9. ThrottleInv'
      BY <2>1, <2>2, <2>3, <2>7, <2>8 DEF ThrottleInv, JudgedByRows, Noted
    <2>10. ASSUME NEW s \in Noted, row[s] # Null, row'[s] # row[s] PROVE row'[s] - row[s] >= MinPeriod
      <3>1. s = t
        BY <2>6, <2>10
      <3>2. row'[s] = now /\ now - MinPeriod >= row[s] /\ row[s] \in Int
        BY <2>5, <2>10, <3>1, <1>0
      <3> QED BY <3>2, <1>0
    <2> QED BY <2>9, <2>10 DEF RowsApart
  <1>6. ASSUME NEW e \in Executors, Task(e) PROVE ThrottleInv' /\ RowsApart(Noted)
    BY <1>6, <1>a, TaskType DEF records
  <1>7. ASSUME NEW R \in Records, MessageArrived(R) PROVE ThrottleInv' /\ RowsApart(Noted)
    <2>1. /\ callback' = [pc |-> "store", todo |-> {s \in R : ~TooFast(s)}]
          /\ lastRecord # Null /\ UNCHANGED <<main, lastRecord, row, now>>
      BY <1>7 DEF MessageArrived, records
    <2>2. ASSUME NEW s \in Noted, s \in callback'.todo, row[s] # Null PROVE now - MinPeriod >= row[s]
      <3>1. ~TooFast(s) /\ lastRecord[s] = row[s] /\ row[s] \in Int
        BY <2>1, <2>2, <1>0 DEF ThrottleInv, JudgedByRows
      <3> QED BY <2>2, <3>1, <1>0 DEF TooFast
    <2> QED BY <2>1, <2>2 DEF ThrottleInv, JudgedByRows, RowsApart, Noted
  <1>8. CASE Clock
    <2>1. now' = now + 1 /\ UNCHANGED <<main, callback, lastRecord, row>>
      BY <1>8 DEF Clock
    <2>2. ASSUME NEW s \in Noted, row[s] # Null, now - MinPeriod >= row[s] PROVE now' - MinPeriod >= row[s]
      BY <2>1, <2>2, <1>0
    <2> QED BY <2>1, <2>2 DEF ThrottleInv, JudgedByRows, RowsApart, Noted
  <1>9. CASE UNCHANGED vars
    BY <1>9, <1>a DEF vars, records
  <1> QED BY <1>1, <1>2, <1>3, <1>4, <1>5, <1>6, <1>7, <1>8, <1>9 DEF Next, Constructor, Callback

\* The rows of a flow sensor are minPeriod apart however long a message waits
\* between its check and its store (messageArrived).
THEOREM Spaced == Spec => FlowsSpaced
  <1>1. Init => ThrottleInv
    BY DEF Init, Idle, ThrottleInv, JudgedByRows, Noted
  <1> QED BY <1>1, ThrottleStep, TypeInit, TypeStep, PTL DEF Spec, FlowsSpaced

\* A sensor is judged by its last row, whatever the database fails to store
\* (messageArrived).
THEOREM Judged == Spec => []JudgedByRows
  <1>1. Init => ThrottleInv
    BY DEF Init, Idle, ThrottleInv, JudgedByRows, Noted
  <1>2. ThrottleInv => JudgedByRows
    BY DEF ThrottleInv
  <1> QED BY <1>1, <1>2, ThrottleStep, TypeInit, TypeStep, PTL DEF Spec
-----------------------------------------------------------------------------
(* Reconnection.                                                           *)

\* A scheduler that goes on and that no task can shut down any more.
Leaked == \E e \in Executors : e # scheduler /\ Alive(e)

\* The latest scheduler is the only one that can be shut down.  A task that
\* runs on a scheduler already shut down has been outlived by the one that did
\* it; the latest one is not about to shut itself down before it has subscribed.
RetryInv ==
    /\ callback.pc = "schedule" => ~lost
    /\ IF lost THEN scheduler < losses ELSE scheduler = losses
    /\ scheduler \in Executors => executors[scheduler].pc # "unused"
    /\ \A e \in Executors : executors[e].stop =>
           executors[e].pc = "over" \/ (executors[e].pc \in {"subscribing", "shutdown"} /\ Leaked)
    /\ scheduler \in Executors /\ callback.pc = "schedule" =>
           (executors[scheduler].pc = "new" /\ ~executors[scheduler].stop) \/ Leaked
    /\ scheduler \in Executors /\ ~lost /\ callback.pc # "schedule" =>
           \/ Alive(scheduler)
           \/ Leaked
           \/ client = "connected"
    /\ scheduler \in Executors /\ ~lost /\ executors[scheduler].pc \in {"subscribing", "shutdown"} =>
           client = "connected"

LEMMA RetryInit == Init => RetryInv
  BY NumbersAssumption DEF Init, RetryInv, Unused, Idle, Executors

\* Steps that change no scheduler and leave a connection alone.
LEMMA RetryFrame ==
  ASSUME RetryInv, UNCHANGED <<scheduler, executors, lost, losses>>,
         callback'.pc = "schedule" <=> callback.pc = "schedule",
         client = "connected" => client' = "connected"
  PROVE  RetryInv'
  BY DEF RetryInv, Leaked, Alive

\* A task that moves on, and stays stopped or not, changes nothing that counts.
LEMMA TaskMoves ==
  ASSUME TypeInv, RetryInv, NEW e \in Executors, NEW x \in Schedulers,
         executors' = [executors EXCEPT ![e] = x],
         UNCHANGED <<scheduler, lost, losses, callback, client>>,
         executors[e].pc \in {"waiting", "subscribing"},
         \/ x.pc = "waiting" /\ ~x.stop /\ ~executors[e].stop
         \/ x.pc = "over" /\ executors[e].stop
         \/ x.pc \in {"subscribing", "shutdown"} /\ x.stop = executors[e].stop /\ client = "connected"
  PROVE  RetryInv'
  <1>0. executors \in [Executors -> Schedulers]
    BY DEF TypeInv, TypeOK, Schedulers
  <1>1. \A d \in Executors : executors'[d] = IF d = e THEN x ELSE executors[d]
    BY <1>0
  <1>2. \A d \in Executors : Alive(d) => Alive(d)'
    BY <1>1 DEF Alive
  <1>3. Leaked => Leaked'
    BY <1>2 DEF Leaked
  <1>4. executors[e].stop => executors[e].pc = "subscribing" /\ Leaked
    BY DEF RetryInv
  <1> QED BY <1>1, <1>2, <1>3, <1>4 DEF RetryInv

LEMMA ShutdownKeepsRetry ==
  ASSUME TypeInv, RetryInv, NEW e \in Executors, Shutdown(e)
  PROVE  RetryInv'
  <1> DEFINE stopped == [executors EXCEPT
                 ![scheduler].stop = TRUE,
                 ![scheduler].pc = IF @ \in {"new", "waiting"} THEN "over" ELSE @]
  <1>0. executors \in [Executors -> Schedulers] /\ executors[e].pc = "shutdown"
        /\ UNCHANGED <<scheduler, lost, losses, callback, client>>
    BY DEF TypeInv, TypeOK, Schedulers, Shutdown, connection
  <1>1. scheduler \in Executors
    <2>1. ~(e > scheduler)
      BY <1>0 DEF TypeInv, Unused
    <2>2. scheduler \in 0..MaxLosses /\ e \in 1..MaxLosses
      BY NumbersAssumption DEF TypeInv, TypeOK, Executors
    <2> QED BY <2>1, <2>2, NumbersAssumption DEF Executors
  <1>2. executors' = [stopped EXCEPT ![e] = Rest(stopped[e])]
    BY DEF Shutdown
  <1>3. /\ stopped \in [Executors -> Schedulers]
        /\ stopped[scheduler].stop
        /\ stopped[scheduler].pc = IF executors[scheduler].pc \in {"new", "waiting"} THEN "over" ELSE executors[scheduler].pc
        /\ \A d \in Executors : d # scheduler => stopped[d] = executors[d]
    BY <1>0, <1>1 DEF Schedulers
  <1> HIDE DEF stopped
  <1>4. executors'[e] = Rest(stopped[e]) /\ \A d \in Executors : d # e => executors'[d] = stopped[d]
    BY <1>2, <1>3
  <1>5. ~executors'[e].stop /\ executors'[e].pc = IF stopped[e].stop THEN "over" ELSE "waiting"
    BY <1>3, <1>4, RestType
  <1>6. CASE e = scheduler
    <2>1. executors'[scheduler].pc = "over" /\ ~executors'[scheduler].stop
      BY <1>3, <1>5, <1>6
    <2>2. \A d \in Executors : d # scheduler => executors'[d] = executors[d]
      BY <1>3, <1>4, <1>6
    <2>3. Leaked => Leaked'
      BY <2>2, <1>0 DEF Leaked, Alive
    <2>4. ~lost => client = "connected"
      BY <1>0, <1>1, <1>6 DEF RetryInv
    <2>5. callback.pc = "schedule" => Leaked
      BY <1>0, <1>1, <1>6 DEF RetryInv
    <2> QED BY <1>0, <2>1, <2>2, <2>3, <2>4, <2>5 DEF RetryInv
  <1>7. CASE e # scheduler
    <2>1. Leaked'
      <3>1. CASE executors[e].stop
        <4>1. PICK a \in Executors : a # scheduler /\ Alive(a)
          BY <1>0, <3>1 DEF RetryInv, Leaked
        <4>2. a # e
          BY <3>1, <4>1 DEF Alive
        <4>3. executors'[a] = executors[a]
          BY <1>3, <1>4, <4>1, <4>2
        <4> QED BY <1>0, <4>1, <4>3 DEF Leaked, Alive
      <3>2. CASE ~executors[e].stop
        <4>1. executors'[e].pc = "waiting" /\ ~executors'[e].stop
          BY <1>3, <1>5, <1>7, <3>2
        <4> QED BY <1>0, <1>7, <4>1 DEF Leaked, Alive
      <3> QED BY <3>1, <3>2
    <2>2. executors'[scheduler] = stopped[scheduler]
      BY <1>1, <1>4, <1>7
    <2>3. executors[scheduler].pc # "unused" /\ executors[scheduler] \in Schedulers
      BY <1>0, <1>1 DEF RetryInv
    <2>4. executors'[scheduler].pc \in {"over", "subscribing", "shutdown"}
      BY <1>3, <2>2, <2>3 DEF Schedulers
    <2>5. executors'[scheduler].pc \in {"subscribing", "shutdown"} => executors'[scheduler].pc = executors[scheduler].pc
      BY <1>3, <2>2
    <2>6. \A d \in Executors \ {e, scheduler} : executors'[d] = executors[d]
      BY <1>3, <1>4
    <2>7. \A d \in Executors : executors'[d].stop =>
              executors'[d].pc = "over" \/ (executors'[d].pc \in {"subscribing", "shutdown"} /\ Leaked')
      BY <2>1, <2>4, <2>6, <1>5 DEF RetryInv
    <2> QED BY <1>0, <2>1, <2>4, <2>5, <2>7 DEF RetryInv
  <1> QED BY <1>6, <1>7

LEMMA RetryStep == TypeInv /\ RetryInv /\ [Next]_vars => RetryInv'
  <1> SUFFICES ASSUME TypeInv, RetryInv, [Next]_vars PROVE RetryInv'
    OBVIOUS
  <1>0. executors \in [Executors -> Schedulers] /\ losses \in Nat /\ scheduler \in Nat
        /\ losses \in 0..MaxLosses /\ MaxLosses \in Nat
    BY NumbersAssumption DEF TypeInv, TypeOK, Schedulers
  <1>1. CASE \/ Connect \/ Subscribe \/ SubscribeFails \/ CreateMap
            \/ BrokerReturns \/ AttemptEnds \/ Clock \/ UNCHANGED vars
    BY <1>1, RetryFrame DEF Connect, Subscribe, SubscribeFails, CreateMap, BrokerReturns, AttemptEnds, Clock, vars, connection
  <1>2. CASE StoreFails \/ \E s \in Sensors : Store(s)
    <2>1. CASE StoreFails
      BY <2>1, RetryFrame DEF StoreFails, Idle, connection
    <2>2. ASSUME NEW s \in Sensors, Store(s) PROVE RetryInv'
      <3>1. callback.pc = "store" /\ callback'.pc # "schedule"
        BY <2>2 DEF Store, Stored, Idle, TypeInv, TypeOK
      <3> QED BY <2>2, <3>1, RetryFrame DEF Store, Stored, connection
    <2> QED BY <1>2, <2>1, <2>2
  <1>3. ASSUME NEW R \in Records, MessageArrived(R) PROVE RetryInv'
    BY <1>3, RetryFrame DEF MessageArrived, connection
  <1>4. CASE LoseConnection
    <2>1. lost' /\ losses' = losses + 1 /\ callback' = callback /\ callback.pc # "schedule"
          /\ scheduler' = scheduler /\ executors' = executors
      BY <1>4 DEF LoseConnection
    <2>2. scheduler' < losses'
      BY <2>1, <1>0 DEF RetryInv
    <2> QED BY <2>1, <2>2 DEF RetryInv, Leaked, Alive
  <1>5. CASE ConnectionLost
    <2>1. ~lost' /\ scheduler' = losses /\ losses' = losses /\ client' = client /\ callback'.pc = "schedule"
      BY <1>5 DEF ConnectionLost, TypeInv, TypeOK, connection
    <2>2. scheduler < losses /\ losses \in Executors
      BY <1>5, <1>0 DEF ConnectionLost, RetryInv, Executors
    <2>3. executors[losses] = Unused
      BY <2>2, <1>0 DEF TypeInv
    <2>4. executors'[losses].pc = "new" /\ ~executors'[losses].stop
          /\ \A d \in Executors : d # losses => executors'[d] = executors[d]
      BY <1>5, <1>0, <2>2, <2>3 DEF ConnectionLost, Unused
    <2>5. Leaked => Leaked'
      <3>1. SUFFICES ASSUME Leaked PROVE Leaked'
        OBVIOUS
      <3>2. PICK a \in Executors : a # scheduler /\ Alive(a)
        BY <3>1 DEF Leaked
      <3>3. a # losses
        BY <2>3, <3>2 DEF Alive, Unused
      <3> QED BY <2>1, <2>4, <3>2, <3>3 DEF Leaked, Alive
    <2> QED BY <2>1, <2>2, <2>4, <2>5 DEF RetryInv
  <1>6. CASE ScheduleReconnect
    <2>1. callback.pc = "schedule" /\ callback'.pc = "idle" /\ UNCHANGED <<scheduler, lost, losses, client>>
      BY <1>6 DEF ScheduleReconnect, Idle, connection
    <2>2. executors' = [executors EXCEPT ![scheduler].pc = IF @ = "new" THEN "waiting" ELSE @]
      BY <1>6 DEF ScheduleReconnect
    <2>3. /\ \A d \in Executors : d # scheduler => executors'[d] = executors[d]
          /\ \A d \in Executors : executors'[d].stop = executors[d].stop
          /\ scheduler \in Executors =>
                executors'[scheduler].pc = IF executors[scheduler].pc = "new" THEN "waiting" ELSE executors[scheduler].pc
      BY <2>2, <1>0 DEF Schedulers
    <2>4. Leaked => Leaked'
      BY <2>1, <2>3 DEF Leaked, Alive
    <2>5. scheduler \in Executors => Alive(scheduler)' \/ Leaked'
      BY <2>1, <2>3, <2>4 DEF RetryInv, Alive
    <2> QED BY <2>1, <2>3, <2>4, <2>5 DEF RetryInv
  <1>7. ASSUME NEW e \in Executors, Task(e) PROVE RetryInv'
    <2>1. CASE Reconnect(e)
      BY <2>1, RetryFrame DEF Reconnect
    <2>2. CASE Reconnected(e)
      <3>1. executors' = [executors EXCEPT ![e] = [executors[e] EXCEPT !.pc = "subscribing", !.todo = Topics]]
        BY <2>2, <1>0 DEF Reconnected
      <3>2. executors[e].pc = "waiting" /\ client = "connected" /\ UNCHANGED <<scheduler, lost, losses, callback, client>>
        BY <2>2 DEF Reconnected, connection
      <3>3. [executors[e] EXCEPT !.pc = "subscribing", !.todo = Topics] \in Schedulers
        BY <1>0 DEF Schedulers
      <3>4. [executors[e] EXCEPT !.pc = "subscribing", !.todo = Topics].pc = "subscribing"
            /\ [executors[e] EXCEPT !.pc = "subscribing", !.todo = Topics].stop = executors[e].stop
        BY <1>0 DEF Schedulers
      <3> QED BY <3>1, <3>2, <3>3, <3>4, TaskMoves
    <2>3. CASE Resubscribe(e)
      <3>0. executors[e].pc = "subscribing" /\ client = "connected"
            /\ UNCHANGED <<scheduler, lost, losses, callback, client>>
        BY <2>3 DEF Resubscribe
      <3>1. PICK x \in Schedulers :
                /\ executors' = [executors EXCEPT ![e] = x]
                /\ x.pc \in {"subscribing", "shutdown"}
                /\ x.stop = executors[e].stop
        <4>1. CASE executors[e].todo = {}
          <5>1. executors' = [executors EXCEPT ![e] = [executors[e] EXCEPT !.pc = "shutdown"]]
            BY <2>3, <4>1 DEF Resubscribe
          <5>2. [executors[e] EXCEPT !.pc = "shutdown"] \in Schedulers
            BY <1>0 DEF Schedulers
          <5>3. [executors[e] EXCEPT !.pc = "shutdown"].pc = "shutdown"
                /\ [executors[e] EXCEPT !.pc = "shutdown"].stop = executors[e].stop
            BY <1>0 DEF Schedulers
          <5> QED BY <5>1, <5>2, <5>3
        <4>2. CASE executors[e].todo # {}
          <5>1. PICK t \in executors[e].todo :
                    executors' = [executors EXCEPT ![e] = [executors[e] EXCEPT !.todo = @ \ {t}]]
            BY <2>3, <4>2 DEF Resubscribe
          <5>2. [executors[e] EXCEPT !.todo = @ \ {t}] \in Schedulers
            BY <1>0 DEF Schedulers
          <5>3. [executors[e] EXCEPT !.todo = @ \ {t}].pc = "subscribing"
                /\ [executors[e] EXCEPT !.todo = @ \ {t}].stop = executors[e].stop
            BY <1>0, <3>0 DEF Schedulers
          <5> QED BY <5>1, <5>2, <5>3
        <4> QED BY <4>1, <4>2
      <3> QED BY <3>0, <3>1, TaskMoves
    <2>4. CASE Shutdown(e)
      BY <2>4, ShutdownKeepsRetry
    <2>5. CASE ResubscribeFails(e)
      <3>1. executors[e].pc = "subscribing" /\ UNCHANGED <<scheduler, lost, losses, callback, client>>
        BY <2>5 DEF ResubscribeFails, connection
      <3> DEFINE x == Rest(executors[e])
      <3>2. executors' = [executors EXCEPT ![e] = x]
        BY <2>5 DEF ResubscribeFails
      <3>3. executors[e] \in Schedulers
        BY <1>0
      <3>4. x \in Schedulers
            /\ \/ x.pc = "waiting" /\ ~x.stop /\ ~executors[e].stop
               \/ x.pc = "over" /\ executors[e].stop
        BY <3>3, RestType
      <3> HIDE DEF x
      <3> QED BY <3>1, <3>2, <3>4, TaskMoves
    <2> QED BY <1>7, <2>1, <2>2, <2>3, <2>4, <2>5 DEF Task
  <1> QED BY <1>1, <1>2, <1>3, <1>4, <1>5, <1>6, <1>7 DEF Next, Constructor, Callback

\* Whenever the connection is gone and connectionLost has dealt with it, some
\* scheduler goes on trying, although tasks may shut down schedulers that are
\* not their own (connectionLost, reconnect).
THEOREM Retries == Spec => []SomeoneRetries
  <1>1. TypeInv /\ RetryInv => SomeoneRetries
    <2> SUFFICES ASSUME TypeInv, RetryInv, losses > 0, client # "connected", ~lost, callback.pc # "schedule"
                 PROVE  \E e \in Executors : Alive(e)
      BY DEF SomeoneRetries
    <2>1. scheduler \in Executors
      BY NumbersAssumption DEF RetryInv, TypeInv, TypeOK, Executors
    <2> QED BY <2>1 DEF RetryInv, Leaked
  <1> QED BY <1>1, RetryInit, RetryStep, TypeInit, TypeStep, PTL DEF Spec
-----------------------------------------------------------------------------
(* Completeness.                                                           *)

\* The connection has all it is for.
Complete == client = "connected" /\ subscribed = Topics

\* What has been subscribed to on this connection, by main before the first loss
\* and by the latest scheduler after it; the schedulers that can still be at work
\* when the latest one is not go on for ever.
RestInv ==
    /\ losses = 0 =>
           /\ client # "connecting"
           /\ main = "connect" => client = "disconnected" /\ remaining = Topics
           /\ main = "subscribe" => client = "connected" /\ Topics \subseteq subscribed \cup remaining
           /\ main \in {"fields", "done"} => Complete
    /\ scheduler \in Executors /\ ~lost =>
           /\ executors[scheduler].pc = "subscribing" => Topics \subseteq subscribed \cup executors[scheduler].todo
           /\ executors[scheduler].pc = "shutdown" => Complete
           /\ callback.pc # "schedule" => Alive(scheduler) \/ Leaked \/ Complete

LEMMA RestInit == Init => RestInv
  BY NumbersAssumption DEF Init, RestInv, Executors

\* Steps that leave main, the schedulers and a working connection alone.
LEMMA RestFrame ==
  ASSUME RestInv, UNCHANGED <<main, remaining, scheduler, executors, lost, losses>>,
         callback'.pc = "schedule" <=> callback.pc = "schedule",
         subscribed' = subscribed,
         client = "connected" \/ losses = 0 => client' = client
  PROVE  RestInv'
  BY DEF RestInv, Complete, Leaked, Alive

\* A scheduler at work has been created by a loss.
LEMMA AtWork ==
  ASSUME TypeInv, NEW e \in Executors, executors[e].pc # "unused"
  PROVE  scheduler \in Executors /\ losses # 0 /\ scheduler # 0
  <1>1. ~(e > scheduler)
    BY DEF TypeInv, Unused
  <1>2. scheduler \in 0..losses /\ losses \in 0..MaxLosses /\ e \in 1..MaxLosses
    BY NumbersAssumption DEF TypeInv, TypeOK, Executors
  <1> QED BY <1>1, <1>2, NumbersAssumption DEF Executors

\* A task that has finished a step, and whether or not it is the latest one.
LEMMA TaskRests ==
  ASSUME TypeInv, RetryInv, RestInv, NEW e \in Executors, NEW x \in Schedulers,
         executors' = [executors EXCEPT ![e] = x],
         UNCHANGED <<scheduler, lost, losses, callback, client>>,
         subscribed \subseteq subscribed', subscribed' \subseteq Topics,
         executors[e].pc \in {"waiting", "subscribing"},
         Alive(e) => x.pc \in {"waiting", "subscribing", "shutdown"} /\ ~x.stop,
         x.pc = "subscribing" => Topics \subseteq subscribed' \cup x.todo,
         x.pc = "shutdown" => client = "connected" /\ subscribed' = Topics
  PROVE  RestInv'
  <1>0. executors \in [Executors -> Schedulers] /\ subscribed \subseteq Topics
    BY DEF TypeInv, TypeOK, Schedulers
  <1>1. scheduler \in Executors /\ losses' # 0
    BY AtWork
  <1>2. \A d \in Executors : executors'[d] = IF d = e THEN x ELSE executors[d]
    BY <1>0
  <1>3. \A d \in Executors : Alive(d) => Alive(d)'
    BY <1>2 DEF Alive
  <1>4. (Leaked => Leaked') /\ (Complete => Complete')
    BY <1>0, <1>3 DEF Leaked, Complete
  <1>5. ~lost /\ executors'[scheduler].pc = "subscribing" =>
            Topics \subseteq subscribed' \cup executors'[scheduler].todo
    BY <1>1, <1>2 DEF RestInv
  <1>6. ~lost /\ executors'[scheduler].pc = "shutdown" => Complete'
    BY <1>1, <1>2, <1>4 DEF RestInv, Complete
  <1> QED BY <1>1, <1>3, <1>4, <1>5, <1>6 DEF RestInv

LEMMA ResubscribeRests ==
  ASSUME TypeInv, RetryInv, RestInv, NEW e \in Executors, Resubscribe(e)
  PROVE  RestInv'
  <1>0. executors[e].pc = "subscribing" /\ executors[e] \in Schedulers /\ subscribed \subseteq Topics
        /\ executors \in [Executors -> Schedulers]
        /\ client = "connected"
        /\ UNCHANGED <<main, remaining, scheduler, lost, losses, callback, client>>
    BY DEF TypeInv, TypeOK, Schedulers, Resubscribe
  <1>w. scheduler \in Executors /\ losses # 0
    BY <1>0, AtWork
  <1>2. CASE executors[e].todo = {} /\ (e = scheduler /\ ~lost)
    <2> DEFINE x == [executors[e] EXCEPT !.pc = "shutdown"]
    <2>1. executors' = [executors EXCEPT ![e] = x] /\ subscribed' = subscribed
      BY <1>2 DEF Resubscribe
    <2>2. x \in Schedulers /\ x.pc = "shutdown" /\ x.stop = executors[e].stop
      BY <1>0 DEF Schedulers
    <2>3. subscribed = Topics
      BY <1>0, <1>2, <1>w DEF RestInv
    <2>4. Alive(e) => ~x.stop
      BY <2>2 DEF Alive
    <2> HIDE DEF x
    <2> QED BY <1>0, <1>2, <2>1, <2>2, <2>3, <2>4, TaskRests
  <1>3. CASE executors[e].todo # {} \/ ~(e = scheduler /\ ~lost)
    <2>1. PICK x \in Schedulers :
              /\ executors' = [executors EXCEPT ![e] = x]
              /\ x.stop = executors[e].stop /\ x.pc \in {"subscribing", "shutdown"}
              /\ \/ x.pc = "shutdown" /\ subscribed' = subscribed /\ executors[e].todo = {}
                 \/ \E t \in executors[e].todo :
                        /\ x.pc = "subscribing" /\ x.todo = executors[e].todo \ {t}
                        /\ subscribed' = subscribed \cup {t}
      <3>1. CASE executors[e].todo = {}
        <4>1. executors' = [executors EXCEPT ![e] = [executors[e] EXCEPT !.pc = "shutdown"]] /\ subscribed' = subscribed
          BY <1>3, <3>1 DEF Resubscribe
        <4>2. [executors[e] EXCEPT !.pc = "shutdown"] \in Schedulers
              /\ [executors[e] EXCEPT !.pc = "shutdown"].pc = "shutdown"
              /\ [executors[e] EXCEPT !.pc = "shutdown"].stop = executors[e].stop
          BY <1>0 DEF Schedulers
        <4> QED BY <3>1, <4>1, <4>2
      <3>2. CASE executors[e].todo # {}
        <4>1. PICK t \in executors[e].todo :
                  /\ executors' = [executors EXCEPT ![e] = [executors[e] EXCEPT !.todo = @ \ {t}]]
                  /\ subscribed' = subscribed \cup {t}
          BY <1>3, <3>2 DEF Resubscribe
        <4>2. [executors[e] EXCEPT !.todo = @ \ {t}] \in Schedulers
              /\ [executors[e] EXCEPT !.todo = @ \ {t}].pc = "subscribing"
              /\ [executors[e] EXCEPT !.todo = @ \ {t}].stop = executors[e].stop
              /\ [executors[e] EXCEPT !.todo = @ \ {t}].todo = executors[e].todo \ {t}
          BY <1>0 DEF Schedulers
        <4> QED BY <4>1, <4>2
      <3> QED BY <3>1, <3>2
    <2>2. \A d \in Executors : executors'[d] = IF d = e THEN x ELSE executors[d]
      BY <1>0, <2>1
    <2>3. \A d \in Executors : Alive(d) => Alive(d)'
      BY <2>1, <2>2 DEF Alive
    <2>4. executors[e].todo \subseteq Topics
      BY <1>0 DEF Schedulers
    <2>5. (Leaked => Leaked') /\ (Complete => Complete')
      BY <1>0, <2>1, <2>3, <2>4 DEF Leaked, Complete
    <2>6. ~lost /\ executors'[scheduler].pc = "subscribing" =>
              Topics \subseteq subscribed' \cup executors'[scheduler].todo
      BY <1>0, <1>w, <1>3, <2>1, <2>2 DEF RestInv
    <2>7. ~lost /\ executors'[scheduler].pc = "shutdown" => Complete'
      BY <1>0, <1>w, <1>3, <2>1, <2>2, <2>5 DEF RestInv
    <2> QED BY <1>0, <1>w, <2>3, <2>5, <2>6, <2>7 DEF RestInv
  <1> QED BY <1>2, <1>3

LEMMA ResubscribeFailsRests ==
  ASSUME TypeInv, RetryInv, RestInv, NEW e \in Executors, ResubscribeFails(e)
  PROVE  RestInv'
  <1> DEFINE x == Rest(executors[e])
  <1>1. executors[e].pc = "subscribing" /\ executors[e] \in Schedulers
        /\ executors \in [Executors -> Schedulers] /\ subscribed \subseteq Topics
        /\ UNCHANGED <<main, remaining, scheduler, lost, losses, callback, client, subscribed>>
    BY DEF TypeInv, TypeOK, Schedulers, ResubscribeFails, connection
  <1>2. executors' = [executors EXCEPT ![e] = x]
    BY DEF ResubscribeFails
  <1>3. x \in Schedulers /\ x.pc \in {"over", "waiting"} /\ ~x.stop
        /\ x.pc = IF executors[e].stop THEN "over" ELSE "waiting"
    BY <1>1, RestType
  <1>4. Alive(e) => x.pc = "waiting"
    BY <1>3 DEF Alive
  <1>5. (x.pc # "subscribing" /\ x.pc # "shutdown") /\ (Alive(e) => x.pc = "waiting" /\ ~x.stop)
    BY <1>3, <1>4
  <1> HIDE DEF x
  <1> QED BY <1>1, <1>2, <1>3, <1>5, TaskRests

LEMMA ShutdownRests ==
  ASSUME TypeInv, RetryInv, RestInv, NEW e \in Executors, Shutdown(e)
  PROVE  RestInv'
  <1> DEFINE stopped == [executors EXCEPT
                 ![scheduler].stop = TRUE,
                 ![scheduler].pc = IF @ \in {"new", "waiting"} THEN "over" ELSE @]
  <1>0. executors \in [Executors -> Schedulers] /\ executors[e].pc = "shutdown"
        /\ UNCHANGED <<scheduler, lost, losses, callback, client, subscribed>>
    BY DEF TypeInv, TypeOK, Schedulers, Shutdown, connection
  <1>1. scheduler \in Executors /\ losses # 0
    BY <1>0, AtWork
  <1>2. executors' = [stopped EXCEPT ![e] = Rest(stopped[e])]
    BY DEF Shutdown
  <1>3. /\ stopped \in [Executors -> Schedulers]
        /\ stopped[scheduler].stop
        /\ stopped[scheduler].todo = executors[scheduler].todo
        /\ stopped[scheduler].pc = IF executors[scheduler].pc \in {"new", "waiting"} THEN "over" ELSE executors[scheduler].pc
        /\ \A d \in Executors : d # scheduler => stopped[d] = executors[d]
    BY <1>0, <1>1 DEF Schedulers
  <1> HIDE DEF stopped
  <1>4. executors'[e] = Rest(stopped[e]) /\ \A d \in Executors : d # e => executors'[d] = stopped[d]
    BY <1>2, <1>3
  <1>5. ~executors'[e].stop /\ executors'[e].pc = IF stopped[e].stop THEN "over" ELSE "waiting"
    BY <1>3, <1>4, RestType
  <1>6. CASE e = scheduler
    <2>1. executors'[scheduler].pc = "over"
      BY <1>3, <1>5, <1>6
    <2>2. ~lost => Complete'
      BY <1>0, <1>1, <1>6 DEF RestInv, Complete
    <2> QED BY <1>0, <1>1, <2>1, <2>2 DEF RestInv
  <1>7. CASE e # scheduler
    <2>1. Leaked'
      <3>1. CASE executors[e].stop
        <4>1. PICK a \in Executors : a # scheduler /\ Alive(a)
          BY <1>0, <3>1 DEF RetryInv, Leaked
        <4>2. a # e
          BY <3>1, <4>1 DEF Alive
        <4>3. executors'[a] = executors[a]
          BY <1>3, <1>4, <4>1, <4>2
        <4> QED BY <1>0, <4>1, <4>3 DEF Leaked, Alive
      <3>2. CASE ~executors[e].stop
        <4>1. executors'[e].pc = "waiting" /\ ~executors'[e].stop
          BY <1>3, <1>5, <1>7, <3>2
        <4> QED BY <1>0, <1>7, <4>1 DEF Leaked, Alive
      <3> QED BY <3>1, <3>2
    <2>2. executors'[scheduler] = stopped[scheduler]
      BY <1>1, <1>4, <1>7
    <2> QED BY <1>0, <1>1, <1>3, <2>1, <2>2 DEF RestInv, Complete
  <1> QED BY <1>6, <1>7

LEMMA RestStep == TypeInv /\ RetryInv /\ RestInv /\ [Next]_vars => RestInv'
  <1> SUFFICES ASSUME TypeInv, RetryInv, RestInv, [Next]_vars PROVE RestInv'
    OBVIOUS
  <1>0. /\ executors \in [Executors -> Schedulers] /\ losses \in Nat /\ scheduler \in Nat
        /\ scheduler \in 0..losses /\ subscribed \subseteq Topics /\ remaining \subseteq Topics
    BY NumbersAssumption DEF TypeInv, TypeOK, Schedulers
  <1>1. CASE BrokerReturns \/ AttemptEnds \/ Clock \/ StoreFails \/ UNCHANGED vars
    BY <1>1, RestFrame DEF BrokerReturns, AttemptEnds, Clock, StoreFails, Idle, vars, connection, RestInv
  <1>2. ASSUME NEW s \in Sensors, Store(s) PROVE RestInv'
    <2>1. callback.pc = "store" /\ callback'.pc # "schedule"
      BY <1>2 DEF Store, Stored, Idle, TypeInv, TypeOK
    <2> QED BY <1>2, <2>1, RestFrame DEF Store, Stored, connection
  <1>3. ASSUME NEW R \in Records, MessageArrived(R) PROVE RestInv'
    BY <1>3, RestFrame DEF MessageArrived, connection
  <1>4. CASE Connect
    <2>1. UNCHANGED <<remaining, subscribed, scheduler, executors, callback, lost, losses>>
      BY <1>4 DEF Connect
    <2>2. /\ client' = "connected" \/ (client' = client /\ main' = "failed")
          /\ main = "connect" /\ main' \in {"subscribe", "failed"}
          /\ client' = "connected" => main' = "subscribe" \/ client = "connected"
      BY <1>4 DEF Connect
    <2>3. (Complete => Complete') /\ (Leaked => Leaked') /\ \A e \in Executors : Alive(e) => Alive(e)'
      BY <2>1, <2>2 DEF Complete, Leaked, Alive
    <2>4. losses = 0 => /\ client' # "connecting"
                        /\ main' = "subscribe" => client' = "connected" /\ Topics \subseteq subscribed' \cup remaining'
      BY <1>4, <2>1, <2>2 DEF Connect, RestInv
    <2> QED BY <2>1, <2>2, <2>3, <2>4 DEF RestInv
  <1>5. CASE Subscribe
    <2>1. UNCHANGED <<client, callback, lost, scheduler, executors, losses>>
          /\ subscribed \subseteq subscribed' /\ subscribed' \subseteq Topics
      BY <1>5, <1>0 DEF Subscribe
    <2>2. (Complete => Complete') /\ (Leaked => Leaked') /\ \A e \in Executors : Alive(e) => Alive(e)'
      BY <2>1 DEF Complete, Leaked, Alive
    <2>3. losses = 0 => /\ client' = "connected" /\ main' # "failed" /\ main' # "connect"
                        /\ main' = "subscribe" => Topics \subseteq subscribed' \cup remaining'
                        /\ main' \in {"fields", "done"} => subscribed' = Topics
      BY <1>5, <1>0 DEF Subscribe, RestInv
    <2> QED BY <2>1, <2>2, <2>3 DEF RestInv, Complete
  <1>6. CASE CreateMap \/ SubscribeFails
    BY <1>6 DEF CreateMap, SubscribeFails, RestInv, Complete, Leaked, Alive, connection
  <1>7. CASE LoseConnection
    BY <1>7, <1>0 DEF LoseConnection, RestInv
  <1>8. CASE ConnectionLost
    <2>1. ~lost' /\ scheduler' = losses /\ losses' = losses /\ callback'.pc = "schedule"
      BY <1>8 DEF ConnectionLost, TypeInv, TypeOK
    <2>2. losses # 0
      BY <1>8, <1>0 DEF ConnectionLost, RetryInv
    <2>3. losses \in Executors => executors'[losses].pc = "new"
      BY <1>8, <1>0 DEF ConnectionLost, Schedulers
    <2> QED BY <2>1, <2>2, <2>3 DEF RestInv
  <1>9. CASE ScheduleReconnect
    <2>1. callback.pc = "schedule" /\ UNCHANGED <<constructor, client, subscribed, scheduler, lost, losses>>
      BY <1>9 DEF ScheduleReconnect, connection
    <2>2. /\ \A d \in Executors : d # scheduler => executors'[d] = executors[d]
          /\ \A d \in Executors : executors'[d].stop = executors[d].stop /\ executors'[d].todo = executors[d].todo
          /\ scheduler \in Executors =>
                executors'[scheduler].pc = IF executors[scheduler].pc = "new" THEN "waiting" ELSE executors[scheduler].pc
      BY <1>9, <1>0 DEF ScheduleReconnect, Schedulers
    <2>3. scheduler \in Executors => Alive(scheduler)' \/ Leaked'
      BY <2>1, <2>2 DEF RetryInv, Alive, Leaked
    <2> QED BY <2>1, <2>2, <2>3 DEF RestInv, Complete
  <1>10. ASSUME NEW e \in Executors, Task(e) PROVE RestInv'
    <2>1. CASE Reconnect(e)
      <3>1. losses # 0
        BY <2>1, AtWork DEF Reconnect
      <3> QED BY <2>1, <3>1, RestFrame DEF Reconnect
    <2>2. CASE Reconnected(e)
      <3> DEFINE x == [executors[e] EXCEPT !.pc = "subscribing", !.todo = Topics]
      <3>1. executors' = [executors EXCEPT ![e] = x]
        BY <2>2, <1>0 DEF Reconnected
      <3>2. x \in Schedulers /\ x.pc = "subscribing" /\ x.todo = Topics /\ x.stop = executors[e].stop
        BY <1>0 DEF Schedulers
      <3>3. executors[e].pc = "waiting" /\ UNCHANGED <<scheduler, lost, losses, callback, client, subscribed>>
        BY <2>2 DEF Reconnected, connection
      <3>4. Alive(e) => ~x.stop
        BY <3>2 DEF Alive
      <3> HIDE DEF x
      <3> QED BY <1>0, <3>1, <3>2, <3>3, <3>4, TaskRests
    <2> QED BY <1>10, <2>1, <2>2, ResubscribeRests, ResubscribeFailsRests, ShutdownRests DEF Task
  <1> QED BY <1>1, <1>2, <1>3, <1>4, <1>5, <1>6, <1>7, <1>8, <1>9, <1>10 DEF Next, Constructor, Callback

LEMMA Reconnection == Spec => [](TypeInv /\ RetryInv /\ RestInv)
  BY TypeInit, TypeStep, RetryInit, RetryStep, RestInit, RestStep, PTL DEF Spec

\* When no scheduler is at work any more, and there has been one or main is past
\* its subscriptions, the connection has every topic, whatever was lost or
\* refused meanwhile and whichever task shut down which scheduler (reconnect,
\* connectionLost).
THEOREM RestsComplete == Spec => []RestsSubscribed
  <1>1. TypeInv /\ RetryInv /\ RestInv => RestsSubscribed
    <2> SUFFICES ASSUME TypeInv, RetryInv, RestInv, client = "connected", ~lost, callback.pc # "schedule",
                        losses > 0 \/ main \in {"fields", "done"}, \A e \in Executors : ~Alive(e)
                 PROVE  subscribed = Topics
      BY DEF RestsSubscribed
    <2>1. CASE losses = 0
      BY <2>1 DEF RestInv, Complete, TypeInv, TypeOK
    <2>2. CASE losses # 0
      <3>1. scheduler \in Executors
        BY <2>2, NumbersAssumption DEF RetryInv, TypeInv, TypeOK, Executors
      <3> QED BY <3>1 DEF RestInv, Complete, Leaked
    <2> QED BY <2>1, <2>2
  <1> QED BY <1>1, Reconnection, PTL
=============================================================================
