---------------------------- MODULE MCSubscriber ----------------------------
(* Subscriber with a mote that carries two flow sensors, as the demonstration *)
(* does, and with the mote that carries the water level sensor.               *)
EXTENDS Subscriber

BothTopics == {"flow-rate", "water-level"}
FlowRate == {"flow-rate"}

FlowSensors == {"inflow", "outflow-1"}
FlowTopic == [s \in FlowSensors |-> "flow-rate"]
FlowMote == {FlowSensors}

LevelSensor == {"level"}
LevelTopic == [s \in LevelSensor |-> "water-level"]
LevelMote == {LevelSensor}
=============================================================================
