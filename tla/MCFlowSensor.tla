---------------------------- MODULE MCFlowSensor -----------------------------
(* FlowSensor on a small scale: a push is one of two percents, a percent four *)
(* units of flow, the noise one unit, and LINEAR_VAR has moduli 0, 1 and 2.   *)
EXTENDS FlowSensor

TwoChannels == {"inflow", "outflow-1"}
=============================================================================
