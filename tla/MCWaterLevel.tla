---------------------------- MODULE MCWaterLevel -----------------------------
(* WaterLevel with flows of 2, 3 and 1 per percent and two percents, so that  *)
(* the balance goes from -8 to 4 and the modulus of the noise through zero.   *)
EXTENDS WaterLevel

SmallFlows == [c \in Channels |-> IF c = "inflow" THEN 2 ELSE IF c = "outflow-1" THEN 3 ELSE 1]
=============================================================================
