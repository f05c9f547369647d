--------------------------- MODULE MCSensorLink ----------------------------
(* SensorLink with the back-off capped at four intervals and enough losses   *)
(* in a row to reach the cap.                                                *)
EXTENDS SensorLink

AnyFault == {"link", "network", "queue"}
FullQueue == {"queue"}
=============================================================================
