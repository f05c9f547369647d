--------------------------- MODULE MCActuatorMote ----------------------------
(* ActuatorMote with the requests of the Controller, and some from elsewhere *)
(* that the handlers have to tell from them.                                 *)
EXTENDS ActuatorMote

Param(k, t, v) == [key |-> k, type |-> t, n |-> v]
Put(f, body) == [format |-> f, body |-> body]

SomeRequests == {
    Put("json", <<Param("opening_level", "number", 0)>>),
    Put("text", <<Param("opening_level", "number", 2)>>),
    Put("json", <<Param("other", "number", 1), Param("opening_level", "number", 3)>>),
    Put("json", <<Param("opening_level", "zeroish", 0)>>),
    Put("text", <<Param("opening_level", "string", 0)>>),
    Put("json", <<Param(NoKey, "number", 2)>>),
    Put("none", <<Param("opening_level", "number", 1)>>),
    Put("json", <<Param("state", "true", 0)>>),
    Put("text", <<Param("state", "false", 0)>>),
    Put("text", <<Param("state", "string", 0)>>)}
=============================================================================
