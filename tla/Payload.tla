------------------------------- MODULE Payload -------------------------------
(***************************************************************************)
(* How the motes read one field of a payload (common.c; coap_get_post_-    *)
(* variable for text).  A payload is the sequence of its fields, each with *)
(* its key, the type of its value and the number atoi makes of the value.  *)
(* "zeroish" is a number that atoi takes to be 0 but that is not written   *)
(* "0".  A JSON text may begin with a value that has no key.               *)
(***************************************************************************)
EXTENDS Integers, Sequences

Types == {"number", "zeroish", "true", "false", "string"}
NoKey == "none"

Bodies(Keys, Numbers) == Seq([key : Keys \cup {NoKey}, type : Types, n : Numbers])

\* What the reader functions return: 1 and a value, 0 for a bad value and -1
\* for a missing key.
Missing == [ret |-> -1, value |-> 0]
Bad == [ret |-> 0, value |-> 0]
Good(v) == [ret |-> 1, value |-> v]

\* The first field of the body that has the key and one of the types.
Hits(body, key, types) == {i \in DOMAIN body : body[i].key = key /\ body[i].type \in types}
FirstOf(I) == CHOOSE i \in I : \A j \in I : i <= j

\* key_buf is not initialised: it can hold anything, the key asked for
\* included, when a value comes before the first name.
Readings(json, key) ==
    {json} \cup {[i \in DOMAIN json |-> [json[i] EXCEPT !.key = IF @ = NoKey THEN key ELSE @]]}

\* The field that a reader finds, if any.  It passes over values of types other
\* than those it looks for, as if their key were not there.
NoField == [key |-> NoKey, type |-> "missing", n |-> 0]
Field(body, key, types) ==
    LET hits == Hits(body, key, types)
    IN IF hits = {} THEN NoField ELSE body[FirstOf(hits)]

IntValue(field) ==
    CASE field.type = "missing" -> Missing
      [] field.type = "number" -> Good(field.n)
      [] OTHER -> Bad

BoolValue(field) ==
    CASE field.type = "missing" -> Missing
      [] field.type = "true" -> Good(1)
      [] field.type = "false" -> Good(0)
      [] OTHER -> Bad

get_json_int_field(json, key) ==
    {IntValue(Field(j, key, {"number", "zeroish"})) : j \in Readings(json, key)}

get_json_bool_field(json, key) ==
    {BoolValue(Field(j, key, {"true", "false"})) : j \in Readings(json, key)}

\* In the body of a form the first variable of the name counts, whatever its
\* value is.
coap_get_post_variable(text, key) == Field(text, key, Types)
=============================================================================
