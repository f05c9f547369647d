------------------------------ MODULE Branches ------------------------------
(***************************************************************************)
(* The four branches of AutomaticControlUnit.run, as the module that takes *)
(* the decision (ControlCycle) and the one that carries it out (Actuation) *)
(* both know them.                                                         *)
(***************************************************************************)
EXTENDS Integers

Zones == {"flood", "high", "low", "normal"}

\* The changes of opening a branch may order for the primary gates.
Moves(zone, steps, full) ==
    CASE zone = "flood" -> {full}
      [] zone = "high" -> steps
      [] zone = "low" -> {-s : s \in steps}
      [] zone = "normal" -> steps \cup {-s : s \in steps} \cup {0}
=============================================================================
