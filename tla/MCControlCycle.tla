--------------------------- MODULE MCControlCycle ---------------------------
(* ControlCycle on a scaled instance.  The thresholds start at 48, 52 and 60 *)
(* and can be typed to 51 or to NaN, so that 50 is low or normal, 52 normal  *)
(* or above a threshold, and 62 anything but low.                            *)
EXTENDS ControlCycle

CONSTANTS n, r

ThreeLevels == {50, 52, 62}
BlindLevels == {50, 65}
OneRate == {5}
TwoRates == {0, 23}
NoTyping == {}
TypedWithNaN == {51, n}
=============================================================================
