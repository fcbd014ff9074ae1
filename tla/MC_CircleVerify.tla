-------------------------- MODULE MC_CircleVerify --------------------------
(***************************************************************************)
(* Instances of CircleVerify for TLC: quarter turns, up to three quarters *)
(* between two calls.                                                      *)
(***************************************************************************)
EXTENDS CircleVerify

\* two clockwise turns, then one and a half counter-clockwise
MCMission == << [turns |-> 8, ccw |-> FALSE], [turns |-> 6, ccw |-> TRUE] >>
\* the specification's example: a circle of two turns
MCMissionTwoTurns == << [turns |-> 8, ccw |-> FALSE] >>
=============================================================================
