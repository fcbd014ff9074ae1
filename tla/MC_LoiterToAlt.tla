--------------------------- MODULE MC_LoiterToAlt ---------------------------
(***************************************************************************)
(* Instances of LoiterToAlt for TLC, altitudes in cm above home.  The     *)
(* band is 5 cm on each side; the controller may cross the 9 cm band in   *)
(* one sample when the vehicle starts more than 9 cm away.                *)
(***************************************************************************)
EXTENDS LoiterToAlt

MCAlts == 0..24
MCStartAlts == {0, 12}
\* a climb, a command whose terrain frame does not convert, a descent
MCMission == << [alt |-> 18, ok |-> TRUE],
                [alt |-> 6, ok |-> FALSE],
                [alt |-> 6, ok |-> TRUE] >>
AllFaults == {"gust", "ground"}
NoFaults == {}
=============================================================================
