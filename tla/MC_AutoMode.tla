---------------------------- MODULE MC_AutoMode ----------------------------
(* Missions and bounds for checking AutoMode with TLC.                     *)
EXTENDS AutoMode

\* a command record
C(id, p1, terrain, loc) == [id |-> id, p1 |-> p1, terrain |-> terrain,
                            loc |-> loc]

\* every command kind but the delay: a takeoff, a waypoint with a delay,
\* an attitude hold, a script-time command with a 1 s timeout, a waypoint
\* without delay followed by a terrain-relative timed loiter (so that
\* set_next_wp needs the loiter's terrain data), a command Auto does not
\* know, a terrain-relative loiter-to-altitude, and a land at a location
MissionFull ==
    << C("TAKEOFF", 0, FALSE, FALSE), C("WAYPOINT", 2, FALSE, TRUE),
       C("ATTITUDE_TIME", 0, FALSE, FALSE), C("SCRIPT_TIME", 1, FALSE, FALSE),
       C("WAYPOINT", 0, FALSE, TRUE), C("LOITER_TIME", 1, TRUE, TRUE),
       C("UNKNOWN", 0, FALSE, FALSE), C("LOITER_TO_ALT", 0, TRUE, TRUE),
       C("LAND", 0, FALSE, TRUE) >>

\* the scenario of the specification: takeoff, waypoint without delay,
\* land; before the land a script-time command with a 1 s timeout and a
\* 1 s delay
MissionNominal ==
    << C("TAKEOFF", 0, FALSE, FALSE), C("WAYPOINT", 0, FALSE, TRUE),
       C("SCRIPT_TIME", 1, FALSE, FALSE), C("NAV_DELAY", 1, FALSE, FALSE),
       C("LAND", 0, FALSE, FALSE) >>

\* an attitude hold followed by a waypoint
MissionAttitude ==
    << C("TAKEOFF", 0, FALSE, FALSE), C("ATTITUDE_TIME", 0, FALSE, FALSE),
       C("WAYPOINT", 0, FALSE, TRUE) >>

AllFaults == FaultKinds
NoFaults == {}
====
