------------------------- MODULE MC_PlaneCrashDetect -------------------------
(***************************************************************************)
(* Instances of PlaneCrashDetect for TLC: the 5 Hz scheduler period, the  *)
(* flight stages and landing phases of an Auto mission, and sensor        *)
(* readings of a vehicle in flight, on the ground, on its side, hitting   *)
(* something, and gliding with a lost GPS.                                *)
(***************************************************************************)
EXTENDS PlaneCrashDetect

PreLaunch == [stage |-> "NORMAL", land |-> "none", suppressed |-> TRUE]
TakeOff == [stage |-> "TAKEOFF", land |-> "none", suppressed |-> FALSE]
Cruise == [stage |-> "NORMAL", land |-> "none", suppressed |-> FALSE]
Approach == [stage |-> "LAND", land |-> "approach", suppressed |-> FALSE]
Flare == [stage |-> "LAND", land |-> "flare", suppressed |-> FALSE]
GoAround == [stage |-> "ABORT_LANDING", land |-> "none", suppressed |-> FALSE]

MCPhases == {PreLaunch, TakeOff, Cruise, Approach, Flare, GoAround}
\* a bungee or hand launch, the mission, a landing with a go-around
MCStageSteps == {<<PreLaunch, TakeOff>>, <<TakeOff, Cruise>>,
                 <<Cruise, Approach>>, <<Approach, Flare>>,
                 <<Approach, GoAround>>, <<GoAround, Cruise>>}

Level == [gps |-> "3d", gpsMoving |-> FALSE, air |-> FALSE,
          airLast |-> FALSE, still |-> TRUE, impact |-> FALSE,
          tilt |-> FALSE, sink |-> FALSE, airHealthy |-> TRUE]
Flying == [Level EXCEPT !.gpsMoving = TRUE, !.air = TRUE, !.airLast = TRUE,
                        !.still = FALSE, !.sink = TRUE]

MCReadings ==
    { Flying,
      Level,
      [Level EXCEPT !.tilt = TRUE],                   \* on its side
      [Flying EXCEPT !.impact = TRUE],                \* an impact in flight
      [Level EXCEPT !.impact = TRUE, !.tilt = TRUE],  \* a hard landing
      \* gliding on after the GPS was lost, no airspeed sensor
      [Level EXCEPT !.gps = "lostRecent", !.airLast = TRUE,
                    !.still = FALSE, !.airHealthy = FALSE] }
\* flight, a level stop and a stop on its side: enough for a hard landing
TouchdownReadings == {Flying, Level, [Level EXCEPT !.tilt = TRUE]}
=============================================================================
