--------------------------- MODULE MC_PayloadPlace ---------------------------
(***************************************************************************)
(* Instances of PayloadPlace for TLC.  One altitude unit is one descent   *)
(* tick; the payload hangs two units below the vehicle.                   *)
(***************************************************************************)
EXTENDS PayloadPlace

\* the placing starts either just above the payload's touchdown height, so
\* the payload lands during the thrust calibration, or well above it
MCAltStarts == {3, 10}
\* pldp_delay_s = 1 s
MCDelayUnits == 2
\* hover at half throttle, 30 % once the payload's weight is off,
\* pldp_thrust_placed_fraction = 0.9
MCThrustHover == 50
MCThrustLight == 30
MCPlacedPct == 90

AllFaults == {"pilot", "land", "dip"}
PilotOnly == {"pilot"}
NoFaults == {}
=============================================================================
