---------------------------- MODULE PayloadPlace ----------------------------
(***************************************************************************)
(* The payload-place sub-controller of ArduCopter Auto mode               *)
(* (PayloadPlace::start_descent, run and verify, entered from             *)
(* ModeAuto::do_payload_place).  One Run action is one call of            *)
(* PayloadPlace::run: the land and gripper checks, then the state switch  *)
(* with its fall-throughs, composed as operators on a world record.       *)
(*                                                                         *)
(* Time is counted in units of 500 ms (placed_check_duration_ms).  The    *)
(* code's timestamps appear as their ages, now_ms - t, saturating at Cap: *)
(* every comparison the code makes is against a threshold below Cap, so   *)
(* saturation does not change any guard and time needs no upper bound.    *)
(* The vehicle's altitude is the position controller's desired altitude;  *)
(* it moves one unit per tick as the final switch of run() commands:      *)
(* down while descending, held from Release to Ascent_Start, and up to    *)
(* descent_start_altitude_cm in Ascent and Done.                          *)
(***************************************************************************)
EXTENDS Integers, FiniteSets

CONSTANTS
    HasLoc,        \* the command carries a location: fly there first
    DescentMax,    \* cmd.p1, descent_max_cm, in altitude units (0: no limit)
    GripperValid,  \* AP::gripper().valid()
    RngMax,        \* pldp_range_finder_maximum_m, in altitude units (0: unset)
    RngEnabled,    \* rangefinder_state.enabled
    DelayUnits,    \* pldp_delay_s * 1000 / 500
    Ground,        \* desired altitude at or below which the payload rests
    AltStarts,     \* altitudes at which the placing may begin
    ThrustHover,   \* throttle while the payload hangs (percent)
    ThrustLight,   \* throttle once the payload rests on the ground
    PlacedPct,     \* pldp_thrust_placed_fraction, in percent
    Faults         \* disturbances allowed: "pilot" release, "land" detected,
                   \* "dip": a transient thrust drop shorter than 500 ms

ASSUME DescentMax \in Nat /\ RngMax \in Nat /\ DelayUnits \in Nat
ASSUME AltStarts \subseteq Nat /\ AltStarts # {} /\ Ground \in Nat
ASSUME ThrustLight < ThrustHover /\ PlacedPct \in 1..100
ASSUME Faults \subseteq {"pilot", "land", "dip"}

\* descent_thrust_cal_duration_ms = 2000 and placed_check_duration_ms = 500
CalUnits == 4
CheckUnits == 1
\* ages saturate here; above every threshold run() compares with
Cap == CalUnits + CheckUnits + DelayUnits + 1
\* descent_thrust_level = 1.0 at Descent_Start
FullThrust == 100

States == {"FlyToLocation", "Descent_Start", "Descent", "Release", "Releasing",
           "Delay", "Ascent_Start", "Ascent", "Done"}
Ages == 0..Cap
\* land_at_climb_rate keeps lowering the target below the touchdown height;
\* it is bounded just past the depth at which the descent limit trips
AltFloor == -(DescentMax + 1)
Alts == AltFloor..CHOOSE a \in AltStarts : \A b \in AltStarts : a >= b

VARIABLES
    pp,        \* PayloadPlace fields: state, descent_established (age),
               \* place_start (age), descent_start_altitude, thrust level
    alt,       \* pos_control desired altitude
    velOk,     \* desired climb rate has reached -0.95 * descent_speed
    wpReached, \* wp_nav->reached_wp_destination()
    landMaybe, \* ap.land_complete_maybe
    landed,    \* ap.land_complete
    relCmd,    \* AP::gripper().release() has been called
    released,  \* AP::gripper().released()
    dip,       \* the throttle reads low for this unit (an updraft)
    ran,       \* run() has been called since the last tick
    aborted,   \* ghost: placing ended by an abort edge
    ageRel     \* ghost: age of the entry into Release

vars == <<pp, alt, velOk, wpReached, landMaybe, landed, relCmd, released,
          dip, ran, aborted, ageRel>>

PP == [state : States, est : Ages, place : Ages, startAlt : Alts,
       cal : 0..FullThrust]

TypeOK ==
    /\ pp \in PP
    /\ alt \in Alts
    /\ {velOk, wpReached, landMaybe, landed, relCmd, released, dip, ran,
        aborted}
         \subseteq BOOLEAN
    /\ ageRel \in Ages

W == [pp |-> pp, alt |-> alt, landMaybe |-> landMaybe, landed |-> landed,
      released |-> released, relCmd |-> relCmd, velOk |-> velOk,
      wpReached |-> wpReached, dip |-> dip, aborted |-> aborted,
      ageRel |-> ageRel]

\* attitude_control->get_throttle_in(): less thrust once the payload rests,
\* or for a moment in an updraft
Thrust(s) == IF s.alt <= Ground \/ s.dip THEN ThrustLight ELSE ThrustHover

\* the desired altitude is driven by the final switch of run()
Driven(st) ==
    CASE st \in {"Descent_Start", "Descent"}                  -> "down"
      [] st \in {"Release", "Releasing", "Delay", "Ascent_Start"} -> "hold"
      [] st \in {"Ascent", "Done"}                            -> "up"
      [] OTHER                                                -> "wp"

SetState(s, st) == [s EXCEPT !.pp.state = st]
\* entering Release, from any path, stamps the ghost
EnterRelease(s) == [s EXCEPT !.pp.state = "Release", !.ageRel = 0]
Abort(s, st) == [SetState(s, st) EXCEPT !.aborted = TRUE]

(***************************************************************************)
(* The steps of PayloadPlace::run, in the order the code takes them.      *)
(***************************************************************************)

Lower(a, b) == IF a <= b THEN a ELSE b

\* if (land_complete || land_complete_maybe): only Descent moves, to Release
LandCheck(s) ==
    IF (s.landed \/ s.landMaybe) /\ s.pp.state = "Descent"
    THEN EnterRelease(s) ELSE s

\* the pilot opened the gripper: abort before the descent, release during it
GripperCheck(s) ==
    IF GripperValid /\ s.released
    THEN CASE s.pp.state \in {"FlyToLocation", "Descent_Start"} ->
                Abort([s EXCEPT !.pp.startAlt = s.alt], "Done")
           [] s.pp.state = "Descent" -> EnterRelease(s)
           [] OTHER -> s
    ELSE s

\* mutant: the ascent compares strictly, so it ends only above the start
AscentStepStrict(s) ==
    IF s.alt > s.pp.startAlt THEN SetState(s, "Done") ELSE SetState(s, "Ascent")

\* case Ascent: done once the desired altitude is back at the start
\* (the stop distance, 0.5*(0.1*v_max)^2/a_max, is below one altitude unit)
AscentStep(s) ==
    IF s.alt >= s.pp.startAlt THEN SetState(s, "Done") ELSE SetState(s, "Ascent")

\* case Delay: pldp_delay_s counted from place_start_time_ms, then Ascent_Start
\* falls through to Ascent
DelayStep(s) ==
    IF s.pp.place < CheckUnits + DelayUnits THEN SetState(s, "Delay")
    ELSE AscentStep(s)

\* mutant: Releasing does not wait for the gripper to report released
ReleasingStepNoWait(s) == DelayStep(s)

\* case Releasing: wait for the gripper, then fall through to Delay
ReleasingStep(s) ==
    IF GripperValid /\ ~s.released THEN s ELSE DelayStep(s)

\* case Release: open the gripper if there is one
ReleaseStep(s) ==
    IF GripperValid THEN [SetState(s, "Releasing") EXCEPT !.relCmd = TRUE]
    ELSE SetState(s, "Delay")

\* mutant: the thrust-above-threshold branch forgets to restart place_start
DescentStepNoThrustReset(s) ==
    LET p == s.pp IN
    IF DescentMax # 0 /\ p.startAlt - s.alt > DescentMax
        THEN Abort(s, "Ascent_Start")
    ELSE IF ~s.velOk THEN [s EXCEPT !.pp.est = 0]
    ELSE IF p.est < CalUnits
        THEN [s EXCEPT !.pp.cal = Lower(p.cal, Thrust(s)), !.pp.place = 0]
    ELSE IF 100 * Thrust(s) > PlacedPct * p.cal THEN s
    ELSE IF RngMax > 0 /\ ~RngEnabled THEN Abort(s, "Ascent_Start")
    ELSE IF RngMax > 0 /\ s.alt > RngMax THEN [s EXCEPT !.pp.place = 0]
    ELSE IF p.place > CheckUnits THEN EnterRelease(s)
    ELSE s

\* case Descent: the early-return chain of the code, in its order
DescentStep(s) ==
    LET p == s.pp IN
    IF DescentMax # 0 /\ p.startAlt - s.alt > DescentMax
        THEN Abort(s, "Ascent_Start")
    ELSE IF ~s.velOk THEN [s EXCEPT !.pp.est = 0]
    ELSE IF p.est < CalUnits
        THEN [s EXCEPT !.pp.cal = Lower(p.cal, Thrust(s)), !.pp.place = 0]
    ELSE IF 100 * Thrust(s) > PlacedPct * p.cal THEN [s EXCEPT !.pp.place = 0]
    ELSE IF RngMax > 0 /\ ~RngEnabled THEN Abort(s, "Ascent_Start")
    ELSE IF RngMax > 0 /\ s.alt > RngMax THEN [s EXCEPT !.pp.place = 0]
    ELSE IF p.place > CheckUnits THEN EnterRelease(s)
    ELSE s

\* case Descent_Start: stamp the start, reset the calibration, fall through
DescentStart(s) ==
    DescentStep([s EXCEPT !.pp.est = 0, !.pp.startAlt = s.alt,
                          !.pp.cal = FullThrust, !.pp.state = "Descent"])

\* PayloadPlace::start_descent
StartDescent(s) == SetState(s, "Descent_Start")

\* the state switch of run()
Switch(s) ==
    CASE s.pp.state = "FlyToLocation" ->
            IF s.wpReached THEN StartDescent(s) ELSE s
      [] s.pp.state = "Descent_Start" -> DescentStart(s)
      [] s.pp.state = "Descent"       -> DescentStep(s)
      [] s.pp.state = "Release"       -> ReleaseStep(s)
      [] s.pp.state = "Releasing"     -> ReleasingStep(s)
      [] s.pp.state = "Delay"         -> DelayStep(s)
      [] s.pp.state \in {"Ascent_Start", "Ascent"} -> AscentStep(s)
      [] s.pp.state = "Done"          -> s

\* PayloadPlace::run: nothing happens once landed (is_disarmed_or_landed)
PayloadRun(s) ==
    IF s.landed THEN s ELSE Switch(GripperCheck(LandCheck(s)))

\* PayloadPlace::verify
Verify(s) == s.pp.state = "Done"

(***************************************************************************)
(* The actions: one call of run(), the passing of time, and the           *)
(* environment (waypoint reached, land detector, gripper, pilot).         *)
(***************************************************************************)

\* ModeAuto::do_payload_place, having passed wp_start, and start_descent
Init ==
    /\ pp = [state |-> IF HasLoc THEN "FlyToLocation" ELSE "Descent_Start",
             est |-> Cap, place |-> Cap, startAlt |-> 0, cal |-> FullThrust]
    /\ alt \in AltStarts
    /\ velOk = FALSE
    /\ wpReached = FALSE
    /\ landMaybe = FALSE
    /\ landed = FALSE
    /\ relCmd = FALSE
    /\ released = FALSE
    /\ dip = FALSE
    /\ ran = FALSE
    /\ aborted = FALSE
    /\ ageRel = Cap

Become(s) ==
    /\ pp' = s.pp
    /\ relCmd' = s.relCmd
    /\ aborted' = s.aborted
    /\ ageRel' = s.ageRel

Run ==
    /\ Become(PayloadRun(W))
    /\ ran' = TRUE
    /\ UNCHANGED <<alt, velOk, wpReached, landMaybe, landed, released, dip>>

Older(a) == Lower(a + 1, Cap)

\* mutant: Ascent and Done command a climb rate instead of the position target
\* descent_start_altitude_cm, so the desired altitude keeps rising
TickClimbRate ==
    /\ ran
    /\ ran' = FALSE
    /\ pp' = [pp EXCEPT !.est = Older(@), !.place = Older(@)]
    /\ ageRel' = Older(ageRel)
    /\ alt' = CASE Driven(pp.state) = "down" ->
                      IF alt > AltFloor THEN alt - 1 ELSE alt
                [] Driven(pp.state) = "up" -> alt + 1
                [] OTHER -> alt
    /\ velOk' = (Driven(pp.state) = "down")
    /\ landMaybe' = (landMaybe /\ alt' <= Ground)
    \* a dip lasts one unit, and the next unit reads the true thrust
    /\ dip' \in IF "dip" \in Faults /\ ~dip THEN BOOLEAN ELSE {FALSE}
    /\ UNCHANGED <<wpReached, landed, relCmd, released, aborted>>

\* one time unit; run() is called at least once per unit (at 100 Hz)
Tick ==
    /\ ran
    /\ ran' = FALSE
    /\ pp' = [pp EXCEPT !.est = Older(@), !.place = Older(@)]
    /\ ageRel' = Older(ageRel)
    /\ alt' = CASE Driven(pp.state) = "down" ->
                      IF alt > AltFloor THEN alt - 1 ELSE alt
                [] Driven(pp.state) = "up" ->
                      IF alt < pp.startAlt THEN alt + 1 ELSE alt
                [] OTHER -> alt
    /\ velOk' = (Driven(pp.state) = "down")
    /\ landMaybe' = (landMaybe /\ alt' <= Ground)
    \* a dip lasts one unit, and the next unit reads the true thrust
    /\ dip' \in IF "dip" \in Faults /\ ~dip THEN BOOLEAN ELSE {FALSE}
    /\ UNCHANGED <<wpReached, landed, relCmd, released, aborted>>

ReachWp ==
    /\ pp.state = "FlyToLocation"
    /\ ~wpReached
    /\ wpReached' = TRUE
    /\ UNCHANGED <<pp, alt, velOk, landMaybe, landed, relCmd, released, dip,
                   ran, aborted, ageRel>>

\* the land detector may suspect a landing once the payload rests
LandSuspected ==
    /\ alt <= Ground
    /\ ~landMaybe
    /\ landMaybe' = TRUE
    /\ UNCHANGED <<pp, alt, velOk, wpReached, landed, relCmd, released, dip,
                   ran, aborted, ageRel>>

LandConfirmed ==
    /\ "land" \in Faults
    /\ landMaybe /\ ~landed
    /\ landed' = TRUE
    /\ UNCHANGED <<pp, alt, velOk, wpReached, landMaybe, relCmd, released, dip,
                   ran, aborted, ageRel>>

GripperOpens ==
    /\ relCmd /\ ~released
    /\ released' = TRUE
    /\ UNCHANGED <<pp, alt, velOk, wpReached, landMaybe, landed, relCmd, dip,
                   ran, aborted, ageRel>>

PilotReleases ==
    /\ "pilot" \in Faults
    /\ GripperValid /\ ~released
    /\ released' = TRUE
    /\ UNCHANGED <<pp, alt, velOk, wpReached, landMaybe, landed, relCmd, dip,
                   ran, aborted, ageRel>>

Next ==
    \/ Run
    \/ Tick
    \/ ReachWp
    \/ LandSuspected
    \/ LandConfirmed
    \/ GripperOpens
    \/ PilotReleases

\* run() is scheduled at 100 Hz, time passes, the waypoint controller
\* arrives and a commanded gripper opens; the land detector and the pilot
\* are not relied on
Fairness ==
    /\ WF_vars(Run)
    /\ WF_vars(Tick)
    /\ WF_vars(ReachWp)
    /\ WF_vars(GripperOpens)

Spec == Init /\ [][Next]_vars /\ Fairness

(***************************************************************************)
(* Properties.                                                             *)
(***************************************************************************)

\* run() commands the gripper open (AP::gripper().release() in case
\* Release) only while the payload rests on the ground or the pilot has
\* already opened it: the thrust-drop test, the 500 ms placed check and the
\* land detector never let the payload be dropped in the air.
ReleaseOnlyWhenPlaced ==
    [][~relCmd /\ relCmd' => alt <= Ground \/ released]_vars

\* Unless placing was aborted, the vehicle climbs back (Ascent or Done)
\* only after the gripper reports the payload released (case Releasing
\* waits for AP::gripper().released()).
NoClimbWithPayload ==
    GripperValid /\ pp.state \in {"Ascent", "Done"} /\ ~aborted => released

\* Every placing ends: PayloadPlace::verify eventually returns true, by
\* placing, by the pilot's release, or by the maximum-descent abort,
\* unless the land detector confirms a landing first (run() then does
\* nothing).  Thrust dips and the pilot do not stall it.
PlaceCompletes == <>(Verify(W) \/ landed)

\* The climb starts no earlier than pldp_delay_s after the release began
\* (within one 500 ms unit), as the Delay case's comment says: "If we get
\* here we have finished releasing the gripper" before the delay runs.
DelayHonoured ==
    [][pp.state \in {"Release", "Releasing", "Delay"} /\
       pp'.state \in {"Ascent", "Done"} => ageRel' + 1 >= DelayUnits]_vars

=============================================================================
