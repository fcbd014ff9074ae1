------------------------------ MODULE AutoMode ------------------------------
(***************************************************************************)
(* The Auto flight mode of ArduCopter (ArduCopter/mode_auto.cpp) together  *)
(* with the collaborators it calls back and forth with: the mission        *)
(* (AP_Mission: start_or_resume, update, restart_current_nav_cmd), the     *)
(* flight-mode switch (Copter::set_mode), disarming, and the EKF and       *)
(* terrain failsafes.                                                      *)
(*                                                                         *)
(* The code runs on one thread: the scheduler calls ModeAuto::run at       *)
(* 100 Hz and run() calls mission.update(), which calls back into          *)
(* start_command / verify_command.  Every such call chain is one atomic    *)
(* step here.  Within a step the code is a sequence of calls; each call is *)
(* an operator from the world record W (all variables) to the world after  *)
(* the call, so that a handler is the composition of its callees.          *)
(*                                                                         *)
(* Data is abstracted: a location is the index of the mission command it  *)
(* came from (0 is the stopping point), an altitude frame is whether the   *)
(* command needs the terrain database, times are whole seconds of a        *)
(* bounded clock.  The motion of the vehicle is the environment: it        *)
(* reaches a destination, completes a takeoff, touches down.               *)
(*                                                                         *)
(* A Lua script, on the scripting thread, is the one other actor: it      *)
(* calls nav_script_time() to read the running NAV_SCRIPT_TIME command and *)
(* its id, and later nav_script_time_done(id).  The scripting bindings,   *)
(* not part of this repository, are taken to run each call under the       *)
(* scheduler semaphore: each call is one step, interleaved with the main   *)
(* loop at any point between two run() calls.                             *)
(***************************************************************************)
EXTENDS Integers, Sequences

CONSTANTS
    Mission,            \* the mission: a sequence of Cmd records
    MaxClock,           \* bound on the clock (seconds since boot)
    MisRestart,         \* MIS_RESTART: entering Auto restarts from command 1
    ContinueAfterLand,  \* mission.continue_after_land_check_for_takeoff()
    Faults              \* environment disturbances that may occur

CmdIds == {"TAKEOFF", "WAYPOINT", "LOITER_TIME", "LAND", "LOITER_TO_ALT",
           "ATTITUDE_TIME",
           "NAV_DELAY", "SCRIPT_TIME", "UNKNOWN"}

\* A mission command: id, p1 (delay / duration / script timeout seconds),
\* whether its altitude is terrain relative, and whether its lat/lng are
\* non-zero.
Cmd == [id : CmdIds, p1 : 0..3, terrain : BOOLEAN, loc : BOOLEAN]

FaultKinds == {"pilot", "ekf", "terrain", "edit"}

ASSUME Mission \in Seq(Cmd) /\ Mission # << >>
ASSUME MaxClock \in Nat /\ MaxClock >= 5
ASSUME MisRestart \in BOOLEAN /\ ContinueAfterLand \in BOOLEAN
ASSUME Faults \subseteq FaultKinds
\* a NAV_DELAY of 0 seconds waits for a UTC time of day from the RTC,
\* which is not modelled: every delay is relative
ASSUME \A i \in 1..Len(Mission) :
           Mission[i].id = "NAV_DELAY" => Mission[i].p1 > 0

N == Len(Mission)

\* ModeAuto::SubMode
SubModes == {"TAKEOFF", "WP", "LAND", "RTL", "CIRCLE_MOVE_TO_EDGE", "CIRCLE",
             "NAVGUIDED", "LOITER", "LOITER_TO_ALT", "NAV_PAYLOAD_PLACE",
             "NAV_SCRIPT_TIME", "NAV_ATTITUDE_TIME"}

MissionStates == {"STOPPED", "RUNNING", "COMPLETE"}

VARIABLES
    am,       \* ModeAuto: _mode, waiting_to_start, land state, loiter_time,
              \* loiter_time_max, nav_attitude_time.start_ms,
              \* auto_takeoff.complete, loiter_to_alt flags, INTERNAL_ERROR
    wp,       \* wp_nav: destination, whether reached, when it was reached
    mis,      \* AP_Mission: state, current nav command index, nav_cmd_loaded
    veh,      \* copter: flight mode, armed, land_complete, failsafe.ekf,
              \* EKF origin set, terrain data available
    clock,    \* AP_HAL::millis() in seconds; the boot takes time, so it is
              \* never 0 once Auto runs (0 is verify_nav_wp's "not started")
    edited,   \* mission changed since mis_change_detector last checked
    lua       \* the Lua script driving NAV_SCRIPT_TIME: how the id it last
              \* read from nav_script_time() compares with nav_scripting.id
              \* ("current", "stale", or "none" read yet), and whether it
              \* has called nav_script_time_done with the current id

vars == <<am, wp, mis, veh, clock, edited, lua>>

TypeOK ==
    /\ am \in [mode : SubModes, waiting : BOOLEAN,
               landState : {"FlyToLocation", "Descending"},
               loiterTime : 0..MaxClock, loiterTimeMax : 0..3,
               attStart : 0..MaxClock, takeoffDone : BOOLEAN,
               ltaXY : BOOLEAN, ltaAlt : BOOLEAN, internalError : BOOLEAN,
               ndStart : 0..MaxClock, ndMax : 0..3, nsDone : BOOLEAN,
               nsStart : 0..MaxClock, nsTimeout : 0..3]
    /\ wp \in [dest : 0..N, reached : BOOLEAN, reachedAt : 0..MaxClock]
    /\ mis \in [state : MissionStates, idx : 1..N, loaded : BOOLEAN]
    /\ veh \in [fm : {"AUTO", "OTHER"}, armed : BOOLEAN, landed : BOOLEAN,
                ekfFs : BOOLEAN, origin : BOOLEAN, terrainOk : BOOLEAN]
    /\ clock \in 0..MaxClock
    /\ edited \in BOOLEAN
    /\ lua \in [held : {"none", "current", "stale"}, signalled : BOOLEAN]

\* The world as a record, and a step that makes a world the next state.
W == [am |-> am, wp |-> wp, mis |-> mis, veh |-> veh, clock |-> clock,
      edited |-> edited, lua |-> lua]

Become(s) ==
    /\ am' = s.am /\ wp' = s.wp /\ mis' = s.mis /\ veh' = s.veh
    /\ clock' = s.clock /\ edited' = s.edited /\ lua' = s.lua

-----------------------------------------------------------------------------
(* Queries of the vehicle state used by the code.                         *)

\* ModeAuto::requires_GPS
RequiresGPS(mode) == mode # "NAV_ATTITUDE_TIME"

\* Copter::position_ok: false while the EKF failsafe is active
PositionOk(s) == ~s.veh.ekfFs

\* a run() that starts the mission without waiting for the origin
HasOriginUnchecked(s) == TRUE

\* copter.ahrs.get_origin(loc) in ModeAuto::run
HasOrigin(s) == s.veh.origin

\* motors at GROUND_IDLE: armed and landed (disarmed motors are SHUT_DOWN)
SpoolIdle(s) == s.veh.armed /\ s.veh.landed

-----------------------------------------------------------------------------
(* Collaborators outside mode_auto.cpp that the code calls.                *)

\* ModeAuto::exit: stop the mission if it is running
ModeExit(s) ==
    IF s.mis.state = "RUNNING" THEN [s EXCEPT !.mis.state = "STOPPED"] ELSE s

\* Copter::set_mode to a mode other than Auto (LAND, RTL): leave Auto
LeaveAuto(s) == ModeExit([s EXCEPT !.veh.fm = "OTHER"])

\* AP_Arming_Copter::disarm: stop the motors and reset the mission, so that
\* the next mission.update() starts again from the first command ("after
\* disarming the mission will reset", verify_land); a vehicle already
\* disarmed is left as it is
Disarm(s) ==
    IF s.veh.armed THEN [s EXCEPT !.veh.armed = FALSE, !.mis.loaded = FALSE]
    ELSE s

\* the start of a command, from world s to world t, disarmed the vehicle
\* (the terrain failsafe on the ground) and so reset the mission
ResetByStart(s, t) == s.veh.armed /\ ~t.veh.armed

\* Copter::failsafe_ekf_event: a mode that needs a position estimate lands
FailsafeEkfEvent(s) ==
    IF s.veh.fm = "AUTO" /\ RequiresGPS(s.am.mode) THEN LeaveAuto(s) ELSE s

\* Copter::failsafe_ekf_recheck: re-run the EKF failsafe if it is active
FailsafeEkfRecheck(s) == IF s.veh.ekfFs THEN FailsafeEkfEvent(s) ELSE s

\* Copter::failsafe_terrain_on_event: disarm on the ground, else RTL/LAND
FailsafeTerrainOnEvent(s) ==
    IF s.veh.landed THEN Disarm(s) ELSE LeaveAuto(s)

-----------------------------------------------------------------------------
(* ModeAuto: submode changes and the controller start functions.           *)

\* set_submode that forgets to recheck the EKF failsafe
SetSubmodeNoRecheck(s, new) == [s EXCEPT !.am.mode = new]

\* ModeAuto::set_submode
SetSubmode(s, new) ==
    IF new = s.am.mode THEN s
    ELSE LET s1 == [s EXCEPT !.am.mode = new]
         IN  IF s.am.mode = "NAV_ATTITUDE_TIME" THEN FailsafeEkfRecheck(s1)
                                                ELSE s1

\* ModeAuto::loiter_start: fails without a position estimate; assigns
\* _mode directly and targets the stopping point
LoiterStart(s) ==
    IF ~PositionOk(s) THEN [ok |-> FALSE, s |-> s]
    ELSE [ok |-> TRUE,
          s  |-> [s EXCEPT !.am.mode = "LOITER",
                           !.wp = [dest |-> 0, reached |-> FALSE,
                                   reachedAt |-> 0]]]

\* ModeAuto::takeoff_start: current_loc is valid once the origin is set
\* (otherwise INTERNAL_ERROR and return); a terrain altitude that cannot
\* be converted falls back to an altitude above the current one
TakeoffStart(s) ==
    IF ~s.veh.origin THEN [s EXCEPT !.am.internalError = TRUE]
    ELSE SetSubmode([s EXCEPT !.am.takeoffDone = FALSE], "TAKEOFF")

\* ModeAuto::wp_start to the location of command i: fails when the
\* destination needs terrain data that is missing
WpStart(s, i, needsTerrain) ==
    IF needsTerrain /\ ~s.veh.terrainOk THEN [ok |-> FALSE, s |-> s]
    ELSE [ok |-> TRUE,
          s  |-> SetSubmode([s EXCEPT !.wp = [dest |-> i, reached |-> FALSE,
                                              reachedAt |-> 0]], "WP")]

\* ModeAuto::land_start
LandStart(s) == SetSubmode(s, "LAND")

-----------------------------------------------------------------------------
(* ModeAuto: the do_X handlers that start_command dispatches to.           *)

\* nav_scripting.id++: an id the script read earlier no longer equals the
\* command's id (a uint16 only repeats after 65536 increments, which no
\* bounded behaviour reaches), and the script has not answered the new one
NewScriptId(l) ==
    [held |-> IF l.held = "current" THEN "stale" ELSE l.held,
     signalled |-> FALSE]

\* ModeAuto::set_next_wp: with no delay and a next waypoint or timed
\* loiter, hand wp_nav the next destination too, which needs its terrain
\* data
SetNextWp(s, i) ==
    \/ Mission[i].p1 > 0
    \/ i = N
    \/ Mission[i+1].id \notin {"WAYPOINT", "LOITER_TIME"}
    \/ ~Mission[i+1].terrain
    \/ s.veh.terrainOk

\* do_nav_wp that keeps the dwell timer of the previous waypoint
DoNavWpNoReset(s, i) ==
    LET r == WpStart(s, i, Mission[i].terrain)
    IN  IF ~r.ok THEN FailsafeTerrainOnEvent(s)
        ELSE LET s1 == [r.s EXCEPT !.am.loiterTimeMax = Mission[i].p1]
             IN  IF SetNextWp(s1, i) THEN s1 ELSE FailsafeTerrainOnEvent(s1)

\* ModeAuto::do_nav_wp
DoNavWp(s, i) ==
    LET r == WpStart(s, i, Mission[i].terrain)
    IN  IF ~r.ok THEN FailsafeTerrainOnEvent(s)
        ELSE LET s1 == [r.s EXCEPT !.am.loiterTime = 0,
                                   !.am.loiterTimeMax = Mission[i].p1]
             IN  IF SetNextWp(s1, i) THEN s1 ELSE FailsafeTerrainOnEvent(s1)

\* do_land that forgets to start the landing controller
DoLandNoStart(s, i) == [s EXCEPT !.am.landState = "Descending"]

\* ModeAuto::do_land: with a location, fly there at the current altitude
\* (shift_alt_to_current_alt falls back to alt-above-home, so wp_start
\* cannot miss terrain data); without, descend in place
DoLand(s, i) ==
    IF Mission[i].loc
    THEN LET r == WpStart([s EXCEPT !.am.landState = "FlyToLocation"], i,
                          FALSE)
         IN  IF r.ok THEN r.s ELSE FailsafeTerrainOnEvent(r.s)
    ELSE LandStart([s EXCEPT !.am.landState = "Descending"])

\* ModeAuto::do_loiter_unlimited
DoLoiterUnlimited(s, i) ==
    LET r == WpStart(s, i, Mission[i].terrain)
    IN  IF r.ok THEN r.s ELSE FailsafeTerrainOnEvent(s)

\* do_loiter_time that keeps the dwell timer of the previous command
DoLoiterTimeNoReset(s, i) ==
    [DoLoiterUnlimited(s, i) EXCEPT !.am.loiterTimeMax = Mission[i].p1]

\* ModeAuto::do_loiter_time: loiter_unlimited (whose terrain failsafe does
\* not stop it), then a dwell of p1 seconds not yet started
DoLoiterTime(s, i) ==
    [DoLoiterUnlimited(s, i) EXCEPT !.am.loiterTime = 0,
                                    !.am.loiterTimeMax = Mission[i].p1]

\* ModeAuto::do_loiter_to_alt: loiter_unlimited, then the target altitude
\* above home; when that conversion fails the command counts as reached
DoLoiterToAlt(s, i) ==
    LET s1 == DoLoiterUnlimited(s, i)
    IN  IF Mission[i].terrain /\ ~s1.veh.terrainOk
        THEN [s1 EXCEPT !.am.ltaXY = TRUE, !.am.ltaAlt = TRUE]
        ELSE SetSubmode([s1 EXCEPT !.am.ltaXY = FALSE, !.am.ltaAlt = FALSE],
                        "LOITER_TO_ALT")

\* ModeAuto::do_nav_attitude_time
DoNavAttitudeTime(s) ==
    SetSubmode([s EXCEPT !.am.attStart = s.clock], "NAV_ATTITUDE_TIME")

\* ModeAuto::do_nav_delay: a relative delay of p1 seconds from now
DoNavDelay(s, i) ==
    [s EXCEPT !.am.ndStart = s.clock, !.am.ndMax = Mission[i].p1]

\* do_nav_script_time that keeps the done flag of the previous command
DoNavScriptTimeNoReset(s, i) ==
    SetSubmode([s EXCEPT !.am.nsStart = s.clock,
                         !.am.nsTimeout = Mission[i].p1,
                         !.lua = NewScriptId(s.lua)], "NAV_SCRIPT_TIME")

\* ModeAuto::do_nav_script_time: ModeGuided::init(true) ignores its checks
\* and succeeds, so the command always gets a fresh id, a cleared done
\* flag, its start time and timeout, and the NAV_SCRIPT_TIME submode
DoNavScriptTime(s, i) ==
    SetSubmode([s EXCEPT !.am.nsDone = FALSE, !.am.nsStart = s.clock,
                         !.am.nsTimeout = Mission[i].p1,
                         !.lua = NewScriptId(s.lua)], "NAV_SCRIPT_TIME")

\* ModeAuto::start_command for mission command i: false only for a
\* command it does not know
StartCommand(s, i) ==
    LET id == Mission[i].id
    IN  [ok |-> id # "UNKNOWN",
         s  |-> CASE id = "TAKEOFF"       -> TakeoffStart(s)
                  [] id = "WAYPOINT"      -> DoNavWp(s, i)
                  [] id = "LOITER_TIME"   -> DoLoiterTime(s, i)
                  [] id = "LAND"          -> DoLand(s, i)
                  [] id = "LOITER_TO_ALT" -> DoLoiterToAlt(s, i)
                  [] id = "ATTITUDE_TIME" -> DoNavAttitudeTime(s)
                  [] id = "NAV_DELAY"     -> DoNavDelay(s, i)
                  [] id = "SCRIPT_TIME"   -> DoNavScriptTime(s, i)
                  [] id = "UNKNOWN"       -> s]

-----------------------------------------------------------------------------
(* ModeAuto: verify_command and the verify_X checks it dispatches to.      *)
(* Each returns [done |-> command complete, s |-> world after the call].   *)

\* ModeAuto::verify_nav_wp: once wp_nav reports the destination reached,
\* start the dwell timer (0 means not started) and wait loiter_time_max
VerifyNavWp(s) ==
    IF ~s.wp.reached THEN [done |-> FALSE, s |-> s]
    ELSE LET lt == IF s.am.loiterTime = 0 THEN s.clock ELSE s.am.loiterTime
         IN  [done |-> s.clock - lt >= s.am.loiterTimeMax,
              s    |-> [s EXCEPT !.am.loiterTime = lt]]

\* ModeAuto::verify_loiter_time: the same dwell test as verify_nav_wp
VerifyLoiterTime(s) == VerifyNavWp(s)

\* ModeAuto::verify_land: fly to the location, then descend; landed at
\* ground idle completes it, unless the mission stops at the landing, in
\* which case disarm and report not complete
VerifyLand(s) ==
    IF s.am.landState = "FlyToLocation"
    THEN [done |-> FALSE,
          s    |-> IF s.wp.reached
                   THEN [LandStart(s) EXCEPT !.am.landState = "Descending"]
                   ELSE s]
    ELSE LET retval == s.veh.landed /\ SpoolIdle(s)
         IN  IF retval /\ ~ContinueAfterLand /\ s.veh.armed
             THEN [done |-> FALSE, s |-> Disarm(s)]
             ELSE [done |-> retval, s |-> s]

\* ModeAuto::verify_nav_delay: complete once more than the delay has
\* passed, clearing the delay
VerifyNavDelay(s) ==
    IF s.clock - s.am.ndStart > s.am.ndMax
    THEN [done |-> TRUE, s |-> [s EXCEPT !.am.ndMax = 0]]
    ELSE [done |-> FALSE, s |-> s]

\* verify_nav_script_time that only waits for the script
VerifyNavScriptTimeNoTimeout(s) == [done |-> s.am.nsDone, s |-> s]

\* ModeAuto::verify_nav_script_time: the script said done, or a non-zero
\* timeout has been exceeded
VerifyNavScriptTime(s) ==
    [done |-> \/ s.am.nsDone
              \/ s.am.nsTimeout > 0 /\ s.clock - s.am.nsStart > s.am.nsTimeout,
     s    |-> s]

\* ModeAuto::verify_command for mission command i: nothing completes while
\* another flight mode is active; unknown commands are skipped
VerifyCommand(s, i) ==
    LET id == Mission[i].id
    IN  IF s.veh.fm # "AUTO" THEN [done |-> FALSE, s |-> s]
        ELSE CASE id = "TAKEOFF"  -> [done |-> s.am.takeoffDone, s |-> s]
               [] id = "WAYPOINT" -> VerifyNavWp(s)
               [] id = "LOITER_TIME" -> VerifyLoiterTime(s)
               [] id = "LAND"     -> VerifyLand(s)
               [] id = "LOITER_TO_ALT" ->
                      [done |-> s.am.ltaXY /\ s.am.ltaAlt, s |-> s]
               [] id = "ATTITUDE_TIME" ->
                      [done |-> s.clock - s.am.attStart > Mission[i].p1,
                       s    |-> s]
               [] id = "NAV_DELAY"   -> VerifyNavDelay(s)
               [] id = "SCRIPT_TIME" -> VerifyNavScriptTime(s)
               [] id = "UNKNOWN"  -> [done |-> TRUE, s |-> s]

\* ModeAuto::exit_mission: hold position in the air (land if that is not
\* possible), disarm on the ground
ExitMission(s) ==
    IF ~s.veh.landed
    THEN LET r == LoiterStart(s)
         IN  IF r.ok THEN r.s ELSE LeaveAuto(s)
    ELSE Disarm(s)

-----------------------------------------------------------------------------
(* AP_Mission, as far as Auto relies on it.                                *)

\* AP_Mission::complete: the mission is over, tell the vehicle
MissionComplete(s) == ExitMission([s EXCEPT !.mis.state = "COMPLETE"])

\* advance_current_nav_cmd that records an index past the mission end
RECURSIVE AdvanceFromPastEnd(_, _)
AdvanceFromPastEnd(s, j) ==
    LET s0 == [s EXCEPT !.mis.idx = j]
    IN  IF j > N THEN MissionComplete(s0)
        ELSE LET r == StartCommand(s0, j)
             IN  IF r.ok THEN [r.s EXCEPT !.mis.loaded = ~ResetByStart(s, r.s)]
                 ELSE AdvanceFromPastEnd(r.s, j + 1)

\* advance_current_nav_cmd that marks the started command loaded even when
\* its start disarmed the vehicle and reset the mission
RECURSIVE AdvanceFromLoadedAfterReset(_, _)
AdvanceFromLoadedAfterReset(s, j) ==
    IF j > N THEN MissionComplete(s)
    ELSE LET r == StartCommand([s EXCEPT !.mis.idx = j], j)
         IN  IF r.ok THEN [r.s EXCEPT !.mis.loaded = TRUE]
             ELSE AdvanceFromLoadedAfterReset(r.s, j + 1)

\* AP_Mission::advance_current_nav_cmd from command j: start commands in
\* turn until one is accepted, which is then loaded unless its start reset
\* the mission; past the end the mission is complete
RECURSIVE AdvanceFrom(_, _)
AdvanceFrom(s, j) ==
    IF j > N THEN MissionComplete(s)
    ELSE LET r == StartCommand([s EXCEPT !.mis.idx = j], j)
         IN  IF r.ok THEN [r.s EXCEPT !.mis.loaded = ~ResetByStart(s, r.s)]
             ELSE AdvanceFrom(r.s, j + 1)

\* AP_Mission::start: run from the first command
MissionStart(s) ==
    AdvanceFrom([s EXCEPT !.mis.state = "RUNNING", !.mis.loaded = FALSE], 1)

\* resume that moves on to the command after the interrupted one
MissionResumeNext(s) ==
    CASE s.mis.state = "COMPLETE" -> MissionStart(s)
      [] s.mis.state = "RUNNING"  -> s
      [] s.mis.state = "STOPPED"  ->
           LET s1 == [s EXCEPT !.mis.state = "RUNNING"]
           IN  IF s1.mis.loaded THEN AdvanceFrom(s1, s1.mis.idx + 1)
                                ELSE AdvanceFrom(s1, 1)

\* AP_Mission::resume: restart the interrupted command
MissionResume(s) ==
    CASE s.mis.state = "COMPLETE" -> MissionStart(s)
      [] s.mis.state = "RUNNING"  -> s
      [] s.mis.state = "STOPPED"  ->
           LET s1 == [s EXCEPT !.mis.state = "RUNNING"]
           IN  IF s1.mis.loaded THEN StartCommand(s1, s1.mis.idx).s
                                ELSE AdvanceFrom(s1, 1)

\* start_or_resume that starts the mission afresh whatever MIS_RESTART says
StartOrResumeAlwaysStart(s) == MissionStart(s)

\* AP_Mission::start_or_resume (MIS_RESTART)
StartOrResume(s) == IF MisRestart THEN MissionStart(s) ELSE MissionResume(s)

\* AP_Mission::restart_current_nav_cmd
RestartCurrentNavCmd(s) ==
    IF s.mis.state = "RUNNING" /\ s.mis.loaded
    THEN StartCommand(s, s.mis.idx).s
    ELSE s

\* AP_Mission::update: start the next command when none is loaded, else
\* verify the current one and advance when it is complete
MissionUpdate(s) ==
    IF s.mis.state # "RUNNING" THEN s
    ELSE IF ~s.mis.loaded THEN AdvanceFrom(s, 1)
    ELSE LET r == VerifyCommand(s, s.mis.idx)
         IN  IF r.done
             THEN AdvanceFrom([r.s EXCEPT !.mis.loaded = FALSE],
                              s.mis.idx + 1)
             ELSE r.s

-----------------------------------------------------------------------------
(* ModeAuto::run and the entry into Auto.                                  *)

\* ModeAuto::loiter_to_alt_run: on the ground nothing happens; first the
\* horizontal destination, then the altitude (whose crossing the vehicle's
\* motion decides, altHit) latch their reached flags
LoiterToAltRun(s, altHit) ==
    IF ~s.veh.armed \/ s.veh.landed THEN s
    ELSE LET xy == s.am.ltaXY \/ s.wp.reached
         IN  [s EXCEPT !.am.ltaXY = xy, !.am.ltaAlt = @ \/ (xy /\ altHit)]

\* the submode controller called at the end of ModeAuto::run; of the
\* controllers only loiter_to_alt_run changes state the model keeps
SubmodeRun(s, altHit) ==
    IF s.am.mode = "LOITER_TO_ALT" THEN LoiterToAltRun(s, altHit) ELSE s

\* ModeAuto::run: start the mission once there is an origin; afterwards
\* restart a waypoint whose mission was edited, update the mission, and run
\* the controller of the (possibly new) submode
AutoRun(s, altHit) ==
    LET s1 == IF s.am.waiting
              THEN IF HasOrigin(s)
                   THEN [StartOrResume(s) EXCEPT !.am.waiting = FALSE,
                                                 !.edited = FALSE]
                   ELSE s
              ELSE LET s0 == [s EXCEPT !.edited = FALSE]
                       sr == IF s.edited /\ s.mis.state = "RUNNING"
                                 /\ s.am.mode = "WP"
                             THEN RestartCurrentNavCmd(s0) ELSE s0
                   IN  MissionUpdate(sr)
    IN  SubmodeRun(s1, altHit)

\* Copter::set_mode(AUTO) then ModeAuto::init: refused when the current
\* submode needs a position estimate that is missing, or when armed on the
\* ground with a mission that does not start with a takeoff; otherwise the
\* submode is set to LOITER and the mission start deferred to run()
EnterAuto(s) ==
    [s EXCEPT !.veh.fm = "AUTO",
              !.am.mode = "LOITER",
              !.am.waiting = TRUE,
              !.wp = [dest |-> 0, reached |-> FALSE, reachedAt |-> 0],
              !.edited = FALSE]

CanEnterAuto(s) ==
    /\ ~(RequiresGPS(s.am.mode) /\ ~PositionOk(s))
    /\ ~(s.veh.armed /\ s.veh.landed /\ Mission[1].id # "TAKEOFF")

-----------------------------------------------------------------------------
(* Actions.                                                                *)

Init ==
    /\ am = [mode |-> "TAKEOFF", waiting |-> FALSE,
             landState |-> "FlyToLocation", loiterTime |-> 0,
             loiterTimeMax |-> 0, attStart |-> 0, takeoffDone |-> FALSE,
             ltaXY |-> FALSE, ltaAlt |-> FALSE, internalError |-> FALSE,
             ndStart |-> 0, ndMax |-> 0, nsDone |-> FALSE, nsStart |-> 0,
             nsTimeout |-> 0]
    /\ wp = [dest |-> 0, reached |-> FALSE, reachedAt |-> 0]
    /\ mis = [state |-> "STOPPED", idx |-> 1, loaded |-> FALSE]
    /\ veh = [fm |-> "OTHER", armed |-> FALSE, landed |-> TRUE,
              ekfFs |-> FALSE, origin |-> FALSE, terrainOk |-> TRUE]
    /\ clock = 1
    /\ edited = FALSE
    /\ lua = [held |-> "none", signalled |-> FALSE]

\* the scheduler calls ModeAuto::run while Auto is the flight mode
Run ==
    /\ veh.fm = "AUTO"
    /\ \E altHit \in BOOLEAN : Become(AutoRun(W, altHit))

\* the pilot or ground station selects Auto
PilotEntersAuto ==
    /\ veh.fm = "OTHER"
    /\ CanEnterAuto(W)
    /\ Become(EnterAuto(W))

\* the pilot or ground station selects another mode
PilotLeavesAuto ==
    /\ "pilot" \in Faults
    /\ veh.fm = "AUTO"
    /\ Become(LeaveAuto(W))

\* the pilot arms or disarms on the ground outside Auto
PilotArms ==
    /\ veh.fm = "OTHER" /\ veh.landed /\ ~veh.armed
    /\ veh' = [veh EXCEPT !.armed = TRUE]
    /\ UNCHANGED <<am, wp, mis, clock, edited, lua>>

PilotDisarms ==
    /\ veh.fm = "OTHER" /\ veh.landed /\ veh.armed
    /\ Become(Disarm(W))

\* the pilot flies the vehicle off the ground in another mode
PilotTakesOff ==
    /\ "pilot" \in Faults
    /\ veh.fm = "OTHER" /\ veh.landed /\ veh.armed
    /\ veh' = [veh EXCEPT !.landed = FALSE]
    /\ UNCHANGED <<am, wp, mis, clock, edited, lua>>

\* the EKF origin is set once (it is never cleared)
OriginSet ==
    /\ ~veh.origin
    /\ veh' = [veh EXCEPT !.origin = TRUE]
    /\ UNCHANGED <<am, wp, mis, clock, edited, lua>>

\* ekf_check declares the EKF failsafe and calls failsafe_ekf_event
EkfGoesBad ==
    /\ "ekf" \in Faults
    /\ ~veh.ekfFs
    /\ Become(FailsafeEkfEvent([W EXCEPT !.veh.ekfFs = TRUE]))

\* ekf_check clears the EKF failsafe (failsafe_ekf_off_event: no mode change)
EkfRecovers ==
    /\ "ekf" \in Faults
    /\ veh.ekfFs
    /\ veh' = [veh EXCEPT !.ekfFs = FALSE]
    /\ UNCHANGED <<am, wp, mis, clock, edited, lua>>

\* terrain data becomes available or is lost
TerrainChanges ==
    /\ "terrain" \in Faults
    /\ veh' = [veh EXCEPT !.terrainOk = ~@]
    /\ UNCHANGED <<am, wp, mis, clock, edited, lua>>

\* the ground station uploads the mission again
MissionEdited ==
    /\ "edit" \in Faults
    /\ ~edited
    /\ edited' = TRUE
    /\ UNCHANGED <<am, wp, mis, veh, clock, lua>>

\* a stored millis() stamp one second older; 0 (never started) and 1 stay:
\* from MaxClock >= 5 on, a stamp of 1 is more than 3 s old, longer than
\* any delay, dwell or timeout compared against it
Aged(t) == IF t > 1 THEN t - 1 ELSE t

\* time passes: the clock counts up to its bound, after which every stamp
\* ages instead, so that time never stops for the commands waiting on it
Tick ==
    \/ /\ clock < MaxClock
       /\ clock' = clock + 1
       /\ UNCHANGED <<am, wp, mis, veh, edited, lua>>
    \/ /\ clock = MaxClock
       /\ am' = [am EXCEPT !.loiterTime = Aged(@), !.attStart = Aged(@),
                           !.ndStart = Aged(@), !.nsStart = Aged(@)]
       /\ wp' = [wp EXCEPT !.reachedAt = Aged(@)]
       /\ UNCHANGED <<mis, veh, clock, edited, lua>>

\* the vehicle arrives at the wp_nav destination
Reach ==
    /\ veh.fm = "AUTO" /\ veh.armed /\ ~veh.landed
    /\ am.mode \in {"WP", "LOITER", "LOITER_TO_ALT"}
    /\ ~wp.reached
    /\ wp' = [wp EXCEPT !.reached = TRUE, !.reachedAt = clock]
    /\ UNCHANGED <<am, mis, veh, clock, edited, lua>>

\* auto_takeoff climbs off the ground to the takeoff altitude
TakeoffClimb ==
    /\ veh.fm = "AUTO" /\ veh.armed /\ am.mode = "TAKEOFF"
    /\ ~am.takeoffDone
    /\ am' = [am EXCEPT !.takeoffDone = TRUE]
    /\ veh' = [veh EXCEPT !.landed = FALSE]
    /\ UNCHANGED <<wp, mis, clock, edited, lua>>

\* the land detector sets land_complete in Auto's LAND submode or in
\* another (landing) flight mode
Touchdown ==
    /\ veh.armed /\ ~veh.landed
    /\ veh.fm = "OTHER" \/ am.mode = "LAND"
    /\ veh' = [veh EXCEPT !.landed = TRUE]
    /\ UNCHANGED <<am, wp, mis, clock, edited, lua>>

\* ModeAuto::nav_script_time, called by the script: while the submode is
\* NAV_SCRIPT_TIME (in Auto or not) it hands out the command and its id
ScriptReadsCommand ==
    /\ am.mode = "NAV_SCRIPT_TIME"
    /\ lua' = [lua EXCEPT !.held = "current"]
    /\ UNCHANGED <<am, wp, mis, veh, clock, edited>>

\* nav_script_time_done that ignores the id
NavScriptTimeDoneAnyId(s) ==
    IF s.am.mode = "NAV_SCRIPT_TIME" THEN [s EXCEPT !.am.nsDone = TRUE]
    ELSE s

\* ModeAuto::nav_script_time_done(id): only the id of the running
\* NAV_SCRIPT_TIME command sets done; an id read earlier is ignored
NavScriptTimeDone(s) ==
    IF s.am.mode = "NAV_SCRIPT_TIME" /\ s.lua.held = "current"
    THEN [s EXCEPT !.am.nsDone = TRUE] ELSE s

\* the script, at any time and maybe long after it read the id, reports
\* the command it read as finished (one step: see the module header)
ScriptSignalsDone ==
    /\ lua.held # "none"
    /\ Become([NavScriptTimeDone(W) EXCEPT
                  !.lua.signalled = @ \/ lua.held = "current"])

Next ==
    \/ Run \/ PilotEntersAuto \/ PilotLeavesAuto \/ PilotArms
    \/ PilotDisarms \/ PilotTakesOff \/ OriginSet \/ EkfGoesBad
    \/ EkfRecovers \/ TerrainChanges \/ MissionEdited \/ Tick \/ Reach
    \/ TakeoffClimb \/ Touchdown \/ ScriptReadsCommand \/ ScriptSignalsDone

\* The scheduler keeps calling run(); the origin is eventually set; the
\* vehicle's motion eventually reaches a destination, finishes a takeoff,
\* touches down when descending; time advances.  The Lua script gets no
\* fairness: it may never read the command or never report it done.
Fairness ==
    /\ WF_vars(Run) /\ WF_vars(OriginSet) /\ WF_vars(Reach)
    /\ WF_vars(TakeoffClimb) /\ WF_vars(Touchdown) /\ WF_vars(Tick)

Spec == Init /\ [][Next]_vars /\ Fairness

-----------------------------------------------------------------------------
(* Properties.                                                             *)

\* takeoff_start's "this should never happen": run() only starts the
\* mission once the EKF origin exists, so no command is started while
\* current_loc is uninitialised and INTERNAL_ERROR is never raised.
NoInternalError == ~am.internalError

\* What completion of command i means physically, in the current state:
\* a takeoff has left the ground, a waypoint or timed loiter was set as the destination
\* for this very command, reached, and its delay p1 has passed since; a
\* landing has touched down (and only counts when the mission goes on
\* after landing); a loiter-to-altitude is at its own destination and has
\* latched its altitude (reached_alt, whose meaning against the sampled
\* altitude LoiterToAlt's refinement checks; here the crossing is free); an
\* attitude hold has lasted longer than its time; a delay has lasted longer
\* than its seconds; a script-time command was reported done by the script
\* with this command's id, or has run longer than its non-zero timeout.
CmdDone(i) ==
    LET c == Mission[i]
    IN  CASE c.id = "TAKEOFF"       -> ~veh.landed
          [] c.id \in {"WAYPOINT", "LOITER_TIME"} ->
                                       /\ wp.dest = i /\ wp.reached
                                       /\ clock - wp.reachedAt >= c.p1
          [] c.id = "LAND"          -> ContinueAfterLand /\ veh.landed
          [] c.id = "LOITER_TO_ALT" -> wp.dest = i /\ wp.reached /\ am.ltaAlt
          [] c.id = "ATTITUDE_TIME" -> clock - am.attStart > c.p1
          [] c.id = "NAV_DELAY"     -> clock - am.ndStart > c.p1
          [] c.id = "SCRIPT_TIME"   -> \/ lua.signalled
                                       \/ c.p1 > 0 /\ clock - am.nsStart > c.p1
          [] c.id = "UNKNOWN"       -> TRUE

\* The mission as Auto drives it, seen through MissionProgress: its index,
\* state and nav_cmd_loaded, with done the physical completion CmdDone of
\* the current command and the UNKNOWN commands the ones start_command
\* refuses.
UnknownCmds == {i \in 1..N : Mission[i].id = "UNKNOWN"}

Progress == INSTANCE MissionProgress
                WITH Refused <- UnknownCmds,
                     idx <- mis.idx, state <- mis.state,
                     loaded <- mis.loaded, armed <- veh.armed,
                     done <- CmdDone(mis.idx)

\* AutoMode implements MissionProgress, whatever the pilot, the failsafes,
\* mission edits, disarms and the script do.  The mission moves past a
\* command only when that command is done, as verify_command decides it
\* from do_X's state, and only to the next command Auto knows; it goes
\* back to its first command only when it is started afresh.  In
\* particular a waypoint is never passed early on a dwell timer left over
\* from an earlier command; a LAND that ends the mission is never passed
\* (verify_land disarms and returns false); a script-time command is never
\* ended by a done the script meant for an earlier command or an earlier
\* start of this one; and re-entering Auto with MIS_RESTART = 0 resumes
\* the interrupted command, neither the one after it nor the first.
ImplementsMissionProgress == Progress!Spec

\* While the EKF failsafe is active, Auto never moves from the attitude
\* submode (which needs no position) to a submode that needs one and stays
\* in Auto: set_submode's failsafe_ekf_recheck must take the vehicle out.
SubmodeChangeKeepsPositionSafety ==
    [][ (/\ veh.fm = "AUTO" /\ veh'.fm = "AUTO" /\ veh.ekfFs
         /\ ~RequiresGPS(am.mode))
        => ~RequiresGPS(am'.mode) ]_vars

\* Copter::set_mode refuses a mode that requires GPS while position_ok()
\* is false, and the EKF failsafe moves such a mode out: so the vehicle is
\* never in Auto, in a submode that needs a position, under EKF failsafe.
NoAutoNavWithoutPosition ==
    veh.fm = "AUTO" /\ veh.ekfFs => ~RequiresGPS(am.mode)

\* A flight in Auto with no disturbance ends landed and disarmed: the
\* mission runs takeoff, waypoints, script-time and delay commands and land,
\* and verify_land (or exit_mission) disarms the vehicle on the ground; a
\* script that never answers is ended by verify_nav_script_time's timeout.
LandsAndDisarms ==
    (veh.fm = "AUTO" /\ veh.armed) ~> (veh.landed /\ ~veh.armed)

====
