# TLA+ models of ArduCopter Auto mode and its neighbours

This directory holds TLA+ specifications of the code under `src/`, the TLC
configurations that check them, and `PROJECT.json`. `PROJECT.json` lists the
components, runs, mutants, source map, findings and hazards.

## The system

`src/` is a slice of ArduPilot. Most of it is Copter's Auto flight mode.

| Part | Source | What it does |
|---|---|---|
| Auto mode dispatcher | `ArduCopter/mode_auto.cpp` | Owns the active submode (`_mode`) and runs it at 100 Hz (`run`). It starts and verifies mission commands through the callbacks that `AP_Mission` calls (`start_command`, `verify_command`). It enters and leaves the mode (`init`, `exit`) and ends the mission (`exit_mission`). |
| Sub-controllers | same file | Takeoff, waypoint (`wp_start`, `do_nav_wp`, `set_next_wp`, `verify_nav_wp`), land (`do_land`, `verify_land`), loiter and loiter-to-altitude, circle, spline, nav-guided and script-time, attitude-time, and the payload-place state machine (`PayloadPlace::run`/`verify`). |
| Mission source (`AP_Mission`) | not in `src/` | Holds the command list and the current nav command. It calls `start_command` when a command begins and polls `verify_command` to advance. |
| Vehicle (`Copter`) | not in `src/` | `set_mode`, which refuses a mode needing GPS while `position_ok()` is false. Also disarm (which resets the mission), the EKF failsafe (`failsafe_ekf_event`, `failsafe_ekf_recheck`) and the terrain failsafe. |
| DTS6012M rangefinder | `libraries/AP_RangeFinder/AP_RangeFinder_DTS6012M.cpp` | A UART frame parser with resync on the header, a CRC, and mapping of invalid distances. |
| DTS6012M simulator | `libraries/SITL/SIM_RF_DTS6012M.h` | Produces those frames in SITL. |
| Actuator telemetry | `Tools/AP_Periph/actuator_telem.cpp`, `unnamed/part_000` | Assigns current-sense pins with int8 arithmetic and sends telemetry round-robin. |
| Plane flight/crash detection | `unnamed/part_001` | The `is_flying` estimate and the debounced crash detector. It runs at 5 Hz and declares a crash after 500 ms, or at once on a hard landing. |
| Data and interfaces | `AP_GPS_UBLOX_CFG_List.h`, `AP_VisualOdom_Backend.h`, PR template | No behaviour. |

### How the parts interact

Everything in Auto runs on one thread. The scheduler calls `ModeAuto::run`, and `run` runs these steps in order:
1. It waits for the EKF origin, then calls `mission.start_or_resume()`.
2. If the mission was edited while the submode is WP, it restarts the current command.
3. It calls `mission.update()`. From inside `update`, `AP_Mission` calls `verify_command` for the current command and then `start_command` for the next ones.
4. It runs the controller of whatever submode is now current.

Those callbacks can change the flight mode mid-step:
- the terrain failsafe after a `wp_start` failure;
- the EKF failsafe re-raised by `set_submode`;
- `set_mode(LAND)` from `exit_mission`.

### Hard behaviours of this code

- **The EKF failsafe is re-raised only by `set_submode`.** The attitude submode needs no position, so an active EKF failsafe is re-raised when Auto leaves it. That happens only through `set_submode`, and `init` and `loiter_start` assign `_mode` directly.
- **`requires_GPS()` can read a stale submode.** It is evaluated when Auto is selected, on the `_mode` left from the previous Auto session.
- **Dwell timers and failure paths.**
  - A `loiter_time` of 0 means "not started".
  - `do_nav_wp` returns on failure before resetting the timer.
  - `set_next_wp` can fail after the command has half started.
- **Landing parks the mission.** `verify_land` disarms and reports false to park the mission, and disarming resets the mission.
- **The script-time handshake crosses threads.** A Lua script reads the running NAV_SCRIPT_TIME command and its `nav_scripting.id`, and reports it done later, perhaps after the command was restarted or replaced. The id comparison in `nav_script_time_done` and the `done = false` reset in `do_nav_script_time` are all that keep a late answer from ending a newer command. A script that never answers is ended only by a non-zero timeout.

## Modules

### `AutoMode.tla`: the dispatcher with the mission and the vehicle

**State.**
- `am`: the `ModeAuto` fields:
  - `_mode`, `waiting_to_start`, the land `state`;
  - `loiter_time`, `loiter_time_max`, the attitude start time;
  - `auto_takeoff.complete`, the two loiter-to-alt flags;
  - an INTERNAL_ERROR flag.
- `wp`: the wp_nav destination, whether it was reached, and when.
- `mis`: the `AP_Mission` state, the current nav index and `nav_cmd_loaded`.
- `veh`: the flight mode (Auto or other), armed, land_complete, the EKF failsafe, the origin, and terrain data.
- `am` also holds the nav-delay start and length, and `nav_scripting`'s `done`, `start_ms` and `timeout_s`.
- `clock` (seconds) and `edited` (the mission-change detector's pending change).
- `lua`: the Lua script. `held` says whether the id it last read from `nav_script_time()` is still `nav_scripting.id` ("current"), is an older one ("stale"), or was never read. `signalled` is a ghost: the script has called `nav_script_time_done` with the current id.

**How the code becomes operators.** Every C++ function becomes an operator from a world record to the world after the call, so a handler is the composition of its callees:
- `SetSubmode` calls `FailsafeEkfRecheck`;
- `DoNavWp` calls `WpStart`, `SetNextWp` and `FailsafeTerrainOnEvent`;
- `MissionUpdate` calls `VerifyCommand` and `AdvanceFrom`, and `AdvanceFrom` is RECURSIVE over `StartCommand` and ends in `MissionComplete` → `ExitMission`.

The action `Run` is a whole `ModeAuto::run` (`AutoRun`), so a failsafe inside a callback happens within the same step, as in the code.

**The environment's actions.**
- The pilot enters Auto (`Copter::set_mode` + `init`, i.e. `CanEnterAuto`/`EnterAuto`), leaves it, arms, disarms or takes off.
- The EKF failsafe comes and goes.
- Terrain data appears and disappears.
- The mission is re-uploaded.
- Time ticks. At `MaxClock` the clock stops and every stored stamp ages by one second instead (`Aged`). A stamp stops ageing at 1, so the "not started" value 0 stays 0. With `MaxClock >= 5` a stamp of 1 is already older than every delay, dwell and timeout (at most 3 s), so each comparison gives the result an unbounded clock would. Time therefore never stops for a command waiting on it.
- The Lua script reads the command (`ScriptReadsCommand`, which is `nav_script_time`) or reports done (`ScriptSignalsDone`, which calls `nav_script_time_done`), at any point between two `run()` calls. The scripting bindings are not in this repository. Each binding call is taken to run under the scheduler semaphore, so each call is one step.
- The vehicle reaches a destination, climbs out of a takeoff, or touches down.

**Abstractions.**
- A location is the index of the command it came from.
- An altitude frame is whether the command needs terrain data.
- Whether loiter-to-alt's altitude has been crossed is chosen nondeterministically each tick.
- `nav_scripting.id` is kept only as whether the script's copy equals it. The uint16 id only repeats after 65536 increments, which no bounded run reaches.
- A NAV_DELAY of 0 seconds waits for a UTC time of day from the RTC. That branch is excluded by an ASSUME, so every modelled delay is relative.

**What is mapped to what.** Functions of `mode_auto.cpp` are mapped to their lines. `AP_Mission` and the `Copter` collaborators are not in `src/`; they are written from the specification and marked `spec_modelled`.

### `MissionProgress.tla`: what the mission promises about its progress

The abstract specification of the mission as Auto drives it, without the flight. Its variables are `AP_Mission`'s index, state and `nav_cmd_loaded`, whether the vehicle is armed, and `done`: whether the current command has done its job. The flight decides `done`, so the specification leaves it free. The constant `Refused` is the set of commands `start_command` refuses.

Its actions:
- `Start`: the mission starts from its first accepted command. This happens after completion, after a disarm reset, or on `MIS_RESTART`.
- `Resume`: a stopped mission restarts its current command.
- `Restart`: a mission edit restarts the running command.
- `Advance`: a done command hands over to the next accepted one, or the mission completes.
- `Stop`: Auto is left.
- `Arm`: the vehicle is armed.
- `Disarm`: every disarm resets the mission, so `nav_cmd_loaded` is cleared.

A step that starts a command may raise the terrain failsafe inside the start. In the air the failsafe leaves Auto, and the step ends with the mission stopped. On the ground it disarms the vehicle, and the step ends with nothing loaded: the command is loaded exactly when the start did not disarm. These are compound steps of the code, and the specification allows them as single steps.

`AutoMode` instantiates it as `Progress` with `idx <- mis.idx`, `state <- mis.state`, `loaded <- mis.loaded`, `armed <- veh.armed`, `done <- CmdDone(mis.idx)` and `Refused <- UnknownCmds`. The property `ImplementsMissionProgress == Progress!Spec` is checked in `auto_safety`.

Writing the refinement showed three compound steps of the code:
- `resume` whose command start disarms the vehicle leaves the mission running with nothing loaded.
- An advance whose command start disarms the vehicle leaves the mission with nothing loaded. `AdvanceFrom` marks the command loaded only when its start did not reset the mission (`ResetByStart`), so the reset of the disarm stands, and the next update starts from the first command.
- A mission edit's restart that disarms is followed, in the same `run()`, by `update` starting the mission from the top.

`Disarm` acts only on an armed vehicle, as `disarm` refuses when already disarmed. So the reset, and `ResetByStart`, happen only on a real disarm.

For a loiter-to-altitude command, `done` is the horizontal arrival at the command's own destination together with the latched `reached_alt`. AutoMode leaves the altitude crossing free; `lta_refine` checks what `reached_alt` means against the sampled altitude.

### `MC_AutoMode.tla`

Defines the missions used by the configurations:
- `MissionFull`: every modelled command kind except the delay, which doubles the state space and is in the nominal run. It includes a script-time command with a 1 s timeout. A terrain-relative timed loiter follows a no-delay waypoint, so `set_next_wp` needs its terrain, and `do_loiter_time` meets the same terrain failure itself.
- `MissionNominal`: the specification's takeoff / waypoint / land scenario, with a script-time command (1 s timeout) and a 1 s delay before the land.
- `MissionAttitude`: takeoff, attitude hold, waypoint.

### `PayloadPlace.tla`: the payload-place sub-controller

**State.**
- `pp`: the `PayloadPlace` fields: `state`, and the ages of `descent_established_time_ms` and `place_start_time_ms`. It also holds `descent_start_altitude_cm` and `descent_thrust_level` in percent.
- `alt`: the position controller's desired altitude. `velOk`: the desired descent rate has reached 95 % of `descent_speed_cms`.
- The environment:
  - `wpReached`;
  - `land_complete_maybe` and `land_complete`;
  - the gripper's `release()` call and its `released()` report;
  - `dip`, a transient low throttle sample.
- `ran`: `run()` was called in the current time unit.
- Ghosts: `aborted` (ended by an abort edge) and `ageRel` (time since entering Release).

**Actions.**
- `Run` is one call of `PayloadPlace::run` (`PayloadRun`): the early return when landed, `LandCheck`, `GripperCheck`, then `Switch`. `Switch` is the state switch, and its fall-throughs are compositions: `DescentStart` calls `DescentStep`, and `ReleasingStep` → `DelayStep` → `AscentStep`.
- `Tick` is one 500 ms unit. The ages grow, and the desired altitude moves as the final switch of `run()` commands (`Driven`): down in Descent_Start/Descent, held from Release to Ascent_Start, and up to `descent_start_altitude_cm` in Ascent/Done. `Tick` needs a `Run` in the unit, because `run()` is called at 100 Hz.
- The environment's actions: `ReachWp`, `LandSuspected` (only while the payload rests), `LandConfirmed`, `GripperOpens` (after `release()`), `PilotReleases`.
- `Init` is `do_payload_place`: FlyToLocation with a location, Descent_Start without. Before the first placing, `place_start_time_ms` is zero and long past.

**Abstractions.**
- A timestamp is its age in 500 ms units, saturating at `Cap`. `Cap` is above every threshold `run()` compares with (calibration 4, placed check 1, delay `DelayUnits`), so no guard changes and time is unbounded.
- Thrust is `ThrustHover` while the payload hangs and `ThrustLight` once it rests at `alt <= Ground`, or during a one-unit dip.
- The rangefinder reads the desired altitude, with `alt_ok` and no glitches, up to its ceiling `RngMax`. Above the ceiling it is unhealthy, and the release waits.
- Ascent's stop distance is below one altitude unit.
- The desired altitude may sink below the touchdown height, as `land_at_climb_rate` keeps lowering it. It is bounded just past the depth at which the descent limit trips.

### `MC_PayloadPlace.tla`

- `Ground` is 2. Placing starts at altitude 3 or 10. From 3, the payload touches down during the thrust calibration. From 10, it hangs through the calibration and several units after it, which is where a dip matters.
- The delay is 1 s (2 units). Thrust is 50 % hovering and 30 % resting, and the placed fraction is 90 %.
- The rangefinder ceiling is 4, above `Ground`: a placing started at 10 passes through altitudes where the release waits for a healthy range.

### `LoiterToAlt.tla` and `LoiterToAltSpec.tla`: the loiter-to-altitude test

`LoiterToAltSpec` is the abstract promise. The command is verified only after the vehicle has arrived horizontally, and since that arrival its sampled altitude has been either within the 5 cm band or on both sides of the target. The exception is a target altitude that cannot be converted to above-home, which is verified at once. The vehicle may move anywhere.

`LoiterToAlt` models the code:
- `lta` holds the fields of `loiter_to_alt`.
- `Init` and `Advance` are `do_loiter_to_alt`. `Advance` is AP_Mission's verify-then-start, written from the specification.
- `Run` is `loiter_to_alt_run`:
  - the early return while grounded;
  - the horizontal latch;
  - `Sample`, which is the band test, the sign-change test against the previous `alt_error_cm`, and the store of the new error.
- `Approach` is what the climb-rate demand can do between two calls: it brings the vehicle closer on the same side, or carries it across the target by no more than it was away.
- `Gust` moves it up to 3 cm either way.

The history variable `attained` records the sides sampled since the arrival, so the refinement mapping `INSTANCE LoiterToAltSpec WITH target <- lta.alt, ...` can name the abstract state. `ImplementsLoiterToAltSpec` is `Abstract!ASpec` checked as a property.

`MC_LoiterToAlt` uses:
- altitudes 0..24 cm, starting at 0 or 12;
- a mission of a climb to 18, a target whose frame does not convert, and a descent to 6.

With these, the vehicle can cross the 9 cm band in one sample, a sample can sit exactly on the band's edge, and a stale error of either sign occurs.

### `CircleVerify.tla`: the circle command's turn count

- `Init` and the start half of `Update` are `do_circle`:
  - `CircleMoveToEdgeStart` is `circle_movetoedge_start`. It flies to the edge when the vehicle is far from it, and otherwise calls `circle_start`.
  - `CircleStart` is `circle_start`, which restarts the controller's total angle.
  - `do_circle` sets `circle_last_num_complete = -1`, the sentinel.
- `Update` is AP_Mission's verify-then-start, written from the specification. It calls `VerifyCircle`, which is `verify_circle`:
  - on the edge leg, it starts circling once the edge is reached;
  - while circling, it compares `int()` of the completed turns with the previous count and sends "starting circle k" when they differ (`Notify`);
  - it reports done when the turns are reached.
- `CircleRun` is `circle_run`: the controller turns the vehicle by 1..`Step` units of 1/`Q` turn between two calls, clockwise up and counter-clockwise down.
- `ReachEdge` is the waypoint controller arriving at the edge.
- The ghost variable `notices` records the k of every notice, per command.

`MC_CircleVerify` uses `Q = 4` and `Step = 3`. Its mission is a clockwise circle of 2 turns and a counter-clockwise one of 1.5 turns. `Step` below `Q` is the 100 Hz sampling: the vehicle turns well under a full revolution between two calls, but it can skip a whole-turn boundary by up to 3 units. The half turn makes the truncation towards zero matter.

### `DTS6012M.tla`: the rangefinder parser and the simulated sensor

The module composes the driver `AP_RangeFinder_DTS6012M` with the frames that SITL's `RF_DTS6012M::packet_for_alt` builds, over a UART that may lose, garble or insert bytes.

- A byte is its value, abstracted to what the driver compares with (`"A5"`, `"03"`, `"20"`, ..., and `"X"` for any other value), plus its origin: the frame kind and offset, or noise.
- `FrameByte` is the simulator's 23-byte layout. The distance and CRC bytes are abstracted to four kinds:
  - a plain distance;
  - a distance whose low byte is 0xA5;
  - a CRC whose high byte is 0xA5;
  - the 0xFFFF sent above 20 m.
- `CrcValid` is exact: it holds when the 23 bytes are one kind's bytes at offsets 0..22. A CRC collision on a garbled frame is not modelled.
- `GetReading` is one call of `get_reading`:
  - `send_start_command` while `got_reading` is false, which starts a connected sensor;
  - the bulk read of `sizeof(frame) - linebuf_len` bytes (`ReadCount`);
  - `Parse`, which is the header test, the wait for a whole frame, the header, length and CRC checks with `find_signature_in_buffer(1)` on failure, and the decode (`Beyond`);
  - on success, `linebuf_len = 0` and `discard_input()`.
- `Emit` is the sensor writing its frame in up to two chunks (split at an offset in `Chunks`). Any byte of a chunk may be hit by one line fault. The UART buffer (`RxCap`) has room for a chunk plus an inserted byte, so bytes are lost only through line faults.
- `Connect` is a late connection. `SensorReset` is a power cycle after which the sensor waits for a start command.

`MC_DTS6012M` uses:
- all four kinds;
- a split at offset 14;
- a 24-byte UART buffer;
- one line fault and one power cycle.

One lost header followed by a frame with 0xA5 in its distance or CRC already produces the false-header resynchronisation. Two line faults were checked once (6.2 million states, 2.5 minutes) without a violation; the project's run keeps one so each mutant run stays short.

### `PlaneCrashDetect.tla`: Plane's flying estimate and crash detector

One action, `Call`, is one call of `Plane::update_is_flying_5Hz`, which ends with `crash_detection_update`. The scheduler runs it at 5 Hz, so consecutive calls are `PeriodMs` = 200 ms apart.
- `FlyingUpdate` covers the first half of the call:
  - the flying evidence: `AirMovement` with the dead-reckoning fallback, `ArmedEvidence`, the Auto stage switch `StageEvidence` (pre-launch, approach sink, go-around climb), and `DisarmedEvidence`;
  - the impact clip `ImpactStep`, the low-pass `LowPass`, `is_flying()` (`IsFlying`), `last_flying_ms`, `started_flying_in_auto_ms` and `previous_is_flying`.
- `CrashDetectionUpdate` is `crash_detection_update`:
  - the early return outside Auto (`OutsideAuto`), which leaves `checkedHardLanding` as it was;
  - `been_auto_flying`;
  - the hard-landing test with `checkedHardLanding` (`CheckedHardLanding`), the approach and stage rules, and the veto without a 3D fix or a usable airspeed sensor;
  - the debounce (`DebounceTimer`), and the declaration with its disarm.
- The environment's actions: `ArmChange` (the pilot arms or disarms), `ModeChange` (the pilot enters or leaves Auto) and `StageChange` (the mission moves along `StageSteps`).
- The ghost `groundRun` counts consecutive Auto calls that find the armed vehicle not flying. The ghost `flareRun` counts the grounded Auto calls that expect the landing impact since an Auto call last found the vehicle flying or disarmed. Calls outside Auto leave it as it is, as they leave the landing itself, so `HardLandingRightAwayOrNever` also covers a pilot who leaves and re-enters Auto on the ground. `hardLanding` records that the last call's hard-landing test fired and survived the GPS veto.

**Abstractions.**
- A millisecond timestamp is its age in calls. It saturates where no comparison of the code can change any more: 13 calls for the 2.5 s `been_auto_flying`, 3 for the 500 ms debounce, and 16 for the 3 s impact timer. `Unset` is the stored value 0, which the code reads as "not started". A timestamp written at `millis() == 0` is `Unset` too; `MaxZeroCalls` bounds how many calls may run at that instant.
- `impact_timer_ms` is read only while `impact_detected` is set, so its age is kept at the cap otherwise.
- `isFlyingProbability` is kept in hundredths, rounded to nearest. From 1.0 it falls below 0.1 on the 15th call without evidence, as the float does. From 0 it reaches 0.9 on the 14th call, one call before the float; that threshold matters only to a disarmed vehicle.
- A sensor reading is a record of the comparisons the code makes: the GPS state (3D, 2D, lost within 5 s, lost), ground speed over the threshold, airspeed over 75 % of the minimum (estimate and last value), `is_still`, the x-deceleration spike, tilt over 60°, the stage's sink test, and airspeed health.
- There is no quadplane, and the safety switch is off.

### `MC_PlaneCrashDetect.tla`

- The phases: a pre-launch wait with throttle suppressed, takeoff, cruise, approach, flare, and a go-around. The mission's steps are launch, takeoff, cruise, approach, then flare, or a go-around back to cruise.
- The readings: flying; stopped level; stopped on its side; an impact in flight; a hard landing; and gliding with the GPS lost a moment ago and no airspeed sensor.
- Crash detection, disarm-on-crash and a single-acceleration launch are enabled. Impact detection (`crash_accel_threshold`) is off in `crash_safety`: its 3 s timer multiplies the states by six and pushes the run past TLC's time budget. With it on, the same properties were checked once and hold (1.45 million states, under 2 minutes).
- The millis-zero run uses only the flying, level and on-its-side readings.

## Runs

| Run | Config | Checks | Shows |
|---|---|---|---|
| `auto_safety` | `MC_AutoMode_safety.cfg` | `TypeOK`, `NoInternalError`, `SubmodeChangeKeepsPositionSafety`, `ImplementsMissionProgress` | With all disturbances, and a Lua script that answers late or never, on `MissionFull`: the mission never starts before the origin. No command is passed before it is physically done: a waypoint only after its own destination was reached and its delay elapsed; a script-time command only after the script reported done with this command's id, or its timeout passed. A done meant for the command's previous start (before the pilot left and re-entered Auto) must be ignored. The mission only moves on to the next command Auto knows, and re-entering Auto resumes the interrupted command rather than the one after it or the first. These are the steps of `MissionProgress`, which AutoMode is checked to refine in every step, disarming ones included. Auto never moves from the attitude submode into a position submode under EKF failsafe. |
| `auto_nominal` | `MC_AutoMode_nominal.cfg` | `LandsAndDisarms` | The specification's scenario, with a script-time command and a delay, always ends landed and disarmed, even if the script never answers: the timeout ends the script-time command. |
| `payload_safety` | `MC_PayloadPlace_safety.cfg` | `TypeOK`, `NoClimbWithPayload`, `ReleaseOnlyWhenPlaced`, `PlaceCompletes` | With the pilot's release, the land detector, a confirmed landing, thrust dips and a rangefinder ceiling above the touchdown height: the gripper is commanded open only with the payload on the ground (or already opened by the pilot), and unless aborted the vehicle climbs only after the gripper reports released. Every placing ends in Done unless the land detector confirms a landing first, including the spec's case of a payload that touches down during the calibration, which ends by the maximum-descent abort. |
| `payload_delay` | `MC_PayloadPlace_delay.cfg` | `DelayHonoured` (expected violation) | Descend from just above the touchdown height. The land detector sees the resting payload before the calibration begins, and Descent goes to Release. Delay compares `place_start_time_ms`, never set in this placing, so the climb starts as soon as the gripper reports released, with no `pldp_delay_s`. See the finding. |
| `lta_refine` | `MC_LoiterToAlt_refine.cfg` | `TypeOK`, `ImplementsLoiterToAltSpec`, `ReachesAltitude` | Under gusts and grounding, `loiter_to_alt_run` sets `reached_alt` only as `LoiterToAltSpec` allows. The `alt_error_cm = 0` reset is what keeps a previous command's error from counting as a crossing. In every behaviour whose gusts and groundings stop and that ends armed, every command's altitude is eventually reported reached, even when the controller carries the vehicle through the band between samples: this is the sign-change test's job. |
| `circle_safety` | `MC_CircleVerify_safety.cfg` | `TypeOK`, `NoticesTrackRevolutions`, `MissionCompletes` | In both directions, started at or away from the edge: each command's notices are 1, 2, ... with no gap or repeat, and they never run ahead of the turn being flown. The mission always completes. The mission ends, so deadlock is not checked. |
| `circle_spec_notices` | `MC_CircleVerify_spec.cfg` | `OneNoticePerTurn` (expected violation) | A 2-turn circle, the specification's example, sends notices 1, 2 and 3. On the call that completes the second turn, `verify_circle` sends "starting circle 3/2" just before returning true. See the finding. |
| `dts_safety` | `MC_DTS6012M_safety.cfg` | `TypeOK`, `DecodesPrimaryDistance`, `ResyncKeepsFrameStarts`, `ReadsWhileStreaming` | With a lost, garbled or inserted byte anywhere and a power cycle: a call that returns no reading never drops a frame start that follows the buffer's first byte, every reading is the primary distance of the frame sent, and while the sensor streams readings keep coming. |
| `dts_sensor_reset` | `MC_DTS6012M_reset.cfg` | `KeepsReading` (expected violation) | The sensor power-cycles after the first reading. `get_reading` sends the start command only while `got_reading` is false, so the sensor is never started again. See the finding. |
| `crash_safety` | `MC_PlaneCrashDetect_safety.cfg` | `TypeOK`, `DebouncedCrash`, `HardLandingRightAwayOrNever` | Over launch, mission, landing and go-around, with mode switches, arming and every reading: a crash is declared only after the vehicle has been armed and not flying in Auto on more consecutive calls than 500 ms spans, or by the hard-landing test. That test fires only on the first grounded call of a landing that expects the impact, never while the plane sits or is carried afterwards. |
| `crash_millis_zero` | `MC_PlaneCrashDetect_zero.cfg` | `HardLandingDeclared` (expected violation) | The hard landing is detected on the call that runs at `millis() == 0`. `debounce_timer_ms = now_ms` stores 0, which the debounce reads as "not started". On the next call `checkedHardLanding` stops the test, so the hard landing is never reported. See the finding. |
| `auto_ekf_reentry` | `MC_AutoMode_ekf.cfg` | `NoAutoNavWithoutPosition` (expected violation) | Leave Auto during an attitude hold, lose the EKF, and select Auto again. `set_mode` checks `requires_GPS()` against the stale `NAV_ATTITUDE_TIME` and accepts. `init` then sets LOITER without the recheck, so Auto runs a position submode under EKF failsafe. See the finding in `PROJECT.json`. |

Each property of a passing run has a mutant in `PROJECT.json`. The mutant is a plausible bug in the mapped code, and TLC finds the property violated under it:

| Mutant | Breaks |
|---|---|
| the mission started without waiting for the origin | `NoInternalError` |
| `do_nav_wp` without the `loiter_time = 0` reset | `ImplementsMissionProgress` |
| `do_loiter_time` without the `loiter_time = 0` reset | `ImplementsMissionProgress` |
| `resume` moving on to the command after the interrupted one | `ImplementsMissionProgress` |
| `start_or_resume` starting afresh whatever `MIS_RESTART` says | `ImplementsMissionProgress` |
| `advance_current_nav_cmd` marking the command loaded although its start disarmed and reset the mission | `ImplementsMissionProgress` |
| `set_submode` without the recheck | `SubmodeChangeKeepsPositionSafety` |
| the advance writing an index past the end | `TypeOK` |
| `do_land` without `land_start` | `LandsAndDisarms` |
| `nav_script_time_done` without the id comparison | `ImplementsMissionProgress` |
| `do_nav_script_time` without `done = false` | `ImplementsMissionProgress` |
| `verify_nav_script_time` without the timeout | `LandsAndDisarms` |
| the final switch commanding a climb rate in Ascent | `TypeOK` (PayloadPlace) |
| `Releasing` not waiting for `released()` | `NoClimbWithPayload` |
| the above-threshold branch not refreshing `place_start_time_ms` | `ReleaseOnlyWhenPlaced` |
| Ascent's `>=` written `>` | `PlaceCompletes` |
| the climb-rate demand with the wrong sign | `TypeOK` (LoiterToAlt) |
| `do_loiter_to_alt` without `alt_error_cm = 0` | `ImplementsLoiterToAltSpec` |
| the altitude test without the sign-change branch | `ReachesAltitude` |
| `do_circle` with sentinel 0 instead of -1 | `NoticesTrackRevolutions` |
| `verify_circle` never leaving the edge leg | `MissionCompletes` |
| `verify_circle` completing on `>` instead of `>=` | `TypeOK` (CircleVerify) |
| the read size without `- linebuf_len` | `TypeOK` (DTS6012M) |
| a rejected frame emptying the buffer instead of searching it | `ResyncKeepsFrameStarts` |
| the secondary distance decoded | `DecodesPrimaryDistance` |
| `find_signature_in_buffer` searching from `start` rather than after it | `ReadsWhileStreaming` |
| the low-pass written with 0.25 for 0.15 | `TypeOK` (PlaneCrashDetect) |
| the debounce without the reset when not crashed | `DebouncedCrash` |
| `checkedHardLanding` set only when the test fires | `HardLandingRightAwayOrNever` |
| the early return outside Auto also clearing `checkedHardLanding` | `HardLandingRightAwayOrNever` |

### Bounds

- **Clock.**
  - It starts at 1, so Auto never runs at `millis() == 0`, which is `verify_nav_wp`'s "not started" value; that instant comes only at the 49.7-day wrap, and `crash_millis_zero` shows what the same sentinel does in the crash detector.
  - `MaxClock` is 5 in every AutoMode run, the least for which ageing stamps at the bound is exact (see `Tick`). It is 6 in the nominal run. Past the bound time goes on, so every delay, dwell and timeout can expire in every run. `auto_safety` has about 2.9 million states.
- **p1** ranges over 0..3.
- **PlaneCrashDetect** has no bound beyond its saturating ages and `MaxZeroCalls`: 0 in the safety run, 1 in the millis-zero run. Its state space is finite (221,000 states in `crash_safety`): every sequence of the listed phases, readings, mode switches and arming is explored.
- **Missions** have 3 to 8 commands. `MissionFull` reaches every branch of start and verify for the modelled kinds, including completion (`ContinueAfterLand = TRUE` there). The park-on-land branch is exercised by the nominal run.

### Fairness

Fairness is weak, and only on steps the code or the physics guarantees:
- `Run`: the scheduler calls `run()` at 100 Hz while Auto is active;
- `OriginSet`: the EKF origin is set once the EKF converges;
- `Tick`: time passes;
- `Reach`, `TakeoffClimb`, `Touchdown`: the vehicle's controllers eventually reach a target, climb out, or land when descending.

The pilot, the failsafes, mission edits and the Lua script get no fairness. A script may never read its command or never answer. `LandsAndDisarms` therefore relies on the script-time timeout, not on the script.

In `LoiterToAlt`, `Run`, `Advance`, `Approach` and `ArriveXY` are weakly fair: `run()` is scheduled, the mission polls verify, and the controllers act. Gusts and grounding get no fairness; either can stall a command forever, so `ReachesAltitude` is stated for behaviours in which they stop (`Settles`) and the vehicle ends armed and flying. `Approach` and `Gust` need a `Run` since the last move, because the vehicle cannot cross the target twice between two 100 Hz samples.

In `CircleVerify`, `Update`, `CircleRun` and `ReachEdge` are weakly fair: the mission is polled and the circle and waypoint controllers make progress. `CircleRun` needs an `Update` since the last turn, which is the 100 Hz sampling.

In `DTS6012M`, `GetReading` and `Emit` are weakly fair: the backend calls `get_reading` at the scheduler's rate, and a started sensor keeps streaming. Line faults, connection and power cycles get no fairness; the faults are bounded, so they end.

In `PayloadPlace`, `Run`, `Tick`, `ReachWp` and `GripperOpens` are weakly fair. A commanded gripper opens. The land detector, the pilot and thrust dips get no fairness.

`PlaneCrashDetect` checks only safety, so it assumes no fairness. A liveness property ("a stopped vehicle is eventually declared crashed") would need the sensor readings to persist, which the model keeps as per-call inputs rather than state.

## Not modelled, and why

- **Controller mathematics** (position and attitude control, yaw) is continuous control with no discrete state the properties distinguish.
- **The do commands** only set controller parameters.
- **Auto-RTL** (`enter_auto_rtl`, the `jump_to_landing_sequence` and return-path entries, and the exit test at the end of `run()`) depends on AP_Mission's landing-sequence jump and its return-path and force-resume flags. Neither `src/` nor the specification describes them.
- **Spline, nav-guided and RTL commands** need path geometry, guided-mode limits and the RTL state machine (`mode_rtl.cpp`), which are not in this repository.
- **A NAV_DELAY to a UTC time of day** reads the RTC; only relative delays are modelled.
- **`AP_GPS_UBLOX_CFG_List.h`, `AP_VisualOdom_Backend.h`** hold data and declarations only.
- **The PR template** is documentation.
- **`actuator_telem.cpp`** (AP_Periph actuator telemetry) has no model yet. Its pin arithmetic is a pure function, and its `update` only sends. Every run slot of the project is taken, so it waits for a later module.
- **In `part_001`**: the quadplane and VTOL branches, `started_flying_ms` and `ground_mode` (written but not read here), and the notify, ADS-B, parachute, statistics, logging and AHRS outputs.

## Plan

Later modules, in order. Each brings its own MC module and runs.

1. **`PayloadPlace`** (done). Left: composing it with `AutoMode` as the `NAV_PAYLOAD_PLACE` command.
2. **`LoiterToAlt`** (done), with the abstract `LoiterToAltSpec`.
3. **`CircleVerify`** (done). Left: the circle's centre and radius (`loc_from_cmd`, the radius encoding), which plan item 4 covers.
4. **`Locations`.** `loc_from_cmd`, `shift_alt_to_current_alt`, the takeoff altitude clamp, and `get_alt_above_ground_cm`, as pure operators checked against reference definitions.
5. **`DTS6012M`** (done). Left: the intensity-to-quality percentage, and a UART buffer that overflows mid-write.
6. **`PlaneCrashDetect`** (done). Left: a bounded-response property, which needs the sensor readings as state.
7. **`ActuatorTelem`.** Pin assignment with int8 wrap, and the round-robin send.
8. **AutoMode extensions.** Nav-delay and the script-time id handshake are done. The abstract mission-progress specification `MissionProgress` is done, and AutoMode refines it. Left: RTL and auto-RTL, circle, and pause/resume.
