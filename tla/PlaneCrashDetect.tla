--------------------------- MODULE PlaneCrashDetect ---------------------------
(***************************************************************************)
(* Plane's flying estimate and crash detector: update_is_flying_5Hz, its  *)
(* is_flying() and the crash_detection_update it ends with.               *)
(*                                                                         *)
(* Each call is one 5 Hz tick (PeriodMs apart).  A millisecond timestamp  *)
(* is kept as its age in calls, saturating where no comparison of the     *)
(* code can change any more; Unset stands for the stored value 0, which   *)
(* the code reads as "not started".  A timestamp written at millis() == 0 *)
(* (once per 49.7-day wrap) is Unset too.  isFlyingProbability is kept in *)
(* hundredths, rounded to nearest: from 1.0 its low-pass falls below 0.1  *)
(* on the 15th call, as the float does; from 0 it reaches 0.9 on the 14th *)
(* call, one call before the float.                                       *)
(* Sensor readings are inputs of each call, chosen from a small set; the *)
(* mode, the flight stage and the landing phase are state that the pilot *)
(* and the mission change between calls.                                 *)
(***************************************************************************)
EXTENDS Integers

CONSTANTS
    PeriodMs,          \* scheduler period of update_is_flying_5Hz
    DetectEnabled,     \* aparm.crash_detection_enable != 0
    DisarmOnCrash,     \* CRASH_DETECT_ACTION_BITMASK_DISARM is set
    ImpactEnabled,     \* g.crash_accel_threshold != 0
    SingleAccelLaunch, \* takeoff_throttle_accel_count == 1, min_accel > 0
    Phases,            \* [stage, land, suppressed] of the mission
    StageSteps,        \* pairs of phases the mission moves between
    StartPhase,        \* the phase at boot
    Readings,          \* sensor readings a call may see, see Reading
    MaxZeroCalls       \* calls that may run at millis() == 0

CRASH_DETECTION_DELAY_MS == 500
IS_FLYING_IMPACT_TIMER_MS == 3000
AUTO_FLYING_MS == 2500          \* been_auto_flying
One == 100                      \* probability 1.0 in hundredths

Stages == {"TAKEOFF", "NORMAL", "VTOL", "LAND", "ABORT_LANDING"}
Phase == [stage : Stages, land : {"none", "approach", "flare"},
          suppressed : BOOLEAN]
GpsStates == {"3d", "2d", "lostRecent", "lost"}
Reading == [gps : GpsStates, gpsMoving : BOOLEAN, air : BOOLEAN,
            airLast : BOOLEAN, still : BOOLEAN, impact : BOOLEAN,
            tilt : BOOLEAN, sink : BOOLEAN, airHealthy : BOOLEAN]

ASSUME /\ Phases \subseteq Phase /\ Readings \subseteq Reading
       /\ StageSteps \subseteq Phases \X Phases /\ StartPhase \in Phases

CeilDiv(a, b) == (a + b - 1) \div b
\* ages beyond which no comparison of the code changes
StartCap == CeilDiv(AUTO_FLYING_MS, PeriodMs)
DelayCap == CeilDiv(CRASH_DETECTION_DELAY_MS, PeriodMs)
ImpactCap == IS_FLYING_IMPACT_TIMER_MS \div PeriodMs + 1
GroundCap == DelayCap + 1
Unset == -1

VARIABLES
    armed,        \* arming.is_armed() (safety switch off)
    modeAuto,     \* control_mode == &mode_auto
    phase,        \* flight_stage, landing phase, throttle_suppressed
    p,            \* isFlyingProbability, hundredths
    prevFlying,   \* previous_is_flying
    lastFlown,    \* auto_state.last_flying_ms > 0
    startedAuto,  \* age of auto_state.started_flying_in_auto_ms
    impact,       \* crash_state.impact_detected
    impactAge,    \* age of crash_state.impact_timer_ms
    debounce,     \* age of crash_state.debounce_timer_ms
    total,        \* crash_state.debounce_time_total_ms
    isCrashed,    \* crash_state.is_crashed
    checked,      \* crash_state.checkedHardLanding
    zeroCalls,    \* calls run at millis() == 0 so far
    groundRun,    \* ghost: consecutive Auto calls armed and not flying
    flareRun,     \* ghost: grounded Auto calls expecting the impact since
                  \* an Auto call last found the vehicle flying or disarmed
    hardLanding   \* ghost: the last call's hard-landing test fired

vars == <<armed, modeAuto, phase, p, prevFlying, lastFlown, startedAuto, impact, impactAge,
          debounce, total, isCrashed, checked, zeroCalls, groundRun,
          flareRun, hardLanding>>

Ages(cap) == {Unset} \cup 0..cap

TypeOK ==
    /\ armed \in BOOLEAN /\ modeAuto \in BOOLEAN /\ phase \in Phases
    /\ prevFlying \in BOOLEAN /\ lastFlown \in BOOLEAN
    /\ p \in 0..One
    /\ startedAuto \in Ages(StartCap)
    /\ impact \in BOOLEAN /\ impactAge \in 0..ImpactCap
    /\ debounce \in Ages(DelayCap)
    /\ total \in {0, CRASH_DETECTION_DELAY_MS}
    /\ isCrashed \in BOOLEAN /\ checked \in BOOLEAN
    /\ zeroCalls \in 0..MaxZeroCalls
    /\ groundRun \in 0..GroundCap /\ flareRun \in 0..2
    /\ hardLanding \in BOOLEAN

Sat(a, cap) == IF a > cap THEN cap ELSE a
\* a timestamp one period older
Older(t, cap) == IF t = Unset THEN Unset ELSE Sat(t + 1, cap)
\* a timestamp set to now_ms
Stamp(zero) == IF zero THEN Unset ELSE 0
\* now_ms - t >= ms for a set timestamp t
Elapsed(t, ms) == t # Unset /\ t * PeriodMs >= ms

(***************************************************************************)
(* The flying estimate.                                                    *)
(***************************************************************************)

LowPassCoeff(q, b) == (85 * q + 25 * (IF b THEN One ELSE 0) + 50) \div 100

\* isFlyingProbability = 0.85 p + 0.15 b, rounded to a hundredth
LowPass(q, b) == (85 * q + 15 * (IF b THEN One ELSE 0) + 50) \div 100

\* is_flying(): armed, flying unless probably not; disarmed, the reverse
IsFlying(q, arm) == IF arm THEN q >= 10 ELSE q >= 90

\* in_preLaunch_flight_stage(): Auto waiting, throttle suppressed, for the
\* launch of its takeoff command (no quadplane)
InPreLaunch(auto, ph) == auto /\ ph.suppressed /\ ph.stage = "NORMAL"

\* airspeed_movement, with the dead-reckoning fallback to the last
\* airspeed estimate while the GPS is lost
AirMovement(r, arm, q) ==
    IF r.gps \in {"lostRecent", "lost"} /\ arm /\ ~r.air /\ q > 30
    THEN r.airLast ELSE r.air

\* is_flying_bool of an armed vehicle before the Auto adjustments
ArmedEvidence(r, q, flown) ==
    LET air == AirMovement(r, TRUE, q)
        gpsMove == r.gps = "3d" /\ r.gpsMoving
    IN  IF flown /\ r.gps = "lostRecent" THEN air
        ELSE (air /\ ~r.still) \/ gpsMove

\* the flight-stage switch of the Auto block
StageEvidence(b, auto, ph, r) ==
    CASE InPreLaunch(auto, ph)                          -> FALSE
      [] ph.stage = "LAND" /\ ph.land = "approach" /\ r.sink -> TRUE
      [] ph.stage = "ABORT_LANDING" /\ r.sink           -> TRUE
      [] OTHER                                          -> b

\* is_flying_bool of a disarmed vehicle
DisarmedEvidence(r, ph) ==
    /\ AirMovement(r, FALSE, p) /\ r.gps = "3d" /\ r.gpsMoving
    /\ ph.stage # "TAKEOFF" /\ ph.land # "flare"

\* the impact clip of the Auto block: [impact, age, q] after it
ImpactStep(r, q, age) ==
    CASE ~ImpactEnabled -> [impact |-> FALSE, age |-> age, q |-> q]
      [] r.impact -> [impact |-> TRUE, age |-> 0,
                      q |-> IF q > 20 THEN 20 ELSE q]
      [] impact /\ age * PeriodMs > IS_FLYING_IMPACT_TIMER_MS ->
             [impact |-> FALSE, age |-> age, q |-> q]
      [] OTHER -> [impact |-> impact, age |-> age, q |-> q]

\* the flying estimate of one update_is_flying_5Hz call, up to and with
\* previous_is_flying: [p, impact, impactAge, flying, lastFlown,
\* startedAuto, isCrashed] after it
FlyingUpdate(auto, ph, r, zero) ==
    LET inAuto == armed /\ auto
        age == Sat(impactAge + 1, ImpactCap)
        imp == IF inAuto THEN ImpactStep(r, p, age)
               ELSE [impact |-> impact, age |-> age, q |-> p]
        b == CASE ~armed -> DisarmedEvidence(r, ph)
               [] auto   -> StageEvidence(ArmedEvidence(r, p, lastFlown),
                                          auto, ph, r)
               [] OTHER  -> ArmedEvidence(r, p, lastFlown)
        q == IF ~imp.impact \/ ~b THEN LowPass(imp.q, b) ELSE imp.q
        fly == IsFlying(q, armed)
        pre == inAuto /\ InPreLaunch(auto, ph)
        st0 == IF pre THEN Unset ELSE Older(startedAuto, StartCap)
    \* impact_timer_ms is read only while impact_detected is set
    IN  [p |-> q, impact |-> imp.impact,
         impactAge |-> IF imp.impact THEN imp.age ELSE ImpactCap,
         flying |-> fly,
         lastFlown |-> IF fly THEN ~zero ELSE lastFlown,
         startedAuto |-> IF fly /\ auto /\ (st0 = Unset \/ ~prevFlying)
                         THEN Stamp(zero) ELSE st0,
         isCrashed |-> isCrashed /\ ~pre]

(***************************************************************************)
(* The crash detector.                                                     *)
(***************************************************************************)

CheckedHardLandingOnCrash(grounded, expecting, hard) ==
    IF grounded THEN checked \/ hard ELSE FALSE

\* checkedHardLanding: set by every grounded call expecting the impact,
\* cleared by a call that finds the vehicle flying or disarmed
CheckedHardLanding(grounded, expecting, hard) ==
    IF grounded THEN checked \/ expecting ELSE FALSE

DebounceTimerNoReset(crashed, timer, zero) ==
    IF crashed /\ timer = Unset THEN Stamp(zero) ELSE timer

\* debounce_timer_ms after a call: reset when not crashed, started at the
\* first crashed call, kept while the crash goes on
DebounceTimer(crashed, timer, zero) ==
    CASE ~crashed       -> Unset
      [] timer = Unset  -> Stamp(zero)
      [] OTHER          -> timer

\* the early return outside Auto that also forgets the landing's check
OutsideAutoClearsChecked ==
    [debounce |-> Unset, total |-> total, isCrashed |-> FALSE,
     checked |-> FALSE, armed |-> armed, hard |-> FALSE]

\* crash_detection_update outside Auto (or disabled): the debounce timer and
\* is_crashed are cleared and the call returns, leaving checkedHardLanding
OutsideAuto ==
    [debounce |-> Unset, total |-> total, isCrashed |-> FALSE,
     checked |-> checked, armed |-> armed, hard |-> FALSE]

\* crash_detection_update after the flying estimate f of the same call:
\* [debounce, total, isCrashed, checked, armed, hard] after it
CrashDetectionUpdate(auto, ph, r, zero, f) ==
    LET been == Elapsed(f.startedAuto, AUTO_FLYING_MS)
        grounded == ~f.flying /\ armed
        hard == grounded /\ ph.land = "flare" /\ ~checked /\ been /\ r.tilt
        raw == CASE ~grounded             -> FALSE
                 [] ph.land = "flare"     -> hard
                 [] ph.land = "approach"  -> been
                 [] ph.stage = "TAKEOFF"  -> SingleAccelLaunch /\ ~ph.suppressed
                 [] ph.stage = "NORMAL"   -> ~InPreLaunch(auto, ph) /\ been
                 [] OTHER                 -> FALSE
        tot == CASE hard -> 0
                 [] raw  -> CRASH_DETECTION_DELAY_MS
                 [] OTHER -> total
        timer == IF hard THEN Stamp(zero) ELSE Older(debounce, DelayCap)
        \* no 3D fix and no usable airspeed sensor: no crash detection
        crashed == raw /\ ~(r.gps # "3d" /\ ~r.airHealthy)
        declare == /\ crashed /\ timer # Unset
                   /\ Elapsed(timer, tot) /\ ~f.isCrashed
    IN  IF ~auto \/ ~DetectEnabled
        THEN OutsideAuto
        ELSE [debounce |-> DebounceTimer(crashed, timer, zero),
              total |-> tot,
              isCrashed |-> f.isCrashed \/ declare,
              checked |-> CheckedHardLanding(grounded, ph.land = "flare",
                                             hard),
              armed |-> armed /\ ~(declare /\ DisarmOnCrash),
              hard |-> hard /\ crashed]

(***************************************************************************)
(* The specification.                                                      *)
(***************************************************************************)

\* boot: disarmed on the ground, crash_state and auto_state zeroed
Init ==
    /\ armed = FALSE /\ modeAuto = FALSE /\ phase = StartPhase /\ p = 0 /\ prevFlying = FALSE /\ lastFlown = FALSE
    /\ startedAuto = Unset /\ impact = FALSE /\ impactAge = ImpactCap
    /\ debounce = Unset /\ total = 0 /\ isCrashed = FALSE
    /\ checked = FALSE /\ zeroCalls = 0 /\ groundRun = 0 /\ flareRun = 0
    /\ hardLanding = FALSE

\* one call of update_is_flying_5Hz with a sensor reading, possibly at
\* millis() == 0
Call ==
    \E r \in Readings, zero \in BOOLEAN :
        /\ zero => zeroCalls < MaxZeroCalls
        /\ LET f == FlyingUpdate(modeAuto, phase, r, zero)
               c == CrashDetectionUpdate(modeAuto, phase, r, zero, f)
           IN  /\ p' = f.p /\ impact' = f.impact /\ impactAge' = f.impactAge
               /\ prevFlying' = f.flying /\ lastFlown' = f.lastFlown
               /\ startedAuto' = f.startedAuto
               /\ debounce' = c.debounce /\ total' = c.total
               /\ isCrashed' = c.isCrashed /\ checked' = c.checked
               /\ armed' = c.armed
               /\ zeroCalls' = zeroCalls + (IF zero THEN 1 ELSE 0)
               /\ groundRun' = IF modeAuto /\ armed /\ ~f.flying
                               THEN Sat(groundRun + 1, GroundCap) ELSE 0
               /\ flareRun' = CASE ~modeAuto \/ ~DetectEnabled -> flareRun
                                [] ~armed \/ f.flying -> 0
                                [] phase.land = "flare" -> Sat(flareRun + 1, 2)
                                [] OTHER -> flareRun
               /\ hardLanding' = c.hard
               /\ UNCHANGED <<modeAuto, phase>>

\* the pilot arms or disarms between two calls
ArmChange ==
    /\ armed' = ~armed
    /\ hardLanding' = FALSE
    /\ UNCHANGED <<modeAuto, phase, p, prevFlying, lastFlown, startedAuto, impact,
                   impactAge, debounce, total, isCrashed, checked, zeroCalls,
                   groundRun, flareRun>>

\* the pilot switches into or out of Auto between two calls
ModeChange ==
    /\ modeAuto' = ~modeAuto
    /\ hardLanding' = FALSE
    /\ UNCHANGED <<armed, phase, p, prevFlying, lastFlown, startedAuto, impact,
                   impactAge, debounce, total, isCrashed, checked, zeroCalls,
                   groundRun, flareRun>>

\* the mission moves to its next flight stage or landing phase
StageChange ==
    /\ \E ph \in Phases : <<phase, ph>> \in StageSteps /\ phase' = ph
    /\ hardLanding' = FALSE
    /\ UNCHANGED <<armed, modeAuto, p, prevFlying, lastFlown, startedAuto, impact,
                   impactAge, debounce, total, isCrashed, checked, zeroCalls,
                   groundRun, flareRun>>

Next == Call \/ ArmChange \/ ModeChange \/ StageChange

Spec == Init /\ [][Next]_vars

(***************************************************************************)
(* Properties.                                                             *)
(***************************************************************************)

\* crash_detection_update declares a crash only through its debounce: the
\* vehicle has been armed and not flying in Auto on more calls in a row
\* than CRASH_DETECTION_DELAY_MS spans, or the hard-landing test fired on
\* this call.  A crash condition that stops for one call restarts the
\* debounce timer.
DebouncedCrash ==
    [][~isCrashed /\ isCrashed' => hardLanding' \/ groundRun' > DelayCap]_vars

\* "Trigger hard landing event right away, or never again": the
\* hard-landing test of crash_detection_update fires only on the first Auto
\* call that finds the armed vehicle no longer flying while the landing
\* expects the impact, never later while it stays there (the plane
\* carried on its side after landing), whatever the mode switches between:
\* calls outside Auto return early and leave the landing as it was, and
\* only an Auto call that finds the vehicle flying or disarmed ends it.
HardLandingRightAwayOrNever == [][hardLanding' => flareRun' = 1]_vars

\* A hard landing is reported on the call that detects it: the detector
\* sets debounce_timer_ms = now_ms and debounce_time_total_ms = 0 so that
\* is_crashed is set at once.
HardLandingDeclared == [][hardLanding' => isCrashed']_vars

====
