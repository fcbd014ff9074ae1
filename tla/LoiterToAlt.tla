----------------------------- MODULE LoiterToAlt -----------------------------
(***************************************************************************)
(* ModeAuto's loiter-to-altitude command: do_loiter_to_alt starts it,      *)
(* loiter_to_alt_run samples the altitude error at every call of run(),   *)
(* and verify_loiter_to_alt lets the mission advance.  Altitudes are in   *)
(* cm above home.  Between two calls of run() the vehicle's altitude      *)
(* moves: the controller brings it closer to the target on the same side  *)
(* or carries it across the target by no more than it was away, and a    *)
(* gust may push it anywhere within GustStep.                             *)
(***************************************************************************)
EXTENDS Integers, Sequences

CONSTANTS
    Alts,       \* the altitudes the vehicle may be at
    StartAlts,  \* where it is when the first command begins
    Tol,        \* fabsf(alt_error_cm) < 5.0
    Mission,    \* the commands: [alt |-> target, ok |-> the frame converts]
    GustStep,   \* how far a gust moves the vehicle between two samples
    Faults      \* "gust", "ground" (disarmed, landed or interlock off)

ASSUME Tol \in Nat \ {0} /\ StartAlts \subseteq Alts
ASSUME Len(Mission) > 0 /\ \A i \in 1..Len(Mission) : Mission[i].alt \in Alts
ASSUME Faults \subseteq {"gust", "ground"}

Errs == {a - b : a, b \in Alts}
Sides == {"below", "at", "above"}

VARIABLES
    lta,       \* ModeAuto::loiter_to_alt: reached_destination_xy,
               \* loiter_start_done, reached_alt, alt_error_cm, alt
    cur,       \* copter.current_loc.alt
    xyNear,    \* wp_nav->reached_wp_destination_NE()
    grounded,  \* is_disarmed_or_landed() || !motors->get_interlock()
    ran,       \* run() has been called since the vehicle last moved
    idx,       \* the mission's current command
    attained   \* history: sides of the target sampled since the arrival

vars == <<lta, cur, xyNear, grounded, ran, idx, attained>>

LTA == [reachedXY : BOOLEAN, startDone : BOOLEAN, reachedAlt : BOOLEAN,
        altErr : Errs, alt : Alts \cup {0}]

TypeOK ==
    /\ lta \in LTA
    /\ cur \in Alts
    /\ idx \in 1..Len(Mission)
    /\ attained \subseteq Sides
    /\ {xyNear, grounded, ran} \subseteq BOOLEAN

\* the error classified as the abstract specification sees it
Side(err) == IF -Tol < err /\ err < Tol THEN "at"
             ELSE IF err < 0 THEN "below" ELSE "above"

Abs(x) == IF x < 0 THEN -x ELSE x

\* mutant: alt_error_cm is not reset, so the next command's first sample
\* is compared with the previous command's last error
DoLoiterToAltNoErrReset(l, c) ==
    IF ~c.ok THEN [l EXCEPT !.reachedXY = TRUE, !.reachedAlt = TRUE]
    ELSE [l EXCEPT !.reachedXY = FALSE, !.startDone = FALSE,
                   !.reachedAlt = FALSE, !.alt = c.alt]

\* ModeAuto::do_loiter_to_alt: a target that does not convert to above-home
\* marks the command reached and leaves the other fields as they were
DoLoiterToAlt(l, c) ==
    IF ~c.ok THEN [l EXCEPT !.reachedXY = TRUE, !.reachedAlt = TRUE]
    ELSE [l EXCEPT !.reachedXY = FALSE, !.startDone = FALSE,
                   !.reachedAlt = FALSE, !.altErr = 0, !.alt = c.alt]

\* mutant: only the tolerance band counts, not a crossing between samples
SampleNoCrossing(l, h) ==
    LET err == h - l.alt IN
    [l EXCEPT !.startDone = TRUE,
              !.reachedAlt = @ \/ Abs(err) < Tol,
              !.altErr = err]

\* the altitude test of loiter_to_alt_run: within the band, or the error
\* changed sign since the previous sample
Sample(l, h) ==
    LET err == h - l.alt IN
    [l EXCEPT !.startDone = TRUE,
              !.reachedAlt = @ \/ Abs(err) < Tol \/ err * l.altErr < 0,
              !.altErr = err]

\* ModeAuto::loiter_to_alt_run
LoiterToAltRun(l, h, near, gnd) ==
    IF gnd THEN l
    ELSE IF ~l.reachedXY /\ ~near THEN l
    ELSE Sample([l EXCEPT !.reachedXY = TRUE], h)

\* ModeAuto::verify_loiter_to_alt
VerifyLoiterToAlt(l) == l.reachedXY /\ l.reachedAlt

Init ==
    /\ lta = DoLoiterToAlt([reachedXY |-> FALSE, startDone |-> FALSE,
                            reachedAlt |-> FALSE, altErr |-> 0, alt |-> 0],
                           Mission[1])
    /\ cur \in StartAlts
    /\ xyNear = FALSE
    /\ grounded = FALSE
    /\ ran = FALSE
    /\ idx = 1
    /\ attained = {}

\* loiter_to_alt_run computes an error only when it gets past both checks
Samples(l, near, gnd) == ~gnd /\ (l.reachedXY \/ near)

Run ==
    /\ lta' = LoiterToAltRun(lta, cur, xyNear, grounded)
    /\ attained' = IF Samples(lta, xyNear, grounded)
                   THEN attained \cup {Side(cur - lta.alt)} ELSE attained
    /\ ran' = TRUE
    /\ UNCHANGED <<cur, xyNear, grounded, idx>>

\* AP_Mission::update: verify, then start the next command
Advance ==
    /\ VerifyLoiterToAlt(lta)
    /\ idx < Len(Mission)
    /\ idx' = idx + 1
    /\ lta' = DoLoiterToAlt(lta, Mission[idx + 1])
    /\ xyNear' = FALSE
    /\ attained' = IF Mission[idx + 1].ok THEN {} ELSE attained
    /\ UNCHANGED <<cur, grounded, ran>>

\* where the climb rate demand of loiter_to_alt_run (a sqrt_controller on
\* -alt_error_cm, constrained to the speed limits) can carry the vehicle
\* before the next call: closer on the same side, or across the target by
\* no more than it was away
Closer(h, t, c) ==
    IF (h - t) * (c - t) > 0 THEN Abs(h - t) < Abs(c - t)
    ELSE Abs(h - t) <= Abs(c - t)

\* mutant: the climb rate demand has the wrong sign
ApproachAway ==
    /\ ran
    /\ ~grounded
    /\ cur # lta.alt
    /\ cur' = cur + (IF cur > lta.alt THEN 1 ELSE -1)
    /\ ran' = FALSE
    /\ UNCHANGED <<lta, xyNear, grounded, idx, attained>>

Approach ==
    /\ ran
    /\ ~grounded
    /\ cur # lta.alt
    /\ \E h \in Alts : Closer(h, lta.alt, cur) /\ cur' = h
    /\ ran' = FALSE
    /\ UNCHANGED <<lta, xyNear, grounded, idx, attained>>

Gust ==
    /\ "gust" \in Faults
    /\ ran
    /\ \E h \in Alts : Abs(h - cur) <= GustStep /\ cur' = h
    /\ ran' = FALSE
    /\ UNCHANGED <<lta, xyNear, grounded, idx, attained>>

ArriveXY ==
    /\ ~xyNear
    /\ xyNear' = TRUE
    /\ UNCHANGED <<lta, cur, grounded, ran, idx, attained>>

GroundChange ==
    /\ "ground" \in Faults
    /\ grounded' = ~grounded
    /\ UNCHANGED <<lta, cur, xyNear, ran, idx, attained>>

Next == Run \/ Advance \/ Approach \/ Gust \/ ArriveXY \/ GroundChange

\* run() is called at 100 Hz, the mission polls verify, the altitude and
\* position controllers act; gusts and the pilot are not relied on
Fairness ==
    /\ WF_vars(Run)
    /\ WF_vars(Advance)
    /\ WF_vars(Approach)
    /\ WF_vars(ArriveXY)

Spec == Init /\ [][Next]_vars /\ Fairness

(***************************************************************************)
(* Properties.                                                             *)
(***************************************************************************)

Abstract == INSTANCE LoiterToAltSpec WITH
    target <- lta.alt, reachedXY <- lta.reachedXY,
    reachedAlt <- lta.reachedAlt

\* loiter_to_alt_run and do_loiter_to_alt implement LoiterToAltSpec: the
\* command is verified only once the vehicle has arrived and its sampled
\* altitude error has been inside the band or changed sign since then (or
\* the target altitude could not be converted).
ImplementsLoiterToAltSpec == Abstract!ASpec

\* Once the vehicle has arrived horizontally, the altitude
\* test of loiter_to_alt_run eventually reports the altitude reached,
\* even when the controller carries the vehicle through the band between
\* two samples, in every behaviour whose gusts and groundings stop and
\* that ends armed and flying (the controller cannot win against gusts
\* that never stop, nor climb on the ground).
Settles == <>[][~Gust /\ ~GroundChange]_vars /\ <>[]~grounded

ReachesAltitude == Settles => (lta.reachedXY ~> lta.reachedAlt)

=============================================================================
