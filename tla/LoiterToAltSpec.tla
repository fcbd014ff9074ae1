--------------------------- MODULE LoiterToAltSpec ---------------------------
(***************************************************************************)
(* What a loiter-to-altitude command promises the mission: the command is  *)
(* verified (both reached flags set) only after the vehicle has arrived    *)
(* horizontally and has, at the instants the controller samples it since   *)
(* that arrival, been within the tolerance of the target altitude or on    *)
(* both sides of it; or at once when the target altitude cannot be         *)
(* converted to the above-home frame.  The vehicle's altitude may move     *)
(* anywhere; the flags are monotone within one command.                    *)
(***************************************************************************)
EXTENDS Integers, Sequences

CONSTANTS Alts, Tol, Mission

VARIABLES
    cur,        \* the vehicle's altitude
    target,     \* the altitude the command asks for
    idx,        \* the mission index of the current command
    xyNear,     \* the waypoint controller has arrived horizontally
    reachedXY,
    reachedAlt,
    attained    \* the sides of the target sampled since the arrival

avars == <<cur, target, idx, xyNear, reachedXY, reachedAlt, attained>>

Side(err) == IF -Tol < err /\ err < Tol THEN "at"
             ELSE IF err < 0 THEN "below" ELSE "above"

Attained(a) == "at" \in a \/ {"below", "above"} \subseteq a

\* a command begins; an altitude that cannot be converted verifies at once
Begin(c) ==
    /\ xyNear' = FALSE
    /\ IF c.ok
       THEN /\ target' = c.alt
            /\ reachedXY' = FALSE /\ reachedAlt' = FALSE /\ attained' = {}
       ELSE /\ reachedXY' = TRUE /\ reachedAlt' = TRUE
            /\ UNCHANGED <<target, attained>>

\* the first command begins on the zero-initialised fields
AInit ==
    /\ cur \in Alts
    /\ idx = 1
    /\ xyNear = FALSE
    /\ attained = {}
    /\ target = IF Mission[1].ok THEN Mission[1].alt ELSE 0
    /\ reachedXY = ~Mission[1].ok
    /\ reachedAlt = ~Mission[1].ok

AMove ==
    /\ cur' \in Alts
    /\ UNCHANGED <<target, idx, xyNear, reachedXY, reachedAlt, attained>>

AArrive ==
    /\ xyNear' = TRUE
    /\ UNCHANGED <<cur, target, idx, reachedXY, reachedAlt, attained>>

\* a sample after the arrival; the altitude flag may be set once attained
AObserve ==
    /\ reachedXY \/ xyNear
    /\ reachedXY' = TRUE
    /\ attained' = attained \cup {Side(cur - target)}
    /\ reachedAlt' \in IF Attained(attained') THEN {reachedAlt, TRUE}
                       ELSE {reachedAlt}
    /\ UNCHANGED <<cur, target, idx, xyNear>>

AAdvance ==
    /\ reachedXY /\ reachedAlt
    /\ idx < Len(Mission)
    /\ idx' = idx + 1
    /\ Begin(Mission[idx + 1])
    /\ UNCHANGED cur

ANext == AMove \/ AArrive \/ AObserve \/ AAdvance

ASpec == AInit /\ [][ANext]_avars

=============================================================================
