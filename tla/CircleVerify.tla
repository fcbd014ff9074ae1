---------------------------- MODULE CircleVerify ----------------------------
(***************************************************************************)
(* The circle command of ArduCopter Auto mode: do_circle with              *)
(* circle_movetoedge_start and circle_start, circle_run advancing the     *)
(* circle controller's total angle, and verify_circle counting the turns  *)
(* and sending "starting circle k/n".  Angles are in units of 1/Q turn;   *)
(* one call of circle_run turns the vehicle by 1..Step units (Step < Q,   *)
(* as at 100 Hz), clockwise up and counter-clockwise down.  AP_Mission    *)
(* calls verify_circle each update and starts the next command when it    *)
(* returns true.                                                           *)
(***************************************************************************)
EXTENDS Integers, Sequences

CONSTANTS
    Q,        \* angle units per turn
    Step,     \* the most the vehicle turns between two calls
    Mission   \* circle commands: [turns |-> units, ccw |-> BOOLEAN]

ASSUME Q \in Nat \ {0} /\ Step \in 1..(Q - 1)
ASSUME Len(Mission) > 0 /\ \A i \in 1..Len(Mission) : Mission[i].turns \in Nat

MaxTurns == LET ts == {Mission[i].turns : i \in 1..Len(Mission)}
            IN CHOOSE t \in ts : \A u \in ts : t >= u
\* the farthest the total angle gets before verify_circle sees it complete
AngleBound == MaxTurns + Step - 1
Angles == -AngleBound..AngleBound

VARIABLES
    sub,          \* _mode: CIRCLE_MOVE_TO_EDGE or CIRCLE
    angle,        \* circle_nav->get_angle_total_rad(), in units
    last,         \* circle_last_num_complete, in units
    edgeReached,  \* wp_nav->reached_wp_destination()
    idx,          \* the mission's current command
    finished,     \* the mission has completed
    ran,          \* verify_circle has run since the vehicle last turned
    notices       \* ghost: the k of each "starting circle k/n", per command

vars == <<sub, angle, last, edgeReached, idx, finished, ran, notices>>

TypeOK ==
    /\ sub \in {"CIRCLE_MOVE_TO_EDGE", "CIRCLE"}
    /\ angle \in Angles
    /\ last \in Angles \cup {-Q}
    /\ idx \in 1..Len(Mission)
    /\ {edgeReached, finished, ran} \subseteq BOOLEAN
    /\ notices \in [1..Len(Mission) -> Seq(Nat)]

W == [sub |-> sub, angle |-> angle, last |-> last, edgeReached |-> edgeReached,
      idx |-> idx, finished |-> finished, notices |-> notices]

Abs(x) == IF x < 0 THEN -x ELSE x

\* int() of a count of turns given in units: truncation towards zero
TruncTurns(a) == IF a >= 0 THEN a \div Q ELSE -((-a) \div Q)

\* circle_start: circle_nav->init_NEU_cm restarts the total angle
CircleStart(s) == [s EXCEPT !.sub = "CIRCLE", !.angle = 0]

\* circle_movetoedge_start: more than 3 m from the edge, fly there first
CircleMoveToEdgeStart(s, near) ==
    IF near THEN CircleStart(s)
    ELSE [s EXCEPT !.sub = "CIRCLE_MOVE_TO_EDGE", !.edgeReached = FALSE]

\* mutant: the "not yet notified" sentinel is 0 instead of -1
DoCircleNoSentinel(s, near) ==
    [CircleMoveToEdgeStart(s, near) EXCEPT !.last = 0]

\* ModeAuto::do_circle
DoCircle(s, near) ==
    [CircleMoveToEdgeStart(s, near) EXCEPT !.last = -Q]

\* the notice for the turn now being started
Notify(s, c) ==
    [s EXCEPT !.last = c,
              !.notices[s.idx] = Append(@, TruncTurns(c) + 1)]

\* mutant: the edge is never turned into circling
VerifyCircleNoStart(s) ==
    IF s.sub = "CIRCLE_MOVE_TO_EDGE" THEN [done |-> FALSE, s |-> s]
    ELSE LET c == Abs(s.angle)
             t == IF TruncTurns(c) # TruncTurns(s.last) THEN Notify(s, c) ELSE s
         IN [done |-> c >= Mission[s.idx].turns, s |-> t]

\* mutant: completion needs strictly more than the requested turns
VerifyCircleStrict(s) ==
    IF s.sub = "CIRCLE_MOVE_TO_EDGE"
    THEN [done |-> FALSE, s |-> IF s.edgeReached THEN CircleStart(s) ELSE s]
    ELSE LET c == Abs(s.angle)
             t == IF TruncTurns(c) # TruncTurns(s.last) THEN Notify(s, c) ELSE s
         IN [done |-> c > Mission[s.idx].turns, s |-> t]

\* ModeAuto::verify_circle
VerifyCircle(s) ==
    IF s.sub = "CIRCLE_MOVE_TO_EDGE"
    THEN [done |-> FALSE, s |-> IF s.edgeReached THEN CircleStart(s) ELSE s]
    ELSE LET c == Abs(s.angle)
             t == IF TruncTurns(c) # TruncTurns(s.last) THEN Notify(s, c) ELSE s
         IN [done |-> c >= Mission[s.idx].turns, s |-> t]

Become(s) ==
    /\ sub' = s.sub
    /\ angle' = s.angle
    /\ last' = s.last
    /\ edgeReached' = s.edgeReached
    /\ idx' = s.idx
    /\ finished' = s.finished
    /\ notices' = s.notices

\* the state is the world s
Is(s) ==
    /\ sub = s.sub
    /\ angle = s.angle
    /\ last = s.last
    /\ edgeReached = s.edgeReached
    /\ idx = s.idx
    /\ finished = s.finished
    /\ notices = s.notices

\* the first command starts on zero-initialised fields
Init ==
    /\ \E near \in BOOLEAN :
          Is(DoCircle([sub |-> "CIRCLE", angle |-> 0, last |-> 0,
                           edgeReached |-> FALSE, idx |-> 1, finished |-> FALSE,
                           notices |-> [i \in 1..Len(Mission) |-> <<>>]],
                          near))
    /\ ran = FALSE

\* AP_Mission::update: verify the current command; when it is complete,
\* start the next one (whose start may be near the edge or not), or end
Update ==
    /\ ~finished
    /\ LET r == VerifyCircle(W) IN
       IF ~r.done THEN Become(r.s)
       ELSE IF r.s.idx < Len(Mission)
       THEN \E near \in BOOLEAN :
               Become(DoCircle([r.s EXCEPT !.idx = @ + 1], near))
       ELSE Become([r.s EXCEPT !.finished = TRUE])
    /\ ran' = TRUE

\* ModeAuto::circle_run: circle_nav->update_cms turns the vehicle
CircleRun ==
    /\ ~finished
    /\ sub = "CIRCLE"
    /\ ran
    /\ \E d \in 1..Step :
          angle' = IF Mission[idx].ccw THEN angle - d ELSE angle + d
    /\ ran' = FALSE
    /\ UNCHANGED <<sub, last, edgeReached, idx, finished, notices>>

\* the waypoint controller arrives at the circle's edge
ReachEdge ==
    /\ ~finished
    /\ sub = "CIRCLE_MOVE_TO_EDGE"
    /\ ~edgeReached
    /\ edgeReached' = TRUE
    /\ UNCHANGED <<sub, angle, last, idx, finished, ran, notices>>

\* after the last command the mission is complete and this model stops
Next == Update \/ CircleRun \/ ReachEdge

\* run() and mission.update() are called at 100 Hz and the circle and
\* waypoint controllers make progress
Fairness ==
    /\ WF_vars(Update)
    /\ WF_vars(CircleRun)
    /\ WF_vars(ReachEdge)

Spec == Init /\ [][Next]_vars /\ Fairness

(***************************************************************************)
(* Properties.                                                             *)
(***************************************************************************)

Completed(i) == i < idx \/ finished

\* verify_circle's notices for a command are "starting circle 1", "2", ...
\* in order without a gap or repeat, and never name a turn beyond the one
\* the vehicle is flying: the -1 sentinel set by do_circle and the
\* comparison of int() counts see to it.
NoticesTrackRevolutions ==
    \A i \in 1..idx :
       /\ notices[i] = [k \in 1..Len(notices[i]) |-> k]
       /\ i = idx /\ ~finished /\ sub = "CIRCLE" =>
             Len(notices[i]) <= TruncTurns(Abs(angle)) + 1

\* Every circle command is eventually verified complete and the mission
\* ends: edge arrival starts the circling and the turn count is reached.
MissionCompletes == <>finished

\* The specification: a circle of n whole turns emits exactly one
\* "starting circle k" notice per revolution, k = 1..n.
OneNoticePerTurn ==
    \A i \in 1..Len(Mission) :
       Completed(i) => Len(notices[i]) = Mission[i].turns \div Q

=============================================================================
