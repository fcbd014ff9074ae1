--------------------------- MODULE MissionProgress ---------------------------
(***************************************************************************)
(* What the mission, driven by Auto mode, promises about its progress,    *)
(* without the flight: the mission runs its commands in order, leaves a    *)
(* command only once it is done, passes over only the commands Auto        *)
(* refuses to start, completes after the last one, and goes back to the    *)
(* first command only when it is started afresh (a completed mission, a   *)
(* mission reset by a disarm, or MIS_RESTART).  Every disarm resets the    *)
(* mission.  Any step that starts a command may raise the terrain          *)
(* failsafe inside the start: in the air it leaves Auto and so stops the   *)
(* mission, on the ground it disarms and so resets the mission, which then *)
(* has no command loaded.  When a mission edit's restart resets it, the    *)
(* same update starts the mission afresh.                                  *)
(*                                                                         *)
(* done is whether the current command has done its job; the flight       *)
(* decides it, so the specification leaves it free.                       *)
(***************************************************************************)
EXTENDS Integers

CONSTANTS
    N,           \* number of mission commands
    Refused,     \* indices of the commands start_command refuses
    MisRestart   \* MIS_RESTART

ASSUME N \in Nat \ {0} /\ Refused \subseteq 1..N /\ 1 \notin Refused

VARIABLES idx, state, loaded, armed, done

pvars == <<idx, state, loaded, armed>>

\* the first command after j that Auto starts, or N + 1 when there is none
NextStartFrom ==
    [j \in 0..N |->
        IF \E k \in j+1..N : k \notin Refused
        THEN CHOOSE k \in j+1..N : k \notin Refused /\ \A m \in j+1..k-1 : m \in Refused
        ELSE N + 1]

NextStart(j) == NextStartFrom[j]

\* a step that starts a command ends with the mission running or, when
\* the start made the vehicle leave Auto, stopped; and with the command
\* loaded unless the start disarmed the vehicle, which resets the mission
Started ==
    /\ state' \in {"RUNNING", "STOPPED"}
    /\ armed' \in {armed, FALSE}
    /\ loaded' = (armed' = armed)

\* the mission starts from its first command that Auto accepts
StartFromTop == idx' = NextStart(0) /\ Started

Init == idx = 1 /\ state = "STOPPED" /\ loaded = FALSE /\ ~armed

\* the mission starts from its first command
Start ==
    /\ \/ state = "COMPLETE"
       \/ ~loaded
       \/ MisRestart /\ state = "STOPPED"
    /\ StartFromTop

\* a stopped mission resumes (restarts) its current command
Resume ==
    /\ state = "STOPPED" /\ loaded /\ ~MisRestart
    /\ Started /\ UNCHANGED idx

\* the running command is started again (a mission edit); if that start
\* disarmed the vehicle, the mission update that follows in the same step
\* finds nothing loaded and starts the mission from the top
Restart ==
    /\ state = "RUNNING" /\ loaded
    /\ \/ Started /\ UNCHANGED idx
       \/ /\ armed /\ ~armed'
          /\ idx' = NextStart(0) /\ loaded'
          /\ state' \in {"RUNNING", "STOPPED"}

\* the current command is done: the next one starts, or the mission is
\* complete (and a vehicle on the ground is disarmed)
Advance ==
    /\ state = "RUNNING" /\ loaded /\ done
    /\ IF NextStart(idx) <= N
       THEN idx' = NextStart(idx) /\ Started
       ELSE /\ idx' = N /\ loaded' = FALSE /\ state' = "COMPLETE"
            /\ armed' \in {armed, FALSE}

\* Auto is left: the mission stops where it is
Stop ==
    /\ state = "RUNNING" /\ state' = "STOPPED"
    /\ UNCHANGED <<idx, loaded, armed>>

\* the vehicle is armed
Arm ==
    /\ ~armed /\ armed'
    /\ UNCHANGED <<idx, state, loaded>>

\* every disarm resets the mission: the next update starts from the
\* beginning
Disarm ==
    /\ armed /\ ~armed' /\ ~loaded'
    /\ UNCHANGED <<idx, state>>

Next == Start \/ Resume \/ Restart \/ Advance \/ Stop \/ Arm \/ Disarm

Spec == Init /\ [][Next]_pvars

=============================================================================
