\* Re-entering Auto while the EKF failsafe is active.
CONSTANTS
    Mission <- MissionAttitude
    MaxClock = 5
    MisRestart = TRUE
    ContinueAfterLand = FALSE
    Faults <- AllFaults
SPECIFICATION Spec
INVARIANTS
    NoAutoNavWithoutPosition
