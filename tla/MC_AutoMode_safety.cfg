\* Every command kind, every disturbance: mission safety.
CONSTANTS
    Mission <- MissionFull
    MaxClock = 5
    MisRestart = FALSE
    ContinueAfterLand = TRUE
    Faults <- AllFaults
SPECIFICATION Spec
INVARIANTS
    TypeOK
    NoInternalError
PROPERTIES
    SubmodeChangeKeepsPositionSafety
    ImplementsMissionProgress
