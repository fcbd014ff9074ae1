\* The specification's end-to-end scenario with no disturbance: liveness.
CONSTANTS
    Mission <- MissionNominal
    MaxClock = 6
    MisRestart = FALSE
    ContinueAfterLand = FALSE
    Faults <- NoFaults
SPECIFICATION Spec
PROPERTIES
    LandsAndDisarms
