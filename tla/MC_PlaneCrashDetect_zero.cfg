\* A hard landing detected on a call that runs at millis() == 0, once per 49.7-day wrap.
CONSTANTS
    PeriodMs = 200
    DetectEnabled = TRUE
    DisarmOnCrash = TRUE
    ImpactEnabled = TRUE
    SingleAccelLaunch = TRUE
    Phases <- MCPhases
    StageSteps <- MCStageSteps
    StartPhase <- PreLaunch
    Readings <- TouchdownReadings
    MaxZeroCalls = 1
SPECIFICATION Spec
PROPERTIES
    HardLandingDeclared
