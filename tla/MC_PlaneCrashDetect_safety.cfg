\* The crash detector's debounce and its hard-landing rule over every phase of an Auto mission, impact detection off (crash_accel_threshold == 0).
CONSTANTS
    PeriodMs = 200
    DetectEnabled = TRUE
    DisarmOnCrash = TRUE
    ImpactEnabled = FALSE
    SingleAccelLaunch = TRUE
    Phases <- MCPhases
    StageSteps <- MCStageSteps
    StartPhase <- PreLaunch
    Readings <- MCReadings
    MaxZeroCalls = 0
SPECIFICATION Spec
INVARIANTS
    TypeOK
PROPERTIES
    DebouncedCrash
    HardLandingRightAwayOrNever
