\* LoiterToAlt implements LoiterToAltSpec under gusts and grounding, and reaches its altitude once they stop.
CONSTANTS
    Alts <- MCAlts
    StartAlts <- MCStartAlts
    Tol = 5
    Mission <- MCMission
    GustStep = 3
    Faults <- AllFaults
SPECIFICATION Spec
INVARIANTS
    TypeOK
PROPERTIES
    ImplementsLoiterToAltSpec
    ReachesAltitude
