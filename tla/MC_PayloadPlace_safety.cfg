\* Every path of run() with the pilot's release, the land detector, thrust dips and the rangefinder ceiling.
CONSTANTS
    HasLoc = TRUE
    DescentMax = 9
    GripperValid = TRUE
    RngMax = 4
    RngEnabled = TRUE
    DelayUnits <- MCDelayUnits
    Ground = 2
    AltStarts <- MCAltStarts
    ThrustHover <- MCThrustHover
    ThrustLight <- MCThrustLight
    PlacedPct <- MCPlacedPct
    Faults <- AllFaults
SPECIFICATION Spec
INVARIANTS
    TypeOK
    NoClimbWithPayload
PROPERTIES
    ReleaseOnlyWhenPlaced
    PlaceCompletes
