\* The pldp delay against a place_start_time_ms that Descent never set.
CONSTANTS
    HasLoc = FALSE
    DescentMax = 0
    GripperValid = TRUE
    RngMax = 0
    RngEnabled = FALSE
    DelayUnits <- MCDelayUnits
    Ground = 2
    AltStarts <- MCAltStarts
    ThrustHover <- MCThrustHover
    ThrustLight <- MCThrustLight
    PlacedPct <- MCPlacedPct
    Faults <- NoFaults
SPECIFICATION Spec
PROPERTIES
    DelayHonoured
