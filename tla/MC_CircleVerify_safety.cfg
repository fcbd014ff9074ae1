\* Turn notices and completion over two circle commands.
\* The mission completes and nothing follows in this model.
CONSTANTS
    Q = 4
    Step = 3
    Mission <- MCMission
SPECIFICATION Spec
CHECK_DEADLOCK FALSE
INVARIANTS
    TypeOK
    NoticesTrackRevolutions
PROPERTIES
    MissionCompletes
