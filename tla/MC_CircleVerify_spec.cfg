\* The specification's two-turn example: one notice per whole turn.
CONSTANTS
    Q = 4
    Step = 3
    Mission <- MCMissionTwoTurns
SPECIFICATION Spec
CHECK_DEADLOCK FALSE
INVARIANTS
    OneNoticePerTurn
