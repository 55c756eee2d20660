SPECIFICATION Spec
CONSTANTS
    Members = {m1, m2}
    MaxRooms = 2
    MaxMessages = 3
    SaveMayFail = TRUE
    None = None
CHECK_DEADLOCK FALSE
INVARIANTS
    AcknowledgedSurvives
    MessageIdsUnique
    ThreadsHaveRooms
