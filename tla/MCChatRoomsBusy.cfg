SPECIFICATION Spec
CONSTANTS
    Members = {m1}
    MaxRooms = 1
    MaxMessages = 3
    SaveMayFail = TRUE
    None = None
CHECK_DEADLOCK FALSE
INVARIANTS
    BusyMeansProcessing
