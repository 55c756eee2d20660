SPECIFICATION Spec
CONSTANTS
    a = a
    b = b
    open = open
    secret = secret
    x = x
    y = y
    None = None
    Residents = {a, b}
    Rooms = {open, secret}
    Incognito = {secret}
    MembersOf <- MCMembersOf
    RoomOf <- MCRoomOf
    MaxMessages = 5
    Earlier = 2
    MaxNew = 3
    Places = 1
    Users = {1, 2, 3, 4, 5}
    Keys = {x, y}
    MaxFacts = 2
    Frequent = 2
    Window = 1
    Dwell = 1
    Idle = 3
    HotCapacity = 1
    MaxTime = 3
SYMMETRY ResidentSymmetry
INVARIANTS
    NothingSkipped
    CachedByDistinctMentions
    HotIsTheMostRecent
CHECK_DEADLOCK FALSE
