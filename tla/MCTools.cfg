SPECIFICATION Spec
CONSTANTS
    a = a
    b = b
    group = group
    solo = solo
    secret = secret
    c = c
    None = None
    Residents = {a, b}
    Rooms = {group, solo, secret}
    Incognito = {secret}
    MembersOf <- MCMembersOf
    RoomOf <- MCRoomOf
    MaxMessages = 4
    CallIds = {c}
    Limits = {1}
    MaxQueries = 3
INVARIANTS
    AnswersOwnQuestion
    ReadsWithinContext
    PagesComplete
PROPERTIES
    CallsReturn
CHECK_DEADLOCK FALSE
