SPECIFICATION Spec
CONSTANTS
    chat = chat
    secret = secret
    direct = direct
    memory = memory
    lobby = lobby
    hidden = hidden
    zero = zero
    Requests = {chat, secret, direct, memory}
    Chats = {chat, secret}
    Triggers = {memory}
    Rooms = {lobby, hidden, zero}
    RoomOf <- RoomOfEach
    DirectRoom = zero
    Private = {hidden}
    Asked <- DirectAsksFirst
    Capacity = 2
    MaxThreads = 2
    MaxToolCalls = 1
    MaxRequests = 3
    None = None
CHECK_DEADLOCK FALSE
INVARIANTS
    AnsweredInOrder
    ThreadLoaded
    PrivateNotSaved
    RoomsApart
PROPERTIES
    ConversationKept
    AcceptedIsAnswered
    ShutdownWaitsForTools
