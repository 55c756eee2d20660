SPECIFICATION Spec
CONSTANTS
    chat = chat
    secret = secret
    direct = direct
    memory = memory
    lobby = lobby
    hidden = hidden
    zero = zero
    Requests = {chat}
    Chats = {chat}
    Triggers = {}
    Rooms = {lobby, hidden, zero}
    RoomOf <- RoomOfEach
    DirectRoom = zero
    Private = {hidden}
    Asked <- NoneAsked
    Capacity = 2
    MaxThreads = 1
    MaxToolCalls = 0
    MaxRequests = 1
    None = None
CHECK_DEADLOCK FALSE
PROPERTIES
    ShutdownCompletes
