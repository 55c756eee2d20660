SPECIFICATION RtdfSpec
CONSTANTS
    b = b
    keyA = keyA
    keyB = keyB
    None = None
    Residents = {a1, a2, b}
    Keys = {keyA, keyB}
    KeyOf <- MCKeyOf
    Callers = {c1}
    IdLimit = 2
    Messages = {m1}
    OutboundGated = {a1}
    InboundGated = {a1}
INVARIANTS
    NoticeBeforeMessage
    NoStaleRoute
    GatesInOrder
    ResultTruthful
PROPERTIES
    CallsReturn
    SendsReturn
    DropEndsLoops
