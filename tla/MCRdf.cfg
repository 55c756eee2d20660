SPECIFICATION SafetySpec
CONSTANTS
    b = b
    keyA = keyA
    keyB = keyB
    None = None
    Residents = {a1, a2, b}
    Keys = {keyA, keyB}
    KeyOf <- MCKeyOf
    Callers = {c1, c2}
    IdLimit = 3
INVARIANTS
    TypeOK
    DirectoryConsistent
    MutualAwareness
PROPERTIES
    NoticeWhileRegistered
    UnavailableMeansGone
    ImplementsDirectory
