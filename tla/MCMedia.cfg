SPECIFICATION MediaSpec
CONSTANTS
    upload = upload
    answer = answer
    secret = secret
    None = None
    Torn = Torn
    Senders = {upload, answer, secret}
    Uploads = {upload, secret}
    Incognito = {secret}
    Snapshots <- MCSnapshots
    Pids = {1, 2}
    MaxNumber = 2
INVARIANTS
    AlwaysLoadable
    StoredFilesExist
    OrdinaryShown
PROPERTIES
    ImplementsStore
CHECK_DEADLOCK FALSE
