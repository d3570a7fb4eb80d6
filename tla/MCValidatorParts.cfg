CONSTANTS
    Registered <- MCRegistered
    UidOf <- MCUidOf
    Owner = "o3"
    Limit = 2
    MaxChanges = 2
    Retries = 3
    Pacings = {30, 60}
    Segments = {"a", "b"}
    MaxDepth = 2
    MaxEntries = 3
    Size = 2
    MaxChecks = 3
    Writable = TRUE
    Recipients = {1, 2, 3}
    Concurrency = 2
    GateCapacity = 1
    SendTimeout = 2
    BatchDeadline = 3
    MaxRecipients = 2
    Backups = 2
    MaxFile = 4
    MaxRecord = 3
    Records <- MCRecords
    MaxRecords = 4
SPECIFICATION Spec
INVARIANTS PostedOnce OutcomeTruthful FetchSound VerdictFair ResultSound NoticesBounded
PROPERTIES OffersFair LogKept Returns
CHECK_DEADLOCK FALSE
