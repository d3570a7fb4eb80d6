CONSTANTS
    Uuids = {"u1", "u2", "u3"}
    Delta = 2
    MaxEntries = 2
    MaxGap = 1
    LastNonceTick = 4
    Calls <- MCCalls
    Tasks = {"a", "b"}
    SolveSlots = 1
    PrintSlots = 1
    Limit = 1
    Ttl = 2
    MaxTimeout = 2
    LastTick = 3
    Timeout = 6
    Reserve = 2
    RequestTimeout = 3
    MaxRetries = 2
    Budget = 2
    ReaskLimit = 2
    MaxCalls = 2
    Attempts = 3
    Names <- MCNames
    Workspaces <- MCWorkspaces
    Texts <- MCTexts
    ListEntries = 2
    ReadBytes = 4
SPECIFICATION Spec
INVARIANTS UploadSound PagesFit
PROPERTIES ReplaysRefused NoticesAccounted SolveSound MinerProgresses
CHECK_DEADLOCK FALSE
