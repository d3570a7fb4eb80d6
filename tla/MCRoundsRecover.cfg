CONSTANTS
    Workspaces = {a, b, c}
    MaxCrashes = 2
SPECIFICATION FairSpec
PROPERTIES RoundsRecover
