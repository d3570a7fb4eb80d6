CONSTANTS
    Workspaces = {a, b, c}
    MaxCrashes = 2
SPECIFICATION FairSpec
INVARIANTS PublishedWhole Reclaimed
PROPERTIES BlockedOnlyByStaging
