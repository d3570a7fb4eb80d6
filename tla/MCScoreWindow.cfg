CONSTANTS
    NoHotkey = NoHotkey
    NoFile = NoFile
    Hotkeys = {h1, h2, h3}
    MaxUids = 2
    MaxSamples = 2
    MinSamples = 2
    Decay = TRUE
    Payments = {0, 1}
    InitialFiles <- MCInitialFiles
    MinObservations = 2
    MaxChallenges = 2
    MaxTurnover = 2
    MaxCrashes = 1
SPECIFICATION Spec
SYMMETRY Symmetry
INVARIANTS TypeOK OwnHistory OneSlotPerChallenge ScoresDerived FileLoads ToldIsDurable WeightsEarned
PROPERTIES OnlyCompletedAdvances MigrationPreservesScore
