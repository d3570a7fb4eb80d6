CONSTANTS
    RoundInterval = 3
    Configured = 2
    ChainLimit = 3
    Margin = 1
    MaxDeferral = 3
    MaxRetry = 8
    MaxRound = 5
    MaxOutage = 2
SPECIFICATION Spec
PROPERTIES WeightsSpaced
