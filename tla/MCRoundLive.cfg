CONSTANTS
    m1 = m1
    m2 = m2
    m3 = m3
    Miners = {m1, m2, m3}
    Offered <- MCOffered
    MinersPerTask = 2
    Quorum = 1
    GradingConcurrency = 1
    MinLease = 1
    Contents = {c1, c2}
    NoAnswer = NoAnswer
    Pending = Pending
    Nothing = Nothing
    MaxNow = 1
SPECIFICATION FairSpec
PROPERTIES Terminates
