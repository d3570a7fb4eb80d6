CONSTANTS
    m1 = m1
    m2 = m2
    m3 = m3
    Miners = {m1, m2, m3}
    Offered <- MCOffered
    MinersPerTask = 3
    Quorum = 2
    GradingConcurrency = 2
    MinLease = 1
    Contents = {c1, c2, c3}
    NoAnswer = NoAnswer
    Pending = Pending
    Nothing = Nothing
    MaxNow = 2
SPECIFICATION Spec
SYMMETRY Symmetry
INVARIANTS StorageReserved FirstFaultDecides
PROPERTIES ImplementsSealedRound NoGradingAfterFault
