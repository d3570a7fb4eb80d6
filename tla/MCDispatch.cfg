CONSTANTS
    Solvers = {1, 2, 3, 4}
    Capacity = 2
    SolveDeadline = 3
    Grace = 2
    Reserve = 2
    SendBudget = 2
    MinLease = 6
    MaxExpires = 8
SPECIFICATION FairSpec
INVARIANTS PermitsConserved CommitReserveKept
PROPERTIES EveryCallReturns
