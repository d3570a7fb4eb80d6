CONSTANTS
    Solvers = {1, 2}
    Capacity = 1
    SolveDeadline = 3
    Grace = 2
    Reserve = 2
    SendBudget = 2
    MinLease = 6
    MaxExpires = 8
SPECIFICATION Spec
INVARIANTS ContactedWithMinimum
