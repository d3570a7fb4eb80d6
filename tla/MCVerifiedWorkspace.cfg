CONSTANTS
    Workspaces = {a, b, c}
    MaxCrashes = 2
SPECIFICATION Spec
INVARIANTS VerifiedWorkspace
