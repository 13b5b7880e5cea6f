SPECIFICATION Spec
CONSTANTS
    Jobs = {j1}
    MasterJobs = {}
    Questions = {q1}
    Proposals = {p1}
    Calls = {c1, c2}
    Timer = timer
    None = none
    MaxTurns = 1
    MaxRequests = 2
    MaxResumes = 1
    MaxOutages = 1
    MaxOpen = 1
    MaxCrashes = 0
SYMMETRY CallSymmetry
INVARIANTS TypeOK WriteRunsOnce
PROPERTY ClosedStaysClosedButForTurns
CHECK_DEADLOCK FALSE
