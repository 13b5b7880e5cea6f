SPECIFICATION Spec
CONSTANTS
    Jobs = {j1}
    MasterJobs = {j1}
    Questions = {}
    Proposals = {}
    Calls = {c1}
    Timer = timer
    None = none
    MaxTurns = 3
    MaxRequests = 0
    MaxResumes = 1
    MaxOutages = 0
    MaxOpen = 1
    MaxCrashes = 0
INVARIANT FailureHeard
CHECK_DEADLOCK FALSE
