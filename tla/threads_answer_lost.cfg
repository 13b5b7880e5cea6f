SPECIFICATION Spec
CONSTANTS
    Jobs = {j1}
    MasterJobs = {}
    Questions = {q1}
    Proposals = {}
    Calls = {c1, c2}
    Timer = timer
    None = none
    MaxTurns = 1
    MaxRequests = 1
    MaxResumes = 1
    MaxOutages = 0
    MaxOpen = 1
    MaxCrashes = 0
INVARIANT AnswerKept
CHECK_DEADLOCK FALSE
