SPECIFICATION FairSpec
CONSTANTS
    Jobs = {j1}
    MasterJobs = {j1}
    Questions = {q1}
    Proposals = {}
    Calls = {c1}
    Timer = timer
    None = none
    MaxTurns = 2
    MaxRequests = 1
    MaxResumes = 1
    MaxOutages = 1
    MaxOpen = 1
    MaxCrashes = 1
INVARIANTS TriesEarned OneTurnUnlessExpired
PROPERTIES ThreadsMoveOn QueuePromise
CHECK_DEADLOCK FALSE
