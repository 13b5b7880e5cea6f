SPECIFICATION FairSpec
CONSTANTS
    j1 = j1
    j2 = j2
    j3 = j3
    h1 = h1
    h2 = h2
    other = other
    None = None
    Jobs = {j1, j2}
    Handlers = {h1, h2}
    Others = {other}
    Master = graphMaster
    Liaison = liaison
    MaxEntries = 3
    BatchSize = 2
    MaxHandlers = 1
    Calls = {1, 2}
    Passes = {1, 2}
    MaxRuns = 3
    Limit = 1
    MaxAgents = 3
    MaxNudges = 1
    Quotas <- Scenarios
CHECK_DEADLOCK FALSE
INVARIANTS
    TypeOK
    DeliveredWasShown
    HandedOverOnce
    LimitsKept
    StoppedByItsOwn
PROPERTIES
    DecidedOnce
    PlacesGivenBack
    MasterHears
