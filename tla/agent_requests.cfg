SPECIFICATION WorkspaceSpec
CONSTANTS
    a1 = a1
    a2 = a2
    Agents = {a1, a2}
    Shown = a1
    Calls = {c1, c2, c3}
    None = none
    Cap = 1
    MaxRestarts = 2
    MaxInstances = 4
    MaxRequests = 5
    m1 = m1
    m2 = m2
    k1 = k1
    Catalogue <- TwoModels
    Discovered = {m2}
    Connections = {k1}
    Sidecars = {k1}
    Profiles = {p0, p1}
    DefaultProfile = p0
    Offers <- TwoProfiles
    MaxChanges = 3
    MaxChunk = 2
    Tabs = {t1, t2}
    DialogIds = {d1, d2}
    MaxSaid = 2
    Scopes <- Scenarios
SYMMETRY CallSymmetry
INVARIANTS WorkspaceTypeOK NoOrphans StatusTells ShownIsSaid DialogNotStuck KeptSomewhere SettingsHold
PROPERTY StopIsNoCrash
CHECK_DEADLOCK FALSE
