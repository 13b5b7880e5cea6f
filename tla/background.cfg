SPECIFICATION FairSpec
CONSTANTS
    alice = alice
    carol = carol
    Tenants = {alice, carol}
    Seed = {alice}
    Sandboxed = {carol}
    n1 = n1
    n2 = n2
    d1 = d1
    d2 = d2
    d3 = d3
    s1 = s1
    s2 = s2
    s3 = s3
    whole = whole
    None = None
    Deps = {linker, embedder, decider}
    Linker = linker
    Embedder = embedder
    Embeds = embedder
    Decider = decider
    MaxPause = 3
    MaxOther = 1
    Quotas <- Scenarios
    Notes = {n1, n2}
    GiveUp = 2
    DailyCalls = 2
    MaxText = 2
    MaxJobs = 5
    MaxQueueing = 2
    Docs = {d1, d2, d3}
    SectionsOf <- Sections3
    Extracts = {d2}
    Whole = whole
CHECK_DEADLOCK FALSE
INVARIANTS
    TypeOK
    EntryNotForgotten
    DocumentsKept
PROPERTIES
    JobsSettle
    RolesTakeHold
