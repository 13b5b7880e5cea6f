SPECIFICATION FairSpec
CONSTANTS
    top = top
    left = left
    low = low
    right = right
    amy = amy
    bob = bob
    cid = cid
    bot = bot
    e1 = e1
    e2 = e2
    r1 = r1
    r2 = r2
    q1 = q1
    q2 = q2
    n1 = n1
    n2 = n2
    x1 = x1
    x2 = x2
    Nouns = {n1, n2}
    Tids = {x1, x2}
    None = None
    Everyone = everyone
    Worker = worker
    Handler = handler
    Root = top
    OwnEntry = e1
    Positions = {top, left, low, right}
    Parent <- Tree
    People = {amy, bob, cid}
    Agents = {bot}
    Queued = {bot}
    Held <- HeldBy
    Entries = {e1, e2}
    Origin <- OriginOf
    Rids = {r1, r2}
    PersonOf <- ActsFor
    Asked = {q1, q2}
    MaxTasks = 2
    MaxPending = 3
    MaxGrants = 3
    Quotas <- Scenarios
CHECK_DEADLOCK FALSE
INVARIANTS
    TypeOK
    FloorKept
    SharedOnce
    ClosedIsHidden
    LinksStand
PROPERTIES
    PlacementStands
    RevocationTakesHold
