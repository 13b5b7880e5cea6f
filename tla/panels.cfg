SPECIFICATION MCSpec
CONSTANTS
    Knobs = {x, y}
    Admins = {u1, u2}
    Policy = policy
    Pool = pool
    North = north
    South = south
    Profile = profile
    Papers = {policy, pool, north, south, profile}
    InMemory = {policy, pool}
    Reread = {policy}
    SentWhole = {pool, profile}
    MaxEdits = 3
    Owners = {ann, bob}
    FileNames = {plan}
    MaxUploads = 2
    MaxInodes = 3
    Absent = Absent
    MaxBoots = 4
    Tools = {read, bash, write}
    NoVm = NoVm
    Fellows = {amy, ben}
    NoFellow = NoFellow
    MaxLists = 2
CHECK_DEADLOCK FALSE
INVARIANTS
    TypeOK
    FilesAsShown
    VmsClosed
PROPERTIES
    EditsTakeHold
    RailTells
