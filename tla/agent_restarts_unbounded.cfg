SPECIFICATION Spec
CONSTANTS
    Agents = {a1}
    Calls = {c1}
    None = none
    Cap = 1
    MaxRestarts = 3
    MaxInstances = 5
    MaxRequests = 1
INVARIANT RestartsBounded
CHECK_DEADLOCK FALSE
