SPECIFICATION Spec
CONSTANTS
    Agents = {a1}
    Calls = {c1, c2}
    None = none
    Cap = 1
    MaxRestarts = 1
    MaxInstances = 2
    MaxRequests = 2
PROPERTY StopCancelsRestart
CHECK_DEADLOCK FALSE
