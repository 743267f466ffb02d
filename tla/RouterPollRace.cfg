SPECIFICATION Spec
CONSTANTS
    a = a
    b = b
    c = c
    Routers = {n1}
    Reqs = {r1}
    Instances = {a, b}
    Chain <- OnlyTwo
    Healthy = {b}
    Stoppable = {a}
    Sleepable = {a}
    ErrorTypes = {"json"}
    EarlyHangup = FALSE
    StoreMayFail = FALSE
    PollsCross = TRUE
    MaxRestarts = 0
INVARIANTS
    DrainedIsIdle
