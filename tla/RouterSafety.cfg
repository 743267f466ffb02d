SPECIFICATION Spec
CONSTANTS
    a = a
    b = b
    c = c
    Routers = {n1}
    Reqs = {r1, r2}
    Instances = {a, b, c}
    Chain <- TwoAndOne
    Healthy = {c}
    Stoppable = {a}
    Sleepable = {b}
    ErrorTypes = {"json"}
    EarlyHangup = FALSE
    StoreMayFail = FALSE
    PollsCross = FALSE
    MaxRestarts = 1
SYMMETRY SwapReqs
INVARIANTS
    InflightExact
    DrainedIsIdle
    HealthyServes
