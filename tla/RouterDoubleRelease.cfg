SPECIFICATION Spec
CONSTANTS
    a = a
    b = b
    c = c
    Routers = {n1}
    Reqs = {r1, r2}
    Instances = {a, b}
    Chain <- OnlyTwo
    Healthy <- Nobody
    Stoppable = {a}
    Sleepable = {a, b}
    ErrorTypes = {"json", "sse"}
    EarlyHangup = FALSE
    StoreMayFail = FALSE
    PollsCross = FALSE
    MaxRestarts = 0
INVARIANTS
    InflightExact
