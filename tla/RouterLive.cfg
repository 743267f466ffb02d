SPECIFICATION FairSpec
CONSTANTS
    a = a
    b = b
    c = c
    Routers = {n1, n2}
    Reqs = {r1}
    Instances = {a, b}
    Chain <- OnlyTwo
    Healthy <- Nobody
    Stoppable = {a}
    Sleepable = {}
    ErrorTypes = {"json", "sse"}
    EarlyHangup = TRUE
    StoreMayFail = TRUE
    PollsCross = TRUE
    MaxRestarts = 0
PROPERTIES
    RequestsEnd
    MarksSpread
