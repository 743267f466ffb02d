SPECIFICATION FairSpec
CONSTANTS
    Keys = {k1}
    Calls = {c1}
    Reconciler = Reconciler
    Replayer = Replayer
    Pids = {p1, p2}
    None = None
    Ops <- StartStop
    SleepKeys <- NoKeys
    MaxRestarts = 0
    MaxReboots = 1
    Cancellable <- AllCalls
    PreflightMayFail = FALSE
    SpawnMayFail = TRUE
    StoreMayFail = FALSE
PROPERTIES
    WantedIsStarted
