SPECIFICATION FairSpec
CONSTANTS
    Keys = {k1}
    Calls = {c1}
    Reconciler = Reconciler
    Replayer = Replayer
    Pids = {p1, p2}
    None = None
    Ops <- AllOps
    SleepKeys <- AllKeys
    MaxRestarts = 1
    MaxReboots = 0
    Cancellable <- NoCalls
    PreflightMayFail = FALSE
    SpawnMayFail = TRUE
    StoreMayFail = FALSE
PROPERTIES
    CallsReturn
    CrashedIsRestarted
    UnwantedIsStopped
