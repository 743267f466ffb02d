SPECIFICATION FairSpec
CONSTANTS
    Keys = {k1}
    Calls = {c1}
    Reconciler = Reconciler
    Replayer = Replayer
    Pids = {p1, p2}
    None = None
    Ops <- StartOnly
    SleepKeys <- NoKeys
    MaxRestarts = 1
    MaxReboots = 1
    Cancellable <- NoCalls
    PreflightMayFail = FALSE
    SpawnMayFail = FALSE
    StoreMayFail = FALSE
PROPERTIES
    DeathIsNoticed
