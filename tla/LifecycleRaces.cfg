SPECIFICATION Spec
CONSTANTS
    Keys = {k1}
    Calls = {c1, c2}
    Reconciler = Reconciler
    Replayer = Replayer
    Pids = {p1, p2}
    None = None
    Ops <- StartStop
    SleepKeys <- NoKeys
    MaxRestarts = 1
    MaxReboots = 0
    Cancellable <- NoCalls
    PreflightMayFail = TRUE
    SpawnMayFail = TRUE
    StoreMayFail = TRUE
SYMMETRY Symmetry
INVARIANTS
    RestartBudget
    StoppingHasOwner
    LiveBacked
