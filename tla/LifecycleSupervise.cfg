SPECIFICATION Spec
CONSTANTS
    Keys = {k1, k2}
    Calls = {c1}
    Reconciler = Reconciler
    Replayer = Replayer
    Pids = {p1, p2, p3}
    None = None
    Ops <- StartOnly
    SleepKeys <- NoKeys
    MaxRestarts = 2
    MaxReboots = 0
    Cancellable <- NoCalls
    PreflightMayFail = FALSE
    SpawnMayFail = TRUE
    StoreMayFail = FALSE
SYMMETRY Symmetry
INVARIANTS
    NoOrphan
    OneProcess
    RestartArmed
