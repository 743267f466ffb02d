SPECIFICATION ServicesSpec
CONSTANTS
    r1 = r1
    r2 = r2
    m1 = m1
    policy = policy
    q1 = q1
    q2 = q2
    s1 = s1
    s2 = s2
    Backend = {r1, r2}
    Lone = r1
    Inst = {m1}
    Policy = policy
    Value = {1, 2}
    Unsupported = {2}
    Absent = Absent
    Base <- NoBase
    Modes = {"file", "store"}
    Request = {q1, q2}
    Kinds <- RequestKinds
    Replaced <- OneBackup
    MaxStarts = 1
    MaxErrors = 0
    Count = 2
    MinReady = 1
    MinWarm = 1
    MaxReady = 2
    Window = 1
    SleepAfter = 1
    StopAfter = 2
    Cooldown = 2
    SleepCapable = TRUE
    MaxSetbacks = 1
    MaxRestarts = 1
    Quiet = 2
    Sink = {s1, s2}
    Floor <- Floors
    Wired = {s1}
    Admin = {1, 2}
    InOrder = TRUE
    MaxTrouble = 4
    Caller = {1, 2}
    CacheTTL = 2
    QuotaTTL = 1
    Minute = 1
    Rpm = 1
    HasQuota = TRUE
    WaitLimit = 1
    LastPeriod = 2
    Job = {d1, d2}
    NoJob = NoJob
    FullSize = 1
    MaxDeletes = 1
INVARIANTS
    ChangeIsRecorded
