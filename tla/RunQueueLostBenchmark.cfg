SPECIFICATION FairSpec
CONSTANTS
    e1 = e1
    e2 = e2
    e3 = e3
    Evals = {e1}
    Perfs = {b1}
    None = None
    Size <- OneTwoThree
    Budgets = {3}
    Deletable <- Nobody
    MaxRestarts = 0
    LaunchMayFail = TRUE
    StoreMayFail = FALSE
PROPERTIES
    BenchmarkIsRecorded
