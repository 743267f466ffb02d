SPECIFICATION Spec
CONSTANTS
    e1 = e1
    e2 = e2
    e3 = e3
    Evals = {e1, e2, e3}
    Perfs = {b1}
    None = None
    Size <- OneTwoThree
    Budgets = {2, 3}
    Deletable <- Somebody
    MaxRestarts = 1
    LaunchMayFail = TRUE
    StoreMayFail = TRUE
INVARIANTS
    Books
    FinishedIsDead
    CancelSticks
PROPERTIES
    RowsAreFinal
    NeverOvercommits
    EvalsYield
