SPECIFICATION Spec
CONSTANTS
    e1 = e1
    e2 = e2
    e3 = e3
    Evals = {e1, e2, e3}
    Perfs = {b1, b2}
    None = None
    Size <- OneTwoThree
    Budgets = {2, 3}
    Deletable <- Nobody
    MaxRestarts = 1
    LaunchMayFail = FALSE
    StoreMayFail = FALSE
INVARIANTS
    OutcomeIsDead
