SPECIFICATION LoraSpec
CONSTANTS
    a = a
    b = b
    Order <- Two
    Op = {o1}
    MayLose = TRUE
    MayRestart = FALSE
CHECK_DEADLOCK FALSE
INVARIANTS
    GroupIsEven
