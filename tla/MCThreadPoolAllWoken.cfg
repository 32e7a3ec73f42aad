SPECIFICATION Spec
CONSTANTS
    Worker = {w1, w2}
    Task = {t1, t2}
    Endless = {}
    NULL = NULL
INVARIANTS AllWoken
CHECK_DEADLOCK FALSE
