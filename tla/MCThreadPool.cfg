SPECIFICATION FairSpec
CONSTANTS
    Worker = {w1, w2, w3}
    Task = {t1, t2, e1}
    Endless = {e1}
    NULL = NULL
INVARIANTS TypeOK TaskOnce NoStrandedTask
PROPERTIES CommittedIsStarted
CHECK_DEADLOCK FALSE
