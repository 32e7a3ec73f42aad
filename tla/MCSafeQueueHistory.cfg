SPECIFICATION HFairSpec
CONSTANTS
    Producer = {p1}
    Consumer = {c1, c2}
    Node = {n1, n2, n3, n4}
    Value = {v1, v2}
    NULL = NULL
INVARIANTS TypeOK NoUseAfterFree NeverPopDummy PrivateOldHead NoLostWakeup ListInv
PROPERTIES ImplementsFifo EveryPushIsPopped
CHECK_DEADLOCK FALSE
