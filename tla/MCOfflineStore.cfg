SPECIFICATION FairSpec
CONSTANTS
    a = a  b = b  m1 = m1  m2 = m2  m3 = m3  m4 = m4
    Ip = {a, b}
    Msg = {m1, m2, m3, m4}
    To <- Addresses
    Content <- Texts
    HeadLen = 2
    BufMax = 9
    IdsMax = 3
    MaxTerms = 2
    MaxFault = 2
    NULL = NULL
INVARIANTS TypeOK NothingLeftOver OnceUnlessFault
PROPERTIES OldestFirst ImplementsMailbox EveryRowDelivered
CHECK_DEADLOCK FALSE
