SPECIFICATION FairSpec
CONSTANTS
    c1 = c1  c2 = c2  c3 = c3  a = a  b = b  m1 = m1  m2 = m2
    Conn = {c1, c3}
    Ip = {a, b}
    Fd <- Descriptors2
    Reader = {r1}
    Worker = {w1}
    Main = main
    Msg = {m1, m2}
    Room = room
    Garbled = garbled
    NULL = NULL
    PeerIp <- AB
    To <- ToRoomAndNone
    Group = {m1, m2}
    Members <- Two
    Clean = {m1}
    Storable = {m1}
    MaxTerms = 0
    Senders = {c1}
    Closers = {c3}
    Resetters = {c1}
INVARIANTS TypeOK UniqueIp NoOrphanLock HistoryToAddressee
PROPERTIES LoginCompletes
CHECK_DEADLOCK FALSE
