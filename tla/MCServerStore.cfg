SPECIFICATION Spec
CONSTANTS
    c1 = c1  c2 = c2  c3 = c3  a = a  b = b  m1 = m1  m2 = m2
    Conn = {c1, c2, c3}
    Ip = {a, b}
    Fd <- Descriptors2
    Reader = {r1, r2}
    Worker = {w1}
    Main = main
    Msg = {m1, m2}
    Room = room
    Garbled = garbled
    NULL = NULL
    PeerIp <- AB
    To <- ToA
    Group = {}
    Members <- NoMembers
    Clean = {}
    Storable = {m1, m2}
    MaxTerms = 2
    Senders = {c2}
    Closers = {c1}
    Resetters = {}
SYMMETRY Symmetry
INVARIANTS NoOrphanLock HistoryToAddressee HistoryInOrder NoRowReplayedTwice
PROPERTIES OnlyReplayedRowsDeleted
CHECK_DEADLOCK FALSE
