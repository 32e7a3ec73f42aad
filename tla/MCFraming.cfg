SPECIFICATION FairSpec
CONSTANTS
    Byte = {0, 1, 2}
    BlockLen = 2
    HeadLen = 2
    RecvMax = 3
    SockBuf = 8
    Text <- Texts
    GbkText <- GbkTexts
    Utf8 <- CodePage
    Substitute = 63
    Junk <- OnHeap
    DesKey <- Keys
    Dispatchers = 2
    MaxSend = 3
INVARIANTS TypeOK UplinkExact BufferFits ShownIntact
PROPERTIES EveryMessageTaken
CHECK_DEADLOCK FALSE
