SPECIFICATION FairSpec
CONSTANTS
    Os = {"linux", "windows"}
    Build = {"plain", "hoisted", "removed"}
INVARIANTS TypeOK SocketReleased
PROPERTIES  ExitEnds EndNoticed
CHECK_DEADLOCK FALSE
