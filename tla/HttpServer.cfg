SPECIFICATION FairSpec
CONSTANTS
    c1 = c1
    c2 = c2
    c3 = c3
    b1 = b1
    d1 = d1
    d2 = d2
    NoConn = NoConn
    Conn = {c1, c2, c3}
    Base = {b1}
    Dynamic = {d1, d2}
    MaxThreads = 2
    KeepAliveMax = 2
INVARIANTS
    TypeOK
    IdleCounted
    NoLostWakeup
    ThreadsBounded
    ReturnsAlone
CHECK_DEADLOCK FALSE
PROPERTIES
    ConnectionsServed
    ListenReturns
