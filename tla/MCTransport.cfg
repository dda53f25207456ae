CONSTANTS
    Conn = {1, 2}
    Base = 1
    MaxBackoff = 4
    RxTimeout = 1
    Peer = {p1, p2}
    Radio = {r1, r2}
    MaxDelay = 1
    Skew = 1
    MaxAir = 2
    BadClock = {p1}
    NoPeer = NoPeer
    NoRadio = NoRadio
    Other = {q1, q2}
    Allowed = {q1}
    Sock = {c1, c2}
    Room = 1
    Nobody = Nobody
    NoSock = NoSock
    Session = {s1}
    Group = {g1}
    MaxQueued = 2
    BatchMax = 2
    Window = 1
    MaxAge = 2
    PageLimit = 2
    MaxEvents = 2
    MaxPeer = 0
    MaxFaults = 1
SPECIFICATION Spec
INVARIANTS ConnectionsHold
PROPERTIES DeafIsNoticed Identified Drains
CHECK_DEADLOCK FALSE
