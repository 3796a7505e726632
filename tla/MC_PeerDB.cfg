CONSTANTS
    p1 = p1  p2 = p2  p3 = p3  c1 = c1  c2 = c2  NoPeer = NoPeer
    Peers = {p1, p2, p3}
    Blocked = {p3}
    Conns = {c1, c2}
    MinPeersInDB = 1
    Limit = 1
    Seeds = {p1}
    Proxies = {p2}
    ExpireAfter = 2
    FutureSlack = 1
    SaveEvery = 2
    DeadAge = 1
    MaxTime = 4
    TimeFloor <- MCTimeFloor
SPECIFICATION Spec
INVARIANTS TypeOK 
CHECK_DEADLOCK FALSE
