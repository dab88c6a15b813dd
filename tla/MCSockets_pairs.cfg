\* One request at a time, three slots: two servers with a client each, one of
\* which first asks for the port of the other server.
CONSTANTS
    s1 = s1
    s2 = s2
    c1 = c1
    c2 = c2
    x = x
    Programs = {s1, c1, s2, c2}
    MaxUsers = 3
    NULL = NULL
    Local <- BindShared
    Remote <- ConnectTwo
    V6 = {c2}
    Serialized = TRUE
SPECIFICATION Spec
\* Programs close and stop, and the engine may die.
CHECK_DEADLOCK FALSE
INVARIANTS
    OwnSlot
    TargetsLive
    Mutual
    PeerTold
    PortExclusive
PROPERTIES
    AcceptReturns
