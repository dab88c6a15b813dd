\* Requests of the two handler threads overlap; every load and store is a step.
CONSTANTS
    Server = Server
    Client = Client
    NB = 2
    Budget <- TwoOne
    Closers = {Server}
    Serialized = FALSE
SPECIFICATION Spec
\* Programs stop calling when their budget is used up, or close.
CHECK_DEADLOCK FALSE
INVARIANTS
    TypeOK
    PoolPartition
    InUseInRingOrder
    QueuedIntact
    NeverWedged
    NumberNeverWraps
    NeverReclaimed
