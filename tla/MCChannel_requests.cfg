\* One request at a time, traffic both ways, either end may close.
CONSTANTS
    Server = Server
    Client = Client
    NB = 2
    Budget <- ThreeTwo
    Closers = {Server, Client}
    Serialized = TRUE
SPECIFICATION Spec
\* Programs stop calling when their budget is used up, or close.
CHECK_DEADLOCK FALSE
INVARIANTS
    FlagTellsQueue
    AccountExact
    BusyAccounted
PROPERTIES
    RecvReturns
    SenderWakes
    ImplementsStream
