\* A hooked and a stand-alone program start one after the other, in either
\* order, and make three calls each, the second of which is refused.
CONSTANTS
    h1 = h1
    p1 = p1
    Connectors = {h1, p1}
    Hooks = {h1}
    Calls = 3
    Refused = {2}
    Serialized = TRUE
SPECIFICATION Spec
\* The programs stop after their last call; a first call may hang.
CHECK_DEADLOCK FALSE
INVARIANTS
    OwnMailbox
    LaterCallsRight
PROPERTIES
    ConnectorServed
    LaterCallsReturn
