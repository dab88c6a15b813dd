\* server.c and client.c, started in any order, rally six rounds.
CONSTANTS
    s = s
    c = c
    server = s
    client = c
    Rounds = 6
SPECIFICATION Spec
\* The programs end; and a client that came too early ends the engine.
CHECK_DEADLOCK FALSE
INVARIANTS
    InStep
    MissesOnlyTheLast
PROPERTIES
    Finishes
    InOrder
