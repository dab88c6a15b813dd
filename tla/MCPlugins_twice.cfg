\* A plugin asks for return_running on send.
CONSTANTS
    a = a
    b = b
    v = v
    x = x
    u = u
    Files = {a}
    NULL = NULL
    Kind <- Bad
    Functions = {"listen", "send"}
    Wishes <- OnlySend
    Fixers = {}
    Runners = {a}
    Closers = {}
    MaxCalls = 1
SPECIFICATION Spec
\* The program stops after its last call, or dies.
CHECK_DEADLOCK FALSE
INVARIANT SendRunsDefault
