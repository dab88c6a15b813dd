\* Two plugins want the same function or one each, three files are unusable, and
\* the program makes a call.
CONSTANTS
    a = a
    b = b
    v = v
    x = x
    u = u
    Files = {a, b, v, x, u}
    NULL = NULL
    Kind <- Bad
    Functions = {"listen", "send"}
    Wishes <- SendOrListen
    Fixers = {a}
    Runners = {a}
    Closers = {b}
    MaxCalls = 1
SPECIFICATION Spec
\* The program stops after its last call, or dies.
CHECK_DEADLOCK FALSE
INVARIANTS
    OwnerRegistered
    DiesOnlyLoading
    NeverCallsNull
    RunningRunsDefault
PROPERTY SealedStays
