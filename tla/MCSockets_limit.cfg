\* Sockets that have been closed still count.
CONSTANTS
    s1 = s1
    s2 = s2
    c1 = c1
    c2 = c2
    x = x
    Programs = {s1, c1, x}
    MaxUsers = 2
    NULL = NULL
    Local <- BindOne
    Remote <- ConnectOne
    V6 = {}
    Serialized = TRUE
SPECIFICATION Spec
\* Programs close and stop, and the engine may die.
CHECK_DEADLOCK FALSE
PROPERTIES
    RefusedOnlyWhenFull
