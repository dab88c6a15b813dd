\* Every interleaving of three programs over two slots.
CONSTANTS
    s1 = s1
    s2 = s2
    c1 = c1
    c2 = c2
    x = x
    Programs = {s1, c1, x}
    MaxUsers = 2
    NULL = NULL
    Local <- BindOne
    Remote <- ConnectOne
    V6 = {}
    Serialized = FALSE
SPECIFICATION Spec
\* Programs close and stop, and the engine may die.
CHECK_DEADLOCK FALSE
INVARIANTS
    TypeOK
    FreedNotInTable
