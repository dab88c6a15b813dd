\* Two sends of every length at a boundary; any call of the engine may fail.
CONSTANTS
    Sizes <- Boundaries
    MaxSends = 2
SPECIFICATION Spec
\* The program stops after its last send.
CHECK_DEADLOCK FALSE
INVARIANTS
    RemainderLost
    NoEmptyPackage
    Framed
