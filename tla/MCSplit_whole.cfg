\* One send of 6000 bytes.
CONSTANTS
    Sizes <- Odd
    MaxSends = 1
SPECIFICATION Spec
CHECK_DEADLOCK FALSE
INVARIANTS
    SplitIsWhole
