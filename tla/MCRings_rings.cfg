\* One request at a time; a pool of four blocks, the handlers of both ends.
CONSTANTS
    NB = 4
    writer = writer
    reader = reader
    Threads = {writer, reader}
    NULL = NULL
    Serialized = TRUE
SPECIFICATION Spec
\* The programs behind the handlers may stop calling.
CHECK_DEADLOCK FALSE
INVARIANTS
    RingsWhole
PROPERTIES
    CallsEnd
    ImplementsFifos
