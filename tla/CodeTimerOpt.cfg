\* Two readers that open, read, are interrupted and leave; a ring that holds codes
\* of both kinds, and two different ones for the same list.
CONSTANTS
    Procs = {p1, p2}
    Lengths = {1, 2, 3}
    Thresholds = {60}
    CBUF_SIZE = 6
    AllocFails = TRUE
    Signals = TRUE
    NumWrap = 8
    MaxReaders = 1
    MaxUnits = 1
    MaxList = 2
SPECIFICATION Spec
SYMMETRY Symmetry
INVARIANT WokenUnlessRobbed
PROPERTIES
    NumLostForGood
    ImplementsStreams
CHECK_DEADLOCK FALSE
