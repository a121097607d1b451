\* Two writers and a reader; signals to any blocked process, bad user buffers.
CONSTANTS
    Producers = {p1, p2}
    Consumers = {c1}
    Capacity = 3
    WriteLens = {1, 2}
    ReadLens = {1, 2, 4}
    Signals = TRUE
    Faults = TRUE
    MaxCalls = 2
SPECIFICATION Spec
SYMMETRY Symmetry
INVARIANTS
    CountsExact
    FreshStart
    MtxKept
PROPERTIES
    CompleteTransfers
    MtxLostForGood
CHECK_DEADLOCK FALSE
