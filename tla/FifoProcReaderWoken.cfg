\* One pair: does write wake the blocked reader?
CONSTANTS
    Producers = {p1}
    Consumers = {c1}
    Capacity = 3
    WriteLens = {1}
    ReadLens = {1}
    Signals = FALSE
    Faults = FALSE
    MaxCalls = 2
SPECIFICATION Spec
INVARIANT ReaderWoken
CHECK_DEADLOCK FALSE
