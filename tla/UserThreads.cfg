\* A process with a reader and a writer, and one with a reader only.
CONSTANTS
    A = A
    B = B
    r1 = r1
    r2 = r2
    w1 = w1
    Process = {A, B}
    Readers = {r1, r2}
    Writers = {w1}
    ProcessOf <- ThreadsOfAB
    BadArgs = {A}
    Entry = {e1, e2}
    NoEntry = NoEntry
    max_size = 2
SPECIFICATION FairSpec
INVARIANTS
    SlotsKept
    RefsExact
    
PROPERTY DeletionEnds
CHECK_DEADLOCK FALSE
