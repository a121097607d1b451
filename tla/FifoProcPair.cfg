\* One producer, one consumer: enough calls to fill the buffer and wait;
\* one length that the buffer never holds.
CONSTANTS
    Producers = {p1}
    Consumers = {c1}
    Capacity = 3
    WriteLens = {1, 2}
    ReadLens = {1, 2, 4}
    Signals = FALSE
    Faults = FALSE
    MaxCalls = 4
SPECIFICATION FairSpec
INVARIANT ProducerWoken
PROPERTIES
    CallsReturn
    StuckForGood
CHECK_DEADLOCK FALSE
