\* Three processes, a ring of two slots, fair; a block for each process.
CONSTANTS
    Proc = {p1, p2, p3}
    Block = {b1,b2,b3}
    NoBlock = NoBlock
    max_size = 2
    IndexWrap = 4
SPECIFICATION FairSpec
INVARIANTS
    TypeOK
    MutualExclusion
    SlotConservation
    NoShortTransfer
    SoleOwner
    NoLostWakeup
PROPERTIES
    ImplementsChannel
    CallsFinish
