\* Two processes, and memory for two structures: the device may come back
\* while a file of its first life is still open.
CONSTANTS
    Procs = {p1, p2}
    Devs = {d1, d2}
    NoDev = NoDev
    NR_LEDS = 2
    Colors = {0, 1}
    Requests <- MCRequests
SPECIFICATION FairSpec
INVARIANTS
    NoUseAfterFree
    RefsExact
    WriteExact
PROPERTY FreedInTheEnd
