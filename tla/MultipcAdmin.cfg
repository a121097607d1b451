\* Two administrators, one of whom deletes; signals, and two deletes of missing
\* names, so that num_of_process wraps.
CONSTANTS
    Name = {test, e1, e2}
    TestName = test
    Node = {n1, n2, n3, n4, n5}
    NoNode = NoNode
    proc_list = proc_list
    Admin = {a1, a2}
    Deleters = {a1}
    User = {u1}
    max_entries = 2
    UintMod = 8
    Signals = TRUE
    MaxMissing = 2
SPECIFICATION Spec
SYMMETRY Symmetry
INVARIANTS
    NoUseAfterFree
    DirectoryMatchesList
    NumberMatchesDirectory
    LimitDriftsOnly
