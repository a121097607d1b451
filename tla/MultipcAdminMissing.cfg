\* A delete of an entry that does not exist.
CONSTANTS
    Name = {test, e1, e2}
    TestName = test
    Node = {n1, n2, n3, n4}
    NoNode = NoNode
    proc_list = proc_list
    Admin = {a1}
    Deleters = {a1}
    User = {u1}
    max_entries = 2
    UintMod = 8
    Signals = FALSE
    MaxMissing = 1
SPECIFICATION Spec
SYMMETRY Symmetry
INVARIANT WithinMaximum
