\* Three processes; four short numbers, or fewer with long ones, fill the list.
CONSTANTS
    Proc = {p1, p2, p3}
    Number = {1, 10}
    Node = {n1, n2, n3, n4, n5}
    mylist = mylist
    Poison = Poison
    All = All
    PROCFS_MAX_SIZE = 9
SPECIFICATION Spec
SYMMETRY Symmetry
INVARIANTS
    ListSound
    ReadsWhole
    BufferFits
PROPERTY ImplementsList
CHECK_DEADLOCK FALSE
