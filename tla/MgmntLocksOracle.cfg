CONSTANTS
    Instances = {i1, i2, i3}
    Pids = {p1, p2, p3, p4, p5}
    a = a
    b = b
    Locks = {a, b}
    LockLists <- MCLockLists
    Rdbms = "ORACLE"
    MaxRetries = 1
    DbErrors = FALSE
    NoRow = NoRow
    NoPid = NoPid
SPECIFICATION Spec
SYMMETRY Symmetry
INVARIANT Exclusion
