CONSTANTS
    Instances = {i1, i2}
    Pids = {p1, p2, p3, p4}
    Areas = {w1, w2}
    Tables = {t1}
    Locks <- MCLocks
    LockLists <- MCLockLists
    Rdbms = "POSTGR"
    MaxRetries = 1
    LockRetries = 1
    LockTries = 2
    DbErrors = FALSE
    NoRow = NoRow
    NoPid = NoPid
    NoTable = NoTable
SPECIFICATION TableSpec
SYMMETRY Symmetry
INVARIANTS TableTypeOK OneTableOwner ClosedMeansFree
