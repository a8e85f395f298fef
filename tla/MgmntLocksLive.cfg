CONSTANTS
    Instances = {i1, i2}
    Pids = {p1, p2, p3, p4}
    a = a
    b = b
    Locks = {a, b}
    LockLists <- MCLockLists
    Rdbms = "MSSQL7"
    MaxRetries = 1
    DbErrors = FALSE
    NoRow = NoRow
    NoPid = NoPid
SPECIFICATION FairSpec
INVARIANTS NothingLeaks
PROPERTIES CallReturns StaleIsReclaimed
