CONSTANTS
    Clients = {c1, c2}
    Areas = {w1}
    Recs = {r1, r2}
    OldRecs = {r1}
    Vals = {v0, v1}
    Blank = v0
    Rdbms = "ORACLE"
    nAutoCommit = 0
    MaxLocks = 1
    OpenModes = {TRUE}
    MaxNest = 0
    DbErrors = FALSE
    Browses = TRUE
    Returns = FALSE
    Phantom = Phantom
    Absent = Absent
    NoChange = NoChange
    Free = Free
SPECIFICATION Spec
SYMMETRY Symmetry
INVARIANTS RecordRemainsLocked UpToDate InsertAtPhantom
