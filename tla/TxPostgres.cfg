CONSTANTS
    Clients = {c1, c2}
    Areas = {w1}
    Recs = {r1}
    OldRecs = {}
    Vals = {v0, v1}
    Blank = v0
    Rdbms = "POSTGR"
    nAutoCommit = 0
    MaxLocks = 1
    OpenModes = {TRUE, FALSE}
    MaxNest = 1
    DbErrors = TRUE
    Browses = TRUE
    Returns = TRUE
    Phantom = Phantom
    Absent = Absent
    NoChange = NoChange
    Free = Free
SPECIFICATION Spec
SYMMETRY Symmetry
INVARIANT TypeOK
PROPERTIES AtomicTransaction
