SPECIFICATION Spec
CONSTANTS
  ListSize = 2
  TopSize = 1
  PageReadSize = 2
  PoolSize = 0
  Limited = TRUE
  MaxRec = 4
  FirstKeys <- MCKeys
  FirstMarked = {}
  Values = {2}
  EditSets = {{"k"}, {"v"}, {"k", "v"}}
  EditAtEof = FALSE
  SetDeleted = FALSE
  Others = FALSE
  Targets = {}
  Steps <- MCSteps
  MaxChanges = 4
INVARIANT MaskIsOfStatement
