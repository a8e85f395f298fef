SPECIFICATION Spec
CONSTANTS
  ListSize = 2
  TopSize = 1
  PageReadSize = 2
  PoolSize = 0
  Limited = TRUE
  MaxRec = 4
  FirstKeys <- MCKeys
  FirstMarked = {3}
  Values = {}
  EditSets = {}
  EditAtEof = FALSE
  SetDeleted = TRUE
  Others = FALSE
  Targets = {}
  Steps <- MCSteps
  MaxChanges = 0
INVARIANT CurrentIsInResultSet
CHECK_DEADLOCK FALSE
