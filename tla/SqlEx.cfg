SPECIFICATION Spec
CONSTANTS
  ListSize = 2
  TopSize = 1
  PageReadSize = 2
  PoolSize = 0
  Limited = TRUE
  MaxRec = 4
  FirstKeys <- MCKeys
  FirstMarked = {}
  Values = {2}
  EditSets = {{"k"}, {"v"}}
  EditAtEof = FALSE
  SetDeleted = FALSE
  Others = TRUE
  Targets = {0, 2, 4}
  Steps <- MCSteps
  MaxChanges = 2
INVARIANTS TypeOK PoolIsBounded ShownIsStored
PROPERTIES SkipForwardIsRight SkipBackwardIsRight EndsAreRight
