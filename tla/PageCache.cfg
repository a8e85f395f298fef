SPECIFICATION Spec
CONSTANTS
  Lines = 5
  FetchSize = 2
  PageSizes = {1, 2}
  MaxRec = 7
  FirstRows = {1, 2, 3, 4, 5, 6}
  FirstMarked = {1, 4}
  Columns = 2
  Key <- MCKey
  UseDeleteds = TRUE
  SetDeleted = TRUE
  Siblings = {"insert", "delete"}
  Corners = {"marked"}
  Targets = {0, 4}
  Steps <- MCSteps
  MaxChanges = 1
INVARIANTS TypeOK CacheIsAStretch MarksAreEnds
PROPERTIES SkipForwardIsRight SkipBackwardIsRight EndsAreRight
