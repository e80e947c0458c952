SPECIFICATION Spec
CONSTANTS
  MaxMasks = 2
  MaxInput = 1
  MaxHistory = 2
  MaxContents = 3
  MaxGeneration = 2
  MaxActions = 4
INVARIANTS
  UpdateHasAJob
  WorkIsOfTheContent
PROPERTIES
  OnlyHistoryUnmarks
  ResultsAreOfThePhoto
CHECK_DEADLOCK FALSE
