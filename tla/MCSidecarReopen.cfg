SPECIFICATION Spec
CONSTANTS
  a = a
  b = b
  Photo <- OnePhoto
  NoPhoto = NoPhoto
  Faults = {}
  MaxRevision = 2
  MaxGeneration = 2
CHECK_DEADLOCK FALSE
INVARIANTS
  EditsSurviveReopening
