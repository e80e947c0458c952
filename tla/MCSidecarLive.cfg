SPECIFICATION FairSpec
CONSTANTS
  a = a
  b = b
  Photo <- OnePhoto
  NoPhoto = NoPhoto
  Faults = {"io", "unsupported", "timeout"}
  MaxRevision = 2
  MaxGeneration = 2
CHECK_DEADLOCK FALSE
PROPERTIES
  EditsReachTheirSidecar
