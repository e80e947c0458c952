SPECIFICATION FairSpec
CONSTANTS
  m = m
  j1 = j1
  j2 = j2
  Model = {m}
  NoModel = NoModel
  Job = {j1, j2}
  NoJob = NoJob
  MaxGeneration = 2
INVARIANTS
  TypeOK
  GpuWorkIsRecorded
  RecordsEnd
  LostSessionsLeave
PROPERTIES
  UnwantedSessionsLeave
