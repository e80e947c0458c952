SPECIFICATION Spec
CONSTANTS
  a = a
  b = b
  Photo <- TwoPhotos
  NoPhoto = NoPhoto
  Faults = {"load", "spawn", "io", "panic", "timeout"}
  MaxRevision = 2
  MaxGeneration = 3
SYMMETRY Symmetry
CHECK_DEADLOCK FALSE
INVARIANTS
  TypeOK
  SavesInOrder
  SavedMeansOnDisk
  NoEditLost
  ResetEditsStayReset
