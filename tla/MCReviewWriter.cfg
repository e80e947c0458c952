CONSTANTS
  Photo = {p, q}
  NoPhoto = NoPhoto
  Media = {TRUE, FALSE}
  Faults = {"spawn", "io", "panic", "timeout"}
  MaxChanges = 3
  MaxEdits = 1
  MaxOpens = 1
  MaxScans = 1
SYMMETRY PhotoSymmetry
SPECIFICATION Spec
CHECK_DEADLOCK FALSE
INVARIANTS
  TypeOK
  NewestRatingShows
  RatingsReachTheSidecar
  OpensWithReview
PROPERTIES
  FolderKeepsEdits
