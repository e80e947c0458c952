CONSTANTS
  Photo = {p, q}
  NoPhoto = NoPhoto
  Media = {TRUE}
  Faults = {}
  MaxChanges = 2
  MaxEdits = 1
  MaxOpens = 2
  MaxScans = 1
SPECIFICATION Spec
CHECK_DEADLOCK FALSE
PROPERTIES
  RatingKeepsEdits
