SPECIFICATION FairSpec
CONSTANTS
  Photo = {p1, p2}
  NoPhoto = NoPhoto
  Slides = 2
  Faults = {"load"}
  Uses = {}
  BlocksInput = TRUE
  MaxExternal = 1
PROPERTIES
  BatchEnds
