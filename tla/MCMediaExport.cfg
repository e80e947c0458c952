SPECIFICATION FairSpec
CONSTANTS
  Photo = {p1, p2}
  NoPhoto = NoPhoto
  Slides = 2
  Faults = {"open", "load", "spawn", "prepare", "capture", "render", "finalize", "publish"}
  Uses = {"replay", "external", "carousel", "filmstrip"}
  BlocksInput = TRUE
  MaxExternal = 1
INVARIANTS
  TypeOK
  ExportsAreOfTheirPhoto
  NothingIsLeftBehind
  ExportsAreReported
PROPERTIES
  CancelledBatchStops
  ItemsEnd
