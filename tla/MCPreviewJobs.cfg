SPECIFICATION FairSpec
CONSTANTS
  MaxEdits = 1
  MaxActs = 2
  EditStages <- MCEditStages
  ConstrainedMemory = TRUE
  Faults <- MCFaults
INVARIANTS
  TypeOK
  GraphsOweWhatTheyMiss
  WholeIsOfTheEdit
PROPERTIES
  HandoverShowsTheEdit
  CanvasSettles
