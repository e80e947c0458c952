SPECIFICATION FairSpec
CONSTANTS
  open = open
  ahead = ahead
  raw = raw
  Source <- OneFile
  Loader <- OneLoader
  Prefetcher <- OnePrefetcher
  Limits = {0, 1}
  MaxTickets = 3
  MaxClears = 2
INVARIANTS
  ReadyWithinLimit
  SingleFlight
  NoStaleDecodeKept
PROPERTIES
  EveryRequestEnds
