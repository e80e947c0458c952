SPECIFICATION FairSpec
CONSTANTS
  a = a
  w1 = w1
  w2 = w2
  Photo = {a}
  NoPhoto = NoPhoto
  Worker = {w1, w2}
  Edited = {a}
  MaxRequests = 1
  MaxResults = 1
  MaxGeneration = 2
INVARIANTS
  TypeOK
  OneLoadPerPhoto
  ClearedCacheStaysClear
PROPERTIES
  EditsStayOnScreen
  PicturesArrive
