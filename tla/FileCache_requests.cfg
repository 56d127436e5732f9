SPECIFICATION FairSpec
CONSTANTS
  a = a
  b = b
  c = c
  None = None
  Workers = {w1, w2, w3}
  Files <- SomeFiles
  FileSizes <- SomeSizes
  iTotalSize = 8
INVARIANTS
  TypeOK
  CacheAccounted
  PinsMatchSenders
PROPERTIES
  EvictEnds
