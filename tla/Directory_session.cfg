SPECIFICATION Spec
CONSTANTS
  a = a
  b = b
  c = c
  Names = {a, b, c}
  NameLen <- Lengths
  NR_INODES = 3
  freemap_bits = 4
  MaxLeaks = 1
SYMMETRY NameSymmetry
INVARIANTS
  TypeOK
  DirectoriesAreSound
  ReferencesCounted
  MemoryIsDisk
CHECK_DEADLOCK FALSE
