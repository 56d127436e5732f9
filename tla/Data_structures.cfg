SPECIFICATION Spec
CONSTANTS
  k1 = k1
  k2 = k2
  k3 = k3
  k4 = k4
  k5 = k5
  p = p
  q = q
  Keys = {k1, k2, k3, k4, k5}
  Hash <- Hashes
  INCREMENTSIZE = 4
  SCALEFACTOR = 2
  MOVECOUNT = 2
  MaxSize = 16
  NULL = NULL
  Linkers = {l1, l2, l3, l4, l5}
  Points <- SomePoints
  Float <- Narrowed
  NIL = NIL
  Cells = {l1, l2, l3, l4, l5}
  Chains = {p, q}
  Texts <- SomeTexts
  Buckets = 4
  Seed = 1
SYMMETRY AddressSymmetry
INVARIANTS TableIsMap WellLinked WordsBeforeSpacesAreCounted
PROPERTIES ImplementsPointBag ImplementsSequences
CHECK_DEADLOCK FALSE
