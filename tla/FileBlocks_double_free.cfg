SPECIFICATION Spec
CONSTANTS
  Files = {f, g}
  NoFile = NoFile
  NR_DIRECT_BLOCKS = 1
  NR_INDIRECT_BLOCKS = 2
  max_fs_blocks = 5
  freemap_bits = 7
  Starts = {0, 3, 9, 12}
  Sizes = {1, 4}
SYMMETRY FileSymmetry
CHECK_DEADLOCK FALSE
INVARIANT FreedBlocksWereUsed
