CONSTANTS
  PageSize = 2
  WordBits = 4
  WordOrder = 2
  Nodes <- MCAlignedNodes
  AllocSizes = {1, 2, 3}
  Aligns = {1, 2}
  Goals = {0, 11}
  MaxRegions = 4
SPECIFICATION Spec
INVARIANT FindsFirstZero
CHECK_DEADLOCK FALSE
