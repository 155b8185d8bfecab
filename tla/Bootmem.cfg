CONSTANTS
  PageSize = 2
  WordBits = 4
  WordOrder = 2
  Nodes <- MCNodes
  AllocSizes = {1, 2, 3}
  Aligns = {1, 2}
  Goals = {0, 11}
  MaxRegions = 4
SPECIFICATION FairSpec
INVARIANTS NodeSound HandOverExact
PROPERTIES OnlyFullMapFails CallsReturn
CHECK_DEADLOCK FALSE
