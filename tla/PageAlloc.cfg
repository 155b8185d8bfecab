CONSTANTS
  MaxOrder = 2
  PAGE_ALLOC_COSTLY_ORDER = 0
  ZonePages <- MCZonePages
  PcpBatch = 2
  PcpHigh = 3
  Word = 64
SPECIFICATION FairSpec
INVARIANT ZonesSound
PROPERTIES ZonesInOrder RefusesOnlyWhenShort CallsReturn
