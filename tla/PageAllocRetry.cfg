CONSTANTS
  MaxOrder = 2
  PAGE_ALLOC_COSTLY_ORDER = 0
  ZonePages <- MCZonePages
  PcpBatch = 3
  PcpHigh = 18
  Word = 64
SPECIFICATION FairSpec
PROPERTY RetryTries
