CONSTANTS
  MaxOrder = 3
  Size <- MCSize
  ZonePages <- MCFullZone
  zone_start_pfn = 4
  spanned_pages = 4
  PcpHigh = 0
  PcpBatch = 1
  BootOrder = 1
  AllocTypes = {0, 2}
  MobilityDisabled = FALSE
  MaxCount = 2
SPECIFICATION FairSpec
INVARIANTS
  IInv RefusesOnlyWhenEmpty
PROPERTIES
  CallsReturn ImplementsOwnership
