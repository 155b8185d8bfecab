CONSTANTS
  MaxOrder = 3
  Size <- MCSize
  ZonePages <- MCHoleZone
  zone_start_pfn = 6
  spanned_pages = 8
  PcpHigh = 6
  PcpBatch = 1
  BootOrder = 1
  AllocTypes = {0}
  MobilityDisabled = TRUE
  MaxCount = 1
SPECIFICATION Spec
INVARIANTS
  InZone Coalesced CountersExact PcpFits
