CONSTANTS
  WindowStart = 1
  WindowEnd = 11
  NULL = NULL
  Frames <- MCFrames
  VmallocSizes = {1, 3}
  IoSizes = {}
  PcpuSizes = {}
  PcpuAlign = 1
  PtrsPerPage = 2
  LazyMax = 8
  Reads = {1, 3}
SPECIFICATION VmallocSpec
INVARIANT HolesAreEmpty
CHECK_DEADLOCK FALSE
