SPECIFICATION ServicesSpec
CONSTANTS
  UnitSize = 12
  IntSize = 2
  BaseShift = 1
  EarlySlots = 5
  DflMapAlloc = 2
  Types <- MCTypes
  HighPages <- MCPages
  NoPage = 0
  Bucket <- MCBucket
  LAST_PKMAP = 2
  FixRoom = 3
  MaxKmaps = 2
  Elements <- MCElements
  MinNrs <- MCMinNrs
  MAP_SHIFT = 1
  MAX_PATH = 4
  Indices <- MCIndices
  Items <- MCItems
  PAGE_SHIFT = 12
  MAX_ORDER = 11
  slub_max_order = 3
  Word = 4
  CacheLine = 32
  MinAlign = 8
  KmemSize = 100
  NodeSize = 40
  Requests <- MCRequests
  AskedSizes <- MCSizes
  MaxHandles = 3
  MaxLost = 1
  WindowStart = 1
  WindowEnd = 11
  NULL = NULL
  Frames <- MCFrames
  VmallocSizes <- MCVmallocSizes
  IoSizes = {1}
  PcpuSizes = {2}
  PcpuAlign = 1
  PtrsPerPage = 2
  LazyMax = 8
  Reads = {1, 3}
  TagPage = 4
  NR_BANKS = 8
  SectionPages = 2
  BlockPages = 4
  PHYS_OFFSET = 32
  PAGE_OFFSET = 96
  TASK_SIZE = 88
  VMALLOC_END = 128
  Vectors = 143
  VirtualPages = 144
  SZ_16M = 4
  SZ_32M = 18
  SZ_128M = 8
  SwapperPages <- MCSwapper
  PageStructs = 12
  MapPageBits = 16
  PageblockBits = 3
  WordBits = 8
  PagesPerWaitqueue = 8
  WaitMin = 1
  WaitMax = 2
  PcpuPages = 1
  BatchShare = 1
  BatchMax = 64
  PageTypes = 5
  Boards <- MCBoards
  Arguments <- MCArguments
  Formats <- MCFormats
  Values <- MCValues
  Sizes = {0, 1, 3, 20}
  Memory = 24
INVARIANTS
  BlocksOwned
  AddressesRight
  ReserveKept
  TreeHoldsContent
  CachesServe
  StructuresOwned
  AreasConsistent
  MappingExact
  ReadsExact
  RecordsAgree
  KernelMapped
  HandedOver
  ArgumentsReadBack
  
PROPERTIES
  GrowsOnlyWhenFull
  PlacementExact
  KmapReturns
CHECK_DEADLOCK FALSE
