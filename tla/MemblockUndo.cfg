CONSTANTS
  Limit = 12
  PageSize = 2
  Machines <- MCSmallMachines
  PgDir <- MCPgDir
  AllocSizes = {1, 3}
  Aligns = {1, 2}
  Tops = {6, 12}
  LowmemLimit = 10
SPECIFICATION Spec
PROPERTY FailureUndone
