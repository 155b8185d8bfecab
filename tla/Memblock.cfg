CONSTANTS
  Limit = 12
  PageSize = 2
  Machines <- MCMachines
  PgDir <- MCPgDir
  AllocSizes = {1, 3}
  Aligns = {1, 2}
  Tops = {6, 12}
  LowmemLimit = 10
SPECIFICATION Spec
INVARIANTS TablesSound SearchesRight
PROPERTY StoreWhileRoom
