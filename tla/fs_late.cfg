\* Two commands in flight, any names: folder commands against file commands.
SPECIFICATION Spec
CONSTANTS
  Procs = {p1, p2}
  Names <- MCNames
  UserNames = {"a"}
  DiskNames <- MCDiskNames
  Sanitise <- MCSanitise
  CopyName <- MCCopyName
  StartsLike <- MCPrefixFree
  Contents = {h1}
  Torn = Torn
  Nil = Nil
  Ops <- LateOps
  Careful = FALSE
  MaxFolders = 1
  MaxFiles = 2
  MaxTime = 1
  MaxPaths = 6
  MaxFaults = 0
  FaultPoints = {}
INVARIANTS RowsHaveBlobs
PROPERTIES RemovedStaysRemoved
SYMMETRY MCProcSymmetry
