\* A second file is added under a name that is taken.
SPECIFICATION Spec
CONSTANTS
  Procs = {p1}
  Names <- MCNames
  UserNames = {"a"}
  DiskNames <- MCDiskNames
  Sanitise <- MCSanitise
  CopyName <- MCCopyName
  StartsLike <- MCPrefixFree
  Contents = {h1, h2}
  Torn = Torn
  Nil = Nil
  Ops <- FileOps
  Careful = FALSE
  MaxFolders = 0
  MaxFiles = 2
  MaxTime = 1
  MaxPaths = 8
  MaxFaults = 0
  FaultPoints = {}
INVARIANTS BlobIntegrity
