\* Two file commands in flight, free names, at most one failure.
SPECIFICATION Spec
CONSTANTS
  Procs = {p1, p2}
  Names <- MCNames
  UserNames = {"a", "b:"}
  DiskNames <- MCDiskNames
  Sanitise <- MCSanitise
  CopyName <- MCCopyName
  StartsLike <- MCPrefixFree
  Contents = {h1, h2}
  Torn = Torn
  Nil = Nil
  Ops <- FileOps
  Careful = TRUE
  MaxFolders = 0
  MaxFiles = 2
  MaxTime = 2
  MaxPaths = 8
  MaxFaults = 1
  FaultPoints <- FilePoints
INVARIANTS BlobIntegrity
SYMMETRY MCProcSymmetry
