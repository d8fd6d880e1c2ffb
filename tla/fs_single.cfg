\* One command at a time, free names, at most one failure in a command on a file.
SPECIFICATION Spec
CONSTANTS
  Procs = {p1}
  Names <- MCNames
  UserNames = {"a", "b:"}
  DiskNames <- MCDiskNames
  Sanitise <- MCSanitise
  CopyName <- MCCopyName
  StartsLike <- MCPrefixFree
  Contents = {h1, h2}
  Torn = Torn
  Nil = Nil
  Ops <- AllCommands
  Careful = TRUE
  MaxFolders = 2
  MaxFiles = 2
  MaxTime = 1
  MaxPaths = 8
  MaxFaults = 1
  FaultPoints <- FilePoints
INVARIANTS TypeOK Mirror BinHolds FolderTreeCoherent LiveFilesListed DriftBounded
SYMMETRY MCSymmetry
CHECK_DEADLOCK FALSE
