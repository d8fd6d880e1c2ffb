\* Deleting a folder next to one whose name it is a prefix of.
SPECIFICATION Spec
CONSTANTS
  Procs = {p1}
  Names <- MCNames
  UserNames = {"a", "ab"}
  DiskNames <- MCDiskNames
  Sanitise <- MCSanitise
  CopyName <- MCCopyName
  StartsLike <- MCStartsLike
  Contents = {h1}
  Torn = Torn
  Nil = Nil
  Ops <- AllCommands
  Careful = TRUE
  MaxFolders = 2
  MaxFiles = 1
  MaxTime = 1
  MaxPaths = 8
  MaxFaults = 0
  FaultPoints = {}
PROPERTIES DeletesOnlyThatFolder
