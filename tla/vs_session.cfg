SPECIFICATION Spec
CONSTANTS
  Roots = {home, ext}
  Slots = {s1, s2}
  Nil = Nil
  Torn = Torn
  Keep = 1
  Patient = TRUE
  Commands <- AllCommands
  MaxStarts = 5
  MaxFaults = 1
  MaxTime = 2
INVARIANTS TypeOK KeyMatches IdentityReloads PublicIsOurs MoveComplete BackupsKept
SYMMETRY MCSymmetry
CHECK_DEADLOCK FALSE
