SPECIFICATION Spec
CONSTANTS
  Roots = {home, ext}
  Slots = {s1, s2}
  Nil = Nil
  Torn = Torn
  Keep = 1
  Patient = TRUE
  Commands <- MoveCommands
  MaxStarts = 4
  MaxFaults = 1
  MaxTime = 1
INVARIANT MoveTakesRows
CHECK_DEADLOCK FALSE
