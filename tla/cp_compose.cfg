SPECIFICATION FairSpec
CONSTANTS
  Nil = Nil
  MaxMails = 2
  MaxSends = 2
  MaxSaves = 2
  MaxReqs = 1
  MaxUpsets = 1
CHECK_DEADLOCK FALSE
INVARIANTS TypeOK SendOnce
PROPERTIES DraftsKept Settles
