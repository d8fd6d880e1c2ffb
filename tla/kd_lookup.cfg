SPECIFICATION FairSpec
CONSTANTS
  Places <- MCPlaces
  Lookups = {c1, c2}
  Ttl = 2
  Nil = Nil
  None = None
  MaxKeys = 2
  MaxFaults = 2
INVARIANTS TypeOK StaleBound
PROPERTY Converges
