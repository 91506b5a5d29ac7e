CONSTANTS
  c1 = c1
  c2 = c2
  r1 = r1
  r2 = r2
  r3 = r3
  r4 = r4
  None = None
  Tables  <- MCTables
  Keys    <- MCKeys
  Damaged <- MCDamaged
  Callers <- TwoCallers
  Records <- FourRecords
  MaxHeld = 2
  ReadsCounted = 0
SYMMETRY ThreadsSymmetry
SPECIFICATION Spec
INVARIANTS
  CacheSound
  ServedIsAsked
  DuplicateNeedsRace
  LiveIsCached
PROPERTIES
  ClosedOnlyShrinks
