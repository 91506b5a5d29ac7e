SPECIFICATION FairSpec

CONSTANTS
  a = a
  b = b
  c = c
  d = d
  Plain = Plain
  Undecodable = Undecodable
  Objects <- MCObjects
  Layouts <- MCLayouts
  Damaged = {c, d}
  Unlisted = {d}
  MaxDepths <- MCDepths

INVARIANTS SeenIsPath ResultExact FailsForCause NestedKeepsRealm
PROPERTY Termination
