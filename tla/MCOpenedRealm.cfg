SPECIFICATION Spec

CONSTANTS
  t1 = t1
  t2 = t2
  r1 = r1
  r2 = r2
  f = f
  g = g
  h = h
  target = target
  Lengths = {0, 63, 64, 65}
  Absent = Absent
  Missing = Missing
  Unconvertible = Unconvertible
  RealmError = RealmError
  None = None
  Threads <- MCThreads
  Realms <- MCRealms
  RealmOf <- MCRealmOf
  Opened = r2
  Targets = {target}
  Timestamps <- MCTimestamps
  FirstSecond = 0
  LastSecond = 0
  Raws <- MCRaws

SYMMETRY MCSymmetry
INVARIANTS ViewNotLeaked FirstErrorReported OneObject AnsweredAsFound
PROPERTY KeysKept
