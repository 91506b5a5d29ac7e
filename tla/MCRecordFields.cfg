SPECIFICATION FieldsSpec

CONSTANTS
  t1 = t1
  r1 = r1
  f = f
  Unconvertible = Unconvertible
  RealmError = RealmError
  None = None
  Threads = {t1}
  Realms = {r1}
  RealmOf <- MCRealmOf
  Targets = {}
  Timestamps <- MCTimestamps
  FirstSecond <- MCFirst
  LastSecond <- MCLast
  Raws <- MCRaws

INVARIANT Closest
