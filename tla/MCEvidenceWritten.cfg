SPECIFICATION Spec

CONSTANTS
  this = this
  other = other
  Realm = Realm
  Leaf = Leaf
  Noise = Noise
  Scrap = Scrap
  Nothing = Nothing
  Inodes <- MCInodes
  Pages <- MCPages
  Contents <- MCContents
  WithHeader = {Realm}
  WithArrays = {Realm, Leaf}
  HighEntropy = {Noise}
  Short = {Scrap}
  SampleHalf = 1
  MaxChanges = 1

INVARIANT IdenticalBytes
