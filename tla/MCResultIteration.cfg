SPECIFICATION FairSpec

CONSTANTS
  c1 = c1
  c2 = c2
  Consumers <- MCConsumers
  Layouts <- MCLayouts
  Indexes <- MCIndexes
  Slices <- MCSlices

INVARIANTS EachInTurn AllSalvaged NothingHidden RaisedForCause IndexExact
PROPERTY Answered
