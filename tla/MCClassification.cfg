CONSTANTS
  Graphs   <- MCGraphs
  TopRefs  <- MCTopRefs
  NoLabels = NoLabels
SPECIFICATION Spec
INVARIANTS
  WalkInv
PROPERTIES
  WorkShrinks
  ImplementsLabelling
