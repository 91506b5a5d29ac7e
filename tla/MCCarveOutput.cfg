CONSTANTS
  p1 = p1
  p2 = p2
  p3 = p3
  None = None
  Procs   <- MCProcs
  Outputs <- MCOutputs
  Parent  <- MCParent
SPECIFICATION Spec
SYMMETRY MCSymmetry
INVARIANTS
  Attributable
  SuccessIsComplete
PROPERTIES
  ImplementsReportSet
