SPECIFICATION Spec

CONSTANTS
  Inputs <- MCInputs
  Minimums = {1, 2, 3, 17}
  None = None

INVARIANTS Utf8Exact Utf16Exact
