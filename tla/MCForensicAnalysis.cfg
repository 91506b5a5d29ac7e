SPECIFICATION FairSpec

CONSTANTS
  None = None
  NoLabels = NoLabels
  Absent = Absent
  Files <- MCFiles
  Characters <- MCCharacters
  Minimums = {Absent, 2}

INVARIANTS ScanExact ElementsInside GraphExact WarnedExactly
INVARIANTS LabelsFromBytes StringsInPlace
PROPERTY Termination
