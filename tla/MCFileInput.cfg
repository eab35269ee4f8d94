SPECIFICATION Spec
CONSTANTS
  Files <- MCFiles
  MaxAsk = 5
  MaxUnits = 2
INVARIANTS CarryInside
PROPERTIES ImplementsStream StreamEnds
