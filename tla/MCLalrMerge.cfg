CONSTANTS
  N = 6
  Cores <- MCCores
  Marks = {0, 1, 2, 3, 4, 5}
  InitialLook <- OwnLook
SPECIFICATION FairSpec
INVARIANTS IdsConsistent RowsAreCores
PROPERTY Quotient
CHECK_DEADLOCK FALSE
