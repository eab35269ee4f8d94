CONSTANTS
  Actions = {"$", "d", "n", "+", "*", "(", ")"}
  Rules <- ExprRules
  FirstOfs <- ExprFirstOfs
  HasEmpty = {"D"}
  Kernels <- MCKernels
SPECIFICATION FairSpec
INVARIANTS ClosureComplete ClosureIsLeast
PROPERTY ClosureEnds
CHECK_DEADLOCK FALSE
