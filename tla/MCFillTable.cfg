CONSTANTS
  Columns = {"$", "a"}
  EOF = "$"
  Reductions = {1, 2}
  Memory = {"none", "left", "right"}
  Shift = "shift"
  Reduce = "reduce"
  Accept = "accept"
  SyntaxError = "error"
SPECIFICATION RowSpec
INVARIANTS ConflictsReported RowDetermined
CHECK_DEADLOCK FALSE
