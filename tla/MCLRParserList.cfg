CONSTANTS
  TokenN = 3
  ActionTokenN = 2
  StateN = 3
  Table <- ListTable
  Rules <- ListRules
  ActionRules = {1, 2}
  Destructors = {1, 2}
  Leaf <- MCLeaf
  Node <- MCNode
  Null <- MCNull
  Garbage <- MCGarbage
  MaxLexed = 5
  MaxParses = 1
SPECIFICATION Spec
INVARIANT AcceptedValueIsWholeInput
CHECK_DEADLOCK FALSE
