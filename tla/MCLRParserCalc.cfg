CONSTANTS
  TokenN = 7
  ActionTokenN = 5
  StateN = 9
  Table <- CalcTable
  Rules <- CalcRules
  ActionRules <- CalcActions
  Destructors = {1, 2, 3, 4, 5, 6}
  Leaf <- MCLeaf
  Node <- MCNode
  Null <- MCNull
  Garbage <- MCGarbage
  MaxLexed = 6
  MaxParses = 2
SPECIFICATION FairSpec
INVARIANTS RecognizesTheGrammar SlotDiscipline AssertsHold AcceptedValueIsWholeInput FailureFreesEachValueOnce
PROPERTIES EveryParseEnds ImplementsMachine
CHECK_DEADLOCK FALSE
