SPECIFICATION Spec
CONSTANTS
  Texts <- MCTexts
  Pattern <- MCPattern
  FirstUser <- Count0
  StateOf <- CountState
  Act <- CountAct
  TabSize = 2
  Block = 2
  Fresh = "nul"
  ShortReads = FALSE
  SignedChar = TRUE
  Lines <- MCLines
  MaxLines = 3
INVARIANTS DentsBalance StopsFollowTheLine BeginOfLineKnown
PROPERTY EveryTextIsLexed
