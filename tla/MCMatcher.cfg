SPECIFICATION Spec
CONSTANTS
  Texts <- MCTexts
  Pattern <- MetaPattern
  FirstUser <- MetaUser
  StateOf <- MetaState
  Act <- MetaAction
  TabSize = 2
  Block = 2
  Fresh = "nul"
  ShortReads = FALSE
  SignedChar = TRUE
  BraceBlock = 2
  Starts <- MCStarts
  Letters <- MCLetters
  MaxRest = 3
INVARIANTS BufferIsText SectionsDoNotNest BraceHasRoom
PROPERTY ImplementsScanner
