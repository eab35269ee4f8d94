SPECIFICATION Spec
CONSTANTS
  Files <- MCFiles
  Sorted <- MCSorted
  Reserved = {"ASCII_CHAR_0x"}
  AsciiNames = {"+"}
  MaxChanges = 2
  MaxConflicts = 2
CHECK_DEADLOCK FALSE
INVARIANTS HeaderIsRead NodesFreedOnce TokensAreNumbered GrammarIsPassedOn
           ExitTellsOfErrors MacrosAreExpanded
PROPERTIES FaultyFilesStop GoodFilesAreAnswered
