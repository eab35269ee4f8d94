CONSTANTS
  Actions = {"a", "b"}
  GrammarTokens = {"S", "T", "U"}
  ProductionMaps <- MCProductionMaps
SPECIFICATION FairSpec
INVARIANTS FirstSound FirstComplete
PROPERTY DescentEnds
CHECK_DEADLOCK FALSE
