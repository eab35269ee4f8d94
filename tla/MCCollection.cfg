CONSTANTS
  Actions = {"$", "(", ")", "n"}
  Rules <- MCRules
  FirstOfs <- MCFirstOfs
  HasEmpty = {}
SPECIFICATION Spec
INVARIANTS UnresolvedAreAwaited IdsAreDense
PROPERTY ImplementsAutomaton
CHECK_DEADLOCK FALSE
