SPECIFICATION Spec
CONSTANTS
  c1 = c1
  c2 = c2
  NoCall = NoCall
  Calls = {c1, c2}
  MaxTurns = 2
  MaxRounds = 3
  SystemSize = 1
  ToolsSize = 1
  ResultSizes = {1, 3}
  Budgets = {6, 12}
  CallLists <- MCCallLists
  Legacies <- MCLegacies
INVARIANTS ShownIsStored
