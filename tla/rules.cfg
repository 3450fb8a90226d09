CONSTANTS
  c1 = c1
  None = None
  Title = {1, 2, 3}
  Content = {c1, c2}
  CellTitle = 3
  CellContent = c2
  FirstRules <- OneRule
  MaxListeners = 6
  MaxDue = 7
  MaxCalls = 1
SPECIFICATION Spec
INVARIANTS TypeOK RowsStand ShownIsRule
PROPERTIES EditKeepsTitles
CHECK_DEADLOCK FALSE
