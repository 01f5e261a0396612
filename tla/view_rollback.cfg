SPECIFICATION ViewSpec
CONSTANTS
  Zero = 0
  NaN = NaN
  Values = {0, 1}
  Precision = 100
  Keys <- TwoPageKeys
  KeyModulus = 8
  PageSize = 3
  Columns <- OneColumn
  MaxJournal = 6
  MaxViews = 1
  MaxWork = 6
  RollbackAfterQuery = TRUE
  Misuse <- Disciplined
INVARIANTS
  AnswerExact
