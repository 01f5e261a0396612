SPECIFICATION ViewSpec
CONSTANTS
  Zero = 0
  NaN = NaN
  Values = {0, 1}
  Precision = 100
  Keys <- TwoPageKeys
  KeyModulus = 8
  PageSize = 3
  Columns <- TwoColumns
  MaxJournal = 6
  MaxViews = 1
  MaxWork = 4
  RollbackAfterQuery = FALSE
  Misuse <- Disciplined
INVARIANTS
  AnswerExact
  CleanPagesExact
