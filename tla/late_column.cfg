SPECIFICATION Spec
CONSTANTS
  Zero = 0
  Values = {0, 1}
  Keys <- TwoPageKeys
  KeyModulus = 8
  PageSize = 3
  Columns <- OneColumn
  MaxJournal = 8
  Misuse <- LateColumns
INVARIANTS
  RowsSpanColumns
