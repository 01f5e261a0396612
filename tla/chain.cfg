SPECIFICATION Spec
CONSTANTS
  Sums = {0, 1}
  Combine <- OneMoreThanSum
  MaxSources = 3
  MaxInputs = 2
  MaxVersion = 3
  MayThrow = {"refresh", "combine"}
INVARIANTS
  AnswersTruth
  SecondQueryIdle
  QueryTouchesPathOnly
