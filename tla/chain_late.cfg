SPECIFICATION Spec
CONSTANTS
  Sums = {0, 1}
  Combine <- Scale10
  MaxSources = 3
  MaxInputs = 2
  MaxVersion = 2
  MayThrow = {}
INVARIANTS
  QueriesAnswerTruth
