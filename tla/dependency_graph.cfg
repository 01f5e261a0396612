SPECIFICATION Spec
CONSTANTS
  Names <- FourNames
  MaxInputs = 2
INVARIANTS
  TypeOK
  Acyclic
  DfsDecidesReachability
