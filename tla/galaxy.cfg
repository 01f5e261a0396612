SPECIFICATION Spec
CONSTANTS
  Worlds <- SomeWorlds
  Skies <- SomeSkies
  Reach <- Diagonal
  MaxCount = 8
INVARIANTS
  TypeOK
  EmpireExact
  Sensed
  FleetsBounded
PROPERTIES
  NoConquest
  FleetsLand
  RetreatEnds
CHECK_DEADLOCK FALSE
