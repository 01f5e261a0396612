SPECIFICATION Spec
CONSTANTS
  Worlds <- SomeWorlds
  Skies <- SomeSkies
  Reach <- Diagonal
  MaxCount = 40
PROPERTIES
  StrongerWins
CHECK_DEADLOCK FALSE
