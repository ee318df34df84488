CONSTANTS
  MaxLedger = 2
  FirstLevel = 1
  dog = dog
  Things = {dog}
  EndLevels <- NoEndgame
  Native <- DogBelow
  MaxMoves = 0
  MaxSessions = 4
  MaxCrashes = 1
  MaxToggles = 0
SPECIFICATION Spec
PROPERTIES
  RestoredAutomatically
CHECK_DEADLOCK FALSE
