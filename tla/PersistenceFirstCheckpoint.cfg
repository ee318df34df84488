CONSTANTS
  MaxLedger = 2
  FirstLevel = 1
  dog = dog
  Things = {dog}
  EndLevels <- NoEndgame
  Native <- DogBelow
  MaxMoves = 1
  MaxSessions = 2
  MaxCrashes = 1
  MaxToggles = 0
SPECIFICATION Spec
PROPERTIES
  RestoreCheckpoints
CHECK_DEADLOCK FALSE
