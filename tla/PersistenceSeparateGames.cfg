CONSTANTS
  MaxLedger = 2
  FirstLevel = 1
  dog = dog
  Things = {dog}
  EndLevels <- NoEndgame
  Native <- DogBelow
  MaxMoves = 0
  MaxSessions = 4
  MaxCrashes = 2
  MaxToggles = 0
SPECIFICATION Spec
INVARIANTS
  SeparateGames
CHECK_DEADLOCK FALSE
