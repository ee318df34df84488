CONSTANTS
  MaxLedger = 2
  FirstLevel = 1
  dog = dog
  Things = {dog}
  EndLevels <- NoEndgame
  Native <- DogAtStart
  MaxMoves = 1
  MaxSessions = 2
  MaxCrashes = 1
  MaxToggles = 0
SPECIFICATION Spec
INVARIANTS
  RecoveredAtLevelChange
CHECK_DEADLOCK FALSE
