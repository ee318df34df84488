CONSTANTS
  MaxLedger = 2
  FirstLevel = 1
  dog = dog
  Things = {}
  EndLevels <- NoEndgame
  Native <- NoDog
  MaxMoves = 0
  MaxSessions = 5
  MaxCrashes = 2
  MaxToggles = 1
SPECIFICATION Insistent
INVARIANTS
  LockIsOurs
  OneLife
  NoOutdatedCheckpoint
  Consistent
PROPERTIES
  Retrieved
CHECK_DEADLOCK FALSE
