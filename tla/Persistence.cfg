CONSTANTS
  MaxLedger = 3
  FirstLevel = 1
  dog = dog
  Things = {dog}
  EndLevels <- EndgameThree
  Native <- DogAtStart
  MaxMoves = 1
  MaxSessions = 3
  MaxCrashes = 1
  MaxToggles = 0
SPECIFICATION Spec
INVARIANTS
  TypeOK
  LevelFilesIntact
  Conserved
  RestoreFaithful
  NeverLost
  NoDiscardedReturn
PROPERTIES
  KeepsItsPromise
CHECK_DEADLOCK FALSE
