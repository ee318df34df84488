CONSTANTS
  first = first
  second = second
  spare = spare
  Slots = {first, second, spare}
  Levels = {1, 2}
  Belongings <- Everything
  LampMarks <- OneMark
  CandleMarks <- OneMark
  FullMenorah = 2
  LampFull = 3
  LampCap = 4
  AgeBand = 1
  MaxMoves = 4
SPECIFICATION Spec
INVARIANTS
  TypeOK
  LightIffLit
  TimerIffBurning
  NothingDangling
  FuelAccounted
  Punctual
  NoImpossible
CHECK_DEADLOCK FALSE
