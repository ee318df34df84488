SPECIFICATION FairSpec
CONSTANTS
  Mons <- MCMons
  Guard <- MCGuard
  Levels <- MCLevels
  Home <- MCHome
  Speed <- MCSpeed
  First <- MCFirst
  HeroSpeeds <- MCHeroSpeeds
  Burdens <- MCBurdens
  MaxHelpless = 1
  MaxUnspent = 24
INVARIANTS TypeOK NoImpossible OnePlace NoStalePointer FullMeasure SeqDistinct
CHECK_DEADLOCK FALSE
PROPERTIES HeroMoves
