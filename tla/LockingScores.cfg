CONSTANTS
  Procs <- Two
  Agnes = Agnes
  Rudolf = Rudolf
  Names = {Agnes, Rudolf}
  Called = {Agnes}
  Limits <- TwoLetters
  Retries = 1
  Left <- LeftFiles
  EntryMax = 2
  PersMax = 1
  Score <- TenAndSix
  OldRecord <- TwoOld
  Idle = FALSE
SPECIFICATION Spec
INVARIANTS Inserted
CHECK_DEADLOCK FALSE
