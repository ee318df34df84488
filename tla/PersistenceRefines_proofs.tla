---------------------- MODULE PersistenceRefines_proofs ----------------------
(***************************************************************************)
(* Every file operation of Persistence is a step of the promise, or none.  *)
(***************************************************************************)
EXTENDS PersistenceInvariant_proofs

----------------------------------------------------------------------------
(* The terms of the promise are those of the program.                      *)
LEMMA SameTerms ==
  /\ P!Levels = Levels /\ P!World = World /\ P!NoWorld = NoWorld
  /\ \A w : P!ThingsOf(w) = w.inv \cup UNION {w.at[l] : l \in Levels}
BY DEF P!Levels, P!World, P!NoWorld, P!ThingsOf, Levels, World, NoWorld

(* The points at which a game is being played, up to the end of a save.    *)
Played == InPlay \cup {"save_levels"}

PlayedIs ==
  TypeInv /\ SavingWhatIsPlayed =>
    /\ pc \in Played => Playing \in World \ {NoWorld}
    /\ pc \notin Played => Playing = NoWorld

LEMMA PlayedIsTrue == PlayedIs
<1> SUFFICES ASSUME TypeInv, SavingWhatIsPlayed
             PROVE  /\ pc \in Played => Playing \in World \ {NoWorld}
                    /\ pc \notin Played => Playing = NoWorld
  BY DEF PlayedIs
<1>1. NoWorld.cur \notin Levels
  BY DEF NoWorld, Levels
<1>2. CASE pc \in InPlay
  <2>1. Playing \in World /\ Playing.cur \in Levels
    BY <1>2, PlayingIsTrue DEF PlayingIs
  <2> QED
    BY <1>1, <1>2, <2>1 DEF Played
<1>3. CASE pc = "save_levels"
  <2>1. Playing = saving
    BY <1>3 DEF Playing, InMemory
  <2>2. saving \in World /\ saving.cur \in Levels
    BY <1>3 DEF TypeInv, TypeOK, ControlTypes, Placed, Loaded, SavingWhatIsPlayed, At
  <2> QED
    BY <1>1, <1>3, <2>1, <2>2 DEF Played
<1>4. CASE pc \notin Played
  BY <1>4 DEF Played, InPlay, Session, Playing, InMemory
<1> QED
  BY <1>2, <1>3, <1>4 DEF Played

LEMMA PlayedIsNext == PlayedIs'
BY PlayedIsTrue, PTL

(* A step of the program, from a state it can be in to the next one.       *)
Stepping ==
  /\ TypeInv /\ TypeInv' /\ Unsaved /\ Unsaved' /\ Consistent /\ Consistent' /\ Next

LEMMA PlayedSteps ==
  ASSUME Stepping
  PROVE  /\ pc \in Played => Playing \in World \ {NoWorld}
         /\ pc \notin Played => Playing = NoWorld
         /\ pc' \in Played => Playing' \in World \ {NoWorld}
         /\ pc' \notin Played => Playing' = NoWorld
         /\ atrisk \in BOOLEAN /\ atrisk' \in BOOLEAN /\ torn \in BOOLEAN /\ torn' \in BOOLEAN
BY PlayedIsTrue, PlayedIsNext
   DEF PlayedIs, Stepping, Consistent, TypeInv, TypeOK, HistoryTypes

----------------------------------------------------------------------------
(* Steps with no game being played before or after.                        *)
LEMMA PutTogether ==
  ASSUME Stepping, pc \notin Played, pc' \notin Played PROVE P!Next
<1> USE DEF At
<1>1. Playing = NoWorld /\ Playing' = NoWorld
  BY PlayedSteps
<1>2. ASSUME UNCHANGED <<kept, torn, gone>> PROVE P!Next
  BY <1>1, <1>2, SameTerms DEF P!Next, P!Handle
<1>3. ASSUME torn', UNCHANGED <<kept, atrisk, gone>> PROVE P!Next
  BY <1>1, <1>3, SameTerms DEF P!Next, P!GiveUp
<1>4. CASE DestroyOldGame \/ RecoverOpen \/ UtilOpen
  <2>1. UNCHANGED <<kept, atrisk, gone>> /\ (torn' \/ torn' = torn)
    BY <1>4, PlayedSteps DEF DestroyOldGame, RecoverOpen, UtilOpen
  <2> QED
    BY <1>2, <1>3, <2>1
<1>5. CASE Crash
  <2>1. ~atrisk' /\ (torn' <=> torn \/ atrisk) /\ UNCHANGED <<kept, gone>>
    BY <1>5, PlayedSteps DEF Crash
  <2>2. P!Crash
    BY <1>1, <2>1, PlayedSteps, SameTerms DEF P!Crash
  <2> QED
    BY <2>2 DEF P!Next
<1>6. CASE Start /\ ~DestroyOldGame /\ ~RecoverOpen
  BY <1>2, <1>6 DEF Start, LockFree, RecoverNothing, RecoverRefused, EraseLevel, EraseLock,
     GotLock, history
<1>7. CASE Recover \/ (UtilRecover /\ ~UtilOpen)
  BY <1>2, <1>7 DEF Recover, RecoverLevel, RecoverCopy, RecoverUnlinkLock, RecoverUnlink,
     UtilRecover, UtilLevel, UtilState, UtilCopy, UtilClose, history
<1>8. CASE Restore
  BY <1>2, <1>8 DEF Restore, NewGame, RestoreUnreadable, RestoreState, RestoreCreate,
     RestoreWrite, RestoreCurrent, Resume, history, Played, InPlay, Session
<1>9. CASE SaveUnlinkCurrent \/ SaveUnlinkLock \/ ClearLevel \/ ClearLock
  BY <1>2, <1>9 DEF SaveUnlinkCurrent, SaveUnlinkLock, ClearLevel, ClearLock, history
<1>10. CASE Checkpoint
  BY <1>10 DEF Checkpoint, CkptCreate, CkptCreateFails, CkptLevel, CkptLock, CkptLockFails,
     CkptState, Played, InPlay, Session
<1>11. CASE ChangeLevel \/ Play
  BY <1>11 DEF ChangeLevel, GotoLevel, LeaveLevel, DiscardLevel, DiscardMigrations, ArriveNew,
     ArriveBack, ArriveTricked, Play, PassTurn, SetCheckpointing, IdleCheckpoint, Die,
     SaveOrHangup, PickUp, Drop, Played, InPlay, Session
<1>12. CASE Save /\ ~SaveUnlinkCurrent /\ ~SaveUnlinkLock
  BY <1>12 DEF Save, SaveCreate, SaveCreateFails, SaveCurrent, SaveLevel, SaveTricked,
     SaveClose, Played, InPlay, Session
<1> QED
  BY <1>4, <1>5, <1>6, <1>7, <1>8, <1>9, <1>10, <1>11, <1>12 DEF Stepping, Next, Program

----------------------------------------------------------------------------
(* A game is begun or resumed.                                             *)
LEMMA Begun == ASSUME Stepping, NewGame PROVE P!Next
<1> USE DEF At
<1>1. /\ pc = "restore" /\ pc' = "ckpt" /\ kept' = NoWorld /\ atrisk' = TRUE /\ torn' = FALSE
      /\ gone' = {} /\ here' = Native[FirstLevel] /\ ~Restorable
  BY DEF NewGame, Restorable
<1>2. game'.cur = FirstLevel /\ game'.inv = {} /\ game'.exists = {} /\ game'.moves = 0
  BY DEF NewGame, NoGame
<1>3. Playing = NoWorld
  BY <1>1, PlayedSteps DEF Played, InPlay, Session
<1>4. ~torn => kept = NoWorld
  BY <1>1 DEF Stepping, Consistent, Sane, AtRest, Idle, InSaveFile
<1>5. Playing' = P!NewWorld
  <2> DEFINE g == [NoGame EXCEPT !.cur = FirstLevel]
             at == [l \in Levels |-> IF l = FirstLevel THEN Native[l] ELSE {}]
             left == [l \in Levels |-> 0]
             w == WorldOf(g, {}, at, left)
  <2>1. P!NewWorld = w
    BY DEF P!NewWorld, P!WorldOf, P!NoGame, WorldOf, NoGame, P!Levels, Levels
  <2>2. g \in GameState /\ g.cur = FirstLevel /\ g.inv = {} /\ g.moves = 0
    BY LedgerAssumption, LevelsAreNumbers DEF NoGame, GameState
  <2>3. at \in [Levels -> SUBSET Things] /\ left \in [Levels -> Nat]
    BY LedgerAssumption
  <2>4. w \in World
    BY <2>2, <2>3, LedgerAssumption, WorldType
  <2>5. \A l \in Levels : /\ at[l] = IF l = FirstLevel THEN Native[l] ELSE {}
                          /\ left[l] = 0
    OBVIOUS
  <2> HIDE DEF g, at, left
  <2>6. /\ w.cur = FirstLevel /\ w.inv = {} /\ w.moves = 0 /\ w.levels = {FirstLevel}
        /\ \A l \in Levels : /\ w.at[l] = IF l = FirstLevel THEN Native[l] ELSE {}
                             /\ w.left[l] = 0
    BY <2>2, <2>5, WorldFields
  <2>7. /\ MemoryWorld' \in World /\ Proper(MemoryWorld)' /\ HeaderOf(game, MemoryWorld)'
        /\ MemoryWorld'.levels = game'.exists \cup {game'.cur}
        /\ MemoryWorld'.at[game'.cur] = here'
    BY <1>1, MemoryIsNext DEF MemoryIs, Stepping, Loaded
  <2>8. Playing' = MemoryWorld'
    BY <1>1 DEF Playing, InMemory
  <2> HIDE DEF w
  <2>9. /\ MemoryWorld'.cur = FirstLevel /\ MemoryWorld'.inv = {} /\ MemoryWorld'.moves = 0
        /\ MemoryWorld'.levels = {FirstLevel}
    BY <1>2, <2>7 DEF HeaderOf
  <2>10. \A l \in Levels : /\ MemoryWorld'.at[l] = IF l = FirstLevel THEN Native[l] ELSE {}
                           /\ MemoryWorld'.left[l] = 0
    BY <1>1, <1>2, <2>7, <2>9 DEF Proper
  <2>11. \A l \in Levels : MemoryWorld'.at[l] = w.at[l] /\ MemoryWorld'.left[l] = w.left[l]
    BY <2>6, <2>10
  <2>12. /\ MemoryWorld'.cur = w.cur /\ MemoryWorld'.inv = w.inv
         /\ MemoryWorld'.moves = w.moves /\ MemoryWorld'.levels = w.levels
    BY <2>6, <2>9
  <2>13. MemoryWorld' \in World
    BY <2>7
  <2>14. MemoryWorld' = w
    BY <2>4, <2>11, <2>12, <2>13, SameWorld
  <2> QED
    BY <2>1, <2>8, <2>14
<1>6. P!Begin
  BY <1>1, <1>3, <1>4, <1>5, SameTerms, PlayedSteps DEF P!Begin
<1> QED
  BY <1>6 DEF P!Next

LEMMA Returned == ASSUME Stepping, RestoreCurrent PROVE P!Next
<1> USE DEF At
<1>1. /\ pc = "rest_create" /\ pc' = "resumed" /\ atrisk' = TRUE
      /\ UNCHANGED <<kept, torn, gone>>
  BY DEF RestoreCurrent
<1>2. Playing = NoWorld /\ Playing' # NoWorld
  BY <1>1, PlayedSteps DEF Played, InPlay, Session
<1>3. Playing' = MemoryWorld'
  BY <1>1 DEF Playing, InMemory
<1>4. torn \/ Playing' = kept
  BY <1>1, <1>3 DEF Stepping, Consistent, Sane, Resumed
<1>5. P!Return
  BY <1>1, <1>2, <1>4, SameTerms DEF P!Return
<1> QED
  BY <1>5 DEF P!Next

----------------------------------------------------------------------------
(* The game goes on.                                                       *)

(* The steps from one point of play to another: all but the end of a       *)
(* checkpoint, which keeps something, and the writing of a save.           *)
QuietGo ==
  \/ Resume \/ CkptCreateFails \/ CkptLock
  \/ PassTurn \/ SetCheckpointing \/ IdleCheckpoint \/ SaveOrHangup
  \/ SaveCreate \/ (SaveCreateFails /\ ~hup)
LevelGo ==
  \/ CkptCreate \/ CkptLevel
  \/ \E t \in Things : PickUp(t) \/ Drop(t)
  \/ \E l \in Levels : GotoLevel(l)
  \/ LeaveLevel \/ DiscardLevel \/ DiscardMigrations \/ ArriveNew \/ ArriveBack

(* They keep the kept world, the clock does not go back, and dying does    *)
(* not become safe.                                                        *)
GoesOn ==
  /\ pc \in InPlay /\ pc' \in InPlay
  /\ kept' = kept /\ torn' = torn /\ gone \subseteq gone' /\ (atrisk => atrisk')
  /\ game'.moves >= game.moves

LEMMA GoesOnSteps == ASSUME TypeInv, QuietGo \/ LevelGo PROVE GoesOn
<1> USE DEF At, InPlay, Session, control, history, disk, memory, count
<1>1. game \in GameState /\ game.moves \in Nat /\ game.moves >= game.moves
  BY DEF TypeInv, TypeOK, MemoryTypes, GameState
<1>2. \A g : /\ [game EXCEPT !.exists = g].moves = game.moves
             /\ [game EXCEPT !.visited = g].moves = game.moves
             /\ [game EXCEPT !.inv = g].moves = game.moves
             /\ [game EXCEPT !.chk = g].moves = game.moves
             /\ [game EXCEPT !.cur = g].moves = game.moves
             /\ [game EXCEPT !.cur = g, !.visited = @ \ {g}].moves = game.moves
  BY <1>1 DEF GameState
<1>3. CASE Resume \/ IdleCheckpoint \/ SaveOrHangup
  BY <1>1, <1>3 DEF GoesOn, Resume, IdleCheckpoint, SaveOrHangup, OffLevels
<1>4. CASE CkptCreateFails \/ CkptLock
  BY <1>1, <1>4 DEF GoesOn, CkptCreateFails, CkptLock
<1>5. CASE PassTurn
  <2>1. game'.moves = game.moves + 1
    BY <1>1, <1>5 DEF PassTurn, GameState
  <2> QED
    BY <1>1, <1>5, <2>1 DEF GoesOn, PassTurn, OffLevels
<1>6. CASE SetCheckpointing
  BY <1>1, <1>2, <1>6 DEF GoesOn, SetCheckpointing, OffLevels
<1>7. CASE SaveCreate \/ (SaveCreateFails /\ ~hup)
  BY <1>1, <1>7 DEF GoesOn, SaveCreate, SaveCreateFails
<1>8. CASE CkptCreate
  BY <1>1, <1>2, <1>8 DEF GoesOn, CkptCreate
<1>9. CASE CkptLevel
  BY <1>1, <1>2, <1>9 DEF GoesOn, CkptLevel
<1>10. CASE \E t \in Things : PickUp(t) \/ Drop(t)
  <2>1. PICK t \in Things : PickUp(t) \/ Drop(t)
    BY <1>10
  <2>2. game'.moves = game.moves
    BY <1>1, <2>1 DEF PickUp, Drop, GameState
  <2>3. /\ pc = "play" /\ UNCHANGED <<pc, kept, atrisk, torn, gone>>
    BY <2>1 DEF PickUp, Drop, OffLevels
  <2> QED
    BY <1>1, <2>2, <2>3 DEF GoesOn
<1>11. CASE \E l \in Levels : GotoLevel(l)
  BY <1>1, <1>2, <1>11 DEF GoesOn, GotoLevel
<1>12. CASE LeaveLevel
  BY <1>1, <1>2, <1>12 DEF GoesOn, LeaveLevel
<1>13. CASE DiscardLevel
  BY <1>1, <1>2, <1>13 DEF GoesOn, DiscardLevel, Deleted
<1>14. CASE DiscardMigrations
  BY <1>1, <1>2, <1>14 DEF GoesOn, DiscardMigrations
<1>15. CASE ArriveNew
  <2>1. game'.moves = game.moves
    BY <1>1, <1>15 DEF ArriveNew, GameState
  <2> QED
    BY <1>1, <1>15, <2>1 DEF GoesOn, ArriveNew
<1>16. CASE ArriveBack
  BY <1>1, <1>2, <1>16 DEF GoesOn, ArriveBack
<1> QED
  BY <1>3, <1>4, <1>5, <1>6, <1>7, <1>8, <1>9, <1>10, <1>11, <1>12, <1>13, <1>14,
     <1>15, <1>16
     DEF QuietGo, LevelGo

(* Whatever is with the hero or on a level stays with the hero, or on a    *)
(* level, unless it is left behind for good.                               *)
Here(t) == t \in PlayInv \/ \E l \in Levels : t \in PlayAt[l]
NothingVanishes == \A t \in Things : Here(t) => Here(t)' \/ t \in gone'

LEMMA NothingVanishesIfKept ==
  ASSUME PlayInv \subseteq PlayInv' \cup gone',
         \A l \in Levels : PlayAt[l] \subseteq PlayAt'[l] \cup gone'
  PROVE  NothingVanishes
BY DEF NothingVanishes, Here

LEMMA NothingVanishesInGo ==
  ASSUME Stepping, ~torn, QuietGo \/ LevelGo PROVE NothingVanishes
<1> USE DEF At
<1>1. /\ TypeInv /\ Sane /\ GoesOn /\ ~torn' /\ game.cur \in Levels
      /\ game.exists \subseteq Levels
  BY GoesOnSteps, FileTypes
     DEF Stepping, Consistent, GoesOn, TypeInv, Placed, Loaded, InPlay, Session
<1>2. CASE QuietGo
  <2>1. Quiet
    BY <1>1, <1>2, QuietSteps DEF QuietGo, QuietStep, SaveCreateFails
  <2>2. PlayInv' = PlayInv /\ \A l \in Levels : PlayAt'[l] = PlayAt[l]
    BY <2>1 DEF Quiet, PlayInv, PlayAt, Between
  <2> QED
    BY <2>2, NothingVanishesIfKept
<1>3. CASE CkptCreate
  <2>1. PlayInv' = PlayInv /\ \A l \in Levels : PlayAt'[l] = PlayAt[l]
    BY <1>1, <1>3, CkptCreateDoes DEF PlayInv, PlayAt, Between, OnlyFile
  <2> QED
    BY <2>1, NothingVanishesIfKept
<1>4. CASE CkptLevel
  <2>1. PlayInv' = PlayInv /\ \A l \in Levels : PlayAt'[l] = PlayAt[l]
    BY <1>1, <1>4, CkptLevelDoes DEF PlayInv, PlayAt, Between, OnlyFile
  <2> QED
    BY <2>1, NothingVanishesIfKept
<1>5. ASSUME NEW t \in Things, PickUp(t) PROVE NothingVanishes
  <2>1. /\ pc = "play" /\ pc' = "play" /\ here' = here \ {t} /\ game'.cur = game.cur
        /\ game'.inv = game.inv \cup {t} /\ game'.exists = game.exists /\ lfile' = lfile
    BY <1>1, <1>5, PickUpDoes DEF SameFlags, disk
  <2>2. PlayInv = game.inv /\ PlayInv' = PlayInv \cup {t}
    BY <2>1 DEF PlayInv, Between
  <2>3. \A l \in Levels : PlayAt'[l] = PlayAt[l] \/ PlayAt'[l] = PlayAt[l] \ {t}
    BY <2>1 DEF PlayAt
  <2> QED
    BY <2>2, <2>3 DEF NothingVanishes, Here
<1>6. ASSUME NEW t \in Things, Drop(t) PROVE NothingVanishes
  <2>1. /\ pc = "play" /\ pc' = "play" /\ here' = here \cup {t} /\ game'.cur = game.cur
        /\ game'.inv = game.inv \ {t} /\ game'.exists = game.exists /\ lfile' = lfile
    BY <1>1, <1>6, DropDoes DEF SameFlags, disk
  <2>2. PlayInv = game.inv /\ PlayInv' = PlayInv \ {t} /\ t \in PlayAt'[game.cur]
    BY <1>1, <2>1 DEF PlayInv, PlayAt, Between
  <2>3. \A l \in Levels : PlayAt[l] \subseteq PlayAt'[l]
    BY <2>1 DEF PlayAt
  <2> QED
    BY <1>1, <2>2, <2>3 DEF NothingVanishes, Here
<1>7. ASSUME NEW k \in Levels, GotoLevel(k) PROVE NothingVanishes
  <2>1. /\ pc = "play" /\ pc' = "leave" /\ here' = here \ dogs' /\ game'.cur = game.cur
        /\ game'.inv = game.inv /\ game'.exists = game.exists \cup {game.cur}
        /\ OnlyFile(game.cur)
    BY <1>1, <1>7, GotoLevelDoes
  <2>2. PlayInv = game.inv /\ PlayInv' = PlayInv \cup dogs'
    BY <2>1 DEF PlayInv, Between
  <2>3. \A l \in Levels : PlayAt'[l] = PlayAt[l] \/ PlayAt'[l] = PlayAt[l] \ dogs'
    BY <2>1 DEF PlayAt, OnlyFile
  <2> QED
    BY <2>2, <2>3 DEF NothingVanishes, Here
<1>8. CASE LeaveLevel
  <2>1. /\ pc = "leave" /\ pc' \in {"discard", "arrive"} /\ dogs' = dogs
        /\ game'.cur = game.cur /\ game'.inv = game.inv /\ game'.exists = game.exists
        /\ OnlyFile(game.cur)
        /\ here \subseteq gone' \/ lfile'[game.cur].stuff = here
    BY <1>1, <1>8, LeaveLevelDoes DEF WholeFile, OnlyFile
  <2>2. PlayInv' = PlayInv
    BY <2>1 DEF PlayInv, Between
  <2>3. \A l \in Levels : PlayAt[l] \subseteq PlayAt'[l] \cup gone'
    BY <1>1, <2>1 DEF PlayAt, OnlyFile
  <2> QED
    BY <2>2, <2>3, NothingVanishesIfKept
<1>9. CASE DiscardLevel
  <2>1. PICK k \in todo :
         /\ pc = "discard" /\ pc' = "discard"
         /\ game'.cur = game.cur /\ game'.inv = game.inv
         /\ game'.exists = game.exists \ {k} /\ gone' = gone \cup lfile[k].stuff
         /\ OnlyFile(k) /\ lfile'[k] = NoFile /\ dogs' = dogs
    BY <1>1, <1>9, DiscardLevelDoes
  <2>2. PlayInv' = PlayInv
    BY <2>1 DEF PlayInv, Between
  <2>3. \A l \in Levels : PlayAt[l] \subseteq PlayAt'[l] \cup gone'
    BY <1>1, <2>1 DEF PlayAt, OnlyFile
  <2> QED
    BY <2>2, <2>3, NothingVanishesIfKept
<1>10. CASE DiscardMigrations
  <2>1. PICK lost \in SUBSET game.inv :
         /\ pc = "discard" /\ pc' = "arrive"
         /\ game'.cur = game.cur /\ game'.inv = game.inv \ lost /\ gone' = gone \cup lost
         /\ game'.exists = game.exists /\ lfile' = lfile /\ dogs' = dogs
    BY <1>1, <1>10, DiscardMigrationsDoes DEF SameFlags, disk
  <2>2. PlayInv \subseteq PlayInv' \cup gone'
    BY <2>1 DEF PlayInv, Between
  <2>3. \A l \in Levels : PlayAt'[l] = PlayAt[l]
    BY <2>1 DEF PlayAt
  <2> QED
    BY <2>2, <2>3, NothingVanishesIfKept
<1>11. CASE ArriveNew \/ ArriveBack
  <2>1. /\ pc = "arrive" /\ pc' = "ckpt" /\ dest \in Levels /\ game'.cur = dest
        /\ game'.inv = game.inv /\ game'.exists = game.exists /\ lfile' = lfile
        /\ dogs \subseteq here'
        /\ (dest \in game.exists => lfile[dest].stuff \subseteq here')
    BY <1>1, <1>11, ArriveNewDoes, ArriveBackDoes DEF SameFlags, disk
  <2>2. /\ dest # game.cur
        /\ game.cur \in game.exists \/ lfile[game.cur].stuff = {}
    BY <1>1, <2>1 DEF Sane, Travelling
  <2>3. /\ PlayInv = game.inv \cup dogs /\ PlayInv' = game.inv /\ PlayAt'[dest] = here'
        /\ \A l \in Levels : PlayAt[l] \subseteq PlayAt'[l]
    BY <1>1, <2>1, <2>2 DEF PlayInv, PlayAt, Between
  <2> QED
    BY <2>1, <2>3 DEF NothingVanishes, Here
<1> QED
  BY <1>2, <1>3, <1>4, <1>5, <1>6, <1>7, <1>8, <1>9, <1>10, <1>11 DEF LevelGo

(* A step of the game is one of the promised kind.                         *)
LEMMA GoOn == ASSUME Stepping, QuietGo \/ LevelGo PROVE P!Next
<1>1. GoesOn /\ TypeInv /\ TypeInv'
  BY GoesOnSteps DEF Stepping
<1>2. /\ Playing \in World \ {NoWorld} /\ Playing' \in World \ {NoWorld}
  BY <1>1, PlayedSteps DEF GoesOn, Played
<1>3. /\ Playing.moves = game.moves /\ Playing.inv = PlayInv
      /\ \A l \in Levels : Playing.at[l] = PlayAt[l]
  BY <1>1, PlayingIsTrue DEF PlayingIs, GoesOn
<1>4. /\ Playing'.moves = game'.moves /\ Playing'.inv = PlayInv'
      /\ \A l \in Levels : Playing'.at[l] = PlayAt'[l]
  BY <1>1, PlayingIsNext DEF PlayingIs, GoesOn
<1>5. ASSUME ~torn PROVE P!ThingsOf(Playing) \subseteq P!ThingsOf(Playing') \cup gone'
  <2>1. NothingVanishes
    BY <1>5, NothingVanishesInGo
  <2>2. P!ThingsOf(Playing) \subseteq Things
    BY <1>2, SameTerms DEF World
  <2>3. \A t \in P!ThingsOf(Playing) : Here(t)
    BY <1>3, SameTerms DEF Here
  <2>4. \A t : Here(t)' => t \in P!ThingsOf(Playing')
    BY <1>4, SameTerms DEF Here
  <2> QED
    BY <2>1, <2>2, <2>3, <2>4 DEF NothingVanishes
<1>6. P!Go
  BY <1>1, <1>2, <1>3, <1>4, <1>5, SameTerms DEF P!Go, GoesOn
<1> QED
  BY <1>6 DEF P!Next

----------------------------------------------------------------------------
(* The other steps of a game in play.                                      *)

(* While it is written to the save file the world stays what it is.        *)
LEMMA WrittenDown == ASSUME Stepping, SaveCurrent \/ SaveLevel PROVE P!Next
<1> USE DEF At
<1>1. /\ pc \in Played /\ pc' \in Played
      /\ UNCHANGED <<kept, torn, gone>> /\ (atrisk => atrisk')
  BY DEF SaveCurrent, SaveLevel, Played, InPlay, Session, history
<1>2. Playing \in World \ {NoWorld}
  BY <1>1, PlayedSteps
<1>3. Playing' = Playing
  <2>1. pc \in {"save_current", "save_levels"} /\ pc' = "save_levels" /\ saving' = saving
    BY DEF SaveCurrent, SaveLevel
  <2>2. Playing = saving
    BY <2>1 DEF Stepping, Consistent, SavingWhatIsPlayed, Playing, InMemory
  <2> QED
    BY <2>1, <2>2 DEF Playing, InMemory
<1>4. Playing.moves \in Nat
  BY <1>2 DEF World
<1>5. P!Go
  BY <1>1, <1>2, <1>3, <1>4, PlayedSteps, SameTerms DEF P!Go
<1> QED
  BY <1>5 DEF P!Next

(* A complete checkpoint keeps what is played.                             *)
LEMMA Checkpointed == ASSUME Stepping, CkptState PROVE P!Next
<1> USE DEF At
<1>1. /\ pc = "ckpt_state" /\ pc' = "play" /\ UNCHANGED <<lfile, game, here, torn, gone>>
      /\ IF game.chk THEN kept' = MemoryWorld /\ atrisk' = FALSE
                     ELSE kept' = NoWorld /\ UNCHANGED atrisk
  BY DEF CkptState
<1>2. Playing = MemoryWorld /\ Playing' = MemoryWorld'
  BY <1>1 DEF Playing, InMemory
<1>3. MemoryWorld' = MemoryWorld
  BY <1>1 DEF MemoryWorld, Stuff, Stamp
<1>4. Playing # NoWorld
  BY <1>1, PlayedSteps DEF Played, InPlay, Session
<1>5. P!Keep
  BY <1>1, <1>2, <1>3, <1>4, PlayedSteps, SameTerms DEF P!Keep
<1> QED
  BY <1>5 DEF P!Next

(* So does a complete save, and the game is no longer played.              *)
LEMMA Saved == ASSUME Stepping, SaveClose PROVE P!Next
<1> USE DEF At
<1>1. /\ pc = "save_levels" /\ pc' = "save_unlink" /\ kept' = saving /\ atrisk' = FALSE
      /\ UNCHANGED <<torn, gone>>
  BY DEF SaveClose
<1>2. Playing = saving
  BY <1>1 DEF Playing, InMemory
<1>3. Playing # NoWorld /\ Playing' = NoWorld
  BY <1>1, PlayedSteps DEF Played, InPlay, Session
<1>4. P!Save
  BY <1>1, <1>2, <1>3, SameTerms DEF P!Save
<1> QED
  BY <1>4 DEF P!Next

LEMMA Died == ASSUME Stepping, Die PROVE P!Next
<1> USE DEF At
<1>1. /\ pc = "play" /\ pc' = "over" /\ kept' = NoWorld /\ atrisk' = TRUE
      /\ UNCHANGED <<torn, gone>>
  BY DEF Die
<1>2. Playing # NoWorld /\ Playing' = NoWorld
  BY <1>1, PlayedSteps DEF Played, InPlay, Session
<1>3. P!Die
  BY <1>1, <1>2, SameTerms DEF P!Die
<1> QED
  BY <1>3 DEF P!Next

(* A file that cannot be used, or written: the game ends.                  *)
TrickedStep == CkptLockFails \/ ArriveTricked \/ (SaveCreateFails /\ hup) \/ SaveTricked

LEMMA Tricked == ASSUME Stepping, TrickedStep PROVE P!Next
<1> USE DEF At
<1>1. /\ pc \in Played /\ pc' = "over" /\ torn' = TRUE /\ UNCHANGED <<kept, atrisk, gone>>
  BY DEF TrickedStep, CkptLockFails, ArriveTricked, SaveCreateFails, SaveTricked, Played,
     InPlay, Session
<1>2. Playing # NoWorld /\ Playing' = NoWorld
  BY <1>1, PlayedSteps DEF Played, InPlay, Session
<1>3. P!Tricked
  BY <1>1, <1>2, SameTerms DEF P!Tricked
<1> QED
  BY <1>3 DEF P!Next

LEMMA Crashed == ASSUME Stepping, Crash PROVE P!Next
<1>1. /\ pc' = "off" /\ atrisk' = FALSE /\ torn' = (torn \/ atrisk)
      /\ UNCHANGED <<kept, gone>>
  BY DEF Crash, Exit
<1>2. Playing' = NoWorld
  BY <1>1, PlayedSteps DEF Played, InPlay, Session
<1>3. P!Crash
  BY <1>1, <1>2, PlayedSteps, SameTerms DEF P!Crash
<1> QED
  BY <1>3 DEF P!Next

----------------------------------------------------------------------------
(* All of them together.                                                   *)
LEMMA StepsKeepThePromise == ASSUME Stepping PROVE P!Next
<1> USE DEF At
<1>1. CASE NewGame \/ RestoreCurrent \/ Crash
  BY <1>1, Begun, Returned, Crashed
<1>2. CASE QuietGo \/ LevelGo \/ SaveCurrent \/ SaveLevel
  BY <1>2, GoOn, WrittenDown
<1>3. CASE CkptState \/ SaveClose \/ Die \/ TrickedStep
  BY <1>3, Checkpointed, Saved, Died, Tricked
<1>4. CASE pc \notin Played /\ pc' \notin Played
  BY <1>4, PutTogether
<1>5. CASE Start \/ Recover \/ ClearLevel \/ ClearLock \/ UtilRecover
  <2>1. pc' \notin Played
    BY <1>5, Destinations DEF Played, InPlay, Session
  <2>2. pc \notin Played
    BY <1>5 DEF Start, LockFree, DestroyOldGame, RecoverNothing, RecoverRefused, RecoverOpen,
       EraseLevel, EraseLock, GotLock, NewSession, Recover, RecoverLevel, RecoverCopy,
       RecoverUnlinkLock, RecoverUnlink, ClearLevel, ClearLock, UtilRecover, UtilOpen,
       UtilLevel, UtilState, UtilCopy, UtilClose, Played, InPlay, Session
  <2> QED
    BY <1>4, <2>1, <2>2
<1>6. CASE RestoreUnreadable \/ RestoreState \/ RestoreCreate \/ RestoreWrite
  BY <1>4, <1>6 DEF RestoreUnreadable, RestoreState, RestoreCreate, RestoreWrite, Exit,
     Played, InPlay, Session
<1>7. CASE SaveUnlinkCurrent \/ SaveUnlinkLock
  BY <1>4, <1>7 DEF SaveUnlinkCurrent, SaveUnlinkLock, Exit, Played, InPlay, Session
<1>8. Next
  BY DEF Stepping
<1>9. CASE Restore
  BY <1>1, <1>2, <1>6, <1>9 DEF Restore, QuietGo
<1>10. CASE Checkpoint \/ ChangeLevel
  BY <1>2, <1>3, <1>10 DEF Checkpoint, ChangeLevel, QuietGo, LevelGo, TrickedStep
<1>11. CASE Save
  BY <1>2, <1>3, <1>7, <1>11 DEF Save, QuietGo, TrickedStep
<1>12. CASE Play
  BY <1>2, <1>3, <1>12 DEF Play, QuietGo, LevelGo
<1> QED
  BY <1>1, <1>5, <1>8, <1>9, <1>10, <1>11, <1>12 DEF Next, Program

LEMMA FirstPromise == Init => P!Init
BY SameTerms DEF Init, P!Init, Playing, InMemory

LEMMA StutterPromise == UNCHANGED vars => UNCHANGED P!vars
BY DEF vars, disk, memory, control, history, P!vars, Playing, InMemory, MemoryWorld,
   WorldOf, WithDogs, Stuff, Stamp

(* For every number of levels, every endgame, all things: Persistence      *)
(* implements Promise.  Whatever the program does with its files, and      *)
(* wherever it dies, the player sees only what Promise allows.             *)
THEOREM PromiseKept == Spec => KeepsItsPromise
<1>1. Stepping => P!Next
  BY StepsKeepThePromise
<1>2. TypeInv /\ TypeInv' /\ Unsaved /\ Unsaved' /\ Consistent /\ Consistent' /\ [Next]_vars
        => [P!Next]_(P!vars)
  BY <1>1, StutterPromise DEF Stepping
<1>3. Spec => []TypeInv
  BY TypeInvariance
<1> QED
  BY <1>2, <1>3, FirstPromise, UnsavedAlways, AlwaysConsistent, PTL
     DEF Spec, KeepsItsPromise, P!Spec
=============================================================================
