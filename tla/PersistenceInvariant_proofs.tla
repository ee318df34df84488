--------------------- MODULE PersistenceInvariant_proofs --------------------
(***************************************************************************)
(* The kept game is never lost and comes back whole; the files of a game   *)
(* being played are there when they are needed; no thing is lost or        *)
(* doubled: proofs from the inductive invariant "Consistent".              *)
(***************************************************************************)
EXTENDS PersistenceSafety_proofs, PersistenceInvariant

----------------------------------------------------------------------------
(* Things that change places stay accounted for.                           *)

(* A set of things on level c is taken along.                              *)
LEMMA TakenAlong ==
  ASSUME NEW inv, NEW at, NEW lost, NEW made, NEW origin,
         NEW at2, NEW c \in Levels, NEW S \in SUBSET at[c],
         AccountedIn(inv, at, lost, made, origin),
         at2[c] = at[c] \ S, \A l \in Levels \ {c} : at2[l] = at[l]
  PROVE  AccountedIn(inv \cup S, at2, lost, made, origin)
BY DEF AccountedIn

(* A set of carried things is put down on level c.                         *)
LEMMA PutDown ==
  ASSUME NEW inv, NEW at, NEW lost, NEW made, NEW origin,
         NEW at2, NEW c \in Levels, NEW S \in SUBSET inv,
         AccountedIn(inv, at, lost, made, origin),
         at2[c] = at[c] \cup S, \A l \in Levels \ {c} : at2[l] = at[l]
  PROVE  AccountedIn(inv \ S, at2, lost, made, origin)
BY DEF AccountedIn

(* What is on level c is left behind for good.                             *)
LEMMA LevelLost ==
  ASSUME NEW inv, NEW at, NEW lost, NEW made, NEW origin,
         NEW at2, NEW c \in Levels,
         AccountedIn(inv, at, lost, made, origin),
         at2[c] = {}, \A l \in Levels \ {c} : at2[l] = at[l]
  PROVE  AccountedIn(inv, at2, lost \cup at[c], made, origin)
BY DEF AccountedIn

(* Carried things are left behind for good.                                *)
LEMMA CarriedLost ==
  ASSUME NEW inv, NEW at, NEW lost, NEW made, NEW origin, NEW S \in SUBSET inv,
         AccountedIn(inv, at, lost, made, origin)
  PROVE  AccountedIn(inv \ S, at, lost \cup S, made, origin)
BY DEF AccountedIn

(* Level d is made, with new things on it.                                 *)
LEMMA LevelMade ==
  ASSUME NEW inv, NEW at, NEW lost, NEW made, NEW origin,
         NEW at2, NEW d \in Levels, origin \subseteq Levels, d \notin origin,
         AccountedIn(inv, at, lost, made, origin), at[d] = {},
         at2[d] = Native[d], \A l \in Levels \ {d} : at2[l] = at[l]
  PROVE  AccountedIn(inv, at2, lost, made \cup {d}, origin \cup {d})
<1>1. \A t \in Native[d] : t \notin inv /\ t \notin lost /\ \A l \in Levels : t \notin at[l]
  BY FreshAssumption, LedgerAssumption DEF AccountedIn
<1> QED
  BY <1>1 DEF AccountedIn

(* Fewer levels need to be made from, more may be.                         *)
LEMMA AccountedWeaker ==
  ASSUME NEW inv, NEW at, NEW lost, NEW made, NEW origin, NEW made2, NEW origin2,
         AccountedIn(inv, at, lost, made, origin),
         made2 \subseteq made, origin \subseteq origin2
  PROVE  AccountedIn(inv, at, lost, made2, origin2)
BY DEF AccountedIn

(* The same things in the same places.                                     *)
LEMMA AccountedSame ==
  ASSUME NEW inv, NEW at, NEW lost, NEW made, NEW origin, NEW at2,
         AccountedIn(inv, at, lost, made, origin),
         \A l \in Levels : at2[l] = at[l]
  PROVE  AccountedIn(inv, at2, lost, made, origin)
BY DEF AccountedIn

----------------------------------------------------------------------------
(* Worlds, level by level.                                                 *)

LEMMA ProperWorld ==
  ASSUME NEW g, NEW on, NEW at, NEW left
  PROVE  Proper(WorldOf(g, on, at, left))
BY WorldFields DEF Proper

(* A game state and level files make up world w when it is their game and  *)
(* its levels are theirs.                                                  *)
Agree(g, on, at, left, w) ==
  /\ HeaderOf(g, w) /\ w.levels = on \cup {w.cur}
  /\ \A l \in w.levels : at[l] = w.at[l] /\ (l # w.cur => left[l] = w.left[l])

LEMMA WorldIs ==
  ASSUME NEW g \in GameState, NEW on \in SUBSET Levels,
         NEW at \in [Levels -> SUBSET Things], NEW left \in [Levels -> Nat],
         g.cur \in Levels, NEW w \in World, Proper(w)
  PROVE  WorldOf(g, on, at, left) = w <=> Agree(g, on, at, left, w)
<1> DEFINE v == WorldOf(g, on, at, left)
<1>1. v \in World
  BY WorldType
<1>2. /\ v.cur = g.cur /\ v.inv = g.inv /\ v.moves = g.moves
      /\ v.levels = on \cup {g.cur}
      /\ \A l \in Levels :
           /\ v.at[l] = IF l \in on \cup {g.cur} THEN at[l] ELSE {}
           /\ v.left[l] = IF l \in on \ {g.cur} THEN left[l] ELSE 0
  BY WorldFields
<1>3. w.levels \subseteq Levels
  BY DEF World
<1> HIDE DEF v
<1>4. ASSUME v = w PROVE Agree(g, on, at, left, w)
  BY <1>2, <1>3, <1>4 DEF Agree, HeaderOf
<1>5. ASSUME Agree(g, on, at, left, w) PROVE v = w
  <2> USE <1>5 DEF Agree
  <2>1. g.cur = w.cur /\ g.inv = w.inv /\ g.moves = w.moves
    BY DEF HeaderOf
  <2>2. ASSUME NEW l \in Levels PROVE v.at[l] = w.at[l] /\ v.left[l] = w.left[l]
    <3>1. CASE l \in w.levels /\ l # w.cur
      BY <1>2, <1>5, <2>1, <3>1
    <3>2. CASE l = w.cur
      BY <1>2, <1>5, <2>1, <3>2 DEF Proper
    <3>3. CASE l \notin w.levels
      BY <1>2, <1>5, <2>1, <3>3 DEF Proper
    <3> QED
      BY <3>1, <3>2, <3>3
  <2>3. v.cur = w.cur /\ v.inv = w.inv /\ v.moves = w.moves /\ v.levels = w.levels
    BY <1>2, <1>5, <2>1
  <2> QED
    BY <1>1, <2>2, <2>3, SameWorld
<1> QED
  BY <1>4, <1>5 DEF v

(* What the files are made of.                                             *)
LEMMA FileTypes ==
  TypeInv =>
    /\ savef.game \in GameState /\ savef.has \in SUBSET Levels
    /\ savef.stuff \in [Levels -> SUBSET Things] /\ savef.stamp \in [Levels -> Nat]
    /\ lock0.game \in GameState /\ game \in GameState
    /\ game.exists \in SUBSET Levels /\ game.visited \in SUBSET Levels
    /\ Stuff(lfile) \in [Levels -> SUBSET Things] /\ Stamp(lfile) \in [Levels -> Nat]
BY DEF TypeInv, TypeOK, DiskTypes, MemoryTypes, SaveFile, LockFile, LevelFile, GameState,
       Stuff, Stamp

(* World w is in the save file.                                            *)
SavedIs ==
  TypeInv => \A w \in World : Proper(w) =>
    (InSaveFile(w) <=>
       /\ Restorable /\ HeaderOf(savef.game, w) /\ w.levels = savef.has \cup {w.cur}
       /\ \A l \in w.levels : SavedAs(l, w))

LEMMA SavedIsTrue == SavedIs
<1> SUFFICES ASSUME TypeInv, NEW w \in World, Proper(w), Restorable
             PROVE  SaveWorld = w <=>
                      /\ HeaderOf(savef.game, w) /\ w.levels = savef.has \cup {w.cur}
                      /\ \A l \in w.levels : SavedAs(l, w)
  BY DEF SavedIs, InSaveFile
<1>1. savef.game.cur \in Levels
  BY DEF TypeInv, Placed, Restorable
<1>2. /\ savef.game \in GameState /\ savef.has \in SUBSET Levels
      /\ savef.stuff \in [Levels -> SUBSET Things] /\ savef.stamp \in [Levels -> Nat]
  BY FileTypes
<1>3. SaveWorld = w <=> Agree(savef.game, savef.has, savef.stuff, savef.stamp, w)
  BY <1>1, <1>2, WorldIs DEF SaveWorld
<1> QED
  BY <1>3 DEF Agree, SavedAs

LEMMA SavedIsNext == SavedIs'
BY SavedIsTrue, PTL

(* World w is in the level files.                                          *)
FiledIs ==
  TypeInv => \A w \in World : Proper(w) =>
    (LevelFilesHold(w) <=>
       /\ lock0.state = "whole" /\ HeaderOf(lock0.game, w) /\ w.cur \in w.levels
       /\ \A l \in w.levels : lfile[l].state = "whole" /\ FiledAs(l, w))

LEMMA FiledIsTrue == FiledIs
<1> SUFFICES ASSUME TypeInv, NEW w \in World, Proper(w), lock0.state = "whole"
             PROVE  WorldOf(lock0.game, w.levels, Stuff(lfile), Stamp(lfile)) = w <=>
                      /\ HeaderOf(lock0.game, w) /\ w.cur \in w.levels
                      /\ \A l \in w.levels : FiledAs(l, w)
  BY DEF FiledIs, LevelFilesHold
<1>1. lock0.game.cur \in Levels /\ w.levels \subseteq Levels
  BY DEF TypeInv, Placed, World
<1>2. \A l \in Levels : Stuff(lfile)[l] = lfile[l].stuff /\ Stamp(lfile)[l] = lfile[l].stamp
  BY DEF Stuff, Stamp
<1>3. /\ lock0.game \in GameState /\ w.levels \in SUBSET Levels
      /\ Stuff(lfile) \in [Levels -> SUBSET Things] /\ Stamp(lfile) \in [Levels -> Nat]
  BY <1>1, FileTypes
<1>4. WorldOf(lock0.game, w.levels, Stuff(lfile), Stamp(lfile)) = w <=>
        Agree(lock0.game, w.levels, Stuff(lfile), Stamp(lfile), w)
  BY <1>1, <1>3, WorldIs
<1>5. w.levels = w.levels \cup {w.cur} <=> w.cur \in w.levels
  OBVIOUS
<1>6. ASSUME NEW l \in w.levels
      PROVE  FiledAs(l, w) <=> /\ Stuff(lfile)[l] = w.at[l]
                               /\ l # w.cur => Stamp(lfile)[l] = w.left[l]
  BY <1>1, <1>2 DEF FiledAs
<1> QED
  BY <1>4, <1>5, <1>6 DEF Agree

LEMMA FiledIsNext == FiledIs'
BY FiledIsTrue, PTL

(* The world in memory.                                                    *)
MemoryIs ==
  TypeInv /\ pc \in Loaded =>
    /\ MemoryWorld \in World /\ Proper(MemoryWorld) /\ HeaderOf(game, MemoryWorld)
    /\ MemoryWorld.levels = game.exists \cup {game.cur} /\ game.cur \in Levels
    /\ MemoryWorld.at[game.cur] = here
    /\ \A l \in game.exists \ {game.cur} : FiledAs(l, MemoryWorld)

LEMMA MemoryIsTrue == MemoryIs
<1> SUFFICES ASSUME TypeInv, pc \in Loaded
             PROVE  /\ MemoryWorld \in World /\ Proper(MemoryWorld)
                    /\ HeaderOf(game, MemoryWorld) /\ game.cur \in Levels
                    /\ MemoryWorld.levels = game.exists \cup {game.cur}
                    /\ MemoryWorld.at[game.cur] = here
                    /\ \A l \in game.exists \ {game.cur} : FiledAs(l, MemoryWorld)
  BY DEF MemoryIs
<1> DEFINE at == [Stuff(lfile) EXCEPT ![game.cur] = here]
<1>1. game.cur \in Levels /\ game.exists \subseteq Levels
  BY FileTypes DEF TypeInv, Placed
<1>2. at[game.cur] = here /\ \A l \in Levels \ {game.cur} : at[l] = lfile[l].stuff
  BY <1>1 DEF Stuff
<1>3. \A l \in Levels : Stamp(lfile)[l] = lfile[l].stamp
  BY DEF Stamp
<1>4. MemoryWorld = WorldOf(game, game.exists, at, Stamp(lfile))
  BY DEF MemoryWorld
<1> HIDE DEF at
<1>5. MemoryWorld \in World
  BY MemoryWorldType
<1> QED
  BY <1>1, <1>2, <1>3, <1>4, <1>5, WorldFields, ProperWorld DEF HeaderOf, FiledAs

LEMMA MemoryIsNext == MemoryIs'
BY MemoryIsTrue, PTL

(* The world being played, its things in particular.                       *)
Between == {"leave", "discard", "arrive"}
PlayInv == IF pc \in Between THEN game.inv \cup dogs ELSE game.inv
PlayAt == [l \in Levels |->
             IF l = game.cur /\ pc \notin {"discard", "arrive"} THEN here
             ELSE IF l \in game.exists \cup {game.cur} THEN lfile[l].stuff ELSE {}]

PlayingIs ==
  TypeInv /\ pc \in InPlay =>
    /\ Playing \in World /\ Playing.cur = game.cur /\ Playing.moves = game.moves
    /\ Playing.levels = game.exists \cup {game.cur} /\ game.cur \in Levels
    /\ Playing.inv = PlayInv
    /\ \A l \in Levels : Playing.at[l] = PlayAt[l]

LEMMA PlayingIsTrue == PlayingIs
<1> SUFFICES ASSUME TypeInv, pc \in InPlay
             PROVE  /\ Playing \in World /\ Playing.cur = game.cur
                    /\ Playing.moves = game.moves /\ game.cur \in Levels
                    /\ Playing.levels = game.exists \cup {game.cur}
                    /\ Playing.inv = PlayInv
                    /\ \A l \in Levels : Playing.at[l] = PlayAt[l]
  BY DEF PlayingIs
<1>1. pc \in Loaded
  BY DEF InPlay, Session, Loaded
<1>2. /\ MemoryWorld \in World /\ Proper(MemoryWorld) /\ HeaderOf(game, MemoryWorld)
      /\ MemoryWorld.levels = game.exists \cup {game.cur} /\ game.cur \in Levels
      /\ MemoryWorld.at[game.cur] = here
      /\ \A l \in game.exists \ {game.cur} : FiledAs(l, MemoryWorld)
  BY <1>1, MemoryIsTrue DEF MemoryIs
<1>3. \A l \in Levels : MemoryWorld.at[l] =
        IF l = game.cur THEN here ELSE IF l \in game.exists THEN lfile[l].stuff ELSE {}
  BY <1>2 DEF Proper, FiledAs
<1>4. dogs \in SUBSET Things
  BY DEF TypeInv, TypeOK, MemoryTypes
<1>5. ASSUME NEW w \in World
      PROVE  /\ WithDogs(w) \in World /\ WithDogs(w).cur = w.cur
             /\ WithDogs(w).moves = w.moves /\ WithDogs(w).levels = w.levels
             /\ WithDogs(w).inv = w.inv \cup dogs /\ WithDogs(w).at = w.at
  BY <1>4 DEF World, WithDogs
<1>6. CASE pc \in InMemory
  <2>1. Playing = MemoryWorld /\ pc \notin Between
    BY <1>6 DEF Playing, InMemory, Between
  <2> QED
    BY <1>2, <1>3, <2>1, <1>6 DEF HeaderOf, PlayInv, PlayAt, Between, InMemory
<1>7. CASE pc = "leave"
  <2>1. Playing = WithDogs(MemoryWorld) /\ pc \in Between
    BY <1>7 DEF Playing, InMemory, Between
  <2> QED
    BY <1>2, <1>3, <1>5, <2>1, <1>7 DEF HeaderOf, PlayInv, PlayAt, Between
<1>8. CASE pc \in {"discard", "arrive"}
  <2> DEFINE w == WorldOf(game, game.exists, Stuff(lfile), Stamp(lfile))
  <2>1. Playing = WithDogs(w) /\ pc \in Between
    BY <1>8 DEF Playing, InMemory, Between
  <2>2. w \in World
    BY <1>2, FileTypes, WorldType
  <2>3. /\ w.cur = game.cur /\ w.inv = game.inv /\ w.moves = game.moves
        /\ w.levels = game.exists \cup {game.cur}
        /\ \A l \in Levels : w.at[l] = IF l \in game.exists \cup {game.cur}
                                       THEN Stuff(lfile)[l] ELSE {}
    BY WorldFields
  <2>4. \A l \in Levels : Stuff(lfile)[l] = lfile[l].stuff
    BY DEF Stuff
  <2> HIDE DEF w
  <2> QED
    BY <1>2, <1>5, <2>1, <2>2, <2>3, <2>4, <1>8 DEF PlayInv, PlayAt, Between
<1> QED
  BY <1>6, <1>7, <1>8 DEF InPlay, Session, InMemory

LEMMA PlayingIsNext == PlayingIs'
BY PlayingIsTrue, PTL

(* What is accounted for is what is in those places.                       *)
PlayOrigin == IF Away THEN Levels \ EndLevels
              ELSE game.exists \cup {game.cur} \cup Abroad(game.cur)
ThingsIs ==
  TypeInv /\ pc \in InPlay =>
    (Accounted(Playing, game.visited \cup {game.cur}, PlayOrigin) <=>
       AccountedIn(PlayInv, PlayAt, gone, game.visited \cup {game.cur}, PlayOrigin))

LEMMA ThingsIsTrue == ThingsIs
<1> SUFFICES ASSUME TypeInv, pc \in InPlay
             PROVE  Accounted(Playing, game.visited \cup {game.cur}, PlayOrigin) <=>
                      AccountedIn(PlayInv, PlayAt, gone, game.visited \cup {game.cur},
                                  PlayOrigin)
  BY DEF ThingsIs
<1>1. Playing.inv = PlayInv /\ \A l \in Levels : Playing.at[l] = PlayAt[l]
  BY PlayingIsTrue DEF PlayingIs
<1> QED
  BY <1>1, AccountedSame DEF Accounted

LEMMA ThingsIsNext == ThingsIs'
BY ThingsIsTrue, PTL

----------------------------------------------------------------------------
(* The parts of the invariant that hold whatever has happened.             *)

(* A step of a group of actions, each of them by its definition.           *)
LEMMA NoCheckpointYetKept ==
  ASSUME NoCheckpointYet, [Next]_vars PROVE NoCheckpointYet'
<1> USE DEF NoCheckpointYet, At, disk, memory, control, history, count
<1>1. CASE Start
  BY <1>1 DEF Start, LockFree, DestroyOldGame, RecoverNothing, RecoverRefused,
     RecoverOpen, EraseLevel, EraseLock, GotLock, NewSession, ShortLock
<1>2. CASE Recover \/ UtilRecover
  BY <1>2 DEF Recover, RecoverLevel, RecoverCopy, RecoverUnlinkLock, RecoverUnlink, Exit,
     UtilRecover, UtilOpen, UtilLevel, UtilState, UtilCopy, UtilClose
<1>3. CASE Restore
  BY <1>3 DEF Restore, NewGame, RestoreUnreadable, RestoreState, RestoreCreate,
     RestoreWrite, RestoreCurrent, Resume, Exit
<1>4. CASE Checkpoint
  BY <1>4 DEF Checkpoint, CkptCreate, CkptCreateFails, CkptLevel, CkptLock, CkptLockFails,
     CkptState
<1>5. CASE ChangeLevel
  BY <1>5 DEF ChangeLevel, GotoLevel, LeaveLevel, DiscardLevel, DiscardMigrations,
     ArriveNew, ArriveBack, ArriveTricked
<1>6. CASE Save \/ ClearLevel \/ ClearLock
  BY <1>6 DEF Save, SaveCreate, SaveCreateFails, SaveCurrent, SaveLevel, SaveTricked,
     SaveClose, SaveUnlinkCurrent, SaveUnlinkLock, ClearLevel, ClearLock, Exit
<1>7. CASE Play
  BY <1>7 DEF Play, PassTurn, SetCheckpointing, IdleCheckpoint, Die, SaveOrHangup,
     PickUp, Drop, OffLevels
<1>8. CASE Crash \/ UNCHANGED vars
  BY <1>8 DEF Crash, Exit, vars
<1> QED
  BY <1>1, <1>2, <1>3, <1>4, <1>5, <1>6, <1>7, <1>8 DEF Next, Program

(* What is being saved is what was played when the save began.             *)
LEMMA SavingWhatIsPlayedKept ==
  ASSUME TypeInv, SavingWhatIsPlayed, [Next]_vars PROVE SavingWhatIsPlayed'
<1> USE DEF SavingWhatIsPlayed, At, disk, memory, control, history, count
<1>1. CASE Start
  BY <1>1 DEF Start, LockFree, DestroyOldGame, RecoverNothing, RecoverRefused,
     RecoverOpen, EraseLevel, EraseLock, GotLock, NewSession
<1>2. CASE Recover \/ UtilRecover
  BY <1>2 DEF Recover, RecoverLevel, RecoverCopy, RecoverUnlinkLock, RecoverUnlink, Exit,
     UtilRecover, UtilOpen, UtilLevel, UtilState, UtilCopy, UtilClose
<1>3. CASE Restore
  BY <1>3 DEF Restore, NewGame, RestoreUnreadable, RestoreState, RestoreCreate,
     RestoreWrite, RestoreCurrent, Resume, Exit
<1>4. CASE Checkpoint
  BY <1>4 DEF Checkpoint, CkptCreate, CkptCreateFails, CkptLevel, CkptLock, CkptLockFails,
     CkptState
<1>5. CASE ChangeLevel
  BY <1>5 DEF ChangeLevel, GotoLevel, LeaveLevel, DiscardLevel, DiscardMigrations,
     ArriveNew, ArriveBack, ArriveTricked
<1>6. CASE Save
  <2>1. CASE SaveCreate
    BY <2>1 DEF SaveCreate, MemoryWorld, Stuff, Stamp
  <2>2. CASE SaveCurrent
    <3>1. saving.cur = game.cur
      BY <2>2, MemoryIsTrue DEF SaveCurrent, MemoryIs, HeaderOf, Loaded
    <3> QED
      BY <2>2, <3>1, FileTypes DEF SaveCurrent, GameState
  <2>3. CASE SaveLevel
    BY <2>3, FileTypes DEF SaveLevel, Deleted, GameState
  <2>4. CASE SaveCreateFails \/ SaveTricked \/ SaveClose \/ SaveUnlinkCurrent \/ SaveUnlinkLock
    BY <2>4 DEF SaveCreateFails, SaveTricked, SaveClose, SaveUnlinkCurrent, SaveUnlinkLock,
       Exit
  <2> QED
    BY <1>6, <2>1, <2>2, <2>3, <2>4 DEF Save
<1>7. CASE Play
  <2>1. CASE SaveOrHangup
    BY <2>1 DEF SaveOrHangup, MemoryWorld, Stuff, Stamp
  <2>2. CASE PassTurn \/ SetCheckpointing \/ IdleCheckpoint \/ Die
             \/ \E t \in Things : PickUp(t) \/ Drop(t)
    BY <2>2 DEF PassTurn, SetCheckpointing, IdleCheckpoint, Die, PickUp, Drop, OffLevels
  <2> QED
    BY <1>7, <2>1, <2>2 DEF Play
<1>8. CASE Crash \/ ClearLevel \/ ClearLock
  BY <1>8 DEF Crash, Exit, ClearLevel, ClearLock
<1>9. CASE UNCHANGED vars
  BY <1>9 DEF vars, MemoryWorld, Stuff, Stamp
<1> QED
  BY <1>1, <1>2, <1>3, <1>4, <1>5, <1>6, <1>7, <1>8, <1>9 DEF Next, Program

(* The world kept is always one that was in memory, and so is the one      *)
(* being saved.                                                            *)
LEMMA WorldsOfHistory ==
  ASSUME [Next]_vars
  PROVE  /\ saving' \in {saving, NoWorld} \/ (saving' = MemoryWorld /\ pc \in Loaded)
         /\ kept' \in {kept, NoWorld, saving} \/ (kept' = MemoryWorld /\ pc \in Loaded)
<1> USE DEF At, disk, memory, control, history, count, Loaded
<1>1. CASE Start
  BY <1>1 DEF Start, LockFree, DestroyOldGame, RecoverNothing, RecoverRefused,
     RecoverOpen, EraseLevel, EraseLock, GotLock, NewSession
<1>2. CASE Recover \/ UtilRecover
  BY <1>2 DEF Recover, RecoverLevel, RecoverCopy, RecoverUnlinkLock, RecoverUnlink, Exit,
     UtilRecover, UtilOpen, UtilLevel, UtilState, UtilCopy, UtilClose
<1>3. CASE Restore
  BY <1>3 DEF Restore, NewGame, RestoreUnreadable, RestoreState, RestoreCreate,
     RestoreWrite, RestoreCurrent, Resume, Exit
<1>4. CASE Checkpoint
  BY <1>4 DEF Checkpoint, CkptCreate, CkptCreateFails, CkptLevel, CkptLock, CkptLockFails,
     CkptState
<1>5. CASE ChangeLevel
  BY <1>5 DEF ChangeLevel, GotoLevel, LeaveLevel, DiscardLevel, DiscardMigrations,
     ArriveNew, ArriveBack, ArriveTricked
<1>6. CASE Save \/ ClearLevel \/ ClearLock
  BY <1>6 DEF Save, SaveCreate, SaveCreateFails, SaveCurrent, SaveLevel, SaveTricked,
     SaveClose, SaveUnlinkCurrent, SaveUnlinkLock, ClearLevel, ClearLock, Exit
<1>7. CASE Play
  BY <1>7 DEF Play, PassTurn, SetCheckpointing, IdleCheckpoint, Die, SaveOrHangup,
     PickUp, Drop, OffLevels
<1>8. CASE Crash \/ UNCHANGED vars
  BY <1>8 DEF Crash, Exit, vars
<1> QED
  BY <1>1, <1>2, <1>3, <1>4, <1>5, <1>6, <1>7, <1>8 DEF Next, Program

LEMMA HistoryProperKept ==
  ASSUME TypeInv, HistoryProper, [Next]_vars PROVE HistoryProper'
<1>1. Proper(NoWorld)
  BY DEF Proper, NoWorld
<1>2. pc \in Loaded => Proper(MemoryWorld)
  BY MemoryIsTrue DEF MemoryIs
<1> QED
  BY <1>1, <1>2, WorldsOfHistory DEF HistoryProper

----------------------------------------------------------------------------
(* The rest of the invariant begins with a new game.                       *)
LEMMA NewGameSane ==
  ASSUME TypeInv, TypeInv', Unsaved', NoCheckpointYet, NewGame PROVE Sane'
<1> USE DEF At
<1>1. /\ pc' = "ckpt" /\ lock0.state = "short" /\ lock0' = lock0 /\ atrisk' /\ gone' = {}
      /\ kept' = NoWorld /\ here' = Native[FirstLevel]
  BY DEF NewGame, NoCheckpointYet, disk
<1>2. /\ game'.cur = FirstLevel /\ game'.inv = {} /\ game'.visited = {}
      /\ game'.exists = {}
  BY DEF NewGame, NoGame
<1>3. AtRest' /\ Recovering' /\ UtilRecovering' /\ Restoring' /\ Resumed' /\ Travelling'
        /\ Saving' /\ GameOver' /\ Checkpointing'
  BY <1>1 DEF AtRest, Idle, Recovering, UtilRecovering, Restoring, Resumed, Travelling,
     Saving, GameOver, Checkpointing
<1>4. FilesOfSession' /\ SafeWithCheckpoint' /\ CheckpointOlder'
  BY <1>1, <1>2 DEF FilesOfSession, SafeWithCheckpoint, CheckpointOlder, Risky
<1>5. ~Away'
  BY <1>1 DEF Away
<1>6. FlagsOfSession'
  BY <1>2, <1>5 DEF FlagsOfSession, Fits
<1>7. AccountedIn(PlayInv', PlayAt', gone', (game.visited \cup {game.cur})', PlayOrigin')
  <2>1. PlayInv' = {} /\ PlayAt'[FirstLevel] = Native[FirstLevel]
          /\ \A l \in Levels \ {FirstLevel} : PlayAt'[l] = {}
    BY <1>1, <1>2, LedgerAssumption DEF PlayInv, PlayAt, Between
  <2>2. FirstLevel \in PlayOrigin'
    BY <1>2, <1>5 DEF PlayOrigin
  <2> QED
    BY <1>1, <1>2, <2>1, <2>2, LedgerAssumption DEF AccountedIn
<1>8. ThingsOfSession'
  BY <1>7, ThingsIsNext DEF ThingsOfSession, ThingsIs, PlayOrigin
<1> QED
  BY <1>3, <1>4, <1>6, <1>8 DEF Sane

----------------------------------------------------------------------------
(* Every part of the invariant is kept by a step of a process that has not *)
(* died at risk.                                                           *)
Steady ==
  /\ TypeInv /\ TypeInv' /\ Unsaved
  /\ NoCheckpointYet /\ SavingWhatIsPlayed /\ HistoryProper /\ Sane
  /\ ~torn /\ ~torn' /\ ~NewGame

(* Nothing but the checkpoint and the level files is taken away: the kept  *)
(* world is where it was, or no longer in the level files.                 *)
TakenAway ==
  /\ UNCHANGED <<savef, kept, gone>>
  /\ lock0' = lock0 \/ lock0'.state # "whole"
  /\ \A l \in Levels : lfile'[l] = lfile[l] \/ lfile'[l].state # "whole"

LEMMA KeptUnderRemoval ==
  ASSUME TypeInv, TypeInv', HistoryProper, TakenAway
  PROVE  /\ Restorable' <=> Restorable
         /\ InSaveFile(kept)' <=> InSaveFile(kept)
         /\ Sound(savef.game, kept)' <=> Sound(savef.game, kept)
         /\ LevelFilesHold(kept)' =>
              LevelFilesHold(kept) /\ (Sound(lock0.game, kept)' <=> Sound(lock0.game, kept))
<1> USE DEF TakenAway
<1>1. kept \in World /\ Proper(kept) /\ Proper(kept')
  BY DEF TypeInv, TypeOK, HistoryTypes, HistoryProper
<1>2. kept.levels \subseteq Levels
  BY <1>1 DEF World
<1>3. ASSUME LevelFilesHold(kept)' PROVE LevelFilesHold(kept) /\ lock0' = lock0
  <2>2. /\ lock0'.state = "whole" /\ HeaderOf(lock0.game, kept)' /\ kept.cur \in kept.levels
        /\ \A l \in kept.levels : lfile'[l].state = "whole" /\ FiledAs(l, kept)'
    BY <1>1, <1>3, FiledIsNext DEF FiledIs
  <2>3. lock0' = lock0 /\ \A l \in kept.levels : lfile'[l] = lfile[l]
    BY <1>2, <2>2
  <2>4. HeaderOf(lock0.game, kept)
          /\ \A l \in kept.levels : lfile[l].state = "whole" /\ FiledAs(l, kept)
    BY <2>2, <2>3 DEF FiledAs, HeaderOf
  <2> QED
    BY <1>1, <2>2, <2>3, <2>4, FiledIsTrue DEF FiledIs
<1>4. Restorable' <=> Restorable
  BY DEF Restorable
<1>5. InSaveFile(kept)' <=> InSaveFile(kept)
  BY <1>4 DEF InSaveFile, SaveWorld
<1>6. Sound(savef.game, kept)' <=> Sound(savef.game, kept)
  BY DEF Sound, Accounted
<1>7. lock0' = lock0 => (Sound(lock0.game, kept)' <=> Sound(lock0.game, kept))
  BY DEF Sound, Accounted
<1> QED
  BY <1>3, <1>4, <1>5, <1>6, <1>7

(* A world that has been copied completely is in the save file.            *)
LEMMA CopyDone ==
  ASSUME TypeInv, NEW w \in World, Proper(w), Copying(w), todo = {} PROVE InSaveFile(w)
<1>1. savef.has = w.levels /\ w.cur \in savef.has
  BY DEF Copying, SavedPart
<1>2. Restorable /\ HeaderOf(savef.game, w) /\ \A l \in w.levels : SavedAs(l, w)
  BY <1>1 DEF Copying, SavedPart, Restorable
<1>3. w.levels = savef.has \cup {w.cur}
  BY <1>1
<1> QED
  BY <1>2, <1>3, SavedIsTrue DEF SavedIs

(* What is appended to a save file.                                        *)
LEMMA Appended ==
  ASSUME NEW sf \in SaveFile, NEW l \in Levels, NEW f
  PROVE  LET new == AddLevel(sf, l, f) IN
         /\ new.game = sf.game /\ new.has = sf.has \cup {l} /\ new.locked = sf.locked
         /\ new.state = IF f.state = "whole" THEN sf.state ELSE "mixed"
         /\ new.stuff[l] = f.stuff /\ new.stamp[l] = f.stamp
         /\ \A k \in Levels \ {l} : new.stuff[k] = sf.stuff[k] /\ new.stamp[k] = sf.stamp[k]
BY DEF AddLevel, SaveFile

(* One more level is copied, from its file as it is in the world.          *)
LEMMA CopyStep ==
  ASSUME TypeInv, NEW w \in World, Copying(w), NEW l \in todo, lfile[l].state = "whole",
         savef' = AddLevel(savef, l, lfile[l]), todo' = todo \ {l}, gone' = gone,
         \A k \in Levels \ {l} : lfile'[k] = lfile[k]
  PROVE  Copying(w)'
<1>1. l \in w.levels \ savef.has /\ w.levels \subseteq Levels /\ l # w.cur
  BY DEF Copying, SavedPart, World
<1>2. savef \in SaveFile /\ l \in Levels
  BY <1>1 DEF TypeInv, TypeOK, DiskTypes
<1>3. /\ savef'.game = savef.game /\ savef'.has = savef.has \cup {l}
      /\ savef'.locked = savef.locked /\ savef'.state = savef.state
      /\ savef'.stuff[l] = lfile[l].stuff /\ savef'.stamp[l] = lfile[l].stamp
      /\ \A k \in Levels \ {l} :
           savef'.stuff[k] = savef.stuff[k] /\ savef'.stamp[k] = savef.stamp[k]
  BY <1>2, Appended
<1>4. \A k \in savef'.has : SavedAs(k, w)'
  BY <1>1, <1>3 DEF Copying, SavedPart, SavedAs, FiledAs
<1>5. \A k \in w.levels \ savef'.has : FiledAs(k, w)'
  BY <1>1, <1>3 DEF Copying, SavedPart, FiledAs
<1>6. SavedPart(w)'
  BY <1>1, <1>3, <1>4, <1>5 DEF Copying, SavedPart
<1>7. Sound(savef.game, w)' /\ HeaderOf(savef.game, w)'
  BY <1>3 DEF Copying, Sound, Accounted, HeaderOf
<1> QED
  BY <1>1, <1>3, <1>6, <1>7 DEF Copying

(* Where the steps of each group lead.                                     *)
LEMMA Destinations ==
  /\ Start => pc' \in {"off", "gotlock", "erase", "rec_level", "restore"}
  /\ Recover => pc' \in {"off", "rec_copy", "rec_erase", "gotlock"}
  /\ Restore => pc' \in {"off", "rest_create", "rest_write", "resumed", "ckpt", "play"}
  /\ Checkpoint => pc' \in {"ckpt_level", "ckpt_lock", "ckpt_state", "play", "over"}
  /\ ChangeLevel => pc' \in {"leave", "discard", "arrive", "ckpt", "over"}
  /\ Save => pc' \in {"save_current", "save_levels", "save_unlink", "save_unlock", "play",
                      "over", "off"}
  /\ ClearLevel \/ ClearLock => pc' \in {"over", "off"}
  /\ UtilRecover => pc' \in {"util_level", "util_state", "util_copy", "off"}
  /\ Play => pc' \in {"play", "ckpt", "over", "save_create"}
  /\ Crash => pc' = "off"
<1> USE DEF At, disk, memory, control, history, count
<1>1. Start => pc' \in {"off", "gotlock", "erase", "rec_level", "restore"}
  BY DEF Start, LockFree, DestroyOldGame, RecoverNothing, RecoverRefused, RecoverOpen,
     EraseLevel, EraseLock, GotLock, NewSession
<1>2. Recover => pc' \in {"off", "rec_copy", "rec_erase", "gotlock"}
  BY DEF Recover, RecoverLevel, RecoverCopy, RecoverUnlinkLock, RecoverUnlink, Exit
<1>3. Restore => pc' \in {"off", "rest_create", "rest_write", "resumed", "ckpt", "play"}
  BY DEF Restore, NewGame, RestoreUnreadable, RestoreState, RestoreCreate, RestoreWrite,
     RestoreCurrent, Resume, Exit
<1>4. Checkpoint => pc' \in {"ckpt_level", "ckpt_lock", "ckpt_state", "play", "over"}
  BY DEF Checkpoint, CkptCreate, CkptCreateFails, CkptLevel, CkptLock, CkptLockFails,
     CkptState
<1>5. ChangeLevel => pc' \in {"leave", "discard", "arrive", "ckpt", "over"}
  BY DEF ChangeLevel, GotoLevel, LeaveLevel, DiscardLevel, DiscardMigrations, ArriveNew,
     ArriveBack, ArriveTricked
<1>6. Save => pc' \in {"save_current", "save_levels", "save_unlink", "save_unlock", "play",
                       "over", "off"}
  BY DEF Save, SaveCreate, SaveCreateFails, SaveCurrent, SaveLevel, SaveTricked, SaveClose,
     SaveUnlinkCurrent, SaveUnlinkLock, Exit
<1>7. ClearLevel \/ ClearLock => pc' \in {"over", "off"}
  BY DEF ClearLevel, ClearLock, Exit
<1>8. UtilRecover => pc' \in {"util_level", "util_state", "util_copy", "off"}
  BY DEF UtilRecover, UtilOpen, UtilLevel, UtilState, UtilCopy, UtilClose, Exit
<1>9. Play => pc' \in {"play", "ckpt", "over", "save_create"}
  BY DEF Play, PassTurn, SetCheckpointing, IdleCheckpoint, Die, SaveOrHangup, PickUp, Drop,
     OffLevels
<1>10. Crash => pc' = "off"
  BY DEF Crash, Exit
<1> QED
  BY <1>1, <1>2, <1>3, <1>4, <1>5, <1>6, <1>7, <1>8, <1>9, <1>10

(* Recovery begins with the kept world in the level files, and nothing else*)
(* in them, and copies it.                                                 *)
LEMMA RecoveringKept == ASSUME Steady, Next PROVE Recovering'
<1> USE DEF At
<1>1. kept \in World /\ Proper(kept) /\ kept.levels \subseteq Levels
  BY DEF Steady, TypeInv, TypeOK, HistoryTypes, HistoryProper, World
<1>2. TypeInv /\ lfile \in [Levels -> LevelFile]
  BY DEF Steady, TypeInv, TypeOK, DiskTypes
<1>3. CASE RecoverOpen \/ UtilOpen
  <2>1. /\ pc' \in {"rec_level", "util_level"} /\ savef' = ShortSave /\ At("off")
        /\ UNCHANGED <<lfile, lock0, kept, gone>> /\ lock0.state = "whole"
        /\ torn' = (torn \/ (kept # NoWorld /\ ~InLevelFiles(kept)))
    BY <1>3 DEF RecoverOpen, UtilOpen, NewSession
  <2>2. /\ LevelFilesHold(kept) => Sound(lock0.game, kept)
        /\ kept # NoWorld
    BY <2>1 DEF Steady, Sane, AtRest, Idle
  <2>3. InLevelFiles(kept) /\ Sound(lock0.game, kept)
    BY <2>1, <2>2 DEF Steady, InLevelFiles
  <2>4. InLevelFiles(kept)' /\ Sound(lock0.game, kept)'
    BY <2>1, <2>3 DEF InLevelFiles, LevelFilesHold, Present, Stuff, Stamp, Sound, Accounted
  <2> QED
    BY <2>1, <2>2, <2>4 DEF Recovering
<1>4. CASE RecoverLevel
  <2>1. /\ kept # NoWorld /\ InLevelFiles(kept) /\ Sound(lock0.game, kept)
        /\ UNCHANGED <<lfile, lock0, kept, gone>>
    BY <1>4 DEF RecoverLevel, Steady, Sane, Recovering, history, count
  <2>2. /\ lock0.state = "whole" /\ HeaderOf(lock0.game, kept) /\ kept.cur \in kept.levels
        /\ \A l \in kept.levels : lfile[l].state = "whole" /\ FiledAs(l, kept)
        /\ Present \subseteq kept.levels
    BY <1>1, <1>2, <2>1, FiledIsTrue DEF InLevelFiles, FiledIs
  <2>3. lock0.game.cur = kept.cur /\ kept.cur \in Levels /\ lfile[kept.cur].state = "whole"
    BY <1>1, <2>2 DEF HeaderOf
  <2> DEFINE first == [ShortSave EXCEPT !.state = "good", !.game = lock0.game]
  <2>4. /\ savef' = AddLevel(first, kept.cur, lfile[kept.cur])
        /\ todo' = Present \ {kept.cur} /\ pc' = "rec_copy"
    BY <1>4, <2>3 DEF RecoverLevel
  <2>5. lock0.game \in GameState
    BY <1>2, FileTypes
  <2>6. /\ first \in SaveFile /\ first.game = lock0.game /\ first.state = "good"
        /\ first.has = {} /\ first.locked = FALSE
    BY <2>5, GoodSaveType DEF ShortSave, NoSave
  <2> HIDE DEF first
  <2>7. /\ savef'.game = lock0.game /\ savef'.has = {kept.cur} /\ ~savef'.locked
        /\ savef'.state = "good"
        /\ savef'.stuff[kept.cur] = lfile[kept.cur].stuff
    BY <2>3, <2>4, <2>6, Appended
  <2>8. Present \ {kept.cur} = kept.levels \ {kept.cur}
    BY <1>1, <2>2 DEF Present
  <2>9. SavedPart(kept)'
    BY <2>1, <2>2, <2>7 DEF SavedPart, SavedAs, FiledAs
  <2>10. Sound(lock0.game, kept)' /\ Sound(savef.game, kept)'
    BY <2>1, <2>7 DEF Sound, Accounted
  <2>11. HeaderOf(savef.game, kept)'
    BY <2>1, <2>2, <2>7 DEF HeaderOf
  <2>12. Copying(kept)'
    BY <2>1, <2>4, <2>7, <2>8, <2>9, <2>10, <2>11 DEF Copying
  <2>13. InLevelFiles(kept)'
    BY <2>1 DEF InLevelFiles, LevelFilesHold, Present, Stuff, Stamp
  <2> QED
    BY <2>1, <2>4, <2>7, <2>10, <2>12, <2>13 DEF Recovering
<1>5. CASE RecoverCopy
  <2>1. /\ kept # NoWorld /\ InLevelFiles(kept) /\ Sound(lock0.game, kept) /\ Copying(kept)
        /\ savef.game = lock0.game /\ UNCHANGED <<lfile, lock0, kept, gone, pc>>
    BY <1>5 DEF RecoverCopy, Steady, Sane, Recovering, history, count
  <2>2. PICK l \in todo : savef' = AddLevel(savef, l, lfile[l]) /\ todo' = todo \ {l}
    BY <1>5 DEF RecoverCopy, IsFirst
  <2>3. l \in kept.levels
    BY <2>1 DEF Copying
  <2>4. lfile[l].state = "whole"
    BY <2>1, <2>3 DEF InLevelFiles, LevelFilesHold
  <2>5. ASSUME NEW w \in World, w = kept PROVE Copying(w)'
    BY <1>2, <2>1, <2>2, <2>4, <2>5, CopyStep
  <2>6. Copying(kept)'
    BY <1>1, <2>1, <2>5 DEF Copying, HeaderOf, SavedPart, SavedAs, FiledAs, Sound, Accounted
  <2>7. savef'.game = savef.game
    BY <1>1, <1>2, <2>2, <2>3, Appended DEF TypeInv, TypeOK, DiskTypes
  <2>8. InLevelFiles(kept)' /\ Sound(lock0.game, kept)'
    BY <2>1 DEF InLevelFiles, LevelFilesHold, Present, Stuff, Stamp, Sound, Accounted
  <2> QED
    BY <2>1, <2>6, <2>7, <2>8, <1>5 DEF Recovering, RecoverCopy
<1>6. CASE Start /\ ~RecoverOpen
  <2>1. pc' # "rec_level"
    BY <1>6 DEF Start, LockFree, DestroyOldGame, RecoverNothing, RecoverRefused, EraseLevel,
       EraseLock, GotLock, NewSession
  <2> QED
    BY <1>6, <2>1, Destinations DEF Recovering
<1>7. CASE Recover /\ ~RecoverLevel /\ ~RecoverCopy
  BY <1>7 DEF Recover, RecoverUnlinkLock, RecoverUnlink, Recovering
<1>8. CASE UtilRecover /\ ~UtilOpen
  BY <1>8 DEF UtilRecover, UtilLevel, UtilState, UtilCopy, UtilClose, Exit, Recovering
<1>9. CASE ~(Start \/ Recover \/ UtilRecover)
  BY <1>9, Destinations DEF Next, Program, Recovering
<1> QED
  BY <1>3, <1>4, <1>5, <1>6, <1>7, <1>8, <1>9

(* util/recover takes from each file what it then erases.                  *)
LEMMA UtilRecoveringKept == ASSUME Steady, Next PROVE UtilRecovering'
<1> USE DEF At
<1>1. kept \in World /\ Proper(kept) /\ kept.levels \subseteq Levels
  BY DEF Steady, TypeInv, TypeOK, HistoryTypes, HistoryProper, World
<1>2. TypeInv /\ lfile \in [Levels -> LevelFile] /\ savef \in SaveFile
  BY DEF Steady, TypeInv, TypeOK, DiskTypes
<1>3. CASE UtilLevel
  <2>1. /\ kept # NoWorld /\ InLevelFiles(kept) /\ Sound(lock0.game, kept)
        /\ savef = ShortSave
        /\ UNCHANGED <<lock0, kept, gone>>
    BY <1>3 DEF UtilLevel, Steady, Sane, Recovering
  <2>2. /\ lock0.state = "whole" /\ HeaderOf(lock0.game, kept) /\ kept.cur \in kept.levels
        /\ \A l \in kept.levels : lfile[l].state = "whole" /\ FiledAs(l, kept)
        /\ Present \subseteq kept.levels
    BY <1>1, <1>2, <2>1, FiledIsTrue DEF InLevelFiles, FiledIs
  <2>3. lock0.game.cur = kept.cur /\ kept.cur \in Levels /\ lfile[kept.cur].state = "whole"
    BY <1>1, <2>2 DEF HeaderOf
  <2>4. /\ savef' = AddLevel(savef, kept.cur, lfile[kept.cur])
        /\ lfile' = [lfile EXCEPT ![kept.cur] = NoFile] /\ atrisk' /\ pc' = "util_state"
    BY <1>3, <2>3 DEF UtilLevel
  <2>5. savef.has = {} /\ ~savef.locked /\ savef.state = "short"
    BY <2>1 DEF ShortSave, NoSave
  <2>6. /\ savef'.has = {kept.cur} /\ ~savef'.locked /\ savef'.state = "short"
        /\ savef'.stuff[kept.cur] = lfile[kept.cur].stuff
    BY <1>2, <2>3, <2>4, <2>5, Appended
  <2>7. lfile'[kept.cur].state = "none" /\ \A l \in Levels \ {kept.cur} : lfile'[l] = lfile[l]
    BY <1>2, <2>3, <2>4 DEF NoFile
  <2>8. SavedPart(kept)'
    BY <1>1, <2>1, <2>2, <2>6, <2>7 DEF SavedPart, SavedAs, FiledAs
  <2>9. Present' = kept.levels \ {kept.cur}
    BY <1>1, <2>2, <2>7 DEF Present
  <2>10. HeaderOf(lock0.game, kept)' /\ Sound(lock0.game, kept)'
    BY <2>1, <2>2 DEF HeaderOf, Sound, Accounted
  <2>11. \A l \in kept.levels \ {kept.cur} : lfile'[l].state = "whole"
    BY <1>1, <2>2, <2>7
  <2> QED
    BY <2>1, <2>4, <2>6, <2>8, <2>9, <2>10, <2>11 DEF UtilRecovering
<1>4. CASE UtilState
  <2>1. /\ kept # NoWorld /\ atrisk /\ SavedPart(kept) /\ savef.state = "short"
        /\ Present = kept.levels \ savef.has
        /\ \A l \in kept.levels \ savef.has : lfile[l].state = "whole"
        /\ HeaderOf(lock0.game, kept) /\ Sound(lock0.game, kept)
        /\ UNCHANGED <<lfile, kept, gone, atrisk>>
    BY <1>4 DEF UtilState, Steady, Sane, UtilRecovering, history
  <2>2. /\ savef' = [savef EXCEPT !.game = lock0.game, !.state = "good"]
        /\ todo' = Present /\ pc' = "util_copy"
    BY <1>4, <2>1 DEF UtilState
  <2>3. /\ savef'.game = lock0.game /\ savef'.state = "good" /\ savef'.has = savef.has
        /\ savef'.locked = savef.locked /\ savef'.stuff = savef.stuff
        /\ savef'.stamp = savef.stamp
    BY <1>2, <2>2 DEF SaveFile
  <2>4. SavedPart(kept)'
    BY <2>1, <2>3 DEF SavedPart, SavedAs, FiledAs
  <2>5. HeaderOf(savef.game, kept)' /\ Sound(savef.game, kept)'
    BY <2>1, <2>3 DEF HeaderOf, Sound, Accounted
  <2>6. lock0'.state = "none"
    BY <1>4 DEF UtilState, NoLock
  <2> QED
    BY <2>1, <2>2, <2>3, <2>4, <2>5, <2>6 DEF UtilRecovering, Copying
<1>5. CASE UtilCopy
  <2>1. /\ kept # NoWorld /\ atrisk /\ Copying(kept) /\ lock0.state = "none"
        /\ \A l \in kept.levels \ savef.has : lfile[l].state = "whole"
        /\ UNCHANGED <<lock0, kept, gone, atrisk, pc>>
    BY <1>5 DEF UtilCopy, Steady, Sane, UtilRecovering, history, count
  <2>2. PICK l \in todo : /\ savef' = AddLevel(savef, l, lfile[l]) /\ todo' = todo \ {l}
                          /\ lfile' = [lfile EXCEPT ![l] = NoFile]
    BY <1>5 DEF UtilCopy, IsFirst
  <2>3. l \in kept.levels \ savef.has
    BY <2>1 DEF Copying
  <2>4. \A k \in Levels \ {l} : lfile'[k] = lfile[k]
    BY <1>2, <2>2
  <2>5. ASSUME NEW w \in World, w = kept PROVE Copying(w)'
    BY <1>2, <2>1, <2>2, <2>3, <2>4, <2>5, CopyStep
  <2>6. Copying(kept)'
    BY <1>1, <2>1, <2>5 DEF Copying, HeaderOf, SavedPart, SavedAs, FiledAs, Sound, Accounted
  <2>7. savef'.has = savef.has \cup {l}
    BY <1>1, <1>2, <2>2, <2>3, Appended
  <2>8. \A k \in kept.levels \ savef'.has : lfile'[k].state = "whole"
    BY <1>1, <2>1, <2>4, <2>7
  <2> QED
    BY <2>1, <2>6, <2>8, <1>5 DEF UtilRecovering, UtilCopy
<1>6. CASE UtilOpen \/ UtilClose
  BY <1>6 DEF UtilOpen, UtilClose, Exit, UtilRecovering
<1>7. CASE ~UtilRecover
  BY <1>7, Destinations DEF Next, Program, UtilRecovering
<1> QED
  BY <1>3, <1>4, <1>5, <1>6, <1>7 DEF UtilRecover

(* Restoring: each level read comes into a file of this session.           *)
LEMMA RestoringKept == ASSUME Steady, Next PROVE Restoring'
<1> USE DEF At
<1>1. kept \in World /\ Proper(kept) /\ kept.levels \subseteq Levels
  BY DEF Steady, TypeInv, TypeOK, HistoryTypes, HistoryProper, World
<1>2. TypeInv /\ lfile \in [Levels -> LevelFile] /\ savef \in SaveFile /\ game \in GameState
        /\ todo \subseteq Levels
  BY DEF Steady, TypeInv, TypeOK, DiskTypes, MemoryTypes, ControlTypes
<1>3. CASE RestoreState
  <2>1. /\ Restorable /\ savef' = [savef EXCEPT !.locked = TRUE] /\ atrisk'
        /\ game' = savef.game /\ todo' = savef.has /\ pc' = "rest_create"
        /\ UNCHANGED <<kept, gone>>
    BY <1>3 DEF RestoreState
  <2>2. kept # NoWorld /\ InSaveFile(kept) /\ Sound(savef.game, kept)
    BY <1>3, <2>1 DEF RestoreState, Steady, Sane, AtRest, Idle
  <2>3. /\ HeaderOf(savef.game, kept) /\ SaveWorld = kept
        /\ kept.levels = savef.has \cup {kept.cur}
    BY <1>1, <1>2, <2>2, SavedIsTrue DEF SavedIs, InSaveFile
  <2>4. /\ savef'.game = savef.game /\ savef'.has = savef.has
        /\ savef'.stuff = savef.stuff /\ savef'.stamp = savef.stamp
    BY <1>2, <2>1 DEF SaveFile
  <2>5. SaveWorld' = kept' /\ HeaderOf(game, kept)' /\ Sound(savef.game, kept)'
    BY <2>1, <2>2, <2>3, <2>4 DEF SaveWorld, HeaderOf, Sound, Accounted
  <2>6. game'.exists \subseteq kept.levels
    BY <2>1, <2>2 DEF Sound, Fits
  <2> QED
    BY <2>1, <2>2, <2>4, <2>5, <2>6 DEF Restoring
<1>4. CASE RestoreCreate
  <2>1. Restoring /\ pc = "rest_create" /\ pc' = "rest_write"
    BY <1>4 DEF Steady, Sane, RestoreCreate
  <2>2. PICK l \in todo : /\ lfile' = [lfile EXCEPT ![l] = ShortFile]
                          /\ game' = [game EXCEPT !.exists = @ \cup {l}]
                          /\ dest' = l
    BY <1>4 DEF RestoreCreate
  <2>3. UNCHANGED <<savef, kept, gone, atrisk, hackpid, todo>>
    BY <1>4 DEF RestoreCreate, history
  <2>4. /\ game'.cur = game.cur /\ game'.inv = game.inv /\ game'.moves = game.moves
        /\ game'.visited = game.visited /\ game'.exists = game.exists \cup {l}
    BY <1>2, <2>2 DEF GameState
  <2>5. \A k \in Levels \ {l} : lfile'[k] = lfile[k]
    BY <1>2, <2>2
  <2>6. l \in savef.has /\ l \in kept.levels
    BY <1>1, <1>2, <2>1, <2>2, WorldFields DEF Restoring, SaveWorld
  <2>7. SaveWorld' = kept' /\ HeaderOf(game, kept)' /\ Sound(savef.game, kept)'
    BY <2>1, <2>3, <2>4 DEF Restoring, SaveWorld, HeaderOf, Sound, Accounted
  <2>8. \A k \in savef.has \ todo :
          /\ OurFile(k)' /\ lfile'[k].stuff = savef.stuff[k]
          /\ k # game'.cur => lfile'[k].stamp = savef.stamp[k]
    BY <1>2, <2>1, <2>2, <2>3, <2>4, <2>5 DEF Restoring, OurFile, SaveFile
  <2> QED
    BY <2>1, <2>2, <2>3, <2>4, <2>6, <2>7, <2>8 DEF Restoring
<1>5. CASE RestoreWrite
  <2>1. Restoring /\ pc = "rest_write" /\ pc' = "rest_create"
    BY <1>5 DEF Steady, Sane, RestoreWrite
  <2>2. /\ lfile' = [lfile EXCEPT ![dest] =
                       WholeFile(hackpid, savef.stuff[dest], TimeStamp(dest))]
        /\ game' = [game EXCEPT !.visited = @ \cup {dest}]
        /\ todo' = todo \ {dest}
        /\ UNCHANGED <<savef, kept, gone, atrisk, hackpid>>
    BY <1>5 DEF RestoreWrite, history
  <2>3. dest \in Levels /\ dest \in savef.has /\ dest \in game.exists
          /\ dest \in kept.levels
    BY <1>2, <2>1 DEF Restoring
  <2>4. /\ game'.cur = game.cur /\ game'.inv = game.inv /\ game'.moves = game.moves
        /\ game'.visited = game.visited \cup {dest} /\ game'.exists = game.exists
    BY <1>2, <2>2 DEF GameState
  <2>5. \A k \in Levels \ {dest} : lfile'[k] = lfile[k]
    BY <1>2, <2>2
  <2>6. /\ lfile'[dest].state = "whole" /\ lfile'[dest].pid = hackpid
        /\ lfile'[dest].stuff = savef.stuff[dest]
        /\ dest # game.cur => lfile'[dest].stamp = savef.stamp[dest]
    BY <1>2, <2>2, <2>3 DEF WholeFile, TimeStamp
  <2>7. SaveWorld' = kept' /\ HeaderOf(game, kept)' /\ Sound(savef.game, kept)'
    BY <2>1, <2>2, <2>4 DEF Restoring, SaveWorld, HeaderOf, Sound, Accounted
  <2>8. \A k \in savef.has \ todo' :
          /\ OurFile(k)' /\ lfile'[k].stuff = savef.stuff[k]
          /\ k # game'.cur => lfile'[k].stamp = savef.stamp[k]
    BY <1>2, <2>1, <2>2, <2>4, <2>5, <2>6 DEF Restoring, OurFile, SaveFile
  <2> QED
    BY <2>1, <2>2, <2>3, <2>4, <2>7, <2>8 DEF Restoring
<1>6. CASE Restore /\ ~RestoreState /\ ~RestoreCreate /\ ~RestoreWrite
  BY <1>6 DEF Restore, NewGame, RestoreUnreadable, RestoreCurrent, Resume, Exit, Restoring
<1>7. CASE ~Restore
  BY <1>7, Destinations DEF Next, Program, Restoring
<1> QED
  BY <1>3, <1>4, <1>5, <1>6, <1>7 DEF Restore

(* The game state that is saved, or checkpointed, fits the world in memory.*)
SoundInMemory ==
  TypeInv /\ FlagsOfSession /\ ThingsOfSession /\ pc \in InPlay \ Between =>
    \A g \in GameState : g = SavedGame([game EXCEPT !.visited = @ \cup {game.cur}])
                           \/ g = SavedGame(game) =>
      Sound(g, MemoryWorld) /\ HeaderOf(g, MemoryWorld)

LEMMA SoundInMemoryTrue == SoundInMemory
<1> SUFFICES ASSUME TypeInv, FlagsOfSession, ThingsOfSession, pc \in InPlay \ Between,
                    NEW g \in GameState,
                    g = SavedGame([game EXCEPT !.visited = @ \cup {game.cur}])
                      \/ g = SavedGame(game)
             PROVE  Sound(g, MemoryWorld) /\ HeaderOf(g, MemoryWorld)
  BY DEF SoundInMemory
<1>1. pc \in Loaded /\ pc \in InMemory /\ ~Away
  BY DEF InPlay, Session, Between, Loaded, InMemory, Away
<1>2. Playing = MemoryWorld
  BY <1>1 DEF Playing, InMemory
<1>3. /\ HeaderOf(game, MemoryWorld) /\ game.cur \in Levels
      /\ MemoryWorld.levels = game.exists \cup {game.cur}
  BY <1>1, MemoryIsTrue DEF MemoryIs
<1>4. /\ Accounted(MemoryWorld, game.visited \cup {game.cur},
                   game.exists \cup {game.cur} \cup Abroad(game.cur))
      /\ game.exists \subseteq game.visited \cup {game.cur}
      /\ Fits(game, game.exists \cup {game.cur})
  BY <1>1, <1>2 DEF ThingsOfSession, FlagsOfSession
<1>5. game \in GameState
  BY FileTypes
<1>6. /\ g.cur = game.cur /\ g.inv = game.inv /\ g.moves = game.moves
      /\ g.exists \subseteq game.exists /\ g.visited \subseteq game.visited \cup {game.cur}
  BY <1>5 DEF SavedGame, GameState
<1>7. MemoryWorld.cur = game.cur
  BY <1>3 DEF HeaderOf
<1>8. Fits(g, MemoryWorld.levels)
  BY <1>3, <1>4, <1>6 DEF Fits
<1>9. Accounted(MemoryWorld, g.visited \cup MemoryWorld.levels,
                MemoryWorld.levels \cup Abroad(MemoryWorld.cur))
  <2>1. g.visited \cup MemoryWorld.levels \subseteq game.visited \cup {game.cur}
    BY <1>3, <1>4, <1>6
  <2>2. MemoryWorld.levels \cup Abroad(MemoryWorld.cur) =
          game.exists \cup {game.cur} \cup Abroad(game.cur)
    BY <1>3, <1>7
  <2> QED
    BY <1>4, <2>1, <2>2, AccountedWeaker DEF Accounted
<1> QED
  BY <1>3, <1>6, <1>8, <1>9 DEF Sound, HeaderOf

(* The save file being written gets the levels of the world played.        *)
LEMMA SavingKept == ASSUME Steady, Next PROVE Saving'
<1> USE DEF At
<1>1. saving \in World /\ saving.levels \subseteq Levels
  BY DEF Steady, TypeInv, TypeOK, ControlTypes, World
<1>2. TypeInv /\ lfile \in [Levels -> LevelFile] /\ savef \in SaveFile /\ game \in GameState
        /\ hackpid \in Nat /\ here \in SUBSET Things
  BY DEF Steady, TypeInv, TypeOK, DiskTypes, MemoryTypes
<1>3. CASE SaveCurrent
  <2>1. /\ pc = "save_current" /\ saving = MemoryWorld
        /\ UNCHANGED <<lfile, saving, gone>> /\ todo' = game.exists \ {game.cur}
        /\ pc' = "save_levels" /\ game' = [game EXCEPT !.visited = @ \cup {game.cur}]
    BY <1>3 DEF SaveCurrent, Steady, SavingWhatIsPlayed, history
  <2> DEFINE g == SavedGame(game')
             first == [ShortSave EXCEPT !.state = "good", !.game = g]
             f == WholeFile(hackpid, here, game.moves)
  <2>2. savef' = AddLevel(first, game.cur, f)
    BY <1>3 DEF SaveCurrent, SavedState
  <2>3. game' \in GameState /\ g \in GameState
    BY SavedGameType DEF Steady, TypeInv, TypeOK, MemoryTypes
  <2>4. Sound(g, saving) /\ HeaderOf(g, saving)
    BY <1>2, <2>1, <2>3, SoundInMemoryTrue DEF SoundInMemory, Steady, Sane, InPlay, Session,
       Between
  <2>5. f.state = "whole" /\ f.stuff = here
    BY DEF WholeFile
  <2>6. /\ first \in SaveFile /\ first.game = g /\ first.state = "good"
        /\ first.has = {} /\ first.locked = FALSE
    BY <2>3, GoodSaveType DEF ShortSave, NoSave
  <2>7. /\ saving.levels = game.exists \cup {game.cur} /\ game.cur \in Levels
        /\ saving.at[game.cur] = here /\ saving.cur = game.cur
        /\ \A l \in game.exists \ {game.cur} : FiledAs(l, saving)
    BY <1>2, <2>1, MemoryIsTrue DEF MemoryIs, Loaded, HeaderOf
  <2> HIDE DEF g, first, f
  <2>8. /\ savef'.game = g /\ savef'.has = {game.cur} /\ ~savef'.locked
        /\ savef'.state = "good" /\ savef'.stuff[game.cur] = here
    BY <2>2, <2>5, <2>6, <2>7, Appended
  <2>9. SavedPart(saving)'
    BY <2>1, <2>7, <2>8 DEF SavedPart, SavedAs, FiledAs
  <2>10. Sound(savef.game, saving)' /\ HeaderOf(savef.game, saving)'
    BY <2>1, <2>4, <2>8 DEF Sound, Accounted, HeaderOf
  <2>11. todo' = saving'.levels \ savef'.has
    BY <2>1, <2>7, <2>8
  <2> QED
    BY <2>8, <2>9, <2>10, <2>11 DEF Saving, Copying
<1>4. CASE SaveLevel
  <2>1. Copying(saving) /\ UNCHANGED <<saving, gone>>
    BY <1>4 DEF SaveLevel, Steady, Sane, Saving
  <2>2. PICK l \in todo : /\ savef' = AddLevel(savef, l, lfile[l]) /\ todo' = todo \ {l}
                          /\ lfile' = [lfile EXCEPT ![l] = NoFile] /\ OurFile(l)
    BY <1>4 DEF SaveLevel, IsFirst
  <2>3. lfile[l].state = "whole" /\ \A k \in Levels \ {l} : lfile'[k] = lfile[k]
    BY <1>2, <2>2 DEF OurFile
  <2>4. ASSUME NEW w \in World, w = saving PROVE Copying(w)'
    BY <1>2, <2>1, <2>2, <2>3, <2>4, CopyStep
  <2>5. Copying(saving)'
    BY <1>1, <2>1, <2>4 DEF Copying, HeaderOf, SavedPart, SavedAs, FiledAs, Sound, Accounted
  <2> QED
    BY <2>5 DEF Saving
<1>5. CASE Save /\ ~SaveCurrent /\ ~SaveLevel
  BY <1>5 DEF Save, SaveCreate, SaveCreateFails, SaveTricked, SaveClose, SaveUnlinkCurrent,
     SaveUnlinkLock, Exit, Saving
<1>6. CASE ~Save
  BY <1>6, Destinations DEF Next, Program, Saving
<1> QED
  BY <1>3, <1>4, <1>5, <1>6

(* Only a hero who dies ends the game without a file being missed.         *)
LEMMA GameOverKept == ASSUME Steady, Next PROVE GameOver'
<1> USE DEF At, GameOver
<1>1. CASE Die
  BY <1>1 DEF Die, disk, Steady, Unsaved, Single, Session, Restorable
<1>2. CASE Play /\ ~Die
  BY <1>2 DEF Play, PassTurn, SetCheckpointing, IdleCheckpoint, SaveOrHangup, PickUp, Drop,
     OffLevels
<1>3. CASE Checkpoint
  BY <1>3 DEF Steady, Checkpoint, CkptCreate, CkptCreateFails, CkptLevel, CkptLock,
     CkptLockFails, CkptState
<1>4. CASE ChangeLevel
  BY <1>4 DEF Steady, ChangeLevel, GotoLevel, LeaveLevel, DiscardLevel, DiscardMigrations,
     ArriveNew, ArriveBack, ArriveTricked
<1>5. CASE Save
  BY <1>5 DEF Steady, Save, SaveCreate, SaveCreateFails, SaveCurrent, SaveLevel, SaveTricked,
     SaveClose, SaveUnlinkCurrent, SaveUnlinkLock, Exit
<1>6. CASE ClearLevel \/ ClearLock
  BY <1>6 DEF ClearLevel, ClearLock, Exit, Steady, Sane, Restorable, history, count
<1>7. CASE ~(Play \/ Checkpoint \/ ChangeLevel \/ Save \/ ClearLevel \/ ClearLock)
  BY <1>7, Destinations DEF Next, Program
<1> QED
  BY <1>1, <1>2, <1>3, <1>4, <1>5, <1>6, <1>7

(* While nothing is played the kept world stays where it is, unless it was *)
(* in the level files and they are taken away.                             *)
LEMMA RestUndisturbed ==
  ASSUME TypeInv, TypeInv', HistoryProper, AtRest, pc \in Idle, TakenAway,
         \/ kept = NoWorld \/ InSaveFile(kept)
         \/ pc' = "off" /\ UNCHANGED <<lfile, lock0>>
  PROVE  AtRest'
<1> USE DEF At
<1>1. /\ Restorable' <=> Restorable
      /\ InSaveFile(kept)' <=> InSaveFile(kept)
      /\ Sound(savef.game, kept)' <=> Sound(savef.game, kept)
      /\ LevelFilesHold(kept)' =>
           LevelFilesHold(kept) /\ (Sound(lock0.game, kept)' <=> Sound(lock0.game, kept))
  BY KeptUnderRemoval
<1>2. UNCHANGED <<lfile, lock0>> => (LevelFilesHold(kept)' <=> LevelFilesHold(kept))
  BY DEF LevelFilesHold, Stuff, Stamp, TakenAway
<1>3. kept' = kept /\ (lock0' = lock0 \/ lock0'.state # "whole")
  BY DEF TakenAway
<1>4. /\ InSaveFile(kept) => Sound(savef.game, kept)
      /\ LevelFilesHold(kept) => Sound(lock0.game, kept)
      /\ kept = NoWorld => ~Restorable /\ lock0.state # "whole"
      /\ kept # NoWorld => InSaveFile(kept) \/ (pc = "off" /\ LevelFilesHold(kept))
  BY DEF AtRest
<1>5. /\ InSaveFile(kept)' => Sound(savef.game, kept)'
      /\ LevelFilesHold(kept)' => Sound(lock0.game, kept)'
  BY <1>1, <1>4
<1>6. kept' = NoWorld => ~Restorable' /\ lock0'.state # "whole"
  BY <1>1, <1>3, <1>4
<1>7. kept' # NoWorld => InSaveFile(kept)' \/ (pc' = "off" /\ LevelFilesHold(kept)')
  BY <1>1, <1>2, <1>3, <1>4
<1> QED
  BY <1>5, <1>6, <1>7 DEF AtRest

(* A world complete in the save file, and no other in the level files.     *)
LEMMA RestInSaveFile ==
  ASSUME kept' # NoWorld, InSaveFile(kept)', Sound(savef.game, kept)',
         LevelFilesHold(kept)' => Sound(lock0.game, kept)'
  PROVE  AtRest'
BY DEF AtRest

(* An older checkpoint of the world just saved knows no more of it.        *)
LEMMA OlderSound ==
  ASSUME NEW g, NEW h, NEW w, HeaderOf(g, w), HeaderOf(h, w), Sound(h, w),
         Older(g, h.visited, w.levels, w.cur)
  PROVE  Sound(g, w)
<1>1. g.cur = w.cur /\ h.cur = w.cur
  BY DEF HeaderOf
<1>2. g.visited \subseteq h.visited /\ g.exists \subseteq w.levels
  BY <1>1 DEF Older
<1>3. Fits(g, w.levels)
  BY <1>1, <1>2 DEF Sound, Fits
<1>4. Accounted(w, g.visited \cup w.levels, w.levels \cup Abroad(w.cur))
  BY <1>2, AccountedWeaker DEF Sound, Accounted
<1> QED
  BY <1>3, <1>4 DEF Sound

(* At rest after a crash: the kept world is where it was before.           *)
LEMMA AtRestAfterCrash == ASSUME Steady, Crash PROVE AtRest'
<1> USE DEF At
<1>1. /\ pc' = "off" /\ ~atrisk /\ UNCHANGED <<lfile, lock0, savef, kept, gone>>
      /\ pc # "off" /\ pc \in Points
  BY DEF Crash, Exit, disk, Steady, TypeInv, TypeOK, ControlTypes
<1>2. /\ InSaveFile(kept)' <=> InSaveFile(kept)
      /\ LevelFilesHold(kept)' <=> LevelFilesHold(kept)
      /\ Sound(savef.game, kept)' <=> Sound(savef.game, kept)
      /\ Sound(lock0.game, kept)' <=> Sound(lock0.game, kept)
  BY <1>1 DEF InSaveFile, Restorable, SaveWorld, LevelFilesHold, Stuff, Stamp, Sound, Accounted
<1>3. kept \in World /\ Proper(kept) /\ saving \in World /\ Proper(saving) /\ TypeInv
  BY DEF Steady, TypeInv, TypeOK, ControlTypes, HistoryTypes, HistoryProper
<1>4. CASE pc \in Idle
  BY <1>1, <1>4, RestUndisturbed DEF Steady, Sane, TakenAway
<1>5. ASSUME kept # NoWorld, LevelFilesHold(kept), Sound(lock0.game, kept),
             InSaveFile(kept) => Sound(savef.game, kept)
      PROVE  AtRest'
  BY <1>1, <1>2, <1>5 DEF AtRest
<1>6. CASE pc \in {"rec_level", "rec_copy", "util_level"}
  <2>1. /\ kept # NoWorld /\ InLevelFiles(kept) /\ Sound(lock0.game, kept)
        /\ savef.game = lock0.game \/ savef = ShortSave
    BY <1>6 DEF Steady, Sane, Recovering
  <2>2. savef = ShortSave => ~InSaveFile(kept)
    BY DEF ShortSave, NoSave, InSaveFile, Restorable
  <2> QED
    BY <1>5, <2>1, <2>2 DEF InLevelFiles
<1>7. CASE pc \in {"util_state", "util_copy", "rest_create", "rest_write"}
  BY <1>1, <1>7 DEF Steady, Sane, UtilRecovering, Restoring
<1>8. CASE pc \in InPlay
  <2>1. kept # NoWorld /\ LevelFilesHold(kept) /\ Sound(lock0.game, kept)
    BY <1>1, <1>8 DEF Steady, Sane, SafeWithCheckpoint
  <2>2. ~InSaveFile(kept)
    BY <1>8 DEF Steady, Unsaved, Single, InPlay, InSaveFile
  <2> QED
    BY <1>5, <2>1, <2>2
<1>9. CASE pc = "save_levels"
  <2>1. /\ kept # NoWorld /\ LevelFilesHold(kept) /\ Sound(lock0.game, kept)
        /\ kept.levels = saving.levels
    BY <1>1, <1>9 DEF Steady, Sane, SafeWithCheckpoint
  <2>2. Copying(saving)
    BY <1>9 DEF Steady, Sane, Saving
  <2>3. ASSUME InSaveFile(kept) PROVE Sound(savef.game, kept)
    <3>1. HeaderOf(savef.game, kept) /\ kept.levels = savef.has \cup {kept.cur}
      BY <1>3, <2>3, SavedIsTrue DEF SavedIs
    <3>2. todo = {}
      BY <2>1, <2>2, <3>1 DEF Copying, SavedPart, HeaderOf
    <3>3. InSaveFile(saving)
      BY <1>3, <2>2, <3>2, CopyDone
    <3>4. saving = kept
      BY <2>3, <3>3 DEF InSaveFile
    <3> QED
      BY <2>2, <3>4 DEF Copying
  <2> QED
    BY <1>5, <2>1, <2>3
<1>10. CASE pc = "over"
  BY <1>1, <1>10 DEF Steady, Sane, SafeWithCheckpoint, Risky
<1> QED
  BY <1>1, <1>4, <1>6, <1>7, <1>8, <1>9, <1>10 DEF Points, Idle, InPlay, Session

(* At rest: the kept world is in the save file, or in the level files of a *)
(* process that has died.                                                  *)
LEMMA AtRestKept == ASSUME Steady, Next PROVE AtRest'
<1> USE DEF At
<1>1. kept \in World /\ Proper(kept) /\ kept.levels \subseteq Levels
        /\ saving \in World /\ Proper(saving)
  BY DEF Steady, TypeInv, TypeOK, ControlTypes, HistoryTypes, HistoryProper, World
<1>2. TypeInv /\ TypeInv' /\ HistoryProper /\ AtRest /\ lfile \in [Levels -> LevelFile]
  BY DEF Steady, Sane, TypeInv, TypeOK, DiskTypes
<1>3. CASE LockFree \/ RecoverNothing \/ RecoverRefused
  <2>1. /\ pc = "off" /\ UNCHANGED <<lfile, savef, kept, gone>>
        /\ lock0' = lock0 \/ (lock0'.state # "whole" /\ lock0.state = "short")
        /\ (pc' = "off" /\ lock0' = lock0) \/ lock0.state # "whole"
    BY <1>3 DEF LockFree, RecoverNothing, RecoverRefused, NewSession, disk, history,
       RemoveShortLock, NoLock
  <2>2. TakenAway
    BY <2>1 DEF TakenAway
  <2>3. lock0.state # "whole" => kept = NoWorld \/ InSaveFile(kept)
    BY <1>2, <2>1 DEF AtRest, Idle, LevelFilesHold
  <2> QED
    BY <1>2, <2>1, <2>2, <2>3, RestUndisturbed DEF Idle
<1>4. CASE DestroyOldGame
  BY <1>2, <1>4, RestUndisturbed DEF DestroyOldGame, NewSession, Idle, disk, TakenAway,
     Steady
<1>5. CASE EraseLevel \/ EraseLock \/ GotLock
  <2>1. /\ pc \in {"erase", "gotlock"} /\ UNCHANGED <<savef, kept, gone>>
        /\ lock0' = lock0 \/ lock0'.state # "whole"
    BY <1>5 DEF EraseLevel, EraseLock, GotLock, history, NoLock, ShortLock
  <2>2. \A l \in Levels : lfile'[l] = lfile[l] \/ lfile'[l].state # "whole"
    BY <1>2, <1>5 DEF EraseLevel, EraseLock, GotLock, NoFile
  <2> QED
    BY <1>2, <2>1, <2>2, RestUndisturbed DEF Idle, TakenAway, AtRest
<1>6. CASE RecoverLevel \/ UtilLevel
  <2>1. InLevelFiles(kept) /\ lock0.state = "whole"
    BY <1>6 DEF RecoverLevel, UtilLevel, Steady, Sane, Recovering, InLevelFiles, LevelFilesHold
  <2>2. lock0.game.cur = kept.cur /\ lfile[kept.cur].state = "whole"
    BY <1>1, <1>2, <2>1, FiledIsTrue DEF InLevelFiles, FiledIs, HeaderOf
  <2>3. pc' \in {"rec_copy", "util_state"}
    BY <1>6, <2>2 DEF RecoverLevel, UtilLevel
  <2> QED
    BY <2>3 DEF AtRest, Idle
<1>7. CASE RecoverUnlinkLock
  <2>1. /\ kept # NoWorld /\ Copying(kept) /\ todo = {} /\ UNCHANGED <<savef, kept, gone>>
        /\ lock0'.state = "none"
    BY <1>7 DEF RecoverUnlinkLock, Steady, Sane, Recovering, history, NoLock
  <2>2. InSaveFile(kept) /\ Sound(savef.game, kept)
    BY <1>1, <1>2, <2>1, CopyDone DEF Copying
  <2>3. InSaveFile(kept)' /\ Sound(savef.game, kept)' /\ ~LevelFilesHold(kept)'
    BY <2>1, <2>2 DEF InSaveFile, Restorable, SaveWorld, Sound, Accounted, LevelFilesHold
  <2> QED
    BY <2>1, <2>3, RestInSaveFile
<1>8. CASE RecoverUnlink \/ SaveUnlinkCurrent \/ SaveUnlinkLock
  <2>1. /\ pc \in {"rec_erase", "save_unlink", "save_unlock"} /\ UNCHANGED <<savef, kept, gone>>
        /\ lock0' = lock0 \/ lock0'.state # "whole"
    BY <1>8 DEF RecoverUnlink, SaveUnlinkCurrent, SaveUnlinkLock, history, NoLock
  <2>2. \A l \in Levels : lfile'[l] = lfile[l] \/ lfile'[l].state # "whole"
    BY <1>2, <1>8 DEF RecoverUnlink, SaveUnlinkCurrent, SaveUnlinkLock, NoFile
  <2> QED
    BY <1>2, <2>1, <2>2, RestUndisturbed DEF Idle, TakenAway, AtRest
<1>9. CASE RestoreUnreadable
  <2>1. /\ pc = "restore" /\ ~Restorable /\ lock0.state = "short" /\ kept' = kept
        /\ savef' \in {savef, NoSave, [savef EXCEPT !.locked = TRUE]}
        /\ lock0' \in {lock0, NoLock}
    BY <1>9 DEF RestoreUnreadable, Restorable, Steady, NoCheckpointYet, history
  <2>2. kept = NoWorld
    BY <1>2, <2>1 DEF AtRest, Idle, InSaveFile
  <2>3. savef \in SaveFile
    BY <1>2 DEF TypeInv, TypeOK, DiskTypes
  <2>4. ~Restorable'
    BY <2>1, <2>3 DEF Restorable, NoSave, SaveFile
  <2>5. lock0'.state # "whole"
    BY <2>1 DEF NoLock
  <2> QED
    BY <2>1, <2>2, <2>4, <2>5 DEF AtRest, InSaveFile, LevelFilesHold
<1>10. CASE SaveClose
  <2>1. /\ Copying(saving) /\ todo = {} /\ kept' = saving /\ pc = "save_levels"
        /\ UNCHANGED <<lfile, lock0, savef, gone>>
    BY <1>10 DEF SaveClose, disk, Steady, Sane, Saving
  <2>2. InSaveFile(saving) /\ Sound(savef.game, saving) /\ HeaderOf(savef.game, saving)
    BY <1>1, <1>2, <2>1, CopyDone DEF Copying
  <2>3. saving # NoWorld
    <3>1. savef.game.cur \in Levels
      BY <1>2, <2>2 DEF InSaveFile, Restorable, TypeInv, Placed
    <3> QED
      BY <2>2, <3>1 DEF HeaderOf, NoWorld, Levels
  <2>4. ASSUME LevelFilesHold(saving) PROVE Sound(lock0.game, saving)
    <3>1. lock0.state = "whole" /\ HeaderOf(lock0.game, saving)
      BY <1>1, <1>2, <2>4, FiledIsTrue DEF FiledIs
    <3>2. Older(lock0.game, savef.game.visited, saving.levels, saving.cur)
      BY <2>1, <3>1 DEF Steady, Sane, CheckpointOlder
    <3> QED
      BY <2>2, <3>1, <3>2, OlderSound
  <2>5. InSaveFile(kept)' /\ Sound(savef.game, kept)'
    BY <2>1, <2>2 DEF InSaveFile, Restorable, SaveWorld, Sound, Accounted
  <2>6. LevelFilesHold(kept)' => Sound(lock0.game, kept)'
    BY <2>1, <2>4 DEF LevelFilesHold, Stuff, Stamp, Sound, Accounted
  <2> QED
    BY <2>1, <2>3, <2>5, <2>6, RestInSaveFile
<1>11. CASE ClearLock
  <2>1. kept = NoWorld /\ ~Restorable /\ kept' = kept /\ savef' = savef
          /\ lock0'.state = "none"
    BY <1>11 DEF ClearLock, Steady, Sane, GameOver, NoLock
  <2> QED
    BY <2>1 DEF AtRest, InSaveFile, Restorable, LevelFilesHold
<1>12. CASE UtilClose
  <2>1. /\ kept # NoWorld /\ Copying(kept) /\ todo = {}
        /\ UNCHANGED <<savef, lock0, kept, gone>> /\ lock0.state = "none"
    BY <1>12 DEF UtilClose, Steady, Sane, UtilRecovering, disk
  <2>2. InSaveFile(kept) /\ Sound(savef.game, kept)
    BY <1>1, <1>2, <2>1, CopyDone DEF Copying
  <2>3. InSaveFile(kept)' /\ Sound(savef.game, kept)' /\ ~LevelFilesHold(kept)'
    BY <2>1, <2>2 DEF InSaveFile, Restorable, SaveWorld, Sound, Accounted, LevelFilesHold
  <2> QED
    BY <2>1, <2>3, RestInSaveFile
<1>13. CASE Crash
  BY <1>13, AtRestAfterCrash
<1>14. CASE RecoverOpen \/ RecoverCopy \/ UtilOpen \/ UtilState \/ UtilCopy
  BY <1>14 DEF RecoverOpen, RecoverCopy, UtilOpen, UtilState, UtilCopy, AtRest, Idle
<1>15. CASE Restore /\ ~RestoreUnreadable
  BY <1>15 DEF Restore, NewGame, RestoreState, RestoreCreate, RestoreWrite, RestoreCurrent,
     Resume, AtRest, Idle
<1>16. CASE SaveCreate \/ SaveCreateFails \/ SaveCurrent \/ SaveLevel \/ SaveTricked
  BY <1>16 DEF SaveCreate, SaveCreateFails, SaveCurrent, SaveLevel, SaveTricked, AtRest, Idle
<1>17. CASE Checkpoint \/ ChangeLevel \/ Play \/ ClearLevel
  <2>1. pc' \notin Idle
    BY <1>17, Destinations DEF Idle, ClearLevel
  <2> QED
    BY <2>1 DEF AtRest
<1> QED
  BY <1>3, <1>4, <1>5, <1>6, <1>7, <1>8, <1>9, <1>10, <1>11, <1>12, <1>13, <1>14, <1>15,
     <1>16, <1>17 DEF Next, Program, Start, Recover, Save, UtilRecover, Restore

----------------------------------------------------------------------------
(* A game in play.                                                         *)

(* Steps that leave the levels, their files and the things as they are.    *)
Quiet ==
  /\ pc \in InPlay \ Between /\ pc' \in InPlay \ Between
  /\ UNCHANGED <<lfile, here, hackpid, gone>>
  /\ game'.cur = game.cur /\ game'.inv = game.inv
  /\ game'.visited = game.visited /\ game'.exists = game.exists
QuietStep ==
  \/ Resume \/ CkptCreateFails \/ CkptLock \/ CkptState
  \/ PassTurn \/ SetCheckpointing \/ IdleCheckpoint \/ SaveOrHangup
  \/ SaveCreate \/ (SaveCreateFails /\ ~torn')

LEMMA QuietSteps == ASSUME TypeInv, ~torn, QuietStep PROVE Quiet
<1> USE DEF At, InPlay, Session, Between, disk, memory, control, history, count
<1>1. game \in GameState
  BY DEF TypeInv, TypeOK, MemoryTypes
<1>2. CASE Resume \/ IdleCheckpoint \/ SaveOrHangup
  BY <1>2 DEF Quiet, Resume, IdleCheckpoint, SaveOrHangup, OffLevels
<1>3. CASE CkptCreateFails \/ CkptLock \/ CkptState
  BY <1>3 DEF Quiet, CkptCreateFails, CkptLock, CkptState
<1>4. CASE PassTurn \/ SetCheckpointing
  BY <1>1, <1>4 DEF Quiet, PassTurn, SetCheckpointing, OffLevels, GameState
<1>5. CASE SaveCreate \/ (SaveCreateFails /\ ~torn')
  BY <1>5 DEF Quiet, SaveCreate, SaveCreateFails
<1> QED
  BY <1>2, <1>3, <1>4, <1>5 DEF QuietStep

(* The steps that do something to the levels.                              *)
LevelStep ==
  \/ RestoreCurrent \/ CkptCreate \/ CkptLevel
  \/ \E t \in Things : PickUp(t) \/ Drop(t)
  \/ \E l \in Levels : GotoLevel(l)
  \/ LeaveLevel \/ DiscardLevel \/ DiscardMigrations \/ ArriveNew \/ ArriveBack

(* There are no others that a game is in play after.                       *)
LEMMA PlaySteps ==
  ASSUME Steady, Next, pc' \in InPlay PROVE QuietStep \/ LevelStep
<1>1. CASE Start \/ Recover \/ ClearLevel \/ ClearLock \/ UtilRecover \/ Crash
  BY <1>1, Destinations DEF InPlay, Session
<1>2. CASE Restore
  BY <1>2 DEF Steady, Restore, RestoreUnreadable, RestoreState, RestoreCreate, RestoreWrite,
     Exit, InPlay, Session, QuietStep, LevelStep
<1>3. CASE Checkpoint \/ ChangeLevel
  BY <1>3 DEF Steady, Checkpoint, ChangeLevel, CkptLockFails, ArriveTricked, QuietStep,
     LevelStep
<1>4. CASE Save
  BY <1>4 DEF Steady, Save, SaveCurrent, SaveLevel, SaveTricked, SaveClose,
     SaveUnlinkCurrent, SaveUnlinkLock, Exit, At, InPlay, Session, QuietStep, LevelStep
<1>5. CASE Play
  BY <1>5 DEF Play, Die, InPlay, Session, QuietStep, LevelStep
<1> QED
  BY <1>1, <1>2, <1>3, <1>4, <1>5 DEF Next, Program

(* What the last step of a restore finds, and leaves.                      *)
RestoredWhole ==
  /\ kept \in World /\ Proper(kept) /\ Sound(savef.game, kept) /\ HeaderOf(game, kept)
  /\ game.exists \cup {game.cur} = kept.levels /\ game.cur = kept.cur
  /\ savef.has \subseteq game.exists \cap game.visited
  /\ game.exists \subseteq savef.has \cup {game.cur}
  /\ game.visited \subseteq savef.game.visited \cup kept.levels
  /\ savef.game.cur = game.cur
  /\ \A l \in kept.levels \ {game.cur} :
       /\ OurFile(l) /\ lfile[l].stuff = kept.at[l] /\ lfile[l].stamp = kept.left[l]
  /\ savef.stuff[game.cur] = kept.at[game.cur]

LEMMA RestoreEnds == ASSUME Steady, RestoreCurrent PROVE RestoredWhole
<1> USE DEF At
<1>1. /\ Restoring /\ pc = "rest_create" /\ todo = {} /\ kept \in World /\ Proper(kept)
      /\ game.cur \in Levels
  BY DEF Steady, Sane, TypeInv, TypeOK, HistoryTypes, HistoryProper, RestoreCurrent, Placed,
     Loaded
<1>2. /\ SaveWorld = kept /\ Sound(savef.game, kept) /\ HeaderOf(game, kept)
      /\ savef.has \subseteq game.exists \cap game.visited
      /\ game.exists \subseteq kept.levels
      /\ game.visited \subseteq savef.game.visited \cup kept.levels
      /\ \A l \in savef.has :
           /\ OurFile(l) /\ lfile[l].stuff = savef.stuff[l]
           /\ l # game.cur => lfile[l].stamp = savef.stamp[l]
  BY <1>1 DEF Restoring
<1>3. /\ kept.cur = savef.game.cur /\ kept.levels = savef.has \cup {kept.cur}
      /\ \A l \in Levels :
           /\ kept.at[l] = IF l \in kept.levels THEN savef.stuff[l] ELSE {}
           /\ kept.left[l] = IF l \in savef.has \ {kept.cur} THEN savef.stamp[l] ELSE 0
  BY <1>2, WorldFields DEF SaveWorld
<1>4. game.cur = kept.cur
  BY <1>2 DEF HeaderOf
<1>5. kept.levels \subseteq Levels
  BY <1>1 DEF World
<1> QED
  BY <1>1, <1>2, <1>3, <1>4, <1>5 DEF RestoredWhole

(* The game state, field by field, as each of these steps leaves it; all   *)
(* but one level's file are left as they are.                              *)
SameFlags == game'.visited = game.visited /\ game'.exists = game.exists
OnlyFile(c) == \A l \in Levels \ {c} : lfile'[l] = lfile[l]

LEMMA CkptCreateDoes ==
  ASSUME TypeInv, CkptCreate
  PROVE  /\ pc = "ckpt" /\ pc' = "ckpt_level" /\ atrisk' /\ game.chk /\ game'.chk
         /\ game'.cur = game.cur /\ game'.inv = game.inv /\ game'.visited = game.visited
         /\ game'.exists = game.exists \cup {game.cur}
         /\ OnlyFile(game.cur) /\ lfile'[game.cur] = ShortFile
         /\ UNCHANGED <<lock0, savef, here, hackpid, kept, gone>>
BY DEF CkptCreate, At, OnlyFile, TypeInv, TypeOK, MemoryTypes, DiskTypes, Placed, Loaded,
   GameState, control

LEMMA CkptLevelDoes ==
  ASSUME TypeInv, CkptLevel
  PROVE  /\ pc = "ckpt_level" /\ pc' = "ckpt_lock"
         /\ game'.cur = game.cur /\ game'.inv = game.inv /\ game'.chk = game.chk
         /\ game'.visited = game.visited \cup {game.cur} /\ game'.exists = game.exists
         /\ game'.moves = game.moves
         /\ OnlyFile(game.cur) /\ lfile'[game.cur] = WholeFile(hackpid, here, game.moves)
         /\ UNCHANGED <<lock0, savef, here, hackpid, kept, gone, atrisk>>
BY DEF CkptLevel, At, OnlyFile, TypeInv, TypeOK, MemoryTypes, DiskTypes, Placed, Loaded,
   GameState, control, history

LEMMA PickUpDoes ==
  ASSUME TypeInv, NEW t \in Things, PickUp(t)
  PROVE  /\ pc = "play" /\ pc' = "play" /\ t \in here /\ here' = here \ {t}
         /\ game'.cur = game.cur /\ game'.inv = game.inv \cup {t} /\ SameFlags
         /\ UNCHANGED <<disk, hackpid, history>>
BY DEF PickUp, At, OffLevels, SameFlags, TypeInv, TypeOK, MemoryTypes, GameState, disk, history

LEMMA DropDoes ==
  ASSUME TypeInv, NEW t \in Things, Drop(t)
  PROVE  /\ pc = "play" /\ pc' = "play" /\ t \in game.inv /\ here' = here \cup {t}
         /\ game'.cur = game.cur /\ game'.inv = game.inv \ {t} /\ SameFlags
         /\ UNCHANGED <<disk, hackpid, history>>
BY DEF Drop, At, OffLevels, SameFlags, TypeInv, TypeOK, MemoryTypes, GameState, disk, history

LEMMA GotoLevelDoes ==
  ASSUME TypeInv, NEW l \in Levels, GotoLevel(l)
  PROVE  /\ pc = "play" /\ pc' = "leave" /\ atrisk' /\ dest' = l /\ l # game.cur
         /\ game.cur \in EndLevels => l \in EndLevels
         /\ dogs' \subseteq here /\ here' = here \ dogs'
         /\ game'.cur = game.cur /\ game'.inv = game.inv /\ game'.visited = game.visited
         /\ game'.exists = game.exists \cup {game.cur}
         /\ OnlyFile(game.cur) /\ lfile'[game.cur] = ShortFile
         /\ UNCHANGED <<lock0, savef, hackpid, kept, gone>>
BY DEF GotoLevel, StayBehind, At, OnlyFile, TypeInv, TypeOK, MemoryTypes, DiskTypes, Placed,
   Loaded, GameState

LEMMA LeaveLevelDoes ==
  ASSUME TypeInv, LeaveLevel
  PROVE  /\ pc = "leave" /\ here' = {}
         /\ UNCHANGED <<lock0, savef, hackpid, kept, atrisk, dogs, dest>>
         /\ game'.cur = game.cur /\ game'.inv = game.inv /\ game'.exists = game.exists
         /\ IF CantGoBack
            THEN /\ pc' = "discard" /\ gone' = gone \cup here /\ todo' = game.exists
                 /\ UNCHANGED <<lfile, game>>
            ELSE /\ pc' = "arrive" /\ gone' = gone
                 /\ game'.visited = game.visited \cup {game.cur}
                 /\ OnlyFile(game.cur)
                 /\ lfile'[game.cur] = WholeFile(hackpid, here, game.moves)
BY DEF LeaveLevel, At, OnlyFile, TypeInv, TypeOK, MemoryTypes, DiskTypes, Placed,
   Loaded, GameState

LEMMA DiscardLevelDoes ==
  ASSUME TypeInv, DiscardLevel
  PROVE  \E l \in todo :
         /\ pc = "discard" /\ pc' = "discard" /\ todo' = todo \ {l}
         /\ game'.cur = game.cur /\ game'.inv = game.inv /\ game'.visited = game.visited
         /\ game'.exists = game.exists \ {l} /\ gone' = gone \cup lfile[l].stuff
         /\ OnlyFile(l) /\ lfile'[l] = NoFile
         /\ UNCHANGED <<lock0, savef, hackpid, kept, atrisk, dogs, dest>>
<1>1. PICK l \in Levels : /\ IsLast(l, todo) /\ gone' = gone \cup lfile[l].stuff
                          /\ lfile' = [lfile EXCEPT ![l] = NoFile]
                          /\ Deleted(l) /\ todo' = todo \ {l}
  BY DEF DiscardLevel
<1>2. game'.cur = game.cur /\ game'.inv = game.inv /\ game'.visited = game.visited
        /\ game'.exists = game.exists \ {l}
  BY <1>1 DEF Deleted, TypeInv, TypeOK, MemoryTypes, GameState
<1>3. l \in todo /\ OnlyFile(l) /\ lfile'[l] = NoFile
  BY <1>1 DEF IsLast, OnlyFile, TypeInv, TypeOK, DiskTypes
<1>4. /\ pc = "discard" /\ pc' = "discard"
      /\ UNCHANGED <<lock0, savef, hackpid, kept, atrisk, dogs, dest>>
  BY DEF DiscardLevel, At
<1> QED
  BY <1>1, <1>2, <1>3, <1>4

LEMMA DiscardMigrationsDoes ==
  ASSUME TypeInv, DiscardMigrations
  PROVE  \E lost \in SUBSET game.inv :
         /\ pc = "discard" /\ pc' = "arrive" /\ todo = {}
         /\ game'.cur = game.cur /\ game'.inv = game.inv \ lost /\ gone' = gone \cup lost
         /\ SameFlags /\ UNCHANGED <<disk, hackpid, dogs, dest, kept, atrisk>>
BY DEF DiscardMigrations, At, SameFlags, TypeInv, TypeOK, MemoryTypes, GameState, control

LEMMA ArriveNewDoes ==
  ASSUME TypeInv, ArriveNew
  PROVE  /\ pc = "arrive" /\ pc' = "ckpt" /\ dest \notin game.exists /\ dest \in Levels
         /\ game'.cur = dest /\ game'.inv = game.inv
         /\ game'.visited = game.visited \ {dest} /\ game'.exists = game.exists
         /\ here' = Native[dest] \cup dogs
         /\ UNCHANGED <<disk, hackpid, history>>
BY LevelsAreNumbers DEF ArriveNew, At, TypeInv, TypeOK, MemoryTypes, GameState, Placed,
   ControlTypes

LEMMA ArriveBackDoes ==
  ASSUME TypeInv, ArriveBack
  PROVE  /\ pc = "arrive" /\ pc' = "ckpt" /\ dest \in game.exists /\ dest \in Levels
         /\ game'.cur = dest /\ game'.inv = game.inv /\ SameFlags
         /\ here' = lfile[dest].stuff \cup dogs
         /\ UNCHANGED <<disk, hackpid, history>>
BY LevelsAreNumbers DEF ArriveBack, At, SameFlags, TypeInv, TypeOK, MemoryTypes, GameState,
   Placed, ControlTypes

(* The game that is resumed is the kept world, all of it.                  *)
LEMMA ResumedKept == ASSUME Steady, Next PROVE Resumed'
<1> USE DEF At
<1>1. CASE RestoreCurrent
  <2>1. RestoredWhole
    BY <1>1, RestoreEnds
  <2>2. /\ here' = savef.stuff[game.cur] /\ UNCHANGED <<lfile, game, kept>>
    BY <1>1 DEF RestoreCurrent
  <2> DEFINE at == [Stuff(lfile) EXCEPT ![game.cur] = here]
  <2>3. TypeInv' /\ game \in GameState /\ game.exists \in SUBSET Levels
          /\ game.cur \in Levels
    BY <1>1, FileTypes DEF Steady, TypeInv, Placed, RestoreCurrent, Loaded, At
  <2>4. /\ Stuff(lfile) \in [Levels -> SUBSET Things] /\ Stamp(lfile) \in [Levels -> Nat]
        /\ at' \in [Levels -> SUBSET Things]
        /\ \A l \in Levels : Stuff(lfile)[l] = lfile[l].stuff /\ Stamp(lfile)[l] = lfile[l].stamp
    <3>1. here' \in SUBSET Things
      BY <2>3 DEF TypeInv, TypeOK, MemoryTypes
    <3>2. Stuff(lfile)' = Stuff(lfile)
      BY <2>2 DEF Stuff
    <3>3. Stuff(lfile) \in [Levels -> SUBSET Things] /\ Stamp(lfile) \in [Levels -> Nat]
      BY FileTypes DEF Steady
    <3> QED
      BY <2>2, <3>1, <3>2, <3>3 DEF Stuff, Stamp
  <2>5. at'[game.cur] = kept.at[game.cur]
          /\ \A l \in kept.levels \ {game.cur} : at'[l] = kept.at[l]
    <3>1. Stuff(lfile)' = Stuff(lfile) /\ kept.levels \subseteq Levels
      BY <2>1, <2>2 DEF Stuff, RestoredWhole, World
    <3> QED
      BY <2>1, <2>2, <2>3, <2>4, <3>1 DEF RestoredWhole
  <2>6. MemoryWorld' = WorldOf(game, game.exists, at', Stamp(lfile))
    BY <2>2 DEF MemoryWorld, Stamp
  <2> HIDE DEF at
  <2>7. \A l \in kept.levels \ {game.cur} : Stamp(lfile)[l] = kept.left[l]
    BY <2>1, <2>4 DEF RestoredWhole, World
  <2>8. Agree(game, game.exists, at', Stamp(lfile), kept)
    BY <2>1, <2>5, <2>7 DEF Agree, RestoredWhole
  <2>9. MemoryWorld' = kept
    BY <2>1, <2>3, <2>4, <2>6, <2>8, WorldIs DEF RestoredWhole
  <2> QED
    BY <2>2, <2>9 DEF Resumed
<1>2. CASE ~RestoreCurrent
  <2>1. pc' # "resumed"
    BY <1>2, Destinations DEF Steady, Next, Program, Restore, RestoreUnreadable, RestoreState,
       RestoreCreate, RestoreWrite, Resume, Exit
  <2> QED
    BY <2>1 DEF Resumed
<1> QED
  BY <1>1, <1>2

(* The levels said to be on disk have files of this session.               *)
LEMMA FilesOfSessionKept == ASSUME Steady, Next PROVE FilesOfSession'
<1> USE DEF At
<1> SUFFICES ASSUME pc' \in InPlay, pc' # "discard", NEW l \in game'.exists
             PROVE  OurFile(l)' \/ (l = game'.cur /\ pc' # "arrive")
  BY DEF FilesOfSession
<1>1. TypeInv /\ ~torn /\ game'.exists \subseteq Levels
        /\ lfile \in [Levels -> LevelFile] /\ hackpid \in Nat
  BY FileTypes DEF Steady, TypeInv, TypeOK, DiskTypes, MemoryTypes, GameState
<1>2. pc \in InPlay /\ pc # "discard" /\ l \in game.exists =>
        OurFile(l) \/ (l = game.cur /\ pc # "arrive")
  BY DEF Steady, Sane, FilesOfSession
<1>3. CASE QuietStep
  BY <1>1, <1>2, <1>3, QuietSteps DEF Steady, Quiet, Between, OurFile
<1>4. CASE RestoreCurrent
  <2>1. RestoredWhole /\ UNCHANGED <<lfile, game, hackpid>> /\ pc' = "resumed"
    BY <1>4, RestoreEnds DEF RestoreCurrent
  <2> QED
    BY <2>1 DEF RestoredWhole, OurFile
<1>5. CASE CkptCreate
  BY <1>1, <1>2, <1>5, CkptCreateDoes DEF OnlyFile, OurFile, InPlay, Session
<1>6. CASE CkptLevel
  BY <1>1, <1>2, <1>6, CkptLevelDoes DEF OnlyFile, OurFile, InPlay, Session
<1>7. CASE \E t \in Things : PickUp(t) \/ Drop(t)
  BY <1>1, <1>2, <1>7, PickUpDoes, DropDoes DEF SameFlags, OurFile, InPlay, Session, disk
<1>8. CASE \E k \in Levels : GotoLevel(k)
  BY <1>1, <1>2, <1>8, GotoLevelDoes DEF OnlyFile, OurFile, InPlay, Session
<1>9. CASE LeaveLevel
  BY <1>1, <1>2, <1>9, LeaveLevelDoes DEF OnlyFile, OurFile, InPlay, Session, WholeFile
<1>10. CASE DiscardLevel
  BY <1>1, <1>10, DiscardLevelDoes
<1>11. CASE DiscardMigrations
  <2>1. game.exists = {}
    BY <1>1, <1>11, DiscardMigrationsDoes DEF Steady, Sane, Travelling
  <2> QED
    BY <1>1, <1>11, <2>1, DiscardMigrationsDoes DEF SameFlags
<1>12. CASE ArriveNew
  BY <1>1, <1>2, <1>12, ArriveNewDoes DEF OurFile, InPlay, Session, disk
<1>13. CASE ArriveBack
  BY <1>1, <1>2, <1>13, ArriveBackDoes DEF OurFile, InPlay, Session, disk, SameFlags
<1> QED
  BY <1>3, <1>4, <1>5, <1>6, <1>7, <1>8, <1>9, <1>10, <1>11, <1>12, <1>13, PlaySteps
     DEF LevelStep

(* Where the hero comes from fits where he goes.                           *)
LEMMA TravellingKept == ASSUME Steady, Next PROVE Travelling'
<1> USE DEF At
<1>1. TypeInv /\ TypeInv' /\ ~torn
  BY DEF Steady
<1> SUFFICES ASSUME pc' \in Between PROVE Travelling'
  BY DEF Travelling, Between
<1>2. CASE \E k \in Levels : GotoLevel(k)
  <2>1. PICK k \in Levels : GotoLevel(k)
    BY <1>2
  <2>2. here \cap game.inv = {}
    <3>1. pc = "play" /\ game.cur \in Levels
      BY <1>1, <2>1, GotoLevelDoes DEF TypeInv, Placed, Loaded
    <3>2. AccountedIn(PlayInv, PlayAt, gone, game.visited \cup {game.cur}, PlayOrigin)
      BY <1>1, <3>1, ThingsIsTrue DEF ThingsIs, Steady, Sane, ThingsOfSession, InPlay, Session,
         PlayOrigin
    <3>3. PlayInv = game.inv /\ PlayAt[game.cur] = here
      BY <3>1 DEF PlayInv, PlayAt, Between
    <3>4. here \subseteq Things /\ game.inv \subseteq Things
      BY <1>1 DEF TypeInv, TypeOK, MemoryTypes, GameState
    <3> QED
      BY <3>1, <3>2, <3>3, <3>4 DEF AccountedIn
  <2> QED
    BY <1>1, <2>1, <2>2, GotoLevelDoes DEF Travelling, Away, ShortFile, NoFile
<1>3. CASE LeaveLevel
  <2>1. pc = "leave" /\ Travelling
    BY <1>1, <1>3, LeaveLevelDoes DEF Steady, Sane
  <2> QED
    BY <1>1, <1>3, <2>1, LeaveLevelDoes DEF Travelling, Away, CantGoBack
<1>4. CASE DiscardLevel
  <2>1. PICK l \in todo :
         /\ pc = "discard" /\ pc' = "discard" /\ todo' = todo \ {l}
         /\ game'.cur = game.cur /\ game'.inv = game.inv
         /\ game'.exists = game.exists \ {l} /\ OnlyFile(l) /\ lfile'[l] = NoFile
         /\ UNCHANGED <<dogs, dest>>
    BY <1>1, <1>4, DiscardLevelDoes
  <2>2. Travelling /\ Away
    BY <2>1 DEF Steady, Sane, Travelling, Away
  <2>3. game.cur \in Levels
    BY <1>1, <2>1 DEF TypeInv, Placed, Loaded
  <2>4. lfile'[game'.cur].stuff = {}
    BY <2>1, <2>2, <2>3 DEF OnlyFile, NoFile, Travelling
  <2> QED
    BY <2>1, <2>2, <2>4 DEF Travelling, Away, CantGoBack
<1>5. CASE DiscardMigrations
  <2>1. /\ pc = "discard" /\ pc' = "arrive" /\ todo = {} /\ game'.inv \subseteq game.inv
        /\ game'.cur = game.cur /\ SameFlags /\ UNCHANGED <<disk, dogs, dest>>
    BY <1>1, <1>5, DiscardMigrationsDoes
  <2>2. Travelling /\ Away
    BY <2>1 DEF Steady, Sane, Travelling, Away
  <2> QED
    BY <2>1, <2>2 DEF Travelling, Away, CantGoBack, SameFlags, disk
<1>6. CASE QuietStep
  BY <1>1, <1>6, QuietSteps DEF Steady, Quiet
<1>7. CASE RestoreCurrent \/ CkptCreate \/ CkptLevel \/ ArriveNew \/ ArriveBack
             \/ \E t \in Things : PickUp(t) \/ Drop(t)
  BY <1>1, <1>7, CkptCreateDoes, CkptLevelDoes, ArriveNewDoes, ArriveBackDoes, PickUpDoes,
     DropDoes DEF RestoreCurrent, Between
<1>8. pc' \in InPlay
  BY DEF Between, InPlay, Session
<1> QED
  BY <1>2, <1>3, <1>4, <1>5, <1>6, <1>7, <1>8, PlaySteps DEF LevelStep

(* level_info[] never forgets a level visited, nor invents one, except on  *)
(* the other side of the endgame.                                          *)
LEMMA FlagsOfSessionKept == ASSUME Steady, Next PROVE FlagsOfSession'
<1> USE DEF At
<1>1. TypeInv /\ ~torn /\ FlagsOfSession
  BY DEF Steady, Sane
<1> SUFFICES ASSUME pc' \in InPlay PROVE FlagsOfSession'
  BY DEF FlagsOfSession
<1>2. ASSUME pc \in InPlay \ {"discard", "arrive"}, pc' \in InPlay \ {"discard", "arrive"},
             game'.cur = game.cur, game'.visited \in {game.visited, game.visited \cup {game.cur}},
             game'.exists \in {game.exists, game.exists \cup {game.cur}}
      PROVE  FlagsOfSession'
  <2>1. ~Away /\ ~Away'
    BY <1>2 DEF Away
  <2> QED
    BY <1>1, <1>2, <2>1 DEF FlagsOfSession, Fits
<1>3. CASE QuietStep
  <2>1. Quiet
    BY <1>1, <1>3, QuietSteps
  <2> QED
    BY <1>2, <2>1 DEF Quiet, Between
<1>4. CASE RestoreCurrent
  <2>1. RestoredWhole /\ UNCHANGED game /\ pc' = "resumed"
    BY <1>4, RestoreEnds DEF RestoreCurrent
  <2>2. ~Away'
    BY <2>1 DEF Away
  <2> QED
    BY <2>1, <2>2 DEF RestoredWhole, FlagsOfSession, Fits, Sound
<1>5. CASE CkptCreate \/ CkptLevel
  BY <1>1, <1>2, <1>5, CkptCreateDoes, CkptLevelDoes DEF InPlay, Session
<1>6. CASE \E t \in Things : PickUp(t) \/ Drop(t)
  BY <1>1, <1>2, <1>6, PickUpDoes, DropDoes DEF SameFlags, InPlay, Session
<1>7. CASE \E k \in Levels : GotoLevel(k)
  BY <1>1, <1>2, <1>7, GotoLevelDoes DEF InPlay, Session
<1>8. CASE LeaveLevel
  <2>1. /\ pc = "leave" /\ dest' = dest /\ game'.cur = game.cur
        /\ game'.exists = game.exists
        /\ IF CantGoBack THEN pc' = "discard" /\ game' = game
                         ELSE pc' = "arrive" /\ game'.visited = game.visited \cup {game.cur}
    BY <1>1, <1>8, LeaveLevelDoes
  <2>2. ~Away /\ (Away' <=> CantGoBack)
    BY <2>1 DEF Away, CantGoBack
  <2>3. /\ game.exists \subseteq game.visited \cup {game.cur}
        /\ Fits(game, game.exists \cup {game.cur})
    BY <1>1, <2>1, <2>2 DEF FlagsOfSession, InPlay, Session
  <2>4. CASE CantGoBack
    BY <2>1, <2>2, <2>3, <2>4 DEF FlagsOfSession, Fits, Abroad, CantGoBack
  <2>5. CASE ~CantGoBack
    BY <2>1, <2>2, <2>3, <2>5 DEF FlagsOfSession, Fits
  <2> QED
    BY <2>4, <2>5
<1>9. CASE DiscardLevel \/ DiscardMigrations
  <2>1. /\ pc = "discard" /\ pc' \in {"discard", "arrive"} /\ dest' = dest
        /\ game'.cur = game.cur /\ game'.visited = game.visited
        /\ game'.exists \subseteq game.exists
    BY <1>1, <1>9, DiscardLevelDoes, DiscardMigrationsDoes DEF SameFlags
  <2>2. Away /\ Away'
    BY <2>1 DEF Steady, Sane, Travelling, Away, CantGoBack
  <2> QED
    BY <1>1, <2>1, <2>2 DEF FlagsOfSession, InPlay
<1>10. CASE ArriveNew \/ ArriveBack
  <2>1. /\ pc = "arrive" /\ pc' = "ckpt" /\ dest \in Levels
        /\ game'.cur = dest /\ game'.exists = game.exists
        /\ IF dest \in game.exists THEN game'.visited = game.visited
                                   ELSE game'.visited = game.visited \ {dest}
    BY <1>1, <1>10, ArriveNewDoes, ArriveBackDoes DEF SameFlags
  <2>2. ~Away' /\ (Away <=> CantGoBack)
    BY <2>1 DEF Away
  <2>3. /\ dest # game.cur /\ (game.cur \in EndLevels => dest \in EndLevels)
        /\ ~Away => game.cur \in game.exists \cap game.visited
        /\ Away => game.exists = {}
    BY <2>1 DEF Steady, Sane, Travelling
  <2>4. /\ game.exists \subseteq game.visited \cup {game.cur}
        /\ IF Away THEN (game.visited \cup game.exists \cup {game.cur}) \cap EndLevels = {}
                   ELSE Fits(game, game.exists \cup {game.cur})
    BY <1>1, <2>1 DEF FlagsOfSession, InPlay, Session
  <2>5. game.visited \subseteq Levels
    BY <1>1, FileTypes
  <2>6. CASE Away
    BY <2>1, <2>2, <2>3, <2>4, <2>5, <2>6 DEF FlagsOfSession, Fits, Abroad, CantGoBack
  <2>7. CASE ~Away
    BY <2>1, <2>2, <2>3, <2>4, <2>7 DEF FlagsOfSession, Fits, Abroad, CantGoBack
  <2> QED
    BY <2>6, <2>7
<1> QED
  BY <1>3, <1>4, <1>5, <1>6, <1>7, <1>8, <1>9, <1>10, PlaySteps DEF LevelStep

(* The current level of a checkpoint being made is in its file.            *)
LEMMA CheckpointingKept == ASSUME Steady, Next PROVE Checkpointing'
<1> USE DEF At
<1>1. TypeInv /\ ~torn /\ Checkpointing /\ game \in GameState
  BY DEF Steady, Sane, TypeInv, TypeOK, MemoryTypes
<1>2. CASE CkptCreate
  BY <1>1, <1>2, CkptCreateDoes DEF Checkpointing
<1>3. CASE CkptLevel
  BY <1>1, <1>3, CkptLevelDoes DEF Checkpointing
<1>4. CASE CkptLock
  BY <1>1, <1>4 DEF Checkpointing, CkptLock, control
<1>5. CASE ~(CkptCreate \/ CkptLevel \/ CkptLock)
  <2>1. pc' \notin {"ckpt_level", "ckpt_lock", "ckpt_state"}
    BY <1>5, Destinations DEF Next, Program, Checkpoint, CkptCreateFails, CkptLockFails,
       CkptState
  <2> QED
    BY <2>1 DEF Checkpointing
<1> QED
  BY <1>2, <1>3, <1>4, <1>5

(* Every thing stays in one place, as levels are entered, left, written,   *)
(* read and discarded.                                                     *)
AllAccounted ==
  AccountedIn(PlayInv, PlayAt, gone, game.visited \cup {game.cur}, PlayOrigin)

LEMMA ThingsAre ==
  ASSUME Steady
  PROVE  /\ pc \in InPlay => AllAccounted
         /\ pc' \in InPlay /\ AllAccounted' => ThingsOfSession'
<1>1. pc \in InPlay => AllAccounted
  BY ThingsIsTrue DEF ThingsIs, Steady, Sane, ThingsOfSession, PlayOrigin, AllAccounted
<1>2. pc' \in InPlay /\ AllAccounted' => ThingsOfSession'
  BY ThingsIsNext DEF ThingsIs, Steady, ThingsOfSession, PlayOrigin, AllAccounted
<1> QED
  BY <1>1, <1>2

(* The things stay where they are.                                         *)
LEMMA ThingsUnmoved ==
  ASSUME AllAccounted, PlayInv' = PlayInv, \A l \in Levels : PlayAt'[l] = PlayAt[l],
         gone' = gone,
         game'.visited \cup {game'.cur} \subseteq game.visited \cup {game.cur},
         PlayOrigin \subseteq PlayOrigin'
  PROVE  AllAccounted'
BY AccountedSame, AccountedWeaker DEF AllAccounted

LEMMA LeaveLevelThings == ASSUME Steady, LeaveLevel PROVE AllAccounted'
<1> USE DEF At
<1>1. TypeInv /\ game.cur \in Levels /\ game.exists \subseteq Levels
  BY FileTypes DEF Steady, TypeInv, Placed, LeaveLevel, Loaded
<1>2. /\ pc = "leave" /\ pc' \in {"discard", "arrive"} /\ UNCHANGED <<dogs, dest>>
      /\ game'.cur = game.cur /\ game'.inv = game.inv /\ game'.exists = game.exists
      /\ IF CantGoBack
         THEN gone' = gone \cup here /\ UNCHANGED <<lfile, game>>
         ELSE /\ gone' = gone /\ game'.visited = game.visited \cup {game.cur}
              /\ OnlyFile(game.cur) /\ lfile'[game.cur].stuff = here
  BY <1>1, LeaveLevelDoes DEF WholeFile
<1>3. AllAccounted /\ lfile[game.cur].stuff = {} /\ ~Away /\ (Away' <=> CantGoBack)
  BY <1>2, ThingsAre DEF InPlay, Session, Steady, Sane, Travelling, Away, CantGoBack
<1>4. Fits(game, game.exists \cup {game.cur})
  BY <1>2, <1>3 DEF Steady, Sane, FlagsOfSession, InPlay, Session
<1>5. PlayInv' = PlayInv /\ PlayAt[game.cur] = here
  BY <1>1, <1>2 DEF PlayInv, PlayAt, Between
<1>6. CASE CantGoBack
  <2>1. PlayAt'[game.cur] = {} /\ \A l \in Levels \ {game.cur} : PlayAt'[l] = PlayAt[l]
    BY <1>1, <1>2, <1>3, <1>6 DEF PlayAt
  <2>2. AccountedIn(PlayInv, PlayAt', gone \cup here, game.visited \cup {game.cur}, PlayOrigin)
    BY <1>1, <1>3, <1>5, <2>1, LevelLost DEF AllAccounted
  <2>3. PlayOrigin \subseteq PlayOrigin'
    BY <1>1, <1>3, <1>4, <1>6 DEF PlayOrigin, Abroad, CantGoBack, Fits
  <2> QED
    BY <1>2, <1>5, <1>6, <2>2, <2>3, AccountedWeaker DEF AllAccounted
<1>7. CASE ~CantGoBack
  <2>1. \A l \in Levels : PlayAt'[l] = PlayAt[l]
    BY <1>1, <1>2, <1>7 DEF PlayAt, OnlyFile
  <2>2. PlayOrigin \subseteq PlayOrigin'
    BY <1>2, <1>3, <1>7 DEF PlayOrigin
  <2> QED
    BY <1>2, <1>3, <1>5, <1>7, <2>1, <2>2, ThingsUnmoved
<1> QED
  BY <1>6, <1>7

LEMMA DiscardThings ==
  ASSUME Steady, DiscardLevel \/ DiscardMigrations PROVE AllAccounted'
<1> USE DEF At
<1>1. TypeInv /\ todo \subseteq Levels /\ game.cur \in Levels /\ pc = "discard"
  BY DEF Steady, TypeInv, TypeOK, ControlTypes, Placed, Loaded, DiscardLevel, DiscardMigrations
<1>2. AllAccounted /\ Away /\ game.exists = todo /\ dogs \cap game.inv = {}
        /\ lfile[game.cur].stuff = {}
  BY <1>1, ThingsAre DEF InPlay, Steady, Sane, Travelling, Away
<1>3. CASE DiscardLevel
  <2>1. PICK l \in todo :
         /\ pc' = "discard"
         /\ game'.cur = game.cur /\ game'.inv = game.inv /\ game'.visited = game.visited
         /\ game'.exists = game.exists \ {l} /\ gone' = gone \cup lfile[l].stuff
         /\ OnlyFile(l) /\ lfile'[l] = NoFile /\ UNCHANGED <<dogs, dest>>
    BY <1>1, <1>3, DiscardLevelDoes
  <2>2. l \in Levels /\ PlayAt[l] = lfile[l].stuff /\ PlayAt'[l] = {}
    BY <1>1, <1>2, <2>1 DEF PlayAt, NoFile
  <2>3. \A k \in Levels \ {l} : PlayAt'[k] = PlayAt[k]
    BY <1>1, <2>1 DEF PlayAt, OnlyFile
  <2>4. PlayInv' = PlayInv /\ PlayOrigin' = PlayOrigin
    BY <1>1, <1>2, <2>1 DEF PlayInv, PlayOrigin, Away, CantGoBack, Between
  <2>5. AccountedIn(PlayInv, PlayAt', gone \cup lfile[l].stuff, game.visited \cup {game.cur},
                    PlayOrigin)
    BY <1>2, <2>2, <2>3, LevelLost DEF AllAccounted
  <2> QED
    BY <2>1, <2>4, <2>5 DEF AllAccounted
<1>4. CASE DiscardMigrations
  <2>1. PICK lost \in SUBSET game.inv :
         /\ pc' = "arrive"
         /\ game'.cur = game.cur /\ game'.inv = game.inv \ lost /\ gone' = gone \cup lost
         /\ SameFlags /\ UNCHANGED <<disk, dogs, dest>>
    BY <1>1, <1>4, DiscardMigrationsDoes
  <2>2. PlayInv = game.inv \cup dogs /\ PlayInv' = PlayInv \ lost /\ lost \in SUBSET PlayInv
    BY <1>1, <1>2, <2>1 DEF PlayInv, Between
  <2>3. \A k \in Levels : PlayAt'[k] = PlayAt[k]
    BY <1>1, <2>1 DEF PlayAt, SameFlags, disk
  <2>4. PlayOrigin' = PlayOrigin
    BY <1>1, <1>2, <2>1 DEF PlayOrigin, Away, CantGoBack
  <2>5. AccountedIn(PlayInv \ lost, PlayAt, gone \cup lost, game.visited \cup {game.cur},
                    PlayOrigin)
    BY <1>2, <2>2, CarriedLost DEF AllAccounted
  <2> QED
    BY <2>1, <2>2, <2>3, <2>4, <2>5, AccountedSame DEF AllAccounted, SameFlags
<1> QED
  BY <1>3, <1>4

LEMMA ArriveThings ==
  ASSUME Steady, ArriveNew \/ ArriveBack PROVE AllAccounted'
<1> USE DEF At
<1>1. TypeInv /\ game.cur \in Levels /\ dest \in Levels /\ pc = "arrive" /\ pc' = "ckpt"
        /\ game.exists \subseteq Levels /\ game.visited \subseteq Levels
  BY FileTypes, ArriveNewDoes, ArriveBackDoes
     DEF Steady, TypeInv, Placed, Loaded, ArriveNew, ArriveBack
<1>2. /\ AllAccounted /\ dogs \cap game.inv = {} /\ dest # game.cur
      /\ game.cur \in EndLevels => dest \in EndLevels
      /\ ~Away => game.cur \in game.exists \cap game.visited
      /\ Away => lfile[game.cur].stuff = {} /\ game.exists = {}
      /\ Away <=> CantGoBack
  BY <1>1, ThingsAre DEF InPlay, Session, Steady, Sane, Travelling, Away
<1>3. /\ game'.cur = dest /\ game'.inv = game.inv /\ game'.exists = game.exists
      /\ UNCHANGED <<lfile, gone>>
  BY <1>1, ArriveNewDoes, ArriveBackDoes DEF SameFlags, disk, history
<1>4. /\ PlayInv = game.inv \cup dogs /\ PlayInv' = PlayInv \ dogs /\ PlayAt'[dest] = here'
      /\ \A l \in Levels \ {dest} : PlayAt'[l] = PlayAt[l]
  BY <1>1, <1>2, <1>3 DEF PlayInv, PlayAt, Between
<1>5. PlayOrigin \cup {dest} \subseteq PlayOrigin' /\ PlayOrigin \subseteq Levels
  BY <1>1, <1>2, <1>3 DEF PlayOrigin, Away, Abroad, CantGoBack
<1>6. CASE ArriveNew
  <2>1. /\ dest \notin game.exists /\ game'.visited = game.visited \ {dest}
        /\ here' = Native[dest] \cup dogs
    BY <1>1, <1>6, ArriveNewDoes
  <2>2. PlayAt[dest] = {} /\ dest \notin PlayOrigin
    BY <1>1, <1>2, <2>1 DEF PlayAt, PlayOrigin, Abroad, CantGoBack
  <2> DEFINE at == [l \in Levels |-> IF l = dest THEN Native[dest] ELSE PlayAt[l]]
             made == game.visited \cup {game.cur}
  <2>3. at[dest] = Native[dest] /\ \A l \in Levels \ {dest} : at[l] = PlayAt[l]
    BY <1>1
  <2> HIDE DEF at
  <2>4. AccountedIn(PlayInv, at, gone, made \cup {dest}, PlayOrigin \cup {dest})
    BY <1>1, <1>2, <1>5, <2>2, <2>3, LevelMade DEF AllAccounted
  <2>5. PlayAt'[dest] = at[dest] \cup dogs /\ \A l \in Levels \ {dest} : PlayAt'[l] = at[l]
    BY <1>4, <2>1, <2>3
  <2>6. AccountedIn(PlayInv \ dogs, PlayAt', gone, made \cup {dest}, PlayOrigin \cup {dest})
    BY <1>1, <1>4, <2>4, <2>5, PutDown
  <2> QED
    BY <1>3, <1>4, <1>5, <2>1, <2>6, AccountedWeaker DEF AllAccounted
<1>7. CASE ArriveBack
  <2>1. /\ dest \in game.exists /\ game'.visited = game.visited
        /\ here' = lfile[dest].stuff \cup dogs
    BY <1>1, <1>7, ArriveBackDoes DEF SameFlags
  <2>2. PlayAt'[dest] = PlayAt[dest] \cup dogs
    BY <1>1, <1>4, <2>1 DEF PlayAt
  <2>3. AccountedIn(PlayInv \ dogs, PlayAt', gone, game.visited \cup {game.cur}, PlayOrigin)
    BY <1>1, <1>2, <1>4, <2>2, PutDown DEF AllAccounted
  <2>4. game.exists \subseteq game.visited \cup {game.cur}
    BY <1>1 DEF Steady, Sane, FlagsOfSession, InPlay, Session
  <2> QED
    BY <1>2, <1>3, <1>4, <1>5, <2>1, <2>3, <2>4, AccountedWeaker DEF AllAccounted
<1> QED
  BY <1>6, <1>7

LEMMA ThingsOfSessionKept == ASSUME Steady, Next PROVE ThingsOfSession'
<1> USE DEF At
<1>1. TypeInv /\ ~torn
  BY DEF Steady
<1> SUFFICES ASSUME pc' \in InPlay PROVE ThingsOfSession'
  BY DEF ThingsOfSession
<1>2. pc \in Loaded => game.cur \in Levels
  BY <1>1 DEF TypeInv, Placed
<1>3. CASE QuietStep
  <2>1. Quiet /\ AllAccounted
    BY <1>1, <1>3, QuietSteps, ThingsAre DEF Quiet
  <2>2. PlayInv' = PlayInv /\ \A l \in Levels : PlayAt'[l] = PlayAt[l]
    BY <2>1 DEF Quiet, PlayInv, PlayAt, Between
  <2>3. PlayOrigin' = PlayOrigin
    BY <2>1 DEF Quiet, PlayOrigin, Away, Between
  <2> QED
    BY <2>1, <2>2, <2>3, ThingsUnmoved, ThingsAre DEF Quiet
<1>4. CASE RestoreCurrent
  <2>1. RestoredWhole /\ UNCHANGED <<game, kept, gone>> /\ pc' = "resumed"
    BY <1>4, RestoreEnds DEF RestoreCurrent
  <2>2. MemoryWorld' = kept
    BY <1>4, <2>1, ResumedKept DEF Resumed, Next, Program, Restore
  <2>3. Playing' = kept /\ ~Away'
    BY <2>1, <2>2 DEF Playing, InMemory, Away
  <2>4. Accounted(kept, savef.game.visited \cup kept.levels,
                  kept.levels \cup Abroad(game.cur))
    BY <2>1 DEF RestoredWhole, Sound
  <2>5. game.visited \cup {game.cur} \subseteq savef.game.visited \cup kept.levels
    BY <2>1 DEF RestoredWhole
  <2>6. Accounted(kept, game.visited \cup {game.cur},
                  game.exists \cup {game.cur} \cup Abroad(game.cur))
    BY <2>1, <2>4, <2>5, AccountedWeaker DEF RestoredWhole, Accounted
  <2> QED
    BY <2>1, <2>3, <2>6 DEF ThingsOfSession, Accounted
<1>5. CASE CkptCreate \/ CkptLevel
  <2>1. /\ pc \in {"ckpt", "ckpt_level"} /\ pc' \in {"ckpt_level", "ckpt_lock"}
        /\ game'.cur = game.cur /\ game'.inv = game.inv
        /\ game'.visited \in {game.visited, game.visited \cup {game.cur}}
        /\ game'.exists \in {game.exists, game.exists \cup {game.cur}}
        /\ OnlyFile(game.cur) /\ UNCHANGED <<here, gone>>
    BY <1>1, <1>5, CkptCreateDoes, CkptLevelDoes
  <2>2. AllAccounted
    BY <2>1, ThingsAre DEF InPlay, Session
  <2>3. PlayInv' = PlayInv /\ \A l \in Levels : PlayAt'[l] = PlayAt[l]
    BY <2>1 DEF PlayInv, PlayAt, Between, OnlyFile
  <2>4. PlayOrigin' = PlayOrigin
    BY <2>1 DEF PlayOrigin, Away
  <2> QED
    BY <2>1, <2>2, <2>3, <2>4, ThingsUnmoved, ThingsAre
<1>6. CASE \E t \in Things : PickUp(t) \/ Drop(t)
  <2>1. PICK t \in Things : PickUp(t) \/ Drop(t)
    BY <1>6
  <2>2. /\ pc = "play" /\ pc' = "play" /\ game'.cur = game.cur /\ SameFlags
        /\ UNCHANGED <<lfile, gone>>
    BY <1>1, <2>1, PickUpDoes, DropDoes DEF disk, history
  <2>3. AllAccounted /\ PlayOrigin' = PlayOrigin /\ game.cur \in Levels
    BY <1>2, <2>2, ThingsAre DEF InPlay, Session, PlayOrigin, Away, SameFlags, Loaded
  <2>4. /\ PlayInv = game.inv /\ PlayInv' = game'.inv
        /\ PlayAt[game.cur] = here /\ PlayAt'[game.cur] = here'
        /\ \A l \in Levels \ {game.cur} : PlayAt'[l] = PlayAt[l]
    BY <2>2, <2>3 DEF PlayInv, PlayAt, Between, SameFlags
  <2>5. AccountedIn(PlayInv', PlayAt', gone, game.visited \cup {game.cur}, PlayOrigin)
    <3> DEFINE S == {t}
    <3>1. \A l \in Levels \ {game.cur} : PlayAt'[l] = PlayAt[l]
      BY <2>4
    <3>2. game.cur \in Levels
             /\ AccountedIn(PlayInv, PlayAt, gone, game.visited \cup {game.cur}, PlayOrigin)
      BY <2>3 DEF AllAccounted
    <3>3. CASE PickUp(t)
      <4>1. /\ S \in SUBSET PlayAt[game.cur] /\ PlayInv' = PlayInv \cup S
            /\ PlayAt'[game.cur] = PlayAt[game.cur] \ S
        BY <1>1, <2>4, <3>3, PickUpDoes
      <4> HIDE DEF S
      <4> QED
        BY <3>1, <3>2, <4>1, TakenAlong
    <3>4. CASE Drop(t)
      <4>1. S \in SUBSET PlayInv /\ PlayInv' = PlayInv \ S
        BY <1>1, <2>4, <3>4, DropDoes
      <4>2. PlayAt'[game.cur] = PlayAt[game.cur] \cup S
        BY <1>1, <2>4, <3>4, DropDoes
      <4> HIDE DEF S
      <4>3. S \in SUBSET PlayInv
        BY <4>1
      <4>4. AccountedIn(PlayInv \ S, PlayAt', gone, game.visited \cup {game.cur}, PlayOrigin)
        BY <3>2, <3>1, <4>2, <4>3 DEF AccountedIn
      <4> QED
        BY <4>1, <4>4
    <3> QED
      BY <2>1, <3>3, <3>4
  <2>6. AllAccounted'
    BY <2>2, <2>3, <2>5 DEF AllAccounted, SameFlags
  <2> QED
    BY <2>6, ThingsAre
<1>7. CASE \E k \in Levels : GotoLevel(k)
  <2>1. /\ pc = "play" /\ pc' = "leave" /\ dogs' \subseteq here /\ here' = here \ dogs'
        /\ game'.cur = game.cur /\ game'.inv = game.inv /\ game'.visited = game.visited
        /\ game'.exists = game.exists \cup {game.cur}
        /\ OnlyFile(game.cur) /\ gone' = gone
    BY <1>1, <1>7, GotoLevelDoes
  <2>2. AllAccounted /\ PlayOrigin' = PlayOrigin /\ game.cur \in Levels
    BY <1>2, <2>1, ThingsAre DEF InPlay, Session, PlayOrigin, Away, Loaded
  <2>3. /\ PlayInv' = PlayInv \cup dogs' /\ dogs' \in SUBSET PlayAt[game.cur]
        /\ PlayAt'[game.cur] = PlayAt[game.cur] \ dogs'
        /\ \A l \in Levels \ {game.cur} : PlayAt'[l] = PlayAt[l]
    BY <2>1, <2>2 DEF PlayInv, PlayAt, Between, OnlyFile
  <2>4. AccountedIn(PlayInv', PlayAt', gone, game.visited \cup {game.cur}, PlayOrigin)
    BY <2>2, <2>3, TakenAlong DEF AllAccounted
  <2>5. AllAccounted'
    BY <2>1, <2>2, <2>4 DEF AllAccounted
  <2> QED
    BY <2>5, ThingsAre
<1>8. CASE LeaveLevel \/ DiscardLevel \/ DiscardMigrations \/ ArriveNew \/ ArriveBack
  BY <1>8, LeaveLevelThings, DiscardThings, ArriveThings, ThingsAre
<1> QED
  BY <1>3, <1>4, <1>5, <1>6, <1>7, <1>8, PlaySteps DEF LevelStep

(* A checkpoint, complete, is the world in memory.                         *)
LEMMA CheckpointHolds ==
  ASSUME Steady, CkptState, game.chk
  PROVE  /\ kept' # NoWorld /\ LevelFilesHold(kept)' /\ Sound(lock0.game, kept)'
         /\ kept'.levels = game'.exists \cup {game'.cur}
<1> USE DEF At
<1>1. /\ pc = "ckpt_state" /\ lock0' = WholeLock(hackpid, game) /\ kept' = MemoryWorld
      /\ UNCHANGED <<lfile, game, here, hackpid, gone>>
  BY DEF CkptState
<1>2. TypeInv /\ TypeInv' /\ kept' \in World /\ Proper(kept') /\ game \in GameState
  BY <1>1, MemoryIsTrue
     DEF Steady, TypeInv, TypeOK, HistoryTypes, MemoryTypes, MemoryIs, Loaded
<1>3. /\ HeaderOf(game, kept') /\ game.cur \in Levels
      /\ kept'.levels = game.exists \cup {game.cur} /\ kept'.at[game.cur] = here
      /\ \A l \in game.exists \ {game.cur} : FiledAs(l, MemoryWorld)
  BY <1>1, <1>2, MemoryIsTrue DEF MemoryIs, Loaded
<1>4. lock0'.state = "whole" /\ lock0'.game = SavedGame(game)
  BY <1>1 DEF WholeLock
<1>5. SavedGame(game) \in GameState
  BY <1>2, SavedGameType
<1>6. Sound(SavedGame(game), kept') /\ HeaderOf(SavedGame(game), kept')
  BY <1>1, <1>2, <1>5, SoundInMemoryTrue
     DEF SoundInMemory, Steady, Sane, InPlay, Session, Between
<1>7. /\ game.cur \in game.exists
      /\ lfile[game.cur] = WholeFile(hackpid, here, game.moves)
      /\ \A l \in game.exists \ {game.cur} : lfile[l].state = "whole"
  BY <1>1 DEF Steady, Sane, Checkpointing, FilesOfSession, InPlay, Session, OurFile
<1>8. kept'.cur = game.cur
  BY <1>3 DEF HeaderOf
<1>9. \A l \in kept'.levels : lfile'[l].state = "whole" /\ FiledAs(l, kept)'
  BY <1>1, <1>3, <1>7, <1>8 DEF FiledAs, WholeFile
<1>10. HeaderOf(lock0.game, kept)' /\ kept'.cur \in kept'.levels
  BY <1>3, <1>4, <1>6, <1>8 DEF HeaderOf
<1>11. LevelFilesHold(kept)'
  BY <1>2, <1>4, <1>9, <1>10, FiledIsNext DEF FiledIs
<1>12. Sound(lock0.game, kept)'
  BY <1>1, <1>4, <1>6 DEF Sound, Accounted
<1>13. kept' # NoWorld
  BY <1>3 DEF NoWorld
<1> QED
  BY <1>1, <1>3, <1>11, <1>12, <1>13

(* While dying is safe the checkpoint on disk is the kept world.           *)
LEMMA RiskyKept == ASSUME Steady, Next, pc' \in Risky \ {"ckpt_lock"} PROVE atrisk'
<1> USE DEF At
<1>1. TypeInv /\ ~torn /\ (pc \in Risky \ {"ckpt_lock"} => atrisk)
  BY DEF Steady, Sane, SafeWithCheckpoint
<1>2. CASE LevelStep
  <2>1. CASE RestoreCurrent
    BY <2>1 DEF RestoreCurrent
  <2>2. CASE CkptCreate \/ CkptLevel \/ \E k \in Levels : GotoLevel(k)
    BY <1>1, <2>2, CkptCreateDoes, CkptLevelDoes, GotoLevelDoes
  <2>3. CASE LeaveLevel \/ DiscardLevel \/ DiscardMigrations
    BY <1>1, <2>3, LeaveLevelDoes, DiscardLevelDoes, DiscardMigrationsDoes DEF Risky
  <2>4. CASE ArriveNew \/ ArriveBack \/ \E t \in Things : PickUp(t) \/ Drop(t)
    BY <1>1, <2>4, ArriveNewDoes, ArriveBackDoes, PickUpDoes, DropDoes DEF Risky
  <2> QED
    BY <1>2, <2>1, <2>2, <2>3, <2>4 DEF LevelStep
<1>3. CASE CkptLock
  BY <1>3 DEF CkptLock, Risky
<1>4. CASE QuietStep /\ ~CkptLock
  BY <1>4 DEF QuietStep, Resume, CkptCreateFails, CkptState, PassTurn, SetCheckpointing,
     IdleCheckpoint, SaveOrHangup, SaveCreate, SaveCreateFails, Steady, OffLevels, Risky
<1>5. CASE pc' = "over"
  <2>1. CASE Die
    BY <2>1 DEF Die
  <2>2. CASE ClearLevel
    BY <1>1, <2>2 DEF ClearLevel, history, Risky
  <2>3. CASE ~Die /\ ~ClearLevel
    <3>1. CASE Checkpoint \/ ChangeLevel
      BY <1>5, <3>1, PlaySteps DEF Steady, Checkpoint, CkptCreate, CkptCreateFails, CkptLevel,
         CkptLock, CkptLockFails, CkptState, ChangeLevel, GotoLevel, LeaveLevel, DiscardLevel,
         DiscardMigrations, ArriveNew, ArriveBack, ArriveTricked
    <3>2. CASE Save
      BY <1>5, <3>2 DEF Steady, Save, SaveCreate, SaveCreateFails, SaveCurrent, SaveLevel,
         SaveTricked, SaveClose, SaveUnlinkCurrent, SaveUnlinkLock, Exit
    <3>3. CASE Play
      BY <1>5, <2>3, <3>3 DEF Play, PassTurn, SetCheckpointing, IdleCheckpoint, SaveOrHangup,
         PickUp, Drop, OffLevels
    <3>4. CASE ~(Checkpoint \/ ChangeLevel \/ Save \/ Play)
      BY <1>5, <2>3, <3>4, Destinations DEF Next, Program, ClearLock, Exit
    <3> QED
      BY <3>1, <3>2, <3>3, <3>4
  <2> QED
    BY <2>1, <2>2, <2>3
<1>6. pc' \in InPlay \/ pc' = "over"
  BY DEF Risky, InPlay, Session
<1> QED
  BY <1>2, <1>3, <1>4, <1>5, <1>6, PlaySteps

LEMMA SafeWithCheckpointKept == ASSUME Steady, Next PROVE SafeWithCheckpoint'
<1> USE DEF At
<1>1. TypeInv /\ ~torn /\ SafeWithCheckpoint
  BY DEF Steady, Sane
<1> SUFFICES ASSUME pc' \in InPlay \cup {"save_levels"}, ~atrisk'
             PROVE  /\ kept' # NoWorld /\ LevelFilesHold(kept)' /\ Sound(lock0.game, kept)'
                    /\ kept'.levels = IF pc' = "save_levels" THEN saving'.levels
                                      ELSE game'.exists \cup {game'.cur}
  BY RiskyKept DEF SafeWithCheckpoint
<1>2. ASSUME pc \in InPlay, ~atrisk, UNCHANGED <<lfile, lock0, kept, gone>>
      PROVE  /\ kept' # NoWorld /\ LevelFilesHold(kept)' /\ Sound(lock0.game, kept)'
             /\ kept'.levels = game.exists \cup {game.cur}
  <2>1. /\ kept # NoWorld /\ LevelFilesHold(kept) /\ Sound(lock0.game, kept)
        /\ kept.levels = game.exists \cup {game.cur}
    BY <1>1, <1>2 DEF SafeWithCheckpoint, InPlay, Session
  <2> QED
    BY <1>2, <2>1 DEF LevelFilesHold, Stuff, Stamp, Sound, Accounted
<1>3. CASE CkptState
  <2>1. game.chk
    BY <1>1, <1>3 DEF CkptState, SafeWithCheckpoint, Risky
  <2>2. pc' = "play"
    BY <1>3 DEF CkptState
  <2> QED
    BY <1>3, <2>1, <2>2, CheckpointHolds
<1>4. CASE QuietStep /\ ~CkptState
  <2>1. Quiet
    BY <1>1, <1>4, QuietSteps
  <2>2. ~atrisk /\ UNCHANGED <<lock0, kept>>
    BY <1>4 DEF QuietStep, Resume, CkptCreateFails, CkptLock, PassTurn, SetCheckpointing,
       IdleCheckpoint, SaveOrHangup, SaveCreate, SaveCreateFails, Steady, OffLevels, disk,
       history
  <2> QED
    BY <1>2, <2>1, <2>2 DEF Quiet, InPlay, Session
<1>5. CASE \E t \in Things : PickUp(t) \/ Drop(t)
  BY <1>1, <1>2, <1>5, PickUpDoes, DropDoes DEF SameFlags, disk, history, InPlay, Session
<1>6. CASE LevelStep /\ ~ \E t \in Things : PickUp(t) \/ Drop(t)
  <2>1. CASE RestoreCurrent \/ CkptCreate \/ \E k \in Levels : GotoLevel(k)
    BY <1>1, <2>1, CkptCreateDoes, GotoLevelDoes DEF RestoreCurrent
  <2>2. CASE CkptLevel \/ LeaveLevel \/ DiscardLevel \/ DiscardMigrations
    BY <1>1, <2>2, CkptLevelDoes, LeaveLevelDoes, DiscardLevelDoes, DiscardMigrationsDoes
       DEF SafeWithCheckpoint, Risky
  <2>3. CASE ArriveNew \/ ArriveBack
    BY <1>1, <2>3, ArriveNewDoes, ArriveBackDoes DEF SafeWithCheckpoint, Risky, history
  <2> QED
    BY <1>6, <2>1, <2>2, <2>3 DEF LevelStep
<1>7. CASE SaveCurrent
  <2>1. /\ pc = "save_current" /\ saving' = saving /\ pc' = "save_levels"
        /\ UNCHANGED <<lfile, lock0, kept, gone, atrisk>>
    BY <1>7 DEF SaveCurrent, history
  <2>2. saving.levels = game.exists \cup {game.cur}
    BY <1>1, <2>1, MemoryIsTrue DEF Steady, SavingWhatIsPlayed, MemoryIs, Loaded
  <2> QED
    BY <1>2, <2>1, <2>2 DEF InPlay, Session
<1>8. CASE ~SaveCurrent /\ pc' = "save_levels"
  BY <1>8, Destinations DEF Next, Program, Save, SaveCreate, SaveCreateFails, SaveLevel,
     SaveTricked, SaveClose, SaveUnlinkCurrent, SaveUnlinkLock, Exit
<1> QED
  BY <1>3, <1>4, <1>5, <1>6, <1>7, <1>8, PlaySteps

(* A level that has no file yet, or no longer, is not said to be visited:  *)
(* the hero comes back to no discarded level.                              *)
LEMMA NothingDiscarded ==
  ASSUME FlagsOfSession, Travelling, pc = "arrive", dest \in Levels, dest \notin game.exists
  PROVE  dest \notin game.visited
BY DEF FlagsOfSession, Travelling, InPlay, Session, Away, CantGoBack, Fits, Abroad, At

(* The checkpoint on disk stays behind the game.                           *)
LEMMA CheckpointOlderKept == ASSUME Steady, Next PROVE CheckpointOlder'
<1> USE DEF At
<1>1. TypeInv /\ ~torn /\ CheckpointOlder
  BY DEF Steady, Sane
<1>2. lock0' \in {lock0, NoLock, ShortLock(hackpid), ShortLock(hackpid')}
        \/ (CkptState /\ game.chk)
  <2> USE DEF disk, memory, control, history, count
  <2>1. CASE Start
    BY <2>1 DEF Start, LockFree, DestroyOldGame, RecoverNothing, RecoverRefused,
       RecoverOpen, EraseLevel, EraseLock, GotLock, NewSession, RemoveShortLock
  <2>2. CASE Recover \/ UtilRecover
    BY <2>2 DEF Recover, RecoverLevel, RecoverCopy, RecoverUnlinkLock, RecoverUnlink, Exit,
       UtilRecover, UtilOpen, UtilLevel, UtilState, UtilCopy, UtilClose
  <2>3. CASE Restore
    BY <2>3 DEF Restore, NewGame, RestoreUnreadable, RestoreState, RestoreCreate,
       RestoreWrite, RestoreCurrent, Resume, Exit
  <2>4. CASE Checkpoint
    BY <2>4 DEF Checkpoint, CkptCreate, CkptCreateFails, CkptLevel, CkptLock, CkptLockFails,
       CkptState
  <2>5. CASE ChangeLevel
    BY <2>5 DEF ChangeLevel, GotoLevel, LeaveLevel, DiscardLevel, DiscardMigrations,
       ArriveNew, ArriveBack, ArriveTricked
  <2>6. CASE Save \/ ClearLevel \/ ClearLock
    BY <2>6 DEF Save, SaveCreate, SaveCreateFails, SaveCurrent, SaveLevel, SaveTricked,
       SaveClose, SaveUnlinkCurrent, SaveUnlinkLock, ClearLevel, ClearLock, Exit
  <2>7. CASE Play \/ Crash
    BY <2>7 DEF Play, PassTurn, SetCheckpointing, IdleCheckpoint, Die, SaveOrHangup,
       PickUp, Drop, OffLevels, Crash, Exit
  <2> QED
    BY <2>1, <2>2, <2>3, <2>4, <2>5, <2>6, <2>7 DEF Next, Program
<1>3. CASE CkptState /\ game.chk
  <2>1. /\ lock0'.game = SavedGame(game) /\ game' = game /\ pc' = "play"
    BY <1>3 DEF CkptState, WholeLock
  <2>2. game \in GameState
    BY <1>1 DEF TypeInv, TypeOK, MemoryTypes
  <2>3. /\ lock0'.game.cur = game.cur
        /\ lock0'.game.visited = game.visited \ {MaxLedger}
        /\ lock0'.game.exists = game.exists \ {MaxLedger}
    BY <2>1, <2>2 DEF SavedGame, GameState
  <2> QED
    BY <2>1, <2>3 DEF CheckpointOlder, Older
<1>4. CASE ~(CkptState /\ game.chk)
  <2> SUFFICES ASSUME lock0' = lock0, lock0.state = "whole" PROVE CheckpointOlder'
    BY <1>2, <1>4 DEF CheckpointOlder, NoLock, ShortLock
  <2> DEFINE g == lock0.game
  <2>1. MaxLedger \notin g.visited
    BY <1>1 DEF CheckpointOlder
  <2>2. ASSUME pc \in InPlay, ~Away, pc' \in InPlay,
               game'.cur = game.cur,
               game'.visited \in {game.visited, game.visited \cup {game.cur}},
               game'.exists \cup {game.cur} = game.exists \cup {game.cur}
        PROVE  CheckpointOlder'
    <3>1. /\ g.visited \subseteq game.visited
          /\ g.cur \in EndLevels => game.cur \in EndLevels
          /\ Older(g, game.visited, game.exists \cup {game.cur}, game.cur)
      BY <1>1, <2>2 DEF CheckpointOlder
    <3>2. pc' # "save_levels"
      BY <2>2 DEF InPlay, Session
    <3> QED
      BY <2>1, <2>2, <3>1, <3>2 DEF CheckpointOlder, Older
  <2>3. CASE QuietStep
    BY <1>1, <2>2, <2>3, QuietSteps DEF Quiet, Between, Away
  <2>4. CASE RestoreCurrent
    BY <2>4 DEF RestoreCurrent, Steady, NoCheckpointYet
  <2>5. CASE \/ CkptCreate \/ CkptLevel
             \/ \E t \in Things : PickUp(t) \/ Drop(t)
             \/ \E k \in Levels : GotoLevel(k)
    BY <1>1, <2>2, <2>5, CkptCreateDoes, CkptLevelDoes, PickUpDoes, DropDoes, GotoLevelDoes
       DEF InPlay, Session, Away, SameFlags
  <2>6. CASE LeaveLevel
    BY <1>1, <2>2, <2>6, LeaveLevelDoes DEF InPlay, Session, Away
  <2>7. CASE DiscardLevel \/ DiscardMigrations
    <3>1. /\ pc = "discard" /\ pc' \in {"discard", "arrive"} /\ dest' = dest
          /\ game'.cur = game.cur /\ game'.visited = game.visited
      BY <1>1, <2>7, DiscardLevelDoes, DiscardMigrationsDoes DEF SameFlags
    <3>2. Away'
      BY <3>1 DEF Steady, Sane, Travelling, Away, CantGoBack
    <3> QED
      BY <1>1, <2>1, <3>1, <3>2 DEF CheckpointOlder, InPlay
  <2>8. CASE ArriveNew \/ ArriveBack
    <3>1. /\ pc = "arrive" /\ pc' = "ckpt" /\ dest \in Levels
          /\ game'.cur = dest /\ game'.exists = game.exists
          /\ IF dest \in game.exists THEN game'.visited = game.visited
                                     ELSE game'.visited = game.visited \ {dest}
      BY <1>1, <2>8, ArriveNewDoes, ArriveBackDoes DEF SameFlags
    <3>2. dest \notin game.exists => dest \notin game.visited
      BY <3>1, NothingDiscarded DEF Steady, Sane
    <3>3. ~Away' /\ (Away <=> CantGoBack)
      BY <3>1 DEF Away
    <3>4. /\ game.cur \in EndLevels => dest \in EndLevels
          /\ ~Away => game.cur \in game.exists \cap game.visited
      BY <3>1 DEF Steady, Sane, Travelling
    <3>5. /\ g.visited \subseteq game.visited
          /\ g.cur \in EndLevels => game.cur \in EndLevels
          /\ ~Away => Older(g, game.visited, game.exists \cup {game.cur}, game.cur)
      BY <1>1, <3>1 DEF CheckpointOlder, InPlay, Session
    <3>6. game'.visited = game.visited
      BY <3>1, <3>2
    <3>7. Older(g, game.visited, game.exists \cup {dest}, dest)
      BY <3>3, <3>4, <3>5 DEF Older, CantGoBack
    <3> QED
      BY <2>1, <3>1, <3>3, <3>4, <3>5, <3>6, <3>7 DEF CheckpointOlder, InPlay, Session
  <2>9. CASE SaveCurrent
    <3>1. /\ pc = "save_current" /\ saving' = saving /\ saving = MemoryWorld
          /\ pc' = "save_levels" /\ game' = [game EXCEPT !.visited = @ \cup {game.cur}]
      BY <2>9 DEF SaveCurrent, Steady, SavingWhatIsPlayed
    <3> DEFINE s == SavedGame(game')
               first == [ShortSave EXCEPT !.state = "good", !.game = s]
               f == WholeFile(hackpid, here, game.moves)
    <3>2. savef' = AddLevel(first, game.cur, f)
      BY <2>9 DEF SaveCurrent, SavedState
    <3>3. game \in GameState /\ game' \in GameState
      BY DEF Steady, TypeInv, TypeOK, MemoryTypes
    <3>4. s \in GameState /\ s.visited = (game.visited \cup {game.cur}) \ {MaxLedger}
      BY <3>1, <3>3, SavedGameType DEF SavedGame, GameState
    <3>5. first \in SaveFile /\ first.game = s
      BY <3>4, GoodSaveType
    <3>6. /\ saving.levels = game.exists \cup {game.cur} /\ game.cur \in Levels
          /\ saving.cur = game.cur
      BY <1>1, <3>1, MemoryIsTrue DEF MemoryIs, Loaded, HeaderOf
    <3> HIDE DEF s, first, f
    <3>7. savef'.game = s
      BY <3>2, <3>5, <3>6, Appended
    <3>8. Older(g, game.visited, game.exists \cup {game.cur}, game.cur)
      BY <1>1, <3>1 DEF CheckpointOlder, InPlay, Session, Away
    <3>9. Older(g, s.visited, saving.levels, saving.cur)
      BY <2>1, <3>4, <3>6, <3>8 DEF Older
    <3> QED
      BY <2>1, <3>1, <3>7, <3>9 DEF CheckpointOlder, InPlay, Session
  <2>10. CASE SaveLevel
    <3>1. /\ pc = "save_levels" /\ pc' = "save_levels" /\ saving' = saving
      BY <2>10 DEF SaveLevel
    <3>2. PICK l \in Levels : savef' = AddLevel(savef, l, lfile[l])
      BY <2>10 DEF SaveLevel
    <3>3. savef'.game = savef.game
      BY <3>2, Appended DEF Steady, TypeInv, TypeOK, DiskTypes
    <3> QED
      BY <1>1, <2>1, <3>1, <3>3 DEF CheckpointOlder, InPlay, Session
  <2>11. CASE pc' \notin InPlay \cup {"save_levels"}
    BY <2>1, <2>11 DEF CheckpointOlder
  <2>12. CASE pc' = "save_levels" /\ ~SaveCurrent /\ ~SaveLevel
    BY <2>12, Destinations DEF Next, Program, Save, SaveCreate, SaveCreateFails,
       SaveTricked, SaveClose, SaveUnlinkCurrent, SaveUnlinkLock, Exit
  <2>13. CASE pc' \in InPlay
    BY <2>3, <2>4, <2>5, <2>6, <2>7, <2>8, <2>13, PlaySteps DEF LevelStep
  <2> QED
    BY <2>9, <2>10, <2>11, <2>12, <2>13
<1> QED
  BY <1>3, <1>4

----------------------------------------------------------------------------
(* The invariant as a whole.                                               *)

(* Once the process has died at risk only a new game begins afresh.        *)
LEMMA TornStays == ASSUME Next, torn, ~NewGame PROVE torn'
<1> USE DEF At, disk, memory, control, history, count
<1>1. CASE Start
  BY <1>1 DEF Start, LockFree, DestroyOldGame, RecoverNothing, RecoverRefused,
     RecoverOpen, EraseLevel, EraseLock, GotLock, NewSession
<1>2. CASE Recover \/ UtilRecover
  BY <1>2 DEF Recover, RecoverLevel, RecoverCopy, RecoverUnlinkLock, RecoverUnlink, Exit,
     UtilRecover, UtilOpen, UtilLevel, UtilState, UtilCopy, UtilClose
<1>3. CASE Restore
  BY <1>3 DEF Restore, RestoreUnreadable, RestoreState, RestoreCreate, RestoreWrite,
     RestoreCurrent, Resume
<1>4. CASE Checkpoint
  BY <1>4 DEF Checkpoint, CkptCreate, CkptCreateFails, CkptLevel, CkptLock, CkptLockFails,
     CkptState
<1>5. CASE ChangeLevel
  BY <1>5 DEF ChangeLevel, GotoLevel, LeaveLevel, DiscardLevel, DiscardMigrations,
     ArriveNew, ArriveBack, ArriveTricked
<1>6. CASE Save \/ ClearLevel \/ ClearLock
  BY <1>6 DEF Save, SaveCreate, SaveCreateFails, SaveCurrent, SaveLevel, SaveTricked,
     SaveClose, SaveUnlinkCurrent, SaveUnlinkLock, ClearLevel, ClearLock
<1>7. CASE Play \/ Crash
  BY <1>7 DEF Play, PassTurn, SetCheckpointing, IdleCheckpoint, Die, SaveOrHangup,
     PickUp, Drop, OffLevels, Crash
<1> QED
  BY <1>1, <1>2, <1>3, <1>4, <1>5, <1>6, <1>7 DEF Next, Program

(* Without a step everything is as it was.                                 *)
LEMMA SaneStutter == ASSUME Sane, UNCHANGED vars PROVE Sane'
<1> USE DEF vars, disk, memory, control, history, count, At
<1>1. MemoryWorld' = MemoryWorld /\ SaveWorld' = SaveWorld /\ (Restorable' <=> Restorable)
        /\ Present' = Present
  BY DEF MemoryWorld, SaveWorld, Restorable, Stuff, Stamp, Present
<1>2. Playing' = Playing /\ (Away' <=> Away) /\ (CantGoBack' <=> CantGoBack)
  BY <1>1 DEF Playing, WithDogs, Stuff, Stamp, Away, CantGoBack
<1>3. /\ InSaveFile(kept)' <=> InSaveFile(kept)
      /\ LevelFilesHold(kept)' <=> LevelFilesHold(kept)
      /\ InLevelFiles(kept)' <=> InLevelFiles(kept)
  BY <1>1 DEF InSaveFile, LevelFilesHold, InLevelFiles, Stuff, Stamp
<1>4. /\ Sound(savef.game, kept)' <=> Sound(savef.game, kept)
      /\ Sound(lock0.game, kept)' <=> Sound(lock0.game, kept)
  BY DEF Sound, Accounted
<1>5. /\ SavedPart(kept)' <=> SavedPart(kept)
      /\ Copying(kept)' <=> Copying(kept)
      /\ Copying(saving)' <=> Copying(saving)
  BY DEF Copying, SavedPart, SavedAs, FiledAs, HeaderOf, Sound, Accounted
<1>6. AtRest'
  BY <1>1, <1>3, <1>4 DEF Sane, AtRest
<1>7. Recovering' /\ Saving' /\ GameOver'
  BY <1>1, <1>3, <1>4, <1>5 DEF Sane, Recovering, Saving, GameOver
<1>8. UtilRecovering'
  BY <1>1, <1>4, <1>5 DEF Sane, UtilRecovering, HeaderOf
<1>9. Restoring'
  BY <1>1, <1>4 DEF Sane, Restoring, HeaderOf, OurFile
<1>10. Resumed' /\ FilesOfSession' /\ Checkpointing'
  BY <1>1 DEF Sane, Resumed, FilesOfSession, OurFile, Checkpointing
<1>11. FlagsOfSession' /\ Travelling'
  BY <1>2 DEF Sane, FlagsOfSession, Travelling
<1>12. ThingsOfSession'
  BY <1>2 DEF Sane, ThingsOfSession, Accounted
<1>13. SafeWithCheckpoint'
  BY <1>3, <1>4 DEF Sane, SafeWithCheckpoint
<1>14. CheckpointOlder'
  BY <1>2 DEF Sane, CheckpointOlder
<1> QED
  BY <1>6, <1>7, <1>8, <1>9, <1>10, <1>11, <1>12, <1>13, <1>14 DEF Sane

(* "Consistent" is an inductive invariant, given the types and that a game *)
(* in play is not in the save file.                                        *)
LEMMA ConsistentInit == Init => Consistent
<1> SUFFICES ASSUME Init PROVE Consistent
  OBVIOUS
<1> USE DEF Init, At
<1>1. NoCheckpointYet /\ SavingWhatIsPlayed
  BY DEF NoCheckpointYet, SavingWhatIsPlayed
<1>2. HistoryProper
  BY DEF HistoryProper, Proper, NoWorld
<1>3. AtRest
  BY DEF AtRest, InSaveFile, Restorable, LevelFilesHold, NoSave, NoLock
<1>4. Recovering /\ UtilRecovering /\ Restoring /\ Resumed /\ Saving /\ GameOver
  BY DEF Recovering, UtilRecovering, Restoring, Resumed, Saving, GameOver
<1>5. FilesOfSession /\ FlagsOfSession /\ ThingsOfSession /\ Travelling /\ Checkpointing
  BY DEF FilesOfSession, FlagsOfSession, ThingsOfSession, Travelling, Checkpointing, InPlay,
     Session
<1>6. SafeWithCheckpoint /\ CheckpointOlder
  BY DEF SafeWithCheckpoint, CheckpointOlder, InPlay, Session, Risky, NoLock
<1> QED
  BY <1>1, <1>2, <1>3, <1>4, <1>5, <1>6 DEF Consistent, Sane

LEMMA ConsistentInductive ==
  ASSUME TypeInv, TypeInv', Unsaved, Unsaved', Consistent, [Next]_vars PROVE Consistent'
<1>1. NoCheckpointYet' /\ SavingWhatIsPlayed' /\ HistoryProper'
  BY NoCheckpointYetKept, SavingWhatIsPlayedKept, HistoryProperKept DEF Consistent
<1>2. ASSUME ~torn' PROVE Sane'
  <2>1. CASE UNCHANGED vars
    BY <1>2, <2>1, SaneStutter DEF Consistent, vars, history
  <2>2. CASE NewGame
    BY <2>2, NewGameSane DEF Consistent
  <2>3. CASE Next /\ ~NewGame
    <3>1. Steady
      BY <1>2, <2>3, TornStays DEF Steady, Consistent
    <3>2. AtRest' /\ Recovering' /\ UtilRecovering' /\ Restoring'
      BY <2>3, <3>1, AtRestKept, RecoveringKept, UtilRecoveringKept, RestoringKept
    <3>3. Resumed' /\ FilesOfSession' /\ FlagsOfSession' /\ ThingsOfSession' /\ Travelling'
      BY <2>3, <3>1, ResumedKept, FilesOfSessionKept, FlagsOfSessionKept,
         ThingsOfSessionKept, TravellingKept
    <3>4. Checkpointing' /\ SafeWithCheckpoint' /\ CheckpointOlder' /\ Saving' /\ GameOver'
      BY <2>3, <3>1, CheckpointingKept, SafeWithCheckpointKept, CheckpointOlderKept,
         SavingKept, GameOverKept
    <3> QED
      BY <3>2, <3>3, <3>4 DEF Sane
  <2> QED
    BY <2>1, <2>2, <2>3
<1> QED
  BY <1>1, <1>2 DEF Consistent

(* The files, the memory and the last kept world agree at every point of   *)
(* the program, in every dungeon and after any number of crashes.          *)
THEOREM AlwaysConsistent == Spec => []Consistent
BY TypeInvariance, UnsavedAlways, ConsistentInit, ConsistentInductive, PTL DEF Spec

----------------------------------------------------------------------------
(* What follows from it.                                                   *)

(* Neither a level change nor a save misses a level file: each level that  *)
(* level_info[] says is on disk is there, whole and of this session.       *)
THEOREM FilesAlwaysIntact == Spec => []LevelFilesIntact
<1>1. Consistent => LevelFilesIntact
  BY DEF Consistent, Sane, FilesOfSession, LevelFilesIntact, InSession, InPlay, Session, At
<1> QED
  BY <1>1, AlwaysConsistent, PTL

(* goto_level() never makes anew a level that was visited and discarded.   *)
THEOREM NeverBackToDiscarded == Spec => []NoDiscardedReturn
<1>1. TypeInv /\ Consistent => NoDiscardedReturn
  BY NothingDiscarded DEF TypeInv, Placed, Consistent, Sane, NoDiscardedReturn, At
<1> QED
  BY <1>1, TypeInvariance, AlwaysConsistent, PTL

(* The game that dorecover() resumes is the one saved or checkpointed.     *)
THEOREM RestoredFaithfully == Spec => []RestoreFaithful
<1>1. Consistent => RestoreFaithful
  BY DEF Consistent, Sane, Resumed, RestoreFaithful
<1> QED
  BY <1>1, AlwaysConsistent, PTL

(* While no process runs, the kept world can be had back from the files.   *)
THEOREM KeptWorldNeverLost == Spec => []NeverLost
<1>1. Consistent => NeverLost
  BY DEF Consistent, Sane, AtRest, Idle, NeverLost, At
<1> QED
  BY <1>1, AlwaysConsistent, PTL

(* No thing is in two places, none that was made is nowhere: neither by    *)
(* level changes and followers nor by checkpoints, saves and restores.     *)
THEOREM ThingsConserved == Spec => []Conserved
<1>1. ASSUME TypeInv, Consistent, pc = "play", ~torn
      PROVE  /\ \A l \in Levels : Places[l] \cap (game.inv \cup gone) = {}
             /\ \A k, l \in Levels : k # l => Places[k] \cap Places[l] = {}
             /\ game.inv \cap gone = {}
             /\ Made \subseteq game.inv \cup gone \cup UNION {Places[l] : l \in Levels}
  <2>1. /\ game.cur \in Levels /\ game.inv \subseteq Things /\ here \subseteq Things
        /\ game.visited \subseteq Levels /\ gone \subseteq Things
        /\ lfile \in [Levels -> LevelFile]
    BY <1>1, FileTypes DEF TypeInv, TypeOK, DiskTypes, MemoryTypes, HistoryTypes, GameState,
       Placed, Loaded
  <2>2. AllAccounted
    BY <1>1, ThingsIsTrue DEF ThingsIs, Consistent, Sane, ThingsOfSession, InPlay, Session,
       PlayOrigin, AllAccounted
  <2>3. /\ PlayInv = game.inv
        /\ \A l \in Levels : PlayAt[l] = Places[l] /\ Places[l] \subseteq Things
    BY <1>1, <2>1 DEF PlayInv, PlayAt, Places, Between, LevelFile
  <2>4. \A t \in Things :
          /\ t \in game.inv => t \notin gone
          /\ \A l \in Levels : t \in Places[l] =>
               t \notin game.inv /\ t \notin gone /\ \A k \in Levels : t \in Places[k] => k = l
          /\ (\E l \in game.visited \cup {game.cur} : t \in Native[l]) =>
               t \in game.inv \/ t \in gone \/ \E l \in Levels : t \in Places[l]
    BY <2>2, <2>3 DEF AllAccounted, AccountedIn
  <2>5. Made \subseteq Things
    BY <2>1, LedgerAssumption DEF Made
  <2>6. \A l \in Levels : Places[l] \cap (game.inv \cup gone) = {}
    BY <2>3, <2>4
  <2>7. \A k, l \in Levels : k # l => Places[k] \cap Places[l] = {}
    BY <2>3, <2>4
  <2>8. game.inv \cap gone = {}
    BY <2>1, <2>4
  <2>9. Made \subseteq game.inv \cup gone \cup UNION {Places[l] : l \in Levels}
    BY <2>4, <2>5 DEF Made
  <2> QED
    BY <2>6, <2>7, <2>8, <2>9
<1>2. TypeInv /\ Consistent => Conserved
  BY <1>1 DEF Conserved, At
<1> QED
  BY <1>2, TypeInvariance, AlwaysConsistent, PTL
=============================================================================
