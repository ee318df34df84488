-------------------------- MODULE Persistence_proofs ------------------------
(***************************************************************************)
(* Proofs about Persistence for every dungeon, every set of things and any *)
(* number of moves, sessions and crashes.                                  *)
(***************************************************************************)
EXTENDS Persistence, TLAPS

----------------------------------------------------------------------------
(* The contents of files: what the operators of SaveData return is of the  *)
(* type of the file it is written to.                                      *)

(* A level number is a position on the "current level" of a game state.    *)
LEMMA LevelsAreNumbers == Levels \subseteq 0 .. MaxLedger
BY LedgerAssumption DEF Levels

(* No game is a game state, and what save_dungeon() leaves of one still is.*)
LEMMA NoGameType == NoGame \in GameState
BY LedgerAssumption DEF NoGame, GameState

LEMMA SavedGameType ==
  ASSUME NEW g \in GameState
  PROVE  SavedGame(g) \in GameState /\ SavedGame(g).cur = g.cur
BY DEF SavedGame, GameState

(* Level files as create_levelfile() and savelev() leave them.             *)
LEMMA LevelFileType ==
  ASSUME NEW pid \in Nat, NEW stuff \in SUBSET Things, NEW stamp \in Nat
  PROVE  /\ NoFile \in LevelFile /\ ShortFile \in LevelFile
         /\ WholeFile(pid, stuff, stamp) \in LevelFile
BY DEF NoFile, ShortFile, WholeFile, LevelFile

LEMMA EmptyFileType == NoFile \in LevelFile
BY DEF NoFile, LevelFile

(* The lock as getlock() and savestateinlock() leave it.                   *)
LEMMA LockFileType ==
  ASSUME NEW pid \in Nat, NEW g \in GameState
  PROVE  /\ NoLock \in LockFile /\ ShortLock(pid) \in LockFile
         /\ WholeLock(pid, g) \in LockFile
         /\ WholeLock(pid, g).game.cur = g.cur
<1>1. SavedGame(g) \in GameState /\ SavedGame(g).cur = g.cur
  BY SavedGameType
<1>2. NoGame \in GameState
  BY NoGameType
<1> QED
  BY <1>1, <1>2 DEF NoLock, ShortLock, WholeLock, LockFile

LEMMA EmptyLockType == NoLock \in LockFile
BY NoGameType DEF NoLock, LockFile

(* The save file while it is written.                                      *)
LEMMA EmptySaveType == NoSave \in SaveFile /\ ShortSave \in SaveFile
BY NoGameType DEF NoSave, ShortSave, SaveFile

LEMMA GoodSaveType ==
  ASSUME NEW g \in GameState
  PROVE  LET new == [ShortSave EXCEPT !.state = "good", !.game = g]
         IN new \in SaveFile /\ new.game = g /\ new.state = "good"
BY EmptySaveType DEF SaveFile

LEMMA AddLevelType ==
  ASSUME NEW sf \in SaveFile, NEW l \in Levels, NEW f \in LevelFile
  PROVE  /\ AddLevel(sf, l, f) \in SaveFile
         /\ AddLevel(sf, l, f).game = sf.game
         /\ AddLevel(sf, l, f).state \in {sf.state, "mixed"}
<1> DEFINE state == IF f.state = "whole" THEN sf.state ELSE "mixed"
           stuff == [sf.stuff EXCEPT ![l] = f.stuff]
           stamp == [sf.stamp EXCEPT ![l] = f.stamp]
           longer == [state |-> state, game |-> sf.game, has |-> sf.has \cup {l},
                      stuff |-> stuff, stamp |-> stamp, locked |-> sf.locked]
<1>1. AddLevel(sf, l, f) = longer
  <2>1. sf = [state |-> sf.state, game |-> sf.game, has |-> sf.has, stuff |-> sf.stuff,
              stamp |-> sf.stamp, locked |-> sf.locked]
    BY DEF SaveFile
  <2> HIDE DEF stuff, stamp, state
  <2>2. AddLevel(sf, l, f) = [sf EXCEPT !.state = state, !.has = sf.has \cup {l},
                                        !.stuff = stuff, !.stamp = stamp]
    BY DEF AddLevel, stuff, stamp, state
  <2> QED
    BY <2>1, <2>2
<1>2. f.stuff \in SUBSET Things /\ f.stamp \in Nat
  BY DEF LevelFile
<1>3. stuff \in [Levels -> SUBSET Things] /\ stamp \in [Levels -> Nat]
  BY <1>2 DEF SaveFile
<1>4. state \in {"none", "short", "good", "mixed"} /\ sf.has \cup {l} \subseteq Levels
  BY DEF SaveFile
<1>5. sf.game \in GameState /\ sf.locked \in BOOLEAN
  BY DEF SaveFile
<1>6. longer \in SaveFile
  BY <1>3, <1>4, <1>5 DEF SaveFile
<1> QED
  BY <1>1, <1>6

(* The world of a game is a world.                                         *)
LEMMA NoWorldType == NoWorld \in World
BY LedgerAssumption DEF NoWorld, World

LEMMA WorldType ==
  ASSUME NEW g \in GameState, NEW on \in SUBSET Levels,
         NEW at \in [Levels -> SUBSET Things], NEW left \in [Levels -> Nat],
         g.cur \in Levels
  PROVE  WorldOf(g, on, at, left) \in World
BY LedgerAssumption DEF WorldOf, World, GameState
(* What the world of a game consists of.                                   *)
LEMMA WorldFields ==
  ASSUME NEW g, NEW on, NEW at, NEW left
  PROVE  LET w == WorldOf(g, on, at, left) IN
         /\ w.cur = g.cur /\ w.inv = g.inv /\ w.moves = g.moves
         /\ w.levels = on \cup {g.cur}
         /\ \A l \in Levels :
              /\ w.at[l] = IF l \in on \cup {g.cur} THEN at[l] ELSE {}
              /\ w.left[l] = IF l \in on \ {g.cur} THEN left[l] ELSE 0
BY DEF WorldOf

(* Two worlds are the same when they agree on every level.                 *)
LEMMA SameWorld ==
  ASSUME NEW v \in World, NEW w \in World,
         v.cur = w.cur, v.inv = w.inv, v.moves = w.moves, v.levels = w.levels,
         \A l \in Levels : v.at[l] = w.at[l] /\ v.left[l] = w.left[l]
  PROVE  v = w
<1>1. v.at = w.at /\ v.left = w.left
  BY DEF World
<1>2. /\ v = [cur |-> v.cur, inv |-> v.inv, moves |-> v.moves, levels |-> v.levels,
              at |-> v.at, left |-> v.left]
      /\ w = [cur |-> w.cur, inv |-> w.inv, moves |-> w.moves, levels |-> w.levels,
              at |-> w.at, left |-> w.left]
  BY DEF World
<1> QED
  BY <1>1, <1>2

----------------------------------------------------------------------------
(* Type correctness.                                                       *)

(* The points at which a level is in memory, with a number of its own.     *)
Loaded == {"rest_create", "rest_write", "resumed", "ckpt", "ckpt_level", "ckpt_lock",
           "ckpt_state", "play", "leave", "discard", "arrive", "save_create",
           "save_current", "save_levels", "save_unlink", "save_unlock"}

(* Typing by itself is not inductive: a game state may name no level at    *)
(* all, and level files are indexed by the level it names.  Where a level  *)
(* is read or written there is one.                                        *)
Placed ==
  /\ lock0.state = "whole" => lock0.game.cur \in Levels
  /\ savef.state = "good" => savef.game.cur \in Levels
  /\ pc \in Loaded => game.cur \in Levels
  /\ pc \in {"rest_write", "leave", "discard", "arrive"} => dest \in Levels
  /\ pc \in {"rec_level", "util_level", "util_state"} => lock0.state = "whole"

TypeInv == TypeOK /\ Placed

(* The first state.                                                        *)
LEMMA TypeInit == Init => TypeInv
<1> SUFFICES ASSUME Init PROVE TypeInv
  OBVIOUS
<1> USE DEF Init
<1>1. DiskTypes
  BY LevelFileType, LockFileType, EmptySaveType, NoGameType DEF DiskTypes, NoFile, LevelFile
<1>2. MemoryTypes
  BY NoGameType DEF MemoryTypes
<1>3. ControlTypes
  BY LedgerAssumption, NoWorldType DEF ControlTypes, Points
<1>4. HistoryTypes
  BY NoWorldType DEF HistoryTypes
<1>5. Placed
  BY DEF Placed, Loaded, NoLock, NoSave
<1> QED
  BY <1>1, <1>2, <1>3, <1>4, <1>5 DEF TypeInv, TypeOK

(* What an action leaves alone keeps its type.                             *)
LEMMA Untouched ==
  ASSUME TypeInv
  PROVE  /\ UNCHANGED disk => DiskTypes'
         /\ UNCHANGED <<memory, hackpid>> => MemoryTypes'
         /\ UNCHANGED <<pc, control>> => ControlTypes'
         /\ UNCHANGED <<history, count>> => HistoryTypes'
BY DEF TypeInv, TypeOK, DiskTypes, MemoryTypes, ControlTypes, HistoryTypes, disk, memory,
       control, history, count

(* The same for the process that ends.                                     *)
LEMMA ExitTypes ==
  ASSUME TypeInv, Exit, UNCHANGED hackpid
  PROVE  MemoryTypes' /\ ControlTypes' /\ pc' = "off"
<1>1. MemoryTypes'
  BY NoGameType DEF TypeInv, TypeOK, MemoryTypes, Exit
<1>2. ControlTypes'
  BY LedgerAssumption, NoWorldType DEF Exit, ControlTypes, Points
<1> QED
  BY <1>1, <1>2 DEF Exit

(* The world in memory is a world whenever a level is loaded.              *)
LEMMA MemoryWorldType == ASSUME TypeInv, pc \in Loaded PROVE MemoryWorld \in World
<1>1. game \in GameState /\ game.exists \in SUBSET Levels /\ game.cur \in Levels
  BY DEF TypeInv, TypeOK, MemoryTypes, GameState, Placed
<1>2. Stuff(lfile) \in [Levels -> SUBSET Things] /\ Stamp(lfile) \in [Levels -> Nat]
  BY DEF TypeInv, TypeOK, DiskTypes, LevelFile, Stuff, Stamp
<1>3. [Stuff(lfile) EXCEPT ![game.cur] = here] \in [Levels -> SUBSET Things]
  BY <1>2 DEF TypeInv, TypeOK, MemoryTypes
<1> QED
  BY <1>1, <1>2, <1>3, WorldType DEF MemoryWorld

(* A level file copied to the end of the save file.                        *)
LEMMA CopyType ==
  ASSUME TypeInv, NEW l \in Levels
  PROVE  /\ lfile[l] \in LevelFile
         /\ AddLevel(savef, l, lfile[l]) \in SaveFile
         /\ AddLevel(savef, l, lfile[l]).game = savef.game
         /\ AddLevel(savef, l, lfile[l]).state \in {savef.state, "mixed"}
<1>1. lfile[l] \in LevelFile /\ savef \in SaveFile
  BY DEF TypeInv, TypeOK, DiskTypes
<1> QED
  BY <1>1, AddLevelType

(* Starting the program.                                                   *)
LEMMA StartTypes == ASSUME TypeInv, Start PROVE TypeInv'
<1> USE DEF At, disk, memory, control, history, count
<1>1. CASE LockFree
  <2>1. MemoryTypes'
    BY <1>1 DEF LockFree, NewSession, TypeInv, TypeOK, MemoryTypes, Placed, Loaded
  <2>2. ControlTypes'
    BY <1>1 DEF LockFree, NewSession, TypeInv, TypeOK, ControlTypes, Points
  <2>3. Placed'
    BY <1>1 DEF LockFree, NewSession, TypeInv, Placed, Loaded
  <2> QED
    BY <1>1, <2>1, <2>2, <2>3, Untouched DEF LockFree, NewSession, TypeInv, TypeOK
<1>2. CASE DestroyOldGame
  <2>1. MemoryTypes'
    BY <1>2 DEF DestroyOldGame, NewSession, TypeInv, TypeOK, MemoryTypes, Placed,
       Loaded
  <2>2. ControlTypes'
    BY <1>2, NoWorldType DEF DestroyOldGame, NewSession, TypeInv, TypeOK,
       ControlTypes, Points
  <2>3. HistoryTypes'
    BY <1>2, NoWorldType DEF DestroyOldGame, NewSession, TypeInv, TypeOK,
       HistoryTypes
  <2>4. Placed'
    BY <1>2 DEF DestroyOldGame, NewSession, TypeInv, Placed, Loaded, TypeOK,
       ControlTypes
  <2> QED
    BY <1>2, <2>1, <2>2, <2>3, <2>4, Untouched DEF DestroyOldGame, NewSession,
       TypeInv, TypeOK
<1>3. CASE RecoverNothing
  <2>1. DiskTypes'
    BY <1>3, LockFileType DEF RecoverNothing, RemoveShortLock, NewSession, TypeInv,
       TypeOK, DiskTypes, MemoryTypes, GameState, Placed, Loaded
  <2>2. MemoryTypes'
    BY <1>3 DEF RecoverNothing, RemoveShortLock, NewSession, TypeInv, TypeOK,
       MemoryTypes, Placed, Loaded
  <2>3. Placed'
    BY <1>3 DEF RecoverNothing, RemoveShortLock, NewSession, TypeInv, Placed,
       Loaded, NoLock
  <2> QED
    BY <1>3, <2>1, <2>2, <2>3, Untouched DEF RecoverNothing, RemoveShortLock,
       NewSession, TypeInv, TypeOK
<1>4. CASE RecoverRefused
  <2>1. MemoryTypes'
    BY <1>4 DEF RecoverRefused, NewSession, TypeInv, TypeOK, MemoryTypes
  <2>2. Placed'
    BY <1>4 DEF RecoverRefused, TypeInv, Placed, Loaded
  <2> QED
    BY <1>4, <2>1, <2>2, Untouched DEF RecoverRefused, TypeInv, TypeOK
<1>5. CASE RecoverOpen
  <2>1. DiskTypes'
    BY <1>5, EmptySaveType DEF RecoverOpen, NewSession, TypeInv, TypeOK, DiskTypes,
       MemoryTypes, GameState, Placed, Loaded
  <2>2. MemoryTypes'
    BY <1>5 DEF RecoverOpen, NewSession, TypeInv, TypeOK, MemoryTypes, Placed,
       Loaded
  <2>3. ControlTypes'
    BY <1>5, NoWorldType DEF RecoverOpen, NewSession, TypeInv, TypeOK, ControlTypes,
       Points
  <2>4. HistoryTypes'
    BY <1>5, NoWorldType DEF RecoverOpen, NewSession, TypeInv, TypeOK, HistoryTypes
  <2>5. Placed'
    BY <1>5 DEF RecoverOpen, NewSession, TypeInv, Placed, Loaded, NoSave, ShortSave
  <2> QED
    BY <1>5, <2>1, <2>2, <2>3, <2>4, <2>5 DEF RecoverOpen, NewSession, TypeInv,
       TypeOK
<1>6. CASE EraseLevel
  <2>1. DiskTypes'
    BY <1>6, LevelFileType DEF EraseLevel, IsFirst, TypeInv, TypeOK, DiskTypes,
       MemoryTypes, GameState, Placed, Loaded
  <2>2. ControlTypes'
    BY <1>6 DEF EraseLevel, IsFirst, TypeInv, TypeOK, ControlTypes
  <2>3. Placed'
    BY <1>6 DEF EraseLevel, IsFirst, TypeInv, Placed, Loaded, TypeOK, ControlTypes
  <2> QED
    BY <1>6, <2>1, <2>2, <2>3, Untouched DEF EraseLevel, IsFirst, TypeInv, TypeOK
<1>7. CASE EraseLock
  <2>1. DiskTypes'
    BY <1>7, LockFileType DEF EraseLock, TypeInv, TypeOK, DiskTypes, MemoryTypes,
       GameState, Placed, Loaded
  <2>2. ControlTypes'
    BY <1>7 DEF EraseLock, TypeInv, TypeOK, ControlTypes, Points
  <2>3. Placed'
    BY <1>7 DEF EraseLock, TypeInv, Placed, Loaded, NoLock, TypeOK, ControlTypes
  <2> QED
    BY <1>7, <2>1, <2>2, <2>3, Untouched DEF EraseLock, TypeInv, TypeOK
<1>8. CASE GotLock
  <2>1. DiskTypes'
    BY <1>8, LockFileType DEF GotLock, TypeInv, TypeOK, DiskTypes, MemoryTypes,
       GameState, Placed, Loaded
  <2>2. ControlTypes'
    BY <1>8 DEF GotLock, TypeInv, TypeOK, ControlTypes, Points
  <2>3. Placed'
    BY <1>8 DEF GotLock, TypeInv, Placed, Loaded, ShortLock
  <2> QED
    BY <1>8, <2>1, <2>2, <2>3, Untouched DEF GotLock, TypeInv, TypeOK
<1> QED
  BY <1>1, <1>2, <1>3, <1>4, <1>5, <1>6, <1>7, <1>8 DEF Start

(* recover_savefile().                                                     *)
LEMMA RecoverTypes == ASSUME TypeInv, Recover PROVE TypeInv'
<1> USE DEF At, disk, memory, control, history, count
<1>1. CASE RecoverLevel
  <2> DEFINE cur == lock0.game.cur
             state == [ShortSave EXCEPT !.state = "good", !.game = lock0.game]
  <2>1. cur \in Levels /\ lock0.game \in GameState /\ lfile[cur] \in LevelFile
    BY <1>1 DEF RecoverLevel, TypeInv, TypeOK, DiskTypes, Placed, LockFile
  <2>2. state \in SaveFile /\ state.game = lock0.game
    BY <2>1, GoodSaveType
  <2>3. /\ AddLevel(state, cur, lfile[cur]) \in SaveFile
        /\ AddLevel(state, cur, lfile[cur]).game = lock0.game
    BY <2>1, <2>2, AddLevelType
  <2> HIDE DEF state
  <2>4. CASE lfile[cur].state = "none"
    <3>1. savef' = NoSave /\ Exit /\ UNCHANGED <<lfile, lock0, hackpid, history, count>>
      BY <1>1, <2>4 DEF RecoverLevel
    <3>2. DiskTypes'
      BY <3>1, EmptySaveType DEF TypeInv, TypeOK, DiskTypes
    <3>3. Placed'
      BY <3>1 DEF TypeInv, Placed, Loaded, NoSave, Exit
    <3> QED
      BY <3>1, <3>2, <3>3, ExitTypes, Untouched DEF TypeInv, TypeOK
  <2>5. CASE lfile[cur].state # "none"
    <3>1. /\ savef' = AddLevel(state, cur, lfile[cur])
          /\ todo' = Present \ {cur} /\ pc' = "rec_copy"
          /\ UNCHANGED <<lfile, lock0, memory, hackpid, dest, saving, history, count>>
      BY <1>1, <2>5 DEF RecoverLevel, state
    <3>2. DiskTypes'
      BY <3>1, <2>3 DEF TypeInv, TypeOK, DiskTypes
    <3>3. ControlTypes'
      BY <3>1 DEF TypeInv, TypeOK, ControlTypes, Points, Present
    <3>4. Placed'
      BY <3>1, <2>1, <2>3 DEF TypeInv, Placed, Loaded
    <3> QED
      BY <3>1, <3>2, <3>3, <3>4, Untouched DEF TypeInv, TypeOK
  <2> QED
    BY <2>4, <2>5
<1>2. CASE RecoverCopy
  <2>1. PICK l \in Levels : savef' = AddLevel(savef, l, lfile[l]) /\ todo' = todo \ {l}
    BY <1>2 DEF RecoverCopy
  <2>2. savef' \in SaveFile /\ savef'.game = savef.game /\ savef'.state \in {savef.state, "mixed"}
    BY <2>1, CopyType
  <2>3. DiskTypes'
    BY <1>2, <2>2 DEF RecoverCopy, TypeInv, TypeOK, DiskTypes
  <2>4. ControlTypes'
    BY <1>2, <2>1 DEF RecoverCopy, TypeInv, TypeOK, ControlTypes
  <2>5. Placed'
    BY <1>2, <2>2 DEF RecoverCopy, TypeInv, Placed, Loaded
  <2> QED
    BY <1>2, <2>3, <2>4, <2>5, Untouched DEF RecoverCopy, TypeInv, TypeOK
<1>3. CASE RecoverUnlinkLock
  <2>1. DiskTypes'
    BY <1>3, LockFileType DEF RecoverUnlinkLock, TypeInv, TypeOK, DiskTypes,
       MemoryTypes, GameState, Placed, Loaded
  <2>2. ControlTypes'
    BY <1>3 DEF RecoverUnlinkLock, TypeInv, TypeOK, ControlTypes, Points, DiskTypes,
       SaveFile
  <2>3. Placed'
    BY <1>3 DEF RecoverUnlinkLock, TypeInv, Placed, Loaded, NoLock, TypeOK,
       ControlTypes
  <2> QED
    BY <1>3, <2>1, <2>2, <2>3, Untouched DEF RecoverUnlinkLock, TypeInv, TypeOK
<1>4. CASE RecoverUnlink
  <2>1. DiskTypes'
    BY <1>4, LevelFileType DEF RecoverUnlink, IsFirst, TypeInv, TypeOK, DiskTypes,
       MemoryTypes, GameState, Placed, Loaded
  <2>2. ControlTypes'
    BY <1>4 DEF RecoverUnlink, IsFirst, TypeInv, TypeOK, ControlTypes, Points
  <2>3. Placed'
    BY <1>4 DEF RecoverUnlink, IsFirst, TypeInv, Placed, Loaded, TypeOK,
       ControlTypes
  <2> QED
    BY <1>4, <2>1, <2>2, <2>3, Untouched DEF RecoverUnlink, IsFirst, TypeInv, TypeOK
<1> QED
  BY <1>1, <1>2, <1>3, <1>4 DEF Recover

(* dorecover() and newgame().                                              *)
LEMMA RestoreTypes == ASSUME TypeInv, Restore PROVE TypeInv'
<1> USE DEF At, disk, memory, control, history, count
<1>1. CASE NewGame
  <2>1. MemoryTypes'
    BY <1>1, NoGameType, LevelsAreNumbers, LedgerAssumption DEF NewGame, TypeInv,
       TypeOK, MemoryTypes, GameState, Placed, Loaded
  <2>2. ControlTypes'
    BY <1>1, NoGameType, NoWorldType DEF NewGame, TypeInv, TypeOK, ControlTypes,
       Points
  <2>3. HistoryTypes'
    BY <1>1, NoWorldType DEF NewGame, TypeInv, TypeOK, HistoryTypes, MemoryTypes,
       DiskTypes, LevelFile, GameState
  <2>4. Placed'
    BY <1>1, LedgerAssumption DEF NewGame, TypeInv, Placed, Loaded, TypeOK,
       MemoryTypes, GameState
  <2> QED
    BY <1>1, <2>1, <2>2, <2>3, <2>4, Untouched DEF NewGame, TypeInv, TypeOK
<1>2. CASE RestoreUnreadable
  <2>1. [savef EXCEPT !.locked = TRUE] \in SaveFile
    BY DEF TypeInv, TypeOK, DiskTypes, SaveFile
  <2>2. DiskTypes'
    BY <1>2, <2>1, EmptySaveType, EmptyLockType DEF RestoreUnreadable, TypeInv, TypeOK,
       DiskTypes
  <2>3. savef'.state # "good"
    BY <1>2 DEF RestoreUnreadable, NoSave, TypeInv, TypeOK, DiskTypes, SaveFile
  <2>4. Placed'
    BY <1>2, <2>3 DEF RestoreUnreadable, TypeInv, Placed, Loaded, NoLock, Exit
  <2> QED
    BY <1>2, <2>2, <2>4, Untouched, ExitTypes DEF RestoreUnreadable, TypeInv, TypeOK
<1>3. CASE RestoreState
  <2>1. savef' \in SaveFile /\ savef'.game = savef.game /\ savef'.state = savef.state
    BY <1>3 DEF RestoreState, TypeInv, TypeOK, DiskTypes, SaveFile
  <2>2. DiskTypes'
    BY <1>3, <2>1 DEF RestoreState, TypeInv, TypeOK, DiskTypes
  <2>3. /\ savef.game \in GameState /\ savef.game.cur \in Levels
        /\ savef.stuff \in [Levels -> SUBSET Things] /\ savef.has \in SUBSET Levels
    BY <1>3 DEF RestoreState, Restorable, TypeInv, TypeOK, DiskTypes, SaveFile, Placed
  <2>4. MemoryTypes'
    BY <1>3, <2>3 DEF RestoreState, TypeInv, TypeOK, MemoryTypes
  <2>5. ControlTypes'
    BY <1>3, <2>3 DEF RestoreState, TypeInv, TypeOK, ControlTypes, Points
  <2>6. HistoryTypes'
    BY <1>3 DEF RestoreState, TypeInv, TypeOK, HistoryTypes
  <2>7. Placed'
    BY <1>3, <2>1, <2>3 DEF RestoreState, TypeInv, Placed, Loaded
  <2> QED
    BY <2>2, <2>4, <2>5, <2>6, <2>7 DEF TypeInv, TypeOK
<1>4. CASE RestoreCreate
  <2>1. PICK l \in Levels :
          /\ lfile' = [lfile EXCEPT ![l] = ShortFile]
          /\ game' = [game EXCEPT !.exists = @ \cup {l}]
          /\ dest' = l
    BY <1>4 DEF RestoreCreate, TypeInv, TypeOK, ControlTypes
  <2>2. DiskTypes'
    BY <1>4, <2>1, LevelFileType DEF RestoreCreate, TypeInv, TypeOK, DiskTypes, ShortFile,
       NoFile, LevelFile
  <2>3. MemoryTypes' /\ game'.cur = game.cur
    BY <1>4, <2>1 DEF RestoreCreate, TypeInv, TypeOK, MemoryTypes, GameState
  <2>4. ControlTypes'
    BY <1>4, <2>1, LevelsAreNumbers DEF RestoreCreate, TypeInv, TypeOK, ControlTypes, Points
  <2>5. Placed'
    BY <1>4, <2>1, <2>3 DEF RestoreCreate, TypeInv, Placed, Loaded
  <2> QED
    BY <1>4, <2>2, <2>3, <2>4, <2>5, Untouched DEF RestoreCreate, TypeInv, TypeOK
<1>5. CASE RestoreWrite
  <2>1. DiskTypes'
    BY <1>5, LevelFileType DEF RestoreWrite, TimeStamp, TypeInv, TypeOK, DiskTypes,
       MemoryTypes, GameState, Placed, Loaded, SaveFile, LevelFile
  <2>2. MemoryTypes'
    BY <1>5, LevelsAreNumbers, LedgerAssumption DEF RestoreWrite, TimeStamp,
       TypeInv, TypeOK, MemoryTypes, GameState, DiskTypes, SaveFile, Placed, Loaded
  <2>3. ControlTypes'
    BY <1>5, LevelsAreNumbers, LedgerAssumption DEF RestoreWrite, TimeStamp,
       TypeInv, TypeOK, ControlTypes, Points
  <2>4. Placed'
    BY <1>5 DEF RestoreWrite, TimeStamp, TypeInv, Placed, Loaded, TypeOK,
       MemoryTypes, GameState, ControlTypes
  <2> QED
    BY <1>5, <2>1, <2>2, <2>3, <2>4, Untouched DEF RestoreWrite, TimeStamp, TypeInv,
       TypeOK
<1>6. CASE RestoreCurrent
  <2>1. DiskTypes'
    BY <1>6, EmptySaveType DEF RestoreCurrent, DeleteSavefile, TypeInv, TypeOK,
       DiskTypes, MemoryTypes, GameState, Placed, Loaded, SaveFile, LevelFile
  <2>2. MemoryTypes'
    BY <1>6 DEF RestoreCurrent, DeleteSavefile, TypeInv, TypeOK, MemoryTypes,
       DiskTypes, SaveFile, Placed, Loaded
  <2>3. ControlTypes'
    BY <1>6 DEF RestoreCurrent, DeleteSavefile, TypeInv, TypeOK, ControlTypes,
       Points
  <2>4. HistoryTypes'
    BY <1>6 DEF RestoreCurrent, DeleteSavefile, TypeInv, TypeOK, HistoryTypes
  <2>5. Placed'
    BY <1>6 DEF RestoreCurrent, DeleteSavefile, TypeInv, Placed, Loaded, NoSave,
       TypeOK, ControlTypes
  <2> QED
    BY <1>6, <2>1, <2>2, <2>3, <2>4, <2>5 DEF RestoreCurrent, DeleteSavefile,
       TypeInv, TypeOK
<1>7. CASE Resume
  <2>1. MemoryTypes'
    BY <1>7 DEF Resume, TypeInv, TypeOK, MemoryTypes, Placed, Loaded
  <2>2. ControlTypes'
    BY <1>7 DEF Resume, TypeInv, TypeOK, ControlTypes, Points
  <2>3. Placed'
    BY <1>7 DEF Resume, TypeInv, Placed, Loaded
  <2> QED
    BY <1>7, <2>1, <2>2, <2>3, Untouched DEF Resume, TypeInv, TypeOK
<1> QED
  BY <1>1, <1>2, <1>3, <1>4, <1>5, <1>6, <1>7 DEF Restore

(* save_currentstate().                                                    *)
LEMMA CheckpointTypes == ASSUME TypeInv, Checkpoint PROVE TypeInv'
<1> USE DEF At, disk, memory, control, history, count
<1>1. CASE CkptCreate
  <2>1. DiskTypes'
    BY <1>1, LevelFileType DEF CkptCreate, TypeInv, TypeOK, DiskTypes, MemoryTypes,
       GameState, Placed, Loaded
  <2>2. MemoryTypes'
    BY <1>1, LevelsAreNumbers, LedgerAssumption DEF CkptCreate, TypeInv, TypeOK,
       MemoryTypes, GameState, Placed, Loaded
  <2>3. ControlTypes'
    BY <1>1 DEF CkptCreate, TypeInv, TypeOK, ControlTypes, Points, MemoryTypes,
       GameState
  <2>4. HistoryTypes'
    BY <1>1 DEF CkptCreate, TypeInv, TypeOK, HistoryTypes
  <2>5. Placed'
    BY <1>1 DEF CkptCreate, TypeInv, Placed, Loaded, TypeOK, MemoryTypes, GameState
  <2> QED
    BY <1>1, <2>1, <2>2, <2>3, <2>4, <2>5 DEF CkptCreate, TypeInv, TypeOK
<1>2. CASE CkptCreateFails
  <2>1. ControlTypes'
    BY <1>2 DEF CkptCreateFails, TypeInv, TypeOK, ControlTypes, Points
  <2>2. Placed'
    BY <1>2 DEF CkptCreateFails, TypeInv, Placed, Loaded
  <2> QED
    BY <1>2, <2>1, <2>2, Untouched DEF CkptCreateFails, TypeInv, TypeOK
<1>3. CASE CkptLevel
  <2>1. DiskTypes'
    BY <1>3, LevelFileType DEF CkptLevel, TypeInv, TypeOK, DiskTypes, MemoryTypes,
       GameState, Placed, Loaded
  <2>2. MemoryTypes'
    BY <1>3, LevelsAreNumbers, LedgerAssumption DEF CkptLevel, TypeInv, TypeOK,
       MemoryTypes, GameState, Placed, Loaded
  <2>3. ControlTypes'
    BY <1>3 DEF CkptLevel, TypeInv, TypeOK, ControlTypes, Points
  <2>4. Placed'
    BY <1>3 DEF CkptLevel, TypeInv, Placed, Loaded, TypeOK, MemoryTypes, GameState
  <2> QED
    BY <1>3, <2>1, <2>2, <2>3, <2>4, Untouched DEF CkptLevel, TypeInv, TypeOK
<1>4. CASE CkptLock
  <2>1. DiskTypes'
    BY <1>4, LockFileType DEF CkptLock, RewriteLock, TypeInv, TypeOK, DiskTypes,
       MemoryTypes, GameState, Placed, Loaded
  <2>2. ControlTypes'
    BY <1>4 DEF CkptLock, RewriteLock, TypeInv, TypeOK, ControlTypes, Points
  <2>3. HistoryTypes'
    BY <1>4 DEF CkptLock, RewriteLock, TypeInv, TypeOK, HistoryTypes
  <2>4. Placed'
    BY <1>4 DEF CkptLock, RewriteLock, TypeInv, Placed, Loaded, ShortLock
  <2>5. MemoryTypes'
    BY <1>4 DEF CkptLock, RewriteLock, TypeInv, TypeOK, MemoryTypes, GameState
  <2> QED
    BY <1>4, <2>1, <2>2, <2>3, <2>4, <2>5 DEF TypeInv, TypeOK
<1>5. CASE CkptLockFails
  <2>1. ControlTypes'
    BY <1>5 DEF CkptLockFails, RewriteLock, TypeInv, TypeOK, ControlTypes, Points,
       MemoryTypes, GameState
  <2>2. HistoryTypes'
    BY <1>5 DEF CkptLockFails, RewriteLock, TypeInv, TypeOK, HistoryTypes
  <2>3. Placed'
    BY <1>5 DEF CkptLockFails, RewriteLock, TypeInv, Placed, Loaded, TypeOK,
       ControlTypes
  <2> QED
    BY <1>5, <2>1, <2>2, <2>3, Untouched DEF CkptLockFails, RewriteLock, TypeInv,
       TypeOK
<1>6. CASE CkptState
  <2>1. DiskTypes'
    BY <1>6, LockFileType DEF CkptState, TypeInv, TypeOK, DiskTypes, MemoryTypes,
       GameState, Placed, Loaded
  <2>2. MemoryTypes'
    BY <1>6 DEF CkptState, GameState, TypeInv, TypeOK, MemoryTypes, Placed, Loaded
  <2>3. ControlTypes'
    BY <1>6, NoWorldType, MemoryWorldType DEF CkptState, TypeInv, TypeOK,
       ControlTypes, Points
  <2>4. HistoryTypes'
    BY <1>6, NoWorldType, MemoryWorldType DEF CkptState, TypeInv, TypeOK,
       HistoryTypes, MemoryTypes, Placed, Loaded
  <2>5. Placed'
    BY <1>6, LockFileType DEF CkptState, TypeInv, Placed, Loaded, TypeOK,
       MemoryTypes
  <2> QED
    BY <1>6, <2>1, <2>2, <2>3, <2>4, <2>5 DEF CkptState, TypeInv, TypeOK
<1> QED
  BY <1>1, <1>2, <1>3, <1>4, <1>5, <1>6 DEF Checkpoint

(* goto_level().                                                           *)
LEMMA ChangeLevelTypes == ASSUME TypeInv, ChangeLevel PROVE TypeInv'
<1> USE DEF At, disk, memory, control, history, count
<1>1. ASSUME NEW l \in Levels, GotoLevel(l) PROVE TypeInv'
  <2>1. DiskTypes'
    BY <1>1, LevelFileType DEF GotoLevel, StayBehind, TypeInv, TypeOK, DiskTypes,
       MemoryTypes, GameState, Placed, Loaded
  <2>2. MemoryTypes'
    BY <1>1, LevelsAreNumbers, LedgerAssumption DEF GotoLevel, StayBehind, TypeInv,
       TypeOK, MemoryTypes, GameState, Placed, Loaded
  <2>3. ControlTypes'
    BY <1>1, LevelsAreNumbers, LedgerAssumption DEF GotoLevel, StayBehind, TypeInv,
       TypeOK, ControlTypes, Points, MemoryTypes, GameState
  <2>4. HistoryTypes'
    BY <1>1 DEF GotoLevel, StayBehind, TypeInv, TypeOK, HistoryTypes
  <2>5. Placed'
    BY <1>1 DEF GotoLevel, StayBehind, TypeInv, Placed, Loaded, TypeOK, MemoryTypes,
       GameState, ControlTypes
  <2> QED
    BY <1>1, <2>1, <2>2, <2>3, <2>4, <2>5 DEF GotoLevel, StayBehind, TypeInv, TypeOK
<1>2. CASE LeaveLevel
  <2>1. DiskTypes'
    BY <1>2, LevelFileType DEF LeaveLevel, CantGoBack, TypeInv, TypeOK, DiskTypes,
       MemoryTypes, GameState, Placed, Loaded
  <2>2. MemoryTypes'
    BY <1>2, LevelsAreNumbers, LedgerAssumption DEF LeaveLevel, CantGoBack, TypeInv,
       TypeOK, MemoryTypes, GameState, Placed, Loaded
  <2>3. ControlTypes'
    BY <1>2 DEF LeaveLevel, CantGoBack, TypeInv, TypeOK, ControlTypes, Points,
       MemoryTypes, GameState
  <2>4. HistoryTypes'
    BY <1>2 DEF LeaveLevel, CantGoBack, TypeInv, TypeOK, HistoryTypes, MemoryTypes,
       DiskTypes, LevelFile, GameState
  <2>5. Placed'
    BY <1>2 DEF LeaveLevel, CantGoBack, TypeInv, Placed, Loaded, TypeOK,
       MemoryTypes, GameState, ControlTypes
  <2> QED
    BY <1>2, <2>1, <2>2, <2>3, <2>4, <2>5 DEF LeaveLevel, CantGoBack, TypeInv,
       TypeOK
<1>3. CASE DiscardLevel
  <2>1. PICK l \in Levels :
          /\ gone' = gone \cup lfile[l].stuff
          /\ lfile' = [lfile EXCEPT ![l] = NoFile]
          /\ Deleted(l)
          /\ todo' = todo \ {l}
    BY <1>3 DEF DiscardLevel
  <2>2. DiskTypes'
    BY <1>3, <2>1, EmptyFileType DEF DiscardLevel, TypeInv, TypeOK, DiskTypes
  <2>3. MemoryTypes' /\ game'.cur = game.cur
    BY <1>3, <2>1 DEF DiscardLevel, Deleted, TypeInv, TypeOK, MemoryTypes, GameState
  <2>4. ControlTypes'
    BY <1>3, <2>1 DEF DiscardLevel, TypeInv, TypeOK, ControlTypes
  <2>5. lfile[l].stuff \in SUBSET Things
    BY DEF TypeInv, TypeOK, DiskTypes, LevelFile
  <2>6. HistoryTypes'
    BY <1>3, <2>1, <2>5 DEF DiscardLevel, TypeInv, TypeOK, HistoryTypes
  <2>7. Placed'
    BY <1>3, <2>3 DEF DiscardLevel, TypeInv, Placed, Loaded
  <2> QED
    BY <2>2, <2>3, <2>4, <2>6, <2>7 DEF TypeInv, TypeOK
<1>4. CASE DiscardMigrations
  <2>1. MemoryTypes'
    BY <1>4, LevelsAreNumbers, LedgerAssumption DEF DiscardMigrations, TypeInv,
       TypeOK, MemoryTypes, GameState, Placed, Loaded
  <2>2. ControlTypes'
    BY <1>4 DEF DiscardMigrations, TypeInv, TypeOK, ControlTypes, Points
  <2>3. HistoryTypes'
    BY <1>4 DEF DiscardMigrations, TypeInv, TypeOK, HistoryTypes, MemoryTypes,
       DiskTypes, LevelFile, GameState
  <2>4. Placed'
    BY <1>4 DEF DiscardMigrations, TypeInv, Placed, Loaded, TypeOK, MemoryTypes,
       GameState, ControlTypes
  <2> QED
    BY <1>4, <2>1, <2>2, <2>3, <2>4, Untouched DEF DiscardMigrations, TypeInv,
       TypeOK
<1>5. CASE ArriveNew
  <2>1. MemoryTypes'
    BY <1>5, LevelsAreNumbers, LedgerAssumption DEF ArriveNew, TypeInv, TypeOK,
       MemoryTypes, GameState, Placed, Loaded
  <2>2. ControlTypes'
    BY <1>5, LevelsAreNumbers, LedgerAssumption DEF ArriveNew, TypeInv, TypeOK,
       ControlTypes, Points, MemoryTypes, GameState
  <2>3. Placed'
    BY <1>5 DEF ArriveNew, TypeInv, Placed, Loaded, TypeOK, MemoryTypes, GameState,
       ControlTypes
  <2> QED
    BY <1>5, <2>1, <2>2, <2>3, Untouched DEF ArriveNew, TypeInv, TypeOK
<1>6. CASE ArriveBack
  <2>1. MemoryTypes'
    BY <1>6, LevelsAreNumbers, LedgerAssumption DEF ArriveBack, OurFile, TypeInv,
       TypeOK, MemoryTypes, GameState, DiskTypes, LevelFile, Placed, Loaded
  <2>2. ControlTypes'
    BY <1>6, LevelsAreNumbers, LedgerAssumption DEF ArriveBack, OurFile, TypeInv,
       TypeOK, ControlTypes, Points, MemoryTypes, GameState
  <2>3. Placed'
    BY <1>6 DEF ArriveBack, OurFile, TypeInv, Placed, Loaded, TypeOK, MemoryTypes,
       GameState, ControlTypes
  <2> QED
    BY <1>6, <2>1, <2>2, <2>3, Untouched DEF ArriveBack, OurFile, TypeInv, TypeOK
<1>7. CASE ArriveTricked
  <2>1. ControlTypes'
    BY <1>7 DEF ArriveTricked, OurFile, TypeInv, TypeOK, ControlTypes, Points,
       MemoryTypes, GameState
  <2>2. HistoryTypes'
    BY <1>7 DEF ArriveTricked, OurFile, TypeInv, TypeOK, HistoryTypes
  <2>3. Placed'
    BY <1>7 DEF ArriveTricked, OurFile, TypeInv, Placed, Loaded, TypeOK,
       ControlTypes
  <2> QED
    BY <1>7, <2>1, <2>2, <2>3, Untouched DEF ArriveTricked, OurFile, TypeInv, TypeOK
<1> QED
  BY <1>1, <1>2, <1>3, <1>4, <1>5, <1>6, <1>7 DEF ChangeLevel

(* dosave0().                                                              *)
LEMMA SaveTypes == ASSUME TypeInv, Save PROVE TypeInv'
<1> USE DEF At, disk, memory, control, history, count
<1>1. CASE SaveCreate
  <2>1. DiskTypes'
    BY <1>1, EmptySaveType DEF SaveCreate, TypeInv, TypeOK, DiskTypes, MemoryTypes,
       GameState, Placed, Loaded
  <2>2. ControlTypes'
    BY <1>1 DEF SaveCreate, TypeInv, TypeOK, ControlTypes, Points
  <2>3. Placed'
    BY <1>1 DEF SaveCreate, TypeInv, Placed, Loaded, NoSave, ShortSave
  <2> QED
    BY <1>1, <2>1, <2>2, <2>3, Untouched DEF SaveCreate, TypeInv, TypeOK
<1>2. CASE SaveCreateFails
  <2>1. DiskTypes'
    BY <1>2, EmptySaveType DEF SaveCreateFails, DeleteSavefile, TypeInv, TypeOK,
       DiskTypes, MemoryTypes, GameState, Placed, Loaded
  <2>2. MemoryTypes'
    BY <1>2 DEF SaveCreateFails, DeleteSavefile, TypeInv, TypeOK, MemoryTypes,
       Placed, Loaded
  <2>3. ControlTypes'
    BY <1>2, NoWorldType DEF SaveCreateFails, DeleteSavefile, TypeInv, TypeOK,
       ControlTypes, Points, MemoryTypes, GameState
  <2>4. HistoryTypes'
    BY <1>2, NoWorldType DEF SaveCreateFails, DeleteSavefile, TypeInv, TypeOK,
       HistoryTypes
  <2>5. Placed'
    BY <1>2 DEF SaveCreateFails, DeleteSavefile, TypeInv, Placed, Loaded, NoSave,
       TypeOK, ControlTypes
  <2> QED
    BY <1>2, <2>1, <2>2, <2>3, <2>4, <2>5 DEF SaveCreateFails, DeleteSavefile,
       TypeInv, TypeOK
<1>3. CASE SaveCurrent
  <2> DEFINE state == [ShortSave EXCEPT !.state = "good", !.game = SavedGame(game')]
             file == WholeFile(hackpid, here, game.moves)
  <2>1. MemoryTypes' /\ game'.cur = game.cur /\ game.cur \in Levels
    BY <1>3 DEF SaveCurrent, TypeInv, TypeOK, MemoryTypes, GameState, Placed, Loaded
  <2>2. state \in SaveFile /\ state.game.cur = game.cur
    BY <2>1, GoodSaveType, SavedGameType DEF MemoryTypes
  <2>3. file \in LevelFile
    BY LevelFileType DEF TypeInv, TypeOK, MemoryTypes, GameState
  <2>4. /\ AddLevel(state, game.cur, file) \in SaveFile
        /\ AddLevel(state, game.cur, file).game = state.game
    BY <2>1, <2>2, <2>3, AddLevelType
  <2>5. savef' = AddLevel(state, game.cur, file)
    BY <1>3 DEF SaveCurrent, SavedState
  <2> HIDE DEF state, file
  <2>6. DiskTypes'
    BY <1>3, <2>4, <2>5 DEF SaveCurrent, TypeInv, TypeOK, DiskTypes
  <2>7. ControlTypes'
    BY <1>3 DEF SaveCurrent, TypeInv, TypeOK, ControlTypes, Points, MemoryTypes, GameState
  <2>8. Placed'
    BY <1>3, <2>1, <2>2, <2>4, <2>5 DEF SaveCurrent, TypeInv, Placed, Loaded
  <2> QED
    BY <1>3, <2>1, <2>6, <2>7, <2>8, Untouched DEF SaveCurrent, TypeInv, TypeOK
<1>4. CASE SaveLevel
  <2>1. PICK l \in Levels :
          /\ savef' = AddLevel(savef, l, lfile[l])
          /\ lfile' = [lfile EXCEPT ![l] = NoFile]
          /\ Deleted(l)
          /\ todo' = todo \ {l}
    BY <1>4 DEF SaveLevel
  <2>2. savef' \in SaveFile /\ savef'.game = savef.game /\ savef'.state \in {savef.state, "mixed"}
    BY <2>1, CopyType
  <2>3. DiskTypes'
    BY <1>4, <2>1, <2>2, EmptyFileType DEF SaveLevel, TypeInv, TypeOK, DiskTypes
  <2>4. MemoryTypes' /\ game'.cur = game.cur
    BY <1>4, <2>1 DEF SaveLevel, Deleted, TypeInv, TypeOK, MemoryTypes, GameState
  <2>5. ControlTypes'
    BY <1>4, <2>1 DEF SaveLevel, TypeInv, TypeOK, ControlTypes
  <2>6. HistoryTypes'
    BY <1>4 DEF SaveLevel, TypeInv, TypeOK, HistoryTypes
  <2>7. Placed'
    BY <1>4, <2>2, <2>4 DEF SaveLevel, TypeInv, Placed, Loaded
  <2> QED
    BY <2>3, <2>4, <2>5, <2>6, <2>7 DEF TypeInv, TypeOK
<1>5. CASE SaveTricked
  <2>1. DiskTypes'
    BY <1>5, EmptySaveType DEF SaveTricked, OurFile, IsFirst, TypeInv, TypeOK,
       DiskTypes, MemoryTypes, GameState, Placed, Loaded
  <2>2. ControlTypes'
    BY <1>5 DEF SaveTricked, OurFile, IsFirst, TypeInv, TypeOK, ControlTypes,
       Points, MemoryTypes, GameState
  <2>3. HistoryTypes'
    BY <1>5 DEF SaveTricked, OurFile, IsFirst, TypeInv, TypeOK, HistoryTypes
  <2>4. Placed'
    BY <1>5 DEF SaveTricked, OurFile, IsFirst, TypeInv, Placed, Loaded, NoSave,
       TypeOK, ControlTypes
  <2> QED
    BY <1>5, <2>1, <2>2, <2>3, <2>4, Untouched DEF SaveTricked, OurFile, IsFirst,
       TypeInv, TypeOK
<1>6. CASE SaveClose
  <2>1. ControlTypes'
    BY <1>6 DEF SaveClose, TypeInv, TypeOK, ControlTypes, Points
  <2>2. HistoryTypes'
    BY <1>6 DEF SaveClose, TypeInv, TypeOK, HistoryTypes, ControlTypes
  <2>3. Placed'
    BY <1>6 DEF SaveClose, TypeInv, Placed, Loaded
  <2> QED
    BY <1>6, <2>1, <2>2, <2>3, Untouched DEF SaveClose, TypeInv, TypeOK
<1>7. CASE SaveUnlinkCurrent
  <2>1. DiskTypes'
    BY <1>7, LevelFileType DEF SaveUnlinkCurrent, TypeInv, TypeOK, DiskTypes,
       MemoryTypes, GameState, Placed, Loaded
  <2>2. ControlTypes'
    BY <1>7 DEF SaveUnlinkCurrent, TypeInv, TypeOK, ControlTypes, Points,
       MemoryTypes, GameState
  <2>3. Placed'
    BY <1>7 DEF SaveUnlinkCurrent, TypeInv, Placed, Loaded
  <2> QED
    BY <1>7, <2>1, <2>2, <2>3, Untouched DEF SaveUnlinkCurrent, TypeInv, TypeOK
<1>8. CASE SaveUnlinkLock
  <2>1. DiskTypes'
    BY <1>8, LockFileType DEF SaveUnlinkLock, TypeInv, TypeOK, DiskTypes,
       MemoryTypes, GameState, Placed, Loaded
  <2>2. Placed'
    BY <1>8 DEF SaveUnlinkLock, TypeInv, Placed, Loaded, NoLock, Exit
  <2> QED
    BY <1>8, <2>1, <2>2, Untouched, ExitTypes DEF SaveUnlinkLock, TypeInv, TypeOK
<1> QED
  BY <1>1, <1>2, <1>3, <1>4, <1>5, <1>6, <1>7, <1>8 DEF Save

(* clearlocks().                                                           *)
LEMMA ClearTypes == ASSUME TypeInv, ClearLevel \/ ClearLock PROVE TypeInv'
<1> USE DEF At, disk, memory, control, history, count
<1>1. CASE ClearLevel
  <2>1. DiskTypes'
    BY <1>1, LevelFileType DEF ClearLevel, IsLast, TypeInv, TypeOK, DiskTypes,
       MemoryTypes, GameState, Placed, Loaded
  <2>2. ControlTypes'
    BY <1>1 DEF ClearLevel, IsLast, TypeInv, TypeOK, ControlTypes
  <2>3. Placed'
    BY <1>1 DEF ClearLevel, IsLast, TypeInv, Placed, Loaded, TypeOK, ControlTypes
  <2> QED
    BY <1>1, <2>1, <2>2, <2>3, Untouched DEF ClearLevel, IsLast, TypeInv, TypeOK
<1>2. CASE ClearLock
  <2>1. DiskTypes'
    BY <1>2, LockFileType DEF ClearLock, TypeInv, TypeOK, DiskTypes, MemoryTypes,
       GameState, Placed, Loaded
  <2>2. HistoryTypes'
    BY <1>2 DEF ClearLock, TypeInv, TypeOK, HistoryTypes
  <2>3. Placed'
    BY <1>2 DEF ClearLock, TypeInv, Placed, Loaded, NoLock, Exit, TypeOK,
       ControlTypes
  <2> QED
    BY <1>2, <2>1, <2>2, <2>3, ExitTypes DEF ClearLock, TypeInv, TypeOK
<1> QED
  BY <1>1, <1>2

(* util/recover.                                                           *)
LEMMA UtilRecoverTypes == ASSUME TypeInv, UtilRecover PROVE TypeInv'
<1> USE DEF At, disk, memory, control, history, count
<1>1. CASE UtilOpen
  <2>1. DiskTypes'
    BY <1>1, EmptySaveType DEF UtilOpen, TypeInv, TypeOK, DiskTypes, MemoryTypes,
       GameState, Placed, Loaded
  <2>2. ControlTypes'
    BY <1>1, NoWorldType DEF UtilOpen, TypeInv, TypeOK, ControlTypes, Points
  <2>3. HistoryTypes'
    BY <1>1, NoWorldType DEF UtilOpen, TypeInv, TypeOK, HistoryTypes
  <2>4. Placed'
    BY <1>1 DEF UtilOpen, TypeInv, Placed, Loaded, NoSave, ShortSave
  <2> QED
    BY <1>1, <2>1, <2>2, <2>3, <2>4, Untouched DEF UtilOpen, TypeInv, TypeOK
<1>2. CASE UtilLevel
  <2> DEFINE cur == lock0.game.cur
  <2>1. cur \in Levels
    BY <1>2 DEF UtilLevel, TypeInv, Placed
  <2>2. CASE lfile[cur].state = "none"
    <3>1. Exit /\ UNCHANGED <<lfile, savef, atrisk, lock0, hackpid, kept, torn, gone, count>>
      BY <1>2, <2>2 DEF UtilLevel
    <3>2. Placed'
      BY <3>1 DEF TypeInv, Placed, Loaded, Exit
    <3> QED
      BY <3>1, <3>2, ExitTypes, Untouched DEF TypeInv, TypeOK
  <2>3. CASE lfile[cur].state # "none"
    <3>1. /\ savef' = AddLevel(savef, cur, lfile[cur])
          /\ lfile' = [lfile EXCEPT ![cur] = NoFile]
          /\ atrisk' = TRUE /\ pc' = "util_state"
          /\ UNCHANGED <<memory, control, lock0, hackpid, kept, torn, gone, count>>
      BY <1>2, <2>3 DEF UtilLevel
    <3>2. savef' \in SaveFile /\ savef'.game = savef.game /\ savef'.state \in {savef.state, "mixed"}
      BY <2>1, <3>1, CopyType
    <3>3. DiskTypes'
      BY <3>1, <3>2, EmptyFileType DEF TypeInv, TypeOK, DiskTypes
    <3>4. ControlTypes'
      BY <3>1 DEF TypeInv, TypeOK, ControlTypes, Points
    <3>5. HistoryTypes'
      BY <3>1 DEF TypeInv, TypeOK, HistoryTypes
    <3>6. Placed'
      BY <1>2, <3>1, <3>2 DEF UtilLevel, TypeInv, Placed, Loaded
    <3> QED
      BY <3>1, <3>3, <3>4, <3>5, <3>6, Untouched DEF TypeInv, TypeOK
  <2> QED
    BY <2>2, <2>3
<1>3. CASE UtilState
  <2>1. lock0.game \in GameState /\ lock0.game.cur \in Levels
    BY <1>3 DEF UtilState, TypeInv, TypeOK, DiskTypes, LockFile, Placed
  <2>2. savef' \in SaveFile /\ savef'.game = lock0.game
    BY <1>3, <2>1 DEF UtilState, TypeInv, TypeOK, DiskTypes, SaveFile
  <2>3. DiskTypes'
    BY <1>3, <2>2, EmptyLockType DEF UtilState, TypeInv, TypeOK, DiskTypes
  <2>4. ControlTypes'
    BY <1>3 DEF UtilState, TypeInv, TypeOK, ControlTypes, Points, Present
  <2>5. Placed'
    BY <1>3, <2>1, <2>2 DEF UtilState, TypeInv, Placed, Loaded, NoLock
  <2> QED
    BY <1>3, <2>3, <2>4, <2>5, Untouched DEF UtilState, TypeInv, TypeOK
<1>4. CASE UtilCopy
  <2>1. PICK l \in Levels : /\ savef' = AddLevel(savef, l, lfile[l])
                            /\ lfile' = [lfile EXCEPT ![l] = NoFile]
                            /\ todo' = todo \ {l}
    BY <1>4 DEF UtilCopy
  <2>2. savef' \in SaveFile /\ savef'.game = savef.game /\ savef'.state \in {savef.state, "mixed"}
    BY <2>1, CopyType
  <2>3. DiskTypes'
    BY <1>4, <2>1, <2>2, EmptyFileType DEF UtilCopy, TypeInv, TypeOK, DiskTypes
  <2>4. ControlTypes'
    BY <1>4, <2>1 DEF UtilCopy, TypeInv, TypeOK, ControlTypes
  <2>5. Placed'
    BY <1>4, <2>2 DEF UtilCopy, TypeInv, Placed, Loaded
  <2> QED
    BY <1>4, <2>3, <2>4, <2>5, Untouched DEF UtilCopy, TypeInv, TypeOK
<1>5. CASE UtilClose
  <2>1. HistoryTypes'
    BY <1>5 DEF UtilClose, TypeInv, TypeOK, HistoryTypes
  <2>2. Placed'
    BY <1>5 DEF UtilClose, TypeInv, Placed, Loaded, Exit, TypeOK, ControlTypes
  <2> QED
    BY <1>5, <2>1, <2>2, Untouched, ExitTypes DEF UtilClose, TypeInv, TypeOK
<1> QED
  BY <1>1, <1>2, <1>3, <1>4, <1>5 DEF UtilRecover

(* The moves of the game.                                                  *)
LEMMA PlayTypes == ASSUME TypeInv, Play PROVE TypeInv'
<1> USE DEF At, disk, memory, control, history, count
<1>1. CASE PassTurn
  <2>1. MemoryTypes'
    BY <1>1, LevelsAreNumbers, LedgerAssumption DEF PassTurn, OffLevels, TypeInv,
       TypeOK, MemoryTypes, GameState, Placed, Loaded
  <2>2. Placed'
    BY <1>1 DEF PassTurn, OffLevels, TypeInv, Placed, Loaded, TypeOK, MemoryTypes,
       GameState
  <2> QED
    BY <1>1, <2>1, <2>2, Untouched DEF PassTurn, OffLevels, TypeInv, TypeOK
<1>2. CASE SetCheckpointing
  <2>1. MemoryTypes'
    BY <1>2, LevelsAreNumbers, LedgerAssumption DEF SetCheckpointing, OffLevels,
       TypeInv, TypeOK, MemoryTypes, GameState, Placed, Loaded
  <2>2. HistoryTypes'
    BY <1>2 DEF SetCheckpointing, OffLevels, TypeInv, TypeOK, HistoryTypes
  <2>3. Placed'
    BY <1>2 DEF SetCheckpointing, OffLevels, TypeInv, Placed, Loaded, TypeOK,
       MemoryTypes, GameState
  <2> QED
    BY <1>2, <2>1, <2>2, <2>3, Untouched DEF SetCheckpointing, OffLevels, TypeInv,
       TypeOK
<1>3. CASE IdleCheckpoint
  <2>1. ControlTypes'
    BY <1>3 DEF IdleCheckpoint, OffLevels, TypeInv, TypeOK, ControlTypes, Points
  <2>2. Placed'
    BY <1>3 DEF IdleCheckpoint, OffLevels, TypeInv, Placed, Loaded
  <2> QED
    BY <1>3, <2>1, <2>2, Untouched DEF IdleCheckpoint, OffLevels, TypeInv, TypeOK
<1>4. CASE Die
  <2>1. ControlTypes'
    BY <1>4, NoWorldType DEF Die, TypeInv, TypeOK, ControlTypes, Points,
       MemoryTypes, GameState
  <2>2. HistoryTypes'
    BY <1>4, NoWorldType DEF Die, TypeInv, TypeOK, HistoryTypes
  <2>3. Placed'
    BY <1>4 DEF Die, TypeInv, Placed, Loaded, TypeOK, ControlTypes
  <2> QED
    BY <1>4, <2>1, <2>2, <2>3, Untouched DEF Die, TypeInv, TypeOK
<1>5. CASE SaveOrHangup
  <2>1. MemoryTypes'
    BY <1>5 DEF SaveOrHangup, TypeInv, TypeOK, MemoryTypes
  <2>2. MemoryWorld \in World
    BY <1>5, MemoryWorldType DEF SaveOrHangup, Loaded
  <2>3. ControlTypes'
    BY <1>5, <2>2 DEF SaveOrHangup, TypeInv, TypeOK, ControlTypes, Points
  <2>4. Placed'
    BY <1>5 DEF SaveOrHangup, TypeInv, Placed, Loaded
  <2> QED
    BY <1>5, <2>1, <2>3, <2>4, Untouched DEF SaveOrHangup, TypeInv, TypeOK
<1>6. ASSUME NEW t \in Things, PickUp(t) PROVE TypeInv'
  <2>1. MemoryTypes'
    BY <1>6, LevelsAreNumbers, LedgerAssumption DEF PickUp, OffLevels, TypeInv,
       TypeOK, MemoryTypes, GameState, Placed, Loaded
  <2>2. Placed'
    BY <1>6 DEF PickUp, OffLevels, TypeInv, Placed, Loaded, TypeOK, MemoryTypes,
       GameState
  <2> QED
    BY <1>6, <2>1, <2>2, Untouched DEF PickUp, OffLevels, TypeInv, TypeOK
<1>7. ASSUME NEW t \in Things, Drop(t) PROVE TypeInv'
  <2>1. MemoryTypes'
    BY <1>7, LevelsAreNumbers, LedgerAssumption DEF Drop, OffLevels, TypeInv,
       TypeOK, MemoryTypes, GameState, Placed, Loaded
  <2>2. Placed'
    BY <1>7 DEF Drop, OffLevels, TypeInv, Placed, Loaded, TypeOK, MemoryTypes,
       GameState
  <2> QED
    BY <1>7, <2>1, <2>2, Untouched DEF Drop, OffLevels, TypeInv, TypeOK
<1> QED
  BY <1>1, <1>2, <1>3, <1>4, <1>5, <1>6, <1>7 DEF Play

(* The end of the process by a crash.                                      *)
LEMMA CrashTypes == ASSUME TypeInv, Crash PROVE TypeInv'
<1> USE DEF Crash, disk, count
<1>1. DiskTypes'
  BY Untouched
<1>2. MemoryTypes' /\ ControlTypes' /\ pc' = "off"
  BY ExitTypes
<1>3. HistoryTypes'
  <2>1. torn' \in BOOLEAN /\ atrisk' \in BOOLEAN
    BY Zenon
  <2>2. /\ kept' \in World /\ gone' \in SUBSET Things
        /\ crashes' \in Nat /\ toggles' \in Nat
    BY DEF TypeInv, TypeOK, HistoryTypes
  <2> QED
    BY <2>1, <2>2 DEF HistoryTypes
<1>4. Placed'
  BY <1>2 DEF TypeInv, Placed, Loaded
<1> QED
  BY <1>1, <1>2, <1>3, <1>4 DEF TypeInv, TypeOK

(* Every reachable state is of its type, and names a level where it uses   *)
(* one.                                                                    *)
LEMMA TypeInvariance == Spec => []TypeInv
<1>1. Init => TypeInv
  BY TypeInit
<1>2. ASSUME TypeInv, [Next]_vars PROVE TypeInv'
  <2>1. CASE Program
    BY <1>2, <2>1, StartTypes, RecoverTypes, RestoreTypes, CheckpointTypes, ChangeLevelTypes,
       SaveTypes, ClearTypes, UtilRecoverTypes DEF Program
  <2>2. CASE Play
    BY <1>2, <2>2, PlayTypes
  <2>3. CASE Crash
    BY <1>2, <2>3, CrashTypes
  <2>4. CASE UNCHANGED vars
    <3>1. Placed'
      BY <1>2, <2>4 DEF TypeInv, Placed, Loaded, vars, disk, memory, control
    <3> QED
      BY <1>2, <2>4, <3>1, Untouched DEF TypeInv, TypeOK, vars
  <2> QED
    BY <1>2, <2>1, <2>2, <2>3, <2>4 DEF Next
<1> QED
  BY <1>1, <1>2, PTL DEF Spec

(* Memory, files and history are always of their types: no step reads a    *)
(* level that is none, or writes to a file what does not fit in it.        *)
THEOREM TypeCorrect == Spec => []TypeOK
<1>1. TypeInv => TypeOK
  BY DEF TypeInv
<1> QED
  BY <1>1, TypeInvariance, PTL

=============================================================================
