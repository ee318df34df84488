----------------------- MODULE PersistenceSafety_proofs ---------------------
(***************************************************************************)
(* Safety of Persistence: the lock, the save file and the checkpoint       *)
(* option.                                                                 *)
(***************************************************************************)
EXTENDS Persistence_proofs

(* The points from the creation of the lock to the end of the session.     *)
Held == Session \cup {"restore", "rest_create", "rest_write", "resumed", "discard"}

(* LockIsOurs by itself is not inductive: the session begins to hold the   *)
(* lock at gotlock, long before the game is played.                        *)
LockHeld == pc \in Held => lock0.state # "none" /\ lock0.pid = hackpid

(* savestateinlock() always finds the lock with its own process id.        *)
THEOREM LockAlwaysOurs == Spec => []LockIsOurs
<1>1. Init => LockHeld
  BY DEF Init, LockHeld, Held, Session
<1>2. ASSUME LockHeld, [Next]_vars PROVE LockHeld'
  <2> USE DEF LockHeld, Held, Session, At, disk, memory, control, history, count
  <2>1. CASE Start
    BY <1>2, <2>1 DEF Start, LockFree, DestroyOldGame, RecoverNothing, RecoverRefused,
       RecoverOpen,
       EraseLevel, EraseLock, GotLock, NewSession, ShortLock
  <2>2. CASE Recover
    BY <1>2, <2>2 DEF Recover, RecoverLevel, RecoverCopy, RecoverUnlinkLock,
       RecoverUnlink, Exit
  <2>3. CASE Restore
    BY <1>2, <2>3 DEF Restore, NewGame, RestoreUnreadable, RestoreState,
       RestoreCreate, RestoreWrite, RestoreCurrent, Resume, Exit
  <2>4. CASE Checkpoint
    BY <1>2, <2>4 DEF Checkpoint, CkptCreate, CkptCreateFails, CkptLevel, CkptLock,
       CkptLockFails, CkptState, ShortLock, WholeLock
  <2>5. CASE ChangeLevel
    BY <1>2, <2>5 DEF ChangeLevel, GotoLevel, LeaveLevel, DiscardLevel,
       DiscardMigrations, ArriveNew, ArriveBack, ArriveTricked
  <2>6. CASE Save
    BY <1>2, <2>6 DEF Save, SaveCreate, SaveCreateFails, SaveCurrent, SaveLevel,
       SaveTricked, SaveClose, SaveUnlinkCurrent, SaveUnlinkLock, Exit
  <2>7. CASE ClearLevel \/ ClearLock
    BY <1>2, <2>7 DEF ClearLevel, ClearLock, Exit
  <2>8. CASE UtilRecover
    BY <1>2, <2>8 DEF UtilRecover, UtilOpen, UtilLevel, UtilState, UtilCopy,
       UtilClose, Exit
  <2>9. CASE Play
    BY <1>2, <2>9 DEF Play, PassTurn, SetCheckpointing, IdleCheckpoint, Die,
       SaveOrHangup, PickUp, Drop, OffLevels
  <2>10. CASE Crash
    BY <1>2, <2>10 DEF Crash, Exit
  <2>11. CASE UNCHANGED vars
    BY <1>2, <2>11 DEF vars
  <2> QED
    BY <1>2, <2>1, <2>2, <2>3, <2>4, <2>5, <2>6, <2>7, <2>8, <2>9, <2>10, <2>11 DEF
       Next, Program
<1>3. LockHeld => LockIsOurs
  BY DEF LockHeld, LockIsOurs, InSession, Held
<1> QED
  BY <1>1, <1>2, <1>3, PTL DEF Spec

(* From the deletion of the save file on, and in a new game from its       *)
(* beginning, until the game is written to a save file again, there is     *)
(* nothing in the save file that could be restored.                        *)
Single == Session \cup {"resumed", "discard"}
Unsaved == pc \in Single => ~Restorable

LEMMA UnsavedAlways == Spec => []Unsaved
<1>1. Init => Unsaved
  BY DEF Init, Unsaved, Restorable, Single, Session, NoSave
<1>2. ASSUME Unsaved, [Next]_vars PROVE Unsaved'
  <2> USE DEF Unsaved, Restorable, Single, Session, At, disk, memory, control, history, count
  <2>1. CASE Start
    BY <1>2, <2>1 DEF Start, LockFree, DestroyOldGame, RecoverNothing, RecoverRefused,
       RecoverOpen,
       EraseLevel, EraseLock, GotLock, NewSession
  <2>2. CASE Recover
    BY <1>2, <2>2 DEF Recover, RecoverLevel, RecoverCopy, RecoverUnlinkLock,
       RecoverUnlink, Exit
  <2>3. CASE Restore
    <3>1. CASE NewGame \/ Resume
      BY <1>2, <3>1 DEF NewGame, Resume
    <3>2. CASE RestoreUnreadable
      BY <3>2 DEF RestoreUnreadable, Exit
    <3>3. CASE RestoreState \/ RestoreCreate \/ RestoreWrite
      BY <3>3 DEF RestoreState, RestoreCreate, RestoreWrite
    <3>4. CASE RestoreCurrent
      BY <3>4 DEF RestoreCurrent, DeleteSavefile, NoSave
    <3> QED
      BY <2>3, <3>1, <3>2, <3>3, <3>4 DEF Restore
  <2>4. CASE Checkpoint
    BY <1>2, <2>4 DEF Checkpoint, CkptCreate, CkptCreateFails, CkptLevel, CkptLock,
       CkptLockFails, CkptState
  <2>5. CASE ChangeLevel
    BY <1>2, <2>5 DEF ChangeLevel, GotoLevel, LeaveLevel, DiscardLevel,
       DiscardMigrations, ArriveNew, ArriveBack, ArriveTricked
  <2>6. CASE Save
    BY <1>2, <2>6 DEF Save, SaveCreate, SaveCreateFails, SaveCurrent, SaveLevel,
       SaveTricked, SaveClose, SaveUnlinkCurrent, SaveUnlinkLock, Exit,
       DeleteSavefile, NoSave, ShortSave
  <2>7. CASE ClearLevel \/ ClearLock
    BY <1>2, <2>7 DEF ClearLevel, ClearLock, Exit
  <2>8. CASE UtilRecover
    BY <1>2, <2>8 DEF UtilRecover, UtilOpen, UtilLevel, UtilState, UtilCopy,
       UtilClose, Exit
  <2>9. CASE Play
    BY <1>2, <2>9 DEF Play, PassTurn, SetCheckpointing, IdleCheckpoint, Die,
       SaveOrHangup, PickUp, Drop, OffLevels
  <2>10. CASE Crash
    BY <1>2, <2>10 DEF Crash, Exit
  <2>11. CASE UNCHANGED vars
    BY <1>2, <2>11 DEF vars
  <2> QED
    BY <1>2, <2>1, <2>2, <2>3, <2>4, <2>5, <2>6, <2>7, <2>8, <2>9, <2>10, <2>11 DEF
       Next, Program
<1> QED
  BY <1>1, <1>2, PTL DEF Spec

(* A game being played cannot be restored a second time.                   *)
THEOREM OneLifeAlways == Spec => []OneLife
<1>1. Unsaved => OneLife
  BY DEF Unsaved, OneLife, Restorable, Single, InSession, At
<1> QED
  BY <1>1, UnsavedAlways, PTL

(* While "havestate" is not set, level file 0 holds no game state; and     *)
(* between its creation and the writing of the state it never does.        *)
Shortened ==
  /\ ~havestate => lock0.state # "whole"
  /\ At("ckpt_state") => lock0.state = "short"

(* No checkpoint from before the option was turned off is recovered.       *)
THEOREM NeverOutdated == Spec => []NoOutdatedCheckpoint
<1>1. Init => Shortened
  BY DEF Init, Shortened, NoLock, At
<1>2. ASSUME Shortened, [Next]_vars PROVE Shortened'
  <2> USE DEF Shortened, At, disk, memory, control, history, count
  <2>1. CASE Start
    BY <1>2, <2>1 DEF Start, LockFree, DestroyOldGame, RecoverNothing, RecoverRefused,
       RecoverOpen,
       EraseLevel, EraseLock, GotLock, NewSession, RemoveShortLock, NoLock,
       ShortLock
  <2>2. CASE Recover
    BY <1>2, <2>2 DEF Recover, RecoverLevel, RecoverCopy, RecoverUnlinkLock,
       RecoverUnlink, Exit, NoLock
  <2>3. CASE Restore
    BY <1>2, <2>3 DEF Restore, NewGame, RestoreUnreadable, RestoreState,
       RestoreCreate, RestoreWrite, RestoreCurrent, Resume, Exit
  <2>4. CASE Checkpoint
    BY <1>2, <2>4 DEF Checkpoint, CkptCreate, CkptCreateFails, CkptLevel, CkptLock,
       CkptLockFails, CkptState, RewriteLock, ShortLock
  <2>5. CASE ChangeLevel
    BY <1>2, <2>5 DEF ChangeLevel, GotoLevel, LeaveLevel, DiscardLevel,
       DiscardMigrations, ArriveNew, ArriveBack, ArriveTricked
  <2>6. CASE Save
    BY <1>2, <2>6 DEF Save, SaveCreate, SaveCreateFails, SaveCurrent, SaveLevel,
       SaveTricked, SaveClose, SaveUnlinkCurrent, SaveUnlinkLock, Exit, NoLock
  <2>7. CASE ClearLevel \/ ClearLock
    BY <1>2, <2>7 DEF ClearLevel, ClearLock, Exit, NoLock
  <2>8. CASE UtilRecover
    BY <1>2, <2>8 DEF UtilRecover, UtilOpen, UtilLevel, UtilState, UtilCopy,
       UtilClose, Exit, NoLock
  <2>9. CASE Play
    BY <1>2, <2>9 DEF Play, PassTurn, SetCheckpointing, IdleCheckpoint, Die,
       SaveOrHangup, PickUp, Drop, OffLevels
  <2>10. CASE Crash
    BY <1>2, <2>10 DEF Crash, Exit
  <2>11. CASE UNCHANGED vars
    BY <1>2, <2>11 DEF vars
  <2> QED
    BY <1>2, <2>1, <2>2, <2>3, <2>4, <2>5, <2>6, <2>7, <2>8, <2>9, <2>10, <2>11 DEF
       Next, Program
<1>3. Shortened => NoOutdatedCheckpoint
  BY DEF Shortened, NoOutdatedCheckpoint
<1> QED
  BY <1>1, <1>2, <1>3, PTL DEF Spec
=============================================================================
