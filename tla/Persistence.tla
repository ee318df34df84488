---------------------------- MODULE Persistence ----------------------------
(***************************************************************************)
(* Saving, restoring, checkpointing and recovering a game: save.c,         *)
(* restore.c, the level change of do.c, the file handling and self-recovery*)
(* of files.c, the start-up of sys/unix and the util/recover program.      *)
(*                                                                         *)
(* One process at a time works on the files.  "pc" names the point between *)
(* two file operations it has reached; "off" means that no process runs.   *)
(* The process may die at any of these points (Crash): the files stay as   *)
(* they are, a file that was created and not closed is cut short.          *)
(***************************************************************************)
EXTENDS SaveData

CONSTANTS
  MaxMoves, MaxSessions, MaxCrashes, MaxToggles   \* bounds of the instance

VARIABLES
  lfile,      \* lfile[l]: the level file of level l
  lock0,      \* level file 0: lock, and checkpoint of the game state
  savef,      \* the save file

  game,       \* the game state in memory
  here,       \* things on the level in memory
  dogs,       \* things following the hero to another level (gm.mydogs)
  hackpid,    \* process id of the session
  selfrec,    \* program_state.in_self_recover
  havestate,  \* gh.havestate
  hup,        \* program_state.done_hup
  pc, todo, dest,   \* control: where, levels still to do, level gone to

  saving,     \* history: the world a save in progress is writing
  kept,       \* history: the world of the last complete checkpoint or save
  atrisk,     \* history: dying now may lose "kept", or mix it with newer files
  torn,       \* history: the process died while "atrisk"
  gone,       \* history: things left behind for good
  crashes, toggles  \* counters, bounded

disk    == <<lfile, lock0, savef>>
memory  == <<game, here, dogs, selfrec, havestate, hup>>
control == <<todo, dest, saving>>
history == <<kept, atrisk, torn, gone>>
count   == <<crashes, toggles>>
vars    == <<disk, memory, hackpid, pc, control, history, count>>

At(point) == pc = point

(* The world as the running program has it, and as the save file has it.   *)
Stuff(f) == [l \in Levels |-> f[l].stuff]
Stamp(f) == [l \in Levels |-> f[l].stamp]
Present == {l \in Levels : lfile[l].state # "none"}

MemoryWorld == WorldOf(game, game.exists, [Stuff(lfile) EXCEPT ![game.cur] = here],
                       Stamp(lfile))
SaveWorld == WorldOf(savef.game, savef.has, savef.stuff, savef.stamp)
Restorable == savef.state = "good" /\ ~savef.locked
InSaveFile(w) == Restorable /\ SaveWorld = w

(* The checkpoint is that of world w, and each of its levels has its file. *)
(* Recovery takes up every level file there is, so what it puts together   *)
(* is w only when there are no others.                                     *)
LevelFilesHold(w) ==
  /\ lock0.state = "whole"
  /\ \A l \in w.levels : lfile[l].state = "whole"
  /\ WorldOf(lock0.game, w.levels, Stuff(lfile), Stamp(lfile)) = w
InLevelFiles(w) == LevelFilesHold(w) /\ Present \subseteq w.levels

Init ==
  /\ lfile = [l \in Levels |-> NoFile] /\ lock0 = NoLock /\ savef = NoSave
  /\ game = NoGame /\ here = {} /\ dogs = {} /\ hackpid = 0
  /\ selfrec = FALSE /\ havestate = TRUE /\ hup = FALSE
  /\ pc = "off" /\ todo = {} /\ dest = 0 /\ saving = NoWorld
  /\ kept = NoWorld /\ atrisk = FALSE /\ torn = FALSE /\ gone = {}
  /\ crashes = 0 /\ toggles = 0

(* The process ends; nothing of its memory is left.                        *)
Exit ==
  /\ pc' = "off" /\ todo' = {} /\ dest' = 0 /\ saving' = NoWorld
  /\ game' = NoGame /\ here' = {} /\ dogs' = {}
  /\ selfrec' = FALSE /\ havestate' = TRUE /\ hup' = FALSE

----------------------------------------------------------------------------
(* Starting the program: getlock().                                        *)

NewSession == At("off") /\ hackpid < MaxSessions /\ hackpid' = hackpid + 1

LockFree ==
  /\ NewSession /\ lock0.state = "none"
  /\ pc' = "gotlock"
  /\ UNCHANGED <<disk, memory, control, history, count>>

(* An old lock is destroyed because it is days old, or because the player  *)
(* says so.  A checkpoint the player could have had back is given up.      *)
DestroyOldGame ==
  /\ NewSession /\ lock0.state # "none"
  /\ pc' = "erase" /\ todo' = Levels
  /\ torn' = (torn \/ (kept # NoWorld /\ ~InSaveFile(kept)))
  /\ UNCHANGED <<disk, memory, dest, saving, kept, atrisk, gone, count>>

(* recover_savefile() on a level 0 file without a checkpoint: with a save  *)
(* file the lock is removed and the program still gives up, without one    *)
(* "Checkpointing was not in effect".                                      *)
RemoveShortLock_Never == lock0' = lock0
RemoveShortLock == lock0' = IF savef.state # "none" THEN NoLock ELSE lock0

RecoverNothing ==
  /\ NewSession /\ lock0.state = "short"
  /\ RemoveShortLock
  /\ UNCHANGED <<lfile, savef, memory, pc, control, history, count>>

(* recover_savefile() with a checkpoint creates the save file, replacing   *)
(* one that may exist; but not one of mode 0: "Cannot recover savefile".   *)
RecoverRefused ==
  /\ NewSession /\ lock0.state = "whole" /\ savef.locked
  /\ UNCHANGED <<disk, memory, pc, control, history, count>>

RecoverOpen ==
  /\ NewSession /\ lock0.state = "whole" /\ ~savef.locked
  /\ selfrec' = TRUE
  /\ savef' = ShortSave
  /\ pc' = "rec_level"
  /\ torn' = (torn \/ (kept # NoWorld /\ ~InLevelFiles(kept)))
  /\ UNCHANGED <<lfile, lock0, game, here, dogs, havestate, hup, control, kept,
                 atrisk, gone, count>>

EraseLevel ==
  /\ At("erase") /\ todo # {}
  /\ \E l \in Levels : /\ IsFirst(l, todo)
                       /\ lfile' = [lfile EXCEPT ![l] = NoFile]
                       /\ todo' = todo \ {l}
  /\ UNCHANGED <<lock0, savef, memory, hackpid, pc, dest, saving, history, count>>

EraseLock ==
  /\ At("erase") /\ todo = {}
  /\ lock0' = NoLock
  /\ pc' = "gotlock"
  /\ UNCHANGED <<lfile, savef, memory, hackpid, control, history, count>>

(* gotlock: create the lock and write the process id.                      *)
GotLock ==
  /\ At("gotlock")
  /\ lock0' = ShortLock(hackpid)
  /\ pc' = "restore"
  /\ UNCHANGED <<lfile, savef, memory, hackpid, control, history, count>>

----------------------------------------------------------------------------
(* recover_savefile(): the checkpointed level and the game state, then     *)
(* every level file there is; the files are erased when the save file is   *)
(* complete.                                                               *)

RecoverLevel ==
  /\ At("rec_level")
  /\ LET cur == lock0.game.cur IN
       IF lfile[cur].state = "none"
       THEN savef' = NoSave /\ Exit
       ELSE /\ savef' = AddLevel([ShortSave EXCEPT !.state = "good", !.game = lock0.game],
                                 cur, lfile[cur])
            /\ todo' = Present \ {cur}
            /\ pc' = "rec_copy"
            /\ UNCHANGED <<memory, dest, saving>>
  /\ UNCHANGED <<lfile, lock0, hackpid, history, count>>

RecoverCopy ==
  /\ At("rec_copy") /\ todo # {}
  /\ \E l \in Levels : /\ IsFirst(l, todo)
                       /\ savef' = AddLevel(savef, l, lfile[l])
                       /\ todo' = todo \ {l}
  /\ UNCHANGED <<lfile, lock0, memory, hackpid, pc, dest, saving, history, count>>

RecoverUnlinkLock ==
  /\ At("rec_copy") /\ todo = {}
  /\ lock0' = NoLock
  /\ todo' = savef.has
  /\ pc' = "rec_erase"
  /\ UNCHANGED <<lfile, savef, memory, hackpid, dest, saving, history, count>>

RecoverUnlink ==
  /\ At("rec_erase")
  /\ IF todo = {}
     THEN pc' = "gotlock" /\ UNCHANGED <<lfile, todo>>
     ELSE \E l \in Levels : /\ IsFirst(l, todo)
                            /\ lfile' = [lfile EXCEPT ![l] = NoFile]
                            /\ todo' = todo \ {l}
                            /\ UNCHANGED pc
  /\ UNCHANGED <<lock0, savef, memory, hackpid, dest, saving, history, count>>

Recover == RecoverLevel \/ RecoverCopy \/ RecoverUnlinkLock \/ RecoverUnlink

----------------------------------------------------------------------------
(* restore_saved_game(), dorecover() and newgame().                        *)

(* No save file, or none that can be opened: a new game, with the          *)
(* checkpoint option as configured.                                        *)
NewGame ==
  /\ At("restore")
  /\ savef.state = "none" \/ savef.locked
  /\ \E chk \in BOOLEAN : game' = [NoGame EXCEPT !.cur = FirstLevel, !.chk = chk]
  /\ here' = Native[FirstLevel]
  /\ pc' = "ckpt"
  /\ kept' = NoWorld /\ atrisk' = TRUE /\ torn' = FALSE /\ gone' = {}
  /\ UNCHANGED <<disk, dogs, hackpid, selfrec, havestate, hup, control, count>>

(* A save file that cannot be read to its end.  mread() gives up, and once *)
(* restoring has begun deletes the file first; trickery() leaves it locked;*)
(* both may end in really_done(), which removes the lock.                  *)
RestoreUnreadable ==
  /\ At("restore") /\ savef.state \in {"short", "mixed"} /\ ~savef.locked
  /\ savef' \in {savef, NoSave, [savef EXCEPT !.locked = TRUE]}
  /\ lock0' \in {lock0, NoLock}
  /\ Exit
  /\ UNCHANGED <<lfile, hackpid, history, count>>

(* main() locks the save file, "disallow parallel restores".  REST_GSTATE: *)
(* current level and game state.                                           *)
RestoreState ==
  /\ At("restore") /\ Restorable
  /\ savef' = [savef EXCEPT !.locked = TRUE]
  /\ atrisk' = TRUE
  /\ game' = savef.game
  /\ here' = savef.stuff[savef.game.cur]
  /\ todo' = savef.has
  /\ pc' = "rest_create"
  /\ UNCHANGED <<lfile, lock0, dogs, hackpid, selfrec, havestate, hup, dest, saving,
                 kept, torn, gone, count>>

(* restlevelfile(): the current level first, then the others (REST_LEVELS) *)
(* as they come in the save file.                                          *)
RestoreCreate ==
  /\ At("rest_create") /\ todo # {}
  /\ \E l \in todo :
       /\ IF game.cur \in todo THEN l = game.cur ELSE IsFirst(l, todo)
       /\ lfile' = [lfile EXCEPT ![l] = ShortFile]
       /\ game' = [game EXCEPT !.exists = @ \cup {l}]
       /\ dest' = l
  /\ pc' = "rest_write"
  /\ UNCHANGED <<lock0, savef, here, dogs, hackpid, selfrec, havestate, hup, todo,
                 saving, history, count>>

(* savelev() keeps the idle time of a level it only copies.                *)
TimeStamp_Now(l) == game.moves
TimeStamp_Elapsed(l) == savef.stamp[l] - game.moves
TimeStamp(l) == IF l = game.cur THEN game.moves ELSE savef.stamp[l]

RestoreWrite ==
  /\ At("rest_write")
  /\ lfile' = [lfile EXCEPT ![dest] = WholeFile(hackpid, savef.stuff[dest], TimeStamp(dest))]
  /\ game' = [game EXCEPT !.visited = @ \cup {dest}]
  /\ todo' = todo \ {dest} /\ dest' = 0
  /\ pc' = "rest_create"
  /\ UNCHANGED <<lock0, savef, here, dogs, hackpid, selfrec, havestate, hup, saving,
                 history, count>>

(* REST_CURRENT_LEVEL: the current level once more, and the save file goes. *)
DeleteSavefile_Kept == savef' = [savef EXCEPT !.locked = FALSE]
DeleteSavefile == savef' = NoSave

RestoreCurrent ==
  /\ At("rest_create") /\ todo = {}
  /\ here' = savef.stuff[game.cur]
  /\ DeleteSavefile
  /\ atrisk' = TRUE
  /\ pc' = "resumed"
  /\ UNCHANGED <<lfile, lock0, game, dogs, hackpid, selfrec, havestate, hup,
                 control, kept, torn, gone, count>>

(* save_currentstate() at the end of dorecover() returns at once while     *)
(* in_self_recover is set; main() clears that afterwards.                  *)
Resume ==
  /\ At("resumed")
  /\ pc' = IF selfrec THEN "play" ELSE "ckpt"
  /\ selfrec' = FALSE
  /\ UNCHANGED <<disk, game, here, dogs, hackpid, havestate, hup, control, history,
                 count>>

Restore == NewGame \/ RestoreUnreadable \/ RestoreState \/ RestoreCreate
             \/ RestoreWrite \/ RestoreCurrent \/ Resume

----------------------------------------------------------------------------
(* save_currentstate(): the current level, then savestateinlock().         *)

CkptCreate ==
  /\ At("ckpt") /\ game.chk
  /\ lfile' = [lfile EXCEPT ![game.cur] = ShortFile]
  /\ game' = [game EXCEPT !.exists = @ \cup {game.cur}]
  /\ atrisk' = TRUE
  /\ pc' = "ckpt_level"
  /\ UNCHANGED <<lock0, savef, here, dogs, hackpid, selfrec, havestate, hup,
                 control, kept, torn, gone, count>>

(* currentlevel_rewrite() fails: no checkpoint, and the game goes on.      *)
CkptCreateFails ==
  /\ At("ckpt") /\ game.chk
  /\ pc' = "play"
  /\ UNCHANGED <<disk, memory, hackpid, control, history, count>>

CkptLevel ==
  /\ At("ckpt_level")
  /\ lfile' = [lfile EXCEPT ![game.cur] = WholeFile(hackpid, here, game.moves)]
  /\ game' = [game EXCEPT !.visited = @ \cup {game.cur}]
  /\ pc' = "ckpt_lock"
  /\ UNCHANGED <<lock0, savef, here, dogs, hackpid, selfrec, havestate, hup,
                 control, history, count>>

(* With checkpointing off the level is not written; the lock is rewritten  *)
(* once more, to shorten it (havestate).                                   *)
RewriteLock_WhenOn == game.chk
RewriteLock == game.chk \/ havestate

CkptLock ==
  /\ At("ckpt_lock") \/ (At("ckpt") /\ ~game.chk)
  /\ IF RewriteLock
     THEN /\ lock0' = ShortLock(hackpid)
          /\ atrisk' = TRUE
          /\ pc' = "ckpt_state" /\ UNCHANGED havestate
     ELSE pc' = "play" /\ havestate' = game.chk /\ UNCHANGED <<lock0, atrisk>>
  /\ UNCHANGED <<lfile, savef, game, here, dogs, selfrec, hup, hackpid, control, kept,
                 torn, gone, count>>

(* The lock cannot be created again: done(TRICKED).                        *)
CkptLockFails ==
  /\ At("ckpt_lock") \/ (At("ckpt") /\ ~game.chk)
  /\ RewriteLock
  /\ pc' = "over" /\ todo' = game.exists
  /\ torn' = TRUE
  /\ UNCHANGED <<disk, memory, hackpid, dest, saving, kept, atrisk, gone, count>>

CkptState ==
  /\ At("ckpt_state")
  /\ IF game.chk
     THEN /\ lock0' = WholeLock(hackpid, game)
          /\ kept' = MemoryWorld
          /\ atrisk' = FALSE
     ELSE kept' = NoWorld /\ UNCHANGED <<lock0, atrisk>>
  /\ havestate' = game.chk
  /\ pc' = "play"
  /\ UNCHANGED <<lfile, savef, game, here, dogs, hackpid, selfrec, hup, control,
                 torn, gone, count>>

Checkpoint == CkptCreate \/ CkptCreateFails \/ CkptLevel \/ CkptLock \/ CkptLockFails
                \/ CkptState

----------------------------------------------------------------------------
(* Playing.  Everything between two file operations is a move of things    *)
(* between the hero and the level, or the passing of a turn.               *)

OffLevels == UNCHANGED <<disk, hackpid, dogs, selfrec, havestate, control, history>>

PassTurn ==
  /\ At("play") /\ game.moves < MaxMoves
  /\ game' = [game EXCEPT !.moves = @ + 1]
  /\ OffLevels /\ UNCHANGED <<here, hup, pc, count>>

PickUp(t) ==
  /\ At("play") /\ t \in here
  /\ game' = [game EXCEPT !.inv = @ \cup {t}]
  /\ here' = here \ {t}
  /\ OffLevels /\ UNCHANGED <<hup, pc, count>>

Drop(t) ==
  /\ At("play") /\ t \in game.inv
  /\ game' = [game EXCEPT !.inv = @ \ {t}]
  /\ here' = here \cup {t}
  /\ OffLevels /\ UNCHANGED <<hup, pc, count>>

(* The "checkpoint" option is changed during the game.                     *)
SetCheckpointing ==
  /\ At("play") /\ toggles < MaxToggles
  /\ toggles' = toggles + 1
  /\ game' = [game EXCEPT !.chk = ~@]
  /\ OffLevels /\ UNCHANGED <<here, hup, pc, crashes>>

(* do_idlecheckpoint(), when the player has not pressed a key for a while. *)
IdleCheckpoint ==
  /\ At("play")
  /\ pc' = "ckpt"
  /\ OffLevels /\ UNCHANGED <<game, here, hup, count>>

Die ==
  /\ At("play")
  /\ pc' = "over" /\ todo' = game.exists
  /\ kept' = NoWorld /\ atrisk' = TRUE
  /\ UNCHANGED <<disk, memory, hackpid, dest, saving, torn, gone, count>>

(* #save, and end_of_input() which saves because the terminal has gone.    *)
SaveOrHangup ==
  /\ At("play")
  /\ hup' \in BOOLEAN
  /\ pc' = "save_create"
  /\ saving' = MemoryWorld
  /\ UNCHANGED <<disk, game, here, dogs, hackpid, selfrec, havestate, todo, dest,
                 history, count>>

Play == \/ PassTurn \/ SetCheckpointing \/ IdleCheckpoint \/ Die \/ SaveOrHangup
        \/ \E t \in Things : PickUp(t) \/ Drop(t)

----------------------------------------------------------------------------
(* goto_level().  Once currentlevel_rewrite() has cut the current level's  *)
(* file short the hero is leaving; keepdogs() picks the followers.         *)

CantGoBack_AnyDungeon == dest \notin EndLevels
CantGoBack == dest \in EndLevels /\ game.cur \notin EndLevels

StayBehind_Copied(followers) == here
StayBehind(followers) == here \ followers

GotoLevel(newlevel) ==
  /\ At("play") /\ newlevel # game.cur
  /\ game.cur \in EndLevels => newlevel \in EndLevels
  /\ lfile' = [lfile EXCEPT ![game.cur] = ShortFile]
  /\ game' = [game EXCEPT !.exists = @ \cup {game.cur}]
  /\ \E followers \in SUBSET here : dogs' = followers /\ here' = StayBehind(followers)
  /\ dest' = newlevel
  /\ atrisk' = TRUE
  /\ pc' = "leave"
  /\ UNCHANGED <<lock0, savef, hackpid, selfrec, havestate, hup, todo, saving, kept,
                 torn, gone, count>>

(* savelev() of the old level; with no way back it is only released.       *)
LeaveLevel ==
  /\ At("leave")
  /\ here' = {}
  /\ IF CantGoBack
     THEN /\ gone' = gone \cup here
          /\ todo' = game.exists
          /\ pc' = "discard"
          /\ UNCHANGED <<lfile, game>>
     ELSE /\ lfile' = [lfile EXCEPT ![game.cur] = WholeFile(hackpid, here, game.moves)]
          /\ game' = [game EXCEPT !.visited = @ \cup {game.cur}]
          /\ pc' = "arrive"
          /\ UNCHANGED <<gone, todo>>
  /\ UNCHANGED <<lock0, savef, dogs, hackpid, selfrec, havestate, hup, dest, saving,
                 kept, atrisk, torn, count>>

(* delete_levelfile() also says in level_info[] that the file is gone.     *)
Deleted_FlagKept(l) == game' = game
Deleted(l) == game' = [game EXCEPT !.exists = @ \ {l}]

(* Unreachable levels are discarded from the last to the first ...         *)
DiscardLevel ==
  /\ At("discard") /\ todo # {}
  /\ \E l \in Levels : /\ IsLast(l, todo)
                       /\ gone' = gone \cup lfile[l].stuff
                       /\ lfile' = [lfile EXCEPT ![l] = NoFile]
                       /\ Deleted(l)
                       /\ todo' = todo \ {l}
  /\ UNCHANGED <<lock0, savef, here, dogs, hackpid, selfrec, havestate, hup, pc,
                 dest, saving, kept, atrisk, torn, count>>

(* ... and discard_migrations() drops what was on its way to them.         *)
DiscardMigrations ==
  /\ At("discard") /\ todo = {}
  /\ \E lost \in SUBSET game.inv : /\ game' = [game EXCEPT !.inv = @ \ lost]
                                   /\ gone' = gone \cup lost
  /\ pc' = "arrive"
  /\ UNCHANGED <<disk, here, dogs, hackpid, selfrec, havestate, hup, control, kept,
                 atrisk, torn, count>>

(* A level without a file is made now; another one is read back.           *)
ArriveNew ==
  /\ At("arrive") /\ dest \notin game.exists
  /\ game' = [game EXCEPT !.cur = dest, !.visited = @ \ {dest}]
  /\ here' = Native[dest] \cup dogs
  /\ dogs' = {} /\ dest' = 0
  /\ pc' = "ckpt"
  /\ UNCHANGED <<disk, hackpid, selfrec, havestate, hup, todo, saving, history,
                 count>>

(* getlev() insists on the process id of this session.                     *)
OurFile(l) == lfile[l].state = "whole" /\ lfile[l].pid = hackpid

ArriveBack ==
  /\ At("arrive") /\ dest \in game.exists /\ OurFile(dest)
  /\ game' = [game EXCEPT !.cur = dest]
  /\ here' = lfile[dest].stuff \cup dogs
  /\ dogs' = {} /\ dest' = 0
  /\ pc' = "ckpt"
  /\ UNCHANGED <<disk, hackpid, selfrec, havestate, hup, todo, saving, history,
                 count>>

(* tricked_fileremoved() or trickery(): the game is over.                  *)
ArriveTricked ==
  /\ At("arrive") /\ dest \in game.exists /\ ~OurFile(dest)
  /\ pc' = "over" /\ todo' = game.exists
  /\ torn' = TRUE
  /\ UNCHANGED <<disk, memory, hackpid, dest, saving, kept, atrisk, gone, count>>

ChangeLevel == \/ \E l \in Levels : GotoLevel(l)
               \/ LeaveLevel \/ DiscardLevel \/ DiscardMigrations
               \/ ArriveNew \/ ArriveBack \/ ArriveTricked

----------------------------------------------------------------------------
(* dosave0().                                                              *)

SaveCreate ==
  /\ At("save_create") /\ ~savef.locked
  /\ savef' = ShortSave
  /\ pc' = "save_current"
  /\ UNCHANGED <<lfile, lock0, memory, hackpid, control, history, count>>

(* The save file cannot be created.  After a hangup end_of_input() clears  *)
(* the level files all the same.                                           *)
SaveCreateFails ==
  /\ At("save_create")
  /\ DeleteSavefile
  /\ hup' = FALSE
  /\ IF hup THEN pc' = "over" /\ todo' = game.exists /\ torn' = TRUE
            ELSE pc' = "play" /\ UNCHANGED <<todo, torn>>
  /\ saving' = NoWorld
  /\ UNCHANGED <<lfile, lock0, game, here, dogs, hackpid, selfrec, havestate, dest,
                 kept, atrisk, gone, count>>

(* The current level, and the game state before u.uz is zeroed.            *)
SavedState_Zeroed(g) == [SavedGame(g) EXCEPT !.cur = 0]
SavedState(g) == SavedGame(g)

SaveCurrent ==
  /\ At("save_current")
  /\ game' = [game EXCEPT !.visited = @ \cup {game.cur}]
  /\ savef' = AddLevel([ShortSave EXCEPT !.state = "good", !.game = SavedState(game')],
                       game.cur, WholeFile(hackpid, here, game.moves))
  /\ here' = {}
  /\ todo' = game.exists \ {game.cur}
  /\ pc' = "save_levels"
  /\ UNCHANGED <<lfile, lock0, dogs, hackpid, selfrec, havestate, hup, dest, saving,
                 history, count>>

(* The other levels are moved from their files to the save file.           *)
SaveLevel ==
  /\ At("save_levels") /\ todo # {}
  /\ \E l \in Levels : /\ IsFirst(l, todo) /\ OurFile(l)
                       /\ savef' = AddLevel(savef, l, lfile[l])
                       /\ lfile' = [lfile EXCEPT ![l] = NoFile]
                       /\ Deleted(l)
                       /\ todo' = todo \ {l}
  /\ atrisk' = TRUE
  /\ UNCHANGED <<lock0, here, dogs, hackpid, selfrec, havestate, hup, pc, dest,
                 saving, kept, torn, gone, count>>

(* Without the level file the save file is deleted; with one of another    *)
(* process it is left as it is.  The game is over in both cases.           *)
SaveTricked ==
  /\ At("save_levels")
  /\ \E l \in Levels :
       /\ IsFirst(l, todo) /\ ~OurFile(l)
       /\ savef' = IF lfile[l].state = "none" THEN NoSave ELSE savef
  /\ pc' = "over" /\ todo' = game.exists
  /\ torn' = TRUE
  /\ UNCHANGED <<lfile, lock0, memory, hackpid, dest, saving, kept, atrisk, gone,
                 count>>

SaveClose ==
  /\ At("save_levels") /\ todo = {}
  /\ kept' = saving /\ atrisk' = FALSE
  /\ pc' = "save_unlink"
  /\ UNCHANGED <<disk, memory, hackpid, control, torn, gone, count>>

(* delete_levelfile() of the current level, then of the lock; the end.     *)
SaveUnlinkCurrent ==
  /\ At("save_unlink")
  /\ lfile' = [lfile EXCEPT ![game.cur] = IF game.cur \in game.exists THEN NoFile ELSE @]
  /\ pc' = "save_unlock"
  /\ UNCHANGED <<lock0, savef, memory, hackpid, control, history, count>>

SaveUnlinkLock ==
  /\ At("save_unlock")
  /\ lock0' = NoLock
  /\ Exit
  /\ UNCHANGED <<lfile, savef, hackpid, history, count>>

Save == \/ SaveCreate \/ SaveCreateFails \/ SaveCurrent \/ SaveLevel \/ SaveTricked
        \/ SaveClose \/ SaveUnlinkCurrent \/ SaveUnlinkLock

----------------------------------------------------------------------------
(* The game is over: clearlocks(), from the last level file to the lock.   *)

ClearLevel ==
  /\ At("over") /\ todo # {}
  /\ \E l \in Levels : /\ IsLast(l, todo)
                       /\ lfile' = [lfile EXCEPT ![l] = NoFile]
                       /\ todo' = todo \ {l}
  /\ UNCHANGED <<lock0, savef, memory, hackpid, pc, dest, saving, history, count>>

ClearLock ==
  /\ At("over") /\ todo = {}
  /\ lock0' = NoLock
  /\ atrisk' = FALSE
  /\ Exit
  /\ UNCHANGED <<lfile, savef, hackpid, kept, torn, gone, count>>

----------------------------------------------------------------------------
(* util/recover, run by hand after a crash.  Unlike recover_savefile() it  *)
(* erases each file as soon as it is copied, and leaves the save file it   *)
(* has created when the current level is missing.                          *)

UtilOpen ==
  /\ At("off") /\ lock0.state = "whole" /\ ~savef.locked
  /\ savef' = ShortSave
  /\ pc' = "util_level"
  /\ torn' = (torn \/ (kept # NoWorld /\ ~InLevelFiles(kept)))
  /\ UNCHANGED <<lfile, lock0, memory, hackpid, control, kept, atrisk, gone, count>>

UtilLevel ==
  /\ At("util_level")
  /\ LET cur == lock0.game.cur IN
       IF lfile[cur].state = "none"
       THEN Exit /\ UNCHANGED <<lfile, savef, atrisk>>
       ELSE /\ savef' = AddLevel(savef, cur, lfile[cur])
            /\ lfile' = [lfile EXCEPT ![cur] = NoFile]
            /\ atrisk' = TRUE
            /\ pc' = "util_state"
            /\ UNCHANGED <<memory, control>>
  /\ UNCHANGED <<lock0, hackpid, kept, torn, gone, count>>

UtilState ==
  /\ At("util_state")
  /\ savef' = [savef EXCEPT !.game = lock0.game,
                            !.state = IF @ = "short" THEN "good" ELSE @]
  /\ lock0' = NoLock
  /\ todo' = Present
  /\ pc' = "util_copy"
  /\ UNCHANGED <<lfile, memory, hackpid, dest, saving, history, count>>

UtilCopy ==
  /\ At("util_copy") /\ todo # {}
  /\ \E l \in Levels : /\ IsFirst(l, todo)
                       /\ savef' = AddLevel(savef, l, lfile[l])
                       /\ lfile' = [lfile EXCEPT ![l] = NoFile]
                       /\ todo' = todo \ {l}
  /\ UNCHANGED <<lock0, memory, hackpid, pc, dest, saving, history, count>>

UtilClose ==
  /\ At("util_copy") /\ todo = {}
  /\ atrisk' = FALSE
  /\ Exit
  /\ UNCHANGED <<disk, hackpid, kept, torn, gone, count>>

UtilRecover == UtilOpen \/ UtilLevel \/ UtilState \/ UtilCopy \/ UtilClose

----------------------------------------------------------------------------
(* The process dies.                                                       *)
Crash ==
  /\ ~At("off") /\ crashes < MaxCrashes
  /\ crashes' = crashes + 1
  /\ torn' = (torn \/ atrisk) /\ atrisk' = FALSE
  /\ Exit
  /\ UNCHANGED <<disk, hackpid, kept, gone, toggles>>

Start == LockFree \/ DestroyOldGame \/ RecoverNothing \/ RecoverRefused \/ RecoverOpen
           \/ EraseLevel \/ EraseLock \/ GotLock

Program == Start \/ Recover \/ Restore \/ Checkpoint \/ ChangeLevel \/ Save
             \/ ClearLevel \/ ClearLock \/ UtilRecover

Next == Program \/ Play \/ Crash

Spec == Init /\ [][Next]_vars

----------------------------------------------------------------------------
(* Correctness.                                                            *)

Points == {"off", "gotlock", "erase", "rec_level", "rec_copy", "rec_erase", "restore",
           "rest_create", "rest_write", "resumed", "ckpt", "ckpt_level", "ckpt_lock",
           "ckpt_state", "play", "leave", "discard", "arrive", "save_create",
           "save_current", "save_levels", "save_unlink", "save_unlock", "over",
           "util_level", "util_state", "util_copy"}

DiskTypes ==
  lfile \in [Levels -> LevelFile] /\ lock0 \in LockFile /\ savef \in SaveFile
MemoryTypes ==
  /\ game \in GameState /\ here \in SUBSET Things /\ dogs \in SUBSET Things
  /\ hackpid \in Nat
  /\ selfrec \in BOOLEAN /\ havestate \in BOOLEAN /\ hup \in BOOLEAN
ControlTypes ==
  /\ pc \in Points
  /\ todo \in SUBSET Levels /\ dest \in 0 .. MaxLedger /\ saving \in World
HistoryTypes ==
  /\ kept \in World /\ gone \in SUBSET Things
  /\ atrisk \in BOOLEAN /\ torn \in BOOLEAN
  /\ crashes \in Nat /\ toggles \in Nat

TypeOK == DiskTypes /\ MemoryTypes /\ ControlTypes /\ HistoryTypes

(* The points between the end of a restore, or of the making of a new      *)
(* game, and the next step that takes the session's files apart.           *)
Session == {"ckpt", "ckpt_level", "ckpt_lock", "ckpt_state", "play", "leave", "arrive",
            "save_create", "save_current"}
InSession == pc \in Session

(* Every level that level_info[] says is on disk, the current one apart,   *)
(* is there, whole and of this session: neither a level change nor a save  *)
(* ends in tricked_fileremoved() or trickery().                            *)
LevelFilesIntact ==
  (InSession /\ ~torn) => \A l \in game.exists \ {game.cur} : OurFile(l)

(* savestateinlock() finds the lock it checks, with its own process id,    *)
(* whatever crashed before: nothing but another process can remove it.     *)
LockIsOurs == InSession => lock0.state # "none" /\ lock0.pid = hackpid

(* No thing is in two places, and none that was made is nowhere, unless it *)
(* was left behind on entering the endgame.                                *)
Places == [l \in Levels |-> IF l = game.cur THEN here
                            ELSE IF l \in game.exists THEN lfile[l].stuff ELSE {}]
Made == UNION {Native[l] : l \in game.visited \cup {game.cur}}
Conserved ==
  (At("play") /\ ~torn) =>
    /\ \A l \in Levels : Places[l] \cap (game.inv \cup gone) = {}
    /\ \A k, l \in Levels : k # l => Places[k] \cap Places[l] = {}
    /\ game.inv \cap gone = {}
    /\ Made \subseteq game.inv \cup gone \cup UNION {Places[l] : l \in Levels}

(* A restored game is the saved or checkpointed one: hero, clock, place of *)
(* every thing, and for each level the time it was left, which savelev()   *)
(* must keep while dorecover() splits the save file.                       *)
RestoreFaithful == (At("resumed") /\ ~torn /\ kept # NoWorld) => MemoryWorld = kept

(* While no process runs, the last saved or checkpointed world is in the   *)
(* save file or, whole, in the level files, unless the last process died   *)
(* in one of the windows that "atrisk" marks.                              *)
NeverLost ==
  (At("off") /\ ~torn /\ kept # NoWorld) => InSaveFile(kept) \/ LevelFilesHold(kept)

(* recover.txt says of the base name that it "specifies recovery of a      *)
(* separate game": no level file of an earlier game is recovered with it.  *)
SeparateGames ==
  (At("off") /\ ~torn /\ kept # NoWorld) => InSaveFile(kept) \/ InLevelFiles(kept)

(* A game being played is not also in the save file, to be restored a      *)
(* second time.                                                            *)
OneLife == InSession => ~Restorable

(* After a checkpoint made with the option off no older checkpoint is left *)
(* to recover from.                                                        *)
NoOutdatedCheckpoint == (At("play") /\ ~havestate) => lock0.state # "whole"

(* goto_level() never makes anew a level that was visited and discarded    *)
(* (its "returning to discarded level?").                                  *)
NoDiscardedReturn ==
  (At("arrive") /\ ~torn /\ dest \notin game.exists) => dest \notin game.visited

(* restore.c says of the checkpoint at the end of dorecover() that with it *)
(* "recover has something to work with even if the player never changes    *)
(* level": no restored game is played on, with checkpointing in effect,    *)
(* before that checkpoint is begun.                                        *)
RestoreCheckpoints == [][(At("resumed") /\ game.chk) => pc' # "play"]_vars

(* The Guidebook says that a "saved game will be restored automatically    *)
(* the next time you play": no new game is begun over a complete save file.*)
RestoredAutomatically ==
  [][(At("restore") /\ pc' = "ckpt") => savef.state # "good"]_vars

(* recover.txt says that games "can be recovered at the point of the last  *)
(* level change": what is restored after a recovery is that world.         *)
RecoveredAtLevelChange ==
  (At("resumed") /\ selfrec /\ kept # NoWorld) => MemoryWorld = kept

(* What the player does: start the program again and again.  What the code *)
(* does: go on with what it has begun.                                     *)
Working == ~At("off") /\ Program
StartAgain == LockFree \/ RecoverNothing \/ RecoverRefused \/ RecoverOpen
Insistent == Spec /\ WF_vars(Working) /\ WF_vars(StartAgain)

(* Enough sessions are left: one that restores, one before it that only    *)
(* removes a lock left by an unfinished start, and two for each crash to   *)
(* come.                                                                   *)
SessionsLeft ==
  hackpid + 2 * (MaxCrashes - crashes) + (IF lock0.state = "short" THEN 2 ELSE 1)
    <= MaxSessions

(* The kept world is resumed in the end, although the first start after a  *)
(* crash in dorecover() stops with "Couldn't recover old game."; or it is  *)
(* torn, which it also is when the player has it destroyed.                *)
Retrieved ==
  (/\ At("off") /\ kept # NoWorld /\ SessionsLeft
   /\ \/ InLevelFiles(kept) /\ ~savef.locked
      \/ InSaveFile(kept) /\ lock0.state # "whole")
    ~> ((At("resumed") /\ MemoryWorld = kept) \/ torn)
=============================================================================
