------------------------ MODULE PersistenceInvariant ------------------------
(***************************************************************************)
(* Why the kept game comes back whole: what must be true of the files, the *)
(* memory and the last kept world at every point the program may be at,    *)
(* and may die at.  This is the inductive invariant of the safety proofs.  *)
(***************************************************************************)
EXTENDS PersistenceRefines

----------------------------------------------------------------------------
(* Worlds, and the level_info[] flags that go with them.                   *)

(* Every thing is in at most one place: with the hero, on one level, or    *)
(* lost for good; those made with a level of "made" are somewhere, and all *)
(* of them were made with one of "origin".                                 *)
AccountedIn(inv, at, lost, made, origin) ==
  \A t \in Things :
    /\ t \in inv => t \notin lost
    /\ \A l \in Levels : t \in at[l] =>
         t \notin inv /\ t \notin lost /\ \A k \in Levels : t \in at[k] => k = l
    /\ (\E l \in made : t \in Native[l]) =>
         t \in inv \/ t \in lost \/ \E l \in Levels : t \in at[l]
    /\ t \in inv \/ t \in lost \/ (\E l \in Levels : t \in at[l]) =>
         \E l \in origin : t \in Native[l]

Accounted(w, made, origin) == AccountedIn(w.inv, w.at, gone, made, origin)

(* The levels there is no way back to from level l.                        *)
Abroad(l) == IF l \in EndLevels THEN Levels \ EndLevels ELSE {}

(* The flags of game state g fit the set of its levels: what is said to be *)
(* on disk is among them, and so is every level visited, the unreachable   *)
(* ones apart.                                                             *)
Fits(g, levels) ==
  /\ g.exists \subseteq levels
  /\ g.visited \subseteq levels \cup Abroad(g.cur)
  /\ g.cur \notin EndLevels => levels \cap EndLevels = {}

Sound(g, w) ==
  Fits(g, w.levels) /\ Accounted(w, g.visited \cup w.levels, w.levels \cup Abroad(w.cur))

----------------------------------------------------------------------------
(* Files being copied into a save file, which is to hold world w.          *)

(* The game state of world w, its flags apart.                             *)
HeaderOf(g, w) == g.cur = w.cur /\ g.inv = w.inv /\ g.moves = w.moves

(* Level l is in the save file as it is in w; its file is as it is in w.   *)
SavedAs(l, w) == savef.stuff[l] = w.at[l] /\ (l # w.cur => savef.stamp[l] = w.left[l])
FiledAs(l, w) == lfile[l].stuff = w.at[l] /\ (l # w.cur => lfile[l].stamp = w.left[l])

SavedPart(w) ==
  /\ ~savef.locked /\ w.cur \in savef.has /\ savef.has \subseteq w.levels
  /\ \A l \in savef.has : SavedAs(l, w)
  /\ \A l \in w.levels \ savef.has : FiledAs(l, w)

Copying(w) ==
  /\ savef.state = "good" /\ HeaderOf(savef.game, w) /\ SavedPart(w) /\ Sound(savef.game, w)
  /\ todo = w.levels \ savef.has

----------------------------------------------------------------------------
(* One part of the invariant for each stretch of the program.  All of them *)
(* but the first three suppose that the process has not died while "atrisk". *)

(* The lock of this session is not a checkpoint before its first one.      *)
NoCheckpointYet ==
  pc \in {"restore", "rest_create", "rest_write", "resumed"} => lock0.state = "short"

SavingWhatIsPlayed ==
  /\ pc \in {"save_create", "save_current"} => saving = MemoryWorld
  /\ At("save_levels") => saving.cur = game.cur

(* A level that is not of the world holds nothing of it.                   *)
Proper(w) ==
  \A l \in Levels : /\ l \notin w.levels => w.at[l] = {}
                    /\ l \notin w.levels \/ l = w.cur => w.left[l] = 0
HistoryProper == Proper(kept) /\ Proper(saving)

(* No game in memory, and none being put together.                         *)
Idle == {"off", "erase", "gotlock", "restore", "rec_erase", "save_unlink", "save_unlock"}
AtRest ==
  pc \in Idle =>
    /\ InSaveFile(kept) => Sound(savef.game, kept)
    /\ LevelFilesHold(kept) => Sound(lock0.game, kept)
    /\ IF kept = NoWorld THEN ~Restorable /\ lock0.state # "whole"
       ELSE InSaveFile(kept) \/ (At("off") /\ LevelFilesHold(kept))

Recovering ==
  pc \in {"rec_level", "rec_copy", "util_level"} =>
    /\ kept # NoWorld /\ InLevelFiles(kept) /\ Sound(lock0.game, kept)
    /\ IF At("rec_copy") THEN Copying(kept) /\ savef.game = lock0.game
                         ELSE savef = ShortSave

(* util/recover erases as it copies: dying now costs the game.             *)
UtilRecovering ==
  pc \in {"util_state", "util_copy"} =>
    /\ kept # NoWorld /\ atrisk
    /\ \A l \in kept.levels \ savef.has : lfile[l].state = "whole"
    /\ IF At("util_copy") THEN Copying(kept) /\ lock0.state = "none"
       ELSE /\ SavedPart(kept) /\ savef.state = "short"
            /\ Present = kept.levels \ savef.has
            /\ HeaderOf(lock0.game, kept) /\ Sound(lock0.game, kept)

(* The levels read so far are in files of this session.                    *)
Restoring ==
  pc \in {"rest_create", "rest_write"} =>
    /\ kept # NoWorld /\ atrisk /\ SaveWorld = kept /\ Sound(savef.game, kept)
    /\ HeaderOf(game, kept)
    /\ todo \subseteq savef.has /\ (At("rest_write") => dest \in todo \cap game.exists)
    /\ savef.has \ todo \subseteq game.exists \cap game.visited
    /\ game.exists \subseteq kept.levels
    /\ savef.game.visited \subseteq game.visited
    /\ game.visited \subseteq savef.game.visited \cup kept.levels
    /\ \A l \in savef.has \ todo :
         /\ OurFile(l) /\ lfile[l].stuff = savef.stuff[l]
         /\ l # game.cur => lfile[l].stamp = savef.stamp[l]

(* The game as it is played.  Entering the endgame the hero is "away" from *)
(* the levels that are being discarded.                                    *)
InPlay == Session \cup {"resumed", "discard"}
Away == pc \in {"discard", "arrive"} /\ CantGoBack

Resumed == At("resumed") => MemoryWorld = kept

FilesOfSession ==
  pc \in InPlay /\ ~At("discard") =>
    \A l \in game.exists : OurFile(l) \/ (l = game.cur /\ ~At("arrive"))

FlagsOfSession ==
  pc \in InPlay =>
    /\ game.exists \subseteq game.visited \cup {game.cur}
    /\ IF Away THEN (game.visited \cup game.exists \cup {game.cur}) \cap EndLevels = {}
               ELSE Fits(game, game.exists \cup {game.cur})

ThingsOfSession ==
  pc \in InPlay =>
    Accounted(Playing, game.visited \cup {game.cur},
              IF Away THEN Levels \ EndLevels
              ELSE game.exists \cup {game.cur} \cup Abroad(game.cur))

(* Between two levels: the followers are with the hero only, and the level *)
(* left is on disk, or given up.                                           *)
Travelling ==
  pc \in {"leave", "discard", "arrive"} =>
    /\ dest # game.cur /\ (game.cur \in EndLevels => dest \in EndLevels)
    /\ dogs \cap game.inv = {}
    /\ At("leave") => game.cur \in game.exists /\ lfile[game.cur].stuff = {}
    /\ At("arrive") /\ ~Away => game.cur \in game.exists \cap game.visited
    /\ At("discard") => CantGoBack /\ game.exists = todo
    /\ Away => lfile[game.cur].stuff = {}
    /\ At("arrive") /\ Away => game.exists = {}

(* The current level of a checkpoint is written before its game state.     *)
Checkpointing ==
  /\ At("ckpt_level") => game.chk /\ game.cur \in game.exists
  /\ pc \in {"ckpt_lock", "ckpt_state"} /\ game.chk =>
       /\ game.cur \in game.exists
       /\ lfile[game.cur] = WholeFile(hackpid, here, game.moves)

(* Dying is safe only while the checkpoint on disk is the kept world.      *)
Risky == {"resumed", "ckpt_level", "ckpt_lock", "ckpt_state", "leave", "discard",
          "arrive", "over"}
SafeWithCheckpoint ==
  /\ pc \in Risky \ {"ckpt_lock"} => atrisk
  /\ pc \in InPlay \cup {"save_levels"} /\ ~atrisk =>
       /\ kept # NoWorld /\ LevelFilesHold(kept) /\ Sound(lock0.game, kept)
       /\ kept.levels = IF At("save_levels") THEN saving.levels
                        ELSE game.exists \cup {game.cur}

(* A checkpoint on disk is no further than the game: it knows no level the *)
(* game has not visited, and none the game has lost, unless on the other   *)
(* side of the endgame.                                                    *)
Older(flags, visited, levels, cur) ==
  /\ flags.visited \subseteq visited
  /\ flags.cur \in EndLevels => cur \in EndLevels
  /\ (cur \in EndLevels => flags.cur \in EndLevels) => flags.exists \subseteq levels
CheckpointOlder ==
  lock0.state = "whole" =>
    /\ MaxLedger \notin lock0.game.visited
    /\ pc \in InPlay => lock0.game.visited \subseteq game.visited
    /\ pc \in InPlay => (lock0.game.cur \in EndLevels => game.cur \in EndLevels)
    /\ pc \in InPlay /\ ~Away =>
         Older(lock0.game, game.visited, game.exists \cup {game.cur}, game.cur)
    /\ At("save_levels") =>
         Older(lock0.game, savef.game.visited, saving.levels, saving.cur)

Saving == At("save_levels") => Copying(saving)

GameOver == At("over") => kept = NoWorld /\ ~Restorable

Sane ==
  /\ AtRest /\ Recovering /\ UtilRecovering /\ Restoring
  /\ Resumed /\ FilesOfSession /\ FlagsOfSession /\ ThingsOfSession /\ Travelling
  /\ Checkpointing /\ SafeWithCheckpoint /\ CheckpointOlder /\ Saving /\ GameOver

(* All of it: whatever happens to the process next, the kept world is      *)
(* whole in the save file or the level files, unless "atrisk" says that    *)
(* they are being rewritten; what is being written is the world it is to   *)
(* be; and the flags, the files and the things of the game in memory agree *)
(* (save.c, restore.c, do.c, files.c, recover.c).                          *)
Consistent ==
  /\ NoCheckpointYet /\ SavingWhatIsPlayed /\ HistoryProper
  /\ ~torn => Sane
=============================================================================
