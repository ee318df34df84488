------------------------ MODULE PersistenceRefines -------------------------
(***************************************************************************)
(* Persistence, file operation by file operation, implements Promise.      *)
(***************************************************************************)
EXTENDS Persistence

(* The world being played.  Between two levels the followers are with the  *)
(* hero; while a save is written it is the world it began with; once the   *)
(* save is complete, or the game over, there is none.                      *)
InMemory == {"resumed", "ckpt", "ckpt_level", "ckpt_lock", "ckpt_state", "play",
             "save_create", "save_current"}
WithDogs(w) == [w EXCEPT !.inv = @ \cup dogs]
Playing ==
  CASE pc \in InMemory -> MemoryWorld
    [] pc = "leave" -> WithDogs(MemoryWorld)
    [] pc \in {"discard", "arrive"} ->
         WithDogs(WorldOf(game, game.exists, Stuff(lfile), Stamp(lfile)))
    [] pc = "save_levels" -> saving
    [] OTHER -> NoWorld

P == INSTANCE Promise WITH playing <- Playing, safe <- ~atrisk, lost <- torn, behind <- gone

(* Every file operation is a step of the promise or none: what is resumed  *)
(* is the kept world, whole; nothing is begun over it; only a level change,*)
(* checkpoint, save or restore in progress can cost it (save.c, do.c,      *)
(* restore.c, files.c).                                                    *)
KeepsItsPromise == P!Spec
=============================================================================
