------------------------------ MODULE SaveData ------------------------------
(***************************************************************************)
(* What a game of NetHack leaves on disk, and the worlds those files hold. *)
(*                                                                         *)
(* A dungeon level is known by its ledger number.  The things that matter  *)
(* to saving (objects and monsters alike) are the members of Things; each  *)
(* is either part of the game state, which stands for the hero, the        *)
(* inventory and the migrating chains, or on a level.  A file records      *)
(* whether it is there, whether it was cut short, and what it holds.       *)
(***************************************************************************)
EXTENDS Integers, FiniteSets

CONSTANTS
  MaxLedger,    \* maxledgerno(): ledger number of the last level
  FirstLevel,   \* the level a new game starts on
  EndLevels,    \* the endgame: entering it makes every other level unreachable
  Things,       \* objects and monsters
  Native        \* Native[l]: the things mklev() creates with level l

Levels == 1 .. MaxLedger

ASSUME LedgerAssumption ==
  /\ MaxLedger \in Nat \ {0}
  /\ FirstLevel \in Levels
  /\ EndLevels \subseteq Levels
  /\ Native \in [Levels -> SUBSET Things]

(* mklev() creates new objects and monsters.                               *)
ASSUME FreshAssumption ==
  \A k, l \in Levels : k # l => Native[k] \cap Native[l] = {}

(* The part of memory savegamestate() writes: current level, things with   *)
(* the hero, the level_info[] flags, the clock, the "checkpoint" option.   *)
GameState == [cur : 0 .. MaxLedger, inv : SUBSET Things, visited : SUBSET Levels,
              exists : SUBSET Levels, moves : Nat, chk : BOOLEAN]

NoGame == [cur |-> 0, inv |-> {}, visited |-> {}, exists |-> {}, moves |-> 0,
           chk |-> TRUE]

(* save_dungeon() counts up to maxledgerno() but not including it, so the  *)
(* flags of the last level are never written.                              *)
SavedGame(g) == [g EXCEPT !.visited = @ \ {MaxLedger}, !.exists = @ \ {MaxLedger}]

(* A level file: absent, created but not completely written, or whole.     *)
LevelFile == [state : {"none", "short", "whole"}, pid : Nat, stuff : SUBSET Things,
              stamp : Nat]

NoFile == [state |-> "none", pid |-> 0, stuff |-> {}, stamp |-> 0]
ShortFile == [NoFile EXCEPT !.state = "short"]
WholeFile(pid, stuff, stamp) ==
  [state |-> "whole", pid |-> pid, stuff |-> stuff, stamp |-> stamp]

(* Level file 0, the lock: "short" holds no more than a process id,        *)
(* "whole" is a checkpoint that ends with the game state.                  *)
LockFile == [state : {"none", "short", "whole"}, pid : Nat, game : GameState]

NoLock == [state |-> "none", pid |-> 0, game |-> NoGame]
ShortLock_NoPid(pid) == [state |-> "short", pid |-> 0, game |-> NoGame]
ShortLock(pid) == [state |-> "short", pid |-> pid, game |-> NoGame]
WholeLock(pid, game) == [state |-> "whole", pid |-> pid, game |-> SavedGame(game)]

(* The save file: "short" ends before the game state does, "good" can be   *)
(* read (levels "has" are in it), "mixed" contains a level cut short so    *)
(* that what follows is read at the wrong place.  A "locked" file has      *)
(* mode 0: while dorecover() reads it nobody else can, nor write to it.    *)
SaveFile == [state : {"none", "short", "good", "mixed"}, game : GameState,
             has : SUBSET Levels, stuff : [Levels -> SUBSET Things],
             stamp : [Levels -> Nat], locked : BOOLEAN]

NoSave == [state |-> "none", game |-> NoGame, has |-> {},
           stuff |-> [l \in Levels |-> {}], stamp |-> [l \in Levels |-> 0],
           locked |-> FALSE]
ShortSave == [NoSave EXCEPT !.state = "short"]

(* A save file that ends with level l, as a whole level or as the contents *)
(* of a level file that may have been cut short.                           *)
AddLevel(sf, l, f) ==
  [sf EXCEPT !.state = IF f.state = "whole" THEN @ ELSE "mixed",
             !.has = @ \cup {l},
             !.stuff = [@ EXCEPT ![l] = f.stuff],
             !.stamp = [@ EXCEPT ![l] = f.stamp]]

----------------------------------------------------------------------------
(* A world: where every thing is, and since when each level has been left  *)
(* alone.  What a player would call "my game".                             *)
World == [cur : 0 .. MaxLedger, inv : SUBSET Things, moves : Nat, levels : SUBSET Levels,
          at : [Levels -> SUBSET Things], left : [Levels -> Nat]]

NoWorld == [cur |-> 0, inv |-> {}, moves |-> 0, levels |-> {},
            at |-> [l \in Levels |-> {}], left |-> [l \in Levels |-> 0]]

(* The world of game g when the levels of "on" exist besides the current   *)
(* one, level l holding at[l] and having been left at left[l].             *)
WorldOf(g, on, at, left) ==
  [cur |-> g.cur, inv |-> g.inv, moves |-> g.moves, levels |-> on \cup {g.cur},
   at |-> [l \in Levels |-> IF l \in on \cup {g.cur} THEN at[l] ELSE {}],
   left |-> [l \in Levels |-> IF l \in on \ {g.cur} THEN left[l] ELSE 0]]

(* The first and the last of a non-empty set of ledger numbers.            *)
IsFirst(l, S) == l \in S /\ \A k \in S : l <= k
IsLast(l, S) == l \in S /\ \A k \in S : k <= l
=============================================================================
