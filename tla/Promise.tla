------------------------------ MODULE Promise ------------------------------
(***************************************************************************)
(* What saving and checkpointing promise a player, without any files: one  *)
(* game is played at a time; the world that was kept last is the one that  *)
(* comes back, and all of it; nothing is begun over it.  A process that    *)
(* dies while its files are being rewritten breaks the promise ("lost"),   *)
(* one that dies at any other time does not.                               *)
(***************************************************************************)
EXTENDS SaveData

VARIABLES
  playing,   \* the world being played, or NoWorld
  kept,      \* the world to come back to, or NoWorld
  safe,      \* nothing that "kept" needs is being rewritten
  lost,      \* the promise is broken, until a new game is begun
  behind     \* things left behind for good

vars == <<playing, kept, safe, lost, behind>>

ThingsOf(w) == w.inv \cup UNION {w.at[l] : l \in Levels}

Init == playing = NoWorld /\ kept = NoWorld /\ safe = TRUE /\ lost = FALSE /\ behind = {}

(* The first level as it was made, and a hero who carries nothing yet.     *)
NewWorld == WorldOf([NoGame EXCEPT !.cur = FirstLevel], {},
                    [l \in Levels |-> IF l = FirstLevel THEN Native[l] ELSE {}],
                    [l \in Levels |-> 0])

(* A new game, never over one that can come back; nor does a game that has *)
(* ended come back in its place.                                           *)
Begin ==
  /\ playing = NoWorld /\ (kept = NoWorld \/ lost)
  /\ playing' = NewWorld
  /\ kept' = NoWorld /\ ~safe' /\ ~lost' /\ behind' = {}

(* The world that was kept is played on.                                   *)
Return ==
  /\ playing = NoWorld /\ playing' # NoWorld
  /\ lost \/ playing' = kept
  /\ UNCHANGED <<kept, lost, behind>> /\ ~safe'

(* Time passes and things move, but none of them vanishes unless it is     *)
(* left behind.                                                            *)
Go ==
  /\ playing # NoWorld /\ playing' \in World \ {NoWorld}
  /\ playing'.moves >= playing.moves
  /\ lost \/ ThingsOf(playing) \subseteq ThingsOf(playing') \cup behind'
  /\ behind \subseteq behind' /\ (safe' => safe)
  /\ UNCHANGED <<kept, lost>>

(* A checkpoint; one made with checkpointing off keeps nothing.            *)
Keep ==
  /\ playing # NoWorld
  /\ \/ kept' = playing /\ safe'
     \/ kept' = NoWorld /\ safe' = safe
  /\ UNCHANGED <<playing, lost, behind>>

Save ==
  /\ playing # NoWorld /\ playing' = NoWorld
  /\ kept' = playing /\ safe'
  /\ UNCHANGED <<lost, behind>>

(* The hero dies, and with him the way back.                               *)
Die ==
  /\ playing # NoWorld /\ playing' = NoWorld
  /\ kept' = NoWorld /\ ~safe'
  /\ UNCHANGED <<lost, behind>>

(* A file of the game is gone or was changed, or cannot be written.        *)
Tricked ==
  /\ playing # NoWorld /\ playing' = NoWorld /\ lost'
  /\ UNCHANGED <<kept, safe, behind>>

Crash ==
  /\ playing' = NoWorld /\ safe'
  /\ lost' = (lost \/ ~safe)
  /\ UNCHANGED <<kept, behind>>

(* With no game being played: files are taken apart and put together       *)
(* again; the player has an old game destroyed, or recovers an older one   *)
(* over it.                                                                *)
Handle ==
  /\ playing = NoWorld
  /\ UNCHANGED <<playing, kept, lost, behind>>
GiveUp ==
  /\ playing = NoWorld /\ lost'
  /\ UNCHANGED <<playing, kept, safe, behind>>

Next == Begin \/ Return \/ Go \/ Keep \/ Save \/ Die \/ Tricked \/ Crash \/ Handle \/ GiveUp

Spec == Init /\ [][Next]_vars
=============================================================================
