--------------------------- MODULE MCPersistence ---------------------------
(* Instances of Persistence for TLC.  Things do not act on each other, so  *)
(* one of them, the dog, is enough to be lost or doubled.                  *)
EXTENDS PersistenceInvariant

CONSTANT dog

EndgameThree == {3}
NoEndgame == {}

NoDog == [l \in Levels |-> {}]
DogAtStart == [l \in Levels |-> IF l = FirstLevel THEN {dog} ELSE {}]
DogBelow == [l \in Levels |-> IF l = FirstLevel + 1 THEN {dog} ELSE {}]
=============================================================================
