------------------------------ MODULE MCTurns ------------------------------
(* Two levels; a hasted vault guard (16) and a fast monster (24).           *)
EXTENDS Turns

MCMons == {1, 2}
MCGuard == {1}
MCLevels == {1, 2}
MCHome == 1
MCSpeed == <<16, 24>>
MCFirst == <<{1, 2}, {}>>
MCHeroSpeeds == {12, 36}
MCBurdens == {0, 2}
=============================================================================
