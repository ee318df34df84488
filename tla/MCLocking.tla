----------------------------- MODULE MCLocking -----------------------------
(* Instances of Locking for TLC.                                           *)
EXTENDS Locking, TLC

CONSTANTS Agnes, Rudolf

Two == {1, 2}
TwoLetters == {0, 2}
LeftFiles == {1, Agnes}
TenAndSix == 1 :> 10 @@ 2 :> 6
TwoOld == <<[who |-> Rudolf, points |-> 7], [who |-> Agnes, points |-> 5]>>
=============================================================================
