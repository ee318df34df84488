----------------------------- MODULE MCBurning -----------------------------
(* Instances of Burning for TLC.  A game starts with one of a few sets of  *)
(* belongings; "spare" has room for what is split off.                     *)
EXTENDS Burning

CONSTANTS first, second, spare

AnObject(kind, quan, age) == [NoObj EXCEPT !.kind = kind, !.where = "inv",
                                           !.quan = quan, !.age = age]
Candelabrum == AnObject("menorah", 1, 0)

Bring(a, b) == [o \in Slots |-> CASE o = first -> a [] o = second -> b [] o = spare -> NoObj]

CandlesAndCandelabrum == Bring(AnObject("candle", 2, 1), Candelabrum)
LampAndOil == Bring(AnObject("lamp", 1, 2), AnObject("oil", 1, 1))
MagicLampAndCandle == Bring(AnObject("magic", 1, 1), AnObject("candle", 1, 2))
TwoPotions == Bring(AnObject("oil", 2, 1), NoObj)

Everything == {CandlesAndCandelabrum, LampAndOil, MagicLampAndCandle, TwoPotions}
OneMark == {1}
=============================================================================
