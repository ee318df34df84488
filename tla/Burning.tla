------------------------------ MODULE Burning ------------------------------
(***************************************************************************)
(* Lamps, candles, oil and the candelabrum: the queue of timers and the    *)
(* burn rules of timeout.c, the light sources of light.c, and what the     *)
(* rest of the game does to burning objects (apply.c, invent.c, mkobj.c,   *)
(* potion.c, muse.c), including what happens while the hero is on another  *)
(* level or is praying.                                                    *)
(*                                                                         *)
(* A lit object has a light source and, unless it is a magic lamp, a timer.*)
(* While it burns, "age" is the fuel that will be left when the timer goes *)
(* off; the rest is in the timer.                                          *)
(***************************************************************************)
EXTENDS Integers, Sequences, FiniteSets, SequencesExt, FiniteSetsExt

CONSTANTS
  Slots,        \* objects that can exist
  Levels,       \* dungeon levels
  Belongings,   \* the objects a game may start with: functions on Slots
  LampMarks,    \* fuel at which a burning lamp announces itself: 150, 100, 50, 25
  CandleMarks,  \* the same for candles and the candelabrum: 75, 15
  FullMenorah,  \* candles the candelabrum holds: 7
  LampFull, LampCap,  \* no oil is added above LampFull (1000); LampCap: 1500
  AgeBand,      \* candles merge when their ages fall in one band: 25
  MaxMoves      \* bound of the instance: turns played

ASSUME BurningAssumption ==
  /\ Levels # {} /\ AgeBand \in Nat \ {0}
  /\ LampMarks \cup CandleMarks \cup {FullMenorah, LampFull, LampCap} \subseteq Nat

VARIABLES
  obj,        \* obj[o]: struct obj of o
  timers,     \* gt.timer_base: BURN_OBJECT timers in order of timeout
  lights,     \* lights[o]: number of light sources in gl.light_base with id o
  impossible, \* complaints of impossible()
  elsewhere,  \* elsewhere[l]: timers and light sources saved with level l
  moves, level,
  phase,      \* "play", "arrive" on a level, or run_timers(): "timers"
  praying,    \* turns of prayer left, u.uinvulnerable while it is not 0
  fuel,       \* history: turns o has left to burn
  late        \* history: something was done while a timer was overdue

heap == <<obj, timers, lights, impossible>>
Elapsed == <<elsewhere, moves, level, phase, praying>>
vars == <<heap, elsewhere, moves, level, phase, praying, fuel, late>>

Kinds == {"candle", "lamp", "oil", "thinoil", "menorah", "magic"}
Obj == [kind : Kinds, where : {"none", "inv", "floor", "minv", "migr"}, lev : Levels,
        quan : Nat, spe : Nat, age : Int, lit : BOOLEAN, timed : Nat]
NoObj == [kind |-> "candle", where |-> "none", lev |-> CHOOSE l \in Levels : TRUE,
          quan |-> 0, spe |-> 0, age |-> 0, lit |-> FALSE, timed |-> 0]
Timer == [o : Slots, at : Int]
Saved == [timers : Seq(Timer), lights : [Slots -> Nat]]
Complaints == {"no light source", "cleanup: not lit", "not timed", "not lit",
               "duplicate timer", "no fuel"}

(* A game begins with things that are carried and not lit; candles, also   *)
(* on the candelabrum, have fuel (mksobj_init() gives them 200 or 400).    *)
ASSUME BelongingsAssumption ==
  \A b \in Belongings :
    /\ b \in [Slots -> Obj]
    /\ \A o \in Slots :
         \/ b[o] = NoObj
         \/ /\ b[o].where = "inv" /\ b[o].quan > 0 /\ b[o].age >= 0
            /\ ~b[o].lit /\ b[o].timed = 0
            /\ (b[o].kind = "candle" \/ (b[o].kind = "menorah" /\ b[o].spe > 0)
                => b[o].age > 0)

(* The four parts of the heap as a record that the routines transform.     *)
Heap == [obj |-> obj, timers |-> timers, lights |-> lights, impossible |-> impossible]
SetHeap(m) == /\ obj' = m.obj /\ timers' = m.timers
              /\ lights' = m.lights /\ impossible' = m.impossible
Complain(m, what) == [m EXCEPT !.impossible = @ \cup {what}]

(* Division in C rounds towards zero.                                      *)
CDiv(a, b) == IF a >= 0 THEN a \div b ELSE -((-a) \div b)

----------------------------------------------------------------------------
(* The timer queue.                                                        *)

TimerOf(m, o) == CHOOSE i \in DOMAIN m.timers : m.timers[i].o = o
HasTimer(m, o) == \E i \in DOMAIN m.timers : m.timers[i].o = o
Expiry(m, o) == m.timers[TimerOf(m, o)].at
WithoutTimer(m, o) == [m EXCEPT !.timers = RemoveAt(@, TimerOf(m, o))]

(* insert_timer(): before the first timer that is not earlier.             *)
Position(q, t) == CHOOSE i \in 1 .. Len(q) + 1 :
  /\ \A j \in 1 .. i - 1 : q[j].at < t.at
  /\ i <= Len(q) => q[i].at >= t.at
InsertTimer_Front(q, t) == <<t>> \o q
InsertTimer(q, t) == InsertAt(q, Position(q, t), t)

(* start_timer() when the object has no timer yet.                         *)
StartTimer_Uncounted(m, o, when) ==
  [m EXCEPT !.timers = InsertTimer(@, [o |-> o, at |-> moves + when])]
StartTimer(m, o, when) ==
  [m EXCEPT !.timers = InsertTimer(@, [o |-> o, at |-> moves + when]),
            !.obj[o].timed = @ + 1]

----------------------------------------------------------------------------
(* Light sources and burning.                                              *)

DelLight(m, o) == IF m.lights[o] = 0 THEN Complain(m, "no light source")
                  ELSE [m EXCEPT !.lights[o] = @ - 1]

GoesOut(m, o) == [DelLight(m, o) EXCEPT !.obj[o].lit = FALSE]

(* cleanup_burn(): the fuel not burnt goes back.                           *)
CleanupBurn_Spent(m, o, at) ==
  IF ~m.obj[o].lit THEN Complain(m, "cleanup: not lit") ELSE GoesOut(m, o)
CleanupBurn(m, o, at) ==
  IF ~m.obj[o].lit THEN Complain(m, "cleanup: not lit")
  ELSE [GoesOut(m, o) EXCEPT !.obj[o].age = @ + (at - moves)]

(* stop_timer() as end_burn() calls it: it returns the time that was left, *)
(* and end_burn() takes 0 for "not timed".                                 *)
StopTimer(m, o) ==
  IF ~HasTimer(m, o) THEN Complain(m, "not timed")
  ELSE LET at == Expiry(m, o)
           stopped == CleanupBurn([WithoutTimer(m, o) EXCEPT !.obj[o].timed = @ - 1], o, at)
       IN IF at = moves THEN Complain(stopped, "not timed") ELSE stopped

EndBurn_MagicTimed(m, o, attached) ==
  IF ~m.obj[o].lit THEN Complain(m, "not lit")
  ELSE IF attached THEN StopTimer(m, o) ELSE GoesOut(m, o)
EndBurn(m, o, attached) ==
  CASE ~m.obj[o].lit -> Complain(m, "not lit")
    [] m.obj[o].lit /\ attached /\ m.obj[o].kind # "magic" -> StopTimer(m, o)
    [] OTHER -> GoesOut(m, o)

Marks(kind) == CASE kind = "lamp" -> LampMarks
                 [] kind \in {"candle", "menorah"} -> CandleMarks
                 [] OTHER -> {}

(* How long the next timer of begin_burn() runs: to the next mark.         *)
Turns(ob) ==
  IF ob.kind = "thinoil" THEN CDiv(3 * ob.age + 2, 4)
  ELSE ob.age - Max({0} \cup {x \in Marks(ob.kind) : x < ob.age})

BeginBurn(m, o, alreadyLit) ==
  LET ob == m.obj[o]
      burning ==
        CASE ob.kind = "magic" -> [m EXCEPT !.obj[o].lit = TRUE]
          [] ob.kind # "magic" /\ HasTimer(m, o) ->
               [Complain(m, "duplicate timer") EXCEPT !.obj[o].lit = FALSE]
          [] OTHER -> [StartTimer(m, o, Turns(ob)) EXCEPT !.obj[o].lit = TRUE,
                                                          !.obj[o].age = @ - Turns(ob)]
  IN IF ob.age = 0 /\ ob.kind # "magic" THEN m
     ELSE IF burning.obj[o].lit /\ ~alreadyLit
          THEN [burning EXCEPT !.lights[o] = @ + 1] ELSE burning

(* dealloc_obj(): timers are stopped by obj_stop_timers(), then the light. *)
Dealloc_LeftLit(m, o) ==
  LET untimed == IF m.obj[o].timed = 0 THEN m ELSE WithoutTimer(m, o)
  IN [untimed EXCEPT !.obj[o] = NoObj]
Dealloc(m, o) ==
  LET untimed == IF m.obj[o].timed > 0 /\ HasTimer(m, o)
                 THEN CleanupBurn(WithoutTimer(m, o), o, Expiry(m, o)) ELSE m
      dark == IF untimed.obj[o].lit THEN GoesOut(untimed, o) ELSE untimed
  IN [dark EXCEPT !.obj[o] = NoObj]

(* burn_object(): the timer of o, due at "at", has been taken off the      *)
(* queue.  "timeout while away" when that was in an earlier turn.          *)
UsedUp(m, o) ==
  CASE m.obj[o].kind = "menorah" -> [m EXCEPT !.obj[o].spe = 0]
    [] m.obj[o].kind = "lamp" -> m
    [] OTHER -> Dealloc(m, o)

BurnObject(m, o, at) ==
  LET away == moves - at
      ob == m.obj[o]
  IN CASE at # moves /\ away >= ob.age ->
            UsedUp(EndBurn([m EXCEPT !.obj[o].age = 0], o, FALSE), o)
       [] at # moves /\ away < ob.age ->
            BeginBurn([m EXCEPT !.obj[o].age = @ - away], o, TRUE)
       [] at = moves /\ (ob.age = 0 \/ ob.kind \in {"oil", "thinoil"}) ->
            UsedUp(EndBurn(m, o, FALSE), o)
       [] OTHER -> BeginBurn(m, o, TRUE)

----------------------------------------------------------------------------
(* Stacks.                                                                 *)

(* splitobj(): k of the stack o become the object n, with a timer and a    *)
(* light source of their own.                                              *)
SplitTimers_None(m, o, n) == m
SplitTimers(m, o, n) == IF HasTimer(m, o) THEN StartTimer(m, n, Expiry(m, o) - moves) ELSE m
SplitLight(m, o, n) ==
  IF m.obj[o].lit
  THEN [m EXCEPT !.lights[n] = @ + m.lights[o], !.obj[n].lit = TRUE] ELSE m
SplitObj(m, o, n, k) ==
  LET two == [m EXCEPT !.obj[n] = [m.obj[o] EXCEPT !.quan = k, !.timed = 0, !.lit = FALSE],
                       !.obj[o].quan = @ - k]
  IN SplitLight(SplitTimers(two, o, n), o, n)

Mergable(m, o, p) ==
  LET a == m.obj[o]  b == m.obj[p] IN
  /\ o # p /\ a.where # "none" /\ a.kind = b.kind
  /\ a.kind \in {"candle", "oil", "thinoil"}
  /\ a.lit = b.lit
  /\ IF a.kind = "candle" THEN CDiv(a.age, AgeBand) = CDiv(b.age, AgeBand) ELSE ~a.lit

(* merged(): p is folded into o and freed.                                 *)
Merged(m, o, p) ==
  LET a == m.obj[o]  b == m.obj[p]
      one == [m EXCEPT !.obj[o].quan = @ + b.quan,
                       !.obj[o].age = IF b.lit THEN @
                                      ELSE CDiv(@ * a.quan + b.age * b.quan, a.quan + b.quan)]
  IN Dealloc(IF b.lit THEN EndBurn(one, p, TRUE) ELSE one, p)

(* o arrives in the inventory, where addinv() folds it into a stack it     *)
(* merges with, or on a floor square, where stackobj() folds what lies     *)
(* there into it.                                                          *)
Arrive(m, o, where) ==
  LET put == [m EXCEPT !.obj[o].where = where, !.obj[o].lev = level]
      with == {p \in Slots : /\ Mergable(put, p, o)
                             /\ put.obj[p].where = where
                             /\ where = "floor" => put.obj[p].lev = level}
  IN IF where = "inv"
     THEN IF with = {} THEN {put} ELSE {Merged(put, p, o) : p \in with}
     ELSE {put} \cup {Merged(put, o, p) : p \in with}

----------------------------------------------------------------------------
(* History.  fuel only goes down, by one per turn burnt, except where the  *)
(* rules set it anew: for the objects of "anew", for an unlit stack that   *)
(* has grown, and for what has been split off o.                           *)
FuelLeft(m, o) == m.obj[o].age + (IF HasTimer(m, o) THEN Expiry(m, o) - moves ELSE 0)

Track(m, o, anew) ==
  LET Gone(p) == m.obj[p].where = "none"
      Measured(p) == p \in anew \/ (~m.obj[p].lit /\ m.obj[p].quan > obj[p].quan)
  IN fuel' = [p \in Slots |-> IF Gone(p) THEN 0
                              ELSE IF Measured(p) THEN FuelLeft(m, p)
                              ELSE IF obj[p].where = "none" THEN fuel[o] ELSE fuel[p]]

(* The routines have turned the heap into m.                               *)
Becomes(m, o, anew) ==
  /\ SetHeap(m) /\ Track(m, o, anew)
  /\ late' = (late \/ \E i \in DOMAIN timers : timers[i].at <= moves)
  /\ UNCHANGED Elapsed

Unlit(o) == ~obj[o].lit

Here(o) == /\ obj[o].where \in {"inv", "floor", "minv"}
           /\ obj[o].where # "inv" => obj[o].lev = level
Carried(o) == obj[o].where = "inv"
HeroActs == phase = "play" /\ praying = 0

(* Open to the actions of others.  Attacks have no effect on a hero in     *)
(* prayer, nor on what is carried.                                         *)
Exposed(o) == phase = "play" /\ Here(o) /\ (Carried(o) => praying = 0)

Init ==
  /\ obj \in Belongings
  /\ timers = <<>> /\ lights = [o \in Slots |-> 0] /\ impossible = {}
  /\ elsewhere = [l \in Levels |-> [timers |-> <<>>, lights |-> [o \in Slots |-> 0]]]
  /\ moves = 1 /\ level = NoObj.lev /\ phase = "play" /\ praying = 0
  /\ fuel = [o \in Slots |-> obj[o].age] /\ late = FALSE

----------------------------------------------------------------------------
(* What the hero does with them: apply, dip, pick up, drop.                *)

(* use_lamp() on something unlit, also the end of use_candle().            *)
UseLamp(o) ==
  /\ HeroActs /\ Carried(o) /\ Unlit(o)
  /\ obj[o].kind = "candle" \/ (obj[o].kind \in {"lamp", "magic"} /\ obj[o].age # 0)
  /\ Becomes(BeginBurn(Heap, o, FALSE), o, {})

(* use_candelabrum(): away from the place of the invocation the candles    *)
(* have only half their time.                                              *)
UseCandelabrum(o) ==
  /\ HeroActs /\ Carried(o) /\ Unlit(o) /\ obj[o].kind = "menorah" /\ obj[o].spe > 0
  /\ \E rightPlace \in BOOLEAN :
       LET half == CDiv(obj[o].age + 1, 2)
           m == IF rightPlace THEN Heap
                ELSE IF half = 0 THEN [Complain(Heap, "no fuel") EXCEPT !.obj[o].age = 1]
                ELSE [Heap EXCEPT !.obj[o].age = half]
       IN Becomes(BeginBurn(m, o, FALSE), o, {o})

(* light_cocktail() on unlit oil: one potion is split off and lit; held    *)
(* apart from the others, or dropped.                                      *)
LightCocktail(o) ==
  /\ HeroActs /\ Carried(o) /\ Unlit(o) /\ obj[o].kind \in {"oil", "thinoil"}
  /\ \E n \in Slots, where \in {"inv", "floor"} :
       /\ IF obj[o].quan > 1 THEN obj[n].where = "none" ELSE n = o /\ where = "inv"
       /\ LET one == IF n = o THEN Heap ELSE SplitObj(Heap, o, n, 1)
          IN Becomes([BeginBurn(one, n, FALSE) EXCEPT !.obj[n].where = where,
                                                      !.obj[n].lev = level], o, {})

(* light_cocktail() on lit oil: put out, and merged again unless wielded.  *)
SnuffCocktail(o) ==
  /\ HeroActs /\ Carried(o) /\ obj[o].lit /\ obj[o].kind \in {"oil", "thinoil"}
  /\ \E m \in Arrive(EndBurn(Heap, o, TRUE), o, "inv") : Becomes(m, o, {})

(* end_burn() of a lit object on this level, for whatever reason:          *)
(* use_lamp(), use_candelabrum(), snuff_candle(), snuff_lit(), a scroll of *)
(* darkness.                                                               *)
Snuff(o) ==
  /\ Exposed(o) /\ obj[o].lit
  /\ Becomes(EndBurn(Heap, o, TRUE), o, {})

(* catch_lit(): fire.  A whole stack of potions may burn.                  *)
CatchLit(o) ==
  /\ Exposed(o) /\ Unlit(o)
  /\ obj[o].kind = "magic" \/ obj[o].age # 0
  /\ obj[o].kind = "menorah" => obj[o].spe > 0
  /\ Becomes(BeginBurn(Heap, o, FALSE), o, {})

(* use_candle(): candles are put on the candelabrum; lit ones are put out  *)
(* first, to get at their fuel.                                            *)
Doused(m, c) == IF m.obj[c].lit THEN EndBurn(m, c, TRUE) ELSE m
UseCandle(c, o) ==
  /\ HeroActs /\ Carried(c) /\ Carried(o) /\ obj[c].kind = "candle"
  /\ obj[o].kind = "menorah" /\ obj[o].spe < FullMenorah
  /\ LET room == FullMenorah - obj[o].spe IN
     \E n \in Slots :
       /\ IF obj[c].quan > room THEN obj[n].where = "none" ELSE n = c
       /\ LET taken == Doused(IF n = c THEN Heap ELSE SplitObj(Heap, c, n, room), n)
              candle == taken.obj[n]
              on == [taken EXCEPT !.obj[o].age = IF obj[o].spe = 0 \/ @ > candle.age
                                                 THEN candle.age ELSE @,
                                  !.obj[o].spe = @ + candle.quan]
          IN Becomes(Dealloc(on, n), c, {o})

(* Dipping a lamp into oil; with either of them lit it explodes, and the   *)
(* potion is used up all the same.                                         *)
UseUp(m, p) == IF m.obj[p].quan > 1 THEN [m EXCEPT !.obj[p].quan = @ - 1] ELSE Dealloc(m, p)
FillLamp(o, p) ==
  /\ HeroActs /\ Carried(o) /\ Carried(p)
  /\ obj[o].kind \in {"lamp", "magic"} /\ obj[p].kind \in {"oil", "thinoil"}
  /\ IF obj[o].lit \/ obj[p].lit
     THEN Becomes(UseUp(Heap, p), p, {})
     ELSE /\ obj[o].age <= LampFull
          /\ LET rate == IF obj[p].kind = "oil" THEN 4 ELSE 3
                 m == [Heap EXCEPT !.obj[o].age =
                         Min({@ + CDiv(rate * obj[p].age, 2), LampCap})]
             IN Becomes(UseUp(m, p), p, {o})

(* A stack or a part of it: the object to be moved and the heap with it.   *)
Take(o) == {<<o, Heap>>} \cup
  {<<n, SplitObj(Heap, o, n, k)>> : n \in {s \in Slots : obj[s].where = "none"},
                                    k \in 1 .. obj[o].quan - 1}

(* Dropping, throwing (which snuffs candles) and picking up.               *)
Move(o, to, Prepared(_, _)) ==
  \E t \in Take(o) : \E m \in Arrive(Prepared(t[2], t[1]), t[1], to) : Becomes(m, o, {})

AsIs(m, n) == m
SnuffCandle(m, n) ==
  IF m.obj[n].lit /\ m.obj[n].kind \in {"candle", "menorah"} THEN EndBurn(m, n, TRUE) ELSE m

Drop(o) == HeroActs /\ Carried(o) /\ Move(o, "floor", AsIs)
Throw(o) == HeroActs /\ Carried(o) /\ Move(o, "floor", SnuffCandle)
PickUp(o) == HeroActs /\ obj[o].where = "floor" /\ obj[o].lev = level /\ Move(o, "inv", AsIs)

(* ship_object(): dropped into a hole or down the stairs, it migrates.     *)
FallDown(o) ==
  /\ HeroActs /\ Carried(o)
  /\ \E l \in Levels \ {level} :
       obj' = [obj EXCEPT ![o].where = "migr", ![o].lev = l]
  /\ UNCHANGED <<timers, lights, impossible, Elapsed, fuel, late>>

(* obfree() of anything here: eaten, broken, exploded, disintegrated ...   *)
Destroy(o) ==
  /\ Exposed(o)
  /\ Becomes(Dealloc(Heap, o), o, {})

(* A monster steals or picks up, drops what it has when it dies, and, if   *)
(* it is a green slime in need of fire, drinks burning oil, lit before or  *)
(* not (muse.c).                                                           *)
MonsterTakes(o) ==
  /\ Exposed(o) /\ obj[o].where # "minv"
  /\ obj' = [obj EXCEPT ![o].where = "minv", ![o].lev = level]
  /\ UNCHANGED <<timers, lights, impossible, Elapsed, fuel, late>>

MonsterDies ==
  /\ phase = "play"
  /\ \E o \in Slots : Here(o) /\ obj[o].where = "minv"
  /\ obj' = [o \in Slots |-> IF Here(o) /\ obj[o].where = "minv"
                             THEN [obj[o] EXCEPT !.where = "floor"] ELSE obj[o]]
  /\ UNCHANGED <<timers, lights, impossible, Elapsed, fuel, late>>

MonsterDrinks(o) ==
  /\ Exposed(o) /\ obj[o].where = "minv"
  /\ obj[o].kind \in {"oil", "thinoil"}
  /\ \E n \in Slots :
       /\ IF obj[o].quan > 1 THEN obj[n].where = "none" ELSE n = o
       /\ LET one == IF n = o THEN Heap ELSE SplitObj(Heap, o, n, 1)
          IN Becomes(Dealloc(BeginBurn(one, n, obj[o].lit), n), o, {})

----------------------------------------------------------------------------
(* Time, and other levels.                                                 *)

(* A turn passes.  nh_timeout() comes to run_timers() unless the hero is   *)
(* praying successfully, when it returns early.                            *)
Burn == fuel' = [o \in Slots |-> IF obj[o].lit /\ obj[o].kind # "magic"
                                 THEN fuel[o] - 1 ELSE fuel[o]]
PassTurn ==
  /\ phase = "play" /\ moves < MaxMoves
  /\ moves' = moves + 1
  /\ Burn
  /\ IF praying > 0
     THEN /\ praying' = praying - 1
          /\ late' = (late \/ \E i \in DOMAIN timers : timers[i].at <= moves')
          /\ UNCHANGED phase
     ELSE phase' = "timers" /\ UNCHANGED <<praying, late>>
  /\ UNCHANGED <<heap, elsewhere, level>>

(* dopray(): nomul(-3), invulnerable until prayer_done().                  *)
Pray ==
  /\ HeroActs
  /\ praying' = 3
  /\ UNCHANGED <<heap, elsewhere, moves, level, phase, fuel, late>>

(* run_timers(): always the first element.                                 *)
Due == timers # <<>> /\ Head(timers).at <= moves

RunTimer ==
  /\ phase = "timers" /\ Due
  /\ LET t == Head(timers)
         popped == [Heap EXCEPT !.timers = Tail(@), !.obj[t.o].timed = @ - 1]
     IN SetHeap(BurnObject(popped, t.o, t.at))
  /\ fuel' = [o \in Slots |-> IF obj'[o].where = "none" THEN 0
                              ELSE IF ~obj'[o].lit /\ obj[o].lit THEN Max({fuel[o], 0})
                              ELSE fuel[o]]
  /\ UNCHANGED <<Elapsed, late>>

TimersRun ==
  /\ phase = "timers" /\ ~Due
  /\ phase' = "play"
  /\ UNCHANGED <<heap, elsewhere, moves, level, praying, fuel, late>>

(* goto_level(): timers and light sources of what stays behind are saved   *)
(* with the level, by object id; those saved with the new level come back. *)
(* What a follower carries does not stay.                                  *)
IsLocal_NotMonsters(o, follows) == obj[o].where = "floor" /\ obj[o].lev = level
IsLocal(o, follows) ==
  /\ obj[o].where \in {"floor"} \cup (IF follows THEN {} ELSE {"minv"})
  /\ obj[o].lev = level

(* The timers of the objects of S in the order of the queue, and a queue   *)
(* to which those of r have been added one after the other.                *)
Those(q, S) ==
  LET those[n \in 0 .. Len(q)] ==
        IF n = 0 THEN <<>>
        ELSE IF q[n].o \in S THEN Append(those[n - 1], q[n]) ELSE those[n - 1]
  IN those[Len(q)]
InsertTimers(q, r) ==
  LET with[n \in 0 .. Len(r)] == IF n = 0 THEN q ELSE InsertTimer(with[n - 1], r[n])
  IN with[Len(r)]

NothingSaved == [timers |-> <<>>, lights |-> [o \in Slots |-> 0]]

GotoLevel(l) ==
  /\ HeroActs /\ l # level
  /\ \E follows \in BOOLEAN :
       LET local == {o \in Slots : IsLocal(o, follows)} IN
       /\ elsewhere' =
            [elsewhere EXCEPT
               ![level] = [timers |-> Those(timers, local),
                           lights |-> [o \in Slots |-> IF o \in local THEN lights[o] ELSE 0]],
               ![l] = NothingSaved]
       /\ timers' = InsertTimers(Those(timers, Slots \ local), elsewhere[l].timers)
       /\ lights' = [o \in Slots |-> (IF o \in local THEN 0 ELSE lights[o])
                                       + elsewhere[l].lights[o]]
       /\ obj' = [o \in Slots |-> IF Here(o) /\ obj[o].where = "minv" /\ follows
                                  THEN [obj[o] EXCEPT !.lev = l] ELSE obj[o]]
  /\ level' = l /\ phase' = "arrive"
  /\ UNCHANGED <<impossible, moves, praying, fuel, late>>

(* obj_delivery(), one object at a time; some break.                       *)
Deliver(o) ==
  /\ phase = "arrive" /\ obj[o].where = "migr" /\ obj[o].lev = level
  /\ \/ obj[o].kind \in {"oil", "thinoil"} /\ Becomes(Dealloc(Heap, o), o, {})
     \/ \E m \in Arrive(Heap, o, "floor") : Becomes(m, o, {})

(* ... after that the timers that went off while the hero was away.        *)
Delivered ==
  /\ phase = "arrive"
  /\ \A o \in Slots : obj[o].where = "migr" => obj[o].lev # level
  /\ phase' = "timers"
  /\ UNCHANGED <<heap, elsewhere, moves, level, praying, fuel, late>>

----------------------------------------------------------------------------
HeroAction(o) ==
  \/ UseLamp(o) \/ UseCandelabrum(o) \/ LightCocktail(o) \/ SnuffCocktail(o)
  \/ Drop(o) \/ Throw(o) \/ PickUp(o) \/ FallDown(o)
  \/ \E p \in Slots : UseCandle(o, p) \/ FillLamp(o, p)

WorldAction(o) ==
  \/ Snuff(o) \/ CatchLit(o) \/ Destroy(o)
  \/ MonsterTakes(o) \/ MonsterDrinks(o) \/ Deliver(o)

Time == PassTurn \/ Pray \/ RunTimer \/ TimersRun \/ Delivered \/ MonsterDies

Next == \/ \E o \in Slots : HeroAction(o) \/ WorldAction(o)
        \/ Time \/ \E l \in Levels : GotoLevel(l)

Spec == Init /\ [][Next]_vars

----------------------------------------------------------------------------
(* Correctness.                                                            *)

TypeOK ==
  /\ obj \in [Slots -> Obj]
  /\ timers \in Seq(Timer) /\ lights \in [Slots -> Nat] /\ impossible \subseteq Complaints
  /\ elsewhere \in [Levels -> Saved]
  /\ level \in Levels /\ moves \in Nat /\ praying \in 0 .. 3
  /\ phase \in {"play", "arrive", "timers"}
  /\ fuel \in [Slots -> Int] /\ late \in BOOLEAN

Exists(o) == obj[o].where # "none"
Burning(o) == obj[o].lit /\ obj[o].kind # "magic"

(* The timers and light sources of a level: in memory when the hero is     *)
(* there, otherwise saved with it.                                         *)
QueueAt(l) == IF l = level THEN timers ELSE elsewhere[l].timers
LightsAt(l) == IF l = level THEN lights ELSE elsewhere[l].lights
Queued(l) == {QueueAt(l)[i] : i \in DOMAIN QueueAt(l)}
TimersOf(o) ==
  UNION {{<<l, i>> : i \in {j \in DOMAIN QueueAt(l) : QueueAt(l)[j].o = o}} : l \in Levels}

(* A lit object sheds light from exactly one source, and nothing else does:*)
(* del_light_source() relies on it, and a second source would outlive the  *)
(* object it points to.                                                    *)
LightIffLit ==
  \A o \in Slots :
    IF obj[o].lit
    THEN \E l \in Levels : \A k \in Levels : LightsAt(k)[o] = (IF k = l THEN 1 ELSE 0)
    ELSE \A k \in Levels : LightsAt(k)[o] = 0

(* A burning object has exactly one timer, nothing else has one, and the   *)
(* count "timed" is right: dealloc_obj() stops timers only if it is not 0. *)
TimerIffBurning ==
  \A o \in Slots : /\ obj[o].timed = (IF Burning(o) THEN 1 ELSE 0)
                    /\ Cardinality(TimersOf(o)) = obj[o].timed

(* relink_timers() and relink_light_sources() find every object: what is   *)
(* saved with a level belongs to an object that stayed there, and what is  *)
(* in memory to one that is here or travels.                               *)
NothingDangling ==
  /\ elsewhere[level] = NothingSaved
  /\ \A l \in Levels, o \in Slots :
       LightsAt(l)[o] > 0 \/ (\E t \in Queued(l) : t.o = o) =>
         IF l = level THEN obj[o].where = "migr" \/ Here(o)
                      ELSE obj[o].where \in {"floor", "minv"} /\ obj[o].lev = l

(* Fuel is neither made nor lost: stopping and relighting, splitting,      *)
(* being carried off, left on another level or caught up with later, an    *)
(* object burns one unit per turn that it is lit.                          *)
FuelAccounted ==
  \A o \in Slots : Exists(o) /\ obj[o].kind # "magic" =>
    IF obj[o].lit
    THEN \A l \in Levels : \A t \in Queued(l) : t.o = o =>
            obj[o].age + (t.at - moves) = fuel[o]
    ELSE obj[o].age = fuel[o]

(* While the hero acts no timer is due, unless one ran out in a prayer or  *)
(* before what fell down to this level was delivered.                      *)
Punctual == (phase = "play" /\ ~late) => \A t \in Queued(level) : t.at > moves

(* Without one of these none of the complaints in these routines is heard.*)
NoImpossible == ~late => impossible = {}
=============================================================================
