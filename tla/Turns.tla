------------------------------- MODULE Turns -------------------------------
(***************************************************************************)
(* Who acts when: moveloop_core(), movemon(), the rations of movement, and *)
(* what becomes of monsters that die, leave, arrive or multiply meanwhile. *)
(*                                                                         *)
(* A dead monster stays on fmon until dmonsfree(), which expects to find   *)
(* iflags.purge_monsters of them.  movemon() goes through a snapshot of    *)
(* fmon, during which monsters come and go.  A vault guard who is killed   *)
(* or dismissed is parked at <0,0> until his corridor is gone.             *)
(*                                                                         *)
(* What a command, a monster's move or a once-per-turn routine does is the *)
(* "effects" below, any number of them in any order.                       *)
(***************************************************************************)
EXTENDS Naturals, Integers, FiniteSets

CONSTANTS
  Mons,         \* monsters
  Guard,        \* those that may be vault guards
  Levels, Home, \* dungeon levels, and the one with the vault
  Speed,        \* mons[].mmove of each monster
  First,        \* the monsters of each level at first
  HeroSpeeds,   \* mmove of the hero's forms, or mcalcmove() of a steed
  Burdens,      \* near_capacity()
  MaxHelpless,  \* turns for which the hero can be helpless
  MaxUnspent    \* movement that a level change can leave unspent

NORMAL_SPEED == 12
NoMon == 0

ASSUME TurnsAssumption ==
  /\ NoMon \notin Mons /\ Guard \subseteq Mons /\ IsFiniteSet(Mons)
  /\ Home \in Levels /\ Speed \in [Mons -> Nat]
  /\ First \in [Levels -> SUBSET Mons]
  /\ \A k, l \in Levels : k # l => First[k] \cap First[l] = {}
  /\ HeroSpeeds \subseteq Nat \ {0} /\ Burdens \subseteq 0 .. 5
  /\ MaxHelpless \in Nat /\ MaxUnspent \in Nat

VARIABLES
  pc,           \* where moveloop_core() is
  actor,        \* the monster that is moving
  level,        \* u.uz
  fmon,         \* the monsters of the level, dead ones included
  migrating,    \* gm.migrating_mons
  dest,         \* where each of these goes
  stored,       \* the monsters in the files of other levels
  mon,          \* each monster
  itermonarr,   \* what movemon()'s snapshot of fmon has left
  somebody,     \* gs.somebody_can_move
  purge,        \* iflags.purge_monsters
  umovement,    \* u.umovement
  multi,        \* gm.multi
  utotype,      \* a level change is scheduled
  seq,          \* gh.hero_seq without the turns: moves of the hero this turn
  spent,        \* moves used this turn by each monster that was given its ration
                \* with none left, and has been on the level since
  impossible    \* impossible() was called

lists == <<level, fmon, migrating, dest, stored>>
pass  == <<actor, itermonarr, somebody>>
hero  == <<umovement, multi, seq>>
dying == <<mon, purge, impossible>>
vars  == <<pc, pass, lists, dying, hero, utotype, spent>>

Monst == [dead : BOOLEAN, detached : BOOLEAN, away : BOOLEAN, isgd : BOOLEAN,
          parked : BOOLEAN, gddone : BOOLEAN, movement : Nat]
New(m) == [dead |-> FALSE, detached |-> FALSE, away |-> FALSE, isgd |-> m \in Guard,
           parked |-> FALSE, gddone |-> FALSE, movement |-> 0]

Free == Mons \ (fmon \cup migrating \cup UNION {stored[l] : l \in Levels})

Nobody == [m \in {} |-> 0]
Spend(m) == IF m \in DOMAIN spent THEN [spent EXCEPT ![m] = @ + 1] ELSE spent
Except(gone) == [m \in DOMAIN spent \ gone |-> spent[m]]

(* PARKEDMONSTER() *)
Parked(m) == mon[m].isgd /\ mon[m].parked
OnMap(m) == m \in fmon /\ ~mon[m].dead /\ ~Parked(m)

Init ==
  /\ pc = "input" /\ actor = NoMon
  /\ level = Home /\ fmon = First[Home] /\ migrating = {} /\ dest = [m \in Mons |-> Home]
  /\ stored = [First EXCEPT ![Home] = {}]
  /\ mon = [m \in Mons |-> New(m)]
  /\ itermonarr = {} /\ somebody = FALSE /\ purge = 0
  /\ umovement = NORMAL_SPEED /\ multi = 0 /\ utotype = FALSE /\ seq = 0
  /\ spent = Nobody /\ impossible = FALSE

----------------------------------------------------------------------------
(* The end of a monster.                                                   *)

(* m_detach(): it stays on fmon, and is counted. *)
MDetach_Uncounted(m, r) ==
  /\ mon' = [mon EXCEPT ![m] = [r EXCEPT !.dead = TRUE, !.detached = TRUE]]
  /\ UNCHANGED <<purge, impossible>>
MDetach(m, r) ==
  /\ mon' = [mon EXCEPT ![m] = [r EXCEPT !.dead = TRUE, !.detached = TRUE]]
  /\ purge' = IF r.detached THEN purge ELSE purge + 1
  /\ impossible' = (impossible \/ r.detached)

(* clear_fcorr(): the corridor can be removed, or not yet. *)
ClearFcorr == IF level = Home THEN BOOLEAN ELSE {TRUE}

(* mondead(); grddead() keeps a guard whose corridor is still there. *)
MonDead(m) ==
  LET r == mon[m] IN
  IF ~r.isgd THEN MDetach(m, r)
  ELSE \E clear \in ClearFcorr :
         IF clear THEN MDetach(m, [r EXCEPT !.isgd = FALSE])
         ELSE /\ mon' = [mon EXCEPT ![m] = [r EXCEPT !.dead = TRUE, !.parked = TRUE]]
              /\ UNCHANGED <<purge, impossible>>

(* gd_move_cleanup(): parkguard(), and restfakecorr(). *)
GdMoveCleanup(m, done) ==
  LET r == [mon[m] EXCEPT !.parked = TRUE, !.gddone = done \/ @] IN
  \E clear \in ClearFcorr :
    IF clear THEN MDetach(m, [r EXCEPT !.isgd = FALSE, !.movement = 0])
    ELSE /\ mon' = [mon EXCEPT ![m] = [r EXCEPT !.movement = 0]]
         /\ UNCHANGED <<purge, impossible>>

(* dmonsfree(), of a list. *)
Gone(list) == {m \in list : mon[m].dead /\ ~mon[m].isgd}
DmonsFree(list) ==
  /\ impossible' = (impossible \/ Cardinality(Gone(list)) # purge)
  /\ purge' = 0

----------------------------------------------------------------------------
(* Effects of a command, a move, or the once-per-turn things.              *)

Busy == pc \in {"command", "acting", "once"}

Kill_AtOnce(m) ==
  /\ Busy /\ OnMap(m)
  /\ fmon' = fmon \ {m} /\ mon' = [mon EXCEPT ![m] = New(m)]
  /\ spent' = Except({m})
  /\ UNCHANGED <<pc, pass, level, migrating, dest, stored, purge, impossible, hero, utotype>>
Kill(m) ==
  /\ Busy /\ OnMap(m)
  /\ MonDead(m)
  /\ spent' = Except({m})
  /\ UNCHANGED <<pc, pass, lists, hero, utotype>>

(* makemon(), and invault() for a guard. *)
Make(m) ==
  /\ Busy /\ m \in Free /\ (m \in Guard => level = Home)
  /\ fmon' = fmon \cup {m}
  /\ mon' = [mon EXCEPT ![m] = New(m)]
  /\ UNCHANGED <<pc, pass, level, migrating, dest, stored, purge, impossible,
                 hero, utotype, spent>>

(* migrate_to_level(), also of the same level (m_into_limbo()). *)
Migrate(m, l) ==
  /\ Busy /\ OnMap(m)
  /\ fmon' = fmon \ {m} /\ migrating' = migrating \cup {m}
  /\ dest' = [dest EXCEPT ![m] = l]
  /\ mon' = [mon EXCEPT ![m].away = TRUE]
  /\ spent' = Except({m})
  /\ UNCHANGED <<pc, pass, level, stored, purge, impossible, hero, utotype>>

(* schedule_goto() *)
Schedule ==
  /\ Busy /\ \A m \in Mons : mon[m].movement <= MaxUnspent
  /\ utotype' = TRUE
  /\ spent' = Nobody
  /\ UNCHANGED <<pc, pass, lists, dying, hero>>

(* nomul() *)
Nomul(nval) ==
  /\ Busy /\ multi >= nval
  /\ multi' = nval
  /\ UNCHANGED <<pc, pass, lists, dying, umovement, seq, utotype, spent>>

(* The monster attacked strikes back, with one of its own moves. *)
StrikeBack(m) ==
  /\ pc = "acting" /\ m # actor /\ OnMap(m) /\ mon[m].movement > 0
  /\ mon' = [mon EXCEPT ![m].movement = IF @ > NORMAL_SPEED THEN @ - NORMAL_SPEED ELSE 0]
  /\ spent' = Spend(m)
  /\ UNCHANGED <<pc, pass, lists, purge, impossible, hero, utotype>>

(* A guard has led the hero out, or vanishes confused (and is not done). *)
GuardDone ==
  /\ pc = "acting" /\ actor \in Guard /\ OnMap(actor) /\ mon[actor].isgd /\ level = Home
  /\ \E done \in BOOLEAN : GdMoveCleanup(actor, done)
  /\ spent' = Except({actor})
  /\ UNCHANGED <<pc, pass, lists, hero, utotype>>

(* place_monster() clears MON_OFF_MAP_BITS, MON_MIGRATING among them.      *)
Placed_Marked(r) == [r EXCEPT !.parked = TRUE]
Placed(r) == [r EXCEPT !.parked = TRUE, !.away = FALSE]

(* findgd(), called while the hero is in the vault: a dead guard is used   *)
(* again; one that waits to migrate is put on fmon and parked.             *)
FindGd(m) ==
  /\ Busy /\ level = Home /\ mon[m].isgd
  /\ \/ /\ m \in fmon /\ mon[m].dead /\ mon[m].parked /\ ~mon[m].gddone
        /\ mon' = [mon EXCEPT ![m].dead = FALSE]
        /\ UNCHANGED <<fmon, migrating>>
     \/ /\ m \in migrating /\ \A n \in fmon : ~mon[n].isgd
        /\ migrating' = migrating \ {m} /\ fmon' = fmon \cup {m}
        /\ mon' = [mon EXCEPT ![m] = Placed(@)]
  /\ UNCHANGED <<pc, pass, level, dest, stored, purge, impossible, hero, utotype, spent>>

Effect ==
  \/ Schedule \/ GuardDone
  \/ \E m \in Mons : \/ Kill(m) \/ Make(m) \/ StrikeBack(m) \/ FindGd(m)
                     \/ \E l \in Levels : Migrate(m, l)
  \/ \E k \in 1 .. MaxHelpless : Nomul(0 - k)

----------------------------------------------------------------------------
(* goto_level(): keepdogs(), savelev(), getlev(), losedogs(), which fails  *)
(* to place a monster when there is no room.                               *)

Purge(list) == IF purge > 0 THEN DmonsFree(list) ELSE UNCHANGED <<purge, impossible>>

(* mon_arrive() *)
Arrive_Marked(r) == r
Arrive(r) == [r EXCEPT !.away = FALSE]

GotoLevel(l) ==
  \E follow \in SUBSET {m \in fmon : OnMap(m)} :
    LET kept   == {m \in fmon \ follow : OnMap(m) /\ mon[m].isgd /\ level # Home}
        left   == fmon \ (follow \cup kept)
        gone   == IF purge > 0 THEN Gone(left) ELSE {}
        coming == follow \cup {m \in migrating : dest[m] = l}
    IN  \E arrived \in SUBSET coming :
          /\ Purge(left)
          /\ stored' = [stored EXCEPT ![level] = left \ gone, ![l] = {}]
          /\ fmon' = stored[l] \cup arrived
          /\ migrating' = (migrating \cup kept \cup coming) \ arrived
          /\ dest' = [m \in Mons |-> IF m \in kept THEN level ELSE
                                     IF m \in coming \ arrived THEN l
                                     ELSE IF m \in arrived THEN Home ELSE dest[m]]
          /\ mon' = [m \in Mons |->
                       IF m \in gone THEN New(m)
                       ELSE IF m \in arrived THEN Arrive(mon[m])
                       ELSE IF m \in kept \cup coming THEN [mon[m] EXCEPT !.away = TRUE]
                       ELSE mon[m]]
          /\ level' = l /\ spent' = Nobody

(* deferred_goto(); the hero may be kept on this level after all. *)
DeferredGoto ==
  /\ utotype' = FALSE
  /\ \/ UNCHANGED <<lists, dying, spent>>
     \/ \E l \in Levels \ {level} : GotoLevel(l)
NoGoto == ~utotype /\ UNCHANGED <<utotype, lists, dying, spent>>

----------------------------------------------------------------------------
(* moveloop_core().                                                        *)

To(point) == pc' = point

(* rhack(); when helpless the hero does nothing, but time passes. *)
Command ==
  /\ pc = "input" /\ multi = 0
  /\ To("command")
  /\ UNCHANGED <<pass, lists, dying, hero, utotype, spent>>

TakeTime(took) ==
  IF took THEN To("movemon") /\ umovement' = umovement - NORMAL_SPEED
          ELSE To("input") /\ UNCHANGED umovement

Helpless ==
  /\ pc = "input" /\ multi < 0
  /\ (utotype /\ DeferredGoto) \/ NoGoto
  /\ TakeTime(TRUE)
  /\ UNCHANGED <<pass, multi, seq>>

EndCommand ==
  /\ pc = "command"
  /\ (utotype /\ DeferredGoto) \/ NoGoto
  /\ \E took \in BOOLEAN : TakeTime(took)
  /\ UNCHANGED <<pass, multi, seq>>

(* movemon() begins: iter_mons_safe() copies fmon. *)
Movemon ==
  /\ pc = "movemon"
  /\ itermonarr' = fmon /\ somebody' = FALSE
  /\ To("pass")
  /\ UNCHANGED <<actor, lists, dying, hero, utotype, spent>>

(* Whoever has this much movement left has another move. *)
CanMove_Some(movement) == movement > 0
CanMove(movement) == movement >= NORMAL_SPEED

(* movemon_singlemon() *)
StopMoving ==
  /\ pc = "pass" /\ utotype /\ itermonarr # {}
  /\ itermonarr' = {} /\ somebody' = FALSE
  /\ UNCHANGED <<pc, actor, lists, dying, hero, utotype, spent>>

Visit(m) == pc = "pass" /\ ~utotype /\ m \in itermonarr /\ itermonarr' = itermonarr \ {m}

(* moves > mlstmv is left open. *)
MoveParked(m) ==
  /\ Visit(m) /\ Parked(m) /\ ~mon[m].away
  /\ \/ \E done \in {TRUE} : GdMoveCleanup(m, done)
     \/ mon' = [mon EXCEPT ![m].movement = 0] /\ UNCHANGED <<purge, impossible>>
  /\ UNCHANGED <<pc, actor, somebody, lists, hero, utotype, spent>>

PassOver(m) ==
  /\ Visit(m) /\ (Parked(m) => mon[m].away)
  /\ mon[m].dead \/ mon[m].away \/ ~CanMove(mon[m].movement)
  /\ mon' = IF mon[m].dead \/ mon[m].away THEN [mon EXCEPT ![m].movement = 0] ELSE mon
  /\ UNCHANGED <<pc, actor, somebody, lists, purge, impossible, hero, utotype, spent>>

Act_Once(m) ==
  /\ Visit(m) /\ OnMap(m) /\ ~mon[m].away /\ CanMove(mon[m].movement)
  /\ mon' = [mon EXCEPT ![m].movement = @ - NORMAL_SPEED]
  /\ spent' = Spend(m)
  /\ To("acting") /\ actor' = m
  /\ UNCHANGED <<somebody, lists, purge, impossible, hero, utotype>>
Act(m) ==
  /\ Visit(m) /\ OnMap(m) /\ ~mon[m].away /\ CanMove(mon[m].movement)
  /\ mon' = [mon EXCEPT ![m].movement = @ - NORMAL_SPEED]
  /\ somebody' = (somebody \/ CanMove(mon'[m].movement))
  /\ spent' = Spend(m)
  /\ To("acting") /\ actor' = m
  /\ UNCHANGED <<lists, purge, impossible, hero, utotype>>

EndAct ==
  /\ pc = "acting"
  /\ To("pass") /\ actor' = NoMon
  /\ UNCHANGED <<itermonarr, somebody, lists, dying, hero, utotype, spent>>

(* movemon() ends with dmonsfree() and deferred_goto(). *)
EndPass ==
  /\ pc = "pass" /\ itermonarr = {}
  /\ DmonsFree(fmon) /\ fmon' = fmon \ Gone(fmon)
  /\ mon' = [m \in Mons |-> IF m \in Gone(fmon) THEN New(m) ELSE mon[m]]
  /\ To("moved")
  /\ UNCHANGED <<pass, level, migrating, dest, stored, hero, utotype, spent>>

LeaveMovemon ==
  /\ pc = "moved" /\ utotype
  /\ DeferredGoto
  /\ somebody' = FALSE
  /\ UNCHANGED <<pc, actor, itermonarr, hero>>

HerosTurn == To("input") /\ seq' = seq + 1

Moved ==
  /\ pc = "moved" /\ ~utotype
  /\ IF CanMove(umovement) THEN HerosTurn
     ELSE To(IF somebody THEN "movemon" ELSE "distress") /\ UNCHANGED seq
  /\ UNCHANGED <<pass, lists, dying, umovement, multi, utotype, spent>>

(* mcalcmove(): at random one multiple of NORMAL_SPEED or the next. *)
Mcalcmove(m, up) ==
  NORMAL_SPEED * ((Speed[m] \div NORMAL_SPEED)
                  + (IF up /\ Speed[m] % NORMAL_SPEED # 0 THEN 1 ELSE 0))

(* u_calc_moveamt() *)
UCalcMoveamt(moveamt, wtcap) ==
  CASE wtcap = 1 -> moveamt - (moveamt \div 4)
    [] wtcap = 2 -> moveamt - (moveamt \div 2)
    [] wtcap = 3 -> moveamt - ((moveamt * 3) \div 4)
    [] wtcap = 4 -> moveamt - ((moveamt * 7) \div 8)
    [] OTHER -> moveamt

HeroGains_Lost(moveamt) == umovement' = moveamt
HeroGains(moveamt) == umovement' = umovement + moveamt

Rations(ups) ==
  [m \in Mons |-> IF m \in fmon
                  THEN [mon[m] EXCEPT !.movement = @ + Mcalcmove(m, m \in ups)] ELSE mon[m]]

(* hero_seq = moves << 3, after moves++ *)
NextMoves_Kept == seq' = seq
NextMoves == seq' = 0

NewTurn ==
  /\ pc = "distress"
  /\ \E ups \in SUBSET fmon : mon' = Rations(ups)
  /\ \E speed \in HeroSpeeds, haste \in {0, NORMAL_SPEED}, wtcap \in Burdens :
       HeroGains(UCalcMoveamt(speed + haste, wtcap))
  /\ NextMoves
  /\ spent' = [m \in {n \in fmon : OnMap(n) /\ ~CanMove(mon[n].movement)} |-> 0]
  /\ To("once")
  /\ UNCHANGED <<pass, lists, purge, impossible, multi, utotype>>

(* The end of the turn's own things; unmul() may be followed by a change   *)
(* of level.                                                               *)
EndOnce ==
  /\ pc = "once"
  /\ multi' = IF multi < 0 THEN multi + 1 ELSE multi
  /\ IF multi = -1 /\ utotype THEN DeferredGoto ELSE UNCHANGED <<utotype, lists, dying, spent>>
  /\ IF CanMove(umovement) THEN HerosTurn ELSE To("movemon") /\ UNCHANGED seq
  /\ UNCHANGED <<pass, umovement>>

Loop ==
  \/ Movemon \/ StopMoving \/ EndAct \/ EndPass \/ LeaveMovemon \/ Moved \/ NewTurn \/ EndOnce
  \/ Helpless
  \/ \E m \in Mons : MoveParked(m) \/ PassOver(m) \/ Act(m)

Next == Loop \/ Command \/ EndCommand \/ Effect

Spec == Init /\ [][Next]_vars

(* The program does not wait except for the player. *)
FairSpec == Spec /\ WF_vars(Loop)

----------------------------------------------------------------------------
(* Correctness.                                                            *)

TypeOK ==
  /\ mon \in [Mons -> Monst] /\ umovement \in Nat /\ multi \in -MaxHelpless .. 0
  /\ fmon \subseteq Mons /\ itermonarr \subseteq Mons
  /\ actor \in Mons \cup {NoMon} /\ (actor # NoMon <=> pc = "acting")
  /\ pc \in {"input", "movemon"} => itermonarr = {}

(* "dmonsfree: %d removed doesn't match %d pending" and "m_detach: already *)
(* detached?" are never seen: however monsters die, are parked, leave or   *)
(* are left behind, each dead one is counted once (m_detach(), mondead(),  *)
(* grddead(), dmonsfree(), savelev()).                                     *)
NoImpossible == ~impossible

(* A monster is on one list, and bears the mark MON_MIGRATING exactly while *)
(* it waits to migrate: one wrongly marked would be passed over by every   *)
(* movemon() (relmon(), keepdogs(), losedogs(), mon_arrive(),              *)
(* migrate_to_level(), findgd(), movemon_singlemon()).                     *)
OnePlace ==
  /\ fmon \cap migrating = {} /\ stored[level] = {}
  /\ \A l \in Levels : stored[l] \cap (fmon \cup migrating) = {}
  /\ \A k, l \in Levels : k # l => stored[k] \cap stored[l] = {}
  /\ \A m \in Mons : mon[m].away <=> m \in migrating
  /\ \A m \in migrating : ~mon[m].dead

(* iter_mons_safe() is "Safe for list deletions": its array never points   *)
(* to a monster that has been freed.                                       *)
NoStalePointer == itermonarr \subseteq fmon \cup migrating

(* When a turn ends each monster that was there all the time has had the   *)
(* moves of its speed, to the next whole one: the guarantee of mcalcmove() *)
(* that a normal-speed player does not outrun a normal-speed monster       *)
(* (movemon(), somebody_can_move, moveloop_core()).                        *)
FullMeasure ==
  pc = "distress" => \A m \in DOMAIN spent :
    spent[m] \in {Speed[m] \div NORMAL_SPEED,
                  (Speed[m] + NORMAL_SPEED - 1) \div NORMAL_SPEED}

(* hero_seq is "moves*8 + n for n == 1..7", "distinct every time the hero  *)
(* moves" (u_calc_moveamt(), moveloop_core()).                             *)
SeqDistinct == seq <= 7

(* Once the hero has moved he gets to move again, however burdened he is   *)
(* and whatever the monsters do (moveloop_core(), u_calc_moveamt()).       *)
HeroMoves == pc = "movemon" ~> pc = "input"
=============================================================================
