---------------------------- MODULE Turns_proofs ----------------------------
(***************************************************************************)
(* For any number of monsters, of any speed, on any number of levels: the  *)
(* invariants of Turns.  SeqDistinct depends on how fast the hero is.      *)
(*                                                                         *)
(* What carries them: movement is always of whole moves; who bears the     *)
(* mark of migrating is who waits to migrate (MarkFits); the               *)
(* detached are all on the level and purge_monsters counts them (Counted); *)
(* what a monster has and what it has used make up its ration (Measured);  *)
(* and while movemon() is at work whoever has a move left is still in the  *)
(* snapshot, or somebody_can_move is set (Noted).                          *)
(***************************************************************************)
EXTENDS Turns, FiniteSetTheorems, TLAPS

Points == {"input", "command", "movemon", "pass", "acting", "moved", "distress", "once"}

Moves(n) == NORMAL_SPEED * n
Whole(n) == \E k \in Nat : n = Moves(k)

(* Everybody, wherever they are: their movement is of whole moves.         *)
Population ==
  /\ level \in Levels /\ fmon \subseteq Mons /\ migrating \subseteq Mons
  /\ stored \in [Levels -> SUBSET Mons] /\ mon \in [Mons -> Monst]
  /\ \A m \in Mons : Whole(mon[m].movement)

Places ==
  /\ fmon \cap migrating = {} /\ stored[level] = {}
  /\ \A l \in Levels : stored[l] \cap (fmon \cup migrating) = {}
  /\ \A k, l \in Levels : k # l => stored[k] \cap stored[l] = {}

(* Who waits to migrate is marked and alive, and nobody else is marked.    *)
MarkFits(m, r) ==
  /\ m \in migrating => r.away /\ ~r.dead
  /\ r.isgd => m \in Guard
  /\ r.away => m \in migrating
Marks == \A m \in Mons : MarkFits(m, mon[m])

(* purge_monsters counts those that are detached, all of them of this      *)
(* level: the others were freed when the hero left theirs.                 *)
IsGone(r) == r.dead /\ ~r.isgd
Counted ==
  /\ \A m \in Mons : mon[m].detached <=> IsGone(mon[m])
  /\ \A m \in Mons : mon[m].detached => m \in fmon
  /\ purge = Cardinality(Gone(fmon))
  /\ ~impossible

World == Population /\ Places /\ Marks /\ Counted

Control ==
  /\ pc \in Points /\ (pc = "acting" => actor \in Mons)
  /\ itermonarr \subseteq Mons /\ somebody \in BOOLEAN /\ utotype \in BOOLEAN
  /\ DOMAIN spent \subseteq Mons /\ spent \in [DOMAIN spent -> Nat]

Snapshot ==
  /\ itermonarr \subseteq fmon \cup migrating
  /\ pc \notin {"pass", "acting"} => itermonarr = {}

Few(m)  == Speed[m] \div NORMAL_SPEED
Many(m) == (Speed[m] + NORMAL_SPEED - 1) \div NORMAL_SPEED

(* What a monster has and what it has used make up one of its two rations. *)
Measured(m) ==
  /\ OnMap(m) /\ ~mon[m].away
  /\ mon[m].movement + Moves(spent[m]) \in {Moves(Few(m)), Moves(Many(m))}

(* Whoever has a move left is still in the snapshot, or has been noted.    *)
Noted(m) ==
  CanMove(mon[m].movement) =>
    /\ pc \in {"pass", "acting"} => somebody \/ m \in itermonarr
    /\ pc = "moved" => somebody
    /\ pc # "distress"

Measure ==
  /\ \A m \in DOMAIN spent : Measured(m) /\ Noted(m)
  /\ utotype => DOMAIN spent = {}
  /\ pc = "distress" => ~utotype

Flow == Control /\ Snapshot /\ Measure

IInv == World /\ Flow

----------------------------------------------------------------------------
(* One monster at a time.                                                  *)

LEMMA Numbers ==
  /\ \A k \in Nat : Whole(Moves(k)) /\ Moves(k) \in Nat
  /\ \A n \in Nat : Whole(n) /\ n > 0 => n - NORMAL_SPEED \in Nat /\ Whole(n - NORMAL_SPEED)
  /\ \A n, k \in Nat : Whole(n) => Whole(n + Moves(k))
  /\ \A n \in Nat : Whole(n) /\ ~CanMove(n) => n = 0
  /\ Whole(0)
<1>1. \A k \in Nat : Whole(Moves(k)) /\ Moves(k) \in Nat BY DEF Whole, Moves, NORMAL_SPEED
<1>2. ASSUME NEW n \in Nat, Whole(n), n > 0
      PROVE  n - NORMAL_SPEED \in Nat /\ Whole(n - NORMAL_SPEED)
  <2>1. PICK k \in Nat : n = 12 * k BY <1>2 DEF Whole, Moves, NORMAL_SPEED
  <2>2. k - 1 \in Nat /\ n - 12 = 12 * (k - 1) BY <1>2, <2>1
  <2> QED BY <2>2 DEF Whole, Moves, NORMAL_SPEED
<1>3. ASSUME NEW n \in Nat, NEW k \in Nat, Whole(n) PROVE Whole(n + Moves(k))
  <2>1. PICK j \in Nat : n = 12 * j BY <1>3 DEF Whole, Moves, NORMAL_SPEED
  <2>2. n + 12 * k = 12 * (j + k) /\ j + k \in Nat BY <2>1
  <2> QED BY <2>2 DEF Whole, Moves, NORMAL_SPEED
<1>4. ASSUME NEW n \in Nat, Whole(n), ~CanMove(n) PROVE n = 0
  <2>1. PICK k \in Nat : n = 12 * k BY <1>4 DEF Whole, Moves, NORMAL_SPEED
  <2> QED BY <1>4, <2>1 DEF CanMove, NORMAL_SPEED
<1>5. Whole(0) BY DEF Whole, Moves, NORMAL_SPEED
<1> QED BY <1>1, <1>2, <1>3, <1>4, <1>5

LEMMA WorldStays == World /\ UNCHANGED <<lists, dying>> => World'
BY DEF World, Population, Places, Marks, MarkFits, Counted, IsGone, Gone, lists, dying

(* A monster changes, but is no more nor less gone than it was.            *)
LEMMA Touched ==
  ASSUME World, UNCHANGED <<lists, purge, impossible>>,
         NEW m \in Mons, NEW r \in Monst, mon' = [mon EXCEPT ![m] = r],
         Whole(r.movement), MarkFits(m, r),
         r.detached = mon[m].detached, IsGone(r) = IsGone(mon[m])
  PROVE  World'
<1>1. mon' \in [Mons -> Monst] /\ mon'[m] = r /\ \A n \in Mons \ {m} : mon'[n] = mon[n]
  BY DEF World, Population
<1>2. Population' BY <1>1 DEF World, Population, lists
<1>3. Places' BY DEF World, Places, lists
<1>4. Marks' BY <1>1 DEF World, Marks, MarkFits, lists
<1>5. Gone(fmon)' = Gone(fmon) BY <1>1 DEF World, Population, Gone, IsGone, lists
<1>6. Counted' BY <1>1, <1>5 DEF World, Counted, IsGone, lists
<1> QED BY <1>2, <1>3, <1>4, <1>6 DEF World

(* m_detach() of a monster of the level that is not gone yet.              *)
LEMMA Detached ==
  ASSUME World, UNCHANGED lists, NEW m \in fmon, NEW r \in Monst, MDetach(m, r),
         Whole(r.movement), ~r.away, ~r.isgd, ~r.detached, ~mon[m].detached
  PROVE  World' /\ mon'[m].dead /\ \A n \in Mons \ {m} : mon'[n] = mon[n]
<1> DEFINE s == [r EXCEPT !.dead = TRUE, !.detached = TRUE]
<1>0. m \in Mons /\ m \notin migrating BY DEF World, Population, Places
<1>1. s \in Monst /\ IsGone(s) /\ s.detached /\ ~s.away /\ ~s.isgd /\ s.movement = r.movement
  BY DEF Monst, IsGone
<1>2. mon' \in [Mons -> Monst] /\ mon'[m] = s /\ \A n \in Mons \ {m} : mon'[n] = mon[n]
  BY <1>0, <1>1 DEF World, Population, MDetach
<1> HIDE DEF s
<1>3. Population' BY <1>1, <1>2 DEF World, Population, lists
<1>4. Places' BY DEF World, Places, lists
<1>5. Marks' BY <1>0, <1>1, <1>2 DEF World, Marks, MarkFits, lists
<1>6. m \notin Gone(fmon) /\ Gone(fmon)' = Gone(fmon) \cup {m}
  BY <1>0, <1>1, <1>2 DEF World, Counted, Population, Gone, IsGone, lists
<1>7. IsFiniteSet(Gone(fmon))
  BY FS_Subset, TurnsAssumption DEF World, Population, Gone
<1>8. Cardinality(Gone(fmon)') = Cardinality(Gone(fmon)) + 1
  BY <1>6, <1>7, FS_AddElement
<1>9. purge' = purge + 1 /\ ~impossible' BY DEF MDetach, World, Counted
<1>10. Counted' BY <1>0, <1>1, <1>2, <1>8, <1>9 DEF World, Counted, lists
<1> QED BY <1>1, <1>2, <1>3, <1>4, <1>5, <1>10 DEF World, IsGone

(* mondead() of a monster on the map.                                      *)
LEMMA Dead ==
  ASSUME World, UNCHANGED lists, NEW m \in Mons, OnMap(m), MonDead(m)
  PROVE  World' /\ ~OnMap(m)' /\ \A n \in Mons \ {m} : mon'[n] = mon[n]
<1>0. /\ m \in fmon /\ mon[m] \in Monst /\ ~mon[m].dead /\ ~mon[m].detached /\ ~mon[m].away
      /\ Whole(mon[m].movement) /\ m \notin migrating /\ (mon[m].isgd => m \in Guard)
  BY DEF World, Population, Places, Marks, MarkFits, Counted, IsGone, OnMap, Parked
<1>1. CASE ~mon[m].isgd
  <2>1. MDetach(m, mon[m]) BY <1>1 DEF MonDead
  <2> QED BY <1>0, <1>1, <2>1, Detached DEF OnMap
<1>2. CASE mon[m].isgd /\ MDetach(m, [mon[m] EXCEPT !.isgd = FALSE])
  <2> DEFINE r == [mon[m] EXCEPT !.isgd = FALSE]
  <2>1. /\ r \in Monst /\ r.movement = mon[m].movement /\ ~r.away /\ ~r.isgd /\ ~r.detached
    BY <1>0 DEF Monst
  <2>2. MDetach(m, r) BY <1>2
  <2> HIDE DEF r
  <2>3. World' /\ mon'[m].dead /\ \A n \in Mons \ {m} : mon'[n] = mon[n]
    BY <1>0, <2>1, <2>2, Detached
  <2> QED BY <2>3 DEF OnMap
<1>3. CASE /\ mon[m].isgd
           /\ mon' = [mon EXCEPT ![m] = [mon[m] EXCEPT !.dead = TRUE, !.parked = TRUE]]
           /\ UNCHANGED <<purge, impossible>>
  <2> DEFINE r == [mon[m] EXCEPT !.dead = TRUE, !.parked = TRUE]
  <2>1. /\ r \in Monst /\ r.movement = mon[m].movement /\ ~r.away
        /\ r.detached = mon[m].detached /\ r.isgd /\ r.dead
        /\ IsGone(r) = IsGone(mon[m]) /\ Whole(r.movement) /\ MarkFits(m, r)
    BY <1>0, <1>3 DEF Monst, IsGone, MarkFits
  <2>2. mon' = [mon EXCEPT ![m] = r] BY <1>3
  <2> HIDE DEF r
  <2>3. World' BY <1>3, <2>1, <2>2, Touched
  <2>4. mon'[m] = r /\ \A n \in Mons \ {m} : mon'[n] = mon[n]
    BY <2>2 DEF World, Population
  <2> QED BY <2>1, <2>3, <2>4 DEF OnMap
<1> QED BY <1>1, <1>2, <1>3 DEF MonDead, ClearFcorr

(* gd_move() of a guard who is done, or of one who is parked.              *)
LEMMA CleanedUp ==
  ASSUME World, UNCHANGED lists, NEW m \in fmon, NEW done \in BOOLEAN,
         mon[m].isgd, ~mon[m].away, GdMoveCleanup(m, done)
  PROVE  World' /\ ~OnMap(m)' /\ \A n \in Mons \ {m} : mon'[n] = mon[n]
<1>0. /\ m \in Mons /\ mon[m] \in Monst /\ ~mon[m].detached /\ m \notin migrating
      /\ m \in Guard
  BY DEF World, Population, Places, Marks, MarkFits, Counted, IsGone
<1> DEFINE p == [mon[m] EXCEPT !.parked = TRUE, !.gddone = done \/ @]
           r == [p EXCEPT !.isgd = FALSE, !.movement = 0]
           k == [p EXCEPT !.movement = 0]
<1>1. /\ r \in Monst /\ r.movement = 0 /\ ~r.away /\ ~r.isgd /\ ~r.detached
      /\ k \in Monst /\ k.movement = 0 /\ ~k.away /\ k.isgd /\ k.parked
      /\ k.detached = mon[m].detached /\ IsGone(k) = IsGone(mon[m]) /\ MarkFits(m, k)
  BY <1>0 DEF Monst, IsGone, MarkFits
<1>2. Whole(0) BY Numbers
<1>3. MDetach(m, r) \/ (mon' = [mon EXCEPT ![m] = k] /\ UNCHANGED <<purge, impossible>>)
  BY DEF GdMoveCleanup, ClearFcorr
<1> HIDE DEF r, k
<1>4. CASE MDetach(m, r)
  <2>1. World' /\ mon'[m].dead /\ \A n \in Mons \ {m} : mon'[n] = mon[n]
    BY <1>0, <1>1, <1>2, <1>4, Detached
  <2> QED BY <2>1 DEF OnMap
<1>5. CASE mon' = [mon EXCEPT ![m] = k] /\ UNCHANGED <<purge, impossible>>
  <2>1. World' BY <1>0, <1>1, <1>2, <1>5, Touched
  <2>2. mon'[m] = k /\ \A n \in Mons \ {m} : mon'[n] = mon[n]
    BY <1>0, <1>5 DEF World, Population
  <2> QED BY <1>1, <2>1, <2>2 DEF OnMap, Parked
<1> QED BY <1>3, <1>4, <1>5

----------------------------------------------------------------------------
(* The effects.                                                            *)

(* An effect leaves the pass where it is, and those whose moves are        *)
(* counted as they were.                                                   *)
LEMMA FlowStays ==
  ASSUME Flow, UNCHANGED <<pc, pass, utotype>>,
         fmon \cup migrating \subseteq fmon' \cup migrating',
         DOMAIN spent' \subseteq DOMAIN spent, spent' \in [DOMAIN spent' -> Nat],
         \A n \in DOMAIN spent' :
           spent'[n] = spent[n] /\ mon'[n] = mon[n] /\ (n \in fmon => n \in fmon')
  PROVE  Flow'
<1>1. Control' BY DEF Flow, Control, pass
<1>2. Snapshot' BY DEF Flow, Snapshot, pass
<1>3. ASSUME NEW n \in DOMAIN spent' PROVE Measured(n)' /\ Noted(n)'
  BY <1>3 DEF Flow, Measure, Measured, Noted, OnMap, Parked, Moves, Few, Many, pass
<1>4. Measure' BY <1>3 DEF Flow, Measure
<1> QED BY <1>1, <1>2, <1>4 DEF Flow

LEMMA SpentKept ==
  ASSUME Control, NEW gone, spent' = Except(gone)
  PROVE  /\ DOMAIN spent' = DOMAIN spent \ gone /\ spent' \in [DOMAIN spent' -> Nat]
         /\ DOMAIN spent' \subseteq Mons \ gone
         /\ \A n \in DOMAIN spent' : spent'[n] = spent[n]
BY DEF Control, Except

LEMMA Killing == ASSUME IInv, NEW m \in Mons, Kill(m) PROVE IInv'
<1>1. OnMap(m) /\ MonDead(m) /\ spent' = Except({m}) /\ UNCHANGED <<pc, pass, lists, hero, utotype>>
  BY DEF Kill
<1>2. World' /\ \A n \in Mons \ {m} : mon'[n] = mon[n] BY <1>1, Dead DEF IInv
<1>3. Flow'
  <2>1. Flow /\ Control BY DEF IInv, Flow
  <2>2. /\ DOMAIN spent' = DOMAIN spent \ {m} /\ spent' \in [DOMAIN spent' -> Nat]
        /\ DOMAIN spent' \subseteq Mons \ {m}
        /\ \A n \in DOMAIN spent' : spent'[n] = spent[n]
    BY <1>1, <2>1, SpentKept
  <2> QED BY <1>1, <1>2, <2>1, <2>2, FlowStays DEF lists
<1> QED BY <1>2, <1>3 DEF IInv

LEMMA Dismissing == ASSUME IInv, GuardDone PROVE IInv'
<1>1. /\ OnMap(actor) /\ mon[actor].isgd /\ spent' = Except({actor})
      /\ \E done \in BOOLEAN : GdMoveCleanup(actor, done)
      /\ UNCHANGED <<pc, pass, lists, hero, utotype>>
  BY DEF GuardDone
<1>2. actor \in fmon /\ actor \notin migrating /\ actor \in Mons /\ ~mon[actor].away
  BY <1>1 DEF IInv, World, Population, Places, Marks, MarkFits, OnMap, Parked
<1>3. World' /\ \A n \in Mons \ {actor} : mon'[n] = mon[n]
  BY <1>1, <1>2, CleanedUp DEF IInv
<1>4. Flow'
  <2>1. Flow /\ Control BY DEF IInv, Flow
  <2>2. /\ DOMAIN spent' = DOMAIN spent \ {actor} /\ spent' \in [DOMAIN spent' -> Nat]
        /\ DOMAIN spent' \subseteq Mons \ {actor}
        /\ \A n \in DOMAIN spent' : spent'[n] = spent[n]
    BY <1>1, <2>1, SpentKept
  <2> QED BY <1>1, <1>3, <2>1, <2>2, FlowStays DEF lists
<1> QED BY <1>3, <1>4 DEF IInv

LEMMA Making == ASSUME IInv, NEW m \in Mons, Make(m) PROVE IInv'
<1>1. /\ m \notin fmon /\ m \notin migrating /\ \A l \in Levels : m \notin stored[l]
      /\ fmon' = fmon \cup {m} /\ mon' = [mon EXCEPT ![m] = New(m)]
      /\ UNCHANGED <<pc, pass, level, migrating, stored, purge, impossible, utotype, spent>>
  BY DEF Make, Free
<1>2. /\ New(m) \in Monst /\ New(m).movement = 0 /\ ~New(m).away /\ ~New(m).dead
      /\ ~New(m).detached /\ New(m).isgd = (m \in Guard)
  BY DEF New, Monst
<1>3. Whole(0) BY Numbers
<1>4. mon' \in [Mons -> Monst] /\ mon'[m] = New(m) /\ \A n \in Mons \ {m} : mon'[n] = mon[n]
  BY <1>1, <1>2 DEF IInv, World, Population
<1>5. Population' BY <1>1, <1>2, <1>3, <1>4 DEF IInv, World, Population
<1>6. Places' BY <1>1 DEF IInv, World, Population, Places
<1>7. Marks' BY <1>1, <1>2, <1>4 DEF IInv, World, Marks, MarkFits
<1>8. Gone(fmon)' = Gone(fmon)
  BY <1>1, <1>2, <1>4 DEF IInv, World, Population, Gone
<1>9. Counted'
  BY <1>1, <1>2, <1>4, <1>8 DEF IInv, World, Counted, IsGone
<1>10. \A n \in DOMAIN spent : n \in fmon BY DEF IInv, Flow, Measure, Measured, OnMap
<1>11. Flow' BY <1>1, <1>4, <1>10, FlowStays DEF IInv, Flow, Control
<1> QED BY <1>5, <1>6, <1>7, <1>9, <1>11 DEF IInv, World

LEMMA Migrating ==
  ASSUME IInv, NEW m \in Mons, NEW l \in Levels, Migrate(m, l) PROVE IInv'
<1>1. /\ OnMap(m) /\ m \in fmon /\ ~mon[m].dead
      /\ fmon' = fmon \ {m} /\ migrating' = migrating \cup {m}
      /\ mon' = [mon EXCEPT ![m].away = TRUE] /\ spent' = Except({m})
      /\ UNCHANGED <<pc, pass, level, stored, purge, impossible, utotype>>
  BY DEF Migrate, OnMap
<1> DEFINE r == [mon[m] EXCEPT !.away = TRUE]
<1>2. /\ r \in Monst /\ r.away /\ ~r.dead /\ r.detached = mon[m].detached
      /\ r.movement = mon[m].movement
  BY <1>1 DEF IInv, World, Population, Monst
<1>3. mon' = [mon EXCEPT ![m] = r] BY <1>1
<1> HIDE DEF r
<1>4. mon' \in [Mons -> Monst] /\ mon'[m] = r /\ \A n \in Mons \ {m} : mon'[n] = mon[n]
  BY <1>2, <1>3 DEF IInv, World, Population
<1>5. Population' BY <1>1, <1>2, <1>4 DEF IInv, World, Population
<1>6. Places' BY <1>1 DEF IInv, World, Population, Places
<1>7. Marks' BY <1>1, <1>2, <1>4 DEF IInv, World, Marks, MarkFits
<1>8. Gone(fmon)' = Gone(fmon)
  BY <1>1, <1>2, <1>4 DEF IInv, World, Population, Gone
<1>9. ~mon[m].detached BY <1>1 DEF IInv, World, Counted, IsGone
<1>10. Counted'
  BY <1>1, <1>2, <1>4, <1>8, <1>9 DEF IInv, World, Counted, IsGone
<1>11. Flow'
  <2>1. Flow /\ Control BY DEF IInv, Flow
  <2>2. /\ DOMAIN spent' = DOMAIN spent \ {m} /\ spent' \in [DOMAIN spent' -> Nat]
        /\ DOMAIN spent' \subseteq Mons \ {m}
        /\ \A n \in DOMAIN spent' : spent'[n] = spent[n]
    BY <1>1, <2>1, SpentKept
  <2> QED BY <1>1, <1>4, <2>1, <2>2, FlowStays
<1> QED BY <1>5, <1>6, <1>7, <1>10, <1>11 DEF IInv, World

(* A monster that uses one of its moves stays on its measure.              *)
LEMMA Using ==
  ASSUME IInv, NEW m \in Mons, OnMap(m), mon[m].movement > 0,
         mon' = [mon EXCEPT ![m].movement = @ - NORMAL_SPEED], spent' = Spend(m),
         UNCHANGED <<lists, purge, impossible>>
  PROVE  /\ World' /\ DOMAIN spent' = DOMAIN spent /\ spent' \in [DOMAIN spent' -> Nat]
         /\ \A n \in DOMAIN spent : /\ Measured(n)'
                                    /\ CanMove(mon'[n].movement) => CanMove(mon[n].movement)
                                    /\ n # m => mon'[n] = mon[n]
         /\ mon'[m].movement = mon[m].movement - NORMAL_SPEED
<1> DEFINE r == [mon[m] EXCEPT !.movement = mon[m].movement - NORMAL_SPEED]
<1>0. /\ mon[m] \in Monst /\ Whole(mon[m].movement) /\ mon[m].movement \in Nat
      /\ MarkFits(m, mon[m])
  BY DEF IInv, World, Population, Marks, Monst
<1>1. mon[m].movement - NORMAL_SPEED \in Nat /\ Whole(mon[m].movement - NORMAL_SPEED)
  BY <1>0, Numbers
<1>2. /\ r \in Monst /\ r.movement = mon[m].movement - NORMAL_SPEED
      /\ r.detached = mon[m].detached /\ r.dead = mon[m].dead /\ r.isgd = mon[m].isgd
      /\ r.parked = mon[m].parked /\ r.away = mon[m].away
  BY <1>0, <1>1 DEF Monst
<1>3. mon' = [mon EXCEPT ![m] = r] OBVIOUS
<1> HIDE DEF r
<1>4. IsGone(r) = IsGone(mon[m]) /\ MarkFits(m, r) BY <1>0, <1>2 DEF IsGone, MarkFits
<1>5. World' BY <1>1, <1>2, <1>3, <1>4, Touched DEF IInv
<1>6. mon'[m] = r /\ \A n \in Mons \ {m} : mon'[n] = mon[n]
  BY <1>3 DEF IInv, World, Population
<1>7. DOMAIN spent \subseteq Mons /\ spent \in [DOMAIN spent -> Nat]
  BY DEF IInv, Flow, Control
<1>8. /\ DOMAIN spent' = DOMAIN spent /\ spent' \in [DOMAIN spent' -> Nat]
      /\ \A n \in DOMAIN spent : spent'[n] = IF n = m THEN spent[n] + 1 ELSE spent[n]
  BY <1>7 DEF Spend
<1>9. ASSUME NEW n \in DOMAIN spent
      PROVE  /\ Measured(n)'
             /\ CanMove(mon'[n].movement) => CanMove(mon[n].movement)
             /\ n # m => mon'[n] = mon[n]
  <2>1. Measured(n) /\ spent[n] \in Nat BY <1>7, <1>9 DEF IInv, Flow, Measure
  <2>2. CASE n = m
    <3>1. OnMap(m)' /\ ~mon'[m].away
      BY <1>2, <1>6, <2>1, <2>2 DEF OnMap, Parked, Measured, lists
    <3>2. mon'[m].movement + Moves(spent'[m]) = mon[m].movement + Moves(spent[m])
      BY <1>0, <1>2, <1>6, <1>8, <1>9, <2>1, <2>2 DEF Moves, NORMAL_SPEED
    <3>3. CanMove(mon'[m].movement) => CanMove(mon[m].movement)
      BY <1>0, <1>2, <1>6 DEF CanMove, NORMAL_SPEED
    <3> QED BY <2>1, <2>2, <3>1, <3>2, <3>3 DEF Measured, Few, Many, Moves
  <2>3. CASE n # m
    <3>1. mon'[n] = mon[n] /\ spent'[n] = spent[n] BY <1>6, <1>7, <1>8, <1>9, <2>3
    <3> QED BY <2>1, <2>3, <3>1 DEF Measured, OnMap, Parked, Few, Many, Moves, lists
  <2> QED BY <2>2, <2>3
<1> QED BY <1>2, <1>5, <1>6, <1>8, <1>9

LEMMA Striking == ASSUME IInv, NEW m \in Mons, StrikeBack(m) PROVE IInv'
<1>1. /\ OnMap(m) /\ mon[m].movement > 0 /\ spent' = Spend(m)
      /\ UNCHANGED <<pc, pass, lists, purge, impossible, utotype>>
  BY DEF StrikeBack
<1>2. mon[m].movement \in Nat /\ Whole(mon[m].movement)
  BY DEF IInv, World, Population, Monst
<1>3. mon[m].movement - NORMAL_SPEED \in Nat BY <1>1, <1>2, Numbers
<1>4. (IF mon[m].movement > NORMAL_SPEED THEN mon[m].movement - NORMAL_SPEED ELSE 0)
      = mon[m].movement - NORMAL_SPEED
  BY <1>2, <1>3 DEF NORMAL_SPEED
<1>5. mon' = [mon EXCEPT ![m].movement = @ - NORMAL_SPEED] BY <1>4 DEF StrikeBack
<1>6. /\ World' /\ DOMAIN spent' = DOMAIN spent /\ spent' \in [DOMAIN spent' -> Nat]
      /\ \A n \in DOMAIN spent : /\ Measured(n)'
                                 /\ CanMove(mon'[n].movement) => CanMove(mon[n].movement)
  BY <1>1, <1>5, Using
<1>7. Control' /\ Snapshot' BY <1>1, <1>6 DEF IInv, Flow, Control, Snapshot, pass, lists
<1>8. Measure' BY <1>1, <1>6 DEF IInv, Flow, Measure, Noted, pass
<1> QED BY <1>6, <1>7, <1>8 DEF IInv, Flow

LEMMA Finding == ASSUME IInv, NEW m \in Mons, FindGd(m) PROVE IInv'
<1>0. /\ mon[m] \in Monst /\ mon[m].isgd /\ Whole(mon[m].movement) /\ MarkFits(m, mon[m])
      /\ UNCHANGED <<pc, pass, level, stored, purge, impossible, utotype, spent>>
      /\ DOMAIN spent \subseteq Mons /\ spent \in [DOMAIN spent -> Nat]
      /\ \A n \in DOMAIN spent : OnMap(n)
  BY DEF FindGd, IInv, World, Population, Marks, Flow, Control, Measure, Measured
<1>1. CASE /\ m \in fmon /\ mon[m].dead /\ mon[m].parked
           /\ mon' = [mon EXCEPT ![m].dead = FALSE] /\ UNCHANGED <<fmon, migrating, dest>>
  <2> DEFINE r == [mon[m] EXCEPT !.dead = FALSE]
  <2>1. /\ r \in Monst /\ ~r.dead /\ r.isgd /\ r.parked /\ r.away = mon[m].away
        /\ r.detached = mon[m].detached /\ r.movement = mon[m].movement
    BY <1>0, <1>1 DEF Monst
  <2>2. mon' = [mon EXCEPT ![m] = r] BY <1>1
  <2> HIDE DEF r
  <2>3. IsGone(r) = IsGone(mon[m]) /\ MarkFits(m, r)
    BY <1>0, <1>1, <2>1 DEF IsGone, MarkFits
  <2>4. World' BY <1>0, <1>1, <2>1, <2>2, <2>3, Touched DEF IInv, lists
  <2>5. \A n \in DOMAIN spent : mon'[n] = mon[n]
    BY <1>0, <1>1, <2>2 DEF OnMap, IInv, World, Population
  <2>6. Flow' BY <1>0, <1>1, <2>5, FlowStays DEF IInv
  <2> QED BY <2>4, <2>6 DEF IInv
<1>2. CASE /\ m \in migrating /\ migrating' = migrating \ {m} /\ fmon' = fmon \cup {m}
           /\ mon' = [mon EXCEPT ![m] = Placed(@)]
  <2> DEFINE r == Placed(mon[m])
  <2>1. /\ r \in Monst /\ ~r.dead /\ r.isgd /\ ~r.away /\ r.movement = mon[m].movement
        /\ r.detached = mon[m].detached /\ ~mon[m].dead
    BY <1>0, <1>2 DEF Monst, MarkFits, Placed
  <2>2. mon' = [mon EXCEPT ![m] = r] BY <1>2
  <2> HIDE DEF r
  <2>3. mon' \in [Mons -> Monst] /\ mon'[m] = r /\ \A n \in Mons \ {m} : mon'[n] = mon[n]
    BY <2>1, <2>2 DEF IInv, World, Population
  <2>4. Population' BY <1>0, <1>2, <2>1, <2>3 DEF IInv, World, Population
  <2>5. Places' BY <1>0, <1>2 DEF IInv, World, Population, Places
  <2>6. Marks' BY <1>0, <1>2, <2>1, <2>3 DEF IInv, World, Marks, MarkFits
  <2>7. Gone(fmon)' = Gone(fmon)
    BY <1>2, <2>1, <2>3 DEF IInv, World, Population, Gone
  <2>8. Counted' BY <1>0, <1>2, <2>1, <2>3, <2>7 DEF IInv, World, Counted, IsGone
  <2>9. m \notin fmon BY <1>2 DEF IInv, World, Places
  <2>10. Flow' BY <1>0, <1>2, <2>3, <2>9, FlowStays DEF IInv, OnMap
  <2> QED BY <2>4, <2>5, <2>6, <2>8, <2>10 DEF IInv, World
<1> QED BY <1>0, <1>1, <1>2 DEF FindGd

LEMMA Scheduling == ASSUME IInv, Schedule PROVE IInv'
<1>1. World' BY WorldStays DEF IInv, Schedule
<1>2. DOMAIN spent' = {} /\ spent' \in [DOMAIN spent' -> Nat] BY DEF Schedule, Nobody
<1>3. Flow' BY <1>2 DEF IInv, Flow, Schedule, Busy, Control, Snapshot, Measure, pass, lists
<1> QED BY <1>1, <1>3 DEF IInv

LEMMA Helplessness == ASSUME IInv, NEW k, Nomul(k) PROVE IInv'
<1>1. World' BY WorldStays DEF IInv, Nomul
<1>2. UNCHANGED <<pc, pass, utotype, fmon, migrating, mon, spent>> BY DEF Nomul, lists, dying
<1>3. Flow' BY <1>2, FlowStays DEF IInv, Flow, Control
<1> QED BY <1>1, <1>3 DEF IInv

LEMMA Effects == ASSUME IInv, Effect PROVE IInv'
BY Killing, Dismissing, Making, Migrating, Striking, Finding, Scheduling, Helplessness
DEF Effect

----------------------------------------------------------------------------
(* A change of level frees the dead, and takes along who follows.          *)

LEMMA GoneCounted ==
  ASSUME World
  PROVE  /\ IsFiniteSet(Gone(fmon)) /\ purge \in Nat
         /\ purge = Cardinality(Gone(fmon)) /\ (purge = 0 => Gone(fmon) = {})
<1>1. IsFiniteSet(Gone(fmon)) BY FS_Subset, TurnsAssumption DEF World, Population, Gone
<1>2. purge = Cardinality(Gone(fmon)) BY DEF World, Counted
<1> QED BY <1>1, <1>2, FS_CardinalityType, FS_EmptySet

LEMMA Going ==
  ASSUME World, NEW l \in Levels, l # level, GotoLevel(l)
  PROVE  World' /\ spent' = Nobody
<1>1. PICK follow \in SUBSET {m \in fmon : OnMap(m)} :
        LET kept   == {m \in fmon \ follow : OnMap(m) /\ mon[m].isgd /\ level # Home}
            left   == fmon \ (follow \cup kept)
            gone   == IF purge > 0 THEN Gone(left) ELSE {}
            coming == follow \cup {m \in migrating : dest[m] = l}
        IN  \E arrived \in SUBSET coming :
              /\ Purge(left)
              /\ stored' = [stored EXCEPT ![level] = left \ gone, ![l] = {}]
              /\ fmon' = stored[l] \cup arrived
              /\ migrating' = (migrating \cup kept \cup coming) \ arrived
              /\ mon' = [m \in Mons |->
                           IF m \in gone THEN New(m)
                           ELSE IF m \in arrived THEN Arrive(mon[m])
                           ELSE IF m \in kept \cup coming THEN [mon[m] EXCEPT !.away = TRUE]
                           ELSE mon[m]]
              /\ level' = l /\ spent' = Nobody
  BY DEF GotoLevel
<1> DEFINE kept   == {m \in fmon \ follow : OnMap(m) /\ mon[m].isgd /\ level # Home}
           left   == fmon \ (follow \cup kept)
           gone   == IF purge > 0 THEN Gone(left) ELSE {}
           coming == follow \cup {m \in migrating : dest[m] = l}
<1>2. PICK arrived \in SUBSET coming :
        /\ Purge(left)
        /\ stored' = [stored EXCEPT ![level] = left \ gone, ![l] = {}]
        /\ fmon' = stored[l] \cup arrived
        /\ migrating' = (migrating \cup kept \cup coming) \ arrived
        /\ mon' = [m \in Mons |->
                     IF m \in gone THEN New(m)
                     ELSE IF m \in arrived THEN Arrive(mon[m])
                     ELSE IF m \in kept \cup coming THEN [mon[m] EXCEPT !.away = TRUE]
                     ELSE mon[m]]
        /\ level' = l /\ spent' = Nobody
  BY <1>1
<1>3. /\ kept \subseteq fmon /\ follow \subseteq fmon /\ left = fmon \ (follow \cup kept)
      /\ \A m \in follow \cup kept : ~mon[m].dead
      /\ coming \subseteq follow \cup migrating /\ follow \subseteq coming
  BY DEF OnMap
<1>4. Gone(left) = Gone(fmon) BY <1>3 DEF Gone
<1>5. gone = Gone(fmon) /\ gone \subseteq left
  <2>1. gone = Gone(fmon) BY <1>4, GoneCounted
  <2>2. Gone(left) \subseteq left BY DEF Gone
  <2> QED BY <1>4, <2>1, <2>2
<1> HIDE DEF kept, left, gone, coming
<1>6. purge' = 0 /\ ~impossible'
  <2>1. Purge(left) /\ ~impossible BY <1>2 DEF World, Counted
  <2>2. purge = Cardinality(Gone(left)) /\ purge \in Nat BY <1>4, GoneCounted
  <2>3. CASE purge > 0 BY <2>1, <2>2, <2>3 DEF Purge, DmonsFree
  <2>4. CASE purge = 0 BY <2>1, <2>4 DEF Purge
  <2> QED BY <2>2, <2>3, <2>4
<1>7. /\ fmon \subseteq Mons /\ migrating \subseteq Mons /\ fmon \cap migrating = {}
      /\ stored \in [Levels -> SUBSET Mons] /\ level \in Levels
      /\ stored[level] = {} /\ \A k \in Levels : stored[k] \cap (fmon \cup migrating) = {}
      /\ \A j, k \in Levels : j # k => stored[j] \cap stored[k] = {}
  BY DEF World, Population, Places
<1>8. /\ stored'[l] = {} /\ stored'[level] = left \ gone
      /\ \A k \in Levels \ {l, level} : stored'[k] = stored[k]
      /\ stored' \in [Levels -> SUBSET Mons]
  BY <1>2, <1>3, <1>7
<1>9. /\ mon' \in [Mons -> Monst]
      /\ \A m \in gone : mon'[m] = New(m)
      /\ \A m \in Mons \ gone :
           /\ mon'[m].movement = mon[m].movement /\ mon'[m].detached = mon[m].detached
           /\ mon'[m].dead = mon[m].dead /\ mon'[m].isgd = mon[m].isgd
           /\ mon'[m].parked = mon[m].parked
           /\ mon'[m].away = IF m \in arrived THEN FALSE
                             ELSE IF m \in kept \cup coming THEN TRUE ELSE mon[m].away
  <2>1. mon \in [Mons -> Monst] BY DEF World, Population
  <2>2. \A m \in Mons : New(m) \in Monst BY DEF New, Monst
  <2>3. ASSUME NEW m \in Mons
        PROVE  /\ mon'[m] \in Monst
               /\ m \in gone => mon'[m] = New(m)
               /\ m \notin gone =>
                    /\ mon'[m].movement = mon[m].movement
                    /\ mon'[m].detached = mon[m].detached
                    /\ mon'[m].dead = mon[m].dead /\ mon'[m].isgd = mon[m].isgd
                    /\ mon'[m].parked = mon[m].parked
                    /\ mon'[m].away = IF m \in arrived THEN FALSE
                                      ELSE IF m \in kept \cup coming THEN TRUE
                                      ELSE mon[m].away
    <3>1. mon[m] \in Monst BY <2>1
    <3>2. /\ Arrive(mon[m]) \in Monst /\ Arrive(mon[m]).away = FALSE
          /\ Arrive(mon[m]).movement = mon[m].movement
          /\ Arrive(mon[m]).detached = mon[m].detached
          /\ Arrive(mon[m]).dead = mon[m].dead /\ Arrive(mon[m]).isgd = mon[m].isgd
          /\ Arrive(mon[m]).parked = mon[m].parked
      BY <3>1 DEF Arrive, Monst
    <3> DEFINE w == [mon[m] EXCEPT !.away = TRUE]
    <3>3. /\ w \in Monst /\ w.away = TRUE /\ w.movement = mon[m].movement
          /\ w.detached = mon[m].detached /\ w.dead = mon[m].dead /\ w.isgd = mon[m].isgd
          /\ w.parked = mon[m].parked
      BY <3>1 DEF Monst
    <3>4. mon'[m] = IF m \in gone THEN New(m) ELSE IF m \in arrived THEN Arrive(mon[m])
                    ELSE IF m \in kept \cup coming THEN w ELSE mon[m]
      BY <1>2
    <3> HIDE DEF w
    <3> QED BY <2>2, <3>1, <3>2, <3>3, <3>4
  <2>4. mon' = [m \in Mons |-> mon'[m]] BY <1>2
  <2>5. gone \subseteq Mons BY <1>5, <1>3, <1>7
  <2> QED BY <2>3, <2>4, <2>5
<1>10. /\ \A m \in Mons : New(m).movement = 0 /\ ~New(m).away /\ ~New(m).dead
       /\ \A m \in Mons : ~New(m).detached /\ New(m).isgd = (m \in Guard)
       /\ Whole(0)
  BY Numbers DEF New
<1>11. Population'
  BY <1>2, <1>3, <1>7, <1>8, <1>9, <1>10 DEF World, Population
<1>12. Places'
  <2>1. fmon' \cap migrating' = {} BY <1>2, <1>3, <1>7
  <2>2. stored'[level'] = {} BY <1>2, <1>8
  <2>3. ASSUME NEW k \in Levels PROVE stored'[k] \cap (fmon' \cup migrating') = {}
    BY <1>2, <1>3, <1>7, <1>8
  <2>4. ASSUME NEW j \in Levels, NEW k \in Levels, j # k
        PROVE  stored'[j] \cap stored'[k] = {}
    BY <1>3, <1>7, <1>8, <2>4
  <2> QED BY <2>1, <2>2, <2>3, <2>4 DEF Places
<1>13. Marks'
  <2> SUFFICES ASSUME NEW m \in Mons PROVE MarkFits(m, mon[m])' BY DEF Marks
  <2>0. MarkFits(m, mon[m]) BY DEF World, Marks
  <2>1. CASE m \in gone
    <3>1. m \notin migrating' BY <1>2, <1>3, <1>5, <1>7, <2>1
    <3> QED BY <1>9, <1>10, <2>1, <3>1 DEF MarkFits
  <2>2. CASE m \notin gone
    <3>1. m \in migrating' => m \notin arrived /\ (m \in kept \cup coming \/ m \in migrating)
      BY <1>2
    <3>2. m \in kept \cup coming => ~mon[m].dead BY <1>3, <2>0 DEF MarkFits
    <3>3. m \notin migrating' /\ m \notin arrived => m \notin migrating /\ m \notin kept \cup coming
      BY <1>2
    <3>4. mon'[m].away => m \notin arrived BY <1>9, <2>2
    <3> QED BY <1>9, <2>0, <2>2, <3>1, <3>2, <3>3, <3>4 DEF MarkFits
  <2> QED BY <2>1, <2>2
<1>14. Counted'
  <2>1. \A m \in Mons : (mon[m].detached <=> IsGone(mon[m])) /\ (mon[m].detached => m \in fmon)
    BY DEF World, Counted
  <2>2. \A m \in Mons \ gone : ~mon[m].detached BY <1>5, <2>1 DEF Gone, IsGone
  <2>3. \A m \in Mons : ~mon'[m].detached /\ ~IsGone(mon'[m])
    BY <1>9, <1>10, <2>1, <2>2 DEF IsGone
  <2>4. Gone(fmon)' = {} BY <1>11, <2>3 DEF Population, Gone, IsGone
  <2>5. Cardinality(Gone(fmon)') = 0 BY <2>4, FS_EmptySet
  <2> QED BY <1>6, <2>3, <2>5 DEF Counted
<1> QED BY <1>2, <1>11, <1>12, <1>13, <1>14 DEF World

LEMMA Deferring ==
  ASSUME IInv, utotype, DeferredGoto
  PROVE  World' /\ ~utotype' /\ DOMAIN spent' = {} /\ spent' \in [DOMAIN spent' -> Nat]
<1>1. DOMAIN spent = {} /\ spent \in [DOMAIN spent -> Nat]
  BY DEF IInv, Flow, Control, Measure
<1>2. DOMAIN Nobody = {} /\ Nobody \in [DOMAIN Nobody -> Nat] BY DEF Nobody
<1>3. CASE UNCHANGED <<lists, dying, spent>>
  BY <1>1, <1>3, WorldStays DEF IInv, DeferredGoto
<1>4. CASE \E l \in Levels \ {level} : GotoLevel(l)
  BY <1>2, <1>4, Going DEF IInv, DeferredGoto
<1> QED BY <1>3, <1>4 DEF DeferredGoto

LEMMA Perhaps ==
  ASSUME IInv, (utotype /\ DeferredGoto) \/ NoGoto
  PROVE  /\ World' /\ utotype' = FALSE
         /\ DOMAIN spent' \subseteq Mons /\ spent' \in [DOMAIN spent' -> Nat]
         /\ \A n \in DOMAIN spent' : Measured(n)'
<1>1. CASE utotype /\ DeferredGoto BY <1>1, Deferring DEF DeferredGoto
<1>2. CASE NoGoto
  <2>1. World' BY <1>2, WorldStays DEF IInv, NoGoto
  <2> QED BY <1>2, <2>1 DEF NoGoto, IInv, Flow, Control, Measure, Measured, OnMap, Parked,
                            Few, Many, Moves, lists, dying
<1> QED BY <1>1, <1>2

----------------------------------------------------------------------------
(* moveloop_core().                                                        *)

(* Where nothing is asked of those with moves left.                        *)
LEMMA FlowElsewhere ==
  ASSUME pc' \in {"input", "command", "movemon", "once"}, itermonarr' = {},
         somebody' \in BOOLEAN, utotype' \in BOOLEAN,
         DOMAIN spent' \subseteq Mons, spent' \in [DOMAIN spent' -> Nat],
         \A n \in DOMAIN spent' : Measured(n)', utotype' => DOMAIN spent' = {}
  PROVE  Flow'
BY DEF Flow, Control, Points, Snapshot, Measure, Noted

LEMMA MeasuredStays ==
  ASSUME IInv, UNCHANGED <<lists, dying, spent>>
  PROVE  /\ DOMAIN spent' \subseteq Mons /\ spent' \in [DOMAIN spent' -> Nat]
         /\ \A n \in DOMAIN spent' : Measured(n)'
BY DEF IInv, Flow, Control, Measure, Measured, OnMap, Parked, Few, Many, Moves, lists, dying

LEMMA Commanding == ASSUME IInv, Command \/ Helpless \/ EndCommand PROVE IInv'
<1>0. pc \in {"input", "command"} /\ itermonarr = {} /\ somebody \in BOOLEAN /\ utotype \in BOOLEAN
      /\ (utotype => DOMAIN spent = {})
  BY DEF Command, Helpless, EndCommand, IInv, Flow, Control, Snapshot, Measure
<1>1. CASE Command
  <2>1. /\ pc' = "command" /\ UNCHANGED <<pass, utotype, spent>>
        /\ UNCHANGED <<lists, dying, spent>>
    BY <1>1 DEF Command, To
  <2>2. World' BY <2>1, WorldStays DEF IInv
  <2>3. Flow' BY <1>0, <2>1, MeasuredStays, FlowElsewhere DEF pass
  <2> QED BY <2>2, <2>3 DEF IInv
<1>2. CASE Helpless \/ EndCommand
  <2>1. /\ pc' \in {"input", "movemon"} /\ UNCHANGED pass
        /\ (utotype /\ DeferredGoto) \/ NoGoto
    BY <1>2 DEF Helpless, EndCommand, TakeTime, To
  <2>2. /\ World' /\ utotype' = FALSE
        /\ DOMAIN spent' \subseteq Mons /\ spent' \in [DOMAIN spent' -> Nat]
        /\ \A n \in DOMAIN spent' : Measured(n)'
    BY <2>1, Perhaps
  <2>3. Flow' BY <1>0, <2>1, <2>2, FlowElsewhere DEF pass
  <2> QED BY <2>2, <2>3 DEF IInv
<1> QED BY <1>1, <1>2

LEMMA Beginning == ASSUME IInv, Movemon PROVE IInv'
<1>1. /\ pc = "movemon" /\ pc' = "pass" /\ itermonarr' = fmon /\ somebody' = FALSE
      /\ UNCHANGED <<lists, dying, utotype, spent>>
  BY DEF Movemon, To
<1>2. World' BY <1>1, WorldStays DEF IInv
<1>3. /\ DOMAIN spent' \subseteq Mons /\ spent' \in [DOMAIN spent' -> Nat]
      /\ \A n \in DOMAIN spent' : Measured(n)'
  BY <1>1, MeasuredStays
<1>4. Control' /\ Snapshot'
  BY <1>1, <1>3 DEF IInv, World, Population, Flow, Control, Points, Snapshot, lists
<1>5. \A n \in DOMAIN spent' : Noted(n)' BY <1>1, <1>3 DEF Noted, Measured, OnMap, lists
<1>6. Measure' BY <1>1, <1>3, <1>5 DEF IInv, Flow, Measure
<1> QED BY <1>2, <1>4, <1>6 DEF IInv, Flow

LEMMA Stopping == ASSUME IInv, StopMoving PROVE IInv'
<1>1. World' BY WorldStays DEF IInv, StopMoving
<1>2. Control' /\ Snapshot' BY DEF StopMoving, IInv, Flow, Control, Points, Snapshot, lists
<1>3. Measure' BY DEF StopMoving, IInv, Flow, Measure
<1> QED BY <1>1, <1>2, <1>3 DEF IInv, Flow

(* Who is passed over in movemon_singlemon() has no moves left, or is not  *)
(* one of those whose moves are counted.                                   *)
LEMMA FlowPasses ==
  ASSUME IInv, NEW m \in Mons, Visit(m), UNCHANGED <<pc, actor, somebody, utotype, lists, spent>>,
         \A n \in Mons \ {m} : mon'[n] = mon[n],
         m \in DOMAIN spent => mon'[m] = mon[m] /\ ~CanMove(mon[m].movement)
  PROVE  Flow'
<1>1. /\ pc = "pass" /\ itermonarr' = itermonarr \ {m} BY DEF Visit
<1>2. Control' /\ Snapshot' BY <1>1 DEF IInv, Flow, Control, Snapshot, lists
<1>3. ASSUME NEW n \in DOMAIN spent PROVE Measured(n)' /\ Noted(n)'
  <2>1. mon'[n] = mon[n] /\ n \in Mons BY <1>3 DEF IInv, Flow, Control
  <2>2. Measured(n) /\ Noted(n) BY <1>3 DEF IInv, Flow, Measure
  <2>3. Measured(n)' BY <2>1, <2>2 DEF Measured, OnMap, Parked, Few, Many, Moves, lists
  <2>4. Noted(n)' BY <1>1, <1>3, <2>1, <2>2 DEF Noted
  <2> QED BY <2>3, <2>4
<1>4. Measure' BY <1>3 DEF IInv, Flow, Measure
<1> QED BY <1>2, <1>4 DEF Flow

(* Who is on the level and stands still without his movement.              *)
LEMMA Stilled ==
  ASSUME IInv, NEW m \in Mons, mon' = [mon EXCEPT ![m].movement = 0],
         UNCHANGED <<lists, purge, impossible>>
  PROVE  World' /\ \A n \in Mons \ {m} : mon'[n] = mon[n]
<1> DEFINE r == [mon[m] EXCEPT !.movement = 0]
<1>1. mon[m] \in Monst /\ MarkFits(m, mon[m]) BY DEF IInv, World, Population, Marks
<1>2. /\ r \in Monst /\ r.movement = 0 /\ r.detached = mon[m].detached
      /\ r.dead = mon[m].dead /\ r.isgd = mon[m].isgd /\ r.parked = mon[m].parked
      /\ r.away = mon[m].away
  BY <1>1 DEF Monst
<1>3. mon' = [mon EXCEPT ![m] = r] OBVIOUS
<1> HIDE DEF r
<1>4. MarkFits(m, r) /\ IsGone(r) = IsGone(mon[m]) BY <1>1, <1>2 DEF MarkFits, IsGone
<1>5. World' BY <1>2, <1>3, <1>4, Touched, Numbers DEF IInv
<1> QED BY <1>3, <1>5 DEF IInv, World, Population

LEMMA Passing == ASSUME IInv, NEW m \in Mons, MoveParked(m) \/ PassOver(m) PROVE IInv'
<1>0. /\ Visit(m) /\ UNCHANGED <<pc, actor, somebody, utotype, lists, spent>>
  BY DEF MoveParked, PassOver
<1>1. m \in fmon \/ m \in migrating BY <1>0 DEF Visit, IInv, Flow, Snapshot
<1>2. m \in DOMAIN spent => OnMap(m) /\ ~mon[m].away /\ ~mon[m].dead
  BY DEF IInv, Flow, Measure, Measured, OnMap
<1>3. CASE MoveParked(m)
  <2>1. mon[m].isgd /\ ~mon[m].away /\ Parked(m) BY <1>3 DEF MoveParked, Parked
  <2>2. m \in fmon BY <1>1, <2>1 DEF IInv, World, Marks, MarkFits
  <2>3. World' /\ \A n \in Mons \ {m} : mon'[n] = mon[n]
    BY <1>3, <2>1, <2>2, CleanedUp, Stilled DEF MoveParked, IInv
  <2>4. m \notin DOMAIN spent BY <1>2, <2>1 DEF OnMap
  <2> QED BY <1>0, <2>3, <2>4, FlowPasses DEF IInv
<1>4. CASE PassOver(m) /\ (mon[m].dead \/ mon[m].away)
  <2>1. World' /\ \A n \in Mons \ {m} : mon'[n] = mon[n]
    BY <1>4, Stilled DEF PassOver
  <2> QED BY <1>0, <1>2, <1>4, <2>1, FlowPasses DEF IInv
<1>5. CASE PassOver(m) /\ ~(mon[m].dead \/ mon[m].away)
  <2>1. UNCHANGED <<mon, purge, impossible>> /\ ~CanMove(mon[m].movement)
    BY <1>5 DEF PassOver
  <2>2. World' BY <1>0, <2>1, WorldStays DEF IInv, dying
  <2> QED BY <1>0, <2>1, <2>2, FlowPasses DEF IInv
<1> QED BY <1>3, <1>4, <1>5

LEMMA Acting == ASSUME IInv, NEW m \in Mons, Act(m) PROVE IInv'
<1>1. /\ Visit(m) /\ OnMap(m) /\ CanMove(mon[m].movement) /\ spent' = Spend(m)
      /\ mon' = [mon EXCEPT ![m].movement = @ - NORMAL_SPEED]
      /\ pc' = "acting" /\ actor' = m /\ somebody' = (somebody \/ CanMove(mon'[m].movement))
      /\ UNCHANGED <<lists, purge, impossible, utotype>>
  BY DEF Act, To
<1>2. mon[m].movement > 0
  BY <1>1 DEF CanMove, NORMAL_SPEED, IInv, World, Population, Monst
<1>3. /\ World' /\ DOMAIN spent' = DOMAIN spent /\ spent' \in [DOMAIN spent' -> Nat]
      /\ \A n \in DOMAIN spent : Measured(n)' /\ (n # m => mon'[n] = mon[n])
  BY <1>1, <1>2, Using
<1>4. pc = "pass" /\ ~utotype /\ itermonarr' = itermonarr \ {m} BY <1>1 DEF Visit
<1>5. Control' /\ Snapshot'
  BY <1>1, <1>3, <1>4 DEF IInv, Flow, Control, Points, Snapshot, lists
<1>6. ASSUME NEW n \in DOMAIN spent PROVE Noted(n)'
  <2>1. Noted(n) BY <1>6 DEF IInv, Flow, Measure
  <2> QED BY <1>1, <1>3, <1>4, <1>6, <2>1 DEF Noted
<1>7. Measure' BY <1>1, <1>3, <1>4, <1>6 DEF Measure
<1> QED BY <1>3, <1>5, <1>7 DEF IInv, Flow

LEMMA Done == ASSUME IInv, EndAct PROVE IInv'
<1>1. /\ pc = "acting" /\ pc' = "pass"
      /\ UNCHANGED <<itermonarr, somebody, lists, dying, utotype, spent>>
  BY DEF EndAct, To
<1>2. World' BY <1>1, WorldStays DEF IInv
<1>3. /\ DOMAIN spent' \subseteq Mons /\ spent' \in [DOMAIN spent' -> Nat]
      /\ \A n \in DOMAIN spent' : Measured(n)'
  BY <1>1, MeasuredStays
<1>4. Control' /\ Snapshot'
  BY <1>1 DEF IInv, Flow, Control, Points, Snapshot, lists
<1>5. \A n \in DOMAIN spent' : Noted(n)' BY <1>1 DEF IInv, Flow, Measure, Noted, dying
<1>6. Measure' BY <1>1, <1>3, <1>5 DEF IInv, Flow, Measure
<1> QED BY <1>2, <1>4, <1>6 DEF IInv, Flow

(* dmonsfree() finds as many as were counted.                              *)
LEMMA Freeing == ASSUME IInv, EndPass PROVE IInv'
<1>0. /\ pc = "pass" /\ pc' = "moved" /\ itermonarr = {} /\ DmonsFree(fmon)
      /\ fmon' = fmon \ Gone(fmon)
      /\ mon' = [m \in Mons |-> IF m \in Gone(fmon) THEN New(m) ELSE mon[m]]
      /\ UNCHANGED <<pass, level, migrating, stored, utotype, spent>>
  BY DEF EndPass, To
<1> DEFINE gone == Gone(fmon)
<1>1. gone \subseteq fmon /\ \A m \in gone : mon[m].dead /\ ~mon[m].isgd BY DEF Gone
<1>2. purge' = 0 /\ ~impossible'
  BY <1>0, GoneCounted DEF DmonsFree, IInv, World, Counted
<1>3. \A m \in Mons : /\ New(m) \in Monst /\ New(m).movement = 0 /\ ~New(m).away
                      /\ ~New(m).dead /\ ~New(m).detached /\ New(m).isgd = (m \in Guard)
  BY DEF New, Monst
<1>4. \A m \in Mons : mon'[m] = IF m \in gone THEN New(m) ELSE mon[m] BY <1>0
<1>5. Population'
  <2>1. mon' \in [Mons -> Monst] BY <1>0, <1>3 DEF IInv, World, Population
  <2> HIDE DEF gone
  <2> QED BY <1>0, <1>3, <1>4, <2>1, Numbers DEF IInv, World, Population
<1>6. Places' BY <1>0, <1>1 DEF IInv, World, Population, Places
<1>7. \A m \in Mons : ~mon'[m].detached /\ ~IsGone(mon'[m])
  <2>1. \A m \in Mons : /\ mon[m].detached <=> IsGone(mon[m])
                        /\ mon[m].detached => m \in fmon
    BY DEF IInv, World, Counted
  <2>2. \A m \in Mons \ gone : ~mon[m].detached BY <2>1 DEF Gone, IsGone
  <2> HIDE DEF gone
  <2> QED BY <1>3, <1>4, <2>1, <2>2 DEF IsGone
<1>8. Gone(fmon)' = {} BY <1>5, <1>7 DEF Population, Gone, IsGone
<1>9. Cardinality(Gone(fmon)') = 0 BY <1>8, FS_EmptySet
<1>10. Counted' BY <1>2, <1>7, <1>9 DEF Counted
<1> HIDE DEF gone
<1>11. Marks'
  BY <1>0, <1>1, <1>3, <1>4 DEF IInv, World, Population, Places, Marks, MarkFits
<1>12. Control' /\ Snapshot'
  BY <1>0 DEF IInv, Flow, Control, Points, Snapshot, pass
<1>13. ASSUME NEW n \in DOMAIN spent PROVE Measured(n)' /\ Noted(n)'
  <2>1. Measured(n) /\ Noted(n) /\ n \in Mons BY <1>13 DEF IInv, Flow, Control, Measure
  <2>2. n \notin gone BY <1>1, <2>1 DEF Measured, OnMap
  <2>3. mon'[n] = mon[n] /\ n \in fmon' BY <1>0, <1>4, <2>1, <2>2 DEF Measured, OnMap, gone
  <2>4. Measured(n)' BY <1>0, <2>1, <2>3 DEF Measured, OnMap, Parked, Few, Many, Moves
  <2>5. Noted(n)' BY <1>0, <2>1, <2>3 DEF Noted, pass
  <2> QED BY <2>4, <2>5
<1>14. Measure' BY <1>0, <1>13 DEF IInv, Flow, Measure
<1> QED BY <1>5, <1>6, <1>10, <1>11, <1>12, <1>14 DEF IInv, World, Flow

LEMMA Leaving == ASSUME IInv, LeaveMovemon PROVE IInv'
<1>1. /\ pc = "moved" /\ utotype /\ DeferredGoto /\ somebody' = FALSE
      /\ UNCHANGED <<pc, actor, itermonarr>>
  BY DEF LeaveMovemon
<1>2. World' /\ ~utotype' /\ DOMAIN spent' = {} /\ spent' \in [DOMAIN spent' -> Nat]
  BY <1>1, Deferring
<1>3. utotype' = FALSE BY <1>1 DEF DeferredGoto
<1>4. Control' /\ Snapshot' BY <1>1, <1>2, <1>3 DEF IInv, Flow, Control, Points, Snapshot
<1>5. Measure' BY <1>1, <1>2 DEF Measure
<1> QED BY <1>2, <1>4, <1>5 DEF IInv, Flow

LEMMA Branching == ASSUME IInv, Moved PROVE IInv'
<1>0. /\ pc = "moved" /\ ~utotype /\ UNCHANGED <<pass, utotype>>
      /\ UNCHANGED <<lists, dying, spent>>
      /\ pc' \in {"input", "movemon", "distress"} /\ (pc' = "distress" => ~somebody)
  BY DEF Moved, HerosTurn, To
<1>1. World' BY <1>0, WorldStays DEF IInv
<1>2. /\ DOMAIN spent' \subseteq Mons /\ spent' \in [DOMAIN spent' -> Nat]
      /\ \A n \in DOMAIN spent' : Measured(n)'
  BY <1>0, MeasuredStays
<1>3. Control' /\ Snapshot'
  BY <1>0 DEF IInv, Flow, Control, Points, Snapshot, pass, lists
<1>4. \A n \in DOMAIN spent' : Noted(n)' BY <1>0 DEF IInv, Flow, Measure, Noted, dying
<1>5. Measure' BY <1>0, <1>2, <1>4 DEF IInv, Flow, Measure
<1> QED BY <1>1, <1>3, <1>5 DEF IInv, Flow

(* The two rations of a monster.                                           *)
LEMMA Ration ==
  ASSUME NEW m \in Mons, NEW ups
  PROVE  /\ Mcalcmove(m, m \in ups) \in {Moves(Few(m)), Moves(Many(m))}
         /\ Few(m) \in Nat /\ Many(m) \in Nat
<1>1. Speed[m] \in Nat BY TurnsAssumption
<1>2. Few(m) \in Nat /\ Many(m) \in Nat BY <1>1 DEF Few, Many, NORMAL_SPEED
<1>3. Speed[m] % 12 # 0 => (Speed[m] + 12 - 1) \div 12 = Speed[m] \div 12 + 1 BY <1>1
<1>4. CASE m \in ups /\ Speed[m] % 12 # 0
  BY <1>1, <1>2, <1>3, <1>4 DEF Mcalcmove, Moves, Few, Many, NORMAL_SPEED
<1>5. CASE ~(m \in ups /\ Speed[m] % 12 # 0)
  BY <1>1, <1>2, <1>5 DEF Mcalcmove, Moves, Few, Many, NORMAL_SPEED
<1> QED BY <1>2, <1>4, <1>5

(* mcalcdistress() gives everybody on the level one of his two rations;    *)
(* who had nothing left then has no more than it.                          *)
LEMMA NewRations == ASSUME IInv, NewTurn PROVE IInv'
<1>0. /\ pc = "distress" /\ pc' = "once"
      /\ spent' = [m \in {n \in fmon : OnMap(n) /\ ~CanMove(mon[n].movement)} |-> 0]
      /\ UNCHANGED <<pass, lists, purge, impossible, utotype>>
  BY DEF NewTurn, To
<1>1. PICK ups \in SUBSET fmon : mon' = Rations(ups) BY DEF NewTurn
<1>2. ASSUME NEW m \in Mons
      PROVE  /\ mon'[m] \in Monst /\ Whole(mon'[m].movement)
             /\ mon'[m].detached = mon[m].detached /\ mon'[m].dead = mon[m].dead
             /\ mon'[m].isgd = mon[m].isgd /\ mon'[m].parked = mon[m].parked
             /\ mon'[m].away = mon[m].away
             /\ m \in fmon =>
                  mon'[m].movement = mon[m].movement + Mcalcmove(m, m \in ups)
  <2>1. /\ mon[m] \in Monst /\ Whole(mon[m].movement) /\ mon[m].movement \in Nat
    BY DEF IInv, World, Population, Monst
  <2>2. PICK k \in Nat : Mcalcmove(m, m \in ups) = Moves(k) BY Ration
  <2>3. /\ Whole(mon[m].movement + Moves(k)) /\ mon[m].movement + Moves(k) \in Nat
    BY <2>1, Numbers
  <2> DEFINE r == [mon[m] EXCEPT !.movement = mon[m].movement + Moves(k)]
  <2>4. /\ r \in Monst /\ r.movement = mon[m].movement + Moves(k)
        /\ r.detached = mon[m].detached /\ r.dead = mon[m].dead
        /\ r.isgd = mon[m].isgd /\ r.parked = mon[m].parked /\ r.away = mon[m].away
    BY <2>1, <2>3 DEF Monst
  <2>5. mon'[m] = IF m \in fmon THEN r ELSE mon[m] BY <1>1, <2>2 DEF Rations
  <2> HIDE DEF r
  <2> QED BY <2>1, <2>2, <2>3, <2>4, <2>5
<1>3. mon' \in [Mons -> Monst]
  <2>1. mon' = [m \in Mons |-> mon'[m]] BY <1>1 DEF Rations
  <2> QED BY <1>2, <2>1
<1>4. Population' BY <1>0, <1>2, <1>3 DEF IInv, World, Population, lists
<1>5. Places' BY <1>0 DEF IInv, World, Places, lists
<1>6. Marks' BY <1>0, <1>2 DEF IInv, World, Marks, MarkFits, lists
<1>7. Gone(fmon)' = Gone(fmon) BY <1>0, <1>2 DEF IInv, World, Population, Gone, lists
<1>8. Counted' BY <1>0, <1>2, <1>7 DEF IInv, World, Counted, IsGone, lists
<1>9. /\ DOMAIN spent' \subseteq fmon /\ spent' \in [DOMAIN spent' -> Nat]
      /\ DOMAIN spent' \subseteq Mons
  BY <1>0 DEF IInv, World, Population
<1>10. ASSUME NEW n \in DOMAIN spent' PROVE Measured(n)'
  <2>1. /\ n \in fmon /\ n \in Mons /\ OnMap(n) /\ ~CanMove(mon[n].movement) /\ spent'[n] = 0
    BY <1>0, <1>9, <1>10
  <2>2. ~mon[n].away
    BY <2>1 DEF IInv, World, Places, Marks, MarkFits, OnMap, Parked
  <2>3. mon[n].movement = 0
    BY <2>1, Numbers DEF IInv, World, Population, Monst
  <2>4. Mcalcmove(n, n \in ups) \in {Moves(Few(n)), Moves(Many(n))} /\ Few(n) \in Nat /\ Many(n) \in Nat
    BY <2>1, Ration
  <2>5. mon'[n].movement + Moves(spent'[n]) \in {Moves(Few(n)), Moves(Many(n))}
    BY <1>2, <2>1, <2>3, <2>4 DEF Moves, NORMAL_SPEED
  <2> QED BY <1>0, <1>2, <2>1, <2>2, <2>5
      DEF Measured, OnMap, Parked, Few, Many, Moves, lists
<1>11. ~utotype' /\ utotype' \in BOOLEAN /\ itermonarr' = {} /\ somebody' \in BOOLEAN
  BY <1>0 DEF IInv, Flow, Control, Snapshot, Measure, pass
<1>12. Flow' BY <1>0, <1>9, <1>10, <1>11, FlowElsewhere
<1> QED BY <1>4, <1>5, <1>6, <1>8, <1>12 DEF IInv, World

LEMMA Ending == ASSUME IInv, EndOnce PROVE IInv'
<1>0. /\ pc = "once" /\ pc' \in {"input", "movemon"} /\ UNCHANGED pass
      /\ itermonarr = {} /\ somebody \in BOOLEAN /\ utotype \in BOOLEAN
      /\ (utotype => DOMAIN spent = {})
  BY DEF EndOnce, HerosTurn, To, IInv, Flow, Control, Snapshot, Measure
<1>1. CASE utotype /\ DeferredGoto
  <2>1. /\ World' /\ utotype' = FALSE
        /\ DOMAIN spent' \subseteq Mons /\ spent' \in [DOMAIN spent' -> Nat]
        /\ \A n \in DOMAIN spent' : Measured(n)'
    BY <1>1, Perhaps
  <2>2. Flow' BY <1>0, <2>1, FlowElsewhere DEF pass
  <2> QED BY <2>1, <2>2 DEF IInv
<1>2. CASE UNCHANGED <<utotype, lists, dying, spent>>
  <2>1. World' BY <1>2, WorldStays DEF IInv
  <2>2. Flow' BY <1>0, <1>2, MeasuredStays, FlowElsewhere DEF pass
  <2> QED BY <2>1, <2>2 DEF IInv
<1> QED BY <1>1, <1>2 DEF EndOnce

----------------------------------------------------------------------------
(* The theorems.                                                           *)

LEMMA Start == ASSUME Init PROVE IInv
<1>0. /\ pc = "input" /\ level = Home /\ fmon = First[Home] /\ migrating = {}
      /\ stored = [First EXCEPT ![Home] = {}] /\ mon = [m \in Mons |-> New(m)]
      /\ itermonarr = {} /\ somebody = FALSE /\ purge = 0 /\ utotype = FALSE
      /\ spent = Nobody /\ impossible = FALSE
  BY DEF Init
<1>1. \A m \in Mons : /\ mon[m] \in Monst /\ mon[m].movement = 0 /\ ~mon[m].away
                      /\ ~mon[m].dead /\ ~mon[m].detached /\ mon[m].isgd = (m \in Guard)
  BY <1>0 DEF New, Monst
<1>2. Population BY <1>0, <1>1, TurnsAssumption, Numbers DEF Population
<1>3. Places BY <1>0, TurnsAssumption DEF Places
<1>4. Marks BY <1>0, <1>1 DEF Marks, MarkFits
<1>5. Gone(fmon) = {} BY <1>1, <1>2 DEF Gone, Population
<1>6. Counted BY <1>0, <1>1, <1>5, FS_EmptySet DEF Counted, IsGone
<1>7. DOMAIN spent = {} /\ spent \in [DOMAIN spent -> Nat] BY <1>0 DEF Nobody
<1>8. Flow BY <1>0, <1>7 DEF Flow, Control, Points, Snapshot, Measure
<1> QED BY <1>2, <1>3, <1>4, <1>6, <1>8 DEF IInv, World

LEMMA Invariant == Spec => []IInv
<1>1. Init => IInv BY Start
<1>2. IInv /\ [Next]_vars => IInv'
  <2> SUFFICES ASSUME IInv, [Next]_vars PROVE IInv' OBVIOUS
  <2>1. CASE UNCHANGED vars
    <3>1. /\ UNCHANGED <<pc, pass, utotype, spent>> /\ UNCHANGED <<lists, dying>>
      BY <2>1 DEF vars
    <3>2. World' BY <3>1, WorldStays DEF IInv
    <3>3. Flow' BY <3>1, FlowStays DEF IInv, Flow, Control, lists, dying
    <3> QED BY <3>2, <3>3 DEF IInv
  <2>2. CASE Loop
    BY <2>2, Beginning, Stopping, Done, Freeing, Leaving, Branching, NewRations, Ending,
       Commanding, Passing, Acting
    DEF Loop
  <2>3. CASE Command \/ EndCommand BY <2>3, Commanding
  <2>4. CASE Effect BY <2>4, Effects
  <2> QED BY <2>1, <2>2, <2>3, <2>4 DEF Next
<1> QED BY <1>1, <1>2, PTL DEF Spec

(* The hero is given a move only when he has the movement for it, so that  *)
(* u.umovement never goes below zero.                                      *)
HeroReady ==
  /\ umovement \in Nat /\ (pc \in {"input", "command"} => CanMove(umovement))
  /\ multi \in -MaxHelpless .. 0
  /\ actor \in Mons \cup {NoMon} /\ (actor # NoMon <=> pc = "acting")

LEMMA HeroGainsMoves ==
  ASSUME NEW moveamt \in Nat, NEW wtcap \in 0 .. 5
  PROVE  UCalcMoveamt(moveamt, wtcap) \in Nat
BY DEF UCalcMoveamt

LEMMA HeroInvariant == Spec => []HeroReady
<1>1. Init => HeroReady BY TurnsAssumption DEF Init, HeroReady, CanMove, NORMAL_SPEED
<1>2. HeroReady /\ [Next]_vars => HeroReady'
  <2> SUFFICES ASSUME HeroReady, [Next]_vars PROVE HeroReady' OBVIOUS
  <2> USE DEF HeroReady
  <2>1. CASE UNCHANGED vars BY <2>1 DEF vars, pass, hero
  <2>2. CASE Command \/ EndCommand \/ Helpless
    BY <2>2 DEF Command, EndCommand, Helpless, TakeTime, To, CanMove, NORMAL_SPEED, pass, hero
  <2>3. CASE Movemon \/ StopMoving \/ EndAct \/ EndPass \/ LeaveMovemon \/ Moved
    BY <2>3 DEF Movemon, StopMoving, EndAct, EndPass, LeaveMovemon, Moved, HerosTurn, To,
                pass, hero
  <2>4. CASE NewTurn
    <3>1. PICK speed \in HeroSpeeds, haste \in {0, NORMAL_SPEED}, wtcap \in Burdens :
            umovement' = umovement + UCalcMoveamt(speed + haste, wtcap)
      BY <2>4 DEF NewTurn, HeroGains
    <3>2. speed + haste \in Nat /\ wtcap \in 0 .. 5 BY TurnsAssumption DEF NORMAL_SPEED
    <3>3. umovement' \in Nat BY <3>1, <3>2, HeroGainsMoves
    <3> QED BY <2>4, <3>3 DEF NewTurn, To, pass
  <2>5. CASE EndOnce
    BY <2>5, TurnsAssumption DEF EndOnce, HerosTurn, To, pass
  <2>6. ASSUME NEW m \in Mons, MoveParked(m) \/ PassOver(m) \/ Act(m) PROVE HeroReady'
    BY <2>6, TurnsAssumption DEF MoveParked, PassOver, Act, Visit, To, hero
  <2>7. ASSUME NEW k \in 1 .. MaxHelpless, Nomul(0 - k) PROVE HeroReady'
    BY <2>7, TurnsAssumption DEF Nomul, pass
  <2>8. CASE Schedule \/ GuardDone BY <2>8 DEF Schedule, GuardDone, pass, hero
  <2>9. ASSUME NEW m \in Mons, Kill(m) \/ Make(m) \/ StrikeBack(m) \/ FindGd(m) PROVE HeroReady'
    BY <2>9 DEF Kill, Make, StrikeBack, FindGd, pass, hero
  <2>10. ASSUME NEW m \in Mons, NEW l \in Levels, Migrate(m, l) PROVE HeroReady'
    BY <2>10 DEF Migrate, pass, hero
  <2> QED BY <2>1, <2>2, <2>3, <2>4, <2>5, <2>6, <2>7, <2>8, <2>9, <2>10
      DEF Next, Loop, Effect
<1> QED BY <1>1, <1>2, PTL DEF Spec

(* The types of the variables, and that what the hero and the monsters     *)
(* have to move with is never negative.                                    *)
THEOREM TypeCorrect == Spec => []TypeOK
<1>1. IInv /\ HeroReady => TypeOK
  BY DEF IInv, World, Population, Flow, Control, Snapshot, HeroReady, TypeOK
<1> QED BY <1>1, Invariant, HeroInvariant, PTL

(* dmonsfree() finds as many dead monsters as were counted, and m_detach() *)
(* is never called again for one: neither impossible() is reached, however *)
(* many monsters die, on however many levels.                              *)
THEOREM DeadCounted == Spec => []NoImpossible
<1>1. IInv => NoImpossible BY DEF IInv, World, Counted, NoImpossible
<1> QED BY <1>1, Invariant, PTL

(* A monster is on one list, and marked as migrating exactly while it is on *)
(* gm.migrating_mons, whatever comes between relmon(), keepdogs(),         *)
(* mon_arrive() and findgd().                                              *)
THEOREM InOnePlace == Spec => []OnePlace
<1>1. IInv => OnePlace
  BY DEF IInv, World, Population, Places, Marks, MarkFits, OnePlace
<1> QED BY <1>1, Invariant, PTL

(* The array of iter_mons_safe() never points to a freed monster.          *)
THEOREM SafeForDeletions == Spec => []NoStalePointer
<1>1. IInv => NoStalePointer BY DEF IInv, Flow, Snapshot, NoStalePointer
<1> QED BY <1>1, Invariant, PTL

(* A monster that was there all the turn has had one of its two numbers of *)
(* moves, whatever its speed and that of the others (movemon(),            *)
(* mcalcmove()).                                                           *)
THEOREM MovesOfItsSpeed == Spec => []FullMeasure
<1>1. ASSUME IInv, pc = "distress", NEW m \in DOMAIN spent
      PROVE  spent[m] \in {Few(m), Many(m)}
  <2>1. /\ Measured(m) /\ ~CanMove(mon[m].movement)
        /\ m \in Mons /\ spent[m] \in Nat
    BY <1>1 DEF IInv, Flow, Control, Measure, Noted
  <2>2. mon[m].movement = 0 BY <1>1, <2>1, Numbers DEF IInv, World, Population, Monst
  <2>3. Few(m) \in Nat /\ Many(m) \in Nat BY <2>1, Ration
  <2> QED BY <2>1, <2>2, <2>3 DEF Measured, Moves, NORMAL_SPEED
<1>2. IInv => FullMeasure BY <1>1 DEF FullMeasure, Few, Many
<1> QED BY <1>2, Invariant, PTL

----------------------------------------------------------------------------
(* The number of a move.  In a turn the hero gains at most his speed and   *)
(* the NORMAL_SPEED of haste; less than a move is left of the turn before. *)
(* Each move he makes is paid for before the next is numbered.             *)

(* The fastest forms of the hero and the fastest steed, even at a gallop,  *)
(* have a speed below that of six moves a turn (mons[], mcalcmove()).      *)
SixMoves == \A s \in HeroSpeeds : s <= 72

Numbered ==
  /\ seq \in Nat
  /\ 12 * seq + umovement <= IF pc \in {"input", "command"} THEN 107 ELSE 95
  /\ pc = "distress" => umovement < 12
  /\ pc = "once" => seq = 0

LEMMA BurdenSlows ==
  ASSUME NEW moveamt \in Nat, NEW wtcap \in 0 .. 5
  PROVE  UCalcMoveamt(moveamt, wtcap) <= moveamt
BY DEF UCalcMoveamt

LEMMA NumberKept ==
  ASSUME Numbered, umovement \in Nat, UNCHANGED <<seq, umovement>>, pc' \notin {"distress", "once"},
         pc' = pc \/ pc' \in {"input", "command"} \/ pc \notin {"input", "command"}
  PROVE  Numbered'
BY DEF Numbered

LEMMA MovesNumbered ==
  ASSUME SixMoves, HeroReady, Numbered, [Next]_vars
  PROVE  Numbered'
<1> USE DEF HeroReady
<1>1. CASE UNCHANGED vars BY <1>1 DEF vars, hero, Numbered
<1>2. CASE Command BY <1>2, NumberKept DEF Command, To, hero
<1>3. CASE EndCommand \/ Helpless
  BY <1>3 DEF EndCommand, Helpless, TakeTime, To, Numbered, CanMove, NORMAL_SPEED
<1>4. CASE Movemon \/ StopMoving \/ EndAct \/ EndPass \/ LeaveMovemon
  BY <1>4, NumberKept DEF Movemon, StopMoving, EndAct, EndPass, LeaveMovemon, To, hero
<1>5. CASE Moved
  BY <1>5 DEF Moved, HerosTurn, To, Numbered, CanMove, NORMAL_SPEED
<1>6. CASE NewTurn
  <2>1. PICK speed \in HeroSpeeds, haste \in {0, NORMAL_SPEED}, wtcap \in Burdens :
          umovement' = umovement + UCalcMoveamt(speed + haste, wtcap)
    BY <1>6 DEF NewTurn, HeroGains
  <2>2. speed + haste \in Nat /\ wtcap \in 0 .. 5 /\ speed + haste <= 84
    BY TurnsAssumption DEF NORMAL_SPEED, SixMoves
  <2>3. UCalcMoveamt(speed + haste, wtcap) \in Nat
    BY <2>2, HeroGainsMoves
  <2>4. UCalcMoveamt(speed + haste, wtcap) <= speed + haste
    BY <2>2, BurdenSlows
  <2>5. umovement < 12 /\ pc' = "once" /\ seq' = 0
    BY <1>6 DEF NewTurn, To, NextMoves, Numbered
  <2> QED BY <2>1, <2>2, <2>3, <2>4, <2>5 DEF Numbered
<1>7. CASE EndOnce
  BY <1>7 DEF EndOnce, HerosTurn, To, Numbered, CanMove, NORMAL_SPEED, pass
<1>8. ASSUME NEW m \in Mons, MoveParked(m) \/ PassOver(m) \/ Act(m) PROVE Numbered'
  BY <1>8, NumberKept DEF MoveParked, PassOver, Act, Visit, To, hero
<1>9. CASE Effect
  <2>1. UNCHANGED <<pc, seq, umovement>>
    BY <1>9 DEF Effect, Schedule, GuardDone, Kill, Make, StrikeBack, FindGd, Migrate, Nomul, hero
  <2> QED BY <2>1 DEF Numbered
<1> QED BY <1>1, <1>2, <1>3, <1>4, <1>5, <1>6, <1>7, <1>8, <1>9 DEF Next, Loop

(* Each move of the hero in a turn has one of the seven numbers there are  *)
(* for it, so hero_seq never has the number of another move                *)
(* (moveloop_core(), u_calc_moveamt()).                                    *)
THEOREM MovesHaveNumbers == SixMoves => (Spec => []SeqDistinct)
<1> SUFFICES ASSUME SixMoves PROVE Spec => []SeqDistinct OBVIOUS
<1>1. Init => Numbered BY DEF Init, Numbered, NORMAL_SPEED
<1>2. HeroReady /\ Numbered /\ [Next]_vars => Numbered' BY MovesNumbered
<1>3. HeroReady /\ Numbered => SeqDistinct
  BY DEF HeroReady, Numbered, SeqDistinct, CanMove, NORMAL_SPEED
<1> QED BY <1>1, <1>2, <1>3, HeroInvariant, PTL DEF Spec
=============================================================================
