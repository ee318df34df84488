# NetHackJP in TLA+

A formal model of the parts of NetHackJP in which the hard-to-test mistakes of a
long-lived game live: how a game survives saving, restoring, checkpoints, crashes and
recovery; how several games share lock files and the list of scores; how timed objects
(lamps, candles, oil, the candelabrum) survive splitting, merging, theft, other levels and
prayer; how a shop's bill follows the goods; and who acts when, while monsters die, come and
go. TLC checks them on small instances; TLAPS proves some results for all instances.

Paths below are relative to the repository; `src/save.c` is the repository's `src/save.c`.

## 1. Inventory of the program

| component | state it keeps | operations | made correct by |
|---|---|---|---|
| saving and checkpoints: `src/save.c`, `src/do.c` | level files, level file 0 (lock and checkpoint), save file, `svl.level_info[]`, `gh.havestate` | `dosave0`, `savelev`, `savestateinlock`, `save_currentstate`, `do_idlecheckpoint`, `goto_level` | the files always hold one consistent game |
| restoring: `src/restore.c`, `src/sfstruct.c` | the same, `program_state.restoring` | `dorecover`, `restlevelfile`, `getlev`, `mread` | what is restored is what was saved |
| files: `src/files.c` | file names, `program_state.in_self_recover` | `create_levelfile`, `delete_levelfile`, `clearlocks`, `create_savefile`, `delete_savefile`, `recover_savefile` | no file is removed before its contents are elsewhere |
| start-up (Unix): `sys/unix/unixunix.c`, `unixmain.c` | lock files, the `perm` lock, `gn.nesting`, mode of the save file | `getlock`, `veryold`, `eraseoldlocks`, `lock_file`, `unlock_file`, the restore and the renaming in `main` | one game per lock name; a game that exists is restored |
| recover utility: `util/recover.c` | none of its own | `restore_savefile` | the same as self-recovery |
| timers: `src/timeout.c` | `gt.timer_base`, `svm.moves` | `start_timer`, `stop_timer`, `run_timers`, `save_timers`, `relink_timers`, `burn_object`, `begin_burn`, `end_burn` | ordered queue, one burn per burning object |
| light sources: `src/light.c` | `gl.light_base` | `new_light_source`, `del_light_source`, split, merge, save, relink | one source per lit object, none without |
| objects: `src/mkobj.c`, `src/invent.c` | object chains, `where`, `quan`, `timed` | `splitobj`, `merged`, `dealloc_obj`, extraction and insertion | an object is on one chain, stacks agree with timers |
| tools: `src/apply.c`, `src/potion.c`, `src/muse.c` | fuel (`age`), `lamplit`, `spe` | `use_lamp`, `use_candle`, `use_candelabrum`, `light_cocktail`, dipping, monsters' use | fuel is neither made nor lost |
| monster migration: `src/dog.c`, `src/dokick.c` | `gm.mydogs`, `gm.migrating_mons`, `gm.migrating_objs` | `keepdogs`, `losedogs`, `discard_migrations`, `ship_object`, `obj_delivery` | nothing is doubled or dropped on the way |
| scores: `src/topten.c` | the record file and its lock | `topten` | the best scores are on the list, in order |
| shops: `src/shk.c` | the bill, debit, loan, credit, `robbed` | `addtobill`, `splitbill`, `subfrombill`, payment, robbery | the bill agrees with the unpaid objects; nothing leaves uncounted |
| turn scheduler: `src/allmain.c`, `src/mon.c` | movement points, `fmon`, dead monsters to purge, `gh.hero_seq` | `moveloop_core`, `movemon`, `mcalcmove`, `dmonsfree` | each acts as often as its speed says; each dead monster is purged once |
| worn equipment: `src/do_wear.c`, `src/worn.c`, `src/wield.c`, `src/steal.c` | worn masks, the delayed action | putting on, taking off, theft | a mask and the object agree in spite of interruption |
| vault guard, regions: `src/vault.c`, `src/region.c` | temporary corridor, gas clouds | movement of the guard, expiry | the corridor disappears, nobody in rock |
| random numbers, level generation, combat, display, options, Lua, translation | | | not modelled, see 7 |

**Interactions.** `goto_level` is the hub: it saves one level with its timers and light
sources, restores another, delivers what has migrated, runs the timers that have gone off,
and calls `save_currentstate`. `dosave0` and `dorecover` move every level through memory.
Files are the only shared state between processes, one after the other or at once. The turn
scheduler calls everything else; a command or a monster's move can kill, migrate or create
monsters and ask for a level change, which happens at the next of three points of the loop.

**What is hard.** One game is single-threaded, but two can start or end at once, and one can die between any two file
operations, with several files that are only together a game. Time passes on levels that
are in files; timers refer to objects by id over such absences; a prayer suspends timers;
and every object can be split, merged, stolen or destroyed while its fuel is in a timer.
The complete list is under `hazards` in PROJECT.json, each at its line.

## 2. Plan

1. `SaveData`, `Persistence`: files and the crash points between them. *Done.*
2. `Burning`: timers, light sources and fuel. *Done.*
3. `Promise`: what persistence promises (a world is played, kept or given up; a crash takes a
   played one back to the kept one), and `PersistenceRefines`: `Persistence` implements it. *Done.*
4. `Shop`: the bill against splitting, merging, using up and carrying off of goods. *Done.*
5. `Locking`: several processes, lock files, the `perm` and record locks, scores. *Done.*
6. `Turns`: rations of movement, the purging of dead monsters, migration. *Done.*
7. Proofs. All of the safety of `Persistence` and its refinement of `Promise`; `TypeOK`, `LockStays` and
   `NeverNested` of `Locking`; all of the safety of `Turns` and of `Burning`; `TypeOK`, `BillMatches`,
   `OnePrice` and `NoImpossible` of `Shop`: *done.*
8. `ObjectChains` (the `where` of `mkobj.c`) and `Wearing` (delayed wearing against theft and
   destruction) would be the next modules.

The modules are written for this: parameters are CONSTANTS with a named assumption, each
operation is an action, there is no RECURSIVE operator, and the operators that build file
contents (`AddLevel`, `WholeFile`, ...) have typing lemmas of their own.

## 3. Modules

| module | what it is |
|---|---|
| `SaveData` | what level files, lock and save file contain; the `World` a set of files stands for |
| `Persistence` | the protocol on these files, with crashes; its correctness properties |
| `Promise` | what a player is promised: the abstract specification |
| `PersistenceRefines` | the refinement mapping from `Persistence` to `Promise` |
| `PersistenceInvariant` | `Consistent`, the inductive invariant of `Persistence`: what files, memory and kept world must be to each other at every point |
| `MCPersistence` | instances for TLC |
| `Persistence_proofs` | theorems on file contents; type correctness |
| `PersistenceSafety_proofs` | the lock, the save file and outdated checkpoints |
| `PersistenceInvariant_proofs`, `PersistenceRefines_proofs` | `Consistent` and what follows from it; the refinement |
| `Locking_proofs`, `Turns_proofs`, `Burning_proofs`, `Shop_proofs` | theorems on the modules they are named for |
| `Locking` | processes, lock files, file locks and the list of scores |
| `Shop` | goods, bill, debit, credit and loan |
| `Turns` | the move loop and the lists of monsters |
| `Burning` | timers, light sources, fuel, and what happens to burning objects |
| `MCBurning`, `MCLocking`, `MCShop`, `MCTurns` | instances for TLC |

### Persistence

*State.* `lfile[l]` is the level file with ledger number `l`, `lock0` level file 0, `savef`
the save file; each can be absent, cut short, or whole, and the save file can be `"mixed"`
(a level that was cut short in its middle, so that what follows is misread) and `locked`
(mode 0). `game` is what `savegamestate` writes: current level, things with the hero, the
VISITED and LFILE_EXISTS flags, the clock, the checkpoint option. `here` is the level in
memory, `dogs` is `gm.mydogs`. `selfrec`, `havestate`, `hup`, `hackpid` carry the names of
the source. `saving`, `kept`, `atrisk`, `torn`, `gone` are history that only properties read.

*Actions.* `pc` names the point between two file operations; each action is one file
operation with all that goes with it:

| actions | code |
|---|---|
| `LockFree`, `DestroyOldGame`, `EraseLevel`, `EraseLock`, `GotLock` | `getlock`, `eraseoldlocks` |
| `RecoverNothing`, `RecoverRefused`, `RecoverOpen` ... `RecoverUnlink` | `recover_savefile` |
| `NewGame`, `RestoreState` ... `Resume`, `RestoreUnreadable` | `newgame`, `main`, `dorecover`, `mread` |
| `CkptCreate` ... `CkptState`, `CkptCreateFails`, `CkptLockFails` | `save_currentstate`, `savestateinlock` |
| `GotoLevel`, `LeaveLevel`, `Discard*`, `Arrive*` | `goto_level` |
| `SaveOrHangup`, `SaveCreate` ... `SaveUnlinkLock`, `SaveTricked` | `dosave0`, `end_of_input` |
| `Die`, `ClearLevel`, `ClearLock` | `really_done`, `clearlocks` |
| `UtilOpen` ... `UtilClose` | `util/recover.c` |
| `PassTurn`, `PickUp`, `Drop`, `SetCheckpointing`, `IdleCheckpoint` | play, as far as files can tell |
| `Crash` | the process dies at any point |

*Abstractions.* A thing (object or monster) is a value that is in one place. A lock is
"short" when it is empty and when it holds only a process id; the program treats both alike
where it matters. Writing a file is two steps, creation and completion. The build is the
Unix one with INSURANCE (`include/config.h`) and SELF_RECOVER (`sys/unix/hints/linux-jp`), one
lock per player (`gl.locknum` 0). The player is an ordinary user, whom the mode of a file binds.

### Burning

*State.* `obj[o]` has the fields of `struct obj` that matter (`where`, `quan`, `spe`, `age`,
`lit`, `timed`); `timers` is `gt.timer_base` restricted to BURN_OBJECT, in order; `lights`
counts the light sources that name an object; `elsewhere[l]` is what was saved of both with
level `l`; `impossible` collects complaints of `impossible()`. `fuel` (turns an object should
still burn) and `late` are history.

*Actions.* The routines (`BeginBurn`, `EndBurn`, `StopTimer`, `BurnObject`, `SplitObj`,
`Merged`, `Dealloc`, ...) are operators on a record of `obj`, `timers`, `lights` and
`impossible`; each action of hero, monster or clock composes the ones its code calls.
`RunTimer` is one iteration of `run_timers`, `PassTurn` the increment of `svm.moves` with the
early return of `nh_timeout` in a prayer, `GotoLevel`, `Deliver` and `Delivered` the level change.

*Abstractions.* A brass lantern is a lamp; a magic lamp keeps its djinni; candles are of one
kind; marks at which a flame announces itself, the age band in which candles merge, and the
capacities are constants. On the floor a merge may or may not happen, as squares are not
modelled. Light radius, containers, shops, artifacts that shine, and other kinds of timer are not.

### Promise

A world (what `SaveData` calls a `World`: current level, things with the hero and on each level,
clock) is *played* or not, and one is *kept*. The steps: begin, return to the kept world, play on
(things move, none vanishes unless it is left behind), keep, save, die, be tricked, crash, and handling of files while
nobody plays. `PersistenceRefines` maps: played is `MemoryWorld`, with the followers added while a
level is being changed, and the world a save began with while it is written; kept is `kept`; safe
is `~atrisk`. Only in an unsafe window can a crash leave the kept world incomplete.

### Shop

*State.* `obj[o]` has `where`, `quan`, `unpaid` and `no_charge`; `shk` is `struct eshk` (`bill_p` as a set of
entries, `billsz` the room on it, `debit`, `loan`, `credit`, `robbed`, anger and surcharge) and where the
shopkeeper is; `hero` is where the hero is, `u.ushops` and gold; `wrong` what `impossible()` or `panic()` said.

*Actions.* Picking up, dropping, throwing, hooking, dividing and merging stacks, using up (carried
and on the floor), bags (`in_container`, `out_container`), altering, using charges, gold, paying by
item, bag or for what is used up, selling, anger and appeasement, damage, taming, death, teleport
and absence of the shopkeeper, leaving with and without paying (`rob_shop`).

*Abstractions.* One kind of goods at one price, and an angry shopkeeper's price above it. Objects are numbers:
0 is the bag, the others are 1 to `MaxId`; loops over bill and goods are recursive functions on these
numbers. A dead shopkeeper ends the instance. `debit + credit +
robbed` is bounded by `MaxDebt`.

*Named exceptions* in the properties: what a bag holds keeps `no_charge` when the shopkeeper dies;
things altered and bought from an angry shopkeeper who leaves; pricing of bag contents on the free
spot; the shopkeeper teleported home while the hero is inside; and, in `GoodsWhereTheyBelong` and `NothingForNothing`, the
bag that a shopkeeper whose bill is full refuses (`Refused`: an unpaid bag or content left on the shelf), see 5.
`GoodsWhereTheyBelong` is about steps, because of it: a thing gets into that state only while the bill is full.

### Locking

*State.* `file[l]` is level file 0 of lock name `l` (a letter's number, or a hero's name when
`gl.locknum` is 0): there, whose process id, with or without a checkpoint, three days old. `perm`
and `rlock` are the holders of the two `fcntl` locks, `nesting` is `gn.nesting`, `tries` the retries
of `lock_file`, `todo` the calls of `getlock` that `main` still makes (a renamed hero makes two).
`linked` says that the file a process has created but not yet written to still has its name.
`record` is the list of scores, `list` what `topten` is going to write.

*Actions.* One per step between two system calls of one process: `LockPerm` ... `WritePid` are
`getlock`; `AnswerNo`, `AnswerYes`, `AnswerRecover` its prompt; `Rename` is the `goto
attempt_restore` in `main`; `CheckPid` and `Checkpoint` are `savestateinlock`; `ClearLocks` and
`LockRecord` ... `WriteEntries` the end of a game. `Crash` and `Age` are the system's and time's.

*Abstractions.* What is in a game is in `Persistence`; here a process is its place in the code.
A process that exits gives its values back, so each is started once.

### Turns

*State.* `fmon`, `migrating` (`gm.migrating_mons`) and `stored` (monsters in level files) are sets;
`mon[m]` has what decides about purging (`dead`, `detached`, `isgd`, `parked`, `gddone`), the mark
`MON_MIGRATING` (`away`; `place_monster` clears it) and `movement`. `itermonarr`, `somebody`, `purge`, `umovement`, `multi`,
`utotype` and `level` are the variables of the source; `seq` is `gh.hero_seq & 7`. `spent` is history.

*Actions.* `pc` is the place in `moveloop_core`: `Command` and `EndCommand`, or `Helpless`; `Movemon`,
then `MoveParked`, `PassOver` or `Act` for each monster of the snapshot in any order; `EndPass`
(`dmonsfree`), `LeaveMovemon`, `Moved`, `NewTurn`, `EndOnce`. Whatever a command, a move or the
once-per-turn routines do is any number of *effects*: a monster dies, appears, migrates, strikes back;
a guard is done or found again; the hero is helpless, or a level change is scheduled.

*Abstractions.* `mcalcmove` at one speed per monster, rounded up or down at random; no steed rides,
no monster changes shape, and clones are not modelled (`clone_mon` copies unspent movement, so a clone
of a monster that has not moved yet moves in the same turn, and one may come of it again and again).
A command takes time or not. The corridor of a guard can be removed or not, whenever it is tried.

## 4. Runs

| run | shows | instance |
|---|---|---|
| `persistence` | `TypeOK`, `LevelFilesIntact`, `Conserved`, `RestoreFaithful`, `NeverLost`, `NoDiscardedReturn`, `KeepsItsPromise` (refinement) | 3 levels, the last the endgame; 1 thing; 1 turn; 3 sessions; 1 crash |
| `persistence_sessions` | `LockIsOurs`, `OneLife`, `NoOutdatedCheckpoint`, `Consistent`, `Retrieved` (liveness) | 2 levels, nothing on them, 5 sessions, 2 crashes, 1 change of the option |
| `first_checkpoint`, `level_change_crash`, `interrupted_restore` | violations, see 5 | 2 levels, up to 4 sessions, 1 crash |
| `separate_games` | violation, see 5 | 2 levels, 4 sessions, 2 crashes, nothing but level changes |
| `burning` | `TypeOK`, `LightIffLit`, `TimerIffBurning`, `NothingDangling`, `FuelAccounted`, `Punctual`, `NoImpossible` | 3 objects, 2 levels, 3 turns played |
| `shop` | `TypeOK`, `BillMatches`, `GoodsWhereTheyBelong`, `OnePrice`, `SettledOutside`, `NoImpossible`, `NothingForNothing` | goods and a bag of the shop's and something of the hero's, two lines on the bill; with one line, a pile of goods, or a hero with a bag and something to put into it, or a hero with money; price 1, debts up to 2 |
| `shop_hook` | violation, see 5 | a pile of goods and a bag of the hero's, which his hook may catch |
| `locking` | `TypeOK`, `NeverNested`, `LockStays`, `BestListed`, `PermDropped` (liveness) | 2 processes, 2 names, no limit or 2 letters, a crashed game's lock, 2 scores |
| `locking_scores` | violation, see 5 | the same |
| `turns` | `TypeOK`, `NoImpossible`, `OnePlace`, `NoStalePointer`, `FullMeasure`, `SeqDistinct`, `HeroMoves` (liveness) | a guard of speed 16 and a monster of 24, 2 levels, hero of speed 12 or 36, burdened or not, helpless for a turn |

*Why the bounds suffice.* Things do not act on each other in `Persistence`, so a single one
that can be lost or doubled shows whatever is lost or doubled. Two levels give "the level
left" and "the level entered"; the third is needed for levels that exist while neither, and
for the endgame. Three sessions are a game, a session that recovers or restores it, and a
third on its files; one crash reaches each point between two file operations, in a game, in a
recovery or in a restore; two crashes, and the sessions it takes to come
back after them, are in `persistence_sessions`, which does without things: those are followed in `persistence`. One turn tells an old time
stamp from a new one. In `Burning` two objects that meet and a slot for what is split off are
all a routine deals with at once; four moves contain a prayer, and a journey to another level
and back during which a timer goes off. `Levels`, marks and capacities are the smallest values
at which the branches of `begin_burn` and `burn_object` are taken, but for one: with the mark 1 a flame that
catches up after an absence (`timeout.c:1414`) is never between two marks. The theorem `FuelAlwaysAccounted` covers it, for any marks.
In `Shop` two entries and a bag are what any routine compares; a debt of 2 leaves room for a fee beside a price.
The bills have one or two lines, so that each routine meets an empty one, one with room and a full one with a thing on it and
another beside it, with a bag of the hero's and one of the shop's. Four small stocks instead of a big one keep the number of states down. In `Locking` two processes race, and a
lock of a crashed game and two names give each of them something to meet; two letters are a first and a last;
a list of two with one entry per person is full and has a person's worse score on it. In `Turns` a guard and
another monster are each list's one and other; the unspent movement of `MaxUnspent` is more than one turn's. A level
change leaves each in turn dead, parked, migrating, or left behind.
CHECK_DEADLOCK is off because the instances stop at their bounds (no sessions, turns or processes left, no shopkeeper).

*Bounds, by name.* `MaxMoves` (turns), `MaxSessions` (starts of the program, `hackpid`),
`MaxCrashes`, `MaxToggles` (changes of the option); `Price`, `Fee`,
`MaxDebt`; `Retries`, `EntryMax`, `PersMax`; `MaxHelpless` (turns), `MaxUnspent` (movement a monster may still
have when a level change is scheduled, which cuts the pass short and lets it keep the rest).

*The windows of risk.* `NeverLost` says that a kept game can be had back unless the process
died while `atrisk` was set. That variable is set by exactly the actions that open a window in
which the code cannot keep the promise (truncating a level file or the lock, moving levels into
a save file, everything from the locking of the save file to the next checkpoint, unlinking by
the utility), and unset where it closes. A reader can so see from the actions where a crash
costs a game. "Had back" means that it is in the save file, or that the checkpoint and each of its
levels are there whole (`LevelFilesHold`). Level files of an earlier game may lie beside them;
recovery takes them up too, which is `separate_games` in 5.

*Fairness.* `persistence_sessions`: `WF(Working)`, the program goes on with what it
has begun unless it dies (it is a sequential program, and waits only for the player in play,
where `Die`, `SaveOrHangup` and moves are not forced), and `WF(StartAgain)`, a player who starts
it again, and who may ask for the old game to be destroyed (it is `torn` then unless it is in the save file). `Retrieved` is stated for as many
sessions as can be needed: after an interrupted recovery one start only removes a lock.
`locking`: `WF(Getlock(p))`, a process inside `getlock` goes on, but no player need ever answer a prompt.
`turns`: `WF(Loop)`, the loop goes on; the player's command need not come, nor end, and nothing is
assumed of the effects. `HeroMoves` says that once time has passed the hero's next turn comes.

## 5. Where code and words disagree

Each is a violation run; PROJECT.json quotes the lines.

1. `first_checkpoint`: after a self-recovery the first checkpoint of `dorecover` is not made,
   because `in_self_recover` is still set; the save file is deleted. A crash before the next
   level change loses the game.
2. `level_change_crash`: a crash between `savelev` of the old level and the checkpoint on the new
   one makes recovery combine a newer level with an older game state (things doubled or lost).
3. `interrupted_restore`: a crash in `dorecover` leaves the save file with mode 0. The second
   start after it begins a new game although the save file is complete. The new game's save then
   cannot create the file, and deletes it.
4. `shop_hook`: pulling the hero's own container off the shop floor from the street is no robbery,
   although there are goods in it: `pick_obj` looks at the container's own `unpaid` only.
5. `locking_scores`: `topten` closes the record file before it opens it for writing, and closing a file ends
   the process's `fcntl` locks on it. Two games that end together can lose a score.
6. `separate_games`: recovery takes up every level file of the base name, not those of the levels that
   the checkpoint knows. A game without checkpoints that dies in a save leaves its level files behind;
   only its lock is removed, and a new game begins among them. If that one crashes after a checkpoint, it
   is recovered with the old game's level in it.

Met while modelling, without a run of their own:

* `Burning`: a slime-struck monster that drinks *lit diluted* oil starts a second burn on it (`muse.c:3174`
  against `timeout.c:1675`); the run has no diluted oil, the theorems exclude it (`NoDilutedOil`). A candle that runs out in a prayer is treated
  after it as one that ran out while the hero was away (`timeout.c:617`, `:1404`). A candle snuffed in a
  prayer after its timer came due has a fuel of zero or less, and so has a candelabrum it is attached to
  (`timeout.c:1831`). `late` marks these behaviours in the properties.
* `Shop`: `bill_dummy_object` of a container with contents panics; `stolen_value` counts a partly used stack
  twice; `make_angry_shk` adds debit and loan although the loan is part of the debit (`mextra.h:129`);
  `sellobj` has `(robbed -= offer < 0L)`. A shopkeeper whose bill is full refuses whatever is dropped and marks it `no_charge`
  without a look at `unpaid` (`shk.c:4069-4078`), which the other branches take. A bag of the shop's with the hero's own things in it gets there:
  it stays on the bill, on its shelf, unpaid and no charge at once, which `shop_obj_sanity` calls insane (`mkobj.c:3168`); what is
  then put into it goes out with it unbilled, because `addtobill` returns at once for what is on the bill.
* `Locking`: between the prompt of `getlock` and `creat` the `perm` lock is not held (`unixunix.c:183`), so two
  starts can both create the lock; `asked` marks these names in `LockStays`. `unlock_file` is called twice on
  that path, `gn.nesting` goes to -1, and a later `unlock_file` of the same process does not release: the
  exception in `PermDropped`. After a renaming the second `getlock` takes a second letter, or finds its
  own lock and asks. A game idle for three days is removed by `veryold` (constant `Idle`). A process that finds
  its lock taken removes the other's with `clearlocks`.
* `Turns`: a restored game recomputes `hero_seq` as `moves << 3`
  (`restore.c:733`), so the numbers of that turn can come again. A sessile hero (speed 0) never moves: `HeroSpeeds`
  is positive. Movement that a level change leaves unspent is used on return.

## 6. Proofs

The constants of `Persistence` are assumed to be what `LedgerAssumption` says (the last ledger number is
a positive number, the first level is a level, the endgame is a set of levels, `Native` assigns things to
levels) and `FreshAssumption` (a thing is made with one level only: `next_ident()` gives each object and
monster a number of its own). The theorems on `Persistence` hold for any number of levels, things,
turns, sessions, crashes and changes of the option.

* `Persistence_proofs!TypeCorrect`: `Spec => []TypeOK`. `TypeOK` is not inductive: level files are
  indexed by the current level of a game state, which may be 0 when there is none, and by `dest`.
  `TypeInv` adds `Placed`: wherever a level is loaded, or a lock or save file complete, its current
  level is a level; while a level is being changed or written `dest` is one. One lemma per group of
  actions (`StartTypes`, `RestoreTypes`, ...), one step per action, one sub-step per conjunct that
  the action disturbs; `Untouched` covers the rest.
* `PersistenceSafety_proofs!LockAlwaysOurs`: `Spec => []LockIsOurs`, from `LockHeld`, which extends
  the statement back to the moment the lock is created: from then on to its removal it is there with this
  process's id. `savestateinlock`'s branch for a missing or foreign lock is therefore not modelled:
  it is not reachable without another process.
* `OneLifeAlways`: `Spec => []OneLife`, from `Unsaved`: after `getlock` a save file can be restored
  only up to the point where `dorecover` locks it, and then not again until a save has created a new one.
* `NeverOutdated`: `Spec => []NoOutdatedCheckpoint`, from `Shortened`: while `havestate` is not set the
  lock is not a whole checkpoint, and at the point between its creation and its state it is short.
* `PersistenceInvariant_proofs!AlwaysConsistent`: `Spec => []Consistent`. None of `NeverLost`, `Conserved`,
  `RestoreFaithful`, `LevelFilesIntact` and `NoDiscardedReturn` is inductive, and none can be strengthened
  alone: that a kept world survives a save depends on the level files being whole, which depends on the flags
  that came with the last restore, which depends on what the save file held. `Consistent` has one
  part for each stretch of the program: `AtRest` (the kept world is in the save file or the level files, and the flags
  filed with it are `Sound`), `Recovering` and `UtilRecovering` (each level of the kept world is in the new save file or
  still in its level file), `Restoring` (levels read so far are files of this session), `FilesOfSession`,
  `FlagsOfSession`, `ThingsOfSession` and `Travelling` (the game as it is played, and between two levels),
  `Checkpointing`, `CheckpointOlder` and `SafeWithCheckpoint` (a checkpoint is no further than the game; unless `atrisk`
  it is the kept world), `Saving`. `Sound` carries the level flags and the accounting of things through the
  files: every thing is in one place, and those made with a visited level are somewhere. Only three parts hold after a
  crash that happened `atrisk` (`torn`); the others are below `~torn`. `TypeInv`, `LockHeld`, `Unsaved` and
  `Shortened` are used as lemmas on the states. `ChecksIn` and its kin say what each copying loop keeps; then there is one lemma per
  group of actions, one step per part that it disturbs. From `Consistent` and `TypeInv` follow
  `FilesAlwaysIntact`, `NeverBackToDiscarded`, `RestoredFaithfully`, `KeptWorldNeverLost` and `ThingsConserved`.
* `PersistenceRefines_proofs!PromiseKept`: `Spec => KeepsItsPromise`, that is `Promise` with the mapping of
  `PersistenceRefines`. Initial states map to initial states (`FirstPromise`); each action maps to a step of `Promise`
  or changes nothing there. `SameTerms` gives the mapped variables in the terms of `Persistence`; there is one lemma for each
  promised step (`Begun`, `Returned`, `GoOn`, `WrittenDown`, `Checkpointed`, `Saved`, `Died`, `Tricked`, `Crashed`), and
  `StepsKeepThePromise` puts them together. It needs `Consistent` in both states: that a restore returns to the kept world is
  `Resumed`, that nothing vanishes in a level change is `Travelling` with `ThingsOfSession`.

* `Locking_proofs!LockKept`: `Spec => []LockStays`, from `LockingAssumption` alone, for any number of processes,
  names and letters and any answers. `LockStays` alone is not inductive: what carries it is that nobody makes
  a second file of a name in use. `PermHeld`: from the look at a name to the creation of its file a process holds
  `perm`, unless a player has been asked about the name. `Single`: nobody else is in a game under a name that is
  about to be taken, or is, with the same exception. `InUse`: the file of a game is there, not old, and says
  whose it is once that is written. One lemma per action or group of actions.

* `Locking_proofs!LocksNeverNested`: `Spec => []NeverNested`, from `Nesting`: by the place a process is at,
  `gn.nesting` is at most what that place allows. It can be less by up to three, after the second `unlock_file` of `getlock`.

* `Locking_proofs!TypeCorrect`: `Spec => []TypeOK`, for any scores already listed. That `gn.nesting` is never below -3 is the part with
  substance: a process goes through `getlock` at most three times, once before and twice after a renaming, and each time it calls
  `unlock_file` at most once too often. `Counters` says so for every place (`Calls` is the number of times so far); `Scored`
  says that what `topten` reads, ranks and writes are entries with points, through its loop over the record.

* `Turns_proofs`, from `TurnsAssumption` alone, for any number of monsters, speeds and levels:
  `TypeCorrect`, `DeadCounted` (`NoImpossible`), `InOnePlace` (`OnePlace`), `SafeForDeletions`
  (`NoStalePointer`) and `MovesOfItsSpeed` (`FullMeasure`). The inductive invariant is `World /\ Flow`. `World`
  holds at every point: movement is of whole moves; each monster is on one list (`Places`); a monster bears the mark of
  migrating exactly while it waits to migrate (`Marks`); a monster is detached exactly when it is
  dead and no guard, all of these are on the level, and `purge` is their number (`Counted`). `Flow` depends on
  the point: the snapshot points to monsters of the level or waiting (`Snapshot`); movement left and moves used
  make up one of the two rations (`Measured`); who has a move left is still in the snapshot or `somebody` is set
  (`Noted`). `WorldStays`, `Touched`, `Detached`, `Dead`, `CleanedUp` and `Using` say what happens when one monster
  changes, `Going` what a change of level does; then there is one lemma per action or group of actions.
  `TypeCorrect` also needs `HeroReady`: the hero pays for a move only when he has the movement for it.
* `Turns_proofs!MovesHaveNumbers`: `SixMoves => (Spec => []SeqDistinct)`. `SixMoves` says that the hero's speed is at most 72. Without it
  the property is false (a hero of speed 100 moves more than seven times); the fastest form of `include/monsters.h` has 36,
  and the fastest steeds (speed 24), hasted and at a gallop, are rounded to 60 at most. A turn has then at most six moves and what was left of the turn before.

* `Burning_proofs`, all of the properties of the run `burning`, for any number of objects, levels and turns,
  any marks, capacities and age bands: `TypesAlwaysRight`, `LightAlwaysRight`, `TimerAlwaysRight`,
  `NothingEverDangles`, `FuelAlwaysAccounted`, `AlwaysPunctual` and `NeverImpossible`. They are proved under
  `BurningAssumption` (sets and numbers are what their names say), `BelongingsAssumption` (a game begins with unlit
  things that are carried, and candles have fuel) and one hypothesis, `NoDilutedOil`: no potion of diluted oil is
  among the belongings. It is needed because of the double burn of section 5: with diluted oil the
  properties are false of the code. `water_damage()`, which dilutes potions, is not modelled.
  None of the properties is inductive. `Inv` says more, in four parts. `Settled(l)`: the heap of level `l` (the one
  in memory for the hero's level, otherwise what is saved) has for each object that is at home there (`Home`)
  all that belongs to it (`Right`: one light if lit, a timer if it burns, the count), and nothing for any other
  (`Dark`); its queue is in order and names no object twice (`Proper`). `Metered`: timer and age of an existing
  object together are its fuel. `Quiet`: unless `late`, no timer is due when somebody acts, nothing was complained
  of, and what must have fuel to be lit has some (`Fueled`; without it "no fuel" and a burn of length 0 are not
  excluded). `Sane`, in `Right`, holds what is true of an object by itself: lit oil has age 0, which is why
  `begin_burn` returns at once when lit oil is lit again.
  The proof goes up in the order of the code: what inserting, removing and popping do to a `Proper` queue
  (`TimerInserted`, `FirstRemoved`), the two loops of `save_timers` and `restore_timers` (`ThoseKept`, `TimersMerged`),
  each routine on a heap (`SoundLight`, `SoundPutOut`, `SoundDealloc`, `SoundSplit`, `SoundMerged`, `ObjectBurned`:
  it touches only the objects named, `Only`, and leaves them `Right`), one lemma for each action (`UseLampKeeps` ...
  `GotoLevelKeeps`). The loops are recursive functions on numbers; what they yield is shown by the least index at
  which it would fail (`LeastNatural`), since the library's induction theorems take operators as parameters.

* `Shop_proofs`, for any number of goods, any price, fee and debt, any size of the bill and any stocks: `TypeCorrect` (`TypeOK`),
  `BillAgrees` (`BillMatches`), `PriceAgrees` (`OnePrice`) and `Uncomplaining` (`NoImpossible`). They are proved from
  `ShopAssumption` (numbers are what their names say), `StocksAssumption` (a game begins with nothing marked, and with a bag
  for what is in the bag) and the hypothesis `SmallSnags`: a grappling hook catches anything but the bag. With the bag it leaves the shop
  with goods in it that are on the bill of a shopkeeper who does not mind, as in the run `shop_hook`.
  The invariant is `Good(State)`. `Sound` is what every routine keeps on its way: types, no more lines than there is room for
  and one line for each thing (`BillRight`), things only in a bag that is there (`BagRight`), and for each thing the line that fits its mark,
  its quantity and the price (`Fits`). `Quiet`: nothing was complained of but by `dopay`. Unless the game is over, `Grounded`:
  nothing is on no chain between two actions; and `Placed`: what is unpaid is minded by a shopkeeper who knows of it.
  The argument goes up with the calls: the sums and loops over bill and bag, by the least number at which they would fail;
  `addtobill`, `subfrombill`, `splitbill`, `bill_dummy_object`, `setpaid`, payment and the like on a `Sound` shop; one lemma for each action
  (`...Keeps`); `NextInv` puts them together.

*Only model-checked:*

* `GoodsWhereTheyBelong`, `SettledOutside` and `NothingForNothing` of `Shop`: they are about steps or about who saw what, and the invariant
  above says nothing of `no_charge` or of money;
* `BestListed` of `Locking`: that what one loop of `topten` builds is the ranking that the reference definition gives;
* the liveness properties `Retrieved`, `PermDropped` and `HeroMoves`: liveness under fairness is out of the prover's reach.

## 7. Not modelled

*Persistence:* bones, panic saves, save file conversion and compression, wizard and explore mode, the
tutorial's own discarding of levels; `restgamestate` returning FALSE and a new game begun after a failed `validate`; answering 'n' to the overwrite prompt (nothing changes); running out of
disk space while writing, which appears as a crash at that point; the `run_timers` of `dorecover`.
*Burning:* what a monster on `gm.migrating_mons` carries (`timeout.c:2580`), magic lamps without a djinni.
*Shop:* selling to a shopkeeper who was robbed and made peace, new customers, `shkcatch`, gold in bags, nested
containers, credit in detail, `inherits` and `paybill` at the hero's death, the shopkeeper on another level,
buying a bag on the free spot, actual prices; the warning of `u_left_shop` at the door, which changes nothing. *Locking:* link-based locks of other builds, the log files,
`pers_is_uid`, role in the identity of a person. *Turns:* steeds, moves borrowed in `muse.c`, `mhurtle`, rations
after a change of shape, revived monsters, occupations and counts, the limit of `moves`, where anybody moves,
`mcalcdistress` killing what cannot move. Random numbers are nondeterminism; level generation, combat, magic,
vision, window ports, sound, options, Lua and the Japanese messages have no protocol state that a small model
could tell apart. Object chains, worn equipment and regions are in the plan.
