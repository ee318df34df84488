------------------------------ MODULE Locking ------------------------------
(***************************************************************************)
(* Several games on one machine: the files they lock, and the list of top  *)
(* scorers they share.                                                     *)
(*                                                                         *)
(* A start takes the "perm" lock, looks for a lock file of its own (by     *)
(* letter when MAXPLAYERS is set, else, and in wizard mode, by the name of *)
(* the hero), creates it, drops "perm" and writes its process id.  When a  *)
(* game ends its files go and topten() enters the score in "record".       *)
(*                                                                         *)
(* lock_file() is fcntl() (USE_FCNTL): a process gets again a lock it has, *)
(* and loses it when it dies or closes any descriptor of the file.         *)
(***************************************************************************)
EXTENDS Naturals, Integers, FiniteSets, Sequences

CONSTANTS
  Procs,        \* process ids
  Names,        \* names of heroes
  Called,       \* those a program may be started with
  Limits,       \* values of MAXPLAYERS in sysconf, 0 for no limit
  Left,         \* names of lock files one of which a crashed game has left
  Retries,      \* lock_file() tries again that many times
  EntryMax,     \* ENTRYMAX, the length of the list of top scorers
  PersMax,      \* PERSMAX, entries of one person
  Score,        \* the points of each process's game
  OldRecord,    \* the list of top scorers at first
  Idle          \* a game may be left alone for three days

NoOne == 0

ASSUME LockingAssumption ==
  /\ Procs \subseteq Nat \ {NoOne} /\ Limits \subseteq 0 .. 25
  /\ Names \cap Nat = {} /\ Called \subseteq Names /\ Retries \in Nat
  /\ EntryMax \in Nat \ {0} /\ PersMax \in Nat \ {0}
  /\ Score \in [Procs -> Nat \ {0}]
  /\ OldRecord \in Seq([who : Names, points : Nat \ {0}])

VARIABLES
  maxplayers,   \* sysopt.maxplayers
  perm,         \* who has the lock on "perm"
  rlock,        \* who has the lock on "record"
  file,         \* level file 0 of each lock name
  record,       \* the list of top scorers
  pc,           \* where each process is
  wizard,       \* in wizard mode
  name,         \* the name of the hero
  lock,         \* the process's lock name, NoOne if none yet
  linked,       \* the file it has created is still the one of that name
  nesting,      \* gn.nesting
  tries,        \* retryct of lock_file()
  todo,         \* calls of getlock() that main() still makes
  renamed,      \* the hero has been renamed
  list,         \* the list topten() is about to write
  asked,        \* lock names whose old game a player had destroyed or recovered
  arrived,      \* the scores that topten() listed, in order
  clash,        \* two processes were in topten() at once
  torn          \* a process died in topten()

files  == <<perm, rlock, file, linked, record>>
inGetlock == <<lock, nesting, tries, todo>>
history == <<arrived, clash, torn>>
scores == <<rlock, record, list, history>>
who    == <<maxplayers, wizard, name, renamed>>
vars   == <<maxplayers, perm, rlock, file, record, pc, wizard, name, lock, linked,
            nesting, tries, todo, renamed, list, asked, history>>

Locks == (UNION {1 .. n : n \in Limits}) \cup Names

(* A lock file: the process id written in it, or NoOne; whether a          *)
(* checkpoint follows; whether it is three days old.                       *)
LockFile == [there : BOOLEAN, pid : Procs \cup {NoOne}, ckpt : BOOLEAN, old : BOOLEAN]
Absent == [there |-> FALSE, pid |-> NoOne, ckpt |-> FALSE, old |-> FALSE]
Empty == [Absent EXCEPT !.there = TRUE]

(* A game that crashed earlier has left its files.                         *)
Stale(ckpt) == [Empty EXCEPT !.ckpt = ckpt]

Locknum(p) == IF wizard[p] THEN 0 ELSE maxplayers
ByName(p) == Locknum(p) = 0
Live(p) == pc[p] \notin {"new", "gone"}

(* The process uses the lock file it has made.                             *)
InGame(p) == pc[p] \in {"created", "writepid", "setup", "play", "rewrite", "over"}

Init ==
  /\ maxplayers \in Limits
  /\ perm = NoOne /\ rlock = NoOne /\ record = OldRecord
  /\ \E l \in Left, ckpt \in BOOLEAN :
       file = [k \in Locks |-> IF k = l THEN Stale(ckpt) ELSE Absent]
  /\ pc = [p \in Procs |-> "new"]
  /\ wizard = [p \in Procs |-> FALSE] /\ name = [p \in Procs |-> NoOne]
  /\ lock = [p \in Procs |-> NoOne] /\ linked = [p \in Procs |-> FALSE]
  /\ nesting = [p \in Procs |-> 0] /\ tries = [p \in Procs |-> 0]
  /\ todo = [p \in Procs |-> 0] /\ renamed = [p \in Procs |-> FALSE]
  /\ list = [p \in Procs |-> <<>>]
  /\ asked = {} /\ arrived = OldRecord /\ clash = FALSE /\ torn = FALSE

----------------------------------------------------------------------------
(* Steps of one process.                                                   *)

To(p, point) == pc' = [pc EXCEPT ![p] = point]
Free(holder, p) == IF holder = p THEN NoOne ELSE holder

(* unlock_file() lets go of the lock only at nesting 1, but counts down    *)
(* whatever the nesting is.                                                *)
UnlockFile_Uncounted(p) == perm' = Free(perm, p) /\ nesting' = nesting
UnlockFile(p) ==
  /\ nesting' = [nesting EXCEPT ![p] = @ - 1]
  /\ perm' = IF nesting[p] = 1 THEN Free(perm, p) ELSE perm

(* error(), exit(): the system takes back what the process had locked.     *)
Exit(p) ==
  /\ To(p, "gone")
  /\ perm' = Free(perm, p) /\ rlock' = Free(rlock, p)
  /\ nesting' = [nesting EXCEPT ![p] = 0] /\ tries' = [tries EXCEPT ![p] = 0]
  /\ todo' = [todo EXCEPT ![p] = 0] /\ lock' = [lock EXCEPT ![p] = NoOne]
  /\ list' = [list EXCEPT ![p] = <<>>]
  /\ wizard' = [wizard EXCEPT ![p] = FALSE] /\ name' = [name EXCEPT ![p] = NoOne]
  /\ renamed' = [renamed EXCEPT ![p] = FALSE]
  /\ UNCHANGED <<maxplayers, arrived>>

(* unlink(): a process that has the file open writes to it in vain.        *)
Unlink(l) ==
  /\ file' = [file EXCEPT ![l] = Absent]
  /\ linked' = [q \in Procs |-> linked[q] /\ lock[q] # l]
Stay == UNCHANGED <<file, linked>>

Begin(p) ==
  /\ pc[p] = "new"
  /\ To(p, "lock")
  /\ wizard' \in {[wizard EXCEPT ![p] = wiz] : wiz \in BOOLEAN}
  /\ name' \in {[name EXCEPT ![p] = n] : n \in Called}
  /\ tries' = [tries EXCEPT ![p] = Retries] /\ todo' = [todo EXCEPT ![p] = 1]
  /\ UNCHANGED <<files, lock, nesting, maxplayers, renamed, list, asked, history>>

----------------------------------------------------------------------------
(* getlock().                                                              *)

LockPerm(p) ==
  /\ pc[p] = "lock" /\ perm \in {NoOne, p}
  /\ perm' = p /\ nesting' = [nesting EXCEPT ![p] = @ + 1]
  /\ lock' = [lock EXCEPT ![p] = IF ByName(p) THEN name[p] ELSE 1]
  /\ To(p, "look")
  /\ UNCHANGED <<file, linked, tries, todo, who, asked, scores>>

WaitForPerm(p) ==
  /\ pc[p] = "lock" /\ perm \notin {NoOne, p}
  /\ IF tries[p] > 0
     THEN /\ tries' = [tries EXCEPT ![p] = @ - 1]
          /\ UNCHANGED <<perm, pc, lock, nesting, todo, who, scores>>
     ELSE Exit(p) /\ UNCHANGED <<record, clash, torn>>
  /\ UNCHANGED <<file, linked, asked>>

(* No lock file under this name; or one that veryold() gives up for dead,  *)
(* and eraseoldlocks() removes.                                            *)
VeryOld_Any(f) == f.there
VeryOld(f) == f.there /\ f.old

Found(p) ==
  /\ pc[p] = "look"
  /\ ~file[lock[p]].there \/ VeryOld(file[lock[p]])
  /\ Unlink(lock[p])
  /\ To(p, "create")
  /\ UNCHANGED <<perm, inGetlock, who, asked, scores>>

(* The next letter, or "Too many hacks running now."                       *)
NextLetter(p) ==
  /\ pc[p] = "look" /\ ~ByName(p)
  /\ file[lock[p]].there /\ ~VeryOld(file[lock[p]])
  /\ IF lock[p] < Locknum(p)
     THEN /\ lock' = [lock EXCEPT ![p] = @ + 1]
          /\ UNCHANGED <<perm, pc, nesting, tries, todo, who, scores>>
     ELSE Exit(p) /\ UNCHANGED <<record, clash, torn>>
  /\ UNCHANGED <<file, linked, asked>>

(* "There is already a game in progress under your name": the perm lock is *)
(* dropped while the user decides.                                         *)
Ask(p) ==
  /\ pc[p] = "look" /\ ByName(p)
  /\ file[lock[p]].there /\ ~VeryOld(file[lock[p]])
  /\ UnlockFile(p)
  /\ To(p, "prompt")
  /\ UNCHANGED <<file, linked, lock, tries, todo, who, asked, scores>>

AnswerNo(p) ==
  /\ pc[p] = "prompt"
  /\ Exit(p)
  /\ UNCHANGED <<file, linked, record, asked, clash, torn>>

(* eraseoldlocks() fails when the lock has meanwhile gone.                 *)
AnswerYes(p) ==
  /\ pc[p] = "prompt"
  /\ IF file[lock[p]].there
     THEN /\ Unlink(lock[p]) /\ To(p, "create") /\ asked' = asked \cup {lock[p]}
          /\ UNCHANGED <<perm, inGetlock, who, scores>>
     ELSE Exit(p) /\ UNCHANGED <<file, linked, record, asked, clash, torn>>

(* recover_savefile() makes a save file of a checkpoint and removes the    *)
(* rest.  It can fail; a lock without a checkpoint is removed if there is  *)
(* a save file already, and still the answer is "Couldn't recover".        *)
AnswerRecover(p) ==
  /\ pc[p] = "prompt"
  /\ \/ /\ file[lock[p]].there /\ file[lock[p]].ckpt
        /\ Unlink(lock[p]) /\ To(p, "create") /\ asked' = asked \cup {lock[p]}
        /\ UNCHANGED <<perm, inGetlock, who, scores>>
     \/ /\ Exit(p)
        /\ \/ UNCHANGED <<file, linked, asked>>
           \/ /\ file[lock[p]].there /\ ~file[lock[p]].ckpt
              /\ Unlink(lock[p]) /\ asked' = asked \cup {lock[p]}
        /\ UNCHANGED <<record, clash, torn>>

(* gotlock: creat(), unlock_file(), and only then the process id.          *)
Create(p) ==
  /\ pc[p] = "create"
  /\ file' = [file EXCEPT ![lock[p]] = Empty]
  /\ linked' = [linked EXCEPT ![p] = TRUE]
  /\ To(p, "created")
  /\ UNCHANGED <<perm, lock, nesting, tries, todo, who, asked, scores>>

DropPerm_Not(p) ==
  /\ pc[p] = "created" /\ To(p, "writepid")
  /\ UNCHANGED <<perm, nesting, file, linked, lock, tries, todo, who, asked, scores>>
DropPerm(p) ==
  /\ pc[p] = "created"
  /\ UnlockFile(p)
  /\ To(p, "writepid")
  /\ UNCHANGED <<file, linked, lock, tries, todo, who, asked, scores>>

(* What is written to a file that has been unlinked goes nowhere.          *)
WritePid(p) ==
  /\ pc[p] = "writepid"
  /\ file' = IF linked[p] THEN [file EXCEPT ![lock[p]].pid = p] ELSE file
  /\ todo' = [todo EXCEPT ![p] = @ - 1] /\ linked' = [linked EXCEPT ![p] = FALSE]
  /\ tries' = [tries EXCEPT ![p] = Retries]
  /\ To(p, IF todo[p] > 1 THEN "lock" ELSE "setup")
  /\ UNCHANGED <<perm, lock, nesting, who, asked, scores>>

Getlock(p) ==
  \/ LockPerm(p) \/ WaitForPerm(p) \/ Found(p) \/ NextLetter(p) \/ Ask(p)
  \/ Create(p) \/ DropPerm(p) \/ WritePid(p)
Answer(p) == AnswerNo(p) \/ AnswerYes(p) \/ AnswerRecover(p)

----------------------------------------------------------------------------
(* main() with the lock in hand, and the game.                             *)

(* There is no save file and the player renames the hero: main() calls     *)
(* getlock() for the new name, and goes to where it calls it once more.    *)
Rename(p) ==
  /\ pc[p] = "setup" /\ ~renamed[p]
  /\ name' \in {[name EXCEPT ![p] = n] : n \in Names \ {name[p]}}
  /\ renamed' = [renamed EXCEPT ![p] = TRUE]
  /\ IF ByName(p) THEN Unlink(lock[p]) ELSE Stay
  /\ todo' = [todo EXCEPT ![p] = IF ByName(p) THEN 2 ELSE 1]
  /\ To(p, "lock")
  /\ UNCHANGED <<perm, lock, nesting, tries, maxplayers, wizard, asked, scores>>

Play(p) ==
  /\ pc[p] = "setup"
  /\ To(p, "play")
  /\ UNCHANGED <<files, inGetlock, who, list, asked, history>>

(* savestateinlock() looks whether the lock is still its own.  If not, the *)
(* game is over, or, in wizard mode, goes on.                              *)
Mine(p) == file[lock[p]].there /\ file[lock[p]].pid = p

CheckPid(p) ==
  /\ pc[p] = "play"
  /\ IF Mine(p) THEN To(p, "rewrite")
                ELSE ~wizard[p] /\ To(p, "over")
  /\ UNCHANGED <<files, inGetlock, who, list, asked, history>>

Checkpoint(p) ==
  /\ pc[p] = "rewrite"
  /\ file' = [file EXCEPT ![lock[p]] = [Empty EXCEPT !.pid = p, !.ckpt = TRUE]]
  /\ To(p, "play")
  /\ UNCHANGED <<perm, linked, inGetlock, who, asked, scores>>

(* The game ends; clearlocks() comes before the score.  topten() leaves    *)
(* out wizard mode.                                                        *)
Die(p) ==
  /\ pc[p] = "play"
  /\ To(p, "over")
  /\ UNCHANGED <<files, inGetlock, who, list, asked, history>>

ClearLocks(p) ==
  /\ pc[p] = "over"
  /\ Unlink(lock[p])
  /\ IF wizard[p] THEN Exit(p)
     ELSE /\ To(p, "score") /\ tries' = [tries EXCEPT ![p] = Retries]
          /\ lock' = [lock EXCEPT ![p] = NoOne]
          /\ UNCHANGED <<perm, rlock, nesting, todo, who, list, arrived>>
  /\ UNCHANGED <<record, asked, clash, torn>>

(* The game is saved; or given up while the hero is being chosen.          *)
Leave(p) ==
  /\ pc[p] \in {"setup", "play"}
  /\ Unlink(lock[p])
  /\ Exit(p)
  /\ UNCHANGED <<record, asked, clash, torn>>

----------------------------------------------------------------------------
(* topten().                                                               *)

Entry(p) == [who |-> name[p], points |-> Score[p]]

(* readentry() to the end of the list; the new entry t0 goes before the    *)
(* first that has fewer points.  occ_cnt counts entries of the same person *)
(* down from PERSMAX, rank the places taken.                               *)
ReadEntry(s, t1, t0) ==
  LET here == s.rank0 < 0 /\ t1.points < t0.points
      full == s.rank + (IF here THEN 1 ELSE 0) > EntryMax
      occ  == s.occ - (IF here THEN 1 ELSE 0) - (IF t1.who = t0.who THEN 1 ELSE 0)
      most == t1.who = t0.who /\ occ <= 0
      late == most /\ ~here /\ s.rank0 < 0
      drop == most /\ occ < 0
  IN  IF s.rank > EntryMax THEN s
      ELSE [out   |-> s.out \o (IF here THEN <<t0>> ELSE <<>>)
                            \o (IF drop \/ full THEN <<>> ELSE <<t1>>),
            rank  |-> s.rank + (IF here THEN 1 ELSE 0) + (IF drop THEN 0 ELSE 1),
            rank0 |-> IF here THEN s.rank ELSE IF late THEN 0 ELSE s.rank0,
            occ   |-> occ,
            flg   |-> s.flg \/ here \/ drop]

(* Before the first entry is read; and after the last, where an entry of   *)
(* no points ends the list: the new one goes before it if it has no place. *)
Unread == [out |-> <<>>, rank |-> 1, rank0 |-> 0 - 1, occ |-> PersMax, flg |-> FALSE]
Placed(end, t0) ==
  LET last == end.rank0 < 0 /\ end.rank <= EntryMax
  IN  [out |-> IF last THEN Append(end.out, t0) ELSE end.out, flg |-> end.flg \/ last]

ReadAll_NoCap(recs, t0) ==
  LET read[i \in 0 .. Len(recs)] ==
        IF i = 0 THEN Unread ELSE ReadEntry([read[i - 1] EXCEPT !.occ = PersMax + 1], recs[i], t0)
  IN  Placed(read[Len(recs)], t0)
ReadAll(recs, t0) ==
  LET read[i \in 0 .. Len(recs)] == IF i = 0 THEN Unread ELSE ReadEntry(read[i - 1], recs[i], t0)
  IN  Placed(read[Len(recs)], t0)

InTopten == {"read", "reopen", "truncated"}
Alone(p) == \A q \in Procs \ {p} : pc[q] \notin InTopten

LockRecord(p) ==
  /\ pc[p] = "score" /\ rlock \in {NoOne, p}
  /\ rlock' = p /\ nesting' = [nesting EXCEPT ![p] = @ + 1]
  /\ To(p, "read")
  /\ clash' = (clash \/ ~Alone(p))
  /\ UNCHANGED <<perm, file, linked, record, lock, tries, todo, who, list, asked, arrived, torn>>

WaitForRecord(p) ==
  /\ pc[p] = "score" /\ rlock \notin {NoOne, p}
  /\ IF tries[p] > 0
     THEN /\ tries' = [tries EXCEPT ![p] = @ - 1]
          /\ UNCHANGED <<perm, pc, lock, nesting, todo, who, scores>>
     ELSE Exit(p) /\ UNCHANGED <<record, clash, torn>>
  /\ UNCHANGED <<file, linked, asked>>

(* The list is read and the file closed, which ends the lock: the          *)
(* descriptor of lock_file() is one of the same file.                      *)
ReadRecord(p) ==
  /\ pc[p] = "read"
  /\ LET new == ReadAll(record, Entry(p)) IN
       /\ list' = [list EXCEPT ![p] = IF new.flg THEN new.out ELSE <<>>]
       /\ To(p, IF new.flg THEN "reopen" ELSE "scored")
  /\ rlock' = Free(rlock, p)
  /\ arrived' = Append(arrived, Entry(p))
  /\ UNCHANGED <<perm, file, linked, record, inGetlock, who, asked, clash, torn>>

NotListed(p) == pc[p] = "scored" /\ Exit(p) /\ UNCHANGED <<file, linked, record, asked, clash, torn>>

(* fopen(RECORD, "w").                                                     *)
Truncate(p) ==
  /\ pc[p] = "reopen"
  /\ record' = <<>>
  /\ To(p, "truncated")
  /\ UNCHANGED <<perm, rlock, file, linked, inGetlock, who, list, asked, history>>

(* The new list, written from the beginning of the file over what may be   *)
(* there; what is longer stays, from a whole entry on or cut short.        *)
WriteEntries(p) ==
  /\ pc[p] = "truncated"
  /\ record' \in {list[p], list[p] \o SubSeq(record, Len(list[p]) + 1, Len(record))}
  /\ Exit(p)
  /\ UNCHANGED <<file, linked, asked, clash, torn>>

Topten(p) == LockRecord(p) \/ WaitForRecord(p) \/ ReadRecord(p) \/ Truncate(p)
               \/ WriteEntries(p) \/ NotListed(p)

----------------------------------------------------------------------------
(* kill -9, the machine, a closed terminal.                                *)
Crash(p) ==
  /\ Live(p)
  /\ Exit(p)
  /\ torn' = (torn \/ pc[p] \in InTopten)
  /\ UNCHANGED <<file, linked, record, asked, clash>>

(* Three days without a checkpoint.                                        *)
Age(l) ==
  /\ file[l].there /\ ~file[l].old
  /\ Idle \/ \A p \in Procs : InGame(p) => lock[p] # l
  /\ file' = [file EXCEPT ![l].old = TRUE]
  /\ UNCHANGED <<perm, linked, pc, inGetlock, who, asked, scores>>

Working(p) == Getlock(p) \/ Checkpoint(p) \/ ClearLocks(p) \/ Topten(p)
Player(p) == Begin(p) \/ Answer(p) \/ Rename(p) \/ Play(p) \/ CheckPid(p) \/ Die(p) \/ Leave(p)

Next == (\E p \in Procs : Working(p) \/ Player(p) \/ Crash(p)) \/ (\E l \in Locks : Age(l))

Spec == Init /\ [][Next]_vars

(* A process in getlock() that is not waiting for its player gets on.      *)
FairSpec == Spec /\ \A p \in Procs : WF_vars(Getlock(p))

----------------------------------------------------------------------------
(* Correctness.                                                            *)

(* Types, and bounds of the counters.                                      *)
TypeOK ==
  /\ perm \in Procs \cup {NoOne} /\ rlock \in Procs \cup {NoOne}
  /\ file \in [Locks -> LockFile]
  /\ \A i \in 1 .. Len(record) : record[i].points \in Nat \ {0}
  /\ lock \in [Procs -> Locks \cup {NoOne}] /\ linked \in [Procs -> BOOLEAN]
  /\ nesting \in [Procs -> {-3, -2, -1, 0, 1}] /\ tries \in [Procs -> 0 .. Retries]
  /\ todo \in [Procs -> 0 .. 2] /\ asked \subseteq Locks

(* A process never takes a file lock inside another one, although          *)
(* unlock_file() counts down more often than lock_file() counts up: else   *)
(* lock_file() would say "TRIED TO NEST LOCKS", and take none.             *)
NeverNested == \A p \in Procs : pc[p] \in {"lock", "score"} => nesting[p] <= 0

(* A game keeps its lock file: nobody else takes, empties or removes it    *)
(* (so no two games share one), as long as no player has had an old game   *)
(* of that name destroyed or recovered, and no game is left alone for      *)
(* three days (getlock(), veryold(), main()'s second getlock()).           *)
LockStays ==
  Idle \/ \A p \in Procs :
    (pc[p] \in {"setup", "play", "rewrite", "over"} /\ lock[p] \notin asked) => Mine(p)

(* The best of a sequence of scores as topten() ranks them: by points,     *)
(* earlier ones first, PERSMAX of a person and ENTRYMAX in all.            *)
Before(s, i, j) == s[i].points > s[j].points \/ (s[i].points = s[j].points /\ i < j)
Admitted(s) ==
  {j \in DOMAIN s :
     Cardinality({i \in DOMAIN s : s[i].who = s[j].who /\ Before(s, i, j)}) < PersMax}
Best(s) ==
  LET of == Admitted(s)
      place(j) == 1 + Cardinality({i \in of : Before(s, i, j)})
  IN  {<<place(j), s[j]>> : j \in {i \in of : place(i) <= EntryMax}}
ListIs(s, best) == {<<i, s[i]>> : i \in DOMAIN s} = best

(* The list is that of the best scores of all games that have ended, if    *)
(* they did so one at a time (topten()).                                   *)
BestListed ==
  (~clash /\ ~torn /\ \A p \in Procs : pc[p] \notin InTopten) => ListIs(record, Best(arrived))

(* Guidebook: "If you score higher than someone else on this list, or      *)
(* better your previous score, you will be inserted in the proper place"   *)
(* (also when two games end at about the same time; topten()).             *)
Inserted ==
  (~torn /\ \A p \in Procs : pc[p] \notin InTopten) => ListIs(record, Best(arrived))

(* "perm" is always dropped again, whatever players do at their prompts,   *)
(* except by a process whose earlier unlock_file() was one too many: its   *)
(* nesting is then too low for the next one (getlock(), unlock_file()).    *)
PermDropped == []<>(perm = NoOne \/ nesting[perm] < 1)
=============================================================================
