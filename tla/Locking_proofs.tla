--------------------------- MODULE Locking_proofs ---------------------------
(***************************************************************************)
(* For any number of processes, names and lock letters: a game keeps its   *)
(* lock file.                                                              *)
(*                                                                         *)
(* LockStays alone is not inductive.  What carries it is that "perm" is    *)
(* held from the look at a name to the creation of its file, so that no    *)
(* two processes make the file of one name, and that a file in use is      *)
(* neither missing nor old when another process looks.                     *)
(***************************************************************************)
EXTENDS Locking, SequenceTheorems, WellFoundedInduction, TLAPS

Points == {"new", "lock", "look", "prompt", "create", "created", "writepid", "setup",
           "play", "rewrite", "over", "score", "read", "scored", "reopen", "truncated",
           "gone"}
Named == {"lock", "look", "prompt", "create", "created", "writepid", "setup", "play",
          "rewrite", "over"}
HasLock == Named \ {"lock"}

Types ==
  /\ perm \in Procs \cup {NoOne} /\ maxplayers \in Limits
  /\ pc \in [Procs -> Points] /\ wizard \in [Procs -> BOOLEAN]
  /\ name \in [Procs -> Names \cup {NoOne}] /\ lock \in [Procs -> Locks \cup {NoOne}]
  /\ linked \in [Procs -> BOOLEAN] /\ file \in [Locks -> LockFile] /\ asked \subseteq Locks
  /\ \A p \in Procs : pc[p] \in Named => name[p] \in Names
  /\ \A p \in Procs : pc[p] \in HasLock => lock[p] \in Locks
  /\ \A p \in Procs : (pc[p] = "look" /\ ~ByName(p)) => lock[p] \in 1 .. maxplayers

(* From the look at a name to the creation of its file "perm" is held.     *)
PermHeld ==
  \A p \in Procs : \/ pc[p] = "look"
                   \/ pc[p] \in {"create", "created"} /\ lock[p] \notin asked
                   => perm = p

(* Nobody else is in a game under a name that is about to be taken, or is. *)
Single ==
  \A p, q \in Procs :
    (p # q /\ (pc[p] = "create" \/ InGame(p)) /\ InGame(q) /\ lock[p] = lock[q])
      => lock[p] \in asked

Uses(p) ==
  /\ file[lock[p]].there /\ ~file[lock[p]].old
  /\ pc[p] \in {"created", "writepid"} => linked[p]
  /\ pc[p] \notin {"created", "writepid"} => file[lock[p]].pid = p
InUse == \A p \in Procs : (InGame(p) /\ lock[p] \notin asked) => Uses(p)

IInv == Types /\ PermHeld /\ Single /\ InUse

(* Locks, names and files.                                                 *)
LEMMA LockNames ==
  /\ Names \subseteq Locks
  /\ \A n \in Limits : n \in Nat /\ 1 .. n \subseteq Locks
<1>1. \A n \in Limits : n \in Nat BY LockingAssumption
<1>2. \A n \in Limits : 1 .. n \subseteq UNION {1 .. k : k \in Limits} OBVIOUS
<1> QED BY <1>1, <1>2 DEF Locks

LEMMA Files ==
  /\ Absent \in LockFile /\ Empty \in LockFile /\ Empty.there /\ ~Empty.old
  /\ \A ckpt \in BOOLEAN : Stale(ckpt) \in LockFile
  /\ \A p \in Procs : \A f \in LockFile :
       /\ [f EXCEPT !.pid = p] \in LockFile /\ [f EXCEPT !.pid = p].pid = p
       /\ [f EXCEPT !.pid = p].there = f.there /\ [f EXCEPT !.pid = p].old = f.old
  /\ \A f \in LockFile : [f EXCEPT !.old = TRUE] \in LockFile
  /\ \A p \in Procs : LET f == [Empty EXCEPT !.pid = p, !.ckpt = TRUE]
                      IN  f \in LockFile /\ f.there /\ ~f.old /\ f.pid = p
<1>1. Absent \in LockFile BY DEF Absent, LockFile
<1>2. ~Absent.old BY DEF Absent
<1>3. Empty \in LockFile /\ Empty.there /\ ~Empty.old BY <1>1, <1>2 DEF Empty, LockFile
<1>4. \A ckpt \in BOOLEAN : Stale(ckpt) \in LockFile BY <1>3 DEF Stale, LockFile
<1>5. ASSUME NEW p \in Procs, NEW f \in LockFile
      PROVE  /\ [f EXCEPT !.pid = p] \in LockFile /\ [f EXCEPT !.pid = p].pid = p
             /\ [f EXCEPT !.pid = p].there = f.there /\ [f EXCEPT !.pid = p].old = f.old
  BY DEF LockFile
<1>6. ASSUME NEW f \in LockFile PROVE [f EXCEPT !.old = TRUE] \in LockFile
  BY DEF LockFile
<1>7. ASSUME NEW p \in Procs
      PROVE  LET f == [Empty EXCEPT !.pid = p, !.ckpt = TRUE]
             IN  f \in LockFile /\ f.there /\ ~f.old /\ f.pid = p
  BY <1>3 DEF LockFile
<1> QED BY <1>1, <1>3, <1>4, <1>5, <1>6, <1>7

LEMMA WithPid ==
  ASSUME NEW p \in Procs, NEW f \in LockFile, NEW g, g = [f EXCEPT !.pid = p]
  PROVE  g.pid = p /\ g.there = f.there /\ g.old = f.old
BY DEF LockFile

LEMMA Unlinked ==
  ASSUME Types, NEW l \in Locks, Unlink(l)
  PROVE  /\ file' \in [Locks -> LockFile] /\ linked' \in [Procs -> BOOLEAN]
         /\ \A k \in Locks \ {l} : file'[k] = file[k]
         /\ \A p \in Procs : lock[p] # l => linked'[p] = linked[p]
<1>1. file' = [file EXCEPT ![l] = Absent] /\ linked' = [q \in Procs |-> linked[q] /\ lock[q] # l]
  BY DEF Unlink
<1>2. file \in [Locks -> LockFile] /\ linked \in [Procs -> BOOLEAN] BY DEF Types
<1>3. file' \in [Locks -> LockFile] BY <1>1, <1>2, Files
<1>4. linked' \in [Procs -> BOOLEAN]
  <2>1. \A q \in Procs : (linked[q] /\ lock[q] # l) \in BOOLEAN OBVIOUS
  <2> QED BY <1>1, <2>1, Zenon
<1>5. \A k \in Locks \ {l} : file'[k] = file[k] BY <1>1, <1>2
<1>6. \A p \in Procs : lock[p] # l => linked'[p] = linked[p]
  <2>1. ASSUME NEW p \in Procs, lock[p] # l PROVE linked'[p] = (linked[p] /\ TRUE)
    BY <1>1, <2>1, Zenon
  <2>2. \A p \in Procs : linked[p] \in BOOLEAN BY <1>2
  <2> QED BY <2>1, <2>2
<1> QED BY <1>3, <1>4, <1>5, <1>6

LEMMA Start == ASSUME Init PROVE IInv
<1>1. file \in [Locks -> LockFile]
  <2>1. PICK l \in Left, ckpt \in BOOLEAN :
          file = [k \in Locks |-> IF k = l THEN Stale(ckpt) ELSE Absent]
    BY DEF Init
  <2>2. Stale(ckpt) \in LockFile /\ Absent \in LockFile BY Files
  <2> QED BY <2>1, <2>2
<1>2. Types BY <1>1 DEF Init, Types, Points, Named, HasLock, NoOne
<1>3. PermHeld /\ Single /\ InUse BY DEF Init, PermHeld, Single, InUse, Uses, InGame
<1> QED BY <1>2, <1>3 DEF IInv

(* A process that ends lets go of what it has, and disturbs nobody.        *)
LEMMA Exiting ==
  ASSUME IInv, NEW p \in Procs, Exit(p),
         \/ Stay
         \/ pc[p] \in HasLock /\ Unlink(lock[p]) /\ (InGame(p) \/ lock[p] \in asked'),
         asked \subseteq asked', asked' \subseteq Locks
  PROVE  IInv'
<1> USE DEF IInv
<1>1. /\ pc' = [pc EXCEPT ![p] = "gone"] /\ lock' = [lock EXCEPT ![p] = NoOne]
      /\ maxplayers' = maxplayers /\ perm' = IF perm = p THEN NoOne ELSE perm
      /\ wizard' = [wizard EXCEPT ![p] = FALSE] /\ name' = [name EXCEPT ![p] = NoOne]
  BY DEF Exit, To, Free
<1>2. file' \in [Locks -> LockFile] /\ linked' \in [Procs -> BOOLEAN]
  <2>1. CASE Stay BY <2>1 DEF Stay, Types
  <2>2. CASE Unlink(lock[p]) BY <2>2, Files DEF Unlink, Types
  <2> QED BY <2>1, <2>2
<1>3. Types'
  BY <1>1, <1>2 DEF Types, Points, Named, HasLock, ByName, Locknum
<1>4. PermHeld' BY <1>1 DEF Types, PermHeld
<1>5. Single' BY <1>1 DEF Types, Single, InGame
<1>6. InUse'
  <2> SUFFICES ASSUME NEW q \in Procs, InGame(q)', lock'[q] \notin asked'
               PROVE  Uses(q)'
    BY DEF InUse
  <2>1. q # p /\ InGame(q) /\ pc'[q] = pc[q] /\ lock'[q] = lock[q] /\ lock[q] \notin asked
    BY <1>1 DEF InGame, Types
  <2>2. lock[q] \in Locks BY <2>1 DEF Types, InGame, HasLock, Named
  <2>3. CASE Stay BY <2>1, <2>3 DEF Stay, InUse, Uses
  <2>4. CASE ~Stay
    <3>1. Unlink(lock[p]) /\ lock[p] # lock[q]
      BY <2>1, <2>4 DEF Single
    <3>2. file'[lock[q]] = file[lock[q]] /\ linked'[q] = linked[q]
      BY <2>2, <3>1 DEF Unlink, Types
    <3> QED BY <2>1, <3>2 DEF InUse, Uses
  <2> QED BY <2>3, <2>4
<1> QED BY <1>3, <1>4, <1>5, <1>6

(* getlock(): "perm" comes first, and stays until there is a lock file.    *)
LEMMA Entering ==
  ASSUME IInv, NEW p \in Procs, Begin(p) \/ LockPerm(p)
  PROVE  IInv'
<1> USE DEF IInv
<1>1. CASE Begin(p)
  <2> USE DEF Begin, To, files, history
  <2>1. PICK n \in Called, wiz \in BOOLEAN :
          name' = [name EXCEPT ![p] = n] /\ wizard' = [wizard EXCEPT ![p] = wiz]
    BY <1>1
  <2>2. n \in Names BY LockingAssumption
  <2>3. Types'
    BY <1>1, <2>1, <2>2 DEF Types, Points, Named, HasLock, ByName, Locknum
  <2>4. PermHeld' BY <1>1 DEF Types, PermHeld
  <2>5. Single' BY <1>1 DEF Types, Single, InGame
  <2>6. InUse' BY <1>1 DEF Types, InUse, Uses, InGame
  <2> QED BY <2>3, <2>4, <2>5, <2>6
<1>2. CASE LockPerm(p)
  <2> USE DEF LockPerm, To, who, scores, history
  <2>1. name[p] \in Names /\ name[p] \in Locks BY <1>2, LockNames DEF Types, Named
  <2>2. ~ByName(p) => 1 \in 1 .. maxplayers /\ 1 \in Locks
    BY LockNames DEF Types, ByName, Locknum
  <2>3. lock'[p] \in Locks /\ (~ByName(p) => lock'[p] = 1)
    BY <1>2, <2>1, <2>2 DEF Types
  <2>4. lock' \in [Procs -> Locks \cup {NoOne}] BY <1>2, <2>1, <2>2 DEF Types
  <2>5. Types'
    BY <1>2, <2>1, <2>2, <2>3, <2>4 DEF Types, Points, Named, HasLock, ByName, Locknum
  <2>6. PermHeld' BY <1>2, LockingAssumption DEF Types, PermHeld
  <2>7. Single' BY <1>2 DEF Types, Single, InGame
  <2>8. InUse' BY <1>2 DEF Types, InUse, Uses, InGame
  <2> QED BY <2>5, <2>6, <2>7, <2>8
<1> QED BY <1>1, <1>2

(* The look at a name.                                                     *)
LEMMA Looking ==
  ASSUME IInv, NEW p \in Procs, WaitForPerm(p) \/ Found(p) \/ NextLetter(p) \/ Ask(p)
  PROVE  IInv'
<1> USE DEF IInv
<1>1. CASE WaitForPerm(p)
  <2> USE DEF WaitForPerm, who, scores, history
  <2>1. CASE tries[p] > 0
    <3>1. UNCHANGED <<maxplayers, perm, file, pc, wizard, name, lock, linked, asked>>
      BY <1>1, <2>1
    <3>2. Types' BY <3>1 DEF Types, ByName, Locknum
    <3>3. PermHeld' BY <3>1 DEF PermHeld
    <3>4. Single' BY <3>1 DEF Single, InGame
    <3>5. \A q \in Procs : Uses(q)' <=> Uses(q) BY <3>1 DEF Uses
    <3>6. InUse' BY <3>1, <3>5 DEF InUse, InGame
    <3> QED BY <3>2, <3>3, <3>4, <3>6
  <2>2. CASE ~(tries[p] > 0)
    BY <1>1, <2>2, Exiting DEF Stay, Types
  <2> QED BY <2>1, <2>2
<1>2. CASE Found(p)
  <2> USE DEF Found, To, inGetlock, who, scores, history
  <2>1. lock[p] \in Locks /\ perm = p BY <1>2 DEF Types, HasLock, Named, PermHeld
  <2>2. /\ file' \in [Locks -> LockFile] /\ linked' \in [Procs -> BOOLEAN]
        /\ \A k \in Locks \ {lock[p]} : file'[k] = file[k]
        /\ \A q \in Procs : lock[q] # lock[p] => linked'[q] = linked[q]
    BY <1>2, <2>1, Unlinked
  <2>3. ASSUME NEW q \in Procs, InGame(q), lock[q] = lock[p] PROVE lock[q] \in asked
    BY <1>2, <2>3 DEF InUse, Uses, VeryOld
  <2>4. Types'
    BY <1>2, <2>2 DEF Types, Points, Named, HasLock, ByName, Locknum
  <2>5. PermHeld' BY <1>2, <2>1 DEF Types, PermHeld
  <2>6. Single' BY <1>2, <2>3 DEF Types, Single, InGame
  <2>7. InUse'
    BY <1>2, <2>2, <2>3 DEF Types, HasLock, Named, InUse, Uses, InGame
  <2> QED BY <2>4, <2>5, <2>6, <2>7
<1>3. CASE NextLetter(p)
  <2> USE DEF NextLetter, who, scores, history
  <2>1. CASE lock[p] < Locknum(p)
    <3>1. lock[p] \in 1 .. maxplayers /\ maxplayers \in Nat /\ 1 .. maxplayers \subseteq Locks
          /\ Locknum(p) = maxplayers
      BY <1>3, LockNames DEF Types, ByName, Locknum
    <3>2. lock' = [lock EXCEPT ![p] = lock[p] + 1] /\ lock[p] + 1 \in 1 .. maxplayers
      BY <1>3, <2>1, <3>1
    <3>3. Types'
      BY <1>3, <2>1, <3>1, <3>2 DEF Types, Points, Named, HasLock, ByName, Locknum
    <3>4. PermHeld' BY <1>3, <2>1, <3>2 DEF Types, PermHeld
    <3>5. Single' BY <1>3, <2>1, <3>2 DEF Types, Single, InGame
    <3>6. InUse' BY <1>3, <2>1, <3>2 DEF Types, InUse, Uses, InGame
    <3> QED BY <3>3, <3>4, <3>5, <3>6
  <2>2. CASE ~(lock[p] < Locknum(p))
    BY <1>3, <2>2, Exiting DEF Stay, Types
  <2> QED BY <2>1, <2>2
<1>4. CASE Ask(p)
  <2> USE DEF Ask, To, UnlockFile, Free, who, scores, history
  <2>1. Types' BY <1>4 DEF Types, Points, Named, HasLock, ByName, Locknum
  <2>2. PermHeld' BY <1>4 DEF Types, PermHeld
  <2>3. Single' BY <1>4 DEF Types, Single, InGame
  <2>4. InUse' BY <1>4 DEF Types, InUse, Uses, InGame
  <2> QED BY <2>1, <2>2, <2>3, <2>4
<1> QED BY <1>1, <1>2, <1>3, <1>4

(* The answer to "There is already a game in progress under your name".    *)
LEMMA Answering ==
  ASSUME IInv, NEW p \in Procs, Answer(p)
  PROVE  IInv'
<1> USE DEF IInv
<1>1. lock[p] \in Locks /\ pc[p] = "prompt"
  BY DEF Answer, AnswerNo, AnswerYes, AnswerRecover, Types, HasLock, Named
<1>2. CASE Exit(p) /\ UNCHANGED <<file, linked, asked>>
  BY <1>2, Exiting DEF Stay, Types
<1>3. CASE Exit(p) /\ Unlink(lock[p]) /\ asked' = asked \cup {lock[p]}
  BY <1>1, <1>3, Exiting DEF Types, HasLock, Named
<1>4. CASE /\ Unlink(lock[p]) /\ To(p, "create") /\ asked' = asked \cup {lock[p]}
           /\ UNCHANGED <<perm, inGetlock, who, scores>>
  <2> USE DEF To, inGetlock, who, scores, history
  <2>1. /\ file' \in [Locks -> LockFile] /\ linked' \in [Procs -> BOOLEAN]
        /\ \A k \in Locks \ {lock[p]} : file'[k] = file[k]
        /\ \A q \in Procs : lock[q] # lock[p] => linked'[q] = linked[q]
    BY <1>1, <1>4, Unlinked
  <2>2. Types'
    BY <1>1, <1>4, <2>1 DEF Types, Points, Named, HasLock, ByName, Locknum
  <2>3. PermHeld' BY <1>1, <1>4 DEF Types, PermHeld
  <2>4. Single' BY <1>1, <1>4 DEF Types, Single, InGame
  <2>5. InUse'
    <3> SUFFICES ASSUME NEW q \in Procs, InGame(q)', lock'[q] \notin asked'
                 PROVE  Uses(q)'
      BY DEF InUse
    <3>1. q # p /\ InGame(q) /\ pc'[q] = pc[q] /\ lock'[q] = lock[q]
          /\ lock[q] \notin asked /\ lock[q] # lock[p]
      BY <1>1, <1>4 DEF InGame, Types
    <3>2. lock[q] \in Locks BY <3>1 DEF Types, InGame, HasLock, Named
    <3>3. file'[lock[q]] = file[lock[q]] /\ linked'[q] = linked[q]
      BY <2>1, <3>1, <3>2 DEF Types
    <3> QED BY <3>1, <3>3 DEF InUse, Uses
  <2> QED BY <2>2, <2>3, <2>4, <2>5
<1> QED BY <1>2, <1>3, <1>4 DEF Answer, AnswerNo, AnswerYes, AnswerRecover

(* The lock file is made, "perm" dropped, and the process id written.      *)
LEMMA Creating ==
  ASSUME IInv, NEW p \in Procs, Create(p) \/ DropPerm(p) \/ WritePid(p)
  PROVE  IInv'
<1> USE DEF IInv, To, who, scores, history
<1>1. lock[p] \in Locks
  BY DEF Create, DropPerm, WritePid, Types, HasLock, Named
<1>2. CASE Create(p)
  <2> USE DEF Create
  <2>1. ASSUME NEW q \in Procs, q # p, InGame(q), lock[q] = lock[p] PROVE lock[q] \in asked
    BY <1>2, <2>1 DEF Single
  <2>2. ASSUME NEW q \in Procs, q # p, pc[q] = "create", lock[q] = lock[p]
        PROVE lock[q] \in asked
    BY <1>2, <2>2 DEF PermHeld
  <2>3. Types'
    <3>1. file' \in [Locks -> LockFile] /\ linked' \in [Procs -> BOOLEAN]
      BY <1>2, Files DEF Types
    <3> QED BY <1>1, <1>2, <3>1 DEF Types, Points, Named, HasLock, ByName, Locknum
  <2>4. PermHeld' BY <1>2 DEF Types, PermHeld
  <2>5. Single' BY <1>2, <2>1, <2>2 DEF Types, Single, InGame
  <2>6. InUse'
    <3> SUFFICES ASSUME NEW q \in Procs, InGame(q)', lock'[q] \notin asked'
                 PROVE  Uses(q)'
      BY DEF InUse
    <3>1. CASE q = p
      BY <1>1, <1>2, <3>1, Files DEF Types, Uses
    <3>2. CASE q # p
      <4>1. InGame(q) /\ pc'[q] = pc[q] /\ lock'[q] = lock[q]
            /\ lock[q] \notin asked /\ lock[q] # lock[p]
        BY <1>2, <2>1, <3>2 DEF InGame, Types
      <4>2. lock[q] \in Locks BY <4>1 DEF Types, InGame, HasLock, Named
      <4>3. file'[lock[q]] = file[lock[q]] /\ linked'[q] = linked[q]
        BY <1>2, <3>2, <4>1, <4>2 DEF Types
      <4> QED BY <4>1, <4>3 DEF InUse, Uses
    <3> QED BY <3>1, <3>2
  <2> QED BY <2>3, <2>4, <2>5, <2>6
<1>3. CASE DropPerm(p)
  <2> USE DEF DropPerm, UnlockFile, Free
  <2>1. Types' BY <1>1, <1>3 DEF Types, Points, Named, HasLock, ByName, Locknum
  <2>2. PermHeld' BY <1>3 DEF Types, PermHeld
  <2>3. Single' BY <1>3 DEF Types, Single, InGame
  <2>4. InUse' BY <1>3 DEF Types, InUse, Uses, InGame
  <2> QED BY <2>1, <2>2, <2>3, <2>4
<1>4. CASE WritePid(p)
  <2> USE DEF WritePid
  <2>1. ASSUME NEW q \in Procs, q # p, InGame(q), lock[q] = lock[p] PROVE lock[q] \in asked
    BY <1>4, <2>1 DEF Single, InGame
  <2>2. file[lock[p]] \in LockFile BY <1>1 DEF Types
  <2>3. Types'
    <3>1. linked' \in [Procs -> BOOLEAN] /\ pc' \in [Procs -> Points]
      BY <1>4 DEF Types, Points
    <3>2. file' \in [Locks -> LockFile]
      BY <1>1, <1>4, <2>2, Files DEF Types
    <3> QED BY <1>1, <1>4, <3>1, <3>2 DEF Types, Named, HasLock, ByName, Locknum
  <2>4. PermHeld' BY <1>4 DEF Types, PermHeld
  <2>5. Single' BY <1>4 DEF Types, Single, InGame
  <2>6. InUse'
    <3> SUFFICES ASSUME NEW q \in Procs, InGame(q)', lock'[q] \notin asked'
                 PROVE  Uses(q)'
      BY DEF InUse
    <3>1. InGame(q) /\ lock[q] \notin asked /\ lock'[q] = lock[q] /\ lock[q] \in Locks
      BY <1>4 DEF InGame, Types, HasLock, Named
    <3>2. Uses(q) BY <3>1 DEF InUse
    <3>3. CASE q = p
      <4>1. linked[p] /\ pc'[p] \notin {"created", "writepid"}
        BY <1>4, <3>2, <3>3 DEF Uses, Types
      <4>2. PICK f \in LockFile : f = file[lock[p]] BY <2>2
      <4>3. file'[lock[p]] = [f EXCEPT !.pid = p] BY <1>1, <1>4, <4>1, <4>2 DEF Types
      <4>4. /\ file'[lock[p]].pid = p /\ file'[lock[p]].there = f.there
            /\ file'[lock[p]].old = f.old
        BY <4>3, WithPid
      <4>5. file'[lock'[p]] = file'[lock[p]] BY <3>1, <3>3
      <4> HIDE DEF WritePid, To
      <4> QED BY <3>2, <3>3, <4>1, <4>2, <4>4, <4>5 DEF Uses
    <3>4. CASE q # p
      <4>1. lock[q] # lock[p] BY <2>1, <3>1, <3>4
      <4>2. file'[lock[q]] = file[lock[q]] /\ linked'[q] = linked[q] /\ pc'[q] = pc[q]
        BY <1>4, <3>1, <3>4, <4>1 DEF Types
      <4> QED BY <3>1, <3>2, <4>2 DEF Uses
    <3> QED BY <3>3, <3>4
  <2> QED BY <2>3, <2>4, <2>5, <2>6
<1> QED BY <1>2, <1>3, <1>4

(* The hero gets another name: with a name lock, that is given up first.   *)
LEMMA Renaming ==
  ASSUME IInv, NEW p \in Procs, Rename(p)
  PROVE  IInv'
<1> USE DEF IInv, Rename, To, Stay, scores, history
<1>1. lock[p] \in Locks /\ InGame(p) BY DEF Types, HasLock, Named, InGame
<1>2. PICK n \in Names : name' = [name EXCEPT ![p] = n] OBVIOUS
<1>3. /\ file' \in [Locks -> LockFile] /\ linked' \in [Procs -> BOOLEAN]
      /\ \A k \in Locks \ {lock[p]} : file'[k] = file[k]
      /\ \A q \in Procs : lock[q] # lock[p] => linked'[q] = linked[q]
  BY <1>1, Unlinked DEF Types
<1>4. Types' BY <1>1, <1>2, <1>3 DEF Types, Points, Named, HasLock, ByName, Locknum
<1>5. PermHeld' BY DEF Types, PermHeld
<1>6. Single' BY DEF Types, Single, InGame
<1>7. InUse'
  <2> SUFFICES ASSUME NEW q \in Procs, InGame(q)', lock'[q] \notin asked'
               PROVE  Uses(q)'
    BY DEF InUse
  <2>1. q # p /\ InGame(q) /\ pc'[q] = pc[q] /\ lock'[q] = lock[q] /\ lock[q] \notin asked
    BY DEF InGame, Types
  <2>2. lock[q] \in Locks BY <2>1 DEF Types, InGame, HasLock, Named
  <2>3. lock[q] # lock[p] BY <1>1, <2>1 DEF Single
  <2>4. file'[lock[q]] = file[lock[q]] /\ linked'[q] = linked[q] BY <1>3, <2>2, <2>3
  <2> QED BY <2>1, <2>4 DEF InUse, Uses
<1> QED BY <1>4, <1>5, <1>6, <1>7

(* The game; a checkpoint writes the file of lock[p] anew.                 *)
LEMMA Playing ==
  ASSUME IInv, NEW p \in Procs, Play(p) \/ CheckPid(p) \/ Die(p) \/ Checkpoint(p) \/ Leave(p)
  PROVE  IInv'
<1> USE DEF IInv
<1>1. CASE Play(p) \/ CheckPid(p) \/ Die(p)
  <2>1. /\ \E point \in {"play", "rewrite", "over"} : pc' = [pc EXCEPT ![p] = point]
        /\ pc[p] \in {"setup", "play"}
        /\ UNCHANGED <<maxplayers, perm, file, wizard, name, lock, linked, asked>>
    BY <1>1 DEF Play, CheckPid, Die, To, files, inGetlock, who
  <2>2. Types' BY <2>1 DEF Types, Points, Named, HasLock, ByName, Locknum
  <2>3. PermHeld' BY <2>1 DEF Types, PermHeld
  <2>4. Single' BY <2>1 DEF Types, Single, InGame
  <2>5. InUse' BY <2>1 DEF Types, InUse, Uses, InGame
  <2> QED BY <2>2, <2>3, <2>4, <2>5
<1>2. CASE Checkpoint(p)
  <2> DEFINE f == [Empty EXCEPT !.pid = p, !.ckpt = TRUE]
  <2>1. f \in LockFile /\ f.there /\ ~f.old /\ f.pid = p BY Files
  <2>2. /\ pc[p] = "rewrite" /\ pc' = [pc EXCEPT ![p] = "play"]
        /\ file' = [file EXCEPT ![lock[p]] = f]
        /\ UNCHANGED <<maxplayers, perm, wizard, name, lock, linked, asked>>
    BY <1>2 DEF Checkpoint, To, inGetlock, who
  <2> HIDE DEF f
  <2>3. lock[p] \in Locks /\ InGame(p) BY <2>2 DEF Types, HasLock, Named, InGame
  <2>4. Types' BY <2>1, <2>2 DEF Types, Points, Named, HasLock, ByName, Locknum
  <2>5. PermHeld' BY <2>2 DEF Types, PermHeld
  <2>6. Single' BY <2>2 DEF Types, Single, InGame
  <2>7. InUse'
    <3> SUFFICES ASSUME NEW q \in Procs, InGame(q)', lock'[q] \notin asked'
                 PROVE  Uses(q)'
      BY DEF InUse
    <3>1. InGame(q) /\ lock'[q] = lock[q] /\ lock[q] \notin asked /\ lock[q] \in Locks
      BY <2>2 DEF InGame, Types, HasLock, Named
    <3>2. CASE q = p BY <2>1, <2>2, <2>3, <3>1, <3>2 DEF Uses, Types
    <3>3. CASE q # p
      <4>1. lock[q] # lock[p] BY <2>3, <3>1, <3>3 DEF Single
      <4>2. file'[lock[q]] = file[lock[q]] /\ linked'[q] = linked[q] /\ pc'[q] = pc[q]
        BY <2>2, <3>1, <3>3, <4>1 DEF Types
      <4> QED BY <3>1, <4>2 DEF InUse, Uses
    <3> QED BY <3>2, <3>3
  <2> QED BY <2>4, <2>5, <2>6, <2>7
<1>3. CASE Leave(p)
  <2>1. pc[p] \in HasLock /\ InGame(p) BY <1>3 DEF Leave, HasLock, Named, InGame
  <2> QED BY <1>3, <2>1, Exiting DEF Leave, Types
<1> QED BY <1>1, <1>2, <1>3

(* The end of a game, topten(), a crash.                                   *)
LEMMA Ending ==
  ASSUME IInv, NEW p \in Procs, ClearLocks(p) \/ Topten(p) \/ Crash(p)
  PROVE  IInv'
<1> USE DEF IInv
<1>1. CASE ClearLocks(p)
  <2>1. pc[p] = "over" /\ InGame(p) /\ pc[p] \in HasLock /\ lock[p] \in Locks
    BY <1>1 DEF ClearLocks, InGame, HasLock, Named, Types
  <2>2. CASE wizard[p] BY <1>1, <2>1, <2>2, Exiting DEF ClearLocks, Types
  <2>3. CASE ~wizard[p]
    <3>1. /\ pc' = [pc EXCEPT ![p] = "score"] /\ lock' = [lock EXCEPT ![p] = NoOne]
          /\ Unlink(lock[p]) /\ UNCHANGED <<maxplayers, perm, wizard, name, asked>>
      BY <1>1, <2>3 DEF ClearLocks, To, who
    <3>2. /\ file' \in [Locks -> LockFile] /\ linked' \in [Procs -> BOOLEAN]
          /\ \A k \in Locks \ {lock[p]} : file'[k] = file[k]
          /\ \A q \in Procs : lock[q] # lock[p] => linked'[q] = linked[q]
      BY <2>1, <3>1, Unlinked
    <3>3. Types' BY <3>1, <3>2 DEF Types, Points, Named, HasLock, ByName, Locknum
    <3>4. PermHeld' BY <3>1 DEF Types, PermHeld
    <3>5. Single' BY <3>1 DEF Types, Single, InGame
    <3>6. InUse'
      <4> SUFFICES ASSUME NEW q \in Procs, InGame(q)', lock'[q] \notin asked'
                   PROVE  Uses(q)'
        BY DEF InUse
      <4>1. q # p /\ InGame(q) /\ pc'[q] = pc[q] /\ lock'[q] = lock[q] /\ lock[q] \notin asked
        BY <3>1 DEF InGame, Types
      <4>2. lock[q] \in Locks BY <4>1 DEF Types, InGame, HasLock, Named
      <4>3. lock[q] # lock[p] BY <2>1, <4>1 DEF Single
      <4>4. file'[lock[q]] = file[lock[q]] /\ linked'[q] = linked[q] BY <3>2, <4>2, <4>3
      <4> QED BY <4>1, <4>4 DEF InUse, Uses
    <3> QED BY <3>3, <3>4, <3>5, <3>6
  <2> QED BY <2>2, <2>3
<1>2. CASE Exit(p) /\ UNCHANGED <<file, linked, asked>>
  BY <1>2, Exiting DEF Stay, Types
<1>3. CASE /\ \E point \in {"score", "read", "reopen", "scored", "truncated"} : pc' = [pc EXCEPT ![p] = point]
           /\ pc[p] \in {"score", "read", "reopen"}
           /\ UNCHANGED <<maxplayers, perm, file, wizard, name, lock, linked, asked>>
  <2>1. Types' BY <1>3 DEF Types, Points, Named, HasLock, ByName, Locknum
  <2>2. PermHeld' BY <1>3 DEF Types, PermHeld
  <2>3. Single' BY <1>3 DEF Types, Single, InGame
  <2>4. InUse' BY <1>3 DEF Types, InUse, Uses, InGame
  <2> QED BY <2>1, <2>2, <2>3, <2>4
<1>4. CASE WaitForRecord(p) /\ tries[p] > 0
  <2>1. UNCHANGED pc /\ pc' = [pc EXCEPT ![p] = "score"] /\ pc[p] = "score"
    BY <1>4 DEF WaitForRecord, Types
  <2> QED BY <1>3, <1>4, <2>1 DEF WaitForRecord, who, scores, history
<1>5. CASE LockRecord(p) BY <1>3, <1>5 DEF LockRecord, To, who
<1>6. CASE ReadRecord(p)
  <2>1. \E point \in {"reopen", "scored"} : pc' = [pc EXCEPT ![p] = point]
    BY <1>6 DEF ReadRecord, To
  <2> QED BY <1>3, <1>6, <2>1 DEF ReadRecord, inGetlock, who
<1>7. CASE Truncate(p) BY <1>3, <1>7 DEF Truncate, To, inGetlock, who
<1> QED BY <1>1, <1>2, <1>4, <1>5, <1>6, <1>7
      DEF Topten, WaitForRecord, WriteEntries, NotListed, Crash

(* Three days pass over a lock file that no game uses.                     *)
LEMMA Aging ==
  ASSUME IInv, ~Idle, NEW l \in Locks, Age(l)
  PROVE  IInv'
<1> USE DEF IInv
<1>1. PICK f \in LockFile : f = file[l] BY DEF Types
<1>2. [f EXCEPT !.old = TRUE] \in LockFile BY Files
<1>3. /\ file' = [file EXCEPT ![l] = [f EXCEPT !.old = TRUE]]
      /\ \A p \in Procs : InGame(p) => lock[p] # l
      /\ UNCHANGED <<maxplayers, perm, pc, wizard, name, lock, linked, asked>>
  BY <1>1 DEF Age, Types, inGetlock, who
<1>4. file' \in [Locks -> LockFile] BY <1>2, <1>3 DEF Types
<1>5. Types' BY <1>3, <1>4 DEF Types, ByName, Locknum
<1>6. PermHeld' BY <1>3 DEF PermHeld
<1>7. Single' BY <1>3 DEF Single, InGame
<1>8. InUse'
  <2> SUFFICES ASSUME NEW q \in Procs, InGame(q)', lock'[q] \notin asked' PROVE Uses(q)'
    BY DEF InUse
  <2>1. InGame(q) /\ lock[q] \notin asked /\ lock[q] # l /\ lock[q] \in Locks
    BY <1>3 DEF InGame, Types, HasLock, Named
  <2>2. file'[lock[q]] = file[lock[q]] BY <1>3, <2>1 DEF Types
  <2> QED BY <1>3, <2>1, <2>2 DEF InUse, Uses
<1> QED BY <1>5, <1>6, <1>7, <1>8

LEMMA Waiting == ASSUME IInv, UNCHANGED vars PROVE IInv'
<1>1. UNCHANGED <<maxplayers, perm, file, pc, wizard, name, lock, linked, asked>> BY DEF vars
<1>2. Types' BY <1>1 DEF IInv, Types, ByName, Locknum
<1>3. PermHeld' /\ Single' BY <1>1 DEF IInv, PermHeld, Single, InGame
<1>4. \A q \in Procs : Uses(q)' <=> Uses(q) BY <1>1 DEF Uses
<1>5. InUse' BY <1>1, <1>4 DEF IInv, InUse, InGame
<1> QED BY <1>2, <1>3, <1>5 DEF IInv

LEMMA Inductive == ASSUME IInv, ~Idle, [Next]_vars PROVE IInv'
<1>1. ASSUME NEW p \in Procs, Working(p) \/ Player(p) \/ Crash(p) PROVE IInv'
  BY <1>1, Entering, Looking, Answering, Creating, Renaming, Playing, Ending
     DEF Working, Player, Getlock
<1>2. ASSUME NEW l \in Locks, Age(l) PROVE IInv'
  BY <1>2, Aging
<1> QED BY <1>1, <1>2, Waiting DEF Next

(* A game keeps its lock file, whatever the number of processes and names: *)
(* nobody takes, empties or removes it unless a player has had an old game *)
(* of that name destroyed (getlock(), savestateinlock(), clearlocks()).    *)
THEOREM LockKept == Spec => []LockStays
<1>1. Init => (Idle \/ IInv) BY Start
<1>2. (Idle \/ IInv) /\ [Next]_vars => (Idle \/ IInv)' BY Inductive
<1>3. (Idle \/ IInv) => LockStays
  <2> SUFFICES ASSUME IInv, NEW p \in Procs,
                      pc[p] \in {"setup", "play", "rewrite", "over"}, lock[p] \notin asked
               PROVE  Mine(p)
    BY DEF LockStays
  <2>1. Uses(p) /\ pc[p] \notin {"created", "writepid"} BY DEF IInv, InUse, InGame
  <2> QED BY <2>1 DEF Uses, Mine
<1> QED BY <1>1, <1>2, <1>3, PTL DEF Spec

----------------------------------------------------------------------------
(* File locks are never nested: between lock_file() and the unlock_file()  *)
(* that goes with it "nesting" is at most 1, elsewhere at most 0.          *)
Unlocked == {"new", "lock", "prompt", "writepid", "setup", "play", "rewrite", "over",
             "score", "gone"}
Nesting ==
  /\ pc \in [Procs -> Points] /\ nesting \in [Procs -> Int]
  /\ \A p \in Procs : nesting[p] <= IF pc[p] \in Unlocked THEN 0 ELSE 1

LEMMA NestingChanges ==
  ASSUME Nesting, NEW p \in Procs, NEW point \in Points, NEW n \in Int,
         pc' = [pc EXCEPT ![p] = point], nesting' = [nesting EXCEPT ![p] = n],
         n <= IF point \in Unlocked THEN 0 ELSE 1
  PROVE  Nesting'
BY DEF Nesting

LEMMA NestingOfExit == ASSUME Nesting, NEW p \in Procs, Exit(p) PROVE Nesting'
<1>1. pc' = [pc EXCEPT ![p] = "gone"] /\ nesting' = [nesting EXCEPT ![p] = 0]
  BY DEF Exit, To
<1>2. "gone" \in Points /\ "gone" \in Unlocked /\ 0 \in Int
  BY DEF Points, Unlocked
<1> QED
  BY <1>1, <1>2 DEF Nesting

LEMMA NestingOfWorking == ASSUME Nesting, NEW p \in Procs, Working(p) PROVE Nesting'
<1> USE DEF To, Points, Unlocked
<1>1. /\ pc[p] \in Points /\ nesting[p] \in Int /\ nesting[p] - 1 \in Int /\ nesting[p] + 1 \in Int
      /\ nesting[p] <= IF pc[p] \in Unlocked THEN 0 ELSE 1
      /\ pc = [pc EXCEPT ![p] = pc[p]] /\ nesting = [nesting EXCEPT ![p] = nesting[p]]
  BY DEF Nesting
<1>2. ASSUME Exit(p) PROVE Nesting'
  BY <1>2, NestingOfExit
<1>3. CASE LockPerm(p) \/ LockRecord(p)
  BY <1>1, <1>3, NestingChanges DEF LockPerm, LockRecord
<1>4. CASE Ask(p) \/ DropPerm(p)
  BY <1>1, <1>4, NestingChanges DEF Ask, DropPerm, UnlockFile
<1>5. CASE Found(p) \/ Create(p) \/ Checkpoint(p)
  BY <1>1, <1>5, NestingChanges DEF Found, Create, Checkpoint, inGetlock
<1>6. CASE WritePid(p)
  BY <1>1, <1>6, NestingChanges DEF WritePid
<1>7. CASE WaitForPerm(p) \/ NextLetter(p) \/ WaitForRecord(p)
  BY <1>2, <1>7 DEF WaitForPerm, NextLetter, WaitForRecord, Nesting
<1>8. CASE ClearLocks(p)
  BY <1>1, <1>2, <1>8, NestingChanges DEF ClearLocks
<1>9. CASE ReadRecord(p) \/ Truncate(p)
  BY <1>1, <1>9, NestingChanges DEF ReadRecord, Truncate, inGetlock
<1>10. CASE WriteEntries(p) \/ NotListed(p)
  BY <1>2, <1>10 DEF WriteEntries, NotListed
<1> QED
  BY <1>3, <1>4, <1>5, <1>6, <1>7, <1>8, <1>9, <1>10 DEF Working, Getlock, Topten

LEMMA NestingOfPlayer == ASSUME Nesting, NEW p \in Procs, Player(p) PROVE Nesting'
<1> USE DEF To, Points, Unlocked
<1>1. /\ pc[p] \in Points /\ nesting[p] \in Int
      /\ nesting[p] <= IF pc[p] \in Unlocked THEN 0 ELSE 1
      /\ pc = [pc EXCEPT ![p] = pc[p]] /\ nesting = [nesting EXCEPT ![p] = nesting[p]]
  BY DEF Nesting
<1>2. ASSUME Exit(p) PROVE Nesting'
  BY <1>2, NestingOfExit
<1>3. CASE Begin(p) \/ Rename(p)
  BY <1>1, <1>3, NestingChanges DEF Begin, Rename
<1>4. CASE Answer(p)
  BY <1>1, <1>2, <1>4, NestingChanges DEF Answer, AnswerNo, AnswerYes, AnswerRecover, inGetlock
<1>5. CASE Play(p) \/ CheckPid(p) \/ Die(p)
  BY <1>1, <1>5, NestingChanges DEF Play, CheckPid, Die, inGetlock
<1>6. CASE Leave(p)
  BY <1>2, <1>6 DEF Leave
<1> QED
  BY <1>3, <1>4, <1>5, <1>6 DEF Player

LEMMA NestingAtFirst == Init => Nesting
BY DEF Init, Nesting, Points, Unlocked

LEMMA NestingKept == Nesting /\ [Next]_vars => Nesting'
<1> SUFFICES ASSUME Nesting, [Next]_vars PROVE Nesting'
  OBVIOUS
<1>1. ASSUME NEW p \in Procs, Crash(p) PROVE Nesting'
  BY <1>1, NestingOfExit DEF Crash
<1>2. ASSUME NEW l \in Locks, Age(l) PROVE Nesting'
  BY <1>2 DEF Age, Nesting, inGetlock
<1>3. CASE UNCHANGED vars
  BY <1>3 DEF vars, Nesting
<1> QED
  BY <1>1, <1>2, <1>3, NestingOfWorking, NestingOfPlayer DEF Next

(* lock_file() is never called while its process has a file lock already,  *)
(* for any number of processes, whatever players answer.                   *)
THEOREM LocksNeverNested == Spec => []NeverNested
<1>1. Nesting => NeverNested
  BY DEF Nesting, NeverNested, Unlocked
<1> QED
  BY <1>1, NestingAtFirst, NestingKept, PTL DEF Spec

----------------------------------------------------------------------------
(* Types.  Names, lock files and places:                                   *)
LEMMA TypesOfExit ==
  ASSUME Types, NEW p \in Procs, Exit(p), Stay \/ (pc[p] \in HasLock /\ Unlink(lock[p])),
         asked \subseteq asked', asked' \subseteq Locks
  PROVE  Types'
<1>1. /\ pc' = [pc EXCEPT ![p] = "gone"] /\ lock' = [lock EXCEPT ![p] = NoOne]
      /\ maxplayers' = maxplayers /\ perm' = IF perm = p THEN NoOne ELSE perm
      /\ wizard' = [wizard EXCEPT ![p] = FALSE] /\ name' = [name EXCEPT ![p] = NoOne]
  BY DEF Exit, To, Free
<1>2. file' \in [Locks -> LockFile] /\ linked' \in [Procs -> BOOLEAN]
  <2>1. CASE Stay BY <2>1 DEF Stay, Types
  <2>2. CASE Unlink(lock[p]) BY <2>2, Files DEF Unlink, Types
  <2> QED BY <2>1, <2>2
<1> QED BY <1>1, <1>2 DEF Types, Points, Named, HasLock, ByName, Locknum

LEMMA TypesOfGetlock == ASSUME Types, NEW p \in Procs, Getlock(p) PROVE Types'
<1> USE DEF To, inGetlock, who, scores, history
<1>1. CASE LockPerm(p)
  <2>1. name[p] \in Names /\ name[p] \in Locks BY <1>1, LockNames DEF LockPerm, Types, Named
  <2>2. ~ByName(p) => 1 \in 1 .. maxplayers /\ 1 \in Locks
    BY LockNames DEF Types, ByName, Locknum
  <2>3. lock' \in [Procs -> Locks \cup {NoOne}] /\ lock'[p] \in Locks
        /\ (~ByName(p) => lock'[p] = 1)
    BY <1>1, <2>1, <2>2 DEF LockPerm, Types
  <2> QED
    BY <1>1, <2>1, <2>2, <2>3 DEF LockPerm, Types, Points, Named, HasLock, ByName, Locknum
<1>2. CASE WaitForPerm(p)
  <2>1. CASE tries[p] > 0
    BY <1>2, <2>1 DEF WaitForPerm, Types, ByName, Locknum
  <2>2. CASE ~(tries[p] > 0)
    BY <1>2, <2>2, TypesOfExit DEF WaitForPerm, Stay, Types
  <2> QED BY <2>1, <2>2
<1>3. CASE Found(p)
  <2>1. lock[p] \in Locks BY <1>3 DEF Found, Types, HasLock, Named
  <2>2. file' \in [Locks -> LockFile] /\ linked' \in [Procs -> BOOLEAN]
    BY <1>3, <2>1, Files DEF Found, Unlink, Types
  <2> QED BY <1>3, <2>2 DEF Found, Types, Points, Named, HasLock, ByName, Locknum
<1>4. CASE NextLetter(p)
  <2>1. CASE lock[p] < Locknum(p)
    <3>1. lock[p] \in 1 .. maxplayers /\ maxplayers \in Nat /\ 1 .. maxplayers \subseteq Locks
          /\ Locknum(p) = maxplayers
      BY <1>4, LockNames DEF NextLetter, Types, ByName, Locknum
    <3>2. lock' = [lock EXCEPT ![p] = lock[p] + 1] /\ lock[p] + 1 \in 1 .. maxplayers
      BY <1>4, <2>1, <3>1 DEF NextLetter
    <3> QED
      BY <1>4, <2>1, <3>1, <3>2 DEF NextLetter, Types, Points, Named, HasLock, ByName, Locknum
  <2>2. CASE ~(lock[p] < Locknum(p))
    BY <1>4, <2>2, TypesOfExit DEF NextLetter, Stay, Types
  <2> QED BY <2>1, <2>2
<1>5. CASE Ask(p) \/ DropPerm(p)
  <2>1. lock[p] \in Locks
    BY <1>5 DEF Ask, DropPerm, Types, HasLock, Named
  <2> QED
    BY <1>5, <2>1 DEF Ask, DropPerm, UnlockFile, Free, Types, Points, Named, HasLock, ByName, Locknum
<1>6. CASE Create(p)
  <2>1. lock[p] \in Locks BY <1>6 DEF Create, Types, HasLock, Named
  <2>2. file' \in [Locks -> LockFile] /\ linked' \in [Procs -> BOOLEAN]
    BY <1>6, Files DEF Create, Types
  <2> QED BY <1>6, <2>1, <2>2 DEF Create, Types, Points, Named, HasLock, ByName, Locknum
<1>7. CASE WritePid(p)
  <2>1. lock[p] \in Locks /\ file[lock[p]] \in LockFile
    BY <1>7 DEF WritePid, Types, HasLock, Named
  <2>2. linked' \in [Procs -> BOOLEAN] /\ pc' \in [Procs -> Points]
    BY <1>7 DEF WritePid, Types, Points
  <2>3. file' \in [Locks -> LockFile]
    BY <1>7, <2>1, Files DEF WritePid, Types
  <2> QED BY <1>7, <2>1, <2>2, <2>3 DEF WritePid, Types, Named, HasLock, ByName, Locknum
<1> QED BY <1>1, <1>2, <1>3, <1>4, <1>5, <1>6, <1>7 DEF Getlock

LEMMA TypesOfAnswer == ASSUME Types, NEW p \in Procs, Answer(p) PROVE Types'
<1>1. lock[p] \in Locks /\ pc[p] = "prompt" /\ pc[p] \in HasLock
  BY DEF Answer, AnswerNo, AnswerYes, AnswerRecover, Types, HasLock, Named
<1>2. CASE Exit(p) /\ UNCHANGED <<file, linked, asked>>
  BY <1>2, TypesOfExit DEF Stay, Types
<1>3. CASE Exit(p) /\ Unlink(lock[p]) /\ asked' = asked \cup {lock[p]}
  BY <1>1, <1>3, TypesOfExit DEF Types
<1>4. CASE /\ Unlink(lock[p]) /\ To(p, "create") /\ asked' = asked \cup {lock[p]}
           /\ UNCHANGED <<perm, inGetlock, who, scores>>
  <2>1. file' \in [Locks -> LockFile] /\ linked' \in [Procs -> BOOLEAN]
    BY <1>1, <1>4, Files DEF Unlink, Types
  <2> QED
    BY <1>1, <1>4, <2>1 DEF To, inGetlock, who, Types, Points, Named, HasLock, ByName, Locknum
<1> QED BY <1>2, <1>3, <1>4 DEF Answer, AnswerNo, AnswerYes, AnswerRecover

(* A step from one place to another in a game or in topten().              *)
LEMMA TypesOfStep ==
  ASSUME Types, NEW p \in Procs,
         NEW point \in {"play", "rewrite", "over", "score", "read", "reopen", "scored", "truncated"},
         pc' = [pc EXCEPT ![p] = point],
         pc[p] \in HasLock \/ point \notin Named, lock[p] \in Locks \/ point \notin Named,
         UNCHANGED <<maxplayers, perm, file, wizard, name, lock, linked, asked>>
  PROVE  Types'
BY DEF Types, Points, Named, HasLock, ByName, Locknum

LEMMA TypesOfGame ==
  ASSUME Types, NEW p \in Procs,
         \/ Begin(p) \/ Rename(p) \/ Play(p) \/ CheckPid(p) \/ Die(p) \/ Leave(p)
         \/ Checkpoint(p) \/ ClearLocks(p)
  PROVE  Types'
<1> USE DEF To, who
<1>0. pc[p] \in {"setup", "play", "rewrite", "over"} => lock[p] \in Locks /\ pc[p] \in HasLock
  BY DEF Types, HasLock, Named
<1>1. CASE Begin(p)
  <2>1. PICK n \in Called, wiz \in BOOLEAN :
          name' = [name EXCEPT ![p] = n] /\ wizard' = [wizard EXCEPT ![p] = wiz]
    BY <1>1 DEF Begin
  <2>2. n \in Names BY LockingAssumption
  <2> QED
    BY <1>1, <2>1, <2>2 DEF Begin, files, Types, Points, Named, HasLock, ByName, Locknum
<1>2. CASE Rename(p)
  <2>1. PICK n \in Names : name' = [name EXCEPT ![p] = n] BY <1>2 DEF Rename
  <2>2. file' \in [Locks -> LockFile] /\ linked' \in [Procs -> BOOLEAN]
    BY <1>0, <1>2, Unlinked DEF Rename, Stay, Types
  <2> QED BY <1>2, <2>1, <2>2 DEF Rename, Types, Points, Named, HasLock, ByName, Locknum
<1>3. CASE Play(p) \/ CheckPid(p) \/ Die(p)
  <2>1. /\ \E point \in {"play", "rewrite", "over"} : pc' = [pc EXCEPT ![p] = point]
        /\ pc[p] \in {"setup", "play"}
        /\ UNCHANGED <<maxplayers, perm, file, wizard, name, lock, linked, asked>>
    BY <1>3 DEF Play, CheckPid, Die, files, inGetlock
  <2> QED BY <1>0, <2>1, TypesOfStep
<1>4. CASE Leave(p)
  BY <1>0, <1>4, TypesOfExit DEF Leave, Types
<1>5. CASE Checkpoint(p)
  <2>1. file' \in [Locks -> LockFile]
    BY <1>0, <1>5, Files DEF Checkpoint, Types
  <2> QED
    BY <1>0, <1>5, <2>1 DEF Checkpoint, inGetlock, Types, Points, Named, HasLock, ByName, Locknum
<1>6. CASE ClearLocks(p)
  <2>1. CASE wizard[p] BY <1>0, <1>6, <2>1, TypesOfExit DEF ClearLocks, Types
  <2>2. CASE ~wizard[p]
    <3>1. file' \in [Locks -> LockFile] /\ linked' \in [Procs -> BOOLEAN]
      BY <1>0, <1>6, Files DEF ClearLocks, Unlink, Types
    <3> QED
      BY <1>6, <2>2, <3>1 DEF ClearLocks, Types, Points, Named, HasLock, ByName, Locknum
  <2> QED BY <2>1, <2>2
<1> QED BY <1>1, <1>2, <1>3, <1>4, <1>5, <1>6

LEMMA TypesOfTopten == ASSUME Types, NEW p \in Procs, Topten(p) \/ Crash(p) PROVE Types'
<1>1. CASE Exit(p) /\ UNCHANGED <<file, linked, asked>>
  BY <1>1, TypesOfExit DEF Stay, Types
<1>2. CASE /\ \E point \in {"score", "read", "reopen", "scored", "truncated"} :
                 pc' = [pc EXCEPT ![p] = point]
           /\ UNCHANGED <<maxplayers, perm, file, wizard, name, lock, linked, asked>>
  BY <1>2, TypesOfStep DEF Named
<1>3. CASE WaitForRecord(p) /\ tries[p] > 0
  <2>1. pc' = [pc EXCEPT ![p] = "score"] BY <1>3 DEF WaitForRecord, Types
  <2> QED BY <1>2, <1>3, <2>1 DEF WaitForRecord, who
<1>4. CASE LockRecord(p) BY <1>2, <1>4 DEF LockRecord, To, who
<1>5. CASE ReadRecord(p)
  <2>1. \E point \in {"reopen", "scored"} : pc' = [pc EXCEPT ![p] = point]
    BY <1>5 DEF ReadRecord, To
  <2> QED BY <1>2, <1>5, <2>1 DEF ReadRecord, inGetlock, who
<1>6. CASE Truncate(p) BY <1>2, <1>6 DEF Truncate, To, inGetlock, who
<1> QED BY <1>1, <1>3, <1>4, <1>5, <1>6
      DEF Topten, WaitForRecord, WriteEntries, NotListed, Crash

LEMMA TypesKept == ASSUME Types, [Next]_vars PROVE Types'
<1>1. ASSUME NEW p \in Procs, Working(p) \/ Player(p) \/ Crash(p) PROVE Types'
  BY <1>1, TypesOfGetlock, TypesOfAnswer, TypesOfGame, TypesOfTopten DEF Working, Player
<1>2. ASSUME NEW l \in Locks, Age(l) PROVE Types'
  <2>1. file' \in [Locks -> LockFile]
    <3>1. PICK f \in LockFile : f = file[l] BY DEF Types
    <3>2. [f EXCEPT !.old = TRUE] \in LockFile BY Files
    <3> QED BY <1>2, <3>1, <3>2 DEF Age, Types
  <2> QED BY <1>2, <2>1 DEF Age, inGetlock, who, Types, ByName, Locknum
<1>3. CASE UNCHANGED vars BY <1>3 DEF vars, Types, ByName, Locknum
<1> QED BY <1>1, <1>2, <1>3 DEF Next

LEMMA TypesAtFirst == ASSUME Init PROVE Types
BY Start DEF IInv

(* Scores: what is listed is always a name with points.                    *)
Result == [who : Names \cup {NoOne}, points : Nat \ {0}]
Scored ==
  /\ record \in Seq(Result) /\ list \in [Procs -> Seq(Result)]
  /\ name \in [Procs -> Names \cup {NoOne}]

(* A set of numbers that is not empty has a least one.                     *)
LEMMA LeastNatural ==
  ASSUME NEW T \in SUBSET Nat, T # {}
  PROVE  \E n \in T : \A m \in T : n <= m
<1>1. \E x \in T : \A y \in T : ~(<<y, x>> \in OpToRel(<, Nat))
  BY NatLessThanWellFounded, WFMin
<1>2. PICK x \in T : \A y \in T : ~(<<y, x>> \in OpToRel(<, Nat))
  BY <1>1
<1>3. \A y \in T : ~(y < x)
  BY <1>2 DEF OpToRel
<1> QED
  BY <1>3

LEMMA CountedTo ==
  ASSUME NEW N \in Nat, NEW T, 0 \in T, \A n \in 0 .. N - 1 : n \in T => n + 1 \in T
  PROVE  N \in T
<1> SUFFICES ASSUME N \notin T PROVE FALSE
  OBVIOUS
<1> DEFINE B == {k \in 0 .. N : k \notin T}
<1>1. B \in SUBSET Nat /\ B # {}
  OBVIOUS
<1>2. PICK b \in B : \A k \in B : b <= k
  BY <1>1, LeastNatural
<1>3. b # 0 /\ b - 1 \in 0 .. N - 1 /\ b - 1 \notin B
  BY <1>2
<1>4. b - 1 \in T /\ (b - 1) + 1 = b
  BY <1>3, <1>2
<1> QED
  BY <1>2, <1>3, <1>4

LEMMA EntryRead ==
  ASSUME NEW s, s.out \in Seq(Result), NEW t1 \in Result, NEW t0 \in Result
  PROVE  ReadEntry(s, t1, t0).out \in Seq(Result)
<1> DEFINE here == s.rank0 < 0 /\ t1.points < t0.points
           a == IF here THEN <<t0>> ELSE <<>>
<1>1. <<t0>> \in Seq(Result) /\ <<t1>> \in Seq(Result) /\ <<>> \in Seq(Result)
  BY AppendProperties, EmptySeq
<1>2. a \in Seq(Result) BY <1>1
<1> HIDE DEF a
<1>3. s.out \o a \in Seq(Result) BY <1>2, ConcatProperties
<1>4. \A b : b \in Seq(Result) => s.out \o a \o b \in Seq(Result) BY <1>3, ConcatProperties
<1>5. ReadEntry(s, t1, t0).out \in {s.out, s.out \o a \o <<>>, s.out \o a \o <<t1>>}
  BY DEF ReadEntry, a
<1> QED BY <1>1, <1>4, <1>5

(* The recursive function of ReadAll() has a value at every argument.      *)
LEMMA ReadAllUnfolds ==
  ASSUME NEW recs, NEW t0, Len(recs) \in Nat
  PROVE  \E f : /\ f[0] = Unread
                /\ \A n \in 0 .. Len(recs) - 1 : f[n + 1] = ReadEntry(f[n], recs[n + 1], t0)
                /\ ReadAll(recs, t0) = Placed(f[Len(recs)], t0)
<1> DEFINE N == Len(recs)
           Body(f, n) == IF n = 0 THEN Unread ELSE ReadEntry(f[n - 1], recs[n], t0)
           T == {k \in 0 .. N : \E f : f = [n \in 0 .. k |-> Body(f, n)]}
<1>1. 0 \in T
  <2> DEFINE f == [n \in 0 .. 0 |-> Unread]
  <2>1. f = [n \in 0 .. 0 |-> Body(f, n)]
    OBVIOUS
  <2> HIDE DEF f, Body
  <2> QED
    BY <2>1
<1>2. ASSUME NEW k \in 0 .. N - 1, k \in T PROVE k + 1 \in T
  <2>1. PICK f : f = [n \in 0 .. k |-> Body(f, n)]
    BY <1>2
  <2> DEFINE g == [n \in 0 .. k + 1 |-> IF n <= k THEN f[n] ELSE Body(f, k + 1)]
  <2>2. \A n \in 0 .. k + 1 : g[n] = Body(g, n)
    <3> TAKE n \in 0 .. k + 1
    <3>1. CASE n <= k
      <4>1. g[n] = f[n] /\ f[n] = Body(f, n)
        <5> HIDE DEF Body
        <5> QED
          BY <2>1, <3>1
      <4>2. n # 0 => f[n - 1] = g[n - 1]
        BY <3>1
      <4> QED
        BY <4>1, <4>2
    <3>2. CASE n = k + 1
      <4>1. g[n] = Body(f, k + 1) /\ f[n - 1] = g[n - 1]
        BY <3>2
      <4> QED
        BY <3>2, <4>1
    <3> QED
      BY <3>1, <3>2
  <2>3. g = [n \in 0 .. k + 1 |-> Body(g, n)]
    BY <2>2
  <2> HIDE DEF g, Body
  <2> QED
    BY <2>3
<1>3. \E f : f = [n \in 0 .. N |-> Body(f, n)]
  <2> HIDE DEF Body
  <2>1. \A n \in 0 .. N - 1 : n \in T => n + 1 \in T
    BY <1>2
  <2>2. N \in T
    <3> HIDE DEF T
    <3> QED
      BY <1>1, <2>1, CountedTo
  <2> QED
    BY <2>2
<1> DEFINE read == CHOOSE f : f = [n \in 0 .. N |-> Body(f, n)]
<1>4. ReadAll(recs, t0) = Placed(read[N], t0)
  BY DEF ReadAll
<1>5. read = [n \in 0 .. N |-> Body(read, n)]
  <2> HIDE DEF Body
  <2> QED
    BY <1>3
<1> HIDE DEF read
<1>6. read[0] = Unread
  BY <1>5
<1>7. \A n \in 0 .. N - 1 : read[n + 1] = ReadEntry(read[n], recs[n + 1], t0)
  BY <1>5
<1> QED
  BY <1>4, <1>6, <1>7

LEMMA ScoresRead ==
  ASSUME NEW recs \in Seq(Result), NEW t0 \in Result
  PROVE  ReadAll(recs, t0).out \in Seq(Result)
<1>1. Len(recs) \in Nat /\ \A i \in 1 .. Len(recs) : recs[i] \in Result
  BY LenProperties, ElementOfSeq
<1>2. PICK f : /\ f[0] = Unread
               /\ \A n \in 0 .. Len(recs) - 1 : f[n + 1] = ReadEntry(f[n], recs[n + 1], t0)
               /\ ReadAll(recs, t0) = Placed(f[Len(recs)], t0)
  BY <1>1, ReadAllUnfolds
<1> DEFINE T == {i \in 0 .. Len(recs) : f[i].out \in Seq(Result)}
<1>3. 0 \in T
  <2>1. Unread.out \in Seq(Result) BY EmptySeq DEF Unread
  <2> QED BY <1>1, <1>2, <2>1
<1>4. ASSUME NEW n \in 0 .. Len(recs) - 1, n \in T PROVE n + 1 \in T
  <2>1. n + 1 \in 1 .. Len(recs) /\ n + 1 \in 0 .. Len(recs) BY <1>1
  <2>2. f[n + 1].out \in Seq(Result) BY <1>1, <1>2, <1>4, <2>1, EntryRead
  <2> QED BY <2>1, <2>2
<1>5. Len(recs) \in T
  <2> HIDE DEF T
  <2> QED BY <1>1, <1>3, <1>4, CountedTo
<1>6. Append(f[Len(recs)].out, t0) \in Seq(Result) BY <1>5, AppendProperties
<1> QED BY <1>2, <1>5, <1>6 DEF Placed

LEMMA ScoresAtFirst == ASSUME Init PROVE Scored
<1>1. OldRecord \in Seq(Result)
  <2> DEFINE R == [who : Names, points : Nat \ {0}]
  <2>1. OldRecord \in Seq(R) /\ R \subseteq Result BY LockingAssumption DEF Result
  <2> HIDE DEF R
  <2> QED BY <2>1, SeqMonotonic
<1> QED BY <1>1, EmptySeq DEF Init, Scored

LEMMA ScoresOfExit ==
  ASSUME Scored, NEW p \in Procs, Exit(p), record' \in Seq(Result)
  PROVE  Scored'
BY EmptySeq DEF Exit, Scored

LEMMA ScoresOfTopten == ASSUME Scored, NEW p \in Procs, Topten(p) PROVE Scored'
<1>1. CASE LockRecord(p) BY <1>1 DEF LockRecord, who, Scored
<1>2. CASE WaitForRecord(p)
  BY <1>2, ScoresOfExit DEF WaitForRecord, who, scores, Scored
<1>3. CASE ReadRecord(p)
  <2>1. Entry(p) \in Result BY LockingAssumption DEF Entry, Scored, Result
  <2>2. ReadAll(record, Entry(p)).out \in Seq(Result) BY <2>1, ScoresRead DEF Scored
  <2>3. list' \in [Procs -> Seq(Result)] BY <1>3, <2>2, EmptySeq DEF ReadRecord, Scored
  <2> QED BY <1>3, <2>3 DEF ReadRecord, who, Scored
<1>4. CASE Truncate(p) BY <1>4, EmptySeq DEF Truncate, who, Scored
<1>5. CASE WriteEntries(p)
  <2>1. list[p] \in Seq(Result) /\ record \in Seq(Result) BY DEF Scored
  <2>2. /\ Len(list[p]) + 1 \in Int /\ Len(record) \in Int
        /\ \A i \in Len(list[p]) + 1 .. Len(record) : record[i] \in Result
    BY <2>1, LenProperties, ElementOfSeq
  <2>3. SubSeq(record, Len(list[p]) + 1, Len(record)) \in Seq(Result)
    BY <2>2, SubSeqProperties
  <2>4. record' \in Seq(Result) BY <1>5, <2>1, <2>3, ConcatProperties DEF WriteEntries
  <2> QED BY <1>5, <2>4, ScoresOfExit DEF WriteEntries
<1>6. CASE NotListed(p) BY <1>6, ScoresOfExit DEF NotListed, Scored
<1> QED BY <1>1, <1>2, <1>3, <1>4, <1>5, <1>6 DEF Topten

LEMMA ScoresKept == ASSUME Scored, [Next]_vars PROVE Scored'
<1> USE DEF who, scores, Scored
<1>1. ASSUME NEW p \in Procs, Exit(p), UNCHANGED record PROVE Scored'
  BY <1>1, ScoresOfExit
<1>2. ASSUME NEW p \in Procs, Getlock(p) PROVE Scored'
  BY <1>1, <1>2 DEF Getlock, LockPerm, WaitForPerm, Found, NextLetter, Ask, Create, DropPerm, WritePid
<1>3. ASSUME NEW p \in Procs, Checkpoint(p) \/ ClearLocks(p) \/ Crash(p) PROVE Scored'
  BY <1>1, <1>3 DEF Checkpoint, ClearLocks, Crash
<1>4. ASSUME NEW p \in Procs, Begin(p) PROVE Scored'
  BY <1>4, LockingAssumption DEF Begin, files
<1>5. ASSUME NEW p \in Procs, Answer(p) PROVE Scored'
  BY <1>1, <1>5 DEF Answer, AnswerNo, AnswerYes, AnswerRecover
<1>6. ASSUME NEW p \in Procs, Rename(p) PROVE Scored'
  BY <1>6 DEF Rename
<1>7. ASSUME NEW p \in Procs, Play(p) \/ CheckPid(p) \/ Die(p) \/ Leave(p) PROVE Scored'
  BY <1>1, <1>7 DEF Play, CheckPid, Die, Leave, files
<1>8. ASSUME NEW l \in Locks, Age(l) PROVE Scored'
  BY <1>8 DEF Age
<1>9. CASE UNCHANGED vars BY <1>9 DEF vars
<1> QED BY <1>2, <1>3, <1>4, <1>5, <1>6, <1>7, <1>8, <1>9, ScoresOfTopten
      DEF Next, Working, Player

(* Counters.  A process goes through getlock() at most three times, once   *)
(* before and twice after its hero is renamed.  Each time it takes "perm"  *)
(* once and calls unlock_file() once or, if a player is asked, twice.      *)
Calls(d, r) == (IF r THEN 3 ELSE 1) - d
AtDoor == {"lock", "look", "prompt", "create", "created", "writepid"}
Counted(point, n, d, r) ==
  /\ n >= IF point = "look" THEN 1 - Calls(d, r)
          ELSE IF point = "writepid" THEN (0 - 1) - Calls(d, r) ELSE 0 - Calls(d, r)
  /\ ~r => d <= 1
  /\ point = "new" => n = 0 /\ ~r
  /\ point \in AtDoor => d >= 1
  /\ point = "setup" => d = 0

Counters ==
  /\ rlock \in Procs \cup {NoOne} /\ pc \in [Procs -> Points]
  /\ nesting \in [Procs -> Int] /\ tries \in [Procs -> 0 .. Retries]
  /\ todo \in [Procs -> 0 .. 2] /\ renamed \in [Procs -> BOOLEAN]
  /\ \A p \in Procs : Counted(pc[p], nesting[p], todo[p], renamed[p])

(* Now they are these, and nobody else's have changed.                     *)
Counting(p, n, t, d, r) ==
  /\ nesting' = [nesting EXCEPT ![p] = n] /\ tries' = [tries EXCEPT ![p] = t]
  /\ todo' = [todo EXCEPT ![p] = d] /\ renamed' = [renamed EXCEPT ![p] = r]

LEMMA CountersChange ==
  ASSUME Counters, NEW p \in Procs, rlock' \in Procs \cup {NoOne},
         NEW point \in Points, pc' = [pc EXCEPT ![p] = point],
         NEW n \in Int, NEW t \in 0 .. Retries, NEW d \in 0 .. 2, NEW r \in BOOLEAN,
         Counting(p, n, t, d, r), Counted(point, n, d, r)
  PROVE  Counters'
BY DEF Counters, Counting

(* The values of one process before a step.                                *)
LEMMA CountersOf ==
  ASSUME Counters, NEW p \in Procs
  PROVE  /\ pc[p] \in Points /\ nesting[p] \in Int /\ tries[p] \in 0 .. Retries
         /\ todo[p] \in 0 .. 2 /\ renamed[p] \in BOOLEAN
         /\ Counted(pc[p], nesting[p], todo[p], renamed[p])
         /\ pc = [pc EXCEPT ![p] = pc[p]] /\ nesting = [nesting EXCEPT ![p] = nesting[p]]
         /\ tries = [tries EXCEPT ![p] = tries[p]] /\ todo = [todo EXCEPT ![p] = todo[p]]
         /\ renamed = [renamed EXCEPT ![p] = renamed[p]]
         /\ rlock \in Procs \cup {NoOne}
         /\ nesting[p] + 1 \in Int /\ nesting[p] - 1 \in Int /\ Retries \in 0 .. Retries
BY LockingAssumption DEF Counters

LEMMA CountersOfExit == ASSUME Counters, NEW p \in Procs, Exit(p) PROVE Counters'
<1>1. /\ pc' = [pc EXCEPT ![p] = "gone"] /\ nesting' = [nesting EXCEPT ![p] = 0]
      /\ tries' = [tries EXCEPT ![p] = 0] /\ todo' = [todo EXCEPT ![p] = 0]
      /\ renamed' = [renamed EXCEPT ![p] = FALSE] /\ rlock' \in Procs \cup {NoOne}
  BY DEF Exit, To, Free, Counters
<1>2. /\ "gone" \in Points /\ 0 \in 0 .. Retries /\ 0 \in 0 .. 2 /\ 0 \in Int
      /\ \A r \in BOOLEAN : Counted("gone", 0, 0, r)
  BY LockingAssumption DEF Points, Counted, Calls, AtDoor
<1> QED
  BY <1>1, <1>2 DEF Counters

(* Steps away from the door leave the counters as they are; unlock_file()  *)
(* is not called, lock_file() counts one up or its retries begin anew.     *)
LEMMA CountersAtPlace ==
  ASSUME Counters, NEW p \in Procs, rlock' \in Procs \cup {NoOne},
         NEW point \in Points \ AtDoor, point \notin {"new", "setup"},
         pc' = [pc EXCEPT ![p] = point], pc[p] \notin {"look", "writepid"},
         NEW n \in {nesting[p], nesting[p] + 1}, NEW t \in {tries[p], Retries},
         Counting(p, n, t, todo[p], renamed[p])
  PROVE  Counters'
<1>1. /\ nesting[p] \in Int /\ todo[p] \in 0 .. 2 /\ renamed[p] \in BOOLEAN
      /\ Counted(pc[p], nesting[p], todo[p], renamed[p]) /\ t \in 0 .. Retries /\ n \in Int
  BY CountersOf
<1>2. Counted(point, n, todo[p], renamed[p])
  BY <1>1 DEF Counted, Calls, AtDoor
<1> QED
  BY <1>1, <1>2, CountersChange

LEMMA CountersOfGetlock == ASSUME Counters, NEW p \in Procs, Getlock(p) PROVE Counters'
<1> USE DEF To, inGetlock, who, scores, history
<1> DEFINE n == nesting[p]  d == todo[p]  r == renamed[p]  t == tries[p]
<1>1. /\ n \in Int /\ t \in 0 .. Retries /\ d \in 0 .. 2 /\ r \in BOOLEAN
      /\ Counted(pc[p], n, d, r)
      /\ pc = [pc EXCEPT ![p] = pc[p]] /\ nesting = [nesting EXCEPT ![p] = n]
      /\ tries = [tries EXCEPT ![p] = t] /\ todo = [todo EXCEPT ![p] = d]
      /\ renamed = [renamed EXCEPT ![p] = r]
      /\ n - 1 \in Int /\ n + 1 \in Int /\ rlock \in Procs \cup {NoOne}
      /\ Retries \in 0 .. Retries
  BY CountersOf
<1>2. AtDoor \subseteq Points /\ "setup" \in Points BY DEF AtDoor, Points
<1> HIDE DEF n, d, r, t
<1>3. CASE LockPerm(p)
  <2>1. PICK point \in {"look"} : pc' = [pc EXCEPT ![p] = point]
    BY <1>3 DEF LockPerm
  <2>2. Counting(p, n + 1, t, d, r) /\ pc[p] = "lock" /\ rlock' = rlock
    BY <1>1, <1>3 DEF LockPerm, Counting, n
  <2>3. Counted(point, n + 1, d, r) /\ point \in Points
    BY <1>1, <1>2, <2>1, <2>2 DEF Counted, Calls, AtDoor
  <2> QED BY <1>1, <2>1, <2>2, <2>3 DEF Counters, Counting
<1>4. CASE WaitForPerm(p) \/ NextLetter(p)
  <2>1. CASE Exit(p) BY <2>1, CountersOfExit
  <2>2. CASE tries' = [tries EXCEPT ![p] = @ - 1] /\ tries[p] > 0
             /\ UNCHANGED <<pc, nesting, todo, renamed, rlock>>
    <3>1. t - 1 \in 0 .. Retries BY <1>1, <2>2, LockingAssumption DEF t
    <3>2. Counting(p, n, t - 1, d, r) BY <1>1, <2>2 DEF Counting, t
    <3> QED BY <1>1, <2>2, <3>1, <3>2, CountersOf DEF Counters, Counting
  <2>3. CASE UNCHANGED <<pc, nesting, todo, renamed, rlock, tries>>
    BY <2>3 DEF Counters
  <2> QED BY <1>4, <2>1, <2>2, <2>3 DEF WaitForPerm, NextLetter
<1>5. CASE Found(p) \/ Create(p)
  <2>1. PICK point \in {"create", "created"} : pc' = [pc EXCEPT ![p] = point]
    BY <1>5 DEF Found, Create
  <2>2. pc[p] \in {"look", "create"} /\ Counting(p, n, t, d, r) /\ rlock' = rlock
    BY <1>1, <1>5 DEF Found, Create, Counting
  <2>3. Counted(point, n, d, r) /\ point \in Points
    BY <1>1, <1>2, <2>1, <2>2 DEF Counted, Calls, AtDoor
  <2> QED BY <1>1, <2>1, <2>2, <2>3 DEF Counters, Counting
<1>6. CASE Ask(p) \/ DropPerm(p)
  <2>1. PICK point \in {"prompt", "writepid"} :
          /\ pc' = [pc EXCEPT ![p] = point]
          /\ pc[p] = IF point = "prompt" THEN "look" ELSE "created"
    BY <1>6 DEF Ask, DropPerm
  <2>2. Counting(p, n - 1, t, d, r) /\ rlock' = rlock
    BY <1>1, <1>6 DEF Ask, DropPerm, UnlockFile, Counting, n
  <2>3. Counted(point, n - 1, d, r) /\ point \in Points
    BY <1>1, <1>2, <2>1 DEF Counted, Calls, AtDoor
  <2> QED BY <1>1, <2>1, <2>2, <2>3 DEF Counters, Counting
<1>7. CASE WritePid(p)
  <2>1. PICK point \in {"lock", "setup"} :
          pc' = [pc EXCEPT ![p] = point] /\ (point = "lock" <=> d > 1)
    BY <1>7 DEF WritePid, d
  <2>2. Counting(p, n, Retries, d - 1, r) /\ rlock' = rlock /\ pc[p] = "writepid"
    BY <1>1, <1>7 DEF WritePid, Counting, d
  <2>3. Counted(point, n, d - 1, r) /\ point \in Points /\ d - 1 \in 0 .. 2
    BY <1>1, <1>2, <2>1, <2>2 DEF Counted, Calls, AtDoor
  <2> QED BY <1>1, <2>1, <2>2, <2>3 DEF Counters, Counting
<1> QED BY <1>3, <1>4, <1>5, <1>6, <1>7 DEF Getlock

LEMMA CountersOfPlayer == ASSUME Counters, NEW p \in Procs, Player(p) PROVE Counters'
<1> USE DEF To, inGetlock, who, scores, history
<1> DEFINE n == nesting[p]  d == todo[p]  r == renamed[p]  t == tries[p]
<1>1. /\ n \in Int /\ t \in 0 .. Retries /\ d \in 0 .. 2 /\ r \in BOOLEAN
      /\ Counted(pc[p], n, d, r)
      /\ pc = [pc EXCEPT ![p] = pc[p]] /\ nesting = [nesting EXCEPT ![p] = n]
      /\ tries = [tries EXCEPT ![p] = t] /\ todo = [todo EXCEPT ![p] = d]
      /\ renamed = [renamed EXCEPT ![p] = r]
      /\ rlock \in Procs \cup {NoOne} /\ Retries \in 0 .. Retries
  BY CountersOf
<1>2. AtDoor \subseteq Points BY DEF AtDoor, Points
<1> HIDE DEF n, d, r, t
<1>3. CASE Begin(p)
  <2>1. PICK point \in {"lock"} : pc' = [pc EXCEPT ![p] = point]
    BY <1>3 DEF Begin
  <2>2. Counting(p, n, Retries, 1, r) /\ rlock' = rlock /\ pc[p] = "new"
    BY <1>1, <1>3 DEF Begin, files, Counting
  <2>3. Counted(point, n, 1, r) /\ point \in Points /\ 1 \in 0 .. 2
    BY <1>1, <1>2, <2>1, <2>2 DEF Counted, Calls, AtDoor
  <2> QED BY <1>1, <2>1, <2>2, <2>3 DEF Counters, Counting
<1>4. CASE Answer(p)
  <2>1. CASE Exit(p) BY <2>1, CountersOfExit
  <2>2. CASE ~Exit(p)
    <3>1. PICK point \in {"create"} : pc' = [pc EXCEPT ![p] = point]
      BY <1>4, <2>2 DEF Answer, AnswerNo, AnswerYes, AnswerRecover
    <3>2. Counting(p, n, t, d, r) /\ rlock' = rlock /\ pc[p] = "prompt"
      BY <1>1, <1>4, <2>2 DEF Answer, AnswerNo, AnswerYes, AnswerRecover, Counting
    <3>3. Counted(point, n, d, r) /\ point \in Points
      BY <1>1, <1>2, <3>1, <3>2 DEF Counted, Calls, AtDoor
    <3> QED BY <1>1, <3>1, <3>2, <3>3 DEF Counters, Counting
  <2> QED BY <2>1, <2>2
<1>5. CASE Rename(p)
  <2>1. PICK point \in {"lock"} : pc' = [pc EXCEPT ![p] = point]
    BY <1>5 DEF Rename
  <2>2. PICK e \in {1, 2} : todo' = [todo EXCEPT ![p] = e]
    BY <1>5 DEF Rename
  <2>3. PICK s \in BOOLEAN : s /\ renamed' = [renamed EXCEPT ![p] = s]
    BY <1>5 DEF Rename
  <2>4. Counting(p, n, t, e, s) /\ rlock' = rlock /\ pc[p] = "setup" /\ ~r
    BY <1>1, <1>5, <2>2, <2>3 DEF Rename, Counting, r
  <2>5. Counted(point, n, e, s) /\ point \in Points /\ e \in 0 .. 2
    BY <1>1, <1>2, <2>1, <2>2, <2>3, <2>4 DEF Counted, Calls, AtDoor
  <2> QED BY <1>1, <2>1, <2>4, <2>5 DEF Counters, Counting
<1>6. CASE Play(p) \/ CheckPid(p) \/ Die(p)
  <2>1. PICK point \in {"play", "rewrite", "over"} : pc' = [pc EXCEPT ![p] = point]
    BY <1>6 DEF Play, CheckPid, Die
  <2>2. pc[p] \in {"setup", "play"} /\ Counting(p, n, t, d, r) /\ rlock' = rlock
    BY <1>1, <1>6 DEF Play, CheckPid, Die, files, Counting
  <2>3. point \in Points \ AtDoor /\ point \notin {"new", "setup"}
        /\ pc[p] \notin {"look", "writepid"}
    BY <2>1, <2>2 DEF Points, AtDoor
  <2>4. n \in {nesting[p], nesting[p] + 1} /\ t \in {tries[p], Retries}
        /\ d = todo[p] /\ r = renamed[p]
    BY DEF n, t, d, r
  <2> QED BY <1>1, <2>1, <2>2, <2>3, <2>4, CountersAtPlace DEF Counting
<1>7. CASE Leave(p) BY <1>7, CountersOfExit DEF Leave
<1> QED BY <1>3, <1>4, <1>5, <1>6, <1>7 DEF Player

LEMMA CountersOfGame ==
  ASSUME Counters, NEW p \in Procs, Checkpoint(p) \/ ClearLocks(p) \/ Topten(p) \/ Crash(p)
  PROVE  Counters'
<1> USE DEF To, inGetlock, who, scores, history
<1>0. /\ nesting = [nesting EXCEPT ![p] = nesting[p]] /\ tries = [tries EXCEPT ![p] = tries[p]]
      /\ todo = [todo EXCEPT ![p] = todo[p]] /\ renamed = [renamed EXCEPT ![p] = renamed[p]]
  BY CountersOf
<1>1. CASE Exit(p) BY <1>1, CountersOfExit
<1>2. CASE WaitForRecord(p) /\ tries[p] > 0
  <2>1. /\ tries' = [tries EXCEPT ![p] = tries[p] - 1]
        /\ UNCHANGED <<pc, nesting, todo, renamed, rlock>>
    BY <1>2 DEF WaitForRecord
  <2>2. tries[p] - 1 \in 0 .. Retries BY <1>2, CountersOf, LockingAssumption
  <2> QED BY <2>1, <2>2 DEF Counters
<1>3. CASE ~Exit(p) /\ ~WaitForRecord(p)
  <2>1. PICK point \in {"play", "score", "read", "reopen", "scored", "truncated"} :
          pc' = [pc EXCEPT ![p] = point]
    BY <1>3 DEF Checkpoint, ClearLocks, Topten, Crash, LockRecord, ReadRecord, Truncate,
                WriteEntries, NotListed
  <2>2. PICK n \in {nesting[p], nesting[p] + 1} : nesting' = [nesting EXCEPT ![p] = n]
    BY <1>0, <1>3 DEF Checkpoint, ClearLocks, Topten, Crash, LockRecord, ReadRecord, Truncate,
                WriteEntries, NotListed
  <2>3. PICK t \in {tries[p], Retries} : tries' = [tries EXCEPT ![p] = t]
    BY <1>0, <1>3 DEF Checkpoint, ClearLocks, Topten, Crash, LockRecord, ReadRecord, Truncate,
                WriteEntries, NotListed
  <2>4. /\ pc[p] \in {"rewrite", "over", "score", "read", "reopen"}
        /\ UNCHANGED <<todo, renamed>>
    BY <1>3 DEF Checkpoint, ClearLocks, Topten, Crash, LockRecord, ReadRecord, Truncate,
                WriteEntries, NotListed
  <2>5. Counting(p, n, t, todo[p], renamed[p])
    BY <1>0, <2>2, <2>3, <2>4 DEF Counting
  <2>6. rlock' \in Procs \cup {NoOne}
    BY <1>3 DEF Checkpoint, ClearLocks, Topten, Crash, LockRecord, ReadRecord, Truncate,
                WriteEntries, NotListed, Free, Counters
  <2>7. point \in Points \ AtDoor /\ point \notin {"new", "setup"}
        /\ pc[p] \notin {"look", "writepid"}
    BY <2>1, <2>4 DEF Points, AtDoor
  <2> QED BY <2>1, <2>2, <2>3, <2>5, <2>6, <2>7, CountersAtPlace DEF Counting
<1> QED BY <1>1, <1>2, <1>3 DEF Topten, WaitForRecord, Checkpoint, ClearLocks, Crash

LEMMA CountersKept == ASSUME Counters, [Next]_vars PROVE Counters'
<1>1. ASSUME NEW p \in Procs, Working(p) \/ Player(p) \/ Crash(p) PROVE Counters'
  BY <1>1, CountersOfGetlock, CountersOfPlayer, CountersOfGame DEF Working
<1>2. ASSUME NEW l \in Locks, Age(l) PROVE Counters'
  BY <1>2 DEF Age, inGetlock, who, scores, Counters
<1>3. CASE UNCHANGED vars BY <1>3 DEF vars, Counters
<1> QED BY <1>1, <1>2, <1>3 DEF Next

(* Types, whatever the players answer: nobody's nesting goes below -3, for *)
(* a process goes through getlock() three times at most and is asked at    *)
(* most once in each; scores stay entries with points (getlock(),          *)
(* lock_file(), unlock_file(), topten()).                                  *)
THEOREM TypeCorrect == Spec => []TypeOK
<1>1. Init => Types /\ Scored /\ Counters
  <2>1. Init => Counters
    BY LockingAssumption DEF Init, Counters, Counted, Calls, AtDoor, Points, NoOne
  <2> QED BY <2>1, TypesAtFirst, ScoresAtFirst
<1>2. Types /\ Scored /\ Counters /\ [Next]_vars => (Types /\ Scored /\ Counters)'
  BY TypesKept, ScoresKept, CountersKept
<1>3. Types /\ Scored /\ Counters /\ Nesting => TypeOK
  <2> SUFFICES ASSUME Types, Scored, Counters, Nesting PROVE TypeOK OBVIOUS
  <2>1. nesting \in [Procs -> {-3, -2, -1, 0, 1}]
    <3>1. ASSUME NEW p \in Procs PROVE nesting[p] \in {-3, -2, -1, 0, 1}
      <4>1. /\ Counted(pc[p], nesting[p], todo[p], renamed[p]) /\ todo[p] \in 0 .. 2
            /\ nesting[p] \in Int /\ nesting[p] <= 1
        BY DEF Counters, Nesting
      <4> QED BY <4>1 DEF Counted, Calls, AtDoor
    <3> QED BY <3>1 DEF Counters
  <2>2. \A i \in 1 .. Len(record) : record[i].points \in Nat \ {0}
    <3>1. record \in Seq(Result) BY DEF Scored
    <3>2. ASSUME NEW i \in 1 .. Len(record) PROVE record[i] \in Result BY <3>1
    <3> QED BY <3>2 DEF Result
  <2> QED BY <2>1, <2>2 DEF Types, Counters, TypeOK
<1>4. Spec => []Nesting
  BY NestingAtFirst, NestingKept, PTL DEF Spec
<1> QED BY <1>1, <1>2, <1>3, <1>4, PTL DEF Spec
=============================================================================
