------------------------- MODULE ThreadStoreProofs -------------------------
(***************************************************************************)
(* The directory lock, and the thread store that it guards: thread numbers *)
(* stay unique for any number of processes, threads and comments, and the  *)
(* locked commands implement AtomicStore (every change of the directory is *)
(* one whole command on the directory as it is), as long as the lock never *)
(* had two holders.                                                        *)
(***************************************************************************)
EXTENDS ThreadStore, TLAPS

-----------------------------------------------------------------------------
(* The lock: what a step of LockDir or of its unlock closure preserves.    *)
(* Lemmas are about single steps, which the thread store's steps contain.  *)

LEMMA LockInitInv == LockInit => LockInv
  BY DirLockAssumption
  DEF LockInit, LockInv, LockTypeOK, FlockInv, AloneUntilOverlap, Holders, Stages

LEMMA OpenInv == ASSUME NEW p \in Procs, LockInv, Open(p) PROVE LockInv'
  BY DirLockAssumption
  DEF Open, Free, LockInv, LockTypeOK, FlockInv, AloneUntilOverlap, Holders, Stages

LEMMA AcquireInv == ASSUME NEW p \in Procs, LockInv, Acquire(p) PROVE LockInv'
  <1>. USE DirLockAssumption DEF LockInv, LockTypeOK, FlockInv, Holders, Stages, Acquire
  <1>1. fd[p] \in Inodes
    OBVIOUS
  <1>2. LockTypeOK'
    BY <1>1
  <1>3. FlockInv'
    BY <1>1
  <1>4. AloneUntilOverlap'
    <2>1. Holders = {} => \A q \in Procs : pc'[q] = "locked" => q = p
      OBVIOUS
    <2>2. ~overlap' => Holders = {}
      BY ZenonT(20) DEF Acquire
    <2>. QED  BY <2>1, <2>2 DEF AloneUntilOverlap
  <1>. QED  BY <1>2, <1>3, <1>4

LEMMA UnlockInv == ASSUME NEW p \in Procs, LockInv, Unlock(p) PROVE LockInv'
  <1>. USE DirLockAssumption DEF LockInv, LockTypeOK, FlockInv, Holders, Stages, Unlock
  <1>1. fd[p] \in Inodes
    OBVIOUS
  <1>2. LockTypeOK' /\ FlockInv'
    BY <1>1
  <1>3. AloneUntilOverlap'
    BY DEF AloneUntilOverlap
  <1>. QED  BY <1>2, <1>3

LEMMA UnlinkInv == ASSUME NEW p \in Procs, LockInv, Unlink(p) PROVE LockInv'
  BY DirLockAssumption
  DEF Unlink, LockInv, LockTypeOK, FlockInv, AloneUntilOverlap, Holders, Stages

LEMMA CrashInv == ASSUME NEW p \in Procs, LockInv, Crash(p) PROVE LockInv'
  <1>. USE DirLockAssumption DEF LockInv, LockTypeOK, FlockInv, Holders, Stages, Crash
  <1>1. LockTypeOK'
    OBVIOUS
  <1>2. FlockInv'
    OBVIOUS
  <1>3. AloneUntilOverlap'
    BY DEF AloneUntilOverlap
  <1>. QED  BY <1>1, <1>2, <1>3

LEMMA LockStutterInv == LockInv /\ UNCHANGED lockVars => LockInv'
  BY DEF LockInv, LockTypeOK, FlockInv, AloneUntilOverlap, Holders, lockVars

(* Type correctness, the kernel's side of the lock, and overlap telling    *)
(* the truth about mutual exclusion, as an invariant of every execution.   *)
THEOREM LockInvariance == LockSpec => []LockInv
  <1>1. LockInv /\ [LockNext]_lockVars => LockInv'
    <2>. SUFFICES ASSUME LockInv, [LockNext]_lockVars PROVE LockInv'
      OBVIOUS
    <2>1. ASSUME NEW p \in Procs, Open(p) \/ LockStep(p) \/ Crash(p) PROVE LockInv'
      BY <2>1, OpenInv, AcquireInv, UnlockInv, UnlinkInv, CrashInv DEF LockStep
    <2>2. CASE UNCHANGED lockVars
      BY <2>2, LockStutterInv
    <2>. QED  BY <2>1, <2>2 DEF LockNext
  <1>. QED  BY <1>1, LockInitInv, PTL DEF LockSpec

(* Of the processes that believe to hold the directory at most one holds   *)
(* the file that .nota.lock names: LockDir's exclusion ends only when an   *)
(* unlock closure unlinks the file under a process that waits for it.      *)
THEOREM LockedFileIsExclusive == LockSpec => []ExclusiveWhileLinked
  <1>1. LockInv => ExclusiveWhileLinked
    BY DirLockAssumption DEF LockInv, LockTypeOK, FlockInv, ExclusiveWhileLinked, Holders
  <1>. QED  BY <1>1, LockInvariance, PTL

-----------------------------------------------------------------------------
(* Threads.                                                                *)

LEMMA NewThreadType ==
  ASSUME NEW id \in ThreadIds, NEW n \in 0..MaxNumber, NEW g \in Goals,
         NEW c \in CommentIds, NEW as \in Seq(Anchor)
  PROVE  /\ NewThread(id, n, g, c, as) \in Thread
         /\ NewThread(id, n, g, c, as).number = n
  BY ThreadsAssumption DEF NewThread, Thread

LEMMA AnchorAtType ==
  ASSUME NEW c \in 1..MaxCommit
  PROVE  <<AnchorAt(c)>> \in Seq(Anchor)
  BY DEF AnchorAt, Anchor

(* What the commands and tracing change of a stored thread leaves it a     *)
(* thread with the same number.                                            *)
LEMMA EditType ==
  ASSUME NEW t \in Thread
  PROVE  /\ \A c \in CommentIds : LET u == [t EXCEPT !.comments = @ \cup {c}]
                                  IN u \in Thread /\ u.number = t.number
         /\ \A s \in Statuses : LET u == [t EXCEPT !.status = s]
                                IN u \in Thread /\ u.number = t.number
         /\ \A g \in Goals : LET u == [t EXCEPT !.goal = g]
                             IN u \in Thread /\ u.number = t.number
         /\ \A bs \in SUBSET ThreadIds : LET u == [t EXCEPT !.deps = @ \cup bs]
                                         IN u \in Thread /\ u.number = t.number
         /\ \A bs \in SUBSET ThreadIds : LET u == [t EXCEPT !.deps = @ \ bs]
                                         IN u \in Thread /\ u.number = t.number
  BY DEF Thread

LEMMA TracedType ==
  ASSUME NEW t \in Thread, NEW c \in 1..MaxCommit, NEW out \in BOOLEAN
  PROVE  Traced(t, c, out) \in Thread /\ Traced(t, c, out).number = t.number
  <1>1. [commit |-> c, outdated |-> out] \in Anchor
    BY DEF Anchor
  <1>2. t.anchors \in Seq(Anchor)
    BY DEF Thread
  <1>3. Append(t.anchors, [commit |-> c, outdated |-> out]) \in Seq(Anchor)
    BY <1>1, <1>2
  <1>. QED  BY <1>3 DEF Thread, Traced

LEMMA NothingType == Nothing \in Directory
  BY DEF Nothing, Directory

LEMMA OnlyType ==
  ASSUME NEW f \in Files, NEW t \in Thread
  PROVE  /\ Only(f, t) \in Directory
         /\ \A g \in Files : Only(f, t)[g] # NoThread => g = f
         /\ Only(f, t)[f] = t
  BY DEF Only, Nothing, Directory

-----------------------------------------------------------------------------
(* The invariant, and the part of it that reading the directory rests on.  *)

Inv == TypeOK /\ LockInv /\ NumberInv

(* What a command may prepare to write: a file of the directory with its   *)
(* number, a named group's file with number 0, or a new file with a number *)
(* above all that are there, no two new files with the same one.           *)
Writable(files) ==
  /\ files \in Directory
  /\ \A f \in Files : files[f] # NoThread =>
       \/ f \in Stored(store) /\ files[f].number = store[f].number
       \/ f \in Groups /\ files[f].number = 0
       \/ /\ f \in ThreadIds \ issued /\ f \in issued'
          /\ \A g \in Stored(store) : store[g].number < files[f].number
  /\ \A f, g \in Files :
       files[f] # NoThread /\ files[g] # NoThread
         /\ files[f].number = files[g].number /\ files[f].number > 0 => f = g

(* What every locked command does once it has read the directory. *)
Prepared(p) ==
  /\ pc[p] = "locked"
  /\ issued \subseteq issued' /\ issued' \subseteq ThreadIds \cup CommentIds
  /\ \E files : Prepare(p, files) /\ Writable(files)

LEMMA PrepareTypes ==
  ASSUME TypeOK, LockInv, NEW p \in Procs, Prepared(p)
  PROVE  TypeOK' /\ LockInv'
  <1>1. LockInv'
    BY LockStutterInv DEF Prepared, Prepare
  <1>. QED  BY <1>1 DEF LockInv, TypeOK, Prepared, Prepare, Writable

LEMMA PrepareInv ==
  ASSUME Inv, NEW p \in Procs, Prepared(p)
  PROVE  Inv'
  <1>0. PICK files : Prepare(p, files) /\ Writable(files)
    BY DEF Prepared
  <1>1. LockInv' /\ TypeOK'
    BY PrepareTypes DEF Inv
  <1>2. pc[p] = "locked" /\ issued \subseteq issued'
        /\ Prepare(p, files) /\ Writable(files)
    BY <1>0 DEF Prepared
  <1>. USE <1>2 DEF Inv, Prepare
  <1>3. ASSUME NEW q \in Procs
        PROVE  /\ q # p => pending'[q] = pending[q]
               /\ q = p => pending'[q] = files
    BY DEF TypeOK
  <1>4. PendingLocked'
    BY <1>3 DEF NumberInv, PendingLocked, lockVars
  <1>5. CASE ~overlap'
    <2>1. ~overlap /\ UniqueNumbers /\ StoreSound /\ CopySound
      BY <1>5 DEF NumberInv, lockVars
    <2>2. \A q \in Procs, f \in Files : pending'[q][f] # NoThread => q = p
      BY <2>1, <1>3 DEF LockInv, AloneUntilOverlap, Holders, NumberInv, PendingLocked
    <2>3. UniqueNumbers'
      BY <2>1 DEF UniqueNumbers, Stored
    <2>4. StoreSound'
      BY <2>1 DEF StoreSound, Stored
    <2>5. CopySound'
      BY <2>1 DEF CopySound, Stored
    <2>6. ASSUME NEW f \in Files, files[f] # NoThread
          PROVE  /\ NamedZero(f, files[f]) /\ (f \in ThreadIds => f \in issued')
                 /\ f \in Stored(store) => files[f].number = store[f].number
                 /\ files[f].number > 0 =>
                      \A g \in Stored(store) : store[g].number = files[f].number => g = f
      <3>1. files[f] \in Thread /\ files[f].number \in Nat
        BY <2>6, ThreadsAssumption DEF Writable, Directory, Thread
      <3>2. \A g \in Stored(store) : store[g].number \in Nat
        BY ThreadsAssumption DEF TypeOK, Stored, Directory, Thread
      <3>3. CASE f \in Stored(store) /\ files[f].number = store[f].number
        BY <3>1, <3>3, <2>1 DEF StoreSound, NamedZero, UniqueNumbers
      <3>4. CASE f \in Groups /\ files[f].number = 0
        BY <3>1, <3>4, <2>1, ThreadsAssumption DEF StoreSound, NamedZero
      <3>5. CASE /\ f \in ThreadIds \ issued /\ f \in issued'
                 /\ \A g \in Stored(store) : store[g].number < files[f].number
        BY <3>1, <3>2, <3>5, <2>1, ThreadsAssumption DEF StoreSound, NamedZero
      <3>. QED  BY <2>6, <3>3, <3>4, <3>5 DEF Writable
    <2>7. PendingSound'
      BY <2>2, <1>3, <2>6 DEF PendingSound, Writable, Stored
    <2>. QED  BY <1>1, <1>4, <2>3, <2>4, <2>5, <2>7 DEF NumberInv
  <1>. QED  BY <1>1, <1>4, <1>5 DEF NumberInv

-----------------------------------------------------------------------------
(* The locked commands.                                                    *)

LEMMA StoredType ==
  ASSUME TypeOK, NEW f \in Stored(store)
  PROVE  f \in Files /\ store[f] \in Thread
  BY DEF TypeOK, Stored, Directory

(* One file, whose number stays. *)
LEMMA EditPrepares ==
  ASSUME TypeOK, NEW p \in Procs, pc[p] = "locked",
         NEW f \in Stored(store), NEW t \in Thread, t.number = store[f].number,
         Prepare(p, Only(f, t)),
         issued \subseteq issued', issued' \subseteq ThreadIds \cup CommentIds
  PROVE  Prepared(p)
  <1>1. f \in Files
    BY StoredType
  <1>2. Writable(Only(f, t))
    BY <1>1, OnlyType DEF Writable
  <1>. QED  BY <1>2 DEF Prepared

(* One new file, with the next number. *)
LEMMA NewPrepares ==
  ASSUME TypeOK, NEW p \in Procs, pc[p] = "locked",
         NEW id \in FreshThreads, NEW c \in FreshComments, NEW n \in 1..MaxNumber,
         NEW g \in Goals, NEW as \in Seq(Anchor),
         IsNextNumber(store, n),
         issued' = issued \cup {id, c},
         Prepare(p, Only(id, NewThread(id, n, g, c, as)))
  PROVE  Prepared(p)
  <1>. DEFINE t == NewThread(id, n, g, c, as)
  <1>1. id \in ThreadIds \ issued /\ c \in CommentIds /\ id \in Files
    BY DEF FreshThreads, FreshComments, Files
  <1>2. t \in Thread /\ t.number = n
    <2>1. n \in 0..MaxNumber
      BY ThreadsAssumption
    <2>2. c \in CommentIds /\ id \in ThreadIds /\ g \in Goals /\ as \in Seq(Anchor)
      BY <1>1
    <2>. QED  BY ONLY <2>1, <2>2, ThreadsAssumption DEF NewThread, Thread
  <1>3. \A f \in Stored(store) : store[f].number < t.number
    BY <1>2 DEF IsNextNumber
  <1>. HIDE DEF t
  <1>4. Writable(Only(id, t))
    BY <1>1, <1>2, <1>3, OnlyType DEF Writable
  <1>5. issued' \subseteq ThreadIds \cup CommentIds
    BY <1>1 DEF TypeOK
  <1>. QED  BY <1>4, <1>5, Zenon DEF Prepared, t

LEMMA CreatePrepares == ASSUME TypeOK, NEW p \in Procs, Create(p) PROVE Prepared(p)
  <1>1. PICK id \in FreshThreads, c \in FreshComments, n \in 1..MaxNumber, g \in Goals :
          \E as \in {<<>>, <<AnchorAt(head)>>} :
            /\ IsNextNumber(store, n)
            /\ issued' = issued \cup {id, c}
            /\ Prepare(p, Only(id, NewThread(id, n, g, c, as)))
    BY DEF Create
  <1>2. PICK as \in {<<>>, <<AnchorAt(head)>>} :
          /\ IsNextNumber(store, n)
          /\ issued' = issued \cup {id, c}
          /\ Prepare(p, Only(id, NewThread(id, n, g, c, as)))
    BY <1>1
  <1>3. as \in Seq(Anchor)
    <2>1. head \in 1..MaxCommit
      BY DEF TypeOK
    <2>2. <<AnchorAt(head)>> \in Seq(Anchor) /\ <<>> \in Seq(Anchor)
      BY <2>1, AnchorAtType
    <2>. QED  BY <2>2
  <1>. QED  BY <1>2, <1>3, NewPrepares DEF Create, Reading

LEMMA SpawnPrepares == ASSUME TypeOK, NEW p \in Procs, Spawn(p) PROVE Prepared(p)
  <1>1. PICK id \in FreshThreads, c \in FreshComments, n \in 1..MaxNumber, g \in Goals :
          /\ IsNextNumber(store, n)
          /\ issued' = issued \cup {id, c}
          /\ Prepare(p, Only(id, NewThread(id, n, g, c, <<>>)))
    BY DEF Spawn
  <1>2. <<>> \in Seq(Anchor)
    OBVIOUS
  <1>. QED  BY <1>1, <1>2, NewPrepares DEF Spawn, Reading

LEMMA AddCommentPrepares == ASSUME TypeOK, NEW p \in Procs, AddComment(p) PROVE Prepared(p)
  <1>1. PICK f \in Stored(store), c \in FreshComments :
          /\ issued' = issued \cup {c}
          /\ Prepare(p, Only(f, [store[f] EXCEPT !.comments = @ \cup {c}]))
    BY DEF AddComment
  <1>. DEFINE t == [store[f] EXCEPT !.comments = @ \cup {c}]
  <1>2. t \in Thread /\ t.number = store[f].number
    BY StoredType, EditType DEF FreshComments
  <1>3. issued' \subseteq ThreadIds \cup CommentIds
    BY <1>1 DEF TypeOK, FreshComments
  <1>4. pc[p] = "locked" /\ Prepare(p, Only(f, t)) /\ issued \subseteq issued'
    BY <1>1 DEF AddComment, Reading
  <1>. HIDE DEF t
  <1>. QED  BY <1>2, <1>3, <1>4, EditPrepares

LEMMA UpdateStatusPrepares == ASSUME TypeOK, NEW p \in Procs, UpdateStatus(p) PROVE Prepared(p)
  <1>1. PICK f \in Stored(store), s \in Statuses :
          Prepare(p, Only(f, [store[f] EXCEPT !.status = s]))
    BY DEF UpdateStatus
  <1>. DEFINE t == [store[f] EXCEPT !.status = s]
  <1>2. t \in Thread /\ t.number = store[f].number
    BY StoredType, EditType
  <1>3. issued' = issued /\ pc[p] = "locked" /\ Prepare(p, Only(f, t))
    BY <1>1 DEF UpdateStatus, Reading
  <1>. HIDE DEF t
  <1>. QED  BY <1>2, <1>3, EditPrepares DEF TypeOK

LEMMA UpdateGoalPrepares == ASSUME TypeOK, NEW p \in Procs, UpdateGoal(p) PROVE Prepared(p)
  <1>1. PICK f \in Stored(store), g \in Goals :
          Prepare(p, Only(f, [store[f] EXCEPT !.goal = g]))
    BY DEF UpdateGoal
  <1>. DEFINE t == [store[f] EXCEPT !.goal = g]
  <1>2. t \in Thread /\ t.number = store[f].number
    BY StoredType, EditType
  <1>3. issued' = issued /\ pc[p] = "locked" /\ Prepare(p, Only(f, t))
    BY <1>1 DEF UpdateGoal, Reading
  <1>. HIDE DEF t
  <1>. QED  BY <1>2, <1>3, EditPrepares DEF TypeOK

LEMMA AddDependenciesPrepares == ASSUME TypeOK, NEW p \in Procs, AddDependencies(p) PROVE Prepared(p)
  <1>1. PICK f \in Stored(store), bs \in SUBSET ThreadIds :
          Prepare(p, Only(f, [store[f] EXCEPT !.deps = @ \cup bs]))
    BY DEF AddDependencies
  <1>. DEFINE t == [store[f] EXCEPT !.deps = @ \cup bs]
  <1>2. t \in Thread /\ t.number = store[f].number
    BY StoredType, EditType
  <1>3. issued' = issued /\ pc[p] = "locked" /\ Prepare(p, Only(f, t))
    BY <1>1 DEF AddDependencies, Reading
  <1>. HIDE DEF t
  <1>. QED  BY <1>2, <1>3, EditPrepares DEF TypeOK

LEMMA RemoveDependenciesPrepares == ASSUME TypeOK, NEW p \in Procs, RemoveDependencies(p) PROVE Prepared(p)
  <1>1. PICK f \in Stored(store), bs \in SUBSET ThreadIds :
          Prepare(p, Only(f, [store[f] EXCEPT !.deps = @ \ bs]))
    BY DEF RemoveDependencies
  <1>. DEFINE t == [store[f] EXCEPT !.deps = @ \ bs]
  <1>2. t \in Thread /\ t.number = store[f].number
    BY StoredType, EditType
  <1>3. issued' = issued /\ pc[p] = "locked" /\ Prepare(p, Only(f, t))
    BY <1>1 DEF RemoveDependencies, Reading
  <1>. HIDE DEF t
  <1>. QED  BY <1>2, <1>3, EditPrepares DEF TypeOK

LEMMA FailPrepares == ASSUME TypeOK, NEW p \in Procs, Fail(p) PROVE Prepared(p)
  <1>1. Writable(Nothing)
    BY NothingType DEF Writable, Nothing
  <1>. QED  BY <1>1 DEF Fail, TypeOK, Prepared

(* A batch: named groups with number 0, the others with numbers from the   *)
(* next one up.                                                            *)
LEMMA ExtractPrepares == ASSUME TypeOK, NEW p \in Procs, Extract(p) PROVE Prepared(p)
  <1>1. PICK unnamed \in SUBSET FreshThreads, named \in SUBSET Groups,
             n \in 1..MaxNumber, last \in 0..MaxNumber, at \in 1..head :
          LET files == unnamed \cup named IN
          \E ids \in [files -> FreshThreads], cs \in [files -> FreshComments],
             num \in [files -> 0..MaxNumber], gs \in [files -> Goals],
             as \in {<<>>, <<AnchorAt(at)>>} :
            /\ files # {}
            /\ IsNextNumber(store, n)
            /\ \A f, g \in files : ids[f] = ids[g] \/ cs[f] = cs[g] => f = g
            /\ \A f \in unnamed : ids[f] = f
            /\ {num[f] : f \in unnamed} = n .. last
            /\ \A f, g \in unnamed : num[f] = num[g] => f = g
            /\ \A f \in named : num[f] = 0
            /\ issued' = issued \cup {ids[f] : f \in files} \cup {cs[f] : f \in files}
            /\ Prepare(p, [f \in Files |->
                 IF f \in files THEN NewThread(ids[f], num[f], gs[f], cs[f], as)
                                ELSE NoThread])
    BY Zenon DEF Extract
  <1>. DEFINE files == unnamed \cup named
  <1>2. PICK ids \in [files -> FreshThreads], cs \in [files -> FreshComments],
             num \in [files -> 0..MaxNumber], gs \in [files -> Goals],
             as \in {<<>>, <<AnchorAt(at)>>} :
            /\ files # {}
            /\ IsNextNumber(store, n)
            /\ \A f, g \in files : ids[f] = ids[g] \/ cs[f] = cs[g] => f = g
            /\ \A f \in unnamed : ids[f] = f
            /\ {num[f] : f \in unnamed} = n .. last
            /\ \A f, g \in unnamed : num[f] = num[g] => f = g
            /\ \A f \in named : num[f] = 0
            /\ issued' = issued \cup {ids[f] : f \in files} \cup {cs[f] : f \in files}
            /\ Prepare(p, [f \in Files |->
                 IF f \in files THEN NewThread(ids[f], num[f], gs[f], cs[f], as)
                                ELSE NoThread])
    BY <1>1
  <1>. DEFINE new == [f \in Files |->
                 IF f \in files
                 THEN NewThread(ids[f], num[f], gs[f], cs[f], as)
                 ELSE NoThread]
  <1>3. files \subseteq Files
    BY DEF FreshThreads, Files
  <1>4. ASSUME NEW f \in files
        PROVE  new[f] \in Thread /\ new[f].number = num[f]
    <2>1. at \in 1..MaxCommit
      BY ThreadsAssumption DEF TypeOK
    <2>2. as \in Seq(Anchor)
      <3>1. <<AnchorAt(at)>> \in Seq(Anchor) /\ <<>> \in Seq(Anchor)
        BY <2>1, AnchorAtType
      <3>. QED  BY <1>2, <3>1
    <2>3. ids[f] \in ThreadIds /\ cs[f] \in CommentIds /\ num[f] \in 0..MaxNumber /\ gs[f] \in Goals
      BY <1>2 DEF FreshThreads, FreshComments
    <2>4. new[f] = NewThread(ids[f], num[f], gs[f], cs[f], as)
      BY <1>3
    <2>5. \A a \in Seq(Anchor) :
            /\ NewThread(ids[f], num[f], gs[f], cs[f], a) \in Thread
            /\ NewThread(ids[f], num[f], gs[f], cs[f], a).number = num[f]
      BY ONLY <2>3, ThreadsAssumption DEF NewThread, Thread
    <2>. HIDE DEF new
    <2>. QED  BY Zenon, <2>2, <2>4, <2>5
  <1>5. \A f \in Files : new[f] # NoThread => f \in files
    OBVIOUS
  <1>6. \A f \in files : num[f] \in Nat
    BY <1>2, ThreadsAssumption
  <1>7. \A f \in unnamed : f \in ThreadIds \ issued /\ f \in issued' /\ n <= num[f]
    BY <1>2 DEF FreshThreads
  <1>8. \A g \in Stored(store) : store[g].number < n /\ store[g].number \in Nat
    BY <1>2, StoredType, ThreadsAssumption DEF IsNextNumber, Thread
  <1>9. issued' \subseteq ThreadIds \cup CommentIds /\ issued \subseteq issued'
    BY <1>2 DEF TypeOK, FreshThreads, FreshComments
  <1>10. Prepare(p, new) /\ pc[p] = "locked"
    BY <1>2 DEF Extract, Reading
  <1>11. new \in Directory
    <2>1. \A f \in Files : new[f] \in Thread \cup {NoThread}
      BY <1>4
    <2>2. new = [f \in Files |-> new[f]]
      OBVIOUS
    <2>. HIDE DEF new
    <2>. QED  BY <2>1, <2>2 DEF Directory
  <1>. HIDE DEF new
  <1>12. Writable(new)
    <2>1. ASSUME NEW f \in Files, new[f] # NoThread
          PROVE  \/ f \in Groups /\ new[f].number = 0
                 \/ /\ f \in ThreadIds \ issued /\ f \in issued'
                    /\ \A g \in Stored(store) : store[g].number < new[f].number
      <3>1. CASE f \in named
        BY <3>1, <1>2, <1>4
      <3>2. CASE f \in unnamed
        BY <3>2, <1>4, <1>6, <1>7, <1>8
      <3>. QED  BY <2>1, <1>5, <3>1, <3>2
    <2>2. ASSUME NEW f \in Files, NEW g \in Files, new[f] # NoThread, new[g] # NoThread,
                 new[f].number = new[g].number, new[f].number > 0
          PROVE  f = g
      BY <2>2, <1>2, <1>4, <1>5
    <2>. QED  BY <2>1, <2>2, <1>11 DEF Writable
  <1>. QED  BY <1>9, <1>10, <1>12 DEF Prepared

LEMMA ReadPrepares == ASSUME TypeOK, NEW p \in Procs, Read(p) PROVE Prepared(p)
  BY CreatePrepares, SpawnPrepares, AddCommentPrepares, UpdateStatusPrepares, UpdateGoalPrepares,
     AddDependenciesPrepares, RemoveDependenciesPrepares, ExtractPrepares, FailPrepares
  DEF Read

-----------------------------------------------------------------------------
(* The other steps of a locked command.                                    *)

LEMMA WriteInv == ASSUME Inv, NEW p \in Procs, Write(p) PROVE Inv'
  <1>. USE DEF Inv
  <1>1. PICK f \in Files :
          /\ pending[p][f] # NoThread
          /\ store' = [store EXCEPT ![f] = pending[p][f]]
          /\ pending' = [pending EXCEPT ![p][f] = NoThread]
    BY DEF Write
  <1>2. UNCHANGED lockVars /\ UNCHANGED <<issued, loaded, source, copy, target, head>>
    BY DEF Write
  <1>3. LockInv'
    BY <1>2, LockStutterInv
  <1>4. pending[p][f] \in Thread /\ store \in Directory /\ pending \in [Procs -> Directory]
    BY <1>1 DEF TypeOK, Directory
  <1>5. TypeOK'
    BY <1>1, <1>2, <1>3, <1>4 DEF LockInv, TypeOK, Directory
  <1>6. \A q \in Procs, g \in Files : pending'[q][g] # NoThread =>
          pending'[q][g] = pending[q][g] /\ (q = p => g # f)
    BY <1>1, <1>4 DEF Directory
  <1>7. PendingLocked'
    BY <1>2, <1>6 DEF NumberInv, PendingLocked, lockVars
  <1>8. CASE ~overlap'
    <2>1. ~overlap /\ UniqueNumbers /\ StoreSound /\ PendingSound /\ CopySound
      BY <1>2, <1>8 DEF NumberInv, lockVars
    <2>2. \A q \in Procs, g \in Files : pending[q][g] # NoThread => q = p
      BY <1>1, <2>1 DEF LockInv, AloneUntilOverlap, Holders, NumberInv, PendingLocked
    <2>3. Stored(store') = Stored(store) \cup {f} /\ store'[f] = pending[p][f]
      BY <1>1, <1>4 DEF Stored, Directory
    <2>4. \A g \in Stored(store') : g # f => g \in Stored(store) /\ store'[g] = store[g]
      BY <1>1, <1>4, <2>3 DEF Directory
    <2>5. UniqueNumbers'
      BY <2>1, <2>3, <2>4, <1>1 DEF UniqueNumbers, PendingSound
    <2>6. StoreSound'
      BY <2>1, <2>3, <2>4, <1>1, <1>2 DEF StoreSound, PendingSound, NamedZero
    <2>7. PendingSound'
      BY <2>1, <2>2, <2>3, <2>4, <1>1, <1>2, <1>6 DEF PendingSound, NamedZero
    <2>8. CopySound'
      BY <2>1, <2>3, <2>4, <1>1, <1>2 DEF CopySound, PendingSound
    <2>. QED  BY <1>3, <1>5, <1>7, <2>5, <2>6, <2>7, <2>8 DEF NumberInv
  <1>. QED  BY <1>3, <1>5, <1>7, <1>8 DEF NumberInv

(* A step that changes neither the directory nor what is left to write     *)
(* keeps the numbers, whatever it does to the lock, if it keeps the lock's *)
(* invariant and releases nothing that has something left to write.        *)
LEMMA FrameInv ==
  ASSUME Inv, LockInv', overlap => overlap',
         UNCHANGED <<store, issued, source, copy>>,
         loaded' \in [Procs -> BOOLEAN], target' \in [Procs -> 0..MaxCommit], head' \in 1..MaxCommit,
         pending' \in [Procs -> Directory],
         \A q \in Procs : pending'[q] = pending[q] \/ pending'[q] = Nothing,
         \A q \in Procs : pc'[q] # pc[q] /\ pc[q] = "locked" => pending'[q] = Nothing
  PROVE  Inv'
  <1>. USE DEF Inv
  <1>1. TypeOK'
    BY DEF TypeOK, LockInv
  <1>2. \A q \in Procs, f \in Files : pending'[q][f] # NoThread =>
          pending'[q] = pending[q] /\ pc'[q] = pc[q] 
    BY DEF Nothing, NumberInv, PendingLocked
  <1>3. PendingLocked'
    BY <1>2 DEF NumberInv, PendingLocked
  <1>4. CASE ~overlap'
    <2>1. UniqueNumbers /\ StoreSound /\ PendingSound /\ CopySound
      BY <1>4 DEF NumberInv
    <2>2. UniqueNumbers' /\ StoreSound' /\ CopySound'
      BY <2>1 DEF UniqueNumbers, StoreSound, CopySound, Stored
    <2>3. PendingSound'
      BY <2>1, <1>2 DEF PendingSound, Stored
    <2>. QED  BY <1>1, <1>3, <2>2, <2>3 DEF NumberInv
  <1>. QED  BY <1>1, <1>3, <1>4 DEF NumberInv

LEMMA StartInv == ASSUME Inv, NEW p \in Procs, Start(p) PROVE Inv'
  <1>1. LockInv'
    BY OpenInv DEF Start, Inv
  <1>2. overlap' = overlap /\ UNCHANGED storeVars
        /\ pc[p] = "idle" /\ pc' = [pc EXCEPT ![p] = "waiting"]
    BY DEF Start, Open
  <1>3. \A q \in Procs : pc[q] = "locked" => pc'[q] = pc[q]
    BY <1>2 DEF Inv, LockInv, LockTypeOK
  <1>. QED  BY <1>1, <1>2, <1>3, FrameInv DEF storeVars, Inv, TypeOK

LEMMA GrantedInv == ASSUME Inv, NEW p \in Procs, Granted(p) PROVE Inv'
  <1>1. LockInv'
    BY AcquireInv DEF Granted, Inv
  <1>2. (overlap => overlap') /\ UNCHANGED storeVars
        /\ pc[p] = "waiting" /\ pc' = [pc EXCEPT ![p] = "locked"]
    BY Zenon DEF Granted, Acquire
  <1>3. \A q \in Procs : pc[q] = "locked" => pc'[q] = pc[q]
    BY <1>2 DEF Inv, LockInv, LockTypeOK
  <1>. QED  BY <1>1, <1>2, <1>3, FrameInv DEF storeVars, Inv, TypeOK

LEMMA ReleaseInv == ASSUME Inv, NEW p \in Procs, Release(p) PROVE Inv'
  <1>1. LockInv'
    BY UnlockInv DEF Release, Inv
  <1>2. overlap' = overlap /\ UNCHANGED <<store, issued, pending, source, copy, target, head>>
        /\ pending[p] = Nothing /\ pc' = [pc EXCEPT ![p] = "unlocked"]
        /\ loaded' = [loaded EXCEPT ![p] = FALSE]
    BY DEF Release, Unlock
  <1>3. \A q \in Procs : pc'[q] # pc[q] => q = p
    BY <1>2 DEF Inv, LockInv, LockTypeOK
  <1>4. loaded' \in [Procs -> BOOLEAN]
    BY <1>2 DEF Inv, TypeOK
  <1>. QED  BY <1>1, <1>2, <1>3, <1>4, FrameInv DEF Inv, TypeOK

LEMMA ReturnInv == ASSUME Inv, NEW p \in Procs, Return(p) PROVE Inv'
  <1>1. LockInv'
    BY UnlinkInv DEF Return, Inv
  <1>2. overlap' = overlap /\ UNCHANGED storeVars
        /\ pc[p] = "unlocked" /\ pc' = [pc EXCEPT ![p] = "idle"]
    BY DEF Return, Unlink
  <1>3. \A q \in Procs : pc[q] = "locked" => pc'[q] = pc[q]
    BY <1>2 DEF Inv, LockInv, LockTypeOK
  <1>. QED  BY <1>1, <1>2, <1>3, FrameInv DEF storeVars, Inv, TypeOK

LEMMA DieInv == ASSUME Inv, NEW p \in Procs, Die(p) PROVE Inv'
  <1>1. LockInv'
    BY CrashInv DEF Die, Inv
  <1>2. overlap' = overlap /\ UNCHANGED <<store, issued, source, copy, target, head>>
        /\ pc' = [pc EXCEPT ![p] = "idle"]
        /\ loaded' = [loaded EXCEPT ![p] = FALSE]
        /\ pending' = [pending EXCEPT ![p] = Nothing]
    BY DEF Die, Crash
  <1>3. \A q \in Procs : q # p => pc'[q] = pc[q] /\ pending'[q] = pending[q]
    BY <1>2 DEF Inv, TypeOK, LockInv, LockTypeOK
  <1>4. pending'[p] = Nothing
    BY <1>2 DEF Inv, TypeOK
  <1>5. loaded' \in [Procs -> BOOLEAN] /\ pending' \in [Procs -> Directory]
    BY <1>2, NothingType DEF Inv, TypeOK
  <1>. QED  BY <1>1, <1>2, <1>3, <1>4, <1>5, FrameInv DEF Inv, TypeOK

-----------------------------------------------------------------------------
(* Tracing, removal and commits.                                           *)

LEMMA ReadCopyInv == ASSUME Inv, NEW p \in Procs, ReadCopy(p) PROVE Inv'
  <1>. USE DEF Inv
  <1>1. PICK f \in Stored(store) :
          source' = [source EXCEPT ![p] = f] /\ copy' = [copy EXCEPT ![p] = store[f]]
    BY DEF ReadCopy
  <1>2. UNCHANGED lockVars /\ UNCHANGED <<store, issued, loaded, pending, target, head>> /\ "trace" \in Ops
    BY DEF ReadCopy
  <1>3. LockInv'
    BY <1>2, LockStutterInv
  <1>4. f \in Files /\ store[f] \in Thread
    BY StoredType
  <1>5. TypeOK'
    BY <1>1, <1>2, <1>3, <1>4 DEF TypeOK, LockInv
  <1>6. NumberInv'
    <2>1. PendingLocked'
      BY <1>2 DEF NumberInv, PendingLocked, lockVars
    <2>2. CASE ~overlap'
      <3>1. UniqueNumbers /\ StoreSound /\ PendingSound /\ CopySound
        BY <1>2, <2>2 DEF NumberInv, lockVars
      <3>2. UniqueNumbers' /\ StoreSound' /\ PendingSound'
        BY <1>2, <3>1 DEF UniqueNumbers, StoreSound, PendingSound
      <3>3. CopySound'
        BY <1>1, <1>2, <3>1 DEF CopySound, TypeOK
      <3>. QED  BY <2>1, <3>2, <3>3 DEF NumberInv
    <2>. QED  BY <2>1, <2>2 DEF NumberInv
  <1>. QED  BY <1>3, <1>5, <1>6

LEMMA ReadHeadInv == ASSUME Inv, NEW p \in Procs, ReadHead(p) PROVE Inv'
  <1>1. LockInv'
    BY LockStutterInv DEF ReadHead, Inv
  <1>2. target' \in [Procs -> 0..MaxCommit]
    BY ThreadsAssumption DEF ReadHead, Inv, TypeOK
  <1>3. pc' = pc /\ overlap' = overlap
    BY DEF ReadHead, lockVars
  <1>. QED  BY <1>1, <1>2, <1>3, FrameInv DEF ReadHead, Inv, TypeOK

(* Removing a file, or writing back a traced copy of one that is still     *)
(* there, leaves the numbers as they are.                                  *)
LEMMA StoreStepInv ==
  ASSUME Inv, UNCHANGED lockVars, UNCHANGED <<issued, loaded, pending, head>>, TypeOK',
         NEW f \in Files, NEW t \in Thread \cup {NoThread}, store' = [store EXCEPT ![f] = t],
         ~overlap /\ t # NoThread => f \in Stored(store) /\ t.number = store[f].number,
         \A q \in Procs : copy'[q] # NoThread =>
           t # NoThread /\ copy'[q] = copy[q] /\ source'[q] = source[q]
  PROVE  Inv'
  <1>. USE DEF Inv
  <1>1. LockInv'
    BY LockStutterInv
  <1>2. PendingLocked'
    BY DEF NumberInv, PendingLocked, lockVars
  <1>3. CASE ~overlap'
    <2>1. ~overlap /\ UniqueNumbers /\ StoreSound /\ PendingSound /\ CopySound
      BY <1>3 DEF NumberInv, lockVars
    <2>2. \A g \in Stored(store)' : g \in Stored(store) /\ store'[g].number = store[g].number
      BY <2>1 DEF Stored, TypeOK, Directory
    <2>3. t # NoThread => \A g \in Stored(store) : g \in Stored(store)'
      BY DEF Stored, TypeOK, Directory
    <2>4. issued' = issued /\ pending' = pending
          /\ \A q \in Procs : copy'[q] # NoThread =>
               t # NoThread /\ copy'[q] = copy[q] /\ source'[q] = source[q]
      OBVIOUS
    <2>5. UniqueNumbers' /\ StoreSound'
      BY ONLY <2>1, <2>2, <2>4 DEF UniqueNumbers, StoreSound, NamedZero
    <2>6. PendingSound'
      BY ONLY <2>1, <2>2, <2>4 DEF PendingSound, NamedZero
    <2>7. CopySound'
      BY ONLY <2>1, <2>2, <2>3, <2>4 DEF CopySound
    <2>. QED  BY <1>1, <1>2, <2>5, <2>6, <2>7 DEF NumberInv
  <1>. QED  BY <1>1, <1>2, <1>3 DEF NumberInv

LEMMA TraceDoneType ==
  ASSUME TypeOK, NEW p \in Procs, TraceDone(p), store' \in Directory, LockTypeOK'
  PROVE  /\ TypeOK'
         /\ \A q \in Procs : copy'[q] # NoThread => copy'[q] = copy[q] /\ source'[q] = source[q]
  BY ThreadsAssumption DEF TypeOK, TraceDone

LEMMA WriteTracedInv == ASSUME Inv, NEW p \in Procs, WriteTraced(p) PROVE Inv'
  <1>. USE DEF Inv
  <1>1. copy[p] \in Thread /\ target[p] \in 1..MaxCommit /\ copy[p] # NoThread /\ TraceDone(p)
    BY ThreadsAssumption DEF WriteTraced, TypeOK
  <1>2. PICK t \in Thread :
          t.number = copy[p].number /\ store' = [store EXCEPT ![source[p]] = t]
    BY <1>1, TracedType DEF WriteTraced
  <1>3. t # NoThread
    BY ThreadsAssumption
  <1>4. CASE source[p] \in Files
    <2>1. store' \in Directory
      BY <1>2, <1>4 DEF TypeOK, Directory
    <2>2. UNCHANGED lockVars /\ LockTypeOK' /\ UNCHANGED <<issued, loaded, pending, head>>
      BY <1>1, LockStutterInv DEF TraceDone, LockInv
    <2>3. ~overlap => source[p] \in Stored(store) /\ t.number = store[source[p]].number
      BY <1>1, <1>2 DEF NumberInv, CopySound
    <2>. QED  BY <1>1, <1>2, <1>3, <1>4, <2>1, <2>2, <2>3, StoreStepInv, TraceDoneType
  <1>5. CASE source[p] \notin Files
    <2>1. store' = store
      BY <1>2, <1>5 DEF TypeOK, Directory
    <2>2. overlap
      BY <1>1, <1>5 DEF NumberInv, CopySound, Stored
    <2>3. LockInv' /\ overlap' /\ PendingLocked'
      BY <1>1, <2>2, LockStutterInv DEF TraceDone, lockVars, NumberInv, PendingLocked
    <2>. QED  BY <1>1, <2>1, <2>3, TraceDoneType DEF NumberInv, LockInv, TypeOK
  <1>. QED  BY <1>4, <1>5

LEMMA QuitTraceInv == ASSUME Inv, NEW p \in Procs, QuitTrace(p) PROVE Inv'
  <1>. USE DEF Inv
  <1>1. UNCHANGED lockVars /\ UNCHANGED <<store, issued, pending>> /\ TraceDone(p)
    BY DEF QuitTrace, TraceDone
  <1>2. LockInv' /\ TypeOK' /\ PendingLocked'
    BY <1>1, LockStutterInv, TraceDoneType
    DEF LockInv, TypeOK, NumberInv, PendingLocked, lockVars
  <1>3. CASE ~overlap'
    <2>1. UniqueNumbers /\ StoreSound /\ PendingSound /\ CopySound
      BY <1>1, <1>3 DEF NumberInv, lockVars
    <2>2. UniqueNumbers' /\ StoreSound' /\ PendingSound'
      BY <1>1, <2>1 DEF UniqueNumbers, StoreSound, PendingSound
    <2>3. CopySound'
      BY <1>1, <2>1, TraceDoneType DEF CopySound, TypeOK, TraceDone
    <2>. QED  BY <1>2, <2>2, <2>3 DEF NumberInv
  <1>. QED  BY <1>2, <1>3 DEF NumberInv

(* Nothing is claimed of a user who removes files while others trace. *)
LEMMA CleanupInv == ASSUME Inv, ~({"trace", "cleanup"} \subseteq Ops), Cleanup PROVE Inv'
  <1>. USE DEF Inv
  <1>1. PICK f \in Stored(store) : store' = [store EXCEPT ![f] = NoThread]
    BY DEF Cleanup
  <1>2. UNCHANGED lockVars /\ UNCHANGED <<issued, loaded, pending, source, copy, target, head>>
        /\ "trace" \notin Ops
    BY DEF Cleanup
  <1>3. f \in Files /\ LockTypeOK'
    BY <1>2, StoredType, LockStutterInv DEF LockInv
  <1>4. TypeOK'
    BY <1>1, <1>2, <1>3 DEF TypeOK, Directory
  <1>5. PendingLocked'
    BY <1>2 DEF NumberInv, PendingLocked, lockVars
  <1>6. CASE overlap
    BY <1>2, <1>4, <1>5, <1>6, LockStutterInv DEF NumberInv, lockVars
  <1>7. CASE ~overlap
    <2>1. \A q \in Procs : copy'[q] = NoThread
      BY <1>2, <1>7 DEF NumberInv, CopySound
    <2>. QED  BY <1>1, <1>2, <1>3, <1>4, <2>1, StoreStepInv
  <1>. QED  BY <1>6, <1>7

LEMMA CommitInv == ASSUME Inv, Commit PROVE Inv'
  <1>1. LockInv' /\ pc' = pc /\ overlap' = overlap
    BY LockStutterInv DEF Commit, Inv, lockVars
  <1>2. head' \in 1..MaxCommit
    BY ThreadsAssumption DEF Commit, Inv, TypeOK
  <1>. QED  BY <1>1, <1>2, FrameInv DEF Commit, Inv, TypeOK

-----------------------------------------------------------------------------
(* The types alone.  They need no more than the lock's invariant, and so   *)
(* hold whatever users do to the directory.                                *)

LEMMA WriteTypes ==
  ASSUME TypeOK, NEW p \in Procs, Write(p)
  PROVE  store' \in Directory /\ pending' \in [Procs -> Directory]
  <1>1. PICK f \in Files :
          /\ pending[p][f] # NoThread
          /\ store' = [store EXCEPT ![f] = pending[p][f]]
          /\ pending' = [pending EXCEPT ![p][f] = NoThread]
    BY DEF Write
  <1>2. pending[p][f] \in Thread /\ store \in Directory /\ pending \in [Procs -> Directory]
    BY <1>1 DEF TypeOK, Directory
  <1>. QED  BY <1>1, <1>2 DEF Directory

(* A copy is a thread, wherever it is written to. *)
LEMMA TracedTypes ==
  ASSUME TypeOK, NEW p \in Procs, WriteTraced(p)
  PROVE  store' \in Directory
  <1>1. copy[p] \in Thread /\ target[p] \in 1..MaxCommit
    BY ThreadsAssumption DEF WriteTraced, TypeOK
  <1>2. PICK t \in Thread : store' = [store EXCEPT ![source[p]] = t]
    BY <1>1, TracedType DEF WriteTraced
  <1>. QED  BY <1>2 DEF TypeOK, Directory

LEMMA LockedTypes ==
  ASSUME TypeOK, LockInv, NEW p \in Procs, Start(p) \/ Step(p) \/ Die(p)
  PROVE  TypeOK' /\ LockInv'
  <1>1. CASE Start(p)
    <2>1. LockInv'
      BY <1>1, OpenInv DEF Start
    <2>. QED  BY <1>1, <2>1 DEF Start, storeVars, TypeOK, LockInv
  <1>2. CASE Granted(p)
    <2>1. LockInv'
      BY <1>2, AcquireInv DEF Granted
    <2>. QED  BY <1>2, <2>1 DEF Granted, storeVars, TypeOK, LockInv
  <1>3. CASE Read(p)
    BY <1>3, ReadPrepares, PrepareTypes
  <1>4. CASE Write(p)
    <2>1. LockInv'
      BY <1>4, LockStutterInv DEF Write
    <2>2. UNCHANGED <<issued, loaded, source, copy, target, head>>
      BY <1>4 DEF Write
    <2>. QED  BY <1>4, <2>1, <2>2, WriteTypes DEF TypeOK, LockInv
  <1>5. CASE Release(p)
    <2>1. LockInv'
      BY <1>5, UnlockInv DEF Release
    <2>. QED  BY <1>5, <2>1 DEF Release, TypeOK, LockInv
  <1>6. CASE Return(p)
    <2>1. LockInv'
      BY <1>6, UnlinkInv DEF Return
    <2>. QED  BY <1>6, <2>1 DEF Return, storeVars, TypeOK, LockInv
  <1>7. CASE Die(p)
    <2>1. LockInv'
      BY <1>7, CrashInv DEF Die
    <2>. QED  BY <1>7, <2>1, NothingType DEF Die, TypeOK, LockInv
  <1>. QED  BY <1>1, <1>2, <1>3, <1>4, <1>5, <1>6, <1>7 DEF Step

LEMMA TraceTypes ==
  ASSUME TypeOK, LockInv, NEW p \in Procs, Trace(p)
  PROVE  TypeOK' /\ LockInv'
  <1>1. UNCHANGED lockVars
    BY DEF Trace, ReadCopy, ReadHead, WriteTraced, QuitTrace, TraceDone
  <1>2. LockInv' /\ LockTypeOK'
    BY <1>1, LockStutterInv DEF LockInv
  <1>3. CASE ReadCopy(p)
    <2>1. PICK f \in Stored(store) :
            source' = [source EXCEPT ![p] = f] /\ copy' = [copy EXCEPT ![p] = store[f]]
      BY <1>3 DEF ReadCopy
    <2>2. UNCHANGED <<store, issued, loaded, pending, target, head>>
      BY <1>3 DEF ReadCopy
    <2>. QED  BY <1>2, <2>1, <2>2, StoredType DEF TypeOK
  <1>4. CASE ReadHead(p)
    BY <1>2, <1>4, ThreadsAssumption DEF ReadHead, TypeOK
  <1>5. CASE WriteTraced(p)
    BY <1>2, <1>5, TracedTypes, TraceDoneType DEF WriteTraced
  <1>6. CASE QuitTrace(p)
    <2>1. store' \in Directory /\ TraceDone(p)
      BY <1>6 DEF QuitTrace, TypeOK
    <2>. QED  BY <1>2, <2>1, TraceDoneType
  <1>. QED  BY <1>3, <1>4, <1>5, <1>6 DEF Trace

LEMMA NextTypes == ASSUME TypeOK, LockInv, [Next]_vars PROVE TypeOK' /\ LockInv'
  <1>1. CASE UNCHANGED vars
    <2>1. LockInv'
      BY <1>1, LockStutterInv DEF vars
    <2>. QED  BY <1>1, <2>1 DEF vars, storeVars, TypeOK, LockInv
  <1>2. CASE Cleanup
    <2>1. PICK f \in Stored(store) : store' = [store EXCEPT ![f] = NoThread]
      BY <1>2 DEF Cleanup
    <2>2. UNCHANGED lockVars /\ UNCHANGED <<issued, loaded, pending, source, copy, target, head>>
      BY <1>2 DEF Cleanup
    <2>3. LockInv' /\ LockTypeOK'
      BY <2>2, LockStutterInv DEF LockInv
    <2>4. store' \in Directory
      BY <2>1, StoredType DEF TypeOK, Directory
    <2>. QED  BY <2>2, <2>3, <2>4 DEF TypeOK
  <1>3. CASE Commit
    <2>1. LockInv' /\ LockTypeOK'
      BY <1>3, LockStutterInv DEF Commit, LockInv
    <2>. QED  BY <1>3, <2>1, ThreadsAssumption DEF Commit, TypeOK
  <1>. QED  BY <1>1, <1>2, <1>3, LockedTypes, TraceTypes DEF Next

-----------------------------------------------------------------------------
(* Every execution.                                                        *)

LEMMA InitInv == Init => Inv
  <1>. SUFFICES ASSUME Init PROVE Inv
    OBVIOUS
  <1>1. LockInv
    BY LockInitInv DEF Init
  <1>2. TypeOK
    BY <1>1, NothingType, ThreadsAssumption DEF Init, TypeOK, LockInv
  <1>3. \A f \in Files : Nothing[f] = NoThread
    BY DEF Nothing
  <1>4. NumberInv
    BY <1>3 DEF Init, NumberInv, PendingLocked, UniqueNumbers, StoreSound, PendingSound, CopySound, Stored
  <1>. QED  BY <1>1, <1>2, <1>4 DEF Inv

LEMMA NextInv == ASSUME ~({"trace", "cleanup"} \subseteq Ops), Inv, [Next]_vars PROVE Inv'
  <1>1. CASE UNCHANGED vars
    BY <1>1, LockStutterInv
    DEF vars, storeVars, lockVars, Inv, TypeOK, LockInv, LockTypeOK, NumberInv, PendingLocked,
        UniqueNumbers, StoreSound, PendingSound, CopySound
  <1>2. ASSUME NEW p \in Procs, Start(p) \/ Step(p) \/ Die(p) \/ Trace(p)
        PROVE  Inv'
    <2>1. CASE Start(p) \/ Die(p)
      BY <2>1, StartInv, DieInv
    <2>2. CASE Read(p)
      BY <2>2, ReadPrepares, PrepareInv DEF Inv
    <2>3. CASE Granted(p) \/ Write(p) \/ Release(p) \/ Return(p)
      BY <2>3, GrantedInv, WriteInv, ReleaseInv, ReturnInv
    <2>4. CASE Trace(p)
      BY <2>4, ReadCopyInv, ReadHeadInv, WriteTracedInv, QuitTraceInv DEF Trace
    <2>. QED  BY <1>2, <2>1, <2>2, <2>3, <2>4 DEF Step
  <1>. QED  BY <1>1, <1>2, CleanupInv, CommitInv DEF Next

(* In every execution, of any number of processes, the directory holds     *)
(* well-formed threads, and so does what the processes have read and have  *)
(* still to write: no command, anchor trace, failure, crash or removal by  *)
(* a user leaves a malformed file behind.                                  *)
THEOREM StoreTypes == Spec => []TypeOK
  <1>1. Init => TypeOK /\ LockInv
    BY InitInv DEF Inv
  <1>2. TypeOK /\ LockInv /\ [Next]_vars => TypeOK' /\ LockInv'
    BY NextTypes
  <1>. QED  BY <1>1, <1>2, PTL DEF Spec

(* Every execution, of any number of processes, in which users do not      *)
(* remove thread files while others trace anchors, keeps its types and the *)
(* invariant that thread numbers rest on: only a lock holder has files to  *)
(* write, and until the lock fails they clash with nothing.                *)
THEOREM StoreInvariance ==
  ASSUME ~({"trace", "cleanup"} \subseteq Ops)
  PROVE  Spec => [](TypeOK /\ NumberInv)
  <1>1. Inv => TypeOK /\ NumberInv
    BY DEF Inv
  <1>2. Inv /\ [Next]_vars => Inv'
    BY NextInv
  <1>. QED  BY <1>1, <1>2, InitInv, PTL DEF Spec

(* In the same executions no two threads share a number, as long as the    *)
(* lock excludes.                                                          *)
THEOREM NumbersUnique ==
  ASSUME ~({"trace", "cleanup"} \subseteq Ops)
  PROVE  Spec => []UniqueWhileExclusive
  <1>1. TypeOK /\ NumberInv => UniqueWhileExclusive
    BY DEF NumberInv, UniqueWhileExclusive
  <1>. QED  BY <1>1, StoreInvariance, PTL

-----------------------------------------------------------------------------
(* The refinement of AtomicStore.                                         *)

LEMMA AbstractThreads ==
  /\ Abstract!Files = Files
  /\ Abstract!Thread = Thread
  /\ Abstract!Directory = Directory
  /\ Abstract!Nothing = Nothing
  BY DEF Abstract!Files, Abstract!Thread, Abstract!Anchor, Abstract!Directory, Abstract!Nothing,
         Files, Thread, Anchor, Directory, Nothing

LEMMA AbstractStored == Abstract!Stored(store) = Stored(store)
  BY DEF Abstract!Stored, Abstract!Files, Stored, Files

LEMMA AbstractNew ==
  ASSUME NEW id, NEW n, NEW g, NEW c, NEW as
  PROVE  Abstract!NewThread(id, n, g, c, as) = NewThread(id, n, g, c, as)
  BY DEF Abstract!NewThread, NewThread

LEMMA AbstractAnchorAt == ASSUME NEW c PROVE Abstract!AnchorAt(c) = AnchorAt(c)
  BY DEF Abstract!AnchorAt, AnchorAt

-----------------------------------------------------------------------------

RefInv == Inv /\ AtomicInv

LEMMA SameEntry ==
  ASSUME store' = store, NEW q \in Procs, pending'[q] = pending[q], NEW f \in Files
  PROVE  /\ IsEdit(q, f) => IsEdit(q, f)'
         /\ IsNew(q, f) => IsNew(q, f)'
  <1>1. IsEdit(q, f) => IsEdit(q, f)'
    BY SMTT(30) DEF IsEdit, Abstract!Amendments, Abstract!Comments, Abstract!Stored, Stored
  <1>2. IsNew(q, f) => IsNew(q, f)'
    BY DEF IsNew, Stored
  <1>. QED  BY <1>1, <1>2

(* A command that reads the directory, or that returns, leaves it alone.   *)
LEMMA FrameAtomic ==
  ASSUME RefInv, Inv', store' = store, issued \subseteq issued', overlap => overlap',
         NEW p \in Procs,
         \A q \in Procs \ {p} : pending'[q] = pending[q],
         \A f \in Files : pending'[p][f] # NoThread =>
           {pending'[p][f].id} \cup pending'[p][f].comments \subseteq issued',
         ~overlap' => \A f \in Files : pending'[p][f] # NoThread => IsEdit(p, f)' \/ IsNew(p, f)'
  PROVE  RefInv'
  <1>. USE DEF RefInv
  <1>1. IssuedInv'
    BY DEF AtomicInv, IssuedInv, Stored
  <1>2. ASSUME ~overlap', NEW q \in Procs, NEW f \in Files, pending'[q][f] # NoThread
        PROVE  IsEdit(q, f)' \/ IsNew(q, f)'
    <2>1. CASE q = p
      BY <1>2, <2>1
    <2>2. CASE q # p
      <3>1. pending'[q] = pending[q]
        BY <2>2
      <3>2. IsEdit(q, f) \/ IsNew(q, f)
        BY <1>2, <3>1 DEF AtomicInv
      <3>. QED  BY <3>1, <3>2, SameEntry
    <2>. QED  BY <2>1, <2>2
  <1>. QED  BY <1>1, <1>2 DEF AtomicInv

LEMMA QuietAtomic ==
  ASSUME RefInv, Inv', store' = store, issued \subseteq issued', overlap => overlap',
         \A q \in Procs : pending'[q] = pending[q] \/ pending'[q] = Nothing
  PROVE  RefInv'
  <1>. USE DEF RefInv
  <1>1. \A q \in Procs, f \in Files : pending'[q][f] # NoThread => pending'[q] = pending[q]
    BY DEF Nothing
  <1>2. IssuedInv'
    BY <1>1 DEF AtomicInv, IssuedInv, Stored
  <1>3. ASSUME ~overlap', NEW q \in Procs, NEW f \in Files, pending'[q][f] # NoThread
        PROVE  IsEdit(q, f)' \/ IsNew(q, f)'
    <2>1. pending'[q] = pending[q]
      BY <1>1, <1>3
    <2>2. IsEdit(q, f) \/ IsNew(q, f)
      BY <1>3, <2>1 DEF AtomicInv
    <2>. QED  BY <2>1, <2>2, SameEntry
  <1>. QED  BY <1>2, <1>3 DEF AtomicInv

-----------------------------------------------------------------------------
(* What each command has to write once it has read the directory.          *)

LEMMA PreparedIs ==
  ASSUME TypeOK, NEW p \in Procs, NEW files, Prepare(p, files)
  PROVE  /\ pending'[p] = files
         /\ \A q \in Procs \ {p} : pending'[q] = pending[q]
         /\ store' = store /\ overlap' = overlap
  BY DEF TypeOK, Prepare, lockVars

LEMMA EditAtomic ==
  ASSUME RefInv, Inv', NEW p \in Procs, issued \subseteq issued',
         NEW f \in Stored(store), NEW t \in Abstract!Amendments(store[f]), t \in Thread,
         {t.id} \cup t.comments \subseteq issued',
         Prepare(p, Only(f, t))
  PROVE  RefInv'
  <1>1. f \in Files
    BY StoredType DEF RefInv, Inv
  <1>2. pending'[p] = Only(f, t) /\ store' = store /\ overlap' = overlap
        /\ \A q \in Procs \ {p} : pending'[q] = pending[q]
    BY PreparedIs DEF RefInv, Inv
  <1>3. \A g \in Files : pending'[p][g] # NoThread => g = f /\ pending'[p][g] = t
    BY <1>1, <1>2, OnlyType
  <1>4. IsEdit(p, f)'
    <2>1. pending'[p][f] = t
      BY <1>1, <1>2, OnlyType
    <2>2. Abstract!Amendments(store[f])' = Abstract!Amendments(store[f])
      BY <1>2 DEF Abstract!Amendments, Abstract!Comments, Abstract!Stored
    <2>. QED  BY <1>2, <1>3, <2>1, <2>2 DEF IsEdit, Stored
  <1>. QED  BY <1>2, <1>3, <1>4, FrameAtomic

LEMMA DrawnFresh ==
  ASSUME RefInv, NEW id \in FreshThreads, NEW c \in FreshComments
  PROVE  /\ \A g \in Stored(store) : store[g].id # id /\ c \notin store[g].comments
         /\ ~overlap => id \notin Stored(store)
  BY DEF RefInv, Inv, NumberInv, StoreSound, AtomicInv, IssuedInv, FreshThreads, FreshComments

Anchors == {<<>>} \cup {<<AnchorAt(at)>> : at \in 1..MaxCommit}

(* A batch of new threads. *)
LEMMA BatchAtomic ==
  ASSUME RefInv, Inv', NEW p \in Procs, issued \subseteq issued', NEW files, Prepare(p, files),
         \A f \in Files : files[f] # NoThread =>
           /\ \E id \in FreshThreads, c \in FreshComments, n \in Nat, g \in Goals, as \in Anchors :
                /\ files[f] = NewThread(id, n, g, c, as)
                /\ id \in issued' /\ c \in issued'
                /\ f \in Groups => n = 0
                /\ f \notin Groups => f = id
           /\ f \notin Groups =>
                /\ files[f].number > 0
                /\ \A g \in Stored(store) : store[g].number < files[f].number
                /\ \/ files[f].number = 1
                   \/ \E g \in Stored(store) : store[g].number = files[f].number - 1
                   \/ \E g \in Files : files[g] # NoThread /\ files[g].number = files[f].number - 1,
         \A f, g \in Files : files[f] # NoThread /\ files[g] # NoThread /\ g # f =>
           files[g].id # files[f].id /\ files[g].comments \cap files[f].comments = {}
  PROVE  RefInv'
  <1>1. pending'[p] = files /\ store' = store /\ overlap' = overlap
        /\ \A q \in Procs \ {p} : pending'[q] = pending[q]
    BY PreparedIs DEF RefInv, Inv
  <1>2. ASSUME NEW f \in Files, files[f] # NoThread
        PROVE  /\ {files[f].id} \cup files[f].comments \subseteq issued'
               /\ ~overlap => IsNew(p, f)'
    <2>1. PICK id \in FreshThreads, c \in FreshComments, n \in Nat, g \in Goals, as \in Anchors :
                /\ files[f] = NewThread(id, n, g, c, as)
                /\ id \in issued' /\ c \in issued'
                /\ f \in Groups => n = 0
                /\ f \notin Groups => f = id
      BY <1>2
    <2>2. files[f].id = id /\ files[f].number = n /\ files[f].goal = g /\ files[f].comments = {c}
      BY <2>1 DEF NewThread
    <2>3. \E cc \in CommentIds, a \in Anchors :
            files[f] = NewThread(files[f].id, files[f].number, files[f].goal, cc, a)
      BY <2>1, <2>2 DEF FreshComments
    <2>4. \A h \in Stored(store) : store[h].id # files[f].id /\ store[h].comments \cap files[f].comments = {}
      BY <2>2, DrawnFresh
    <2>5. f \in Groups => files[f].number = 0
      BY <2>1, <2>2
    <2>6. ~overlap /\ f \notin Groups => f = files[f].id /\ f \notin Stored(store)
      BY <2>1, <2>2, DrawnFresh
    <2>7. ASSUME ~overlap
          PROVE  IsNew(p, f)'
      <3>1. pending'[p] = files /\ Stored(store)' = Stored(store) /\ store' = store
        BY <1>1 DEF Stored
      <3>2. \/ f \in Groups /\ files[f].number = 0
            \/ /\ f = files[f].id /\ f \notin Stored(store) /\ files[f].number > 0
               /\ \A g1 \in Stored(store) : store[g1].number < files[f].number
               /\ \/ files[f].number = 1
                  \/ \E g1 \in Stored(store) : store[g1].number = files[f].number - 1
                  \/ \E g1 \in Files : files[g1] # NoThread /\ files[g1].number = files[f].number - 1
        BY <1>2, <2>5, <2>6, <2>7
      <3>3. \A g1 \in Files : files[g1] # NoThread /\ g1 # f =>
              files[g1].id # files[f].id /\ files[g1].comments \cap files[f].comments = {}
        BY <1>2
      <3>. QED  BY ONLY <3>1, <3>2, <3>3, <2>3, <2>4 DEF IsNew, Anchors
    <2>. QED  BY <2>1, <2>2, <2>7
  <1>. QED  BY <1>1, <1>2, FrameAtomic

LEMMA NewAtomic ==
  ASSUME RefInv, Inv', NEW p \in Procs,
         NEW id \in FreshThreads, NEW c \in FreshComments, NEW n \in 1..MaxNumber,
         NEW g \in Goals, NEW as \in Anchors,
         IsNextNumber(store, n),
         issued' = issued \cup {id, c},
         Prepare(p, Only(id, NewThread(id, n, g, c, as)))
  PROVE  RefInv'
  <1>. DEFINE t == NewThread(id, n, g, c, as)
  <1>1. t.id = id /\ t.number = n /\ t.comments = {c}
    BY DEF NewThread
  <1>2. id \in ThreadIds /\ id \in Files /\ id \notin Groups /\ n \in Nat /\ n > 0
    BY ThreadsAssumption DEF FreshThreads, Files
  <1>3. \A f \in Files : Only(id, t)[f] # NoThread => f = id /\ Only(id, t)[f] = t
    <2>. HIDE DEF t
    <2>. QED  BY <1>2 DEF Only, Nothing
  <1>4. \E i \in FreshThreads, cc \in FreshComments, m \in Nat, h \in Goals, a \in Anchors :
          /\ t = NewThread(i, m, h, cc, a)
          /\ i \in issued' /\ cc \in issued'
          /\ id = i
    <2>1. id \in issued' /\ c \in issued'
      OBVIOUS
    <2>. QED  BY Zenon, <1>2, <2>1
  <1>5. /\ \A f \in Stored(store) : store[f].number < t.number
        /\ t.number = 1 \/ \E f \in Stored(store) : store[f].number = t.number - 1
    BY <1>1 DEF IsNextNumber
  <1>6. Prepare(p, Only(id, t)) /\ issued \subseteq issued'
    OBVIOUS
  <1>. HIDE DEF t
  <1>. QED  BY <1>1, <1>2, <1>3, <1>4, <1>5, <1>6, BatchAtomic

LEMMA CreateAtomic == ASSUME RefInv, Inv', NEW p \in Procs, Create(p) PROVE RefInv'
  <1>1. PICK id \in FreshThreads, c \in FreshComments, n \in 1..MaxNumber, g \in Goals :
          \E as \in {<<>>, <<AnchorAt(head)>>} :
            /\ IsNextNumber(store, n)
            /\ issued' = issued \cup {id, c}
            /\ Prepare(p, Only(id, NewThread(id, n, g, c, as)))
    BY DEF Create
  <1>2. PICK as \in {<<>>, <<AnchorAt(head)>>} :
          /\ IsNextNumber(store, n)
          /\ issued' = issued \cup {id, c}
          /\ Prepare(p, Only(id, NewThread(id, n, g, c, as)))
    BY <1>1
  <1>3. as \in Anchors
    <2>1. head \in 1..MaxCommit
      BY DEF RefInv, Inv, TypeOK
    <2>. QED  BY <2>1 DEF Anchors
  <1>. QED  BY <1>2, <1>3, NewAtomic

LEMMA SpawnAtomic == ASSUME RefInv, Inv', NEW p \in Procs, Spawn(p) PROVE RefInv'
  <1>1. PICK id \in FreshThreads, c \in FreshComments, n \in 1..MaxNumber, g \in Goals :
          /\ IsNextNumber(store, n)
          /\ issued' = issued \cup {id, c}
          /\ Prepare(p, Only(id, NewThread(id, n, g, c, <<>>)))
    BY DEF Spawn
  <1>2. <<>> \in Anchors
    BY DEF Anchors
  <1>. QED  BY <1>1, <1>2, NewAtomic

(* The edits: each changes one field, and draws at most a comment id.      *)
LEMMA StoredIssued ==
  ASSUME RefInv, NEW f \in Stored(store)
  PROVE  {store[f].id} \cup store[f].comments \subseteq issued
  BY DEF RefInv, AtomicInv, IssuedInv

LEMMA AddCommentAtomic == ASSUME RefInv, Inv', NEW p \in Procs, AddComment(p) PROVE RefInv'
  <1>1. PICK f \in Stored(store), c \in FreshComments :
          /\ issued' = issued \cup {c}
          /\ Prepare(p, Only(f, [store[f] EXCEPT !.comments = @ \cup {c}]))
    BY DEF AddComment
  <1>. DEFINE t == [store[f] EXCEPT !.comments = @ \cup {c}]
  <1>2. store[f] \in Thread /\ c \in CommentIds
    BY StoredType DEF RefInv, Inv, FreshComments
  <1>3. t \in Thread /\ t.id = store[f].id /\ t.comments = store[f].comments \cup {c}
    BY <1>2 DEF Thread
  <1>4. \A g \in Stored(store) : c \notin store[g].comments
    BY StoredIssued DEF FreshComments
  <1>5. t \in Abstract!Amendments(store[f])
    <2>1. c \in CommentIds \ Abstract!Comments
      BY <1>2, <1>4, AbstractStored DEF Abstract!Comments
    <2>. QED  BY <2>1 DEF Abstract!Amendments
  <1>6. {t.id} \cup t.comments \subseteq issued'
    BY <1>1, <1>3, StoredIssued
  <1>7. Prepare(p, Only(f, t)) /\ issued \subseteq issued'
    BY <1>1
  <1>. HIDE DEF t
  <1>. QED  BY <1>3, <1>5, <1>6, <1>7, EditAtomic

LEMMA UpdateAtomic ==
  ASSUME RefInv, Inv', NEW p \in Procs, issued' = issued,
         NEW f \in Stored(store), NEW t, Prepare(p, Only(f, t)),
         \/ \E s \in Statuses : t = [store[f] EXCEPT !.status = s]
         \/ \E g \in Goals : t = [store[f] EXCEPT !.goal = g]
         \/ \E ds \in SUBSET ThreadIds : t = [store[f] EXCEPT !.deps = ds]
  PROVE  RefInv'
  <1>1. store[f] \in Thread
    BY StoredType DEF RefInv, Inv
  <1>2. t \in Thread /\ t.id = store[f].id /\ t.comments = store[f].comments
    BY <1>1 DEF Thread
  <1>3. t \in Abstract!Amendments(store[f])
    BY DEF Abstract!Amendments
  <1>4. {t.id} \cup t.comments \subseteq issued'
    BY <1>2, StoredIssued
  <1>. QED  BY <1>2, <1>3, <1>4, EditAtomic

LEMMA UpdateStatusAtomic == ASSUME RefInv, Inv', NEW p \in Procs, UpdateStatus(p) PROVE RefInv'
  <1>1. PICK f \in Stored(store), s \in Statuses :
          Prepare(p, Only(f, [store[f] EXCEPT !.status = s])) /\ issued' = issued
    BY DEF UpdateStatus
  <1>. QED  BY <1>1, UpdateAtomic

LEMMA UpdateGoalAtomic == ASSUME RefInv, Inv', NEW p \in Procs, UpdateGoal(p) PROVE RefInv'
  <1>1. PICK f \in Stored(store), g \in Goals :
          Prepare(p, Only(f, [store[f] EXCEPT !.goal = g])) /\ issued' = issued
    BY DEF UpdateGoal
  <1>. QED  BY <1>1, UpdateAtomic

LEMMA AddDependenciesAtomic == ASSUME RefInv, Inv', NEW p \in Procs, AddDependencies(p) PROVE RefInv'
  <1>1. PICK f \in Stored(store), bs \in SUBSET ThreadIds :
          Prepare(p, Only(f, [store[f] EXCEPT !.deps = @ \cup bs])) /\ issued' = issued
    BY DEF AddDependencies
  <1>2. store[f].deps \cup bs \in SUBSET ThreadIds
    BY StoredType DEF RefInv, Inv, Thread
  <1>3. [store[f] EXCEPT !.deps = @ \cup bs] = [store[f] EXCEPT !.deps = store[f].deps \cup bs]
    OBVIOUS
  <1>. QED  BY <1>1, <1>2, <1>3, UpdateAtomic

LEMMA RemoveDependenciesAtomic == ASSUME RefInv, Inv', NEW p \in Procs, RemoveDependencies(p) PROVE RefInv'
  <1>1. PICK f \in Stored(store), bs \in SUBSET ThreadIds :
          Prepare(p, Only(f, [store[f] EXCEPT !.deps = @ \ bs])) /\ issued' = issued
    BY DEF RemoveDependencies
  <1>2. store[f].deps \ bs \in SUBSET ThreadIds
    BY StoredType DEF RefInv, Inv, Thread
  <1>3. [store[f] EXCEPT !.deps = @ \ bs] = [store[f] EXCEPT !.deps = store[f].deps \ bs]
    OBVIOUS
  <1>. QED  BY <1>1, <1>2, <1>3, UpdateAtomic

LEMMA ExtractAtomic ==
  ASSUME RefInv, Inv', NEW p \in Procs, Extract(p)
  PROVE  RefInv' /\ \E files : Prepare(p, files)
  <1>1. PICK unnamed \in SUBSET FreshThreads, named \in SUBSET Groups,
             n \in 1..MaxNumber, last \in 0..MaxNumber, at \in 1..head :
          LET files == unnamed \cup named IN
          \E ids \in [files -> FreshThreads], cs \in [files -> FreshComments],
             num \in [files -> 0..MaxNumber], gs \in [files -> Goals],
             as \in {<<>>, <<AnchorAt(at)>>} :
            /\ files # {}
            /\ IsNextNumber(store, n)
            /\ \A f, g \in files : ids[f] = ids[g] \/ cs[f] = cs[g] => f = g
            /\ \A f \in unnamed : ids[f] = f
            /\ {num[f] : f \in unnamed} = n .. last
            /\ \A f, g \in unnamed : num[f] = num[g] => f = g
            /\ \A f \in named : num[f] = 0
            /\ issued' = issued \cup {ids[f] : f \in files} \cup {cs[f] : f \in files}
            /\ Prepare(p, [f \in Files |->
                 IF f \in files THEN NewThread(ids[f], num[f], gs[f], cs[f], as)
                                ELSE NoThread])
    BY Zenon DEF Extract
  <1>. DEFINE files == unnamed \cup named
  <1>2. PICK ids \in [files -> FreshThreads], cs \in [files -> FreshComments],
             num \in [files -> 0..MaxNumber], gs \in [files -> Goals],
             as \in {<<>>, <<AnchorAt(at)>>} :
            /\ files # {}
            /\ IsNextNumber(store, n)
            /\ \A f, g \in files : ids[f] = ids[g] \/ cs[f] = cs[g] => f = g
            /\ \A f \in unnamed : ids[f] = f
            /\ {num[f] : f \in unnamed} = n .. last
            /\ \A f, g \in unnamed : num[f] = num[g] => f = g
            /\ \A f \in named : num[f] = 0
            /\ issued' = issued \cup {ids[f] : f \in files} \cup {cs[f] : f \in files}
            /\ Prepare(p, [f \in Files |->
                 IF f \in files THEN NewThread(ids[f], num[f], gs[f], cs[f], as)
                                ELSE NoThread])
    BY <1>1
  <1>. DEFINE new == [f \in Files |->
                 IF f \in files THEN NewThread(ids[f], num[f], gs[f], cs[f], as)
                                ELSE NoThread]
  <1>3. files \subseteq Files /\ (\A f \in files : f \notin Groups => f \in unnamed)
        /\ (\A f \in unnamed : f \notin Groups) /\ (\A f \in files : f \in Groups => f \in named)
    BY ThreadsAssumption DEF FreshThreads, Files
  <1>4. as \in Anchors /\ as \in Seq(Anchor)
    <2>1. at \in 1..MaxCommit
      BY ThreadsAssumption DEF RefInv, Inv, TypeOK
    <2>2. <<AnchorAt(at)>> \in Seq(Anchor) /\ <<>> \in Seq(Anchor)
      BY <2>1, AnchorAtType
    <2>3. as = <<>> \/ as = <<AnchorAt(at)>>
      BY <1>2
    <2>. HIDE DEF new, files
    <2>4. as \in Seq(Anchor)
      BY ONLY <2>2, <2>3
    <2>5. <<>> \in Anchors /\ <<AnchorAt(at)>> \in Anchors
      BY <2>1 DEF Anchors
    <2>. QED  BY ONLY <2>3, <2>4, <2>5
  <1>5. \A f \in Files : new[f] # NoThread => f \in files
    OBVIOUS
  <1>6. \A f \in files : new[f] = NewThread(ids[f], num[f], gs[f], cs[f], as)
    BY <1>3
  <1>7. Prepare(p, new)
    BY <1>2
  <1>8. \A f \in files : /\ ids[f] \in FreshThreads /\ cs[f] \in FreshComments
                         /\ num[f] \in Nat /\ gs[f] \in Goals
                         /\ ids[f] \in issued' /\ cs[f] \in issued'
    BY <1>2, ThreadsAssumption
  <1>9. \A f \in files : new[f].number = num[f] /\ new[f].id = ids[f] /\ new[f].comments = {cs[f]}
    <2>. HIDE DEF new, files
    <2>1. ASSUME NEW f \in files
          PROVE  new[f].number = num[f] /\ new[f].id = ids[f] /\ new[f].comments = {cs[f]}
      <3>1. new[f] = NewThread(ids[f], num[f], gs[f], cs[f], as)
        BY <1>6
      <3>. QED  BY ONLY <3>1 DEF NewThread
    <2>. QED  BY <2>1
  <1>10. issued \subseteq issued'
    BY <1>2
  <1>11. \A g \in Stored(store) : store[g].number < n /\ store[g].number \in Nat
    BY <1>2, StoredType, ThreadsAssumption DEF RefInv, Inv, IsNextNumber, Thread
  <1>. HIDE DEF new
  <1>12. \A f \in unnamed : new[f] # NoThread
    <2>1. \A f \in unnamed : new[f] \in Thread
      <3>1. \A f \in unnamed : ids[f] \in ThreadIds /\ cs[f] \in CommentIds /\ gs[f] \in Goals
                               /\ num[f] \in 0..MaxNumber
        BY <1>2, <1>8 DEF FreshThreads, FreshComments
      <3>3. \A a \in Seq(Anchor), f \in unnamed :
              NewThread(ids[f], num[f], gs[f], cs[f], a) \in Thread
        BY ONLY <3>1, NewThreadType
      <3>. QED  BY <1>4, <1>6, <3>3, Zenon
    <2>. QED  BY <2>1, ThreadsAssumption
  <1>13. ASSUME NEW f \in Files, new[f] # NoThread
         PROVE  /\ \E id \in FreshThreads, c \in FreshComments, m \in Nat, g \in Goals, a \in Anchors :
                     /\ new[f] = NewThread(id, m, g, c, a)
                     /\ id \in issued' /\ c \in issued'
                     /\ f \in Groups => m = 0
                     /\ f \notin Groups => f = id
                /\ f \notin Groups =>
                     /\ new[f].number > 0
                     /\ \A g \in Stored(store) : store[g].number < new[f].number
                     /\ \/ new[f].number = 1
                        \/ \E g \in Stored(store) : store[g].number = new[f].number - 1
                        \/ \E g \in Files : new[g] # NoThread /\ new[g].number = new[f].number - 1
    <2>1. f \in files
      BY <1>5, <1>13
    <2>2. (f \in Groups => num[f] = 0) /\ (f \notin Groups => f = ids[f])
      BY <1>2, <1>3, <2>1
    <2>3. \E id \in FreshThreads, c \in FreshComments, m \in Nat, g \in Goals, a \in Anchors :
                     /\ new[f] = NewThread(id, m, g, c, a)
                     /\ id \in issued' /\ c \in issued'
                     /\ f \in Groups => m = 0
                     /\ f \notin Groups => f = id
      <3>1. /\ ids[f] \in FreshThreads /\ cs[f] \in FreshComments /\ num[f] \in Nat /\ gs[f] \in Goals
            /\ ids[f] \in issued' /\ cs[f] \in issued'
        BY <1>8, <2>1
      <3>2. new[f] = NewThread(ids[f], num[f], gs[f], cs[f], as)
        BY <1>6, <2>1
      <3>3. f \in Groups => num[f] = 0
        BY <2>2
      <3>. QED  BY Zenon, <1>4, <2>2, <3>1, <3>2, <3>3
    <2>4. ASSUME f \notin Groups
          PROVE  /\ new[f].number > 0
                 /\ \A g \in Stored(store) : store[g].number < new[f].number
                 /\ \/ new[f].number = 1
                    \/ \E g \in Stored(store) : store[g].number = new[f].number - 1
                    \/ \E g \in Files : new[g] # NoThread /\ new[g].number = new[f].number - 1
      <3>1. f \in unnamed /\ new[f].number = num[f] /\ num[f] \in n .. last
        BY <1>2, <1>3, <1>9, <2>1, <2>4
      <3>2. CASE num[f] = n
        BY <1>2, <1>11, <3>1, <3>2 DEF IsNextNumber
      <3>3. CASE num[f] # n
        <4>1. num[f] - 1 \in n .. last
          BY <3>1, <3>3
        <4>2. PICK g \in unnamed : num[g] = num[f] - 1
          BY <1>2, <4>1
        <4>3. g \in Files /\ new[g] # NoThread /\ new[g].number = new[f].number - 1
          BY <1>3, <1>9, <1>12, <3>1, <4>2
        <4>. QED  BY <1>11, <3>1, <3>3, <4>3
      <3>. QED  BY <3>2, <3>3
    <2>. QED  BY <2>3, <2>4
  <1>14. ASSUME NEW f \in Files, NEW g \in Files, new[f] # NoThread, new[g] # NoThread, g # f
         PROVE  new[g].id # new[f].id /\ new[g].comments \cap new[f].comments = {}
    BY <1>2, <1>5, <1>9, <1>14
  <1>15. RefInv'
    BY <1>7, <1>10, <1>13, <1>14, BatchAtomic
  <1>. QED  BY <1>7, <1>15

LEMMA FailAtomic == ASSUME RefInv, Inv', NEW p \in Procs, Fail(p) PROVE RefInv'
  <1>1. \A q \in Procs : pending'[q] = pending[q] \/ pending'[q] = Nothing
    BY PreparedIs DEF Fail, RefInv, Inv
  <1>2. store' = store /\ issued' = issued /\ overlap' = overlap
    BY PreparedIs DEF Fail, RefInv, Inv
  <1>. QED  BY <1>1, <1>2, QuietAtomic

-----------------------------------------------------------------------------
(* A write is one abstract step, and leaves the rest of its batch new.     *)

LEMMA WriteAtomic == ASSUME RefInv, Inv', NEW p \in Procs, Write(p) PROVE RefInv' /\ Abstract!Next
  <1>. USE DEF RefInv
  <1>1. PICK f \in Files :
          /\ pending[p][f] # NoThread
          /\ \A g \in Files : pending[p][g] # NoThread /\ pending[p][g].number > 0
                                => pending[p][f].number <= pending[p][g].number
          /\ store' = [store EXCEPT ![f] = pending[p][f]]
          /\ pending' = [pending EXCEPT ![p][f] = NoThread]
    BY DEF Write
  <1>. DEFINE t == pending[p][f]
  <1>2. UNCHANGED lockVars /\ issued' = issued /\ overlap' = overlap
    BY DEF Write, lockVars
  <1>3. t \in Thread /\ store \in Directory /\ pending \in [Procs -> Directory]
    BY <1>1 DEF Inv, TypeOK, Directory
  <1>4. \A q \in Procs, g \in Files : pending'[q][g] # NoThread =>
          pending'[q][g] = pending[q][g] /\ pending[q][g] # NoThread /\ (q = p => g # f)
    BY <1>1, <1>3 DEF Directory
  <1>5. \A g \in Files : g # f => store'[g] = store[g] /\ pending'[p][g] = pending[p][g]
    BY <1>1, <1>3 DEF Directory
  <1>6. store'[f] = t /\ store' \in Directory
    BY <1>1, <1>3 DEF Directory
  <1>7. Stored(store)' = Stored(store) \cup {f}
    BY <1>1, <1>5, <1>6 DEF Stored
  <1>. HIDE DEF t
  <1>8. IssuedInv'
    <2>1. IssuedInv /\ {t.id} \cup t.comments \subseteq issued
      BY <1>1 DEF AtomicInv, IssuedInv, t
    <2>2. \A g \in Stored(store)' : {store'[g].id} \cup store'[g].comments \subseteq issued'
      BY <2>1, <1>2, <1>5, <1>6, <1>7 DEF IssuedInv, Stored
    <2>3. \A q \in Procs, g \in Files : pending'[q][g] # NoThread =>
            {pending'[q][g].id} \cup pending'[q][g].comments \subseteq issued'
      BY ONLY <2>1, <1>2, <1>4 DEF IssuedInv
    <2>. QED  BY ONLY <2>2, <2>3 DEF IssuedInv
  <1>9. CASE overlap
    <2>1. RefInv'
      BY <1>2, <1>8, <1>9 DEF AtomicInv
    <2>2. Abstract!Next
      BY <1>2, <1>6, <1>9, AbstractThreads DEF Abstract!Next
    <2>. QED  BY <2>1, <2>2
  <1>10. CASE ~overlap
    <2>1. UniqueNumbers /\ StoreSound /\ PendingSound /\ (IsEdit(p, f) \/ IsNew(p, f))
      BY <1>1, <1>10 DEF Inv, NumberInv, AtomicInv
    <2>2. \A q \in Procs, g \in Files : pending[q][g] # NoThread => q = p
      BY <1>1, <1>10 DEF Inv, LockInv, AloneUntilOverlap, Holders, NumberInv, PendingLocked
    <2>3. CASE IsEdit(p, f)
      <3>1. \A q \in Procs, g \in Files : pending'[q][g] = NoThread
        BY <1>4, <2>2, <2>3 DEF IsEdit
      <3>2. RefInv'
        BY <1>8, <3>1 DEF AtomicInv
      <3>3. Abstract!Amend
        <4>1. f \in Abstract!Stored(store) /\ t \in Abstract!Amendments(store[f])
          BY <2>3, AbstractStored DEF IsEdit, t
        <4>. QED  BY <1>1, <4>1 DEF Abstract!Amend, t
      <3>. QED  BY <1>2, <1>10, <3>2, <3>3 DEF Abstract!Next
    <2>4. CASE IsNew(p, f)
      <3>1. PICK c \in CommentIds, as \in Anchors :
              t = NewThread(t.id, t.number, t.goal, c, as)
        BY <2>4 DEF IsNew, Anchors, t
      <3>2. \A g \in Stored(store) : store[g].id # t.id /\ store[g].comments \cap t.comments = {}
        BY <2>4 DEF IsNew, t
      <3>3. \/ f \in Groups /\ t.number = 0
            \/ /\ f = t.id /\ f \notin Stored(store) /\ t.number > 0
               /\ \A g \in Stored(store) : store[g].number < t.number
               /\ \/ t.number = 1
                  \/ \E g \in Stored(store) : store[g].number = t.number - 1
                  \/ \E g \in Files : pending[p][g] # NoThread /\ pending[p][g].number = t.number - 1
        BY <2>4 DEF IsNew, t
      <3>4. t.comments = {c} /\ t.id \in ThreadIds /\ t.number \in 0..MaxNumber /\ t.goal \in Goals
            /\ t.number \in Nat
        BY <1>3, <3>1, ThreadsAssumption DEF NewThread, Thread
      <3>5. t.id \in ThreadIds \ Abstract!Ids /\ c \in CommentIds \ Abstract!Comments
        BY <3>2, <3>4, AbstractStored DEF Abstract!Ids, Abstract!Comments
      <3>6. Abstract!Post \/ Abstract!PostGroup
        <4>1. CASE f \in Groups /\ t.number = 0
          <5>1. as \in {<<>>} \cup {<<Abstract!AnchorAt(at)>> : at \in 1..MaxCommit}
            BY AbstractAnchorAt DEF Anchors
          <5>2. store' = [store EXCEPT ![f] = Abstract!NewThread(t.id, 0, t.goal, c, as)]
            BY <1>1, <3>1, <4>1, AbstractNew DEF t
          <5>. QED  BY <3>4, <3>5, <4>1, <5>1, <5>2 DEF Abstract!PostGroup
        <4>2. CASE /\ f = t.id /\ f \notin Stored(store) /\ t.number > 0
                   /\ \A g \in Stored(store) : store[g].number < t.number
                   /\ \/ t.number = 1
                      \/ \E g \in Stored(store) : store[g].number = t.number - 1
                      \/ \E g \in Files : pending[p][g] # NoThread /\ pending[p][g].number = t.number - 1
          <5>1. ASSUME NEW g \in Files, pending[p][g] # NoThread, pending[p][g].number = t.number - 1
                PROVE  t.number = 1
            <6>1. pending[p][g].number > 0 => t.number <= pending[p][g].number
              BY <1>1, <5>1 DEF t
            <6>. QED  BY <3>4, <4>2, <5>1, <6>1
          <5>2. Abstract!IsNextNumber(store, t.number)
            BY <4>2, <5>1, AbstractStored DEF Abstract!IsNextNumber
          <5>3. t.number \in 1..MaxNumber
            BY <3>4, <4>2
          <5>4. store[t.id] = NoThread /\ store' = [store EXCEPT ![t.id] =
                  Abstract!NewThread(t.id, t.number, t.goal, c, as)]
            BY <1>1, <3>1, <4>2, AbstractNew DEF t, Stored
          <5>5. as \in {<<>>} \cup {<<Abstract!AnchorAt(at)>> : at \in 1..MaxCommit}
            BY AbstractAnchorAt DEF Anchors
          <5>. QED  BY <3>4, <3>5, <5>2, <5>3, <5>4, <5>5 DEF Abstract!Post
        <4>. QED  BY <3>3, <4>1, <4>2
      <3>7. ASSUME NEW g \in Files, pending'[p][g] # NoThread
            PROVE  IsNew(p, g)'
        <4>1. g # f /\ pending'[p][g] = pending[p][g] /\ pending[p][g] # NoThread
          BY <1>4, <3>7
        <4>2. IsEdit(p, g) \/ IsNew(p, g)
          BY <1>10, <4>1 DEF AtomicInv
        <4>3. ~IsEdit(p, g)
          BY <1>1, <4>1 DEF IsEdit
        <4>. DEFINE u == pending[p][g]
        <4>4. /\ \E cc \in CommentIds, a \in Anchors :
                   u = NewThread(u.id, u.number, u.goal, cc, a)
              /\ \A h \in Stored(store) : store[h].id # u.id /\ store[h].comments \cap u.comments = {}
              /\ \A h \in Files : pending[p][h] # NoThread /\ h # g =>
                   pending[p][h].id # u.id /\ pending[p][h].comments \cap u.comments = {}
              /\ \/ g \in Groups /\ u.number = 0
                 \/ /\ g = u.id /\ g \notin Stored(store) /\ u.number > 0
                    /\ \A h \in Stored(store) : store[h].number < u.number
                    /\ \/ u.number = 1
                       \/ \E h \in Stored(store) : store[h].number = u.number - 1
                       \/ \E h \in Files : pending[p][h] # NoThread /\ pending[p][h].number = u.number - 1
          BY <4>2, <4>3 DEF IsNew, Anchors
        <4>. HIDE DEF u
        <4>5. \A h \in Stored(store)' : store'[h].id # u.id /\ store'[h].comments \cap u.comments = {}
          BY <1>1, <1>5, <1>6, <1>7, <4>1, <4>4 DEF t, Stored
        <4>6. \A h \in Files : pending'[p][h] # NoThread /\ h # g =>
                pending'[p][h].id # u.id /\ pending'[p][h].comments \cap u.comments = {}
          BY <1>4, <4>4
        <4>7. ASSUME g = u.id, g \notin Stored(store), u.number > 0,
                     \A h \in Stored(store) : store[h].number < u.number,
                     \/ u.number = 1
                     \/ \E h \in Stored(store) : store[h].number = u.number - 1
                     \/ \E h \in Files : pending[p][h] # NoThread /\ pending[p][h].number = u.number - 1
              PROVE  /\ g \notin Stored(store)'
                     /\ \A h \in Stored(store)' : store'[h].number < u.number
                     /\ \/ u.number = 1
                        \/ \E h \in Stored(store)' : store'[h].number = u.number - 1
                        \/ \E h \in Files : pending'[p][h] # NoThread /\ pending'[p][h].number = u.number - 1
          <5>1. u.number \in Nat
            BY <1>3, <4>1, ThreadsAssumption DEF u, Directory, Thread
          <5>2. t.number < u.number
            <6>1. t.number <= u.number
              BY <1>1, <4>1, <4>7 DEF t, u
            <6>2. t.number > 0 => t.number # u.number
              BY <1>1, <2>1, <4>1 DEF PendingSound, t, u
            <6>. QED  BY <3>4, <4>7, <5>1, <6>1, <6>2
          <5>3. \A h \in Stored(store)' : store'[h].number < u.number
            BY <1>5, <1>6, <1>7, <4>7, <5>2 DEF Stored
          <5>4. ASSUME NEW h \in Stored(store), store[h].number = u.number - 1
                PROVE  u.number = 1 \/ \E k \in Stored(store)' : store'[k].number = u.number - 1
            <6>1. CASE h = f
              <7>1. store[f].number = 0
                BY <2>1, <3>3, <5>4, <6>1 DEF StoreSound, NamedZero
              <7>. QED  BY <5>1, <5>4, <6>1, <7>1
            <6>2. CASE h # f
              BY <1>5, <1>7, <5>4, <6>2 DEF Stored
            <6>. QED  BY <6>1, <6>2
          <5>5. ASSUME NEW h \in Files, pending[p][h] # NoThread, pending[p][h].number = u.number - 1
                PROVE  \/ \E k \in Stored(store)' : store'[k].number = u.number - 1
                       \/ \E k \in Files : pending'[p][k] # NoThread /\ pending'[p][k].number = u.number - 1
            <6>1. CASE h = f
              BY <1>6, <1>7, <5>5, <6>1 DEF t
            <6>2. CASE h # f
              BY <1>5, <5>5, <6>2
            <6>. QED  BY <6>1, <6>2
          <5>6. g \notin Stored(store)'
            BY <1>7, <4>1, <4>7
          <5>. QED  BY <4>7, <5>3, <5>4, <5>5, <5>6
        <4>8. pending'[p][g] = u
          BY <4>1 DEF u
        <4>. QED  BY ONLY <4>4, <4>5, <4>6, <4>7, <4>8 DEF IsNew, Anchors
      <3>8. RefInv'
        <4>1. \A q \in Procs, g \in Files : pending'[q][g] # NoThread => q = p
          BY <1>4, <2>2
        <4>. QED  BY <1>8, <3>7, <4>1 DEF AtomicInv
      <3>. QED  BY <1>2, <1>10, <3>6, <3>8 DEF Abstract!Next
    <2>. QED  BY <2>1, <2>3, <2>4
  <1>. QED  BY <1>9, <1>10

-----------------------------------------------------------------------------
(* Every execution without tracing and removal.                            *)

NoTracing == \A p \in Procs : copy[p] = NoThread /\ target[p] = 0

LEMMA QuietSteps ==
  ASSUME RefInv, Inv', NEW p \in Procs,
         Start(p) \/ Granted(p) \/ Release(p) \/ Return(p) \/ Die(p) \/ Commit
  PROVE  RefInv' /\ store' = store /\ (overlap => overlap')
  <1>1. store' = store /\ issued' = issued
    BY DEF Start, Granted, Release, Return, Die, Commit, storeVars
  <1>2. overlap => overlap'
    <2>1. Open(p) \/ Unlock(p) \/ Unlink(p) \/ Crash(p) \/ UNCHANGED lockVars => overlap' = overlap
      BY DEF Open, Unlock, Unlink, Crash, lockVars
    <2>2. Acquire(p) => (overlap => overlap')
      BY Zenon DEF Acquire
    <2>. QED  BY <2>1, <2>2 DEF Start, Granted, Release, Return, Die, Commit
  <1>3. \A q \in Procs : pending'[q] = pending[q] \/ pending'[q] = Nothing
    <2>1. pending' = pending \/ pending' = [pending EXCEPT ![p] = Nothing]
      BY DEF Start, Granted, Release, Return, Die, Commit, storeVars
    <2>. QED  BY <2>1 DEF RefInv, Inv, TypeOK
  <1>. QED  BY <1>1, <1>2, <1>3, QuietAtomic

LEMMA ReadAtomic ==
  ASSUME RefInv, Inv', NEW p \in Procs, Read(p)
  PROVE  /\ RefInv'
         /\ store' = store /\ overlap' = overlap /\ copy' = copy /\ target' = target
  <1>1. RefInv'
    BY CreateAtomic, SpawnAtomic, AddCommentAtomic, UpdateStatusAtomic, UpdateGoalAtomic,
       AddDependenciesAtomic, RemoveDependenciesAtomic, ExtractAtomic, FailAtomic
    DEF Read
  <1>2. \E files : Prepare(p, files)
    <2>1. Create(p) \/ Spawn(p) \/ AddComment(p) \/ UpdateStatus(p) => \E files : Prepare(p, files)
      BY DEF Create, Spawn, AddComment, UpdateStatus
    <2>2. UpdateGoal(p) \/ AddDependencies(p) \/ RemoveDependencies(p) \/ Fail(p)
            => \E files : Prepare(p, files)
      BY DEF UpdateGoal, AddDependencies, RemoveDependencies, Fail
    <2>3. Extract(p) => \E files : Prepare(p, files)
      BY ExtractAtomic
    <2>. QED  BY <2>1, <2>2, <2>3 DEF Read
  <1>. QED  BY <1>1, <1>2 DEF Prepare, lockVars

LEMMA InitAtomic == Init => RefInv /\ NoTracing /\ Abstract!Init
  <1>. SUFFICES ASSUME Init PROVE RefInv /\ NoTracing /\ Abstract!Init
    OBVIOUS
  <1>1. \A f \in Files : Nothing[f] = NoThread
    BY DEF Nothing
  <1>2. AtomicInv
    BY <1>1 DEF Init, AtomicInv, IssuedInv, Stored
  <1>3. Abstract!Init
    BY AbstractThreads DEF Init, LockInit, Abstract!Init
  <1>. QED  BY <1>2, <1>3, InitInv DEF RefInv, NoTracing, Init

LEMMA StepAtomic ==
  ASSUME "trace" \notin Ops, "cleanup" \notin Ops, RefInv, NoTracing, [Next]_vars
  PROVE  RefInv' /\ NoTracing' /\ [Abstract!Next]_<<store, overlap>>
  <1>1. Inv'
    BY NextInv DEF RefInv
  <1>2. store' \in Directory
    BY <1>1 DEF Inv, TypeOK
  <1>3. (overlap => overlap') /\ store' = store => [Abstract!Next]_<<store, overlap>>
    <2>1. CASE overlap'
      BY <2>1, <1>2, AbstractThreads DEF Abstract!Next
    <2>2. CASE ~overlap'
      <3>1. overlap \in BOOLEAN /\ overlap' \in BOOLEAN
        BY <1>1 DEF RefInv, Inv, LockInv, LockTypeOK
      <3>. QED  BY <2>2, <3>1
    <2>. QED  BY <2>1, <2>2
  <1>4. CASE UNCHANGED vars
    <2>1. UNCHANGED <<store, issued, pending, copy, target>> /\ overlap' = overlap
      BY <1>4 DEF vars, storeVars, lockVars
    <2>2. RefInv'
      BY <2>1, <1>1, QuietAtomic
    <2>. QED  BY <1>3, <2>1, <2>2 DEF NoTracing
  <1>5. ASSUME NEW p \in Procs, Start(p) \/ Step(p) \/ Die(p) \/ Trace(p)
        PROVE  RefInv' /\ NoTracing' /\ [Abstract!Next]_<<store, overlap>>
    <2>1. CASE Start(p) \/ Granted(p) \/ Release(p) \/ Return(p) \/ Die(p)
      <3>1. copy' = copy /\ target' = target
        BY <2>1 DEF Start, Granted, Release, Return, Die, storeVars
      <3>. QED  BY <1>1, <1>3, <2>1, <3>1, QuietSteps DEF NoTracing
    <2>2. CASE Read(p)
      <3>1. copy' = copy /\ target' = target
        BY <1>1, <2>2, ReadAtomic
      <3>. QED  BY <1>1, <1>3, <2>2, <3>1, ReadAtomic DEF NoTracing
    <2>3. CASE Write(p)
      <3>1. copy' = copy /\ target' = target
        BY <2>3 DEF Write
      <3>. QED  BY <1>1, <2>3, <3>1, WriteAtomic DEF NoTracing
    <2>4. CASE Trace(p)
      BY <2>4 DEF Trace, ReadCopy, ReadHead, WriteTraced, QuitTrace, Tracing, NoTracing
    <2>. QED  BY <1>5, <2>1, <2>2, <2>3, <2>4 DEF Step
  <1>6. CASE Commit
    <2>1. copy' = copy /\ target' = target /\ store' = store /\ overlap' = overlap
          /\ issued' = issued /\ pending' = pending
      BY <1>6 DEF Commit, lockVars
    <2>2. RefInv'
      BY <1>1, <2>1, QuietAtomic
    <2>. QED  BY <1>3, <2>1, <2>2 DEF NoTracing
  <1>. QED  BY <1>4, <1>5, <1>6 DEF Next, Cleanup

(* What a lock holder has still to write is one edit of a thread as it is  *)
(* in the directory, or a batch of new threads that number on from it: in  *)
(* every execution without tracing and removal, until the lock fails.      *)
THEOREM PendingIsAtomic ==
  ASSUME "trace" \notin Ops, "cleanup" \notin Ops
  PROVE  Spec => []AtomicInv
  <1>1. RefInv /\ NoTracing /\ [Next]_vars => RefInv' /\ NoTracing'
    BY StepAtomic
  <1>2. RefInv => AtomicInv
    BY DEF RefInv
  <1>. QED  BY <1>1, <1>2, InitAtomic, PTL DEF Spec

(* The locked commands implement AtomicStore: until the lock fails, each   *)
(* change of the directory is one command's whole effect on the directory  *)
(* as it is at that moment.  Tracing is excluded because it writes without *)
(* the lock, removal because a holder may write a removed file again.      *)
THEOREM CommandsAreAtomic ==
  ASSUME "trace" \notin Ops, "cleanup" \notin Ops
  PROVE  Spec => Atomic
  <1>1. RefInv /\ NoTracing /\ [Next]_vars
          => RefInv' /\ NoTracing' /\ [Abstract!Next]_<<store, overlap>>
    BY StepAtomic
  <1>. QED  BY <1>1, InitAtomic, PTL DEF Spec, Atomic, Abstract!Spec
=============================================================================
