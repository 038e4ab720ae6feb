------------------------------ MODULE DirLock ------------------------------
(***************************************************************************)
(* The advisory lock that serialises writers of the thread directory:      *)
(* LockDir in pkg/thread/ops.go, on top of github.com/gofrs/flock.         *)
(*                                                                         *)
(* LockDir opens <dir>/.nota.lock (creating it when it is missing), takes  *)
(* flock(LOCK_EX) on the open file, and returns a closure that releases    *)
(* the flock and then unlinks the PATH.  The flock belongs to an inode,    *)
(* the unlink acts on a name, and nothing looks again at the name once the *)
(* flock is granted; the model keeps the two apart.                        *)
(***************************************************************************)
EXTENDS FiniteSets, Naturals

CONSTANTS
  Procs,   \* processes that call LockDir (nota commands, nota daemons)
  Inodes,  \* inodes the file system can give to .nota.lock
  None     \* no inode / no process

ASSUME DirLockAssumption ==
  /\ None \notin Procs
  /\ None \notin Inodes

VARIABLES
  lockfile,  \* the inode the name .nota.lock refers to, or None
  fd,        \* fd[p]: the inode p holds open, or None
  holder,    \* holder[i]: the process granted the flock on inode i, or None
  pc,        \* pc[p]: where p is in LockDir and its unlock closure
  overlap    \* history: has the directory ever had two holders at once?

lockVars == <<lockfile, fd, holder, pc, overlap>>

Stages == {"idle", "waiting", "locked", "unlocked"}

LockTypeOK ==
  /\ lockfile \in Inodes \cup {None}
  /\ fd \in [Procs -> Inodes \cup {None}]
  /\ holder \in [Inodes -> Procs \cup {None}]
  /\ pc \in [Procs -> Stages]
  /\ overlap \in BOOLEAN

Holders == {p \in Procs : pc[p] = "locked"}

LockInit ==
  /\ lockfile = None
  /\ fd = [p \in Procs |-> None]
  /\ holder = [i \in Inodes |-> None]
  /\ pc = [p \in Procs |-> "idle"]
  /\ overlap = FALSE

(* An inode number can be given out again once nothing refers to it. *)
Free(i) == i # lockfile /\ \A p \in Procs : fd[p] # i

(* flock.New(path).Lock(): open with O_CREATE, before the flock is asked for *)
Open(p) ==
  /\ pc[p] = "idle"
  /\ pc' = [pc EXCEPT ![p] = "waiting"]
  /\ \/ /\ lockfile # None
        /\ fd' = [fd EXCEPT ![p] = lockfile]
        /\ UNCHANGED lockfile
     \/ /\ lockfile = None
        /\ \E i \in Inodes :
             /\ Free(i)
             /\ fd' = [fd EXCEPT ![p] = i]
             /\ lockfile' = i
  /\ UNCHANGED <<holder, overlap>>

(* Mutant of Acquire: a shared flock. *)
AcquireShared(p) ==
  /\ pc[p] = "waiting"
  /\ holder' = [holder EXCEPT ![fd[p]] = p]
  /\ pc' = [pc EXCEPT ![p] = "locked"]
  /\ overlap' = (overlap \/ Holders # {})
  /\ UNCHANGED <<lockfile, fd>>

(* flock(fd, LOCK_EX) returns: the kernel grants one flock per inode *)
Acquire(p) ==
  /\ pc[p] = "waiting"
  /\ holder[fd[p]] = None
  /\ holder' = [holder EXCEPT ![fd[p]] = p]
  /\ pc' = [pc EXCEPT ![p] = "locked"]
  /\ overlap' = (overlap \/ Holders # {})
  /\ UNCHANGED <<lockfile, fd>>

(* Mutant of Unlock: the flock is released, the file stays open. *)
UnlockOpen(p) ==
  /\ pc[p] = "locked"
  /\ holder' = [holder EXCEPT ![fd[p]] = None]
  /\ pc' = [pc EXCEPT ![p] = "unlocked"]
  /\ UNCHANGED <<lockfile, fd, overlap>>

(* fl.Unlock(): release the flock and close the file *)
Unlock(p) ==
  /\ pc[p] = "locked"
  /\ holder' = [holder EXCEPT ![fd[p]] = None]
  /\ fd' = [fd EXCEPT ![p] = None]
  /\ pc' = [pc EXCEPT ![p] = "unlocked"]
  /\ UNCHANGED <<lockfile, overlap>>

(* Mutant of Unlink: the lock file is kept, as flock's users usually do. *)
UnlinkNothing(p) ==
  /\ pc[p] = "unlocked"
  /\ pc' = [pc EXCEPT ![p] = "idle"]
  /\ UNCHANGED <<lockfile, fd, holder, overlap>>

(* the deferred os.Remove(lockPath): whatever inode the name has by now *)
Unlink(p) ==
  /\ pc[p] = "unlocked"
  /\ lockfile' = None
  /\ pc' = [pc EXCEPT ![p] = "idle"]
  /\ UNCHANGED <<fd, holder, overlap>>

(* The process dies: the kernel closes its file and drops its flock, and   *)
(* .nota.lock stays where it is.                                           *)
Crash(p) ==
  /\ pc[p] # "idle"
  /\ holder' = [i \in Inodes |-> IF holder[i] = p THEN None ELSE holder[i]]
  /\ fd' = [fd EXCEPT ![p] = None]
  /\ pc' = [pc EXCEPT ![p] = "idle"]
  /\ UNCHANGED <<lockfile, overlap>>

LockStep(p) == Acquire(p) \/ Unlock(p) \/ Unlink(p)

LockNext == \E p \in Procs : Open(p) \/ LockStep(p) \/ Crash(p)

LockSpec == LockInit /\ [][LockNext]_lockVars

(* A process that has opened the file goes on until it returns; nothing    *)
(* makes a user start a command or a process die.                          *)
LockFairness ==
  /\ \A p \in Procs : WF_lockVars(Unlock(p))
  /\ \A p \in Procs : WF_lockVars(Unlink(p))
  /\ \A p \in Procs : WF_lockVars(Acquire(p))

FairLockSpec == LockSpec /\ LockFairness

-----------------------------------------------------------------------------

(* The kernel's side of the lock: a process holds exactly the flock of the *)
(* file it has open, from the grant to the release, and none otherwise.    *)
FlockInv ==
  /\ \A p \in Procs : fd[p] = None <=> pc[p] \in {"idle", "unlocked"}
  /\ \A p \in Procs, i \in Inodes :
       holder[i] = p <=> pc[p] = "locked" /\ fd[p] = i

(* overlap records every breach of mutual exclusion: while it is FALSE,    *)
(* whoever holds the directory holds it alone.                             *)
AloneUntilOverlap ==
  ~overlap => \A p, q \in Holders : p = q

(* The inductive invariant of the lock. *)
LockInv == LockTypeOK /\ FlockInv /\ AloneUntilOverlap

(* What LockDir does give (pkg/thread/ops.go:19): of two processes that    *)
(* both believe to hold the directory, at most one has locked the file     *)
(* that .nota.lock names; every other holds an inode some unlock closure   *)
(* has unlinked under it.                                                  *)
ExclusiveWhileLinked ==
  \A p, q \in Holders : fd[p] = lockfile /\ fd[q] = lockfile => p = q

(* A crash after the unlock that finds no name to unlink is no loss.       *)
CrashesStop == <>[][\A p \in Procs : Crash(p) => Unlink(p)]_lockVars

(* Nobody waits for ever for the directory (ops.go:25, fl.Lock() blocks    *)
(* with no timeout): a process that opened the lock file gets past the     *)
(* flock, however the kernel orders the waiters, unless crashes never end. *)
(* It is the unlink that makes this so: an inode that has been released    *)
(* once loses its name and gains no further waiters.                       *)
WaiterServed ==
  CrashesStop => \A p \in Procs : pc[p] = "waiting" ~> pc[p] # "waiting"
=============================================================================
