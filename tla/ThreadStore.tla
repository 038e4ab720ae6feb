---------------------------- MODULE ThreadStore ----------------------------
(***************************************************************************)
(* The thread directory .nota/ and the processes that write it: the        *)
(* locked commands of pkg/thread/ops.go and pkg/extract/extract.go, the    *)
(* unlocked anchor tracing of `nota thread show` and `nota trace`, and     *)
(* what happens to the directory behind their backs.                       *)
(*                                                                         *)
(* A locked command takes the directory lock (module DirLock), reads the   *)
(* directory and prepares the files to write, writes them one rename at a  *)
(* time, and releases the lock.  Reading the directory is one step: under  *)
(* the lock only tracing and removal can interleave with the scan, and     *)
(* each file is replaced by an atomic rename.                              *)
(***************************************************************************)
EXTENDS DirLock, Threads

CONSTANT Ops   \* the commands the processes may run

VARIABLES
  store,    \* store[f]: the thread in file f of .nota/, or NoThread
  issued,   \* history: the random ids drawn so far
  loaded,   \* loaded[p]: p has read the directory under the lock
  pending,  \* pending[p][f]: what p has still to write to f, or NoThread
  source,   \* source[p]: the file a tracing process has read, or NoThread
  copy,     \* copy[p]: the thread it read there, or NoThread
  target,   \* target[p]: the HEAD it traces to, 0 before it asks git
  head      \* HEAD of the repository

storeVars == <<store, issued, loaded, pending, source, copy, target, head>>
vars == <<lockVars, storeVars>>

TypeOK ==
  /\ LockTypeOK
  /\ store \in Directory
  /\ issued \subseteq ThreadIds \cup CommentIds
  /\ loaded \in [Procs -> BOOLEAN]
  /\ pending \in [Procs -> Directory]
  /\ source \in [Procs -> Files \cup {NoThread}]
  /\ copy \in [Procs -> Thread \cup {NoThread}]
  /\ target \in [Procs -> 0..MaxCommit]
  /\ head \in 1..MaxCommit

Init ==
  /\ LockInit
  /\ store = Nothing
  /\ issued = {}
  /\ loaded = [p \in Procs |-> FALSE]
  /\ pending = [p \in Procs |-> Nothing]
  /\ source = [p \in Procs |-> NoThread]
  /\ copy = [p \in Procs |-> NoThread]
  /\ target = [p \in Procs |-> 0]
  /\ head = 1

-----------------------------------------------------------------------------
(* The locked commands.  Each reads the directory once it holds the lock.  *)

FreshThreads == ThreadIds \ issued

(* Mutant of FreshComments: ids may be drawn twice. *)
AnyComments == CommentIds

FreshComments == CommentIds \ issued

Tracing(p) == copy[p] # NoThread \/ target[p] # 0

Start(p) == ~Tracing(p) /\ Open(p) /\ UNCHANGED storeVars

Granted(p) == Acquire(p) /\ UNCHANGED storeVars

Reading(p, op) == op \in Ops /\ pc[p] = "locked" /\ ~loaded[p]

Prepare(p, files) ==
  /\ loaded' = [loaded EXCEPT ![p] = TRUE]
  /\ pending' = [pending EXCEPT ![p] = files]
  /\ UNCHANGED <<lockVars, store, source, copy, target, head>>

(* thread.Create: at HEAD when it is given an anchor *)
Create(p) ==
  /\ Reading(p, "create")
  /\ \E id \in FreshThreads, c \in FreshComments, n \in 1..MaxNumber, g \in Goals :
     \E as \in {<<>>, <<AnchorAt(head)>>} :
       /\ IsNextNumber(store, n)
       /\ issued' = issued \cup {id, c}
       /\ Prepare(p, Only(id, NewThread(id, n, g, c, as)))

(* thread.Spawn: the parent must be there; the child has no anchor *)
Spawn(p) ==
  /\ Reading(p, "spawn")
  /\ Stored(store) # {}
  /\ \E id \in FreshThreads, c \in FreshComments, n \in 1..MaxNumber, g \in Goals :
       /\ IsNextNumber(store, n)
       /\ issued' = issued \cup {id, c}
       /\ Prepare(p, Only(id, NewThread(id, n, g, c, <<>>)))

AddComment(p) ==
  /\ Reading(p, "comment")
  /\ \E f \in Stored(store), c \in FreshComments :
       /\ issued' = issued \cup {c}
       /\ Prepare(p, Only(f, [store[f] EXCEPT !.comments = @ \cup {c}]))

UpdateStatus(p) ==
  /\ Reading(p, "status")
  /\ \E f \in Stored(store), s \in Statuses :
       Prepare(p, Only(f, [store[f] EXCEPT !.status = s]))
  /\ UNCHANGED issued

UpdateGoal(p) ==
  /\ Reading(p, "goal")
  /\ \E f \in Stored(store), g \in Goals :
       Prepare(p, Only(f, [store[f] EXCEPT !.goal = g]))
  /\ UNCHANGED issued

(* Blockers are only checked for their form, they need not exist. *)
AddDependencies(p) ==
  /\ Reading(p, "depend")
  /\ \E f \in Stored(store), bs \in SUBSET ThreadIds :
       Prepare(p, Only(f, [store[f] EXCEPT !.deps = @ \cup bs]))
  /\ UNCHANGED issued

RemoveDependencies(p) ==
  /\ Reading(p, "undepend")
  /\ \E f \in Stored(store), bs \in SUBSET ThreadIds :
       Prepare(p, Only(f, [store[f] EXCEPT !.deps = @ \ bs]))
  /\ UNCHANGED issued

(* WriteThreadFilesTo: named groups go to their own file with number 0 and *)
(* a new id, over whatever is there; unnamed ones count up from NextNumber.*)
(* HEAD was read before the lock was taken; when it cannot be, the anchors *)
(* have no commit.                                                         *)
Extract(p) ==
  /\ Reading(p, "extract")
  /\ \E unnamed \in SUBSET FreshThreads, named \in SUBSET Groups,
        n \in 1..MaxNumber, last \in 0..MaxNumber, at \in 1..head :
     LET files == unnamed \cup named IN
     \E ids \in [files -> FreshThreads], cs \in [files -> FreshComments],
        num \in [files -> 0..MaxNumber], gs \in [files -> Goals],
        as \in {<<>>, <<AnchorAt(at)>>} :
       /\ files # {}
       /\ IsNextNumber(store, n)
       /\ \A f, g \in files : ids[f] = ids[g] \/ cs[f] = cs[g] => f = g
       /\ \A f \in unnamed : ids[f] = f
       /\ {num[f] : f \in unnamed} = n .. last
       /\ \A f, g \in unnamed : num[f] = num[g] => f = g
       /\ \A f \in named : num[f] = 0
       /\ issued' = issued \cup {ids[f] : f \in files} \cup {cs[f] : f \in files}
       /\ Prepare(p, [f \in Files |->
            IF f \in files THEN NewThread(ids[f], num[f], gs[f], cs[f], as)
                           ELSE NoThread])

(* An error before or between the writes (thread not found, bad anchor,    *)
(* WriteThread fails): the command returns, what it wrote stays.           *)
Fail(p) ==
  /\ pc[p] = "locked"
  /\ ~loaded[p] \/ pending[p] # Nothing
  /\ Prepare(p, Nothing)
  /\ UNCHANGED issued

(* Mutant of Write: a batch is written in any order. *)
WriteAnyOrder(p) ==
  /\ pc[p] = "locked"
  /\ \E f \in Files :
       /\ pending[p][f] # NoThread
       /\ store' = [store EXCEPT ![f] = pending[p][f]]
       /\ pending' = [pending EXCEPT ![p][f] = NoThread]
  /\ UNCHANGED <<lockVars, issued, loaded, source, copy, target, head>>

(* WriteThread, one rename; extract writes unnamed groups in number order  *)
Write(p) ==
  /\ pc[p] = "locked"
  /\ \E f \in Files :
       /\ pending[p][f] # NoThread
       /\ \A g \in Files : pending[p][g] # NoThread /\ pending[p][g].number > 0
                             => pending[p][f].number <= pending[p][g].number
       /\ store' = [store EXCEPT ![f] = pending[p][f]]
       /\ pending' = [pending EXCEPT ![p][f] = NoThread]
  /\ UNCHANGED <<lockVars, issued, loaded, source, copy, target, head>>

(* Mutant of Release: the lock is let go before the files are written. *)
ReleaseEarly(p) ==
  /\ loaded[p]
  /\ Unlock(p)
  /\ loaded' = [loaded EXCEPT ![p] = FALSE]
  /\ UNCHANGED <<store, issued, pending, source, copy, target, head>>

Release(p) ==
  /\ loaded[p] /\ pending[p] = Nothing
  /\ Unlock(p)
  /\ loaded' = [loaded EXCEPT ![p] = FALSE]
  /\ UNCHANGED <<store, issued, pending, source, copy, target, head>>

Return(p) == Unlink(p) /\ UNCHANGED storeVars

Die(p) ==
  /\ Crash(p)
  /\ loaded' = [loaded EXCEPT ![p] = FALSE]
  /\ pending' = [pending EXCEPT ![p] = Nothing]
  /\ UNCHANGED <<store, issued, source, copy, target, head>>

-----------------------------------------------------------------------------
(* Tracing: `thread show` reads the thread and then HEAD, `trace` reads    *)
(* HEAD first; neither takes the lock.                                     *)

ReadCopy(p) ==
  /\ "trace" \in Ops /\ pc[p] = "idle" /\ copy[p] = NoThread
  /\ \E f \in Stored(store) :
       /\ source' = [source EXCEPT ![p] = f]
       /\ copy' = [copy EXCEPT ![p] = store[f]]
  /\ UNCHANGED <<lockVars, store, issued, loaded, pending, target, head>>

ReadHead(p) ==
  /\ "trace" \in Ops /\ pc[p] = "idle" /\ target[p] = 0
  /\ target' = [target EXCEPT ![p] = head]
  /\ UNCHANGED <<lockVars, store, issued, loaded, pending, source, copy, head>>

TraceDone(p) ==
  /\ source' = [source EXCEPT ![p] = NoThread]
  /\ copy' = [copy EXCEPT ![p] = NoThread]
  /\ target' = [target EXCEPT ![p] = 0]
  /\ UNCHANGED <<lockVars, issued, loaded, pending, head>>

(* Mutant of WriteTraced: git's answer about HEAD is not awaited. *)
WriteUntargeted(p) ==
  /\ copy[p] # NoThread
  /\ \/ /\ NeedsTrace(copy[p], target[p])
        /\ \E out \in BOOLEAN :
             store' = [store EXCEPT ![source[p]] = Traced(copy[p], target[p], out)]
     \/ /\ head > 1
        /\ store' = [store EXCEPT ![source[p]] = copy[p]]
  /\ TraceDone(p)

(* A comment may carry an anchor of its own, which is traced in place and  *)
(* not kept here: the thread is then written back as it was read.          *)
WriteTraced(p) ==
  /\ copy[p] # NoThread /\ target[p] # 0
  /\ \/ /\ NeedsTrace(copy[p], target[p])
        /\ \E out \in BOOLEAN :
             store' = [store EXCEPT ![source[p]] = Traced(copy[p], target[p], out)]
     \/ /\ head > 1
        /\ store' = [store EXCEPT ![source[p]] = copy[p]]
  /\ TraceDone(p)

(* nothing to trace, git fails, the write fails, or the process dies *)
QuitTrace(p) ==
  /\ Tracing(p)
  /\ TraceDone(p)
  /\ UNCHANGED store

-----------------------------------------------------------------------------
(* Around the processes: a user deletes a resolved thread's file, and git  *)
(* moves HEAD forward.                                                     *)

Cleanup ==
  /\ "cleanup" \in Ops
  /\ \E f \in Stored(store) : store[f].status = "resolved" /\ store' = [store EXCEPT ![f] = NoThread]
  /\ UNCHANGED <<lockVars, issued, loaded, pending, source, copy, target, head>>

Commit ==
  /\ head < MaxCommit
  /\ head' = head + 1
  /\ UNCHANGED <<lockVars, store, issued, loaded, pending, source, copy, target>>

Read(p) ==
  \/ Create(p) \/ Spawn(p) \/ AddComment(p) \/ UpdateStatus(p) \/ UpdateGoal(p)
  \/ AddDependencies(p) \/ RemoveDependencies(p) \/ Extract(p) \/ Fail(p)

Step(p) == Granted(p) \/ Read(p) \/ Write(p) \/ Release(p) \/ Return(p)

Trace(p) == ReadCopy(p) \/ ReadHead(p) \/ WriteTraced(p) \/ QuitTrace(p)

Next ==
  \/ \E p \in Procs : Start(p) \/ Step(p) \/ Die(p) \/ Trace(p)
  \/ Cleanup
  \/ Commit

Spec == Init /\ [][Next]_vars

(* A started command runs on until it returns.  Users, git and crashes owe *)
(* nothing.                                                                *)
Fairness == \A p \in Procs : WF_vars(Granted(p)) /\ WF_vars(Read(p)) /\ WF_vars(Write(p))
                             /\ WF_vars(Release(p)) /\ WF_vars(Return(p))
FairSpec == Spec /\ Fairness

-----------------------------------------------------------------------------

(* Every thread is addressable by number (README.md:226): no two files of  *)
(* the directory carry the same one.  Named groups have number 0.          *)
UniqueNumbers ==
  \A f, g \in Stored(store) : store[f].number = store[g].number /\ store[f].number > 0 => f = g

(* What the code's locking achieves of it: created, spawned and extracted  *)
(* threads never share a number as long as the directory never had two     *)
(* lock holders at once.                                                   *)
UniqueWhileExclusive == ~overlap => UniqueNumbers

(* Only a process that holds the directory has files left to write.        *)
PendingLocked ==
  \A p \in Procs, f \in Files : pending[p][f] # NoThread => pc[p] = "locked"

(* Why numbers stay unique.  A file keeps its number for good, 0 for a     *)
(* named group; what a holder has still to write clashes neither with the  *)
(* directory nor with the rest of its batch; and a traced copy goes back   *)
(* to a file that is still there.                                          *)
NamedZero(f, t) == f \in Groups => t.number = 0

StoreSound ==
  \A f \in Stored(store) : NamedZero(f, store[f]) /\ (f \in ThreadIds => f \in issued)

PendingSound ==
  \A p \in Procs, f \in Files : pending[p][f] # NoThread =>
    /\ NamedZero(f, pending[p][f]) /\ (f \in ThreadIds => f \in issued)
    /\ f \in Stored(store) => pending[p][f].number = store[f].number
    /\ pending[p][f].number > 0 =>
         /\ \A g \in Stored(store) : store[g].number = pending[p][f].number => g = f
         /\ \A g \in Files : pending[p][g] # NoThread
                              /\ pending[p][g].number = pending[p][f].number => g = f

CopySound ==
  \A p \in Procs : copy[p] # NoThread =>
    /\ "trace" \in Ops
    /\ source[p] \in Stored(store)
    /\ copy[p].number = store[source[p]].number

(* The inductive invariant of UniqueWhileExclusive. *)
NumberInv ==
  /\ PendingLocked
  /\ ~overlap => UniqueNumbers /\ StoreSound /\ PendingSound /\ CopySound

(* A comment that was written to a thread is never lost again: no later    *)
(* write of the same thread drops it (ops.go:223, "Acquire directory lock  *)
(* before read-modify-write").                                             *)
CommentsKept ==
  [][\A f \in Stored(store) : store'[f] # NoThread /\ store'[f].id = store[f].id /\ ~overlap'
       => store[f].comments \subseteq store'[f].comments]_vars

(* Until the lock fails, the commands behave as single steps on the        *)
(* directory (module AtomicStore): none overwrites what another wrote      *)
(* since it read, loses a comment or takes a number twice.                 *)
Abstract == INSTANCE AtomicStore WITH broken <- overlap
Atomic == Abstract!Spec

(* Why the commands are atomic.  Ids and comments of the directory and of  *)
(* what is still to be written have been drawn before; and as long as its  *)
(* holder is alone, what is still to be written is either one edit of the  *)
(* thread as it is in the directory, or a batch of new threads that        *)
(* clash with nothing and number on from the directory without a gap.      *)
IssuedInv ==
  /\ \A f \in Stored(store) : {store[f].id} \cup store[f].comments \subseteq issued
  /\ \A p \in Procs, f \in Files : pending[p][f] # NoThread =>
       {pending[p][f].id} \cup pending[p][f].comments \subseteq issued

IsEdit(p, f) ==
  /\ f \in Stored(store)
  /\ pending[p][f] \in Abstract!Amendments(store[f])
  /\ \A g \in Files : pending[p][g] # NoThread => g = f

IsNew(p, f) ==
  LET t == pending[p][f] IN
  /\ \E c \in CommentIds, as \in {<<>>} \cup {<<AnchorAt(at)>> : at \in 1..MaxCommit} :
       t = NewThread(t.id, t.number, t.goal, c, as)
  /\ \A g \in Stored(store) : store[g].id # t.id /\ store[g].comments \cap t.comments = {}
  /\ \A g \in Files : pending[p][g] # NoThread /\ g # f =>
       pending[p][g].id # t.id /\ pending[p][g].comments \cap t.comments = {}
  /\ \/ f \in Groups /\ t.number = 0
     \/ /\ f = t.id /\ f \notin Stored(store) /\ t.number > 0
        /\ \A g \in Stored(store) : store[g].number < t.number
        /\ \/ t.number = 1
           \/ \E g \in Stored(store) : store[g].number = t.number - 1
           \/ \E g \in Files : pending[p][g] # NoThread /\ pending[p][g].number = t.number - 1

(* The inductive invariant of Atomic, on top of NumberInv. *)
AtomicInv ==
  /\ IssuedInv
  /\ ~overlap => \A p \in Procs, f \in Files :
       pending[p][f] # NoThread => IsEdit(p, f) \/ IsNew(p, f)

(* Every command that was started returns and lets go of the directory,    *)
(* unless crashes never end.                                               *)
CommandsFinish ==
  <>[][\A p \in Procs : Die(p) => Return(p)]_vars
    => \A p \in Procs : pc[p] = "waiting" ~> pc[p] = "idle"
=============================================================================
