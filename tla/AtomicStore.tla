---------------------------- MODULE AtomicStore ----------------------------
(***************************************************************************)
(* What the locked commands promise of the thread directory: it behaves as *)
(* if each of them were a single step on the directory as it is, for as    *)
(* long as no two processes held the directory lock at once.  No locks, no *)
(* copies, no processes.                                                   *)
(***************************************************************************)
EXTENDS Threads

VARIABLES
  store,   \* the thread directory
  broken   \* two processes have held the directory lock at once

Init == store = Nothing /\ broken = FALSE

Ids == {store[f].id : f \in Stored(store)}
Comments == UNION {store[f].comments : f \in Stored(store)}

(* A new thread gets a file, an id, a comment and the next number. *)
Post ==
  \E id \in ThreadIds \ Ids, c \in CommentIds \ Comments, n \in 1..MaxNumber, g \in Goals :
  \E as \in {<<>>} \cup {<<AnchorAt(at)>> : at \in 1..MaxCommit} :
    /\ store[id] = NoThread
    /\ IsNextNumber(store, n)
    /\ store' = [store EXCEPT ![id] = NewThread(id, n, g, c, as)]

(* Extracting a named group puts a new thread over the group's old one. *)
PostGroup ==
  \E f \in Groups, id \in ThreadIds \ Ids, c \in CommentIds \ Comments, g \in Goals :
  \E as \in {<<>>} \cup {<<AnchorAt(at)>> : at \in 1..MaxCommit} :
    store' = [store EXCEPT ![f] = NewThread(id, 0, g, c, as)]

(* Every other command makes one change to a thread and keeps the rest. *)
Amendments(t) ==
  {[t EXCEPT !.comments = @ \cup {c}] : c \in CommentIds \ Comments}
    \cup {[t EXCEPT !.status = s] : s \in Statuses}
    \cup {[t EXCEPT !.goal = g] : g \in Goals}
    \cup {[t EXCEPT !.deps = ds] : ds \in SUBSET ThreadIds}

Amend ==
  \E f \in Stored(store) : \E t \in Amendments(store[f]) : store' = [store EXCEPT ![f] = t]

Next ==
  \/ ~broken' /\ (Post \/ PostGroup \/ Amend)
  \/ broken' /\ store' \in Directory

Spec == Init /\ [][Next]_<<store, broken>>
=============================================================================
