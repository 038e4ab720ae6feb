------------------------------ MODULE Threads ------------------------------
(***************************************************************************)
(* Threads as the commands of nota see them (pkg/thread/thread.go), and    *)
(* the thread directory as a function from its files to threads.           *)
(*                                                                         *)
(* Comments are their ids: a stored comment is never edited by a command.  *)
(* Of an anchor only the commit and the outdated flag are kept.            *)
(***************************************************************************)
EXTENDS FiniteSets, Integers, Sequences, SequencesExt

CONSTANTS
  ThreadIds,   \* random thread ids; each names one file of its own
  Groups,      \* group names; extract writes group g to the file g.xml
  CommentIds,  \* random comment ids
  Statuses, Goals,
  MaxNumber,   \* bound on thread numbers
  MaxCommit,   \* bound on the commits HEAD moves through
  NoThread     \* no such file / nothing to write / nothing read

Files == ThreadIds \cup Groups

Anchor == [commit : 1..MaxCommit, outdated : BOOLEAN]

Thread == [id : ThreadIds, number : 0..MaxNumber, status : Statuses, goal : Goals,
           comments : SUBSET CommentIds, deps : SUBSET ThreadIds, anchors : Seq(Anchor)]

ASSUME ThreadsAssumption ==
  /\ ThreadIds \cap Groups = {}
  /\ MaxNumber \in Nat
  /\ MaxCommit \in Nat \ {0}
  /\ NoThread \notin Thread
  /\ NoThread \notin Files
  /\ "open" \in Statuses

Directory == [Files -> Thread \cup {NoThread}]
Nothing == [f \in Files |-> NoThread]
Only(f, t) == [Nothing EXCEPT ![f] = t]

Stored(dir) == {f \in Files : dir[f] # NoThread}

(* Mutant of IsNextNumber: the greatest number, not one more.              *)
IsGreatestNumber(dir, n) ==
  /\ \A f \in Stored(dir) : dir[f].number <= n
  /\ n = 1 \/ \E f \in Stored(dir) : dir[f].number = n

(* NextNumber: the maximum of the numbers in the directory plus one, 1 for *)
(* a directory without threads; files of named groups carry number 0.      *)
IsNextNumber(dir, n) ==
  /\ \A f \in Stored(dir) : dir[f].number < n
  /\ n = 1 \/ \E f \in Stored(dir) : dir[f].number = n - 1

AnchorAt(c) == [commit |-> c, outdated |-> FALSE]

NewThread(id, n, g, c, as) ==
  [id |-> id, number |-> n, status |-> "open", goal |-> g,
   comments |-> {c}, deps |-> {}, anchors |-> as]

(* traceThreadAnchors asks for a new anchor only when the current one is   *)
(* neither at the target commit nor outdated.                              *)
NeedsTrace(t, c) ==
  /\ t.anchors # <<>>
  /\ Last(t.anchors).commit # c
  /\ ~Last(t.anchors).outdated

(* Mutant of Traced: the thread is rebuilt and loses its number. *)
TracedUnnumbered(t, c, out) ==
  [t EXCEPT !.anchors = Append(@, [commit |-> c, outdated |-> out]), !.number = 0]

(* AppendAnchor(result); where the line went is git's business *)
Traced(t, c, out) ==
  [t EXCEPT !.anchors = Append(@, [commit |-> c, outdated |-> out])]
=============================================================================
