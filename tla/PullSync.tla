------------------------------- MODULE PullSync -------------------------------
(***************************************************************************)
(* `nota sync pull`: the review threads and the conversation of a pull     *)
(* request are fetched page by page (pkg/github/ghapi), merged into the    *)
(* threads that are in the directory, and written back under the lock      *)
(* (pkg/github/pull.go).  The directory is read BEFORE the lock is taken.  *)
(*                                                                         *)
(* A remote comment is its id, its body, which is how often it was         *)
(* edited, and the time of its last edit as the answers tell it: that of a *)
(* review is when it was submitted, and no edit changes it.  Ids grow with *)
(* time, as the lists are ordered.  Reviews and issue comments are one     *)
(* list, the conversation, with ids of one kind.  A user's status, which   *)
(* a pull keeps from its copy as it keeps the comments, is left out.       *)
(***************************************************************************)
EXTENDS SharedDir, SequencesExt

CONSTANTS
    Pullers,        \* processes that pull
    ReviewThreads,  \* review threads of the pull request
    Conversation,   \* its conversation
    PageSize        \* comments in a page (100)

ASSUME PullAssumption ==
    /\ PageSize \in Nat \ {0}
    /\ IsFiniteSet(ReviewThreads)
    /\ Conversation \notin ReviewThreads
    /\ Nobody \notin ReviewThreads \cup {Conversation} \cup Pullers

RemoteThreads == ReviewThreads \cup {Conversation}

VARIABLES
    remote,  \* remote[t]: the comments of remote thread t
    pull,    \* pull[p]: how far p's pull is
    shared   \* history: two pulls have been under way at once

pullVars == <<remote, pull, shared>>

Resting == [stage |-> "idle", there |-> {}]

PullInit ==
    /\ remote = [t \in RemoteThreads |-> <<>>]
    /\ pull = [p \in Pullers |-> Resting]
    /\ shared = FALSE

At(p, stage) == pull[p].stage = stage

Running(p) == pull[p].stage \notin {"idle", "done"}

(* The files that p has read and will write.                               *)
Copied(p) == IF pull[p].stage \in {"lock", "write"}
             THEN {pull[p].left[i].file : i \in DOMAIN pull[p].left} ELSE {}

ElementsOf(s) == {s[i] : i \in DOMAIN s}

Everything == UNION {ElementsOf(remote[t]) : t \in RemoteThreads}

-----------------------------------------------------------------------------
(* The remote side.                                                        *)

(* A review may have no body; in a review thread there are none.           *)
Post(t) ==
    \E review \in (IF t = Conversation THEN BOOLEAN ELSE {FALSE}) :
        \E body \in (IF review THEN {0, 1} ELSE {0}) :
            /\ remote' = [remote EXCEPT ![t] = Append(@,
                    [id |-> inputs + 1, review |-> review, body |-> body, updated |-> 0])]
            /\ UNCHANGED <<pull, shared>>

(* Body 0 of a review is the empty one.                                    *)
HasBody(c) == c.review => c.body > 0

(* A review keeps its time: it is when it was submitted.                   *)
Edited(c) == [c EXCEPT !.body = @ + 1, !.updated = IF c.review THEN @ ELSE @ + 1]

Edit(t, i) ==
    /\ remote' = [remote EXCEPT ![t][i] = Edited(@)]
    /\ UNCHANGED <<pull, shared>>

(* Of what pull p found when it started, and still must bring: a comment   *)
(* that goes is none of it, nor the rest of a numbered list whose later    *)
(* pages have moved up.                                                    *)
StillThere(p, t, i) ==
    LET shifted == IF t = Conversation /\ At(p, "conversation") THEN DOMAIN remote[t] ELSE {i}
    IN  {c \in pull[p].there : \A j \in shifted : c.id # remote[t][j].id}

Delete(t, i) ==
    /\ remote' = [remote EXCEPT ![t] = RemoveAt(@, i)]
    /\ pull' = [p \in Pullers |-> [pull[p] EXCEPT !.there = StillThere(p, t, i)]]
    /\ UNCHANGED shared

(* Nor is what was in a thread that a user removed, unless the pull still  *)
(* has to write it.                                                        *)
WillWrite(p, f) ==
    Running(p) /\ (pull[p].stage \in {"lock", "write"} => f \in Copied(p))

Forget(f) ==
    /\ pull' = [p \in Pullers |->
          IF WillWrite(p, f) THEN pull[p]
          ELSE [pull[p] EXCEPT !.there = {c \in @ : <<"remote", c.id>> \notin NamesIn(threads[f])}]]
    /\ UNCHANGED <<remote, shared>>

-----------------------------------------------------------------------------
(* Fetching.                                                               *)

FirstOf(s) == SubSeq(s, 1, Min({PageSize, Len(s)}))

Start(p) ==
    /\ ~Running(p)
    /\ pull' = [pull EXCEPT ![p] = [stage |-> "threads", there |-> Everything]]
    /\ shared' = (shared \/ \E q \in Pullers \ {p} : Running(q))
    /\ UNCHANGED remote

(* FetchReviewThreads: the threads, each with the first page of its        *)
(* comments and their number.                                              *)
FetchThreads(p) ==
    /\ At(p, "threads")
    /\ pull' = [pull EXCEPT ![p] =
            [stage |-> "comments", there |-> @.there, page |-> 0,
             got |-> [t \in RemoteThreads |->
                        IF t = Conversation THEN <<>> ELSE FirstOf(remote[t])],
             more |-> {t \in ReviewThreads : Len(remote[t]) > PageSize},
             total |-> [t \in ReviewThreads |-> Len(remote[t])]]]
    /\ UNCHANGED <<remote, shared>>

(* fetchRemainingComments: what comes after the last one.                  *)
FetchRemaining(p, t) ==
    /\ At(p, "comments")
    /\ t \in pull[p].more
    /\ LET cursor == pull[p].got[t][Len(pull[p].got[t])].id
           last == Max({0} \cup {i \in DOMAIN remote[t] : remote[t][i].id <= cursor})
           after == SubSeq(remote[t], last + 1, Len(remote[t]))
       IN  pull' = [pull EXCEPT ![p].got[t] = @ \o FirstOf(after),
                                ![p].more = IF Len(after) > PageSize THEN @ ELSE @ \ {t}]
    /\ UNCHANGED <<remote, shared>>

(* fetchCompleteThread: another number of comments than was announced is   *)
(* an error, and the pull ends.                                            *)
CheckCounts(p) ==
    /\ At(p, "comments")
    /\ pull[p].more = {}
    /\ IF \A t \in ReviewThreads : Len(pull[p].got[t]) = pull[p].total[t]
       THEN pull' = [pull EXCEPT ![p].stage = "conversation"]
       ELSE pull' = [pull EXCEPT ![p] = Resting]
    /\ UNCHANGED <<remote, shared>>

(* Mutant of FetchConversation: one page.                                  *)
FetchConversationOnce(p) ==
    /\ At(p, "conversation")
    /\ pull' = [pull EXCEPT ![p].got[Conversation] = FirstOf(remote[Conversation]),
                            ![p].stage = "index"]
    /\ UNCHANGED <<remote, shared>>

(* FetchReviews, FetchIssueComments: pages by their number.                *)
FetchConversation(p) ==
    /\ At(p, "conversation")
    /\ LET before == pull[p].page * PageSize
           after == SubSeq(remote[Conversation], before + 1, Len(remote[Conversation]))
       IN  pull' = [pull EXCEPT ![p].got[Conversation] = @ \o FirstOf(after),
                                ![p].page = @ + 1,
                                ![p].stage = IF Len(after) > PageSize THEN @ ELSE "index"]
    /\ UNCHANGED <<remote, shared>>

-----------------------------------------------------------------------------
(* Merging.                                                                *)

(* mapReviewComment, mapReview, mapIssueComment.                           *)
Pulled(c) == [of |-> <<"remote", c.id>>, bodies |-> <<c.body>>, updated |-> c.updated]

(* What is mapped: reviews without a body are not.                         *)
Mapped(got) == {c \in ElementsOf(got) : HasBody(c)}

(* Mutant of Updated: the time of the update is not stored.                *)
UpdatedUnstamped(comment, c) ==
    IF comment.updated = c.updated THEN comment
    ELSE [comment EXCEPT !.bodies = Append(@, c.body)]

Updated(comment, c) ==
    IF comment.updated = c.updated THEN comment
    ELSE [comment EXCEPT !.bodies = Append(@, c.body), !.updated = c.updated]

(* Mutant of MergeThread: what was fetched replaces what is there.         *)
MergeThreadOver(thread, got) ==
    [thread EXCEPT !.comments = {Pulled(c) : c \in Mapped(got)}]

(* mergeThread: comments that are there get a new body when they were      *)
(* edited, the others are new.                                             *)
MergeThread(thread, got) ==
    LET ids == {comment.of : comment \in thread.comments}
        Counterpart(comment) == {c \in Mapped(got) : comment.of = <<"remote", c.id>>}
        known == {IF Counterpart(comment) = {} THEN comment
                  ELSE Updated(comment, CHOOSE c \in Counterpart(comment) : TRUE) :
                      comment \in thread.comments}
        new == {Pulled(c) : c \in {d \in Mapped(got) : <<"remote", d.id>> \notin ids}}
    IN  [thread EXCEPT !.comments = known \cup new]

(* Mutant of MapThread: the thread does not say what it is a copy of.      *)
MapThreadUnnamed(t, got) == Thread(0, Nobody, {Pulled(c) : c \in Mapped(got)})

(* mapReviewThread, mapConversationThread; the number comes later.         *)
MapThread(t, got) == Thread(0, t, {Pulled(c) : c \in Mapped(got)})

(* Pull's loop: the copies that the match index knows, else new threads.   *)
Entry(t, got) ==
    LET copies == {f \in DOMAIN threads : threads[f].remote = t}
    IN  IF copies = {} THEN [file |-> Nobody, thread |-> MapThread(t, got)]
        ELSE LET f == Max(copies) IN [file |-> f, thread |-> MergeThread(threads[f], got)]

(* buildMatchIndex and the loops of Pull.                                  *)
Index(p) ==
    /\ At(p, "index")
    /\ LET got == pull[p].got
           found == SetToSeq({t \in ReviewThreads : got[t] # <<>>})
                        \o (IF Mapped(got[Conversation]) # {} THEN <<Conversation>> ELSE <<>>)
       IN  pull' = [pull EXCEPT ![p] =
               IF found = <<>> THEN [stage |-> "done", there |-> @.there]
               ELSE [stage |-> "lock", there |-> @.there, number |-> 0,
                     left |-> [i \in DOMAIN found |-> Entry(found[i], got[found[i]])]]]
    /\ UNCHANGED <<remote, shared, dirVars>>

-----------------------------------------------------------------------------
(* writeThreads.                                                           *)

Lock(p) ==
    /\ At(p, "lock")
    /\ lock = Nobody
    /\ lock' = p
    /\ pull' = [pull EXCEPT ![p].stage = "write", ![p].number = NextNumber]
    /\ UNCHANGED <<remote, shared, directory>>

(* Mutant of Write: the number is not counted up.                          *)
WriteUncounted(p) ==
    /\ At(p, "write")
    /\ pull[p].left # <<>>
    /\ LET entry == Head(pull[p].left)
           new == entry.file = Nobody
       IN  /\ threads' = IF new THEN Written(NewFile, [entry.thread EXCEPT !.number = pull[p].number])
                         ELSE Written(entry.file, entry.thread)
           /\ files' = IF new THEN NewFile ELSE files
           /\ revived' = revived \cup ({entry.file} \ (DOMAIN threads \cup {Nobody}))
           /\ pull' = [pull EXCEPT ![p].left = Tail(@)]
    /\ UNCHANGED <<remote, shared, lock, removed>>

Write(p) ==
    /\ At(p, "write")
    /\ pull[p].left # <<>>
    /\ LET entry == Head(pull[p].left)
           new == entry.file = Nobody
       IN  /\ threads' = IF new THEN Written(NewFile, [entry.thread EXCEPT !.number = pull[p].number])
                         ELSE Written(entry.file, entry.thread)
           /\ files' = IF new THEN NewFile ELSE files
           /\ revived' = revived \cup ({entry.file} \ (DOMAIN threads \cup {Nobody}))
           /\ pull' = [pull EXCEPT ![p].left = Tail(@),
                                   ![p].number = IF new THEN @ + 1 ELSE @]
    /\ UNCHANGED <<remote, shared, lock, removed>>

Unlock(p) ==
    /\ At(p, "write")
    /\ pull[p].left = <<>>
    /\ lock' = Nobody
    /\ pull' = [pull EXCEPT ![p] = [stage |-> "done", there |-> @.there]]
    /\ UNCHANGED <<remote, shared, directory>>

(* An error, or the end of the process: the lock is released, what is      *)
(* written stays.                                                          *)
Stop(p) ==
    /\ Running(p)
    /\ pull' = [pull EXCEPT ![p] = Resting]
    /\ lock' = IF lock = p THEN Nobody ELSE lock
    /\ UNCHANGED <<remote, shared, directory>>

-----------------------------------------------------------------------------
Fetch(p) ==
    \/ FetchThreads(p) \/ CheckCounts(p) \/ FetchConversation(p)
    \/ \E t \in ReviewThreads : FetchRemaining(p, t)

RemoteInput ==
    \E t \in RemoteThreads :
        Post(t) \/ \E i \in DOMAIN remote[t] : Edit(t, i) \/ Delete(t, i)

PullNext ==
    \/ Input /\ (RemoteInput \/ \E p \in Pullers : Start(p)) /\ UNCHANGED <<dirVars, exposed>>
    \/ Input /\ (\E p \in Pullers : Stop(p)) /\ UNCHANGED exposed
    \/ \E p \in Pullers : Fetch(p) /\ UNCHANGED <<dirVars, inputs, exposed>>
    \/ \E p \in Pullers : (Index(p) \/ Lock(p) \/ Write(p) \/ Unlock(p))
                              /\ UNCHANGED <<inputs, exposed>>

-----------------------------------------------------------------------------
(* Properties, of one pull at a time where they say so.                    *)

(* A remote comment is in one thread of the directory, however often it is *)
(* pulled and wherever pulls end half-way (buildMatchIndex, writeThreads). *)
OneCopy ==
    ~shared => \A f, g \in DOMAIN threads : \A c \in threads[f].comments, d \in threads[g].comments :
        c.of = d.of /\ c.of[1] = "remote" => f = g /\ c = d

(* A pull that ends well has brought every comment that was there from its *)
(* start, in the version whose time it had then or a later one, through    *)
(* all pages (fetchCompleteThread, FetchReviews, FetchIssueComments,       *)
(* mergeThread).  A review's time stands still (mapReview), so of one that *)
(* was pulled before no edit is brought.                                   *)
PulledAll ==
    ~shared => \A p \in Pullers : At(p, "done") =>
        \A c \in pull[p].there : HasBody(c) => \E comment \in AllComments :
            comment.of = <<"remote", c.id>> /\ comment.updated >= c.updated

(* The bodies of a comment are its edits in their order, each one once     *)
(* (mergeThread).                                                          *)
BodiesForward ==
    ~shared => \A comment \in AllComments :
        \A i, j \in DOMAIN comment.bodies : i < j => comment.bodies[i] < comment.bodies[j]

(* No step takes a comment from a numbered thread, except a user's `rm` of *)
(* the thread, a pull that writes back its copy over what was typed since  *)
(* it read the thread (buildMatchIndex before LockDir), or the later one   *)
(* of two pulls that were under way at once over what the other brought.   *)
CommentsKept ==
    [][\A f \in DOMAIN threads \ Groups : \A c \in threads[f].comments :
            \/ f \in DOMAIN threads' /\ c.of \in NamesIn(threads'[f])
            \/ f \notin DOMAIN threads' /\ c.of \in removed'
            \/ c.of \in exposed
            \/ shared /\ c.of[1] = "remote"]_threads
=============================================================================
