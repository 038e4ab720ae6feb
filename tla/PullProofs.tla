------------------------------ MODULE PullProofs ------------------------------
(***************************************************************************)
(* What pulls bring into the directory: each remote comment once, with its *)
(* edits in their order, and all of them, as long as no two pulls are      *)
(* under way at once.                                                      *)
(***************************************************************************)
EXTENDS ImportProofs

(* What p has fetched of remote thread t. *)
GotOf(p, t) == IF pull[p].stage \in {"comments", "conversation", "index"}
               THEN ElementsOf(pull[p].got[t]) ELSE {}

-----------------------------------------------------------------------------
(* Lists are in the order of their ids, also after pages were put          *)
(* together; that is what the cursor and the page numbers rely on.         *)

Rising(s) == \A i, j \in DOMAIN s : i < j => s[i].id < s[j].id

PagesInv(p) ==
    /\ \A t \in RemoteThreads : Rising(pull[p].got[t])
    /\ \A t \in pull[p].more : pull[p].got[t] # <<>>
    /\ At(p, "comments") => pull[p].page = 0 /\ pull[p].got[Conversation] = <<>>
    /\ ~At(p, "index") => \A c \in GotOf(p, Conversation), i \in DOMAIN remote[Conversation] :
            i > pull[p].page * PageSize => c.id < remote[Conversation][i].id

OrderInv ==
    /\ \A t \in RemoteThreads : Rising(remote[t])
    /\ \A p \in Pullers : pull[p].stage \in {"comments", "conversation", "index"} => PagesInv(p)

-----------------------------------------------------------------------------
(* Where the name of a comment of remote thread t may be; it is never with *)
(* another remote thread.                                                  *)

Seen(of, t) ==
    \/ \E c \in ElementsOf(remote[t]) : of = Names(c)
    \/ \E p \in Pullers : \E c \in GotOf(p, t) : of = Names(c)
    \/ \E f \in DOMAIN threads : threads[f].remote = t /\ of \in NamesIn(threads[f])
    \/ \E p \in Pullers : \E entry \in LeftOf(p) :
            entry.thread.remote = t /\ of \in NamesIn(entry.thread)

OriginInv ==
    /\ \A t \in RemoteThreads, of \in RemoteNames : Seen(of, t) => of[2] <= inputs
    /\ \A t, u \in RemoteThreads, of \in RemoteNames : Seen(of, t) /\ Seen(of, u) => t = u
    /\ \A f \in DOMAIN threads : threads[f].remote = Nobody => NamesIn(threads[f]) \cap RemoteNames = {}

-----------------------------------------------------------------------------
(* Copies are never ahead of what they are copies of.                      *)

(* d is remote comment c, then or later. *)
Later(d, c) == d.id = c.id /\ d.review = c.review /\ c.body <= d.body

Forward(comment) ==
    \A i, j \in DOMAIN comment.bodies : i < j => comment.bodies[i] < comment.bodies[j]

(* No body is newer than the time of the comment, which a review's may be. *)
Stamped(comment) == \A i \in DOMAIN comment.bodies : comment.bodies[i] <= comment.updated

Upto(comment, cs) ==
    \A c \in cs : comment.of = Names(c) =>
        comment.updated <= c.updated /\ (c.review \/ Stamped(comment))

EditInv ==
    /\ \A p \in Pullers : \A c \in Got(p), d \in Everything : c.id = d.id => Later(d, c)
    /\ \A f \in DOMAIN threads : \A comment \in threads[f].comments :
            /\ Forward(comment)
            /\ Upto(comment, Everything)
            /\ \A p \in Pullers : Upto(comment, Got(p))
    /\ \A p \in Pullers : \A entry \in LeftOf(p) : \A comment \in entry.thread.comments :
            Forward(comment) /\ Upto(comment, Everything)

-----------------------------------------------------------------------------
(* A remote thread has one file, and a comment is in it once.              *)

NamesOnce(thread) ==
    \A c, d \in thread.comments : c.of = d.of /\ c.of \in RemoteNames => c = d

(* The file that an entry is for is the only one of its remote thread. *)
Unwritten(entry) ==
    \A f \in DOMAIN threads : threads[f].remote = entry.thread.remote => f = entry.file

OnePlaceInv ==
    /\ \A f \in DOMAIN threads : NamesOnce(threads[f])
    /\ \A p \in Pullers : \A entry \in LeftOf(p) : NamesOnce(entry.thread)
    /\ ~shared => \A f, g \in DOMAIN threads :
            threads[f].remote = threads[g].remote /\ threads[f].remote # Nobody => f = g
    /\ ~shared => \A p \in Pullers : \A entry \in LeftOf(p) : Unwritten(entry)

-----------------------------------------------------------------------------
(* What was there when a pull started is on its way.                       *)

(* Some of cs is remote comment c, as c is or later. *)
HasIt(cs, c) == \E d \in cs : Later(d, c)

(* Some of the comments is a copy of c, as c is or later. *)
HasCopy(comments, c) == \E comment \in comments : comment.of = Names(c) /\ c.updated <= comment.updated

(* The requests for thread t that p has still to make will bring i. *)
Pending(p, t, i) ==
    IF t = Conversation THEN ~At(p, "index") /\ i > pull[p].page * PageSize
    ELSE /\ At(p, "comments") /\ t \in pull[p].more
         /\ remote[t][i].id > pull[p].got[t][Len(pull[p].got[t])].id

Coming(p, c) ==
    \E t \in RemoteThreads :
        \/ HasIt(GotOf(p, t), c)
        \/ \E i \in DOMAIN remote[t] :
              Pending(p, t, i) /\ Later(remote[t][i], c)

(* What p will write over a thread is no older than the thread. *)
CoversEdits(entry) ==
    entry.file \in DOMAIN threads =>
        \A k \in threads[entry.file].comments : k.of \in RemoteNames =>
            \E m \in entry.thread.comments : m.of = k.of /\ k.updated <= m.updated

BroughtInv ==
    /\ \A p \in Pullers : At(p, "threads") =>
            \A c \in pull[p].there : HasIt(Everything, c)
    /\ \A p \in Pullers : pull[p].stage \in {"comments", "conversation", "index"} =>
            \A c \in pull[p].there : Coming(p, c)
    /\ ~shared => \A p \in Pullers : \A entry \in LeftOf(p) : CoversEdits(entry)
    /\ ~shared => \A p \in Pullers : At(p, "lock") \/ At(p, "write") =>
            \A c \in pull[p].there : HasBody(c) =>
                \/ HasCopy(AllComments, c)
                \/ \E entry \in LeftOf(p) : HasCopy(entry.thread.comments, c)
    /\ PulledAll

-----------------------------------------------------------------------------
(* What the remote side does to the lists.                                 *)

LEMMA LaterOf ==
  ASSUME NEW c \in RemoteComments, NEW d \in RemoteComments, Later(d, c)
  PROVE  /\ d.id = c.id /\ d.review = c.review /\ c.updated <= d.updated
         /\ HasBody(c) => HasBody(d)
         /\ \A b \in RemoteComments : Later(c, b) => Later(d, b)
<1>1. c.body \in Nat /\ d.body \in Nat /\ \A b \in RemoteComments : b.body \in Nat
  BY DEF RemoteComments
<1>2. d.id = c.id /\ d.review = c.review /\ c.body <= d.body
  BY DEF Later
<1>3. c.updated = (IF c.review THEN 0 ELSE c.body) /\ d.updated = (IF d.review THEN 0 ELSE d.body)
  BY DEF RemoteComments
<1>4. c.updated <= d.updated
  BY <1>1, <1>2, <1>3
<1>5. HasBody(c) => HasBody(d)
  BY <1>1, <1>2 DEF HasBody
<1>6. \A b \in RemoteComments : Later(c, b) => Later(d, b)
  BY <1>1, <1>2 DEF Later
<1> QED BY <1>2, <1>4, <1>5, <1>6

LEMMA LaterSelf == \A c \in RemoteComments : Later(c, c)
BY DEF Later, RemoteComments

LEMMA ListOf ==
  ASSUME PullTypeOK, NEW t \in RemoteThreads
  PROVE  /\ remote[t] \in Seq(RemoteComments) /\ Len(remote[t]) \in Nat
         /\ DOMAIN remote[t] = 1 .. Len(remote[t])
         /\ \A i \in 1 .. Len(remote[t]) : /\ remote[t][i] \in RemoteComments
                                          /\ remote[t][i].id \in Nat /\ remote[t][i].updated \in Nat
<1>1. remote[t] \in Seq(RemoteComments)
  BY DEF PullTypeOK
<1>2. \A i \in 1 .. Len(remote[t]) : remote[t][i] \in RemoteComments
  BY <1>1
<1> QED BY <1>1, <1>2 DEF RemoteComments

LEMMA PostOf ==
  ASSUME PullTypeOK, inputs \in Nat, NEW t \in RemoteThreads, Post(t)
  PROVE  /\ pull' = pull /\ shared' = shared
         /\ \A u \in RemoteThreads : u # t => remote'[u] = remote[u]
         /\ remote'[t] \in Seq(RemoteComments) /\ Len(remote'[t]) = Len(remote[t]) + 1
         /\ \A i \in 1 .. Len(remote[t]) : remote'[t][i] = remote[t][i]
         /\ remote'[t][Len(remote[t]) + 1].id = inputs + 1
<1>1. PICK new \in RemoteComments :
        /\ remote' = [remote EXCEPT ![t] = Append(@, new)]
        /\ new.id = inputs + 1
        /\ pull' = pull /\ shared' = shared
  BY PostedOf
<1>2. remote[t] \in Seq(RemoteComments)
  BY DEF PullTypeOK
<1>3. remote'[t] = Append(remote[t], new) /\ \A u \in RemoteThreads : u # t => remote'[u] = remote[u]
  BY <1>1 DEF PullTypeOK
<1>4. /\ Append(remote[t], new) \in Seq(RemoteComments)
      /\ Len(Append(remote[t], new)) = Len(remote[t]) + 1
      /\ \A i \in 1 .. Len(remote[t]) : Append(remote[t], new)[i] = remote[t][i]
      /\ Append(remote[t], new)[Len(remote[t]) + 1] = new
  BY <1>2
<1> QED BY <1>1, <1>3, <1>4

LEMMA EditOf ==
  ASSUME PullTypeOK, NEW t \in RemoteThreads, NEW i \in DOMAIN remote[t], Edit(t, i)
  PROVE  /\ pull' = pull /\ shared' = shared
         /\ \A u \in RemoteThreads : u # t => remote'[u] = remote[u]
         /\ remote'[t] \in Seq(RemoteComments) /\ Len(remote'[t]) = Len(remote[t])
         /\ \A j \in 1 .. Len(remote[t]) : Later(remote'[t][j], remote[t][j])
<1>1. remote[t] \in Seq(RemoteComments) /\ i \in 1 .. Len(remote[t])
  BY DEF PullTypeOK
<1>2. \A j \in 1 .. Len(remote[t]) : remote[t][j] \in RemoteComments
  BY <1>1
<1> DEFINE new == Edited(remote[t][i])
<1>3. new \in RemoteComments /\ Later(new, remote[t][i])
  <2>1. remote[t][i] \in RemoteComments /\ remote[t][i].body \in Nat
    BY <1>1, <1>2 DEF RemoteComments
  <2>2. remote[t][i].body <= remote[t][i].body + 1
    BY <2>1
  <2> QED BY <2>1, <2>2, EditedOf DEF Later
<1>4. /\ remote'[t] = [remote[t] EXCEPT ![i] = new]
      /\ \A u \in RemoteThreads : u # t => remote'[u] = remote[u]
  BY DEF Edit, PullTypeOK
<1> HIDE DEF new
<1>5. /\ [remote[t] EXCEPT ![i] = new] \in Seq(RemoteComments)
      /\ Len([remote[t] EXCEPT ![i] = new]) = Len(remote[t])
      /\ \A j \in 1 .. Len(remote[t]) :
            [remote[t] EXCEPT ![i] = new][j] = IF j = i THEN new ELSE remote[t][j]
  BY <1>1, <1>3
<1>6. \A j \in 1 .. Len(remote[t]) : Later(remote'[t][j], remote[t][j])
  BY <1>2, <1>3, <1>4, <1>5, LaterSelf
<1> QED BY <1>4, <1>5, <1>6 DEF Edit

(* Of p's state only what it must still bring changes. *)
LEMMA DeleteOf ==
  ASSUME PullTypeOK, NEW t \in RemoteThreads, NEW i \in DOMAIN remote[t], Delete(t, i)
  PROVE  /\ shared' = shared
         /\ \A u \in RemoteThreads : u # t => remote'[u] = remote[u]
         /\ remote'[t] \in Seq(RemoteComments) /\ Len(remote'[t]) = Len(remote[t]) - 1
         /\ \A j \in 1 .. Len(remote[t]) - 1 : remote'[t][j] = remote[t][IF j < i THEN j ELSE j + 1]
         /\ \A p \in Pullers : /\ pull'[p] = [pull[p] EXCEPT !.there = StillThere(p, t, i)]
                               /\ pull'[p].there = StillThere(p, t, i)
<1>1. remote[t] \in Seq(RemoteComments) /\ i \in 1 .. Len(remote[t])
  BY DEF PullTypeOK
<1>2. remote'[t] = RemoveAt(remote[t], i) /\ \A u \in RemoteThreads : u # t => remote'[u] = remote[u]
  BY DEF Delete, PullTypeOK
<1>3. /\ RemoveAt(remote[t], i) \in Seq(RemoteComments)
      /\ Len(RemoveAt(remote[t], i)) = Len(remote[t]) - 1
      /\ \A j \in 1 .. Len(remote[t]) - 1 :
            RemoveAt(remote[t], i)[j] = remote[t][IF j < i THEN j ELSE j + 1]
  BY <1>1, RemoveAtOf
<1>4. ASSUME NEW p \in Pullers
      PROVE  /\ pull'[p] = [pull[p] EXCEPT !.there = StillThere(p, t, i)]
             /\ pull'[p].there = StillThere(p, t, i)
  <2>1. pull'[p] = [pull[p] EXCEPT !.there = StillThere(p, t, i)]
    BY DEF Delete
  <2>2. "there" \in DOMAIN pull[p]
    BY PullShape DEF Waiting, Fetching, Writing
  <2> QED BY <2>1, <2>2
<1> QED BY <1>2, <1>3, <1>4 DEF Delete

-----------------------------------------------------------------------------
(* What the requests of a pull bring.                                      *)

LEMMA FetchThreadsOf ==
  ASSUME PullTypeOK, NEW p \in Pullers, FetchThreads(p)
  PROVE  /\ At(p, "threads") /\ pull'[p] \in Fetching /\ pull'[p].stage = "comments"
         /\ pull'[p].there = pull[p].there /\ pull'[p].page = 0
         /\ pull'[p].got[Conversation] = <<>>
         /\ \A t \in ReviewThreads : pull'[p].got[t] = FirstOf(remote[t])
         /\ pull'[p].more = {t \in ReviewThreads : Len(remote[t]) > PageSize}
         /\ remote' = remote /\ shared' = shared
<1>1. pull'[p] = [stage |-> "comments", there |-> pull[p].there, page |-> 0,
                  got |-> [t \in RemoteThreads |->
                             IF t = Conversation THEN <<>> ELSE FirstOf(remote[t])],
                  more |-> {t \in ReviewThreads : Len(remote[t]) > PageSize},
                  total |-> [t \in ReviewThreads |-> Len(remote[t])]]
  BY DEF FetchThreads, PullTypeOK
<1>2. pull'[p] \in Fetching
  <2>1. \A t \in RemoteThreads : FirstOf(remote[t]) \in Seq(RemoteComments) /\ Len(remote[t]) \in Nat
    BY FirstOfType DEF PullTypeOK
  <2>2. [t \in RemoteThreads |-> IF t = Conversation THEN <<>> ELSE FirstOf(remote[t])]
            \in [RemoteThreads -> Seq(RemoteComments)]
    BY <2>1
  <2>3. [t \in ReviewThreads |-> Len(remote[t])] \in [ReviewThreads -> Nat]
    BY <2>1 DEF RemoteThreads
  <2>4. pull[p].there \subseteq RemoteComments
    BY PullShape
  <2> QED BY <1>1, <2>2, <2>3, <2>4 DEF Fetching
<1>3. Conversation \in RemoteThreads /\ ReviewThreads \subseteq RemoteThreads /\ Conversation \notin ReviewThreads
  BY PullAssumption DEF RemoteThreads
<1> QED BY <1>1, <1>2, <1>3 DEF FetchThreads

LEMMA FetchRemainingOf ==
  ASSUME PullTypeOK, NEW p \in Pullers, NEW t \in ReviewThreads, FetchRemaining(p, t),
         Rising(remote[t]), pull[p].got[t] # <<>>
  PROVE  /\ pull[p] \in Fetching /\ At(p, "comments") /\ t \in pull[p].more
         /\ t \in RemoteThreads /\ t # Conversation
         /\ \E last \in 0 .. Len(remote[t]), page \in Seq(RemoteComments), new \in Fetching :
              /\ \A i \in 1 .. Len(remote[t]) :
                    remote[t][i].id <= pull[p].got[t][Len(pull[p].got[t])].id <=> i <= last
              /\ Len(page) = IF PageSize <= Len(remote[t]) - last THEN PageSize
                             ELSE Len(remote[t]) - last
              /\ \A i \in 1 .. Len(page) : page[i] = remote[t][last + i]
              /\ pull' = [pull EXCEPT ![p] = new] /\ pull'[p] = new
              /\ new.stage = "comments" /\ new.there = pull[p].there /\ new.page = pull[p].page
              /\ new.got[t] = pull[p].got[t] \o page
              /\ \A u \in RemoteThreads : u # t => new.got[u] = pull[p].got[u]
              /\ new.more = IF Len(remote[t]) - last > PageSize THEN pull[p].more
                            ELSE pull[p].more \ {t}
         /\ remote' = remote /\ shared' = shared
<1> DEFINE cursor == pull[p].got[t][Len(pull[p].got[t])].id
           S == {0} \cup {i \in DOMAIN remote[t] : remote[t][i].id <= cursor}
           last == Max(S)
           after == SubSeq(remote[t], last + 1, Len(remote[t]))
           new == [pull[p] EXCEPT !.got[t] = @ \o FirstOf(after),
                                  !.more = IF Len(after) > PageSize THEN @ ELSE @ \ {t}]
<1>1. /\ pull[p] \in Fetching /\ At(p, "comments") /\ t \in pull[p].more
      /\ t \in RemoteThreads /\ t # Conversation
  BY PullShape, PullAssumption DEF FetchRemaining, At, RemoteThreads
<1>2. remote[t] \in Seq(RemoteComments) /\ pull[p].got[t] \in Seq(RemoteComments)
  BY <1>1 DEF PullTypeOK, Fetching
<1>3. cursor \in Nat /\ \A i \in 1 .. Len(remote[t]) : remote[t][i].id \in Nat
  <2>1. Len(pull[p].got[t]) \in 1 .. Len(pull[p].got[t])
    BY <1>2
  <2>2. pull[p].got[t][Len(pull[p].got[t])] \in RemoteComments
    BY <1>2, <2>1
  <2>3. \A i \in 1 .. Len(remote[t]) : remote[t][i] \in RemoteComments
    BY <1>2
  <2> QED BY <2>2, <2>3 DEF RemoteComments
<1>4. pull' = [pull EXCEPT ![p] = new]
  BY DEF FetchRemaining
<1> HIDE DEF cursor
<1>5. last \in 0 .. Len(remote[t]) /\ last \in S /\ \A i \in S : i <= last
  <2>1. S \subseteq 0 .. Len(remote[t]) /\ S # {}
    BY <1>2
  <2> HIDE DEF S
  <2>2. IsFiniteSet(S) /\ S \subseteq Int
    <3>1. Len(remote[t]) \in Int /\ 0 .. Len(remote[t]) \subseteq Int
      BY <1>2
    <3>2. IsFiniteSet(0 .. Len(remote[t]))
      BY <3>1, FS_Interval
    <3> QED BY <2>1, <3>1, <3>2, FS_Subset
  <2>3. Max(S) \in S /\ \A x \in S : x <= Max(S)
    BY <2>1, <2>2, MaxOf
  <2> QED BY <2>1, <2>3
<1>6. ASSUME NEW i \in 1 .. Len(remote[t]) PROVE remote[t][i].id <= cursor <=> i <= last
  <2>1. remote[t][i].id <= cursor => i \in S
    BY <1>2
  <2>2. ASSUME i <= last PROVE remote[t][i].id <= cursor
    <3>1. last \in DOMAIN remote[t] /\ remote[t][last].id <= cursor
      BY <1>2, <1>5, <2>2
    <3>2. CASE i = last
      BY <3>1, <3>2
    <3>3. CASE i # last
      <4>1. i < last /\ i \in DOMAIN remote[t]
        BY <1>2, <1>5, <2>2, <3>3
      <4>2. remote[t][i].id < remote[t][last].id
        BY <3>1, <4>1 DEF Rising
      <4>3. remote[t][last].id \in Nat
        <5>1. last \in 1 .. Len(remote[t])
          BY <1>2, <3>1
        <5> QED BY <1>3, <5>1
      <4> QED BY <1>3, <3>1, <4>2, <4>3
    <3> QED BY <3>2, <3>3
  <2> QED BY <1>5, <2>1, <2>2
<1> HIDE DEF S, last
<1>7. /\ after \in Seq(RemoteComments) /\ Len(after) = Len(remote[t]) - last
      /\ \A i \in 1 .. Len(after) : after[i] = remote[t][last + i]
  <2>1. Len(remote[t]) \in Nat /\ last + 1 \in Nat \ {0}
    BY <1>2, <1>5
  <2>2. /\ after \in Seq(RemoteComments)
        /\ Len(after) = IF last + 1 <= Len(remote[t]) THEN Len(remote[t]) - (last + 1) + 1 ELSE 0
        /\ \A i \in 1 .. Len(after) : after[i] = remote[t][(last + 1) + i - 1]
    BY <1>2, <2>1, SubSeqOf
  <2> HIDE DEF after
  <2>3. Len(after) = Len(remote[t]) - last
    BY <1>5, <2>1, <2>2
  <2>4. \A i \in 1 .. Len(after) : (last + 1) + i - 1 = last + i
    BY <2>1, <1>5
  <2> QED BY <2>2, <2>3, <2>4
<1> HIDE DEF after
<1>8. /\ FirstOf(after) \in Seq(RemoteComments)
      /\ Len(FirstOf(after)) = IF PageSize <= Len(after) THEN PageSize ELSE Len(after)
      /\ \A i \in 1 .. Len(FirstOf(after)) : FirstOf(after)[i] = after[i]
  BY <1>7, FirstOfType
<1> DEFINE page == FirstOf(after)
<1>9. \A i \in 1 .. Len(page) : page[i] = remote[t][last + i]
  <2>1. \A i \in 1 .. Len(page) : i \in 1 .. Len(after)
    BY <1>5, <1>7, <1>8, PullAssumption
  <2> QED BY <1>7, <1>8, <2>1
<1> HIDE DEF page
<1>10. new = [pull[p] EXCEPT !.got[t] = pull[p].got[t] \o page,
                             !.more = IF Len(after) > PageSize THEN pull[p].more ELSE pull[p].more \ {t}]
  BY DEF page
<1> HIDE DEF new
<1>11. /\ new \in Fetching
       /\ new.stage = "comments" /\ new.there = pull[p].there /\ new.page = pull[p].page
       /\ new.got[t] = pull[p].got[t] \o page
       /\ \A u \in RemoteThreads : u # t => new.got[u] = pull[p].got[u]
       /\ new.more = IF Len(after) > PageSize THEN pull[p].more ELSE pull[p].more \ {t}
  <2>1. pull[p].got[t] \o page \in Seq(RemoteComments)
    BY <1>2, <1>8 DEF page
  <2> QED BY <1>1, <1>10, <2>1 DEF Fetching, At
<1>12. pull'[p] = new
  BY <1>4 DEF PullTypeOK
<1>13. remote' = remote /\ shared' = shared
  BY DEF FetchRemaining
<1>14. page \in Seq(RemoteComments) /\ Len(page) = IF PageSize <= Len(remote[t]) - last THEN PageSize
                                                   ELSE Len(remote[t]) - last
  BY <1>7, <1>8 DEF page
<1>15. \A i \in 1 .. Len(remote[t]) : remote[t][i].id <= pull[p].got[t][Len(pull[p].got[t])].id <=> i <= last
  BY <1>6 DEF cursor
<1> QED BY ZenonT(60), <1>1, <1>4, <1>5, <1>7, <1>9, <1>11, <1>12, <1>13, <1>14, <1>15

LEMMA CheckCountsOf ==
  ASSUME PullTypeOK, NEW p \in Pullers, CheckCounts(p)
  PROVE  /\ pull[p] \in Fetching /\ At(p, "comments") /\ pull[p].more = {}
         /\ \/ pull'[p] = Resting
            \/ /\ pull'[p] = [pull[p] EXCEPT !.stage = "conversation"]
               /\ pull'[p] \in Fetching /\ pull'[p].stage = "conversation"
         /\ remote' = remote /\ shared' = shared
<1>1. pull[p] \in Fetching /\ At(p, "comments") /\ pull[p].more = {}
  BY PullShape DEF CheckCounts, At
<1>2. \/ pull'[p] = Resting
      \/ pull'[p] = [pull[p] EXCEPT !.stage = "conversation"]
  BY DEF CheckCounts, PullTypeOK
<1> QED BY <1>1, <1>2 DEF CheckCounts, Fetching

LEMMA FetchConversationOf ==
  ASSUME PullTypeOK, NEW p \in Pullers, FetchConversation(p)
  PROVE  /\ pull[p] \in Fetching /\ At(p, "conversation") /\ Conversation \in RemoteThreads
         /\ pull[p].page * PageSize \in Nat
         /\ \E page \in Seq(RemoteComments), new \in Fetching, rest \in Nat :
              /\ rest = IF pull[p].page * PageSize <= Len(remote[Conversation])
                        THEN Len(remote[Conversation]) - pull[p].page * PageSize ELSE 0
              /\ Len(page) = IF PageSize <= rest THEN PageSize ELSE rest
              /\ \A i \in 1 .. Len(page) : page[i] = remote[Conversation][pull[p].page * PageSize + i]
              /\ pull' = [pull EXCEPT ![p] = new] /\ pull'[p] = new
              /\ new.stage = IF rest > PageSize THEN "conversation" ELSE "index"
              /\ new.there = pull[p].there /\ new.page = pull[p].page + 1 /\ new.more = pull[p].more
              /\ new.got[Conversation] = pull[p].got[Conversation] \o page
              /\ \A u \in RemoteThreads : u # Conversation => new.got[u] = pull[p].got[u]
         /\ remote' = remote /\ shared' = shared
<1> DEFINE before == pull[p].page * PageSize
           all == remote[Conversation]
           after == SubSeq(all, before + 1, Len(all))
           new == [pull[p] EXCEPT !.got[Conversation] = @ \o FirstOf(after), !.page = @ + 1,
                                  !.stage = IF Len(after) > PageSize THEN @ ELSE "index"]
<1>1. pull[p] \in Fetching /\ At(p, "conversation") /\ Conversation \in RemoteThreads
  BY PullShape DEF FetchConversation, At, RemoteThreads
<1>2. all \in Seq(RemoteComments) /\ pull[p].got[Conversation] \in Seq(RemoteComments) /\ pull[p].page \in Nat
  BY <1>1 DEF PullTypeOK, Fetching
<1>3. before \in Nat
  BY <1>2, PullAssumption
<1>4. pull' = [pull EXCEPT ![p] = new]
  BY DEF FetchConversation
<1> HIDE DEF before
<1>5. /\ after \in Seq(RemoteComments)
      /\ Len(after) = IF before <= Len(all) THEN Len(all) - before ELSE 0
      /\ \A i \in 1 .. Len(after) : after[i] = all[before + i]
  <2>1. Len(all) \in Nat /\ before + 1 \in Nat \ {0}
    BY <1>2, <1>3
  <2>2. /\ after \in Seq(RemoteComments)
        /\ Len(after) = IF before + 1 <= Len(all) THEN Len(all) - (before + 1) + 1 ELSE 0
        /\ \A i \in 1 .. Len(after) : after[i] = all[(before + 1) + i - 1]
    BY SMTT(30), <1>2, <2>1, SubSeqOf
  <2> HIDE DEF after, all
  <2>3. Len(after) = IF before <= Len(all) THEN Len(all) - before ELSE 0
    BY <1>3, <2>1, <2>2
  <2>4. \A i \in 1 .. Len(after) : (before + 1) + i - 1 = before + i
    BY <1>3, <2>1
  <2> QED BY <2>2, <2>3, <2>4
<1> HIDE DEF after
<1>6. /\ FirstOf(after) \in Seq(RemoteComments)
      /\ Len(FirstOf(after)) = IF PageSize <= Len(after) THEN PageSize ELSE Len(after)
      /\ \A i \in 1 .. Len(FirstOf(after)) : FirstOf(after)[i] = after[i]
  BY <1>5, FirstOfType
<1> DEFINE page == FirstOf(after)
<1>7. \A i \in 1 .. Len(page) : page[i] = all[before + i]
  <2>1. Len(after) \in Nat
    BY <1>5
  <2>2. \A i \in 1 .. Len(page) : i \in 1 .. Len(after)
    BY <1>6, <2>1, PullAssumption
  <2> QED BY <1>5, <1>6, <2>2
<1> HIDE DEF page
<1>8. /\ new \in Fetching
      /\ new.stage = IF Len(after) > PageSize THEN "conversation" ELSE "index"
      /\ new.there = pull[p].there /\ new.page = pull[p].page + 1 /\ new.more = pull[p].more
      /\ new.got[Conversation] = pull[p].got[Conversation] \o page
      /\ \A u \in RemoteThreads : u # Conversation => new.got[u] = pull[p].got[u]
  <2>1. pull[p].got[Conversation] \o page \in Seq(RemoteComments) /\ pull[p].page + 1 \in Nat
    BY <1>2, <1>6 DEF page
  <2> DEFINE stage == IF Len(after) > PageSize THEN pull[p].stage ELSE "index"
  <2>2. stage = (IF Len(after) > PageSize THEN "conversation" ELSE "index") /\ stage \in {"conversation", "index"}
    BY <1>1 DEF At
  <2>3. new = [pull[p] EXCEPT !.got[Conversation] = pull[p].got[Conversation] \o page,
                              !.page = pull[p].page + 1, !.stage = stage]
    BY DEF page
  <2> HIDE DEF stage, new
  <2> QED BY <1>1, <2>1, <2>2, <2>3 DEF Fetching
<1>9. pull'[p] = new /\ remote' = remote /\ shared' = shared
  BY <1>4 DEF PullTypeOK, FetchConversation
<1>10. /\ Len(after) \in Nat
       /\ Len(page) = IF PageSize <= Len(after) THEN PageSize ELSE Len(after)
       /\ page \in Seq(RemoteComments)
  BY <1>5, <1>6 DEF page
<1> HIDE DEF new
<1> QED BY <1>1, <1>3, <1>4, <1>5, <1>7, <1>8, <1>9, <1>10 DEF before

-----------------------------------------------------------------------------
(* Lists put together, and steps told apart.                               *)

LEMMA JoinedOf ==
  ASSUME NEW a \in Seq(RemoteComments), NEW b \in Seq(RemoteComments)
  PROVE  /\ a \o b \in Seq(RemoteComments)
         /\ ElementsOf(a \o b) = ElementsOf(a) \cup ElementsOf(b)
         /\ (/\ Rising(a) /\ Rising(b)
             /\ \A c \in ElementsOf(a), d \in ElementsOf(b) : c.id < d.id) => Rising(a \o b)
<1>1. /\ a \o b \in Seq(RemoteComments) /\ Len(a \o b) = Len(a) + Len(b)
      /\ Len(a) \in Nat /\ Len(b) \in Nat
      /\ DOMAIN a = 1 .. Len(a) /\ DOMAIN b = 1 .. Len(b) /\ DOMAIN (a \o b) = 1 .. Len(a) + Len(b)
  OBVIOUS
<1>2. /\ \A i \in 1 .. Len(a) : (a \o b)[i] = a[i]
      /\ \A i \in Len(a) + 1 .. Len(a) + Len(b) : (a \o b)[i] = b[i - Len(a)]
  OBVIOUS
<1> DEFINE ab == a \o b
           m == Len(a)
           n == Len(b)
<1>3. /\ ab \in Seq(RemoteComments) /\ m \in Nat /\ n \in Nat
      /\ DOMAIN a = 1 .. m /\ DOMAIN b = 1 .. n /\ DOMAIN ab = 1 .. m + n
      /\ \A i \in 1 .. m : ab[i] = a[i]
      /\ \A i \in m + 1 .. m + n : ab[i] = b[i - m]
  BY <1>1, <1>2
<1> HIDE DEF ab, m, n
<1>4. ASSUME NEW i \in DOMAIN ab
      PROVE  \/ i <= m /\ i \in DOMAIN a /\ ab[i] = a[i]
             \/ i > m /\ i - m \in DOMAIN b /\ ab[i] = b[i - m]
  BY <1>3
<1>5. ElementsOf(ab) = ElementsOf(a) \cup ElementsOf(b)
  <2>1. ElementsOf(ab) \subseteq ElementsOf(a) \cup ElementsOf(b)
    BY <1>4 DEF ElementsOf
  <2>2. \A i \in DOMAIN a : i \in DOMAIN ab /\ ab[i] = a[i]
    BY <1>3
  <2>3. \A i \in DOMAIN b : m + i \in DOMAIN ab /\ ab[m + i] = b[i]
    <3> SUFFICES ASSUME NEW i \in DOMAIN b PROVE m + i \in DOMAIN ab /\ ab[m + i] = b[i]
      OBVIOUS
    <3>1. i \in 1 .. n
      BY <1>3
    <3>2. m + i \in m + 1 .. m + n /\ (m + i) - m = i /\ m + i \in 1 .. m + n
      BY <1>3, <3>1
    <3> QED BY <1>3, <3>2
  <2> QED BY SMTT(30), <2>1, <2>2, <2>3 DEF ElementsOf
<1>6. ASSUME Rising(a), Rising(b), \A c \in ElementsOf(a), d \in ElementsOf(b) : c.id < d.id,
             NEW i \in DOMAIN ab, NEW j \in DOMAIN ab, i < j
      PROVE  ab[i].id < ab[j].id
  <2>1. CASE i <= m /\ j <= m
    <3>1. i \in DOMAIN a /\ ab[i] = a[i] /\ j \in DOMAIN a /\ ab[j] = a[j]
      BY <1>3, <2>1
    <3> QED BY <1>6, <3>1 DEF Rising
  <2>2. CASE i <= m /\ j > m
    <3>1. a[i] \in ElementsOf(a) /\ b[j - m] \in ElementsOf(b) /\ ab[i] = a[i] /\ ab[j] = b[j - m]
      BY <1>3, <1>4, <2>2 DEF ElementsOf
    <3> QED BY <1>6, <3>1
  <2>3. CASE i > m
    <3>1. i - m \in DOMAIN b /\ ab[i] = b[i - m] /\ j - m \in DOMAIN b /\ ab[j] = b[j - m]
      BY <1>3, <1>4, <1>6, <2>3
    <3>2. i - m < j - m
      BY <1>3, <1>6
    <3> QED BY <1>6, <3>1, <3>2 DEF Rising
  <2>4. i <= m \/ i > m
    BY <1>3
  <2>5. j <= m \/ j > m
    BY <1>3
  <2> QED BY <2>1, <2>2, <2>3, <2>4, <2>5
<1>7. (/\ Rising(a) /\ Rising(b)
       /\ \A c \in ElementsOf(a), d \in ElementsOf(b) : c.id < d.id) => Rising(ab)
  BY <1>6 DEF Rising
<1> QED BY <1>3, <1>5, <1>7 DEF ab

(* What each step does to the lists, to the pulls and to the directory. *)
RemoteStep(t) ==
    /\ Post(t) \/ \E i \in DOMAIN remote[t] : Edit(t, i) \/ Delete(t, i)
    /\ inputs' = inputs + 1 /\ UNCHANGED <<dirVars, exposed>>

FetchStep(p) ==
    /\ Start(p) \/ Fetch(p)
    /\ UNCHANGED <<dirVars, exposed>>

MergeStep(p) == Index(p) \/ Lock(p) \/ Write(p) \/ Unlock(p) \/ Stop(p)

RemoveStep(f) == f \in DOMAIN threads /\ RemoveThread(f) /\ Forget(f)

LEMMA StepCases ==
  ASSUME [Next]_allVars
  PROVE  \/ UNCHANGED pullVars
         \/ \E t \in RemoteThreads : RemoteStep(t)
         \/ \E p \in Pullers : FetchStep(p)
         \/ \E p \in Pullers : MergeStep(p) /\ exposed' = exposed
         \/ \E f : RemoveStep(f)
<1>1. CASE UNCHANGED allVars
  BY <1>1 DEF allVars
<1>2. CASE (ExtractNext /\ UNCHANGED pullVars) \/ OtherCommand
  BY <1>2 DEF OtherCommand, RemoveStep
<1>3. CASE Input /\ (RemoteInput \/ \E p \in Pullers : Start(p)) /\ UNCHANGED <<dirVars, exposed>>
  BY <1>3 DEF Input, RemoteInput, RemoteStep, FetchStep
<1>4. CASE Input /\ (\E p \in Pullers : Stop(p)) /\ UNCHANGED exposed
  BY <1>4 DEF MergeStep
<1>5. CASE \E p \in Pullers : Fetch(p) /\ UNCHANGED <<dirVars, inputs, exposed>>
  BY <1>5 DEF FetchStep
<1>6. CASE \E p \in Pullers : (Index(p) \/ Lock(p) \/ Write(p) \/ Unlock(p))
                                  /\ UNCHANGED <<inputs, exposed>>
  BY <1>6 DEF MergeStep
<1> QED BY <1>1, <1>2, <1>3, <1>4, <1>5, <1>6 DEF Next, PullNext

(* Of the pulls' state, a removal changes only what they must still bring. *)
LEMMA RemoveLeaves ==
  ASSUME PullTypeOK, NEW f, RemoveStep(f)
  PROVE  /\ remote' = remote /\ shared' = shared
         /\ \A p \in Pullers :
               /\ pull'[p].stage = pull[p].stage /\ LeftOf(p)' = LeftOf(p) /\ Got(p)' = Got(p)
               /\ \A t \in RemoteThreads : GotOf(p, t)' = GotOf(p, t)
               /\ pull'[p].there \subseteq pull[p].there
               /\ pull[p].stage \in {"comments", "conversation", "index"} =>
                     pull'[p].got = pull[p].got /\ pull'[p].page = pull[p].page /\ pull'[p].more = pull[p].more
<1>1. remote' = remote /\ shared' = shared
  BY ForgetOf DEF RemoveStep
<1>2. ASSUME NEW p \in Pullers
      PROVE  /\ pull'[p].stage = pull[p].stage /\ LeftOf(p)' = LeftOf(p) /\ Got(p)' = Got(p)
             /\ pull'[p].there \subseteq pull[p].there
             /\ \E there \in SUBSET pull[p].there : pull'[p] = [pull[p] EXCEPT !.there = there]
  BY ForgetOf DEF RemoveStep
<1>3. ASSUME NEW p \in Pullers, pull[p].stage \in {"comments", "conversation", "index"}
      PROVE  pull'[p].got = pull[p].got /\ pull'[p].page = pull[p].page /\ pull'[p].more = pull[p].more
  <2>1. PICK there \in SUBSET pull[p].there : pull'[p] = [pull[p] EXCEPT !.there = there]
    BY <1>2
  <2>2. pull[p] \in Fetching
    BY <1>3, PullShape
  <2> QED BY <2>1, <2>2 DEF Fetching
<1>4. \A p \in Pullers : \A t \in RemoteThreads : GotOf(p, t)' = GotOf(p, t)
  BY <1>2, <1>3 DEF GotOf
<1> QED BY <1>1, <1>2, <1>3, <1>4

LEMMA ForgetThere ==
  ASSUME PullTypeOK, NEW f, Forget(f), NEW p \in Pullers, ~WillWrite(p, f)
  PROVE  pull'[p].there = {c \in pull[p].there : <<"remote", c.id>> \notin NamesIn(threads[f])}
<1>1. pull'[p] = [pull[p] EXCEPT !.there = {c \in @ : <<"remote", c.id>> \notin NamesIn(threads[f])}]
  BY DEF Forget
<1>2. "there" \in DOMAIN pull[p]
  BY PullShape DEF Waiting, Fetching, Writing
<1> QED BY <1>1, <1>2

(* Merging leaves the remote side alone, and of the pulls only one moves. *)
LEMMA MergeOf ==
  ASSUME ImportInv, NEW p \in Pullers, MergeStep(p)
  PROVE  /\ remote' = remote /\ shared' = shared
         /\ \A q \in Pullers : q # p => pull'[q] = pull[q]
         /\ pull'[p].stage \notin {"threads", "comments", "conversation", "index"}
         /\ Running(p)
         /\ ~Write(p) => threads' = threads
<1>1. PullTypeOK /\ DirTypeOK /\ GroupsUnlinked /\ GroupsPlain
  BY UnlinkedOf DEF ImportInv, ImportTypeOK
<1>2. CASE Index(p)
  <2>1. PICK new \in Waiting \cup Writing :
          /\ pull' = [pull EXCEPT ![p] = new]
          /\ new \in Waiting \/ new.stage = "lock"
    BY <1>1, <1>2, IndexOf
  <2>2. pull'[p].stage \in {"done", "lock"} /\ \A q \in Pullers : q # p => pull'[q] = pull[q]
    BY <1>1, <1>2 DEF Index, PullTypeOK
  <2> QED BY <1>2, <2>2 DEF Index, At, Running, dirVars, directory
<1>3. CASE Lock(p)
  <2>1. pull[p] \in Writing /\ pull[p].stage = "lock"
    BY <1>1, <1>3, PullShape DEF Lock, At
  <2>2. pull'[p].stage = "write" /\ \A q \in Pullers : q # p => pull'[q] = pull[q]
    BY <1>1, <1>3, <2>1 DEF Lock, PullTypeOK, Writing
  <2> QED BY <1>3, <2>1, <2>2 DEF Lock, Running, directory
<1>4. CASE Write(p)
  <2>1. \E entry \in LeftOf(p), file \in Numbered \cup {NewFile} : pull'[p].stage = "write"
    BY <1>4, WriteOf
  <2>2. \A q \in Pullers : q # p => pull'[q] = pull[q]
    BY <1>1, <1>4 DEF Write, PullTypeOK
  <2> QED BY <1>4, <2>1, <2>2 DEF Write, At, Running
<1>5. CASE Unlock(p) \/ Stop(p)
  <2>1. pull'[p].stage \in {"idle", "done"} /\ \A q \in Pullers : q # p => pull'[q] = pull[q]
    BY <1>1, <1>5 DEF Unlock, Stop, Resting, PullTypeOK
  <2> QED BY <1>5, <2>1 DEF Unlock, Stop, At, Running, directory
<1> QED BY <1>2, <1>3, <1>4, <1>5 DEF MergeStep

(* A step of the remote side leaves of every comment but the one deleted   *)
(* what it was, perhaps edited, and perhaps further in front.              *)
LEMMA RemoteMoves ==
  ASSUME PullTypeOK, inputs \in Nat, NEW t \in RemoteThreads, RemoteStep(t)
  PROVE  /\ shared' = shared
         /\ \A u \in RemoteThreads : u # t => remote'[u] = remote[u]
         /\ remote'[t] \in Seq(RemoteComments)
         /\ \A j \in DOMAIN remote'[t] :
              \/ Post(t) /\ j = Len(remote[t]) + 1 /\ remote'[t][j].id = inputs + 1
              \/ \E i \in DOMAIN remote[t] : j <= i /\ Later(remote'[t][j], remote[t][i])
<1>1. remote[t] \in Seq(RemoteComments) /\ DOMAIN remote[t] = 1 .. Len(remote[t]) /\ Len(remote[t]) \in Nat
  BY ListOf
<1>2. \A i \in 1 .. Len(remote[t]) : Later(remote[t][i], remote[t][i])
  BY ListOf, LaterSelf
<1>3. CASE Post(t)
  <2>1. /\ remote'[t] \in Seq(RemoteComments) /\ Len(remote'[t]) = Len(remote[t]) + 1
        /\ \A i \in 1 .. Len(remote[t]) : remote'[t][i] = remote[t][i]
        /\ remote'[t][Len(remote[t]) + 1].id = inputs + 1
    BY <1>3, PostOf
  <2>2. ASSUME NEW j \in DOMAIN remote'[t], j # Len(remote[t]) + 1
        PROVE  j \in DOMAIN remote[t] /\ remote'[t][j] = remote[t][j]
    <3>1. DOMAIN remote'[t] = 1 .. Len(remote[t]) + 1
      BY <2>1
    <3>2. j \in 1 .. Len(remote[t])
      BY <1>1, <2>2, <3>1
    <3> QED BY <1>1, <2>1, <3>2
  <2>3. ASSUME NEW j \in DOMAIN remote'[t]
        PROVE  \/ Post(t) /\ j = Len(remote[t]) + 1 /\ remote'[t][j].id = inputs + 1
               \/ \E i \in DOMAIN remote[t] : j <= i /\ Later(remote'[t][j], remote[t][i])
    <3>1. CASE j = Len(remote[t]) + 1
      BY <1>3, <2>1, <3>1
    <3>2. CASE j # Len(remote[t]) + 1
      <4>1. j \in DOMAIN remote[t] /\ remote'[t][j] = remote[t][j]
        BY <2>2, <3>2
      <4>2. j <= j /\ Later(remote'[t][j], remote[t][j])
        BY <1>1, <1>2, <4>1
      <4> QED BY <4>1, <4>2
    <3> QED BY <3>1, <3>2
  <2> QED BY <1>3, <2>1, <2>3, PostOf
<1>4. ASSUME NEW i \in DOMAIN remote[t], Edit(t, i) PROVE
         /\ shared' = shared
         /\ \A u \in RemoteThreads : u # t => remote'[u] = remote[u]
         /\ remote'[t] \in Seq(RemoteComments)
         /\ \A j \in DOMAIN remote'[t] :
              \E k \in DOMAIN remote[t] : j <= k /\ Later(remote'[t][j], remote[t][k])
  <2>1. /\ remote'[t] \in Seq(RemoteComments) /\ Len(remote'[t]) = Len(remote[t])
        /\ \A j \in 1 .. Len(remote[t]) : Later(remote'[t][j], remote[t][j])
    BY <1>4, EditOf
  <2>2. DOMAIN remote'[t] = 1 .. Len(remote[t]) /\ \A j \in 1 .. Len(remote[t]) : j <= j
    BY <1>1, <2>1
  <2> QED BY <1>1, <1>4, <2>1, <2>2, EditOf
<1>5. ASSUME NEW i \in DOMAIN remote[t], Delete(t, i) PROVE
         /\ shared' = shared
         /\ \A u \in RemoteThreads : u # t => remote'[u] = remote[u]
         /\ remote'[t] \in Seq(RemoteComments)
         /\ \A j \in DOMAIN remote'[t] :
              \E k \in DOMAIN remote[t] : j <= k /\ Later(remote'[t][j], remote[t][k])
  <2>1. /\ remote'[t] \in Seq(RemoteComments) /\ Len(remote'[t]) = Len(remote[t]) - 1
        /\ \A j \in 1 .. Len(remote[t]) - 1 : remote'[t][j] = remote[t][IF j < i THEN j ELSE j + 1]
    BY <1>5, DeleteOf
  <2>2. ASSUME NEW j \in DOMAIN remote'[t]
        PROVE  \E k \in DOMAIN remote[t] : j <= k /\ Later(remote'[t][j], remote[t][k])
    <3> DEFINE k == IF j < i THEN j ELSE j + 1
    <3>1. j \in 1 .. Len(remote[t]) - 1
      BY <2>1
    <3>2. k \in DOMAIN remote[t] /\ j <= k /\ remote'[t][j] = remote[t][k]
      BY <1>1, <2>1, <3>1
    <3> HIDE DEF k
    <3>3. Later(remote'[t][j], remote[t][k])
      BY <1>1, <1>2, <3>2
    <3> QED BY <3>2, <3>3
  <2> QED BY <1>5, <2>1, <2>2, DeleteOf
<1> QED BY <1>3, <1>4, <1>5 DEF RemoteStep

(* It does not touch what a pull has read. *)
LEMMA RemoteLeaves ==
  ASSUME PullTypeOK, NEW t \in RemoteThreads, RemoteStep(t), inputs \in Nat, NEW p \in Pullers
  PROVE  /\ pull'[p].stage = pull[p].stage /\ LeftOf(p)' = LeftOf(p) /\ Got(p)' = Got(p)
         /\ \A u \in RemoteThreads : GotOf(p, u)' = GotOf(p, u)
         /\ pull'[p].there \subseteq pull[p].there
         /\ pull[p].stage \in {"comments", "conversation", "index"} =>
              pull'[p].got = pull[p].got /\ pull'[p].page = pull[p].page /\ pull'[p].more = pull[p].more
<1>1. /\ pull'[p].stage = pull[p].stage /\ LeftOf(p)' = LeftOf(p) /\ Got(p)' = Got(p)
      /\ pull'[p].there \subseteq pull[p].there
  BY RemoteOf DEF RemoteStep
<1>2. \/ pull' = pull
      \/ \E there \in SUBSET pull[p].there : pull'[p] = [pull[p] EXCEPT !.there = there]
  <2>1. ASSUME NEW i \in DOMAIN remote[t], Delete(t, i)
        PROVE  pull'[p] = [pull[p] EXCEPT !.there = StillThere(p, t, i)]
    BY <2>1, DeleteOf
  <2>2. \A i : StillThere(p, t, i) \in SUBSET pull[p].there
    BY DEF StillThere
  <2>3. \A i \in DOMAIN remote[t] : Post(t) \/ Edit(t, i) => pull' = pull
    BY DEF Post, Edit
  <2> QED BY <2>1, <2>2, <2>3 DEF RemoteStep, Post
<1>3. pull[p].stage \in {"comments", "conversation", "index"} =>
        pull'[p].got = pull[p].got /\ pull'[p].page = pull[p].page /\ pull'[p].more = pull[p].more
  <2>1. CASE pull' = pull
    BY <2>1
  <2>2. CASE pull' # pull
    <3>1. PICK there \in SUBSET pull[p].there : pull'[p] = [pull[p] EXCEPT !.there = there]
      BY <1>2, <2>2
    <3>2. pull[p].stage \in {"comments", "conversation", "index"} => pull[p] \in Fetching
      BY PullShape
    <3> QED BY <3>1, <3>2 DEF Fetching
  <2> QED BY <2>1, <2>2
<1> QED BY <1>1, <1>3 DEF GotOf

LEMMA RemoteRising ==
  ASSUME PullTypeOK, inputs \in Nat, NEW t \in RemoteThreads, RemoteStep(t),
         Rising(remote[t]), \A i \in DOMAIN remote[t] : remote[t][i].id <= inputs
  PROVE  Rising(remote'[t])
<1>1. remote[t] \in Seq(RemoteComments) /\ DOMAIN remote[t] = 1 .. Len(remote[t]) /\ Len(remote[t]) \in Nat
  BY ListOf
<1>2. \A i \in 1 .. Len(remote[t]) : remote[t][i].id \in Nat
  BY ListOf
<1>3. CASE Post(t)
  <2>1. /\ remote'[t] \in Seq(RemoteComments) /\ Len(remote'[t]) = Len(remote[t]) + 1
        /\ \A i \in 1 .. Len(remote[t]) : remote'[t][i] = remote[t][i]
        /\ remote'[t][Len(remote[t]) + 1].id = inputs + 1
    BY <1>3, PostOf
  <2>2. ASSUME NEW i \in DOMAIN remote'[t], NEW j \in DOMAIN remote'[t], i < j
        PROVE  remote'[t][i].id < remote'[t][j].id
    <3>1. DOMAIN remote'[t] = 1 .. Len(remote[t]) + 1
      BY <2>1
    <3>2. i \in 1 .. Len(remote[t])
      BY <1>1, <2>2, <3>1
    <3>3. CASE j = Len(remote[t]) + 1
      <4>1. remote[t][i].id <= inputs /\ remote[t][i].id \in Nat
        BY <1>1, <1>2, <3>2
      <4>2. remote'[t][i].id = remote[t][i].id /\ remote'[t][j].id = inputs + 1
        BY <2>1, <3>2, <3>3
      <4> QED BY <4>1, <4>2
    <3>4. CASE j # Len(remote[t]) + 1
      <4>1. j \in 1 .. Len(remote[t])
        BY <1>1, <3>1, <3>4
      <4> QED BY <1>1, <2>1, <2>2, <3>2, <4>1 DEF Rising
    <3> QED BY <3>3, <3>4
  <2> QED BY <2>2 DEF Rising
<1>4. ASSUME NEW i \in DOMAIN remote[t], Edit(t, i) PROVE Rising(remote'[t])
  <2>1. /\ remote'[t] \in Seq(RemoteComments) /\ Len(remote'[t]) = Len(remote[t])
        /\ \A j \in 1 .. Len(remote[t]) : remote'[t][j].id = remote[t][j].id
    BY <1>4, EditOf DEF Later
  <2>2. DOMAIN remote'[t] = 1 .. Len(remote[t])
    BY <2>1
  <2> QED BY <1>1, <2>1, <2>2 DEF Rising
<1>5. ASSUME NEW i \in DOMAIN remote[t], Delete(t, i) PROVE Rising(remote'[t])
  <2>1. /\ remote'[t] \in Seq(RemoteComments) /\ Len(remote'[t]) = Len(remote[t]) - 1
        /\ \A j \in 1 .. Len(remote[t]) - 1 : remote'[t][j] = remote[t][IF j < i THEN j ELSE j + 1]
    BY <1>5, DeleteOf
  <2>2. ASSUME NEW j \in DOMAIN remote'[t], NEW k \in DOMAIN remote'[t], j < k
        PROVE  remote'[t][j].id < remote'[t][k].id
    <3> DEFINE j2 == IF j < i THEN j ELSE j + 1
               k2 == IF k < i THEN k ELSE k + 1
    <3>1. j \in 1 .. Len(remote[t]) - 1 /\ k \in 1 .. Len(remote[t]) - 1
      BY <2>1
    <3>2. j2 \in DOMAIN remote[t] /\ k2 \in DOMAIN remote[t] /\ j2 < k2
      BY <1>1, <2>2, <3>1
    <3>3. remote'[t][j] = remote[t][j2] /\ remote'[t][k] = remote[t][k2]
      BY <2>1, <3>1
    <3> HIDE DEF j2, k2
    <3> QED BY <3>2, <3>3 DEF Rising
  <2> QED BY <2>2 DEF Rising
<1> QED BY <1>3, <1>4, <1>5 DEF RemoteStep

-----------------------------------------------------------------------------
(* The order of the lists.                                                 *)

LEMMA SeenBelow ==
  ASSUME PullTypeOK, OriginInv, NEW t \in RemoteThreads
  PROVE  /\ \A i \in DOMAIN remote[t] : remote[t][i].id <= inputs
         /\ \A p \in Pullers : \A c \in GotOf(p, t) : c.id \in Nat /\ c.id <= inputs
<1>1. ASSUME NEW i \in DOMAIN remote[t] PROVE remote[t][i].id <= inputs
  <2>1. remote[t][i] \in ElementsOf(remote[t]) /\ Names(remote[t][i]) \in RemoteNames
    BY ListOf DEF ElementsOf, Names, RemoteNames
  <2>2. Seen(Names(remote[t][i]), t)
    BY <2>1 DEF Seen
  <2>3. Names(remote[t][i])[2] <= inputs
    BY <2>1, <2>2 DEF OriginInv
  <2> QED BY <2>3 DEF Names
<1>2. ASSUME NEW p \in Pullers, NEW c \in GotOf(p, t) PROVE c.id \in Nat /\ c.id <= inputs
  <2>1. c \in Got(p)
    BY DEF GotOf, Got
  <2>2. c \in RemoteComments
    BY <2>1, PullShape
  <2>3. c.id \in Nat /\ Names(c) \in RemoteNames
    BY <2>2 DEF Names, RemoteNames, RemoteComments
  <2>4. Names(c)[2] <= inputs
    BY <2>3 DEF OriginInv, Seen
  <2> QED BY <2>3, <2>4 DEF Names
<1> QED BY <1>1, <1>2

(* A stretch of a list is in order too. *)
LEMMA StretchOf ==
  ASSUME NEW s \in Seq(RemoteComments), Rising(s), NEW m \in Nat, NEW page \in Seq(RemoteComments),
         \A i \in 1 .. Len(page) : m + i <= Len(s) /\ page[i] = s[m + i]
  PROVE  /\ Rising(page)
         /\ \A c \in ElementsOf(page) : \E i \in DOMAIN s : m < i /\ i <= m + Len(page) /\ c = s[i]
<1>1. ASSUME NEW i \in DOMAIN page
      PROVE  m + i \in DOMAIN s /\ m < m + i /\ m + i <= m + Len(page) /\ page[i] = s[m + i]
  <2>1. i \in 1 .. Len(page) /\ Len(page) \in Nat /\ Len(s) \in Nat /\ DOMAIN s = 1 .. Len(s)
    OBVIOUS
  <2>2. m + i <= Len(s) /\ page[i] = s[m + i]
    BY <2>1
  <2> QED BY <2>1, <2>2
<1>2. ASSUME NEW i \in DOMAIN page, NEW j \in DOMAIN page, i < j PROVE page[i].id < page[j].id
  <2>1. m + i < m + j
    BY <1>2
  <2> QED BY <1>1, <2>1 DEF Rising
<1> QED BY <1>1, <1>2 DEF Rising, ElementsOf

LEMMA FetchOthers ==
  ASSUME PullTypeOK, NEW p \in Pullers, FetchStep(p)
  PROVE  /\ remote' = remote /\ threads' = threads
         /\ \A q \in Pullers : q # p => pull'[q] = pull[q]
         /\ \A q \in Pullers : LeftOf(q)' \subseteq LeftOf(q)
         /\ ~At(p, "lock") /\ ~At(p, "write") /\ ~At(p, "lock")' /\ ~At(p, "write")'
<1>1. PICK new \in Waiting \cup Fetching : pull' = [pull EXCEPT ![p] = new]
  BY FetchOf DEF FetchStep
<1>2. \A q \in Pullers : q # p => pull'[q] = pull[q]
  BY <1>1 DEF PullTypeOK
<1>3. pull'[p].stage \notin {"lock", "write"} /\ pull[p].stage \notin {"lock", "write"} /\ remote' = remote
  BY <1>1, FetchOf DEF PullTypeOK, Waiting, Fetching, FetchStep
<1>4. LeftOf(p)' = {}
  BY <1>3 DEF LeftOf, At
<1> QED BY <1>2, <1>3, <1>4, LeftSame DEF At, FetchStep, dirVars, directory

LEMMA StartOf ==
  ASSUME PullTypeOK, NEW p \in Pullers, Start(p)
  PROVE  /\ ~Running(p) /\ pull'[p] = [stage |-> "threads", there |-> Everything]
         /\ shared' = (shared \/ \E q \in Pullers \ {p} : Running(q))
BY DEF Start, PullTypeOK

(* What a pull puts together is in order. *)
LEMMA FetchPages ==
  ASSUME PullTypeOK, OrderInv, NEW p \in Pullers, FetchStep(p),
         (pull[p].stage \in {"comments", "conversation", "index"})'
  PROVE  PagesInv(p)'
<1>0. remote' = remote /\ Conversation \in RemoteThreads /\ ReviewThreads \subseteq RemoteThreads
      /\ Conversation \notin ReviewThreads /\ PageSize \in Nat \ {0}
  BY FetchOthers, PullAssumption DEF RemoteThreads
<1>1. CASE Start(p)
  BY <1>1, StartOf
<1>2. CASE FetchThreads(p)
  <2>1. /\ pull'[p] \in Fetching /\ pull'[p].stage = "comments"
        /\ pull'[p].page = 0 /\ pull'[p].got[Conversation] = <<>>
        /\ \A t \in ReviewThreads : pull'[p].got[t] = FirstOf(remote[t])
        /\ pull'[p].more = {t \in ReviewThreads : Len(remote[t]) > PageSize}
    BY <1>2, FetchThreadsOf
  <2>2. ASSUME NEW t \in ReviewThreads
        PROVE  Rising(FirstOf(remote[t])) /\ (t \in pull'[p].more => FirstOf(remote[t]) # <<>>)
    <3>1. /\ remote[t] \in Seq(RemoteComments) /\ Rising(remote[t]) /\ Len(remote[t]) \in Nat
          /\ FirstOf(remote[t]) \in Seq(RemoteComments)
          /\ Len(FirstOf(remote[t])) = IF PageSize <= Len(remote[t]) THEN PageSize ELSE Len(remote[t])
          /\ \A i \in 1 .. Len(FirstOf(remote[t])) : FirstOf(remote[t])[i] = remote[t][i]
      BY <1>0, ListOf, FirstOfType DEF OrderInv
    <3> DEFINE page == FirstOf(remote[t])
    <3> HIDE DEF page
    <3>2. \A i \in 1 .. Len(page) : 0 + i <= Len(remote[t]) /\ page[i] = remote[t][0 + i]
      BY <1>0, <3>1 DEF page
    <3>3. Rising(page)
      <4>1. page \in Seq(RemoteComments) /\ remote[t] \in Seq(RemoteComments) /\ Rising(remote[t]) /\ 0 \in Nat
        BY <3>1 DEF page
      <4> QED BY <3>2, <4>1, StretchOf
    <3>4. t \in pull'[p].more => Len(page) # 0
      BY <1>0, <2>1, <3>1 DEF page
    <3> QED BY <3>3, <3>4 DEF page
  <2>3. Rising(<<>>)
    BY DEF Rising
  <2>4. ASSUME NEW t \in RemoteThreads PROVE Rising(pull'[p].got[t])
    BY <2>1, <2>2, <2>3 DEF RemoteThreads
  <2>5. \A t \in pull'[p].more : pull'[p].got[t] # <<>>
    BY <2>1, <2>2
  <2>6. GotOf(p, Conversation)' = {}
    BY <2>1 DEF GotOf, ElementsOf
  <2> QED BY <2>1, <2>4, <2>5, <2>6 DEF PagesInv, At
<1>3. ASSUME NEW t \in ReviewThreads, FetchRemaining(p, t) PROVE PagesInv(p)'
  <2> DEFINE got == pull[p].got[t]
  <2>1. PagesInv(p) /\ pull[p] \in Fetching /\ At(p, "comments") /\ t \in pull[p].more
    BY <1>3, PullShape DEF FetchRemaining, At, OrderInv
  <2>2. Rising(remote[t]) /\ got # <<>> /\ Rising(got) /\ got \in Seq(RemoteComments)
    BY <1>0, <2>1 DEF OrderInv, PagesInv, Fetching
  <2>3. PICK last \in 0 .. Len(remote[t]), page \in Seq(RemoteComments), new \in Fetching :
          /\ \A i \in 1 .. Len(remote[t]) :
                remote[t][i].id <= pull[p].got[t][Len(pull[p].got[t])].id <=> i <= last
          /\ Len(page) = IF PageSize <= Len(remote[t]) - last THEN PageSize
                         ELSE Len(remote[t]) - last
          /\ \A i \in 1 .. Len(page) : page[i] = remote[t][last + i]
          /\ pull' = [pull EXCEPT ![p] = new] /\ pull'[p] = new
          /\ new.stage = "comments" /\ new.there = pull[p].there /\ new.page = pull[p].page
          /\ new.got[t] = pull[p].got[t] \o page
          /\ \A u \in RemoteThreads : u # t => new.got[u] = pull[p].got[u]
          /\ new.more = IF Len(remote[t]) - last > PageSize THEN pull[p].more
                        ELSE pull[p].more \ {t}
    BY <1>3, <2>2, FetchRemainingOf
  <2>4. Rising(got \o page) /\ got \o page # <<>>
    <3>1. \A i \in 1 .. Len(page) : last + i <= Len(remote[t]) /\ page[i] = remote[t][last + i]
      BY <1>0, <2>3, ListOf
    <3>2. /\ Rising(page)
          /\ \A c \in ElementsOf(page) : \E i \in DOMAIN remote[t] : last < i /\ c = remote[t][i]
      <4>1. remote[t] \in Seq(RemoteComments) /\ last \in Nat
        BY <1>0, ListOf
      <4> QED BY <2>2, <3>1, <4>1, StretchOf
    <3>3. ASSUME NEW c \in ElementsOf(got), NEW d \in ElementsOf(page) PROVE c.id < d.id
      <4>1. PICK i \in DOMAIN remote[t] : last < i /\ d = remote[t][i]
        BY <3>2
      <4>2. ~(d.id <= got[Len(got)].id) /\ d.id \in Nat
        <5>1. i \in 1 .. Len(remote[t]) /\ ~(i <= last)
          BY <1>0, <4>1, ListOf
        <5> QED BY <1>0, <2>3, <4>1, <5>1, ListOf
      <4>3. PICK j \in DOMAIN got : c = got[j]
        BY DEF ElementsOf
      <4>4. j \in 1 .. Len(got) /\ Len(got) \in DOMAIN got /\ Len(got) \in Nat
        BY <2>2, <4>3
      <4>5. got[j] \in RemoteComments /\ got[Len(got)] \in RemoteComments
        BY <2>2, <4>4
      <4>6. c.id \in Nat /\ got[Len(got)].id \in Nat
        BY <4>3, <4>5 DEF RemoteComments
      <4>7. c.id <= got[Len(got)].id
        <5>1. CASE j = Len(got)
          BY <4>3, <4>6, <5>1
        <5>2. CASE j # Len(got)
          <6>1. j < Len(got)
            BY <4>4, <5>2
          <6>2. got[j].id < got[Len(got)].id
            BY <2>2, <4>3, <4>4, <6>1 DEF Rising
          <6> QED BY SMTT(30), <4>3, <4>6, <6>2
        <5> QED BY <5>1, <5>2
      <4> QED BY <4>2, <4>6, <4>7
    <3>4. Rising(got \o page)
      BY <2>2, <3>2, <3>3, JoinedOf
    <3>5. got \o page # <<>>
      <4>1. Len(got \o page) = Len(got) + Len(page) /\ Len(got) \in Nat \ {0} /\ Len(page) \in Nat
        BY <2>2
      <4>2. Len(got \o page) # 0
        BY <4>1
      <4> QED BY <4>2
    <3> QED BY <3>4, <3>5
  <2> HIDE DEF got
  <2>5. \A u \in RemoteThreads : Rising(new.got[u])
    BY <2>1, <2>3, <2>4 DEF PagesInv, got
  <2>6. \A u \in new.more : new.got[u] # <<>>
    <3>1. new.more \subseteq pull[p].more /\ pull[p].more \subseteq RemoteThreads
      BY <1>0, <2>1, <2>3 DEF Fetching
    <3> QED BY <2>1, <2>3, <2>4, <3>1 DEF PagesInv, got
  <2>7. new.page = 0 /\ new.got[Conversation] = <<>>
    BY <1>0, <2>1, <2>3 DEF PagesInv
  <2>8. GotOf(p, Conversation)' = {}
    BY <2>3, <2>7 DEF GotOf, ElementsOf
  <2> QED BY <2>3, <2>5, <2>6, <2>7, <2>8 DEF PagesInv, At
<1>4. CASE CheckCounts(p)
  <2>1. /\ pull[p] \in Fetching /\ At(p, "comments")
        /\ pull'[p] = [pull[p] EXCEPT !.stage = "conversation"]
    BY <1>4, CheckCountsOf DEF Resting
  <2>2. /\ pull'[p].stage = "conversation" /\ pull'[p].got = pull[p].got
        /\ pull'[p].page = pull[p].page /\ pull'[p].more = pull[p].more
    BY <2>1 DEF Fetching
  <2>3. PagesInv(p) /\ GotOf(p, Conversation)' = GotOf(p, Conversation)
    BY <2>1, <2>2 DEF OrderInv, At, GotOf
  <2> QED BY <1>0, <2>1, <2>2, <2>3 DEF PagesInv, At
<1>5. CASE FetchConversation(p)
  <2> DEFINE got == pull[p].got[Conversation]
             all == remote[Conversation]
             before == pull[p].page * PageSize
  <2>1. pull[p] \in Fetching /\ At(p, "conversation") /\ before \in Nat
    BY <1>5, FetchConversationOf
  <2>2. PICK page \in Seq(RemoteComments), new \in Fetching, rest \in Nat :
          /\ rest = IF pull[p].page * PageSize <= Len(remote[Conversation])
                    THEN Len(remote[Conversation]) - pull[p].page * PageSize ELSE 0
          /\ Len(page) = IF PageSize <= rest THEN PageSize ELSE rest
          /\ \A i \in 1 .. Len(page) : page[i] = remote[Conversation][pull[p].page * PageSize + i]
          /\ pull' = [pull EXCEPT ![p] = new] /\ pull'[p] = new
          /\ new.stage = IF rest > PageSize THEN "conversation" ELSE "index"
          /\ new.there = pull[p].there /\ new.page = pull[p].page + 1 /\ new.more = pull[p].more
          /\ new.got[Conversation] = pull[p].got[Conversation] \o page
          /\ \A u \in RemoteThreads : u # Conversation => new.got[u] = pull[p].got[u]
    BY <1>5, FetchConversationOf
  <2>3. /\ PagesInv(p) /\ Rising(got) /\ got \in Seq(RemoteComments) /\ all \in Seq(RemoteComments)
        /\ Rising(all) /\ Len(all) \in Nat
        /\ \A c \in ElementsOf(got), i \in DOMAIN all : i > before => c.id < all[i].id
    <3>1. PagesInv(p)
      BY <2>1 DEF OrderInv, At
    <3>2. GotOf(p, Conversation) = ElementsOf(got)
      BY <2>1 DEF GotOf, At
    <3> QED BY <1>0, <2>1, <3>1, <3>2, ListOf DEF PagesInv, OrderInv, At, Fetching
  <2>4. (pull[p].page + 1) * PageSize = before + PageSize
    BY <1>0, <2>1 DEF Fetching
  <2> HIDE DEF before, all, got
  <2>5. \A i \in 1 .. Len(page) : before + i <= Len(all) /\ page[i] = all[before + i]
    <3>1. \A i \in 1 .. Len(page) : i <= rest
      BY <1>0, <2>2
    <3>2. \A i \in 1 .. Len(page) : before + i <= Len(all)
      BY <2>1, <2>2, <2>3, <3>1 DEF before, all
    <3> QED BY <2>2, <3>2 DEF before, all
  <2>6. /\ Rising(page)
        /\ \A c \in ElementsOf(page) : \E i \in DOMAIN all :
              before < i /\ i <= before + Len(page) /\ c = all[i]
    BY <2>1, <2>3, <2>5, StretchOf
  <2>7. ASSUME NEW c \in ElementsOf(got), NEW d \in ElementsOf(page) PROVE c.id < d.id
    <3>1. PICK i \in DOMAIN all : before < i /\ d = all[i]
      BY <2>6
    <3>2. i > before
      BY <2>1, <2>3, <3>1
    <3> QED BY <2>3, <3>1, <3>2
  <2>8. Rising(got \o page) /\ ElementsOf(got \o page) = ElementsOf(got) \cup ElementsOf(page)
    BY <2>3, <2>6, <2>7, JoinedOf
  <2>9. ASSUME NEW c \in ElementsOf(got \o page), NEW i \in DOMAIN all, i > before + PageSize
        PROVE  c.id < all[i].id
    <3>1. i \in Nat /\ Len(page) <= PageSize /\ Len(page) \in Nat
      BY <1>0, <2>2, <2>3
    <3>2. i > before
      BY <1>0, <2>1, <2>9, <3>1
    <3>3. CASE c \in ElementsOf(got)
      BY <2>3, <3>2, <3>3
    <3>4. CASE c \in ElementsOf(page)
      <4>1. PICK j \in DOMAIN all : j <= before + Len(page) /\ c = all[j]
        BY <2>6, <3>4
      <4>2. j < i
        BY <1>0, <2>1, <2>3, <2>9, <3>1, <4>1
      <4> QED BY <2>3, <4>1, <4>2 DEF Rising
    <3> QED BY <2>8, <3>3, <3>4
  <2>10. \A u \in RemoteThreads : Rising(new.got[u])
    BY <2>2, <2>3, <2>8 DEF PagesInv, got
  <2>11. \A u \in new.more : new.got[u] # <<>>
    <3>1. pull[p].more \subseteq RemoteThreads /\ Conversation \notin pull[p].more
      BY <1>0, <2>1 DEF Fetching
    <3> QED BY <2>2, <2>3, <3>1 DEF PagesInv
  <2>12. GotOf(p, Conversation)' = ElementsOf(got \o page)
    BY <2>2 DEF GotOf, got
  <2>13. \A c \in GotOf(p, Conversation)', i \in DOMAIN remote'[Conversation] :
            i > pull'[p].page * PageSize => c.id < remote'[Conversation][i].id
    BY <1>0, <2>2, <2>4, <2>9, <2>12 DEF all
  <2> QED BY <2>2, <2>10, <2>11, <2>13 DEF PagesInv, At
<1> QED BY <1>1, <1>2, <1>3, <1>4, <1>5 DEF FetchStep, Fetch

LEMMA RemoteOrder ==
  ASSUME PullTypeOK, inputs \in Nat, OrderInv, OriginInv, NEW t \in RemoteThreads, RemoteStep(t)
  PROVE  OrderInv'
<1>1. /\ \A u \in RemoteThreads : u # t => remote'[u] = remote[u]
      /\ \A j \in DOMAIN remote'[t] :
           \/ remote'[t][j].id = inputs + 1
           \/ \E i \in DOMAIN remote[t] : j <= i /\ remote'[t][j].id = remote[t][i].id
      /\ remote'[t] \in Seq(RemoteComments)
  BY RemoteMoves DEF Later
<1>2. Rising(remote'[t])
  BY RemoteRising, SeenBelow DEF OrderInv
<1>3. \A u \in RemoteThreads : Rising(remote'[u])
  BY <1>1, <1>2 DEF OrderInv
<1>4. ASSUME NEW p \in Pullers, pull'[p].stage \in {"comments", "conversation", "index"}
      PROVE  PagesInv(p)'
  <2>1. /\ pull'[p].stage = pull[p].stage /\ pull'[p].got = pull[p].got
        /\ pull'[p].page = pull[p].page /\ pull'[p].more = pull[p].more
        /\ \A u \in RemoteThreads : GotOf(p, u)' = GotOf(p, u)
    BY <1>4, RemoteLeaves
  <2>2. PagesInv(p) /\ pull[p] \in Fetching /\ Conversation \in RemoteThreads
    BY <1>4, <2>1, PullShape DEF OrderInv, RemoteThreads
  <2> DEFINE before == pull[p].page * PageSize
             all == remote[Conversation]
  <2>3. before \in Nat
    BY <2>2, PullAssumption DEF Fetching
  <2>4. ~At(p, "index") => \A c \in GotOf(p, Conversation), i \in DOMAIN all : i > before => c.id < all[i].id
    BY <2>2 DEF PagesInv
  <2> HIDE DEF before
  <2>5. ASSUME ~At(p, "index"), NEW c \in GotOf(p, Conversation), NEW j \in DOMAIN remote'[Conversation], j > before
        PROVE  c.id < remote'[Conversation][j].id
    <3>1. CASE t # Conversation
      BY <1>1, <2>2, <2>4, <2>5, <3>1
    <3>2. CASE t = Conversation
      <4>1. CASE remote'[t][j].id = inputs + 1
        <5>1. c.id \in Nat /\ c.id <= inputs
          BY <2>2, SeenBelow
        <5> QED BY <3>2, <4>1, <5>1
      <4>2. CASE \E i \in DOMAIN remote[t] : j <= i /\ remote'[t][j].id = remote[t][i].id
        <5>1. PICK i \in DOMAIN remote[t] : j <= i /\ remote'[t][j].id = remote[t][i].id
          BY <4>2
        <5>2. i \in Nat /\ j \in Nat
          <6>1. remote'[t] \in Seq(RemoteComments) /\ j \in DOMAIN remote'[t]
            BY <1>1, <3>2
          <6> QED BY <6>1, ListOf
        <5>3. i > before
          BY <2>3, <2>5, <5>1, <5>2
        <5> QED BY <2>4, <2>5, <3>2, <5>1, <5>3
      <4> QED BY <1>1, <3>2, <4>1, <4>2
    <3> QED BY <3>1, <3>2
  <2>6. \A c \in GotOf(p, Conversation)', j \in DOMAIN remote'[Conversation] :
            ~At(p, "index") /\ j > pull'[p].page * PageSize => c.id < remote'[Conversation][j].id
    BY <2>1, <2>2, <2>5 DEF before
  <2> QED BY <2>1, <2>2, <2>6 DEF PagesInv, At
<1> QED BY <1>3, <1>4 DEF OrderInv

LEMMA OrderNext ==
  ASSUME ImportInv, OrderInv, OriginInv, [Next]_allVars
  PROVE  OrderInv'
<1>1. PullTypeOK /\ inputs \in Nat
  BY DEF ImportInv, ImportTypeOK
<1>2. CASE UNCHANGED pullVars
  BY <1>2 DEF pullVars, OrderInv, PagesInv, GotOf, At
<1>3. CASE \E t \in RemoteThreads : RemoteStep(t)
  BY <1>1, <1>3, RemoteOrder
<1>4. ASSUME NEW p \in Pullers, remote' = remote, \A q \in Pullers : q # p => pull'[q] = pull[q],
             pull'[p].stage \in {"comments", "conversation", "index"} => PagesInv(p)'
      PROVE  OrderInv'
  <2>1. ASSUME NEW q \in Pullers, q # p, pull'[q].stage \in {"comments", "conversation", "index"}
        PROVE  PagesInv(q)'
    <3>1. pull'[q] = pull[q]
      BY <1>4, <2>1
    <3>2. PagesInv(q)
      BY <2>1, <3>1 DEF OrderInv
    <3> QED BY <1>4, <3>1, <3>2 DEF PagesInv, GotOf, At
  <2>2. \A t \in RemoteThreads : Rising(remote[t])'
    BY <1>4 DEF OrderInv
  <2> QED BY <1>4, <2>1, <2>2 DEF OrderInv
<1>5. CASE \E p \in Pullers : FetchStep(p)
  <2>1. PICK p \in Pullers : FetchStep(p)
    BY <1>5
  <2>2. remote' = remote /\ \A q \in Pullers : q # p => pull'[q] = pull[q]
    BY <1>1, <2>1, FetchOthers
  <2>3. pull'[p].stage \in {"comments", "conversation", "index"} => PagesInv(p)'
    BY <1>1, <2>1, FetchPages
  <2> QED BY <1>4, <2>2, <2>3
<1>6. CASE \E p \in Pullers : MergeStep(p)
  <2>1. PICK p \in Pullers : MergeStep(p)
    BY <1>6
  <2>2. /\ remote' = remote /\ \A q \in Pullers : q # p => pull'[q] = pull[q]
        /\ pull'[p].stage \notin {"comments", "conversation", "index"}
    BY <2>1, MergeOf
  <2> QED BY <1>4, <2>2
<1>7. ASSUME NEW f, RemoveStep(f) PROVE OrderInv'
  <2>1. /\ remote' = remote
        /\ \A p \in Pullers : /\ pull'[p].stage = pull[p].stage
                              /\ \A t \in RemoteThreads : GotOf(p, t)' = GotOf(p, t)
                              /\ pull[p].stage \in {"comments", "conversation", "index"} =>
                                    /\ pull'[p].got = pull[p].got /\ pull'[p].page = pull[p].page
                                    /\ pull'[p].more = pull[p].more
    BY <1>1, <1>7, RemoveLeaves
  <2>2. Conversation \in RemoteThreads
    BY DEF RemoteThreads
  <2>3. ASSUME NEW p \in Pullers, pull'[p].stage \in {"comments", "conversation", "index"} PROVE PagesInv(p)'
    <3>1. PagesInv(p) /\ pull'[p].stage = pull[p].stage
      BY <2>1, <2>3 DEF OrderInv
    <3> QED BY <2>1, <2>2, <2>3, <3>1 DEF PagesInv, At
  <2> QED BY <2>1, <2>3 DEF OrderInv
<1> QED BY <1>2, <1>3, <1>5, <1>6, <1>7, StepCases

-----------------------------------------------------------------------------
(* Where a step takes remote comments from.                                *)

LEMMA GotFrom ==
  ASSUME ImportInv, OrderInv, [Next]_allVars, NEW p \in Pullers, NEW t \in RemoteThreads,
         NEW c \in GotOf(p, t)'
  PROVE  c \in GotOf(p, t) \/ (c \in ElementsOf(remote[t]) /\ FetchStep(p))
<1>1. PullTypeOK /\ inputs \in Nat
  BY DEF ImportInv, ImportTypeOK
<1>2. CASE pull'[p] = pull[p]
  BY <1>2 DEF GotOf
<1>3. CASE \E u \in RemoteThreads : RemoteStep(u)
  BY <1>1, <1>3, RemoteLeaves
<1>4. CASE MergeStep(p)
  BY <1>4, MergeOf DEF GotOf
<1>5. CASE FetchStep(p)
  <2>0. pull'[p].stage \in {"comments", "conversation", "index"} /\ c \in ElementsOf(pull'[p].got[t])
    BY DEF GotOf
  <2>1. CASE Start(p)
    BY <1>1, <2>0, <2>1, StartOf
  <2>2. CASE FetchThreads(p)
    <3>1. t \in ReviewThreads /\ c \in ElementsOf(FirstOf(remote[t]))
      BY <1>1, <2>0, <2>2, FetchThreadsOf DEF ElementsOf, RemoteThreads
    <3>2. PICK i \in DOMAIN FirstOf(remote[t]) : c = FirstOf(remote[t])[i]
      BY <3>1 DEF ElementsOf
    <3>3. /\ FirstOf(remote[t]) \in Seq(RemoteComments)
          /\ Len(FirstOf(remote[t])) = IF PageSize <= Len(remote[t]) THEN PageSize ELSE Len(remote[t])
          /\ \A j \in 1 .. Len(FirstOf(remote[t])) : FirstOf(remote[t])[j] = remote[t][j]
      BY <1>1, ListOf, FirstOfType
    <3> DEFINE page == FirstOf(remote[t])
    <3> HIDE DEF page
    <3>4. i \in 1 .. Len(page) /\ Len(page) <= Len(remote[t]) /\ Len(page) \in Nat
      <4>1. Len(remote[t]) \in Nat
        BY <1>1, ListOf
      <4> QED BY <3>2, <3>3, <4>1, PullAssumption DEF page
    <3>5. i \in DOMAIN remote[t]
      BY <1>1, <3>4, ListOf
    <3> QED BY <1>5, <3>2, <3>3, <3>4, <3>5 DEF ElementsOf, page
  <2>3. ASSUME NEW u \in ReviewThreads, FetchRemaining(p, u)
        PROVE  c \in GotOf(p, t) \/ (c \in ElementsOf(remote[t]) /\ FetchStep(p))
    <3>1. PagesInv(p) /\ pull[p] \in Fetching /\ At(p, "comments") /\ u \in pull[p].more
      BY <1>1, <2>3, PullShape DEF FetchRemaining, At, OrderInv
    <3>2. u \in RemoteThreads /\ Rising(remote[u]) /\ pull[p].got[u] # <<>>
          /\ pull[p].got[u] \in Seq(RemoteComments)
      BY <3>1 DEF OrderInv, PagesInv, RemoteThreads, Fetching
    <3>3. PICK last \in 0 .. Len(remote[u]), page \in Seq(RemoteComments), new \in Fetching :
          /\ \A i \in 1 .. Len(remote[u]) :
                remote[u][i].id <= pull[p].got[u][Len(pull[p].got[u])].id <=> i <= last
          /\ Len(page) = IF PageSize <= Len(remote[u]) - last THEN PageSize
                         ELSE Len(remote[u]) - last
          /\ \A i \in 1 .. Len(page) : page[i] = remote[u][last + i]
          /\ pull' = [pull EXCEPT ![p] = new] /\ pull'[p] = new
          /\ new.stage = "comments" /\ new.there = pull[p].there /\ new.page = pull[p].page
          /\ new.got[u] = pull[p].got[u] \o page
          /\ \A v \in RemoteThreads : v # u => new.got[v] = pull[p].got[v]
          /\ new.more = IF Len(remote[u]) - last > PageSize THEN pull[p].more
                        ELSE pull[p].more \ {u}
      BY <1>1, <2>3, <3>2, FetchRemainingOf
    <3>4. CASE t # u
      BY <2>0, <3>1, <3>3, <3>4 DEF GotOf, At
    <3>5. CASE t = u
      <4>0. pull'[p].got[t] = pull[p].got[u] \o page
        BY <3>3, <3>5
      <4>1. c \in ElementsOf(pull[p].got[u]) \cup ElementsOf(page)
        <5>1. ElementsOf(pull[p].got[u] \o page) = ElementsOf(pull[p].got[u]) \cup ElementsOf(page)
          BY <3>2, JoinedOf
        <5> QED BY <2>0, <4>0, <5>1
      <4>2. CASE c \in ElementsOf(pull[p].got[u])
        BY <3>1, <3>5, <4>2 DEF GotOf, At
      <4>3. CASE c \in ElementsOf(page)
        <5>1. PICK i \in DOMAIN page : c = page[i]
          BY <4>3 DEF ElementsOf
        <5>2. i \in 1 .. Len(page) /\ Len(remote[u]) \in Nat
          BY <1>1, <3>2, <5>1, ListOf
        <5>3. last + i \in 1 .. Len(remote[u])
          <6> DEFINE m == Len(remote[u])
                     n == Len(page)
          <6>1. m \in Nat /\ last \in 0 .. m /\ i \in 1 .. n /\ n \in Nat
            BY <5>2
          <6>2. n = IF PageSize <= m - last THEN PageSize ELSE m - last
            BY <3>3
          <6> HIDE DEF m, n
          <6>3. last + i \in 1 .. m
            BY <6>1, <6>2, PullAssumption
          <6> QED BY <6>3 DEF m
        <5>4. last + i \in DOMAIN remote[u] /\ c = remote[u][last + i]
          BY <1>1, <3>2, <3>3, <5>1, <5>2, <5>3, ListOf
        <5> QED BY <1>5, <3>5, <5>4 DEF ElementsOf
      <4> QED BY <4>1, <4>2, <4>3
    <3> QED BY <3>4, <3>5
  <2>4. CASE CheckCounts(p)
    <3>1. /\ pull[p] \in Fetching /\ At(p, "comments")
          /\ pull'[p] = [pull[p] EXCEPT !.stage = "conversation"]
      BY <1>1, <2>0, <2>4, CheckCountsOf DEF Resting
    <3> QED BY <2>0, <3>1 DEF GotOf, At, Fetching
  <2>5. CASE FetchConversation(p)
    <3>1. pull[p] \in Fetching /\ At(p, "conversation") /\ pull[p].page * PageSize \in Nat
          /\ Conversation \in RemoteThreads
      BY <1>1, <2>5, FetchConversationOf
    <3>2. PICK page \in Seq(RemoteComments), new \in Fetching, rest \in Nat :
          /\ rest = IF pull[p].page * PageSize <= Len(remote[Conversation])
                    THEN Len(remote[Conversation]) - pull[p].page * PageSize ELSE 0
          /\ Len(page) = IF PageSize <= rest THEN PageSize ELSE rest
          /\ \A i \in 1 .. Len(page) : page[i] = remote[Conversation][pull[p].page * PageSize + i]
          /\ pull' = [pull EXCEPT ![p] = new] /\ pull'[p] = new
          /\ new.stage = IF rest > PageSize THEN "conversation" ELSE "index"
          /\ new.there = pull[p].there /\ new.page = pull[p].page + 1 /\ new.more = pull[p].more
          /\ new.got[Conversation] = pull[p].got[Conversation] \o page
          /\ \A u \in RemoteThreads : u # Conversation => new.got[u] = pull[p].got[u]
      BY <1>1, <2>5, FetchConversationOf
    <3>3. CASE t # Conversation
      BY <2>0, <3>1, <3>2, <3>3 DEF GotOf, At
    <3>4. CASE t = Conversation
      <4>1. pull[p].got[Conversation] \in Seq(RemoteComments)
        BY <3>1 DEF Fetching
      <4>2. c \in ElementsOf(pull[p].got[Conversation]) \cup ElementsOf(page)
        BY ZenonT(60), <2>0, <3>2, <3>4, <4>1, JoinedOf
      <4>3. CASE c \in ElementsOf(pull[p].got[Conversation])
        BY <3>1, <3>4, <4>3 DEF GotOf, At
      <4>4. CASE c \in ElementsOf(page)
        <5> DEFINE before == pull[p].page * PageSize
        <5>1. PICK i \in DOMAIN page : c = page[i]
          BY <4>4 DEF ElementsOf
        <5>2. i \in 1 .. Len(page) /\ Len(remote[Conversation]) \in Nat /\ before \in Nat
          BY <1>1, <3>1, <5>1, ListOf
        <5>3. c = remote[Conversation][before + i]
          BY <3>2, <5>1, <5>2
        <5>4. rest = (IF before <= Len(remote[Conversation]) THEN Len(remote[Conversation]) - before ELSE 0)
              /\ i <= rest
          BY <3>2, <5>2, PullAssumption
        <5> HIDE DEF before
        <5>5. before + i \in 1 .. Len(remote[Conversation])
          BY <5>2, <5>4
        <5>6. before + i \in DOMAIN remote[Conversation]
          BY <1>1, <3>1, <5>5, ListOf
        <5> QED BY <1>5, <3>4, <5>3, <5>6 DEF ElementsOf
      <4> QED BY <4>2, <4>3, <4>4
    <3> QED BY <3>3, <3>4
  <2> QED BY <1>5, <2>1, <2>2, <2>3, <2>4, <2>5 DEF FetchStep, Fetch
<1>6. \/ pull'[p] = pull[p] \/ MergeStep(p) \/ FetchStep(p) \/ \E u \in RemoteThreads : RemoteStep(u)
      \/ \E f : RemoveStep(f)
  BY <1>1, StepCases, FetchOthers, MergeOf DEF pullVars
<1>7. CASE \E f : RemoveStep(f)
  BY <1>1, <1>7, RemoveLeaves
<1> QED BY <1>2, <1>3, <1>4, <1>5, <1>6, <1>7

LEMMA RemoteFrom ==
  ASSUME ImportInv, [Next]_allVars, NEW t \in RemoteThreads, NEW d \in ElementsOf(remote'[t])
  PROVE  \/ \E c \in ElementsOf(remote[t]) : Later(d, c)
         \/ RemoteStep(t) /\ Post(t) /\ d.id = inputs + 1
<1>1. PullTypeOK /\ inputs \in Nat
  BY DEF ImportInv, ImportTypeOK
<1>2. CASE remote'[t] = remote[t]
  <2>1. d \in ElementsOf(remote[t])
    BY <1>2
  <2>2. d \in RemoteComments
    BY <1>1, <2>1, EverythingType DEF Everything
  <2> QED BY <2>1, <2>2, LaterSelf
<1>3. CASE RemoteStep(t)
  <2>1. PICK j \in DOMAIN remote'[t] : d = remote'[t][j]
    BY DEF ElementsOf
  <2>2. \/ Post(t) /\ d.id = inputs + 1
        \/ \E i \in DOMAIN remote[t] : Later(d, remote[t][i])
    BY <1>1, <1>3, <2>1, RemoteMoves
  <2> QED BY <1>3, <2>2 DEF ElementsOf
<1>4. remote'[t] = remote[t] \/ RemoteStep(t)
  <2>1. ASSUME NEW u \in RemoteThreads, RemoteStep(u), u # t PROVE remote'[t] = remote[t]
    BY <1>1, <2>1, RemoteMoves
  <2>2. \A p \in Pullers : FetchStep(p) \/ MergeStep(p) => remote' = remote
    BY <1>1, FetchOthers, MergeOf
  <2>3. \A f : RemoveStep(f) => remote' = remote
    BY <1>1, RemoveLeaves
  <2> QED BY <2>1, <2>2, <2>3, StepCases DEF pullVars
<1> QED BY <1>2, <1>3, <1>4

(* A file is as it was, has one more comment of a user, is a user's or an  *)
(* extraction's, or is what a pull has written.                            *)
LEMMA FileFrom ==
  ASSUME ImportInv, [Next]_allVars, NEW f \in DOMAIN threads'
  PROVE  \/ f \in DOMAIN threads /\ threads'[f] = threads[f]
         \/ /\ f \in DOMAIN threads /\ threads'[f].remote = threads[f].remote
            /\ threads'[f].comments = threads[f].comments \cup {Comment(Local)} /\ Local \in LocalNames
         \/ /\ f \in Groups \cup {NewFile} /\ threads'[f].remote = Nobody
            /\ \A c \in threads'[f].comments : \E of \in LocalNames : c = Comment(of)
         \/ \E p \in Pullers : \E entry \in LeftOf(p) :
              /\ Write(p) /\ entry = Head(pull[p].left)
              /\ threads'[f].comments = entry.thread.comments
              /\ threads'[f].remote = entry.thread.remote
              /\ entry.file = Nobody => f = NewFile
              /\ entry.file # Nobody => f = entry.file
<1> DEFINE Goal == \/ f \in DOMAIN threads /\ threads'[f] = threads[f]
                   \/ /\ f \in DOMAIN threads /\ threads'[f].remote = threads[f].remote
                      /\ threads'[f].comments = threads[f].comments \cup {Comment(Local)} /\ Local \in LocalNames
                   \/ /\ f \in Groups \cup {NewFile} /\ threads'[f].remote = Nobody
                      /\ \A c \in threads'[f].comments : \E of \in LocalNames : c = Comment(of)
                   \/ \E p \in Pullers : \E entry \in LeftOf(p) :
                        /\ Write(p) /\ entry = Head(pull[p].left)
                        /\ threads'[f].comments = entry.thread.comments
                        /\ threads'[f].remote = entry.thread.remote
                        /\ entry.file = Nobody => f = NewFile
                        /\ entry.file # Nobody => f = entry.file
<1>1. DirTypeOK /\ inputs \in Nat
  BY DEF ImportInv, ImportTypeOK
<1>2. ASSUME NEW p \in Pullers, Write(p) PROVE Goal
  <2>1. PICK entry \in LeftOf(p), file \in Numbered \cup {NewFile} :
          /\ entry = Head(pull[p].left)
          /\ entry.file = Nobody => file = NewFile
          /\ entry.file # Nobody => file = entry.file
          /\ DOMAIN threads' = DOMAIN threads \cup {file}
          /\ threads'[file].comments = entry.thread.comments
          /\ threads'[file].remote = entry.thread.remote
          /\ \A g \in DOMAIN threads : g # file => threads'[g] = threads[g]
    BY <1>2, WriteOf
  <2> QED BY <1>2, <2>1
<1>3. CASE WriteGroup /\ UNCHANGED pullVars
  <2>1. PICK group \in GroupRecords, file \in Groups \cup {NewFile} :
          /\ DOMAIN threads' = DOMAIN threads \cup {file}
          /\ threads'[file].comments = {Comment(x) : x \in group.entries}
          /\ threads'[file].remote = Nobody
          /\ \A g \in DOMAIN threads : g # file => threads'[g] = threads[g]
    BY <1>3, WriteGroupOf
  <2>2. group.entries \subseteq LocalNames
    BY DEF GroupRecords
  <2> QED BY <1>3, <2>1, <2>2
<1>4. CASE threads' = threads
  BY <1>4
<1>5. CASE OtherCommand
  <2>1. CASE Create
    <3>1. /\ DOMAIN threads' = DOMAIN threads \cup {NewFile} /\ Local \in LocalNames
          /\ threads'[NewFile].comments = {Comment(Local)}
          /\ \A g \in DOMAIN threads : g # NewFile => threads'[g] = threads[g]
      BY <1>1, <2>1, CreateOf
    <3>2. threads'[NewFile].remote = Nobody
      BY <1>1, <2>1, CreateOf
    <3> QED BY <1>5, <3>1, <3>2 DEF OtherCommand
  <2>2. CASE AddComment(UNION {Copied(p) : p \in Pullers})
    <3>1. PICK g \in DOMAIN threads :
            /\ DOMAIN threads' = DOMAIN threads /\ threads'[g].remote = threads[g].remote
            /\ threads'[g].comments = threads[g].comments \cup {Comment(Local)}
            /\ Local \in LocalNames
            /\ \A h \in DOMAIN threads : h # g => threads'[h] = threads[h]
      BY <1>1, <2>2, AddCommentOf
    <3> QED BY <1>5, <3>1 DEF OtherCommand
  <2>3. ASSUME NEW g, RemoveThread(g) PROVE Goal
    BY <1>1, <2>3, RemoveThreadOf
  <2> QED BY <1>5, <2>1, <2>2, <2>3 DEF OtherCommand
<1>6. UNCHANGED allVars => threads' = threads
  BY DEF allVars, dirVars, directory
<1>7. \/ threads' = threads \/ (WriteGroup /\ UNCHANGED pullVars) \/ OtherCommand
      \/ \E p \in Pullers : Write(p)
  <2>1. ExtractNext => threads' = threads \/ WriteGroup
    BY OnlyWriteGroup
  <2>2. PullNext => threads' = threads \/ \E p \in Pullers : Write(p)
    BY PullThreads
  <2> QED BY <1>6, <2>1, <2>2 DEF Next
<1> QED BY <1>2, <1>3, <1>4, <1>5, <1>7

(* No file goes away, except one that is removed. *)
LEMMA FilesStay ==
  ASSUME ImportInv, [Next]_allVars
  PROVE  DOMAIN threads \subseteq DOMAIN threads' \/ \E f : RemoveStep(f)
<1>1. DirTypeOK /\ inputs \in Nat
  BY DEF ImportInv, ImportTypeOK
<1>2. ASSUME NEW p \in Pullers, Write(p) PROVE DOMAIN threads \subseteq DOMAIN threads'
  <2>1. \E entry \in LeftOf(p), file \in Numbered \cup {NewFile} : DOMAIN threads' = DOMAIN threads \cup {file}
    BY <1>2, WriteOf
  <2> QED BY <2>1
<1>3. CASE WriteGroup
  <2>1. \E group \in GroupRecords, file \in Groups \cup {NewFile} : DOMAIN threads' = DOMAIN threads \cup {file}
    BY <1>3, WriteGroupOf
  <2> QED BY <2>1
<1>4. CASE OtherCommand
  <2>1. Create => DOMAIN threads' = DOMAIN threads \cup {NewFile}
    BY <1>1, CreateOf
  <2>2. CASE AddComment(UNION {Copied(p) : p \in Pullers})
    <3>1. \E g \in DOMAIN threads : DOMAIN threads' = DOMAIN threads
      BY <1>1, <2>2, AddCommentOf
    <3> QED BY <3>1
  <2>3. (\E f \in DOMAIN threads : RemoveThread(f) /\ Forget(f)) => \E f : RemoveStep(f)
    BY DEF RemoveStep
  <2> QED BY <1>4, <2>1, <2>2, <2>3 DEF OtherCommand
<1>5. UNCHANGED allVars => threads' = threads
  BY DEF allVars, dirVars, directory
<1>6. \/ threads' = threads \/ WriteGroup \/ OtherCommand \/ \E p \in Pullers : Write(p)
  BY <1>5, PullThreads, OnlyWriteGroup DEF Next
<1> QED BY <1>2, <1>3, <1>4, <1>6

(* A comment of an entry is the thread's, the thread's brought up to date, *)
(* or new; all with a file of the same remote thread.                      *)
LEMMA EntryFrom ==
  ASSUME DirTypeOK, GroupsUnlinked, GroupsPlain, NEW t \in RemoteThreads, NEW got \in Seq(RemoteComments),
         NEW m \in Entry(t, got).thread.comments
  PROVE  /\ Entry(t, got).thread.remote = t
         /\ \/ \E f \in DOMAIN threads : /\ threads[f].remote = t /\ m \in threads[f].comments
                                         /\ \A c \in Mapped(got) : m.of # Names(c)
            \/ \E f \in DOMAIN threads : /\ threads[f].remote = t
                                         /\ \E k \in threads[f].comments, c \in Mapped(got) :
                                               k.of = Names(c) /\ m = Updated(k, c)
            \/ \E c \in Mapped(got) : m = Pulled(c)
<1> DEFINE entry == Entry(t, got)
<1>1. \/ /\ entry.file = Nobody /\ entry.thread = MapThread(t, got)
         /\ \A f \in DOMAIN threads : threads[f].remote # t
      \/ /\ entry.file \in Numbered \cap DOMAIN threads /\ threads[entry.file].remote = t
         /\ entry.thread = MergeThread(threads[entry.file], got)
  BY EntryOf DEF GroupsUnlinked
<1>2. entry.thread.remote = t
  BY EntryType
<1> HIDE DEF entry
<1>3. m \in entry.thread.comments
  BY DEF entry
<1>4. CASE entry.thread = MapThread(t, got)
  <2>1. MapThread(t, got).comments = {Pulled(c) : c \in Mapped(got)}
    BY MapThreadOf
  <2> QED BY <1>2, <1>3, <1>4, <2>1 DEF entry
<1>5. CASE /\ entry.file \in Numbered \cap DOMAIN threads /\ threads[entry.file].remote = t
           /\ entry.thread = MergeThread(threads[entry.file], got)
  <2>1. entry.file \in DOMAIN threads /\ threads[entry.file] \in ThreadRecords
    BY <1>5 DEF DirTypeOK
  <2>2. \/ /\ m \in threads[entry.file].comments
           /\ \A c \in Mapped(got) : m.of # Names(c)
        \/ \E k \in threads[entry.file].comments, c \in Mapped(got) :
              k.of = Names(c) /\ m = Updated(k, c)
        \/ \E c \in Mapped(got) : m = Pulled(c)
    <3>1. m \in MergeThread(threads[entry.file], got).comments
      BY <1>3, <1>5
    <3> QED BY <2>1, <3>1, MergeThreadOf
  <2> QED BY <1>2, <1>5, <2>1, <2>2 DEF entry
<1> QED BY <1>1, <1>4, <1>5

LEMMA NamesDiffer ==
  /\ LocalNames \cap RemoteNames = {}
  /\ \A of \in LocalNames : Comment(of).of = of /\ Comment(of).bodies = <<0>> /\ Comment(of).updated = 0
  /\ \A c \in RemoteComments : Names(c) \in RemoteNames /\ Names(c)[2] = c.id
  /\ \A c, d \in RemoteComments : Names(c) = Names(d) <=> c.id = d.id
<1>1. \A of \in LocalNames : of[1] = "local"
  BY DEF LocalNames
<1>2. \A of \in RemoteNames : of[1] = "remote"
  BY DEF RemoteNames
<1>3. LocalNames \cap RemoteNames = {}
  BY <1>1, <1>2
<1>4. \A of \in LocalNames : Comment(of).of = of /\ Comment(of).bodies = <<0>> /\ Comment(of).updated = 0
  BY DEF Comment
<1>5. \A c \in RemoteComments : Names(c) \in RemoteNames /\ Names(c)[2] = c.id
  BY DEF RemoteComments, RemoteNames, Names
<1>6. \A c, d \in RemoteComments : Names(c) = Names(d) <=> c.id = d.id
  BY DEF Names
<1> QED BY <1>3, <1>4, <1>5, <1>6

-----------------------------------------------------------------------------
(* A remote comment stays with its thread.                                 *)

LEMMA SeenStep ==
  ASSUME ImportInv, CopiesInv, OrderInv, [Next]_allVars, NEW t \in RemoteThreads,
         NEW of \in RemoteNames, Seen(of, t)'
  PROVE  Seen(of, t) \/ (RemoteStep(t) /\ Post(t) /\ of[2] = inputs + 1)
<1>1. PullTypeOK /\ DirTypeOK /\ GroupsUnlinked /\ GroupsPlain
  BY UnlinkedOf DEF ImportInv, ImportTypeOK
<1>2. CASE \E c \in ElementsOf(remote'[t]) : of = Names(c)
  <2>1. PICK c \in ElementsOf(remote'[t]) : of = Names(c)
    BY <1>2
  <2>2. CASE \E d \in ElementsOf(remote[t]) : Later(c, d)
    BY <2>1, <2>2 DEF Seen, Names, Later
  <2>3. CASE RemoteStep(t) /\ Post(t) /\ c.id = inputs + 1
    BY <2>1, <2>3 DEF Names
  <2> QED BY <2>2, <2>3, RemoteFrom
<1>3. CASE \E p \in Pullers : \E c \in GotOf(p, t)' : of = Names(c)
  <2>1. PICK p \in Pullers : \E c \in GotOf(p, t)' : of = Names(c)
    BY <1>3
  <2>2. PICK c \in GotOf(p, t)' : of = Names(c)
    BY <2>1
  <2>3. c \in GotOf(p, t) \/ c \in ElementsOf(remote[t])
    BY GotFrom
  <2> QED BY <2>2, <2>3 DEF Seen
<1>4. CASE \E f \in DOMAIN threads' : threads'[f].remote = t /\ of \in NamesIn(threads'[f])
  <2>1. PICK f \in DOMAIN threads' : threads'[f].remote = t /\ of \in NamesIn(threads'[f])
    BY <1>4
  <2>2. PICK c \in threads'[f].comments : of = c.of
    BY <2>1 DEF NamesIn
  <2>3. CASE f \in DOMAIN threads /\ threads'[f] = threads[f]
    BY <2>1, <2>3 DEF Seen
  <2>4. CASE /\ f \in DOMAIN threads /\ threads'[f].remote = threads[f].remote
             /\ threads'[f].comments = threads[f].comments \cup {Comment(Local)} /\ Local \in LocalNames
    <3>1. c # Comment(Local)
      BY <2>2, <2>4, NamesDiffer
    <3>2. of \in NamesIn(threads[f])
      BY <2>2, <2>4, <3>1 DEF NamesIn
    <3> QED BY <2>1, <2>4, <3>2 DEF Seen
  <2>5. CASE \A d \in threads'[f].comments : \E l \in LocalNames : d = Comment(l)
    BY <2>2, <2>5, NamesDiffer
  <2>6. ASSUME NEW p \in Pullers, NEW entry \in LeftOf(p),
               threads'[f].comments = entry.thread.comments, threads'[f].remote = entry.thread.remote
        PROVE  Seen(of, t)
    <3>1. of \in NamesIn(entry.thread)
      BY <2>2, <2>6 DEF NamesIn
    <3> QED BY <2>1, <2>6, <3>1 DEF Seen
  <2> QED BY <2>3, <2>4, <2>5, <2>6, FileFrom
<1>5. CASE \E p \in Pullers : \E entry \in LeftOf(p)' :
              entry.thread.remote = t /\ of \in NamesIn(entry.thread)
  <2>1. PICK p \in Pullers : \E entry \in LeftOf(p)' :
              entry.thread.remote = t /\ of \in NamesIn(entry.thread)
    BY <1>5
  <2>2. PICK entry \in LeftOf(p)' : entry.thread.remote = t /\ of \in NamesIn(entry.thread)
    BY <2>1
  <2>3. CASE entry \in LeftOf(p)
    BY <2>2, <2>3 DEF Seen
  <2>4. CASE /\ Index(p) /\ pull[p] \in Fetching /\ pull[p].stage = "index"
             /\ \E u \in RemoteThreads : entry = Entry(u, pull[p].got[u])
    <3>1. PICK u \in RemoteThreads : entry = Entry(u, pull[p].got[u])
      BY <2>4
    <3>2. pull[p].got[u] \in Seq(RemoteComments)
      BY <2>4 DEF Fetching
    <3>3. PICK m \in entry.thread.comments : of = m.of
      BY <2>2 DEF NamesIn
    <3> DEFINE got == pull[p].got[u]
    <3>4. Mapped(got) \subseteq GotOf(p, u) /\ GotOf(p, u) \subseteq RemoteComments
      BY <2>4, <3>2, ElementsType, MappedType DEF GotOf
    <3> HIDE DEF got
    <3>5. /\ u = t
          /\ \/ \E f \in DOMAIN threads : threads[f].remote = u /\ m \in threads[f].comments
             \/ \E f \in DOMAIN threads : /\ threads[f].remote = u
                                          /\ \E k \in threads[f].comments, c \in Mapped(got) :
                                                k.of = Names(c) /\ m = Updated(k, c)
             \/ \E c \in Mapped(got) : m = Pulled(c)
      <4>1. got \in Seq(RemoteComments) /\ m \in Entry(u, got).thread.comments
            /\ Entry(u, got).thread.remote = t
        BY <2>2, <3>1, <3>2, <3>3 DEF got
      <4> QED BY <1>1, <4>1, EntryFrom
    <3>6. CASE \E f \in DOMAIN threads : threads[f].remote = u /\ m \in threads[f].comments
      BY <3>3, <3>5, <3>6 DEF Seen, NamesIn
    <3>7. CASE \E f \in DOMAIN threads : /\ threads[f].remote = u
                                         /\ \E k \in threads[f].comments, c \in Mapped(got) :
                                               k.of = Names(c) /\ m = Updated(k, c)
      <4>1. PICK f \in DOMAIN threads : \E k \in threads[f].comments, c \in Mapped(got) :
                                               k.of = Names(c) /\ m = Updated(k, c)
        BY <3>7
      <4>2. PICK k \in threads[f].comments, c \in Mapped(got) : k.of = Names(c) /\ m = Updated(k, c)
        BY <4>1
      <4>3. k \in Comments /\ c \in RemoteComments
        BY <1>1, <3>4, <4>2 DEF DirTypeOK, ThreadRecords
      <4>4. of = Names(c)
        BY <3>3, <4>2, <4>3, UpdatedType
      <4> QED BY <3>4, <3>5, <4>2, <4>4 DEF Seen
    <3>8. CASE \E c \in Mapped(got) : m = Pulled(c)
      <4>1. PICK c \in Mapped(got) : m = Pulled(c)
        BY <3>8
      <4>2. of = Names(c)
        BY <3>3, <3>4, <4>1, PulledType
      <4> QED BY <3>4, <3>5, <4>1, <4>2 DEF Seen
    <3> QED BY <3>5, <3>6, <3>7, <3>8
  <2> QED BY <2>3, <2>4, LeftFrom
<1> QED BY <1>2, <1>3, <1>4, <1>5 DEF Seen

LEMMA OriginNext ==
  ASSUME ImportInv, CopiesInv, OrderInv, OriginInv, [Next]_allVars
  PROVE  OriginInv'
<1>1. PullTypeOK /\ DirTypeOK /\ inputs \in Nat /\ inputs' \in Nat /\ inputs <= inputs'
  BY HistoryGrows DEF ImportInv, ImportTypeOK
<1>2. ASSUME NEW t \in RemoteThreads, NEW of \in RemoteNames, Seen(of, t)' PROVE of[2] <= inputs'
  <2>1. of[2] \in Nat
    BY DEF RemoteNames
  <2>2. Seen(of, t) \/ (RemoteStep(t) /\ of[2] = inputs + 1)
    BY <1>2, SeenStep
  <2>3. Seen(of, t) => of[2] <= inputs
    BY DEF OriginInv
  <2> QED BY <1>1, <2>1, <2>2, <2>3 DEF RemoteStep
<1>3. ASSUME NEW t \in RemoteThreads, NEW u \in RemoteThreads, NEW of \in RemoteNames,
             Seen(of, t)', Seen(of, u)'
      PROVE  t = u
  <2>1. of[2] \in Nat
    BY DEF RemoteNames
  <2>2. /\ Seen(of, t) \/ (Post(t) /\ of[2] = inputs + 1)
        /\ Seen(of, u) \/ (Post(u) /\ of[2] = inputs + 1)
    BY <1>3, SeenStep
  <2>3. /\ Seen(of, t) => of[2] <= inputs
        /\ Seen(of, u) => of[2] <= inputs
        /\ Seen(of, t) /\ Seen(of, u) => t = u
    BY DEF OriginInv
  <2>4. ASSUME Post(t), Post(u), t # u PROVE FALSE
    <3>1. remote'[u] = remote[u]
      BY <1>1, <2>4, PostOf
    <3>2. Len(remote'[u]) = Len(remote[u]) + 1
      BY <1>1, <2>4, PostOf
    <3>3. Len(remote[u]) \in Nat
      BY <1>1, ListOf
    <3> QED BY <3>1, <3>2, <3>3
  <2> QED BY <1>1, <2>1, <2>2, <2>3, <2>4
<1>4. ASSUME NEW f \in DOMAIN threads', threads'[f].remote = Nobody, NEW c \in threads'[f].comments
      PROVE  c.of \notin RemoteNames
  <2>1. CASE f \in DOMAIN threads /\ threads'[f] = threads[f]
    BY <1>4, <2>1 DEF OriginInv, NamesIn
  <2>2. CASE /\ f \in DOMAIN threads /\ threads'[f].remote = threads[f].remote
             /\ threads'[f].comments = threads[f].comments \cup {Comment(Local)} /\ Local \in LocalNames
    <3>1. CASE c = Comment(Local)
      BY <2>2, <3>1, NamesDiffer
    <3>2. CASE c \in threads[f].comments
      BY <1>4, <2>2, <3>2 DEF OriginInv, NamesIn
    <3> QED BY <2>2, <3>1, <3>2
  <2>3. CASE \A d \in threads'[f].comments : \E l \in LocalNames : d = Comment(l)
    BY <2>3, NamesDiffer
  <2>4. ASSUME NEW p \in Pullers, NEW entry \in LeftOf(p), threads'[f].remote = entry.thread.remote
        PROVE  FALSE
    BY <1>4, <2>4 DEF ImportInv, NumberInv
  <2> QED BY <2>1, <2>2, <2>3, <2>4, FileFrom
<1>5. \A f \in DOMAIN threads' : threads'[f].remote = Nobody => NamesIn(threads'[f]) \cap RemoteNames = {}
  BY <1>4 DEF NamesIn
<1> QED BY <1>2, <1>3, <1>5 DEF OriginInv

-----------------------------------------------------------------------------
(* Copies are never ahead.                                                 *)

LEMMA OneRemote ==
  ASSUME PullTypeOK, OrderInv, OriginInv
  PROVE  /\ \A c, d \in Everything : c.id = d.id => c = d
         /\ \A p \in Pullers : \A t, u \in RemoteThreads : \A c \in GotOf(p, t), d \in GotOf(p, u) :
              c.id = d.id => c = d
<1>1. ASSUME NEW s \in Seq(RemoteComments), Rising(s), NEW c \in ElementsOf(s), NEW d \in ElementsOf(s),
             c.id = d.id
      PROVE  c = d
  <2>1. PICK i \in DOMAIN s : c = s[i]
    BY DEF ElementsOf
  <2>2. PICK j \in DOMAIN s : d = s[j]
    BY DEF ElementsOf
  <2>3. s[i] \in RemoteComments /\ s[j] \in RemoteComments /\ i \in Nat /\ j \in Nat
    BY <2>1, <2>2
  <2>4. c.id \in Nat /\ ~(c.id < d.id) /\ ~(d.id < c.id)
    BY <1>1, <2>1, <2>3 DEF RemoteComments
  <2>5. ~(i < j) /\ ~(j < i)
    BY <1>1, <2>1, <2>2, <2>4 DEF Rising
  <2> QED BY <2>1, <2>2, <2>3, <2>5
<1>2. ASSUME NEW c \in Everything, NEW d \in Everything, c.id = d.id PROVE c = d
  <2>1. PICK t \in RemoteThreads : c \in ElementsOf(remote[t])
    BY DEF Everything
  <2>2. PICK u \in RemoteThreads : d \in ElementsOf(remote[u])
    BY DEF Everything
  <2>3. c \in RemoteComments /\ d \in RemoteComments
    BY EverythingType
  <2>4. Names(c) = Names(d) /\ Names(c) \in RemoteNames
    BY <1>2, <2>3, NamesDiffer
  <2>5. Seen(Names(c), t) /\ Seen(Names(c), u)
    BY <2>1, <2>2, <2>4 DEF Seen
  <2>6. t = u
    BY <2>4, <2>5 DEF OriginInv
  <2>7. Rising(remote[t]) /\ remote[t] \in Seq(RemoteComments)
    BY ListOf DEF OrderInv
  <2> QED BY <1>1, <1>2, <2>1, <2>2, <2>6, <2>7
<1>3. ASSUME NEW p \in Pullers, NEW t \in RemoteThreads, NEW u \in RemoteThreads,
             NEW c \in GotOf(p, t), NEW d \in GotOf(p, u), c.id = d.id
      PROVE  c = d
  <2>1. pull[p].stage \in {"comments", "conversation", "index"} /\ pull[p] \in Fetching
    BY PullShape DEF GotOf
  <2>2. /\ c \in ElementsOf(pull[p].got[t]) /\ d \in ElementsOf(pull[p].got[u])
        /\ pull[p].got[t] \in Seq(RemoteComments) /\ pull[p].got[u] \in Seq(RemoteComments)
        /\ Rising(pull[p].got[t])
    BY <2>1 DEF GotOf, OrderInv, PagesInv, Fetching
  <2>3. c \in RemoteComments /\ d \in RemoteComments
    BY <2>2, ElementsType
  <2>4. Names(c) = Names(d) /\ Names(c) \in RemoteNames
    BY <1>3, <2>3, NamesDiffer
  <2>5. Seen(Names(c), t) /\ Seen(Names(c), u)
    BY <2>4 DEF Seen
  <2>6. t = u
    BY <2>4, <2>5 DEF OriginInv
  <2> QED BY <1>1, <1>3, <2>2, <2>6
<1> QED BY <1>2, <1>3

LEMMA SharedGrows ==
  ASSUME ImportInv, [Next]_allVars
  PROVE  shared => shared'
<1>1. PullTypeOK /\ inputs \in Nat
  BY DEF ImportInv, ImportTypeOK
<1>2. \A t \in RemoteThreads : RemoteStep(t) => shared' = shared
  BY <1>1, RemoteMoves
<1>3. \A p \in Pullers : MergeStep(p) => shared' = shared
  BY MergeOf
<1>4. ASSUME NEW p \in Pullers, FetchStep(p), shared PROVE shared'
  <2>1. Start(p) => shared'
    BY <1>4, Zenon DEF Start
  <2>2. Fetch(p) => shared' = shared
    BY Zenon DEF Fetch, FetchThreads, CheckCounts, FetchConversation, FetchRemaining
  <2> QED BY <1>4, <2>1, <2>2 DEF FetchStep
<1>5. \A f : RemoveStep(f) => shared' = shared
  BY <1>1, RemoveLeaves
<1> QED BY <1>2, <1>3, <1>4, <1>5, StepCases DEF pullVars

LEMMA EverythingFrom ==
  ASSUME ImportInv, [Next]_allVars, NEW d \in Everything'
  PROVE  \/ \E c \in Everything : Later(d, c)
         \/ d.id = inputs + 1
<1>1. PICK t \in RemoteThreads : d \in ElementsOf(remote'[t])
  BY DEF Everything
<1> QED BY <1>1, RemoteFrom DEF Everything

LEMMA NamesBelow ==
  ASSUME ImportInv, OriginInv
  PROVE  /\ \A f \in DOMAIN threads : \A c \in threads[f].comments : c.of \in RemoteNames =>
              threads[f].remote \in RemoteThreads /\ c.of[2] <= inputs
         /\ \A p \in Pullers : \A entry \in LeftOf(p) : \A c \in entry.thread.comments : c.of \in RemoteNames =>
              entry.thread.remote \in RemoteThreads /\ c.of[2] <= inputs
<1>1. PullTypeOK /\ DirTypeOK
  BY DEF ImportInv, ImportTypeOK
<1>2. ASSUME NEW f \in DOMAIN threads, NEW c \in threads[f].comments, c.of \in RemoteNames
      PROVE  threads[f].remote \in RemoteThreads /\ c.of[2] <= inputs
  <2>1. c.of \in NamesIn(threads[f])
    BY DEF NamesIn
  <2>2. threads[f].remote # Nobody
    BY <1>2, <2>1 DEF OriginInv
  <2>3. threads[f].remote \in RemoteThreads
    BY <1>1, <2>2 DEF DirTypeOK, ThreadRecords
  <2> QED BY <1>2, <2>1, <2>3 DEF OriginInv, Seen
<1>3. ASSUME NEW p \in Pullers, NEW entry \in LeftOf(p), NEW c \in entry.thread.comments, c.of \in RemoteNames
      PROVE  entry.thread.remote \in RemoteThreads /\ c.of[2] <= inputs
  <2>1. c.of \in NamesIn(entry.thread)
    BY DEF NamesIn
  <2>2. entry \in Entries /\ entry.thread.remote # Nobody
    BY <1>1, PullShape DEF ImportInv, NumberInv
  <2>3. entry.thread.remote \in RemoteThreads
    BY <2>2 DEF Entries, ThreadRecords
  <2> QED BY <1>3, <2>1, <2>3 DEF OriginInv, Seen
<1> QED BY <1>2, <1>3

LEMMA UptoStep ==
  ASSUME ImportInv, [Next]_allVars, NEW m \in Comments, Upto(m, Everything),
         m.of \in RemoteNames => m.of[2] <= inputs
  PROVE  Upto(m, Everything')
<1> SUFFICES ASSUME NEW d \in Everything', m.of = Names(d)
             PROVE  m.updated <= d.updated /\ (d.review \/ Stamped(m))
  BY DEF Upto
<1>1. PullTypeOK /\ PullTypeOK' /\ inputs \in Nat
  BY NextImport DEF ImportInv, ImportTypeOK
<1>2. d \in RemoteComments
  BY <1>1 DEF Everything, PullTypeOK, ElementsOf
<1>3. m.of \in RemoteNames /\ m.of[2] = d.id /\ d.id \in Nat /\ d.updated \in Nat /\ m.updated \in Nat
  BY <1>2, NamesDiffer DEF Comments, RemoteComments
<1>4. d.id # inputs + 1
  BY <1>1, <1>3
<1>5. PICK c \in Everything : Later(d, c)
  BY <1>4, EverythingFrom
<1>6. c \in RemoteComments
  BY <1>1, EverythingType
<1>7. m.of = Names(c) /\ c.updated \in Nat /\ d.review = c.review /\ c.updated <= d.updated
  BY <1>2, <1>5, <1>6, LaterOf, NamesDiffer DEF RemoteComments
<1>8. m.updated <= c.updated /\ (c.review \/ Stamped(m))
  BY <1>7 DEF Upto
<1> QED BY <1>3, <1>7, <1>8

LEMMA ForwardOf ==
  /\ \A of \in LocalNames : Forward(Comment(of))
  /\ \A c \in RemoteComments : Forward(Pulled(c)) /\ (c.review \/ Stamped(Pulled(c)))
  /\ \A k \in Comments, c \in RemoteComments :
        Forward(k) /\ k.updated <= c.updated /\ (c.review \/ Stamped(k)) =>
            Forward(Updated(k, c)) /\ (c.review \/ Stamped(Updated(k, c)))
<1>1. ASSUME NEW n \in Nat, NEW m, m.bodies = <<n>> PROVE Forward(m) /\ (m.updated = n => Stamped(m))
  BY <1>1 DEF Forward, Stamped
<1>2. \A of \in LocalNames : Forward(Comment(of))
  BY <1>1, NamesDiffer
<1>3. ASSUME NEW c \in RemoteComments PROVE Forward(Pulled(c)) /\ (c.review \/ Stamped(Pulled(c)))
  <2>1. c.body \in Nat /\ Pulled(c).bodies = <<c.body>> /\ Pulled(c).updated = c.updated
    BY PulledType DEF RemoteComments
  <2>2. c.review \/ c.updated = c.body
    BY DEF RemoteComments
  <2> QED BY <1>1, <2>1, <2>2
<1>4. ASSUME NEW k \in Comments, NEW c \in RemoteComments, Forward(k), k.updated <= c.updated,
             c.review \/ Stamped(k)
      PROVE  Forward(Updated(k, c)) /\ (c.review \/ Stamped(Updated(k, c)))
  <2> DEFINE m == Updated(k, c)
  <2>1. /\ m.updated = c.updated
        /\ m.bodies = IF k.updated = c.updated THEN k.bodies ELSE Append(k.bodies, c.body)
    BY UpdatedType
  <2>2. k.updated \in Nat /\ c.updated \in Nat /\ c.body \in Nat /\ k.bodies \in Seq(Nat)
        /\ c.updated = IF c.review THEN 0 ELSE c.body
    BY DEF Comments, RemoteComments
  <2> SUFFICES Forward(m) /\ (c.review \/ Stamped(m))
    OBVIOUS
  <2> HIDE DEF m
  <2>3. CASE k.updated = c.updated
    BY <1>4, <2>1, <2>3 DEF Forward, Stamped
  <2>4. CASE k.updated # c.updated
    <3> DEFINE b == k.bodies
               n == Len(b)
               new == Append(b, c.body)
    <3>1. m.bodies = new
      BY <2>1, <2>4
    <3>2. k.updated < c.updated /\ c.updated = c.body /\ Stamped(k)
      BY <1>4, <2>2, <2>4
    <3>3. /\ DOMAIN new = 1 .. n + 1 /\ n \in Nat /\ DOMAIN b = 1 .. n
          /\ \A i \in 1 .. n : new[i] = b[i] /\ b[i] \in Nat
          /\ new[n + 1] = c.body
      BY SMTT(30), <2>2
    <3>4. /\ \A i, j \in DOMAIN b : i < j => b[i] < b[j]
          /\ \A i \in DOMAIN b : b[i] <= k.updated
      BY <1>4, <3>2 DEF Forward, Stamped
    <3> HIDE DEF new, n, b
    <3>5. \A i \in DOMAIN b : b[i] < c.body
      BY SMTT(30), <2>2, <3>2, <3>3, <3>4
    <3>6. \A i \in DOMAIN new : i \in 1 .. n \/ i = n + 1
      BY <3>3
    <3>7. ASSUME NEW i \in DOMAIN new, NEW j \in DOMAIN new, i < j PROVE new[i] < new[j]
      <4>1. i \in 1 .. n
        BY <3>3, <3>7
      <4>2. CASE j \in 1 .. n
        BY <3>3, <3>4, <3>7, <4>1, <4>2
      <4>3. CASE j = n + 1
        BY <3>3, <3>5, <4>1, <4>3
      <4> QED BY <3>6, <4>2, <4>3
    <3>8. ASSUME NEW i \in DOMAIN new PROVE new[i] <= c.updated
      <4>1. CASE i \in 1 .. n
        <5>1. new[i] = b[i] /\ b[i] \in Nat /\ b[i] < c.body
          BY <3>3, <3>5, <4>1
        <5> QED BY <2>2, <3>2, <5>1
      <4>2. CASE i = n + 1
        BY <2>2, <3>2, <3>3, <4>2
      <4> QED BY <3>6, <4>1, <4>2
    <3> QED BY <2>1, <3>1, <3>7, <3>8 DEF Forward, Stamped
  <2> QED BY <2>3, <2>4
<1> QED BY <1>2, <1>3, <1>4

LEMMA GotEdits ==
  ASSUME ImportInv, OrderInv, OriginInv, EditInv, [Next]_allVars, NEW p \in Pullers,
         NEW c \in Got(p)', NEW d \in Everything', c.id = d.id
  PROVE  Later(d, c)
<1>1. PullTypeOK /\ PullTypeOK' /\ inputs \in Nat
  BY NextImport DEF ImportInv, ImportTypeOK
<1>2. PICK t \in RemoteThreads : c \in GotOf(p, t)'
  BY DEF Got, GotOf
<1>3. d \in RemoteComments
  BY <1>1 DEF Everything, PullTypeOK, ElementsOf
<1>4. CASE c \in GotOf(p, t)
  <2>1. c \in Got(p) /\ c.id \in Nat /\ c.id <= inputs
    BY <1>1, <1>4, SeenBelow DEF Got, GotOf
  <2>2. PICK e \in Everything : Later(d, e)
    <3>1. d.id # inputs + 1
      BY <1>1, <2>1
    <3> QED BY <3>1, EverythingFrom
  <2>3. c \in RemoteComments /\ e \in RemoteComments
    BY <1>1, <2>1, EverythingType, PullShape
  <2>4. e.id = c.id
    BY <1>3, <2>2, <2>3, LaterOf
  <2>5. Later(e, c)
    BY <2>1, <2>4 DEF EditInv
  <2> QED BY <1>3, <2>2, <2>3, <2>5, LaterOf
<1>5. CASE c \in ElementsOf(remote[t]) /\ FetchStep(p)
  <2>1. remote' = remote
    BY <1>1, <1>5, FetchOthers
  <2>2. c \in Everything /\ d \in Everything
    BY <1>5, <2>1 DEF Everything
  <2>3. c = d
    BY <1>1, <2>2, OneRemote
  <2> QED BY <1>3, <2>3, LaterSelf
<1> QED BY <1>2, <1>4, <1>5, GotFrom

(* While a pull fetches, or at least once it has, no other writes. *)
LEMMA WriterAlone ==
  ASSUME ImportInv, CopiesInv, NEW p \in Pullers, Write(p), ~shared,
         NEW q \in Pullers
  PROVE  Got(q)' = {}
<1>1. Running(p) /\ pull'[p].stage \notin {"comments", "conversation", "index"}
      /\ \A r \in Pullers : r # p => pull'[r] = pull[r]
  BY MergeOf DEF MergeStep
<1>2. CASE q = p
  BY <1>1, <1>2 DEF Got
<1>3. CASE q # p
  <2>1. ~Running(q)
    BY <1>1, <1>3 DEF CopiesInv, SharedInv
  <2>2. pull'[q].stage \notin {"comments", "conversation", "index"}
    BY <1>1, <1>3, <2>1 DEF Running
  <2> QED BY <2>2 DEF Got
<1> QED BY <1>2, <1>3

LEMMA FileEdits ==
  ASSUME ImportInv, CopiesInv, OrderInv, OriginInv, EditInv, ~shared, [Next]_allVars,
         NEW f \in DOMAIN threads', NEW m \in threads'[f].comments
  PROVE  /\ Forward(m) /\ Upto(m, Everything')
         /\ \A p \in Pullers : Upto(m, Got(p)')
<1>1. PullTypeOK /\ DirTypeOK /\ PullTypeOK' /\ inputs \in Nat
  BY NextImport DEF ImportInv, ImportTypeOK
<1> DEFINE Goal == /\ Forward(m) /\ Upto(m, Everything')
                   /\ \A p \in Pullers : Upto(m, Got(p)')
<1>2. ASSUME NEW g \in DOMAIN threads, m \in threads[g].comments PROVE Goal
  <2>1. /\ Forward(m) /\ Upto(m, Everything) /\ \A p \in Pullers : Upto(m, Got(p))
        /\ m.of \in RemoteNames => m.of[2] <= inputs
    BY <1>2, NamesBelow DEF EditInv
  <2>2. m \in Comments
    BY <1>1, <1>2 DEF DirTypeOK, ThreadRecords
  <2>3. Upto(m, Everything')
    BY <2>1, <2>2, UptoStep
  <2>4. ASSUME NEW p \in Pullers PROVE Upto(m, Got(p)')
    <3> SUFFICES ASSUME NEW c \in Got(p)', m.of = Names(c)
                 PROVE  m.updated <= c.updated /\ (c.review \/ Stamped(m))
      BY DEF Upto
    <3>1. PICK t \in RemoteThreads : c \in GotOf(p, t)'
      BY DEF Got, GotOf
    <3>2. c \in GotOf(p, t) \/ c \in ElementsOf(remote[t])
      BY <3>1, GotFrom
    <3>3. c \in Got(p) \/ c \in Everything
      BY <3>2 DEF Got, GotOf, Everything
    <3> QED BY <2>1, <3>3 DEF Upto
  <2> QED BY <2>1, <2>3, <2>4
<1>3. ASSUME NEW of \in LocalNames, m = Comment(of) PROVE Goal
  <2>1. Forward(m) /\ m.of \in LocalNames
    BY <1>3, ForwardOf, NamesDiffer
  <2>2. \A c \in Everything' : m.of # Names(c)
    <3>1. Everything' \subseteq RemoteComments
      BY <1>1 DEF Everything, PullTypeOK, ElementsOf
    <3> QED BY <2>1, <3>1, NamesDiffer
  <2>3. \A p \in Pullers : \A c \in Got(p)' : m.of # Names(c)
    <3> SUFFICES ASSUME NEW p \in Pullers, NEW c \in Got(p)' PROVE m.of # Names(c)
      OBVIOUS
    <3>1. m.of[1] = "local" /\ Names(c)[1] = "remote"
      BY <2>1 DEF LocalNames, Names
    <3> QED BY <3>1
  <2> QED BY <2>1, <2>2, <2>3 DEF Upto
<1>4. ASSUME NEW p \in Pullers, NEW entry \in LeftOf(p), Write(p), m \in entry.thread.comments PROVE Goal
  <2>1. Forward(m) /\ Upto(m, Everything)
    BY <1>4 DEF EditInv
  <2>2. remote' = remote
    BY <1>4 DEF Write
  <2>3. \A q \in Pullers : Got(q)' = {}
    BY <1>4, WriterAlone
  <2>4. \A q \in Pullers : Upto(m, Got(q)')
    BY <2>3 DEF Upto
  <2>5. Everything' = Everything
    BY <2>2 DEF Everything
  <2> QED BY <2>1, <2>4, <2>5
<1> SUFFICES Goal
  OBVIOUS
<1> HIDE DEF Goal
<1>5. CASE f \in DOMAIN threads /\ threads'[f] = threads[f]
  BY <1>2, <1>5
<1>6. CASE /\ f \in DOMAIN threads
           /\ threads'[f].comments = threads[f].comments \cup {Comment(Local)} /\ Local \in LocalNames
  BY <1>2, <1>3, <1>6
<1>7. CASE \A c \in threads'[f].comments : \E of \in LocalNames : c = Comment(of)
  BY <1>3, <1>7
<1>8. ASSUME NEW p \in Pullers, NEW entry \in LeftOf(p), Write(p),
             threads'[f].comments = entry.thread.comments
      PROVE  Goal
  BY <1>4, <1>8
<1> QED BY <1>5, <1>6, <1>7, <1>8, FileFrom

LEMMA LeftEdits ==
  ASSUME ImportInv, CopiesInv, OrderInv, OriginInv, EditInv, [Next]_allVars,
         NEW p \in Pullers, NEW entry \in LeftOf(p)', NEW m \in entry.thread.comments
  PROVE  Forward(m) /\ Upto(m, Everything')
<1>1. PullTypeOK /\ DirTypeOK /\ GroupsUnlinked /\ GroupsPlain /\ inputs \in Nat
  BY UnlinkedOf DEF ImportInv, ImportTypeOK
<1>2. CASE entry \in LeftOf(p)
  <2>1. /\ Forward(m) /\ Upto(m, Everything)
        /\ m.of \in RemoteNames => m.of[2] <= inputs
    BY <1>2, NamesBelow DEF EditInv
  <2>2. m \in Comments
    BY <1>1, <1>2, PullShape DEF Entries, ThreadRecords
  <2> QED BY <2>1, <2>2, UptoStep
<1>3. CASE /\ Index(p) /\ pull[p] \in Fetching /\ pull[p].stage = "index"
           /\ \E t \in RemoteThreads : entry = Entry(t, pull[p].got[t])
  <2>1. PICK t \in RemoteThreads : entry = Entry(t, pull[p].got[t])
    BY <1>3
  <2> DEFINE got == pull[p].got[t]
  <2>2. got \in Seq(RemoteComments) /\ Mapped(got) \subseteq Got(p) /\ Got(p) \subseteq RemoteComments
    BY <1>1, <1>3, PullShape, MappedType DEF Fetching, Got
  <2>3. Everything' = Everything /\ Everything \subseteq RemoteComments
    BY <1>1, <1>3, EverythingType DEF Index, Everything
  <2>4. m \in Entry(t, got).thread.comments
    BY <2>1
  <2> HIDE DEF got
  <2>5. \/ \E f \in DOMAIN threads : m \in threads[f].comments
        \/ \E f \in DOMAIN threads : \E k \in threads[f].comments, c \in Mapped(got) :
                                           k.of = Names(c) /\ m = Updated(k, c)
        \/ \E c \in Mapped(got) : m = Pulled(c)
    BY <1>1, <2>2, <2>4, EntryFrom
  <2>6. ASSUME NEW c \in Mapped(got), m.of = Names(c), m.updated = c.updated, c.review \/ Stamped(m)
        PROVE  Upto(m, Everything)
    <3> SUFFICES ASSUME NEW d \in Everything, m.of = Names(d)
                 PROVE  m.updated <= d.updated /\ (d.review \/ Stamped(m))
      BY DEF Upto
    <3>1. c.id = d.id
      BY <2>2, <2>3, <2>6, NamesDiffer
    <3>2. Later(d, c)
      BY <2>2, <3>1 DEF EditInv
    <3>3. d.review = c.review /\ c.updated <= d.updated
      BY <2>2, <2>3, <3>2, LaterOf
    <3> QED BY <2>6, <3>3
  <2>7. CASE \E f \in DOMAIN threads : m \in threads[f].comments
    BY <2>3, <2>7 DEF EditInv
  <2>8. CASE \E f \in DOMAIN threads : \E k \in threads[f].comments, c \in Mapped(got) :
                                             k.of = Names(c) /\ m = Updated(k, c)
    <3>1. PICK f \in DOMAIN threads : \E k \in threads[f].comments, c \in Mapped(got) :
                                             k.of = Names(c) /\ m = Updated(k, c)
      BY <2>8
    <3>2. PICK k \in threads[f].comments, c \in Mapped(got) : k.of = Names(c) /\ m = Updated(k, c)
      BY <3>1
    <3>3. k \in Comments /\ c \in RemoteComments
      BY <1>1, <2>2, <3>2 DEF DirTypeOK, ThreadRecords
    <3>4. m.of = Names(c) /\ m.updated = c.updated
      BY <3>2, <3>3, UpdatedType
    <3>5. Forward(k) /\ k.updated <= c.updated /\ (c.review \/ Stamped(k))
      BY <2>2, <3>2 DEF EditInv, Upto
    <3> QED BY <2>3, <2>6, <3>2, <3>3, <3>4, <3>5, ForwardOf
  <2>9. CASE \E c \in Mapped(got) : m = Pulled(c)
    <3>1. PICK c \in Mapped(got) : m = Pulled(c)
      BY <2>9
    <3>2. m.of = Names(c) /\ m.updated = c.updated /\ c \in RemoteComments
      BY <2>2, <3>1, PulledType
    <3> QED BY <2>3, <2>6, <3>1, <3>2, ForwardOf
  <2> QED BY <2>5, <2>7, <2>8, <2>9
<1> QED BY <1>2, <1>3, LeftFrom

LEMMA EditNext ==
  ASSUME ImportInv, CopiesInv, OrderInv, OriginInv, ~shared => EditInv, [Next]_allVars
  PROVE  (~shared => EditInv)'
<1> SUFFICES ASSUME ~shared' PROVE EditInv'
  OBVIOUS
<1>1. ~shared /\ EditInv
  BY SharedGrows
<1>2. \A p \in Pullers : \A c \in Got(p)', d \in Everything' : c.id = d.id => Later(d, c)
  BY <1>1, GotEdits
<1>3. \A f \in DOMAIN threads' : \A m \in threads'[f].comments :
          /\ Forward(m) /\ Upto(m, Everything')
          /\ \A p \in Pullers : Upto(m, Got(p)')
  BY <1>1, FileEdits
<1>4. \A p \in Pullers : \A entry \in LeftOf(p)' : \A m \in entry.thread.comments :
          Forward(m) /\ Upto(m, Everything')
  BY <1>1, LeftEdits
<1> QED BY <1>2, <1>3, <1>4 DEF EditInv, Forward, Upto, Stamped, Later, Names


-----------------------------------------------------------------------------
(* One file, and one place in it.                                          *)

LEMMA MergedOnce ==
  ASSUME NEW thread \in ThreadRecords, NEW got \in Seq(RemoteComments), NamesOnce(thread),
         \A c, d \in ElementsOf(got) : c.id = d.id => c = d
  PROVE  NamesOnce(MergeThread(thread, got))
<1> DEFINE merged == MergeThread(thread, got)
           Old(m) == m \in thread.comments /\ \A c \in Mapped(got) : m.of # Names(c)
           Mixed(m) == \E k \in thread.comments, c \in Mapped(got) : k.of = Names(c) /\ m = Updated(k, c)
           New(m) == \E c \in Mapped(got) : Names(c) \notin NamesIn(thread) /\ m = Pulled(c)
<1>1. Mapped(got) \subseteq RemoteComments /\ thread.comments \subseteq Comments
  BY MappedType DEF ThreadRecords
<1>2. \A m \in merged.comments : Old(m) \/ Mixed(m) \/ New(m)
  BY MergeThreadOf
<1>3. \A c, d \in Mapped(got) : Names(c) = Names(d) => c = d
  BY <1>1, MappedType, NamesDiffer
<1> HIDE DEF merged
<1> SUFFICES ASSUME NEW m \in merged.comments, NEW n \in merged.comments, m.of = n.of, m.of \in RemoteNames
             PROVE  m = n
  BY DEF NamesOnce, merged
<1>4. ASSUME NEW x, Mixed(x)
      PROVE  \E k \in thread.comments, c \in Mapped(got) :
                k.of = Names(c) /\ x = Updated(k, c) /\ x.of = Names(c)
  <2>1. PICK k \in thread.comments, c \in Mapped(got) : k.of = Names(c) /\ x = Updated(k, c)
    BY <1>4
  <2>2. k \in Comments /\ c \in RemoteComments
    BY <1>1
  <2> QED BY <2>1, <2>2, UpdatedType
<1>5. ASSUME NEW x, New(x)
      PROVE  \E c \in Mapped(got) : Names(c) \notin NamesIn(thread) /\ x = Pulled(c) /\ x.of = Names(c)
  BY <1>1, <1>5, PulledType
<1>6. CASE Old(m) /\ Old(n)
  BY <1>6 DEF NamesOnce
<1>7. CASE Mixed(m) /\ Mixed(n)
  <2>1. PICK k \in thread.comments, c \in Mapped(got) : k.of = Names(c) /\ m = Updated(k, c) /\ m.of = Names(c)
    BY <1>4, <1>7
  <2>2. PICK l \in thread.comments, d \in Mapped(got) : l.of = Names(d) /\ n = Updated(l, d) /\ n.of = Names(d)
    BY <1>4, <1>7
  <2>3. k = l /\ c = d
    BY <1>3, <2>1, <2>2 DEF NamesOnce
  <2> QED BY <2>1, <2>2, <2>3
<1>8. CASE New(m) /\ New(n)
  BY <1>3, <1>5, <1>8
<1>9. ASSUME NEW x, NEW y, Mixed(x), New(y) PROVE x.of # y.of
  <2>1. PICK k \in thread.comments, c \in Mapped(got) : k.of = Names(c) /\ x.of = Names(c)
    BY <1>4, <1>9
  <2>2. x.of \in NamesIn(thread)
    BY <2>1 DEF NamesIn
  <2> QED BY <1>5, <1>9, <2>2
<1>10. ASSUME NEW x, NEW y, Old(x), Mixed(y) \/ New(y) PROVE x.of # y.of
  BY <1>4, <1>5, <1>10
<1> HIDE DEF Old, Mixed, New
<1> QED BY <1>2, <1>6, <1>7, <1>8, <1>9, <1>10

LEMMA EntryOnce ==
  ASSUME DirTypeOK, GroupsUnlinked, NEW t \in RemoteThreads, NEW got \in Seq(RemoteComments),
         \A f \in DOMAIN threads : NamesOnce(threads[f]),
         \A c, d \in ElementsOf(got) : c.id = d.id => c = d
  PROVE  NamesOnce(Entry(t, got).thread)
<1> DEFINE entry == Entry(t, got)
<1>1. \/ entry.thread = MapThread(t, got)
      \/ /\ entry.file \in Numbered \cap DOMAIN threads
         /\ entry.thread = MergeThread(threads[entry.file], got)
  BY EntryOf DEF GroupsUnlinked
<1> HIDE DEF entry
<1>2. CASE entry.thread = MapThread(t, got)
  <2>1. entry.thread.comments = {Pulled(c) : c \in Mapped(got)}
    BY <1>2, MapThreadOf
  <2>2. Mapped(got) \subseteq RemoteComments
    BY MappedType
  <2>3. \A c \in Mapped(got) : Pulled(c).of = Names(c)
    BY <2>2, PulledType
  <2>4. \A c, d \in Mapped(got) : Names(c) = Names(d) => c = d
    BY <2>2, MappedType, NamesDiffer
  <2>5. NamesOnce(entry.thread)
    BY <2>1, <2>3, <2>4 DEF NamesOnce
  <2> QED BY <2>5 DEF entry
<1>3. CASE /\ entry.file \in Numbered \cap DOMAIN threads
           /\ entry.thread = MergeThread(threads[entry.file], got)
  <2>1. threads[entry.file] \in ThreadRecords /\ NamesOnce(threads[entry.file])
    BY <1>3 DEF DirTypeOK
  <2>2. NamesOnce(entry.thread)
    BY <1>3, <2>1, MergedOnce
  <2> QED BY <2>2 DEF entry
<1> QED BY <1>1, <1>2, <1>3

LEMMA LeftOnce ==
  ASSUME ImportInv, CopiesInv, OrderInv, OriginInv, OnePlaceInv, [Next]_allVars,
         NEW p \in Pullers, NEW entry \in LeftOf(p)'
  PROVE  NamesOnce(entry.thread)
<1>1. PullTypeOK /\ DirTypeOK /\ GroupsUnlinked /\ GroupsPlain
  BY UnlinkedOf DEF ImportInv, ImportTypeOK
<1>2. CASE entry \in LeftOf(p)
  BY <1>2 DEF OnePlaceInv
<1>3. CASE /\ Index(p) /\ pull[p] \in Fetching /\ pull[p].stage = "index"
           /\ \E t \in RemoteThreads : entry = Entry(t, pull[p].got[t])
  <2>1. PICK t \in RemoteThreads : entry = Entry(t, pull[p].got[t])
    BY <1>3
  <2> DEFINE got == pull[p].got[t]
  <2>2. got \in Seq(RemoteComments) /\ ElementsOf(got) = GotOf(p, t)
    BY <1>3 DEF Fetching, GotOf
  <2>3. entry = Entry(t, got)
    BY <2>1
  <2> HIDE DEF got
  <2>4. \A c, d \in ElementsOf(got) : c.id = d.id => c = d
    BY <1>1, <2>2, OneRemote
  <2>5. \A f \in DOMAIN threads : NamesOnce(threads[f])
    BY DEF OnePlaceInv
  <2> QED BY <1>1, <2>2, <2>3, <2>4, <2>5, EntryOnce
<1> QED BY <1>2, <1>3, LeftFrom

LEMMA FilesOnce ==
  ASSUME ImportInv, OnePlaceInv, [Next]_allVars, NEW f \in DOMAIN threads'
  PROVE  NamesOnce(threads'[f])
<1>1. CASE f \in DOMAIN threads /\ threads'[f] = threads[f]
  BY <1>1 DEF OnePlaceInv
<1>2. CASE /\ f \in DOMAIN threads
           /\ threads'[f].comments = threads[f].comments \cup {Comment(Local)} /\ Local \in LocalNames
  <2>1. NamesOnce(threads[f])
    BY <1>2 DEF OnePlaceInv
  <2>2. Comment(Local).of \notin RemoteNames
    BY <1>2, NamesDiffer
  <2> QED BY <1>2, <2>1, <2>2 DEF NamesOnce
<1>3. CASE \A c \in threads'[f].comments : \E of \in LocalNames : c = Comment(of)
  <2>1. \A c \in threads'[f].comments : c.of \notin RemoteNames
    BY <1>3, NamesDiffer
  <2> QED BY <2>1 DEF NamesOnce
<1>4. ASSUME NEW p \in Pullers, NEW entry \in LeftOf(p), threads'[f].comments = entry.thread.comments
      PROVE  NamesOnce(threads'[f])
  <2>1. NamesOnce(entry.thread)
    BY <1>4 DEF OnePlaceInv
  <2> QED BY <1>4, <2>1 DEF NamesOnce
<1> QED BY <1>1, <1>2, <1>3, <1>4, FileFrom

(* The file of a copy was that copy's before, or there was none. *)
LEMMA HomeFrom ==
  ASSUME ImportInv, [Next]_allVars, NEW f \in DOMAIN threads', threads'[f].remote # Nobody
  PROVE  \/ f \in DOMAIN threads /\ threads'[f].remote = threads[f].remote
         \/ \E p \in Pullers : \E entry \in LeftOf(p) :
              /\ Write(p) /\ entry = Head(pull[p].left)
              /\ f \notin DOMAIN threads /\ entry.file \in {Nobody, f}
              /\ threads'[f].remote = entry.thread.remote
<1>1. ASSUME NEW p \in Pullers, NEW entry \in LeftOf(p), f \in DOMAIN threads,
             threads'[f].remote = entry.thread.remote, entry.file # Nobody, f = entry.file
      PROVE  threads'[f].remote = threads[f].remote
  BY <1>1 DEF ImportInv, NumberInv, CopyOf, SameThread
<1>2. NewFile \notin DOMAIN threads
  BY NewFileOf DEF ImportInv, ImportTypeOK
<1> QED BY <1>1, <1>2, FileFrom

LEMMA FilesApart ==
  ASSUME ImportInv, OnePlaceInv, ~shared, [Next]_allVars, NEW f \in DOMAIN threads', NEW g \in DOMAIN threads',
         threads'[f].remote = threads'[g].remote, threads'[f].remote # Nobody
  PROVE  f = g
<1> DEFINE Old(h) == h \in DOMAIN threads /\ threads'[h].remote = threads[h].remote
           New(h) == /\ h \notin DOMAIN threads /\ \E p \in Pullers : Write(p)
                     /\ \A k \in DOMAIN threads : threads[k].remote # threads'[h].remote
<1>1. ASSUME NEW h \in DOMAIN threads', threads'[h].remote # Nobody PROVE Old(h) \/ New(h)
  <2>1. ASSUME NEW p \in Pullers, NEW entry \in LeftOf(p), Write(p),
               h \notin DOMAIN threads, entry.file \in {Nobody, h},
               threads'[h].remote = entry.thread.remote
        PROVE  New(h)
    <3>1. \A k \in DOMAIN threads : threads[k].remote = entry.thread.remote => k = entry.file
      BY DEF OnePlaceInv, Unwritten
    <3>2. Nobody \notin DOMAIN threads
      BY NewFileOf DEF ImportInv, ImportTypeOK
    <3> QED BY <2>1, <3>1, <3>2
  <2> QED BY <1>1, <2>1, HomeFrom
<1>2. CASE Old(f) /\ Old(g)
  BY <1>2 DEF OnePlaceInv
<1>3. CASE New(f) /\ New(g)
  <2>1. PICK p \in Pullers : Write(p)
    BY <1>3
  <2>2. \E file : DOMAIN threads' = DOMAIN threads \cup {file}
    BY <2>1, WriteOf
  <2> QED BY <1>3, <2>2
<1> QED BY <1>1, <1>2, <1>3

LEMMA LeftUnwritten ==
  ASSUME ImportInv, CopiesInv, OnePlaceInv, ~shared, [Next]_allVars, NEW p \in Pullers, NEW entry \in LeftOf(p)'
  PROVE  Unwritten(entry)'
<1>1. PullTypeOK /\ DirTypeOK /\ GroupsUnlinked /\ GroupsPlain
  BY UnlinkedOf DEF ImportInv, ImportTypeOK
<1>2. entry.thread.remote # Nobody
  BY NextImport DEF ImportInv, NumberInv
<1> SUFFICES ASSUME NEW f \in DOMAIN threads', threads'[f].remote = entry.thread.remote
             PROVE  f = entry.file
  BY DEF Unwritten
<1>3. CASE f \in DOMAIN threads /\ threads'[f].remote = threads[f].remote
  <2>1. CASE entry \in LeftOf(p)
    BY <1>3, <2>1 DEF OnePlaceInv, Unwritten
  <2>2. CASE /\ Index(p) /\ pull[p] \in Fetching /\ pull[p].stage = "index"
             /\ \E t \in RemoteThreads : entry = Entry(t, pull[p].got[t])
    <3>1. PICK t \in RemoteThreads : entry = Entry(t, pull[p].got[t])
      BY <2>2
    <3>2. pull[p].got[t] \in Seq(RemoteComments)
      BY <2>2 DEF Fetching
    <3>3. entry.thread.remote = t
      BY <1>1, <3>1, <3>2, EntryType
    <3>4. \/ \A g \in DOMAIN threads : threads[g].remote # t
          \/ entry.file \in DOMAIN threads /\ threads[entry.file].remote = t
      BY <1>1, <3>1, <3>2, EntryOf DEF GroupsUnlinked
    <3> QED BY <1>2, <1>3, <3>3, <3>4 DEF OnePlaceInv
  <2> QED BY <2>1, <2>2, LeftFrom
<1>4. ASSUME NEW q \in Pullers, NEW e \in LeftOf(q), Write(q), e = Head(pull[q].left),
             threads'[f].remote = e.thread.remote
      PROVE  FALSE
  <2>1. CASE q = p
    BY <1>4, <2>1, OthersLeft
  <2>2. CASE q # p
    <3>1. pull'[p] = pull[p] /\ Running(q)
      BY <1>4, <2>2, MergeOf DEF MergeStep
    <3>2. Running(p)
      BY <3>1 DEF LeftOf, At, Running
    <3> QED BY <2>2, <3>1, <3>2 DEF CopiesInv, SharedInv
  <2> QED BY <2>1, <2>2
<1> QED BY <1>2, <1>3, <1>4, HomeFrom

LEMMA OnePlaceNext ==
  ASSUME ImportInv, CopiesInv, OrderInv, OriginInv, OnePlaceInv, [Next]_allVars
  PROVE  OnePlaceInv'
<1>1. \A f \in DOMAIN threads' : NamesOnce(threads'[f])
  BY FilesOnce
<1>2. \A p \in Pullers : \A entry \in LeftOf(p)' : NamesOnce(entry.thread)
  BY LeftOnce
<1>3. ~shared' => ~shared
  BY SharedGrows
<1>4. ~shared' => \A f, g \in DOMAIN threads' :
          threads'[f].remote = threads'[g].remote /\ threads'[f].remote # Nobody => f = g
  BY <1>3, FilesApart
<1>5. ~shared' => \A p \in Pullers : \A entry \in LeftOf(p)' : Unwritten(entry)'
  BY <1>3, LeftUnwritten
<1> QED BY <1>1, <1>2, <1>4, <1>5 DEF OnePlaceInv, NamesOnce

(* So the copies of a remote comment are one. *)
LEMMA OnlyCopy ==
  ASSUME ImportInv, OriginInv, OnePlaceInv
  PROVE  OneCopy
<1> SUFFICES ASSUME ~shared, NEW f \in DOMAIN threads, NEW g \in DOMAIN threads,
                    NEW c \in threads[f].comments, NEW d \in threads[g].comments,
                    c.of = d.of, c.of[1] = "remote"
             PROVE  f = g /\ c = d
  BY DEF OneCopy
<1>1. c.of \in RemoteNames
  <2>1. c \in Comments
    BY DEF ImportInv, ImportTypeOK, DirTypeOK, ThreadRecords
  <2>2. c.of \in LocalNames \cup RemoteNames
    BY <2>1 DEF Comments
  <2> QED BY <2>2 DEF LocalNames
<1> DEFINE t == threads[f].remote
           u == threads[g].remote
<1>2. t \in RemoteThreads /\ u \in RemoteThreads
  BY <1>1, NamesBelow
<1>3. Seen(c.of, t) /\ Seen(c.of, u)
  BY DEF Seen, NamesIn
<1>4. t = u
  BY <1>1, <1>2, <1>3 DEF OriginInv
<1>5. t # Nobody
  BY <1>2, PullAssumption DEF RemoteThreads
<1>6. f = g
  BY <1>4, <1>5 DEF OnePlaceInv
<1> QED BY <1>1, <1>6 DEF OnePlaceInv, NamesOnce


-----------------------------------------------------------------------------
(* What a pull is to bring comes.                                          *)

(* What it must still bring when a remote thread has changed is where it   *)
(* was, or further up when nothing counts on that.                         *)
LEMMA RemoteKeeps ==
  ASSUME PullTypeOK, inputs \in Nat, NEW t \in RemoteThreads, RemoteStep(t), NEW p \in Pullers,
         NEW c \in pull'[p].there, NEW u \in RemoteThreads, NEW j \in DOMAIN remote[u],
         Later(remote[u][j], c)
  PROVE  \E k \in DOMAIN remote'[u] :
            /\ Later(remote'[u][k], c)
            /\ u = Conversation /\ At(p, "conversation") => k = j
<1>1. /\ DOMAIN remote[u] = 1 .. Len(remote[u]) /\ Len(remote[u]) \in Nat
      /\ c \in RemoteComments /\ remote[u][j] \in RemoteComments
  <2>1. c \in pull[p].there
    BY RemoteLeaves
  <2> QED BY <2>1, ListOf, PullShape
<1>2. remote[u][j].id = c.id
  BY <1>1, LaterOf
<1>3. CASE u # t
  <2>1. remote'[u] = remote[u]
    BY <1>3, RemoteMoves
  <2> QED BY <2>1
<1>4. CASE u = t /\ Post(t)
  <2>1. /\ remote'[t] \in Seq(RemoteComments) /\ Len(remote'[t]) = Len(remote[t]) + 1
        /\ \A i \in 1 .. Len(remote[t]) : remote'[t][i] = remote[t][i]
    BY <1>4, PostOf
  <2>2. j \in DOMAIN remote'[t]
    BY <1>1, <1>4, <2>1
  <2> QED BY <1>1, <1>4, <2>1, <2>2
<1>5. ASSUME u = t, NEW i \in DOMAIN remote[t], Edit(t, i)
      PROVE  \E k \in DOMAIN remote'[u] :
                /\ Later(remote'[u][k], c)
                /\ u = Conversation /\ At(p, "conversation") => k = j
  <2>1. /\ remote'[t] \in Seq(RemoteComments) /\ Len(remote'[t]) = Len(remote[t])
        /\ Later(remote'[t][j], remote[t][j])
    BY <1>1, <1>5, EditOf
  <2>2. j \in DOMAIN remote'[t] /\ remote'[t][j] \in RemoteComments
    BY <1>1, <1>5, <2>1
  <2>3. Later(remote'[t][j], c)
    BY <1>1, <1>5, <2>1, <2>2, LaterOf
  <2> QED BY <1>5, <2>2, <2>3
<1>6. ASSUME u = t, NEW i \in DOMAIN remote[t], Delete(t, i)
      PROVE  \E k \in DOMAIN remote'[u] :
                /\ Later(remote'[u][k], c)
                /\ u = Conversation /\ At(p, "conversation") => k = j
  <2>1. /\ remote'[t] \in Seq(RemoteComments) /\ Len(remote'[t]) = Len(remote[t]) - 1
        /\ \A k \in 1 .. Len(remote[t]) - 1 : remote'[t][k] = remote[t][IF k < i THEN k ELSE k + 1]
        /\ pull'[p].there = StillThere(p, t, i)
    BY ZenonT(60), <1>6, DeleteOf
  <2>2. c \in StillThere(p, t, i)
    BY <2>1
  <2>3. i # j /\ ~(u = Conversation /\ At(p, "conversation"))
    BY <1>2, <1>6, <2>2 DEF StillThere
  <2> DEFINE k == IF j < i THEN j ELSE j - 1
  <2>4. k \in 1 .. Len(remote[t]) - 1 /\ j = IF k < i THEN k ELSE k + 1
    BY <1>1, <1>6, <2>3
  <2> HIDE DEF k
  <2>5. remote'[t][k] = remote[t][j] /\ k \in DOMAIN remote'[t]
    BY SMTT(30), <1>1, <1>6, <2>1, <2>4
  <2> QED BY <1>6, <2>3, <2>5
<1> QED BY <1>3, <1>4, <1>5, <1>6 DEF RemoteStep

LEMMA RemoteComing ==
  ASSUME PullTypeOK, OrderInv, inputs \in Nat, NEW t \in RemoteThreads, RemoteStep(t), NEW p \in Pullers,
         pull[p].stage \in {"comments", "conversation", "index"},
         NEW c \in pull'[p].there, Coming(p, c)
  PROVE  Coming(p, c)'
<1>1. /\ \A u \in RemoteThreads : GotOf(p, u)' = GotOf(p, u)
      /\ pull'[p].stage = pull[p].stage
      /\ pull'[p].got = pull[p].got /\ pull'[p].page = pull[p].page /\ pull'[p].more = pull[p].more
  BY RemoteLeaves
<1>2. PICK u \in RemoteThreads :
        \/ HasIt(GotOf(p, u), c)
        \/ \E i \in DOMAIN remote[u] :
              Pending(p, u, i) /\ Later(remote[u][i], c)
  BY DEF Coming
<1>3. CASE HasIt(GotOf(p, u), c)
  BY <1>1, <1>3 DEF Coming, HasIt
<1>4. ASSUME NEW i \in DOMAIN remote[u], Pending(p, u, i), Later(remote[u][i], c)
      PROVE  Coming(p, c)'
  <2>1. PICK k \in DOMAIN remote'[u] :
          /\ Later(remote'[u][k], c)
          /\ u = Conversation /\ At(p, "conversation") => k = i
    BY <1>4, RemoteKeeps
  <2>2. CASE u # Conversation
    <3>1. Pending(p, u, k)'
      <4>1. remote'[u][k].id = remote[u][i].id
        BY <1>4, <2>1 DEF Later
      <4> QED BY <1>1, <1>4, <2>2, <4>1 DEF Pending, At
    <3> QED BY <2>1, <3>1 DEF Coming
  <2>3. CASE u = Conversation /\ At(p, "conversation")
    <3>1. Pending(p, u, k)'
      BY <1>1, <1>4, <2>1, <2>3 DEF Pending, At
    <3> QED BY <2>1, <3>1 DEF Coming
  <2>4. CASE u = Conversation /\ At(p, "comments")
    <3>1. pull[p].page = 0
      BY <2>4 DEF OrderInv, PagesInv, At
    <3>2. k \in Nat /\ k > 0
      <4>1. remote'[u] \in Seq(RemoteComments)
        BY RemoteMoves, ListOf
      <4> QED BY <4>1
    <3>3. k > pull'[p].page * PageSize
      <4>1. 0 * PageSize = 0
        BY PullAssumption
      <4> QED BY <1>1, <3>1, <3>2, <4>1
    <3>4. Pending(p, u, k)'
      BY <1>1, <2>4, <3>3 DEF Pending, At
    <3> QED BY <2>1, <3>4 DEF Coming
  <2>5. CASE u = Conversation /\ At(p, "index")
    BY <1>4, <2>5 DEF Pending
  <2> QED BY <2>2, <2>3, <2>4, <2>5 DEF At
<1> QED BY <1>2, <1>3, <1>4

(* A comment that is to come, or has come, with a request has come or is   *)
(* to come with a later one.                                               *)
LEMMA FetchComing ==
  ASSUME PullTypeOK, OrderInv, NEW p \in Pullers, FetchStep(p),
         (pull[p].stage \in {"comments", "conversation", "index"})',
         NEW c \in pull'[p].there,
         At(p, "threads") => \A d \in pull[p].there : HasIt(Everything, d),
         pull[p].stage \in {"comments", "conversation", "index"} => \A d \in pull[p].there : Coming(p, d)
  PROVE  Coming(p, c)'
<1>0. remote' = remote /\ Conversation \in RemoteThreads /\ ReviewThreads \subseteq RemoteThreads
      /\ Conversation \notin ReviewThreads /\ PageSize \in Nat \ {0}
  BY FetchOthers, PullAssumption DEF RemoteThreads
<1>1. CASE Start(p)
  BY <1>1, StartOf
<1>2. CASE FetchThreads(p)
  <2>1. /\ At(p, "threads") /\ pull'[p].stage = "comments"
        /\ pull'[p].there = pull[p].there
        /\ pull'[p].page = 0 /\ pull'[p].got[Conversation] = <<>>
        /\ \A t \in ReviewThreads : pull'[p].got[t] = FirstOf(remote[t])
        /\ pull'[p].more = {t \in ReviewThreads : Len(remote[t]) > PageSize}
    BY <1>2, FetchThreadsOf
  <2>2. PICK d \in Everything : Later(d, c)
    BY <2>1 DEF HasIt
  <2>3. PICK t \in RemoteThreads : d \in ElementsOf(remote[t])
    BY DEF Everything
  <2>4. PICK i \in DOMAIN remote[t] : d = remote[t][i]
    BY <2>3 DEF ElementsOf
  <2>5. i \in 1 .. Len(remote[t]) /\ Len(remote[t]) \in Nat /\ remote[t] \in Seq(RemoteComments)
        /\ Rising(remote[t])
    BY ListOf DEF OrderInv
  <2>6. CASE t = Conversation
    <3>1. i > 0 * PageSize
      BY <1>0, <2>5
    <3>2. Pending(p, t, i)'
      BY <2>1, <2>6, <3>1 DEF Pending, At
    <3> QED BY <1>0, <2>2, <2>4, <3>2 DEF Coming
  <2>7. CASE t # Conversation
    <3> DEFINE page == FirstOf(remote[t])
    <3>1. /\ Len(page) = IF PageSize <= Len(remote[t]) THEN PageSize ELSE Len(remote[t])
          /\ \A k \in 1 .. Len(page) : page[k] = remote[t][k]
          /\ page \in Seq(RemoteComments)
      BY <2>5, FirstOfType
    <3>2. t \in ReviewThreads /\ pull'[p].got[t] = page
      BY <2>1, <2>7 DEF RemoteThreads
    <3> HIDE DEF page
    <3>3. CASE i <= Len(page)
      <4>1. d = page[i] /\ i \in DOMAIN page
        BY <2>4, <2>5, <3>1, <3>3
      <4>2. d \in GotOf(p, t)'
        BY <2>1, <3>2, <4>1 DEF GotOf, ElementsOf
      <4> QED BY <2>2, <4>2 DEF Coming, HasIt
    <3>4. CASE i > Len(page)
      <4>1. Len(page) = PageSize /\ Len(remote[t]) > PageSize /\ PageSize \in 1 .. Len(remote[t])
        BY <1>0, <2>5, <3>1, <3>4
      <4>2. page[Len(page)] = remote[t][PageSize]
        BY <1>0, <3>1, <4>1
      <4>3. remote[t][PageSize].id < remote[t][i].id
        BY <2>5, <3>4, <4>1 DEF Rising
      <4>4. remote[t][i].id > pull'[p].got[t][Len(pull'[p].got[t])].id
        BY <3>2, <4>1, <4>2, <4>3
      <4>5. Pending(p, t, i)'
        BY <1>0, <2>1, <2>7, <3>2, <4>1, <4>4 DEF Pending, At
      <4> QED BY <1>0, <2>2, <2>4, <4>5 DEF Coming
    <3> QED BY <2>5, <3>1, <3>3, <3>4
  <2> QED BY <2>6, <2>7
<1>3. ASSUME NEW t \in ReviewThreads, FetchRemaining(p, t) PROVE Coming(p, c)'
  <2> DEFINE got == pull[p].got[t]
  <2>1. PagesInv(p) /\ pull[p] \in Fetching /\ At(p, "comments") /\ t \in pull[p].more
    BY <1>3, PullShape DEF FetchRemaining, At, OrderInv
  <2>2. Rising(remote[t]) /\ got # <<>> /\ got \in Seq(RemoteComments)
    BY <1>0, <2>1 DEF OrderInv, PagesInv, Fetching
  <2>3. PICK last \in 0 .. Len(remote[t]), page \in Seq(RemoteComments), new \in Fetching :
          /\ \A i \in 1 .. Len(remote[t]) :
                remote[t][i].id <= pull[p].got[t][Len(pull[p].got[t])].id <=> i <= last
          /\ Len(page) = IF PageSize <= Len(remote[t]) - last THEN PageSize
                         ELSE Len(remote[t]) - last
          /\ \A i \in 1 .. Len(page) : page[i] = remote[t][last + i]
          /\ pull' = [pull EXCEPT ![p] = new] /\ pull'[p] = new
          /\ new.stage = "comments" /\ new.there = pull[p].there /\ new.page = pull[p].page
          /\ new.got[t] = pull[p].got[t] \o page
          /\ \A u \in RemoteThreads : u # t => new.got[u] = pull[p].got[u]
          /\ new.more = IF Len(remote[t]) - last > PageSize THEN pull[p].more
                        ELSE pull[p].more \ {t}
    BY <1>3, <2>2, FetchRemainingOf
  <2>4. ElementsOf(got \o page) = ElementsOf(got) \cup ElementsOf(page)
    BY <2>2, JoinedOf
  <2>5. \A u \in RemoteThreads : GotOf(p, u) \subseteq GotOf(p, u)'
    BY <2>1, <2>3, <2>4 DEF GotOf, At
  <2>6. PICK u \in RemoteThreads :
          \/ HasIt(GotOf(p, u), c)
          \/ \E i \in DOMAIN remote[u] :
                Pending(p, u, i) /\ Later(remote[u][i], c)
    BY <2>1, <2>3 DEF Coming, At
  <2>7. CASE HasIt(GotOf(p, u), c)
    BY <2>5, <2>7 DEF Coming, HasIt
  <2>8. ASSUME NEW i \in DOMAIN remote[u], Pending(p, u, i), Later(remote[u][i], c)
        PROVE  Coming(p, c)'
    <3>1. CASE u # t
      <4>1. Pending(p, u, i)'
        BY <1>0, <2>1, <2>3, <2>8, <3>1 DEF Pending, At
      <4> QED BY <1>0, <2>8, <4>1 DEF Coming
    <3>2. CASE u = t
      <4>1. t # Conversation /\ remote[t][i].id > got[Len(got)].id
        BY <1>0, <2>8, <3>2 DEF Pending
      <4>2. i \in 1 .. Len(remote[t]) /\ Len(remote[t]) \in Nat /\ remote[t][i].id \in Nat
        BY <3>2, <2>8, ListOf
      <4>3. got[Len(got)].id \in Nat
        <5>1. Len(got) \in 1 .. Len(got)
          BY <2>2
        <5>2. got[Len(got)] \in RemoteComments
          BY <2>2, <5>1
        <5> QED BY <5>2 DEF RemoteComments
      <4>4. i > last
        <5> DEFINE x == remote[t][i].id
                   y == got[Len(got)].id
        <5>0. x > y /\ x \in Nat /\ y \in Nat
          BY <4>1, <4>2, <4>3
        <5>1. ~(x <= y)
          <6> HIDE DEF x, y
          <6> QED BY <5>0
        <5>2. ~(i <= last)
          BY <2>3, <4>2, <5>1
        <5> QED BY <2>3, <4>2, <5>2
      <4> DEFINE k == i - last
      <4>5. k \in Nat /\ k > 0 /\ last + k = i /\ k <= Len(remote[t]) - last
        BY <2>3, <4>2, <4>4
      <4> HIDE DEF k
      <4>6. CASE k <= Len(page)
        <5>1. k \in DOMAIN page /\ page[k] = remote[t][i]
          BY SMTT(30), <2>3, <4>5, <4>6
        <5>2. remote[t][i] \in ElementsOf(got \o page)
          BY <2>4, <5>1 DEF ElementsOf
        <5>3. GotOf(p, t)' = ElementsOf(got \o page)
          BY <2>3 DEF GotOf
        <5>4. remote[t][i] \in GotOf(p, t)'
          BY <5>2, <5>3
        <5> QED BY <2>8, <3>2, <5>4 DEF Coming, HasIt
      <4>7. CASE k > Len(page)
        <5>1. Len(page) = PageSize /\ Len(remote[t]) - last > PageSize
          BY <1>0, <2>3, <4>2, <4>5, <4>7
        <5>2. page[PageSize] = remote[t][last + PageSize] /\ last + PageSize \in 1 .. Len(remote[t])
              /\ last + PageSize < i
          BY <1>0, <2>3, <4>2, <4>5, <4>7, <5>1
        <5>3. remote[t][last + PageSize].id < remote[t][i].id
          BY <2>2, <2>8, <3>2, <4>2, <5>2, ListOf DEF Rising
        <5>4. (got \o page)[Len(got \o page)] = page[PageSize]
          BY <1>0, <2>2, <5>1
        <5>5. remote[t][i].id > new.got[t][Len(new.got[t])].id
          BY <2>3, <5>2, <5>3, <5>4
        <5>6. Pending(p, t, i)'
          BY <1>0, <2>1, <2>3, <4>1, <5>1, <5>5 DEF Pending, At
        <5> QED BY <1>0, <2>8, <3>2, <5>6 DEF Coming
      <4> QED BY <2>3, <4>5, <4>6, <4>7
    <3> QED BY <3>1, <3>2
  <2> QED BY <2>6, <2>7, <2>8
<1>4. CASE CheckCounts(p)
  <2>1. /\ pull[p] \in Fetching /\ At(p, "comments") /\ pull[p].more = {}
        /\ pull'[p] = [pull[p] EXCEPT !.stage = "conversation"]
    BY <1>4, CheckCountsOf DEF Resting
  <2>2. /\ pull'[p].stage = "conversation" /\ pull'[p].got = pull[p].got
        /\ pull'[p].page = pull[p].page /\ pull'[p].there = pull[p].there
    BY <2>1 DEF Fetching
  <2>3. \A u \in RemoteThreads : GotOf(p, u)' = GotOf(p, u)
    BY <2>1, <2>2 DEF At, GotOf
  <2>4. \A u \in RemoteThreads : \A i \in DOMAIN remote[u] : Pending(p, u, i) => Pending(p, u, i)'
    BY <1>0, <2>1, <2>2 DEF Pending, At
  <2> QED BY <1>0, <2>1, <2>2, <2>3, <2>4 DEF Coming, HasIt, At
<1>5. CASE FetchConversation(p)
  <2> DEFINE got == pull[p].got[Conversation]
             all == remote[Conversation]
             before == pull[p].page * PageSize
  <2>1. pull[p] \in Fetching /\ At(p, "conversation") /\ before \in Nat
    BY <1>5, FetchConversationOf
  <2>2. PICK page \in Seq(RemoteComments), new \in Fetching, rest \in Nat :
          /\ rest = IF pull[p].page * PageSize <= Len(remote[Conversation])
                    THEN Len(remote[Conversation]) - pull[p].page * PageSize ELSE 0
          /\ Len(page) = IF PageSize <= rest THEN PageSize ELSE rest
          /\ \A i \in 1 .. Len(page) : page[i] = remote[Conversation][pull[p].page * PageSize + i]
          /\ pull' = [pull EXCEPT ![p] = new] /\ pull'[p] = new
          /\ new.stage = IF rest > PageSize THEN "conversation" ELSE "index"
          /\ new.there = pull[p].there /\ new.page = pull[p].page + 1 /\ new.more = pull[p].more
          /\ new.got[Conversation] = pull[p].got[Conversation] \o page
          /\ \A u \in RemoteThreads : u # Conversation => new.got[u] = pull[p].got[u]
    BY <1>5, FetchConversationOf
  <2>3. got \in Seq(RemoteComments) /\ all \in Seq(RemoteComments) /\ Len(all) \in Nat
    BY <1>0, <2>1, ListOf DEF Fetching
  <2>4. (pull[p].page + 1) * PageSize = before + PageSize
    BY <1>0, <2>1 DEF Fetching
  <2>5. ElementsOf(got \o page) = ElementsOf(got) \cup ElementsOf(page)
    BY <2>3, JoinedOf
  <2>6. \A u \in RemoteThreads : GotOf(p, u) \subseteq GotOf(p, u)'
    BY <2>1, <2>2, <2>5 DEF GotOf, At
  <2> HIDE DEF before, all, got
  <2>7. PICK u \in RemoteThreads :
          \/ HasIt(GotOf(p, u), c)
          \/ \E i \in DOMAIN remote[u] :
                Pending(p, u, i) /\ Later(remote[u][i], c)
    BY <2>1, <2>2 DEF Coming, At
  <2>8. CASE HasIt(GotOf(p, u), c)
    BY <2>6, <2>8 DEF Coming, HasIt
  <2>9. ASSUME NEW i \in DOMAIN remote[u], Pending(p, u, i), Later(remote[u][i], c)
        PROVE  Coming(p, c)'
    <3>1. u = Conversation /\ i > before
      BY <2>1, <2>9 DEF Pending, At, before
    <3>2. i \in 1 .. Len(all)
      BY <2>3, <2>9, <3>1 DEF all
    <3> DEFINE k == i - before
    <3>3. k \in Nat /\ k > 0 /\ before + k = i /\ before < Len(all) /\ k <= Len(all) - before
      BY <2>1, <2>3, <3>1, <3>2
    <3>6. rest = IF before <= Len(all) THEN Len(all) - before ELSE 0
      BY <2>2 DEF before, all
    <3>7. rest = Len(all) - before /\ k <= rest
      BY <2>1, <2>3, <3>3, <3>6
    <3> HIDE DEF k
    <3>4. CASE k <= Len(page)
      <4>1. k \in DOMAIN page /\ page[k] = remote[Conversation][i]
        <5>1. k \in 1 .. Len(page)
          BY <3>3, <3>4
        <5> QED BY <2>2, <3>3, <5>1 DEF before
      <4>4. remote[u][i] \in ElementsOf(got \o page)
        BY <2>5, <3>1, <4>1 DEF ElementsOf
      <4>5. GotOf(p, Conversation)' = ElementsOf(got \o page)
        BY <2>2 DEF GotOf, got
      <4>2. remote[u][i] \in GotOf(p, u)'
        BY <3>1, <4>4, <4>5
      <4> QED BY <2>9, <4>2 DEF Coming, HasIt
    <3>5. CASE k > Len(page)
      <4>1. rest > PageSize /\ k > PageSize
        BY <1>0, <2>2, <3>3, <3>5, <3>7
      <4>2. i > pull'[p].page * PageSize /\ pull'[p].stage = "conversation"
        BY <1>0, <2>1, <2>2, <2>4, <3>3, <4>1
      <4>3. Pending(p, u, i)'
        BY <3>1, <4>2 DEF Pending, At
      <4> QED BY <1>0, <2>9, <4>3 DEF Coming
    <3>8. Len(page) \in Nat
      BY <2>2
    <3> QED BY <3>3, <3>4, <3>5, <3>8
  <2> QED BY <2>7, <2>8, <2>9
<1> QED BY <1>1, <1>2, <1>3, <1>4, <1>5 DEF FetchStep, Fetch


-----------------------------------------------------------------------------
(* What was brought stays, and is not written over by what is older.       *)

LEMMA OtherLeft ==
  ASSUME CopiesInv, ~shared, NEW p \in Pullers, NEW q \in Pullers, NEW entry \in LeftOf(p), Running(q)
  PROVE  p = q
<1>1. Running(p)
  BY DEF LeftOf, At, Running
<1> QED BY <1>1 DEF CopiesInv, SharedInv

LEMMA CoversStay ==
  ASSUME ImportInv, CopiesInv, OriginInv, ~shared, [Next]_allVars, NEW p \in Pullers,
         NEW entry \in LeftOf(p), entry \in LeftOf(p)', CoversEdits(entry)
  PROVE  CoversEdits(entry)'
<1> DEFINE f == entry.file
<1>1. f # Nobody => f \in Numbered /\ f # NewFile /\ f \notin Groups
  BY NewFileOf DEF ImportInv, ImportTypeOK, NumberInv, CopyOf
<1>2. Nobody \notin DOMAIN threads'
  <2>1. ImportInv'
    BY NextImport
  <2> QED BY <2>1, SharedAssumption DEF ImportInv, ImportTypeOK, DirTypeOK, Numbered
<1> HIDE DEF f
<1> SUFFICES ASSUME f \in DOMAIN threads', NEW k \in threads'[f].comments, k.of \in RemoteNames
             PROVE  \E m \in entry.thread.comments : m.of = k.of /\ k.updated <= m.updated
  BY DEF CoversEdits, f
<1>3. CASE f \in DOMAIN threads /\ k \in threads[f].comments
  BY <1>3 DEF CoversEdits, f
<1>4. CASE /\ f \in DOMAIN threads
           /\ threads'[f].comments = threads[f].comments \cup {Comment(Local)} /\ Local \in LocalNames
  BY <1>3, <1>4, NamesDiffer
<1>5. CASE f \in Groups \cup {NewFile}
  BY <1>1, <1>2, <1>5
<1>6. ASSUME NEW q \in Pullers, NEW e \in LeftOf(q), Write(q), e = Head(pull[q].left),
             e.file = Nobody => f = NewFile, e.file # Nobody => f = e.file
      PROVE  FALSE
  <2>1. p = q
    BY <1>6, MergeOf, OtherLeft DEF MergeStep
  <2>2. e.file = f /\ e.file # Nobody
    BY <1>1, <1>2, <1>6
  <2>3. e.thread.remote = entry.thread.remote
    BY <2>1, <2>2 DEF ImportInv, NumberInv, SameThread, f
  <2> QED BY <1>6, <2>1, <2>3, OthersLeft
<1> QED BY <1>3, <1>4, <1>5, <1>6, FileFrom

LEMMA CopiesStay ==
  ASSUME ImportInv, CopiesInv, OriginInv, ~shared, [Next]_allVars, NEW c \in RemoteComments,
         \A p \in Pullers : \A entry \in LeftOf(p) : CoversEdits(entry),
         HasCopy(AllComments, c)
  PROVE  \/ HasCopy(AllComments, c)'
         \/ \E f : /\ RemoveStep(f)
                  /\ \E k \in threads[f].comments : k.of = Names(c) /\ c.updated <= k.updated
<1>1. DirTypeOK /\ PullTypeOK /\ GroupsUnlinked /\ GroupsPlain
  BY UnlinkedOf DEF ImportInv, ImportTypeOK
<1>2. PICK k \in AllComments : k.of = Names(c) /\ c.updated <= k.updated
  BY DEF HasCopy
<1>3. PICK f \in DOMAIN threads : k \in threads[f].comments
  BY DEF AllComments
<1>4. Names(c) \in RemoteNames
  BY NamesDiffer
<1>5. CASE f \notin DOMAIN threads'
  <2>1. PICK g : RemoveStep(g)
    BY <1>5, FilesStay
  <2>2. DOMAIN threads' = DOMAIN threads \ {g}
    BY <1>1, <2>1, RemoveThreadOf DEF RemoveStep
  <2>3. g = f
    BY <1>5, <2>2
  <2> QED BY <1>2, <1>3, <2>1, <2>3
<1>6. ASSUME f \in DOMAIN threads', NEW m \in threads'[f].comments, m.of = Names(c), c.updated <= m.updated
      PROVE  HasCopy(AllComments, c)'
  <2>1. m \in AllComments'
    BY <1>6 DEF AllComments
  <2> QED BY <1>6, <2>1 DEF HasCopy, Names
<1>7. CASE f \in DOMAIN threads' /\ k \in threads'[f].comments
  BY <1>2, <1>6, <1>7
<1>8. CASE f \in Groups \cup {NewFile}
  <2>1. threads[f].remote = Nobody
    BY <1>1, <1>3, <1>8, NewFileOf DEF GroupsUnlinked
  <2>2. k.of \in NamesIn(threads[f])
    BY <1>3 DEF NamesIn
  <2> QED BY <1>2, <1>4, <2>1, <2>2 DEF OriginInv
<1>9. ASSUME f \in DOMAIN threads',
             NEW p \in Pullers, NEW entry \in LeftOf(p), threads'[f].comments = entry.thread.comments,
             entry.file = Nobody => f = NewFile, entry.file # Nobody => f = entry.file
      PROVE  HasCopy(AllComments, c)'
  <2>1. f # NewFile
    BY <1>1, NewFileOf
  <2>2. PICK m \in entry.thread.comments : m.of = k.of /\ k.updated <= m.updated
    BY <1>2, <1>3, <1>4, <1>9, <2>1 DEF CoversEdits
  <2>3. entry \in Entries
    BY <1>1, PullShape
  <2>4. k \in Comments /\ m \in Comments
    BY <1>1, <1>3, <2>3 DEF DirTypeOK, ThreadRecords, Entries
  <2>5. c.updated <= m.updated
    <3>1. k.updated \in Nat /\ m.updated \in Nat
      BY <2>4 DEF Comments
    <3>2. c.updated \in Nat
      BY DEF RemoteComments
    <3> QED BY <1>2, <2>2, <3>1, <3>2
  <2> QED BY <1>2, <1>6, <1>9, <2>2, <2>5
<1> QED BY <1>3, <1>5, <1>7, <1>8, <1>9, FileFrom

(* An entry is no older than the file that it was made from. *)
LEMMA EntryCovers ==
  ASSUME DirTypeOK, GroupsUnlinked, NEW t \in RemoteThreads, NEW got \in Seq(RemoteComments),
         \A f \in DOMAIN threads : \A comment \in threads[f].comments : Upto(comment, ElementsOf(got))
  PROVE  CoversEdits(Entry(t, got))
<1> DEFINE entry == Entry(t, got)
           file == entry.file
<1> SUFFICES ASSUME file \in DOMAIN threads PROVE CoversEdits(entry)
  BY DEF CoversEdits
<1>1. entry.thread = MergeThread(threads[file], got)
  BY EntryOf, NewFileOf DEF GroupsUnlinked
<1>2. file \in DOMAIN threads /\ threads[file] \in ThreadRecords
  BY DEF DirTypeOK
<1> HIDE DEF file
<1>3. ASSUME NEW k \in threads[file].comments
      PROVE  \E m \in MergeThread(threads[file], got).comments : m.of = k.of /\ k.updated <= m.updated
  <2>1. PICK m \in MergeThread(threads[file], got).comments :
          \/ m = k /\ \A c \in Mapped(got) : m.of # Names(c)
          \/ \E c \in Mapped(got) : k.of = Names(c) /\ m = Updated(k, c)
    BY <1>2, MergeThreadOf
  <2>2. k \in Comments /\ Mapped(got) \subseteq RemoteComments
    BY <1>2, MappedType DEF ThreadRecords
  <2>3. CASE m = k
    BY <2>2, <2>3 DEF Comments
  <2>4. ASSUME NEW c \in Mapped(got), k.of = Names(c), m = Updated(k, c)
        PROVE  m.of = k.of /\ k.updated <= m.updated
    <3>1. m.of = k.of /\ m.updated = c.updated
      BY <2>2, <2>4, UpdatedType
    <3>2. k.updated <= c.updated
      BY <1>2, <2>4, MappedType DEF Upto
    <3> QED BY <3>1, <3>2
  <2> QED BY <2>1, <2>3, <2>4
<1> QED BY <1>1, <1>3 DEF CoversEdits, file

(* An entry has all that was fetched for it. *)
LEMMA EntryBrings ==
  ASSUME DirTypeOK, GroupsUnlinked, NEW t \in RemoteThreads, NEW got \in Seq(RemoteComments),
         \A c, d \in ElementsOf(got) : c.id = d.id => c = d,
         NEW d \in Mapped(got)
  PROVE  \E m \in Entry(t, got).thread.comments : m.of = Names(d) /\ m.updated = d.updated
<1> DEFINE entry == Entry(t, got)
           file == entry.file
<1>1. \/ entry.thread = MapThread(t, got)
      \/ file \in Numbered \cap DOMAIN threads /\ entry.thread = MergeThread(threads[file], got)
  BY EntryOf DEF GroupsUnlinked
<1>2. Mapped(got) \subseteq RemoteComments
  BY MappedType
<1>3. Pulled(d).of = Names(d) /\ Pulled(d).updated = d.updated
  BY <1>2, PulledType
<1> HIDE DEF entry, file
<1>4. CASE entry.thread = MapThread(t, got)
  <2>1. Pulled(d) \in entry.thread.comments
    BY <1>4, MapThreadOf
  <2> QED BY <1>3, <2>1 DEF entry
<1>5. CASE file \in Numbered \cap DOMAIN threads /\ entry.thread = MergeThread(threads[file], got)
  <2> DEFINE thread == threads[file]
  <2>1. thread \in ThreadRecords
    BY <1>5 DEF DirTypeOK
  <2> HIDE DEF thread
  <2>2. entry.thread = MergeThread(thread, got)
    BY <1>5 DEF thread
  <2>3. CASE Names(d) \notin NamesIn(thread)
    <3>1. Pulled(d) \in entry.thread.comments
      BY <2>1, <2>2, <2>3, MergeThreadOf
    <3> QED BY <1>3, <3>1 DEF entry
  <2>4. CASE Names(d) \in NamesIn(thread)
    <3>1. PICK k \in thread.comments : k.of = Names(d)
      BY <2>4 DEF NamesIn
    <3>2. PICK m \in MergeThread(thread, got).comments :
            \/ m = k /\ \A c \in Mapped(got) : m.of # Names(c)
            \/ \E c \in Mapped(got) : k.of = Names(c) /\ m = Updated(k, c)
      BY <2>1, MergeThreadOf
    <3>3. PICK c \in Mapped(got) : k.of = Names(c) /\ m = Updated(k, c)
      BY <3>1, <3>2
    <3>4. c = d
      <4>1. Names(c) = Names(d) /\ c \in RemoteComments /\ d \in RemoteComments
        BY <1>2, <3>1, <3>3
      <4>2. c.id = d.id
        BY <4>1, NamesDiffer
      <4> QED BY <4>2, MappedType
    <3>5. k \in Comments
      BY <2>1 DEF ThreadRecords
    <3>6. m.of = Names(d) /\ m.updated = d.updated
      BY <1>2, <3>1, <3>3, <3>4, <3>5, UpdatedType
    <3> QED BY <2>2, <3>2, <3>6 DEF entry
  <2> QED BY <2>3, <2>4
<1> QED BY <1>1, <1>4, <1>5


-----------------------------------------------------------------------------
(* Each stage hands over to the next all that it was to bring.             *)

LEMMA FetchStages ==
  ASSUME PullTypeOK, NEW p \in Pullers, FetchStep(p)
  PROVE  /\ pull'[p].stage \notin {"lock", "write", "done"}
         /\ pull'[p].stage = "threads" => Start(p)
<1>1. CASE Start(p)
  BY <1>1, StartOf
<1>2. CASE FetchThreads(p)
  BY <1>2, FetchThreadsOf
<1>3. ASSUME NEW t \in ReviewThreads, FetchRemaining(p, t) PROVE pull'[p].stage = "comments"
  <2>1. At(p, "comments") /\ pull[p] \in Fetching
    BY <1>3, PullShape DEF FetchRemaining, At
  <2> QED BY <1>3, <2>1 DEF FetchRemaining, PullTypeOK, Fetching, At
<1>4. CASE CheckCounts(p)
  <2>1. pull'[p] = Resting \/ pull'[p].stage = "conversation"
    BY <1>4, CheckCountsOf
  <2> QED BY <2>1 DEF Resting
<1>5. CASE FetchConversation(p)
  <2>1. At(p, "conversation") /\ pull[p] \in Fetching
    BY <1>5, FetchConversationOf
  <2> QED BY <1>5, <2>1 DEF FetchConversation, PullTypeOK, Fetching, At
<1> QED BY <1>1, <1>2, <1>3, <1>4, <1>5 DEF FetchStep, Fetch

(* A step that is not p's, nor the remote side's. *)
LEMMA BesideStep ==
  ASSUME ImportInv, [Next]_allVars, NEW p \in Pullers
  PROVE  \/ pull'[p] = pull[p] /\ remote' = remote
         \/ \E t \in RemoteThreads : RemoteStep(t)
         \/ \E f : RemoveStep(f)
         \/ FetchStep(p)
         \/ MergeStep(p)
<1>1. PullTypeOK
  BY DEF ImportInv, ImportTypeOK
<1>2. ASSUME NEW q \in Pullers, q # p, FetchStep(q) \/ MergeStep(q)
      PROVE  pull'[p] = pull[p] /\ remote' = remote
  BY <1>1, <1>2, FetchOthers, MergeOf
<1> QED BY <1>2, StepCases DEF pullVars

LEMMA ThreadsBrought ==
  ASSUME ImportInv, BroughtInv, [Next]_allVars, NEW p \in Pullers, At(p, "threads")', NEW c \in pull'[p].there
  PROVE  HasIt(Everything, c)'
<1>1. PullTypeOK /\ PullTypeOK' /\ inputs \in Nat
  BY NextImport DEF ImportInv, ImportTypeOK
<1>2. CASE pull'[p] = pull[p] /\ remote' = remote
  BY <1>2 DEF BroughtInv, At, HasIt, Everything
<1>3. ASSUME NEW t \in RemoteThreads, RemoteStep(t) PROVE HasIt(Everything, c)'
  <2>1. At(p, "threads") /\ c \in pull[p].there
    BY <1>1, <1>3, RemoteLeaves DEF At
  <2>2. PICK d \in Everything : Later(d, c)
    BY <2>1 DEF BroughtInv, HasIt
  <2>3. PICK u \in RemoteThreads : d \in ElementsOf(remote[u])
    BY DEF Everything
  <2>4. PICK j \in DOMAIN remote[u] : d = remote[u][j]
    BY <2>3 DEF ElementsOf
  <2>5. PICK k \in DOMAIN remote'[u] : Later(remote'[u][k], c)
    BY <1>1, <1>3, <2>2, <2>4, RemoteKeeps
  <2>6. remote'[u][k] \in Everything'
    BY DEF Everything, ElementsOf
  <2> QED BY <2>5, <2>6 DEF HasIt
<1>4. CASE FetchStep(p)
  <2>1. Start(p)
    BY <1>1, <1>4, FetchStages DEF At
  <2>2. c \in Everything /\ remote' = remote
    BY <1>1, <1>4, <2>1, StartOf, FetchOthers
  <2>3. c \in RemoteComments
    BY <1>1, <2>2, EverythingType
  <2>4. c \in Everything' /\ Later(c, c)
    BY <2>2, <2>3, LaterSelf DEF Everything
  <2> QED BY <2>4 DEF HasIt
<1>5. CASE MergeStep(p)
  BY <1>5, MergeOf DEF At
<1>6. CASE \E f : RemoveStep(f)
  <2>1. At(p, "threads") /\ c \in pull[p].there /\ remote' = remote
    BY <1>1, <1>6, RemoveLeaves DEF At
  <2> QED BY <2>1 DEF BroughtInv, HasIt, Everything
<1> QED BY <1>2, <1>3, <1>4, <1>5, <1>6, BesideStep

LEMMA FetchBrought ==
  ASSUME ImportInv, OrderInv, BroughtInv, [Next]_allVars, NEW p \in Pullers,
         (pull[p].stage \in {"comments", "conversation", "index"})', NEW c \in pull'[p].there
  PROVE  Coming(p, c)'
<1>1. PullTypeOK /\ inputs \in Nat
  BY DEF ImportInv, ImportTypeOK
<1>2. CASE pull'[p] = pull[p] /\ remote' = remote
  <2>1. Coming(p, c)
    BY <1>2 DEF BroughtInv
  <2>2. \A t \in RemoteThreads : GotOf(p, t)' = GotOf(p, t)
    BY <1>2 DEF GotOf
  <2>3. \A t \in RemoteThreads : \A i \in DOMAIN remote[t] : Pending(p, t, i)' <=> Pending(p, t, i)
    BY <1>2 DEF Pending, At
  <2> QED BY <1>2, <2>1, <2>2, <2>3 DEF Coming, HasIt
<1>3. ASSUME NEW t \in RemoteThreads, RemoteStep(t) PROVE Coming(p, c)'
  <2>1. pull[p].stage \in {"comments", "conversation", "index"} /\ c \in pull[p].there
    BY <1>1, <1>3, RemoteLeaves
  <2>2. Coming(p, c)
    BY <2>1 DEF BroughtInv
  <2> QED BY <1>1, <1>3, <2>1, <2>2, RemoteComing
<1>4. CASE FetchStep(p)
  <2>1. At(p, "threads") => \A d \in pull[p].there : HasIt(Everything, d)
    BY DEF BroughtInv
  <2>2. pull[p].stage \in {"comments", "conversation", "index"} => \A d \in pull[p].there : Coming(p, d)
    BY DEF BroughtInv
  <2> QED BY <1>1, <1>4, <2>1, <2>2, FetchComing
<1>5. CASE MergeStep(p)
  BY <1>5, MergeOf
<1>6. ASSUME NEW f, RemoveStep(f) PROVE Coming(p, c)'
  <2>1. /\ pull[p].stage \in {"comments", "conversation", "index"} /\ c \in pull[p].there
        /\ remote' = remote /\ pull'[p].stage = pull[p].stage
        /\ \A t \in RemoteThreads : GotOf(p, t)' = GotOf(p, t)
        /\ pull'[p].got = pull[p].got /\ pull'[p].page = pull[p].page /\ pull'[p].more = pull[p].more
    BY <1>1, <1>6, RemoveLeaves
  <2>2. Coming(p, c)
    BY <2>1 DEF BroughtInv
  <2>3. \A t \in RemoteThreads : \A i \in DOMAIN remote[t] : Pending(p, t, i)' <=> Pending(p, t, i)
    BY <2>1 DEF Pending, At
  <2> QED BY <2>1, <2>2, <2>3 DEF Coming, HasIt
<1> QED BY <1>2, <1>3, <1>4, <1>5, <1>6, BesideStep

LEMMA CoversBrought ==
  ASSUME ImportInv, CopiesInv, OriginInv, EditInv, BroughtInv, ~shared, [Next]_allVars,
         NEW p \in Pullers, NEW entry \in LeftOf(p)'
  PROVE  CoversEdits(entry)'
<1>1. PullTypeOK /\ DirTypeOK /\ GroupsUnlinked /\ GroupsPlain
  BY UnlinkedOf DEF ImportInv, ImportTypeOK
<1>2. CASE entry \in LeftOf(p)
  <2>1. CoversEdits(entry)
    BY <1>2 DEF BroughtInv
  <2> QED BY <1>2, <2>1, CoversStay
<1>3. CASE /\ Index(p) /\ pull[p] \in Fetching /\ pull[p].stage = "index"
           /\ \E t \in RemoteThreads : entry = Entry(t, pull[p].got[t])
  <2>1. PICK t \in RemoteThreads : entry = Entry(t, pull[p].got[t])
    BY <1>3
  <2> DEFINE got == pull[p].got[t]
  <2>2. got \in Seq(RemoteComments) /\ ElementsOf(got) \subseteq Got(p)
    BY <1>3 DEF Fetching, Got
  <2>3. entry = Entry(t, got)
    BY <2>1
  <2> HIDE DEF got
  <2>4. \A f \in DOMAIN threads : \A comment \in threads[f].comments : Upto(comment, ElementsOf(got))
    BY <2>2 DEF EditInv, Upto
  <2>5. CoversEdits(entry)
    BY <1>1, <2>2, <2>3, <2>4, EntryCovers
  <2>6. threads' = threads
    BY <1>3 DEF Index, dirVars, directory
  <2> QED BY <2>5, <2>6 DEF CoversEdits
<1> QED BY <1>2, <1>3, LeftFrom

(* Before it looks for its files, a pull has fetched all that it is to     *)
(* bring, and then has it in what it will write.                           *)
LEMMA IndexBrings ==
  ASSUME ImportInv, OrderInv, OriginInv, BroughtInv, NEW p \in Pullers, Index(p), NEW c \in pull[p].there, HasBody(c)
  PROVE  /\ pull'[p].stage = "lock"
         /\ \E entry \in LeftOf(p)' : HasCopy(entry.thread.comments, c)
<1>1. PullTypeOK /\ DirTypeOK /\ GroupsUnlinked /\ GroupsPlain
  BY UnlinkedOf DEF ImportInv, ImportTypeOK
<1>2. pull[p] \in Fetching /\ pull[p].stage = "index"
  BY <1>1, IndexOf
<1>3. PICK t \in RemoteThreads :
        \/ HasIt(GotOf(p, t), c)
        \/ \E i \in DOMAIN remote[t] : Pending(p, t, i)
  BY <1>2 DEF BroughtInv, Coming
<1>4. HasIt(GotOf(p, t), c)
  BY <1>2, <1>3 DEF Pending, At
<1> DEFINE got == pull[p].got[t]
<1>5. got \in Seq(RemoteComments) /\ ElementsOf(got) = GotOf(p, t)
  BY <1>2 DEF Fetching, GotOf
<1>6. PICK d \in ElementsOf(got) : Later(d, c)
  BY <1>4, <1>5 DEF HasIt
<1>7. d \in Mapped(got) /\ c.updated <= d.updated /\ d.id = c.id
  <2>1. c \in RemoteComments /\ d \in RemoteComments
    BY <1>1, <1>5, <1>6, ElementsType, PullShape
  <2> QED BY <1>6, <2>1, LaterOf DEF Mapped
<1>8. PICK new \in Waiting \cup Writing :
        /\ pull' = [pull EXCEPT ![p] = new]
        /\ \A u \in RemoteThreads : Mapped(pull[p].got[u]) # {} => new.stage = "lock"
        /\ \/ new \in Waiting
           \/ /\ new \in Writing /\ new.stage = "lock"
              /\ \A u \in RemoteThreads : Mapped(pull[p].got[u]) # {} =>
                    \E i \in DOMAIN new.left : new.left[i] = Entry(u, pull[p].got[u])
  BY <1>1, IndexOf
<1>9. pull'[p] = new /\ new.stage = "lock"
  BY <1>1, <1>7, <1>8 DEF PullTypeOK
<1>10. PICK i \in DOMAIN new.left : new.left[i] = Entry(t, got)
  <2>1. new \notin Waiting
    BY <1>9 DEF Waiting
  <2> QED BY <1>7, <1>8, <2>1
<1>11. Entry(t, got) \in LeftOf(p)'
  BY <1>9, <1>10 DEF LeftOf, At
<1> HIDE DEF got
<1>12. \A x, y \in ElementsOf(got) : x.id = y.id => x = y
  BY <1>1, <1>5, OneRemote
<1>13. PICK m \in Entry(t, got).thread.comments : m.of = Names(d) /\ m.updated = d.updated
  BY <1>1, <1>5, <1>7, <1>12, EntryBrings
<1>14. HasCopy(Entry(t, got).thread.comments, c)
  BY <1>7, <1>13 DEF HasCopy, Names
<1> QED BY <1>9, <1>11, <1>14

LEMMA HeadOrLeft ==
  ASSUME ImportInv, NEW p \in Pullers, Write(p), NEW entry \in LeftOf(p)
  PROVE  entry = Head(pull[p].left) \/ entry \in LeftOf(p)'
<1>1. pull[p] \in Writing /\ pull[p].left # <<>> /\ pull'[p].stage = "write"
      /\ pull' = [pull EXCEPT ![p].left = Tail(@),
                              ![p].number = IF Head(pull[p].left).file = Nobody THEN @ + 1 ELSE @]
  <2>1. PICK e \in LeftOf(p), file \in Numbered \cup {NewFile} :
          /\ pull[p] \in Writing /\ pull[p].left # <<>> /\ e = Head(pull[p].left)
          /\ pull' = [pull EXCEPT ![p].left = Tail(@),
                                  ![p].number = IF e.file = Nobody THEN @ + 1 ELSE @]
          /\ pull'[p].stage = "write"
    BY WriteOf
  <2> QED BY <2>1
<1>2. pull'[p].left = Tail(pull[p].left)
  BY <1>1 DEF Writing, ImportInv, ImportTypeOK, PullTypeOK
<1>3. PICK i \in DOMAIN pull[p].left : entry = pull[p].left[i]
  BY DEF LeftOf
<1> DEFINE left == pull[p].left
<1>4. left \in Seq(Entries) /\ left # <<>>
  BY <1>1 DEF Writing
<1> HIDE DEF left
<1>5. i \in 1 .. Len(left) /\ Len(left) \in Nat
  BY <1>3, <1>4 DEF left
<1>6. CASE i = 1
  BY <1>3, <1>4, <1>6 DEF left
<1>7. CASE i # 1
  <2>1. i - 1 \in DOMAIN Tail(left) /\ Tail(left)[i - 1] = left[i]
    BY <1>4, <1>5, <1>7
  <2> QED BY <1>1, <1>2, <1>3, <2>1 DEF LeftOf, At, left
<1> QED BY <1>6, <1>7

(* PulledAll, in the words of the other conjuncts. *)
LEMMA DoneHas ==
  PulledAll <=> (~shared => \A p \in Pullers : At(p, "done") =>
                    \A c \in pull[p].there : HasBody(c) => HasCopy(AllComments, c))
<1>1. \A a, b : a >= b <=> b <= a
  OBVIOUS
<1> QED BY <1>1 DEF PulledAll, HasCopy, Names


LEMMA WriteBrought ==
  ASSUME ImportInv, CopiesInv, OrderInv, OriginInv, BroughtInv, ~shared, [Next]_allVars,
         NEW p \in Pullers, At(p, "lock")' \/ At(p, "write")', NEW c \in pull'[p].there, HasBody(c)
  PROVE  \/ HasCopy(AllComments, c)'
         \/ \E entry \in LeftOf(p)' : HasCopy(entry.thread.comments, c)
<1>1. PullTypeOK /\ inputs \in Nat
  BY DEF ImportInv, ImportTypeOK
<1>2. ASSUME At(p, "lock") \/ At(p, "write"), c \in pull[p].there,
             \A entry \in LeftOf(p) : HasCopy(entry.thread.comments, c) =>
                \/ entry \in LeftOf(p)'
                \/ HasCopy(AllComments, c)'
      PROVE  \/ HasCopy(AllComments, c)'
             \/ \E entry \in LeftOf(p)' : HasCopy(entry.thread.comments, c)
  <2>1. \/ HasCopy(AllComments, c)
        \/ \E entry \in LeftOf(p) : HasCopy(entry.thread.comments, c)
    BY <1>2 DEF BroughtInv
  <2>2. CASE HasCopy(AllComments, c)
    <3>1. c \in RemoteComments
      BY <1>1, <1>2, PullShape
    <3>2. \A q \in Pullers : \A entry \in LeftOf(q) : CoversEdits(entry)
      BY DEF BroughtInv
    <3>3. CASE HasCopy(AllComments, c)'
      BY <3>3
    <3>4. ASSUME NEW f, RemoveStep(f), NEW k \in threads[f].comments, k.of = Names(c), c.updated <= k.updated
          PROVE  \E entry \in LeftOf(p)' : HasCopy(entry.thread.comments, c)
      <4>1. f \in DOMAIN threads /\ k.of \in NamesIn(threads[f]) /\ k \in Comments /\ Names(c) \in RemoteNames
        BY <3>1, <3>4, NamesDiffer DEF RemoveStep, NamesIn, ImportInv, ImportTypeOK, DirTypeOK, ThreadRecords
      <4>2. WillWrite(p, f)
        <5>1. ASSUME ~WillWrite(p, f)
              PROVE  pull'[p].there = {d \in pull[p].there : <<"remote", d.id>> \notin NamesIn(threads[f])}
          BY <1>1, <3>4, <5>1, ForgetThere DEF RemoveStep
        <5> QED BY <3>4, <4>1, <5>1 DEF Names
      <4>3. PICK entry \in LeftOf(p) : entry.file = f
        BY <1>2, <4>2 DEF WillWrite, Copied, LeftOf, At
      <4>4. PICK m \in entry.thread.comments : m.of = k.of /\ k.updated <= m.updated
        BY <3>2, <3>4, <4>1, <4>3 DEF CoversEdits
      <4>5. m \in Comments
        BY <1>1, PullShape DEF Entries, ThreadRecords
      <4>6. c.updated <= m.updated
        BY <3>1, <3>4, <4>1, <4>4, <4>5 DEF Comments, RemoteComments
      <4>7. HasCopy(entry.thread.comments, c)
        BY <3>4, <4>4, <4>6 DEF HasCopy
      <4>8. LeftOf(p)' = LeftOf(p)
        BY <1>1, <3>4, RemoveLeaves
      <4> QED BY <4>3, <4>7, <4>8
    <3> QED BY <2>2, <3>1, <3>2, <3>3, <3>4, CopiesStay
  <2> QED BY <1>2, <2>1, <2>2
<1>3. CASE pull'[p] = pull[p]
  <2>1. LeftOf(p)' = LeftOf(p)
    BY <1>3, LeftSame
  <2> QED BY <1>2, <1>3, <2>1 DEF At
<1>4. ASSUME NEW t \in RemoteThreads, RemoteStep(t)
      PROVE  pull'[p].stage = pull[p].stage /\ c \in pull[p].there /\ LeftOf(p)' = LeftOf(p)
  BY <1>1, <1>4, RemoteLeaves
<1>5. CASE \E t \in RemoteThreads : RemoteStep(t)
  BY <1>2, <1>4, <1>5 DEF At
<1>11. CASE \E f : RemoveStep(f)
  <2>1. pull'[p].stage = pull[p].stage /\ c \in pull[p].there /\ LeftOf(p)' = LeftOf(p)
    BY <1>1, <1>11, RemoveLeaves
  <2> QED BY <1>2, <2>1 DEF At
<1>6. CASE FetchStep(p)
  BY <1>1, <1>6, FetchOthers
<1>7. CASE Index(p)
  <2>1. c \in pull[p].there
    BY <1>1, <1>7, IndexOf, UnlinkedOf DEF PullTypeOK, ImportInv, ImportTypeOK
  <2> QED BY <1>7, <2>1, IndexBrings
<1>8. CASE Lock(p)
  <2>1. pull[p] \in Writing /\ pull[p].stage = "lock"
    BY <1>1, <1>8, PullShape DEF Lock, At
  <2>2. pull' = [pull EXCEPT ![p].stage = "write", ![p].number = NextNumber]
    BY <1>8 DEF Lock
  <2>3. pull'[p].stage = "write" /\ pull'[p].left = pull[p].left /\ pull'[p].there = pull[p].there
    BY <1>1, <2>1, <2>2 DEF PullTypeOK, Writing
  <2>4. LeftOf(p)' = LeftOf(p)
    BY <2>1, <2>3 DEF LeftOf, At
  <2> QED BY <1>2, <2>1, <2>3, <2>4 DEF At
<1>9. CASE Write(p)
  <2>1. PICK head \in LeftOf(p), file \in Numbered \cup {NewFile} :
          /\ pull[p] \in Writing /\ head = Head(pull[p].left)
          /\ DOMAIN threads' = DOMAIN threads \cup {file}
          /\ threads'[file].comments = head.thread.comments
          /\ pull' = [pull EXCEPT ![p].left = Tail(@),
                                  ![p].number = IF head.file = Nobody THEN @ + 1 ELSE @]
    BY <1>9, WriteOf
  <2>2. pull'[p].there = pull[p].there /\ At(p, "write")
    BY <1>1, <1>9, <2>1 DEF PullTypeOK, Writing, Write
  <2>3. ASSUME HasCopy(head.thread.comments, c)
        PROVE  HasCopy(AllComments, c)'
    <3>1. threads'[file].comments \subseteq AllComments'
      BY <2>1 DEF AllComments
    <3> QED BY <2>1, <2>3, <3>1 DEF HasCopy, Names
  <2>4. \A entry \in LeftOf(p) : entry = head \/ entry \in LeftOf(p)'
    BY <1>9, <2>1, HeadOrLeft
  <2> QED BY <1>2, <2>2, <2>3, <2>4
<1>10. CASE Unlock(p) \/ Stop(p)
  <2>1. pull'[p].stage \in {"idle", "done"}
    BY <1>1, <1>10 DEF Unlock, Stop, Resting, PullTypeOK
  <2> QED BY <2>1 DEF At
<1> QED BY <1>3, <1>5, <1>6, <1>7, <1>8, <1>9, <1>10, <1>11, BesideStep DEF MergeStep

LEMMA DoneBrought ==
  ASSUME ImportInv, CopiesInv, OrderInv, OriginInv, BroughtInv, ~shared, [Next]_allVars,
         NEW p \in Pullers, At(p, "done")', NEW c \in pull'[p].there, HasBody(c)
  PROVE  HasCopy(AllComments, c)'
<1>1. PullTypeOK /\ inputs \in Nat
  BY DEF ImportInv, ImportTypeOK
<1>2. ASSUME c \in pull[p].there, HasCopy(AllComments, c)
      PROVE  HasCopy(AllComments, c)'
  <2>1. c \in RemoteComments
    BY <1>1, <1>2, PullShape
  <2>2. \A q \in Pullers : \A entry \in LeftOf(q) : CoversEdits(entry)
    BY DEF BroughtInv
  <2>3. ASSUME NEW f, RemoveStep(f), NEW k \in threads[f].comments, k.of = Names(c) PROVE FALSE
    <3>1. ~WillWrite(p, f)
      <4>1. pull[p].stage = "done"
        BY <1>1, <2>3, RemoveLeaves DEF At
      <4> QED BY <4>1 DEF WillWrite, Running
    <3>2. pull'[p].there = {d \in pull[p].there : <<"remote", d.id>> \notin NamesIn(threads[f])}
      BY <1>1, <2>3, <3>1, ForgetThere DEF RemoveStep
    <3>3. k.of \in NamesIn(threads[f])
      BY <2>3 DEF NamesIn
    <3> QED BY <2>3, <3>2, <3>3 DEF Names
  <2> QED BY <1>2, <2>1, <2>2, <2>3, CopiesStay
<1>3. ASSUME At(p, "done"), c \in pull[p].there
      PROVE  HasCopy(AllComments, c)'
  <2>1. HasCopy(AllComments, c)
    BY <1>3, DoneHas DEF BroughtInv
  <2> QED BY <1>2, <1>3, <2>1
<1>4. CASE pull'[p] = pull[p]
  BY <1>3, <1>4 DEF At
<1>5. ASSUME NEW t \in RemoteThreads, RemoteStep(t)
      PROVE  pull'[p].stage = pull[p].stage /\ c \in pull[p].there
  BY <1>1, <1>5, RemoteLeaves
<1>6. CASE \E t \in RemoteThreads : RemoteStep(t)
  BY <1>3, <1>5, <1>6 DEF At
<1>12. CASE \E f : RemoveStep(f)
  <2>1. pull'[p].stage = pull[p].stage /\ c \in pull[p].there
    BY <1>1, <1>12, RemoveLeaves
  <2> QED BY <1>3, <2>1 DEF At
<1>7. CASE FetchStep(p)
  BY <1>1, <1>7, FetchStages DEF At
<1>8. CASE Index(p)
  <2>1. c \in pull[p].there
    BY <1>1, <1>8, IndexOf, UnlinkedOf DEF PullTypeOK, ImportInv, ImportTypeOK
  <2> QED BY <1>8, <2>1, IndexBrings DEF At
<1>9. CASE Lock(p) \/ Write(p)
  <2>1. At(p, "lock") => pull[p] \in Writing
    BY <1>1, PullShape DEF At
  <2>2. Lock(p) => pull'[p].stage = "write"
    BY <1>1, <2>1 DEF Lock, PullTypeOK, Writing
  <2>3. At(p, "write") => pull[p] \in Writing
    BY <1>1, PullShape DEF At
  <2>4. Write(p) => pull'[p].stage = "write"
    BY <1>1, <2>3 DEF Write, PullTypeOK, Writing, At
  <2> QED BY <1>9, <2>2, <2>4 DEF At
<1>10. CASE Unlock(p)
  <2>1. At(p, "write") /\ pull[p].left = <<>> /\ pull'[p].there = pull[p].there
    BY <1>1, <1>10 DEF Unlock, PullTypeOK
  <2>2. LeftOf(p) = {}
    BY <2>1 DEF LeftOf
  <2>3. HasCopy(AllComments, c)
    BY <2>1, <2>2 DEF BroughtInv
  <2> QED BY <1>2, <2>1, <2>3
<1>11. CASE Stop(p)
  BY <1>1, <1>11 DEF Stop, Resting, PullTypeOK, At
<1> QED BY <1>4, <1>6, <1>7, <1>8, <1>9, <1>10, <1>11, <1>12, BesideStep DEF MergeStep

LEMMA BroughtNext ==
  ASSUME ImportInv, CopiesInv, OrderInv, OriginInv, ~shared => EditInv, BroughtInv, [Next]_allVars
  PROVE  BroughtInv'
<1>1. \A p \in Pullers : At(p, "threads")' => \A c \in pull'[p].there : HasIt(Everything, c)'
  BY ThreadsBrought
<1>2. \A p \in Pullers : (pull[p].stage \in {"comments", "conversation", "index"})' =>
          \A c \in pull'[p].there : Coming(p, c)'
  BY FetchBrought
<1>3. ~shared' => ~shared
  BY SharedGrows
<1>4. ~shared' => \A p \in Pullers : \A entry \in LeftOf(p)' : CoversEdits(entry)'
  BY <1>3, CoversBrought
<1>5. ~shared' => \A p \in Pullers : At(p, "lock")' \/ At(p, "write")' =>
          \A c \in pull'[p].there : HasBody(c) =>
              \/ HasCopy(AllComments, c)'
              \/ \E entry \in LeftOf(p)' : HasCopy(entry.thread.comments, c)
  BY <1>3, WriteBrought
<1>6. PulledAll'
  <2>1. ~shared' => \A p \in Pullers : At(p, "done")' =>
            \A c \in pull'[p].there : HasBody(c) => HasCopy(AllComments, c)'
    BY <1>3, DoneBrought
  <2>2. \A a, b : a >= b <=> b <= a
    OBVIOUS
  <2> QED BY <2>1, <2>2 DEF PulledAll, HasCopy, HasBody, Names
<1> QED BY <1>1, <1>2, <1>4, <1>5, <1>6 DEF BroughtInv, HasBody


-----------------------------------------------------------------------------
PullInv ==
    /\ ImportInv /\ CopiesInv
    /\ OrderInv /\ OriginInv
    /\ ~shared => EditInv
    /\ OnePlaceInv
    /\ BroughtInv

LEMMA InitPull == ASSUME Init PROVE PullInv
<1>1. ImportInv /\ CopiesInv
  BY InitImport, InitCopies
<1>2. /\ DOMAIN threads = {}
      /\ \A t \in RemoteThreads : remote[t] = <<>>
      /\ \A p \in Pullers : pull[p] = [stage |-> "idle", there |-> {}]
  BY DEF Init, DirInit, PullInit, Resting
<1>3. \A p \in Pullers : /\ Got(p) = {} /\ LeftOf(p) = {} /\ pull[p].stage = "idle"
                         /\ \A t : GotOf(p, t) = {}
  BY <1>2 DEF Got, LeftOf, GotOf, At
<1>4. /\ Everything = {}
      /\ \A t \in RemoteThreads : ElementsOf(remote[t]) = {} /\ Rising(remote[t])
  BY <1>2 DEF Everything, ElementsOf, Rising
<1>5. OrderInv
  BY <1>3, <1>4 DEF OrderInv
<1>6. OriginInv
  <2>1. \A t \in RemoteThreads, of \in RemoteNames : ~Seen(of, t)
    BY <1>2, <1>3, <1>4 DEF Seen
  <2> QED BY <1>2, <2>1 DEF OriginInv
<1>7. EditInv
  BY <1>2, <1>3 DEF EditInv
<1>8. OnePlaceInv
  BY <1>2, <1>3 DEF OnePlaceInv
<1>9. BroughtInv
  BY <1>3 DEF BroughtInv, PulledAll, At
<1> QED BY <1>1, <1>5, <1>6, <1>7, <1>8, <1>9 DEF PullInv

LEMMA NextPull == ASSUME PullInv, [Next]_allVars PROVE PullInv'
<1>1. ImportInv' /\ CopiesInv'
  BY NextImport, NextCopies DEF PullInv
<1>2. OrderInv' /\ OriginInv'
  BY OrderNext, OriginNext DEF PullInv
<1>3. (~shared => EditInv)'
  BY EditNext DEF PullInv
<1>4. OnePlaceInv'
  BY OnePlaceNext DEF PullInv
<1>5. BroughtInv'
  BY BroughtNext DEF PullInv
<1> QED BY <1>1, <1>2, <1>3, <1>4, <1>5 DEF PullInv

LEMMA PullInvariance == Spec => []PullInv
<1>1. Init => PullInv
  BY InitPull
<1>2. PullInv /\ [Next]_allVars => PullInv'
  BY NextPull
<1> QED BY <1>1, <1>2, PTL DEF Spec

(* As long as one pull runs at a time, a comment's bodies are its edits in *)
(* their order and each one once, in every thread that pulls, an           *)
(* extraction and other commands leave behind (mergeThread).               *)
THEOREM BodiesInOrder == Spec => []BodiesForward
<1>1. PullInv => BodiesForward
  BY DEF PullInv, EditInv, Forward, BodiesForward, AllComments
<1> QED BY <1>1, PullInvariance, PTL

(* As long as one pull runs at a time, a remote comment is in one thread   *)
(* of the directory and once in it, however often it is pulled, wherever   *)
(* pulls end half-way and whatever is done to the remote threads meanwhile *)
(* (buildMatchIndex, mergeThread, writeThreads).                           *)
THEOREM CopiedOnce == Spec => []OneCopy
<1>1. PullInv => OneCopy
  BY OnlyCopy DEF PullInv
<1> QED BY <1>1, PullInvariance, PTL

(* As long as no two pulls have been under way at once: a pull that ends   *)
(* well has brought every comment that was there when it started and that  *)
(* no deletion took, or moved up a page, before it was fetched, nor a user *)
(* removed with its thread; in the version whose time it had at the start  *)
(* or a later one, for any number of pages of any size and whatever is     *)
(* posted, edited or deleted between its requests (fetchCompleteThread,    *)
(* FetchReviews, FetchIssueComments, mergeThread, writeThreads).  Reviews  *)
(* keep the time of their submission (mapReview): for one that was pulled  *)
(* before this says nothing of its edits, which the code does not bring;   *)
(* and those without a body are not pulled.                                *)
THEOREM PullsBringAll == Spec => []PulledAll
<1>1. PullInv => PulledAll
  BY DEF PullInv, BroughtInv
<1> QED BY <1>1, PullInvariance, PTL

=============================================================================
