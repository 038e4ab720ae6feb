-------------------------- MODULE ChangeFeedProofs --------------------------
(***************************************************************************)
(* No change is missed, for any number of handlers, subscribers and        *)
(* threads and any capacity of the channels.                               *)
(***************************************************************************)
EXTENDS ChangeFeed, TLAPS

(* Stamps never run ahead of the counter. *)
SeenInv ==
  \A t \in Threads : disk[t] <= writes /\ snapshot[t] <= writes /\ listing[t] <= writes

(* The poller announces every change of an anchored thread; of a thread    *)
(* without anchors it is the handler that announces what is owed.          *)
Covered(c, t) ==
  \/ stale[c] \/ queue[c] > 0
  \/ \E g \in Goroutines : Announcing(g, c)
  \/ t \in Anchored /\ PollerAnnounces(t)
  \/ t \notin Anchored /\ \E w \in Workers : WorkerAnnounces(w, t)

CoveredInv ==
  ~panicked => \A c \in subscribers, t \in Threads : Owed(c, t) => Covered(c, t)

FeedInv == TypeOK /\ SeenInv /\ CoveredInv

-----------------------------------------------------------------------------

LEMMA StampsGrow ==
  ASSUME writes \in Stamps, writes < MaxWrites
  PROVE  writes + 1 \in Stamps
BY ChangeFeedAssumption DEF Stamps

LEMMA NoFilesType == 0 \in Stamps /\ NoFiles \in [Threads -> Stamps]
BY ChangeFeedAssumption DEF NoFiles, Stamps

LEMMA TypeInit == Init => TypeOK
<1> SUFFICES ASSUME Init PROVE TypeOK
  OBVIOUS
<1>1. queue \in [Channels -> 0..Cap]
  BY ChangeFeedAssumption DEF Init
<1>2. paused \in BOOLEAN /\ panicked \in BOOLEAN
  BY Zenon DEF Init
<1>3. stage \in [Goroutines -> Stages] /\ thread \in [Workers -> Threads]
  BY DEF Init, Stages
<1> QED
  BY <1>1, <1>2, <1>3, NoFilesType DEF Init, TypeOK

(* Every step keeps the types. *)
LEMMA TypeStep == TypeOK /\ [Next]_vars => TypeOK'
<1> SUFFICES ASSUME TypeOK, [Next]_vars PROVE TypeOK'
  OBVIOUS
<1> USE DEF TypeOK, Stages, Goroutines
<1>1. ASSUME NEW w \in Workers, Mutate(w) PROVE TypeOK'
  BY <1>1, StampsGrow DEF Mutate, Stamp, At, Goto, pollVars, clientVars
<1>2. ASSUME NEW w \in Workers, Handle(w) PROVE TypeOK'
  <2>1. CASE ListThreads(w)
    BY <2>1 DEF ListThreads, At, Goto, fileVars, pollVars, clientVars
  <2>2. CASE ReadBack(w) /\ Found(w)
    BY <2>2 DEF ReadBack, Found, At, Goto, pollVars, clientVars
  <2>3. CASE ReadBack(w) /\ Unread(w)
    BY <2>3, NoFilesType DEF ReadBack, Unread, At, Goto, pollVars, clientVars
  <2>4. CASE ReadBack(w) /\ Missing(w)
    BY <2>4 DEF ReadBack, Missing, pollVars, clientVars
  <2>5. CASE Mark(w)
    BY <2>5, NoFilesType DEF Mark, At, Goto, fileVars, pollVars, clientVars
  <2> QED
    BY <1>2, <2>1, <2>2, <2>3, <2>4, <2>5 DEF Handle, ReadBack
<1>3. ASSUME ForeignWrite PROVE TypeOK'
  BY <1>3, StampsGrow DEF ForeignWrite, Stamp, workVars, pollVars, clientVars
<1>4. ASSUME ForeignRemove PROVE TypeOK'
  BY <1>4, ChangeFeedAssumption DEF ForeignRemove, Stamps, workVars, pollVars, clientVars
<1>5. ASSUME Tick \/ List PROVE TypeOK'
  BY <1>5 DEF Tick, List, At, Goto, fileVars, workVars, pollVars, clientVars
<1>6. ASSUME Build PROVE TypeOK'
  BY <1>6, NoFilesType DEF Build, At, Goto, fileVars, workVars, clientVars
<1>7. ASSUME Filter PROVE TypeOK'
  BY <1>7 DEF Filter, At, Goto, fileVars, workVars, clientVars
<1>8. ASSUME NEW g \in Goroutines, CopySubscribers(g) \/ Sent(g) PROVE TypeOK'
  BY <1>8 DEF CopySubscribers, Sent, At, Goto, fileVars, workVars, pollVars, clientVars
<1>9. ASSUME NEW g \in Goroutines, Send(g) PROVE TypeOK'
  <2>1. panicked' \in BOOLEAN
    BY <1>9, Zenon DEF Send
  <2>2. recipients' \in [Goroutines -> SUBSET Channels]
    BY <1>9 DEF Send
  <2>3. queue' \in [Channels -> 0..Cap]
    BY <1>9, ChangeFeedAssumption DEF Send
  <2> QED
    BY <1>9, <2>1, <2>2, <2>3 DEF Send, fileVars, workVars, pollVars, clientVars
<1>10. ASSUME NEW c \in Channels, Subscribe(c) PROVE TypeOK'
  <2>1. stale' \in [Channels -> BOOLEAN]
    BY <1>10, Zenon DEF Subscribe, Attach
  <2>3. since' \in [Channels -> Stamps]
    BY <1>10 DEF Subscribe, Attach
  <2>2. paused' \in BOOLEAN
    BY <1>10, Zenon DEF Subscribe
  <2> QED
    BY <1>10, <2>1, <2>2, <2>3 DEF Subscribe, fileVars, workVars, pollVars
<1>11. ASSUME NEW c \in Channels, Unsubscribe(c) PROVE TypeOK'
  BY <1>11, NoFilesType, ChangeFeedAssumption DEF Unsubscribe, fileVars, workVars, pollVars
<1>12. ASSUME NEW c \in Channels, Receive(c) PROVE TypeOK'
  BY <1>12, ChangeFeedAssumption DEF Receive, fileVars, workVars, pollVars
<1>13. ASSUME NEW c \in Channels, Refresh(c) PROVE TypeOK'
  BY <1>13 DEF Refresh, fileVars, workVars, pollVars
<1>14. CASE UNCHANGED vars
  BY <1>14 DEF vars, fileVars, workVars, pollVars, clientVars
<1> QED
  BY <1>1, <1>2, <1>3, <1>4, <1>5, <1>6, <1>7, <1>8, <1>9, <1>10, <1>11, <1>12, <1>13, <1>14
  DEF Next, Scan, Notify, Follow

-----------------------------------------------------------------------------

LEMMA SeenInit == Init => SeenInv
BY DEF Init, SeenInv, NoFiles

LEMMA SeenStep == ASSUME TypeOK, SeenInv, [Next]_vars PROVE SeenInv'
<1> USE DEF SeenInv, TypeOK, Stamps, NoFiles
<1> USE ChangeFeedAssumption
<1>1. ASSUME NEW u \in Threads, Stamp(u), UNCHANGED <<listing, snapshot>> PROVE SeenInv'
  BY <1>1 DEF Stamp
<1>2. ASSUME NEW w \in Workers, Mutate(w) PROVE SeenInv'
  BY <1>1, <1>2 DEF Mutate, pollVars, clientVars
<1>3. ASSUME ForeignWrite PROVE SeenInv'
  BY <1>1, <1>3 DEF ForeignWrite, pollVars, clientVars
<1>4. ASSUME UNCHANGED <<disk, writes, listing, snapshot>> PROVE SeenInv'
  BY <1>4
<1>5. ASSUME NEW w \in Workers, Handle(w) PROVE SeenInv'
  BY <1>4, <1>5 DEF Handle, ListThreads, ReadBack, Mark, fileVars, pollVars, clientVars
<1>6. ASSUME List PROVE SeenInv'
  BY <1>6 DEF List, fileVars, clientVars
<1>7. ASSUME Build PROVE SeenInv'
  BY <1>7 DEF Build, fileVars, clientVars
<1>8. ASSUME Tick \/ Filter PROVE SeenInv'
  BY <1>4, <1>8 DEF Tick, Filter, fileVars, pollVars, clientVars
<1>9. ASSUME NEW g \in Goroutines, Notify(g) PROVE SeenInv'
  BY <1>4, <1>9 DEF Notify, CopySubscribers, Send, Sent, fileVars, pollVars, clientVars
<1>10. ASSUME NEW c \in Channels, Subscribe(c) \/ Unsubscribe(c) \/ Follow(c) PROVE SeenInv'
  BY <1>4, <1>10 DEF Subscribe, Unsubscribe, Follow, Receive, Refresh, fileVars, pollVars
<1>11. ASSUME ForeignRemove PROVE SeenInv'
  BY <1>11 DEF ForeignRemove, pollVars
<1>12. CASE UNCHANGED vars
  BY <1>4, <1>12 DEF vars, fileVars, pollVars, clientVars
<1> QED
  BY <1>2, <1>3, <1>5, <1>6, <1>7, <1>8, <1>9, <1>10, <1>11, <1>12 DEF Next, Scan

-----------------------------------------------------------------------------

LEMMA CoveredInit == Init => CoveredInv
BY DEF Init, CoveredInv

(* The change that a step makes, or that lost what covered it, is covered  *)
(* by what the step itself has done: one step of the proof per action.     *)
LEMMA CoveredStep ==
  ASSUME TypeOK, SeenInv, CoveredInv, [Next]_vars
  PROVE  CoveredInv'
<1> SUFFICES ASSUME ~panicked', NEW c \in subscribers', NEW t \in Threads, Owed(c, t)'
             PROVE  Covered(c, t)'
  BY DEF CoveredInv
<1>c. c \in Channels
  <2> TypeOK'
    BY TypeStep
  <2> QED
    BY DEF TypeOK
<1> USE <1>c
<1> DEFINE Old == c \in subscribers /\ Owed(c, t)
<1>o. ASSUME ~panicked, Old PROVE Covered(c, t)
  BY <1>o DEF CoveredInv
<1>1. ASSUME NEW w \in Workers, Mutate(w) PROVE Covered(c, t)'
  <2>1. PICK u \in Threads : Stamp(u) /\ thread' = [thread EXCEPT ![w] = u]
                             /\ wrote' = [wrote EXCEPT ![w] = writes + 1]
                             /\ Goto(w, IF disk[u] = 0 THEN "viewed" ELSE "written")
    BY <1>1 DEF Mutate
  <2>2. CASE t = u /\ t \in Anchored
    BY <1>1, <2>1, <2>2
    DEF Mutate, Stamp, Covered, PollerAnnounces, SeenInv, TypeOK, Stamps, pollVars
  <2>3. CASE t = u /\ t \notin Anchored
    <3>1. thread'[w] = t /\ wrote'[w] = disk'[t] /\ stage'[w] \in {"written", "viewed"}
      BY <2>1, <2>3 DEF Stamp, Goto, TypeOK, Goroutines
    <3> QED
      BY <2>3, <3>1 DEF Covered, WorkerAnnounces
  <2>4. CASE t # u
    <3>1. Old /\ disk'[t] = disk[t]
      BY <1>1, <2>1, <2>4 DEF Mutate, Stamp, Owed, clientVars, TypeOK
    <3> QED
      BY <1>o, <1>1, <2>1, <2>4, <3>1, ChangeFeedAssumption
      DEF Mutate, Covered, Announcing, WorkerAnnounces, PollerAnnounces, At, Goto, TypeOK,
          pollVars, clientVars, Goroutines
  <2> QED
    BY <2>2, <2>3, <2>4
<1>2a. ASSUME NEW w \in Workers, ListThreads(w) PROVE Covered(c, t)'
  <2>1. Old /\ Covered(c, t)
    BY <1>o, <1>2a DEF ListThreads, Owed, fileVars, clientVars
  <2> QED
    BY <1>2a, <2>1, ChangeFeedAssumption
    DEF ListThreads, Covered, Announcing, WorkerAnnounces, PollerAnnounces, At, Goto, TypeOK,
        fileVars, pollVars, clientVars, Goroutines
(* A handler that cannot read its write back owes it no longer; the others *)
(* and the poller do what they did.                                        *)
<1>2. ASSUME NEW w \in Workers, ReadBack(w) PROVE Covered(c, t)'
  <2>1. CASE Found(w)
    <3>1. Old /\ Covered(c, t)
      BY <1>o, <1>2, <2>1 DEF ReadBack, Found, Owed, clientVars
    <3> QED
      BY <1>2, <2>1, <3>1, ChangeFeedAssumption
      DEF ReadBack, Found, Covered, Announcing, WorkerAnnounces, PollerAnnounces, At, Goto, TypeOK,
          pollVars, clientVars, Goroutines
  <2>2. CASE Unread(w)
    <3>1. Old /\ Covered(c, t)
      BY <1>o, <1>2, <2>2 DEF ReadBack, Unread, Owed, clientVars
    <3>2. CASE t \notin Anchored /\ WorkerAnnounces(w, t)
      BY <1>2, <2>2, <3>2 DEF ReadBack, Unread, WorkerAnnounces, Owed
    <3>3. CASE ~(t \notin Anchored /\ WorkerAnnounces(w, t))
      BY <1>2, <2>2, <3>1, <3>3, ChangeFeedAssumption
      DEF ReadBack, Unread, Covered, Announcing, WorkerAnnounces, PollerAnnounces, At, Goto, TypeOK,
          pollVars, clientVars, Goroutines
    <3> QED
      BY <3>2, <3>3
  <2>3. CASE Missing(w)
    BY <2>3 DEF Missing
  <2> QED
    BY <1>2, <2>1, <2>2, <2>3 DEF ReadBack
<1>3. ASSUME NEW w \in Workers, Mark(w) PROVE Covered(c, t)'
  BY <1>3 DEF Mark, Covered, Announcing, At, Goto, TypeOK, Goroutines
<1>4. ASSUME ForeignWrite PROVE Covered(c, t)'
  <2>1. PICK u \in Threads : Stamp(u)
    BY <1>4 DEF ForeignWrite
  <2>2. CASE t = u
    BY <1>4, <2>1, <2>2
    DEF ForeignWrite, Stamp, Owed, Covered, PollerAnnounces, SeenInv, TypeOK, Stamps, pollVars
  <2>3. CASE t # u
    BY <1>o, <1>4, <2>1, <2>3
    DEF ForeignWrite, Stamp, Owed, Covered, Announcing, WorkerAnnounces, PollerAnnounces, At, TypeOK,
        workVars, pollVars, clientVars
  <2> QED
    BY <2>2, <2>3
<1>5. ASSUME Tick \/ List PROVE Covered(c, t)'
  <2>1. Old /\ Covered(c, t)
    BY <1>o, <1>5 DEF Tick, List, Owed, fileVars, clientVars
  <2> QED
    BY <1>5, <2>1, ChangeFeedAssumption
    DEF Tick, List, Covered, Announcing, WorkerAnnounces, PollerAnnounces, At, Goto, TypeOK,
        fileVars, workVars, pollVars, clientVars, Goroutines
<1>6. ASSUME Build PROVE Covered(c, t)'
  <2>1. Old /\ Covered(c, t)
    BY <1>o, <1>6 DEF Build, Owed, fileVars, workVars, clientVars
  <2>2. CASE t \in Anchored /\ PollerAnnounces(t)
    <3>1. snapshot[t] # disk[t] /\ disk[t] # 0 /\ snapshot' = listing
      BY <1>6, <2>1, <2>2 DEF Build, Owed, PollerAnnounces, SeenInv, At
    <3>2. CASE listing[t] # disk[t]
      BY <1>6, <2>2, <3>1, <3>2 DEF Build, Covered, PollerAnnounces, fileVars
    <3>3. CASE listing[t] = disk[t]
      <4>1. t \in found' /\ At(Poller, "built")'
        BY <1>6, <3>1, <3>3 DEF Build, At, Goto, TypeOK, Goroutines
      <4>2. found' \cap Anchored # {}
        BY <2>2, <4>1
      <4> QED
        BY <2>2, <4>1, <4>2, <1>6 DEF Covered, PollerAnnounces, Build
    <3> QED
      BY <3>2, <3>3
  <2>3. CASE ~(t \in Anchored /\ PollerAnnounces(t))
    BY <1>6, <2>1, <2>3, ChangeFeedAssumption
    DEF Build, Covered, Announcing, WorkerAnnounces, At, Goto, TypeOK, fileVars, workVars, clientVars,
        Goroutines
  <2> QED
    BY <2>2, <2>3
<1>7. ASSUME Filter PROVE Covered(c, t)'
  <2>1. Old /\ Covered(c, t)
    BY <1>o, <1>7 DEF Filter, Owed, fileVars, workVars, clientVars
  <2>2. CASE At(Poller, "built") /\ t \in found /\ (t \notin pending \/ found \cap Anchored # {})
    BY <1>7, <2>2 DEF Filter, Covered, Announcing, At, Goto, TypeOK, Goroutines
  <2>3. CASE ~(At(Poller, "built") /\ t \in found /\ (t \notin pending \/ found \cap Anchored # {}))
    BY <1>7, <2>1, <2>3, ChangeFeedAssumption
    DEF Filter, Covered, Announcing, WorkerAnnounces, PollerAnnounces, At, Goto, TypeOK, fileVars,
        workVars, clientVars, Goroutines
  <2> QED
    BY <2>2, <2>3
<1>8. ASSUME NEW g \in Goroutines, CopySubscribers(g) PROVE Covered(c, t)'
  BY <1>8 DEF CopySubscribers, Covered, Announcing, TypeOK
<1>9. ASSUME NEW g \in Goroutines, Send(g) PROVE Covered(c, t)'
  <2>1. Old /\ Covered(c, t)
    BY <1>o, <1>9 DEF Send, Owed, fileVars, workVars, clientVars
  <2>2. PICK d \in recipients[g] : d \notin closed
                                  /\ recipients' = [recipients EXCEPT ![g] = @ \ {d}]
                                  /\ queue' = [queue EXCEPT ![d] = IF @ < Cap THEN @ + 1 ELSE @]
    BY <1>9 DEF Send
  <2>3. CASE d = c
    <3>1. queue'[c] > 0
      BY <2>2, <2>3, ChangeFeedAssumption DEF TypeOK
    <3> QED
      BY <3>1 DEF Covered
  <2>4. CASE d # c
    BY <1>9, <2>1, <2>2, <2>4
    DEF Send, Owed, Covered, Announcing, WorkerAnnounces, PollerAnnounces, At, TypeOK, fileVars,
        workVars, pollVars, clientVars
  <2> QED
    BY <2>3, <2>4
<1>10. ASSUME NEW g \in Goroutines, Sent(g) PROVE Covered(c, t)'
  <2>1. Old /\ Covered(c, t)
    BY <1>o, <1>10 DEF Sent, Owed, fileVars, clientVars
  <2> QED
    BY <1>10, <2>1, ChangeFeedAssumption
    DEF Sent, Covered, Announcing, WorkerAnnounces, PollerAnnounces, At, Goto, TypeOK, fileVars,
        workVars, pollVars, clientVars, Goroutines
<1>11. ASSUME NEW d \in Channels, Subscribe(d) \/ Receive(d) PROVE Covered(c, t)'
  <2>1. CASE d = c
    <3>1. CASE Receive(d) \/ stale' = [stale EXCEPT ![d] = TRUE]
      BY <2>1, <3>1 DEF Receive, Covered, TypeOK
    <3>2. CASE Subscribe(d) /\ since' = [since EXCEPT ![d] = writes]
      <4>1. disk'[t] <= since'[c]
        BY <2>1, <3>2 DEF Subscribe, SeenInv, TypeOK, fileVars
      <4>2. disk'[t] \in Int /\ since'[c] \in Int
        BY <2>1, <3>2 DEF Subscribe, TypeOK, Stamps, fileVars
      <4> QED
        BY <4>1, <4>2 DEF Owed
    <3> QED
      BY <1>11, <3>1, <3>2 DEF Subscribe, Attach
  <2>2. CASE d # c
    <3>1. Old /\ Covered(c, t)
      BY <1>o, <1>11, <2>2 DEF Subscribe, Attach, Receive, Owed, TypeOK, fileVars
    <3> QED
      BY <1>11, <2>2, <3>1
      DEF Subscribe, Attach, Receive, Covered, Announcing, WorkerAnnounces, PollerAnnounces, At,
          TypeOK, fileVars, workVars, pollVars
  <2> QED
    BY <2>1, <2>2
<1>12. ASSUME NEW d \in Channels, Unsubscribe(d) \/ Refresh(d) PROVE Covered(c, t)'
  <2>1. d # c
    BY <1>12 DEF Unsubscribe, Refresh, Owed, fileVars, TypeOK
  <2>2. Old /\ Covered(c, t)
    BY <1>o, <1>12, <2>1 DEF Unsubscribe, Refresh, Owed, TypeOK, fileVars
  <2> QED
    BY <1>12, <2>1, <2>2
    DEF Unsubscribe, Refresh, Covered, Announcing, WorkerAnnounces, PollerAnnounces, At, TypeOK,
        fileVars, workVars, pollVars
<1>13. ASSUME ForeignRemove PROVE Covered(c, t)'
  BY <1>o, <1>13
  DEF ForeignRemove, Owed, Covered, Announcing, WorkerAnnounces, PollerAnnounces, At, TypeOK, workVars, pollVars,
      clientVars
<1>14. CASE UNCHANGED vars
  BY <1>o, <1>14
  DEF vars, Owed, Covered, Announcing, WorkerAnnounces, PollerAnnounces, At, fileVars, workVars, pollVars, clientVars
<1> QED
  BY <1>1, <1>2a, <1>2, <1>3, <1>4, <1>5, <1>6, <1>7, <1>8, <1>9, <1>10, <1>11, <1>12, <1>13, <1>14
  DEF Next, Handle, Scan, Notify, Follow

-----------------------------------------------------------------------------

(* The state of the daemon has its types, whatever handlers, subscribers   *)
(* and other processes do: no channel holds more than its capacity         *)
(* (service.go, notify).                                                   *)
THEOREM FeedTypes == Spec => []TypeOK
BY TypeInit, TypeStep, PTL DEF Spec

(* No change of a thread that is owed to a subscribed client is missed     *)
(* (service.go, mutate.go, poller.go): for a thread that is anchored to a  *)
(* file none at all, for one that is not no change of a handler that could *)
(* read it back, whatever others write or remove.                          *)
THEOREM NoChangeMissed == Spec => []ChangesAnnounced
<1>1. Init => FeedInv
  BY TypeInit, SeenInit, CoveredInit DEF FeedInv
<1>2. FeedInv /\ [Next]_vars => FeedInv'
  BY TypeStep, SeenStep, CoveredStep DEF FeedInv
<1>3. FeedInv => ChangesAnnounced
  BY DEF FeedInv, CoveredInv, Covered, Announced, ChangesAnnounced
<1> QED
  BY <1>1, <1>2, <1>3, PTL DEF Spec

(* The poller is paused only while nobody is subscribed (service.go,       *)
(* Subscribe and Unsubscribe), without any assumption.                     *)
THEOREM PausedNobody == Spec => []PausedAlone
<1>1. Init => PausedAlone
  BY DEF Init, PausedAlone
<1>2. PausedAlone /\ [Next]_vars => PausedAlone'
  <2> SUFFICES ASSUME PausedAlone, [Next]_vars PROVE PausedAlone'
    OBVIOUS
  <2>1. ASSUME UNCHANGED <<paused, subscribers>> PROVE PausedAlone'
    BY <2>1 DEF PausedAlone
  <2>2. ASSUME NEW w \in Workers, Mutate(w) \/ Handle(w) PROVE PausedAlone'
    BY <2>1, <2>2 DEF Mutate, Handle, ListThreads, ReadBack, Mark
  <2>3. ASSUME ForeignWrite \/ ForeignRemove \/ Scan PROVE PausedAlone'
    BY <2>1, <2>3 DEF ForeignWrite, ForeignRemove, Scan, Tick, List, Build, Filter
  <2>4. ASSUME NEW g \in Goroutines, Notify(g) PROVE PausedAlone'
    BY <2>1, <2>4 DEF Notify, CopySubscribers, Send, Sent
  <2>5. ASSUME NEW c \in Channels, Subscribe(c) PROVE PausedAlone'
    BY <2>5 DEF Subscribe, PausedAlone
  <2>6. ASSUME NEW c \in Channels, Unsubscribe(c) PROVE PausedAlone'
    BY <2>6 DEF Unsubscribe, PausedAlone
  <2>7. ASSUME NEW c \in Channels, Follow(c) PROVE PausedAlone'
    BY <2>1, <2>7 DEF Follow, Receive, Refresh
  <2>8. CASE UNCHANGED vars
    BY <2>1, <2>8 DEF vars
  <2> QED
    BY <2>2, <2>3, <2>4, <2>5, <2>6, <2>7, <2>8 DEF Next
<1> QED
  BY <1>1, <1>2, PTL DEF Spec
=============================================================================
