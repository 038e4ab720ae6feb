----------------------------- MODULE ChangeFeed -----------------------------
(***************************************************************************)
(* How a daemon's subscribers learn of changes to the thread directory:    *)
(* pkg/service (service.go, mutate.go, poller.go) and the subscriber loop  *)
(* of pkg/rpc/handlers.go.                                                 *)
(*                                                                         *)
(* Request handlers run concurrently.  Each writes a thread, marks it as a *)
(* pending write and notifies.  The poller compares directory listings,    *)
(* drops what is marked and notifies.  Other processes write the same      *)
(* directory.  A client reads all threads again when an event reaches it   *)
(* (nvim/lua/nota/model.lua, on_change_handler).                           *)
(*                                                                         *)
(* A file's stat identity (mtime, size, inode) is the serial number of its *)
(* last write; a listing of the directory is one step, and the files in it *)
(* are read later.                                                         *)
(***************************************************************************)
EXTENDS FiniteSets, Integers

CONSTANTS
  Threads,    \* thread ids; each thread has one file
  Anchored,   \* the threads with a file or line anchor: their events name files
  Workers,    \* request handler goroutines
  Poller,     \* the poller goroutine
  Channels,   \* the channels Subscribe can make; each is used once
  Cap,        \* capacity of a channel, 16 in the code
  MaxWrites,  \* bound on the writes to the directory
  Foreign     \* what other processes do: a subset of {"write", "remove"}

ASSUME ChangeFeedAssumption ==
  /\ Anchored \subseteq Threads
  /\ Poller \notin Workers
  /\ Cap \in Nat \ {0}
  /\ MaxWrites \in Nat

Goroutines == Workers \cup {Poller}
Stamps == 0..MaxWrites   \* 0: no file

VARIABLES
  disk,         \* disk[t]: the write that t's file is from
  writes,       \* how many writes there have been
  foreign,      \* history: the writes of other processes
  failed,       \* history: the writes whose handler could not read them back
  stage,        \* stage[g]: where goroutine g is
  thread,       \* thread[w]: the thread worker w mutates
  wrote,        \* wrote[w]: its write, until it is marked
  scanned,      \* scanned[w]: the threads in its listing of the directory
  listing,      \* the poller's listing of the directory
  snapshot,     \* the listing of its last scan
  found,        \* the threads of the event it is building
  pending,      \* pendingWrites
  subscribers,  \* the subscribed channels
  closed,       \* the closed channels
  recipients,   \* recipients[g]: the channels g has still to send to
  queue,        \* queue[c]: events in the buffer of c
  paused,       \* the poller is paused
  panicked,     \* the daemon is dead
  stale,        \* stale[c]: c's client has to read all threads again
  view,         \* view[c]: the threads as c's client knows them
  since         \* since[c]: the last write before c's client was subscribed, if
                \* it is not to read the threads then; else 0

fileVars == <<disk, writes, foreign, failed>>
workVars == <<thread, wrote, scanned>>
pollVars == <<listing, snapshot, found>>
clientVars == <<stale, view, since>>
vars == <<fileVars, stage, workVars, pollVars, pending, subscribers, closed, recipients,
          queue, paused, panicked, clientVars>>

Stages == {"idle", "written", "reading", "viewed", "ticked", "listed", "built", "ready", "sending"}

TypeOK ==
  /\ disk \in [Threads -> Stamps]
  /\ writes \in Stamps
  /\ foreign \subseteq Stamps
  /\ failed \subseteq Stamps
  /\ stage \in [Goroutines -> Stages]
  /\ thread \in [Workers -> Threads]
  /\ wrote \in [Workers -> Stamps]
  /\ scanned \in [Workers -> SUBSET Threads]
  /\ listing \in [Threads -> Stamps]
  /\ snapshot \in [Threads -> Stamps]
  /\ found \subseteq Threads
  /\ pending \subseteq Threads
  /\ subscribers \subseteq Channels
  /\ closed \subseteq Channels
  /\ recipients \in [Goroutines -> SUBSET Channels]
  /\ queue \in [Channels -> 0..Cap]
  /\ paused \in BOOLEAN
  /\ panicked \in BOOLEAN
  /\ stale \in [Channels -> BOOLEAN]
  /\ view \in [Channels -> [Threads -> Stamps]]
  /\ since \in [Channels -> Stamps]

NoFiles == [t \in Threads |-> 0]

(* New and StartPoller, over an empty directory; the first scan waits for no *)
(* tick.                                                                   *)
Init ==
  /\ disk = NoFiles /\ writes = 0 /\ foreign = {} /\ failed = {}
  /\ stage = [g \in Goroutines |-> IF g = Poller THEN "ticked" ELSE "idle"]
  /\ thread \in [Workers -> Threads]
  /\ wrote = [w \in Workers |-> 0]
  /\ scanned = [w \in Workers |-> {}]
  /\ listing = NoFiles /\ snapshot = NoFiles /\ found = {}
  /\ pending = {} /\ subscribers = {} /\ closed = {}
  /\ recipients = [g \in Goroutines |-> {}]
  /\ queue = [c \in Channels |-> 0]
  /\ paused = FALSE /\ panicked = FALSE
  /\ stale = [c \in Channels |-> FALSE]
  /\ view = [c \in Channels |-> NoFiles]
  /\ since = [c \in Channels |-> 0]

At(g, s) == stage[g] = s
Goto(g, s) == stage' = [stage EXCEPT ![g] = s]

-----------------------------------------------------------------------------
(* Writes to the directory.                                                *)

Stamp(t) ==
  /\ writes < MaxWrites
  /\ writes' = writes + 1
  /\ disk' = [disk EXCEPT ![t] = writes + 1]

(* A handler of thread/create, thread/addComment or thread/setStatus has   *)
(* written the thread.  Create has the thread in hand; the others read it  *)
(* back.                                                                   *)
Mutate(w) ==
  /\ ~panicked /\ At(w, "idle")
  /\ \E t \in Threads :
       /\ Stamp(t)
       /\ thread' = [thread EXCEPT ![w] = t]
       /\ wrote' = [wrote EXCEPT ![w] = writes + 1]
       /\ Goto(w, IF disk[t] = 0 THEN "viewed" ELSE "written")
  /\ UNCHANGED <<foreign, failed, scanned, pollVars, pending, subscribers, closed, recipients,
                 queue, paused, panicked, clientVars>>

(* s.Get(threadID), which is FindThread: the directory is listed, and its  *)
(* files are read one by one.                                              *)
ListThreads(w) ==
  /\ ~panicked /\ At(w, "written")
  /\ scanned' = [scanned EXCEPT ![w] = {t \in Threads : disk[t] # 0}]
  /\ Goto(w, "reading")
  /\ UNCHANGED <<fileVars, thread, wrote, pollVars, pending, subscribers, closed, recipients,
                 queue, paused, panicked, clientVars>>

Found(w) ==
  /\ thread[w] \in scanned[w] /\ disk[thread[w]] # 0
  /\ Goto(w, "viewed")
  /\ scanned' = [scanned EXCEPT ![w] = {}]
  /\ UNCHANGED <<wrote, failed, panicked>>

(* A file has gone since it was listed, or cannot be read or parsed: the   *)
(* handler returns the error, without a mark and without an event.         *)
Unread(w) ==
  /\ failed' = failed \cup {wrote[w]}
  /\ wrote' = [wrote EXCEPT ![w] = 0]
  /\ Goto(w, "idle")
  /\ scanned' = [scanned EXCEPT ![w] = {}]
  /\ UNCHANGED panicked

(* Get is nil when the thread was not listed; view.Thread.ID is read       *)
(* without a check.                                                        *)
Missing(w) ==
  /\ thread[w] \notin scanned[w]
  /\ panicked' = TRUE
  /\ UNCHANGED <<stage, wrote, scanned, failed>>

(* Which file is read when, and which comes first of the thread's and one  *)
(* that cannot be read, is left open.                                      *)
ReadBack(w) ==
  /\ ~panicked /\ At(w, "reading")
  /\ Found(w) \/ Unread(w) \/ Missing(w)
  /\ UNCHANGED <<disk, writes, foreign, thread, pollVars, pending, subscribers, closed,
                 recipients, queue, paused, clientVars>>

(* Mutant of Mark: a thread that is already marked is not announced again. *)
MarkOnce(w) ==
  /\ ~panicked /\ At(w, "viewed")
  /\ pending' = pending \cup {thread[w]}
  /\ wrote' = [wrote EXCEPT ![w] = 0]
  /\ Goto(w, IF thread[w] \in pending THEN "idle" ELSE "ready")
  /\ UNCHANGED <<fileVars, thread, scanned, pollVars, subscribers, closed, recipients, queue, paused,
                 panicked, clientVars>>

(* markPendingWrite *)
Mark(w) ==
  /\ ~panicked /\ At(w, "viewed")
  /\ pending' = pending \cup {thread[w]}
  /\ wrote' = [wrote EXCEPT ![w] = 0]
  /\ Goto(w, "ready")
  /\ UNCHANGED <<fileVars, thread, scanned, pollVars, subscribers, closed, recipients, queue, paused,
                 panicked, clientVars>>

ForeignWrite ==
  /\ ~panicked /\ "write" \in Foreign
  /\ \E t \in Threads : Stamp(t)
  /\ foreign' = foreign \cup {writes + 1}
  /\ UNCHANGED <<failed, stage, workVars, pollVars, pending, subscribers, closed, recipients,
                 queue, paused, panicked, clientVars>>

ForeignRemove ==
  /\ ~panicked /\ "remove" \in Foreign
  /\ \E t \in Threads : disk[t] # 0 /\ disk' = [disk EXCEPT ![t] = 0]
  /\ UNCHANGED <<writes, foreign, failed, stage, workVars, pollVars, pending, subscribers,
                 closed, recipients, queue, paused, panicked, clientVars>>

-----------------------------------------------------------------------------
(* The poller.                                                             *)

(* a tick is skipped while the poller is paused *)
Tick ==
  /\ ~panicked /\ At(Poller, "idle") /\ ~paused
  /\ Goto(Poller, "ticked")
  /\ UNCHANGED <<fileVars, workVars, pollVars, pending, subscribers, closed, recipients, queue,
                 paused, panicked, clientVars>>

List ==
  /\ ~panicked /\ At(Poller, "ticked")
  /\ listing' = disk
  /\ Goto(Poller, "listed")
  /\ UNCHANGED <<fileVars, workVars, snapshot, found, pending, subscribers, closed, recipients,
                 queue, paused, panicked, clientVars>>

(* Mutant of Build: the directory is listed again for the snapshot. *)
BuildAnew ==
  /\ ~panicked /\ At(Poller, "listed")
  /\ found' = {t \in Threads : listing[t] \notin {0, snapshot[t]} /\ disk[t] # 0}
  /\ snapshot' = disk
  /\ listing' = NoFiles
  /\ Goto(Poller, IF found' = {} THEN "idle" ELSE "built")
  /\ UNCHANGED <<fileVars, workVars, pending, subscribers, closed, recipients, queue,
                 paused, panicked, clientVars>>

(* diff, buildEvent and the new snapshot.  Added and modified files are    *)
(* read again and left out when they are gone; removed ones add nothing,   *)
(* and an event without threads is not delivered.                          *)
Build ==
  /\ ~panicked /\ At(Poller, "listed")
  /\ found' = {t \in Threads : listing[t] \notin {0, snapshot[t]} /\ disk[t] # 0}
  /\ snapshot' = listing
  /\ listing' = NoFiles
  /\ Goto(Poller, IF found' = {} THEN "idle" ELSE "built")
  /\ UNCHANGED <<fileVars, workVars, pending, subscribers, closed, recipients, queue,
                 paused, panicked, clientVars>>

(* Mutant of Filter: an event is dropped with the last of its threads,     *)
(* whatever files it names.                                                *)
FilterThreads ==
  /\ ~panicked /\ At(Poller, "built")
  /\ pending' = pending \ found
  /\ found' = {}
  /\ Goto(Poller, IF found \subseteq pending THEN "idle" ELSE "ready")
  /\ UNCHANGED <<fileVars, workVars, listing, snapshot, subscribers, closed, recipients, queue, paused,
                 panicked, clientVars>>

(* notifyFromPoller: the marks of the event's threads are used up; files   *)
(* keep an event alive that has lost all its threads.                      *)
Filter ==
  /\ ~panicked /\ At(Poller, "built")
  /\ pending' = pending \ found
  /\ found' = {}
  /\ Goto(Poller, IF found \subseteq pending /\ found \cap Anchored = {} THEN "idle" ELSE "ready")
  /\ UNCHANGED <<fileVars, workVars, listing, snapshot, subscribers, closed, recipients, queue, paused,
                 panicked, clientVars>>

-----------------------------------------------------------------------------
(* notify, called by handlers and by the poller.                           *)

CopySubscribers(g) ==
  /\ ~panicked /\ At(g, "ready")
  /\ recipients' = [recipients EXCEPT ![g] = subscribers]
  /\ Goto(g, "sending")
  /\ UNCHANGED <<fileVars, workVars, pollVars, pending, subscribers, closed, queue, paused,
                 panicked, clientVars>>

(* Mutant of Send: a full channel takes one more. *)
SendAlways(g) ==
  /\ ~panicked
  /\ \E c \in recipients[g] :
       IF c \in closed
       THEN panicked' = TRUE /\ UNCHANGED <<recipients, queue>>
       ELSE /\ recipients' = [recipients EXCEPT ![g] = @ \ {c}]
            /\ queue' = [queue EXCEPT ![c] = @ + 1]
            /\ UNCHANGED panicked
  /\ UNCHANGED <<fileVars, stage, workVars, pollVars, pending, subscribers, closed, paused,
                 clientVars>>

(* a send that does not block: a full channel is skipped, a closed one panics *)
Send(g) ==
  /\ ~panicked
  /\ \E c \in recipients[g] :
       IF c \in closed
       THEN panicked' = TRUE /\ UNCHANGED <<recipients, queue>>
       ELSE /\ recipients' = [recipients EXCEPT ![g] = @ \ {c}]
            /\ queue' = [queue EXCEPT ![c] = IF @ < Cap THEN @ + 1 ELSE @]
            /\ UNCHANGED panicked
  /\ UNCHANGED <<fileVars, stage, workVars, pollVars, pending, subscribers, closed, paused,
                 clientVars>>

Sent(g) ==
  /\ ~panicked /\ At(g, "sending") /\ recipients[g] = {}
  /\ Goto(g, "idle")
  /\ UNCHANGED <<fileVars, workVars, pollVars, pending, subscribers, closed, recipients, queue,
                 paused, panicked, clientVars>>

-----------------------------------------------------------------------------
(* Subscribers and their clients.                                          *)

(* A client reads all threads once it has attached.  Or it has done so     *)
(* before: the daemon serves its client before it subscribes it            *)
(* (cli_daemon.go starts SubscribeAndNotify beside Serve).  What it has    *)
(* read by then is of no account; it is to hear of changes from now on.    *)
Attach(c) ==
  \/ stale' = [stale EXCEPT ![c] = TRUE] /\ UNCHANGED since
  \/ since' = [since EXCEPT ![c] = writes] /\ UNCHANGED stale

(* Mutant of Subscribe: the poller is not resumed. *)
SubscribeOnly(c) ==
  /\ ~panicked /\ c \notin subscribers \cup closed
  /\ subscribers' = subscribers \cup {c}
  /\ Attach(c)
  /\ UNCHANGED <<fileVars, stage, workVars, pollVars, pending, closed, recipients, queue,
                 paused, panicked, view>>

(* the first subscriber resumes the poller *)
Subscribe(c) ==
  /\ ~panicked /\ c \notin subscribers \cup closed
  /\ subscribers' = subscribers \cup {c}
  /\ paused' = (paused /\ subscribers # {})
  /\ Attach(c)
  /\ UNCHANGED <<fileVars, stage, workVars, pollVars, pending, closed, recipients, queue,
                 panicked, view>>

(* The client is gone with its channel. *)
Unsubscribe(c) ==
  /\ ~panicked /\ c \in subscribers
  /\ subscribers' = subscribers \ {c}
  /\ closed' = closed \cup {c}
  /\ paused' = (paused \/ subscribers = {c})
  /\ queue' = [queue EXCEPT ![c] = 0]
  /\ stale' = [stale EXCEPT ![c] = FALSE]
  /\ view' = [view EXCEPT ![c] = NoFiles]
  /\ since' = [since EXCEPT ![c] = 0]
  /\ UNCHANGED <<fileVars, stage, workVars, pollVars, pending, recipients, panicked>>

(* SubscribeAndNotify takes an event and sends thread/didChange *)
Receive(c) ==
  /\ ~panicked
  /\ c \in subscribers /\ queue[c] > 0
  /\ queue' = [queue EXCEPT ![c] = @ - 1]
  /\ stale' = [stale EXCEPT ![c] = TRUE]
  /\ UNCHANGED <<fileVars, stage, workVars, pollVars, pending, subscribers, closed, recipients,
                 paused, panicked, view, since>>

Refresh(c) ==
  /\ ~panicked
  /\ c \in subscribers /\ stale[c]
  /\ view' = [view EXCEPT ![c] = disk]
  /\ stale' = [stale EXCEPT ![c] = FALSE]
  /\ UNCHANGED <<fileVars, stage, workVars, pollVars, pending, subscribers, closed, recipients,
                 queue, paused, panicked, since>>

Handle(w) == ListThreads(w) \/ ReadBack(w) \/ Mark(w)
Notify(g) == CopySubscribers(g) \/ Send(g) \/ Sent(g)
Scan == Tick \/ List \/ Build \/ Filter
Follow(c) == Receive(c) \/ Refresh(c)

Next ==
  \/ \E w \in Workers : Mutate(w) \/ Handle(w)
  \/ ForeignWrite \/ ForeignRemove
  \/ Scan
  \/ \E g \in Goroutines : Notify(g)
  \/ \E c \in Channels : Subscribe(c) \/ Unsubscribe(c) \/ Follow(c)

Spec == Init /\ [][Next]_vars

(* Handlers, the ticker and the client's event loop go on; requests, other *)
(* processes and subscriptions owe nothing.                                *)
Fairness ==
  /\ \A w \in Workers : WF_vars(Handle(w))
  /\ \A g \in Goroutines : WF_vars(Notify(g))
  /\ WF_vars(Scan)
  /\ \A c \in Channels : WF_vars(Refresh(c)) /\ WF_vars(Receive(c))

FairSpec == Spec /\ Fairness

-----------------------------------------------------------------------------

(* What will make c's client read thread t again: it is about to, or an    *)
(* event is in its channel, or a goroutine is on its way to send one, or   *)
(* the poller has still to see the change.                                 *)
Announcing(g, c) == At(g, "ready") \/ c \in recipients[g]

PollerAnnounces(t) ==
  \/ snapshot[t] # disk[t]
  \/ At(Poller, "built") /\ t \in found /\ (t \notin pending \/ found \cap Anchored # {})

WorkerAnnounces(w, t) ==
  thread[w] = t /\ wrote[w] = disk[t] /\ stage[w] \in {"written", "reading", "viewed"}

Announced(c, t) ==
  \/ stale[c] \/ queue[c] > 0
  \/ \E g \in Goroutines : Announcing(g, c)
  \/ PollerAnnounces(t)
  \/ \E w \in Workers : WorkerAnnounces(w, t)

(* What c's client is to learn of thread t: that it is not as it knows it, *)
(* from a change since it was subscribed.  If no file keeps an event about *)
(* t alive, a mark may have used up the poller's, and only a handler that  *)
(* did its work announces the change.                                      *)
Owed(c, t) ==
  /\ disk[t] \notin {0, view[c][t]} /\ disk[t] > since[c]
  /\ t \in Anchored \/ disk[t] \notin foreign \cup failed

(* No change of a thread is missed (poller.go:21, "Poller watches .nota/   *)
(* for changes and notifies subscribers") by a client that is owed it,     *)
(* whoever writes, removes, fails or is interrupted.  A full channel loses *)
(* nothing: what it holds is enough.                                       *)
ChangesAnnounced ==
  ~panicked => \A c \in subscribers, t \in Threads : Owed(c, t) => Announced(c, t)

(* The same of any thread and any change: not so for one without anchors.  *)
(* A mark that an earlier write left behind swallows the poller's event    *)
(* of a foreign change, or of one whose handler could not read it back     *)
(* (mutate.go:67).                                                         *)
AllAnnounced ==
  ~panicked => \A c \in subscribers, t \in Threads :
                 disk[t] \notin {0, view[c][t]} /\ disk[t] > since[c] => Announced(c, t)

(* poller.go:244-246: for a removed thread "we emit a generic event",      *)
(* clients "refresh their view when they receive any change event".        *)
RemovalsAnnounced ==
  ~panicked => \A c \in subscribers, t \in Threads :
                 disk[t] = 0 /\ view[c][t] # 0 => Announced(c, t)

(* The poller rests only when nobody is left to tell (service.go:106 and   *)
(* 127), whatever the order of subscriptions.                              *)
PausedAlone == paused => subscribers = {}

(* service.go:161, "Filter out thread IDs that were written by the         *)
(* service": a change of another process is never filtered.                *)
FilteredIsOwn ==
  [][At(Poller, "built") /\ ~At(Poller, "built")' => \A t \in found \cap pending : snapshot[t] \notin foreign]_vars

(* notify sends to all subscribers (service.go:140), whoever unsubscribes  *)
(* in the meantime, and the daemon lives on.                               *)
NoPanic == ~panicked

(* A client that stays subscribed comes to know the threads it is owed as  *)
(* they are, again and again and for good once they no longer change.      *)
ClientsConverge ==
  \A c \in Channels :
    [](c \in subscribers =>
         <>(c \notin subscribers \/ panicked \/ \A t \in Threads : ~Owed(c, t)))
=============================================================================
