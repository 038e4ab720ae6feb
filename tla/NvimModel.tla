------------------------------ MODULE NvimModel ------------------------------
(***************************************************************************)
(* The editor's copy of the threads: nvim/lua/nota/model.lua keeps all     *)
(* threads of a repository in a cache and draws a mark in every attached   *)
(* buffer for the threads of its file.  A change notification makes it     *)
(* list all threads again.  Requests are answered in any order, and only   *)
(* the answer to the latest one counts.                                    *)
(*                                                                         *)
(* A buffer stands for its file, and the threads of a file for the number  *)
(* of changes they have seen.  The daemon announces every change           *)
(* (ChangeFeed); a session without a restart delivers that (NvimTransport).*)
(***************************************************************************)
EXTENDS Integers, Sequences, FiniteSets

CONSTANTS
    Buffers,
    MaxChanges,
    MaxRefreshes,  \* bound on the requests for all threads
    MaxAttaches    \* bound on how often a buffer is attached

ASSUME ModelAssumption == {MaxChanges, MaxRefreshes, MaxAttaches} \subseteq Nat

VARIABLES
    disk,        \* disk[b]: the threads of b's file as the daemon would list them
    changes,     \* how many changes there were
    events,      \* notifications under way: the files each one names
    cache,       \* repo_state.threads
    loaded,      \* repo_state.loaded
    generation,  \* repo_state.generation
    requests,    \* the refreshes that have no answer yet
    attached,    \* the buffers that have a state
    attaches,    \* attaches[b]: which state of b that is
    marks,       \* marks[b]: the threads b's marks were drawn for
    dropped,     \* history: buffers named by a refresh that a later one or an error dropped
    failed       \* history: the latest refresh that was answered got an error

repoVars == <<cache, loaded, generation, requests>>
bufferVars == <<attached, attaches, marks>>
modelVars == <<disk, changes, events, repoVars, bufferVars, dropped, failed>>

NotListed == <<>>

ModelInit ==
    /\ disk = [b \in Buffers |-> 0]
    /\ changes = 0
    /\ events = <<>>
    /\ cache = [b \in Buffers |-> 0]
    /\ loaded = FALSE
    /\ generation = 0
    /\ requests = {}
    /\ attached = {}
    /\ attaches = [b \in Buffers |-> 0]
    /\ marks = [b \in Buffers |-> 0]
    /\ dropped = {}
    /\ failed = FALSE

-----------------------------------------------------------------------------
(* refresh_repo: a new generation, and a request whose callback draws the  *)
(* buffers of `files` that are attached, in the state they have now or,    *)
(* when an event asks, in any.                                             *)

RefreshRepo(files, states) ==
    /\ generation < MaxRefreshes
    /\ generation' = generation + 1
    /\ requests' = requests \cup {[gen |-> generation + 1, files |-> files,
                                   states |-> states, listed |-> NotListed]}
    /\ UNCHANGED <<cache, loaded>>

AnyState(files) == [b \in files |-> 1 .. MaxAttaches]

OwnState(b) == [f \in {b} |-> {attaches'[b]}]

(* The buffers that the callback of a request draws.                       *)
Draws(req) == {b \in attached \cap req.files : attaches[b] \in req.states[b]}

(* update_buffer_marks.                                                    *)
Drawn(buffers, threads) == [b \in Buffers |-> IF b \in buffers THEN threads[b] ELSE marks[b]]

-----------------------------------------------------------------------------
(* The daemon.                                                             *)

(* A thread of one file changes, and a notification names the file.        *)
Change(b) ==
    /\ changes < MaxChanges
    /\ changes' = changes + 1
    /\ disk' = [disk EXCEPT ![b] = @ + 1]
    /\ events' = Append(events, {b})
    /\ UNCHANGED <<repoVars, bufferVars, dropped, failed>>

(* thread/list reads the directory.                                        *)
List(req) ==
    /\ req.listed = NotListed
    /\ requests' = (requests \ {req}) \cup {[req EXCEPT !.listed = disk]}
    /\ UNCHANGED <<disk, changes, events, cache, loaded, generation, bufferVars, dropped,
                   failed>>

-----------------------------------------------------------------------------
(* The model.                                                              *)

(* Mutant of OnChange: a refresh that is under way will do.                *)
OnChangeLazily ==
    /\ events # <<>>
    /\ events' = Tail(events)
    /\ IF requests # {} THEN UNCHANGED repoVars
       ELSE RefreshRepo(Head(events), AnyState(Head(events)))
    /\ UNCHANGED <<disk, changes, bufferVars, dropped, failed>>

(* on_change_handler.                                                      *)
OnChange ==
    /\ events # <<>>
    /\ events' = Tail(events)
    /\ RefreshRepo(Head(events), AnyState(Head(events)))
    /\ UNCHANGED <<disk, changes, bufferVars, dropped, failed>>

(* Mutant of Counts: every answer counts.                                  *)
CountsAlways(req) == req \in requests

Counts(req) == req.gen = generation

(* An answer to the latest request fills the cache and draws; any other is *)
(* dropped, with the drawing it was asked for.                             *)
Reply(req) ==
    /\ req.listed # NotListed
    /\ requests' = requests \ {req}
    /\ IF Counts(req)
       THEN /\ cache' = req.listed
            /\ loaded' = TRUE
            /\ marks' = Drawn(Draws(req), req.listed)
            /\ dropped' = dropped \ Draws(req)
            /\ failed' = FALSE
       ELSE /\ dropped' = dropped \cup req.files
            /\ UNCHANGED <<cache, loaded, marks, failed>>
    /\ UNCHANGED <<disk, changes, events, generation, attached, attaches>>

(* The daemon reports an error, or the connection is lost.                 *)
ReplyError(req) ==
    /\ requests' = requests \ {req}
    /\ dropped' = dropped \cup req.files
    /\ failed' = (failed \/ Counts(req))
    /\ UNCHANGED <<disk, changes, events, cache, loaded, generation, bufferVars>>

(* Mutant of Attach: a loaded cache is not drawn.                          *)
AttachUndrawn(b) ==
    /\ b \notin attached
    /\ attaches[b] < MaxAttaches
    /\ attached' = attached \cup {b}
    /\ attaches' = [attaches EXCEPT ![b] = @ + 1]
    /\ IF loaded THEN UNCHANGED <<marks, repoVars>>
       ELSE RefreshRepo({b}, OwnState(b)) /\ UNCHANGED marks
    /\ UNCHANGED <<disk, changes, events, dropped, failed>>

Attach(b) ==
    /\ b \notin attached
    /\ attaches[b] < MaxAttaches
    /\ attached' = attached \cup {b}
    /\ attaches' = [attaches EXCEPT ![b] = @ + 1]
    /\ IF loaded
       THEN marks' = Drawn({b}, cache) /\ UNCHANGED repoVars
       ELSE RefreshRepo({b}, OwnState(b)) /\ UNCHANGED marks
    /\ UNCHANGED <<disk, changes, events, dropped, failed>>

(* The marks of a detached buffer are cleared.                             *)
Detach(b) ==
    /\ b \in attached
    /\ attached' = attached \ {b}
    /\ marks' = [marks EXCEPT ![b] = 0]
    /\ UNCHANGED <<disk, changes, events, repoVars, attaches, dropped, failed>>

(* The user's refresh.                                                     *)
Refresh(b) ==
    /\ b \in attached
    /\ RefreshRepo({b}, [f \in {b} |-> {attaches[b]}])
    /\ UNCHANGED <<disk, changes, events, bufferVars, dropped, failed>>

(* ensure_loaded, for a picker that shows all threads.                     *)
EnsureLoaded ==
    /\ ~loaded
    /\ RefreshRepo({}, AnyState({}))
    /\ UNCHANGED <<disk, changes, events, bufferVars, dropped, failed>>

Answered == \E req \in requests : List(req) \/ Reply(req)

ModelNext ==
    \/ \E b \in Buffers : Change(b) \/ Attach(b) \/ Detach(b) \/ Refresh(b)
    \/ EnsureLoaded
    \/ OnChange
    \/ Answered
    \/ \E req \in requests : ReplyError(req)

ModelSpec == ModelInit /\ [][ModelNext]_modelVars

(* Notifications are delivered and requests answered.                      *)
ModelFairness == WF_modelVars(OnChange) /\ WF_modelVars(Answered)

FairModelSpec == ModelSpec /\ ModelFairness

-----------------------------------------------------------------------------
(* Properties.                                                             *)

(* The cache never goes back to threads as they were, however late an      *)
(* answer comes (refresh_repo's generation).                               *)
CacheMonotone == [][\A b \in Buffers : cache'[b] >= cache[b]]_modelVars

(* An attached buffer whose marks are not for the threads in the cache is  *)
(* still to be drawn, unless a refresh that would have was dropped: a      *)
(* notification or a request that names it is under way (attach,           *)
(* on_change_handler, update_buffer_marks).                                *)
MarksFollow ==
    loaded => \A b \in attached :
        \/ marks[b] = cache[b]
        \/ b \in dropped
        \/ \E i \in DOMAIN events : b \in events[i]
        \/ \E req \in requests : b \in Draws(req)

(* With every notification delivered and every request answered, the cache *)
(* becomes the directory, unless the last answer was an error              *)
(* (on_change_handler, refresh_repo).                                      *)
CacheConverges == <>[](events = <<>> /\ loaded /\ ~failed => cache = disk)
=============================================================================
