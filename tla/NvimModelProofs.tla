-------------------------- MODULE NvimModelProofs --------------------------
(***************************************************************************)
(* The editor's cache never goes back and its marks follow it, for any     *)
(* number of buffers, changes, refreshes and attachments.                  *)
(***************************************************************************)
EXTENDS NvimModel, TLAPS

States == UNION {[fs -> SUBSET (1 .. MaxAttaches)] : fs \in SUBSET Buffers}

RequestType ==
    [gen : 1 .. generation, files : SUBSET Buffers, states : States,
     listed : {NotListed} \cup [Buffers -> Nat]]

ModelTypeOK ==
    /\ disk \in [Buffers -> Nat]
    /\ changes \in Nat
    /\ events \in Seq(SUBSET Buffers)
    /\ cache \in [Buffers -> Nat]
    /\ loaded \in BOOLEAN
    /\ generation \in Nat
    /\ requests \subseteq RequestType
    /\ attached \subseteq Buffers
    /\ attaches \in [Buffers -> 0 .. MaxAttaches]
    /\ \A b \in attached : attaches[b] # 0
    /\ marks \in [Buffers -> Nat]
    /\ dropped \subseteq Buffers
    /\ failed \in BOOLEAN

(* A generation is one request's. *)
OneRequest == \A r, q \in requests : r.gen = q.gen => r = q

(* Nothing is newer than the directory, and the answer that will count is  *)
(* no older than the cache.                                                *)
AgeInv ==
    \A b \in Buffers :
        /\ cache[b] <= disk[b]
        /\ \A req \in requests : req.listed # NotListed =>
                /\ req.listed[b] <= disk[b]
                /\ Counts(req) => cache[b] <= req.listed[b]

CacheInv == ModelTypeOK /\ OneRequest /\ AgeInv

Announced(b) == \E i \in DOMAIN events : b \in events[i]

(* A request that an event made, which draws b in any state. *)
Refreshing(b) == \E req \in requests : b \in req.files /\ req.states[b] = 1 .. MaxAttaches

(* What the answer that counts leaves out of a file is announced. *)
ListedInv ==
    \A req \in requests, b \in Buffers :
        Counts(req) /\ req.listed # NotListed /\ req.listed[b] # disk[b] => Announced(b)

(* What the cache lacks of a file is announced, asked for, or dropped. *)
CachedInv ==
    \A b \in Buffers : cache[b] # disk[b] => Announced(b) \/ Refreshing(b) \/ b \in dropped

Drawing(b) == \E req \in requests : b \in Draws(req)

(* MarksFollow, and what it comes from before anything is loaded. *)
DrawnInv ==
    \A b \in attached :
        (loaded /\ marks[b] = cache[b]) \/ b \in dropped \/ Announced(b) \/ Drawing(b)

ModelInv == CacheInv /\ ListedInv /\ CachedInv /\ DrawnInv

-----------------------------------------------------------------------------
(* Types.                                                                  *)

LEMMA StatesType ==
  /\ \A files \in SUBSET Buffers : AnyState(files) \in States
  /\ \A b \in Buffers, n \in 1 .. MaxAttaches : [f \in {b} |-> {n}] \in States
<1>1. ASSUME NEW files \in SUBSET Buffers PROVE AnyState(files) \in States
  <2>1. AnyState(files) \in [files -> SUBSET (1 .. MaxAttaches)]
    BY DEF AnyState
  <2> QED
    BY <2>1 DEF States
<1>2. ASSUME NEW b \in Buffers, NEW n \in 1 .. MaxAttaches PROVE [f \in {b} |-> {n}] \in States
  <2>1. [f \in {b} |-> {n}] \in [{b} -> SUBSET (1 .. MaxAttaches)]
    OBVIOUS
  <2> QED
    BY <2>1 DEF States
<1> QED
  BY <1>1, <1>2

LEMMA DrawnType ==
  ASSUME ModelTypeOK, NEW buffers, NEW content \in [Buffers -> Nat]
  PROVE  Drawn(buffers, content) \in [Buffers -> Nat]
BY DEF ModelTypeOK, Drawn

(* A refresh adds a request with a generation of its own. *)
LEMMA RefreshRequests ==
  ASSUME ModelTypeOK, NEW files \in SUBSET Buffers, NEW states \in States,
         RefreshRepo(files, states)
  PROVE  generation' \in Nat /\ requests' \subseteq RequestType'
<1> DEFINE req == [gen |-> generation + 1, files |-> files, states |-> states, listed |-> NotListed]
<1>1. generation' = generation + 1 /\ generation' \in Nat
  BY DEF RefreshRepo, ModelTypeOK
<1>2. req \in RequestType'
  <2>1. req.gen \in 1 .. generation'
    BY <1>1 DEF ModelTypeOK
  <2> QED
    BY <2>1 DEF RequestType
<1>3. requests \subseteq RequestType'
  BY <1>1 DEF ModelTypeOK, RequestType
<1> QED
  BY <1>1, <1>2, <1>3 DEF RefreshRepo

LEMMA ModelTypeInit == ModelInit => ModelTypeOK
<1> SUFFICES ASSUME ModelInit PROVE ModelTypeOK
  OBVIOUS
<1>1. attaches \in [Buffers -> 0 .. MaxAttaches]
  BY ModelAssumption DEF ModelInit
<1>2. events \in Seq(SUBSET Buffers)
  BY DEF ModelInit
<1>3. loaded \in BOOLEAN /\ failed \in BOOLEAN
  BY Zenon DEF ModelInit
<1> QED
  BY <1>1, <1>2, <1>3 DEF ModelInit, ModelTypeOK

LEMMA ModelTypeStep == ASSUME ModelTypeOK, [ModelNext]_modelVars PROVE ModelTypeOK'
<1> USE DEF repoVars, bufferVars
<1>1. ASSUME NEW b \in Buffers, Change(b) PROVE ModelTypeOK'
  BY SMTT(30), <1>1 DEF Change, ModelTypeOK, RequestType
<1>2. ASSUME NEW b \in Buffers, Attach(b) PROVE ModelTypeOK'
  <2>1. attaches' \in [Buffers -> 0 .. MaxAttaches] /\ attaches'[b] \in 1 .. MaxAttaches
    BY <1>2, ModelAssumption DEF Attach, ModelTypeOK
  <2>2. attached' \subseteq Buffers /\ \A a \in attached' : attaches'[a] # 0
    BY <1>2, <2>1 DEF Attach, ModelTypeOK
  <2>3. CASE loaded
    <3>1. marks' \in [Buffers -> Nat]
      BY SMTT(30), <1>2, <2>3, DrawnType DEF Attach, ModelTypeOK
    <3> QED
      BY <1>2, <2>1, <2>2, <2>3, <3>1 DEF Attach, ModelTypeOK, RequestType
  <2>4. CASE ~loaded
    <3>1. OwnState(b) \in States
      BY <2>1, StatesType DEF OwnState
    <3>2. generation' \in Nat /\ requests' \subseteq RequestType'
      BY <1>2, <2>4, <3>1, RefreshRequests DEF Attach
    <3> QED
      BY <1>2, <2>1, <2>2, <2>4, <3>2 DEF Attach, RefreshRepo, ModelTypeOK
  <2> QED
    BY <2>3, <2>4
<1>3. ASSUME NEW b \in Buffers, Detach(b) PROVE ModelTypeOK'
  BY <1>3 DEF Detach, ModelTypeOK, RequestType
<1>4. ASSUME NEW b \in Buffers, Refresh(b) PROVE ModelTypeOK'
  <2>1. attaches[b] \in 1 .. MaxAttaches
    BY <1>4, ModelAssumption DEF Refresh, ModelTypeOK
  <2> DEFINE states == [f \in {b} |-> {attaches[b]}]
  <2>2. states \in States
    BY <2>1, StatesType
  <2> HIDE DEF states
  <2>3. RefreshRepo({b}, states)
    BY <1>4 DEF Refresh, states
  <2>4. generation' \in Nat /\ requests' \subseteq RequestType'
    BY <2>2, <2>3, RefreshRequests
  <2> QED
    BY <1>4, <2>4 DEF Refresh, RefreshRepo, ModelTypeOK
<1>5. ASSUME EnsureLoaded PROVE ModelTypeOK'
  <2>1. generation' \in Nat /\ requests' \subseteq RequestType'
    BY <1>5, StatesType, RefreshRequests DEF EnsureLoaded
  <2> QED
    BY <1>5, <2>1 DEF EnsureLoaded, RefreshRepo, ModelTypeOK
<1>6. ASSUME OnChange PROVE ModelTypeOK'
  <2>1. Head(events) \in SUBSET Buffers /\ events' \in Seq(SUBSET Buffers)
    BY <1>6 DEF OnChange, ModelTypeOK
  <2>2. generation' \in Nat /\ requests' \subseteq RequestType'
    BY <1>6, <2>1, StatesType, RefreshRequests DEF OnChange
  <2> QED
    BY <1>6, <2>1, <2>2 DEF OnChange, RefreshRepo, ModelTypeOK
<1>7. ASSUME NEW req \in requests, List(req) PROVE ModelTypeOK'
  <2>1. [req EXCEPT !.listed = disk] \in RequestType
    BY <1>7 DEF ModelTypeOK, RequestType
  <2> QED
    BY <1>7, <2>1 DEF List, ModelTypeOK, RequestType
<1>8. ASSUME NEW req \in requests, Reply(req) PROVE ModelTypeOK'
  <2>1. req.listed \in [Buffers -> Nat] /\ req.files \subseteq Buffers
    BY <1>8 DEF Reply, ModelTypeOK, RequestType
  <2>2. CASE Counts(req)
    <3>1. marks' \in [Buffers -> Nat]
      BY <1>8, <2>1, <2>2, DrawnType DEF Reply
    <3> QED
      BY <1>8, <2>1, <2>2, <3>1 DEF Reply, ModelTypeOK, RequestType
  <2>3. CASE ~Counts(req)
    BY <1>8, <2>1, <2>3 DEF Reply, ModelTypeOK, RequestType
  <2> QED
    BY <2>2, <2>3
<1>9. ASSUME NEW req \in requests, ReplyError(req) PROVE ModelTypeOK'
  <2>1. failed' \in BOOLEAN
    BY <1>9, Zenon DEF ReplyError, ModelTypeOK
  <2>2. dropped' \subseteq Buffers
    BY <1>9 DEF ReplyError, ModelTypeOK, RequestType
  <2> QED
    BY <1>9, <2>1, <2>2 DEF ReplyError, ModelTypeOK, RequestType
<1>10. CASE UNCHANGED modelVars
  BY <1>10 DEF modelVars, ModelTypeOK, RequestType
<1> QED
  BY <1>1, <1>2, <1>3, <1>4, <1>5, <1>6, <1>7, <1>8, <1>9, <1>10 DEF ModelNext, Answered

-----------------------------------------------------------------------------
(* The cache.                                                              *)

(* What a step can do to the requests and the cache. *)
LEMMA RepoStep ==
  ASSUME ModelTypeOK, [ModelNext]_modelVars
  PROVE  \/ UNCHANGED repoVars /\ \A b \in Buffers : disk[b] <= disk'[b]
         \/ UNCHANGED disk /\ \E files, states : RefreshRepo(files, states)
         \/ \E req \in requests : List(req) \/ Reply(req) \/ ReplyError(req)
<1>1. ASSUME NEW b \in Buffers, Change(b)
      PROVE  UNCHANGED repoVars /\ \A a \in Buffers : disk[a] <= disk'[a]
  BY <1>1 DEF Change, ModelTypeOK
<1>2. ASSUME UNCHANGED disk
      PROVE  \A a \in Buffers : disk[a] <= disk'[a]
  BY <1>2 DEF ModelTypeOK
<1>3. ASSUME NEW b \in Buffers, Attach(b)
      PROVE  UNCHANGED disk /\ (UNCHANGED repoVars \/ \E files, states : RefreshRepo(files, states))
  BY <1>3 DEF Attach
<1>4. ASSUME NEW b \in Buffers, Detach(b) PROVE UNCHANGED disk /\ UNCHANGED repoVars
  BY <1>4 DEF Detach
<1>5. ASSUME NEW b \in Buffers, Refresh(b)
      PROVE  UNCHANGED disk /\ \E files, states : RefreshRepo(files, states)
  BY <1>5 DEF Refresh
<1>6. ASSUME EnsureLoaded \/ OnChange
      PROVE  UNCHANGED disk /\ \E files, states : RefreshRepo(files, states)
  BY <1>6 DEF EnsureLoaded, OnChange
<1>7. ASSUME UNCHANGED modelVars PROVE UNCHANGED disk /\ UNCHANGED repoVars
  BY <1>7 DEF modelVars
<1> QED
  BY <1>1, <1>2, <1>3, <1>4, <1>5, <1>6, <1>7 DEF ModelNext, Answered

LEMMA CacheStep ==
  ASSUME CacheInv, [ModelNext]_modelVars
  PROVE  OneRequest' /\ AgeInv' /\ \A b \in Buffers : cache[b] <= cache'[b]
<1> USE DEF CacheInv, OneRequest, AgeInv, Counts
<1>1. CASE UNCHANGED repoVars /\ \A b \in Buffers : disk[b] <= disk'[b]
  <2>1. \A b \in Buffers : disk[b] \in Nat /\ disk'[b] \in Nat /\ cache[b] \in Nat
    BY ModelTypeStep DEF ModelTypeOK
  <2>2. \A req \in requests, b \in Buffers : req.listed # NotListed => req.listed[b] \in Nat
    BY DEF ModelTypeOK, RequestType
  <2> QED
    BY <1>1, <2>1, <2>2 DEF repoVars
<1>2. ASSUME UNCHANGED disk, NEW files, NEW states, RefreshRepo(files, states)
      PROVE  OneRequest' /\ AgeInv' /\ \A b \in Buffers : cache[b] <= cache'[b]
  <2> DEFINE new == [gen |-> generation + 1, files |-> files, states |-> states, listed |-> NotListed]
  <2>1. generation \in Nat /\ generation' = generation + 1 /\ requests' = requests \cup {new}
    BY <1>2 DEF RefreshRepo, ModelTypeOK
  <2>2. \A req \in requests : req.gen \in Nat /\ req.gen <= generation
    BY DEF ModelTypeOK, RequestType
  <2>3. new.gen = generation + 1 /\ new.listed = NotListed
    OBVIOUS
  <2> HIDE DEF new
  <2>4. OneRequest'
    BY <2>1, <2>2, <2>3
  <2>5. AgeInv'
    BY <1>2, <2>1, <2>2, <2>3 DEF RefreshRepo
  <2> QED
    BY <1>2, <2>4, <2>5 DEF RefreshRepo, ModelTypeOK
<1>3. ASSUME NEW req \in requests, List(req)
      PROVE  OneRequest' /\ AgeInv' /\ \A b \in Buffers : cache[b] <= cache'[b]
  <2> DEFINE new == [req EXCEPT !.listed = disk]
  <2>1. new.gen = req.gen /\ new.listed = disk
    BY DEF ModelTypeOK, RequestType
  <2> HIDE DEF new
  <2>2. requests' = (requests \ {req}) \cup {new} /\ UNCHANGED <<disk, cache, generation>>
    BY <1>3 DEF List, new
  <2>3. OneRequest' /\ AgeInv'
    BY <2>1, <2>2 DEF ModelTypeOK
  <2> QED
    BY <2>2, <2>3 DEF ModelTypeOK
<1>4. ASSUME NEW req \in requests, Reply(req)
      PROVE  OneRequest' /\ AgeInv' /\ \A b \in Buffers : cache[b] <= cache'[b]
  <2>1. OneRequest'
    BY <1>4 DEF Reply
  <2>2. requests' = requests \ {req} /\ UNCHANGED <<disk, generation>>
    BY <1>4 DEF Reply
  <2>3. CASE Counts(req)
    <3>1. cache' = req.listed /\ req.listed # NotListed
      BY <1>4, <2>3 DEF Reply
    <3>2. \A q \in requests' : ~Counts(q)'
      BY <2>2, <2>3
    <3> QED
      BY <2>1, <2>2, <2>3, <3>1, <3>2
  <2>4. CASE ~Counts(req)
    BY <1>4, <2>1, <2>2, <2>4 DEF Reply, ModelTypeOK
  <2> QED
    BY <2>3, <2>4
<1>5. ASSUME NEW req \in requests, ReplyError(req)
      PROVE  OneRequest' /\ AgeInv' /\ \A b \in Buffers : cache[b] <= cache'[b]
  BY <1>5 DEF ReplyError, ModelTypeOK
<1> QED
  BY <1>1, <1>2, <1>3, <1>4, <1>5, RepoStep

(* Nothing in the editor is newer than the directory, each generation is   *)
(* one request's, and the one answer that will count is no older than the  *)
(* cache (refresh_repo).                                                   *)
THEOREM CacheInvariance == ModelSpec => []CacheInv
<1>1. ModelInit => CacheInv
  BY ModelTypeInit DEF CacheInv, ModelInit, OneRequest, AgeInv
<1>2. CacheInv /\ [ModelNext]_modelVars => CacheInv'
  BY ModelTypeStep, CacheStep DEF CacheInv
<1> QED
  BY <1>1, <1>2, PTL DEF ModelSpec

(* The cache never goes back to threads as they were, in whatever order    *)
(* the daemon answers and whichever answers are lost (refresh_repo's       *)
(* generation).                                                            *)
THEOREM CacheNeverOlder == ModelSpec => CacheMonotone
<1>1. CacheInv /\ [ModelNext]_modelVars
        => [\A b \in Buffers : cache'[b] >= cache[b]]_modelVars
  <2> SUFFICES ASSUME CacheInv, [ModelNext]_modelVars, NEW b \in Buffers
               PROVE  cache'[b] >= cache[b]
    OBVIOUS
  <2> QED
    BY CacheStep, ModelTypeStep DEF CacheInv, ModelTypeOK
<1> QED
  BY <1>1, CacheInvariance, PTL DEF ModelSpec, CacheMonotone

-----------------------------------------------------------------------------
(* The marks.                                                              *)

LEMMA ChangeAnnounced ==
  ASSUME ModelTypeOK, NEW a \in Buffers, Change(a), NEW b \in Buffers
  PROVE  (Announced(b) \/ b = a) => Announced(b)'
<1>1. events' = Append(events, {a}) /\ Len(events) \in Nat
  BY DEF Change, ModelTypeOK
<1>2. DOMAIN events = 1 .. Len(events) /\ DOMAIN events' = 1 .. Len(events) + 1
  BY <1>1 DEF ModelTypeOK
<1>3. events'[Len(events) + 1] = {a} /\ \A i \in 1 .. Len(events) : events'[i] = events[i]
  BY <1>1 DEF ModelTypeOK
<1> QED
  BY <1>1, <1>2, <1>3 DEF Announced

LEMMA HandledAnnounced ==
  ASSUME ModelTypeOK, events # <<>>, events' = Tail(events), NEW b, Announced(b)
  PROVE  Announced(b)' \/ b \in Head(events)
<1>1. PICK i \in DOMAIN events : b \in events[i]
  BY DEF Announced
<1>2. CASE i = 1
  BY <1>1, <1>2 DEF ModelTypeOK
<1>3. CASE i # 1
  <2>1. i - 1 \in DOMAIN Tail(events) /\ Tail(events)[i - 1] = events[i]
    BY <1>1, <1>3 DEF ModelTypeOK
  <2> QED
    BY <1>1, <2>1 DEF Announced
<1> QED
  BY <1>2, <1>3

LEMMA RefreshListed ==
  ASSUME ModelTypeOK, NEW files, NEW states, RefreshRepo(files, states)
  PROVE  ListedInv'
<1>1. \A req \in requests : req.gen <= generation /\ req.gen \in Nat
  BY DEF ModelTypeOK, RequestType
<1>2. generation \in Nat /\ generation' = generation + 1
  BY DEF RefreshRepo, ModelTypeOK
<1>3. ASSUME NEW req \in requests', Counts(req)' PROVE req.listed = NotListed
  BY <1>1, <1>2, <1>3 DEF RefreshRepo, Counts
<1> QED
  BY <1>3 DEF ListedInv

LEMMA ListedStep ==
  ASSUME CacheInv, ListedInv, [ModelNext]_modelVars
  PROVE  ListedInv'
<1> USE DEF CacheInv
<1>1. ASSUME NEW a \in Buffers, Change(a) PROVE ListedInv'
  <2>1. UNCHANGED <<requests, generation>> /\ \A b \in Buffers : b # a => disk'[b] = disk[b]
    BY <1>1 DEF Change, ModelTypeOK, repoVars
  <2> QED
    BY <1>1, <2>1, ChangeAnnounced DEF ListedInv, Counts
<1>2. ASSUME UNCHANGED <<disk, events, requests, generation>> PROVE ListedInv'
  BY <1>2 DEF ListedInv, Counts, Announced
<1>3. ASSUME NEW b \in Buffers, Attach(b) \/ Detach(b) \/ Refresh(b) PROVE ListedInv'
  BY <1>2, <1>3, RefreshListed DEF Attach, Detach, Refresh, repoVars
<1>4. ASSUME EnsureLoaded \/ OnChange PROVE ListedInv'
  BY <1>4, RefreshListed DEF EnsureLoaded, OnChange
<1>5. ASSUME NEW req \in requests, List(req) PROVE ListedInv'
  <2> DEFINE new == [req EXCEPT !.listed = disk]
  <2>1. new.listed = disk
    BY DEF ModelTypeOK, RequestType
  <2> HIDE DEF new
  <2>2. requests' = (requests \ {req}) \cup {new} /\ UNCHANGED <<disk, events, generation>>
    BY <1>5 DEF List, new
  <2> QED
    BY <2>1, <2>2 DEF ListedInv, Counts, Announced
<1>6. ASSUME NEW req \in requests, Reply(req) \/ ReplyError(req) PROVE ListedInv'
  <2>1. requests' \subseteq requests /\ UNCHANGED <<disk, events, generation>>
    BY <1>6 DEF Reply, ReplyError
  <2> QED
    BY <2>1 DEF ListedInv, Counts, Announced
<1>7. CASE UNCHANGED modelVars
  BY <1>2, <1>7 DEF modelVars, repoVars
<1> QED
  BY <1>1, <1>3, <1>4, <1>5, <1>6, <1>7 DEF ModelNext, Answered

(* A request that is added, or listed, still refreshes and draws what it   *)
(* did.                                                                    *)
LEMMA RefreshKeeps ==
  ASSUME NEW files, NEW states, RefreshRepo(files, states)
  PROVE  requests \subseteq requests'
BY DEF RefreshRepo

LEMMA CachedStep ==
  ASSUME CacheInv, ListedInv, CachedInv, [ModelNext]_modelVars
  PROVE  CachedInv'
<1> USE DEF CacheInv
<1>1. ASSUME NEW a \in Buffers, Change(a) PROVE CachedInv'
  <2>1. UNCHANGED <<requests, cache, dropped>> /\ \A b \in Buffers : b # a => disk'[b] = disk[b]
    BY <1>1 DEF Change, ModelTypeOK, repoVars
  <2> QED
    BY <1>1, <2>1, ChangeAnnounced DEF CachedInv, Refreshing
<1>2. ASSUME UNCHANGED <<disk, events, cache, dropped>>, requests \subseteq requests' PROVE CachedInv'
  BY <1>2 DEF CachedInv, Refreshing, Announced
<1>3. ASSUME NEW b \in Buffers, Attach(b) \/ Detach(b) \/ Refresh(b) PROVE CachedInv'
  BY <1>2, <1>3, RefreshKeeps DEF Attach, Detach, Refresh, RefreshRepo, repoVars
<1>4. ASSUME EnsureLoaded PROVE CachedInv'
  BY <1>2, <1>4, RefreshKeeps DEF EnsureLoaded, RefreshRepo
<1>5. ASSUME OnChange PROVE CachedInv'
  <2> DEFINE new == [gen |-> generation + 1, files |-> Head(events),
                     states |-> AnyState(Head(events)), listed |-> NotListed]
  <2>1. new \in requests' /\ requests \subseteq requests' /\ UNCHANGED <<disk, cache, dropped>>
    BY <1>5 DEF OnChange, RefreshRepo
  <2>2. \A b \in Head(events) : b \in new.files /\ new.states[b] = 1 .. MaxAttaches
    BY DEF AnyState
  <2> HIDE DEF new
  <2>3. \A b \in Head(events) : Refreshing(b)'
    BY <2>1, <2>2 DEF Refreshing
  <2>4. \A b \in Buffers : Announced(b) => Announced(b)' \/ b \in Head(events)
    BY <1>5, HandledAnnounced DEF OnChange
  <2> QED
    BY <2>1, <2>3, <2>4 DEF CachedInv, Refreshing
<1>6. ASSUME NEW req \in requests, List(req) PROVE CachedInv'
  <2> DEFINE new == [req EXCEPT !.listed = disk]
  <2>1. new.files = req.files /\ new.states = req.states
    BY DEF ModelTypeOK, RequestType
  <2> HIDE DEF new
  <2>2. requests' = (requests \ {req}) \cup {new} /\ UNCHANGED <<disk, events, cache, dropped>>
    BY <1>6 DEF List, new
  <2> QED
    BY <2>1, <2>2 DEF CachedInv, Refreshing, Announced
<1>7. ASSUME NEW req \in requests, Reply(req) PROVE CachedInv'
  <2>1. requests' = requests \ {req} /\ UNCHANGED <<disk, events>>
    BY <1>7 DEF Reply
  <2>2. CASE Counts(req)
    <3>1. cache' = req.listed /\ req.listed # NotListed
      BY <1>7, <2>2 DEF Reply
    <3> QED
      BY <2>1, <2>2, <3>1 DEF CachedInv, ListedInv, Announced
  <2>3. CASE ~Counts(req)
    BY <1>7, <2>1, <2>3 DEF Reply, CachedInv, Refreshing, Announced
  <2> QED
    BY <2>2, <2>3
<1>8. ASSUME NEW req \in requests, ReplyError(req) PROVE CachedInv'
  BY <1>8 DEF ReplyError, CachedInv, Refreshing, Announced
<1>9. CASE UNCHANGED modelVars
  BY <1>2, <1>9 DEF modelVars, repoVars
<1> QED
  BY <1>1, <1>3, <1>4, <1>5, <1>6, <1>7, <1>8, <1>9 DEF ModelNext, Answered

(* A buffer whose state does not change is still drawn by the requests     *)
(* that stay.                                                              *)
LEMMA DrawingKeeps ==
  ASSUME NEW b, b \in attached', attaches'[b] = attaches[b],
         NEW req \in requests', b \in Draws(req)
  PROVE  Drawing(b)'
BY DEF Draws, Drawing

LEMMA AttachDrawn ==
  ASSUME CacheInv, DrawnInv, NEW b \in Buffers, Attach(b)
  PROVE  DrawnInv'
<1> USE DEF CacheInv
<1>1. UNCHANGED <<events, dropped, cache, loaded>> /\ requests \subseteq requests'
  BY RefreshKeeps DEF Attach, RefreshRepo, repoVars
<1>2. attached' = attached \cup {b} /\ b \notin attached /\ attaches'[b] \in 1 .. MaxAttaches
  BY ModelAssumption DEF Attach, ModelTypeOK
<1>3. \A a \in Buffers : a # b => attaches'[a] = attaches[a] /\ marks'[a] = marks[a]
  BY DEF Attach, Drawn, ModelTypeOK
<1>4. ASSUME NEW a \in attached
      PROVE  (loaded' /\ marks'[a] = cache'[a]) \/ a \in dropped' \/ Announced(a)' \/ Drawing(a)'
  <2>1. a # b /\ a \in Buffers
    BY <1>2 DEF ModelTypeOK
  <2>2. Drawing(a) => Drawing(a)'
    BY <1>1, <1>2, <1>3, <2>1, DrawingKeeps DEF Drawing, Draws
  <2> QED
    BY <1>1, <1>3, <2>1, <2>2 DEF DrawnInv, Announced
<1>5. CASE loaded
  <2>1. marks'[b] = cache'[b]
    BY <1>1, <1>5 DEF Attach, Drawn
  <2> QED
    BY <1>1, <1>2, <1>4, <1>5, <2>1 DEF DrawnInv
<1>6. CASE ~loaded
  <2> DEFINE new == [gen |-> generation + 1, files |-> {b}, states |-> OwnState(b), listed |-> NotListed]
  <2>1. new \in requests'
    BY <1>6 DEF Attach, RefreshRepo
  <2>2. b \in new.files /\ attaches'[b] \in new.states[b]
    BY DEF OwnState
  <2> HIDE DEF new
  <2>3. Drawing(b)'
    BY <1>2, <2>1, <2>2 DEF Drawing, Draws
  <2> QED
    BY <1>2, <1>4, <2>3 DEF DrawnInv
<1> QED
  BY <1>5, <1>6

(* The answer that counts: a buffer it does not draw either is drawn for   *)
(* what the answer says, or something is still to come.                    *)
LEMMA ReplyDrawn ==
  ASSUME CacheInv, ListedInv, CachedInv, DrawnInv, NEW req \in requests, Reply(req)
  PROVE  DrawnInv'
<1> USE DEF CacheInv
<1>1. requests' = requests \ {req} /\ UNCHANGED <<disk, events, attached, attaches>>
  BY DEF Reply
<1> SUFFICES ASSUME NEW b \in attached'
             PROVE  (loaded' /\ marks'[b] = cache'[b]) \/ b \in dropped' \/ Announced(b)' \/ Drawing(b)'
  BY DEF DrawnInv
<1>2. b \in attached /\ b \in Buffers /\ attaches[b] \in 1 .. MaxAttaches
  BY <1>1, ModelAssumption DEF ModelTypeOK
<1>3. Announced(b) => Announced(b)'
  BY <1>1 DEF Announced
<1>4. ASSUME NEW q \in requests, q # req, b \in Draws(q) PROVE Drawing(b)'
  BY <1>1, <1>2, <1>4, DrawingKeeps
<1>5. CASE Counts(req)
  <2>1. cache' = req.listed /\ req.listed # NotListed /\ loaded' /\ dropped' = dropped \ Draws(req)
        /\ marks' = Drawn(Draws(req), req.listed)
    BY <1>5 DEF Reply
  <2>2. CASE b \in Draws(req)
    BY <1>2, <2>1, <2>2 DEF Drawn
  <2>3. CASE b \notin Draws(req)
    <3>1. marks'[b] = marks[b] /\ (b \in dropped => b \in dropped')
      BY <1>2, <2>1, <2>3 DEF Drawn
    <3>2. Drawing(b) => Drawing(b)'
      BY <1>4, <2>3 DEF Drawing
    <3>3. CASE loaded /\ marks[b] = cache[b]
      <4>1. req.listed[b] = disk[b] \/ Announced(b)
        BY <1>2, <1>5, <2>1 DEF ListedInv
      <4>2. Refreshing(b) => Drawing(b)
        BY <1>2 DEF Refreshing, Drawing, Draws
      <4>3. cache[b] = disk[b] \/ Announced(b) \/ Drawing(b) \/ b \in dropped
        BY <1>2, <4>2 DEF CachedInv
      <4> QED
        BY <1>3, <2>1, <3>1, <3>2, <3>3, <4>1, <4>3
    <3> QED
      BY <1>2, <1>3, <3>1, <3>2, <3>3 DEF DrawnInv
  <2> QED
    BY <2>2, <2>3
<1>6. CASE ~Counts(req)
  <2>1. dropped' = dropped \cup req.files /\ UNCHANGED <<cache, loaded, marks>>
    BY <1>6 DEF Reply
  <2>2. Drawing(b) => Drawing(b)' \/ b \in dropped'
    BY <1>4, <2>1 DEF Drawing, Draws
  <2> QED
    BY <1>2, <1>3, <2>1, <2>2 DEF DrawnInv
<1> QED
  BY <1>5, <1>6

LEMMA DrawnStep ==
  ASSUME CacheInv, ListedInv, CachedInv, DrawnInv, [ModelNext]_modelVars
  PROVE  DrawnInv'
<1> USE DEF CacheInv
<1>1. ASSUME NEW a \in Buffers, Change(a) PROVE DrawnInv'
  <2>1. UNCHANGED <<repoVars, bufferVars, dropped>>
    BY <1>1 DEF Change
  <2>2. \A b \in attached : Drawing(b) => Drawing(b)'
    BY <2>1 DEF Drawing, Draws, repoVars, bufferVars
  <2>3. \A b \in attached : Announced(b) => Announced(b)'
    BY <1>1, ChangeAnnounced DEF ModelTypeOK
  <2> QED
    BY <2>1, <2>2, <2>3 DEF DrawnInv, repoVars, bufferVars
<1>2. ASSUME UNCHANGED <<events, bufferVars, cache, loaded, dropped>>, requests \subseteq requests'
      PROVE  DrawnInv'
  <2>1. \A b \in attached : Drawing(b) => Drawing(b)'
    BY <1>2 DEF Drawing, Draws, bufferVars
  <2> QED
    BY <1>2, <2>1 DEF DrawnInv, Announced, bufferVars
<1>3. ASSUME NEW b \in Buffers, Attach(b) PROVE DrawnInv'
  BY <1>3, AttachDrawn
<1>4. ASSUME NEW b \in Buffers, Detach(b) PROVE DrawnInv'
  <2>1. UNCHANGED <<events, repoVars, dropped, attaches>> /\ attached' = attached \ {b}
    BY <1>4 DEF Detach
  <2>2. \A a \in attached' : marks'[a] = marks[a]
    BY <1>4 DEF Detach, ModelTypeOK
  <2>3. \A a \in attached' : Drawing(a) => Drawing(a)'
    BY <2>1 DEF Drawing, Draws, repoVars
  <2> QED
    BY <2>1, <2>2, <2>3 DEF DrawnInv, Announced, repoVars
<1>5. ASSUME NEW b \in Buffers, Refresh(b) PROVE DrawnInv'
  BY <1>2, <1>5, RefreshKeeps DEF Refresh, RefreshRepo
<1>6. ASSUME EnsureLoaded PROVE DrawnInv'
  BY <1>2, <1>6, RefreshKeeps DEF EnsureLoaded, RefreshRepo
<1>7. ASSUME OnChange PROVE DrawnInv'
  <2> DEFINE new == [gen |-> generation + 1, files |-> Head(events),
                     states |-> AnyState(Head(events)), listed |-> NotListed]
  <2>1. new \in requests' /\ requests \subseteq requests'
        /\ UNCHANGED <<bufferVars, cache, loaded, dropped>>
    BY <1>7 DEF OnChange, RefreshRepo
  <2>2. \A b \in Head(events) : b \in new.files /\ new.states[b] = 1 .. MaxAttaches
    BY DEF AnyState
  <2> HIDE DEF new
  <2>3. \A b \in attached : attaches[b] \in 1 .. MaxAttaches
    BY ModelAssumption DEF ModelTypeOK
  <2>4. \A b \in attached : b \in Head(events) \/ Drawing(b) => Drawing(b)'
    BY <2>1, <2>2, <2>3 DEF Drawing, Draws, bufferVars
  <2>5. \A b \in attached : Announced(b) => Announced(b)' \/ b \in Head(events)
    BY <1>7, HandledAnnounced DEF OnChange
  <2> QED
    BY <2>1, <2>4, <2>5 DEF DrawnInv, bufferVars
<1>8. ASSUME NEW req \in requests, List(req) PROVE DrawnInv'
  <2> DEFINE new == [req EXCEPT !.listed = disk]
  <2>1. new.files = req.files /\ new.states = req.states
    BY DEF ModelTypeOK, RequestType
  <2> HIDE DEF new
  <2>2. requests' = (requests \ {req}) \cup {new}
        /\ UNCHANGED <<events, cache, loaded, bufferVars, dropped>>
    BY <1>8 DEF List, new
  <2>3. \A b \in attached : Drawing(b) => Drawing(b)'
    BY <2>1, <2>2 DEF Drawing, Draws, bufferVars
  <2> QED
    BY <2>2, <2>3 DEF DrawnInv, Announced, bufferVars
<1>9. ASSUME NEW req \in requests, Reply(req) PROVE DrawnInv'
  BY <1>9, ReplyDrawn
<1>10. ASSUME NEW req \in requests, ReplyError(req) PROVE DrawnInv'
  <2>1. requests' = requests \ {req} /\ dropped' = dropped \cup req.files
        /\ UNCHANGED <<events, cache, loaded, bufferVars>>
    BY <1>10 DEF ReplyError
  <2>2. \A b \in attached : Drawing(b) => Drawing(b)' \/ b \in dropped'
    BY <2>1 DEF Drawing, Draws, bufferVars
  <2> QED
    BY <2>1, <2>2 DEF DrawnInv, Announced, bufferVars
<1>11. CASE UNCHANGED modelVars
  BY <1>2, <1>11 DEF modelVars, repoVars
<1> QED
  BY <1>1, <1>3, <1>4, <1>5, <1>6, <1>7, <1>8, <1>9, <1>10, <1>11 DEF ModelNext, Answered

LEMMA ModelInvariance == ModelSpec => []ModelInv
<1>1. ModelInit => ModelInv
  BY ModelTypeInit
  DEF ModelInit, ModelInv, CacheInv, OneRequest, AgeInv, ListedInv, CachedInv, DrawnInv
<1>2. ModelInv /\ [ModelNext]_modelVars => ModelInv'
  BY ModelTypeStep, CacheStep, ListedStep, CachedStep, DrawnStep DEF ModelInv, CacheInv
<1> QED
  BY <1>1, <1>2, PTL DEF ModelSpec

(* An attached buffer whose marks are not for the threads in the cache is  *)
(* still to be drawn, unless a refresh that would have was dropped: what a *)
(* cache lacks is announced or asked for, and the answer that counts lacks *)
(* only what is announced (attach, on_change_handler, refresh_repo).       *)
THEOREM MarksFollowCache == ModelSpec => []MarksFollow
<1>1. ModelInv => MarksFollow
  BY DEF ModelInv, DrawnInv, MarksFollow, Announced, Drawing
<1> QED
  BY <1>1, ModelInvariance, PTL
=============================================================================
