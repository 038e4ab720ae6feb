---------------------------- MODULE SessionProofs ----------------------------
(***************************************************************************)
(* A session of the editor with its daemons, for any number of daemons,    *)
(* calls and notifications: one daemon is fed at a time, a daemon whose    *)
(* stdin ended has answered everything, no call gets the response to       *)
(* another, and lines arrive whole.                                        *)
(***************************************************************************)
EXTENDS NvimTransport, FiniteSetTheorems, TLAPS

Requests == [id : Nat, call : Calls]

Messages(ds) ==
    [from : ds, kind : {"response"}, id : Nat, call : Calls]
        \cup [from : ds, kind : {"note"}, id : Nat]

Parts(ds) == Messages(ds) \X {1, 2}

Processes(d) ==
    [up : {"none", "serving", "draining", "dead"}, input : Seq(Requests), eof : BOOLEAN,
     deaf : BOOLEAN, running : SUBSET Requests, writing : SUBSET Messages({d}),
     output : Seq(Parts({d})), notes : Nat, cut : BOOLEAN]

Born == 1 .. used.spawns  \* the daemons there have been

Callbacks == [data : Parts(Born)] \cup [exit : Born]

Connections ==
    [state : {"idle", "connected", "error"}, attempts : Nat, handle : {NoDaemon} \cup Born,
     stdin : {NoDaemon} \cup Born, stdout : {NoDaemon} \cup Born,
     buffer : Seq(Parts(Born)), next_id : Nat, pending : SUBSET (Nat \X Calls)]

SessionTypeOK ==
    /\ used \in [spawns : 0 .. MaxDaemons, troubles : Nat]
    /\ daemon = [d \in Daemons |-> daemon[d]]
    /\ \A d \in Daemons : daemon[d] \in Processes(d)
    /\ conn \in Connections
    /\ scheduled \in Seq(Callbacks)
    /\ watched \subseteq Born
    /\ retries \in Nat
    /\ call \in [Calls -> {"new", "waiting", "returned", "hung"}]
    /\ answer \in [Calls -> Calls \cup {"none", "error"}]
    /\ mixed \in BOOLEAN
    /\ garbled \in BOOLEAN

(* The pipes of a connection are one daemon's, the last that was started,  *)
(* and a daemon's stdin is open as long as it is the connection's.         *)
PipesInv ==
    /\ conn.stdout = conn.handle
    /\ conn.stdin \in {NoDaemon, conn.handle}
    /\ conn.state # "connected" => conn.handle = NoDaemon
    /\ \A d \in Daemons :
        /\ d > used.spawns => daemon[d] = Unborn
        /\ d <= used.spawns => daemon[d].up # "none"
        /\ d <= used.spawns /\ ~daemon[d].eof => d = conn.stdin
        /\ d = conn.stdin => ~daemon[d].eof

(* A daemon drains, unless it was told to, when it has read all its input. *)
DrainInv ==
    \A d \in Daemons : ~daemon[d].cut =>
        /\ daemon[d].up \in {"draining", "dead"} => daemon[d].eof /\ daemon[d].input = <<>>
        /\ daemon[d].up = "dead" => daemon[d].running = {}

ServedInv == SessionTypeOK /\ PipesInv /\ DrainInv

-----------------------------------------------------------------------------
(* Every id is one call's. *)
Agrees(r) == r.id < conn.next_id /\ \A req \in conn.pending : req[1] = r.id => req[2] = r.call

AgreesMsg(msg) == msg.kind = "response" => Agrees(msg)

(* The requests that a daemon has not answered, and the messages on their  *)
(* way to a callback.                                                      *)
AskedOf(process) == process.running \cup Range(process.input)

SaidBy(process) == process.writing \cup {part[1] : part \in Range(process.output)}

Scheduled == {item \in Range(scheduled) : "data" \in DOMAIN item}

Asked == UNION {AskedOf(daemon[d]) : d \in Daemons}

Said ==
    (UNION {SaidBy(daemon[d]) : d \in Daemons})
        \cup {item.data[1] : item \in Scheduled}
        \cup {part[1] : part \in Range(conn.buffer)}

PendingInv ==
    /\ \A req \in conn.pending : req[1] < conn.next_id
    /\ \A p, q \in conn.pending : p[1] = q[1] => p = q

AnswerInv ==
    /\ PendingInv
    /\ \A r \in Asked : Agrees(r)
    /\ \A msg \in Said : AgreesMsg(msg)
    /\ AnswersMatch

-----------------------------------------------------------------------------
(* What the daemon at the other end writes is, through its pipe, the       *)
(* callbacks and the buffer, a sequence of parts in which the two parts of *)
(* a line follow each other.                                               *)

Follows(prev, part) == IF part[2] = 1 THEN prev[2] = 2 ELSE prev = <<part[1], 1>>

Ends(s, before) == IF s = <<>> THEN before ELSE s[Len(s)]

Start == <<NoDaemon, 2>>  \* the end of no line

BufferEnd == Ends(conn.buffer, Start)

Part(i) == IF i = 0 THEN BufferEnd ELSE scheduled[i].data

(* The first n callbacks bring output of the connection's daemon. *)
Clean(n) ==
    \A i \in 1 .. n : "data" \in DOMAIN scheduled[i] /\ scheduled[i].data[1].from = conn.handle

OutputPart(d, i) == IF i = 0 THEN Part(Len(scheduled)) ELSE daemon[d].output[i]

BufferChained == conn.buffer = <<>> \/ (Len(conn.buffer) = 1 /\ conn.buffer[1][2] = 1)

CallbacksChained == \A i \in DOMAIN scheduled : Clean(i) => Follows(Part(i - 1), scheduled[i].data)

OutputChained(d) ==
    LET end == OutputPart(d, Len(daemon[d].output))
    IN  /\ \A i \in DOMAIN daemon[d].output : Follows(OutputPart(d, i - 1), daemon[d].output[i])
        /\ daemon[d].writing = {} => end[2] = 2
        /\ \A msg \in daemon[d].writing : daemon[d].writing = {msg} /\ end = <<msg, 1>>

ChainInv ==
    ~mixed /\ conn.handle # NoDaemon =>
        /\ BufferChained
        /\ CallbacksChained
        /\ Clean(Len(scheduled)) => OutputChained(conn.handle)

LineInv == WholeLines /\ ChainInv

-----------------------------------------------------------------------------
(* Steps of a daemon.                                                      *)

Others(d) ==
    /\ daemon' = [e \in Daemons |-> daemon'[e]]
    /\ \A e \in Daemons : e # d => daemon'[e] = daemon[e]

Dies(d) == daemon'[d] = [daemon[d] EXCEPT !.up = "dead", !.cut = TRUE]

Begins(d, msg) ==
    /\ daemon[d].writing = {}
    /\ daemon'[d] = [daemon[d] EXCEPT !.writing = {msg}, !.output = Append(@, <<msg, 1>>),
                                      !.notes = IF msg.kind = "note" THEN @ + 1 ELSE @]

LEMMA BeginWriteStep ==
  ASSUME SessionTypeOK, NEW d \in Daemons, NEW msg, BeginWrite(d, msg)
  PROVE  Others(d) /\ Alive(d) /\ (Dies(d) \/ Begins(d, msg))
BY DEF SessionTypeOK, Processes, BeginWrite, MayWrite, Killed, Others, Dies, Begins

Finishes(d, msg) ==
    daemon'[d] = [daemon[d] EXCEPT !.writing = @ \ {msg}, !.output = Append(@, <<msg, 2>>),
                                   !.running = {req \in @ : Response(d, req) # msg}]

LEMMA EndWriteStep ==
  ASSUME SessionTypeOK, NEW d \in Daemons, EndWrite(d)
  PROVE  Others(d) /\ Alive(d) /\ \E msg \in daemon[d].writing : Dies(d) \/ Finishes(d, msg)
BY DEF SessionTypeOK, Processes, EndWrite, Killed, Others, Dies, Finishes

Takes(d) ==
    /\ daemon[d].up = "serving" /\ daemon[d].input # <<>>
    /\ daemon'[d] = [daemon[d] EXCEPT !.input = Tail(@),
                                      !.running = @ \cup {Head(daemon[d].input)}]

Drains(d) ==
    /\ daemon[d].up = "serving"
    /\ \/ /\ daemon[d].eof /\ daemon[d].input = <<>>
          /\ daemon'[d] = [daemon[d] EXCEPT !.up = "draining"]
       \/ daemon'[d] = [daemon[d] EXCEPT !.up = "draining", !.cut = TRUE]

Exits(d) ==
    /\ daemon[d].up = "draining" /\ daemon[d].running = {}
    /\ daemon'[d] = [daemon[d] EXCEPT !.up = "dead"]

(* Every step of a daemon is one of these. *)
DaemonSteps(d) ==
    \/ Dies(d) /\ Alive(d)
    \/ \E req \in daemon[d].running : Begins(d, Response(d, req)) /\ Alive(d)
    \/ Begins(d, Note(d)) /\ Alive(d)
    \/ \E msg \in daemon[d].writing : Finishes(d, msg) /\ Alive(d)
    \/ Takes(d) \/ Drains(d) \/ Exits(d)

LEMMA DaemonStep ==
  ASSUME SessionTypeOK, NEW d \in Daemons, Serves(d) \/ Notify(d) \/ Signal(d) \/ Crash(d)
  PROVE  Others(d) /\ DaemonSteps(d)
<1>1. CASE Take(d)
  BY <1>1 DEF Take, SessionTypeOK, Processes, Others, Takes, DaemonSteps
<1>2. CASE Respond(d)
  BY <1>2, BeginWriteStep DEF Respond, DaemonSteps
<1>3. CASE EndWrite(d)
  BY <1>3, EndWriteStep DEF DaemonSteps
<1>4. CASE EndOfInput(d)
  BY <1>4 DEF EndOfInput, SessionTypeOK, Processes, Others, Drains, DaemonSteps
<1>5. CASE Exit(d)
  BY <1>5 DEF Exit, SessionTypeOK, Processes, Others, Exits, DaemonSteps
<1>6. CASE Notify(d)
  BY <1>6, BeginWriteStep DEF Notify, DaemonSteps
<1>7. CASE Signal(d)
  BY <1>7 DEF Signal, SessionTypeOK, Processes, Others, Drains, DaemonSteps
<1>8. CASE Crash(d)
  BY <1>8 DEF Crash, Killed, SessionTypeOK, Processes, Others, Dies, DaemonSteps
<1> QED
  BY <1>1, <1>2, <1>3, <1>4, <1>5, <1>6, <1>7, <1>8 DEF Serves

LEMMA NoteType ==
  ASSUME SessionTypeOK, NEW d \in Daemons
  PROVE  /\ Note(d) \in Messages({d}) /\ Note(d).kind = "note" /\ Note(d).from = d
         /\ \A req \in Requests : LET msg == Response(d, req)
                                 IN  /\ msg \in Messages({d}) /\ msg.kind = "response"
                                     /\ msg.from = d /\ msg.id = req.id /\ msg.call = req.call
BY DEF SessionTypeOK, Processes, Note, Response, Messages, Requests

LEMMA DaemonType ==
  ASSUME SessionTypeOK, NEW d \in Daemons, Others(d), DaemonSteps(d)
  PROVE  daemon' = [e \in Daemons |-> daemon'[e]] /\ \A e \in Daemons : daemon'[e] \in Processes(e)
<1> SUFFICES daemon'[d] \in Processes(d)
  BY DEF Others, SessionTypeOK
<1>1. daemon[d] \in Processes(d)
  BY DEF SessionTypeOK
<1>2. ASSUME NEW msg \in Messages({d}), NEW n \in {1, 2}
      PROVE  Append(daemon[d].output, <<msg, n>>) \in Seq(Parts({d}))
  <2>1. <<msg, n>> \in Parts({d})
    BY DEF Parts
  <2>2. daemon[d].output \in Seq(Parts({d}))
    BY <1>1 DEF Processes
  <2> QED
    BY <2>1, <2>2
<1>3. ASSUME NEW msg \in Messages({d}), Begins(d, msg) PROVE daemon'[d] \in Processes(d)
  <2>1. (IF msg.kind = "note" THEN daemon[d].notes + 1 ELSE daemon[d].notes) \in Nat
    BY <1>1 DEF Processes
  <2>2. {msg} \in SUBSET Messages({d})
    OBVIOUS
  <2> QED
    BY <1>1, <1>2, <1>3, <2>1, <2>2 DEF Begins, Processes
<1>4. ASSUME NEW msg \in daemon[d].writing, Finishes(d, msg) PROVE daemon'[d] \in Processes(d)
  <2>1. msg \in Messages({d})
    BY <1>1 DEF Processes
  <2> QED
    BY <1>1, <1>2, <1>4, <2>1 DEF Finishes, Processes
<1>5. CASE Takes(d)
  <2>1. Head(daemon[d].input) \in Requests /\ Tail(daemon[d].input) \in Seq(Requests)
    BY <1>1, <1>5 DEF Takes, Processes
  <2>2. daemon[d].running \cup {Head(daemon[d].input)} \in SUBSET Requests
    BY <1>1, <2>1 DEF Processes
  <2> QED
    BY <1>1, <1>5, <2>1, <2>2 DEF Takes, Processes
<1>6. CASE Dies(d)
  BY <1>1, <1>6 DEF Dies, Processes
<1>7. CASE Drains(d)
  BY <1>1, <1>7 DEF Drains, Processes
<1>8. CASE Exits(d)
  BY <1>1, <1>8 DEF Exits, Processes
<1>9. daemon[d].running \subseteq Requests
  BY <1>1 DEF Processes
<1> QED
  BY <1>3, <1>4, <1>5, <1>6, <1>7, <1>8, <1>9, NoteType DEF DaemonSteps

-----------------------------------------------------------------------------
(* Steps of the editor.                                                    *)

(* What spawn() leaves alone when it starts nothing. *)
Unstarted(k) ==
    /\ k \in Connections
    /\ k = [conn EXCEPT !.state = k.state, !.attempts = k.attempts]
    /\ conn.state = "idle" => k.state # "connected"
    /\ conn.state # "idle" => k = conn

StartsLast(k) ==
    /\ conn.state = "idle"
    /\ used.spawns + 1 \in Daemons
    /\ k = Spawned(used.spawns + 1)

LEMMA AttemptedType ==
  ASSUME SessionTypeOK
  PROVE  /\ Attempted.conn \in Connections
         /\ Attempted.conn = [conn EXCEPT !.state = Attempted.conn.state, !.attempts = Attempted.conn.attempts]
         /\ Attempted.conn.state \in {"idle", "error"}
         /\ Attempted.retries \in Nat /\ Attempted.retries >= retries
<1> DEFINE state == IF GivesUp THEN "error" ELSE "idle"
           k == [conn EXCEPT !.attempts = @ + 1, !.state = state]
           again == IF GivesUp THEN retries ELSE retries + 1
<1>1. conn \in Connections /\ conn.attempts + 1 \in Nat /\ state \in {"idle", "error"}
  BY DEF SessionTypeOK, Connections
<1>2. again \in Nat /\ again >= retries
  BY DEF SessionTypeOK
<1>3. Attempted = [conn |-> k, retries |-> again]
  BY DEF Attempted
<1> HIDE DEF state, again
<1>4. k \in Connections /\ k.state = state /\ k = [conn EXCEPT !.state = k.state, !.attempts = k.attempts]
  BY <1>1 DEF Connections
<1> QED
  BY <1>1, <1>2, <1>3, <1>4

LEMMA SpawnsStep ==
  ASSUME SessionTypeOK, NEW result \in Spawns
  PROVE  /\ result.retries \in Nat /\ result.retries >= retries
         /\ \/ result.new = {} /\ Unstarted(result.conn)
            \/ result.new = {used.spawns + 1} /\ StartsLast(result.conn)
<1>1. CASE conn.state # "idle"
  <2>1. result = [conn |-> conn, retries |-> retries, new |-> {}]
    BY <1>1 DEF Spawns
  <2>2. result.conn = conn /\ result.retries = retries /\ result.new = {}
    BY <2>1
  <2>3. conn \in Connections /\ conn = [conn EXCEPT !.state = conn.state, !.attempts = conn.attempts]
    BY DEF SessionTypeOK, Connections
  <2> QED
    BY <1>1, <2>2, <2>3 DEF SessionTypeOK, Unstarted
<1>2. CASE conn.state = "idle" /\ result \in Failures
  <2>1. CASE result = [conn |-> Attempted.conn, retries |-> Attempted.retries, new |-> {}]
    <3>1. result.conn = Attempted.conn /\ result.retries = Attempted.retries /\ result.new = {}
      BY <2>1
    <3>2. Unstarted(Attempted.conn)
      BY <1>2, AttemptedType DEF Unstarted
    <3> QED
      BY <3>1, <3>2, AttemptedType
  <2>2. CASE result = [conn |-> [conn EXCEPT !.state = "error"], retries |-> retries, new |-> {}]
    <3> DEFINE k == [conn EXCEPT !.state = "error"]
    <3>1. result.conn = k /\ result.retries = retries /\ result.new = {}
      BY <2>2
    <3>2. k \in Connections /\ k = [conn EXCEPT !.state = k.state, !.attempts = k.attempts] /\ k.state = "error"
      BY DEF SessionTypeOK, Connections
    <3> HIDE DEF k
    <3> QED
      BY <1>2, <3>1, <3>2 DEF Unstarted, SessionTypeOK
  <2> QED
    BY <1>2, <2>1, <2>2 DEF Failures
<1>3. ASSUME conn.state = "idle", NEW n \in {used.spawns + 1} \cap Daemons,
             result = [conn |-> Spawned(n), retries |-> retries, new |-> {n}]
      PROVE  result.retries = retries /\ result.new = {used.spawns + 1} /\ StartsLast(result.conn)
  BY <1>3 DEF StartsLast
<1>4. CASE conn.state = "idle"
  BY <1>2, <1>3, <1>4 DEF Spawns, SessionTypeOK
<1> QED
  BY <1>1, <1>4

(* The types grow with the daemons there have been. *)
LEMMA TypesGrow ==
  ASSUME used.spawns \in Nat, used'.spawns \in Nat, used.spawns <= used'.spawns
  PROVE  /\ Born \subseteq Born'
         /\ Parts(Born) \subseteq Parts(Born')
         /\ Connections \subseteq Connections'
         /\ Seq(Callbacks) \subseteq Seq(Callbacks')
<1>1. Born \subseteq Born'
  BY DEF Born
<1>2. Messages(Born) \subseteq Messages(Born')
  BY <1>1 DEF Messages
<1>3. Parts(Born) \subseteq Parts(Born')
  BY <1>2 DEF Parts
<1>4. Seq(Parts(Born)) \subseteq Seq(Parts(Born'))
  BY <1>3
<1>5. Connections \subseteq Connections'
  BY <1>1, <1>4 DEF Connections
<1>6. Callbacks \subseteq Callbacks'
  BY <1>1, <1>3 DEF Callbacks
<1> QED
  BY <1>1, <1>3, <1>5, <1>6

(* What spawn() does to the counts, the daemons and the types. *)
LEMMA SpawnStep ==
  ASSUME SessionTypeOK, NEW result \in Spawns, NEW again, again.new = result.new, Spawn(again),
         again.retries \in Nat
  PROVE  /\ used' \in [spawns : 0 .. MaxDaemons, troubles : Nat]
         /\ retries' \in Nat /\ watched' \subseteq Born'
         /\ used'.spawns \in Nat /\ used.spawns \in Nat /\ used.spawns <= used'.spawns
         /\ result.conn \in Connections'
         /\ Started(daemon, result.new) = [d \in Daemons |-> Started(daemon, result.new)[d]]
         /\ \A d \in Daemons : Started(daemon, result.new)[d] \in Processes(d)
         /\ \/ /\ result.new = {} /\ Unstarted(result.conn) /\ used'.spawns = used.spawns
               /\ Started(daemon, result.new) = daemon
            \/ /\ result.new = {used.spawns + 1} /\ StartsLast(result.conn)
               /\ used'.spawns = used.spawns + 1
               /\ Started(daemon, result.new)
                     = [daemon EXCEPT ![used'.spawns] = [daemon[used'.spawns] EXCEPT !.up = "serving"]]
<1> DEFINE trouble == IF conn.state = "idle" /\ again.new = {} THEN used.troubles + 1 ELSE used.troubles
<1>1. used \in [spawns : 0 .. MaxDaemons, troubles : Nat] /\ MaxDaemons \in Nat
  BY RpcAssumption DEF SessionTypeOK
<1>2. trouble \in Nat
  BY <1>1
<1>3. used' = [spawns |-> used.spawns + Cardinality(result.new), troubles |-> trouble]
  BY <1>1 DEF Spawn
<1>4. retries' \in Nat /\ watched' = watched \cup result.new
  BY DEF Spawn
<1> HIDE DEF trouble
<1>5. CASE result.new = {} /\ Unstarted(result.conn)
  <2>1. used'.spawns = used.spawns /\ used' \in [spawns : 0 .. MaxDaemons, troubles : Nat]
    <3>1. Cardinality(result.new) = 0
      BY <1>5, FS_EmptySet
    <3> QED
      BY <1>1, <1>2, <1>3, <3>1
  <2>2. Started(daemon, result.new) = daemon
    BY <1>5 DEF Started, SessionTypeOK
  <2>3. Connections \subseteq Connections' /\ Born \subseteq Born'
    BY <1>1, <2>1, TypesGrow
  <2> QED
    BY SMTT(30), <1>1, <1>4, <1>5, <2>1, <2>2, <2>3 DEF SessionTypeOK, Unstarted
<1>6. CASE result.new = {used.spawns + 1} /\ StartsLast(result.conn)
  <2>1. Cardinality(result.new) = 1
    BY <1>6, FS_Singleton
  <2>2. used'.spawns = used.spawns + 1 /\ used' \in [spawns : 0 .. MaxDaemons, troubles : Nat]
    BY <1>1, <1>2, <1>3, <1>6, <2>1 DEF StartsLast, Daemons
  <2>3. Started(daemon, result.new)
          = [daemon EXCEPT ![used'.spawns] = [daemon[used'.spawns] EXCEPT !.up = "serving"]]
    BY <1>1, <1>6, <2>2 DEF Started, SessionTypeOK, StartsLast
  <2>4. ASSUME NEW d \in Daemons PROVE Started(daemon, result.new)[d] \in Processes(d)
    <3>1. daemon[d] \in Processes(d)
      BY DEF SessionTypeOK
    <3>2. [daemon[d] EXCEPT !.up = "serving"] \in Processes(d)
      BY <3>1 DEF Processes
    <3> QED
      BY <3>1, <3>2 DEF Started
  <2>5. Started(daemon, result.new) = [d \in Daemons |-> Started(daemon, result.new)[d]]
    BY DEF Started
  <2>6. Connections \subseteq Connections' /\ Born \subseteq Born' /\ used.spawns + 1 \in Born'
    BY <1>1, <2>2, TypesGrow DEF Born
  <2>7. conn \in Connections'
    BY <2>6 DEF SessionTypeOK
  <2>8. Spawned(used.spawns + 1) \in Connections'
    <3>1. ASSUME NEW n \in Born' PROVE Spawned(n) \in Connections'
      <4>1. <<>> \in Seq(Parts(Born)')
        OBVIOUS
      <4> QED
        BY <2>7, <4>1 DEF Connections, Spawned
    <3> QED
      BY <2>6, <3>1
  <2>9. watched' \subseteq Born'
    BY <1>4, <1>6, <2>6 DEF SessionTypeOK
  <2>10. used'.spawns \in Nat /\ used.spawns \in Nat /\ used.spawns <= used'.spawns
    BY <1>1, <2>2
  <2>11. result.conn \in Connections'
    BY <1>6, <2>8 DEF StartsLast
  <2> QED
    BY <1>4, <1>6, <2>2, <2>3, <2>4, <2>5, <2>9, <2>10, <2>11
<1> QED
  BY <1>5, <1>6, SpawnsStep

Typed(ds) == ds = [d \in Daemons |-> ds[d]] /\ \A d \in Daemons : ds[d] \in Processes(d)

LEMMA BornDaemons ==
  ASSUME SessionTypeOK
  PROVE  Born \subseteq Daemons /\ NoDaemon \notin Daemons /\ Typed(daemon)
BY RpcAssumption DEF SessionTypeOK, Born, Daemons, NoDaemon, Typed

LEMMA CloseStep ==
  ASSUME NEW ds, Typed(ds), NEW d \in {NoDaemon} \cup Daemons
  PROVE  /\ Typed(CloseStdin(ds, d)) /\ Typed(CloseStdout(ds, d))
         /\ \A e \in Daemons : CloseStdin(ds, d)[e] = IF e = d THEN [ds[e] EXCEPT !.eof = TRUE] ELSE ds[e]
         /\ \A e \in Daemons : CloseStdout(ds, d)[e]
                = IF e = d THEN [ds[e] EXCEPT !.deaf = TRUE, !.output = <<>>] ELSE ds[e]
<1>1. NoDaemon \notin Daemons
  BY DEF Daemons, NoDaemon
<1>2. \A e \in Daemons : CloseStdin(ds, d)[e] = IF e = d THEN [ds[e] EXCEPT !.eof = TRUE] ELSE ds[e]
  BY <1>1 DEF CloseStdin, Typed
<1>3. \A e \in Daemons : CloseStdout(ds, d)[e]
        = IF e = d THEN [ds[e] EXCEPT !.deaf = TRUE, !.output = <<>>] ELSE ds[e]
  BY <1>1 DEF CloseStdout, Typed, Processes
<1>4. ASSUME NEW e \in Daemons
      PROVE  [ds[e] EXCEPT !.eof = TRUE] \in Processes(e)
             /\ [ds[e] EXCEPT !.deaf = TRUE, !.output = <<>>] \in Processes(e)
  <2>1. ds[e] \in Processes(e) /\ <<>> \in Seq(Parts({e}))
    BY DEF Typed
  <2> QED
    BY <2>1 DEF Processes
<1>5. CloseStdin(ds, d) = [e \in Daemons |-> CloseStdin(ds, d)[e]]
  BY DEF CloseStdin, Typed
<1>6. CloseStdout(ds, d) = [e \in Daemons |-> CloseStdout(ds, d)[e]]
  BY DEF CloseStdout, Typed
<1> QED
  BY <1>2, <1>3, <1>4, <1>5, <1>6 DEF Typed

LEMMA SendType ==
  ASSUME SessionTypeOK, NEW c \in Calls, NEW k \in Connections', NEW ds, Typed(ds),
         Born' \subseteq Daemons, k.stdin # NoDaemon, Send(c, k, ds)
  PROVE  /\ Typed(daemon') /\ conn' \in Connections'
         /\ call' \in [Calls -> {"new", "waiting", "returned", "hung"}]
         /\ k.stdin \in Daemons
         /\ \A e \in Daemons : daemon'[e] =
                IF e = k.stdin /\ ds[e].up # "dead"
                THEN [ds[e] EXCEPT !.input = Append(@, Request(k.next_id, c))] ELSE ds[e]
<1>1. k.stdin \in Daemons /\ k.next_id \in Nat
  BY DEF Connections
<1>2. Request(k.next_id, c) \in Requests
  BY <1>1 DEF Request, Requests
<1>3. \A e \in Daemons : daemon'[e] =
        IF e = k.stdin /\ ds[e].up # "dead"
        THEN [ds[e] EXCEPT !.input = Append(@, Request(k.next_id, c))] ELSE ds[e]
  BY <1>1 DEF Send, Typed
<1>4. ASSUME NEW e \in Daemons
      PROVE  [ds[e] EXCEPT !.input = Append(@, Request(k.next_id, c))] \in Processes(e)
  <2>1. ds[e] \in Processes(e)
    BY DEF Typed
  <2>2. Append(ds[e].input, Request(k.next_id, c)) \in Seq(Requests)
    BY <1>2, <2>1 DEF Processes
  <2> QED
    BY <2>1, <2>2 DEF Processes
<1>5. daemon' = [e \in Daemons |-> daemon'[e]]
  BY <1>1 DEF Send, Typed
<1>6. Typed(daemon')
  BY <1>3, <1>4, <1>5 DEF Typed
<1>7. conn' \in Connections'
  <2>1. k.next_id + 1 \in Nat /\ k.pending \cup {<<k.next_id, c>>} \in SUBSET (Nat \X Calls)
    BY <1>1 DEF Connections
  <2> QED
    BY <2>1 DEF Send, Connections
<1> QED
  BY <1>1, <1>3, <1>6, <1>7 DEF Send, SessionTypeOK

LEMMA SessionTypeInit == SessionInit => SessionTypeOK
<1> SUFFICES ASSUME SessionInit PROVE SessionTypeOK
  OBVIOUS
<1>1. Unborn.input \in Seq(Requests) /\ \A d : Unborn.output \in Seq(Parts({d}))
  BY DEF Unborn
<1>2. \A d : Unborn \in Processes(d)
  BY <1>1 DEF Processes, Unborn
<1>3. used \in [spawns : 0 .. MaxDaemons, troubles : Nat]
  BY RpcAssumption DEF SessionInit
<1>4. conn \in Connections
  <2>1. <<>> \in Seq(Parts(Born))
    OBVIOUS
  <2> QED
    BY <2>1 DEF SessionInit, NewConnection, Connections
<1>5. scheduled \in Seq(Callbacks)
  BY DEF SessionInit
<1>6. mixed \in BOOLEAN /\ garbled \in BOOLEAN
  BY Zenon DEF SessionInit
<1> QED
  BY <1>2, <1>3, <1>4, <1>5, <1>6 DEF SessionInit, RpcInit, SessionTypeOK

LEMMA FailPendingType ==
  ASSUME SessionTypeOK, FailPending
  PROVE  /\ call' \in [Calls -> {"new", "waiting", "returned", "hung"}]
         /\ answer' \in [Calls -> Calls \cup {"none", "error"}]
BY DEF SessionTypeOK, FailPending

LEMMA RpcCallType ==
  ASSUME SessionTypeOK, NEW c \in Calls, RpcCall(c)
  PROVE  SessionTypeOK'
<1>1. PICK result \in Spawns :
        /\ Spawn(result)
        /\ \/ \E k \in {result.conn, [result.conn EXCEPT !.next_id = @ + 1]} : Hang(c, k) /\ UNCHANGED daemon
           \/ result.conn.stdin # NoDaemon /\ Send(c, result.conn, Started(daemon, result.new))
  BY DEF RpcCall
<1>2. /\ used' \in [spawns : 0 .. MaxDaemons, troubles : Nat]
      /\ retries' \in Nat /\ watched' \subseteq Born'
      /\ used'.spawns \in Nat /\ used.spawns \in Nat /\ used.spawns <= used'.spawns
      /\ result.conn \in Connections' /\ Typed(Started(daemon, result.new))
  BY <1>1, SpawnsStep, SpawnStep DEF Typed
<1>3. scheduled' \in Seq(Callbacks') /\ UNCHANGED <<mixed, garbled>>
  BY <1>2, TypesGrow DEF RpcCall, SessionTypeOK
<1>4. ASSUME NEW k \in {result.conn, [result.conn EXCEPT !.next_id = @ + 1]}, Hang(c, k), UNCHANGED daemon
      PROVE  SessionTypeOK'
  <2>1. k \in Connections'
    BY SMTT(30), <1>2 DEF Connections
  <2> QED
    BY <1>2, <1>3, <1>4, <2>1 DEF Hang, SessionTypeOK
<1>5. ASSUME result.conn.stdin # NoDaemon, Send(c, result.conn, Started(daemon, result.new))
      PROVE  SessionTypeOK'
  <2>1. Born' \subseteq Daemons
    BY <1>2, RpcAssumption DEF Born, Daemons
  <2>2. /\ Typed(daemon') /\ conn' \in Connections'
        /\ call' \in [Calls -> {"new", "waiting", "returned", "hung"}]
    BY <1>2, <1>5, <2>1, SendType
  <2>3. answer' = answer
    BY <1>5 DEF Send
  <2> QED
    BY <1>2, <1>3, <2>2, <2>3 DEF Typed, SessionTypeOK
<1> QED
  BY <1>1, <1>4, <1>5

LEMMA RetryType ==
  ASSUME SessionTypeOK, Retry
  PROVE  SessionTypeOK'
<1>1. CASE conn.state = "error"
  BY <1>1 DEF Retry, SessionTypeOK, Connections, Callbacks, Born
<1>2. CASE conn.state # "error"
  <2>1. PICK result \in Spawns :
          /\ conn' = result.conn /\ daemon' = Started(daemon, result.new)
          /\ Spawn([result EXCEPT !.retries = @ - 1])
    BY <1>2 DEF Retry
  <2> DEFINE again == [result EXCEPT !.retries = @ - 1]
  <2>2. again.new = result.new /\ again.retries = result.retries - 1
    BY DEF Spawns, Failures
  <2>3. again.retries \in Nat
    BY <2>2, SpawnsStep DEF Retry, SessionTypeOK
  <2> HIDE DEF again
  <2>4. /\ used' \in [spawns : 0 .. MaxDaemons, troubles : Nat]
        /\ retries' \in Nat /\ watched' \subseteq Born'
        /\ used'.spawns \in Nat /\ used.spawns \in Nat /\ used.spawns <= used'.spawns
        /\ result.conn \in Connections' /\ Typed(Started(daemon, result.new))
    BY <2>1, <2>2, <2>3, SpawnStep DEF Typed, again
  <2>5. scheduled' \in Seq(Callbacks') /\ UNCHANGED <<call, answer, mixed, garbled>>
    BY <2>4, TypesGrow DEF Retry, SessionTypeOK
  <2> QED
    BY <2>1, <2>4, <2>5 DEF Typed, SessionTypeOK
<1> QED
  BY <1>1, <1>2

(* A step that starts no daemon keeps the types when it keeps each of      *)
(* these.                                                                  *)
LEMMA TypesKeep ==
  ASSUME SessionTypeOK, UNCHANGED used.spawns, used' \in [spawns : 0 .. MaxDaemons, troubles : Nat],
         Typed(daemon'), conn' \in Connections, scheduled' \in Seq(Callbacks),
         watched' \subseteq watched, retries' \in Nat, mixed' \in BOOLEAN, garbled' \in BOOLEAN,
         call' \in [Calls -> {"new", "waiting", "returned", "hung"}],
         answer' \in [Calls -> Calls \cup {"none", "error"}]
  PROVE  SessionTypeOK'
<1>1. used.spawns \in Nat /\ used'.spawns = used.spawns
  BY DEF SessionTypeOK
<1>2. Connections \subseteq Connections' /\ Seq(Callbacks) \subseteq Seq(Callbacks') /\ Born \subseteq Born'
  BY <1>1, TypesGrow
<1> QED
  BY <1>2 DEF SessionTypeOK, Typed

LEMMA ReadType ==
  ASSUME SessionTypeOK, Read
  PROVE  /\ SessionTypeOK'
         /\ conn.stdout \in Daemons /\ Others(conn.stdout)
         /\ daemon'[conn.stdout] = [daemon[conn.stdout] EXCEPT !.output = Tail(@)]
<1> DEFINE d == conn.stdout
<1>1. d \in Born /\ d \in Daemons /\ daemon[d] \in Processes(d)
  BY BornDaemons DEF Read, SessionTypeOK, Connections
<1>2. daemon[d].output \in Seq(Parts({d})) /\ daemon[d].output # <<>>
  BY <1>1 DEF Read, Processes
<1>3. Head(daemon[d].output) \in Parts({d}) /\ Tail(daemon[d].output) \in Seq(Parts({d}))
  BY <1>2
<1>4. Parts({d}) \subseteq Parts(Born)
  BY <1>1 DEF Parts, Messages
<1>5. scheduled' \in Seq(Callbacks)
  <2>1. [data |-> Head(daemon[d].output)] \in Callbacks
    BY <1>3, <1>4 DEF Callbacks
  <2> QED
    BY <2>1 DEF Read, SessionTypeOK
<1>6. /\ daemon' = [e \in Daemons |-> daemon'[e]]
      /\ daemon'[d] = [daemon[d] EXCEPT !.output = Tail(@)]
      /\ \A e \in Daemons : e # d => daemon'[e] = daemon[e]
  BY <1>1 DEF Read, SessionTypeOK
<1>7. daemon'[d] \in Processes(d)
  BY <1>1, <1>3, <1>6 DEF Processes
<1>8. Typed(daemon')
  BY <1>6, <1>7, BornDaemons DEF Typed
<1>9. SessionTypeOK'
  BY <1>5, <1>8, TypesKeep DEF Read, SessionTypeOK
<1> QED
  BY <1>1, <1>6, <1>9 DEF Others

LEMMA ReapType ==
  ASSUME SessionTypeOK, NEW d \in Daemons, Reap(d)
  PROVE  SessionTypeOK'
<1>1. [exit |-> d] \in Callbacks
  BY DEF Reap, SessionTypeOK, Callbacks
<1>2. scheduled' \in Seq(Callbacks)
  BY <1>1 DEF Reap, SessionTypeOK
<1> QED
  BY <1>2, TypesKeep, BornDaemons DEF Reap, SessionTypeOK

LEMMA DispatchType ==
  ASSUME SessionTypeOK, NEW line \in Seq(Parts(Born)), line # <<>>, Dispatch(line)
  PROVE  /\ conn' \in Connections /\ garbled' \in BOOLEAN
         /\ call' \in [Calls -> {"new", "waiting", "returned", "hung"}]
         /\ answer' \in [Calls -> Calls \cup {"none", "error"}]
<1> DEFINE msg == line[1][1]
           whole == line = <<<<msg, 1>>, <<msg, 2>>>>
           asked == {req \in conn.pending : msg.kind = "response" /\ req[1] = msg.id}
           callers == IF whole THEN {req[2] : req \in asked} ELSE {}
<1>1. line[1] \in Parts(Born)
  OBVIOUS
<1>2. msg \in Messages(Born)
  BY <1>1 DEF Parts
<1>3. msg.kind = "response" => msg.call \in Calls
  BY <1>2 DEF Messages
<1>4. callers # {} => msg.kind = "response"
  OBVIOUS
<1>5. garbled' = (garbled \/ ~whole)
  BY DEF Dispatch
<1>6. garbled' \in BOOLEAN
  BY <1>5, Zenon DEF SessionTypeOK
<1>7. /\ conn' = [conn EXCEPT !.buffer = <<>>, !.pending = {req \in @ : req[2] \notin callers}]
      /\ call' = [c \in Calls |-> IF c \in callers THEN "returned" ELSE call[c]]
      /\ answer' = [c \in Calls |-> IF c \in callers THEN msg.call ELSE answer[c]]
  BY DEF Dispatch
<1> HIDE DEF callers, msg
<1>8. conn' \in Connections
  <2>1. <<>> \in Seq(Parts(Born))
    OBVIOUS
  <2> QED
    BY <1>7, <2>1 DEF SessionTypeOK, Connections
<1> QED
  BY <1>3, <1>4, <1>6, <1>7, <1>8 DEF SessionTypeOK

LEMMA HandleStdoutType ==
  ASSUME SessionTypeOK, HandleStdout
  PROVE  /\ SessionTypeOK'
         /\ Head(scheduled).data \in Parts(Born)
         /\ Append(conn.buffer, Head(scheduled).data) \in Seq(Parts(Born))
<1> DEFINE part == Head(scheduled).data
           text == Append(conn.buffer, part)
<1>1. Head(scheduled) \in Callbacks /\ scheduled' \in Seq(Callbacks)
  BY DEF HandleStdout, SessionTypeOK
<1>2. part \in Parts(Born)
  BY <1>1 DEF HandleStdout, Callbacks
<1>3. conn.buffer \in Seq(Parts(Born))
  BY DEF SessionTypeOK, Connections
<1>4. text \in Seq(Parts(Born)) /\ text # <<>>
  BY <1>2, <1>3
<1>5. mixed' \in BOOLEAN
  BY Zenon DEF HandleStdout, SessionTypeOK
<1>6. \/ conn' = [conn EXCEPT !.buffer = text] /\ UNCHANGED <<call, answer, garbled>>
      \/ Dispatch(text)
  BY DEF HandleStdout
<1> HIDE DEF text
<1>7. /\ conn' \in Connections /\ garbled' \in BOOLEAN
      /\ call' \in [Calls -> {"new", "waiting", "returned", "hung"}]
      /\ answer' \in [Calls -> Calls \cup {"none", "error"}]
  <2>1. CASE conn' = [conn EXCEPT !.buffer = text] /\ UNCHANGED <<call, answer, garbled>>
    BY <1>4, <2>1 DEF SessionTypeOK, Connections
  <2>2. CASE Dispatch(text)
    BY <1>4, <2>2, DispatchType
  <2> QED
    BY <1>6, <2>1, <2>2
<1>8. SessionTypeOK'
  BY <1>1, <1>5, <1>7, TypesKeep, BornDaemons DEF HandleStdout, SessionTypeOK
<1> QED
  BY <1>2, <1>4, <1>8 DEF text

(* HandleExit closes the pipes and leaves a connection without them. *)
LEMMA HandleExitType ==
  ASSUME SessionTypeOK, HandleExit
  PROVE  /\ SessionTypeOK'
         /\ conn' = [conn EXCEPT !.handle = NoDaemon, !.stdin = NoDaemon, !.stdout = NoDaemon,
                                 !.pending = {}, !.state = conn'.state, !.attempts = conn'.attempts]
         /\ conn'.state \in {"idle", "error"}
<1> DEFINE again == IF conn.state = "error" THEN [conn |-> conn, retries |-> retries] ELSE Attempted
<1>1. /\ again.conn.state \in {"idle", "error"} /\ again.conn.attempts \in Nat
      /\ again.retries \in Nat
  BY AttemptedType DEF SessionTypeOK, Connections
<1>2. /\ conn' = [conn EXCEPT !.handle = NoDaemon, !.stdin = NoDaemon, !.stdout = NoDaemon,
                              !.pending = {}, !.state = again.conn.state,
                              !.attempts = again.conn.attempts]
      /\ retries' = again.retries
  BY DEF HandleExit, SessionTypeOK, Connections
<1> HIDE DEF again
<1>3. conn' \in Connections
  BY <1>1, <1>2 DEF SessionTypeOK, Connections
<1>4. /\ conn' = [conn EXCEPT !.handle = NoDaemon, !.stdin = NoDaemon, !.stdout = NoDaemon,
                              !.pending = {}, !.state = conn'.state, !.attempts = conn'.attempts]
      /\ conn'.state \in {"idle", "error"}
  BY <1>1, <1>2 DEF SessionTypeOK, Connections
<1>5. conn.stdin \in {NoDaemon} \cup Daemons /\ conn.stdout \in {NoDaemon} \cup Daemons
  BY BornDaemons DEF SessionTypeOK, Connections
<1>6. Typed(daemon')
  BY <1>5, BornDaemons, CloseStep DEF HandleExit
<1>7. scheduled' \in Seq(Callbacks)
  BY DEF HandleExit, SessionTypeOK
<1>8. SessionTypeOK'
  BY <1>1, <1>2, <1>3, <1>6, <1>7, FailPendingType, TypesKeep DEF HandleExit, SessionTypeOK
<1> QED
  BY <1>4, <1>8

LEMMA ResetType ==
  ASSUME SessionTypeOK, Reset
  PROVE  SessionTypeOK'
<1>1. conn.stdin \in {NoDaemon} \cup Daemons /\ conn.stdout \in {NoDaemon} \cup Daemons
  BY BornDaemons DEF SessionTypeOK, Connections
<1>2. Typed(daemon')
  BY <1>1, BornDaemons, CloseStep DEF Reset
<1>3. conn' \in Connections
  <2>1. <<>> \in Seq(Parts(Born)) /\ conn.next_id \in Nat
    BY DEF SessionTypeOK, Connections
  <2> QED
    BY <2>1 DEF Reset, NewConnection, Connections
<1>4. used' \in [spawns : 0 .. MaxDaemons, troubles : Nat] /\ UNCHANGED used.spawns
  BY DEF Reset, SessionTypeOK
<1> QED
  BY <1>2, <1>3, <1>4, FailPendingType, TypesKeep DEF Reset, SessionTypeOK

LEMMA ShutdownType ==
  ASSUME SessionTypeOK, Shutdown
  PROVE  SessionTypeOK'
<1>1. conn.stdin \in {NoDaemon} \cup Daemons
  BY BornDaemons DEF SessionTypeOK, Connections
<1>2. Typed(daemon')
  BY <1>1, BornDaemons, CloseStep DEF Shutdown
<1>3. conn' \in Connections
  BY DEF Shutdown, SessionTypeOK, Connections
<1>4. used' \in [spawns : 0 .. MaxDaemons, troubles : Nat] /\ UNCHANGED used.spawns
  BY DEF Shutdown, SessionTypeOK
<1> QED
  BY <1>2, <1>3, <1>4, TypesKeep DEF Shutdown, SessionTypeOK

LEMMA TimeoutType ==
  ASSUME SessionTypeOK, NEW c \in Calls, Timeout(c)
  PROVE  SessionTypeOK'
<1>1. conn' \in Connections
  <2>1. PICK req \in conn.pending : conn' = [conn EXCEPT !.pending = @ \ {req}]
    BY DEF Timeout
  <2>2. conn.pending \ {req} \in SUBSET (Nat \X Calls)
    BY DEF SessionTypeOK, Connections
  <2> QED
    BY <2>1, <2>2 DEF SessionTypeOK, Connections
<1>2. /\ call' \in [Calls -> {"new", "waiting", "returned", "hung"}]
      /\ answer' \in [Calls -> Calls \cup {"none", "error"}]
  BY DEF Timeout, SessionTypeOK
<1> QED
  BY <1>1, <1>2, TypesKeep, BornDaemons DEF Timeout, SessionTypeOK

(* A step of a daemon in the session. *)
DaemonRuns(d) == Others(d) /\ DaemonSteps(d) /\ UNCHANGED <<conn, scheduled, retries, watched, call,
                                                           answer, used, mixed, garbled>>

LEMMA DaemonRunsType ==
  ASSUME SessionTypeOK, NEW d \in Daemons, DaemonRuns(d)
  PROVE  SessionTypeOK'
BY DaemonType, TypesKeep DEF DaemonRuns, Typed, SessionTypeOK

(* What a step of the session is. *)
SessionSteps ==
    \/ \E c \in Calls : RpcCall(c) \/ Timeout(c)
    \/ \E d \in Daemons : DaemonRuns(d) \/ Reap(d)
    \/ Read \/ HandleStdout \/ HandleExit \/ Retry \/ Reset \/ Shutdown
    \/ UNCHANGED sessionVars

LEMMA SessionStep == ASSUME SessionTypeOK, [SessionNext]_sessionVars PROVE SessionSteps
<1>1. ASSUME NEW d \in Daemons, Daemon(Serves(d)) \/ Daemon(Notify(d)) \/ Daemon(Signal(d)) \/ Daemon(Crash(d))
      PROVE  DaemonRuns(d)
  BY <1>1, DaemonStep DEF Daemon, DaemonRuns
<1>2. 1 .. MaxDaemons - 1 \subseteq Daemons
  BY RpcAssumption DEF Daemons
<1> QED
  BY <1>1, <1>2 DEF SessionNext, SessionSteps

LEMMA SessionTypeStep == ASSUME SessionTypeOK, [SessionNext]_sessionVars PROVE SessionTypeOK'
<1>1. CASE UNCHANGED sessionVars
  BY <1>1 DEF sessionVars, SessionTypeOK, Connections, Callbacks, Born
<1> QED
  BY <1>1, SessionStep, RpcCallType, TimeoutType, DaemonRunsType, ReapType, ReadType,
     HandleStdoutType, HandleExitType, RetryType, ResetType, ShutdownType DEF SessionSteps

-----------------------------------------------------------------------------
(* One daemon is fed, and it drains.                                       *)

LEMMA PipesKeep ==
  ASSUME PipesInv, used.spawns \in Nat, UNCHANGED used.spawns,
         conn'.handle = conn.handle, conn'.stdin = conn.stdin, conn'.stdout = conn.stdout,
         conn'.state = conn.state \/ conn.handle = NoDaemon,
         \A d \in Daemons :
            /\ daemon'[d].eof = daemon[d].eof
            /\ daemon'[d] = daemon[d] \/ (d <= used.spawns /\ daemon'[d].up # "none")
  PROVE  PipesInv'
BY DEF PipesInv, Daemons

LEMMA DrainKeep ==
  ASSUME DrainInv,
         \A d \in Daemons :
            /\ daemon[d].cut => daemon'[d].cut
            /\ daemon'[d].up = daemon[d].up /\ daemon'[d].running = daemon[d].running
            /\ daemon[d].eof => daemon'[d].eof
            /\ daemon'[d].input = daemon[d].input \/ daemon[d].up \notin {"draining", "dead"}
  PROVE  DrainInv'
BY DEF DrainInv

LEMMA DaemonRunsServed ==
  ASSUME ServedInv, NEW d \in Daemons, DaemonRuns(d)
  PROVE  PipesInv' /\ DrainInv'
<1> USE DEF ServedInv
<1>1. daemon[d] \in Processes(d) /\ daemon'[d] \in Processes(d)
  BY DaemonRunsType DEF SessionTypeOK
<1>2. daemon[d].up \in {"serving", "draining"}
  BY DEF DaemonRuns, DaemonSteps, Alive, Takes, Drains, Exits
<1>3. d <= used.spawns
  <2>1. d \in Nat /\ used.spawns \in Nat /\ Unborn.up = "none"
    BY DEF SessionTypeOK, Daemons, Unborn
  <2> QED
    BY <1>2, <2>1 DEF PipesInv
<1> DEFINE Progress ==
        /\ daemon'[d].eof = daemon[d].eof
        /\ daemon[d].cut => daemon'[d].cut
        /\ daemon'[d].up # "none"
        /\ ~daemon'[d].cut =>
            /\ daemon'[d].up = "draining" =>
                    \/ daemon[d].up = "draining" /\ daemon'[d].input = daemon[d].input
                    \/ daemon'[d].eof /\ daemon'[d].input = <<>>
            /\ daemon'[d].up = "dead" => /\ daemon[d].up = "draining"
                                         /\ daemon'[d].input = daemon[d].input
                                         /\ daemon'[d].running = {}
            /\ daemon'[d].up = "serving" => daemon[d].up = "serving"
<1>4. Progress
  <2>1. CASE Dies(d)
    BY <1>1, <2>1 DEF Dies, Processes
  <2>2. ASSUME NEW msg, Begins(d, msg) PROVE Progress
    BY <1>1, <1>2, <2>2 DEF Begins, Processes
  <2>3. ASSUME NEW msg, Finishes(d, msg) PROVE Progress
    BY <1>1, <1>2, <2>3 DEF Finishes, Processes
  <2>4. CASE Takes(d)
    BY <1>1, <2>4 DEF Takes, Processes
  <2>5. CASE Drains(d)
    BY <1>1, <2>5 DEF Drains, Processes
  <2>6. CASE Exits(d)
    BY <1>1, <2>6 DEF Exits, Processes
  <2> QED
    BY <2>1, <2>2, <2>3, <2>4, <2>5, <2>6 DEF DaemonRuns, DaemonSteps
<1>5. PipesInv'
  BY <1>3, <1>4, PipesKeep DEF DaemonRuns, Others, SessionTypeOK
<1>6. DrainInv'
  BY <1>1, <1>2, <1>4 DEF DrainInv, DaemonRuns, Others
<1> QED
  BY <1>5, <1>6

LEMMA SpawnServed ==
  ASSUME ServedInv, NEW result \in Spawns, NEW again, again.new = result.new, Spawn(again),
         again.retries \in Nat
  PROVE  LET ds == Started(daemon, result.new)
             k == result.conn
         IN  /\ k.stdout = k.handle /\ k.stdin \in {NoDaemon, k.handle}
             /\ k.state # "connected" => k.handle = NoDaemon
             /\ \A d \in Daemons :
                  /\ d > used'.spawns => ds[d] = Unborn
                  /\ d <= used'.spawns => ds[d].up # "none"
                  /\ d <= used'.spawns /\ ~ds[d].eof => d = k.stdin
                  /\ d = k.stdin => ~ds[d].eof
                  /\ ~ds[d].cut =>
                        /\ ds[d].up \in {"draining", "dead"} => ds[d].eof /\ ds[d].input = <<>>
                        /\ ds[d].up = "dead" => ds[d].running = {}
<1> DEFINE ds == Started(daemon, result.new)
           k == result.conn
<1> USE DEF ServedInv
<1>1. used.spawns \in Nat /\ used'.spawns \in Nat /\ Daemons \subseteq Nat \ {0}
  <2>1. Daemons \subseteq Nat \ {0}
    BY DEF Daemons
  <2> QED
    BY <2>1, SpawnStep
<1>2. CASE /\ result.new = {} /\ Unstarted(k) /\ used'.spawns = used.spawns
           /\ ds = daemon
  <2>1. k.handle = conn.handle /\ k.stdin = conn.stdin /\ k.stdout = conn.stdout
    BY <1>2 DEF Unstarted, SessionTypeOK, Connections
  <2>2. k.state # "connected" => k.handle = NoDaemon
    BY <1>2, <2>1 DEF Unstarted, PipesInv
  <2> HIDE DEF k, ds
  <2>3. /\ k.stdout = k.handle /\ k.stdin \in {NoDaemon, k.handle}
        /\ \A d \in Daemons :
              /\ d > used'.spawns => ds[d] = Unborn
              /\ d <= used'.spawns => ds[d].up # "none"
              /\ d <= used'.spawns /\ ~ds[d].eof => d = k.stdin
              /\ d = k.stdin => ~ds[d].eof
    BY <1>2, <2>1 DEF PipesInv
  <2>4. \A d \in Daemons : ~ds[d].cut =>
              /\ ds[d].up \in {"draining", "dead"} => ds[d].eof /\ ds[d].input = <<>>
              /\ ds[d].up = "dead" => ds[d].running = {}
    BY <1>2 DEF DrainInv
  <2> QED
    BY <2>2, <2>3, <2>4 DEF k, ds
<1>3. CASE /\ result.new = {used.spawns + 1} /\ StartsLast(k) /\ used'.spawns = used.spawns + 1
           /\ ds = [daemon EXCEPT ![used'.spawns] = [daemon[used'.spawns] EXCEPT !.up = "serving"]]
  <2> DEFINE n == used.spawns + 1
  <2>1. n \in Daemons /\ conn.state = "idle" /\ k = Spawned(n)
    BY <1>3 DEF StartsLast
  <2>2. k.stdout = n /\ k.stdin = n /\ k.handle = n /\ k.state = "connected"
    BY <2>1 DEF Spawned, SessionTypeOK, Connections
  <2>3. daemon[n] = Unborn
    BY <1>1, <2>1 DEF PipesInv
  <2>4. ds[n].up = "serving" /\ ds[n].eof = FALSE
    BY <1>3, <2>1, <2>3 DEF SessionTypeOK, Unborn
  <2>5. \A d \in Daemons : d # n => ds[d] = daemon[d]
    BY <1>3, <2>1 DEF SessionTypeOK
  <2>6. conn.stdin = NoDaemon
    BY <2>1 DEF PipesInv
  <2>7. \A d \in Daemons : d # n => d # conn.stdin
    BY <1>1, <2>6 DEF NoDaemon
  <2>8. used'.spawns = n /\ n \in Nat
    BY <1>1, <1>3
  <2> HIDE DEF k, ds
  <2>9. ASSUME NEW d \in Daemons, d # n
        PROVE  /\ d > used'.spawns => ds[d] = Unborn
               /\ d <= used'.spawns => ds[d].up # "none"
               /\ d <= used'.spawns => ds[d].eof
               /\ ~ds[d].cut =>
                        /\ ds[d].up \in {"draining", "dead"} => ds[d].eof /\ ds[d].input = <<>>
                        /\ ds[d].up = "dead" => ds[d].running = {}
    <3>1. d > n => d > used.spawns
      BY <1>1
    <3>2. d <= n => d <= used.spawns
      BY <1>1, <2>9
    <3> HIDE DEF n
    <3> QED
      BY <2>5, <2>7, <2>8, <2>9, <3>1, <3>2 DEF PipesInv, DrainInv
  <2> HIDE DEF n
  <2> QED
    BY <1>1, <2>1, <2>2, <2>4, <2>8, <2>9 DEF k, ds
<1> QED
  BY <1>2, <1>3, SpawnsStep, SpawnStep

LEMMA RpcCallServed ==
  ASSUME ServedInv, NEW c \in Calls, RpcCall(c)
  PROVE  PipesInv' /\ DrainInv'
<1> USE DEF ServedInv
<1>1. PICK result \in Spawns :
        /\ Spawn(result)
        /\ \/ \E k \in {result.conn, [result.conn EXCEPT !.next_id = @ + 1]} :
                    Hang(c, k) /\ UNCHANGED daemon /\ (result.conn.state # "connected" \/ result.conn.stdin = NoDaemon)
           \/ result.conn.stdin # NoDaemon /\ Send(c, result.conn, Started(daemon, result.new))
  BY DEF RpcCall
<1> DEFINE ds == Started(daemon, result.new)
           k == result.conn
<1>2. result.retries \in Nat
  BY SpawnsStep
<1>3. /\ k.stdout = k.handle /\ k.stdin \in {NoDaemon, k.handle}
      /\ k.state # "connected" => k.handle = NoDaemon
      /\ \A d \in Daemons :
            /\ d > used'.spawns => ds[d] = Unborn
            /\ d <= used'.spawns => ds[d].up # "none"
            /\ d <= used'.spawns /\ ~ds[d].eof => d = k.stdin
            /\ d = k.stdin => ~ds[d].eof
            /\ ~ds[d].cut =>
                /\ ds[d].up \in {"draining", "dead"} => ds[d].eof /\ ds[d].input = <<>>
                /\ ds[d].up = "dead" => ds[d].running = {}
  BY <1>1, <1>2, SpawnServed
<1>4. k \in Connections' /\ Typed(ds) /\ used'.spawns \in Nat /\ used'.spawns <= MaxDaemons
  BY <1>1, <1>2, SpawnStep, RpcAssumption DEF Typed
<1>5. (result.new = {} /\ ds = daemon) \/ (k.state = "connected" /\ k.stdin # NoDaemon)
  <2>1. ASSUME StartsLast(k) PROVE k.state = "connected" /\ k.stdin # NoDaemon
    BY <2>1 DEF StartsLast, Spawned, SessionTypeOK, Connections, Daemons, NoDaemon
  <2>2. (result.new = {} /\ ds = daemon) \/ StartsLast(k)
    BY <1>1, <1>2, SpawnStep
  <2> HIDE DEF ds, k
  <2> QED
    BY <2>1, <2>2
<1> HIDE DEF ds, k
<1>6. CASE UNCHANGED daemon /\ conn' \in {k, [k EXCEPT !.next_id = @ + 1]} /\ ds = daemon
  <2>1. /\ conn'.stdout = k.stdout /\ conn'.stdin = k.stdin /\ conn'.handle = k.handle
        /\ conn'.state = k.state
    BY <1>4, <1>6 DEF Connections
  <2> QED
    BY <1>3, <1>6, <2>1 DEF PipesInv, DrainInv
<1>7. CASE k.stdin # NoDaemon /\ Send(c, k, ds)
  <2>1. /\ conn'.stdout = k.stdout /\ conn'.stdin = k.stdin /\ conn'.handle = k.handle
        /\ conn'.state = k.state
    BY <1>4, <1>7 DEF Send, Connections
  <2>2. Born' \subseteq Daemons
    BY <1>4, RpcAssumption DEF Born, Daemons
  <2> DEFINE req == Request(k.next_id, c)
  <2>3. /\ k.stdin \in Daemons
        /\ \A e \in Daemons : daemon'[e] =
                IF e = k.stdin /\ ds[e].up # "dead"
                THEN [ds[e] EXCEPT !.input = Append(@, req)] ELSE ds[e]
    BY <1>4, <1>7, <2>2, SendType
  <2> HIDE DEF req
  <2>4. k.stdin <= used'.spawns
    BY <1>4, <1>7 DEF Connections, Born
  <2>5. \A e \in Daemons :
            /\ daemon'[e].up = ds[e].up /\ daemon'[e].eof = ds[e].eof /\ daemon'[e].cut = ds[e].cut
            /\ daemon'[e].running = ds[e].running
            /\ e # k.stdin => daemon'[e] = ds[e]
            /\ daemon'[e].input # ds[e].input => e = k.stdin
    BY ZenonT(60), <1>4, <2>3 DEF Typed, Processes
  <2>6. PipesInv'
    <3>1. \A d \in Daemons : d > used'.spawns => d # k.stdin
      BY <1>4, <2>4 DEF Daemons
    <3> QED
      BY <1>3, <2>1, <2>5, <3>1 DEF PipesInv
  <2>7. DrainInv'
    BY <1>3, <2>5 DEF DrainInv
  <2> QED
    BY <2>6, <2>7
<1> QED
  BY <1>1, <1>5, <1>6, <1>7 DEF Hang, ds, k

LEMMA RetryServed ==
  ASSUME ServedInv, Retry
  PROVE  PipesInv' /\ DrainInv'
<1> USE DEF ServedInv
<1>1. CASE conn.state = "error"
  BY <1>1 DEF Retry, PipesInv, DrainInv
<1>2. CASE conn.state # "error"
  <2>1. PICK result \in Spawns :
          /\ conn' = result.conn /\ daemon' = Started(daemon, result.new)
          /\ Spawn([result EXCEPT !.retries = @ - 1])
    BY <1>2 DEF Retry
  <2> DEFINE again == [result EXCEPT !.retries = @ - 1]
  <2>2. again.new = result.new /\ again.retries = result.retries - 1
    BY DEF Spawns, Failures
  <2>3. again.retries \in Nat
    BY <2>2, SpawnsStep DEF Retry, SessionTypeOK
  <2> HIDE DEF again
  <2>4. Spawn(again)
    BY <2>1 DEF again
  <2> QED
    BY ZenonT(60), <2>1, <2>2, <2>3, <2>4, SpawnServed DEF PipesInv, DrainInv
<1> QED
  BY <1>1, <1>2

LEMMA ReadServed ==
  ASSUME ServedInv, Read
  PROVE  PipesInv' /\ DrainInv'
<1> USE DEF ServedInv
<1> DEFINE d == conn.stdout
<1>1. d \in Daemons /\ Others(d) /\ daemon'[d] = [daemon[d] EXCEPT !.output = Tail(@)]
      /\ d <= used.spawns /\ used.spawns \in Nat
  BY ReadType DEF Read, SessionTypeOK, Connections, Born
<1>2. UNCHANGED <<used, conn>>
  BY DEF Read
<1>3. /\ daemon'[d].up = daemon[d].up /\ daemon'[d].running = daemon[d].running
      /\ daemon'[d].eof = daemon[d].eof /\ daemon'[d].input = daemon[d].input
      /\ daemon'[d].cut = daemon[d].cut
  BY <1>1 DEF SessionTypeOK, Processes
<1>4. daemon[d].up # "none"
  BY <1>1 DEF PipesInv
<1> HIDE DEF d
<1>5. PipesInv'
  BY <1>1, <1>2, <1>3, <1>4, PipesKeep DEF Others
<1>6. DrainInv'
  BY <1>1, <1>3, DrainKeep DEF Others
<1> QED
  BY <1>5, <1>6

(* Both ends of the session are closed, and the connection has no pipes. *)
LEMMA ClosedServed ==
  ASSUME ServedInv, daemon' = CloseStdout(CloseStdin(daemon, conn.stdin), conn.stdout),
         UNCHANGED used.spawns, conn'.state # "connected",
         conn'.handle = NoDaemon, conn'.stdin = NoDaemon, conn'.stdout = NoDaemon
  PROVE  PipesInv' /\ DrainInv'
<1> USE DEF ServedInv
<1>1. conn.stdin \in {NoDaemon} \cup Daemons /\ conn.stdout \in {NoDaemon} \cup Daemons
  BY BornDaemons DEF SessionTypeOK, Connections
<1>2. \A e \in Daemons : daemon[e] \in Processes(e) /\ e # NoDaemon
  BY DEF SessionTypeOK, Daemons, NoDaemon
<1> DEFINE ds == CloseStdin(daemon, conn.stdin)
<1>3. Typed(ds) /\ \A e \in Daemons : ds[e] = IF e = conn.stdin THEN [daemon[e] EXCEPT !.eof = TRUE] ELSE daemon[e]
  BY <1>1, BornDaemons, CloseStep
<1>4. \A e \in Daemons : daemon'[e] = IF e = conn.stdout THEN [ds[e] EXCEPT !.deaf = TRUE, !.output = <<>>] ELSE ds[e]
  <2>1. daemon' = CloseStdout(ds, conn.stdout)
    OBVIOUS
  <2>2. \A e \in Daemons : CloseStdout(ds, conn.stdout)[e]
          = IF e = conn.stdout THEN [ds[e] EXCEPT !.deaf = TRUE, !.output = <<>>] ELSE ds[e]
    BY ZenonT(60), <1>1, <1>3, CloseStep
  <2> HIDE DEF ds
  <2> QED
    BY <2>1, <2>2
<1>5. \A e \in Daemons : ds[e] \in Processes(e)
  BY <1>3 DEF Typed
<1> HIDE DEF ds
<1>6. \A e \in Daemons :
        /\ daemon'[e].up = daemon[e].up /\ daemon'[e].running = daemon[e].running
        /\ daemon'[e].input = daemon[e].input /\ daemon'[e].cut = daemon[e].cut
        /\ e = conn.stdin => daemon'[e].eof
        /\ e # conn.stdin => daemon'[e].eof = daemon[e].eof
        /\ e # conn.stdin /\ e # conn.stdout => daemon'[e] = daemon[e]
  <2> SUFFICES ASSUME NEW e \in Daemons PROVE <1>6!(e)
    OBVIOUS
  <2>1. daemon[e] \in Processes(e) /\ ds[e] \in Processes(e)
    BY <1>2, <1>5
  <2>2. /\ ds[e].up = daemon[e].up /\ ds[e].running = daemon[e].running
        /\ ds[e].input = daemon[e].input /\ ds[e].cut = daemon[e].cut
        /\ e = conn.stdin => ds[e].eof
        /\ e # conn.stdin => ds[e] = daemon[e]
    <3>1. CASE e = conn.stdin
      <4>1. ds[e] = [daemon[e] EXCEPT !.eof = TRUE]
        BY <1>3, <3>1
      <4> QED
        BY <2>1, <3>1, <4>1 DEF Processes
    <3>2. CASE e # conn.stdin
      BY <1>3, <3>2
    <3> QED
      BY <3>1, <3>2
  <2>3. /\ daemon'[e].up = ds[e].up /\ daemon'[e].running = ds[e].running
        /\ daemon'[e].input = ds[e].input /\ daemon'[e].cut = ds[e].cut
        /\ daemon'[e].eof = ds[e].eof
        /\ e # conn.stdout => daemon'[e] = ds[e]
    <3>1. CASE e = conn.stdout
      <4>1. daemon'[e] = [ds[e] EXCEPT !.deaf = TRUE, !.output = <<>>]
        BY <1>4, <3>1
      <4> QED
        BY <2>1, <3>1, <4>1 DEF Processes
    <3>2. CASE e # conn.stdout
      BY <1>4, <3>2
    <3> QED
      BY <3>1, <3>2
  <2> QED
    BY <2>2, <2>3
<1>7. used.spawns \in Nat /\ \A d \in Daemons : d \in {conn.stdin, conn.stdout} => d <= used.spawns
  BY DEF SessionTypeOK, Connections, Born, Daemons, NoDaemon
<1>8. PipesInv'
  BY <1>2, <1>6, <1>7 DEF PipesInv, Daemons
<1>9. DrainInv'
  BY <1>6 DEF DrainInv
<1> QED
  BY <1>8, <1>9

LEMMA ShutdownServed ==
  ASSUME ServedInv, Shutdown
  PROVE  PipesInv' /\ DrainInv'
<1> USE DEF ServedInv
<1> DEFINE d == conn.stdin
<1>1. d \in Daemons /\ d <= used.spawns /\ used.spawns \in Nat
  BY BornDaemons DEF Shutdown, SessionTypeOK, Connections, Born
<1>2. \A e \in Daemons : daemon'[e] = IF e = d THEN [daemon[e] EXCEPT !.eof = TRUE] ELSE daemon[e]
  BY ZenonT(60), <1>1, BornDaemons, CloseStep DEF Shutdown
<1>3. /\ conn'.stdin = NoDaemon /\ conn'.stdout = conn.stdout /\ conn'.handle = conn.handle
      /\ conn'.state = conn.state /\ used'.spawns = used.spawns
  BY DEF Shutdown, SessionTypeOK, Connections
<1>4. \A e \in Daemons :
        /\ daemon'[e].up = daemon[e].up /\ daemon'[e].running = daemon[e].running
        /\ daemon'[e].input = daemon[e].input /\ daemon'[e].cut = daemon[e].cut
        /\ e = d => daemon'[e].eof
        /\ e # d => daemon'[e] = daemon[e]
  <2> SUFFICES ASSUME NEW e \in Daemons PROVE <1>4!(e)
    OBVIOUS
  <2>1. daemon[e] \in Processes(e)
    BY DEF SessionTypeOK
  <2>2. CASE e = d
    <3>1. daemon'[e] = [daemon[e] EXCEPT !.eof = TRUE]
      BY <1>2, <2>2
    <3> QED
      BY <2>1, <2>2, <3>1 DEF Processes
  <2>3. CASE e # d
    BY <1>2, <2>3
  <2> QED
    BY <2>2, <2>3
<1>5. PipesInv'
  BY <1>1, <1>3, <1>4 DEF PipesInv, Daemons, NoDaemon
<1>6. DrainInv'
  BY <1>4 DEF DrainInv
<1> QED
  BY <1>5, <1>6

LEMMA ServedStep == ASSUME ServedInv, [SessionNext]_sessionVars PROVE ServedInv'
<1> USE DEF ServedInv
<1> SUFFICES PipesInv' /\ DrainInv'
  BY SessionTypeStep
<1>1. SessionSteps
  BY SessionStep
<1>2. ASSUME UNCHANGED <<daemon, used>>, conn'.handle = conn.handle, conn'.stdin = conn.stdin,
             conn'.stdout = conn.stdout, conn'.state = conn.state
      PROVE  PipesInv' /\ DrainInv'
  BY <1>2 DEF PipesInv, DrainInv
<1>3. ASSUME NEW c \in Calls, Timeout(c) PROVE PipesInv' /\ DrainInv'
  BY <1>2, <1>3 DEF Timeout, SessionTypeOK, Connections
<1>4. ASSUME NEW d \in Daemons, Reap(d) PROVE PipesInv' /\ DrainInv'
  BY <1>2, <1>4 DEF Reap
<1>5. CASE HandleStdout
  <2>1. \/ \E text : conn' = [conn EXCEPT !.buffer = text]
        \/ \E rest : conn' = [conn EXCEPT !.buffer = <<>>, !.pending = rest]
    BY <1>5 DEF HandleStdout, Dispatch
  <2> QED
    BY <1>2, <1>5, <2>1 DEF HandleStdout, SessionTypeOK, Connections
<1>6. CASE HandleExit
  <2>1. conn'.handle = NoDaemon /\ conn'.stdin = NoDaemon /\ conn'.stdout = NoDaemon
        /\ conn'.state # "connected"
    BY <1>6, HandleExitType DEF SessionTypeOK, Connections
  <2> QED
    BY <1>6, <2>1, ClosedServed DEF HandleExit
<1>7. CASE Reset
  <2>1. conn'.handle = NoDaemon /\ conn'.stdin = NoDaemon /\ conn'.stdout = NoDaemon
        /\ conn'.state # "connected" /\ used'.spawns = used.spawns
    BY <1>7 DEF Reset, NewConnection, SessionTypeOK
  <2> QED
    BY <1>7, <2>1, ClosedServed DEF Reset
<1>8. CASE UNCHANGED sessionVars
  BY <1>2, <1>8 DEF sessionVars
<1> QED
  BY <1>1, <1>3, <1>4, <1>5, <1>6, <1>7, <1>8, RpcCallServed, RetryServed, DaemonRunsServed,
     ReadServed, ShutdownServed DEF SessionSteps

LEMMA ServedInit == SessionInit => ServedInv
<1> SUFFICES ASSUME SessionInit PROVE ServedInv
  OBVIOUS
<1>1. \A d \in Daemons : daemon[d] = Unborn /\ d \in Nat /\ d # 0
  BY DEF SessionInit, RpcInit, Daemons
<1>2. PipesInv
  BY <1>1 DEF SessionInit, PipesInv, NewConnection, NoDaemon
<1>3. DrainInv
  BY <1>1 DEF DrainInv, Unborn
<1> QED
  BY <1>2, <1>3, SessionTypeInit DEF ServedInv

LEMMA ServedInvariance == SessionSpec => []ServedInv
BY ServedInit, ServedStep, PTL DEF SessionSpec

(* However the editor spawns, resets, shuts down and handles exits that    *)
(* come late, at most one daemon has an open stdin: that of the connection *)
(* (spawn, reset, handle_exit).                                            *)
THEOREM OneDaemonServed == SessionSpec => []OneServed
<1>1. ServedInv => OneServed
  <2> SUFFICES ASSUME ServedInv PROVE OneServed
    OBVIOUS
  <2> DEFINE served == {d \in Daemons : daemon[d].up # "none" /\ ~daemon[d].eof}
  <2>1. ASSUME NEW d \in served PROVE d = conn.stdin
    <3>1. d \in Nat /\ used.spawns \in Nat /\ Unborn.up = "none"
      BY DEF ServedInv, SessionTypeOK, Daemons, Unborn
    <3> QED
      BY <3>1 DEF ServedInv, PipesInv
  <2>2. served \subseteq {conn.stdin}
    BY <2>1
  <2>3. Cardinality(served) <= Cardinality({conn.stdin}) /\ Cardinality({conn.stdin}) = 1
    BY <2>2, FS_Singleton, FS_Subset
  <2>4. Cardinality(served) \in Nat
    BY <2>2, FS_Singleton, FS_Subset, FS_CardinalityType
  <2> QED
    BY <2>3, <2>4 DEF OneServed
<1> QED
  BY <1>1, ServedInvariance, PTL

(* A daemon that stops because its stdin ended has answered every request  *)
(* that reached it, whatever is sent, closed or killed meanwhile: nothing  *)
(* is sent to it once its stdin is closed (Serve's loop, wg.Wait).         *)
THEOREM DaemonsDrained == SessionSpec => []Drained
<1>1. ServedInv => Drained
  BY DEF ServedInv, DrainInv, Drained
<1> QED
  BY <1>1, ServedInvariance, PTL

-----------------------------------------------------------------------------
(* No call gets the response to another.                                   *)

LEMMA RangeOfSeq ==
  ASSUME NEW S, NEW s \in Seq(S)
  PROVE  /\ Range(s) \subseteq S
         /\ \A e : Range(Append(s, e)) = Range(s) \cup {e}
         /\ s # <<>> => /\ Head(s) \in Range(s) /\ Range(Tail(s)) \subseteq Range(s)
                        /\ Range(s) \subseteq {Head(s)} \cup Range(Tail(s))
         /\ s = <<>> => Range(s) = {}
<1>1. Range(s) \subseteq S
  BY DEF Range
<1>2. ASSUME NEW e PROVE Range(Append(s, e)) = Range(s) \cup {e}
  <2>1. /\ DOMAIN Append(s, e) = 1 .. Len(s) + 1 /\ DOMAIN s = 1 .. Len(s) /\ Len(s) \in Nat
        /\ Append(s, e)[Len(s) + 1] = e
        /\ \A i \in 1 .. Len(s) : Append(s, e)[i] = s[i]
    OBVIOUS
  <2> QED
    BY <2>1 DEF Range
<1>3. ASSUME s # <<>>
      PROVE  /\ Head(s) \in Range(s) /\ Range(Tail(s)) \subseteq Range(s)
             /\ Range(s) \subseteq {Head(s)} \cup Range(Tail(s))
  <2>1. /\ DOMAIN s = 1 .. Len(s) /\ Len(s) \in Nat \ {0} /\ Head(s) = s[1]
        /\ DOMAIN Tail(s) = 1 .. Len(s) - 1
        /\ \A i \in 1 .. Len(s) - 1 : Tail(s)[i] = s[i + 1]
    BY <1>3
  <2>2. Head(s) \in Range(s) /\ Range(Tail(s)) \subseteq Range(s)
    BY <2>1 DEF Range
  <2>3. ASSUME NEW i \in DOMAIN s PROVE s[i] \in {Head(s)} \cup Range(Tail(s))
    <3>1. CASE i = 1
      BY <2>1, <3>1
    <3>2. CASE i # 1
      <4>1. i - 1 \in DOMAIN Tail(s) /\ Tail(s)[i - 1] = s[i]
        BY <2>1, <3>2
      <4> QED
        BY <4>1 DEF Range
    <3> QED
      BY <3>1, <3>2
  <2> QED
    BY <2>2, <2>3 DEF Range
<1>4. s = <<>> => Range(s) = {}
  BY DEF Range
<1> QED
  BY <1>1, <1>2, <1>3, <1>4

LEMMA AskedType ==
  ASSUME SessionTypeOK
  PROVE  /\ \A d \in Daemons : AskedOf(daemon[d]) \subseteq Requests
         /\ Asked \subseteq Requests
         /\ \A d \in Daemons : SaidBy(daemon[d]) \subseteq Messages({d})
         /\ \A msg \in Said : msg.id \in Nat
<1>1. \A ds : \A msg \in Messages(ds) : msg.id \in Nat
  BY DEF Messages
<1>2. ASSUME NEW d \in Daemons
      PROVE  AskedOf(daemon[d]) \subseteq Requests /\ SaidBy(daemon[d]) \subseteq Messages({d})
  <2>1. daemon[d].input \in Seq(Requests) /\ daemon[d].output \in Seq(Parts({d}))
        /\ daemon[d].running \subseteq Requests /\ daemon[d].writing \subseteq Messages({d})
    BY DEF SessionTypeOK, Processes
  <2>2. Range(daemon[d].input) \subseteq Requests /\ Range(daemon[d].output) \subseteq Parts({d})
    BY <2>1, RangeOfSeq
  <2> QED
    BY <2>1, <2>2 DEF AskedOf, SaidBy, Parts
<1>3. ASSUME NEW item \in Scheduled PROVE item.data[1].id \in Nat
  <2>1. item \in Callbacks
    BY RangeOfSeq DEF Scheduled, SessionTypeOK
  <2>2. item.data \in Parts(Born)
    BY <2>1 DEF Callbacks, Scheduled
  <2> QED
    BY <1>1, <2>2 DEF Parts
<1>4. ASSUME NEW part \in Range(conn.buffer) PROVE part[1].id \in Nat
  <2>1. part \in Parts(Born)
    BY RangeOfSeq DEF SessionTypeOK, Connections
  <2> QED
    BY <1>1, <2>1 DEF Parts
<1>5. Asked \subseteq Requests
  BY <1>2 DEF Asked
<1>6. ASSUME NEW msg \in Said PROVE msg.id \in Nat
  <2>1. ASSUME NEW d \in Daemons, msg \in SaidBy(daemon[d]) PROVE msg.id \in Nat
    BY <1>1, <1>2, <2>1
  <2> QED
    BY <1>3, <1>4, <2>1 DEF Said
<1> QED
  BY <1>2, <1>5, <1>6

(* Steps in which no request is made. *)
LEMMA AnswerKeep ==
  ASSUME SessionTypeOK, AnswerInv, conn'.pending \subseteq conn.pending,
         conn'.next_id \in Nat, conn.next_id <= conn'.next_id,
         Asked' \subseteq Asked,
         \A msg \in Said' : \/ msg \in Said \/ msg.kind # "response"
                            \/ \E r \in Asked : msg.id = r.id /\ msg.call = r.call,
         AnswersMatch'
  PROVE  AnswerInv'
<1>1. conn.next_id \in Nat /\ \A req \in conn.pending : req[1] \in Nat
  BY DEF SessionTypeOK, Connections
<1>2. PendingInv'
  BY <1>1 DEF AnswerInv, PendingInv
<1>3. ASSUME NEW r, r.id \in Nat, Agrees(r) PROVE Agrees(r)'
  BY <1>1, <1>3 DEF Agrees
<1>4. \A r \in Asked : Agrees(r) /\ r.id \in Nat
  BY AskedType DEF AnswerInv, Requests
<1>5. \A r \in Asked' : Agrees(r)'
  BY <1>3, <1>4
<1>6. ASSUME NEW msg \in Said', msg.kind = "response" PROVE Agrees(msg)'
  <2>1. CASE msg \in Said
    BY <1>3, <1>6, <2>1, AskedType DEF AnswerInv, AgreesMsg
  <2>2. ASSUME NEW r \in Asked, msg.id = r.id, msg.call = r.call PROVE Agrees(msg)'
    BY <1>3, <1>4, <2>2 DEF Agrees
  <2> QED
    BY <1>6, <2>1, <2>2
<1> QED
  BY <1>2, <1>5, <1>6 DEF AnswerInv, AgreesMsg

LEMMA DaemonRunsAnswer ==
  ASSUME ServedInv, AnswerInv, NEW d \in Daemons, DaemonRuns(d)
  PROVE  AnswerInv'
<1> USE DEF ServedInv
<1>1. daemon[d] \in Processes(d)
  BY DEF SessionTypeOK
<1>2. daemon[d].input \in Seq(Requests) /\ daemon[d].output \in Seq(Parts({d}))
      /\ daemon[d].running \subseteq Requests
  BY <1>1 DEF Processes
<1> DEFINE Kept ==
        /\ AskedOf(daemon'[d]) \subseteq AskedOf(daemon[d])
        /\ \A msg \in SaidBy(daemon'[d]) :
              \/ msg \in SaidBy(daemon[d]) \/ msg.kind # "response"
              \/ \E r \in AskedOf(daemon[d]) : msg.id = r.id /\ msg.call = r.call
<1>3. ASSUME NEW msg, Begins(d, msg), msg.kind # "response" \/ \E r \in daemon[d].running : msg = Response(d, r)
      PROVE  Kept
  <2>1. /\ daemon'[d].running = daemon[d].running /\ daemon'[d].input = daemon[d].input
        /\ daemon'[d].writing = {msg} /\ daemon'[d].output = Append(daemon[d].output, <<msg, 1>>)
    BY <1>1, <1>3 DEF Begins, Processes
  <2>2. SaidBy(daemon'[d]) \subseteq SaidBy(daemon[d]) \cup {msg}
    BY <1>2, <2>1, RangeOfSeq DEF SaidBy
  <2>3. msg.kind # "response" \/ \E r \in AskedOf(daemon[d]) : msg.id = r.id /\ msg.call = r.call
    <3>1. ASSUME NEW r \in daemon[d].running, msg = Response(d, r) PROVE msg.id = r.id /\ msg.call = r.call
      BY <3>1 DEF Response
    <3> QED
      BY <1>3, <3>1 DEF AskedOf
  <2> QED
    BY <2>1, <2>2, <2>3 DEF AskedOf
<1>4. ASSUME NEW msg \in daemon[d].writing, Finishes(d, msg) PROVE Kept
  <2>1. /\ daemon'[d].running \subseteq daemon[d].running /\ daemon'[d].input = daemon[d].input
        /\ daemon'[d].writing \subseteq daemon[d].writing
        /\ daemon'[d].output = Append(daemon[d].output, <<msg, 2>>)
    BY <1>1, <1>4 DEF Finishes, Processes
  <2>2. SaidBy(daemon'[d]) \subseteq SaidBy(daemon[d])
    BY <1>2, <2>1, RangeOfSeq DEF SaidBy
  <2> QED
    BY <2>1, <2>2 DEF AskedOf
<1>5. ASSUME Takes(d) PROVE Kept
  <2>1. /\ daemon'[d].running = daemon[d].running \cup {Head(daemon[d].input)}
        /\ daemon'[d].input = Tail(daemon[d].input) /\ daemon[d].input # <<>>
        /\ daemon'[d].writing = daemon[d].writing /\ daemon'[d].output = daemon[d].output
    BY <1>1, <1>5 DEF Takes, Processes
  <2>2. AskedOf(daemon'[d]) \subseteq AskedOf(daemon[d])
    BY <1>2, <2>1, RangeOfSeq DEF AskedOf
  <2>3. SaidBy(daemon'[d]) = SaidBy(daemon[d])
    BY <2>1 DEF SaidBy
  <2> QED
    BY <2>2, <2>3
<1>6. ASSUME Dies(d) \/ Drains(d) \/ Exits(d) PROVE Kept
  <2>1. /\ daemon'[d].running = daemon[d].running /\ daemon'[d].input = daemon[d].input
        /\ daemon'[d].writing = daemon[d].writing /\ daemon'[d].output = daemon[d].output
    BY <1>1, <1>6 DEF Dies, Drains, Exits, Processes
  <2> QED
    BY <2>1 DEF AskedOf, SaidBy
<1>7. Kept
  <2>1. Note(d).kind # "response" /\ \A req \in daemon[d].running : \E r \in daemon[d].running : Response(d, req) = Response(d, r)
    BY NoteType
  <2> HIDE DEF Kept
  <2> QED
    BY <1>3, <1>4, <1>5, <1>6, <2>1 DEF DaemonRuns, DaemonSteps
<1>8. \A e \in Daemons : e # d => daemon'[e] = daemon[e]
  BY DEF DaemonRuns, Others
<1>9. Asked' \subseteq Asked
  BY <1>7, <1>8 DEF Asked, AskedOf
<1>10. UNCHANGED <<conn, scheduled, answer>>
  BY DEF DaemonRuns
<1>11. ASSUME NEW msg \in Said'
       PROVE  \/ msg \in Said \/ msg.kind # "response"
              \/ \E r \in Asked : msg.id = r.id /\ msg.call = r.call
  <2>1. ASSUME NEW e \in Daemons, msg \in SaidBy(daemon'[e])
        PROVE  \/ msg \in Said \/ msg.kind # "response"
               \/ \E r \in Asked : msg.id = r.id /\ msg.call = r.call
    BY <1>7, <1>8, <2>1 DEF Said, Asked
  <2>2. msg \in Said \/ \E e \in Daemons : msg \in SaidBy(daemon'[e])
    BY <1>10 DEF Said, Scheduled, SaidBy
  <2> QED
    BY <2>1, <2>2
<1>12. AnswersMatch'
  BY <1>10 DEF AnswerInv, AnswersMatch
<1>13. conn'.next_id \in Nat /\ conn.next_id <= conn'.next_id
  BY <1>10 DEF SessionTypeOK, Connections
<1> QED
  BY <1>9, <1>10, <1>11, <1>12, <1>13, AnswerKeep

(* Messages move on or are dropped, and no request is made. *)
LEMMA AnswerMoves ==
  ASSUME SessionTypeOK, AnswerInv, conn'.pending \subseteq conn.pending,
         conn'.next_id \in Nat, conn.next_id <= conn'.next_id,
         \A d \in Daemons : AskedOf(daemon'[d]) \subseteq AskedOf(daemon[d])
                            /\ SaidBy(daemon'[d]) \subseteq SaidBy(daemon[d]),
         \A item \in Scheduled' : item.data[1] \in Said,
         \A part \in Range(conn'.buffer) : part[1] \in Said,
         AnswersMatch'
  PROVE  AnswerInv'
<1>1. Asked' \subseteq Asked
  BY DEF Asked
<1>2. ASSUME NEW msg \in Said' PROVE msg \in Said
  <2>1. ASSUME NEW d \in Daemons, msg \in SaidBy(daemon'[d]) PROVE msg \in Said
    BY <2>1 DEF Said
  <2> QED
    BY <1>2, <2>1 DEF Said
<1> QED
  BY <1>1, <1>2, AnswerKeep

LEMMA SaidParts ==
  /\ \A item \in Scheduled : item.data[1] \in Said
  /\ \A part \in Range(conn.buffer) : part[1] \in Said
BY DEF Said

(* A request is made, with an id of its own. *)
LEMMA AnswerAsk ==
  ASSUME SessionTypeOK, AnswerInv, NEW c \in Calls,
         conn'.pending = conn.pending \cup {<<conn.next_id, c>>},
         conn'.next_id = conn.next_id + 1,
         Asked' \subseteq Asked \cup {Request(conn.next_id, c)},
         Said' \subseteq Said, UNCHANGED answer
  PROVE  AnswerInv'
<1> DEFINE id == conn.next_id
<1>1. id \in Nat /\ \A req \in conn.pending : req \in Nat \X Calls /\ req[1] \in Nat
  BY DEF SessionTypeOK, Connections
<1>2. \A req \in conn.pending : req[1] < id
  BY DEF AnswerInv, PendingInv
<1>3. \A req \in conn'.pending : req \in conn.pending \/ (req = <<id, c>> /\ req[1] = id /\ req[2] = c)
  OBVIOUS
<1>4. PendingInv'
  <2>1. \A req \in conn'.pending : req[1] < conn'.next_id
    BY <1>1, <1>2, <1>3
  <2>2. ASSUME NEW p \in conn'.pending, NEW q \in conn'.pending, p[1] = q[1] PROVE p = q
    <3>1. CASE p \in conn.pending /\ q \in conn.pending
      BY <2>2, <3>1 DEF AnswerInv, PendingInv
    <3>2. CASE p \in conn.pending /\ q = <<id, c>>
      BY <1>1, <1>2, <2>2, <3>2
    <3>3. CASE q \in conn.pending /\ p = <<id, c>>
      BY <1>1, <1>2, <2>2, <3>3
    <3> QED
      BY <1>3, <3>1, <3>2, <3>3
  <2> QED
    BY <2>1, <2>2 DEF PendingInv
<1>5. ASSUME NEW r, r.id \in Nat, Agrees(r) PROVE Agrees(r)'
  <2>1. r.id < id /\ \A req \in conn.pending : req[1] = r.id => req[2] = r.call
    BY <1>5 DEF Agrees
  <2>2. r.id < conn'.next_id
    BY <1>1, <1>5, <2>1
  <2>3. ASSUME NEW req \in conn'.pending, req[1] = r.id PROVE req[2] = r.call
    BY <1>1, <1>3, <1>5, <2>1, <2>3
  <2> QED
    BY <2>2, <2>3 DEF Agrees
<1>6. ASSUME NEW r, r = Request(id, c) PROVE Agrees(r)'
  <2>1. r.id = id /\ r.call = c
    BY <1>6 DEF Request
  <2>2. \A req \in conn'.pending : req[1] = id => req[2] = c
    BY <1>1, <1>2, <1>3
  <2> QED
    BY <1>1, <2>1, <2>2 DEF Agrees
<1>7. \A r \in Asked : Agrees(r) /\ r.id \in Nat
  BY AskedType DEF AnswerInv, Requests
<1>8. \A r \in Asked' : Agrees(r)'
  BY <1>5, <1>6, <1>7
<1>9. \A msg \in Said' : AgreesMsg(msg)'
  BY <1>5, AskedType DEF AnswerInv, AgreesMsg
<1> QED
  BY <1>4, <1>8, <1>9 DEF AnswerInv, AnswersMatch

(* spawn() makes no request and says nothing. *)
LEMMA SpawnSays ==
  ASSUME ServedInv, NEW result \in Spawns, NEW again, again.new = result.new, Spawn(again),
         again.retries \in Nat
  PROVE  /\ result.conn.pending = conn.pending /\ result.conn.next_id = conn.next_id
         /\ Range(result.conn.buffer) \subseteq Range(conn.buffer)
         /\ \A d \in Daemons : LET was == daemon[d]
                                  is == Started(daemon, result.new)[d]
                              IN  /\ is.input = was.input /\ is.running = was.running
                                  /\ is.writing = was.writing /\ is.output = was.output
<1> DEFINE k == result.conn
<1>1. conn \in Connections /\ \A d \in Daemons : daemon[d] \in Processes(d)
  BY DEF ServedInv, SessionTypeOK
<1>2. ASSUME Unstarted(k)
      PROVE  k.pending = conn.pending /\ k.next_id = conn.next_id /\ k.buffer = conn.buffer
  BY <1>1, <1>2 DEF Unstarted, Connections
<1>3. ASSUME StartsLast(k)
      PROVE  /\ k.pending = conn.pending /\ k.next_id = conn.next_id
             /\ Range(k.buffer) \subseteq Range(conn.buffer)
  <2>1. k.pending = conn.pending /\ k.next_id = conn.next_id /\ k.buffer = <<>>
    BY <1>1, <1>3 DEF StartsLast, Spawned, Connections
  <2> QED
    BY <2>1 DEF Range
<1>4. ASSUME NEW d \in Daemons
      PROVE  LET is == Started(daemon, result.new)[d]
             IN  /\ is.input = daemon[d].input /\ is.running = daemon[d].running
                 /\ is.writing = daemon[d].writing /\ is.output = daemon[d].output
  <2>1. Started(daemon, result.new)[d] = daemon[d]
        \/ Started(daemon, result.new)[d] = [daemon[d] EXCEPT !.up = "serving"]
    BY DEF Started
  <2> QED
    BY <1>1, <2>1 DEF Processes
<1>5. Unstarted(k) \/ StartsLast(k)
  BY SpawnsStep DEF ServedInv
<1> HIDE DEF k
<1>6. /\ k.pending = conn.pending /\ k.next_id = conn.next_id
      /\ Range(k.buffer) \subseteq Range(conn.buffer)
  BY <1>2, <1>3, <1>5 DEF k
<1> QED
  BY <1>4, <1>6 DEF k

LEMMA RpcCallAnswer ==
  ASSUME ServedInv, AnswerInv, NEW c \in Calls, RpcCall(c)
  PROVE  AnswerInv'
<1> USE DEF ServedInv
<1>1. PICK result \in Spawns :
        /\ Spawn(result)
        /\ \/ \E k \in {result.conn, [result.conn EXCEPT !.next_id = @ + 1]} : Hang(c, k) /\ UNCHANGED daemon
           \/ result.conn.stdin # NoDaemon /\ Send(c, result.conn, Started(daemon, result.new))
  BY DEF RpcCall
<1> DEFINE ds == Started(daemon, result.new)
           k == result.conn
<1>2. result.retries \in Nat
  BY SpawnsStep
<1>3. /\ k.pending = conn.pending /\ k.next_id = conn.next_id
      /\ Range(k.buffer) \subseteq Range(conn.buffer)
      /\ \A d \in Daemons : /\ ds[d].input = daemon[d].input /\ ds[d].running = daemon[d].running
                            /\ ds[d].writing = daemon[d].writing /\ ds[d].output = daemon[d].output
  BY <1>1, <1>2, SpawnSays
<1>4. k \in Connections' /\ Typed(ds) /\ used'.spawns \in Nat /\ used'.spawns <= MaxDaemons
  BY <1>1, <1>2, SpawnStep, RpcAssumption DEF Typed
<1>5. conn.next_id \in Nat /\ scheduled' = scheduled
  BY DEF SessionTypeOK, Connections, RpcCall
<1> HIDE DEF ds, k
<1>6. CASE UNCHANGED <<daemon, answer>> /\ conn' \in {k, [k EXCEPT !.next_id = @ + 1]}
  <2>1. /\ conn'.pending = conn.pending /\ conn'.buffer = k.buffer
        /\ conn'.next_id \in {conn.next_id, conn.next_id + 1}
    BY <1>3, <1>4, <1>6 DEF Connections
  <2>2. /\ \A item \in Scheduled' : item.data[1] \in Said
        /\ \A part \in Range(conn'.buffer) : part[1] \in Said
    BY <1>3, <1>5, <2>1, SaidParts DEF Scheduled
  <2>3. AnswersMatch'
    BY <1>6 DEF AnswerInv, AnswersMatch
  <2>4. conn'.next_id \in Nat /\ conn.next_id <= conn'.next_id
    BY <1>5, <2>1
  <2> QED
    BY <1>6, <2>1, <2>2, <2>3, <2>4, AnswerMoves
<1>7. CASE k.stdin # NoDaemon /\ Send(c, k, ds)
  <2> DEFINE req == Request(k.next_id, c)
  <2>1. /\ conn'.pending = conn.pending \cup {<<conn.next_id, c>>}
        /\ conn'.next_id = conn.next_id + 1 /\ conn'.buffer = k.buffer
    BY <1>3, <1>4, <1>7 DEF Send, Connections
  <2>2. Born' \subseteq Daemons
    BY <1>4, RpcAssumption DEF Born, Daemons
  <2>3. \A e \in Daemons : daemon'[e] =
                IF e = k.stdin /\ ds[e].up # "dead"
                THEN [ds[e] EXCEPT !.input = Append(@, req)] ELSE ds[e]
    BY SMTT(30), <1>4, <1>7, <2>2, SendType
  <2> HIDE DEF req
  <2>4. ASSUME NEW e \in Daemons
        PROVE  /\ AskedOf(daemon'[e]) \subseteq AskedOf(daemon[e]) \cup {req}
               /\ SaidBy(daemon'[e]) = SaidBy(daemon[e])
    <3>1. ds[e] \in Processes(e) /\ daemon[e].input \in Seq(Requests)
      BY <1>4 DEF Typed, SessionTypeOK, Processes
    <3>2. /\ daemon'[e].running = daemon[e].running /\ daemon'[e].writing = daemon[e].writing
          /\ daemon'[e].output = daemon[e].output
          /\ daemon'[e].input = daemon[e].input \/ daemon'[e].input = Append(daemon[e].input, req)
      <4>1. daemon'[e] = ds[e] \/ daemon'[e] = [ds[e] EXCEPT !.input = Append(@, req)]
        BY <2>3
      <4>2. /\ daemon'[e].running = ds[e].running /\ daemon'[e].writing = ds[e].writing
            /\ daemon'[e].output = ds[e].output
            /\ daemon'[e].input = ds[e].input \/ daemon'[e].input = Append(ds[e].input, req)
        BY <3>1, <4>1 DEF Processes
      <4> QED
        BY <1>3, <4>2
    <3>3. Range(Append(daemon[e].input, req)) = Range(daemon[e].input) \cup {req}
      BY <3>1, RangeOfSeq
    <3>4. Range(daemon'[e].input) \subseteq Range(daemon[e].input) \cup {req}
      BY <3>2, <3>3
    <3> QED
      BY <3>2, <3>4 DEF AskedOf, SaidBy
  <2>5. Asked' \subseteq Asked \cup {req}
    BY <2>4 DEF Asked
  <2>6. ASSUME NEW msg \in Said' PROVE msg \in Said
    <3>1. ASSUME NEW d \in Daemons, msg \in SaidBy(daemon'[d]) PROVE msg \in Said
      BY <2>4, <3>1 DEF Said
    <3>2. /\ \A item \in Scheduled' : item.data[1] \in Said
          /\ \A part \in Range(conn'.buffer) : part[1] \in Said
      BY <1>3, <1>5, <2>1, SaidParts DEF Scheduled
    <3> QED
      BY <2>6, <3>1, <3>2 DEF Said
  <2>7. UNCHANGED answer /\ req = Request(conn.next_id, c)
    BY <1>3, <1>7 DEF Send, req
  <2> QED
    BY <2>1, <2>5, <2>6, <2>7, AnswerAsk
<1> QED
  BY <1>1, <1>6, <1>7 DEF Hang, ds, k

LEMMA RetryAnswer ==
  ASSUME ServedInv, AnswerInv, Retry
  PROVE  AnswerInv'
<1> USE DEF ServedInv
<1>1. /\ conn'.pending = conn.pending /\ conn'.next_id = conn.next_id
      /\ Range(conn'.buffer) \subseteq Range(conn.buffer)
      /\ \A d \in Daemons : /\ daemon'[d].input = daemon[d].input /\ daemon'[d].running = daemon[d].running
                            /\ daemon'[d].writing = daemon[d].writing /\ daemon'[d].output = daemon[d].output
  <2>1. CASE conn.state = "error"
    BY <2>1 DEF Retry
  <2>2. CASE conn.state # "error"
    <3>1. PICK result \in Spawns :
            /\ conn' = result.conn /\ daemon' = Started(daemon, result.new)
            /\ Spawn([result EXCEPT !.retries = @ - 1])
      BY <2>2 DEF Retry
    <3> DEFINE again == [result EXCEPT !.retries = @ - 1]
    <3>2. again.new = result.new /\ again.retries = result.retries - 1
      BY DEF Spawns, Failures
    <3>3. again.retries \in Nat
      BY <3>2, SpawnsStep DEF Retry, SessionTypeOK
    <3> HIDE DEF again
    <3>4. Spawn(again)
      BY <3>1 DEF again
    <3> QED
      BY <3>1, <3>2, <3>3, <3>4, SpawnSays
  <2> QED
    BY <2>1, <2>2
<1>2. UNCHANGED <<scheduled, answer>> /\ conn.next_id \in Nat
  BY DEF Retry, SessionTypeOK, Connections
<1>3. AnswersMatch'
  BY <1>2 DEF AnswerInv, AnswersMatch
<1>4. \A d \in Daemons : AskedOf(daemon'[d]) \subseteq AskedOf(daemon[d])
                         /\ SaidBy(daemon'[d]) \subseteq SaidBy(daemon[d])
  BY <1>1 DEF AskedOf, SaidBy
<1>5. /\ \A item \in Scheduled' : item.data[1] \in Said
      /\ \A part \in Range(conn'.buffer) : part[1] \in Said
  BY <1>1, <1>2, SaidParts DEF Scheduled
<1> QED
  BY <1>1, <1>2, <1>3, <1>4, <1>5, AnswerMoves

LEMMA TimeoutAnswer ==
  ASSUME ServedInv, AnswerInv, NEW c \in Calls, Timeout(c)
  PROVE  AnswerInv'
<1>1. /\ conn'.pending \subseteq conn.pending /\ conn'.next_id = conn.next_id
      /\ conn'.buffer = conn.buffer /\ conn.next_id \in Nat
  BY DEF ServedInv, Timeout, SessionTypeOK, Connections
<1>2. AnswersMatch'
  BY DEF ServedInv, Timeout, AnswerInv, AnswersMatch, SessionTypeOK
<1>3. UNCHANGED <<daemon, scheduled>>
  BY DEF Timeout
<1>4. /\ \A item \in Scheduled' : item.data[1] \in Said
      /\ \A part \in Range(conn'.buffer) : part[1] \in Said
  BY <1>1, <1>3, SaidParts DEF Scheduled
<1> QED
  BY <1>1, <1>2, <1>3, <1>4, AnswerMoves DEF ServedInv

LEMMA ReapAnswer ==
  ASSUME ServedInv, AnswerInv, NEW d \in Daemons, Reap(d)
  PROVE  AnswerInv'
<1>1. UNCHANGED <<daemon, conn, answer>> /\ scheduled' = Append(scheduled, [exit |-> d])
  BY DEF Reap
<1>2. scheduled \in Seq(Callbacks) /\ conn.next_id \in Nat
  BY DEF ServedInv, SessionTypeOK, Connections
<1>3. Scheduled' \subseteq Scheduled
  <2>1. Range(scheduled') = Range(scheduled) \cup {[exit |-> d]}
    BY <1>1, <1>2, RangeOfSeq
  <2>2. "data" \notin DOMAIN [exit |-> d]
    OBVIOUS
  <2> QED
    BY <2>1, <2>2 DEF Scheduled
<1>4. AnswersMatch'
  BY <1>1 DEF AnswerInv, AnswersMatch
<1> QED
  BY <1>1, <1>2, <1>3, <1>4, AnswerMoves, SaidParts DEF ServedInv

LEMMA ReadAnswer ==
  ASSUME ServedInv, AnswerInv, Read
  PROVE  AnswerInv'
<1> DEFINE d == conn.stdout
           head == Head(daemon[d].output)
<1>1. d \in Daemons /\ Others(d) /\ daemon'[d] = [daemon[d] EXCEPT !.output = Tail(@)]
  BY ReadType DEF ServedInv
<1>2. daemon[d] \in Processes(d) /\ scheduled \in Seq(Callbacks) /\ conn.next_id \in Nat
  BY <1>1 DEF ServedInv, SessionTypeOK, Connections
<1>3. daemon[d].output \in Seq(Parts({d})) /\ daemon[d].output # <<>>
  BY <1>2 DEF Read, Processes
<1>4. head \in Range(daemon[d].output) /\ Range(Tail(daemon[d].output)) \subseteq Range(daemon[d].output)
  BY <1>3, RangeOfSeq
<1>5. /\ daemon'[d].input = daemon[d].input /\ daemon'[d].running = daemon[d].running
      /\ daemon'[d].writing = daemon[d].writing /\ daemon'[d].output = Tail(daemon[d].output)
  BY <1>1, <1>2 DEF Processes
<1>6. UNCHANGED <<conn, answer>> /\ scheduled' = Append(scheduled, [data |-> head])
  BY DEF Read
<1>7. head[1] \in Said
  BY <1>1, <1>4 DEF Said, SaidBy
<1> HIDE DEF d, head
<1>8. \A item \in Scheduled' : item.data[1] \in Said
  <2>1. Range(scheduled') = Range(scheduled) \cup {[data |-> head]}
    BY <1>2, <1>6, RangeOfSeq
  <2> QED
    BY <1>7, <2>1, SaidParts DEF Scheduled
<1>9. \A e \in Daemons : AskedOf(daemon'[e]) \subseteq AskedOf(daemon[e])
                         /\ SaidBy(daemon'[e]) \subseteq SaidBy(daemon[e])
  <2>1. AskedOf(daemon'[d]) \subseteq AskedOf(daemon[d]) /\ SaidBy(daemon'[d]) \subseteq SaidBy(daemon[d])
    BY <1>4, <1>5 DEF AskedOf, SaidBy
  <2> QED
    BY <1>1, <2>1 DEF Others
<1>10. AnswersMatch'
  BY <1>6 DEF AnswerInv, AnswersMatch
<1>11. conn'.pending = conn.pending /\ conn'.next_id = conn.next_id /\ conn'.buffer = conn.buffer
  BY <1>6
<1>12. \A part \in Range(conn'.buffer) : part[1] \in Said
  BY <1>11, SaidParts
<1> QED
  BY <1>2, <1>8, <1>9, <1>10, <1>11, <1>12, AnswerMoves DEF ServedInv

(* The response of a line that is dispatched is its caller's. *)
LEMMA DispatchAnswer ==
  ASSUME ServedInv, AnswerInv, NEW line \in Seq(Parts(Born)), line # <<>>,
         \A part \in Range(line) : part[1] \in Said, Dispatch(line)
  PROVE  AnswersMatch'
<1> DEFINE msg == line[1][1]
           whole == line = <<<<msg, 1>>, <<msg, 2>>>>
           asked == {req \in conn.pending : msg.kind = "response" /\ req[1] = msg.id}
           callers == IF whole THEN {req[2] : req \in asked} ELSE {}
<1>1. answer' = [c \in Calls |-> IF c \in callers THEN msg.call ELSE answer[c]]
  BY DEF Dispatch
<1>2. line[1] \in Range(line)
  BY DEF Range
<1>3. msg \in Said
  BY <1>2
<1> HIDE DEF msg
<1>4. ASSUME NEW c \in callers PROVE msg.call = c
  <2>1. PICK req \in conn.pending : msg.kind = "response" /\ req[1] = msg.id /\ req[2] = c
    BY <1>4
  <2>2. Agrees(msg)
    BY <1>3, <2>1 DEF AnswerInv, AgreesMsg
  <2> QED
    BY <2>1, <2>2 DEF Agrees
<1> HIDE DEF callers
<1> QED
  BY <1>1, <1>4 DEF AnswerInv, AnswersMatch

LEMMA HandleStdoutAnswer ==
  ASSUME ServedInv, AnswerInv, HandleStdout
  PROVE  AnswerInv'
<1> DEFINE part == Head(scheduled).data
           text == Append(conn.buffer, part)
<1>1. /\ scheduled \in Seq(Callbacks) /\ scheduled # <<>> /\ conn.next_id \in Nat
      /\ conn.buffer \in Seq(Parts(Born)) /\ part \in Parts(Born) /\ text \in Seq(Parts(Born))
  BY HandleStdoutType DEF ServedInv, HandleStdout, SessionTypeOK, Connections
<1>2. Head(scheduled) \in Range(scheduled) /\ Range(Tail(scheduled)) \subseteq Range(scheduled)
  BY <1>1, RangeOfSeq
<1>3. part[1] \in Said
  <2>1. Head(scheduled) \in Scheduled
    BY <1>2 DEF HandleStdout, Scheduled
  <2> QED
    BY <2>1, SaidParts
<1>4. scheduled' = Tail(scheduled) /\ daemon' = daemon
  BY DEF HandleStdout
<1>5. \A item \in Scheduled' : item.data[1] \in Said
  <2>1. Scheduled' \subseteq Scheduled
    BY <1>2, <1>4 DEF Scheduled
  <2> QED
    BY <2>1, SaidParts
<1>6. Range(text) = Range(conn.buffer) \cup {part} /\ text # <<>>
  <2> HIDE DEF part
  <2>1. text # <<>>
    BY <1>1
  <2>2. Range(text) = Range(conn.buffer) \cup {part}
    BY <1>1, RangeOfSeq
  <2> QED
    BY <2>1, <2>2
<1> HIDE DEF part
<1>7. \A p \in Range(text) : p[1] \in Said
  BY <1>3, <1>6, SaidParts
<1> HIDE DEF text
<1>8. \/ conn' = [conn EXCEPT !.buffer = text] /\ UNCHANGED answer
      \/ Dispatch(text)
  BY DEF HandleStdout, text, part
<1>9. CASE conn' = [conn EXCEPT !.buffer = text] /\ UNCHANGED answer
  <2>1. conn'.pending = conn.pending /\ conn'.next_id = conn.next_id /\ conn'.buffer = text
    BY <1>9 DEF ServedInv, SessionTypeOK, Connections
  <2>2. AnswersMatch'
    BY <1>9 DEF AnswerInv, AnswersMatch
  <2>3. \A p \in Range(conn'.buffer) : p[1] \in Said
    BY <1>7, <2>1
  <2>4. \A d \in Daemons : AskedOf(daemon'[d]) = AskedOf(daemon[d]) /\ SaidBy(daemon'[d]) = SaidBy(daemon[d])
    BY <1>4
  <2> QED
    BY <1>1, <1>5, <2>1, <2>2, <2>3, <2>4, AnswerMoves DEF ServedInv
<1>10. CASE Dispatch(text)
  <2>1. \E cs : conn' = [conn EXCEPT !.buffer = <<>>, !.pending = {req \in @ : req[2] \notin cs}]
    BY <1>10 DEF Dispatch
  <2>2. conn'.pending \subseteq conn.pending /\ conn'.next_id = conn.next_id /\ conn'.buffer = <<>>
    BY <2>1 DEF ServedInv, SessionTypeOK, Connections
  <2>3. AnswersMatch'
    BY <1>1, <1>6, <1>7, <1>10, DispatchAnswer
  <2>4. \A p \in Range(conn'.buffer) : p[1] \in Said
    BY <2>2 DEF Range
  <2>5. \A d \in Daemons : AskedOf(daemon'[d]) = AskedOf(daemon[d]) /\ SaidBy(daemon'[d]) = SaidBy(daemon[d])
    BY <1>4
  <2> QED
    BY <1>1, <1>5, <2>2, <2>3, <2>4, <2>5, AnswerMoves DEF ServedInv
<1> QED
  BY <1>8, <1>9, <1>10

(* Closing a daemon's pipes loses what it said, and asks it nothing. *)
LEMMA CloseSays ==
  ASSUME SessionTypeOK, NEW out \in {NoDaemon, conn.stdout},
         daemon' = CloseStdout(CloseStdin(daemon, conn.stdin), out)
  PROVE  \A d \in Daemons :
            /\ daemon'[d].input = daemon[d].input /\ daemon'[d].running = daemon[d].running
            /\ daemon'[d].writing = daemon[d].writing
            /\ daemon'[d].output \in {daemon[d].output, <<>>}
<1>1. conn.stdin \in {NoDaemon} \cup Daemons /\ out \in {NoDaemon} \cup Daemons
  BY BornDaemons DEF SessionTypeOK, Connections
<1> DEFINE ds == CloseStdin(daemon, conn.stdin)
<1>2. Typed(ds) /\ \A e \in Daemons : ds[e] = IF e = conn.stdin THEN [daemon[e] EXCEPT !.eof = TRUE] ELSE daemon[e]
  BY <1>1, BornDaemons, CloseStep
<1>3. daemon' = CloseStdout(ds, out)
  OBVIOUS
<1> HIDE DEF ds
<1>4. \A e \in Daemons : daemon'[e] = IF e = out THEN [ds[e] EXCEPT !.deaf = TRUE, !.output = <<>>] ELSE ds[e]
  <2>1. \A e \in Daemons : CloseStdout(ds, out)[e]
          = IF e = out THEN [ds[e] EXCEPT !.deaf = TRUE, !.output = <<>>] ELSE ds[e]
    BY <1>1, <1>2, CloseStep
  <2> QED
    BY <1>3, <2>1
<1> SUFFICES ASSUME NEW d \in Daemons
             PROVE  /\ daemon'[d].input = daemon[d].input /\ daemon'[d].running = daemon[d].running
                    /\ daemon'[d].writing = daemon[d].writing
                    /\ daemon'[d].output \in {daemon[d].output, <<>>}
  OBVIOUS
<1>5. daemon[d] \in Processes(d) /\ ds[d] \in Processes(d)
  BY <1>2 DEF SessionTypeOK, Typed
<1>6. /\ ds[d].input = daemon[d].input /\ ds[d].running = daemon[d].running
      /\ ds[d].writing = daemon[d].writing /\ ds[d].output = daemon[d].output
  <2>1. ds[d] = daemon[d] \/ ds[d] = [daemon[d] EXCEPT !.eof = TRUE]
    BY <1>2
  <2> QED
    BY <1>5, <2>1 DEF Processes
<1>7. daemon'[d] = ds[d] \/ daemon'[d] = [ds[d] EXCEPT !.deaf = TRUE, !.output = <<>>]
  BY <1>4
<1> QED
  BY <1>5, <1>6, <1>7 DEF Processes

(* A step that closes the pipes of the connection. *)
LEMMA CloseAnswer ==
  ASSUME ServedInv, AnswerInv, NEW out \in {NoDaemon, conn.stdout},
         daemon' = CloseStdout(CloseStdin(daemon, conn.stdin), out),
         conn'.pending \subseteq conn.pending, conn'.next_id = conn.next_id,
         conn'.buffer \in {conn.buffer, <<>>},
         scheduled' = scheduled \/ (scheduled # <<>> /\ scheduled' = Tail(scheduled)),
         FailPending \/ UNCHANGED answer
  PROVE  AnswerInv'
<1>1. ASSUME NEW d \in Daemons
      PROVE  /\ AskedOf(daemon'[d]) \subseteq AskedOf(daemon[d])
             /\ SaidBy(daemon'[d]) \subseteq SaidBy(daemon[d])
  <2>1. /\ daemon'[d].input = daemon[d].input /\ daemon'[d].running = daemon[d].running
        /\ daemon'[d].writing = daemon[d].writing
        /\ daemon'[d].output \in {daemon[d].output, <<>>}
    BY CloseSays DEF ServedInv
  <2>2. Range(daemon'[d].output) \subseteq Range(daemon[d].output)
    BY <2>1 DEF Range
  <2> QED
    BY <2>1, <2>2 DEF AskedOf, SaidBy
<1>2. Range(scheduled') \subseteq Range(scheduled)
  <2>1. scheduled \in Seq(Callbacks)
    BY DEF ServedInv, SessionTypeOK
  <2> QED
    BY <2>1, RangeOfSeq
<1>3. \A item \in Scheduled' : item.data[1] \in Said
  BY <1>2, SaidParts DEF Scheduled
<1>4. \A part \in Range(conn'.buffer) : part[1] \in Said
  <2>1. Range(conn'.buffer) \subseteq Range(conn.buffer)
    BY DEF Range
  <2> QED
    BY <2>1, SaidParts
<1>5. AnswersMatch'
  BY DEF AnswerInv, AnswersMatch, FailPending
<1>6. conn.next_id \in Nat /\ SessionTypeOK
  BY DEF ServedInv, SessionTypeOK, Connections
<1>7. conn'.next_id \in Nat /\ conn.next_id <= conn'.next_id
  BY <1>6
<1> QED
  BY <1>1, <1>3, <1>4, <1>5, <1>6, <1>7, AnswerMoves

LEMMA HandleExitAnswer ==
  ASSUME ServedInv, AnswerInv, HandleExit
  PROVE  AnswerInv'
<1>1. conn'.pending = {} /\ conn'.next_id = conn.next_id /\ conn'.buffer = conn.buffer
  <2>1. \E state, attempts : conn' = [conn EXCEPT !.handle = NoDaemon, !.stdin = NoDaemon, !.stdout = NoDaemon,
                                                  !.pending = {}, !.state = state, !.attempts = attempts]
    BY HandleExitType DEF ServedInv
  <2> QED
    BY <2>1 DEF ServedInv, SessionTypeOK, Connections
<1> QED
  BY <1>1, CloseAnswer DEF HandleExit

LEMMA ResetAnswer ==
  ASSUME ServedInv, AnswerInv, Reset
  PROVE  AnswerInv'
<1>1. conn'.pending = {} /\ conn'.next_id = conn.next_id /\ conn'.buffer = <<>>
  BY DEF Reset, NewConnection
<1> QED
  BY <1>1, CloseAnswer DEF Reset

LEMMA ShutdownAnswer ==
  ASSUME ServedInv, AnswerInv, Shutdown
  PROVE  AnswerInv'
<1>1. conn'.pending = conn.pending /\ conn'.next_id = conn.next_id /\ conn'.buffer = conn.buffer
  BY DEF Shutdown, ServedInv, SessionTypeOK, Connections
<1>2. daemon' = CloseStdout(CloseStdin(daemon, conn.stdin), NoDaemon)
  BY DEF Shutdown, CloseStdout
<1> QED
  BY <1>1, <1>2, CloseAnswer DEF Shutdown

LEMMA AnswerInit == SessionInit => AnswerInv
<1> SUFFICES ASSUME SessionInit PROVE AnswerInv
  OBVIOUS
<1>1. \A d \in Daemons : daemon[d].running = {} /\ daemon[d].writing = {}
                         /\ daemon[d].input = <<>> /\ daemon[d].output = <<>>
  BY DEF SessionInit, RpcInit, Unborn
<1>2. \A d \in Daemons : AskedOf(daemon[d]) = {} /\ SaidBy(daemon[d]) = {}
  BY <1>1 DEF AskedOf, SaidBy, Range
<1>3. conn.pending = {} /\ conn.buffer = <<>> /\ scheduled = <<>>
  BY DEF SessionInit, NewConnection
<1>4. Range(conn.buffer) = {} /\ Range(scheduled) = {}
  BY <1>3 DEF Range
<1>5. Scheduled = {}
  BY <1>4 DEF Scheduled
<1>6. Asked = {}
  BY <1>2 DEF Asked
<1>7. ASSUME NEW msg \in Said PROVE FALSE
  <2>1. ASSUME NEW d \in Daemons, msg \in SaidBy(daemon[d]) PROVE FALSE
    BY <1>2, <2>1
  <2> QED
    BY <1>4, <1>5, <1>7, <2>1 DEF Said
<1>8. AnswersMatch
  BY DEF AnswersMatch, SessionInit
<1> QED
  BY <1>3, <1>6, <1>7, <1>8 DEF AnswerInv, PendingInv

LEMMA AnswerStep == ASSUME ServedInv, AnswerInv, [SessionNext]_sessionVars PROVE AnswerInv'
<1>1. CASE UNCHANGED sessionVars
  BY <1>1 DEF sessionVars, AnswerInv, PendingInv, AnswersMatch, AgreesMsg, Agrees, Asked, AskedOf,
              Said, SaidBy, Scheduled
<1>2. SessionSteps
  BY SessionStep DEF ServedInv
<1> QED
  BY <1>1, <1>2, RpcCallAnswer, TimeoutAnswer, DaemonRunsAnswer, ReapAnswer, ReadAnswer,
     HandleStdoutAnswer, HandleExitAnswer, RetryAnswer, ResetAnswer, ShutdownAnswer
     DEF SessionSteps

(* No call gets the response to another, whatever was reset, restarted or  *)
(* late: ids are never used twice, not even by the daemons of two          *)
(* connections (request and handle_stdout, next_id and pending).           *)
THEOREM CallsAnswered == SessionSpec => []AnswersMatch
<1>1. ServedInv /\ AnswerInv /\ [SessionNext]_sessionVars => ServedInv' /\ AnswerInv'
  BY ServedStep, AnswerStep
<1>2. SessionInit => ServedInv /\ AnswerInv
  BY ServedInit, AnswerInit
<1>3. AnswerInv => AnswersMatch
  BY DEF AnswerInv
<1> QED
  BY <1>1, <1>2, <1>3, PTL DEF SessionSpec

-----------------------------------------------------------------------------
(* Lines arrive whole.                                                     *)

LEMMA ChainKeep ==
  ASSUME ChainInv, conn'.handle = conn.handle, conn'.buffer = conn.buffer,
         UNCHANGED <<scheduled, mixed>>,
         conn.handle # NoDaemon =>
            /\ daemon'[conn.handle].output = daemon[conn.handle].output
            /\ daemon'[conn.handle].writing = daemon[conn.handle].writing
  PROVE  ChainInv'
BY DEF ChainInv, BufferChained, CallbacksChained, OutputChained, Clean, Part, OutputPart, BufferEnd

LEMMA ChainEnds ==
  ASSUME mixed' \/ conn'.handle = NoDaemon
  PROVE  ChainInv'
BY DEF ChainInv

(* A part is written after what the connection's daemon wrote before. *)
LEMMA OutputGrows ==
  ASSUME SessionTypeOK, NEW d \in Daemons, OutputChained(d), UNCHANGED <<conn, scheduled>>,
         NEW part, daemon'[d].output = Append(daemon[d].output, part),
         Follows(OutputPart(d, Len(daemon[d].output)), part),
         \/ daemon'[d].writing = {} /\ part[2] = 2
         \/ \E msg : daemon'[d].writing = {msg} /\ part = <<msg, 1>>
  PROVE  OutputChained(d)'
<1> DEFINE n == Len(daemon[d].output)
<1>1. daemon[d].output \in Seq(Parts({d}))
  BY DEF SessionTypeOK, Processes
<1>2. /\ n \in Nat /\ Len(daemon'[d].output) = n + 1 /\ n + 1 # 0
      /\ DOMAIN daemon'[d].output = 1 .. n + 1 /\ DOMAIN daemon[d].output = 1 .. n
      /\ daemon'[d].output[n + 1] = part
      /\ \A i \in 1 .. n : daemon'[d].output[i] = daemon[d].output[i]
  BY <1>1
<1>3. UNCHANGED Part(Len(scheduled))
  BY DEF Part, BufferEnd
<1>4. \A i \in 0 .. n : OutputPart(d, i)' = OutputPart(d, i)
  BY <1>2, <1>3 DEF OutputPart
<1>5. \A last \in Nat : last = n + 1 => OutputPart(d, last)' = part
  BY <1>2 DEF OutputPart
<1>6. ASSUME NEW i \in DOMAIN daemon'[d].output
      PROVE  Follows(OutputPart(d, i - 1)', daemon'[d].output[i])
  <2>1. CASE i = n + 1
    <3>1. OutputPart(d, i - 1)' = OutputPart(d, n) /\ daemon'[d].output[i] = part
      BY <1>2, <1>4, <2>1
    <3> QED
      BY <3>1
  <2>2. CASE i # n + 1
    <3>1. i \in 1 .. n /\ i - 1 \in 0 .. n
      BY <1>2, <2>2
    <3> QED
      BY <1>2, <1>4, <3>1 DEF OutputChained
  <2> QED
    BY <2>1, <2>2
<1> HIDE DEF n
<1>7. OutputPart(d, Len(daemon[d].output))' = part
  BY <1>2, <1>5
<1> QED
  BY <1>6, <1>7 DEF OutputChained

LEMMA DaemonRunsLine ==
  ASSUME ServedInv, LineInv, NEW d \in Daemons, DaemonRuns(d)
  PROVE  LineInv'
<1> USE DEF ServedInv
<1>1. daemon[d] \in Processes(d) /\ d # NoDaemon
  BY DEF SessionTypeOK, Daemons, NoDaemon
<1>2. UNCHANGED <<conn, scheduled, mixed, garbled>> /\ \A e \in Daemons : e # d => daemon'[e] = daemon[e]
  BY DEF DaemonRuns, Others
<1>3. WholeLines'
  BY <1>2 DEF LineInv, WholeLines
<1>4. CASE daemon'[d].output = daemon[d].output /\ daemon'[d].writing = daemon[d].writing
  <2>1. conn.handle # NoDaemon => conn.handle \in Daemons
    BY BornDaemons DEF SessionTypeOK, Connections
  <2> QED
    BY <1>2, <1>3, <1>4, <2>1, ChainKeep DEF LineInv
<1>5. CASE d # conn.handle
  <2>1. conn.handle # NoDaemon => conn.handle \in Daemons
    BY BornDaemons DEF SessionTypeOK, Connections
  <2> QED
    BY <1>2, <1>3, <1>5, <2>1, ChainKeep DEF LineInv
<1>6. ASSUME d = conn.handle, ~mixed, Clean(Len(scheduled)) => OutputChained(d)' PROVE ChainInv'
  <2>1. UNCHANGED <<BufferChained, CallbacksChained, Clean(Len(scheduled))>>
    BY <1>2 DEF BufferChained, CallbacksChained, Clean, Part, BufferEnd
  <2>2. BufferChained /\ CallbacksChained
    BY <1>1, <1>6 DEF LineInv, ChainInv
  <2>3. OutputChained(d)' = OutputChained(conn.handle)'
    BY <1>2, <1>6
  <2> QED
    BY <1>2, <1>6, <2>1, <2>2, <2>3 DEF ChainInv
<1>7. ASSUME d = conn.handle, ~mixed, Clean(Len(scheduled)) PROVE OutputChained(d)
  BY <1>1, <1>7 DEF LineInv, ChainInv
<1>8. ASSUME NEW msg, Begins(d, msg) PROVE LineInv'
  <2>1. /\ daemon[d].writing = {} /\ daemon'[d].writing = {msg}
        /\ daemon'[d].output = Append(daemon[d].output, <<msg, 1>>)
    BY <1>1, <1>8 DEF Begins, Processes
  <2>2. ASSUME OutputChained(d) PROVE OutputChained(d)'
    <3>1. OutputPart(d, Len(daemon[d].output))[2] = 2
      BY <2>1, <2>2 DEF OutputChained
    <3>2. Follows(OutputPart(d, Len(daemon[d].output)), <<msg, 1>>)
      BY <3>1 DEF Follows
    <3> QED
      BY <1>2, <2>1, <2>2, <3>2, OutputGrows
  <2> QED
    BY <1>2, <1>3, <1>5, <1>6, <1>7, <2>2, ChainEnds DEF LineInv
<1>9. ASSUME NEW msg \in daemon[d].writing, Finishes(d, msg) PROVE LineInv'
  <2>1. /\ daemon'[d].writing = daemon[d].writing \ {msg}
        /\ daemon'[d].output = Append(daemon[d].output, <<msg, 2>>)
    BY <1>1, <1>9 DEF Finishes, Processes
  <2>2. ASSUME OutputChained(d) PROVE OutputChained(d)'
    <3>1. daemon[d].writing = {msg} /\ OutputPart(d, Len(daemon[d].output)) = <<msg, 1>>
      BY <2>1, <2>2 DEF OutputChained
    <3>2. Follows(OutputPart(d, Len(daemon[d].output)), <<msg, 2>>)
      BY <3>1 DEF Follows
    <3>3. daemon'[d].writing = {} /\ <<msg, 2>>[2] = 2
      BY <2>1, <3>1
    <3> QED
      BY <1>2, <2>1, <2>2, <3>2, <3>3, OutputGrows
  <2> QED
    BY <1>2, <1>3, <1>5, <1>6, <1>7, <2>2, ChainEnds DEF LineInv
<1>10. ASSUME Takes(d) \/ Dies(d) \/ Drains(d) \/ Exits(d) PROVE LineInv'
  <2>1. daemon'[d].output = daemon[d].output /\ daemon'[d].writing = daemon[d].writing
    BY <1>1, <1>10 DEF Takes, Dies, Drains, Exits, Processes
  <2> QED
    BY <1>4, <2>1
<1> QED
  BY <1>8, <1>9, <1>10 DEF DaemonRuns, DaemonSteps

(* No output of a daemon that starts now is on its way. *)
LEMMA ChainBegins ==
  ASSUME SessionTypeOK, conn'.handle = used.spawns + 1, conn'.buffer = <<>>, UNCHANGED scheduled,
         daemon'[conn'.handle].output = <<>>, daemon'[conn'.handle].writing = {}
  PROVE  ChainInv'
<1>1. used.spawns \in Nat /\ scheduled \in Seq(Callbacks)
  BY DEF SessionTypeOK
<1>2. ASSUME NEW i \in DOMAIN scheduled, "data" \in DOMAIN scheduled[i]
      PROVE  scheduled[i].data[1].from # conn'.handle
  <2>1. scheduled[i] \in Callbacks
    BY <1>1
  <2>2. scheduled[i].data \in Parts(Born)
    BY <1>2, <2>1 DEF Callbacks
  <2>3. scheduled[i].data[1].from \in Born
    BY <2>2 DEF Parts, Messages
  <2> QED
    BY <1>1, <2>3 DEF Born
<1>3. ASSUME NEW i \in DOMAIN scheduled PROVE ~Clean(i)'
  BY <1>1, <1>2, <1>3 DEF Clean
<1>4. (BufferChained /\ CallbacksChained)'
  BY <1>3 DEF BufferChained, CallbacksChained
<1>5. ASSUME Clean(Len(scheduled))' PROVE OutputChained(conn.handle)'
  <2>1. Len(scheduled) = 0
    BY <1>1, <1>3, <1>5
  <2>2. OutputPart(conn.handle, Len(daemon[conn.handle].output))' = Start
    BY <2>1 DEF OutputPart, Part, BufferEnd, Ends
  <2>3. Start[2] = 2
    BY DEF Start
  <2> QED
    BY <2>2, <2>3 DEF OutputChained
<1> QED
  BY <1>4, <1>5 DEF ChainInv

LEMMA SpawnLine ==
  ASSUME ServedInv, NEW result \in Spawns, NEW again, again.new = result.new, Spawn(again),
         again.retries \in Nat
  PROVE  LET ds == Started(daemon, result.new)
             k == result.conn
         IN  \/ k.handle = conn.handle /\ k.buffer = conn.buffer /\ ds = daemon
             \/ /\ k.handle = used.spawns + 1 /\ k.buffer = <<>> /\ k.handle \in Daemons
                /\ ds[k.handle].output = <<>> /\ ds[k.handle].writing = {}
<1> DEFINE ds == Started(daemon, result.new)
           k == result.conn
           n == used.spawns + 1
<1> USE DEF ServedInv
<1>1. conn \in Connections /\ used.spawns \in Nat
  BY DEF SessionTypeOK
<1>2. ASSUME Unstarted(k) PROVE k.handle = conn.handle /\ k.buffer = conn.buffer
  BY <1>1, <1>2 DEF Unstarted, Connections
<1>3. ASSUME StartsLast(k) PROVE /\ k.handle = n /\ k.buffer = <<>> /\ k.handle \in Daemons
                                 /\ daemon[k.handle] = Unborn
  <2>1. k.handle = n /\ k.buffer = <<>> /\ n \in Daemons
    BY <1>1, <1>3 DEF StartsLast, Spawned, Connections
  <2> QED
    BY <1>1, <2>1 DEF PipesInv
<1>4. ASSUME NEW d \in Daemons, daemon[d] = Unborn PROVE ds[d].output = <<>> /\ ds[d].writing = {}
  BY <1>4 DEF Started, Unborn
<1>5. \/ Unstarted(k) /\ ds = daemon
      \/ StartsLast(k)
  BY SpawnStep
<1> HIDE DEF k, ds
<1>6. \/ k.handle = conn.handle /\ k.buffer = conn.buffer /\ ds = daemon
      \/ /\ k.handle = n /\ k.buffer = <<>> /\ k.handle \in Daemons
         /\ ds[k.handle].output = <<>> /\ ds[k.handle].writing = {}
  BY <1>2, <1>3, <1>4, <1>5
<1> QED
  BY <1>6 DEF k, ds

(* A step that may spawn, and may send to the connection's daemon. *)
LEMMA SpawnsLine ==
  ASSUME ServedInv, LineInv, NEW result \in Spawns, NEW again, again.new = result.new, Spawn(again),
         again.retries \in Nat, UNCHANGED <<scheduled, mixed, garbled>>,
         conn'.handle = result.conn.handle, conn'.buffer = result.conn.buffer,
         \A d \in Daemons : LET is == Started(daemon, result.new)[d]
                            IN  daemon'[d].output = is.output /\ daemon'[d].writing = is.writing
  PROVE  LineInv'
<1>1. WholeLines'
  BY DEF LineInv, WholeLines
<1> DEFINE ds == Started(daemon, result.new)
           k == result.conn
<1>2. \/ k.handle = conn.handle /\ k.buffer = conn.buffer /\ ds = daemon
      \/ /\ k.handle = used.spawns + 1 /\ k.buffer = <<>> /\ k.handle \in Daemons
         /\ ds[k.handle].output = <<>> /\ ds[k.handle].writing = {}
  BY SpawnLine
<1>3. \A d \in Daemons : daemon'[d].output = ds[d].output /\ daemon'[d].writing = ds[d].writing
  OBVIOUS
<1>4. conn'.handle = k.handle /\ conn'.buffer = k.buffer
  OBVIOUS
<1>5. conn.handle # NoDaemon => conn.handle \in Daemons
  BY BornDaemons DEF ServedInv, SessionTypeOK, Connections
<1> HIDE DEF ds, k
<1>6. CASE k.handle = conn.handle /\ k.buffer = conn.buffer /\ ds = daemon
  BY <1>1, <1>3, <1>4, <1>5, <1>6, ChainKeep DEF LineInv
<1>7. CASE /\ k.handle = used.spawns + 1 /\ k.buffer = <<>> /\ k.handle \in Daemons
           /\ ds[k.handle].output = <<>> /\ ds[k.handle].writing = {}
  BY <1>1, <1>3, <1>4, <1>7, ChainBegins DEF LineInv, ServedInv
<1> QED
  BY <1>2, <1>6, <1>7

LEMMA RpcCallLine ==
  ASSUME ServedInv, LineInv, NEW c \in Calls, RpcCall(c)
  PROVE  LineInv'
<1> USE DEF ServedInv
<1>1. PICK result \in Spawns :
        /\ Spawn(result)
        /\ \/ \E k \in {result.conn, [result.conn EXCEPT !.next_id = @ + 1]} :
                Hang(c, k) /\ UNCHANGED daemon /\ (result.conn.state # "connected" \/ result.conn.stdin = NoDaemon)
           \/ result.conn.stdin # NoDaemon /\ Send(c, result.conn, Started(daemon, result.new))
  BY DEF RpcCall
<1> DEFINE ds == Started(daemon, result.new)
           k == result.conn
<1>2. result.retries \in Nat
  BY SpawnsStep
<1>3. k \in Connections' /\ Typed(ds) /\ used'.spawns \in Nat /\ used'.spawns <= MaxDaemons
  BY <1>1, <1>2, SpawnStep, RpcAssumption DEF Typed
<1>4. UNCHANGED <<scheduled, mixed, garbled>>
  BY DEF RpcCall
<1>5. ds = daemon \/ (k.state = "connected" /\ k.stdin # NoDaemon)
  <2>1. ASSUME StartsLast(k) PROVE k.state = "connected" /\ k.stdin # NoDaemon
    BY <2>1 DEF StartsLast, Spawned, SessionTypeOK, Connections, Daemons, NoDaemon
  <2>2. (result.new = {} /\ ds = daemon) \/ StartsLast(k)
    BY <1>1, <1>2, SpawnStep
  <2> HIDE DEF ds, k
  <2> QED
    BY <2>1, <2>2
<1> HIDE DEF ds, k
<1>6. conn'.handle = k.handle /\ conn'.buffer = k.buffer
  BY <1>1, <1>3 DEF Hang, Send, Connections, k
<1>7. \A d \in Daemons : daemon'[d].output = ds[d].output /\ daemon'[d].writing = ds[d].writing
  <2>1. CASE UNCHANGED daemon /\ ds = daemon
    BY <2>1
  <2>2. CASE k.stdin # NoDaemon /\ Send(c, k, ds)
    <3> DEFINE req == Request(k.next_id, c)
    <3>1. Born' \subseteq Daemons
      BY <1>3, RpcAssumption DEF Born, Daemons
    <3>2. \A e \in Daemons : daemon'[e] =
                  IF e = k.stdin /\ ds[e].up # "dead"
                  THEN [ds[e] EXCEPT !.input = Append(@, req)] ELSE ds[e]
      BY SMTT(30), <1>3, <2>2, <3>1, SendType
    <3> HIDE DEF req
    <3>3. \A e \in Daemons : daemon'[e] = ds[e] \/ daemon'[e] = [ds[e] EXCEPT !.input = Append(@, req)]
      BY <3>2
    <3>4. \A e \in Daemons : ds[e] \in Processes(e)
      BY <1>3 DEF Typed
    <3> QED
      BY <3>3, <3>4 DEF Processes
  <2> QED
    BY <1>1, <1>5, <2>1, <2>2 DEF ds, k
<1> QED
  BY <1>1, <1>2, <1>4, <1>6, <1>7, SpawnsLine DEF ds, k

LEMMA RetryLine ==
  ASSUME ServedInv, LineInv, Retry
  PROVE  LineInv'
<1>1. UNCHANGED <<scheduled, mixed, garbled>>
  BY DEF Retry
<1>2. CASE conn.state = "error"
  <2>1. UNCHANGED <<conn, daemon>>
    BY <1>2 DEF Retry
  <2> QED
    BY <1>1, <2>1, ChainKeep DEF LineInv, WholeLines
<1>3. CASE conn.state # "error"
  <2>1. PICK result \in Spawns :
          /\ conn' = result.conn /\ daemon' = Started(daemon, result.new)
          /\ Spawn([result EXCEPT !.retries = @ - 1])
    BY <1>3 DEF Retry
  <2> DEFINE again == [result EXCEPT !.retries = @ - 1]
  <2>2. again.new = result.new /\ again.retries = result.retries - 1
    BY DEF Spawns, Failures
  <2>3. again.retries \in Nat
    BY <2>2, SpawnsStep DEF Retry, SessionTypeOK, ServedInv
  <2> HIDE DEF again
  <2>4. Spawn(again)
    BY <2>1 DEF again
  <2> QED
    BY <1>1, <2>1, <2>2, <2>3, <2>4, SpawnsLine
<1> QED
  BY <1>2, <1>3

(* A callback is scheduled after the others. *)
LEMMA ChainAppends ==
  ASSUME SessionTypeOK, UNCHANGED conn, NEW item, scheduled' = Append(scheduled, item)
  PROVE  LET n == Len(scheduled)
         IN  /\ n \in Nat /\ Len(scheduled') = n + 1 /\ DOMAIN scheduled' = 1 .. n + 1
             /\ DOMAIN scheduled = 1 .. n /\ scheduled'[n + 1] = item
             /\ \A i \in 0 .. n : Clean(i)' = Clean(i) /\ Part(i)' = Part(i)
             /\ CallbacksChained =>
                    \A i \in 1 .. n : Clean(i)' => Follows(Part(i - 1)', scheduled'[i].data)
<1> DEFINE n == Len(scheduled)
<1>1. scheduled \in Seq(Callbacks)
  BY DEF SessionTypeOK
<1>2. /\ n \in Nat /\ Len(scheduled') = n + 1 /\ DOMAIN scheduled' = 1 .. n + 1
      /\ DOMAIN scheduled = 1 .. n /\ scheduled'[n + 1] = item
      /\ \A i \in 1 .. n : scheduled'[i] = scheduled[i]
  BY <1>1
<1>3. ASSUME NEW i \in 0 .. n PROVE Clean(i)' = Clean(i) /\ Part(i)' = Part(i)
  <2>1. \A j \in 1 .. i : j \in 1 .. n
    BY <1>2
  <2>2. i = 0 \/ i \in 1 .. n
    BY <1>2
  <2> HIDE DEF n
  <2>3. Clean(i)' = Clean(i)
    BY <1>2, <2>1 DEF Clean
  <2>4. Part(i)' = Part(i)
    BY <1>2, <2>2 DEF Part, BufferEnd
  <2> QED
    BY <2>3, <2>4
<1>4. ASSUME CallbacksChained, NEW i \in 1 .. n, Clean(i)' PROVE Follows(Part(i - 1)', scheduled'[i].data)
  <2>1. i \in 0 .. n /\ i - 1 \in 0 .. n
    BY <1>2
  <2>2. Clean(i) /\ Part(i - 1)' = Part(i - 1) /\ scheduled'[i] = scheduled[i]
    BY <1>2, <1>3, <1>4, <2>1
  <2> QED
    BY <1>2, <1>4, <2>2 DEF CallbacksChained
<1> QED
  BY <1>2, <1>3, <1>4

LEMMA ReapLine ==
  ASSUME ServedInv, LineInv, NEW d \in Daemons, Reap(d)
  PROVE  LineInv'
<1>1. UNCHANGED <<conn, daemon, mixed, garbled>> /\ scheduled' = Append(scheduled, [exit |-> d])
  BY DEF Reap
<1> DEFINE n == Len(scheduled)
<1>2. /\ n \in Nat /\ Len(scheduled') = n + 1 /\ DOMAIN scheduled' = 1 .. n + 1
      /\ scheduled'[n + 1] = [exit |-> d]
      /\ CallbacksChained => \A i \in 1 .. n : Clean(i)' => Follows(Part(i - 1)', scheduled'[i].data)
  BY <1>1, ChainAppends DEF ServedInv
<1> HIDE DEF n
<1>3. "data" \notin DOMAIN [exit |-> d]
  OBVIOUS
<1>4. \A last \in Nat : last = n + 1 => ~Clean(last)'
  BY <1>2, <1>3 DEF Clean
<1>5. ~Clean(Len(scheduled))'
  BY <1>2, <1>4
<1>6. CallbacksChained => CallbacksChained'
  BY <1>2, <1>4 DEF CallbacksChained
<1>7. BufferChained => BufferChained'
  BY <1>1 DEF BufferChained
<1>8. ChainInv'
  BY <1>1, <1>5, <1>6, <1>7 DEF LineInv, ChainInv
<1> QED
  BY <1>1, <1>8 DEF LineInv, WholeLines

LEMMA ReadLine ==
  ASSUME ServedInv, LineInv, Read
  PROVE  LineInv'
<1> DEFINE d == conn.stdout
           output == daemon[d].output
           head == Head(output)
           n == Len(scheduled)
<1>1. d \in Daemons /\ daemon'[d] = [daemon[d] EXCEPT !.output = Tail(@)] /\ d = conn.handle
  BY ReadType DEF ServedInv, PipesInv
<1>2. daemon[d] \in Processes(d)
  BY <1>1 DEF ServedInv, SessionTypeOK
<1>3. output \in Seq(Parts({d})) /\ output # <<>>
  BY <1>2 DEF Read, Processes
<1>4. UNCHANGED <<conn, mixed, garbled>> /\ scheduled' = Append(scheduled, [data |-> head])
  BY DEF Read
<1>5. daemon'[d].output = Tail(output) /\ daemon'[d].writing = daemon[d].writing
  BY <1>1, <1>2 DEF Processes
<1>6. /\ n \in Nat /\ Len(scheduled') = n + 1 /\ DOMAIN scheduled' = 1 .. n + 1
      /\ scheduled'[n + 1] = [data |-> head]
      /\ \A i \in 0 .. n : Clean(i)' = Clean(i) /\ Part(i)' = Part(i)
      /\ CallbacksChained => \A i \in 1 .. n : Clean(i)' => Follows(Part(i - 1)', scheduled'[i].data)
  BY <1>4, ChainAppends DEF ServedInv
<1>7. /\ Len(output) \in Nat \ {0} /\ DOMAIN output = 1 .. Len(output) /\ head = output[1]
      /\ Len(Tail(output)) = Len(output) - 1 /\ DOMAIN Tail(output) = 1 .. Len(output) - 1
      /\ \A i \in 1 .. Len(output) - 1 : Tail(output)[i] = output[i + 1]
  BY <1>3
<1> HIDE DEF n, head
<1>8. WholeLines'
  BY <1>4 DEF LineInv, WholeLines
<1>9. CASE mixed
  BY <1>4, <1>8, <1>9, ChainEnds DEF LineInv
<1>10. CASE ~mixed
  <2>1. BufferChained /\ CallbacksChained /\ (Clean(n) => OutputChained(d))
    BY <1>1, <1>10 DEF LineInv, ChainInv, Read, n
  <2>2. ASSUME NEW last \in Nat, last = n + 1
        PROVE  Part(last)' = head /\ (Clean(last)' => Clean(n))
    <3>1. Part(last)' = head
      BY <1>6, <2>2 DEF Part
    <3>2. ASSUME NEW before \in 0 .. n, before = n, Clean(last)' PROVE Clean(before)'
      BY <1>6, <2>2, <3>2 DEF Clean
    <3>3. n \in 0 .. n
      BY <1>6
    <3> QED
      BY <1>6, <3>1, <3>2, <3>3
  <2>3. ASSUME Clean(n) PROVE Follows(Part(n), head)
    <3>1. OutputPart(d, 0) = Part(n)
      BY DEF OutputPart, n
    <3>2. 1 \in DOMAIN output /\ 1 - 1 = 0
      BY <1>7
    <3>3. Follows(OutputPart(d, 1 - 1), output[1])
      BY <2>1, <2>3, <3>2 DEF OutputChained
    <3> QED
      BY <1>7, <3>1, <3>2, <3>3
  <2>4. CallbacksChained'
    <3>1. ASSUME NEW i \in DOMAIN scheduled', Clean(i)' PROVE Follows(Part(i - 1)', scheduled'[i].data)
      <4>1. CASE i \in 1 .. n
        BY <1>6, <2>1, <3>1, <4>1
      <4>2. CASE i = n + 1
        <5>1. i - 1 = n /\ n \in 0 .. n /\ i \in Nat
          BY <1>6, <4>2
        <5>2. Follows(Part(n), head)
          BY <2>2, <2>3, <3>1, <4>2, <5>1
        <5>3. Part(i - 1)' = Part(n) /\ scheduled'[i].data = head
          BY <1>6, <4>2, <5>1
        <5> QED
          BY <5>2, <5>3
      <4> QED
        BY <1>6, <4>1, <4>2
    <3> QED
      BY <3>1 DEF CallbacksChained
  <2>5. BufferChained'
    BY <1>4, <2>1 DEF BufferChained
  <2>6. ASSUME Clean(Len(scheduled))' PROVE OutputChained(conn.handle)'
    <3>1. OutputChained(d)
      BY <1>6, <2>1, <2>2, <2>6
    <3>2. Part(Len(scheduled))' = head
      BY <1>6, <2>2
    <3>3. ASSUME NEW i \in 0 .. Len(output) - 1
          PROVE  OutputPart(conn.handle, i)' = OutputPart(d, i + 1)
      <4>1. CASE i = 0
        <5>1. OutputPart(conn.handle, i)' = head
          BY <3>2, <4>1 DEF OutputPart
        <5>2. OutputPart(d, i + 1) = output[1]
          BY <4>1 DEF OutputPart
        <5> QED
          BY <1>7, <5>1, <5>2
      <4>2. CASE i # 0
        <5>1. i \in 1 .. Len(output) - 1 /\ i + 1 # 0
          BY <1>7, <4>2
        <5>2. OutputPart(conn.handle, i)' = Tail(output)[i]
          BY <1>1, <1>4, <1>5, <4>2 DEF OutputPart
        <5>3. OutputPart(d, i + 1) = output[i + 1]
          BY <5>1 DEF OutputPart
        <5> QED
          BY <1>7, <5>1, <5>2, <5>3
      <4> QED
        BY <4>1, <4>2
    <3>4. ASSUME NEW i \in 1 .. Len(output) - 1
          PROVE  Follows(OutputPart(conn.handle, i - 1)', Tail(output)[i])
      <4>1. i - 1 \in 0 .. Len(output) - 1 /\ i + 1 \in DOMAIN output /\ (i + 1) - 1 = i /\ (i - 1) + 1 = i
        BY <1>7
      <4>2. Follows(OutputPart(d, (i + 1) - 1), output[i + 1])
        BY <3>1, <4>1 DEF OutputChained
      <4>3. OutputPart(conn.handle, i - 1)' = OutputPart(d, i)
        BY <3>3, <4>1
      <4> QED
        BY <1>7, <4>1, <4>2, <4>3
    <3>5. ASSUME NEW last \in Nat, last = Len(output) - 1
          PROVE  OutputPart(conn.handle, last)' = OutputPart(d, Len(output))
      BY <1>7, <3>3, <3>5
    <3> DEFINE end == OutputPart(d, Len(output))
    <3>6. OutputPart(conn.handle, Len(daemon[conn.handle].output))' = end
      <4>1. Len(daemon'[conn'.handle].output) = Len(output) - 1 /\ Len(output) - 1 \in Nat
        BY <1>1, <1>4, <1>5, <1>7
      <4> QED
        BY <3>5, <4>1
    <3>7. \A i \in DOMAIN daemon'[conn'.handle].output :
             Follows(OutputPart(conn.handle, i - 1)', daemon'[conn'.handle].output[i])
      BY <1>1, <1>4, <1>5, <1>7, <3>4
    <3>8. /\ daemon'[conn'.handle].writing = {} => end[2] = 2
          /\ \A msg \in daemon'[conn'.handle].writing :
                daemon'[conn'.handle].writing = {msg} /\ end = <<msg, 1>>
      BY <1>1, <1>4, <1>5, <3>1 DEF OutputChained
    <3> HIDE DEF end
    <3> QED
      BY <3>6, <3>7, <3>8 DEF OutputChained
  <2> QED
    BY <1>8, <2>4, <2>5, <2>6 DEF LineInv, ChainInv
<1> QED
  BY <1>9, <1>10

(* The end of a line and no line at all: a new line follows either. *)
Alike(p, q) == p = q \/ (p[2] = 2 /\ q[2] = 2)

LEMMA AlikeFollows ==
  ASSUME NEW p, NEW q, NEW part, Alike(p, q), Follows(p, part)
  PROVE  Follows(q, part)
BY DEF Alike, Follows

(* The first callback runs: what comes after it still follows. *)
LEMMA ChainShifts ==
  ASSUME SessionTypeOK, scheduled # <<>>, scheduled' = Tail(scheduled), UNCHANGED daemon,
         conn'.handle = conn.handle, conn.handle \in Daemons,
         Clean(1), CallbacksChained, Clean(Len(scheduled)) => OutputChained(conn.handle),
         Alike(scheduled[1].data, BufferEnd')
  PROVE  CallbacksChained' /\ (Clean(Len(scheduled))' => OutputChained(conn.handle)')
<1> DEFINE n == Len(scheduled)
           d == conn.handle
<1>1. /\ n \in Nat \ {0} /\ DOMAIN scheduled = 1 .. n
      /\ Len(scheduled') = n - 1 /\ DOMAIN scheduled' = 1 .. n - 1
      /\ \A i \in 1 .. n - 1 : scheduled'[i] = scheduled[i + 1]
  BY DEF SessionTypeOK
<1>2. CallbacksChained /\ (Clean(n) => OutputChained(d)) /\ Clean(1)
  OBVIOUS
<1> HIDE DEF n
<1>3. ASSUME NEW i \in 0 .. n - 1, Clean(i)' PROVE Clean(i + 1)
  <2>1. \A j \in 1 .. i : /\ "data" \in DOMAIN scheduled'[j]
                          /\ scheduled'[j].data[1].from = conn'.handle
    BY <1>3 DEF Clean
  <2>2. ASSUME NEW j \in 1 .. i + 1
        PROVE  "data" \in DOMAIN scheduled[j] /\ scheduled[j].data[1].from = conn.handle
    <3>1. CASE j = 1
      BY <1>2, <3>1 DEF Clean
    <3>2. CASE j # 1
      <4>1. j - 1 \in 1 .. i /\ j - 1 \in 1 .. n - 1 /\ (j - 1) + 1 = j
        BY <1>1, <3>2
      <4>2. scheduled'[j - 1] = scheduled[j]
        BY <1>1, <4>1
      <4> QED
        BY <2>1, <4>1, <4>2
    <3> QED
      BY <3>1, <3>2
  <2> QED
    BY <2>2 DEF Clean
<1>4. ASSUME NEW i \in 0 .. n - 1 PROVE Alike(Part(i + 1), Part(i)')
  <2>1. CASE i = 0
    <3>1. Part(i)' = BufferEnd' /\ Part(i + 1) = scheduled[1].data
      BY <2>1 DEF Part
    <3> QED
      BY <3>1
  <2>2. CASE i # 0
    <3>1. i \in 1 .. n - 1 /\ i + 1 # 0
      BY <1>1, <2>2
    <3>2. Part(i)' = scheduled'[i].data /\ Part(i + 1) = scheduled[i + 1].data
      BY <2>2, <3>1 DEF Part
    <3> QED
      BY <1>1, <3>1, <3>2 DEF Alike
  <2> QED
    BY <2>1, <2>2
<1>5. CallbacksChained'
  <2>1. ASSUME NEW i \in 1 .. n - 1, Clean(i)' PROVE Follows(Part(i - 1)', scheduled'[i].data)
    <3>1. i \in 0 .. n - 1 /\ i - 1 \in 0 .. n - 1 /\ i + 1 \in 1 .. n /\ (i + 1) - 1 = i /\ (i - 1) + 1 = i
      BY <1>1
    <3>2. Follows(Part((i + 1) - 1), scheduled[i + 1].data)
      BY <1>1, <1>2, <1>3, <2>1, <3>1 DEF CallbacksChained
    <3>3. Alike(Part(i), Part(i - 1)')
      BY <1>4, <3>1
    <3>4. Follows(Part(i), scheduled'[i].data)
      BY <1>1, <3>1, <3>2
    <3> QED
      BY <3>3, <3>4, AlikeFollows
  <2> QED
    BY <1>1, <2>1 DEF CallbacksChained
<1>6. ASSUME Clean(Len(scheduled))' PROVE OutputChained(conn.handle)'
  <2>1. n - 1 \in 0 .. n - 1 /\ (n - 1) + 1 = n
    BY <1>1
  <2>2. ASSUME NEW last \in 0 .. n - 1, last = n - 1
        PROVE  Clean(last + 1) /\ Alike(Part(last + 1), Part(Len(scheduled))')
    <3>1. Clean(last)' /\ Part(Len(scheduled))' = Part(last)'
      BY <1>1, <1>6, <2>2
    <3> QED
      BY <1>3, <1>4, <3>1
  <2>3. Clean(n) /\ Alike(Part(n), Part(Len(scheduled))')
    BY <2>1, <2>2
  <2>4. OutputChained(d)
    BY <1>2, <2>3
  <2>5. ASSUME NEW i \in Nat PROVE Alike(OutputPart(d, i), OutputPart(conn.handle, i)')
    <3>1. CASE i = 0
      <4>1. OutputPart(d, i) = Part(n) /\ OutputPart(conn.handle, i)' = Part(Len(scheduled))'
        BY <3>1 DEF OutputPart, n
      <4> QED
        BY <2>3, <4>1
    <3>2. CASE i # 0
      BY <3>2 DEF OutputPart, Alike
    <3> QED
      BY <3>1, <3>2
  <2>6. daemon[d].output \in Seq(Parts({d})) /\ daemon'[conn'.handle] = daemon[d]
    BY DEF SessionTypeOK, Processes
  <2>7. Len(daemon[d].output) \in Nat /\ \A i \in DOMAIN daemon[d].output : i - 1 \in Nat
    BY <2>6
  <2>8. ASSUME NEW i \in DOMAIN daemon[d].output
        PROVE  Follows(OutputPart(conn.handle, i - 1)', daemon[d].output[i])
    <3>1. Follows(OutputPart(d, i - 1), daemon[d].output[i])
      BY <2>4 DEF OutputChained
    <3> QED
      BY <2>5, <2>7, <3>1, AlikeFollows
  <2> DEFINE end == OutputPart(d, Len(daemon[d].output))
  <2>9. /\ daemon[d].writing = {} => end[2] = 2
        /\ \A msg \in daemon[d].writing : daemon[d].writing = {msg} /\ end = <<msg, 1>>
    BY <2>4 DEF OutputChained
  <2>10. ASSUME NEW last \in Nat, last = Len(daemon[d].output)
         PROVE  Alike(end, OutputPart(conn.handle, last)')
    BY <2>5, <2>10
  <2>11. OutputPart(conn.handle, Len(daemon[conn.handle].output))'
            = OutputPart(conn.handle, Len(daemon[d].output))'
    OBVIOUS
  <2>12. Alike(end, OutputPart(conn.handle, Len(daemon[conn.handle].output))')
    BY <2>6, <2>7, <2>10
  <2> HIDE DEF end
  <2>13. /\ daemon[d].writing = {} => OutputPart(conn.handle, Len(daemon[conn.handle].output))'[2] = 2
         /\ \A msg \in daemon[d].writing : OutputPart(conn.handle, Len(daemon[conn.handle].output))' = <<msg, 1>>
    BY <2>9, <2>12 DEF Alike
  <2> QED
    BY <2>6, <2>8, <2>9, <2>13 DEF OutputChained
<1> QED
  BY <1>5, <1>6

LEMMA HandleStdoutLine ==
  ASSUME ServedInv, LineInv, HandleStdout
  PROVE  LineInv'
<1> DEFINE part == Head(scheduled).data
           text == Append(conn.buffer, part)
<1>1. /\ scheduled \in Seq(Callbacks) /\ scheduled # <<>> /\ conn \in Connections
      /\ conn.buffer \in Seq(Parts(Born)) /\ part \in Parts(Born) /\ "data" \in DOMAIN Head(scheduled)
  BY HandleStdoutType DEF ServedInv, HandleStdout, SessionTypeOK, Connections
<1>2. Head(scheduled) = scheduled[1] /\ part = scheduled[1].data /\ 1 \in DOMAIN scheduled
  BY <1>1
<1>3. part[1].from \in Born /\ part[2] \in {1, 2} /\ part = <<part[1], part[2]>>
  BY <1>1 DEF Parts, Messages
<1>4. part[1].from # NoDaemon /\ part[1].from \in Daemons
  BY <1>3, BornDaemons DEF ServedInv
<1>5. /\ mixed' = (mixed \/ part[1].from # conn.handle)
      /\ UNCHANGED daemon /\ scheduled' = Tail(scheduled)
      /\ \/ part[2] = 1 /\ conn' = [conn EXCEPT !.buffer = text] /\ UNCHANGED garbled
         \/ part[2] = 2 /\ Dispatch(text)
  BY DEF HandleStdout
<1>6. CASE mixed'
  BY <1>6, ChainEnds DEF LineInv, WholeLines
<1>7. CASE ~mixed'
  <2>1. ~mixed /\ conn.handle = part[1].from /\ conn.handle # NoDaemon /\ conn.handle \in Daemons
    BY <1>4, <1>5, <1>7
  <2>2. /\ ~garbled /\ BufferChained /\ CallbacksChained
        /\ Clean(Len(scheduled)) => OutputChained(conn.handle)
    BY <2>1 DEF LineInv, WholeLines, ChainInv
  <2>3. Clean(1)
    BY <1>1, <1>2, <2>1 DEF Clean
  <2>4. Follows(BufferEnd, part)
    <3>1. Follows(Part(1 - 1), scheduled[1].data)
      BY <1>2, <2>2, <2>3 DEF CallbacksChained
    <3>2. Part(1 - 1) = BufferEnd
      BY DEF Part
    <3> QED
      BY <1>2, <3>1, <3>2
  <2>5. \/ conn.buffer = <<>> /\ BufferEnd = <<NoDaemon, 2>>
        \/ Len(conn.buffer) = 1 /\ conn.buffer[1][2] = 1 /\ BufferEnd = conn.buffer[1]
    BY <2>2 DEF BufferChained, BufferEnd, Ends, Start
  <2> HIDE DEF part
  <2>6. ~garbled' /\ BufferChained' /\ conn'.handle = conn.handle /\ Alike(part, BufferEnd')
    <3>1. CASE part[2] = 1
      <4>1. conn.buffer = <<>>
        BY <2>4, <2>5, <3>1 DEF Follows
      <4>2. conn' = [conn EXCEPT !.buffer = text] /\ UNCHANGED garbled /\ text = <<part>>
        BY <1>5, <3>1, <4>1
      <4>3. conn'.buffer = <<part>> /\ conn'.handle = conn.handle
        BY <1>1, <4>2 DEF Connections
      <4>4. BufferChained' /\ BufferEnd' = part
        BY <3>1, <4>3 DEF BufferChained, BufferEnd, Ends
      <4> QED
        BY <2>2, <4>2, <4>3, <4>4 DEF Alike
    <3>2. CASE part[2] = 2
      <4>1. BufferEnd = <<part[1], 1>>
        BY <2>4, <3>2 DEF Follows
      <4>2. Len(conn.buffer) = 1 /\ conn.buffer[1] = <<part[1], 1>>
        BY <2>5, <4>1
      <4>3. text = <<<<part[1], 1>>, <<part[1], 2>>>> /\ text[1][1] = part[1]
        <5>1. text = <<conn.buffer[1], part>>
          <6>1. text \in Seq(Parts(Born)) /\ Len(text) = 2 /\ text[1] = conn.buffer[1] /\ text[2] = part
            BY <1>1, <4>2 DEF part
          <6> HIDE DEF text
          <6> QED
            BY <6>1
        <5> QED
          BY <1>3, <3>2, <4>2, <5>1
      <4>4. Dispatch(text)
        BY <1>5, <3>2
      <4>5. garbled' = (garbled \/ ~(text = <<<<text[1][1], 1>>, <<text[1][1], 2>>>>))
        BY <4>4 DEF Dispatch
      <4> HIDE DEF text
      <4>6. ~garbled'
        BY <2>2, <4>3, <4>5
      <4>7. \E rest : conn' = [conn EXCEPT !.buffer = <<>>, !.pending = rest]
        BY <4>4 DEF Dispatch
      <4>8. conn'.buffer = <<>> /\ conn'.handle = conn.handle
        BY <1>1, <4>7 DEF Connections
      <4>9. BufferChained' /\ BufferEnd' = <<NoDaemon, 2>>
        BY <4>8 DEF BufferChained, BufferEnd, Ends, Start
      <4> QED
        BY <3>2, <4>6, <4>8, <4>9 DEF Alike
    <3> QED
      BY <1>3, <3>1, <3>2
  <2>7. CallbacksChained' /\ (Clean(Len(scheduled))' => OutputChained(conn.handle)')
    BY <1>1, <1>2, <1>5, <2>1, <2>2, <2>3, <2>6, ChainShifts DEF ServedInv
  <2> QED
    BY <2>6, <2>7 DEF LineInv, WholeLines, ChainInv
<1> QED
  BY <1>6, <1>7

LEMMA LineInit == SessionInit => LineInv
BY DEF SessionInit, NewConnection, LineInv, WholeLines, ChainInv

LEMMA LineStep == ASSUME ServedInv, LineInv, [SessionNext]_sessionVars PROVE LineInv'
<1>1. SessionSteps
  BY SessionStep DEF ServedInv
<1>2. ASSUME UNCHANGED <<garbled, mixed>>, conn'.handle = NoDaemon PROVE LineInv'
  BY <1>2, ChainEnds DEF LineInv, WholeLines
<1>3. CASE HandleExit
  BY <1>2, <1>3, HandleExitType DEF HandleExit, ServedInv, SessionTypeOK, Connections
<1>4. CASE Reset
  BY <1>2, <1>4 DEF Reset, NewConnection
<1>5. ASSUME conn'.handle = conn.handle, conn'.buffer = conn.buffer,
             UNCHANGED <<scheduled, mixed, garbled>>,
             \A d \in Daemons : daemon'[d].output = daemon[d].output /\ daemon'[d].writing = daemon[d].writing
      PROVE  LineInv'
  <2>1. conn.handle # NoDaemon => conn.handle \in Daemons
    BY BornDaemons DEF ServedInv, SessionTypeOK, Connections
  <2> QED
    BY <1>5, <2>1, ChainKeep DEF LineInv, WholeLines
<1>6. CASE Shutdown
  <2>1. conn.stdin \in {NoDaemon} \cup Daemons
    BY BornDaemons DEF ServedInv, SessionTypeOK, Connections
  <2>2. \A e \in Daemons : daemon'[e] = IF e = conn.stdin THEN [daemon[e] EXCEPT !.eof = TRUE] ELSE daemon[e]
    BY ZenonT(60), <1>6, <2>1, BornDaemons, CloseStep DEF Shutdown, ServedInv
  <2>3. \A d \in Daemons : daemon'[d].output = daemon[d].output /\ daemon'[d].writing = daemon[d].writing
    <3>1. \A d \in Daemons : daemon'[d] = daemon[d] \/ daemon'[d] = [daemon[d] EXCEPT !.eof = TRUE]
      BY <2>2
    <3>2. \A d \in Daemons : daemon[d] \in Processes(d)
      BY DEF ServedInv, SessionTypeOK
    <3> QED
      BY <3>1, <3>2 DEF Processes
  <2>4. conn'.handle = conn.handle /\ conn'.buffer = conn.buffer
    BY <1>6 DEF Shutdown, ServedInv, SessionTypeOK, Connections
  <2> QED
    BY <1>5, <1>6, <2>3, <2>4 DEF Shutdown
<1>7. ASSUME NEW c \in Calls, Timeout(c) PROVE LineInv'
  BY <1>5, <1>7 DEF Timeout, ServedInv, SessionTypeOK, Connections
<1>8. CASE UNCHANGED sessionVars
  BY <1>5, <1>8 DEF sessionVars
<1> QED
  BY <1>1, <1>3, <1>4, <1>6, <1>7, <1>8, RpcCallLine, DaemonRunsLine, ReapLine, ReadLine,
     HandleStdoutLine, RetryLine DEF SessionSteps

(* Lines arrive whole however many goroutines write and whenever daemons   *)
(* die, unless output of one is read into the buffer of a later one        *)
(* (writeMu, on_stdout, handle_stdout).                                    *)
THEOREM LinesArriveWhole == SessionSpec => []WholeLines
<1>1. ServedInv /\ LineInv /\ [SessionNext]_sessionVars => ServedInv' /\ LineInv'
  BY ServedStep, LineStep
<1>2. SessionInit => ServedInv /\ LineInv
  BY ServedInit, LineInit
<1>3. LineInv => WholeLines
  BY DEF LineInv
<1> QED
  BY <1>1, <1>2, <1>3, PTL DEF SessionSpec

=============================================================================
