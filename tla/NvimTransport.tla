---------------------------- MODULE NvimTransport ----------------------------
(***************************************************************************)
(* The editor's end of a session: nvim/lua/nota/transport.lua keeps one    *)
(* daemon for a repository, and client.lua makes every call a request and  *)
(* waits for its callback.                                                 *)
(*                                                                         *)
(* What libuv reports (bytes on stdout, the exit of the process) becomes a *)
(* callback that vim.schedule runs later, in order; such a callback knows  *)
(* the repository and not the process it was scheduled for.                *)
(***************************************************************************)
EXTENDS RpcServer

CONSTANTS
    MaxTroubles  \* bound on reset(), shutdown() and spawns that fail, together

ASSUME NvimAssumption ==
    /\ MaxDaemons > 0
    /\ MaxTroubles \in Nat

MaxAttempts == 3

VARIABLES
    conn,       \* the connection
    scheduled,  \* callbacks of libuv, in the order they will run
    retries,    \* deferred spawns
    watched,    \* the daemons whose exit libuv is still to report
    call,       \* call[c]: "new", "waiting", "returned" or "hung"
    answer,     \* answer[c]: the call whose response c got, or "error"
    used,       \* how many daemons were started, how many troubles there were
    mixed,      \* history: output of a daemon reached the buffer of a later one
    garbled     \* history: a line was not what one writer wrote

sessionVars == <<daemon, conn, scheduled, retries, watched, call, answer, used, mixed, garbled>>

NoDaemon == 0

(* The fields of new_connection; a pending request is <<id, call>>.  A     *)
(* pipe is the daemon it leads to.                                         *)
NewConnection ==
    [state |-> "idle", attempts |-> 0, handle |-> NoDaemon,
     stdin |-> NoDaemon, stdout |-> NoDaemon,
     buffer |-> <<>>, next_id |-> 0, pending |-> {}]

SessionInit ==
    /\ RpcInit
    /\ conn = NewConnection
    /\ scheduled = <<>>
    /\ retries = 0
    /\ watched = {}
    /\ call = [c \in Calls |-> "new"]
    /\ answer = [c \in Calls |-> "none"]
    /\ used = [spawns |-> 0, troubles |-> 0]
    /\ mixed = FALSE
    /\ garbled = FALSE

-----------------------------------------------------------------------------
(* Pieces of the handlers.                                                 *)

(* Closing a pipe: the process at its other end sees it.                   *)
CloseStdin(ds, d) == IF d = NoDaemon THEN ds ELSE [ds EXCEPT ![d].eof = TRUE]

CloseStdout(ds, d) ==
    IF d = NoDaemon THEN ds ELSE [ds EXCEPT ![d].deaf = TRUE, ![d].output = <<>>]

(* Every pending request gets its callback, with an error.                 *)
FailPending ==
    LET waiting == {req[2] : req \in conn.pending}
    IN  /\ call' = [c \in Calls |-> IF c \in waiting THEN "returned" ELSE call[c]]
        /\ answer' = [c \in Calls |-> IF c \in waiting THEN "error" ELSE answer[c]]

(* Mutant of Spawned: a connection counts its requests from 0.             *)
SpawnedCountingAnew(d) ==
    [conn EXCEPT !.state = "connected", !.attempts = 0, !.buffer = <<>>, !.next_id = 0,
                 !.handle = d, !.stdin = d, !.stdout = d]

Spawned(d) ==
    [conn EXCEPT !.state = "connected", !.attempts = 0, !.buffer = <<>>,
                 !.handle = d, !.stdin = d, !.stdout = d]

(* One more attempt has failed: try again later, or give up.               *)
GivesUp == conn.attempts + 1 >= MaxAttempts

(* Mutant of Attempted: nothing is scheduled.                              *)
AttemptedOnce ==
    [conn |-> [conn EXCEPT !.attempts = @ + 1, !.state = "idle"], retries |-> retries]

Attempted ==
    [conn |-> [conn EXCEPT !.attempts = @ + 1, !.state = IF GivesUp THEN "error" ELSE "idle"],
     retries |-> IF GivesUp THEN retries ELSE retries + 1]

(* What spawn() may leave: the connection, the deferred spawns, and the    *)
(* daemon that it started, if any.  Without the binary it gives up.        *)
Failures ==
    {[conn |-> Attempted.conn, retries |-> Attempted.retries, new |-> {}],
     [conn |-> [conn EXCEPT !.state = "error"], retries |-> retries, new |-> {}]}

Spawns ==
    LET d == used.spawns + 1
    IN  IF conn.state # "idle" THEN {[conn |-> conn, retries |-> retries, new |-> {}]}
        ELSE {[conn |-> Spawned(n), retries |-> retries, new |-> {n}] : n \in {d} \cap Daemons}
             \cup (IF used.troubles < MaxTroubles \/ d \notin Daemons THEN Failures ELSE {})

Spawn(result) ==
    /\ retries' = result.retries
    /\ watched' = watched \cup result.new
    /\ used' = [used EXCEPT !.spawns = @ + Cardinality(result.new),
                            !.troubles = IF conn.state = "idle" /\ result.new = {}
                                         THEN @ + 1 ELSE @]

Started(ds, new) == [d \in Daemons |-> IF d \in new THEN [ds[d] EXCEPT !.up = "serving"] ELSE ds[d]]

-----------------------------------------------------------------------------
(* client.lua and request().                                               *)

(* The callback of a request that fails at once resumes the coroutine that *)
(* is running; then it yields, and nobody resumes it.                      *)
Hang(c, k) ==
    /\ call' = [call EXCEPT ![c] = "hung"]
    /\ conn' = k
    /\ UNCHANGED answer

(* Sending to a process that is gone is only reported.                     *)
Send(c, k, ds) ==
    LET req == Request(k.next_id, c)
    IN  /\ call' = [call EXCEPT ![c] = "waiting"]
        /\ conn' = [k EXCEPT !.next_id = @ + 1, !.pending = @ \cup {<<k.next_id, c>>}]
        /\ daemon' = IF ds[k.stdin].up = "dead" THEN ds
                     ELSE [ds EXCEPT ![k.stdin].input = Append(@, req)]
        /\ UNCHANGED answer

RpcCall(c) ==
    /\ call[c] = "new"
    /\ \E result \in Spawns :
        LET k == result.conn
            ds == Started(daemon, result.new)
        IN  /\ Spawn(result)
            /\ \/ /\ k.state # "connected"
                  /\ Hang(c, k)
                  /\ UNCHANGED daemon
               \/ /\ k.state = "connected" /\ k.stdin = NoDaemon
                  /\ Hang(c, [k EXCEPT !.next_id = @ + 1])
                  /\ UNCHANGED daemon
               \/ /\ k.state = "connected" /\ k.stdin # NoDaemon
                  /\ Send(c, k, ds)
    /\ UNCHANGED <<scheduled, mixed, garbled>>

Timeout(c) ==
    /\ \E req \in conn.pending :
            /\ req[2] = c
            /\ conn' = [conn EXCEPT !.pending = @ \ {req}]
    /\ call' = [call EXCEPT ![c] = "returned"]
    /\ answer' = [answer EXCEPT ![c] = "error"]
    /\ UNCHANGED <<daemon, scheduled, retries, watched, used, mixed, garbled>>

-----------------------------------------------------------------------------
(* libuv, and the callbacks it schedules.                                  *)

(* A part of a line arrives on stdout.                                     *)
Read ==
    /\ conn.stdout # NoDaemon
    /\ daemon[conn.stdout].output # <<>>
    /\ scheduled' = Append(scheduled, [data |-> Head(daemon[conn.stdout].output)])
    /\ daemon' = [daemon EXCEPT ![conn.stdout].output = Tail(@)]
    /\ UNCHANGED <<conn, retries, watched, call, answer, used, mixed, garbled>>

(* The exit of a process is reported.                                      *)
Reap(d) ==
    /\ d \in watched
    /\ daemon[d].up = "dead"
    /\ watched' = watched \ {d}
    /\ scheduled' = Append(scheduled, [exit |-> d])
    /\ UNCHANGED <<daemon, conn, retries, call, answer, used, mixed, garbled>>

(* The callback of handle_stdout, for a part that ends a line or does not. *)
Dispatch(line) ==
    LET msg == line[1][1]
        whole == line = <<<<msg, 1>>, <<msg, 2>>>>
        asked == {req \in conn.pending : msg.kind = "response" /\ req[1] = msg.id}
        callers == IF whole THEN {req[2] : req \in asked} ELSE {}
    IN  /\ conn' = [conn EXCEPT !.buffer = <<>>,
                                !.pending = {req \in @ : req[2] \notin callers}]
        /\ call' = [c \in Calls |-> IF c \in callers THEN "returned" ELSE call[c]]
        /\ answer' = [c \in Calls |-> IF c \in callers THEN msg.call ELSE answer[c]]
        /\ garbled' = (garbled \/ ~whole)

HandleStdout ==
    /\ scheduled # <<>>
    /\ "data" \in DOMAIN Head(scheduled)
    /\ LET part == Head(scheduled).data
           text == Append(conn.buffer, part)
       IN  /\ mixed' = (mixed \/ part[1].from # conn.handle)
           /\ \/ /\ part[2] = 1
                 /\ conn' = [conn EXCEPT !.buffer = text]
                 /\ UNCHANGED <<call, answer, garbled>>
              \/ part[2] = 2 /\ Dispatch(text)
    /\ scheduled' = Tail(scheduled)
    /\ UNCHANGED <<daemon, retries, watched, used>>

(* Mutant of HandleExit: the pending requests are forgotten.               *)
HandleExitSilently ==
    /\ scheduled # <<>>
    /\ "exit" \in DOMAIN Head(scheduled)
    /\ daemon' = CloseStdout(CloseStdin(daemon, conn.stdin), conn.stdout)
    /\ LET closed == [conn EXCEPT !.handle = NoDaemon, !.stdin = NoDaemon,
                                  !.stdout = NoDaemon, !.pending = {}]
           again == IF conn.state = "error" THEN [conn |-> conn, retries |-> retries]
                    ELSE Attempted
       IN  /\ conn' = [closed EXCEPT !.state = again.conn.state,
                                     !.attempts = again.conn.attempts]
           /\ retries' = again.retries
    /\ scheduled' = Tail(scheduled)
    /\ UNCHANGED <<watched, call, answer, used, mixed, garbled>>

(* The callback of handle_exit: it closes what the connection has now.     *)
HandleExit ==
    /\ scheduled # <<>>
    /\ "exit" \in DOMAIN Head(scheduled)
    /\ daemon' = CloseStdout(CloseStdin(daemon, conn.stdin), conn.stdout)
    /\ FailPending
    /\ LET closed == [conn EXCEPT !.handle = NoDaemon, !.stdin = NoDaemon,
                                  !.stdout = NoDaemon, !.pending = {}]
           again == IF conn.state = "error" THEN [conn |-> conn, retries |-> retries]
                    ELSE Attempted
       IN  /\ conn' = [closed EXCEPT !.state = again.conn.state,
                                     !.attempts = again.conn.attempts]
           /\ retries' = again.retries
    /\ scheduled' = Tail(scheduled)
    /\ UNCHANGED <<watched, used, mixed, garbled>>

(* schedule_retry's deferred function.                                     *)
Retry ==
    /\ retries > 0
    /\ IF conn.state = "error"
       THEN /\ retries' = retries - 1
            /\ UNCHANGED <<conn, daemon, watched, used>>
       ELSE \E result \in Spawns :
                /\ conn' = result.conn
                /\ daemon' = Started(daemon, result.new)
                /\ Spawn([result EXCEPT !.retries = @ - 1])
    /\ UNCHANGED <<scheduled, call, answer, mixed, garbled>>

-----------------------------------------------------------------------------
(* Commands of the user.                                                   *)

(* Mutant of Reset: the old daemon's stdin stays open.                     *)
ResetLeaking ==
    /\ used.troubles < MaxTroubles
    /\ used.spawns < MaxDaemons
    /\ used' = [used EXCEPT !.troubles = @ + 1]
    /\ daemon' = CloseStdout(daemon, conn.stdout)
    /\ watched' = watched \ {conn.handle}
    /\ FailPending
    /\ conn' = [NewConnection EXCEPT !.next_id = conn.next_id]
    /\ UNCHANGED <<scheduled, retries, mixed, garbled>>

Reset ==
    /\ used.troubles < MaxTroubles
    /\ used.spawns < MaxDaemons
    /\ used' = [used EXCEPT !.troubles = @ + 1]
    /\ daemon' = CloseStdout(CloseStdin(daemon, conn.stdin), conn.stdout)
    /\ watched' = watched \ {conn.handle}
    /\ FailPending
    /\ conn' = [NewConnection EXCEPT !.next_id = conn.next_id]
    /\ UNCHANGED <<scheduled, retries, mixed, garbled>>

Shutdown ==
    /\ used.troubles < MaxTroubles
    /\ used.spawns < MaxDaemons
    /\ conn.handle # NoDaemon
    /\ conn.stdin # NoDaemon
    /\ used' = [used EXCEPT !.troubles = @ + 1]
    /\ daemon' = CloseStdin(daemon, conn.stdin)
    /\ conn' = [conn EXCEPT !.stdin = NoDaemon]
    /\ UNCHANGED <<scheduled, retries, watched, call, answer, mixed, garbled>>

-----------------------------------------------------------------------------
(* The session.                                                            *)

Daemon(step) == step /\ UNCHANGED <<conn, scheduled, retries, watched, call, answer, used,
                                    mixed, garbled>>

(* The last daemon does not fail: nothing could replace it.                *)
SessionNext ==
    \/ \E c \in Calls : RpcCall(c) \/ Timeout(c)
    \/ \E d \in Daemons : Daemon(Serves(d)) \/ Daemon(Notify(d)) \/ Reap(d)
    \/ \E d \in 1 .. MaxDaemons - 1 : Daemon(Signal(d)) \/ Daemon(Crash(d))
    \/ Read
    \/ HandleStdout
    \/ HandleExit
    \/ Retry
    \/ Reset
    \/ Shutdown

SessionSpec == SessionInit /\ [][SessionNext]_sessionVars

(* Processes that can run do, handlers return, the editor's event loop     *)
(* reads, runs its callbacks and its deferred spawns.  No timer of a       *)
(* request is counted on.                                                  *)
SessionFairness ==
    /\ \A d \in Daemons :
            WF_sessionVars(Daemon(Serves(d))) /\ WF_sessionVars(Reap(d))
    /\ WF_sessionVars(Read)
    /\ WF_sessionVars(HandleStdout)
    /\ WF_sessionVars(HandleExit)
    /\ WF_sessionVars(Retry)

FairSessionSpec == SessionSpec /\ SessionFairness

-----------------------------------------------------------------------------
(* Properties.                                                             *)

(* No call gets the response to another, whatever was reset, restarted or  *)
(* late (request and handle_stdout, next_id and pending).                  *)
AnswersMatch == \A c \in Calls : answer[c] \in {"none", "error", c}

(* Two daemons are never fed: at most one has an open stdin (spawn, reset, *)
(* handle_exit).                                                           *)
OneServed == Cardinality({d \in Daemons : daemon[d].up # "none" /\ ~daemon[d].eof}) <= 1

(* Lines arrive whole however many goroutines write and whenever daemons   *)
(* die, unless output of one is read into the buffer of a later one.       *)
WholeLines == garbled => mixed

(* A call that waits returns, and needs its timer only when output of two  *)
(* daemons got mixed: whatever ends a daemon also ends its calls.          *)
CallsEnd == \A c \in Calls : call[c] = "waiting" ~> call[c] = "returned" \/ mixed

(* After a daemon has died or failed to start, the connection does not stay *)
(* idle: it is connected again, given up or reset (handle_exit, spawn,     *)
(* schedule_retry).                                                        *)
FailedAndIdle == conn.state = "idle" /\ conn.attempts > 0
Reconnects == FailedAndIdle ~> ~FailedAndIdle

(* "Returns {err, result} tables" (client.lua:3).                          *)
CallsReturn == \A c \in Calls : call[c] # "hung"
=============================================================================
