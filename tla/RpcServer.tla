------------------------------ MODULE RpcServer ------------------------------
(***************************************************************************)
(* The daemon's end of a session: `nota daemon` (cli_daemon.go) serves     *)
(* requests from its stdin (pkg/rpc/server.go), every one in a goroutine   *)
(* of its own, while another goroutine writes change notifications         *)
(* (handlers.go) to the same stdout (pkg/rpc/transport.go).                *)
(*                                                                         *)
(* Messages are one line each.  A line goes through the pipe in two parts, *)
(* and the reader may see the first without the second.                    *)
(***************************************************************************)
EXTENDS Integers, Sequences, FiniteSets, FiniteSetsExt

CONSTANTS
    MaxDaemons,  \* daemons that are ever started; they are numbered
    MaxNotes,    \* bound on the notifications of all daemons
    Calls        \* what requests are about

ASSUME RpcAssumption == MaxDaemons \in Nat /\ MaxNotes \in Nat

VARIABLE
    daemon  \* daemon[d]: one process, its pipes and its goroutines

Daemons == 1 .. MaxDaemons

Request(id, call) == [id |-> id, call |-> call]

Response(d, req) == [from |-> d, kind |-> "response", id |-> req.id, call |-> req.call]

Note(d) == [from |-> d, kind |-> "note", id |-> daemon[d].notes]

Unborn ==
    [up |-> "none",     \* "none", "serving", "draining" or "dead"
     input |-> <<>>,    \* requests in the stdin pipe
     eof |-> FALSE,     \* the client has closed its end of stdin
     deaf |-> FALSE,    \* the client has closed its end of stdout
     running |-> {},    \* requests whose goroutine has not returned
     writing |-> {},    \* messages half written
     output |-> <<>>,   \* parts of lines in the stdout pipe
     notes |-> 0,       \* notifications so far
     cut |-> FALSE]     \* killed, or told to stop by a signal

Alive(d) == daemon[d].up \in {"serving", "draining"}

RpcInit == daemon = [d \in Daemons |-> Unborn]

-----------------------------------------------------------------------------
(* WriteMessage: one writer at a time has writeMu.  Writing to a pipe that *)
(* nobody reads any more kills the process (SIGPIPE).                      *)

(* Mutant of MayWrite: writeMu is not taken.                               *)
MayWriteUnlocked(d) == Alive(d)

MayWrite(d) == Alive(d) /\ daemon[d].writing = {}

Killed(d) == [daemon EXCEPT ![d].up = "dead", ![d].cut = TRUE]

BeginWrite(d, msg) ==
    /\ MayWrite(d)
    /\ msg \notin daemon[d].writing
    /\ daemon' = IF daemon[d].deaf THEN Killed(d)
                 ELSE [daemon EXCEPT ![d].writing = @ \cup {msg},
                                     ![d].output = Append(@, <<msg, 1>>),
                                     ![d].notes = IF msg.kind = "note" THEN @ + 1 ELSE @]

EndWrite(d) ==
    /\ Alive(d)
    /\ \E msg \in daemon[d].writing :
            daemon' = IF daemon[d].deaf THEN Killed(d)
                      ELSE [daemon EXCEPT
                                ![d].writing = @ \ {msg},
                                ![d].output = Append(@, <<msg, 2>>),
                                ![d].running = {req \in @ : Response(d, req) # msg}]

-----------------------------------------------------------------------------
(* Serve and dispatch.                                                     *)

(* Serve reads a request and starts its goroutine.                         *)
Take(d) ==
    /\ daemon[d].up = "serving"
    /\ daemon[d].input # <<>>
    /\ daemon' = [daemon EXCEPT ![d].input = Tail(@),
                                ![d].running = @ \cup {Head(daemon[d].input)}]

(* A handler has returned, with a result or an error.                      *)
Respond(d) == \E req \in daemon[d].running : BeginWrite(d, Response(d, req))

(* SubscribeAndNotify: an event of the service.                            *)
Notify(d) ==
    /\ MapThenSumSet(LAMBDA e : daemon[e].notes, Daemons) < MaxNotes
    /\ BeginWrite(d, Note(d))

(* Serve reads the end of stdin.                                           *)
EndOfInput(d) ==
    /\ daemon[d].up = "serving"
    /\ daemon[d].eof
    /\ daemon[d].input = <<>>
    /\ daemon' = [daemon EXCEPT ![d].up = "draining"]

(* SIGTERM or SIGINT: Serve leaves its loop whatever stdin holds.          *)
Signal(d) ==
    /\ daemon[d].up = "serving"
    /\ daemon' = [daemon EXCEPT ![d].up = "draining", ![d].cut = TRUE]

(* Mutant of Exit: Serve does not wait for its goroutines.                 *)
ExitAtOnce(d) ==
    /\ daemon[d].up = "draining"
    /\ daemon' = [daemon EXCEPT ![d].up = "dead"]

(* Serve has waited for the requests' goroutines (wg.Wait), not for the    *)
(* one that writes notifications.                                          *)
Exit(d) ==
    /\ daemon[d].up = "draining"
    /\ daemon[d].running = {}
    /\ daemon' = [daemon EXCEPT ![d].up = "dead"]

Crash(d) == Alive(d) /\ daemon' = Killed(d)

(* What a daemon does by itself when nothing goes wrong.                   *)
Serves(d) ==
    \/ Take(d)
    \/ Respond(d)
    \/ EndWrite(d)
    \/ EndOfInput(d)
    \/ Exit(d)

-----------------------------------------------------------------------------
(* A daemon that stops because its stdin ended has answered every request  *)
(* that was sent to it (Serve's loop, dispatch, wg.Wait).                  *)
Drained ==
    \A d \in Daemons : daemon[d].up = "dead" /\ ~daemon[d].cut =>
        daemon[d].running = {} /\ daemon[d].input = <<>>
=============================================================================
