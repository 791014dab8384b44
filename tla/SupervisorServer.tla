-------------------------- MODULE SupervisorServer --------------------------
(***************************************************************************)
(* The Unix socket server in front of the command supervisor's Manager:    *)
(* apps/command-supervisor/internal/runtime/server.go.  Serve takes one of *)
(* MaxClients slots, accepts a connection and leaves it to a goroutine     *)
(* that reads one request, dispatches it, and answers.  Beside each        *)
(* operation a watcher reads from the connection: its return, for whatever *)
(* reason, cancels the request's context.  Only Wait looks at the context. *)
(*                                                                         *)
(* A member of Handlers is a client together with the goroutine that       *)
(* serves it.  The process ends only when Serve has returned.              *)
(***************************************************************************)
EXTENDS CommandControl

CONSTANT MaxClients

\* There is a requestId and a specification for every command: see ServerInit.
ASSUME ServerAssumption ==
    /\ MaxClients \in Nat \ {0}
    /\ Injection(IDs, Reqs) # {} /\ Specs # {}

VARIABLES
    ctxDone,      \* SIGTERM has cancelled the server's context
    listening,    \* the listener is open
    serve,        \* Serve: "slot", "accept", "draining" (handlers.Wait) or "returned"
    clients,      \* how full the channel of slots is
    conn,         \* client -> "none", "reading" its request, or "serving" it
    gone,         \* client -> it has closed its end, or broken the protocol
    watch         \* client -> its watcher: "none", "reading" or "done"

server == <<ctxDone, listening, serve, clients, conn, gone, watch>>
manager == controlVars
allVars == <<server, manager>>

\* Connections that have a goroutine, counted by the WaitGroup.
Served == {h \in Handlers : conn[h] # "none"}

\* Every command ID has been used: its Start has returned and its child runs.
ServerInit ==
    /\ up = "up" /\ unhealthy = FALSE /\ mu = None /\ commands = IDs /\ todo = {}
    /\ reqOf = CHOOSE f \in Injection(IDs, Reqs) : TRUE
    /\ requests = [r \in Reqs |-> IF r \in Range(reqOf) THEN AntiFunction(reqOf)[r] ELSE None]
    /\ specOf = [c \in IDs |-> CHOOSE s \in Specs : TRUE]
    /\ record = [c \in IDs |-> [Fresh EXCEPT !.state = "running"]] /\ meta = record
    /\ spool = [c \in IDs |-> [last |-> 0, torn |-> "no"]]
    /\ proc = [c \in IDs |-> "alive"] /\ cpc = [c \in IDs |-> "collect"]
    /\ open = [c \in IDs |-> TRUE] /\ pipe = [c \in IDs |-> FALSE]
    /\ produced = [c \in IDs |-> 0]
    /\ spoolFailed = [c \in IDs |-> FALSE]
    /\ stdin = [c \in IDs |-> TRUE] /\ inPipe = [c \in IDs |-> TRUE]
    /\ spawned = {<<reqOf[c], c>> : c \in IDs}
    /\ reported = [c \in IDs |-> None] /\ cursor = [c \in IDs |-> 0]
    /\ pc = [h \in Handlers |-> "idle"] /\ call = [h \in Handlers |-> NoCall]
    /\ waiters = [h \in Handlers |-> None]
    /\ ControlInit
    /\ ctxDone = FALSE /\ listening = TRUE /\ serve = "slot" /\ clients = 0
    /\ conn = [h \in Handlers |-> "none"]
    /\ gone = [h \in Handlers |-> FALSE]
    /\ watch = [h \in Handlers |-> "none"]

----------------------------------------------------------------------------
(* Serve.                                                                  *)

Sigterm ==
    /\ ~ctxDone
    /\ ctxDone' = TRUE
    /\ UNCHANGED <<manager, listening, serve, clients, conn, gone, watch>>

\* The goroutine that closes the listener once the context is done.
CloseListener ==
    /\ ctxDone /\ listening
    /\ listening' = FALSE
    /\ UNCHANGED <<manager, ctxDone, serve, clients, conn, gone, watch>>

TakeSlot ==
    /\ serve = "slot"
    /\ clients < MaxClients
    /\ clients' = clients + 1
    /\ serve' = "accept"
    /\ UNCHANGED <<manager, ctxDone, listening, conn, gone, watch>>

\* The select sees the context instead of a slot.
StopServing ==
    /\ serve = "slot"
    /\ ctxDone
    /\ serve' = "draining"
    /\ UNCHANGED <<manager, ctxDone, listening, clients, conn, gone, watch>>

\* A client has dialled.
Accept(h) ==
    /\ serve = "accept" /\ listening
    /\ conn[h] = "none"
    /\ conn' = [conn EXCEPT ![h] = "reading"]
    /\ serve' = "slot"
    /\ UNCHANGED <<manager, ctxDone, listening, clients, gone, watch>>

\* The listener is closed, or Accept fails for good.
AcceptFails ==
    /\ serve = "accept"
    /\ clients' = clients - 1
    /\ serve' = "draining"
    /\ UNCHANGED <<manager, ctxDone, listening, conn, gone, watch>>

\* handlers.Wait returns; the listener is closed, the socket removed, and main
\* ends the process.
ServeReturns ==
    /\ serve = "draining"
    /\ Served = {}
    /\ serve' = "returned"
    /\ listening' = FALSE
    /\ Exit
    /\ UNCHANGED <<ctxDone, clients, conn, gone, watch>>

----------------------------------------------------------------------------
(* handleConnection.                                                       *)

\* The connection is closed and the slot given back.
Hangup(h) ==
    /\ conn' = [conn EXCEPT ![h] = "none"]
    /\ gone' = [gone EXCEPT ![h] = FALSE]
    /\ watch' = [watch EXCEPT ![h] = "none"]
    /\ clients' = clients - 1
    /\ UNCHANGED <<manager, ctxDone, listening, serve>>

\* Fault: only the end of handleConnection gives the slot back.
ReadFailsKeepsSlot(h) ==
    /\ conn[h] = "reading"
    /\ conn' = [conn EXCEPT ![h] = "none"]
    /\ UNCHANGED <<manager, ctxDone, listening, serve, clients, gone, watch>>

\* No request: the peer is not root, the read deadline passes, the client goes,
\* or the envelope is refused (and the refusal written) for its size or as JSON.
ReadFails(h) ==
    /\ conn[h] = "reading"
    /\ Hangup(h)

\* The request is read, the watcher started and the operation begun.  Some
\* answer without waiting and change nothing: health, list, status, connect,
\* whatever is unknown, and those the manager refuses.
Dispatch(h) ==
    /\ conn[h] = "reading"
    /\ Begin(h) \/ UNCHANGED manager
    /\ conn' = [conn EXCEPT ![h] = "serving"]
    /\ watch' = [watch EXCEPT ![h] = "reading"]
    /\ UNCHANGED <<ctxDone, listening, serve, clients, gone>>

\* Dispatch has returned; CloseRead and cancel follow.
Dispatched(h) == conn[h] = "serving" /\ pc[h] = "idle"

\* Fault: the watcher does not cancel the request.
CancelledByServer(h) == ctxDone

\* The context of h's request, derived from the server's.
Cancelled(h) == ctxDone \/ watch[h] = "done"

\* The operation of h goes on.
Serving(h) ==
    /\ conn[h] = "serving"
    /\ HandlerStep(h)
    /\ UNCHANGED server

\* Wait's select sees the context.
WaitCancelled(h) ==
    /\ conn[h] = "serving" /\ Cancelled(h)
    /\ WaitGivesUp(h)
    /\ UNCHANGED <<server, control>>

\* Wait's timeout passes, or the child reads its stdin.
ServingReleased(h) ==
    /\ conn[h] = "serving"
    /\ HandlerReleased(h)
    /\ UNCHANGED server

\* The client gives up (RoundTrip's deadlines), dies, or sends more than its one
\* request: to the watcher that reads it is all the same.
Leave(h) ==
    /\ watch[h] = "reading"
    /\ ~gone[h]
    /\ gone' = [gone EXCEPT ![h] = TRUE]
    /\ UNCHANGED <<manager, ctxDone, listening, serve, clients, conn, watch>>

\* Fault: nothing ends the watcher's read when the operation has returned.
ReadEndedByClient(h) == gone[h]

\* What ends the watcher's read: the client, or CloseRead.
ReadEnded(h) == gone[h] \/ Dispatched(h)

WatcherEnds(h) ==
    /\ watch[h] = "reading"
    /\ ReadEnded(h)
    /\ watch' = [watch EXCEPT ![h] = "done"]
    /\ UNCHANGED <<manager, ctxDone, listening, serve, clients, conn, gone>>

\* <-disconnected; then the response is written, or its deadline passes.
writeResponse(h) ==
    /\ Dispatched(h)
    /\ watch[h] = "done"
    /\ Hangup(h)

----------------------------------------------------------------------------
ConnectionStep(h) == ReadFails(h) \/ Dispatch(h) \/ WatcherEnds(h) \/ writeResponse(h)

OperationStep(h) == Serving(h) \/ WaitCancelled(h)

CollectStepOf(c) == CollectStep(c) /\ UNCHANGED <<server, control>>

ChildStep(c) ==
    (Output(c) \/ CloseOutput(c) \/ Die(c)) /\ UNCHANGED <<server, control>>

ServerNext ==
    \/ Sigterm \/ CloseListener \/ TakeSlot \/ StopServing \/ AcceptFails \/ ServeReturns
    \/ \E h \in Handlers :
        \/ Accept(h) \/ Leave(h)
        \/ ConnectionStep(h) \/ OperationStep(h) \/ ServingReleased(h)
    \/ \E c \in IDs : CollectStepOf(c) \/ ChildStep(c)

ServerSpec == ServerInit /\ [][ServerNext]_allVars

----------------------------------------------------------------------------
(* Fairness: every goroutine goes on when it can, and a mutex is not       *)
(* withheld from a waiter for ever.  The read and write deadlines pass.    *)
(* Nothing is assumed of clients and children, nor of Wait's timeout.      *)

ServerFairness ==
    /\ WF_server(CloseListener)
    /\ WF_server(TakeSlot \/ StopServing \/ (~listening /\ AcceptFails) \/ ServeReturns)
    /\ \A h \in Handlers : WF_server(ConnectionStep(h)) /\ SF_manager(OperationStep(h))
    /\ \A c \in IDs : WF_vars(CollectStepOf(c))

ServerLiveSpec == ServerSpec /\ ServerFairness

----------------------------------------------------------------------------
(* Properties.                                                             *)

\* The slots in use are those of the connections being served and the one Serve
\* holds while it accepts: every way out of handleConnection gives its slot back
\* once, and no connection is served without one.
SlotsHeld ==
    clients = Cardinality(Served) + (IF serve = "accept" THEN 1 ELSE 0)

\* No Stdin stays blocked on a child that does not read: the one thing neither a
\* disconnect nor shutdown ends.
WritesEnd == \A h \in Handlers : []<>(pc[h] # "write")

\* "Either way no operation remains detached": the operation of a client that has
\* gone ends and its slot is given back, without the help of Wait's timeout.
NoneDetached ==
    WritesEnd => \A h \in Handlers : gone[h] ~> ~gone[h]

\* After SIGTERM Serve returns, whatever its clients were doing.
ShutdownEnds == WritesEnd => (ctxDone ~> serve = "returned")

\* Once somebody has taken a command's stdin to close it, every Stdin of that
\* command ends, the blocked write and those queued behind it.
StdinEnds ==
    \A h \in Handlers :
        LET pending == pc[h] \in {"stdin", "write"} IN
        (pending /\ record[call[h].id].state # "starting" /\ ~stdin[call[h].id]) ~> ~pending
=============================================================================
