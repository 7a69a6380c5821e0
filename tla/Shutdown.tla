------------------------------ MODULE Shutdown ------------------------------
(***************************************************************************)
(* How the API process goes down: signals and fatal errors call one        *)
(* shutdown handler (lib/gracefulShutdown.ts), which stops the server,     *)
(* runs the registered hooks (lib/shutdown.ts) against a deadline, and     *)
(* then lets the event loop run empty.  Requests in flight, hooks that     *)
(* throw or hang, and further signals go on around it.                     *)
(*                                                                         *)
(* A hook under way is a pending handle of the event loop (the one that    *)
(* is registered waits for the database), so the loop does not run empty   *)
(* under it.                                                               *)
(***************************************************************************)
EXTENDS Naturals, Sequences, SequencesExt

CONSTANTS Conns,        \* connections clients may hold
          Reasons,      \* what may call the handler: signals and fatal errors
          CodeOf,       \* the exit code each of them asks for
          Registered    \* the hooks, in the order of onShutdown

ASSUME ReasonsAssumption == CodeOf \in [Reasons -> {0, 1}]
ASSUME HooksAssumption == Registered \in Seq(ToSet(Registered))

VARIABLES conn,         \* each connection: none, fresh (accepted, nothing sent yet), serving
                        \* a request (busy), or kept alive after one (idle)
          listening,    \* the server accepts connections
          shuttingDown,
          exitCode,     \* the exitCode argument of the call that is shutting down
          todo,         \* hooks the loop of runShutdownHooks has yet to start
          running,      \* it awaits a hook, the last of ran
          ran,          \* history: the hooks started, in order
          deadline,     \* the forceExit timer
          process       \* how the process ended, and with which code

net == <<conn, listening>>
hooks == <<todo, running, ran>>
vars == <<net, shuttingDown, exitCode, hooks, deadline, process>>

Alive == [end |-> "alive", code |-> 0]
Forced == [end |-> "forced", code |-> 1]

Hooks == ToSet(Registered)

TypeOK ==
    /\ conn \in [Conns -> {"none", "fresh", "busy", "idle"}]
    /\ listening \in BOOLEAN /\ shuttingDown \in BOOLEAN
    /\ exitCode \in {0, 1}
    /\ todo \in Seq(Hooks) /\ ran \in Seq(Hooks)
    /\ running \in BOOLEAN
    /\ deadline \in {"off", "armed", "cleared", "fired"}
    /\ process \in [end : {"alive", "empty", "forced"}, code : {0, 1}]

Init ==
    /\ conn = [c \in Conns |-> "none"]
    /\ listening = TRUE
    /\ shuttingDown = FALSE /\ exitCode = 0
    /\ todo = <<>> /\ running = FALSE /\ ran = <<>>
    /\ deadline = "off"
    /\ process = Alive

-----------------------------------------------------------------------------
\* The HTTP server, as Node runs it.

\* A client connects.
Accept(c) ==
    /\ process = Alive /\ listening
    /\ conn[c] = "none"
    /\ conn' = [conn EXCEPT ![c] = "fresh"]
    /\ UNCHANGED <<listening, shuttingDown, exitCode, hooks, deadline, process>>

\* A request arrives on an open connection, also when the server is closed.
Serve(c) ==
    /\ process = Alive
    /\ conn[c] \in {"fresh", "idle"}
    /\ conn' = [conn EXCEPT ![c] = "busy"]
    /\ UNCHANGED <<listening, shuttingDown, exitCode, hooks, deadline, process>>

\* A response is sent.  Whether the connection is kept is the client's choice and
\* Node's; a request may also hang, so this is not fair.
Finish(c) ==
    /\ process = Alive
    /\ conn[c] = "busy"
    /\ \E next \in {"idle", "none"} : conn' = [conn EXCEPT ![c] = next]
    /\ UNCHANGED <<listening, shuttingDown, exitCode, hooks, deadline, process>>

\* A client leaves, or keepAliveTimeout closes an idle connection.
Disconnect(c) ==
    /\ process = Alive
    /\ conn[c] \in {"fresh", "idle"}
    /\ conn' = [conn EXCEPT ![c] = "none"]
    /\ UNCHANGED <<listening, shuttingDown, exitCode, hooks, deadline, process>>

\* Mutant of CloseServer: kept-alive connections are forgotten.
StopListening == listening' = FALSE /\ conn' = conn

\* server.close() and closeIdleConnections(): requests in flight are left alone.
\* A connection that has sent nothing yet is idle for some versions of Node and
\* not for others.
CloseServer ==
    \E silent \in SUBSET {c \in Conns : conn[c] = "fresh"} :
        /\ listening' = FALSE
        /\ conn' = [c \in Conns |->
                       IF conn[c] = "idle" \/ c \in silent THEN "none" ELSE conn[c]]

-----------------------------------------------------------------------------
\* The handler.

\* Mutant of HookOrder: the hooks run as they were registered.
AsRegistered == Registered

\* runShutdownHooks goes through a copy, the last registered first.
HookOrder == Reverse(Registered)

\* The first call, up to the await of the hooks.
Shut(reason) ==
    /\ process = Alive
    /\ ~shuttingDown
    /\ shuttingDown' = TRUE
    /\ exitCode' = CodeOf[reason]
    /\ deadline' = "armed"
    /\ CloseServer
    /\ todo' = HookOrder
    /\ UNCHANGED <<running, ran, process>>

\* Any later call only logs.
ShutAgain(reason) ==
    /\ process = Alive
    /\ shuttingDown
    /\ UNCHANGED vars

StartHook ==
    /\ process = Alive
    /\ deadline = "armed" /\ ~running /\ todo # <<>>
    /\ running' = TRUE
    /\ ran' = Append(ran, Head(todo))
    /\ todo' = Tail(todo)
    /\ UNCHANGED <<net, shuttingDown, exitCode, deadline, process>>

\* The hook resolves, or it throws and the loop goes on all the same.
EndHook ==
    /\ process = Alive
    /\ running
    /\ running' = FALSE
    /\ UNCHANGED <<net, shuttingDown, exitCode, todo, ran, deadline, process>>

\* After the hooks: the timer is cleared and process.exitCode set.
Complete ==
    /\ process = Alive
    /\ deadline = "armed" /\ ~running /\ todo = <<>>
    /\ deadline' = "cleared"
    /\ UNCHANGED <<net, shuttingDown, exitCode, hooks, process>>

\* Mutant of Overdue: the timer is only started once no hook is awaited.
OverdueBetweenHooks == deadline = "armed" /\ ~running

\* graceMs may be over at any moment while the timer is armed.
Overdue == deadline = "armed"

\* The timer fires: every connection is closed and the process exits.
ForceExit ==
    /\ process = Alive
    /\ Overdue
    /\ deadline' = "fired"
    /\ conn' = [c \in Conns |-> "none"]
    /\ process' = Forced
    /\ UNCHANGED <<listening, shuttingDown, exitCode, hooks>>

\* Mutant of NothingPending: process.exit() as soon as the hooks are done.
TeardownDone == deadline = "cleared"

\* No connection, no server, no hook and no timer keeps the event loop alive.
NothingPending == deadline = "cleared" /\ \A c \in Conns : conn[c] = "none"

\* The event loop runs empty and the process ends with process.exitCode.
RunEmpty ==
    /\ process = Alive
    /\ NothingPending
    /\ process' = [end |-> "empty", code |-> exitCode]
    /\ UNCHANGED <<net, shuttingDown, exitCode, hooks, deadline>>

Next ==
    \/ \E c \in Conns : Accept(c) \/ Serve(c) \/ Finish(c) \/ Disconnect(c)
    \/ \E reason \in Reasons : Shut(reason) \/ ShutAgain(reason)
    \/ StartHook \/ EndHook \/ Complete \/ ForceExit \/ RunEmpty

\* Node runs the handler's own steps and its timer, and ends when its loop is
\* empty; keepAliveTimeout closes what stays idle.  A hook may hang, and so may a
\* request: EndHook and Finish are not fair.
Fairness ==
    /\ WF_vars(StartHook) /\ WF_vars(Complete) /\ WF_vars(ForceExit) /\ WF_vars(RunEmpty)
    /\ \A c \in Conns : WF_vars(conn[c] = "idle" /\ Disconnect(c))

Spec == Init /\ [][Next]_vars
FairSpec == Spec /\ Fairness

-----------------------------------------------------------------------------
\* Hooks run in reverse order of registration, like a stack of defers
\* (shutdown.ts:21), each at most once whatever is signalled meanwhile, and
\* every one of them before a teardown counts as complete.
HooksUnwind ==
    /\ IsPrefix(ran, Reverse(Registered))
    /\ deadline = "cleared" => ran = Reverse(Registered)

\* A process that ends by itself has cut nobody off and answers with the code
\* of the reason that was first; one that completed its teardown is never
\* killed by the deadline (gracefulShutdown.ts:49, 55, 64).
EndsCleanly ==
    [][/\ process'.end = "empty" => \A c \in Conns : conn[c] # "busy"
       /\ process'.end # "alive" /\ deadline = "cleared" => process'.code = exitCode
       /\ shuttingDown => exitCode' = exitCode]_vars

\* Once it is shutting down the process takes on no new client, and none that had
\* nothing under way is kept: every connection it still has was serving a request
\* when it was told to stop, or had just been accepted (gracefulShutdown.ts:50, 51).
NoNewClients ==
    [][shuttingDown' => \A c \in Conns : conn'[c] # "none" =>
          conn[c] # "none" /\ (~shuttingDown => conn[c] # "idle")]_vars

\* Asked to stop, the process stops, also when a hook hangs, unless some client is
\* connected for ever after: its request hangs, it sends nothing, or it sends
\* another whenever one is answered (gracefulShutdown.ts:40, 53, 55).
StopsUnlessClientsStay ==
    shuttingDown ~> (process # Alive \/ [](\E c \in Conns : conn[c] # "none"))

-----------------------------------------------------------------------------
\* What the comments promise and the code does not keep.

\* "If a request hangs, the container must still exit."
StopsWhenAsked == shuttingDown ~> process # Alive
=============================================================================
