----------------------------- MODULE Lifecycle -----------------------------
(***************************************************************************)
(* Start, stop and the controller (node.go, rpc_server.go): callers of     *)
(* Start and Close, the controller goroutine that runs the commands, the   *)
(* goroutines that serve IPC and HTTP, the connections they accept, and    *)
(* the background tasks.  lifecycleMu, the wait groups and the channels    *)
(* stopping, done and closeDone are what these processes wait for.         *)
(*                                                                         *)
(* A connection carries one call at a time.  An embedder calls the node's  *)
(* methods with a context that is never done.                              *)
(***************************************************************************)
EXTENDS Naturals, FiniteSets

CONSTANTS
    Starters, Closers,      \* goroutines that call Start, and Close
    IPCClients, HTTPClients, Embedders,
    Calls,                  \* what clients call, of "execute" and "subscribe"
    StartupFaults,          \* listeners that may fail to open, of "ipc", "http"
    ServerFaults,           \* a server that listens may fail
    Panics                  \* a command may panic

VARIABLES
    lifecycle,   \* n.lifecycle
    mu,          \* who holds lifecycleMu
    pc,          \* where each goroutine is
    running,     \* n.running
    stopping,    \* n.stopping is closed, and rootCtx is done
    closing,     \* n.closing
    closeDone,   \* n.closeDone is closed
    terminal,    \* n.terminalErr is set
    storage,     \* chain.close has run
    ipcStopping, \* n.ipcStopping
    refusing,    \* handlersClosing, and the RPC server is stopped
    ipcClosed,   \* the IPC server is stopped
    tasks,       \* n.backgroundTasks: the reaper and the subscriptions
    current      \* the caller of the command under way

vars == <<lifecycle, mu, pc, running, stopping, closing, closeDone, terminal, storage,
          ipcStopping, refusing, ipcClosed, tasks, current>>

Clients == IPCClients \cup HTTPClients
Callers == Clients \cup Embedders
Goroutines == Starters \cup Closers \cup Callers \cup {"controller", "ipc", "http"}

\* Every goroutine has one role and a name of its own.
ASSUME GoroutineAssumption ==
    /\ Starters \cap (Closers \cup Callers) = {} /\ Closers \cap Callers = {}
    /\ IPCClients \cap HTTPClients = {} /\ Clients \cap Embedders = {}
    /\ (Starters \cup Closers \cup Callers) \cap {"controller", "ipc", "http", "reaper", "none"} = {}

Free == mu = "none"

Init ==
    /\ lifecycle = "new" /\ mu = "none" /\ storage = "open"
    /\ pc = [g \in Goroutines |-> IF g \in Embedders THEN "open" ELSE "none"]
    /\ running = FALSE /\ stopping = FALSE /\ closing = FALSE /\ closeDone = FALSE /\ terminal = FALSE
    /\ ipcStopping = FALSE /\ refusing = FALSE /\ ipcClosed = FALSE
    /\ tasks = {} /\ current = "none"

GoTo(g, place) == pc' = [pc EXCEPT ![g] = place]

-----------------------------------------------------------------------------
(* Start.  It holds lifecycleMu until it returns.                          *)

StartBegin(s) ==
    /\ pc[s] = "none" /\ Free /\ lifecycle = "new"
    /\ lifecycle' = "starting" /\ mu' = s /\ running' = TRUE
    /\ pc' = [pc EXCEPT ![s] = "openIPC", !["controller"] = "waiting"]
    /\ tasks' = {"reaper"}
    /\ UNCHANGED <<stopping, closing, closeDone, terminal, storage, ipcStopping, refusing, ipcClosed, current>>

\* "node already started", or ErrNodeStopped.
StartRefused(s) ==
    /\ pc[s] = "none" /\ Free /\ lifecycle # "new"
    /\ GoTo(s, "returned")
    /\ UNCHANGED <<lifecycle, mu, running, stopping, closing, closeDone, terminal, storage,
                   ipcStopping, refusing, ipcClosed, tasks, current>>

OpenIPC(s) ==
    /\ pc[s] = "openIPC"
    /\ \/ pc' = [pc EXCEPT ![s] = "openHTTP", !["ipc"] = "serving"]
       \/ "ipc" \in StartupFaults /\ GoTo(s, "failed")
    /\ UNCHANGED <<lifecycle, mu, running, stopping, closing, closeDone, terminal, storage,
                   ipcStopping, refusing, ipcClosed, tasks, current>>

\* When the HTTP listener fails, stopIPC runs first.
OpenHTTP(s) ==
    /\ pc[s] = "openHTTP"
    /\ \/ pc' = [pc EXCEPT ![s] = "opened", !["http"] = "serving"]
       \/ "http" \in StartupFaults /\ GoTo(s, "stopIPC")
    /\ UNCHANGED <<lifecycle, mu, running, stopping, closing, closeDone, terminal, storage,
                   ipcStopping, refusing, ipcClosed, tasks, current>>

\* Start's check of stopping finds it open: everything that closes it needs
\* lifecycleMu first (OneShot).
StartReturn(s) ==
    /\ pc[s] = "opened"
    /\ lifecycle' = "running" /\ mu' = "none"
    /\ GoTo(s, "returned")
    /\ UNCHANGED <<running, stopping, closing, closeDone, terminal, storage,
                   ipcStopping, refusing, ipcClosed, tasks, current>>

StartFail(s) ==
    /\ pc[s] = "failed"
    /\ terminal' = TRUE /\ stopping' = TRUE
    /\ GoTo(s, "awaitDone")
    /\ UNCHANGED <<lifecycle, mu, running, closing, closeDone, storage,
                   ipcStopping, refusing, ipcClosed, tasks, current>>

\* After done and backgroundTasks.Wait.
StartFailed(s) ==
    /\ pc[s] = "awaitDone" /\ s \in Starters
    /\ pc["controller"] = "ended" /\ tasks = {}
    /\ running' = FALSE /\ storage' = "closed" /\ lifecycle' = "stopped"
    /\ closing' = TRUE /\ closeDone' = TRUE /\ mu' = "none"
    /\ GoTo(s, "returned")
    /\ UNCHANGED <<stopping, terminal, ipcStopping, refusing, ipcClosed, tasks, current>>

-----------------------------------------------------------------------------
(* stopIPC, called by Start and by Close.                                  *)

After(g) == IF g \in Starters THEN "failed" ELSE "shutdown"

StopListener(g) ==
    /\ pc[g] = "stopIPC"
    /\ IF pc["ipc"] = "none"
       THEN GoTo(g, After(g)) /\ UNCHANGED ipcStopping
       ELSE GoTo(g, "awaitServe") /\ ipcStopping' = TRUE
    /\ UNCHANGED <<lifecycle, mu, running, stopping, closing, closeDone, terminal, storage,
                   refusing, ipcClosed, tasks, current>>

\* Mutant: the IPC server is not stopped before its handlers are awaited.
StopServerLate(g) ==
    /\ pc[g] = "awaitServe" /\ pc["ipc"] = "ended"
    /\ GoTo(g, "awaitIPC")
    /\ UNCHANGED <<lifecycle, mu, running, stopping, closing, closeDone, terminal, storage,
                   ipcStopping, refusing, ipcClosed, tasks, current>>

\* ipcServeDone, then ipcServer.Stop.
StopServer(g) ==
    /\ pc[g] = "awaitServe" /\ pc["ipc"] = "ended"
    /\ ipcClosed' = TRUE
    /\ GoTo(g, "awaitIPC")
    /\ UNCHANGED <<lifecycle, mu, running, stopping, closing, closeDone, terminal, storage,
                   ipcStopping, refusing, tasks, current>>

\* ipcHandlers.Wait.
AwaitIPC(g) ==
    /\ pc[g] = "awaitIPC" /\ \A c \in IPCClients : pc[c] = "none"
    /\ GoTo(g, After(g))
    /\ UNCHANGED <<lifecycle, mu, running, stopping, closing, closeDone, terminal, storage,
                   ipcStopping, refusing, ipcClosed, tasks, current>>

-----------------------------------------------------------------------------
(* requestStop, the controller and the servers.                            *)

\* Mutant: stopping is closed without the error that Wait is to report.
RequestStopQuietly ==
    /\ Free
    /\ lifecycle' = IF lifecycle \in {"starting", "running"} THEN "stopping" ELSE lifecycle
    /\ stopping' = TRUE
    /\ UNCHANGED <<mu, closing, closeDone, terminal, storage, ipcStopping, refusing, ipcClosed, tasks>>

\* requestStop, after it has cleared running.
RequestStop ==
    /\ Free
    /\ terminal' = TRUE
    /\ lifecycle' = IF lifecycle \in {"starting", "running"} THEN "stopping" ELSE lifecycle
    /\ stopping' = TRUE
    /\ UNCHANGED <<mu, closing, closeDone, storage, ipcStopping, refusing, ipcClosed, tasks>>

\* The command goes from execute to run: commands is not buffered.
TakeCommand(c) ==
    /\ pc["controller"] = "waiting" /\ pc[c] = "sending"
    /\ pc' = [pc EXCEPT !["controller"] = "busy", ![c] = "awaitResult"]
    /\ current' = c
    /\ UNCHANGED <<lifecycle, mu, running, stopping, closing, closeDone, terminal, storage,
                   ipcStopping, refusing, ipcClosed, tasks>>

\* The result is buffered, so that it does not matter whether the caller waits.
Answer(place) ==
    /\ pc' = [pc EXCEPT !["controller"] = place,
                        ![current] = IF @ = "awaitResult" THEN "open" ELSE @]
    /\ current' = "none"

CommandEnds ==
    /\ pc["controller"] = "busy"
    /\ Answer("waiting")
    /\ UNCHANGED <<lifecycle, mu, running, stopping, closing, closeDone, terminal, storage,
                   ipcStopping, refusing, ipcClosed, tasks>>

CommandPanics ==
    /\ Panics /\ pc["controller"] = "busy"
    /\ running' = FALSE
    /\ GoTo("controller", "requestStop")
    /\ UNCHANGED <<lifecycle, mu, stopping, closing, closeDone, terminal, storage,
                   ipcStopping, refusing, ipcClosed, tasks, current>>

\* The rest of callCommand and run after a panic.
PanicEnds ==
    /\ pc["controller"] = "requestStop"
    /\ RequestStop
    /\ Answer("ended")
    /\ UNCHANGED running

ControllerStops ==
    /\ pc["controller"] = "waiting" /\ stopping
    /\ GoTo("controller", "ended")
    /\ UNCHANGED <<lifecycle, mu, running, stopping, closing, closeDone, terminal, storage,
                   ipcStopping, refusing, ipcClosed, tasks, current>>

\* serveIPC returns: the listener was closed, or Accept failed.
IPCExits ==
    /\ pc["ipc"] = "serving" /\ (ipcStopping \/ ServerFaults)
    /\ GoTo("ipc", "exited")
    /\ UNCHANGED <<lifecycle, mu, running, stopping, closing, closeDone, terminal, storage,
                   ipcStopping, refusing, ipcClosed, tasks, current>>

IPCReports ==
    /\ pc["ipc"] = "exited"
    /\ IF ipcStopping
       THEN GoTo("ipc", "ended") /\ UNCHANGED running
       ELSE GoTo("ipc", "requestStop") /\ running' = FALSE
    /\ UNCHANGED <<lifecycle, mu, stopping, closing, closeDone, terminal, storage,
                   ipcStopping, refusing, ipcClosed, tasks, current>>

\* Serve returns: "crashed" on an error, "exited" after Shutdown.
HTTPCrashes ==
    /\ ServerFaults /\ pc["http"] = "serving"
    /\ GoTo("http", "crashed")
    /\ UNCHANGED <<lifecycle, mu, running, stopping, closing, closeDone, terminal, storage,
                   ipcStopping, refusing, ipcClosed, tasks, current>>

HTTPReports ==
    /\ pc["http"] \in {"crashed", "exited"} /\ Free
    /\ LET expectedStop == lifecycle \in {"stopping", "stopped"} \/ closing
       IN IF pc["http"] = "crashed" \/ ~expectedStop
          THEN GoTo("http", "requestStop") /\ running' = FALSE
          ELSE GoTo("http", "ended") /\ UNCHANGED running
    /\ UNCHANGED <<lifecycle, mu, stopping, closing, closeDone, terminal, storage,
                   ipcStopping, refusing, ipcClosed, tasks, current>>

ServerStopsNode(server) ==
    /\ pc[server] = "requestStop"
    /\ RequestStop
    /\ GoTo(server, "ended")
    /\ UNCHANGED <<running, current>>

-----------------------------------------------------------------------------
(* Connections and calls.                                                  *)

\* serveIPC accepts; trackHTTPHandler counts the request unless it refuses.
Connect(c) ==
    /\ pc[c] = "none"
    /\ \/ c \in IPCClients /\ pc["ipc"] = "serving" /\ ~ipcStopping
       \/ c \in HTTPClients /\ pc["http"] = "serving" /\ ~refusing
    /\ GoTo(c, "open")
    /\ UNCHANGED <<lifecycle, mu, running, stopping, closing, closeDone, terminal, storage,
                   ipcStopping, refusing, ipcClosed, tasks, current>>

Cut(c) == (c \in IPCClients /\ ipcClosed) \/ (c \in HTTPClients /\ refusing)

\* execute's first check, streamSubscription's lock.  A query of the chain waits
\* for nobody: a handler that is "open" may be serving one.
Call(c, call) ==
    /\ pc[c] = "open" /\ ~Cut(c)
    /\ \/ call = "execute" /\ running /\ GoTo(c, "sending")
       \/ call = "subscribe" /\ c \in Clients \ tasks /\ GoTo(c, "subscribing")
    /\ UNCHANGED <<lifecycle, mu, running, stopping, closing, closeDone, terminal, storage,
                   ipcStopping, refusing, ipcClosed, tasks, current>>

\* execute gives up: the node stops before the command is taken, or the
\* context of a request is done.
ExecuteRefused(c) ==
    /\ pc[c] = "sending" /\ stopping
    /\ GoTo(c, "open")
    /\ UNCHANGED <<lifecycle, mu, running, stopping, closing, closeDone, terminal, storage,
                   ipcStopping, refusing, ipcClosed, tasks, current>>

ContextDone(c) ==
    /\ c \in Clients /\ pc[c] \in {"sending", "awaitResult"}
    /\ GoTo(c, "open")
    /\ UNCHANGED <<lifecycle, mu, running, stopping, closing, closeDone, terminal, storage,
                   ipcStopping, refusing, ipcClosed, tasks, current>>

Subscribe(c) ==
    /\ pc[c] = "subscribing" /\ Free
    /\ tasks' = IF closing THEN tasks ELSE tasks \cup {c}
    /\ GoTo(c, "open")
    /\ UNCHANGED <<lifecycle, mu, running, stopping, closing, closeDone, terminal, storage,
                   ipcStopping, refusing, ipcClosed, current>>

\* The client leaves, or the server has closed the connection; its handler
\* returns when no call is under way.
Disconnect(c) ==
    /\ c \in Clients /\ pc[c] = "open"
    /\ GoTo(c, "none")
    /\ UNCHANGED <<lifecycle, mu, running, stopping, closing, closeDone, terminal, storage,
                   ipcStopping, refusing, ipcClosed, tasks, current>>

\* A task ends with the node, a subscription with its connection too.
TaskEnds(t) ==
    /\ t \in tasks
    /\ stopping \/ (t \in Clients /\ pc[t] = "none")
    /\ tasks' = tasks \ {t}
    /\ UNCHANGED <<lifecycle, mu, pc, running, stopping, closing, closeDone, terminal, storage,
                   ipcStopping, refusing, ipcClosed, current>>

-----------------------------------------------------------------------------
(* Close.                                                                  *)

\* Mutant: a second Close does not see the first.
CloseBeginTwice(g) ==
    /\ pc[g] = "none" /\ Free /\ lifecycle # "stopped"
    /\ closing' = TRUE /\ lifecycle' = "stopping" /\ running' = FALSE /\ stopping' = TRUE
    /\ GoTo(g, "refuse")
    /\ UNCHANGED <<mu, closeDone, terminal, storage, ipcStopping, refusing, ipcClosed, tasks, current>>

CloseBegin(g) ==
    /\ pc[g] = "none" /\ Free /\ lifecycle # "stopped" /\ ~closing
    /\ closing' = TRUE /\ lifecycle' = "stopping" /\ running' = FALSE /\ stopping' = TRUE
    /\ GoTo(g, "refuse")
    /\ UNCHANGED <<mu, closeDone, terminal, storage, ipcStopping, refusing, ipcClosed, tasks, current>>

\* The node is closed, or another Close is under way.
CloseAgain(g) ==
    /\ pc[g] = "none" /\ Free
    /\ \/ lifecycle = "stopped" /\ GoTo(g, "returned")
       \/ lifecycle # "stopped" /\ closing /\ GoTo(g, "awaitClose")
    /\ UNCHANGED <<lifecycle, mu, running, stopping, closing, closeDone, terminal, storage,
                   ipcStopping, refusing, ipcClosed, tasks, current>>

CloseAwaited(g) ==
    /\ pc[g] = "awaitClose" /\ closeDone
    /\ GoTo(g, "returned")
    /\ UNCHANGED <<lifecycle, mu, running, stopping, closing, closeDone, terminal, storage,
                   ipcStopping, refusing, ipcClosed, tasks, current>>

\* handlersClosing, then rpcServer.Stop.
Refuse(g) ==
    /\ pc[g] = "refuse"
    /\ refusing' = TRUE
    /\ GoTo(g, "stopIPC")
    /\ UNCHANGED <<lifecycle, mu, running, stopping, closing, closeDone, terminal, storage,
                   ipcStopping, ipcClosed, tasks, current>>

\* httpServer.Shutdown; it ends by its timeout at the latest.
Shutdown(g) ==
    /\ pc[g] = "shutdown"
    /\ pc' = [pc EXCEPT ![g] = "awaitHTTP", !["http"] = IF @ = "serving" THEN "exited" ELSE @]
    /\ UNCHANGED <<lifecycle, mu, running, stopping, closing, closeDone, terminal, storage,
                   ipcStopping, refusing, ipcClosed, tasks, current>>

\* Mutant: the storage is closed as soon as the controller has ended.
CloseStorageEarly(g) ==
    /\ pc[g] = "awaitHTTP"
    /\ pc["controller"] \in {"none", "ended"} /\ tasks = {}
    /\ storage' = "closed"
    /\ GoTo(g, "finish")
    /\ UNCHANGED <<lifecycle, mu, running, stopping, closing, closeDone, terminal,
                   ipcStopping, refusing, ipcClosed, tasks, current>>

\* httpHandlers.Wait, done, backgroundTasks.Wait, the archive, chain.close.
CloseStorage(g) ==
    /\ pc[g] = "awaitHTTP"
    /\ \A c \in HTTPClients : pc[c] = "none"
    /\ pc["controller"] \in {"none", "ended"} /\ tasks = {}
    /\ storage' = "closed"
    /\ GoTo(g, "finish")
    /\ UNCHANGED <<lifecycle, mu, running, stopping, closing, closeDone, terminal,
                   ipcStopping, refusing, ipcClosed, tasks, current>>

CloseReturn(g) ==
    /\ pc[g] = "finish" /\ Free
    /\ lifecycle' = "stopped" /\ closeDone' = TRUE
    /\ GoTo(g, "returned")
    /\ UNCHANGED <<mu, running, stopping, closing, terminal, storage,
                   ipcStopping, refusing, ipcClosed, tasks, current>>

-----------------------------------------------------------------------------

StopIPC(g) == StopListener(g) \/ StopServer(g) \/ AwaitIPC(g)

Start(s) ==
    \/ StartBegin(s) \/ StartRefused(s) \/ OpenIPC(s) \/ OpenHTTP(s) \/ StartReturn(s)
    \/ StopIPC(s) \/ StartFail(s) \/ StartFailed(s)

Close(g) ==
    \/ CloseBegin(g) \/ CloseAgain(g) \/ CloseAwaited(g) \/ Refuse(g) \/ StopIPC(g)
    \/ Shutdown(g) \/ CloseStorage(g) \/ CloseReturn(g)

Controller == CommandEnds \/ CommandPanics \/ PanicEnds \/ ControllerStops

Servers == IPCExits \/ IPCReports \/ HTTPCrashes \/ HTTPReports \/ \E s \in {"ipc", "http"} : ServerStopsNode(s)

Next ==
    \/ \E s \in Starters : Start(s)
    \/ \E g \in Closers : Close(g)
    \/ Controller \/ Servers
    \/ \E c \in Callers :
          \/ Connect(c) \/ Disconnect(c) \/ TakeCommand(c)
          \/ \E call \in Calls : Call(c, call)
          \/ ExecuteRefused(c) \/ ContextDone(c) \/ Subscribe(c)
    \/ \E t \in tasks : TaskEnds(t)

\* Every goroutine that can go on does: those of the node, calls, and the
\* handlers of connections that were cut.  Nothing makes anyone call Start or
\* Close, connect, call, leave, or fail.  Senders wait for the controller in a
\* queue, and its select chooses at random: neither a sender nor the stop is
\* passed over forever.
Fairness ==
    /\ \A s \in Starters : WF_vars(pc[s] # "none" /\ Start(s))
    /\ \A g \in Closers : WF_vars(pc[g] # "none" /\ Close(g))
    /\ WF_vars(CommandEnds \/ PanicEnds) /\ SF_vars(ControllerStops)
    /\ WF_vars((ipcStopping /\ IPCExits) \/ IPCReports \/ ServerStopsNode("ipc"))
    /\ WF_vars(HTTPReports \/ ServerStopsNode("http"))
    /\ \A c \in Callers :
          /\ SF_vars(TakeCommand(c))
          /\ WF_vars(ExecuteRefused(c) \/ Subscribe(c) \/ (Cut(c) /\ Disconnect(c)))
    /\ \A t \in Clients \cup {"reaper"} : WF_vars(TaskEnds(t))

Spec == Init /\ [][Next]_vars /\ Fairness

-----------------------------------------------------------------------------
(* Properties.                                                             *)

\* The database is closed after everything that uses it: no command, query,
\* connection or background task is left, whether Close or a failed Start
\* closed it.
StorageClosedLast ==
    storage = "closed" =>
        /\ pc["controller"] \in {"none", "ended"}
        /\ \A c \in Clients : pc[c] = "none"
        /\ tasks = {}

\* A controller that has ended leaves nobody in the dark: a command that it had
\* taken is answered, even if it panicked, and if nobody asked the node to stop
\* there is an error for Wait.
EndIsReported ==
    pc["controller"] = "ended" =>
        /\ \A c \in Callers : pc[c] # "awaitResult"
        /\ ~closing => terminal

Order == [new |-> 0, starting |-> 1, running |-> 2, stopping |-> 3, stopped |-> 4]

\* A node is started and closed once: its lifecycle never goes back, it does
\* not get to run after something has stopped it, and closeDone is not closed
\* twice (which would panic).
OneShot ==
    [][/\ Order[lifecycle'] >= Order[lifecycle]
       /\ lifecycle' = "running" /\ lifecycle # "running" => ~stopping
       /\ (\E g \in Closers : pc[g] = "finish" /\ pc'[g] = "returned") => ~closeDone]_vars

\* A start that fails waits, holding lifecycleMu, for goroutines that may
\* themselves wait for lifecycleMu: in stopIPC for a handler that subscribes,
\* or for an IPC server that failed on its own (ipcServeDone is closed, by a
\* defer, after requestStop); then, in the handlers it waits for or at done,
\* for a controller whose command panicked.  These are its only ways to get stuck.
StartBlocked ==
    \E s \in Starters :
        \/ pc[s] = "awaitIPC" /\ \E c \in IPCClients : pc[c] = "subscribing"
        \/ pc[s] = "awaitServe" /\ pc["ipc"] = "requestStop"
        \/ pc[s] \in {"awaitIPC", "awaitDone"} /\ pc["controller"] = "requestStop"

\* Every Start and Close that has begun returns, whatever fails on the way and
\* whoever is connected, unless a subscription, a panic or the failure of the
\* IPC server comes just while Start fails.
CallsReturn ==
    []<>(StartBlocked \/ \A g \in Starters \cup Closers : pc[g] \in {"none", "returned"})

=============================================================================
