-------------------------- MODULE LifecycleProofs --------------------------
(***************************************************************************)
(* What Start, Close, the controller and the servers keep, for any number  *)
(* of callers, connections and embedders.                                  *)
(***************************************************************************)
EXTENDS Lifecycle, TLAPS

\* Where a Start that holds lifecycleMu, and a Close that is not waiting for
\* another, can be.
Opening == {"openIPC", "openHTTP", "opened", "stopIPC", "awaitServe", "awaitIPC", "failed", "awaitDone"}
Closing == {"refuse", "stopIPC", "awaitServe", "awaitIPC", "shutdown", "awaitHTTP", "finish"}

Everywhere ==
    Opening \cup Closing \cup
    {"none", "returned", "awaitClose", "waiting", "busy", "requestStop", "ended", "serving", "exited", "crashed",
     "open", "sending", "awaitResult", "subscribing"}

Places ==
    /\ pc \in [Goroutines -> Everywhere]
    /\ lifecycle \in {"new", "starting", "running", "stopping", "stopped"}
    /\ storage \in {"open", "closed"}
    /\ \A s \in Starters : pc[s] \in {"none", "returned"} \cup Opening
    /\ \A g \in Closers : pc[g] \in {"none", "returned", "awaitClose"} \cup Closing

\* No IPC connection is left and none can come.
IPCOver == pc["ipc"] \in {"none", "ended"} /\ \A c \in IPCClients : pc[c] = "none"

\* A server that was never started has no connections.
ServerInv ==
    /\ pc["ipc"] = "none" => \A c \in IPCClients : pc[c] = "none"
    /\ pc["http"] = "none" => \A c \in HTTPClients : pc[c] = "none"
    /\ lifecycle = "new" =>
          pc["controller"] = "none" /\ pc["ipc"] = "none" /\ pc["http"] = "none" /\ ~stopping

\* A Start under way holds lifecycleMu, nobody else does for more than a step,
\* and nothing has stopped the node before Start itself gives up.
StartInv ==
    /\ mu = "none" \/ mu \in Starters
    /\ \A s \in Starters : pc[s] \in Opening <=> mu = s
    /\ \A s \in Starters : pc[s] \in Opening =>
          /\ lifecycle = "starting" /\ ~closing
          /\ pc[s] = "openIPC" => pc["ipc"] = "none"
          /\ pc[s] # "opened" => pc["http"] = "none"
          /\ pc[s] # "awaitDone" => ~stopping
          /\ pc[s] = "awaitIPC" => pc["ipc"] = "ended"
          /\ pc[s] \in {"failed", "awaitDone"} => IPCOver

\* One Close at most is at work; it has begun when no Start was under way.
CloseInv ==
    /\ closing => lifecycle \in {"stopping", "stopped"}
    /\ lifecycle = "stopped" \/ closeDone => closing
    /\ stopping => closing \/ terminal
    /\ \A g \in Closers : pc[g] \in Closing =>
          /\ closing /\ ~closeDone
          /\ \A h \in Closers : pc[h] \in Closing => h = g
          /\ pc[g] # "refuse" => refusing
          /\ pc[g] = "awaitIPC" => pc["ipc"] = "ended"
          /\ pc[g] \in {"shutdown", "awaitHTTP", "finish"} => IPCOver

\* A command that was taken is the controller's current one until its answer.
CommandInv ==
    /\ pc["controller"] \in {"none", "waiting", "busy", "requestStop", "ended"}
    /\ pc["controller"] \in {"busy", "requestStop"} => current \in Callers
    /\ \A c \in Callers : pc[c] = "awaitResult" => pc["controller"] \in {"busy", "requestStop"} /\ current = c
    /\ pc["controller"] = "ended" => closing \/ terminal

\* What closes the storage is the end of Start and Close: nothing comes back.
StorageInv ==
    storage = "closed" =>
        /\ closing /\ IPCOver
        /\ pc["controller"] \in {"none", "ended"} /\ tasks = {}
        /\ pc["http"] = "none" \/ refusing
        /\ \A c \in HTTPClients : pc[c] = "none"

LifecycleInv == Places /\ ServerInv /\ StartInv /\ CloseInv /\ CommandInv /\ StorageInv

USE DEF Clients, Callers, Goroutines, Opening, Closing, Everywhere, IPCOver

LEMMA LifecycleInitially == Init => LifecycleInv
<1> SUFFICES ASSUME Init PROVE LifecycleInv  OBVIOUS
<1> USE GoroutineAssumption DEF Init
<1>1. Places  BY DEF Places
<1>2. ServerInv  BY DEF ServerInv
<1>3. StartInv  BY DEF StartInv
<1>4. CloseInv  BY DEF CloseInv
<1>5. CommandInv  BY DEF CommandInv
<1>6. StorageInv  BY DEF StorageInv
<1> QED  BY <1>1, <1>2, <1>3, <1>4, <1>5, <1>6 DEF LifecycleInv

-----------------------------------------------------------------------------
(* Start.                                                                  *)

LEMMA StartBegins ==
    ASSUME LifecycleInv, NEW s \in Starters, StartBegin(s) PROVE LifecycleInv'
<1> USE GoroutineAssumption DEF StartBegin, Free
<1>1. Places'  BY DEF LifecycleInv, Places
<1>2. ServerInv'  BY DEF LifecycleInv, Places, ServerInv
<1>3. StartInv'  BY DEF LifecycleInv, Places, ServerInv, StartInv, CloseInv
<1>4. CloseInv'  BY DEF LifecycleInv, Places, CloseInv
<1>5. CommandInv'  BY DEF LifecycleInv, Places, ServerInv, CommandInv
<1>6. StorageInv'  BY DEF LifecycleInv, Places, CloseInv, StorageInv
<1> QED  BY <1>1, <1>2, <1>3, <1>4, <1>5, <1>6 DEF LifecycleInv

LEMMA StartIsRefused ==
    ASSUME LifecycleInv, NEW s \in Starters, StartRefused(s) PROVE LifecycleInv'
<1> USE GoroutineAssumption DEF StartRefused, Free, GoTo
<1>1. Places'  BY DEF LifecycleInv, Places
<1>2. ServerInv'  BY DEF LifecycleInv, Places, ServerInv
<1>3. StartInv'  BY DEF LifecycleInv, Places, StartInv
<1>4. CloseInv'  BY DEF LifecycleInv, Places, CloseInv
<1>5. CommandInv'  BY DEF LifecycleInv, Places, CommandInv
<1>6. StorageInv'  BY DEF LifecycleInv, Places, StorageInv
<1> QED  BY <1>1, <1>2, <1>3, <1>4, <1>5, <1>6 DEF LifecycleInv

LEMMA OpensIPC ==
    ASSUME LifecycleInv, NEW s \in Starters, OpenIPC(s) PROVE LifecycleInv'
<1> USE GoroutineAssumption DEF OpenIPC, GoTo
<1>1. Places'  BY DEF LifecycleInv, Places
<1>2. ServerInv'  BY DEF LifecycleInv, Places, ServerInv, StartInv
<1>3. StartInv'  BY DEF LifecycleInv, Places, ServerInv, StartInv
<1>4. CloseInv'  BY DEF LifecycleInv, Places, StartInv, CloseInv
<1>5. CommandInv'  BY DEF LifecycleInv, Places, CommandInv
<1>6. StorageInv'  BY DEF LifecycleInv, Places, StartInv, StorageInv
<1> QED  BY <1>1, <1>2, <1>3, <1>4, <1>5, <1>6 DEF LifecycleInv

LEMMA OpensHTTP ==
    ASSUME LifecycleInv, NEW s \in Starters, OpenHTTP(s) PROVE LifecycleInv'
<1> USE GoroutineAssumption DEF OpenHTTP, GoTo
<1>1. Places'  BY DEF LifecycleInv, Places
<1>2. ServerInv'  BY DEF LifecycleInv, Places, ServerInv, StartInv
<1>3. StartInv'  BY DEF LifecycleInv, Places, StartInv
<1>4. CloseInv'  BY DEF LifecycleInv, Places, CloseInv
<1>5. CommandInv'  BY DEF LifecycleInv, Places, CommandInv
<1>6. StorageInv'  BY DEF LifecycleInv, Places, StartInv, StorageInv
<1> QED  BY <1>1, <1>2, <1>3, <1>4, <1>5, <1>6 DEF LifecycleInv

LEMMA StartReturns ==
    ASSUME LifecycleInv, NEW s \in Starters, StartReturn(s) PROVE LifecycleInv'
<1> USE GoroutineAssumption DEF StartReturn, GoTo
<1>1. Places'  BY DEF LifecycleInv, Places
<1>2. ServerInv'  BY DEF LifecycleInv, Places, ServerInv
<1>3. StartInv'  BY DEF LifecycleInv, Places, StartInv
<1>4. CloseInv'  BY DEF LifecycleInv, Places, StartInv, CloseInv
<1>5. CommandInv'  BY DEF LifecycleInv, Places, CommandInv
<1>6. StorageInv'  BY DEF LifecycleInv, Places, StorageInv
<1> QED  BY <1>1, <1>2, <1>3, <1>4, <1>5, <1>6 DEF LifecycleInv

LEMMA StartFails ==
    ASSUME LifecycleInv, NEW s \in Starters, StartFail(s) \/ StartFailed(s) PROVE LifecycleInv'
<1> USE GoroutineAssumption DEF StartFail, StartFailed, GoTo
<1>1. Places'  BY DEF LifecycleInv, Places
<1>2. ServerInv'  BY DEF LifecycleInv, Places, ServerInv, StartInv
<1>3. StartInv'  BY DEF LifecycleInv, Places, StartInv
<1>4. CloseInv'  BY DEF LifecycleInv, Places, StartInv, CloseInv
<1>5. CommandInv'  BY DEF LifecycleInv, Places, CommandInv
<1>6. StorageInv'  BY DEF LifecycleInv, Places, ServerInv, StartInv, StorageInv
<1> QED  BY <1>1, <1>2, <1>3, <1>4, <1>5, <1>6 DEF LifecycleInv

-----------------------------------------------------------------------------
(* stopIPC.                                                                *)

LEMMA StopsListener ==
    ASSUME LifecycleInv, NEW g \in Starters \cup Closers, StopListener(g) PROVE LifecycleInv'
<1> USE GoroutineAssumption DEF StopListener, After, GoTo
<1>1. Places'  BY DEF LifecycleInv, Places
<1>2. ServerInv'  BY DEF LifecycleInv, Places, ServerInv
<1>3. StartInv'  BY DEF LifecycleInv, Places, ServerInv, StartInv
<1>4. CloseInv'  BY DEF LifecycleInv, Places, ServerInv, CloseInv
<1>5. CommandInv'  BY DEF LifecycleInv, Places, CommandInv
<1>6. StorageInv'  BY DEF LifecycleInv, Places, StorageInv
<1> QED  BY <1>1, <1>2, <1>3, <1>4, <1>5, <1>6 DEF LifecycleInv

LEMMA StopsServer ==
    ASSUME LifecycleInv, NEW g \in Starters \cup Closers, StopServer(g) PROVE LifecycleInv'
<1> USE GoroutineAssumption DEF StopServer, GoTo
<1>1. Places'  BY DEF LifecycleInv, Places
<1>2. ServerInv'  BY DEF LifecycleInv, Places, ServerInv
<1>3. StartInv'  BY DEF LifecycleInv, Places, StartInv
<1>4. CloseInv'  BY DEF LifecycleInv, Places, CloseInv
<1>5. CommandInv'  BY DEF LifecycleInv, Places, CommandInv
<1>6. StorageInv'  BY DEF LifecycleInv, Places, StorageInv
<1> QED  BY <1>1, <1>2, <1>3, <1>4, <1>5, <1>6 DEF LifecycleInv

LEMMA AwaitsIPC ==
    ASSUME LifecycleInv, NEW g \in Starters \cup Closers, AwaitIPC(g) PROVE LifecycleInv'
<1> USE GoroutineAssumption DEF AwaitIPC, After, GoTo
<1>1. Places'  BY DEF LifecycleInv, Places
<1>2. ServerInv'  BY DEF LifecycleInv, Places, ServerInv
<1>3. StartInv'  BY DEF LifecycleInv, Places, StartInv
<1>4. CloseInv'  BY DEF LifecycleInv, Places, CloseInv
<1>5. CommandInv'  BY DEF LifecycleInv, Places, CommandInv
<1>6. StorageInv'  BY DEF LifecycleInv, Places, StorageInv
<1> QED  BY <1>1, <1>2, <1>3, <1>4, <1>5, <1>6 DEF LifecycleInv

-----------------------------------------------------------------------------
(* The controller and the servers.                                         *)

LEMMA CommandTaken ==
    ASSUME LifecycleInv, NEW c \in Callers, TakeCommand(c) PROVE LifecycleInv'
<1> USE GoroutineAssumption DEF TakeCommand
<1>1. Places'  BY DEF LifecycleInv, Places
<1>2. ServerInv'  BY DEF LifecycleInv, Places, ServerInv
<1>3. StartInv'  BY DEF LifecycleInv, Places, StartInv
<1>4. CloseInv'  BY DEF LifecycleInv, Places, CloseInv
<1>5. CommandInv'  BY DEF LifecycleInv, Places, CommandInv
<1>6. StorageInv'  BY DEF LifecycleInv, Places, StorageInv
<1> QED  BY <1>1, <1>2, <1>3, <1>4, <1>5, <1>6 DEF LifecycleInv

LEMMA CommandDone ==
    ASSUME LifecycleInv, CommandEnds PROVE LifecycleInv'
<1> USE GoroutineAssumption DEF CommandEnds, Answer
<1>1. Places'  BY DEF LifecycleInv, Places, CommandInv
<1>2. ServerInv'  BY DEF LifecycleInv, Places, ServerInv
<1>3. StartInv'  BY DEF LifecycleInv, Places, StartInv
<1>4. CloseInv'  BY DEF LifecycleInv, Places, CloseInv
<1>5. CommandInv'  BY DEF LifecycleInv, Places, CommandInv
<1>6. StorageInv'  BY DEF LifecycleInv, Places, StorageInv
<1> QED  BY <1>1, <1>2, <1>3, <1>4, <1>5, <1>6 DEF LifecycleInv

LEMMA CommandPanicked ==
    ASSUME LifecycleInv, CommandPanics PROVE LifecycleInv'
<1> USE GoroutineAssumption DEF CommandPanics, GoTo
<1>1. Places'  BY DEF LifecycleInv, Places
<1>2. ServerInv'  BY DEF LifecycleInv, Places, ServerInv
<1>3. StartInv'  BY DEF LifecycleInv, Places, StartInv
<1>4. CloseInv'  BY DEF LifecycleInv, Places, CloseInv
<1>5. CommandInv'  BY DEF LifecycleInv, Places, CommandInv
<1>6. StorageInv'  BY DEF LifecycleInv, Places, StorageInv
<1> QED  BY <1>1, <1>2, <1>3, <1>4, <1>5, <1>6 DEF LifecycleInv

LEMMA PanicDone ==
    ASSUME LifecycleInv, PanicEnds PROVE LifecycleInv'
<1> USE GoroutineAssumption DEF PanicEnds, RequestStop, Answer, Free
<1>1. Places'  BY DEF LifecycleInv, Places, CommandInv
<1>2. ServerInv'  BY DEF LifecycleInv, Places, ServerInv
<1>3. StartInv'  BY DEF LifecycleInv, Places, StartInv
<1>4. CloseInv'  BY DEF LifecycleInv, Places, CloseInv
<1>5. CommandInv'  BY DEF LifecycleInv, Places, CommandInv
<1>6. StorageInv'  BY DEF LifecycleInv, Places, StorageInv
<1> QED  BY <1>1, <1>2, <1>3, <1>4, <1>5, <1>6 DEF LifecycleInv

LEMMA ControllerDone ==
    ASSUME LifecycleInv, ControllerStops PROVE LifecycleInv'
<1> USE GoroutineAssumption DEF ControllerStops, GoTo
<1>1. Places'  BY DEF LifecycleInv, Places
<1>2. ServerInv'  BY DEF LifecycleInv, Places, ServerInv
<1>3. StartInv'  BY DEF LifecycleInv, Places, StartInv
<1>4. CloseInv'  BY DEF LifecycleInv, Places, CloseInv
<1>5. CommandInv'  BY DEF LifecycleInv, Places, CloseInv, CommandInv
<1>6. StorageInv'  BY DEF LifecycleInv, Places, StorageInv
<1> QED  BY <1>1, <1>2, <1>3, <1>4, <1>5, <1>6 DEF LifecycleInv

LEMMA IPCServes ==
    ASSUME LifecycleInv, IPCExits \/ IPCReports PROVE LifecycleInv'
<1> USE GoroutineAssumption DEF IPCExits, IPCReports, GoTo
<1>1. Places'  BY DEF LifecycleInv, Places
<1>2. ServerInv'  BY DEF LifecycleInv, Places, ServerInv
<1>3. StartInv'  BY DEF LifecycleInv, Places, StartInv
<1>4. CloseInv'  BY DEF LifecycleInv, Places, CloseInv
<1>5. CommandInv'  BY DEF LifecycleInv, Places, CommandInv
<1>6. StorageInv'  BY DEF LifecycleInv, Places, StorageInv
<1> QED  BY <1>1, <1>2, <1>3, <1>4, <1>5, <1>6 DEF LifecycleInv

LEMMA HTTPServes ==
    ASSUME LifecycleInv, HTTPCrashes \/ HTTPReports PROVE LifecycleInv'
<1> USE GoroutineAssumption DEF HTTPCrashes, HTTPReports, GoTo, Free
<1>1. Places'  BY DEF LifecycleInv, Places
<1>2. ServerInv'  BY DEF LifecycleInv, Places, ServerInv
<1>3. StartInv'  BY DEF LifecycleInv, Places, StartInv
<1>4. CloseInv'  BY DEF LifecycleInv, Places, CloseInv
<1>5. CommandInv'  BY DEF LifecycleInv, Places, CommandInv
<1>6. StorageInv'  BY DEF LifecycleInv, Places, StorageInv
<1> QED  BY <1>1, <1>2, <1>3, <1>4, <1>5, <1>6 DEF LifecycleInv

LEMMA ServerFails ==
    ASSUME LifecycleInv, NEW server \in {"ipc", "http"}, ServerStopsNode(server) PROVE LifecycleInv'
<1> USE GoroutineAssumption DEF ServerStopsNode, RequestStop, GoTo, Free
<1>1. Places'  BY DEF LifecycleInv, Places
<1>2. ServerInv'  BY DEF LifecycleInv, Places, ServerInv
<1>3. StartInv'  BY DEF LifecycleInv, Places, StartInv
<1>4. CloseInv'  BY DEF LifecycleInv, Places, CloseInv
<1>5. CommandInv'  BY DEF LifecycleInv, Places, CommandInv
<1>6. StorageInv'  BY DEF LifecycleInv, Places, StorageInv
<1> QED  BY <1>1, <1>2, <1>3, <1>4, <1>5, <1>6 DEF LifecycleInv

-----------------------------------------------------------------------------
(* Connections, calls and tasks.                                           *)

LEMMA Connects ==
    ASSUME LifecycleInv, NEW c \in Callers, Connect(c) \/ Disconnect(c) PROVE LifecycleInv'
<1> USE GoroutineAssumption DEF Connect, Disconnect, GoTo
<1>1. Places'  BY DEF LifecycleInv, Places
<1>2. ServerInv'  BY DEF LifecycleInv, Places, ServerInv
<1>3. StartInv'  BY DEF LifecycleInv, Places, StartInv
<1>4. CloseInv'  BY DEF LifecycleInv, Places, CloseInv
<1>5. CommandInv'  BY DEF LifecycleInv, Places, CommandInv
<1>6. StorageInv'  BY DEF LifecycleInv, Places, StorageInv
<1> QED  BY <1>1, <1>2, <1>3, <1>4, <1>5, <1>6 DEF LifecycleInv

LEMMA Executes ==
    ASSUME LifecycleInv, NEW c \in Callers, NEW call \in Calls, Call(c, call) PROVE LifecycleInv'
<1> USE GoroutineAssumption DEF Call, Cut, GoTo
<1>1. Places'  BY DEF LifecycleInv, Places
<1>2. ServerInv'  BY DEF LifecycleInv, Places, ServerInv
<1>3. StartInv'  BY DEF LifecycleInv, Places, StartInv
<1>4. CloseInv'  BY DEF LifecycleInv, Places, CloseInv
<1>5. CommandInv'  BY DEF LifecycleInv, Places, CommandInv
<1>6. StorageInv'  BY DEF LifecycleInv, Places, StorageInv
<1> QED  BY <1>1, <1>2, <1>3, <1>4, <1>5, <1>6 DEF LifecycleInv

LEMMA ExecuteEnds ==
    ASSUME LifecycleInv, NEW c \in Callers, ExecuteRefused(c) \/ ContextDone(c) PROVE LifecycleInv'
<1> USE GoroutineAssumption DEF ExecuteRefused, ContextDone, GoTo
<1>1. Places'  BY DEF LifecycleInv, Places
<1>2. ServerInv'  BY DEF LifecycleInv, Places, ServerInv
<1>3. StartInv'  BY DEF LifecycleInv, Places, StartInv
<1>4. CloseInv'  BY DEF LifecycleInv, Places, CloseInv
<1>5. CommandInv'  BY DEF LifecycleInv, Places, CommandInv
<1>6. StorageInv'  BY DEF LifecycleInv, Places, StorageInv
<1> QED  BY <1>1, <1>2, <1>3, <1>4, <1>5, <1>6 DEF LifecycleInv

LEMMA Subscribes ==
    ASSUME LifecycleInv, NEW c \in Callers, Subscribe(c) PROVE LifecycleInv'
<1> USE GoroutineAssumption DEF Subscribe, GoTo, Free
<1>1. Places'  BY DEF LifecycleInv, Places
<1>2. ServerInv'  BY DEF LifecycleInv, Places, ServerInv
<1>3. StartInv'  BY DEF LifecycleInv, Places, StartInv
<1>4. CloseInv'  BY DEF LifecycleInv, Places, CloseInv
<1>5. CommandInv'  BY DEF LifecycleInv, Places, CommandInv
<1>6. StorageInv'  BY DEF LifecycleInv, Places, StorageInv
<1> QED  BY <1>1, <1>2, <1>3, <1>4, <1>5, <1>6 DEF LifecycleInv

LEMMA TaskDone ==
    ASSUME LifecycleInv, NEW t \in tasks, TaskEnds(t) PROVE LifecycleInv'
<1> USE GoroutineAssumption DEF TaskEnds
<1>1. Places'  BY DEF LifecycleInv, Places
<1>2. ServerInv'  BY DEF LifecycleInv, Places, ServerInv
<1>3. StartInv'  BY DEF LifecycleInv, Places, StartInv
<1>4. CloseInv'  BY DEF LifecycleInv, Places, CloseInv
<1>5. CommandInv'  BY DEF LifecycleInv, Places, CommandInv
<1>6. StorageInv'  BY DEF LifecycleInv, Places, StorageInv
<1> QED  BY <1>1, <1>2, <1>3, <1>4, <1>5, <1>6 DEF LifecycleInv

-----------------------------------------------------------------------------
(* Close.                                                                  *)

LEMMA CloseBegins ==
    ASSUME LifecycleInv, NEW g \in Closers, CloseBegin(g) PROVE LifecycleInv'
<1> USE GoroutineAssumption DEF CloseBegin, GoTo, Free
<1>1. Places'  BY DEF LifecycleInv, Places
<1>2. ServerInv'  BY DEF LifecycleInv, Places, ServerInv
<1>3. StartInv'  BY DEF LifecycleInv, Places, StartInv
<1>4. CloseInv'  BY DEF LifecycleInv, Places, CloseInv
<1>5. CommandInv'  BY DEF LifecycleInv, Places, CommandInv
<1>6. StorageInv'  BY DEF LifecycleInv, Places, StorageInv
<1> QED  BY <1>1, <1>2, <1>3, <1>4, <1>5, <1>6 DEF LifecycleInv

LEMMA ClosesAgain ==
    ASSUME LifecycleInv, NEW g \in Closers, CloseAgain(g) \/ CloseAwaited(g) PROVE LifecycleInv'
<1> USE GoroutineAssumption DEF CloseAgain, CloseAwaited, GoTo, Free
<1>1. Places'  BY DEF LifecycleInv, Places
<1>2. ServerInv'  BY DEF LifecycleInv, Places, ServerInv
<1>3. StartInv'  BY DEF LifecycleInv, Places, StartInv
<1>4. CloseInv'  BY DEF LifecycleInv, Places, CloseInv
<1>5. CommandInv'  BY DEF LifecycleInv, Places, CommandInv
<1>6. StorageInv'  BY DEF LifecycleInv, Places, StorageInv
<1> QED  BY <1>1, <1>2, <1>3, <1>4, <1>5, <1>6 DEF LifecycleInv

LEMMA Refuses ==
    ASSUME LifecycleInv, NEW g \in Closers, Refuse(g) \/ Shutdown(g) PROVE LifecycleInv'
<1> USE GoroutineAssumption DEF Refuse, Shutdown, GoTo
<1>1. Places'  BY DEF LifecycleInv, Places
<1>2. ServerInv'  BY DEF LifecycleInv, Places, ServerInv
<1>3. StartInv'  BY DEF LifecycleInv, Places, StartInv
<1>4. CloseInv'  BY DEF LifecycleInv, Places, CloseInv
<1>5. CommandInv'  BY DEF LifecycleInv, Places, CommandInv
<1>6. StorageInv'  BY DEF LifecycleInv, Places, StorageInv
<1> QED  BY <1>1, <1>2, <1>3, <1>4, <1>5, <1>6 DEF LifecycleInv

LEMMA ClosesStorage ==
    ASSUME LifecycleInv, NEW g \in Closers, CloseStorage(g) PROVE LifecycleInv'
<1> USE GoroutineAssumption DEF CloseStorage, GoTo
<1>1. Places'  BY DEF LifecycleInv, Places
<1>2. ServerInv'  BY DEF LifecycleInv, Places, ServerInv
<1>3. StartInv'  BY DEF LifecycleInv, Places, StartInv
<1>4. CloseInv'  BY DEF LifecycleInv, Places, CloseInv
<1>5. CommandInv'  BY DEF LifecycleInv, Places, CommandInv
<1>6. StorageInv'  BY DEF LifecycleInv, Places, CloseInv, StorageInv
<1> QED  BY <1>1, <1>2, <1>3, <1>4, <1>5, <1>6 DEF LifecycleInv

LEMMA CloseReturns ==
    ASSUME LifecycleInv, NEW g \in Closers, CloseReturn(g) PROVE LifecycleInv'
<1> USE GoroutineAssumption DEF CloseReturn, GoTo, Free
<1>1. Places'  BY DEF LifecycleInv, Places
<1>2. ServerInv'  BY DEF LifecycleInv, Places, ServerInv
<1>3. StartInv'  BY DEF LifecycleInv, Places, StartInv
<1>4. CloseInv'  BY DEF LifecycleInv, Places, CloseInv
<1>5. CommandInv'  BY DEF LifecycleInv, Places, CommandInv
<1>6. StorageInv'  BY DEF LifecycleInv, Places, StorageInv
<1> QED  BY <1>1, <1>2, <1>3, <1>4, <1>5, <1>6 DEF LifecycleInv

LEMMA Stutters ==
    ASSUME LifecycleInv, UNCHANGED vars PROVE LifecycleInv'
<1> USE GoroutineAssumption DEF vars
<1>1. Places'  BY DEF LifecycleInv, Places
<1>2. ServerInv'  BY DEF LifecycleInv, Places, ServerInv
<1>3. StartInv'  BY DEF LifecycleInv, Places, StartInv
<1>4. CloseInv'  BY DEF LifecycleInv, Places, CloseInv
<1>5. CommandInv'  BY DEF LifecycleInv, Places, CommandInv
<1>6. StorageInv'  BY DEF LifecycleInv, Places, StorageInv
<1> QED  BY <1>1, <1>2, <1>3, <1>4, <1>5, <1>6 DEF LifecycleInv

-----------------------------------------------------------------------------

LEMMA LifecyclePreserved ==
    ASSUME LifecycleInv, [Next]_vars PROVE LifecycleInv'
<1>1. CASE \E s \in Starters : Start(s)
  BY <1>1, StartBegins, StartIsRefused, OpensIPC, OpensHTTP, StartReturns, StartFails,
     StopsListener, StopsServer, AwaitsIPC DEF Start, StopIPC
<1>2. CASE \E g \in Closers : Close(g)
  BY <1>2, CloseBegins, ClosesAgain, Refuses, ClosesStorage, CloseReturns,
     StopsListener, StopsServer, AwaitsIPC DEF Close, StopIPC
<1>3. CASE Controller
  BY <1>3, CommandDone, CommandPanicked, PanicDone, ControllerDone DEF Controller
<1>4. CASE Servers
  BY <1>4, IPCServes, HTTPServes, ServerFails DEF Servers
<1>5. ASSUME NEW c \in Callers,
             \/ Connect(c) \/ Disconnect(c) \/ TakeCommand(c)
             \/ \E call \in Calls : Call(c, call)
             \/ ExecuteRefused(c) \/ ContextDone(c) \/ Subscribe(c)
      PROVE  LifecycleInv'
  BY <1>5, Connects, CommandTaken, Executes, ExecuteEnds, Subscribes
<1>6. CASE \E t \in tasks : TaskEnds(t)  BY <1>6, TaskDone
<1>7. CASE UNCHANGED vars  BY <1>7, Stutters
<1> QED  BY <1>1, <1>2, <1>3, <1>4, <1>5, <1>6, <1>7 DEF Next

LEMMA LifecycleInvariant == Spec => []LifecycleInv
BY LifecycleInitially, LifecyclePreserved, PTL DEF Spec

\* The database is closed after everything that uses it, with any number of
\* connections, callers of Start and callers of Close.
THEOREM StorageLast == Spec => []StorageClosedLast
<1>1. LifecycleInv => StorageClosedLast  BY DEF LifecycleInv, StorageInv, StorageClosedLast
<1> QED  BY <1>1, LifecycleInvariant, PTL

\* A controller that has ended has answered the command it had taken, also one
\* that panicked, and left an error unless Close ended it.
THEOREM EndReported == Spec => []EndIsReported
<1>1. LifecycleInv => EndIsReported  BY DEF LifecycleInv, CommandInv, EndIsReported
<1> QED  BY <1>1, LifecycleInvariant, PTL

\* A node is started and closed once, however many callers race.
THEOREM StartedOnce == Spec => OneShot
<1>1. ASSUME LifecycleInv, [Next]_vars
      PROVE  [/\ Order[lifecycle'] >= Order[lifecycle]
              /\ lifecycle' = "running" /\ lifecycle # "running" => ~stopping
              /\ (\E g \in Closers : pc[g] = "finish" /\ pc'[g] = "returned") => ~closeDone]_vars
  <2>1. (\E g \in Closers : pc[g] = "finish" /\ pc'[g] = "returned") => ~closeDone
    BY <1>1 DEF LifecycleInv, CloseInv
  <2>2. CASE lifecycle' = lifecycle
    <3>1. Order[lifecycle] \in Nat  BY <1>1 DEF LifecycleInv, Places, Order
    <3> QED  BY <2>1, <2>2, <3>1
  <2>3. CASE lifecycle' # lifecycle
    <3>1. \/ lifecycle = "new" /\ lifecycle' = "starting"
          \/ lifecycle = "starting" /\ lifecycle' = "running" /\ ~stopping
          \/ lifecycle # "stopped" /\ lifecycle' = "stopping"
          \/ lifecycle' = "stopped"
      <4>1. CASE \E s \in Starters : Start(s)
        BY <1>1, <2>3, <4>1 DEF LifecycleInv, StartInv, Start, StopIPC, StartBegin, StartRefused, OpenIPC, OpenHTTP,
           StartReturn, StartFail, StartFailed, StopListener, StopServer, AwaitIPC
      <4>2. CASE \E g \in Closers : Close(g)
        BY <2>3, <4>2 DEF Close, StopIPC, CloseBegin, CloseAgain, CloseAwaited, Refuse, Shutdown, CloseStorage,
           CloseReturn, StopListener, StopServer, AwaitIPC
      <4>3. CASE Controller \/ Servers
        BY <2>3, <4>3 DEF Controller, Servers, CommandEnds, CommandPanics, PanicEnds, ControllerStops, RequestStop,
           IPCExits, IPCReports, HTTPCrashes, HTTPReports, ServerStopsNode
      <4>4. ASSUME NEW c \in Callers,
                   \/ Connect(c) \/ Disconnect(c) \/ TakeCommand(c)
                   \/ \E call \in Calls : Call(c, call)
                   \/ ExecuteRefused(c) \/ ContextDone(c) \/ Subscribe(c)
            PROVE  FALSE
        BY <2>3, <4>4 DEF Connect, Disconnect, TakeCommand, Call, ExecuteRefused, ContextDone, Subscribe
      <4>5. CASE \E t \in tasks : TaskEnds(t)  BY <2>3, <4>5 DEF TaskEnds
      <4>6. CASE UNCHANGED vars  BY <2>3, <4>6 DEF vars
      <4> QED  BY <1>1, <4>1, <4>2, <4>3, <4>4, <4>5, <4>6 DEF Next
    <3> QED  BY <1>1, <2>1, <3>1 DEF LifecycleInv, Places, Order
  <2> QED  BY <2>2, <2>3
<1> QED  BY <1>1, LifecycleInvariant, PTL DEF OneShot, Spec

=============================================================================
