------------------------------ MODULE Lifecycle ------------------------------
(***************************************************************************)
(* The process of cmd/app/main.go: it connects, serves, and on a signal or *)
(* a dead listener drains the HTTP server for at most ShutdownTimeout and  *)
(* then closes storage and locker under whatever is still running.  The    *)
(* main goroutine, the listener and the handlers run side by side.         *)
(***************************************************************************)
CONSTANT Req     \* requests, each handled by a goroutine of its own

VARIABLES
    main,        \* where the main goroutine stands
    listening,   \* the listener accepts connections
    storage, locker,  \* the connection pools: "none", "open" or "closed"
    handler,     \* each request
    timedOut     \* Shutdown returned because its context expired

vars == <<main, listening, storage, locker, handler, timedOut>>

Main == {"open_storage", "open_locker", "serve", "select", "shutdown", "drain",
         "close_storage", "close_locker", "exit"}

\* "done": answered; "failed": answered 500, a pool was closed under it; "cut":
\* the process ended first.
Handler == {"none", "running", "done", "failed", "cut"}

TypeOK ==
    /\ main \in Main
    /\ listening \in BOOLEAN
    /\ storage \in {"none", "open", "closed"} /\ locker \in {"none", "open", "closed"}
    /\ handler \in [Req -> Handler]
    /\ timedOut \in BOOLEAN

Init ==
    /\ main = "open_storage"
    /\ listening = FALSE
    /\ storage = "none" /\ locker = "none"
    /\ handler = [r \in Req |-> "none"]
    /\ timedOut = FALSE

-----------------------------------------------------------------------------
(* Start.  os.Exit runs no deferred call and closes nothing.               *)

OpenStorage ==
    /\ main = "open_storage"
    /\ \/ main' = "open_locker" /\ storage' = "open"
       \/ main' = "exit" /\ UNCHANGED storage
    /\ UNCHANGED <<listening, locker, handler, timedOut>>

\* The Ping of Redis may fail.
OpenLocker ==
    /\ main = "open_locker"
    /\ \/ main' = "serve" /\ locker' = "open"
       \/ main' = "exit" /\ UNCHANGED locker
    /\ UNCHANGED <<listening, storage, handler, timedOut>>

\* go ListenAndServe; it may also fail to bind.
Serve ==
    /\ main = "serve"
    /\ main' = "select"
    /\ listening' \in BOOLEAN
    /\ UNCHANGED <<storage, locker, handler, timedOut>>

-----------------------------------------------------------------------------
(* Handlers.                                                               *)

Accept(r) ==
    /\ listening
    /\ handler[r] = "none"
    /\ handler' = [handler EXCEPT ![r] = "running"]
    /\ UNCHANGED <<main, listening, storage, locker, timedOut>>

Complete(r) ==
    /\ main # "exit"
    /\ handler[r] = "running"
    /\ \/ handler' = [handler EXCEPT ![r] = "done"]
       \/ /\ storage = "closed" \/ locker = "closed"
          /\ handler' = [handler EXCEPT ![r] = "failed"]
    /\ UNCHANGED <<main, listening, storage, locker, timedOut>>

-----------------------------------------------------------------------------
(* Stop.                                                                   *)

\* The listener dies by itself; the requests it has accepted go on.
ListenerFails ==
    /\ main = "select" /\ listening
    /\ listening' = FALSE
    /\ UNCHANGED <<main, storage, locker, handler, timedOut>>

\* SIGINT or SIGTERM, or the error of ListenAndServe.
StopRequested ==
    /\ main = "select"
    /\ main' = "shutdown"
    /\ UNCHANGED <<listening, storage, locker, handler, timedOut>>

\* Mutant: the listener stays open while the server drains.
CloseListenerLater ==
    /\ main = "shutdown"
    /\ main' = "drain"
    /\ UNCHANGED <<listening, storage, locker, handler, timedOut>>

\* serv.Shutdown closes the listeners before it waits.
CloseListener ==
    /\ main = "shutdown"
    /\ main' = "drain"
    /\ listening' = FALSE
    /\ UNCHANGED <<storage, locker, handler, timedOut>>

\* Mutant: serv.Close instead of serv.Shutdown.
DrainNobody ==
    /\ main = "drain"
    /\ main' = "close_storage"
    /\ UNCHANGED <<listening, storage, locker, handler, timedOut>>

\* Mutant: Shutdown is given a context without a timeout.
DrainForEver ==
    /\ main = "drain"
    /\ \A r \in Req : handler[r] # "running"
    /\ main' = "close_storage"
    /\ UNCHANGED <<listening, storage, locker, handler, timedOut>>

\* It returns when no handler runs, or when ShutdownTimeout is over.
Drain ==
    /\ main = "drain"
    /\ main' = "close_storage"
    /\ timedOut' = \E r \in Req : handler[r] = "running"
    /\ UNCHANGED <<listening, storage, locker, handler>>

CloseStorage ==
    /\ main = "close_storage"
    /\ storage' = "closed"
    /\ main' = "close_locker"
    /\ UNCHANGED <<listening, locker, handler, timedOut>>

\* The last call of main: what still runs ends with the process.
CloseLocker ==
    /\ main = "close_locker"
    /\ locker' = "closed"
    /\ main' = "exit"
    /\ handler' = [r \in Req |-> IF handler[r] = "running" THEN "cut" ELSE handler[r]]
    /\ UNCHANGED <<listening, storage, timedOut>>

-----------------------------------------------------------------------------
Stop == CloseListener \/ Drain \/ CloseStorage \/ CloseLocker

MainStep ==
    \/ OpenStorage \/ OpenLocker \/ Serve \/ Stop
    \/ ListenerFails \/ StopRequested

Next == MainStep \/ \E r \in Req : Accept(r) \/ Complete(r)

Spec == Init /\ [][Next]_vars

\* The main goroutine runs on: each of its steps ends by itself or by a
\* timeout, and the error of a dead listener is in its channel.  Nothing makes
\* a handler end, a client call or a signal come.
FairSpec == Spec /\ WF_vars(Stop) /\ WF_vars(StopRequested /\ ~listening)

-----------------------------------------------------------------------------
(* Properties                                                              *)

\* Graceful shutdown: an accepted request loses its pools or its process only
\* after the shutdown timeout.
NobodyCutInTime ==
    \A r \in Req : handler[r] \in {"failed", "cut"} => timedOut

\* Why: connections come only while both pools are open, and once the drain is
\* over without a timeout nobody runs.
ServesWithPools ==
    /\ main \in {"open_storage", "open_locker", "serve"} =>
           ~listening /\ \A r \in Req : handler[r] # "running"
    /\ main \in {"serve", "select", "shutdown", "drain"} => locker = "open"
    /\ main \in {"open_locker", "serve", "select", "shutdown", "drain"} => storage = "open"

DrainedInTime ==
    /\ main \in {"drain", "close_storage", "close_locker", "exit"} => ~listening
    /\ timedOut => main \in {"close_storage", "close_locker", "exit"}
    /\ main \in {"close_storage", "close_locker", "exit"} /\ ~timedOut =>
           \A r \in Req : handler[r] # "running"

\* The four together are inductive.
LifecycleInv == TypeOK /\ ServesWithPools /\ DrainedInTime /\ NobodyCutInTime

\* A process that was told to stop, or has lost its listener, stops, whatever
\* its handlers do.
StopsWhenTold ==
    main = "shutdown" \/ (main = "select" /\ ~listening) ~> main = "exit"

=============================================================================
