-------------------------- MODULE ProcessLifecycle --------------------------
(***************************************************************************)
(* The serving process: run in cmd/thinkpixelag/main.go over the Server    *)
(* and the readiness flag of internal/adapters/httpserver/server.go.       *)
(*                                                                         *)
(* run opens the pool, starts the evidence exporter, then one goroutine    *)
(* per listener (public, and the mTLS one when configured).  A signal or a *)
(* failing listener makes it shut both servers down, collect what their    *)
(* goroutines return, and unwind its deferred calls.                       *)
(***************************************************************************)
EXTENDS Naturals

CONSTANTS
    Trusted          \* a trusted listener is configured

Server == {"public"} \cup (IF Trusted THEN {"trusted"} ELSE {})

VARIABLES
    main,         \* where run stands
    ctxDone,      \* the process was signalled
    pool,         \* the database pool
    exporter,     \* the evidence worker
    stopWorkers,  \* its own context was cancelled
    ready,        \* Readiness.ready, shared by the servers
    serve,        \* each server's Serve goroutine
    http,         \* each server's http.Server: shutting it down has begun, has returned
    results,      \* number of values in listenResult
    serverCount   \* results still to be collected

processVars == <<main, ctxDone, pool, exporter, stopWorkers, ready, serve, http, results,
                 serverCount>>

ProcessTypeOK ==
    /\ main \in {"startup", "listening", "waiting", "drain", "close", "await", "collect",
                 "unwind", "closePool", "returned"}
    /\ ctxDone \in BOOLEAN /\ stopWorkers \in BOOLEAN /\ ready \in BOOLEAN
    /\ pool \in {"none", "open", "closed"}
    /\ exporter \in {"none", "exporting", "pausing", "done"}
    /\ serve \in [Server -> {"none", "spawned", "marked", "serving", "ended", "returned"}]
    /\ http \in [Server -> {"open", "closing", "shut"}]
    /\ results \in 0..2 /\ serverCount \in 0..2

ProcessInit ==
    /\ main = "startup" /\ ctxDone = FALSE
    /\ pool = "none" /\ exporter = "none" /\ stopWorkers = FALSE
    /\ ready = FALSE
    /\ serve = [s \in Server |-> "none"]
    /\ http = [s \in Server |-> "open"]
    /\ results = 0 /\ serverCount = 0

(* A process that failed to start and has returned.                        *)
ProcessOver ==
    /\ main = "returned" /\ ctxDone = FALSE
    /\ pool = "none" /\ exporter = "none" /\ stopWorkers = TRUE
    /\ ready = FALSE
    /\ serve = [s \in Server |-> "none"]
    /\ http = [s \in Server |-> "open"]
    /\ results = 0 /\ serverCount = 0

-----------------------------------------------------------------------------
(* Settings, logging, metrics, tracing and the pool: a failure returns     *)
(* before or after the pool was opened.                                    *)
OpenPool ==
    /\ main = "startup" /\ pool = "none"
    /\ \/ pool' = "open" /\ UNCHANGED main
       \/ main' = "unwind" /\ UNCHANGED pool
    /\ UNCHANGED <<ctxDone, exporter, stopWorkers, ready, serve, http, results,
                   serverCount>>

(* The routes, the verifier and, when a sink is configured, the exporter.  *)
StartWorkers ==
    /\ main = "startup" /\ pool = "open"
    /\ \/ main' = "listening" /\ exporter' \in {"none", "exporting"}
       \/ main' = "unwind" /\ UNCHANGED exporter
    /\ UNCHANGED <<ctxDone, pool, stopWorkers, ready, serve, http, results,
                   serverCount>>

(* Both ports are bound before any server goroutine starts; a port that    *)
(* cannot be bound returns.                                                *)
Listen ==
    /\ main = "listening"
    /\ \/ /\ main' = "waiting"
          /\ serve' = [s \in Server |-> "spawned"]
          /\ serverCount' = IF Trusted THEN 2 ELSE 1
       \/ main' = "unwind" /\ UNCHANGED <<serve, serverCount>>
    /\ UNCHANGED <<ctxDone, pool, exporter, stopWorkers, ready, http, results>>

Signalled ==
    /\ ~ctxDone
    /\ ctxDone' = TRUE
    /\ UNCHANGED <<main, pool, exporter, stopWorkers, ready, serve, http, results,
                   serverCount>>

-----------------------------------------------------------------------------
(* Server.Serve, in its goroutine.                                         *)
MarkReady(s) ==
    /\ serve[s] = "spawned"
    /\ ready' = TRUE
    /\ serve' = [serve EXCEPT ![s] = "marked"]
    /\ UNCHANGED <<main, ctxDone, pool, exporter, stopWorkers, http, results,
                   serverCount>>

(* http.Server.Serve refuses once Shutdown has begun (ErrServerClosed).    *)
HttpServe(s) ==
    /\ serve[s] = "marked"
    /\ serve' = [serve EXCEPT ![s] = IF http[s] # "open" THEN "ended" ELSE "serving"]
    /\ UNCHANGED <<main, ctxDone, pool, exporter, stopWorkers, ready, http, results,
                   serverCount>>

(* Its accept loop returns: Shutdown closed the listener, or it failed.    *)
ServeEnds(s) ==
    /\ serve[s] = "serving"
    /\ serve' = [serve EXCEPT ![s] = "ended"]
    /\ UNCHANGED <<main, ctxDone, pool, exporter, stopWorkers, ready, http, results,
                   serverCount>>

(* Slip: readiness is only cleared by Shutdown.                            *)
LeaveReadiness == ready' = ready

(* The deferred MarkNotReady.                                              *)
ClearReadiness == ready' = FALSE

(* Then the goroutine sends what Serve returned; the channel has room for  *)
(* both servers.                                                           *)
ServeReturns(s) ==
    /\ serve[s] = "ended"
    /\ ClearReadiness
    /\ serve' = [serve EXCEPT ![s] = "returned"]
    /\ results' = results + 1
    /\ UNCHANGED <<main, ctxDone, pool, exporter, stopWorkers, http, serverCount>>

-----------------------------------------------------------------------------
(* The result taken by the select is not collected again.                  *)
Remaining == serverCount - 1

(* The select on listenResult and ctx.Done.                                *)
StopRequested ==
    /\ main = "waiting"
    /\ \/ /\ results > 0
          /\ results' = results - 1
          /\ serverCount' = Remaining
       \/ ctxDone /\ UNCHANGED <<results, serverCount>>
    /\ main' = "drain"
    /\ UNCHANGED <<ctxDone, pool, exporter, stopWorkers, ready, serve, http>>

(* The public server is shut down first, then the trusted one.             *)
Target == IF http["public"] # "shut" THEN "public" ELSE "trusted"

(* Server.Shutdown: readiness is cleared ...                               *)
Drain ==
    /\ main = "drain"
    /\ ready' = FALSE
    /\ main' = "close"
    /\ UNCHANGED <<ctxDone, pool, exporter, stopWorkers, serve, http, results, serverCount>>

(* ... then the listener is closed ...                                     *)
Close ==
    /\ main = "close"
    /\ http' = [http EXCEPT ![Target] = "closing"]
    /\ main' = "await"
    /\ UNCHANGED <<ctxDone, pool, exporter, stopWorkers, ready, serve, results, serverCount>>

(* ... and the requests in flight end or the deadline both servers share   *)
(* passes.                                                                 *)
Await ==
    /\ main = "await"
    /\ http' = [http EXCEPT ![Target] = "shut"]
    /\ main' = IF \A s \in Server : http'[s] = "shut" THEN "collect" ELSE "drain"
    /\ UNCHANGED <<ctxDone, pool, exporter, stopWorkers, ready, serve, results, serverCount>>

Collect ==
    /\ main = "collect"
    /\ IF serverCount = 0
       THEN main' = "unwind" /\ UNCHANGED <<results, serverCount>>
       ELSE /\ results > 0
            /\ results' = results - 1
            /\ serverCount' = serverCount - 1
            /\ UNCHANGED main
    /\ UNCHANGED <<ctxDone, pool, exporter, stopWorkers, ready, serve, http>>

-----------------------------------------------------------------------------
(* The exporter checks its context before every export and while pausing;  *)
(* an export that is under way ends on its own.                            *)
WorkerCancelled == ctxDone \/ stopWorkers

ExportOne ==
    /\ exporter = "exporting"
    /\ exporter' \in (IF WorkerCancelled THEN {"done"} ELSE {"exporting", "pausing"})
    /\ UNCHANGED <<main, ctxDone, pool, stopWorkers, ready, serve, http, results, serverCount>>

Pause ==
    /\ exporter = "pausing"
    /\ exporter' = IF WorkerCancelled THEN "done" ELSE "exporting"
    /\ UNCHANGED <<main, ctxDone, pool, stopWorkers, ready, serve, http, results, serverCount>>

(* Slip: the wait group is not waited for.                                 *)
WorkersAsked == stopWorkers

(* workers.Wait.                                                           *)
WorkersDone == stopWorkers /\ exporter \in {"none", "done"}

(* The deferred calls, last one first: the workers are stopped and waited  *)
(* for, traces are flushed, and the pool is closed when it was opened.     *)
StopWorkers ==
    /\ main = "unwind" /\ ~stopWorkers
    /\ stopWorkers' = TRUE
    /\ UNCHANGED <<main, ctxDone, pool, exporter, ready, serve, http, results, serverCount>>

WaitWorkers ==
    /\ main = "unwind" /\ WorkersDone
    /\ main' = "closePool"
    /\ UNCHANGED <<ctxDone, pool, exporter, stopWorkers, ready, serve, http, results, serverCount>>

ClosePool ==
    /\ main = "closePool"
    /\ pool' = IF pool = "open" THEN "closed" ELSE pool
    /\ main' = "returned"
    /\ UNCHANGED <<ctxDone, exporter, stopWorkers, ready, serve, http, results, serverCount>>

-----------------------------------------------------------------------------
MainNext ==
    \/ OpenPool \/ StartWorkers \/ Listen \/ StopRequested \/ Drain \/ Close \/ Await \/ Collect
    \/ StopWorkers \/ WaitWorkers \/ ClosePool

ServeNext(s) == MarkReady(s) \/ HttpServe(s) \/ ServeReturns(s)

WorkerNext == ExportOne \/ Pause

ProcessNext ==
    \/ MainNext \/ WorkerNext \/ Signalled
    \/ \E s \in Server : ServeNext(s) \/ ServeEnds(s)

(* The scheduler runs every goroutine that can run, and an accept loop     *)
(* whose listener was closed returns.  Nothing forces a signal or a        *)
(* failure.                                                                *)
ProcessFairness ==
    /\ WF_processVars(MainNext)
    /\ WF_processVars(WorkerNext)
    /\ \A s \in Server :
          /\ WF_processVars(ServeNext(s))
          /\ WF_processVars(http[s] # "open" /\ ServeEnds(s))

-----------------------------------------------------------------------------
(* The pool outlives its users: when it is closed the exporter has ended   *)
(* and no listener accepts requests, on every way out of run.              *)
PoolClosedLast ==
    pool = "closed" =>
        /\ exporter \in {"none", "done"}
        /\ \A s \in Server : serve[s] \in {"none", "returned"}

(* Stopping always completes: after a signal, or once a listener failed,   *)
(* run returns, whatever the goroutines were doing, and the process        *)
(* reports itself not ready from then on, although a goroutine that starts *)
(* late may have set the flag again meanwhile.                             *)
StopCompletes ==
    ctxDone \/ results > 0 ~> [](main = "returned" /\ ~ready)

=============================================================================
