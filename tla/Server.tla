------------------------------ MODULE Server ------------------------------
(***************************************************************************)
(* The life of a process (cmd/payment-gateway-router/main.go): start-up,   *)
(* the goroutine that serves HTTP, the configuration watcher of            *)
(* ConfigReload, and the graceful shutdown that a signal or the failure of *)
(* the listener begins, with its deferred calls in their order.            *)
(*                                                                         *)
(* A handler is reduced to what shutdown can do to it: it is in progress,  *)
(* and it needs the store to finish.  http.Server is external.             *)
(***************************************************************************)
EXTENDS ConfigReload

CONSTANT Request   \* the HTTP requests clients send

VARIABLES
    main,       \* where main is
    backend,    \* runtimeConfig.StateBackend
    store,      \* the Redis connection pool
    cancelled,  \* ctx is done
    listener,   \* the goroutine of ListenAndServe
    request,    \* each request
    watching,   \* the goroutine of Watch has not returned
    caught,     \* NotifyContext receives the signals; they do not kill
    timedOut,   \* history: Shutdown returned at its deadline
    killed      \* history: a signal that was not caught ended the process

config  == <<file, current, modTime, pc, data, mtime, valid, crossed>>
history == <<timedOut, killed>>
process == <<main, backend, store, cancelled, listener, request, watching, caught,
             history>>
serverVars == <<config, process>>

Up == main # "exited"

\* The configuration file is valid at start-up in Init of ConfigReload.
ServerInit ==
    /\ Init
    /\ main = "start"
    /\ backend \in {"memory", "redis"}
    /\ store = "closed"
    /\ cancelled = FALSE
    /\ listener = "off"
    /\ request = [r \in Request |-> "unsent"]
    /\ watching = FALSE
    /\ caught = FALSE
    /\ timedOut = FALSE /\ killed = FALSE

-----------------------------------------------------------------------------
(* main.                                                                   *)

\* What a process leaves when it is gone: requests in progress break off.
Gone ==
    /\ main' = "exited"
    /\ request' = [r \in Request |->
                     IF request[r] = "handling" THEN "broken" ELSE request[r]]
    /\ watching' = FALSE
    /\ UNCHANGED <<backend, store, cancelled, listener, caught, timedOut>>
Exit == Gone /\ UNCHANGED killed

\* LoadRuntimeConfig and NewFileProvider; os.Exit(1) on an error.  The
\* watcher starts; signals are caught from here on.
Start ==
    /\ main = "start"
    /\ \/ main' = "connect" /\ watching' = TRUE /\ caught' = TRUE
          /\ UNCHANGED <<backend, store, cancelled, listener, request, history>>
       \/ Exit
    /\ UNCHANGED config

\* Redis must answer a Ping, which a cancelled context fails.
Connect ==
    /\ main = "connect"
    /\ \/ /\ backend = "redis" => ~cancelled
          /\ store' = IF backend = "redis" THEN "open" ELSE store
          /\ main' = "serve"
          /\ UNCHANGED <<backend, cancelled, listener, request, watching, caught,
                         history>>
       \/ backend = "redis" /\ Exit
    /\ UNCHANGED config

\* Seeded fault: stop is called before the drain, so that a second signal kills.
ShutdownStops ==
    /\ main = "serve" /\ cancelled
    /\ main' = "drain"
    /\ listener' = IF listener = "failed" THEN listener ELSE "closed"
    /\ caught' = FALSE
    /\ UNCHANGED <<config, backend, store, cancelled, request, watching, history>>

\* <-ctx.Done(), then Shutdown closes the listener, if it has not failed,
\* before it waits.
Shutdown ==
    /\ main = "serve" /\ cancelled
    /\ main' = "drain"
    /\ listener' = IF listener = "failed" THEN listener ELSE "closed"
    /\ UNCHANGED <<config, backend, store, cancelled, request, watching, caught,
                   history>>

Idle == \A r \in Request : request[r] # "handling"

\* Seeded fault: the process does not wait for the handlers.
DrainAtOnce ==
    /\ main = "drain"
    /\ main' = "close"
    /\ UNCHANGED <<config, backend, store, cancelled, listener, request,
                   watching, caught, history>>

Drain ==
    /\ main = "drain" /\ Idle
    /\ main' = "close"
    /\ UNCHANGED <<config, backend, store, cancelled, listener, request,
                   watching, caught, history>>

\* The ten seconds of shutdownCtx are over.
DrainTimeout ==
    /\ main = "drain" /\ ~Idle
    /\ main' = "close"
    /\ timedOut' = TRUE
    /\ UNCHANGED <<config, backend, store, cancelled, listener, request, watching,
                   caught, killed>>

\* The deferred redisStore.Close, while a handler may still run.  The
\* deferred stop comes after it; a signal then ends what Return ends.
CloseStore ==
    /\ main = "close"
    /\ store' = "closed"
    /\ main' = "return"
    /\ UNCHANGED <<config, backend, cancelled, listener, request, watching, caught,
                   history>>

Return == main = "return" /\ Exit /\ UNCHANGED config

Main == Start \/ Connect \/ Shutdown \/ Drain \/ DrainTimeout \/ CloseStore \/ Return

-----------------------------------------------------------------------------
(* The goroutine that serves, the handlers, and the outside.               *)

\* ListenAndServe binds the port, unless Shutdown came first.
Listen ==
    /\ main = "serve" /\ listener = "off"
    /\ listener' = "open"
    /\ UNCHANGED <<config, main, backend, store, cancelled, request, watching,
                   caught, history>>

\* It returns another error than ErrServerClosed.
ListenFails ==
    /\ main = "serve" /\ listener \in {"off", "open"}
    /\ listener' = "failed"
    /\ UNCHANGED <<config, main, backend, store, cancelled, request, watching,
                   caught, history>>

\* Seeded fault: the signals are given up, and ctx is not cancelled.
StopOnlySignals ==
    /\ Up /\ listener = "failed" /\ caught
    /\ caught' = FALSE
    /\ UNCHANGED <<config, main, backend, store, cancelled, listener, request,
                   watching, history>>

\* The serving goroutine's stop, after the error was logged: ctx is done,
\* and a signal again does what it does to a process that catches none.
StopSignals ==
    /\ Up /\ listener = "failed" /\ caught
    /\ caught' = FALSE
    /\ cancelled' = TRUE
    /\ UNCHANGED <<config, main, backend, store, listener, request, watching,
                   history>>

Accept(r) ==
    /\ Up /\ listener = "open" /\ request[r] = "unsent"
    /\ request' = [request EXCEPT ![r] = "handling"]
    /\ UNCHANGED <<config, main, backend, store, cancelled, listener, watching,
                   caught, history>>

\* The handler's last use of the store and its answer.
Answer(r) ==
    /\ Up /\ request[r] = "handling"
    /\ request' = [request EXCEPT ![r] =
         IF backend = "redis" /\ store = "closed" THEN "broken" ELSE "answered"]
    /\ UNCHANGED <<config, main, backend, store, cancelled, listener, watching,
                   caught, history>>

\* SIGINT or SIGTERM while NotifyContext receives them; a second one changes
\* nothing.
Signal ==
    /\ Up /\ caught /\ ~cancelled
    /\ cancelled' = TRUE
    /\ UNCHANGED <<config, main, backend, store, listener, request, watching,
                   caught, history>>

\* SIGINT or SIGTERM before NotifyContext, or after stop: the process dies.
SignalKills == Up /\ ~caught /\ Gone /\ killed' = TRUE /\ UNCHANGED config

\* Watch: between two polls it may find ctx done, or the ticker first.
WatchReturns ==
    /\ watching /\ cancelled /\ pc = "idle"
    /\ watching' = FALSE
    /\ UNCHANGED <<config, main, backend, store, cancelled, listener, request,
                   caught, history>>

Watch == watching /\ Watcher /\ UNCHANGED process
Edit  == (Remove \/ \E ok \in BOOLEAN : Write(ok)) /\ UNCHANGED process

ServerNext ==
    \/ Start \/ Connect \/ Shutdown \/ Drain \/ DrainTimeout \/ CloseStore \/ Return
    \/ Listen \/ ListenFails \/ StopSignals \/ Signal \/ SignalKills \/ WatchReturns
    \/ \E r \in Request : Accept(r) \/ Answer(r)
    \/ Watch \/ Edit

\* main is never blocked but on ctx.Done and, for ten seconds, on handlers;
\* the serving goroutine runs on when ListenAndServe has returned; the ticker
\* keeps firing.
ServerSpec ==
    /\ ServerInit /\ [][ServerNext]_serverVars
    /\ WF_serverVars(Main) /\ WF_serverVars(StopSignals) /\ WF_serverVars(Watch)

-----------------------------------------------------------------------------
\* A request is broken off, by the exit or by closing the store under it,
\* only if the ten seconds of the drain were too few, or if the listener had
\* failed and a signal came after the stop of its goroutine.  In particular
\* a process that signals alone shut down, however many of them arrive,
\* breaks nothing off in time.
CleanDrain ==
    (\E r \in Request : request[r] = "broken") =>
        timedOut \/ (killed /\ listener = "failed")

\* What a request meets in each phase of main: connections are accepted only
\* while main serves, the store is open to every handler until the drain is
\* over, and a handler outlives the drain only if its deadline came first.
\* While main runs, signals are caught unless the listener has failed.
PhasesInOrder ==
    /\ main \in {"start", "connect", "serve", "drain", "close", "return", "exited"}
    /\ request \in [Request -> {"unsent", "handling", "answered", "broken"}]
    /\ listener = "open" => main = "serve"
    /\ backend = "redis" /\ main \in {"serve", "drain", "close"} => store = "open"
    /\ \A r \in Request : request[r] = "handling" =>
         \/ main \in {"serve", "drain"}
         \/ main \in {"close", "return"} /\ timedOut
    /\ ~caught => main \in {"start", "exited"} \/ listener = "failed"

\* The inductive invariant of the process: what the file holds and says to be
\* valid was recorded as valid, and the phases above.
ServerInv ==
    /\ ServesValid
    /\ file.valid => file.content \in valid
    /\ PhasesInOrder
    /\ CleanDrain

\* Once a signal arrives, or the listener fails, the process ends, whatever
\* its requests do.
Stops == cancelled \/ listener = "failed" ~> main = "exited"

\* While the process serves, a valid write that does not fall between
\* ReadFile and the second Stat of a reload is served, unless the file
\* changes again first.
ServingEditApplied ==
    \A v \in Version :
        /\ main = "serve" /\ file.content = v /\ file.valid /\ file.exists
        /\ ~crossed
        ~> Served(v) \/ cancelled
=============================================================================
