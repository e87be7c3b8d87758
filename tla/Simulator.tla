----------------------------- MODULE Simulator -----------------------------
(***************************************************************************)
(* The traffic simulator, cmd/simulator/main.go: the worker pool of the    *)
(* "traffic" scenario with its two channels and two wait groups, and the   *)
(* sequential "order-blacklist" scenario.                                  *)
(*                                                                         *)
(* The service under test answers every request with a result or an error, *)
(* a timeout of the http.Client included; what its blacklist promises is   *)
(* all the second scenario relies on.  Latencies and printing are left     *)
(* out; random draws are nondeterministic.                                 *)
(***************************************************************************)
EXTENDS Integers, Sequences, FiniteSets, FiniteSetsExt

CONSTANTS
    Concurrencies,  \* the values of -concurrency
    Total,          \* -total
    Gateway,        \* the enabled gateways of the service
    AttemptLimits,  \* the values of -max-attempts
    Threshold       \* the order_gateway_failure_threshold the service reports

\* simulatorConfig.validate, and the defaults the service applies.
ASSUME SimulatorAssumption ==
    /\ Concurrencies \subseteq Nat \ {0} /\ AttemptLimits \subseteq Nat \ {0}
    /\ Total \in Nat \ {0} /\ Threshold \in Nat \ {0}
    /\ IsFiniteSet(Gateway)

VARIABLES
    scenario,   \* -scenario
    main,       \* where the main goroutine is
    next,       \* the job it sends next
    jobs,       \* channel: its buffer and whether it is closed
    results,
    worker,     \* what each of the worker goroutines is doing
    agg,        \* the aggregate the collector fills
    order,      \* order-blacklist: the scenario's locals
    served      \* the failures the service has recorded for that order

pool == <<next, jobs, results, worker, agg>>
vars == <<scenario, main, pool, order, served>>

Ended == {"reported", "passed", "exhausted", "selected again", "failed", "panic"}

-----------------------------------------------------------------------------
(* Channels of capacity cfg.concurrency*2.                                 *)

Worker   == DOMAIN worker
Capacity == 2 * Cardinality(Worker)
Open     == [buffer |-> <<>>, closed |-> FALSE]
Room(ch) == Len(ch.buffer) < Capacity
Send(ch, x)  == [ch EXCEPT !.buffer = Append(@, x)]
Receive(ch)  == [ch EXCEPT !.buffer = Tail(@)]
Drained(ch)  == ch.closed /\ ch.buffer = <<>>

(* The results runTransaction can return.                                  *)

InitiateError == [kind |-> "initiateErr"]
Unanswered    == [kind : {"no callback", "callbackErr"}, gateway : Gateway]
Called        == [kind : {"callback"}, gateway : Gateway, success : BOOLEAN,
                  duplicate : BOOLEAN]
Result        == {InitiateError} \cup Unanswered \cup Called

(* aggregate.record keeps two sets of counters: the totals, each of them   *)
(* added to atomically, and the entry of the result's gateway, written in  *)
(* two critical sections.                                                  *)
NoCounters == [initiated |-> 0, callbacks |-> 0, successes |-> 0,
               failures |-> 0, duplicates |-> 0]
NoResults  == [totals |-> NoCounters, initiateErrors |-> 0, callbackErrors |-> 0,
               byGateway |-> [g \in Gateway |-> NoCounters]]

One(condition) == IF condition THEN 1 ELSE 0

\* Where record returns after the first part: no callback was answered.
NoCallback(item) == item.kind \in {"callbackErr", "no callback"}

AddTotals(c, item) ==
    IF NoCallback(item) THEN [c EXCEPT !.initiated = @ + 1]
    ELSE [c EXCEPT !.initiated  = @ + 1,
                   !.callbacks  = @ + 1,
                   !.duplicates = @ + One(item.duplicate),
                   !.successes  = @ + One(item.success),
                   !.failures   = @ + One(~ item.success)]

\* The first critical section, which creates a missing entry.
AddInitiated(entry) == [entry EXCEPT !.initiated = @ + 1]

\* Seeded fault: the duplicate is taken for one callback more.
AddCallbackTwice(entry, item) ==
    LET called == [entry EXCEPT !.callbacks  = @ + 1 + One(item.duplicate),
                                !.duplicates = @ + One(item.duplicate)]
    IN  IF item.success THEN [called EXCEPT !.successes = @ + 1]
                        ELSE [called EXCEPT !.failures = @ + 1]

\* The second one.
AddCallback(entry, item) ==
    LET called == [entry EXCEPT !.callbacks  = @ + 1,
                                !.duplicates = @ + One(item.duplicate)]
    IN  IF item.success THEN [called EXCEPT !.successes = @ + 1]
                        ELSE [called EXCEPT !.failures = @ + 1]

AddToEntry(entry, item) ==
    IF NoCallback(item) THEN AddInitiated(entry)
    ELSE AddCallback(AddInitiated(entry), item)

Recorded(a, item) ==
    IF item = InitiateError THEN [a EXCEPT !.initiateErrors = @ + 1]
    ELSE [totals |-> AddTotals(a.totals, item),
          initiateErrors |-> a.initiateErrors,
          callbackErrors |-> a.callbackErrors + One(item.kind = "callbackErr"),
          byGateway |-> [a.byGateway EXCEPT ![item.gateway] = AddToEntry(@, item)]]

-----------------------------------------------------------------------------
\* Failures of an earlier run of the order-blacklist scenario may remain:
\* it always uses the same order.
Init ==
    /\ scenario \in {"traffic", "order-blacklist"}
    /\ main = "start"
    /\ next = 1
    /\ jobs = Open /\ results = Open
    /\ \E n \in Concurrencies : worker = [w \in 1..n |-> [pc |-> "receive"]]
    /\ agg = NoResults
    /\ \E limit \in AttemptLimits :
         order = [limit |-> limit, attempt |-> 1, gateway |-> {},
                  failures |-> [g \in Gateway |-> 0]]
    /\ served \in [Gateway -> 0..Threshold]
    /\ scenario = "traffic" => served = [g \in Gateway |-> 0]

\* healthCheck, then the scenario asked for.
HealthCheck ==
    /\ main = "start"
    /\ \/ main' = "failed"
       \/ scenario = "traffic" /\ main' = "produce"
       \/ scenario = "order-blacklist" /\ main' = "fetch"
    /\ UNCHANGED <<scenario, pool, order, served>>

Produce ==
    /\ main = "produce" /\ next <= Total /\ Room(jobs)
    /\ jobs' = Send(jobs, next)
    /\ next' = next + 1
    /\ UNCHANGED <<scenario, main, results, worker, agg, order, served>>

\* Seeded fault: the producer stops without closing the channel.
LeaveJobsOpen ==
    /\ main = "produce" /\ next > Total
    /\ main' = "wait workers"
    /\ UNCHANGED <<scenario, pool, order, served>>

CloseJobs ==
    /\ main = "produce" /\ next > Total
    /\ jobs' = [jobs EXCEPT !.closed = TRUE]
    /\ main' = "wait workers"
    /\ UNCHANGED <<scenario, next, results, worker, agg, order, served>>

\* Seeded fault: workers.Wait is forgotten.
CloseResultsAtOnce ==
    /\ main = "wait workers"
    /\ results' = [results EXCEPT !.closed = TRUE]
    /\ main' = "wait collector"
    /\ UNCHANGED <<scenario, next, jobs, worker, agg, order, served>>

CloseResults ==
    /\ main = "wait workers"
    /\ \A w \in Worker : worker[w].pc = "done"
    /\ results' = [results EXCEPT !.closed = TRUE]
    /\ main' = "wait collector"
    /\ UNCHANGED <<scenario, next, jobs, worker, agg, order, served>>

\* Seeded fault: collector.Wait is forgotten.
ReportAtOnce ==
    /\ main = "wait collector"
    /\ main' = "reported"
    /\ UNCHANGED <<scenario, pool, order, served>>

\* The collector's range ends with the drained channel; printClientStats.
Report ==
    /\ main = "wait collector" /\ Drained(results)
    /\ main' = "reported"
    /\ UNCHANGED <<scenario, pool, order, served>>

-----------------------------------------------------------------------------
(* A worker's loop.  The goroutines run once main has created them, and    *)
(* stop with the process.                                                  *)

Running == scenario = "traffic" /\ main \notin Ended \cup {"start"}

ReceiveJob(w) ==
    /\ Running /\ worker[w].pc = "receive" /\ jobs.buffer # <<>>
    /\ jobs' = Receive(jobs)
    /\ worker' = [worker EXCEPT ![w] = [pc |-> "run", job |-> Head(jobs.buffer)]]
    /\ UNCHANGED <<scenario, main, next, results, agg, order, served>>

JobsDrained(w) ==
    /\ Running /\ worker[w].pc = "receive" /\ Drained(jobs)
    /\ worker' = [worker EXCEPT ![w] = [pc |-> "done"]]
    /\ UNCHANGED <<scenario, main, next, jobs, results, agg, order, served>>

\* Its requests touch nothing of the simulator's state.
RunTransaction(w, item) ==
    /\ Running /\ worker[w].pc = "run"
    /\ worker' = [worker EXCEPT ![w] = [pc |-> "send", item |-> item]]
    /\ UNCHANGED <<scenario, main, next, jobs, results, agg, order, served>>

\* A send on a closed channel panics and ends the process.
SendResult(w) ==
    /\ Running /\ worker[w].pc = "send"
    /\ results.closed \/ Room(results)
    /\ main' = IF results.closed THEN "panic" ELSE main
    /\ results' = IF results.closed THEN results ELSE Send(results, worker[w].item)
    /\ worker' = [worker EXCEPT ![w] = [pc |-> "receive"]]
    /\ UNCHANGED <<scenario, next, jobs, agg, order, served>>

Collect ==
    /\ Running /\ results.buffer # <<>>
    /\ agg' = Recorded(agg, Head(results.buffer))
    /\ results' = Receive(results)
    /\ UNCHANGED <<scenario, main, next, jobs, worker, order, served>>

-----------------------------------------------------------------------------
(* runOrderBlacklistScenario.                                              *)

\* The service never offers a gateway that its blacklist excludes; it keeps
\* a failure before it answers the callback, and perhaps one it answers
\* with an error.
Offered == {g \in Gateway : served[g] < Threshold}
RecordFailure(g) == served' = [served EXCEPT ![g] = @ + 1]

Fetch ==
    /\ main = "fetch"
    /\ \/ Cardinality(Gateway) >= 2 /\ main' = "attempt"
       \/ main' = "failed"
    /\ UNCHANGED <<scenario, pool, order, served>>

Attempt ==
    /\ main = "attempt" /\ order.attempt <= order.limit
    /\ \/ \E g \in Offered :
            /\ order' = [order EXCEPT !.gateway = {g}]
            /\ main' = "callback"
       \/ main' = "failed" /\ UNCHANGED order
    /\ UNCHANGED <<scenario, pool, served>>

\* Seeded fault: one failure too many is waited for.
ReachedAbove(failures) == failures > Threshold

Reached(failures) == failures >= Threshold

FailureCallback(g) ==
    /\ main = "callback" /\ order.gateway = {g}
    /\ \/ /\ RecordFailure(g)
          /\ order' = [order EXCEPT !.attempt = @ + 1, !.failures[g] = @ + 1]
          /\ main' = IF Reached(order.failures[g] + 1) THEN "verify" ELSE "attempt"
       \/ /\ RecordFailure(g) \/ UNCHANGED served
          /\ main' = "failed"
          /\ UNCHANGED order
    /\ UNCHANGED <<scenario, pool>>

Exhausted ==
    /\ main = "attempt" /\ order.attempt > order.limit
    /\ main' = "exhausted"
    /\ UNCHANGED <<scenario, pool, order, served>>

VerifyBlacklisted ==
    /\ main = "verify"
    /\ \/ \E g \in Offered :
            main' = IF {g} = order.gateway THEN "selected again" ELSE "passed"
       \/ main' = "failed"
    /\ UNCHANGED <<scenario, pool, order, served>>

-----------------------------------------------------------------------------
Next ==
    \/ HealthCheck \/ Produce \/ CloseJobs \/ CloseResults \/ Report
    \/ \E w \in Worker : ReceiveJob(w) \/ JobsDrained(w) \/ SendResult(w)
    \/ \E w \in Worker, item \in Result : RunTransaction(w, item)
    \/ Collect
    \/ Fetch \/ Attempt \/ Exhausted \/ VerifyBlacklisted
    \/ \E g \in Gateway : FailureCallback(g)

\* The Go scheduler runs a goroutine that can run, and the client's timeout
\* bounds every request.
Spec == Init /\ [][Next]_vars /\ WF_vars(Next)

-----------------------------------------------------------------------------
Busy == {w \in Worker : worker[w].pc \in {"run", "send"}}
Tallied == agg.totals.initiated + agg.initiateErrors

\* No job and no result is lost or counted twice on its way through the two
\* channels and the workers, and when the summary is printed it accounts
\* for every transaction asked for.
NothingLost ==
    /\ next - 1 = Len(jobs.buffer) + Cardinality(Busy) + Len(results.buffer) + Tallied
    /\ main = "reported" => Tallied = Total

\* The summary is consistent: the totals record adds to are the sums of the
\* entries it writes apart from them, whichever of its returns each result
\* takes, and every callback in them succeeded or failed.
TotalsAgree ==
    /\ \A field \in DOMAIN NoCounters :
         agg.totals[field] =
           MapThenSumSet(LAMBDA g : agg.byGateway[g][field], Gateway)
    /\ agg.totals.callbacks = agg.totals.successes + agg.totals.failures

\* No worker ever sends on the results channel after main has closed it.
NoPanic == main # "panic"

\* The order-blacklist scenario never accuses a service that keeps its
\* promise of offering a blacklisted gateway again, it gives up only if
\* the attempts allowed are too few for some gateway to fail often enough,
\* and when it passes the service has indeed blacklisted the gateway.
VerdictSound ==
    /\ main # "selected again"
    /\ main = "exhausted" => order.limit <= Cardinality(Gateway) * (Threshold - 1)
    /\ main = "passed" => \A g \in order.gateway : served[g] >= Threshold

\* Every run of the simulator ends: producer, workers and collector never
\* wait for each other for ever, whichever of the channels is full.
Terminates == <>(main \in Ended)
=============================================================================
