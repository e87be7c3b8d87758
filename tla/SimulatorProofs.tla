--------------------------- MODULE SimulatorProofs ---------------------------
(***************************************************************************)
(* Proofs about the traffic simulator, for every number of workers,        *)
(* transactions, gateways and attempts and every threshold.                *)
(***************************************************************************)
EXTENDS Simulator, FiniteSetTheorems, SequenceTheorems, WellFoundedInduction, TLAPS

Counters == [initiated : Nat, callbacks : Nat, successes : Nat,
             failures : Nat, duplicates : Nat]
Aggregate == [totals : Counters, initiateErrors : Nat, callbackErrors : Nat,
              byGateway : [Gateway -> Counters]]

(* The pool: the types of its channels, workers and totals.                *)
PoolType ==
    /\ IsFiniteSet(Worker) /\ Worker # {}
    /\ worker = [w \in Worker |-> worker[w]]
    /\ \A w \in Worker :
         /\ worker[w].pc \in {"receive", "run", "send", "done"}
         /\ worker[w].pc = "send" => worker[w].item \in Result
    /\ next \in Nat
    /\ jobs \in [buffer : Seq(Nat), closed : BOOLEAN]
    /\ results \in [buffer : Seq(Result), closed : BOOLEAN]
    /\ agg \in Aggregate

(* The order in which main closes the channels and waits: a channel is     *)
(* closed when nothing more is sent on it, and a worker leaves its loop    *)
(* only when there is no job left and none to come.                        *)
PoolInOrder ==
    /\ main \in {"start", "produce"} => ~ jobs.closed /\ next <= Total + 1
    /\ main \in {"wait workers", "wait collector", "reported"} => next = Total + 1
    /\ \A w \in Worker : worker[w].pc = "done" => Drained(jobs)
    /\ results.closed => \A w \in Worker : worker[w].pc = "done"
    /\ main \in {"wait collector", "reported"} => results.closed
    /\ main = "reported" => results.buffer = <<>>
    /\ NoPanic

Conserved ==
    next - 1 = Len(jobs.buffer) + Cardinality(Busy) + Len(results.buffer) + Tallied

PoolInv == PoolType /\ PoolInOrder /\ Conserved

-----------------------------------------------------------------------------
(* What record adds to each counter of a result that was initiated.        *)
Added(field, item) ==
    CASE field = "initiated"  -> 1
      [] field = "callbacks"  -> One(~ NoCallback(item))
      [] field = "duplicates" -> One(~ NoCallback(item) /\ item.duplicate)
      [] field = "successes"  -> One(~ NoCallback(item) /\ item.success)
      [] field = "failures"   -> One(~ NoCallback(item) /\ ~ item.success)

Fields == {"initiated", "callbacks", "successes", "failures", "duplicates"}

(* It adds to a counter one or nothing.                                    *)
LEMMA AddedFact ==
    ASSUME NEW item, NEW field \in Fields
    PROVE  Added(field, item) \in {0, 1}
BY DEF Added, Fields, One

(* The atomic totals.                                                      *)
LEMMA TotalsFact ==
    ASSUME NEW c \in Counters, NEW item
    PROVE  /\ AddTotals(c, item) \in Counters
           /\ \A field \in Fields :
                AddTotals(c, item)[field] = c[field] + Added(field, item)
<1>1. CASE NoCallback(item)
  BY <1>1 DEF AddTotals, Added, One, Counters, Fields
<1>2. CASE ~ NoCallback(item)
  <2> DEFINE x == One(item.duplicate)
             y == One(item.success)
             z == One(~ item.success)
  <2>1. x \in Nat /\ y \in Nat /\ z \in Nat
    BY DEF One
  <2>2. AddTotals(c, item) =
          [c EXCEPT !.initiated = c.initiated + 1, !.callbacks = c.callbacks + 1,
                    !.duplicates = c.duplicates + x, !.successes = c.successes + y,
                    !.failures = c.failures + z]
    BY <1>2 DEF AddTotals
  <2>3. /\ Added("initiated", item) = 1 /\ Added("callbacks", item) = 1
        /\ Added("duplicates", item) = x /\ Added("successes", item) = y
        /\ Added("failures", item) = z
    BY <1>2 DEF Added, One
  <2> HIDE DEF x, y, z
  <2>4. AddTotals(c, item) \in Counters
    <3>1. /\ c.initiated + 1 \in Nat /\ c.callbacks + 1 \in Nat
          /\ c.duplicates + x \in Nat /\ c.successes + y \in Nat
          /\ c.failures + z \in Nat
      BY <2>1 DEF Counters
    <3>2. AddTotals(c, item) =
            [initiated |-> c.initiated + 1, callbacks |-> c.callbacks + 1,
             successes |-> c.successes + y, failures |-> c.failures + z,
             duplicates |-> c.duplicates + x]
      BY <2>2 DEF Counters
    <3>3. QED
      BY <3>1, <3>2 DEF Counters
  <2>5. /\ AddTotals(c, item).initiated = c.initiated + 1
        /\ AddTotals(c, item).callbacks = c.callbacks + 1
        /\ AddTotals(c, item).duplicates = c.duplicates + x
        /\ AddTotals(c, item).successes = c.successes + y
        /\ AddTotals(c, item).failures = c.failures + z
    BY <2>2 DEF Counters
  <2>6. QED
    BY <2>3, <2>4, <2>5 DEF Fields
<1>3. QED
  BY <1>1, <1>2

(* The entry of a gateway, through its two critical sections.              *)
LEMMA EntryFact ==
    ASSUME NEW c \in Counters, NEW item
    PROVE  /\ AddToEntry(c, item) \in Counters
           /\ \A field \in Fields :
                AddToEntry(c, item)[field] = c[field] + Added(field, item)
<1>0. /\ AddInitiated(c) \in Counters /\ AddInitiated(c).initiated = c.initiated + 1
      /\ \A field \in Fields \ {"initiated"} : AddInitiated(c)[field] = c[field]
  BY DEF AddInitiated, Counters, Fields
<1>1. CASE NoCallback(item)
  BY <1>0, <1>1 DEF AddToEntry, Added, One, Counters, Fields
<1>2. CASE ~ NoCallback(item)
  <2> DEFINE e == AddInitiated(c)
             x == One(item.duplicate)
             d == [e EXCEPT !.callbacks = e.callbacks + 1,
                            !.duplicates = e.duplicates + x]
  <2>1. x \in Nat
    BY DEF One
  <2>2. /\ d \in Counters /\ d.initiated = c.initiated + 1
        /\ d.callbacks = c.callbacks + 1
        /\ d.duplicates = c.duplicates + x
        /\ d.successes = c.successes /\ d.failures = c.failures
    <3> HIDE DEF e, x
    <3>1. /\ e \in Counters /\ e.initiated = c.initiated + 1
          /\ e.callbacks = c.callbacks /\ e.duplicates = c.duplicates
          /\ e.successes = c.successes /\ e.failures = c.failures
      BY <1>0 DEF e, Fields
    <3>2. e.callbacks + 1 \in Nat /\ e.duplicates + x \in Nat
      BY <2>1, <3>1 DEF Counters
    <3>3. d \in Counters
      BY <3>1, <3>2, Zenon DEF Counters
    <3>4. /\ d.callbacks = e.callbacks + 1 /\ d.duplicates = e.duplicates + x
          /\ d.initiated = e.initiated /\ d.successes = e.successes
          /\ d.failures = e.failures
      BY <3>1 DEF Counters
    <3> HIDE DEF d
    <3>5. QED
      BY <3>1, <3>3, <3>4
  <2>3. AddToEntry(c, item) = IF item.success THEN [d EXCEPT !.successes = @ + 1]
                                              ELSE [d EXCEPT !.failures = @ + 1]
    BY <1>2 DEF AddToEntry, AddCallback
  <2> HIDE DEF d
  <2>4. /\ Added("initiated", item) = 1 /\ Added("callbacks", item) = 1
        /\ Added("duplicates", item) = x
        /\ Added("successes", item) = IF item.success THEN 1 ELSE 0
        /\ Added("failures", item) = IF item.success THEN 0 ELSE 1
    BY <1>2 DEF Added, One
  <2> HIDE DEF x
  <2>5. CASE item.success
    BY <2>2, <2>3, <2>4, <2>5 DEF Counters, Fields
  <2>6. CASE ~ item.success
    BY <2>2, <2>3, <2>4, <2>6 DEF Counters, Fields
  <2>7. QED
    BY <2>5, <2>6
<1>3. QED
  BY <1>1, <1>2

(* aggregate.record counts one transaction more, whatever the result.      *)
LEMMA RecordedFact ==
    ASSUME NEW a \in Aggregate, NEW item \in Result
    PROVE  /\ Recorded(a, item) \in Aggregate
           /\ Recorded(a, item).totals.initiated + Recorded(a, item).initiateErrors
                = a.totals.initiated + a.initiateErrors + 1
<1>1. CASE item = InitiateError
  <2>1. Recorded(a, item) = [a EXCEPT !.initiateErrors = @ + 1]
    BY <1>1 DEF Recorded
  <2>2. QED
    BY <2>1 DEF Aggregate, Counters
<1>2. CASE item # InitiateError
  <2> DEFINE g == item.gateway
             t == AddTotals(a.totals, item)
             b == AddToEntry(a.byGateway[g], item)
             e == One(item.kind = "callbackErr")
             n == [totals |-> t, initiateErrors |-> a.initiateErrors,
                   callbackErrors |-> a.callbackErrors + e,
                   byGateway |-> [a.byGateway EXCEPT ![g] = b]]
  <2>1. g \in Gateway
    BY <1>2 DEF Result, Unanswered, Called
  <2>2. a.totals \in Counters /\ a.byGateway \in [Gateway -> Counters]
    BY DEF Aggregate
  <2>3. t \in Counters /\ t.initiated = a.totals.initiated + 1
    <3>1. "initiated" \in Fields /\ Added("initiated", item) = 1
      BY DEF Fields, Added
    <3>2. QED
      BY <2>2, <3>1, TotalsFact
  <2>4. b \in Counters
    BY <2>1, <2>2, EntryFact
  <2>5. e \in Nat
    BY DEF One
  <2>6. Recorded(a, item) = n
    BY <1>2 DEF Recorded
  <2> HIDE DEF g, t, b, e
  <2>7. n \in Aggregate
    <3>1. [a.byGateway EXCEPT ![g] = b] \in [Gateway -> Counters]
      BY <2>1, <2>2, <2>4
    <3>2. a.initiateErrors \in Nat /\ a.callbackErrors + e \in Nat
      BY <2>5 DEF Aggregate
    <3>3. QED
      BY <2>3, <3>1, <3>2 DEF Aggregate
  <2>8. n.totals = t /\ n.initiateErrors = a.initiateErrors
    OBVIOUS
  <2> HIDE DEF n
  <2>9. a.totals.initiated \in Nat /\ a.initiateErrors \in Nat
    BY DEF Aggregate, Counters
  <2>10. QED
    BY <2>3, <2>6, <2>7, <2>8, <2>9
<1>3. QED
  BY <1>1, <1>2

-----------------------------------------------------------------------------
(* Init establishes the invariant: the channels are empty and every worker *)
(* waits for a job.                                                        *)
LEMMA PoolInit == Init => PoolInv
<1> SUFFICES ASSUME Init PROVE PoolInv
  OBVIOUS
<1>1. PICK n \in Nat \ {0} : worker = [w \in 1..n |-> [pc |-> "receive"]]
  BY SimulatorAssumption DEF Init
<1>2. Worker = 1..n
  BY <1>1 DEF Worker
<1>3. IsFiniteSet(Worker) /\ Worker # {}
  <2>1. 1 \in 1..n
    OBVIOUS
  <2>2. IsFiniteSet(1..n)
    BY FS_Interval
  <2>3. QED
    BY <1>2, <2>1, <2>2
<1>4. Busy = {}
  BY <1>1, <1>2 DEF Busy
<1>5. agg \in Aggregate
  BY DEF Init, NoResults, NoCounters, Aggregate, Counters
<1>6. PoolType
  <2>1. jobs \in [buffer : Seq(Nat), closed : BOOLEAN] /\ next \in Nat
    BY DEF Init, Open
  <2>2. results \in [buffer : Seq(Result), closed : BOOLEAN]
    BY DEF Init, Open
  <2>3. worker = [w \in Worker |-> worker[w]]
    BY <1>1, <1>2
  <2>4. \A w \in Worker : worker[w].pc = "receive"
    BY <1>1, <1>2
  <2>5. QED
    BY <1>3, <1>5, <2>1, <2>2, <2>3, <2>4 DEF PoolType
<1>7. PoolInOrder
  BY <1>1, <1>2, SimulatorAssumption DEF PoolInOrder, Init, Open, NoPanic
<1>8. Conserved
  BY <1>4, FS_EmptySet DEF Conserved, Tallied, Init, Open, NoResults, NoCounters
<1>9. QED
  BY <1>6, <1>7, <1>8 DEF PoolInv
-----------------------------------------------------------------------------
(* One worker moves: the number of the busy ones changes by at most one,   *)
(* as its own change of state says.                                        *)
LEMMA BusyStep ==
    ASSUME PoolType, NEW w \in Worker, NEW v,
           worker' = [worker EXCEPT ![w] = v],
           v.pc \in {"receive", "run", "send", "done"},
           v.pc = "send" => v.item \in Result
    PROVE  /\ Worker' = Worker
           /\ \A u \in Worker : worker'[u] = IF u = w THEN v ELSE worker[u]
           /\ (worker = [u \in Worker |-> worker[u]])'
           /\ \A u \in Worker : /\ worker'[u].pc \in {"receive", "run", "send", "done"}
                                /\ worker'[u].pc = "send" => worker'[u].item \in Result
           /\ Cardinality(Busy) \in Nat /\ Cardinality(Busy') \in Nat
           /\ Cardinality(Busy') =
                Cardinality(Busy) + One(v.pc \in {"run", "send"}) - One(w \in Busy)
<1>1. /\ Worker' = Worker
      /\ \A u \in Worker : worker'[u] = IF u = w THEN v ELSE worker[u]
      /\ (worker = [u \in Worker |-> worker[u]])'
  BY DEF PoolType, Worker
<1>2. IsFiniteSet(Busy)
  BY FS_Subset DEF PoolType, Busy
<1>3. Cardinality(Busy) \in Nat
  BY <1>2, FS_CardinalityType
<1>4. CASE v.pc \in {"run", "send"}
  <2>1. Busy' = Busy \cup {w}
    BY <1>1, <1>4 DEF Busy
  <2>2. Cardinality(Busy') = IF w \in Busy THEN Cardinality(Busy) ELSE Cardinality(Busy) + 1
    BY <1>2, <2>1, FS_AddElement
  <2>3. QED
    BY <1>1, <1>3, <1>4, <2>2 DEF One, PoolType
<1>5. CASE v.pc \notin {"run", "send"}
  <2>1. Busy' = Busy \ {w}
    BY <1>1, <1>5 DEF Busy
  <2>2. /\ Cardinality(Busy') = IF w \in Busy THEN Cardinality(Busy) - 1 ELSE Cardinality(Busy)
        /\ Cardinality(Busy') \in Nat
    BY <1>2, <2>1, FS_RemoveElement, FS_CardinalityType
  <2>3. QED
    BY <1>1, <1>3, <1>5, <2>2 DEF One, PoolType
<1>6. QED
  BY <1>4, <1>5

(* Steps that change neither channels nor workers nor totals leave the     *)
(* types and the balance as they are.                                      *)
LEMMA PoolFrame ==
    ASSUME PoolType, Conserved, UNCHANGED pool
    PROVE  PoolType' /\ Conserved'
<1>1. Worker' = Worker /\ Busy' = Busy /\ Tallied' = Tallied
  BY DEF pool, Worker, Busy, Tallied
<1>2. PoolType'
  BY <1>1 DEF PoolType, pool
<1>3. QED
  BY <1>1, <1>2 DEF Conserved, pool

(* What leaves one place on the way from producer to summary arrives at    *)
(* the next: a job is sent, a result is sent, a result is counted.         *)
LEMMA Balance ==
    ASSUME Conserved, next \in Nat, Len(jobs.buffer) \in Nat, Cardinality(Busy) \in Nat,
           Len(results.buffer) \in Nat, Tallied \in Nat,
           \/ /\ next' = next + 1 /\ Len(jobs'.buffer) = Len(jobs.buffer) + 1
              /\ Busy' = Busy /\ results' = results /\ Tallied' = Tallied
           \/ /\ next' = next /\ jobs' = jobs /\ Cardinality(Busy') = Cardinality(Busy) - 1
              /\ Len(results'.buffer) = Len(results.buffer) + 1 /\ Tallied' = Tallied
           \/ /\ next' = next /\ jobs' = jobs /\ Busy' = Busy
              /\ Len(results'.buffer) = Len(results.buffer) - 1 /\ Tallied' = Tallied + 1
    PROVE  Conserved'
<1> DEFINE J == Len(jobs.buffer)  B == Cardinality(Busy)  R == Len(results.buffer)
<1>1. /\ next - 1 = J + B + R + Tallied
      /\ \/ next' = next + 1 /\ J' = J + 1 /\ B' = B /\ R' = R /\ Tallied' = Tallied
         \/ next' = next /\ J' = J /\ B' = B - 1 /\ R' = R + 1 /\ Tallied' = Tallied
         \/ next' = next /\ J' = J /\ B' = B /\ R' = R - 1 /\ Tallied' = Tallied + 1
      /\ next \in Nat /\ J \in Nat /\ B \in Nat /\ R \in Nat /\ Tallied \in Nat
  BY DEF Conserved
<1> HIDE DEF J, B, R
<1>2. next' - 1 = J' + B' + R' + Tallied'
  BY <1>1
<1>3. QED
  BY <1>2 DEF Conserved, J, B, R

(* Every step preserves the pool's invariant.                              *)
LEMMA PoolStep == PoolInv /\ [Next]_vars => PoolInv'
<1> SUFFICES ASSUME PoolInv, [Next]_vars PROVE PoolInv'
  OBVIOUS
<1>t. /\ PoolType /\ PoolInOrder /\ Conserved
      /\ next \in Nat /\ jobs.buffer \in Seq(Nat) /\ results.buffer \in Seq(Result)
      /\ jobs.closed \in BOOLEAN /\ results.closed \in BOOLEAN
      /\ agg.totals.initiated \in Nat /\ agg.initiateErrors \in Nat /\ Tallied \in Nat
      /\ Total \in Nat /\ Cardinality(Busy) \in Nat
      /\ Len(jobs.buffer) \in Nat /\ Len(results.buffer) \in Nat
  <2>1. PoolType /\ PoolInOrder /\ Conserved
    BY DEF PoolInv
  <2>2. IsFiniteSet(Busy)
    BY <2>1, FS_Subset DEF PoolType, Busy
  <2>3. agg.totals.initiated \in Nat /\ agg.initiateErrors \in Nat
    BY <2>1 DEF PoolType, Aggregate, Counters
  <2>4. QED
    BY <2>1, <2>2, <2>3, FS_CardinalityType, SimulatorAssumption, LenProperties
    DEF PoolType, Tallied
\* Main moves to a phase in which neither the channels nor the jobs sent matter.
<1>m. ASSUME UNCHANGED pool,
             \/ main' = main
             \/ main' \notin {"start", "produce", "wait workers", "wait collector",
                              "reported", "panic"}
      PROVE  PoolInv'
  <2>1. PoolType' /\ Conserved'
    BY <1>t, <1>m, PoolFrame
  <2>2. PoolInOrder'
    BY <1>t, <1>m DEF PoolInOrder, pool, Worker, Drained, NoPanic
  <2>3. QED
    BY <2>1, <2>2 DEF PoolInv
<1>1. CASE HealthCheck
  <2>1. CASE main' = "produce"
    <3>1. PoolType' /\ Conserved'
      BY <1>t, <1>1, PoolFrame DEF HealthCheck
    <3>2. PoolInOrder'
      BY <1>t, <1>1, <2>1 DEF HealthCheck, PoolInOrder, pool, Worker, Drained, NoPanic
    <3>3. QED
      BY <3>1, <3>2 DEF PoolInv
  <2>2. QED
    BY <1>1, <1>m, <2>1 DEF HealthCheck
<1>2. CASE Produce
  <2>1. /\ jobs'.buffer = Append(jobs.buffer, next) /\ jobs'.closed = jobs.closed
        /\ jobs' \in [buffer : Seq(Nat), closed : BOOLEAN]
    <3>1. Append(jobs.buffer, next) \in Seq(Nat)
      BY <1>t
    <3>2. jobs' = [buffer |-> Append(jobs.buffer, next), closed |-> jobs.closed]
      BY <1>2, <1>t DEF Produce, Send, PoolType
    <3>3. QED
      BY <1>t, <3>1, <3>2
  <2>3. Len(jobs'.buffer) = Len(jobs.buffer) + 1
    BY <1>t, <2>1
  <2>2. Worker' = Worker /\ Busy' = Busy /\ Tallied' = Tallied
    BY <1>2 DEF Produce, Worker, Busy, Tallied
  <2>4. PoolType'
    BY <1>2, <1>t, <2>1, <2>2 DEF Produce, PoolType
  <2>5. PoolInOrder'
    BY <1>2, <1>t, <2>1, <2>2 DEF Produce, PoolInOrder, Drained, NoPanic
  <2>6. Conserved'
    <3>1. next' = next + 1 /\ results' = results
      BY <1>2 DEF Produce
    <3>2. QED
      BY <1>t, <2>2, <2>3, <3>1, Balance
  <2>7. QED
    BY <2>4, <2>5, <2>6 DEF PoolInv
<1>3. CASE CloseJobs
  <2>1. /\ jobs'.buffer = jobs.buffer /\ jobs'.closed
        /\ jobs' \in [buffer : Seq(Nat), closed : BOOLEAN]
    BY <1>3, <1>t DEF CloseJobs, PoolType
  <2>2. Worker' = Worker /\ Busy' = Busy /\ Tallied' = Tallied
    BY <1>3 DEF CloseJobs, Worker, Busy, Tallied
  <2>4. PoolType'
    BY <1>3, <1>t, <2>1, <2>2 DEF CloseJobs, PoolType
  <2>5. PoolInOrder'
    <3>0. main = "produce" /\ next > Total /\ ~ jobs.closed /\ next <= Total + 1
      BY <1>3, <1>t DEF CloseJobs, PoolInOrder
    <3>1. next = Total + 1 /\ \A w \in Worker : worker[w].pc # "done"
      BY <1>t, <3>0 DEF PoolInOrder, Drained
    <3>2. ~ results.closed
      BY <1>t, <3>1 DEF PoolInOrder, PoolType
    <3>3. main' = "wait workers" /\ next' = next /\ worker' = worker /\ results' = results
      BY <1>3 DEF CloseJobs
    <3>4. QED
      BY <2>2, <3>1, <3>2, <3>3 DEF PoolInOrder, NoPanic
  <2>6. Conserved'
    BY <1>3, <1>t, <2>1, <2>2 DEF CloseJobs, Conserved
  <2>7. QED
    BY <2>4, <2>5, <2>6 DEF PoolInv
<1>4. CASE CloseResults
  <2>1. /\ results'.buffer = results.buffer /\ results'.closed
        /\ results' \in [buffer : Seq(Result), closed : BOOLEAN]
    BY <1>4, <1>t DEF CloseResults, PoolType
  <2>2. Worker' = Worker /\ Busy' = Busy /\ Tallied' = Tallied
    BY <1>4 DEF CloseResults, Worker, Busy, Tallied
  <2>4. PoolType'
    BY <1>4, <1>t, <2>1, <2>2 DEF CloseResults, PoolType
  <2>5. PoolInOrder'
    BY <1>4, <1>t, <2>1, <2>2 DEF CloseResults, PoolInOrder, Drained, NoPanic
  <2>6. Conserved'
    BY <1>4, <1>t, <2>1, <2>2 DEF CloseResults, Conserved
  <2>7. QED
    BY <2>4, <2>5, <2>6 DEF PoolInv
<1>5. CASE Report
  <2>1. PoolType' /\ Conserved'
    BY <1>t, <1>5, PoolFrame DEF Report
  <2>2. PoolInOrder'
    BY <1>t, <1>5 DEF Report, PoolInOrder, pool, Worker, Drained, NoPanic
  <2>3. QED
    BY <2>1, <2>2 DEF PoolInv
<1>6. ASSUME NEW w \in Worker, ReceiveJob(w) PROVE PoolInv'
  <2> DEFINE v == [pc |-> "run", job |-> Head(jobs.buffer)]
  <2>1. worker' = [worker EXCEPT ![w] = v] /\ worker[w].pc = "receive"
    BY <1>6 DEF ReceiveJob
  <2>2. v.pc = "run" /\ w \notin Busy
    BY <2>1 DEF Busy
  <2> HIDE DEF v
  <2>3. /\ Worker' = Worker
        /\ \A u \in Worker : worker'[u] = IF u = w THEN v ELSE worker[u]
        /\ (worker = [u \in Worker |-> worker[u]])'
        /\ \A u \in Worker : /\ worker'[u].pc \in {"receive", "run", "send", "done"}
                             /\ worker'[u].pc = "send" => worker'[u].item \in Result
        /\ Cardinality(Busy') =
             Cardinality(Busy) + One(v.pc \in {"run", "send"}) - One(w \in Busy)
    BY <1>t, <2>1, <2>2, BusyStep
  <2>c. Cardinality(Busy') = Cardinality(Busy) + 1
    BY <1>t, <2>2, <2>3 DEF One
  <2>4. /\ jobs' = [buffer |-> Tail(jobs.buffer), closed |-> jobs.closed]
        /\ jobs.buffer # <<>>
    BY <1>6, <1>t DEF ReceiveJob, Receive, PoolType
  <2>d. jobs'.buffer = Tail(jobs.buffer) /\ jobs'.closed = jobs.closed
    BY <2>4
  <2>5. Tail(jobs.buffer) \in Seq(Nat) /\ Len(Tail(jobs.buffer)) = Len(jobs.buffer) - 1
    BY <1>t, <2>4, HeadTailProperties
  <2>6. PoolType'
    <3>1. jobs' \in [buffer : Seq(Nat), closed : BOOLEAN]
      BY <1>t, <2>4, <2>5
    <3>2. QED
      BY <1>6, <1>t, <2>3, <3>1 DEF ReceiveJob, PoolType
  <2>7. PoolInOrder'
    BY <1>6, <1>t, <2>1, <2>2, <2>3, <2>4, <2>d DEF ReceiveJob, PoolInOrder, Drained, NoPanic
  <2>8. Conserved'
    BY <1>6, <1>t, <2>c, <2>d, <2>5 DEF ReceiveJob, Conserved, Tallied
  <2>9. QED
    BY <2>6, <2>7, <2>8 DEF PoolInv
<1>7. ASSUME NEW w \in Worker, JobsDrained(w) PROVE PoolInv'
  <2> DEFINE v == [pc |-> "done"]
  <2>1. worker' = [worker EXCEPT ![w] = v] /\ worker[w].pc = "receive"
    BY <1>7 DEF JobsDrained
  <2>2. v.pc = "done" /\ w \notin Busy
    BY <2>1 DEF Busy
  <2> HIDE DEF v
  <2>3. /\ Worker' = Worker
        /\ \A u \in Worker : worker'[u] = IF u = w THEN v ELSE worker[u]
        /\ (worker = [u \in Worker |-> worker[u]])'
        /\ \A u \in Worker : /\ worker'[u].pc \in {"receive", "run", "send", "done"}
                             /\ worker'[u].pc = "send" => worker'[u].item \in Result
        /\ Cardinality(Busy') =
             Cardinality(Busy) + One(v.pc \in {"run", "send"}) - One(w \in Busy)
    BY <1>t, <2>1, <2>2, BusyStep
  <2>c. Cardinality(Busy') = Cardinality(Busy)
    BY <1>t, <2>2, <2>3 DEF One
  <2>6. PoolType'
    BY <1>7, <1>t, <2>3 DEF JobsDrained, PoolType
  <2>7. PoolInOrder'
    BY <1>7, <1>t, <2>2, <2>3 DEF JobsDrained, PoolInOrder, Drained, NoPanic
  <2>8. Conserved'
    BY <1>7, <1>t, <2>c DEF JobsDrained, Conserved, Tallied
  <2>9. QED
    BY <2>6, <2>7, <2>8 DEF PoolInv
<1>8. ASSUME NEW w \in Worker, NEW item \in Result, RunTransaction(w, item) PROVE PoolInv'
  <2> DEFINE v == [pc |-> "send", item |-> item]
  <2>1. worker' = [worker EXCEPT ![w] = v] /\ worker[w].pc = "run"
    BY <1>8 DEF RunTransaction
  <2>2. v.pc = "send" /\ v.item \in Result /\ w \in Busy
    BY <2>1 DEF Busy
  <2> HIDE DEF v
  <2>3. /\ Worker' = Worker
        /\ \A u \in Worker : worker'[u] = IF u = w THEN v ELSE worker[u]
        /\ (worker = [u \in Worker |-> worker[u]])'
        /\ \A u \in Worker : /\ worker'[u].pc \in {"receive", "run", "send", "done"}
                             /\ worker'[u].pc = "send" => worker'[u].item \in Result
        /\ Cardinality(Busy') =
             Cardinality(Busy) + One(v.pc \in {"run", "send"}) - One(w \in Busy)
    BY <1>t, <2>1, <2>2, BusyStep
  <2>c. Cardinality(Busy') = Cardinality(Busy)
    BY <1>t, <2>2, <2>3 DEF One
  <2>6. PoolType'
    BY <1>8, <1>t, <2>3 DEF RunTransaction, PoolType
  <2>7. PoolInOrder'
    BY <1>8, <1>t, <2>1, <2>2, <2>3 DEF RunTransaction, PoolInOrder, Drained, NoPanic
  <2>8. Conserved'
    BY <1>8, <1>t, <2>c DEF RunTransaction, Conserved, Tallied
  <2>9. QED
    BY <2>6, <2>7, <2>8 DEF PoolInv
<1>9. ASSUME NEW w \in Worker, SendResult(w) PROVE PoolInv'
  <2> DEFINE v == [pc |-> "receive"]
  <2>1. worker' = [worker EXCEPT ![w] = v] /\ worker[w].pc = "send"
    BY <1>9 DEF SendResult
  <2>2. v.pc = "receive" /\ w \in Busy
    BY <2>1 DEF Busy
  <2> HIDE DEF v
  <2>3. /\ Worker' = Worker
        /\ \A u \in Worker : worker'[u] = IF u = w THEN v ELSE worker[u]
        /\ (worker = [u \in Worker |-> worker[u]])'
        /\ \A u \in Worker : /\ worker'[u].pc \in {"receive", "run", "send", "done"}
                             /\ worker'[u].pc = "send" => worker'[u].item \in Result
        /\ Cardinality(Busy') =
             Cardinality(Busy) + One(v.pc \in {"run", "send"}) - One(w \in Busy)
    BY <1>t, <2>1, <2>2, BusyStep
  <2>c. Cardinality(Busy') = Cardinality(Busy) - 1
    BY <1>t, <2>2, <2>3 DEF One
  <2>4. ~ results.closed
    BY <1>t, <2>1 DEF PoolInOrder
  <2>5. /\ results' = [buffer |-> Append(results.buffer, worker[w].item), closed |-> FALSE]
        /\ main' = main
        /\ worker[w].item \in Result
    BY <1>9, <1>t, <2>1, <2>4 DEF SendResult, Send, PoolType
  <2>d. /\ results'.buffer = Append(results.buffer, worker[w].item)
        /\ results'.closed = FALSE
    BY <2>5
  <2>6. /\ Append(results.buffer, worker[w].item) \in Seq(Result)
        /\ Len(Append(results.buffer, worker[w].item)) = Len(results.buffer) + 1
    BY <1>t, <2>5
  <2>7. PoolType'
    <3>1. results' \in [buffer : Seq(Result), closed : BOOLEAN]
      BY <2>5, <2>6
    <3>2. QED
      BY <1>9, <1>t, <2>3, <3>1 DEF SendResult, PoolType
  <2>8. PoolInOrder'
    BY <1>9, <1>t, <2>2, <2>3, <2>4, <2>5, <2>d DEF SendResult, Running, Ended, PoolInOrder, Drained, NoPanic
  <2>9. Conserved'
    <3>1. next' = next /\ jobs' = jobs /\ Tallied' = Tallied
      BY <1>9 DEF SendResult, Tallied
    <3>2. QED
      BY <1>t, <2>c, <2>d, <2>6, <3>1, Balance
  <2>10. QED
    BY <2>7, <2>8, <2>9 DEF PoolInv
<1>10. CASE Collect
  <2> DEFINE item == Head(results.buffer)
  <2>1. results.buffer # <<>> /\ agg' = Recorded(agg, item)
    BY <1>10 DEF Collect
  <2>2. /\ item \in Result
        /\ Tail(results.buffer) \in Seq(Result)
        /\ Len(Tail(results.buffer)) = Len(results.buffer) - 1
    BY <1>t, <2>1, HeadTailProperties
  <2> HIDE DEF item
  <2>3. agg' \in Aggregate /\ Tallied' = Tallied + 1
    BY <1>t, <2>1, <2>2, RecordedFact DEF PoolType, Tallied
  <2>4. results' = [buffer |-> Tail(results.buffer), closed |-> results.closed]
    BY <1>10, <1>t DEF Collect, Receive, PoolType
  <2>d. results'.buffer = Tail(results.buffer) /\ results'.closed = results.closed
    BY <2>4
  <2>5. Worker' = Worker /\ Busy' = Busy
    BY <1>10 DEF Collect, Worker, Busy
  <2>6. PoolType'
    <3>1. results' \in [buffer : Seq(Result), closed : BOOLEAN]
      BY <1>t, <2>2, <2>4
    <3>2. QED
      BY <1>10, <1>t, <2>3, <2>5, <3>1 DEF Collect, PoolType
  <2>7. PoolInOrder'
    BY <1>10, <1>t, <2>d, <2>5 DEF Collect, Running, Ended, PoolInOrder, Drained, NoPanic
  <2>8. Conserved'
    <3>1. next' = next /\ jobs' = jobs
      BY <1>10 DEF Collect
    <3>2. QED
      BY <1>t, <2>2, <2>3, <2>5, <2>d, <3>1, Balance
  <2>9. QED
    BY <2>6, <2>7, <2>8 DEF PoolInv
<1>11. CASE Fetch \/ Attempt \/ Exhausted \/ VerifyBlacklisted
  BY <1>11, <1>m DEF Fetch, Attempt, Exhausted, VerifyBlacklisted
<1>12. ASSUME NEW g \in Gateway, FailureCallback(g) PROVE PoolInv'
  BY <1>12, <1>m DEF FailureCallback
<1>13. CASE UNCHANGED vars
  BY <1>13, <1>m DEF vars
<1>14. QED
  BY <1>1, <1>2, <1>3, <1>4, <1>5, <1>6, <1>7, <1>8, <1>9, <1>10, <1>11, <1>12, <1>13
  DEF Next
(* PoolInv holds in every behaviour of the simulator.                      *)
THEOREM PoolInvariance == Spec => []PoolInv
<1>1. Init => PoolInv
  BY PoolInit
<1>2. PoolInv /\ [Next]_vars => PoolInv'
  BY PoolStep
<1>3. QED
  BY <1>1, <1>2, PTL DEF Spec

(* No worker sends on the results channel after main has closed it: main   *)
(* waits for every worker first, and a worker that is done stays so.       *)
THEOREM NoPanicHolds == Spec => []NoPanic
<1>1. PoolInv => NoPanic
  BY DEF PoolInv, PoolInOrder
<1>2. QED
  BY <1>1, PoolInvariance, PTL

(* No transaction is lost or counted twice between the producer and the    *)
(* summary, and the printed summary accounts for all of them.              *)
THEOREM NothingLostHolds == Spec => []NothingLost
<1>1. ASSUME PoolInv PROVE NothingLost
  <2>1. Conserved /\ PoolType /\ PoolInOrder
    BY <1>1 DEF PoolInv
  <2>2. ASSUME main = "reported" PROVE Tallied = Total
    <3>1. \A w \in Worker : worker[w].pc = "done"
      BY <2>1, <2>2 DEF PoolInOrder
    <3>2. PICK w \in Worker : TRUE
      BY <2>1 DEF PoolType
    <3>3. jobs.buffer = <<>> /\ results.buffer = <<>> /\ next = Total + 1
      BY <2>1, <2>2, <3>1, <3>2 DEF PoolInOrder, Drained
    <3>4. Busy = {}
      BY <3>1 DEF Busy
    <3>5. Cardinality(Busy) = 0
      BY <3>4, FS_EmptySet
    <3>6. Len(jobs.buffer) = 0 /\ Len(results.buffer) = 0
      BY <3>3
    <3>7. agg.totals.initiated \in Nat /\ agg.initiateErrors \in Nat
      BY <2>1 DEF PoolType, Aggregate, Counters
    <3>8. Tallied \in Nat
      BY <3>7 DEF Tallied
    <3>9. Total \in Nat
      BY SimulatorAssumption
    <3>10. QED
      BY <2>1, <3>3, <3>5, <3>6, <3>8, <3>9 DEF Conserved
  <2>3. QED
    BY <2>1, <2>2 DEF NothingLost, Conserved
<1>2. QED
  BY <1>1, PoolInvariance, PTL

-----------------------------------------------------------------------------
(* The order-blacklist scenario.  Cells(f) draws each failure counted in f *)
(* as a cell of the gateway's column, so that the failures of all gateways *)
(* are the number of its elements.                                         *)

Cells(f) == {c \in Gateway \X Nat : 1 <= c[2] /\ c[2] <= f[c[1]]}

OrderType ==
    /\ order \in [limit : Nat, attempt : Nat, gateway : SUBSET Gateway,
                  failures : [Gateway -> Nat]]
    /\ served \in [Gateway -> Nat]

(* The service has recorded every failure the scenario has counted; the    *)
(* scenario asks again only while no gateway has reached the threshold;    *)
(* and each attempt before this one was one failure of some gateway.       *)
OrderInv ==
    /\ OrderType
    /\ \A g \in Gateway : order.failures[g] <= served[g]
    /\ main \in {"start", "fetch", "attempt", "callback", "exhausted"} =>
         \A g \in Gateway : order.failures[g] < Threshold
    /\ main \in {"verify", "passed"} =>
         \A g \in order.gateway : Threshold <= order.failures[g]
    /\ main = "exhausted" => order.attempt > order.limit
    /\ main # "selected again"
    /\ IsFiniteSet(Cells(order.failures))
    /\ Cardinality(Cells(order.failures)) = order.attempt - 1

(* One more failure of a gateway is one more cell.                         *)
LEMMA CellsGrow ==
    ASSUME NEW f \in [Gateway -> Nat], NEW g \in Gateway, IsFiniteSet(Cells(f))
    PROVE  /\ IsFiniteSet(Cells([f EXCEPT ![g] = @ + 1]))
           /\ Cardinality(Cells([f EXCEPT ![g] = @ + 1])) = Cardinality(Cells(f)) + 1
<1> DEFINE e == [f EXCEPT ![g] = @ + 1]
           x == <<g, f[g] + 1>>
<1>1. \A h \in Gateway : e[h] = IF h = g THEN f[g] + 1 ELSE f[h]
  OBVIOUS
<1>2. x \in Gateway \X Nat /\ x[1] = g /\ x[2] = f[g] + 1 /\ f[g] \in Nat
  OBVIOUS
<1>3. x \notin Cells(f)
  BY <1>2 DEF Cells
<1>4. ASSUME NEW c \in Gateway \X Nat
      PROVE  c \in Cells(e) <=> c \in Cells(f) \/ c = x
  <2>1. c[1] \in Gateway /\ c[2] \in Nat /\ c = <<c[1], c[2]>> /\ f[c[1]] \in Nat
    OBVIOUS
  <2>2. c = x <=> c[1] = g /\ c[2] = f[g] + 1
    BY <1>2, <2>1
  <2> HIDE DEF e, x
  <2>3. CASE c[1] = g
    BY <1>1, <1>2, <2>1, <2>2, <2>3 DEF Cells
  <2>4. CASE c[1] # g
    BY <1>1, <2>1, <2>2, <2>4 DEF Cells
  <2>5. QED
    BY <2>3, <2>4
<1>5. Cells(e) = Cells(f) \cup {x}
  <2> HIDE DEF e, x
  <2>1. Cells(e) \subseteq Gateway \X Nat /\ Cells(f) \subseteq Gateway \X Nat
    BY DEF Cells
  <2>2. QED
    BY <1>2, <1>4, <2>1
<1>6. /\ IsFiniteSet(Cells(f) \cup {x})
      /\ Cardinality(Cells(f) \cup {x}) = Cardinality(Cells(f)) + 1
  <2> HIDE DEF x
  <2>1. QED
    BY <1>3, FS_AddElement
<1>7. QED
  <2> HIDE DEF x
  <2>1. Cells([f EXCEPT ![g] = @ + 1]) = Cells(f) \cup {x}
    BY <1>5
  <2>2. QED
    BY <1>6, <2>1

(* As long as every gateway is below the threshold, there are at most      *)
(* Threshold - 1 failures of each.                                         *)
LEMMA CellsBounded ==
    ASSUME NEW f \in [Gateway -> Nat], \A g \in Gateway : f[g] < Threshold
    PROVE  Cardinality(Cells(f)) <= Cardinality(Gateway) * (Threshold - 1)
<1>1. Threshold \in Nat /\ Threshold >= 1 /\ IsFiniteSet(Gateway)
  BY SimulatorAssumption
<1>2. /\ IsFiniteSet(1..(Threshold - 1))
      /\ Cardinality(1..(Threshold - 1)) = Threshold - 1
  <2>1. /\ IsFiniteSet(1..(Threshold - 1))
        /\ Cardinality(1..(Threshold - 1)) =
             IF 1 > Threshold - 1 THEN 0 ELSE (Threshold - 1) - 1 + 1
    BY <1>1, FS_Interval
  <2>2. QED
    BY <1>1, <2>1
<1>3. /\ IsFiniteSet(Gateway \X (1..(Threshold - 1)))
      /\ Cardinality(Gateway \X (1..(Threshold - 1)))
           = Cardinality(Gateway) * (Threshold - 1)
  BY <1>1, <1>2, FS_Product
<1>4. Cells(f) \subseteq Gateway \X (1..(Threshold - 1))
  BY <1>1 DEF Cells
<1>5. QED
  BY <1>3, <1>4, FS_Subset

(* The scenario starts without failures of its own.                        *)
LEMMA OrderInit == Init => OrderInv
<1> SUFFICES ASSUME Init PROVE OrderInv
  OBVIOUS
<1>1. PICK limit \in AttemptLimits :
        order = [limit |-> limit, attempt |-> 1, gateway |-> {},
                 failures |-> [g \in Gateway |-> 0]]
  BY DEF Init
<1>2. order.attempt = 1 /\ order.failures = [g \in Gateway |-> 0] /\ order.gateway = {}
  BY <1>1
<1>3. Threshold \in Nat /\ Threshold >= 1
  BY SimulatorAssumption
<1>4. served \in [Gateway -> Nat]
  BY <1>3 DEF Init
<1>5. OrderType
  BY <1>1, <1>4, SimulatorAssumption DEF OrderType
<1>6. Cells(order.failures) = {}
  BY <1>2 DEF Cells
<1>7. IsFiniteSet(Cells(order.failures)) /\ Cardinality(Cells(order.failures)) = 0
  BY <1>6, FS_EmptySet
<1>8. main = "start"
  BY DEF Init
<1>9. QED
  BY <1>2, <1>3, <1>4, <1>5, <1>7, <1>8 DEF OrderInv

(* Every step preserves the scenario's invariant.                          *)
LEMMA OrderStep == OrderInv /\ [Next]_vars => OrderInv'
<1> SUFFICES ASSUME OrderInv, [Next]_vars PROVE OrderInv'
  OBVIOUS
<1>t. /\ OrderType /\ Threshold \in Nat /\ Threshold >= 1
      /\ order.limit \in Nat /\ order.attempt \in Nat /\ order.gateway \subseteq Gateway
      /\ order.failures \in [Gateway -> Nat] /\ served \in [Gateway -> Nat]
      /\ \A g \in Gateway : order.failures[g] <= served[g]
      /\ Cardinality(Cells(order.failures)) = order.attempt - 1
  <2>1. /\ OrderType /\ \A g \in Gateway : order.failures[g] <= served[g]
        /\ Cardinality(Cells(order.failures)) = order.attempt - 1
    BY DEF OrderInv
  <2>2. Threshold \in Nat /\ Threshold >= 1
    BY SimulatorAssumption
  <2>3. /\ order.limit \in Nat /\ order.attempt \in Nat /\ order.gateway \subseteq Gateway
        /\ order.failures \in [Gateway -> Nat] /\ served \in [Gateway -> Nat]
    BY <2>1 DEF OrderType
  <2>4. QED
    BY <2>1, <2>2, <2>3
\* Main moves on and the scenario's counters stay.
<1>m. ASSUME UNCHANGED <<order, served>>,
             \/ main' = main
             \/ main = "start" /\ main' = "fetch"
             \/ main = "fetch" /\ main' = "attempt"
             \/ main' \in {"produce", "wait workers", "wait collector", "reported",
                           "failed", "panic"}
      PROVE  OrderInv'
  BY <1>m DEF OrderInv, OrderType
<1>1. CASE HealthCheck \/ Produce \/ CloseJobs \/ CloseResults \/ Report \/ Collect \/ Fetch
  BY <1>1, <1>m DEF HealthCheck, Produce, CloseJobs, CloseResults, Report, Collect, Fetch
<1>2. ASSUME NEW w \in Worker, ReceiveJob(w) \/ JobsDrained(w) \/ SendResult(w)
      PROVE  OrderInv'
  BY <1>2, <1>m DEF ReceiveJob, JobsDrained, SendResult
<1>3. ASSUME NEW w \in Worker, NEW item \in Result, RunTransaction(w, item) PROVE OrderInv'
  BY <1>3, <1>m DEF RunTransaction
<1>4. CASE Attempt
  <2>1. CASE main' = "failed" /\ UNCHANGED order
    BY <1>4, <1>m, <2>1 DEF Attempt
  <2>2. ASSUME NEW g \in Offered, order' = [order EXCEPT !.gateway = {g}],
               main' = "callback"
        PROVE  OrderInv'
    <3>1. /\ order'.failures = order.failures /\ order'.attempt = order.attempt
          /\ order'.limit = order.limit /\ order'.gateway = {g}
      BY <2>2 DEF OrderInv, OrderType
    <3>2. OrderType'
      BY <1>4, <1>t, <2>2 DEF OrderType, Offered, Attempt
    <3>3. main = "attempt" /\ served' = served
      BY <1>4 DEF Attempt
    <3>4. QED
      BY <2>2, <3>1, <3>2, <3>3 DEF OrderInv
  <2>3. QED
    BY <1>4, <2>1, <2>2 DEF Attempt
<1>5. CASE Exhausted
  BY <1>5 DEF Exhausted, OrderInv, OrderType
<1>6. CASE VerifyBlacklisted
  <2>1. CASE main' = "failed"
    BY <1>6, <1>m, <2>1 DEF VerifyBlacklisted
  <2>2. ASSUME NEW g \in Offered,
               main' = IF {g} = order.gateway THEN "selected again" ELSE "passed"
        PROVE  OrderInv'
    <3>1. main = "verify" /\ UNCHANGED <<order, served>>
      BY <1>6 DEF VerifyBlacklisted
    <3>2. g \in Gateway /\ served[g] < Threshold /\ served[g] \in Nat
      BY <1>t DEF Offered
    <3>3. g \notin order.gateway
      BY <1>t, <3>1, <3>2 DEF OrderInv
    <3>4. main' = "passed"
      BY <2>2, <3>3
    <3>5. QED
      BY <3>1, <3>4 DEF OrderInv, OrderType
  <2>3. QED
    BY <1>6, <2>1, <2>2 DEF VerifyBlacklisted
<1>7. ASSUME NEW g \in Gateway, FailureCallback(g) PROVE OrderInv'
  <2>0. main = "callback" /\ order.gateway = {g}
    BY <1>7 DEF FailureCallback
  <2>1. CASE UNCHANGED <<order, served>> /\ main' = "failed"
    BY <1>m, <2>1
  <2>2. ASSUME RecordFailure(g), main' = "failed", UNCHANGED order PROVE OrderInv'
    <3>1. /\ served' \in [Gateway -> Nat]
          /\ \A h \in Gateway : served[h] <= served'[h]
      BY <1>t, <2>2 DEF RecordFailure
    <3>2. \A h \in Gateway : order.failures[h] <= served'[h]
      <4>1. TAKE h \in Gateway
      <4>2. /\ order.failures[h] \in Nat /\ served[h] \in Nat /\ served'[h] \in Nat
            /\ order.failures[h] <= served[h] /\ served[h] <= served'[h]
        BY <1>t, <3>1
      <4>3. QED
        BY <4>2
    <3>3. QED
      BY <2>2, <3>1, <3>2 DEF OrderInv, OrderType
  <2>3. ASSUME RecordFailure(g),
               order' = [order EXCEPT !.attempt = @ + 1, !.failures[g] = @ + 1],
               main' = IF Reached(order.failures[g] + 1) THEN "verify" ELSE "attempt"
        PROVE  OrderInv'
    <3> DEFINE f == [order.failures EXCEPT ![g] = @ + 1]
    <3>1. order' = [limit |-> order.limit, attempt |-> order.attempt + 1,
                    gateway |-> order.gateway, failures |-> f]
      BY <2>3 DEF OrderInv, OrderType
    <3>2. /\ order'.failures = f /\ order'.attempt = order.attempt + 1
          /\ order'.limit = order.limit /\ order'.gateway = order.gateway
      BY <3>1
    <3>3. /\ f \in [Gateway -> Nat] /\ f[g] = order.failures[g] + 1
          /\ \A h \in Gateway : h # g => f[h] = order.failures[h]
      BY <1>t
    <3>4. IsFiniteSet(Cells(f)) /\ Cardinality(Cells(f)) = Cardinality(Cells(order.failures)) + 1
      BY <1>t, CellsGrow DEF OrderInv
    <3> HIDE DEF f
    <3>5. /\ served' \in [Gateway -> Nat] /\ served'[g] = served[g] + 1
          /\ \A h \in Gateway : h # g => served'[h] = served[h]
      BY <1>t, <2>3 DEF RecordFailure
    <3>6. \A h \in Gateway : f[h] <= served'[h]
      <4>1. TAKE h \in Gateway
      <4>2. order.failures[h] \in Nat /\ served[h] \in Nat /\ order.failures[h] <= served[h]
        BY <1>t
      <4>3. CASE h = g
        BY <3>3, <3>5, <4>2, <4>3
      <4>4. CASE h # g
        BY <3>3, <3>5, <4>2, <4>4
      <4>5. QED
        BY <4>3, <4>4
    <3>7. OrderType'
      BY <1>t, <3>1, <3>3, <3>5 DEF OrderType
    <3>8. Cardinality(Cells(f)) = (order.attempt + 1) - 1
      BY <1>t, <3>4
    <3>9. CASE order.failures[g] + 1 >= Threshold
      <4>1. main' = "verify" /\ Threshold <= f[g]
        BY <1>t, <2>3, <3>3, <3>9 DEF Reached
      <4>2. QED
        BY <2>0, <3>2, <3>4, <3>6, <3>7, <3>8, <4>1 DEF OrderInv
    <3>10. CASE ~ (order.failures[g] + 1 >= Threshold)
      <4>1. main' = "attempt" /\ f[g] < Threshold
        BY <1>t, <2>3, <3>3, <3>10 DEF Reached
      <4>2. \A h \in Gateway : f[h] < Threshold
        BY <2>0, <3>3, <4>1 DEF OrderInv
      <4>3. QED
        BY <3>2, <3>4, <3>6, <3>7, <3>8, <4>1, <4>2 DEF OrderInv
    <3>11. QED
      BY <3>9, <3>10
  <2>4. QED
    BY <1>7, <2>1, <2>2, <2>3 DEF FailureCallback
<1>8. CASE UNCHANGED vars
  BY <1>8, <1>m DEF vars
<1>9. QED
  BY <1>1, <1>2, <1>3, <1>4, <1>5, <1>6, <1>7, <1>8 DEF Next

(* The order-blacklist scenario accuses no service that keeps its promise, *)
(* passes only one that has blacklisted the gateway, and gives up only     *)
(* when the attempts allowed cannot bring any gateway to the threshold.    *)
THEOREM VerdictSoundHolds == Spec => []VerdictSound
<1>1. OrderInv /\ [Next]_vars => OrderInv'
  BY OrderStep
<1>2. ASSUME OrderInv PROVE VerdictSound
  <2>1. /\ order.failures \in [Gateway -> Nat] /\ served \in [Gateway -> Nat]
        /\ order.limit \in Nat /\ order.attempt \in Nat /\ order.gateway \subseteq Gateway
        /\ Threshold \in Nat /\ IsFiniteSet(Gateway)
    BY <1>2, SimulatorAssumption DEF OrderInv, OrderType
  <2>2. ASSUME main = "exhausted"
        PROVE  order.limit <= Cardinality(Gateway) * (Threshold - 1)
    <3>1. /\ \A g \in Gateway : order.failures[g] < Threshold
          /\ Cardinality(Cells(order.failures)) = order.attempt - 1
          /\ order.attempt > order.limit
      BY <1>2, <2>2 DEF OrderInv
    <3>2. Cardinality(Cells(order.failures)) <= Cardinality(Gateway) * (Threshold - 1)
      BY <2>1, <3>1, CellsBounded
    <3> DEFINE bound == Cardinality(Gateway) * (Threshold - 1)
    <3>3. bound \in Int
      BY <2>1, FS_CardinalityType
    <3> HIDE DEF bound
    <3>4. order.limit <= bound
      BY <2>1, <3>1, <3>2, <3>3 DEF bound
    <3>5. QED
      BY <3>4 DEF bound
  <2>3. ASSUME main = "passed" PROVE \A g \in order.gateway : served[g] >= Threshold
    BY <1>2, <2>1, <2>3 DEF OrderInv
  <2>4. QED
    BY <1>2, <2>2, <2>3 DEF VerdictSound, OrderInv
<1>3. QED
  BY <1>1, <1>2, OrderInit, PTL DEF Spec

-----------------------------------------------------------------------------
(* The summary.  Column(a, field) is the counter of that name of every     *)
(* gateway; its cells are what the totals count.                           *)

Column(a, field) == [g \in Gateway |-> a.byGateway[g][field]]

Summed(a) ==
    /\ \A field \in DOMAIN NoCounters :
         /\ IsFiniteSet(Cells(Column(a, field)))
         /\ a.totals[field] = Cardinality(Cells(Column(a, field)))
    /\ a.totals.callbacks = a.totals.successes + a.totals.failures

(* A set of subsets of a finite S holds them all if it holds the empty one *)
(* and every one that it holds with any one element removed.               *)
LEMMA SubsetInduction ==
    ASSUME NEW S, IsFiniteSet(S), NEW T, {} \in T,
           \A s \in SUBSET S : s # {} /\ (\A x \in s : s \ {x} \in T) => s \in T
    PROVE  SUBSET S \subseteq T
<1> DEFINE Bad == (SUBSET S) \ T
           R == StrictSubsetOrdering(S)
<1>1. SUFFICES ASSUME Bad # {} PROVE FALSE
  OBVIOUS
<1>2. IsWellFoundedOn(R, SUBSET S)
  BY FS_StrictSubsetOrderingWellFounded, FS_FiniteSubsetsOfFinite
<1>3. PICK m \in Bad : \A n \in Bad : ~ (<<n, m>> \in R)
  <2>1. Bad \subseteq SUBSET S
    OBVIOUS
  <2>2. QED
    <3> HIDE DEF Bad, R
    <3>1. QED
      BY <1>1, <1>2, <2>1, WFMin
<1>4. m \in SUBSET S /\ m \notin T /\ m # {}
  BY <1>3
<1>5. ASSUME NEW x \in m PROVE m \ {x} \in T
  <2>1. m \ {x} \in SUBSET S /\ m \ {x} # m
    BY <1>4
  <2>2. <<m \ {x}, m>> \in R
    BY <1>4, <2>1 DEF StrictSubsetOrdering
  <2>3. QED
    BY <1>3, <2>1, <2>2
<1>6. \A x \in m : m \ {x} \in T
  BY <1>5
<1> HIDE DEF Bad, R
<1>7. QED
  BY <1>4, <1>6

(* The cells of some gateways are those of one of them and of the others.  *)
LEMMA CellsApart ==
    ASSUME NEW f \in [Gateway -> Nat], IsFiniteSet(Cells(f)),
           NEW S \in SUBSET Gateway, NEW g \in S
    PROVE  Cardinality({c \in Cells(f) : c[1] \in S})
             = f[g] + Cardinality({c \in Cells(f) : c[1] \in S \ {g}})
<1> DEFINE A == {c \in Cells(f) : c[1] \in S \ {g}}
           B == {g} \X (1..f[g])
           C == {c \in Cells(f) : c[1] \in S}
<1>1. f[g] \in Nat /\ g \in Gateway
  OBVIOUS
<1>2. A \cup B = C /\ A \cap B = {} /\ A \subseteq Cells(f)
  <2>1. B \subseteq C
    BY <1>1 DEF Cells
  <2>2. A \subseteq C /\ A \cap B = {} /\ A \subseteq Cells(f)
    OBVIOUS
  <2>3. ASSUME NEW c \in C, c \notin A PROVE c \in B
    <3>1. c \in Gateway \X Nat /\ 1 <= c[2] /\ c[2] <= f[c[1]] /\ c[1] = g
      BY <2>3 DEF Cells
    <3>2. QED
      BY <1>1, <3>1
  <2>4. QED
    BY <2>1, <2>2, <2>3
<1>3. IsFiniteSet(B) /\ Cardinality(B) = f[g]
  <2> DEFINE n == f[g]
  <2>1. n \in Nat
    BY <1>1
  <2> HIDE DEF n
  <2>2. IsFiniteSet(1..n) /\ Cardinality(1..n) = n
    <3>1. IsFiniteSet(1..n) /\ Cardinality(1..n) = IF 1 > n THEN 0 ELSE n - 1 + 1
      BY <2>1, FS_Interval
    <3>2. QED
      BY <2>1, <3>1
  <2>3. IsFiniteSet({g}) /\ Cardinality({g}) = 1
    BY FS_Singleton
  <2>4. /\ IsFiniteSet({g} \X (1..n))
        /\ Cardinality({g} \X (1..n)) = Cardinality({g}) * Cardinality(1..n)
    BY <2>2, <2>3, FS_Product
  <2>5. Cardinality({g}) * Cardinality(1..n) = n
    BY <2>1, <2>2, <2>3
  <2>6. QED
    BY <2>4, <2>5 DEF n
<1> HIDE DEF A, B, C
<1>4. IsFiniteSet(A) /\ Cardinality(A) \in Nat
  BY <1>2, FS_Subset, FS_CardinalityType
<1>5. Cardinality(C) = Cardinality(A) + Cardinality(B) - Cardinality(A \cap B)
  BY <1>2, <1>3, <1>4, FS_Union
<1>6. Cardinality(A \cap B) = 0
  BY <1>2, FS_EmptySet
<1>7. Cardinality(C) = f[g] + Cardinality(A)
  BY <1>1, <1>3, <1>4, <1>5, <1>6
<1>8. QED
  BY <1>7 DEF A, C

(* The sum of a counter over the gateways, in whatever order they are      *)
(* added, is the number of its cells.                                      *)
LEMMA SumFact ==
    ASSUME NEW a \in Aggregate, NEW field, Column(a, field) \in [Gateway -> Nat],
           IsFiniteSet(Cells(Column(a, field)))
    PROVE  MapThenSumSet(LAMBDA g : a.byGateway[g][field], Gateway)
             = Cardinality(Cells(Column(a, field)))
<1> DEFINE f == Column(a, field)
           In(S) == {c \in Cells(f) : c[1] \in S}
           Adds(h) == h = [S \in SUBSET Gateway |->
                         IF S = {} THEN 0
                         ELSE a.byGateway[CHOOSE g \in S : TRUE][field]
                                + h[S \ {CHOOSE g \in S : TRUE}]]
           counts == [S \in SUBSET Gateway |-> Cardinality(In(S))]
           sum == CHOOSE h : Adds(h)
<1>1. \A g \in Gateway : a.byGateway[g][field] = f[g]
  BY DEF Column
<1>2. counts[{}] = 0
  <2>1. In({}) = {}
    OBVIOUS
  <2>2. QED
    BY <2>1, FS_EmptySet
<1>3. \A S \in SUBSET Gateway : \A g \in S :
        counts[S] = a.byGateway[g][field] + counts[S \ {g}]
  <2> SUFFICES ASSUME NEW S \in SUBSET Gateway, NEW g \in S
               PROVE  counts[S] = a.byGateway[g][field] + counts[S \ {g}]
    OBVIOUS
  <2>1. Cardinality(In(S)) = f[g] + Cardinality(In(S \ {g}))
    <3> HIDE DEF f
    <3>1. QED
      BY CellsApart DEF f
  <2>2. QED
    BY <1>1, <2>1
<1>4. In(Gateway) = Cells(f)
  BY DEF Cells
<1> HIDE DEF counts
<1>5. Adds(counts)
  <2>1. \A S \in SUBSET Gateway : S # {} => (CHOOSE g \in S : TRUE) \in S
    OBVIOUS
  <2>2. counts = [S \in SUBSET Gateway |-> counts[S]]
    BY DEF counts
  <2>3. QED
    BY <1>2, <1>3, <2>1, <2>2
<1>6. Adds(sum)
  <2> HIDE DEF Adds
  <2>1. QED
    BY <1>5
<1>7. MapThenSumSet(LAMBDA g : a.byGateway[g][field], Gateway) = sum[Gateway]
  BY DEF MapThenSumSet, MapThenFoldSet
<1> HIDE DEF sum
<1> DEFINE T == {S \in SUBSET Gateway : sum[S] = counts[S]}
<1>8. SUBSET Gateway \subseteq T
  <2>1. {} \in T
    BY <1>2, <1>6
  <2>2. ASSUME NEW S \in SUBSET Gateway, S # {}, \A x \in S : S \ {x} \in T
        PROVE  S \in T
    <3> DEFINE g == CHOOSE g \in S : TRUE
    <3>1. g \in S
      BY <2>2
    <3>2. sum[S] = a.byGateway[g][field] + sum[S \ {g}]
      BY <1>6, <2>2
    <3> HIDE DEF g
    <3>3. sum[S \ {g}] = counts[S \ {g}]
      BY <2>2, <3>1
    <3>4. QED
      BY <1>3, <3>1, <3>2, <3>3
  <2>3. IsFiniteSet(Gateway)
    BY SimulatorAssumption
  <2>4. QED
    <3> HIDE DEF T
    <3>1. QED
      BY <2>1, <2>2, <2>3, SubsetInduction
<1>9. sum[Gateway] = counts[Gateway]
  BY <1>8
<1>10. QED
  BY <1>4, <1>7, <1>9 DEF counts

(* aggregate.record adds one to a counter or nothing, and the two parts of *)
(* its code add the same to the totals as to the entry of the gateway.     *)
LEMMA CountedAlike ==
    ASSUME NEW item, NEW field \in DOMAIN NoCounters
    PROVE  \E d \in {0, 1} : \A c \in Counters :
             /\ AddTotals(c, item)[field] = c[field] + d
             /\ AddToEntry(c, item)[field] = c[field] + d
<1>1. field \in Fields
  BY DEF NoCounters, Fields
<1>2. Added(field, item) \in {0, 1}
  BY <1>1, AddedFact
<1>3. \A c \in Counters :
        /\ AddTotals(c, item)[field] = c[field] + Added(field, item)
        /\ AddToEntry(c, item)[field] = c[field] + Added(field, item)
  BY <1>1, TotalsFact, EntryFact
<1>4. QED
  BY <1>2, <1>3

(* Recording a result keeps the totals equal to the sums of the gateways.  *)
LEMMA SummedStep ==
    ASSUME NEW a \in Aggregate, Summed(a), NEW item \in Result
    PROVE  Summed(Recorded(a, item))
<1> DEFINE n == Recorded(a, item)
<1>1. CASE item = InitiateError
  <2>1. n = [a EXCEPT !.initiateErrors = @ + 1]
    BY <1>1 DEF Recorded
  <2>2. n.totals = a.totals /\ n.byGateway = a.byGateway
    BY <2>1 DEF Aggregate
  <2> HIDE DEF n
  <2>3. \A field : Column(n, field) = Column(a, field)
    BY <2>2 DEF Column
  <2>4. Summed(n)
    BY <2>2, <2>3 DEF Summed
  <2>5. QED
    BY <2>4 DEF n
<1>2. CASE item # InitiateError
  <2> DEFINE g == item.gateway
  <2>1. g \in Gateway
    BY <1>2 DEF Result, Unanswered, Called
  <2>2. a.totals \in Counters /\ a.byGateway \in [Gateway -> Counters]
    BY DEF Aggregate
  <2>3. /\ n.totals = AddTotals(a.totals, item)
        /\ n.byGateway = [a.byGateway EXCEPT ![g] = AddToEntry(a.byGateway[g], item)]
    BY <1>2 DEF Recorded
  <2> HIDE DEF n, g
  <2>4. ASSUME NEW field \in DOMAIN NoCounters
        PROVE  /\ IsFiniteSet(Cells(Column(n, field)))
               /\ n.totals[field] = Cardinality(Cells(Column(n, field)))
    <3> DEFINE f == Column(a, field)
    <3>1. PICK d \in {0, 1} : \A c \in Counters :
            /\ AddTotals(c, item)[field] = c[field] + d
            /\ AddToEntry(c, item)[field] = c[field] + d
      BY CountedAlike
    <3>2. f \in [Gateway -> Nat]
      BY <2>2 DEF Column, Counters, NoCounters
    <3>3. n.totals[field] = a.totals[field] + d
      BY <2>2, <2>3, <3>1
    <3>4. Column(n, field) = [f EXCEPT ![g] = @ + d]
      BY <2>1, <2>2, <2>3, <3>1 DEF Column
    <3>5. IsFiniteSet(Cells(f)) /\ a.totals[field] = Cardinality(Cells(f))
      BY DEF Summed
    <3> HIDE DEF f
    <3>6. CASE d = 0
      <4>1. Column(n, field) = f
        BY <2>1, <3>2, <3>4, <3>6
      <4>2. Cardinality(Cells(f)) \in Nat
        BY <3>5, FS_CardinalityType
      <4>3. QED
        BY <3>3, <3>5, <3>6, <4>1, <4>2
    <3>7. CASE d = 1
      <4>1. Column(n, field) = [f EXCEPT ![g] = @ + 1]
        BY <3>4, <3>7
      <4>2. /\ IsFiniteSet(Cells([f EXCEPT ![g] = @ + 1]))
            /\ Cardinality(Cells([f EXCEPT ![g] = @ + 1])) = Cardinality(Cells(f)) + 1
        BY <2>1, <3>2, <3>5, CellsGrow
      <4>3. QED
        BY <3>3, <3>5, <3>7, <4>1, <4>2
    <3>8. QED
      BY <3>1, <3>6, <3>7
  <2>5. n.totals.callbacks = n.totals.successes + n.totals.failures
    <3>1. a.totals.callbacks = a.totals.successes + a.totals.failures
      BY DEF Summed
    <3>2. /\ a.totals.callbacks \in Nat /\ a.totals.successes \in Nat
          /\ a.totals.failures \in Nat
      BY <2>2 DEF Counters
    <3> DEFINE k == Added("callbacks", item)
               u == Added("successes", item)
               v == Added("failures", item)
    <3>3. k = u + v /\ u \in Nat /\ v \in Nat
      BY DEF Added, One
    <3>4. /\ n.totals.callbacks = a.totals.callbacks + k
          /\ n.totals.successes = a.totals.successes + u
          /\ n.totals.failures = a.totals.failures + v
      BY <2>2, <2>3, TotalsFact DEF Fields
    <3> HIDE DEF k, u, v
    <3>5. QED
      BY <3>1, <3>2, <3>3, <3>4
  <2>6. Summed(n)
    BY <2>4, <2>5 DEF Summed
  <2>7. QED
    BY <2>6 DEF n
<1>3. QED
  BY <1>1, <1>2

(* The printed totals are the sums of the lines of the gateways, whatever  *)
(* the order in which workers finish and the collector records.            *)
THEOREM TotalsAgreeHolds == Spec => []TotalsAgree
<1>1. Init => Summed(agg)
  <2> SUFFICES ASSUME Init PROVE Summed(agg)
    OBVIOUS
  <2>1. agg.totals = NoCounters /\ agg.byGateway = [g \in Gateway |-> NoCounters]
    BY DEF Init, NoResults
  <2>2. \A field \in DOMAIN NoCounters : NoCounters[field] = 0
    BY DEF NoCounters
  <2>3. \A field \in DOMAIN NoCounters : Cells(Column(agg, field)) = {}
    BY <2>1, <2>2 DEF Cells, Column
  <2>4. agg.totals.callbacks = agg.totals.successes + agg.totals.failures
    BY <2>1 DEF NoCounters
  <2>5. QED
    BY <2>1, <2>2, <2>3, <2>4, FS_EmptySet DEF Summed
<1>2. PoolInv /\ Summed(agg) /\ [Next]_vars => Summed(agg)'
  <2> SUFFICES ASSUME PoolInv, Summed(agg), [Next]_vars PROVE Summed(agg')
    BY DEF Summed, Column, Cells
  <2>1. CASE Collect
    <3>1. /\ agg \in Aggregate /\ Head(results.buffer) \in Result
          /\ agg' = Recorded(agg, Head(results.buffer))
      BY <2>1 DEF PoolInv, PoolType, Collect
    <3>2. QED
      BY <3>1, SummedStep
  <2>2. CASE agg' = agg
    BY <2>2
  <2>3. QED
    BY <2>1, <2>2
    DEF Next, vars, pool, HealthCheck, Produce, CloseJobs, CloseResults, Report,
        ReceiveJob, JobsDrained, SendResult, RunTransaction, Fetch, Attempt,
        Exhausted, VerifyBlacklisted, FailureCallback
<1>3. PoolInv /\ Summed(agg) => TotalsAgree
  <2> SUFFICES ASSUME PoolInv, Summed(agg) PROVE TotalsAgree
    OBVIOUS
  <2>1. agg \in Aggregate
    BY DEF PoolInv, PoolType
  <2>2. ASSUME NEW field \in DOMAIN NoCounters
        PROVE  agg.totals[field] =
                 MapThenSumSet(LAMBDA g : agg.byGateway[g][field], Gateway)
    <3>1. Column(agg, field) \in [Gateway -> Nat]
      BY <2>1 DEF Column, Aggregate, Counters, NoCounters
    <3>2. /\ IsFiniteSet(Cells(Column(agg, field)))
          /\ agg.totals[field] = Cardinality(Cells(Column(agg, field)))
      BY DEF Summed
    <3>3. QED
      BY <2>1, <3>1, <3>2, SumFact
  <2>3. QED
    BY <2>2 DEF TotalsAgree, Summed
<1>4. QED
  BY <1>1, <1>2, <1>3, PoolInvariance, PTL DEF Spec

=============================================================================
