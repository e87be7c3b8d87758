---------------------------- MODULE GatewayHealth ----------------------------
(***************************************************************************)
(* HealthService (internal/service/health_service.go) on every replica of  *)
(* the router, over one shared health repository.                          *)
(*                                                                         *)
(* Each repository call and each update of the replica's state cache is    *)
(* one atomic step; a service method is a sequence of such steps, and any  *)
(* other method may run between two of them.  "now" is read once, when the *)
(* method is entered.  The callers are left open: a payment may be routed  *)
(* to, or may probe, any gateway the repository knows, since a routing     *)
(* snapshot can be arbitrarily stale when it is used.                      *)
(***************************************************************************)
EXTENDS HealthRepository

CONSTANTS
    Gateway,            \* configured gateways
    Txn,                \* transaction identifiers
    Replica,            \* router processes sharing the repository
    Observer,           \* concurrent HealthService.State calls
    HalfOpenProbeCount, \* half_open_probe_count
    ProbeTimeout,       \* half_open_probe_timeout_seconds
    Cooldown,           \* unhealthy_cooldown_seconds
    Window,             \* health_window_seconds
    MinCallbackCount,   \* min_callback_count
    ThresholdPct,       \* success_rate_threshold, in percent
    CacheTTL,           \* gateway_state_cache_ttl_ms
    MaxClock            \* bound on the clock

\* What domain.AppConfig.Validate and RuntimeConfig.Validate guarantee.
ASSUME ConfigAssumption ==
    /\ HalfOpenProbeCount \in Nat \ {0}
    /\ ProbeTimeout \in Nat \ {0}
    /\ Cooldown \in Nat \ {0}
    /\ Window \in Nat \ {0}
    /\ MinCallbackCount \in Nat \ {0}
    /\ ThresholdPct \in 0..100
    /\ CacheTTL \in Nat \ {0}

\* Validate refuses a configuration without gateways.
ASSUME PopulationAssumption == Gateway # {} /\ Replica # {}

ASSUME BoundAssumption == MaxClock \in Nat \ {0}

VARIABLES
    clock,        \* the time every replica reads
    states,       \* repository: the record of each gateway
    events,       \* repository: the callback outcomes retained
    stateCache,   \* per replica: HealthService.stateCache
    prep,         \* per replica: the PrepareForRouting call in progress
    look,         \* the State calls in progress
    pc,           \* per transaction: where its request or callback is
    ctx,          \* per transaction: the locals of that handler
    lastHealthy   \* history: when the repository last held "healthy"

store == <<clock, states, events, lastHealthy>>
vars  == <<clock, states, events, stateCache, prep, look, pc, ctx, lastHealthy>>

-----------------------------------------------------------------------------
GatewayStates == {"missing", "healthy", "unhealthy", "half_open"}
Status        == {"success", "failure"}
Probe         == [txn : Txn, expiresAt : Nat]
RuntimeState  == [state : GatewayStates, unhealthyUntil : Nat,
                  inFlight : Nat, probes : SUBSET Probe]
Event         == [gateway : Gateway, txn : Txn, status : Status, at : Nat]
CacheEntry    == [state : RuntimeState, expiresAt : Nat]

PrepPC == {"idle", "read", "load", "fill", "save", "saved", "prune", "pruned",
           "done"}
LookPC == {"idle", "load", "prune", "cache"}
Selecting == {"acquire", "acquired", "denied"}
Releasing == {"release", "released"}
Recording == {"event", "get", "stats", "drop", "save", "cache"}
TxnPC == {"new", "fallback", "initiating", "pending", "failed", "aborted", "done"}
           \cup Selecting \cup Releasing \cup Recording

PrepFrame == [pc : PrepPC, gateway : Gateway, now : Nat, state : RuntimeState]
LookFrame == [pc : LookPC, replica : Replica, gateway : Gateway, now : Nat,
              state : RuntimeState]
Ctx == [replica : Replica, gateway : Gateway, now : Nat, status : Status,
        state : RuntimeState, probe : Nat]

\* Placeholders of locals that are not live.
AnyGateway == CHOOSE g \in Gateway : TRUE
AnyReplica == CHOOSE r \in Replica : TRUE
NoEntry    == [state |-> NoState, expiresAt |-> 0]
IdlePrep   == [pc |-> "idle", gateway |-> AnyGateway, now |-> 0, state |-> NoState]
IdleLook   == [pc |-> "idle", replica |-> AnyReplica, gateway |-> AnyGateway,
               now |-> 0, state |-> NoState]
NoCtx      == [replica |-> AnyReplica, gateway |-> AnyGateway, now |-> 0,
               status |-> "success", state |-> NoState, probe |-> 0]

Init ==
    /\ clock = 1
    /\ states = [g \in Gateway |-> NoState]
    /\ events = {}
    /\ stateCache = [r \in Replica |-> [g \in Gateway |-> NoEntry]]
    /\ prep = [r \in Replica |-> IdlePrep]
    /\ look = [o \in Observer |-> IdleLook]
    /\ pc = [t \in Txn |-> "new"]
    /\ ctx = [t \in Txn |-> NoCtx]
    /\ lastHealthy = [g \in Gateway |-> 0]

-----------------------------------------------------------------------------
(* Helpers shared by the methods.                                          *)

\* A write of the repository; the history variable only watches it.
Put(g, s) ==
    /\ states' = [states EXCEPT ![g] = s]
    /\ lastHealthy' = IF s.state = "healthy"
                        THEN [lastHealthy EXCEPT ![g] = clock] ELSE lastHealthy

\* Seeded fault: the entry expires one TTL after it was written, not after
\* the call that read the record began.
setCachedStateLate(r, g, s, now) ==
    stateCache' = [stateCache EXCEPT
        ![r][g] = [state |-> s, expiresAt |-> clock + CacheTTL]]

setCachedState(r, g, s, now) ==
    stateCache' = [stateCache EXCEPT
        ![r][g] = [state |-> s, expiresAt |-> now + CacheTTL]]

\* Seeded fault: no deadline is stored.
markUnhealthyForever(s, now) == ToUnhealthy(s, ZeroTime)

markUnhealthy(s, now) == ToUnhealthy(s, now + Cooldown)

\* Seeded fault: the deadline is not compared with the time.
CooldownIgnored(s, now) == s.state = "unhealthy" /\ s.unhealthyUntil # ZeroTime

\* The cooldown test of PrepareForRouting (line 56).
CooldownOver(s, now) ==
    /\ s.state = "unhealthy"
    /\ s.unhealthyUntil # ZeroTime
    /\ now >= s.unhealthyUntil

\* PrepareForRouting's copy keeps its probes, RecordOutcome's drops them.
HalfOpenForRouting(s) == [s EXCEPT !.state = "half_open", !.inFlight = 0]
HalfOpenForCallback(s) ==
    [s EXCEPT !.state = "half_open", !.inFlight = 0, !.probes = {}]

BelowThreshold(stats) ==
    LET total == stats.successes + stats.failures
    IN  /\ total >= MinCallbackCount
        /\ stats.successes * 100 < ThresholdPct * total

\* Seeded fault: a callback after the cooldown closes the circuit at once.
UnhealthyOutcomeCloses(s, now) ==
    IF s.unhealthyUntil = ZeroTime \/ now >= s.unhealthyUntil
      THEN ToHealthy(s) ELSE s

\* RecordOutcome's switch when the record read is unhealthy, and when it is
\* neither half-open nor unhealthy.
UnhealthyOutcome(s, now) ==
    IF s.unhealthyUntil = ZeroTime \/ now >= s.unhealthyUntil
      THEN HalfOpenForCallback(s) ELSE s

HealthyOutcome(s, stats, now) ==
    IF BelowThreshold(stats) THEN markUnhealthy(s, now) ELSE ToHealthy(s)

\* RecordOutcome after a probe of this transaction was released.
ProbeOutcome(s, status, now) ==
    IF status = "success" THEN ToHealthy(s) ELSE markUnhealthy(s, now)

-----------------------------------------------------------------------------
(* PrepareForRouting: one call at a time per replica, because the routing  *)
(* service makes it under the snapshot's write lock.                       *)

\* Where the call goes once it has a state (lines 56-66).
Judged(f) ==
    IF CooldownOver(f.state, f.now)
      THEN [f EXCEPT !.pc = "save", !.state = HalfOpenForRouting(f.state)]
      ELSE IF f.state.state = "half_open" THEN [f EXCEPT !.pc = "prune"]
      ELSE [f EXCEPT !.pc = "done"]

PrepareForRouting(r, g) ==
    /\ prep[r].pc = "idle"
    /\ prep' = [prep EXCEPT ![r] = [pc |-> "read", gateway |-> g,
                                    now |-> clock, state |-> NoState]]
    /\ UNCHANGED <<store, stateCache, look, pc, ctx>>

ReadCache(r) ==
    /\ prep[r].pc = "read"
    /\ LET f == prep[r]
           cached == stateCache[r][f.gateway]
       IN  prep' = [prep EXCEPT ![r] =
             IF f.now < cached.expiresAt
               THEN Judged([f EXCEPT !.state = cached.state])
               ELSE [f EXCEPT !.pc = "load"]]
    /\ UNCHANGED <<store, stateCache, look, pc, ctx>>

LoadState(r) ==
    /\ prep[r].pc = "load"
    /\ LET g == prep[r].gateway
       IN  /\ Put(g, Ensure(states[g]))
           /\ prep' = [prep EXCEPT ![r].pc = "fill", ![r].state = Ensure(states[g])]
    /\ UNCHANGED <<clock, events, stateCache, look, pc, ctx>>

FillCache(r) ==
    /\ prep[r].pc = "fill"
    /\ setCachedState(r, prep[r].gateway, prep[r].state, prep[r].now)
    /\ prep' = [prep EXCEPT ![r] = Judged(prep[r])]
    /\ UNCHANGED <<store, look, pc, ctx>>

SaveHalfOpen(r) ==
    /\ prep[r].pc = "save"
    /\ Put(prep[r].gateway, prep[r].state)
    /\ prep' = [prep EXCEPT ![r].pc = "saved"]
    /\ UNCHANGED <<clock, events, stateCache, look, pc, ctx>>

CacheHalfOpen(r) ==
    /\ prep[r].pc = "saved"
    /\ setCachedState(r, prep[r].gateway, prep[r].state, prep[r].now)
    /\ prep' = [prep EXCEPT ![r].pc = "prune"]
    /\ UNCHANGED <<store, look, pc, ctx>>

PruneForRouting(r) ==
    /\ prep[r].pc = "prune"
    /\ LET g == prep[r].gateway
           s == PruneExpiredHalfOpenProbes(states[g], prep[r].now)
       IN  /\ Put(g, s)
           /\ prep' = [prep EXCEPT ![r].pc = "pruned", ![r].state = s]
    /\ UNCHANGED <<clock, events, stateCache, look, pc, ctx>>

CachePruned(r) ==
    /\ prep[r].pc = "pruned"
    /\ setCachedState(r, prep[r].gateway, prep[r].state, prep[r].now)
    /\ prep' = [prep EXCEPT ![r].pc = "done"]
    /\ UNCHANGED <<store, look, pc, ctx>>

PrepareReturns(r) ==
    /\ prep[r].pc = "done"
    /\ prep' = [prep EXCEPT ![r] = IdlePrep]
    /\ UNCHANGED <<store, stateCache, look, pc, ctx>>

\* A repository error, its reply lost after it took effect included.
PrepareFails(r) ==
    /\ prep[r].pc \in {"load", "fill", "save", "saved", "prune", "pruned"}
    /\ prep' = [prep EXCEPT ![r] = IdlePrep]
    /\ UNCHANGED <<store, stateCache, look, pc, ctx>>

-----------------------------------------------------------------------------
(* State: GET /gateways and duplicate callbacks.                           *)

State(o, r, g) ==
    /\ look[o].pc = "idle"
    /\ look' = [look EXCEPT ![o] = [pc |-> "load", replica |-> r, gateway |-> g,
                                    now |-> clock, state |-> NoState]]
    /\ UNCHANGED <<store, stateCache, prep, pc, ctx>>

LookLoad(o) ==
    /\ look[o].pc = "load"
    /\ LET g == look[o].gateway
           s == Ensure(states[g])
       IN  /\ Put(g, s)
           /\ look' = [look EXCEPT ![o].state = s,
                 ![o].pc = IF s.state = "half_open" THEN "prune" ELSE "cache"]
    /\ UNCHANGED <<clock, events, stateCache, prep, pc, ctx>>

LookPrune(o) ==
    /\ look[o].pc = "prune"
    /\ LET g == look[o].gateway
           s == PruneExpiredHalfOpenProbes(states[g], look[o].now)
       IN  /\ Put(g, s)
           /\ look' = [look EXCEPT ![o].state = s, ![o].pc = "cache"]
    /\ UNCHANGED <<clock, events, stateCache, prep, pc, ctx>>

LookCache(o) ==
    /\ look[o].pc = "cache"
    /\ setCachedState(look[o].replica, look[o].gateway, look[o].state, look[o].now)
    /\ look' = [look EXCEPT ![o] = IdleLook]
    /\ UNCHANGED <<store, prep, pc, ctx>>

LookFails(o) ==
    /\ look[o].pc # "idle"
    /\ look' = [look EXCEPT ![o] = IdleLook]
    /\ UNCHANGED <<store, stateCache, prep, pc, ctx>>

-----------------------------------------------------------------------------
(* MarkProbeSelected, and the ordinary choice of a gateway.                *)

MarkProbeSelected(t, r, g) ==
    /\ pc[t] = "new"
    /\ states[g] # NoState
    /\ pc' = [pc EXCEPT ![t] = "acquire"]
    /\ ctx' = [ctx EXCEPT ![t].replica = r, ![t].gateway = g, ![t].now = clock]
    /\ UNCHANGED <<store, stateCache, prep, look>>

TryAcquire(t) ==
    /\ pc[t] = "acquire"
    /\ LET g == ctx[t].gateway
           now == ctx[t].now
           expiresAt == now + ProbeTimeout
           s == TryAcquireHalfOpenProbe(states[g], t, HalfOpenProbeCount,
                                        expiresAt, now)
           acquired == ProbeAvailable(states[g], HalfOpenProbeCount, now)
       IN  /\ Put(g, s)
           /\ ctx' = [ctx EXCEPT ![t].state = s,
                        ![t].probe = IF acquired THEN expiresAt ELSE 0]
           /\ pc' = [pc EXCEPT ![t] = IF acquired THEN "acquired" ELSE "denied"]
    /\ UNCHANGED <<clock, events, stateCache, prep, look>>

\* A denied request falls back to the healthy gateways of its snapshot.
CacheAcquired(t) ==
    /\ pc[t] \in {"acquired", "denied"}
    /\ setCachedState(ctx[t].replica, ctx[t].gateway, ctx[t].state, ctx[t].now)
    /\ pc' = [pc EXCEPT ![t] =
                IF pc[t] = "acquired" THEN "initiating" ELSE "fallback"]
    /\ ctx' = [ctx EXCEPT ![t].state = NoState, ![t].now = 0]
    /\ UNCHANGED <<store, prep, look>>

\* MarkProbeSelected returns an error; the slot may have been taken.
AcquireFails(t) ==
    /\ pc[t] \in Selecting
    /\ pc' = [pc EXCEPT ![t] = "fallback"]
    /\ ctx' = [ctx EXCEPT ![t].state = NoState, ![t].now = 0, ![t].probe = 0]
    /\ UNCHANGED <<store, stateCache, prep, look>>

Route(t, r, g) ==
    /\ pc[t] \in {"new", "fallback"}
    /\ states[g] # NoState
    /\ pc' = [pc EXCEPT ![t] = "initiating"]
    /\ ctx' = [ctx EXCEPT ![t].replica = r, ![t].gateway = g]
    /\ UNCHANGED <<store, stateCache, prep, look>>

-----------------------------------------------------------------------------
(* The rest of Initiate as the health service sees it, and ReleaseProbe.   *)

Initiated(t) ==
    /\ pc[t] = "initiating"
    /\ pc' = [pc EXCEPT ![t] = "pending"]
    /\ UNCHANGED <<store, stateCache, prep, look, ctx>>

\* No client, no attempt number, or the gateway or the transaction store
\* failed: a probe is released.
InitiateFails(t) ==
    /\ pc[t] = "initiating"
    /\ pc' = [pc EXCEPT ![t] = IF ctx[t].probe # 0 THEN "release" ELSE "failed"]
    /\ ctx' = [ctx EXCEPT ![t].now = IF ctx[t].probe # 0 THEN clock ELSE 0]
    /\ UNCHANGED <<store, stateCache, prep, look>>

ReleaseProbe(t) ==
    /\ pc[t] = "release"
    /\ LET g == ctx[t].gateway
           s == ReleaseHalfOpenProbe(states[g], t, ctx[t].now)
       IN  /\ Put(g, s)
           /\ ctx' = [ctx EXCEPT ![t].state = s]
           /\ pc' = [pc EXCEPT ![t] = "released"]
    /\ UNCHANGED <<clock, events, stateCache, prep, look>>

CacheReleased(t) ==
    /\ pc[t] = "released"
    /\ setCachedState(ctx[t].replica, ctx[t].gateway, ctx[t].state, ctx[t].now)
    /\ pc' = [pc EXCEPT ![t] = "failed"]
    /\ ctx' = [ctx EXCEPT ![t].state = NoState, ![t].now = 0]
    /\ UNCHANGED <<store, prep, look>>

-----------------------------------------------------------------------------
(* RecordOutcome: entered once per transaction, by the callback that       *)
(* completed it, on whichever replica received that callback.  A failed    *)
(* initiation may be called back too: its transaction is stored when only  *)
(* the reply to Save was lost.  Ensure has nothing to do in this method: a *)
(* payment is only sent to a gateway that has a record.                    *)

RecordOutcome(t, r, status) ==
    /\ pc[t] \in {"pending", "failed"}
    /\ pc' = [pc EXCEPT ![t] = "event"]
    /\ ctx' = [ctx EXCEPT ![t].replica = r, ![t].status = status, ![t].now = clock]
    /\ UNCHANGED <<store, stateCache, prep, look>>

OutcomeEvent(t) ==
    /\ pc[t] = "event"
    /\ LET e == [gateway |-> ctx[t].gateway, txn |-> t,
                 status |-> ctx[t].status, at |-> ctx[t].now]
       IN  events' = RecordEvent(events, e, 2 * Window)
    /\ pc' = [pc EXCEPT ![t] = "get"]
    /\ UNCHANGED <<clock, states, lastHealthy, stateCache, prep, look, ctx>>

OutcomeGet(t) ==
    /\ pc[t] = "get"
    /\ ctx' = [ctx EXCEPT ![t].state = states[ctx[t].gateway]]
    /\ pc' = [pc EXCEPT ![t] = "stats"]
    /\ UNCHANGED <<store, stateCache, prep, look>>

\* StatsSince and the switch on the state read by OutcomeGet.
OutcomeStats(t) ==
    /\ pc[t] = "stats"
    /\ LET s == ctx[t].state
           now == ctx[t].now
           stats == StatsSince(events, ctx[t].gateway, now - Window, now)
       IN  \/ /\ s.state = "half_open"
              /\ pc' = [pc EXCEPT ![t] = "drop"]
              /\ UNCHANGED ctx
           \/ /\ s.state # "half_open"
              /\ pc' = [pc EXCEPT ![t] = "save"]
              /\ ctx' = [ctx EXCEPT ![t].state =
                    IF s.state = "unhealthy" THEN UnhealthyOutcome(s, now)
                                             ELSE HealthyOutcome(s, stats, now)]
    /\ UNCHANGED <<store, stateCache, prep, look>>

\* The half-open branch: only the holder of a live slot decides the outcome.
OutcomeRelease(t) ==
    /\ pc[t] = "drop"
    /\ LET g == ctx[t].gateway
           now == ctx[t].now
           s == ReleaseHalfOpenProbe(states[g], t, now)
           released == HoldsProbe(states[g], t, now)
       IN  /\ Put(g, s)
           /\ pc' = [pc EXCEPT ![t] = IF released THEN "save" ELSE "cache"]
           /\ ctx' = [ctx EXCEPT ![t].state =
                IF released THEN ProbeOutcome(s, ctx[t].status, now) ELSE s]
    /\ UNCHANGED <<clock, events, stateCache, prep, look>>

OutcomeSave(t) ==
    /\ pc[t] = "save"
    /\ Put(ctx[t].gateway, ctx[t].state)
    /\ pc' = [pc EXCEPT ![t] = "cache"]
    /\ UNCHANGED <<clock, events, stateCache, prep, look, ctx>>

OutcomeCache(t) ==
    /\ pc[t] = "cache"
    /\ setCachedState(ctx[t].replica, ctx[t].gateway, ctx[t].state, ctx[t].now)
    /\ pc' = [pc EXCEPT ![t] = "done"]
    /\ ctx' = [ctx EXCEPT ![t].state = NoState, ![t].now = 0]
    /\ UNCHANGED <<store, prep, look>>

\* A repository error ends ReleaseProbe or RecordOutcome where it stands.
\* Neither is retried: a repeated callback finds the transaction completed.
HandlerFails(t) ==
    /\ pc[t] \in Releasing \cup Recording
    /\ pc' = [pc EXCEPT ![t] = "aborted"]
    /\ ctx' = [ctx EXCEPT ![t].state = NoState, ![t].now = 0]
    /\ UNCHANGED <<store, stateCache, prep, look>>

-----------------------------------------------------------------------------
\* A replica restarts: its cache and the handlers it was running are gone,
\* the repository (Redis) keeps what they had written.
CrashedTxns(r) == {t \in Txn :
    /\ ctx[t].replica = r
    /\ pc[t] \in {"initiating"} \cup Selecting \cup Releasing \cup Recording}

Restart(r) ==
    /\ stateCache' = [stateCache EXCEPT ![r] = [g \in Gateway |-> NoEntry]]
    /\ prep' = [prep EXCEPT ![r] = IdlePrep]
    /\ look' = [o \in Observer |->
                  IF look[o].replica = r THEN IdleLook ELSE look[o]]
    /\ pc' = [t \in Txn |-> IF t \in CrashedTxns(r) THEN "aborted" ELSE pc[t]]
    /\ ctx' = [t \in Txn |-> IF t \in CrashedTxns(r)
                 THEN [ctx[t] EXCEPT !.state = NoState, !.now = 0] ELSE ctx[t]]
    /\ UNCHANGED store

Tick ==
    /\ clock < MaxClock
    /\ clock' = clock + 1
    /\ lastHealthy' = [g \in Gateway |->
         IF states[g].state = "healthy" THEN clock + 1 ELSE lastHealthy[g]]
    /\ UNCHANGED <<states, events, stateCache, prep, look, pc, ctx>>

-----------------------------------------------------------------------------
PrepareStep(r) ==
    \/ ReadCache(r) \/ LoadState(r) \/ FillCache(r) \/ SaveHalfOpen(r)
    \/ CacheHalfOpen(r) \/ PruneForRouting(r) \/ CachePruned(r)
    \/ PrepareReturns(r)

LookStep(o) == LookLoad(o) \/ LookPrune(o) \/ LookCache(o)

InitiateStep(t) ==
    \/ TryAcquire(t) \/ CacheAcquired(t) \/ Initiated(t)
    \/ ReleaseProbe(t) \/ CacheReleased(t)

OutcomeStep(t) ==
    \/ OutcomeEvent(t) \/ OutcomeGet(t) \/ OutcomeStats(t)
    \/ OutcomeRelease(t) \/ OutcomeSave(t) \/ OutcomeCache(t)

Next ==
    \/ Tick
    \/ \E r \in Replica : PrepareStep(r) \/ PrepareFails(r) \/ Restart(r)
    \/ \E r \in Replica, g \in Gateway : PrepareForRouting(r, g)
    \/ \E o \in Observer : LookStep(o) \/ LookFails(o)
    \/ \E o \in Observer, r \in Replica, g \in Gateway : State(o, r, g)
    \/ \E t \in Txn : \/ InitiateStep(t) \/ OutcomeStep(t)
                      \/ AcquireFails(t) \/ InitiateFails(t) \/ HandlerFails(t)
    \/ \E t \in Txn, r \in Replica, g \in Gateway :
          MarkProbeSelected(t, r, g) \/ Route(t, r, g)
    \/ \E t \in Txn, r \in Replica, s \in Status : RecordOutcome(t, r, s)

Spec == Init /\ [][Next]_vars
-----------------------------------------------------------------------------
(* What the service promises.                                              *)

\* Every variable keeps the shape the Go declarations give it.
TypeOK ==
    /\ clock \in Nat
    /\ states \in [Gateway -> RuntimeState]
    /\ events \subseteq Event
    /\ stateCache \in [Replica -> [Gateway -> CacheEntry]]
    /\ prep \in [Replica -> PrepFrame]
    /\ look \in [Observer -> LookFrame]
    /\ pc \in [Txn -> TxnPC]
    /\ ctx \in [Txn -> Ctx]
    /\ lastHealthy \in [Gateway -> Nat]

\* A record whose slot counter agrees with its slots.
LedgerOK(s) ==
    /\ IsFiniteSet(s.probes)
    /\ s.inFlight = Cardinality(s.probes)
    /\ s.inFlight <= HalfOpenProbeCount
    /\ s.probes # {} => s.state = "half_open"

\* The stored counter HalfOpenInFlight, which routing compares with the
\* configured count, always equals the number of stored slots, never exceeds
\* that count, and only a half-open gateway has slots: although
\* PrepareForRouting resets the counter and not the slots of its copy, and
\* although any Save may overwrite a newer record.
ProbeLedger == \A g \in Gateway : LedgerOK(states[g])

\* A record that carries the deadline its state calls for.
CooldownOK(s, time) ==
    /\ s.state = "missing" => s = NoState
    /\ s.state = "healthy" => s.unhealthyUntil = ZeroTime
    /\ s.state = "unhealthy" => s.unhealthyUntil # ZeroTime
    /\ s.state = "half_open" => /\ s.unhealthyUntil # ZeroTime
                                /\ s.unhealthyUntil <= time

\* A callback recorded to its end, or a failed initiation whose release was
\* carried out, leaves no slot of its transaction at its gateway: no Save of a
\* stale record brings a released slot back.
NoSlotLeak ==
    \A t \in Txn : pc[t] = "done" \/ (pc[t] = "failed" /\ ctx[t].probe # 0)
        => \A p \in states[ctx[t].gateway].probes : p.txn # t

\* A replica's cached "healthy" expires at most one cache TTL after the
\* repository last held "healthy" for that gateway, although setCachedState
\* runs after, and may be overtaken by, other replicas' saves.
BoundedStaleness ==
    \A r \in Replica, g \in Gateway :
        stateCache[r][g].state.state = "healthy" =>
            stateCache[r][g].expiresAt <= lastHealthy[g] + CacheTTL

\* README, "Gateway health": the transitions of the state diagram are the
\* only ones (with the creation of the record by Ensure).
Diagram == {<<"missing", "healthy">>, <<"healthy", "unhealthy">>,
            <<"unhealthy", "half_open">>, <<"half_open", "healthy">>,
            <<"half_open", "unhealthy">>}
HealthDiagram ==
    [][\A g \in Gateway :
         states'[g].state # states[g].state =>
            <<states[g].state, states'[g].state>> \in Diagram]_vars

\* README, "Key health details": "Unhealthy gateways are excluded from routing
\* until unhealthy_until": until the deadline the repository last stored has
\* come, no step replaces the unhealthy record or moves its deadline. The
\* records that PrepareForRouting and RecordOutcome save were read earlier, so
\* this asks that a call does not save a decision made on an older record.
CooldownRespected ==
    [][\A g \in Gateway :
         states[g].state = "unhealthy" /\ clock < states[g].unhealthyUntil =>
            /\ states'[g].state = "unhealthy"
            /\ states'[g].unhealthyUntil = states[g].unhealthyUntil]_vars

\* Probes sent to a gateway, whose callback has not arrived and whose
\* timeout has not passed.
AwaitedProbes(g) == {t \in Txn :
    /\ ctx[t].gateway = g
    /\ ctx[t].probe > clock
    /\ pc[t] \in {"acquired", "initiating", "pending"}}

\* README: "the configured in-flight probe count is enforced even under
\* concurrent requests": a half-open gateway is never probed by more
\* payments at once than half_open_probe_count.
ProbeLimit ==
    \A g \in Gateway : states[g].state = "half_open" =>
        Cardinality(AwaitedProbes(g)) <= HalfOpenProbeCount

\* Only the callback of a payment that was admitted as a probe closes a
\* half-open gateway, and it closes it the way its status says
\* (TestNonProbeCallbackDoesNotCompleteHalfOpenProbe).
ProbeDecides ==
    [][\A g \in Gateway :
         states[g].state = "half_open" /\ states'[g].state # "half_open" =>
            \E t \in Txn :
               /\ pc[t] = "save" /\ pc'[t] = "cache"
               /\ ctx[t].gateway = g /\ ctx[t].probe # 0
               /\ states'[g].state =
                    IF ctx[t].status = "success" THEN "healthy" ELSE "unhealthy"
      ]_vars

-----------------------------------------------------------------------------
(* The inductive invariant behind ProbeLedger, NoSlotLeak and              *)
(* BoundedStaleness.                                                       *)

Sound(s) == LedgerOK(s) /\ CooldownOK(s, clock)

\* No call has read a time later than the clock.
StampsOK ==
    /\ \A r \in Replica : prep[r].now <= clock
    /\ \A o \in Observer : look[o].now <= clock
    /\ \A t \in Txn : ctx[t].now <= clock
    /\ \A g \in Gateway :
         /\ lastHealthy[g] <= clock
         /\ states[g].state = "healthy" => lastHealthy[g] = clock

\* Every copy of a record is sound, since any of them may be saved; and what
\* is about to be saved holds no slot.
RecordsSound ==
    /\ \A g \in Gateway : Sound(states[g])
    /\ \A r \in Replica, g \in Gateway : Sound(stateCache[r][g].state)
    /\ \A r \in Replica :
         /\ Sound(prep[r].state)
         /\ prep[r].pc \in {"save", "saved"} =>
              prep[r].state.probes = {} /\ prep[r].state.state = "half_open"
    /\ \A o \in Observer : Sound(look[o].state)
    /\ \A t \in Txn :
         /\ Sound(ctx[t].state)
         /\ pc[t] = "save" => ctx[t].state.probes = {}

\* From the moment a callback or a release has seen its slot gone.
SlotSeenGone(t) ==
    \/ pc[t] \in {"released", "save", "cache", "done"}
    \/ pc[t] = "failed" /\ ctx[t].probe # 0
    \/ pc[t] = "stats" /\ ctx[t].state.state # "half_open"

SlotsGone ==
    \A t \in Txn : SlotSeenGone(t) =>
        \A p \in states[ctx[t].gateway].probes : p.txn # t

\* A "healthy" about to be cached was in the repository after "now".
FramesFresh ==
    /\ \A r \in Replica : prep[r].state.state = "healthy" =>
         /\ prep[r].pc \in {"fill", "pruned"} =>
              prep[r].now <= lastHealthy[prep[r].gateway]
         /\ prep[r].pc = "done" =>
              prep[r].now < lastHealthy[prep[r].gateway] + CacheTTL
    /\ \A o \in Observer :
         look[o].state.state = "healthy" /\ look[o].pc = "cache" =>
              look[o].now <= lastHealthy[look[o].gateway]
    /\ \A t \in Txn :
         /\ ctx[t].state.state = "healthy"
         /\ pc[t] \in {"acquired", "denied", "released", "cache"}
         => ctx[t].now <= lastHealthy[ctx[t].gateway]

HealthInv ==
    /\ TypeOK
    /\ StampsOK
    /\ RecordsSound
    /\ SlotsGone
    /\ FramesFresh
    /\ BoundedStaleness
=============================================================================
