------------------------ MODULE GatewayHealthProofs ------------------------
(***************************************************************************)
(* Proofs about GatewayHealth for every number of gateways, replicas,      *)
(* transactions and observers, and every valid configuration.              *)
(***************************************************************************)
EXTENDS GatewayHealth, FiniteSetTheorems, TLAPS

-----------------------------------------------------------------------------
(* What the repository operations return.                                  *)

\* The placeholders of locals have the type of what they stand for.
LEMMA PlaceholderTypes ==
    /\ NoState \in RuntimeState /\ NewState \in RuntimeState
    /\ NoEntry \in CacheEntry /\ IdlePrep \in PrepFrame
    /\ IdleLook \in LookFrame /\ NoCtx \in Ctx
<1>1. AnyGateway \in Gateway /\ AnyReplica \in Replica
    BY PopulationAssumption DEF AnyGateway, AnyReplica
<1>2. NoState \in RuntimeState /\ NewState \in RuntimeState
    BY DEF NoState, NewState, RuntimeState, GatewayStates, ZeroTime
<1>3. NoEntry \in CacheEntry
    BY <1>2 DEF NoEntry, CacheEntry
<1>4. IdlePrep \in PrepFrame
    BY <1>1, <1>2 DEF IdlePrep, PrepFrame, PrepPC
<1>5. IdleLook \in LookFrame
    BY <1>1, <1>2 DEF IdleLook, LookFrame, LookPC
<1>6. NoCtx \in Ctx
    BY <1>1, <1>2 DEF NoCtx, Ctx, Status
<1> QED BY <1>2, <1>3, <1>4, <1>5, <1>6

\* Ensure, which creates the record of an unknown gateway.
LEMMA EnsureType ==
    ASSUME NEW s \in RuntimeState
    PROVE  Ensure(s) \in RuntimeState
BY PlaceholderTypes DEF Ensure

\* Pruning keeps a sound record sound.  The slots of a record are finite by
\* LedgerOK, so that the recounted number is a natural number.
LEMMA LiveProbesFact ==
    ASSUME NEW S \in SUBSET Probe, IsFiniteSet(S), NEW now \in Nat
    PROVE  /\ LiveProbes(S, now) \in SUBSET S
           /\ IsFiniteSet(LiveProbes(S, now))
           /\ Cardinality(LiveProbes(S, now)) \in Nat
           /\ Cardinality(LiveProbes(S, now)) <= Cardinality(S)
<1>1. LiveProbes(S, now) \in SUBSET S
    BY DEF LiveProbes
<1> QED BY <1>1, FS_Subset, FS_CardinalityType

\* PruneExpiredHalfOpenProbes.
LEMMA PruneFact ==
    ASSUME NEW s \in RuntimeState, LedgerOK(s), NEW now \in Nat
    PROVE  LET r == PruneExpiredHalfOpenProbes(s, now)
           IN  /\ r \in RuntimeState
               /\ LedgerOK(r)
               /\ r.state = s.state /\ r.unhealthyUntil = s.unhealthyUntil
               /\ r.probes \subseteq s.probes
               /\ s.state # "half_open" => r = s
<1>1. CASE s.state # "half_open"
    BY <1>1 DEF PruneExpiredHalfOpenProbes
<1>2. CASE s.state = "half_open"
    <2> DEFINE L == LiveProbes(s.probes, now)
    <2>1. /\ L \in SUBSET s.probes /\ IsFiniteSet(L) /\ Cardinality(L) \in Nat
          /\ Cardinality(L) <= Cardinality(s.probes)
        BY LiveProbesFact DEF LedgerOK, RuntimeState
    <2>2. s.probes \in SUBSET Probe /\ Cardinality(s.probes) <= HalfOpenProbeCount
        BY DEF RuntimeState, LedgerOK
    <2>3. Cardinality(L) <= HalfOpenProbeCount
        BY <2>1, <2>2, ConfigAssumption, FS_CardinalityType DEF LedgerOK
    <2> DEFINE r == [s EXCEPT !.probes = L, !.inFlight = Cardinality(L)]
    <2>4. PruneExpiredHalfOpenProbes(s, now) = r
        BY <1>2 DEF PruneExpiredHalfOpenProbes, pruneExpiredHalfOpenProbes
    <2>5. /\ r \in RuntimeState /\ r.probes = L /\ r.inFlight = Cardinality(L)
          /\ r.state = s.state /\ r.unhealthyUntil = s.unhealthyUntil
        BY <2>1, <2>2 DEF RuntimeState
    <2> HIDE DEF L, r
    <2>6. LedgerOK(r)
        BY <2>1, <2>3, <2>5, <1>2 DEF LedgerOK
    <2> QED BY <2>1, <2>4, <2>5, <2>6, <1>2
<1> QED BY <1>1, <1>2

\* ReleaseHalfOpenProbe: afterwards no slot of the transaction is left.
LEMMA ReleaseFact ==
    ASSUME NEW s \in RuntimeState, LedgerOK(s), NEW now \in Nat, NEW t
    PROVE  LET r == ReleaseHalfOpenProbe(s, t, now)
           IN  /\ r \in RuntimeState
               /\ LedgerOK(r)
               /\ r.state = s.state /\ r.unhealthyUntil = s.unhealthyUntil
               /\ r.probes \subseteq s.probes
               /\ \A p \in r.probes : p.txn # t
<1>1. CASE s.state # "half_open"
    BY <1>1 DEF ReleaseHalfOpenProbe, LedgerOK
<1>2. CASE s.state = "half_open"
    <2> DEFINE L == {p \in LiveProbes(s.probes, now) : p.txn # t}
    <2>1. L \in SUBSET s.probes /\ \A p \in L : p.txn # t
        BY DEF LiveProbes
    <2>2. s.probes \in SUBSET Probe /\ IsFiniteSet(s.probes)
          /\ Cardinality(s.probes) <= HalfOpenProbeCount
        BY DEF RuntimeState, LedgerOK
    <2>3. /\ IsFiniteSet(L) /\ Cardinality(L) \in Nat
          /\ Cardinality(s.probes) \in Nat
          /\ Cardinality(L) <= Cardinality(s.probes)
        BY <2>1, <2>2, FS_Subset, FS_CardinalityType
    <2>4. Cardinality(L) <= HalfOpenProbeCount
        BY <2>2, <2>3, ConfigAssumption
    <2> DEFINE r == [s EXCEPT !.probes = L, !.inFlight = Cardinality(L)]
    <2>5. ReleaseHalfOpenProbe(s, t, now) = r
        BY <1>2 DEF ReleaseHalfOpenProbe, DropProbe
    <2>6. /\ r \in RuntimeState /\ r.probes = L /\ r.inFlight = Cardinality(L)
          /\ r.state = s.state /\ r.unhealthyUntil = s.unhealthyUntil
        BY <2>1, <2>2, <2>3 DEF RuntimeState
    <2> HIDE DEF L, r
    <2>7. LedgerOK(r)
        BY <2>3, <2>4, <2>6, <1>2 DEF LedgerOK
    <2> QED BY <2>1, <2>5, <2>6, <2>7
<1> QED BY <1>1, <1>2

\* TryAcquireHalfOpenProbe: the count is respected and the only slot added
\* is the caller's.
LEMMA AcquireFact ==
    ASSUME NEW s \in RuntimeState, LedgerOK(s), NEW now \in Nat,
           NEW t \in Txn, NEW expiresAt \in Nat
    PROVE  LET r == TryAcquireHalfOpenProbe(s, t, HalfOpenProbeCount,
                                            expiresAt, now)
           IN  /\ r \in RuntimeState
               /\ LedgerOK(r)
               /\ r.state = s.state /\ r.unhealthyUntil = s.unhealthyUntil
               /\ \A p \in r.probes : p \in s.probes \/ p.txn = t
               /\ s.state # "half_open" => r = s
<1>1. CASE ~ ProbeAvailable(s, HalfOpenProbeCount, now)
    BY <1>1, PruneFact DEF TryAcquireHalfOpenProbe
<1>2. CASE ProbeAvailable(s, HalfOpenProbeCount, now)
    <2> DEFINE L == LiveProbes(s.probes, now)
               P == [txn |-> t, expiresAt |-> expiresAt]
               N == L \cup {P}
    <2>1. s.probes \in SUBSET Probe /\ IsFiniteSet(s.probes) /\ P \in Probe
        BY DEF RuntimeState, LedgerOK, Probe
    <2>2. /\ L \in SUBSET s.probes /\ IsFiniteSet(L) /\ Cardinality(L) \in Nat
          /\ s.state = "half_open" /\ Cardinality(L) < HalfOpenProbeCount
        BY <1>2, <2>1, LiveProbesFact DEF ProbeAvailable
    <2> DEFINE r == [s EXCEPT !.probes = N, !.inFlight = Cardinality(N)]
    <2>3. TryAcquireHalfOpenProbe(s, t, HalfOpenProbeCount, expiresAt, now) = r
        BY <1>2 DEF TryAcquireHalfOpenProbe, AddProbe
    <2> HIDE DEF L, P
    <2>4. /\ IsFiniteSet(N)
          /\ Cardinality(N) = Cardinality(L) \/ Cardinality(N) = Cardinality(L) + 1
        BY <2>2, FS_AddElement
    <2>5. Cardinality(N) \in Nat /\ Cardinality(N) <= HalfOpenProbeCount
        BY <2>2, <2>4, ConfigAssumption
    <2>6. N \in SUBSET Probe /\ \A p \in N : p \in s.probes \/ p.txn = t
        BY <2>1, <2>2 DEF P
    <2> HIDE DEF N
    <2>7. /\ r \in RuntimeState /\ r.probes = N /\ r.inFlight = Cardinality(N)
          /\ r.state = s.state /\ r.unhealthyUntil = s.unhealthyUntil
        BY <2>5, <2>6 DEF RuntimeState
    <2> HIDE DEF r
    <2>8. LedgerOK(r)
        BY <2>2, <2>4, <2>5, <2>7 DEF LedgerOK
    <2> QED BY <2>2, <2>3, <2>6, <2>7, <2>8
<1> QED BY <1>1, <1>2

-----------------------------------------------------------------------------
(* Type correctness.                                                       *)

\* The record types of frames, projected.
LEMMA JudgedType ==
    ASSUME NEW f \in PrepFrame
    PROVE  /\ Judged(f) \in PrepFrame
           /\ Judged(f).now = f.now /\ Judged(f).gateway = f.gateway
<1>1. HalfOpenForRouting(f.state) \in RuntimeState
    BY DEF PrepFrame, RuntimeState, GatewayStates, HalfOpenForRouting
<1> QED BY <1>1 DEF Judged, PrepFrame, PrepPC

\* The records RecordOutcome may save have the type of a record.
LEMMA OutcomeTypes ==
    ASSUME NEW s \in RuntimeState, NEW now \in Nat
    PROVE  /\ ToHealthy(s) \in RuntimeState
           /\ markUnhealthy(s, now) \in RuntimeState
           /\ UnhealthyOutcome(s, now) \in RuntimeState
           /\ \A stats : HealthyOutcome(s, stats, now) \in RuntimeState
           /\ \A status : ProbeOutcome(s, status, now) \in RuntimeState
<1>1. ToHealthy(s) \in RuntimeState
    BY DEF ToHealthy, RuntimeState, GatewayStates, ZeroTime
<1>2. markUnhealthy(s, now) \in RuntimeState
    BY ConfigAssumption DEF markUnhealthy, ToUnhealthy, RuntimeState, GatewayStates
<1>3. HalfOpenForCallback(s) \in RuntimeState
    BY DEF HalfOpenForCallback, RuntimeState, GatewayStates
<1> QED BY <1>1, <1>2, <1>3 DEF UnhealthyOutcome, HealthyOutcome, ProbeOutcome

\* Every step keeps every variable in its type.
LEMMA TypeStep == HealthInv /\ [Next]_vars => TypeOK'
<1> SUFFICES ASSUME HealthInv, [Next]_vars PROVE TypeOK'
    OBVIOUS
<1> USE PlaceholderTypes, ConfigAssumption
<1>t. TypeOK
    BY DEF HealthInv
<1>l. \A g \in Gateway : states[g] \in RuntimeState /\ LedgerOK(states[g])
    BY DEF HealthInv, TypeOK, RecordsSound, Sound
<1>n. clock \in Nat /\ clock + 1 \in Nat
    BY <1>t DEF TypeOK
<1>p. \A g \in Gateway, s \in RuntimeState : Put(g, s) =>
         states' \in [Gateway -> RuntimeState] /\ lastHealthy' \in [Gateway -> Nat]
    BY <1>t DEF TypeOK, Put
<1>c. \A r \in Replica, g \in Gateway, s \in RuntimeState, now \in Nat :
         setCachedState(r, g, s, now) =>
            stateCache' \in [Replica -> [Gateway -> CacheEntry]]
    BY <1>t DEF TypeOK, setCachedState, CacheEntry
<1>f. /\ \A r \in Replica : prep[r] \in PrepFrame /\ prep[r].gateway \in Gateway
              /\ prep[r].now \in Nat /\ prep[r].state \in RuntimeState
      /\ \A o \in Observer : look[o] \in LookFrame /\ look[o].gateway \in Gateway
              /\ look[o].now \in Nat /\ look[o].state \in RuntimeState
              /\ look[o].replica \in Replica
      /\ \A t \in Txn : ctx[t] \in Ctx /\ ctx[t].gateway \in Gateway
              /\ ctx[t].now \in Nat /\ ctx[t].state \in RuntimeState
              /\ ctx[t].replica \in Replica /\ ctx[t].status \in Status
              /\ ctx[t].probe \in Nat /\ pc[t] \in TxnPC
    BY <1>t DEF TypeOK, PrepFrame, LookFrame, Ctx
<1>1. CASE Tick
    BY <1>1, <1>t, <1>n DEF Tick, TypeOK
<1>2. ASSUME NEW r \in Replica, PrepareStep(r) \/ PrepareFails(r) \/ Restart(r)
      PROVE  TypeOK'
    <2>1. CASE ReadCache(r)
        <3> DEFINE f == prep[r]
                   cached == stateCache[r][f.gateway]
        <3>1. cached.state \in RuntimeState
            BY <1>t, <1>f DEF TypeOK, CacheEntry
        <3>2. /\ [f EXCEPT !.state = cached.state] \in PrepFrame
              /\ [f EXCEPT !.pc = "load"] \in PrepFrame
            BY <1>f, <3>1 DEF PrepFrame, PrepPC
        <3>3. prep' \in [Replica -> PrepFrame]
            BY <2>1, <1>t, <3>2, JudgedType DEF ReadCache, TypeOK
        <3> QED BY <2>1, <1>t, <3>3 DEF ReadCache, TypeOK, store
    <2>2. CASE LoadState(r)
        <3>1. Ensure(states[prep[r].gateway]) \in RuntimeState
            BY <1>f, <1>l, EnsureType
        <3>2. prep' \in [Replica -> PrepFrame]
            BY <2>2, <1>t, <1>f, <3>1 DEF LoadState, TypeOK, PrepFrame, PrepPC
        <3> QED BY <2>2, <1>t, <1>f, <1>p, <3>1, <3>2 DEF LoadState, TypeOK
    <2>3. CASE FillCache(r)
        BY <2>3, <1>t, <1>f, <1>c, JudgedType DEF FillCache, TypeOK, store
    <2>4. CASE SaveHalfOpen(r)
        <3>1. prep' \in [Replica -> PrepFrame]
            BY <2>4, <1>t, <1>f DEF SaveHalfOpen, TypeOK, PrepFrame, PrepPC
        <3> QED BY <2>4, <1>t, <1>f, <1>p, <3>1 DEF SaveHalfOpen, TypeOK
    <2>5. CASE CacheHalfOpen(r)
        <3>1. prep' \in [Replica -> PrepFrame]
            BY <2>5, <1>t, <1>f DEF CacheHalfOpen, TypeOK, PrepFrame, PrepPC
        <3> QED BY <2>5, <1>t, <1>f, <1>c, <3>1 DEF CacheHalfOpen, TypeOK, store
    <2>6. CASE PruneForRouting(r)
        <3>1. PruneExpiredHalfOpenProbes(states[prep[r].gateway], prep[r].now)
                \in RuntimeState
            BY <1>f, <1>l, PruneFact
        <3>2. prep' \in [Replica -> PrepFrame]
            BY <2>6, <1>t, <1>f, <3>1 DEF PruneForRouting, TypeOK, PrepFrame, PrepPC
        <3> QED BY <2>6, <1>t, <1>f, <1>p, <3>1, <3>2 DEF PruneForRouting, TypeOK
    <2>7. CASE CachePruned(r)
        <3>1. prep' \in [Replica -> PrepFrame]
            BY <2>7, <1>t, <1>f DEF CachePruned, TypeOK, PrepFrame, PrepPC
        <3> QED BY <2>7, <1>t, <1>f, <1>c, <3>1 DEF CachePruned, TypeOK, store
    <2>8. CASE PrepareReturns(r) \/ PrepareFails(r)
        BY <2>8, <1>t DEF PrepareReturns, PrepareFails, TypeOK, store
    <2>9. CASE Restart(r)
        <3>1. /\ stateCache' \in [Replica -> [Gateway -> CacheEntry]]
              /\ prep' \in [Replica -> PrepFrame]
              /\ look' \in [Observer -> LookFrame]
            BY <2>9, <1>t DEF Restart, TypeOK
        <3>2. pc' \in [Txn -> TxnPC]
            BY <2>9, <1>t DEF Restart, TypeOK, TxnPC
        <3>3. \A t \in Txn : [ctx[t] EXCEPT !.state = NoState, !.now = 0] \in Ctx
            BY <1>f DEF Ctx
        <3>4. ctx' \in [Txn -> Ctx]
            BY <2>9, <1>t, <1>f, <3>3 DEF Restart, TypeOK
        <3> QED BY <2>9, <1>t, <3>1, <3>2, <3>4 DEF Restart, TypeOK, store
    <2> QED BY <1>2, <2>1, <2>2, <2>3, <2>4, <2>5, <2>6, <2>7, <2>8, <2>9
            DEF PrepareStep
<1>3. ASSUME NEW r \in Replica, NEW g \in Gateway, PrepareForRouting(r, g)
      PROVE  TypeOK'
    <2>1. [pc |-> "read", gateway |-> g, now |-> clock, state |-> NoState]
            \in PrepFrame
        BY <1>n DEF PrepFrame, PrepPC
    <2> QED BY <1>3, <1>t, <2>1 DEF PrepareForRouting, TypeOK, store
<1>4. ASSUME NEW o \in Observer, LookStep(o) \/ LookFails(o)
      PROVE  TypeOK'
    <2>1. CASE LookLoad(o)
        <3>1. Ensure(states[look[o].gateway]) \in RuntimeState
            BY <1>f, <1>l, EnsureType
        <3>2. look' \in [Observer -> LookFrame]
            BY <2>1, <1>t, <1>f, <3>1 DEF LookLoad, TypeOK, LookFrame, LookPC
        <3> QED BY <2>1, <1>t, <1>f, <1>p, <3>1, <3>2 DEF LookLoad, TypeOK
    <2>2. CASE LookPrune(o)
        <3>1. PruneExpiredHalfOpenProbes(states[look[o].gateway], look[o].now)
                \in RuntimeState
            BY <1>f, <1>l, PruneFact
        <3>2. look' \in [Observer -> LookFrame]
            BY <2>2, <1>t, <1>f, <3>1 DEF LookPrune, TypeOK, LookFrame, LookPC
        <3> QED BY <2>2, <1>t, <1>f, <1>p, <3>1, <3>2 DEF LookPrune, TypeOK
    <2>3. CASE LookCache(o)
        BY <2>3, <1>t, <1>f, <1>c DEF LookCache, TypeOK, store
    <2>4. CASE LookFails(o)
        BY <2>4, <1>t DEF LookFails, TypeOK, store
    <2> QED BY <1>4, <2>1, <2>2, <2>3, <2>4 DEF LookStep
<1>5. ASSUME NEW o \in Observer, NEW r \in Replica, NEW g \in Gateway, State(o, r, g)
      PROVE  TypeOK'
    <2>1. [pc |-> "load", replica |-> r, gateway |-> g, now |-> clock,
           state |-> NoState] \in LookFrame
        BY <1>n DEF LookFrame, LookPC
    <2> QED BY <1>5, <1>t, <2>1 DEF State, TypeOK, store
<1>6. ASSUME NEW t \in Txn, \/ InitiateStep(t) \/ AcquireFails(t)
                            \/ InitiateFails(t) \/ HandlerFails(t)
      PROVE  TypeOK'
    <2>1. CASE TryAcquire(t)
        <3> DEFINE g == ctx[t].gateway
                   expiresAt == ctx[t].now + ProbeTimeout
                   s == TryAcquireHalfOpenProbe(states[g], t, HalfOpenProbeCount,
                                                expiresAt, ctx[t].now)
                   acquired == ProbeAvailable(states[g], HalfOpenProbeCount,
                                              ctx[t].now)
                   p == IF acquired THEN expiresAt ELSE 0
        <3>1. g \in Gateway /\ expiresAt \in Nat /\ p \in Nat
            BY <1>f
        <3>2. s \in RuntimeState
            BY <1>f, <1>l, <3>1, AcquireFact
        <3>3. /\ Put(g, s)
              /\ ctx' = [ctx EXCEPT ![t].state = s, ![t].probe = p]
              /\ pc' = [pc EXCEPT ![t] = IF acquired THEN "acquired" ELSE "denied"]
              /\ UNCHANGED <<clock, events, stateCache, prep, look>>
            BY <2>1 DEF TryAcquire
        <3> HIDE DEF g, s, p, acquired
        <3>4. ctx' \in [Txn -> Ctx]
            BY <1>t, <1>f, <3>1, <3>2, <3>3 DEF TypeOK, Ctx
        <3>5. pc' \in [Txn -> TxnPC]
            BY <1>t, <3>3 DEF TypeOK, TxnPC, Selecting
        <3> QED BY <1>t, <1>p, <3>1, <3>2, <3>3, <3>4, <3>5 DEF TypeOK
    <2>2. CASE CacheAcquired(t)
        <3>1. ctx' \in [Txn -> Ctx]
            BY <2>2, <1>t, <1>f DEF CacheAcquired, TypeOK, Ctx
        <3>2. pc' \in [Txn -> TxnPC]
            BY <2>2, <1>t DEF CacheAcquired, TypeOK, TxnPC
        <3> QED BY <2>2, <1>t, <1>f, <1>c, <3>1, <3>2 DEF CacheAcquired, TypeOK, store
    <2>3. CASE Initiated(t)
        BY <2>3, <1>t DEF Initiated, TypeOK, TxnPC, store
    <2>4. CASE ReleaseProbe(t)
        <3>1. ReleaseHalfOpenProbe(states[ctx[t].gateway], t, ctx[t].now)
                \in RuntimeState
            BY <1>f, <1>l, ReleaseFact
        <3>2. ctx' \in [Txn -> Ctx]
            BY <2>4, <1>t, <1>f, <3>1 DEF ReleaseProbe, TypeOK, Ctx
        <3>3. pc' \in [Txn -> TxnPC]
            BY <2>4, <1>t DEF ReleaseProbe, TypeOK, TxnPC, Releasing
        <3> QED BY <2>4, <1>t, <1>f, <1>p, <3>1, <3>2, <3>3 DEF ReleaseProbe, TypeOK
    <2>5. CASE CacheReleased(t)
        <3>1. ctx' \in [Txn -> Ctx]
            BY <2>5, <1>t, <1>f DEF CacheReleased, TypeOK, Ctx
        <3>2. pc' \in [Txn -> TxnPC]
            BY <2>5, <1>t DEF CacheReleased, TypeOK, TxnPC
        <3> QED BY <2>5, <1>t, <1>f, <1>c, <3>1, <3>2 DEF CacheReleased, TypeOK, store
    <2>6. CASE AcquireFails(t)
        <3>1. ctx' \in [Txn -> Ctx]
            BY <2>6, <1>t, <1>f DEF AcquireFails, TypeOK, Ctx
        <3> QED BY <2>6, <1>t, <3>1 DEF AcquireFails, TypeOK, TxnPC, store
    <2>7. CASE InitiateFails(t)
        <3>1. ctx' \in [Txn -> Ctx]
            BY <2>7, <1>t, <1>f, <1>n DEF InitiateFails, TypeOK, Ctx
        <3> QED BY <2>7, <1>t, <3>1
                DEF InitiateFails, TypeOK, TxnPC, Releasing, store
    <2>8. CASE HandlerFails(t)
        <3>1. ctx' \in [Txn -> Ctx]
            BY <2>8, <1>t, <1>f DEF HandlerFails, TypeOK, Ctx
        <3> QED BY <2>8, <1>t, <3>1 DEF HandlerFails, TypeOK, TxnPC, store
    <2> QED BY <1>6, <2>1, <2>2, <2>3, <2>4, <2>5, <2>6, <2>7, <2>8
            DEF InitiateStep
<1>7. ASSUME NEW t \in Txn, OutcomeStep(t)
      PROVE  TypeOK'
    <2>1. CASE OutcomeEvent(t)
        <3> DEFINE e == [gateway |-> ctx[t].gateway, txn |-> t,
                         status |-> ctx[t].status, at |-> ctx[t].now]
        <3>1. e \in Event
            BY <1>f DEF Event
        <3>2. events' \subseteq Event
            BY <2>1, <1>t, <3>1 DEF OutcomeEvent, RecordEvent, TypeOK
        <3> QED BY <2>1, <1>t, <3>2 DEF OutcomeEvent, TypeOK, TxnPC, Recording
    <2>2. CASE OutcomeGet(t)
        <3>1. ctx' \in [Txn -> Ctx]
            BY <2>2, <1>t, <1>f, <1>l DEF OutcomeGet, TypeOK, Ctx
        <3> QED BY <2>2, <1>t, <3>1 DEF OutcomeGet, TypeOK, TxnPC, Recording, store
    <2>3. CASE OutcomeStats(t)
        <3>1. PICK s \in RuntimeState :
                ctx' = [ctx EXCEPT ![t].state = s] \/ ctx' = ctx
            BY <2>3, <1>f, OutcomeTypes DEF OutcomeStats
        <3>2. ctx' \in [Txn -> Ctx]
            <4>1. CASE ctx' = [ctx EXCEPT ![t].state = s]
                BY <1>t, <1>f, <4>1 DEF TypeOK, Ctx
            <4> QED BY <1>t, <3>1, <4>1 DEF TypeOK
        <3>3. pc' \in [Txn -> TxnPC]
            BY <2>3, <1>t DEF OutcomeStats, TypeOK, TxnPC, Recording
        <3> QED BY <2>3, <1>t, <3>2, <3>3 DEF OutcomeStats, TypeOK, store
    <2>4. CASE OutcomeRelease(t)
        <3> DEFINE s == ReleaseHalfOpenProbe(states[ctx[t].gateway], t, ctx[t].now)
        <3>1. s \in RuntimeState
            BY <1>f, <1>l, ReleaseFact
        <3>2. PICK u \in RuntimeState : ctx' = [ctx EXCEPT ![t].state = u]
            BY <2>4, <1>f, <3>1, OutcomeTypes DEF OutcomeRelease
        <3>3. ctx' \in [Txn -> Ctx]
            BY <1>t, <1>f, <3>2 DEF TypeOK, Ctx
        <3>4. pc' \in [Txn -> TxnPC]
            BY <2>4, <1>t DEF OutcomeRelease, TypeOK, TxnPC, Recording
        <3> QED BY <2>4, <1>t, <1>f, <1>p, <3>1, <3>3, <3>4 DEF OutcomeRelease, TypeOK
    <2>5. CASE OutcomeSave(t)
        BY <2>5, <1>t, <1>f, <1>p DEF OutcomeSave, TypeOK, TxnPC, Recording
    <2>6. CASE OutcomeCache(t)
        <3>1. ctx' \in [Txn -> Ctx]
            BY <2>6, <1>t, <1>f DEF OutcomeCache, TypeOK, Ctx
        <3>2. pc' \in [Txn -> TxnPC]
            BY <2>6, <1>t DEF OutcomeCache, TypeOK, TxnPC
        <3> QED BY <2>6, <1>t, <1>f, <1>c, <3>1, <3>2 DEF OutcomeCache, TypeOK, store
    <2> QED BY <1>7, <2>1, <2>2, <2>3, <2>4, <2>5, <2>6 DEF OutcomeStep
<1>8. ASSUME NEW t \in Txn, NEW r \in Replica, NEW g \in Gateway,
             MarkProbeSelected(t, r, g) \/ Route(t, r, g)
      PROVE  TypeOK'
    <2>1. ctx' \in [Txn -> Ctx]
        <3>1. CASE MarkProbeSelected(t, r, g)
            BY <3>1, <1>t, <1>f, <1>n DEF MarkProbeSelected, TypeOK, Ctx
        <3>2. CASE Route(t, r, g)
            BY <3>2, <1>t, <1>f DEF Route, TypeOK, Ctx
        <3> QED BY <1>8, <3>1, <3>2
    <2>2. pc' \in [Txn -> TxnPC]
        BY <1>8, <1>t DEF MarkProbeSelected, Route, TypeOK, TxnPC, Selecting
    <2> QED BY <1>8, <1>t, <2>1, <2>2 DEF MarkProbeSelected, Route, TypeOK, store
<1>9. ASSUME NEW t \in Txn, NEW r \in Replica, NEW s \in Status,
             RecordOutcome(t, r, s)
      PROVE  TypeOK'
    <2>1. ctx' \in [Txn -> Ctx]
        BY <1>9, <1>t, <1>f, <1>n DEF RecordOutcome, TypeOK, Ctx
    <2> QED BY <1>9, <1>t, <2>1 DEF RecordOutcome, TypeOK, TxnPC, Recording, store
<1>10. CASE UNCHANGED vars
    BY <1>10, <1>t DEF vars, TypeOK
<1> QED BY <1>1, <1>2, <1>3, <1>4, <1>5, <1>6, <1>7, <1>8, <1>9, <1>10 DEF Next

\* No step lets a call carry a time later than the clock, and the history
\* variable follows the repository.
LEMMA StampsStep == HealthInv /\ [Next]_vars => StampsOK'
<1> SUFFICES ASSUME HealthInv, [Next]_vars PROVE StampsOK'
    OBVIOUS
<1>t. TypeOK /\ StampsOK
    BY DEF HealthInv
<1>n. clock \in Nat /\ clock <= clock /\ 0 <= clock
    BY <1>t DEF TypeOK
<1> DEFINE Watched == \A g \in Gateway :
             /\ lastHealthy[g] <= clock
             /\ states[g].state = "healthy" => lastHealthy[g] = clock
<1>p. \A g \in Gateway, s \in RuntimeState : Put(g, s) /\ clock' = clock => Watched'
    BY <1>t DEF TypeOK, StampsOK, Put
<1>s. UNCHANGED store => clock' = clock /\ Watched'
    BY <1>t DEF StampsOK, store
<1>w. ASSUME clock' = clock, Watched',
             \A r \in Replica : prep'[r].now <= clock,
             \A o \in Observer : look'[o].now <= clock,
             \A t \in Txn : ctx'[t].now <= clock
      PROVE  StampsOK'
    BY <1>w DEF StampsOK
<1>l. \A g \in Gateway : states[g] \in RuntimeState /\ LedgerOK(states[g])
    BY DEF HealthInv, TypeOK, RecordsSound, Sound
<1>f. /\ \A r \in Replica : prep[r] \in PrepFrame /\ prep[r].gateway \in Gateway
              /\ prep[r].now \in Nat /\ prep[r].state \in RuntimeState
              /\ prep[r].now <= clock
      /\ \A o \in Observer : look[o] \in LookFrame /\ look[o].gateway \in Gateway
              /\ look[o].now \in Nat /\ look[o].now <= clock
      /\ \A t \in Txn : ctx[t] \in Ctx /\ ctx[t].gateway \in Gateway
              /\ ctx[t].now \in Nat /\ ctx[t].state \in RuntimeState
              /\ ctx[t].now <= clock
    BY <1>t DEF TypeOK, StampsOK, PrepFrame, LookFrame, Ctx
<1>d. /\ prep \in [Replica -> PrepFrame] /\ look \in [Observer -> LookFrame]
      /\ ctx \in [Txn -> Ctx]
    BY <1>t DEF TypeOK
<1> HIDE DEF Watched
<1>1. CASE Tick
    BY <1>1, <1>t DEF Tick, StampsOK, TypeOK, PrepFrame, LookFrame, Ctx
<1>2. ASSUME NEW r \in Replica, PrepareStep(r) \/ PrepareFails(r) \/ Restart(r)
      PROVE  StampsOK'
    <2>1. CASE ReadCache(r)
        <3> DEFINE f == prep[r]
                   c == [f EXCEPT !.state = stateCache[r][f.gateway].state]
        <3>1. c \in PrepFrame /\ c.now = f.now
            BY <1>t, <1>f DEF TypeOK, CacheEntry, PrepFrame
        <3>2. \A i \in Replica : prep'[i].now <= clock
            BY <2>1, <1>d, <1>f, <3>1, JudgedType DEF ReadCache, PrepFrame
        <3> QED BY <2>1, <1>f, <1>s, <1>w, <3>2 DEF ReadCache
    <2>2. CASE LoadState(r)
        <3>1. Put(prep[r].gateway, Ensure(states[prep[r].gateway])) /\ clock' = clock
            BY <2>2 DEF LoadState
        <3>2. \A i \in Replica : prep'[i].now <= clock
            BY <2>2, <1>d, <1>f DEF LoadState, PrepFrame
        <3> QED BY <2>2, <1>f, <1>l, <1>p, <1>w, <3>1, <3>2, EnsureType DEF LoadState
    <2>3. CASE FillCache(r)
        <3>1. \A i \in Replica : prep'[i].now <= clock
            BY <2>3, <1>d, <1>f, JudgedType DEF FillCache
        <3> QED BY <2>3, <1>f, <1>s, <1>w, <3>1 DEF FillCache
    <2>4. CASE SaveHalfOpen(r)
        <3>1. \A i \in Replica : prep'[i].now <= clock
            BY <2>4, <1>d, <1>f DEF SaveHalfOpen, PrepFrame
        <3> QED BY <2>4, <1>f, <1>p, <1>w, <3>1 DEF SaveHalfOpen
    <2>5. CASE CacheHalfOpen(r)
        <3>1. \A i \in Replica : prep'[i].now <= clock
            BY <2>5, <1>d, <1>f DEF CacheHalfOpen, PrepFrame
        <3> QED BY <2>5, <1>f, <1>s, <1>w, <3>1 DEF CacheHalfOpen
    <2>6. CASE PruneForRouting(r)
        <3> DEFINE s == PruneExpiredHalfOpenProbes(states[prep[r].gateway], prep[r].now)
        <3>1. s \in RuntimeState
            BY <1>f, <1>l, PruneFact
        <3>2. \A i \in Replica : prep'[i].now <= clock
            BY <2>6, <1>d, <1>f DEF PruneForRouting, PrepFrame
        <3> QED BY <2>6, <1>f, <1>p, <1>w, <3>1, <3>2 DEF PruneForRouting
    <2>7. CASE CachePruned(r)
        <3>1. \A i \in Replica : prep'[i].now <= clock
            BY <2>7, <1>d, <1>f DEF CachePruned, PrepFrame
        <3> QED BY <2>7, <1>f, <1>s, <1>w, <3>1 DEF CachePruned
    <2>8. CASE PrepareReturns(r) \/ PrepareFails(r)
        <3>1. \A i \in Replica : prep'[i].now <= clock
            BY <2>8, <1>d, <1>f, <1>n DEF PrepareReturns, PrepareFails, IdlePrep
        <3> QED BY <2>8, <1>f, <1>s, <1>w, <3>1 DEF PrepareReturns, PrepareFails
    <2>9. CASE Restart(r)
        <3>1. \A i \in Replica : prep'[i].now <= clock
            BY <2>9, <1>d, <1>f, <1>n DEF Restart, IdlePrep
        <3>2. \A o \in Observer : look'[o].now <= clock
            BY <2>9, <1>d, <1>f, <1>n DEF Restart, IdleLook
        <3>3. \A t \in Txn : ctx'[t].now <= clock
            BY <2>9, <1>d, <1>f, <1>n DEF Restart, Ctx
        <3> QED BY <2>9, <1>s, <1>w, <3>1, <3>2, <3>3 DEF Restart
    <2> QED BY <1>2, <2>1, <2>2, <2>3, <2>4, <2>5, <2>6, <2>7, <2>8, <2>9
            DEF PrepareStep
<1>3. ASSUME NEW r \in Replica, NEW g \in Gateway, PrepareForRouting(r, g)
      PROVE  StampsOK'
    <2>1. \A i \in Replica : prep'[i].now <= clock
        BY <1>3, <1>d, <1>f, <1>n DEF PrepareForRouting
    <2> QED BY <1>3, <1>f, <1>s, <1>w, <2>1 DEF PrepareForRouting
<1>4. ASSUME NEW o \in Observer, LookStep(o) \/ LookFails(o)
      PROVE  StampsOK'
    <2>1. CASE LookLoad(o)
        <3>1. \A i \in Observer : look'[i].now <= clock
            BY <2>1, <1>d, <1>f DEF LookLoad, LookFrame
        <3> QED BY <2>1, <1>f, <1>l, <1>p, <1>w, <3>1, EnsureType DEF LookLoad
    <2>2. CASE LookPrune(o)
        <3>1. \A i \in Observer : look'[i].now <= clock
            BY <2>2, <1>d, <1>f DEF LookPrune, LookFrame
        <3>2. PruneExpiredHalfOpenProbes(states[look[o].gateway], look[o].now)
                \in RuntimeState
            BY <1>f, <1>l, PruneFact
        <3> QED BY <2>2, <1>f, <1>p, <1>w, <3>1, <3>2 DEF LookPrune
    <2>3. CASE LookCache(o) \/ LookFails(o)
        <3>1. \A i \in Observer : look'[i].now <= clock
            BY <2>3, <1>d, <1>f, <1>n DEF LookCache, LookFails, IdleLook
        <3> QED BY <2>3, <1>f, <1>s, <1>w, <3>1 DEF LookCache, LookFails
    <2> QED BY <1>4, <2>1, <2>2, <2>3 DEF LookStep
<1>5. ASSUME NEW o \in Observer, NEW r \in Replica, NEW g \in Gateway, State(o, r, g)
      PROVE  StampsOK'
    <2>1. \A i \in Observer : look'[i].now <= clock
        BY <1>5, <1>d, <1>f, <1>n DEF State
    <2> QED BY <1>5, <1>f, <1>s, <1>w, <2>1 DEF State
<1>6. ASSUME NEW t \in Txn, \/ InitiateStep(t) \/ AcquireFails(t)
                            \/ InitiateFails(t) \/ HandlerFails(t)
      PROVE  StampsOK'
    <2>1. CASE TryAcquire(t)
        <3> DEFINE s == TryAcquireHalfOpenProbe(states[ctx[t].gateway], t,
                          HalfOpenProbeCount, ctx[t].now + ProbeTimeout, ctx[t].now)
        <3>1. ctx[t].now + ProbeTimeout \in Nat
            BY <1>f, ConfigAssumption
        <3>2. s \in RuntimeState
            BY <1>f, <1>l, <3>1, AcquireFact
        <3>3. \A i \in Txn : ctx'[i].now <= clock
            BY <2>1, <1>d, <1>f DEF TryAcquire, Ctx
        <3> QED BY <2>1, <1>f, <1>p, <1>w, <3>2, <3>3 DEF TryAcquire
    <2>2. CASE CacheAcquired(t)
        <3>1. \A i \in Txn : ctx'[i].now <= clock
            BY <2>2, <1>d, <1>f, <1>n DEF CacheAcquired, Ctx
        <3> QED BY <2>2, <1>f, <1>s, <1>w, <3>1 DEF CacheAcquired
    <2>3. CASE Initiated(t)
        BY <2>3, <1>f, <1>s, <1>w DEF Initiated
    <2>4. CASE ReleaseProbe(t)
        <3>1. ReleaseHalfOpenProbe(states[ctx[t].gateway], t, ctx[t].now)
                \in RuntimeState
            BY <1>f, <1>l, ReleaseFact
        <3>2. \A i \in Txn : ctx'[i].now <= clock
            BY <2>4, <1>d, <1>f DEF ReleaseProbe, Ctx
        <3> QED BY <2>4, <1>f, <1>p, <1>w, <3>1, <3>2 DEF ReleaseProbe
    <2>5. CASE CacheReleased(t)
        <3>1. \A i \in Txn : ctx'[i].now <= clock
            BY <2>5, <1>d, <1>f, <1>n DEF CacheReleased, Ctx
        <3> QED BY <2>5, <1>f, <1>s, <1>w, <3>1 DEF CacheReleased
    <2>6. CASE AcquireFails(t)
        <3>1. \A i \in Txn : ctx'[i].now <= clock
            BY <2>6, <1>d, <1>f, <1>n DEF AcquireFails, Ctx
        <3> QED BY <2>6, <1>f, <1>s, <1>w, <3>1 DEF AcquireFails
    <2>7. CASE InitiateFails(t)
        <3>1. \A i \in Txn : ctx'[i].now <= clock
            BY <2>7, <1>d, <1>f, <1>n DEF InitiateFails, Ctx
        <3> QED BY <2>7, <1>f, <1>s, <1>w, <3>1 DEF InitiateFails
    <2>8. CASE HandlerFails(t)
        <3>1. \A i \in Txn : ctx'[i].now <= clock
            BY <2>8, <1>d, <1>f, <1>n DEF HandlerFails, Ctx
        <3> QED BY <2>8, <1>f, <1>s, <1>w, <3>1 DEF HandlerFails
    <2> QED BY <1>6, <2>1, <2>2, <2>3, <2>4, <2>5, <2>6, <2>7, <2>8
            DEF InitiateStep
<1>7. ASSUME NEW t \in Txn, OutcomeStep(t)
      PROVE  StampsOK'
    <2>1. CASE OutcomeEvent(t)
        <3>1. clock' = clock /\ Watched'
            BY <2>1, <1>t DEF OutcomeEvent, StampsOK, Watched
        <3> QED BY <2>1, <1>f, <1>w, <3>1 DEF OutcomeEvent
    <2>2. CASE OutcomeGet(t)
        <3>1. \A i \in Txn : ctx'[i].now <= clock
            BY <2>2, <1>d, <1>f DEF OutcomeGet, Ctx
        <3> QED BY <2>2, <1>f, <1>s, <1>w, <3>1 DEF OutcomeGet
    <2>3. CASE OutcomeStats(t)
        <3>1. \A i \in Txn : ctx'[i].now <= clock
            BY <2>3, <1>d, <1>f DEF OutcomeStats, Ctx
        <3> QED BY <2>3, <1>f, <1>s, <1>w, <3>1 DEF OutcomeStats
    <2>4. CASE OutcomeRelease(t)
        <3>1. ReleaseHalfOpenProbe(states[ctx[t].gateway], t, ctx[t].now)
                \in RuntimeState
            BY <1>f, <1>l, ReleaseFact
        <3>2. \A i \in Txn : ctx'[i].now <= clock
            BY <2>4, <1>d, <1>f DEF OutcomeRelease, Ctx
        <3> QED BY <2>4, <1>f, <1>p, <1>w, <3>1, <3>2 DEF OutcomeRelease
    <2>5. CASE OutcomeSave(t)
        BY <2>5, <1>f, <1>p, <1>w DEF OutcomeSave
    <2>6. CASE OutcomeCache(t)
        <3>1. \A i \in Txn : ctx'[i].now <= clock
            BY <2>6, <1>d, <1>f, <1>n DEF OutcomeCache, Ctx
        <3> QED BY <2>6, <1>f, <1>s, <1>w, <3>1 DEF OutcomeCache
    <2> QED BY <1>7, <2>1, <2>2, <2>3, <2>4, <2>5, <2>6 DEF OutcomeStep
<1>8. ASSUME NEW t \in Txn, NEW r \in Replica, NEW g \in Gateway,
             MarkProbeSelected(t, r, g) \/ Route(t, r, g)
      PROVE  StampsOK'
    <2>1. \A i \in Txn : ctx'[i].now <= clock
        <3>1. CASE MarkProbeSelected(t, r, g)
            BY <3>1, <1>d, <1>f, <1>n DEF MarkProbeSelected, Ctx
        <3>2. CASE Route(t, r, g)
            BY <3>2, <1>d, <1>f DEF Route, Ctx
        <3> QED BY <1>8, <3>1, <3>2
    <2> QED BY <1>8, <1>f, <1>s, <1>w, <2>1 DEF MarkProbeSelected, Route
<1>9. ASSUME NEW t \in Txn, NEW r \in Replica, NEW s \in Status,
             RecordOutcome(t, r, s)
      PROVE  StampsOK'
    <2>1. \A i \in Txn : ctx'[i].now <= clock
        BY <1>9, <1>d, <1>f, <1>n DEF RecordOutcome, Ctx
    <2> QED BY <1>9, <1>f, <1>s, <1>w, <2>1 DEF RecordOutcome
<1>10. CASE UNCHANGED vars
    BY <1>10, <1>t DEF vars, StampsOK
<1> QED BY <1>1, <1>2, <1>3, <1>4, <1>5, <1>6, <1>7, <1>8, <1>9, <1>10 DEF Next

-----------------------------------------------------------------------------
(* Soundness of the copies of a record.                                    *)

\* A record without slots has a correct counter when the counter is zero.
LEMMA EmptyLedger ==
    ASSUME NEW s, s.probes = {}, s.inFlight = 0
    PROVE  LedgerOK(s)
BY FS_EmptySet, ConfigAssumption DEF LedgerOK

\* Time passing does not make a record unsound.
LEMMA CooldownMonotone ==
    ASSUME NEW s \in RuntimeState, NEW a \in Nat, NEW b \in Nat, a <= b,
           CooldownOK(s, a)
    PROVE  CooldownOK(s, b)
BY DEF CooldownOK, RuntimeState

\* The record a missing gateway stands for, and the one Ensure creates, are sound.
LEMMA PlaceholderSound ==
    ASSUME NEW time \in Nat
    PROVE  /\ LedgerOK(NoState) /\ CooldownOK(NoState, time)
           /\ LedgerOK(NewState) /\ CooldownOK(NewState, time)
<1>1. LedgerOK(NoState) /\ LedgerOK(NewState)
    BY EmptyLedger DEF NoState, NewState
<1> QED BY <1>1 DEF CooldownOK, NoState, NewState

\* Ensure keeps a sound record sound.
LEMMA EnsureSound ==
    ASSUME NEW s \in RuntimeState, NEW time \in Nat,
           LedgerOK(s), CooldownOK(s, time)
    PROVE  /\ LedgerOK(Ensure(s)) /\ CooldownOK(Ensure(s), time)
           /\ Ensure(s).probes \subseteq s.probes
BY PlaceholderSound DEF Ensure, NewState, NoState

\* PrepareForRouting's transition: the copy it saves is unhealthy, hence has
\* no slots that its reset counter would miss, and its deadline has passed.
LEMMA JudgedSound ==
    ASSUME NEW f \in PrepFrame, NEW time \in Nat, f.now <= time,
           LedgerOK(f.state), CooldownOK(f.state, time)
    PROVE  /\ LedgerOK(Judged(f).state) /\ CooldownOK(Judged(f).state, time)
           /\ Judged(f).pc \in {"save", "saved"} =>
                /\ Judged(f).state.probes = {}
                /\ Judged(f).state.state = "half_open"
           /\ Judged(f).state.state = "healthy" =>
                Judged(f).pc = "done" /\ f.state.state = "healthy"
<1>0. f.state \in RuntimeState /\ f.now \in Nat
    BY DEF PrepFrame
<1>1. CASE CooldownOver(f.state, f.now)
    <2> DEFINE s == HalfOpenForRouting(f.state)
    <2>1. Judged(f).pc = "save" /\ Judged(f).state = s
        BY <1>1 DEF Judged, PrepFrame
    <2>2. /\ s.probes = {} /\ s.inFlight = 0 /\ s.state = "half_open"
          /\ s.unhealthyUntil = f.state.unhealthyUntil
        BY <1>0, <1>1 DEF HalfOpenForRouting, CooldownOver, RuntimeState, LedgerOK
    <2>3. f.state.unhealthyUntil # ZeroTime /\ f.state.unhealthyUntil <= time
        BY <1>0, <1>1 DEF CooldownOver, RuntimeState
    <2> HIDE DEF s
    <2>4. LedgerOK(s)
        BY <2>2, EmptyLedger
    <2>5. CooldownOK(s, time)
        BY <2>2, <2>3 DEF CooldownOK
    <2> QED BY <2>1, <2>2, <2>4, <2>5
<1>2. CASE ~ CooldownOver(f.state, f.now)
    BY <1>0, <1>2 DEF Judged, PrepFrame
<1> QED BY <1>1, <1>2

\* What RecordOutcome saves is sound and holds no slot.
LEMMA OutcomeSound ==
    ASSUME NEW s \in RuntimeState, NEW now \in Nat, NEW time \in Nat, now <= time,
           LedgerOK(s), CooldownOK(s, time)
    PROVE  /\ s.state = "unhealthy" =>
                /\ LedgerOK(UnhealthyOutcome(s, now))
                /\ CooldownOK(UnhealthyOutcome(s, now), time)
                /\ UnhealthyOutcome(s, now).probes = {}
           /\ \A stats : /\ LedgerOK(HealthyOutcome(s, stats, now))
                         /\ CooldownOK(HealthyOutcome(s, stats, now), time)
                         /\ HealthyOutcome(s, stats, now).probes = {}
           /\ \A status : /\ LedgerOK(ProbeOutcome(s, status, now))
                          /\ CooldownOK(ProbeOutcome(s, status, now), time)
                          /\ ProbeOutcome(s, status, now).probes = {}
<1> DEFINE H == ToHealthy(s)
           U == markUnhealthy(s, now)
           O == HalfOpenForCallback(s)
<1>1. LedgerOK(H) /\ CooldownOK(H, time) /\ H.probes = {}
    <2>1. LedgerOK(H)
        BY EmptyLedger DEF ToHealthy
    <2> QED BY <2>1 DEF ToHealthy, CooldownOK
<1>2. LedgerOK(U) /\ CooldownOK(U, time) /\ U.probes = {}
    <2>1. LedgerOK(U)
        BY EmptyLedger DEF markUnhealthy, ToUnhealthy
    <2>2. now + Cooldown # ZeroTime
        BY ConfigAssumption DEF ZeroTime
    <2> QED BY <2>1, <2>2 DEF markUnhealthy, ToUnhealthy, CooldownOK
<1>3. ASSUME s.state = "unhealthy"
      PROVE  LET R == UnhealthyOutcome(s, now)
             IN  LedgerOK(R) /\ CooldownOK(R, time) /\ R.probes = {}
    <2>1. s.probes = {} /\ s.unhealthyUntil # ZeroTime /\ s.unhealthyUntil \in Nat
        BY <1>3 DEF LedgerOK, CooldownOK, RuntimeState
    <2>2. CASE now >= s.unhealthyUntil
        <3>1. O.probes = {} /\ O.inFlight = 0 /\ O.state = "half_open"
              /\ O.unhealthyUntil = s.unhealthyUntil
            BY DEF HalfOpenForCallback, RuntimeState
        <3>2. LedgerOK(O)
            BY <3>1, EmptyLedger
        <3>3. CooldownOK(O, time)
            BY <2>1, <2>2, <3>1 DEF CooldownOK
        <3> QED BY <2>2, <3>1, <3>2, <3>3 DEF UnhealthyOutcome
    <2>3. CASE ~ (now >= s.unhealthyUntil)
        BY <2>1, <2>3 DEF UnhealthyOutcome
    <2> QED BY <2>2, <2>3
<1> QED BY <1>1, <1>2, <1>3 DEF HealthyOutcome, ProbeOutcome

\* The locals of the calls in progress, typed and sound.
FramesOK ==
    /\ clock \in Nat
    /\ \A g \in Gateway : /\ states[g] \in RuntimeState
          /\ LedgerOK(states[g]) /\ CooldownOK(states[g], clock)
    /\ \A r \in Replica : /\ prep[r] \in PrepFrame
          /\ prep[r].gateway \in Gateway
          /\ prep[r].now \in Nat /\ prep[r].now <= clock
          /\ prep[r].state \in RuntimeState
          /\ LedgerOK(prep[r].state) /\ CooldownOK(prep[r].state, clock)
    /\ \A o \in Observer : /\ look[o] \in LookFrame
          /\ look[o].gateway \in Gateway /\ look[o].replica \in Replica
          /\ look[o].now \in Nat /\ look[o].now <= clock
          /\ look[o].state \in RuntimeState
          /\ LedgerOK(look[o].state) /\ CooldownOK(look[o].state, clock)
    /\ \A t \in Txn : /\ ctx[t] \in Ctx
          /\ ctx[t].gateway \in Gateway /\ ctx[t].replica \in Replica
          /\ ctx[t].now \in Nat /\ ctx[t].now <= clock
          /\ ctx[t].state \in RuntimeState /\ ctx[t].probe \in Nat
          /\ LedgerOK(ctx[t].state) /\ CooldownOK(ctx[t].state, clock)
    /\ \A r \in Replica, g \in Gateway :
          /\ stateCache[r][g].state \in RuntimeState
          /\ stateCache[r][g].expiresAt \in Nat
          /\ LedgerOK(stateCache[r][g].state)
          /\ CooldownOK(stateCache[r][g].state, clock)

\* They follow from the invariant.
LEMMA FrameFacts == HealthInv => FramesOK
<1> SUFFICES ASSUME HealthInv PROVE FramesOK
    OBVIOUS
<1>1. TypeOK /\ StampsOK /\ RecordsSound
    BY DEF HealthInv
<1>2. \A r \in Replica, g \in Gateway : stateCache[r][g] \in CacheEntry
    BY <1>1 DEF TypeOK
<1> QED BY <1>1, <1>2 DEF FramesOK, TypeOK, StampsOK, RecordsSound, Sound,
            PrepFrame, LookFrame, Ctx, CacheEntry

\* Every record written, cached or held by a call is sound after every step.
LEMMA RecordsStep == HealthInv /\ [Next]_vars => RecordsSound'
<1> SUFFICES ASSUME HealthInv, [Next]_vars PROVE RecordsSound'
    OBVIOUS
<1>t. TypeOK /\ RecordsSound
    BY DEF HealthInv
<1>d. /\ prep \in [Replica -> PrepFrame] /\ look \in [Observer -> LookFrame]
      /\ ctx \in [Txn -> Ctx] /\ pc \in [Txn -> TxnPC]
      /\ stateCache \in [Replica -> [Gateway -> CacheEntry]]
      /\ states \in [Gateway -> RuntimeState]
    BY <1>t DEF TypeOK
<1>f. FramesOK
    BY FrameFacts
<1> DEFINE
      SoundNow(s) == LedgerOK(s) /\ CooldownOK(s, clock)
      PrepSound(f) == /\ SoundNow(f.state)
                      /\ f.pc \in {"save", "saved"} =>
                           f.state.probes = {} /\ f.state.state = "half_open"
      CtxSound(c, at) == SoundNow(c.state) /\ (at = "save" => c.state.probes = {})
      StatesSound == \A g \in Gateway : SoundNow(states'[g])
      CachesSound == \A r \in Replica, g \in Gateway : SoundNow(stateCache'[r][g].state)
      PrepsSound == \A r \in Replica : PrepSound(prep'[r])
      LooksSound == \A o \in Observer : SoundNow(look'[o].state)
      CtxsSound == \A t \in Txn : CtxSound(ctx'[t], pc'[t])
<1>w. ASSUME clock' = clock, StatesSound, CachesSound, PrepsSound, LooksSound,
             CtxsSound
      PROVE  RecordsSound'
    BY <1>w DEF RecordsSound, Sound
<1>u. /\ states' = states => StatesSound
      /\ stateCache' = stateCache => CachesSound
      /\ prep' = prep => PrepsSound
      /\ look' = look => LooksSound
      /\ ctx' = ctx /\ pc' = pc => CtxsSound
    BY <1>t DEF RecordsSound, Sound
<1>p. \A g \in Gateway, s \in RuntimeState : Put(g, s) /\ SoundNow(s) => StatesSound
    BY <1>f, <1>d DEF FramesOK, Put
<1>c. \A r \in Replica, g \in Gateway, s \in RuntimeState, now \in Nat :
         setCachedState(r, g, s, now) /\ SoundNow(s) => CachesSound
    <2> SUFFICES ASSUME NEW r \in Replica, NEW g \in Gateway,
                        NEW s \in RuntimeState, NEW now \in Nat,
                        setCachedState(r, g, s, now), SoundNow(s),
                        NEW i \in Replica, NEW h \in Gateway
                 PROVE  SoundNow(stateCache'[i][h].state)
        OBVIOUS
    <2>1. stateCache'[i][h].state = s \/ stateCache'[i][h].state = stateCache[i][h].state
        BY <1>d DEF setCachedState
    <2> QED BY <1>f, <2>1 DEF FramesOK
<1>q. \A r \in Replica, f \in PrepFrame :
         prep' = [prep EXCEPT ![r] = f] /\ PrepSound(f) => PrepsSound
    BY <1>t, <1>d DEF RecordsSound, Sound
<1>o. \A o \in Observer, f \in LookFrame :
         look' = [look EXCEPT ![o] = f] /\ SoundNow(f.state) => LooksSound
    BY <1>t, <1>d DEF RecordsSound, Sound
<1>x. \A t \in Txn, c \in Ctx, at \in TxnPC :
         /\ ctx' = [ctx EXCEPT ![t] = c] /\ pc' = [pc EXCEPT ![t] = at]
         /\ CtxSound(c, at)
         => CtxsSound
    BY <1>t, <1>d DEF RecordsSound, Sound
<1>n. SoundNow(NoState) /\ NoState \in RuntimeState
    BY <1>f, PlaceholderSound, PlaceholderTypes DEF FramesOK
<1>i. /\ IdlePrep \in PrepFrame /\ PrepSound(IdlePrep)
      /\ IdleLook \in LookFrame /\ SoundNow(IdleLook.state)
    BY <1>n, PlaceholderTypes DEF IdlePrep, IdleLook
<1>r. \A r \in Replica : PrepSound(prep[r])
    BY <1>t DEF RecordsSound, Sound
<1>e. \A t \in Txn : CtxSound(ctx[t], pc[t])
    BY <1>t DEF RecordsSound, Sound
<1>s. UNCHANGED store => clock' = clock /\ StatesSound
    BY <1>u DEF store
<1> HIDE DEF StatesSound, CachesSound, PrepsSound, LooksSound, CtxsSound
<1>1. CASE Tick
    <2>1. /\ clock \in Nat /\ clock' \in Nat /\ clock <= clock'
          /\ UNCHANGED <<states, stateCache, prep, look, pc, ctx>>
        BY <1>1, <1>f DEF Tick, FramesOK
    <2> QED BY <2>1, <1>t, <1>f, CooldownMonotone DEF RecordsSound, Sound, FramesOK
<1>2. ASSUME NEW r \in Replica, PrepareStep(r) \/ PrepareFails(r) \/ Restart(r)
      PROVE  RecordsSound'
    <2>f. /\ prep[r] \in PrepFrame /\ prep[r].gateway \in Gateway
          /\ prep[r].now \in Nat /\ prep[r].state \in RuntimeState
          /\ SoundNow(prep[r].state)
          /\ states[prep[r].gateway] \in RuntimeState
          /\ SoundNow(states[prep[r].gateway])
        BY <1>f DEF FramesOK
    <2>1. CASE ReadCache(r)
        <3> DEFINE f == prep[r]
                   s == stateCache[r][f.gateway].state
                   c == [f EXCEPT !.state = s]
                   l == [f EXCEPT !.pc = "load"]
        <3>1. s \in RuntimeState /\ SoundNow(s)
            BY <1>f, <2>f DEF FramesOK
        <3>2. /\ c \in PrepFrame /\ c.now = f.now /\ c.state = s
              /\ l \in PrepFrame /\ l.state = f.state /\ l.pc = "load"
            BY <2>f, <3>1 DEF PrepFrame, PrepPC
        <3>3. prep' = [prep EXCEPT ![r] = Judged(c)] \/ prep' = [prep EXCEPT ![r] = l]
            BY <2>1 DEF ReadCache
        <3> HIDE DEF c, l, s
        <3>4. Judged(c) \in PrepFrame /\ PrepSound(Judged(c))
            BY <1>f, <3>1, <3>2, JudgedType, JudgedSound DEF FramesOK
        <3>5. PrepSound(l)
            BY <2>f, <3>2
        <3>6. PrepsSound
            BY <1>q, <3>2, <3>3, <3>4, <3>5
        <3> QED BY <2>1, <1>s, <1>u, <1>w, <3>6 DEF ReadCache
    <2>2. CASE LoadState(r)
        <3> DEFINE s == Ensure(states[prep[r].gateway])
                   c == [prep[r] EXCEPT !.pc = "fill", !.state = s]
        <3>1. s \in RuntimeState /\ SoundNow(s)
            BY <1>f, <2>f, EnsureType, EnsureSound DEF FramesOK
        <3>2. prep' = [prep EXCEPT ![r] = c] /\ Put(prep[r].gateway, s)
            BY <2>2, <1>d DEF LoadState
        <3>3. c \in PrepFrame /\ PrepSound(c)
            BY <2>f, <3>1 DEF PrepFrame, PrepPC
        <3>4. PrepsSound
            BY <1>q, <3>2, <3>3
        <3>5. StatesSound
            BY <1>p, <2>f, <3>1, <3>2
        <3> QED BY <2>2, <1>u, <1>w, <3>4, <3>5 DEF LoadState
    <2>3. CASE FillCache(r)
        <3>1. PrepsSound
            BY <2>3, <1>q, <1>f, <2>f, JudgedType, JudgedSound DEF FillCache, FramesOK
        <3>2. CachesSound
            BY <2>3, <1>c, <2>f DEF FillCache
        <3> QED BY <2>3, <1>s, <1>u, <1>w, <3>1, <3>2 DEF FillCache
    <2>4. CASE SaveHalfOpen(r)
        <3> DEFINE c == [prep[r] EXCEPT !.pc = "saved"]
        <3>1. c \in PrepFrame /\ PrepSound(c) /\ prep' = [prep EXCEPT ![r] = c]
            BY <2>4, <1>d, <1>r, <2>f DEF SaveHalfOpen, PrepFrame, PrepPC
        <3>2. StatesSound
            BY <2>4, <1>p, <2>f DEF SaveHalfOpen
        <3>3. PrepsSound
            BY <1>q, <3>1
        <3> QED BY <2>4, <1>u, <1>w, <3>2, <3>3 DEF SaveHalfOpen
    <2>5. CASE CacheHalfOpen(r)
        <3> DEFINE c == [prep[r] EXCEPT !.pc = "prune"]
        <3>1. c \in PrepFrame /\ PrepSound(c) /\ prep' = [prep EXCEPT ![r] = c]
            BY <2>5, <1>d, <2>f DEF CacheHalfOpen, PrepFrame, PrepPC
        <3>2. CachesSound
            BY <2>5, <1>c, <2>f DEF CacheHalfOpen
        <3>3. PrepsSound
            BY <1>q, <3>1
        <3> QED BY <2>5, <1>s, <1>u, <1>w, <3>2, <3>3 DEF CacheHalfOpen
    <2>6. CASE PruneForRouting(r)
        <3> DEFINE s == PruneExpiredHalfOpenProbes(states[prep[r].gateway], prep[r].now)
                   c == [prep[r] EXCEPT !.pc = "pruned", !.state = s]
        <3>1. s \in RuntimeState /\ LedgerOK(s) /\ s.state = states[prep[r].gateway].state
              /\ s.unhealthyUntil = states[prep[r].gateway].unhealthyUntil
              /\ (s.state # "half_open" => s = states[prep[r].gateway])
            BY <2>f, PruneFact
        <3>2. SoundNow(s)
            BY <2>f, <3>1 DEF CooldownOK
        <3>3. prep' = [prep EXCEPT ![r] = c] /\ Put(prep[r].gateway, s)
            BY <2>6, <1>d DEF PruneForRouting
        <3> HIDE DEF s
        <3>4. c \in PrepFrame /\ PrepSound(c)
            BY <2>f, <3>1, <3>2 DEF PrepFrame, PrepPC
        <3>5. PrepsSound
            BY <1>q, <3>3, <3>4
        <3>6. StatesSound
            BY <1>p, <2>f, <3>1, <3>2, <3>3
        <3> QED BY <2>6, <1>u, <1>w, <3>5, <3>6 DEF PruneForRouting
    <2>7. CASE CachePruned(r)
        <3> DEFINE c == [prep[r] EXCEPT !.pc = "done"]
        <3>1. c \in PrepFrame /\ PrepSound(c) /\ prep' = [prep EXCEPT ![r] = c]
            BY <2>7, <1>d, <2>f DEF CachePruned, PrepFrame, PrepPC
        <3>2. CachesSound
            BY <2>7, <1>c, <2>f DEF CachePruned
        <3>3. PrepsSound
            BY <1>q, <3>1
        <3> QED BY <2>7, <1>s, <1>u, <1>w, <3>2, <3>3 DEF CachePruned
    <2>8. CASE PrepareReturns(r) \/ PrepareFails(r)
        <3>1. PrepsSound
            BY <2>8, <1>q, <1>i DEF PrepareReturns, PrepareFails
        <3> QED BY <2>8, <1>s, <1>u, <1>w, <3>1 DEF PrepareReturns, PrepareFails
    <2>9. CASE Restart(r)
        <3>1. PrepsSound
            BY <2>9, <1>q, <1>i DEF Restart
        <3>2. CachesSound
            BY <2>9, <1>d, <1>f, <1>n DEF Restart, CachesSound, FramesOK, NoEntry
        <3>3. LooksSound
            BY <2>9, <1>f, <1>i DEF Restart, LooksSound, FramesOK
        <3>4. CtxsSound
            <4> SUFFICES ASSUME NEW t \in Txn PROVE CtxSound(ctx'[t], pc'[t])
                BY DEF CtxsSound
            <4>1. CASE t \in CrashedTxns(r)
                <5>1. ctx'[t].state = NoState /\ pc'[t] = "aborted"
                    BY <2>9, <4>1, <1>f DEF Restart, FramesOK, Ctx
                <5> QED BY <5>1, <1>n
            <4>2. CASE t \notin CrashedTxns(r)
                BY <2>9, <4>2, <1>e DEF Restart
            <4> QED BY <4>1, <4>2
        <3> QED BY <2>9, <1>s, <1>w, <3>1, <3>2, <3>3, <3>4 DEF Restart
    <2> QED BY <1>2, <2>1, <2>2, <2>3, <2>4, <2>5, <2>6, <2>7, <2>8, <2>9
            DEF PrepareStep
<1>3. ASSUME NEW r \in Replica, NEW g \in Gateway, PrepareForRouting(r, g)
      PROVE  RecordsSound'
    <2> DEFINE c == [pc |-> "read", gateway |-> g, now |-> clock, state |-> NoState]
    <2>1. c \in PrepFrame /\ PrepSound(c)
        BY <1>f, <1>n DEF FramesOK, PrepFrame, PrepPC
    <2>2. PrepsSound
        BY <1>3, <1>q, <2>1 DEF PrepareForRouting
    <2> QED BY <1>3, <1>s, <1>u, <1>w, <2>2 DEF PrepareForRouting
<1>4. ASSUME NEW o \in Observer, LookStep(o) \/ LookFails(o)
      PROVE  RecordsSound'
    <2>f. /\ look[o] \in LookFrame /\ look[o].gateway \in Gateway
          /\ look[o].replica \in Replica
          /\ look[o].now \in Nat /\ look[o].state \in RuntimeState
          /\ SoundNow(look[o].state)
          /\ states[look[o].gateway] \in RuntimeState
          /\ SoundNow(states[look[o].gateway])
        BY <1>f DEF FramesOK
    <2>1. CASE LookLoad(o)
        <3> DEFINE s == Ensure(states[look[o].gateway])
                   c == [look[o] EXCEPT !.state = s,
                          !.pc = IF s.state = "half_open" THEN "prune" ELSE "cache"]
        <3>1. s \in RuntimeState /\ SoundNow(s)
            BY <1>f, <2>f, EnsureType, EnsureSound DEF FramesOK
        <3>2. look' = [look EXCEPT ![o] = c] /\ Put(look[o].gateway, s)
            BY <2>1, <1>d DEF LookLoad
        <3>3. c \in LookFrame /\ SoundNow(c.state)
            BY <2>f, <3>1 DEF LookFrame, LookPC
        <3>4. LooksSound
            BY <1>o, <3>2, <3>3
        <3>5. StatesSound
            BY <1>p, <2>f, <3>1, <3>2
        <3> QED BY <2>1, <1>u, <1>w, <3>4, <3>5 DEF LookLoad
    <2>2. CASE LookPrune(o)
        <3> DEFINE s == PruneExpiredHalfOpenProbes(states[look[o].gateway], look[o].now)
                   c == [look[o] EXCEPT !.state = s, !.pc = "cache"]
        <3>1. s \in RuntimeState /\ LedgerOK(s) /\ s.state = states[look[o].gateway].state
              /\ s.unhealthyUntil = states[look[o].gateway].unhealthyUntil
              /\ (s.state # "half_open" => s = states[look[o].gateway])
            BY <2>f, PruneFact
        <3>2. SoundNow(s)
            BY <2>f, <3>1 DEF CooldownOK
        <3>3. look' = [look EXCEPT ![o] = c] /\ Put(look[o].gateway, s)
            BY <2>2, <1>d DEF LookPrune
        <3> HIDE DEF s
        <3>4. c \in LookFrame /\ SoundNow(c.state)
            BY <2>f, <3>1, <3>2 DEF LookFrame, LookPC
        <3>5. LooksSound
            BY <1>o, <3>3, <3>4
        <3>6. StatesSound
            BY <1>p, <2>f, <3>1, <3>2, <3>3
        <3> QED BY <2>2, <1>u, <1>w, <3>5, <3>6 DEF LookPrune
    <2>3. CASE LookCache(o)
        <3>1. LooksSound /\ CachesSound
            BY <2>3, <1>o, <1>i, <1>c, <2>f DEF LookCache
        <3> QED BY <2>3, <1>s, <1>u, <1>w, <3>1 DEF LookCache
    <2>4. CASE LookFails(o)
        <3>1. LooksSound
            BY <2>4, <1>o, <1>i DEF LookFails
        <3> QED BY <2>4, <1>s, <1>u, <1>w, <3>1 DEF LookFails
    <2> QED BY <1>4, <2>1, <2>2, <2>3, <2>4 DEF LookStep
<1>5. ASSUME NEW o \in Observer, NEW r \in Replica, NEW g \in Gateway, State(o, r, g)
      PROVE  RecordsSound'
    <2> DEFINE c == [pc |-> "load", replica |-> r, gateway |-> g, now |-> clock,
                     state |-> NoState]
    <2>1. c \in LookFrame /\ SoundNow(c.state)
        BY <1>f, <1>n DEF FramesOK, LookFrame, LookPC
    <2>2. LooksSound
        BY <1>5, <1>o, <2>1 DEF State
    <2> QED BY <1>5, <1>s, <1>u, <1>w, <2>2 DEF State
<1>6. ASSUME NEW t \in Txn, \/ InitiateStep(t) \/ AcquireFails(t)
                            \/ InitiateFails(t) \/ HandlerFails(t)
      PROVE  RecordsSound'
    <2>f. /\ ctx[t] \in Ctx /\ ctx[t].gateway \in Gateway /\ ctx[t].replica \in Replica
          /\ ctx[t].now \in Nat /\ ctx[t].state \in RuntimeState
          /\ SoundNow(ctx[t].state)
          /\ states[ctx[t].gateway] \in RuntimeState
          /\ SoundNow(states[ctx[t].gateway])
        BY <1>f DEF FramesOK
    \* Handlers that end drop their copy of the record.
    <2>z. \A at \in TxnPC \ {"save"} :
             /\ pc' = [pc EXCEPT ![t] = at]
             /\ \/ ctx' = [ctx EXCEPT ![t].state = NoState, ![t].now = 0]
                \/ ctx' = [ctx EXCEPT ![t].state = NoState, ![t].now = 0, ![t].probe = 0]
             => CtxsSound
        <3> SUFFICES ASSUME NEW at \in TxnPC \ {"save"}, pc' = [pc EXCEPT ![t] = at],
                            \/ ctx' = [ctx EXCEPT ![t].state = NoState, ![t].now = 0]
                            \/ ctx' = [ctx EXCEPT ![t].state = NoState, ![t].now = 0,
                                                  ![t].probe = 0]
                     PROVE  CtxsSound
            OBVIOUS
        <3> DEFINE c == [ctx[t] EXCEPT !.state = NoState, !.now = 0]
                   b == [ctx[t] EXCEPT !.state = NoState, !.now = 0, !.probe = 0]
        <3>1. ctx' = [ctx EXCEPT ![t] = c] \/ ctx' = [ctx EXCEPT ![t] = b]
            BY <1>d
        <3>2. c \in Ctx /\ c.state = NoState /\ b \in Ctx /\ b.state = NoState
            BY <2>f, <1>n DEF Ctx
        <3>3. CtxSound(c, at) /\ CtxSound(b, at) /\ at \in TxnPC
            BY <1>n, <3>2
        <3> HIDE DEF c, b, CtxSound
        <3> QED BY <1>x, <3>1, <3>2, <3>3
    <2>1. CASE TryAcquire(t)
        <3> DEFINE g == ctx[t].gateway
                   e == ctx[t].now + ProbeTimeout
                   s == TryAcquireHalfOpenProbe(states[g], t, HalfOpenProbeCount,
                                                e, ctx[t].now)
                   acquired == ProbeAvailable(states[g], HalfOpenProbeCount,
                                              ctx[t].now)
                   p == IF acquired THEN e ELSE 0
                   at == IF acquired THEN "acquired" ELSE "denied"
                   c == [ctx[t] EXCEPT !.state = s, !.probe = p]
        <3>1. e \in Nat /\ p \in Nat
            BY <2>f, ConfigAssumption
        <3>2. /\ s \in RuntimeState /\ LedgerOK(s) /\ s.state = states[g].state
              /\ s.unhealthyUntil = states[g].unhealthyUntil
              /\ (s.state # "half_open" => s = states[g])
            <4>1. states[g] \in RuntimeState /\ LedgerOK(states[g])
                BY <2>f
            <4> DEFINE u == states[g]
                       now == ctx[t].now
                       v == TryAcquireHalfOpenProbe(u, t, HalfOpenProbeCount, e, now)
            <4>2. now \in Nat
                BY <2>f
            <4> HIDE DEF u, e, now
            <4>3. /\ v \in RuntimeState /\ LedgerOK(v) /\ v.state = u.state
                  /\ v.unhealthyUntil = u.unhealthyUntil
                  /\ (u.state # "half_open" => v = u)
                BY <3>1, <4>1, <4>2, AcquireFact DEF u
            <4> QED BY <4>3 DEF u, now
        <3>3. SoundNow(s)
            BY <2>f, <3>2 DEF CooldownOK
        <3>4. /\ Put(g, s) /\ ctx' = [ctx EXCEPT ![t] = c]
              /\ pc' = [pc EXCEPT ![t] = at]
            BY <2>1, <1>d DEF TryAcquire
        <3>5. at \in TxnPC /\ at # "save"
            BY DEF TxnPC, Selecting
        <3> HIDE DEF s, p, at, g
        <3>6. c \in Ctx /\ c.state = s
            BY <2>f, <3>1, <3>2 DEF Ctx
        <3> HIDE DEF c
        <3>7. CtxsSound
            BY <1>x, <3>3, <3>4, <3>5, <3>6
        <3>8. StatesSound
            BY <1>p, <2>f, <3>2, <3>3, <3>4 DEF g
        <3> QED BY <2>1, <1>u, <1>w, <3>7, <3>8 DEF TryAcquire
    <2>2. CASE CacheAcquired(t)
        <3>1. CachesSound
            BY <2>2, <1>c, <2>f DEF CacheAcquired
        <3>2. CtxsSound
            <4>1. {"initiating", "fallback"} \subseteq TxnPC \ {"save"}
                BY DEF TxnPC
            <4>2. PICK at \in {"initiating", "fallback"} :
                     pc' = [pc EXCEPT ![t] = at]
                BY <2>2 DEF CacheAcquired
            <4>3. ctx' = [ctx EXCEPT ![t].state = NoState, ![t].now = 0]
                BY <2>2 DEF CacheAcquired
            <4> QED BY <4>1, <4>2, <4>3, <2>z
        <3> QED BY <2>2, <1>s, <1>u, <1>w, <3>1, <3>2 DEF CacheAcquired
    <2>3. CASE Initiated(t)
        <3>1. CtxsSound
            BY <2>3, <1>d, <1>e DEF Initiated, CtxsSound
        <3> QED BY <2>3, <1>s, <1>u, <1>w, <3>1 DEF Initiated
    <2>4. CASE ReleaseProbe(t)
        <3> DEFINE s == ReleaseHalfOpenProbe(states[ctx[t].gateway], t, ctx[t].now)
                   c == [ctx[t] EXCEPT !.state = s]
        <3>1. /\ s \in RuntimeState /\ LedgerOK(s)
              /\ s.state = states[ctx[t].gateway].state
              /\ s.unhealthyUntil = states[ctx[t].gateway].unhealthyUntil
              /\ (s.state # "half_open" => s = states[ctx[t].gateway])
            BY <2>f, ReleaseFact DEF ReleaseHalfOpenProbe
        <3>2. SoundNow(s)
            BY <2>f, <3>1 DEF CooldownOK
        <3>3. /\ Put(ctx[t].gateway, s) /\ ctx' = [ctx EXCEPT ![t] = c]
              /\ pc' = [pc EXCEPT ![t] = "released"]
            BY <2>4, <1>d DEF ReleaseProbe
        <3> HIDE DEF s
        <3>4. c \in Ctx /\ c.state = s /\ "released" \in TxnPC
            BY <2>f, <3>1 DEF Ctx, TxnPC, Releasing
        <3> HIDE DEF c
        <3>5. CtxsSound
            BY <1>x, <3>2, <3>3, <3>4
        <3>6. StatesSound
            BY <1>p, <2>f, <3>1, <3>2, <3>3
        <3> QED BY <2>4, <1>u, <1>w, <3>5, <3>6 DEF ReleaseProbe
    <2>5. CASE CacheReleased(t)
        <3>1. CachesSound
            BY <2>5, <1>c, <2>f DEF CacheReleased
        <3>2. CtxsSound
            BY <2>5, <2>z DEF CacheReleased, TxnPC
        <3> QED BY <2>5, <1>s, <1>u, <1>w, <3>1, <3>2 DEF CacheReleased
    <2>6. CASE AcquireFails(t) \/ HandlerFails(t)
        <3>1. CtxsSound
            BY <2>6, <2>z DEF AcquireFails, HandlerFails, TxnPC
        <3> QED BY <2>6, <1>s, <1>u, <1>w, <3>1 DEF AcquireFails, HandlerFails
    <2>7. CASE InitiateFails(t)
        <3>1. \A i \in Txn : /\ ctx'[i].state = ctx[i].state
                             /\ pc'[i] = pc[i] \/ pc'[i] \in {"release", "failed"}
            BY <2>7, <1>d, <1>f DEF InitiateFails, Ctx
        <3>2. CtxsSound
            BY <1>e, <3>1 DEF CtxsSound
        <3> QED BY <2>7, <1>s, <1>u, <1>w, <3>2 DEF InitiateFails
    <2> QED BY <1>6, <2>1, <2>2, <2>3, <2>4, <2>5, <2>6, <2>7 DEF InitiateStep
<1>7. ASSUME NEW t \in Txn, OutcomeStep(t)
      PROVE  RecordsSound'
    <2>f. /\ ctx[t] \in Ctx /\ ctx[t].gateway \in Gateway /\ ctx[t].replica \in Replica
          /\ ctx[t].now \in Nat /\ ctx[t].now <= clock
          /\ ctx[t].state \in RuntimeState
          /\ SoundNow(ctx[t].state) /\ clock \in Nat
          /\ states[ctx[t].gateway] \in RuntimeState
          /\ SoundNow(states[ctx[t].gateway])
        BY <1>f DEF FramesOK
    \* A step that gives the callback a new copy of the record.
    <2>z. \A s \in RuntimeState, at \in TxnPC :
             /\ pc' = [pc EXCEPT ![t] = at]
             /\ ctx' = [ctx EXCEPT ![t].state = s]
             /\ SoundNow(s) /\ (at = "save" => s.probes = {})
             => CtxsSound
        <3> SUFFICES ASSUME NEW s \in RuntimeState, NEW at \in TxnPC,
                            pc' = [pc EXCEPT ![t] = at],
                            ctx' = [ctx EXCEPT ![t].state = s],
                            SoundNow(s), at = "save" => s.probes = {}
                     PROVE  CtxsSound
            OBVIOUS
        <3> DEFINE c == [ctx[t] EXCEPT !.state = s]
        <3>1. ctx' = [ctx EXCEPT ![t] = c] /\ c \in Ctx /\ c.state = s
            BY <1>d, <2>f DEF Ctx
        <3> HIDE DEF c
        <3> QED BY <1>x, <3>1
    <2>1. CASE OutcomeEvent(t)
        <3>1. CtxsSound
            BY <2>1, <1>d, <1>e DEF OutcomeEvent, CtxsSound
        <3> QED BY <2>1, <1>u, <1>w, <3>1 DEF OutcomeEvent
    <2>2. CASE OutcomeGet(t)
        <3>1. CtxsSound
            BY <2>2, <2>f, <2>z DEF OutcomeGet, TxnPC, Recording
        <3> QED BY <2>2, <1>s, <1>u, <1>w, <3>1 DEF OutcomeGet
    <2>3. CASE OutcomeStats(t)
        <3> DEFINE s == ctx[t].state
                   now == ctx[t].now
                   stats == StatsSince(events, ctx[t].gateway, now - Window, now)
                   u == IF s.state = "unhealthy" THEN UnhealthyOutcome(s, now)
                                                 ELSE HealthyOutcome(s, stats, now)
        <3>1. u \in RuntimeState /\ SoundNow(u) /\ u.probes = {}
            <4> HIDE DEF stats
            <4> QED BY <2>f, OutcomeTypes, OutcomeSound
        <3>2. CtxsSound
            <4>1. CASE s.state = "half_open"
                <5>1. ctx' = ctx /\ pc' = [pc EXCEPT ![t] = "drop"]
                    BY <2>3, <4>1 DEF OutcomeStats
                <5> QED BY <5>1, <1>d, <1>e DEF CtxsSound
            <4>2. CASE s.state # "half_open"
                <5>1. /\ ctx' = [ctx EXCEPT ![t].state = u]
                      /\ pc' = [pc EXCEPT ![t] = "save"]
                    BY <2>3, <4>2 DEF OutcomeStats
                <5>2. "save" \in TxnPC
                    BY DEF TxnPC, Recording
                <5> HIDE DEF u
                <5> QED BY <5>1, <5>2, <2>z, <3>1
            <4> QED BY <4>1, <4>2
        <3> QED BY <2>3, <1>s, <1>u, <1>w, <3>2 DEF OutcomeStats
    <2>4. CASE OutcomeRelease(t)
        <3> DEFINE g == ctx[t].gateway
                   now == ctx[t].now
                   s == ReleaseHalfOpenProbe(states[g], t, now)
                   released == HoldsProbe(states[g], t, now)
                   o == ProbeOutcome(s, ctx[t].status, now)
        <3>1. /\ s \in RuntimeState /\ LedgerOK(s) /\ s.state = states[g].state
              /\ s.unhealthyUntil = states[g].unhealthyUntil
              /\ (s.state # "half_open" => s = states[g])
            BY <2>f, ReleaseFact DEF ReleaseHalfOpenProbe
        <3>2. SoundNow(s)
            BY <2>f, <3>1 DEF CooldownOK
        <3>3. /\ Put(g, s)
              /\ pc' = [pc EXCEPT ![t] = IF released THEN "save" ELSE "cache"]
              /\ ctx' = [ctx EXCEPT ![t].state = IF released THEN o ELSE s]
            BY <2>4 DEF OutcomeRelease
        <3> HIDE DEF s
        <3>4. o \in RuntimeState /\ SoundNow(o) /\ o.probes = {}
            BY <2>f, <3>1, <3>2, OutcomeTypes, OutcomeSound
        <3>5. "save" \in TxnPC /\ "cache" \in TxnPC
            BY DEF TxnPC, Recording
        <3> HIDE DEF o, released
        <3>6. CtxsSound
            BY <2>z, <3>1, <3>2, <3>3, <3>4, <3>5
        <3>7. StatesSound
            BY <1>p, <2>f, <3>1, <3>2, <3>3
        <3> QED BY <2>4, <1>u, <1>w, <3>6, <3>7 DEF OutcomeRelease
    <2>5. CASE OutcomeSave(t)
        <3>1. CtxsSound
            BY <2>5, <1>d, <1>e DEF OutcomeSave, CtxsSound
        <3>2. StatesSound
            BY <2>5, <1>p, <2>f DEF OutcomeSave
        <3> QED BY <2>5, <1>u, <1>w, <3>1, <3>2 DEF OutcomeSave
    <2>6. CASE OutcomeCache(t)
        <3>1. CachesSound
            BY <2>6, <1>c, <2>f DEF OutcomeCache
        <3> DEFINE c == [ctx[t] EXCEPT !.state = NoState, !.now = 0]
        <3>2. /\ ctx' = [ctx EXCEPT ![t] = c] /\ c \in Ctx /\ c.state = NoState
              /\ pc' = [pc EXCEPT ![t] = "done"] /\ "done" \in TxnPC
            BY <2>6, <1>d, <1>n, <2>f DEF OutcomeCache, Ctx, TxnPC
        <3> HIDE DEF c
        <3>3. CtxsSound
            BY <1>x, <1>n, <3>2
        <3> QED BY <2>6, <1>s, <1>u, <1>w, <3>1, <3>3 DEF OutcomeCache
    <2> QED BY <1>7, <2>1, <2>2, <2>3, <2>4, <2>5, <2>6 DEF OutcomeStep
<1>8. ASSUME NEW t \in Txn, NEW r \in Replica, NEW g \in Gateway,
             MarkProbeSelected(t, r, g) \/ Route(t, r, g)
      PROVE  RecordsSound'
    <2>1. CASE MarkProbeSelected(t, r, g)
        <3>1. \A i \in Txn : /\ ctx'[i].state = ctx[i].state
                             /\ pc'[i] = pc[i] \/ pc'[i] = "acquire"
            BY <2>1, <1>d, <1>f DEF MarkProbeSelected, Ctx
        <3>2. CtxsSound
            BY <1>e, <3>1 DEF CtxsSound
        <3> QED BY <2>1, <1>s, <1>u, <1>w, <3>2 DEF MarkProbeSelected
    <2>2. CASE Route(t, r, g)
        <3>1. \A i \in Txn : /\ ctx'[i].state = ctx[i].state
                             /\ pc'[i] = pc[i] \/ pc'[i] = "initiating"
            BY <2>2, <1>d, <1>f DEF Route, Ctx
        <3>2. CtxsSound
            BY <1>e, <3>1 DEF CtxsSound
        <3> QED BY <2>2, <1>s, <1>u, <1>w, <3>2 DEF Route
    <2> QED BY <1>8, <2>1, <2>2
<1>9. ASSUME NEW t \in Txn, NEW r \in Replica, NEW s \in Status,
             RecordOutcome(t, r, s)
      PROVE  RecordsSound'
    <2>1. \A i \in Txn : /\ ctx'[i].state = ctx[i].state
                         /\ pc'[i] = pc[i] \/ pc'[i] = "event"
        BY <1>9, <1>d, <1>f DEF RecordOutcome, Ctx
    <2>2. CtxsSound
        BY <1>e, <2>1 DEF CtxsSound
    <2> QED BY <1>9, <1>s, <1>u, <1>w, <2>2 DEF RecordOutcome
<1>10. CASE UNCHANGED vars
    BY <1>10, <1>t DEF vars, RecordsSound, Sound
<1> QED BY <1>1, <1>2, <1>3, <1>4, <1>5, <1>6, <1>7, <1>8, <1>9, <1>10 DEF Next

-----------------------------------------------------------------------------
(* Slots stay released.                                                    *)

\* No step brings back a slot that its transaction has seen gone: the only
\* step that adds a slot is its own TryAcquire.
LEMMA SlotsStep == HealthInv /\ [Next]_vars => SlotsGone'
<1> SUFFICES ASSUME HealthInv, [Next]_vars PROVE SlotsGone'
    OBVIOUS
<1>t. TypeOK /\ RecordsSound /\ SlotsGone
    BY DEF HealthInv
<1>d. /\ states \in [Gateway -> RuntimeState]
      /\ ctx \in [Txn -> Ctx] /\ pc \in [Txn -> TxnPC]
    BY <1>t DEF TypeOK
<1>f. FramesOK
    BY FrameFacts
<1> DEFINE
      Shrinks == \A g \in Gateway : states'[g].probes \subseteq states[g].probes
      NoSlot(t) == \A p \in states'[ctx'[t].gateway].probes : p.txn # t
<1>s. UNCHANGED store => Shrinks
    BY DEF store
<1>p. \A g \in Gateway, s \in RuntimeState :
         Put(g, s) /\ s.probes \subseteq states[g].probes => Shrinks
    BY <1>d DEF Put
<1>k. ASSUME Shrinks, pc' = pc, ctx' = ctx PROVE SlotsGone'
    BY <1>k, <1>t, <1>f DEF SlotsGone, SlotSeenGone, FramesOK
<1>m. ASSUME NEW t \in Txn,
             \A i \in Txn \ {t} : pc'[i] = pc[i] /\ ctx'[i] = ctx[i],
             \A g \in Gateway : \A p \in states'[g].probes :
                p \in states[g].probes \/ p.txn = t,
             SlotSeenGone(t)' => NoSlot(t)
      PROVE  SlotsGone'
    <2> SUFFICES ASSUME NEW i \in Txn, SlotSeenGone(i)' PROVE NoSlot(i)
        BY DEF SlotsGone
    <2>1. CASE i = t
        BY <1>m, <2>1
    <2>2. CASE i # t
        <3>1. pc'[i] = pc[i] /\ ctx'[i] = ctx[i]
            BY <1>m, <2>2
        <3>2. SlotSeenGone(i)
            BY <3>1 DEF SlotSeenGone
        <3>3. \A p \in states[ctx[i].gateway].probes : p.txn # i
            BY <1>t, <3>2 DEF SlotsGone
        <3> QED BY <1>m, <1>f, <2>2, <3>1, <3>3 DEF FramesOK
    <2> QED BY <2>1, <2>2
\* The same when the step takes no slot.
<1>o. ASSUME NEW t \in Txn, Shrinks,
             \A i \in Txn \ {t} : pc'[i] = pc[i] /\ ctx'[i] = ctx[i],
             SlotSeenGone(t)' => NoSlot(t)
      PROVE  SlotsGone'
    BY <1>o, <1>m
<1> HIDE DEF Shrinks, NoSlot
<1>1. CASE Tick
    BY <1>1, <1>k DEF Tick, Shrinks
<1>2. ASSUME NEW r \in Replica, PrepareStep(r) \/ PrepareFails(r) \/ Restart(r)
      PROVE  SlotsGone'
    <2>f. /\ prep[r].gateway \in Gateway /\ prep[r].now \in Nat
          /\ prep[r].state \in RuntimeState
          /\ states[prep[r].gateway] \in RuntimeState
          /\ LedgerOK(states[prep[r].gateway])
          /\ CooldownOK(states[prep[r].gateway], clock) /\ clock \in Nat
        BY <1>f DEF FramesOK
    <2>1. CASE \/ ReadCache(r) \/ FillCache(r) \/ CacheHalfOpen(r) \/ CachePruned(r)
               \/ PrepareReturns(r) \/ PrepareFails(r)
        BY <2>1, <1>s, <1>k DEF ReadCache, FillCache, CacheHalfOpen, CachePruned,
            PrepareReturns, PrepareFails
    <2>2. CASE LoadState(r)
        <3>1. /\ Ensure(states[prep[r].gateway]) \in RuntimeState
              /\ Ensure(states[prep[r].gateway]).probes \subseteq
                   states[prep[r].gateway].probes
            BY <2>f, EnsureType, EnsureSound
        <3> QED BY <2>2, <1>p, <1>k, <2>f, <3>1 DEF LoadState
    <2>3. CASE SaveHalfOpen(r)
        <3>1. prep[r].state.probes = {}
            BY <2>3, <1>t DEF SaveHalfOpen, RecordsSound
        <3> QED BY <2>3, <1>p, <1>k, <2>f, <3>1 DEF SaveHalfOpen
    <2>4. CASE PruneForRouting(r)
        <3> DEFINE s == PruneExpiredHalfOpenProbes(states[prep[r].gateway], prep[r].now)
        <3>1. s \in RuntimeState /\ s.probes \subseteq states[prep[r].gateway].probes
            BY <2>f, PruneFact
        <3> QED BY <2>4, <1>p, <1>k, <2>f, <3>1 DEF PruneForRouting
    <2>5. CASE Restart(r)
        <3> SUFFICES ASSUME NEW t \in Txn, SlotSeenGone(t)'
                     PROVE  \A p \in states'[ctx'[t].gateway].probes : p.txn # t
            BY DEF SlotsGone
        <3>1. t \notin CrashedTxns(r)
            BY <2>5 DEF Restart, SlotSeenGone
        <3>2. pc'[t] = pc[t] /\ ctx'[t] = ctx[t] /\ states' = states
            BY <2>5, <3>1 DEF Restart, store
        <3> QED BY <1>t, <3>2 DEF SlotsGone, SlotSeenGone
    <2> QED BY <1>2, <2>1, <2>2, <2>3, <2>4, <2>5 DEF PrepareStep
<1>3. ASSUME NEW r \in Replica, NEW g \in Gateway, PrepareForRouting(r, g)
      PROVE  SlotsGone'
    BY <1>3, <1>s, <1>k DEF PrepareForRouting
<1>4. ASSUME NEW o \in Observer, LookStep(o) \/ LookFails(o)
      PROVE  SlotsGone'
    <2>f. /\ look[o].gateway \in Gateway /\ look[o].now \in Nat
          /\ states[look[o].gateway] \in RuntimeState
          /\ LedgerOK(states[look[o].gateway])
          /\ CooldownOK(states[look[o].gateway], clock) /\ clock \in Nat
        BY <1>f DEF FramesOK
    <2>1. CASE LookLoad(o)
        <3>1. /\ Ensure(states[look[o].gateway]) \in RuntimeState
              /\ Ensure(states[look[o].gateway]).probes \subseteq
                   states[look[o].gateway].probes
            BY <2>f, EnsureType, EnsureSound
        <3> QED BY <2>1, <1>p, <1>k, <2>f, <3>1 DEF LookLoad
    <2>2. CASE LookPrune(o)
        <3> DEFINE s == PruneExpiredHalfOpenProbes(states[look[o].gateway], look[o].now)
        <3>1. s \in RuntimeState /\ s.probes \subseteq states[look[o].gateway].probes
            BY <2>f, PruneFact
        <3> QED BY <2>2, <1>p, <1>k, <2>f, <3>1 DEF LookPrune
    <2>3. CASE LookCache(o) \/ LookFails(o)
        BY <2>3, <1>s, <1>k DEF LookCache, LookFails
    <2> QED BY <1>4, <2>1, <2>2, <2>3 DEF LookStep
<1>5. ASSUME NEW o \in Observer, NEW r \in Replica, NEW g \in Gateway, State(o, r, g)
      PROVE  SlotsGone'
    BY <1>5, <1>s, <1>k DEF State
<1>6. ASSUME NEW t \in Txn, \/ InitiateStep(t) \/ AcquireFails(t)
                            \/ InitiateFails(t) \/ HandlerFails(t)
      PROVE  SlotsGone'
    <2>f. /\ ctx[t] \in Ctx /\ ctx[t].gateway \in Gateway
          /\ ctx[t].now \in Nat /\ states[ctx[t].gateway] \in RuntimeState
          /\ LedgerOK(states[ctx[t].gateway])
        BY <1>f DEF FramesOK
    <2>1. CASE TryAcquire(t)
        <3> DEFINE u == states[ctx[t].gateway]
                   now == ctx[t].now
                   e == now + ProbeTimeout
                   s == TryAcquireHalfOpenProbe(u, t, HalfOpenProbeCount, e, now)
        <3>1. e \in Nat /\ now \in Nat /\ u \in RuntimeState /\ LedgerOK(u)
            BY <2>f, ConfigAssumption
        <3>2. Put(ctx[t].gateway, s)
            BY <2>1 DEF TryAcquire
        <3> HIDE DEF e, now, u
        <3>3. \A p \in s.probes : p \in u.probes \/ p.txn = t
            BY <3>1, AcquireFact
        <3>4. \A g \in Gateway : \A p \in states'[g].probes :
                p \in states[g].probes \/ p.txn = t
            BY <1>d, <2>f, <3>2, <3>3 DEF Put, u
        <3>5. \A i \in Txn \ {t} : pc'[i] = pc[i] /\ ctx'[i] = ctx[i]
            BY <2>1, <1>d DEF TryAcquire
        <3>6. ~ SlotSeenGone(t)'
            BY <2>1, <1>d DEF TryAcquire, SlotSeenGone
        <3> QED BY <1>m, <3>4, <3>5, <3>6
    <2>2. CASE CacheAcquired(t)
        <3>1. ~ SlotSeenGone(t)'
            BY <2>2, <1>d DEF CacheAcquired, SlotSeenGone
        <3> QED BY <2>2, <1>d, <1>s, <1>o, <3>1 DEF CacheAcquired
    <2>3. CASE Initiated(t)
        <3>1. ~ SlotSeenGone(t)'
            BY <2>3, <1>d DEF Initiated, SlotSeenGone
        <3> QED BY <2>3, <1>d, <1>s, <1>o, <3>1 DEF Initiated
    <2>4. CASE ReleaseProbe(t)
        <3> DEFINE s == ReleaseHalfOpenProbe(states[ctx[t].gateway], t, ctx[t].now)
        <3>1. /\ s \in RuntimeState /\ s.probes \subseteq states[ctx[t].gateway].probes
              /\ \A p \in s.probes : p.txn # t
            BY <2>f, ReleaseFact
        <3>2. Put(ctx[t].gateway, s)
            BY <2>4 DEF ReleaseProbe
        <3> HIDE DEF s
        <3>3. Shrinks
            BY <1>p, <2>f, <3>1, <3>2
        <3>4. ctx'[t].gateway = ctx[t].gateway
            BY <2>4, <1>d, <2>f DEF ReleaseProbe, Ctx
        <3>5. NoSlot(t)
            BY <1>d, <2>f, <3>1, <3>2, <3>4 DEF NoSlot, Put
        <3>6. \A i \in Txn \ {t} : pc'[i] = pc[i] /\ ctx'[i] = ctx[i]
            BY <2>4, <1>d DEF ReleaseProbe
        <3> QED BY <1>o, <3>3, <3>5, <3>6
    <2>5. CASE CacheReleased(t)
        <3>1. ctx'[t].gateway = ctx[t].gateway /\ states' = states
            BY <2>5, <1>d, <2>f DEF CacheReleased, Ctx, store
        <3>2. NoSlot(t)
            BY <2>5, <1>t, <3>1 DEF CacheReleased, SlotsGone, SlotSeenGone, NoSlot
        <3> QED BY <2>5, <1>d, <1>s, <1>o, <3>2 DEF CacheReleased
    <2>6. CASE AcquireFails(t) \/ HandlerFails(t)
        <3>1. ~ SlotSeenGone(t)'
            BY <2>6, <1>d DEF AcquireFails, HandlerFails, SlotSeenGone
        <3>2. \A i \in Txn \ {t} : pc'[i] = pc[i] /\ ctx'[i] = ctx[i]
            BY <2>6, <1>d DEF AcquireFails, HandlerFails
        <3> QED BY <2>6, <1>s, <1>o, <3>1, <3>2 DEF AcquireFails, HandlerFails
    <2>7. CASE InitiateFails(t)
        <3>1. ctx'[t].probe = ctx[t].probe
            BY <2>7, <1>d, <2>f DEF InitiateFails, Ctx
        <3>2. ~ SlotSeenGone(t)'
            BY <2>7, <1>d, <3>1 DEF InitiateFails, SlotSeenGone
        <3> QED BY <2>7, <1>d, <1>s, <1>o, <3>2 DEF InitiateFails
    <2> QED BY <1>6, <2>1, <2>2, <2>3, <2>4, <2>5, <2>6, <2>7 DEF InitiateStep
<1>7. ASSUME NEW t \in Txn, OutcomeStep(t)
      PROVE  SlotsGone'
    <2>f. /\ ctx[t] \in Ctx /\ ctx[t].gateway \in Gateway
          /\ ctx[t].now \in Nat /\ states[ctx[t].gateway] \in RuntimeState
          /\ ctx[t].state \in RuntimeState
          /\ LedgerOK(states[ctx[t].gateway])
        BY <1>f DEF FramesOK
    <2>1. CASE OutcomeEvent(t)
        <3>1. ~ SlotSeenGone(t)' /\ Shrinks
            BY <2>1, <1>d DEF OutcomeEvent, SlotSeenGone, Shrinks
        <3> QED BY <2>1, <1>d, <1>o, <3>1 DEF OutcomeEvent
    <2>2. CASE OutcomeGet(t)
        <3>1. /\ ctx'[t].gateway = ctx[t].gateway /\ states' = states
              /\ ctx'[t].state = states[ctx[t].gateway] /\ pc'[t] = "stats"
            BY <2>2, <1>d, <2>f DEF OutcomeGet, Ctx, store
        <3>2. SlotSeenGone(t)' => NoSlot(t)
            BY <2>f, <3>1 DEF SlotSeenGone, NoSlot, LedgerOK
        <3> QED BY <2>2, <1>d, <1>s, <1>o, <3>2 DEF OutcomeGet
    <2>3. CASE OutcomeStats(t)
        <3>1. ctx'[t].gateway = ctx[t].gateway /\ states' = states
            BY <2>3, <1>d, <2>f DEF OutcomeStats, Ctx, store
        <3>2. SlotSeenGone(t)' => ctx[t].state.state # "half_open"
            BY <2>3, <1>d DEF OutcomeStats, SlotSeenGone
        <3>3. SlotSeenGone(t)' => NoSlot(t)
            BY <2>3, <1>t, <3>1, <3>2
                DEF OutcomeStats, SlotsGone, SlotSeenGone, NoSlot
        <3>4. \A i \in Txn \ {t} : pc'[i] = pc[i] /\ ctx'[i] = ctx[i]
            BY <2>3, <1>d DEF OutcomeStats
        <3> QED BY <2>3, <1>s, <1>o, <3>3, <3>4 DEF OutcomeStats
    <2>4. CASE OutcomeRelease(t)
        <3> DEFINE s == ReleaseHalfOpenProbe(states[ctx[t].gateway], t, ctx[t].now)
        <3>1. /\ s \in RuntimeState /\ s.probes \subseteq states[ctx[t].gateway].probes
              /\ \A p \in s.probes : p.txn # t
            BY <2>f, ReleaseFact
        <3>2. Put(ctx[t].gateway, s)
            BY <2>4 DEF OutcomeRelease
        <3> HIDE DEF s
        <3>3. Shrinks
            BY <1>p, <2>f, <3>1, <3>2
        <3>4. ctx'[t].gateway = ctx[t].gateway
            BY <2>4, <1>d, <2>f DEF OutcomeRelease, Ctx
        <3>5. NoSlot(t)
            BY <1>d, <2>f, <3>1, <3>2, <3>4 DEF NoSlot, Put
        <3>6. \A i \in Txn \ {t} : pc'[i] = pc[i] /\ ctx'[i] = ctx[i]
            BY <2>4, <1>d DEF OutcomeRelease
        <3> QED BY <1>o, <3>3, <3>5, <3>6
    <2>5. CASE OutcomeSave(t)
        <3>1. ctx[t].state.probes = {} /\ Put(ctx[t].gateway, ctx[t].state)
            BY <2>5, <1>t DEF OutcomeSave, RecordsSound
        <3>2. Shrinks
            BY <1>p, <2>f, <3>1
        <3>3. NoSlot(t)
            BY <2>5, <1>d, <2>f, <3>1 DEF OutcomeSave, NoSlot, Put
        <3> QED BY <2>5, <1>d, <1>o, <3>2, <3>3 DEF OutcomeSave
    <2>6. CASE OutcomeCache(t)
        <3>1. ctx'[t].gateway = ctx[t].gateway /\ states' = states
            BY <2>6, <1>d, <2>f DEF OutcomeCache, Ctx, store
        <3>2. NoSlot(t)
            BY <2>6, <1>t, <3>1 DEF OutcomeCache, SlotsGone, SlotSeenGone, NoSlot
        <3> QED BY <2>6, <1>d, <1>s, <1>o, <3>2 DEF OutcomeCache
    <2> QED BY <1>7, <2>1, <2>2, <2>3, <2>4, <2>5, <2>6 DEF OutcomeStep
<1>8. ASSUME NEW t \in Txn, NEW r \in Replica, NEW g \in Gateway,
             MarkProbeSelected(t, r, g) \/ Route(t, r, g)
      PROVE  SlotsGone'
    <2>1. ~ SlotSeenGone(t)'
        BY <1>8, <1>d DEF MarkProbeSelected, Route, SlotSeenGone
    <2>2. \A i \in Txn \ {t} : pc'[i] = pc[i] /\ ctx'[i] = ctx[i]
        BY <1>8, <1>d DEF MarkProbeSelected, Route
    <2> QED BY <1>8, <1>s, <1>o, <2>1, <2>2 DEF MarkProbeSelected, Route
<1>9. ASSUME NEW t \in Txn, NEW r \in Replica, NEW s \in Status,
             RecordOutcome(t, r, s)
      PROVE  SlotsGone'
    <2>1. ~ SlotSeenGone(t)'
        BY <1>9, <1>d DEF RecordOutcome, SlotSeenGone
    <2> QED BY <1>9, <1>d, <1>s, <1>o, <2>1 DEF RecordOutcome
<1>10. CASE UNCHANGED vars
    BY <1>10, <1>t DEF vars, SlotsGone, SlotSeenGone
<1> QED BY <1>1, <1>2, <1>3, <1>4, <1>5, <1>6, <1>7, <1>8, <1>9, <1>10 DEF Next

-----------------------------------------------------------------------------
(* Staleness of the caches.                                                *)

\* The repository's last "healthy" never moves back.
LEMMA LastHealthyGrows ==
    HealthInv /\ [Next]_vars =>
        /\ lastHealthy' \in [Gateway -> Nat]
        /\ \A g \in Gateway : lastHealthy[g] <= lastHealthy'[g]
<1> SUFFICES ASSUME HealthInv, [Next]_vars
             PROVE  /\ lastHealthy' \in [Gateway -> Nat]
                    /\ \A g \in Gateway : lastHealthy[g] <= lastHealthy'[g]
    OBVIOUS
<1>1. lastHealthy' \in [Gateway -> Nat]
    BY TypeStep DEF TypeOK
<1>2. /\ lastHealthy \in [Gateway -> Nat] /\ clock \in Nat
      /\ \A g \in Gateway : lastHealthy[g] <= clock
    BY DEF HealthInv, TypeOK, StampsOK
<1>3. \A g, s : Put(g, s) => \A h \in Gateway : lastHealthy[h] <= lastHealthy'[h]
    BY <1>2 DEF Put
<1>4. lastHealthy' = lastHealthy => \A g \in Gateway : lastHealthy[g] <= lastHealthy'[g]
    BY <1>2
<1>5. CASE Tick
    BY <1>1, <1>2, <1>5 DEF Tick
<1>6. ASSUME NEW r \in Replica, PrepareStep(r) \/ PrepareFails(r) \/ Restart(r)
      PROVE  \A g \in Gateway : lastHealthy[g] <= lastHealthy'[g]
    BY <1>3, <1>4, <1>6 DEF PrepareStep, PrepareFails, Restart, ReadCache, LoadState,
        FillCache, SaveHalfOpen, CacheHalfOpen, PruneForRouting, CachePruned,
        PrepareReturns, store
<1>7. ASSUME NEW r \in Replica, NEW g \in Gateway, PrepareForRouting(r, g)
      PROVE  lastHealthy' = lastHealthy
    BY <1>7 DEF PrepareForRouting, store
<1>8. ASSUME NEW o \in Observer, LookStep(o) \/ LookFails(o)
      PROVE  \A g \in Gateway : lastHealthy[g] <= lastHealthy'[g]
    BY <1>3, <1>4, <1>8 DEF LookStep, LookFails, LookLoad, LookPrune, LookCache, store
<1>9. ASSUME NEW o \in Observer, NEW r \in Replica, NEW g \in Gateway, State(o, r, g)
      PROVE  lastHealthy' = lastHealthy
    BY <1>9 DEF State, store
<1>10. ASSUME NEW t \in Txn, \/ InitiateStep(t) \/ OutcomeStep(t) \/ AcquireFails(t)
                             \/ InitiateFails(t) \/ HandlerFails(t)
       PROVE  \A g \in Gateway : lastHealthy[g] <= lastHealthy'[g]
    BY <1>3, <1>4, <1>10 DEF InitiateStep, OutcomeStep, AcquireFails, InitiateFails,
        HandlerFails, TryAcquire, CacheAcquired, Initiated, ReleaseProbe,
        CacheReleased, OutcomeEvent, OutcomeGet, OutcomeStats, OutcomeRelease,
        OutcomeSave, OutcomeCache, store
<1>11. ASSUME NEW t \in Txn, NEW r \in Replica, NEW g \in Gateway,
              MarkProbeSelected(t, r, g) \/ Route(t, r, g)
       PROVE  lastHealthy' = lastHealthy
    BY <1>11 DEF MarkProbeSelected, Route, store
<1>12. ASSUME NEW t \in Txn, NEW r \in Replica, NEW s \in Status,
              RecordOutcome(t, r, s)
       PROVE  lastHealthy' = lastHealthy
    BY <1>12 DEF RecordOutcome, store
<1>13. CASE UNCHANGED vars
    BY <1>1, <1>4, <1>13 DEF vars
<1> QED BY <1>1, <1>4, <1>5, <1>6, <1>7, <1>8, <1>9, <1>10, <1>11, <1>12, <1>13
        DEF Next

\* A record stored as "healthy" makes the history variable current.
LEMMA PutHealthy ==
    ASSUME HealthInv, NEW g \in Gateway, NEW s \in RuntimeState, Put(g, s)
    PROVE  s.state = "healthy" => lastHealthy'[g] = clock
BY DEF HealthInv, TypeOK, Put

\* A "healthy" about to be cached, or cached, is young enough after any step.
LEMMA FreshStep == HealthInv /\ [Next]_vars => FramesFresh' /\ BoundedStaleness'
<1> SUFFICES ASSUME HealthInv, [Next]_vars PROVE FramesFresh' /\ BoundedStaleness'
    OBVIOUS
<1>t. TypeOK /\ RecordsSound /\ FramesFresh /\ BoundedStaleness /\ StampsOK
    BY DEF HealthInv
<1>d. /\ prep \in [Replica -> PrepFrame] /\ look \in [Observer -> LookFrame]
      /\ ctx \in [Txn -> Ctx] /\ pc \in [Txn -> TxnPC]
      /\ stateCache \in [Replica -> [Gateway -> CacheEntry]]
      /\ lastHealthy \in [Gateway -> Nat] /\ clock \in Nat
    BY <1>t DEF TypeOK
<1>f. FramesOK
    BY FrameFacts
<1>l. /\ lastHealthy' \in [Gateway -> Nat]
      /\ \A g \in Gateway : lastHealthy[g] <= lastHealthy'[g]
    BY LastHealthyGrows
<1>h. \A g \in Gateway : states[g].state = "healthy" => lastHealthy[g] = clock
    BY <1>t DEF StampsOK
<1> DEFINE
      PrepFresh(f) == f.state.state = "healthy" =>
         /\ f.pc \in {"fill", "pruned"} => f.now <= lastHealthy'[f.gateway]
         /\ f.pc = "done" => f.now < lastHealthy'[f.gateway] + CacheTTL
      LookFresh(f) == f.state.state = "healthy" /\ f.pc = "cache" =>
         f.now <= lastHealthy'[f.gateway]
      CtxFresh(c, at) ==
         c.state.state = "healthy" /\ at \in {"acquired", "denied", "released", "cache"}
         => c.now <= lastHealthy'[c.gateway]
      EntryFresh(e, g) ==
         e.state.state = "healthy" => e.expiresAt <= lastHealthy'[g] + CacheTTL
      PrepsFresh == \A r \in Replica : PrepFresh(prep'[r])
      LooksFresh == \A o \in Observer : LookFresh(look'[o])
      CtxsFresh == \A t \in Txn : CtxFresh(ctx'[t], pc'[t])
      CachesFresh == \A r \in Replica, g \in Gateway : EntryFresh(stateCache'[r][g], g)
<1>w. ASSUME PrepsFresh, LooksFresh, CtxsFresh, CachesFresh
      PROVE  FramesFresh' /\ BoundedStaleness'
    BY <1>w DEF FramesFresh, BoundedStaleness
<1>r. \A r \in Replica : PrepFresh(prep[r])
    BY <1>t, <1>d, <1>f, <1>l, ConfigAssumption DEF FramesFresh, FramesOK
<1>o. \A o \in Observer : LookFresh(look[o])
    BY <1>t, <1>d, <1>f, <1>l DEF FramesFresh, FramesOK
<1>x. \A t \in Txn : CtxFresh(ctx[t], pc[t])
    BY <1>t, <1>d, <1>f, <1>l DEF FramesFresh, FramesOK
<1>e. \A r \in Replica, g \in Gateway : EntryFresh(stateCache[r][g], g)
    BY <1>t, <1>d, <1>f, <1>l, ConfigAssumption DEF BoundedStaleness, FramesOK
<1>u. /\ prep' = prep => PrepsFresh
      /\ look' = look => LooksFresh
      /\ ctx' = ctx /\ pc' = pc => CtxsFresh
      /\ stateCache' = stateCache => CachesFresh
    BY <1>r, <1>o, <1>x, <1>e
<1>c. \A r \in Replica, g \in Gateway, s \in RuntimeState, now \in Nat :
         /\ setCachedState(r, g, s, now)
         /\ s.state = "healthy" => now <= lastHealthy'[g]
         => CachesFresh
    <2> SUFFICES ASSUME NEW r \in Replica, NEW g \in Gateway,
                        NEW s \in RuntimeState, NEW now \in Nat,
                        setCachedState(r, g, s, now),
                        s.state = "healthy" => now <= lastHealthy'[g],
                        NEW i \in Replica, NEW h \in Gateway
                 PROVE  EntryFresh(stateCache'[i][h], h)
        OBVIOUS
    <2>1. CASE i = r /\ h = g
        <3>1. stateCache'[i][h] = [state |-> s, expiresAt |-> now + CacheTTL]
            BY <2>1, <1>d DEF setCachedState
        <3> QED BY <2>1, <3>1, <1>l, ConfigAssumption
    <2>2. CASE ~ (i = r /\ h = g)
        <3>1. stateCache'[i][h] = stateCache[i][h]
            BY <2>2, <1>d DEF setCachedState
        <3> QED BY <3>1, <1>e
    <2> QED BY <2>1, <2>2
<1>q. \A r \in Replica, f \in PrepFrame :
         prep' = [prep EXCEPT ![r] = f] /\ PrepFresh(f) => PrepsFresh
    BY <1>d, <1>r
<1>k. \A o \in Observer, f \in LookFrame :
         look' = [look EXCEPT ![o] = f] /\ LookFresh(f) => LooksFresh
    BY <1>d, <1>o
<1>z. \A t \in Txn, c \in Ctx, at \in TxnPC :
         /\ ctx' = [ctx EXCEPT ![t] = c] /\ pc' = [pc EXCEPT ![t] = at]
         /\ CtxFresh(c, at)
         => CtxsFresh
    BY <1>d, <1>x
<1>i. /\ IdlePrep \in PrepFrame /\ PrepFresh(IdlePrep)
      /\ IdleLook \in LookFrame /\ LookFresh(IdleLook)
      /\ NoState \in RuntimeState /\ NoState.state # "healthy"
    BY PlaceholderTypes DEF IdlePrep, IdleLook, NoState
\* A transaction whose copy of the record is not "healthy" needs nothing.
<1>y. ASSUME NEW t \in Txn,
             \A i \in Txn \ {t} : ctx'[i] = ctx[i] /\ pc'[i] = pc[i],
             CtxFresh(ctx'[t], pc'[t])
      PROVE  CtxsFresh
    <2> SUFFICES ASSUME NEW i \in Txn PROVE CtxFresh(ctx'[i], pc'[i])
        OBVIOUS
    <2>1. CASE i = t
        BY <1>y, <2>1
    <2>2. CASE i # t
        BY <1>y, <1>x, <2>2
    <2> QED BY <2>1, <2>2
<1> HIDE DEF PrepsFresh, LooksFresh, CtxsFresh, CachesFresh
<1>1. CASE Tick
    BY <1>1, <1>u, <1>w DEF Tick
<1>2. ASSUME NEW r \in Replica, PrepareStep(r) \/ PrepareFails(r) \/ Restart(r)
      PROVE  FramesFresh' /\ BoundedStaleness'
    <2>f. /\ prep[r] \in PrepFrame /\ prep[r].gateway \in Gateway
          /\ prep[r].now \in Nat /\ prep[r].now <= clock
          /\ prep[r].state \in RuntimeState
          /\ LedgerOK(prep[r].state) /\ CooldownOK(prep[r].state, clock)
          /\ states[prep[r].gateway] \in RuntimeState
          /\ LedgerOK(states[prep[r].gateway])
        BY <1>f DEF FramesOK
    <2>1. CASE ReadCache(r)
        <3> DEFINE f == prep[r]
                   e == stateCache[r][f.gateway]
                   c == [f EXCEPT !.state = e.state]
                   l == [f EXCEPT !.pc = "load"]
        <3>1. /\ e.state \in RuntimeState /\ e.expiresAt \in Nat
              /\ LedgerOK(e.state) /\ CooldownOK(e.state, clock)
              /\ EntryFresh(e, f.gateway)
            BY <1>f, <1>e, <2>f DEF FramesOK
        <3>2. /\ c \in PrepFrame /\ c.now = f.now /\ c.state = e.state
              /\ c.gateway = f.gateway
              /\ l \in PrepFrame /\ l.pc = "load"
            BY <2>f, <3>1 DEF PrepFrame, PrepPC
        <3>3. CASE f.now < e.expiresAt
            <4>1. prep' = [prep EXCEPT ![r] = Judged(c)]
                BY <2>1, <3>3 DEF ReadCache
            <4>2. f.now < lastHealthy'[f.gateway] + CacheTTL \/ e.state.state # "healthy"
                BY <1>l, <2>f, <3>1, <3>3, ConfigAssumption
            <4> HIDE DEF c, e, l
            <4>3. /\ Judged(c) \in PrepFrame /\ Judged(c).now = c.now
                  /\ Judged(c).gateway = c.gateway
                  /\ Judged(c).state.state = "healthy" =>
                        Judged(c).pc = "done" /\ c.state.state = "healthy"
                BY <1>d, <2>f, <3>1, <3>2, JudgedType, JudgedSound
            <4>4. PrepFresh(Judged(c))
                BY <3>2, <4>2, <4>3
            <4>5. PrepsFresh
                BY <1>q, <4>1, <4>3, <4>4
            <4> QED BY <2>1, <1>u, <1>w, <4>5 DEF ReadCache
        <3>4. CASE ~ (f.now < e.expiresAt)
            <4>1. prep' = [prep EXCEPT ![r] = l]
                BY <2>1, <3>4 DEF ReadCache
            <4>2. PrepFresh(l)
                BY <3>2
            <4> HIDE DEF c, e, l
            <4>3. PrepsFresh
                BY <1>q, <3>2, <4>1, <4>2
            <4> QED BY <2>1, <1>u, <1>w, <4>3 DEF ReadCache
        <3> QED BY <3>3, <3>4
    <2>2. CASE LoadState(r)
        <3> DEFINE s == Ensure(states[prep[r].gateway])
                   c == [prep[r] EXCEPT !.pc = "fill", !.state = s]
        <3>1. s \in RuntimeState
            BY <2>f, EnsureType
        <3>2. prep' = [prep EXCEPT ![r] = c] /\ Put(prep[r].gateway, s)
            BY <2>2, <1>d DEF LoadState
        <3>3. s.state = "healthy" => prep[r].now <= lastHealthy'[prep[r].gateway]
            BY <2>f, <3>1, <3>2, PutHealthy
        <3> HIDE DEF s
        <3>4. /\ c \in PrepFrame /\ c.pc = "fill" /\ c.state = s
              /\ c.now = prep[r].now /\ c.gateway = prep[r].gateway
            BY <2>f, <3>1 DEF PrepFrame, PrepPC
        <3> HIDE DEF c
        <3>5. PrepsFresh
            BY <1>q, <3>2, <3>3, <3>4
        <3> QED BY <2>2, <1>u, <1>w, <3>5 DEF LoadState
    <2>3. CASE FillCache(r)
        <3>1. prep[r].state.state = "healthy" =>
                prep[r].now <= lastHealthy'[prep[r].gateway]
            BY <2>3, <1>r DEF FillCache
        <3>2. CachesFresh
            BY <2>3, <1>c, <2>f, <3>1 DEF FillCache
        <3> DEFINE j == Judged(prep[r])
        <3>3. /\ j \in PrepFrame /\ j.now = prep[r].now /\ j.gateway = prep[r].gateway
              /\ j.state.state = "healthy" =>
                    j.pc = "done" /\ prep[r].state.state = "healthy"
            BY <1>d, <2>f, JudgedType, JudgedSound
        <3>4. prep' = [prep EXCEPT ![r] = j]
            BY <2>3 DEF FillCache
        <3> HIDE DEF j
        <3>5. PrepFresh(j)
            BY <1>l, <2>f, <3>1, <3>3, ConfigAssumption
        <3>6. PrepsFresh
            BY <1>q, <3>3, <3>4, <3>5
        <3> QED BY <2>3, <1>u, <1>w, <3>2, <3>6 DEF FillCache
    <2>4. CASE SaveHalfOpen(r)
        <3> DEFINE c == [prep[r] EXCEPT !.pc = "saved"]
        <3>1. c \in PrepFrame /\ c.pc = "saved" /\ prep' = [prep EXCEPT ![r] = c]
            BY <2>4, <1>d, <2>f DEF SaveHalfOpen, PrepFrame, PrepPC
        <3>2. PrepFresh(c)
            BY <3>1
        <3>3. PrepsFresh
            BY <1>q, <3>1, <3>2
        <3> QED BY <2>4, <1>u, <1>w, <3>3 DEF SaveHalfOpen
    <2>5. CASE CacheHalfOpen(r)
        <3> DEFINE c == [prep[r] EXCEPT !.pc = "prune"]
        <3>1. c \in PrepFrame /\ c.pc = "prune" /\ prep' = [prep EXCEPT ![r] = c]
            BY <2>5, <1>d, <2>f DEF CacheHalfOpen, PrepFrame, PrepPC
        <3>2. PrepFresh(c)
            BY <3>1
        <3>3. PrepsFresh
            BY <1>q, <3>1, <3>2
        <3>4. prep[r].state.state = "half_open"
            BY <2>5, <1>t DEF CacheHalfOpen, RecordsSound
        <3>5. CachesFresh
            BY <2>5, <1>c, <2>f, <3>4 DEF CacheHalfOpen
        <3> QED BY <2>5, <1>u, <1>w, <3>3, <3>5 DEF CacheHalfOpen
    <2>6. CASE PruneForRouting(r)
        <3> DEFINE s == PruneExpiredHalfOpenProbes(states[prep[r].gateway], prep[r].now)
                   c == [prep[r] EXCEPT !.pc = "pruned", !.state = s]
        <3>1. s \in RuntimeState
            BY <2>f, PruneFact
        <3>2. prep' = [prep EXCEPT ![r] = c] /\ Put(prep[r].gateway, s)
            BY <2>6, <1>d DEF PruneForRouting
        <3>3. s.state = "healthy" => prep[r].now <= lastHealthy'[prep[r].gateway]
            BY <2>f, <3>1, <3>2, PutHealthy
        <3> HIDE DEF s
        <3>4. /\ c \in PrepFrame /\ c.pc = "pruned" /\ c.state = s
              /\ c.now = prep[r].now /\ c.gateway = prep[r].gateway
            BY <2>f, <3>1 DEF PrepFrame, PrepPC
        <3> HIDE DEF c
        <3>5. PrepsFresh
            BY <1>q, <3>2, <3>3, <3>4
        <3> QED BY <2>6, <1>u, <1>w, <3>5 DEF PruneForRouting
    <2>7. CASE CachePruned(r)
        <3> DEFINE c == [prep[r] EXCEPT !.pc = "done"]
        <3>1. prep[r].state.state = "healthy" =>
                prep[r].now <= lastHealthy'[prep[r].gateway]
            BY <2>7, <1>r DEF CachePruned
        <3>2. CachesFresh
            BY <2>7, <1>c, <2>f, <3>1 DEF CachePruned
        <3>3. /\ c \in PrepFrame /\ c.pc = "done" /\ prep' = [prep EXCEPT ![r] = c]
              /\ c.state = prep[r].state /\ c.now = prep[r].now
              /\ c.gateway = prep[r].gateway
            BY <2>7, <1>d, <2>f DEF CachePruned, PrepFrame, PrepPC
        <3> HIDE DEF c
        <3>4. PrepFresh(c)
            BY <1>l, <2>f, <3>1, <3>3, ConfigAssumption
        <3>5. PrepsFresh
            BY <1>q, <3>3, <3>4
        <3> QED BY <2>7, <1>u, <1>w, <3>2, <3>5 DEF CachePruned
    <2>8. CASE PrepareReturns(r) \/ PrepareFails(r)
        <3>1. PrepsFresh
            BY <2>8, <1>q, <1>i DEF PrepareReturns, PrepareFails
        <3> QED BY <2>8, <1>u, <1>w, <3>1 DEF PrepareReturns, PrepareFails
    <2>9. CASE Restart(r)
        <3>1. PrepsFresh
            BY <2>9, <1>q, <1>i DEF Restart
        <3>2. CachesFresh
            BY <2>9, <1>d, <1>e, <1>i DEF Restart, CachesFresh, NoEntry
        <3>3. LooksFresh
            BY <2>9, <1>o, <1>i DEF Restart, LooksFresh
        <3>4. CtxsFresh
            <4> SUFFICES ASSUME NEW t \in Txn PROVE CtxFresh(ctx'[t], pc'[t])
                BY DEF CtxsFresh
            <4>1. CASE t \in CrashedTxns(r)
                BY <2>9, <4>1 DEF Restart
            <4>2. CASE t \notin CrashedTxns(r)
                BY <2>9, <4>2, <1>x DEF Restart
            <4> QED BY <4>1, <4>2
        <3> QED BY <1>w, <3>1, <3>2, <3>3, <3>4
    <2> QED BY <1>2, <2>1, <2>2, <2>3, <2>4, <2>5, <2>6, <2>7, <2>8, <2>9
            DEF PrepareStep
<1>3. ASSUME NEW r \in Replica, NEW g \in Gateway, PrepareForRouting(r, g)
      PROVE  FramesFresh' /\ BoundedStaleness'
    <2> DEFINE c == [pc |-> "read", gateway |-> g, now |-> clock, state |-> NoState]
    <2>1. c \in PrepFrame /\ PrepFresh(c)
        BY <1>d, <1>i DEF PrepFrame, PrepPC
    <2>2. PrepsFresh
        BY <1>3, <1>q, <2>1 DEF PrepareForRouting
    <2> QED BY <1>3, <1>u, <1>w, <2>2 DEF PrepareForRouting
<1>4. ASSUME NEW o \in Observer, LookStep(o) \/ LookFails(o)
      PROVE  FramesFresh' /\ BoundedStaleness'
    <2>f. /\ look[o] \in LookFrame /\ look[o].gateway \in Gateway
          /\ look[o].replica \in Replica
          /\ look[o].now \in Nat /\ look[o].now <= clock
          /\ look[o].state \in RuntimeState
          /\ states[look[o].gateway] \in RuntimeState
          /\ LedgerOK(states[look[o].gateway])
        BY <1>f DEF FramesOK
    <2>1. CASE LookLoad(o)
        <3> DEFINE s == Ensure(states[look[o].gateway])
                   at == IF s.state = "half_open" THEN "prune" ELSE "cache"
                   c == [look[o] EXCEPT !.state = s, !.pc = at]
        <3>1. s \in RuntimeState
            BY <2>f, EnsureType
        <3>2. look' = [look EXCEPT ![o] = c] /\ Put(look[o].gateway, s)
            BY <2>1, <1>d DEF LookLoad
        <3>3. s.state = "healthy" => look[o].now <= lastHealthy'[look[o].gateway]
            BY <2>f, <3>1, <3>2, PutHealthy
        <3>4. at \in LookPC
            BY DEF LookPC
        <3> HIDE DEF s, at
        <3>5. /\ c \in LookFrame /\ c.state = s
              /\ c.now = look[o].now /\ c.gateway = look[o].gateway
            BY <2>f, <3>1, <3>4 DEF LookFrame
        <3> HIDE DEF c
        <3>6. LooksFresh
            BY <1>k, <3>2, <3>3, <3>5
        <3> QED BY <2>1, <1>u, <1>w, <3>6 DEF LookLoad
    <2>2. CASE LookPrune(o)
        <3> DEFINE s == PruneExpiredHalfOpenProbes(states[look[o].gateway], look[o].now)
                   c == [look[o] EXCEPT !.state = s, !.pc = "cache"]
        <3>1. s \in RuntimeState
            BY <2>f, PruneFact
        <3>2. look' = [look EXCEPT ![o] = c] /\ Put(look[o].gateway, s)
            BY <2>2, <1>d DEF LookPrune
        <3>3. s.state = "healthy" => look[o].now <= lastHealthy'[look[o].gateway]
            BY <2>f, <3>1, <3>2, PutHealthy
        <3> HIDE DEF s
        <3>4. /\ c \in LookFrame /\ c.state = s
              /\ c.now = look[o].now /\ c.gateway = look[o].gateway
            BY <2>f, <3>1 DEF LookFrame, LookPC
        <3> HIDE DEF c
        <3>5. LooksFresh
            BY <1>k, <3>2, <3>3, <3>4
        <3> QED BY <2>2, <1>u, <1>w, <3>5 DEF LookPrune
    <2>3. CASE LookCache(o)
        <3>1. look[o].state.state = "healthy" =>
                look[o].now <= lastHealthy'[look[o].gateway]
            BY <2>3, <1>o DEF LookCache
        <3>2. CachesFresh
            BY <2>3, <1>c, <2>f, <3>1 DEF LookCache
        <3>3. LooksFresh
            BY <2>3, <1>k, <1>i DEF LookCache
        <3> QED BY <2>3, <1>u, <1>w, <3>2, <3>3 DEF LookCache
    <2>4. CASE LookFails(o)
        <3>1. LooksFresh
            BY <2>4, <1>k, <1>i DEF LookFails
        <3> QED BY <2>4, <1>u, <1>w, <3>1 DEF LookFails
    <2> QED BY <1>4, <2>1, <2>2, <2>3, <2>4 DEF LookStep
<1>5. ASSUME NEW o \in Observer, NEW r \in Replica, NEW g \in Gateway, State(o, r, g)
      PROVE  FramesFresh' /\ BoundedStaleness'
    <2> DEFINE c == [pc |-> "load", replica |-> r, gateway |-> g, now |-> clock,
                     state |-> NoState]
    <2>1. c \in LookFrame /\ LookFresh(c)
        BY <1>d, <1>i DEF LookFrame, LookPC
    <2>2. LooksFresh
        BY <1>5, <1>k, <2>1 DEF State
    <2> QED BY <1>5, <1>u, <1>w, <2>2 DEF State
<1>6. ASSUME NEW t \in Txn, \/ InitiateStep(t) \/ AcquireFails(t)
                            \/ InitiateFails(t) \/ HandlerFails(t)
      PROVE  FramesFresh' /\ BoundedStaleness'
    <2>f. /\ ctx[t] \in Ctx /\ ctx[t].gateway \in Gateway /\ ctx[t].replica \in Replica
          /\ ctx[t].now \in Nat /\ ctx[t].now <= clock
          /\ ctx[t].state \in RuntimeState
          /\ states[ctx[t].gateway] \in RuntimeState
          /\ LedgerOK(states[ctx[t].gateway])
        BY <1>f DEF FramesOK
    <2>1. CASE TryAcquire(t)
        <3> DEFINE u == states[ctx[t].gateway]
                   now == ctx[t].now
                   e == now + ProbeTimeout
                   s == TryAcquireHalfOpenProbe(u, t, HalfOpenProbeCount, e, now)
        <3>1. e \in Nat /\ now \in Nat /\ u \in RuntimeState /\ LedgerOK(u)
            BY <2>f, ConfigAssumption
        <3>2. Put(ctx[t].gateway, s)
            BY <2>1 DEF TryAcquire
        <3>3. /\ ctx'[t].state = s /\ ctx'[t].now = ctx[t].now
              /\ ctx'[t].gateway = ctx[t].gateway
              /\ \A i \in Txn \ {t} : ctx'[i] = ctx[i] /\ pc'[i] = pc[i]
            BY <2>1, <1>d, <2>f DEF TryAcquire, Ctx
        <3> HIDE DEF u, e, now
        <3>4. s \in RuntimeState
            BY <3>1, AcquireFact
        <3> HIDE DEF s
        <3>5. s.state = "healthy" => ctx[t].now <= lastHealthy'[ctx[t].gateway]
            BY <2>f, <3>2, <3>4, PutHealthy
        <3>6. CtxsFresh
            BY <1>y, <3>3, <3>5
        <3> QED BY <2>1, <1>u, <1>w, <3>6 DEF TryAcquire
    <2>2. CASE CacheAcquired(t)
        <3>1. ctx[t].state.state = "healthy" =>
                ctx[t].now <= lastHealthy'[ctx[t].gateway]
            BY <2>2, <1>x DEF CacheAcquired
        <3>2. CachesFresh
            BY <2>2, <1>c, <2>f, <3>1 DEF CacheAcquired
        <3>3. /\ pc'[t] \in {"initiating", "fallback"}
              /\ \A i \in Txn \ {t} : ctx'[i] = ctx[i] /\ pc'[i] = pc[i]
            BY <2>2, <1>d DEF CacheAcquired
        <3>4. CtxsFresh
            BY <1>y, <3>3
        <3> QED BY <2>2, <1>u, <1>w, <3>2, <3>4 DEF CacheAcquired
    <2>3. CASE Initiated(t) \/ AcquireFails(t) \/ InitiateFails(t) \/ HandlerFails(t)
        <3>1. /\ pc'[t] \in {"pending", "fallback", "release", "failed", "aborted"}
              /\ \A i \in Txn \ {t} : ctx'[i] = ctx[i] /\ pc'[i] = pc[i]
            BY <2>3, <1>d DEF Initiated, AcquireFails, InitiateFails, HandlerFails
        <3>2. CtxsFresh
            BY <1>y, <3>1
        <3> QED BY <2>3, <1>u, <1>w, <3>2
                DEF Initiated, AcquireFails, InitiateFails, HandlerFails
    <2>4. CASE ReleaseProbe(t)
        <3> DEFINE s == ReleaseHalfOpenProbe(states[ctx[t].gateway], t, ctx[t].now)
        <3>1. s \in RuntimeState
            BY <2>f, ReleaseFact
        <3>2. Put(ctx[t].gateway, s)
            BY <2>4 DEF ReleaseProbe
        <3>3. /\ ctx'[t].state = s /\ ctx'[t].now = ctx[t].now
              /\ ctx'[t].gateway = ctx[t].gateway
              /\ \A i \in Txn \ {t} : ctx'[i] = ctx[i] /\ pc'[i] = pc[i]
            BY <2>4, <1>d, <2>f DEF ReleaseProbe, Ctx
        <3> HIDE DEF s
        <3>4. s.state = "healthy" => ctx[t].now <= lastHealthy'[ctx[t].gateway]
            BY <2>f, <3>1, <3>2, PutHealthy
        <3>5. CtxsFresh
            BY <1>y, <3>3, <3>4
        <3> QED BY <2>4, <1>u, <1>w, <3>5 DEF ReleaseProbe
    <2>5. CASE CacheReleased(t)
        <3>1. ctx[t].state.state = "healthy" =>
                ctx[t].now <= lastHealthy'[ctx[t].gateway]
            BY <2>5, <1>x DEF CacheReleased
        <3>2. CachesFresh
            BY <2>5, <1>c, <2>f, <3>1 DEF CacheReleased
        <3>3. /\ pc'[t] = "failed"
              /\ \A i \in Txn \ {t} : ctx'[i] = ctx[i] /\ pc'[i] = pc[i]
            BY <2>5, <1>d DEF CacheReleased
        <3>4. CtxsFresh
            BY <1>y, <3>3
        <3> QED BY <2>5, <1>u, <1>w, <3>2, <3>4 DEF CacheReleased
    <2> QED BY <1>6, <2>1, <2>2, <2>3, <2>4, <2>5 DEF InitiateStep
<1>7. ASSUME NEW t \in Txn, OutcomeStep(t)
      PROVE  FramesFresh' /\ BoundedStaleness'
    <2>f. /\ ctx[t] \in Ctx /\ ctx[t].gateway \in Gateway /\ ctx[t].replica \in Replica
          /\ ctx[t].now \in Nat /\ ctx[t].now <= clock
          /\ ctx[t].state \in RuntimeState
          /\ states[ctx[t].gateway] \in RuntimeState
          /\ LedgerOK(states[ctx[t].gateway])
        BY <1>f DEF FramesOK
    <2>1. CASE OutcomeEvent(t) \/ OutcomeGet(t) \/ OutcomeStats(t)
        <3>1. /\ pc'[t] \in {"get", "stats", "drop", "save"}
              /\ \A i \in Txn \ {t} : ctx'[i] = ctx[i] /\ pc'[i] = pc[i]
            BY <2>1, <1>d DEF OutcomeEvent, OutcomeGet, OutcomeStats
        <3>2. CtxsFresh
            BY <1>y, <3>1
        <3> QED BY <2>1, <1>u, <1>w, <3>2 DEF OutcomeEvent, OutcomeGet, OutcomeStats
    <2>2. CASE OutcomeRelease(t)
        <3> DEFINE s == ReleaseHalfOpenProbe(states[ctx[t].gateway], t, ctx[t].now)
        <3>1. s \in RuntimeState
            BY <2>f, ReleaseFact
        <3>2. Put(ctx[t].gateway, s)
            BY <2>2 DEF OutcomeRelease
        <3>3. /\ pc'[t] = "cache" => ctx'[t].state = s
              /\ ctx'[t].now = ctx[t].now
              /\ ctx'[t].gateway = ctx[t].gateway
              /\ pc'[t] \in {"save", "cache"}
              /\ \A i \in Txn \ {t} : ctx'[i] = ctx[i] /\ pc'[i] = pc[i]
            BY <2>2, <1>d, <2>f DEF OutcomeRelease, Ctx
        <3> HIDE DEF s
        <3>4. s.state = "healthy" => ctx[t].now <= lastHealthy'[ctx[t].gateway]
            BY <2>f, <3>1, <3>2, PutHealthy
        <3>5. CtxsFresh
            BY <1>y, <3>3, <3>4
        <3> QED BY <2>2, <1>u, <1>w, <3>5 DEF OutcomeRelease
    <2>3. CASE OutcomeSave(t)
        <3>1. Put(ctx[t].gateway, ctx[t].state)
            BY <2>3 DEF OutcomeSave
        <3>2. ctx[t].state.state = "healthy" =>
                ctx[t].now <= lastHealthy'[ctx[t].gateway]
            BY <2>f, <3>1, PutHealthy
        <3>3. /\ ctx'[t] = ctx[t]
              /\ \A i \in Txn \ {t} : ctx'[i] = ctx[i] /\ pc'[i] = pc[i]
            BY <2>3, <1>d DEF OutcomeSave
        <3>4. CtxsFresh
            BY <1>y, <3>2, <3>3
        <3> QED BY <2>3, <1>u, <1>w, <3>4 DEF OutcomeSave
    <2>4. CASE OutcomeCache(t)
        <3>1. ctx[t].state.state = "healthy" =>
                ctx[t].now <= lastHealthy'[ctx[t].gateway]
            BY <2>4, <1>x DEF OutcomeCache
        <3>2. CachesFresh
            BY <2>4, <1>c, <2>f, <3>1 DEF OutcomeCache
        <3>3. /\ pc'[t] = "done"
              /\ \A i \in Txn \ {t} : ctx'[i] = ctx[i] /\ pc'[i] = pc[i]
            BY <2>4, <1>d DEF OutcomeCache
        <3>4. CtxsFresh
            BY <1>y, <3>3
        <3> QED BY <2>4, <1>u, <1>w, <3>2, <3>4 DEF OutcomeCache
    <2> QED BY <1>7, <2>1, <2>2, <2>3, <2>4 DEF OutcomeStep
<1>8. ASSUME NEW t \in Txn, NEW r \in Replica, NEW g \in Gateway,
             MarkProbeSelected(t, r, g) \/ Route(t, r, g)
      PROVE  FramesFresh' /\ BoundedStaleness'
    <2>1. /\ pc'[t] \in {"acquire", "initiating"}
          /\ \A i \in Txn \ {t} : ctx'[i] = ctx[i] /\ pc'[i] = pc[i]
        BY <1>8, <1>d DEF MarkProbeSelected, Route
    <2>2. CtxsFresh
        BY <1>y, <2>1
    <2> QED BY <1>8, <1>u, <1>w, <2>2 DEF MarkProbeSelected, Route
<1>9. ASSUME NEW t \in Txn, NEW r \in Replica, NEW s \in Status,
             RecordOutcome(t, r, s)
      PROVE  FramesFresh' /\ BoundedStaleness'
    <2>1. /\ pc'[t] = "event"
          /\ \A i \in Txn \ {t} : ctx'[i] = ctx[i] /\ pc'[i] = pc[i]
        BY <1>9, <1>d DEF RecordOutcome
    <2>2. CtxsFresh
        BY <1>y, <2>1
    <2> QED BY <1>9, <1>u, <1>w, <2>2 DEF RecordOutcome
<1>10. CASE UNCHANGED vars
    BY <1>10, <1>u, <1>w DEF vars
<1> QED BY <1>1, <1>2, <1>3, <1>4, <1>5, <1>6, <1>7, <1>8, <1>9, <1>10 DEF Next

-----------------------------------------------------------------------------
(* The theorems.                                                           *)

\* The initial state satisfies the invariant.
LEMMA InitInv == Init => HealthInv
<1> SUFFICES ASSUME Init PROVE HealthInv
    OBVIOUS
<1> USE PlaceholderTypes
<1>1. TypeOK
    BY DEF Init, TypeOK, TxnPC
<1>2. StampsOK
    BY DEF Init, StampsOK, IdlePrep, IdleLook, NoCtx, NoState
<1>3. Sound(NoState)
    BY PlaceholderSound DEF Init, Sound
<1>4. RecordsSound
    BY <1>3 DEF Init, RecordsSound, NoEntry, IdlePrep, IdleLook, NoCtx
<1>5. SlotsGone
    BY DEF Init, SlotsGone, SlotSeenGone
<1>6. FramesFresh /\ BoundedStaleness
    BY DEF Init, FramesFresh, BoundedStaleness, IdlePrep, IdleLook, NoCtx, NoEntry,
        NoState
<1> QED BY <1>1, <1>2, <1>4, <1>5, <1>6 DEF HealthInv

\* HealthInv is inductive, so it holds in every reachable state.
THEOREM Invariance == Spec => []HealthInv
<1>1. HealthInv /\ [Next]_vars => HealthInv'
    BY TypeStep, StampsStep, RecordsStep, SlotsStep, FreshStep DEF HealthInv
<1> QED BY InitInv, <1>1, PTL DEF Spec

\* Every variable keeps its type in every behaviour.
THEOREM TypeCorrect == Spec => []TypeOK
<1>1. HealthInv => TypeOK
    BY DEF HealthInv
<1> QED BY Invariance, <1>1, PTL

\* The stored slot counter is exact, bounded by the configured count, and
\* zero outside half-open, however calls on any number of replicas interleave,
\* fail or are cut off.
THEOREM ProbeLedgerHolds == Spec => []ProbeLedger
<1>1. HealthInv => ProbeLedger
    BY DEF HealthInv, RecordsSound, Sound, ProbeLedger
<1> QED BY Invariance, <1>1, PTL

\* A finished callback, and a failed initiation whose release was carried
\* out, leave no slot of their transaction in the repository.
THEOREM NoSlotLeakHolds == Spec => []NoSlotLeak
<1>1. HealthInv => NoSlotLeak
    BY DEF HealthInv, SlotsGone, SlotSeenGone, NoSlotLeak
<1> QED BY Invariance, <1>1, PTL

\* A cached "healthy" expires within one cache TTL of the repository's.
THEOREM StalenessHolds == Spec => []BoundedStaleness
<1>1. HealthInv => BoundedStaleness
    BY DEF HealthInv
<1> QED BY Invariance, <1>1, PTL
=============================================================================
