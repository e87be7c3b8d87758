---------------------------- MODULE RoutingProofs ----------------------------
(***************************************************************************)
(* Proofs about Routing, for every number of gateways, replicas, requests  *)
(* and observers, every valid configuration and every sequence of reloads. *)
(* The routing service takes only steps that the health service allows, so *)
(* HealthInv holds of the composition; RoutingInv is inductive beside it.  *)
(***************************************************************************)
EXTENDS Routing, GatewayHealthProofs

\* The placeholders of locals have the type of what they stand for.
LEMMA RoutingPlaceholders ==
    /\ NoSnapshot \in Snapshot /\ NoBuild \in Build
    /\ IdleSel \in Sel /\ \A p \in SelPC : [IdleSel EXCEPT !.pc = p] \in Sel
<1>1. AnyTxn \in Txn /\ AnyReplica \in Replica
  BY RoutingAssumption, PopulationAssumption DEF AnyTxn, AnyReplica
<1>2. NoSnapshot \in Snapshot
  BY DEF NoSnapshot, Snapshot
<1>3. NoBuild \in Build
  BY <1>1, <1>2 DEF NoBuild, Build, BuildPC
<1>4. IdleSel \in Sel
  BY <1>1, <1>2, RoutingAssumption DEF IdleSel, Sel, SelPC
<1>5. \A p \in SelPC : [IdleSel EXCEPT !.pc = p] \in Sel
  BY <1>4 DEF Sel
<1> QED BY <1>2, <1>3, <1>4, <1>5

\* Every step of the composition is a step of the health service, or leaves
\* its variables alone.
LEMMA RoutingStepsHealth ==
    ASSUME RoutingTypeOK, [RoutingNext]_allVars
    PROVE  [Next]_vars
<1>1. \A t \in Txn : sel[t].replica \in Replica
  BY DEF RoutingTypeOK, Sel
<1>2. CASE HealthStep
  BY <1>2 DEF HealthStep, Next, InitiateStep
<1>3. ASSUME NEW r \in Replica, BuildStep(r) \/ BuildFails(r) \/ RestartReplica(r)
      PROVE  [Next]_vars
  BY <1>3 DEF BuildStep, BuildFails, RestartReplica, PrepareGateway, SortGateway,
              StoreSnapshot, Next, PrepareStep
<1>4. ASSUME NEW t \in Txn, SelectStep(t)
      PROVE  [Next]_vars
  <2>1. CASE ReadSnapshot(t) \/ LockSnapshot(t) \/ InvalidateCache(t)
             \/ NoAvailableGateway(t)
    BY <2>1 DEF ReadSnapshot, LockSnapshot, InvalidateCache, NoAvailableGateway
  <2>2. CASE ProbeGranted(t)
    BY <2>2 DEF ProbeGranted, Next, InitiateStep
  <2>3. ASSUME NEW g \in Gateway, ChooseProbe(t, g) \/ ChooseHealthy(t, g)
        PROVE  Next
    BY <1>1, <2>3 DEF ChooseProbe, ChooseHealthy, Next
  <2> QED BY <1>4, <2>1, <2>2, <2>3 DEF SelectStep
<1>5. ASSUME NEW t \in Txn, NEW r \in Replica, NEW x \in Exclusions,
             SelectGateway(t, r, x)
      PROVE  [Next]_vars
  BY <1>5 DEF SelectGateway
<1>6. CASE ReloadGateways
  BY <1>6 DEF ReloadGateways
<1>7. CASE UNCHANGED allVars
  BY <1>7 DEF allVars, vars
<1> QED BY <1>2, <1>3, <1>4, <1>5, <1>6, <1>7 DEF RoutingNext, RoutingStep

-----------------------------------------------------------------------------
(* The history variables.                                                  *)

\* A step, or a stutter, leaves the history variables as Watch says.
LEMMA WatchFact ==
    ASSUME RoutingTypeOK, HistoryOK, [RoutingNext]_allVars
    PROVE  Watch
<1>1. CASE RoutingNext
  BY <1>1 DEF RoutingNext
<1>2. CASE UNCHANGED allVars
  <2>1. /\ lastSick \in [Gateway -> Nat] /\ lastEnabled \in [Gateway -> Nat]
        /\ lastDisabled \in [Gateway -> Nat]
    BY DEF RoutingTypeOK
  <2>2. UNCHANGED <<lastSick, lastEnabled, lastDisabled, clock, states, version>>
    BY <1>2 DEF allVars, vars, routing, history
  <2>3. Enabled' = Enabled
    BY <2>2 DEF Enabled
  <2> QED BY <2>1, <2>2, <2>3 DEF Watch, HistoryOK
<1> QED BY <1>1, <1>2

\* The clock never moves back.
LEMMA ClockGrows ==
    ASSUME HealthInv, [Next]_vars
    PROVE  clock \in Nat /\ clock' \in Nat /\ clock <= clock'
<1>1. clock \in Nat
  BY DEF HealthInv, TypeOK
<1>2. clock' = clock \/ clock' = clock + 1
  BY DEF Next, vars, store, Tick, PrepareStep, PrepareFails, Restart, ReadCache,
         LoadState, FillCache, SaveHalfOpen, CacheHalfOpen, PruneForRouting,
         CachePruned, PrepareReturns, PrepareForRouting, LookStep, LookFails,
         LookLoad, LookPrune, LookCache, State, InitiateStep, OutcomeStep,
         AcquireFails, InitiateFails, HandlerFails, TryAcquire, CacheAcquired,
         Initiated, ReleaseProbe, CacheReleased, OutcomeEvent, OutcomeGet,
         OutcomeStats, OutcomeRelease, OutcomeSave, OutcomeCache,
         MarkProbeSelected, Route, RecordOutcome
<1> QED BY <1>1, <1>2

\* The history variables are current after every step, and never move back.
LEMMA HistoryStep ==
    ASSUME HealthInv, RoutingTypeOK, HistoryOK, [Next]_vars, Watch
    PROVE  /\ HistoryOK'
           /\ lastSick' \in [Gateway -> Nat] /\ lastEnabled' \in [Gateway -> Nat]
           /\ lastDisabled' \in [Gateway -> Nat]
           /\ \A g \in Gateway : /\ lastSick[g] <= lastSick'[g]
                                 /\ lastEnabled[g] <= lastEnabled'[g]
                                 /\ lastDisabled[g] <= lastDisabled'[g]
<1>1. clock \in Nat /\ clock' \in Nat /\ clock <= clock'
  BY ClockGrows
<1>2. /\ lastSick \in [Gateway -> Nat] /\ lastEnabled \in [Gateway -> Nat]
      /\ lastDisabled \in [Gateway -> Nat]
  BY DEF RoutingTypeOK
<1>3. /\ lastSick' \in [Gateway -> Nat] /\ lastEnabled' \in [Gateway -> Nat]
      /\ lastDisabled' \in [Gateway -> Nat]
  BY <1>1, <1>2 DEF Watch
<1>4. \A g \in Gateway : /\ lastSick[g] <= lastSick'[g]
                         /\ lastEnabled[g] <= lastEnabled'[g]
                         /\ lastDisabled[g] <= lastDisabled'[g]
  BY <1>1, <1>2 DEF Watch, HistoryOK
<1>5. HistoryOK'
  BY <1>1, <1>2 DEF Watch, HistoryOK
<1> QED BY <1>3, <1>4, <1>5

-----------------------------------------------------------------------------
(* Records once created stay, and sickness is remembered.                  *)

\* A sound record is missing only as the record of no gateway.
LEMMA MissingFact ==
    ASSUME NEW s \in RuntimeState, NEW time, CooldownOK(s, time)
    PROVE  /\ s = NoState <=> s.state = "missing"
           /\ Ensure(s).state # "missing" /\ Ensure(s) # NoState
BY DEF CooldownOK, NoState, NewState, Ensure

\* What a repository call stores: a record, if there was one before.
LEMMA PutKeeps ==
    ASSUME TypeOK, NEW g \in Gateway, NEW s \in RuntimeState, Put(g, s),
           states[g] # NoState => s # NoState
    PROVE  \A h \in Gateway : states[h] # NoState => states'[h] # NoState
BY DEF Put, TypeOK

\* No step of the health service takes a record away.
LEMMA RecordsKept ==
    ASSUME HealthInv, RecordsKnown, [Next]_vars
    PROVE  \A g \in Gateway : states[g] # NoState => states'[g] # NoState
<1> DEFINE Kept == \A g \in Gateway : states[g] # NoState => states'[g] # NoState
<1>t. TypeOK
  BY DEF HealthInv
<1>f. FramesOK
  BY FrameFacts
<1>m. \A g \in Gateway : states[g] = NoState <=> states[g].state = "missing"
  BY <1>f, MissingFact DEF FramesOK
<1>n. NoState.state = "missing"
  BY DEF NoState
<1>p. \A g \in Gateway, s \in RuntimeState :
        Put(g, s) /\ (states[g] # NoState => s # NoState) => Kept
  BY <1>t, PutKeeps
<1>1. CASE Tick
  BY <1>1 DEF Tick
<1>2. ASSUME NEW r \in Replica, PrepareStep(r) \/ PrepareFails(r) \/ Restart(r)
      PROVE  Kept
  <2>f. /\ prep[r].gateway \in Gateway /\ prep[r].now \in Nat
        /\ prep[r].state \in RuntimeState
        /\ states[prep[r].gateway] \in RuntimeState
        /\ LedgerOK(states[prep[r].gateway])
        /\ CooldownOK(states[prep[r].gateway], clock)
    BY <1>f DEF FramesOK
  <2>1. CASE LoadState(r)
    <3>1. Put(prep[r].gateway, Ensure(states[prep[r].gateway]))
      BY <2>1 DEF LoadState
    <3>2. /\ Ensure(states[prep[r].gateway]) \in RuntimeState
          /\ Ensure(states[prep[r].gateway]) # NoState
      BY <2>f, EnsureType, MissingFact
    <3> QED BY <1>p, <2>f, <3>1, <3>2
  <2>2. CASE SaveHalfOpen(r)
    <3>1. Put(prep[r].gateway, prep[r].state) /\ prep[r].state.state = "half_open"
      BY <2>2 DEF SaveHalfOpen, HealthInv, RecordsSound
    <3> QED BY <1>n, <1>p, <2>f, <3>1
  <2>3. CASE PruneForRouting(r)
    <3> DEFINE s == PruneExpiredHalfOpenProbes(states[prep[r].gateway], prep[r].now)
    <3>1. Put(prep[r].gateway, s)
      BY <2>3 DEF PruneForRouting
    <3>2. s \in RuntimeState /\ s.state = states[prep[r].gateway].state
      BY <2>f, PruneFact
    <3> HIDE DEF s
    <3> QED BY <1>m, <1>n, <1>p, <2>f, <3>1, <3>2
  <2>4. CASE \/ ReadCache(r) \/ FillCache(r) \/ CacheHalfOpen(r) \/ CachePruned(r)
             \/ PrepareReturns(r) \/ PrepareFails(r) \/ Restart(r)
    BY <2>4 DEF ReadCache, FillCache, CacheHalfOpen, CachePruned, PrepareReturns,
                PrepareFails, Restart, store
  <2> QED BY <1>2, <2>1, <2>2, <2>3, <2>4 DEF PrepareStep
<1>3. ASSUME NEW r \in Replica, NEW g \in Gateway, PrepareForRouting(r, g)
      PROVE  Kept
  BY <1>3 DEF PrepareForRouting, store
<1>4. ASSUME NEW o \in Observer, LookStep(o) \/ LookFails(o)
      PROVE  Kept
  <2>f. /\ look[o].gateway \in Gateway /\ look[o].now \in Nat
        /\ states[look[o].gateway] \in RuntimeState
        /\ LedgerOK(states[look[o].gateway])
        /\ CooldownOK(states[look[o].gateway], clock)
    BY <1>f DEF FramesOK
  <2>1. CASE LookLoad(o)
    <3>1. Put(look[o].gateway, Ensure(states[look[o].gateway]))
      BY <2>1 DEF LookLoad
    <3>2. /\ Ensure(states[look[o].gateway]) \in RuntimeState
          /\ Ensure(states[look[o].gateway]) # NoState
      BY <2>f, EnsureType, MissingFact
    <3> QED BY <1>p, <2>f, <3>1, <3>2
  <2>2. CASE LookPrune(o)
    <3> DEFINE s == PruneExpiredHalfOpenProbes(states[look[o].gateway], look[o].now)
    <3>1. Put(look[o].gateway, s)
      BY <2>2 DEF LookPrune
    <3>2. s \in RuntimeState /\ s.state = states[look[o].gateway].state
      BY <2>f, PruneFact
    <3> HIDE DEF s
    <3> QED BY <1>m, <1>n, <1>p, <2>f, <3>1, <3>2
  <2>3. CASE LookCache(o) \/ LookFails(o)
    BY <2>3 DEF LookCache, LookFails, store
  <2> QED BY <1>4, <2>1, <2>2, <2>3 DEF LookStep
<1>5. ASSUME NEW o \in Observer, NEW r \in Replica, NEW g \in Gateway, State(o, r, g)
      PROVE  Kept
  BY <1>5 DEF State, store
<1>6. ASSUME NEW t \in Txn, \/ InitiateStep(t) \/ OutcomeStep(t) \/ AcquireFails(t)
                            \/ InitiateFails(t) \/ HandlerFails(t)
      PROVE  Kept
  <2>f. /\ ctx[t].gateway \in Gateway /\ ctx[t].now \in Nat
        /\ ctx[t].state \in RuntimeState
        /\ states[ctx[t].gateway] \in RuntimeState
        /\ LedgerOK(states[ctx[t].gateway])
    BY <1>f DEF FramesOK
  <2>1. CASE TryAcquire(t)
    <3> DEFINE u == states[ctx[t].gateway]
               e == ctx[t].now + ProbeTimeout
               s == TryAcquireHalfOpenProbe(u, t, HalfOpenProbeCount, e, ctx[t].now)
    <3>1. Put(ctx[t].gateway, s)
      BY <2>1 DEF TryAcquire
    <3>2. e \in Nat /\ u \in RuntimeState /\ LedgerOK(u) /\ ctx[t].now \in Nat
      BY <2>f, ConfigAssumption
    <3> HIDE DEF u, e
    <3>3. s \in RuntimeState /\ s.state = u.state
      BY <3>2, AcquireFact
    <3> HIDE DEF s
    <3> QED BY <1>m, <1>n, <1>p, <2>f, <3>1, <3>3 DEF u
  <2>2. CASE ReleaseProbe(t) \/ OutcomeRelease(t)
    <3> DEFINE s == ReleaseHalfOpenProbe(states[ctx[t].gateway], t, ctx[t].now)
    <3>1. Put(ctx[t].gateway, s)
      BY <2>2 DEF ReleaseProbe, OutcomeRelease
    <3>2. s \in RuntimeState /\ s.state = states[ctx[t].gateway].state
      BY <2>f, ReleaseFact
    <3> HIDE DEF s
    <3> QED BY <1>m, <1>n, <1>p, <2>f, <3>1, <3>2
  <2>3. CASE OutcomeSave(t)
    <3>1. Put(ctx[t].gateway, ctx[t].state) /\ ctx[t].state # NoState
      BY <2>3 DEF OutcomeSave, RecordsKnown
    <3> QED BY <1>p, <2>f, <3>1
  <2>4. CASE \/ CacheAcquired(t) \/ Initiated(t) \/ CacheReleased(t)
             \/ OutcomeEvent(t) \/ OutcomeGet(t) \/ OutcomeStats(t) \/ OutcomeCache(t)
             \/ AcquireFails(t) \/ InitiateFails(t) \/ HandlerFails(t)
    BY <2>4 DEF CacheAcquired, Initiated, CacheReleased, OutcomeEvent, OutcomeGet,
                OutcomeStats, OutcomeCache, AcquireFails, InitiateFails,
                HandlerFails, store
  <2> QED BY <1>6, <2>1, <2>2, <2>3, <2>4 DEF InitiateStep, OutcomeStep
<1>7. ASSUME NEW t \in Txn, NEW r \in Replica, NEW g \in Gateway,
             MarkProbeSelected(t, r, g) \/ Route(t, r, g)
      PROVE  Kept
  BY <1>7 DEF MarkProbeSelected, Route, store
<1>8. ASSUME NEW t \in Txn, NEW r \in Replica, NEW s \in Status,
             RecordOutcome(t, r, s)
      PROVE  Kept
  BY <1>8 DEF RecordOutcome, store
<1>9. CASE UNCHANGED vars
  BY <1>9 DEF vars
<1> QED BY <1>1, <1>2, <1>3, <1>4, <1>5, <1>6, <1>7, <1>8, <1>9 DEF Next

\* A record stored by a call is known, and if it is not "healthy" its gateway
\* is remembered as sick now.
LEMMA PutSeen ==
    ASSUME HealthInv, Watch, clock' = clock,
           NEW g \in Gateway, NEW s \in RuntimeState, Put(g, s), s.state # "missing"
    PROVE  /\ states'[g] # NoState
           /\ s.state # "healthy" => lastSick'[g] = clock
<1>1. states'[g] = s
  BY DEF HealthInv, TypeOK, Put
<1>2. NoState.state = "missing"
  BY DEF NoState
<1>3. s.state # "healthy" => s.state \in Sick
  BY DEF RuntimeState, GatewayStates, Sick
<1> QED BY <1>1, <1>2, <1>3 DEF Watch

\* What PrepareForRouting does with a record: it is judged where it stands.
LEMMA JudgedPC ==
    ASSUME NEW f \in PrepFrame
    PROVE  /\ Judged(f).pc \in {"save", "prune", "done"}
           /\ Judged(f).pc = "done" => Judged(f).state = f.state
BY DEF Judged, PrepFrame

\* What RecordOutcome saves is a record.
LEMMA OutcomeKnown ==
    ASSUME NEW s \in RuntimeState, NEW now \in Nat
    PROVE  /\ \A stats : HealthyOutcome(s, stats, now) # NoState
           /\ \A status : ProbeOutcome(s, status, now) # NoState
           /\ s.state = "unhealthy" => UnhealthyOutcome(s, now) # NoState
<1>1. ToHealthy(s).state = "healthy" /\ markUnhealthy(s, now).state = "unhealthy"
  BY DEF RuntimeState, ToHealthy, markUnhealthy, ToUnhealthy
<1>2. HalfOpenForCallback(s).state = "half_open"
  BY DEF RuntimeState, HalfOpenForCallback
<1>3. NoState.state = "missing"
  BY DEF NoState
<1> QED BY <1>1, <1>2, <1>3 DEF HealthyOutcome, ProbeOutcome, UnhealthyOutcome

\* What is cached or about to be cached as not healthy was sick recently, and
\* the gateways the calls work on have a record, after any step.
LEMMA SickStep ==
    ASSUME HealthInv, RoutingTypeOK, HistoryOK, RecordsKnown, SicknessFresh,
           [Next]_vars, Watch
    PROVE  RecordsKnown' /\ SicknessFresh'
<1>d. /\ prep \in [Replica -> PrepFrame] /\ look \in [Observer -> LookFrame]
      /\ ctx \in [Txn -> Ctx] /\ pc \in [Txn -> TxnPC]
      /\ stateCache \in [Replica -> [Gateway -> CacheEntry]]
      /\ lastSick \in [Gateway -> Nat] /\ clock \in Nat
  BY DEF HealthInv, TypeOK, RoutingTypeOK
<1>f. FramesOK
  BY FrameFacts
<1>l. /\ lastSick' \in [Gateway -> Nat]
      /\ \A g \in Gateway : lastSick[g] <= lastSick'[g]
  BY HistoryStep
<1>h. \A g \in Gateway : states[g] # NoState => states'[g] # NoState
  BY RecordsKept
<1>m. \A g \in Gateway : states[g] # NoState => states[g].state # "missing"
  BY <1>f, MissingFact DEF FramesOK
<1> DEFINE
      Known(g) == states'[g] # NoState
      PrepGood(f) ==
         /\ f.pc \notin {"idle", "read", "load"} => Known(f.gateway)
         /\ f.state.state # "healthy" =>
              /\ f.pc \in {"fill", "saved", "pruned"} => f.now <= lastSick'[f.gateway]
              /\ f.pc = "done" => f.now < lastSick'[f.gateway] + CacheTTL
      LookGood(f) ==
         /\ f.pc \in {"prune", "cache"} => Known(f.gateway)
         /\ f.state.state # "healthy" /\ f.pc = "cache" => f.now <= lastSick'[f.gateway]
      CtxGood(c, at) ==
         /\ at # "new" => Known(c.gateway)
         /\ at = "save" => c.state # NoState
         /\ c.state.state # "healthy" /\ at \in {"acquired", "denied", "released", "cache"}
            => c.now <= lastSick'[c.gateway]
      EntryGood(e, g) ==
         /\ e.expiresAt # 0 => Known(g)
         /\ e.state.state # "healthy" => e.expiresAt <= lastSick'[g] + CacheTTL
      PrepsGood == \A r \in Replica : PrepGood(prep'[r])
      LooksGood == \A o \in Observer : LookGood(look'[o])
      CtxsGood == \A t \in Txn : CtxGood(ctx'[t], pc'[t])
      CachesGood == \A r \in Replica, g \in Gateway : EntryGood(stateCache'[r][g], g)
      Goal == RecordsKnown' /\ SicknessFresh'
<1>w. ASSUME PrepsGood, LooksGood, CtxsGood, CachesGood
      PROVE  Goal
  <2>1. RecordsKnown'
    BY <1>w DEF RecordsKnown
  <2>2. SicknessFresh'
    BY <1>w DEF SicknessFresh
  <2> QED BY <2>1, <2>2
<1>r. \A r \in Replica : PrepGood(prep[r])
  BY <1>d, <1>f, <1>l, <1>h, ConfigAssumption DEF RecordsKnown, SicknessFresh, FramesOK
<1>o. \A o \in Observer : LookGood(look[o])
  BY <1>d, <1>f, <1>l, <1>h DEF RecordsKnown, SicknessFresh, FramesOK
<1>x. \A t \in Txn : CtxGood(ctx[t], pc[t])
  BY <1>d, <1>f, <1>l, <1>h DEF RecordsKnown, SicknessFresh, FramesOK
<1>e. \A r \in Replica, g \in Gateway : EntryGood(stateCache[r][g], g)
  BY <1>d, <1>f, <1>l, <1>h, ConfigAssumption DEF RecordsKnown, SicknessFresh, FramesOK
<1>u. /\ prep' = prep => PrepsGood
      /\ look' = look => LooksGood
      /\ ctx' = ctx /\ pc' = pc => CtxsGood
      /\ stateCache' = stateCache => CachesGood
  BY <1>r, <1>o, <1>x, <1>e
<1>c. ASSUME NEW r \in Replica, NEW g \in Gateway, NEW s \in RuntimeState, NEW now \in Nat,
             setCachedState(r, g, s, now), Known(g),
             s.state # "healthy" => now <= lastSick'[g]
      PROVE  CachesGood
  <2> SUFFICES ASSUME NEW i \in Replica, NEW h \in Gateway
               PROVE  EntryGood(stateCache'[i][h], h)
    OBVIOUS
  <2>1. CASE i = r /\ h = g
    <3>1. stateCache'[i][h] = [state |-> s, expiresAt |-> now + CacheTTL]
      BY <2>1, <1>c, <1>d DEF setCachedState
    <3> QED BY <1>c, <2>1, <3>1, <1>l, ConfigAssumption
  <2>2. CASE ~ (i = r /\ h = g)
    <3>1. stateCache'[i][h] = stateCache[i][h]
      BY <2>2, <1>c, <1>d DEF setCachedState
    <3> QED BY <3>1, <1>e
  <2> QED BY <2>1, <2>2
<1>q. ASSUME NEW r \in Replica, NEW f \in PrepFrame,
             prep' = [prep EXCEPT ![r] = f], PrepGood(f)
      PROVE  PrepsGood
  BY <1>q, <1>d, <1>r
<1>k. ASSUME NEW o \in Observer, NEW f \in LookFrame,
             look' = [look EXCEPT ![o] = f], LookGood(f)
      PROVE  LooksGood
  BY <1>k, <1>d, <1>o
<1>y. ASSUME NEW t \in Txn,
             \A i \in Txn \ {t} : ctx'[i] = ctx[i] /\ pc'[i] = pc[i],
             CtxGood(ctx'[t], pc'[t])
      PROVE  CtxsGood
  <2> SUFFICES ASSUME NEW i \in Txn PROVE CtxGood(ctx'[i], pc'[i])
    OBVIOUS
  <2>1. CASE i = t
    BY <1>y, <2>1
  <2>2. CASE i # t
    BY <1>y, <1>x, <2>2
  <2> QED BY <2>1, <2>2
<1>i. /\ IdlePrep \in PrepFrame /\ PrepGood(IdlePrep)
      /\ IdleLook \in LookFrame /\ LookGood(IdleLook)
      /\ NoState \in RuntimeState
  BY PlaceholderTypes DEF IdlePrep, IdleLook
<1> HIDE DEF PrepsGood, LooksGood, CtxsGood, CachesGood, Goal
<1>1. ASSUME Tick PROVE Goal
  BY <1>1, <1>u, <1>w DEF Tick
<1>2. ASSUME NEW r \in Replica, PrepareStep(r) \/ PrepareFails(r) \/ Restart(r)
      PROVE  Goal
  <2>f. /\ prep[r] \in PrepFrame /\ prep[r].gateway \in Gateway
        /\ prep[r].now \in Nat /\ prep[r].now <= clock
        /\ prep[r].state \in RuntimeState
        /\ states[prep[r].gateway] \in RuntimeState
        /\ LedgerOK(states[prep[r].gateway])
        /\ CooldownOK(states[prep[r].gateway], clock)
    BY <1>f DEF FramesOK
  <2>g. PrepGood(prep[r])
    BY <1>r
  <2>1. CASE ReadCache(r)
    <3> DEFINE f == prep[r]
               e == stateCache[r][f.gateway]
               c == [f EXCEPT !.state = e.state]
               l == [f EXCEPT !.pc = "load"]
    <3>1. /\ e.state \in RuntimeState /\ e.expiresAt \in Nat
          /\ EntryGood(e, f.gateway)
      BY <1>f, <1>e, <2>f DEF FramesOK
    <3>2. /\ c \in PrepFrame /\ c.now = f.now /\ c.state = e.state
          /\ c.gateway = f.gateway
          /\ l \in PrepFrame /\ l.pc = "load"
      BY <2>f, <3>1 DEF PrepFrame, PrepPC
    <3>3. CASE f.now < e.expiresAt
      <4>1. prep' = [prep EXCEPT ![r] = Judged(c)]
        BY <2>1, <3>3 DEF ReadCache
      <4>2. /\ Known(f.gateway)
            /\ f.now < lastSick'[f.gateway] + CacheTTL \/ e.state.state = "healthy"
        BY <1>l, <2>f, <3>1, <3>3, ConfigAssumption
      <4> HIDE DEF c, e, l
      <4>3. /\ Judged(c) \in PrepFrame /\ Judged(c).now = c.now
            /\ Judged(c).gateway = c.gateway
            /\ Judged(c).pc \in {"save", "prune", "done"}
            /\ Judged(c).pc = "done" => Judged(c).state = c.state
        BY <3>2, JudgedType, JudgedPC
      <4>4. PrepGood(Judged(c))
        BY <3>2, <4>2, <4>3
      <4>5. PrepsGood
        BY <1>q, <4>1, <4>3, <4>4
      <4> QED BY <2>1, <1>u, <1>w, <4>5 DEF ReadCache
    <3>4. CASE ~ (f.now < e.expiresAt)
      <4>1. prep' = [prep EXCEPT ![r] = l]
        BY <2>1, <3>4 DEF ReadCache
      <4>2. PrepGood(l)
        BY <3>2
      <4> HIDE DEF c, e, l
      <4>3. PrepsGood
        BY <1>q, <3>2, <4>1, <4>2
      <4> QED BY <2>1, <1>u, <1>w, <4>3 DEF ReadCache
    <3> QED BY <3>3, <3>4
  <2>2. CASE LoadState(r)
    <3> DEFINE s == Ensure(states[prep[r].gateway])
               c == [prep[r] EXCEPT !.pc = "fill", !.state = s]
    <3>1. s \in RuntimeState /\ s.state # "missing"
      BY <2>f, EnsureType, MissingFact
    <3>2. prep' = [prep EXCEPT ![r] = c] /\ Put(prep[r].gateway, s) /\ clock' = clock
      BY <2>2, <1>d DEF LoadState
    <3> HIDE DEF s
    <3>3. /\ Known(prep[r].gateway)
          /\ s.state # "healthy" => prep[r].now <= lastSick'[prep[r].gateway]
      BY <2>f, <3>1, <3>2, PutSeen
    <3>4. /\ c \in PrepFrame /\ c.pc = "fill" /\ c.state = s
          /\ c.now = prep[r].now /\ c.gateway = prep[r].gateway
      BY <2>f, <3>1 DEF PrepFrame, PrepPC
    <3> HIDE DEF c
    <3>5. PrepsGood
      BY <1>q, <3>2, <3>3, <3>4
    <3> QED BY <2>2, <1>u, <1>w, <3>5 DEF LoadState
  <2>3. CASE FillCache(r)
    <3>1. /\ Known(prep[r].gateway)
          /\ prep[r].state.state # "healthy" => prep[r].now <= lastSick'[prep[r].gateway]
      BY <2>3, <2>g DEF FillCache
    <3>2. CachesGood
      BY <2>3, <1>c, <2>f, <3>1 DEF FillCache
    <3> DEFINE j == Judged(prep[r])
    <3>3. /\ j \in PrepFrame /\ j.now = prep[r].now /\ j.gateway = prep[r].gateway
          /\ j.pc \in {"save", "prune", "done"}
          /\ j.pc = "done" => j.state = prep[r].state
      BY <2>f, JudgedType, JudgedPC
    <3>4. prep' = [prep EXCEPT ![r] = j]
      BY <2>3 DEF FillCache
    <3> HIDE DEF j
    <3>5. PrepGood(j)
      BY <1>l, <2>f, <3>1, <3>3, ConfigAssumption
    <3>6. PrepsGood
      BY <1>q, <3>3, <3>4, <3>5
    <3> QED BY <2>3, <1>u, <1>w, <3>2, <3>6 DEF FillCache
  <2>4. CASE SaveHalfOpen(r)
    <3> DEFINE c == [prep[r] EXCEPT !.pc = "saved"]
    <3>1. /\ c \in PrepFrame /\ c.pc = "saved" /\ prep' = [prep EXCEPT ![r] = c]
          /\ c.now = prep[r].now /\ c.gateway = prep[r].gateway
      BY <2>4, <1>d, <2>f DEF SaveHalfOpen, PrepFrame, PrepPC
    <3>2. /\ Put(prep[r].gateway, prep[r].state) /\ clock' = clock
          /\ prep[r].state.state = "half_open"
      BY <2>4 DEF SaveHalfOpen, HealthInv, RecordsSound
    <3>3. Known(prep[r].gateway) /\ prep[r].now <= lastSick'[prep[r].gateway]
      BY <2>f, <3>2, PutSeen
    <3> HIDE DEF c
    <3>4. PrepsGood
      BY <1>q, <3>1, <3>3
    <3> QED BY <2>4, <1>u, <1>w, <3>4 DEF SaveHalfOpen
  <2>5. CASE CacheHalfOpen(r)
    <3> DEFINE c == [prep[r] EXCEPT !.pc = "prune"]
    <3>1. /\ c \in PrepFrame /\ c.pc = "prune" /\ prep' = [prep EXCEPT ![r] = c]
          /\ c.gateway = prep[r].gateway
      BY <2>5, <1>d, <2>f DEF CacheHalfOpen, PrepFrame, PrepPC
    <3>2. /\ Known(prep[r].gateway)
          /\ prep[r].state.state # "healthy" => prep[r].now <= lastSick'[prep[r].gateway]
      BY <2>5, <2>g DEF CacheHalfOpen
    <3> HIDE DEF c
    <3>3. PrepsGood
      BY <1>q, <3>1, <3>2
    <3>4. CachesGood
      BY <2>5, <1>c, <2>f, <3>2 DEF CacheHalfOpen
    <3> QED BY <2>5, <1>u, <1>w, <3>3, <3>4 DEF CacheHalfOpen
  <2>6. CASE PruneForRouting(r)
    <3> DEFINE s == PruneExpiredHalfOpenProbes(states[prep[r].gateway], prep[r].now)
               c == [prep[r] EXCEPT !.pc = "pruned", !.state = s]
    <3>1. states[prep[r].gateway].state # "missing"
      BY <2>6, <1>m, <2>f DEF PruneForRouting, RecordsKnown
    <3>2. s \in RuntimeState /\ s.state # "missing"
      BY <2>f, <3>1, PruneFact
    <3>3. prep' = [prep EXCEPT ![r] = c] /\ Put(prep[r].gateway, s) /\ clock' = clock
      BY <2>6, <1>d DEF PruneForRouting
    <3> HIDE DEF s
    <3>4. /\ Known(prep[r].gateway)
          /\ s.state # "healthy" => prep[r].now <= lastSick'[prep[r].gateway]
      BY <2>f, <3>2, <3>3, PutSeen
    <3>5. /\ c \in PrepFrame /\ c.pc = "pruned" /\ c.state = s
          /\ c.now = prep[r].now /\ c.gateway = prep[r].gateway
      BY <2>f, <3>2 DEF PrepFrame, PrepPC
    <3> HIDE DEF c
    <3>6. PrepsGood
      BY <1>q, <3>3, <3>4, <3>5
    <3> QED BY <2>6, <1>u, <1>w, <3>6 DEF PruneForRouting
  <2>7. CASE CachePruned(r)
    <3> DEFINE c == [prep[r] EXCEPT !.pc = "done"]
    <3>1. /\ Known(prep[r].gateway)
          /\ prep[r].state.state # "healthy" => prep[r].now <= lastSick'[prep[r].gateway]
      BY <2>7, <2>g DEF CachePruned
    <3>2. CachesGood
      BY <2>7, <1>c, <2>f, <3>1 DEF CachePruned
    <3>3. /\ c \in PrepFrame /\ c.pc = "done" /\ prep' = [prep EXCEPT ![r] = c]
          /\ c.state = prep[r].state /\ c.now = prep[r].now
          /\ c.gateway = prep[r].gateway
      BY <2>7, <1>d, <2>f DEF CachePruned, PrepFrame, PrepPC
    <3> HIDE DEF c
    <3>4. PrepGood(c)
      BY <1>l, <2>f, <3>1, <3>3, ConfigAssumption
    <3>5. PrepsGood
      BY <1>q, <3>3, <3>4
    <3> QED BY <2>7, <1>u, <1>w, <3>2, <3>5 DEF CachePruned
  <2>8. CASE PrepareReturns(r) \/ PrepareFails(r)
    <3>1. PrepsGood
      BY <2>8, <1>q, <1>i DEF PrepareReturns, PrepareFails
    <3> QED BY <2>8, <1>u, <1>w, <3>1 DEF PrepareReturns, PrepareFails
  <2>9. CASE Restart(r)
    <3>1. PrepsGood
      BY <2>9, <1>q, <1>i DEF Restart
    <3>2. CachesGood
      <4> SUFFICES ASSUME NEW i \in Replica, NEW h \in Gateway
                   PROVE  EntryGood(stateCache'[i][h], h)
        BY DEF CachesGood
      <4>1. CASE i = r
        <5>1. stateCache'[i][h] = NoEntry
          BY <2>9, <1>d, <4>1 DEF Restart
        <5> QED BY <5>1, <1>l, ConfigAssumption DEF NoEntry
      <4>2. CASE i # r
        BY <2>9, <1>d, <1>e, <4>2 DEF Restart
      <4> QED BY <4>1, <4>2
    <3>3. LooksGood
      BY <2>9, <1>o, <1>i DEF Restart, LooksGood
    <3>4. CtxsGood
      <4> SUFFICES ASSUME NEW t \in Txn PROVE CtxGood(ctx'[t], pc'[t])
        BY DEF CtxsGood
      <4>1. CASE t \in CrashedTxns(r)
        <5>1. /\ pc'[t] = "aborted" /\ pc[t] # "new"
              /\ ctx'[t] = [ctx[t] EXCEPT !.state = NoState, !.now = 0]
          BY <2>9, <4>1 DEF Restart, CrashedTxns, Selecting, Releasing, Recording
        <5>2. ctx'[t].gateway = ctx[t].gateway
          BY <5>1, <1>d DEF Ctx
        <5> QED BY <5>1, <5>2, <1>x
      <4>2. CASE t \notin CrashedTxns(r)
        BY <2>9, <4>2, <1>x DEF Restart
      <4> QED BY <4>1, <4>2
    <3> QED BY <1>w, <3>1, <3>2, <3>3, <3>4
  <2> QED BY <1>2, <2>1, <2>2, <2>3, <2>4, <2>5, <2>6, <2>7, <2>8, <2>9
          DEF PrepareStep
<1>3. ASSUME NEW r \in Replica, NEW g \in Gateway, PrepareForRouting(r, g)
      PROVE  Goal
  <2> DEFINE c == [pc |-> "read", gateway |-> g, now |-> clock, state |-> NoState]
  <2>1. c \in PrepFrame /\ PrepGood(c)
    BY <1>d, <1>i DEF PrepFrame, PrepPC
  <2>2. PrepsGood
    BY <1>3, <1>q, <2>1 DEF PrepareForRouting
  <2> QED BY <1>3, <1>u, <1>w, <2>2 DEF PrepareForRouting
<1>4. ASSUME NEW o \in Observer, LookStep(o) \/ LookFails(o)
      PROVE  Goal
  <2>f. /\ look[o] \in LookFrame /\ look[o].gateway \in Gateway
        /\ look[o].replica \in Replica
        /\ look[o].now \in Nat /\ look[o].now <= clock
        /\ look[o].state \in RuntimeState
        /\ states[look[o].gateway] \in RuntimeState
        /\ LedgerOK(states[look[o].gateway])
        /\ CooldownOK(states[look[o].gateway], clock)
    BY <1>f DEF FramesOK
  <2>1. CASE LookLoad(o)
    <3> DEFINE s == Ensure(states[look[o].gateway])
               at == IF s.state = "half_open" THEN "prune" ELSE "cache"
               c == [look[o] EXCEPT !.state = s, !.pc = at]
    <3>1. s \in RuntimeState /\ s.state # "missing"
      BY <2>f, EnsureType, MissingFact
    <3>2. look' = [look EXCEPT ![o] = c] /\ Put(look[o].gateway, s) /\ clock' = clock
      BY <2>1, <1>d DEF LookLoad
    <3>3. at \in LookPC
      BY DEF LookPC
    <3> HIDE DEF s, at
    <3>4. /\ Known(look[o].gateway)
          /\ s.state # "healthy" => look[o].now <= lastSick'[look[o].gateway]
      BY <2>f, <3>1, <3>2, PutSeen
    <3>5. /\ c \in LookFrame /\ c.state = s
          /\ c.now = look[o].now /\ c.gateway = look[o].gateway
      BY <2>f, <3>1, <3>3 DEF LookFrame
    <3> HIDE DEF c
    <3>6. LooksGood
      BY <1>k, <3>2, <3>4, <3>5
    <3> QED BY <2>1, <1>u, <1>w, <3>6 DEF LookLoad
  <2>2. CASE LookPrune(o)
    <3> DEFINE s == PruneExpiredHalfOpenProbes(states[look[o].gateway], look[o].now)
               c == [look[o] EXCEPT !.state = s, !.pc = "cache"]
    <3>1. states[look[o].gateway].state # "missing"
      BY <2>2, <1>m, <2>f DEF LookPrune, RecordsKnown
    <3>2. s \in RuntimeState /\ s.state # "missing"
      BY <2>f, <3>1, PruneFact
    <3>3. look' = [look EXCEPT ![o] = c] /\ Put(look[o].gateway, s) /\ clock' = clock
      BY <2>2, <1>d DEF LookPrune
    <3> HIDE DEF s
    <3>4. /\ Known(look[o].gateway)
          /\ s.state # "healthy" => look[o].now <= lastSick'[look[o].gateway]
      BY <2>f, <3>2, <3>3, PutSeen
    <3>5. /\ c \in LookFrame /\ c.state = s
          /\ c.now = look[o].now /\ c.gateway = look[o].gateway
      BY <2>f, <3>2 DEF LookFrame, LookPC
    <3> HIDE DEF c
    <3>6. LooksGood
      BY <1>k, <3>3, <3>4, <3>5
    <3> QED BY <2>2, <1>u, <1>w, <3>6 DEF LookPrune
  <2>3. CASE LookCache(o)
    <3>1. /\ Known(look[o].gateway)
          /\ look[o].state.state # "healthy" => look[o].now <= lastSick'[look[o].gateway]
      BY <2>3, <1>o DEF LookCache
    <3>2. CachesGood
      BY <2>3, <1>c, <2>f, <3>1 DEF LookCache
    <3>3. LooksGood
      BY <2>3, <1>k, <1>i DEF LookCache
    <3> QED BY <2>3, <1>u, <1>w, <3>2, <3>3 DEF LookCache
  <2>4. CASE LookFails(o)
    <3>1. LooksGood
      BY <2>4, <1>k, <1>i DEF LookFails
    <3> QED BY <2>4, <1>u, <1>w, <3>1 DEF LookFails
  <2> QED BY <1>4, <2>1, <2>2, <2>3, <2>4 DEF LookStep
<1>5. ASSUME NEW o \in Observer, NEW r \in Replica, NEW g \in Gateway, State(o, r, g)
      PROVE  Goal
  <2> DEFINE c == [pc |-> "load", replica |-> r, gateway |-> g, now |-> clock,
                   state |-> NoState]
  <2>1. c \in LookFrame /\ LookGood(c)
    BY <1>d, <1>i DEF LookFrame, LookPC
  <2>2. LooksGood
    BY <1>5, <1>k, <2>1 DEF State
  <2> QED BY <1>5, <1>u, <1>w, <2>2 DEF State
<1>6. ASSUME NEW t \in Txn, \/ InitiateStep(t) \/ AcquireFails(t)
                            \/ InitiateFails(t) \/ HandlerFails(t) \/ OutcomeStep(t)
      PROVE  Goal
  <2>f. /\ ctx[t] \in Ctx /\ ctx[t].gateway \in Gateway /\ ctx[t].replica \in Replica
        /\ ctx[t].now \in Nat /\ ctx[t].now <= clock
        /\ ctx[t].state \in RuntimeState /\ CooldownOK(ctx[t].state, clock)
        /\ states[ctx[t].gateway] \in RuntimeState
        /\ LedgerOK(states[ctx[t].gateway])
    BY <1>f DEF FramesOK
  <2>g. CtxGood(ctx[t], pc[t])
    BY <1>x
  <2>k. pc[t] # "new" => states[ctx[t].gateway].state # "missing"
    BY <1>m, <2>f DEF RecordsKnown
  <2>1. CASE TryAcquire(t)
    <3> DEFINE u == states[ctx[t].gateway]
               now == ctx[t].now
               e == now + ProbeTimeout
               s == TryAcquireHalfOpenProbe(u, t, HalfOpenProbeCount, e, now)
    <3>1. /\ e \in Nat /\ now \in Nat /\ u \in RuntimeState /\ LedgerOK(u)
          /\ u.state # "missing"
      BY <2>1, <2>f, <2>k, ConfigAssumption DEF TryAcquire
    <3>2. Put(ctx[t].gateway, s) /\ clock' = clock
      BY <2>1 DEF TryAcquire
    <3>3. /\ ctx'[t].state = s /\ ctx'[t].now = ctx[t].now
          /\ ctx'[t].gateway = ctx[t].gateway /\ pc'[t] \in {"acquired", "denied"}
          /\ \A i \in Txn \ {t} : ctx'[i] = ctx[i] /\ pc'[i] = pc[i]
      BY <2>1, <1>d, <2>f DEF TryAcquire, Ctx
    <3> HIDE DEF u, e, now
    <3>4. s \in RuntimeState /\ s.state # "missing"
      BY <3>1, AcquireFact
    <3> HIDE DEF s
    <3>5. /\ Known(ctx[t].gateway)
          /\ s.state # "healthy" => ctx[t].now <= lastSick'[ctx[t].gateway]
      BY <2>f, <3>2, <3>4, PutSeen
    <3>6. CtxsGood
      BY <1>y, <3>3, <3>5
    <3> QED BY <2>1, <1>u, <1>w, <3>6 DEF TryAcquire
  <2>2. CASE CacheAcquired(t) \/ CacheReleased(t) \/ OutcomeCache(t)
    <3>1. /\ Known(ctx[t].gateway)
          /\ ctx[t].state.state # "healthy" => ctx[t].now <= lastSick'[ctx[t].gateway]
      BY <2>2, <2>g DEF CacheAcquired, CacheReleased, OutcomeCache
    <3>2. setCachedState(ctx[t].replica, ctx[t].gateway, ctx[t].state, ctx[t].now)
      BY <2>2 DEF CacheAcquired, CacheReleased, OutcomeCache
    <3>3. CachesGood
      BY <1>c, <2>f, <3>1, <3>2
    <3>4. /\ pc'[t] \in {"initiating", "fallback", "failed", "done"}
          /\ ctx'[t] = [ctx[t] EXCEPT !.state = NoState, !.now = 0]
          /\ \A i \in Txn \ {t} : ctx'[i] = ctx[i] /\ pc'[i] = pc[i]
      BY <2>2, <1>d DEF CacheAcquired, CacheReleased, OutcomeCache
    <3>5. ctx'[t].gateway = ctx[t].gateway
      BY <2>f, <3>4 DEF Ctx
    <3>6. CtxsGood
      BY <1>y, <3>1, <3>4, <3>5
    <3>7. UNCHANGED <<prep, look>>
      BY <2>2 DEF CacheAcquired, CacheReleased, OutcomeCache
    <3> QED BY <1>u, <1>w, <3>3, <3>6, <3>7
  <2>3. CASE \/ Initiated(t) \/ AcquireFails(t) \/ InitiateFails(t) \/ HandlerFails(t)
             \/ OutcomeEvent(t) \/ OutcomeGet(t)
    <3>1. /\ pc'[t] \in {"pending", "fallback", "release", "failed", "aborted",
                         "get", "stats"}
          /\ pc[t] # "new"
          /\ \A i \in Txn \ {t} : ctx'[i] = ctx[i] /\ pc'[i] = pc[i]
      BY <2>3, <1>d DEF Initiated, AcquireFails, InitiateFails, HandlerFails,
                        OutcomeEvent, OutcomeGet, Selecting, Releasing, Recording
    <3>2. ctx'[t].gateway = ctx[t].gateway
      BY <2>3, <1>d, <2>f DEF Initiated, AcquireFails, InitiateFails, HandlerFails,
                              OutcomeEvent, OutcomeGet, Ctx
    <3>3. CtxsGood
      BY <1>y, <2>g, <3>1, <3>2
    <3>4. UNCHANGED <<stateCache, prep, look>>
      BY <2>3 DEF Initiated, AcquireFails, InitiateFails, HandlerFails,
                  OutcomeEvent, OutcomeGet
    <3> QED BY <1>u, <1>w, <3>3, <3>4
  <2>4. CASE ReleaseProbe(t)
    <3> DEFINE s == ReleaseHalfOpenProbe(states[ctx[t].gateway], t, ctx[t].now)
    <3>1. s \in RuntimeState /\ s.state # "missing"
      BY <2>4, <2>f, <2>k, ReleaseFact DEF ReleaseProbe
    <3>2. Put(ctx[t].gateway, s) /\ clock' = clock
      BY <2>4 DEF ReleaseProbe
    <3>3. /\ ctx'[t].state = s /\ ctx'[t].now = ctx[t].now
          /\ ctx'[t].gateway = ctx[t].gateway /\ pc'[t] = "released"
          /\ \A i \in Txn \ {t} : ctx'[i] = ctx[i] /\ pc'[i] = pc[i]
      BY <2>4, <1>d, <2>f DEF ReleaseProbe, Ctx
    <3> HIDE DEF s
    <3>4. /\ Known(ctx[t].gateway)
          /\ s.state # "healthy" => ctx[t].now <= lastSick'[ctx[t].gateway]
      BY <2>f, <3>1, <3>2, PutSeen
    <3>5. CtxsGood
      BY <1>y, <3>3, <3>4
    <3> QED BY <2>4, <1>u, <1>w, <3>5 DEF ReleaseProbe
  <2>5. CASE OutcomeStats(t)
    <3>1. /\ pc'[t] \in {"drop", "save"} /\ pc[t] # "new"
          /\ \A i \in Txn \ {t} : ctx'[i] = ctx[i] /\ pc'[i] = pc[i]
      BY <2>5, <1>d DEF OutcomeStats
    <3>2. ctx'[t].gateway = ctx[t].gateway
      BY <2>5, <1>d, <2>f DEF OutcomeStats, Ctx
    <3>3. pc'[t] = "save" => ctx'[t].state # NoState
      BY <2>5, <1>d, <2>f, OutcomeKnown DEF OutcomeStats, Ctx
    <3>4. CtxsGood
      BY <1>y, <2>g, <3>1, <3>2, <3>3
    <3> QED BY <2>5, <1>u, <1>w, <3>4 DEF OutcomeStats
  <2>6. CASE OutcomeRelease(t)
    <3> DEFINE s == ReleaseHalfOpenProbe(states[ctx[t].gateway], t, ctx[t].now)
    <3>1. s \in RuntimeState /\ s.state # "missing"
      BY <2>6, <2>f, <2>k, ReleaseFact DEF OutcomeRelease
    <3>2. Put(ctx[t].gateway, s) /\ clock' = clock
      BY <2>6 DEF OutcomeRelease
    <3>3. /\ pc'[t] = "cache" => ctx'[t].state = s
          /\ pc'[t] = "save" => ctx'[t].state = ProbeOutcome(s, ctx[t].status, ctx[t].now)
          /\ ctx'[t].now = ctx[t].now
          /\ ctx'[t].gateway = ctx[t].gateway
          /\ pc'[t] \in {"save", "cache"}
          /\ \A i \in Txn \ {t} : ctx'[i] = ctx[i] /\ pc'[i] = pc[i]
      BY <2>6, <1>d, <2>f DEF OutcomeRelease, Ctx
    <3> HIDE DEF s
    <3>4. /\ Known(ctx[t].gateway)
          /\ s.state # "healthy" => ctx[t].now <= lastSick'[ctx[t].gateway]
      BY <2>f, <3>1, <3>2, PutSeen
    <3>5. ProbeOutcome(s, ctx[t].status, ctx[t].now) # NoState
      BY <2>f, <3>1, OutcomeKnown
    <3>6. CtxsGood
      BY <1>y, <3>3, <3>4, <3>5
    <3> QED BY <2>6, <1>u, <1>w, <3>6 DEF OutcomeRelease
  <2>7. CASE OutcomeSave(t)
    <3>1. Put(ctx[t].gateway, ctx[t].state) /\ clock' = clock
      BY <2>7 DEF OutcomeSave
    <3>2. ctx[t].state.state # "missing"
      BY <2>7, <2>f, <2>g DEF OutcomeSave, CooldownOK
    <3>3. /\ Known(ctx[t].gateway)
          /\ ctx[t].state.state # "healthy" => ctx[t].now <= lastSick'[ctx[t].gateway]
      BY <2>f, <3>1, <3>2, PutSeen
    <3>4. /\ ctx'[t] = ctx[t] /\ pc'[t] = "cache"
          /\ \A i \in Txn \ {t} : ctx'[i] = ctx[i] /\ pc'[i] = pc[i]
      BY <2>7, <1>d DEF OutcomeSave
    <3>5. CtxsGood
      BY <1>y, <3>3, <3>4
    <3> QED BY <2>7, <1>u, <1>w, <3>5 DEF OutcomeSave
  <2> QED BY <1>6, <2>1, <2>2, <2>3, <2>4, <2>5, <2>6, <2>7 DEF InitiateStep, OutcomeStep
<1>7. ASSUME NEW t \in Txn, NEW r \in Replica, NEW g \in Gateway,
             MarkProbeSelected(t, r, g) \/ Route(t, r, g)
      PROVE  Goal
  <2>1. /\ pc'[t] \in {"acquire", "initiating"} /\ ctx'[t].gateway = g
        /\ states[g] # NoState
        /\ \A i \in Txn \ {t} : ctx'[i] = ctx[i] /\ pc'[i] = pc[i]
    BY <1>7, <1>d DEF MarkProbeSelected, Route, Ctx
  <2>2. CtxsGood
    BY <1>h, <1>y, <2>1
  <2> QED BY <1>7, <1>u, <1>w, <2>2 DEF MarkProbeSelected, Route
<1>8. ASSUME NEW t \in Txn, NEW r \in Replica, NEW s \in Status,
             RecordOutcome(t, r, s)
      PROVE  Goal
  <2>1. /\ pc'[t] = "event" /\ pc[t] # "new" /\ ctx'[t].gateway = ctx[t].gateway
        /\ \A i \in Txn \ {t} : ctx'[i] = ctx[i] /\ pc'[i] = pc[i]
    BY <1>8, <1>d DEF RecordOutcome, Ctx
  <2>2. CtxsGood
    BY <1>x, <1>y, <2>1
  <2> QED BY <1>8, <1>u, <1>w, <2>2 DEF RecordOutcome
<1>9. ASSUME UNCHANGED vars PROVE Goal
  BY <1>9, <1>u, <1>w DEF vars
<1>10. Goal
  BY <1>1, <1>2, <1>3, <1>4, <1>5, <1>6, <1>7, <1>8, <1>9 DEF Next
<1> QED BY <1>10 DEF Goal

-----------------------------------------------------------------------------
(* What the rest of the health service leaves alone.                       *)

\* A step of the health service outside the routing service's own calls ends
\* no PrepareForRouting call and moves no request before its gateway is chosen,
\* but for the attempt to take a probe slot.
LEMMA HealthFrame ==
    ASSUME HealthInv, HealthStep
    PROVE  /\ \A r \in Replica : /\ prep'[r].pc # "idle" <=> prep[r].pc # "idle"
                                 /\ prep'[r].now = prep[r].now
                                 /\ prep'[r].gateway = prep[r].gateway
           /\ \A t \in Txn : pc[t] \in {"new", "fallback"} \cup Selecting =>
                 /\ ctx'[t].replica = ctx[t].replica
                 /\ IF pc[t] \in Selecting THEN pc'[t] \in Selecting \cup {"fallback"}
                                           ELSE pc'[t] = pc[t]
<1>d. /\ prep \in [Replica -> PrepFrame] /\ ctx \in [Txn -> Ctx] /\ pc \in [Txn -> TxnPC]
  BY DEF HealthInv, TypeOK
<1>f. FramesOK
  BY FrameFacts
<1> DEFINE
      Calls == \A r \in Replica : /\ prep'[r].pc # "idle" <=> prep[r].pc # "idle"
                                  /\ prep'[r].now = prep[r].now
                                  /\ prep'[r].gateway = prep[r].gateway
      Requests == \A t \in Txn : pc[t] \in {"new", "fallback"} \cup Selecting =>
                 /\ ctx'[t].replica = ctx[t].replica
                 /\ IF pc[t] \in Selecting THEN pc'[t] \in Selecting \cup {"fallback"}
                                           ELSE pc'[t] = pc[t]
<1>u. /\ prep' = prep => Calls
      /\ UNCHANGED <<pc, ctx>> => Requests
  BY DEF Selecting
<1>y. ASSUME NEW t \in Txn,
             \A i \in Txn \ {t} : ctx'[i] = ctx[i] /\ pc'[i] = pc[i],
             \/ pc[t] \notin {"new", "fallback"} \cup Selecting
             \/ /\ pc[t] \in Selecting /\ pc'[t] \in Selecting \cup {"fallback"}
                /\ ctx'[t].replica = ctx[t].replica
      PROVE  Requests
  BY <1>y DEF Selecting
<1> HIDE DEF Calls, Requests
<1>1. ASSUME Tick PROVE Calls /\ Requests
  BY <1>1, <1>u DEF Tick
<1>2. ASSUME NEW r \in Replica, prep[r].pc # "done", PrepareStep(r)
      PROVE  Calls /\ Requests
  <2>f. /\ prep[r] \in PrepFrame /\ prep[r].gateway \in Gateway
    BY <1>f DEF FramesOK
  <2>q. ASSUME NEW f, prep' = [prep EXCEPT ![r] = f], prep[r].pc # "idle",
               f.pc # "idle", f.now = prep[r].now, f.gateway = prep[r].gateway
        PROVE  Calls
    BY <2>q, <1>d DEF Calls
  <2>1. CASE ReadCache(r)
    <3> DEFINE c == [prep[r] EXCEPT !.state = stateCache[r][prep[r].gateway].state]
               l == [prep[r] EXCEPT !.pc = "load"]
    <3>1. /\ c \in PrepFrame /\ c.now = prep[r].now /\ c.gateway = prep[r].gateway
          /\ l.pc = "load" /\ l.now = prep[r].now /\ l.gateway = prep[r].gateway
      BY <1>f, <2>f DEF PrepFrame, FramesOK
    <3>2. \/ prep' = [prep EXCEPT ![r] = Judged(c)]
          \/ prep' = [prep EXCEPT ![r] = l]
      BY <2>1 DEF ReadCache
    <3> HIDE DEF c, l
    <3>3. /\ Judged(c).pc # "idle" /\ Judged(c).now = c.now
          /\ Judged(c).gateway = c.gateway
      BY <3>1, JudgedPC, JudgedType
    <3>4. Calls
      BY <2>1, <2>q, <3>1, <3>2, <3>3 DEF ReadCache
    <3> QED BY <2>1, <1>u, <3>4 DEF ReadCache
  <2>2. CASE FillCache(r)
    <3>1. /\ Judged(prep[r]).pc # "idle" /\ Judged(prep[r]).now = prep[r].now
          /\ Judged(prep[r]).gateway = prep[r].gateway
      BY <2>f, JudgedPC, JudgedType
    <3>2. Calls
      BY <2>2, <2>q, <3>1 DEF FillCache
    <3> QED BY <2>2, <1>u, <3>2 DEF FillCache
  <2>3. CASE \/ LoadState(r) \/ SaveHalfOpen(r) \/ CacheHalfOpen(r)
             \/ PruneForRouting(r) \/ CachePruned(r)
    <3>1. /\ prep'[r].pc # "idle" /\ prep[r].pc # "idle"
          /\ prep'[r].now = prep[r].now /\ prep'[r].gateway = prep[r].gateway
          /\ \A i \in Replica \ {r} : prep'[i] = prep[i]
      BY <2>3, <1>d, <2>f DEF LoadState, SaveHalfOpen, CacheHalfOpen, PruneForRouting,
                              CachePruned, PrepFrame
    <3>2. Calls
      BY <3>1 DEF Calls
    <3>3. UNCHANGED <<pc, ctx>>
      BY <2>3 DEF LoadState, SaveHalfOpen, CacheHalfOpen, PruneForRouting, CachePruned
    <3> QED BY <1>u, <3>2, <3>3
  <2>4. ~ PrepareReturns(r)
    BY <1>2 DEF PrepareReturns
  <2> QED BY <1>2, <2>1, <2>2, <2>3, <2>4 DEF PrepareStep
<1>3. ASSUME NEW o \in Observer, LookStep(o) \/ LookFails(o)
      PROVE  Calls /\ Requests
  BY <1>3, <1>u DEF LookStep, LookFails, LookLoad, LookPrune, LookCache
<1>4. ASSUME NEW o \in Observer, NEW r \in Replica, NEW g \in Gateway, State(o, r, g)
      PROVE  Calls /\ Requests
  BY <1>4, <1>u DEF State
<1>5. ASSUME NEW t \in Txn, \/ TryAcquire(t) \/ AcquireFails(t)
                            \/ pc[t] = "denied" /\ CacheAcquired(t)
                            \/ Initiated(t) \/ ReleaseProbe(t) \/ CacheReleased(t)
                            \/ OutcomeStep(t) \/ InitiateFails(t) \/ HandlerFails(t)
      PROVE  Calls /\ Requests
  <2>f. ctx[t] \in Ctx
    BY <1>d
  <2>1. CASE TryAcquire(t)
    <3>1. /\ pc[t] = "acquire" /\ pc'[t] \in {"acquired", "denied"} /\ prep' = prep
          /\ \A i \in Txn \ {t} : ctx'[i] = ctx[i] /\ pc'[i] = pc[i]
      BY <2>1, <1>d DEF TryAcquire
    <3>2. ctx'[t].replica = ctx[t].replica
      BY <2>1, <1>d, <2>f DEF TryAcquire, Ctx
    <3> QED BY <1>u, <1>y, <3>1, <3>2 DEF Selecting
  <2>2. CASE AcquireFails(t) \/ (pc[t] = "denied" /\ CacheAcquired(t))
    <3>1. /\ pc[t] \in Selecting /\ pc'[t] = "fallback" /\ prep' = prep
          /\ \A i \in Txn \ {t} : ctx'[i] = ctx[i] /\ pc'[i] = pc[i]
      BY <2>2, <1>d DEF AcquireFails, CacheAcquired, Selecting
    <3>2. ctx'[t].replica = ctx[t].replica
      BY <2>2, <1>d, <2>f DEF AcquireFails, CacheAcquired, Ctx
    <3> QED BY <1>u, <1>y, <3>1, <3>2
  <2>3. CASE \/ Initiated(t) \/ ReleaseProbe(t) \/ CacheReleased(t)
             \/ OutcomeStep(t) \/ InitiateFails(t) \/ HandlerFails(t)
    <3>1. /\ pc[t] \notin {"new", "fallback"} \cup Selecting /\ prep' = prep
          /\ \A i \in Txn \ {t} : ctx'[i] = ctx[i] /\ pc'[i] = pc[i]
      BY <2>3, <1>d DEF Initiated, ReleaseProbe, CacheReleased, OutcomeStep,
           InitiateFails, HandlerFails, OutcomeEvent, OutcomeGet, OutcomeStats,
           OutcomeRelease, OutcomeSave, OutcomeCache, Selecting, Releasing, Recording
    <3> QED BY <1>u, <1>y, <3>1
  <2> QED BY <1>5, <2>1, <2>2, <2>3
<1>6. ASSUME NEW t \in Txn, NEW r \in Replica, NEW s \in Status, RecordOutcome(t, r, s)
      PROVE  Calls /\ Requests
  <2>1. /\ pc[t] \notin {"new", "fallback"} \cup Selecting /\ prep' = prep
        /\ \A i \in Txn \ {t} : ctx'[i] = ctx[i] /\ pc'[i] = pc[i]
    BY <1>6, <1>d DEF RecordOutcome, Selecting
  <2> QED BY <1>u, <1>y, <2>1
<1>7. Calls /\ Requests
  BY <1>1, <1>2, <1>3, <1>4, <1>5, <1>6 DEF HealthStep
<1> QED BY <1>7 DEF Calls, Requests

-----------------------------------------------------------------------------
(* The variables of the routing service keep their types.                  *)

\* The enabled gateways are gateways.
LEMMA EnabledType ==
    ASSUME RoutingTypeOK
    PROVE  Enabled \in SUBSET Gateway
BY RoutingAssumption DEF RoutingTypeOK, Enabled

\* The locals of a request and of a build, projected.
LEMMA RoutingFrames ==
    ASSUME RoutingTypeOK
    PROVE  /\ \A t \in Txn : /\ sel[t] \in Sel /\ sel[t].pc \in SelPC
                             /\ sel[t].replica \in Replica /\ sel[t].now \in Nat
                             /\ sel[t].excluded \in Exclusions
                             /\ sel[t].snapshot \in Snapshot
           /\ \A r \in Replica : /\ build[r] \in Build /\ build[r].pc \in BuildPC
                                 /\ build[r].txn \in Txn
                                 /\ build[r].todo \in SUBSET Gateway
                                 /\ build[r].next \in Snapshot
                                 /\ snapshot[r] \in Snapshot
BY DEF RoutingTypeOK, Sel, Build

\* A build files each gateway under what PrepareForRouting returned.
LEMMA SortedFact ==
    ASSUME NEW n \in Snapshot, NEW g \in Gateway, NEW s \in RuntimeState
    PROVE  /\ Sorted(n, g, s) \in Snapshot
           /\ Sorted(n, g, s).expiresAt = n.expiresAt
           /\ Sorted(n, g, s).healthy =
                IF s.state = "healthy" THEN n.healthy \cup {g} ELSE n.healthy
           /\ Sorted(n, g, s).probes \subseteq n.probes \cup {g}
           /\ n.probes \subseteq Sorted(n, g, s).probes
<1>1. CASE s.state = "healthy"
  BY <1>1 DEF Sorted, Snapshot
<1>2. CASE s.state = "half_open" /\ s.inFlight < HalfOpenProbeCount
  BY <1>2 DEF Sorted, Snapshot
<1>3. CASE ~ (s.state = "healthy")
           /\ ~ (s.state = "half_open" /\ s.inFlight < HalfOpenProbeCount)
  BY <1>3 DEF Sorted, Snapshot
<1> QED BY <1>1, <1>2, <1>3

\* What a request and a build do to their locals.
LEMMA SelTypes ==
    ASSUME RoutingTypeOK, NEW t \in Txn
    PROVE  /\ \A p \in SelPC : Goto(t, p) => sel' \in [Txn -> Sel]
           /\ \A p \in SelPC : Answer(t, p) => sel' \in [Txn -> Sel]
           /\ \A s \in Snapshot : Use(t, s) => sel' \in [Txn -> Sel]
<1>1. sel \in [Txn -> Sel]
  BY DEF RoutingTypeOK
<1>2. ASSUME NEW p \in SelPC, Goto(t, p) PROVE sel' \in [Txn -> Sel]
  BY <1>1, <1>2 DEF Goto, Sel
<1>3. ASSUME NEW p \in SelPC, Answer(t, p) PROVE sel' \in [Txn -> Sel]
  BY <1>1, <1>3, RoutingPlaceholders DEF Answer
<1>4. ASSUME NEW s \in Snapshot, Use(t, s) PROVE sel' \in [Txn -> Sel]
  <2>1. [sel[t] EXCEPT !.pc = "choose", !.snapshot = s] \in Sel
    BY <1>1 DEF Sel, SelPC
  <2>2. sel' = [sel EXCEPT ![t] = [sel[t] EXCEPT !.pc = "choose", !.snapshot = s]]
    BY <1>1, <1>4 DEF Use
  <2> QED BY <1>1, <2>1, <2>2
<1> QED BY <1>2, <1>3, <1>4

\* Every variable of the routing service keeps its type.
LEMMA RoutingTypeStep ==
    ASSUME HealthInv, RoutingTypeOK, HistoryOK, [RoutingNext]_allVars
    PROVE  RoutingTypeOK'
<1>1. Watch /\ [Next]_vars
  BY WatchFact, RoutingStepsHealth
<1>2. /\ lastSick' \in [Gateway -> Nat] /\ lastEnabled' \in [Gateway -> Nat]
      /\ lastDisabled' \in [Gateway -> Nat]
  BY <1>1, HistoryStep
<1> DEFINE Shape == /\ version' \in DOMAIN Configs
                    /\ snapshot' \in [Replica -> Snapshot]
                    /\ build' \in [Replica -> Build]
                    /\ sel' \in [Txn -> Sel]
<1>d. /\ version \in DOMAIN Configs
      /\ snapshot \in [Replica -> Snapshot]
      /\ build \in [Replica -> Build]
      /\ sel \in [Txn -> Sel]
  BY DEF RoutingTypeOK
<1>u. /\ UNCHANGED version => version' \in DOMAIN Configs
      /\ UNCHANGED snapshot => snapshot' \in [Replica -> Snapshot]
      /\ UNCHANGED build => build' \in [Replica -> Build]
      /\ UNCHANGED sel => sel' \in [Txn -> Sel]
  BY <1>d
<1>p. /\ \A l \in {"lock", "build", "probe", "fallback", "chosen", "refused", "failed"} :
           l \in SelPC
      /\ \A r \in Replica : /\ build[r].txn \in Txn /\ build[r].next \in Snapshot
                            /\ snapshot[r] \in Snapshot
      /\ \A t \in Txn : sel[t].replica \in Replica /\ sel[t].now \in Nat
  BY RoutingFrames DEF SelPC
<1>n. /\ \A r \in Replica : build' = [build EXCEPT ![r] = NoBuild]
                               => build' \in [Replica -> Build]
      /\ \A r \in Replica : snapshot' = [snapshot EXCEPT ![r] = NoSnapshot]
                               => snapshot' \in [Replica -> Snapshot]
  BY <1>d, RoutingPlaceholders
<1>3. ASSUME HealthStep \/ UNCHANGED allVars PROVE Shape
  BY <1>3, <1>u DEF HealthStep, allVars, routing
<1>4. ASSUME NEW r \in Replica, NEW g \in Gateway, PrepareGateway(r, g) PROVE Shape
  <2>1. build' \in [Replica -> Build]
    BY <1>4, <1>d DEF PrepareGateway, Build, BuildPC
  <2> QED BY <1>4, <1>u, <2>1 DEF PrepareGateway
<1>5. ASSUME NEW r \in Replica, SortGateway(r) PROVE Shape
  <2> DEFINE n == Sorted(build[r].next, prep[r].gateway, prep[r].state)
  <2>1. prep[r].gateway \in Gateway /\ prep[r].state \in RuntimeState
    BY DEF HealthInv, TypeOK, PrepFrame
  <2>2. n \in Snapshot
    BY <1>p, <2>1, SortedFact
  <2>3. build' = [build EXCEPT ![r] = [build[r] EXCEPT !.pc = "loop", !.next = n]]
    BY <1>5, <1>d DEF SortGateway
  <2> HIDE DEF n
  <2>4. [build[r] EXCEPT !.pc = "loop", !.next = n] \in Build
    BY <1>d, <2>2 DEF Build, BuildPC
  <2> QED BY <1>5, <1>d, <1>u, <2>3, <2>4 DEF SortGateway
<1>6. ASSUME NEW r \in Replica, StoreSnapshot(r) PROVE Shape
  <2>1. snapshot' \in [Replica -> Snapshot]
    BY <1>6, <1>d, <1>p DEF StoreSnapshot
  <2>2. sel' \in [Txn -> Sel]
    BY <1>6, <1>p, SelTypes DEF StoreSnapshot
  <2> QED BY <1>6, <1>u, <1>n, <2>1, <2>2 DEF StoreSnapshot
<1>7. ASSUME NEW r \in Replica, BuildFails(r) PROVE Shape
  <2>1. sel' \in [Txn -> Sel]
    BY <1>7, <1>p, SelTypes DEF BuildFails
  <2> QED BY <1>7, <1>u, <1>n, <2>1 DEF BuildFails
<1>8. ASSUME NEW r \in Replica, RestartReplica(r) PROVE Shape
  <2>1. sel' \in [Txn -> Sel]
    BY <1>8, <1>d, <1>p, RoutingPlaceholders DEF RestartReplica
  <2> QED BY <1>8, <1>u, <1>n, <2>1 DEF RestartReplica
<1>9. ASSUME NEW t \in Txn, ReadSnapshot(t) PROVE Shape
  <2>1. sel' \in [Txn -> Sel]
    BY <1>9, <1>p, SelTypes DEF ReadSnapshot
  <2> QED BY <1>9, <1>u, <2>1 DEF ReadSnapshot
<1>10. ASSUME NEW t \in Txn, LockSnapshot(t) PROVE Shape
  <2>1. sel' \in [Txn -> Sel]
    BY <1>10, <1>p, SelTypes DEF LockSnapshot
  <2> DEFINE b == [pc |-> "loop", txn |-> t, todo |-> Enabled,
                   next |-> [NoSnapshot EXCEPT !.expiresAt = sel[t].now + RoutingTTL]]
  <2>2. [NoSnapshot EXCEPT !.expiresAt = sel[t].now + RoutingTTL] \in Snapshot
    BY <1>p, RoutingAssumption DEF NoSnapshot, Snapshot
  <2>3. b \in Build
    BY <2>2, EnabledType DEF Build, BuildPC
  <2>4. build' = [build EXCEPT ![sel[t].replica] = b] \/ build' = build
    BY <1>10 DEF LockSnapshot
  <2> HIDE DEF b
  <2>5. build' \in [Replica -> Build]
    BY <1>d, <1>p, <2>3, <2>4
  <2> QED BY <1>10, <1>u, <2>1, <2>5 DEF LockSnapshot
<1>11. ASSUME NEW t \in Txn, InvalidateCache(t) PROVE Shape
  <2>1. sel' \in [Txn -> Sel]
    BY <1>11, <1>p, SelTypes DEF InvalidateCache
  <2> QED BY <1>11, <1>u, <1>n, <1>p, <2>1 DEF InvalidateCache
<1>12. ASSUME NEW t \in Txn, ProbeGranted(t) \/ NoAvailableGateway(t)
                             \/ \E g \in Gateway : ChooseProbe(t, g) \/ ChooseHealthy(t, g)
       PROVE  Shape
  <2>1. sel' \in [Txn -> Sel]
    BY <1>12, <1>p, SelTypes DEF ProbeGranted, NoAvailableGateway, ChooseProbe, ChooseHealthy
  <2> QED BY <1>12, <1>u, <2>1
          DEF ProbeGranted, NoAvailableGateway, ChooseProbe, ChooseHealthy
<1>13. ASSUME NEW t \in Txn, NEW r \in Replica, NEW x \in Exclusions, SelectGateway(t, r, x)
       PROVE  Shape
  <2>1. clock \in Nat /\ NoSnapshot \in Snapshot
    BY RoutingPlaceholders DEF HealthInv, TypeOK
  <2>2. sel' \in [Txn -> Sel]
    BY <1>13, <1>d, <2>1 DEF SelectGateway, Sel, SelPC
  <2> QED BY <1>13, <1>u, <2>2 DEF SelectGateway
<1>14. ASSUME ReloadGateways PROVE Shape
  <2>1. version' \in DOMAIN Configs
    BY <1>14, <1>d, RoutingAssumption DEF ReloadGateways
  <2> QED BY <1>14, <1>u, <2>1 DEF ReloadGateways
<1> HIDE DEF Shape
<1>15. Shape
  BY <1>3, <1>4, <1>5, <1>6, <1>7, <1>8, <1>9, <1>10, <1>11, <1>12, <1>13, <1>14
     DEF RoutingNext, RoutingStep, BuildStep, SelectStep
<1> QED BY <1>2, <1>15 DEF Shape, RoutingTypeOK

-----------------------------------------------------------------------------
(* The write lock.                                                         *)

\* What a request that moves on leaves alone.
LEMMA SelMoves ==
    ASSUME RoutingTypeOK, NEW t \in Txn
    PROVE  /\ \A p : Goto(t, p) =>
                /\ sel'[t].pc = p /\ sel'[t].replica = sel[t].replica
                /\ sel'[t].now = sel[t].now /\ sel'[t].snapshot = sel[t].snapshot
                /\ \A i \in Txn \ {t} : sel'[i] = sel[i]
           /\ \A p : Answer(t, p) =>
                /\ sel'[t].pc = p /\ sel'[t].now = 0
                /\ \A i \in Txn \ {t} : sel'[i] = sel[i]
           /\ \A s : Use(t, s) =>
                /\ sel'[t].pc = "choose" /\ sel'[t].snapshot = s
                /\ sel'[t].replica = sel[t].replica /\ sel'[t].now = sel[t].now
                /\ \A i \in Txn \ {t} : sel'[i] = sel[i]
<1>1. sel \in [Txn -> Sel]
  BY DEF RoutingTypeOK
<1>2. ASSUME NEW p, Goto(t, p)
      PROVE  /\ sel'[t].pc = p /\ sel'[t].replica = sel[t].replica
             /\ sel'[t].now = sel[t].now /\ sel'[t].snapshot = sel[t].snapshot
             /\ \A i \in Txn \ {t} : sel'[i] = sel[i]
  BY <1>1, <1>2 DEF Goto, Sel
<1>3. ASSUME NEW p, Answer(t, p)
      PROVE  /\ sel'[t].pc = p /\ sel'[t].now = 0
             /\ \A i \in Txn \ {t} : sel'[i] = sel[i]
  BY <1>1, <1>3 DEF Answer, IdleSel
<1>4. ASSUME NEW s, Use(t, s)
      PROVE  /\ sel'[t].pc = "choose" /\ sel'[t].snapshot = s
             /\ sel'[t].replica = sel[t].replica /\ sel'[t].now = sel[t].now
             /\ \A i \in Txn \ {t} : sel'[i] = sel[i]
  BY <1>1, <1>4 DEF Use, Sel
<1> QED BY <1>2, <1>3, <1>4

\* The write lock stays with the request that is building.
LEMMA LockStep ==
    ASSUME HealthInv, RoutingTypeOK, LockDiscipline, [RoutingNext]_allVars
    PROVE  LockDiscipline'
<1> DEFINE Holder(b, r) == b.pc # "free" => sel'[b.txn].pc = "build" /\ sel'[b.txn].replica = r
           Holders == \A r \in Replica : Holder(build'[r], r)
           Builders == \A t \in Txn : sel'[t].pc = "build" =>
                         /\ build'[sel'[t].replica].pc # "free"
                         /\ build'[sel'[t].replica].txn = t
           Calls == \A r \in Replica : prep'[r].pc # "idle" <=> build'[r].pc = "prepare"
           Goal == Holders /\ Builders /\ Calls
<1>d. /\ sel \in [Txn -> Sel] /\ build \in [Replica -> Build]
      /\ prep \in [Replica -> PrepFrame]
  BY DEF RoutingTypeOK, HealthInv, TypeOK
<1>f. /\ \A t \in Txn : sel[t].replica \in Replica
      /\ \A r \in Replica : build[r].txn \in Txn
  BY RoutingFrames
<1>l. /\ \A r \in Replica : build[r].pc # "free" =>
           sel[build[r].txn].pc = "build" /\ sel[build[r].txn].replica = r
      /\ \A t \in Txn : sel[t].pc = "build" =>
           build[sel[t].replica].pc # "free" /\ build[sel[t].replica].txn = t
      /\ \A r \in Replica : prep[r].pc # "idle" <=> build[r].pc = "prepare"
  BY DEF LockDiscipline, Unlocked
\* A request that is not building, and does not start to, disturbs nothing.
<1>y. ASSUME NEW t \in Txn, sel[t].pc # "build", sel'[t].pc # "build",
             \A i \in Txn \ {t} : sel'[i] = sel[i], UNCHANGED build, UNCHANGED prep
      PROVE  Goal
  BY <1>y, <1>f, <1>l
\* A build that ends lets the lock go.
<1>z. ASSUME NEW r \in Replica, build' = [build EXCEPT ![r] = NoBuild],
             sel'[build[r].txn].pc # "build", build[r].pc # "free",
             \A i \in Txn \ {build[r].txn} : sel'[i] = sel[i],
             prep'[r].pc = "idle", \A i \in Replica \ {r} : prep'[i] = prep[i]
      PROVE  Goal
  <2>1. /\ build'[r].pc = "free" /\ \A i \in Replica \ {r} : build'[i] = build[i]
    BY <1>z, <1>d DEF NoBuild
  <2>2. Holders
    <3> SUFFICES ASSUME NEW i \in Replica, build'[i].pc # "free" PROVE Holder(build'[i], i)
      OBVIOUS
    <3>1. i # r /\ build'[i] = build[i]
      BY <2>1
    <3>2. sel[build[i].txn].replica = i /\ sel[build[i].txn].pc = "build"
      BY <1>l, <3>1
    <3>3. build[i].txn # build[r].txn
      BY <1>l, <1>z, <3>1, <3>2
    <3> QED BY <1>f, <1>z, <3>1, <3>2, <3>3
  <2>3. Builders
    <3> SUFFICES ASSUME NEW t \in Txn, sel'[t].pc = "build"
                 PROVE  build'[sel'[t].replica].pc # "free" /\ build'[sel'[t].replica].txn = t
      OBVIOUS
    <3>1. t # build[r].txn /\ sel'[t] = sel[t]
      BY <1>z
    <3>2. build[sel[t].replica].pc # "free" /\ build[sel[t].replica].txn = t
      BY <1>l, <3>1
    <3>3. sel[t].replica # r
      BY <3>1, <3>2
    <3> QED BY <1>f, <2>1, <3>1, <3>2, <3>3
  <2>4. Calls
    BY <1>l, <1>z, <2>1
  <2> QED BY <2>2, <2>3, <2>4
<1>1. ASSUME HealthStep PROVE Goal
  <2>1. UNCHANGED <<sel, build>>
    BY <1>1 DEF HealthStep, routing
  <2>2. \A r \in Replica : prep'[r].pc # "idle" <=> prep[r].pc # "idle"
    BY <1>1, HealthFrame
  <2> QED BY <1>l, <2>1, <2>2
<1>2. ASSUME UNCHANGED allVars PROVE Goal
  <2>1. UNCHANGED <<sel, build, prep>>
    BY <1>2 DEF allVars, vars, routing
  <2> QED BY <1>l, <2>1
<1>3. ASSUME NEW r \in Replica, NEW g \in Gateway, PrepareGateway(r, g) PROVE Goal
  <2>1. /\ UNCHANGED sel /\ build[r].pc = "loop"
        /\ build'[r].pc = "prepare" /\ build'[r].txn = build[r].txn
        /\ \A i \in Replica \ {r} : build'[i] = build[i]
    BY <1>3, <1>d DEF PrepareGateway, Build
  <2>2. /\ prep'[r].pc = "read" /\ \A i \in Replica \ {r} : prep'[i] = prep[i]
    BY <1>3, <1>d DEF PrepareGateway, PrepareForRouting
  <2> QED BY <1>f, <1>l, <2>1, <2>2
<1>4. ASSUME NEW r \in Replica, SortGateway(r) PROVE Goal
  <2>1. /\ UNCHANGED sel
        /\ build'[r].pc = "loop" /\ build'[r].txn = build[r].txn
        /\ \A i \in Replica \ {r} : build'[i] = build[i]
    BY <1>4, <1>d DEF SortGateway, Build
  <2>2. /\ prep[r].pc = "done" /\ prep'[r].pc = "idle"
        /\ \A i \in Replica \ {r} : prep'[i] = prep[i]
    BY <1>4, <1>d DEF SortGateway, PrepareReturns, IdlePrep
  <2> QED BY <1>f, <1>l, <2>1, <2>2
<1>5. ASSUME NEW r \in Replica, StoreSnapshot(r) PROVE Goal
  <2>1. /\ build[r].pc = "loop" /\ build' = [build EXCEPT ![r] = NoBuild] /\ prep' = prep
        /\ Use(build[r].txn, build[r].next)
    BY <1>5 DEF StoreSnapshot, vars
  <2>2. /\ sel'[build[r].txn].pc = "choose"
        /\ \A i \in Txn \ {build[r].txn} : sel'[i] = sel[i]
    BY <1>f, <2>1, SelMoves
  <2>3. prep'[r].pc = "idle"
    BY <1>l, <2>1
  <2> QED BY <1>z, <2>1, <2>2, <2>3
<1>6. ASSUME NEW r \in Replica, BuildFails(r) PROVE Goal
  <2>1. /\ build' = [build EXCEPT ![r] = NoBuild] /\ PrepareFails(r)
        /\ Answer(build[r].txn, "failed")
    BY <1>6 DEF BuildFails
  <2>2. /\ sel'[build[r].txn].pc = "failed"
        /\ \A i \in Txn \ {build[r].txn} : sel'[i] = sel[i]
    BY <1>f, <2>1, SelMoves
  <2>3. /\ prep[r].pc # "idle" /\ prep'[r].pc = "idle"
        /\ \A i \in Replica \ {r} : prep'[i] = prep[i]
    BY <1>d, <2>1 DEF PrepareFails, IdlePrep
  <2>4. build[r].pc # "free"
    BY <1>l, <2>3
  <2> QED BY <1>z, <2>1, <2>2, <2>3, <2>4
<1>7. ASSUME NEW r \in Replica, RestartReplica(r) PROVE Goal
  <2>1. /\ build'[r].pc = "free" /\ \A i \in Replica \ {r} : build'[i] = build[i]
    BY <1>7, <1>d DEF RestartReplica, NoBuild
  <2>2. /\ prep'[r].pc = "idle" /\ \A i \in Replica \ {r} : prep'[i] = prep[i]
    BY <1>7, <1>d DEF RestartReplica, Restart, IdlePrep
  <2>3. \A t \in Txn : IF Lost(t, r) THEN sel'[t].pc = "failed" ELSE sel'[t] = sel[t]
    BY <1>7 DEF RestartReplica, IdleSel
  <2>4. \A t \in Txn : sel'[t].pc = "build" => sel'[t] = sel[t] /\ sel[t].replica # r
    BY <2>3 DEF Lost
  <2>5. \A t \in Txn : sel[t].replica # r => sel'[t] = sel[t]
    BY <2>3 DEF Lost
  <2> QED BY <1>f, <1>l, <2>1, <2>2, <2>4, <2>5
<1>8. ASSUME NEW t \in Txn, ReadSnapshot(t) PROVE Goal
  <2>1. /\ sel[t].pc = "read" /\ UNCHANGED <<build, prep>>
        /\ Use(t, snapshot[sel[t].replica]) \/ Goto(t, "lock")
    BY <1>8 DEF ReadSnapshot, vars
  <2>2. sel'[t].pc \in {"choose", "lock"} /\ \A i \in Txn \ {t} : sel'[i] = sel[i]
    BY <2>1, SelMoves
  <2> QED BY <1>y, <2>1, <2>2
<1>9. ASSUME NEW t \in Txn, LockSnapshot(t) PROVE Goal
  <2> DEFINE r == sel[t].replica
  <2>1. sel[t].pc = "lock" /\ build[r].pc = "free" /\ prep' = prep /\ r \in Replica
    BY <1>9, <1>f DEF LockSnapshot, vars, Unlocked
  <2>2. CASE Use(t, snapshot[r]) /\ UNCHANGED build
    <3>1. sel'[t].pc = "choose" /\ \A i \in Txn \ {t} : sel'[i] = sel[i]
      BY <2>2, SelMoves
    <3> QED BY <1>y, <2>1, <2>2, <3>1
  <2>3. CASE /\ Goto(t, "build")
             /\ build' = [build EXCEPT ![r] =
                  [pc |-> "loop", txn |-> t, todo |-> Enabled,
                   next |-> [NoSnapshot EXCEPT !.expiresAt = sel[t].now + RoutingTTL]]]
    <3>1. /\ sel'[t].pc = "build" /\ sel'[t].replica = r
          /\ \A i \in Txn \ {t} : sel'[i] = sel[i]
      BY <2>3, SelMoves
    <3>2. /\ build'[r].pc = "loop" /\ build'[r].txn = t
          /\ \A i \in Replica \ {r} : build'[i] = build[i]
      BY <1>d, <2>1, <2>3
    <3> HIDE DEF r
    <3>3. Holders
      <4> SUFFICES ASSUME NEW i \in Replica, build'[i].pc # "free" PROVE Holder(build'[i], i)
        OBVIOUS
      <4>1. CASE i = r
        BY <3>1, <3>2, <4>1
      <4>2. CASE i # r
        <5>1. build'[i] = build[i] /\ sel[build[i].txn].pc = "build"
              /\ sel[build[i].txn].replica = i
          BY <1>l, <3>2, <4>2
        <5> QED BY <1>f, <2>1, <3>1, <5>1
      <4> QED BY <4>1, <4>2
    <3>4. Builders
      <4> SUFFICES ASSUME NEW i \in Txn, sel'[i].pc = "build"
                   PROVE  build'[sel'[i].replica].pc # "free" /\ build'[sel'[i].replica].txn = i
        OBVIOUS
      <4>1. CASE i = t
        BY <3>1, <3>2, <4>1
      <4>2. CASE i # t
        BY <1>f, <1>l, <2>1, <3>1, <3>2, <4>2
      <4> QED BY <4>1, <4>2
    <3>5. Calls
      BY <1>l, <2>1, <3>2
    <3> QED BY <3>3, <3>4, <3>5
  <2> QED BY <1>9, <2>2, <2>3 DEF LockSnapshot
<1>10. ASSUME NEW t \in Txn, \/ InvalidateCache(t) \/ ProbeGranted(t) \/ NoAvailableGateway(t)
                             \/ \E g \in Gateway : ChooseProbe(t, g) \/ ChooseHealthy(t, g)
       PROVE  Goal
  <2>1. /\ sel[t].pc # "build" /\ UNCHANGED <<build, prep>>
        /\ \/ Goto(t, "fallback") \/ Goto(t, "probe")
           \/ Answer(t, "chosen") \/ Answer(t, "refused")
    BY <1>10 DEF InvalidateCache, ProbeGranted, NoAvailableGateway, ChooseProbe,
         ChooseHealthy, AmongHealthy, CacheAcquired, MarkProbeSelected, Route, vars
  <2>2. /\ sel'[t].pc \in {"fallback", "probe", "chosen", "refused"}
        /\ \A i \in Txn \ {t} : sel'[i] = sel[i]
    BY <2>1, SelMoves
  <2> QED BY <1>y, <2>1, <2>2
<1>11. ASSUME NEW t \in Txn, NEW r \in Replica, NEW x \in Exclusions, SelectGateway(t, r, x)
       PROVE  Goal
  <2>1. /\ sel[t].pc = "idle" /\ sel'[t].pc = "read" /\ UNCHANGED <<build, prep>>
        /\ \A i \in Txn \ {t} : sel'[i] = sel[i]
    BY <1>11, <1>d DEF SelectGateway, vars
  <2> QED BY <1>y, <2>1
<1>12. ASSUME ReloadGateways PROVE Goal
  <2>1. UNCHANGED <<sel, build, prep>>
    BY <1>12 DEF ReloadGateways, vars
  <2> QED BY <1>l, <2>1
<1> HIDE DEF Goal
<1>13. Goal
  BY <1>1, <1>2, <1>3, <1>4, <1>5, <1>6, <1>7, <1>8, <1>9, <1>10, <1>11, <1>12
     DEF RoutingNext, RoutingStep, BuildStep, SelectStep
<1> QED BY <1>13 DEF Goal, LockDiscipline, Unlocked

-----------------------------------------------------------------------------
(* The snapshots.                                                          *)

\* SnapshotOK after a step, of a snapshot that the step left alone.
SnapshotStays(s, pending) ==
    /\ \A g \in s.healthy :
         s.expiresAt < lastHealthy'[g] + CacheTTL + RoutingTTL
    /\ \A g \in s.healthy \cup s.probes \cup pending :
         s.expiresAt <= lastEnabled'[g] + RoutingTTL
    /\ \A g \in s.healthy \cup s.probes : states'[g] # NoState
    /\ \A g \in Gateway \ (s.healthy \cup pending) :
         \/ s.expiresAt < lastSick'[g] + CacheTTL + RoutingTTL
         \/ s.expiresAt <= lastDisabled'[g] + RoutingTTL

\* The facts about one step that the proofs below use again and again.
LEMMA RoutingGrows ==
    ASSUME HealthInv, RoutingInv, [RoutingNext]_allVars
    PROVE  /\ clock \in Nat /\ clock' \in Nat /\ clock <= clock'
           /\ \A g \in Gateway :
                /\ lastHealthy[g] \in Nat /\ lastHealthy'[g] \in Nat
                /\ lastHealthy[g] <= lastHealthy'[g]
                /\ lastSick[g] \in Nat /\ lastSick'[g] \in Nat
                /\ lastSick[g] <= lastSick'[g]
                /\ lastEnabled[g] \in Nat /\ lastEnabled'[g] \in Nat
                /\ lastEnabled[g] <= lastEnabled'[g]
                /\ lastDisabled[g] \in Nat /\ lastDisabled'[g] \in Nat
                /\ lastDisabled[g] <= lastDisabled'[g]
                /\ states[g] # NoState => states'[g] # NoState
<1>1. RoutingTypeOK /\ HistoryOK /\ RecordsKnown
  BY DEF RoutingInv
<1>2. Watch /\ [Next]_vars
  BY <1>1, WatchFact, RoutingStepsHealth
<1>3. /\ lastHealthy' \in [Gateway -> Nat]
      /\ \A g \in Gateway : lastHealthy[g] <= lastHealthy'[g]
  BY <1>2, LastHealthyGrows
<1>4. lastHealthy \in [Gateway -> Nat]
  BY DEF HealthInv, TypeOK
<1>5. /\ lastSick \in [Gateway -> Nat] /\ lastEnabled \in [Gateway -> Nat]
      /\ lastDisabled \in [Gateway -> Nat]
  BY <1>1 DEF RoutingTypeOK
<1>6. /\ lastSick' \in [Gateway -> Nat] /\ lastEnabled' \in [Gateway -> Nat]
      /\ lastDisabled' \in [Gateway -> Nat]
      /\ \A g \in Gateway : /\ lastSick[g] <= lastSick'[g]
                            /\ lastEnabled[g] <= lastEnabled'[g]
                            /\ lastDisabled[g] <= lastDisabled'[g]
  BY <1>1, <1>2, HistoryStep
<1>7. \A g \in Gateway : states[g] # NoState => states'[g] # NoState
  BY <1>1, <1>2, RecordsKept
<1>8. clock \in Nat /\ clock' \in Nat /\ clock <= clock'
  BY <1>2, ClockGrows
<1> QED BY <1>3, <1>4, <1>5, <1>6, <1>7, <1>8

\* Time and health transitions alone never make a snapshot wrong.
LEMMA SnapshotMonotone ==
    ASSUME HealthInv, RoutingInv, [RoutingNext]_allVars,
           NEW s \in Snapshot, NEW P \in SUBSET Gateway, SnapshotOK(s, P)
    PROVE  SnapshotStays(s, P)
<1>1. s.healthy \in SUBSET Gateway /\ s.probes \in SUBSET Gateway /\ s.expiresAt \in Nat
  BY DEF Snapshot
<1>2. CacheTTL \in Nat /\ RoutingTTL \in Nat
  BY ConfigAssumption, RoutingAssumption
<1>3. ASSUME NEW g \in s.healthy
      PROVE  s.expiresAt < lastHealthy'[g] + CacheTTL + RoutingTTL
  BY <1>1, <1>2, RoutingGrows DEF SnapshotOK
<1>4. ASSUME NEW g \in s.healthy \cup s.probes \cup P
      PROVE  s.expiresAt <= lastEnabled'[g] + RoutingTTL
  BY <1>1, <1>2, RoutingGrows DEF SnapshotOK
<1>5. ASSUME NEW g \in s.healthy \cup s.probes
      PROVE  states'[g] # NoState
  BY <1>1, RoutingGrows DEF SnapshotOK
<1>6. ASSUME NEW g \in Gateway \ (s.healthy \cup P)
      PROVE  \/ s.expiresAt < lastSick'[g] + CacheTTL + RoutingTTL
             \/ s.expiresAt <= lastDisabled'[g] + RoutingTTL
  BY <1>1, <1>2, RoutingGrows DEF SnapshotOK
<1> QED BY <1>3, <1>4, <1>5, <1>6 DEF SnapshotStays

\* A snapshot that lists nothing and has expired misleads nobody.
LEMMA EmptySnapshot ==
    ASSUME HealthInv, RoutingInv, [RoutingNext]_allVars
    PROVE  SnapshotStays(NoSnapshot, {})
<1>1. /\ NoSnapshot.healthy = {} /\ NoSnapshot.probes = {} /\ NoSnapshot.expiresAt = 0
  BY DEF NoSnapshot
<1>2. RoutingTTL \in Nat
  BY RoutingAssumption
<1> QED BY <1>1, <1>2, RoutingGrows DEF SnapshotStays

\* What is pending in a build is a set of gateways.
LEMMA PendingType ==
    ASSUME HealthInv, RoutingTypeOK, NEW r \in Replica
    PROVE  Pending(r) \in SUBSET Gateway
<1>1. prep[r].gateway \in Gateway
  BY DEF HealthInv, TypeOK, PrepFrame
<1> QED BY <1>1, RoutingFrames DEF Pending

\* The stored snapshot stays truthful: a build ends with nothing pending.
LEMMA SnapshotsStep ==
    ASSUME HealthInv, RoutingInv, [RoutingNext]_allVars
    PROVE  SnapshotsOK'
<1>t. RoutingTypeOK /\ LockDiscipline /\ SnapshotsOK /\ BuildsOK
  BY DEF RoutingInv
<1>d. snapshot \in [Replica -> Snapshot] /\ \A t \in Txn : sel[t].replica \in Replica
  BY <1>t, RoutingFrames DEF RoutingTypeOK
<1>s. \A r \in Replica : SnapshotStays(snapshot[r], {})
  <2> TAKE r \in Replica
  <2>1. snapshot[r] \in Snapshot /\ SnapshotOK(snapshot[r], {})
    BY <1>t, <1>d DEF SnapshotsOK
  <2> QED BY <2>1, SnapshotMonotone
<1> DEFINE Goal == \A r \in Replica : SnapshotStays(snapshot'[r], {})
<1>u. UNCHANGED snapshot => Goal
  BY <1>s
<1>n. \A r \in Replica : snapshot' = [snapshot EXCEPT ![r] = NoSnapshot] => Goal
  BY <1>d, <1>s, EmptySnapshot
<1> HIDE DEF Goal
<1>1. ASSUME NEW r \in Replica, StoreSnapshot(r) PROVE Goal
  <2>1. /\ build[r].pc = "loop" /\ build[r].todo = {}
        /\ snapshot' = [snapshot EXCEPT ![r] = build[r].next]
    BY <1>1 DEF StoreSnapshot
  <2>2. SnapshotOK(build[r].next, {}) /\ build[r].next \in Snapshot
    BY <1>t, <2>1, RoutingFrames DEF BuildsOK, Unlocked, Pending
  <2>3. SnapshotStays(build[r].next, {})
    BY <2>2, SnapshotMonotone
  <2> QED BY <1>d, <1>s, <2>1, <2>3 DEF Goal
<1>2. ASSUME NEW r \in Replica, RestartReplica(r) PROVE Goal
  BY <1>2, <1>n DEF RestartReplica
<1>3. ASSUME NEW t \in Txn, InvalidateCache(t) PROVE Goal
  BY <1>3, <1>d, <1>n DEF InvalidateCache
<1>4. ASSUME HealthStep \/ ReloadGateways \/ UNCHANGED allVars PROVE Goal
  BY <1>4, <1>u DEF HealthStep, ReloadGateways, allVars, routing
<1>5. ASSUME NEW r \in Replica, \/ SortGateway(r) \/ BuildFails(r)
                                \/ \E g \in Gateway : PrepareGateway(r, g)
      PROVE  Goal
  BY <1>5, <1>u DEF SortGateway, BuildFails, PrepareGateway
<1>6. ASSUME NEW t \in Txn,
             \/ ReadSnapshot(t) \/ LockSnapshot(t) \/ ProbeGranted(t) \/ NoAvailableGateway(t)
             \/ \E g \in Gateway : ChooseProbe(t, g) \/ ChooseHealthy(t, g)
             \/ \E r \in Replica, x \in Exclusions : SelectGateway(t, r, x)
      PROVE  Goal
  BY <1>6, <1>u DEF ReadSnapshot, LockSnapshot, ProbeGranted, NoAvailableGateway,
                    ChooseProbe, ChooseHealthy, SelectGateway
<1>7. Goal
  BY <1>1, <1>2, <1>3, <1>4, <1>5, <1>6
     DEF RoutingNext, RoutingStep, BuildStep, SelectStep
<1> QED BY <1>7 DEF Goal, SnapshotsOK, SnapshotOK, SnapshotStays

\* A build never files a gateway where it does not belong: the one just sorted
\* is filed by a record that is recent enough, the ones still pending were
\* enabled when the build began.
LEMMA BuildsStep ==
    ASSUME HealthInv, RoutingInv, [RoutingNext]_allVars
    PROVE  BuildsOK'
<1>t. RoutingTypeOK /\ LockDiscipline /\ BuildsOK /\ SelectionsOK /\ RecordsKnown
      /\ SicknessFresh /\ HistoryOK
  BY DEF RoutingInv
<1>d. /\ sel \in [Txn -> Sel] /\ build \in [Replica -> Build]
      /\ prep \in [Replica -> PrepFrame]
  BY <1>t DEF RoutingTypeOK, HealthInv, TypeOK
<1>f. /\ \A t \in Txn : sel[t].replica \in Replica /\ sel[t].now \in Nat
                        /\ sel[t].now <= clock
      /\ \A r \in Replica : /\ build[r] \in Build /\ build[r].txn \in Txn
                            /\ build[r].next \in Snapshot
                            /\ build[r].todo \in SUBSET Gateway
                            /\ prep[r].gateway \in Gateway /\ prep[r].now \in Nat
                            /\ prep[r].state \in RuntimeState
  BY <1>t, <1>d, RoutingFrames DEF SelectionsOK, PrepFrame
<1>c. CacheTTL \in Nat /\ RoutingTTL \in Nat \ {0}
  BY ConfigAssumption, RoutingAssumption
<1>l. \A r \in Replica : build[r].pc # "free" =>
         /\ sel[build[r].txn].pc = "build" /\ sel[build[r].txn].replica = r
         /\ SnapshotStays(build[r].next, Pending(r))
         /\ SnapshotOK(build[r].next, Pending(r))
         /\ build[r].next.expiresAt = sel[build[r].txn].now + RoutingTTL
         /\ build[r].pc = "prepare" => sel[build[r].txn].now <= prep[r].now
  <2> SUFFICES ASSUME NEW r \in Replica, build[r].pc # "free"
               PROVE  /\ sel[build[r].txn].pc = "build" /\ sel[build[r].txn].replica = r
                      /\ SnapshotStays(build[r].next, Pending(r))
                      /\ SnapshotOK(build[r].next, Pending(r))
                      /\ build[r].next.expiresAt = sel[build[r].txn].now + RoutingTTL
                      /\ build[r].pc = "prepare" => sel[build[r].txn].now <= prep[r].now
    OBVIOUS
  <2>1. sel[build[r].txn].pc = "build" /\ sel[build[r].txn].replica = r
    BY <1>t DEF LockDiscipline, Unlocked
  <2>2. /\ SnapshotOK(build[r].next, Pending(r))
        /\ build[r].next.expiresAt = sel[build[r].txn].now + RoutingTTL
        /\ build[r].pc = "prepare" => sel[build[r].txn].now <= prep[r].now
    BY <1>t DEF BuildsOK, Unlocked
  <2>3. SnapshotStays(build[r].next, Pending(r))
    BY <1>f, <1>t, <2>2, PendingType, SnapshotMonotone
  <2> QED BY <2>1, <2>2, <2>3
<1>p. \A r \in Replica : prep[r].pc # "idle" <=> build[r].pc = "prepare"
  BY <1>t DEF LockDiscipline
<1> DEFINE PendingNext(r) == build'[r].todo \cup
                               IF build'[r].pc = "prepare" THEN {prep'[r].gateway} ELSE {}
           BuildGood(r) == build'[r].pc # "free" =>
              /\ SnapshotStays(build'[r].next, PendingNext(r))
              /\ build'[r].next.expiresAt = sel'[build'[r].txn].now + RoutingTTL
              /\ build'[r].pc = "prepare" => sel'[build'[r].txn].now <= prep'[r].now
           Goal == \A r \in Replica : BuildGood(r)
\* A build that does not take part in the step.
<1>y. ASSUME NEW r \in Replica, build'[r] = build[r],
             prep'[r].now = prep[r].now, prep'[r].gateway = prep[r].gateway,
             \A t \in Txn : sel[t].pc = "build" /\ sel[t].replica = r => sel'[t] = sel[t]
      PROVE  BuildGood(r)
  <2> SUFFICES ASSUME build[r].pc # "free" PROVE BuildGood(r)
    BY <1>y
  <2>1. PendingNext(r) = Pending(r)
    BY <1>y DEF Pending
  <2>2. sel'[build[r].txn] = sel[build[r].txn]
    BY <1>f, <1>l, <1>y
  <2> HIDE DEF PendingNext
  <2> QED BY <1>l, <1>y, <2>1, <2>2
<1> HIDE DEF BuildGood
\* A step of a request that is not building.
<1>x. ASSUME NEW t \in Txn, sel[t].pc # "build", \A i \in Txn \ {t} : sel'[i] = sel[i],
             UNCHANGED <<build, prep>>
      PROVE  Goal
  BY <1>x, <1>y
<1>1. ASSUME HealthStep PROVE Goal
  <2>1. UNCHANGED <<sel, build>>
    BY <1>1 DEF HealthStep, routing
  <2>2. \A r \in Replica : prep'[r].now = prep[r].now /\ prep'[r].gateway = prep[r].gateway
    BY <1>1, HealthFrame
  <2> QED BY <1>y, <2>1, <2>2
<1>2. ASSUME ReloadGateways \/ UNCHANGED allVars PROVE Goal
  <2>1. UNCHANGED <<sel, build, prep>>
    BY <1>2 DEF ReloadGateways, allVars, vars, routing
  <2> QED BY <1>y, <2>1
<1>3. ASSUME NEW r \in Replica, NEW g \in Gateway, PrepareGateway(r, g) PROVE Goal
  <2>1. /\ UNCHANGED sel /\ build[r].pc = "loop" /\ g \in build[r].todo
        /\ build'[r].pc = "prepare" /\ build'[r].txn = build[r].txn
        /\ build'[r].todo = build[r].todo \ {g} /\ build'[r].next = build[r].next
        /\ \A i \in Replica \ {r} : build'[i] = build[i]
    BY <1>3, <1>d, <1>f DEF PrepareGateway, Build
  <2>2. /\ prep'[r].now = clock /\ prep'[r].gateway = g
        /\ \A i \in Replica \ {r} : prep'[i] = prep[i]
    BY <1>3, <1>d DEF PrepareGateway, PrepareForRouting
  <2>3. PendingNext(r) = Pending(r)
    BY <2>1, <2>2 DEF Pending
  <2> HIDE DEF PendingNext
  <2>4. BuildGood(r)
    BY <1>f, <1>l, <2>1, <2>2, <2>3 DEF BuildGood
  <2> QED BY <1>y, <2>1, <2>2, <2>4
<1>4. ASSUME NEW r \in Replica, SortGateway(r) PROVE Goal
  <2> DEFINE g == prep[r].gateway
             s == prep[r].state
             n == build[r].next
             m == Sorted(n, g, s)
  <2>1. /\ UNCHANGED sel
        /\ build'[r].pc = "loop" /\ build'[r].txn = build[r].txn
        /\ build'[r].todo = build[r].todo /\ build'[r].next = m
        /\ \A i \in Replica \ {r} : build'[i] = build[i]
    BY <1>4, <1>d, <1>f DEF SortGateway, Build
  <2>2. /\ prep[r].pc = "done" /\ \A i \in Replica \ {r} : prep'[i] = prep[i]
    BY <1>4, <1>d DEF SortGateway, PrepareReturns
  <2>3. /\ build[r].pc = "prepare" /\ Pending(r) = build[r].todo \cup {g}
        /\ PendingNext(r) = build[r].todo
    BY <1>p, <2>1, <2>2 DEF Pending
  <2>4. /\ n \in Snapshot /\ g \in Gateway /\ s \in RuntimeState
        /\ n.expiresAt = sel[build[r].txn].now + RoutingTTL
        /\ sel[build[r].txn].now <= prep[r].now
        /\ SnapshotStays(n, Pending(r))
    BY <1>f, <1>l, <2>3
  <2>5. /\ s.state = "healthy" => prep[r].now < lastHealthy[g] + CacheTTL
        /\ s.state # "healthy" => prep[r].now < lastSick[g] + CacheTTL
        /\ states[g] # NoState
    BY <1>t, <2>2 DEF HealthInv, FramesFresh, SicknessFresh, RecordsKnown
  <2>6. /\ m \in Snapshot /\ m.expiresAt = n.expiresAt
        /\ m.healthy = IF s.state = "healthy" THEN n.healthy \cup {g} ELSE n.healthy
        /\ m.probes \subseteq n.probes \cup {g}
    BY <2>4, SortedFact
  <2>k. /\ sel[build[r].txn].now \in Nat /\ prep[r].now \in Nat
        /\ lastHealthy[g] \in Nat /\ lastHealthy'[g] \in Nat
        /\ lastHealthy[g] <= lastHealthy'[g]
        /\ lastSick[g] \in Nat /\ lastSick'[g] \in Nat /\ lastSick[g] <= lastSick'[g]
        /\ states[g] # NoState => states'[g] # NoState
    BY <1>f, RoutingGrows
  <2> HIDE DEF m, n, s, g, PendingNext
  <2>7. /\ s.state = "healthy" => m.expiresAt < lastHealthy'[g] + CacheTTL + RoutingTTL
        /\ s.state # "healthy" => m.expiresAt < lastSick'[g] + CacheTTL + RoutingTTL
        /\ states'[g] # NoState
    BY <1>c, <2>4, <2>5, <2>6, <2>k
  <2>8. SnapshotStays(m, PendingNext(r))
    <3>1. ASSUME NEW h \in m.healthy
          PROVE  m.expiresAt < lastHealthy'[h] + CacheTTL + RoutingTTL
      BY <2>4, <2>6, <2>7 DEF SnapshotStays
    <3>2. ASSUME NEW h \in m.healthy \cup m.probes \cup PendingNext(r)
          PROVE  m.expiresAt <= lastEnabled'[h] + RoutingTTL
      BY <2>3, <2>4, <2>6 DEF SnapshotStays
    <3>3. ASSUME NEW h \in m.healthy \cup m.probes
          PROVE  states'[h] # NoState
      BY <2>4, <2>6, <2>7 DEF SnapshotStays
    <3>4. ASSUME NEW h \in Gateway \ (m.healthy \cup PendingNext(r))
          PROVE  \/ m.expiresAt < lastSick'[h] + CacheTTL + RoutingTTL
                 \/ m.expiresAt <= lastDisabled'[h] + RoutingTTL
      <4>1. CASE h = g
        BY <2>6, <2>7, <3>4, <4>1
      <4>2. CASE h # g
        BY <2>3, <2>4, <2>6, <3>4, <4>2 DEF SnapshotStays
      <4> QED BY <4>1, <4>2
    <3> QED BY <3>1, <3>2, <3>3, <3>4 DEF SnapshotStays
  <2>9. BuildGood(r)
    BY <2>1, <2>4, <2>6, <2>8 DEF BuildGood
  <2> QED BY <1>y, <2>1, <2>2, <2>9
<1>5. ASSUME NEW r \in Replica, StoreSnapshot(r) PROVE Goal
  <2>1. /\ build[r].pc = "loop" /\ build'[r].pc = "free" /\ prep' = prep
        /\ Use(build[r].txn, build[r].next)
        /\ \A i \in Replica \ {r} : build'[i] = build[i]
    BY <1>5, <1>d DEF StoreSnapshot, vars, NoBuild
  <2>2. \A i \in Txn \ {build[r].txn} : sel'[i] = sel[i]
    BY <1>t, <1>f, <2>1, SelMoves
  <2>3. sel[build[r].txn].replica = r
    BY <1>l, <2>1
  <2>4. BuildGood(r)
    BY <2>1 DEF BuildGood
  <2> QED BY <1>y, <2>1, <2>2, <2>3, <2>4
<1>6. ASSUME NEW r \in Replica, BuildFails(r) PROVE Goal
  <2>1. /\ build'[r].pc = "free" /\ Answer(build[r].txn, "failed")
        /\ prep[r].pc # "idle"
        /\ \A i \in Replica \ {r} : build'[i] = build[i] /\ prep'[i] = prep[i]
    BY <1>6, <1>d DEF BuildFails, PrepareFails, NoBuild
  <2>2. \A i \in Txn \ {build[r].txn} : sel'[i] = sel[i]
    BY <1>t, <1>f, <2>1, SelMoves
  <2>3. sel[build[r].txn].replica = r
    BY <1>l, <1>p, <2>1
  <2>4. BuildGood(r)
    BY <2>1 DEF BuildGood
  <2> QED BY <1>y, <2>1, <2>2, <2>3, <2>4
<1>7. ASSUME NEW r \in Replica, RestartReplica(r) PROVE Goal
  <2>1. /\ build'[r].pc = "free"
        /\ \A i \in Replica \ {r} : build'[i] = build[i] /\ prep'[i] = prep[i]
    BY <1>7, <1>d DEF RestartReplica, Restart, NoBuild
  <2>2. \A t \in Txn : sel[t].replica # r => sel'[t] = sel[t]
    BY <1>7 DEF RestartReplica, Lost
  <2>3. BuildGood(r)
    BY <2>1 DEF BuildGood
  <2> QED BY <1>y, <2>1, <2>2, <2>3
<1>8. ASSUME NEW t \in Txn, ReadSnapshot(t) PROVE Goal
  <2>1. /\ sel[t].pc = "read" /\ UNCHANGED <<build, prep>>
        /\ Use(t, snapshot[sel[t].replica]) \/ Goto(t, "lock")
    BY <1>8 DEF ReadSnapshot, vars
  <2>2. \A i \in Txn \ {t} : sel'[i] = sel[i]
    BY <1>t, <2>1, SelMoves
  <2> QED BY <1>x, <2>1, <2>2
<1>9. ASSUME NEW t \in Txn, LockSnapshot(t) PROVE Goal
  <2> DEFINE r == sel[t].replica
             n == [NoSnapshot EXCEPT !.expiresAt = sel[t].now + RoutingTTL]
  <2>1. sel[t].pc = "lock" /\ prep' = prep /\ r \in Replica /\ UNCHANGED version
    BY <1>9, <1>f DEF LockSnapshot, vars
  <2>2. CASE Use(t, snapshot[r]) /\ UNCHANGED build
    <3>1. \A i \in Txn \ {t} : sel'[i] = sel[i]
      BY <1>t, <2>2, SelMoves
    <3> QED BY <1>x, <2>1, <2>2, <3>1
  <2>3. CASE /\ Goto(t, "build")
             /\ build' = [build EXCEPT ![r] =
                  [pc |-> "loop", txn |-> t, todo |-> Enabled, next |-> n]]
    <3>1. sel'[t].now = sel[t].now /\ \A i \in Txn \ {t} : sel'[i] = sel[i]
      BY <1>t, <2>3, SelMoves
    <3>2. /\ build'[r].pc = "loop" /\ build'[r].txn = t /\ build'[r].todo = Enabled
          /\ build'[r].next = n
          /\ \A i \in Replica \ {r} : build'[i] = build[i]
      BY <1>d, <2>1, <2>3
    <3>3. n.healthy = {} /\ n.probes = {} /\ n.expiresAt = sel[t].now + RoutingTTL
      BY DEF NoSnapshot
    <3>4. \A g \in Gateway : IF g \in Enabled THEN lastEnabled'[g] = clock'
                                              ELSE lastDisabled'[g] = clock'
      <4>1. Watch
        BY <1>t, WatchFact
      <4>2. Enabled' = Enabled
        BY <2>1 DEF Enabled
      <4> QED BY <4>1, <4>2 DEF Watch
    <3>5. Enabled \in SUBSET Gateway
      BY <1>t, EnabledType
    <3>6. sel[t].now <= clock' /\ clock' \in Nat /\ sel[t].now \in Nat
      BY <1>f, RoutingGrows
    <3>7. PendingNext(r) = Enabled
      BY <3>2
    <3> HIDE DEF n, r, PendingNext
    <3>8. SnapshotStays(n, Enabled)
      BY <1>c, <3>3, <3>4, <3>5, <3>6 DEF SnapshotStays
    <3>9. BuildGood(r)
      BY <3>1, <3>2, <3>3, <3>7, <3>8 DEF BuildGood
    <3> QED BY <1>y, <2>1, <3>1, <3>2, <3>9
  <2> QED BY <1>9, <2>2, <2>3 DEF LockSnapshot
<1>10. ASSUME NEW t \in Txn, \/ InvalidateCache(t) \/ ProbeGranted(t) \/ NoAvailableGateway(t)
                             \/ \E g \in Gateway : ChooseProbe(t, g) \/ ChooseHealthy(t, g)
       PROVE  Goal
  <2>1. /\ sel[t].pc # "build" /\ UNCHANGED <<build, prep>>
        /\ \/ Goto(t, "fallback") \/ Goto(t, "probe")
           \/ Answer(t, "chosen") \/ Answer(t, "refused")
    BY <1>10 DEF InvalidateCache, ProbeGranted, NoAvailableGateway, ChooseProbe,
         ChooseHealthy, AmongHealthy, CacheAcquired, MarkProbeSelected, Route, vars
  <2>2. \A i \in Txn \ {t} : sel'[i] = sel[i]
    BY <1>t, <2>1, SelMoves
  <2> QED BY <1>x, <2>1, <2>2
<1>11. ASSUME NEW t \in Txn, NEW r \in Replica, NEW x \in Exclusions, SelectGateway(t, r, x)
       PROVE  Goal
  <2>1. /\ sel[t].pc = "idle" /\ UNCHANGED <<build, prep>>
        /\ \A i \in Txn \ {t} : sel'[i] = sel[i]
    BY <1>11, <1>d DEF SelectGateway, vars
  <2> QED BY <1>x, <2>1
<1> HIDE DEF Goal
<1>12. Goal
  BY <1>1, <1>2, <1>3, <1>4, <1>5, <1>6, <1>7, <1>8, <1>9, <1>10, <1>11
     DEF RoutingNext, RoutingStep, BuildStep, SelectStep
<1> QED BY <1>12 DEF Goal, BuildGood, PendingNext, BuildsOK, Unlocked, SnapshotOK,
          SnapshotStays, Pending

-----------------------------------------------------------------------------
(* The requests.                                                           *)

\* A request uses a snapshot that was fresh when the request began, and the
\* health service moves it only as far as the routing service asked.
LEMMA SelectionsStep ==
    ASSUME HealthInv, RoutingInv, [RoutingNext]_allVars
    PROVE  SelectionsOK'
<1>t. RoutingTypeOK /\ LockDiscipline /\ BuildsOK /\ SelectionsOK /\ SnapshotsOK
  BY DEF RoutingInv
<1>d. /\ sel \in [Txn -> Sel] /\ build \in [Replica -> Build]
      /\ ctx \in [Txn -> Ctx] /\ pc \in [Txn -> TxnPC]
  BY <1>t DEF RoutingTypeOK, HealthInv, TypeOK
<1>f. /\ \A t \in Txn : sel[t].replica \in Replica /\ sel[t].now \in Nat
      /\ \A r \in Replica : build[r].txn \in Txn
  BY <1>t, RoutingFrames
<1>c. clock \in Nat /\ clock' \in Nat /\ clock <= clock'
  BY RoutingGrows
<1> DEFINE
      Place(p, at, c, q) ==
         /\ p \in {"idle", "read", "lock", "build", "choose"} => at = "new"
         /\ p = "probe" => at \in Selecting \cup {"fallback"} /\ c = q
         /\ p = "fallback" => at = "fallback"
      Usable(x) == x.pc \in {"choose", "probe", "fallback"} =>
         x.now < x.snapshot.expiresAt /\ SnapshotStays(x.snapshot, {})
      SelGood(t) ==
         /\ sel'[t].now <= clock'
         /\ Place(sel'[t].pc, pc'[t], ctx'[t].replica, sel'[t].replica)
         /\ Usable(sel'[t])
      Goal == \A t \in Txn : SelGood(t)
<1>s. \A t \in Txn : /\ sel[t].now <= clock'
                     /\ Place(sel[t].pc, pc[t], ctx[t].replica, sel[t].replica)
                     /\ Usable(sel[t])
  <2> SUFFICES ASSUME NEW t \in Txn
               PROVE  /\ sel[t].now <= clock'
                      /\ Place(sel[t].pc, pc[t], ctx[t].replica, sel[t].replica)
                      /\ Usable(sel[t])
    OBVIOUS
  <2>1. sel[t].now <= clock'
    BY <1>c, <1>f, <1>t DEF SelectionsOK
  <2>2. Place(sel[t].pc, pc[t], ctx[t].replica, sel[t].replica)
    BY <1>t DEF SelectionsOK
  <2>3. Usable(sel[t])
    <3> SUFFICES ASSUME sel[t].pc \in {"choose", "probe", "fallback"}
                 PROVE  sel[t].now < sel[t].snapshot.expiresAt
                        /\ SnapshotStays(sel[t].snapshot, {})
      OBVIOUS
    <3>1. sel[t].now < sel[t].snapshot.expiresAt /\ SnapshotOK(sel[t].snapshot, {})
      BY <1>t DEF SelectionsOK
    <3>2. sel[t].snapshot \in Snapshot
      BY <1>t, RoutingFrames
    <3> QED BY <3>1, <3>2, SnapshotMonotone
  <2> QED BY <2>1, <2>2, <2>3
<1>b. \A r \in Replica : build[r].pc # "free" =>
        sel[build[r].txn].pc = "build" /\ sel[build[r].txn].replica = r
  BY <1>t DEF LockDiscipline, Unlocked
<1>n. \A r \in Replica : snapshot[r] \in Snapshot /\ SnapshotStays(snapshot[r], {})
  BY <1>t, RoutingFrames, SnapshotMonotone DEF SnapshotsOK
<1>p. \A p \in {"chosen", "refused", "failed"} : \A at, c, q : Place(p, at, c, q)
  OBVIOUS
<1> HIDE DEF Place
\* A request that does not take part in the step.
<1>y. ASSUME NEW t \in Txn, sel'[t] = sel[t], pc'[t] = pc[t],
             ctx'[t].replica = ctx[t].replica
      PROVE  SelGood(t)
  BY <1>s, <1>y
\* A request that is answered.
<1>z. ASSUME NEW t \in Txn, sel'[t].now = 0, sel'[t].pc \in {"chosen", "refused", "failed"}
      PROVE  SelGood(t)
  BY <1>c, <1>p, <1>z
<1>1. ASSUME HealthStep PROVE Goal
  <2> SUFFICES ASSUME NEW t \in Txn PROVE SelGood(t)
    OBVIOUS
  <2>1. UNCHANGED sel
    BY <1>1 DEF HealthStep, routing
  <2>2. pc[t] \in {"new", "fallback"} \cup Selecting =>
          /\ ctx'[t].replica = ctx[t].replica
          /\ IF pc[t] \in Selecting THEN pc'[t] \in Selecting \cup {"fallback"}
                                    ELSE pc'[t] = pc[t]
    BY <1>1, HealthFrame
  <2>3. Place(sel[t].pc, pc'[t], ctx'[t].replica, sel[t].replica)
    BY <1>s, <2>2 DEF Place, Selecting
  <2> QED BY <1>s, <2>1, <2>3
<1>2. ASSUME ReloadGateways \/ UNCHANGED allVars PROVE Goal
  <2>1. UNCHANGED <<sel, pc, ctx>>
    BY <1>2 DEF ReloadGateways, allVars, vars, routing
  <2> QED BY <1>y, <2>1
<1>3. ASSUME NEW r \in Replica, SortGateway(r) \/ \E g \in Gateway : PrepareGateway(r, g)
      PROVE  Goal
  <2>1. UNCHANGED <<sel, pc, ctx>>
    BY <1>3 DEF SortGateway, PrepareGateway, PrepareReturns, PrepareForRouting
  <2> QED BY <1>y, <2>1
<1>4. ASSUME NEW r \in Replica, StoreSnapshot(r) PROVE Goal
  <2> DEFINE t == build[r].txn
  <2>1. /\ build[r].pc = "loop" /\ build[r].todo = {} /\ UNCHANGED <<pc, ctx>>
        /\ Use(t, build[r].next) /\ t \in Txn
    BY <1>4, <1>f DEF StoreSnapshot, vars
  <2>2. /\ SnapshotOK(build[r].next, {}) /\ build[r].next \in Snapshot
        /\ build[r].next.expiresAt = sel[t].now + RoutingTTL
    BY <1>t, <2>1, RoutingFrames DEF BuildsOK, Unlocked, Pending
  <2>3. SnapshotStays(build[r].next, {})
    BY <2>2, SnapshotMonotone
  <2>4. sel[t].pc = "build"
    BY <1>b, <2>1
  <2>5. sel[t].now < build[r].next.expiresAt
    BY <1>f, <2>1, <2>2, RoutingAssumption
  <2> HIDE DEF t
  <2>6. /\ sel'[t].pc = "choose" /\ sel'[t].snapshot = build[r].next
        /\ sel'[t].now = sel[t].now
        /\ \A i \in Txn \ {t} : sel'[i] = sel[i]
    BY <1>t, <2>1, SelMoves
  <2>7. SelGood(t)
    BY <1>s, <2>1, <2>3, <2>4, <2>5, <2>6 DEF Place
  <2> QED BY <1>y, <2>1, <2>6, <2>7
<1>5. ASSUME NEW r \in Replica, BuildFails(r) PROVE Goal
  <2>1. Answer(build[r].txn, "failed") /\ UNCHANGED <<pc, ctx>> /\ build[r].txn \in Txn
    BY <1>5, <1>f DEF BuildFails, PrepareFails
  <2>2. /\ sel'[build[r].txn].pc = "failed" /\ sel'[build[r].txn].now = 0
        /\ \A i \in Txn \ {build[r].txn} : sel'[i] = sel[i]
    BY <1>t, <2>1, SelMoves
  <2> QED BY <1>y, <1>z, <2>1, <2>2
<1>6. ASSUME NEW r \in Replica, RestartReplica(r) PROVE Goal
  <2> SUFFICES ASSUME NEW t \in Txn PROVE SelGood(t)
    OBVIOUS
  <2>1. CASE Lost(t, r)
    <3>1. sel'[t].pc = "failed" /\ sel'[t].now = 0
      BY <1>6, <2>1 DEF RestartReplica, IdleSel
    <3> QED BY <1>z, <3>1
  <2>2. CASE ~ Lost(t, r)
    <3>1. sel'[t] = sel[t]
      BY <1>6, <2>2 DEF RestartReplica
    <3>2. CASE t \notin CrashedTxns(r)
      <4>1. pc'[t] = pc[t] /\ ctx'[t] = ctx[t]
        BY <1>6, <3>2 DEF RestartReplica, Restart
      <4> QED BY <1>y, <3>1, <4>1
    <3>3. CASE t \in CrashedTxns(r)
      <4>1. /\ ctx[t].replica = r /\ pc[t] \notin {"new", "fallback"}
        BY <3>3 DEF CrashedTxns, Selecting, Releasing, Recording
      <4>2. sel[t].pc \notin {"idle", "read", "lock", "build", "choose", "fallback"}
        BY <1>s, <4>1 DEF Place
      <4>3. sel[t].pc # "probe"
        BY <1>s, <2>2, <4>1 DEF Place, Lost
      <4>4. Place(sel[t].pc, pc'[t], ctx'[t].replica, sel[t].replica)
        BY <4>2, <4>3 DEF Place
      <4> QED BY <1>s, <3>1, <4>4
    <3> QED BY <3>2, <3>3
  <2> QED BY <2>1, <2>2
<1>7. ASSUME NEW t \in Txn, ReadSnapshot(t) \/ LockSnapshot(t) PROVE Goal
  <2> DEFINE r == sel[t].replica
  <2>1. sel[t].pc \in {"read", "lock"} /\ r \in Replica /\ UNCHANGED <<pc, ctx>>
    BY <1>7, <1>f DEF ReadSnapshot, LockSnapshot, vars
  <2>2. CASE sel[t].now < snapshot[r].expiresAt /\ Use(t, snapshot[r])
    <3>1. /\ sel'[t].pc = "choose" /\ sel'[t].snapshot = snapshot[r]
          /\ sel'[t].now = sel[t].now
          /\ \A i \in Txn \ {t} : sel'[i] = sel[i]
      BY <1>t, <2>2, SelMoves
    <3>2. SnapshotStays(snapshot[r], {})
      BY <1>n, <2>1
    <3> HIDE DEF r
    <3>3. SelGood(t)
      BY <1>s, <2>1, <2>2, <3>1, <3>2 DEF Place
    <3> QED BY <1>y, <2>1, <3>1, <3>3
  <2>3. CASE Goto(t, "lock") \/ Goto(t, "build")
    <3>1. /\ sel'[t].pc \in {"lock", "build"} /\ sel'[t].now = sel[t].now
          /\ \A i \in Txn \ {t} : sel'[i] = sel[i]
      BY <1>t, <2>3, SelMoves
    <3> HIDE DEF r
    <3>2. SelGood(t)
      BY <1>s, <2>1, <3>1 DEF Place
    <3> QED BY <1>y, <2>1, <3>1, <3>2
  <2> QED BY <1>7, <2>2, <2>3 DEF ReadSnapshot, LockSnapshot, Fresh
<1>8. ASSUME NEW t \in Txn, InvalidateCache(t) PROVE Goal
  <2>1. /\ sel[t].pc = "probe" /\ pc[t] = "fallback" /\ UNCHANGED <<pc, ctx>>
        /\ Goto(t, "fallback")
    BY <1>8 DEF InvalidateCache, vars
  <2>2. /\ sel'[t].pc = "fallback" /\ sel'[t].now = sel[t].now
        /\ sel'[t].snapshot = sel[t].snapshot
        /\ \A i \in Txn \ {t} : sel'[i] = sel[i]
    BY <1>t, <2>1, SelMoves
  <2>3. SelGood(t)
    BY <1>s, <2>1, <2>2 DEF Place
  <2> QED BY <1>y, <2>1, <2>2, <2>3
<1>9. ASSUME NEW t \in Txn, NEW g \in Gateway, ChooseProbe(t, g) PROVE Goal
  <2>1. /\ sel[t].pc = "choose" /\ Goto(t, "probe") /\ pc'[t] = "acquire"
        /\ \A i \in Txn \ {t} : pc'[i] = pc[i] /\ ctx'[i] = ctx[i]
    BY <1>9, <1>d DEF ChooseProbe, MarkProbeSelected
  <2>2. ctx'[t].replica = sel[t].replica
    BY <1>9, <1>d DEF ChooseProbe, MarkProbeSelected, Ctx
  <2>3. /\ sel'[t].pc = "probe" /\ sel'[t].now = sel[t].now
        /\ sel'[t].replica = sel[t].replica /\ sel'[t].snapshot = sel[t].snapshot
        /\ \A i \in Txn \ {t} : sel'[i] = sel[i]
    BY <1>t, <2>1, SelMoves
  <2>4. SelGood(t)
    BY <1>s, <2>1, <2>2, <2>3 DEF Place, Selecting
  <2> QED BY <1>y, <2>1, <2>3, <2>4
<1>10. ASSUME NEW t \in Txn, \/ ProbeGranted(t) \/ NoAvailableGateway(t)
                             \/ \E g \in Gateway : ChooseHealthy(t, g)
       PROVE  Goal
  <2>1. /\ Answer(t, "chosen") \/ Answer(t, "refused")
        /\ \A i \in Txn \ {t} : pc'[i] = pc[i] /\ ctx'[i] = ctx[i]
    BY <1>10, <1>d DEF ProbeGranted, NoAvailableGateway, ChooseHealthy, CacheAcquired,
                       Route, vars
  <2>2. /\ sel'[t].pc \in {"chosen", "refused"} /\ sel'[t].now = 0
        /\ \A i \in Txn \ {t} : sel'[i] = sel[i]
    BY <1>t, <2>1, SelMoves
  <2> QED BY <1>y, <1>z, <2>1, <2>2
<1>11. ASSUME NEW t \in Txn, NEW r \in Replica, NEW x \in Exclusions, SelectGateway(t, r, x)
       PROVE  Goal
  <2>1. /\ sel[t].pc = "idle" /\ sel'[t].pc = "read" /\ sel'[t].now = clock
        /\ UNCHANGED <<pc, ctx>> /\ \A i \in Txn \ {t} : sel'[i] = sel[i]
    BY <1>11, <1>d DEF SelectGateway, vars
  <2>2. SelGood(t)
    BY <1>c, <1>s, <2>1 DEF Place
  <2> QED BY <1>y, <2>1, <2>2
<1> HIDE DEF Goal
<1>12. Goal
  BY <1>1, <1>2, <1>3, <1>4, <1>5, <1>6, <1>7, <1>8, <1>9, <1>10, <1>11
     DEF RoutingNext, RoutingStep, BuildStep, SelectStep
<1> QED BY <1>12 DEF Goal, Place, SelectionsOK, SnapshotOK, SnapshotStays

-----------------------------------------------------------------------------
(* The theorems.                                                           *)

\* The initial state satisfies the invariant.
LEMMA RoutingInitInv == RoutingInit => HealthInv /\ RoutingInv
<1> SUFFICES ASSUME RoutingInit PROVE HealthInv /\ RoutingInv
  OBVIOUS
<1>1. Init /\ clock = 1
  BY DEF RoutingInit, Init
<1>2. HealthInv
  BY <1>1, InitInv
<1>3. RoutingTypeOK
  <2>1. version \in DOMAIN Configs
    BY RoutingAssumption DEF RoutingInit
  <2> QED BY <1>1, <2>1, RoutingPlaceholders DEF RoutingInit, RoutingTypeOK
<1>4. HistoryOK
  BY <1>1 DEF RoutingInit, Init, HistoryOK, NoState, Sick
<1>5. RecordsKnown
  BY <1>1 DEF Init, RecordsKnown, NoEntry, IdlePrep, IdleLook
<1>6. SicknessFresh
  <2>1. CacheTTL \in Nat
    BY ConfigAssumption
  <2> QED BY <1>1, <2>1 DEF RoutingInit, Init, SicknessFresh, NoEntry, IdlePrep, IdleLook
<1>7. LockDiscipline
  BY <1>1 DEF RoutingInit, Init, LockDiscipline, Unlocked, NoBuild, IdleSel, IdlePrep
<1>8. SnapshotOK(NoSnapshot, {})
  <2>1. RoutingTTL \in Nat /\ lastDisabled \in [Gateway -> Nat]
    BY <1>3, RoutingAssumption DEF RoutingTypeOK
  <2> QED BY <2>1 DEF SnapshotOK, NoSnapshot
<1>9. SnapshotsOK
  BY <1>8 DEF RoutingInit, SnapshotsOK
<1>10. BuildsOK
  BY DEF RoutingInit, BuildsOK, Unlocked, NoBuild
<1>11. SelectionsOK
  BY <1>1 DEF RoutingInit, Init, SelectionsOK, IdleSel
<1> QED BY <1>2, <1>3, <1>4, <1>5, <1>6, <1>7, <1>9, <1>10, <1>11 DEF RoutingInv

\* Both invariants together are inductive.
LEMMA RoutingInvStep ==
    HealthInv /\ RoutingInv /\ [RoutingNext]_allVars => HealthInv' /\ RoutingInv'
<1> SUFFICES ASSUME HealthInv, RoutingInv, [RoutingNext]_allVars
             PROVE  HealthInv' /\ RoutingInv'
  OBVIOUS
<1>1. /\ RoutingTypeOK /\ HistoryOK /\ RecordsKnown /\ SicknessFresh /\ LockDiscipline
  BY DEF RoutingInv
<1>2. Watch /\ [Next]_vars
  BY <1>1, WatchFact, RoutingStepsHealth
<1>3. HealthInv'
  BY <1>2, TypeStep, StampsStep, RecordsStep, SlotsStep, FreshStep DEF HealthInv
<1>4. RoutingTypeOK' /\ HistoryOK'
  BY <1>1, <1>2, RoutingTypeStep, HistoryStep
<1>5. RecordsKnown' /\ SicknessFresh'
  BY <1>1, <1>2, SickStep
<1>6. LockDiscipline' /\ SnapshotsOK' /\ BuildsOK' /\ SelectionsOK'
  BY <1>1, LockStep, SnapshotsStep, BuildsStep, SelectionsStep
<1> QED BY <1>3, <1>4, <1>5, <1>6 DEF RoutingInv

\* The inductive invariant of the composition holds in every reachable state,
\* the health service's own beside it.
THEOREM RoutingInvariance == RoutingSpec => [](HealthInv /\ RoutingInv)
BY RoutingInitInv, RoutingInvStep, PTL DEF RoutingSpec

\* The composition implements the health service specified alone: the routing
\* service makes only the calls its callers may make.
THEOREM RoutingImplementsHealth == RoutingSpec => Spec
<1>1. RoutingInit => Init
  BY DEF RoutingInit
<1>2. RoutingInv /\ [RoutingNext]_allVars => [Next]_vars
  BY RoutingStepsHealth DEF RoutingInv
<1> QED BY <1>1, <1>2, RoutingInvariance, PTL DEF RoutingSpec, Spec

\* The write lock is held exactly while a request of its replica is building,
\* however builds fail, restart or race.
THEOREM LockDisciplineHolds == RoutingSpec => []LockDiscipline
<1>1. RoutingInv => LockDiscipline
  BY DEF RoutingInv
<1> QED BY <1>1, RoutingInvariance, PTL

\* What one step may do to a request that has not been sent yet.
LEMMA Departure ==
    ASSUME HealthInv, RoutingInv, RoutingNext, NEW t \in Txn,
           pc[t] \in {"new", "fallback"}, pc'[t] # pc[t]
    PROVE  \E g \in Gateway : ChooseProbe(t, g) \/ ChooseHealthy(t, g)
<1>d. pc \in [Txn -> TxnPC]
  BY DEF HealthInv, TypeOK
<1>1. ~ HealthStep
  BY HealthFrame DEF Selecting
<1>2. ASSUME NEW r \in Replica, BuildStep(r) \/ BuildFails(r) PROVE FALSE
  BY <1>2 DEF BuildStep, BuildFails, PrepareGateway, SortGateway, StoreSnapshot,
              PrepareForRouting, PrepareReturns, PrepareFails, vars
<1>3. ASSUME NEW r \in Replica, RestartReplica(r) PROVE FALSE
  <2>1. t \notin CrashedTxns(r)
    BY DEF CrashedTxns, Selecting, Releasing, Recording
  <2> QED BY <1>3, <2>1 DEF RestartReplica, Restart
<1>4. ASSUME NEW i \in Txn,
             \/ ReadSnapshot(i) \/ LockSnapshot(i) \/ InvalidateCache(i)
             \/ NoAvailableGateway(i)
             \/ \E r \in Replica, x \in Exclusions : SelectGateway(i, r, x)
      PROVE  FALSE
  BY <1>4 DEF ReadSnapshot, LockSnapshot, InvalidateCache, NoAvailableGateway,
              SelectGateway, vars
<1>5. ASSUME NEW i \in Txn, ProbeGranted(i) PROVE FALSE
  BY <1>5, <1>d DEF ProbeGranted, CacheAcquired
<1>6. ~ ReloadGateways
  BY DEF ReloadGateways, vars
<1>7. ASSUME NEW i \in Txn, NEW g \in Gateway, ChooseProbe(i, g) \/ ChooseHealthy(i, g)
      PROVE  i = t
  BY <1>7, <1>d DEF ChooseProbe, ChooseHealthy, MarkProbeSelected, Route
<1> QED BY <1>1, <1>2, <1>3, <1>4, <1>5, <1>6, <1>7
        DEF RoutingNext, RoutingStep, SelectStep

\* A chosen gateway is one of the snapshot that the request holds, and that
\* snapshot was fresh when the request began.
LEMMA Chosen ==
    ASSUME HealthInv, RoutingInv, NEW t \in Txn, NEW g \in Gateway,
           ChooseProbe(t, g) \/ ChooseHealthy(t, g)
    PROVE  /\ ctx'[t].gateway = g /\ sel[t].now \in Nat
           /\ sel[t].now < sel[t].snapshot.expiresAt
           /\ SnapshotOK(sel[t].snapshot, {})
           /\ sel[t].snapshot \in Snapshot
           /\ g \in sel[t].snapshot.healthy \cup sel[t].snapshot.probes
           /\ ChooseHealthy(t, g) => g \in sel[t].snapshot.healthy
           /\ pc'[t] = "initiating" => ChooseHealthy(t, g)
<1>d. ctx \in [Txn -> Ctx] /\ pc \in [Txn -> TxnPC]
  BY DEF HealthInv, TypeOK
<1>1. sel[t].pc \in {"choose", "fallback"}
  BY DEF ChooseProbe, ChooseHealthy, AmongHealthy
<1>2. sel[t].now < sel[t].snapshot.expiresAt /\ SnapshotOK(sel[t].snapshot, {})
  BY <1>1 DEF RoutingInv, SelectionsOK
<1>3. sel[t].snapshot \in Snapshot /\ sel[t].now \in Nat
  BY RoutingFrames DEF RoutingInv
<1>4. ctx'[t].gateway = g
  BY <1>d DEF ChooseProbe, ChooseHealthy, MarkProbeSelected, Route, Ctx
<1>5. /\ ChooseHealthy(t, g) => g \in sel[t].snapshot.healthy
      /\ ChooseProbe(t, g) => g \in sel[t].snapshot.probes
  BY DEF ChooseProbe, ChooseHealthy, HealthyLeft, ProbesLeft
<1>6. ChooseProbe(t, g) => pc'[t] = "acquire"
  BY <1>d DEF ChooseProbe, MarkProbeSelected
<1> QED BY <1>2, <1>3, <1>4, <1>5, <1>6

\* A payment reaches a gateway as healthy only if the repository held
\* "healthy" for it within the two cache TTLs before the request began.
THEOREM StalenessBounded == RoutingSpec => EndToEndStaleness
<1> DEFINE Step == \A t \in Txn, g \in Gateway : RoutedAsHealthy(t, g) =>
                      sel[t].now < lastHealthy[g] + CacheTTL + RoutingTTL
<1>1. HealthInv /\ RoutingInv /\ RoutingNext => Step
  <2> SUFFICES ASSUME HealthInv, RoutingInv, RoutingNext, NEW t \in Txn, NEW g \in Gateway,
                      RoutedAsHealthy(t, g)
               PROVE  sel[t].now < lastHealthy[g] + CacheTTL + RoutingTTL
    OBVIOUS
  <2>1. /\ pc[t] \in {"new", "fallback"} /\ pc'[t] = "initiating" /\ ctx'[t].gateway = g
    BY DEF RoutedAsHealthy
  <2>2. PICK h \in Gateway : ChooseProbe(t, h) \/ ChooseHealthy(t, h)
    BY <2>1, Departure
  <2>3. /\ h = g /\ sel[t].now \in Nat /\ sel[t].now < sel[t].snapshot.expiresAt
        /\ SnapshotOK(sel[t].snapshot, {}) /\ sel[t].snapshot \in Snapshot
        /\ g \in sel[t].snapshot.healthy
    BY <2>1, <2>2, Chosen
  <2>4. sel[t].snapshot.expiresAt < lastHealthy[g] + CacheTTL + RoutingTTL
    BY <2>3 DEF SnapshotOK
  <2>5. sel[t].snapshot.expiresAt \in Nat /\ lastHealthy[g] \in Nat
    BY <2>3 DEF Snapshot, HealthInv, TypeOK
  <2> QED BY <2>3, <2>4, <2>5, ConfigAssumption, RoutingAssumption
<1> HIDE DEF Step
<1>2. HealthInv /\ RoutingInv /\ [RoutingNext]_allVars => [Step]_allVars
  BY <1>1
<1>3. RoutingSpec => [][Step]_allVars
  BY <1>2, RoutingInvariance, PTL DEF RoutingSpec
<1> QED BY <1>3 DEF EndToEndStaleness, Step

\* A gateway disabled in the configuration receives no request that began a
\* snapshot TTL or more after it was disabled.
THEOREM DisabledGatewaysDrain == RoutingSpec => DisabledDrains
<1> DEFINE Step == \A t \in Txn : pc[t] \in {"new", "fallback"} /\ pc'[t] # pc[t] =>
                      sel[t].now < lastEnabled[ctx'[t].gateway] + RoutingTTL
<1>1. HealthInv /\ RoutingInv /\ RoutingNext => Step
  <2> SUFFICES ASSUME HealthInv, RoutingInv, RoutingNext, NEW t \in Txn,
                      pc[t] \in {"new", "fallback"}, pc'[t] # pc[t]
               PROVE  sel[t].now < lastEnabled[ctx'[t].gateway] + RoutingTTL
    OBVIOUS
  <2>1. PICK g \in Gateway : ChooseProbe(t, g) \/ ChooseHealthy(t, g)
    BY Departure
  <2>2. /\ ctx'[t].gateway = g /\ sel[t].now \in Nat
        /\ sel[t].now < sel[t].snapshot.expiresAt
        /\ SnapshotOK(sel[t].snapshot, {}) /\ sel[t].snapshot \in Snapshot
        /\ g \in sel[t].snapshot.healthy \cup sel[t].snapshot.probes
    BY <2>1, Chosen
  <2>3. sel[t].snapshot.expiresAt <= lastEnabled[g] + RoutingTTL
    BY <2>2 DEF SnapshotOK
  <2>4. sel[t].snapshot.expiresAt \in Nat /\ lastEnabled[g] \in Nat
    BY <2>2 DEF Snapshot, RoutingInv, RoutingTypeOK
  <2> QED BY <2>2, <2>3, <2>4, RoutingAssumption
<1> HIDE DEF Step
<1>2. HealthInv /\ RoutingInv /\ [RoutingNext]_allVars => [Step]_allVars
  BY <1>1
<1>3. RoutingSpec => [][Step]_allVars
  BY <1>2, RoutingInvariance, PTL DEF RoutingSpec
<1> QED BY <1>3 DEF DisabledDrains, Step

\* No gateway that a refused request could have used was healthy and enabled
\* long enough for every snapshot to have noticed.
THEOREM NobodyOverlooked == RoutingSpec => NoneOverlooked
<1> DEFINE Step == \A t \in Txn : sel[t].pc # "refused" /\ sel'[t].pc = "refused" =>
                      \A g \in Gateway \ sel[t].excluded :
                         \/ sel[t].now < lastSick[g] + CacheTTL + RoutingTTL
                         \/ sel[t].now < lastDisabled[g] + RoutingTTL
<1>1. HealthInv /\ RoutingInv /\ RoutingNext => Step
  <2> SUFFICES ASSUME HealthInv, RoutingInv, RoutingNext, NEW t \in Txn,
                      sel[t].pc # "refused", sel'[t].pc = "refused",
                      NEW g \in Gateway \ sel[t].excluded
               PROVE  \/ sel[t].now < lastSick[g] + CacheTTL + RoutingTTL
                      \/ sel[t].now < lastDisabled[g] + RoutingTTL
    OBVIOUS
  <2>t. RoutingTypeOK
    BY DEF RoutingInv
  <2>d. /\ sel \in [Txn -> Sel] /\ \A r \in Replica : build[r].txn \in Txn
    BY <2>t, RoutingFrames DEF RoutingTypeOK
  <2>m. ASSUME NEW i \in Txn, NEW p, Goto(i, p) \/ Answer(i, p), p # "refused" PROVE FALSE
    BY <2>t, <2>m, SelMoves
  <2>n. ASSUME NEW i \in Txn, NEW s, Use(i, s) PROVE FALSE
    BY <2>t, <2>n, SelMoves
  <2>1. ~ HealthStep /\ ~ ReloadGateways
    BY DEF HealthStep, ReloadGateways, routing
  <2>2. ASSUME NEW r \in Replica, BuildStep(r) \/ BuildFails(r) PROVE FALSE
    BY <2>2, <2>d, <2>m, <2>n DEF BuildStep, BuildFails, PrepareGateway, SortGateway,
                                  StoreSnapshot
  <2>3. ASSUME NEW r \in Replica, RestartReplica(r) PROVE FALSE
    BY <2>3 DEF RestartReplica, IdleSel
  <2>4. ASSUME NEW i \in Txn,
               \/ ReadSnapshot(i) \/ LockSnapshot(i) \/ InvalidateCache(i) \/ ProbeGranted(i)
               \/ \E h \in Gateway : ChooseProbe(i, h) \/ ChooseHealthy(i, h)
        PROVE  FALSE
    BY <2>4, <2>m, <2>n DEF ReadSnapshot, LockSnapshot, InvalidateCache, ProbeGranted,
                            ChooseProbe, ChooseHealthy
  <2>5. ASSUME NEW i \in Txn, NEW r \in Replica, NEW x \in Exclusions, SelectGateway(i, r, x)
        PROVE  FALSE
    BY <2>5, <2>d DEF SelectGateway
  <2>6. PICK i \in Txn : NoAvailableGateway(i)
    BY <2>1, <2>2, <2>3, <2>4, <2>5 DEF RoutingNext, RoutingStep, SelectStep
  <2>7. i = t
    BY <2>6, <2>t, SelMoves DEF NoAvailableGateway
  <2>8. sel[t].pc \in {"choose", "fallback"} /\ g \notin sel[t].snapshot.healthy
    BY <2>6, <2>7 DEF NoAvailableGateway, AmongHealthy, HealthyLeft
  <2>9. sel[t].now < sel[t].snapshot.expiresAt /\ SnapshotOK(sel[t].snapshot, {})
    BY <2>8 DEF RoutingInv, SelectionsOK
  <2>10. \/ sel[t].snapshot.expiresAt < lastSick[g] + CacheTTL + RoutingTTL
         \/ sel[t].snapshot.expiresAt <= lastDisabled[g] + RoutingTTL
    BY <2>8, <2>9 DEF SnapshotOK
  <2>11. /\ sel[t].now \in Nat /\ sel[t].snapshot.expiresAt \in Nat
         /\ lastSick[g] \in Nat /\ lastDisabled[g] \in Nat
    BY <2>t, RoutingFrames DEF RoutingTypeOK, Snapshot
  <2> QED BY <2>9, <2>10, <2>11, ConfigAssumption, RoutingAssumption
<1> HIDE DEF Step
<1>2. HealthInv /\ RoutingInv /\ [RoutingNext]_allVars => [Step]_allVars
  BY <1>1
<1>3. RoutingSpec => [][Step]_allVars
  BY <1>2, RoutingInvariance, PTL DEF RoutingSpec
<1> QED BY <1>3 DEF NoneOverlooked, Step

=============================================================================
