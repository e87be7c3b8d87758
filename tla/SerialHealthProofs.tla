------------------------- MODULE SerialHealthProofs -------------------------
(***************************************************************************)
(* Proofs about the health service used by one caller at a time: what      *)
(* closes a half-open gateway, which transitions of its state are          *)
(* possible, and how many probes are in flight.                            *)
(***************************************************************************)
EXTENDS SerialHealth, GatewayHealthProofs

-----------------------------------------------------------------------------
(* The invariant of serial use, on any number of replicas.                 *)

\* A stored slot belongs to the payment that was admitted with it, at the
\* gateway that payment goes to; a payment that was not admitted holds none.
SlotsOwned ==
    /\ \A g \in Gateway : \A p \in states[g].probes :
          /\ ctx[p.txn].gateway = g
          /\ ctx[p.txn].probe = p.expiresAt
          /\ ctx[p.txn].probe # 0
    /\ \A t \in Txn : pc[t] \in {"new", "acquire", "denied", "fallback"} =>
          ctx[t].probe = 0

\* A payment that has been given a gateway is at one that has a record.
GatewaysKnown ==
    \A t \in Txn : pc[t] # "new" => states[ctx[t].gateway].state # "missing"

\* What RecordOutcome is about to save, next to the record it will replace.
Due(t, s, n) ==
    \/ /\ s.state = "healthy" /\ n.state \in {"healthy", "unhealthy"}
       /\ n.state = "unhealthy" => n.unhealthyUntil = ctx[t].now + Cooldown
    \/ s.state = "unhealthy" /\ n = s
    \/ /\ s.state = "unhealthy" /\ n.state = "half_open"
       /\ n.unhealthyUntil = s.unhealthyUntil
    \/ /\ s.state = "half_open" /\ ctx[t].probe # 0
       /\ n.state = IF ctx[t].status = "success" THEN "healthy" ELSE "unhealthy"
       /\ n.state = "unhealthy" => n.unhealthyUntil = ctx[t].now + Cooldown
       /\ HalfOpenProbeCount = 1 => s.probes = {}

\* The record a callback has read is still the stored one.
OutcomesDue ==
    \A t \in Txn :
        /\ pc[t] \in {"stats", "drop"} => ctx[t].state = states[ctx[t].gateway]
        /\ pc[t] = "save" => Due(t, states[ctx[t].gateway], ctx[t].state)

SerialInv == HealthInv /\ AtMostOneCall /\ SlotsOwned /\ GatewaysKnown /\ OutcomesDue

-----------------------------------------------------------------------------
(* The invariant of one replica.                                           *)

OneReplica == \A q, r \in Replica : q = r

\* Two copies of a record that differ at most in their slots.
Agree(s, u) == s.state = u.state /\ s.unhealthyUntil = u.unhealthyUntil

\* What a call is about to put in the cache agrees with the stored record,
\* and PrepareForRouting only opens a gateway that is stored unhealthy.
FramesAgree ==
    /\ \A r \in Replica :
         /\ prep[r].pc \notin {"idle", "read", "load"} =>
              states[prep[r].gateway].state # "missing"
         /\ prep[r].pc \in {"fill", "saved", "pruned"} =>
              Agree(prep[r].state, states[prep[r].gateway])
         /\ prep[r].pc = "save" =>
              /\ states[prep[r].gateway].state = "unhealthy"
              /\ states[prep[r].gateway].unhealthyUntil = prep[r].state.unhealthyUntil
    /\ \A o \in Observer : look[o].pc \in {"prune", "cache"} =>
         /\ states[look[o].gateway].state # "missing"
         /\ Agree(look[o].state, states[look[o].gateway])
    /\ \A t \in Txn : pc[t] \in {"acquired", "denied", "released", "cache"} =>
         Agree(ctx[t].state, states[ctx[t].gateway])

\* A call that has changed the stored state of the gateway and not yet the
\* cache.
Changing(g) ==
    \/ \E r \in Replica : prep[r].pc = "saved" /\ prep[r].gateway = g
    \/ \E t \in Txn : pc[t] = "cache" /\ ctx[t].gateway = g

\* The replica's cache agrees with the repository between such calls, and
\* never holds a missing record.
CacheAgrees ==
    \A r \in Replica, g \in Gateway : stateCache[r][g].expiresAt # 0 =>
        /\ stateCache[r][g].state.state # "missing"
        /\ states[g].state # "missing"
        /\ ~ Changing(g) => Agree(stateCache[r][g].state, states[g])

ReplicaInv == FramesAgree /\ CacheAgrees

-----------------------------------------------------------------------------
(* The invariant of the probe limit.                                       *)

\* The configurations in which a slot does not outlive the round of probes
\* it was granted in.
SlotsOutlived == ProbeTimeout <= Cooldown \/ HalfOpenProbeCount = 1

\* No slot reaches further than one probe timeout past the last admission.
ProbesTimely ==
    \A t \in Txn :
        /\ ctx[t].probe <= clock + ProbeTimeout
        /\ \A u \in Txn : pc[u] \in Recording =>
             ctx[t].probe <= ctx[u].now + ProbeTimeout

\* A probe in flight has its slot, or its timeout has passed, or it will have
\* passed when the gateway next becomes half-open.
Backed(t) ==
    \/ [txn |-> t, expiresAt |-> ctx[t].probe] \in states[ctx[t].gateway].probes
    \/ ctx[t].probe <= clock
    \/ /\ ProbeTimeout <= Cooldown
       /\ \/ states[ctx[t].gateway].state = "healthy"
          \/ /\ states[ctx[t].gateway].state = "unhealthy"
             /\ ctx[t].probe <= states[ctx[t].gateway].unhealthyUntil

ProbesBacked ==
    \A t \in Txn :
        pc[t] \in {"acquired", "initiating", "pending"} /\ ctx[t].probe # 0
        => Backed(t)

LimitInv == ProbesTimely /\ ProbesBacked

-----------------------------------------------------------------------------
(* Who moves, who writes.                                                  *)

Active == Selecting \cup Releasing \cup Recording

\* The steps of one payment.
Moves(t) ==
    \/ InitiateStep(t) \/ OutcomeStep(t) \/ InitiateFails(t)
    \/ \E r \in Replica, g \in Gateway : MarkProbeSelected(t, r, g) \/ Route(t, r, g)
    \/ \E r \in Replica, s \in Status : RecordOutcome(t, r, s)

\* The steps that write the repository.
PrepareWrites(r) == LoadState(r) \/ SaveHalfOpen(r) \/ PruneForRouting(r)
LookWrites(o) == LookLoad(o) \/ LookPrune(o)
PaymentWrites(t) ==
    TryAcquire(t) \/ ReleaseProbe(t) \/ OutcomeRelease(t) \/ OutcomeSave(t)

\* A serial step is a step of the service.
LEMMA SerialIsNext == [SerialNext]_vars => [Next]_vars
BY DEF SerialNext, PaymentsSucceedStep, Next

\* One call in progress excludes every other.
LEMMA OneCall ==
    AtMostOneCall =>
        /\ \A t, u \in Txn : pc[t] \in Active /\ pc[u] \in Active => t = u
        /\ \A q, r \in Replica : prep[q].pc # "idle" /\ prep[r].pc # "idle" => q = r
        /\ \A o, p \in Observer : look[o].pc # "idle" /\ look[p].pc # "idle" => o = p
        /\ \A t \in Txn, r \in Replica : ~ (pc[t] \in Active /\ prep[r].pc # "idle")
        /\ \A t \in Txn, o \in Observer : ~ (pc[t] \in Active /\ look[o].pc # "idle")
        /\ \A r \in Replica, o \in Observer :
              ~ (prep[r].pc # "idle" /\ look[o].pc # "idle")
<1> SUFFICES ASSUME AtMostOneCall
             PROVE  /\ \A t, u \in Txn : pc[t] \in Active /\ pc[u] \in Active => t = u
                    /\ \A q, r \in Replica :
                          prep[q].pc # "idle" /\ prep[r].pc # "idle" => q = r
                    /\ \A o, p \in Observer :
                          look[o].pc # "idle" /\ look[p].pc # "idle" => o = p
                    /\ \A t \in Txn, r \in Replica :
                          ~ (pc[t] \in Active /\ prep[r].pc # "idle")
                    /\ \A t \in Txn, o \in Observer :
                          ~ (pc[t] \in Active /\ look[o].pc # "idle")
                    /\ \A r \in Replica, o \in Observer :
                          ~ (prep[r].pc # "idle" /\ look[o].pc # "idle")
    OBVIOUS
<1>1. \A t \in Txn : pc[t] \in Active => <<"payment", t>> \in Calls
    BY DEF Active, Calls
<1>2. \A r \in Replica : prep[r].pc # "idle" => <<"prepare", r>> \in Calls
    BY DEF Calls
<1>3. \A o \in Observer : look[o].pc # "idle" => <<"state", o>> \in Calls
    BY DEF Calls
<1>4. \A c, d \in Calls : c = d
    BY DEF AtMostOneCall
<1>5. /\ \A a, b : <<"payment", a>> = <<"payment", b>> => a = b
      /\ \A a, b : <<"prepare", a>> = <<"prepare", b>> => a = b
      /\ \A a, b : <<"state", a>> = <<"state", b>> => a = b
      /\ \A a, b : <<"payment", a>> # <<"prepare", b>>
      /\ \A a, b : <<"payment", a>> # <<"state", b>>
      /\ \A a, b : <<"prepare", a>> # <<"state", b>>
    OBVIOUS
<1>6. \A t, u \in Txn : pc[t] \in Active /\ pc[u] \in Active => t = u
    BY <1>1, <1>4, <1>5
<1>7. \A q, r \in Replica : prep[q].pc # "idle" /\ prep[r].pc # "idle" => q = r
    BY <1>2, <1>4, <1>5
<1>8. \A o, p \in Observer : look[o].pc # "idle" /\ look[p].pc # "idle" => o = p
    BY <1>3, <1>4, <1>5
<1>9. \A t \in Txn, r \in Replica : ~ (pc[t] \in Active /\ prep[r].pc # "idle")
    BY <1>1, <1>2, <1>4, <1>5
<1>10. \A t \in Txn, o \in Observer : ~ (pc[t] \in Active /\ look[o].pc # "idle")
    BY <1>1, <1>3, <1>4, <1>5
<1>11. \A r \in Replica, o \in Observer :
          ~ (prep[r].pc # "idle" /\ look[o].pc # "idle")
    BY <1>2, <1>3, <1>4, <1>5
<1> QED BY <1>6, <1>7, <1>8, <1>9, <1>10, <1>11

\* Every step leaves a payment's handler alone or is a step of it.
LEMMA PaymentMoves ==
    ASSUME TypeOK, [SerialNext]_vars, NEW t \in Txn
    PROVE  Moves(t) \/ (pc'[t] = pc[t] /\ ctx'[t] = ctx[t])
<1> DEFINE Still == pc'[t] = pc[t] /\ ctx'[t] = ctx[t]
           Goal == Moves(t) \/ Still
<1> SUFFICES Goal
    OBVIOUS
<1>d. ctx \in [Txn -> Ctx] /\ pc \in [Txn -> TxnPC]
    BY DEF TypeOK
<1>1. ASSUME pc' = pc, ctx' = ctx PROVE Goal
    BY <1>1
<1>2. ASSUME NEW u \in Txn, InitiateStep(u) \/ OutcomeStep(u) \/ InitiateFails(u)
      PROVE  Goal
    <2>1. CASE u = t
        BY <1>2, <2>1 DEF Moves
    <2>2. CASE u # t
        <3>1. CASE InitiateStep(u)
            BY <3>1, <2>2, <1>d DEF InitiateStep, TryAcquire, CacheAcquired,
                Initiated, ReleaseProbe, CacheReleased
        <3>2. CASE OutcomeStep(u)
            BY <3>2, <2>2, <1>d DEF OutcomeStep, OutcomeEvent, OutcomeGet,
                OutcomeStats, OutcomeRelease, OutcomeSave, OutcomeCache
        <3>3. CASE InitiateFails(u)
            BY <3>3, <2>2, <1>d DEF InitiateFails
        <3> QED BY <1>2, <3>1, <3>2, <3>3
    <2> QED BY <2>1, <2>2
<1>3. ASSUME NEW u \in Txn, NEW r \in Replica, NEW g \in Gateway,
             MarkProbeSelected(u, r, g) \/ Route(u, r, g)
      PROVE  Goal
    <2>1. CASE u = t
        BY <1>3, <2>1 DEF Moves
    <2>2. CASE u # t
        BY <1>3, <2>2, <1>d DEF MarkProbeSelected, Route
    <2> QED BY <2>1, <2>2
<1>4. ASSUME NEW u \in Txn, NEW r \in Replica, NEW s \in Status, RecordOutcome(u, r, s)
      PROVE  Goal
    <2>1. CASE u = t
        BY <1>4, <2>1 DEF Moves
    <2>2. CASE u # t
        BY <1>4, <2>2, <1>d DEF RecordOutcome
    <2> QED BY <2>1, <2>2
<1>5. ASSUME NEW r \in Replica, PrepareStep(r) PROVE Goal
    BY <1>5, <1>1 DEF PrepareStep, ReadCache, LoadState, FillCache, SaveHalfOpen,
        CacheHalfOpen, PruneForRouting, CachePruned, PrepareReturns
<1>6. ASSUME NEW o \in Observer, LookStep(o) \/ LookFails(o)
      PROVE  Goal
    BY <1>6, <1>1 DEF LookStep, LookLoad, LookPrune, LookCache, LookFails
<1>7. CASE Tick
    BY <1>7, <1>1 DEF Tick
<1>u. CASE UNCHANGED vars
    BY <1>u, <1>1 DEF vars
<1>8. ASSUME NEW r \in Replica, NEW g \in Gateway, PrepareForRouting(r, g)
      PROVE  Goal
    BY <1>8, <1>1 DEF PrepareForRouting
<1>9. ASSUME NEW o \in Observer, NEW r \in Replica, NEW g \in Gateway, State(o, r, g)
      PROVE  Goal
    BY <1>9, <1>1 DEF State
<1> HIDE DEF Goal
<1> QED BY <1>2, <1>3, <1>4, <1>5, <1>6, <1>7, <1>8, <1>9, <1>u
    DEF SerialNext, PaymentsSucceedStep

\* Every step leaves the stored records alone or is one of the writes.
LEMMA Writers ==
    ASSUME [SerialNext]_vars
    PROVE  \/ states' = states
           \/ \E r \in Replica : PrepareWrites(r)
           \/ \E o \in Observer : LookWrites(o)
           \/ \E t \in Txn : PaymentWrites(t)
<1> DEFINE Goal == \/ states' = states
                   \/ \E r \in Replica : PrepareWrites(r)
                   \/ \E o \in Observer : LookWrites(o)
                   \/ \E t \in Txn : PaymentWrites(t)
<1> SUFFICES Goal
    OBVIOUS
<1>1. ASSUME NEW r \in Replica, PrepareStep(r) PROVE Goal
    BY <1>1 DEF PrepareStep, ReadCache, FillCache, CacheHalfOpen, CachePruned,
        PrepareReturns, store, PrepareWrites
<1>2. ASSUME NEW o \in Observer, LookStep(o) \/ LookFails(o) PROVE Goal
    BY <1>2 DEF LookStep, LookCache, LookFails, store, LookWrites
<1>3. ASSUME NEW t \in Txn, InitiateStep(t) \/ OutcomeStep(t) \/ InitiateFails(t)
      PROVE  Goal
    BY <1>3 DEF InitiateStep, OutcomeStep, CacheAcquired, Initiated, CacheReleased,
        InitiateFails, OutcomeEvent, OutcomeGet, OutcomeStats, OutcomeCache, store,
        PaymentWrites
<1>4. ASSUME NEW t \in Txn, NEW r \in Replica, NEW g \in Gateway,
             MarkProbeSelected(t, r, g) \/ Route(t, r, g)
      PROVE  Goal
    BY <1>4 DEF MarkProbeSelected, Route, store
<1>5. ASSUME NEW t \in Txn, NEW r \in Replica, NEW s \in Status, RecordOutcome(t, r, s)
      PROVE  Goal
    BY <1>5 DEF RecordOutcome, store
<1>6. CASE Tick
    BY <1>6 DEF Tick
<1>u. CASE UNCHANGED vars
    BY <1>u DEF vars
<1>7. ASSUME NEW r \in Replica, NEW g \in Gateway, PrepareForRouting(r, g)
      PROVE  Goal
    BY <1>7 DEF PrepareForRouting, store
<1>8. ASSUME NEW o \in Observer, NEW r \in Replica, NEW g \in Gateway, State(o, r, g)
      PROVE  Goal
    BY <1>8 DEF State, store
<1> HIDE DEF Goal
<1> QED BY <1>1, <1>2, <1>3, <1>4, <1>5, <1>6, <1>7, <1>8, <1>u
    DEF SerialNext, PaymentsSucceedStep

\* While a call is in progress, only that call writes.
LEMMA LoneWriter ==
    ASSUME AtMostOneCall, [SerialNext]_vars
    PROVE  /\ \A t \in Txn : pc[t] \in Active => states' = states \/ PaymentWrites(t)
           /\ \A r \in Replica : prep[r].pc # "idle" =>
                 states' = states \/ PrepareWrites(r)
           /\ \A o \in Observer : look[o].pc # "idle" =>
                 states' = states \/ LookWrites(o)
<1>1. \A t \in Txn : PaymentWrites(t) => pc[t] \in Active
    BY DEF PaymentWrites, TryAcquire, ReleaseProbe, OutcomeRelease, OutcomeSave,
        Active, Selecting, Releasing, Recording
<1>2. \A r \in Replica : PrepareWrites(r) => prep[r].pc # "idle"
    BY DEF PrepareWrites, LoadState, SaveHalfOpen, PruneForRouting
<1>3. \A o \in Observer : LookWrites(o) => look[o].pc # "idle"
    BY DEF LookWrites, LookLoad, LookPrune
<1> QED BY <1>1, <1>2, <1>3, Writers, OneCall
-----------------------------------------------------------------------------
(* What a write does to the stored record.                                 *)

\* A slot is dropped only when its timeout has passed.
KeepsLive(g) ==
    \A p \in states[g].probes : p \in states'[g].probes \/ p.expiresAt <= clock

\* PruneExpiredHalfOpenProbes drops nothing else.
LEMMA PruneKeeps ==
    ASSUME NEW s \in RuntimeState, NEW now \in Nat
    PROVE  \A p \in s.probes :
              \/ p \in PruneExpiredHalfOpenProbes(s, now).probes
              \/ p.expiresAt <= now
<1>1. \A p \in s.probes : p \in LiveProbes(s.probes, now) \/ p.expiresAt <= now
    BY DEF RuntimeState, Probe, LiveProbes
<1>2. PruneExpiredHalfOpenProbes(s, now).probes \in {s.probes, LiveProbes(s.probes, now)}
    BY DEF PruneExpiredHalfOpenProbes, pruneExpiredHalfOpenProbes, RuntimeState
<1> QED BY <1>1, <1>2

\* TryAcquireHalfOpenProbe drops nothing else and adds the caller's slot when
\* it reports that it did.
LEMMA AcquireKeeps ==
    ASSUME NEW s \in RuntimeState, NEW now \in Nat, NEW t, NEW e
    PROVE  LET r == TryAcquireHalfOpenProbe(s, t, HalfOpenProbeCount, e, now)
               P == [txn |-> t, expiresAt |-> e]
           IN  /\ \A p \in s.probes : p \in r.probes \/ p.expiresAt <= now
               /\ ProbeAvailable(s, HalfOpenProbeCount, now) =>
                    /\ P \in r.probes
                    /\ \A p \in r.probes : p \in s.probes \/ p = P
               /\ ~ ProbeAvailable(s, HalfOpenProbeCount, now) =>
                    r.probes \subseteq s.probes
<1> DEFINE L == LiveProbes(s.probes, now)
           P == [txn |-> t, expiresAt |-> e]
           r == TryAcquireHalfOpenProbe(s, t, HalfOpenProbeCount, e, now)
<1>1. /\ \A p \in s.probes : p \in L \/ p.expiresAt <= now
      /\ L \subseteq s.probes
    BY DEF RuntimeState, Probe, LiveProbes
<1>2. CASE ~ ProbeAvailable(s, HalfOpenProbeCount, now)
    <2>1. r = PruneExpiredHalfOpenProbes(s, now)
        BY <1>2 DEF TryAcquireHalfOpenProbe
    <2>2. r.probes = s.probes \/ r.probes = L
        BY <2>1 DEF PruneExpiredHalfOpenProbes, pruneExpiredHalfOpenProbes, RuntimeState
    <2> QED BY <1>1, <1>2, <2>2
<1>3. CASE ProbeAvailable(s, HalfOpenProbeCount, now)
    <2>1. r.probes = L \cup {P}
        BY <1>3 DEF TryAcquireHalfOpenProbe, AddProbe, RuntimeState
    <2> QED BY <1>1, <1>3, <2>1
<1> QED BY <1>2, <1>3

\* ReleaseHalfOpenProbe drops nothing else but the caller's slot; the caller
\* that held the only slot there may be leaves none.
LEMMA ReleaseKeeps ==
    ASSUME NEW s \in RuntimeState, LedgerOK(s), NEW now \in Nat, NEW t
    PROVE  LET r == ReleaseHalfOpenProbe(s, t, now)
           IN  /\ \A p \in s.probes :
                     p \in r.probes \/ p.expiresAt <= now \/ p.txn = t
               /\ HoldsProbe(s, t, now) =>
                    /\ s.state = "half_open"
                    /\ \E p \in s.probes : p.txn = t
                    /\ HalfOpenProbeCount = 1 => r.probes = {}
<1> DEFINE L == LiveProbes(s.probes, now)
           r == ReleaseHalfOpenProbe(s, t, now)
<1>1. /\ \A p \in s.probes : p \in L \/ p.expiresAt <= now
      /\ L \subseteq s.probes
    BY DEF RuntimeState, Probe, LiveProbes
<1>2. /\ s.state = "half_open" => r.probes = {p \in L : p.txn # t}
      /\ s.state # "half_open" => r = s
    BY DEF ReleaseHalfOpenProbe, DropProbe, RuntimeState
<1>3. ASSUME HoldsProbe(s, t, now)
      PROVE  /\ s.state = "half_open"
             /\ \E p \in s.probes : p.txn = t
             /\ HalfOpenProbeCount = 1 => r.probes = {}
    <2>1. PICK p \in s.probes : p.txn = t
        BY <1>1, <1>3 DEF HoldsProbe
    <2>2. s.state = "half_open"
        BY <1>3 DEF HoldsProbe
    <2>3. ASSUME HalfOpenProbeCount = 1 PROVE r.probes = {}
        <3>1. /\ IsFiniteSet(s.probes) /\ s.inFlight = Cardinality(s.probes)
              /\ s.inFlight <= 1
            BY <2>3 DEF LedgerOK
        <3>2. Cardinality(s.probes) \in Nat /\ Cardinality(s.probes) # 0
            BY <2>1, <3>1, FS_CardinalityType, FS_EmptySet
        <3>3. Cardinality(s.probes) = 1
            BY <3>1, <3>2
        <3>4. PICK q : s.probes = {q}
            BY <3>1, <3>3, FS_Singleton
        <3> QED BY <1>1, <1>2, <2>1, <2>2, <3>4
    <2> QED BY <2>1, <2>2, <2>3
<1>4. \A p \in s.probes : p \in r.probes \/ p.expiresAt <= now \/ p.txn = t
    BY <1>1, <1>2
<1> QED BY <1>3, <1>4

\* The slots a write may touch.
Trims(g) ==
    /\ Agree(states'[g], states[g])
    /\ states'[g].probes \subseteq states[g].probes
    /\ KeepsLive(g)

Acquires(t, g) ==
    /\ TryAcquire(t) /\ ctx[t].gateway = g
    /\ Agree(states'[g], states[g])
    /\ KeepsLive(g)
    /\ \A p \in states'[g].probes :
          \/ p \in states[g].probes
          \/ /\ p = [txn |-> t, expiresAt |-> ctx'[t].probe]
             /\ ctx'[t].probe # 0

Releases(t, g) ==
    /\ ReleaseProbe(t) \/ OutcomeRelease(t)
    /\ ctx[t].gateway = g
    /\ Agree(states'[g], states[g])
    /\ states'[g].probes \subseteq states[g].probes
    /\ \A p \in states[g].probes :
          p \in states'[g].probes \/ p.expiresAt <= clock \/ p.txn = t

Opens(r, g) ==
    SaveHalfOpen(r) /\ prep[r].gateway = g /\ states'[g] = prep[r].state

Decides(t, g) ==
    OutcomeSave(t) /\ ctx[t].gateway = g /\ states'[g] = ctx[t].state

\* Every way a step may change the record of a gateway.
LEMMA WriteFacts ==
    ASSUME HealthInv, [SerialNext]_vars, NEW g \in Gateway
    PROVE  \/ states'[g] = states[g]
           \/ states[g] = NoState /\ states'[g] = NewState
           \/ Trims(g)
           \/ \E r \in Replica : Opens(r, g)
           \/ \E t \in Txn : Acquires(t, g) \/ Releases(t, g) \/ Decides(t, g)
<1> DEFINE Goal == \/ states'[g] = states[g]
                   \/ states[g] = NoState /\ states'[g] = NewState
                   \/ Trims(g)
                   \/ \E r \in Replica : Opens(r, g)
                   \/ \E t \in Txn : Acquires(t, g) \/ Releases(t, g) \/ Decides(t, g)
<1> SUFFICES Goal
    OBVIOUS
<1>f. FramesOK
    BY FrameFacts
<1>d. /\ states \in [Gateway -> RuntimeState]
      /\ ctx \in [Txn -> Ctx] /\ pc \in [Txn -> TxnPC]
    BY DEF HealthInv, TypeOK
<1>g. /\ states[g] \in RuntimeState /\ LedgerOK(states[g]) /\ clock \in Nat
      /\ \A p \in states[g].probes : p.expiresAt \in Nat
    BY <1>f DEF FramesOK, RuntimeState, Probe
<1>a. \A a, b, c \in Nat : a <= b /\ b <= c => a <= c
    OBVIOUS
<1>p. \A h \in Gateway, s \in RuntimeState :
        Put(h, s) => states'[g] = IF h = g THEN s ELSE states[g]
    BY <1>d DEF Put
<1>e. ASSUME NEW h \in Gateway, Put(h, Ensure(states[h])) PROVE Goal
    <2>1. Ensure(states[h]) \in RuntimeState
        BY <1>d, EnsureType
    <2> QED BY <2>1, <1>e, <1>p DEF Ensure
<1>r. ASSUME NEW h \in Gateway, NEW now \in Nat, now <= clock,
             Put(h, PruneExpiredHalfOpenProbes(states[h], now))
      PROVE  Goal
    <2>1. CASE h # g
        <3>1. PruneExpiredHalfOpenProbes(states[h], now) \in RuntimeState
            BY <1>f, PruneFact DEF FramesOK
        <3> QED BY <1>p, <1>r, <2>1, <3>1
    <2>2. CASE h = g
        <3> DEFINE s == PruneExpiredHalfOpenProbes(states[g], now)
        <3>1. /\ s \in RuntimeState
              /\ s.state = states[g].state
              /\ s.unhealthyUntil = states[g].unhealthyUntil
              /\ s.probes \subseteq states[g].probes
            BY <1>g, PruneFact
        <3>2. \A p \in states[g].probes : p \in s.probes \/ p.expiresAt <= now
            BY <1>g, PruneKeeps
        <3>3. Put(g, s)
            BY <1>r, <2>2
        <3> HIDE DEF s
        <3>4. states'[g] = s
            BY <1>p, <3>1, <3>3
        <3> QED BY <1>a, <1>g, <1>r, <3>1, <3>2, <3>4 DEF Trims, KeepsLive, Agree
    <2> QED BY <2>1, <2>2
<1>1. ASSUME NEW r \in Replica, PrepareWrites(r) PROVE Goal
    <2>f. /\ prep[r].gateway \in Gateway /\ prep[r].now \in Nat
          /\ prep[r].now <= clock /\ prep[r].state \in RuntimeState
        BY <1>f DEF FramesOK
    <2>1. CASE LoadState(r)
        BY <2>1, <2>f, <1>e DEF LoadState
    <2>2. CASE SaveHalfOpen(r)
        <3>1. Put(prep[r].gateway, prep[r].state)
            BY <2>2 DEF SaveHalfOpen
        <3>2. states'[g] = IF prep[r].gateway = g THEN prep[r].state ELSE states[g]
            BY <3>1, <2>f, <1>p
        <3> QED BY <3>2, <2>2 DEF Opens
    <2>3. CASE PruneForRouting(r)
        BY <2>3, <2>f, <1>r DEF PruneForRouting
    <2> QED BY <1>1, <2>1, <2>2, <2>3 DEF PrepareWrites
<1>2. ASSUME NEW o \in Observer, LookWrites(o) PROVE Goal
    <2>f. look[o].gateway \in Gateway /\ look[o].now \in Nat /\ look[o].now <= clock
        BY <1>f DEF FramesOK
    <2>1. CASE LookLoad(o)
        BY <2>1, <2>f, <1>e DEF LookLoad
    <2>2. CASE LookPrune(o)
        BY <2>2, <2>f, <1>r DEF LookPrune
    <2> QED BY <1>2, <2>1, <2>2 DEF LookWrites
<1>3. ASSUME NEW t \in Txn, TryAcquire(t) PROVE Goal
    <2> DEFINE h == ctx[t].gateway
               now == ctx[t].now
               e == now + ProbeTimeout
               s == TryAcquireHalfOpenProbe(states[h], t, HalfOpenProbeCount, e, now)
               a == ProbeAvailable(states[h], HalfOpenProbeCount, now)
    <2>1. /\ h \in Gateway /\ now \in Nat /\ now <= clock /\ e \in Nat /\ e # 0
          /\ states[h] \in RuntimeState /\ LedgerOK(states[h]) /\ ctx[t] \in Ctx
        BY <1>f, ConfigAssumption DEF FramesOK
    <2>2. Put(h, s)
        BY <1>3 DEF TryAcquire
    <2>3. ctx'[t].probe = IF a THEN e ELSE 0
        BY <1>3, <1>d, <2>1 DEF TryAcquire, Ctx
    <2>4. /\ s \in RuntimeState /\ s.state = states[h].state
          /\ s.unhealthyUntil = states[h].unhealthyUntil
        BY <2>1, AcquireFact
    <2> HIDE DEF h, now, e
    <2>5. /\ \A p \in states[h].probes : p \in s.probes \/ p.expiresAt <= now
          /\ a => \A p \in s.probes :
                     p \in states[h].probes \/ p = [txn |-> t, expiresAt |-> e]
          /\ ~ a => s.probes \subseteq states[h].probes
        BY <2>1, AcquireKeeps
    <2> HIDE DEF s, a
    <2>6. states'[g] = IF h = g THEN s ELSE states[g]
        BY <1>p, <2>1, <2>2, <2>4
    <2>7. CASE h = g
        <3>1. ctx[t].gateway = g /\ states'[g] = s
            BY <2>6, <2>7 DEF h
        <3>2. KeepsLive(g)
            BY <1>a, <1>g, <2>1, <2>5, <2>7, <3>1 DEF KeepsLive
        <3>3. \A p \in s.probes :
                \/ p \in states[g].probes
                \/ p = [txn |-> t, expiresAt |-> ctx'[t].probe] /\ ctx'[t].probe # 0
            BY <2>1, <2>3, <2>5, <2>7
        <3> QED BY <1>3, <2>4, <2>7, <3>1, <3>2, <3>3 DEF Acquires, Agree
    <2> QED BY <2>6, <2>7
<1>4. ASSUME NEW t \in Txn, ReleaseProbe(t) \/ OutcomeRelease(t) PROVE Goal
    <2> DEFINE h == ctx[t].gateway
               now == ctx[t].now
               s == ReleaseHalfOpenProbe(states[h], t, now)
    <2>1. /\ h \in Gateway /\ now \in Nat /\ now <= clock
          /\ states[h] \in RuntimeState /\ LedgerOK(states[h])
        BY <1>f DEF FramesOK
    <2>2. Put(h, s)
        BY <1>4 DEF ReleaseProbe, OutcomeRelease
    <2>3. /\ s \in RuntimeState /\ s.state = states[h].state
          /\ s.unhealthyUntil = states[h].unhealthyUntil
          /\ s.probes \subseteq states[h].probes
        BY <2>1, ReleaseFact
    <2>4. \A p \in states[h].probes : p \in s.probes \/ p.expiresAt <= now \/ p.txn = t
        BY <2>1, ReleaseKeeps
    <2> HIDE DEF h, now, s
    <2>5. states'[g] = IF h = g THEN s ELSE states[g]
        BY <1>p, <2>1, <2>2, <2>3
    <2>6. CASE h = g
        <3>1. ctx[t].gateway = g /\ states'[g] = s
            BY <2>5, <2>6 DEF h
        <3>2. \A p \in states[g].probes :
                p \in states'[g].probes \/ p.expiresAt <= clock \/ p.txn = t
            BY <1>a, <1>g, <2>1, <2>4, <2>6, <3>1
        <3> QED BY <1>4, <2>3, <2>6, <3>1, <3>2 DEF Releases, Agree
    <2> QED BY <2>5, <2>6
<1>5. ASSUME NEW t \in Txn, OutcomeSave(t) PROVE Goal
    <2>1. ctx[t].gateway \in Gateway /\ ctx[t].state \in RuntimeState
        BY <1>f DEF FramesOK
    <2>2. Put(ctx[t].gateway, ctx[t].state)
        BY <1>5 DEF OutcomeSave
    <2>3. states'[g] = IF ctx[t].gateway = g THEN ctx[t].state ELSE states[g]
        BY <1>p, <2>1, <2>2
    <2> QED BY <1>5, <2>3 DEF Decides
<1>6. ASSUME states' = states PROVE Goal
    BY <1>6
<1> HIDE DEF Goal
<1> QED BY <1>1, <1>2, <1>3, <1>4, <1>5, <1>6, Writers DEF PaymentWrites

\* What each step of a payment does to its handler, field by field.
LEMMA PaymentFacts ==
    ASSUME HealthInv, NEW t \in Txn
    PROVE
    /\ TryAcquire(t) =>
         /\ pc[t] = "acquire" /\ ctx'[t].gateway = ctx[t].gateway
         /\ ctx'[t].now = ctx[t].now
         /\ ctx'[t].state = states'[ctx[t].gateway]
         /\ \/ /\ pc'[t] = "acquired" /\ ctx'[t].probe = ctx[t].now + ProbeTimeout
               /\ [txn |-> t, expiresAt |-> ctx'[t].probe] \in
                     states'[ctx[t].gateway].probes
            \/ pc'[t] = "denied" /\ ctx'[t].probe = 0
    /\ CacheAcquired(t) =>
         /\ \/ pc[t] = "acquired" /\ pc'[t] = "initiating"
            \/ pc[t] = "denied" /\ pc'[t] = "fallback"
         /\ ctx'[t].gateway = ctx[t].gateway /\ ctx'[t].probe = ctx[t].probe
    /\ Initiated(t) =>
         pc[t] = "initiating" /\ pc'[t] = "pending" /\ ctx'[t] = ctx[t]
    /\ InitiateFails(t) =>
         /\ pc[t] = "initiating" /\ pc'[t] \in {"release", "failed"}
         /\ ctx'[t].gateway = ctx[t].gateway /\ ctx'[t].probe = ctx[t].probe
    /\ ReleaseProbe(t) =>
         /\ pc[t] = "release" /\ pc'[t] = "released"
         /\ ctx'[t].gateway = ctx[t].gateway /\ ctx'[t].probe = ctx[t].probe
         /\ ctx'[t].state = states'[ctx[t].gateway]
    /\ CacheReleased(t) =>
         /\ pc[t] = "released" /\ pc'[t] = "failed"
         /\ ctx'[t].gateway = ctx[t].gateway /\ ctx'[t].probe = ctx[t].probe
<1>d. /\ states \in [Gateway -> RuntimeState]
      /\ ctx \in [Txn -> Ctx] /\ pc \in [Txn -> TxnPC]
    BY DEF HealthInv, TypeOK
<1>f. /\ ctx[t] \in Ctx /\ ctx[t].gateway \in Gateway
      /\ ctx[t].now \in Nat /\ states[ctx[t].gateway] \in RuntimeState
      /\ LedgerOK(states[ctx[t].gateway])
    BY FrameFacts DEF FramesOK
<1>1. ASSUME TryAcquire(t)
      PROVE  /\ pc[t] = "acquire" /\ ctx'[t].gateway = ctx[t].gateway
             /\ ctx'[t].now = ctx[t].now
             /\ ctx'[t].state = states'[ctx[t].gateway]
             /\ \/ /\ pc'[t] = "acquired"
                   /\ ctx'[t].probe = ctx[t].now + ProbeTimeout
                   /\ [txn |-> t, expiresAt |-> ctx'[t].probe] \in
                         states'[ctx[t].gateway].probes
                \/ pc'[t] = "denied" /\ ctx'[t].probe = 0
    <2> DEFINE h == ctx[t].gateway
               now == ctx[t].now
               e == now + ProbeTimeout
               s == TryAcquireHalfOpenProbe(states[h], t, HalfOpenProbeCount, e, now)
               a == ProbeAvailable(states[h], HalfOpenProbeCount, now)
    <2>1. /\ ctx'[t].probe = IF a THEN e ELSE 0
          /\ ctx'[t].state = s /\ ctx'[t].gateway = h /\ ctx'[t].now = now
          /\ pc'[t] = IF a THEN "acquired" ELSE "denied"
          /\ pc[t] = "acquire" /\ Put(h, s)
        BY <1>1, <1>d, <1>f DEF TryAcquire, Ctx
    <2>2. now \in Nat /\ states[h] \in RuntimeState /\ h \in Gateway
        BY <1>f
    <2> HIDE DEF h, now, e
    <2>3. a => [txn |-> t, expiresAt |-> e] \in s.probes
        BY <2>2, AcquireKeeps
    <2> HIDE DEF s, a
    <2>4. states'[h] = s
        BY <2>1, <2>2, <1>d DEF Put
    <2> QED BY <2>1, <2>3, <2>4 DEF h, now, e
<1>2. ASSUME CacheAcquired(t)
      PROVE  /\ \/ pc[t] = "acquired" /\ pc'[t] = "initiating"
                \/ pc[t] = "denied" /\ pc'[t] = "fallback"
             /\ ctx'[t].gateway = ctx[t].gateway /\ ctx'[t].probe = ctx[t].probe
    BY <1>2, <1>d, <1>f DEF CacheAcquired, Ctx
<1>3. Initiated(t) =>
         pc[t] = "initiating" /\ pc'[t] = "pending" /\ ctx'[t] = ctx[t]
    BY <1>d DEF Initiated
<1>4. InitiateFails(t) =>
         /\ pc[t] = "initiating" /\ pc'[t] \in {"release", "failed"}
         /\ ctx'[t].gateway = ctx[t].gateway /\ ctx'[t].probe = ctx[t].probe
    BY <1>d, <1>f DEF InitiateFails, Ctx
<1>5. ASSUME ReleaseProbe(t)
      PROVE  /\ pc[t] = "release" /\ pc'[t] = "released"
             /\ ctx'[t].gateway = ctx[t].gateway /\ ctx'[t].probe = ctx[t].probe
             /\ ctx'[t].state = states'[ctx[t].gateway]
    <2> DEFINE s == ReleaseHalfOpenProbe(states[ctx[t].gateway], t, ctx[t].now)
    <2>1. /\ pc[t] = "release" /\ pc'[t] = "released"
          /\ ctx'[t].gateway = ctx[t].gateway /\ ctx'[t].probe = ctx[t].probe
          /\ ctx'[t].state = s /\ Put(ctx[t].gateway, s)
        BY <1>5, <1>d, <1>f DEF ReleaseProbe, Ctx
    <2> HIDE DEF s
    <2> QED BY <2>1, <1>d, <1>f DEF Put
<1>6. CacheReleased(t) =>
         /\ pc[t] = "released" /\ pc'[t] = "failed"
         /\ ctx'[t].gateway = ctx[t].gateway /\ ctx'[t].probe = ctx[t].probe
    BY <1>d, <1>f DEF CacheReleased, Ctx
<1> QED BY <1>1, <1>2, <1>3, <1>4, <1>5, <1>6

\* The fields a step of RecordOutcome leaves alone.
SameCall(t) ==
    /\ ctx'[t].gateway = ctx[t].gateway /\ ctx'[t].probe = ctx[t].probe
    /\ ctx'[t].now = ctx[t].now /\ ctx'[t].status = ctx[t].status

\* The same for the steps of a callback, and for the steps that begin a call.
LEMMA OutcomeFacts ==
    ASSUME HealthInv, NEW t \in Txn
    PROVE
    /\ OutcomeEvent(t) => pc[t] = "event" /\ pc'[t] = "get" /\ ctx'[t] = ctx[t]
    /\ OutcomeGet(t) =>
         /\ pc[t] = "get" /\ pc'[t] = "stats" /\ SameCall(t) /\ states' = states
         /\ ctx'[t].state = states[ctx[t].gateway]
    /\ OutcomeStats(t) =>
         /\ pc[t] = "stats" /\ SameCall(t) /\ states' = states
         /\ \/ /\ pc'[t] = "drop" /\ ctx[t].state.state = "half_open"
               /\ ctx'[t].state = ctx[t].state
            \/ /\ pc'[t] = "save" /\ ctx[t].state.state = "unhealthy"
               /\ ctx'[t].state = UnhealthyOutcome(ctx[t].state, ctx[t].now)
            \/ /\ pc'[t] = "save" /\ ctx[t].state.state \notin {"half_open", "unhealthy"}
               /\ \E stats : ctx'[t].state = HealthyOutcome(ctx[t].state, stats, ctx[t].now)
    /\ OutcomeRelease(t) =>
         /\ pc[t] = "drop" /\ SameCall(t)
         /\ states'[ctx[t].gateway] =
              ReleaseHalfOpenProbe(states[ctx[t].gateway], t, ctx[t].now)
         /\ \/ /\ pc'[t] = "save"
               /\ HoldsProbe(states[ctx[t].gateway], t, ctx[t].now)
               /\ ctx'[t].state = ProbeOutcome(states'[ctx[t].gateway], ctx[t].status,
                                               ctx[t].now)
            \/ pc'[t] = "cache" /\ ctx'[t].state = states'[ctx[t].gateway]
    /\ OutcomeSave(t) =>
         /\ pc[t] = "save" /\ pc'[t] = "cache" /\ ctx'[t] = ctx[t]
         /\ states'[ctx[t].gateway] = ctx[t].state
    /\ OutcomeCache(t) =>
         /\ pc[t] = "cache" /\ pc'[t] = "done"
         /\ ctx'[t].gateway = ctx[t].gateway /\ ctx'[t].probe = ctx[t].probe
    /\ \A r \in Replica, g \in Gateway : MarkProbeSelected(t, r, g) =>
         /\ pc[t] = "new" /\ pc'[t] = "acquire" /\ ctx'[t].gateway = g
         /\ ctx'[t].probe = ctx[t].probe /\ states[g] # NoState /\ states' = states
    /\ \A r \in Replica, g \in Gateway : Route(t, r, g) =>
         /\ pc[t] \in {"new", "fallback"} /\ pc'[t] = "initiating"
         /\ ctx'[t].gateway = g /\ ctx'[t].probe = ctx[t].probe
         /\ states[g] # NoState /\ states' = states
    /\ \A r \in Replica, s \in Status : RecordOutcome(t, r, s) =>
         /\ pc[t] \in {"pending", "failed"} /\ pc'[t] = "event"
         /\ ctx'[t].gateway = ctx[t].gateway /\ ctx'[t].probe = ctx[t].probe
         /\ ctx'[t].now = clock
<1>d. /\ states \in [Gateway -> RuntimeState]
      /\ ctx \in [Txn -> Ctx] /\ pc \in [Txn -> TxnPC]
    BY DEF HealthInv, TypeOK
<1>f. /\ ctx[t] \in Ctx /\ ctx[t].gateway \in Gateway
      /\ ctx[t].now \in Nat /\ states[ctx[t].gateway] \in RuntimeState
      /\ LedgerOK(states[ctx[t].gateway])
    BY FrameFacts DEF FramesOK
<1>1. OutcomeEvent(t) => pc[t] = "event" /\ pc'[t] = "get" /\ ctx'[t] = ctx[t]
    BY <1>d DEF OutcomeEvent
<1>2. OutcomeGet(t) =>
         /\ pc[t] = "get" /\ pc'[t] = "stats" /\ SameCall(t) /\ states' = states
         /\ ctx'[t].state = states[ctx[t].gateway]
    BY <1>d, <1>f DEF OutcomeGet, Ctx, SameCall, store
<1>3. ASSUME OutcomeStats(t)
      PROVE  /\ pc[t] = "stats" /\ SameCall(t) /\ states' = states
             /\ \/ /\ pc'[t] = "drop" /\ ctx[t].state.state = "half_open"
                   /\ ctx'[t].state = ctx[t].state
                \/ /\ pc'[t] = "save" /\ ctx[t].state.state = "unhealthy"
                   /\ ctx'[t].state = UnhealthyOutcome(ctx[t].state, ctx[t].now)
                \/ /\ pc'[t] = "save"
                   /\ ctx[t].state.state \notin {"half_open", "unhealthy"}
                   /\ \E stats : ctx'[t].state =
                         HealthyOutcome(ctx[t].state, stats, ctx[t].now)
    <2> DEFINE s == ctx[t].state
               now == ctx[t].now
               stats == StatsSince(events, ctx[t].gateway, now - Window, now)
               n == IF s.state = "unhealthy" THEN UnhealthyOutcome(s, now)
                                             ELSE HealthyOutcome(s, stats, now)
    <2>1. /\ pc[t] = "stats" /\ states' = states
          /\ \/ /\ s.state = "half_open" /\ pc' = [pc EXCEPT ![t] = "drop"] /\ ctx' = ctx
             \/ /\ s.state # "half_open" /\ pc' = [pc EXCEPT ![t] = "save"]
                /\ ctx' = [ctx EXCEPT ![t].state = n]
        BY <1>3 DEF OutcomeStats, store
    <2> HIDE DEF n
    <2>2. CASE s.state = "half_open"
        BY <2>1, <2>2, <1>d DEF SameCall
    <2>3. CASE s.state # "half_open"
        <3>1. pc'[t] = "save" /\ SameCall(t) /\ ctx'[t].state = n
            BY <2>1, <2>3, <1>d, <1>f DEF Ctx, SameCall
        <3> QED BY <2>1, <2>3, <3>1 DEF n
    <2> QED BY <2>2, <2>3
<1>4. ASSUME OutcomeRelease(t)
      PROVE  /\ pc[t] = "drop" /\ SameCall(t)
             /\ states'[ctx[t].gateway] =
                  ReleaseHalfOpenProbe(states[ctx[t].gateway], t, ctx[t].now)
             /\ \/ /\ pc'[t] = "save"
                   /\ HoldsProbe(states[ctx[t].gateway], t, ctx[t].now)
                   /\ ctx'[t].state = ProbeOutcome(states'[ctx[t].gateway],
                                                   ctx[t].status, ctx[t].now)
                \/ pc'[t] = "cache" /\ ctx'[t].state = states'[ctx[t].gateway]
    <2> DEFINE s == ReleaseHalfOpenProbe(states[ctx[t].gateway], t, ctx[t].now)
               b == HoldsProbe(states[ctx[t].gateway], t, ctx[t].now)
               n == IF b THEN ProbeOutcome(s, ctx[t].status, ctx[t].now) ELSE s
    <2>1. /\ pc[t] = "drop" /\ Put(ctx[t].gateway, s)
          /\ pc' = [pc EXCEPT ![t] = IF b THEN "save" ELSE "cache"]
          /\ ctx' = [ctx EXCEPT ![t].state = n]
        BY <1>4 DEF OutcomeRelease
    <2>2. states'[ctx[t].gateway] = s
        BY <2>1, <1>d, <1>f DEF Put
    <2> HIDE DEF n, b
    <2>3. SameCall(t) /\ ctx'[t].state = n /\ pc'[t] = IF b THEN "save" ELSE "cache"
        BY <2>1, <1>d, <1>f DEF Ctx, SameCall
    <2> HIDE DEF s
    <2> QED BY <2>1, <2>2, <2>3 DEF n, b, s
<1>5. OutcomeSave(t) =>
         /\ pc[t] = "save" /\ pc'[t] = "cache" /\ ctx'[t] = ctx[t]
         /\ states'[ctx[t].gateway] = ctx[t].state
    BY <1>d, <1>f DEF OutcomeSave, Put
<1>6. OutcomeCache(t) =>
         /\ pc[t] = "cache" /\ pc'[t] = "done"
         /\ ctx'[t].gateway = ctx[t].gateway /\ ctx'[t].probe = ctx[t].probe
    BY <1>d, <1>f DEF OutcomeCache, Ctx
<1>7. ASSUME NEW r \in Replica, NEW g \in Gateway, MarkProbeSelected(t, r, g)
      PROVE  /\ pc[t] = "new" /\ pc'[t] = "acquire" /\ ctx'[t].gateway = g
             /\ ctx'[t].probe = ctx[t].probe /\ states[g] # NoState /\ states' = states
    BY <1>7, <1>d, <1>f DEF MarkProbeSelected, Ctx, store
<1>8. ASSUME NEW r \in Replica, NEW g \in Gateway, Route(t, r, g)
      PROVE  /\ pc[t] \in {"new", "fallback"} /\ pc'[t] = "initiating"
             /\ ctx'[t].gateway = g /\ ctx'[t].probe = ctx[t].probe
             /\ states[g] # NoState /\ states' = states
    BY <1>8, <1>d, <1>f DEF Route, Ctx, store
<1>9. ASSUME NEW r \in Replica, NEW s \in Status, RecordOutcome(t, r, s)
      PROVE  /\ pc[t] \in {"pending", "failed"} /\ pc'[t] = "event"
             /\ ctx'[t].gateway = ctx[t].gateway /\ ctx'[t].probe = ctx[t].probe
             /\ ctx'[t].now = clock
    BY <1>9, <1>d, <1>f DEF RecordOutcome, Ctx
<1> QED BY <1>1, <1>2, <1>3, <1>4, <1>5, <1>6, <1>7, <1>8, <1>9

-----------------------------------------------------------------------------
(* Serial use preserves its invariant.                                     *)

\* What an outcome saves: RecordOutcome's switch, as a relation.
LEMMA OutcomeShapes ==
    ASSUME NEW s \in RuntimeState, NEW now \in Nat
    PROVE  /\ \A stats :
                LET n == HealthyOutcome(s, stats, now)
                IN  \/ n.state = "healthy"
                    \/ n.state = "unhealthy" /\ n.unhealthyUntil = now + Cooldown
           /\ LET n == UnhealthyOutcome(s, now)
              IN  n = s \/ (n.state = "half_open" /\ n.unhealthyUntil = s.unhealthyUntil)
           /\ \A status :
                LET n == ProbeOutcome(s, status, now)
                IN  /\ n.state = IF status = "success" THEN "healthy" ELSE "unhealthy"
                    /\ n.state = "unhealthy" => n.unhealthyUntil = now + Cooldown
<1>1. ToHealthy(s).state = "healthy"
    BY DEF ToHealthy
<1>2. /\ markUnhealthy(s, now).state = "unhealthy"
      /\ markUnhealthy(s, now).unhealthyUntil = now + Cooldown
    BY DEF markUnhealthy, ToUnhealthy
<1>3. /\ HalfOpenForCallback(s).state = "half_open"
      /\ HalfOpenForCallback(s).unhealthyUntil = s.unhealthyUntil
    BY DEF HalfOpenForCallback, RuntimeState
<1>4. \A stats : \/ HealthyOutcome(s, stats, now) = ToHealthy(s)
                 \/ HealthyOutcome(s, stats, now) = markUnhealthy(s, now)
    BY DEF HealthyOutcome
<1>5. UnhealthyOutcome(s, now) = s \/ UnhealthyOutcome(s, now) = HalfOpenForCallback(s)
    BY DEF UnhealthyOutcome
<1>6. \A status : ProbeOutcome(s, status, now) =
        IF status = "success" THEN ToHealthy(s) ELSE markUnhealthy(s, now)
    BY DEF ProbeOutcome
<1> HIDE DEF HealthyOutcome, UnhealthyOutcome, ProbeOutcome
<1> QED BY <1>1, <1>2, <1>3, <1>4, <1>5, <1>6

\* A record, once created, is never missing again.
LEMMA RecordsStay ==
    ASSUME SerialInv, [SerialNext]_vars, NEW g \in Gateway,
           states[g].state # "missing"
    PROVE  states'[g].state # "missing"
<1>i. HealthInv /\ OutcomesDue /\ RecordsSound
    BY DEF SerialInv, HealthInv
<1>1. CASE states[g] = NoState /\ states'[g] = NewState
    BY <1>1 DEF NoState
<1>2. CASE states'[g] = states[g]
    BY <1>2
<1>3. CASE \/ Trims(g)
           \/ \E t \in Txn : Acquires(t, g) \/ Releases(t, g)
    BY <1>3 DEF Trims, Acquires, Releases, Agree
<1>4. ASSUME NEW r \in Replica, Opens(r, g) PROVE states'[g].state # "missing"
    BY <1>4, <1>i DEF Opens, SaveHalfOpen, RecordsSound
<1>5. ASSUME NEW t \in Txn, Decides(t, g) PROVE states'[g].state # "missing"
    <2>1. Due(t, states[g], ctx[t].state) /\ states'[g] = ctx[t].state
        BY <1>5, <1>i DEF Decides, OutcomeSave, OutcomesDue
    <2> QED BY <2>1 DEF Due
<1> QED BY <1>i, <1>1, <1>2, <1>3, <1>4, <1>5, WriteFacts

\* An admitted payment keeps its gateway and the deadline of its slot.
LEMMA AdmissionStays ==
    ASSUME SerialInv, [SerialNext]_vars, NEW t \in Txn, ctx[t].probe # 0
    PROVE  ctx'[t].gateway = ctx[t].gateway /\ ctx'[t].probe = ctx[t].probe
<1>i. HealthInv /\ TypeOK /\ SlotsOwned
    BY DEF SerialInv, HealthInv
<1>1. pc[t] \notin {"new", "acquire", "denied", "fallback"}
    BY <1>i DEF SlotsOwned
<1>2. CASE pc'[t] = pc[t] /\ ctx'[t] = ctx[t]
    BY <1>2
<1>3. CASE InitiateStep(t) \/ InitiateFails(t)
    BY <1>1, <1>3, <1>i, PaymentFacts DEF InitiateStep
<1>4. CASE OutcomeStep(t)
    BY <1>4, <1>i, OutcomeFacts DEF OutcomeStep, SameCall
<1>5. CASE \/ \E r \in Replica, g \in Gateway : MarkProbeSelected(t, r, g) \/ Route(t, r, g)
           \/ \E r \in Replica, s \in Status : RecordOutcome(t, r, s)
    BY <1>1, <1>5, <1>i, OutcomeFacts
<1> QED BY <1>i, <1>2, <1>3, <1>4, <1>5, PaymentMoves DEF Moves

\* Slots stay with the payments that were admitted with them.
LEMMA OwnedStep == SerialInv /\ [SerialNext]_vars => SlotsOwned'
<1> SUFFICES ASSUME SerialInv, [SerialNext]_vars PROVE SlotsOwned'
    OBVIOUS
<1>i. HealthInv /\ TypeOK /\ SlotsOwned /\ RecordsSound
    BY DEF SerialInv, HealthInv
<1>d. \A g \in Gateway : \A p \in states[g].probes : p.txn \in Txn
    BY <1>i DEF TypeOK, RuntimeState, Probe
<1>1. ASSUME NEW t \in Txn, pc'[t] \in {"new", "acquire", "denied", "fallback"}
      PROVE  ctx'[t].probe = 0
    <2>1. CASE pc'[t] = pc[t] /\ ctx'[t] = ctx[t]
        BY <1>1, <2>1, <1>i DEF SlotsOwned
    <2>2. CASE InitiateStep(t) \/ InitiateFails(t)
        BY <1>1, <2>2, <1>i, PaymentFacts DEF InitiateStep, SlotsOwned
    <2>3. CASE OutcomeStep(t)
        BY <1>1, <2>3, <1>i, OutcomeFacts DEF OutcomeStep
    <2>4. CASE \/ \E r \in Replica, g \in Gateway :
                    MarkProbeSelected(t, r, g) \/ Route(t, r, g)
               \/ \E r \in Replica, s \in Status : RecordOutcome(t, r, s)
        BY <1>1, <2>4, <1>i, OutcomeFacts DEF SlotsOwned
    <2> QED BY <1>i, <2>1, <2>2, <2>3, <2>4, PaymentMoves DEF Moves
<1>2. ASSUME NEW g \in Gateway, NEW p \in states'[g].probes
      PROVE  /\ ctx'[p.txn].gateway = g
             /\ ctx'[p.txn].probe = p.expiresAt
             /\ ctx'[p.txn].probe # 0
    <2>1. CASE p \in states[g].probes
        BY <2>1, <1>d, <1>i, AdmissionStays DEF SlotsOwned
    <2>2. ASSUME NEW t \in Txn, Acquires(t, g), p \notin states[g].probes
          PROVE  /\ ctx'[p.txn].gateway = g
                 /\ ctx'[p.txn].probe = p.expiresAt
                 /\ ctx'[p.txn].probe # 0
        <3>1. /\ p = [txn |-> t, expiresAt |-> ctx'[t].probe]
              /\ ctx'[t].probe # 0 /\ TryAcquire(t) /\ ctx[t].gateway = g
            BY <2>2 DEF Acquires
        <3>2. p.txn = t /\ p.expiresAt = ctx'[t].probe
            BY <3>1
        <3>3. ctx'[t].gateway = g
            BY <3>1, <1>i, PaymentFacts
        <3> QED BY <3>1, <3>2, <3>3
    <2>3. ASSUME NEW r \in Replica, Opens(r, g) PROVE FALSE
        BY <2>3, <1>2, <1>i DEF Opens, SaveHalfOpen, RecordsSound
    <2>4. ASSUME NEW t \in Txn, Decides(t, g) PROVE FALSE
        BY <2>4, <1>2, <1>i DEF Decides, OutcomeSave, RecordsSound
    <2>5. CASE states'[g] = NewState
        BY <2>5, <1>2 DEF NewState, NoState
    <2>6. CASE \/ states'[g] = states[g] \/ Trims(g)
               \/ \E t \in Txn : Releases(t, g)
        BY <2>6, <2>1 DEF Trims, Releases
    <2> QED BY <1>i, <2>1, <2>2, <2>3, <2>4, <2>5, <2>6, WriteFacts
<1> QED BY <1>1, <1>2 DEF SlotsOwned

\* Payments stay at gateways that have a record.
LEMMA KnownStep == SerialInv /\ [SerialNext]_vars => GatewaysKnown'
<1> SUFFICES ASSUME SerialInv, [SerialNext]_vars, NEW t \in Txn, pc'[t] # "new"
             PROVE  states'[ctx'[t].gateway].state # "missing"
    BY DEF GatewaysKnown
<1>i. HealthInv /\ TypeOK /\ GatewaysKnown
    BY DEF SerialInv, HealthInv
<1>f. /\ ctx[t].gateway \in Gateway
      /\ \A g \in Gateway : CooldownOK(states[g], clock)
    BY <1>i, FrameFacts DEF FramesOK
<1>1. ASSUME ctx'[t].gateway = ctx[t].gateway, pc[t] # "new"
      PROVE  states'[ctx'[t].gateway].state # "missing"
    BY <1>1, <1>f, <1>i, RecordsStay DEF GatewaysKnown
<1>2. ASSUME NEW g \in Gateway, ctx'[t].gateway = g, states[g] # NoState, states' = states
      PROVE  states'[ctx'[t].gateway].state # "missing"
    BY <1>2, <1>f DEF CooldownOK
<1>3. CASE pc'[t] = pc[t] /\ ctx'[t] = ctx[t]
    BY <1>1, <1>3
<1>4. CASE InitiateStep(t) \/ InitiateFails(t)
    BY <1>1, <1>4, <1>i, PaymentFacts DEF InitiateStep
<1>5. CASE OutcomeStep(t)
    BY <1>1, <1>5, <1>i, OutcomeFacts DEF OutcomeStep, SameCall
<1>6. CASE \E r \in Replica, g \in Gateway : MarkProbeSelected(t, r, g) \/ Route(t, r, g)
    BY <1>2, <1>6, <1>i, OutcomeFacts
<1>7. CASE \E r \in Replica, s \in Status : RecordOutcome(t, r, s)
    BY <1>1, <1>7, <1>i, OutcomeFacts
<1> QED BY <1>i, <1>3, <1>4, <1>5, <1>6, <1>7, PaymentMoves DEF Moves

\* A callback's copy stays the stored record until it is saved.
LEMMA DueStep == SerialInv /\ [SerialNext]_vars => OutcomesDue'
<1> SUFFICES ASSUME SerialInv, [SerialNext]_vars, NEW t \in Txn
             PROVE  /\ pc'[t] \in {"stats", "drop"} =>
                         ctx'[t].state = states'[ctx'[t].gateway]
                    /\ pc'[t] = "save" =>
                         Due(t, states[ctx[t].gateway], ctx[t].state)'
    BY DEF OutcomesDue
<1> DEFINE Goal == /\ pc'[t] \in {"stats", "drop"} =>
                         ctx'[t].state = states'[ctx'[t].gateway]
                   /\ pc'[t] = "save" => Due(t, states[ctx[t].gateway], ctx[t].state)'
<1> SUFFICES Goal
    OBVIOUS
<1>i. HealthInv /\ TypeOK /\ OutcomesDue /\ GatewaysKnown /\ SlotsOwned /\ AtMostOneCall
    BY DEF SerialInv, HealthInv
<1>f. /\ ctx[t] \in Ctx /\ ctx[t].gateway \in Gateway /\ ctx[t].now \in Nat
      /\ ctx[t].state \in RuntimeState
      /\ states[ctx[t].gateway] \in RuntimeState /\ LedgerOK(states[ctx[t].gateway])
    BY <1>i, FrameFacts DEF FramesOK
<1>0. ASSUME pc'[t] \notin {"stats", "drop", "save"} PROVE Goal
    BY <1>0
<1>1. CASE pc'[t] = pc[t] /\ ctx'[t] = ctx[t]
    <2>1. CASE pc[t] \notin {"stats", "drop", "save"}
        BY <1>0, <1>1, <2>1
    <2>2. CASE pc[t] \in {"stats", "drop", "save"}
        <3>1. pc[t] \in Active
            BY <2>2 DEF Active, Recording
        <3>2. ~ PaymentWrites(t)
            BY <1>1, <1>i, <2>2, PaymentFacts, OutcomeFacts DEF PaymentWrites
        <3>3. states' = states
            BY <3>1, <3>2, <1>i, LoneWriter
        <3> QED BY <1>1, <1>i, <3>3 DEF OutcomesDue, Due
    <2> QED BY <2>1, <2>2
<1>2. CASE InitiateStep(t) \/ InitiateFails(t)
    BY <1>0, <1>2, <1>i, PaymentFacts DEF InitiateStep
<1>3. CASE OutcomeEvent(t) \/ OutcomeSave(t) \/ OutcomeCache(t)
    BY <1>0, <1>3, <1>i, OutcomeFacts
<1>4. CASE OutcomeGet(t)
    BY <1>4, <1>i, OutcomeFacts DEF SameCall
<1>5. CASE OutcomeStats(t)
    <2>1. /\ pc[t] = "stats" /\ SameCall(t) /\ states' = states
          /\ \/ /\ pc'[t] = "drop" /\ ctx[t].state.state = "half_open"
                /\ ctx'[t].state = ctx[t].state
             \/ /\ pc'[t] = "save" /\ ctx[t].state.state = "unhealthy"
                /\ ctx'[t].state = UnhealthyOutcome(ctx[t].state, ctx[t].now)
             \/ /\ pc'[t] = "save" /\ ctx[t].state.state \notin {"half_open", "unhealthy"}
                /\ \E stats : ctx'[t].state = HealthyOutcome(ctx[t].state, stats, ctx[t].now)
        BY <1>5, <1>i, OutcomeFacts
    <2>2. ctx[t].state = states[ctx[t].gateway] /\ ctx[t].state.state # "missing"
        BY <2>1, <1>i DEF OutcomesDue, GatewaysKnown
    <2>3. CASE pc'[t] = "drop"
        BY <2>1, <2>2, <2>3 DEF SameCall
    <2>4. CASE /\ pc'[t] = "save" /\ ctx[t].state.state = "unhealthy"
               /\ ctx'[t].state = UnhealthyOutcome(ctx[t].state, ctx[t].now)
        <3>1. \/ ctx'[t].state = ctx[t].state
              \/ /\ ctx'[t].state.state = "half_open"
                 /\ ctx'[t].state.unhealthyUntil = ctx[t].state.unhealthyUntil
            BY <2>4, <1>f, OutcomeShapes
        <3> QED BY <2>1, <2>2, <2>4, <3>1 DEF Due, SameCall
    <2>5. ASSUME pc'[t] = "save", ctx[t].state.state \notin {"half_open", "unhealthy"},
                 NEW stats, ctx'[t].state = HealthyOutcome(ctx[t].state, stats, ctx[t].now)
          PROVE  Goal
        <3>1. \/ ctx'[t].state.state = "healthy"
              \/ /\ ctx'[t].state.state = "unhealthy"
                 /\ ctx'[t].state.unhealthyUntil = ctx[t].now + Cooldown
            BY <2>5, <1>f, OutcomeShapes
        <3>2. ctx[t].state.state = "healthy"
            BY <2>2, <2>5, <1>f DEF RuntimeState, GatewayStates
        <3> QED BY <2>1, <2>2, <2>5, <3>1, <3>2 DEF Due, SameCall
    <2> QED BY <2>1, <2>3, <2>4, <2>5
<1>6. CASE OutcomeRelease(t)
    <2> DEFINE u == states[ctx[t].gateway]
               s == ReleaseHalfOpenProbe(u, t, ctx[t].now)
    <2>1. /\ pc[t] = "drop" /\ SameCall(t) /\ states'[ctx[t].gateway] = s
          /\ \/ /\ pc'[t] = "save" /\ HoldsProbe(u, t, ctx[t].now)
                /\ ctx'[t].state = ProbeOutcome(s, ctx[t].status, ctx[t].now)
             \/ pc'[t] = "cache"
        BY <1>6, <1>i, OutcomeFacts
    <2>2. CASE pc'[t] = "cache"
        BY <1>0, <2>2
    <2>3. CASE pc'[t] = "save"
        <3>1. /\ u.state = "half_open" /\ \E p \in u.probes : p.txn = t
              /\ HalfOpenProbeCount = 1 => s.probes = {}
            BY <2>1, <2>3, <1>f, ReleaseKeeps
        <3>2. s \in RuntimeState /\ s.state = "half_open"
            BY <3>1, <1>f, ReleaseFact
        <3>3. ctx[t].probe # 0
            BY <3>1, <1>f, <1>i DEF SlotsOwned
        <3> HIDE DEF s, u
        <3>4. /\ ctx'[t].state.state =
                   IF ctx[t].status = "success" THEN "healthy" ELSE "unhealthy"
              /\ ctx'[t].state.state = "unhealthy" =>
                   ctx'[t].state.unhealthyUntil = ctx[t].now + Cooldown
            BY <2>1, <2>3, <3>2, <1>f, OutcomeShapes
        <3> QED BY <2>1, <2>3, <3>1, <3>2, <3>3, <3>4 DEF Due, SameCall
    <2> QED BY <2>1, <2>2, <2>3
<1>7. CASE \/ \E r \in Replica, g \in Gateway : MarkProbeSelected(t, r, g) \/ Route(t, r, g)
           \/ \E r \in Replica, s \in Status : RecordOutcome(t, r, s)
    BY <1>0, <1>7, <1>i, OutcomeFacts
<1> HIDE DEF Goal
<1> QED BY <1>i, <1>1, <1>2, <1>3, <1>4, <1>5, <1>6, <1>7, PaymentMoves
    DEF Moves, OutcomeStep

\* The invariant of serial use is inductive.
THEOREM SerialInvariance == SerialSpec => []SerialInv
<1>1. Init => SerialInv
    <2> SUFFICES ASSUME Init PROVE SerialInv
        OBVIOUS
    <2>1. HealthInv
        BY InitInv
    <2>2. AtMostOneCall
        <3>1. Calls = {}
            BY DEF Init, Calls, IdlePrep, IdleLook, Selecting, Releasing, Recording
        <3> QED BY <3>1 DEF AtMostOneCall
    <2>3. SlotsOwned
        BY DEF Init, SlotsOwned, NoState, NoCtx
    <2>4. GatewaysKnown /\ OutcomesDue
        BY DEF Init, GatewaysKnown, OutcomesDue
    <2> QED BY <2>1, <2>2, <2>3, <2>4 DEF SerialInv
<1>2. SerialInv /\ [SerialNext]_vars => SerialInv'
    <2> SUFFICES ASSUME SerialInv, [SerialNext]_vars PROVE SerialInv'
        OBVIOUS
    <2>1. HealthInv'
        BY SerialIsNext, TypeStep, StampsStep, RecordsStep, SlotsStep, FreshStep
            DEF HealthInv, SerialInv
    <2>2. AtMostOneCall'
        BY DEF SerialInv, SerialNext, vars, AtMostOneCall, Calls
    <2> QED BY <2>1, <2>2, OwnedStep, KnownStep, DueStep DEF SerialInv
<1> QED BY <1>1, <1>2, PTL DEF SerialSpec

\* Used by one caller at a time, on any number of replicas with any caches,
\* only the callback of a payment that was admitted as a probe takes a gateway
\* out of half_open, and in the direction its status says.
THEOREM ProbeDecidesHolds == SerialSpec => ProbeDecides
<1>1. ASSUME SerialInv, [SerialNext]_vars
      PROVE  [\A g \in Gateway :
                states[g].state = "half_open" /\ states'[g].state # "half_open" =>
                \E t \in Txn :
                   /\ pc[t] = "save" /\ pc'[t] = "cache"
                   /\ ctx[t].gateway = g /\ ctx[t].probe # 0
                   /\ states'[g].state =
                        IF ctx[t].status = "success" THEN "healthy" ELSE "unhealthy"]_vars
    <2> SUFFICES ASSUME NEW g \in Gateway, states[g].state = "half_open",
                        states'[g].state # "half_open"
                 PROVE  \E t \in Txn :
                   /\ pc[t] = "save" /\ pc'[t] = "cache"
                   /\ ctx[t].gateway = g /\ ctx[t].probe # 0
                   /\ states'[g].state =
                        IF ctx[t].status = "success" THEN "healthy" ELSE "unhealthy"
        OBVIOUS
    <2>i. HealthInv /\ OutcomesDue /\ RecordsSound
        BY <1>1 DEF SerialInv, HealthInv
    <2>1. ~ \E r \in Replica : Opens(r, g)
        BY <2>i DEF Opens, SaveHalfOpen, RecordsSound
    <2>2. /\ states'[g] # states[g] /\ states[g] # NoState /\ ~ Trims(g)
          /\ ~ \E t \in Txn : Acquires(t, g) \/ Releases(t, g)
        BY DEF Trims, Acquires, Releases, Agree, NoState
    <2>3. PICK t \in Txn : Decides(t, g)
        BY <1>1, <2>i, <2>1, <2>2, WriteFacts
    <2>4. /\ pc[t] = "save" /\ pc'[t] = "cache" /\ ctx[t].gateway = g
          /\ states'[g] = ctx[t].state
        BY <2>3, <2>i, OutcomeFacts DEF Decides
    <2>5. Due(t, states[g], ctx[t].state)
        BY <2>4, <2>i DEF OutcomesDue
    <2> QED BY <2>4, <2>5 DEF Due
<1> QED BY <1>1, SerialInvariance, PTL DEF SerialSpec, ProbeDecides

-----------------------------------------------------------------------------
(* One replica: its cache and the repository.                              *)

\* Every step leaves a PrepareForRouting or State call alone or is a step of it.
LEMMA CallMoves ==
    ASSUME TypeOK, [SerialNext]_vars
    PROVE  /\ \A r \in Replica :
                \/ prep'[r] = prep[r] \/ PrepareStep(r)
                \/ \E g \in Gateway : PrepareForRouting(r, g)
           /\ \A o \in Observer :
                \/ look'[o] = look[o] \/ LookStep(o) \/ LookFails(o)
                \/ \E r \in Replica, g \in Gateway : State(o, r, g)
<1> DEFINE GP == \A r \in Replica :
                \/ prep'[r] = prep[r] \/ PrepareStep(r)
                \/ \E g \in Gateway : PrepareForRouting(r, g)
           GL == \A o \in Observer :
                \/ look'[o] = look[o] \/ LookStep(o) \/ LookFails(o)
                \/ \E r \in Replica, g \in Gateway : State(o, r, g)
           Goal == GP /\ GL
<1> SUFFICES Goal
    OBVIOUS
<1>d. prep \in [Replica -> PrepFrame] /\ look \in [Observer -> LookFrame]
    BY DEF TypeOK
<1>s. ASSUME prep' = prep, look' = look PROVE Goal
    BY <1>s
<1>1. ASSUME NEW q \in Replica, PrepareStep(q) PROVE Goal
    <2>1. look' = look /\ \A r \in Replica \ {q} : prep'[r] = prep[r]
        BY <1>1, <1>d DEF PrepareStep, ReadCache, LoadState, FillCache, SaveHalfOpen,
            CacheHalfOpen, PruneForRouting, CachePruned, PrepareReturns
    <2> QED BY <1>1, <2>1
<1>2. ASSUME NEW q \in Replica, NEW g \in Gateway, PrepareForRouting(q, g) PROVE Goal
    <2>1. look' = look /\ \A r \in Replica \ {q} : prep'[r] = prep[r]
        BY <1>2, <1>d DEF PrepareForRouting
    <2> QED BY <1>2, <2>1
<1>3. ASSUME NEW o \in Observer, LookStep(o) \/ LookFails(o) PROVE Goal
    <2>1. prep' = prep /\ \A p \in Observer \ {o} : look'[p] = look[p]
        BY <1>3, <1>d DEF LookStep, LookLoad, LookPrune, LookCache, LookFails
    <2> QED BY <1>3, <2>1
<1>4. ASSUME NEW o \in Observer, NEW r \in Replica, NEW g \in Gateway, State(o, r, g)
      PROVE  Goal
    <2>1. prep' = prep /\ \A p \in Observer \ {o} : look'[p] = look[p]
        BY <1>4, <1>d DEF State
    <2> QED BY <1>4, <2>1
<1>5. ASSUME NEW t \in Txn, InitiateStep(t) \/ OutcomeStep(t) \/ InitiateFails(t)
      PROVE  Goal
    BY <1>5, <1>s DEF InitiateStep, TryAcquire, CacheAcquired, Initiated, ReleaseProbe,
        CacheReleased, OutcomeStep, OutcomeEvent, OutcomeGet, OutcomeStats,
        OutcomeRelease, OutcomeSave, OutcomeCache, InitiateFails
<1>6. ASSUME NEW t \in Txn, NEW r \in Replica, NEW g \in Gateway,
             MarkProbeSelected(t, r, g) \/ Route(t, r, g)
      PROVE  Goal
    BY <1>6, <1>s DEF MarkProbeSelected, Route
<1>7. ASSUME NEW t \in Txn, NEW r \in Replica, NEW s \in Status, RecordOutcome(t, r, s)
      PROVE  Goal
    BY <1>7, <1>s DEF RecordOutcome
<1>8. CASE Tick
    BY <1>8, <1>s DEF Tick
<1>9. CASE UNCHANGED vars
    BY <1>9, <1>s DEF vars
<1> HIDE DEF Goal
<1> QED BY <1>1, <1>2, <1>3, <1>4, <1>5, <1>6, <1>7, <1>8, <1>9
    DEF SerialNext, PaymentsSucceedStep

\* Judged saves only when the record it was given is unhealthy, and keeps its
\* deadline.
LEMMA JudgedShape ==
    ASSUME NEW f \in PrepFrame
    PROVE  /\ Judged(f).gateway = f.gateway
           /\ Judged(f).pc \in {"save", "prune", "done"}
           /\ Judged(f).pc = "save" =>
                /\ f.state.state = "unhealthy"
                /\ Judged(f).state.unhealthyUntil = f.state.unhealthyUntil
<1>0. f.state \in RuntimeState
    BY DEF PrepFrame
<1>1. CASE CooldownOver(f.state, f.now)
    <2> DEFINE s == HalfOpenForRouting(f.state)
    <2>1. s.unhealthyUntil = f.state.unhealthyUntil /\ f.state.state = "unhealthy"
        BY <1>0, <1>1 DEF HalfOpenForRouting, CooldownOver, RuntimeState
    <2>2. Judged(f) = [f EXCEPT !.pc = "save", !.state = s]
        BY <1>1 DEF Judged
    <2> HIDE DEF s
    <2> QED BY <2>1, <2>2 DEF PrepFrame
<1>2. CASE ~ CooldownOver(f.state, f.now)
    BY <1>0, <1>2 DEF Judged, PrepFrame
<1> QED BY <1>1, <1>2

\* The steps of PrepareForRouting, field by field.
LEMMA PrepareFacts ==
    ASSUME HealthInv, NEW r \in Replica
    PROVE
    /\ ReadCache(r) =>
         /\ prep[r].pc = "read" /\ prep'[r].gateway = prep[r].gateway
         /\ states' = states
         /\ \/ prep'[r].pc = "load"
            \/ LET c == stateCache[r][prep[r].gateway]
               IN  /\ c.expiresAt # 0
                   /\ prep'[r].pc \in {"save", "prune", "done"}
                   /\ prep'[r].pc = "save" =>
                        /\ c.state.state = "unhealthy"
                        /\ prep'[r].state.unhealthyUntil = c.state.unhealthyUntil
    /\ LoadState(r) =>
         /\ prep[r].pc = "load" /\ prep'[r].pc = "fill"
         /\ prep'[r].gateway = prep[r].gateway
         /\ prep'[r].state = states'[prep[r].gateway]
         /\ states'[prep[r].gateway].state # "missing"
    /\ FillCache(r) =>
         /\ prep[r].pc = "fill" /\ prep'[r].gateway = prep[r].gateway
         /\ states' = states
         /\ prep'[r].pc \in {"save", "prune", "done"}
         /\ prep'[r].pc = "save" =>
              /\ prep[r].state.state = "unhealthy"
              /\ prep'[r].state.unhealthyUntil = prep[r].state.unhealthyUntil
    /\ SaveHalfOpen(r) =>
         /\ prep[r].pc = "save" /\ prep'[r].pc = "saved"
         /\ prep'[r].gateway = prep[r].gateway
         /\ prep'[r].state = states'[prep[r].gateway]
         /\ states'[prep[r].gateway].state = "half_open"
    /\ CacheHalfOpen(r) =>
         /\ prep[r].pc = "saved" /\ prep'[r].pc = "prune"
         /\ prep'[r].gateway = prep[r].gateway /\ states' = states
    /\ PruneForRouting(r) =>
         /\ prep[r].pc = "prune" /\ prep'[r].pc = "pruned"
         /\ prep'[r].gateway = prep[r].gateway
         /\ prep'[r].state = states'[prep[r].gateway]
    /\ CachePruned(r) =>
         /\ prep[r].pc = "pruned" /\ prep'[r].pc = "done"
         /\ prep'[r].gateway = prep[r].gateway /\ states' = states
    /\ PrepareReturns(r) => prep[r].pc = "done" /\ prep'[r].pc = "idle"
    /\ \A g \in Gateway : PrepareForRouting(r, g) =>
         prep[r].pc = "idle" /\ prep'[r].pc = "read"
<1>d. states \in [Gateway -> RuntimeState] /\ prep \in [Replica -> PrepFrame]
    BY DEF HealthInv, TypeOK
<1>f. /\ prep[r] \in PrepFrame /\ prep[r].gateway \in Gateway
      /\ prep[r].now \in Nat /\ prep[r].state \in RuntimeState
      /\ states[prep[r].gateway] \in RuntimeState
      /\ CooldownOK(states[prep[r].gateway], clock)
      /\ stateCache[r][prep[r].gateway].state \in RuntimeState
      /\ stateCache[r][prep[r].gateway].expiresAt \in Nat
    BY FrameFacts DEF FramesOK
<1>1. ASSUME ReadCache(r)
      PROVE  /\ prep[r].pc = "read" /\ prep'[r].gateway = prep[r].gateway
             /\ states' = states
             /\ \/ prep'[r].pc = "load"
                \/ LET c == stateCache[r][prep[r].gateway]
                   IN  /\ c.expiresAt # 0
                       /\ prep'[r].pc \in {"save", "prune", "done"}
                       /\ prep'[r].pc = "save" =>
                            /\ c.state.state = "unhealthy"
                            /\ prep'[r].state.unhealthyUntil = c.state.unhealthyUntil
    <2> DEFINE c == stateCache[r][prep[r].gateway]
               f == [prep[r] EXCEPT !.state = c.state]
               n == IF prep[r].now < c.expiresAt THEN Judged(f)
                    ELSE [prep[r] EXCEPT !.pc = "load"]
    <2>1. prep[r].pc = "read" /\ states' = states /\ prep' = [prep EXCEPT ![r] = n]
        BY <1>1 DEF ReadCache, store
    <2>2. f \in PrepFrame /\ f.state = c.state /\ f.gateway = prep[r].gateway
        BY <1>f DEF PrepFrame
    <2> HIDE DEF n, f
    <2>3. prep'[r] = n
        BY <2>1, <1>d
    <2>4. CASE prep[r].now < c.expiresAt
        <3>1. n = Judged(f) /\ c.expiresAt # 0
            BY <2>4, <1>f DEF n
        <3>2. /\ n.gateway = prep[r].gateway /\ n.pc \in {"save", "prune", "done"}
              /\ n.pc = "save" => /\ c.state.state = "unhealthy"
                                  /\ n.state.unhealthyUntil = c.state.unhealthyUntil
            BY <2>2, <3>1, JudgedShape
        <3> QED BY <2>1, <2>3, <3>1, <3>2
    <2>5. CASE ~ (prep[r].now < c.expiresAt)
        <3>1. n.pc = "load" /\ n.gateway = prep[r].gateway
            BY <2>5, <1>f DEF n, PrepFrame
        <3> QED BY <2>1, <2>3, <3>1
    <2> QED BY <2>4, <2>5
<1>2. ASSUME LoadState(r)
      PROVE  /\ prep[r].pc = "load" /\ prep'[r].pc = "fill"
             /\ prep'[r].gateway = prep[r].gateway
             /\ prep'[r].state = states'[prep[r].gateway]
             /\ states'[prep[r].gateway].state # "missing"
    <2> DEFINE s == Ensure(states[prep[r].gateway])
    <2>1. s.state # "missing"
        BY <1>f DEF Ensure, CooldownOK, NewState, NoState
    <2>2. /\ prep[r].pc = "load" /\ Put(prep[r].gateway, s)
          /\ prep' = [prep EXCEPT ![r].pc = "fill", ![r].state = s]
        BY <1>2 DEF LoadState
    <2> HIDE DEF s
    <2>3. /\ prep'[r].pc = "fill" /\ prep'[r].gateway = prep[r].gateway
          /\ prep'[r].state = s
        BY <2>2, <1>d, <1>f DEF PrepFrame
    <2>4. states'[prep[r].gateway] = s
        BY <2>2, <1>d, <1>f DEF Put
    <2> QED BY <2>1, <2>2, <2>3, <2>4
<1>3. ASSUME FillCache(r)
      PROVE  /\ prep[r].pc = "fill" /\ prep'[r].gateway = prep[r].gateway
             /\ states' = states
             /\ prep'[r].pc \in {"save", "prune", "done"}
             /\ prep'[r].pc = "save" =>
                  /\ prep[r].state.state = "unhealthy"
                  /\ prep'[r].state.unhealthyUntil = prep[r].state.unhealthyUntil
    <2>1. prep'[r] = Judged(prep[r]) /\ prep[r].pc = "fill" /\ states' = states
        BY <1>3, <1>d DEF FillCache, store
    <2> QED BY <2>1, <1>f, JudgedShape
<1>4. ASSUME SaveHalfOpen(r)
      PROVE  /\ prep[r].pc = "save" /\ prep'[r].pc = "saved"
             /\ prep'[r].gateway = prep[r].gateway
             /\ prep'[r].state = states'[prep[r].gateway]
             /\ states'[prep[r].gateway].state = "half_open"
    <2>1. prep[r].pc = "save" /\ prep[r].state.state = "half_open"
        BY <1>4 DEF SaveHalfOpen, HealthInv, RecordsSound
    <2>2. /\ prep'[r].pc = "saved" /\ prep'[r].gateway = prep[r].gateway
          /\ prep'[r].state = prep[r].state
        BY <1>4, <1>d, <1>f DEF SaveHalfOpen, PrepFrame
    <2>3. states'[prep[r].gateway] = prep[r].state
        BY <1>4, <1>d, <1>f DEF SaveHalfOpen, Put
    <2> QED BY <2>1, <2>2, <2>3
<1>5. CacheHalfOpen(r) =>
         /\ prep[r].pc = "saved" /\ prep'[r].pc = "prune"
         /\ prep'[r].gateway = prep[r].gateway /\ states' = states
    BY <1>d, <1>f DEF CacheHalfOpen, PrepFrame, store
<1>6. ASSUME PruneForRouting(r)
      PROVE  /\ prep[r].pc = "prune" /\ prep'[r].pc = "pruned"
             /\ prep'[r].gateway = prep[r].gateway
             /\ prep'[r].state = states'[prep[r].gateway]
    <2> DEFINE s == PruneExpiredHalfOpenProbes(states[prep[r].gateway], prep[r].now)
    <2>1. /\ prep[r].pc = "prune" /\ Put(prep[r].gateway, s)
          /\ prep' = [prep EXCEPT ![r].pc = "pruned", ![r].state = s]
        BY <1>6 DEF PruneForRouting
    <2> HIDE DEF s
    <2>2. /\ prep'[r].pc = "pruned" /\ prep'[r].gateway = prep[r].gateway
          /\ prep'[r].state = s
        BY <2>1, <1>d, <1>f DEF PrepFrame
    <2> QED BY <2>1, <2>2, <1>d, <1>f DEF Put
<1>7. CachePruned(r) =>
         /\ prep[r].pc = "pruned" /\ prep'[r].pc = "done"
         /\ prep'[r].gateway = prep[r].gateway /\ states' = states
    BY <1>d, <1>f DEF CachePruned, PrepFrame, store
<1>8. PrepareReturns(r) => prep[r].pc = "done" /\ prep'[r].pc = "idle"
    BY <1>d DEF PrepareReturns, IdlePrep
<1>9. \A g \in Gateway : PrepareForRouting(r, g) =>
         prep[r].pc = "idle" /\ prep'[r].pc = "read"
    BY <1>d DEF PrepareForRouting
<1> QED BY <1>1, <1>2, <1>3, <1>4, <1>5, <1>6, <1>7, <1>8, <1>9

\* The steps of State, field by field.
LEMMA LookFacts ==
    ASSUME HealthInv, NEW o \in Observer
    PROVE
    /\ LookLoad(o) =>
         /\ look[o].pc = "load" /\ look'[o].pc # "load"
         /\ look'[o].gateway = look[o].gateway
         /\ look'[o].state = states'[look[o].gateway]
         /\ states'[look[o].gateway].state # "missing"
    /\ LookPrune(o) =>
         /\ look[o].pc = "prune" /\ look'[o].pc = "cache"
         /\ look'[o].gateway = look[o].gateway
         /\ look'[o].state = states'[look[o].gateway]
    /\ LookCache(o) => look[o].pc = "cache" /\ look'[o].pc = "idle" /\ states' = states
    /\ LookFails(o) => look'[o].pc = "idle"
    /\ \A r \in Replica, g \in Gateway : State(o, r, g) =>
         look[o].pc = "idle" /\ look'[o].pc = "load"
<1>d. states \in [Gateway -> RuntimeState] /\ look \in [Observer -> LookFrame]
    BY DEF HealthInv, TypeOK
<1>f. /\ look[o] \in LookFrame /\ look[o].gateway \in Gateway
      /\ states[look[o].gateway] \in RuntimeState
      /\ CooldownOK(states[look[o].gateway], clock)
    BY FrameFacts DEF FramesOK
<1>1. ASSUME LookLoad(o)
      PROVE  /\ look[o].pc = "load" /\ look'[o].pc # "load"
             /\ look'[o].gateway = look[o].gateway
             /\ look'[o].state = states'[look[o].gateway]
             /\ states'[look[o].gateway].state # "missing"
    <2> DEFINE s == Ensure(states[look[o].gateway])
               n == IF s.state = "half_open" THEN "prune" ELSE "cache"
    <2>1. s.state # "missing"
        BY <1>f DEF Ensure, CooldownOK, NewState, NoState
    <2>2. /\ look[o].pc = "load" /\ Put(look[o].gateway, s)
          /\ look' = [look EXCEPT ![o].state = s, ![o].pc = n]
        BY <1>1 DEF LookLoad
    <2>n. n # "load"
        OBVIOUS
    <2> HIDE DEF s, n
    <2>3. /\ look'[o].pc = n /\ look'[o].gateway = look[o].gateway
          /\ look'[o].state = s
        BY <2>2, <1>d, <1>f DEF LookFrame
    <2>4. states'[look[o].gateway] = s
        BY <2>2, <1>d, <1>f DEF Put
    <2> QED BY <2>1, <2>2, <2>n, <2>3, <2>4
<1>2. ASSUME LookPrune(o)
      PROVE  /\ look[o].pc = "prune" /\ look'[o].pc = "cache"
             /\ look'[o].gateway = look[o].gateway
             /\ look'[o].state = states'[look[o].gateway]
    <2> DEFINE s == PruneExpiredHalfOpenProbes(states[look[o].gateway], look[o].now)
    <2>1. /\ look[o].pc = "prune" /\ Put(look[o].gateway, s)
          /\ look' = [look EXCEPT ![o].state = s, ![o].pc = "cache"]
        BY <1>2 DEF LookPrune
    <2> HIDE DEF s
    <2>2. /\ look'[o].pc = "cache" /\ look'[o].gateway = look[o].gateway
          /\ look'[o].state = s
        BY <2>1, <1>d, <1>f DEF LookFrame
    <2> QED BY <2>1, <2>2, <1>d, <1>f DEF Put
<1>3. LookCache(o) => look[o].pc = "cache" /\ look'[o].pc = "idle" /\ states' = states
    BY <1>d DEF LookCache, IdleLook, store
<1>4. LookFails(o) => look'[o].pc = "idle"
    BY <1>d DEF LookFails, IdleLook
<1>5. \A r \in Replica, g \in Gateway : State(o, r, g) =>
         look[o].pc = "idle" /\ look'[o].pc = "load"
    BY <1>d DEF State
<1> QED BY <1>1, <1>2, <1>3, <1>4, <1>5

\* What a call is about to cache stays in agreement with the repository.
LEMMA FramesAgreeStep ==
    SerialInv /\ ReplicaInv /\ [SerialNext]_vars => FramesAgree'
<1> SUFFICES ASSUME SerialInv, ReplicaInv, [SerialNext]_vars PROVE FramesAgree'
    OBVIOUS
<1>i. /\ HealthInv /\ TypeOK /\ AtMostOneCall /\ GatewaysKnown
      /\ FramesAgree /\ CacheAgrees
    BY DEF SerialInv, HealthInv, ReplicaInv
<1>f. FramesOK
    BY <1>i, FrameFacts
<1>g. \A s : Agree(s, s)
    BY DEF Agree
<1>1. ASSUME NEW r \in Replica
      PROVE  /\ prep'[r].pc \notin {"idle", "read", "load"} =>
                   states'[prep'[r].gateway].state # "missing"
             /\ prep'[r].pc \in {"fill", "saved", "pruned"} =>
                   Agree(prep'[r].state, states'[prep'[r].gateway])
             /\ prep'[r].pc = "save" =>
                   /\ states'[prep'[r].gateway].state = "unhealthy"
                   /\ states'[prep'[r].gateway].unhealthyUntil =
                         prep'[r].state.unhealthyUntil
    <2> DEFINE Goal ==
             /\ prep'[r].pc \notin {"idle", "read", "load"} =>
                   states'[prep'[r].gateway].state # "missing"
             /\ prep'[r].pc \in {"fill", "saved", "pruned"} =>
                   Agree(prep'[r].state, states'[prep'[r].gateway])
             /\ prep'[r].pc = "save" =>
                   /\ states'[prep'[r].gateway].state = "unhealthy"
                   /\ states'[prep'[r].gateway].unhealthyUntil =
                         prep'[r].state.unhealthyUntil
    <2> SUFFICES Goal
        OBVIOUS
    <2>f. prep[r].gateway \in Gateway
        BY <1>f DEF FramesOK
    <2>1. CASE prep'[r] = prep[r]
        <3>1. CASE prep[r].pc = "idle"
            BY <2>1, <3>1
        <3>2. CASE prep[r].pc # "idle"
            <4>1. ~ PrepareWrites(r)
                BY <2>1, <1>i, PrepareFacts DEF PrepareWrites
            <4>2. states' = states
                BY <3>2, <4>1, <1>i, LoneWriter
            <4> QED BY <2>1, <4>2, <1>i DEF FramesAgree
        <3> QED BY <3>1, <3>2
    <2>2. CASE ReadCache(r)
        <3> DEFINE c == stateCache[r][prep[r].gateway]
        <3>1. /\ prep[r].pc = "read" /\ prep'[r].gateway = prep[r].gateway
              /\ states' = states
              /\ \/ prep'[r].pc = "load"
                 \/ /\ c.expiresAt # 0
                    /\ prep'[r].pc \in {"save", "prune", "done"}
                    /\ prep'[r].pc = "save" =>
                         /\ c.state.state = "unhealthy"
                         /\ prep'[r].state.unhealthyUntil = c.state.unhealthyUntil
            BY <2>2, <1>i, PrepareFacts
        <3>2. ~ Changing(prep[r].gateway)
            BY <3>1, <1>i, OneCall DEF Changing, Active, Recording
        <3>3. c.expiresAt # 0 => /\ states[prep[r].gateway].state # "missing"
                                 /\ Agree(c.state, states[prep[r].gateway])
            BY <3>2, <2>f, <1>i DEF CacheAgrees
        <3> HIDE DEF c
        <3> QED BY <3>1, <3>3 DEF Agree
    <2>3. CASE LoadState(r) \/ SaveHalfOpen(r)
        BY <2>3, <1>i, <1>g, PrepareFacts
    <2>4. CASE FillCache(r)
        <3>1. /\ prep[r].pc = "fill" /\ prep'[r].gateway = prep[r].gateway
              /\ states' = states
              /\ prep'[r].pc \in {"save", "prune", "done"}
              /\ prep'[r].pc = "save" =>
                   /\ prep[r].state.state = "unhealthy"
                   /\ prep'[r].state.unhealthyUntil = prep[r].state.unhealthyUntil
            BY <2>4, <1>i, PrepareFacts
        <3>2. /\ states[prep[r].gateway].state # "missing"
              /\ Agree(prep[r].state, states[prep[r].gateway])
            BY <3>1, <1>i DEF FramesAgree
        <3> QED BY <3>1, <3>2 DEF Agree
    <2>5. CASE CacheHalfOpen(r) \/ CachePruned(r)
        BY <2>5, <1>i, PrepareFacts DEF FramesAgree
    <2>6. CASE PruneForRouting(r)
        <3>1. states[prep[r].gateway].state # "missing"
            BY <2>6, <1>i, PrepareFacts DEF FramesAgree
        <3>2. states'[prep[r].gateway].state # "missing"
            BY <3>1, <2>f, RecordsStay
        <3> QED BY <2>6, <3>2, <1>i, <1>g, PrepareFacts
    <2>7. CASE PrepareReturns(r) \/ \E g \in Gateway : PrepareForRouting(r, g)
        BY <2>7, <1>i, PrepareFacts
    <2> HIDE DEF Goal
    <2> QED BY <1>i, <2>1, <2>2, <2>3, <2>4, <2>5, <2>6, <2>7, CallMoves DEF PrepareStep
<1>2. ASSUME NEW o \in Observer, look'[o].pc \in {"prune", "cache"}
      PROVE  /\ states'[look'[o].gateway].state # "missing"
             /\ Agree(look'[o].state, states'[look'[o].gateway])
    <2>f. look[o].gateway \in Gateway
        BY <1>f DEF FramesOK
    <2>1. CASE look'[o] = look[o]
        <3>1. look[o].pc # "idle"
            BY <1>2, <2>1
        <3>2. ~ LookWrites(o)
            BY <2>1, <1>i, LookFacts DEF LookWrites
        <3>3. states' = states
            BY <3>1, <3>2, <1>i, LoneWriter
        <3> QED BY <1>2, <2>1, <3>3, <1>i DEF FramesAgree
    <2>2. CASE LookLoad(o)
        BY <2>2, <1>i, <1>g, LookFacts
    <2>3. CASE LookPrune(o)
        <3>1. states[look[o].gateway].state # "missing"
            BY <2>3, <1>i, LookFacts DEF FramesAgree
        <3>2. states'[look[o].gateway].state # "missing"
            BY <3>1, <2>f, RecordsStay
        <3> QED BY <2>3, <3>2, <1>i, <1>g, LookFacts
    <2>4. CASE LookCache(o) \/ LookFails(o)
        BY <1>2, <2>4, <1>i, LookFacts
    <2>5. CASE \E r \in Replica, g \in Gateway : State(o, r, g)
        BY <1>2, <2>5, <1>i, LookFacts
    <2> QED BY <1>i, <2>1, <2>2, <2>3, <2>4, <2>5, CallMoves DEF LookStep
<1>3. ASSUME NEW t \in Txn, pc'[t] \in {"acquired", "denied", "released", "cache"}
      PROVE  Agree(ctx'[t].state, states'[ctx'[t].gateway])
    <2>1. CASE pc'[t] = pc[t] /\ ctx'[t] = ctx[t]
        <3>1. pc[t] \in Active
            BY <1>3, <2>1 DEF Active, Selecting, Releasing, Recording
        <3>2. ~ PaymentWrites(t)
            BY <1>3, <2>1, <1>i, PaymentFacts, OutcomeFacts DEF PaymentWrites
        <3>3. states' = states
            BY <3>1, <3>2, <1>i, LoneWriter
        <3> QED BY <1>3, <2>1, <3>3, <1>i DEF FramesAgree
    <2>2. CASE InitiateStep(t) \/ InitiateFails(t)
        BY <1>3, <2>2, <1>i, <1>g, PaymentFacts DEF InitiateStep
    <2>3. CASE OutcomeStep(t)
        BY <1>3, <2>3, <1>i, <1>g, OutcomeFacts DEF OutcomeStep, SameCall
    <2>4. CASE \/ \E r \in Replica, g \in Gateway :
                    MarkProbeSelected(t, r, g) \/ Route(t, r, g)
               \/ \E r \in Replica, s \in Status : RecordOutcome(t, r, s)
        BY <1>3, <2>4, <1>i, OutcomeFacts
    <2> QED BY <1>i, <2>1, <2>2, <2>3, <2>4, PaymentMoves DEF Moves
<1> QED BY <1>1, <1>2, <1>3 DEF FramesAgree

\* A step that brings the cached record of a gateway up to date.
Refreshes(r, g) ==
    /\ states' = states
    /\ states[g].state # "missing"
    /\ Agree(stateCache'[r][g].state, states[g])

\* The steps that write the cache refresh it.
LEMMA CacheFacts ==
    ASSUME SerialInv, ReplicaInv
    PROVE  /\ \A r \in Replica : CacheHalfOpen(r) => Refreshes(r, prep[r].gateway)
           /\ \A t \in Txn : OutcomeCache(t) => Refreshes(ctx[t].replica, ctx[t].gateway)
           /\ [SerialNext]_vars => \A r \in Replica, g \in Gateway :
                stateCache'[r][g] = stateCache[r][g] \/ Refreshes(r, g)
<1>i. HealthInv /\ TypeOK /\ GatewaysKnown /\ FramesAgree
    BY DEF SerialInv, HealthInv, ReplicaInv
<1>f. FramesOK
    BY <1>i, FrameFacts
<1>d. stateCache \in [Replica -> [Gateway -> CacheEntry]]
    BY <1>i DEF TypeOK
<1> DEFINE Good == \A r \in Replica, g \in Gateway :
                stateCache'[r][g] = stateCache[r][g] \/ Refreshes(r, g)
<1>c. ASSUME NEW q \in Replica, NEW h \in Gateway, NEW s, NEW now,
             setCachedState(q, h, s, now), states' = states,
             states[h].state # "missing", Agree(s, states[h])
      PROVE  Refreshes(q, h) /\ Good
    <2>1. \A r \in Replica, g \in Gateway : stateCache'[r][g] =
            IF r = q /\ g = h THEN [state |-> s, expiresAt |-> now + CacheTTL]
            ELSE stateCache[r][g]
        BY <1>c, <1>d DEF setCachedState
    <2>2. stateCache'[q][h].state = s
        BY <2>1
    <2>3. Refreshes(q, h)
        BY <1>c, <2>2 DEF Refreshes
    <2> QED BY <2>1, <2>3
<1>s. ASSUME stateCache' = stateCache PROVE Good
    BY <1>s
<1> HIDE DEF Good
<1>1. ASSUME NEW r \in Replica, FillCache(r) \/ CacheHalfOpen(r) \/ CachePruned(r)
      PROVE  Refreshes(r, prep[r].gateway) /\ Good
    <2>1. /\ prep[r].pc \in {"fill", "saved", "pruned"} /\ states' = states
          /\ setCachedState(r, prep[r].gateway, prep[r].state, prep[r].now)
        BY <1>1 DEF FillCache, CacheHalfOpen, CachePruned, store
    <2>2. /\ Agree(prep[r].state, states[prep[r].gateway])
          /\ states[prep[r].gateway].state # "missing"
          /\ prep[r].gateway \in Gateway
        BY <2>1, <1>i, <1>f DEF FramesAgree, FramesOK
    <2> QED BY <2>1, <2>2, <1>c
<1>2. ASSUME NEW o \in Observer, LookCache(o)
      PROVE  Good
    <2>1. /\ look[o].pc = "cache" /\ states' = states
          /\ setCachedState(look[o].replica, look[o].gateway, look[o].state, look[o].now)
        BY <1>2 DEF LookCache, store
    <2>2. /\ Agree(look[o].state, states[look[o].gateway])
          /\ states[look[o].gateway].state # "missing"
          /\ look[o].gateway \in Gateway /\ look[o].replica \in Replica
        BY <2>1, <1>i, <1>f DEF FramesAgree, FramesOK
    <2> QED BY <2>1, <2>2, <1>c
<1>3. ASSUME NEW t \in Txn, CacheAcquired(t) \/ CacheReleased(t) \/ OutcomeCache(t)
      PROVE  Refreshes(ctx[t].replica, ctx[t].gateway) /\ Good
    <2>1. /\ pc[t] \in {"acquired", "denied", "released", "cache"} /\ states' = states
          /\ setCachedState(ctx[t].replica, ctx[t].gateway, ctx[t].state, ctx[t].now)
        BY <1>3 DEF CacheAcquired, CacheReleased, OutcomeCache, store
    <2>2. /\ Agree(ctx[t].state, states[ctx[t].gateway])
          /\ states[ctx[t].gateway].state # "missing"
          /\ ctx[t].gateway \in Gateway /\ ctx[t].replica \in Replica
        BY <2>1, <1>i, <1>f DEF FramesAgree, FramesOK, GatewaysKnown
    <2> QED BY <2>1, <2>2, <1>c
<1>4. ASSUME NEW r \in Replica, PrepareStep(r) PROVE Good
    BY <1>4, <1>1, <1>s DEF PrepareStep, ReadCache, LoadState, SaveHalfOpen,
        PruneForRouting, PrepareReturns
<1>5. ASSUME NEW o \in Observer, LookStep(o) \/ LookFails(o) PROVE Good
    BY <1>5, <1>2, <1>s DEF LookStep, LookLoad, LookPrune, LookFails
<1>6. ASSUME NEW t \in Txn, InitiateStep(t) \/ OutcomeStep(t) \/ InitiateFails(t)
      PROVE  Good
    BY <1>6, <1>3, <1>s DEF InitiateStep, OutcomeStep, TryAcquire, Initiated,
        ReleaseProbe, OutcomeEvent, OutcomeGet, OutcomeStats, OutcomeRelease,
        OutcomeSave, InitiateFails
<1>7. ASSUME NEW t \in Txn, NEW r \in Replica, NEW g \in Gateway,
             MarkProbeSelected(t, r, g) \/ Route(t, r, g)
      PROVE  Good
    BY <1>7, <1>s DEF MarkProbeSelected, Route
<1>8. ASSUME NEW t \in Txn, NEW r \in Replica, NEW s \in Status, RecordOutcome(t, r, s)
      PROVE  Good
    BY <1>8, <1>s DEF RecordOutcome
<1>9. ASSUME NEW r \in Replica, NEW g \in Gateway, PrepareForRouting(r, g)
      PROVE  Good
    BY <1>9, <1>s DEF PrepareForRouting
<1>10. ASSUME NEW o \in Observer, NEW r \in Replica, NEW g \in Gateway, State(o, r, g)
       PROVE  Good
    BY <1>10, <1>s DEF State
<1>11. ASSUME Tick PROVE Good
    BY <1>11, <1>s DEF Tick
<1>12. ASSUME UNCHANGED vars PROVE Good
    BY <1>12, <1>s DEF vars
<1>13. [SerialNext]_vars => Good
    BY <1>4, <1>5, <1>6, <1>7, <1>8, <1>9, <1>10, <1>11, <1>12
        DEF SerialNext, PaymentsSucceedStep
<1> QED BY <1>1, <1>3, <1>13 DEF Good

\* The call that changed the stored state is over only when it has refreshed
\* a cache.
LEMMA ChangeSettles ==
    ASSUME SerialInv, ReplicaInv, [SerialNext]_vars, NEW g \in Gateway,
           Changing(g), ~ Changing(g)'
    PROVE  \E r \in Replica : Refreshes(r, g)
<1>i. HealthInv /\ TypeOK
    BY DEF SerialInv, HealthInv
<1>1. ASSUME NEW q \in Replica, prep[q].pc = "saved", prep[q].gateway = g
      PROVE  \E r \in Replica : Refreshes(r, g)
    <2>1. prep'[q] # prep[q]
        BY <1>1 DEF Changing
    <2>2. CacheHalfOpen(q)
        BY <1>1, <1>i, <2>1, CallMoves, PrepareFacts DEF PrepareStep
    <2> QED BY <1>1, <2>2, CacheFacts
<1>2. ASSUME NEW t \in Txn, pc[t] = "cache", ctx[t].gateway = g
      PROVE  \E r \in Replica : Refreshes(r, g)
    <2>1. ~ (pc'[t] = pc[t] /\ ctx'[t] = ctx[t])
        BY <1>2 DEF Changing
    <2>2. Moves(t)
        BY <1>i, <2>1, PaymentMoves
    <2>3. ~ (InitiateStep(t) \/ InitiateFails(t))
        BY <1>2, <1>i, PaymentFacts DEF InitiateStep
    <2>4. OutcomeCache(t)
        BY <1>2, <1>i, <2>2, <2>3, OutcomeFacts DEF Moves, OutcomeStep
    <2>5. ctx[t].replica \in Replica
        BY <1>i, FrameFacts DEF FramesOK
    <2> QED BY <1>2, <2>4, <2>5, CacheFacts
<1> QED BY <1>1, <1>2 DEF Changing

\* With one replica, its cache stays in agreement with the repository.
LEMMA CacheAgreesStep ==
    OneReplica /\ SerialInv /\ ReplicaInv /\ [SerialNext]_vars => CacheAgrees'
<1> SUFFICES ASSUME OneReplica, SerialInv, ReplicaInv, [SerialNext]_vars,
                    NEW r \in Replica, NEW g \in Gateway,
                    stateCache'[r][g].expiresAt # 0
             PROVE  /\ stateCache'[r][g].state.state # "missing"
                    /\ states'[g].state # "missing"
                    /\ ~ Changing(g)' => Agree(stateCache'[r][g].state, states'[g])
    BY DEF CacheAgrees
<1>i. HealthInv /\ TypeOK /\ CacheAgrees
    BY DEF SerialInv, HealthInv, ReplicaInv
<1>1. CASE Refreshes(r, g)
    BY <1>1 DEF Refreshes, Agree
<1>2. CASE stateCache'[r][g] = stateCache[r][g] /\ ~ Refreshes(r, g)
    <2>1. /\ stateCache[r][g].state.state # "missing" /\ states[g].state # "missing"
          /\ ~ Changing(g) => Agree(stateCache[r][g].state, states[g])
        BY <1>2, <1>i DEF CacheAgrees
    <2>2. states'[g].state # "missing"
        BY <2>1, RecordsStay
    <2>3. ASSUME ~ Changing(g)' PROVE Agree(states'[g], states[g])
        <3>1. ASSUME NEW q \in Replica, Opens(q, g) PROVE FALSE
            BY <3>1, <2>3, <1>i, PrepareFacts DEF Opens, Changing
        <3>2. ASSUME NEW t \in Txn, Decides(t, g) PROVE FALSE
            BY <3>2, <2>3, <1>i, OutcomeFacts DEF Decides, Changing
        <3>3. states[g] # NoState
            BY <2>1 DEF NoState
        <3> QED BY <1>i, <3>1, <3>2, <3>3, WriteFacts
                DEF Agree, Trims, Acquires, Releases
    <2>4. ~ Changing(g)' => ~ Changing(g)
        BY <1>2, ChangeSettles DEF OneReplica
    <2> QED BY <1>2, <2>1, <2>2, <2>3, <2>4 DEF Agree
<1> QED BY <1>1, <1>2, CacheFacts

\* The invariant of one replica holds from the start.
LEMMA InitReplica == Init => ReplicaInv
BY DEF Init, ReplicaInv, FramesAgree, CacheAgrees, IdlePrep, IdleLook, NoEntry

\* One replica used by one caller at a time: the calls that are about to
\* write the cache, and the cache between such calls, agree with the stored
\* state and deadline of every gateway.
THEOREM ReplicaInvariance ==
    ASSUME OneReplica
    PROVE  SerialSpec => [](SerialInv /\ ReplicaInv)
<1>1. SerialInv /\ ReplicaInv /\ [SerialNext]_vars => ReplicaInv'
    BY FramesAgreeStep, CacheAgreesStep DEF ReplicaInv
<1> QED BY <1>1, InitReplica, SerialInvariance, PTL DEF SerialSpec

\* One replica used by one caller at a time follows the state diagram of the
\* README: however long its cache keeps a record, it never opens a gateway
\* that is stored healthy, and it never skips a state.
THEOREM HealthDiagramHolds ==
    ASSUME OneReplica
    PROVE  SerialSpec => HealthDiagram
<1>1. ASSUME SerialInv, ReplicaInv, [SerialNext]_vars
      PROVE  [\A g \in Gateway : states'[g].state # states[g].state =>
                <<states[g].state, states'[g].state>> \in Diagram]_vars
    <2> SUFFICES ASSUME NEW g \in Gateway, states'[g].state # states[g].state
                 PROVE  <<states[g].state, states'[g].state>> \in Diagram
        OBVIOUS
    <2>i. HealthInv /\ OutcomesDue /\ RecordsSound /\ FramesAgree
        BY <1>1 DEF SerialInv, HealthInv, ReplicaInv
    <2>1. CASE states[g] = NoState /\ states'[g] = NewState
        BY <2>1 DEF NoState, NewState, Diagram
    <2>2. ASSUME NEW r \in Replica, Opens(r, g)
          PROVE  <<states[g].state, states'[g].state>> \in Diagram
        <3>1. states[g].state = "unhealthy" /\ states'[g].state = "half_open"
            BY <2>2, <2>i, PrepareFacts DEF Opens, FramesAgree
        <3> QED BY <3>1 DEF Diagram
    <2>3. ASSUME NEW t \in Txn, Decides(t, g)
          PROVE  <<states[g].state, states'[g].state>> \in Diagram
        <3>1. Due(t, states[g], ctx[t].state) /\ states'[g] = ctx[t].state
            BY <2>3, <2>i DEF Decides, OutcomeSave, OutcomesDue
        <3>2. \/ states[g].state = "healthy" /\ states'[g].state = "unhealthy"
              \/ states[g].state = "unhealthy" /\ states'[g].state = "half_open"
              \/ /\ states[g].state = "half_open"
                 /\ states'[g].state \in {"healthy", "unhealthy"}
            BY <3>1 DEF Due
        <3> QED BY <3>2 DEF Diagram
    <2> QED BY <1>1, <2>i, <2>1, <2>2, <2>3, WriteFacts
            DEF Agree, Trims, Acquires, Releases
<1> QED BY <1>1, ReplicaInvariance, PTL DEF SerialSpec, HealthDiagram

\* One replica used by one caller at a time keeps an unhealthy gateway out
\* until the deadline last stored for it: the half-open record that
\* PrepareForRouting or RecordOutcome saves carries the deadline of the record
\* it replaces, and that deadline has come.
THEOREM CooldownRespectedHolds ==
    ASSUME OneReplica
    PROVE  SerialSpec => CooldownRespected
<1> DEFINE Shut(g) == states[g].state = "unhealthy" /\ clock < states[g].unhealthyUntil
           Kept(g) == /\ states'[g].state = "unhealthy"
                      /\ states'[g].unhealthyUntil = states[g].unhealthyUntil
<1>1. ASSUME SerialInv, ReplicaInv, [SerialNext]_vars
      PROVE  \A g \in Gateway : Shut(g) => Kept(g)
    <2> SUFFICES ASSUME NEW g \in Gateway, Shut(g)
                 PROVE  Kept(g)
        OBVIOUS
    <2>i. HealthInv /\ OutcomesDue /\ RecordsSound /\ FramesAgree /\ TypeOK
        BY <1>1 DEF SerialInv, HealthInv, ReplicaInv
    <2>n. clock \in Nat /\ states[g].unhealthyUntil \in Nat
        BY <2>i, FrameFacts DEF FramesOK, RuntimeState
    <2>s. \A s \in RuntimeState :
             CooldownOK(s, clock) /\ s.state = "half_open" =>
                s.unhealthyUntil # states[g].unhealthyUntil
        BY <2>n DEF CooldownOK, RuntimeState
    <2>1. states[g] # NoState
        BY DEF NoState
    <2>2. ASSUME NEW r \in Replica, Opens(r, g) PROVE FALSE
        <3>1. prep[r].pc = "save" /\ prep[r].gateway = g /\ prep[r].state.state = "half_open"
            BY <2>2, <2>i, PrepareFacts DEF Opens
        <3>2. prep[r].state \in RuntimeState /\ CooldownOK(prep[r].state, clock)
            BY <2>i, FrameFacts DEF FramesOK, RecordsSound, Sound
        <3>3. states[g].unhealthyUntil = prep[r].state.unhealthyUntil
            BY <3>1, <2>i DEF FramesAgree
        <3> QED BY <3>1, <3>2, <3>3, <2>s
    <2>3. ASSUME NEW t \in Txn, Decides(t, g) PROVE Kept(g)
        <3>1. Due(t, states[g], ctx[t].state) /\ states'[g] = ctx[t].state
            BY <2>3, <2>i DEF Decides, OutcomeSave, OutcomesDue
        <3>2. ctx[t].state \in RuntimeState /\ CooldownOK(ctx[t].state, clock)
            BY <2>i, FrameFacts DEF FramesOK, RecordsSound, Sound
        <3> QED BY <3>1, <3>2, <2>s DEF Due
    <2> QED BY <1>1, <2>i, <2>1, <2>2, <2>3, WriteFacts
            DEF Agree, Trims, Acquires, Releases
<1> QED BY <1>1, ReplicaInvariance, PTL DEF SerialSpec, CooldownRespected

-----------------------------------------------------------------------------
(* The probe limit.                                                        *)

\* Time does not go back.
LEMMA ClockGrows ==
    ASSUME HealthInv, [SerialNext]_vars
    PROVE  clock \in Nat /\ clock' \in Nat /\ clock <= clock'
<1>t. clock \in Nat
    BY DEF HealthInv, TypeOK
<1> DEFINE Goal == clock' = clock \/ clock' = clock + 1
<1>s. ASSUME UNCHANGED store PROVE Goal
    BY <1>s DEF store
<1> HIDE DEF Goal
<1>1. ASSUME NEW r \in Replica, PrepareStep(r) PROVE Goal
    BY <1>1, <1>s DEF PrepareStep, ReadCache, LoadState, FillCache, SaveHalfOpen,
        CacheHalfOpen, PruneForRouting, CachePruned, PrepareReturns, Goal
<1>2. ASSUME NEW o \in Observer, LookStep(o) \/ LookFails(o) PROVE Goal
    BY <1>2, <1>s DEF LookStep, LookLoad, LookPrune, LookCache, LookFails, Goal
<1>3. ASSUME NEW t \in Txn, InitiateStep(t) \/ OutcomeStep(t) \/ InitiateFails(t)
      PROVE  Goal
    BY <1>3, <1>s DEF InitiateStep, OutcomeStep, TryAcquire, CacheAcquired, Initiated,
        ReleaseProbe, CacheReleased, OutcomeEvent, OutcomeGet, OutcomeStats,
        OutcomeRelease, OutcomeSave, OutcomeCache, InitiateFails, Goal
<1>4. ASSUME NEW t \in Txn, NEW r \in Replica, NEW g \in Gateway,
             MarkProbeSelected(t, r, g) \/ Route(t, r, g)
      PROVE  Goal
    BY <1>4, <1>s DEF MarkProbeSelected, Route
<1>5. ASSUME NEW t \in Txn, NEW r \in Replica, NEW s \in Status, RecordOutcome(t, r, s)
      PROVE  Goal
    BY <1>5, <1>s DEF RecordOutcome
<1>6. ASSUME NEW r \in Replica, NEW g \in Gateway, PrepareForRouting(r, g) PROVE Goal
    BY <1>6, <1>s DEF PrepareForRouting
<1>7. ASSUME NEW o \in Observer, NEW r \in Replica, NEW g \in Gateway, State(o, r, g)
      PROVE  Goal
    BY <1>7, <1>s DEF State
<1>8. ASSUME Tick PROVE Goal
    BY <1>8 DEF Tick, Goal
<1>9. ASSUME UNCHANGED vars PROVE Goal
    BY <1>9 DEF vars, Goal
<1>10. Goal
    BY <1>1, <1>2, <1>3, <1>4, <1>5, <1>6, <1>7, <1>8, <1>9
        DEF SerialNext, PaymentsSucceedStep
<1> QED BY <1>t, <1>10 DEF Goal

\* The deadline of a payment's slot is set by its admission only.
LEMMA DeadlineSet ==
    ASSUME HealthInv, [SerialNext]_vars, NEW t \in Txn
    PROVE  ctx'[t].probe = ctx[t].probe \/ TryAcquire(t)
<1>1. CASE pc'[t] = pc[t] /\ ctx'[t] = ctx[t]
    BY <1>1
<1>2. CASE InitiateStep(t) \/ InitiateFails(t)
    BY <1>2, PaymentFacts DEF InitiateStep
<1>3. CASE OutcomeStep(t)
    BY <1>3, OutcomeFacts DEF OutcomeStep, SameCall
<1>4. CASE \/ \E r \in Replica, g \in Gateway : MarkProbeSelected(t, r, g) \/ Route(t, r, g)
           \/ \E r \in Replica, s \in Status : RecordOutcome(t, r, s)
    BY <1>4, OutcomeFacts
<1> QED BY <1>1, <1>2, <1>3, <1>4, PaymentMoves DEF Moves, HealthInv

\* While a callback is recorded nobody is admitted, so every slot was granted
\* before the callback came in.
LEMMA TimelyStep == SerialInv /\ ProbesTimely /\ [SerialNext]_vars => ProbesTimely'
<1> SUFFICES ASSUME SerialInv, ProbesTimely, [SerialNext]_vars, NEW t \in Txn
             PROVE  /\ ctx'[t].probe <= clock' + ProbeTimeout
                    /\ \A u \in Txn : pc'[u] \in Recording =>
                         ctx'[t].probe <= ctx'[u].now + ProbeTimeout
    BY DEF ProbesTimely
<1>i. HealthInv /\ TypeOK /\ AtMostOneCall
    BY DEF SerialInv, HealthInv
<1>a. ProbeTimeout \in Nat /\ clock \in Nat /\ clock' \in Nat /\ clock <= clock'
    BY <1>i, ConfigAssumption, ClockGrows
<1>f. \A u \in Txn : /\ ctx[u].now \in Nat /\ ctx[u].now <= clock
                     /\ ctx[u].probe \in Nat
    BY <1>i, FrameFacts DEF FramesOK
<1>b. \A a, b, c \in Nat : b <= c /\ a <= b + ProbeTimeout => a <= c + ProbeTimeout
    BY <1>a
<1>c. \A b \in Nat : 0 <= b + ProbeTimeout /\ b + ProbeTimeout \in Nat
    BY <1>a
<1>n. AtMostOneCall'
    BY <1>i DEF SerialNext, vars, AtMostOneCall, Calls
<1>1. ctx[t].probe <= clock + ProbeTimeout
    BY DEF ProbesTimely
<1>2. CASE TryAcquire(t)
    <2>1. /\ pc'[t] \in {"acquired", "denied"}
          /\ ctx'[t].probe = ctx[t].now + ProbeTimeout \/ ctx'[t].probe = 0
        BY <1>2, <1>i, PaymentFacts
    <2>2. ctx'[t].probe <= clock' + ProbeTimeout
        BY <2>1, <1>a, <1>f
    <2>3. ASSUME NEW u \in Txn, pc'[u] \in Recording PROVE FALSE
        <3>1. pc'[t] \in Active /\ pc'[u] \in Active
            BY <2>1, <2>3 DEF Active, Selecting
        <3>2. t = u
            <4>1. <<"payment", t>> \in Calls' /\ <<"payment", u>> \in Calls'
                BY <3>1 DEF Calls, Active
            <4>2. <<"payment", t>> = <<"payment", u>>
                BY <4>1, <1>n DEF AtMostOneCall
            <4> QED BY <4>2
        <3> QED BY <2>1, <2>3, <3>2 DEF Recording
    <2> QED BY <2>2, <2>3
<1>3. CASE ctx'[t].probe = ctx[t].probe
    <2>1. ctx'[t].probe <= clock' + ProbeTimeout
        BY <1>3, <1>1, <1>a, <1>b, <1>f
    <2>2. ASSUME NEW u \in Txn, pc'[u] \in Recording
          PROVE  ctx'[t].probe <= ctx'[u].now + ProbeTimeout
        <3>0. pc[u] \in Recording => ctx[t].probe <= ctx[u].now + ProbeTimeout
            BY DEF ProbesTimely
        <3>1. CASE pc'[u] = pc[u] /\ ctx'[u] = ctx[u]
            BY <1>3, <2>2, <3>0, <3>1
        <3>2. CASE InitiateStep(u) \/ InitiateFails(u)
            BY <2>2, <3>2, <1>i, PaymentFacts DEF InitiateStep, Recording
        <3>3. CASE OutcomeStep(u)
            <4>1. pc[u] \in Recording
                BY <3>3, <1>i, OutcomeFacts DEF OutcomeStep, Recording
            <4>2. ctx'[u].now = ctx[u].now
                BY <2>2, <3>3, <1>i, OutcomeFacts DEF OutcomeStep, SameCall, Recording
            <4> QED BY <1>3, <3>0, <4>1, <4>2
        <3>4. CASE \E r \in Replica, g \in Gateway :
                     MarkProbeSelected(u, r, g) \/ Route(u, r, g)
            BY <2>2, <3>4, <1>i, OutcomeFacts DEF Recording
        <3>5. CASE \E r \in Replica, s \in Status : RecordOutcome(u, r, s)
            BY <1>1, <1>3, <3>5, <1>i, OutcomeFacts
        <3> QED BY <1>i, <3>1, <3>2, <3>3, <3>4, <3>5, PaymentMoves DEF Moves
    <2> QED BY <2>1, <2>2
<1> QED BY <1>i, <1>2, <1>3, DeadlineSet

\* Every probe in flight stays backed.
LEMMA BackedStep ==
    /\ SlotsOutlived
    /\ SerialInv /\ ReplicaInv /\ LimitInv
    /\ [SerialNext]_vars
    => ProbesBacked'
<1> SUFFICES ASSUME SlotsOutlived, SerialInv, ReplicaInv, LimitInv, [SerialNext]_vars,
                    NEW t \in Txn, pc'[t] \in {"acquired", "initiating", "pending"},
                    ctx'[t].probe # 0
             PROVE  Backed(t)'
    BY DEF ProbesBacked
<1>i. /\ HealthInv /\ TypeOK /\ RecordsSound /\ SlotsOwned /\ GatewaysKnown
      /\ OutcomesDue /\ FramesAgree /\ ProbesTimely /\ ProbesBacked
    BY DEF SerialInv, HealthInv, ReplicaInv, LimitInv
<1>f. FramesOK
    BY <1>i, FrameFacts
<1>c. clock \in Nat /\ clock' \in Nat /\ clock <= clock'
    BY <1>i, ClockGrows
<1>1. CASE TryAcquire(t)
    BY <1>1, <1>i, PaymentFacts DEF Backed
<1>2. CASE ~ TryAcquire(t)
    <2>1. ctx'[t].probe = ctx[t].probe /\ ctx[t].probe # 0
        BY <1>2, <1>i, DeadlineSet
    <2>2. ctx'[t].gateway = ctx[t].gateway
        BY <2>1, AdmissionStays
    <2>3. pc[t] \in {"acquired", "initiating", "pending"}
        <3>1. pc[t] \notin {"new", "acquire", "denied", "fallback"}
            BY <2>1, <1>i DEF SlotsOwned
        <3>2. CASE pc'[t] = pc[t] /\ ctx'[t] = ctx[t]
            BY <3>2
        <3>3. CASE InitiateStep(t) \/ InitiateFails(t)
            BY <1>2, <3>3, <1>i, PaymentFacts DEF InitiateStep
        <3>4. CASE OutcomeStep(t)
            BY <3>4, <1>i, OutcomeFacts DEF OutcomeStep
        <3>5. CASE \/ \E r \in Replica, g \in Gateway :
                        MarkProbeSelected(t, r, g) \/ Route(t, r, g)
                   \/ \E r \in Replica, s \in Status : RecordOutcome(t, r, s)
            BY <3>1, <3>5, <1>i, OutcomeFacts
        <3> QED BY <1>i, <3>2, <3>3, <3>4, <3>5, PaymentMoves DEF Moves
    <2> DEFINE g == ctx[t].gateway
               e == ctx[t].probe
               p == [txn |-> t, expiresAt |-> e]
               s == states[g]
               n == states'[g]
    <2>4. \/ p \in s.probes
          \/ e <= clock
          \/ /\ ProbeTimeout <= Cooldown
             /\ s.state = "healthy" \/ (s.state = "unhealthy" /\ e <= s.unhealthyUntil)
        BY <2>1, <2>3, <1>i DEF ProbesBacked, Backed
    <2>5. /\ g \in Gateway /\ e \in Nat /\ s \in RuntimeState /\ LedgerOK(s)
          /\ s.state # "missing" /\ p.txn = t /\ p.expiresAt = e
        BY <2>3, <1>f, <1>i DEF FramesOK, GatewaysKnown
    <2> DEFINE Goal ==
          \/ p \in n.probes
          \/ e <= clock'
          \/ /\ ProbeTimeout <= Cooldown
             /\ n.state = "healthy" \/ (n.state = "unhealthy" /\ e <= n.unhealthyUntil)
    <2>6. SUFFICES Goal
        BY <2>1, <2>2 DEF Backed
    <2>w. \/ n = s
          \/ s = NoState /\ n = NewState
          \/ Trims(g)
          \/ \E r \in Replica : Opens(r, g)
          \/ \E u \in Txn : Acquires(u, g) \/ Releases(u, g) \/ Decides(u, g)
        BY <1>i, <2>5, WriteFacts
    <2>7. ASSUME Agree(n, s), p \in s.probes => p \in n.probes \/ e <= clock
          PROVE  Goal
        BY <2>4, <2>5, <2>7, <1>c DEF Agree
    <2>8. CASE n = s
        BY <2>8, <2>7 DEF Agree
    <2>9. CASE Trims(g) \/ \E u \in Txn : Acquires(u, g)
        BY <2>9, <2>7, <2>5 DEF Trims, Acquires, KeepsLive
    <2>10. ASSUME NEW u \in Txn, Releases(u, g) PROVE Goal
        <3>1. u # t
            BY <2>10, <2>3, <1>i, PaymentFacts, OutcomeFacts DEF Releases
        <3> QED BY <2>10, <3>1, <2>7, <2>5 DEF Releases
    <2>11. ASSUME NEW r \in Replica, Opens(r, g) PROVE Goal
        <3>1. /\ prep[r].pc = "save" /\ prep[r].gateway = g
              /\ prep[r].state.state = "half_open"
            BY <2>11, <1>i DEF Opens, SaveHalfOpen, RecordsSound
        <3>2. s.state = "unhealthy" /\ s.unhealthyUntil = prep[r].state.unhealthyUntil
            BY <3>1, <1>i DEF FramesAgree
        <3>3. s.probes = {} /\ s.unhealthyUntil \in Nat
            BY <3>2, <2>5 DEF LedgerOK, RuntimeState
        <3>4. s.unhealthyUntil <= clock
            BY <3>1, <3>2, <1>f DEF FramesOK, CooldownOK
        <3>5. e <= clock
            BY <2>4, <2>5, <3>2, <3>3, <3>4, <1>c
        <3> QED BY <3>5, <2>5, <1>c
    <2>12. ASSUME NEW u \in Txn, Decides(u, g) PROVE Goal
        <3>1. /\ pc[u] = "save" /\ ctx[u].gateway = g /\ n = ctx[u].state
              /\ Due(u, s, n)
            BY <2>12, <1>i DEF Decides, OutcomeSave, OutcomesDue
        <3>2. e <= ctx[u].now + ProbeTimeout /\ ctx[u].now \in Nat
            BY <3>1, <1>i, <1>f DEF ProbesTimely, Recording, FramesOK
        <3>3. ProbeTimeout <= Cooldown => e <= ctx[u].now + Cooldown
            BY <3>2, <2>5, ConfigAssumption
        <3>4. n \in RuntimeState /\ CooldownOK(n, clock)
            BY <3>1, <1>f DEF FramesOK
        <3> HIDE DEF p, e, s, n, g
        <3>e. e <= clock => e <= clock'
            BY <1>c, <2>5
        <3>5. CASE s.state = "healthy"
            <4>1. p \notin s.probes
                BY <3>5, <2>5 DEF LedgerOK
            <4>2. n.state = "healthy" \/
                    (n.state = "unhealthy" /\ n.unhealthyUntil = ctx[u].now + Cooldown)
                BY <3>1, <3>5 DEF Due
            <4> QED BY <2>4, <3>e, <3>3, <4>1, <4>2
        <3>6. CASE s.state = "unhealthy"
            <4>1. p \notin s.probes
                BY <3>6, <2>5 DEF LedgerOK
            <4>2. n = s \/ (n.state = "half_open" /\ n.unhealthyUntil = s.unhealthyUntil)
                BY <3>1, <3>6 DEF Due
            <4>3. CASE n = s
                BY <2>4, <3>6, <3>e, <4>1, <4>3
            <4>4. CASE n.state = "half_open" /\ n.unhealthyUntil = s.unhealthyUntil
                <5>1. s.unhealthyUntil <= clock /\ s.unhealthyUntil \in Nat
                    BY <3>4, <4>4 DEF CooldownOK, RuntimeState
                <5>2. e <= clock
                    BY <2>4, <2>5, <3>6, <4>1, <5>1, <1>c
                <5> QED BY <5>2, <3>e
            <4> QED BY <4>2, <4>3, <4>4
        <3>7. CASE s.state = "half_open"
            <4>1. /\ n.state = "healthy" \/
                       (n.state = "unhealthy" /\ n.unhealthyUntil = ctx[u].now + Cooldown)
                  /\ HalfOpenProbeCount = 1 => s.probes = {}
                BY <3>1, <3>7 DEF Due
            <4>2. CASE ProbeTimeout <= Cooldown
                BY <3>3, <4>1, <4>2
            <4>3. CASE HalfOpenProbeCount = 1
                BY <2>4, <3>7, <3>e, <4>1, <4>3
            <4> QED BY <4>2, <4>3 DEF SlotsOutlived
        <3>8. s.state \in {"healthy", "unhealthy", "half_open"}
            BY <2>5 DEF RuntimeState, GatewayStates
        <3> QED BY <3>5, <3>6, <3>7, <3>8
    <2>13. s # NoState
        BY <2>5 DEF NoState
    <2> HIDE DEF Goal
    <2> QED BY <2>w, <2>8, <2>9, <2>10, <2>11, <2>12, <2>13
<1> QED BY <1>1, <1>2

\* While the gateway is half-open every awaited probe has a slot of its own,
\* and there are at most half_open_probe_count slots.
LEMMA BackedLimit == SerialInv /\ ProbesBacked => ProbeLimit
<1> SUFFICES ASSUME SerialInv, ProbesBacked, NEW g \in Gateway,
                    states[g].state = "half_open"
             PROVE  Cardinality(AwaitedProbes(g)) <= HalfOpenProbeCount
    BY DEF ProbeLimit
<1>f. FramesOK
    BY FrameFacts DEF SerialInv
<1>1. /\ IsFiniteSet(states[g].probes)
      /\ Cardinality(states[g].probes) <= HalfOpenProbeCount
    BY <1>f DEF FramesOK, LedgerOK
<1> DEFINE A == AwaitedProbes(g)
           f == [t \in A |-> [txn |-> t, expiresAt |-> ctx[t].probe]]
<1>2. ASSUME NEW t \in A
      PROVE  [txn |-> t, expiresAt |-> ctx[t].probe] \in states[g].probes
    <2>1. /\ t \in Txn /\ ctx[t].gateway = g /\ ctx[t].probe > clock
          /\ pc[t] \in {"acquired", "initiating", "pending"}
        BY <1>2 DEF AwaitedProbes
    <2>2. ctx[t].probe \in Nat /\ clock \in Nat
        BY <2>1, <1>f DEF FramesOK
    <2>3. ctx[t].probe # 0 /\ ~ (ctx[t].probe <= clock)
        BY <2>1, <2>2
    <2>4. Backed(t)
        BY <2>1, <2>3 DEF ProbesBacked
    <2> QED BY <2>1, <2>3, <2>4 DEF Backed
<1>3. f \in Injection(A, states[g].probes)
    <2>1. f \in [A -> states[g].probes]
        BY <1>2
    <2>2. ASSUME NEW a \in A, NEW b \in A, f[a] = f[b] PROVE a = b
        <3>1. f[a].txn = a /\ f[b].txn = b
            OBVIOUS
        <3> QED BY <2>2, <3>1
    <2> HIDE DEF f, A
    <2> QED BY <2>1, <2>2 DEF Injection, IsInjective
<1> HIDE DEF f
<1>4. /\ IsFiniteSet(A)
      /\ Cardinality(A) <= Cardinality(states[g].probes)
    BY <1>1, <1>3, FS_Injection
<1>5. /\ Cardinality(A) \in Nat /\ Cardinality(states[g].probes) \in Nat
      /\ HalfOpenProbeCount \in Nat
    BY <1>1, <1>4, FS_CardinalityType, ConfigAssumption
<1> QED BY <1>1, <1>4, <1>5

\* No slot is granted, and none is needed, in the initial state.
LEMMA InitLimit == Init => LimitInv
<1> SUFFICES ASSUME Init PROVE LimitInv
    OBVIOUS
<1>1. \A t \in Txn : ctx[t].probe = 0 /\ pc[t] = "new"
    BY DEF Init, NoCtx
<1>2. 0 <= clock + ProbeTimeout
    BY ConfigAssumption DEF Init
<1> QED BY <1>1, <1>2 DEF LimitInv, ProbesTimely, ProbesBacked, Recording

\* One replica used by one caller at a time never has more probes in flight at
\* a half-open gateway than half_open_probe_count, provided that a probe times
\* out within the cooldown or that only one is allowed: otherwise the probes of
\* the round that closed the gateway may still be awaited in the next.
THEOREM ProbeLimitHolds ==
    ASSUME OneReplica, SlotsOutlived
    PROVE  SerialSpec => []ProbeLimit
<1>1. SerialInv /\ ReplicaInv /\ LimitInv /\ [SerialNext]_vars => LimitInv'
    BY TimelyStep, BackedStep DEF LimitInv
<1>2. SerialInv /\ LimitInv => ProbeLimit
    BY BackedLimit DEF LimitInv
<1> QED BY <1>1, <1>2, InitLimit, ReplicaInvariance, PTL DEF SerialSpec
=============================================================================
