------------------------------- MODULE Routing -------------------------------
(***************************************************************************)
(* RoutingService (internal/service/routing_service.go) composed with the  *)
(* health service: SelectGateway chooses from a per-replica snapshot that  *)
(* expires, that one request rebuilds under the write lock while the       *)
(* others wait, and that a refused probe throws away.                      *)
(*                                                                         *)
(* Which candidate selectWeighted returns is left open here;               *)
(* WeightedSelection models it.  The order in which a build visits the     *)
(* gateways is open too: a configuration may list them in any order.       *)
(***************************************************************************)
EXTENDS GatewayHealth, Sequences

CONSTANTS
    RoutingTTL,   \* routing_cache_ttl_ms
    Configs,      \* the successive configurations: their enabled gateways
    Exclusions    \* the gateway sets an order's blacklist may exclude

ASSUME RoutingAssumption ==
    /\ RoutingTTL \in Nat \ {0}
    /\ Configs \in Seq((SUBSET Gateway) \ {{}})
    /\ Configs # <<>>
    /\ Exclusions \subseteq SUBSET Gateway
    /\ {} \in Exclusions
    /\ Txn # {}

VARIABLES
    version,       \* which of the configurations is current
    snapshot,      \* per replica: RoutingService.cache
    build,         \* per replica: the holder of the write lock and its "next"
    sel,           \* per transaction: its SelectGateway call
    lastSick,      \* history: when the repository last held a sick state,
    lastEnabled,   \* when the gateway was last enabled,
    lastDisabled   \* and when it was last disabled

history == <<lastSick, lastEnabled, lastDisabled>>
routing == <<version, snapshot, build, sel>>
allVars == <<vars, routing, history>>
-----------------------------------------------------------------------------
Snapshot == [healthy : SUBSET Gateway, probes : SUBSET Gateway, expiresAt : Nat]
BuildPC  == {"free", "loop", "prepare"}
Build    == [pc : BuildPC, txn : Txn, todo : SUBSET Gateway, next : Snapshot]
SelPC    == {"idle", "read", "lock", "build", "choose", "probe", "fallback",
             "chosen", "refused", "failed"}
Sel      == [pc : SelPC, replica : Replica, now : Nat, excluded : Exclusions,
             snapshot : Snapshot]

\* The gateways enabled with a positive weight: line 121.
Enabled == Configs[version]

\* Placeholders of locals that are not live.
AnyTxn     == CHOOSE t \in Txn : TRUE
NoSnapshot == [healthy |-> {}, probes |-> {}, expiresAt |-> 0]
NoBuild    == [pc |-> "free", txn |-> AnyTxn, todo |-> {}, next |-> NoSnapshot]
IdleSel    == [pc |-> "idle", replica |-> AnyReplica, now |-> 0,
               excluded |-> {}, snapshot |-> NoSnapshot]

RoutingInit ==
    /\ Init
    /\ version = 1
    /\ snapshot = [r \in Replica |-> NoSnapshot]
    /\ build = [r \in Replica |-> NoBuild]
    /\ sel = [t \in Txn |-> IdleSel]
    /\ lastSick = [g \in Gateway |-> 0]
    /\ lastEnabled = [g \in Gateway |-> IF g \in Enabled THEN clock ELSE 0]
    /\ lastDisabled = [g \in Gateway |-> IF g \in Enabled THEN 0 ELSE clock]

\* Nobody holds the write lock of replica r.
Unlocked(r) == build[r].pc = "free"

\* Seeded fault: a stored snapshot is used whatever the time.
FreshOnceStored(s, now) == s.expiresAt # 0

\* Seeded fault: a snapshot serves the instant of its expiry too.
FreshAtExpiry(s, now) == now <= s.expiresAt

Fresh(s, now) == now < s.expiresAt

Answer(t, outcome) == sel' = [sel EXCEPT ![t] = [IdleSel EXCEPT !.pc = outcome]]
Goto(t, label) == sel' = [sel EXCEPT ![t].pc = label]
Use(t, s) == sel' = [sel EXCEPT ![t].pc = "choose", ![t].snapshot = s]

-----------------------------------------------------------------------------
(* snapshot(ctx), lines 97-142.                                            *)

SelectGateway(t, r, excluded) ==
    /\ sel[t].pc = "idle"
    /\ sel' = [sel EXCEPT ![t] = [pc |-> "read", replica |-> r, now |-> clock,
                                  excluded |-> excluded, snapshot |-> NoSnapshot]]
    /\ UNCHANGED <<vars, version, snapshot, build>>

\* Under the read lock.
ReadSnapshot(t) ==
    LET r == sel[t].replica
    IN  /\ sel[t].pc = "read"
        /\ Unlocked(r)
        /\ IF Fresh(snapshot[r], sel[t].now) THEN Use(t, snapshot[r])
                                             ELSE Goto(t, "lock")
        /\ UNCHANGED <<vars, version, snapshot, build>>

\* Under the write lock: the second check, made with the time read before
\* the wait, and the start of the build.
LockSnapshot(t) ==
    LET r == sel[t].replica
        now == sel[t].now
    IN  /\ sel[t].pc = "lock"
        /\ Unlocked(r)
        /\ IF Fresh(snapshot[r], now)
             THEN Use(t, snapshot[r]) /\ UNCHANGED build
             ELSE /\ Goto(t, "build")
                  /\ build' = [build EXCEPT ![r] =
                       [pc |-> "loop", txn |-> t, todo |-> Enabled,
                        next |-> [NoSnapshot EXCEPT !.expiresAt = now + RoutingTTL]]]
        /\ UNCHANGED <<vars, version, snapshot>>

PrepareGateway(r, g) ==
    /\ build[r].pc = "loop"
    /\ g \in build[r].todo
    /\ PrepareForRouting(r, g)
    /\ build' = [build EXCEPT ![r].pc = "prepare", ![r].todo = @ \ {g}]
    /\ UNCHANGED <<version, snapshot, sel>>

\* The switch on the state PrepareForRouting returned.
Sorted(next, g, s) ==
    CASE s.state = "healthy" -> [next EXCEPT !.healthy = @ \cup {g}]
      [] s.state = "half_open" /\ s.inFlight < HalfOpenProbeCount ->
                                [next EXCEPT !.probes = @ \cup {g}]
      [] OTHER -> next

SortGateway(r) ==
    /\ PrepareReturns(r)
    /\ build' = [build EXCEPT ![r].pc = "loop",
                   ![r].next = Sorted(@, prep[r].gateway, prep[r].state)]
    /\ UNCHANGED <<version, snapshot, sel>>

\* Seeded fault: a gateway whose state cannot be read is skipped.
BuildSkips(r) ==
    /\ PrepareFails(r)
    /\ build' = [build EXCEPT ![r].pc = "loop"]
    /\ UNCHANGED <<version, snapshot, sel>>

\* Seeded fault: the error return keeps the lock.
BuildFailsLocked(r) ==
    /\ PrepareFails(r)
    /\ Answer(build[r].txn, "failed")
    /\ UNCHANGED <<version, snapshot, build>>

\* One repository error ends the build; the old snapshot stays.
BuildFails(r) ==
    /\ PrepareFails(r)
    /\ Answer(build[r].txn, "failed")
    /\ build' = [build EXCEPT ![r] = NoBuild]
    /\ UNCHANGED <<version, snapshot>>

StoreSnapshot(r) ==
    /\ build[r].pc = "loop"
    /\ build[r].todo = {}
    /\ snapshot' = [snapshot EXCEPT ![r] = build[r].next]
    /\ Use(build[r].txn, build[r].next)
    /\ build' = [build EXCEPT ![r] = NoBuild]
    /\ UNCHANGED <<vars, version>>

-----------------------------------------------------------------------------
(* SelectGateway, lines 62-95, once it has a snapshot.                     *)

\* filterExcluded.
HealthyLeft(t) == sel[t].snapshot.healthy \ sel[t].excluded
ProbesLeft(t)  == sel[t].snapshot.probes \ sel[t].excluded

ChooseProbe(t, g) ==
    /\ sel[t].pc = "choose"
    /\ g \in ProbesLeft(t)
    /\ MarkProbeSelected(t, sel[t].replica, g)
    /\ Goto(t, "probe")
    /\ UNCHANGED <<version, snapshot, build>>

ProbeGranted(t) ==
    /\ sel[t].pc = "probe"
    /\ pc[t] = "acquired"
    /\ CacheAcquired(t)
    /\ Answer(t, "chosen")
    /\ UNCHANGED <<version, snapshot, build>>

\* invalidateCache, after MarkProbeSelected returned an error.
InvalidateCache(t) ==
    LET r == sel[t].replica
    IN  /\ sel[t].pc = "probe"
        /\ pc[t] = "fallback"
        /\ Unlocked(r)
        /\ snapshot' = [snapshot EXCEPT ![r] = NoSnapshot]
        /\ Goto(t, "fallback")
        /\ UNCHANGED <<vars, version, build>>

\* The probes, if any, have been tried.
AmongHealthy(t) ==
    \/ sel[t].pc = "choose" /\ ProbesLeft(t) = {}
    \/ sel[t].pc = "fallback"

ChooseHealthy(t, g) ==
    /\ AmongHealthy(t)
    /\ g \in HealthyLeft(t)
    /\ Route(t, sel[t].replica, g)
    /\ Answer(t, "chosen")
    /\ UNCHANGED <<version, snapshot, build>>

NoAvailableGateway(t) ==
    /\ AmongHealthy(t)
    /\ HealthyLeft(t) = {}
    /\ Answer(t, "refused")
    /\ UNCHANGED <<vars, version, snapshot, build>>

-----------------------------------------------------------------------------
(* The configuration, the process, and the rest of the health service.     *)

ReloadGateways ==
    /\ version < Len(Configs)
    /\ version' = version + 1
    /\ UNCHANGED <<vars, snapshot, build, sel>>

Lost(t, r) == sel[t].replica = r /\ sel[t].pc \notin
                {"idle", "chosen", "refused", "failed"}

RestartReplica(r) ==
    /\ Restart(r)
    /\ snapshot' = [snapshot EXCEPT ![r] = NoSnapshot]
    /\ build' = [build EXCEPT ![r] = NoBuild]
    /\ sel' = [t \in Txn |-> IF Lost(t, r) THEN [IdleSel EXCEPT !.pc = "failed"]
                                           ELSE sel[t]]
    /\ UNCHANGED version

HealthStep ==
    /\ \/ Tick
       \/ \E r \in Replica : prep[r].pc # "done" /\ PrepareStep(r)
       \/ \E o \in Observer : LookStep(o) \/ LookFails(o)
       \/ \E o \in Observer, r \in Replica, g \in Gateway : State(o, r, g)
       \/ \E t \in Txn : \/ TryAcquire(t) \/ AcquireFails(t)
                         \/ pc[t] = "denied" /\ CacheAcquired(t)
                         \/ Initiated(t) \/ ReleaseProbe(t) \/ CacheReleased(t)
                         \/ OutcomeStep(t) \/ InitiateFails(t) \/ HandlerFails(t)
       \/ \E t \in Txn, r \in Replica, s \in Status : RecordOutcome(t, r, s)
    /\ UNCHANGED routing

Sick == {"unhealthy", "half_open"}

\* The history variables watch every step.
Watch ==
    /\ lastSick' = [g \in Gateway |->
         IF states'[g].state \in Sick THEN clock' ELSE lastSick[g]]
    /\ lastEnabled' = [g \in Gateway |->
         IF g \in Enabled' THEN clock' ELSE lastEnabled[g]]
    /\ lastDisabled' = [g \in Gateway |->
         IF g \in Enabled' THEN lastDisabled[g] ELSE clock']

BuildStep(r) ==
    \/ \E g \in Gateway : PrepareGateway(r, g)
    \/ SortGateway(r) \/ StoreSnapshot(r)

SelectStep(t) ==
    \/ ReadSnapshot(t) \/ LockSnapshot(t) \/ InvalidateCache(t)
    \/ ProbeGranted(t) \/ NoAvailableGateway(t)
    \/ \E g \in Gateway : ChooseProbe(t, g) \/ ChooseHealthy(t, g)

RoutingStep ==
    \/ HealthStep
    \/ \E r \in Replica : BuildStep(r) \/ BuildFails(r) \/ RestartReplica(r)
    \/ \E t \in Txn : SelectStep(t)
    \/ \E t \in Txn, r \in Replica, x \in Exclusions : SelectGateway(t, r, x)
    \/ ReloadGateways

RoutingNext == RoutingStep /\ Watch

RoutingSpec == RoutingInit /\ [][RoutingNext]_allVars
-----------------------------------------------------------------------------
(* What the routing service promises.                                      *)

\* The gateway a request is being routed to as healthy in this step.
RoutedAsHealthy(t, g) ==
    pc[t] \in {"new", "fallback"} /\ pc'[t] = "initiating" /\ ctx'[t].gateway = g

\* A payment is sent to a gateway as healthy only if the repository held
\* "healthy" for it within the two cache TTLs before the request began:
\* the snapshot's and the state cache's staleness add up and no more, though
\* a build may last, wait for the lock and overlap any health transition.
EndToEndStaleness ==
    [][\A t \in Txn, g \in Gateway : RoutedAsHealthy(t, g) =>
         sel[t].now < lastHealthy[g] + CacheTTL + RoutingTTL]_allVars

\* A gateway disabled in the configuration receives no request that began a
\* snapshot TTL or more after it was disabled, as healthy or as a probe.
DisabledDrains ==
    [][\A t \in Txn : pc[t] \in {"new", "fallback"} /\ pc'[t] # pc[t] =>
         sel[t].now < lastEnabled[ctx'[t].gateway] + RoutingTTL]_allVars

\* A request is refused for want of a gateway only if each gateway it may use
\* was sick, or disabled, recently enough for a snapshot to remember it.
NoneOverlooked ==
    [][\A t \in Txn : sel[t].pc # "refused" /\ sel'[t].pc = "refused" =>
         \A g \in Gateway \ sel[t].excluded :
            \/ sel[t].now < lastSick[g] + CacheTTL + RoutingTTL
            \/ sel[t].now < lastDisabled[g] + RoutingTTL]_allVars

\* The write lock of a replica is held exactly while one of its requests is
\* building the snapshot: whichever way a build ends, by a repository error
\* or a restart too, the requests queued behind it are let in.
LockDiscipline ==
    /\ \A r \in Replica : ~Unlocked(r) =>
         LET t == build[r].txn
         IN  sel[t].pc = "build" /\ sel[t].replica = r
    /\ \A t \in Txn : sel[t].pc = "build" =>
         LET b == build[sel[t].replica]
         IN  b.pc # "free" /\ b.txn = t
    /\ \A r \in Replica : prep[r].pc # "idle" <=> build[r].pc = "prepare"

-----------------------------------------------------------------------------
(* The inductive invariant behind these properties.                        *)

RoutingTypeOK ==
    /\ version \in DOMAIN Configs
    /\ snapshot \in [Replica -> Snapshot]
    /\ build \in [Replica -> Build]
    /\ sel \in [Txn -> Sel]
    /\ lastSick \in [Gateway -> Nat]
    /\ lastEnabled \in [Gateway -> Nat]
    /\ lastDisabled \in [Gateway -> Nat]

\* The history is up to date, and never ahead of the clock.
HistoryOK ==
    \A g \in Gateway :
        /\ lastSick[g] <= clock /\ lastEnabled[g] <= clock /\ lastDisabled[g] <= clock
        /\ states[g].state \in Sick => lastSick[g] = clock
        /\ IF g \in Enabled THEN lastEnabled[g] = clock ELSE lastDisabled[g] = clock

\* A gateway that is cached, that a call has loaded or that a payment was sent
\* to has a record, and no save takes it away.
RecordsKnown ==
    /\ \A r \in Replica, g \in Gateway :
         stateCache[r][g].expiresAt # 0 => states[g] # NoState
    /\ \A r \in Replica : prep[r].pc \notin {"idle", "read", "load"} =>
         states[prep[r].gateway] # NoState
    /\ \A o \in Observer : look[o].pc \in {"prune", "cache"} =>
         states[look[o].gateway] # NoState
    /\ \A t \in Txn :
         /\ pc[t] # "new" => states[ctx[t].gateway] # NoState
         /\ pc[t] = "save" => ctx[t].state # NoState

\* What is cached, or about to be, as not healthy was so in the repository
\* after "now": the counterpart of FramesFresh and BoundedStaleness.
SicknessFresh ==
    /\ \A r \in Replica, g \in Gateway :
         stateCache[r][g].state.state # "healthy" =>
             stateCache[r][g].expiresAt <= lastSick[g] + CacheTTL
    /\ \A r \in Replica : prep[r].state.state # "healthy" =>
         /\ prep[r].pc \in {"fill", "saved", "pruned"} =>
              prep[r].now <= lastSick[prep[r].gateway]
         /\ prep[r].pc = "done" =>
              prep[r].now < lastSick[prep[r].gateway] + CacheTTL
    /\ \A o \in Observer :
         look[o].state.state # "healthy" /\ look[o].pc = "cache" =>
              look[o].now <= lastSick[look[o].gateway]
    /\ \A t \in Txn :
         /\ ctx[t].state.state # "healthy"
         /\ pc[t] \in {"acquired", "denied", "released", "cache"}
         => ctx[t].now <= lastSick[ctx[t].gateway]

\* A snapshot expires before it could mislead about the gateways it lists and
\* about those it leaves out, the ones still pending in a build excepted.
SnapshotOK(s, pending) ==
    /\ \A g \in s.healthy :
         s.expiresAt < lastHealthy[g] + CacheTTL + RoutingTTL
    /\ \A g \in s.healthy \cup s.probes \cup pending :
         s.expiresAt <= lastEnabled[g] + RoutingTTL
    /\ \A g \in s.healthy \cup s.probes : states[g] # NoState
    /\ \A g \in Gateway \ (s.healthy \cup pending) :
         \/ s.expiresAt < lastSick[g] + CacheTTL + RoutingTTL
         \/ s.expiresAt <= lastDisabled[g] + RoutingTTL

Pending(r) == build[r].todo \cup
                IF build[r].pc = "prepare" THEN {prep[r].gateway} ELSE {}

SnapshotsOK == \A r \in Replica : SnapshotOK(snapshot[r], {})

BuildsOK ==
    \A r \in Replica : ~Unlocked(r) =>
        /\ SnapshotOK(build[r].next, Pending(r))
        /\ build[r].next.expiresAt = sel[build[r].txn].now + RoutingTTL
        /\ build[r].pc = "prepare" =>
              sel[build[r].txn].now <= prep[r].now

SelectionsOK ==
    \A t \in Txn :
        /\ sel[t].now <= clock
        /\ sel[t].pc \in {"idle", "read", "lock", "build", "choose"} => pc[t] = "new"
        /\ sel[t].pc = "probe" => /\ pc[t] \in Selecting \cup {"fallback"}
                                  /\ ctx[t].replica = sel[t].replica
        /\ sel[t].pc = "fallback" => pc[t] = "fallback"
        /\ sel[t].pc \in {"choose", "probe", "fallback"} =>
              /\ sel[t].now < sel[t].snapshot.expiresAt
              /\ SnapshotOK(sel[t].snapshot, {})

RoutingInv ==
    /\ RoutingTypeOK
    /\ HistoryOK
    /\ RecordsKnown
    /\ SicknessFresh
    /\ LockDiscipline
    /\ SnapshotsOK
    /\ BuildsOK
    /\ SelectionsOK
=============================================================================
