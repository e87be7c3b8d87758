-------------------------- MODULE HealthRepository --------------------------
(***************************************************************************)
(* The operations of the gateway health repository as functions of the     *)
(* stored record: internal/adapters/repository/memory and its Redis twin.  *)
(* Every operation holds the repository's mutex (memory) or is one command *)
(* or Lua script (Redis), so a component that uses this module applies one *)
(* of these operators per atomic step.                                     *)
(*                                                                         *)
(* Times are integers; 0 is the zero time.Time.  UpdatedAt is left out: no *)
(* code reads it.  HalfOpenProbes is a set: a transaction identifier is    *)
(* random and acquires at most one slot.                                   *)
(***************************************************************************)
EXTENDS Integers, FiniteSets

ZeroTime == 0

\* domain.GatewayRuntimeState; "missing" is a gateway with no stored record.
NoState  == [state |-> "missing", unhealthyUntil |-> ZeroTime,
             inFlight |-> 0, probes |-> {}]
NewState == [NoState EXCEPT !.state = "healthy"]

\* The in-memory mutations the health service makes on a copy of a record.
ToHealthy(s) == [state |-> "healthy", unhealthyUntil |-> ZeroTime,
                 inFlight |-> 0, probes |-> {}]
ToUnhealthy(s, until) == [state |-> "unhealthy", unhealthyUntil |-> until,
                          inFlight |-> 0, probes |-> {}]

Ensure(s) == IF s = NoState THEN NewState ELSE s

\* Seeded fault: a slot lapses one tick before its deadline.
LiveProbesEarly(probes, now) == {p \in probes : p.expiresAt > now + 1}

LiveProbes(probes, now) == {p \in probes : p.expiresAt > now}

pruneExpiredHalfOpenProbes(s, now) ==
    [s EXCEPT !.probes = LiveProbes(s.probes, now),
              !.inFlight = Cardinality(LiveProbes(s.probes, now))]

PruneExpiredHalfOpenProbes(s, now) ==
    IF s.state = "half_open" THEN pruneExpiredHalfOpenProbes(s, now) ELSE s

\* TryAcquireHalfOpenProbe returns (state, acquired): whether a slot is free,
\* and the record left behind (pruned even when the ledger is full).
\*
\* Seeded fault: the limit is compared with <= instead of <.
ProbeAvailableOffByOne(s, maxInFlight, now) ==
    /\ s.state = "half_open"
    /\ Cardinality(LiveProbes(s.probes, now)) <= maxInFlight

ProbeAvailable(s, maxInFlight, now) ==
    /\ s.state = "half_open"
    /\ Cardinality(LiveProbes(s.probes, now)) < maxInFlight

AddProbe(s, t, expiresAt, now) ==
    LET probes == LiveProbes(s.probes, now)
                    \cup {[txn |-> t, expiresAt |-> expiresAt]}
    IN  [s EXCEPT !.probes = probes, !.inFlight = Cardinality(probes)]

TryAcquireHalfOpenProbe(s, t, maxInFlight, expiresAt, now) ==
    IF ProbeAvailable(s, maxInFlight, now)
      THEN AddProbe(s, t, expiresAt, now)
      ELSE PruneExpiredHalfOpenProbes(s, now)

\* ReleaseHalfOpenProbe returns (state, released).
\*
\* Seeded fault: any live slot counts as this transaction's.
HoldsAnyProbe(s, t, now) ==
    s.state = "half_open" /\ LiveProbes(s.probes, now) # {}

HoldsProbe(s, t, now) ==
    /\ s.state = "half_open"
    /\ \E p \in LiveProbes(s.probes, now) : p.txn = t

\* Seeded fault: the counter is decremented whether or not a slot was held.
DropProbeBlindly(s, t, now) ==
    [s EXCEPT !.probes = {p \in LiveProbes(s.probes, now) : p.txn # t},
              !.inFlight = s.inFlight - 1]

DropProbe(s, t, now) ==
    LET probes == {p \in LiveProbes(s.probes, now) : p.txn # t}
    IN  [s EXCEPT !.probes = probes, !.inFlight = Cardinality(probes)]

\* Seeded fault: a release only prunes.
ReleaseOnlyPrunes(s, t, now) == PruneExpiredHalfOpenProbes(s, now)

ReleaseHalfOpenProbe(s, t, now) ==
    IF s.state = "half_open" THEN DropProbe(s, t, now) ELSE s

\* The event log: an insert drops what is older than the retention.
RecordEvent(events, e, retention) ==
    {x \in events : x.at >= e.at - retention} \cup {e}

StatsSince(events, g, since, until) ==
    LET Count(status) == Cardinality({x \in events :
            /\ x.gateway = g /\ x.status = status
            /\ since <= x.at /\ x.at <= until})
    IN  [successes |-> Count("success"), failures |-> Count("failure")]
=============================================================================
