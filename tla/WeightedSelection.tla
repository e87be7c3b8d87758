-------------------------- MODULE WeightedSelection --------------------------
(***************************************************************************)
(* RoutingService.selectWeighted (internal/service/routing_service.go) as  *)
(* a function of the candidate list and the value the shared atomic        *)
(* counter returns, over the gateways of a stored configuration.           *)
(***************************************************************************)
EXTENDS DomainConfig, FiniteSets

CONSTANT MaxCounter   \* bound on the counter's value before a round

ASSUME CounterAssumption == MaxCounter \in Nat

\* The candidates of a snapshot: enabled gateways, in the file's order, that
\* the health service (and the blacklist) leaves.
SnapshotOf(c, healthy) ==
    LET next[i \in 0..Len(c.gateways)] ==
          IF i = 0 THEN <<>>
          ELSE IF /\ i \in healthy
                  /\ c.gateways[i].enabled /\ c.gateways[i].weight > 0
               THEN Append(next[i - 1], c.gateways[i])
               ELSE next[i - 1]
    IN  next[Len(c.gateways)]

\* The running sum of the weights of the first k candidates.
Running(candidates) ==
    LET sum[k \in 0..Len(candidates)] ==
          IF k = 0 THEN 0 ELSE sum[k - 1] + candidates[k].weight
    IN  sum

\* Seeded fault: a slot equal to the running sum is taken.
SlotBelowOrAt(slot, running) == slot <= running

SlotBelow(slot, running) == slot < running

\* The position of the candidate chosen when counter.Add(1) returns "count".
selectWeighted(candidates, count) ==
    LET running == Running(candidates)
        slot == count % running[Len(candidates)]
    IN  CHOOSE k \in DOMAIN candidates :
          /\ SlotBelow(slot, running[k])
          /\ \A j \in 1..(k - 1) : ~SlotBelow(slot, running[j])

-----------------------------------------------------------------------------
\* Whatever the health of the gateways, and wherever the counter stands, a
\* round of as many selections as the candidates weigh together gives each
\* of them exactly its weight: none is starved or favoured by the position
\* it has in the file.
FairShares ==
    \A healthy \in SUBSET DOMAIN stored.gateways, before \in 0..MaxCounter :
        LET candidates == SnapshotOf(stored, healthy)
            total == Running(candidates)[Len(candidates)]
        IN  \A k \in DOMAIN candidates :
              Cardinality({n \in 1..total :
                  selectWeighted(candidates, before + n) = k}) = candidates[k].weight
=============================================================================
