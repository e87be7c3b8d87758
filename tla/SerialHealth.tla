---------------------------- MODULE SerialHealth ----------------------------
(***************************************************************************)
(* GatewayHealth used by one caller at a time: the methods of every        *)
(* HealthService do not overlap, and no repository call made for a payment *)
(* fails.  This is how the repository's tests drive the service.           *)
(***************************************************************************)
EXTENDS GatewayHealth

\* The method calls in progress.
Calls ==
    {<<"payment", t>> : t \in {u \in Txn :
        pc[u] \in Selecting \cup Releasing \cup Recording}}
    \cup {<<"prepare", r>> : r \in {q \in Replica : prep[q].pc # "idle"}}
    \cup {<<"state", o>> : o \in {p \in Observer : look[p].pc # "idle"}}

AtMostOneCall == \A c, d \in Calls : c = d

PaymentsSucceedStep ==
    \/ Tick
    \/ \E r \in Replica : PrepareStep(r)
    \/ \E r \in Replica, g \in Gateway : PrepareForRouting(r, g)
    \/ \E o \in Observer : LookStep(o) \/ LookFails(o)
    \/ \E o \in Observer, r \in Replica, g \in Gateway : State(o, r, g)
    \/ \E t \in Txn : InitiateStep(t) \/ OutcomeStep(t) \/ InitiateFails(t)
    \/ \E t \in Txn, r \in Replica, g \in Gateway :
          MarkProbeSelected(t, r, g) \/ Route(t, r, g)
    \/ \E t \in Txn, r \in Replica, s \in Status : RecordOutcome(t, r, s)

SerialNext == PaymentsSucceedStep /\ AtMostOneCall'

SerialSpec == Init /\ [][SerialNext]_vars
=============================================================================
