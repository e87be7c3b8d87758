---------------------------- MODULE Transactions ----------------------------
(***************************************************************************)
(* TransactionService.Initiate and Callback, the transaction repository    *)
(* and the per-order gateway blacklist, memory or Redis.                   *)
(*                                                                         *)
(* Every repository call is one atomic step: it holds the repository's     *)
(* mutex, or is one Redis command or script.  Handlers of different        *)
(* requests interleave between those steps, on one replica or on several.  *)
(* The health service and the routing service appear as the single effect  *)
(* they have here: an outcome counted, a gateway chosen among those not    *)
(* excluded.  Amount, instrument, reason and timestamps are left out: they *)
(* are copied and never tested.                                            *)
(***************************************************************************)
EXTENDS CallbackDecoding, Integers, Sequences, FiniteSets

CONSTANTS
    Txn,         \* identifiers IDGenerator draws; a request owns one
    Order,       \* order_id values
    Gateway,     \* configured gateways
    Delivery,    \* callback requests that can be in progress at once
    NoOrder,     \* the order_id of a callback that gives none
    Thresholds   \* the values order_gateway_failure_threshold may take

ASSUME PopulationAssumption ==
    /\ Order # {} /\ Gateway # {} /\ Txn # {}
    /\ NoOrder \notin Order

\* WithDefaults and Validate leave a positive threshold.
ASSUME ThresholdAssumption == Thresholds # {} /\ Thresholds \subseteq Nat \ {0}

VARIABLES
    transactions,   \* TransactionRepository: the stored records
    attempts,       \* TransactionRepository: the attempt counter of an order
    summaries,      \* OrderGatewayBlacklistRepository
    threshold,      \* the threshold of the current configuration
    req,            \* per transaction: the Initiate call that owns it
    call,           \* per delivery: the Callback call in progress
    counted,        \* history: outcomes given to HealthService.RecordOutcome
    posted,         \* history: how often the blacklist recorded it
    answered,       \* history: transactions some callback was told are final
    barred,         \* history: the gateways an order's outcomes speak against
    began           \* history: the same of its order, when a request began

stores == <<transactions, attempts, summaries>>
ghosts == <<counted, posted, answered, barred, began>>
vars   == <<transactions, attempts, summaries, threshold, req, call,
            counted, posted, answered, barred, began>>

-----------------------------------------------------------------------------
Final       == {"success", "failure"}
Statuses    == {"missing", "pending"} \cup Final
Transaction == [status : Statuses, order : Order, gateway : Gateway, attempt : Nat]
Summary     == [failures : Nat, successes : Nat, blacklisted : BOOLEAN]
ReqPC       == {"new", "select", "attempt", "initiate", "save", "initiated",
                "failed"}
Req         == [pc : ReqPC, order : Order, excluded : SUBSET Gateway,
                gateway : Gateway, attempt : Nat]
CallPC      == {"idle", "complete", "duplicate", "health", "blacklist"}
Call        == [pc : CallPC, txn : Txn, gateway : Gateway, status : Final]

\* Placeholders of locals that are not live.
AnyTxn     == CHOOSE t \in Txn : TRUE
AnyOrder   == CHOOSE o \in Order : TRUE
AnyGateway == CHOOSE g \in Gateway : TRUE
NoTransaction == [status |-> "missing", order |-> AnyOrder,
                  gateway |-> AnyGateway, attempt |-> 0]
NoSummary  == [failures |-> 0, successes |-> 0, blacklisted |-> FALSE]
NoReq      == [pc |-> "new", order |-> AnyOrder, excluded |-> {},
               gateway |-> AnyGateway, attempt |-> 0]
IdleCall   == [pc |-> "idle", txn |-> AnyTxn, gateway |-> AnyGateway,
               status |-> "success"]

Init ==
    /\ transactions = [t \in Txn |-> NoTransaction]
    /\ attempts = [o \in Order |-> 0]
    /\ summaries = [o \in Order |-> [g \in Gateway |-> NoSummary]]
    /\ threshold \in Thresholds
    /\ req = [t \in Txn |-> NoReq]
    /\ call = [d \in Delivery |-> IdleCall]
    /\ counted = [t \in Txn |-> <<>>]
    /\ posted = [t \in Txn |-> 0]
    /\ answered = {}
    /\ barred = [o \in Order |-> {}]
    /\ began = [t \in Txn |-> {}]

-----------------------------------------------------------------------------
(* The repositories' operations as functions of what they hold.            *)

BlacklistedGateways(o) == {g \in Gateway : summaries[o][g].blacklisted}

\* Seeded fault: a final transaction is completed again by another status.
CompleteAgain(current, status) ==
    IF current = status THEN "idempotent" ELSE "changed"

\* TransactionRepository.Complete: the code the Redis script returns.  Its
\* "not_found" cannot follow a successful GetByID: records are never deleted.
CompleteCode(current, status) ==
    IF current \notin Final THEN "changed"
    ELSE IF current = status THEN "idempotent" ELSE "conflict"

\* Seeded fault: a success after which a failure still blacklists.
SummaryForgiving(s, status, limit) ==
    IF status = "success"
      THEN [s EXCEPT !.successes = @ + 1, !.blacklisted = FALSE]
      ELSE [s EXCEPT !.failures = @ + 1,
                     !.blacklisted = @ \/ s.failures + 1 >= limit]

\* Seeded fault: a success clears the failures counted so far.
SummaryResets(s, status, limit) ==
    IF status = "success"
      THEN [failures |-> 0, successes |-> s.successes + 1, blacklisted |-> FALSE]
      ELSE [s EXCEPT !.failures = @ + 1,
                     !.blacklisted = @ \/ (s.successes = 0 /\ s.failures + 1 >= limit)]

\* Seeded fault: the failure being recorded is not counted in.
SummaryLate(s, status, limit) ==
    IF status = "success"
      THEN [s EXCEPT !.successes = @ + 1, !.blacklisted = FALSE]
      ELSE [s EXCEPT !.failures = @ + 1,
                     !.blacklisted = @ \/ (s.successes = 0 /\ s.failures >= limit)]

\* OrderGatewayBlacklistRepository.RecordOutcome.
NextSummary(s, status, limit) ==
    IF status = "success"
      THEN [s EXCEPT !.successes = @ + 1, !.blacklisted = FALSE]
      ELSE [s EXCEPT !.failures = @ + 1,
                     !.blacklisted = @ \/ (s.successes = 0 /\ s.failures + 1 >= limit)]

\* RoutingService.SelectGateway: filterExcluded drops the gateways excluded;
\* which of the others is chosen depends on health and weights.
Candidates(excluded) == Gateway \ excluded

-----------------------------------------------------------------------------
(* The history of an order at a gateway, told by its payments and not by   *)
(* the summaries the repository keeps.                                     *)

\* The payments whose outcome was posted for the order and the gateway.
PostedAt(o, g, status) == {t \in Txn :
    /\ posted[t] > 0
    /\ transactions[t].order = o /\ transactions[t].gateway = g
    /\ transactions[t].status = status}

\* The gateways that the outcomes of t's order speak against once t's is
\* posted: a success clears its gateway for good, and a failure tells against
\* it when the payments that failed there are as many as the threshold in
\* force, and none succeeded.
BarredAfter(t, status) ==
    LET o == transactions[t].order
        g == transactions[t].gateway
        failed == PostedAt(o, g, "failure") \cup {t}
    IN  IF status = "success" THEN barred[o] \ {g}
        ELSE IF PostedAt(o, g, "success") = {} /\ Cardinality(failed) >= threshold
          THEN barred[o] \cup {g}
          ELSE barred[o]

-----------------------------------------------------------------------------
(* Initiate.  The identifier is drawn first and used for one request.      *)

Initiate(t, o) ==
    /\ req[t].pc = "new"
    /\ req' = [req EXCEPT ![t].pc = "select", ![t].order = o,
                          ![t].excluded = BlacklistedGateways(o)]
    /\ began' = [began EXCEPT ![t] = barred[o]]
    /\ UNCHANGED <<stores, threshold, call, counted, posted, answered, barred>>

SelectGateway(t, g) ==
    /\ req[t].pc = "select"
    /\ g \in Candidates(req[t].excluded)
    /\ req' = [req EXCEPT ![t].pc = "attempt", ![t].gateway = g]
    /\ UNCHANGED <<stores, threshold, call, ghosts>>

\* Seeded fault: the counter is read and not advanced.
NextAttemptUnsaved(t) ==
    /\ req[t].pc = "attempt"
    /\ req' = [req EXCEPT ![t].pc = "initiate",
                          ![t].attempt = attempts[req[t].order] + 1]
    /\ UNCHANGED <<stores, threshold, call, ghosts>>

NextAttempt(t) ==
    /\ req[t].pc = "attempt"
    /\ LET o == req[t].order
       IN  /\ attempts' = [attempts EXCEPT ![o] = @ + 1]
           /\ req' = [req EXCEPT ![t].pc = "initiate",
                                 ![t].attempt = attempts[o] + 1]
    /\ UNCHANGED <<transactions, summaries, threshold, call, ghosts>>

\* client.Initiate: from here on the gateway knows the transaction.
ClientInitiate(t) ==
    /\ req[t].pc = "initiate"
    /\ req' = [req EXCEPT ![t].pc = "save"]
    /\ UNCHANGED <<stores, threshold, call, ghosts>>

Save(t) ==
    /\ req[t].pc = "save"
    /\ transactions[t].status = "missing"
    /\ transactions' = [transactions EXCEPT ![t] =
         [status |-> "pending", order |-> req[t].order,
          gateway |-> req[t].gateway, attempt |-> req[t].attempt]]
    /\ req' = [req EXCEPT ![t].pc = "initiated"]
    /\ UNCHANGED <<attempts, summaries, threshold, call, ghosts>>

\* No gateway is available, a call returns an error or the process dies.  A
\* reply that is lost after the call took effect ends the request one step
\* later than the error it causes: an "initiated" request may fail too.
InitiateFails(t) ==
    /\ req[t].pc \notin {"new", "failed"}
    /\ req' = [req EXCEPT ![t].pc = "failed"]
    /\ UNCHANGED <<stores, threshold, call, ghosts>>

-----------------------------------------------------------------------------
(* Callback.  Any number of callbacks may come, in any order, repeated or  *)
(* contradicting each other; a gateway that got no answer sends it again.  *)

\* Seeded fault: "pending" parses, and is let through.
AcceptedUnlessUnknown == Final \cup {"pending"}

\* The statuses with which the HTTP handler calls the service.
AcceptedStatuses ==
    {handleCallback(b).status : b \in {b \in Body : Accepted(handleCallback(b))}}

\* GetByID and the identity checks; a callback they refuse changes nothing.
Callback(d, t, g, o, status) ==
    /\ call[d].pc = "idle"
    /\ transactions[t].status # "missing"
    /\ transactions[t].gateway = g
    /\ o = NoOrder \/ transactions[t].order = o
    /\ call' = [call EXCEPT ![d] = [pc |-> "complete", txn |-> t, gateway |-> g,
                                    status |-> status]]
    /\ UNCHANGED <<stores, threshold, req, ghosts>>

\* Seeded fault: "changed" is not looked at.
AfterCompleteAlways(code) == IF code = "conflict" THEN "idle" ELSE "health"

\* Seeded fault: the outcome of a completed transaction is not recorded.
AfterCompleteNever(code) == IF code = "conflict" THEN "idle" ELSE "duplicate"

\* Where Callback goes after Complete.
AfterComplete(code) ==
    CASE code = "changed"    -> "health"
      [] code = "idempotent" -> "duplicate"
      [] code = "conflict"   -> "idle"

Complete(d) ==
    /\ call[d].pc = "complete"
    /\ LET t == call[d].txn
           status == call[d].status
           code == CompleteCode(transactions[t].status, status)
           next == AfterComplete(code)
       IN  /\ transactions' = IF code = "changed"
                THEN [transactions EXCEPT ![t].status = status] ELSE transactions
           /\ call' = [call EXCEPT ![d] =
                IF next = "idle" THEN IdleCall ELSE [call[d] EXCEPT !.pc = next]]
    /\ UNCHANGED <<attempts, summaries, threshold, req, ghosts>>

\* The duplicate is answered with state and statistics, read only.
AnswerDuplicate(d) ==
    /\ call[d].pc = "duplicate"
    /\ answered' = answered \cup {call[d].txn}
    /\ call' = [call EXCEPT ![d] = IdleCall]
    /\ UNCHANGED <<stores, threshold, req, counted, posted, barred, began>>

\* HealthService.RecordOutcome, which GatewayHealth models in full.
RecordHealth(d) ==
    /\ call[d].pc = "health"
    /\ counted' = [counted EXCEPT ![call[d].txn] = Append(@, call[d].status)]
    /\ call' = [call EXCEPT ![d].pc = "blacklist"]
    /\ UNCHANGED <<stores, threshold, req, posted, answered, barred, began>>

\* OrderGatewayBlacklistService.RecordOutcome, and the answer to the caller.
RecordBlacklist(d) ==
    /\ call[d].pc = "blacklist"
    /\ LET t == call[d].txn
           o == transactions[t].order
           g == transactions[t].gateway
       IN  /\ summaries' = [summaries EXCEPT ![o][g] =
                              NextSummary(@, call[d].status, threshold)]
           /\ posted' = [posted EXCEPT ![t] = @ + 1]
           /\ answered' = answered \cup {t}
           /\ barred' = [barred EXCEPT ![o] = BarredAfter(t, call[d].status)]
    /\ call' = [call EXCEPT ![d] = IdleCall]
    /\ UNCHANGED <<transactions, attempts, threshold, req, counted, began>>

\* A repository error, or the death of the process, in mid-callback.
CallFails(d) ==
    /\ call[d].pc # "idle"
    /\ call' = [call EXCEPT ![d] = IdleCall]
    /\ UNCHANGED <<stores, threshold, req, ghosts>>

\* The configuration file is edited and reloaded.
ReloadThreshold(n) ==
    /\ n # threshold
    /\ threshold' = n
    /\ UNCHANGED <<stores, req, call, ghosts>>

-----------------------------------------------------------------------------
RequestStep(t) ==
    \/ \E o \in Order : Initiate(t, o)
    \/ \E g \in Gateway : SelectGateway(t, g)
    \/ NextAttempt(t) \/ ClientInitiate(t) \/ Save(t)

HandlerStep(d) ==
    Complete(d) \/ AnswerDuplicate(d) \/ RecordHealth(d) \/ RecordBlacklist(d)

Deliver(d) ==
    \E t \in Txn, g \in Gateway, o \in Order \cup {NoOrder},
       s \in AcceptedStatuses :
        Callback(d, t, g, o, s)

FaultFreeNext ==
    \/ \E t \in Txn : RequestStep(t)
    \/ \E d \in Delivery : HandlerStep(d) \/ Deliver(d)
    \/ \E n \in Thresholds : ReloadThreshold(n)

Next ==
    \/ FaultFreeNext
    \/ \E t \in Txn : InitiateFails(t)
    \/ \E d \in Delivery : CallFails(d)

Spec == Init /\ [][Next]_vars

\* A request goroutine runs until its handler returns.
HandlersRun == \A d \in Delivery : WF_vars(HandlerStep(d))
FaultFreeSpec == Init /\ [][FaultFreeNext]_vars /\ HandlersRun

-----------------------------------------------------------------------------
(* What the service promises.                                              *)

\* Every variable keeps the shape the Go declarations give it.
TypeOK ==
    /\ transactions \in [Txn -> Transaction]
    /\ attempts \in [Order -> Nat]
    /\ summaries \in [Order -> [Gateway -> Summary]]
    /\ threshold \in Thresholds
    /\ req \in [Txn -> Req]
    /\ call \in [Delivery -> Call]
    /\ counted \in [Txn -> Seq(Final)]
    /\ posted \in [Txn -> Nat]
    /\ answered \subseteq Txn
    /\ barred \in [Order -> SUBSET Gateway]
    /\ began \in [Txn -> SUBSET Gateway]

\* Callback as a whole, whatever is repeated, reordered, lost or concurrent:
\* a transaction is settled once and keeps its status, and its outcome is
\* counted at most once, with the status stored.
Ledger == INSTANCE PaymentLedger WITH
    payment <- [t \in Txn |-> transactions[t].status]
LedgerSpec == Ledger!Spec

\* The per-order ledger counts each settled transaction at most once, at its
\* own order and gateway, and never one that health did not count.
LedgerAgrees ==
    /\ \A t \in Txn : posted[t] <= Len(counted[t])
    /\ \A o \in Order, g \in Gateway :
         /\ summaries[o][g].failures = Cardinality(PostedAt(o, g, "failure"))
         /\ summaries[o][g].successes = Cardinality(PostedAt(o, g, "success"))

\* A gateway is blacklisted for an order only while no success of that order
\* there is known, and never on fewer failures than some configured threshold.
BlacklistJustified ==
    \A o \in Order, g \in Gateway : summaries[o][g].blacklisted =>
        /\ PostedAt(o, g, "success") = {}
        /\ \E n \in Thresholds : Cardinality(PostedAt(o, g, "failure")) >= n

\* A payment is never stored at a gateway that the payments of its order
\* already spoke against when its request began: enough of them had failed
\* there, by the threshold in force when the last of them was posted, and
\* none had succeeded.  Only a request in progress when the last failure is
\* posted may still go there (transaction_service.go reads the blacklist
\* once, first).
BlacklistHonoured ==
    \A t \in Txn : transactions[t].status # "missing" =>
        transactions[t].gateway \notin began[t]

\* Attempt numbers of an order's stored transactions are distinct and drawn
\* from its counter, although a failed request leaves a gap.
AttemptsDistinct ==
    \A t \in Txn : transactions[t].status # "missing" =>
        /\ transactions[t].attempt \in 1..attempts[transactions[t].order]
        /\ \A u \in Txn \ {t} :
             /\ transactions[u].status # "missing"
             /\ transactions[u].order = transactions[t].order
             => transactions[u].attempt # transactions[t].attempt

-----------------------------------------------------------------------------
(* Why it keeps that promise: the facts every step preserves together.     *)

\* A request holds an attempt number from NextAttempt until it fails, and
\* for good once its transaction is stored.
Numbered(t) ==
    \/ req[t].pc \in {"initiate", "save"}
    \/ transactions[t].status # "missing"

\* A stored record is the one its request built, the gateway was chosen among
\* those not excluded, which are those the order's payments spoke against, and
\* no two requests of an order hold the same number.
RequestsInOrder ==
    \A t \in Txn :
        /\ req[t].excluded = began[t]
        /\ transactions[t].status # "missing" =>
             /\ req[t].pc \in {"initiated", "failed"}
             /\ transactions[t].order = req[t].order
             /\ transactions[t].gateway = req[t].gateway
             /\ transactions[t].attempt = req[t].attempt
        /\ req[t].pc \in {"attempt", "initiate", "save"}
             \/ transactions[t].status # "missing"
             => req[t].gateway \notin req[t].excluded
        /\ Numbered(t) =>
             /\ req[t].attempt \in 1..attempts[req[t].order]
             /\ \A u \in Txn \ {t} :
                  Numbered(u) /\ req[u].order = req[t].order
                  => req[u].attempt # req[t].attempt

\* The callback that settled a transaction is the only one past Complete for
\* it, carries the status stored, and counts before it posts.
CallsInOrder ==
    \A d \in Delivery :
        LET t == call[d].txn
        IN  /\ call[d].pc # "idle" => transactions[t].status # "missing"
            /\ call[d].pc \in {"health", "blacklist"} =>
                 /\ transactions[t].status = call[d].status
                 /\ counted[t] = IF call[d].pc = "health"
                                   THEN <<>> ELSE <<call[d].status>>
                 /\ posted[t] = 0
                 /\ \A e \in Delivery \ {d} :
                      call[e].pc \in {"health", "blacklist"} => call[e].txn # t

\* An outcome is counted once at most, with the status stored, and posted
\* once at most, after it was counted.
CountedOnce ==
    \A t \in Txn :
        /\ \/ counted[t] = <<>>
           \/ /\ transactions[t].status \in Final
              /\ counted[t] = <<transactions[t].status>>
        /\ posted[t] = 0 \/ (posted[t] = 1 /\ counted[t] # <<>>)

\* What was posted is finite, so that its cardinality is a count.
PostedFinite ==
    \A o \in Order, g \in Gateway, s \in Final : IsFiniteSet(PostedAt(o, g, s))

\* The repository blacklists exactly the gateways the payments speak against.
BlacklistExact == \A o \in Order : BlacklistedGateways(o) = barred[o]

\* The inductive invariant: whatever callbacks repeat, cross or break off, one
\* handler at most owns the outcome of a transaction, and the blacklist holds
\* what the owners posted.
TransactionsInv ==
    /\ TypeOK /\ RequestsInOrder /\ CallsInOrder /\ CountedOnce
    /\ PostedFinite /\ LedgerAgrees /\ BlacklistJustified /\ BlacklistExact

\* When no repository call fails, the outcome of every settled transaction
\* reaches the health statistics and the blacklist.
OutcomeRecorded ==
    \A t \in Txn : transactions[t].status \in Final ~> posted[t] = 1

\* README, POST /transactions/callback: "Finalize a transaction exactly once
\* and update gateway health from the outcome": once a callback was told that
\* the transaction is final, its outcome has been counted or a handler that
\* will count it is running.
AcknowledgedCounted ==
    \A t \in answered :
        \/ counted[t] # <<>>
        \/ \E d \in Delivery : call[d].pc = "health" /\ call[d].txn = t
=============================================================================
