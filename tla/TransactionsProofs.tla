------------------------- MODULE TransactionsProofs -------------------------
(***************************************************************************)
(* TransactionsInv is an invariant of Spec, for any number of requests,    *)
(* orders, gateways, callbacks in progress and thresholds; the promises of *)
(* Transactions follow from it, the refinement of PaymentLedger included.  *)
(***************************************************************************)
EXTENDS Transactions, FiniteSetTheorems, TLAPS

USE PopulationAssumption, ThresholdAssumption

\* The placeholders are values of their types.
LEMMA PlaceholderTypes ==
    /\ NoTransaction \in Transaction
    /\ NoSummary \in Summary
    /\ NoReq \in Req
    /\ IdleCall \in Call
<1>1. AnyTxn \in Txn /\ AnyOrder \in Order /\ AnyGateway \in Gateway
  BY DEF AnyTxn, AnyOrder, AnyGateway
<1>2. QED
  BY <1>1 DEF NoTransaction, Transaction, Statuses, Final, NoSummary, Summary,
              NoReq, Req, ReqPC, IdleCall, Call, CallPC

\* handleCallback lets only final statuses through to the service, whatever
\* decodeCallback makes of the body.
LEMMA AcceptedAreFinal == AcceptedStatuses \subseteq Final
<1>1. ASSUME NEW b \in Body, Accepted(handleCallback(b))
      PROVE  handleCallback(b).status \in Final
  <2>1. ~Accepted(Refused("bad request"))
    BY DEF Accepted, Refused
  <2>2. CASE /\ Accepted(decodeCallback(b))
             /\ decodeCallback(b).transaction /\ decodeCallback(b).gateway # ""
             /\ IsFinal(decodeCallback(b).status)
    BY <2>2 DEF handleCallback, IsFinal, Final
  <2>3. CASE ~(/\ Accepted(decodeCallback(b))
               /\ decodeCallback(b).transaction /\ decodeCallback(b).gateway # ""
               /\ IsFinal(decodeCallback(b).status))
    BY <1>1, <2>1, <2>3 DEF handleCallback
  <2>4. QED
    BY <2>2, <2>3
<1>2. QED
  BY <1>1 DEF AcceptedStatuses

\* RecordOutcome of the blacklist returns a summary.
LEMMA NextSummaryType ==
    ASSUME NEW s \in Summary, NEW status, NEW limit \in Nat
    PROVE  NextSummary(s, status, limit) \in Summary
<1>0. s.successes + 1 \in Nat /\ s.failures + 1 \in Nat
  BY DEF Summary
<1>1. CASE status = "success"
  BY <1>0, <1>1, Zenon DEF NextSummary, Summary
<1>2. CASE status # "success"
  <2> DEFINE b == s.blacklisted \/ (s.successes = 0 /\ s.failures + 1 >= limit)
  <2>1. b \in BOOLEAN
    OBVIOUS
  <2>2. NextSummary(s, status, limit)
          = [s EXCEPT !.failures = s.failures + 1, !.blacklisted = b]
    BY <1>2 DEF NextSummary
  <2> HIDE DEF b
  <2>3. QED
    BY <1>0, <2>1, <2>2, Zenon DEF Summary
<1>3. QED
  BY <1>1, <1>2

\* Complete and what follows it, by the status it finds.
LEMMA CompleteFact ==
    ASSUME NEW current \in Statuses, NEW status \in Final
    PROVE  \/ /\ current \in Final /\ current = status
              /\ CompleteCode(current, status) = "idempotent"
              /\ AfterComplete(CompleteCode(current, status)) = "duplicate"
           \/ /\ current \in Final /\ current # status
              /\ CompleteCode(current, status) = "conflict"
              /\ AfterComplete(CompleteCode(current, status)) = "idle"
           \/ /\ current \notin Final
              /\ CompleteCode(current, status) = "changed"
              /\ AfterComplete(CompleteCode(current, status)) = "health"
BY DEF CompleteCode, AfterComplete

-----------------------------------------------------------------------------
\* Every step keeps the types.
LEMMA TypeStep == TypeOK /\ [Next]_vars => TypeOK'
<1> SUFFICES ASSUME TypeOK, [Next]_vars PROVE TypeOK'
  OBVIOUS
<1>t. /\ transactions \in [Txn -> Transaction] /\ attempts \in [Order -> Nat]
      /\ summaries \in [Order -> [Gateway -> Summary]] /\ threshold \in Nat
      /\ req \in [Txn -> Req] /\ call \in [Delivery -> Call]
      /\ counted \in [Txn -> Seq(Final)] /\ posted \in [Txn -> Nat]
      /\ answered \subseteq Txn /\ barred \in [Order -> SUBSET Gateway]
      /\ began \in [Txn -> SUBSET Gateway]
  BY DEF TypeOK
<1>1. ASSUME NEW t \in Txn, NEW o \in Order, Initiate(t, o) PROVE TypeOK'
  <2>1. BlacklistedGateways(o) \in SUBSET Gateway
    BY DEF BlacklistedGateways
  <2>2. /\ req \in [Txn -> Req]
        /\ req' = [req EXCEPT ![t].pc = "select", ![t].order = o,
                              ![t].excluded = BlacklistedGateways(o)]
    BY <1>1, <1>t DEF Initiate
  <2>3. [req[t] EXCEPT !.pc = "select", !.order = o,
                       !.excluded = BlacklistedGateways(o)] \in Req
    BY <2>1, <2>2 DEF Req, ReqPC
  <2>4. req' \in [Txn -> Req]
    BY <2>2, <2>3
  <2>5. began' \in [Txn -> SUBSET Gateway]
    BY <1>1, <1>t DEF Initiate
  <2>6. QED
    BY <1>1, <2>4, <2>5 DEF Initiate, TypeOK, stores
<1>2. ASSUME NEW t \in Txn, NEW g \in Gateway, SelectGateway(t, g) PROVE TypeOK'
  <2>1. /\ req \in [Txn -> Req]
        /\ req' = [req EXCEPT ![t].pc = "attempt", ![t].gateway = g]
    BY <1>2, <1>t DEF SelectGateway
  <2>2. req' \in [Txn -> Req]
    BY <2>1 DEF Req, ReqPC
  <2>3. QED
    BY <1>2, <2>2 DEF SelectGateway, TypeOK, stores, ghosts
<1>3. ASSUME NEW t \in Txn, NextAttempt(t) PROVE TypeOK'
  <2>1. req[t].order \in Order
    BY <1>t DEF Req
  <2>2. /\ attempts' \in [Order -> Nat] /\ req \in [Txn -> Req]
        /\ attempts[req[t].order] + 1 \in Nat
        /\ req' = [req EXCEPT ![t].pc = "initiate",
                              ![t].attempt = attempts[req[t].order] + 1]
    BY <1>3, <1>t, <2>1 DEF NextAttempt
  <2>3. req' \in [Txn -> Req]
    BY <2>2 DEF Req, ReqPC
  <2>4. QED
    BY <1>3, <2>2, <2>3 DEF NextAttempt, TypeOK, stores, ghosts
<1>4. ASSUME NEW t \in Txn, ClientInitiate(t) PROVE TypeOK'
  <2>1. req' \in [Txn -> Req]
    <3>1. req \in [Txn -> Req] /\ req' = [req EXCEPT ![t].pc = "save"]
      BY <1>4, <1>t DEF ClientInitiate
    <3>2. QED
      BY <3>1 DEF Req, ReqPC
  <2>2. QED
    BY <1>4, <2>1 DEF ClientInitiate, TypeOK, stores, ghosts
<1>5. ASSUME NEW t \in Txn, Save(t) PROVE TypeOK'
  <2>1. transactions' \in [Txn -> Transaction]
    BY <1>5, <1>t DEF Save, Req, Transaction, Statuses
  <2>2. req' \in [Txn -> Req]
    BY <1>5, <1>t DEF Save, Req, ReqPC
  <2>3. QED
    BY <1>5, <2>1, <2>2 DEF Save, TypeOK, ghosts
<1>6. ASSUME NEW t \in Txn, InitiateFails(t) PROVE TypeOK'
  <2>1. req' \in [Txn -> Req]
    <3>1. req \in [Txn -> Req] /\ req' = [req EXCEPT ![t].pc = "failed"]
      BY <1>6, <1>t DEF InitiateFails
    <3>2. QED
      BY <3>1 DEF Req, ReqPC
  <2>2. QED
    BY <1>6, <2>1 DEF InitiateFails, TypeOK, stores, ghosts
<1>7. ASSUME NEW d \in Delivery, Deliver(d) PROVE TypeOK'
  <2>1. PICK t \in Txn, g \in Gateway, o \in Order \cup {NoOrder}, s \in Final :
            Callback(d, t, g, o, s)
    BY <1>7, AcceptedAreFinal DEF Deliver
  <2>2. call' \in [Delivery -> Call]
    BY <1>t, <2>1 DEF Callback, Call, CallPC
  <2>3. QED
    BY <2>1, <2>2 DEF Callback, TypeOK, stores, ghosts
<1>8. ASSUME NEW d \in Delivery, Complete(d) PROVE TypeOK'
  <2> DEFINE t == call[d].txn
             status == call[d].status
             code == CompleteCode(transactions[t].status, status)
             next == AfterComplete(code)
  <2>1. /\ t \in Txn /\ status \in Final /\ transactions[t] \in Transaction
        /\ call[d] \in Call
    BY <1>t DEF Call
  <2>2. next \in {"idle", "duplicate", "health"}
    BY <2>1, CompleteFact DEF Transaction
  <2>3. /\ transactions' = IF code = "changed"
             THEN [transactions EXCEPT ![t].status = status] ELSE transactions
        /\ call' = [call EXCEPT ![d] =
             IF next = "idle" THEN IdleCall ELSE [call[d] EXCEPT !.pc = next]]
        /\ UNCHANGED <<attempts, summaries, threshold, req, ghosts>>
    BY <1>8 DEF Complete
  <2> HIDE DEF t, status, code, next
  <2>4. transactions' \in [Txn -> Transaction]
    BY <1>t, <2>1, <2>3 DEF Transaction, Statuses
  <2>5. [call[d] EXCEPT !.pc = next] \in Call
    BY <2>1, <2>2 DEF Call, CallPC
  <2>6. call' \in [Delivery -> Call]
    BY <1>t, <2>3, <2>5, PlaceholderTypes
  <2>7. QED
    BY <2>3, <2>4, <2>6 DEF TypeOK, ghosts
<1>9. ASSUME NEW d \in Delivery, AnswerDuplicate(d) PROVE TypeOK'
  <2>1. answered' \subseteq Txn /\ call' \in [Delivery -> Call]
    BY <1>9, <1>t, PlaceholderTypes DEF AnswerDuplicate, Call
  <2>2. QED
    BY <1>9, <2>1 DEF AnswerDuplicate, TypeOK, stores
<1>10. ASSUME NEW d \in Delivery, RecordHealth(d) PROVE TypeOK'
  <2>1. call[d].txn \in Txn /\ call[d].status \in Final
    BY <1>t DEF Call
  <2>2. counted' \in [Txn -> Seq(Final)]
    BY <1>10, <1>t, <2>1 DEF RecordHealth
  <2>3. call' \in [Delivery -> Call]
    BY <1>10, <1>t DEF RecordHealth, Call, CallPC
  <2>4. QED
    BY <1>10, <2>2, <2>3 DEF RecordHealth, TypeOK, stores
<1>11. ASSUME NEW d \in Delivery, RecordBlacklist(d) PROVE TypeOK'
  <2>1. call[d].txn \in Txn
    BY <1>t DEF Call
  <2>2. PICK o \in Order, g \in Gateway :
            /\ o = transactions[call[d].txn].order
            /\ g = transactions[call[d].txn].gateway
    BY <1>t, <2>1 DEF Transaction
  <2>3. NextSummary(summaries[o][g], call[d].status, threshold) \in Summary
    BY <1>t, NextSummaryType
  <2>4. summaries' = [summaries EXCEPT ![o][g] =
                        NextSummary(@, call[d].status, threshold)]
    BY <1>11, <2>2 DEF RecordBlacklist
  <2>5. summaries' \in [Order -> [Gateway -> Summary]]
    BY <1>t, <2>3, <2>4
  <2>6. /\ posted' \in [Txn -> Nat] /\ answered' \subseteq Txn
        /\ call' \in [Delivery -> Call]
    BY <1>11, <1>t, <2>1, PlaceholderTypes DEF RecordBlacklist
  <2>7. barred' \in [Order -> SUBSET Gateway]
    <3>1. BarredAfter(call[d].txn, call[d].status) \in SUBSET Gateway
      BY <1>t, <2>2 DEF BarredAfter
    <3>2. barred' = [barred EXCEPT ![o] = BarredAfter(call[d].txn, call[d].status)]
      BY <1>11, <2>2 DEF RecordBlacklist
    <3>3. QED
      BY <1>t, <3>1, <3>2
  <2>8. QED
    BY <1>11, <2>5, <2>6, <2>7 DEF RecordBlacklist, TypeOK
<1>12. ASSUME NEW d \in Delivery, CallFails(d) PROVE TypeOK'
  <2>1. call' \in [Delivery -> Call]
    BY <1>12, <1>t, PlaceholderTypes DEF CallFails
  <2>2. QED
    BY <1>12, <2>1 DEF CallFails, TypeOK, stores, ghosts
<1>13. ASSUME NEW n \in Thresholds, ReloadThreshold(n) PROVE TypeOK'
  BY <1>13 DEF ReloadThreshold, TypeOK, stores, ghosts
<1>14. CASE UNCHANGED vars
  BY <1>14 DEF vars, TypeOK
<1>15. QED
  BY <1>1, <1>2, <1>3, <1>4, <1>5, <1>6, <1>7, <1>8, <1>9, <1>10, <1>11, <1>12,
     <1>13, <1>14 DEF Next, FaultFreeNext, RequestStep, HandlerStep

\* Stored records and the requests that own them: Complete writes the status
\* of a record that exists, and only NextAttempt advances a counter.
LEMMA RequestsStep ==
    TypeOK /\ RequestsInOrder /\ CallsInOrder /\ BlacklistExact /\ [Next]_vars
    => RequestsInOrder'
<1> SUFFICES ASSUME TypeOK, RequestsInOrder, CallsInOrder, BlacklistExact,
                    [Next]_vars
             PROVE  RequestsInOrder'
  OBVIOUS
<1>t. /\ transactions \in [Txn -> Transaction] /\ attempts \in [Order -> Nat]
      /\ req \in [Txn -> Req] /\ call \in [Delivery -> Call]
      /\ began \in [Txn -> SUBSET Gateway]
  BY DEF TypeOK
<1>1. ASSUME NEW t \in Txn, NEW o \in Order, Initiate(t, o)
      PROVE  RequestsInOrder'
  <2>1. transactions[t].status = "missing"
    BY <1>1 DEF Initiate, RequestsInOrder
  <2>2. /\ req'[t].pc = "select" /\ \A u \in Txn \ {t} : req'[u] = req[u]
        /\ req'[t].excluded = BlacklistedGateways(o) /\ began'[t] = barred[o]
        /\ \A u \in Txn \ {t} : began'[u] = began[u]
        /\ UNCHANGED <<transactions, attempts>>
    BY <1>1, <1>t DEF Initiate, Req, stores
  <2>3. BlacklistedGateways(o) = barred[o]
    BY DEF BlacklistExact
  <2>4. QED
    BY <2>1, <2>2, <2>3 DEF RequestsInOrder, Numbered
<1>2. ASSUME NEW t \in Txn, NEW g \in Gateway, SelectGateway(t, g)
      PROVE  RequestsInOrder'
  <2>1. transactions[t].status = "missing"
    BY <1>2 DEF SelectGateway, RequestsInOrder
  <2>2. /\ req'[t].pc = "attempt" /\ req'[t].gateway \notin req'[t].excluded
        /\ req'[t].excluded = req[t].excluded
        /\ \A u \in Txn \ {t} : req'[u] = req[u]
        /\ UNCHANGED <<transactions, attempts, began>>
    BY <1>2, <1>t DEF SelectGateway, Req, stores, ghosts, Candidates
  <2>3. QED
    BY <2>1, <2>2 DEF RequestsInOrder, Numbered
<1>3. ASSUME NEW t \in Txn, NextAttempt(t)
      PROVE  RequestsInOrder'
  <2> DEFINE o == req[t].order
  <2>1. transactions[t].status = "missing" /\ o \in Order
    BY <1>3, <1>t DEF NextAttempt, RequestsInOrder, Req
  <2>2. /\ req'[t].pc = "initiate" /\ req'[t].attempt = attempts[o] + 1
        /\ req'[t].order = o /\ req'[t].gateway \notin req'[t].excluded
        /\ req'[t].excluded = req[t].excluded
        /\ \A u \in Txn \ {t} : req'[u] = req[u]
        /\ UNCHANGED <<transactions, began>>
    BY <1>3, <1>t DEF NextAttempt, Req, RequestsInOrder, ghosts
  <2>3. /\ attempts'[o] = attempts[o] + 1 /\ attempts[o] \in Nat
        /\ \A p \in Order \ {o} : attempts'[p] = attempts[p]
    BY <1>3, <1>t, <2>1 DEF NextAttempt
  <2>4. \A u \in Txn \ {t} : /\ Numbered(u)' <=> Numbered(u)
                              /\ req[u].order \in Order /\ req[u].attempt \in Nat
    BY <1>t, <2>2 DEF Numbered, Req
  <2> HIDE DEF o
  <2>5. \A u \in Txn : Numbered(u)' =>
            req'[u].attempt \in 1..attempts'[req'[u].order]
    BY <2>2, <2>3, <2>4 DEF RequestsInOrder
  <2>6. ASSUME NEW u \in Txn, NEW v \in Txn \ {u}, Numbered(u)', Numbered(v)',
               req'[v].order = req'[u].order
        PROVE  req'[v].attempt # req'[u].attempt
    <3>1. CASE u # t /\ v # t
      BY <2>2, <2>4, <2>6, <3>1 DEF RequestsInOrder
    <3>2. CASE u = t \/ v = t
      BY <2>2, <2>3, <2>4, <2>6, <3>2 DEF RequestsInOrder
    <3>3. QED
      BY <3>1, <3>2
  <2>7. \A u \in Txn : transactions'[u].status # "missing" =>
            /\ u # t /\ transactions'[u] = transactions[u] /\ req'[u] = req[u]
    BY <2>1, <2>2
  <2>8. QED
    BY <2>2, <2>5, <2>6, <2>7 DEF RequestsInOrder
<1>4. ASSUME NEW t \in Txn, ClientInitiate(t)
      PROVE  RequestsInOrder'
  <2>1. transactions[t].status = "missing"
    BY <1>4 DEF ClientInitiate, RequestsInOrder
  <2>2. /\ req'[t].pc = "save" /\ req[t].pc = "initiate"
        /\ req'[t].order = req[t].order /\ req'[t].gateway = req[t].gateway
        /\ req'[t].excluded = req[t].excluded /\ req'[t].attempt = req[t].attempt
        /\ \A u \in Txn \ {t} : req'[u] = req[u]
        /\ UNCHANGED <<transactions, attempts, began>>
    BY <1>4, <1>t DEF ClientInitiate, Req, stores, ghosts
  <2>3. QED
    BY <2>1, <2>2 DEF RequestsInOrder, Numbered
<1>5. ASSUME NEW t \in Txn, Save(t)
      PROVE  RequestsInOrder'
  <2>1. /\ req'[t].pc = "initiated" /\ req[t].pc = "save"
        /\ req'[t].order = req[t].order /\ req'[t].gateway = req[t].gateway
        /\ req'[t].excluded = req[t].excluded /\ req'[t].attempt = req[t].attempt
        /\ \A u \in Txn \ {t} : /\ req'[u] = req[u]
                                /\ transactions'[u] = transactions[u]
        /\ UNCHANGED <<attempts, began>>
    BY <1>5, <1>t DEF Save, Req, ghosts
  <2>2. /\ transactions'[t].order = req[t].order
        /\ transactions'[t].gateway = req[t].gateway
        /\ transactions'[t].attempt = req[t].attempt
    BY <1>5, <1>t DEF Save
  <2>3. QED
    BY <2>1, <2>2 DEF RequestsInOrder, Numbered
<1>6. ASSUME NEW t \in Txn, InitiateFails(t)
      PROVE  RequestsInOrder'
  <2>1. /\ req'[t].pc = "failed"
        /\ req'[t].order = req[t].order /\ req'[t].gateway = req[t].gateway
        /\ req'[t].excluded = req[t].excluded /\ req'[t].attempt = req[t].attempt
        /\ \A u \in Txn \ {t} : req'[u] = req[u]
        /\ UNCHANGED <<transactions, attempts, began>>
    BY <1>6, <1>t DEF InitiateFails, Req, stores, ghosts
  <2>2. QED
    BY <2>1 DEF RequestsInOrder, Numbered
<1>7. ASSUME NEW d \in Delivery, Complete(d)
      PROVE  RequestsInOrder'
  <2>1. UNCHANGED <<req, attempts, began>>
    BY <1>7 DEF Complete, ghosts
  <2>2. /\ call[d].txn \in Txn /\ call[d].status # "missing"
        /\ transactions[call[d].txn].status # "missing"
    BY <1>7, <1>t DEF Complete, CallsInOrder, Call, Final
  <2>3. \A u \in Txn :
            /\ transactions'[u].status = "missing" <=> transactions[u].status = "missing"
            /\ transactions'[u].order = transactions[u].order
            /\ transactions'[u].gateway = transactions[u].gateway
            /\ transactions'[u].attempt = transactions[u].attempt
    BY <1>7, <1>t, <2>2 DEF Complete, Transaction
  <2>4. QED
    BY <2>1, <2>3 DEF RequestsInOrder, Numbered
<1>8. CASE UNCHANGED <<transactions, attempts, req, began>>
  BY <1>8 DEF RequestsInOrder, Numbered
<1>9. ASSUME NEW d \in Delivery,
             \/ Deliver(d) \/ AnswerDuplicate(d) \/ RecordHealth(d)
             \/ RecordBlacklist(d) \/ CallFails(d)
      PROVE  UNCHANGED <<transactions, attempts, req, began>>
  BY <1>9 DEF Deliver, Callback, AnswerDuplicate, RecordHealth, RecordBlacklist,
              CallFails, stores, ghosts
<1>10. ASSUME NEW n \in Thresholds, ReloadThreshold(n)
       PROVE  UNCHANGED <<transactions, attempts, req, began>>
  BY <1>10 DEF ReloadThreshold, stores, ghosts
<1>11. CASE UNCHANGED vars
  BY <1>8, <1>11 DEF vars
<1>12. QED
  BY <1>1, <1>2, <1>3, <1>4, <1>5, <1>6, <1>7, <1>8, <1>9, <1>10, <1>11
  DEF Next, FaultFreeNext, RequestStep, HandlerStep

\* A handler past Complete owns the outcome of its transaction: Complete lets
\* a second one through only if it finds the transaction not final.
LEMMA CallsStep ==
    TypeOK /\ CallsInOrder /\ CountedOnce /\ [Next]_vars => CallsInOrder'
<1> SUFFICES ASSUME TypeOK, CallsInOrder, CountedOnce, [Next]_vars
             PROVE  CallsInOrder'
  OBVIOUS
<1>t. /\ transactions \in [Txn -> Transaction] /\ call \in [Delivery -> Call]
      /\ counted \in [Txn -> Seq(Final)] /\ posted \in [Txn -> Nat]
      /\ \A d \in Delivery : call[d].txn \in Txn /\ call[d].status \in Final
  BY DEF TypeOK, Call
<1>i. IdleCall.pc = "idle"
  BY DEF IdleCall
<1>1. ASSUME NEW t \in Txn, Save(t)
      PROVE  CallsInOrder'
  <2>1. /\ transactions[t].status = "missing" /\ transactions'[t].status = "pending"
        /\ \A u \in Txn \ {t} : transactions'[u] = transactions[u]
        /\ UNCHANGED <<call, counted, posted>>
    BY <1>1, <1>t DEF Save, ghosts
  <2>2. ASSUME NEW d \in Delivery, call[d].pc # "idle"
        PROVE  call[d].txn \in Txn \ {t}
    BY <1>t, <2>1, <2>2 DEF CallsInOrder
  <2>3. QED
    BY <2>1, <2>2 DEF CallsInOrder
<1>2. ASSUME NEW d \in Delivery, Deliver(d)
      PROVE  CallsInOrder'
  <2>1. PICK t \in Txn : /\ transactions[t].status # "missing"
                         /\ call'[d].pc = "complete" /\ call'[d].txn = t
    BY <1>2, <1>t DEF Deliver, Callback
  <2>2. /\ \A e \in Delivery \ {d} : call'[e] = call[e]
        /\ UNCHANGED <<transactions, counted, posted>>
    BY <1>2, <1>t DEF Deliver, Callback, stores, ghosts
  <2>3. QED
    BY <2>1, <2>2 DEF CallsInOrder
<1>3. ASSUME NEW d \in Delivery, Complete(d)
      PROVE  CallsInOrder'
  <2> DEFINE t == call[d].txn
             status == call[d].status
             code == CompleteCode(transactions[t].status, status)
             next == AfterComplete(code)
  <2>1. /\ t \in Txn /\ status \in Final /\ transactions[t].status \in Statuses
        /\ transactions[t].status # "missing"
    BY <1>3, <1>t DEF Complete, CallsInOrder, Transaction
  <2>2. /\ transactions' = IF code = "changed"
             THEN [transactions EXCEPT ![t].status = status] ELSE transactions
        /\ call' = [call EXCEPT ![d] =
             IF next = "idle" THEN IdleCall ELSE [call[d] EXCEPT !.pc = next]]
        /\ UNCHANGED <<counted, posted>>
        /\ \A e \in Delivery \ {d} : call'[e] = call[e]
    BY <1>3, <1>t DEF Complete, ghosts
  <2>3. CASE transactions[t].status \in Final
    <3>1. transactions' = transactions /\ next \in {"duplicate", "idle"}
      BY <2>1, <2>2, <2>3, CompleteFact
    <3>2. /\ call'[d].pc \in {"duplicate", "idle"}
          /\ call'[d].pc # "idle" => call'[d].txn = t
      BY <1>i, <1>t, <2>2, <3>1 DEF Call
    <3>3. /\ \A e \in Delivery \ {d} : call'[e] = call[e]
          /\ UNCHANGED <<transactions, counted, posted>>
      BY <2>2, <3>1
    <3>4. transactions[t].status # "missing"
      BY <2>1
    <3> HIDE DEF t, status, code, next
    <3>5. QED
      BY <3>2, <3>3, <3>4 DEF CallsInOrder
  <2>4. CASE transactions[t].status \notin Final
    <3>1. code = "changed" /\ next = "health"
      BY <2>1, <2>4, CompleteFact
    <3>2. /\ transactions'[t].status = status
          /\ \A u \in Txn \ {t} : transactions'[u] = transactions[u]
      BY <1>t, <2>1, <2>2, <3>1 DEF Transaction
    <3>3. call'[d].pc = "health" /\ call'[d].txn = t /\ call'[d].status = status
      BY <1>t, <2>2, <3>1 DEF Call
    <3>4. counted[t] = <<>> /\ posted[t] = 0
      BY <2>1, <2>4 DEF CountedOnce
    <3>5. ASSUME NEW e \in Delivery \ {d}, call[e].pc \in {"health", "blacklist"}
          PROVE  call[e].txn # t
      <4>1. transactions[call[e].txn].status \in Final
        BY <1>t, <3>5 DEF CallsInOrder
      <4>2. QED
        BY <2>4, <4>1
    <3>6. status # "missing"
      BY <2>1 DEF Final
    <3> HIDE DEF t, status, code, next
    <3>7. ASSUME NEW e \in Delivery \ {d}, call[e].pc # "idle"
          PROVE  transactions'[call[e].txn].status # "missing"
      BY <1>t, <2>1, <3>2, <3>6, <3>7 DEF CallsInOrder
    <3>8. ASSUME NEW e \in Delivery \ {d}, call[e].pc \in {"health", "blacklist"}
          PROVE  transactions'[call[e].txn] = transactions[call[e].txn]
      BY <1>t, <3>2, <3>5, <3>8
    <3>9. ASSUME NEW e \in Delivery
          PROVE  /\ call'[e].pc # "idle" => transactions'[call'[e].txn].status # "missing"
                 /\ call'[e].pc \in {"health", "blacklist"} =>
                      /\ transactions'[call'[e].txn].status = call'[e].status
                      /\ counted'[call'[e].txn] = IF call'[e].pc = "health"
                                   THEN <<>> ELSE <<call'[e].status>>
                      /\ posted'[call'[e].txn] = 0
                      /\ \A f \in Delivery \ {e} :
                           call'[f].pc \in {"health", "blacklist"}
                           => call'[f].txn # call'[e].txn
      <4>1. CASE e = d
        BY <2>2, <3>2, <3>3, <3>4, <3>5, <3>6, <4>1
      <4>2. CASE e # d
        BY <2>2, <3>3, <3>5, <3>7, <3>8, <4>2 DEF CallsInOrder
      <4>3. QED
        BY <4>1, <4>2
    <3>10. QED
      BY <3>9 DEF CallsInOrder
  <2>5. QED
    BY <2>3, <2>4
<1>4. ASSUME NEW d \in Delivery, RecordHealth(d)
      PROVE  CallsInOrder'
  <2> DEFINE t == call[d].txn
  <2>1. /\ t \in Txn /\ call[d].pc = "health" /\ counted[t] = <<>>
        /\ call[d].status \in Final
    BY <1>4, <1>t DEF RecordHealth, CallsInOrder
  <2>2. /\ counted'[t] = <<call[d].status>>
        /\ \A u \in Txn \ {t} : counted'[u] = counted[u]
    BY <1>4, <1>t, <2>1 DEF RecordHealth
  <2>3. /\ call'[d].pc = "blacklist" /\ call'[d].txn = t
        /\ call'[d].status = call[d].status
        /\ \A e \in Delivery \ {d} : call'[e] = call[e]
        /\ UNCHANGED <<transactions, posted>>
    BY <1>4, <1>t DEF RecordHealth, Call, stores
  <2>4. \A e \in Delivery \ {d} : call[e].pc \in {"health", "blacklist"} =>
            call[e].txn \in Txn \ {t}
    BY <1>t, <2>1 DEF CallsInOrder
  <2>5. QED
    BY <2>1, <2>2, <2>3, <2>4 DEF CallsInOrder
<1>5. ASSUME NEW d \in Delivery, RecordBlacklist(d)
      PROVE  CallsInOrder'
  <2> DEFINE t == call[d].txn
  <2>1. /\ t \in Txn /\ call[d].pc = "blacklist"
    BY <1>5, <1>t DEF RecordBlacklist
  <2>2. /\ call'[d].pc = "idle" /\ \A e \in Delivery \ {d} : call'[e] = call[e]
        /\ \A u \in Txn \ {t} : posted'[u] = posted[u]
        /\ UNCHANGED <<transactions, counted>>
    BY <1>5, <1>t, <1>i DEF RecordBlacklist
  <2>3. \A e \in Delivery \ {d} : call[e].pc \in {"health", "blacklist"} =>
            call[e].txn \in Txn \ {t}
    BY <1>t, <2>1 DEF CallsInOrder
  <2>4. QED
    BY <2>2, <2>3 DEF CallsInOrder
<1>6. ASSUME NEW d \in Delivery, AnswerDuplicate(d) \/ CallFails(d)
      PROVE  CallsInOrder'
  <2>1. /\ call'[d].pc = "idle" /\ \A e \in Delivery \ {d} : call'[e] = call[e]
        /\ UNCHANGED <<transactions, counted, posted>>
    BY <1>6, <1>t, <1>i DEF AnswerDuplicate, CallFails, stores, ghosts
  <2>2. QED
    BY <2>1 DEF CallsInOrder
<1>7. CASE UNCHANGED <<transactions, call, counted, posted>>
  BY <1>7 DEF CallsInOrder
<1>8. ASSUME NEW t \in Txn,
             \/ \E o \in Order : Initiate(t, o)
             \/ \E g \in Gateway : SelectGateway(t, g)
             \/ NextAttempt(t) \/ ClientInitiate(t) \/ InitiateFails(t)
      PROVE  UNCHANGED <<transactions, call, counted, posted>>
  BY <1>8 DEF Initiate, SelectGateway, NextAttempt, ClientInitiate, InitiateFails,
              stores, ghosts
<1>9. ASSUME NEW n \in Thresholds, ReloadThreshold(n)
      PROVE  UNCHANGED <<transactions, call, counted, posted>>
  BY <1>9 DEF ReloadThreshold, stores, ghosts
<1>10. CASE UNCHANGED vars
  BY <1>7, <1>10 DEF vars
<1>11. QED
  BY <1>1, <1>2, <1>3, <1>4, <1>5, <1>6, <1>7, <1>8, <1>9, <1>10
  DEF Next, FaultFreeNext, RequestStep, HandlerStep

\* An outcome is counted by the handler that owns it, and posted by the same
\* handler afterwards.
LEMMA CountedStep ==
    TypeOK /\ CallsInOrder /\ CountedOnce /\ [Next]_vars => CountedOnce'
<1> SUFFICES ASSUME TypeOK, CallsInOrder, CountedOnce, [Next]_vars
             PROVE  CountedOnce'
  OBVIOUS
<1>t. /\ transactions \in [Txn -> Transaction] /\ call \in [Delivery -> Call]
      /\ counted \in [Txn -> Seq(Final)] /\ posted \in [Txn -> Nat]
      /\ \A d \in Delivery : call[d].txn \in Txn /\ call[d].status \in Final
  BY DEF TypeOK, Call
<1>1. ASSUME NEW t \in Txn, Save(t)
      PROVE  CountedOnce'
  <2>1. /\ transactions[t].status = "missing"
        /\ \A u \in Txn \ {t} : transactions'[u] = transactions[u]
        /\ UNCHANGED <<counted, posted>>
    BY <1>1, <1>t DEF Save, ghosts
  <2>2. counted[t] = <<>>
    BY <2>1 DEF CountedOnce, Final
  <2>3. QED
    BY <2>1, <2>2 DEF CountedOnce
<1>2. ASSUME NEW d \in Delivery, Complete(d)
      PROVE  CountedOnce'
  <2>1. UNCHANGED <<counted, posted>>
    BY <1>2 DEF Complete, ghosts
  <2>2. ASSUME NEW u \in Txn, counted[u] # <<>>
        PROVE  transactions'[u].status = transactions[u].status
    <3>1. transactions[u].status \in Final
      BY <2>2 DEF CountedOnce
    <3>2. CASE call[d].txn # u
      BY <1>2, <1>t, <3>2 DEF Complete
    <3>3. CASE call[d].txn = u
      BY <1>2, <1>t, <3>1, <3>3 DEF Complete, CompleteCode
    <3>4. QED
      BY <3>2, <3>3
  <2>3. QED
    BY <2>1, <2>2 DEF CountedOnce
<1>3. ASSUME NEW d \in Delivery, RecordHealth(d)
      PROVE  CountedOnce'
  <2> DEFINE t == call[d].txn
  <2>1. /\ t \in Txn /\ counted[t] = <<>> /\ posted[t] = 0
        /\ call[d].status \in Final /\ transactions[t].status = call[d].status
    BY <1>3, <1>t DEF RecordHealth, CallsInOrder
  <2>2. /\ counted'[t] = <<call[d].status>>
        /\ \A u \in Txn \ {t} : counted'[u] = counted[u]
        /\ UNCHANGED <<transactions, posted>>
    BY <1>3, <1>t, <2>1 DEF RecordHealth, stores
  <2>3. QED
    BY <2>1, <2>2 DEF CountedOnce
<1>4. ASSUME NEW d \in Delivery, RecordBlacklist(d)
      PROVE  CountedOnce'
  <2> DEFINE t == call[d].txn
  <2>1. /\ t \in Txn /\ counted[t] = <<call[d].status>> /\ posted[t] = 0
    BY <1>4, <1>t DEF RecordBlacklist, CallsInOrder
  <2>2. /\ posted'[t] = 1
        /\ \A u \in Txn \ {t} : posted'[u] = posted[u]
        /\ UNCHANGED <<transactions, counted>>
    BY <1>4, <1>t, <2>1 DEF RecordBlacklist
  <2>3. QED
    BY <2>1, <2>2 DEF CountedOnce
<1>5. CASE UNCHANGED <<transactions, counted, posted>>
  BY <1>5 DEF CountedOnce
<1>6. ASSUME NEW t \in Txn,
             \/ \E o \in Order : Initiate(t, o)
             \/ \E g \in Gateway : SelectGateway(t, g)
             \/ NextAttempt(t) \/ ClientInitiate(t) \/ InitiateFails(t)
      PROVE  UNCHANGED <<transactions, counted, posted>>
  BY <1>6 DEF Initiate, SelectGateway, NextAttempt, ClientInitiate, InitiateFails,
              stores, ghosts
<1>7. ASSUME NEW d \in Delivery, Deliver(d) \/ AnswerDuplicate(d) \/ CallFails(d)
      PROVE  UNCHANGED <<transactions, counted, posted>>
  BY <1>7 DEF Deliver, Callback, AnswerDuplicate, CallFails, stores, ghosts
<1>8. ASSUME NEW n \in Thresholds, ReloadThreshold(n)
      PROVE  UNCHANGED <<transactions, counted, posted>>
  BY <1>8 DEF ReloadThreshold, stores, ghosts
<1>9. CASE UNCHANGED vars
  BY <1>5, <1>9 DEF vars
<1>10. QED
  BY <1>1, <1>2, <1>3, <1>4, <1>5, <1>6, <1>7, <1>8, <1>9
  DEF Next, FaultFreeNext, RequestStep, HandlerStep

-----------------------------------------------------------------------------
(* The blacklist holds what was posted.                                    *)

\* Only RecordBlacklist changes a summary, or which outcomes are posted: the
\* record of a posted transaction is written no more.
LEMMA PostedStep ==
    ASSUME TypeOK, CallsInOrder, CountedOnce, [Next]_vars
    PROVE  \/ \E d \in Delivery : RecordBlacklist(d)
           \/ /\ UNCHANGED <<summaries, posted, barred>>
              /\ \A o \in Order, g \in Gateway, s \in Final :
                   PostedAt(o, g, s)' = PostedAt(o, g, s)
<1>t. /\ transactions \in [Txn -> Transaction] /\ call \in [Delivery -> Call]
      /\ posted \in [Txn -> Nat]
  BY DEF TypeOK
<1>1. ASSUME NEW t \in Txn, posted[t] > 0
      PROVE  counted[t] # <<>> /\ transactions[t].status \in Final
  BY <1>t, <1>1 DEF CountedOnce
<1>2. ASSUME UNCHANGED <<summaries, posted, barred>>,
             \A t \in Txn : posted[t] > 0 => transactions'[t] = transactions[t]
      PROVE  \A o \in Order, g \in Gateway, s \in Final :
                 PostedAt(o, g, s)' = PostedAt(o, g, s)
  BY <1>2 DEF PostedAt
<1>3. ASSUME NEW t \in Txn, Save(t)
      PROVE  /\ UNCHANGED <<summaries, posted, barred>>
             /\ \A u \in Txn : posted[u] > 0 => transactions'[u] = transactions[u]
  BY <1>t, <1>1, <1>3 DEF Save, ghosts, Final
<1>4. ASSUME NEW d \in Delivery, Complete(d)
      PROVE  /\ UNCHANGED <<summaries, posted, barred>>
             /\ \A u \in Txn : posted[u] > 0 => transactions'[u] = transactions[u]
  <2>1. UNCHANGED <<summaries, posted, barred>>
    BY <1>4 DEF Complete, ghosts
  <2>2. ASSUME NEW u \in Txn, posted[u] > 0
        PROVE  transactions'[u] = transactions[u]
    <3>1. transactions[u].status \in Final
      BY <1>1, <2>2
    <3>2. CASE call[d].txn # u
      BY <1>4, <1>t, <3>2 DEF Complete
    <3>3. CASE call[d].txn = u
      BY <1>4, <1>t, <3>1, <3>3 DEF Complete, CompleteCode
    <3>4. QED
      BY <3>2, <3>3
  <2>3. QED
    BY <2>1, <2>2
<1>5. ASSUME NEW t \in Txn,
             \/ \E o \in Order : Initiate(t, o)
             \/ \E g \in Gateway : SelectGateway(t, g)
             \/ NextAttempt(t) \/ ClientInitiate(t) \/ InitiateFails(t)
      PROVE  UNCHANGED <<transactions, summaries, posted, barred>>
  BY <1>5 DEF Initiate, SelectGateway, NextAttempt, ClientInitiate, InitiateFails,
              stores, ghosts
<1>6. ASSUME NEW d \in Delivery,
             Deliver(d) \/ AnswerDuplicate(d) \/ RecordHealth(d) \/ CallFails(d)
      PROVE  UNCHANGED <<transactions, summaries, posted, barred>>
  BY <1>6 DEF Deliver, Callback, AnswerDuplicate, RecordHealth, CallFails,
              stores, ghosts
<1>7. ASSUME NEW n \in Thresholds, ReloadThreshold(n)
      PROVE  UNCHANGED <<transactions, summaries, posted, barred>>
  BY <1>7 DEF ReloadThreshold, stores, ghosts
<1>8. CASE UNCHANGED vars
  BY <1>2, <1>8 DEF vars
<1>9. QED
  BY <1>2, <1>3, <1>4, <1>5, <1>6, <1>7, <1>8
  DEF Next, FaultFreeNext, RequestStep, HandlerStep

\* What RecordBlacklist does: it posts the outcome it owns, which was not
\* posted before, at the order and gateway of the stored record.
LEMMA PostFact ==
    ASSUME TypeOK, CallsInOrder, NEW d \in Delivery, RecordBlacklist(d)
    PROVE  \E t \in Txn, o \in Order, g \in Gateway, s \in Final :
             /\ t \notin PostedAt(o, g, s)
             /\ PostedAt(o, g, s)' = PostedAt(o, g, s) \cup {t}
             /\ \A p \in Order, h \in Gateway, r \in Final :
                  p # o \/ h # g \/ r # s => PostedAt(p, h, r)' = PostedAt(p, h, r)
             /\ summaries'[o][g] = NextSummary(summaries[o][g], s, threshold)
             /\ \A p \in Order, h \in Gateway :
                  p # o \/ h # g => summaries'[p][h] = summaries[p][h]
             /\ o = transactions[t].order /\ g = transactions[t].gateway
             /\ barred'[o] = BarredAfter(t, s)
             /\ \A p \in Order : p # o => barred'[p] = barred[p]
<1>t. /\ transactions \in [Txn -> Transaction] /\ call \in [Delivery -> Call]
      /\ posted \in [Txn -> Nat] /\ summaries \in [Order -> [Gateway -> Summary]]
      /\ barred \in [Order -> SUBSET Gateway]
  BY DEF TypeOK
<1>1. PICK t \in Txn, s \in Final : t = call[d].txn /\ s = call[d].status
  BY <1>t DEF Call
<1>2. PICK o \in Order, g \in Gateway :
          o = transactions[t].order /\ g = transactions[t].gateway
  BY <1>t DEF Transaction
<1>3. transactions[t].status = s /\ posted[t] = 0
  BY <1>1 DEF RecordBlacklist, CallsInOrder
<1>4. /\ transactions' = transactions /\ posted' = [posted EXCEPT ![t] = @ + 1]
      /\ summaries' = [summaries EXCEPT ![o][g] = NextSummary(@, s, threshold)]
      /\ barred' = [barred EXCEPT ![o] = BarredAfter(t, s)]
  BY <1>1, <1>2 DEF RecordBlacklist
<1>6. posted'[t] = 1 /\ \A u \in Txn \ {t} : posted'[u] = posted[u]
  BY <1>3, <1>4, <1>t
<1>7. t \notin PostedAt(o, g, s)
  BY <1>3 DEF PostedAt
<1>8. PostedAt(o, g, s)' = PostedAt(o, g, s) \cup {t}
  BY <1>2, <1>3, <1>4, <1>6 DEF PostedAt
<1>9. \A p \in Order, h \in Gateway, r \in Final :
          p # o \/ h # g \/ r # s => PostedAt(p, h, r)' = PostedAt(p, h, r)
  BY <1>2, <1>3, <1>4, <1>6 DEF PostedAt
<1>10. /\ summaries'[o][g] = NextSummary(summaries[o][g], s, threshold)
       /\ \A p \in Order, h \in Gateway :
            p # o \/ h # g => summaries'[p][h] = summaries[p][h]
  BY <1>4, <1>t
<1>11. /\ barred'[o] = BarredAfter(t, s)
       /\ \A p \in Order : p # o => barred'[p] = barred[p]
  BY <1>4, <1>t
<1>12. QED
  BY <1>2, <1>7, <1>8, <1>9, <1>10, <1>11

\* One outcome more at an order and gateway is one more in its summary, and a
\* gateway is blacklisted on enough failures and no success.
LEMMA LedgerStep ==
    TransactionsInv /\ [Next]_vars
    => PostedFinite' /\ LedgerAgrees' /\ BlacklistJustified'
<1> SUFFICES ASSUME TransactionsInv, [Next]_vars
             PROVE  PostedFinite' /\ LedgerAgrees' /\ BlacklistJustified'
  OBVIOUS
<1>i. /\ TypeOK /\ CallsInOrder /\ CountedOnce /\ PostedFinite /\ LedgerAgrees
      /\ BlacklistJustified
  BY DEF TransactionsInv
<1>c. TypeOK' /\ CountedOnce'
  BY <1>i, TypeStep, CountedStep
<1>1. \A t \in Txn : posted'[t] <= Len(counted'[t])
  <2> TAKE t \in Txn
  <2>1. \/ posted'[t] = 0
        \/ posted'[t] = 1 /\ counted'[t] = <<transactions'[t].status>>
    BY <1>c DEF CountedOnce
  <2>2. counted'[t] \in Seq(Final)
    BY <1>c DEF TypeOK
  <2>3. Len(counted'[t]) \in Nat
    BY <2>2
  <2>4. QED
    BY <2>1, <2>3
<1>2. CASE /\ UNCHANGED <<summaries, posted, barred>>
           /\ \A o \in Order, g \in Gateway, s \in Final :
                PostedAt(o, g, s)' = PostedAt(o, g, s)
  BY <1>1, <1>2, <1>i DEF PostedFinite, LedgerAgrees, BlacklistJustified, Final
<1>3. ASSUME NEW d \in Delivery, RecordBlacklist(d)
      PROVE  PostedFinite' /\ LedgerAgrees' /\ BlacklistJustified'
  <2>1. PICK t \in Txn, o \in Order, g \in Gateway, s \in Final :
          /\ t \notin PostedAt(o, g, s)
          /\ PostedAt(o, g, s)' = PostedAt(o, g, s) \cup {t}
          /\ \A p \in Order, h \in Gateway, r \in Final :
               p # o \/ h # g \/ r # s => PostedAt(p, h, r)' = PostedAt(p, h, r)
          /\ summaries'[o][g] = NextSummary(summaries[o][g], s, threshold)
          /\ \A p \in Order, h \in Gateway :
               p # o \/ h # g => summaries'[p][h] = summaries[p][h]
    BY <1>3, <1>i, PostFact
  <2>2. IsFiniteSet(PostedAt(o, g, s))
    BY <1>i DEF PostedFinite
  <2>3. /\ IsFiniteSet(PostedAt(o, g, s)')
        /\ Cardinality(PostedAt(o, g, s)') = Cardinality(PostedAt(o, g, s)) + 1
    BY <2>1, <2>2, FS_AddElement
  <2>4. PostedFinite'
    BY <1>i, <2>1, <2>3 DEF PostedFinite
  <2>5. \A p \in Order, h \in Gateway, r \in Final :
            Cardinality(PostedAt(p, h, r)) \in Nat
    BY <1>i, FS_CardinalityType DEF PostedFinite
  <2>6. /\ summaries[o][g] \in Summary /\ threshold \in Nat
        /\ summaries[o][g].failures \in Nat /\ summaries[o][g].successes \in Nat
    BY <1>i DEF TypeOK, Summary
  <2>7. /\ summaries[o][g].failures = Cardinality(PostedAt(o, g, "failure"))
        /\ summaries[o][g].successes = Cardinality(PostedAt(o, g, "success"))
    BY <1>i DEF LedgerAgrees
  <2>8. CASE s = "success"
    <3>1. /\ summaries'[o][g].failures = summaries[o][g].failures
          /\ summaries'[o][g].successes = summaries[o][g].successes + 1
          /\ ~summaries'[o][g].blacklisted
      BY <2>1, <2>6, <2>8 DEF NextSummary, Summary
    <3>2. LedgerAgrees'
      <4>1. ASSUME NEW p \in Order, NEW h \in Gateway
            PROVE  /\ summaries'[p][h].failures = Cardinality(PostedAt(p, h, "failure")')
                   /\ summaries'[p][h].successes = Cardinality(PostedAt(p, h, "success")')
        <5>1. CASE p = o /\ h = g
          BY <2>1, <2>3, <2>7, <2>8, <3>1, <5>1 DEF Final
        <5>2. CASE p # o \/ h # g
          BY <1>i, <2>1, <5>2 DEF LedgerAgrees, Final
        <5>3. QED
          BY <5>1, <5>2
      <4>2. QED
        BY <1>1, <4>1 DEF LedgerAgrees
    <3>3. BlacklistJustified'
      BY <1>i, <2>1, <2>8, <3>1 DEF BlacklistJustified, Final
    <3>4. QED
      BY <2>4, <3>2, <3>3
  <2>9. CASE s = "failure"
    <3>1. /\ summaries'[o][g].failures = summaries[o][g].failures + 1
          /\ summaries'[o][g].successes = summaries[o][g].successes
          /\ summaries'[o][g].blacklisted =>
               \/ summaries[o][g].blacklisted
               \/ /\ summaries[o][g].successes = 0
                  /\ summaries[o][g].failures + 1 >= threshold
      BY <2>1, <2>6, <2>9 DEF NextSummary, Summary
    <3>2. LedgerAgrees'
      <4>1. ASSUME NEW p \in Order, NEW h \in Gateway
            PROVE  /\ summaries'[p][h].failures = Cardinality(PostedAt(p, h, "failure")')
                   /\ summaries'[p][h].successes = Cardinality(PostedAt(p, h, "success")')
        <5>1. CASE p = o /\ h = g
          BY <2>1, <2>3, <2>7, <2>9, <3>1, <5>1 DEF Final
        <5>2. CASE p # o \/ h # g
          BY <1>i, <2>1, <5>2 DEF LedgerAgrees, Final
        <5>3. QED
          BY <5>1, <5>2
      <4>2. QED
        BY <1>1, <4>1 DEF LedgerAgrees
    <3>3. PostedAt(o, g, "success")' = PostedAt(o, g, "success")
      BY <2>1, <2>9 DEF Final
    <3>4. ASSUME summaries'[o][g].blacklisted
          PROVE  /\ PostedAt(o, g, "success") = {}
                 /\ \E n \in Thresholds : Cardinality(PostedAt(o, g, "failure")') >= n
      <4>1. CASE summaries[o][g].blacklisted
        <5>1. PICK n \in Thresholds : Cardinality(PostedAt(o, g, "failure")) >= n
          BY <1>i, <4>1 DEF BlacklistJustified
        <5>2. n \in Nat
          OBVIOUS
        <5>3. Cardinality(PostedAt(o, g, "failure")) \in Nat
          BY <2>5 DEF Final
        <5>4. Cardinality(PostedAt(o, g, "failure")') >= n
          BY <2>3, <2>9, <5>1, <5>2, <5>3
        <5>5. QED
          BY <1>i, <4>1, <5>4 DEF BlacklistJustified
      <4>2. CASE /\ summaries[o][g].successes = 0
                 /\ summaries[o][g].failures + 1 >= threshold
        <5>1. PostedAt(o, g, "success") = {}
          <6>1. Cardinality(PostedAt(o, g, "success")) = 0
            BY <2>7, <4>2
          <6>2. IsFiniteSet(PostedAt(o, g, "success"))
            BY <1>i DEF PostedFinite, Final
          <6>3. QED
            BY <6>1, <6>2, FS_EmptySet
        <5>2. Cardinality(PostedAt(o, g, "failure")') >= threshold
          BY <2>3, <2>7, <2>9, <4>2
        <5>3. threshold \in Thresholds
          BY <1>i DEF TypeOK
        <5>4. QED
          BY <5>1, <5>2, <5>3
      <4>3. QED
        BY <3>1, <3>4, <4>1, <4>2
    <3>5. BlacklistJustified'
      BY <1>i, <2>1, <2>9, <3>3, <3>4 DEF BlacklistJustified, Final
    <3>6. QED
      BY <2>4, <3>2, <3>5
  <2>10. QED
    BY <2>8, <2>9 DEF Final
<1>4. QED
  BY <1>2, <1>3, <1>i, PostedStep

\* RecordOutcome of the repository, which sees the summary alone, blacklists a
\* gateway exactly when the payments posted so far speak against it.
LEMMA ExactStep == TransactionsInv /\ [Next]_vars => BlacklistExact'
<1> SUFFICES ASSUME TransactionsInv, [Next]_vars PROVE BlacklistExact'
  OBVIOUS
<1>i. /\ TypeOK /\ CallsInOrder /\ CountedOnce /\ PostedFinite /\ LedgerAgrees
      /\ BlacklistJustified /\ BlacklistExact
  BY DEF TransactionsInv
<1>1. CASE UNCHANGED <<summaries, barred>>
  BY <1>1, <1>i DEF BlacklistExact, BlacklistedGateways
<1>2. ASSUME NEW d \in Delivery, RecordBlacklist(d)
      PROVE  BlacklistExact'
  <2>1. PICK t \in Txn, o \in Order, g \in Gateway, s \in Final :
          /\ t \notin PostedAt(o, g, s)
          /\ summaries'[o][g] = NextSummary(summaries[o][g], s, threshold)
          /\ \A p \in Order, h \in Gateway :
               p # o \/ h # g => summaries'[p][h] = summaries[p][h]
          /\ o = transactions[t].order /\ g = transactions[t].gateway
          /\ barred'[o] = BarredAfter(t, s)
          /\ \A p \in Order : p # o => barred'[p] = barred[p]
    BY <1>2, <1>i, PostFact
  <2>b. /\ s = "success" => barred'[o] = barred[o] \ {g}
        /\ s # "success" => barred'[o] =
             IF /\ PostedAt(o, g, "success") = {}
                /\ Cardinality(PostedAt(o, g, "failure") \cup {t}) >= threshold
               THEN barred[o] \cup {g} ELSE barred[o]
    BY <2>1 DEF BarredAfter
  <2>2. /\ \A p \in Order : barred[p] \subseteq Gateway
        /\ \A p \in Order, h \in Gateway : summaries[p][h].blacklisted <=> h \in barred[p]
        /\ \A p \in Order : barred'[p] \subseteq Gateway
    <3>1. barred \in [Order -> SUBSET Gateway] /\ barred' \in [Order -> SUBSET Gateway]
      BY <1>i, TypeStep DEF TypeOK
    <3>2. QED
      BY <1>i, <3>1 DEF BlacklistExact, BlacklistedGateways
  <2>3. /\ summaries[o][g] \in Summary /\ threshold \in Nat
        /\ summaries[o][g].failures \in Nat /\ summaries[o][g].successes \in Nat
    BY <1>i DEF TypeOK, Summary
  <2>4. /\ summaries[o][g].failures = Cardinality(PostedAt(o, g, "failure"))
        /\ summaries[o][g].successes = Cardinality(PostedAt(o, g, "success"))
    BY <1>i DEF LedgerAgrees
  <2>5. summaries'[o][g].blacklisted <=> g \in barred'[o]
    <3>1. CASE s = "success"
      <4>1. ~summaries'[o][g].blacklisted
        BY <2>1, <2>3, <3>1 DEF NextSummary, Summary
      <4>2. QED
        BY <2>b, <3>1, <4>1
    <3>2. CASE s = "failure"
      <4>1. summaries'[o][g].blacklisted <=>
              \/ summaries[o][g].blacklisted
              \/ /\ summaries[o][g].successes = 0
                 /\ summaries[o][g].failures + 1 >= threshold
        BY <2>1, <2>3, <3>2 DEF NextSummary, Summary
      <4>2. summaries[o][g].successes = 0 <=> PostedAt(o, g, "success") = {}
        <5>1. IsFiniteSet(PostedAt(o, g, "success"))
          BY <1>i DEF PostedFinite, Final
        <5>2. QED
          BY <2>4, <5>1, FS_EmptySet
      <4>3. Cardinality(PostedAt(o, g, "failure") \cup {t}) = summaries[o][g].failures + 1
        <5>1. IsFiniteSet(PostedAt(o, g, "failure"))
          BY <1>i DEF PostedFinite, Final
        <5>2. QED
          <6>1. t \notin PostedAt(o, g, "failure")
            BY <2>1, <3>2
          <6>2. QED
            BY <2>4, <5>1, <6>1, FS_AddElement
      <4>4. barred'[o] =
              IF /\ PostedAt(o, g, "success") = {}
                 /\ summaries[o][g].failures + 1 >= threshold
                THEN barred[o] \cup {g} ELSE barred[o]
        BY <2>b, <3>2, <4>3
      <4>5. QED
        BY <2>2, <4>1, <4>2, <4>4
    <3>3. QED
      BY <3>1, <3>2 DEF Final
  <2>6. ASSUME NEW p \in Order, NEW h \in Gateway
        PROVE  summaries'[p][h].blacklisted <=> h \in barred'[p]
    <3>1. CASE p = o /\ h = g
      BY <2>5, <3>1
    <3>2. CASE p # o
      BY <2>1, <2>2, <3>2
    <3>3. CASE p = o /\ h # g
      <4>1. h \in barred'[o] <=> h \in barred[o]
        BY <2>b, <3>3
      <4>2. summaries'[o][h] = summaries[o][h]
        BY <2>1, <3>3
      <4>3. QED
        BY <2>2, <3>3, <4>1, <4>2
    <3>4. QED
      BY <3>1, <3>2, <3>3
  <2>7. QED
    BY <2>2, <2>6 DEF BlacklistExact, BlacklistedGateways
<1>3. QED
  BY <1>1, <1>2, <1>i, PostedStep

-----------------------------------------------------------------------------
\* The invariant holds before the first request.
LEMMA InitInv == Init => TransactionsInv
<1> SUFFICES ASSUME Init PROVE TransactionsInv
  OBVIOUS
<1>1. TypeOK
  <2>1. <<>> \in Seq(Final)
    OBVIOUS
  <2>2. QED
    BY <2>1, PlaceholderTypes DEF Init, TypeOK
<1>2. \A t \in Txn : /\ transactions[t].status = "missing" /\ req[t].pc = "new"
                     /\ counted[t] = <<>> /\ posted[t] = 0
  BY DEF Init, NoTransaction, NoReq
<1>3. \A d \in Delivery : call[d].pc = "idle"
  BY DEF Init, IdleCall
<1>4. RequestsInOrder
  <2>1. \A t \in Txn : req[t].excluded = began[t]
    BY DEF Init, NoReq
  <2>2. QED
    BY <1>2, <2>1 DEF RequestsInOrder, Numbered
<1>5. CallsInOrder
  BY <1>3 DEF CallsInOrder
<1>6. CountedOnce
  BY <1>2 DEF CountedOnce
<1>7. \A o \in Order, g \in Gateway, s \in Final : PostedAt(o, g, s) = {}
  BY <1>2 DEF PostedAt
<1>8. PostedFinite
  BY <1>7, FS_EmptySet DEF PostedFinite
<1>9. \A o \in Order, g \in Gateway :
          /\ summaries[o][g].failures = 0 /\ summaries[o][g].successes = 0
          /\ ~summaries[o][g].blacklisted
  BY DEF Init, NoSummary
<1>10. LedgerAgrees
  <2>1. \A t \in Txn : posted[t] <= Len(counted[t])
    BY <1>2
  <2>2. QED
    BY <1>7, <1>9, <2>1, FS_EmptySet DEF LedgerAgrees, Final
<1>11. BlacklistJustified
  BY <1>9 DEF BlacklistJustified
<1>12. BlacklistExact
  BY <1>9 DEF Init, BlacklistExact, BlacklistedGateways
<1>13. QED
  BY <1>1, <1>4, <1>5, <1>6, <1>8, <1>10, <1>11, <1>12 DEF TransactionsInv

\* Every step of a request, a callback, a failure or a reload keeps it.
LEMMA StepInv == TransactionsInv /\ [Next]_vars => TransactionsInv'
<1> SUFFICES ASSUME TransactionsInv, [Next]_vars PROVE TransactionsInv'
  OBVIOUS
<1>1. TypeOK /\ RequestsInOrder /\ CallsInOrder /\ CountedOnce /\ BlacklistExact
  BY DEF TransactionsInv
<1>2. TypeOK' /\ RequestsInOrder' /\ CallsInOrder' /\ CountedOnce'
  BY <1>1, TypeStep, RequestsStep, CallsStep, CountedStep
<1>3. QED
  BY <1>2, LedgerStep, ExactStep DEF TransactionsInv

\* The invariant of the transaction service, for every number of concurrent
\* requests and callbacks and any failures in between.
THEOREM Invariance == Spec => []TransactionsInv
<1>1. QED
  BY InitInv, StepInv, PTL DEF Spec

\* Every variable keeps its type.
THEOREM TypeCorrect == Spec => []TypeOK
<1>1. TransactionsInv => TypeOK
  BY DEF TransactionsInv
<1>2. QED
  BY <1>1, Invariance, PTL

\* The per-order ledger of RecordOutcome counts each outcome once, where it
\* belongs, and none that health did not count.
THEOREM LedgerAgreesHolds == Spec => []LedgerAgrees
<1>1. TransactionsInv => LedgerAgrees
  BY DEF TransactionsInv
<1>2. QED
  BY <1>1, Invariance, PTL

\* A gateway is blacklisted for an order on enough failures and no success,
\* wherever the threshold is edited in between.
THEOREM BlacklistJustifiedHolds == Spec => []BlacklistJustified
<1>1. TransactionsInv => BlacklistJustified
  BY DEF TransactionsInv
<1>2. QED
  BY <1>1, Invariance, PTL

\* Initiate stores no transaction at a gateway that the posted payments of its
\* order spoke against when it began, under whatever thresholds were in force.
THEOREM BlacklistHonouredHolds == Spec => []BlacklistHonoured
<1>1. TransactionsInv => BlacklistHonoured
  BY DEF TransactionsInv, RequestsInOrder, BlacklistHonoured
<1>2. QED
  BY <1>1, Invariance, PTL

\* NextAttempt numbers the stored transactions of an order without repetition.
THEOREM AttemptsDistinctHolds == Spec => []AttemptsDistinct
<1>1. TransactionsInv => AttemptsDistinct
  BY DEF TransactionsInv, RequestsInOrder, Numbered, AttemptsDistinct
<1>2. QED
  BY <1>1, Invariance, PTL

-----------------------------------------------------------------------------
(* The refinement of PaymentLedger.                                        *)

\* Save opens a payment, the Complete that changes it settles it, RecordHealth
\* counts it, and no other step is seen.
LEMMA LedgerStepRefines ==
    ASSUME TransactionsInv, [Next]_vars PROVE [Ledger!Next]_(Ledger!vars)
<1> DEFINE payment == [t \in Txn |-> transactions[t].status]
<1>i. TypeOK /\ CallsInOrder /\ CountedOnce
  BY DEF TransactionsInv
<1>t. /\ transactions \in [Txn -> Transaction] /\ call \in [Delivery -> Call]
      /\ counted \in [Txn -> Seq(Final)]
      /\ \A d \in Delivery : call[d].txn \in Txn /\ call[d].status \in Final
  BY <1>i DEF TypeOK, Call
<1>1. ASSUME NEW t \in Txn, Save(t)
      PROVE  Ledger!Open(t)
  <2>1. /\ transactions[t].status = "missing" /\ transactions'[t].status = "pending"
        /\ \A u \in Txn \ {t} : transactions'[u] = transactions[u]
        /\ counted' = counted
    BY <1>1, <1>t DEF Save, ghosts
  <2>2. payment' = [payment EXCEPT ![t] = "pending"]
    BY <2>1
  <2>3. QED
    BY <2>1, <2>2 DEF Ledger!Open
<1>2. ASSUME NEW d \in Delivery, Complete(d)
      PROVE  \/ \E t \in Txn, s \in Final : Ledger!Settle(t, s)
             \/ UNCHANGED <<payment, counted>>
  <2>1. PICK t \in Txn, s \in Final : t = call[d].txn /\ s = call[d].status
    BY <1>t
  <2>2. transactions[t].status \in Statuses \ {"missing"}
    BY <1>2, <1>i, <1>t, <2>1 DEF Complete, CallsInOrder, Transaction
  <2>3. /\ transactions' = IF CompleteCode(transactions[t].status, s) = "changed"
             THEN [transactions EXCEPT ![t].status = s] ELSE transactions
        /\ counted' = counted
    BY <1>2, <2>1 DEF Complete, ghosts
  <2>4. CASE transactions[t].status \in Final
    <3>1. transactions' = transactions
      BY <2>2, <2>3, <2>4, CompleteFact
    <3>2. QED
      BY <2>3, <3>1
  <2>5. CASE transactions[t].status \notin Final
    <3>1. transactions' = [transactions EXCEPT ![t].status = s]
      BY <2>2, <2>3, <2>5, CompleteFact
    <3>2. /\ transactions'[t].status = s
          /\ \A u \in Txn \ {t} : transactions'[u] = transactions[u]
      BY <1>t, <3>1 DEF Transaction
    <3>3. payment' = [payment EXCEPT ![t] = s]
      BY <3>2
    <3>4. payment[t] = "pending"
      BY <2>2, <2>5 DEF Statuses
    <3>5. Ledger!Settle(t, s)
      BY <2>3, <3>3, <3>4 DEF Ledger!Settle
    <3>6. QED
      BY <3>5
  <2>6. QED
    BY <2>4, <2>5
<1>3. ASSUME NEW d \in Delivery, RecordHealth(d)
      PROVE  \E t \in Txn : Ledger!Count(t)
  <2>1. PICK t \in Txn, s \in Final : t = call[d].txn /\ s = call[d].status
    BY <1>t
  <2>2. transactions[t].status = s /\ counted[t] = <<>>
    BY <1>3, <1>i, <2>1 DEF RecordHealth, CallsInOrder
  <2>3. transactions' = transactions /\ counted' = [counted EXCEPT ![t] = Append(@, s)]
    BY <1>3, <2>1 DEF RecordHealth, stores
  <2>4. payment' = payment /\ payment[t] = s
    BY <2>2, <2>3
  <2>5. counted' = [counted EXCEPT ![t] = <<payment[t]>>]
    <3>1. Append(counted[t], s) = <<s>>
      BY <2>2
    <3>2. QED
      BY <2>3, <2>4, <3>1
  <2>6. Ledger!Count(t)
    BY <2>2, <2>4, <2>5 DEF Ledger!Count, Ledger!Final, Final
  <2>7. QED
    BY <2>6
<1>4. ASSUME NEW t \in Txn,
             \/ \E o \in Order : Initiate(t, o)
             \/ \E g \in Gateway : SelectGateway(t, g)
             \/ NextAttempt(t) \/ ClientInitiate(t) \/ InitiateFails(t)
      PROVE  UNCHANGED <<transactions, counted>>
  BY <1>4 DEF Initiate, SelectGateway, NextAttempt, ClientInitiate, InitiateFails,
              stores, ghosts
<1>5. ASSUME NEW d \in Delivery, \/ Deliver(d) \/ AnswerDuplicate(d)
                                 \/ RecordBlacklist(d) \/ CallFails(d)
      PROVE  UNCHANGED <<transactions, counted>>
  BY <1>5 DEF Deliver, Callback, AnswerDuplicate, RecordBlacklist, CallFails,
              stores, ghosts
<1>6. ASSUME NEW n \in Thresholds, ReloadThreshold(n)
      PROVE  UNCHANGED <<transactions, counted>>
  BY <1>6 DEF ReloadThreshold, stores, ghosts
<1>7. CASE UNCHANGED vars
  BY <1>7 DEF vars, Ledger!vars
<1>8. ASSUME UNCHANGED <<transactions, counted>>
      PROVE  UNCHANGED <<payment, counted>>
  BY <1>8
<1>9. QED
  BY <1>1, <1>2, <1>3, <1>4, <1>5, <1>6, <1>7, <1>8
  DEF Next, FaultFreeNext, RequestStep, HandlerStep, Ledger!Next, Ledger!vars,
      Ledger!Final, Final

\* The transaction service implements PaymentLedger: a payment is opened once,
\* settled once, and its outcome counted at most once, with its status.
THEOREM LedgerRefined == Spec => LedgerSpec
<1>1. Init => Ledger!Init
  BY DEF Init, NoTransaction, Ledger!Init
<1>2. TransactionsInv /\ [Next]_vars => [Ledger!Next]_(Ledger!vars)
  BY LedgerStepRefines
<1>3. QED
  BY <1>1, <1>2, Invariance, PTL DEF Spec, LedgerSpec, Ledger!Spec
=============================================================================
