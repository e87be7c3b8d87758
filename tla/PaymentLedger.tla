---------------------------- MODULE PaymentLedger ----------------------------
(***************************************************************************)
(* What the transaction service promises about a payment: it is opened     *)
(* once, settled once with a final status, and its outcome reaches the     *)
(* gateway statistics at most once, after it was settled.                  *)
(***************************************************************************)
CONSTANT Txn

VARIABLES payment, counted

vars == <<payment, counted>>

Final == {"success", "failure"}

Init ==
    /\ payment = [t \in Txn |-> "missing"]
    /\ counted = [t \in Txn |-> <<>>]

Open(t) ==
    /\ payment[t] = "missing"
    /\ payment' = [payment EXCEPT ![t] = "pending"]
    /\ UNCHANGED counted

Settle(t, status) ==
    /\ payment[t] = "pending"
    /\ payment' = [payment EXCEPT ![t] = status]
    /\ UNCHANGED counted

Count(t) ==
    /\ payment[t] \in Final
    /\ counted[t] = <<>>
    /\ counted' = [counted EXCEPT ![t] = <<payment[t]>>]
    /\ UNCHANGED payment

Next == \E t \in Txn : Open(t) \/ Count(t) \/ \E s \in Final : Settle(t, s)

Spec == Init /\ [][Next]_vars
=============================================================================
