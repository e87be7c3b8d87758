-------------------------- MODULE CallbackDecoding --------------------------
(***************************************************************************)
(* What POST /transactions/callback makes of a body: the normalized form   *)
(* is tried first, then the gateways' own forms in the order of their      *)
(* names, each refusing a key it does not know                             *)
(* (internal/adapters/http/router.go, internal/adapters/gateway/).         *)
(*                                                                         *)
(* A body is the set of its top-level keys and the status word it carries, *)
(* trimmed and in lower case, under whichever key the reader looks for it. *)
(* A transaction is named by a body that has the key it is read from.      *)
(***************************************************************************)
EXTENDS Sequences, FiniteSets

Normalized == "normalized"
\* Registry.decoders; Registry.Decode sorts the names.
Decoders == <<"cashfree", "payu", "razorpay">>
Dialect  == {Normalized, "cashfree", "payu", "razorpay"}

\* Each reader: the top-level keys of the struct it fills, the ones in which
\* it finds the transaction and the status, and the status words it knows.
NormalizedForm ==
    [keys |-> {"transaction_id", "order_id", "status", "gateway", "reason"},
     id |-> "transaction_id", status |-> "status",
     words |-> [success |-> "success", failure |-> "failure", pending |-> "pending"]]

CashfreeForm ==
    [keys |-> {"order", "payment"}, id |-> "order", status |-> "payment",
     words |-> [success |-> "success", paid |-> "success",
                failed |-> "failure", failure |-> "failure"]]

PayUForm ==
    [keys |-> {"txnid", "udf1", "status", "error_Message"},
     id |-> "txnid", status |-> "status",
     words |-> [success |-> "success", failed |-> "failure", failure |-> "failure"]]

RazorpayForm ==
    [keys |-> {"event", "payload"}, id |-> "payload", status |-> "payload",
     words |-> [captured |-> "success", paid |-> "success", failed |-> "failure"]]

Form == [normalized |-> NormalizedForm, cashfree |-> CashfreeForm,
         payu |-> PayUForm, razorpay |-> RazorpayForm]
Words(d) == Form[d].words

Word == UNION {DOMAIN Words(d) : d \in Dialect} \cup {"", "authorized"}
Body == [keys : SUBSET UNION {Form[d].keys : d \in Dialect}, word : Word]

IsFinal(status) == status \in {"success", "failure"}
-----------------------------------------------------------------------------
Refused(error) == [error |-> error]
Accepted(input) == "error" \notin DOMAIN input

\* The string field is empty when its key is absent.
StatusWord(d, body) == IF Form[d].status \in body.keys THEN body.word ELSE ""

\* Seeded fault: the reader ignores keys its struct does not have.
StrictReaderLax(d, body) == TRUE

\* DisallowUnknownFields.
StrictReader(d, body) == body.keys \subseteq Form[d].keys

Reading(d, body) ==
    [transaction |-> Form[d].id \in body.keys,
     gateway |-> IF d # Normalized THEN d
                 ELSE IF "gateway" \in body.keys THEN "given" ELSE "",
     status |-> Words(d)[StatusWord(d, body)]]

decodeNormalizedCallback(body) ==
    IF ~StrictReader(Normalized, body) THEN Refused("json")
    ELSE IF \/ StatusWord(Normalized, body) \notin DOMAIN Words(Normalized)
            \/ ~IsFinal(Words(Normalized)[StatusWord(Normalized, body)])
         THEN Refused("status")
         ELSE Reading(Normalized, body)

DecodeAs(d, body) ==
    IF StrictReader(d, body) /\ StatusWord(d, body) \in DOMAIN Words(d)
      THEN Reading(d, body) ELSE Refused("callback")

\* Registry.Decode: the first decoder that accepts.
RegistryDecode(body) ==
    LET accepting == SelectSeq(Decoders, LAMBDA d : Accepted(DecodeAs(d, body)))
    IN  IF accepting = <<>> THEN Refused("callback")
                            ELSE DecodeAs(Head(accepting), body)

\* A normalized body with a bad status is not offered to the decoders.
decodeCallback(body) ==
    LET input == decodeNormalizedCallback(body)
    IN  IF Accepted(input) \/ input.error = "status" THEN input
                                                     ELSE RegistryDecode(body)

\* handleCallback and processCallback, up to the call of the service.
handleCallback(body) ==
    LET input == decodeCallback(body)
    IN  IF /\ Accepted(input)
           /\ input.transaction /\ input.gateway # "" /\ IsFinal(input.status)
         THEN input ELSE Refused("bad request")

\* What a gateway sends in its own form: its keys, a transaction, a status.
Genuine(d, body) ==
    /\ body.keys \subseteq Form[d].keys
    /\ {Form[d].id, Form[d].status} \subseteq body.keys
    /\ body.word \in DOMAIN Words(d)
=============================================================================
