------------------------------- MODULE Inputs -------------------------------
(***************************************************************************)
(* What the router parses: a configuration file, or the body of a callback *)
(* request.                                                                *)
(***************************************************************************)
EXTENDS WeightedSelection, CallbackDecoding

VARIABLES
    body,     \* the request body
    answer    \* what the HTTP handler made of it

NoBody   == [keys |-> {}, word |-> "none"]
NoAnswer == Refused("none")

InputsInit ==
    /\ \/ Init /\ body = NoBody
       \/ raw = NoConfig /\ stored = NoConfig /\ body \in Body
    /\ answer = NoAnswer

LoadFile == Load /\ UNCHANGED <<body, answer>>

PostCallback ==
    /\ body # NoBody
    /\ answer = NoAnswer
    /\ answer' = handleCallback(body)
    /\ UNCHANGED <<raw, stored, body>>

InputsSpec == InputsInit /\ [][LoadFile \/ PostCallback]_<<vars, body, answer>>
-----------------------------------------------------------------------------
\* A gateway is understood in its own words: a body of its keys that names
\* the transaction and carries one of its statuses is read as its callback
\* with that status, although the normalized reader, which shares PayU's
\* "status" key and stops at words it does not know, sees it first.
DialectUnderstood ==
    answer # NoAnswer =>
        \A d \in Dialect \ {Normalized} : Genuine(d, body) =>
            answer = [transaction |-> TRUE, gateway |-> d,
                      status |-> Words(d)[body.word]]

\* No body is a callback of two senders: at most one reader finds in it a
\* transaction and a status, so the order of the decoders decides nothing.
OneReading ==
    \A d, e \in Dialect :
        /\ Accepted(DecodeAs(d, body)) /\ Accepted(DecodeAs(e, body))
        /\ DecodeAs(d, body).transaction /\ DecodeAs(e, body).transaction
        => d = e
=============================================================================
