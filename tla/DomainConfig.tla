---------------------------- MODULE DomainConfig ----------------------------
(***************************************************************************)
(* AppConfig.WithDefaults and Validate (internal/domain/config.go) as      *)
(* functions, and the path every configuration takes: the provider stores  *)
(* what WithDefaults makes of a file if Validate accepts it, and each      *)
(* reader applies WithDefaults once more to what Current returns.          *)
(*                                                                         *)
(* success_rate_threshold is an integer number of units of 0.0001, so that *)
(* One is 1.0 and a percentage above it is divided by 100. YAML also has   *)
(* the number .nan, of which every comparison is false.                    *)
(***************************************************************************)
EXTENDS Integers, Sequences

CONSTANTS
    Name,          \* gateway names
    NoName,        \* the empty name
    RawValue,      \* numbers an operator may write in an integer field
    RawThreshold,  \* numbers an operator may write as the threshold
    NaN,           \* one of them may be this
    RawWeight,     \* numbers an operator may write as a weight
    MaxGateways    \* bound on the length of the gateway list

One == 10000

ASSUME RawAssumption ==
    /\ RawValue \subseteq Int /\ RawWeight \subseteq Int
    /\ RawThreshold \subseteq Int \cup {NaN}
    /\ NaN \notin Int
    /\ \A t \in RawThreshold \ {NaN} : t > One => t % 100 = 0   \* exact in these units
    /\ NoName \notin Name
    /\ MaxGateways \in Nat

VARIABLES
    raw,      \* the file, parsed
    stored    \* FileProvider.current; no gateways before the first load

vars == <<raw, stored>>

Fields == {"health_window_seconds", "unhealthy_cooldown_seconds",
           "min_callback_count", "half_open_probe_count",
           "half_open_probe_timeout_seconds", "order_gateway_failure_threshold"}

DefaultRoutingConfig ==
    [f \in Fields |-> CASE f = "health_window_seconds"           -> 900
                        [] f = "unhealthy_cooldown_seconds"      -> 1800
                        [] f = "min_callback_count"              -> 10
                        [] f = "half_open_probe_count"           -> 1
                        [] f = "half_open_probe_timeout_seconds" -> 60
                        [] f = "order_gateway_failure_threshold" -> 2]
DefaultThreshold == 9000

GatewayConfig == [name : Name \cup {NoName}, enabled : BOOLEAN, weight : RawWeight]
RawConfig == [routing : [Fields -> RawValue], threshold : RawThreshold,
              gateways : UNION {[1..n -> GatewayConfig] : n \in 0..MaxGateways}]

-----------------------------------------------------------------------------
\* Seeded fault: a field given as zero is kept.
DefaultedUnlessNegative(routing) ==
    [f \in Fields |-> IF routing[f] < 0 THEN DefaultRoutingConfig[f] ELSE routing[f]]

\* The integer fields.
Defaulted(routing) ==
    [f \in Fields |-> IF routing[f] <= 0 THEN DefaultRoutingConfig[f] ELSE routing[f]]

NotPositive(threshold) == threshold # NaN /\ threshold <= 0
AboveOne(threshold) == threshold # NaN /\ threshold > One

\* The threshold: a default first, then a percentage becomes a fraction.
Normalised(threshold) ==
    LET given == IF NotPositive(threshold) THEN DefaultThreshold ELSE threshold
    IN  IF AboveOne(given) THEN given \div 100 ELSE given

WithDefaults(c) == [c EXCEPT !.routing = Defaulted(@), !.threshold = Normalised(@)]

\* Seeded fault: a threshold above 1 is let through.
ThresholdAcceptedHigh(threshold) == ~NotPositive(threshold)

ThresholdAccepted(threshold) == ~(NotPositive(threshold) \/ AboveOne(threshold))

Validate(c) ==
    /\ c.gateways # <<>>
    /\ \A i \in DOMAIN c.gateways :
         /\ c.gateways[i].name # NoName
         /\ \A j \in DOMAIN c.gateways :
              c.gateways[i].name = c.gateways[j].name => i = j
         /\ c.gateways[i].enabled => c.gateways[i].weight > 0
    /\ \E i \in DOMAIN c.gateways : c.gateways[i].enabled
    /\ ThresholdAccepted(c.threshold)
    /\ c.routing["order_gateway_failure_threshold"] > 0

-----------------------------------------------------------------------------
NoConfig == [routing |-> DefaultRoutingConfig, threshold |-> DefaultThreshold,
             gateways |-> <<>>]

Init == raw \in RawConfig /\ stored = NoConfig

\* reload; a configuration that Validate refuses leaves what there was.
Load ==
    /\ Validate(WithDefaults(raw))
    /\ stored' = WithDefaults(raw)
    /\ UNCHANGED raw

Spec == Init /\ [][Load]_vars
-----------------------------------------------------------------------------
\* What the services take for granted of a configuration they are given:
\* every count and duration is positive, whatever the file said, and some
\* gateway can be routed to.
Usable ==
    /\ \A f \in Fields : stored.routing[f] > 0
    /\ stored # NoConfig =>
         \E i \in DOMAIN stored.gateways :
            stored.gateways[i].enabled /\ stored.gateways[i].weight > 0

\* Readers apply WithDefaults to a configuration the provider has already
\* normalised; that changes nothing. In particular a threshold is not taken
\* for a percentage twice.
ReadersAgree == WithDefaults(stored) = stored
=============================================================================
