--------------------------- MODULE MCGatewayHealth ---------------------------
(* Model-checking instances of GatewayHealth and SerialHealth.             *)
EXTENDS SerialHealth, TLC

\* Placeholders chosen from these sets are never read, so permuting them
\* relates states with the same behaviours.
Symmetry == Permutations(Txn) \cup Permutations(Replica)
=============================================================================
