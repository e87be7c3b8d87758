------------------------------ MODULE MCRouting ------------------------------
(* Model-checking instances of Routing.                                    *)
EXTENDS Routing, TLC

\* Placeholders chosen from these sets are never read, so permuting them
\* relates states with the same behaviours.
Symmetry == Permutations(Txn) \cup Permutations(Replica)

\* The operator disables one of the gateways.
DisableOne == <<Gateway, {CHOOSE g \in Gateway : TRUE}>>
=============================================================================
