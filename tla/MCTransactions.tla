--------------------------- MODULE MCTransactions ---------------------------
(* Model-checking instances of Transactions.                               *)
EXTENDS Transactions, TLC

\* Placeholders chosen from these sets are never read, so permuting them
\* relates states with the same behaviours.
Symmetry == Permutations(Txn) \cup Permutations(Delivery)
              \cup Permutations(Gateway) \cup Permutations(Order)
=============================================================================
