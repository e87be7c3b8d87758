---------------------------- MODULE MCStatsWindow ----------------------------
(* Model-checking instances of StatsWindow.                                *)
EXTENDS StatsWindow, TLC

Symmetry == Permutations(Event)
=============================================================================
