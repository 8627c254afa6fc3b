----------------------------- MODULE MCLifecycle -----------------------------
(* Lifecycle on small hosts: one instance with the code's four rules, and  *)
(* two instances with two rules each.                                      *)
EXTENDS Lifecycle, TLC

CONSTANTS a, b

Foreground == {[queue |-> 0, daemon |-> FALSE, verbose |-> FALSE]}
DaemonToo == {[queue |-> 0, daemon |-> d, verbose |-> d] : d \in BOOLEAN}
OtherQueue == {[queue |-> 1, daemon |-> FALSE, verbose |-> FALSE]}

NoFaults == {}
FaultsButKilled == AllFaults \ {"killed"}

Symmetry == Permutations({a, b})
=============================================================================
