------------------------------ MODULE MCWebApps ------------------------------
(* Model values of WebApps for TLC.  Connections, chains and addresses are    *)
(* interchangeable: no property is about fairness.                            *)
EXTENDS WebApps, TLC

Symmetry == Permutations(Conns) \cup Permutations(Chains) \cup Permutations(Addresses)
=============================================================================
