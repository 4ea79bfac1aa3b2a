----------------------------- MODULE MCCNSNode -----------------------------
(***************************************************************************)
(* Instances of CNSNode for TLC.                                           *)
(***************************************************************************)
EXTENDS CNSNode, TLC

CONSTANTS nc1, a1, a2

OneNC == [i \in IPs |-> nc1]
V4Only == [i \in IPs |-> "IPv4"]
NoneDesired == {}

Symmetry == Permutations(Pods) \cup Permutations(Threads) \cup Permutations(IPs)

=============================================================================
