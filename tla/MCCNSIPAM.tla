----------------------------- MODULE MCCNSIPAM -----------------------------
(***************************************************************************)
(* Instances of CNSIPAM for TLC: one NC with IPv4 addresses.               *)
(***************************************************************************)
EXTENDS CNSIPAM, TLC

CONSTANTS nc1, a1, a2

OneNC == [i \in IPs |-> nc1]
V4Only == [i \in IPs |-> "IPv4"]

\* Clients that ask for one address, or for none in particular.
OneDesired == {{i} : i \in IPs}

\* The pods, the handlers and the IPs are interchangeable.
Symmetry == Permutations(Pods) \cup Permutations(Threads) \cup Permutations(IPs)

=============================================================================
