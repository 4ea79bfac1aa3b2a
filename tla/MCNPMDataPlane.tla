--------------------------- MODULE MCNPMDataPlane ---------------------------
(***************************************************************************)
(* An instance of NPMDataPlane for TLC.  A policy has a set of its own     *)
(* with one CIDR block; two policies share a set of pods besides.          *)
(***************************************************************************)
EXTENDS NPMDataPlane, TLC

CONSTANTS own1, own2, shared, cidr1, cidr2, pol1, pol2

ThreeSets == {own1, own2, shared}
NoLists == {}
TwoBlocks == {cidr1, cidr2}
NoPods == {""}
TwoPolicies == {pol1, pol2}
Soft == {"soft"}
OwnSet == (pol1 :> own1) @@ (pol2 :> own2)
OwnBlock == (own1 :> {cidr1}) @@ (own2 :> {cidr2}) @@ (shared :> {})
PolicySets == [p \in Policies |-> {OwnSet[p], shared}]
SetBlocks == [s \in HashSets |-> OwnBlock[s]]
WithAndWithoutPods == {{"netpol"}, {"netpol", "pods"}}
=============================================================================
