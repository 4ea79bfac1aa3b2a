---------------------------- MODULE MCNPMIPSets ----------------------------
(***************************************************************************)
(* An instance of NPMIPSets for TLC: a hash set that two lists may hold.   *)
(***************************************************************************)
EXTENDS NPMIPSets, TLC

CONSTANTS h1, l1, l2, ip1, pod1, pod2, pol1

OneHash == {h1}
TwoLists == {l1, l2}
OneIP == {ip1}
TwoPods == {pod1, pod2}
OnePolicy == {pol1}
Soft == {"soft"}

Symmetry == Permutations(ListSets) \cup Permutations(PodKeys)
=============================================================================
