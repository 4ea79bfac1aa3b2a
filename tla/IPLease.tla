------------------------------ MODULE IPLease ------------------------------
(***************************************************************************)
(* What a node promises its pods about IPs, without saying how: a pod is   *)
(* granted IPs that are the node's and no other pod's, keeps exactly these *)
(* until it is torn down, and the node gives up only IPs nobody holds.     *)
(* Handlers, tables, files, versions, restarts and recovery are not        *)
(* visible here: CNSNode, with all of them, implements this specification  *)
(* (CNSNode!LeaseKept).                                                    *)
(***************************************************************************)
EXTENDS Integers

CONSTANTS IPs, Pods

VARIABLES
    node,      \* the IPs allocated to the node
    held       \* held[p]: the IPs granted to pod p

leaseVars == <<node, held>>

LeaseInit == node \in SUBSET IPs /\ held = [p \in Pods |-> {}]

\* A pod is granted IPs; asked again before it is torn down, the node answers
\* with the same ones.
Grant(p, S) ==
    /\ S # {} /\ S \subseteq node
    /\ held[p] \in {{}, S}
    /\ \A q \in Pods \ {p} : held[q] \cap S = {}
    /\ held' = [held EXCEPT ![p] = S]
    /\ UNCHANGED node

TearDown(p) ==
    /\ held' = [held EXCEPT ![p] = {}]
    /\ UNCHANGED node

Allocate(S) == node' = node \cup S /\ UNCHANGED held

Reclaim(S) ==
    /\ \A p \in Pods : held[p] \cap S = {}
    /\ node' = node \ S
    /\ UNCHANGED held

LeaseNext ==
    \/ \E p \in Pods, S \in SUBSET IPs : Grant(p, S)
    \/ \E p \in Pods : TearDown(p)
    \/ \E S \in SUBSET IPs : Allocate(S) \/ Reclaim(S)

LeaseSpec == LeaseInit /\ [][LeaseNext]_leaseVars

=============================================================================
