------------------------------ MODULE CNSNode ------------------------------
(***************************************************************************)
(* CNS on its node: CNSIPAM together with the components it shares the     *)
(* node's IPs with.  The NodeNetworkConfig (NNC) in the API server is the  *)
(* only channel to DNC, which allocates IPs to the node and takes back the *)
(* ones CNS lists in spec.IPsNotInUse; NMAgent programs NC versions on the *)
(* host; the NNC reconciler applies its cached copy of the NNC to CNS; the *)
(* pool monitor marks IPs PendingRelease and publishes the list.  DNC and  *)
(* NMAgent are not part of the repository: they are modelled by what CNS   *)
(* relies on.                                                              *)
(***************************************************************************)
EXTENDS CNSIPAM

CONSTANT MaxRestarts     \* bound: how often the CNS process stops

ASSUME MaxRestartsAssumption == MaxRestarts \in Nat

VARIABLES
    nnc,        \* NNC in the API server: status (version, ips) and spec.IPsNotInUse
    addedAt,    \* addedAt[ip]: the NC version that introduced an allocated ip
    view,       \* the reconciler's copy of the NNC
    nma,        \* nma[nc]: the version NMAgent has programmed
    patch,      \* IPsNotInUse the pool monitor is about to publish, as <<set>>
    restarts    \* process stops so far

nodeVars == <<nnc, addedAt, view, nma, patch, restarts>>
allVars == <<vars, nodeVars>>

NNC == [version : [NCs -> Versions], ips : SUBSET IPs, notInUse : SUBSET IPs]

\* The state is well typed.
NodeTypeOK ==
    /\ TypeOK
    /\ nnc \in NNC
    /\ view \in NNC
    /\ addedAt \in [IPs -> Versions \cup {NoVersion}]
    /\ nma \in [NCs -> Versions \cup {NoVersion}]
    /\ patch \in {<<>>} \cup {<<S>> : S \in SUBSET IPs}
    /\ restarts \in 0 .. MaxRestarts

\* The node starts with every NC created by DNC and some IPs allocated.
NodeInit ==
    /\ Init
    /\ \E S \in SUBSET IPs :
          /\ EmptyNCs \/ \A nc \in NCs : S \cap IPsOf(nc) # {}
          /\ nnc = [version |-> [nc \in NCs |-> 0], ips |-> S, notInUse |-> {}]
          /\ addedAt = [i \in IPs |-> IF i \in S THEN 0 ELSE NoVersion]
    /\ view = nnc
    /\ nma = [nc \in NCs |-> NoVersion]
    /\ patch = <<>>
    /\ restarts = 0

-----------------------------------------------------------------------------
(* The environment *)

\* DNC publishes a new version of one NC.
Publish(nc, ips) ==
    /\ EmptyNCs \/ ips \cap IPsOf(nc) # {}
    /\ nnc.version[nc] < MaxVersion
    /\ nnc' = [nnc EXCEPT !.version = [nnc.version EXCEPT ![nc] = @ + 1], !.ips = ips]

\* It allocates IPs that CNS does not list as unused.
DNCAllocate(nc) ==
    /\ \E S \in (SUBSET (IPsOf(nc) \ (nnc.ips \cup nnc.notInUse))) \ {{}} :
          /\ Publish(nc, nnc.ips \cup S)
          /\ addedAt' = [i \in IPs |-> IF i \in S THEN nnc'.version[nc] ELSE addedAt[i]]
    /\ UNCHANGED <<vars, view, nma, patch, restarts>>

\* It takes back only IPs that CNS lists as unused.
DNCReclaim(nc) ==
    /\ \E S \in (SUBSET (IPsOf(nc) \cap nnc.ips \cap nnc.notInUse)) \ {{}} :
          /\ Publish(nc, nnc.ips \ S)
          /\ addedAt' = [i \in IPs |-> IF i \in S THEN NoVersion ELSE addedAt[i]]
    /\ UNCHANGED <<vars, view, nma, patch, restarts>>

NMAProgram(nc) ==
    /\ nma[nc] < nnc.version[nc]
    /\ nma' = [nma EXCEPT ![nc] = @ + 1]
    /\ UNCHANGED <<vars, nnc, addedAt, view, patch, restarts>>

-----------------------------------------------------------------------------
(* The reconciler and the pool monitor *)

\* The informer delivers the NNC.  A first reconcile under way keeps the copy
\* it started with.
Deliver ==
    /\ init.phase \in {"boot", "serving"}
    /\ view # nnc
    /\ view' = nnc
    /\ UNCHANGED <<vars, nnc, addedAt, nma, patch, restarts>>

\* Reconcile: the NC of the cached NNC becomes a goal state of CNS.
Reconcile(nc) ==
    /\ CreateOrUpdateNetworkContainer(nc, view.ips \cap IPsOf(nc), view.version[nc])
    /\ UNCHANGED nodeVars

\* The first reconcile goes on to the pods once every NC is created.
ReconcileInitialState ==
    /\ cs.ncs = NCs
    /\ ReconcileIPAssignment
    /\ UNCHANGED nodeVars

\* createNNCSpecForCRD and PatchSpec: CNS is read, then the API server written.
ReadPendingRelease ==
    /\ Serving
    /\ patch = <<>>
    /\ patch' = <<InState({"PendingRelease"})>>
    /\ UNCHANGED <<vars, nnc, addedAt, view, nma, restarts>>

PatchSpec ==
    /\ patch # <<>>
    /\ nnc' = [nnc EXCEPT !.notInUse = patch[1]]
    /\ patch' = <<>>
    /\ UNCHANGED <<vars, addedAt, view, nma, restarts>>

\* The process stops; the new one lists the NNC afresh.
NodeRestart ==
    /\ restarts < MaxRestarts
    /\ Restart
    /\ restarts' = restarts + 1
    /\ view' = nnc
    /\ patch' = <<>>
    /\ UNCHANGED <<nnc, addedAt, nma>>

-----------------------------------------------------------------------------
Environment ==
    \/ \E nc \in NCs : DNCAllocate(nc) \/ DNCReclaim(nc) \/ NMAProgram(nc)
    \/ Deliver

Pool ==
    \/ \E n \in 1 .. Cardinality(IPs) : MarkIPAsPendingRelease(n) /\ UNCHANGED nodeVars
    \/ ReadPendingRelease
    \/ PatchSpec

Initialise ==
    \/ PodInfoByIP /\ UNCHANGED nodeVars
    \/ \E nc \in NCs : Reconcile(nc)
    \/ ReconcileInitialState
    \/ \E p \in Pods : ReconcilePod(p) /\ UNCHANGED nodeVars
    \/ MarkExistingIPsAsPendingRelease(view.notInUse) /\ UNCHANGED nodeVars

NodeNext ==
    \/ (Request \/ Release \/ EndpointAPI) /\ UNCHANGED nodeVars
    \/ Environment
    \/ Pool
    \/ Initialise
    \/ SyncHostNCVersion(nma) /\ UNCHANGED nodeVars
    \/ NodeRestart

\* Each reconcile is retried until it succeeds: controller-runtime requeues it.
NodeSpec == NodeInit /\ [][NodeNext]_allVars /\ WF_allVars(Initialise /\ ~Serving)

-----------------------------------------------------------------------------
(* Properties *)

\* While CNS serves, every IP returned to a live pod is Assigned to that pod,
\* also after any number of restarts, each of which rebuilds the table from the
\* endpoint file and the NNC (ReconcileIPAMStateForSwift).
GrantedKept == Serving => \A p \in Pods : granted[p] \subseteq podIPs[p]

\* DNC is never told that an IP in use may be taken back, and so never takes
\* one: neither the published nor the next list has an Assigned IP.
NotInUseHonest ==
    /\ Serving => InState({"Assigned"}) \cap nnc.notInUse = {}
    /\ \A p \in Pods : granted[p] \subseteq nnc.ips

\* While CNS serves, an IP that a pod has or may get is allocated to the node
\* and programmed on the host: NMAgent has reached the NC version that
\* introduced it (addIPConfigStateUntransacted, MarkIpsAsAvailableUntransacted).
UsableIsProgrammed ==
    Serving => \A i \in InState({"Available", "Assigned"}) :
        addedAt[i] # NoVersion /\ addedAt[i] <= nma[NCOf[i]]

\* The endpoint file can be read back by a new process at any time: no IP is
\* recorded for two pods and no pod has two IPs of one family
\* (endpointStateToPodInfoByIP, newPodKeyToPodIPsMap).
EndpointFileReadable ==
    NoDuplicateIP(endpointStore) /\ \A p \in Pods : OneIPPerFamily(endpointStore[p])

\* A new process eventually serves: its first reconcile never meets a state it
\* must refuse for ever (reconcileInitialCNSState).
EventuallyServing == [](~Serving ~> Serving)

\* CNS on its node implements the abstract specification of IP leases: a pod
\* that asks again gets the same IPs, also after a restart, no IP is granted
\* twice, and none that is held leaves the node, whatever handlers, updates,
\* releases to DNC and restarts interleave.
Lease == INSTANCE IPLease WITH node <- nnc.ips, held <- granted
LeaseKept == Lease!LeaseSpec

=============================================================================
