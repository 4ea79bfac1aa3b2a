----------------------------- MODULE NodePool -----------------------------
(***************************************************************************)
(* What the two IPAM pool monitors of CNS work on: the number of IPs in    *)
(* each state of CNS's table, the NodeNetworkConfig (NNC) in the API       *)
(* server, DNC behind it, and the pods that come and go.  Which IP is      *)
(* which does not matter to the monitors, so IPs are counted.              *)
(***************************************************************************)
EXTENDS Integers

CONSTANTS
    MaxPods,      \* bound: pods on the node
    Scalers,      \* the values nnc.Status.Scaler may take
    StartRequest, \* RequestedIPCount, and IPs on the node, at the start
    MaxChanges,   \* bound: changes of the pods, the scaler and exhaustion
    MaxFaults     \* bound: failed patches

ASSUME PoolConstants ==
    /\ MaxPods \in Nat /\ StartRequest \in Nat /\ MaxChanges \in Nat /\ MaxFaults \in Nat
    /\ Scalers \subseteq [batch : Int, max : Int, request : Int, release : Int]

VARIABLES
    pool,     \* IPs of PodIPConfigState, by state
    nnc,      \* NNC: RequestedIPCount, the length of IPsNotInUse, how many of
              \* the listed IPs DNC has taken back, the scaler
    transit,  \* IPs DNC has given or taken and CNS does not know about yet
    wanted,   \* pods on the node that need an IP
    exhausted,\* ClusterSubnetState.Status.Exhausted
    changes,
    faults

poolVars == <<pool, nnc, transit, wanted, exhausted, changes, faults>>

Pool == [prog : Nat, avail : Nat, assigned : Nat, pend : Nat]
Spec0 == [requested |-> 0, listed |-> 0]

\* IPs in the table; IPs that can still be given to a pod.
Total(p) == p.prog + p.avail + p.assigned + p.pend
Free(p) == p.prog + p.avail

\* IPs DNC has allocated to the node.
Allocated == Total(pool) + transit.given - transit.taken

Least(a, b) == IF a < b THEN a ELSE b
Most(a, b) == IF a > b THEN a ELSE b

PoolInit ==
    /\ pool = [prog |-> 0, avail |-> StartRequest, assigned |-> 0, pend |-> 0]
    /\ \E s \in Scalers : nnc = [requested |-> StartRequest, listed |-> 0, taken |-> 0, scaler |-> s]
    /\ transit = [given |-> 0, taken |-> 0]
    /\ wanted = 0
    /\ exhausted = FALSE
    /\ changes = 0 /\ faults = 0

-----------------------------------------------------------------------------
(* Pods, DNC and the NNC reconciler *)

Change == changes < MaxChanges /\ changes' = changes + 1

Schedule ==
    /\ Change
    /\ wanted' \in 0 .. MaxPods /\ wanted' # wanted
    /\ UNCHANGED <<pool, nnc, transit, exhausted, faults>>

SetScaler ==
    /\ Change
    /\ \E s \in Scalers \ {nnc.scaler} : nnc' = [nnc EXCEPT !.scaler = s]
    /\ UNCHANGED <<pool, transit, wanted, exhausted, faults>>

SetExhausted ==
    /\ Change
    /\ exhausted' = ~exhausted
    /\ UNCHANGED <<pool, nnc, transit, wanted, faults>>

\* A pod without an IP is given one; an IP whose pod is gone is freed.
AssignIP ==
    /\ pool.assigned < wanted /\ pool.avail > 0
    /\ pool' = [pool EXCEPT !.avail = @ - 1, !.assigned = @ + 1]
    /\ UNCHANGED <<nnc, transit, wanted, exhausted, changes, faults>>

ReleaseIP ==
    /\ pool.assigned > wanted
    /\ pool' = [pool EXCEPT !.avail = @ + 1, !.assigned = @ - 1]
    /\ UNCHANGED <<nnc, transit, wanted, exhausted, changes, faults>>

\* DNC takes back the listed IPs and then allocates up to RequestedIPCount.
DNC ==
    LET back == nnc.listed - nnc.taken
        new == Most(0, nnc.requested - (Allocated - back))
    IN  /\ back > 0 \/ new > 0
        /\ nnc' = [nnc EXCEPT !.taken = nnc.listed]
        /\ transit' = [given |-> transit.given + new, taken |-> transit.taken + back]
        /\ UNCHANGED <<pool, wanted, exhausted, changes, faults>>

\* The NNC reconciler updates the NC: new IPs enter the table and the ones
\* that left it, all PendingRelease, are deleted.
ReconcileNC ==
    /\ transit.given > 0 \/ transit.taken > 0
    /\ pool' = [pool EXCEPT !.prog = @ + transit.given, !.pend = @ - transit.taken]
    /\ transit' = [given |-> 0, taken |-> 0]
    /\ UNCHANGED <<nnc, wanted, exhausted, changes, faults>>

\* SyncHostNCVersion
Programmed ==
    /\ pool.prog > 0
    /\ pool' = [pool EXCEPT !.avail = @ + pool.prog, !.prog = 0]
    /\ UNCHANGED <<nnc, transit, wanted, exhausted, changes, faults>>

Environment == Schedule \/ SetScaler \/ SetExhausted
Progress == AssignIP \/ ReleaseIP \/ DNC \/ ReconcileNC \/ Programmed

-----------------------------------------------------------------------------
(* What the monitors do to the pool and to the NNC *)

\* k IPs are marked PendingRelease, PendingProgramming ones first.
MarkPending(k) ==
    pool' = [pool EXCEPT !.prog = @ - Least(k, @),
                         !.avail = @ - (k - Least(k, pool.prog)),
                         !.pend = @ + k]

\* The spec a monitor publishes: the request and GetPendingReleaseIPConfigs.
NNCSpec(requested) == [requested |-> requested, listed |-> pool.pend]

\* PatchSpec.  IPs that left the node since the spec was built are still in it.
PatchSpec(spec) ==
    nnc' = [nnc EXCEPT !.requested = spec.requested, !.listed = spec.listed,
                       !.taken = spec.listed - (pool.pend - transit.taken)]

\* A patch that returns an error may or may not have been applied.
PatchFails(spec) ==
    /\ faults < MaxFaults /\ faults' = faults + 1
    /\ PatchSpec(spec) \/ UNCHANGED nnc

\* A new CNS process rebuilds the table from the NNC, as n, and from the pods;
\* what was marked and not listed is usable again.
Rebuild(n) ==
    /\ pool' = [prog |-> Allocated - pool.assigned - (n.listed - n.taken), avail |-> 0,
                assigned |-> pool.assigned, pend |-> n.listed - n.taken]
    /\ transit' = [given |-> 0, taken |-> 0]

=============================================================================
