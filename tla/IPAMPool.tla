----------------------------- MODULE IPAMPool -----------------------------
(***************************************************************************)
(* The first IPAM pool monitor of CNS (cns/ipampool/monitor.go).  It keeps *)
(* the number of free IPs of the node between two thresholds, one batch at *)
(* a time: it reads the table, decides, marks IPs to give back under a     *)
(* lock of their own, reads the list of marked IPs, and patches the NNC.   *)
(* Pods, DNC and the NNC reconciler run in between.                        *)
(***************************************************************************)
EXTENDS NodePool

CONSTANTS
    OptMaxIPs,   \* Options.MaxIPs
    Attempts     \* patches tried on a scale-down before the process panics

ASSUME MonitorConstants == OptMaxIPs \in Nat \ {0} /\ Attempts \in Nat \ {0}

VARIABLES
    pmSpec,    \* pm.spec, and whether the first NNC has been received
    meta,      \* pm.metastate
    pm         \* where the loop is: pc, the step's count, the spec, patches tried

pvars == <<poolVars, pmSpec, meta, pm>>

Waiting == [pc |-> "wait", n |-> 0, spec |-> Spec0, tries |-> 0]
IdlePM == [Waiting EXCEPT !.pc = "idle"]

-----------------------------------------------------------------------------
(* The scaler *)

clampScaler(s) ==
    LET max == IF s.max < 1 THEN OptMaxIPs ELSE s.max
        request == Least(Most(s.request, 1), 100)
    IN  [batch |-> Least(Most(s.batch, 1), max), max |-> max,
         request |-> request, release |-> Most(s.release, request + 100)]

\* CalculateMinFreeIPs, CalculateMaxFreeIPs: half of odd batches are rounded up.
Rounded(batch, percent) == (batch * percent + 50) \div 100

\* What reconcile uses: the metastate, overwritten when the subnet is exhausted.
Effective ==
    IF meta.exhausted
        THEN [meta EXCEPT !.batch = 1, !.minFree = 1, !.maxFree = 2]
        ELSE meta

-----------------------------------------------------------------------------
(* The loop of Start *)

At(pc) == pm.pc = pc
Goto(pc, n) == pm' = [pm EXCEPT !.pc = pc, !.n = n]

\* An NNC is received: its scaler is taken over, the spec only the first time.
\* reconcile follows.
ReceiveNNC ==
    LET s == clampScaler(nnc.scaler)
    IN  /\ At("wait") \/ At("idle")
        /\ meta' = [meta EXCEPT !.batch = s.batch, !.max = s.max,
                                !.minFree = Rounded(s.batch, s.request),
                                !.maxFree = Rounded(s.batch, s.release)]
        /\ pmSpec' = IF At("wait") THEN [requested |-> nnc.requested, listed |-> nnc.listed] ELSE pmSpec
        /\ Goto("reconcile", 0)
        /\ UNCHANGED poolVars

\* A ClusterSubnetState is received; reconcile follows once there is an NNC.
ReceiveCSS ==
    /\ At("wait") \/ At("idle")
    /\ meta.exhausted # exhausted
    /\ meta' = [meta EXCEPT !.exhausted = exhausted]
    /\ Goto(IF At("wait") THEN "wait" ELSE "reconcile", 0)
    /\ UNCHANGED <<poolVars, pmSpec>>

Tick ==
    /\ At("idle")
    /\ Goto("reconcile", 0)
    /\ UNCHANGED <<poolVars, pmSpec, meta>>

\* increasePoolSize asks for the next multiple of the batch, at most the max.
Increased(m) == Least(pmSpec.requested + m.batch - (pmSpec.requested % m.batch), m.max)

\* decreasePoolSize goes down to the next multiple of the batch.
DecreaseBy(m) ==
    IF pmSpec.requested % m.batch # 0 THEN pmSpec.requested % m.batch ELSE m.batch

\* reconcile: the table is read and the branch of the switch taken.
Decide ==
    LET m == Effective
    IN  \/ \* pod count is increasing
           /\ pmSpec.requested - pool.assigned < m.minFree
           /\ IF pmSpec.requested = m.max \/ Increased(m) = pmSpec.requested
                 THEN Goto("idle", 0) ELSE Goto("increase", Increased(m))
        \/ \* pod count is decreasing, or the CRD may be cleaned
           /\ pmSpec.requested - pool.assigned >= m.minFree
           /\ IF Free(pool) >= m.maxFree THEN Goto("mark", DecreaseBy(m))
              ELSE IF pmSpec.listed # pool.pend THEN Goto("clean", pmSpec.requested)
              ELSE Goto("idle", 0)

reconcile == At("reconcile") /\ Decide /\ UNCHANGED <<poolVars, pmSpec, meta>>

\* Mutant: as many IPs are taken as the batch says, free or not.
MarkIPAsPendingReleaseBlind ==
    /\ At("mark")
    /\ MarkPending(pm.n)
    /\ Goto("decrease", pmSpec.requested - pm.n)
    /\ UNCHANGED <<nnc, transit, wanted, exhausted, changes, faults, pmSpec, meta>>

\* MarkIPAsPendingRelease marks n IPs, or what there is; it counts after each
\* mark, so that with n < 1 it marks them all.  The request goes down by the
\* number marked.
MarkIPAsPendingRelease ==
    LET k == IF pm.n < 1 THEN Free(pool) ELSE Least(pm.n, Free(pool))
    IN  /\ At("mark")
        /\ MarkPending(k)
        /\ Goto("decrease", pmSpec.requested - k)
        /\ UNCHANGED <<nnc, transit, wanted, exhausted, changes, faults, pmSpec, meta>>

Patching == {"increase patch", "decrease patch", "clean patch"}
Then(pc) == CASE pc = "increase" -> "increase patch"
              [] pc = "decrease" -> "decrease patch"
              [] pc = "clean" -> "clean patch"

\* createNNCSpecForCRD
createNNCSpecForCRD ==
    /\ pm.pc \in {"increase", "decrease", "clean"}
    /\ pm' = [pm EXCEPT !.pc = Then(@), !.spec = NNCSpec(pm.n), !.tries = 0]
    /\ UNCHANGED <<poolVars, pmSpec, meta>>

\* The patch is applied and the spec is saved.
Patched ==
    /\ pm.pc \in Patching
    /\ PatchSpec(pm.spec)
    /\ pmSpec' = pm.spec
    /\ pm' = IdlePM
    /\ UNCHANGED <<pool, transit, wanted, exhausted, changes, faults, meta>>

\* Mutant: a scale-down gives up like the others and keeps its marks.
NotPatchedNoRetry ==
    /\ pm.pc \in Patching
    /\ PatchFails(pm.spec)
    /\ pm' = IdlePM
    /\ UNCHANGED <<pool, transit, wanted, exhausted, changes, pmSpec, meta>>

\* The process ends and a new one takes its place.
NewProcess(n) ==
    /\ Rebuild(n)
    /\ pm' = Waiting
    /\ meta' = [meta EXCEPT !.exhausted = FALSE]

\* The patch fails: a later round tries again.  A scale-down is tried Attempts
\* times; then the process panics.
NotPatched ==
    /\ pm.pc \in Patching
    /\ PatchFails(pm.spec)
    /\ \/ /\ ~At("decrease patch")
          /\ pm' = IdlePM
          /\ UNCHANGED <<pool, transit, meta>>
       \/ /\ At("decrease patch") /\ pm.tries + 1 < Attempts
          /\ pm' = [pm EXCEPT !.tries = @ + 1]
          /\ UNCHANGED <<pool, transit, meta>>
       \/ At("decrease patch") /\ pm.tries + 1 = Attempts /\ NewProcess(nnc')
    /\ UNCHANGED <<wanted, exhausted, changes, pmSpec>>

Crash ==
    /\ faults < MaxFaults /\ faults' = faults + 1
    /\ NewProcess(nnc)
    /\ UNCHANGED <<nnc, wanted, exhausted, changes, pmSpec>>

MonitorInit ==
    /\ PoolInit
    /\ pmSpec = Spec0
    /\ meta = [batch |-> 1, max |-> 1, minFree |-> 0, maxFree |-> 0, exhausted |-> FALSE]
    /\ pm = Waiting

Step == reconcile \/ MarkIPAsPendingRelease \/ createNNCSpecForCRD \/ Patched

MonitorNext ==
    \/ Step \/ NotPatched \/ Crash \/ Tick \/ ReceiveNNC \/ ReceiveCSS
    \/ (Environment \/ Progress) /\ UNCHANGED <<pmSpec, meta, pm>>

MonitorSpec == MonitorInit /\ [][MonitorNext]_pvars

\* The loop goes on, a ready channel of the select is taken in the end, and so
\* is every step of the other components.
MonitorFairSpec ==
    /\ MonitorSpec
    /\ WF_pvars(Step) /\ WF_pvars(Tick) /\ SF_pvars(ReceiveNNC) /\ SF_pvars(ReceiveCSS)
    /\ WF_pvars(AssignIP /\ UNCHANGED <<pmSpec, meta, pm>>)
    /\ WF_pvars(ReleaseIP /\ UNCHANGED <<pmSpec, meta, pm>>)
    /\ WF_pvars(DNC /\ UNCHANGED <<pmSpec, meta, pm>>)
    /\ WF_pvars(ReconcileNC /\ UNCHANGED <<pmSpec, meta, pm>>)
    /\ WF_pvars(Programmed /\ UNCHANGED <<pmSpec, meta, pm>>)

-----------------------------------------------------------------------------
(* Properties *)

PCs == {"wait", "idle", "reconcile", "mark", "increase", "decrease", "clean"} \cup Patching

\* The state is well typed: no count goes below zero, and a scale-down asks for
\* at least one IP to be marked (with less MarkIPAsPendingRelease marks all).
PoolTypeOK ==
    /\ pool \in Pool
    /\ nnc.requested \in Nat /\ nnc.listed \in Nat /\ nnc.taken \in 0 .. nnc.listed
    /\ transit.given \in Nat /\ transit.taken \in 0 .. pool.pend
    /\ pm.pc \in PCs /\ pm.n \in Nat /\ pm.tries \in 0 .. Attempts
    /\ At("mark") => pm.n >= 1

\* Once the pods, the scaler and the subnet are left alone, the monitor stops
\* changing the pool: every pod has its IP or the node is at its maximum, the
\* free IPs are between the thresholds, and nothing waits to be given back,
\* though pods took IPs while it decided and patches failed.
Settled ==
    LET m == Effective
    IN  /\ pool.assigned = wanted \/ (pool.assigned = Total(pool) /\ Total(pool) >= m.max)
        /\ Free(pool) >= m.minFree \/ Total(pool) >= m.max
        /\ Free(pool) < m.maxFree
        /\ pool.pend = 0 /\ nnc.taken = nnc.listed

PoolSettles == <>[]Settled

=============================================================================
