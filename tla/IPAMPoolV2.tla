---------------------------- MODULE IPAMPoolV2 ----------------------------
(***************************************************************************)
(* The second IPAM pool monitor of CNS (cns/ipampool/v2/monitor.go).  It   *)
(* computes the request from the number of pods in one step.  Before a     *)
(* smaller request is published that many IPs are marked to be given back, *)
(* all or none, under a lock of their own.                                 *)
(***************************************************************************)
EXTENDS NodePool

CONSTANT DefaultMaxIPs

ASSUME V2Constants == DefaultMaxIPs \in Nat \ {0}

VARIABLES
    scaler,    \* pm.scaler
    demand,    \* pm.demand
    request,   \* pm.request
    pm         \* where the loop is: pc, the target, the spec to publish

v2vars == <<poolVars, scaler, demand, request, pm>>

Waiting == [pc |-> "wait", target |-> 0, spec |-> Spec0]
IdlePM == [Waiting EXCEPT !.pc = "idle"]

At(pc) == pm.pc = pc
Goto(pc) == pm' = [pm EXCEPT !.pc = pc]

-----------------------------------------------------------------------------
(* The scaling function *)

CeilDiv(a, b) == (a + b - 1) \div b

\* Mutant: the quotient is rounded down.
calculateTargetIPCountFloor(d, batch, percent) ==
    batch * ((percent * batch + 100 * d) \div (100 * batch))

\* batch * ceil(buffer + demand / batch), buffer being a percentage.
calculateTargetIPCount(d, batch, percent) ==
    batch * CeilDiv(percent * batch + 100 * d, 100 * batch)

calculateTargetIPCountOrMax(d, batch, max, percent) ==
    Least(calculateTargetIPCount(d, batch, percent), max)

\* reconcile: an exhausted subnet overwrites the batch and the buffer.
Target(d) ==
    IF scaler.exhausted THEN calculateTargetIPCountOrMax(d, 1, scaler.max, 100)
    ELSE calculateTargetIPCountOrMax(d, scaler.batch, scaler.max, scaler.percent)

-----------------------------------------------------------------------------
(* The loop of Start *)

\* What is received goes into the state; reconcile follows, if there was an NNC.
Received == Goto(IF At("wait") THEN "wait" ELSE "reconcile")

ReceiveDemand ==
    /\ At("wait") \/ At("idle")
    /\ demand # wanted
    /\ demand' = wanted
    /\ Received
    /\ UNCHANGED <<poolVars, scaler, request>>

ReceiveCSS ==
    /\ At("wait") \/ At("idle")
    /\ scaler.exhausted # exhausted
    /\ scaler' = [scaler EXCEPT !.exhausted = exhausted]
    /\ Received
    /\ UNCHANGED <<poolVars, demand, request>>

\* The request is taken from the first NNC only.
ReceiveNNC ==
    LET max == Least(nnc.scaler.max, DefaultMaxIPs)
    IN  /\ At("wait") \/ At("idle")
        /\ scaler' = [scaler EXCEPT !.max = max, !.batch = Least(Most(nnc.scaler.batch, 1), max),
                        !.percent = IF nnc.scaler.request < 0 THEN -nnc.scaler.request ELSE nnc.scaler.request]
        /\ request' = IF At("wait") THEN nnc.requested ELSE request
        /\ Goto("reconcile")
        /\ UNCHANGED <<poolVars, demand>>

Tick ==
    /\ At("idle")
    /\ Goto("reconcile")
    /\ UNCHANGED <<poolVars, scaler, demand, request>>

\* reconcile computes the target; nothing happens if it is the request.
reconcile ==
    /\ At("reconcile")
    /\ pm' = IF Target(demand) = request THEN IdlePM
             ELSE [pm EXCEPT !.pc = "mark", !.target = Target(demand)]
    /\ UNCHANGED <<poolVars, scaler, demand, request>>

\* Mutant: fewer IPs than wanted are marked and the request goes down all the same.
MarkNIPsPendingReleasePartly ==
    LET n == Most(0, request - pm.target)
    IN  /\ At("mark")
        /\ MarkPending(Least(n, Free(pool)))
        /\ Goto("build")
        /\ UNCHANGED <<nnc, transit, wanted, exhausted, changes, faults, scaler, demand, request>>

\* Mutant: it is not checked that there are enough.
MarkNIPsPendingReleaseBlind ==
    /\ At("mark")
    /\ MarkPending(Most(0, request - pm.target))
    /\ Goto("build")
    /\ UNCHANGED <<nnc, transit, wanted, exhausted, changes, faults, scaler, demand, request>>

\* MarkNIPsPendingRelease marks all it is asked for, or nothing and the round
\* ends with an error.
MarkNIPsPendingRelease ==
    LET n == Most(0, request - pm.target)
    IN  /\ At("mark")
        /\ IF n <= Free(pool) THEN MarkPending(n) /\ Goto("build")
                              ELSE UNCHANGED pool /\ pm' = IdlePM
        /\ UNCHANGED <<nnc, transit, wanted, exhausted, changes, faults, scaler, demand, request>>

buildNNCSpec ==
    /\ At("build")
    /\ pm' = [pm EXCEPT !.pc = "patch", !.spec = NNCSpec(pm.target)]
    /\ UNCHANGED <<poolVars, scaler, demand, request>>

Patched ==
    /\ At("patch")
    /\ PatchSpec(pm.spec)
    /\ request' = pm.target
    /\ pm' = IdlePM
    /\ UNCHANGED <<pool, transit, wanted, exhausted, changes, faults, scaler, demand>>

\* Mutant: the marks are taken off again, though the patch may have been applied.
NotPatchedReverts ==
    /\ At("patch")
    /\ PatchFails(pm.spec)
    /\ pool' = [pool EXCEPT !.avail = @ + pool.pend - transit.taken, !.pend = transit.taken]
    /\ pm' = IdlePM
    /\ UNCHANGED <<transit, wanted, exhausted, changes, scaler, demand, request>>

\* The patch fails: the marks and the old request stay.
NotPatched ==
    /\ At("patch")
    /\ PatchFails(pm.spec)
    /\ pm' = IdlePM
    /\ UNCHANGED <<pool, transit, wanted, exhausted, changes, scaler, demand, request>>

\* The process ends and a new one takes its place.
Crash ==
    /\ changes < MaxChanges /\ changes' = changes + 1
    /\ Rebuild(nnc)
    /\ pm' = Waiting
    /\ demand' = 0
    /\ scaler' = [scaler EXCEPT !.exhausted = FALSE]
    /\ UNCHANGED <<nnc, wanted, exhausted, faults, request>>

V2Init ==
    /\ PoolInit
    /\ scaler = [batch |-> 1, max |-> 1, percent |-> 0, exhausted |-> FALSE]
    /\ demand = 0 /\ request = 0
    /\ pm = Waiting

Step == reconcile \/ MarkNIPsPendingRelease \/ buildNNCSpec \/ Patched

Others == UNCHANGED <<scaler, demand, request, pm>>

V2Next ==
    \/ Step \/ NotPatched \/ Crash \/ Tick \/ ReceiveNNC \/ ReceiveCSS \/ ReceiveDemand
    \/ (Environment \/ Progress) /\ Others

V2Spec == V2Init /\ [][V2Next]_v2vars

\* The loop goes on, a ready channel of the select is taken in the end, and so
\* is every step of the other components.
V2FairSpec ==
    /\ V2Spec
    /\ WF_v2vars(Step) /\ WF_v2vars(Tick)
    /\ SF_v2vars(ReceiveNNC) /\ SF_v2vars(ReceiveCSS) /\ SF_v2vars(ReceiveDemand)
    /\ WF_v2vars(AssignIP /\ Others) /\ WF_v2vars(ReleaseIP /\ Others)
    /\ WF_v2vars(DNC /\ Others) /\ WF_v2vars(ReconcileNC /\ Others) /\ WF_v2vars(Programmed /\ Others)

-----------------------------------------------------------------------------
(* Properties *)

\* The state is well typed: no count goes below zero.
V2TypeOK ==
    /\ pool \in Pool
    /\ nnc.requested \in Nat /\ nnc.listed \in Nat /\ nnc.taken \in 0 .. nnc.listed
    /\ transit.given \in Nat /\ transit.taken \in 0 .. pool.pend
    /\ demand \in 0 .. MaxPods /\ request \in Nat
    /\ pm.pc \in {"wait", "idle", "reconcile", "mark", "build", "patch"}

\* The reference of the scaling function (monitor.go: reconcile): the least
\* multiple of the batch that leaves the buffer free once every pod has an IP,
\* and the maximum only where no smaller multiple does; an exhausted subnet has
\* single IPs for a batch and a buffer of one.
TargetIsLeast ==
    \A d \in 0 .. MaxPods :
        LET batch == IF scaler.exhausted THEN 1 ELSE scaler.batch
            buffer == IF scaler.exhausted THEN 100 ELSE scaler.percent * scaler.batch
            enough(n) == 100 * (n - d) >= buffer
            t == Target(d)
        IN  /\ t <= scaler.max
            /\ t = scaler.max \/ (t % batch = 0 /\ enough(t))
            /\ \A n \in 0 .. t - 1 : n % batch = 0 => ~enough(n)

\* DNC is asked only for IPs that CNS will not give to a pod any more, also
\* after patches that failed, were applied all the same, or were cut short by
\* a restart: every listed IP that DNC still has to take is PendingRelease.
ListedArePending == nnc.listed - nnc.taken <= pool.pend - transit.taken

\* Once pods, scaler and subnet are left alone, and if no patch ever failed: the
\* node has the IPs that are requested, they are given to the pods as far as they
\* go, nothing waits to be given back, and the request is the target ("to prevent
\* drift or lockups", Start).  The one exception is a maximum that was lowered
\* below the IPs pods hold: MarkNIPsPendingRelease cannot mark what lies between,
\* every round ends with its error, and the request stays above the target.
PoolReachesTarget ==
    [](faults = 0) =>
        <>[](/\ pool.pend = 0 /\ Total(pool) = nnc.requested
             /\ pool.assigned = Least(wanted, Total(pool))
             /\ \/ nnc.requested = Target(wanted)
                \/ nnc.requested > Target(wanted) /\ pool.assigned > Target(wanted))

=============================================================================
