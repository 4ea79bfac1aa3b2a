------------------------------ MODULE CNSIPAM ------------------------------
(***************************************************************************)
(* The IP address management core of the Azure Container Networking        *)
(* Service (cns/restserver): the table of pod IPs a node owns              *)
(* (PodIPConfigState), the index from a pod to its IPs                     *)
(* (PodIPIDByPodInterfaceKey), the network containers (NCs) the IPs come   *)
(* from (ContainerStatus), the endpoint records CNS keeps so that it can   *)
(* rebuild the table after a restart (EndpointState), and the files the    *)
(* last two are saved in.                                                  *)
(*                                                                         *)
(* One action is one critical section of the service lock: an HTTP handler *)
(* that takes the lock several times is several actions of one thread, and *)
(* anything may run between them.  CNS runs in CRD mode and manages the    *)
(* endpoint state (OptManageEndpointState), so a pod is keyed by the ID of *)
(* its infra container.                                                    *)
(***************************************************************************)
EXTENDS Integers, FiniteSets

CONSTANTS
    IPs,              \* secondary IP IDs; an ID stands for one address
    NCs,              \* network container IDs
    Pods,             \* infra container IDs, the key of a pod
    Threads,          \* HTTP handler goroutines
    NCOf,             \* NCOf[ip]: the only NC that ever lists ip
    Family,           \* Family[ip]: "IPv4" or "IPv6"
    NoPod,            \* a nil PodInfo
    DesiredSets,      \* the sets of addresses a client may ask for by name
    MaxVersion,       \* bound: NC versions are 0..MaxVersion
    SerialPerPod,     \* the runtime never overlaps two CNI calls of one pod
    WritesMayFail,    \* a write of a state file may return an error
    HostIfaceMayFail, \* the query for the host's primary interface may fail
    EmptyNCs          \* an NC may be published without secondary IPs

ASSUME ConstantsAssumption ==
    /\ NCOf \in [IPs -> NCs]
    /\ Family \in [IPs -> {"IPv4", "IPv6"}]
    /\ NoPod \notin Pods
    /\ DesiredSets \subseteq (SUBSET IPs) \ {{}}
    /\ MaxVersion \in Nat
    /\ SerialPerPod \in BOOLEAN
    /\ WritesMayFail \in BOOLEAN
    /\ HostIfaceMayFail \in BOOLEAN
    /\ EmptyNCs \in BOOLEAN

Versions == 0 .. MaxVersion
NoVersion == -1          \* no version reported yet, or no such IP in the NC
IPStates == {"None", "PendingProgramming", "Available", "Assigned", "PendingRelease"}

VARIABLES
    ipState,        \* PodIPConfigState[ip].state, "None" when ip has no entry
    podInfo,        \* PodIPConfigState[ip].PodInfo
    podIPs,         \* PodIPIDByPodInterfaceKey[pod], as a set
    cs,             \* state.ContainerStatus
    csStore,        \* azure-cns.json
    endpoint,       \* EndpointState[pod]: the IPs recorded, {} when no entry
    endpointStore,  \* azure-endpoints.json
    thr,            \* what each handler goroutine is doing
    init,           \* progress of the first reconcile after process start
    granted         \* IPs of the last success returned to a pod not yet torn down

ipamVars == <<ipState, podInfo, podIPs>>
vars == <<ipState, podInfo, podIPs, cs, csStore, endpoint, endpointStore, thr, init, granted>>

-----------------------------------------------------------------------------
(* Types *)

ContainerStatus ==
    [ncs : SUBSET NCs,
     version : [NCs -> Versions],
     host : [NCs -> Versions \cup {NoVersion}],
     sec : [IPs -> Versions \cup {NoVersion}]]

Thread ==
    [pc : {"idle", "read", "ncs", "count", "assign", "endpoint", "release"},
     pod : Pods \cup {NoPod},
     ips : SUBSET IPs,
     fams : SUBSET {"IPv4", "IPv6"},
     n : Nat]                   \* IPs to find; then the ones a result lacks

Idle == [pc |-> "idle", pod |-> NoPod, ips |-> {}, fams |-> {}, n |-> 0]

\* The first reconcile of the process: the NCs it has created and the pods it
\* has yet to assign.
FirstReconcile ==
    [phase : {"boot", "create", "assign", "serving"}, created : SUBSET NCs, todo : SUBSET Pods]

Boot == [phase |-> "boot", created |-> {}, todo |-> {}]

\* The state is well typed.
TypeOK ==
    /\ ipState \in [IPs -> IPStates]
    /\ podInfo \in [IPs -> Pods \cup {NoPod}]
    /\ podIPs \in [Pods -> SUBSET IPs]
    /\ cs \in ContainerStatus
    /\ csStore \in ContainerStatus
    /\ endpoint \in [Pods -> SUBSET IPs]
    /\ endpointStore \in [Pods -> SUBSET IPs]
    /\ thr \in [Threads -> Thread]
    /\ init \in FirstReconcile
    /\ granted \in [Pods -> SUBSET IPs]

NoNCs ==
    [ncs |-> {},
     version |-> [nc \in NCs |-> 0],
     host |-> [nc \in NCs |-> NoVersion],
     sec |-> [i \in IPs |-> NoVersion]]

Init ==
    /\ ipState = [i \in IPs |-> "None"]
    /\ podInfo = [i \in IPs |-> NoPod]
    /\ podIPs = [p \in Pods |-> {}]
    /\ cs = NoNCs
    /\ csStore = NoNCs
    /\ endpoint = [p \in Pods |-> {}]
    /\ endpointStore = [p \in Pods |-> {}]
    /\ thr = [t \in Threads |-> Idle]
    /\ init = Boot
    /\ granted = [p \in Pods |-> {}]

-----------------------------------------------------------------------------
(* Reading the tables *)

InState(S) == {i \in IPs : ipState[i] \in S}
Existing == InState(IPStates \ {"None"})
Serving == init.phase = "serving"

\* SecondaryIPConfigs of all NCs in ContainerStatus.
SecondaryIPs == {i \in IPs : cs.sec[i] # NoVersion}

\* getIPFamiliesMap
IPFamilies == {Family[i] : i \in SecondaryIPs}

\* The (NC, family) slot an IP fills in a pod: generateAssignedIPKey.
AssignedIPKey(i) == <<NCOf[i], Family[i]>>

\* populateIPConfigInfoUntransacted succeeds for every IP of S: the IP's NC is
\* known and the host's primary interface could be obtained.
Populates(S, iface) == \A i \in S : iface /\ NCOf[i] \in cs.ncs

\* The IPs the index gives for pod p exist and can be described.
DescribesExisting(p, iface) == podIPs[p] \subseteq Existing /\ Populates(podIPs[p], iface)

\* The outcomes of a call that may fail when mayFail says so.
Outcomes(mayFail) == IF mayFail THEN BOOLEAN ELSE {TRUE}
HostIface == Outcomes(HostIfaceMayFail)
StoreWrite == Outcomes(WritesMayFail)

-----------------------------------------------------------------------------
(* Changing the tables *)

updateIPConfigState(S, state, pod) ==
    /\ ipState' = [i \in IPs |-> IF i \in S THEN state ELSE ipState[i]]
    /\ podInfo' = [i \in IPs |-> IF i \in S THEN pod ELSE podInfo[i]]

\* Mutant: the pod's index entry is not extended.
assignIPConfigUnindexed(S, p) ==
    updateIPConfigState(S, "Assigned", p) /\ UNCHANGED podIPs

assignIPConfig(S, p) ==
    /\ updateIPConfigState(S, "Assigned", p)
    /\ podIPs' = [podIPs EXCEPT ![p] = @ \cup S]

\* Mutant: the freed IPs stay in the pod's index entry.
unassignIPConfigKeepsIndex(S, p) ==
    updateIPConfigState(S, "Available", NoPod) /\ UNCHANGED podIPs

\* Every IP of S becomes Available and the pod's whole index entry is deleted.
unassignIPConfig(S, p) ==
    /\ updateIPConfigState(S, "Available", NoPod)
    /\ podIPs' = [podIPs EXCEPT ![p] = {}]

Step(t, pc, ips, fams, n) ==
    thr' = [thr EXCEPT ![t] =
              [pc |-> pc, pod |-> thr[t].pod, ips |-> ips, fams |-> fams, n |-> n]]
Finish(t) == thr' = [thr EXCEPT ![t] = Idle]

At(t, pc) == Serving /\ thr[t].pc = pc

\* A handler for pod p may start: with SerialPerPod no other one is running.
MayStart(t, p) ==
    /\ At(t, "idle")
    /\ SerialPerPod => \A u \in Threads : thr[u].pod # p

-----------------------------------------------------------------------------
(* A request for IPs: requestIPConfigHandlerHelper *)

\* Mutant: the pod's index entry is not looked at.
GetExistingIPConfigIgnored(t, p) ==
    /\ MayStart(t, p)
    /\ thr' = [thr EXCEPT ![t] = [Idle EXCEPT !.pc = "read", !.pod = p]]
    /\ UNCHANGED <<ipState, podInfo, podIPs, cs, csStore, endpoint, endpointStore, init, granted>>

\* GetExistingIPConfig, under the read lock: the IPs the pod already has, if
\* they can be described; an error ends the handler.
GetExistingIPConfig(t, p) ==
    /\ MayStart(t, p)
    /\ \/ /\ podIPs[p] = {}
          /\ thr' = [thr EXCEPT ![t] = [Idle EXCEPT !.pc = "read", !.pod = p]]
       \/ /\ podIPs[p] # {}
          /\ \E iface \in HostIface : DescribesExisting(p, iface)
          /\ thr' = [thr EXCEPT ![t] =
                       [Idle EXCEPT !.pc = "endpoint", !.pod = p, !.ips = podIPs[p]]]
    /\ UNCHANGED <<ipState, podInfo, podIPs, cs, csStore, endpoint, endpointStore, init, granted>>

\* AssignAvailableIPConfigs looks whether there are NCs, counts the families and
\* reads which they are, all before it takes the lock.  (The runtime may also
\* detect the unlocked reads of the map and stop the process: Restart.)
CountNCs(t) ==
    /\ At(t, "read")
    /\ IF cs.ncs = {} THEN Finish(t) ELSE Step(t, "ncs", {}, {}, 0)
    /\ UNCHANGED <<ipState, podInfo, podIPs, cs, csStore, endpoint, endpointStore, init, granted>>

GetIPFamilyCount(t) ==
    /\ At(t, "ncs")
    /\ Step(t, "count", {}, {}, Cardinality(IPFamilies))
    /\ UNCHANGED <<ipState, podInfo, podIPs, cs, csStore, endpoint, endpointStore, init, granted>>

getIPFamiliesMap(t) ==
    /\ At(t, "count")
    /\ Step(t, "assign", {}, IPFamilies, thr[t].n)
    /\ UNCHANGED <<ipState, podInfo, podIPs, cs, csStore, endpoint, endpointStore, init, granted>>

\* What the search through the pool may collect: Available IPs with different
\* keys.  It stops at n > 0 of them; it runs to the end if it never has n.
CollectedIPs(n) ==
    {S \in SUBSET InState({"Available"}) :
        /\ \A i, j \in S : AssignedIPKey(i) = AssignedIPKey(j) => i = j
        /\ n = 0 \/ Cardinality(S) # n =>
              \A i \in InState({"Available"}) : \E j \in S : AssignedIPKey(j) = AssignedIPKey(i)
        /\ n > 0 => Cardinality(S) <= n}

\* The slots that make a short collection an error.
MissingSlots(S, fams) == (cs.ncs \X fams) \ {AssignedIPKey(i) : i \in S}

AssignAvailableIPConfigs(t) ==
    LET p == thr[t].pod
        n == thr[t].n
    IN  /\ At(t, "assign")
        /\ \E S \in CollectedIPs(n), iface \in HostIface :
              LET short == Cardinality(S) # n
                  missing == MissingSlots(S, thr[t].fams)
              IN  \/ \* not enough IPs
                     /\ short /\ missing # {}
                     /\ UNCHANGED ipamVars
                     /\ Finish(t)
                  \/ \* no family was counted, so the result has no room for the IP
                     \* that was just assigned: the handler panics, net/http recovers
                     /\ missing = {}
                     /\ n = 0
                     /\ \E i \in S : assignIPConfig({i}, p)
                     /\ Finish(t)
                  \/ /\ short => missing = {}
                     /\ n > 0 \/ S = {}
                     /\ IF Populates(S, iface)
                           THEN /\ assignIPConfig(S, p)
                                /\ Step(t, "endpoint", S, {}, IF short THEN 1 ELSE 0)
                           ELSE unassignIPConfig(S, p) /\ Finish(t)
        /\ UNCHANGED <<cs, csStore, endpoint, endpointStore, init, granted>>

\* Mutant: an IP that is being given back is not refused.
DesiredRefusedNoDefault(p, D, iface) ==
    \/ cs.ncs = {}
    \/ \E i \in D : ipState[i] = "None" \/ (ipState[i] = "Assigned" /\ podInfo[i] # p)
    \/ ~Populates(D \cap InState({"Assigned"}), iface)

\* AssignDesiredIPConfigs returns an error before it has changed anything.
DesiredRefused(p, D, iface) ==
    \/ cs.ncs = {}
    \/ \E i \in D : \/ ipState[i] \in {"None", "PendingRelease"}
                    \/ ipState[i] = "Assigned" /\ podInfo[i] # p
    \/ ~Populates(D \cap InState({"Assigned"}), iface)

\* AssignDesiredIPConfigs for pod p and the addresses D; ok is its outcome.
AssignDesiredIPConfigs(p, D, iface, ok) ==
    LET new == D \ InState({"Assigned"})
    IN  \/ /\ DesiredRefused(p, D, iface)
           /\ ok = FALSE
           /\ UNCHANGED ipamVars
        \/ /\ ~DesiredRefused(p, D, iface)
           /\ ok = Populates(new, iface)
           /\ IF ok THEN assignIPConfig(new, p) ELSE unassignIPConfig(new, p)

RequestDesiredIPConfigs(t) ==
    /\ At(t, "read")
    /\ \E D \in DesiredSets, iface \in HostIface, ok \in BOOLEAN :
          /\ AssignDesiredIPConfigs(thr[t].pod, D, iface, ok)
          /\ IF ok THEN Step(t, "endpoint", D, {}, 0) ELSE Finish(t)
    /\ UNCHANGED <<cs, csStore, endpoint, endpointStore, init, granted>>

\* updateEndpointState adds the IPs one by one to the pod's record and writes
\* the file after each; it stops with success at an IP already recorded, so
\* that an IP recorded in memory by a write that failed is never written again.
\* The empty entries of a short result come last and fail to parse.
updateEndpointState(t) ==
    LET p == thr[t].pod
        ips == thr[t].ips
        recorded == ips \cap endpoint[p]
    IN  /\ At(t, "endpoint")
        /\ \E A \in SUBSET (ips \ recorded) :
              /\ recorded = {} => A = ips
              /\ endpoint' = [endpoint EXCEPT ![p] = @ \cup A]
              /\ endpointStore' = IF A = {} THEN endpointStore ELSE endpoint'
        /\ granted' = IF recorded = {} /\ thr[t].n > 0 THEN granted
                      ELSE [granted EXCEPT ![p] = ips]
        /\ Finish(t)
        /\ UNCHANGED <<ipState, podInfo, podIPs, cs, csStore, init>>

\* The write after adding IP x fails: the IPs stay assigned and recorded in
\* memory, the file is the one of the write before, the request fails.
updateEndpointStateFails(t) ==
    LET p == thr[t].pod
    IN  /\ At(t, "endpoint")
        /\ WritesMayFail
        /\ \E A \in SUBSET (thr[t].ips \ endpoint[p]) : \E x \in A :
              /\ endpoint' = [endpoint EXCEPT ![p] = @ \cup A]
              /\ endpointStore' = IF A = {x} THEN endpointStore
                                  ELSE [endpoint EXCEPT ![p] = @ \cup (A \ {x})]
        /\ Finish(t)
        /\ UNCHANGED <<ipState, podInfo, podIPs, cs, csStore, init, granted>>

\* The stateless CNI, its request answered, reports the interface it made with
\* the IPs it was given, which replace the recorded ones of their families
\* (updateIPInfoMap); then all records are written, with what an earlier write
\* failed to.
UpdateEndpointHelper(p) ==
    LET kept == {i \in endpoint[p] : \A j \in granted[p] : Family[i] # Family[j]}
    IN  /\ Serving
        /\ granted[p] # {}
        /\ endpoint' = [endpoint EXCEPT ![p] = kept \cup granted[p]]
        /\ \E ok \in StoreWrite : endpointStore' = IF ok THEN endpoint' ELSE endpointStore
        /\ UNCHANGED <<ipState, podInfo, podIPs, cs, csStore, thr, init, granted>>

-----------------------------------------------------------------------------
(* A release of a pod's IPs: ReleaseIPConfigHandlerHelper *)

\* Mutant: a pod's record survives its release.
removeEndpointStateKept(t, p) ==
    /\ MayStart(t, p)
    /\ thr' = [thr EXCEPT ![t] = [Idle EXCEPT !.pc = "release", !.pod = p]]
    /\ granted' = [granted EXCEPT ![p] = {}]
    /\ UNCHANGED <<ipState, podInfo, podIPs, cs, csStore, endpoint, endpointStore, init>>

\* removeEndpointState; with it the pod is being torn down.  A failed write
\* ends the handler with the record gone from memory only.
removeEndpointState(t, p) ==
    /\ MayStart(t, p)
    /\ \E ok \in StoreWrite :
          /\ endpoint' = [endpoint EXCEPT ![p] = {}]
          /\ endpointStore' = IF ok /\ endpoint[p] # {} THEN endpoint' ELSE endpointStore
          /\ thr' = IF ok \/ endpoint[p] = {}
                       THEN [thr EXCEPT ![t] = [Idle EXCEPT !.pc = "release", !.pod = p]]
                       ELSE thr
    /\ granted' = [granted EXCEPT ![p] = {}]
    /\ UNCHANGED <<ipState, podInfo, podIPs, cs, csStore, init>>

releaseIPConfigs(t) ==
    LET p == thr[t].pod
    IN  /\ At(t, "release")
        /\ IF podIPs[p] \subseteq Existing
              THEN unassignIPConfig(podIPs[p], p)
              ELSE UNCHANGED ipamVars
        /\ Finish(t)
        /\ UNCHANGED <<cs, csStore, endpoint, endpointStore, init, granted>>

-----------------------------------------------------------------------------
(* Network containers: calls of the NodeNetworkConfig reconciler *)

IPsOf(nc) == {i \in IPs : NCOf[i] = nc}

\* Mutant: the version saved is one too large.
GoalStateOffByOne(nc, S, v, ver) ==
    [cs EXCEPT !.ncs = @ \cup {nc},
               !.version = [@ EXCEPT ![nc] = v + 1],
               !.sec = [i \in IPs |-> IF NCOf[i] # nc THEN cs.sec[i]
                                      ELSE IF i \in S THEN ver[i] ELSE NoVersion]]

\* ContainerStatus after the goal state of nc (version v, secondary IPs S, with
\* NC versions ver) has replaced the previous one; the host version is kept.
GoalState(nc, S, v, ver) ==
    [cs EXCEPT !.ncs = @ \cup {nc},
               !.version = [@ EXCEPT ![nc] = v],
               !.sec = [i \in IPs |-> IF NCOf[i] # nc THEN cs.sec[i]
                                      ELSE IF i \in S THEN ver[i] ELSE NoVersion]]

\* CreateOrUpdateNetworkContainerInternal -> saveNetworkContainerGoalState ->
\* updateIPConfigsStateUntransacted.  ContainerStatus is replaced first.  IPs
\* that left the NC are deleted, unless one is Assigned: then the call fails
\* with the new goal state in memory, the table untouched and nothing saved
\* (during the first reconcile the whole initialisation starts again).
\* An IP that stays keeps its NC version; a new one is usable only if the host
\* has already programmed its version.
CreateOrUpdateNetworkContainer(nc, S, v) ==
    LET old == SecondaryIPs \cap IPsOf(nc)
        deleted == old \ S
        ver == [i \in IPs |-> IF i \in old THEN cs.sec[i] ELSE v]
        added == S \ Existing
    IN  /\ Serving \/ (init.phase = "create" /\ nc \notin init.created)
        /\ S \subseteq IPsOf(nc)
        /\ EmptyNCs \/ S # {}
        /\ \/ /\ deleted \cap InState({"Assigned"}) # {}
              /\ cs' = GoalState(nc, S, v, [i \in IPs |-> v])
              /\ init' = IF Serving THEN init ELSE Boot
              /\ UNCHANGED <<ipState, podInfo, csStore>>
           \/ /\ deleted \cap InState({"Assigned"}) = {}
              /\ cs' = GoalState(nc, S, v, ver)
              /\ \E ok \in StoreWrite : csStore' = IF ok THEN cs' ELSE csStore
              /\ ipState' = [i \in IPs |->
                    IF i \in deleted THEN "None"
                    ELSE IF i \in added
                         THEN IF cs.host[nc] < ver[i] THEN "PendingProgramming" ELSE "Available"
                    ELSE ipState[i]]
              /\ podInfo' = [i \in IPs |-> IF i \in deleted \cup added THEN NoPod ELSE podInfo[i]]
              /\ init' = IF Serving THEN init ELSE [init EXCEPT !.created = @ \cup {nc}]
        /\ UNCHANGED <<podIPs, endpoint, endpointStore, thr, granted>>

\* ContainerStatus without the NCs of D.
WithoutNCs(D) ==
    [ncs |-> cs.ncs \ D,
     version |-> [nc \in NCs |-> IF nc \in D THEN 0 ELSE cs.version[nc]],
     host |-> [nc \in NCs |-> IF nc \in D THEN NoVersion ELSE cs.host[nc]],
     sec |-> [i \in IPs |-> IF NCOf[i] \in D THEN NoVersion ELSE cs.sec[i]]]

\* MustEnsureNoStaleNCs drops the NCs the NodeNetworkConfig no longer names and
\* leaves their IPs in the table.  A stale NC with an Assigned IP makes it panic
\* part way, unsaved; the controller recovers the panic and retries.
MustEnsureNoStaleNCs(valid) ==
    LET stale == cs.ncs \ valid
        inUse == {nc \in stale : IPsOf(nc) \cap InState({"Assigned"}) # {}}
    IN  /\ init.phase \in {"boot", "serving"}
        /\ stale # {}
        /\ \/ /\ inUse = {}
              /\ cs' = WithoutNCs(stale)
              /\ \E ok \in StoreWrite : csStore' = IF ok THEN cs' ELSE csStore
           \/ /\ inUse # {}
              /\ \E D \in SUBSET (stale \ inUse) : cs' = WithoutNCs(D)
              /\ UNCHANGED csStore
        /\ UNCHANGED <<ipState, podInfo, podIPs, endpoint, endpointStore, thr, init, granted>>

\* MarkIpsAsAvailableUntransacted: the IPs of the NCs in updated that the host
\* has programmed now.
MarkIpsAsAvailable(updated, reported) ==
    {i \in SecondaryIPs \cap InState({"PendingProgramming"}) :
        /\ NCOf[i] \in updated
        /\ cs.host[NCOf[i]] < reported[NCOf[i]]
        /\ cs.sec[i] <= reported[NCOf[i]]}

\* Mutant: any progress of the host makes every IP of the NC usable.
SyncHostNCVersionAll(reported) ==
    LET updated == {nc \in cs.ncs : cs.host[nc] < reported[nc]}
    IN  /\ Serving
        /\ updateIPConfigState({i \in InState({"PendingProgramming"}) : NCOf[i] \in updated},
                               "Available", NoPod)
        /\ cs' = [cs EXCEPT
                    !.host = [nc \in NCs |-> IF nc \in updated THEN reported[nc] ELSE @[nc]]]
        /\ UNCHANGED <<podIPs, csStore, endpoint, endpointStore, thr, init, granted>>

\* SyncHostNCVersion.  reported[nc] is the
\* version NMAgent has programmed, NoVersion when it does not list nc.  Only
\* outdated NCs are looked at and a host version never goes back.  Not saved.
SyncHostNCVersion(reported) ==
    LET updated == {nc \in cs.ncs : /\ cs.host[nc] < cs.version[nc]
                                    /\ reported[nc] # NoVersion
                                    /\ cs.host[nc] <= reported[nc]}
        programmed == MarkIpsAsAvailable(updated, reported)
    IN  /\ Serving
        /\ updateIPConfigState(programmed, "Available", NoPod)
        /\ cs' = [cs EXCEPT
                    !.host = [nc \in NCs |-> IF nc \in updated THEN reported[nc] ELSE @[nc]],
                    !.sec = [i \in IPs |-> IF i \in programmed THEN reported[NCOf[i]] ELSE @[i]]]
        /\ UNCHANGED <<podIPs, csStore, endpoint, endpointStore, thr, init, granted>>

-----------------------------------------------------------------------------
(* Giving IPs back: calls of the pool monitors *)

\* Sets of k IPs that can be released, PendingProgramming ones first.
ReleaseCandidates(k) ==
    LET pending == InState({"PendingProgramming"})
    IN  {S \in SUBSET InState({"PendingProgramming", "Available"}) :
            /\ Cardinality(S) = k
            /\ S \subseteq pending \/ pending \subseteq S}

Releasable == Cardinality(InState({"PendingProgramming", "Available"}))

\* updateIPConfigState(uuid, PendingRelease, existing.PodInfo)
MarkPendingRelease(S) ==
    /\ ipState' = [i \in IPs |-> IF i \in S THEN "PendingRelease" ELSE ipState[i]]
    /\ UNCHANGED <<podInfo, podIPs, cs, csStore, endpoint, endpointStore, thr, init, granted>>

\* Mutant: an IP in use is not passed over; it is taken from its pod.
MarkIPAsPendingReleaseInUse(n) ==
    /\ Serving
    /\ \E S \in {T \in SUBSET Existing : Cardinality(T) = n} :
          /\ ipState' = [i \in IPs |-> IF i \in S THEN "PendingRelease" ELSE ipState[i]]
          /\ podInfo' = [i \in IPs |-> IF i \in S THEN NoPod ELSE podInfo[i]]
          /\ podIPs' = [p \in Pods |-> podIPs[p] \ S]
    /\ UNCHANGED <<cs, csStore, endpoint, endpointStore, thr, init, granted>>

\* MarkIPAsPendingRelease compares the number marked with n after each mark, so
\* that n < 1 never stops it and every releasable IP is marked.
MarkIPAsPendingRelease(n) ==
    /\ Serving
    /\ \E S \in ReleaseCandidates(IF n < 1 \/ n > Releasable THEN Releasable ELSE n) :
          MarkPendingRelease(S)

\* MarkNIPsPendingRelease marks n IPs or none.
MarkNIPsPendingRelease(n) ==
    /\ Serving
    /\ n > 0
    /\ n <= Releasable
    /\ \E S \in ReleaseCandidates(n) : MarkPendingRelease(S)

-----------------------------------------------------------------------------
(* Process start: restoreState and the first reconcile *)

\* Mutant: EndpointState is not read back, so that the next write loses the
\* records of the pods that were there before.
RestartForgetsEndpoints ==
    /\ ipState' = [i \in IPs |-> "None"]
    /\ podInfo' = [i \in IPs |-> NoPod]
    /\ podIPs' = [p \in Pods |-> {}]
    /\ cs' = csStore
    /\ endpoint' = [p \in Pods |-> {}]
    /\ thr' = [t \in Threads |-> Idle]
    /\ init' = Boot
    /\ UNCHANGED <<csStore, endpointStore, granted>>

\* The process stops at any point, or is restarted: the IP table and its index
\* are memory only, ContainerStatus and EndpointState are read back.
Restart ==
    /\ ipState' = [i \in IPs |-> "None"]
    /\ podInfo' = [i \in IPs |-> NoPod]
    /\ podIPs' = [p \in Pods |-> {}]
    /\ cs' = csStore
    /\ endpoint' = endpointStore
    /\ thr' = [t \in Threads |-> Idle]
    /\ init' = Boot
    /\ UNCHANGED <<csStore, endpointStore, granted>>

\* endpointStateToPodInfoByIP: an IP of two pods is ErrDuplicateIP.
NoDuplicateIP(ep) == \A p, q \in Pods : p # q => ep[p] \cap ep[q] = {}

\* newPodKeyToPodIPsMap: two IPs of one family of one pod is an error.
OneIPPerFamily(S) == \A i, j \in S : Family[i] = Family[j] => i = j

\* reconcileInitialCNSState asks the endpoint store for the pods' IPs.
PodInfoByIP ==
    /\ init.phase = "boot"
    /\ NoDuplicateIP(endpointStore)
    /\ init' = [init EXCEPT !.phase = "create"]
    /\ UNCHANGED <<ipState, podInfo, podIPs, cs, csStore, endpoint, endpointStore, thr, granted>>

\* ReconcileIPAssignment, once every NC is created (the stale ones are gone
\* since MustEnsureNoStaleNCs): the pods to assign are the ones with a recorded
\* IP that some NC still lists.
ReconcileIPAssignment ==
    /\ init.phase = "create"
    /\ cs.ncs = init.created
    /\ cs.ncs # {}
    /\ init' = IF \A p \in Pods : OneIPPerFamily(endpointStore[p])
                  THEN [phase |-> "assign", created |-> {},
                        todo |-> {p \in Pods : endpointStore[p] \cap SecondaryIPs # {}}]
                  ELSE Boot
    /\ UNCHANGED <<ipState, podInfo, podIPs, cs, csStore, endpoint, endpointStore, thr, granted>>

\* requestIPConfigsHelper for one of those pods; an error ends this attempt and
\* the reconciler starts again with the state as it is.
ReconcilePod(p) ==
    /\ init.phase = "assign"
    /\ p \in init.todo
    /\ \E iface \in HostIface, ok \in BOOLEAN :
          /\ IF podIPs[p] # {}
                THEN ok = DescribesExisting(p, iface) /\ UNCHANGED ipamVars
                ELSE AssignDesiredIPConfigs(p, endpointStore[p] \cap SecondaryIPs, iface, ok)
          /\ init' = IF ok THEN [init EXCEPT !.todo = @ \ {p}] ELSE Boot
    /\ UNCHANGED <<cs, csStore, endpoint, endpointStore, thr, granted>>

\* Mutant: the IPs CNS has already given back are usable again.
MarkExistingIPsAsPendingReleaseSkipped(notInUse) ==
    /\ init.phase = "assign"
    /\ init.todo = {}
    /\ init' = [Boot EXCEPT !.phase = "serving"]
    /\ UNCHANGED <<ipState, podInfo, podIPs, cs, csStore, endpoint, endpointStore, thr, granted>>

\* Mutant: an IP that has left the node is an error.
MarkExistingIPsAsPendingReleaseStrict(notInUse) ==
    LET ok == notInUse \subseteq Existing \ InState({"Assigned"})
    IN  /\ init.phase = "assign"
        /\ init.todo = {}
        /\ ipState' = [i \in IPs |-> IF ok /\ i \in notInUse THEN "PendingRelease" ELSE ipState[i]]
        /\ init' = [Boot EXCEPT !.phase = IF ok THEN "serving" ELSE "boot"]
        /\ UNCHANGED <<podInfo, podIPs, cs, csStore, endpoint, endpointStore, thr, granted>>

\* MarkExistingIPsAsPendingRelease(nnc.Spec.IPsNotInUse): stops at an Assigned
\* IP with the ones before it marked, else initialisation is done.
MarkExistingIPsAsPendingRelease(notInUse) ==
    LET known == notInUse \cap Existing
        assigned == notInUse \cap InState({"Assigned"})
    IN  /\ init.phase = "assign"
        /\ init.todo = {}
        /\ \E S \in SUBSET (known \ assigned) :
              /\ assigned = {} => S = known
              /\ ipState' = [i \in IPs |-> IF i \in S THEN "PendingRelease" ELSE ipState[i]]
        /\ init' = [Boot EXCEPT !.phase = IF assigned = {} THEN "serving" ELSE "boot"]
        /\ UNCHANGED <<podInfo, podIPs, cs, csStore, endpoint, endpointStore, thr, granted>>

-----------------------------------------------------------------------------
Request ==
    \E t \in Threads :
        \/ \E p \in Pods : GetExistingIPConfig(t, p)
        \/ CountNCs(t)
        \/ GetIPFamilyCount(t)
        \/ getIPFamiliesMap(t)
        \/ AssignAvailableIPConfigs(t)
        \/ RequestDesiredIPConfigs(t)
        \/ updateEndpointState(t)
        \/ updateEndpointStateFails(t)

Release ==
    \E t \in Threads :
        \/ \E p \in Pods : removeEndpointState(t, p)
        \/ releaseIPConfigs(t)

EndpointAPI == \E p \in Pods : UpdateEndpointHelper(p)

Controllers ==
    \/ \E nc \in NCs, S \in SUBSET IPs, v \in Versions : CreateOrUpdateNetworkContainer(nc, S, v)
    \/ \E valid \in SUBSET NCs : MustEnsureNoStaleNCs(valid)
    \/ \E reported \in [NCs -> Versions \cup {NoVersion}] : SyncHostNCVersion(reported)
    \/ \E n \in 0 .. Cardinality(IPs) : MarkIPAsPendingRelease(n) \/ MarkNIPsPendingRelease(n)

Start ==
    \/ Restart
    \/ PodInfoByIP
    \/ ReconcileIPAssignment
    \/ \E p \in Pods : ReconcilePod(p)
    \/ \E notInUse \in SUBSET IPs : MarkExistingIPsAsPendingRelease(notInUse)

Next == Request \/ Release \/ EndpointAPI \/ Controllers \/ Start

Spec == Init /\ [][Next]_vars

-----------------------------------------------------------------------------
(* Properties *)

\* Every IP the index gives for a pod is Assigned to that pod, and an IP has an
\* owner exactly when it is Assigned; so no IP is ever handed to two pods,
\* whatever handlers, updates of NCs, releases and restarts interleave
\* (assignIPConfig, unassignIPConfig, releaseIPConfigs).
IndexSound ==
    /\ \A p \in Pods : \A i \in podIPs[p] : ipState[i] = "Assigned" /\ podInfo[i] = p
    /\ \A i \in IPs : podInfo[i] # NoPod <=> ipState[i] = "Assigned"

\* Every Assigned IP is in the index of its pod, so that the pod's release finds
\* it: the rollback of a failed assignment, which deletes the pod's whole index
\* entry, strands no IP (unassignIPConfig).  Needs SerialPerPod.
IndexComplete ==
    \A i \in IPs : ipState[i] = "Assigned" => \E p \in Pods : podInfo[i] = p /\ i \in podIPs[p]

\* The IPs a request is about to record and return, which it took under a lock
\* it no longer has, are still held by its pod and belong to NCs that CNS knows:
\* no update or removal of an NC and no release to Azure takes them away in
\* between (AssignAvailableIPConfigs, GetExistingIPConfig, updateEndpointState).
\* Needs SerialPerPod.
AnswerStillHeld ==
    \A t \in Threads : thr[t].pc = "endpoint" =>
        \A i \in thr[t].ips : i \in podIPs[thr[t].pod] /\ NCOf[i] \in cs.ncs

\* The IPs of every success returned to a live pod are in the endpoint file, so
\* that a crash at any point can give them back to the pod
\* (updateEndpointState, removeEndpointState).
GrantedRecoverable == \A p \in Pods : granted[p] \subseteq endpointStore[p]

LegalTransitions ==
    {<<"None", "PendingProgramming">>, <<"None", "Available">>,
     <<"PendingProgramming", "Available">>, <<"PendingProgramming", "Assigned">>,
     <<"PendingProgramming", "PendingRelease">>, <<"PendingProgramming", "None">>,
     <<"Available", "Assigned">>, <<"Available", "PendingRelease">>, <<"Available", "None">>,
     <<"Assigned", "Available">>, <<"PendingRelease", "None">>}

\* An IP is freed only by a release of the pod that owns it.
FreedByOwner(i) ==
    \E t \in Threads : thr[t].pc = "release" /\ thr[t].pod = podInfo[i] /\ i \in podIPs[podInfo[i]]

\* Within one run of the process an IP marked PendingRelease is never used
\* again, an Assigned IP is never deleted or given back to Azure, and only the
\* owner's release frees it.
IPLifecycle ==
    [][\/ Restart
       \/ \A i \in IPs : ipState'[i] # ipState[i] =>
             /\ <<ipState[i], ipState'[i]>> \in LegalTransitions
             /\ ipState[i] = "Assigned" => FreedByOwner(i)]_vars

=============================================================================
