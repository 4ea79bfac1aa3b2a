--------------------------- MODULE CNSNode_proofs ---------------------------
(***************************************************************************)
(* Proofs about CNSIPAM and, on top of them, about CNSNode.                *)
(*                                                                         *)
(* The IPAM core, for every set of IPs, NCs, pods and handlers and every   *)
(* choice of what may fail and what may overlap.  IndexSound is not        *)
(* inductive alone: an assignment to the pod a handler works for keeps it  *)
(* only if that handler has a pod, which ThreadsHavePod adds to the types. *)
(*                                                                         *)
(* CNS on its node, for every set of IPs, NCs, pods and handlers and every *)
(* number of versions and restarts: what a pod was granted survives        *)
(* everything (GrantedKept, LeaseKept), DNC is never told that an IP in    *)
(* use may be taken back (NotInUseHonest), only programmed IPs are used    *)
(* (UsableIsProgrammed), and the endpoint file can always be read back     *)
(* (EndpointFileReadable).                                                 *)
(*                                                                         *)
(* The argument.  An IP that CNS has not listed in spec.IPsNotInUse cannot *)
(* leave the node, so it is in every copy of the NNC since it was          *)
(* allocated (ViewInv); CNS lists only PendingRelease IPs, which it gives  *)
(* to nobody, and a list it is about to publish stays right while it is    *)
(* on its way (PatchInv).  What is recorded in the endpoint file is        *)
(* therefore still the node's after a restart, and the first reconcile     *)
(* gives every pod exactly its recorded IPs (HeldInv).                     *)
(***************************************************************************)
EXTENDS CNSNode, FiniteSetTheorems, TLAPS

-----------------------------------------------------------------------------
(* The IPAM core: its invariant *)

\* A handler that is running works for a pod.
ThreadsHavePod == \A t \in Threads : thr[t].pc # "idle" => thr[t].pod \in Pods

\* The inductive invariant.
IInv == TypeOK /\ ThreadsHavePod /\ IndexSound

\* The part of IInv about the tables a pod's IPs are looked up in.
TablesOK ==
    /\ ipState \in [IPs -> IPStates]
    /\ podInfo \in [IPs -> Pods \cup {NoPod}]
    /\ podIPs \in [Pods -> SUBSET IPs]
    /\ IndexSound

\* The part of IInv about handlers.
HandlersOK == thr \in [Threads -> Thread] /\ ThreadsHavePod

-----------------------------------------------------------------------------
(* The operators the actions are built from *)

\* Assigning IPs nobody owns to a pod keeps the tables consistent.
LEMMA AssignKeepsTables ==
    ASSUME TablesOK, NEW p \in Pods, NEW S \in SUBSET IPs,
           S \cap InState({"Assigned"}) = {}, assignIPConfig(S, p)
    PROVE  TablesOK'
<1>1. /\ ipState' \in [IPs -> IPStates]
      /\ podInfo' \in [IPs -> Pods \cup {NoPod}]
      /\ podIPs' \in [Pods -> SUBSET IPs]
  BY DEF TablesOK, assignIPConfig, updateIPConfigState, IPStates
<1>2. IndexSound'
  <2>1. ASSUME NEW q \in Pods, NEW i \in podIPs'[q]
        PROVE  ipState'[i] = "Assigned" /\ podInfo'[i] = q
    <3>1. CASE i \in S
      <4>1. ipState[i] # "Assigned"
        BY <3>1 DEF InState, TablesOK
      <4>2. q = p
        BY <2>1, <3>1, <4>1 DEF TablesOK, IndexSound, assignIPConfig
      <4> QED BY <3>1, <4>2 DEF assignIPConfig, updateIPConfigState
    <3>2. CASE i \notin S
      <4>1. i \in podIPs[q] /\ i \in IPs
        BY <2>1, <3>2 DEF TablesOK, assignIPConfig
      <4> QED BY <3>2, <4>1 DEF TablesOK, IndexSound, assignIPConfig, updateIPConfigState
    <3> QED BY <3>1, <3>2
  <2>2. ASSUME NEW i \in IPs
        PROVE  podInfo'[i] # NoPod <=> ipState'[i] = "Assigned"
    BY ConstantsAssumption DEF TablesOK, IndexSound, assignIPConfig, updateIPConfigState
  <2> QED BY <2>1, <2>2 DEF IndexSound
<1> QED BY <1>1, <1>2 DEF TablesOK

\* Freeing IPs that no other pod's index names keeps the tables consistent.
LEMMA UnassignKeepsTables ==
    ASSUME TablesOK, NEW p \in Pods, NEW S \in SUBSET IPs,
           \A q \in Pods \ {p} : S \cap podIPs[q] = {}, unassignIPConfig(S, p)
    PROVE  TablesOK'
<1>1. /\ ipState' \in [IPs -> IPStates]
      /\ podInfo' \in [IPs -> Pods \cup {NoPod}]
      /\ podIPs' \in [Pods -> SUBSET IPs]
  BY DEF TablesOK, unassignIPConfig, updateIPConfigState, IPStates
<1>2. ASSUME NEW q \in Pods, NEW i \in podIPs'[q]
      PROVE  ipState'[i] = "Assigned" /\ podInfo'[i] = q
  <2>1. q # p /\ i \in podIPs[q] /\ i \in IPs
    BY <1>2 DEF TablesOK, unassignIPConfig
  <2> QED BY <2>1 DEF TablesOK, IndexSound, unassignIPConfig, updateIPConfigState
<1>3. ASSUME NEW i \in IPs
      PROVE  podInfo'[i] # NoPod <=> ipState'[i] = "Assigned"
  BY DEF TablesOK, IndexSound, unassignIPConfig, updateIPConfigState
<1> QED BY <1>1, <1>2, <1>3 DEF TablesOK, IndexSound

\* Moving IPs nobody owns to a state other than Assigned keeps the tables
\* consistent.
LEMMA MoveKeepsTables ==
    ASSUME TablesOK,
           ipState' \in [IPs -> IPStates],
           podInfo' \in [IPs -> Pods \cup {NoPod}],
           podIPs' = podIPs,
           \A i \in IPs : \/ ipState'[i] = ipState[i] /\ podInfo'[i] = podInfo[i]
                          \/ /\ ipState[i] # "Assigned" /\ ipState'[i] # "Assigned"
                             /\ podInfo'[i] \in {NoPod, podInfo[i]}
    PROVE  TablesOK'
  BY DEF TablesOK, IndexSound

\* AssignDesiredIPConfigs only takes IPs that nobody owns.
LEMMA DesiredKeepsTables ==
    ASSUME TablesOK, NEW p \in Pods, NEW D \in SUBSET IPs, NEW iface, NEW ok,
           AssignDesiredIPConfigs(p, D, iface, ok)
    PROVE  TablesOK'
<1> DEFINE new == D \ InState({"Assigned"})
<1>1. new \in SUBSET IPs /\ new \cap InState({"Assigned"}) = {}
  OBVIOUS
<1>2. \A q \in Pods : new \cap podIPs[q] = {}
  BY DEF InState, TablesOK, IndexSound
<1>3. CASE UNCHANGED ipamVars
  BY <1>3 DEF TablesOK, IndexSound, ipamVars
<1>4. CASE assignIPConfig(new, p)
  BY <1>1, <1>4, AssignKeepsTables
<1>5. CASE unassignIPConfig(new, p)
  BY <1>1, <1>2, <1>5, UnassignKeepsTables
<1> HIDE DEF new
<1> QED BY <1>3, <1>4, <1>5 DEF AssignDesiredIPConfigs, new

\* A handler may be put anywhere as long as it has a pod when it is busy.
LEMMA PutKeepsHandlers ==
    ASSUME HandlersOK, NEW t \in Threads, NEW h \in Thread, h.pc # "idle" => h.pod \in Pods,
           thr' = [thr EXCEPT ![t] = h]
    PROVE  HandlersOK'
  BY DEF HandlersOK, ThreadsHavePod

\* A handler that starts has a pod.
LEMMA StartingIsThread ==
    ASSUME NEW p \in Pods, NEW pc \in {"read", "endpoint", "release"}, NEW S \in SUBSET IPs
    PROVE  /\ LET h == [Idle EXCEPT !.pc = pc, !.pod = p] IN h \in Thread /\ h.pod = p
           /\ LET h == [Idle EXCEPT !.pc = pc, !.pod = p, !.ips = S] IN h \in Thread /\ h.pod = p
  BY DEF Thread, Idle

\* A handler that goes on keeps its pod; one that ends has none.
LEMMA StepKeepsHandlers ==
    ASSUME HandlersOK, NEW t \in Threads, thr[t].pod \in Pods,
           NEW pc \in {"ncs", "count", "assign", "endpoint"}, NEW S \in SUBSET IPs,
           NEW F \in SUBSET {"IPv4", "IPv6"}, NEW n \in Nat,
           Step(t, pc, S, F, n) \/ Finish(t)
    PROVE  HandlersOK'
<1>1. CASE Step(t, pc, S, F, n)
  BY <1>1 DEF HandlersOK, ThreadsHavePod, Thread, Step
<1>2. CASE Finish(t)
  BY <1>2 DEF HandlersOK, ThreadsHavePod, Thread, Finish, Idle
<1> QED BY <1>1, <1>2

\* The number of families is a number.
LEMMA FamilyCountIsNat ==
    ASSUME NEW F \in SUBSET {"IPv4", "IPv6"}
    PROVE  Cardinality(F) \in Nat
<1>1. {"IPv4"} \cup {"IPv6"} = {"IPv4", "IPv6"}
  OBVIOUS
<1>2. IsFiniteSet({"IPv4"})
  BY FS_Singleton
<1>3. IsFiniteSet({"IPv4"} \cup {"IPv6"})
  BY <1>2, FS_AddElement, Zenon
<1>4. IsFiniteSet({"IPv4", "IPv6"})
  BY <1>1, <1>3
<1>5. IsFiniteSet(F)
  BY <1>4, FS_Subset
<1> QED BY <1>5, FS_CardinalityType

-----------------------------------------------------------------------------
(* The invariant *)

\* A new service satisfies the invariant.
LEMMA IInvInit == Init => IInv
<1> SUFFICES ASSUME Init PROVE IInv
  OBVIOUS
<1>1. NoNCs \in ContainerStatus
  BY ConstantsAssumption DEF NoNCs, ContainerStatus, Versions, NoVersion
<1>2. TypeOK
  BY <1>1 DEF Init, TypeOK, IPStates, Thread, Idle, FirstReconcile, Boot
<1>3. ThreadsHavePod
  BY DEF Init, ThreadsHavePod, Idle
<1>4. IndexSound
  BY DEF Init, IndexSound
<1> QED BY <1>2, <1>3, <1>4 DEF IInv

\* IInv in the parts the actions change separately.
LEMMA IInvParts ==
    IInv <=> /\ TablesOK
             /\ HandlersOK
             /\ cs \in ContainerStatus
             /\ csStore \in ContainerStatus
             /\ endpoint \in [Pods -> SUBSET IPs]
             /\ endpointStore \in [Pods -> SUBSET IPs]
             /\ init \in FirstReconcile
             /\ granted \in [Pods -> SUBSET IPs]
  BY DEF IInv, TypeOK, TablesOK, HandlersOK

\* The same of the next state.
LEMMA IInvPartsPrime ==
    IInv' <=> /\ TablesOK'
              /\ HandlersOK'
              /\ cs' \in ContainerStatus
              /\ csStore' \in ContainerStatus
              /\ endpoint' \in [Pods -> SUBSET IPs]
              /\ endpointStore' \in [Pods -> SUBSET IPs]
              /\ init' \in FirstReconcile
              /\ granted' \in [Pods -> SUBSET IPs]
  BY DEF IInv, TypeOK, TablesOK, HandlersOK

\* The tables stay consistent when they do not change.
LEMMA UnchangedTables == ASSUME TablesOK, UNCHANGED ipamVars PROVE TablesOK'
  BY DEF TablesOK, IndexSound, ipamVars

\* The same of the handlers.
LEMMA UnchangedHandlers == ASSUME HandlersOK, UNCHANGED thr PROVE HandlersOK'
  BY DEF HandlersOK, ThreadsHavePod

\* The steps of a request.
LEMMA RequestKeepsIInv == ASSUME IInv, Request PROVE IInv'
<1> USE IInvParts
<1> USE DEF At
<1>0. PICK t \in Threads :
        \/ \E p \in Pods : GetExistingIPConfig(t, p)
        \/ CountNCs(t)
        \/ GetIPFamilyCount(t)
        \/ getIPFamiliesMap(t)
        \/ AssignAvailableIPConfigs(t)
        \/ RequestDesiredIPConfigs(t)
        \/ updateEndpointState(t)
        \/ updateEndpointStateFails(t)
  BY DEF Request
<1>p. thr[t] \in Thread /\ (thr[t].pc # "idle" => thr[t].pod \in Pods)
  BY DEF HandlersOK, ThreadsHavePod
<1>1. ASSUME NEW p \in Pods, GetExistingIPConfig(t, p) PROVE IInv'
  <2>1. TablesOK'
    BY <1>1, UnchangedTables DEF GetExistingIPConfig, ipamVars
  <2>2. HandlersOK'
    <3> DEFINE fresh == [Idle EXCEPT !.pc = "read", !.pod = p]
               known == [Idle EXCEPT !.pc = "endpoint", !.pod = p, !.ips = podIPs[p]]
    <3>1. thr' = [thr EXCEPT ![t] = fresh] \/ thr' = [thr EXCEPT ![t] = known]
      BY <1>1 DEF GetExistingIPConfig
    <3>2. fresh \in Thread /\ fresh.pod \in Pods
      BY StartingIsThread
    <3>3. known \in Thread /\ known.pod \in Pods
      BY StartingIsThread DEF TablesOK
    <3> HIDE DEF fresh, known
    <3> QED BY <3>1, <3>2, <3>3, PutKeepsHandlers
  <2> QED BY <1>1, <2>1, <2>2, IInvPartsPrime DEF GetExistingIPConfig
<1>2. CASE CountNCs(t) \/ GetIPFamilyCount(t) \/ getIPFamiliesMap(t)
  <2>1. TablesOK'
    BY <1>2, UnchangedTables DEF CountNCs, GetIPFamilyCount, getIPFamiliesMap, ipamVars
  <2>2. IPFamilies \in SUBSET {"IPv4", "IPv6"}
    BY ConstantsAssumption DEF IPFamilies, SecondaryIPs
  <2>3. Cardinality(IPFamilies) \in Nat
    BY <2>2, FamilyCountIsNat
  <2>4. HandlersOK'
    <3>1. CASE GetIPFamilyCount(t)
      BY <1>p, <2>3, <3>1, StepKeepsHandlers DEF GetIPFamilyCount
    <3>2. CASE getIPFamiliesMap(t)
      BY <1>p, <2>2, <3>2, StepKeepsHandlers DEF getIPFamiliesMap, Thread
    <3>3. CASE CountNCs(t)
      BY <1>p, <3>3, StepKeepsHandlers DEF CountNCs
    <3> QED BY <1>2, <3>1, <3>2, <3>3
  <2> QED BY <1>2, <2>1, <2>4, IInvPartsPrime DEF CountNCs, GetIPFamilyCount, getIPFamiliesMap
<1>3. CASE AssignAvailableIPConfigs(t)
  <2> DEFINE p == thr[t].pod
             n == thr[t].n
  <2>1. p \in Pods
    BY <1>3, <1>p DEF AssignAvailableIPConfigs
  <2>2. PICK S \in CollectedIPs(n), iface \in HostIface :
              \/ UNCHANGED ipamVars /\ Finish(t)
              \/ \E i \in S : assignIPConfig({i}, p) /\ Finish(t)
              \/ /\ assignIPConfig(S, p)
                 /\ \E k \in {0, 1} : Step(t, "endpoint", S, {}, k)
              \/ unassignIPConfig(S, p) /\ Finish(t)
    BY <1>3 DEF AssignAvailableIPConfigs
  <2>3. S \in SUBSET IPs /\ S \cap InState({"Assigned"}) = {}
    BY <2>2 DEF CollectedIPs, InState
  <2>4. \A q \in Pods : S \cap podIPs[q] = {}
    BY <2>3 DEF InState, TablesOK, IndexSound
  <2> HIDE DEF p, n
  <2>5. TablesOK'
    <3>1. CASE UNCHANGED ipamVars
      BY <3>1, UnchangedTables
    <3>2. ASSUME NEW i \in S, assignIPConfig({i}, p) PROVE TablesOK'
      <4>1. {i} \in SUBSET IPs /\ {i} \cap InState({"Assigned"}) = {}
        BY <2>3
      <4> QED BY <2>1, <3>2, <4>1, AssignKeepsTables
    <3>3. CASE assignIPConfig(S, p)
      BY <2>1, <2>3, <3>3, AssignKeepsTables
    <3>4. CASE unassignIPConfig(S, p)
      BY <2>1, <2>3, <2>4, <3>4, UnassignKeepsTables
    <3> QED BY <2>2, <3>1, <3>2, <3>3, <3>4
  <2>6. HandlersOK'
    BY <2>1, <2>2, <2>3, StepKeepsHandlers DEF p
  <2> QED BY <1>3, <2>5, <2>6, IInvPartsPrime DEF AssignAvailableIPConfigs
<1>4. CASE RequestDesiredIPConfigs(t)
  <2>1. PICK D \in DesiredSets, iface \in HostIface, ok \in BOOLEAN :
          /\ AssignDesiredIPConfigs(thr[t].pod, D, iface, ok)
          /\ IF ok THEN Step(t, "endpoint", D, {}, 0) ELSE Finish(t)
    BY <1>4 DEF RequestDesiredIPConfigs
  <2>2. thr[t].pod \in Pods /\ D \in SUBSET IPs
    BY <1>4, <1>p, ConstantsAssumption DEF RequestDesiredIPConfigs
  <2>3. TablesOK'
    BY <2>1, <2>2, DesiredKeepsTables
  <2>4. HandlersOK'
    BY <2>1, <2>2, StepKeepsHandlers
  <2> QED BY <1>4, <2>3, <2>4, IInvPartsPrime DEF RequestDesiredIPConfigs
<1>5. CASE updateEndpointState(t) \/ updateEndpointStateFails(t)
  <2>1. thr[t].pod \in Pods /\ thr[t].ips \in SUBSET IPs
    BY <1>5, <1>p DEF updateEndpointState, updateEndpointStateFails, Thread
  <2>2. TablesOK'
    BY <1>5, UnchangedTables DEF updateEndpointState, updateEndpointStateFails, ipamVars
  <2>3. HandlersOK'
    <3>1. Finish(t)
      BY <1>5 DEF updateEndpointState, updateEndpointStateFails
    <3>2. Step(t, "endpoint", {}, {}, 0) \/ Finish(t)
      BY <3>1
    <3> QED BY <2>1, <3>2, StepKeepsHandlers
  <2>4. /\ endpoint' \in [Pods -> SUBSET IPs]
        /\ endpointStore' \in [Pods -> SUBSET IPs]
        /\ granted' \in [Pods -> SUBSET IPs]
    <3>1. CASE updateEndpointState(t)
      BY <2>1, <3>1 DEF updateEndpointState
    <3>2. CASE updateEndpointStateFails(t)
      BY <2>1, <3>2 DEF updateEndpointStateFails
    <3> QED BY <1>5, <3>1, <3>2
  <2> QED BY <1>5, <2>2, <2>3, <2>4, IInvPartsPrime
          DEF updateEndpointState, updateEndpointStateFails
<1> QED BY <1>0, <1>1, <1>2, <1>3, <1>4, <1>5

\* The steps of a release.
LEMMA ReleaseKeepsIInv == ASSUME IInv, Release PROVE IInv'
<1> USE IInvParts
<1> USE DEF At
<1>0. PICK t \in Threads : (\E p \in Pods : removeEndpointState(t, p)) \/ releaseIPConfigs(t)
  BY DEF Release
<1>p. thr[t] \in Thread /\ (thr[t].pc # "idle" => thr[t].pod \in Pods)
  BY DEF HandlersOK, ThreadsHavePod
<1>1. ASSUME NEW p \in Pods, removeEndpointState(t, p) PROVE IInv'
  <2>1. TablesOK'
    BY <1>1, UnchangedTables DEF removeEndpointState, ipamVars
  <2>2. HandlersOK'
    <3> DEFINE fresh == [Idle EXCEPT !.pc = "release", !.pod = p]
    <3>1. thr' = [thr EXCEPT ![t] = fresh] \/ UNCHANGED thr
      BY <1>1 DEF removeEndpointState
    <3>2. fresh \in Thread /\ fresh.pod \in Pods
      BY StartingIsThread
    <3> HIDE DEF fresh
    <3> QED BY <3>1, <3>2, PutKeepsHandlers, UnchangedHandlers
  <2> QED BY <1>1, <2>1, <2>2, IInvPartsPrime DEF removeEndpointState
<1>2. CASE releaseIPConfigs(t)
  <2> DEFINE p == thr[t].pod
  <2>1. p \in Pods
    BY <1>2, <1>p DEF releaseIPConfigs
  <2>2. podIPs[p] \in SUBSET IPs /\ \A q \in Pods \ {p} : podIPs[p] \cap podIPs[q] = {}
    BY <2>1 DEF TablesOK, IndexSound
  <2>3. unassignIPConfig(podIPs[p], p) \/ UNCHANGED ipamVars
    BY <1>2 DEF releaseIPConfigs
  <2> HIDE DEF p
  <2>4. TablesOK'
    BY <2>1, <2>2, <2>3, UnassignKeepsTables, UnchangedTables
  <2>5. HandlersOK'
    <3>1. Step(t, "endpoint", {}, {}, 0) \/ Finish(t)
      BY <1>2 DEF releaseIPConfigs
    <3> QED BY <2>1, <3>1, StepKeepsHandlers DEF p
  <2> QED BY <1>2, <2>4, <2>5, IInvPartsPrime DEF releaseIPConfigs
<1> QED BY <1>0, <1>1, <1>2

\* The calls of the NNC reconciler and of the pool monitors.
LEMMA ControllersKeepIInv == ASSUME IInv, Controllers PROVE IInv'
<1> USE IInvParts
<1>1. ASSUME NEW nc \in NCs, NEW S \in SUBSET IPs, NEW v \in Versions,
             CreateOrUpdateNetworkContainer(nc, S, v)
      PROVE  IInv'
  <2> DEFINE old == SecondaryIPs \cap IPsOf(nc)
             deleted == old \ S
             ver == [i \in IPs |-> IF i \in old THEN cs.sec[i] ELSE v]
             added == S \ Existing
  <2>1. \A w \in [IPs -> Versions] : GoalState(nc, S, v, w) \in ContainerStatus
    BY DEF GoalState, ContainerStatus
  <2>2. ver \in [IPs -> Versions]
    BY DEF ContainerStatus, SecondaryIPs, Versions, NoVersion
  <2>3. cs' \in ContainerStatus /\ csStore' \in ContainerStatus
    <3>1. cs' = GoalState(nc, S, v, [i \in IPs |-> v]) \/ cs' = GoalState(nc, S, v, ver)
      BY <1>1 DEF CreateOrUpdateNetworkContainer
    <3>2. csStore' = csStore \/ csStore' = cs'
      BY <1>1 DEF CreateOrUpdateNetworkContainer
    <3> HIDE DEF ver
    <3> QED BY <2>1, <2>2, <3>1, <3>2
  <2>4. init' \in FirstReconcile
    <3>1. Boot \in FirstReconcile
      BY DEF Boot, FirstReconcile
    <3>2. [init EXCEPT !.created = @ \cup {nc}] \in FirstReconcile
      BY DEF FirstReconcile
    <3> QED BY <1>1, <3>1, <3>2 DEF CreateOrUpdateNetworkContainer
  <2>5. TablesOK'
    <3>1. CASE deleted \cap InState({"Assigned"}) # {}
      BY <1>1, <3>1, UnchangedTables DEF CreateOrUpdateNetworkContainer, ipamVars
    <3>2. CASE deleted \cap InState({"Assigned"}) = {}
      <4>1. /\ ipState' = [i \in IPs |->
                    IF i \in deleted THEN "None"
                    ELSE IF i \in added
                         THEN IF cs.host[nc] < ver[i] THEN "PendingProgramming" ELSE "Available"
                    ELSE ipState[i]]
            /\ podInfo' = [i \in IPs |-> IF i \in deleted \cup added THEN NoPod ELSE podInfo[i]]
            /\ podIPs' = podIPs
        BY <1>1, <3>2 DEF CreateOrUpdateNetworkContainer
      <4>2. \A i \in deleted \cup added : i \in IPs /\ ipState[i] # "Assigned"
        BY <3>2 DEF InState, Existing, IPsOf, SecondaryIPs, IPStates
      <4> HIDE DEF deleted, added, ver
      <4>3. ipState' \in [IPs -> IPStates] /\ podInfo' \in [IPs -> Pods \cup {NoPod}]
        BY <4>1 DEF TablesOK, IPStates
      <4>4. \A i \in IPs : \/ ipState'[i] = ipState[i] /\ podInfo'[i] = podInfo[i]
                           \/ /\ ipState[i] # "Assigned" /\ ipState'[i] # "Assigned"
                              /\ podInfo'[i] \in {NoPod, podInfo[i]}
        BY <4>1, <4>2
      <4> QED BY <4>1, <4>3, <4>4, MoveKeepsTables
    <3> QED BY <3>1, <3>2
  <2>6. HandlersOK'
    BY <1>1, UnchangedHandlers DEF CreateOrUpdateNetworkContainer
  <2> QED BY <1>1, <2>3, <2>4, <2>5, <2>6, IInvPartsPrime DEF CreateOrUpdateNetworkContainer
<1>2. ASSUME NEW valid \in SUBSET NCs, MustEnsureNoStaleNCs(valid) PROVE IInv'
  <2>1. \A D \in SUBSET NCs : WithoutNCs(D) \in ContainerStatus
    BY ConstantsAssumption DEF WithoutNCs, ContainerStatus, Versions, NoVersion
  <2>2. \E D \in SUBSET NCs : cs' = WithoutNCs(D)
    BY <1>2 DEF MustEnsureNoStaleNCs, ContainerStatus
  <2>3. csStore' = csStore \/ csStore' = cs'
    BY <1>2 DEF MustEnsureNoStaleNCs
  <2>4. TablesOK' /\ HandlersOK'
    BY <1>2, UnchangedTables, UnchangedHandlers DEF MustEnsureNoStaleNCs, ipamVars
  <2> QED BY <1>2, <2>1, <2>2, <2>3, <2>4, IInvPartsPrime DEF MustEnsureNoStaleNCs
<1>3. ASSUME NEW reported \in [NCs -> Versions \cup {NoVersion}], SyncHostNCVersion(reported)
      PROVE  IInv'
  <2> DEFINE updated == {nc \in cs.ncs : /\ cs.host[nc] < cs.version[nc]
                                         /\ reported[nc] # NoVersion
                                         /\ cs.host[nc] <= reported[nc]}
             programmed == MarkIpsAsAvailable(updated, reported)
  <2>1. programmed \in SUBSET IPs /\ \A i \in programmed : ipState[i] # "Assigned"
    BY DEF InState, MarkIpsAsAvailable
  <2>2. /\ updateIPConfigState(programmed, "Available", NoPod)
        /\ cs' = [cs EXCEPT
                    !.host = [nc \in NCs |-> IF nc \in updated THEN reported[nc] ELSE @[nc]],
                    !.sec = [i \in IPs |-> IF i \in programmed THEN reported[NCOf[i]] ELSE @[i]]]
    BY <1>3 DEF SyncHostNCVersion
  <2> HIDE DEF updated, programmed
  <2>3. cs' \in ContainerStatus
    BY <2>2, ConstantsAssumption DEF ContainerStatus
  <2>4. TablesOK'
    <3>1. podIPs' = podIPs
      BY <1>3 DEF SyncHostNCVersion
    <3>2. ipState' \in [IPs -> IPStates] /\ podInfo' \in [IPs -> Pods \cup {NoPod}]
      BY <2>2 DEF updateIPConfigState, TablesOK, IPStates
    <3>3. \A i \in IPs : \/ ipState'[i] = ipState[i] /\ podInfo'[i] = podInfo[i]
                         \/ /\ ipState[i] # "Assigned" /\ ipState'[i] # "Assigned"
                            /\ podInfo'[i] \in {NoPod, podInfo[i]}
      BY <2>1, <2>2 DEF updateIPConfigState
    <3> QED BY <3>1, <3>2, <3>3, MoveKeepsTables
  <2>5. HandlersOK'
    BY <1>3, UnchangedHandlers DEF SyncHostNCVersion
  <2> QED BY <1>3, <2>3, <2>4, <2>5, IInvPartsPrime DEF SyncHostNCVersion
<1>4. ASSUME NEW n \in 0 .. Cardinality(IPs), MarkIPAsPendingRelease(n) \/ MarkNIPsPendingRelease(n)
      PROVE  IInv'
  <2>1. PICK S \in SUBSET InState({"PendingProgramming", "Available"}) : MarkPendingRelease(S)
    BY <1>4 DEF MarkIPAsPendingRelease, MarkNIPsPendingRelease, ReleaseCandidates
  <2>2. \A i \in S : i \in IPs /\ ipState[i] # "Assigned"
    BY <2>1 DEF InState
  <2>3. TablesOK'
    <3>1. /\ ipState' \in [IPs -> IPStates]
          /\ podInfo' \in [IPs -> Pods \cup {NoPod}]
          /\ podIPs' = podIPs
      BY <2>1 DEF MarkPendingRelease, TablesOK, IPStates
    <3>2. \A i \in IPs : \/ ipState'[i] = ipState[i] /\ podInfo'[i] = podInfo[i]
                         \/ /\ ipState[i] # "Assigned" /\ ipState'[i] # "Assigned"
                            /\ podInfo'[i] \in {NoPod, podInfo[i]}
      BY <2>1, <2>2 DEF MarkPendingRelease
    <3> QED BY <3>1, <3>2, MoveKeepsTables
  <2>4. HandlersOK'
    BY <2>1, UnchangedHandlers DEF MarkPendingRelease
  <2> QED BY <2>1, <2>3, <2>4, IInvPartsPrime DEF MarkPendingRelease
<1> QED BY <1>1, <1>2, <1>3, <1>4 DEF Controllers

\* The steps of a new process.
LEMMA StartKeepsIInv == ASSUME IInv, Start PROVE IInv'
<1> USE IInvParts
<1>b. Boot \in FirstReconcile
  BY DEF Boot, FirstReconcile
<1>1. CASE Restart
  <2>1. TablesOK'
    BY <1>1 DEF Restart, TablesOK, IndexSound, IPStates
  <2>2. HandlersOK'
    BY <1>1 DEF Restart, HandlersOK, ThreadsHavePod, Thread, Idle
  <2> QED BY <1>1, <1>b, <2>1, <2>2, IInvPartsPrime DEF Restart
<1>2. CASE PodInfoByIP \/ ReconcileIPAssignment
  <2>1. TablesOK' /\ HandlersOK'
    BY <1>2, UnchangedTables, UnchangedHandlers DEF PodInfoByIP, ReconcileIPAssignment, ipamVars
  <2>2. init' \in FirstReconcile
    BY <1>2, <1>b DEF PodInfoByIP, ReconcileIPAssignment, FirstReconcile
  <2> QED BY <1>2, <2>1, <2>2, IInvPartsPrime DEF PodInfoByIP, ReconcileIPAssignment
<1>3. ASSUME NEW p \in Pods, ReconcilePod(p) PROVE IInv'
  <2>1. PICK iface \in HostIface, ok \in BOOLEAN :
          /\ IF podIPs[p] # {}
                THEN ok = DescribesExisting(p, iface) /\ UNCHANGED ipamVars
                ELSE AssignDesiredIPConfigs(p, endpointStore[p] \cap SecondaryIPs, iface, ok)
          /\ init' = IF ok THEN [init EXCEPT !.todo = @ \ {p}] ELSE Boot
    BY <1>3 DEF ReconcilePod
  <2>2. endpointStore[p] \cap SecondaryIPs \in SUBSET IPs
    BY DEF SecondaryIPs
  <2>3. TablesOK'
    BY <2>1, <2>2, DesiredKeepsTables, UnchangedTables
  <2>4. init' \in FirstReconcile
    BY <2>1, <1>b DEF FirstReconcile
  <2>5. HandlersOK'
    BY <1>3, UnchangedHandlers DEF ReconcilePod
  <2> QED BY <1>3, <2>3, <2>4, <2>5, IInvPartsPrime DEF ReconcilePod
<1>4. ASSUME NEW notInUse \in SUBSET IPs, MarkExistingIPsAsPendingRelease(notInUse) PROVE IInv'
  <2>1. PICK S \in SUBSET ((notInUse \cap Existing) \ (notInUse \cap InState({"Assigned"}))) :
          ipState' = [i \in IPs |-> IF i \in S THEN "PendingRelease" ELSE ipState[i]]
    BY <1>4 DEF MarkExistingIPsAsPendingRelease
  <2>2. \A i \in S : i \in IPs /\ ipState[i] # "Assigned"
    BY DEF InState, Existing
  <2>3. TablesOK'
    <3>1. podInfo' = podInfo /\ podIPs' = podIPs
      BY <1>4 DEF MarkExistingIPsAsPendingRelease
    <3>2. ipState' \in [IPs -> IPStates] /\ podInfo' \in [IPs -> Pods \cup {NoPod}]
      BY <2>1, <3>1 DEF TablesOK, IPStates
    <3>3. \A i \in IPs : \/ ipState'[i] = ipState[i] /\ podInfo'[i] = podInfo[i]
                         \/ /\ ipState[i] # "Assigned" /\ ipState'[i] # "Assigned"
                            /\ podInfo'[i] \in {NoPod, podInfo[i]}
      BY <2>1, <2>2, <3>1
    <3> QED BY <3>1, <3>2, <3>3, MoveKeepsTables
  <2>4. init' \in FirstReconcile
    BY <1>4 DEF MarkExistingIPsAsPendingRelease, Boot, FirstReconcile
  <2>5. HandlersOK'
    BY <1>4, UnchangedHandlers DEF MarkExistingIPsAsPendingRelease
  <2> QED BY <1>4, <2>3, <2>4, <2>5, IInvPartsPrime DEF MarkExistingIPsAsPendingRelease
<1> QED BY <1>1, <1>2, <1>3, <1>4 DEF Start

\* The report of an interface touches the endpoint records only.
LEMMA EndpointAPIKeepsIInv == ASSUME IInv, EndpointAPI PROVE IInv'
<1> USE IInvParts
<1>1. PICK p \in Pods : UpdateEndpointHelper(p)
  BY DEF EndpointAPI
<1>2. TablesOK' /\ HandlersOK'
  BY <1>1, UnchangedTables, UnchangedHandlers DEF UpdateEndpointHelper, ipamVars
<1>3. endpoint' \in [Pods -> SUBSET IPs] /\ endpointStore' \in [Pods -> SUBSET IPs]
  BY <1>1 DEF UpdateEndpointHelper
<1> QED BY <1>1, <1>2, <1>3, IInvPartsPrime DEF UpdateEndpointHelper

\* Every step keeps the invariant.
LEMMA NextKeepsIInv == IInv /\ [Next]_vars => IInv'
<1> SUFFICES ASSUME IInv, [Next]_vars PROVE IInv'
  OBVIOUS
<1>1. CASE Next
  BY <1>1, RequestKeepsIInv, ReleaseKeepsIInv, EndpointAPIKeepsIInv, ControllersKeepIInv,
     StartKeepsIInv DEF Next
<1>2. CASE UNCHANGED vars
  BY <1>2 DEF vars, IInv, TypeOK, ThreadsHavePod, IndexSound
<1> QED BY <1>1, <1>2

\* The invariant holds in every behaviour of the service.
THEOREM InductiveInvariant == Spec => []IInv
  BY IInvInit, NextKeepsIInv, PTL DEF Spec

\* The state of the service is well typed in every behaviour.
THEOREM TypeCorrect == Spec => []TypeOK
<1>1. IInv => TypeOK
  BY DEF IInv
<1> QED BY <1>1, InductiveInvariant, PTL

\* No IP is ever handed to two pods: whatever handlers, updates, releases,
\* failures and restarts interleave, each IP of a pod's index entry is Assigned
\* to that pod, and an IP has an owner exactly when it is Assigned
\* (assignIPConfig, unassignIPConfig, releaseIPConfigs).
THEOREM NoSharedIP == Spec => []IndexSound
<1>1. IInv => IndexSound
  BY DEF IInv
<1> QED BY <1>1, InductiveInvariant, PTL

-----------------------------------------------------------------------------
(* The life of an IP *)

\* What IPLifecycle says of one step.
LegalStep ==
    \A i \in IPs : ipState'[i] # ipState[i] =>
        /\ <<ipState[i], ipState'[i]>> \in LegalTransitions
        /\ ipState[i] = "Assigned" => FreedByOwner(i)

\* AssignDesiredIPConfigs takes only IPs that are free and not given back.
LEMMA DesiredIsLegal ==
    ASSUME TablesOK, NEW p \in Pods, NEW D \in SUBSET IPs, NEW iface, NEW ok,
           AssignDesiredIPConfigs(p, D, iface, ok)
    PROVE  LegalStep
<1> DEFINE new == D \ InState({"Assigned"})
<1>1. CASE UNCHANGED ipamVars
  BY <1>1 DEF LegalStep, ipamVars
<1>2. CASE ~DesiredRefused(p, D, iface)
  <2>1. new \in SUBSET IPs /\ \A i \in new : ipState[i] \in {"PendingProgramming", "Available"}
    BY <1>2 DEF DesiredRefused, InState, TablesOK, IPStates
  <2>2. \E to \in {"Assigned", "Available"} :
           ipState' = [i \in IPs |-> IF i \in new THEN to ELSE ipState[i]]
    BY <1>2 DEF AssignDesiredIPConfigs, assignIPConfig, unassignIPConfig, updateIPConfigState
  <2> HIDE DEF new
  <2> QED BY <2>1, <2>2 DEF LegalStep, LegalTransitions
<1> QED BY <1>1, <1>2 DEF AssignDesiredIPConfigs

\* Every step other than a restart moves each IP along its life cycle.
LEMMA NextIsLegal == ASSUME IInv, Next PROVE Restart \/ LegalStep
<1> USE IInvParts
<1>1. CASE Request
  <2>0. PICK t \in Threads :
          \/ UNCHANGED ipState
          \/ AssignAvailableIPConfigs(t)
          \/ RequestDesiredIPConfigs(t)
    BY <1>1 DEF Request, GetExistingIPConfig, CountNCs, GetIPFamilyCount, getIPFamiliesMap,
                updateEndpointState, updateEndpointStateFails
  <2>1. CASE UNCHANGED ipState
    BY <2>1 DEF LegalStep
  <2>2. CASE AssignAvailableIPConfigs(t)
    <3>1. PICK S \in SUBSET InState({"Available"}) :
             \/ UNCHANGED ipState
             \/ \E to \in {"Assigned", "Available"} :
                   ipState' = [i \in IPs |-> IF i \in S THEN to ELSE ipState[i]]
      <4>1. PICK S \in CollectedIPs(thr[t].n) :
               \/ UNCHANGED ipState
               \/ \E i \in S : updateIPConfigState({i}, "Assigned", thr[t].pod)
               \/ updateIPConfigState(S, "Assigned", thr[t].pod)
               \/ updateIPConfigState(S, "Available", NoPod)
        BY <2>2 DEF AssignAvailableIPConfigs, assignIPConfig, unassignIPConfig, ipamVars
      <4>2. S \in SUBSET InState({"Available"})
        BY <4>1 DEF CollectedIPs
      <4>3. ASSUME NEW i \in S, updateIPConfigState({i}, "Assigned", thr[t].pod)
            PROVE  /\ {i} \in SUBSET InState({"Available"})
                   /\ ipState' = [j \in IPs |-> IF j \in {i} THEN "Assigned" ELSE ipState[j]]
        BY <4>2, <4>3 DEF updateIPConfigState
      <4>4. ASSUME NEW to, NEW q, updateIPConfigState(S, to, q)
            PROVE  ipState' = [j \in IPs |-> IF j \in S THEN to ELSE ipState[j]]
        BY <4>4 DEF updateIPConfigState
      <4> QED BY <4>1, <4>2, <4>3, <4>4
    <3>2. \A i \in S : ipState[i] = "Available"
      BY DEF InState
    <3> QED BY <3>1, <3>2 DEF LegalStep, LegalTransitions
  <2>3. CASE RequestDesiredIPConfigs(t)
    <3>1. thr[t].pod \in Pods
      BY <2>3 DEF RequestDesiredIPConfigs, At, HandlersOK, ThreadsHavePod
    <3>2. \A D \in DesiredSets : D \in SUBSET IPs
      BY ConstantsAssumption
    <3> QED BY <2>3, <3>1, <3>2, DesiredIsLegal DEF RequestDesiredIPConfigs
  <2> QED BY <2>0, <2>1, <2>2, <2>3
<1>2. CASE Release
  <2>0. PICK t \in Threads : UNCHANGED ipState \/ releaseIPConfigs(t)
    BY <1>2 DEF Release, removeEndpointState
  <2>1. CASE UNCHANGED ipState
    BY <2>1 DEF LegalStep
  <2>2. CASE releaseIPConfigs(t)
    <3> DEFINE p == thr[t].pod
    <3>1. p \in Pods /\ thr[t].pc = "release"
      BY <2>2 DEF releaseIPConfigs, At, HandlersOK, ThreadsHavePod
    <3>2. \A i \in podIPs[p] : ipState[i] = "Assigned" /\ podInfo[i] = p
      BY <3>1 DEF TablesOK, IndexSound
    <3>3. \/ UNCHANGED ipState
          \/ ipState' = [i \in IPs |-> IF i \in podIPs[p] THEN "Available" ELSE ipState[i]]
      BY <2>2 DEF releaseIPConfigs, unassignIPConfig, updateIPConfigState, ipamVars
    <3>4. \A i \in podIPs[p] : FreedByOwner(i)
      BY <3>1, <3>2 DEF FreedByOwner
    <3> HIDE DEF p
    <3> QED BY <3>2, <3>3, <3>4 DEF LegalStep, LegalTransitions
  <2> QED BY <2>0, <2>1, <2>2
<1>3. CASE Controllers
  <2>1. ASSUME NEW nc \in NCs, NEW S \in SUBSET IPs, NEW v \in Versions,
               CreateOrUpdateNetworkContainer(nc, S, v)
        PROVE  LegalStep
    <3> DEFINE deleted == (SecondaryIPs \cap IPsOf(nc)) \ S
               added == S \ Existing
    <3>1. CASE UNCHANGED ipState
      BY <3>1 DEF LegalStep
    <3>2. CASE deleted \cap InState({"Assigned"}) = {}
      <4>1. \A i \in IPs :
               \/ i \in deleted /\ ipState'[i] = "None"
               \/ i \in added /\ ipState'[i] \in {"PendingProgramming", "Available"}
               \/ ipState'[i] = ipState[i]
        BY <2>1, <3>2 DEF CreateOrUpdateNetworkContainer
      <4>2. \A i \in deleted : ipState[i] \in IPStates \ {"Assigned"}
        BY <3>2 DEF InState, SecondaryIPs, TablesOK
      <4>3. \A i \in added : ipState[i] = "None"
        BY DEF Existing, InState, TablesOK
      <4> HIDE DEF deleted, added
      <4> QED BY <4>1, <4>2, <4>3 DEF LegalStep, LegalTransitions, IPStates
    <3> QED BY <2>1, <3>1, <3>2 DEF CreateOrUpdateNetworkContainer
  <2>2. ASSUME NEW valid, MustEnsureNoStaleNCs(valid) PROVE LegalStep
    BY <2>2 DEF MustEnsureNoStaleNCs, LegalStep
  <2>3. ASSUME NEW reported, SyncHostNCVersion(reported) PROVE LegalStep
    <3>1. PICK S \in SUBSET InState({"PendingProgramming"}) :
             ipState' = [i \in IPs |-> IF i \in S THEN "Available" ELSE ipState[i]]
      BY <2>3 DEF SyncHostNCVersion, MarkIpsAsAvailable, updateIPConfigState
    <3>2. \A i \in S : ipState[i] = "PendingProgramming"
      BY DEF InState
    <3> QED BY <3>1, <3>2 DEF LegalStep, LegalTransitions
  <2>4. ASSUME NEW n, MarkIPAsPendingRelease(n) \/ MarkNIPsPendingRelease(n) PROVE LegalStep
    <3>1. PICK S \in SUBSET InState({"PendingProgramming", "Available"}) :
             ipState' = [i \in IPs |-> IF i \in S THEN "PendingRelease" ELSE ipState[i]]
      BY <2>4 DEF MarkIPAsPendingRelease, MarkNIPsPendingRelease, ReleaseCandidates,
                  MarkPendingRelease
    <3>2. \A i \in S : ipState[i] \in {"PendingProgramming", "Available"}
      BY DEF InState
    <3> QED BY <3>1, <3>2 DEF LegalStep, LegalTransitions
  <2> QED BY <1>3, <2>1, <2>2, <2>3, <2>4 DEF Controllers
<1>4. CASE Start
  <2>1. CASE PodInfoByIP \/ ReconcileIPAssignment
    BY <2>1 DEF PodInfoByIP, ReconcileIPAssignment, LegalStep
  <2>2. ASSUME NEW p \in Pods, ReconcilePod(p) PROVE LegalStep
    <3>1. endpointStore[p] \cap SecondaryIPs \in SUBSET IPs
      BY DEF SecondaryIPs
    <3>2. CASE UNCHANGED ipamVars
      BY <3>2 DEF ipamVars, LegalStep
    <3> QED BY <2>2, <3>1, <3>2, DesiredIsLegal DEF ReconcilePod
  <2>3. ASSUME NEW notInUse, MarkExistingIPsAsPendingRelease(notInUse) PROVE LegalStep
    <3>1. PICK S \in SUBSET (Existing \ InState({"Assigned"})) :
             ipState' = [i \in IPs |-> IF i \in S THEN "PendingRelease" ELSE ipState[i]]
      BY <2>3 DEF MarkExistingIPsAsPendingRelease
    <3>2. \A i \in S : ipState[i] \in {"PendingProgramming", "Available", "PendingRelease"}
      BY DEF InState, Existing, IPStates, TablesOK
    <3> QED BY <3>1, <3>2 DEF LegalStep, LegalTransitions
  <2> QED BY <1>4, <2>1, <2>2, <2>3 DEF Start
<1>5. CASE EndpointAPI
  BY <1>5 DEF EndpointAPI, UpdateEndpointHelper, LegalStep
<1> QED BY <1>1, <1>2, <1>3, <1>4, <1>5 DEF Next

\* Within one run of the process no step uses an IP that was marked for release,
\* deletes or gives back an Assigned one, or frees one for anybody but its
\* owner's release.
THEOREM LifecycleHolds == Spec => IPLifecycle
<1>1. IInv /\ [Next]_vars =>
        [\/ Restart
         \/ \A i \in IPs : ipState'[i] # ipState[i] =>
               /\ <<ipState[i], ipState'[i]>> \in LegalTransitions
               /\ ipState[i] = "Assigned" => FreedByOwner(i)]_vars
  BY NextIsLegal DEF LegalStep
<1> QED BY <1>1, InductiveInvariant, PTL DEF Spec, IPLifecycle

-----------------------------------------------------------------------------
(***************************************************************************)
(* What holds when the container runtime never overlaps two calls of one   *)
(* pod (SerialPerPod).  IndexComplete is not inductive alone: the rollback *)
(* of a failed assignment deletes the pod's whole index entry, which       *)
(* strands nothing only because a handler that is about to assign has      *)
(* found that entry empty and nobody has filled it since.                  *)
(***************************************************************************)

\* No handler runs before the first reconcile is done.
Quiet == ~Serving => \A t \in Threads : thr[t] = Idle

\* A handler has a pod only while it runs.
IdleHasNoPod == \A t \in Threads : thr[t].pc = "idle" => thr[t].pod = NoPod

\* No two running handlers work for one pod.
OnePerPod ==
    \A t, u \in Threads :
        t # u /\ thr[t].pc # "idle" /\ thr[u].pc # "idle" => thr[t].pod # thr[u].pod

HandlersSerial == Quiet /\ IdleHasNoPod /\ OnePerPod

\* A handler that has found its pod's index entry empty still does.
ReadingAt(t) == thr[t].pc \in {"read", "ncs", "count", "assign"} => podIPs[thr[t].pod] = {}

\* AnswerStillHeld of one handler.
HeldAt(t) ==
    thr[t].pc = "endpoint" =>
        \A i \in thr[t].ips : i \in podIPs[thr[t].pod] /\ NCOf[i] \in cs.ncs

HandlerFacts == \A t \in Threads : ReadingAt(t) /\ HeldAt(t)

\* The inductive invariant.
SInv == IInv /\ HandlersSerial /\ HandlerFacts /\ IndexComplete

\* No handler other than t works for p.
Alone(t, p) == \A u \in Threads \ {t} : thr[u].pod # p

-----------------------------------------------------------------------------
(* The index *)

\* An assignment extends the index by what it assigns.
LEMMA AssignKeepsComplete ==
    ASSUME TablesOK, IndexComplete, NEW p \in Pods, NEW S \in SUBSET IPs, assignIPConfig(S, p)
    PROVE  IndexComplete'
  BY DEF TablesOK, IndexComplete, assignIPConfig, updateIPConfigState

\* Freeing all IPs of a pod's index entry strands none.
LEMMA UnassignKeepsComplete ==
    ASSUME TablesOK, IndexComplete, NEW p \in Pods, NEW S \in SUBSET IPs, podIPs[p] \subseteq S,
           unassignIPConfig(S, p)
    PROVE  IndexComplete'
<1> SUFFICES ASSUME NEW i \in IPs, ipState'[i] = "Assigned"
             PROVE  \E q \in Pods : podInfo'[i] = q /\ i \in podIPs'[q]
  BY DEF IndexComplete
<1>1. i \notin S /\ ipState[i] = "Assigned" /\ podInfo'[i] = podInfo[i]
  BY DEF unassignIPConfig, updateIPConfigState
<1>2. PICK q \in Pods : podInfo[i] = q /\ i \in podIPs[q]
  BY <1>1 DEF IndexComplete
<1>3. q # p
  BY <1>1, <1>2
<1> QED BY <1>1, <1>2, <1>3 DEF unassignIPConfig, TablesOK

\* A step that assigns nothing and frees nothing.
LEMMA MoveKeepsComplete ==
    ASSUME IndexComplete, podIPs' = podIPs,
           \A i \in IPs : ipState'[i] = "Assigned" =>
               ipState[i] = "Assigned" /\ podInfo'[i] = podInfo[i]
    PROVE  IndexComplete'
  BY DEF IndexComplete

\* AssignDesiredIPConfigs for a pod without IPs keeps the index complete, and
\* when it succeeds the pod holds every IP it asked for.
LEMMA DesiredKeepsComplete ==
    ASSUME TablesOK, IndexComplete, NEW p \in Pods, podIPs[p] = {}, NEW D \in SUBSET IPs,
           NEW iface, NEW ok \in BOOLEAN, AssignDesiredIPConfigs(p, D, iface, ok)
    PROVE  /\ IndexComplete'
           /\ \A q \in Pods \ {p} : podIPs'[q] = podIPs[q]
           /\ ok => \A i \in D : i \in podIPs'[p] /\ NCOf[i] \in cs.ncs
<1> DEFINE new == D \ InState({"Assigned"})
<1>1. new \in SUBSET IPs
  OBVIOUS
<1>2. CASE ok = FALSE /\ UNCHANGED ipamVars
  BY <1>2, MoveKeepsComplete DEF ipamVars
<1>3. CASE ~DesiredRefused(p, D, iface) /\ ok = Populates(new, iface) /\ ~ok /\ unassignIPConfig(new, p)
  <2>1. IndexComplete'
    BY <1>1, <1>3, UnassignKeepsComplete
  <2> QED BY <1>3, <2>1 DEF unassignIPConfig, TablesOK
<1>4. CASE ~DesiredRefused(p, D, iface) /\ ok = Populates(new, iface) /\ ok /\ assignIPConfig(new, p)
  <2>1. IndexComplete'
    BY <1>1, <1>4, AssignKeepsComplete
  <2>2. ASSUME NEW i \in D PROVE i \in podIPs'[p] /\ NCOf[i] \in cs.ncs
    <3>1. CASE i \in new
      BY <1>4, <3>1 DEF Populates, assignIPConfig, TablesOK
    <3>2. CASE i \notin new
      <4>1. i \in IPs /\ i \in D \cap InState({"Assigned"}) /\ ipState[i] = "Assigned"
        BY <3>2 DEF InState
      <4>2. podInfo[i] = p /\ Populates(D \cap InState({"Assigned"}), iface)
        BY <1>4, <4>1 DEF DesiredRefused
      <4> QED BY <4>1, <4>2 DEF IndexComplete
    <3> QED BY <3>1, <3>2
  <2>3. \A q \in Pods \ {p} : podIPs'[q] = podIPs[q]
    BY <1>4 DEF assignIPConfig, TablesOK
  <2> QED BY <2>1, <2>2, <2>3
<1> QED BY <1>2, <1>3, <1>4 DEF AssignDesiredIPConfigs

-----------------------------------------------------------------------------
(* The handlers *)

\* A running handler is alone with its pod.
LEMMA RunningIsAlone ==
    ASSUME SInv, NEW t \in Threads, thr[t].pc # "idle"
    PROVE  thr[t].pod \in Pods /\ Alone(t, thr[t].pod)
<1>1. thr[t].pod \in Pods
  BY DEF SInv, IInv, ThreadsHavePod
<1>2. ASSUME NEW u \in Threads \ {t} PROVE thr[u].pod # thr[t].pod
  <2>1. CASE thr[u].pc = "idle"
    BY <1>1, <2>1, ConstantsAssumption DEF SInv, HandlersSerial, IdleHasNoPod
  <2>2. CASE thr[u].pc # "idle"
    BY <2>2 DEF SInv, HandlersSerial, OnePerPod
  <2> QED BY <2>1, <2>2
<1> QED BY <1>1, <1>2 DEF Alone

\* A handler that starts under SerialPerPod is alone with its pod.
LEMMA StartingIsAlone ==
    ASSUME SerialPerPod, NEW t \in Threads, NEW p \in Pods, MayStart(t, p)
    PROVE  Alone(t, p)
  BY DEF MayStart, Alone

\* A handler that is alone with its pod may be put anywhere.
LEMMA PutKeepsSerial ==
    ASSUME SInv, Serving, init' = init, NEW t \in Threads, NEW p \in Pods, Alone(t, p),
           NEW hd, hd = Idle \/ (hd.pod = p /\ hd.pc # "idle"), thr' = [thr EXCEPT ![t] = hd]
    PROVE  HandlersSerial'
<1>0. thr'[t] = hd /\ \A u \in Threads \ {t} : thr'[u] = thr[u]
  BY DEF SInv, IInv, TypeOK
<1>1. Quiet'
  BY DEF Quiet, Serving
<1>2. IdleHasNoPod'
  BY <1>0 DEF IdleHasNoPod, Idle, SInv, HandlersSerial
<1>3. OnePerPod'
  <2> SUFFICES ASSUME NEW a \in Threads, NEW b \in Threads, a # b,
                      thr'[a].pc # "idle", thr'[b].pc # "idle"
               PROVE  thr'[a].pod # thr'[b].pod
    BY DEF OnePerPod
  <2>1. CASE a = t
    BY <1>0, <2>1 DEF Alone, Idle
  <2>2. CASE b = t
    BY <1>0, <2>2 DEF Alone, Idle
  <2>3. CASE a # t /\ b # t
    BY <1>0, <2>3 DEF SInv, HandlersSerial, OnePerPod
  <2> QED BY <2>1, <2>2, <2>3
<1> QED BY <1>1, <1>2, <1>3 DEF HandlersSerial

\* A step for pod p that leaves the other pods' index entries alone does not
\* disturb the handlers of other pods.
LEMMA PutKeepsFacts ==
    ASSUME SInv, cs' = cs, NEW t \in Threads, NEW p \in Pods, Alone(t, p),
           \A q \in Pods \ {p} : podIPs'[q] = podIPs[q],
           NEW hd, thr' = [thr EXCEPT ![t] = hd], ReadingAt(t)', HeldAt(t)'
    PROVE  HandlerFacts'
<1> SUFFICES ASSUME NEW u \in Threads \ {t} PROVE ReadingAt(u)' /\ HeldAt(u)'
  BY DEF HandlerFacts
<1>1. thr'[u] = thr[u]
  BY DEF SInv, IInv, TypeOK
<1>2. thr[u].pc # "idle" => podIPs'[thr[u].pod] = podIPs[thr[u].pod]
  BY DEF SInv, IInv, ThreadsHavePod, Alone
<1> QED BY <1>1, <1>2 DEF SInv, HandlerFacts, ReadingAt, HeldAt

\* A step of the controllers leaves handlers and index alone; the IPs that the
\* handlers are about to return must keep their NCs.
LEMMA ControllerKeepsFacts ==
    ASSUME SInv, thr' = thr, podIPs' = podIPs,
           \A i \in IPs : ipState[i] = "Assigned" /\ NCOf[i] \in cs.ncs => NCOf[i] \in cs'.ncs
    PROVE  HandlerFacts'
<1> SUFFICES ASSUME NEW t \in Threads PROVE ReadingAt(t)' /\ HeldAt(t)'
  BY DEF HandlerFacts
<1>1. ReadingAt(t) /\ HeldAt(t)
  BY DEF SInv, HandlerFacts
<1>2. ReadingAt(t)'
  BY <1>1 DEF ReadingAt
<1>3. HeldAt(t)'
  <2> SUFFICES ASSUME thr[t].pc = "endpoint", NEW i \in thr[t].ips
               PROVE  i \in podIPs[thr[t].pod] /\ NCOf[i] \in cs'.ncs
    BY DEF HeldAt
  <2>1. thr[t].pod \in Pods /\ thr[t].ips \subseteq IPs
    BY DEF SInv, IInv, ThreadsHavePod, TypeOK, Thread
  <2>2. i \in podIPs[thr[t].pod] /\ NCOf[i] \in cs.ncs
    BY <1>1 DEF HeldAt
  <2>3. ipState[i] = "Assigned"
    BY <2>1, <2>2 DEF SInv, IInv, IndexSound
  <2> QED BY <2>1, <2>2, <2>3
<1> QED BY <1>2, <1>3

\* Nothing about handlers and index changes when their variables do not.
LEMMA UnchangedKeepsSerial ==
    ASSUME SInv, UNCHANGED <<ipState, podInfo, podIPs, cs, thr, init>>
    PROVE  HandlersSerial' /\ HandlerFacts' /\ IndexComplete'
  BY DEF SInv, HandlersSerial, Quiet, Serving, IdleHasNoPod, OnePerPod, HandlerFacts, ReadingAt,
         HeldAt, IndexComplete

-----------------------------------------------------------------------------
(* The steps *)

\* A request keeps the index complete.
LEMMA RequestKeepsSerial ==
    ASSUME SerialPerPod, SInv, Request
    PROVE  HandlersSerial' /\ HandlerFacts' /\ IndexComplete'
<1> USE DEF At
<1>a. TablesOK /\ HandlersOK
  BY IInvParts DEF SInv
<1>0. PICK t \in Threads :
        \/ \E p \in Pods : GetExistingIPConfig(t, p)
        \/ CountNCs(t)
        \/ GetIPFamilyCount(t)
        \/ getIPFamiliesMap(t)
        \/ AssignAvailableIPConfigs(t)
        \/ RequestDesiredIPConfigs(t)
        \/ updateEndpointState(t)
        \/ updateEndpointStateFails(t)
  BY DEF Request
<1>p. thr[t] \in Thread /\ (\A hd : thr' = [thr EXCEPT ![t] = hd] => thr'[t] = hd)
  BY <1>a DEF HandlersOK
<1>r. thr[t].pc \in {"read", "ncs", "count", "assign"} => podIPs[thr[t].pod] = {}
  BY DEF SInv, HandlerFacts, ReadingAt
<1>1. ASSUME NEW p \in Pods, GetExistingIPConfig(t, p)
      PROVE  HandlersSerial' /\ HandlerFacts' /\ IndexComplete'
  <2> DEFINE fresh == [Idle EXCEPT !.pc = "read", !.pod = p]
             known == [Idle EXCEPT !.pc = "endpoint", !.pod = p, !.ips = podIPs[p]]
  <2>1. Alone(t, p) /\ Serving
    BY <1>1, StartingIsAlone DEF GetExistingIPConfig, MayStart
  <2>2. PICK hd \in {fresh, known} :
           /\ thr' = [thr EXCEPT ![t] = hd]
           /\ hd = fresh => podIPs[p] = {}
           /\ hd = known => \A i \in podIPs[p] : NCOf[i] \in cs.ncs
    <3>1. CASE podIPs[p] = {}
      BY <1>1, <3>1 DEF GetExistingIPConfig
    <3>2. CASE podIPs[p] # {}
      <4>1. thr' = [thr EXCEPT ![t] = known] /\ \A i \in podIPs[p] : NCOf[i] \in cs.ncs
        BY <1>1, <3>2 DEF GetExistingIPConfig, DescribesExisting, Populates
      <4>2. fresh # known
        BY DEF Idle
      <4> QED BY <4>1, <4>2
    <3> QED BY <3>1, <3>2
  <2>3. hd.pod = p /\ hd.pc # "idle"
    BY DEF Idle
  <2>4. UNCHANGED <<ipState, podInfo, podIPs, cs, init>>
    BY <1>1 DEF GetExistingIPConfig
  <2>5. ReadingAt(t)' /\ HeldAt(t)'
    <3>1. thr'[t] = hd
      BY <1>p, <2>2
    <3>0. /\ fresh.pc = "read" /\ fresh.pod = p
          /\ known.pc = "endpoint" /\ known.pod = p /\ known.ips = podIPs[p]
      BY DEF Idle
    <3> HIDE DEF fresh, known
    <3>2. CASE hd = fresh
      BY <2>2, <2>4, <3>0, <3>1, <3>2 DEF ReadingAt, HeldAt
    <3>3. CASE hd = known
      BY <2>2, <2>4, <3>0, <3>1, <3>3 DEF ReadingAt, HeldAt
    <3> QED BY <2>2, <3>2, <3>3
  <2> HIDE DEF fresh, known
  <2>6. HandlersSerial'
    BY <2>1, <2>2, <2>3, <2>4, PutKeepsSerial
  <2>7. HandlerFacts'
    BY <2>1, <2>2, <2>4, <2>5, PutKeepsFacts
  <2> QED BY <2>4, <2>6, <2>7, MoveKeepsComplete DEF SInv
<1>2. ASSUME thr[t].pc # "idle", Serving, init' = init, cs' = cs, IndexComplete',
             \A q \in Pods \ {thr[t].pod} : podIPs'[q] = podIPs[q],
             NEW hd, hd = Idle \/ (hd.pod = thr[t].pod /\ hd.pc # "idle"),
             thr' = [thr EXCEPT ![t] = hd], ReadingAt(t)', HeldAt(t)'
      PROVE  HandlersSerial' /\ HandlerFacts' /\ IndexComplete'
  <2>1. thr[t].pod \in Pods /\ Alone(t, thr[t].pod)
    BY <1>2, RunningIsAlone
  <2> QED BY <1>2, <2>1, PutKeepsSerial, PutKeepsFacts
<1>3. ASSUME thr[t].pc # "idle", Finish(t), Serving, init' = init, cs' = cs, IndexComplete',
             \A q \in Pods \ {thr[t].pod} : podIPs'[q] = podIPs[q]
      PROVE  HandlersSerial' /\ HandlerFacts' /\ IndexComplete'
  <2>1. thr' = [thr EXCEPT ![t] = Idle] /\ thr'[t] = Idle
    BY <1>3, <1>p DEF Finish
  <2>2. ReadingAt(t)' /\ HeldAt(t)'
    BY <2>1 DEF ReadingAt, HeldAt, Idle
  <2> QED BY <1>2, <1>3, <2>1, <2>2
<1>4. ASSUME NEW pc \in {"ncs", "count", "assign", "endpoint"}, NEW S \in SUBSET IPs, NEW F, NEW n,
             thr[t].pc # "idle", Step(t, pc, S, F, n), Serving, init' = init, cs' = cs,
             IndexComplete', \A q \in Pods \ {thr[t].pod} : podIPs'[q] = podIPs[q],
             pc # "endpoint" => podIPs'[thr[t].pod] = {},
             pc = "endpoint" => \A i \in S : i \in podIPs'[thr[t].pod] /\ NCOf[i] \in cs.ncs
      PROVE  HandlersSerial' /\ HandlerFacts' /\ IndexComplete'
  <2> DEFINE hd == [pc |-> pc, pod |-> thr[t].pod, ips |-> S, fams |-> F, n |-> n]
  <2>1. thr' = [thr EXCEPT ![t] = hd] /\ thr'[t] = hd
    BY <1>4, <1>p DEF Step
  <2>2. ReadingAt(t)' /\ HeldAt(t)'
    BY <1>4, <2>1 DEF ReadingAt, HeldAt
  <2>3. hd.pod = thr[t].pod /\ hd.pc # "idle"
    OBVIOUS
  <2> HIDE DEF hd
  <2> QED BY <1>2, <1>4, <2>1, <2>2, <2>3
<1>5. CASE CountNCs(t) \/ GetIPFamilyCount(t) \/ getIPFamiliesMap(t)
  <2>1. /\ UNCHANGED <<ipState, podInfo, podIPs, cs, init>>
        /\ Serving /\ thr[t].pc \in {"read", "ncs", "count"}
    BY <1>5 DEF CountNCs, GetIPFamilyCount, getIPFamiliesMap
  <2>2. IndexComplete'
    BY <2>1, MoveKeepsComplete DEF SInv
  <2>3. \/ Finish(t)
        \/ \E pc \in {"ncs", "count", "assign"}, F \in SUBSET {"IPv4", "IPv6"}, n \in Nat :
              Step(t, pc, {}, F, n)
    <3>1. IPFamilies \in SUBSET {"IPv4", "IPv6"} /\ thr[t].n \in Nat
      BY <1>p, ConstantsAssumption DEF IPFamilies, SecondaryIPs, Thread
    <3>2. Cardinality(IPFamilies) \in Nat
      BY <3>1, FamilyCountIsNat
    <3>3. CASE CountNCs(t)
      BY <3>3 DEF CountNCs
    <3>4. CASE GetIPFamilyCount(t)
      BY <3>2, <3>4 DEF GetIPFamilyCount
    <3>5. CASE getIPFamiliesMap(t)
      BY <3>1, <3>5 DEF getIPFamiliesMap
    <3> QED BY <1>5, <3>3, <3>4, <3>5
  <2>4. CASE Finish(t)
    BY <1>3, <2>1, <2>2, <2>4
  <2>5. ASSUME NEW pc \in {"ncs", "count", "assign"}, NEW F, NEW n, Step(t, pc, {}, F, n)
        PROVE  HandlersSerial' /\ HandlerFacts' /\ IndexComplete'
    BY <1>4, <1>r, <2>1, <2>2, <2>5
  <2> QED BY <2>3, <2>4, <2>5
<1>6. CASE AssignAvailableIPConfigs(t)
  <2> DEFINE p == thr[t].pod
  <2>1. /\ UNCHANGED <<cs, init>>
        /\ Serving /\ thr[t].pc = "assign" /\ podIPs[p] = {}
    BY <1>6, <1>r DEF AssignAvailableIPConfigs
  <2>2. p \in Pods
    BY <2>1, RunningIsAlone
  <2>3. PICK S \in CollectedIPs(thr[t].n), iface \in HostIface :
              \/ UNCHANGED ipamVars /\ Finish(t)
              \/ \E i \in S : assignIPConfig({i}, p) /\ Finish(t)
              \/ /\ assignIPConfig(S, p)
                 /\ \A i \in S : NCOf[i] \in cs.ncs
                 /\ \E k \in {0, 1} : Step(t, "endpoint", S, {}, k)
              \/ unassignIPConfig(S, p) /\ Finish(t)
    BY <1>6 DEF AssignAvailableIPConfigs, Populates
  <2>4. S \in SUBSET IPs
    BY <2>3 DEF CollectedIPs, InState
  <2> HIDE DEF p
  <2>5. CASE UNCHANGED ipamVars /\ Finish(t)
    <3>1. IndexComplete'
      BY <2>5, MoveKeepsComplete DEF SInv, ipamVars
    <3> QED BY <1>3, <2>1, <2>5, <3>1 DEF ipamVars
  <2>6. ASSUME NEW T \in SUBSET IPs, assignIPConfig(T, p)
        PROVE  /\ IndexComplete'
               /\ \A q \in Pods \ {p} : podIPs'[q] = podIPs[q]
               /\ T \subseteq podIPs'[p]
    <3>1. IndexComplete'
      BY <1>a, <2>2, <2>6, AssignKeepsComplete DEF SInv
    <3> QED BY <1>a, <2>2, <2>6, <3>1 DEF TablesOK, assignIPConfig
  <2>7. ASSUME NEW i \in S, assignIPConfig({i}, p), Finish(t)
        PROVE  HandlersSerial' /\ HandlerFacts' /\ IndexComplete'
    <3>1. {i} \in SUBSET IPs
      BY <2>4
    <3> QED BY <1>3, <2>1, <2>6, <2>7, <3>1 DEF p
  <2>8. ASSUME assignIPConfig(S, p), \A i \in S : NCOf[i] \in cs.ncs, NEW k \in {0, 1},
               Step(t, "endpoint", S, {}, k)
        PROVE  HandlersSerial' /\ HandlerFacts' /\ IndexComplete'
    BY <1>4, <2>1, <2>4, <2>6, <2>8 DEF p
  <2>9. CASE unassignIPConfig(S, p) /\ Finish(t)
    <3>1. IndexComplete'
      BY <1>a, <2>1, <2>2, <2>4, <2>9, UnassignKeepsComplete DEF SInv
    <3>2. \A q \in Pods \ {p} : podIPs'[q] = podIPs[q]
      BY <1>a, <2>9 DEF TablesOK, unassignIPConfig
    <3> QED BY <1>3, <2>1, <2>9, <3>1, <3>2 DEF p
  <2> QED BY <2>3, <2>5, <2>7, <2>8, <2>9
<1>7. CASE RequestDesiredIPConfigs(t)
  <2> DEFINE p == thr[t].pod
  <2>1. /\ UNCHANGED <<cs, init>>
        /\ Serving /\ thr[t].pc = "read" /\ podIPs[p] = {}
    BY <1>7, <1>r DEF RequestDesiredIPConfigs
  <2>2. p \in Pods
    BY <2>1, RunningIsAlone
  <2>3. PICK D \in DesiredSets, iface \in HostIface, ok \in BOOLEAN :
          /\ AssignDesiredIPConfigs(p, D, iface, ok)
          /\ IF ok THEN Step(t, "endpoint", D, {}, 0) ELSE Finish(t)
    BY <1>7 DEF RequestDesiredIPConfigs
  <2>4. D \in SUBSET IPs
    BY ConstantsAssumption
  <2> HIDE DEF p
  <2>5. /\ IndexComplete'
        /\ \A q \in Pods \ {p} : podIPs'[q] = podIPs[q]
        /\ ok => \A i \in D : i \in podIPs'[p] /\ NCOf[i] \in cs.ncs
    BY <1>a, <2>1, <2>2, <2>3, <2>4, DesiredKeepsComplete DEF SInv
  <2> QED BY <1>3, <1>4, <2>1, <2>3, <2>4, <2>5 DEF p
<1>8. CASE updateEndpointState(t) \/ updateEndpointStateFails(t)
  <2>1. /\ UNCHANGED <<ipState, podInfo, podIPs, cs, init>>
        /\ Serving /\ thr[t].pc = "endpoint" /\ Finish(t)
    BY <1>8 DEF updateEndpointState, updateEndpointStateFails
  <2>2. IndexComplete'
    BY <2>1, MoveKeepsComplete DEF SInv
  <2> QED BY <1>3, <2>1, <2>2
<1> QED BY <1>0, <1>1, <1>5, <1>6, <1>7, <1>8

\* A release keeps the index complete.
LEMMA ReleaseKeepsSerial ==
    ASSUME SerialPerPod, SInv, Release
    PROVE  HandlersSerial' /\ HandlerFacts' /\ IndexComplete'
<1> USE DEF At
<1>a. TablesOK /\ HandlersOK
  BY IInvParts DEF SInv
<1>0. PICK t \in Threads : (\E p \in Pods : removeEndpointState(t, p)) \/ releaseIPConfigs(t)
  BY DEF Release
<1>p. \A hd : thr' = [thr EXCEPT ![t] = hd] => thr'[t] = hd
  BY <1>a DEF HandlersOK
<1>1. ASSUME NEW p \in Pods, removeEndpointState(t, p)
      PROVE  HandlersSerial' /\ HandlerFacts' /\ IndexComplete'
  <2> DEFINE hd == [Idle EXCEPT !.pc = "release", !.pod = p]
  <2>1. Alone(t, p) /\ Serving
    BY <1>1, StartingIsAlone DEF removeEndpointState, MayStart
  <2>2. UNCHANGED <<ipState, podInfo, podIPs, cs, init>>
    BY <1>1 DEF removeEndpointState
  <2>3. CASE UNCHANGED thr
    BY <2>2, <2>3, UnchangedKeepsSerial
  <2>4. CASE thr' = [thr EXCEPT ![t] = hd]
    <3>1. hd.pod = p /\ hd.pc = "release"
      BY DEF Idle
    <3> HIDE DEF hd
    <3>2. thr'[t] = hd
      BY <1>p, <2>4
    <3>3. ReadingAt(t)' /\ HeldAt(t)'
      BY <3>1, <3>2 DEF ReadingAt, HeldAt
    <3>4. HandlersSerial'
      BY <2>1, <2>2, <2>4, <3>1, PutKeepsSerial
    <3>5. HandlerFacts'
      BY <2>1, <2>2, <2>4, <3>3, PutKeepsFacts
    <3> QED BY <2>2, <3>4, <3>5, MoveKeepsComplete DEF SInv
  <2> QED BY <1>1, <2>3, <2>4 DEF removeEndpointState
<1>2. CASE releaseIPConfigs(t)
  <2> DEFINE p == thr[t].pod
  <2>1. /\ UNCHANGED <<cs, init>>
        /\ Serving /\ thr[t].pc = "release" /\ thr' = [thr EXCEPT ![t] = Idle]
        /\ unassignIPConfig(podIPs[p], p) \/ UNCHANGED ipamVars
    BY <1>2 DEF releaseIPConfigs, Finish
  <2>2. p \in Pods /\ Alone(t, p)
    BY <2>1, RunningIsAlone
  <2> HIDE DEF p
  <2>3. \A q \in Pods \ {p} : podIPs'[q] = podIPs[q]
    BY <1>a, <2>1 DEF TablesOK, unassignIPConfig, ipamVars
  <2>4. IndexComplete'
    <3>1. podIPs[p] \in SUBSET IPs
      BY <1>a, <2>2 DEF TablesOK
    <3>2. CASE unassignIPConfig(podIPs[p], p)
      BY <1>a, <2>2, <3>1, <3>2, UnassignKeepsComplete DEF SInv
    <3>3. CASE UNCHANGED ipamVars
      BY <3>3, MoveKeepsComplete DEF SInv, ipamVars
    <3> QED BY <2>1, <3>2, <3>3
  <2>5. ReadingAt(t)' /\ HeldAt(t)'
    BY <1>p, <2>1 DEF ReadingAt, HeldAt, Idle
  <2>6. HandlersSerial'
    BY <2>1, <2>2, PutKeepsSerial
  <2>7. HandlerFacts'
    BY <2>1, <2>2, <2>3, <2>5, PutKeepsFacts
  <2> QED BY <2>4, <2>6, <2>7
<1> QED BY <1>0, <1>1, <1>2

\* Handlers that do not move stay serial while the service goes on serving.
LEMMA StillKeepsSerial ==
    ASSUME SInv, thr' = thr, Serving => Serving'
    PROVE  HandlersSerial'
  BY DEF SInv, HandlersSerial, Quiet, IdleHasNoPod, OnePerPod

\* The calls of the controllers keep the index complete.
LEMMA ControllersKeepSerial ==
    ASSUME SInv, Controllers
    PROVE  HandlersSerial' /\ HandlerFacts' /\ IndexComplete'
<1>c. cs \in ContainerStatus
  BY IInvParts DEF SInv
<1>0. ASSUME thr' = thr, podIPs' = podIPs, Serving => Serving',
             \A i \in IPs : ipState'[i] = "Assigned" =>
                 ipState[i] = "Assigned" /\ podInfo'[i] = podInfo[i],
             \A i \in IPs : ipState[i] = "Assigned" /\ NCOf[i] \in cs.ncs => NCOf[i] \in cs'.ncs
      PROVE  HandlersSerial' /\ HandlerFacts' /\ IndexComplete'
  <2>1. HandlersSerial'
    BY <1>0, StillKeepsSerial
  <2>2. HandlerFacts'
    BY <1>0, ControllerKeepsFacts
  <2>3. IndexComplete'
    BY <1>0, MoveKeepsComplete DEF SInv
  <2> QED BY <2>1, <2>2, <2>3
<1>1. ASSUME NEW nc \in NCs, NEW S \in SUBSET IPs, NEW v \in Versions,
             CreateOrUpdateNetworkContainer(nc, S, v)
      PROVE  HandlersSerial' /\ HandlerFacts' /\ IndexComplete'
  <2> DEFINE deleted == (SecondaryIPs \cap IPsOf(nc)) \ S
             added == S \ Existing
  <2>1. thr' = thr /\ podIPs' = podIPs /\ (Serving => Serving')
    BY <1>1 DEF CreateOrUpdateNetworkContainer, Serving
  <2>2. cs'.ncs = cs.ncs \cup {nc}
    <3>1. \E w : cs' = GoalState(nc, S, v, w)
      BY <1>1 DEF CreateOrUpdateNetworkContainer
    <3> QED BY <1>c, <3>1 DEF GoalState, ContainerStatus
  <2>3. ASSUME NEW i \in IPs, ipState'[i] = "Assigned"
        PROVE  ipState[i] = "Assigned" /\ podInfo'[i] = podInfo[i]
    <3>1. CASE UNCHANGED <<ipState, podInfo>>
      BY <2>3, <3>1
    <3>2. CASE deleted \cap InState({"Assigned"}) = {}
      <4>1. \/ i \in deleted /\ ipState'[i] = "None"
            \/ i \in added /\ ipState'[i] \in {"PendingProgramming", "Available"}
            \/ /\ i \notin deleted \cup added
               /\ ipState'[i] = ipState[i] /\ podInfo'[i] = podInfo[i]
        BY <1>1, <3>2 DEF CreateOrUpdateNetworkContainer
      <4> QED BY <2>3, <4>1
    <3> QED BY <1>1, <3>1, <3>2 DEF CreateOrUpdateNetworkContainer
  <2> QED BY <1>0, <2>1, <2>2, <2>3
<1>2. ASSUME NEW valid \in SUBSET NCs, MustEnsureNoStaleNCs(valid)
      PROVE  HandlersSerial' /\ HandlerFacts' /\ IndexComplete'
  <2> DEFINE stale == cs.ncs \ valid
             inUse == {nc \in stale : IPsOf(nc) \cap InState({"Assigned"}) # {}}
  <2>1. UNCHANGED <<ipState, podInfo, podIPs, thr, init>>
    BY <1>2 DEF MustEnsureNoStaleNCs
  <2>2. PICK D \in SUBSET (stale \ inUse) : cs' = WithoutNCs(D)
    <3>1. CASE inUse = {}
      BY <1>2, <3>1 DEF MustEnsureNoStaleNCs
    <3>2. CASE inUse # {}
      BY <1>2, <3>2 DEF MustEnsureNoStaleNCs
    <3> QED BY <3>1, <3>2
  <2>3. cs'.ncs = cs.ncs \ D
    BY <2>2 DEF WithoutNCs
  <2>4. \A i \in IPs : ipState[i] = "Assigned" => NCOf[i] \notin D
    BY <2>2 DEF IPsOf, InState
  <2> QED BY <1>0, <2>1, <2>3, <2>4 DEF Serving
<1>3. ASSUME NEW reported, SyncHostNCVersion(reported)
      PROVE  HandlersSerial' /\ HandlerFacts' /\ IndexComplete'
  <2>1. UNCHANGED <<podIPs, thr, init>> /\ cs'.ncs = cs.ncs
    BY <1>3, <1>c DEF SyncHostNCVersion, ContainerStatus
  <2>2. PICK S : updateIPConfigState(S, "Available", NoPod)
    BY <1>3 DEF SyncHostNCVersion
  <2>3. \A i \in IPs : ipState'[i] = "Assigned" =>
           ipState[i] = "Assigned" /\ podInfo'[i] = podInfo[i]
    BY <2>2 DEF updateIPConfigState
  <2> QED BY <1>0, <2>1, <2>3 DEF Serving
<1>4. ASSUME NEW n, MarkIPAsPendingRelease(n) \/ MarkNIPsPendingRelease(n)
      PROVE  HandlersSerial' /\ HandlerFacts' /\ IndexComplete'
  <2>1. PICK S : MarkPendingRelease(S)
    BY <1>4 DEF MarkIPAsPendingRelease, MarkNIPsPendingRelease
  <2>2. /\ UNCHANGED <<podInfo, podIPs, cs, thr, init>>
        /\ \A i \in IPs : ipState'[i] = "Assigned" => ipState[i] = "Assigned"
    BY <2>1 DEF MarkPendingRelease
  <2> QED BY <1>0, <2>2 DEF Serving
<1> QED BY <1>1, <1>2, <1>3, <1>4 DEF Controllers

\* A handler that does not run has nothing to lose.
LEMMA IdleKeepsSerial ==
    ASSUME \A t \in Threads : thr'[t] = Idle
    PROVE  HandlersSerial' /\ HandlerFacts'
  BY DEF HandlersSerial, Quiet, IdleHasNoPod, OnePerPod, HandlerFacts, ReadingAt, HeldAt, Idle

\* The steps of a new process keep the index complete.
LEMMA StartKeepsSerial ==
    ASSUME SInv, Start
    PROVE  HandlersSerial' /\ HandlerFacts' /\ IndexComplete'
<1>a. TablesOK /\ endpointStore \in [Pods -> SUBSET IPs]
  BY IInvParts DEF SInv
<1>q. ~Serving => \A t \in Threads : thr[t] = Idle
  BY DEF SInv, HandlersSerial, Quiet
<1>1. CASE Restart
  <2>1. \A t \in Threads : thr'[t] = Idle
    BY <1>1 DEF Restart
  <2>2. IndexComplete'
    BY <1>1 DEF Restart, IndexComplete
  <2> QED BY <2>1, <2>2, IdleKeepsSerial
<1>2. CASE PodInfoByIP \/ ReconcileIPAssignment
  <2>1. UNCHANGED <<ipState, podInfo, podIPs, thr>> /\ ~Serving
    BY <1>2 DEF PodInfoByIP, ReconcileIPAssignment, Serving
  <2> QED BY <1>q, <2>1, IdleKeepsSerial, MoveKeepsComplete DEF SInv
<1>3. ASSUME NEW p \in Pods, ReconcilePod(p)
      PROVE  HandlersSerial' /\ HandlerFacts' /\ IndexComplete'
  <2>1. thr' = thr /\ ~Serving
    BY <1>3 DEF ReconcilePod, Serving
  <2>2. PICK iface \in HostIface, ok \in BOOLEAN :
          \/ UNCHANGED ipamVars
          \/ /\ podIPs[p] = {}
             /\ AssignDesiredIPConfigs(p, endpointStore[p] \cap SecondaryIPs, iface, ok)
    BY <1>3 DEF ReconcilePod
  <2>3. endpointStore[p] \cap SecondaryIPs \in SUBSET IPs
    BY <1>a
  <2>4. IndexComplete'
    <3>1. CASE UNCHANGED ipamVars
      BY <3>1, MoveKeepsComplete DEF SInv, ipamVars
    <3>2. CASE podIPs[p] = {}
               /\ AssignDesiredIPConfigs(p, endpointStore[p] \cap SecondaryIPs, iface, ok)
      BY <1>a, <2>3, <3>2, DesiredKeepsComplete DEF SInv
    <3> QED BY <2>2, <3>1, <3>2
  <2> QED BY <1>q, <2>1, <2>4, IdleKeepsSerial
<1>4. ASSUME NEW notInUse, MarkExistingIPsAsPendingRelease(notInUse)
      PROVE  HandlersSerial' /\ HandlerFacts' /\ IndexComplete'
  <2>1. UNCHANGED <<podInfo, podIPs, thr>> /\ ~Serving
    BY <1>4 DEF MarkExistingIPsAsPendingRelease, Serving
  <2>2. \A i \in IPs : ipState'[i] = "Assigned" => ipState[i] = "Assigned"
    BY <1>4 DEF MarkExistingIPsAsPendingRelease
  <2> QED BY <1>q, <2>1, <2>2, IdleKeepsSerial, MoveKeepsComplete DEF SInv
<1> QED BY <1>1, <1>2, <1>3, <1>4 DEF Start

-----------------------------------------------------------------------------
(* The theorems *)

\* A new service satisfies the invariant.
LEMMA SInvInit == Init => SInv
  BY IInvInit DEF Init, SInv, HandlersSerial, Quiet, IdleHasNoPod, OnePerPod, HandlerFacts,
                  ReadingAt, HeldAt, IndexComplete, Idle

\* Every step keeps it.
LEMMA NextKeepsSInv == ASSUME SerialPerPod PROVE SInv /\ [Next]_vars => SInv'
<1> SUFFICES ASSUME SInv, [Next]_vars PROVE SInv'
  OBVIOUS
<1>1. IInv'
  BY NextKeepsIInv DEF SInv
<1>2. CASE Request \/ Release \/ Controllers \/ Start
  BY <1>1, <1>2, RequestKeepsSerial, ReleaseKeepsSerial, ControllersKeepSerial, StartKeepsSerial
     DEF SInv
<1>3. CASE EndpointAPI
  BY <1>1, <1>3, UnchangedKeepsSerial DEF EndpointAPI, UpdateEndpointHelper, SInv
<1>4. CASE UNCHANGED vars
  BY <1>1, <1>4, UnchangedKeepsSerial DEF vars, SInv
<1> QED BY <1>2, <1>3, <1>4 DEF Next

\* With serial calls per pod the invariant holds in every behaviour.
THEOREM SerialInvariant == ASSUME SerialPerPod PROVE Spec => []SInv
  BY SInvInit, NextKeepsSInv, PTL DEF Spec

\* If the container runtime makes one call at a time for a pod, every Assigned
\* IP stays in the index of its pod, where the pod's release finds it, whatever
\* fails and wherever the process restarts (unassignIPConfig, ReconcileIPAssignment).
THEOREM NoStrandedIP == ASSUME SerialPerPod PROVE Spec => []IndexComplete
<1>1. SInv => IndexComplete
  BY DEF SInv
<1> QED BY <1>1, SerialInvariant, PTL

\* If the container runtime makes one call at a time for a pod, the IPs a request
\* is about to record and return are still its pod's and of known NCs, whatever
\* ran since the request gave up the lock (AssignAvailableIPConfigs,
\* updateEndpointState, MustEnsureNoStaleNCs).
THEOREM AnswersHeld == ASSUME SerialPerPod PROVE Spec => []AnswerStillHeld
<1>1. SInv => AnswerStillHeld
  BY DEF SInv, HandlerFacts, HeldAt, AnswerStillHeld
<1> QED BY <1>1, SerialInvariant, PTL

-----------------------------------------------------------------------------
(* CNS on its node: what it rests on, and its invariant *)

\* All IPs of one family come from one NC: else a pod with an IP of each of two
\* NCs has two of a family and newPodKeyToPodIPsMap refuses the endpoint file.
OneNCPerFamily == \A i, j \in IPs : Family[i] = Family[j] => NCOf[i] = NCOf[j]

\* What recovery rests on: the runtime makes one call at a time for a pod, the
\* state files can be written, and no client asks for IPs by name (it could
\* take one that is not programmed yet).
Dependable ==
    SerialPerPod /\ ~WritesMayFail /\ DesiredSets = {} /\ OneNCPerFamily

NodeTypes ==
    /\ nnc \in NNC /\ view \in NNC
    /\ addedAt \in [IPs -> Versions \cup {NoVersion}]
    /\ nma \in [NCs -> Versions \cup {NoVersion}]
    /\ patch \in {<<>>} \cup {<<S>> : S \in SUBSET IPs}
    /\ restarts \in 0 .. MaxRestarts

\* DNC's books.
AllocInv ==
    \A i \in IPs : /\ i \in nnc.ips <=> addedAt[i] # NoVersion
                   /\ addedAt[i] <= nnc.version[NCOf[i]]

\* The reconciler's copy of the NNC, and what CNS has taken from it: old only
\* in IPs that are listed as unused.
ViewInv ==
    /\ nnc.ips \cap nnc.notInUse \subseteq view.ips
    /\ \A i \in view.ips \ nnc.notInUse : i \in nnc.ips /\ addedAt[i] <= view.version[NCOf[i]]
    /\ ~Serving => view.notInUse = nnc.notInUse

KnownInv ==
    /\ \A i \in nnc.notInUse \ SecondaryIPs : i \notin nnc.ips /\ i \notin view.ips
    /\ \A i \in SecondaryIPs \ nnc.notInUse :
          i \in nnc.ips /\ i \in view.ips /\ addedAt[i] <= csStore.sec[i]

\* The service state in memory is ahead of its file only in what the host has
\* reported, and the host is never ahead of NMAgent.
FileInv ==
    /\ \A i \in IPs : /\ csStore.sec[i] = NoVersion <=> cs.sec[i] = NoVersion
                      /\ csStore.sec[i] <= cs.sec[i]
    /\ \A nc \in NCs : cs.host[nc] <= nma[nc] /\ csStore.host[nc] <= nma[nc]

\* A list on its way is still right: what it adds is PendingRelease, and what it
\* drops is not known to CNS any more.
PatchInv ==
    patch # <<>> =>
        /\ Serving
        /\ \A i \in patch[1] \ nnc.notInUse : ipState[i] = "PendingRelease"
        /\ nnc.notInUse \cap SecondaryIPs \subseteq patch[1]

\* The table of IPs and ContainerStatus.
TableInv ==
    /\ Existing \subseteq SecondaryIPs
    /\ init.phase = "boot" => init.created = {}
    /\ init.phase = "create" =>
          \A i \in SecondaryIPs : NCOf[i] \in init.created => i \in Existing
    /\ init.phase \in {"assign", "serving"} => SecondaryIPs \subseteq Existing

ListedInv == Serving => \A i \in nnc.notInUse \cap SecondaryIPs : ipState[i] = "PendingRelease"

ProgrammedInv ==
    \A i \in InState({"Available", "Assigned"}) \ nnc.notInUse : addedAt[i] <= nma[NCOf[i]]

\* The endpoint records.
RecordInv ==
    /\ endpoint = endpointStore
    /\ \A p \in Pods :
          /\ granted[p] \in {{}, endpointStore[p]}
          /\ \A i \in endpointStore[p] :
                i \in SecondaryIPs /\ i \notin nnc.notInUse /\ addedAt[i] <= nma[NCOf[i]]
          /\ OneIPPerFamily(endpointStore[p]) /\ OneIPPerFamily(podIPs[p])
    /\ NoDuplicateIP(endpointStore)

\* The endpoint records and the index.
HeldInv ==
    /\ Serving => \A p \in Pods : endpointStore[p] \in {{}, podIPs[p]}
    /\ ~Serving => \A p \in Pods : podIPs[p] \in {{}, endpointStore[p]}
    /\ init.phase = "assign" => \A p \in Pods \ init.todo : podIPs[p] = endpointStore[p]
    /\ \A t \in Threads :
          /\ thr[t].pc = "release" => endpointStore[thr[t].pod] = {}
          /\ thr[t].pc = "endpoint" => thr[t].ips = podIPs[thr[t].pod]

NInv ==
    /\ SInv /\ NodeTypes
    /\ AllocInv /\ ViewInv /\ KnownInv /\ FileInv
    /\ PatchInv /\ TableInv /\ ListedInv /\ ProgrammedInv
    /\ RecordInv /\ HeldInv

-----------------------------------------------------------------------------
(* The parts of the invariant *)

\* The types the steps of the node rely on.
LEMMA NodeTypeFacts ==
    ASSUME NInv
    PROVE  /\ ipState \in [IPs -> IPStates] /\ podIPs \in [Pods -> SUBSET IPs]
           /\ endpointStore \in [Pods -> SUBSET IPs] /\ granted \in [Pods -> SUBSET IPs]
           /\ cs \in ContainerStatus /\ csStore \in ContainerStatus /\ init \in FirstReconcile
           /\ nnc.ips \in SUBSET IPs /\ nnc.notInUse \in SUBSET IPs
           /\ view.ips \in SUBSET IPs /\ view.notInUse \in SUBSET IPs
           /\ nnc.version \in [NCs -> Versions] /\ view.version \in [NCs -> Versions]
           /\ NCOf \in [IPs -> NCs]
<1>1. TypeOK /\ nnc \in NNC /\ view \in NNC
  BY DEF NInv, NodeTypes, SInv, IInv
<1> QED BY <1>1, ConstantsAssumption DEF TypeOK, NNC

\* An IP has an entry in the table unless its state is "None".
LEMMA ExistingIsNotNone ==
    ASSUME NInv
    PROVE  \A i \in IPs : i \in Existing <=> ipState[i] # "None"
  BY NodeTypeFacts DEF Existing, InState

\* Every IP that a pod has or may get is known, and so allocated unless listed.
LEMMA UsableIsKnown ==
    ASSUME NInv
    PROVE  \A i \in InState({"Available", "Assigned", "PendingRelease", "PendingProgramming"}) :
               i \in IPs /\ i \in SecondaryIPs /\ (i \notin nnc.notInUse => i \in nnc.ips)
<1>1. \A i \in InState({"Available", "Assigned", "PendingRelease", "PendingProgramming"}) : i \in IPs /\ i \in Existing
  BY ExistingIsNotNone DEF InState
<1> QED BY <1>1 DEF NInv, TableInv, KnownInv

-----------------------------------------------------------------------------
(* DNC and NMAgent *)

\* What is PendingRelease stays so: the lists stay right.
LEMMA ListsStayRight ==
    ASSUME NInv, UNCHANGED <<nnc, patch, SecondaryIPs, Serving>>,
           \A i \in IPs : ipState[i] = "PendingRelease" => ipState'[i] = "PendingRelease"
    PROVE  PatchInv' /\ ListedInv'
<1> USE NodeTypeFacts
<1>1. patch # <<>> => patch[1] \in SUBSET IPs
  <2>1. ASSUME NEW S \in SUBSET IPs, patch = <<S>> PROVE patch[1] \in SUBSET IPs
    BY <2>1
  <2> QED BY <2>1 DEF NInv, NodeTypes
<1>2. PatchInv'
  BY <1>1 DEF NInv, PatchInv
<1>3. ListedInv'
  BY DEF NInv, ListedInv
<1> QED BY <1>2, <1>3

\* A step that leaves CNS alone.
LEMMA UnchangedCNS ==
    ASSUME NInv, UNCHANGED vars
    PROVE  /\ SInv' /\ TableInv'
           /\ UNCHANGED <<SecondaryIPs, Existing, Serving>> /\ \A T : InState(T)' = InState(T)
           /\ UNCHANGED <<ipState, podIPs, csStore, cs, init, endpoint, endpointStore, thr, granted>>
<1>1. SInv'
  BY UnchangedKeepsSerial DEF NInv, SInv, IInv, TypeOK, ThreadsHavePod, IndexSound, vars
<1>2. UNCHANGED <<SecondaryIPs, Existing, Serving>> /\ \A T : InState(T)' = InState(T)
  BY DEF vars, SecondaryIPs, Existing, InState, Serving
<1>3. UNCHANGED <<ipState, podIPs, csStore, cs, init, endpoint, endpointStore, thr, granted>>
  BY DEF vars
<1>4. TableInv'
  BY <1>2, <1>3 DEF NInv, TableInv
<1> QED BY <1>1, <1>2, <1>3, <1>4

\* DNC changes only what CNS does not know or has listed as unused.
LEMMA DNCKeepsNInv ==
    ASSUME NInv, UNCHANGED <<vars, view, nma, patch, restarts>>,
           nnc' \in NNC, nnc'.notInUse = nnc.notInUse,
           addedAt' \in [IPs -> Versions \cup {NoVersion}], AllocInv',
           nnc'.ips \cap nnc.notInUse \subseteq nnc.ips,
           \A i \in nnc.ips \ nnc.notInUse : i \in nnc'.ips /\ addedAt'[i] = addedAt[i]
    PROVE  NInv'
<1> USE NodeTypeFacts
<1>1. SInv' /\ TableInv'
  BY UnchangedCNS
<1>2. NodeTypes'
  BY DEF NInv, NodeTypes
<1>u. UNCHANGED <<SecondaryIPs, Existing, Serving>> /\ \A T : InState(T)' = InState(T)
  BY UnchangedCNS
<1>v. UNCHANGED <<ipState, podIPs, csStore, cs, init, endpoint, endpointStore, thr, granted>>
  BY UnchangedCNS
<1>3. ViewInv' /\ KnownInv'
  BY <1>u, <1>v DEF NInv, ViewInv, KnownInv
<1>4. FileInv'
  BY <1>v DEF NInv, FileInv
<1>5. PatchInv' /\ ListedInv'
  BY <1>u, <1>v DEF NInv, PatchInv, ListedInv
<1>6. ProgrammedInv'
  <2>1. \A i \in InState({"Available", "Assigned"}) \ nnc.notInUse : i \in nnc.ips
    BY UsableIsKnown DEF InState
  <2> QED BY <1>u, <1>v, <2>1 DEF NInv, ProgrammedInv
<1>7. RecordInv'
  <2>1. \A p \in Pods : \A i \in endpointStore[p] : addedAt'[i] = addedAt[i]
    BY DEF NInv, RecordInv, KnownInv
  <2> QED BY <1>u, <1>v, <2>1 DEF NInv, RecordInv, NoDuplicateIP, OneIPPerFamily
<1>8. HeldInv'
  BY <1>u, <1>v DEF NInv, HeldInv
<1> QED BY <1>1, <1>2, <1>3, <1>4, <1>5, <1>6, <1>7, <1>8 DEF NInv

\* DNC allocates IPs.
LEMMA AllocateKeepsNInv ==
    ASSUME NInv, NEW nc \in NCs, DNCAllocate(nc)
    PROVE  NInv'
<1> USE NodeTypeFacts
<1>0. PICK S \in SUBSET (IPsOf(nc) \ (nnc.ips \cup nnc.notInUse)) :
        /\ Publish(nc, nnc.ips \cup S)
        /\ addedAt' = [i \in IPs |-> IF i \in S THEN nnc'.version[nc] ELSE addedAt[i]]
  BY DEF DNCAllocate
<1>1. S \in SUBSET IPs /\ \A i \in S : NCOf[i] = nc /\ i \notin nnc.ips /\ i \notin nnc.notInUse
  BY DEF IPsOf
<1>2. nnc.version[nc] + 1 \in Versions /\ nnc.version[nc] \in Versions
  BY <1>0, ConstantsAssumption DEF Publish, Versions
<1>3. nnc' = [nnc EXCEPT !.version = [nnc.version EXCEPT ![nc] = nnc.version[nc] + 1], !.ips = nnc.ips \cup S]
  BY <1>0 DEF Publish
<1>4. /\ nnc' \in NNC /\ nnc'.notInUse = nnc.notInUse /\ nnc'.ips = nnc.ips \cup S
      /\ nnc'.version = [nnc.version EXCEPT ![nc] = nnc.version[nc] + 1]
  BY <1>1, <1>2, <1>3 DEF NInv, NodeTypes, NNC
<1>5. addedAt' \in [IPs -> Versions \cup {NoVersion}]
  BY <1>0, <1>2, <1>4 DEF NInv, NodeTypes
<1>6. AllocInv'
  <2> SUFFICES ASSUME NEW i \in IPs
               PROVE  /\ i \in nnc'.ips <=> addedAt'[i] # NoVersion
                      /\ addedAt'[i] <= nnc'.version[NCOf[i]]
    BY DEF AllocInv
  <2>1. i \in nnc.ips <=> addedAt[i] # NoVersion
    BY DEF NInv, AllocInv
  <2>2. addedAt[i] <= nnc.version[NCOf[i]] /\ addedAt[i] \in Int /\ nnc.version[NCOf[i]] \in Int
    BY DEF NInv, AllocInv, NodeTypes, Versions, NoVersion
  <2>3. CASE i \in S
    BY <1>0, <1>1, <1>2, <1>4, <2>3 DEF Versions, NoVersion
  <2>4. CASE i \notin S
    <3>1. nnc'.version[NCOf[i]] >= nnc.version[NCOf[i]]
      BY <1>2, <1>4, <2>2 DEF Versions
    <3>2. addedAt'[i] = addedAt[i] /\ (i \in nnc'.ips <=> i \in nnc.ips)
      BY <1>0, <1>4, <2>4
    <3>3. nnc'.version[NCOf[i]] \in Int
      BY <1>2, <1>4, <2>2 DEF Versions
    <3> QED BY <2>1, <2>2, <3>1, <3>2, <3>3
  <2> QED BY <2>3, <2>4
<1>7. UNCHANGED <<vars, view, nma, patch, restarts>>
  BY DEF DNCAllocate
<1>8. /\ nnc'.ips \cap nnc.notInUse \subseteq nnc.ips
      /\ \A i \in nnc.ips \ nnc.notInUse : i \in nnc'.ips /\ addedAt'[i] = addedAt[i]
  BY <1>0, <1>1, <1>4
<1> QED BY <1>4, <1>5, <1>6, <1>7, <1>8, DNCKeepsNInv

\* DNC takes back IPs that are listed as unused.
LEMMA ReclaimKeepsNInv ==
    ASSUME NInv, NEW nc \in NCs, DNCReclaim(nc)
    PROVE  NInv'
<1> USE NodeTypeFacts
<1>0. PICK S \in SUBSET (IPsOf(nc) \cap nnc.ips \cap nnc.notInUse) :
        /\ Publish(nc, nnc.ips \ S)
        /\ addedAt' = [i \in IPs |-> IF i \in S THEN NoVersion ELSE addedAt[i]]
  BY DEF DNCReclaim
<1>1. S \in SUBSET IPs /\ \A i \in S : i \in nnc.ips /\ i \in nnc.notInUse
  BY DEF IPsOf
<1>2. nnc.version[nc] + 1 \in Versions /\ nnc.version[nc] \in Versions
  BY <1>0, ConstantsAssumption DEF Publish, Versions
<1>3. nnc' = [nnc EXCEPT !.version = [nnc.version EXCEPT ![nc] = nnc.version[nc] + 1], !.ips = nnc.ips \ S]
  BY <1>0 DEF Publish
<1>4. /\ nnc' \in NNC /\ nnc'.notInUse = nnc.notInUse /\ nnc'.ips = nnc.ips \ S
      /\ nnc'.version = [nnc.version EXCEPT ![nc] = nnc.version[nc] + 1]
  BY <1>1, <1>2, <1>3 DEF NInv, NodeTypes, NNC
<1>5. addedAt' \in [IPs -> Versions \cup {NoVersion}]
  BY <1>0 DEF NInv, NodeTypes
<1>6. AllocInv'
  <2> SUFFICES ASSUME NEW i \in IPs
               PROVE  /\ i \in nnc'.ips <=> addedAt'[i] # NoVersion
                      /\ addedAt'[i] <= nnc'.version[NCOf[i]]
    BY DEF AllocInv
  <2>1. i \in nnc.ips <=> addedAt[i] # NoVersion
    BY DEF NInv, AllocInv
  <2>2. addedAt[i] <= nnc.version[NCOf[i]] /\ addedAt[i] \in Int /\ nnc.version[NCOf[i]] \in Nat
    BY DEF NInv, AllocInv, NodeTypes, Versions, NoVersion
  <2>3. nnc'.version[NCOf[i]] >= nnc.version[NCOf[i]] /\ nnc'.version[NCOf[i]] \in Int
    BY <1>2, <1>4, <2>2 DEF Versions
  <2>4. CASE i \in S
    BY <1>0, <1>1, <1>4, <2>2, <2>3, <2>4 DEF NoVersion
  <2>5. CASE i \notin S
    <3>1. addedAt'[i] = addedAt[i] /\ (i \in nnc'.ips <=> i \in nnc.ips)
      BY <1>0, <1>4, <2>5
    <3> QED BY <2>1, <2>2, <2>3, <3>1
  <2> QED BY <2>4, <2>5
<1>7. UNCHANGED <<vars, view, nma, patch, restarts>>
  BY DEF DNCReclaim
<1>8. /\ nnc'.ips \cap nnc.notInUse \subseteq nnc.ips
      /\ \A i \in nnc.ips \ nnc.notInUse : i \in nnc'.ips /\ addedAt'[i] = addedAt[i]
  BY <1>0, <1>1, <1>4
<1> QED BY <1>4, <1>5, <1>6, <1>7, <1>8, DNCKeepsNInv

\* NMAgent programs a version.
LEMMA ProgramKeepsNInv ==
    ASSUME NInv, NEW nc \in NCs, NMAProgram(nc)
    PROVE  NInv'
<1> USE NodeTypeFacts
<1>1. UNCHANGED <<vars, nnc, addedAt, view, patch, restarts>>
  BY DEF NMAProgram
<1>2. nma \in [NCs -> Versions \cup {NoVersion}] /\ nma[nc] < nnc.version[nc] /\ nma' = [nma EXCEPT ![nc] = @ + 1]
  BY DEF NMAProgram, NInv, NodeTypes
<1>3. nma' \in [NCs -> Versions \cup {NoVersion}] /\ \A n \in NCs : nma[n] <= nma'[n]
  BY <1>2, ConstantsAssumption DEF Versions, NoVersion
<1>4. \A n \in NCs : nma[n] \in Int /\ nma'[n] \in Int
  BY <1>2, <1>3 DEF Versions, NoVersion
<1>5. \A i \in IPs : addedAt[i] \in Int
  BY DEF NInv, NodeTypes, Versions, NoVersion
<1>6. \A n \in NCs : cs.host[n] \in Int /\ csStore.host[n] \in Int
  BY DEF ContainerStatus, Versions, NoVersion
<1>7. SInv' /\ TableInv' /\ NodeTypes'
  BY <1>1, <1>3, UnchangedCNS DEF NInv, NodeTypes
<1>u. UNCHANGED <<SecondaryIPs, Existing, Serving>> /\ \A T : InState(T)' = InState(T)
  BY <1>1, UnchangedCNS
<1>v. UNCHANGED <<ipState, podIPs, csStore, cs, init, endpoint, endpointStore, thr, granted>>
  BY <1>1, UnchangedCNS
<1>8. AllocInv' /\ ViewInv' /\ KnownInv' /\ PatchInv' /\ ListedInv' /\ HeldInv'
  BY <1>1, <1>u, <1>v DEF NInv, AllocInv, ViewInv, KnownInv, PatchInv, ListedInv, HeldInv
<1>9. FileInv'
  BY <1>v, <1>3, <1>4, <1>6 DEF NInv, FileInv
<1>10. ProgrammedInv'
  <2>1. \A i \in IPs : addedAt[i] <= nma[NCOf[i]] => addedAt'[i] <= nma'[NCOf[i]]
    BY <1>1, <1>3, <1>4, <1>5
  <2>2. \A i \in InState({"Available", "Assigned"}) : i \in IPs
    BY DEF InState
  <2> QED BY <1>1, <1>u, <2>1, <2>2 DEF NInv, ProgrammedInv
<1>11. RecordInv'
  <2>1. \A i \in IPs : addedAt[i] <= nma[NCOf[i]] => addedAt'[i] <= nma'[NCOf[i]]
    BY <1>1, <1>3, <1>4, <1>5
  <2>2. \A p \in Pods : \A i \in endpointStore[p] : i \in IPs
    OBVIOUS
  <2> QED BY <1>1, <1>u, <1>v, <2>1, <2>2 DEF NInv, RecordInv, NoDuplicateIP, OneIPPerFamily
<1> QED BY <1>7, <1>8, <1>9, <1>10, <1>11 DEF NInv

-----------------------------------------------------------------------------
(* The reconciler's copy and the list of unused IPs *)

\* The informer delivers the NNC: nothing that CNS knows and has not listed is
\* missing in it.
LEMMA DeliverKeepsNInv ==
    ASSUME NInv, Deliver
    PROVE  NInv'
<1> USE NodeTypeFacts
<1>1. UNCHANGED <<vars, nnc, addedAt, nma, patch, restarts>> /\ view' = nnc
  BY DEF Deliver
<1>2. SInv' /\ TableInv' /\ NodeTypes'
  BY <1>1, UnchangedCNS DEF NInv, NodeTypes
<1>u. UNCHANGED <<SecondaryIPs, Existing, Serving>> /\ \A T : InState(T)' = InState(T)
  BY <1>1, UnchangedCNS
<1>v. UNCHANGED <<ipState, podIPs, csStore, cs, init, endpoint, endpointStore, thr, granted>>
  BY <1>1, UnchangedCNS
<1>3. AllocInv' /\ FileInv' /\ PatchInv' /\ ListedInv' /\ HeldInv'
  BY <1>1, <1>u, <1>v DEF NInv, AllocInv, FileInv, PatchInv, ListedInv, HeldInv
<1>4. ProgrammedInv' /\ RecordInv'
  BY <1>1, <1>u, <1>v DEF NInv, ProgrammedInv, RecordInv, NoDuplicateIP, OneIPPerFamily
<1>5. ViewInv' /\ KnownInv'
  BY <1>1, <1>u, <1>v DEF NInv, AllocInv, ViewInv, KnownInv
<1> QED BY <1>2, <1>3, <1>4, <1>5 DEF NInv

\* The pool monitor reads what is PendingRelease.
LEMMA ReadKeepsNInv ==
    ASSUME NInv, ReadPendingRelease
    PROVE  NInv'
<1> USE NodeTypeFacts
<1>1. UNCHANGED <<vars, nnc, addedAt, view, nma, restarts>> /\ Serving
  BY DEF ReadPendingRelease
<1>2. patch' = <<InState({"PendingRelease"})>> /\ InState({"PendingRelease"}) \in SUBSET IPs
  BY DEF ReadPendingRelease, InState
<1>3. SInv' /\ TableInv' /\ NodeTypes'
  BY <1>1, <1>2, UnchangedCNS DEF NInv, NodeTypes
<1>u. UNCHANGED <<SecondaryIPs, Existing, Serving>> /\ \A T : InState(T)' = InState(T)
  BY <1>1, UnchangedCNS
<1>v. UNCHANGED <<ipState, podIPs, csStore, cs, init, endpoint, endpointStore, thr, granted>>
  BY <1>1, UnchangedCNS
<1>4. AllocInv' /\ ViewInv' /\ KnownInv' /\ FileInv' /\ ListedInv' /\ HeldInv'
  BY <1>1, <1>u, <1>v DEF NInv, AllocInv, ViewInv, KnownInv, FileInv, ListedInv, HeldInv
<1>5. ProgrammedInv' /\ RecordInv'
  BY <1>1, <1>u, <1>v DEF NInv, ProgrammedInv, RecordInv, NoDuplicateIP, OneIPPerFamily
<1>6. PatchInv'
  <2>1. patch'[1] = InState({"PendingRelease"})
    BY <1>2
  <2>2. \A i \in IPs : i \in patch'[1] <=> ipState[i] = "PendingRelease"
    BY <2>1 DEF InState
  <2>3. \A i \in patch'[1] : i \in IPs
    BY <1>2, <2>1
  <2> QED BY <1>1, <1>u, <1>v, <2>2, <2>3 DEF NInv, PatchInv, ListedInv
<1> QED BY <1>3, <1>4, <1>5, <1>6 DEF NInv

\* It publishes the list.
LEMMA PatchKeepsNInv ==
    ASSUME NInv, PatchSpec
    PROVE  NInv'
<1> USE NodeTypeFacts
<1>1. UNCHANGED <<vars, addedAt, view, nma, restarts>> /\ patch # <<>> /\ patch' = <<>>
  BY DEF PatchSpec
<1>2. PICK L \in SUBSET IPs : patch = <<L>>
  BY <1>1 DEF NInv, NodeTypes
<1>3. patch[1] = L
  BY <1>2
<1>4. nnc' = [nnc EXCEPT !.notInUse = L]
  BY <1>3 DEF PatchSpec
<1>5. nnc' \in NNC /\ nnc'.notInUse = L /\ nnc'.ips = nnc.ips /\ nnc'.version = nnc.version
  BY <1>4 DEF NInv, NodeTypes, NNC
<1>6. SInv' /\ TableInv' /\ NodeTypes'
  BY <1>1, <1>5, UnchangedCNS DEF NInv, NodeTypes
<1>u. UNCHANGED <<SecondaryIPs, Existing, Serving>> /\ \A T : InState(T)' = InState(T)
  BY <1>1, UnchangedCNS
<1>v. UNCHANGED <<ipState, podIPs, csStore, cs, init, endpoint, endpointStore, thr, granted>>
  BY <1>1, UnchangedCNS
<1>7. Serving /\ (\A i \in L \ nnc.notInUse : ipState[i] = "PendingRelease")
      /\ \A i \in nnc.notInUse : i \in SecondaryIPs => i \in L
  BY <1>1, <1>3 DEF NInv, PatchInv
<1>8. \A i \in L \ nnc.notInUse : i \in SecondaryIPs /\ i \in view.ips
  <2>1. \A i \in L \ nnc.notInUse : i \in SecondaryIPs
    BY <1>7, UsableIsKnown DEF InState
  <2> QED BY <2>1 DEF NInv, KnownInv
<1>9. AllocInv' /\ FileInv' /\ PatchInv' /\ HeldInv'
  BY <1>1, <1>5, <1>u, <1>v DEF NInv, AllocInv, FileInv, PatchInv, HeldInv
<1>10. ViewInv'
  <2>1. \A i \in view.ips : i \in nnc.notInUse => i \in L
    BY <1>7 DEF NInv, KnownInv
  <2> QED BY <1>1, <1>5, <1>7, <1>8, <1>u, <2>1 DEF NInv, ViewInv
<1>11. KnownInv'
  BY <1>1, <1>5, <1>7, <1>8, <1>u, <1>v DEF NInv, KnownInv
<1>12. ListedInv'
  BY <1>5, <1>7, <1>u, <1>v DEF NInv, ListedInv
<1>13. ProgrammedInv'
  <2>1. \A i \in InState({"Available", "Assigned"}) : i \in IPs /\ i \in SecondaryIPs
    BY UsableIsKnown DEF InState
  <2> QED BY <1>1, <1>5, <1>7, <1>u, <2>1 DEF NInv, ProgrammedInv
<1>14. RecordInv'
  <2>1. \A p \in Pods : \A i \in endpointStore[p] : i \in podIPs[p]
    BY <1>7 DEF NInv, HeldInv
  <2>2. \A p \in Pods : \A i \in podIPs[p] : ipState[i] = "Assigned"
    BY DEF NInv, SInv, IInv, IndexSound
  <2>3. \A p \in Pods : \A i \in endpointStore[p] : i \notin nnc.notInUse
    BY DEF NInv, RecordInv
  <2>4. \A p \in Pods : \A i \in endpointStore[p] : i \notin L
    BY <1>7, <2>1, <2>2, <2>3
  <2> QED BY <1>1, <1>5, <1>u, <1>v, <2>4 DEF NInv, RecordInv, NoDuplicateIP, OneIPPerFamily
<1> QED BY <1>6, <1>9, <1>10, <1>11, <1>12, <1>13, <1>14 DEF NInv

-----------------------------------------------------------------------------
(* The handlers *)

\* A step of the handler t for pod p, which is alone with it: IPs move between
\* Available and Assigned, and what is recorded and granted is what p holds.
LEMMA PodStepKeepsNInv ==
    ASSUME NInv, SInv', Serving, UNCHANGED <<nodeVars, cs, csStore, init>>,
           \A i \in IPs : \/ ipState'[i] = ipState[i]
                          \/ /\ ipState[i] \in {"Available", "Assigned"}
                             /\ ipState'[i] \in {"Available", "Assigned"},
           NEW t \in Threads, NEW p \in Pods, Alone(t, p), NEW hd, thr' = [thr EXCEPT ![t] = hd],
           \A q \in Pods \ {p} : /\ podIPs'[q] = podIPs[q] /\ endpointStore'[q] = endpointStore[q]
                                 /\ granted'[q] = granted[q],
           endpoint' = endpointStore',
           endpointStore'[p] \in {{}, podIPs'[p]}, granted'[p] \in {{}, endpointStore'[p]},
           OneIPPerFamily(podIPs'[p]),
           hd.pc = "release" => hd.pod = p /\ endpointStore'[p] = {},
           hd.pc = "endpoint" => hd.pod = p /\ hd.ips = podIPs'[p]
    PROVE  NInv'
<1> USE NodeTypeFacts
<1>t. /\ ipState' \in [IPs -> IPStates] /\ podIPs' \in [Pods -> SUBSET IPs]
      /\ endpointStore' \in [Pods -> SUBSET IPs]
  BY DEF SInv, IInv, TypeOK
<1>n. UNCHANGED <<nnc, addedAt, view, nma, patch, restarts>>
  BY DEF nodeVars
<1>u. UNCHANGED <<SecondaryIPs, Serving, Existing>>
  BY <1>t, ExistingIsNotNone DEF SecondaryIPs, Serving, Existing, InState
<1>1. NodeTypes' /\ AllocInv' /\ ViewInv' /\ KnownInv' /\ FileInv'
  BY <1>n, <1>u DEF NInv, NodeTypes, AllocInv, ViewInv, KnownInv, FileInv
<1>2. PatchInv' /\ TableInv' /\ ListedInv'
  <2>1. \A i \in IPs : ipState[i] = "PendingRelease" => ipState'[i] = "PendingRelease"
    OBVIOUS
  <2>2. PatchInv' /\ ListedInv'
    BY <1>n, <1>u, <2>1, ListsStayRight
  <2>3. TableInv'
    BY <1>u DEF NInv, TableInv
  <2> QED BY <2>2, <2>3
<1>3. ProgrammedInv'
  <2>1. \A i \in IPs : ipState'[i] \in {"Available", "Assigned"} => ipState[i] \in {"Available", "Assigned"}
    OBVIOUS
  <2> QED BY <1>n, <2>1 DEF NInv, ProgrammedInv, InState
<1>4. \A q \in Pods : endpointStore'[q] \in {{}, podIPs'[q]} /\ granted'[q] \in {{}, endpointStore'[q]}
                      /\ OneIPPerFamily(podIPs'[q])
  BY DEF NInv, HeldInv, RecordInv
<1>5. RecordInv'
  <2>1. \A q \in Pods : \A i \in podIPs'[q] : i \in IPs /\ ipState'[i] = "Assigned" /\ podInfo'[i] = q
    BY <1>t DEF SInv, IInv, IndexSound
  <2>2. \A i \in IPs : ipState'[i] = "Assigned" => i \in SecondaryIPs' /\ i \notin nnc'.notInUse
    <3>1. \A i \in IPs : ipState'[i] = "Assigned" => i \in Existing'
      BY DEF Existing, InState, IPStates
    <3> QED BY <1>2, <1>u, <3>1 DEF TableInv, ListedInv
  <2>3. \A i \in IPs : ipState'[i] = "Assigned" => addedAt'[i] <= nma'[NCOf[i]]
    BY <1>3, <2>2 DEF ProgrammedInv, InState
  <2>4. \A q \in Pods : \A i \in endpointStore'[q] : i \in podIPs'[q]
    BY <1>4
  <2>5. NoDuplicateIP(endpointStore')
    BY <2>1, <2>4 DEF NoDuplicateIP
  <2>6. \A q \in Pods : OneIPPerFamily(endpointStore'[q])
    BY <1>4, <2>4 DEF OneIPPerFamily
  <2> QED BY <1>4, <2>1, <2>2, <2>3, <2>4, <2>5, <2>6 DEF RecordInv
<1>6. HeldInv'
  <2>1. ASSUME NEW u \in Threads
        PROVE  /\ thr'[u].pc = "release" => endpointStore'[thr'[u].pod] = {}
               /\ thr'[u].pc = "endpoint" => thr'[u].ips = podIPs'[thr'[u].pod]
    <3>0. thr \in [Threads -> Thread]
      BY DEF NInv, SInv, IInv, TypeOK
    <3>1. CASE u = t
      BY <3>0, <3>1
    <3>2. CASE u # t
      <4>1. thr'[u] = thr[u] /\ thr[u].pod # p
        BY <3>0, <3>2 DEF Alone
      <4>2. thr[u].pc # "idle" => thr[u].pod \in Pods
        BY DEF NInv, SInv, IInv, ThreadsHavePod
      <4> QED BY <4>1, <4>2 DEF NInv, HeldInv
    <3> QED BY <3>1, <3>2
  <2>2. Serving' /\ init'.phase # "assign"
    BY <1>u DEF Serving
  <2> QED BY <1>4, <2>1, <2>2 DEF HeldInv
<1> QED BY <1>1, <1>2, <1>3, <1>5, <1>6 DEF NInv

\* A request that only moves its handler on.
LEMMA GetExistingKeepsNInv ==
    ASSUME Dependable, NInv, SInv', UNCHANGED nodeVars, NEW t \in Threads, NEW p \in Pods,
           GetExistingIPConfig(t, p)
    PROVE  NInv'
<1> USE NodeTypeFacts
<1> DEFINE fresh == [Idle EXCEPT !.pc = "read", !.pod = p]
           known == [Idle EXCEPT !.pc = "endpoint", !.pod = p, !.ips = podIPs[p]]
<1>1. Alone(t, p) /\ Serving
  BY StartingIsAlone DEF Dependable, GetExistingIPConfig, MayStart, At
<1>2. PICK hd \in {fresh, known} : thr' = [thr EXCEPT ![t] = hd]
  BY DEF GetExistingIPConfig
<1>3. (hd.pc = "release" => hd.pod = p /\ endpointStore[p] = {})
      /\ (hd.pc = "endpoint" => hd.pod = p /\ hd.ips = podIPs[p])
  BY DEF Idle
<1>4. UNCHANGED <<ipState, podInfo, podIPs, cs, csStore, endpoint, endpointStore, init, granted>>
  BY DEF GetExistingIPConfig
<1>5. /\ endpoint = endpointStore /\ endpointStore[p] \in {{}, podIPs[p]}
      /\ granted[p] \in {{}, endpointStore[p]} /\ OneIPPerFamily(podIPs[p])
  BY <1>1 DEF NInv, RecordInv, HeldInv
<1> HIDE DEF fresh, known
<1> QED BY <1>1, <1>2, <1>3, <1>4, <1>5, PodStepKeepsNInv

\* A handler that goes on or ends without touching tables and records.
LEMMA GoOnKeepsNInv ==
    ASSUME NInv, SInv', UNCHANGED nodeVars, NEW t \in Threads,
           CountNCs(t) \/ GetIPFamilyCount(t) \/ getIPFamiliesMap(t)
    PROVE  NInv'
<1> USE NodeTypeFacts
<1> DEFINE p == thr[t].pod
<1>1. Serving /\ thr[t].pc # "idle"
  BY DEF CountNCs, GetIPFamilyCount, getIPFamiliesMap, At
<1>2. p \in Pods /\ Alone(t, p)
  BY <1>1, RunningIsAlone DEF NInv
<1>3. PICK hd : thr' = [thr EXCEPT ![t] = hd] /\ hd.pc \notin {"release", "endpoint"}
  <2>1. CASE Finish(t)
    <3>1. thr' = [thr EXCEPT ![t] = Idle] /\ Idle.pc \notin {"release", "endpoint"}
      BY <2>1 DEF Finish, Idle
    <3> QED BY <3>1
  <2>2. ASSUME NEW pc \in {"ncs", "count", "assign"}, NEW F, NEW n, Step(t, pc, {}, F, n)
        PROVE  \E hd : thr' = [thr EXCEPT ![t] = hd] /\ hd.pc \notin {"release", "endpoint"}
    <3> DEFINE g == [pc |-> pc, pod |-> thr[t].pod, ips |-> {}, fams |-> F, n |-> n]
    <3>1. thr' = [thr EXCEPT ![t] = g] /\ g.pc \notin {"release", "endpoint"}
      BY <2>2 DEF Step
    <3> QED BY <3>1
  <2> QED BY <2>1, <2>2 DEF CountNCs, GetIPFamilyCount, getIPFamiliesMap
<1>4. UNCHANGED <<ipState, podInfo, podIPs, cs, csStore, endpoint, endpointStore, init, granted>>
  BY DEF CountNCs, GetIPFamilyCount, getIPFamiliesMap
<1> HIDE DEF p
<1>5. /\ endpoint = endpointStore /\ endpointStore[p] \in {{}, podIPs[p]}
      /\ granted[p] \in {{}, endpointStore[p]} /\ OneIPPerFamily(podIPs[p])
  BY <1>1, <1>2 DEF NInv, RecordInv, HeldInv
<1> QED BY <1>1, <1>2, <1>3, <1>4, <1>5, PodStepKeepsNInv

\* IPs of different slots are of different families.
LEMMA CollectedOnePerFamily ==
    ASSUME Dependable, NEW n, NEW S \in CollectedIPs(n)
    PROVE  /\ S \in SUBSET IPs /\ \A i \in S : ipState[i] = "Available"
           /\ OneIPPerFamily(S) /\ OneIPPerFamily({}) /\ \A i \in S : OneIPPerFamily({i})
<1>1. S \in SUBSET IPs /\ \A i \in S : ipState[i] = "Available"
  BY DEF CollectedIPs, InState
<1>2. \A i, j \in S : AssignedIPKey(i) = AssignedIPKey(j) => i = j
  BY DEF CollectedIPs
<1>3. \A i, j \in S : Family[i] = Family[j] => AssignedIPKey(i) = AssignedIPKey(j)
  BY <1>1 DEF Dependable, OneNCPerFamily, AssignedIPKey
<1> QED BY <1>1, <1>2, <1>3 DEF OneIPPerFamily

\* AssignAvailableIPConfigs: the pod has nothing yet, and nothing is recorded.
LEMMA AssignKeepsNInv ==
    ASSUME Dependable, NInv, SInv', UNCHANGED nodeVars, NEW t \in Threads, AssignAvailableIPConfigs(t)
    PROVE  NInv'
<1> USE NodeTypeFacts
<1> DEFINE p == thr[t].pod
<1>1. Serving /\ thr[t].pc = "assign" /\ UNCHANGED <<cs, csStore, endpoint, endpointStore, init, granted>>
  BY DEF AssignAvailableIPConfigs, At
<1>2. p \in Pods /\ Alone(t, p) /\ podIPs[p] = {}
  BY <1>1, RunningIsAlone DEF NInv, SInv, HandlerFacts, ReadingAt
<1>3. PICK S \in CollectedIPs(thr[t].n) :
            \/ UNCHANGED ipamVars /\ Finish(t)
            \/ \E i \in S : assignIPConfig({i}, p) /\ Finish(t)
            \/ assignIPConfig(S, p) /\ \E k : Step(t, "endpoint", S, {}, k)
            \/ unassignIPConfig(S, p) /\ Finish(t)
  BY DEF AssignAvailableIPConfigs
<1>4. /\ S \in SUBSET IPs /\ \A i \in S : ipState[i] = "Available"
      /\ OneIPPerFamily(S) /\ OneIPPerFamily({}) /\ \A i \in S : OneIPPerFamily({i})
  BY CollectedOnePerFamily
<1>f. Idle.pc = "idle"
  BY DEF Idle
<1> HIDE DEF p
<1>5. endpoint = endpointStore /\ endpointStore[p] = {} /\ granted[p] = {}
  BY <1>1, <1>2 DEF NInv, RecordInv, HeldInv
<1>6. CASE UNCHANGED ipamVars /\ Finish(t)
  BY <1>1, <1>2, <1>4, <1>5, <1>6, <1>f, PodStepKeepsNInv DEF ipamVars, Finish
<1>7. ASSUME NEW T \in SUBSET S, assignIPConfig(T, p)
      PROVE  /\ \A i \in IPs : \/ ipState'[i] = ipState[i]
                               \/ /\ ipState[i] \in {"Available", "Assigned"}
                                  /\ ipState'[i] \in {"Available", "Assigned"}
             /\ podIPs'[p] = T /\ \A q \in Pods \ {p} : podIPs'[q] = podIPs[q]
  BY <1>2, <1>4, <1>7 DEF assignIPConfig, updateIPConfigState
<1>8. ASSUME NEW i \in S, assignIPConfig({i}, p), Finish(t) PROVE NInv'
  <2>1. {i} \in SUBSET S /\ OneIPPerFamily({i})
    BY <1>4
  <2> QED BY <1>1, <1>2, <1>5, <1>7, <1>8, <1>f, <2>1, PodStepKeepsNInv DEF Finish
<1>9. ASSUME assignIPConfig(S, p), NEW k, Step(t, "endpoint", S, {}, k) PROVE NInv'
  <2> DEFINE hd == [pc |-> "endpoint", pod |-> p, ips |-> S, fams |-> {}, n |-> k]
  <2>1. thr' = [thr EXCEPT ![t] = hd] /\ hd.pc = "endpoint" /\ hd.pod = p /\ hd.ips = S
    BY <1>9 DEF Step, p
  <2>2. S \in SUBSET S
    OBVIOUS
  <2> HIDE DEF hd
  <2>3. /\ \A i \in IPs : \/ ipState'[i] = ipState[i]
                          \/ /\ ipState[i] \in {"Available", "Assigned"}
                             /\ ipState'[i] \in {"Available", "Assigned"}
        /\ podIPs'[p] = S /\ \A q \in Pods \ {p} : podIPs'[q] = podIPs[q]
    BY <1>7, <1>9, <2>2
  <2>4. OneIPPerFamily(podIPs'[p])
    BY <1>4, <2>3
  <2>5. hd.ips = podIPs'[p]
    BY <2>1, <2>3
  <2> QED BY <1>1, <1>2, <1>5, <2>1, <2>3, <2>4, <2>5, PodStepKeepsNInv
<1>10. CASE unassignIPConfig(S, p) /\ Finish(t)
  <2>1. /\ \A i \in IPs : \/ ipState'[i] = ipState[i]
                          \/ /\ ipState[i] \in {"Available", "Assigned"}
                             /\ ipState'[i] \in {"Available", "Assigned"}
        /\ podIPs'[p] = {} /\ \A q \in Pods \ {p} : podIPs'[q] = podIPs[q]
    BY <1>2, <1>4, <1>10 DEF unassignIPConfig, updateIPConfigState
  <2> QED BY <1>1, <1>2, <1>4, <1>5, <1>10, <1>f, <2>1, PodStepKeepsNInv DEF Finish
<1> QED BY <1>3, <1>6, <1>8, <1>9, <1>10

\* updateEndpointState, with a store that can be written: the record becomes
\* the IPs the pod holds, and what is granted is what is recorded.
LEMMA UpdateRecords ==
    ASSUME Dependable, NInv, NEW t \in Threads, updateEndpointState(t)
    PROVE  LET p == thr[t].pod
           IN  /\ p \in Pods /\ Alone(t, p) /\ Serving
               /\ thr[t].ips = podIPs[p]
               /\ endpoint' = [endpoint EXCEPT ![p] = podIPs[p]] /\ endpointStore' = endpoint'
               /\ granted' = granted \/ granted' = [granted EXCEPT ![p] = podIPs[p]]
               /\ granted[p] \in {{}, podIPs[p]}
<1> USE NodeTypeFacts
<1> DEFINE p == thr[t].pod
           ips == thr[t].ips
           recorded == ips \cap endpoint[p]
<1>1. Serving /\ thr[t].pc = "endpoint"
  BY DEF updateEndpointState, At
<1>2. p \in Pods /\ Alone(t, p) /\ ips = podIPs[p]
  BY <1>1, RunningIsAlone DEF NInv, HeldInv
<1>3. endpoint = endpointStore /\ endpointStore[p] \in {{}, podIPs[p]} /\ granted[p] \in {{}, endpointStore[p]}
  BY <1>1, <1>2 DEF NInv, RecordInv, HeldInv
<1>4. PICK A \in SUBSET (ips \ recorded) :
        /\ recorded = {} => A = ips
        /\ endpoint' = [endpoint EXCEPT ![p] = endpoint[p] \cup A]
        /\ endpointStore' = IF A = {} THEN endpointStore ELSE endpoint'
  BY DEF updateEndpointState
<1>5. endpoint[p] \cup A = podIPs[p]
  BY <1>2, <1>3, <1>4
<1>6. granted' = granted \/ granted' = [granted EXCEPT ![p] = podIPs[p]]
  BY <1>2 DEF updateEndpointState
<1>7. endpoint' = [endpoint EXCEPT ![p] = podIPs[p]]
  BY <1>4, <1>5
<1>8. endpointStore' = endpoint'
  <2>1. CASE A = {}
    <3>1. endpoint[p] = podIPs[p]
      BY <1>5, <2>1
    <3> QED BY <1>2, <1>3, <1>4, <1>7, <2>1, <3>1
  <2>2. CASE A # {}
    BY <1>4, <2>2
  <2> QED BY <2>1, <2>2
<1> QED BY <1>1, <1>2, <1>3, <1>6, <1>7, <1>8

\* A request is answered.
LEMMA UpdateKeepsNInv ==
    ASSUME Dependable, NInv, SInv', UNCHANGED nodeVars, NEW t \in Threads, updateEndpointState(t)
    PROVE  NInv'
<1> USE NodeTypeFacts
<1> DEFINE p == thr[t].pod
<1>1. /\ p \in Pods /\ Alone(t, p) /\ Serving
      /\ endpoint' = [endpoint EXCEPT ![p] = podIPs[p]] /\ endpointStore' = endpoint'
      /\ granted' = granted \/ granted' = [granted EXCEPT ![p] = podIPs[p]]
      /\ granted[p] \in {{}, podIPs[p]}
  BY UpdateRecords
<1>2. thr' = [thr EXCEPT ![t] = Idle] /\ Idle.pc = "idle"
      /\ UNCHANGED <<ipState, podInfo, podIPs, cs, csStore, init>>
  BY DEF updateEndpointState, Finish, Idle
<1> HIDE DEF p
<1>3. endpoint = endpointStore /\ OneIPPerFamily(podIPs[p])
  BY <1>1 DEF NInv, RecordInv
<1>4. endpointStore'[p] = podIPs'[p] /\ granted'[p] \in {{}, endpointStore'[p]}
      /\ \A q \in Pods \ {p} : endpointStore'[q] = endpointStore[q] /\ granted'[q] = granted[q]
  BY <1>1, <1>2, <1>3
<1> QED BY <1>1, <1>2, <1>3, <1>4, PodStepKeepsNInv

\* A pod is being torn down: its record goes first.
LEMMA RemoveKeepsNInv ==
    ASSUME Dependable, NInv, SInv', UNCHANGED nodeVars, NEW t \in Threads, NEW p \in Pods,
           removeEndpointState(t, p)
    PROVE  NInv'
<1> USE NodeTypeFacts
<1> DEFINE hd == [Idle EXCEPT !.pc = "release", !.pod = p]
<1>1. Alone(t, p) /\ Serving
  BY StartingIsAlone DEF Dependable, removeEndpointState, MayStart, At
<1>2. StoreWrite = {TRUE}
  BY DEF Dependable, StoreWrite, Outcomes
<1>3. /\ endpoint' = [endpoint EXCEPT ![p] = {}]
      /\ endpointStore' = IF endpoint[p] # {} THEN endpoint' ELSE endpointStore
      /\ thr' = [thr EXCEPT ![t] = hd] /\ granted' = [granted EXCEPT ![p] = {}]
      /\ UNCHANGED <<ipState, podInfo, podIPs, cs, csStore, init>>
  BY <1>2 DEF removeEndpointState
<1>4. hd.pc = "release" /\ hd.pod = p
  BY DEF Idle
<1> HIDE DEF hd
<1>5. endpoint = endpointStore /\ OneIPPerFamily(podIPs[p])
  BY DEF NInv, RecordInv
<1>6. endpointStore' = endpoint'
  BY <1>3, <1>5
<1>7. endpointStore'[p] = {} /\ granted'[p] = {}
      /\ \A q \in Pods \ {p} : endpointStore'[q] = endpointStore[q] /\ granted'[q] = granted[q]
  BY <1>3, <1>5, <1>6
<1> QED BY <1>1, <1>3, <1>4, <1>5, <1>6, <1>7, PodStepKeepsNInv

\* Then its IPs are freed.
LEMMA ReleaseKeepsNInv ==
    ASSUME NInv, SInv', UNCHANGED nodeVars, NEW t \in Threads, releaseIPConfigs(t)
    PROVE  NInv'
<1> USE NodeTypeFacts
<1> DEFINE p == thr[t].pod
<1>1. Serving /\ thr[t].pc = "release" /\ UNCHANGED <<cs, csStore, endpoint, endpointStore, init, granted>>
  BY DEF releaseIPConfigs, At
<1>2. p \in Pods /\ Alone(t, p) /\ endpointStore[p] = {}
  BY <1>1, RunningIsAlone DEF NInv, HeldInv
<1>3. thr' = [thr EXCEPT ![t] = Idle] /\ Idle.pc = "idle"
      /\ (unassignIPConfig(podIPs[p], p) \/ UNCHANGED ipamVars)
  BY DEF releaseIPConfigs, Finish, Idle
<1> HIDE DEF p
<1>4. endpoint = endpointStore /\ granted[p] = {} /\ OneIPPerFamily(podIPs[p]) /\ OneIPPerFamily({})
  BY <1>2 DEF NInv, RecordInv, OneIPPerFamily
<1>5. \A i \in podIPs[p] : ipState[i] = "Assigned"
  BY <1>2 DEF NInv, SInv, IInv, IndexSound
<1>6. /\ \A i \in IPs : \/ ipState'[i] = ipState[i]
                        \/ /\ ipState[i] \in {"Available", "Assigned"}
                           /\ ipState'[i] \in {"Available", "Assigned"}
      /\ podIPs'[p] \in {{}, podIPs[p]} /\ \A q \in Pods \ {p} : podIPs'[q] = podIPs[q]
  BY <1>2, <1>3, <1>5 DEF unassignIPConfig, updateIPConfigState, ipamVars
<1>7. OneIPPerFamily(podIPs'[p])
  BY <1>4, <1>6
<1> QED BY <1>1, <1>2, <1>3, <1>4, <1>6, <1>7, PodStepKeepsNInv

\* The report of an interface: what is recorded is already what was granted.
LEMMA EndpointAPIKeepsNInv ==
    ASSUME NInv, SInv', UNCHANGED nodeVars, NEW p \in Pods, UpdateEndpointHelper(p)
    PROVE  NInv' /\ UNCHANGED granted
<1> USE NodeTypeFacts
<1> DEFINE kept == {i \in endpoint[p] : \A j \in granted[p] : Family[i] # Family[j]}
<1>1. UNCHANGED <<ipState, podInfo, podIPs, cs, csStore, thr, init, granted>> /\ granted[p] # {}
  BY DEF UpdateEndpointHelper
<1>2. endpoint = endpointStore /\ granted[p] = endpoint[p]
  BY <1>1 DEF NInv, RecordInv
<1>3. kept = {}
  BY <1>2
<1>4. endpoint' = [endpoint EXCEPT ![p] = kept \cup granted[p]]
      /\ (endpointStore' = endpoint' \/ endpointStore' = endpointStore)
  BY DEF UpdateEndpointHelper
<1>5. kept \cup granted[p] = endpoint[p]
  BY <1>2, <1>3
<1> HIDE DEF kept
<1>6. UNCHANGED <<endpoint, endpointStore>>
  BY <1>2, <1>4, <1>5
<1>7. UNCHANGED vars
  BY <1>1, <1>6 DEF vars
<1>n. UNCHANGED <<nnc, addedAt, view, nma, patch, restarts>>
  BY DEF nodeVars
<1>u. UNCHANGED <<SecondaryIPs, Existing, Serving>> /\ \A T : InState(T)' = InState(T)
  BY <1>7, UnchangedCNS
<1>8. TableInv' /\ NodeTypes' /\ AllocInv' /\ ViewInv' /\ KnownInv' /\ FileInv' /\ PatchInv' /\ ListedInv'
  BY <1>1, <1>7, <1>n, <1>u, UnchangedCNS
  DEF NInv, NodeTypes, AllocInv, ViewInv, KnownInv, FileInv, PatchInv, ListedInv
<1>9. ProgrammedInv' /\ RecordInv' /\ HeldInv'
  BY <1>1, <1>6, <1>n, <1>u DEF NInv, ProgrammedInv, RecordInv, HeldInv, NoDuplicateIP, OneIPPerFamily
<1> QED BY <1>1, <1>8, <1>9 DEF NInv

-----------------------------------------------------------------------------
(* The pool monitor, the host's versions and the reconciler *)

\* The pool monitor marks IPs that nobody holds.
LEMMA MarkKeepsNInv ==
    ASSUME NInv, SInv', UNCHANGED nodeVars, NEW n, MarkIPAsPendingRelease(n)
    PROVE  NInv'
<1> USE NodeTypeFacts
<1>1. PICK S \in SUBSET InState({"PendingProgramming", "Available"}) : MarkPendingRelease(S)
  BY DEF MarkIPAsPendingRelease, ReleaseCandidates
<1>2. /\ \A i \in IPs : \/ ipState'[i] = ipState[i]
                        \/ /\ ipState[i] \in {"PendingProgramming", "Available"}
                           /\ ipState'[i] = "PendingRelease"
      /\ UNCHANGED <<podInfo, podIPs, cs, csStore, endpoint, endpointStore, thr, init, granted>>
  BY <1>1 DEF MarkPendingRelease, InState
<1>t. ipState' \in [IPs -> IPStates]
  BY DEF SInv, IInv, TypeOK
<1>n. UNCHANGED <<nnc, addedAt, view, nma, patch, restarts>>
  BY DEF nodeVars
<1>u. UNCHANGED <<SecondaryIPs, Serving, Existing>>
  BY <1>2, <1>t, ExistingIsNotNone DEF SecondaryIPs, Serving, Existing, InState
<1>3. NodeTypes' /\ AllocInv' /\ ViewInv' /\ KnownInv' /\ FileInv' /\ TableInv'
  BY <1>2, <1>n, <1>u DEF NInv, NodeTypes, AllocInv, ViewInv, KnownInv, FileInv, TableInv
<1>4. PatchInv' /\ ListedInv'
  <2>1. \A i \in IPs : ipState[i] = "PendingRelease" => ipState'[i] = "PendingRelease"
    BY <1>2
  <2> QED BY <1>n, <1>u, <2>1, ListsStayRight
<1>5. ProgrammedInv'
  <2>1. \A i \in IPs : ipState'[i] \in {"Available", "Assigned"} => ipState[i] \in {"Available", "Assigned"}
    BY <1>2
  <2> QED BY <1>n, <2>1 DEF NInv, ProgrammedInv, InState
<1>6. RecordInv' /\ HeldInv'
  BY <1>2, <1>n, <1>u DEF NInv, RecordInv, HeldInv, NoDuplicateIP, OneIPPerFamily
<1> QED BY <1>3, <1>4, <1>5, <1>6 DEF NInv

\* SyncHostNCVersion: an IP becomes Available once NMAgent has reached the
\* version it came with.
LEMMA SyncKeepsNInv ==
    ASSUME NInv, SInv', UNCHANGED nodeVars, SyncHostNCVersion(nma)
    PROVE  NInv'
<1> USE NodeTypeFacts
<1> DEFINE updated == {nc \in cs.ncs : /\ cs.host[nc] < cs.version[nc]
                                       /\ nma[nc] # NoVersion
                                       /\ cs.host[nc] <= nma[nc]}
           programmed == MarkIpsAsAvailable(updated, nma)
<1>0. /\ Serving /\ updateIPConfigState(programmed, "Available", NoPod)
      /\ cs' = [cs EXCEPT
                  !.host = [nc \in NCs |-> IF nc \in updated THEN nma[nc] ELSE @[nc]],
                  !.sec = [i \in IPs |-> IF i \in programmed THEN nma[NCOf[i]] ELSE @[i]]]
      /\ UNCHANGED <<podIPs, csStore, endpoint, endpointStore, thr, init, granted>>
  BY DEF SyncHostNCVersion
<1>1. \A i \in programmed : /\ i \in IPs /\ i \in SecondaryIPs /\ ipState[i] = "PendingProgramming"
                            /\ NCOf[i] \in updated /\ cs.sec[i] <= nma[NCOf[i]]
  BY DEF MarkIpsAsAvailable, InState
<1>2. \A nc \in updated : nma[nc] # NoVersion
  OBVIOUS
<1> HIDE DEF updated, programmed
<1>3. \A i \in IPs : \/ ipState'[i] = ipState[i] /\ i \notin programmed
                     \/ /\ ipState[i] = "PendingProgramming" /\ ipState'[i] = "Available" /\ i \in programmed
  BY <1>0, <1>1 DEF updateIPConfigState
<1>4. /\ \A nc \in NCs : cs'.host[nc] \in {cs.host[nc], nma[nc]}
      /\ \A i \in IPs : cs'.sec[i] = IF i \in programmed THEN nma[NCOf[i]] ELSE cs.sec[i]
  BY <1>0 DEF ContainerStatus
<1>i. /\ \A i \in IPs : cs.sec[i] \in Int /\ csStore.sec[i] \in Int /\ addedAt[i] \in Int /\ nma[NCOf[i]] \in Int
      /\ \A nc \in NCs : cs.host[nc] \in Int /\ csStore.host[nc] \in Int /\ nma[nc] \in Int
  BY DEF ContainerStatus, NInv, NodeTypes, Versions, NoVersion
<1>5. \A i \in IPs : (cs'.sec[i] = NoVersion <=> cs.sec[i] = NoVersion) /\ cs.sec[i] <= cs'.sec[i]
  BY <1>1, <1>2, <1>4, <1>i DEF SecondaryIPs
<1>t. ipState' \in [IPs -> IPStates]
  BY DEF SInv, IInv, TypeOK
<1>n. UNCHANGED <<nnc, addedAt, view, nma, patch, restarts>>
  BY DEF nodeVars
<1>u. UNCHANGED <<SecondaryIPs, Serving, Existing>>
  <2>1. SecondaryIPs' = SecondaryIPs
    BY <1>5 DEF SecondaryIPs
  <2> QED BY <1>0, <1>3, <1>t, <2>1, ExistingIsNotNone DEF Serving, Existing, InState
<1>6. NodeTypes' /\ AllocInv' /\ ViewInv' /\ KnownInv' /\ TableInv'
  BY <1>0, <1>n, <1>u DEF NInv, NodeTypes, AllocInv, ViewInv, KnownInv, TableInv
<1>7. FileInv'
  <2>1. \A i \in IPs : (csStore.sec[i] = NoVersion <=> cs.sec[i] = NoVersion) /\ csStore.sec[i] <= cs.sec[i]
    BY DEF NInv, FileInv
  <2>2. \A i \in IPs : cs'.sec[i] \in Int
    BY <1>4, <1>i
  <2>3. \A i \in IPs : (csStore.sec[i] = NoVersion <=> cs'.sec[i] = NoVersion) /\ csStore.sec[i] <= cs'.sec[i]
    BY <1>5, <1>i, <2>1, <2>2
  <2>4. \A nc \in NCs : cs'.host[nc] <= nma[nc] /\ csStore.host[nc] <= nma[nc]
    BY <1>4, <1>i DEF NInv, FileInv
  <2> QED BY <1>0, <1>n, <2>3, <2>4 DEF FileInv
<1>8. PatchInv' /\ ListedInv'
  <2>1. \A i \in IPs : ipState[i] = "PendingRelease" => ipState'[i] = "PendingRelease"
    BY <1>3
  <2> QED BY <1>n, <1>u, <2>1, ListsStayRight
<1>9. ProgrammedInv'
  <2> SUFFICES ASSUME NEW i \in IPs, ipState'[i] \in {"Available", "Assigned"}, i \notin nnc.notInUse
               PROVE  addedAt[i] <= nma[NCOf[i]]
    BY <1>n DEF ProgrammedInv, InState
  <2>1. CASE i \in programmed
    <3>1. addedAt[i] <= csStore.sec[i] /\ csStore.sec[i] <= cs.sec[i] /\ cs.sec[i] <= nma[NCOf[i]]
      BY <1>1, <2>1 DEF NInv, KnownInv, FileInv
    <3> QED BY <1>i, <3>1
  <2>2. CASE ipState'[i] = ipState[i]
    BY <2>2 DEF NInv, ProgrammedInv, InState
  <2> QED BY <1>3, <2>1, <2>2
<1>10. RecordInv' /\ HeldInv'
  BY <1>0, <1>n, <1>u DEF NInv, RecordInv, HeldInv, NoDuplicateIP, OneIPPerFamily
<1> QED BY <1>6, <1>7, <1>8, <1>9, <1>10 DEF NInv

\* What Reconcile does to the IPs of its NC: the known ones and the ones with an
\* entry become the ones of the copy, and none that leaves is Assigned.
LEMMA ReconcileEffect ==
    ASSUME Dependable, NInv, NEW nc \in NCs, Reconcile(nc)
    PROVE  /\ UNCHANGED <<nodeVars, podIPs, endpoint, endpointStore, thr, granted>>
           /\ csStore' = cs' /\ cs'.host = cs.host
           /\ init' = IF Serving THEN init ELSE [init EXCEPT !.created = @ \cup {nc}]
           /\ Serving \/ (init.phase = "create" /\ nc \notin init.created)
           /\ \A i \in IPs : NCOf[i] # nc => cs'.sec[i] = cs.sec[i] /\ ipState'[i] = ipState[i]
           /\ \A i \in IPs : NCOf[i] = nc /\ i \notin view.ips => cs'.sec[i] = NoVersion /\ ipState'[i] = "None"
           /\ \A i \in IPs : NCOf[i] = nc /\ i \in view.ips =>
                 /\ cs'.sec[i] = IF i \in SecondaryIPs THEN cs.sec[i] ELSE view.version[nc]
                 /\ ipState[i] # "None" => ipState'[i] = ipState[i]
                 /\ ipState[i] = "None" =>
                       ipState'[i] = IF cs.host[nc] < cs'.sec[i] THEN "PendingProgramming" ELSE "Available"
<1> USE NodeTypeFacts
<1> DEFINE S == view.ips \cap IPsOf(nc)
           v == view.version[nc]
           old == SecondaryIPs \cap IPsOf(nc)
           deleted == old \ S
           ver == [i \in IPs |-> IF i \in old THEN cs.sec[i] ELSE v]
           added == S \ Existing
<1>1. CreateOrUpdateNetworkContainer(nc, S, v) /\ UNCHANGED nodeVars
  BY DEF Reconcile
<1>2. deleted \cap InState({"Assigned"}) = {}
  <2> SUFFICES ASSUME NEW i \in IPs, i \in deleted, ipState[i] = "Assigned" PROVE FALSE
    BY DEF InState
  <2>1. i \in SecondaryIPs /\ i \notin view.ips
    BY DEF IPsOf
  <2>2. i \in nnc.notInUse
    BY <2>1 DEF NInv, KnownInv
  <2>3. PICK p \in Pods : i \in podIPs[p]
    BY DEF NInv, SInv, IndexComplete
  <2>4. CASE Serving
    BY <2>1, <2>2, <2>4 DEF NInv, ListedInv
  <2>5. CASE ~Serving
    BY <2>2, <2>3, <2>5 DEF NInv, HeldInv, RecordInv
  <2> QED BY <2>4, <2>5
<1>3. StoreWrite = {TRUE}
  BY DEF Dependable, StoreWrite, Outcomes
<1>4. /\ cs' = GoalState(nc, S, v, ver) /\ csStore' = cs'
      /\ ipState' = [i \in IPs |->
            IF i \in deleted THEN "None"
            ELSE IF i \in added
                 THEN IF cs.host[nc] < ver[i] THEN "PendingProgramming" ELSE "Available"
            ELSE ipState[i]]
      /\ init' = IF Serving THEN init ELSE [init EXCEPT !.created = @ \cup {nc}]
      /\ Serving \/ (init.phase = "create" /\ nc \notin init.created)
      /\ UNCHANGED <<podIPs, endpoint, endpointStore, thr, granted>>
  BY <1>1, <1>2, <1>3 DEF CreateOrUpdateNetworkContainer
<1>s. \A i \in IPs : /\ i \in S <=> i \in view.ips /\ NCOf[i] = nc
                     /\ i \in old <=> i \in SecondaryIPs /\ NCOf[i] = nc
  BY DEF IPsOf
<1>e. \A i \in IPs : (i \in Existing <=> ipState[i] # "None") /\ (i \in Existing => i \in SecondaryIPs)
  BY ExistingIsNotNone DEF NInv, TableInv
<1> HIDE DEF S, v, old
<1>5. /\ cs'.host = cs.host
      /\ cs'.sec = [i \in IPs |-> IF NCOf[i] # nc THEN cs.sec[i]
                                  ELSE IF i \in S THEN ver[i] ELSE NoVersion]
  BY <1>4 DEF GoalState, ContainerStatus
<1>6. \A i \in IPs : NCOf[i] # nc => cs'.sec[i] = cs.sec[i] /\ ipState'[i] = ipState[i]
  BY <1>4, <1>5, <1>s
<1>7. \A i \in IPs : NCOf[i] = nc /\ i \notin view.ips => cs'.sec[i] = NoVersion /\ ipState'[i] = "None"
  BY <1>4, <1>5, <1>s, <1>e
<1>8. ASSUME NEW i \in IPs, NCOf[i] = nc, i \in view.ips
      PROVE  /\ cs'.sec[i] = IF i \in SecondaryIPs THEN cs.sec[i] ELSE view.version[nc]
             /\ ipState[i] # "None" => ipState'[i] = ipState[i]
             /\ ipState[i] = "None" =>
                   ipState'[i] = IF cs.host[nc] < cs'.sec[i] THEN "PendingProgramming" ELSE "Available"
  <2>1. i \in S /\ (i \in old <=> i \in SecondaryIPs) /\ i \notin deleted
    BY <1>8, <1>s
  <2>2. cs'.sec[i] = ver[i] /\ ver[i] = IF i \in SecondaryIPs THEN cs.sec[i] ELSE view.version[nc]
    BY <1>5, <1>8, <2>1 DEF v
  <2>3. i \in added <=> ipState[i] = "None"
    BY <1>e, <2>1
  <2> QED BY <1>4, <2>1, <2>2, <2>3
<1> QED BY <1>1, <1>4, <1>5, <1>6, <1>7, <1>8

\* The reconciler applies its copy of the NNC.
LEMMA ReconcileKeepsNInv ==
    ASSUME Dependable, NInv, SInv', NEW nc \in NCs, Reconcile(nc)
    PROVE  NInv'
<1> USE NodeTypeFacts
<1>0. /\ UNCHANGED <<podIPs, endpoint, endpointStore, thr, granted>>
      /\ csStore' = cs' /\ cs'.host = cs.host
      /\ init' = IF Serving THEN init ELSE [init EXCEPT !.created = @ \cup {nc}]
      /\ Serving \/ (init.phase = "create" /\ nc \notin init.created)
  BY ReconcileEffect
<1>1. \A i \in IPs : NCOf[i] # nc => cs'.sec[i] = cs.sec[i] /\ ipState'[i] = ipState[i]
  BY ReconcileEffect
<1>2. \A i \in IPs : NCOf[i] = nc /\ i \notin view.ips => cs'.sec[i] = NoVersion /\ ipState'[i] = "None"
  BY ReconcileEffect
<1>3. \A i \in IPs : NCOf[i] = nc /\ i \in view.ips =>
         /\ cs'.sec[i] = IF i \in SecondaryIPs THEN cs.sec[i] ELSE view.version[nc]
         /\ ipState[i] # "None" => ipState'[i] = ipState[i]
         /\ ipState[i] = "None" =>
               ipState'[i] = IF cs.host[nc] < cs'.sec[i] THEN "PendingProgramming" ELSE "Available"
  BY ReconcileEffect
<1>n. UNCHANGED <<nnc, addedAt, view, nma, patch, restarts>>
  BY ReconcileEffect DEF nodeVars
<1>t. ipState' \in [IPs -> IPStates]
  BY DEF SInv, IInv, TypeOK
<1>i. /\ \A i \in IPs : /\ cs.sec[i] \in Int /\ csStore.sec[i] \in Int /\ addedAt[i] \in Int
                        /\ nma[NCOf[i]] \in Int /\ view.version[NCOf[i]] \in Int /\ cs.host[NCOf[i]] \in Int
      /\ \A i \in IPs : view.version[NCOf[i]] # NoVersion
  <2>1. \A v \in Versions \cup {NoVersion} : v \in Int
    BY DEF Versions, NoVersion
  <2>2. \A v \in Versions : v # NoVersion
    BY DEF Versions, NoVersion
  <2>3. /\ \A i \in IPs : cs.sec[i] \in Versions \cup {NoVersion} /\ csStore.sec[i] \in Versions \cup {NoVersion}
        /\ \A i \in IPs : cs.host[NCOf[i]] \in Versions \cup {NoVersion}
    BY DEF ContainerStatus
  <2>4. \A i \in IPs : /\ addedAt[i] \in Versions \cup {NoVersion}
                       /\ nma[NCOf[i]] \in Versions \cup {NoVersion}
    BY DEF NInv, NodeTypes
  <2>5. \A i \in IPs : view.version[NCOf[i]] \in Versions
    BY DEF NInv, NodeTypes, NNC
  <2> QED BY <2>1, <2>2, <2>3, <2>4, <2>5
<1>s. Serving' <=> Serving
  BY <1>0 DEF Serving, FirstReconcile
<1>k. \A i \in IPs : /\ i \in SecondaryIPs' <=> cs'.sec[i] # NoVersion
                     /\ i \in SecondaryIPs <=> cs.sec[i] # NoVersion
                     /\ i \in Existing' <=> ipState'[i] # "None"
                     /\ i \in Existing <=> ipState[i] # "None"
                     /\ i \in Existing => i \in SecondaryIPs
  <2>1. \A i \in IPs : i \in Existing' <=> ipState'[i] # "None"
    BY <1>t DEF Existing, InState
  <2> QED BY <2>1, ExistingIsNotNone DEF SecondaryIPs, NInv, TableInv
<1>4. \A i \in IPs : i \in SecondaryIPs' <=> IF NCOf[i] = nc THEN i \in view.ips ELSE i \in SecondaryIPs
  BY <1>1, <1>2, <1>3, <1>i, <1>k
<1>5. NodeTypes' /\ AllocInv' /\ ViewInv'
  BY <1>n, <1>s DEF NInv, NodeTypes, AllocInv, ViewInv
<1>6. \A i \in IPs : i \in SecondaryIPs' /\ i \notin nnc.notInUse => addedAt[i] <= cs'.sec[i]
  <2> SUFFICES ASSUME NEW i \in IPs, i \in SecondaryIPs', i \notin nnc.notInUse
               PROVE  addedAt[i] <= cs'.sec[i]
    OBVIOUS
  <2>1. CASE i \in SecondaryIPs
    <3>1. addedAt[i] <= csStore.sec[i] /\ csStore.sec[i] <= cs.sec[i]
      BY <2>1 DEF NInv, KnownInv, FileInv
    <3>2. cs'.sec[i] = cs.sec[i]
      BY <1>1, <1>3, <1>4, <2>1
    <3> QED BY <1>i, <3>1, <3>2
  <2>2. CASE i \notin SecondaryIPs
    <3>1. NCOf[i] = nc /\ i \in view.ips /\ cs'.sec[i] = view.version[nc]
      BY <1>3, <1>4, <2>2
    <3> QED BY <3>1 DEF NInv, ViewInv
  <2> QED BY <2>1, <2>2
<1>7. KnownInv'
  <2>1. \A i \in nnc.notInUse : i \notin SecondaryIPs' => i \notin nnc.ips /\ i \notin view.ips
    BY <1>4 DEF NInv, KnownInv, ViewInv
  <2>2. \A i \in IPs : i \in SecondaryIPs' /\ i \notin nnc.notInUse => i \in nnc.ips /\ i \in view.ips
    BY <1>4 DEF NInv, KnownInv, ViewInv
  <2>3. \A i \in SecondaryIPs' : i \in IPs
    BY DEF SecondaryIPs
  <2> QED BY <1>0, <1>6, <1>n, <2>1, <2>2, <2>3 DEF KnownInv
<1>8. FileInv'
  <2>1. \A i \in IPs : cs'.sec[i] \in Int
    BY <1>1, <1>2, <1>3, <1>i DEF NoVersion
  <2> QED BY <1>0, <1>n, <2>1 DEF NInv, FileInv
<1>9. TableInv'
  <2>1. \A i \in IPs : i \in Existing' => i \in SecondaryIPs'
    BY <1>1, <1>2, <1>4, <1>k
  <2>2. \A i \in IPs : NCOf[i] = nc /\ i \in SecondaryIPs' => i \in Existing'
    BY <1>3, <1>4, <1>k
  <2>3. \A i \in IPs : NCOf[i] # nc => (i \in SecondaryIPs' <=> i \in SecondaryIPs) /\ (i \in Existing' <=> i \in Existing)
    BY <1>1, <1>4, <1>k
  <2>4. CASE Serving
    <3>1. init' = init /\ init.phase = "serving"
      BY <1>0, <2>4 DEF Serving
    <3>2. \A i \in IPs : i \in SecondaryIPs' => i \in Existing'
      BY <2>2, <2>3, <3>1 DEF NInv, TableInv
    <3> QED BY <2>1, <3>1, <3>2 DEF TableInv, Existing, SecondaryIPs, InState
  <2>5. CASE ~Serving
    <3>1. init'.phase = "create" /\ init'.created = init.created \cup {nc} /\ init.phase = "create"
      BY <1>0, <2>5 DEF FirstReconcile
    <3>2. \A i \in IPs : i \in SecondaryIPs' /\ NCOf[i] \in init'.created => i \in Existing'
      BY <2>2, <2>3, <3>1 DEF NInv, TableInv
    <3> QED BY <2>1, <3>1, <3>2 DEF TableInv, Existing, SecondaryIPs, InState
  <2> QED BY <2>4, <2>5
<1>10. \A i \in IPs : ipState[i] = "PendingRelease" /\ i \in view.ips => ipState'[i] = "PendingRelease"
  BY <1>1, <1>3
<1>11. ListedInv'
  <2> SUFFICES ASSUME Serving, NEW i \in nnc.notInUse, i \in SecondaryIPs'
               PROVE  ipState'[i] = "PendingRelease"
    BY <1>n, <1>s DEF ListedInv
  <2>1. i \in SecondaryIPs
    BY <1>4 DEF NInv, KnownInv
  <2>2. ipState[i] = "PendingRelease"
    BY <2>1 DEF NInv, ListedInv
  <2> QED BY <1>1, <1>4, <1>10, <2>2
<1>12. PatchInv'
  <2> SUFFICES ASSUME patch # <<>>
               PROVE  /\ Serving
                      /\ \A i \in patch[1] \ nnc.notInUse : ipState'[i] = "PendingRelease"
                      /\ nnc.notInUse \cap SecondaryIPs' \subseteq patch[1]
    BY <1>n, <1>s DEF PatchInv
  <2>1. /\ Serving
        /\ \A i \in patch[1] \ nnc.notInUse : ipState[i] = "PendingRelease"
        /\ nnc.notInUse \cap SecondaryIPs \subseteq patch[1]
    BY DEF NInv, PatchInv
  <2>2. patch[1] \in SUBSET IPs
    <3>1. ASSUME NEW T \in SUBSET IPs, patch = <<T>> PROVE patch[1] \in SUBSET IPs
      BY <3>1
    <3> QED BY <3>1 DEF NInv, NodeTypes
  <2>3. ASSUME NEW i \in patch[1] \ nnc.notInUse PROVE ipState'[i] = "PendingRelease"
    <3>1. i \in IPs /\ i \in SecondaryIPs
      BY <2>1, <2>2, <1>k
    <3>2. i \in view.ips
      BY <3>1 DEF NInv, KnownInv
    <3> QED BY <1>10, <2>1, <3>1, <3>2
  <2>4. \A i \in nnc.notInUse : i \in SecondaryIPs' => i \in SecondaryIPs
    BY <1>4 DEF NInv, KnownInv
  <2> QED BY <2>1, <2>3, <2>4
<1>13. ProgrammedInv'
  <2> SUFFICES ASSUME NEW i \in IPs, ipState'[i] \in {"Available", "Assigned"}, i \notin nnc.notInUse
               PROVE  addedAt[i] <= nma[NCOf[i]]
    BY <1>n DEF ProgrammedInv, InState
  <2>1. CASE ipState'[i] = ipState[i]
    BY <2>1 DEF NInv, ProgrammedInv, InState
  <2>2. CASE ipState'[i] # ipState[i]
    <3>1. NCOf[i] = nc /\ i \in view.ips /\ ~(cs.host[nc] < cs'.sec[i])
      BY <1>1, <1>2, <1>3, <2>2
    <3>2. cs.host[nc] <= nma[nc]
      BY DEF NInv, FileInv
    <3>3. i \in SecondaryIPs' /\ cs'.sec[i] \in Int
      BY <1>3, <1>4, <1>i, <3>1
    <3>4. addedAt[i] <= cs'.sec[i]
      BY <1>6, <3>3
    <3>5. addedAt[i] \in Int /\ nma[nc] \in Int /\ cs.host[nc] \in Int
      BY <1>i, <3>1
    <3> QED BY <3>1, <3>2, <3>3, <3>4, <3>5
  <2> QED BY <2>1, <2>2
<1>14. RecordInv'
  <2>1. \A p \in Pods : \A i \in endpointStore[p] : i \in SecondaryIPs'
    <3>1. \A p \in Pods : \A i \in endpointStore[p] : i \in IPs /\ i \in SecondaryIPs /\ i \in view.ips
      BY DEF NInv, RecordInv, KnownInv
    <3> QED BY <1>4, <3>1
  <2> QED BY <1>0, <1>n, <2>1 DEF NInv, RecordInv, NoDuplicateIP, OneIPPerFamily
<1>15. HeldInv'
  <2>1. init'.phase = "assign" => FALSE
    BY <1>0 DEF Serving, FirstReconcile
  <2> QED BY <1>0, <1>s, <2>1 DEF NInv, HeldInv
<1> QED BY <1>5, <1>7, <1>8, <1>9, <1>11, <1>12, <1>13, <1>14, <1>15 DEF NInv

-----------------------------------------------------------------------------
(* A new process *)

\* The process stops: the files stay, and the new process lists the NNC afresh.
LEMMA RestartKeepsNInv ==
    ASSUME NInv, SInv', NodeRestart
    PROVE  NInv'
<1> USE NodeTypeFacts
<1>0. /\ UNCHANGED <<nnc, addedAt, nma, csStore, endpointStore, granted>>
      /\ view' = nnc /\ patch' = <<>> /\ cs' = csStore /\ endpoint' = endpointStore /\ init' = Boot
      /\ ipState' = [i \in IPs |-> "None"] /\ podIPs' = [p \in Pods |-> {}]
      /\ thr' = [t \in Threads |-> Idle]
  BY DEF NodeRestart, Restart
<1>1. restarts' \in 0 .. MaxRestarts
  BY MaxRestartsAssumption DEF NodeRestart, NInv, NodeTypes
<1>2. ~Serving' /\ init'.phase = "boot"
  BY <1>0 DEF Serving, Boot
<1>3. SecondaryIPs' = SecondaryIPs
  BY <1>0 DEF SecondaryIPs, NInv, FileInv
<1>4. NodeTypes' /\ AllocInv'
  BY <1>0, <1>1 DEF NInv, NodeTypes, AllocInv
<1>5. ViewInv' /\ KnownInv'
  BY <1>0, <1>3 DEF NInv, AllocInv, ViewInv, KnownInv
<1>6. FileInv'
  <2>1. \A i \in IPs : csStore.sec[i] \in Int
    BY DEF ContainerStatus, Versions, NoVersion
  <2> QED BY <1>0, <2>1 DEF NInv, FileInv
<1>7. Existing' = {} /\ InState({"Available", "Assigned"})' = {}
  BY <1>0 DEF Existing, InState, IPStates
<1>8. PatchInv' /\ TableInv' /\ ListedInv' /\ ProgrammedInv'
  BY <1>0, <1>2, <1>7 DEF Boot, PatchInv, TableInv, ListedInv, ProgrammedInv
<1>9. RecordInv'
  BY <1>0, <1>3 DEF NInv, RecordInv, NoDuplicateIP, OneIPPerFamily
<1>10. HeldInv'
  BY <1>0, <1>2 DEF HeldInv, Idle
<1> QED BY <1>4, <1>5, <1>6, <1>8, <1>9, <1>10 DEF NInv

\* A step of the first reconcile that only changes its progress.
LEMMA ProgressKeepsNInv ==
    ASSUME NInv, SInv', UNCHANGED nodeVars, ~Serving, ~Serving',
           UNCHANGED <<ipState, podInfo, podIPs, cs, csStore, endpoint, endpointStore, thr, granted>>,
           TableInv', HeldInv'
    PROVE  NInv'
<1> USE NodeTypeFacts
<1>n. UNCHANGED <<nnc, addedAt, view, nma, patch, restarts>>
  BY DEF nodeVars
<1>u. SecondaryIPs' = SecondaryIPs /\ \A T : InState(T)' = InState(T)
  BY DEF SecondaryIPs, InState
<1>1. NodeTypes' /\ AllocInv' /\ ViewInv' /\ KnownInv' /\ FileInv'
  BY <1>n, <1>u DEF NInv, NodeTypes, AllocInv, ViewInv, KnownInv, FileInv
<1>2. PatchInv' /\ ListedInv'
  BY <1>n DEF NInv, PatchInv, ListedInv
<1>3. ProgrammedInv' /\ RecordInv'
  BY <1>n, <1>u DEF NInv, ProgrammedInv, RecordInv, NoDuplicateIP, OneIPPerFamily
<1> QED BY <1>1, <1>2, <1>3 DEF NInv

\* The first reconcile reads the endpoint file; then, with every NC created, it
\* finds the pods that have recorded IPs.
LEMMA BeginKeepsNInv ==
    ASSUME NInv, SInv', UNCHANGED nodeVars, PodInfoByIP \/ ReconcileInitialState
    PROVE  NInv'
<1> USE NodeTypeFacts
<1>0. UNCHANGED <<ipState, podInfo, podIPs, cs, csStore, endpoint, endpointStore, thr, granted>> /\ ~Serving
  BY DEF PodInfoByIP, ReconcileInitialState, ReconcileIPAssignment, Serving
<1>u. UNCHANGED <<SecondaryIPs, Existing>>
  BY <1>0 DEF SecondaryIPs, Existing, InState
<1>1. CASE PodInfoByIP
  <2>1. init.phase = "boot" /\ init'.phase = "create" /\ init'.created = init.created
    BY <1>1 DEF PodInfoByIP, FirstReconcile
  <2>2. TableInv' /\ HeldInv' /\ ~Serving'
    BY <1>0, <1>u, <2>1 DEF NInv, TableInv, HeldInv, Serving
  <2> QED BY <1>0, <2>2, ProgressKeepsNInv
<1>2. CASE ReconcileInitialState
  <2>1. init.phase = "create" /\ cs.ncs = init.created /\ cs.ncs = NCs
        /\ init' = IF \A p \in Pods : OneIPPerFamily(endpointStore[p])
                     THEN [phase |-> "assign", created |-> {},
                           todo |-> {p \in Pods : endpointStore[p] \cap SecondaryIPs # {}}]
                     ELSE Boot
    BY <1>2 DEF ReconcileInitialState, ReconcileIPAssignment
  <2>2. init' = [phase |-> "assign", created |-> {},
                 todo |-> {p \in Pods : endpointStore[p] \cap SecondaryIPs # {}}]
    BY <2>1 DEF NInv, RecordInv
  <2>3. init'.phase = "assign" /\ ~Serving'
    BY <2>2 DEF Serving
  <2>4. TableInv'
    <3>1. \A i \in SecondaryIPs : NCOf[i] \in init.created
      BY <2>1 DEF SecondaryIPs
    <3>2. SecondaryIPs \subseteq Existing
      BY <2>1, <3>1 DEF NInv, TableInv
    <3> QED BY <1>u, <2>3, <3>2 DEF NInv, TableInv
  <2>5. \A p \in Pods \ init'.todo : podIPs[p] = endpointStore[p]
    <3>1. \A p \in Pods : endpointStore[p] \cap SecondaryIPs = endpointStore[p]
      BY DEF NInv, RecordInv
    <3>2. \A p \in Pods : podIPs[p] \in {{}, endpointStore[p]}
      BY <1>0 DEF NInv, HeldInv
    <3>3. \A p \in Pods \ init'.todo : endpointStore[p] = {}
      BY <2>2, <3>1
    <3> QED BY <3>2, <3>3
  <2>6. HeldInv'
    BY <1>0, <2>3, <2>5 DEF NInv, HeldInv
  <2> QED BY <1>0, <2>3, <2>4, <2>6, ProgressKeepsNInv
<1> QED BY <1>1, <1>2

\* One pod gets its recorded IPs, or the attempt ends and the pod has none.
LEMMA PodReconciled ==
    ASSUME NInv, NEW p \in Pods, ReconcilePod(p)
    PROVE  /\ init.phase = "assign" /\ p \in init.todo
           /\ init' = Boot \/ (init' = [init EXCEPT !.todo = @ \ {p}] /\ podIPs'[p] = endpointStore[p])
           /\ podIPs'[p] \in {{}, endpointStore[p]} /\ \A q \in Pods \ {p} : podIPs'[q] = podIPs[q]
           /\ \A i \in IPs : \/ ipState'[i] = ipState[i]
                             \/ /\ i \in endpointStore[p] /\ ipState[i] \in {"PendingProgramming", "Available"}
                                /\ ipState'[i] \in {"Available", "Assigned"}
<1> USE NodeTypeFacts
<1> DEFINE D == endpointStore[p] \cap SecondaryIPs
           new == D \ InState({"Assigned"})
<1>1. init.phase = "assign" /\ p \in init.todo /\ ~Serving
  BY DEF ReconcilePod, Serving
<1>2. PICK iface \in HostIface, ok \in BOOLEAN :
          /\ IF podIPs[p] # {}
                THEN UNCHANGED ipamVars
                ELSE AssignDesiredIPConfigs(p, D, iface, ok)
          /\ init' = IF ok THEN [init EXCEPT !.todo = @ \ {p}] ELSE Boot
  BY DEF ReconcilePod
<1>3. D = endpointStore[p] /\ \A q \in Pods : podIPs[q] \in {{}, endpointStore[q]}
  BY <1>1 DEF NInv, RecordInv, HeldInv
<1>4. CASE podIPs[p] # {}
  BY <1>1, <1>2, <1>3, <1>4 DEF ipamVars
<1>5. CASE podIPs[p] = {}
  <2>1. new = endpointStore[p]
    <3> SUFFICES ASSUME NEW i \in endpointStore[p], ipState[i] = "Assigned" PROVE FALSE
      BY <1>3 DEF InState
    <3>1. PICK q \in Pods : i \in podIPs[q]
      BY DEF NInv, SInv, IndexComplete
    <3>2. q # p /\ i \in endpointStore[q]
      BY <1>3, <1>5, <3>1
    <3> QED BY <3>2 DEF NInv, RecordInv, NoDuplicateIP
  <2>2. CASE UNCHANGED ipamVars /\ ok = FALSE
    BY <1>1, <1>2, <1>5, <2>2 DEF ipamVars
  <2>3. CASE ~DesiredRefused(p, D, iface) /\ (IF ok THEN assignIPConfig(new, p) ELSE unassignIPConfig(new, p))
    <3>1. \A i \in endpointStore[p] : i \in IPs /\ ipState[i] \in {"PendingProgramming", "Available"}
      <4>1. \A i \in D : ipState[i] \notin {"None", "PendingRelease"}
        BY <2>3 DEF DesiredRefused
      <4>2. \A i \in new : ipState[i] # "Assigned"
        BY DEF InState
      <4> HIDE DEF new, D
      <4> QED BY <1>3, <2>1, <4>1, <4>2 DEF IPStates
    <3> HIDE DEF new, D
    <3>2. podIPs'[p] = (IF ok THEN endpointStore[p] ELSE {}) /\ \A q \in Pods \ {p} : podIPs'[q] = podIPs[q]
      BY <1>5, <2>1, <2>3 DEF assignIPConfig, unassignIPConfig
    <3>3. \E to \in {"Available", "Assigned"} :
             ipState' = [i \in IPs |-> IF i \in endpointStore[p] THEN to ELSE ipState[i]]
      BY <2>1, <2>3 DEF assignIPConfig, unassignIPConfig, updateIPConfigState
    <3> QED BY <1>1, <1>2, <3>1, <3>2, <3>3
  <2> HIDE DEF new
  <2> QED BY <1>2, <1>5, <2>2, <2>3 DEF AssignDesiredIPConfigs, new
<1> QED BY <1>4, <1>5

\* The first reconcile gives a pod its IPs back.
LEMMA ReconcilePodKeepsNInv ==
    ASSUME NInv, SInv', UNCHANGED nodeVars, NEW p \in Pods, ReconcilePod(p)
    PROVE  NInv'
<1> USE NodeTypeFacts
<1>0. /\ init.phase = "assign" /\ p \in init.todo
      /\ init' = Boot \/ (init' = [init EXCEPT !.todo = @ \ {p}] /\ podIPs'[p] = endpointStore[p])
      /\ podIPs'[p] \in {{}, endpointStore[p]} /\ \A q \in Pods \ {p} : podIPs'[q] = podIPs[q]
  BY PodReconciled
<1>1. \A i \in IPs : \/ ipState'[i] = ipState[i]
                     \/ /\ i \in endpointStore[p] /\ ipState[i] \in {"PendingProgramming", "Available"}
                        /\ ipState'[i] \in {"Available", "Assigned"}
  BY PodReconciled
<1>2. UNCHANGED <<cs, csStore, endpoint, endpointStore, thr, granted>>
  BY DEF ReconcilePod
<1>n. UNCHANGED <<nnc, addedAt, view, nma, patch, restarts>>
  BY DEF nodeVars
<1>t. ipState' \in [IPs -> IPStates]
  BY DEF SInv, IInv, TypeOK
<1>s. ~Serving /\ ~Serving'
  BY <1>0 DEF Serving, Boot, FirstReconcile
<1>u. UNCHANGED <<SecondaryIPs, Existing>>
  BY <1>1, <1>2, <1>t, ExistingIsNotNone DEF SecondaryIPs, Existing, InState
<1>3. NodeTypes' /\ AllocInv' /\ ViewInv' /\ KnownInv' /\ FileInv'
  BY <1>2, <1>n, <1>s, <1>u DEF NInv, NodeTypes, AllocInv, ViewInv, KnownInv, FileInv
<1>4. PatchInv' /\ ListedInv'
  BY <1>n, <1>s DEF NInv, PatchInv, ListedInv
<1>5. init'.phase \in {"boot", "assign"} /\ (init'.phase = "boot" => init'.created = {})
      /\ (init'.phase = "assign" => init'.todo = init.todo \ {p} /\ podIPs'[p] = endpointStore[p])
  BY <1>0 DEF Boot, FirstReconcile
<1>6. TableInv'
  BY <1>0, <1>5, <1>u DEF NInv, TableInv
<1>7. ProgrammedInv'
  <2> SUFFICES ASSUME NEW i \in IPs, ipState'[i] \in {"Available", "Assigned"}, i \notin nnc.notInUse
               PROVE  addedAt[i] <= nma[NCOf[i]]
    BY <1>n DEF ProgrammedInv, InState
  <2> QED BY <1>1 DEF NInv, ProgrammedInv, InState, RecordInv
<1>8. \A q \in Pods : podIPs'[q] \in {{}, endpointStore[q]}
  BY <1>0, <1>s DEF NInv, HeldInv
<1>9. RecordInv'
  <2>1. \A q \in Pods : OneIPPerFamily(endpointStore[q]) /\ OneIPPerFamily({})
    BY DEF NInv, RecordInv, OneIPPerFamily
  <2>2. \A q \in Pods : OneIPPerFamily(podIPs'[q])
    BY <1>8, <2>1
  <2> QED BY <1>2, <1>n, <1>u, <2>1, <2>2 DEF NInv, RecordInv, NoDuplicateIP
<1>10. HeldInv'
  <2>1. init'.phase = "assign" => \A q \in Pods \ init'.todo : podIPs'[q] = endpointStore'[q]
    BY <1>0, <1>2, <1>5 DEF NInv, HeldInv
  <2>2. \A t \in Threads : thr'[t].pc \notin {"release", "endpoint"}
    BY <1>2, <1>s DEF NInv, SInv, HandlersSerial, Quiet, Idle
  <2> QED BY <1>2, <1>s, <1>8, <2>1, <2>2 DEF HeldInv
<1> QED BY <1>3, <1>4, <1>6, <1>7, <1>9, <1>10 DEF NInv

\* The IPs that are listed as unused are given out no more, and the service is
\* open: the last step never meets an Assigned one.
LEMMA OpenKeepsNInv ==
    ASSUME NInv, SInv', UNCHANGED nodeVars, MarkExistingIPsAsPendingRelease(view.notInUse)
    PROVE  NInv'
<1> USE NodeTypeFacts
<1>1. init.phase = "assign" /\ init.todo = {} /\ ~Serving
      /\ UNCHANGED <<podInfo, podIPs, cs, csStore, endpoint, endpointStore, thr, granted>>
  BY DEF MarkExistingIPsAsPendingRelease, Serving
<1>2. view.notInUse = nnc.notInUse
  BY <1>1 DEF NInv, ViewInv
<1>3. nnc.notInUse \cap InState({"Assigned"}) = {}
  <2> SUFFICES ASSUME NEW i \in nnc.notInUse, ipState[i] = "Assigned" PROVE FALSE
    BY DEF InState
  <2>1. PICK p \in Pods : i \in podIPs[p]
    BY DEF NInv, SInv, IndexComplete
  <2> QED BY <1>1, <2>1 DEF NInv, HeldInv, RecordInv
<1>4. /\ ipState' = [i \in IPs |-> IF i \in nnc.notInUse \cap Existing THEN "PendingRelease" ELSE ipState[i]]
      /\ init' = [Boot EXCEPT !.phase = "serving"]
  BY <1>2, <1>3 DEF MarkExistingIPsAsPendingRelease
<1>s. Serving' /\ init'.phase = "serving"
  BY <1>4 DEF Serving, Boot
<1>n. UNCHANGED <<nnc, addedAt, view, nma, patch, restarts>>
  BY DEF nodeVars
<1>t. ipState' \in [IPs -> IPStates]
  BY DEF SInv, IInv, TypeOK
<1>u. UNCHANGED <<SecondaryIPs, Existing>>
  BY <1>1, <1>4, <1>t, ExistingIsNotNone DEF SecondaryIPs, Existing, InState
<1>5. NodeTypes' /\ AllocInv' /\ ViewInv' /\ KnownInv' /\ FileInv'
  BY <1>1, <1>n, <1>s, <1>u DEF NInv, NodeTypes, AllocInv, ViewInv, KnownInv, FileInv
<1>6. TableInv'
  BY <1>1, <1>s, <1>u DEF NInv, TableInv
<1>7. ListedInv'
  BY <1>1, <1>4, <1>n, <1>u DEF NInv, TableInv, ListedInv
<1>8. PatchInv'
  BY <1>1, <1>n DEF NInv, PatchInv
<1>9. ProgrammedInv'
  BY <1>4, <1>n DEF NInv, ProgrammedInv, InState
<1>10. RecordInv'
  BY <1>1, <1>n, <1>u DEF NInv, RecordInv, NoDuplicateIP, OneIPPerFamily
<1>11. HeldInv'
  <2>1. \A p \in Pods : podIPs[p] = endpointStore[p]
    BY <1>1 DEF NInv, HeldInv
  <2>2. \A t \in Threads : thr'[t].pc \notin {"release", "endpoint"}
    BY <1>1 DEF NInv, SInv, HandlersSerial, Quiet, Idle
  <2> QED BY <1>1, <1>s, <2>1, <2>2 DEF HeldInv
<1> QED BY <1>5, <1>6, <1>7, <1>8, <1>9, <1>10, <1>11 DEF NInv

-----------------------------------------------------------------------------
(* The invariant holds *)

\* A node whose NCs are published and whose CNS has never run.
LEMMA NInvInit == NodeInit => NInv
<1> SUFFICES ASSUME NodeInit PROVE NInv
  OBVIOUS
<1>0. PICK S \in SUBSET IPs :
        /\ nnc = [version |-> [nc \in NCs |-> 0], ips |-> S, notInUse |-> {}]
        /\ addedAt = [i \in IPs |-> IF i \in S THEN 0 ELSE NoVersion]
  BY DEF NodeInit
<1>1. Init /\ view = nnc /\ nma = [nc \in NCs |-> NoVersion] /\ patch = <<>> /\ restarts = 0
  BY DEF NodeInit
<1>2. 0 \in Versions /\ restarts \in 0 .. MaxRestarts
  BY <1>1, ConstantsAssumption, MaxRestartsAssumption DEF Versions
<1>3. nnc \in NNC /\ nnc.ips = S /\ nnc.notInUse = {} /\ nnc.version = [nc \in NCs |-> 0]
  BY <1>0, <1>2 DEF NNC
<1>4. NodeTypes
  BY <1>0, <1>1, <1>2, <1>3 DEF NodeTypes
<1>5. SInv
  BY <1>1, SInvInit
<1>6. AllocInv
  BY <1>0, <1>3, ConstantsAssumption DEF AllocInv, NoVersion
<1>7. /\ cs.sec = [i \in IPs |-> NoVersion] /\ cs.host = [nc \in NCs |-> NoVersion] /\ csStore = cs
      /\ init.phase = "boot" /\ init.created = {} /\ init.todo = {}
      /\ ipState = [i \in IPs |-> "None"] /\ podIPs = [p \in Pods |-> {}] /\ endpoint = endpointStore
      /\ endpointStore = [p \in Pods |-> {}] /\ granted = [p \in Pods |-> {}]
      /\ thr = [t \in Threads |-> Idle]
  BY <1>1 DEF Init, NoNCs, Boot
<1>8. SecondaryIPs = {} /\ Existing = {} /\ ~Serving /\ InState({"Available", "Assigned"}) = {}
  BY <1>7 DEF SecondaryIPs, Existing, Serving, InState
<1>9. ViewInv /\ KnownInv
  BY <1>0, <1>1, <1>3, <1>8, ConstantsAssumption DEF ViewInv, KnownInv
<1>10. FileInv
  BY <1>1, <1>7 DEF FileInv, NoVersion
<1>11. PatchInv /\ TableInv /\ ListedInv /\ ProgrammedInv
  BY <1>1, <1>7, <1>8 DEF PatchInv, TableInv, ListedInv, ProgrammedInv
<1>12. RecordInv
  BY <1>7 DEF RecordInv, NoDuplicateIP, OneIPPerFamily
<1>13. HeldInv
  BY <1>7, <1>8 DEF HeldInv, Idle
<1> QED BY <1>4, <1>5, <1>6, <1>9, <1>10, <1>11, <1>12, <1>13 DEF NInv

\* What a step of the node does to CNS is a step of CNS.
LEMMA NodeStepIsCNSStep ==
    ASSUME NodeTypes, [NodeNext]_allVars
    PROVE  [Next]_vars
<1>0. /\ view.ips \in SUBSET IPs /\ view.notInUse \in SUBSET IPs /\ view.version \in [NCs -> Versions]
      /\ nma \in [NCs -> Versions \cup {NoVersion}]
  BY DEF NodeTypes, NNC
<1>1. CASE (Request \/ Release \/ EndpointAPI) /\ UNCHANGED nodeVars
  BY <1>1 DEF Next
<1>2. CASE Environment
  BY <1>2 DEF Environment, DNCAllocate, DNCReclaim, NMAProgram, Deliver
<1>3. CASE Pool
  <2>1. ASSUME NEW n \in 1 .. Cardinality(IPs), MarkIPAsPendingRelease(n) PROVE Next
    <3>1. n \in 0 .. Cardinality(IPs)
      OBVIOUS
    <3> QED BY <2>1, <3>1 DEF Next, Controllers
  <2>2. CASE ReadPendingRelease \/ PatchSpec
    BY <2>2 DEF ReadPendingRelease, PatchSpec
  <2> QED BY <1>3, <2>1, <2>2 DEF Pool
<1>4. CASE Initialise
  <2>1. CASE PodInfoByIP \/ ReconcileInitialState \/ \E p \in Pods : ReconcilePod(p)
    BY <2>1 DEF Next, Start, ReconcileInitialState
  <2>2. ASSUME NEW nc \in NCs, Reconcile(nc) PROVE Next
    <3>1. view.ips \cap IPsOf(nc) \in SUBSET IPs /\ view.version[nc] \in Versions
      BY <1>0
    <3>2. CreateOrUpdateNetworkContainer(nc, view.ips \cap IPsOf(nc), view.version[nc])
      BY <2>2 DEF Reconcile
    <3> QED BY <3>1, <3>2 DEF Next, Controllers
  <2>3. CASE MarkExistingIPsAsPendingRelease(view.notInUse)
    BY <1>0, <2>3 DEF Next, Start
  <2> QED BY <1>4, <2>1, <2>2, <2>3 DEF Initialise
<1>5. CASE SyncHostNCVersion(nma)
  BY <1>0, <1>5 DEF Next, Controllers
<1>6. CASE NodeRestart
  BY <1>6 DEF NodeRestart, Next, Start
<1>7. CASE UNCHANGED allVars
  BY <1>7 DEF allVars
<1> QED BY <1>1, <1>2, <1>3, <1>4, <1>5, <1>6, <1>7 DEF NodeNext

\* The node's own state keeps its types, whatever fails and overlaps.
LEMMA NextKeepsNodeTypes == NodeTypes /\ [NodeNext]_allVars => NodeTypes'
<1> SUFFICES ASSUME NodeTypes, [NodeNext]_allVars PROVE NodeTypes'
  OBVIOUS
<1>0. /\ nnc \in NNC /\ view \in NNC /\ nnc.ips \in SUBSET IPs /\ nnc.version \in [NCs -> Versions]
      /\ addedAt \in [IPs -> Versions \cup {NoVersion}] /\ nma \in [NCs -> Versions \cup {NoVersion}]
  BY DEF NodeTypes, NNC
<1>u. ASSUME UNCHANGED nodeVars PROVE NodeTypes'
  BY <1>u DEF NodeTypes, nodeVars
<1>p. ASSUME NEW nc \in NCs, NEW S \in SUBSET IPs, Publish(nc, S)
      PROVE  nnc' \in NNC /\ nnc'.version[nc] \in Versions
  <2>1. nnc' = [nnc EXCEPT !.version = [nnc.version EXCEPT ![nc] = nnc.version[nc] + 1], !.ips = S]
    BY <1>p DEF Publish
  <2>2. nnc.version[nc] + 1 \in Versions
    BY <1>0, <1>p, ConstantsAssumption DEF Publish, Versions
  <2>3. [nnc.version EXCEPT ![nc] = nnc.version[nc] + 1] \in [NCs -> Versions]
    BY <1>0, <2>2
  <2> QED BY <1>0, <2>1, <2>2, <2>3 DEF NNC
<1>1. ASSUME NEW nc \in NCs, DNCAllocate(nc) PROVE NodeTypes'
  <2>1. PICK S \in SUBSET IPs :
          /\ Publish(nc, nnc.ips \cup S)
          /\ addedAt' = [i \in IPs |-> IF i \in S THEN nnc'.version[nc] ELSE addedAt[i]]
    BY <1>1 DEF DNCAllocate, IPsOf
  <2>2. nnc' \in NNC /\ nnc'.version[nc] \in Versions
    BY <1>0, <1>p, <2>1
  <2> QED BY <1>0, <1>1, <2>1, <2>2 DEF DNCAllocate, NodeTypes
<1>2. ASSUME NEW nc \in NCs, DNCReclaim(nc) PROVE NodeTypes'
  <2>1. PICK S \in SUBSET IPs :
          /\ Publish(nc, nnc.ips \ S)
          /\ addedAt' = [i \in IPs |-> IF i \in S THEN NoVersion ELSE addedAt[i]]
    BY <1>2 DEF DNCReclaim, IPsOf
  <2>2. nnc' \in NNC
    BY <1>0, <1>p, <2>1
  <2> QED BY <1>0, <1>2, <2>1, <2>2 DEF DNCReclaim, NodeTypes
<1>3. ASSUME NEW nc \in NCs, NMAProgram(nc) PROVE NodeTypes'
  <2>1. nma[nc] + 1 \in Versions
    BY <1>0, <1>3, ConstantsAssumption DEF NMAProgram, Versions, NoVersion
  <2>2. nma' \in [NCs -> Versions \cup {NoVersion}]
    BY <1>0, <1>3, <2>1 DEF NMAProgram
  <2> QED BY <1>3, <2>2 DEF NMAProgram, NodeTypes
<1>4. CASE Deliver
  BY <1>4 DEF Deliver, NodeTypes
<1>5. CASE ReadPendingRelease
  BY <1>5 DEF ReadPendingRelease, NodeTypes, InState
<1>6. CASE PatchSpec
  <2>1. PICK L \in SUBSET IPs : patch = <<L>>
    BY <1>6 DEF PatchSpec, NodeTypes
  <2>2. nnc' = [nnc EXCEPT !.notInUse = L]
    BY <1>6, <2>1 DEF PatchSpec
  <2>3. nnc' \in NNC
    BY <1>0, <2>2 DEF NNC
  <2> QED BY <1>6, <2>3 DEF PatchSpec, NodeTypes
<1>7. CASE NodeRestart
  BY <1>7, MaxRestartsAssumption DEF NodeRestart, NodeTypes
<1>8. CASE UNCHANGED allVars
  BY <1>8, <1>u DEF allVars
<1> QED BY <1>u, <1>1, <1>2, <1>3, <1>4, <1>5, <1>6, <1>7, <1>8
        DEF NodeNext, Environment, Pool, Initialise, Reconcile, ReconcileInitialState

\* A request, in any of its critical sections.
LEMMA RequestKeepsNInv ==
    ASSUME Dependable, NInv, SInv', UNCHANGED nodeVars, Request
    PROVE  NInv'
<1>1. PICK t \in Threads :
        \/ \E p \in Pods : GetExistingIPConfig(t, p)
        \/ CountNCs(t) \/ GetIPFamilyCount(t) \/ getIPFamiliesMap(t)
        \/ AssignAvailableIPConfigs(t) \/ RequestDesiredIPConfigs(t)
        \/ updateEndpointState(t) \/ updateEndpointStateFails(t)
  BY DEF Request
<1>2. ~RequestDesiredIPConfigs(t) /\ ~updateEndpointStateFails(t)
  BY DEF Dependable, RequestDesiredIPConfigs, updateEndpointStateFails
<1>3. ASSUME NEW p \in Pods, GetExistingIPConfig(t, p) PROVE NInv'
  BY <1>3, GetExistingKeepsNInv
<1>4. CASE CountNCs(t) \/ GetIPFamilyCount(t) \/ getIPFamiliesMap(t)
  BY <1>4, GoOnKeepsNInv
<1>5. CASE AssignAvailableIPConfigs(t)
  BY <1>5, AssignKeepsNInv
<1>6. CASE updateEndpointState(t)
  BY <1>6, UpdateKeepsNInv
<1> QED BY <1>1, <1>2, <1>3, <1>4, <1>5, <1>6

\* A step that changes nothing.
LEMMA StutterKeepsNInv == ASSUME NInv, UNCHANGED allVars PROVE NInv'
<1> USE NodeTypeFacts
<1>1. UNCHANGED vars /\ UNCHANGED <<nnc, addedAt, view, nma, patch, restarts>>
  BY DEF allVars, nodeVars
<1>2. AllocInv' /\ nnc' \in NNC /\ addedAt' \in [IPs -> Versions \cup {NoVersion}]
  BY <1>1 DEF NInv, NodeTypes, AllocInv
<1> QED BY <1>1, <1>2, DNCKeepsNInv

\* Every step of the node keeps the invariant.
LEMMA NextKeepsNInv == ASSUME Dependable PROVE NInv /\ [NodeNext]_allVars => NInv'
<1> SUFFICES ASSUME NInv, [NodeNext]_allVars PROVE NInv'
  OBVIOUS
<1>0. SInv'
  <2>1. SInv /\ NodeTypes
    BY DEF NInv
  <2> QED BY <2>1, NodeStepIsCNSStep, NextKeepsSInv DEF Dependable
<1>1. CASE Request /\ UNCHANGED nodeVars
  BY <1>0, <1>1, RequestKeepsNInv
<1>2. CASE Release /\ UNCHANGED nodeVars
  BY <1>0, <1>2, RemoveKeepsNInv, ReleaseKeepsNInv DEF Release
<1>3. CASE EndpointAPI /\ UNCHANGED nodeVars
  BY <1>0, <1>3, EndpointAPIKeepsNInv DEF EndpointAPI
<1>4. CASE Environment
  BY <1>4, AllocateKeepsNInv, ReclaimKeepsNInv, ProgramKeepsNInv, DeliverKeepsNInv DEF Environment
<1>5. CASE Pool
  BY <1>0, <1>5, MarkKeepsNInv, ReadKeepsNInv, PatchKeepsNInv DEF Pool
<1>6. CASE Initialise
  <2>1. CASE PodInfoByIP /\ UNCHANGED nodeVars
    BY <1>0, <2>1, BeginKeepsNInv
  <2>2. CASE ReconcileInitialState
    BY <1>0, <2>2, BeginKeepsNInv DEF ReconcileInitialState
  <2>3. ASSUME NEW nc \in NCs, Reconcile(nc) PROVE NInv'
    BY <1>0, <2>3, ReconcileKeepsNInv
  <2>4. ASSUME NEW p \in Pods, ReconcilePod(p), UNCHANGED nodeVars PROVE NInv'
    BY <1>0, <2>4, ReconcilePodKeepsNInv
  <2>5. CASE MarkExistingIPsAsPendingRelease(view.notInUse) /\ UNCHANGED nodeVars
    BY <1>0, <2>5, OpenKeepsNInv
  <2> QED BY <1>6, <2>1, <2>2, <2>3, <2>4, <2>5 DEF Initialise
<1>7. CASE SyncHostNCVersion(nma) /\ UNCHANGED nodeVars
  BY <1>0, <1>7, SyncKeepsNInv
<1>8. CASE NodeRestart
  BY <1>0, <1>8, RestartKeepsNInv
<1>9. CASE UNCHANGED allVars
  BY <1>9, StutterKeepsNInv
<1> QED BY <1>1, <1>2, <1>3, <1>4, <1>5, <1>6, <1>7, <1>8, <1>9 DEF NodeNext

\* With dependable calls and files the invariant holds in every behaviour.
THEOREM NodeInvariant == ASSUME Dependable PROVE NodeSpec => []NInv
  BY NInvInit, NextKeepsNInv, PTL DEF NodeSpec

-----------------------------------------------------------------------------
(* The theorems *)

\* Every behaviour of the node is a behaviour of CNS alone (CNSIPAM), whatever
\* fails and overlaps: DNC, NMAgent, the reconciler and the pool monitor call
\* CNS only as CNSIPAM assumes, so that its theorems hold on the node.
THEOREM NodeImplementsCNS == NodeSpec => Spec
<1>1. NodeInit => NodeTypes
  BY NInvInit DEF NInv
<1>2. NodeTypes /\ [NodeNext]_allVars => [Next]_vars
  BY NodeStepIsCNSStep
<1>3. NodeInit => Init
  BY DEF NodeInit
<1> QED BY <1>1, <1>2, <1>3, NextKeepsNodeTypes, PTL DEF NodeSpec, Spec

\* The state of CNS, of the NNC, of NMAgent and of the lists in flight keeps its
\* types in every behaviour of the node, whatever fails and overlaps.
THEOREM NodeTypeCorrect == NodeSpec => []NodeTypeOK
<1>1. NodeInit => NodeTypes
  BY NInvInit DEF NInv
<1>2. TypeOK /\ NodeTypes => NodeTypeOK
  BY DEF NodeTypes, NodeTypeOK
<1> QED BY <1>1, <1>2, NextKeepsNodeTypes, NodeImplementsCNS, TypeCorrect, PTL DEF NodeSpec

\* An IP returned to a live pod is the pod's whenever CNS serves, after any
\* number of restarts: the recovery from the endpoint file and the NNC
\* (ReconcileIPAMStateForSwift) gives every pod what it was granted.
THEOREM GrantsSurvive == ASSUME Dependable PROVE NodeSpec => []GrantedKept
<1>1. NInv => GrantedKept
  BY DEF NInv, RecordInv, HeldInv, GrantedKept
<1> QED BY <1>1, NodeInvariant, PTL

\* The list of unused IPs in the NNC never has an IP in use and every granted IP
\* stays the node's, although the list is read from CNS in one step and written
\* to the API server in another (createNNCSpecForCRD, PatchSpec).
THEOREM ListIsHonest == ASSUME Dependable PROVE NodeSpec => []NotInUseHonest
<1>1. ASSUME NInv PROVE NotInUseHonest
  <2>1. Serving => InState({"Assigned"}) \cap nnc.notInUse = {}
    <3>1. \A i \in InState({"Assigned"}) : i \in SecondaryIPs /\ ipState[i] = "Assigned"
      BY <1>1, UsableIsKnown DEF InState
    <3> QED BY <1>1, <3>1 DEF NInv, ListedInv
  <2>2. \A p \in Pods : granted[p] \subseteq nnc.ips
    BY <1>1 DEF NInv, RecordInv, KnownInv
  <2> QED BY <2>1, <2>2 DEF NotInUseHonest
<1> QED BY <1>1, NodeInvariant, PTL

\* While CNS serves, every IP that a pod has or may get is allocated to the node
\* and programmed by NMAgent, however NC versions, host versions and the
\* deliveries of the NNC interleave (addIPConfigStateUntransacted,
\* MarkIpsAsAvailableUntransacted).
THEOREM OnlyProgrammedUsed == ASSUME Dependable PROVE NodeSpec => []UsableIsProgrammed
<1>1. ASSUME NInv PROVE UsableIsProgrammed
  <2> USE <1>1, NodeTypeFacts
  <2> SUFFICES ASSUME Serving, NEW i \in InState({"Available", "Assigned"})
               PROVE  addedAt[i] # NoVersion /\ addedAt[i] <= nma[NCOf[i]]
    BY DEF UsableIsProgrammed
  <2>1. i \in IPs /\ ipState[i] \in {"Available", "Assigned"}
    BY DEF InState
  <2>2. i \in SecondaryIPs /\ (i \notin nnc.notInUse => i \in nnc.ips)
    BY <2>1, UsableIsKnown DEF InState
  <2>3. i \notin nnc.notInUse
    BY <2>1, <2>2 DEF NInv, ListedInv
  <2> QED BY <2>1, <2>2, <2>3 DEF NInv, AllocInv, ProgrammedInv
<1> QED BY <1>1, NodeInvariant, PTL

\* A new process can read the endpoint file at any time: no IP is recorded for
\* two pods and no pod has two of a family (endpointStateToPodInfoByIP,
\* newPodKeyToPodIPsMap).
THEOREM FileAlwaysReadable == ASSUME Dependable PROVE NodeSpec => []EndpointFileReadable
<1>1. NInv => EndpointFileReadable
  BY DEF NInv, RecordInv, EndpointFileReadable
<1> QED BY <1>1, NodeInvariant, PTL

\* If writes never fail, the IPs of every success returned to a live pod are in
\* the endpoint file (updateEndpointState, removeEndpointState).
THEOREM GrantsAreRecorded == ASSUME Dependable PROVE NodeSpec => []GrantedRecoverable
<1>1. NInv => GrantedRecoverable
  BY DEF NInv, RecordInv, GrantedRecoverable
<1> QED BY <1>1, NodeInvariant, PTL

-----------------------------------------------------------------------------
(* Refinement: CNS on its node implements IPLease *)

\* An answered request grants the pod the IPs it holds.
LEMMA AnswerIsLease ==
    ASSUME Dependable, NInv, UNCHANGED nodeVars, NEW t \in Threads, updateEndpointState(t)
    PROVE  [Lease!LeaseNext]_(Lease!leaseVars)
<1> USE NodeTypeFacts
<1> DEFINE p == thr[t].pod
<1>1. /\ p \in Pods /\ Serving /\ granted[p] \in {{}, podIPs[p]}
      /\ granted' = granted \/ granted' = [granted EXCEPT ![p] = podIPs[p]]
  BY UpdateRecords
<1>2. UNCHANGED nnc
  BY DEF nodeVars
<1>3. CASE granted' = granted
  BY <1>2, <1>3 DEF Lease!leaseVars
<1>4. CASE granted' = [granted EXCEPT ![p] = podIPs[p]] /\ podIPs[p] = {}
  <2>1. Lease!TearDown(p)
    BY <1>2, <1>4 DEF Lease!TearDown
  <2> QED BY <1>1, <2>1 DEF Lease!LeaseNext
<1>5. CASE granted' = [granted EXCEPT ![p] = podIPs[p]] /\ podIPs[p] # {}
  <2>1. \A q \in Pods : \A i \in podIPs[q] : ipState[i] = "Assigned" /\ podInfo[i] = q
    BY DEF NInv, SInv, IInv, IndexSound
  <2>2. podIPs[p] \subseteq nnc.ips
    <3> SUFFICES ASSUME NEW i \in podIPs[p] PROVE i \in nnc.ips
      OBVIOUS
    <3>1. i \in IPs /\ ipState[i] = "Assigned"
      BY <1>1, <2>1
    <3>2. i \in SecondaryIPs /\ (i \notin nnc.notInUse => i \in nnc.ips)
      BY <3>1, UsableIsKnown DEF InState
    <3> QED BY <1>1, <3>1, <3>2 DEF NInv, ListedInv
  <2>3. \A q \in Pods \ {p} : granted[q] \subseteq podIPs[q]
    BY <1>1 DEF NInv, RecordInv, HeldInv
  <2>4. \A q \in Pods \ {p} : granted[q] \cap podIPs[p] = {}
    BY <1>1, <2>1, <2>3
  <2>5. podIPs[p] \in SUBSET IPs
    BY <1>1
  <2>6. Lease!Grant(p, podIPs[p])
    BY <1>1, <1>2, <1>5, <2>2, <2>4 DEF Lease!Grant
  <2> QED BY <1>1, <2>5, <2>6 DEF Lease!LeaseNext
<1> QED BY <1>1, <1>3, <1>4, <1>5

\* A pod's tear down ends its lease.
LEMMA RemovalIsLease ==
    ASSUME UNCHANGED nodeVars, NEW t \in Threads, NEW p \in Pods, removeEndpointState(t, p)
    PROVE  Lease!LeaseNext
<1>1. Lease!TearDown(p)
  BY DEF Lease!TearDown, removeEndpointState, nodeVars
<1> QED BY <1>1 DEF Lease!LeaseNext

\* DNC allocates and reclaims: it reclaims nothing that a pod holds.
LEMMA DNCIsLease ==
    ASSUME NInv, NEW nc \in NCs, DNCAllocate(nc) \/ DNCReclaim(nc)
    PROVE  Lease!LeaseNext
<1> USE NodeTypeFacts
<1>0. UNCHANGED granted
  BY DEF DNCAllocate, DNCReclaim, vars
<1>1. CASE DNCAllocate(nc)
  <2>1. PICK S \in SUBSET (IPsOf(nc) \ (nnc.ips \cup nnc.notInUse)) : Publish(nc, nnc.ips \cup S)
    BY <1>1 DEF DNCAllocate
  <2>2. nnc'.ips = nnc.ips \cup S
    BY <2>1 DEF Publish, NInv, NodeTypes, NNC
  <2>3. Lease!Allocate(S) /\ S \in SUBSET IPs
    BY <1>0, <2>2 DEF Lease!Allocate, IPsOf
  <2> QED BY <2>3 DEF Lease!LeaseNext
<1>2. CASE DNCReclaim(nc)
  <2>1. PICK S \in SUBSET (IPsOf(nc) \cap nnc.ips \cap nnc.notInUse) : Publish(nc, nnc.ips \ S)
    BY <1>2 DEF DNCReclaim
  <2>2. nnc'.ips = nnc.ips \ S
    BY <2>1 DEF Publish, NInv, NodeTypes, NNC
  <2>3. \A p \in Pods : granted[p] \cap S = {}
    BY <2>1 DEF NInv, RecordInv
  <2>4. Lease!Reclaim(S) /\ S \in SUBSET IPs
    BY <1>0, <2>2, <2>3 DEF Lease!Reclaim, IPsOf
  <2> QED BY <2>4 DEF Lease!LeaseNext
<1> QED BY <1>1, <1>2

\* Every step of the node is a step of the abstract specification, or none.
LEMMA NodeStepIsLease ==
    ASSUME Dependable, NInv, [NodeNext]_allVars
    PROVE  [Lease!LeaseNext]_(Lease!leaseVars)
<1>0. ASSUME UNCHANGED <<granted, nnc>> \/ (UNCHANGED granted /\ nnc'.ips = nnc.ips)
      PROVE  UNCHANGED Lease!leaseVars
  BY <1>0 DEF Lease!leaseVars
<1>1. CASE Request /\ UNCHANGED nodeVars
  <2>1. PICK t \in Threads :
          \/ updateEndpointState(t)
          \/ \E p \in Pods : GetExistingIPConfig(t, p)
          \/ CountNCs(t) \/ GetIPFamilyCount(t) \/ getIPFamiliesMap(t)
          \/ AssignAvailableIPConfigs(t) \/ RequestDesiredIPConfigs(t)
          \/ updateEndpointStateFails(t)
    BY <1>1 DEF Request
  <2>2. CASE updateEndpointState(t)
    BY <1>1, <2>2, AnswerIsLease
  <2>3. CASE UNCHANGED granted
    BY <1>0, <1>1, <2>3 DEF nodeVars
  <2> QED BY <2>1, <2>2, <2>3
       DEF GetExistingIPConfig, CountNCs, GetIPFamilyCount, getIPFamiliesMap,
           AssignAvailableIPConfigs, RequestDesiredIPConfigs, updateEndpointStateFails
<1>2. CASE Release /\ UNCHANGED nodeVars
  <2>1. ASSUME NEW t \in Threads, NEW p \in Pods, removeEndpointState(t, p) PROVE Lease!LeaseNext
    BY <1>2, <2>1, RemovalIsLease
  <2>2. ASSUME NEW t \in Threads, releaseIPConfigs(t) PROVE UNCHANGED Lease!leaseVars
    BY <1>0, <1>2, <2>2 DEF releaseIPConfigs, nodeVars
  <2> QED BY <1>2, <2>1, <2>2 DEF Release
<1>3. CASE EndpointAPI /\ UNCHANGED nodeVars
  BY <1>0, <1>3 DEF EndpointAPI, UpdateEndpointHelper, nodeVars
<1>4. CASE Environment
  <2>1. ASSUME NEW nc \in NCs, DNCAllocate(nc) \/ DNCReclaim(nc) PROVE Lease!LeaseNext
    BY <2>1, DNCIsLease
  <2>2. ASSUME Deliver \/ \E nc \in NCs : NMAProgram(nc) PROVE UNCHANGED Lease!leaseVars
    BY <1>0, <2>2 DEF Deliver, NMAProgram, vars
  <2> QED BY <1>4, <2>1, <2>2 DEF Environment
<1>5. CASE Pool
  <2>1. UNCHANGED granted
    BY <1>5 DEF Pool, MarkIPAsPendingRelease, MarkPendingRelease, ReadPendingRelease, PatchSpec, vars
  <2>2. nnc'.ips = nnc.ips
    <3>1. CASE PatchSpec
      BY <3>1 DEF PatchSpec, NInv, NodeTypes, NNC
    <3>2. CASE ~PatchSpec
      BY <1>5, <3>2 DEF Pool, ReadPendingRelease, nodeVars
    <3> QED BY <3>1, <3>2
  <2> QED BY <1>0, <2>1, <2>2
<1>6. CASE Initialise
  <2>1. UNCHANGED nnc
    BY <1>6 DEF Initialise, Reconcile, ReconcileInitialState, nodeVars
  <2>2. UNCHANGED granted
    BY <1>6 DEF Initialise, PodInfoByIP, Reconcile, CreateOrUpdateNetworkContainer,
                ReconcileInitialState, ReconcileIPAssignment, ReconcilePod,
                MarkExistingIPsAsPendingRelease
  <2> QED BY <1>0, <2>1, <2>2
<1>7. CASE SyncHostNCVersion(nma) /\ UNCHANGED nodeVars
  BY <1>0, <1>7 DEF SyncHostNCVersion, nodeVars
<1>8. CASE NodeRestart
  BY <1>0, <1>8 DEF NodeRestart, Restart
<1>9. CASE UNCHANGED allVars
  BY <1>0, <1>9 DEF allVars, vars, nodeVars
<1> QED BY <1>1, <1>2, <1>3, <1>4, <1>5, <1>6, <1>7, <1>8, <1>9 DEF NodeNext

\* CNS on its node implements the abstract specification of IP leases: a pod's
\* IPs are the node's and no other pod's, the same when it asks again, and none
\* of them leaves the node before the pod is torn down, through every
\* interleaving of handlers, NC updates, releases to DNC, crashes and recoveries.
THEOREM NodeImplementsLease == ASSUME Dependable PROVE NodeSpec => LeaseKept
<1>1. NodeInit => Lease!LeaseInit
  <2> SUFFICES ASSUME NodeInit PROVE Lease!LeaseInit
    OBVIOUS
  <2>1. nnc.ips \in SUBSET IPs
    BY NInvInit, NodeTypeFacts
  <2>2. granted = [p \in Pods |-> {}]
    BY DEF NodeInit, Init
  <2> QED BY <2>1, <2>2 DEF Lease!LeaseInit
<1>2. NInv /\ [NodeNext]_allVars => [Lease!LeaseNext]_(Lease!leaseVars)
  BY NodeStepIsLease
<1> QED BY <1>1, <1>2, NodeInvariant, PTL DEF NodeSpec, LeaseKept, Lease!LeaseSpec

=============================================================================
