# TLA+ verification of Azure Container Networking

This directory holds TLA+ models of the parts of Azure Container Networking that
decide which pod owns which IP address, which network policy is enforced and
which packets and rules a node lets pass; the TLC configurations that check them
on small instances; and TLAPS proofs, for every instance, of most of the safety
properties and of the refinement of the abstract specification. `PROJECT.json` lists components, runs, mutants, the map from
definitions to source lines, findings, hazards and theorems.

## 1. The system

| Component | State it keeps | Operations | Hard behaviours | Properties that make it correct |
|---|---|---|---|---|
| CNS IPAM core (`cns/restserver/ipam.go`) | `PodIPConfigState` (IP -> state, pod), `PodIPIDByPodInterfaceKey` (pod -> IPs), `EndpointState` | request and release of IPs, marking IPs for release | HTTP handlers interleave between critical sections; rollback; crash between memory, disk and response | no IP with two owners; no Assigned IP out of the index; a success survives a crash |
| NC state (`internalapi.go`, `util.go`) | `ContainerStatus`: NC version, host version, secondary IPs; `azure-cns.json` | create or update an NC, drop stale NCs, sync host versions | goal state replaced before it is validated; NCs vanish while IPs are out | the IPs of an answer have a known NC; an IP is used only when programmed |
| First reconcile (`service/main.go`, `stateprovider`) | progress of initialisation | rebuild of the IP table from the NNC and the endpoint file | crash at every point, retries over a half built table | pods keep their IPs; initialisation ends |
| NNC reconciler (`kubecontroller/nodenetworkconfig`) | cached NNC | forward each NC to CNS | stale cache, panics that are recovered and retried | as above |
| Pool monitor v1, v2 (`ipampool`) | cached spec, pool metadata | scale up, scale down, clean up | read of CNS, then write of the API server; failed patches; stale snapshot | an IP in use is never given back; the pool converges |
| Endpoint API (`ipam.go`, `EndpointHandlerAPI`) | `EndpointState` | update, get, delete of an endpoint record by the stateless CNI | shares records with the IPAM core | records neither lost nor revived |
| Async delete (`cns/fsnotify`) | files of missed DELs, pending set | watch, release, remove | events against the directory scan, retries | every missed DEL is eventually released |
| Store, process lock (`store`, `processlock`) | state file, file lock | read, write by rename, lock with timeout | a lock taken after its caller gave up | mutual exclusion, no leaked lock |
| Node subnet (`cns/nodesubnet`) | refresh interval | fetch IPs | back-off and reset | interval within bounds |
| CNI plugin, `azure-ipam` | none, or the network manager's | ADD, DEL | retries, fallback to async delete | no leaked IP after DEL |
| Network manager (`network`) | networks, endpoints, state file | create and delete endpoint | partial failure and clean-up | state file agrees with the endpoints |
| Legacy IPAM (`ipam`) | address pools | request and release of pools and addresses | refresh merges with addresses in use | no address handed out twice |
| NPM data plane (`npm/pkg/dataplane`) | ipset cache, references, dirty sets; policies | create, add, remove, apply | deletes deferred while referenced; apply fails and is retried | the kernel converges to the cache; no set deleted in use |
| `azure-block-iptables` (`bpf-prog`) | pinned counter map, pinned links | two LSM hooks; attach, detach | hooks run while the tool replaces them; the tool fails or dies between system calls | a rule in a netlink buffer is found; one program per hook, on the map the monitor reads |
| `azure-iptables-monitor` | count of the last round, node label | compare rules, patch the label, send events | failed reads; map replaced by a new deployment | a blocked call is reported |
| `ipv6-hp-bpf` (`bpf-prog`) | TC filters, nft table | rewrite of probe addresses in both directions; install | checksum arithmetic; installer dies between delete and add | valid checksums; the probe is answered to its sender |
| NPM controllers | pod, namespace and policy caches | event handlers | reordered and retried work items | cache agrees with the data plane |

CNI (or `azure-ipam`) calls CNS over HTTP for a pod's IPs. CNS takes them from
its table, which the NNC reconciler fills from the `NodeNetworkConfig` that the
external DNC writes; NMAgent programs each NC version on the host and CNS polls
it (`SyncHostNCVersion`). The pool monitor marks surplus IPs `PendingRelease`
and publishes them in `spec.IPsNotInUse`, from where DNC takes them back. CNS
saves NCs in `azure-cns.json` and pods' IPs in `azure-endpoints.json`; the IP
table itself is only in memory and is rebuilt by the first reconcile.

NPM turns pods, namespaces and policies into IP sets and iptables rules: the
controllers change the cache of the IPSetManager, an apply writes the difference
with `ipset restore`, and rules are added after and removed before the sets they
use. A CNI DEL that cannot reach CNS leaves a file that a watcher in CNS finds.
The blocker's tool runs in the init container of the agent whose other container
is the monitor; they share the pinned map.

## 2. Modules

| Module | Models |
|---|---|
| `CNSIPAM` | the IPAM core, NC state, state files, first reconcile; every step of CNS that touches them |
| `CNSNode` | `CNSIPAM` with DNC, NMAgent, the NNC, the reconciler's cache and the pool monitor's publication |
| `IPLease` | the abstract specification: what a node promises its pods about IPs. `CNSNode` implements it |
| `NodePool` | what both pool monitors work on: counts of IPs by state, the NNC, DNC, pods |
| `IPAMPool`, `IPAMPoolV2` | the two pool monitors, each on `NodePool` |
| `AsyncDelete` | missed pod deletes: the file, the watcher, the release loop |
| `StateStore` | the JSON store and its file lock, used by several processes |
| `NPMIPSets` | NPM's IPSetManager: cache, reference counts, dirty cache, restore with retries |
| `NPMDataPlane` | the policy queue and its threads, on `NPMIPSets` |
| `BlockIptables` | the LSM programs, their counters, the tool that attaches them |
| `IptablesMonitor` | the monitor, on `BlockIptables` |
| `IPv6HP` | the two TC classifiers with their checksums, and their installer |
| `MC*` | instances for TLC |
| `CNSNode_proofs` | theorems about `CNSIPAM`, whatever overlaps and with one call at a time per pod; on top of those, theorems about `CNSNode` and the refinement of `IPLease` |
| `NPMDataPlane_proofs` | theorems about `NPMIPSets` and `NPMDataPlane` |
| `StateStore_proofs`, `AsyncDelete_proofs`, `IPAMPool_proofs`, `IPAMPoolV2_proofs`, `IPv6HP_proofs` | theorems about the module of that name |
| `IptablesMonitor_proofs` | theorems about `BlockIptables` and `IptablesMonitor` |

### CNSIPAM

An action is one critical section of the service lock, so a handler that takes
the lock several times is several actions of one member of `Threads`, and its
local variables between them are the record `thr[t]`:

* request: `GetExistingIPConfig` (read lock) -> `CountNCs`,
  `GetIPFamilyCount`, `getIPFamiliesMap` (three reads without the lock) -> `AssignAvailableIPConfigs`, or
  `RequestDesiredIPConfigs` for a request by name -> `updateEndpointState`
  (or its failure) -> response, recorded in `granted`;
* release: `removeEndpointState` -> `releaseIPConfigs`;
* the stateless CNI's report of its interface: `UpdateEndpointHelper`.

`granted` is the only history variable: the IPs of the last success returned to
a pod that has not asked for its release. `ipState`, `podInfo` and `podIPs` are
`PodIPConfigState` and `PodIPIDByPodInterfaceKey`; `cs` and `csStore` are
`ContainerStatus` in memory and on disk; `endpoint` and `endpointStore` the same
of `EndpointState`. The search loops of the code run over Go maps, whose order
is arbitrary: `CollectedIPs` is the set of everything they may collect, and a
loop that stops at an error leaves an arbitrary part of its work done. A handler
that returns an error without changing anything is no step.

What the model keeps of an IP is its NC, its family and its NC version; of a pod
its infra container ID, the key CNS uses when it manages the endpoint state.
Addresses and their IDs are one to one. Writes of the state files and the query
for the host's primary interface fail when the constants allow it.

`Restart` may happen in any state. It also stands for the fatal errors of the Go
runtime (such as the detection of the unlocked map read in
`AssignAvailableIPConfigs`) and for the panics that end the process.

### CNSNode

Adds the NNC in the API server (`nnc`), the reconciler's copy (`view`), NMAgent
(`nma`) and the pool monitor's patch between its read and its write. DNC and
NMAgent are external. Assumed of DNC: versions grow, an IP is taken back only if
`IPsNotInUse` lists it, and one still listed is not allocated again. Assumed of
NMAgent: it programs versions in order.

### IPLease

`node` is the set of IPs allocated to the node, `held[p]` what was granted to a
pod. A grant is of IPs of the node that no other pod holds, a repeated grant is of
the same IPs, and `Reclaim` takes only IPs nobody holds. `CNSNode!Lease` maps
`node` to the IPs of the NNC and `held` to `granted`; tables, files, handlers,
versions, restarts and the first reconcile are all stutters, and `LeaseKept` says
so as a property of the run `recovery`.

### Pool monitors

Which IP is which does not matter to a monitor, so `NodePool` counts them. A
round is several steps, because pods, DNC and the reconciler run between them:
the decision on a snapshot (`reconcile`), the marking under the table's lock, the
reading of the list of marked IPs, and the patch, which may fail, fail and be
applied all the same, or be cut off by a restart. v1 retries a scale-down
`Attempts` times and panics (the code: five). v2 takes the demand from the pod
list and marks all IPs it needs or none. Percentages are computed as in the code,
in integers rounded as its float arithmetic does for the values in use.

### AsyncDelete

A key of `pendingDelete` is the file's name when the scan entered it and the
file's path when an event did; the release loop joins the directory to either,
so that the second reads no file. Both ways of keying a pod (`scheme`) are
explored. Files are created empty and then written.

### StateStore

A process locks, reads, changes, writes to a temporary file, renames it, unlocks
and exits. The goroutine `Lock` starts is a second thread of control: after the
timeout it goes on waiting. `serial` is the history of completed writes.

### NPM

Every operation of the IPSetManager holds its lock; `ApplyIPSets` holds it for as
long as its restore runs, line by line. A line the kernel refuses is skipped in
the way the code's error handlers prescribe and costs one of `MaxTry` tries; a
restore may also break off without naming a line, before any of its lines or, with
`BreaksMidway`, after some. `MaxFailures` failed applies in a row end the process.
A hash set's members carry the pod that owns them. `NPMDataPlane` has the thread
`netpol` (queue, add in batches, retry one by one, remove, update) and `pods`,
which only applies; `Workloads` says which of them are busy. When the queue is
full `AddPolicy` in the code adds at once under the same lock; the model lets the
adding start at any time after the queueing, which includes it. `UpdatePolicy`
looks whether a policy is installed without the queue's lock, so `AddPolicy` may be
of one that has been installed since.

### BPF programs

`BlockIptables` evaluates the netlink walk over buffers measured in bytes. A
buffer is what the kernel finds in it: headers at aligned offsets, each with the
length it states. The walk adds up the lengths as stated; off a header it reads
whatever lies there, which is a choice. `U32`, the range of a `__u32`, is a
constant. Each decision is counted in the map its program was loaded with. A link keeps a program attached while it is pinned or
open. The tool's system calls are steps that may fail or be the last. `IPv6HP`
works on the real 16-bit words of the addresses and with the checksum helpers'
folding; the kernel's helpers are external. Whether the device completes the
checksum of a reply (`CHECKSUM_PARTIAL`) is a choice of the stack.

## 3. Runs

Deadlock checking is off in `missed`, `shared` and `probe`, whose systems come to
rest, and on in all others.

| Run | Instance | Shows |
|---|---|---|
| `race` | 1 NC that may be empty or stale, 1 IP, 2 pods, 2 handlers that may overlap on one pod, requests by name, failing writes and host query | `TypeOK`; `IndexSound`, no IP has two owners and table and index agree; `IPLifecycle` |
| `retry` | 1 NC, 2 IPs, 1 handler, writes fail | violation of `GrantedRecoverable`, see below |
| `recovery` | `CNSNode`, 2 IPs, 2 pods, 2 handlers, NC versions to 2, 2 restarts | `GrantedKept`, pods keep their IPs over restarts; `NotInUseHonest`, no IP in use is offered to DNC; `UsableIsProgrammed`; `EndpointFileReadable`; `IndexComplete`; `AnswerStillHeld`; `LeaseKept`, the refinement |
| `startup` | `CNSNode`, 1 handler, versions to 1, 1 restart | `EventuallyServing` |
| `settles` | v1 monitor, up to 5 pods, 3 scalers, 2 changes, 2 failed patches | `PoolSettles`: pods served, free IPs between the thresholds, nothing left to give back |
| `target` | v2 monitor, up to 5 pods, 4 scalers, 2 changes, 2 failed patches | `TargetIsLeast`, the request is the least multiple of the batch that does, or the maximum; `ListedArePending`, what DNC may take is marked in CNS; `PoolReachesTarget`, if no patch fails the request ends at the target, unless the maximum was lowered below the IPs that pods hold |
| `missed` | 2 containers, both schemes, 2 restarts, 3 faults | `NoLostDelete`, the file stays as long as the IP is held; `ScannedReleased` |
| `shared` | 3 processes, 2 faults | `Exclusive`; `FileIsSerial`, no update is lost; `GivenUpIsFreed` |
| `sync` | 1 hash set, 2 lists, 2 pods that take turns at one IP, both apply modes, 2 faults | `DirtyRight`; `CountsExact`; `KernelInSync` (apply-all mode): kernel and dirty cache together are the cache |
| `policies` | 2 policies that share a set, with and without pod events, 3 faults in mid-restore | `RulesHaveSets` (policy thread alone): rules have their sets, with their members; `QueuedGetsIn` |
| `monitor` | 3 commands, buffers of up to 5 netlink messages, 2 calls, 2 deployments in any mode, 2 faults of the tool, 1 of the monitor | `RulesFound`, the walk agrees with the kernel's own where it is in step; `AttachSound`; `EventuallyAttached`; `EveryBlockReported` |
| `probe` | a probe and two other peers, payloads at the edges of the checksum, 2 installer runs | `ChecksumKept`; `NoDuplicates`; `RoundTrip` |

Every run also checks its module's type invariant, except `startup` and `probe`.

Bounds. Two pods that compete for one IP are the least at which an IP can change
hands and the pool can be short; two handlers give every conflict between two
critical sections. More IPs, NCs and handlers are covered by the theorems, which
hold for any number; `recovery` has two IPs, so that one can be given back while
the other is in use, and versions to 2, so that an IP can be taken back and
allocated again. `MaxVersion = 0` in `race` still leaves host versions -1 and 0,
hence both `PendingProgramming` and `Available`. Five pods with batches of 1, 2
and 3 and maxima of 4, 6 and 8 (v2: 4, 7 and 8) pass both thresholds in both
directions and hit the maximum, the least of which is below the number of pods; two
changes are a scale-up followed by a scale-down that finds it
unfinished. Two faults are one failure and a second one while the first is being
repaired. Three processes are a holder, one that times out and one that gets the
lock between. Two lists that share a member are the least at which a count of 2
can go wrong. Five netlink messages are one more than the code looks at; their
lengths are a header's, more, and one that is no multiple of four, and a last header
states zero, too little or too much. TLC's integers are narrower than a `__u32`, so
that `U32` is 2^30 there; the theorem has any. Pods,
handlers, lists and (with one NC) IPs are interchangeable, hence the symmetry
sets; runs with liveness properties use none, and `LeaseKept`, the one temporal
property under symmetry, is a safety property that treats them alike.

`SerialPerPod` is the container runtime's promise that it makes one CNI call at
a time for a sandbox. `race` checks what holds without it.

Fairness, by specification:

* `NodeSpec`: weak fairness of the first reconcile only. controller-runtime
  requeues a reconcile that returns an error, recovered panics included. Nothing
  is assumed of requests, DNC, NMAgent or the monitor.
* `MonitorFairSpec`, `V2FairSpec`: weak fairness of the loop's own steps and its
  ticker, strong fairness of the receive from each channel (Go's `select` picks
  at random among ready channels), weak fairness of pods, DNC and the reconciler.
* `AFairSpec`: weak fairness of the DELs, the server, the watcher's two
  goroutines and each pending entry; failures are bounded.
* `SFairSpec`: weak fairness of each process and its goroutine; none of a
  timeout, a failure or a kill.
* `DFairSpec`: weak fairness of a thread that is in an apply, and strong fairness
  of taking the manager's lock, which Go's mutex gives by its starvation mode.
  Strong fairness also of `NetPolSteps`, the policy thread's own steps: the
  background thread ticks and competes with the policy controller for the queue's
  lock, a mutex as well, so that it gets in between additions and removals however
  many come.
* `MFairSpec`: weak fairness of the tool, which the kubelet restarts until it
  succeeds, and of the monitor's rounds.

### Finding

* `retry`: `updateEndpointState` (`ipam.go:355`) returns early when the IP is in
  the in-memory record. After a failed write the retry succeeds without writing,
  and the file lacks the record until the write of another pod carries it along; a
  restart before that hands the IP to another pod, though
  `service/main.go:871` says that CNS reconciles from its own state.

### Observations

Met while modelling; each is why a property above is stated with the condition it
has. Paths are relative to `src/`.

* `cns/restserver/ipam.go:1125`: a request looks its pod up and assigns in two
  critical sections. Two overlapping requests of one pod get different IPs, both
  kept in the index, though line 1116 promises the existing ones.
* `ipam.go:1055`: IPs are collected by (NC, family) up to the number of families,
  so two NCs with IPv4 can yield two IPv4 addresses where line 1490 says one of
  each family.
* `ipam.go:1061`: a request against an NC without IPs succeeds without an IP.
* `ipam.go:1083`: when the NC that had IPs is dropped as stale and the one that is
  left has none, the family count is 0 while the dropped NC's IPs are still
  Available: one is assigned, and the handler panics on its empty result.
* `cns/ipampool/monitor.go:347`: a scale-down subtracts what could be marked, so
  the request need not be the multiple of the batch that line 306 announces.
* `monitor.go:465`: a scaler that was never set is clamped to a minimum of zero
  free IPs; the pool then never grows. `settles` has scalers that are set.
* `monitor.go:303`: a scaler whose share of the batch rounds to no free IP at all,
  say 10 % of 2, lets a scale-down go below zero: an increase that was reported as
  failed though it was applied, followed by the scaler it replaced, ends with a
  negative `RequestedIPCount`. Hence the hypothesis `OneIsFree` in section 4.
* `cns/ipampool/v2/monitor.go:132`: after a failed patch the marked IPs stay
  marked and the next round marks as many again; once too few are left no round
  gets to its patch. Hence the condition of `PoolReachesTarget`.
* the same line: when the maximum is lowered below the IPs that pods hold (6
  requested, 5 assigned, the maximum now 4), `MarkNIPsPendingRelease` is asked for
  more IPs than are free, marks none, and every round ends with its error: the
  request stays, and the free IPs are not given back, until pods go. Hence the
  second case of `PoolReachesTarget`.
* `cns/fsnotify/fsnotify.go:156`: events enter paths, see `AsyncDelete`. A DEL
  missed while the watcher runs is released at the next start of CNS only, hence
  `ScannedReleased` is about files the scan found.
* `store/json.go:205`: the goroutine of a `Lock` that timed out takes the lock
  later; in a process that does not exit nobody frees it. `shared` has processes
  that exit; the constant `Daemons` gives the others.
* `npm/pkg/dataplane/ipsets/dirtycache.go:182`: a restore that breaks off midway
  has created sets whose names stay in `toCreateCache`; deleting one before the
  next apply leaves it in the kernel. `KernelInSync` is checked with restores
  that break off before their first line; no line is refused then
  (`NoLineIsRefused`).
* `dirtycache.go:105`: in apply-on-need mode, dropping the last reference of a set
  and taking one again before the apply deletes its members from the kernel.
  Hence `KernelInSync` is about apply-all mode.
* `ipsets/ipsetmanager.go:505`: a list deleted by force leaves its members'
  counts. The control plane in use deletes softly, as does the run.
* `npm/pkg/dataplane/dataplane.go:356`: the flag of a failed removal is reset
  after the manager's lock is given up, by any thread; a late reset defeats the
  precaution of the next add. Hence the condition of `RulesHaveSets`.
* `dataplane.go:612`: a queued policy that already took references is removed
  without dropping them; its sets can never be deleted.
* `bpf-prog/azure-block-iptables/pkg/bpfprogram/program.go:206`: when the second
  hook fails, closing the first one's link does not detach it, as it is pinned.
  The next deployment with overwrite replaces it, as `EventuallyAttached` says.
* `bpf/src/block_iptables.bpf.c:112`: an attach without overwrite runs beside the
  pinned program until its pin fails, and a call in between is counted twice.
* `block_iptables.bpf.c:226`: the walk moves on by `nlmsg_len` as stated, where the
  kernel rounds it up to a multiple of four. After a message of another length it
  is out of step and reads its next header from inside the padding, so whether a
  rule behind it is found depends on the bytes there. Hence the condition of
  `RulesFound`.
* `block_iptables.bpf.c:138`: the comment says "block if not in host network
  namespace", the next line blocks only in the host's. The model follows the code.
* `azure-iptables-monitor/iptables_monitor.go:346`: a failed read counts as zero,
  and the next good one is reported as an increase.
* `iptables_monitor.go:271`: a table that cannot be listed is skipped, and the
  label may say false.

## 4. Proofs

Every theorem holds for every value of the constants that satisfies the `ASSUME`
of the component's module (constants are typed, bounds are numbers). What a
theorem needs beyond that is a hypothesis in its statement, and named below. The
instances of the runs satisfy these hypotheses. Each module's inductive invariant
is a conjunction of named parts, with one lemma per action or group of actions;
its head comment gives the argument.

| Theorem | States | Hypothesis |
|---|---|---|
| `CNSNode_proofs!TypeCorrect`, `NoSharedIP`, `LifecycleHolds` | `[]TypeOK`, `[]IndexSound`, `IPLifecycle` | |
| `CNSNode_proofs!NoStrandedIP`, `AnswersHeld` | `[]IndexComplete`, `[]AnswerStillHeld` | `SerialPerPod` |
| `CNSNode_proofs!NodeImplementsCNS`, `NodeTypeCorrect` | `NodeSpec => Spec`, `[]NodeTypeOK` | |
| `CNSNode_proofs!GrantsSurvive`, `ListIsHonest`, `OnlyProgrammedUsed`, `FileAlwaysReadable`, `GrantsAreRecorded` | `[]GrantedKept`, `[]NotInUseHonest`, `[]UsableIsProgrammed`, `[]EndpointFileReadable`, `[]GrantedRecoverable` | `Dependable` |
| `CNSNode_proofs!NodeImplementsLease` | `NodeSpec => LeaseKept` | `Dependable` |
| `StateStore_proofs!StoreTypeCorrect`, `LockIsExclusive`, `NoLostUpdate` | `[]STypeOK`, `[]Exclusive`, `[]FileIsSerial` | |
| `AsyncDelete_proofs!WatcherTypeCorrect`, `DeleteNotLost` | `[]ATypeOK`, `[]NoLostDelete` | |
| `IPAMPool_proofs!MonitorTypeCorrect`, `OnlyPendingIsListed` | `[]PoolTypeOK`, `[]ListedPending` | `OneIsFree` |
| `IPAMPoolV2_proofs!PoolTypeCorrect`, `OnlyPendingListed`, `TargetRight` | `[]V2TypeOK`, `[]ListedArePending`, `[]TargetIsLeast` | `MaxIsSet` |
| `IptablesMonitor_proofs!MonitorTypeCorrect`, `AttachIsSound`, `RulesAreFound` | `[]MTypeOK`, `[]AttachSound`, `[]RulesFound` | |
| `IPv6HP_proofs!ChecksumsKept`, `AtMostOneFilter` | `[]ChecksumKept`, `[]NoDuplicates` | |
| `IPv6HP_proofs!AnswersReturn` | `[]RoundTrip` | `ProbeAddressIsFree` |
| `NPMDataPlane_proofs!NPMTypes`, `DirtyCacheRight`, `CountsAreExact` | `[]NTypeOK`, `[]DirtyRight`, `[]CountsExact` | `DeleteOptions \subseteq {"soft"}` |
| `NPMDataPlane_proofs!KernelStaysInSync`, `NoLineIsRefused` | `[]KernelInSync`, `[]NoneRefused` | the same, and `~BreaksMidway` |
| `NPMDataPlane_proofs!DataPlaneTypeCorrect`, `RulesKeepTheirSets` | `[]DTypeOK`, `[]RulesHaveSets` | |

**CNSIPAM.** `IInv == TypeOK /\ ThreadsHavePod /\ IndexSound`. `IndexSound`
relates the two tables in both directions, so that "the IP is not Assigned"
implies "no pod's index names it": with that, `AssignKeepsTables`,
`UnassignKeepsTables` and `MoveKeepsTables` cover every change of the tables, and
each action is shown to be an instance of one of them. `ThreadsHavePod` is needed
because an action takes the pod it assigns to from the handler's record. Rollback
keeps `IndexSound` because the IPs it frees were free under the same lock.
`LifecycleHolds` follows from `IInv` step by step: `FreedByOwner` uses that a
pod's index names only IPs it owns.

With one call at a time per pod, `SInv == IInv /\ HandlersSerial /\ HandlerFacts
/\ IndexComplete` holds too. A rollback deletes the pod's whole index entry, so it
strands an IP unless the entry held nothing before: `ReadingAt` says that a handler
about to assign still finds its pod's entry empty, because no other handler works
for that pod (`OnePerPod`) and the first reconcile, the only other writer, runs when
no handler does (`Quiet`). `HeldAt` says that what a handler is about to return is
still in the index; that its NC is still known follows because
`MustEnsureNoStaleNCs` drops only NCs without Assigned IPs. With overlapping calls
neither theorem holds: a rollback of one request deletes the entry another has just
filled.

**CNSNode.** `NodeImplementsCNS` makes the theorems about `CNSIPAM` theorems about
the node: DNC, NMAgent, the reconciler and the monitor call CNS only as `CNSIPAM`
allows. `NInv` adds to `SInv` what the parts know of each other. An IP that CNS has
not listed as unused cannot leave the node, so every copy of the NNC made since it
was allocated has it (`AllocInv`, `ViewInv`, `KnownInv`); what is listed, or in a
list on its way, is PendingRelease and given to nobody (`ListedInv`, `PatchInv`);
host versions in memory and on disk are behind NMAgent (`FileInv`), hence what is
used is programmed (`ProgrammedInv`); what the endpoint file records is the node's
and is what the index holds, through each phase of the first reconcile
(`RecordInv`, `TableInv`, `HeldInv`). `NodeImplementsLease` follows: a grant is of
IPs in the index, hence the node's and nobody else's (`IndexSound`); a repeated
grant is of the same ones; and DNC takes only listed IPs, which nobody was granted.

`Dependable` is `SerialPerPod`, files that can be written, no requests by name, and
one NC per family. Each part is needed: overlapping calls strand IPs, without the second the finding's
counterexample applies, a request by name may take an IP that is not programmed
yet, and with two NCs of one family a pod can get two IPs of it, which
`newPodKeyToPodIPsMap` refuses when it reads the endpoint file back.

**StateStore.** `Exclusive` is about the caller, the lock is taken by its
goroutine: `LockInv` says who holds the lock at each point of the handover from
the goroutine's report to the caller that goes on.
`FileIsSerial` needs `DataFresh`: what a process inside the lock has in memory is
the file as it is now.

**AsyncDelete.** `CreatedKept` closes the gap between creating the file and writing
it: the loop removes a file only after the release of that container's own IP
(`ReleaseIsOwn`), in either keying scheme.

**IPAMPool.** DNC takes the listed IPs and a new process rebuilds its table from the
list, so the counts stay above zero as long as what is listed and not yet taken is
pending (`ListedPending`). The list is read in one step and published in a later one,
after up to `Attempts` tries: `SpecInv` says that it still lists all that is pending,
because nobody but the monitor marks IPs. `DecreaseInv`: a scale-down is by at least
one IP, as `MarkIPAsPendingRelease` would mark all for less, and by no more than was
requested. That needs `OneIsFree`, each scaler leaves at least one IP free:
with zero the monitor would scale down a pool for which nothing is requested.

**IPAMPoolV2.** `ListedArePending` is what keeps the counts above zero. It survives
a patch because the spec that is published lists everything that is still pending
and not on its way out when it is applied (`SpecInv`). `TargetIsLeast` is
arithmetic: what the code computes is the least multiple that leaves the buffer free
(`NextMultiple`, `LeastTarget`), and where the maximum cuts it off every smaller
multiple falls short. `MaxIsSet` says that each scaler states a maximum: with zero
the batch is zero as well and the code divides by it.

**IptablesMonitor.** `ToolInv` says what the tool has done and holds before each of
its system calls, so that after the last one both pins are links to the pinned map.
`MapsInv` counts: a map is created by a run, and a run takes a deployment or a
fault. `RulesAreFound` rests on `WalkFindsRule`, for every buffer that the kernel
takes apart to its end: as long as lengths are multiples of four the walk is at the
kernel's next header and what is left does not wrap around; after the first other
length (`Alignment`) it is at none, and nothing is sure about what it finds.

**IPv6HP.** Checksums are sums up to multiples of 65535: `bpf_csum_diff` is the
difference of two addresses, and folding, complementing and the incremental
replacement keep it (`TranslationKeepsSum`). `FilterInv`: the installer is about to
add a filter only where there is none. `RouteInv`: a packet differs from the one
that arrived only in the probe's address; were that global address another peer's
too (`ProbeAddressIsFree`), its answers would be sent to the probe.

**NPMIPSets.** `NInv` has two parts. `Sound` is about the cache alone: where a set is
in the dirty cache, and that its counts are the numbers of lists that have it
(`CountsAt`), without which `DirtyRight` is not inductive: whether a set is wanted in
the kernel depends on the lists it is in. `SyncAt` relates each set to the kernel. Each
operation is first shown to keep both for one set (`AddToSetKeepsGood`,
`AddReferenceKeepsGood`, ...) and then for the loop over several; a loop is `FoldSet`,
which `FoldExists` shows to be a function and `FoldInduction` follows through the
elements in the order it takes them, both from a least counterexample in the number of
elements. During a restore `Midway` takes the place of `SyncAt`: the lines left lead
each set from what the kernel has to what is cached, and no line done belongs behind
one that is left. From it the kernel accepts every next line (`NoLineIsRefused`): a
set is created before anything is added to it, and destroyed when no list has it. The
hypotheses are the ones of the run: a list deleted by force leaves its members' counts
behind, and a restore that breaks off midway forgets which sets it has created.

**NPMDataPlane.** `DTypeOK` is an argument about control, independent of what
operations do to the IP sets. `QueueInv` adds to it that the policies still to be tried
one by one do not contain the one being tried, so that taking it from the queue leaves
them there; `CallInv` that no two threads run a restore, which the manager's lock
gives.

`RulesHaveSets` needs the manager as well, in both modes and with restores that break
off anywhere, so `Midway` is not available. `RInv` asks less of the kernel and only of
the sets that policies refer to. `Fits`: such a set is not to be destroyed or to lose a
member, and what the kernel lacks of it is in the dirty cache; hence no line of a
restore takes anything from it (`LineKeepsHeld`), and during a restore what it lacks is
in the lines left (`CoveredAt`). A refused line is skipped because its member is there
already (`LineSkippedKernel`). `CacheInv`: there are sets to destroy only while a
removal is under way or after one has failed, and then an addition first applies. This
is what `previousRemovePolicyIPSetsFailed` is for: a reference taken while its set is
to be destroyed keeps the difference that empties it. `PolicyInv`: a policy whose
rules are in, or that has been through its loops, has its sets and blocks in the
cache, and its rules go in with nothing dirty, so they are in the kernel
(`CleanIsInKernel`). A removal takes the blocks of its own sets only: a set with CIDR
blocks belongs to one policy (`DataPlaneAssumption`; its name is made of the policy's
in `translatePolicy.go`). `RInv` is about the policy thread alone, as the property is.

Only model-checked:

* liveness (`EventuallyServing`, `PoolSettles`, `PoolReachesTarget`,
  `ScannedReleased`, `GivenUpIsFreed`, `EventuallyAttached`, `EveryBlockReported`,
  `QueuedGetsIn`): fairness and `ENABLED` are beyond the prover;
* the counterexample to `GrantedRecoverable` with failing writes.

## 5. Plan

Done: `CNSIPAM`, `CNSNode`, the pool monitors, `AsyncDelete`, `StateStore`,
`NPMIPSets` and `NPMDataPlane`, the BPF programs and their tools, `IPLease`; the
theorems of section 4.

1. NPM's pod controller against `NPMDataPlane`; `policyMgr`'s chains.
2. CNI ADD and DEL as a whole, composed with `CNSIPAM`; legacy IPAM pools and
   their refresh; node subnet back-off; the network manager.

## 6. Not modelled

The network manager, legacy IPAM, node subnet mode and NPM's controllers are
within reach and in the plan. Out of scope: parsing and
formatting of addresses, requests and responses; metrics, logs and telemetry; the
orchestrators other than the CRD mode; SwiftV2 and multitenant NICs; NPM v1 and
HNS; netlink and OVS calls; the HTTP clients of NMAgent, wireserver and IMDS;
build, test and deployment files.

`bpf-prog/azure-block-iptables/bpf/include/vmlinux.h` is a dump of the running
kernel's types, 128434 lines of declarations without behaviour that make up nearly
all of the repository's C. The C that does something, `block_iptables.bpf.c`,
`ingress.c`, `egress.c` and `helper.h`, is modelled in full; of the header the
model has the length of `struct nlmsghdr`.

Left out of parts that are modelled; only the first bears on a property:

* `ipset restore` refuses a line only when the line contradicts the kernel's sets
  (`NPMIPSets!Accepted`). The handlers for a create that is refused, which skip the
  rest of its section, and for unknown errors (`ipsetmanager_linux.go:774-790`, 832,
  842), after which the apply succeeds without the line, never run. With them
  neither `KernelInSync` nor `RulesHaveSets` would hold.
* `AddReference` refuses a selector reference to a set whose type cannot have one
  (`ipsetmanager.go:185-189`); policies as translated ask for none.
* `policyMgr.AddPolicies` neither installs nor keeps a policy without ACLs
  (`policymanager.go:132-149`); the model's policies have rules.
* The request API for a single IP checks that there is one NC and that one IP was
  assigned (`ipam.go:229-242`, `269-283`); the model has the requests it refuses too.
* With SNAT rules to program, the result of `programSNATRules` replaces the one of a
  failed save of the goal state (`internalapi.go:661-666`), so that the reconciler
  goes on; the rules themselves are not modelled.

The components table of `PROJECT.json` gives the reason for each part, and its
hazards list what no property covers.
