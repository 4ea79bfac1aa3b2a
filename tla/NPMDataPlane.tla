---------------------------- MODULE NPMDataPlane ----------------------------
(***************************************************************************)
(* The Linux DataPlane of the network policy manager (npm/pkg/dataplane/   *)
(* dataplane.go) on top of its IPSetManager: policies are queued, added in *)
(* batches by the background thread, removed and updated by the policy     *)
(* controller.  The lock of netPolQueue makes these one thread, "netpol";  *)
(* the pod and namespace controllers, "pods", apply the data plane on      *)
(* their own.  policyMgr is seen through its cache, which on success is    *)
(* the set of policies with rules in iptables.                             *)
(*                                                                         *)
(* The loops over a policy's sets are one step each: every iteration is    *)
(* about its own set, and what an apply in between writes early is written *)
(* later otherwise.                                                        *)
(***************************************************************************)
EXTENDS NPMIPSets

CONSTANTS
    Policies,
    SetsOf,         \* the hash sets a policy's selectors and rules refer to
    Blocks,         \* the CIDR blocks of a set: {} unless it belongs to one policy
    Workloads       \* the threads that are busy: {"netpol"}, or {"netpol", "pods"}

NoKey == ""        \* the pod key of a CIDR block
NoPolicy == "none"

ASSUME DataPlaneAssumption ==
    /\ References = Policies
    /\ SetsOf \in [Policies -> SUBSET HashSets]
    /\ Blocks \in [HashSets -> SUBSET IPs]
    /\ \A p, q \in Policies : p # q => \A s \in SetsOf[p] \cap SetsOf[q] : Blocks[s] = {}
    /\ NoKey \in PodKeys
    /\ \A threads \in Workloads : "netpol" \in threads

VARIABLES
    installed,      \* policyMgr: the policies whose rules are in iptables
    queue,          \* netPolQueue
    removeFailed,   \* previousRemovePolicyIPSetsFailed
    np,             \* the netpol thread: where it is and what it works on
    apply           \* per thread, how far its call of applyDataPlaneNow is

Threads == DOMAIN apply

dpvars == <<installed, queue, removeFailed, np, apply>>
dvars == <<nvars, dpvars>>

Idle == [pc |-> "idle", now |-> NoPolicy, policies |-> {}, left |-> {}, retry |-> {},
         readd |-> FALSE, batch |-> FALSE]

DInit == /\ NInit
         /\ installed = {} /\ queue = {} /\ removeFailed = FALSE
         /\ np = Idle
         /\ \E threads \in Workloads : apply = [t \in threads |-> "no"]

-----------------------------------------------------------------------------
(* applyDataPlaneNow of a thread: ApplyIPSets under the manager's lock,    *)
(* then, with the lock given back, the flag of a failed removal is reset.  *)

ApplyBegins(t) ==
    /\ apply[t] = "called"
    /\ \/ /\ ApplyIPSets
          /\ apply' = [apply EXCEPT ![t] = "running"]
       \/ /\ Unlocked /\ Dirty(mgr) = {}
          /\ apply' = [apply EXCEPT ![t] = "applied"]
          /\ UNCHANGED nvars
    /\ UNCHANGED <<installed, queue, removeFailed, np>>

RestoreRuns ==
    /\ Rerun \/ \E l \in restore.todo : LineRuns(l) \/ LineSkipped(l)
    /\ UNCHANGED dpvars

ApplyEnds(t) ==
    /\ apply[t] = "running"
    /\ \/ ApplySucceeds /\ apply' = [apply EXCEPT ![t] = "applied"]
       \/ ApplyFails /\ apply' = [apply EXCEPT ![t] = "failed"]
    /\ UNCHANGED <<installed, queue, removeFailed, np>>

setRemovePolicyFailureFalse(t) ==
    /\ apply[t] = "applied"
    /\ removeFailed' = FALSE
    /\ apply' = [apply EXCEPT ![t] = "ok"]
    /\ UNCHANGED <<nvars, installed, queue, np>>

ProcessPanics ==
    /\ Panic
    /\ installed' = {} /\ queue' = {} /\ removeFailed' = FALSE
    /\ np' = Idle
    /\ apply' = [t \in Threads |-> "no"]

(* The end of a pod or namespace event; the outcome goes to its controller.*)
ApplyDataPlane ==
    /\ "pods" \in Threads
    /\ \/ apply["pods"] = "no" /\ apply' = [apply EXCEPT !["pods"] = "called"]
       \/ apply["pods"] \in {"ok", "failed"} /\ apply' = [apply EXCEPT !["pods"] = "no"]
    /\ UNCHANGED <<nvars, installed, queue, removeFailed, np>>

CallApply(pc) == /\ np' = [np EXCEPT !.pc = pc]
                 /\ apply' = [apply EXCEPT !["netpol"] = "called"]

Applied(pc) == np.pc = pc /\ apply["netpol"] = "ok"
ApplyFailed(pc) == np.pc = pc /\ apply["netpol"] = "failed"
ApplyTaken == apply' = [apply EXCEPT !["netpol"] = "no"]

-----------------------------------------------------------------------------
(* AddPolicy queues; addPoliciesWithRetry adds what is queued, first all   *)
(* at once and, should that fail, one by one.  The caller (UpdatePolicy)   *)
(* found the policy not installed, but before it had the queue's lock: the *)
(* background thread may have installed it since.                          *)

AddPolicy(p) ==
    /\ np.pc = "idle"
    /\ queue' = queue \cup {p}
    /\ UNCHANGED <<nvars, installed, removeFailed, np, apply>>

(* Mutant: the add goes ahead, whatever became of the last removal.        *)
AddingAtOnce(P, batch, retry) ==
    /\ np' = [Idle EXCEPT !.pc = "references", !.policies = P, !.left = P,
                          !.batch = batch, !.retry = retry]
    /\ apply' = [apply EXCEPT !["netpol"] = "no"]

(* The start of addPolicies: after a failed removal it applies first.      *)
Adding(P, batch, retry) ==
    /\ np' = [Idle EXCEPT !.pc = IF removeFailed THEN "precaution" ELSE "references",
                          !.policies = P, !.left = P, !.batch = batch, !.retry = retry]
    /\ apply' = [apply EXCEPT !["netpol"] = IF removeFailed THEN "called" ELSE "no"]

(* Mutant: nothing is added before two policies wait.                      *)
addPoliciesWhenFull ==
    /\ np.pc = "idle" /\ Cardinality(queue) >= 2
    /\ Adding(queue, TRUE, queue)
    /\ UNCHANGED <<nvars, installed, queue, removeFailed>>

addPoliciesWithRetry ==
    /\ np.pc = "idle" /\ queue # {}
    /\ Adding(queue, TRUE, queue)
    /\ UNCHANGED <<nvars, installed, queue, removeFailed>>

(* The next policy to try by itself, if there is one.                      *)
AddNext ==
    \/ \E p \in np.retry : Adding({p}, FALSE, np.retry \ {p})
    \/ np.retry = {} /\ np' = Idle /\ ApplyTaken

PrecautionDone ==
    /\ Applied("precaution")
    /\ np' = [np EXCEPT !.pc = "references"]
    /\ ApplyTaken
    /\ UNCHANGED <<nvars, installed, queue, removeFailed>>

(* createIPSetsAndReferences: references first, then the members.          *)
AddReferences(p) ==
    /\ np.pc = "references" /\ p \in np.left
    /\ Change(FoldSet(LAMBDA s, m : AddReferenceTo(m, s, p), mgr, SetsOf[p]))
    /\ np' = [np EXCEPT !.pc = "members", !.now = p, !.left = @ \ {p}]
    /\ UNCHANGED <<installed, queue, removeFailed, apply>>

BlocksOf(p) == UNION {{s} \X Blocks[s] : s \in SetsOf[p]}

AddMembers ==
    /\ np.pc = "members"
    /\ Change(FoldSet(LAMBDA b, m : AddToSet(m, b[1], b[2], NoKey), mgr, BlocksOf(np.now)))
    /\ CallApply("apply")
    /\ UNCHANGED <<installed, queue, removeFailed>>

SetsApplied ==
    /\ Applied("apply")
    /\ np' = [np EXCEPT !.pc = IF np.left = {} THEN "rules" ELSE "references"]
    /\ ApplyTaken
    /\ UNCHANGED <<nvars, installed, queue, removeFailed>>

(* Mutant: a policy tried by itself takes all that were to be tried along. *)
AddRulesDropsQueue ==
    /\ np.pc = "rules"
    /\ installed' = installed \cup np.policies
    /\ queue' = {}
    /\ IF np.batch THEN np' = Idle /\ UNCHANGED apply ELSE AddNext
    /\ UNCHANGED <<nvars, removeFailed>>

(* policyMgr.AddPolicies; the policies of the call leave the queue.  Every *)
(* policy has ACLs: one without has no rules and is not kept.              *)
AddRules ==
    /\ np.pc = "rules"
    /\ installed' = installed \cup np.policies
    /\ queue' = queue \ np.policies
    /\ IF np.batch THEN np' = Idle /\ UNCHANGED apply ELSE AddNext
    /\ UNCHANGED <<nvars, removeFailed>>

(* A failure keeps the policies queued.  After the failure of all at once  *)
(* each is tried by itself.                                                *)
AddFails ==
    /\ \/ ApplyFailed("precaution") /\ UNCHANGED faults
       \/ ApplyFailed("apply") /\ UNCHANGED faults
       \/ np.pc = "rules" /\ faults < MaxFaults /\ faults' = faults + 1
    /\ AddNext
    /\ UNCHANGED <<mgr, kernel, restore, failures, installed, queue, removeFailed>>

-----------------------------------------------------------------------------
(* RemovePolicy and UpdatePolicy: the rules go first, then the references  *)
(* and members, then the sets are applied.  A policy that is only queued   *)
(* leaves the queue and nothing else is done.                              *)

RemovePolicy(p) ==
    /\ np.pc = "idle"
    /\ queue' = queue \ {p}
    /\ np' = IF p \in installed THEN [Idle EXCEPT !.pc = "unrule", !.now = p] ELSE np
    /\ UNCHANGED <<nvars, installed, removeFailed, apply>>

UpdatePolicy(p) ==
    /\ np.pc = "idle" /\ p \in installed
    /\ queue' = queue \ {p}
    /\ np' = [Idle EXCEPT !.pc = "unrule", !.now = p, !.readd = TRUE]
    /\ UNCHANGED <<nvars, installed, removeFailed, apply>>

RemoveRules ==
    /\ np.pc = "unrule"
    /\ \/ /\ installed' = installed \ {np.now}
          /\ np' = [np EXCEPT !.pc = "unrefer"]
          /\ UNCHANGED faults
       \/ /\ faults < MaxFaults /\ faults' = faults + 1
          /\ np' = Idle
          /\ UNCHANGED installed
    /\ UNCHANGED <<mgr, kernel, restore, failures, queue, removeFailed, apply>>

DeleteReferences ==
    /\ np.pc = "unrefer"
    /\ Change(FoldSet(LAMBDA s, m : DeleteReferenceTo(m, s, np.now), mgr, SetsOf[np.now]))
    /\ np' = [np EXCEPT !.pc = "unmember"]
    /\ UNCHANGED <<installed, queue, removeFailed, apply>>

(* The members go, and the sets that nothing needs any more.               *)
DeleteMembers ==
    /\ np.pc = "unmember"
    /\ Change(FoldSet(LAMBDA s, m : modifyCacheForCacheDeletion(m, s, "soft"),
                      FoldSet(LAMBDA b, m : RemoveFromSet(m, b[1], b[2], NoKey),
                              mgr, BlocksOf(np.now)),
                      SetsOf[np.now]))
    /\ CallApply("unapply")
    /\ UNCHANGED <<installed, queue, removeFailed>>

Removed ==
    /\ Applied("unapply")
    /\ queue' = IF np.readd THEN queue \cup {np.now} ELSE queue
    /\ np' = Idle
    /\ ApplyTaken
    /\ UNCHANGED <<nvars, installed, removeFailed>>

RemoveFails ==
    /\ ApplyFailed("unapply")
    /\ removeFailed' = TRUE
    /\ np' = Idle
    /\ ApplyTaken
    /\ UNCHANGED <<nvars, installed, queue>>

(* RunPeriodicTasks: the manager's Reconcile.                              *)
PeriodicReconcile == Reconcile /\ UNCHANGED dpvars

-----------------------------------------------------------------------------

NetPolSteps ==
    \/ addPoliciesWithRetry \/ PrecautionDone
    \/ \E p \in np.left : AddReferences(p)
    \/ AddMembers \/ SetsApplied \/ AddRules \/ AddFails
    \/ RemoveRules \/ DeleteReferences \/ DeleteMembers \/ Removed \/ RemoveFails

Applying ==
    \/ \E t \in Threads : ApplyBegins(t) \/ ApplyEnds(t) \/ setRemovePolicyFailureFalse(t)
    \/ RestoreRuns \/ ProcessPanics

DNext ==
    \/ \E p \in Policies : AddPolicy(p) \/ RemovePolicy(p) \/ UpdatePolicy(p)
    \/ NetPolSteps \/ Applying \/ ApplyDataPlane \/ PeriodicReconcile

DSpec == DInit /\ [][DNext]_dvars

(* The background thread ticks, a restore ends, and no thread waits for    *)
(* ever for the manager's lock: a Go mutex hands itself to a waiter that   *)
(* has starved.                                                            *)
DFairSpec ==
    /\ DSpec
    /\ SF_dvars(NetPolSteps)
    /\ \A t \in UNION Workloads : /\ SF_dvars(t \in Threads /\ ApplyBegins(t))
                                  /\ WF_dvars(t \in Threads /\ ApplyEnds(t))
                                  /\ WF_dvars(t \in Threads /\ setRemovePolicyFailureFalse(t))
    /\ WF_dvars(RestoreRuns) /\ WF_dvars(ProcessPanics)

-----------------------------------------------------------------------------
(* Properties *)

(* The data plane's own state: a thread's call of apply is under way only  *)
(* in the steps that wait for one, and the manager is locked exactly while *)
(* one of the threads runs a restore.                                      *)
DTypeOK ==
    /\ installed \subseteq Policies /\ queue \subseteq Policies
    /\ removeFailed \in BOOLEAN
    /\ np.left \subseteq np.policies /\ np.policies \cup np.retry \subseteq queue
    /\ apply \in [Threads -> {"no", "called", "running", "applied", "ok", "failed"}]
    /\ apply["netpol"] # "no" <=> np.pc \in {"precaution", "apply", "unapply"}
    /\ restore.on <=> \E t \in Threads : apply[t] = "running"
    /\ Cardinality({t \in Threads : apply[t] = "running"}) <= 1

(* As long as the rules of a policy are in iptables, every set they match  *)
(* on is in the kernel and holds the policy's CIDR blocks: the rules go in *)
(* after the sets and out before them, though removals fail, restores end  *)
(* anywhere and policies are tried again one by one (dataplane.go:         *)
(* addPolicies, RemovePolicy, "prevent #2977").  It takes a node without   *)
(* pod events, as the apply of another thread may reset the flag of a      *)
(* failed removal that came after it; and a kernel that refuses only lines *)
(* that contradict its sets.                                               *)
RulesHaveSets ==
    Threads = {"netpol"} =>
        \A p \in installed : \A s \in SetsOf[p] :
            s \in DOMAIN kernel /\ Blocks[s] \subseteq kernel[s]

(* A queued policy does not wait for ever: its rules get in, or it is      *)
(* taken from the queue.                                                   *)
QueuedGetsIn == \A p \in Policies : (p \in queue) ~> (p \in installed \/ p \notin queue)
=============================================================================
