------------------------------ MODULE NPMIPSets ------------------------------
(***************************************************************************)
(* The IPSetManager of the network policy manager (npm/pkg/dataplane/      *)
(* ipsets) on Linux: the cache of IP sets the controllers write, the dirty *)
(* cache that remembers what has still to be done in the kernel, and the   *)
(* "ipset restore" call that does it, line by line, with its retries.      *)
(*                                                                         *)
(* Every operation holds the manager's lock, ApplyIPSets for as long as    *)
(* its restore runs; only the lines of a restore are steps of their own.   *)
(* A hash set has IP members with the key of the pod that owns each; a     *)
(* list set has hash sets as members.                                      *)
(***************************************************************************)
EXTENDS Naturals, FiniteSets, FiniteSetsExt, Functions

CONSTANTS
    HashSets, ListSets,   \* names of sets; the prefix of a name tells its kind
    IPs, PodKeys,         \* members of hash sets, and their owners
    References,           \* a network policy together with the type of its reference
    Modes,                \* among "all" (ApplyAllIPSets) and "need" (ApplyOnNeed)
    DeleteOptions,        \* the delete options the control plane in use passes
    MaxTry,               \* maxTryCount
    MaxFailures,          \* maxConsecutiveFailures
    MaxFaults,            \* bound: restores that break off for a reason of their own
    BreaksMidway          \* whether such a restore may have executed some of its lines

Sets == HashSets \cup ListSets

ASSUME NPMAssumption ==
    /\ HashSets \cap ListSets = {} /\ IPs \cap Sets = {}
    /\ IsFiniteSet(HashSets) /\ IsFiniteSet(ListSets) /\ IsFiniteSet(IPs)
    /\ Modes \subseteq {"all", "need"}
    /\ DeleteOptions \subseteq {"soft", "force"}
    /\ MaxTry \in Nat \ {0} /\ MaxFailures \in Nat \ {0} /\ MaxFaults \in Nat
    /\ BreaksMidway \in BOOLEAN

VARIABLES
    mgr,        \* the manager: iMgrCfg.IPSetMode, setMap, the maps of the dirty cache
    kernel,     \* the sets in the kernel, each with its members
    restore,    \* the restore under way, if any: lines left and done, and the try it is
    failures,   \* consecutiveApplyFailures
    faults      \* restores broken off so far

nvars == <<mgr, kernel, restore, failures, faults>>

Extended(f, x, v) == [y \in {x} \cup DOMAIN f |-> IF y = x THEN v ELSE f[y]]
Without(f, S) == Restrict(f, DOMAIN f \ S)

-----------------------------------------------------------------------------
(* The difference a dirty set carries (dirtycache_linux.go).               *)

newMemberDiff == [add |-> {}, del |-> {}]

diffOnCreate(members) == [add |-> members, del |-> {}]

diffAddMember(diff, x) ==
    IF x \in diff.del THEN [diff EXCEPT !.del = @ \ {x}]
                      ELSE [diff EXCEPT !.add = @ \cup {x}]

diffDeleteMember(diff, x) ==
    IF x \in diff.add THEN [diff EXCEPT !.add = @ \ {x}]
                      ELSE [diff EXCEPT !.del = @ \cup {x}]

(* diff.deleteMember for each of a set's members, then resetMembersToAdd.  *)
diffOnDestroy(diff, members) ==
    [add |-> {}, del |-> diff.del \cup (members \ diff.add)]

-----------------------------------------------------------------------------
(* The cached sets and the dirty cache.  Each operator maps the state of   *)
(* the manager to the state after it.                                      *)

NewIPSet == [ipPodKey |-> << >>, memberIPSets |-> {}, refs |-> {},
             ipsetReferCount |-> 0, kernelReferCount |-> 0]

NewIPSetManager(mode) ==
    [mode |-> mode, setMap |-> << >>, toCreate |-> << >>, toUpdate |-> << >>, toDestroy |-> << >>]

Members(m, s) ==
    IF s \in HashSets THEN DOMAIN m.setMap[s].ipPodKey ELSE m.setMap[s].memberIPSets

shouldBeInKernel(m, s) ==
    \/ m.setMap[s].refs # {}
    \/ m.setMap[s].kernelReferCount > 0
    \/ m.mode = "all"

(* Mutant: the set stays in the map of sets to destroy.                    *)
dirtyCreateKeepsDestroy(m, s) ==
    IF s \in DOMAIN m.toCreate \cup DOMAIN m.toUpdate THEN m
    ELSE IF s \in DOMAIN m.toDestroy
         THEN [m EXCEPT !.toUpdate = Extended(@, s, m.toDestroy[s])]
         ELSE [m EXCEPT !.toCreate = Extended(@, s, diffOnCreate(Members(m, s)))]

(* Mutant: a set that was to be destroyed starts afresh, though the       *)
(* kernel has it.                                                          *)
dirtyCreateAfresh(m, s) ==
    IF s \in DOMAIN m.toCreate \cup DOMAIN m.toUpdate THEN m
    ELSE [m EXCEPT !.toCreate = Extended(@, s, diffOnCreate(Members(m, s))),
                   !.toDestroy = Without(@, {s})]

(* dirtyCache.create: a set that was to be destroyed is to be updated, and *)
(* its difference is kept.                                                 *)
dirtyCreate(m, s) ==
    IF s \in DOMAIN m.toCreate \cup DOMAIN m.toUpdate THEN m
    ELSE IF s \in DOMAIN m.toDestroy
         THEN [m EXCEPT !.toUpdate = Extended(@, s, m.toDestroy[s]),
                        !.toDestroy = Without(@, {s})]
         ELSE [m EXCEPT !.toCreate = Extended(@, s, diffOnCreate(Members(m, s)))]

memberDiff(m, s) ==
    IF s \in DOMAIN m.toCreate THEN m.toCreate[s]
    ELSE IF s \in DOMAIN m.toUpdate THEN m.toUpdate[s]
    ELSE IF s \in DOMAIN m.toDestroy THEN m.toDestroy[s]
    ELSE newMemberDiff

dirtyAddMember(m, s, x) ==
    LET diff == diffAddMember(memberDiff(m, s), x)
    IN  IF s \in DOMAIN m.toCreate
        THEN [m EXCEPT !.toCreate[s] = diff, !.toDestroy = Without(@, {s})]
        ELSE [m EXCEPT !.toUpdate = Extended(@, s, diff), !.toDestroy = Without(@, {s})]

dirtyDeleteMember(m, s, x) ==
    IF s \in DOMAIN m.toDestroy THEN m
    ELSE IF s \in DOMAIN m.toCreate
         THEN [m EXCEPT !.toCreate[s].add = @ \ {x}]
         ELSE [m EXCEPT !.toUpdate =
                  Extended(@, s, diffDeleteMember(memberDiff(m, s), x))]

dirtyDestroy(m, s, members) ==
    IF s \in DOMAIN m.toDestroy THEN m
    ELSE [m EXCEPT !.toDestroy =
              IF s \in DOMAIN m.toCreate THEN @
              ELSE Extended(@, s, diffOnDestroy(memberDiff(m, s), members)),
              !.toCreate = Without(@, {s}), !.toUpdate = Without(@, {s})]

createAndGetIPSet(m, s) ==
    LET new == [m EXCEPT !.setMap = Extended(@, s, NewIPSet)]
    IN  IF s \in DOMAIN m.setMap THEN m
        ELSE IF m.mode = "all" THEN dirtyCreate(new, s) ELSE new

KernelMemberAdd(m, s, x) ==
    IF shouldBeInKernel(m, s) THEN dirtyAddMember(m, s, x) ELSE m

KernelMemberDelete(m, s, x) ==
    IF shouldBeInKernel(m, s) THEN dirtyDeleteMember(m, s, x) ELSE m

incKernelReferCountAndModifyCache(m, s) ==
    LET counted == [m EXCEPT !.setMap[s].kernelReferCount = @ + 1]
    IN  IF shouldBeInKernel(m, s) THEN counted ELSE dirtyCreate(counted, s)

Dec(n) == IF n = 0 THEN 0 ELSE n - 1

decKernelReferCountAndModifyCache(m, s) ==
    LET counted == [m EXCEPT !.setMap[s].kernelReferCount = Dec(@)]
    IN  IF shouldBeInKernel(counted, s) THEN counted
        ELSE dirtyDestroy(counted, s, Members(m, s))

AddReferenceTo(m, s, r) ==
    LET made == createAndGetIPSet(m, s)
        referred == [made EXCEPT !.setMap[s].refs = @ \cup {r}]
    IN  IF shouldBeInKernel(made, s) THEN referred
        ELSE FoldSet(LAMBDA x, n : incKernelReferCountAndModifyCache(n, x),
                     dirtyCreate(referred, s), made.setMap[s].memberIPSets)

(* Mutant: the members of a list that leaves the kernel keep their counts. *)
DeleteReferenceToList(m, s, r) ==
    LET dropped == [m EXCEPT !.setMap[s].refs = @ \ {r}]
    IN  IF s \notin DOMAIN m.setMap THEN m
        ELSE IF ~shouldBeInKernel(m, s) \/ shouldBeInKernel(dropped, s) THEN dropped
        ELSE dirtyDestroy(dropped, s, Members(m, s))

DeleteReferenceTo(m, s, r) ==
    LET dropped == [m EXCEPT !.setMap[s].refs = @ \ {r}]
    IN  IF s \notin DOMAIN m.setMap THEN m
        ELSE IF ~shouldBeInKernel(m, s) \/ shouldBeInKernel(dropped, s) THEN dropped
        ELSE FoldSet(LAMBDA x, n : decKernelReferCountAndModifyCache(n, x),
                     dirtyDestroy(dropped, s, Members(m, s)), m.setMap[s].memberIPSets)

(* A member that is there already only changes its owner.                  *)
AddToSet(m, s, ip, key) ==
    LET made == createAndGetIPSet(m, s)
        added == IF ip \in Members(made, s) THEN made ELSE KernelMemberAdd(made, s, ip)
    IN  [added EXCEPT !.setMap[s].ipPodKey = Extended(@, ip, key)]

(* The removal of an IP that another pod owns by now is stale and ignored. *)
RemoveFromSet(m, s, ip, key) ==
    IF \/ s \notin DOMAIN m.setMap
       \/ ip \notin Members(m, s)
       \/ m.setMap[s].ipPodKey[ip] # key
    THEN m
    ELSE [KernelMemberDelete(m, s, ip) EXCEPT !.setMap[s].ipPodKey = Without(@, {ip})]

AddToList(m, l, s) ==
    LET made == createAndGetIPSet(createAndGetIPSet(m, s), l)
        added == [KernelMemberAdd(made, l, s) EXCEPT
                      !.setMap[l].memberIPSets = @ \cup {s},
                      !.setMap[s].ipsetReferCount = @ + 1]
    IN  IF s \in Members(made, l) THEN made
        ELSE IF shouldBeInKernel(added, l)
             THEN incKernelReferCountAndModifyCache(added, s) ELSE added

RemoveMember(m, l, s) ==
    LET removed == [KernelMemberDelete(m, l, s) EXCEPT
                        !.setMap[l].memberIPSets = @ \ {s},
                        !.setMap[s].ipsetReferCount = Dec(@)]
    IN  IF {l, s} \subseteq DOMAIN m.setMap /\ s \in Members(m, l)
        THEN IF shouldBeInKernel(removed, l)
             THEN decKernelReferCountAndModifyCache(removed, s) ELSE removed
        ELSE m

(* Mutant: the lists a set is in do not keep it.                           *)
canBeDeletedFromLists(m, s, option) ==
    m.setMap[s].refs = {} /\ (option = "force" \/ Members(m, s) = {})

canBeDeleted(m, s, option) ==
    /\ m.setMap[s].refs = {}
    /\ m.setMap[s].ipsetReferCount = 0
    /\ option = "force" \/ Members(m, s) = {}

modifyCacheForCacheDeletion(m, s, option) ==
    LET deleted == [m EXCEPT !.setMap = Without(@, {s})]
    IN  IF s \notin DOMAIN m.setMap \/ ~canBeDeleted(m, s, option) THEN m
        ELSE IF m.mode = "all" THEN dirtyDestroy(deleted, s, Members(m, s)) ELSE deleted

-----------------------------------------------------------------------------
(* The operations, each under the manager's lock.                          *)

NoRestore == [on |-> FALSE, todo |-> {}, done |-> {}, try |-> 0]

Unlocked == ~restore.on

Change(m) == /\ Unlocked
             /\ mgr' = m
             /\ UNCHANGED <<kernel, restore, failures, faults>>

CreateIPSets(S) == Change(FoldSet(LAMBDA s, m : createAndGetIPSet(m, s), mgr, S))

DeleteIPSet(s, option) == Change(modifyCacheForCacheDeletion(mgr, s, option))

AddReference(s, r) == Change(AddReferenceTo(mgr, s, r))

DeleteReference(s, r) == Change(DeleteReferenceTo(mgr, s, r))

AddToSets(S, ip, key) ==
    Change(FoldSet(LAMBDA s, m : AddToSet(m, s, ip, key), mgr, S))

RemoveFromSets(S, ip, key) ==
    Change(FoldSet(LAMBDA s, m : RemoveFromSet(m, s, ip, key), mgr, S))

AddToLists(L, S) ==
    Change(FoldSet(LAMBDA p, m : AddToList(m, p[1], p[2]), mgr, L \X S))

RemoveFromList(l, S) == Change(FoldSet(LAMBDA s, m : RemoveMember(m, l, s), mgr, S))

Reconcile ==
    Change(FoldSet(LAMBDA s, m : modifyCacheForCacheDeletion(m, s, "soft"), mgr,
                   DOMAIN mgr.setMap))

-----------------------------------------------------------------------------
(* ApplyIPSets: the restore file, and how "ipset restore" runs it.         *)

toAddOrUpdate(m) == DOMAIN m.toCreate \cup DOMAIN m.toUpdate

Dirty(m) == toAddOrUpdate(m) \cup DOMAIN m.toDestroy

Line(op, s, x) == [op |-> op, set |-> s, member |-> x]

fileCreatorForApply(m) ==
    {Line("create", s, s) : s \in toAddOrUpdate(m)}
    \cup (UNION {{Line("del", s, x) : x \in memberDiff(m, s).del} : s \in toAddOrUpdate(m)})
    \cup (UNION {{Line("add", s, x) : x \in memberDiff(m, s).add} : s \in toAddOrUpdate(m)})
    \cup (UNION {{Line("flush", s, s), Line("destroy", s, s)} : s \in DOMAIN m.toDestroy})

(* The order of two lines of a file; Go's maps leave the rest of it open.  *)
Rank == [create |-> 1, del |-> 2, add |-> 2, flush |-> 3, destroy |-> 4]

Before(k, l) == \/ Rank[k.op] < Rank[l.op]
                \/ k.op = "del" /\ l.op = "add" /\ k.set = l.set

Next1(l) == l \in restore.todo /\ \A k \in restore.todo : ~Before(k, l)

(* What the kernel says of a line: only create has the --exist flag.  It   *)
(* refuses a line only when the line contradicts its sets; after a refusal *)
(* for another reason (the handlers of an unknown error) the line would be *)
(* missing from an apply that succeeds.                                    *)
Accepted(l) ==
    CASE l.op = "create"  -> TRUE
      [] l.op = "del"     -> l.set \in DOMAIN kernel /\ l.member \in kernel[l.set]
      [] l.op = "add"     -> /\ l.set \in DOMAIN kernel /\ l.member \notin kernel[l.set]
                             /\ l.member \in IPs \cup DOMAIN kernel
      [] l.op = "flush"   -> l.set \in DOMAIN kernel
      [] l.op = "destroy" -> /\ l.set \in DOMAIN kernel
                             /\ \A s \in DOMAIN kernel : l.set \notin kernel[s]

Executed(l) ==
    CASE l.op = "create"  -> IF l.set \in DOMAIN kernel THEN kernel
                             ELSE Extended(kernel, l.set, {})
      [] l.op = "del"     -> [kernel EXCEPT ![l.set] = @ \ {l.member}]
      [] l.op = "add"     -> [kernel EXCEPT ![l.set] = @ \cup {l.member}]
      [] l.op = "flush"   -> [kernel EXCEPT ![l.set] = {}]
      [] l.op = "destroy" -> Without(kernel, {l.set})

(* The lines a failed line takes along: a flush that fails aborts its      *)
(* section, the destroy.  (A create would too; with the type given by the  *)
(* name the kernel has no reason to refuse one.)                           *)
Aborted(l) ==
    {k \in restore.todo : l.op = "flush" /\ k.op = "destroy" /\ k.set = l.set}

(* With nothing dirty the call returns at once; that is a stuttering step. *)
ApplyIPSets ==
    /\ Unlocked /\ Dirty(mgr) # {}
    /\ restore' = [on |-> TRUE, todo |-> fileCreatorForApply(mgr), done |-> {}, try |-> 1]
    /\ UNCHANGED <<mgr, kernel, failures, faults>>

LineRuns(l) ==
    /\ Next1(l) /\ Accepted(l)
    /\ kernel' = Executed(l)
    /\ restore' = [restore EXCEPT !.todo = @ \ {l}, !.done = @ \cup {l}]
    /\ UNCHANGED <<mgr, failures, faults>>

(* The file is run again from behind the failed line.                      *)
LineSkipped(l) ==
    /\ Next1(l) /\ ~Accepted(l) /\ restore.try < MaxTry
    /\ restore' = [restore EXCEPT !.todo = @ \ ({l} \cup Aborted(l)),
                                  !.done = {}, !.try = @ + 1]
    /\ UNCHANGED <<mgr, kernel, failures, faults>>

(* The command fails and names no line: the same file is run again.        *)
MayBreak == /\ restore.on /\ faults < MaxFaults
            /\ BreaksMidway \/ restore.done = {}

Rerun ==
    /\ MayBreak /\ restore.try < MaxTry
    /\ restore' = [restore EXCEPT !.todo = @ \cup restore.done, !.done = {}, !.try = @ + 1]
    /\ faults' = faults + 1
    /\ UNCHANGED <<mgr, kernel, failures>>

LastTryFails ==
    /\ restore.try = MaxTry
    /\ \/ /\ \E l \in restore.todo : Next1(l) /\ ~Accepted(l)
          /\ UNCHANGED faults
       \/ /\ MayBreak
          /\ faults' = faults + 1

(* The call returns an error; the dirty cache is kept for the next one.    *)
ApplyFails ==
    /\ LastTryFails /\ failures + 1 < MaxFailures
    /\ failures' = failures + 1
    /\ restore' = NoRestore
    /\ UNCHANGED <<mgr, kernel>>

(* After maxConsecutiveFailures the process panics; the next one starts by *)
(* resetting the sets in the kernel and learns everything anew.            *)
Panic ==
    /\ LastTryFails /\ failures + 1 >= MaxFailures
    /\ failures' = 0
    /\ restore' = NoRestore
    /\ mgr' = NewIPSetManager(mgr.mode)
    /\ kernel' = << >>

ApplySucceeds ==
    /\ restore.on /\ restore.todo = {}
    /\ mgr' = [NewIPSetManager(mgr.mode) EXCEPT !.setMap = mgr.setMap]
    /\ restore' = NoRestore
    /\ failures' = 0
    /\ UNCHANGED <<kernel, faults>>

Restoring == \/ \E l \in restore.todo : LineRuns(l) \/ LineSkipped(l)
             \/ Rerun \/ ApplyFails \/ Panic \/ ApplySucceeds

NInit == /\ mgr \in {NewIPSetManager(mode) : mode \in Modes}
         /\ kernel = << >>
         /\ restore = NoRestore
         /\ failures = 0 /\ faults = 0

Operation ==
    \/ \E s \in Sets : \/ CreateIPSets({s})
                       \/ \E o \in DeleteOptions : DeleteIPSet(s, o)
                       \/ \E r \in References : AddReference(s, r) \/ DeleteReference(s, r)
    \/ \E S \in (SUBSET HashSets) \ {{}} :
          \/ \E ip \in IPs, key \in PodKeys : AddToSets(S, ip, key) \/ RemoveFromSets(S, ip, key)
          \/ \E l \in ListSets : AddToLists({l}, S) \/ RemoveFromList(l, S)
    \/ Reconcile

NNext == Operation \/ ApplyIPSets \/ Restoring

NSpec == NInit /\ [][NNext]_nvars

-----------------------------------------------------------------------------
(* Properties *)

Diffs == [add : SUBSET (IPs \cup HashSets), del : SUBSET (IPs \cup HashSets)]

(* The manager's maps are keyed by set names, a hash set has only IPs and  *)
(* a list only cached hash sets as members, and a count stays within the   *)
(* number of lists (ipset.go: IPSet, dirtycache.go: dirtyCache).           *)
NTypeOK ==
    /\ DOMAIN mgr.setMap \subseteq Sets
    /\ \A s \in DOMAIN mgr.setMap :
          LET set == mgr.setMap[s] IN
          /\ set.refs \subseteq References
          /\ {set.ipsetReferCount, set.kernelReferCount} \subseteq 0 .. Cardinality(ListSets)
          /\ DOMAIN set.ipPodKey \subseteq IPs
          /\ \A ip \in DOMAIN set.ipPodKey : set.ipPodKey[ip] \in PodKeys
          /\ set.memberIPSets \subseteq HashSets \cap DOMAIN mgr.setMap
          /\ s \in HashSets => set.memberIPSets = {}
          /\ s \in ListSets => set.ipPodKey = << >>
    /\ \A cache \in {mgr.toCreate, mgr.toUpdate, mgr.toDestroy} :
          /\ DOMAIN cache \subseteq Sets
          /\ \A s \in DOMAIN cache : cache[s] \in Diffs
    /\ restore.try \in 0 .. MaxTry /\ failures \in 0 .. MaxFailures - 1

WantedInKernel(s) == s \in DOMAIN mgr.setMap /\ shouldBeInKernel(mgr, s)

(* What sanitizeDirtyCache looks for and what fileCreatorForApply takes    *)
(* for granted when it dereferences setMap[name]: a set is in one map of   *)
(* the dirty cache, one to create or update is cached and belongs in the   *)
(* kernel, and one to destroy does not.                                    *)
DirtyRight ==
    /\ DOMAIN mgr.toCreate \cap DOMAIN mgr.toUpdate = {}
    /\ toAddOrUpdate(mgr) \cap DOMAIN mgr.toDestroy = {}
    /\ \A s \in toAddOrUpdate(mgr) : WantedInKernel(s)
    /\ \A s \in DOMAIN mgr.toDestroy : ~WantedInKernel(s)

Lists(s) == {l \in ListSets \cap DOMAIN mgr.setMap : s \in Members(mgr, l)}

(* The reference counts of a set say in how many cached lists, and in how  *)
(* many lists of the kernel, it is a member (ipset.go: "ipsetReferCount    *)
(* keeps track of how many lists in the cache refer to this ipset"), so a  *)
(* set is deleted exactly when nothing refers to it.                       *)
CountsExact ==
    \A s \in HashSets \cap DOMAIN mgr.setMap :
        /\ mgr.setMap[s].ipsetReferCount = Cardinality(Lists(s))
        /\ mgr.setMap[s].kernelReferCount =
               Cardinality({l \in Lists(s) : shouldBeInKernel(mgr, l)})

(* What the kernel will hold of s once the dirty cache is applied.         *)
Planned(s) ==
    LET now == IF s \in DOMAIN kernel THEN kernel[s] ELSE {}
    IN  (now \ memberDiff(mgr, s).del) \cup memberDiff(mgr, s).add

InKernelAfter(s) ==
    \/ s \in toAddOrUpdate(mgr)
    \/ s \in DOMAIN kernel /\ s \notin DOMAIN mgr.toDestroy

(* With ApplyAllIPSets the dirty cache forgets nothing: between two        *)
(* applies the sets of the kernel and the differences on top of them are   *)
(* exactly the cached sets, with their cached members.  Every policy rule  *)
(* matches on these kernel sets, so a difference that is lost is a pod     *)
(* wrongly allowed or wrongly denied from then on.                         *)
KernelInSync ==
    mgr.mode = "all" /\ Unlocked =>
        \A s \in Sets :
            /\ InKernelAfter(s) <=> WantedInKernel(s)
            /\ WantedInKernel(s) => Planned(s) = Members(mgr, s)

=============================================================================
