--------------------------- MODULE BlockIptables ---------------------------
(***************************************************************************)
(* azure-block-iptables: two BPF LSM programs that keep host iptables      *)
(* rules from being installed by processes that are not on a list, the     *)
(* counters they share in a pinned map, and the tool that attaches and     *)
(* detaches them (bpf-prog/azure-block-iptables).                          *)
(*                                                                         *)
(* The tool is a process that runs to its end: the init container of the   *)
(* agent runs it with -overwrite, restarted until it succeeds.  Each of    *)
(* its system calls is an action; it may fail, and the process may stop    *)
(* between any two.  A link keeps a program attached as long as the link   *)
(* is pinned or the process that made it holds it open.                    *)
(***************************************************************************)
EXTENDS Integers, Sequences, SequencesExt, FiniteSets

CONSTANTS
    Comms,         \* command names of parents, as sequences of tokens
    Batches,       \* the netlink buffers processes send, see Batch
    U32,           \* the range of a __u32
    MaxCalls,      \* bound: system calls that install a rule and meet a program
    MaxDeploys,    \* bound: deployments of the agent
    MaxFaults      \* bound: failed calls and crashes of the tool

nlmsghdr == 16               \* sizeof(struct nlmsghdr)

\* Where the kernel looks for the message after one of n bytes.
NLMSG_ALIGN(n) == 4 * ((n + 3) \div 4)

\* A netlink buffer, in bytes: its length and the headers the kernel finds in
\* it, each with its type, the offset it is at and the length it states.  The
\* kernel takes one message after the other and stops at a header that states
\* less than its own length.
Batch ==
    {b \in [msgs : Seq([new_rule : BOOLEAN, at : Nat, len : 0 .. U32 - 1]), skb_len : 0 .. U32 - 1] :
        \A i \in DOMAIN b.msgs :
            /\ b.msgs[i].at + nlmsghdr <= b.skb_len
            /\ i = 1 => b.msgs[i].at = 0
            /\ i > 1 => /\ b.msgs[i - 1].len >= nlmsghdr
                        /\ b.msgs[i].at = b.msgs[i - 1].at + NLMSG_ALIGN(b.msgs[i - 1].len)}

ASSUME BlockConstants ==
    /\ {MaxCalls, MaxDeploys, MaxFaults, U32} \subseteq Nat /\ U32 > nlmsghdr
    /\ Batches \subseteq Batch

Hooks == {"legacy", "nft"}
NoMap == 0
Maps == 1 .. (MaxDeploys + MaxFaults)   \* each run creates one at most
Keys == {"blocked", "allowed"}

VARIABLES
    pinMap,     \* the map pinned as iptables_block_event_counter
    pinLink,    \* pinLink[h]: the map of the program whose link is pinned for h
    counter,    \* counter[m]: the two elements of map m
    made,       \* maps created so far
    tool,       \* the running tool: its next call and what it holds open
    mode,       \* the arguments the agent's init container runs the tool with
    outcome,    \* how the last run of the tool ended
    faults,     \* failed calls and crashes so far
    deploys,    \* deployments so far
    calls       \* system calls so far

toolVars == <<pinMap, pinLink, made, tool, mode, outcome, faults, deploys>>
callVars == <<counter, calls>>
bvars == <<toolVars, callVars>>

-----------------------------------------------------------------------------
(* The hooks *)

\* A process as the hooks see it: the namespace its task is in ("none" when
\* the task has no nsproxy any more) and its parent's command name (<<>> when
\* the parent cannot be read).
Tasks == [ns : {"host", "pod", "none"}, comm : Comms \cup {<<>>}]

target_prefixes ==
    {<<"cilium-agent">>, <<"ip-masq">>, <<"azure-cns">>, <<"install-cni">>, <<"nfs">>, <<"python">>}

is_allowed_parent(t) == \E p \in target_prefixes : IsPrefix(p, t.comm)

is_host_ns(t) == t.ns = "host"

\* Mutant: the walk ends one message early.
NETLINK_MSG_COUNTShort == 3

NETLINK_MSG_COUNT == 4

\* data after n messages that were read in step: each moves it by the length it
\* states, which is not aligned.
Reached(b, n) == IF n = 0 THEN 0 ELSE b.msgs[n].at + b.msgs[n].len

\* What the walk over the messages can find: it stops at a rule, after the last
\* iteration, or when what is left, which wraps around, holds no header.  Off
\* the headers it reads whatever lies there, in the buffer or behind it, or the
\* read fails; a header that states no length is read again.
new_rule_in(b) ==
    LET left(i) == (b.skb_len - Reached(b, i)) % U32
        lost(i) == i >= Len(b.msgs) \/ b.msgs[i + 1].at # Reached(b, i)
        again(i) == i > 0 /\ i = Len(b.msgs) /\ b.msgs[i].len = 0
        stops(i) == \/ i = NETLINK_MSG_COUNT \/ left(i) < nlmsghdr
                    \/ lost(i) \/ b.msgs[i + 1].new_rule
        last == CHOOSE i \in 0 .. NETLINK_MSG_COUNT : stops(i) /\ \A j \in 0 .. i - 1 : ~stops(j)
    IN  IF last = NETLINK_MSG_COUNT \/ left(last) < nlmsghdr \/ again(last) THEN {FALSE}
        ELSE IF lost(last) THEN BOOLEAN
        ELSE {TRUE}

\* The programs attached to a hook, in the order the kernel runs them: the
\* pinned link's, then the one of a link the tool has not pinned yet.
Attached(h) ==
    LET program(m) == IF m = NoMap THEN <<>> ELSE <<m>>
    IN  program(pinLink[h]) \o program(tool.fd[h])

\* The kernel asks the programs in turn and stops at the first that denies.
Asked(h, k) == IF k = "blocked" THEN SubSeq(Attached(h), 1, 1) ELSE Attached(h)

\* Each program adds one to the element of its own map; the add is atomic.
increment_event_counter(h, k) ==
    counter' = [m \in Maps |-> [counter[m] EXCEPT
                   ![k] = @ + Cardinality({i \in DOMAIN Asked(h, k) : Asked(h, k)[i] = m})]]

\* A hook's verdict on a call of process t that installs a rule or not.
Verdict(t, rule) ==
    IF ~is_host_ns(t) \/ ~rule THEN "pass"
    ELSE IF is_allowed_parent(t) THEN "allowed" ELSE "blocked"

\* A call that is let pass leaves no trace.
Hook(h, k) ==
    /\ k \in Keys /\ Attached(h) # <<>>
    /\ calls < MaxCalls /\ calls' = calls + 1
    /\ increment_event_counter(h, k)
    /\ UNCHANGED toolVars

Sockopts == [level : {"IPPROTO_IP", "IPPROTO_IP6", "SOL_SOCKET"},
             optname : {"IPT_SO_SET_REPLACE", "IPT_SO_SET_ADD_COUNTERS"}]

\* setsockopt by process t.
iptables_legacy_block(t, o) ==
    Verdict(t, o.level \in {"IPPROTO_IP", "IPPROTO_IP6"} /\ o.optname = "IPT_SO_SET_REPLACE")

\* A buffer sent on a netlink socket of family AF_NETLINK and the given
\* protocol: the verdicts that are possible.
iptables_nftables_block(t, proto, b) ==
    {Verdict(t, rule) : rule \in (IF proto = "NETLINK_NETFILTER" THEN new_rule_in(b) ELSE {FALSE})}

Protocols == {"NETLINK_NETFILTER", "NETLINK_ROUTE"}

\* The verdicts the calls of the processes get at each hook.
LegacyVerdicts == {iptables_legacy_block(t, o) : t \in Tasks, o \in Sockopts}

NftVerdicts ==
    UNION {iptables_nftables_block(t, proto, b) : t \in Tasks, proto \in Protocols, b \in Batches}

\* A process makes a system call that reaches one of the hooks.
Call == \/ \E k \in LegacyVerdicts : Hook("legacy", k)
        \/ \E k \in NftVerdicts : Hook("nft", k)

-----------------------------------------------------------------------------
(* The tool *)

NoLinks == [h \in Hooks |-> NoMap]
Exited == [pc |-> "exited", map |-> NoMap, fd |-> NoLinks]

Goto(pc) == tool' = [tool EXCEPT !.pc = pc]

\* The process ends; the links it did not pin are closed with it.
Exit(how) == tool' = Exited /\ outcome' = how

\* A call that fails; when it does is bounded, not why.
Fault == faults < MaxFaults /\ faults' = faults + 1

\* The agent is deployed anew, with the tool in any mode; the old pod ends.
Deploy(m) ==
    /\ deploys < MaxDeploys /\ deploys' = deploys + 1
    /\ mode' = m
    /\ Exit("none")
    /\ UNCHANGED <<pinMap, pinLink, made, faults, callVars>>

\* Mutant: attachMode does not heed -overwrite.
StartNoOverwrite ==
    /\ deploys > 0 /\ outcome \notin {"running", "attached", "detached"}
    /\ tool' = [Exited EXCEPT !.pc = IF mode.attach THEN "load" ELSE "unpin_legacy"]
    /\ outcome' = "running"
    /\ UNCHANGED <<pinMap, pinLink, made, mode, faults, deploys, callVars>>

\* attachMode, detachMode: the init container runs until it has succeeded once.
Start ==
    /\ deploys > 0 /\ outcome \notin {"running", "attached", "detached"}
    /\ tool' = [Exited EXCEPT !.pc = IF mode.attach /\ ~mode.overwrite THEN "load" ELSE "unpin_legacy"]
    /\ outcome' = "running"
    /\ UNCHANGED <<pinMap, pinLink, made, mode, faults, deploys, callVars>>

\* unpinLinks: os.Remove of one pin; a missing one is no error.  The program
\* of a link that nobody holds open is detached.  An error is logged and the
\* next path is tried.
UnpinLink(h, at, next) ==
    /\ tool.pc = at
    /\ \/ pinLink' = [pinLink EXCEPT ![h] = NoMap] /\ UNCHANGED faults
       \/ Fault /\ UNCHANGED pinLink
    /\ Goto(next)
    /\ UNCHANGED <<pinMap, made, outcome, mode, deploys, callVars>>

\* unpinEventCounterMap, the end of Detach, which always succeeds.
UnpinMap ==
    /\ tool.pc = "unpin_map"
    /\ \/ pinMap' = NoMap /\ UNCHANGED faults
       \/ Fault /\ UNCHANGED pinMap
    /\ IF mode.attach THEN Goto("load") /\ UNCHANGED outcome ELSE Exit("detached")
    /\ UNCHANGED <<pinLink, made, mode, deploys, callVars>>

\* LoadAndAssign opens the pinned map, or creates one and pins it, before it
\* loads the programs; pinEventCounterMap finds it pinned.
Load ==
    /\ tool.pc = "load"
    /\ \/ /\ pinMap = NoMap
          /\ made' = made + 1 /\ pinMap' = made + 1
       \/ pinMap # NoMap /\ UNCHANGED <<made, pinMap>>
    /\ \/ /\ tool' = [tool EXCEPT !.pc = "attach_legacy", !.map = pinMap']
          /\ UNCHANGED <<faults, outcome>>
       \/ Fault /\ Exit("failed")
    /\ UNCHANGED <<pinLink, mode, deploys, callVars>>

\* Any call of Attach before the map exists fails.
LoadFails ==
    /\ tool.pc = "load"
    /\ Fault /\ Exit("failed")
    /\ UNCHANGED <<pinMap, pinLink, made, mode, deploys, callVars>>

\* link.AttachLSM: from here on the hook runs the program.  On an error the
\* links made so far are closed.
AttachLSM(h, at, next) ==
    /\ tool.pc = at
    /\ \/ /\ tool' = [tool EXCEPT !.pc = next, !.fd[h] = tool.map]
          /\ UNCHANGED <<faults, outcome>>
       \/ Fault /\ Exit("failed")
    /\ UNCHANGED <<pinMap, pinLink, made, mode, deploys, callVars>>

\* Mutant: the link replaces the pinned one only if there is none, and the
\* error is ignored.
PinLinkIgnoresError(h, at, next) ==
    /\ tool.pc = at
    /\ pinLink' = [pinLink EXCEPT ![h] = IF @ = NoMap THEN tool.fd[h] ELSE @]
    /\ tool' = [tool EXCEPT !.pc = next, !.fd[h] = NoMap]
    /\ UNCHANGED <<pinMap, made, faults, outcome, mode, deploys, callVars>>

\* l.Pin fails when the path exists.  A pinned link outlives the process, and
\* closing it after the next hook's failure does not detach it.
PinLink(h, at, next) ==
    /\ tool.pc = at
    /\ \/ /\ pinLink[h] = NoMap
          /\ pinLink' = [pinLink EXCEPT ![h] = tool.fd[h]]
          /\ tool' = [tool EXCEPT !.pc = next, !.fd[h] = NoMap]
          /\ UNCHANGED <<faults, outcome>>
       \/ /\ pinLink[h] # NoMap
          /\ Exit("failed") /\ UNCHANGED <<pinLink, faults>>
       \/ Fault /\ Exit("failed") /\ UNCHANGED pinLink
    /\ UNCHANGED <<pinMap, made, mode, deploys, callVars>>

\* Attach returns nil and the process exits with 0.
Finish ==
    /\ tool.pc = "done"
    /\ Exit("attached")
    /\ UNCHANGED <<pinMap, pinLink, made, faults, mode, deploys, callVars>>

\* The process is killed between two calls.
Crash ==
    /\ tool.pc # "exited"
    /\ Fault /\ Exit("crashed")
    /\ UNCHANGED <<pinMap, pinLink, made, mode, deploys, callVars>>

Step ==
    \/ UnpinLink("legacy", "unpin_legacy", "unpin_nft")
    \/ UnpinLink("nft", "unpin_nft", "unpin_map")
    \/ UnpinMap
    \/ Load \/ LoadFails
    \/ AttachLSM("legacy", "attach_legacy", "pin_legacy")
    \/ PinLink("legacy", "pin_legacy", "attach_nft")
    \/ AttachLSM("nft", "attach_nft", "pin_nft")
    \/ PinLink("nft", "pin_nft", "done")
    \/ Finish
    \/ Crash

BInit ==
    /\ pinMap = NoMap
    /\ pinLink = NoLinks
    /\ counter = [m \in Maps |-> [k \in Keys |-> 0]]
    /\ made = 0
    /\ tool = Exited
    /\ mode = [attach |-> FALSE, overwrite |-> FALSE]
    /\ outcome = "none"
    /\ faults = 0 /\ deploys = 0 /\ calls = 0

Modes == [attach : BOOLEAN, overwrite : BOOLEAN]

-----------------------------------------------------------------------------
(* Properties *)

\* The pinned objects, the counters and the tool's own state (program.go,
\* block_iptables.bpf.c: struct iptables_block_event_counter) are well typed.
BTypeOK ==
    /\ pinMap \in Maps \cup {NoMap}
    /\ pinLink \in [Hooks -> Maps \cup {NoMap}]
    /\ counter \in [Maps -> [Keys -> Nat]]
    /\ made \in {NoMap} \cup Maps
    /\ tool \in [pc : {"exited", "unpin_legacy", "unpin_nft", "unpin_map", "load", "attach_legacy",
                       "pin_legacy", "attach_nft", "pin_nft", "done"},
                 map : Maps \cup {NoMap}, fd : [Hooks -> Maps \cup {NoMap}]]
    /\ outcome \in {"none", "running", "attached", "failed", "detached", "crashed"}

\* Attach that returns nil: after it, until the tool runs again, each hook
\* runs one program and both count in the map the monitor reads, whatever
\* earlier runs left behind when they failed or crashed.
AttachSound ==
    outcome = "attached" => /\ pinMap # NoMap
                            /\ \A h \in Hooks : Attached(h) = <<pinMap>>

\* A buffer that the kernel takes apart to its end: its messages are whole, and
\* what follows the last holds no header.
WellFormed(b) ==
    LET n == Len(b.msgs)
        end == IF n = 0 THEN 0 ELSE b.msgs[n].at + NLMSG_ALIGN(b.msgs[n].len)
    IN  /\ \A i \in 1 .. n : b.msgs[i].len >= nlmsghdr /\ b.msgs[i].at + b.msgs[i].len <= b.skb_len
        /\ b.skb_len < end + nlmsghdr

\* A rule is sure to be found in a buffer that the kernel takes apart exactly if
\* it is one of the first four messages and those before it have lengths that
\* are multiples of four; and nothing is found if the first four are no rules
\* and have such lengths.
WalkRight ==
    \A b \in Batches :
        LET aligned(i) == b.msgs[i].len % 4 = 0
            seen == {i \in 1 .. 4 : i <= Len(b.msgs)}
        IN  WellFormed(b) =>
              /\ new_rule_in(b) = {TRUE} <=>
                    \E i \in seen : b.msgs[i].new_rule /\ \A j \in 1 .. i - 1 : aligned(j)
              /\ (\A i \in seen : ~b.msgs[i].new_rule /\ aligned(i)) => new_rule_in(b) = {FALSE}

\* While the hook has a program, the walk of iptables_nftables_block agrees with
\* the kernel's own over the buffer, which aligns what the walk does not, as far
\* as WalkRight says.  After a message of any other length it is out of step.
RulesFound == Attached("nft") # <<>> => WalkRight

\* Whatever fails and wherever a run is killed, and whatever mode the agent was
\* deployed in before: a deployment with attach and -overwrite ends attached.
EventuallyAttached ==
    <>[](mode = [attach |-> TRUE, overwrite |-> TRUE]) => <>[](outcome = "attached")

=============================================================================
