-------------------------- MODULE IptablesMonitor --------------------------
(***************************************************************************)
(* azure-iptables-monitor beside the blocker: a container of the same pod, *)
(* started once the init container has attached the hooks, that compares   *)
(* the rules of each table with what it expects, writes the result to a    *)
(* label of the node, and sends an event when the counter of blocked calls *)
(* in the pinned map has grown.                                            *)
(***************************************************************************)
EXTENDS BlockIptables

CONSTANTS
    Tables,        \* the iptables tables of both families
    MaxErrors      \* bound: commands, reads and calls of the monitor that fail

ASSUME MonitorConstants == MaxErrors \in Nat

VARIABLES
    unexpected,      \* tables that hold a rule no pattern matches
    label,           \* the label user-iptables-rules: "none", "true", "false"
    previousBlocks,  \* Check's counter of the last round
    errors,          \* failures so far
    reported         \* blocked calls counted when an event was last sent

monVars == <<unexpected, label, previousBlocks, errors, reported>>
mvars == <<bvars, monVars>>

\* A table's rules change: rules from before the hooks, or of allowed parents.
ChangeRules(tb) ==
    /\ unexpected' = IF tb \in unexpected THEN unexpected \ {tb} ELSE unexpected \cup {tb}
    /\ UNCHANGED <<bvars, label, previousBlocks, errors, reported>>

\* nodeHasUserIPTablesRules: a table whose listing fails is skipped.
nodeHasUserIPTablesRules(failed) == unexpected \ failed # {}

Blocks == IF pinMap = NoMap THEN 0 ELSE counter[pinMap]["blocked"]

\* Mutant: an error is returned as the value -1.
GetBPFMapValueNegative(err) == IF err THEN -1 ELSE Blocks

\* GetBPFMapValue: the value of key 0, and 0 with an error.
GetBPFMapValue(err) == IF err THEN 0 ELSE Blocks

\* Mutant: the event waits for two more blocked calls.
blockedRulesIncreasedLate(currentBlocks) == currentBlocks > previousBlocks + 1

blockedRulesIncreased(currentBlocks) == currentBlocks > previousBlocks

\* Check, one round: list the tables, patch the label, read the map, send the
\* event, remember the value read.  Errors are logged and the round goes on.
Check(failed, mapErr, patchErr, eventErr) ==
    LET currentBlocks == GetBPFMapValue(mapErr)
        increased == blockedRulesIncreased(currentBlocks)
        n == Cardinality(failed) + Cardinality({e \in {<<1, mapErr>>, <<2, patchErr>>, <<3, eventErr>>} : e[2]})
    IN  /\ outcome = "attached"
        /\ errors + n <= MaxErrors
        /\ eventErr => increased
        /\ errors' = errors + n
        /\ label' = IF patchErr THEN label
                    ELSE IF nodeHasUserIPTablesRules(failed) THEN "true" ELSE "false"
        /\ reported' = IF increased THEN Blocks ELSE reported
        /\ previousBlocks' = currentBlocks
        /\ UNCHANGED <<bvars, unexpected>>

Round ==
    \E failed \in SUBSET Tables, mapErr, patchErr, eventErr \in BOOLEAN :
        Check(failed, mapErr, patchErr, eventErr)

MInit ==
    /\ BInit
    /\ unexpected = {}
    /\ label = "none"
    /\ previousBlocks = 0
    /\ errors = 0
    /\ reported = 0

\* With the agent's pod its monitor is replaced.
Redeploy ==
    /\ \E m \in Modes : Deploy(m)
    /\ previousBlocks' = 0 /\ reported' = 0
    /\ UNCHANGED <<unexpected, label, errors>>

MNext ==
    \/ Redeploy
    \/ (Start \/ Step \/ Call) /\ UNCHANGED monVars
    \/ \E tb \in Tables : ChangeRules(tb)
    \/ Round

MSpec == MInit /\ [][MNext]_mvars

\* The kubelet runs the init container until it succeeds; the monitor checks
\* at every interval.
MFairSpec ==
    MSpec /\ WF_mvars(Start /\ UNCHANGED monVars) /\ WF_mvars(Step /\ UNCHANGED monVars)
          /\ WF_mvars(Round)

-----------------------------------------------------------------------------
(* Properties *)

\* The monitor's state is well typed; no value it remembers is negative
\* (previousBlocks and currentBlocks are unsigned).
MTypeOK ==
    /\ BTypeOK
    /\ unexpected \subseteq Tables
    /\ label \in {"none", "true", "false"}
    /\ previousBlocks \in 0 .. MaxCalls
    /\ reported \in 0 .. MaxCalls

\* A blocked call is reported, though the map may be unreadable for a while:
\* while the agent stays, an event is sent to the API server, which may refuse
\* it, as the code sends it once.
EveryBlockReported ==
    \A v \in 1 .. MaxCalls :
        (outcome = "attached" /\ Blocks = v) ~> (reported >= v \/ outcome # "attached")

=============================================================================
