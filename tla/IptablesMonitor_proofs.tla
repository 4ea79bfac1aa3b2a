----------------------- MODULE IptablesMonitor_proofs -----------------------
(***************************************************************************)
(* azure-block-iptables and azure-iptables-monitor for every number of     *)
(* deployments, faults and calls: an attach that returns nil has left one  *)
(* program on each hook, both counting in the pinned map.                  *)
(*                                                                         *)
(* AttachSound speaks of a tool that has exited; what makes it inductive   *)
(* is what holds before each of the tool's calls (ToolInv).  That a map ID *)
(* is always at hand (BTypeOK) is a matter of counting, as maps are only   *)
(* created by runs, and runs take a deployment or a fault (MapsInv).       *)
(***************************************************************************)
EXTENDS IptablesMonitor, TLAPS, FiniteSetTheorems, SequenceTheorems

\* The calls of a run up to the one that may create the map, and after it.
Unloaded == {"unpin_legacy", "unpin_nft", "unpin_map", "load"}
Loaded == {"attach_legacy", "pin_legacy", "attach_nft", "pin_nft", "done"}

\* What the tool has done and holds before each of its calls.
ToolInv ==
    /\ outcome = "running" <=> tool.pc # "exited"
    /\ tool.pc \notin {"pin_legacy", "pin_nft"} => tool.fd = NoLinks
    /\ tool.pc = "pin_legacy" => tool.fd = [NoLinks EXCEPT !["legacy"] = tool.map]
    /\ tool.pc = "pin_nft" => tool.fd = [NoLinks EXCEPT !["nft"] = tool.map]
    /\ tool.pc \in Loaded => pinMap # NoMap /\ tool.map = pinMap
    /\ tool.pc \in {"attach_nft", "pin_nft", "done"} => pinLink["legacy"] = tool.map
    /\ tool.pc = "done" => pinLink["nft"] = tool.map
    /\ outcome = "attached" => pinMap # NoMap /\ \A h \in Hooks : pinLink[h] = pinMap

\* attachMode without -overwrite, which opens a pinned map and unpins nothing.
Keeps == mode.attach /\ ~mode.overwrite

\* A run of the tool that may still create a map, or may be started.
MayCreate ==
    \/ tool.pc \in Unloaded
    \/ deploys > 0 /\ outcome \notin {"running", "attached", "detached"}

\* A pin that an overwriting run did not get rid of, when it comes to pin its
\* own link.
Leftover ==
    \/ tool.pc \in {"unpin_nft", "unpin_map", "load", "attach_legacy", "pin_legacy"} /\ pinLink["legacy"] # NoMap
    \/ tool.pc \in {"unpin_map", "load"} \cup (Loaded \ {"done"}) /\ pinLink["nft"] # NoMap

\* Each map was created by a run of its own, and each run that may create one
\* was paid for by a deployment or a fault: a run that ends without a fault
\* because of a leftover pin has had the fault before, or keeps the map.
MapsInv ==
    /\ faults \in 0 .. MaxFaults /\ deploys \in 0 .. MaxDeploys
    /\ mode \in Modes
    /\ made <= deploys + faults
    /\ MayCreate => made < deploys + faults \/ (Keeps /\ pinMap # NoMap)
    /\ tool.pc \in Unloaded \ {"load"} => ~Keeps
    /\ ~Keeps /\ Leftover => made + (IF tool.pc \in Unloaded THEN 1 ELSE 0) < deploys + faults

\* A blocked call is counted once, in one map.
CountInv ==
    /\ calls \in 0 .. MaxCalls
    /\ \A m \in Maps : counter[m]["blocked"] <= calls

BlockInv == BTypeOK /\ ToolInv /\ MapsInv /\ CountInv

MonitorInv ==
    /\ BlockInv
    /\ unexpected \subseteq Tables
    /\ label \in {"none", "true", "false"}
    /\ previousBlocks \in 0 .. MaxCalls /\ reported \in 0 .. MaxCalls

-----------------------------------------------------------------------------
(* The tool *)

\* BInit: nothing is pinned and the tool has not run.
LEMMA InitBlockInv == BInit => BlockInv
<1> SUFFICES ASSUME BInit PROVE BlockInv
  OBVIOUS
<1> USE BlockConstants DEF BInit
<1>1. BTypeOK
  BY DEF BTypeOK, NoLinks, Exited, NoMap
<1>2. ToolInv
  BY DEF ToolInv, Exited, Loaded
<1>3. MapsInv /\ CountInv
  BY DEF MapsInv, MayCreate, Keeps, Leftover, CountInv, Unloaded, Loaded, Exited, Keys, Modes
<1> QED BY <1>1, <1>2, <1>3 DEF BlockInv

\* The map IDs: a run that may create a map finds one unused.
LEMMA MapAtHand ==
    ASSUME BTypeOK, MapsInv, MayCreate, pinMap = NoMap
    PROVE  made + 1 \in Maps
  BY BlockConstants DEF BTypeOK, MapsInv, Maps, NoMap

\* A step that calls no hook leaves the counters alone.
LEMMA UnchangedCounters ==
    ASSUME CountInv, UNCHANGED callVars
    PROVE  CountInv'
  BY DEF CountInv, callVars

\* A call fails and the process ends, or it is killed.
LEMMA FailureKeepsBlockInv ==
    ASSUME BlockInv, tool.pc # "exited", Fault, NEW how \in {"failed", "crashed"}, Exit(how),
           UNCHANGED <<pinMap, pinLink, made, mode, deploys, callVars>>
    PROVE  BlockInv'
<1> USE BlockConstants DEF BlockInv, Exit
<1>1. CountInv'
  BY UnchangedCounters
<1>2. BTypeOK'
  BY DEF Exited, BTypeOK, NoLinks, callVars
<1>3. ToolInv'
  BY DEF Exited, ToolInv, Loaded
<1>4. MapsInv'
  BY DEF Fault, Exited, MapsInv, MayCreate, Keeps, Leftover, Unloaded, Loaded, BTypeOK, Maps, NoMap, Modes
<1> QED BY <1>1, <1>2, <1>3, <1>4

\* The tool begins anew (Deploy), is started (Start) or ends.
LEMMA RunsKeepBlockInv ==
    ASSUME BlockInv, (\E m \in Modes : Deploy(m)) \/ Start \/ Finish \/ Crash
    PROVE  BlockInv'
<1> USE BlockConstants DEF BlockInv
<1>0. CountInv'
  BY UnchangedCounters DEF Deploy, Start, Finish, Crash
<1>1. CASE \E m \in Modes : Deploy(m)
  <2>1. BTypeOK'
    BY <1>1 DEF Deploy, Exit, Exited, BTypeOK, NoLinks, callVars
  <2>2. ToolInv'
    BY <1>1 DEF Deploy, Exit, Exited, ToolInv, Loaded
  <2>3. MapsInv'
    BY <1>1 DEF Deploy, Exit, Exited, MapsInv, MayCreate, Keeps, Leftover, Unloaded, Loaded, BTypeOK, Maps, NoMap, Modes
  <2> QED BY <1>0, <2>1, <2>2, <2>3
<1>2. CASE Start
  <2>1. BTypeOK'
    BY <1>2 DEF Start, Exited, BTypeOK, NoLinks, callVars
  <2>2. ToolInv'
    BY <1>2 DEF Start, Exited, ToolInv, Loaded
  <2>3. MapsInv'
    BY <1>2 DEF Start, Exited, MapsInv, MayCreate, Keeps, Leftover, Unloaded, Loaded, BTypeOK, Maps, NoMap, Modes
  <2> QED BY <1>0, <2>1, <2>2, <2>3
<1>3. CASE Finish
  <2>1. BTypeOK'
    BY <1>3 DEF Finish, Exit, Exited, BTypeOK, NoLinks, callVars
  <2>2. ToolInv'
    BY <1>3 DEF Finish, Exit, Exited, ToolInv, Loaded, Hooks
  <2>3. MapsInv'
    BY <1>3 DEF Finish, Exit, Exited, MapsInv, MayCreate, Keeps, Leftover, Unloaded, Loaded, BTypeOK, Maps, NoMap, Modes
  <2> QED BY <1>0, <2>1, <2>2, <2>3
<1>4. CASE Crash
  BY <1>4, FailureKeepsBlockInv DEF Crash
<1> QED BY <1>1, <1>2, <1>3, <1>4

\* Detach: unpinLinks for each hook and unpinEventCounterMap.
LEMMA UnpinKeepsBlockInv ==
    ASSUME BlockInv,
           \/ UnpinLink("legacy", "unpin_legacy", "unpin_nft")
           \/ UnpinLink("nft", "unpin_nft", "unpin_map")
           \/ UnpinMap
    PROVE  BlockInv'
<1> USE BlockConstants DEF BlockInv, Goto
<1>0. CountInv'
  BY UnchangedCounters DEF UnpinLink, UnpinMap
<1>1. CASE UnpinLink("legacy", "unpin_legacy", "unpin_nft")
  <2>1. BTypeOK'
    BY <1>1 DEF UnpinLink, BTypeOK, Hooks, NoMap, callVars
  <2>2. ToolInv'
    BY <1>1 DEF UnpinLink, BTypeOK, ToolInv, Loaded
  <2>3. MapsInv'
    <3>1. tool'.pc = "unpin_nft" /\ UNCHANGED <<pinMap, made, mode, deploys, outcome>>
      BY <1>1 DEF UnpinLink, BTypeOK
    <3>2. \/ pinLink'["legacy"] = NoMap /\ pinLink'["nft"] = pinLink["nft"] /\ faults' = faults
          \/ faults < MaxFaults /\ faults' = faults + 1 /\ pinLink' = pinLink
      BY <1>1 DEF UnpinLink, Fault, BTypeOK, Hooks
    <3>3. made \in Nat /\ faults \in Nat /\ deploys \in Nat
      BY DEF BTypeOK, Maps, NoMap, MapsInv
    <3> QED BY <1>1, <3>1, <3>2, <3>3 DEF UnpinLink, MapsInv, MayCreate, Keeps, Leftover, Unloaded, Loaded
  <2> QED BY <1>0, <2>1, <2>2, <2>3
<1>2. CASE UnpinLink("nft", "unpin_nft", "unpin_map")
  <2>1. BTypeOK'
    BY <1>2 DEF UnpinLink, BTypeOK, Hooks, NoMap, callVars
  <2>2. ToolInv'
    BY <1>2 DEF UnpinLink, BTypeOK, ToolInv, Loaded
  <2>3. MapsInv'
    <3>1. tool'.pc = "unpin_map" /\ UNCHANGED <<pinMap, made, mode, deploys, outcome>>
      BY <1>2 DEF UnpinLink, BTypeOK
    <3>2. \/ pinLink'["nft"] = NoMap /\ pinLink'["legacy"] = pinLink["legacy"] /\ faults' = faults
          \/ faults < MaxFaults /\ faults' = faults + 1 /\ pinLink' = pinLink
      BY <1>2 DEF UnpinLink, Fault, BTypeOK, Hooks
    <3>3. made \in Nat /\ faults \in Nat /\ deploys \in Nat
      BY DEF BTypeOK, Maps, NoMap, MapsInv
    <3> QED BY <1>2, <3>1, <3>2, <3>3 DEF UnpinLink, MapsInv, MayCreate, Keeps, Leftover, Unloaded, Loaded
  <2> QED BY <1>0, <2>1, <2>2, <2>3
<1>3. CASE UnpinMap
  <2>1. BTypeOK'
    BY <1>3 DEF UnpinMap, Exit, Exited, BTypeOK, NoLinks, callVars
  <2>2. ToolInv'
    BY <1>3 DEF UnpinMap, Exit, Exited, BTypeOK, ToolInv, Loaded
  <2>3. MapsInv'
    BY <1>3 DEF UnpinMap, Exit, Exited, Fault, MapsInv, MayCreate, Keeps, Leftover, Unloaded, Loaded, BTypeOK, Maps, NoMap, Modes
  <2> QED BY <1>0, <2>1, <2>2, <2>3
<1> QED BY <1>1, <1>2, <1>3

\* LoadAndAssign: the pinned map is opened, or a new one is created and pinned.
LEMMA LoadKeepsBlockInv ==
    ASSUME BlockInv, Load \/ LoadFails
    PROVE  BlockInv'
<1> USE BlockConstants DEF BlockInv
<1>1. CASE Load
  <2>1. pinMap = NoMap => made + 1 \in Maps
    BY <1>1, MapAtHand DEF Load, MayCreate, Unloaded
  <2>2. /\ tool.pc = "load" /\ UNCHANGED <<pinLink, mode, deploys, counter>>
        /\ pinMap' \in Maps /\ made' \in {NoMap} \cup Maps
        /\ \/ pinMap = NoMap /\ made' = made + 1
           \/ pinMap # NoMap /\ made' = made
    BY <1>1, <2>1 DEF Load, BTypeOK, callVars
  <2>3. pinMap' # NoMap
    BY <2>2 DEF Maps, NoMap
  <2>4. CountInv'
    BY <1>1, UnchangedCounters DEF Load
  <2>5. CASE tool' = [tool EXCEPT !.pc = "attach_legacy", !.map = pinMap'] /\ UNCHANGED <<faults, outcome>>
    <3>1. tool'.pc = "attach_legacy" /\ tool'.map = pinMap' /\ tool'.fd = tool.fd
      BY <2>5 DEF BTypeOK
    <3>2. BTypeOK'
      BY <2>2, <2>5 DEF BTypeOK
    <3>3. ToolInv'
      BY <2>2, <2>3, <2>5, <3>1 DEF ToolInv, Loaded
    <3>4. MapsInv'
      <4>1. made \in Nat /\ faults \in Nat /\ deploys \in Nat
        BY DEF BTypeOK, Maps, NoMap, MapsInv
      <4>2. MayCreate /\ ~MayCreate' /\ (Leftover' => Leftover) /\ Keeps' = Keeps
        BY <2>2, <2>5, <3>1 DEF MayCreate, Leftover, Keeps, Unloaded, Loaded, ToolInv
      <4>3. made' <= deploys' + faults'
        BY <2>2, <2>5, <4>1, <4>2 DEF MapsInv
      <4>4. ~Keeps' /\ Leftover' => made' < deploys' + faults'
        BY <2>2, <2>5, <4>1, <4>2 DEF MapsInv, Unloaded
      <4> QED BY <2>2, <2>5, <3>1, <4>1, <4>2, <4>3, <4>4 DEF MapsInv, Unloaded
    <3> QED BY <2>4, <3>2, <3>3, <3>4
  <2>6. CASE Fault /\ Exit("failed")
    <3>1. tool' = Exited /\ tool'.pc = "exited" /\ tool'.fd = NoLinks /\ outcome' = "failed"
      BY <2>6 DEF Exit, Exited
    <3>2. BTypeOK'
      BY <2>2, <3>1 DEF BTypeOK, Exited, NoLinks
    <3>3. ToolInv'
      BY <3>1 DEF ToolInv, Loaded
    <3>4. MapsInv'
      BY <2>2, <2>6, <3>1 DEF Fault, MapsInv, MayCreate, Keeps, Leftover, Unloaded, Loaded, BTypeOK, Maps, NoMap
    <3> QED BY <2>4, <3>2, <3>3, <3>4
  <2> QED BY <1>1, <2>5, <2>6 DEF Load
<1>2. CASE LoadFails
  BY <1>2, FailureKeepsBlockInv DEF LoadFails
<1> QED BY <1>1, <1>2

\* link.AttachLSM for either hook.
LEMMA AttachKeepsBlockInv ==
    ASSUME BlockInv,
           \/ AttachLSM("legacy", "attach_legacy", "pin_legacy")
           \/ AttachLSM("nft", "attach_nft", "pin_nft")
    PROVE  BlockInv'
<1> USE BlockConstants DEF BlockInv
<1>0. CountInv' /\ UNCHANGED <<pinMap, pinLink, made, mode, deploys, counter>>
  BY UnchangedCounters DEF AttachLSM, callVars
<1>1. pinMap \in Maps /\ pinMap # NoMap /\ tool.map = pinMap /\ tool.fd = NoLinks
  BY DEF AttachLSM, BTypeOK, ToolInv, Loaded
<1>2. CASE Fault /\ Exit("failed")
  BY <1>2, FailureKeepsBlockInv DEF AttachLSM
<1>3. CASE /\ tool.pc = "attach_legacy"
           /\ tool' = [tool EXCEPT !.pc = "pin_legacy", !.fd["legacy"] = tool.map]
           /\ UNCHANGED <<faults, outcome>>
  <2>1. tool'.pc = "pin_legacy" /\ tool'.map = pinMap /\ tool'.fd = [NoLinks EXCEPT !["legacy"] = pinMap]
    BY <1>1, <1>3 DEF BTypeOK
  <2>2. tool' = [pc |-> "pin_legacy", map |-> pinMap, fd |-> [NoLinks EXCEPT !["legacy"] = pinMap]]
    BY <1>1, <1>3 DEF BTypeOK
  <2>3. [NoLinks EXCEPT !["legacy"] = pinMap] \in [Hooks -> Maps \cup {NoMap}]
    BY <1>1 DEF NoLinks
  <2>4. BTypeOK'
    BY <1>0, <1>1, <1>3, <2>2, <2>3 DEF BTypeOK
  <2>5. ToolInv'
    BY <1>0, <1>1, <1>3, <2>1 DEF ToolInv, Loaded
  <2>6. MapsInv'
    BY <1>0, <1>3, <2>1 DEF MapsInv, MayCreate, Keeps, Leftover, Unloaded, Loaded
  <2> QED BY <1>0, <2>4, <2>5, <2>6
<1>4. CASE /\ tool.pc = "attach_nft"
           /\ tool' = [tool EXCEPT !.pc = "pin_nft", !.fd["nft"] = tool.map]
           /\ UNCHANGED <<faults, outcome>>
  <2>1. tool'.pc = "pin_nft" /\ tool'.map = pinMap /\ tool'.fd = [NoLinks EXCEPT !["nft"] = pinMap]
    BY <1>1, <1>4 DEF BTypeOK
  <2>2. tool' = [pc |-> "pin_nft", map |-> pinMap, fd |-> [NoLinks EXCEPT !["nft"] = pinMap]]
    BY <1>1, <1>4 DEF BTypeOK
  <2>3. [NoLinks EXCEPT !["nft"] = pinMap] \in [Hooks -> Maps \cup {NoMap}]
    BY <1>1 DEF NoLinks
  <2>4. BTypeOK'
    BY <1>0, <1>1, <1>4, <2>2, <2>3 DEF BTypeOK
  <2>5. ToolInv'
    BY <1>0, <1>1, <1>4, <2>1 DEF ToolInv, Loaded
  <2>6. MapsInv'
    BY <1>0, <1>4, <2>1 DEF MapsInv, MayCreate, Keeps, Leftover, Unloaded, Loaded
  <2> QED BY <1>0, <2>4, <2>5, <2>6
<1> QED BY <1>2, <1>3, <1>4 DEF AttachLSM

\* l.Pin for either hook: it succeeds only where no earlier run's link is left.
LEMMA PinKeepsBlockInv ==
    ASSUME BlockInv,
           \/ PinLink("legacy", "pin_legacy", "attach_nft")
           \/ PinLink("nft", "pin_nft", "done")
    PROVE  BlockInv'
<1> USE BlockConstants DEF BlockInv
<1>0. CountInv' /\ UNCHANGED <<pinMap, made, mode, deploys, counter>>
  BY UnchangedCounters DEF PinLink, callVars
<1>1. pinMap \in Maps /\ pinMap # NoMap /\ tool.map = pinMap
  BY DEF PinLink, BTypeOK, ToolInv, Loaded
<1>2. CASE tool' = Exited /\ outcome' = "failed" /\ UNCHANGED pinLink /\ tool.pc # "exited"
  <2>1. BTypeOK'
    BY <1>0, <1>2 DEF Exited, BTypeOK, NoLinks
  <2>2. ToolInv'
    BY <1>2 DEF Exited, ToolInv, Loaded
  <2>3. MapsInv'
    BY <1>0, <1>1, <1>2 DEF PinLink, Exited, Fault, MapsInv, MayCreate, Keeps, Leftover, Unloaded, Loaded, BTypeOK, Maps, NoMap, Modes
  <2> QED BY <1>0, <2>1, <2>2, <2>3
<1>3. CASE /\ tool.pc = "pin_legacy" /\ pinLink["legacy"] = NoMap
           /\ pinLink' = [pinLink EXCEPT !["legacy"] = tool.fd["legacy"]]
           /\ tool' = [tool EXCEPT !.pc = "attach_nft", !.fd["legacy"] = NoMap]
           /\ UNCHANGED <<faults, outcome>>
  <2>1. tool.fd = [NoLinks EXCEPT !["legacy"] = pinMap] /\ tool.fd["legacy"] = pinMap
    BY <1>1, <1>3 DEF ToolInv, NoLinks, Hooks
  <2>2. [tool.fd EXCEPT !["legacy"] = NoMap] = NoLinks
    BY <2>1 DEF NoLinks, Hooks
  <2>3. tool' = [pc |-> "attach_nft", map |-> pinMap, fd |-> NoLinks]
    BY <1>1, <1>3, <2>2 DEF BTypeOK
  <2>4. pinLink' = [pinLink EXCEPT !["legacy"] = pinMap] /\ pinLink'["legacy"] = pinMap
    BY <1>3, <2>1 DEF BTypeOK, Hooks
  <2>5. BTypeOK'
    BY <1>0, <1>1, <1>3, <2>3, <2>4 DEF BTypeOK, NoLinks
  <2>6. ToolInv'
    <3>1. tool'.pc = "attach_nft" /\ tool'.map = pinMap /\ tool'.fd = NoLinks
      BY <2>3
    <3> QED BY <1>0, <1>1, <1>3, <2>4, <3>1 DEF ToolInv, Loaded
  <2>7. MapsInv'
    BY <1>0, <1>3, <2>3, <2>4 DEF MapsInv, MayCreate, Keeps, Leftover, Unloaded, Loaded, BTypeOK, Hooks
  <2> QED BY <1>0, <2>5, <2>6, <2>7
<1>4. CASE /\ tool.pc = "pin_nft" /\ pinLink["nft"] = NoMap
           /\ pinLink' = [pinLink EXCEPT !["nft"] = tool.fd["nft"]]
           /\ tool' = [tool EXCEPT !.pc = "done", !.fd["nft"] = NoMap]
           /\ UNCHANGED <<faults, outcome>>
  <2>1. tool.fd = [NoLinks EXCEPT !["nft"] = pinMap] /\ tool.fd["nft"] = pinMap
    BY <1>1, <1>4 DEF ToolInv, NoLinks, Hooks
  <2>2. [tool.fd EXCEPT !["nft"] = NoMap] = NoLinks
    BY <2>1 DEF NoLinks, Hooks
  <2>3. tool' = [pc |-> "done", map |-> pinMap, fd |-> NoLinks]
    BY <1>1, <1>4, <2>2 DEF BTypeOK
  <2>4. pinLink' = [pinLink EXCEPT !["nft"] = pinMap] /\ pinLink'["nft"] = pinMap
        /\ pinLink'["legacy"] = pinLink["legacy"]
    BY <1>4, <2>1 DEF BTypeOK, Hooks
  <2>5. BTypeOK'
    BY <1>0, <1>1, <1>4, <2>3, <2>4 DEF BTypeOK, NoLinks
  <2>6. ToolInv'
    <3>1. tool'.pc = "done" /\ tool'.map = pinMap /\ tool'.fd = NoLinks
      BY <2>3
    <3> QED BY <1>0, <1>1, <1>4, <2>4, <3>1 DEF ToolInv, Loaded
  <2>7. MapsInv'
    BY <1>0, <1>4, <2>3, <2>4 DEF MapsInv, MayCreate, Keeps, Leftover, Unloaded, Loaded
  <2> QED BY <1>0, <2>5, <2>6, <2>7
<1> QED BY <1>2, <1>3, <1>4 DEF PinLink, Exit

-----------------------------------------------------------------------------
(* The hooks *)

\* At most two programs are attached to a hook, each with a map.
LEMMA AttachedType ==
    ASSUME BTypeOK, NEW h \in Hooks
    PROVE  /\ Attached(h) \in Seq(Maps)
           /\ Len(Attached(h)) \in 0 .. 2
<1>1. pinLink[h] \in Maps \cup {NoMap} /\ tool.fd[h] \in Maps \cup {NoMap}
  BY DEF BTypeOK
<1> DEFINE program(m) == IF m = NoMap THEN <<>> ELSE <<m>>
<1>2. ASSUME NEW m \in Maps \cup {NoMap}
      PROVE  program(m) \in Seq(Maps) /\ Len(program(m)) \in 0 .. 1
  OBVIOUS
<1> HIDE DEF program
<1>3. /\ program(pinLink[h]) \in Seq(Maps) /\ Len(program(pinLink[h])) \in 0 .. 1
      /\ program(tool.fd[h]) \in Seq(Maps) /\ Len(program(tool.fd[h])) \in 0 .. 1
  BY <1>1, <1>2
<1>4. Attached(h) = program(pinLink[h]) \o program(tool.fd[h])
  BY DEF Attached, program
<1> QED BY <1>3, <1>4

\* The programs that are asked and count in a given map: a denied call stops
\* at the first.
LEMMA AskedCount ==
    ASSUME BTypeOK, NEW h \in Hooks, NEW k \in Keys, NEW m \in Maps, Attached(h) # <<>>
    PROVE  LET n == Cardinality({i \in DOMAIN Asked(h, k) : Asked(h, k)[i] = m})
           IN  n \in Nat /\ (k = "blocked" => n <= 1)
<1> DEFINE I == {i \in DOMAIN Asked(h, k) : Asked(h, k)[i] = m}
<1>1. Attached(h) \in Seq(Maps) /\ Len(Attached(h)) \in 0 .. 2
  BY AttachedType
<1>2. DOMAIN Asked(h, k) \subseteq {1, 2} /\ (k = "blocked" => DOMAIN Asked(h, k) \subseteq {1})
  <2>1. CASE k = "blocked"
    <3>1. Asked(h, k) = SubSeq(Attached(h), 1, 1)
      BY <2>1 DEF Asked
    <3>2. Len(Attached(h)) >= 1 /\ \A i \in 1 .. 1 : Attached(h)[i] \in Maps
      BY <1>1
    <3>3. SubSeq(Attached(h), 1, 1) \in Seq(Maps) /\ Len(SubSeq(Attached(h), 1, 1)) = 1
      BY <3>2, SubSeqProperties
    <3> QED BY <3>1, <3>3
  <2>2. CASE k # "blocked"
    BY <2>2, <1>1 DEF Asked
  <2> QED BY <2>1, <2>2
<1>b. IsFiniteSet({1})
  BY FS_Singleton
<1>3. IsFiniteSet({1, 2})
  <2>1. IsFiniteSet({1} \cup {2})
    BY <1>b, FS_AddElement, Zenon
  <2>2. {1} \cup {2} = {1, 2}
    OBVIOUS
  <2> QED BY <2>1, <2>2
<1>a. Cardinality({1}) = 1
  BY FS_Singleton
<1>4. I \subseteq {1, 2} /\ (k = "blocked" => I \subseteq {1})
  BY <1>2
<1>5. IsFiniteSet(I)
  BY <1>3, <1>4, FS_Subset
<1>6. Cardinality(I) \in Nat
  BY <1>5, FS_CardinalityType
<1>7. k = "blocked" => Cardinality(I) <= 1
  BY <1>a, <1>b, <1>4, FS_Subset
<1> QED BY <1>6, <1>7

\* A call at a hook: every program asked adds one in its own map.
LEMMA HookKeepsBlockInv ==
    ASSUME BlockInv, NEW h \in Hooks, NEW k, Hook(h, k)
    PROVE  BlockInv'
<1> DEFINE N(m) == Cardinality({i \in DOMAIN Asked(h, k) : Asked(h, k)[i] = m})
<1>1. k \in Keys /\ calls < MaxCalls /\ calls' = calls + 1 /\ UNCHANGED toolVars
  BY DEF Hook
<1>2. \A m \in Maps : N(m) \in Nat /\ (k = "blocked" => N(m) <= 1)
  BY <1>1, AskedCount DEF BlockInv, Hook
<1>3. counter' = [m \in Maps |-> [counter[m] EXCEPT ![k] = counter[m][k] + N(m)]]
  BY DEF Hook, increment_event_counter
<1> HIDE DEF N
<1>4. counter' \in [Maps -> [Keys -> Nat]]
  BY <1>1, <1>2, <1>3 DEF BlockInv, BTypeOK
<1>5. CountInv'
  <2>1. calls' \in 0 .. MaxCalls /\ calls' = calls + 1 /\ calls \in Nat
    BY <1>1, BlockConstants DEF BlockInv, CountInv
  <2>2. ASSUME NEW m \in Maps PROVE counter'[m]["blocked"] <= calls'
    <3>1. counter[m] \in [Keys -> Nat] /\ counter[m]["blocked"] <= calls /\ "blocked" \in Keys
      BY DEF BlockInv, BTypeOK, CountInv, Keys
    <3>2. counter'[m] = [counter[m] EXCEPT ![k] = counter[m][k] + N(m)]
      BY <1>3
    <3>3. CASE k = "blocked"
      BY <1>2, <2>1, <3>1, <3>2, <3>3
    <3>4. CASE k # "blocked"
      BY <2>1, <3>1, <3>2, <3>4
    <3> QED BY <3>3, <3>4
  <2> QED BY <2>1, <2>2 DEF CountInv
<1>6. BTypeOK'
  BY <1>1, <1>4 DEF BlockInv, BTypeOK, toolVars
<1>7. ToolInv' /\ MapsInv'
  BY <1>1 DEF BlockInv, ToolInv, MapsInv, MayCreate, Keeps, Leftover, toolVars
<1> QED BY <1>5, <1>6, <1>7 DEF BlockInv

\* Every step of the blocker, its deployment included, keeps its invariant.
LEMMA BlockerKeepsBlockInv ==
    ASSUME BlockInv, (\E m \in Modes : Deploy(m)) \/ Start \/ Step \/ Call
    PROVE  BlockInv'
<1>1. CASE Step
  BY <1>1, RunsKeepBlockInv, UnpinKeepsBlockInv, LoadKeepsBlockInv, AttachKeepsBlockInv, PinKeepsBlockInv
  DEF Step
<1>2. CASE Call
  BY <1>2, HookKeepsBlockInv DEF Call, Hooks
<1> QED BY <1>1, <1>2, RunsKeepBlockInv

-----------------------------------------------------------------------------
(* The monitor *)

\* The value the monitor reads never exceeds the calls made so far.
LEMMA BlocksBounded ==
    ASSUME BlockInv
    PROVE  Blocks \in 0 .. MaxCalls
<1>1. CASE pinMap = NoMap
  BY <1>1, BlockConstants DEF Blocks
<1>2. CASE pinMap # NoMap
  <2>1. pinMap \in Maps /\ counter[pinMap] \in [Keys -> Nat] /\ "blocked" \in Keys
    BY <1>2 DEF BlockInv, BTypeOK, Keys
  <2>2. counter[pinMap]["blocked"] \in Nat /\ counter[pinMap]["blocked"] <= calls /\ calls \in 0 .. MaxCalls
    BY <2>1 DEF BlockInv, CountInv
  <2> QED BY <1>2, <2>2, BlockConstants DEF Blocks
<1> QED BY <1>1, <1>2

\* The monitor starts with nothing attached and nothing decided.
LEMMA InitMonitorInv == MInit => MonitorInv
<1> SUFFICES ASSUME MInit PROVE MonitorInv
  OBVIOUS
<1>1. BlockInv
  BY InitBlockInv DEF MInit
<1> QED BY <1>1, BlockConstants DEF MInit, MonitorInv

\* A step that leaves the blocker alone.
LEMMA UnchangedBlocker ==
    ASSUME BlockInv, UNCHANGED bvars
    PROVE  BlockInv'
<1>1. UNCHANGED <<pinMap, pinLink, counter, made, tool, mode, outcome, faults, deploys, calls>>
  BY DEF bvars, toolVars, callVars
<1> QED BY <1>1 DEF BlockInv, BTypeOK, ToolInv, MapsInv, MayCreate, Keeps, Leftover, CountInv

\* Check, one round of the monitor, and the changes of rules it looks at.
LEMMA RoundKeepsMonitorInv ==
    ASSUME MonitorInv, Round \/ \E tb \in Tables : ChangeRules(tb)
    PROVE  MonitorInv'
<1>1. CASE Round
  <2>1. PICK failed \in SUBSET Tables, mapErr \in BOOLEAN, patchErr \in BOOLEAN, eventErr \in BOOLEAN :
          Check(failed, mapErr, patchErr, eventErr)
    BY <1>1 DEF Round
  <2>2. UNCHANGED <<bvars, unexpected>> /\ Blocks \in 0 .. MaxCalls /\ 0 \in 0 .. MaxCalls
    BY <2>1, BlocksBounded, BlockConstants DEF Check, MonitorInv
  <2>3. GetBPFMapValue(mapErr) \in 0 .. MaxCalls
    BY <2>2 DEF GetBPFMapValue
  <2>4. previousBlocks' \in 0 .. MaxCalls /\ reported' \in 0 .. MaxCalls
    BY <2>1, <2>2, <2>3 DEF Check, MonitorInv
  <2>5. label' \in {"none", "true", "false"}
    BY <2>1 DEF Check, MonitorInv
  <2> QED BY <2>2, <2>4, <2>5, UnchangedBlocker DEF MonitorInv
<1>2. CASE \E tb \in Tables : ChangeRules(tb)
  <2>1. UNCHANGED <<bvars, label, previousBlocks, errors, reported>> /\ unexpected' \subseteq Tables
    BY <1>2 DEF ChangeRules, MonitorInv
  <2> QED BY <2>1, UnchangedBlocker DEF MonitorInv
<1> QED BY <1>1, <1>2

\* Every step of the program, of iptables callers and of the monitor keeps the
\* invariant.
LEMMA NextKeepsMonitorInv == MonitorInv /\ [MNext]_mvars => MonitorInv'
<1> SUFFICES ASSUME MonitorInv, [MNext]_mvars PROVE MonitorInv'
  OBVIOUS
<1>1. CASE Redeploy
  <2>1. BlockInv'
    BY <1>1, BlockerKeepsBlockInv DEF Redeploy, MonitorInv
  <2> QED BY <1>1, <2>1, BlockConstants DEF Redeploy, MonitorInv
<1>2. CASE (Start \/ Step \/ Call) /\ UNCHANGED monVars
  <2>1. BlockInv'
    BY <1>2, BlockerKeepsBlockInv DEF MonitorInv
  <2> QED BY <1>2, <2>1 DEF monVars, MonitorInv
<1>3. CASE UNCHANGED mvars
  <2>1. BlockInv' /\ UNCHANGED monVars
    BY <1>3, UnchangedBlocker DEF mvars, MonitorInv
  <2> QED BY <2>1 DEF monVars, MonitorInv
<1> QED BY <1>1, <1>2, <1>3, RoundKeepsMonitorInv DEF MNext

\* So it holds in every behaviour.
LEMMA MonitorInvariant == MSpec => []MonitorInv
  BY InitMonitorInv, NextKeepsMonitorInv, PTL DEF MSpec

-----------------------------------------------------------------------------

\* However often the agent is deployed and its tool fails, maps, links and
\* counters are well typed, and no value the monitor remembers is negative or
\* counts a call twice (program.go, iptables_monitor.go).
THEOREM MonitorTypeCorrect == MSpec => []MTypeOK
<1>1. MonitorInv => MTypeOK
  BY DEF MonitorInv, BlockInv, MTypeOK
<1> QED BY <1>1, MonitorInvariant, PTL

\* After an Attach that returned nil each hook runs one program and both count
\* in the pinned map, whatever earlier runs left behind (program.go: Attach).
THEOREM AttachIsSound == MSpec => []AttachSound
<1>1. MonitorInv => AttachSound
  <2> SUFFICES ASSUME MonitorInv, outcome = "attached"
               PROVE  pinMap # NoMap /\ \A h \in Hooks : Attached(h) = <<pinMap>>
    BY DEF AttachSound
  <2>1. pinMap # NoMap /\ tool.fd = NoLinks /\ \A h \in Hooks : pinLink[h] = pinMap
    BY DEF MonitorInv, BlockInv, BTypeOK, ToolInv
  <2>2. ASSUME NEW h \in Hooks PROVE Attached(h) = <<pinMap>>
    <3>1. pinLink[h] = pinMap /\ tool.fd[h] = NoMap
      BY <2>1 DEF NoLinks
    <3>2. Attached(h) = <<pinMap>> \o <<>>
      BY <2>1, <3>1 DEF Attached
    <3> QED BY <3>2
  <2> QED BY <2>1, <2>2
<1> QED BY <1>1, MonitorInvariant, PTL

-----------------------------------------------------------------------------
(* The walk over a netlink buffer *)

\* Some iteration is the first at which the walk stops.
LEMMA FirstStop ==
    ASSUME NEW P \in [0 .. 4 -> BOOLEAN], P[4]
    PROVE  \E i \in 0 .. 4 : P[i] /\ \A j \in 0 .. i - 1 : ~P[j]
<1>1. CASE P[0]
  BY <1>1
<1>2. CASE ~P[0] /\ P[1]
  BY <1>2
<1>3. CASE ~P[0] /\ ~P[1] /\ P[2]
  BY <1>3
<1>4. CASE ~P[0] /\ ~P[1] /\ ~P[2] /\ P[3]
  BY <1>4
<1>5. CASE ~P[0] /\ ~P[1] /\ ~P[2] /\ ~P[3]
  BY <1>5
<1> QED BY <1>1, <1>2, <1>3, <1>4, <1>5

\* A length that does not wrap around is itself.
LEMMA SmallRemainder ==
    ASSUME NEW r \in 0 .. U32 - 1
    PROVE  r \in Nat /\ r % U32 = r
<1>1. U32 \in Nat /\ U32 > 16
  BY BlockConstants DEF nlmsghdr
<1>2. ASSUME NEW u \in Nat, u > 16, NEW k \in 0 .. u - 1
      PROVE  k \in Nat /\ k % u = k
  BY <1>2, SMT
<1> QED BY <1>1, <1>2

\* A message is followed at once by the next exactly if its length is a multiple
\* of four; otherwise the next is at most three bytes further.
LEMMA Alignment ==
    ASSUME NEW n \in Nat
    PROVE  /\ NLMSG_ALIGN(n) \in Nat /\ n <= NLMSG_ALIGN(n) /\ NLMSG_ALIGN(n) <= n + 3
           /\ n % 4 = 0 <=> NLMSG_ALIGN(n) = n
  BY SMT DEF NLMSG_ALIGN

\* The headers of a buffer are typed and lie where the kernel looks for them.
LEMMA BatchType ==
    ASSUME NEW b \in Batch
    PROVE  /\ Len(b.msgs) \in Nat /\ b.skb_len \in 0 .. U32 - 1
           /\ \A i \in 1 .. Len(b.msgs) :
                 /\ b.msgs[i].new_rule \in BOOLEAN /\ b.msgs[i].len \in Nat /\ b.msgs[i].at \in Nat
                 /\ b.msgs[i].at + nlmsghdr <= b.skb_len
                 /\ i = 1 => b.msgs[i].at = 0
                 /\ i > 1 => b.msgs[i].at = b.msgs[i - 1].at + NLMSG_ALIGN(b.msgs[i - 1].len)
<1> DEFINE M == [new_rule : BOOLEAN, at : Nat, len : 0 .. U32 - 1]
<1>1. b.msgs \in Seq(M) /\ b.skb_len \in 0 .. U32 - 1
  BY DEF Batch
<1>2. Len(b.msgs) \in Nat /\ DOMAIN b.msgs = 1 .. Len(b.msgs)
  BY <1>1
<1>3. \A S, s : s \in Seq(S) => \A i \in 1 .. Len(s) : s[i] \in S
  OBVIOUS
<1>4. \A i \in 1 .. Len(b.msgs) : b.msgs[i] \in M
  BY <1>1, <1>3
<1>5. \A i \in 1 .. Len(b.msgs) :
        b.msgs[i].new_rule \in BOOLEAN /\ b.msgs[i].len \in Nat /\ b.msgs[i].at \in Nat
  BY <1>4
<1> QED BY <1>1, <1>2, <1>5 DEF Batch

\* The walk over a buffer that the kernel takes apart (block_iptables.bpf.c: the
\* loop over the messages): before each iteration that is in step it has moved
\* to the next header, and a length that is no multiple of four takes it off.
LEMMA WalkFindsRule ==
    ASSUME NEW b \in Batch, WellFormed(b)
    PROVE  LET aligned(i) == b.msgs[i].len % 4 = 0
               seen == {i \in 1 .. 4 : i <= Len(b.msgs)}
           IN  /\ new_rule_in(b) = {TRUE} <=>
                     \E i \in seen : b.msgs[i].new_rule /\ \A j \in 1 .. i - 1 : aligned(j)
               /\ (\A i \in seen : ~b.msgs[i].new_rule /\ aligned(i)) => new_rule_in(b) = {FALSE}
<1> DEFINE L == Len(b.msgs)
           aligned(i) == b.msgs[i].len % 4 = 0
           seen == {i \in 1 .. 4 : i <= L}
           left(i) == (b.skb_len - Reached(b, i)) % U32
           lost(i) == i >= Len(b.msgs) \/ b.msgs[i + 1].at # Reached(b, i)
           again(i) == i > 0 /\ i = Len(b.msgs) /\ b.msgs[i].len = 0
           stops(i) == \/ i = NETLINK_MSG_COUNT \/ left(i) < nlmsghdr
                       \/ lost(i) \/ b.msgs[i + 1].new_rule
           first(i) == stops(i) /\ \A j \in 0 .. i - 1 : ~stops(j)
           last == CHOOSE i \in 0 .. NETLINK_MSG_COUNT : first(i)
           none == last = NETLINK_MSG_COUNT \/ left(last) < nlmsghdr \/ again(last)
<1>1. new_rule_in(b) = IF none THEN {FALSE} ELSE IF lost(last) THEN BOOLEAN ELSE {TRUE}
  BY DEF new_rule_in
<1>2. /\ L \in Nat /\ b.skb_len \in Nat
      /\ \A i \in 1 .. L :
           /\ b.msgs[i].new_rule \in BOOLEAN /\ b.msgs[i].len \in Nat /\ b.msgs[i].at \in Nat
           /\ b.msgs[i].len >= 16 /\ b.msgs[i].at + b.msgs[i].len <= b.skb_len
  BY BatchType, BlockConstants DEF WellFormed, nlmsghdr
<1>3. ASSUME NEW i \in 0 .. L
      PROVE  Reached(b, i) \in Nat /\ Reached(b, i) <= b.skb_len /\ left(i) = b.skb_len - Reached(b, i)
  <2>1. Reached(b, i) \in Nat /\ Reached(b, i) <= b.skb_len
    BY <1>2 DEF Reached
  <2>2. b.skb_len - Reached(b, i) \in 0 .. U32 - 1
    BY <2>1, BatchType, BlockConstants
  <2> QED BY <2>1, <2>2, SmallRemainder
<1>4. ASSUME NEW i \in 0 .. L - 1
      PROVE  /\ lost(i) <=> i > 0 /\ ~aligned(i)
             /\ ~lost(i) => ~(left(i) < nlmsghdr)
  <2>1. i + 1 \in 1 .. L /\ (i + 1) - 1 = i
    BY <1>2
  <2>2. lost(i) <=> b.msgs[i + 1].at # Reached(b, i)
    BY <1>2
  <2>3. CASE i = 0
    <3>1. b.msgs[i + 1].at = 0 /\ Reached(b, i) = 0
      BY <2>1, <2>3, BatchType DEF Reached
    <3>2. b.msgs[i + 1].at + 16 <= b.skb_len
      BY <2>1, BatchType DEF nlmsghdr
    <3>3. left(i) = b.skb_len
      BY <1>2, <1>3, <3>1
    <3> QED BY <1>2, <2>2, <2>3, <3>1, <3>2, <3>3 DEF nlmsghdr
  <2>4. CASE i > 0
    <3>1. i \in 1 .. L /\ b.msgs[i].len \in Nat /\ b.msgs[i].at \in Nat
      BY <1>2, <2>4
    <3>2. b.msgs[i + 1].at = b.msgs[i].at + NLMSG_ALIGN(b.msgs[i].len)
      BY <2>1, <2>4, BatchType
    <3>3. Reached(b, i) = b.msgs[i].at + b.msgs[i].len
      BY <2>4 DEF Reached
    <3>4. NLMSG_ALIGN(b.msgs[i].len) \in Nat /\ (aligned(i) <=> NLMSG_ALIGN(b.msgs[i].len) = b.msgs[i].len)
      BY <3>1, Alignment
    <3>5. lost(i) <=> ~aligned(i)
      <4> HIDE DEF lost, aligned
      <4> QED BY <2>2, <3>1, <3>2, <3>3, <3>4
    <3>6. b.msgs[i + 1].at + 16 <= b.skb_len
      BY <2>1, BatchType DEF nlmsghdr
    <3>7. ASSUME ~lost(i) PROVE ~(left(i) < nlmsghdr)
      <4>1. b.msgs[i + 1].at = Reached(b, i)
        BY <2>2, <3>7
      <4>2. left(i) = b.skb_len - Reached(b, i) /\ Reached(b, i) \in Nat
        BY <1>3
      <4> HIDE DEF left
      <4> QED BY <1>2, <3>6, <4>1, <4>2 DEF nlmsghdr
    <3> QED BY <2>4, <3>5, <3>7
  <2> QED BY <2>3, <2>4
<1>5. lost(L) /\ stops(L) /\ stops(4) /\ \A i \in 0 .. L : ~again(i)
  BY <1>2 DEF NETLINK_MSG_COUNT
<1>6. (L > 0 => aligned(L)) => left(L) < nlmsghdr
  <2>1. CASE L = 0
    BY <2>1, <1>2, <1>3 DEF WellFormed, nlmsghdr, Reached
  <2>2. CASE L > 0 /\ aligned(L)
    <3>1. L \in 1 .. L /\ b.msgs[L].len \in Nat /\ b.msgs[L].at \in Nat
      BY <1>2, <2>2
    <3>2. NLMSG_ALIGN(b.msgs[L].len) = b.msgs[L].len
      BY <2>2, <3>1, Alignment
    <3>3. Reached(b, L) = b.msgs[L].at + b.msgs[L].len
      BY <2>2 DEF Reached
    <3>4. b.skb_len < b.msgs[L].at + NLMSG_ALIGN(b.msgs[L].len) + 16
      BY <2>2 DEF WellFormed, nlmsghdr
    <3>5. left(L) = b.skb_len - Reached(b, L)
      BY <1>3, <3>1
    <3> HIDE DEF left
    <3> QED BY <1>2, <3>1, <3>2, <3>3, <3>4, <3>5 DEF nlmsghdr
  <2> QED BY <2>1, <2>2
<1>7. \A i \in 0 .. 3 : i < L => (stops(i) <=> lost(i) \/ b.msgs[i + 1].new_rule \/ left(i) < nlmsghdr)
  BY DEF NETLINK_MSG_COUNT
<1> HIDE DEF left
<1>8. last \in 0 .. 4 /\ first(last)
  <2> DEFINE P == [i \in 0 .. 4 |-> stops(i)]
  <2>1. P \in [0 .. 4 -> BOOLEAN] /\ P[4] /\ \A i \in 0 .. 4 : P[i] = stops(i)
    BY <1>5
  <2>2. \E i \in 0 .. 4 : P[i] /\ \A j \in 0 .. i - 1 : ~P[j]
    BY <2>1, FirstStop
  <2> HIDE DEF P, stops
  <2>3. \E i \in 0 .. 4 : first(i)
    BY <2>1, <2>2
  <2>4. \E i \in 0 .. NETLINK_MSG_COUNT : first(i)
    BY <2>3 DEF NETLINK_MSG_COUNT
  <2> HIDE DEF first
  <2>5. last \in 0 .. NETLINK_MSG_COUNT /\ first(last)
    BY <2>4, Zenon
  <2> QED BY <2>5 DEF NETLINK_MSG_COUNT
<1> HIDE DEF last
<1>9. last <= L
  <2> HIDE DEF stops
  <2> QED BY <1>2, <1>5, <1>8
<1>10. \A i \in 0 .. last - 1 : i \in 0 .. 3 /\ i < L /\ ~lost(i) /\ ~b.msgs[i + 1].new_rule
  <2> SUFFICES ASSUME NEW i \in 0 .. last - 1
               PROVE  i \in 0 .. 3 /\ i < L /\ ~lost(i) /\ ~b.msgs[i + 1].new_rule
    OBVIOUS
  <2>1. i \in 0 .. 3 /\ i < L
    BY <1>2, <1>8, <1>9
  <2>2. ~stops(i)
    BY <1>8
  <2> QED BY <1>7, <2>1, <2>2
<1>11. \A j \in 1 .. last - 1 : aligned(j)
  <2> SUFFICES ASSUME NEW j \in 1 .. last - 1 PROVE aligned(j)
    OBVIOUS
  <2>1. j \in 0 .. last - 1 /\ j \in 0 .. L - 1 /\ j > 0
    BY <1>2, <1>8, <1>9
  <2>2. ~lost(j)
    BY <1>10, <2>1
  <2> HIDE DEF lost, aligned
  <2> QED BY <1>4, <2>1, <2>2
<1> DEFINE sure == \E i \in seen : b.msgs[i].new_rule /\ \A j \in 1 .. i - 1 : aligned(j)
           clean == \A i \in seen : ~b.msgs[i].new_rule /\ aligned(i)
\* The walk ends at a rule.
<1>12. CASE last < L /\ last < 4 /\ ~lost(last)
  <2>1. last \in 0 .. 3 /\ last \in 0 .. L - 1 /\ last \in 0 .. L
    BY <1>2, <1>8, <1>12
  <2>2. ~(left(last) < nlmsghdr) /\ ~again(last)
    <3> HIDE DEF lost, aligned, again
    <3> QED BY <1>4, <1>5, <1>12, <2>1
  <2>3. b.msgs[last + 1].new_rule
    <3>1. stops(last)
      BY <1>8
    <3> QED BY <1>7, <1>12, <2>1, <2>2, <3>1
  <2>4. last # NETLINK_MSG_COUNT
    BY <2>1 DEF NETLINK_MSG_COUNT
  <2>5. new_rule_in(b) = {TRUE}
    <3> HIDE DEF lost, again
    <3> QED BY <1>1, <1>12, <2>2, <2>4
  <2>6. sure
    <3>1. last + 1 \in seen /\ (last + 1) - 1 = last
      BY <1>2, <2>1
    <3>2. \A j \in 1 .. last : aligned(j)
      <4>1. last > 0 => aligned(last)
        <5> HIDE DEF lost, aligned
        <5> QED BY <1>4, <1>12, <2>1
      <4> HIDE DEF aligned
      <4> QED BY <1>11, <2>1, <4>1
    <3> HIDE DEF aligned
    <3> QED BY <2>3, <3>1, <3>2
  <2>7. ~clean
    BY <2>1, <2>3, <1>2
  <2> QED BY <2>5, <2>6, <2>7
\* Every other end: no rule that is sure to be found.
<1>13. CASE ~(last < L /\ last < 4 /\ ~lost(last))
  <2>1. ~sure
    <3> SUFFICES ASSUME NEW i \in seen, b.msgs[i].new_rule, \A j \in 1 .. i - 1 : aligned(j)
                 PROVE  FALSE
      OBVIOUS
    <3>1. i \in 1 .. 4 /\ i <= L /\ i - 1 \in 0 .. 3 /\ (i - 1) + 1 = i /\ i - 1 \in 0 .. L - 1
      BY <1>2
    <3>2. last <= i - 1
      <4>1. CASE i - 1 < last
        <5>1. i - 1 \in 0 .. last - 1
          BY <1>8, <3>1, <4>1
        <5>2. ~b.msgs[(i - 1) + 1].new_rule
          BY <1>10, <5>1
        <5> QED BY <3>1, <5>2
      <4> QED BY <1>8, <3>1, <4>1
    <3>3. last \in 0 .. L - 1 /\ last < 4 /\ last < L
      BY <1>2, <1>8, <3>1, <3>2
    <3>4. last > 0 => aligned(last)
      <4> HIDE DEF aligned
      <4> QED BY <3>1, <3>2, <3>3
    <3>5. ~lost(last)
      <4> HIDE DEF lost, aligned
      <4> QED BY <1>4, <3>3, <3>4
    <3> QED BY <1>13, <3>3, <3>5
  <2>2. new_rule_in(b) # {TRUE}
    <3>1. none \/ lost(last)
      <4>1. CASE last = 4
        BY <4>1 DEF NETLINK_MSG_COUNT
      <4>2. CASE last # 4
        <5>1. last = L \/ lost(last)
          <6> HIDE DEF lost
          <6> QED BY <1>2, <1>8, <1>9, <1>13, <4>2
        <5> HIDE DEF lost
        <5> QED BY <1>5, <5>1
      <4> QED BY <4>1, <4>2
    <3>2. {FALSE} # {TRUE} /\ BOOLEAN # {TRUE}
      <4>1. FALSE \in {FALSE} /\ FALSE \in BOOLEAN /\ FALSE \notin {TRUE}
        BY Zenon
      <4> QED BY <4>1, Zenon
    <3> HIDE DEF none, lost
    <3> QED BY <1>1, <3>1, <3>2, Zenon
  <2>3. ASSUME clean PROVE new_rule_in(b) = {FALSE}
    <3>1. none
      <4>1. CASE last = 4
        BY <4>1 DEF NETLINK_MSG_COUNT
      <4>2. CASE last < 4
        <5>1. last > 0 => last \in seen /\ aligned(last)
          <6>1. last > 0 => last \in seen
            BY <1>2, <1>8, <1>9
          <6> HIDE DEF seen, aligned
          <6> QED BY <2>3, <6>1
        <5>2. last = L
          <6>1. CASE last < L
            <7>1. last \in 0 .. L - 1
              BY <1>2, <1>8, <6>1
            <7>2. ~lost(last)
              <8> HIDE DEF lost, aligned, seen
              <8> QED BY <1>4, <5>1, <7>1
            <7> QED BY <1>13, <4>2, <6>1, <7>2
          <6> QED BY <1>2, <1>8, <1>9, <6>1
        <5>3. left(L) < nlmsghdr
          <6> HIDE DEF aligned, seen
          <6> QED BY <1>2, <1>6, <1>8, <5>1, <5>2
        <5> QED BY <5>2, <5>3
      <4> QED BY <1>8, <4>1, <4>2
    <3> HIDE DEF none, lost
    <3> QED BY <1>1, <3>1, Zenon
  <2> HIDE DEF sure, clean
  <2>4. /\ new_rule_in(b) = {TRUE} <=> sure
        /\ clean => new_rule_in(b) = {FALSE}
    BY <2>1, <2>2, <2>3, Zenon
  <2> QED BY <2>4 DEF sure, clean
<1> QED BY <1>12, <1>13

\* While the hook has a program the walk agrees with the kernel's own, for every
\* set of buffers, every length in bytes and every width of a length field: rules
\* are sure to be found in step and among the first four messages, and nowhere
\* else (block_iptables.bpf.c: iptables_nftables_block).
THEOREM RulesAreFound == MSpec => []RulesFound
<1>1. RulesFound
  BY WalkFindsRule, BlockConstants DEF RulesFound, WalkRight
<1> QED BY <1>1, PTL

=============================================================================
