-------------------------- MODULE AsyncDelete_proofs --------------------------
(***************************************************************************)
(* A DEL that succeeded without CNS is not forgotten, for every set of     *)
(* containers and every number of restarts and failures.                   *)
(*                                                                         *)
(* NoLostDelete alone is not inductive: AddFile creates the file first and *)
(* writes it later, and the loop may have removed it in between.  That is  *)
(* harmless because the loop removes a file only after the release of that *)
(* very container's IP succeeded, in either scheme.                        *)
(***************************************************************************)
EXTENDS AsyncDelete, TLAPS

\* While AddFile is about to write, the file is there or the IP is released.
CreatedKept == \A c \in Containers : del[c] = "write" /\ c \in held => file[c] # "absent"

DeleteInv == ATypeOK /\ CreatedKept /\ NoLostDelete

-----------------------------------------------------------------------------

\* AInit: nothing was deleted and no file is there.
LEMMA InitDeleteInv == AInit => DeleteInv
<1> SUFFICES ASSUME AInit PROVE DeleteInv
  OBVIOUS
<1>1. events \in Seq(Entries)
  BY DEF AInit
<1>2. restarts \in 0 .. MaxRestarts /\ faults \in 0 .. MaxFaults
  BY AsyncConstants DEF AInit
<1>3. /\ up \in BOOLEAN
      /\ del \in [Containers -> {"none", "create", "write", "done"}]
      /\ file \in [Containers -> {"absent", "empty", "full"}]
  BY DEF AInit
<1>4. ATypeOK
  BY <1>1, <1>2, <1>3, Zenon DEF AInit, ATypeOK
<1> QED BY <1>4 DEF AInit, DeleteInv, CreatedKept, NoLostDelete

\* A release that CNS accepts for an entry that names a file is a release of
\* that file's container (ipam.go: the keys of the "infra" and "interface"
\* schemes).
LEMMA ReleaseIsOwn ==
    ASSUME NEW e \in Entries, e[1] = "name"
    PROVE  releaseIP(e).of = {e[2]}
<1>1. PICK c \in Containers : e = <<"name", c>>
  BY DEF Entries
<1>2. {d \in Containers : e = <<"name", d>>} = {c}
  BY <1>1
<1> QED BY <1>1, <1>2 DEF releaseIP

\* One DEL of the CNI: its call, and AddFile when CNS is not reached.
LEMMA DelKeepsDeleteInv ==
    ASSUME DeleteInv, NEW c \in Containers, Del(c) \/ AddFileFails(c)
    PROVE  DeleteInv'
<1> USE AsyncConstants DEF DeleteInv, cnsVars
<1>1. CASE DelReleases(c)
  BY <1>1 DEF DelReleases, ATypeOK, CreatedKept, NoLostDelete
<1>2. CASE DelUnreachable(c)
  BY <1>2 DEF DelUnreachable, Fault, ATypeOK, CreatedKept, NoLostDelete
<1>3. CASE AddFileCreates(c)
  <2>1. events' \in Seq(Entries)
    BY <1>3 DEF AddFileCreates, ATypeOK, Entries
  <2>2. ATypeOK'
    BY <1>3, <2>1 DEF AddFileCreates, ATypeOK
  <2>3. CreatedKept' /\ NoLostDelete'
    BY <1>3 DEF AddFileCreates, ATypeOK, CreatedKept, NoLostDelete
  <2> QED BY <2>2, <2>3
<1>4. CASE AddFileWrites(c)
  BY <1>4 DEF AddFileWrites, ATypeOK, CreatedKept, NoLostDelete
<1>5. CASE AddFileFails(c)
  BY <1>5 DEF AddFileFails, Fault, ATypeOK, CreatedKept, NoLostDelete
<1> QED BY <1>1, <1>2, <1>3, <1>4, <1>5 DEF Del

\* The watcher's own steps and a restart of CNS touch no file and no IP
\* (fsnotify.go: watcherAdd, watchFS; main.go: a new watcher after an error).
LEMMA WatcherKeepsDeleteInv ==
    ASSUME DeleteInv,
           Serve \/ WatchAdd \/ WatchScan \/ WatchEvent \/ Tick \/ WatchFails \/ Restart
    PROVE  DeleteInv'
<1>1. UNCHANGED <<held, del, file>>
  BY DEF Serve, WatchAdd, WatchScan, WatchEvent, Tick, WatchFails, Restart
<1>2. CreatedKept' /\ NoLostDelete'
  BY <1>1 DEF DeleteInv, CreatedKept, NoLostDelete
<1>3. ATypeOK'
  <2> USE AsyncConstants DEF DeleteInv, ATypeOK
  <2>1. CASE Serve \/ WatchAdd \/ Tick
    BY <2>1 DEF Serve, WatchAdd, Tick
  <2>2. CASE WatchScan
    <3>1. {<<"name", c>> : c \in {d \in Containers : file[d] # "absent"}} \subseteq Entries
      BY DEF Entries
    <3> QED BY <2>2, <3>1 DEF WatchScan
  <2>3. CASE WatchEvent
    <3>1. Head(events) \in Entries /\ Tail(events) \in Seq(Entries)
      BY <2>3 DEF WatchEvent
    <3> QED BY <2>3, <3>1 DEF WatchEvent
  <2>4. CASE WatchFails \/ Restart
    <3>1. <<>> \in Seq(Entries)
      OBVIOUS
    <3>2. events' \in Seq(Entries)
      BY <2>4, <3>1, Zenon DEF WatchFails, Restart
    <3>3. restarts' \in 0 .. MaxRestarts /\ faults' \in 0 .. MaxFaults
      BY <2>4 DEF WatchFails, Restart, Fault
    <3> QED BY <2>4, <3>2, <3>3, Zenon DEF WatchFails, Restart
  <2> QED BY <2>1, <2>2, <2>3, <2>4
<1> QED BY <1>2, <1>3 DEF DeleteInv

\* releaseAll on one entry: when the file goes, so has its container's IP.
LEMMA ReleaseKeepsDeleteInv ==
    ASSUME DeleteInv, NEW e \in Entries, ReleaseEntry(e)
    PROVE  DeleteInv'
<1>1. e[1] \in {"name", "path"} /\ e[2] \in Containers
  BY DEF Entries
<1>2. ATypeOK'
  BY <1>1, AsyncConstants DEF DeleteInv, ATypeOK, ReleaseEntry, Fault
<1>3. held' \subseteq held /\ UNCHANGED del
  BY DEF ReleaseEntry
<1>4. ASSUME NEW c \in Containers, c \in held'
      PROVE  file'[c] = file[c]
  <2>1. CASE e[1] = "name" /\ held' = held \ releaseIP(e).of /\ file' = [file EXCEPT ![e[2]] = "absent"]
    <3>1. c # e[2]
      BY <1>4, <2>1, ReleaseIsOwn
    <3> QED BY <2>1, <3>1, <1>1 DEF DeleteInv, ATypeOK
  <2>2. CASE UNCHANGED file
    BY <2>2
  <2> QED BY <2>1, <2>2 DEF ReleaseEntry
<1>5. CreatedKept' /\ NoLostDelete'
  BY <1>3, <1>4 DEF DeleteInv, CreatedKept, NoLostDelete
<1> QED BY <1>2, <1>5 DEF DeleteInv

\* Every step of the CNI, of the watcher and of CNS keeps the invariant.
LEMMA NextKeepsDeleteInv == DeleteInv /\ [ANext]_avars => DeleteInv'
<1> SUFFICES ASSUME DeleteInv, [ANext]_avars PROVE DeleteInv'
  OBVIOUS
<1>1. CASE ANext
  BY <1>1, DelKeepsDeleteInv, WatcherKeepsDeleteInv, ReleaseKeepsDeleteInv DEF ANext, Watcher
<1>2. CASE UNCHANGED avars
  BY <1>2 DEF avars, DeleteInv, ATypeOK, CreatedKept, NoLostDelete
<1> QED BY <1>1, <1>2

\* So it holds in every behaviour.
LEMMA DeleteInvariant == ASpec => []DeleteInv
  BY InitDeleteInv, NextKeepsDeleteInv, PTL DEF ASpec

-----------------------------------------------------------------------------

\* The watcher's map, its queue of events and the entries of a running
\* releaseAll are well typed (fsnotify.go).
THEOREM WatcherTypeCorrect == ASpec => []ATypeOK
<1>1. DeleteInv => ATypeOK
  BY DEF DeleteInv
<1> QED BY <1>1, DeleteInvariant, PTL

\* As long as CNS holds the IP of a container whose DEL has succeeded, the
\* written file is there for the next start of CNS (fsnotify.go: AddFile,
\* releaseAll).
THEOREM DeleteNotLost == ASpec => []NoLostDelete
<1>1. DeleteInv => NoLostDelete
  BY DEF DeleteInv
<1> QED BY <1>1, DeleteInvariant, PTL

=============================================================================
