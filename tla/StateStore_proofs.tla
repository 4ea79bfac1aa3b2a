-------------------------- MODULE StateStore_proofs --------------------------
(***************************************************************************)
(* The file lock gives exclusive access to the state file and no update is *)
(* lost, for every set of processes, whatever each of them adds or removes *)
(* and whatever fails, times out or is killed.                             *)
(*                                                                         *)
(* Exclusive alone is not inductive: the lock is taken by the goroutine,   *)
(* and it is its answer that lets the caller go on.  LockInv says who may  *)
(* hold the lock at each point of the handover.  FileIsSerial needs in     *)
(* addition that what a process has in memory was read, or computed from,  *)
(* the file as it is now.                                                  *)
(***************************************************************************)
EXTENDS StateStore, TLAPS

\* A goroutine that has reported success holds the lock for its caller, who
\* has not gone past Lock; one whose report was received is gone.
LockInv ==
    \A p \in Procs :
        /\ helper[p] = "ok" => flock = p
        /\ pc[p] = "start" => helper[p] = "none"
        /\ Inside(p) => flock = p /\ helper[p] = "none"

\* What a process inside the lock has in memory is up to date.
DataFresh ==
    \A p \in Procs :
        /\ pc[p] = "restored" => data[p] = file
        /\ pc[p] = "flushing" => data[p] = Changed(p, file)

StoreInv == STypeOK /\ LockInv /\ DataFresh /\ FileIsSerial

-----------------------------------------------------------------------------

\* SInit, the state before any process has called Lock.
LEMMA InitStoreInv == SInit => StoreInv
  BY StoreConstants
  DEF SInit, StoreInv, STypeOK, LockInv, DataFresh, FileIsSerial, Inside

\* Only one process is inside the lock.
LEMMA InsideAlone ==
    ASSUME StoreInv, NEW p \in Procs, NEW q \in Procs, Inside(p), p # q
    PROVE  ~Inside(q) /\ helper[q] # "ok" /\ flock = p /\ flock # NoProc
  BY StoreConstants DEF StoreInv, LockInv

\* Taking the lock, with or without success, and waiting for it in vain: no
\* file and no map changes (processlock.go: lockUtil, json.go: Lock).
LEMMA LockingKeepsStoreInv ==
    ASSUME StoreInv, NEW p \in Procs,
           Lock(p) \/ lockUtil(p) \/ lockUtilFails(p) \/ LockReturns(p) \/ LockTimesOut(p)
    PROVE  StoreInv'
<1> USE StoreConstants DEF StoreInv
<1>1. CASE Lock(p)
  BY <1>1 DEF Lock, Goto, STypeOK, LockInv, DataFresh, FileIsSerial, Inside, Changed
<1>2. CASE lockUtil(p)
  BY <1>2 DEF lockUtil, STypeOK, LockInv, DataFresh, FileIsSerial, Inside, Changed
<1>3. CASE lockUtilFails(p)
  BY <1>3 DEF lockUtilFails, Fault, STypeOK, LockInv, DataFresh, FileIsSerial, Inside, Changed
<1>4. CASE LockReturns(p)
  BY <1>4 DEF LockReturns, Goto, STypeOK, LockInv, DataFresh, FileIsSerial, Inside, Changed
<1>5. CASE LockTimesOut(p)
  BY <1>5 DEF LockTimesOut, Goto, STypeOK, LockInv, DataFresh, FileIsSerial, Inside, Changed
<1> QED BY <1>1, <1>2, <1>3, <1>4, <1>5

\* Restoring the map, changing it and writing the temporary file: the state
\* file is not touched (json.go: Read, Write, flush up to ReplaceFile).
LEMMA MemoryKeepsStoreInv ==
    ASSUME StoreInv, NEW p \in Procs, Read(p) \/ WriteTemp(p)
    PROVE  StoreInv'
<1> USE StoreConstants DEF StoreInv
<1>1. CASE Read(p)
  BY <1>1 DEF Read, Fault, Goto, STypeOK, LockInv, DataFresh, FileIsSerial, Inside, Changed
<1>2. CASE WriteTemp(p)
  <2>1. Changed(p, data[p]) \subseteq Keys
    BY DEF STypeOK, Changed
  <2>2. STypeOK'
    <3>1. data' \in [Procs -> SUBSET Keys]
      BY <1>2, <2>1 DEF WriteTemp, STypeOK
    <3>2. temp' \in [Procs -> BOOLEAN]
      BY <1>2 DEF WriteTemp, STypeOK
    <3> QED BY <1>2, <3>1, <3>2 DEF WriteTemp, Fault, Goto, STypeOK
  <2>3. LockInv' /\ DataFresh' /\ FileIsSerial'
    BY <1>2 DEF WriteTemp, Fault, Goto, STypeOK, LockInv, DataFresh, FileIsSerial, Inside
  <2> QED BY <2>2, <2>3
<1> QED BY <1>1, <1>2

\* ReplaceFile: the file changes only under its writer's lock, so nobody else
\* has a map in memory that becomes stale by it.
LEMMA RenameKeepsStoreInv ==
    ASSUME StoreInv, NEW p \in Procs, Rename(p)
    PROVE  StoreInv'
<1>1. Inside(p) /\ data[p] = Changed(p, file) /\ file = serial
  BY DEF StoreInv, Rename, Inside, DataFresh, FileIsSerial
<1>2. STypeOK' /\ LockInv'
  BY <1>1, StoreConstants DEF StoreInv, Rename, Fault, Goto, STypeOK, LockInv, Inside, Changed
<1>3. FileIsSerial'
  BY <1>1 DEF Rename, FileIsSerial
<1>4. DataFresh'
  <2> SUFFICES ASSUME NEW q \in Procs
               PROVE  /\ pc'[q] = "restored" => data'[q] = file'
                      /\ pc'[q] = "flushing" => data'[q] = Changed(q, file')
    BY DEF DataFresh
  <2>1. CASE q = p
    BY <2>1 DEF StoreInv, STypeOK, Rename, Goto
  <2>2. CASE q # p
    BY <1>1, <2>2, InsideAlone DEF StoreInv, STypeOK, Rename, Goto, Inside
  <2> QED BY <2>1, <2>2
<1> QED BY <1>2, <1>3, <1>4 DEF StoreInv

\* Giving the lock back, and a process that ends or is killed at any point:
\* the kernel drops its lock and its goroutine is gone (processlock.go: Unlock).
LEMMA LeavingKeepsStoreInv ==
    ASSUME StoreInv, NEW p \in Procs, Unlock(p) \/ Exit(p) \/ Kill(p)
    PROVE  StoreInv'
<1> USE StoreConstants DEF StoreInv
<1>1. CASE Unlock(p)
  BY <1>1 DEF Unlock, Goto, STypeOK, LockInv, DataFresh, FileIsSerial, Inside, Changed
<1>2. CASE Exit(p)
  BY <1>2 DEF Exit, Ends, Goto, STypeOK, LockInv, DataFresh, FileIsSerial, Inside, Changed
<1>3. CASE Kill(p)
  BY <1>3 DEF Kill, Ends, Fault, Goto, STypeOK, LockInv, DataFresh, FileIsSerial, Inside, Changed
<1> QED BY <1>1, <1>2, <1>3

\* Every step of the processes that share the file keeps the invariant.
LEMMA NextKeepsStoreInv == StoreInv /\ [SNext]_svars => StoreInv'
<1> SUFFICES ASSUME StoreInv, [SNext]_svars PROVE StoreInv'
  OBVIOUS
<1>1. CASE SNext
  BY <1>1, LockingKeepsStoreInv, MemoryKeepsStoreInv, RenameKeepsStoreInv, LeavingKeepsStoreInv
  DEF SNext, Caller
<1>2. CASE UNCHANGED svars
  BY <1>2 DEF svars, StoreInv, STypeOK, LockInv, DataFresh, FileIsSerial, Inside, Changed
<1> QED BY <1>1, <1>2

\* So it holds in every behaviour.
LEMMA StoreInvariant == SSpec => []StoreInv
  BY InitStoreInv, NextKeepsStoreInv, PTL DEF SSpec

-----------------------------------------------------------------------------

\* Whatever processes use the store, its lock, maps and files are well typed
\* (json.go, processlock.go).
THEOREM StoreTypeCorrect == SSpec => []STypeOK
<1>1. StoreInv => STypeOK
  BY DEF StoreInv
<1> QED BY <1>1, StoreInvariant, PTL

\* A caller that goes on after Lock has exclusive access, for any number of
\* processes, timeouts, late goroutines and kills (processlock.go: Lock).
THEOREM LockIsExclusive == SSpec => []Exclusive
<1>1. StoreInv => Exclusive
  BY DEF StoreInv, LockInv, Exclusive
<1> QED BY <1>1, StoreInvariant, PTL

\* No process overwrites what another one wrote: the file holds the completed
\* writes, one after the other (json.go: Read, Write, flush).
THEOREM NoLostUpdate == SSpec => []FileIsSerial
<1>1. StoreInv => FileIsSerial
  BY DEF StoreInv
<1> QED BY <1>1, StoreInvariant, PTL

=============================================================================
