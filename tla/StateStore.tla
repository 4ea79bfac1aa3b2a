----------------------------- MODULE StateStore -----------------------------
(***************************************************************************)
(* The JSON file store (store/json.go) and the file lock (processlock)     *)
(* that guards it, as the processes of the CNI plugin and of telemetry use *)
(* them: take the lock with a timeout, restore the state, change it, write *)
(* it through a temporary file, release the lock, exit.                    *)
(*                                                                         *)
(* Lock starts a goroutine that waits for the file lock and reports on an  *)
(* unbuffered channel; after the timeout nobody receives and the goroutine *)
(* goes on.  The kernel drops the lock of a process that ends.             *)
(***************************************************************************)
EXTENDS Integers, FiniteSets

CONSTANTS
    Procs,       \* processes that use the store, one call each
    Daemons,     \* those that do not exit afterwards
    Keys,        \* what the state is made of: the IDs of endpoints
    Adds,        \* Adds[p]: the keys p adds (ADD)
    Dels,        \* Dels[p]: the keys p removes (DEL)
    NoProc,      \* the owner of a free lock
    MaxFaults    \* bound: failed calls and killed processes

ASSUME StoreConstants ==
    /\ Daemons \subseteq Procs
    /\ Adds \in [Procs -> SUBSET Keys] /\ Dels \in [Procs -> SUBSET Keys]
    /\ NoProc \notin Procs
    /\ MaxFaults \in Nat

VARIABLES
    flock,     \* the process that holds the file lock
    pc,        \* pc[p]: where the caller is
    helper,    \* helper[p]: where the goroutine started by Lock is
    data,      \* data[p]: the store's map in memory
    file,      \* the contents of the state file
    temp,      \* temp[p]: p's temporary file exists
    serial,    \* the state after all completed writes, one after the other
    faults

svars == <<flock, pc, helper, data, file, temp, serial, faults>>

Goto(p, l) == pc' = [pc EXCEPT ![p] = l]
Fault == faults < MaxFaults /\ faults' = faults + 1

-----------------------------------------------------------------------------
(* Lock *)

\* Lock is called and starts lockUtil.
Lock(p) ==
    /\ pc[p] = "start"
    /\ Goto(p, "locking")
    /\ helper' = [helper EXCEPT ![p] = "waiting"]
    /\ UNCHANGED <<flock, data, file, temp, serial, faults>>

\* Mutant: the lock file is opened without being locked.
lockUtilUnlocked(p) ==
    /\ helper[p] = "waiting"
    /\ flock' = p
    /\ helper' = [helper EXCEPT ![p] = "ok"]
    /\ UNCHANGED <<pc, data, file, temp, serial, faults>>

\* lockUtil gets the file lock, whether or not its caller still waits.
lockUtil(p) ==
    /\ helper[p] = "waiting"
    /\ flock = NoProc
    /\ flock' = p
    /\ helper' = [helper EXCEPT ![p] = "ok"]
    /\ UNCHANGED <<pc, data, file, temp, serial, faults>>

\* The file cannot be created or locked; or the process ID cannot be written,
\* and the lock stays with the open file.
lockUtilFails(p) ==
    /\ helper[p] = "waiting" /\ Fault
    /\ \/ UNCHANGED flock
       \/ flock = NoProc /\ flock' = p
    /\ helper' = [helper EXCEPT ![p] = "error"]
    /\ UNCHANGED <<pc, data, file, temp, serial>>

\* The result is received.
LockReturns(p) ==
    /\ pc[p] = "locking" /\ helper[p] \in {"ok", "error"}
    /\ Goto(p, IF helper[p] = "ok" THEN "locked" ELSE "failed")
    /\ helper' = [helper EXCEPT ![p] = "none"]
    /\ UNCHANGED <<flock, data, file, temp, serial, faults>>

\* ErrTimeoutLockingStore.
LockTimesOut(p) ==
    /\ pc[p] = "locking"
    /\ Goto(p, "failed")
    /\ UNCHANGED <<flock, helper, data, file, temp, serial, faults>>

-----------------------------------------------------------------------------
(* Read, Write, Unlock *)

\* Mutant: the map counts as in sync before the file was read.
ReadCached(p) ==
    /\ pc[p] = "locked"
    /\ Goto(p, "restored")
    /\ UNCHANGED <<flock, helper, data, file, temp, serial, faults>>

\* Mutant: the error of a file that does not parse is ignored.
ReadUnparsed(p) ==
    /\ pc[p] = "locked"
    /\ \/ data' = [data EXCEPT ![p] = file] /\ UNCHANGED faults
       \/ Fault /\ data' = [data EXCEPT ![p] = {"garbage"}]
    /\ Goto(p, "restored")
    /\ UNCHANGED <<flock, helper, file, temp, serial>>

\* The file is parsed into the map, once per process; a process that cannot
\* read it fails its call.
Read(p) ==
    /\ pc[p] = "locked"
    /\ \/ data' = [data EXCEPT ![p] = file] /\ Goto(p, "restored") /\ UNCHANGED faults
       \/ Fault /\ Goto(p, "unlock") /\ UNCHANGED data
    /\ UNCHANGED <<flock, helper, file, temp, serial>>

Changed(p, s) == (s \cup Adds[p]) \ Dels[p]

\* Write changes the map and flush writes it to a new file; an error removes
\* that file again.
WriteTemp(p) ==
    /\ pc[p] = "restored"
    /\ data' = [data EXCEPT ![p] = Changed(p, @)]
    /\ \/ temp' = [temp EXCEPT ![p] = TRUE] /\ Goto(p, "flushing") /\ UNCHANGED faults
       \/ Fault /\ Goto(p, "unlock") /\ UNCHANGED temp
    /\ UNCHANGED <<flock, helper, file, serial>>

\* ReplaceFile: the new file takes the place of the old one, or is removed.
Rename(p) ==
    /\ pc[p] = "flushing"
    /\ temp' = [temp EXCEPT ![p] = FALSE]
    /\ \/ file' = data[p] /\ serial' = Changed(p, serial) /\ UNCHANGED faults
       \/ Fault /\ UNCHANGED <<file, serial>>
    /\ Goto(p, "unlock")
    /\ UNCHANGED <<flock, helper, data>>

\* Unlock closes the lock file.
Unlock(p) ==
    /\ pc[p] = "unlock"
    /\ flock' = NoProc
    /\ Goto(p, "finished")
    /\ UNCHANGED <<helper, data, file, temp, serial, faults>>

\* Mutant: the lock is a file that exists, which outlives the process.
EndsKeepsLock(p) ==
    /\ Goto(p, "exited")
    /\ helper' = [helper EXCEPT ![p] = "none"]
    /\ UNCHANGED <<flock, data, file, temp, serial>>

\* The process ends and its open files with it.
Ends(p) ==
    /\ Goto(p, "exited")
    /\ helper' = [helper EXCEPT ![p] = "none"]
    /\ flock' = IF flock = p THEN NoProc ELSE flock
    /\ UNCHANGED <<data, file, temp, serial>>

Exit(p) == pc[p] \in {"failed", "finished"} /\ p \notin Daemons /\ Ends(p) /\ UNCHANGED faults

Kill(p) == pc[p] # "exited" /\ Fault /\ Ends(p)

SInit ==
    /\ flock = NoProc
    /\ pc = [p \in Procs |-> "start"]
    /\ helper = [p \in Procs |-> "none"]
    /\ data = [p \in Procs |-> {}]
    /\ file = {} /\ serial = {}
    /\ temp = [p \in Procs |-> FALSE]
    /\ faults = 0

Caller(p) ==
    Lock(p) \/ LockReturns(p) \/ LockTimesOut(p) \/ Read(p) \/ WriteTemp(p) \/ Rename(p) \/ Unlock(p) \/ Exit(p)

SNext == \E p \in Procs : Caller(p) \/ lockUtil(p) \/ lockUtilFails(p) \/ Kill(p)

SSpec == SInit /\ [][SNext]_svars

\* A process that runs gets on, and the kernel grants a free lock to a waiter.
SFairSpec ==
    SSpec /\ \A p \in Procs : WF_svars(Caller(p)) /\ WF_svars(lockUtil(p))

-----------------------------------------------------------------------------
(* Properties *)

\* The lock, the callers, their goroutines and their maps are well typed; what a
\* process has read parses (json.go: Read).
STypeOK ==
    /\ flock \in Procs \cup {NoProc}
    /\ pc \in [Procs -> {"start", "locking", "failed", "locked", "restored", "flushing", "unlock", "finished", "exited"}]
    /\ helper \in [Procs -> {"none", "waiting", "ok", "error"}]
    /\ data \in [Procs -> SUBSET Keys] /\ file \subseteq Keys /\ serial \subseteq Keys
    /\ temp \in [Procs -> BOOLEAN]
    /\ faults \in 0 .. MaxFaults

Inside(p) == pc[p] \in {"locked", "restored", "flushing", "unlock"}

\* "Lock locks the store for exclusive access": a caller that goes on after
\* Lock holds the file lock, though other goroutines took it and gave up.
Exclusive == \A p \in Procs : Inside(p) => flock = p

\* No update is lost: the file is what the completed writes give one after
\* the other, whatever failed, timed out or was killed in between.
FileIsSerial == file = serial

\* Whoever gave up waiting, or has finished, does not keep the lock for ever:
\* "we especially don't want to leave a file locked after we're done with it"
\* (internal/lockedfile/lockedfile.go).
GivenUpIsFreed == \A p \in Procs : (flock = p /\ pc[p] \in {"failed", "finished"}) ~> (flock # p)

=============================================================================
