---------------------------- MODULE AsyncDelete ----------------------------
(***************************************************************************)
(* Missed pod deletes (cns/fsnotify and its callers).  A CNI DEL that      *)
(* cannot reach CNS leaves a file named after the container in a directory *)
(* and succeeds; a watcher in CNS enters the files it finds at its start   *)
(* and those the file system reports later into a map, and a loop releases *)
(* the IP of every entry.                                                  *)
(*                                                                         *)
(* An entry is the string the map is keyed by: the file's name, or the     *)
(* path the file system reports, which the loop joins to the directory     *)
(* once more.                                                              *)
(***************************************************************************)
EXTENDS Integers, Sequences, FiniteSets

CONSTANTS
    Containers,  \* infra container IDs, each used once
    MaxRestarts, \* bound: restarts of CNS
    MaxFaults    \* bound: failed calls, writes and removals

ASSUME AsyncConstants ==
    MaxRestarts \in Nat /\ MaxFaults \in Nat

Entries == {"name", "path"} \X Containers

VARIABLES
    scheme,     \* what CNS keys a pod by, a setting: "infra" or "interface"
    up,         \* CNS serves requests
    held,       \* containers CNS holds an IP for
    del,        \* del[c]: the progress of the container's DEL
    file,       \* file[c]: "absent", "empty" (created, not written) or "full"
    watch,      \* the watcher: "off", "added" (watching), "listening"
    events,     \* create events not yet received
    pending,    \* pendingDelete
    todo,       \* entries the running releaseAll has not reached
    restarts,
    faults

cnsVars == <<up, watch, events, pending, todo, scheme, restarts>>
avars == <<up, held, del, file, watch, events, pending, todo, scheme, restarts, faults>>

Fault == faults < MaxFaults /\ faults' = faults + 1

-----------------------------------------------------------------------------
(* CNI DEL: ReleaseIPs, and AddFile when CNS cannot be reached *)

\* The call is answered: the IP is free and the DEL has succeeded.
DelReleases(c) ==
    /\ del[c] = "none" /\ up
    /\ held' = held \ {c}
    /\ del' = [del EXCEPT ![c] = "done"]
    /\ UNCHANGED <<file, cnsVars, faults>>

\* A connection failure: CNS is down, or it does not answer in time, in which
\* case it may have released the IP.
DelUnreachable(c) ==
    /\ del[c] = "none"
    /\ \/ ~up /\ UNCHANGED <<held, faults>>
       \/ up /\ Fault /\ held' \in {held, held \ {c}}
    /\ del' = [del EXCEPT ![c] = "create"]
    /\ UNCHANGED <<file, cnsVars>>

\* os.Create: an existing file is truncated and no event is reported.
AddFileCreates(c) ==
    /\ del[c] = "create"
    /\ file' = [file EXCEPT ![c] = "empty"]
    /\ events' = IF watch # "off" /\ file[c] = "absent" THEN Append(events, <<"path", c>>) ELSE events
    /\ del' = [del EXCEPT ![c] = "write"]
    /\ UNCHANGED <<up, held, watch, pending, todo, scheme, restarts, faults>>

\* WriteString and Close; the file may have been removed in the meantime.
AddFileWrites(c) ==
    /\ del[c] = "write"
    /\ file' = [file EXCEPT ![c] = IF @ = "absent" THEN @ ELSE "full"]
    /\ del' = [del EXCEPT ![c] = "done"]
    /\ UNCHANGED <<held, cnsVars, faults>>

\* An error of AddFile, or the plugin is killed: the runtime repeats the DEL.
AddFileFails(c) ==
    /\ del[c] \in {"create", "write"}
    /\ Fault
    /\ del' = [del EXCEPT ![c] = "none"]
    /\ UNCHANGED <<held, file, cnsVars>>

Del(c) == DelReleases(c) \/ DelUnreachable(c) \/ AddFileCreates(c) \/ AddFileWrites(c)

-----------------------------------------------------------------------------
(* The watcher *)

\* CNS has reconciled and serves requests.
Serve ==
    /\ ~up /\ up' = TRUE
    /\ UNCHANGED <<held, del, file, watch, events, pending, todo, scheme, restarts, faults>>

\* New and watcher.Add: from here on creations are reported.
WatchAdd ==
    /\ up /\ watch = "off"
    /\ watch' = "added"
    /\ UNCHANGED <<up, held, del, file, events, pending, todo, scheme, restarts, faults>>

\* The directory is listed and every file name entered, under the lock.
WatchScan ==
    /\ watch = "added" /\ todo = {}
    /\ watch' = "listening"
    /\ pending' = pending \cup {<<"name", c>> : c \in {d \in Containers : file[d] # "absent"}}
    /\ UNCHANGED <<up, held, del, file, events, todo, scheme, restarts, faults>>

\* A create event is received: its Name, the path of the file, is entered.
WatchEvent ==
    /\ watch = "listening" /\ events # <<>> /\ todo = {}
    /\ pending' = pending \cup {Head(events)}
    /\ events' = Tail(events)
    /\ UNCHANGED <<up, held, del, file, watch, todo, scheme, restarts, faults>>

\* Mutant: the release loop of the closed watcher goes on.
WatchFailsLoops ==
    /\ watch # "off" /\ Fault
    /\ watch' = "off" /\ events' = <<>> /\ pending' = {}
    /\ UNCHANGED <<up, held, del, file, todo, scheme, restarts>>

\* An error of the watcher closes it; main starts a new one with an empty map.
WatchFails ==
    /\ watch # "off" /\ Fault
    /\ watch' = "off" /\ events' = <<>> /\ pending' = {} /\ todo' = {}
    /\ UNCHANGED <<up, held, del, file, scheme, restarts>>

\* The ticker fires with entries in the map: releaseAll takes the lock.
Tick ==
    /\ watch # "off" /\ todo = {} /\ pending # {}
    /\ todo' = pending
    /\ UNCHANGED <<up, held, del, file, watch, events, pending, scheme, restarts, faults>>

\* What the loop reads of an entry's file: a path joined twice does not exist.
Content(e) == IF e[1] = "path" \/ file[e[2]] # "full" THEN "" ELSE "podInterfaceID"

\* Whether CNS accepts the release, and whose IP it is a release of.
releaseIP(e) ==
    [ok |-> scheme = "infra" \/ Content(e) # "",
     of |-> IF scheme = "infra" THEN {c \in Containers : e = <<"name", c>>} ELSE {e[2]}]

\* Mutant: the file is removed whether or not the release succeeded.
ReleaseEntryAlways(e) ==
    /\ e \in todo
    /\ todo' = todo \ {e}
    /\ \/ releaseIP(e).ok /\ held' = held \ releaseIP(e).of /\ UNCHANGED faults
       \/ Fault /\ UNCHANGED held
    /\ pending' = pending \ {e}
    /\ file' = IF e[1] = "name" THEN [file EXCEPT ![e[2]] = "absent"] ELSE file
    /\ UNCHANGED <<up, del, watch, events, scheme, restarts>>

\* Mutant: the entry is dropped before the release is known to have succeeded.
ReleaseEntryForgets(e) ==
    /\ e \in todo
    /\ todo' = todo \ {e}
    /\ pending' = pending \ {e}
    /\ held' = IF releaseIP(e).ok THEN held \ releaseIP(e).of ELSE held
    /\ UNCHANGED <<up, del, file, watch, events, scheme, restarts, faults>>

\* releaseAll, one entry.  A failed release keeps the entry; a success drops
\* it and removes the file, whose removal may fail.
ReleaseEntry(e) ==
    /\ e \in todo
    /\ todo' = todo \ {e}
    /\ \/ /\ releaseIP(e).ok
          /\ held' = held \ releaseIP(e).of
          /\ pending' = pending \ {e}
          /\ \/ e[1] = "name" /\ file' = [file EXCEPT ![e[2]] = "absent"] /\ UNCHANGED faults
             \/ e[1] = "name" /\ Fault /\ UNCHANGED file
             \/ e[1] = "path" /\ UNCHANGED <<file, faults>>
       \/ ~releaseIP(e).ok /\ UNCHANGED <<held, pending, file, faults>>
       \/ Fault /\ UNCHANGED <<held, pending, file>>
    /\ UNCHANGED <<up, del, watch, events, scheme, restarts>>

\* CNS stops and is started again; it keeps the IPs of its state file.
Restart ==
    /\ restarts < MaxRestarts
    /\ restarts' = restarts + 1
    /\ up' = FALSE /\ watch' = "off" /\ events' = <<>> /\ pending' = {} /\ todo' = {}
    /\ UNCHANGED <<scheme, held, del, file, faults>>

AInit ==
    /\ scheme \in {"infra", "interface"}
    /\ up = FALSE
    /\ held = Containers
    /\ del = [c \in Containers |-> "none"]
    /\ file = [c \in Containers |-> "absent"]
    /\ watch = "off"
    /\ events = <<>> /\ pending = {} /\ todo = {}
    /\ restarts = 0 /\ faults = 0

Watcher == Serve \/ WatchAdd \/ WatchScan \/ WatchEvent \/ Tick \/ \E e \in Entries : ReleaseEntry(e)

ANext ==
    \/ \E c \in Containers : Del(c) \/ AddFileFails(c)
    \/ Watcher \/ WatchFails \/ Restart

ASpec == AInit /\ [][ANext]_avars

\* The runtime repeats a DEL until it succeeds; both goroutines of the watcher
\* keep running, and releaseAll gets through the map.
AFairSpec ==
    /\ ASpec
    /\ \A c \in Containers : WF_avars(Del(c))
    /\ WF_avars(Serve) /\ WF_avars(WatchAdd) /\ WF_avars(WatchScan) /\ WF_avars(WatchEvent) /\ WF_avars(Tick)
    /\ \A e \in Entries : WF_avars(ReleaseEntry(e))

-----------------------------------------------------------------------------
(* Properties *)

\* The watcher's state is well typed, and a running releaseAll works only on
\* entries that are still in the map (fsnotify.go: pendingDelete).
ATypeOK ==
    /\ scheme \in {"infra", "interface"}
    /\ up \in BOOLEAN
    /\ held \subseteq Containers
    /\ del \in [Containers -> {"none", "create", "write", "done"}]
    /\ file \in [Containers -> {"absent", "empty", "full"}]
    /\ watch \in {"off", "added", "listening"}
    /\ events \in Seq(Entries)
    /\ pending \subseteq Entries /\ todo \subseteq pending
    /\ restarts \in 0 .. MaxRestarts /\ faults \in 0 .. MaxFaults

\* A DEL that succeeded without CNS is never forgotten: as long as CNS holds
\* the IP the file is there, written, and the next start of CNS finds it.
NoLostDelete == \A c \in Containers : del[c] = "done" /\ c \in held => file[c] = "full"

\* The files a start of CNS finds are all released, whatever calls fail on
\* the way and whether or not they were fully written when it found them.
ScannedReleased == \A c \in Containers : (<<"name", c>> \in pending) ~> (c \notin held)

=============================================================================
