------------------------------ MODULE DriveMount ------------------------------
(***************************************************************************)
(* S3 drives: S3DriveService over RcloneDriveMount, in every application   *)
(* process that uses the same cache (the GUI, CLI sessions).               *)
(*                                                                         *)
(* An application does one call at a time, under S3DriveService._lock; its *)
(* `list` goes beside it.  A drive has a cache directory, shared by the    *)
(* applications: the lease (owner.lock), the binding (pending.json) and    *)
(* the files that were written and not sent yet.  rclone, its file system  *)
(* and the writers that use it are the environment.                        *)
(***************************************************************************)
EXTENDS Naturals, FiniteSets

CONSTANTS
  Apps,      \* application processes
  Drives,    \* ids of saved drives; an id is never used twice
  Targets,   \* what a drive can be bound to: bucket, prefix, local prefix
  Letters,   \* drive letters
  Letter,    \* the letter of each drive
  Faults,    \* see FaultKinds
  None       \* no target, no drive, no application

\* "crash": an application dies.  "die": rclone dies.  "disk": a file of the
\* cache cannot be written or removed.  "slow": a killed rclone outlives the wait.
FaultKinds == {"crash", "die", "disk", "slow"}

ASSUME DriveMountAssumption ==
  /\ Letter \in [Drives -> Letters] /\ Faults \subseteq FaultKinds
  /\ None \notin Drives \cup Targets /\ None # "torn"
  /\ None \notin Apps \X {"mount", "look"}
  /\ Targets \cap {"unsaved", "deleted", "torn"} = {}

VARIABLES
  row,       \* s3_drives: the target of a saved drive, "unsaved" or "deleted"
  marker,    \* pending.json: a target, None, or "torn" while it is rewritten
  unsent,    \* the target for which the cache holds unsent files, or None
  lease,     \* owner.lock: who holds it
  seen,      \* drives whose cache directory exists
  mount,     \* RcloneDriveMount._mounts of each application
  rclone,    \* the target an application's rclone child serves, or None
  volume,    \* the file system of that child
  closing,   \* S3DriveService._closing
  pc, local, \* the call of each application
  acted      \* history: the applications that have done anything

cache == <<marker, unsent, lease, seen>>
owned == <<mount, rclone, volume>>
vars == <<row, cache, owned, closing, pc, local, acted>>

-----------------------------------------------------------------------------
(* State *)

States == {"connecting", "connected", "disconnecting", "error"}
NoMount == [state |-> "disconnected", mounted |-> FALSE]
MountSet == [state : States, mounted : BOOLEAN] \cup {NoMount}
Volumes == {"none", "asked", "up", "going"}

\* A lease is held for a mount, or for a look at a directory nobody uses.
Holders == (Apps \X {"mount", "look"}) \cup {None}

Saved(d) == row[d] \in Targets
Owns(a, d) == mount[a][d] # NoMount
Visible(a, d) == volume[a][d] \in {"up", "going"}

\* drive.letter not in available_letters(), whoever uses it.
Busy(d) == \E a \in Apps, e \in Drives : Letter[e] = Letter[d] /\ Visible(a, e)

Labels == {"idle", "connect", "lease", "bind", "write", "launch", "wait", "mounting",
           "stop", "reap", "drain", "unmount", "removal", "quit", "check", "store"}
Ops == {"none", "connect", "save", "disconnect", "delete", "profile", "shutdown"}
Blank == [op |-> "none", drive |-> None, target |-> None, todo |-> {}, goal |-> {},
          failed |-> FALSE]
Locals == [op : Ops, drive : Drives \cup {None}, target : Targets \cup {None},
           todo : SUBSET Drives, goal : SUBSET Drives, failed : BOOLEAN]

Goto(a, label) == pc' = [pc EXCEPT ![a] = label]
Return(a) == Goto(a, "idle") /\ local' = [local EXCEPT ![a] = Blank]

Init ==
  /\ row \in [Drives -> Targets \cup {"unsaved"}]
  /\ marker = [d \in Drives |-> None] /\ unsent = [d \in Drives |-> None]
  /\ lease = [d \in Drives |-> None] /\ seen = {}
  /\ mount = [a \in Apps |-> [d \in Drives |-> NoMount]]
  /\ rclone = [a \in Apps |-> [d \in Drives |-> None]]
  /\ volume = [a \in Apps |-> [d \in Drives |-> "none"]]
  /\ closing = [a \in Apps |-> FALSE]
  /\ pc = [a \in Apps |-> "idle"] /\ local = [a \in Apps |-> Blank]
  /\ acted = {}

-----------------------------------------------------------------------------
(* RcloneDriveMount: what several operations share *)

SetState(a, d, state) == mount' = [mount EXCEPT ![a][d].state = state]

\* What is left of the file system once its process is gone.
Orphan(v) == IF v = "up" THEN "going" ELSE IF v = "asked" THEN "none" ELSE v

\* OwnedProcessJob.close: the child is killed.
Kill(a, d) ==
  /\ rclone' = [rclone EXCEPT ![a][d] = None]
  /\ volume' = [volume EXCEPT ![a][d] = Orphan(@)]

\* _release: the job and the lease are closed, the mount is forgotten.
Released(a, d) ==
  /\ mount' = [mount EXCEPT ![a][d] = NoMount]
  /\ lease' = [lease EXCEPT ![d] = None]

\* _clear_clean_pending.
Cleared(d) == IF unsent[d] = None THEN [marker EXCEPT ![d] = None] ELSE marker

\* assert_editable, inside a lease of its own.  _active: the cache is not
\* looked at.
Editable_active(a, d) == ~Owns(a, d) /\ lease[d] = None
Editable(a, d) == ~Owns(a, d) /\ lease[d] = None /\ marker[d] = None /\ unsent[d] = None

\* status.
Status(a, d) ==
  LET m == mount[a][d] IN
  IF m = NoMount THEN IF lease[d] # None THEN "error" ELSE "disconnected"
  ELSE IF m.state \in {"connecting", "disconnecting"} THEN m.state
  ELSE IF rclone[a][d] = None \/ ~m.mounted \/ ~Busy(d) THEN "error"
  ELSE m.state

\* status of a drive nobody here has mounted takes its lease for a moment,
\* beside any call of the same application.
Look(a, d) ==
  /\ Saved(d) /\ ~Owns(a, d) /\ d \in seen /\ lease[d] = None
  /\ lease' = [lease EXCEPT ![d] = <<a, "look">>]
  /\ UNCHANGED <<row, marker, unsent, seen, owned, closing, pc, local>>
Looked(a, d) ==
  /\ lease[d] = <<a, "look">> /\ lease' = [lease EXCEPT ![d] = None]
  /\ UNCHANGED <<row, marker, unsent, seen, owned, closing, pc, local>>

-----------------------------------------------------------------------------
(* connect *)

Connect(a, d) ==
  /\ pc[a] = "idle" /\ ~closing[a] /\ Saved(d)
  /\ Goto(a, "connect")
  /\ local' = [local EXCEPT ![a] = [Blank EXCEPT !.op = "connect", !.drive = d,
                                                 !.target = row[d]]]
  /\ UNCHANGED <<row, cache, owned, closing>>

\* Credentials, or an earlier connection of the drive: one that works gets the
\* new credentials, any other is given up.
Reuse(a) ==
  LET d == local[a].drive IN
  /\ pc[a] = "connect"
  /\ \/ Return(a) /\ UNCHANGED <<lease, owned>>
     \/ ~Owns(a, d) /\ ~Busy(d) /\ Goto(a, "lease") /\ UNCHANGED <<local, lease, owned>>
     \/ /\ Owns(a, d) /\ ~(rclone[a][d] # None /\ mount[a][d].mounted)
        /\ Released(a, d) /\ Kill(a, d)
        /\ Return(a) \/ (~Busy(d) /\ Goto(a, "lease") /\ UNCHANGED local)
  /\ UNCHANGED <<row, marker, unsent, seen, closing>>

\* _lease: taken, or the connection fails.  _ignored: whoever holds it.
MayLease_ignored(d) == TRUE
MayLease(d) == lease[d] = None
TakeLease(a) ==
  LET d == local[a].drive IN
  /\ pc[a] = "lease" /\ seen' = seen \cup {d}
  /\ \/ /\ MayLease(d) /\ lease' = [lease EXCEPT ![d] = <<a, "mount">>]
        /\ Goto(a, "bind") /\ UNCHANGED local
     \/ ~MayLease(d) /\ Return(a) /\ UNCHANGED lease
  /\ UNCHANGED <<row, marker, unsent, owned, closing>>

Unlease(a) == Return(a) /\ lease' = [lease EXCEPT ![local[a].drive] = None]

\* The cache of another target, a full disk, or the marker is rewritten.
\* _any: whatever the cache is bound to.
Bindable_any(d, target) == TRUE
Bindable(d, target) == marker[d] \in {None, target}
Bind(a) ==
  LET d == local[a].drive IN
  /\ pc[a] = "bind"
  /\ \/ /\ Bindable(d, local[a].target)
        /\ marker' = [marker EXCEPT ![d] = "torn"]
        /\ Goto(a, "write") /\ UNCHANGED <<local, lease>>
     \/ Unlease(a) /\ UNCHANGED marker
  /\ UNCHANGED <<row, unsent, seen, owned, closing>>

Binding(a) == local[a].target
Write(a) ==
  /\ pc[a] = "write"
  /\ \/ /\ marker' = [marker EXCEPT ![local[a].drive] = Binding(a)]
        /\ Goto(a, "launch") /\ UNCHANGED <<local, lease>>
     \/ "disk" \in Faults /\ Unlease(a) /\ UNCHANGED marker
  /\ UNCHANGED <<row, unsent, seen, owned, closing>>

\* From here on the mount is registered, and a failure leaves it so.
Launch(a) ==
  LET d == local[a].drive IN
  /\ pc[a] = "launch"
  /\ \/ /\ rclone' = [rclone EXCEPT ![a][d] = local[a].target]
        /\ mount' = [mount EXCEPT ![a][d] = [state |-> "connecting", mounted |-> FALSE]]
        /\ Goto(a, "wait") /\ UNCHANGED <<local, lease>>
     \/ Unlease(a) /\ UNCHANGED <<rclone, mount>>
  /\ UNCHANGED <<row, marker, unsent, seen, volume, closing>>

\* rclone answers and the letter is still free; `mounted` is set before the
\* request.  A cancellation, a dead process or the deadline end the call.
Await(a) ==
  LET d == local[a].drive IN
  /\ pc[a] = "wait"
  /\ \/ /\ rclone[a][d] # None /\ ~Busy(d)
        /\ mount' = [mount EXCEPT ![a][d].mounted = TRUE]
        /\ volume' = [volume EXCEPT ![a][d] = "asked"]
        /\ Goto(a, "mounting") /\ UNCHANGED local
     \/ Return(a) /\ UNCHANGED <<mount, volume>>
  /\ UNCHANGED <<row, cache, rclone, closing>>

\* A failed request does not prove that the mount did not happen, or will not.
Mounting(a) ==
  LET d == local[a].drive IN
  /\ pc[a] = "mounting" /\ Return(a)
  /\ \/ volume[a][d] = "up" /\ SetState(a, d, "connected") /\ UNCHANGED volume
     \/ volume[a][d] = "asked" /\ volume' = [volume EXCEPT ![a][d] = "none"] /\ UNCHANGED mount
     \/ UNCHANGED <<volume, mount>>
  /\ UNCHANGED <<row, cache, rclone, closing>>

-----------------------------------------------------------------------------
(* disconnect, alone and as the first part of the other calls: _stop's loop *)

Begin(a, op, drives) ==
  /\ pc[a] = "idle" /\ Goto(a, "stop")
  /\ local' = [local EXCEPT ![a] = [Blank EXCEPT !.op = op, !.todo = drives, !.goal = drives]]
  /\ UNCHANGED <<row, cache, owned>>

SavedDrives == {d \in Drives : Saved(d)}
Disconnect(a, d) == Saved(d) /\ Begin(a, "disconnect", {d}) /\ UNCHANGED closing
Delete(a, d) == Saved(d) /\ Begin(a, "delete", {d}) /\ UNCHANGED closing
DeleteProfile(a) == Begin(a, "profile", SavedDrives) /\ UNCHANGED closing
Shutdown(a) ==
  /\ Begin(a, "shutdown", SavedDrives)
  /\ closing' = [closing EXCEPT ![a] = TRUE]

Visited(a, failure) ==
  /\ Goto(a, "stop")
  /\ local' = [local EXCEPT ![a].todo = @ \ {local[a].drive}, ![a].drive = None,
                            ![a].failed = @ \/ failure]

\* The drive is still registered, in the state ERROR.
Fail(a) == SetState(a, local[a].drive, "error") /\ Visited(a, TRUE)

Stop(a) ==
  /\ pc[a] = "stop" /\ local[a].drive = None
  /\ \E d \in local[a].todo : local' = [local EXCEPT ![a].drive = d]
  /\ UNCHANGED <<row, cache, owned, closing, pc>>

\* A drive that is not mounted here: what a clean end left behind goes.
StopUnowned(a) ==
  LET d == local[a].drive IN
  /\ pc[a] = "stop" /\ d # None /\ ~Owns(a, d)
  /\ \/ lease[d] # None /\ Visited(a, TRUE) /\ UNCHANGED marker
     \/ lease[d] = None /\ marker' = Cleared(d) /\ Visited(a, FALSE)
     \/ "disk" \in Faults /\ lease[d] = None /\ Visited(a, TRUE) /\ UNCHANGED marker
  /\ UNCHANGED <<row, unsent, lease, seen, owned, closing>>

\* Nothing to drain or unmount: the child is killed.
StopFailed(a) ==
  LET d == local[a].drive IN
  /\ pc[a] = "stop" /\ d # None /\ Owns(a, d)
  /\ rclone[a][d] = None \/ ~mount[a][d].mounted \/ ~Busy(d)
  /\ SetState(a, d, "disconnecting") /\ Goto(a, "reap")
  /\ Kill(a, d) \/ ("slow" \in Faults /\ UNCHANGED <<rclone, volume>>)
  /\ UNCHANGED <<row, cache, closing, local>>

\* _wait_for_drive_removal.  _never: not waited for.
Removed_never(a, d) == TRUE
Removed(a, d) == ~Busy(d)

Reap(a) ==
  LET d == local[a].drive IN
  /\ pc[a] = "reap"
  /\ \/ /\ rclone[a][d] = None
        /\ mount[a][d].mounted => Removed(a, d)
        /\ marker' = Cleared(d) /\ Released(a, d) /\ Kill(a, d) /\ Visited(a, FALSE)
     \/ /\ rclone[a][d] # None \/ (mount[a][d].mounted /\ Busy(d)) \/ "disk" \in Faults
        /\ Fail(a) /\ UNCHANGED <<marker, lease, rclone, volume>>
  /\ UNCHANGED <<row, unsent, seen, closing>>

StopMounted(a) ==
  LET d == local[a].drive IN
  /\ pc[a] = "stop" /\ d # None /\ Owns(a, d)
  /\ rclone[a][d] # None /\ mount[a][d].mounted /\ Busy(d)
  /\ SetState(a, d, "disconnecting") /\ Goto(a, "drain")
  /\ UNCHANGED <<row, cache, rclone, volume, closing, local>>

\* Until nothing is left to send, or fifteen seconds.
Drain(a) ==
  LET d == local[a].drive IN
  /\ pc[a] = "drain"
  /\ \/ /\ rclone[a][d] # None /\ unsent[d] = None
        /\ Goto(a, "unmount") /\ UNCHANGED <<mount, local>>
     \/ Fail(a)
  /\ UNCHANGED <<row, cache, rclone, volume, closing>>

\* The answer may be lost.
Unmount(a) ==
  LET d == local[a].drive
      unmounted == [volume EXCEPT ![a][d] = Orphan(@)] IN
  /\ pc[a] = "unmount"
  /\ \/ /\ rclone[a][d] # None /\ volume' = unmounted
        /\ mount' = [mount EXCEPT ![a][d].mounted = FALSE]
        /\ Goto(a, "removal") /\ UNCHANGED local
     \/ volume' \in {volume, unmounted} /\ Fail(a)
  /\ UNCHANGED <<row, cache, rclone, closing>>

\* Writers can race the drain: the cache is looked at again, twice.
Removal(a) ==
  LET d == local[a].drive IN
  /\ pc[a] = "removal"
  /\ \/ /\ ~Busy(d) /\ unsent[d] = None /\ rclone[a][d] # None
        /\ Goto(a, "quit") /\ UNCHANGED <<mount, local>>
     \/ Fail(a)
  /\ UNCHANGED <<row, cache, rclone, volume, closing>>

\* rclone has ended when the cache turns out to have unsent files after all, or
\* did not answer.
Quit(a) ==
  LET d == local[a].drive IN
  /\ pc[a] = "quit"
  /\ \/ /\ unsent[d] = None /\ marker' = Cleared(d)
        /\ Released(a, d) /\ Kill(a, d) /\ Visited(a, FALSE)
     \/ /\ Fail(a) /\ UNCHANGED <<marker, lease>>
        /\ Kill(a, d) \/ UNCHANGED <<rclone, volume>>
  /\ UNCHANGED <<row, unsent, seen, closing>>

\* Every drive was tried.  A shutdown that failed lets connections in again; a
\* deletion looks at the caches of what it is about to delete.
Reopened(a) == [closing EXCEPT ![a] = ~local[a].failed]
Stopped(a) ==
  /\ pc[a] = "stop" /\ local[a].todo = {}
  /\ \/ local[a].op = "disconnect" /\ Return(a) /\ UNCHANGED closing
     \/ local[a].op = "shutdown" /\ Return(a) /\ closing' = Reopened(a)
     \/ local[a].op \in {"delete", "profile"} /\ local[a].failed /\ Return(a) /\ UNCHANGED closing
     \/ /\ local[a].op \in {"delete", "profile"} /\ ~local[a].failed
        /\ Goto(a, "check") /\ UNCHANGED closing
        /\ local' = [local EXCEPT ![a].todo = IF local[a].op = "profile" THEN SavedDrives
                                              ELSE local[a].goal]
  /\ UNCHANGED <<row, cache, owned>>

-----------------------------------------------------------------------------
(* save, delete and profile_deletion: the caches, then the store *)

Create(a, d, target) ==
  /\ pc[a] = "idle" /\ row[d] = "unsaved" /\ ~Busy(d)
  /\ row' = [row EXCEPT ![d] = target]
  /\ UNCHANGED <<cache, owned, closing, pc, local>>

Save(a, d, target) ==
  /\ pc[a] = "idle" /\ Saved(d) /\ Goto(a, "check")
  /\ local' = [local EXCEPT ![a] = [Blank EXCEPT !.op = "save", !.target = target,
                                                 !.todo = {d}, !.goal = {d}]]
  /\ UNCHANGED <<row, cache, owned, closing>>

Check(a) ==
  /\ pc[a] = "check"
  /\ \/ \E d \in local[a].todo :
          \/ /\ Editable(a, d) /\ local' = [local EXCEPT ![a].todo = @ \ {d}]
             /\ UNCHANGED pc
          \/ ~Editable(a, d) /\ Return(a)
     \/ local[a].todo = {} /\ Goto(a, "store") /\ UNCHANGED local
  /\ UNCHANGED <<row, cache, owned, closing>>

\* A profile's drives go with it, those saved since included.
Stored(a) ==
  [d \in Drives |->
     IF local[a].op = "save" /\ d \in local[a].goal THEN local[a].target
     ELSE IF local[a].op = "delete" /\ d \in local[a].goal THEN "deleted"
     ELSE IF local[a].op = "profile" /\ Saved(d) THEN "deleted"
     ELSE row[d]]
Store(a) ==
  /\ pc[a] = "store" /\ Return(a)
  /\ \/ /\ local[a].op = "save" => \A d \in local[a].goal : Saved(d) /\ ~Busy(d)
        /\ row' = Stored(a)
     \/ UNCHANGED row
  /\ UNCHANGED <<cache, owned, closing>>

-----------------------------------------------------------------------------
(* The environment: applications, rclone, its file system and its writers *)

\* An application ends, after a shutdown or by a crash, and may start again.
\* Its handles are closed: leases are free and the job kills its children.
Ends(a) ==
  /\ (closing[a] /\ pc[a] = "idle") \/ "crash" \in Faults
  /\ Return(a)
  /\ closing' = [closing EXCEPT ![a] = FALSE]
  /\ mount' = [mount EXCEPT ![a] = [d \in Drives |-> NoMount]]
  /\ rclone' = [rclone EXCEPT ![a] = [d \in Drives |-> None]]
  /\ volume' = [volume EXCEPT ![a] = [d \in Drives |-> Orphan(volume[a][d])]]
  /\ lease' = [d \in Drives |-> IF lease[d] \in {a} \X {"mount", "look"} THEN None ELSE lease[d]]
  /\ UNCHANGED <<row, marker, unsent, seen>>

RcloneMounts(a, d) ==
  /\ volume[a][d] = "asked" /\ ~Busy(d)
  /\ volume' = [volume EXCEPT ![a][d] = "up"]
  /\ UNCHANGED <<row, cache, mount, rclone, closing, pc, local>>

RcloneDies(a, d) ==
  /\ {"die", "slow"} \cap Faults # {} /\ rclone[a][d] # None /\ Kill(a, d)
  /\ UNCHANGED <<row, cache, mount, closing, pc, local>>

VolumeGone(a, d) ==
  /\ volume[a][d] = "going" /\ volume' = [volume EXCEPT ![a][d] = "none"]
  /\ UNCHANGED <<row, cache, mount, rclone, closing, pc, local>>

WriterWrites(a, d) ==
  /\ Visible(a, d) /\ rclone[a][d] # None
  /\ unsent' = [unsent EXCEPT ![d] = rclone[a][d]]
  /\ UNCHANGED <<row, marker, lease, seen, owned, closing, pc, local>>

Upload(a, d) ==
  /\ rclone[a][d] # None /\ unsent[d] # None
  /\ unsent' = [unsent EXCEPT ![d] = None]
  /\ UNCHANGED <<row, marker, lease, seen, owned, closing, pc, local>>

-----------------------------------------------------------------------------
Enter(a) ==
  \/ \E d \in Drives : Connect(a, d) \/ Disconnect(a, d) \/ Delete(a, d)
  \/ \E d \in Drives, target \in Targets : Create(a, d, target) \/ Save(a, d, target)
  \/ DeleteProfile(a) \/ Shutdown(a)

Step(a) ==
  \/ Reuse(a) \/ TakeLease(a) \/ Bind(a) \/ Write(a) \/ Launch(a) \/ Await(a) \/ Mounting(a)
  \/ Stop(a) \/ StopUnowned(a) \/ StopFailed(a) \/ Reap(a) \/ StopMounted(a) \/ Drain(a)
  \/ Unmount(a) \/ Removal(a) \/ Quit(a) \/ Stopped(a) \/ Check(a) \/ Store(a)

Environment(a, d) ==
  \/ Look(a, d) \/ Looked(a, d) \/ RcloneMounts(a, d) \/ RcloneDies(a, d) \/ VolumeGone(a, d)
  \/ WriterWrites(a, d) \/ Upload(a, d)

Next == \E a \in Apps :
  /\ Enter(a) \/ Step(a) \/ Ends(a) \/ \E d \in Drives : Environment(a, d)
  /\ acted' = acted \cup {a}

Spec == Init /\ [][Next]_vars

-----------------------------------------------------------------------------
(* Properties *)

TypeOK ==
  /\ row \in [Drives -> Targets \cup {"unsaved", "deleted"}]
  /\ marker \in [Drives -> Targets \cup {None, "torn"}]
  /\ unsent \in [Drives -> Targets \cup {None}]
  /\ lease \in [Drives -> Holders] /\ seen \subseteq Drives
  /\ mount \in [Apps -> [Drives -> MountSet]]
  /\ rclone \in [Apps -> [Drives -> Targets \cup {None}]]
  /\ volume \in [Apps -> [Drives -> Volumes]]
  /\ closing \in [Apps -> BOOLEAN]
  /\ pc \in [Apps -> Labels] /\ local \in [Apps -> Locals]

\* "another owner's lease remains an error": two rclone processes never work on
\* one cache, however applications connect, crash and restart.
OneOwner == \A d \in Drives : \A a, b \in Apps :
  rclone[a][d] # None /\ rclone[b][d] # None => a = b

\* Files written for one target are never sent to another one.
UploadsWhereWritten == \A a \in Apps, d \in Drives :
  rclone[a][d] # None /\ unsent[d] # None => rclone[a][d] = unsent[d]

\* RELIABILITY.md: "Dirty/unknown cache and its target binding survive for
\* reconnect": unsent files are bound to their target, unless an interrupted
\* rewrite tore the binding; then nothing connects.
BoundOrTorn == \A d \in Drives : unsent[d] # None => marker[d] \in {unsent[d], "torn"}

\* Whatever is edited, and whatever crashes or fails, unsent files are sent to
\* where they were written for, or stay bound to it.
UnsentStaysBound == BoundOrTorn /\ UploadsWhereWritten

\* RELIABILITY.md: "Edit, delete, and profile deletion still reject pending
\* cache": a drive with unsent files stays as it was when they were written.
PendingKeepsItsDrive == \A d \in Drives : unsent[d] # None => row[d] = unsent[d]

\* RELIABILITY.md: "Failure to stop a live owned connection still blocks exit":
\* an application that is ready to exit has stopped every connection.
ExitIsClean == \A a \in Apps : closing[a] /\ pc[a] = "idle" =>
  \A d \in Drives : ~Owns(a, d) /\ rclone[a][d] = None

\* RELIABILITY.md: a stop waits "for drive removal" before it releases the lease.
\* It does unless an earlier stop unmounted the drive and gave up waiting.
LeavesNoVolume == [][
  \A a \in Apps, d \in Drives :
    (pc[a] = "quit" \/ (pc[a] = "reap" /\ mount[a][d].mounted))
      /\ pc'[a] = "stop" /\ Owns(a, d) /\ ~Owns(a, d)' => ~Visible(a, d)]_vars

\* connected_path hands a drive to the Explorer only while its file system is
\* there and shows the saved target, also when another drive has its letter.
ConnectedIsUsable == \A a \in Apps, d \in Drives :
  Status(a, d) = "connected" => volume[a][d] = "up" /\ rclone[a][d] = row[d]

\* As long as one application has the cache and the table to itself, these three
\* hold whatever fails in it.  With two, an edit or a deletion by one overtakes a
\* connection by the other; see the README.
DrivesOfOneApplication ==
  (\E a \in Apps : acted \subseteq {a}) =>
    PendingKeepsItsDrive /\ ConnectedIsUsable /\ ExitIsClean
=============================================================================
