----------------------------- MODULE Connections -----------------------------
(***************************************************************************)
(* SSM connections of one process: the ManagedSsmSessionRunner (table      *)
(* `owned`), and above it the GUI's RDS tunnels (RdsTunnelService, table   *)
(* `managed`), the EC2 terminals (Ec2Service, table `external`), the       *)
(* foreground sessions of the CLI, and the deletion of a profile with its  *)
(* connections (ProfileConnectionLifecycleService).                        *)
(*                                                                         *)
(* A connection is one operation id: a session in AWS and the Session      *)
(* Manager Plugin process on its end.  The runner does status and stop     *)
(* wholly under its lock; they are one step each.                          *)
(***************************************************************************)
EXTENDS Naturals, FiniteSets

CONSTANTS
  Callers,    \* threads of the process
  Tunnels,    \* operation ids of RDS tunnels
  Terminals,  \* operation ids of EC2 external terminals
  Runs,       \* operation ids of foreground sessions
  Profiles,
  Scenarios,  \* what a behaviour may use: `ops` to connect and `faults` of FaultKinds
  Nobody      \* the holder of a free lock, the owner of an unused operation id

Managed == Tunnels \cup Terminals
Ops == Managed \cup Runs

\* "end": EndSession fails.  "stop": a plugin process survives terminate and
\* kill.  "poll": its state cannot be read.  "observer": the progress reporter
\* of a connecting caller raises.
FaultKinds == {"end", "stop", "poll", "observer"}

ASSUME ConnectionsAssumption ==
  /\ Tunnels \cap Terminals = {} /\ Managed \cap Runs = {}
  /\ Scenarios \subseteq [ops : SUBSET Ops, faults : SUBSET FaultKinds]
  /\ Profiles # {} /\ Callers # {}
  /\ Nobody \notin Profiles \cup Callers \cup Ops

VARIABLES
  aws,        \* the session in AWS
  proc,       \* the plugin process: running, or how it ended
  owned,      \* ManagedSsmSessionRunner._owned
  managed,    \* RdsTunnelService._managed
  external,   \* Ec2Service._external
  due,        \* tunnels past expires_at
  profiles,   \* profiles in the store
  owner,      \* the profile an operation id is for
  tunnelLock, \* RdsTunnelService._managed_lock
  deleteLock, \* ProfileConnectionLifecycleService._lock
  pc, local,  \* where each caller is, and its local variables
  ends,       \* history: EndSession requests made
  stuck,      \* history: processes whose stop was reported as failed
  outcome,    \* history: how the runner said a connection ended
  records,    \* history: session_end entries in the execution log
  scenario    \* the connections and the faults of this behaviour

remote == <<aws, ends>>
process == <<proc, stuck>>
tables == <<owned, managed, external, due>>
logs == <<outcome, records>>
vars == <<remote, process, tables, profiles, owner, tunnelLock, deleteLock, pc, local, logs,
          scenario>>

-----------------------------------------------------------------------------
(* Data *)

Labels ==
  {"idle", "prepare", "session", "launch", "own", "announce", "register",
   "wait", "close", "reap", "note", "watchLock", "watch", "halt", "halting", "forget",
   "drainLock", "drain", "drop"}

Outcomes == {"none", "success", "failure"}

Locals ==
  [op : Ops \cup {Nobody}, prof : Profiles \cup {Nobody},  \* Nobody: all profiles
   todo : SUBSET Ops,                    \* what a loop has still to visit
   known : SUBSET Ops,                   \* history: tracked when a deletion began
   stopActive : BOOLEAN, active : BOOLEAN, failed : BOOLEAN,
   got : Outcomes \cup {"running"}]

Blank == [op |-> Nobody, prof |-> Nobody, todo |-> {}, known |-> {},
          stopActive |-> FALSE, active |-> FALSE, failed |-> FALSE, got |-> "none"]

Of(table, p) == {o \in table : p = Nobody \/ owner[o] = p}

Goto(c, label) == pc' = [pc EXCEPT ![c] = label]
Return(c) == Goto(c, "idle") /\ local' = [local EXCEPT ![c] = Blank]

Init ==
  /\ scenario \in Scenarios
  /\ aws = [o \in Ops |-> "none"] /\ ends = [o \in Ops |-> 0]
  /\ proc = [o \in Ops |-> "none"] /\ stuck = {}
  /\ owned = {} /\ managed = {} /\ external = {} /\ due = {}
  /\ profiles = Profiles
  /\ owner = [o \in Ops |-> Nobody]
  /\ tunnelLock = Nobody /\ deleteLock = Nobody
  /\ pc = [c \in Callers |-> "idle"] /\ local = [c \in Callers |-> Blank]
  /\ outcome = [o \in Managed |-> "none"]
  /\ records = [o \in Terminals |-> [success |-> 0, failure |-> 0]]

-----------------------------------------------------------------------------
(* ManagedSsmSessionRunner *)

\* The request to AWS; a session whose end was refused stays open there.
EndSession(o, ok) ==
  /\ ok \/ "end" \in scenario.faults
  /\ aws' = IF ok THEN [aws EXCEPT ![o] = "ended"] ELSE aws
  /\ ends' = [ends EXCEPT ![o] = @ + 1]

\* _end_once: `ended` is set before the request is made.
EndOnce(o, ok) ==
  IF ends[o] = 0 THEN EndSession(o, ok) ELSE ok /\ UNCHANGED remote

\* _stop_process: terminate, then kill, each with a bounded wait.  After an
\* exception the stop is reported as failed, whether or not the kill worked.
StopProcess(o, ok) ==
  \/ proc[o] # "running" /\ ok /\ UNCHANGED process
  \/ /\ proc[o] = "running" /\ (ok \/ "stop" \in scenario.faults)
     /\ proc' = [proc EXCEPT ![o] = "killed"]
     /\ UNCHANGED stuck
  \/ /\ proc[o] = "running" /\ ~ok /\ "stop" \in scenario.faults
     /\ stuck' = stuck \cup {o}
     /\ UNCHANGED proc

Reclaim(o, died, answered) ==
  /\ StopProcess(o, died)
  /\ EndOnce(o, answered)
  /\ owned' = owned \ {o}

Conclude(o, result) == outcome' = [outcome EXCEPT ![o] = result]

RunnerStop(o, error) ==
  \/ o \notin owned /\ error /\ UNCHANGED <<remote, process, owned, outcome>>
  \/ \E died, answered \in BOOLEAN :
       /\ o \in owned
       /\ Reclaim(o, died, answered)
       /\ ~died \/ ~answered \/ proc[o] = "crashed" => error
       /\ error => ~died \/ ~answered \/ proc[o] = "crashed" \/ "poll" \in scenario.faults
       /\ Conclude(o, IF error THEN "failure" ELSE "success")

\* A terminal that ended well has only a warning when its EndSession fails.
RunnerStatus(o, got) ==
  \/ o \notin owned /\ got = "failure" /\ UNCHANGED <<remote, process, owned, outcome>>
  \/ /\ o \in owned /\ proc[o] = "running" /\ got = "running"
     /\ UNCHANGED <<remote, process, owned, outcome>>
  \/ \E answered \in BOOLEAN :
       /\ o \in owned /\ proc[o] # "running"
       /\ Reclaim(o, TRUE, answered)
       /\ got = IF proc[o] = "clean" /\ (answered \/ o \in Terminals)
                THEN "success" ELSE "failure"
       /\ Conclude(o, got)
  \/ \E died, answered \in BOOLEAN :
       /\ o \in owned /\ "poll" \in scenario.faults /\ got = "failure"
       /\ Reclaim(o, died, answered)
       /\ Conclude(o, got)

-----------------------------------------------------------------------------
(* Connecting: start_managed, connect_external and the foreground run *)

Connect(c, o, p) ==
  /\ pc[c] = "idle" /\ owner[o] = Nobody
  /\ Goto(c, "prepare")
  /\ local' = [local EXCEPT ![c].op = o]
  /\ owner' = [owner EXCEPT ![o] = p]
  /\ UNCHANGED <<remote, process, tables, profiles, tunnelLock, deleteLock, logs>>

\* The profile, its credentials and the target are looked up once; nothing has
\* been started when that fails.
Prepare(c) ==
  /\ pc[c] = "prepare"
  /\ \/ owner[local[c].op] \in profiles /\ Goto(c, "session") /\ UNCHANGED local
     \/ Return(c)
  /\ UNCHANGED <<remote, process, tables, profiles, owner, tunnelLock, deleteLock, logs>>

StartSession(c) ==
  /\ pc[c] = "session"
  /\ \/ /\ aws' = [aws EXCEPT ![local[c].op] = "open"]
        /\ Goto(c, "launch") /\ UNCHANGED local
     \/ Return(c) /\ UNCHANGED aws
  /\ UNCHANGED <<ends, process, tables, profiles, owner, tunnelLock, deleteLock, logs>>

\* A launch that fails or is cancelled ends the session.  _unended: it is left.
Launched(c) ==
  LET o == local[c].op IN
  /\ proc' = [proc EXCEPT ![o] = "running"]
  /\ Goto(c, IF o \in Runs THEN "wait" ELSE "own")
  /\ UNCHANGED <<remote, local>>
Launch_unended(c) ==
  /\ pc[c] = "launch"
  /\ Launched(c) \/ (Return(c) /\ UNCHANGED <<remote, proc>>)
  /\ UNCHANGED <<stuck, tables, profiles, owner, tunnelLock, deleteLock, logs>>
Launch(c) ==
  /\ pc[c] = "launch"
  /\ \/ Launched(c)
     \/ \E ok \in BOOLEAN : EndSession(local[c].op, ok) /\ Return(c) /\ UNCHANGED proc
  /\ UNCHANGED <<stuck, tables, profiles, owner, tunnelLock, deleteLock, logs>>

Own(c) ==
  /\ pc[c] = "own"
  /\ owned' = owned \cup {local[c].op}
  /\ Goto(c, "announce")
  /\ UNCHANGED <<remote, process, managed, external, due, profiles, owner, tunnelLock,
                 deleteLock, local, logs>>

\* A raising observer gives the connection up.  _kept: the runner keeps it.
Announce_kept(c) ==
  /\ pc[c] = "announce"
  /\ \/ Goto(c, "register") /\ UNCHANGED local
     \/ "observer" \in scenario.faults /\ Return(c)
  /\ UNCHANGED <<remote, process, tables, profiles, owner, tunnelLock, deleteLock, logs>>
Announce(c) ==
  /\ pc[c] = "announce"
  /\ \/ Goto(c, "register") /\ UNCHANGED <<remote, process, owned, outcome, local>>
     \/ /\ "observer" \in scenario.faults
        /\ \E error \in BOOLEAN : RunnerStop(local[c].op, error)
        /\ Return(c)
  /\ UNCHANGED <<managed, external, due, profiles, owner, tunnelLock, deleteLock, records>>

Register(c) ==
  LET o == local[c].op IN
  /\ pc[c] = "register"
  /\ \/ /\ o \in Tunnels /\ tunnelLock = Nobody
        /\ managed' = managed \cup {o} /\ UNCHANGED external
     \/ o \in Terminals /\ external' = external \cup {o} /\ UNCHANGED managed
  /\ Return(c)
  /\ UNCHANGED <<remote, process, owned, due, profiles, owner, tunnelLock, deleteLock, logs>>

\* ForegroundSsmSessionRunner: the caller waits for the plugin ...
Wait(c) ==
  /\ pc[c] = "wait" /\ proc[local[c].op] # "running"
  /\ Goto(c, "close")
  /\ UNCHANGED <<remote, process, tables, profiles, owner, tunnelLock, deleteLock, local, logs>>

\* ... or stops it: the time of a tunnel is over, or the user interrupts.
\* _ending: the handler ends the session itself.
Interrupt_ending(c) ==
  /\ pc[c] = "wait"
  /\ \E ok \in BOOLEAN : StopProcess(local[c].op, ok) /\ EndSession(local[c].op, TRUE)
  /\ Goto(c, "close")
  /\ UNCHANGED <<tables, profiles, owner, tunnelLock, deleteLock, local, logs>>
Interrupt(c) ==
  /\ pc[c] = "wait"
  /\ \E ok \in BOOLEAN : StopProcess(local[c].op, ok)
  /\ Goto(c, "close")
  /\ UNCHANGED <<remote, tables, profiles, owner, tunnelLock, deleteLock, local, logs>>

Close(c) ==
  /\ pc[c] = "close"
  /\ \E ok \in BOOLEAN : EndSession(local[c].op, ok)
  /\ Return(c)
  /\ UNCHANGED <<process, tables, profiles, owner, tunnelLock, deleteLock, logs>>

-----------------------------------------------------------------------------
(* RdsTunnelService: active_tunnels, stop and stop_all, under one lock *)

Poll(c) ==
  /\ pc[c] = "idle" /\ Goto(c, "watchLock")
  /\ UNCHANGED <<remote, process, tables, profiles, owner, tunnelLock, deleteLock, local, logs>>

StopTunnel(c, o) ==
  /\ pc[c] = "idle" /\ owner[o] # Nobody /\ Goto(c, "drainLock")
  /\ local' = [local EXCEPT ![c].op = o]
  /\ UNCHANGED <<remote, process, tables, profiles, owner, tunnelLock, deleteLock, logs>>

StopAll(c) ==
  /\ pc[c] = "idle" /\ Goto(c, "drainLock")
  /\ UNCHANGED <<remote, process, tables, profiles, owner, tunnelLock, deleteLock, local, logs>>

TakeLock(c) ==
  /\ tunnelLock = Nobody /\ tunnelLock' = c
  /\ \/ pc[c] = "watchLock" /\ Goto(c, "watch")
     \/ pc[c] = "drainLock" /\ Goto(c, "drain")
  /\ local' = [local EXCEPT ![c].todo = IF local[c].op # Nobody THEN {local[c].op}
                                        ELSE Of(managed, local[c].prof)]
  /\ UNCHANGED <<remote, process, tables, profiles, owner, deleteLock, logs>>

\* A visit of o by the loop of c: what it observed goes into the loop's verdict.
\* _unseen: a running connection does not count as active.
Visited_unseen(c, o, running, failure) ==
  local' = [local EXCEPT ![c].todo = @ \ {o}, ![c].failed = @ \/ failure]
Visited(c, o, running, failure) ==
  local' = [local EXCEPT ![c].todo = @ \ {o}, ![c].active = @ \/ running,
                         ![c].failed = @ \/ failure]

\* An overdue tunnel is stopped; any other is polled and dropped once it ended.
Untrack(o, got) == IF got = "running" THEN managed ELSE managed \ {o}

Watch(c) ==
  /\ pc[c] = "watch"
  /\ \E o \in local[c].todo :
       \/ \E error \in BOOLEAN :
            /\ o \in due /\ RunnerStop(o, error)
            /\ managed' = managed \ {o}
            /\ Visited(c, o, FALSE, error)
       \/ \E got \in {"running", "success", "failure"} :
            /\ o \notin due /\ RunnerStatus(o, got)
            /\ managed' = Untrack(o, got)
            /\ Visited(c, o, got = "running", got = "failure")
  /\ UNCHANGED <<external, due, profiles, owner, tunnelLock, deleteLock, pc, records>>

Drain(c) ==
  /\ pc[c] = "drain"
  /\ \E o \in local[c].todo :
       \/ /\ o \notin managed /\ Visited(c, o, FALSE, TRUE)
          /\ UNCHANGED <<remote, process, owned, managed, outcome>>
       \/ \E error \in BOOLEAN :
            /\ o \in managed /\ RunnerStop(o, error)
            /\ managed' = managed \ {o}
            /\ Visited(c, o, FALSE, error)
  /\ UNCHANGED <<external, due, profiles, owner, tunnelLock, deleteLock, pc, records>>

-----------------------------------------------------------------------------
(* Ec2Service: reap_external_sessions and stop_external_for_profile *)

Reap(c) ==
  /\ pc[c] = "idle" /\ Goto(c, "reap")
  /\ local' = [local EXCEPT ![c].todo = external]
  /\ UNCHANGED <<remote, process, tables, profiles, owner, tunnelLock, deleteLock, logs>>

ReapNext(c) ==
  /\ pc[c] = "reap"
  /\ \E o \in local[c].todo, got \in {"running", "success", "failure"} :
       /\ RunnerStatus(o, got)
       /\ local' = [local EXCEPT ![c].op = o, ![c].got = got]
  /\ Goto(c, "note")
  /\ UNCHANGED <<managed, external, due, profiles, owner, tunnelLock, deleteLock, records>>

\* The caller that removes the entry writes the record.
Removes(o) == o \in external

Note(c) ==
  LET o == local[c].op
      got == local[c].got
      ours == owner[o] = local[c].prof IN
  /\ pc[c] = "note"
  /\ external' = IF got = "running" THEN external ELSE external \ {o}
  /\ records' = IF got # "running" /\ Removes(o)
                THEN [records EXCEPT ![o][got] = @ + 1] ELSE records
  /\ Goto(c, "reap")
  /\ Visited(c, o, ours /\ got = "running", ours /\ got = "failure")
  /\ UNCHANGED <<remote, process, owned, managed, due, profiles, owner, tunnelLock,
                 deleteLock, outcome>>

Halt(c) ==
  /\ pc[c] = "halt"
  /\ \E o \in local[c].todo :
       \/ o \notin external /\ Visited(c, o, FALSE, TRUE) /\ UNCHANGED pc
       \/ /\ o \in external /\ Goto(c, "halting")
          /\ local' = [local EXCEPT ![c].op = o]
  /\ UNCHANGED <<remote, process, tables, profiles, owner, tunnelLock, deleteLock, logs>>

Halting(c) ==
  /\ pc[c] = "halting" /\ Goto(c, "forget")
  /\ \E error \in BOOLEAN :
       RunnerStop(local[c].op, error) /\ Visited(c, local[c].op, FALSE, error)
  /\ UNCHANGED <<managed, external, due, profiles, owner, tunnelLock, deleteLock, records>>

Forget(c) ==
  /\ pc[c] = "forget" /\ Goto(c, "halt")
  /\ external' = external \ {local[c].op}
  /\ UNCHANGED <<remote, process, owned, managed, due, profiles, owner, tunnelLock,
                 deleteLock, local, logs>>

-----------------------------------------------------------------------------
(* ProfileConnectionLifecycleService.delete, and the ends of the loops *)

Deleting(c) == deleteLock = c

Delete(c, p, stopActive) ==
  /\ pc[c] = "idle" /\ deleteLock = Nobody /\ p \in profiles
  /\ deleteLock' = c
  /\ Goto(c, "reap")
  /\ local' = [local EXCEPT ![c].prof = p, ![c].todo = external,
                            ![c].known = Of(managed \cup external, p),
                            ![c].stopActive = stopActive]
  /\ UNCHANGED <<remote, process, tables, profiles, owner, tunnelLock, logs>>

Done(c, label) == pc[c] = label /\ local[c].todo = {}

GiveUp(c) == Return(c) /\ deleteLock' = Nobody

\* Both kinds of connection are observed before a failure is raised.
ReapDone(c) ==
  /\ Done(c, "reap")
  /\ IF Deleting(c) THEN Goto(c, "watchLock") /\ local' = [local EXCEPT ![c].op = Nobody]
     ELSE Return(c)
  /\ UNCHANGED <<remote, process, tables, profiles, owner, tunnelLock, deleteLock, logs>>

\* Leaving `with self._managed_lock`.  _leaked: release skipped.
Unlock_leaked == UNCHANGED tunnelLock
Unlock == tunnelLock' = Nobody

WatchDone(c) ==
  /\ Done(c, "watch") /\ Unlock
  /\ \/ ~Deleting(c) /\ Return(c) /\ UNCHANGED deleteLock
     \/ /\ Deleting(c)
        /\ local[c].failed \/ (local[c].active /\ ~local[c].stopActive)
        /\ GiveUp(c)
     \/ /\ Deleting(c) /\ ~local[c].failed /\ local[c].active /\ local[c].stopActive
        /\ Goto(c, "halt")
        /\ local' = [local EXCEPT ![c].todo = Of(external, local[c].prof)]
        /\ UNCHANGED deleteLock
     \/ /\ Deleting(c) /\ ~local[c].failed /\ ~local[c].active
        /\ Goto(c, "drop") /\ UNCHANGED <<local, deleteLock>>
  /\ UNCHANGED <<remote, process, tables, profiles, owner, logs>>

HaltDone(c) ==
  /\ Done(c, "halt") /\ Goto(c, "drainLock")
  /\ local' = [local EXCEPT ![c].op = Nobody]
  /\ UNCHANGED <<remote, process, tables, profiles, owner, tunnelLock, deleteLock, logs>>

\* Both kinds are stopped before a failure is raised.
DrainDone(c) ==
  /\ Done(c, "drain") /\ Unlock
  /\ \/ ~Deleting(c) /\ Return(c) /\ UNCHANGED deleteLock
     \/ Deleting(c) /\ local[c].failed /\ GiveUp(c)
     \/ Deleting(c) /\ ~local[c].failed /\ Goto(c, "drop") /\ UNCHANGED <<local, deleteLock>>
  /\ UNCHANGED <<remote, process, tables, profiles, owner, logs>>

\* The profile's row goes, unless its drives or the store refuse.
Drop(c) ==
  /\ pc[c] = "drop" /\ GiveUp(c)
  /\ profiles' \in {profiles, profiles \ {local[c].prof}}
  /\ UNCHANGED <<remote, process, tables, owner, tunnelLock, logs>>

-----------------------------------------------------------------------------
(* The plugin ends by itself; a tunnel gets past its expires_at *)

ProcessExits(o) ==
  /\ proc[o] = "running"
  /\ \E how \in {"clean", "crashed"} : proc' = [proc EXCEPT ![o] = how]
  /\ UNCHANGED <<remote, stuck, tables, profiles, owner, tunnelLock, deleteLock, pc, local, logs>>

Expire(o) ==
  /\ o \in managed \ due /\ due' = due \cup {o}
  /\ UNCHANGED <<remote, process, owned, managed, external, profiles, owner, tunnelLock,
                 deleteLock, pc, local, logs>>

Enter(c) ==
  \/ \E o \in scenario.ops, p \in Profiles : Connect(c, o, p)
  \/ Poll(c) \/ Reap(c) \/ StopAll(c)
  \/ \E o \in Tunnels : StopTunnel(c, o)
  \/ \E p \in Profiles, stopActive \in BOOLEAN : Delete(c, p, stopActive)

Step(c) ==
  \/ Prepare(c) \/ StartSession(c) \/ Launch(c) \/ Own(c) \/ Announce(c) \/ Register(c)
  \/ Wait(c) \/ Close(c)
  \/ TakeLock(c) \/ Watch(c) \/ WatchDone(c) \/ Drain(c) \/ DrainDone(c)
  \/ ReapNext(c) \/ Note(c) \/ ReapDone(c)
  \/ Halt(c) \/ Halting(c) \/ Forget(c) \/ HaltDone(c) \/ Drop(c)

Next ==
  /\ UNCHANGED scenario
  /\ \/ \E c \in Callers : Enter(c) \/ Step(c) \/ Interrupt(c)
     \/ \E o \in Ops : ProcessExits(o)
     \/ \E o \in Tunnels : Expire(o)

Spec == Init /\ [][Next]_vars

\* Threads run and calls to AWS return; a thread that waits for the lock of the
\* tunnels (all it can do then is take it) gets it in the end.
FairSpec == Spec /\ \A c \in Callers : SF_vars(Step(c) /\ UNCHANGED scenario)

-----------------------------------------------------------------------------
(* Properties *)

\* "even a failing request is attempted once", and "EC2 records each reaped
\* outcome once": whatever fails, and whoever polls, stops, reaps, interrupts or
\* deletes at once, a session is ended once and a terminal's end recorded once.
EndedOnce ==
  /\ \A o \in Ops : ends[o] <= 1
  /\ \A o \in Terminals : records[o].success + records[o].failure <= 1

Holds(c, o, labels) == local[c].op = o /\ pc[c] \in labels

\* The runner has the operation, or a caller is starting or closing it.
InCare(o) ==
  o \in owned \/ \E c \in Callers : Holds(c, o, {"launch", "own", "wait", "close"})

\* RELIABILITY.md: "On cancel, failure, or normal exit, owned plugin processes
\* and SSM sessions are cleaned up".  An open session that nobody has tried to
\* end, and a running plugin whose stop did not fail, are in somebody's care.
\* What the runner owns a service polls, else it would be kept for ever; and as
\* poll, stop and stop_all hold one lock until the cleanup is complete, a tunnel
\* in the table is owned by the runner whenever that lock is free.
NothingLeaks ==
  /\ \A o \in Ops :
       /\ aws[o] = "open" /\ ends[o] = 0 => InCare(o)
       /\ proc[o] = "running" /\ o \notin stuck => InCare(o)
  /\ \A o \in owned :
       \/ o \in managed \cup external
       \/ \E c \in Callers : Holds(c, o, {"announce", "register"})
  /\ tunnelLock = Nobody => managed \subseteq owned

\* "never removes the profile when observation or cleanup is incomplete": every
\* connection that was tracked when the deletion began is down when the profile
\* goes, unless its plugin has survived a stop, after which nothing tracks it.
DeletesWhenClean == [][
  \A c \in Callers : pc[c] = "drop" /\ profiles' # profiles =>
    \A o \in local[c].known \ stuck : proc[o] # "running"]_vars

\* Deletions, polls, stops and starts never wait for each other for ever; only a
\* foreground session lasts as long as its plugin.
CallsReturn == \A c \in Callers : pc[c] \notin {"idle", "wait"} ~> pc[c] \in {"idle", "wait"}

\* RELIABILITY.md: "EC2 records each reaped outcome": the record says how the
\* connection ended.
RecordsTheOutcome == \A o \in Terminals : records[o].failure > 0 => outcome[o] = "failure"
=============================================================================
