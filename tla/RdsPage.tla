------------------------------- MODULE RdsPage -------------------------------
(***************************************************************************)
(* The GUI's RDS page, beside its editor: its flags, its two-second poll timer and the tasks  *)
(* it hands to the thread pool, from the first start to complete quit.     *)
(*                                                                         *)
(* A task is done in two steps: a worker makes the service call (Work...), *)
(* and later the GUI thread runs the callback with what the call returned  *)
(* (Deliver...).  Callbacks of different tasks come in any order.  The     *)
(* service is reduced to `table`, the tunnels RdsTunnelService owns; what  *)
(* the calls do below it is module Connections.                            *)
(***************************************************************************)
EXTENDS RdsEditor

CONSTANTS
  Tunnels,   \* operation ids of tunnels; each is started once
  Scenarios, \* what one behaviour may use: `tunnels` to start and `faults`, or
             \* the editor, with a number of presses and a user who is patient
  None       \* the operation id of a task that has none

\* "late": start_managed raises after it registered the tunnel.
\* "other": a task of the page other than start, stop and quit fails.
FaultKinds == {"late", "other"}

ASSUME RdsPageAssumption ==
  /\ Scenarios \subseteq [tunnels : SUBSET Tunnels, faults : SUBSET FaultKinds,
                         presses : Nat, patient : BOOLEAN]
  /\ None \notin Tunnels

VARIABLES
  starting,  \* _starting
  polling,   \* _poll_pending
  timer,     \* _poll_timer is active
  quitting,  \* _shutdown_requested
  retry,     \* a singleShot of shutdown is pending
  closed,    \* `completed` was called: the window closes
  tasks,     \* tasks submitted and not yet delivered
  table,     \* RdsTunnelService._managed
  ended,     \* tunnels of the table whose process ended or whose time is over
  fresh      \* operation ids not used yet

flags == <<busy, starting, polling, timer, relays, quitting, retry, closed>>
service == <<table, ended>>
vars == <<flags, tasks, service, fresh, scenario, editor>>

-----------------------------------------------------------------------------
(* Tasks *)

Kinds == {"start", "resume", "cancel", "poll", "stop", "stopAll", "save", "relays", "other"}
Results == {"none", "ok", "mfa", "ask", "failed", "cancelled", "some", "nothing"}

Task(kind, o, result) == [kind |-> kind, op |-> o, result |-> result]
TaskSet == [kind : Kinds, op : Tunnels \cup {None}, result : Results]

\* A start is one task after another: the start, then its resumption with a
\* code or without one.
Starts == {t \in tasks : t.kind \in {"start", "resume", "cancel"}}

Init ==
  /\ starting = FALSE /\ polling = FALSE /\ timer = FALSE
  /\ quitting = FALSE /\ retry = FALSE /\ closed = FALSE
  /\ tasks = {} /\ table = {} /\ ended = {}
  /\ scenario \in Scenarios /\ fresh = scenario.tunnels /\ presses = scenario.presses
  /\ EditorInit

\* refresh_active: one poll at a time, none while quitting; `rest` are the
\* tasks there are without it.
RefreshActive(rest) ==
  IF polling \/ quitting THEN tasks' = rest /\ UNCHANGED polling
  ELSE tasks' = rest \cup {Task("poll", None, "none")} /\ polling' = TRUE

-----------------------------------------------------------------------------
(* The user and the timers *)

\* start: a new operation id.
Begin(o, rest) ==
  /\ o \in fresh /\ fresh' = fresh \ {o}
  /\ starting' = TRUE /\ busy' = TRUE
  /\ tasks' = rest \cup {Task("start", o, "none")}
Start(o) ==
  /\ ~quitting /\ ~busy /\ relays /\ Begin(o, tasks)
  /\ UNCHANGED <<polling, timer, relays, quitting, retry, closed, service>>

\* toggle_connection with unsaved changes: saved first, then started.
SaveThenStart ==
  /\ ~busy /\ ~quitting /\ relays
  /\ busy' = TRUE
  /\ tasks' = tasks \cup {Task("save", None, "none")}
  /\ UNCHANGED <<starting, polling, timer, relays, quitting, retry, closed, service, fresh>>

\* stop_operation, also from the dashboard; the tunnel may be gone by now.
Stop(o) ==
  /\ o \in scenario.tunnels \ fresh /\ ~busy /\ ~closed
  /\ busy' = TRUE
  /\ tasks' = tasks \cup {Task("stop", o, "none")}
  /\ UNCHANGED <<starting, polling, timer, relays, quitting, retry, closed, service, fresh>>

\* set_profile: the relay list and the saved sessions of the profile, and a
\* poll.  Bound: profiles are changed one at a time.
Loading == {t \in tasks : t.kind \in {"relays", "other"}}
SetProfile ==
  /\ ~quitting /\ Loading = {} /\ relays' = FALSE
  /\ RefreshActive(tasks \cup {Task(kind, None, "none") : kind \in {"relays", "other"}})
  /\ UNCHANGED <<busy, starting, timer, quitting, retry, closed, service, fresh>>

TimerFires ==
  /\ timer /\ RefreshActive(tasks)
  /\ UNCHANGED <<busy, starting, timer, relays, quitting, retry, closed, service, fresh>>

\* shutdown: asks again in 50 ms while a start or a stop is in flight.
\* _snapshot: it does not look at them.
Waits_snapshot == FALSE
Waits == starting \/ busy

Shutdown ==
  /\ quitting' = TRUE /\ timer' = FALSE
  /\ retry' = Waits
  /\ tasks' = IF Waits THEN tasks ELSE tasks \cup {Task("stopAll", None, "none")}
  /\ UNCHANGED <<busy, starting, polling, relays, closed, service, fresh>>

Quit == ~quitting /\ Shutdown
Retry == retry /\ Shutdown

\* The MFA dialog: its code, or none.
Answer(t) ==
  /\ t.result = "ask"
  /\ \E kind \in {"resume", "cancel"} :
       tasks' = (tasks \ {t}) \cup {Task(kind, t.op, "none")}
  /\ UNCHANGED <<flags, service, fresh>>

-----------------------------------------------------------------------------
(* The workers: start_managed and resume, active_tunnels, stop, stop_all *)

Opens(t) == table' = table \cup {t.op} /\ UNCHANGED ended
Closes(gone) == table' = table \ gone /\ ended' = ended \ gone

\* What a call may return, and what it does to the table.
Call(t, result) ==
  \/ t.kind = "start" /\ result \in {"mfa", "failed"} /\ UNCHANGED service
  \/ t.kind = "resume" /\ result = "failed" /\ UNCHANGED service
  \/ t.kind \in {"start", "resume"} /\ result = "ok" /\ Opens(t)
  \/ t.kind \in {"start", "resume"} /\ result = "failed" /\ "late" \in scenario.faults /\ Opens(t)
  \/ t.kind = "cancel" /\ result = "cancelled" /\ UNCHANGED service
  \/ /\ t.kind = "poll" /\ Closes(ended)
     /\ result = IF table \ ended # {} THEN "some" ELSE "nothing"
  \/ t.kind = "stop" /\ t.op \in table /\ result \in {"ok", "failed"} /\ Closes({t.op})
  \/ t.kind = "stop" /\ t.op \notin table /\ result = "failed" /\ UNCHANGED service
  \/ t.kind = "stopAll" /\ result \in {"ok", "failed"} /\ Closes(table)
  \/ t.kind \in {"save", "relays", "other"} /\ result = "ok" /\ UNCHANGED service
  \/ t.kind = "save" /\ result = "failed" /\ UNCHANGED service
  \/ t.kind \in {"poll", "relays", "other"} /\ result = "failed" /\ "other" \in scenario.faults /\ UNCHANGED service

Work(t) ==
  /\ t.result = "none"
  /\ \E result \in Results :
       /\ Call(t, result)
       /\ tasks' = (tasks \ {t}) \cup {Task(t.kind, t.op, result)}
  /\ UNCHANGED <<flags, fresh>>

\* A tunnel's process ends by itself, or its time is over.
Ends(o) ==
  /\ o \in table \ ended /\ ended' = ended \cup {o}
  /\ UNCHANGED <<flags, tasks, table, fresh>>

-----------------------------------------------------------------------------
(* The callbacks, on the GUI thread *)

Done(t, kinds, results) ==
  t \in tasks /\ t.kind \in kinds /\ t.result \in results

\* _start_result asks for the code, unless the page is shutting down.
DeliverChallenge(t) ==
  /\ Done(t, {"start"}, {"mfa"})
  /\ tasks' = (tasks \ {t}) \cup
       {IF quitting THEN Task("cancel", t.op, "none") ELSE Task("start", t.op, "ask")}
  /\ UNCHANGED <<flags, service, fresh>>

DeliverStarted(t) ==
  /\ Done(t, {"start", "resume"}, {"ok"})
  /\ starting' = FALSE /\ busy' = FALSE /\ timer' = TRUE
  /\ RefreshActive(tasks \ {t})
  /\ UNCHANGED <<relays, quitting, retry, closed, service, fresh>>

\* _start_result of a start that was cancelled or failed, and _start_failed.
\* _keeps: a cancelled start leaves _starting set.
DeliverNotStarted_keeps(t) ==
  /\ Done(t, {"start", "resume", "cancel"}, {"cancelled", "failed"})
  /\ starting' = (t.result = "cancelled") /\ busy' = FALSE
  /\ tasks' = tasks \ {t}
  /\ UNCHANGED <<polling, timer, relays, quitting, retry, closed, service, fresh>>
DeliverNotStarted(t) ==
  /\ Done(t, {"start", "resume", "cancel"}, {"cancelled", "failed"})
  /\ starting' = FALSE /\ busy' = FALSE
  /\ tasks' = tasks \ {t}
  /\ UNCHANGED <<polling, timer, relays, quitting, retry, closed, service, fresh>>

\* _active_loaded: the timer runs as long as the poll saw a tunnel run.
DeliverPoll(t) ==
  /\ Done(t, {"poll"}, {"some", "nothing"})
  /\ polling' = FALSE
  /\ timer' = (t.result = "some" /\ ~quitting)
  /\ tasks' = tasks \ {t}
  /\ UNCHANGED <<busy, starting, relays, quitting, retry, closed, service, fresh>>

DeliverStopped(t) ==
  /\ Done(t, {"stop"}, {"ok"})
  /\ busy' = FALSE /\ RefreshActive(tasks \ {t})
  /\ UNCHANGED <<starting, timer, relays, quitting, retry, closed, service, fresh>>

\* _failed, of any task but a start: the connection is not busy any more.
DeliverFailed(t) ==
  /\ Done(t, {"poll", "stop", "save", "relays", "other"}, {"failed"})
  /\ busy' = FALSE /\ polling' = (polling /\ t.kind # "poll")
  /\ tasks' = tasks \ {t}
  /\ UNCHANGED <<starting, timer, relays, quitting, retry, closed, service, fresh>>

\* _saved_then_start: start looks at its conditions again.
DeliverSaved(t) ==
  /\ Done(t, {"save"}, {"ok"})
  /\ \/ ~quitting /\ relays /\ \E o \in fresh : Begin(o, tasks \ {t})
     \/ /\ quitting \/ ~relays \/ fresh = {}
        /\ busy' = FALSE /\ tasks' = tasks \ {t} /\ UNCHANGED <<starting, fresh>>
  /\ UNCHANGED <<polling, timer, relays, quitting, retry, closed, service>>

DeliverOther(t) ==
  /\ Done(t, {"relays", "other"}, {"ok"})
  /\ relays' = (relays \/ t.kind = "relays")
  /\ tasks' = tasks \ {t}
  /\ UNCHANGED <<busy, starting, polling, timer, quitting, retry, closed, service, fresh>>

\* The tunnels are stopped, or the failure was shown: the window closes.
DeliverStoppedAll(t) ==
  /\ Done(t, {"stopAll"}, {"ok", "failed"})
  /\ closed' = TRUE /\ tasks' = tasks \ {t}
  /\ UNCHANGED <<busy, starting, polling, timer, relays, quitting, retry, service, fresh>>

Deliver(t) ==
  \/ DeliverChallenge(t) \/ DeliverStarted(t) \/ DeliverNotStarted(t) \/ DeliverPoll(t)
  \/ DeliverStopped(t) \/ DeliverFailed(t) \/ DeliverSaved(t) \/ DeliverOther(t)
  \/ DeliverStoppedAll(t)

Press ==
  \/ \E o \in Tunnels : Start(o) \/ Stop(o)
  \/ SaveThenStart \/ SetProfile \/ Quit

Connecting == scenario.tunnels # {} /\ UNCHANGED <<scenario, editor>>
Editing ==
  /\ scenario.tunnels = {}
  /\ UNCHANGED <<starting, polling, timer, quitting, retry, closed, tasks, service, fresh, scenario>>

Next ==
  \/ Connecting /\ (Press \/ TimerFires \/ Retry)
  \/ Connecting /\ \E t \in tasks : Work(t) \/ Deliver(t) \/ Answer(t)
  \/ Connecting /\ \E o \in Tunnels : Ends(o)
  \/ EditorNext /\ Editing

Spec == Init /\ [][Next]_vars

\* The calls that a connection is made of return, their callbacks run and the
\* dialog is answered.  The timer of shutdown fires every 50 ms: a user does not
\* stop one tunnel after another that fast.
Advance(t) == Connecting /\ (Work(t) \/ Deliver(t) \/ Answer(t))
FairSpec ==
  /\ Spec
  /\ \A kind \in Kinds \ {"poll", "relays", "other"} :
       WF_vars(\E t \in tasks : t.kind = kind /\ Advance(t))
  /\ SF_vars(Connecting /\ Retry /\ ~Waits)

-----------------------------------------------------------------------------
(* Properties *)

\* RELIABILITY.md: "explicit quit waits for in-flight starts (cancelling pending
\* MFA), then invokes the existing process/SSM cleanup for all profiles": when the
\* window closes no tunnel is left and none can come.
QuitLeavesNothing == closed => table = {} /\ Starts = {}

\* One poll is in flight at most (it waits for the lock of the tunnels for as
\* long as a cleanup takes), whatever the timer, a profile change or a stop does;
\* and, as long as no task but a start fails, one connection is made at a time,
\* the flags that keep the buttons shut are set for as long as a task of it is
\* under way, and so complete quit leaves nothing behind.
QuitIsComplete ==
  /\ LET polls == {t \in tasks : t.kind = "poll"} IN
       polling = (polls # {}) /\ Cardinality(polls) <= 1
  /\ "other" \notin scenario.faults =>
       /\ Cardinality(Starts) <= 1 /\ (Starts # {} => starting /\ busy)
       /\ QuitLeavesNothing

\* The window closes in the end, whatever is in flight when the user quits and
\* whatever is answered to the MFA dialog.
QuitCompletes == quitting ~> closed
=============================================================================
