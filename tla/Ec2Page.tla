------------------------------- MODULE Ec2Page -------------------------------
(***************************************************************************)
(* The GUI's EC2 page: the list of instances of one profile and region,    *)
(* the instances it has started and follows until a shell can be opened,   *)
(* the external terminals and the timer that asks after them.              *)
(*                                                                         *)
(* A task is done in two steps: a worker makes the service call (Work),    *)
(* and later the GUI thread runs the callback (the actions named after     *)
(* it).  Callbacks of different tasks come in any order.  What the calls   *)
(* do to AWS sessions and processes is module Connections.                 *)
(***************************************************************************)
EXTENDS Naturals, FiniteSets

CONSTANTS
  Profiles, Regions,
  Instances,    \* instance ids, each of one profile and region
  Scope(_),     \* the profile and region of an instance
  Stopped,      \* the instances that do not run at first
  Terminals,    \* operation ids of terminals; each is opened once
  None,         \* no profile, no instance, no terminal
  MaxChanges,   \* bound: changes of the profile and of the region's text
  MaxTasks      \* bound: tasks in flight when the user or the poll timer adds one

ASSUME Ec2PageAssumption ==
  /\ None \notin Profiles \cup Instances \cup Terminals
  /\ \A i \in Instances : Scope(i) \in Profiles \X Regions
  /\ Stopped \subseteq Instances
  /\ {MaxChanges, MaxTasks} \subseteq Nat

VARIABLES
  profile, region,  \* _profile_id, _region
  text,             \* what the region's combo box says
  busy,             \* _action_busy
  refresh,          \* refresh_button is enabled
  view,             \* rows: _targets; starting: _starting_targets;
                    \* pending: the keys of _pending_until; timer: _instance_timer
  age,              \* how long ago a pending instance was started
  poll,             \* _poll_timer is active
  tasks,            \* tasks submitted and not yet delivered
  fresh,            \* terminals not opened yet
  external,         \* Ec2Service._external
  over,             \* terminals of it whose process has ended
  cloud,            \* the instances, as AWS has them
  erred,            \* history: an error was shown while an instance was followed
  changes

place   == <<profile, region, text>>
service == <<external, over, cloud>>
vars == <<place, busy, refresh, view, age, poll, tasks, fresh, service, erred, changes>>

\* "pending": started, and not yet both running and Online in SSM; "ready": both.
States == {"absent", "stopped", "pending", "ready"}
Nothing == [i \in Instances |-> "absent"]
Blank == [rows |-> Nothing, starting |-> Nothing, pending |-> {}, timer |-> FALSE]

\* A load of the list is live until the next one is begun: _load_revision.
Task(kind, scope, item) ==
  [kind |-> kind, scope |-> scope, item |-> item, live |-> TRUE, result |-> "none", found |-> Nothing]

Init ==
  /\ profile = None /\ region \in Regions /\ text = region
  /\ busy = FALSE /\ refresh = TRUE /\ view = Blank
  /\ age = [i \in Instances |-> "young"]
  /\ poll = FALSE /\ tasks = {} /\ fresh = Terminals
  /\ external = {} /\ over = {}
  /\ cloud = [i \in Instances |-> IF i \in Stopped THEN "stopped" ELSE "ready"]
  /\ erred = FALSE /\ changes = 0

----------------------------------------------------------------------------
(* reload *)

Superseded(ts) ==
  {t \in ts : t.kind # "load"} \cup {[t EXCEPT !.live = FALSE] : t \in {u \in ts : u.kind = "load"}}

\* The list of profile p and region r is asked for; `from` is the region of
\* what is shown, and v the view that stays if that is the same.
Reload(p, r, from, rest, v) ==
  IF p = None THEN tasks' = rest /\ view' = v /\ UNCHANGED <<region, refresh>>
  ELSE /\ tasks' = Superseded(rest) \cup {Task("load", <<p, r>>, None)}
       /\ region' = r /\ refresh' = FALSE
       /\ view' = IF r = from THEN v ELSE Blank

\* set_profile, from the window.
SetProfile(p, r) ==
  /\ changes < MaxChanges /\ changes' = changes + 1
  /\ <<p, r>> # <<profile, region>>
  /\ profile' = p /\ text' = r
  /\ IF p = None
     THEN /\ tasks' = Superseded(tasks) /\ view' = Blank /\ region' = r
          /\ UNCHANGED refresh
     ELSE Reload(p, r, r, tasks, Blank)
  /\ UNCHANGED <<busy, age, poll, fresh, service, erred>>

\* The user types a region; leaving the field or choosing from the list reloads.
Type(r) ==
  /\ changes < MaxChanges /\ changes' = changes + 1
  /\ profile # None /\ r # text /\ text' = r
  /\ UNCHANGED <<profile, region, busy, refresh, view, age, poll, tasks, fresh, service, erred>>

\* _reload_changed_region and the refresh button.
Refresh ==
  /\ profile # None
  /\ text # region \/ refresh
  /\ Reload(profile, text, region, tasks, view)
  /\ UNCHANGED <<profile, text, busy, age, poll, fresh, service, erred, changes>>

----------------------------------------------------------------------------
(* What the user does with a row; a half-typed region is reloaded first *)

Submit(kind, item) ==
  /\ ~busy /\ profile # None /\ text = region
  /\ busy' = TRUE
  /\ tasks' = tasks \cup {Task(kind, <<profile, region>>, item)}
  /\ UNCHANGED <<place, refresh, view, age, poll, service, erred, changes>>

\* run_target_action: a stopped instance is started, a ready one is opened.
StartInstance(i) ==
  view.rows[i] = "stopped" /\ Submit("power", i) /\ UNCHANGED fresh

\* open_selected; the terminal stands for its operation id.
OpenTerminal(i, o) ==
  /\ view.rows[i] = "ready"
  /\ o \in fresh /\ fresh' = fresh \ {o}
  /\ Submit("connect", o)

ToggleFavorite(i) ==
  view.rows[i] # "absent" /\ Submit("favorite", i) /\ UNCHANGED fresh

\* _filters_changed: rows that are not followed any more are let go.
FiltersChanged ==
  /\ view' = [view EXCEPT !.starting =
       [i \in Instances |-> IF i \in view.pending THEN view.starting[i] ELSE "absent"]]
  /\ UNCHANGED <<place, busy, refresh, age, poll, tasks, fresh, service, erred, changes>>

----------------------------------------------------------------------------
(* The workers *)

\* What a listing may say of an instance: the truth; "stopped" while it is
\* starting; nothing, where the fallback lists the SSM nodes that are online.
Sees(scope, i) ==
  IF Scope(i) # scope THEN {"absent"}
  ELSE {cloud[i]} \cup (IF cloud[i] = "pending" THEN {"stopped", "absent"} ELSE {})

Listings(scope) ==
  {l \in [Instances -> States] : \A i \in Instances : l[i] \in Sees(scope, i)}

Answer(t, result) == tasks' = (tasks \ {t}) \cup {[t EXCEPT !.result = result]}

WorkLoad(t) ==
  /\ t.kind = "load"
  /\ \/ \E result \in {"failed", "cancelled"} : Answer(t, result)
     \/ \E list \in Listings(t.scope) :
          tasks' = (tasks \ {t}) \cup {[t EXCEPT !.result = "ok", !.found = list]}
  /\ UNCHANGED service

WorkFavorite(t) ==
  /\ t.kind = "favorite"
  /\ \E result \in {"ok", "failed"} : Answer(t, result)
  /\ UNCHANGED service

\* start_instance looks at the inventory first.
WorkPower(t) ==
  /\ t.kind = "power"
  /\ \/ /\ cloud[t.item] = "stopped"
        /\ cloud' = [cloud EXCEPT ![t.item] = "pending"]
        /\ Answer(t, "ok")
     \/ /\ \E result \in {"failed", "cancelled"} : Answer(t, result)
        /\ UNCHANGED cloud
  /\ UNCHANGED <<external, over>>

\* connect_external: the terminal runs and is tracked, or neither.
WorkConnect(t) ==
  /\ t.kind = "connect"
  /\ \/ external' = external \cup {t.item} /\ Answer(t, "ok")
     \/ /\ \E result \in {"failed", "cancelled"} : Answer(t, result)
        /\ UNCHANGED external
  /\ UNCHANGED <<over, cloud>>

\* reap_external_sessions, of all profiles, one terminal after the other: one that
\* fails leaves the terminals it did not come to.
WorkReap(t) ==
  /\ t.kind = "reap"
  /\ \/ /\ external' = external \ over /\ over' = {}
        /\ Answer(t, IF external' = {} THEN "nothing" ELSE "some")
     \/ \E gone \in SUBSET over :
          /\ external' = external \ gone /\ over' = over \ gone
          /\ Answer(t, "failed")
  /\ UNCHANGED cloud

Work(t) ==
  /\ t.result = "none"
  /\ WorkLoad(t) \/ WorkFavorite(t) \/ WorkPower(t) \/ WorkConnect(t) \/ WorkReap(t)
  /\ UNCHANGED <<place, busy, refresh, view, age, poll, fresh, erred, changes>>

----------------------------------------------------------------------------
(* The callbacks, on the GUI thread *)

Done(t, kinds, results) == t.kind \in kinds /\ t.result \in results

\* _targets_loaded, for one instance: what the row becomes.
Follow(i, seen) ==
  IF i \notin view.pending THEN seen
  ELSE IF seen = "absent" \/ (seen = "stopped" /\ age[i] = "young") THEN view.starting[i]
  ELSE seen

\* _once: the page looks once after a start.
Loaded_once(list) ==
  LET rows == [i \in Instances |-> Follow(i, list[i])]
      still == {i \in view.pending :
                  rows[i] # "ready" /\ (list[i] = "stopped" => age[i] = "young")}
  IN [rows |-> rows,
      starting |-> [i \in Instances |-> IF view.starting[i] = "absent" THEN "absent" ELSE rows[i]],
      pending |-> still,
      timer |-> FALSE]

Loaded(list) ==
  LET rows == [i \in Instances |-> Follow(i, list[i])]
      still == {i \in view.pending :
                  rows[i] # "ready" /\ (list[i] = "stopped" => age[i] = "young")}
  IN [rows |-> rows,
      starting |-> [i \in Instances |-> IF view.starting[i] = "absent" THEN "absent" ELSE rows[i]],
      pending |-> still,
      timer |-> still # {}]

\* _any: the answer to an earlier load is taken too.
Takes_any(t) == TRUE
Takes(t) == t.live

TargetsLoaded(t) ==
  /\ Done(t, {"load"}, {"ok"}) /\ Takes(t)
  /\ view' = Loaded(t.found)
  /\ busy' = FALSE /\ refresh' = TRUE
  /\ tasks' = tasks \ {t}
  /\ UNCHANGED <<place, age, poll, fresh, service, erred, changes>>

IgnoreLoad(t) ==
  /\ t.kind = "load" /\ t.result # "none" /\ ~Takes(t)
  /\ tasks' = tasks \ {t}
  /\ UNCHANGED <<place, busy, refresh, view, age, poll, fresh, service, erred, changes>>

FavoriteSet(t) ==
  /\ Done(t, {"favorite"}, {"ok"})
  /\ Reload(profile, text, region, tasks \ {t}, view)
  /\ UNCHANGED <<profile, text, busy, age, poll, fresh, service, erred, changes>>

\* _power_requested; a request of another scope is forgotten.
Here(t) == t.scope = <<profile, region>>

PowerRequested(t) ==
  /\ Done(t, {"power"}, {"ok"})
  /\ IF Here(t)
     THEN /\ busy' = FALSE
          /\ age' = [age EXCEPT ![t.item] = "young"]
          /\ Reload(profile, text, region, tasks \ {t},
                    [view EXCEPT !.starting[t.item] = "pending",
                                 !.pending = @ \cup {t.item}, !.timer = TRUE])
     ELSE /\ tasks' = tasks \ {t}
          /\ UNCHANGED <<region, busy, refresh, view, age>>
  /\ UNCHANGED <<profile, text, poll, fresh, service, erred, changes>>

ExternalStarted(t) ==
  /\ Done(t, {"connect"}, {"ok"})
  /\ busy' = FALSE /\ poll' = TRUE
  /\ Reload(profile, text, region, tasks \ {t}, view)
  /\ UNCHANGED <<profile, text, age, fresh, service, erred, changes>>

\* _sessions_loaded: the timer runs as long as the reap saw a terminal run.
SessionsLoaded(t) ==
  /\ Done(t, {"reap"}, {"some", "nothing"})
  /\ poll' = (poll /\ t.result = "some")
  /\ tasks' = tasks \ {t}
  /\ UNCHANGED <<place, busy, refresh, view, age, fresh, service, erred, changes>>

\* _failed, of any task.
Failed(t) ==
  /\ t.result = "failed" /\ (t.kind = "load" => Takes(t))
  /\ view' = [view EXCEPT !.timer = FALSE]
  /\ busy' = FALSE /\ refresh' = (profile # None)
  /\ erred' = (erred \/ view.pending # {})
  /\ tasks' = tasks \ {t}
  /\ UNCHANGED <<place, age, poll, fresh, service, changes>>

\* _cancelled.  _busy: the flag is not given back.
Cancelled_busy(t) ==
  /\ t.result = "cancelled" /\ (t.kind = "load" => Takes(t))
  /\ refresh' = (profile # None)
  /\ erred' = (erred \/ view.pending # {})
  /\ tasks' = tasks \ {t}
  /\ UNCHANGED <<place, busy, view, age, poll, fresh, service, changes>>
Cancelled(t) ==
  /\ t.result = "cancelled" /\ (t.kind = "load" => Takes(t))
  /\ busy' = FALSE /\ refresh' = (profile # None)
  /\ erred' = (erred \/ view.pending # {})
  /\ tasks' = tasks \ {t}
  /\ UNCHANGED <<place, view, age, poll, fresh, service, changes>>

Deliver(t) ==
  \/ TargetsLoaded(t) \/ IgnoreLoad(t) \/ FavoriteSet(t) \/ PowerRequested(t)
  \/ ExternalStarted(t) \/ SessionsLoaded(t) \/ Failed(t) \/ Cancelled(t)

----------------------------------------------------------------------------
(* The timers, AWS and the terminals *)

\* refresh_session_states, every two seconds; a reap is not looked for, but two
\* no worker has begun are one here.
PollFires ==
  /\ poll /\ Cardinality(tasks) < MaxTasks
  /\ tasks' = tasks \cup {Task("reap", <<None, None>>, None)}
  /\ UNCHANGED <<place, busy, refresh, view, age, poll, fresh, service, erred, changes>>

\* _refresh_starting_instances, every five seconds.
InstanceTimer ==
  /\ view.timer
  /\ LET still == {i \in view.pending : age[i] # "expired"}
         next == [view EXCEPT !.pending = still, !.timer = still # {}]
     IN IF still # {} /\ refresh /\ ~busy
        THEN Reload(profile, text, region, tasks, next)
        ELSE view' = next /\ UNCHANGED <<region, refresh, tasks>>
  /\ UNCHANGED <<profile, text, busy, age, poll, fresh, service, erred, changes>>

\* Fifteen seconds, ten minutes.
TimePasses(i) ==
  /\ i \in view.pending /\ age[i] # "expired"
  /\ age' = [age EXCEPT ![i] = IF @ = "young" THEN "old" ELSE "expired"]
  /\ UNCHANGED <<place, busy, refresh, view, poll, tasks, fresh, service, erred, changes>>

CloudMoves(i) ==
  /\ cloud[i] = "pending"
  /\ \E state \in {"ready", "stopped"} : cloud' = [cloud EXCEPT ![i] = state]
  /\ UNCHANGED <<place, busy, refresh, view, age, poll, tasks, fresh, external, over, erred, changes>>

TerminalEnds(o) ==
  /\ o \in external \ over /\ over' = over \cup {o}
  /\ UNCHANGED <<place, busy, refresh, view, age, poll, tasks, fresh, external, cloud, erred, changes>>

----------------------------------------------------------------------------

Press ==
  /\ Cardinality(tasks) < MaxTasks
  /\ \/ \E p \in Profiles \cup {None}, r \in Regions : SetProfile(p, r)
     \/ \E r \in Regions : Type(r)
     \/ \E i \in Instances : StartInstance(i) \/ ToggleFavorite(i)
     \/ \E i \in Instances, o \in Terminals : OpenTerminal(i, o)
     \/ Refresh \/ FiltersChanged

Next ==
  \/ Press \/ PollFires \/ InstanceTimer
  \/ \E t \in tasks : Work(t) \/ Deliver(t)
  \/ \E i \in Instances : TimePasses(i) \/ CloudMoves(i)
  \/ \E o \in Terminals : TerminalEnds(o)

Spec == Init /\ [][Next]_vars

\* Calls return, callbacks run in the end, and timers that are on fire.  Time
\* may stand still, AWS may take for ever, and nobody has to press anything.
Kinds == {"load", "favorite", "power", "connect", "reap"}
FairSpec ==
  /\ Spec
  /\ \A kind \in Kinds : WF_vars(\E t \in tasks : t.kind = kind /\ (Work(t) \/ Deliver(t)))
  /\ WF_vars(InstanceTimer)

----------------------------------------------------------------------------
(* Properties *)

\* docs/product-specs/aws-connect.md:450: a change of profile or region resets
\* what is followed, and answers of the scope before are not taken: every row,
\* and so every button, is one of the profile and region it will be used with.
RowsAreOfTheScope ==
  \A i \in Instances :
    i \in view.pending \/ view.rows[i] # "absent" \/ view.starting[i] # "absent"
      => Scope(i) = <<profile, region>>

\* An action that was cancelled, failed, was overtaken by a change of profile or
\* lost its answer never leaves the page locked.
BusyEnds == busy ~> ~busy \/ profile = None

\* An instance that has become ready is shown so, without the user's doing, or
\* the page has said why it stopped looking: an error, ten minutes, a change of
\* scope (_refresh_starting_instances, reload, _targets_loaded).
StartedIsSeen ==
  \A i \in Instances :
    (i \in view.pending /\ cloud[i] = "ready") ~> (view.rows[i] = "ready" \/ i \notin view.pending \/ erred)

=============================================================================
