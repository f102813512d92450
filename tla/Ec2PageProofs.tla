---------------------------- MODULE Ec2PageProofs ----------------------------
(***************************************************************************)
(* The EC2 page and the terminals it opens.  What the page shows belongs   *)
(* to the profile and region it shows, for any instances, however often    *)
(* the user moves between profiles and regions, and in whatever order the  *)
(* answers come back.                                                      *)
(*                                                                         *)
(* The owner of a terminal session may believe an exit code of 0: it is    *)
(* the plugin's own or the user's closing of the window, whatever happens  *)
(* to the pipe and to the host; and step by step a terminal is a session   *)
(* process as the runners know one.                                        *)
(***************************************************************************)
EXTENDS Ec2Page, Terminal, Integers, TLAPS

-----------------------------------------------------------------------------
(* The page: the inductive invariant *)

Views == [rows : [Instances -> States], starting : [Instances -> States],
          pending : SUBSET Instances, timer : BOOLEAN]
Results == {"none", "ok", "failed", "cancelled", "some", "nothing"}
Tasks ==
  [kind : Kinds, scope : (Profiles \cup {None}) \X (Regions \cup {None}),
   item : Instances \cup Terminals \cup {None}, live : BOOLEAN,
   result : Results, found : [Instances -> States]]

Typed ==
  /\ profile \in Profiles \cup {None} /\ region \in Regions /\ text \in Regions
  /\ view \in Views /\ tasks \subseteq Tasks
  /\ cloud \in [Instances -> States]

Follows(v, i) == i \in v.pending \/ v.rows[i] # "absent" \/ v.starting[i] # "absent"
OfTheScope(v, s) == \A i \in Instances : Follows(v, i) => Scope(i) = s

\* What a task brings is of the scope it was asked for, and the answer that will
\* be taken is the one of the scope that is shown.
Honest(t, s) ==
  /\ t.kind = "load" /\ t.live => t.scope = s
  /\ t.kind = "load" => \A i \in Instances : t.found[i] # "absent" => Scope(i) = t.scope
  /\ t.kind = "power" => t.item \in Instances /\ Scope(t.item) = t.scope

Inv ==
  /\ Typed
  /\ OfTheScope(view, <<profile, region>>)
  /\ \A t \in tasks : Honest(t, <<profile, region>>)

-----------------------------------------------------------------------------
(* The operators that many callbacks share *)

LEMMA BlankIsEmpty ==
  Blank \in Views /\ \A s : OfTheScope(Blank, s)
<1>1. Nothing \in [Instances -> States]
  BY DEF Nothing, States
<1> QED
  BY <1>1 DEF Blank, Views, OfTheScope, Follows, Nothing

LEMMA TaskIsTyped ==
  ASSUME NEW kind \in Kinds, NEW scope \in (Profiles \cup {None}) \X (Regions \cup {None}),
         NEW item \in Instances \cup Terminals \cup {None}
  PROVE  /\ Task(kind, scope, item) \in Tasks
         /\ Task(kind, scope, item).kind = kind
         /\ Task(kind, scope, item).scope = scope
         /\ Task(kind, scope, item).item = item
         /\ \A i \in Instances : Task(kind, scope, item).found[i] = "absent"
<1>1. Nothing \in [Instances -> States] /\ \A i \in Instances : Nothing[i] = "absent"
  BY DEF Nothing, States
<1> QED
  BY <1>1 DEF Task, Tasks, Results

\* After a change of scope no answer to an earlier load is taken.
LEMMA SupersededAreHonest ==
  ASSUME NEW ts \in SUBSET Tasks, NEW s, \A t \in ts : Honest(t, s),
         NEW other
  PROVE  Superseded(ts) \subseteq Tasks /\ \A t \in Superseded(ts) : Honest(t, other)
<1> SUFFICES ASSUME NEW t \in Superseded(ts)
             PROVE  t \in Tasks /\ Honest(t, other)
  OBVIOUS
<1>1. CASE t \in ts /\ t.kind # "load"
  BY <1>1 DEF Honest
<1>2. CASE \E u \in ts : u.kind = "load" /\ t = [u EXCEPT !.live = FALSE]
  <2> PICK u \in ts : u.kind = "load" /\ t = [u EXCEPT !.live = FALSE]
    BY <1>2
  <2>1. u \in Tasks /\ Honest(u, s)
    OBVIOUS
  <2>2. /\ t \in Tasks /\ t.kind = "load" /\ t.live = FALSE
        /\ t.scope = u.scope /\ t.found = u.found
    BY <2>1 DEF Tasks
  <2> QED
    BY <2>1, <2>2 DEF Honest
<1> QED
  BY <1>1, <1>2 DEF Superseded

\* What a reload leaves: either the view of the same scope, or none.
LEMMA ReloadKeeps ==
  ASSUME NEW p \in Profiles \cup {None}, NEW r \in Regions, NEW from \in Regions,
         NEW rest \in SUBSET Tasks, NEW v \in Views, NEW s,
         region \in Regions,
         \A t \in rest : Honest(t, s),
         p = None => s = <<p, region>> /\ OfTheScope(v, <<p, region>>),
         r = from => OfTheScope(v, <<p, r>>),
         Reload(p, r, from, rest, v)
  PROVE  /\ region' \in Regions /\ view' \in Views /\ tasks' \subseteq Tasks
         /\ OfTheScope(view', <<p, region'>>)
         /\ \A t \in tasks' : Honest(t, <<p, region'>>)
<1>1. CASE p = None
  BY <1>1 DEF Reload
<1>2. CASE p # None
  <2>1. /\ tasks' = Superseded(rest) \cup {Task("load", <<p, r>>, None)}
        /\ region' = r /\ view' = IF r = from THEN v ELSE Blank
    BY <1>2 DEF Reload
  <2>2. Superseded(rest) \subseteq Tasks /\ \A t \in Superseded(rest) : Honest(t, <<p, r>>)
    BY SupersededAreHonest
  <2>3. /\ Task("load", <<p, r>>, None) \in Tasks
        /\ Honest(Task("load", <<p, r>>, None), <<p, r>>)
    BY TaskIsTyped DEF Kinds, Honest
  <2>4. view' \in Views /\ OfTheScope(view', <<p, r>>)
    BY <2>1, BlankIsEmpty
  <2> QED
    BY <2>1, <2>2, <2>3, <2>4
<1> QED
  BY <1>1, <1>2

-----------------------------------------------------------------------------
(* The user *)

LEMMA SetProfileKeepsInv ==
  ASSUME Inv, NEW p \in Profiles \cup {None}, NEW r \in Regions, SetProfile(p, r)
  PROVE  Inv'
<1>1. profile' = p /\ text' = r /\ cloud' = cloud
  BY DEF SetProfile, service
<1>2. CASE p = None
  <2>1. tasks' = Superseded(tasks) /\ view' = Blank /\ region' = r
    BY <1>2 DEF SetProfile
  <2>2. Superseded(tasks) \subseteq Tasks /\ \A t \in Superseded(tasks) : Honest(t, <<p, r>>)
    BY SupersededAreHonest DEF Inv, Typed
  <2> QED
    BY <1>1, <2>1, <2>2, BlankIsEmpty DEF Inv, Typed
<1>3. CASE p # None
  <2>1. Reload(p, r, r, tasks, Blank)
    BY <1>3 DEF SetProfile
  <2>2. /\ region' \in Regions /\ view' \in Views /\ tasks' \subseteq Tasks
        /\ OfTheScope(view', <<p, region'>>)
        /\ \A t \in tasks' : Honest(t, <<p, region'>>)
    BY <1>3, <2>1, ReloadKeeps, BlankIsEmpty DEF Inv, Typed
  <2> QED
    BY <1>1, <2>2 DEF Inv, Typed
<1> QED
  BY <1>2, <1>3

\* A reload of what is shown, with a view that is of the scope it was asked in.
LEMMA ReloadHereKeepsInv ==
  ASSUME Inv, NEW rest \in SUBSET tasks, NEW v \in Views,
         OfTheScope(v, <<profile, region>>),
         Reload(profile, text, region, rest, v),
         profile' = profile, text' = text, cloud' = cloud
  PROVE  Inv'
<1>1. /\ region' \in Regions /\ view' \in Views /\ tasks' \subseteq Tasks
      /\ OfTheScope(view', <<profile, region'>>)
      /\ \A t \in tasks' : Honest(t, <<profile, region'>>)
  BY ReloadKeeps DEF Inv, Typed
<1> QED
  BY <1>1 DEF Inv, Typed

LEMMA SubmitKeepsInv ==
  ASSUME Inv, NEW kind \in {"power", "connect", "favorite"},
         NEW item \in Instances \cup Terminals,
         kind = "power" => item \in Instances /\ Scope(item) = <<profile, region>>,
         Submit(kind, item)
  PROVE  Inv'
<1> DEFINE new == Task(kind, <<profile, region>>, item)
<1>1. new \in Tasks /\ Honest(new, <<profile, region>>)
  BY TaskIsTyped DEF Kinds, Honest, Inv, Typed
<1>2. /\ tasks' = tasks \cup {new} /\ profile' = profile /\ region' = region /\ text' = text
      /\ view' = view /\ cloud' = cloud
  BY DEF Submit, place, service
<1> QED
  BY <1>1, <1>2 DEF Inv, Typed

LEMMA FiltersChangedKeepsInv ==
  ASSUME Inv, FiltersChanged
  PROVE  Inv'
<1>1. /\ profile' = profile /\ region' = region /\ text' = text
      /\ tasks' = tasks /\ cloud' = cloud
  BY DEF FiltersChanged, place, service
<1>2. view \in Views /\ "absent" \in States
  BY DEF Inv, Typed, States
<1>3. /\ view' \in Views /\ view'.rows = view.rows /\ view'.pending = view.pending
      /\ \A i \in Instances :
           view'.starting[i] = IF i \in view.pending THEN view.starting[i] ELSE "absent"
  BY <1>2 DEF FiltersChanged, Views
<1> QED
  BY <1>1, <1>3 DEF Inv, Typed, OfTheScope, Follows

LEMMA PressKeepsInv ==
  ASSUME Inv, Press
  PROVE  Inv'
<1>1. CASE \E p \in Profiles \cup {None}, r \in Regions : SetProfile(p, r)
  BY <1>1, SetProfileKeepsInv
<1>2. CASE \E r \in Regions : Type(r)
  BY <1>2 DEF Type, Inv, Typed, service
<1>3. ASSUME NEW i \in Instances, StartInstance(i)
      PROVE  Inv'
  <2>1. Scope(i) = <<profile, region>>
    BY <1>3 DEF StartInstance, Inv, OfTheScope, Follows
  <2> QED
    BY <1>3, <2>1, SubmitKeepsInv DEF StartInstance
<1>4. ASSUME NEW i \in Instances, ToggleFavorite(i)
      PROVE  Inv'
  BY <1>4, SubmitKeepsInv DEF ToggleFavorite
<1>5. ASSUME NEW i \in Instances, NEW o \in Terminals, OpenTerminal(i, o)
      PROVE  Inv'
  BY <1>5, SubmitKeepsInv DEF OpenTerminal
<1>6. CASE Refresh
  BY <1>6, ReloadHereKeepsInv DEF Refresh, Inv, Typed, service
<1>7. CASE FiltersChanged
  BY <1>7, FiltersChangedKeepsInv
<1> QED
  BY <1>1, <1>2, <1>3, <1>4, <1>5, <1>6, <1>7 DEF Press

-----------------------------------------------------------------------------
(* The workers *)

LEMMA AnswerIsHonest ==
  ASSUME NEW s, NEW t \in Tasks, Honest(t, s), NEW result \in Results
  PROVE  [t EXCEPT !.result = result] \in Tasks /\ Honest([t EXCEPT !.result = result], s)
BY DEF Tasks, Honest

LEMMA WorkKeepsInv ==
  ASSUME Inv, NEW t \in tasks, Work(t)
  PROVE  Inv'
<1>1. /\ profile' = profile /\ region' = region /\ text' = text /\ view' = view
  BY DEF Work, place
<1>2. t \in Tasks /\ Honest(t, <<profile, region>>)
  BY DEF Inv, Typed
<1>3. cloud' \in [Instances -> States]
  <2>1. CASE WorkPower(t)
    BY <2>1 DEF WorkPower, Inv, Typed, States
  <2>2. CASE cloud' = cloud
    BY <2>2 DEF Inv, Typed
  <2> QED
    BY <2>1, <2>2 DEF Work, WorkLoad, WorkFavorite, WorkConnect, WorkReap, service
<1>4. CASE \E result \in Results : Answer(t, result)
  BY <1>1, <1>2, <1>3, <1>4, AnswerIsHonest DEF Answer, Inv, Typed
<1>5. ASSUME NEW list \in Listings(t.scope), t.kind = "load",
             tasks' = (tasks \ {t}) \cup {[t EXCEPT !.result = "ok", !.found = list]}
      PROVE  Inv'
  <2> DEFINE u == [t EXCEPT !.result = "ok", !.found = list]
  <2>1. list \in [Instances -> States]
        /\ \A i \in Instances : list[i] # "absent" => Scope(i) = t.scope
    BY DEF Listings, Sees
  <2>2. /\ u \in Tasks /\ u.kind = t.kind /\ u.scope = t.scope /\ u.live = t.live
        /\ u.found = list
    BY <1>2, <2>1 DEF Tasks, Results
  <2>3. Honest(u, <<profile, region>>)
    BY <1>2, <1>5, <2>1, <2>2 DEF Honest
  <2> QED
    BY <1>1, <1>3, <1>5, <2>2, <2>3 DEF Inv, Typed
<1> QED
  <2>1. CASE WorkLoad(t)
    BY <1>4, <1>5, <2>1 DEF WorkLoad, Results
  <2>2. CASE WorkFavorite(t)
    BY <1>4, <2>2 DEF WorkFavorite, Results
  <2>3. CASE WorkPower(t)
    BY <1>4, <2>3 DEF WorkPower, Results
  <2>4. CASE WorkConnect(t)
    BY <1>4, <2>4 DEF WorkConnect, Results
  <2>5. CASE WorkReap(t)
    BY <1>4, <2>5 DEF WorkReap, Results
  <2> QED
    BY <2>1, <2>2, <2>3, <2>4, <2>5 DEF Work

-----------------------------------------------------------------------------
(* The callbacks *)

\* What is shown after a load is in the answer, or was followed before.
LEMMA LoadedIsOfTheScope ==
  ASSUME NEW s, NEW list \in [Instances -> States], view \in Views, OfTheScope(view, s),
         \A i \in Instances : list[i] # "absent" => Scope(i) = s
  PROVE  Loaded(list) \in Views /\ OfTheScope(Loaded(list), s)
<1> DEFINE rows == [i \in Instances |-> Follow(i, list[i])]
<1>1. rows \in [Instances -> States]
  BY DEF Follow, Views
<1>2. /\ Loaded(list) \in Views /\ Loaded(list).rows = rows
      /\ Loaded(list).pending \subseteq view.pending
      /\ \A i \in Instances : Loaded(list).starting[i] # "absent" => view.starting[i] # "absent"
  BY <1>1 DEF Loaded, Views, States
<1>3. \A i \in Instances : rows[i] # "absent" => i \in view.pending \/ list[i] # "absent"
  BY DEF Follow
<1> QED
  BY <1>2, <1>3 DEF OfTheScope, Follows

LEMMA TargetsLoadedKeepsInv ==
  ASSUME Inv, NEW t \in tasks, TargetsLoaded(t)
  PROVE  Inv'
<1>1. /\ profile' = profile /\ region' = region /\ text' = text /\ cloud' = cloud
      /\ tasks' = tasks \ {t} /\ view' = Loaded(t.found)
  BY DEF TargetsLoaded, place, service
<1>2. t \in Tasks /\ Honest(t, <<profile, region>>)
  BY DEF Inv, Typed
<1>3. t.kind = "load" /\ t.live
  BY DEF TargetsLoaded, Done, Takes
<1>4. /\ t.found \in [Instances -> States]
      /\ \A i \in Instances : t.found[i] # "absent" => Scope(i) = <<profile, region>>
  BY <1>2, <1>3 DEF Tasks, Honest
<1>5. Loaded(t.found) \in Views /\ OfTheScope(Loaded(t.found), <<profile, region>>)
  BY <1>4, LoadedIsOfTheScope DEF Inv, Typed
<1> QED
  BY <1>1, <1>5 DEF Inv, Typed

LEMMA PowerRequestedKeepsInv ==
  ASSUME Inv, NEW t \in tasks, PowerRequested(t)
  PROVE  Inv'
<1>1. profile' = profile /\ text' = text /\ cloud' = cloud
  BY DEF PowerRequested, service
<1>2. CASE Here(t)
  <2> DEFINE next == [view EXCEPT !.starting[t.item] = "pending",
                                  !.pending = @ \cup {t.item}, !.timer = TRUE]
  <2>1. t.item \in Instances /\ Scope(t.item) = <<profile, region>>
    BY <1>2 DEF Here, PowerRequested, Done, Inv, Honest
  <2>2. view \in Views /\ OfTheScope(view, <<profile, region>>)
    BY DEF Inv, Typed
  <2>3. /\ next \in Views /\ next.rows = view.rows
        /\ next.pending = view.pending \cup {t.item}
        /\ \A i \in Instances : i # t.item => next.starting[i] = view.starting[i]
    BY <2>1, <2>2 DEF Views, States
  <2>4. OfTheScope(next, <<profile, region>>)
    BY <2>1, <2>2, <2>3 DEF OfTheScope, Follows
  <2>5. Reload(profile, text, region, tasks \ {t}, next)
    BY <1>2 DEF PowerRequested
  <2> HIDE DEF next
  <2> QED
    BY <1>1, <2>3, <2>4, <2>5, ReloadHereKeepsInv
<1>3. CASE ~Here(t)
  BY <1>1, <1>3 DEF PowerRequested, Inv, Typed
<1> QED
  BY <1>2, <1>3

LEMMA DeliverKeepsInv ==
  ASSUME Inv, NEW t \in tasks, Deliver(t)
  PROVE  Inv'
<1>1. view \in Views /\ OfTheScope(view, <<profile, region>>)
  BY DEF Inv, Typed
<1>2. CASE TargetsLoaded(t)
  BY <1>2, TargetsLoadedKeepsInv
<1>3. CASE PowerRequested(t)
  BY <1>3, PowerRequestedKeepsInv
<1>4. CASE IgnoreLoad(t)
  BY <1>4 DEF IgnoreLoad, Inv, Typed, place, service
<1>5. CASE FavoriteSet(t)
  BY <1>1, <1>5, ReloadHereKeepsInv DEF FavoriteSet, service
<1>6. CASE ExternalStarted(t)
  BY <1>1, <1>6, ReloadHereKeepsInv DEF ExternalStarted, service
<1>7. CASE SessionsLoaded(t)
  BY <1>7 DEF SessionsLoaded, Inv, Typed, place, service
<1>8. CASE Failed(t)
  <2>1. /\ profile' = profile /\ region' = region /\ text' = text /\ cloud' = cloud
        /\ tasks' = tasks \ {t} /\ view' = [view EXCEPT !.timer = FALSE]
    BY <1>8 DEF Failed, place, service
  <2>2. /\ view' \in Views /\ view'.rows = view.rows /\ view'.starting = view.starting
        /\ view'.pending = view.pending
    BY <1>1, <2>1 DEF Views
  <2> QED
    BY <2>1, <2>2 DEF Inv, Typed, OfTheScope, Follows
<1>9. CASE Cancelled(t)
  BY <1>9 DEF Cancelled, Inv, Typed, place, service
<1> QED
  BY <1>2, <1>3, <1>4, <1>5, <1>6, <1>7, <1>8, <1>9 DEF Deliver

-----------------------------------------------------------------------------
(* The timers and AWS *)

LEMMA InstanceTimerKeepsInv ==
  ASSUME Inv, InstanceTimer
  PROVE  Inv'
<1> DEFINE still == {i \in view.pending : age[i] # "expired"}
           next == [view EXCEPT !.pending = still, !.timer = still # {}]
<1>1. profile' = profile /\ text' = text /\ cloud' = cloud
  BY DEF InstanceTimer, service
<1>2. view \in Views /\ OfTheScope(view, <<profile, region>>)
  BY DEF Inv, Typed
<1>3. /\ next \in Views /\ next.rows = view.rows /\ next.starting = view.starting
      /\ next.pending \subseteq view.pending
  BY <1>2 DEF Views
<1>4. OfTheScope(next, <<profile, region>>)
  BY <1>2, <1>3 DEF OfTheScope, Follows
<1>5. \/ Reload(profile, text, region, tasks, next)
      \/ view' = next /\ UNCHANGED <<region, tasks>>
  BY DEF InstanceTimer
<1> HIDE DEF next
<1>6. CASE Reload(profile, text, region, tasks, next)
  BY <1>1, <1>3, <1>4, <1>6, ReloadHereKeepsInv
<1>7. CASE view' = next /\ UNCHANGED <<region, tasks>>
  BY <1>1, <1>3, <1>4, <1>7 DEF Inv, Typed
<1> QED
  BY <1>5, <1>6, <1>7

LEMMA PollFiresKeepsInv ==
  ASSUME Inv, PollFires
  PROVE  Inv'
<1> DEFINE new == Task("reap", <<None, None>>, None)
<1>1. new \in Tasks /\ Honest(new, <<profile, region>>)
  BY TaskIsTyped DEF Kinds, Honest
<1>2. /\ tasks' = tasks \cup {new} /\ profile' = profile /\ region' = region /\ text' = text
      /\ view' = view /\ cloud' = cloud
  BY DEF PollFires, place, service
<1> QED
  BY <1>1, <1>2 DEF Inv, Typed

-----------------------------------------------------------------------------
(* The theorem *)

LEMMA InitInv ==
  ASSUME Init
  PROVE  Inv
<1>1. cloud \in [Instances -> States]
  BY DEF Init, States
<1>2. view = Blank /\ tasks = {} /\ profile = None /\ region \in Regions /\ text \in Regions
  BY DEF Init
<1> QED
  BY <1>1, <1>2, BlankIsEmpty DEF Inv, Typed

LEMMA NextKeepsInv ==
  ASSUME Inv, [Next]_vars
  PROVE  Inv'
<1>1. CASE Press
  BY <1>1, PressKeepsInv
<1>2. CASE PollFires
  BY <1>2, PollFiresKeepsInv
<1>3. CASE InstanceTimer
  BY <1>3, InstanceTimerKeepsInv
<1>4. CASE \E t \in tasks : Work(t) \/ Deliver(t)
  BY <1>4, WorkKeepsInv, DeliverKeepsInv
<1>5. CASE \E i \in Instances : TimePasses(i)
  BY <1>5 DEF TimePasses, Inv, Typed, place, service
<1>6. CASE \E i \in Instances : CloudMoves(i)
  BY <1>6 DEF CloudMoves, Inv, Typed, States, place
<1>7. CASE \E o \in Terminals : TerminalEnds(o)
  BY <1>7 DEF TerminalEnds, Inv, Typed, place
<1>8. CASE UNCHANGED vars
  BY <1>8 DEF vars, Inv, Typed, place, service
<1> QED
  BY <1>1, <1>2, <1>3, <1>4, <1>5, <1>6, <1>7, <1>8 DEF Next

\* Every row of the EC2 page, every instance it follows and every state it keeps
\* of one is of the profile and region that is shown (reload, _targets_loaded,
\* _power_requested), whatever was asked before and whenever it is answered.
THEOREM RowsStayInScope == Spec => []RowsAreOfTheScope
<1>1. Init => Inv
  BY InitInv
<1>2. Inv /\ [Next]_vars => Inv'
  BY NextKeepsInv
<1>3. Inv => RowsAreOfTheScope
  BY DEF Inv, OfTheScope, Follows, RowsAreOfTheScope
<1> QED
  BY <1>1, <1>2, <1>3, PTL DEF Spec

-----------------------------------------------------------------------------
(* The terminal: the inductive invariant *)

\* An event under way tells of something that has happened, ...
Backed(event) ==
  /\ event = "zero" => plugin = "zero"
  /\ event = "console_closed" => Closing

EventsHonest == \A i \in 1..Len(toGui) : Backed(toGui[i])

\* ... the plugin is started once, by a host that is past receiving, and a
\* host reports one that has ended, ...
HostInOrder ==
  /\ host \in {"none", "connecting", "receiving"} => plugin = "none"
  /\ host = "reporting" => plugin \in Codes

\* ... and the launcher has no host before it asks for one, and no exit code
\* before it owns a session or after it has left one running.
LauncherInOrder ==
  /\ gui = "dispatch" => host = "none" /\ console = "none"
  /\ gui \in {"dispatch", "accept", "send", "report", "give_up", "close", "failed",
              "terminate", "kill", "gone"} => code = "none"

Truthful ==
  /\ TypeOK
  /\ EventsHonest
  /\ HostInOrder
  /\ LauncherInOrder
  /\ SuccessIsTrue

-----------------------------------------------------------------------------
(* Steps by what they do to the pipe *)

Events == {"started", "zero", "nonzero", "console_closed"}

\* Neither an end of the plugin nor the closing of the window is undone.
FateStands == (plugin = "zero" => plugin' = "zero") /\ (Closing => Closing')

\* What stays of the events, or what is left when one is read, is as true.
LEMMA RestHonest ==
  ASSUME TypeOK, EventsHonest, FateStands,
         UNCHANGED toGui \/ (toGui # <<>> /\ toGui' = Tail(toGui))
  PROVE  toGui' \in Seq(Events) /\ EventsHonest'
<1>1. CASE UNCHANGED toGui
  BY <1>1 DEF TypeOK, Events, EventsHonest, Backed, FateStands
<1>2. CASE toGui # <<>> /\ toGui' = Tail(toGui)
  <2>1. /\ toGui' \in Seq(Events) /\ Len(toGui') = Len(toGui) - 1
        /\ \A i \in 1..Len(toGui') : toGui'[i] = toGui[i + 1] /\ i + 1 \in 1..Len(toGui)
    BY <1>2 DEF TypeOK, Events
  <2> QED
    BY <2>1 DEF EventsHonest, Backed, FateStands
<1> QED
  BY <1>1, <1>2

\* An event is written that is true when it is.
LEMMA SendHonest ==
  ASSUME TypeOK, EventsHonest, FateStands, NEW event \in Events, SendEvent(event), Backed(event)'
  PROVE  toGui' \in Seq(Events) /\ EventsHonest'
<1>1. CASE guiEnd = "open"
  <2>1. /\ toGui' \in Seq(Events) /\ Len(toGui') = Len(toGui) + 1
        /\ \A i \in 1..Len(toGui) : toGui'[i] = toGui[i]
        /\ toGui'[Len(toGui) + 1] = event
    BY <1>1 DEF SendEvent, TypeOK, Events
  <2>2. \A i \in 1..Len(toGui') : i \in 1..Len(toGui) \/ i = Len(toGui) + 1
    BY <2>1 DEF TypeOK
  <2> QED
    BY <2>1, <2>2 DEF EventsHonest, Backed, FateStands
<1>2. CASE guiEnd # "open"
  BY <1>2, RestHonest DEF SendEvent
<1> QED
  BY <1>1, <1>2

LEMMA ReadHonest ==
  ASSUME TypeOK, EventsHonest, toGui # <<>>
  PROVE  Head(toGui) \in Events /\ Backed(Head(toGui))
<1>1. Head(toGui) = toGui[1] /\ 1 \in 1..Len(toGui) /\ toGui[1] \in Events
  BY DEF TypeOK, Events
<1> QED
  BY <1>1 DEF EventsHonest

\* A command under way is one of the three.
LEMMA CommandTyped ==
  ASSUME TypeOK,
         \/ UNCHANGED toHost
         \/ toHost # <<>> /\ toHost' = Tail(toHost)
         \/ \E command \in {"argv", "terminate", "kill"} : toHost' = Append(toHost, command)
  PROVE  toHost' \in Seq({"argv", "terminate", "kill"})
  BY DEF TypeOK

-----------------------------------------------------------------------------
(* Steps by what they are to the port *)

PortStep == [Port!Next]_(Port!vars)
Kept == Truthful' /\ PortStep

\* The owner sees nothing of a step, and the plugin and the window live on.
LEMMA Unseen ==
  ASSUME Phase' = Phase, UNCHANGED code, Fate' = Fate
  PROVE  PortStep
  BY DEF PortStep, Port!vars

LEMMA SamePhase ==
  ASSUME UNCHANGED <<gui, code>>
  PROVE  Phase' = Phase
  BY DEF Phase, Owned

\* The plugin ends.
LEMMA EndSeen ==
  ASSUME UNCHANGED <<gui, code, console>>, plugin \notin Codes, plugin' \in Codes
  PROVE  PortStep
<1>1. Fate' = Fate \cup {plugin'}
  BY DEF Fate, Closing, Codes
<1>2. Port!Happen(plugin')
  BY <1>1, SamePhase DEF Port!Happen
<1> QED
  BY <1>2 DEF PortStep, Port!Next, Port!Codes, Codes

-----------------------------------------------------------------------------
(* The launcher and the owner *)

\* A step of the GUI's thread disturbs neither the host, the plugin nor the window.
LEMMA GuiKeeps ==
  ASSUME Truthful, UNCHANGED <<process, plugin, console>>,
         gui' # "dispatch",
         gui' \in {"accept", "send", "report", "give_up", "close", "failed",
                   "owned", "terminate", "wait", "kill", "reap", "left", "gone"},
         code' \in Codes \cup {"none"}, guiEnd' \in {"none", "open", "closed"},
         \/ UNCHANGED toHost
         \/ \E command \in {"argv", "terminate", "kill"} : toHost' = Append(toHost, command),
         UNCHANGED toGui \/ (toGui # <<>> /\ toGui' = Tail(toGui)),
         gui' \in {"accept", "send", "report", "give_up", "close", "failed",
                   "terminate", "kill", "gone"} => code' = "none",
         SuccessIsTrue'
  PROVE  Truthful' /\ Fate' = Fate
<1>1. toHost' \in Seq({"argv", "terminate", "kill"})
  BY CommandTyped DEF Truthful
<1>2. toGui' \in Seq(Events) /\ EventsHonest'
  BY RestHonest DEF Truthful, FateStands, Closing
<1>3. TypeOK'
  BY <1>1, <1>2 DEF Truthful, TypeOK, process, Events, Codes
<1>4. HostInOrder' /\ LauncherInOrder'
  BY DEF Truthful, HostInOrder, LauncherInOrder, process
<1>5. Fate' = Fate
  BY DEF Fate, Closing
<1> QED
  BY <1>2, <1>3, <1>4, <1>5 DEF Truthful

LEMMA DispatchKept == Truthful /\ Dispatch => Kept
<1> SUFFICES ASSUME Truthful, Dispatch PROVE Kept
  OBVIOUS
<1>1. code = "none" /\ host = "none" /\ console = "none" /\ plugin = "none"
  BY DEF Truthful, LauncherInOrder, HostInOrder, Dispatch
<1>2. FateStands /\ Closing' = Closing
  BY <1>1 DEF Dispatch, FateStands, Closing
<1>3. EventsHonest'
  BY <1>2, RestHonest DEF Truthful, Dispatch
<1>4. Truthful'
  BY <1>1, <1>3 DEF Dispatch, Truthful, TypeOK, HostInOrder, LauncherInOrder, SuccessIsTrue
<1>5. Fate' = Fate
  BY <1>2 DEF Dispatch, Fate
<1>6. PortStep
  BY <1>1, <1>5 DEF Dispatch, PortStep, Port!vars, Port!Next, Port!Start, Phase, Owned
<1> QED
  BY <1>4, <1>6 DEF Kept

\* The launcher goes on, gives up or is done: the port's Start.
LEMMA LaunchKept ==
  Truthful /\ (Accepted \/ SendArgv \/ Report \/ GiveUp \/ CloseFailed) => Kept
<1> SUFFICES ASSUME Truthful, Accepted \/ SendArgv \/ Report \/ GiveUp \/ CloseFailed
             PROVE  Kept
  OBVIOUS
<1>1. /\ gui \in {"accept", "send", "report", "give_up", "close"} /\ code = "none"
      /\ gui' \in {"send", "report", "give_up", "close", "failed", "owned"}
      /\ UNCHANGED <<process, plugin, console, code>>
      /\ guiEnd' \in {"none", "open", "closed"}
  BY DEF Truthful, TypeOK, LauncherInOrder, Accepted, SendArgv, Report, GiveUp, CloseFailed
<1>2. /\ UNCHANGED toGui \/ (toGui # <<>> /\ toGui' = Tail(toGui))
      /\ \/ UNCHANGED toHost
         \/ \E command \in {"argv", "terminate", "kill"} : toHost' = Append(toHost, command)
  BY DEF Accepted, SendArgv, Report, GiveUp, CloseFailed
<1>3. Truthful' /\ Fate' = Fate
  BY <1>1, <1>2, GuiKeeps DEF SuccessIsTrue
<1>4. PortStep
  BY <1>1, <1>3 DEF PortStep, Port!vars, Port!Next, Port!Start, Phase, Owned
<1> QED
  BY <1>3, <1>4 DEF Kept

\* What is read is recorded as a success only if it is one: the port's Answer.
LEMMA PollKept == Truthful /\ Poll => Kept
<1> SUFFICES ASSUME Truthful, Poll PROVE Kept
  OBVIOUS
<1>1. /\ gui \in {"owned", "wait", "reap"} /\ code = "none"
      /\ UNCHANGED <<gui, process, toHost, plugin, console>>
      /\ UNCHANGED toGui \/ (toGui # <<>> /\ toGui' = Tail(toGui))
  BY DEF Poll
<1>2. /\ code' \in Codes \cup {"none"} /\ guiEnd' \in {"none", "open", "closed"}
      /\ code' = "zero" => plugin = "zero" \/ Closing
  <2>1. CASE toGui # <<>>
    <3>1. Head(toGui) \in Events /\ Backed(Head(toGui))
      BY <2>1, ReadHonest DEF Truthful
    <3>2. CASE Head(toGui) = "started"
      BY <2>1, <3>2, <1>1 DEF Poll, Codes, Truthful, TypeOK
    <3>3. CASE Head(toGui) = "console_closed"
      BY <2>1, <3>1, <3>3 DEF Poll, Codes, RecordExit, Backed
    <3>4. CASE Head(toGui) \in Codes
      BY <2>1, <3>1, <3>4 DEF Poll, Codes, RecordExit, Backed
    <3> QED
      BY <3>1, <3>2, <3>3, <3>4 DEF Events, Codes
  <2>2. CASE toGui = <<>>
    BY <2>2 DEF Poll, RecordExit, Codes
  <2> QED
    BY <2>1, <2>2
<1>3. SuccessIsTrue'
  BY <1>1, <1>2 DEF SuccessIsTrue, Closing
<1>4. Truthful' /\ Fate' = Fate
  BY <1>1, <1>2, <1>3, GuiKeeps
<1>5. PortStep
  <2>1. CASE code' = "none"
    BY <1>1, <1>4, <2>1, SamePhase DEF PortStep, Port!vars
  <2>2. CASE code' \in Codes
    <3>1. code' = "zero" => Fate \cap {"zero", "closed"} # {}
      BY <1>2 DEF Fate, Codes
    <3>2. Port!Answer(code')
      BY <1>1, <1>4, <2>2, <3>1 DEF Port!Answer, Phase, Owned, Codes
    <3> QED
      BY <2>2, <3>2 DEF PortStep, Port!Next, Port!Codes, Codes
  <2> QED
    BY <1>2, <2>1, <2>2
<1> QED
  BY <1>4, <1>5 DEF Kept

\* terminate or kill is written, or its failure recorded as one.
LEMMA CommandKept == Truthful /\ (Terminate \/ Kill) => Kept
<1> SUFFICES ASSUME Truthful, Terminate \/ Kill PROVE Kept
  OBVIOUS
<1>1. /\ gui \in {"terminate", "kill"} /\ gui' \in {"wait", "reap"} /\ code = "none"
      /\ UNCHANGED <<process, toGui, plugin, console>>
  BY DEF Truthful, LauncherInOrder, Terminate, Kill
<1>2. PICK command \in {"terminate", "kill"} : SendCommand(command)
  BY DEF Terminate, Kill
<1>3. /\ code' \in {"none", "nonzero"} /\ guiEnd' \in {"none", "open", "closed"}
      /\ UNCHANGED toHost \/ toHost' = Append(toHost, command)
  BY <1>1, <1>2 DEF SendCommand, RecordExit, Truthful, TypeOK
<1>4. Truthful' /\ Fate' = Fate
  BY <1>1, <1>3, GuiKeeps DEF SuccessIsTrue, Codes
<1>5. CASE code' = "none"
  BY <1>1, <1>4, <1>5 DEF Kept, PortStep, Port!vars, Phase, Owned
<1>6. CASE code' = "nonzero"
  BY <1>1, <1>4, <1>6 DEF Kept, PortStep, Port!Next, Port!Answer, Port!Codes, Phase, Owned
<1> QED
  BY <1>3, <1>4, <1>5, <1>6

\* The owner waits for the plugin or lets it go: the port's LetGo.
LEMMA LeaveKept == Truthful /\ (Stop \/ WaitTooLong \/ Forget \/ Quit) => Kept
<1> SUFFICES ASSUME Truthful, Stop \/ WaitTooLong \/ Forget \/ Quit PROVE Kept
  OBVIOUS
<1>1. /\ gui \in {"owned", "wait", "reap"} /\ gui' \in {"terminate", "kill", "left", "gone"}
      /\ code # "none" => gui' = "left"
      /\ UNCHANGED <<code, process, toHost, toGui, plugin, console>>
      /\ guiEnd' \in {"none", "open", "closed"}
  BY DEF Stop, WaitTooLong, Forget, Quit, Truthful, TypeOK
<1>2. Truthful' /\ Fate' = Fate
  BY <1>1, GuiKeeps DEF Truthful, TypeOK, SuccessIsTrue, Closing
<1>3. PortStep
  BY <1>1, <1>2 DEF PortStep, Port!vars, Port!Next, Port!LetGo, Phase, Owned
<1> QED
  BY <1>2, <1>3 DEF Kept

-----------------------------------------------------------------------------
(* The host, the plugin and the window *)

\* A step of neither the GUI nor the user: the owner sees at most that the
\* plugin has ended.
LEMMA HostKeeps ==
  ASSUME Truthful, UNCHANGED <<gui, code, console>>, host # "none" \/ UNCHANGED host,
         {guiEnd', hostEnd'} \subseteq {"none", "open", "closed"},
         connected' \in BOOLEAN, lost' \in BOOLEAN, handler' \in {"off", "on", "returned"},
         UNCHANGED host \/ host' \in {"receiving", "spawned", "announcing", "watching",
                                      "reclaiming", "reporting", "ended"},
         \/ UNCHANGED plugin
         \/ plugin \notin Codes /\ plugin' \in Codes \cup {"running"},
         host' \in {"none", "connecting", "receiving"} => plugin' = "none",
         host' = "reporting" => plugin' \in Codes,
         UNCHANGED toHost \/ (toHost # <<>> /\ toHost' = Tail(toHost)),
         toGui' \in Seq(Events) /\ EventsHonest'
  PROVE  Kept
<1>1. toHost' \in Seq({"argv", "terminate", "kill"})
  BY CommandTyped DEF Truthful
<1>2. TypeOK'
  BY <1>1 DEF Truthful, TypeOK, Events, Codes
<1>3. HostInOrder' /\ LauncherInOrder'
  BY DEF Truthful, HostInOrder, LauncherInOrder
<1>4. SuccessIsTrue'
  BY DEF Truthful, SuccessIsTrue, Closing, Codes
<1>5. PortStep
  <2>1. CASE plugin \notin Codes /\ plugin' \in Codes
    BY <2>1, EndSeen
  <2>2. CASE UNCHANGED plugin \/ (plugin \notin Codes /\ plugin' = "running")
    <3>1. Fate' = Fate
      BY <2>2 DEF Fate, Closing, Codes
    <3> QED
      BY <3>1, Unseen, SamePhase
  <2> QED
    BY <2>1, <2>2
<1> QED
  BY <1>2, <1>3, <1>4, <1>5 DEF Truthful, Kept

\* A step of the host's side that sends nothing.
LEMMA QuietHostKeeps ==
  ASSUME Truthful, Connect \/ Register \/ Watch \/ SeeEnd \/ CloseHost \/ LoseHost
  PROVE  Kept
<1>1. /\ UNCHANGED <<gui, code, console, toGui>> /\ host # "none"
      /\ UNCHANGED host \/ host' \in {"receiving", "spawned", "announcing", "watching",
                                      "reclaiming", "reporting", "ended"}
  BY DEF Connect, Register, Watch, SeeEnd, CloseHost, LoseHost, EndHost, HostLives,
         launcher, process
<1>2. /\ {guiEnd', hostEnd'} \subseteq {"none", "open", "closed"}
      /\ connected' \in BOOLEAN /\ lost' \in BOOLEAN
      /\ handler' \in {"off", "on", "returned"}
  BY DEF Truthful, TypeOK, Connect, Register, Watch, SeeEnd, CloseHost, LoseHost, EndHost,
         HostLives, launcher, process
<1>3. UNCHANGED plugin \/ (plugin \notin Codes /\ plugin' \in Codes)
  BY DEF Connect, Register, Watch, SeeEnd, CloseHost, LoseHost, Codes
<1>4. UNCHANGED toHost \/ (toHost # <<>> /\ toHost' = Tail(toHost))
  BY DEF Connect, Register, Watch, SeeEnd, CloseHost, LoseHost
<1>5. /\ host' \in {"none", "connecting", "receiving"} => plugin' = "none"
      /\ host' = "reporting" => plugin' \in Codes
  BY DEF Connect, Register, Watch, SeeEnd, CloseHost, LoseHost, EndHost,
         HostLives, launcher, process, Truthful, HostInOrder
<1>6. toGui' \in Seq(Events) /\ EventsHonest'
  BY <1>1, <1>3, RestHonest DEF Truthful, FateStands, Closing, Codes
<1> QED
  BY <1>1, <1>2, <1>3, <1>4, <1>5, <1>6, HostKeeps

LEMMA PluginKept == Truthful /\ (PluginEnds \/ ClosePlugin) => Kept
<1> SUFFICES ASSUME Truthful, PluginEnds \/ ClosePlugin PROVE Kept
  OBVIOUS
<1>1. /\ UNCHANGED <<launcher, process, toHost, toGui, console>>
      /\ plugin = "running" /\ plugin' \in Codes
      /\ host \notin {"none", "connecting", "receiving"}
  BY DEF PluginEnds, ClosePlugin, Truthful, HostInOrder
<1>2. toGui' \in Seq(Events) /\ EventsHonest'
  BY <1>1, RestHonest DEF Truthful, FateStands, Closing
<1> QED
  BY <1>1, <1>2, HostKeeps DEF launcher, process, Truthful, TypeOK, Codes

\* The host starts the plugin, or says that it could not.
LEMMA ReceiveKept == Truthful /\ Receive => Kept
<1> SUFFICES ASSUME Truthful, Receive PROVE Kept
  OBVIOUS
<1>1. /\ host = "receiving" /\ plugin = "none" /\ plugin' \in {"none", "running"}
      /\ host' \in {"spawned", "ended"}
      /\ UNCHANGED <<launcher, connected, handler, lost, console>>
      /\ UNCHANGED toHost \/ (toHost # <<>> /\ toHost' = Tail(toHost))
      /\ hostEnd' \in {"none", "open", "closed"}
  BY DEF Receive, EndHost, Truthful, HostInOrder, TypeOK
<1>2. toGui' \in Seq(Events) /\ EventsHonest'
  <2>1. CASE UNCHANGED toGui
    BY <1>1, <2>1, RestHonest DEF Truthful, FateStands, Closing
  <2>2. CASE SendEvent("nonzero")
    BY <1>1, <2>2, SendHonest DEF Truthful, FateStands, Closing, Events, Backed
  <2> QED
    BY <2>1, <2>2 DEF Receive
<1> QED
  BY <1>1, <1>2, HostKeeps DEF launcher, Truthful, TypeOK, Codes

\* The host tells of a start, of a plugin it stopped and of an end it saw.
LEMMA TellKept == Truthful /\ (Announce \/ Reclaim \/ ReportEnd) => Kept
<1> SUFFICES ASSUME Truthful, Announce \/ Reclaim \/ ReportEnd PROVE Kept
  OBVIOUS
<1>1. /\ host \in {"announcing", "reclaiming", "reporting"}
      /\ host' \in {"watching", "reclaiming", "ended"}
      /\ UNCHANGED <<launcher, connected, lost, toHost, console>>
      /\ UNCHANGED plugin \/ (plugin \notin Codes /\ plugin' \in Codes)
      /\ hostEnd' \in {"none", "open", "closed"} /\ handler' \in {"off", "on", "returned"}
  BY DEF Announce, Reclaim, ReportEnd, EndHost, Truthful, TypeOK, Codes
<1>2. FateStands
  BY <1>1 DEF FateStands, Closing, Codes
<1>3. toGui' \in Seq(Events) /\ EventsHonest'
  <2>1. CASE UNCHANGED toGui
    BY <1>2, <2>1, RestHonest DEF Truthful
  <2>2. CASE SendEvent("started") \/ SendEvent("nonzero")
    BY <1>2, <2>2, SendHonest DEF Truthful, Events, Backed
  <2>3. CASE ReportEnd /\ SendEvent(plugin)
    <3>1. PICK event \in Codes : plugin = event /\ plugin' = event
      BY <2>3 DEF ReportEnd, Truthful, HostInOrder
    <3>2. event \in Events /\ Backed(event)' /\ SendEvent(event)
      BY <2>3, <3>1 DEF Codes, Events, Backed, SendEvent
    <3> QED
      BY <1>2, <3>2, SendHonest DEF Truthful
  <2> QED
    BY <2>1, <2>2, <2>3 DEF Announce, Reclaim, ReportEnd
<1> QED
  BY <1>1, <1>3, HostKeeps DEF launcher, Truthful, TypeOK

\* The handler says that the window is being closed, which it is.
LEMMA OnControlKept == Truthful /\ OnControl => Kept
<1> SUFFICES ASSUME Truthful, OnControl PROVE Kept
  OBVIOUS
<1>1. /\ Closing /\ handler' = "returned" /\ host # "none"
      /\ UNCHANGED <<launcher, host, hostEnd, connected, lost, toHost, plugin, console>>
  BY DEF OnControl, HostLives
<1>2. FateStands /\ Backed("console_closed")'
  BY <1>1 DEF FateStands, Closing, Backed
<1>3. toGui' \in Seq(Events) /\ EventsHonest'
  BY <1>2, SendHonest DEF Truthful, OnControl, Events
<1> QED
  BY <1>1, <1>3, HostKeeps DEF launcher, Truthful, TypeOK, HostInOrder

\* The user closes the window: for the port, something that happened.
LEMMA CloseWindowKept == Truthful /\ CloseWindow => Kept
<1> SUFFICES ASSUME Truthful, CloseWindow PROVE Kept
  OBVIOUS
<1>1. /\ console = "open" /\ console' \in {"closing_live", "closing"}
      /\ UNCHANGED <<launcher, process, toHost, toGui, plugin>>
  BY DEF CloseWindow
<1>2. EventsHonest'
  BY <1>1, RestHonest DEF Truthful, FateStands, Closing
<1>3. gui # "dispatch"
  BY <1>1 DEF Truthful, LauncherInOrder
<1>4. Truthful'
  BY <1>1, <1>2, <1>3 DEF Truthful, TypeOK, HostInOrder, LauncherInOrder, SuccessIsTrue,
                          launcher, process, Closing
<1>5. Fate' = Fate \cup {"closed"}
  BY <1>1 DEF Fate, Closing
<1>6. Port!Happen("closed")
  BY <1>1, <1>5, SamePhase DEF Port!Happen, launcher
<1> QED
  BY <1>4, <1>6 DEF Kept, PortStep, Port!Next

LEMMA StepKept == Truthful /\ [TerminalNext]_terminalVars => Kept
<1> SUFFICES ASSUME Truthful, [TerminalNext]_terminalVars PROVE Kept
  OBVIOUS
<1>1. CASE UNCHANGED terminalVars
  <2>1. Truthful'
    BY <1>1 DEF terminalVars, launcher, process, Truthful, TypeOK, EventsHonest, Backed, HostInOrder,
                LauncherInOrder, SuccessIsTrue, Closing
  <2>2. Phase' = Phase /\ Fate' = Fate /\ UNCHANGED code
    BY <1>1 DEF terminalVars, launcher, Phase, Owned, Fate, Closing
  <2> QED
    BY <2>1, <2>2, Unseen DEF Kept
<1>2. CASE GuiStep
  BY <1>2, DispatchKept, LaunchKept, PollKept, CommandKept, LeaveKept DEF GuiStep
<1>3. CASE HostStep
  BY <1>3, QuietHostKeeps, ReceiveKept, TellKept DEF HostStep
<1>4. CASE WindowStep
  BY <1>4, PluginKept, OnControlKept, QuietHostKeeps DEF WindowStep
<1>5. CASE Stop \/ WaitTooLong \/ Quit \/ PluginEnds \/ CloseWindow \/ LoseHost
  BY <1>5, LeaveKept, PluginKept, CloseWindowKept, QuietHostKeeps
<1> QED
  BY <1>1, <1>2, <1>3, <1>4, <1>5 DEF TerminalNext

LEMMA StartKept == TerminalInit => Truthful /\ Port!Init
<1> SUFFICES ASSUME TerminalInit PROVE Truthful /\ Port!Init
  OBVIOUS
<1>1. TypeOK
  <2>1. /\ toHost \in Seq({"argv", "terminate", "kill"})
        /\ toGui \in Seq({"started", "zero", "nonzero", "console_closed"})
    BY DEF TerminalInit
  <2>2. connected \in BOOLEAN /\ lost \in BOOLEAN
    BY DEF TerminalInit
  <2> QED
    BY <2>1, <2>2 DEF TerminalInit, TypeOK, Codes
<1>2. Port!Init
  BY DEF TerminalInit, Port!Init, Phase, Owned, Fate, Closing, Codes
<1> QED
  BY <1>1, <1>2 DEF TerminalInit, Truthful, EventsHonest, HostInOrder, LauncherInOrder, SuccessIsTrue

-----------------------------------------------------------------------------

\* A session that is recorded as a success ended as one: an end of the pipe, a
\* killed host and a plugin that was terminated never become an exit code of 0
\* (_TerminalSessionProcess.poll, session_host.main).
THEOREM TerminalSuccess == TerminalSpec => []SuccessIsTrue
<1>1. Truthful /\ [TerminalNext]_terminalVars => Truthful'
  BY StepKept DEF Kept
<1>2. Truthful => SuccessIsTrue
  BY DEF Truthful
<1> QED
  BY <1>1, <1>2, StartKept, PTL DEF TerminalSpec

\* A terminal takes no step that the runners' view of a process has not: one
\* process or a refusal, one exit code, and none once it was let go
\* (_TerminalSessionProcess, the port SessionProcess of the session runners).
THEOREM TerminalIsAProcess == TerminalSpec => Port!Steps
<1>1. Truthful /\ [TerminalNext]_terminalVars => Truthful' /\ [Port!Next]_(Port!vars)
  BY StepKept DEF Kept, PortStep
<1> QED
  BY <1>1, StartKept, PTL DEF TerminalSpec, Port!Steps
=============================================================================
