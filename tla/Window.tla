------------------------------- MODULE Window -------------------------------
(***************************************************************************)
(* MainWindow: which profile is active, what the header says of its        *)
(* session, which profile the pages work with, and the way out.  A profile *)
(* is chosen, checked and refreshed by a chain of tasks, each started by   *)
(* the callback of the one before it; nothing ties an answer to the choice *)
(* that is current when it comes.  Quitting goes through the page of the   *)
(* mounts (DrivesPage), the page of the transfers and the page of the      *)
(* tunnels, one after the other, and is put off by an installation (WinFsp).*)
(***************************************************************************)
EXTENDS DrivesPage

CONSTANTS
  MaxPresses, \* a bound: the user's actions in a behaviour of an area
  Areas       \* a bound: what they are about, one area in a behaviour

ASSUME AreasAssumption ==
  Areas \subseteq {"profiles", "mounts", "driver"} /\ MaxPresses \in [Areas -> Nat]

VARIABLES
  active,   \* _active_profile_id
  header,   \* the profile and the session state the sidebar shows
  feature,  \* the profile of the EC2, RDS, Secrets and S3 pages
  missed,   \* history: what has failed since header and active profile were last set together
  known,    \* _profile_summaries
  tasks,    \* the tasks of the window
  stored, deflt, session, \* the store: the profiles, the default, who has a session
  closing,  \* _closing
  stage,    \* the link of the quit chain that is awaited
  area, presses,
  overlap   \* two choices of a profile were under way at the same time

choiceVars == <<active, header, feature, missed, known>>
storeVars == <<stored, deflt, session>>
quitVars == <<closing, stage>>
winVars == <<choiceVars, tasks, storeVars, quitVars, area, presses, overlap>>
vars == <<fspVars, ask, pageVars, winVars>>

Task(kind, p) == [kind |-> kind, profile |-> p, at |-> "queued", out |-> "none",
                  then |-> "none", rows |-> {}, first |-> Nobody]
Header(p, state) == [profile |-> p, state |-> state]

\* The window after the first load, its default profile checked.  A behaviour is
\* about one area: the mounts of one profile, the driver, or the profiles.
Init ==
  /\ area \in Areas
  /\ stored \in IF area = "driver" THEN {{}}
                ELSE IF area = "mounts" THEN {{p} : p \in Profiles} ELSE SUBSET Profiles
  /\ deflt \in IF stored = {} THEN {Nobody} ELSE stored
  /\ session \in [Profiles -> BOOLEAN]
  /\ \A p \in Profiles : /\ session[p] => p \in stored
                         /\ area = "mounts" /\ p \in stored => session[p]
  /\ known = stored /\ active = deflt /\ missed = {}
  /\ header = Header(deflt, IF stored = {} THEN "empty"
                            ELSE IF session[deflt] THEN "valid" ELSE "invalid")
  /\ feature = IF header.state = "valid" THEN deflt ELSE Nobody
  /\ FspInit(area # "driver") /\ PageInit(deflt)
  /\ \A d \in saved : Home[d] \in stored
  /\ area = "profiles" => \A d \in Drives : Home[d] \in stored <=> d \in mounted
  /\ tasks = {} /\ closing = FALSE /\ stage = "open" /\ presses = 0 /\ overlap = FALSE

Choices == {t \in tasks : t.kind \notin {"save", "clone", "active", "delete"}}
Modal == Dialogs \/ \E t \in tasks : t.at = "dialog"
Press(a) ==
  area = a /\ presses < MaxPresses[a] /\ presses' = presses + 1 /\ UNCHANGED area
Adds(new) ==
  /\ tasks' = tasks \cup new
  /\ overlap' = (overlap \/ (Choices # {} /\ \E t \in new : t.kind \in {"list", "use", "refresh"}))
Chain(t, new) == tasks' = (tasks \ {t}) \cup new /\ UNCHANGED overlap
Reloads(t, p) ==
  /\ tasks' = (tasks \ {t}) \cup {Task("list", p)}
  /\ overlap' = (overlap \/ Choices \ {t} # {})

-----------------------------------------------------------------------------
(* The user *)

\* connect_profile: the header is checking the profile before it is the active one.
ConnectProfile(p) ==
  /\ Press("profiles") /\ ~Modal /\ p \in known
  /\ header' = Header(p, "checking") /\ Adds({Task("use", p)})
  /\ UNCHANGED <<fspVars, ask, pageVars, active, feature, missed, known, storeVars, quitVars>>

\* refresh_token: _start_refresh locks the action until the answer, but the menu is
\* built anew each time it is shown, with the action enabled.
StartsRefresh(p, then) == [Task("refresh", p) EXCEPT !.then = then]
RefreshToken ==
  /\ Press("profiles") /\ ~Modal /\ active # Nobody
  /\ Adds({StartsRefresh(active, "discard")})
  /\ UNCHANGED <<fspVars, ask, pageVars, choiceVars, storeVars, quitVars>>

\* Saving and cloning, from the dialog of the profiles; a deletion looks for
\* connections first and asks then.
Manage(kind, p) ==
  /\ Press("profiles") /\ ~Modal
  /\ \/ kind \in {"save", "clone"} /\ \A t \in tasks : t.kind \notin {"save", "clone"}
     \/ kind = "active" /\ p \in known /\ Task(kind, p) \notin tasks
  /\ Adds({Task(kind, p)})
  /\ UNCHANGED <<fspVars, ask, pageVars, choiceVars, storeVars, quitVars>>

DeleteAnswered ==
  /\ ask.what = "profile" /\ ask' = NoAsk
  /\ Adds(IF ask.how THEN {Task("delete", ask.on)} ELSE {})
  /\ UNCHANGED <<fspVars, pageVars, choiceVars, storeVars, quitVars, area, presses>>

PagePress ==
  /\ Press("mounts")
  /\ UNCHANGED <<fspVars, choiceVars, tasks, storeVars, quitVars, overlap>>
  /\ \/ (Save \/ Toggle \/ Type \/ \E d \in Drives \cup {Nobody} : Edit(d)) /\ UNCHANGED ask
     \/ \E d \in Drives, what \in {"rename", "clone", "delete"} : Menu(what, d)

FspPress ==
  /\ Press("driver") /\ ~Modal
  /\ \E w \in Widgets : Refresh(w) \/ Install(w)
  /\ UNCHANGED <<pageVars, choiceVars, tasks, storeVars, quitVars, overlap>>

\* The tray's quit, also over a dialog: refused while a widget observes an installation.
RequestQuit ==
  /\ area # "profiles" /\ ~closing /\ \A w \in Widgets : ~setup[w].busy
  /\ closing' = TRUE /\ stage' = IF stage = "open" THEN "drives" ELSE stage
  /\ (busy /\ Shutdown) \/ ShutdownNow
  /\ UNCHANGED <<fspVars, ask, choiceVars, tasks, storeVars, area, presses, overlap>>

Answered ==
  /\ (MenuAnswered /\ UNCHANGED fspVars) \/ (InstallAnswered /\ UNCHANGED pageVars)
  /\ UNCHANGED winVars

-----------------------------------------------------------------------------
(* The worker threads *)

Back(t, out) == tasks' = (tasks \ {t}) \cup {[t EXCEPT !.at = "done", !.out = out]}
At(t, kinds) == t.at = "queued" /\ t.kind \in kinds
Quiet == UNCHANGED <<fspVars, ask, choiceVars, quitVars, area, presses, overlap>>

WorkRead(t) ==
  /\ \/ /\ At(t, {"list"})
        /\ tasks' = (tasks \ {t}) \cup
             {[t EXCEPT !.at = "done", !.out = "ok", !.rows = stored, !.first = deflt]}
     \/ /\ At(t, {"status", "validate"}) /\ t.profile \in stored
        /\ Back(t, IF session[t.profile] THEN "valid" ELSE "invalid")
     \/ /\ At(t, {"active"})
        /\ Back(t, IF \E d \in mounted : Home[d] = t.profile THEN "some" ELSE "ok")
  /\ Quiet /\ UNCHANGED <<pageVars, storeVars>>

WorkWrite(t) ==
  /\ \/ /\ At(t, {"use"}) /\ t.profile \in stored
        /\ deflt' = t.profile /\ Back(t, "ok") /\ UNCHANGED <<stored, session>>
     \/ /\ At(t, {"save"})  \* a profile that is changed loses its session
        /\ stored' = stored \cup {t.profile}
        /\ deflt' = IF stored = {} THEN t.profile ELSE deflt
        /\ session' = [session EXCEPT ![t.profile] = FALSE] /\ Back(t, "ok")
     \/ /\ At(t, {"clone"}) /\ \E p \in Profiles \ stored :
             /\ stored' = stored \cup {p} /\ UNCHANGED <<deflt, session>>
             /\ tasks' = (tasks \ {t})
                         \cup {[t EXCEPT !.at = "done", !.out = "ok", !.profile = p]}
  /\ Quiet /\ UNCHANGED pageVars

\* Every call may fail, also for a profile that is stored: validate asks STS with the
\* long-lived keys, the store may be locked, another process may have deleted the row.
Fails(t) ==
  /\ At(t, {"list", "status", "validate", "active", "use", "save", "clone"})
  /\ Back(t, "failed")
  /\ Quiet /\ UNCHANGED <<pageVars, storeVars>>

\* ProfileConnectionLifecycleService.delete, holding the lock of the drives.  It fails
\* before the drives are reached, at some of them after all were tried, or at the row.
WorkDelete(t) ==
  /\ At(t, {"delete"}) /\ ~Held
  /\ LET own == {d \in saved : Home[d] = t.profile} IN
     \/ /\ t.profile \in stored
        /\ mounted' = mounted \ own /\ saved' = saved \ own
        /\ stored' = stored \ {t.profile}
        /\ session' = [session EXCEPT ![t.profile] = FALSE]
        /\ IF deflt # t.profile THEN UNCHANGED deflt
           ELSE IF stored' = {} THEN deflt' = Nobody ELSE deflt' \in stored'
        /\ Back(t, "ok")
     \/ /\ \E stuck \in SUBSET (own \cap mounted) :
             /\ stuck \in {{}, own \cap mounted} \/ "unmount" \in Faults
             /\ mounted' = (mounted \ own) \cup stuck
        /\ Back(t, "failed") /\ UNCHANGED <<saved, storeVars>>
  /\ Quiet
  /\ UNCHANGED <<profile, items, editorVars, workVars, loading, shutting, timer, jobs, gate>>

\* A stored session is reused unless it is discarded; STS may want a code.  What
\* fails has kept the session, or discarded it before.
WorkRefresh(t) ==
  /\ At(t, {"refresh", "resume"})
  /\ \/ /\ t.profile \in stored
        /\ session' = [session EXCEPT ![t.profile] = TRUE] /\ Back(t, "ok")
     \/ /\ t.profile \in stored
        /\ t.kind = "refresh" /\ (t.then = "discard" \/ ~session[t.profile])
        /\ session' = [session EXCEPT ![t.profile] = FALSE] /\ Back(t, "mfa")
     \/ /\ session' \in {session, [session EXCEPT ![t.profile] = FALSE]}
        /\ Back(t, "failed")
  /\ Quiet /\ UNCHANGED <<pageVars, stored, deflt>>

WinWork(t) == WorkRead(t) \/ WorkWrite(t) \/ Fails(t) \/ WorkDelete(t) \/ WorkRefresh(t)

Expires(p) ==
  /\ area = "profiles" /\ session[p] /\ session' = [session EXCEPT ![p] = FALSE]
  /\ UNCHANGED <<fspVars, ask, pageVars, choiceVars, tasks, stored, deflt, quitVars, area, presses, overlap>>

-----------------------------------------------------------------------------
(* The callbacks *)

Returned(t, kinds, outs) == t.at = "done" /\ t.kind \in kinds /\ t.out \in outs
Calm == UNCHANGED <<fspVars, storeVars, quitVars, area, presses>>

\* _profiles_loaded: the profile asked for, or the default.  The page of the
\* mounts follows at once, the other pages when the session is found valid.
Loaded(t) ==
  /\ Returned(t, {"list"}, {"ok"})
  /\ LET p == IF t.profile \in t.rows THEN t.profile ELSE t.first IN
     /\ known' = t.rows /\ active' = p /\ missed' = {} /\ SetProfile(p)
     /\ IF p = Nobody
        THEN /\ header' = Header(Nobody, "empty") /\ feature' = Nobody
             /\ Chain(t, {})
        ELSE /\ header' = Header(p, "checking") /\ UNCHANGED feature
             /\ Chain(t, {Task("status", p)})
  /\ Calm /\ UNCHANGED ask

\* _refresh_feature_data: every page takes the profile.
ShowsPages(p) == feature' = p /\ SetProfile(p)
Keeps == UNCHANGED <<feature, pageVars>>

StatusLoaded(t) ==
  /\ Returned(t, {"status"}, {"valid", "invalid"})
  /\ header' = Header(t.profile, t.out)
  /\ Chain(t, {[Task("validate", t.profile) EXCEPT !.then = "show"]})
  /\ Keeps /\ Calm /\ UNCHANGED <<ask, active, missed, known>>

\* _validated, and _connected_identity_validated that refreshes what is not valid.
Validated(t) ==
  /\ Returned(t, {"validate"}, {"valid", "invalid"})
  /\ header' = Header(t.profile, t.out) /\ missed' = {}
  /\ IF t.out = "valid" THEN ShowsPages(t.profile) ELSE Keeps
  /\ IF t.out = "invalid" /\ t.then = "connect"
     THEN Chain(t, {StartsRefresh(t.profile, "none")})
     ELSE Chain(t, {})
  /\ Calm /\ UNCHANGED <<ask, active, known>>

\* _profile_selected
Chosen(t) ==
  /\ Returned(t, {"use"}, {"ok"})
  /\ active' = t.profile /\ header' = Header(t.profile, "checking") /\ missed' = {}
  /\ Chain(t, {[Task("validate", t.profile) EXCEPT !.then = "connect"]})
  /\ Keeps /\ Calm /\ UNCHANGED <<ask, known>>

\* Wrong variant: the pages wait for the next validation.
Refreshed_header(t) ==
  /\ Returned(t, {"refresh", "resume"}, {"ok"})
  /\ missed' = {} /\ header' = Header(t.profile, "valid") /\ Keeps
  /\ Chain(t, {}) /\ Calm /\ UNCHANGED <<ask, active, known>>

\* _refresh_started, _refresh_resumed and _refresh_completed
Refreshed(t) ==
  /\ Returned(t, {"refresh", "resume"}, {"ok"})
  /\ missed' = {} /\ header' = Header(t.profile, "valid") /\ ShowsPages(t.profile)
  /\ Chain(t, {}) /\ Calm /\ UNCHANGED <<ask, active, known>>

AsksCode(t) ==
  /\ Returned(t, {"refresh"}, {"mfa"}) /\ ask = NoAsk
  /\ Chain(t, {[t EXCEPT !.at = "dialog"]})
  /\ Calm /\ Keeps /\ UNCHANGED <<ask, active, header, missed, known>>

CodeAnswered(t) ==
  /\ t.at = "dialog"
  /\ \/ Chain(t, {Task("resume", t.profile)})
     \/ Chain(t, {[Task("resume", t.profile) EXCEPT !.at = "done", !.out = "cancelled"]})
  /\ Calm /\ Keeps /\ UNCHANGED <<ask, active, header, missed, known>>

\* _show_error, and the cancelled refresh: header and pages stay as they are.
NotDone(t) ==
  /\ t.at = "done" /\ t.out \in {"failed", "cancelled"}
  /\ missed' = missed \cup ({t.kind} \cap {"use", "status", "validate"})
  /\ Chain(t, {}) /\ Keeps /\ Calm /\ UNCHANGED <<ask, active, header, known>>

Managed(t) ==
  /\ \/ Returned(t, {"save", "clone"}, {"ok"}) /\ Reloads(t, t.profile)
     \/ /\ Returned(t, {"delete"}, {"ok"})
        /\ Reloads(t, IF t.profile = active THEN Nobody ELSE active)
  /\ Keeps /\ Calm /\ UNCHANGED <<ask, active, header, missed, known>>

\* The answer says whether connections may be stopped; no is how = FALSE.
AsksDelete(t) ==
  /\ Returned(t, {"active"}, {"ok", "some"}) /\ ~Modal
  /\ \E yes \in BOOLEAN : Asks("profile", t.profile, yes)
  /\ Chain(t, {}) /\ Keeps /\ Calm /\ UNCHANGED <<active, header, missed, known>>

WinDeliver(t) ==
  \/ Loaded(t) \/ StatusLoaded(t) \/ Validated(t) \/ Chosen(t) \/ Refreshed(t) \/ AsksCode(t)
  \/ CodeAnswered(t) \/ NotDone(t) \/ Managed(t) \/ AsksDelete(t)

\* stop_transfers and failed, the callbacks of the page of the mounts.  A failure
\* shows the window again and does not stop a chain that went on.
DrivesStopped(t) ==
  /\ DeliverShutdown(t)
  /\ LET early == stage \in {"open", "drives"} IN
     \/ /\ t.out = "ok" /\ UNCHANGED closing
        /\ stage' = IF early /\ shutting THEN "s3" ELSE stage
     \/ /\ t.out = "failed" /\ closing' = FALSE
        /\ stage' = IF early THEN "open" ELSE stage
  /\ UNCHANGED <<fspVars, ask, choiceVars, tasks, storeVars, area, presses, overlap>>

\* stop_tunnels, then finish and the close event it leads to.
Goes ==
  /\ \/ stage = "s3" /\ stage' = "rds"
     \/ stage = "rds" /\ stage' = "closed"
  /\ UNCHANGED <<fspVars, ask, pageVars, choiceVars, tasks, storeVars, closing, area, presses, overlap>>

-----------------------------------------------------------------------------
(* Together *)

User ==
  \/ \E p \in Profiles : ConnectProfile(p) \/ Manage("save", p) \/ Manage("clone", p)
                         \/ Manage("active", p)
  \/ RefreshToken \/ PagePress \/ FspPress \/ RequestQuit

PageStep(t) == (PageWork(t) \/ PageDeliver(t)) /\ UNCHANGED <<fspVars, ask, winVars>>
FspStep(t) ==
  /\ FspWork(t, mounted # {} \/ Held) \/ FspDeliver(t)
  /\ UNCHANGED <<pageVars, winVars>>

Step(t) == WinWork(t) \/ WinDeliver(t)
Lists == TimerLists /\ UNCHANGED <<fspVars, ask, winVars>>

Next ==
  /\ stage # "closed"
  /\ \/ User \/ Answered \/ DeleteAnswered \/ Lists \/ Goes
     \/ \E t \in tasks : Step(t)
     \/ \E t \in jobs : PageStep(t) \/ DrivesStopped(t)
     \/ \E t \in checks : FspStep(t)
     \/ \E p \in Profiles : Expires(p)
     \/ area = "driver" /\ Other /\ UNCHANGED <<pageVars, winVars>>

Spec == Init /\ [][Next]_vars

\* Calls return, callbacks run, dialogs are answered, the timer fires.
FairSpec ==
  /\ Spec
  /\ WF_vars(Answered) /\ WF_vars(DeleteAnswered) /\ WF_vars(Lists) /\ WF_vars(Goes)
  /\ WF_vars(\E t \in tasks : Step(t)) /\ WF_vars(\E t \in checks : FspStep(t))
  /\ WF_vars(\E t \in jobs : t.kind = "list" /\ PageStep(t))
  /\ WF_vars(\E t \in jobs : t.kind # "list" /\ (PageStep(t) \/ DrivesStopped(t)))

-----------------------------------------------------------------------------
(* Properties *)

\* The tray: "quit releases the mounts safely": when the window closes no drive is
\* mounted and none is being mounted, whatever was pressed while it was quitting.
QuitReleasesDrives == stage = "closed" => mounted = {} /\ ~Held

\* Once every task has answered, header and active profile are of one profile, and
\* where the header shows a session the pages have followed, provided that no second
\* choice was made while one was under way.  What a failure leaves behind is confined:
\* only a failed `use` leaves the header on a profile that is not active, and checking
\* it; only a failed validation leaves pages behind a header that shows a session.
SettledAgrees ==
  tasks = {} /\ ~overlap =>
    /\ header.profile = active \/ (header.state = "checking" /\ "use" \in missed)
    /\ header.state = "checking" => missed # {}
    /\ header.state = "valid" => profile = active /\ (feature = active \/ "validate" \in missed)

\* A quit ends, with the window or with an error.
QuitEnds == closing ~> (stage = "closed" \/ ~closing)

\* The list of the mounts shows what is mounted, again and again.
RowsCatchUp ==
  []<>(\/ stage # "open" \/ profile = Nobody
       \/ items = Rows(profile))
=============================================================================
