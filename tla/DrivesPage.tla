----------------------------- MODULE DrivesPage -----------------------------
(***************************************************************************)
(* The page of the S3 mounts and S3DriveService behind it.  Every call of  *)
(* the service is a job on a worker thread and waits there for the lock of *)
(* the service; its answer is a callback in the GUI thread.  A timer lists *)
(* the mounts every three seconds.  Connecting may ask for an MFA code and *)
(* can be cancelled.  shutdown is the first link of the window's quit.     *)
(***************************************************************************)
EXTENDS WinFsp, FiniteSets

CONSTANTS Profiles, Drives, Home

ASSUME HomeAssumption == Home \in [Drives -> Profiles] /\ Nobody \notin Profiles \cup Drives

VARIABLES
  profile,   \* _profile_id
  items,     \* the rows: "none", "off" or "on" of every drive
  editing,   \* _editing_id
  dirty, busy, loading,
  handle,    \* _task: a connection can be cancelled
  cancelReq, \* _cancel_requested
  shutting,  \* _shutdown is set
  timer,     \* the refresh timer runs
  jobs,      \* the tasks of the page
  gate,      \* S3DriveService._closing
  saved,     \* the drives of the store
  mounted    \* the drives rclone has mounted

editorVars == <<editing, dirty>>
workVars == <<busy, handle, cancelReq>>
serviceVars == <<gate, saved, mounted>>
pageVars == <<profile, items, editorVars, workVars, loading, shutting, timer, jobs, serviceVars>>

NoRows == [d \in Drives |-> "none"]
Job(kind, d, p) ==
  [kind |-> kind, drive |-> d, profile |-> p, at |-> "queued", out |-> "none",
   cancelled |-> FALSE, also |-> FALSE, rows |-> NoRows]

Rows(p) == [d \in Drives |-> IF d \notin saved \/ Home[d] # p THEN "none"
                             ELSE IF d \in mounted THEN "on" ELSE "off"]

\* The page of profile p, its rows listed.
PageInit(p) ==
  /\ saved \in SUBSET Drives /\ mounted \in SUBSET saved
  /\ profile = p /\ items = Rows(p) /\ editing = Nobody
  /\ dirty = FALSE /\ busy = FALSE /\ loading = FALSE /\ handle = FALSE
  /\ cancelReq = FALSE /\ shutting = FALSE
  /\ timer = TRUE /\ jobs = {} /\ gate = FALSE

Selected == IF editing # Nobody /\ items[editing] # "none" THEN editing ELSE Nobody
Off == \A d \in Drives : d = Selected => items[d] = "off"
Enabled == ~busy /\ ~shutting /\ profile # Nobody
Dialogs == ask # NoAsk \/ \E t \in jobs : t.at = "dialog"

Fill(d) == editing' = d /\ dirty' = FALSE

-----------------------------------------------------------------------------
(* What the page submits *)

\* refresh(), when the profile is p and no list is under way.
Listing(p, free) == IF free /\ ~shutting /\ p # Nobody THEN {Job("list", Nobody, p)} ELSE {}
\* A second shutdown may be submitted while the first one runs.
Stopping == [Job("shutdown", Nobody, Nobody)
             EXCEPT !.also = \E t \in jobs : t.kind = "shutdown"]

Works(t) == busy' = TRUE /\ jobs' = jobs \cup {t} /\ UNCHANGED <<handle, cancelReq>>
Connecting(d) == Job("connect", d, Home[d])
Connects(d) ==
  busy' = TRUE /\ handle' = TRUE /\ jobs' = jobs \cup {Connecting(d)} /\ UNCHANGED cancelReq

\* save(): a drive without an id gets one from the store.
Saves(also) ==
  \E d \in IF editing = Nobody
           THEN {e \in Drives \ saved : Home[e] = profile /\ \A t \in jobs : t.drive # e}
           ELSE {editing} :
    Works([Job(IF editing = Nobody THEN "create" ELSE "save", d, profile) EXCEPT !.also = also])

SetProfile(p) ==
  /\ profile' = p
  /\ IF p = profile THEN UNCHANGED <<items, editorVars>> ELSE items' = NoRows /\ Fill(Nobody)
  /\ jobs' = jobs \cup Listing(p, ~loading)
  /\ loading' = (loading \/ Listing(p, TRUE) # {})
  /\ UNCHANGED <<workVars, shutting, timer, serviceVars>>

TimerLists ==
  /\ timer /\ Listing(profile, ~loading) # {}
  /\ jobs' = jobs \cup Listing(profile, TRUE) /\ loading' = TRUE
  /\ UNCHANGED <<profile, items, editorVars, workVars, shutting, timer, serviceVars>>

-----------------------------------------------------------------------------
(* The user *)

Edit(d) ==
  /\ ~Dialogs /\ ~busy /\ profile # Nobody
  /\ d \in {Nobody} \cup {e \in Drives : items[e] # "none"}
  /\ editing # d \/ dirty
  /\ Fill(d)
  /\ UNCHANGED <<profile, items, workVars, loading, shutting, timer, jobs, serviceVars>>

Type ==
  /\ ~Dialogs /\ Enabled /\ Off /\ ~dirty /\ dirty' = TRUE
  /\ UNCHANGED <<profile, items, editing, workVars, loading, shutting, timer, jobs, serviceVars>>

Save ==
  /\ ~Dialogs /\ Enabled /\ Off /\ dirty /\ Saves(FALSE)
  /\ UNCHANGED <<profile, items, editorVars, loading, shutting, timer, serviceVars>>

\* cancel(), of the button and of shutdown.
Cancels ==
  IF handle /\ ~cancelReq
  THEN /\ cancelReq' = TRUE
       /\ jobs' = {IF t.kind = "connect" THEN [t EXCEPT !.cancelled = TRUE] ELSE t : t \in jobs}
       /\ UNCHANGED <<editorVars, busy, handle>>
  ELSE /\ IF busy THEN UNCHANGED editorVars ELSE Fill(Selected)
       /\ UNCHANGED <<workVars, jobs>>

\* The one button that starts, cancels and ends a connection.
Toggle ==
  /\ ~Dialogs /\ ~shutting /\ ~cancelReq
  /\ \/ handle /\ Cancels
     \/ /\ ~handle /\ Enabled /\ ~Off
        /\ Works(Job("disconnect", Selected, profile)) /\ UNCHANGED editorVars
     \/ /\ ~handle /\ Enabled /\ Off /\ ready /\ Selected # Nobody /\ ~dirty
        /\ Connects(Selected) /\ UNCHANGED editorVars
     \/ /\ ~handle /\ Enabled /\ Off /\ ready /\ (Selected = Nobody \/ dirty)
        /\ Saves(TRUE) /\ UNCHANGED editorVars
  /\ UNCHANGED <<profile, items, loading, shutting, timer, serviceVars>>

\* The menu of a row leads to a dialog, and the dialog to a job.
Menu(what, d) ==
  /\ ~Dialogs /\ ~busy /\ ~shutting /\ items[d] # "none"
  /\ what = "rename" => items[d] = "off"
  /\ Asks(what, d, FALSE)
  /\ UNCHANGED pageVars

MenuAnswered ==
  /\ ask.what \in {"rename", "clone", "delete"} /\ ask' = NoAsk
  /\ \/ Works(Job(ask.what, ask.on, profile))
     \/ UNCHANGED <<workVars, jobs>>
  /\ UNCHANGED <<profile, items, editorVars, loading, shutting, timer, serviceVars>>

\* shutdown(): cancels, and waits for the job the page knows of.
Shutdown ==
  /\ shutting' = TRUE /\ Cancels
  /\ UNCHANGED <<profile, items, loading, timer, serviceVars>>

ShutdownNow ==
  /\ shutting' = TRUE /\ ~busy /\ Fill(Selected)
  /\ jobs' = jobs \cup {Stopping}
  /\ UNCHANGED <<profile, items, loading, timer, workVars, serviceVars>>

-----------------------------------------------------------------------------
(* The service, on worker threads *)

Held == \E t \in jobs : t.at = "running"
Returns(t, out) == jobs' = (jobs \ {t}) \cup {[t EXCEPT !.at = "done", !.out = out]}
Queued(t, kinds) == t.at = "queued" /\ t.kind \in kinds

\* list and status take no lock.
WorkList(t) ==
  /\ Queued(t, {"list"})
  /\ jobs' = (jobs \ {t}) \cup {[t EXCEPT !.at = "done", !.out = "ok",
       !.rows = Rows(t.profile)]}
  /\ UNCHANGED serviceVars

\* A mounted drive cannot be edited, a saved one may be gone.
WorkSave(t) ==
  /\ Queued(t, {"create", "save", "rename"}) /\ ~Held
  /\ IF t.kind = "create" \/ t.drive \in saved \ mounted
     THEN saved' = saved \cup {t.drive} /\ Returns(t, "ok")
     ELSE Returns(t, "failed") /\ UNCHANGED saved
  /\ UNCHANGED <<gate, mounted>>

WorkClone(t) ==
  /\ Queued(t, {"clone"}) /\ ~Held
  /\ \/ \E n \in Drives \ saved :
          /\ t.drive \in saved /\ Home[n] = Home[t.drive] /\ \A u \in jobs : u.drive # n
          /\ saved' = saved \cup {n}
          /\ jobs' = (jobs \ {t})
                     \cup {[t EXCEPT !.at = "done", !.out = "ok", !.drive = n]}
     \/ Returns(t, "failed") /\ UNCHANGED saved
  /\ UNCHANGED <<gate, mounted>>

\* Wrong variant: the gate is left to the page.
ConnectBegins_open(t) ==
  /\ Queued(t, {"connect"}) /\ ~Held
  /\ IF t.drive \notin saved THEN Returns(t, "failed")
     ELSE \/ Returns(t, IF t.cancelled THEN "cancelled" ELSE IF t.also THEN "failed" ELSE "mfa")
          \/ ~t.cancelled /\ jobs' = (jobs \ {t}) \cup {[t EXCEPT !.at = "running"]}
  /\ UNCHANGED serviceVars

\* connect(): the gate, the drive and its credentials come first; the request
\* that was resumed with a code (also) asks no second time.
ConnectBegins(t) ==
  /\ Queued(t, {"connect"}) /\ ~Held
  /\ IF gate \/ t.drive \notin saved THEN Returns(t, "failed")
     ELSE \/ Returns(t, IF t.cancelled THEN "cancelled" ELSE IF t.also THEN "failed" ELSE "mfa")
          \/ ~t.cancelled /\ jobs' = (jobs \ {t}) \cup {[t EXCEPT !.at = "running"]}
  /\ UNCHANGED serviceVars

ConnectEnds(t) ==
  /\ t.at = "running"
  /\ \/ mounted' = mounted \cup {t.drive} /\ Returns(t, "ok")
     \/ t.cancelled /\ Returns(t, "cancelled") /\ UNCHANGED mounted
     \/ ~t.cancelled /\ Returns(t, "failed") /\ UNCHANGED mounted
  /\ UNCHANGED <<gate, saved>>

\* A drive in use or with an upload pending stays mounted.
WorkDisconnect(t) ==
  /\ Queued(t, {"disconnect", "delete"}) /\ ~Held
  /\ \/ /\ t.drive \in saved
        /\ mounted' = mounted \ {t.drive}
        /\ saved' = IF t.kind = "delete" THEN saved \ {t.drive} ELSE saved
        /\ Returns(t, "ok")
     \/ /\ t.drive \notin saved \/ (t.drive \in mounted /\ "unmount" \in Faults)
        /\ Returns(t, "failed") /\ UNCHANGED <<saved, mounted>>
  /\ UNCHANGED gate

\* shutdown(): every drive is tried; the gate opens again when one failed.
WorkShutdown(t) ==
  /\ Queued(t, {"shutdown"}) /\ ~Held
  /\ \E stuck \in SUBSET mounted :
       /\ stuck # {} => "unmount" \in Faults
       /\ mounted' = stuck /\ gate' = (stuck = {})
       /\ Returns(t, IF stuck = {} THEN "ok" ELSE "failed")
  /\ UNCHANGED saved

PageWork(t) ==
  /\ \/ WorkList(t) \/ WorkSave(t) \/ WorkClone(t) \/ ConnectBegins(t) \/ ConnectEnds(t)
     \/ WorkDisconnect(t) \/ WorkShutdown(t)
  /\ UNCHANGED <<profile, items, editorVars, workVars, loading, shutting, timer>>

-----------------------------------------------------------------------------
(* The callbacks, in the GUI thread *)

Came(t, kinds, out) == t.at = "done" /\ t.kind \in kinds /\ t.out = out

\* Wrong variant: the list is read again before the flag of the one that ran is cleared.
DeliverList_stale(t) ==
  /\ Came(t, {"list"}, "ok")
  /\ IF t.profile # profile
     THEN /\ jobs' = (jobs \ {t}) \cup Listing(profile, ~loading)
          /\ UNCHANGED loading
          /\ UNCHANGED <<items, editorVars>>
     ELSE /\ jobs' = jobs \ {t} /\ loading' = FALSE
          /\ items' = t.rows
          /\ IF editing # Nobody /\ t.rows[editing] = "none" /\ ~dirty
             THEN Fill(Nobody) ELSE UNCHANGED editorVars
  /\ UNCHANGED <<profile, workVars, shutting, timer, serviceVars>>

\* loaded(): rows of another profile are dropped and the list is read again.
DeliverList(t) ==
  /\ Came(t, {"list"}, "ok")
  /\ IF t.profile # profile
     THEN /\ jobs' = (jobs \ {t}) \cup Listing(profile, TRUE)
          /\ loading' = (Listing(profile, TRUE) # {})
          /\ UNCHANGED <<items, editorVars>>
     ELSE /\ jobs' = jobs \ {t} /\ loading' = FALSE
          /\ items' = t.rows
          /\ IF editing # Nobody /\ t.rows[editing] = "none" /\ ~dirty
             THEN Fill(Nobody) ELSE UNCHANGED editorVars
  /\ UNCHANGED <<profile, workVars, shutting, timer, serviceVars>>

\* A slip: a quit that waited is forgotten.
Done_lists(t) ==
  /\ busy' = FALSE /\ handle' = FALSE /\ cancelReq' = FALSE
  /\ jobs' = (jobs \ {t}) \cup Listing(profile, ~loading)
  /\ loading' = (loading \/ Listing(profile, TRUE) # {})
  /\ UNCHANGED <<profile, shutting, timer, serviceVars>>

\* _done(): the buttons come back; a quit that waited goes on, or the list is read.
Done(t) ==
  /\ busy' = FALSE /\ handle' = FALSE /\ cancelReq' = FALSE
  /\ jobs' = (jobs \ {t}) \cup (IF shutting THEN {Stopping} ELSE Listing(profile, ~loading))
  /\ loading' = (loading \/ Listing(profile, TRUE) # {})
  /\ UNCHANGED <<profile, shutting, timer, serviceVars>>

DeliverSaved(t) ==
  /\ Came(t, {"create", "save", "rename", "clone"}, "ok")
  /\ IF t.profile = profile
     THEN items' = [items EXCEPT ![t.drive] = "off"] /\ Fill(t.drive)
     ELSE UNCHANGED <<items, editorVars>>
  /\ IF t.also /\ t.profile = profile /\ ~shutting
     THEN /\ busy' = TRUE /\ handle' = TRUE /\ cancelReq' = FALSE
          /\ jobs' = (jobs \ {t}) \cup Listing(profile, ~loading) \cup {Connecting(t.drive)}
          /\ loading' = TRUE
          /\ UNCHANGED <<profile, shutting, timer, serviceVars>>
     ELSE Done(t)

DeliverDone(t) ==
  /\ \/ Came(t, {"connect", "disconnect", "delete"}, "ok") \/ Came(t, {"connect"}, "cancelled")
     \/ t.at = "done" /\ t.kind # "shutdown" /\ t.out = "failed"
  /\ IF t.kind = "delete" /\ t.out = "ok" /\ editing = t.drive
     THEN Fill(Nobody) ELSE UNCHANGED editorVars
  /\ Done(t) /\ UNCHANGED items

\* The coordinator asks for a code; without one the request is cancelled.
DeliverMfa(t) ==
  /\ Came(t, {"connect"}, "mfa") /\ ask = NoAsk
  /\ jobs' = (jobs \ {t}) \cup {[t EXCEPT !.at = "dialog"]}
  /\ UNCHANGED <<profile, items, editorVars, workVars, loading, shutting, timer, serviceVars>>

CodeGiven(t) ==
  /\ t.at = "dialog"
  /\ \/ jobs' = (jobs \ {t}) \cup {[t EXCEPT !.at = "queued", !.out = "none", !.also = TRUE]}
     \/ Returns(t, "cancelled")
  /\ UNCHANGED <<profile, items, editorVars, workVars, loading, shutting, timer, serviceVars>>

\* shutdown() succeeded or failed: Window continues or takes the quit back.
DeliverShutdown(t) ==
  /\ t.at = "done" /\ t.kind = "shutdown"
  /\ shutting' = FALSE /\ timer' = (timer /\ ~(t.out = "ok" /\ shutting))
  /\ jobs' = jobs \ {t}
  /\ UNCHANGED <<profile, items, editorVars, workVars, loading, serviceVars>>

PageDeliver(t) ==
  DeliverList(t) \/ DeliverSaved(t) \/ DeliverDone(t) \/ DeliverMfa(t) \/ CodeGiven(t)
=============================================================================
