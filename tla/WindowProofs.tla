---------------------------- MODULE WindowProofs ----------------------------
(***************************************************************************)
(* The way out of the window leaves no drive mounted, and the choice of a  *)
(* profile ends with header and pages on one profile: for any profiles and *)
(* drives, any number of the user's actions and callbacks in any order.    *)
(***************************************************************************)
EXTENDS Window, TLAPS

-----------------------------------------------------------------------------
(* The quit: the inductive invariant *)

IsJob(t) ==
  t \in [kind : {t.kind}, drive : {t.drive}, profile : {t.profile}, at : {t.at},
         out : {t.out}, cancelled : {t.cancelled}, also : {t.also}, rows : {t.rows}]

\* Only a connection makes a mount or waits for a code.
JobOK(t) == IsJob(t) /\ (t.at \in {"running", "dialog"} => t.kind = "connect")
Released(t) == t.kind = "shutdown" /\ t.out = "ok"

Passed == stage \in {"s3", "rds", "closed"}

\* As long as the gate of the service is closed nothing is mounted, and the quit
\* passes the page of the mounts only when a shutdown has closed it for good.
QuitInv ==
  /\ \A t \in jobs : JobOK(t)
  /\ gate => mounted = {} /\ ~Held
  /\ Passed => gate
  /\ \A t \in jobs : Released(t) => gate

\* A task that neither mounts nor tells that the service was shut down.
Harmless(t) == JobOK(t) /\ t.at # "running" /\ ~Released(t)

\* A task that was there, with its token cancelled perhaps.
Copies(t, u) == IsJob(t) /\ t.at = u.at /\ t.kind = u.kind /\ t.out = u.out
Familiar(t) == t \in jobs \/ Harmless(t) \/ \E u \in jobs : Copies(t, u)

LEMMA JobsStay ==
  ASSUME QuitInv, UNCHANGED gate, mounted' \subseteq mounted, Passed' => Passed,
         \A t \in jobs' : Familiar(t)
  PROVE  QuitInv'
<1>1. \A t \in jobs' : JobOK(t)
  BY DEF QuitInv, Familiar, Harmless, Copies, JobOK
<1>2. Held' => Held
  BY DEF Held, Familiar, Harmless, Copies
<1>3. \A t \in jobs' : Released(t) => gate
  BY DEF QuitInv, Familiar, Harmless, Copies, Released
<1>4. gate' => mounted' = {} /\ ~Held'
  BY <1>2 DEF QuitInv
<1>5. Passed' => gate'
  BY DEF QuitInv
<1> QED
  BY <1>1, <1>3, <1>4, <1>5 DEF QuitInv, JobOK, IsJob, Released

\* As long as the gate is open there is nothing to keep but the order of the links.
LEMMA GateOpen ==
  ASSUME QuitInv, ~gate, ~gate', UNCHANGED stage,
         \A t \in jobs' : t \in jobs \/ (JobOK(t) /\ ~Released(t))
  PROVE  QuitInv'
BY DEF QuitInv, Passed, Released, JobOK, IsJob

LEMMA JobIsHarmless ==
  ASSUME NEW kind, NEW d, NEW p
  PROVE  Harmless(Job(kind, d, p))
BY DEF Harmless, JobOK, IsJob, Released, Job

LEMMA AlsoIsHarmless ==
  ASSUME NEW kind, NEW d, NEW p, NEW also
  PROVE  Harmless([Job(kind, d, p) EXCEPT !.also = also])
BY DEF Harmless, JobOK, IsJob, Released, Job

LEMMA ListingIsHarmless ==
  ASSUME NEW p, NEW free
  PROVE  \A t \in Listing(p, free) : Harmless(t)
BY JobIsHarmless DEF Listing

LEMMA StoppingIsHarmless == Harmless(Stopping)
BY AlsoIsHarmless DEF Stopping

\* What becomes of a job.
Became(t, at, out) == [t EXCEPT !.at = at, !.out = out]
LEMMA BecameIsJob ==
  ASSUME NEW t, IsJob(t), NEW at, NEW out
  PROVE  /\ IsJob(Became(t, at, out))
         /\ Became(t, at, out).at = at
         /\ Became(t, at, out).out = out
         /\ Became(t, at, out).kind = t.kind
BY DEF IsJob, Became

Moved(t, at) == [t EXCEPT !.at = at]
LEMMA MovedIsJob ==
  ASSUME NEW t, IsJob(t), NEW at
  PROVE  /\ IsJob(Moved(t, at))
         /\ Moved(t, at).at = at
         /\ Moved(t, at).out = t.out
         /\ Moved(t, at).kind = t.kind
BY DEF IsJob, Moved

LEMMA ReturnsFamiliar ==
  ASSUME QuitInv, NEW t \in jobs, NEW out, Returns(t, out),
         t.kind = "shutdown" => out # "ok"
  PROVE  \A u \in jobs' : u \in jobs \/ Harmless(u)
<1>1. IsJob(t)
  BY DEF QuitInv, JobOK
<1>2. Harmless(Became(t, "done", out))
  BY <1>1, BecameIsJob DEF Harmless, JobOK, Released
<1>3. jobs' = (jobs \ {t}) \cup {Became(t, "done", out)}
  BY DEF Returns, Became
<1> QED
  BY <1>2, <1>3

-----------------------------------------------------------------------------
(* The service *)

LEMMA ListWorkQuits ==
  ASSUME QuitInv, NEW t \in jobs, WorkList(t), UNCHANGED stage
  PROVE  QuitInv'
<1> DEFINE u == [t EXCEPT !.at = "done", !.out = "ok", !.rows = Rows(t.profile)]
<1>1. IsJob(t) /\ t.kind = "list"
  BY DEF QuitInv, JobOK, WorkList, Queued
<1>2. IsJob(u) /\ u.at = "done" /\ u.kind = t.kind
  BY <1>1 DEF IsJob
<1>3. Harmless(u)
  BY <1>1, <1>2 DEF Harmless, JobOK, Released
<1>4. jobs' = (jobs \ {t}) \cup {u} /\ UNCHANGED <<gate, mounted>>
  BY DEF WorkList, serviceVars
<1> HIDE DEF u
<1>5. \A v \in jobs' : Familiar(v)
  BY <1>3, <1>4 DEF Familiar
<1> QED
  BY <1>4, <1>5, JobsStay DEF Passed

LEMMA SaveWorkQuits ==
  ASSUME QuitInv, NEW t \in jobs, WorkSave(t) \/ WorkDisconnect(t), UNCHANGED stage
  PROVE  QuitInv'
<1>1. t.kind # "shutdown" /\ UNCHANGED gate /\ mounted' \subseteq mounted
  BY DEF WorkSave, WorkDisconnect, Queued
<1>2. Returns(t, "ok") \/ Returns(t, "failed")
  BY DEF WorkSave, WorkDisconnect
<1>3. \A v \in jobs' : Familiar(v)
  BY <1>1, <1>2, ReturnsFamiliar DEF Familiar
<1> QED
  BY <1>1, <1>3, JobsStay DEF Passed

LEMMA CloneWorkQuits ==
  ASSUME QuitInv, NEW t \in jobs, WorkClone(t), UNCHANGED stage
  PROVE  QuitInv'
<1>1. IsJob(t) /\ t.kind = "clone" /\ UNCHANGED <<gate, mounted>>
  BY DEF QuitInv, JobOK, WorkClone, Queued
<1>2. CASE Returns(t, "failed")
  <2>1. \A v \in jobs' : Familiar(v)
    BY <1>1, <1>2, ReturnsFamiliar DEF Familiar
  <2> QED
    BY <1>1, <2>1, JobsStay DEF Passed
<1>3. CASE \E n \in Drives \ saved :
             jobs' = (jobs \ {t}) \cup {[t EXCEPT !.at = "done", !.out = "ok", !.drive = n]}
  <2>1. PICK n \in Drives \ saved :
          jobs' = (jobs \ {t}) \cup {[t EXCEPT !.at = "done", !.out = "ok", !.drive = n]}
    BY <1>3
  <2> DEFINE u == [t EXCEPT !.at = "done", !.out = "ok", !.drive = n]
  <2>2. IsJob(u) /\ u.at = "done" /\ u.kind = t.kind
    BY <1>1 DEF IsJob
  <2>3. Harmless(u)
    BY <1>1, <2>2 DEF Harmless, JobOK, Released
  <2> HIDE DEF u
  <2>4. \A v \in jobs' : Familiar(v)
    BY <2>1, <2>3 DEF Familiar, u
  <2> QED
    BY <1>1, <2>4, JobsStay DEF Passed
<1> QED
  BY <1>2, <1>3 DEF WorkClone

\* A connection begins only while the gate is open.
LEMMA ConnectBeginsQuits ==
  ASSUME QuitInv, NEW t \in jobs, ConnectBegins(t), UNCHANGED stage
  PROVE  QuitInv'
<1>1. IsJob(t) /\ t.kind = "connect" /\ UNCHANGED <<gate, mounted>>
  BY DEF QuitInv, JobOK, ConnectBegins, Queued, serviceVars
<1>2. CASE \E out : Returns(t, out)
  <2>1. \A v \in jobs' : Familiar(v)
    BY <1>1, <1>2, ReturnsFamiliar DEF Familiar
  <2> QED
    BY <1>1, <2>1, JobsStay DEF Passed
<1>3. CASE ~gate /\ jobs' = (jobs \ {t}) \cup {Moved(t, "running")}
  <2>1. JobOK(Moved(t, "running")) /\ ~Released(Moved(t, "running"))
    BY <1>1, MovedIsJob DEF JobOK, Released
  <2> QED
    BY <1>1, <1>3, <2>1, GateOpen
<1> QED
  BY <1>2, <1>3 DEF ConnectBegins, Moved

LEMMA ConnectEndsQuits ==
  ASSUME QuitInv, NEW t \in jobs, ConnectEnds(t), UNCHANGED stage
  PROVE  QuitInv'
<1>1. IsJob(t) /\ t.kind = "connect" /\ ~gate /\ UNCHANGED gate
  BY DEF QuitInv, JobOK, ConnectEnds, Held
<1>2. PICK out : Returns(t, out)
  BY DEF ConnectEnds
<1>3. \A v \in jobs' : v \in jobs \/ Harmless(v)
  BY <1>1, <1>2, ReturnsFamiliar
<1> QED
  BY <1>1, <1>3, GateOpen DEF Harmless

LEMMA ShutdownWorkQuits ==
  ASSUME QuitInv, NEW t \in jobs, WorkShutdown(t), UNCHANGED stage
  PROVE  QuitInv'
<1>1. IsJob(t) /\ t.kind = "shutdown" /\ ~Held
  BY DEF QuitInv, JobOK, WorkShutdown, Queued
<1>2. PICK stuck \in SUBSET mounted :
        /\ mounted' = stuck /\ gate' = (stuck = {})
        /\ Returns(t, IF stuck = {} THEN "ok" ELSE "failed")
  BY DEF WorkShutdown
<1>3. CASE stuck = {}
  <2>1. jobs' = (jobs \ {t}) \cup {Became(t, "done", "ok")} /\ mounted' = {} /\ gate'
    BY <1>2, <1>3 DEF Returns, Became
  <2>2. JobOK(Became(t, "done", "ok")) /\ Became(t, "done", "ok").at = "done"
    BY <1>1, BecameIsJob DEF JobOK
  <2>3. \A v \in jobs' : JobOK(v) /\ v.at # "running"
    BY <1>1, <2>1, <2>2 DEF QuitInv, Held
  <2> QED
    BY <2>1, <2>3 DEF QuitInv, Held, JobOK, IsJob
<1>4. CASE stuck # {}
  <2>1. ~gate /\ ~gate'
    BY <1>2, <1>4 DEF QuitInv
  <2>2. Returns(t, "failed")
    BY <1>2, <1>4
  <2>3. \A v \in jobs' : v \in jobs \/ Harmless(v)
    BY <2>2, ReturnsFamiliar
  <2> QED
    BY <2>1, <2>3, GateOpen DEF Harmless
<1> QED
  BY <1>3, <1>4

LEMMA PageWorkQuits ==
  ASSUME QuitInv, NEW t \in jobs, PageWork(t), UNCHANGED stage
  PROVE  QuitInv'
BY ListWorkQuits, SaveWorkQuits, CloneWorkQuits, ConnectBeginsQuits, ConnectEndsQuits,
   ShutdownWorkQuits DEF PageWork

-----------------------------------------------------------------------------
(* The callbacks of the page *)

LEMMA DoneFamiliar ==
  ASSUME NEW t \in jobs, Done(t)
  PROVE  (\A v \in jobs' : Familiar(v)) /\ UNCHANGED <<gate, mounted>>
BY ListingIsHarmless, StoppingIsHarmless DEF Done, Familiar, serviceVars

LEMMA DeliverFamiliar ==
  ASSUME QuitInv, NEW t \in jobs, PageDeliver(t)
  PROVE  (\A v \in jobs' : Familiar(v)) /\ UNCHANGED <<gate, mounted>>
<1>1. CASE DeliverList(t)
  <2>1. jobs' = (jobs \ {t}) \cup Listing(profile, TRUE) \/ jobs' = jobs \ {t}
    BY <1>1 DEF DeliverList
  <2> QED
    BY <1>1, <2>1, ListingIsHarmless DEF DeliverList, Familiar, serviceVars
<1>2. CASE DeliverSaved(t)
  <2>1. CASE Done(t)
    BY <2>1, DoneFamiliar
  <2>2. CASE /\ jobs' = (jobs \ {t}) \cup Listing(profile, ~loading) \cup {Connecting(t.drive)}
             /\ UNCHANGED serviceVars
    <3>1. Harmless(Connecting(t.drive))
      BY JobIsHarmless DEF Connecting
    <3> QED
      BY <2>2, <3>1, ListingIsHarmless DEF Familiar, serviceVars
  <2> QED
    BY <1>2, <2>1, <2>2 DEF DeliverSaved
<1>3. CASE DeliverDone(t)
  BY <1>3, DoneFamiliar DEF DeliverDone
<1>4. CASE DeliverMfa(t)
  <2>1. /\ jobs' = (jobs \ {t}) \cup {Moved(t, "dialog")} /\ t.kind = "connect"
        /\ UNCHANGED <<gate, mounted>>
    BY <1>4 DEF DeliverMfa, Came, Moved, serviceVars
  <2>2. Harmless(Moved(t, "dialog"))
    BY <2>1, MovedIsJob DEF QuitInv, JobOK, Harmless, Released
  <2> QED
    BY <2>1, <2>2 DEF Familiar
<1>5. CASE CodeGiven(t)
  <2>1. IsJob(t) /\ t.kind = "connect" /\ UNCHANGED <<gate, mounted>>
    BY <1>5 DEF CodeGiven, QuitInv, JobOK, serviceVars
  <2>2. CASE Returns(t, "cancelled")
    BY <2>1, <2>2, ReturnsFamiliar DEF Familiar
  <2>3. CASE jobs' = (jobs \ {t}) \cup
                     {[t EXCEPT !.at = "queued", !.out = "none", !.also = TRUE]}
    <3> DEFINE u == [t EXCEPT !.at = "queued", !.out = "none", !.also = TRUE]
    <3>1. IsJob(u) /\ u.at = "queued" /\ u.out = "none" /\ u.kind = t.kind
      BY <2>1 DEF IsJob
    <3>2. Harmless(u)
      BY <2>1, <3>1 DEF Harmless, JobOK, Released
    <3> HIDE DEF u
    <3> QED
      BY <2>1, <2>3, <3>2 DEF Familiar, u
  <2> QED
    BY <1>5, <2>2, <2>3 DEF CodeGiven
<1> QED
  BY <1>1, <1>2, <1>3, <1>4, <1>5 DEF PageDeliver

LEMMA PageStepQuits ==
  ASSUME QuitInv, NEW t \in jobs, PageStep(t)
  PROVE  QuitInv'
<1>1. UNCHANGED stage
  BY DEF PageStep, winVars, quitVars
<1>2. CASE PageWork(t)
  BY <1>1, <1>2, PageWorkQuits
<1>3. CASE PageDeliver(t)
  BY <1>1, <1>3, DeliverFamiliar, JobsStay DEF Passed
<1> QED
  BY <1>2, <1>3 DEF PageStep

\* The quit goes on when a shutdown has succeeded, which has closed the gate.
LEMMA StoppedQuits ==
  ASSUME QuitInv, NEW t \in jobs, DrivesStopped(t)
  PROVE  QuitInv'
<1>1. jobs' = jobs \ {t} /\ UNCHANGED <<gate, mounted>> /\ t.kind = "shutdown"
  BY DEF DrivesStopped, DeliverShutdown, serviceVars
<1>2. Passed' => gate
  BY <1>1 DEF DrivesStopped, Passed, QuitInv, Released
<1> QED
  BY <1>1, <1>2 DEF QuitInv, Held, JobOK, IsJob, Released

-----------------------------------------------------------------------------
(* The user and the window *)

Told(t) == IF t.kind = "connect" THEN [t EXCEPT !.cancelled = TRUE] ELSE t
LEMMA CancelsFamiliar ==
  ASSUME QuitInv, Cancels
  PROVE  \A v \in jobs' : Familiar(v)
<1>1. CASE UNCHANGED jobs
  BY <1>1 DEF Familiar
<1>2. CASE \A v \in jobs' : \E t \in jobs : v = Told(t)
  <2>1. ASSUME NEW t \in jobs PROVE Copies(Told(t), t)
    BY <2>1 DEF QuitInv, JobOK, IsJob, Copies, Told
  <2> QED
    BY <1>2, <2>1 DEF Familiar
<1>3. UNCHANGED jobs \/ \A v \in jobs' : \E t \in jobs : v = Told(t)
  <2>1. UNCHANGED jobs \/ jobs' = {Told(t) : t \in jobs}
    BY Zenon DEF Cancels, Told
  <2> QED
    BY <2>1
<1> QED
  BY <1>1, <1>2, <1>3

LEMMA SavesFamiliar ==
  ASSUME NEW also, Saves(also)
  PROVE  \A v \in jobs' : Familiar(v)
<1> DEFINE kind == IF editing = Nobody THEN "create" ELSE "save"
           new(d) == [Job(kind, d, profile) EXCEPT !.also = also]
<1>1. PICK d : Works(new(d))
  BY Zenon DEF Saves
<1>2. Harmless(new(d))
  BY AlsoIsHarmless
<1> QED
  BY <1>1, <1>2 DEF Works, Familiar

LEMMA PagePressQuits == QuitInv /\ PagePress => QuitInv'
<1> SUFFICES ASSUME QuitInv, PagePress PROVE QuitInv'
  OBVIOUS
<1>1. UNCHANGED <<gate, mounted, stage>>
  BY DEF PagePress, Save, Toggle, Type, Edit, Menu, pageVars, serviceVars, quitVars
<1>2. \A v \in jobs' : Familiar(v)
  <2>1. CASE Save
    BY <2>1, SavesFamiliar DEF Save
  <2>2. CASE Toggle
    <3>1. CASE Cancels
      BY <3>1, CancelsFamiliar
    <3>2. CASE Works(Job("disconnect", Selected, profile))
      BY <3>2, JobIsHarmless DEF Works, Familiar
    <3>3. CASE Connects(Selected)
      <4>1. Harmless(Connecting(Selected))
        BY JobIsHarmless DEF Connecting
      <4> QED
        BY <3>3, <4>1 DEF Connects, Familiar
    <3>4. CASE Saves(TRUE)
      BY <3>4, SavesFamiliar
    <3> QED
      BY <2>2, <3>1, <3>2, <3>3, <3>4 DEF Toggle
  <2>3. CASE UNCHANGED jobs
    BY <2>3 DEF Familiar
  <2> QED
    BY <2>1, <2>2, <2>3 DEF PagePress, Type, Edit, Menu, pageVars
<1> QED
  BY <1>1, <1>2, JobsStay DEF Passed

LEMMA RequestQuitQuits == QuitInv /\ RequestQuit => QuitInv'
<1> SUFFICES ASSUME QuitInv, RequestQuit PROVE QuitInv'
  OBVIOUS
<1>1. UNCHANGED <<gate, mounted>> /\ (Passed' => Passed)
  BY DEF RequestQuit, Shutdown, ShutdownNow, serviceVars, Passed
<1>2. \A v \in jobs' : Familiar(v)
  <2>1. CASE Shutdown
    BY <2>1, CancelsFamiliar DEF Shutdown
  <2>2. CASE ShutdownNow
    BY <2>2, StoppingIsHarmless DEF ShutdownNow, Familiar
  <2> QED
    BY <2>1, <2>2 DEF RequestQuit
<1> QED
  BY <1>1, <1>2, JobsStay

LEMMA AnsweredQuits == QuitInv /\ Answered => QuitInv'
<1> SUFFICES ASSUME QuitInv, Answered PROVE QuitInv'
  OBVIOUS
<1>1. UNCHANGED <<gate, mounted, stage>>
  BY DEF Answered, MenuAnswered, pageVars, serviceVars, winVars, quitVars
<1>2. \A v \in jobs' : Familiar(v)
  BY JobIsHarmless DEF Answered, MenuAnswered, Works, Familiar, pageVars
<1> QED
  BY <1>1, <1>2, JobsStay DEF Passed

LEMMA ListsQuits == QuitInv /\ Lists => QuitInv'
<1> SUFFICES ASSUME QuitInv, Lists PROVE QuitInv'
  OBVIOUS
<1>1. UNCHANGED <<gate, mounted, stage>>
  BY DEF Lists, TimerLists, serviceVars, winVars, quitVars
<1>2. \A v \in jobs' : Familiar(v)
  BY ListingIsHarmless DEF Lists, TimerLists, Familiar
<1> QED
  BY <1>1, <1>2, JobsStay DEF Passed

\* Nothing of the page moves, or the page is given a profile, or a deletion has
\* taken mounts away.
LEMMA QuietQuits ==
  ASSUME QuitInv, UNCHANGED gate, Passed' => Passed,
         \/ UNCHANGED <<jobs, mounted>>
         \/ \E p : SetProfile(p)
         \/ UNCHANGED jobs /\ mounted' \subseteq mounted
  PROVE  QuitInv'
<1>1. \A v \in jobs' : Familiar(v)
  BY ListingIsHarmless DEF Familiar, SetProfile
<1>2. mounted' \subseteq mounted
  BY DEF SetProfile, serviceVars
<1> QED
  BY <1>1, <1>2, JobsStay

LEMMA WindowQuits ==
  ASSUME QuitInv,
         \/ \E p \in Profiles : \/ ConnectProfile(p) \/ Expires(p)
                                \/ \E kind \in {"save", "clone", "active"} : Manage(kind, p)
         \/ RefreshToken \/ DeleteAnswered \/ FspPress \/ Goes
         \/ \E t \in tasks : Step(t)
         \/ \E t \in checks : FspStep(t)
         \/ Other /\ UNCHANGED <<pageVars, winVars>>
  PROVE  QuitInv'
<1>1. CASE UNCHANGED pageVars /\ (Passed' => Passed)
  BY <1>1, QuietQuits DEF pageVars, serviceVars
<1>2. CASE \E t \in tasks : WinWork(t)
  <2>1. PICK t \in tasks : WinWork(t)
    BY <1>2
  <2>2. UNCHANGED stage
    BY <2>1 DEF WinWork, WorkRead, WorkWrite, Fails, WorkDelete, WorkRefresh, Quiet, quitVars
  <2>3. UNCHANGED pageVars \/ (UNCHANGED <<gate, jobs>> /\ mounted' \subseteq mounted)
    BY <2>1 DEF WinWork, WorkRead, WorkWrite, Fails, WorkDelete, WorkRefresh
  <2> QED
    BY <2>2, <2>3, QuietQuits DEF pageVars, serviceVars, Passed
<1>3. CASE \E t \in tasks : WinDeliver(t)
  <2>1. PICK t \in tasks : WinDeliver(t)
    BY <1>3
  <2>2. UNCHANGED stage
    BY <2>1 DEF WinDeliver, Loaded, StatusLoaded, Validated, Chosen, Refreshed, AsksCode,
                CodeAnswered, NotDone, Managed, AsksDelete, Calm, quitVars
  <2>3. UNCHANGED pageVars \/ \E p : SetProfile(p)
    BY <2>1 DEF WinDeliver, Loaded, StatusLoaded, Validated, Chosen, Refreshed, AsksCode,
                CodeAnswered, NotDone, Managed, AsksDelete, Keeps, ShowsPages
  <2> QED
    BY <2>2, <2>3, QuietQuits DEF pageVars, serviceVars, Passed, SetProfile
<1>4. ASSUME ~(\E t \in tasks : Step(t)) PROVE UNCHANGED pageVars /\ (Passed' => Passed)
  BY <1>4 DEF ConnectProfile, Expires, Manage, RefreshToken, DeleteAnswered, FspPress, Goes,
              FspStep, winVars, quitVars, Passed
<1> QED
  BY <1>1, <1>2, <1>3, <1>4 DEF Step

LEMMA NextQuits == QuitInv /\ [Next]_vars => QuitInv'
<1> SUFFICES ASSUME QuitInv, [Next]_vars PROVE QuitInv'
  OBVIOUS
<1>1. CASE UNCHANGED vars
  <2>1. UNCHANGED <<gate, jobs, mounted, stage>>
    BY <1>1 DEF vars, pageVars, serviceVars, winVars, quitVars
  <2> QED
    BY <2>1, QuietQuits DEF Passed
<1>2. CASE Next
  BY <1>2, WindowQuits, PagePressQuits, RequestQuitQuits, AnsweredQuits, ListsQuits,
     PageStepQuits, StoppedQuits DEF Next, User
<1> QED
  BY <1>1, <1>2

LEMMA InitQuits == Init => QuitInv
BY DEF Init, PageInit, QuitInv, Passed, Held

\* When the window closes nothing is mounted and nothing will be: whatever was
\* connected, deleted or cancelled while the quit was under way, and however many
\* shutdowns it took (MainWindow.request_quit, S3DrivesPage.shutdown,
\* S3DriveService.shutdown).
THEOREM QuitLeavesNoMount == Spec => []QuitReleasesDrives
<1>1. QuitInv => QuitReleasesDrives
  BY DEF QuitInv, QuitReleasesDrives, Passed
<1> QED
  BY <1>1, InitQuits, NextQuits, PTL DEF Spec

-----------------------------------------------------------------------------
(* The choice of a profile: the inductive invariant *)

ChoiceKinds == {"list", "use", "status", "validate", "refresh", "resume"}
OtherKinds == {"save", "clone", "active", "delete"}

TaskOK(t) ==
  /\ t \in [kind : {t.kind}, profile : {t.profile}, at : {t.at}, out : {t.out},
            then : {t.then}, rows : {t.rows}, first : {t.first}]
  /\ t.kind \in ChoiceKinds \cup OtherKinds
  /\ t.at = "dialog" => t.kind = "refresh"

\* Header, active profile and pages agree, but for what has failed.
Agree ==
  /\ header.profile = active \/ (header.state = "checking" /\ "use" \in missed)
  /\ header.state = "checking" => missed # {}
  /\ header.state = "valid" => profile = active /\ (feature = active \/ "validate" \in missed)

\* The link of the chain that is under way: for whom it works, and what is left for its
\* callback to bring in line, be it an answer or a failure.
Chained(c) ==
  /\ c.kind \in {"list", "refresh", "resume"} => Agree
  /\ c.kind \in {"refresh", "resume"} => active = c.profile
  /\ c.kind = "use" => header.profile = c.profile /\ header.state = "checking"
  /\ c.kind = "status" =>
       /\ header.profile = c.profile /\ active = c.profile /\ profile = c.profile
       /\ header.state = "checking"
  /\ c.kind = "validate" =>
       /\ header.profile = c.profile /\ active = c.profile
       /\ header.state = "checking" \/ profile = c.profile

\* As long as one choice is made at a time there is one chain.
InOneChain(some) == (some = {} => Agree) /\ \A c \in some : Chained(c)

SettleInv ==
  /\ \A t \in tasks : TaskOK(t)
  /\ ~overlap => (\A c, d \in Choices : c = d) /\ InOneChain(Choices)

-----------------------------------------------------------------------------
(* Steps by what they do to the chain *)

LEMMA ChoicesAre ==
  ASSUME \A t \in tasks : TaskOK(t)
  PROVE  Choices = {t \in tasks : t.kind \in ChoiceKinds}
BY DEF Choices, TaskOK, ChoiceKinds, OtherKinds

\* A step after which at most one link is under way, new or none.
LEMMA NowOneChain ==
  ASSUME NEW new, \A t \in tasks' : TaskOK(t),
         ~overlap' => Choices' = new /\ (\A c, d \in new : c = d) /\ InOneChain(new)'
  PROVE  SettleInv'
<1>1. (\A t \in tasks : TaskOK(t))'
  BY DEF TaskOK
<1>2. (~overlap => (\A c, d \in Choices : c = d) /\ InOneChain(Choices))'
  BY DEF InOneChain
<1> QED
  BY <1>1, <1>2 DEF SettleInv

\* A step beside the chain.
Hidden == UNCHANGED <<overlap, header, active, feature, missed, profile>>

LEMMA BesideKeeps ==
  ASSUME SettleInv, ~overlap' => ~overlap, UNCHANGED <<header, active, feature, missed, profile>>,
         \A t \in tasks' : TaskOK(t),
         Choices' = Choices
  PROVE  SettleInv'
<1>1. Agree' <=> Agree
  BY DEF Agree
<1>2. \A c : Chained(c)' <=> Chained(c)
  BY <1>1 DEF Chained
<1>3. ASSUME ~overlap'
      PROVE  Choices' = Choices /\ (\A c, d \in Choices : c = d) /\ InOneChain(Choices)'
  BY <1>1, <1>2, <1>3 DEF SettleInv, InOneChain
<1> QED
  BY <1>3, NowOneChain

\* The link that is under way, when nothing came between.
LEMMA LinkHolds ==
  ASSUME SettleInv, NEW t \in tasks, t.kind \in ChoiceKinds, ~overlap
  PROVE  Choices = {t} /\ Chained(t)
<1>1. t \in Choices /\ \A c \in Choices : c = t
  BY ChoicesAre DEF SettleInv
<1> QED
  BY <1>1 DEF SettleInv, InOneChain

\* A link of the chain gives way to the next one, or to none.
LEMMA LinkMoves ==
  ASSUME SettleInv, NEW t \in tasks, t.kind \in ChoiceKinds, NEW new,
         tasks' = (tasks \ {t}) \cup new, UNCHANGED overlap,
         \A c \in new : TaskOK(c) /\ c.kind \in ChoiceKinds,
         \A c, d \in new : c = d,
         ~overlap /\ Chained(t) => InOneChain(new)'
  PROVE  SettleInv'
<1>1. \A c \in tasks' : TaskOK(c)
  BY DEF SettleInv
<1>2. Choices' = (Choices \ {t}) \cup new
  BY DEF Choices, ChoiceKinds
<1>3. ~overlap' => Choices' = new /\ (\A c, d \in new : c = d)
  BY <1>2, LinkHolds
<1> QED
  BY <1>1, <1>3, LinkHolds, NowOneChain

\* A task beside the chain is answered, or gives way to others beside it.
LEMMA OthersMove ==
  ASSUME SettleInv, NEW t \in tasks, t.kind \in OtherKinds, NEW new,
         tasks' = (tasks \ {t}) \cup new, Hidden,
         \A c \in new : TaskOK(c) /\ c.kind \in OtherKinds
  PROVE  SettleInv'
<1>1. \A c \in tasks' : TaskOK(c)
  BY DEF SettleInv
<1>2. Choices' = Choices
  BY DEF Choices, OtherKinds
<1> QED
  BY <1>1, <1>2, BesideKeeps DEF Hidden

\* A task beside the chain is gone.
LEMMA OthersGo ==
  ASSUME SettleInv, NEW t \in tasks, t.kind \in OtherKinds, Hidden,
         tasks' = tasks \ {t} \/ tasks' = (tasks \ {t}) \cup {}
  PROVE  SettleInv'
<1>1. \A c \in tasks' : TaskOK(c)
  BY DEF SettleInv
<1>2. Choices' = Choices
  BY DEF Choices, OtherKinds
<1> QED
  BY <1>1, <1>2, BesideKeeps DEF Hidden

\* Nothing is added to the tasks but others beside the chain.
LEMMA OthersCome ==
  ASSUME SettleInv, NEW new, tasks' = tasks \cup new,
         ~overlap' => ~overlap,
         UNCHANGED <<header, active, feature, missed, profile>>,
         \A c \in new : TaskOK(c) /\ c.kind \in OtherKinds
  PROVE  SettleInv'
<1>1. \A c \in tasks' : TaskOK(c)
  BY DEF SettleInv
<1>2. Choices' = Choices
  BY DEF Choices, OtherKinds
<1> QED
  BY <1>1, <1>2, BesideKeeps

LEMMA TaskIsOK ==
  ASSUME NEW kind \in ChoiceKinds \cup OtherKinds, NEW p
  PROVE  /\ TaskOK(Task(kind, p))
         /\ Task(kind, p).kind = kind /\ Task(kind, p).profile = p
         /\ Task(kind, p).at = "queued" /\ Task(kind, p).out = "none"
BY DEF TaskOK, Task

\* What becomes of a task.
LeadsTo(t, next) == [t EXCEPT !.then = next]
LEMMA LeadsIsOK ==
  ASSUME NEW t, TaskOK(t), NEW next
  PROVE  /\ TaskOK(LeadsTo(t, next))
         /\ LeadsTo(t, next).kind = t.kind /\ LeadsTo(t, next).profile = t.profile
BY DEF TaskOK, LeadsTo

LEMMA BackIsOK ==
  ASSUME NEW t, TaskOK(t), NEW at, NEW out, at = "dialog" => t.kind = "refresh"
  PROVE  /\ TaskOK(Became(t, at, out))
         /\ Became(t, at, out).kind = t.kind /\ Became(t, at, out).profile = t.profile
BY DEF TaskOK, Became

LEMMA MovedIsOK ==
  ASSUME NEW t, TaskOK(t), t.kind = "refresh", NEW at
  PROVE  /\ TaskOK(Moved(t, at))
         /\ Moved(t, at).kind = t.kind /\ Moved(t, at).profile = t.profile
BY DEF TaskOK, Moved

-----------------------------------------------------------------------------
(* The worker threads *)

\* What a link brings in line is left to its callback.
LEMMA LinkAnswered ==
  ASSUME SettleInv, NEW t \in tasks, t.kind \in ChoiceKinds, Hidden,
         NEW u, TaskOK(u), u.kind = t.kind, u.profile = t.profile,
         tasks' = (tasks \ {t}) \cup {u}
  PROVE  SettleInv'
<1>1. Agree' <=> Agree
  BY DEF Agree, Hidden
<1>2. Chained(t) => Chained(u)'
  BY <1>1 DEF Chained, Hidden
<1>3. Chained(t) => InOneChain({u})'
  BY <1>2 DEF InOneChain
<1>4. UNCHANGED overlap
  BY DEF Hidden
<1> QED
  BY <1>3, <1>4, LinkMoves

LEMMA AnswerSettles ==
  ASSUME SettleInv, NEW t \in tasks, Hidden, NEW out, Back(t, out)
  PROVE  SettleInv'
<1> DEFINE u == Became(t, "done", out)
<1>1. TaskOK(t)
  BY DEF SettleInv
<1>2. TaskOK(u) /\ u.kind = t.kind /\ u.profile = t.profile
  BY <1>1, BackIsOK
<1>3. tasks' = (tasks \ {t}) \cup {u}
  BY DEF Back, Became
<1>4. t.kind \in ChoiceKinds \cup OtherKinds
  BY <1>1 DEF TaskOK
<1> HIDE DEF u
<1>5. CASE t.kind \in ChoiceKinds
  BY <1>2, <1>3, <1>5, LinkAnswered
<1>6. CASE t.kind \in OtherKinds
  BY <1>2, <1>3, <1>6, OthersMove
<1> QED
  BY <1>4, <1>5, <1>6

LEMMA WorkReadSettles ==
  ASSUME SettleInv, NEW t \in tasks, WorkRead(t)
  PROVE  SettleInv'
<1>1. Hidden
  BY DEF WorkRead, Quiet, choiceVars, pageVars, Hidden
<1>2. CASE /\ t.kind = "list"
           /\ tasks' = (tasks \ {t}) \cup
                {[t EXCEPT !.at = "done", !.out = "ok", !.rows = stored, !.first = deflt]}
  <2>1. PICK u : u = [t EXCEPT !.at = "done", !.out = "ok", !.rows = stored, !.first = deflt]
    OBVIOUS
  <2>2. TaskOK(t)
    BY DEF SettleInv
  <2>3. TaskOK(u) /\ u.kind = t.kind /\ u.profile = t.profile
    BY <1>2, <2>1, <2>2 DEF TaskOK
  <2>4. tasks' = (tasks \ {t}) \cup {u}
    BY <1>2, <2>1
  <2>5. t.kind \in ChoiceKinds
    BY <1>2 DEF ChoiceKinds
  <2> QED
    BY <1>1, <2>3, <2>4, <2>5, LinkAnswered
<1>3. CASE \E out : Back(t, out)
  BY <1>1, <1>3, AnswerSettles
<1> QED
  BY <1>2, <1>3 DEF WorkRead, At

LEMMA WorkWriteSettles ==
  ASSUME SettleInv, NEW t \in tasks, WorkWrite(t)
  PROVE  SettleInv'
<1>1. Hidden
  BY DEF WorkWrite, Quiet, choiceVars, pageVars, Hidden
<1>2. CASE \E out : Back(t, out)
  BY <1>1, <1>2, AnswerSettles
<1>3. CASE /\ t.kind = "clone"
           /\ \E p \in Profiles \ stored :
                tasks' = (tasks \ {t})
                         \cup {[t EXCEPT !.at = "done", !.out = "ok", !.profile = p]}
  <2>1. PICK p \in Profiles \ stored :
          tasks' = (tasks \ {t}) \cup {[t EXCEPT !.at = "done", !.out = "ok", !.profile = p]}
    BY <1>3
  <2> DEFINE u == [t EXCEPT !.at = "done", !.out = "ok", !.profile = p]
  <2>2. TaskOK(t)
    BY DEF SettleInv
  <2>3. TaskOK(u) /\ u.kind = "clone"
    BY <1>3, <2>2 DEF TaskOK
  <2>4. tasks' = (tasks \ {t}) \cup {u}
    BY <2>1
  <2> HIDE DEF u
  <2>5. t.kind \in OtherKinds /\ (\A c \in {u} : TaskOK(c) /\ c.kind \in OtherKinds)
    BY <1>3, <2>3 DEF OtherKinds
  <2> QED
    BY <1>1, <2>4, <2>5, OthersMove
<1> QED
  BY <1>2, <1>3 DEF WorkWrite, At

LEMMA OtherWorkSettles ==
  ASSUME SettleInv, NEW t \in tasks, Fails(t) \/ WorkDelete(t) \/ WorkRefresh(t)
  PROVE  SettleInv'
<1>1. Hidden
  BY DEF Fails, WorkDelete, WorkRefresh, Quiet, choiceVars, pageVars, Hidden
<1>2. \E out : Back(t, out)
  BY DEF Fails, WorkDelete, WorkRefresh
<1> QED
  BY <1>1, <1>2, AnswerSettles

-----------------------------------------------------------------------------
(* The callbacks *)

LEMMA LoadedSettles ==
  ASSUME SettleInv, NEW t \in tasks, Loaded(t)
  PROVE  SettleInv'
<1>1. t.kind \in ChoiceKinds
  BY DEF Loaded, Returned, ChoiceKinds
<1>2. PICK p : p = IF t.profile \in t.rows THEN t.profile ELSE t.first
  OBVIOUS
<1>3. /\ active' = p /\ profile' = p /\ UNCHANGED overlap
      /\ \/ header' = Header(p, "empty") /\ tasks' = tasks \ {t}
         \/ /\ header' = Header(p, "checking")
            /\ tasks' = (tasks \ {t}) \cup {Task("status", p)}
  BY <1>2 DEF Loaded, Chain, SetProfile
<1>4. CASE header' = Header(p, "empty") /\ tasks' = (tasks \ {t}) \cup {}
  <2>1. InOneChain({})'
    BY <1>3, <1>4 DEF InOneChain, Agree, Header
  <2> QED
    BY <1>1, <1>3, <1>4, <2>1, LinkMoves
<1>5. CASE /\ header' = Header(p, "checking")
           /\ tasks' = (tasks \ {t}) \cup {Task("status", p)}
  <2> DEFINE u == Task("status", p)
  <2>1. TaskOK(u) /\ u.kind = "status" /\ u.profile = p
    BY TaskIsOK DEF ChoiceKinds
  <2>2. tasks' = (tasks \ {t}) \cup {u}
    BY <1>5
  <2> HIDE DEF u
  <2>3. InOneChain({u})'
    BY <1>3, <1>5, <2>1 DEF InOneChain, Chained, Header
  <2>4. \A c \in {u} : TaskOK(c) /\ c.kind \in ChoiceKinds
    BY <2>1 DEF ChoiceKinds
  <2> QED
    BY <1>1, <1>3, <2>2, <2>3, <2>4, LinkMoves
<1> QED
  BY <1>3, <1>4, <1>5

LEMMA StatusSettles ==
  ASSUME SettleInv, NEW t \in tasks, StatusLoaded(t)
  PROVE  SettleInv'
<1> DEFINE u == LeadsTo(Task("validate", t.profile), "show")
<1>1. /\ t.kind = "status" /\ header' = Header(t.profile, t.out)
      /\ tasks' = (tasks \ {t}) \cup {u}
      /\ UNCHANGED <<active, profile, overlap>>
  BY DEF StatusLoaded, Returned, Chain, Calm, Keeps, pageVars, LeadsTo
<1>2. TaskOK(u) /\ u.kind = "validate" /\ u.profile = t.profile
  BY TaskIsOK, LeadsIsOK DEF ChoiceKinds
<1> HIDE DEF u
<1>3. Chained(t) => InOneChain({u})'
  BY <1>1, <1>2 DEF InOneChain, Chained, Header
<1> QED
  BY <1>1, <1>2, <1>3, LinkMoves DEF ChoiceKinds

LEMMA ValidatedSettles ==
  ASSUME SettleInv, NEW t \in tasks, Validated(t)
  PROVE  SettleInv'
<1> DEFINE u == LeadsTo(Task("refresh", t.profile), "none")
<1>1. /\ t.kind = "validate" /\ t.out \in {"valid", "invalid"}
      /\ header' = Header(t.profile, t.out)
      /\ UNCHANGED <<active, overlap>>
      /\ t.out = "valid" => feature' = t.profile /\ profile' = t.profile
  BY DEF Validated, Returned, Chain, Calm, ShowsPages, SetProfile
<1>2. \/ tasks' = (tasks \ {t}) \cup {}
      \/ tasks' = (tasks \ {t}) \cup {u}
  BY DEF Validated, Chain, StartsRefresh, LeadsTo
<1>3. TaskOK(u) /\ u.kind = "refresh" /\ u.profile = t.profile
  <2>1. "refresh" \in ChoiceKinds \cup OtherKinds
    BY DEF ChoiceKinds
  <2>2. /\ TaskOK(Task("refresh", t.profile))
        /\ Task("refresh", t.profile).kind = "refresh"
        /\ Task("refresh", t.profile).profile = t.profile
    BY <2>1, TaskIsOK
  <2> QED
    BY <2>2, LeadsIsOK
<1>4. Chained(t) => Agree' /\ active' = t.profile
  BY <1>1 DEF Chained, Agree, Header
<1> HIDE DEF u
<1>5. Chained(t) => InOneChain({})' /\ InOneChain({u})'
  BY <1>3, <1>4 DEF InOneChain, Chained
<1>6. CASE tasks' = (tasks \ {t}) \cup {}
  BY <1>1, <1>5, <1>6, LinkMoves DEF ChoiceKinds
<1>7. CASE tasks' = (tasks \ {t}) \cup {u}
  BY <1>1, <1>3, <1>5, <1>7, LinkMoves DEF ChoiceKinds
<1> QED
  BY <1>2, <1>6, <1>7

LEMMA ChosenSettles ==
  ASSUME SettleInv, NEW t \in tasks, Chosen(t)
  PROVE  SettleInv'
<1> DEFINE u == LeadsTo(Task("validate", t.profile), "connect")
<1>1. /\ t.kind = "use" /\ active' = t.profile /\ header' = Header(t.profile, "checking")
      /\ tasks' = (tasks \ {t}) \cup {u}
      /\ UNCHANGED overlap
  BY DEF Chosen, Returned, Chain, LeadsTo
<1>2. TaskOK(u) /\ u.kind = "validate" /\ u.profile = t.profile
  BY TaskIsOK, LeadsIsOK DEF ChoiceKinds
<1> HIDE DEF u
<1>3. InOneChain({u})'
  BY <1>1, <1>2 DEF InOneChain, Chained, Header
<1> QED
  BY <1>1, <1>2, <1>3, LinkMoves DEF ChoiceKinds

LEMMA RefreshedSettles ==
  ASSUME SettleInv, NEW t \in tasks, Refreshed(t)
  PROVE  SettleInv'
<1>1. /\ t.kind \in {"refresh", "resume"} /\ header' = Header(t.profile, "valid")
      /\ feature' = t.profile /\ profile' = t.profile
      /\ tasks' = (tasks \ {t}) \cup {}
      /\ UNCHANGED <<active, overlap>>
  BY DEF Refreshed, Returned, Chain, ShowsPages, SetProfile
<1>2. Chained(t) => InOneChain({})'
  BY <1>1 DEF InOneChain, Chained, Agree, Header
<1> QED
  BY <1>1, <1>2, LinkMoves DEF ChoiceKinds

\* The refresh goes on, and nothing is shown yet.
LEMMA RefreshGoesOn ==
  ASSUME SettleInv, NEW t \in tasks, t.kind = "refresh", Hidden,
         NEW u, TaskOK(u), u.kind \in {"refresh", "resume"}, u.profile = t.profile,
         tasks' = (tasks \ {t}) \cup {u}
  PROVE  SettleInv'
<1>1. Agree' <=> Agree
  BY DEF Agree, Hidden
<1>2. Chained(t) => InOneChain({u})'
  BY <1>1 DEF InOneChain, Chained, Hidden
<1> QED
  BY <1>2, LinkMoves DEF ChoiceKinds, Hidden

LEMMA CodeSettles ==
  ASSUME SettleInv, NEW t \in tasks, AsksCode(t) \/ CodeAnswered(t)
  PROVE  SettleInv'
<1>1. TaskOK(t) /\ t.kind = "refresh"
  BY DEF SettleInv, TaskOK, AsksCode, CodeAnswered, Returned
<1>2. Hidden
  BY DEF AsksCode, CodeAnswered, Chain, Calm, Keeps, pageVars, Hidden
<1>3. PICK u : u \in {Moved(t, "dialog"), Task("resume", t.profile),
                      Became(Task("resume", t.profile), "done", "cancelled")}
               /\ tasks' = (tasks \ {t}) \cup {u}
  BY DEF AsksCode, CodeAnswered, Chain, Moved, Became
<1>4. /\ TaskOK(Task("resume", t.profile)) /\ Task("resume", t.profile).kind = "resume"
      /\ Task("resume", t.profile).profile = t.profile
  BY TaskIsOK DEF ChoiceKinds
<1>5. TaskOK(u) /\ u.kind \in {"refresh", "resume"} /\ u.profile = t.profile
  <2>1. CASE u = Moved(t, "dialog")
    BY <1>1, <2>1, MovedIsOK
  <2>2. CASE u = Task("resume", t.profile)
    BY <1>4, <2>2
  <2>3. CASE u = Became(Task("resume", t.profile), "done", "cancelled")
    BY <1>4, <2>3, BackIsOK
  <2> QED
    BY <1>3, <2>1, <2>2, <2>3
<1> QED
  BY <1>1, <1>2, <1>3, <1>5, RefreshGoesOn

\* A failure leaves what is shown.  Which link has failed says what that may be: the
\* header on the profile that was to be used, or the pages on the one before.
LEMMA NotDoneSettles ==
  ASSUME SettleInv, NEW t \in tasks, NotDone(t)
  PROVE  SettleInv'
<1>1. /\ TaskOK(t)
      /\ UNCHANGED <<overlap, header, active, feature, profile>>
      /\ missed' = missed \cup ({t.kind} \cap {"use", "status", "validate"})
      /\ tasks' = (tasks \ {t}) \cup {}
  BY DEF SettleInv, NotDone, Chain, Calm, Keeps, pageVars
<1>2. CASE t.kind \in OtherKinds
  <2>1. Hidden
    BY <1>1, <1>2 DEF OtherKinds, Hidden
  <2> QED
    BY <1>1, <1>2, <2>1, OthersGo
<1>3. CASE t.kind \in ChoiceKinds
  <2>1. Agree => Agree'
    BY <1>1 DEF Agree
  <2>2. Chained(t) => Agree'
    <3>1. CASE t.kind \in {"list", "refresh", "resume"}
      BY <2>1, <3>1 DEF Chained
    <3>2. CASE t.kind \in {"use", "status", "validate"}
      <4>1. t.kind \in missed'
        BY <1>1, <3>2
      <4> QED
        BY <1>1, <3>2, <4>1 DEF Chained, Agree
    <3> QED
      BY <1>3, <3>1, <3>2 DEF ChoiceKinds
  <2>3. Chained(t) => InOneChain({})'
    BY <2>2 DEF InOneChain
  <2> QED
    BY <1>1, <1>3, <2>3, LinkMoves
<1> QED
  BY <1>1, <1>2, <1>3 DEF TaskOK

\* What was saved, cloned or deleted is listed, whatever else is under way.
LEMMA ManagedSettles ==
  ASSUME SettleInv, NEW t \in tasks, Managed(t)
  PROVE  SettleInv'
<1>1. PICK p : Reloads(t, p)
  BY DEF Managed
<1> DEFINE u == Task("list", p)
<1>2. t.kind \in OtherKinds /\ UNCHANGED <<header, active, feature, missed, profile>>
  BY DEF Managed, Returned, Keeps, pageVars, OtherKinds
<1>3. TaskOK(u) /\ u.kind = "list"
  BY TaskIsOK DEF ChoiceKinds
<1>4. /\ tasks' = (tasks \ {t}) \cup {u}
      /\ ~overlap' => ~overlap /\ Choices \ {t} = {}
  BY <1>1 DEF Reloads
<1> HIDE DEF u
<1>5. \A c \in tasks' : TaskOK(c)
  BY <1>3, <1>4 DEF SettleInv
<1>6. t \notin Choices /\ Choices' = Choices \cup {u}
  BY <1>2, <1>3, <1>4 DEF Choices, OtherKinds
<1>7. ~overlap' => Choices' = {u} /\ (\A c, d \in {u} : c = d)
  BY <1>4, <1>6
<1>8. ~overlap' => Agree
  BY <1>4, <1>6 DEF SettleInv, InOneChain
<1>9. ~overlap' => InOneChain({u})'
  <2>1. Agree' <=> Agree
    BY <1>2 DEF Agree
  <2> QED
    BY <1>3, <1>8, <2>1 DEF InOneChain, Chained
<1> QED
  BY <1>5, <1>7, <1>9, NowOneChain

LEMMA AsksDeleteSettles ==
  ASSUME SettleInv, NEW t \in tasks, AsksDelete(t)
  PROVE  SettleInv'
<1>1. t.kind \in OtherKinds /\ Hidden /\ tasks' = tasks \ {t}
  BY DEF AsksDelete, Returned, Chain, Calm, Keeps, pageVars, Hidden, OtherKinds
<1> QED
  BY <1>1, OthersGo

LEMMA StepSettles ==
  ASSUME SettleInv, NEW t \in tasks, Step(t)
  PROVE  SettleInv'
<1>1. CASE WinWork(t)
  BY <1>1, WorkReadSettles, WorkWriteSettles, OtherWorkSettles DEF WinWork
<1>2. CASE WinDeliver(t)
  BY <1>2, LoadedSettles, StatusSettles, ValidatedSettles, ChosenSettles, RefreshedSettles,
     CodeSettles, NotDoneSettles, ManagedSettles, AsksDeleteSettles DEF WinDeliver
<1> QED
  BY <1>1, <1>2 DEF Step

-----------------------------------------------------------------------------
(* The user, and what is beside the profiles *)

\* A choice that is made while none is under way starts the chain.
LEMMA ChoiceStarts ==
  ASSUME SettleInv, NEW u, TaskOK(u), u.kind \in {"use", "refresh"}, Adds({u}),
         Agree => Chained(u)'
  PROVE  SettleInv'
<1>1. tasks' = tasks \cup {u} /\ (~overlap' => ~overlap /\ Choices = {})
  BY DEF Adds
<1>2. \A c \in tasks' : TaskOK(c)
  BY <1>1 DEF SettleInv
<1>3. ~overlap' => Choices' = {u} /\ (\A c, d \in {u} : c = d)
  <2>1. Choices' = Choices \cup {u}
    BY <1>1 DEF Choices
  <2> QED
    BY <1>1, <2>1
<1>4. ~overlap' => InOneChain({u})'
  BY <1>1 DEF SettleInv, InOneChain
<1> QED
  BY <1>2, <1>3, <1>4, NowOneChain

LEMMA ConnectProfileSettles ==
  ASSUME SettleInv, NEW p, ConnectProfile(p)
  PROVE  SettleInv'
<1> DEFINE u == Task("use", p)
<1>1. TaskOK(u) /\ u.kind = "use" /\ u.profile = p
  BY TaskIsOK DEF ChoiceKinds
<1>2. header' = Header(p, "checking") /\ Adds({u})
  BY DEF ConnectProfile
<1> HIDE DEF u
<1>3. Chained(u)'
  BY <1>1, <1>2 DEF Chained, Header
<1> QED
  BY <1>1, <1>2, <1>3, ChoiceStarts

LEMMA RefreshTokenSettles == SettleInv /\ RefreshToken => SettleInv'
<1> SUFFICES ASSUME SettleInv, RefreshToken PROVE SettleInv'
  OBVIOUS
<1>1. PICK u : u = LeadsTo(Task("refresh", active), "discard")
  OBVIOUS
<1>2. TaskOK(u) /\ u.kind = "refresh" /\ u.profile = active
  <2>1. "refresh" \in ChoiceKinds \cup OtherKinds
    BY DEF ChoiceKinds
  <2>2. /\ TaskOK(Task("refresh", active)) /\ Task("refresh", active).kind = "refresh"
        /\ Task("refresh", active).profile = active
    BY <2>1, TaskIsOK
  <2> QED
    BY <1>1, <2>2, LeadsIsOK
<1>3. Adds({u}) /\ UNCHANGED <<active, header, feature, missed, profile>>
  BY <1>1 DEF RefreshToken, StartsRefresh, LeadsTo, choiceVars, pageVars
<1>4. Agree => Chained(u)'
  BY <1>2, <1>3 DEF Chained, Agree
<1> QED
  BY <1>2, <1>3, <1>4, ChoiceStarts

\* Tasks beside the chain are added.
LEMMA AddsSettles ==
  ASSUME SettleInv, NEW new, Adds(new), UNCHANGED <<choiceVars, profile>>,
         \A c \in new : TaskOK(c) /\ c.kind \in OtherKinds
  PROVE  SettleInv'
<1>1. UNCHANGED <<header, active, feature, missed, profile>> /\ tasks' = tasks \cup new
  BY DEF Adds, choiceVars
<1>2. ~overlap' => ~overlap
  BY DEF Adds
<1> QED
  BY <1>1, <1>2, OthersCome

LEMMA ManageSettles ==
  ASSUME SettleInv, NEW kind \in {"save", "clone", "active"}, NEW p, Manage(kind, p)
  PROVE  SettleInv'
<1>1. TaskOK(Task(kind, p)) /\ Task(kind, p).kind \in OtherKinds
  BY TaskIsOK DEF OtherKinds
<1>2. Adds({Task(kind, p)}) /\ UNCHANGED <<choiceVars, profile>>
  BY DEF Manage, pageVars
<1> QED
  BY <1>1, <1>2, AddsSettles

LEMMA DeleteAnsweredSettles == SettleInv /\ DeleteAnswered => SettleInv'
<1> SUFFICES ASSUME SettleInv, DeleteAnswered PROVE SettleInv'
  OBVIOUS
<1>1. PICK new : new = IF ask.how THEN {Task("delete", ask.on)} ELSE {}
  OBVIOUS
<1>2. TaskOK(Task("delete", ask.on)) /\ Task("delete", ask.on).kind \in OtherKinds
  BY TaskIsOK DEF OtherKinds
<1>3. \A c \in new : TaskOK(c) /\ c.kind \in OtherKinds
  BY <1>1, <1>2
<1>4. Adds(new) /\ UNCHANGED <<choiceVars, profile>>
  BY <1>1 DEF DeleteAnswered, pageVars
<1> QED
  BY <1>3, <1>4, AddsSettles

LEMMA FrameSettles ==
  ASSUME SettleInv, UNCHANGED <<tasks, overlap, choiceVars, profile>>
  PROVE  SettleInv'
<1>1. \A t \in tasks' : TaskOK(t)
  BY DEF SettleInv
<1>2. Choices' = Choices
  BY DEF Choices
<1> QED
  BY <1>1, <1>2, BesideKeeps DEF choiceVars

\* The pages, the driver, the sessions and the quit do not touch the choice.
LEMMA RestSettles ==
  ASSUME SettleInv,
         \/ PagePress \/ FspPress \/ RequestQuit \/ Answered \/ Lists \/ Goes
         \/ \E t \in jobs : PageStep(t) \/ DrivesStopped(t)
         \/ \E t \in checks : FspStep(t)
         \/ \E p \in Profiles : Expires(p)
         \/ Other /\ UNCHANGED <<pageVars, winVars>>
  PROVE  SettleInv'
<1>1. UNCHANGED <<tasks, overlap, choiceVars>>
  BY DEF PagePress, FspPress, RequestQuit, Answered, Lists, Goes, PageStep, DrivesStopped,
         FspStep, Expires, winVars
<1>2. UNCHANGED profile
  <2>1. CASE PagePress
    BY <2>1 DEF PagePress, Save, Toggle, Type, Edit, Menu, pageVars
  <2>2. CASE RequestQuit \/ Answered \/ Lists
    BY <2>2 DEF RequestQuit, Shutdown, ShutdownNow, Answered, MenuAnswered, Lists, TimerLists,
                pageVars
  <2>3. CASE \E t \in jobs : PageWork(t) \/ DrivesStopped(t)
    BY <2>3 DEF PageWork, DrivesStopped, DeliverShutdown
  <2>4. CASE \E t \in jobs : PageDeliver(t)
    BY <2>4 DEF PageDeliver, DeliverList, DeliverSaved, DeliverDone, DeliverMfa, CodeGiven, Done
  <2>5. CASE UNCHANGED pageVars
    BY <2>5 DEF pageVars
  <2> QED
    BY <2>1, <2>2, <2>3, <2>4, <2>5 DEF FspPress, Goes, PageStep, FspStep, Expires
<1> QED
  BY <1>1, <1>2, FrameSettles

LEMMA NextSettles == SettleInv /\ [Next]_vars => SettleInv'
<1> SUFFICES ASSUME SettleInv, [Next]_vars PROVE SettleInv'
  OBVIOUS
<1>1. CASE UNCHANGED vars
  BY <1>1, FrameSettles DEF vars, pageVars, winVars
<1>2. CASE User
  BY <1>2, ConnectProfileSettles, ManageSettles, RefreshTokenSettles, RestSettles DEF User
<1>3. CASE Next /\ ~User
  BY <1>3, StepSettles, DeleteAnsweredSettles, RestSettles DEF Next
<1> QED
  BY <1>1, <1>2, <1>3

LEMMA InitSettles == Init => SettleInv
<1> SUFFICES ASSUME Init PROVE SettleInv
  OBVIOUS
<1>1. tasks = {} /\ Choices = {}
  BY DEF Init, Choices
<1>2. Agree
  BY DEF Init, PageInit, Agree, Header
<1> QED
  BY <1>1, <1>2 DEF SettleInv, InOneChain

\* When every task has answered, and no second choice was made while one was under
\* way, header and active profile are of one profile and the pages have followed the
\* session the header shows, also when a profile was saved, cloned or deleted, or a
\* session has expired, in the midst of it; and whatever has failed, nothing else is
\* left apart than what that failure explains (MainWindow.connect_profile,
\* _profiles_loaded, _profile_selected, _validated, _refresh_completed, _show_error).
THEOREM ChoiceSettles == Spec => []SettledAgrees
<1>1. SettleInv => SettledAgrees
  <2> SUFFICES ASSUME SettleInv, tasks = {}, ~overlap PROVE Agree
    BY DEF SettledAgrees, Agree
  <2>1. Choices = {}
    BY DEF Choices
  <2> QED
    BY <2>1 DEF SettleInv, InOneChain
<1> QED
  BY <1>1, InitSettles, NextSettles, PTL DEF Spec
=============================================================================
