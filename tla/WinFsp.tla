------------------------------- MODULE WinFsp -------------------------------
(***************************************************************************)
(* The offline installation of WinFsp, the driver S3 mounts need.  Two     *)
(* widgets, on the page of the mounts and on the page of the logs, share   *)
(* WinFspRuntimeService; an inspection reads the registry and a marker file *)
(* that says a reboot is due, an installation runs msiexec.  Both run on   *)
(* worker threads, their results are callbacks in the GUI thread.  Another *)
(* process (the command line, Setup) may install as well: a machine-wide   *)
(* mutex keeps two installers apart.                                       *)
(***************************************************************************)
EXTENDS Naturals

CONSTANTS
  Nobody,  \* no drive, no profile, no widget
  Faults   \* what may fail here: "observe" (registry), "marker" (the file)

Widgets == {"drives", "logs"}

VARIABLES
  driver,   \* "missing", "broken" or "ready": what the registry and the files say
  marker,   \* winfsp-reboot.json: "none", "stale" (of an earlier boot), "current"
  mutex,    \* Global\AWSConnect.WinFsp.Install: "free", "ours" or "other"
  lock,     \* WinFspRuntimeService._lock
  setup,    \* setup[w]: the _busy and the _status of a widget
  checks,   \* the tasks of the two widgets
  ready,    \* S3DrivesPage._runtime_ready
  ask       \* the modal dialog that waits for an answer

fspVars == <<driver, marker, mutex, lock, setup, checks, ready>>

NoAsk == [what |-> "none", on |-> Nobody, how |-> FALSE]
Asks(what, on, how) == ask' = [what |-> what, on |-> on, how |-> how]

\* stage: an inspection of its own ("only"), before or after the installation.
Check(kind, w, how) ==
  [kind |-> kind, widget |-> w, how |-> how, stage |-> "only",
   at |-> IF kind = "install" THEN "start" ELSE "look", out |-> "none"]

\* QTimer.singleShot(0, self.refresh): both widgets look when the window opens;
\* seen says that they did, and found the driver ready.
FspInit(seen) ==
  /\ driver \in IF seen THEN {"ready"} ELSE {"missing", "broken", "ready"}
  /\ marker \in IF seen THEN {"none"} ELSE {"none", "stale"}
  /\ mutex = "free" /\ lock = FALSE /\ ready = seen /\ ask = NoAsk
  /\ setup = [w \in Widgets |-> [busy |-> FALSE, shows |-> IF seen THEN "ready" ELSE "missing"]]
  /\ checks = IF seen THEN {} ELSE {Check("inspect", w, FALSE) : w \in Widgets}

-----------------------------------------------------------------------------
(* The user *)

\* One check of a widget at a time: a bound, the button is not locked.
Refresh(w) ==
  /\ ask = NoAsk /\ ~setup[w].busy
  /\ \A t \in checks : t.widget # w
  /\ checks' = checks \cup {Check("inspect", w, FALSE)}
  /\ UNCHANGED <<driver, marker, mutex, lock, setup, ready, ask>>

\* The question is asked before the widget is busy: callbacks go on meanwhile.
Install(w) ==
  /\ ask = NoAsk /\ ~setup[w].busy /\ setup[w].shows \in {"missing", "broken"}
  /\ Asks("install", w, setup[w].shows = "broken")
  /\ UNCHANGED fspVars

Emits(w, b) == ready' = IF w = "drives" THEN b ELSE ready

InstallAnswered ==
  /\ ask.what = "install" /\ ask' = NoAsk
  /\ LET w == ask.on IN
     \/ /\ setup' = [setup EXCEPT ![w].busy = TRUE]
        /\ checks' = checks \cup {Check("install", w, ask.how)}
        /\ Emits(w, FALSE)
        /\ UNCHANGED <<driver, marker, mutex, lock>>
     \/ UNCHANGED fspVars

-----------------------------------------------------------------------------
(* The worker threads *)

Moves(t, u) == checks' = (checks \ {t}) \cup {u}
Ends(t, out) == Moves(t, [t EXCEPT !.at = "done", !.out = out])
Frees(t) == lock' = (lock /\ t.stage = "only")

\* What WinFspRuntimeService.install makes of an observation.
Observed(t, seen) ==
  \/ /\ t.stage # "before" \/ seen \in {"ready", "reboot"}
     /\ Ends(t, seen) /\ Frees(t)
  \/ /\ t.stage = "before" /\ seen = "broken" /\ ~t.how
     /\ Ends(t, "failed") /\ Frees(t)
  \/ /\ t.stage = "before" /\ (seen = "missing" \/ (seen = "broken" /\ t.how))
     /\ Moves(t, [t EXCEPT !.at = "msi"]) /\ UNCHANGED lock

\* A lock that is held means "busy": the service only looks.
Begin(t) ==
  /\ t.at = "start"
  /\ lock' = TRUE
  /\ Moves(t, [t EXCEPT !.at = "look", !.stage = IF lock THEN "only" ELSE "before"])
  /\ UNCHANGED <<driver, marker, mutex>>

Look(t) ==
  /\ t.at = "look"
  /\ \/ /\ marker = "stale" /\ Moves(t, [t EXCEPT !.at = "drop"]) /\ UNCHANGED lock
     \/ /\ marker # "stale"
        /\ Observed(t, IF marker = "current" THEN "reboot" ELSE driver)
     \/ /\ "observe" \in Faults /\ Ends(t, "failed") /\ Frees(t)
  /\ UNCHANGED <<driver, marker, mutex>>

\* marker.unlink(): whatever the file holds by now; without it, an OSError.
Drop(t) ==
  /\ t.at = "drop"
  /\ \/ /\ marker = "none" /\ Ends(t, "failed") /\ Frees(t)
     \/ marker # "none" /\ Observed(t, driver)
  /\ marker' = "none"
  /\ UNCHANGED <<driver, mutex>>

After(t) == Moves(t, [t EXCEPT !.at = "look", !.stage = "after"]) /\ UNCHANGED lock

\* rclone: is a process of that name alive.  MSI 1618 is "busy".
Launch(t, rclone) ==
  /\ t.at = "msi"
  /\ \/ /\ (rclone \/ mutex # "free") /\ After(t) /\ UNCHANGED mutex
     \/ /\ ~rclone /\ mutex = "free" /\ mutex' = "ours"
        /\ Moves(t, [t EXCEPT !.at = "run"]) /\ UNCHANGED lock
     \/ /\ ~rclone /\ Ends(t, "failed") /\ Frees(t) /\ UNCHANGED mutex
  /\ UNCHANGED <<driver, marker>>

\* msiexec ends, it is never terminated: installed, reboot due, or not installed.
Finishes(t) ==
  /\ t.at = "run" /\ mutex' = "free"
  /\ \/ driver' = "ready" /\ After(t)
     \/ driver' = "ready" /\ Moves(t, [t EXCEPT !.at = "remember"]) /\ UNCHANGED lock
     \/ UNCHANGED driver /\ After(t)
  /\ UNCHANGED marker

Remember(t) ==
  /\ t.at = "remember"
  /\ \/ marker' = "current" /\ After(t)
     \/ "marker" \in Faults /\ Ends(t, "failed") /\ Frees(t) /\ UNCHANGED marker
  /\ UNCHANGED <<driver, mutex>>

FspWork(t, rclone) ==
  /\ Begin(t) \/ Look(t) \/ Drop(t) \/ Launch(t, rclone) \/ Finishes(t) \/ Remember(t)
  /\ UNCHANGED <<setup, ready, ask>>

\* Another process installs, unless the driver is there already.
Other ==
  /\ \/ mutex = "free" /\ driver # "ready" /\ mutex' = "other" /\ UNCHANGED driver
     \/ mutex = "other" /\ mutex' = "free" /\ driver' \in {driver, "ready"}
  /\ UNCHANGED <<marker, lock, setup, checks, ready, ask>>

-----------------------------------------------------------------------------
(* The callbacks *)

\* _loaded shows what was seen; _failed forgets that an installation may be running.
FspDeliver(t) ==
  /\ t.at = "done" /\ checks' = checks \ {t}
  /\ LET idle == t.kind = "install" \/ t.out = "failed" IN
     setup' = [setup EXCEPT
       ![t.widget].busy = @ /\ ~idle,
       ![t.widget].shows = IF t.out = "failed" THEN @ ELSE t.out]
  /\ Emits(t.widget, t.out = "ready")
  /\ UNCHANGED <<driver, marker, mutex, lock, ask>>
=============================================================================
