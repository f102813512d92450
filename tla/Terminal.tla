------------------------------ MODULE Terminal ------------------------------
(***************************************************************************)
(* One EC2 shell in a window of Windows Terminal: the thread of the GUI    *)
(* that launches it and later asks after it or stops it, the host process  *)
(* in the window, the plugin the host starts, and the named pipe the two   *)
(* processes talk over.                                                    *)
(*                                                                         *)
(* A pipe end that is closed leaves what was written before to be read;    *)
(* then the reader sees the end of the file, and a writer fails.  Closing  *)
(* the window sends CTRL_CLOSE to each process in it, in any order, and    *)
(* ends the host as soon as its handler, if it has one, has returned.      *)
(***************************************************************************)
EXTENDS Sequences

VARIABLES
  gui,        \* the launcher, then the owner, of the session
  code,       \* what _TerminalSessionProcess has recorded
  guiEnd,     \* the GUI's end of the pipe
  hostEnd,    \* the host's end
  toHost,     \* commands under way
  toGui,      \* events under way
  host,       \* where the host process is
  connected,  \* the host's belief that the GUI still listens
  handler,    \* its console handler
  plugin,     \* the plugin process
  console,    \* the window
  lost        \* history: the host was killed from outside

launcher == <<gui, code, guiEnd>>
process  == <<host, hostEnd, connected, handler, lost>>
terminalVars == <<launcher, process, toHost, toGui, plugin, console>>

Codes == {"zero", "nonzero"}

TypeOK ==
  /\ gui \in {"dispatch", "accept", "send", "report", "give_up", "close", "failed",
              "owned", "terminate", "wait", "kill", "reap", "left", "gone"}
  /\ code \in Codes \cup {"none"}
  /\ {guiEnd, hostEnd} \subseteq {"none", "open", "closed"}
  /\ toHost \in Seq({"argv", "terminate", "kill"})
  /\ toGui \in Seq({"started", "zero", "nonzero", "console_closed"})
  /\ host \in {"none", "connecting", "receiving", "spawned", "announcing", "watching",
               "reclaiming", "reporting", "ended"}
  /\ connected \in BOOLEAN /\ lost \in BOOLEAN
  /\ handler \in {"off", "on", "returned"}
  /\ plugin \in Codes \cup {"none", "running"}
  /\ console \in {"none", "open", "closing_live", "closing"}

TerminalInit ==
  /\ gui = "dispatch" /\ code = "none" /\ guiEnd = "none" /\ hostEnd = "none"
  /\ toHost = <<>> /\ toGui = <<>>
  /\ host = "none" /\ connected = TRUE /\ handler = "off" /\ lost = FALSE
  /\ plugin = "none" /\ console = "none"

HostLives == host \notin {"none", "ended"}
Closing == console \in {"closing", "closing_live"}

----------------------------------------------------------------------------
(* _start_terminal_process *)

\* wt.exe is started; the window and the host in it may never come.
Dispatch ==
  /\ gui = "dispatch"
  /\ \/ /\ gui' = "accept"
        /\ \/ host' = "connecting" /\ console' = "open"
           \/ UNCHANGED <<host, console>>
     \/ gui' = "failed" /\ UNCHANGED <<host, console>>
  /\ UNCHANGED <<code, guiEnd, hostEnd, connected, handler, lost, toHost, toGui, plugin>>

\* ready.wait(10) is over with a connection, or without one.
Accepted ==
  /\ gui = "accept"
  /\ \/ guiEnd = "open" /\ gui' = "send"
     \/ guiEnd = "none" /\ gui' = "failed"
  /\ UNCHANGED <<code, guiEnd, process, toHost, toGui, plugin, console>>

SendArgv ==
  /\ gui = "send"
  /\ IF hostEnd = "open"
     THEN toHost' = Append(toHost, "argv") /\ gui' = "report"
     ELSE gui' = "give_up" /\ UNCHANGED toHost
  /\ UNCHANGED <<code, guiEnd, process, toGui, plugin, console>>

\* poll(10): the first event is the start, or it is not; the pipe may have
\* ended; and the ten seconds may be over with nothing to read.
Report ==
  /\ gui = "report"
  /\ IF toGui # <<>>
     THEN /\ gui' = IF Head(toGui) = "started" THEN "owned" ELSE "give_up"
          /\ toGui' = Tail(toGui)
     ELSE gui' = "give_up" /\ UNCHANGED toGui
  /\ UNCHANGED <<code, guiEnd, process, toHost, plugin, console>>

\* A slip: the failed handshake only closes its end.
GiveUp_silent ==
  /\ gui = "give_up" /\ gui' = "close"
  /\ UNCHANGED <<code, guiEnd, process, toHost, toGui, plugin, console>>

\* The failed handshake: terminate is sent, the end is closed, and the
\* dispatcher, which has long handed over to the window, is stopped.
GiveUp ==
  /\ gui = "give_up"
  /\ toHost' = IF hostEnd = "open" THEN Append(toHost, "terminate") ELSE toHost
  /\ gui' = "close"
  /\ UNCHANGED <<code, guiEnd, process, toGui, plugin, console>>

CloseFailed ==
  /\ gui = "close"
  /\ guiEnd' = "closed"
  /\ gui' = "failed"
  /\ UNCHANGED <<code, process, toHost, toGui, plugin, console>>

----------------------------------------------------------------------------
(* _TerminalSessionProcess, and the runner's stop over it *)

Owned == gui \in {"owned", "terminate", "wait", "kill", "reap"}

RecordExit(c) == code' = c /\ guiEnd' = "closed"

\* A slip: the end of the pipe is not an answer.
Poll_waits ==
  /\ gui \in {"owned", "wait", "reap"}
  /\ code = "none" /\ toGui # <<>>
  /\ toGui' = Tail(toGui)
  /\ CASE Head(toGui) = "console_closed" -> RecordExit("zero")
       [] Head(toGui) \in Codes -> RecordExit(Head(toGui))
       [] OTHER -> UNCHANGED <<code, guiEnd>>
  /\ UNCHANGED <<gui, process, toHost, plugin, console>>

\* A slip: the end of the pipe is taken for the end of the shell.
Poll_any ==
  /\ gui \in {"owned", "wait", "reap"} /\ code = "none"
  /\ \/ /\ toGui # <<>> /\ toGui' = Tail(toGui)
        /\ IF Head(toGui) = "started" THEN UNCHANGED <<code, guiEnd>>
           ELSE RecordExit(IF Head(toGui) = "nonzero" THEN "nonzero" ELSE "zero")
     \/ toGui = <<>> /\ hostEnd = "closed" /\ RecordExit("zero") /\ UNCHANGED toGui
  /\ UNCHANGED <<gui, process, toHost, plugin, console>>

\* poll() with no exit code yet, and something to read or the end of the pipe.
\* The owner polls now and then, and all the time while it waits.
Poll ==
  /\ gui \in {"owned", "wait", "reap"}
  /\ code = "none"
  /\ \/ /\ toGui # <<>>
        /\ toGui' = Tail(toGui)
        /\ CASE Head(toGui) = "console_closed" -> RecordExit("zero")
             [] Head(toGui) \in Codes -> RecordExit(Head(toGui))
             [] OTHER -> UNCHANGED <<code, guiEnd>>
     \/ /\ toGui = <<>> /\ hostEnd = "closed"
        /\ RecordExit("nonzero")
        /\ UNCHANGED toGui
  /\ UNCHANGED <<gui, process, toHost, plugin, console>>

\* stop() found nothing to read and a pipe that was open, and goes on.
Stop ==
  /\ gui = "owned" /\ code = "none" /\ toGui = <<>> /\ hostEnd = "open"
  /\ gui' = "terminate"
  /\ UNCHANGED <<code, guiEnd, process, toHost, toGui, plugin, console>>

\* A pipe that has ended by now makes the answer a failure, read or not.
SendCommand(command) ==
  IF code # "none" THEN UNCHANGED <<code, guiEnd, toHost>>
  ELSE IF hostEnd = "open"
       THEN toHost' = Append(toHost, command) /\ UNCHANGED <<code, guiEnd>>
       ELSE RecordExit("nonzero") /\ UNCHANGED toHost

Terminate ==
  /\ gui = "terminate"
  /\ SendCommand("terminate")
  /\ gui' = "wait"
  /\ UNCHANGED <<process, toGui, plugin, console>>

\* wait(5) runs out.
WaitTooLong == gui = "wait" /\ code = "none" /\ gui' = "kill"
               /\ UNCHANGED <<code, guiEnd, process, toHost, toGui, plugin, console>>

Kill ==
  /\ gui = "kill"
  /\ SendCommand("kill")
  /\ gui' = "reap"
  /\ UNCHANGED <<process, toGui, plugin, console>>

\* The second wait ends with an exit code or runs out; either way the runner
\* forgets the process, and the pipe with it.
Forget ==
  /\ \/ gui \in {"wait", "reap"} /\ code # "none"
     \/ gui = "reap"
  /\ gui' = "left"
  /\ guiEnd' = "closed"
  /\ UNCHANGED <<code, process, toHost, toGui, plugin, console>>

\* The application quits: its shells stay with the user.
Quit ==
  /\ gui = "owned" /\ code = "none"
  /\ gui' = "gone"
  /\ guiEnd' = "closed"
  /\ UNCHANGED <<code, process, toHost, toGui, plugin, console>>

----------------------------------------------------------------------------
(* session_host.main *)

\* An event is written if the GUI's end is still there.
SendEvent(event) == toGui' = IF guiEnd = "open" THEN Append(toGui, event) ELSE toGui

EndHost ==
  /\ host' = "ended"
  /\ hostEnd' = IF hostEnd = "open" THEN "closed" ELSE hostEnd

\* The listener takes the host in as long as the launcher waits; a later
\* host finds nobody, or a connection nobody keeps.
Connect ==
  /\ host = "connecting"
  /\ \/ gui = "accept" /\ host' = "receiving" /\ hostEnd' = "open" /\ guiEnd' = "open"
     \/ EndHost /\ UNCHANGED guiEnd
  /\ UNCHANGED <<gui, code, connected, handler, lost, toHost, toGui, plugin, console>>

\* The plugin is started with the arguments, cannot be, or they never come.
Receive ==
  /\ host = "receiving"
  /\ \/ /\ toHost # <<>> /\ Head(toHost) = "argv"
        /\ toHost' = Tail(toHost)
        /\ \/ plugin' = "running" /\ host' = "spawned" /\ UNCHANGED <<hostEnd, toGui>>
           \/ SendEvent("nonzero") /\ EndHost /\ UNCHANGED plugin
     \/ /\ toHost # <<>> /\ Head(toHost) # "argv"
        /\ toHost' = Tail(toHost)
        /\ SendEvent("nonzero") /\ EndHost /\ UNCHANGED plugin
     \/ /\ toHost = <<>> /\ guiEnd = "closed"
        /\ EndHost /\ UNCHANGED <<toHost, toGui, plugin>>
  /\ UNCHANGED <<launcher, connected, handler, lost, console>>

Register ==
  /\ host = "spawned"
  /\ \/ handler' = "on" /\ host' = "announcing"
     \/ host' = "reclaiming" /\ UNCHANGED handler
  /\ UNCHANGED <<launcher, hostEnd, connected, lost, toHost, toGui, plugin, console>>

\* The plugin becomes the GUI's, or is stopped because nobody is there.
Announce ==
  /\ host = "announcing"
  /\ host' = IF guiEnd = "open" THEN "watching" ELSE "reclaiming"
  /\ SendEvent("started")
  /\ UNCHANGED <<launcher, hostEnd, connected, handler, lost, toHost, plugin, console>>

\* _stop_process, then exited 252 where somebody may still read it.
Reclaim ==
  /\ host = "reclaiming"
  /\ plugin' = IF plugin = "running" THEN "nonzero" ELSE plugin
  /\ SendEvent("nonzero")
  /\ EndHost
  /\ handler' = "off"
  /\ UNCHANGED <<launcher, connected, lost, toHost, console>>

\* One turn of the loop while the plugin runs: a command, or the end of the
\* pipe, after which the host only waits for the plugin.
Watch ==
  /\ host = "watching" /\ plugin = "running" /\ connected
  /\ \/ /\ toHost # <<>>
        /\ toHost' = Tail(toHost)
        /\ plugin' = IF Head(toHost) \in {"terminate", "kill"} THEN "nonzero" ELSE plugin
        /\ UNCHANGED connected
     \/ /\ toHost = <<>> /\ guiEnd = "closed"
        /\ connected' = FALSE
        /\ UNCHANGED <<toHost, plugin>>
  /\ UNCHANGED <<launcher, host, hostEnd, handler, lost, toGui, console>>

\* The loop is left and the handler taken away.
SeeEnd ==
  /\ host = "watching" /\ plugin \in Codes
  /\ host' = "reporting"
  /\ handler' = "off"
  /\ UNCHANGED <<launcher, hostEnd, connected, lost, toHost, toGui, plugin, console>>

ReportEnd ==
  /\ host = "reporting"
  /\ IF connected THEN SendEvent(plugin) ELSE UNCHANGED toGui
  /\ EndHost
  /\ UNCHANGED <<launcher, connected, handler, lost, toHost, plugin, console>>

----------------------------------------------------------------------------
(* The plugin, the user and Windows *)

\* The shell's exit, a lost session, a crash.
PluginEnds ==
  /\ plugin = "running"
  /\ plugin' \in Codes
  /\ UNCHANGED <<launcher, process, toHost, toGui, console>>

\* The user closes the window; "live" if the session was up then.
CloseWindow ==
  /\ console = "open" /\ (HostLives \/ plugin = "running")
  /\ console' = IF gui = "owned" /\ plugin = "running" /\ host = "watching"
                THEN "closing_live" ELSE "closing"
  /\ UNCHANGED <<launcher, process, toHost, toGui, plugin>>

\* CTRL_CLOSE reaches the plugin, which ends in its own way.
ClosePlugin ==
  /\ Closing /\ plugin = "running"
  /\ plugin' \in Codes
  /\ UNCHANGED <<launcher, process, toHost, toGui, console>>

\* on_control, on the thread Windows makes for it.
OnControl ==
  /\ Closing /\ HostLives /\ handler = "on"
  /\ SendEvent("console_closed")
  /\ handler' = "returned"
  /\ UNCHANGED <<launcher, host, hostEnd, connected, lost, toHost, plugin, console>>

\* The default handler ends the host.
CloseHost ==
  /\ Closing /\ HostLives /\ handler # "on"
  /\ EndHost
  /\ UNCHANGED <<launcher, connected, handler, lost, toHost, toGui, plugin, console>>

\* The host is killed from outside.
LoseHost ==
  /\ HostLives
  /\ EndHost
  /\ lost' = TRUE
  /\ UNCHANGED <<launcher, connected, handler, toHost, toGui, plugin, console>>

----------------------------------------------------------------------------

GuiStep == Dispatch \/ Accepted \/ SendArgv \/ Report \/ GiveUp \/ CloseFailed
           \/ Poll \/ Terminate \/ Kill \/ Forget
HostStep == Connect \/ Receive \/ Register \/ Announce \/ Reclaim \/ Watch
            \/ SeeEnd \/ ReportEnd
WindowStep == ClosePlugin \/ OnControl \/ CloseHost

TerminalNext == GuiStep \/ HostStep \/ WindowStep \/ Stop \/ WaitTooLong \/ Quit
        \/ PluginEnds \/ CloseWindow \/ LoseHost

TerminalSpec == TerminalInit /\ [][TerminalNext]_terminalVars

\* The threads of the GUI and of the host run, and Windows delivers what it
\* has begun to deliver.  Nobody has to stop, quit, close, kill or end.
FairTerminalSpec ==
  /\ TerminalSpec
  /\ WF_terminalVars(GuiStep) /\ WF_terminalVars(HostStep) /\ WF_terminalVars(WindowStep)

----------------------------------------------------------------------------
(* Properties *)

\* A session is recorded as a success only when the plugin really ended with
\* 0 or the user closed the window: a lost pipe, a killed host and a plugin
\* that was terminated are never taken for it (_TerminalSessionProcess.poll).
SuccessIsTrue == code = "zero" => plugin = "zero" \/ Closing

\* No plugin runs on behind the back of the GUI: not after a launch that failed,
\* however late the host connects, starts the plugin or reports it, and not after
\* a stop whose two waits of five seconds ran out before the pipe was dropped,
\* unless the host itself was killed (_start_terminal_process, _stop_process,
\* session_host.main).
LeftPluginsEnd == gui \in {"failed", "left"} ~> plugin # "running" \/ lost

\* The terminal implements the port of a session process.
Fate == {c \in Codes : plugin = c} \cup {c \in {"closed"} : Closing}

Phase ==
  IF code # "none" THEN "ended"
  ELSE IF Owned THEN "running"
  ELSE IF gui \in {"left", "gone"} THEN "let_go"
  ELSE IF gui = "failed" THEN "refused"
  ELSE "starting"

Port == INSTANCE SessionProcess WITH phase <- Phase, answer <- code, fate <- Fate
ImplementsPort == Port!Spec

=============================================================================
