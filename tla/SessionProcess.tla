--------------------------- MODULE SessionProcess ---------------------------
(***************************************************************************)
(* The port the session runners hold a plugin process by: it is refused or *)
(* handed over once, it reports one exit code, and it reports success only *)
(* for an end that was one.  Nothing here knows of consoles or pipes.      *)
(***************************************************************************)

VARIABLES phase,   \* what the owner has: nothing yet, a process, its answer
          answer,  \* the exit code the owner was told, as success or failure
          fate     \* what happened to the plugin and to its console

Codes == {"zero", "nonzero"}

TypeOK ==
  /\ phase \in {"starting", "refused", "running", "ended", "let_go"}
  /\ answer \in Codes \cup {"none"}
  /\ fate \subseteq Codes \cup {"closed"}

Init == phase = "starting" /\ answer = "none" /\ fate = {}

Happen(what) == fate' = fate \cup {what} /\ UNCHANGED <<phase, answer>>

Start ==
  /\ phase = "starting"
  /\ phase' \in {"running", "refused"}
  /\ UNCHANGED <<answer, fate>>

\* Success is said of a plugin that ended with 0 or whose console the user
\* closed; anything may be reported as a failure.
Answer(code) ==
  /\ phase = "running"
  /\ code = "zero" => fate \cap {"zero", "closed"} # {}
  /\ phase' = "ended"
  /\ answer' = code
  /\ UNCHANGED fate

LetGo == phase = "running" /\ phase' = "let_go" /\ UNCHANGED <<answer, fate>>

Next ==
  \/ \E what \in Codes \cup {"closed"} : Happen(what)
  \/ \E code \in Codes : Answer(code)
  \/ Start
  \/ LetGo

\* A plugin that is over is reported unless its owner lets it go.
Told == fate # {} /\ \E code \in Codes : Answer(code)

vars == <<phase, answer, fate>>

Steps == Init /\ [][Next]_vars

Spec == Steps /\ WF_vars(Start) /\ WF_vars(Told)
=============================================================================
