--------------------------- MODULE Authentication ---------------------------
(***************************************************************************)
(* MFA recovery and session reuse inside one process of AWS Connect: the   *)
(* SessionGuard, AuthenticationService.refresh and status, the             *)
(* OperationCoordinator (table `waiting`), and on top of it the            *)
(* AuthenticatedOperationCoordinator (table `parked`).  Callers are the    *)
(* GUI's pool threads, or the one thread of the CLI; each step is one      *)
(* critical section, one store transaction or one call to AWS.             *)
(*                                                                         *)
(* A request is one operation id.  ActionRequests come in through          *)
(* AuthenticatedOperationCoordinator.start; DirectRequests through         *)
(* OperationCoordinator.start_refresh, as the sign-in dialog and `profile  *)
(* refresh` do.  The code mints an id at the start and rebinds it to the   *)
(* id of the refresh; both stand here for the same request.                *)
(***************************************************************************)
EXTENDS Naturals, FiniteSets

CONSTANTS
  Callers,          \* threads of the process
  Profiles,
  ActionRequests,   \* feature operations that may need MFA
  DirectRequests,   \* explicit sign-in requests
  MaxPending,       \* MAX_PENDING_AUTHENTICATION_OPERATIONS (128)
  ChallengeLife,    \* life of an MFA challenge (five minutes)
  SessionLife,      \* life of a session up to its refresh window
  MaxClock,         \* bound on time
  MaxRevision,      \* bound on the revisions of a profile
  Faults,           \* what the outside may do wrong: see FaultKinds
  Nobody            \* the holder of a free lock

Requests == ActionRequests \cup DirectRequests

\* "reject": AWS or the key protector refuses a stored session.  "network": a
\* call fails with an error nothing catches.  "sts": no token is issued, or it
\* has another identity.  "share": the shared file cannot be written.
FaultKinds == {"reject", "network", "sts", "share"}

ASSUME AuthenticationAssumption ==
  /\ ActionRequests \cap DirectRequests = {}
  /\ MaxPending \in Nat \ {0}
  /\ ChallengeLife \in Nat \ {0}
  /\ SessionLife \in Nat \ {0}
  /\ MaxClock \in Nat
  /\ MaxRevision \in Nat \ {0}
  /\ Faults \subseteq FaultKinds
  /\ Profiles # {}
  /\ Nobody \notin Callers \cup Requests

VARIABLES
  clock,     \* Clock.now()
  profile,   \* aws_profiles: revision of the identity, and whether MFA is on
  session,   \* session_credentials: one row per profile, or NoRow
  shared,    \* serial of the session in the profile's shared-file section
  issued,    \* sessions STS has issued so far
  parked,    \* AuthenticatedOperationCoordinator._pending
  waiting,   \* OperationCoordinator._pending
  deadline,  \* expires_at of the request's challenge, in both tables
  target,    \* the profile the request is for
  lock,      \* AuthenticationService._refresh_locks
  pc, local, \* where each caller is, and its local variables
  fate, runs \* history: what became of a request, and its resumed runs

stores == <<profile, session, shared, issued>>
tables == <<parked, waiting, deadline, target>>
history == <<fate, runs>>
vars == <<clock, stores, tables, lock, pc, local, history>>

-----------------------------------------------------------------------------
(* Data *)

\* `until` is the first instant at which needs_refresh holds of the row.
Rows == [serial : Nat, revision : Nat, until : Nat]
NoRow == [serial |-> 0, revision |-> 0, until |-> 0]

NeedsRefresh(row) == row.until <= clock

Stages == {"attempt", "direct", "refresh", "retry", "cancel", "local"}
Codes == {"six_digits", "malformed", "none"}

Labels ==
  {"idle", "resolve", "load", "verify", "evict", "body", "discard", "status",
   "statusEvict", "enrol", "park", "drop", "claim", "admit", "acquire",
   "precheck", "sts", "put", "publish", "unput", "updated"}

Locals ==
  [req : Requests \cup {Nobody}, prof : Profiles, stage : Stages, code : Codes,
   seen : Nat,   \* history: revision of the profile when the call came in
   rev : Nat,    \* revision of the profile the guard resolved
   base : Nat,   \* revision of the profile the refresh resolved
   row : Rows]

Call(c, label, r, p, stage, code) ==
  /\ pc[c] = "idle"
  /\ pc' = [pc EXCEPT ![c] = label]
  /\ local' = [local EXCEPT ![c] =
       [req |-> r, prof |-> p, stage |-> stage, code |-> code,
        seen |-> profile[p].revision, rev |-> 0, base |-> 0, row |-> NoRow]]

Goto(c, label) == pc' = [pc EXCEPT ![c] = label]
GotoStage(c, label, stage) ==
  Goto(c, label) /\ local' = [local EXCEPT ![c].stage = stage]

\* Leaving `with refresh_lock`, on any path.  _leaked: release skipped.
Unlock_leaked(c) == UNCHANGED lock
Unlock(c) ==
  lock' = [p \in Profiles |-> IF lock[p] = c THEN Nobody ELSE lock[p]]

AnyProfile == CHOOSE p \in Profiles : TRUE
Blank == [req |-> Nobody, prof |-> AnyProfile, stage |-> "local", code |-> "none",
          seen |-> 0, rev |-> 0, base |-> 0, row |-> NoRow]

\* The caller returns to the presentation layer with a result or an exception.
Return(c) == Goto(c, "idle") /\ local' = [local EXCEPT ![c] = Blank]

Finish(c) ==
  /\ Return(c)
  /\ Unlock(c)
  /\ fate' = [r \in Requests |->
                IF /\ r = local[c].req /\ fate[r] \in {"running", "claimed"}
                   /\ local[c].stage # "cancel"
                THEN "closed" ELSE fate[r]]
  /\ UNCHANGED runs

\* The resumed request gets what it was waiting for.
Deliver(c) ==
  /\ fate' = [fate EXCEPT ![local[c].req] = "delivered"]
  /\ runs' = [runs EXCEPT ![local[c].req] = @ + 1]

Expired(r) == deadline[r] <= clock

Init ==
  /\ clock = 0
  /\ profile \in [Profiles -> [revision : {1}, mfa : BOOLEAN]]
  /\ session = [p \in Profiles |-> NoRow]
  /\ shared = [p \in Profiles |-> 0]
  /\ issued = 0
  /\ parked = {} /\ waiting = {}
  /\ deadline = [r \in Requests |-> 0]
  /\ target = [r \in Requests |-> AnyProfile]
  /\ lock = [p \in Profiles |-> Nobody]
  /\ pc = [c \in Callers |-> "idle"]
  /\ local = [c \in Callers |-> Blank]
  /\ fate = [r \in Requests |-> "unused"]
  /\ runs = [r \in Requests |-> 0]

-----------------------------------------------------------------------------
(* AuthenticatedOperationCoordinator: start_long, resume, cancel *)

\* _sweep_expired, whose nested cancel takes the challenge with the action.
Overdue(kept) == {k \in parked : k # kept /\ Expired(k)}

\* _get: resume reads its entry and leaves it in the table.
Sweep_get(kept, taken) ==
  parked' = parked \ Overdue(kept) /\ waiting' = waiting \ Overdue(kept)
Sweep(kept, taken) ==
  /\ parked' = parked \ (Overdue(kept) \cup taken)
  /\ waiting' = waiting \ Overdue(kept)

\* The history after requests `dead` are swept and r has become `now`.
Record(dead, r, now) ==
  fate' = [k \in Requests |-> IF k = r THEN now
                              ELSE IF k \in dead THEN "closed" ELSE fate[k]]

StartLong(c, r, p) ==
  /\ fate[r] = "unused"
  /\ Call(c, "resolve", r, p, "attempt", "none")
  /\ Sweep(Nobody, {})
  /\ Record(Overdue(Nobody), r, "running")
  /\ target' = [target EXCEPT ![r] = p]
  /\ UNCHANGED <<clock, stores, deadline, lock, runs>>

\* The caller has the id from an MFA_REQUIRED result.
Known(r) == fate[r] \notin {"unused", "running"}

\* An entry that is gone is the _failure result; an expired one is cancelled.
Resume(c, r, code) ==
  \/ /\ r \in parked /\ ~Expired(r)
     /\ Call(c, "claim", r, target[r], "refresh", code)
     /\ Sweep(r, {r})
     /\ Record(Overdue(r), r, "claimed")
     /\ UNCHANGED <<clock, stores, deadline, target, lock, runs>>
  \/ /\ r \in parked /\ Expired(r)
     /\ Call(c, "drop", r, target[r], "cancel", "none")
     /\ Sweep(r, {r})
     /\ Record(Overdue(r), r, "closed")
     /\ UNCHANGED <<clock, stores, deadline, target, lock, runs>>
  \/ /\ r \notin parked /\ Known(r) /\ pc[c] = "idle"
     /\ Sweep(r, {})
     /\ Record(Overdue(r), r, fate[r])
     /\ UNCHANGED <<clock, stores, deadline, target, lock, pc, local, runs>>

Cancel(c, r) ==
  /\ Known(r)
  /\ Call(c, "drop", r, target[r], "cancel", "none")
  /\ parked' = parked \ {r}
  /\ Record({r} \cap parked, Nobody, "closed")
  /\ UNCHANGED <<clock, stores, waiting, deadline, target, lock, runs>>

\* The action is kept for the resume, unless the table is full.
Park(c) ==
  LET r == local[c].req IN
  /\ pc[c] = "park"
  /\ \/ /\ Cardinality(parked) < MaxPending
        /\ parked' = parked \cup {r}
        /\ Return(c)
        /\ Record({}, r, "offered")
     \/ /\ Cardinality(parked) >= MaxPending
        /\ GotoStage(c, "drop", "cancel")
        /\ Record({}, r, "closed")
        /\ UNCHANGED parked
  /\ UNCHANGED <<clock, stores, waiting, deadline, target, lock, runs>>

\* OperationCoordinator.cancel.  _kept: only the action is dropped.
Forget_kept(r) == waiting
Forget(r) == waiting \ {r}

DropChallenge(c) ==
  /\ pc[c] = "drop"
  /\ waiting' = Forget(local[c].req)
  /\ Finish(c)
  /\ UNCHANGED <<clock, stores, parked, deadline, target>>

\* The feature's own work, with the credentials the guard returned.
Body(c) ==
  /\ pc[c] = "body"
  /\ Finish(c)
  /\ UNCHANGED <<clock, stores, tables>>

-----------------------------------------------------------------------------
(* SessionGuard.credentials and require_credentials *)

\* No reusable session: the attempt asks for a refresh, the retry fails with
\* auth.mfa_required, and the refresh itself goes on to STS.
WithoutCredentials(c) ==
  \/ local[c].stage = "attempt" /\ Goto(c, "discard") /\ UNCHANGED <<lock, local, history>>
  \/ local[c].stage = "refresh" /\ Goto(c, "sts") /\ UNCHANGED <<lock, local, history>>
  \/ local[c].stage = "retry" /\ Finish(c)

GuardResolve(c) ==
  /\ pc[c] = "resolve"
  /\ Goto(c, "load")
  /\ local' = [local EXCEPT ![c].rev = profile[local[c].prof].revision]
  /\ UNCHANGED <<clock, stores, tables, lock, history>>

GuardLoad(c) ==
  LET row == session[local[c].prof] IN
  /\ pc[c] = "load"
  /\ \/ row = NoRow /\ WithoutCredentials(c)
     \/ /\ row # NoRow
        /\ Goto(c, IF NeedsRefresh(row) THEN "evict" ELSE "verify")
        /\ local' = [local EXCEPT ![c].row = row]
        /\ UNCHANGED <<lock, history>>
  /\ UNCHANGED <<clock, stores, tables>>

\* GetCallerIdentity with the stored session, and _assert_identity.
SameIdentity_skipped(c) == TRUE
SameIdentity(c) == local[c].row.revision = local[c].rev

GuardVerify(c) ==
  /\ pc[c] = "verify"
  /\ \/ /\ SameIdentity(c)
        /\ Goto(c, IF local[c].stage = "refresh" THEN "status" ELSE "body")
        /\ UNCHANGED <<lock, local, history>>
     \/ /\ ~SameIdentity(c) \/ "reject" \in Faults
        /\ Goto(c, "evict")
        /\ UNCHANGED <<lock, local, history>>
     \/ "network" \in Faults /\ Finish(c)
  /\ UNCHANGED <<clock, stores, tables>>

\* delete_session, whatever row the store holds by now.
GuardEvict(c) ==
  /\ pc[c] = "evict"
  /\ session' = [session EXCEPT ![local[c].prof] = NoRow]
  /\ WithoutCredentials(c)
  /\ UNCHANGED <<clock, profile, shared, issued, tables>>

-----------------------------------------------------------------------------
(* OperationCoordinator: start_refresh and resume *)

\* _evicting: a full table makes room.
SweepWaiting_evicting ==
  {r \in waiting : Expired(r) \/ Cardinality(waiting) >= MaxPending}
SweepWaiting == {r \in waiting : Expired(r)}
Lapse(dead) == fate' = [r \in Requests |->
  IF r \in dead \cap DirectRequests THEN "closed" ELSE fate[r]]

\* A call that discards the session sweeps in its next step, Discard.
StartRefresh(c, r, p, discard) ==
  LET dead == IF discard THEN {} ELSE SweepWaiting IN
  /\ fate[r] = "unused"
  /\ Call(c, IF discard THEN "discard" ELSE "status", r, p, "direct", "none")
  /\ waiting' = waiting \ dead
  /\ Record(dead \cap DirectRequests, r, "running")
  /\ target' = [target EXCEPT ![r] = p]
  /\ UNCHANGED <<clock, stores, parked, deadline, lock, runs>>

Discard(c) ==
  /\ pc[c] = "discard"
  /\ waiting' = waiting \ SweepWaiting
  /\ Lapse(SweepWaiting)
  /\ session' = [session EXCEPT ![local[c].prof] = NoRow]
  /\ Goto(c, "status")
  /\ UNCHANGED <<clock, profile, shared, issued, parked, deadline, target, lock, local, runs>>

\* The table is swept and measured in the critical section that adds to it.
HasRoom == Cardinality(waiting \ SweepWaiting) < MaxPending

Enrol(c) ==
  LET r == local[c].req IN
  /\ pc[c] = "enrol"
  /\ \/ /\ HasRoom
        /\ waiting' = (waiting \ SweepWaiting) \cup {r}
        /\ deadline' = [deadline EXCEPT ![r] = clock + ChallengeLife]
        /\ IF r \in ActionRequests
             THEN Goto(c, "park") /\ Lapse(SweepWaiting) /\ UNCHANGED local
             ELSE Return(c) /\ Record(SweepWaiting \cap DirectRequests, r, "offered")
        /\ UNCHANGED <<lock, runs>>
     \/ /\ ~HasRoom
        /\ waiting' = waiting \ SweepWaiting
        /\ Return(c)
        /\ Record(SweepWaiting \cap DirectRequests, r, "closed")
        /\ UNCHANGED <<deadline, lock, runs>>
  /\ UNCHANGED <<clock, stores, parked, target>>

\* resume takes the challenge out of the table under the lock ...
ClaimForAction(c) ==
  LET r == local[c].req IN
  /\ pc[c] = "claim"
  /\ waiting' = waiting \ {r}
  /\ \/ r \in waiting /\ Goto(c, "admit") /\ UNCHANGED <<lock, local, history>>
     \/ r \notin waiting /\ Finish(c)
  /\ UNCHANGED <<clock, stores, parked, deadline, target>>

ResumeDirect(c, r, code) ==
  /\ r \in waiting \cap DirectRequests
  /\ Call(c, "admit", r, target[r], "refresh", code)
  /\ waiting' = waiting \ {r}
  /\ Record({}, r, "claimed")
  /\ UNCHANGED <<clock, stores, parked, deadline, target, lock, runs>>

\* ... and outside it refuses a cancelled dialog and an expired challenge.
Admit(c) ==
  LET r == local[c].req IN
  /\ pc[c] = "admit"
  /\ \/ (local[c].code = "none" \/ Expired(r)) /\ Finish(c)
     \/ /\ local[c].code # "none" /\ ~Expired(r)
        /\ Goto(c, "acquire")
        /\ IF r \in DirectRequests THEN Deliver(c) ELSE UNCHANGED history
        /\ UNCHANGED <<lock, local>>
  /\ UNCHANGED <<clock, stores, tables>>

-----------------------------------------------------------------------------
(* AuthenticationService: refresh, under the profile's lock, and status *)

\* _unlocked: without the lock.
Acquire_unlocked(c) ==
  pc[c] = "acquire" /\ Goto(c, "precheck")
  /\ UNCHANGED <<clock, stores, tables, lock, local, history>>

Acquire(c) ==
  LET p == local[c].prof IN
  /\ pc[c] = "acquire" /\ lock[p] = Nobody
  /\ lock' = [lock EXCEPT ![p] = c]
  /\ Goto(c, "precheck")
  /\ UNCHANGED <<clock, stores, tables, local, history>>

Precheck(c) ==
  LET prof == profile[local[c].prof] IN
  /\ pc[c] = "precheck"
  /\ \/ prof.mfa /\ local[c].code # "six_digits" /\ Finish(c)
     \/ /\ ~prof.mfa \/ local[c].code = "six_digits"
        /\ Goto(c, "resolve")
        /\ local' = [local EXCEPT ![c].base = prof.revision]
        /\ UNCHANGED <<lock, history>>
  /\ UNCHANGED <<clock, stores, tables>>

\* get_session_token, then get_identity on what was issued.
SessionUntil == clock + SessionLife

IssueToken(c) ==
  /\ pc[c] = "sts"
  /\ \/ /\ issued' = issued + 1
        /\ Goto(c, "put")
        /\ local' = [local EXCEPT ![c].row =
             [serial |-> issued + 1, revision |-> local[c].base,
              until |-> SessionUntil]]
        /\ UNCHANGED <<lock, history>>
     \/ "sts" \in Faults /\ Finish(c) /\ UNCHANGED issued
  /\ UNCHANGED <<clock, profile, session, shared, tables>>

PutSession(c) ==
  /\ pc[c] = "put"
  /\ session' = [session EXCEPT ![local[c].prof] = local[c].row]
  /\ Goto(c, "publish")
  /\ UNCHANGED <<clock, profile, shared, issued, tables, lock, local, history>>

\* A failing write may fail before or after it has replaced the file.
Publish(c) ==
  LET written == [shared EXCEPT ![local[c].prof] = local[c].row.serial] IN
  /\ pc[c] = "publish"
  /\ \/ shared' = written /\ Goto(c, "status")
     \/ "share" \in Faults /\ shared' \in {shared, written} /\ Goto(c, "unput")
  /\ UNCHANGED <<clock, profile, session, issued, tables, lock, local, history>>

Unput(p) == [session EXCEPT ![p] = NoRow]

WithdrawSession(c) ==
  /\ pc[c] = "unput"
  /\ session' = Unput(local[c].prof)
  /\ Finish(c)
  /\ UNCHANGED <<clock, profile, shared, issued, tables>>

\* What follows status(): the end of refresh, which wakes the request up; the
\* decision of start_refresh; or the return to the page that asked.
AfterStatus(c, reusable) ==
  LET r == local[c].req IN
  \/ /\ local[c].stage = "refresh" /\ r \in ActionRequests
     /\ Unlock(c)
     /\ GotoStage(c, "resolve", "retry")
     /\ IF fate[r] = "claimed" THEN Deliver(c) ELSE UNCHANGED history
  \/ local[c].stage = "refresh" /\ r \in DirectRequests /\ Finish(c)
  \/ /\ local[c].stage = "attempt" /\ reusable
     /\ GotoStage(c, "resolve", "retry") /\ UNCHANGED <<lock, history>>
  \/ /\ local[c].stage \in {"attempt", "direct"} /\ ~reusable
     /\ IF profile[local[c].prof].mfa THEN Goto(c, "enrol") /\ UNCHANGED local
        ELSE GotoStage(c, "acquire", "refresh")
     /\ UNCHANGED <<lock, history>>
  \/ /\ \/ local[c].stage = "local"
        \/ local[c].stage = "direct" /\ reusable
     /\ Finish(c)

Status(c) ==
  LET row == session[local[c].prof] IN
  /\ pc[c] = "status"
  /\ \/ /\ row # NoRow /\ NeedsRefresh(row)
        /\ Goto(c, "statusEvict") /\ UNCHANGED <<lock, local, history>>
     \/ row = NoRow /\ AfterStatus(c, FALSE)
     \/ row # NoRow /\ ~NeedsRefresh(row) /\ AfterStatus(c, TRUE)
  /\ UNCHANGED <<clock, stores, tables>>

StatusEvict(c) ==
  /\ pc[c] = "statusEvict"
  /\ session' = [session EXCEPT ![local[c].prof] = NoRow]
  /\ AfterStatus(c, FALSE)
  /\ UNCHANGED <<clock, profile, shared, issued, tables>>

\* The GUI's local projection, which reads nothing from AWS.
ShowStatus(c, p) ==
  /\ Call(c, "status", Nobody, p, "local", "none")
  /\ UNCHANGED <<clock, stores, tables, lock, history>>

-----------------------------------------------------------------------------
(* ProfileService.update: the profile, then its session, in two transactions *)

UpdateProfile(c, p, mfa) ==
  /\ profile[p].revision < MaxRevision
  /\ Call(c, "updated", Nobody, p, "local", "none")
  /\ profile' = [profile EXCEPT ![p] = [revision |-> @.revision + 1, mfa |-> mfa]]
  /\ UNCHANGED <<clock, session, shared, issued, tables, lock, history>>

UpdateEvict(c) ==
  /\ pc[c] = "updated"
  /\ session' = [session EXCEPT ![local[c].prof] = NoRow]
  /\ Finish(c)
  /\ UNCHANGED <<clock, profile, shared, issued, tables>>

-----------------------------------------------------------------------------
Tick ==
  /\ clock < MaxClock
  /\ clock' = clock + 1
  /\ UNCHANGED <<stores, tables, lock, pc, local, history>>

\* A call from a page or a command.
Enter(c) ==
  \/ \E r \in ActionRequests, p \in Profiles : StartLong(c, r, p)
  \/ \E r \in DirectRequests, p \in Profiles, discard \in BOOLEAN :
       StartRefresh(c, r, p, discard)
  \/ \E r \in ActionRequests, code \in Codes : Resume(c, r, code)
  \/ \E r \in DirectRequests, code \in Codes : ResumeDirect(c, r, code)
  \/ \E r \in ActionRequests : Cancel(c, r)
  \/ \E p \in Profiles : ShowStatus(c, p)
  \/ \E p \in Profiles, mfa \in BOOLEAN : UpdateProfile(c, p, mfa)

\* A step of a call that is under way.
Step(c) ==
  \/ GuardResolve(c) \/ GuardLoad(c) \/ GuardVerify(c) \/ GuardEvict(c)
  \/ Discard(c) \/ Status(c) \/ StatusEvict(c) \/ Enrol(c)
  \/ Park(c) \/ DropChallenge(c) \/ ClaimForAction(c) \/ Admit(c)
  \/ Acquire(c) \/ Precheck(c) \/ IssueToken(c) \/ PutSession(c)
  \/ Publish(c) \/ WithdrawSession(c) \/ UpdateEvict(c) \/ Body(c)

Next == Tick \/ \E c \in Callers : Enter(c) \/ Step(c)

Spec == Init /\ [][Next]_vars

\* Pool threads run, and every call to AWS or to the store returns.
FairSpec == Spec /\ \A c \in Callers : WF_vars(Step(c))

-----------------------------------------------------------------------------
(* Properties *)

TypeOK ==
  /\ clock \in Nat /\ issued \in Nat
  /\ profile \in [Profiles -> [revision : Nat, mfa : BOOLEAN]]
  /\ session \in [Profiles -> Rows]
  /\ shared \in [Profiles -> Nat]
  /\ parked \subseteq ActionRequests /\ waiting \subseteq Requests
  /\ deadline \in [Requests -> Nat]
  /\ target \in [Requests -> Profiles]
  /\ lock \in [Profiles -> Callers \cup {Nobody}]
  /\ pc \in [Callers -> Labels]
  /\ local \in [Callers -> Locals]
  /\ runs \in [Requests -> Nat]

\* Two threads that resume, cancel, sweep and start at once keep the promise of
\* OneShot: the parked action runs at most once, and never after it was
\* cancelled, expired or was refused (RELIABILITY.md: "MFA resumes the exact
\* original request at most once after successful refresh").
Promise == INSTANCE OneShot WITH Requests <- Requests, fate <- fate, runs <- runs
ResumesOnce == Promise!Spec

\* A thread that is adding, dropping or claiming the request r.
InHand(r) == \E c \in Callers :
  local[c].req = r /\ pc[c] \in {"park", "drop", "claim"}

\* A dialog that can still be answered has both halves, although the action and
\* its challenge are kept in two tables under two locks: a parked action can be
\* claimed from the other coordinator, no challenge outlives its action, and
\* neither table exceeds its bound, however many callers enrol at once.
TablesAgree ==
  /\ \A r \in parked : Expired(r) \/ r \in waiting
  /\ \A r \in waiting \cap ActionRequests : r \in parked \/ InHand(r) \/ Expired(r)
  /\ Cardinality(waiting) <= MaxPending /\ Cardinality(parked) <= MaxPending

\* A full table refuses the newcomer: a dialog that has not expired leaves a
\* table only by a call for that very request.
WorksOn(c, r) == pc[c] # pc'[c] /\ r \in {local[c].req, local'[c].req}
KeepsDialogs == [][
  \A r \in (parked \ parked') \cup (waiting \ waiting') :
    Expired(r) \/ \E c \in Callers : WorksOn(c, r)]_vars

\* The part of refresh that runs under the profile's lock.
Guarding == {"resolve", "load", "verify", "evict"}
InRefresh(c) ==
  \/ pc[c] \in {"precheck", "sts", "put", "publish", "unput"}
  \/ pc[c] \in Guarding \cup {"status", "statusEvict"} /\ local[c].stage = "refresh"

\* No two threads refresh one profile at the same time.
RefreshIsExclusive == \A c, d \in Callers :
  InRefresh(c) /\ InRefresh(d) /\ local[c].prof = local[d].prof => c = d

\* "A refresh is not complete until both credential stores agree": outside a
\* refresh, a stored session is the one in the shared credentials file.
StoresAgree == \A p \in Profiles :
  \/ \E c \in Callers : InRefresh(c) /\ local[c].prof = p
  \/ session[p] = NoRow
  \/ session[p].serial = shared[p]

\* A feature never works with the session of an identity the profile had given
\* up before the call came in, although update changes the profile and deletes
\* the session in two steps and a refresh may store an old one in between.
WorksAsCurrentIdentity == \A c \in Callers :
  pc[c] = "body" => local[c].row.revision >= local[c].seen

\* No call waits for ever on a table, a lock or another caller.
CallsReturn == \A c \in Callers : pc[c] # "idle" ~> pc[c] = "idle"

=============================================================================
