------------------------ MODULE AuthenticationProofs ------------------------
(***************************************************************************)
(* Theorems about Authentication, for any number of threads, profiles and  *)
(* requests, any bound on the tables, and every fault: the types, what     *)
(* refreshes of one profile do to each other, whom a feature works as, and *)
(* the promise of module OneShot.                                          *)
(***************************************************************************)
EXTENDS Authentication, FiniteSetTheorems, TLAPS

-----------------------------------------------------------------------------
(* Which stages of a call may be at which label, and for which requests.   *)

StageOK(label, l) ==
  /\ l.stage = "local" =>
       label \in {"idle", "status", "statusEvict", "updated"} /\ l.req = Nobody
  /\ l.stage = "attempt" =>
       /\ label \in Guarding \cup {"discard", "status", "statusEvict", "enrol", "park", "body"}
       /\ l.req \in ActionRequests
  /\ l.stage = "direct" =>
       /\ label \in {"discard", "status", "statusEvict", "enrol"}
       /\ l.req \in DirectRequests
  /\ l.stage = "retry" => label \in Guarding \cup {"body"} /\ l.req \in ActionRequests
  /\ l.stage = "refresh" =>
       /\ label \in Guarding \cup {"claim", "admit", "acquire", "precheck", "sts", "put",
                                   "publish", "unput", "status", "statusEvict"}
       /\ l.req \in Requests
       /\ label = "claim" => l.req \in ActionRequests
  /\ l.stage = "cancel" => label = "drop" /\ l.req \in ActionRequests

Typed == TypeOK /\ \A c \in Callers : StageOK(pc[c], local[c])

\* What a step of caller c must leave of the callers' state.
CallersTyped ==
  /\ pc' \in [Callers -> Labels] /\ local' \in [Callers -> Locals]
  /\ \A c \in Callers : StageOK(pc'[c], local'[c])

-----------------------------------------------------------------------------
(* The ways in which a caller moves *)

LEMMA BlankType == Blank \in Locals /\ StageOK("idle", Blank)
  BY AuthenticationAssumption
  DEF Blank, Locals, AnyProfile, Stages, Codes, Rows, NoRow, StageOK

LEMMA MoveType ==
  ASSUME Typed, NEW c \in Callers, NEW label \in Labels, NEW l \in Locals,
         StageOK(label, l),
         pc' = [pc EXCEPT ![c] = label], local' = [local EXCEPT ![c] = l]
  PROVE  CallersTyped
<1>1. pc' \in [Callers -> Labels] /\ local' \in [Callers -> Locals]
  BY DEF Typed, TypeOK
<1>2. ASSUME NEW d \in Callers PROVE StageOK(pc'[d], local'[d])
  <2>1. CASE d = c
    <3>1. pc'[d] = label /\ local'[d] = l
      BY <2>1 DEF Typed, TypeOK
    <3> QED
      BY <3>1
  <2>2. CASE d # c
    <3>1. pc'[d] = pc[d] /\ local'[d] = local[d]
      BY <2>2 DEF Typed, TypeOK
    <3> QED
      BY <3>1 DEF Typed
  <2> QED
    BY <2>1, <2>2
<1> QED
  BY <1>1, <1>2 DEF CallersTyped

LEMMA GotoType ==
  ASSUME Typed, NEW c \in Callers, NEW label \in Labels, StageOK(label, local[c]),
         Goto(c, label), UNCHANGED local
  PROVE  CallersTyped
<1>1. local[c] \in Locals /\ local' = [local EXCEPT ![c] = local[c]]
  BY DEF Typed, TypeOK
<1> QED
  BY <1>1, MoveType DEF Goto

LEMMA GotoStageType ==
  ASSUME Typed, NEW c \in Callers, NEW label \in Labels, NEW stage \in Stages,
         StageOK(label, [local[c] EXCEPT !.stage = stage]),
         GotoStage(c, label, stage)
  PROVE  CallersTyped
<1>1. [local[c] EXCEPT !.stage = stage] \in Locals
  BY DEF Typed, TypeOK, Locals
<1> QED
  BY <1>1, MoveType DEF GotoStage, Goto

LEMMA ReturnType ==
  ASSUME Typed, NEW c \in Callers, Return(c)
  PROVE  CallersTyped
  BY BlankType, MoveType DEF Return, Goto, Labels

\* Only caller c has moved.
OthersStay(c) == \A d \in Callers \ {c} : pc'[d] = pc[d] /\ local'[d] = local[d]

LEMMA MoverStays ==
  ASSUME Typed, NEW c \in Callers, NEW label, NEW l,
         pc' = [pc EXCEPT ![c] = label], local' = [local EXCEPT ![c] = l]
  PROVE  OthersStay(c) /\ pc'[c] = label /\ local'[c] = l
  BY DEF OthersStay, Typed, TypeOK

LEMMA ReturnMoves ==
  ASSUME Typed, NEW c \in Callers, Return(c)
  PROVE  OthersStay(c) /\ local'[c].stage = "local"
<1>1. OthersStay(c) /\ local'[c] = Blank
  BY DEF Return, Goto, OthersStay, Typed, TypeOK
<1> QED
  BY <1>1 DEF Blank

\* A call that comes in has well-typed local variables.
LEMMA CallType ==
  ASSUME Typed, NEW c \in Callers, NEW label \in Labels,
         NEW r \in Requests \cup {Nobody}, NEW p \in Profiles,
         NEW stage \in Stages, NEW code \in Codes,
         StageOK(label, [req |-> r, stage |-> stage]),
         Call(c, label, r, p, stage, code)
  PROVE  CallersTyped
<1> DEFINE l == [req |-> r, prof |-> p, stage |-> stage, code |-> code,
                 seen |-> profile[p].revision, rev |-> 0, base |-> 0, row |-> NoRow]
<1>1. l \in Locals
  BY DEF Typed, TypeOK, Locals, Rows, NoRow
<1>2. StageOK(label, l)
  BY DEF StageOK
<1> QED
  BY <1>1, <1>2, MoveType DEF Call

LEMMA UnlockType ==
  ASSUME Typed, NEW c \in Callers, Unlock(c)
  PROVE  lock' \in [Profiles -> Callers \cup {Nobody}]
  BY DEF Unlock, Typed, TypeOK

LEMMA DeliverType ==
  ASSUME Typed, NEW c \in Callers, local[c].req \in Requests, Deliver(c)
  PROVE  runs' \in [Requests -> Nat]
  BY DEF Deliver, Typed, TypeOK

\* What most steps must say: the lock, the counts and the callers are well typed.
ControlTyped ==
  /\ CallersTyped
  /\ lock' \in [Profiles -> Callers \cup {Nobody}]
  /\ runs' \in [Requests -> Nat]

LEMMA FinishType ==
  ASSUME Typed, NEW c \in Callers, Finish(c)
  PROVE  ControlTyped
  BY ReturnType, UnlockType DEF Finish, ControlTyped, Typed, TypeOK

LEMMA StayType ==
  ASSUME Typed, UNCHANGED <<lock, history>>
  PROVE  /\ lock' \in [Profiles -> Callers \cup {Nobody}]
         /\ runs' \in [Requests -> Nat]
  BY DEF history, Typed, TypeOK

LEMMA AfterStatusType ==
  ASSUME Typed, NEW c \in Callers, pc[c] \in {"status", "statusEvict"},
         NEW reusable \in BOOLEAN, AfterStatus(c, reusable)
  PROVE  ControlTyped
<1> DEFINE l == local[c]
<1>0. StageOK(pc[c], l)
  BY DEF Typed
<1>1. CASE Finish(c)
  BY <1>1, FinishType
<1>2. CASE /\ l.stage = "refresh" /\ l.req \in ActionRequests
           /\ Unlock(c) /\ GotoStage(c, "resolve", "retry")
           /\ IF fate[l.req] = "claimed" THEN Deliver(c) ELSE UNCHANGED history
  <2>1. StageOK("resolve", [l EXCEPT !.stage = "retry"])
    BY <1>2 DEF StageOK, Guarding, Typed, TypeOK, Locals
  <2>2. CallersTyped
    BY <1>2, <2>1, GotoStageType DEF Labels, Stages
  <2>3. runs' \in [Requests -> Nat]
    BY <1>2, DeliverType DEF history, Requests, Typed, TypeOK
  <2> QED
    BY <1>2, <2>2, <2>3, UnlockType DEF ControlTyped
<1>3. CASE /\ l.stage = "attempt" /\ GotoStage(c, "resolve", "retry")
           /\ UNCHANGED <<lock, history>>
  <2>1. StageOK("resolve", [l EXCEPT !.stage = "retry"])
    BY <1>0, <1>3 DEF StageOK, Guarding, Typed, TypeOK, Locals
  <2> QED
    BY <1>3, <2>1, GotoStageType, StayType DEF Labels, Stages, ControlTyped
<1>4. CASE /\ l.stage \in {"attempt", "direct"} /\ Goto(c, "enrol")
           /\ UNCHANGED <<lock, local, history>>
  <2>1. StageOK("enrol", l)
    BY <1>0, <1>4 DEF StageOK
  <2> QED
    BY <1>4, <2>1, GotoType, StayType DEF Labels, ControlTyped
<1>5. CASE /\ l.stage \in {"attempt", "direct"} /\ GotoStage(c, "acquire", "refresh")
           /\ UNCHANGED <<lock, history>>
  <2>1. StageOK("acquire", [l EXCEPT !.stage = "refresh"])
    BY <1>0, <1>5 DEF StageOK, Guarding, Typed, TypeOK, Locals, Requests
  <2> QED
    BY <1>5, <2>1, GotoStageType, StayType DEF Labels, Stages, ControlTyped
<1> QED
  BY <1>1, <1>2, <1>3, <1>4, <1>5 DEF AfterStatus

LEMMA WithoutCredentialsType ==
  ASSUME Typed, NEW c \in Callers, pc[c] \in Guarding, WithoutCredentials(c)
  PROVE  ControlTyped
<1>0. StageOK(pc[c], local[c])
  BY DEF Typed
<1>1. CASE local[c].stage = "attempt" /\ Goto(c, "discard") /\ UNCHANGED <<lock, local, history>>
  <2>1. StageOK("discard", local[c])
    BY <1>0, <1>1 DEF StageOK
  <2> QED
    BY <1>1, <2>1, GotoType, StayType DEF Labels, ControlTyped
<1>2. CASE local[c].stage = "refresh" /\ Goto(c, "sts") /\ UNCHANGED <<lock, local, history>>
  <2>1. StageOK("sts", local[c])
    BY <1>0, <1>2 DEF StageOK
  <2> QED
    BY <1>2, <2>1, GotoType, StayType DEF Labels, ControlTyped
<1> QED
  BY <1>1, <1>2, FinishType DEF WithoutCredentials

-----------------------------------------------------------------------------
(* Typed is inductive *)

LEMMA InitType == Init => Typed
  BY BlankType, AuthenticationAssumption
  DEF Init, Typed, TypeOK, Rows, NoRow, AnyProfile, Labels

LEMMA TypedFrom == TypeOK' /\ CallersTyped => Typed'
  BY DEF Typed, CallersTyped

LEMMA EnterType ==
  ASSUME Typed, NEW c \in Callers, Enter(c)
  PROVE  Typed'
<1> USE AuthenticationAssumption DEF tables, stores, history
<1>1. ASSUME NEW r \in ActionRequests, NEW p \in Profiles, StartLong(c, r, p)
      PROVE  Typed'
  <2>1. CallersTyped
    BY <1>1, CallType DEF StartLong, StageOK, Guarding, Labels, Stages, Codes, Requests
  <2>2. TypeOK'
    BY <1>1, <2>1 DEF StartLong, Sweep, CallersTyped, Typed, TypeOK, Requests
  <2> QED
    BY <2>1, <2>2, TypedFrom
<1>2. ASSUME NEW r \in DirectRequests, NEW p \in Profiles, NEW discard \in BOOLEAN,
             StartRefresh(c, r, p, discard)
      PROVE  Typed'
  <2>1. CallersTyped
    BY <1>2, CallType DEF StartRefresh, StageOK, Labels, Stages, Codes, Requests
  <2>2. TypeOK'
    BY <1>2, <2>1 DEF StartRefresh, CallersTyped, Typed, TypeOK, Requests
  <2> QED
    BY <2>1, <2>2, TypedFrom
<1>3. ASSUME NEW r \in ActionRequests, NEW code \in Codes, Resume(c, r, code)
      PROVE  Typed'
  <2>1. CASE r \in parked /\ ~Expired(r)
    <3>1. target[r] \in Profiles
      BY DEF Typed, TypeOK, Requests
    <3>2. CallersTyped
      BY <1>3, <2>1, <3>1, CallType DEF Resume, StageOK, Labels, Stages, Codes, Requests
    <3>3. TypeOK'
      BY <1>3, <3>2 DEF Resume, Sweep, CallersTyped, Typed, TypeOK
    <3> QED
      BY <3>2, <3>3, TypedFrom
  <2>2. CASE r \in parked /\ Expired(r)
    <3>1. target[r] \in Profiles
      BY DEF Typed, TypeOK, Requests
    <3>2. CallersTyped
      BY <1>3, <2>2, <3>1, CallType DEF Resume, StageOK, Labels, Stages, Codes, Requests
    <3>3. TypeOK'
      BY <1>3, <3>2 DEF Resume, Sweep, CallersTyped, Typed, TypeOK
    <3> QED
      BY <3>2, <3>3, TypedFrom
  <2>3. CASE r \notin parked
    BY <1>3, <2>3 DEF Resume, Sweep, Typed, TypeOK
  <2> QED
    BY <2>1, <2>2, <2>3
<1>4. ASSUME NEW r \in DirectRequests, NEW code \in Codes, ResumeDirect(c, r, code)
      PROVE  Typed'
  <2>1. target[r] \in Profiles
    BY DEF Typed, TypeOK, Requests
  <2>2. CallersTyped
    BY <1>4, <2>1, CallType DEF ResumeDirect, StageOK, Labels, Stages, Codes, Requests
  <2>3. TypeOK'
    BY <1>4, <2>2 DEF ResumeDirect, CallersTyped, Typed, TypeOK
  <2> QED
    BY <2>2, <2>3, TypedFrom
<1>5. ASSUME NEW r \in ActionRequests, Cancel(c, r)
      PROVE  Typed'
  <2>1. target[r] \in Profiles
    BY DEF Typed, TypeOK, Requests
  <2>2. CallersTyped
    BY <1>5, <2>1, CallType DEF Cancel, StageOK, Labels, Stages, Codes, Requests
  <2>3. TypeOK'
    BY <1>5, <2>2 DEF Cancel, CallersTyped, Typed, TypeOK
  <2> QED
    BY <2>2, <2>3, TypedFrom
<1>6. ASSUME NEW p \in Profiles, ShowStatus(c, p)
      PROVE  Typed'
  <2>1. CallersTyped
    BY <1>6, CallType DEF ShowStatus, StageOK, Labels, Stages, Codes
  <2>2. TypeOK'
    BY <1>6, <2>1 DEF ShowStatus, CallersTyped, Typed, TypeOK
  <2> QED
    BY <2>1, <2>2, TypedFrom
<1>7. ASSUME NEW p \in Profiles, NEW mfa \in BOOLEAN, UpdateProfile(c, p, mfa)
      PROVE  Typed'
  <2>1. CallersTyped
    BY <1>7, CallType DEF UpdateProfile, StageOK, Labels, Stages, Codes
  <2>2. TypeOK'
    BY <1>7, <2>1 DEF UpdateProfile, CallersTyped, Typed, TypeOK
  <2> QED
    BY <2>1, <2>2, TypedFrom
<1> QED
  BY <1>1, <1>2, <1>3, <1>4, <1>5, <1>6, <1>7 DEF Enter

LEMMA StepType ==
  ASSUME Typed, NEW c \in Callers, Step(c)
  PROVE  Typed'
<1> USE AuthenticationAssumption DEF tables, stores, history
<1> DEFINE l == local[c]
<1>l. /\ l \in Locals /\ l.prof \in Profiles /\ NoRow \in Rows /\ l.row \in Rows
      /\ l.req \in Requests \cup {Nobody} /\ StageOK(pc[c], l)
  BY DEF Typed, TypeOK, Locals, Rows, NoRow
\* It is enough to move the callers properly and to keep the stores and tables.
<1>a. ASSUME ControlTyped,
             clock' \in Nat, issued' \in Nat,
             profile' \in [Profiles -> [revision : Nat, mfa : BOOLEAN]],
             session' \in [Profiles -> Rows], shared' \in [Profiles -> Nat],
             parked' \subseteq ActionRequests, waiting' \subseteq Requests,
             deadline' \in [Requests -> Nat], target' \in [Requests -> Profiles]
      PROVE  Typed'
  BY <1>a, TypedFrom DEF ControlTyped, CallersTyped, TypeOK
<1>b. ASSUME ControlTyped, UNCHANGED <<clock, stores, tables>>
      PROVE  Typed'
  BY <1>a, <1>b DEF Typed, TypeOK
<1>c. ASSUME NEW label \in Labels, StageOK(label, l), Goto(c, label),
             UNCHANGED <<lock, local, history>>
      PROVE  ControlTyped
  BY <1>c, GotoType, StayType DEF ControlTyped
<1>d. ASSUME NEW label \in Labels, NEW m \in Locals, StageOK(label, m), Goto(c, label),
             local' = [local EXCEPT ![c] = m], UNCHANGED <<lock, history>>
      PROVE  ControlTyped
  BY <1>d, MoveType, StayType DEF ControlTyped, Goto
<1>e. ASSUME session' = [session EXCEPT ![l.prof] = NoRow]
      PROVE  session' \in [Profiles -> Rows]
  BY <1>e, <1>l DEF Typed, TypeOK
<1>1. CASE GuardResolve(c)
  <2> DEFINE m == [l EXCEPT !.rev = profile[l.prof].revision]
  <2>1. m \in Locals /\ StageOK("load", m)
    BY <1>1, <1>l DEF GuardResolve, StageOK, Guarding, Typed, TypeOK, Locals
  <2>2. "load" \in Labels
    BY DEF Labels
  <2> QED
    BY <1>1, <1>b, <1>d, <2>1, <2>2 DEF GuardResolve
<1>2. CASE GuardLoad(c)
  <2>1. CASE WithoutCredentials(c)
    BY <1>2, <2>1, <1>b, WithoutCredentialsType DEF GuardLoad, Guarding
  <2>2. CASE ~WithoutCredentials(c)
    <3> DEFINE m == [l EXCEPT !.row = session[l.prof]]
    <3>1. m \in Locals /\ StageOK("evict", m) /\ StageOK("verify", m)
      BY <1>2, <1>l DEF GuardLoad, StageOK, Guarding, Typed, TypeOK, Locals
    <3>2. PICK label \in {"evict", "verify"} : Goto(c, label)
      BY <1>2, <2>2 DEF GuardLoad
    <3>3. label \in Labels
      BY DEF Labels
    <3> QED
      BY <1>2, <2>2, <1>b, <1>d, <3>1, <3>2, <3>3 DEF GuardLoad
  <2> QED
    BY <2>1, <2>2
<1>3. CASE GuardVerify(c)
  <2>1. CASE Finish(c)
    BY <1>3, <2>1, <1>b, FinishType DEF GuardVerify
  <2>2. CASE ~Finish(c)
    <3>1. PICK label \in Labels : StageOK(label, l) /\ Goto(c, label)
      BY <1>3, <2>2, <1>l DEF GuardVerify, StageOK, Guarding, Labels, Locals, Stages
    <3> QED
      BY <1>3, <2>2, <1>b, <1>c, <3>1 DEF GuardVerify
  <2> QED
    BY <2>1, <2>2
<1>4. CASE GuardEvict(c)
  <2>1. ControlTyped
    BY <1>4, WithoutCredentialsType DEF GuardEvict, Guarding
  <2> QED
    BY <1>4, <2>1, <1>a, <1>e DEF GuardEvict, Typed, TypeOK
<1>5. CASE Discard(c)
  <2>1. StageOK("status", l)
    BY <1>5, <1>l DEF Discard, StageOK, Guarding
  <2>2. ControlTyped
    BY <1>5, <2>1, GotoType DEF Discard, ControlTyped, Labels, Typed, TypeOK
  <2> QED
    BY <1>5, <2>2, <1>a, <1>e DEF Discard, Typed, TypeOK
<1>6. CASE Status(c)
  <2>1. CASE Goto(c, "statusEvict") /\ UNCHANGED <<lock, local, history>>
    <3>1. StageOK("statusEvict", l)
      BY <1>6, <1>l DEF Status, StageOK, Guarding
    <3>2. "statusEvict" \in Labels
      BY DEF Labels
    <3> QED
      BY <1>6, <2>1, <3>1, <3>2, <1>b, <1>c DEF Status
  <2>2. CASE \E reusable \in BOOLEAN : AfterStatus(c, reusable)
    BY <1>6, <2>2, <1>b, AfterStatusType DEF Status
  <2> QED
    BY <1>6, <2>1, <2>2 DEF Status
<1>7. CASE StatusEvict(c)
  <2>1. ControlTyped
    BY <1>7, AfterStatusType DEF StatusEvict
  <2> QED
    BY <1>7, <2>1, <1>a, <1>e DEF StatusEvict, Typed, TypeOK
<1>8. CASE Enrol(c)
  <2>0. l.req \in Requests /\ l.stage \in {"attempt", "direct"}
    BY <1>8, <1>l DEF Enrol, StageOK, Guarding, Locals, Stages, Requests
  <2>2. CASE HasRoom
    <3>1. CASE l.req \in ActionRequests
      <4>1. StageOK("park", l)
        BY <2>0, <3>1, <1>l DEF StageOK, Guarding, Requests
      <4>2. ControlTyped
        BY <1>8, <2>2, <3>1, <4>1, GotoType DEF Enrol, Labels, ControlTyped, Typed, TypeOK
      <4>3. /\ waiting' = (waiting \ SweepWaiting) \cup {l.req}
            /\ deadline' = [deadline EXCEPT ![l.req] = clock + ChallengeLife]
            /\ UNCHANGED <<clock, stores, parked, target>>
        BY <1>8, <2>2 DEF Enrol
      <4>4. waiting' \subseteq Requests /\ deadline' \in [Requests -> Nat]
        BY <2>0, <4>3, <1>a DEF Typed, TypeOK
      <4> QED
        BY <4>2, <4>3, <4>4 DEF ControlTyped, CallersTyped, Typed, TypeOK
    <3>2. CASE l.req \notin ActionRequests
      <4>1. ControlTyped
        BY <1>8, <2>2, <3>2, ReturnType DEF Enrol, ControlTyped, Typed, TypeOK
      <4>2. /\ waiting' = (waiting \ SweepWaiting) \cup {l.req}
            /\ deadline' = [deadline EXCEPT ![l.req] = clock + ChallengeLife]
            /\ UNCHANGED <<clock, stores, parked, target>>
        BY <1>8, <2>2 DEF Enrol
      <4>3. waiting' \subseteq Requests /\ deadline' \in [Requests -> Nat]
        BY <2>0, <4>2, <1>a DEF Typed, TypeOK
      <4> QED
        BY <4>1, <4>2, <4>3 DEF ControlTyped, CallersTyped, Typed, TypeOK
    <3> QED
      BY <3>1, <3>2
  <2>3. CASE ~HasRoom
    <3>1. ControlTyped
      BY <1>8, <2>3, ReturnType DEF Enrol, ControlTyped, Typed, TypeOK
    <3> QED
      BY <1>8, <2>3, <3>1, <1>a DEF Enrol, Typed, TypeOK
  <2> QED
    BY <2>2, <2>3
<1>9. CASE Park(c)
  <2>0. l.req \in ActionRequests
    BY <1>9, <1>l DEF Park, StageOK, Guarding, Locals, Stages
  <2>1. CASE Cardinality(parked) < MaxPending /\ Return(c)
    <3>1. ControlTyped
      BY <1>9, <2>1, ReturnType DEF Park, ControlTyped, Typed, TypeOK
    <3> QED
      BY <1>9, <2>0, <2>1, <3>1, <1>a DEF Park, Typed, TypeOK
  <2>2. CASE GotoStage(c, "drop", "cancel") /\ UNCHANGED parked
    <3>1. StageOK("drop", [l EXCEPT !.stage = "cancel"])
      BY <2>0, <1>l DEF StageOK, Locals
    <3>2. ControlTyped
      BY <1>9, <2>2, <3>1, GotoStageType DEF Park, Labels, Stages, ControlTyped, Typed, TypeOK
    <3> QED
      BY <1>9, <2>2, <3>2, <1>a DEF Park, Typed, TypeOK
  <2> QED
    BY <1>9, <2>1, <2>2 DEF Park
<1>10. CASE DropChallenge(c)
  BY <1>10, <1>a, FinishType DEF DropChallenge, Forget, Typed, TypeOK
<1>11. CASE ClaimForAction(c)
  <2>1. CASE Finish(c)
    BY <1>11, <2>1, <1>a, FinishType DEF ClaimForAction, Typed, TypeOK
  <2>2. CASE Goto(c, "admit") /\ UNCHANGED <<lock, local, history>>
    <3>1. StageOK("admit", l) /\ "admit" \in Labels
      BY <1>11, <1>l DEF ClaimForAction, StageOK, Guarding, Labels
    <3>2. ControlTyped
      BY <2>2, <3>1, <1>c
    <3> QED
      BY <1>11, <2>2, <3>2, <1>a DEF ClaimForAction, Typed, TypeOK
  <2> QED
    BY <1>11, <2>1, <2>2 DEF ClaimForAction
<1>12. CASE Admit(c)
  <2>1. CASE Finish(c)
    BY <1>12, <2>1, <1>b, FinishType DEF Admit
  <2>2. CASE ~Finish(c)
    <3>1. StageOK("acquire", l) /\ l.req \in Requests
      BY <1>12, <1>l DEF Admit, StageOK, Guarding, Locals, Stages
    <3>2. CallersTyped
      BY <1>12, <2>2, <3>1, GotoType DEF Admit, Labels
    <3>3. runs' \in [Requests -> Nat]
      BY <1>12, <2>2, <3>1, DeliverType DEF Admit, Typed, TypeOK
    <3> QED
      BY <1>12, <2>2, <3>2, <3>3, <1>b DEF Admit, ControlTyped, Typed, TypeOK
  <2> QED
    BY <2>1, <2>2
<1>13. CASE Acquire(c)
  <2>1. StageOK("precheck", l)
    BY <1>13, <1>l DEF Acquire, StageOK, Guarding
  <2>2. CallersTyped
    BY <1>13, <2>1, GotoType DEF Acquire, Labels
  <2> QED
    BY <1>13, <2>2, <1>b DEF Acquire, ControlTyped, Typed, TypeOK
<1>14. CASE Precheck(c)
  <2>1. CASE Finish(c)
    BY <1>14, <2>1, <1>b, FinishType DEF Precheck
  <2>2. CASE ~Finish(c)
    <3> DEFINE m == [l EXCEPT !.base = profile[l.prof].revision]
    <3>1. m \in Locals /\ StageOK("resolve", m) /\ "resolve" \in Labels
      BY <1>14, <1>l DEF Precheck, StageOK, Guarding, Typed, TypeOK, Locals, Labels
    <3> QED
      BY <1>14, <2>2, <3>1, <1>b, <1>d DEF Precheck
  <2> QED
    BY <2>1, <2>2
<1>15. CASE IssueToken(c)
  <2>1. CASE Finish(c)
    BY <1>15, <2>1, <1>a, FinishType DEF IssueToken, Typed, TypeOK
  <2>2. CASE ~Finish(c)
    <3> DEFINE row == [serial |-> issued + 1, revision |-> l.base, until |-> SessionUntil]
               m == [l EXCEPT !.row = row]
    <3>1. row \in Rows
      BY <1>l DEF Locals, Typed, TypeOK, Rows, SessionUntil
    <3>2. m \in Locals /\ StageOK("put", m) /\ "put" \in Labels
      BY <1>15, <1>l, <3>1 DEF IssueToken, StageOK, Guarding, Locals, Labels
    <3>3. ControlTyped
      BY <1>15, <2>2, <3>2, <1>d DEF IssueToken
    <3> QED
      BY <1>15, <2>2, <3>3, <1>a DEF IssueToken, Typed, TypeOK
  <2> QED
    BY <2>1, <2>2
<1>16. CASE PutSession(c)
  <2>1. StageOK("publish", l) /\ "publish" \in Labels
    BY <1>16, <1>l DEF PutSession, StageOK, Guarding, Labels
  <2>2. ControlTyped
    BY <1>16, <2>1, <1>c DEF PutSession
  <2> QED
    BY <1>16, <1>l, <2>2, <1>a DEF PutSession, Typed, TypeOK
<1>17. CASE Publish(c)
  <2>1. PICK label \in Labels : StageOK(label, l) /\ Goto(c, label)
    BY <1>17, <1>l DEF Publish, StageOK, Guarding, Labels
  <2>2. ControlTyped
    BY <1>17, <2>1, <1>c DEF Publish
  <2>3. l.row.serial \in Nat
    BY <1>l DEF Rows
  <2> QED
    BY <1>17, <1>l, <2>2, <2>3, <1>a DEF Publish, Typed, TypeOK
<1>18. CASE WithdrawSession(c)
  BY <1>18, <1>l, <1>a, <1>e, FinishType DEF WithdrawSession, Unput, Typed, TypeOK
<1>19. CASE UpdateEvict(c)
  BY <1>19, <1>a, <1>e, FinishType DEF UpdateEvict, Typed, TypeOK
<1>20. CASE Body(c)
  BY <1>20, <1>b, FinishType DEF Body
<1> QED
  BY <1>1, <1>2, <1>3, <1>4, <1>5, <1>6, <1>7, <1>8, <1>9, <1>10, <1>11, <1>12,
     <1>13, <1>14, <1>15, <1>16, <1>17, <1>18, <1>19, <1>20 DEF Step

LEMMA NextType == Typed /\ [Next]_vars => Typed'
<1> SUFFICES ASSUME Typed, [Next]_vars PROVE Typed'
  OBVIOUS
<1>1. CASE Tick
  BY <1>1 DEF Tick, Typed, TypeOK, stores, tables, history
<1>2. CASE \E c \in Callers : Enter(c)
  BY <1>2, EnterType
<1>3. CASE \E c \in Callers : Step(c)
  BY <1>3, StepType
<1>4. CASE UNCHANGED vars
  BY <1>4 DEF vars, Typed, TypeOK, stores, tables, history
<1> QED
  BY <1>1, <1>2, <1>3, <1>4 DEF Next

\* Every variable keeps its type, and every caller is at a label its stage allows.
THEOREM TypeCorrect == Spec => []TypeOK
<1>1. Typed => TypeOK
  BY DEF Typed
<1> QED
  BY <1>1, InitType, NextType, PTL DEF Spec

(***************************************************************************)
(* What AuthenticationService._refresh_locks buys: refreshes of a profile  *)
(* exclude each other, so none can undo another's session, and between     *)
(* refreshes the two credential stores agree.                              *)
(***************************************************************************)

(* The inductive invariant *)

\* A caller inside refresh holds the lock of its profile, ...
Holds(c) == InRefresh(c) => lock[local[c].prof] = c

\* ... the session it is about to publish is still its own or has been
\* deleted, ...
Publishing(c) == pc[c] \in {"publish", "unput"}
OwnRow(c) ==
  pc[c] = "publish" => session[local[c].prof] \in {NoRow, local[c].row}

\* ... and nothing else can make the stores of a profile differ.
Matched(p) ==
  \/ session[p] = NoRow
  \/ session[p].serial = shared[p]
  \/ \E c \in Callers : Publishing(c) /\ local[c].prof = p

Guarded ==
  /\ \A c \in Callers : Holds(c) /\ OwnRow(c)
  /\ \A p \in Profiles : Matched(p)

-----------------------------------------------------------------------------
(* Steps by what they do to the lock and the stores *)

\* No step of c releases a lock that another caller holds.
OthersHold(c) ==
  \A d \in Callers \ {c}, p \in Profiles : lock[p] = d => lock'[p] = d

LEMMA LockKept ==
  ASSUME Typed, NEW c \in Callers, UNCHANGED lock \/ Unlock(c)
  PROVE  OthersHold(c)
  BY DEF OthersHold, Unlock, Typed, TypeOK

\* Two callers are never inside refresh for one profile.
LEMMA Alone ==
  ASSUME Typed, Guarded, NEW c \in Callers, NEW d \in Callers \ {c},
         InRefresh(c), InRefresh(d)
  PROVE  local[c].prof # local[d].prof
  BY DEF Guarded, Holds

\* A step that publishes nothing, and at most deletes a session.
LEMMA QuietGuarded ==
  ASSUME Typed, Guarded, NEW c \in Callers, OthersStay(c), OthersHold(c), Holds(c)',
         UNCHANGED shared, \A p \in Profiles : session'[p] \in {session[p], NoRow},
         ~Publishing(c), ~Publishing(c)'
  PROVE  Guarded'
<1>1. ASSUME NEW d \in Callers PROVE Holds(d)'
  <2>1. CASE d = c
    BY <2>1
  <2>2. CASE d # c
    <3>1. pc'[d] = pc[d] /\ local'[d] = local[d] /\ local[d].prof \in Profiles
      BY <2>2 DEF OthersStay, Typed, TypeOK, Locals
    <3> QED
      BY <2>2, <3>1 DEF Guarded, Holds, InRefresh, OthersHold
  <2> QED
    BY <2>1, <2>2
<1>2. ASSUME NEW d \in Callers PROVE OwnRow(d)'
  <2>1. CASE d = c
    BY <2>1 DEF OwnRow, Publishing
  <2>2. CASE d # c
    <3>1. pc'[d] = pc[d] /\ local'[d] = local[d] /\ local[d].prof \in Profiles
      BY <2>2 DEF OthersStay, Typed, TypeOK, Locals
    <3> QED
      BY <3>1 DEF Guarded, OwnRow
  <2> QED
    BY <2>1, <2>2
<1>3. ASSUME NEW p \in Profiles PROVE Matched(p)'
  <2>1. CASE session[p] = NoRow \/ session[p].serial = shared[p]
    BY <2>1 DEF Matched
  <2>2. ASSUME NEW d \in Callers, Publishing(d), local[d].prof = p
        PROVE  Matched(p)'
    <3>1. d # c
      BY <2>2
    <3> QED
      BY <2>2, <3>1 DEF OthersStay, Matched, Publishing
  <2> QED
    BY <2>1, <2>2 DEF Guarded, Matched
<1> QED
  BY <1>1, <1>2, <1>3 DEF Guarded

\* The caller goes on to a label, inside refresh only if it already was.
LEMMA MoveGuarded ==
  ASSUME Typed, Guarded, NEW c \in Callers, NEW label, NEW l,
         pc' = [pc EXCEPT ![c] = label], local' = [local EXCEPT ![c] = l],
         InRefresh(c)' => InRefresh(c) /\ UNCHANGED lock /\ l.prof = local[c].prof,
         UNCHANGED lock \/ Unlock(c),
         UNCHANGED shared, \A p \in Profiles : session'[p] \in {session[p], NoRow},
         ~Publishing(c), label \notin {"publish", "unput"}
  PROVE  Guarded'
<1>1. OthersStay(c) /\ pc'[c] = label /\ local'[c] = l
  BY MoverStays
<1>2. OthersHold(c)
  BY LockKept
<1>3. Holds(c)'
  BY <1>1 DEF Guarded, Holds
<1>4. ~Publishing(c)'
  BY <1>1 DEF Publishing
<1> QED
  BY <1>1, <1>2, <1>3, <1>4, QuietGuarded

LEMMA GotoGuarded ==
  ASSUME Typed, Guarded, NEW c \in Callers, NEW label,
         Goto(c, label), UNCHANGED <<lock, local>>,
         InRefresh(c) \/ label \in {"discard", "status", "statusEvict", "enrol", "park", "drop",
                                    "claim", "admit", "acquire", "body", "resolve", "load",
                                    "verify", "evict"},
         local[c].stage = "refresh" /\ label \in Guarding \cup {"status", "statusEvict"}
           => InRefresh(c),
         UNCHANGED shared, \A p \in Profiles : session'[p] \in {session[p], NoRow},
         ~Publishing(c), label \notin {"publish", "unput"}
  PROVE  Guarded'
<1>1. local' = [local EXCEPT ![c] = local[c]]
  BY DEF Typed, TypeOK
<1>2. pc'[c] = label /\ local'[c] = local[c]
  BY DEF Goto, Typed, TypeOK
<1>3. InRefresh(c)' => InRefresh(c)
  BY <1>2 DEF InRefresh, Guarding
<1> QED
  BY <1>1, <1>3, MoveGuarded DEF Goto

LEMMA FinishGuarded ==
  ASSUME Typed, Guarded, NEW c \in Callers, Return(c), UNCHANGED lock \/ Unlock(c),
         UNCHANGED shared, \A p \in Profiles : session'[p] \in {session[p], NoRow},
         ~Publishing(c)
  PROVE  Guarded'
<1>1. pc' = [pc EXCEPT ![c] = "idle"] /\ local' = [local EXCEPT ![c] = Blank]
  BY DEF Return, Goto
<1>2. ~InRefresh(c)'
  BY <1>1 DEF InRefresh, Guarding, Typed, TypeOK
<1>3. OthersStay(c)
  BY ReturnMoves
<1> QED
  BY <1>1, <1>2, <1>3, LockKept, QuietGuarded DEF Holds, Publishing, Typed, TypeOK

\* A call that comes in is not inside refresh.
LEMMA CallGuarded ==
  ASSUME Typed, Guarded, NEW c \in Callers, NEW label, NEW r, NEW p, NEW stage, NEW code,
         Call(c, label, r, p, stage, code),
         label \in {"resolve", "load", "verify", "evict", "status"} => stage # "refresh",
         label \in {"resolve", "claim", "drop", "discard", "status", "admit", "updated"},
         UNCHANGED <<lock, session, shared>>
  PROVE  Guarded'
<1> DEFINE l == [req |-> r, prof |-> p, stage |-> stage, code |-> code,
                 seen |-> profile[p].revision, rev |-> 0, base |-> 0, row |-> NoRow]
<1>1. pc' = [pc EXCEPT ![c] = label] /\ local' = [local EXCEPT ![c] = l] /\ pc[c] = "idle"
  BY DEF Call
<1>2. pc'[c] = label /\ local'[c].stage = stage
  BY <1>1 DEF Typed, TypeOK
<1>3. ~InRefresh(c)'
  BY <1>2 DEF InRefresh, Guarding
<1>4. ~Publishing(c)
  BY <1>1 DEF Publishing
<1> HIDE DEF l
<1> QED
  BY <1>1, <1>3, <1>4, MoveGuarded

-----------------------------------------------------------------------------
(* Every step keeps the invariant *)

LEMMA EnterGuarded ==
  ASSUME Typed, Guarded, NEW c \in Callers, Enter(c)
  PROVE  Guarded'
<1> USE DEF stores
<1>1. ASSUME NEW r \in ActionRequests, NEW p \in Profiles, StartLong(c, r, p)
      PROVE  Guarded'
  BY <1>1, CallGuarded DEF StartLong
<1>2. ASSUME NEW r \in DirectRequests, NEW p \in Profiles, NEW discard \in BOOLEAN,
             StartRefresh(c, r, p, discard)
      PROVE  Guarded'
  BY <1>2, CallGuarded DEF StartRefresh
<1>3. ASSUME NEW r \in ActionRequests, NEW code \in Codes, Resume(c, r, code)
      PROVE  Guarded'
  <2>1. CASE Call(c, "claim", r, target[r], "refresh", code)
    BY <1>3, <2>1, CallGuarded DEF Resume
  <2>2. CASE Call(c, "drop", r, target[r], "cancel", "none")
    BY <1>3, <2>2, CallGuarded DEF Resume
  <2>3. CASE UNCHANGED <<pc, local>>
    BY <1>3, <2>3 DEF Resume, Guarded, Holds, OwnRow, Matched, InRefresh, Publishing
  <2> QED
    BY <1>3, <2>1, <2>2, <2>3 DEF Resume
<1>4. ASSUME NEW r \in DirectRequests, NEW code \in Codes, ResumeDirect(c, r, code)
      PROVE  Guarded'
  BY <1>4, CallGuarded DEF ResumeDirect
<1>5. ASSUME NEW r \in ActionRequests, Cancel(c, r)
      PROVE  Guarded'
  BY <1>5, CallGuarded DEF Cancel
<1>6. ASSUME NEW p \in Profiles, ShowStatus(c, p)
      PROVE  Guarded'
  BY <1>6, CallGuarded DEF ShowStatus
<1>7. ASSUME NEW p \in Profiles, NEW mfa \in BOOLEAN, UpdateProfile(c, p, mfa)
      PROVE  Guarded'
  BY <1>7, CallGuarded DEF UpdateProfile
<1> QED
  BY <1>1, <1>2, <1>3, <1>4, <1>5, <1>6, <1>7 DEF Enter

LEMMA WithoutCredentialsGuarded ==
  ASSUME Typed, Guarded, NEW c \in Callers, WithoutCredentials(c),
         pc[c] \in Guarding, UNCHANGED shared,
         \A p \in Profiles : session'[p] \in {session[p], NoRow}
  PROVE  Guarded'
<1>1. ~Publishing(c)
  BY DEF Publishing, Guarding
<1>2. CASE local[c].stage = "attempt" /\ Goto(c, "discard") /\ UNCHANGED <<lock, local, history>>
  BY <1>1, <1>2, GotoGuarded
<1>3. CASE local[c].stage = "refresh" /\ Goto(c, "sts") /\ UNCHANGED <<lock, local, history>>
  <2>1. InRefresh(c)
    BY <1>3 DEF InRefresh
  <2> QED
    BY <1>1, <1>3, <2>1, GotoGuarded
<1>4. CASE Finish(c)
  BY <1>1, <1>4, FinishGuarded DEF Finish
<1> QED
  BY <1>2, <1>3, <1>4 DEF WithoutCredentials

LEMMA AfterStatusGuarded ==
  ASSUME Typed, Guarded, NEW c \in Callers, NEW reusable, AfterStatus(c, reusable),
         pc[c] \in {"status", "statusEvict"}, UNCHANGED shared,
         \A p \in Profiles : session'[p] \in {session[p], NoRow}
  PROVE  Guarded'
<1>1. ~Publishing(c)
  BY DEF Publishing
<1>2. CASE GotoStage(c, "resolve", "retry") /\ (UNCHANGED lock \/ Unlock(c))
  <2> DEFINE l == [local[c] EXCEPT !.stage = "retry"]
  <2>1. pc' = [pc EXCEPT ![c] = "resolve"] /\ local' = [local EXCEPT ![c] = l]
    BY <1>2 DEF GotoStage, Goto
  <2>2. pc'[c] = "resolve" /\ local'[c].stage = "retry"
    BY <2>1 DEF Typed, TypeOK, Locals
  <2>3. Holds(c)' /\ ~Publishing(c)'
    BY <2>2 DEF Holds, InRefresh, Publishing
  <2>4. OthersStay(c)
    BY <2>1, MoverStays
  <2> QED
    BY <1>1, <1>2, <2>3, <2>4, LockKept, QuietGuarded
<1>3. CASE Goto(c, "enrol") /\ UNCHANGED <<lock, local, history>>
  BY <1>1, <1>3, GotoGuarded DEF Guarding
<1>4. CASE Finish(c)
  BY <1>1, <1>4, FinishGuarded DEF Finish
<1>5. CASE GotoStage(c, "acquire", "refresh") /\ UNCHANGED lock
  <2> DEFINE l == [local[c] EXCEPT !.stage = "refresh"]
  <2>1. pc' = [pc EXCEPT ![c] = "acquire"] /\ local' = [local EXCEPT ![c] = l]
    BY <1>5 DEF GotoStage, Goto
  <2> HIDE DEF l
  <2>2. OthersStay(c) /\ pc'[c] = "acquire"
    BY <2>1, MoverStays
  <2>3. Holds(c)' /\ ~Publishing(c)'
    BY <2>2 DEF Holds, InRefresh, Guarding, Publishing
  <2> QED
    BY <1>1, <1>5, <2>2, <2>3, LockKept, QuietGuarded
<1> QED
  BY <1>2, <1>3, <1>4, <1>5 DEF AfterStatus

\* put_session: no other caller is publishing for the same profile.
LEMMA PutGuarded ==
  ASSUME Typed, Guarded, NEW c \in Callers, PutSession(c)
  PROVE  Guarded'
<1> USE DEF stores
<1>1. /\ pc[c] = "put" /\ InRefresh(c) /\ local[c].prof \in Profiles
      /\ session' = [session EXCEPT ![local[c].prof] = local[c].row]
      /\ UNCHANGED <<shared, lock, local>> /\ OthersStay(c) /\ pc'[c] = "publish"
  BY DEF PutSession, InRefresh, Goto, OthersStay, Typed, TypeOK, Locals
<1>2. ASSUME NEW d \in Callers PROVE Holds(d)'
  BY <1>1 DEF OthersStay, Guarded, Holds, InRefresh
<1>3. ASSUME NEW d \in Callers PROVE OwnRow(d)'
  <2>1. CASE d = c
    BY <1>1, <2>1 DEF OwnRow, Typed, TypeOK
  <2>2. ASSUME d # c, pc[d] = "publish" PROVE session'[local[d].prof] = session[local[d].prof]
    <3>1. InRefresh(d) /\ local[d].prof \in Profiles
      BY <2>2 DEF InRefresh, Typed, TypeOK, Locals
    <3> QED
      BY <1>1, <2>2, <3>1, Alone DEF Typed, TypeOK
  <2> QED
    BY <1>1, <2>1, <2>2 DEF OthersStay, Guarded, OwnRow
<1>4. ASSUME NEW p \in Profiles PROVE Matched(p)'
  <2>1. CASE p = local[c].prof
    BY <1>1, <2>1 DEF Matched, Publishing
  <2>2. CASE p # local[c].prof
    BY <1>1, <2>2 DEF Guarded, Matched, Publishing, OthersStay, Typed, TypeOK
  <2> QED
    BY <2>1, <2>2
<1> QED
  BY <1>2, <1>3, <1>4 DEF Guarded

\* shared_credentials.write: it succeeds with the caller's own session in the
\* store, or with none; or it fails, and the caller stays inside refresh.
LEMMA PublishGuarded ==
  ASSUME Typed, Guarded, NEW c \in Callers, Publish(c)
  PROVE  Guarded'
<1>1. /\ pc[c] = "publish" /\ InRefresh(c) /\ local[c].prof \in Profiles
      /\ UNCHANGED <<session, lock, local>> /\ OthersStay(c) /\ pc'[c] \in {"status", "unput"}
      /\ \A p \in Profiles \ {local[c].prof} : shared'[p] = shared[p]
      /\ pc'[c] = "status" => shared'[local[c].prof] = local[c].row.serial
  BY DEF Publish, InRefresh, Goto, OthersStay, Typed, TypeOK, Locals
<1>2. ASSUME NEW d \in Callers PROVE Holds(d)'
  BY <1>1 DEF OthersStay, Guarded, Holds, InRefresh
<1>3. ASSUME NEW d \in Callers PROVE OwnRow(d)'
  BY <1>1 DEF OthersStay, Guarded, OwnRow
<1>4. ASSUME NEW p \in Profiles PROVE Matched(p)'
  <2>1. CASE p = local[c].prof
    BY <1>1, <2>1 DEF Guarded, OwnRow, Matched, Publishing
  <2>2. CASE p # local[c].prof
    BY <1>1, <2>2 DEF Guarded, Matched, Publishing, OthersStay
  <2> QED
    BY <2>1, <2>2
<1> QED
  BY <1>2, <1>3, <1>4 DEF Guarded

\* The session goes when the shared file could not be written.
LEMMA WithdrawGuarded ==
  ASSUME Typed, Guarded, NEW c \in Callers, WithdrawSession(c)
  PROVE  Guarded'
<1>1. /\ pc[c] = "unput" /\ InRefresh(c) /\ local[c].prof \in Profiles
      /\ session' = [session EXCEPT ![local[c].prof] = NoRow]
      /\ UNCHANGED shared /\ OthersStay(c) /\ pc'[c] = "idle" /\ OthersHold(c)
  BY ReturnMoves, LockKept
  DEF WithdrawSession, Unput, Finish, InRefresh, Return, Goto, Typed, TypeOK, Locals
<1>2. ASSUME NEW d \in Callers PROVE Holds(d)' /\ OwnRow(d)'
  <2>1. CASE d = c
    BY <1>1, <2>1 DEF Holds, OwnRow, InRefresh, Guarding
  <2>2. CASE d # c
    <3>1. pc'[d] = pc[d] /\ local'[d] = local[d] /\ local[d].prof \in Profiles
      BY <2>2, <1>1 DEF OthersStay, Typed, TypeOK, Locals
    <3>2. Holds(d)'
      BY <1>1, <2>2, <3>1 DEF Guarded, Holds, InRefresh, OthersHold
    <3>3. session'[local[d].prof] \in {session[local[d].prof], NoRow}
      BY <1>1, <3>1 DEF Typed, TypeOK
    <3> QED
      BY <3>1, <3>2, <3>3 DEF Guarded, OwnRow
  <2> QED
    BY <2>1, <2>2
<1>3. ASSUME NEW p \in Profiles PROVE Matched(p)'
  <2>1. CASE p = local[c].prof
    BY <1>1, <2>1 DEF Matched, Typed, TypeOK
  <2>2. CASE p # local[c].prof
    BY <1>1, <2>2 DEF Guarded, Matched, Publishing, OthersStay, Typed, TypeOK
  <2> QED
    BY <2>1, <2>2
<1> QED
  BY <1>2, <1>3 DEF Guarded

\* The steps around the refresh that only move the caller.
LEMMA PlainGuarded ==
  ASSUME Typed, Guarded, NEW c \in Callers,
         \/ GuardResolve(c) \/ GuardVerify(c) \/ Discard(c) \/ Precheck(c)
         \/ Admit(c) \/ ClaimForAction(c) \/ DropChallenge(c) \/ Body(c) \/ UpdateEvict(c)
  PROVE  Guarded'
<1> USE DEF stores
<1>s. \A q : session' = [session EXCEPT ![q] = NoRow] =>
        \A p \in Profiles : session'[p] \in {session[p], NoRow}
  BY DEF Typed, TypeOK
<1>n. StageOK(pc[c], local[c])
  BY DEF Typed
<1>1. CASE GuardResolve(c)
  <2> DEFINE l == [local[c] EXCEPT !.rev = profile[local[c].prof].revision]
  <2>1. l.prof = local[c].prof /\ l.stage = local[c].stage
    BY DEF Typed, TypeOK, Locals
  <2>2. /\ pc' = [pc EXCEPT ![c] = "load"] /\ local' = [local EXCEPT ![c] = l]
        /\ pc[c] = "resolve" /\ UNCHANGED <<lock, session, shared>>
    BY <1>1 DEF GuardResolve, Goto
  <2> HIDE DEF l
  <2>3. OthersStay(c) /\ pc'[c] = "load" /\ local'[c] = l
    BY <2>2, MoverStays
  <2>4. Holds(c)' /\ ~Publishing(c) /\ ~Publishing(c)'
    BY <2>1, <2>2, <2>3 DEF Guarded, Holds, InRefresh, Guarding, Publishing
  <2> QED
    BY <2>2, <2>3, <2>4, LockKept, QuietGuarded
<1>2. CASE GuardVerify(c)
  <2>1. pc[c] = "verify" /\ ~Publishing(c) /\ UNCHANGED <<session, shared>>
    BY <1>2 DEF GuardVerify, Publishing
  <2>2. local[c].stage = "refresh" => InRefresh(c)
    BY <2>1 DEF InRefresh, Guarding
  <2>3. CASE \E label \in {"status", "body", "evict"} :
               Goto(c, label) /\ UNCHANGED <<lock, local>>
    BY <2>1, <2>2, <2>3, GotoGuarded
  <2>4. CASE Finish(c)
    BY <2>1, <2>4, FinishGuarded DEF Finish
  <2> QED
    BY <1>2, <2>3, <2>4 DEF GuardVerify
<1>3. CASE Discard(c)
  <2>1. local[c].stage # "refresh" /\ ~Publishing(c)
    BY <1>3, <1>n DEF Discard, StageOK, Publishing, Guarding
  <2> QED
    BY <1>3, <1>s, <2>1, GotoGuarded DEF Discard
<1>4. CASE Precheck(c)
  <2>1. InRefresh(c) /\ ~Publishing(c)
    BY <1>4 DEF Precheck, InRefresh, Publishing
  <2>2. CASE Finish(c)
    BY <1>4, <2>1, <2>2, FinishGuarded DEF Finish, Precheck
  <2>3. CASE ~Finish(c)
    <3> DEFINE l == [local[c] EXCEPT !.base = profile[local[c].prof].revision]
    <3>1. l.prof = local[c].prof
      BY DEF Typed, TypeOK, Locals
    <3>2. /\ pc' = [pc EXCEPT ![c] = "resolve"] /\ local' = [local EXCEPT ![c] = l]
          /\ UNCHANGED <<lock, session, shared>>
      BY <1>4, <2>3 DEF Precheck, Goto
    <3> HIDE DEF l
    <3>3. OthersStay(c) /\ pc'[c] = "resolve" /\ local'[c] = l
      BY <3>2, MoverStays
    <3>4. Holds(c)' /\ ~Publishing(c)'
      BY <2>1, <3>1, <3>2, <3>3 DEF Guarded, Holds, Publishing
    <3> QED
      BY <2>1, <3>2, <3>3, <3>4, LockKept, QuietGuarded
  <2> QED
    BY <2>2, <2>3
<1>5. CASE Admit(c)
  <2>1. ~Publishing(c) /\ UNCHANGED <<session, shared>>
    BY <1>5 DEF Admit, Publishing
  <2>2. CASE Finish(c)
    BY <2>1, <2>2, FinishGuarded DEF Finish
  <2>3. CASE Goto(c, "acquire") /\ UNCHANGED <<lock, local>>
    BY <2>1, <2>3, GotoGuarded DEF Guarding
  <2> QED
    BY <1>5, <2>2, <2>3 DEF Admit
<1>6. CASE ClaimForAction(c)
  <2>1. ~Publishing(c) /\ UNCHANGED <<session, shared>>
    BY <1>6 DEF ClaimForAction, Publishing
  <2>2. CASE Finish(c)
    BY <2>1, <2>2, FinishGuarded DEF Finish
  <2>3. CASE Goto(c, "admit") /\ UNCHANGED <<lock, local>>
    BY <2>1, <2>3, GotoGuarded DEF Guarding
  <2> QED
    BY <1>6, <2>2, <2>3 DEF ClaimForAction
<1>7. CASE DropChallenge(c)
  BY <1>7, FinishGuarded DEF DropChallenge, Finish, Publishing
<1>8. CASE Body(c)
  BY <1>8, FinishGuarded DEF Body, Finish, Publishing
<1>9. CASE UpdateEvict(c)
  BY <1>9, <1>s, FinishGuarded DEF UpdateEvict, Finish, Publishing
<1> QED
  BY <1>1, <1>2, <1>3, <1>4, <1>5, <1>6, <1>7, <1>8, <1>9

LEMMA StepGuarded ==
  ASSUME Typed, Guarded, NEW c \in Callers, Step(c)
  PROVE  Guarded'
<1> USE DEF stores
<1>s. \A q : session' = [session EXCEPT ![q] = NoRow] =>
        \A p \in Profiles : session'[p] \in {session[p], NoRow}
  BY DEF Typed, TypeOK
<1>1. CASE GuardLoad(c)
  <2>1. pc[c] = "load" /\ UNCHANGED <<session, shared>> /\ ~Publishing(c)
    BY <1>1 DEF GuardLoad, Publishing
  <2>2. CASE WithoutCredentials(c)
    BY <2>1, <2>2, WithoutCredentialsGuarded DEF Guarding
  <2>3. CASE ~WithoutCredentials(c)
    <3> DEFINE l == [local[c] EXCEPT !.row = session[local[c].prof]]
    <3>1. PICK label \in {"evict", "verify"} :
            /\ pc' = [pc EXCEPT ![c] = label] /\ local' = [local EXCEPT ![c] = l]
            /\ UNCHANGED lock
      BY <1>1, <2>3 DEF GuardLoad, Goto
    <3>2. l.prof = local[c].prof /\ l.stage = local[c].stage
      BY DEF Typed, TypeOK, Locals
    <3> HIDE DEF l
    <3>3. OthersStay(c) /\ pc'[c] = label /\ local'[c] = l
      BY <3>1, MoverStays
    <3>4. Holds(c)' /\ ~Publishing(c)'
      BY <2>1, <3>1, <3>2, <3>3 DEF Guarded, Holds, InRefresh, Guarding, Publishing
    <3> QED
      BY <2>1, <3>1, <3>3, <3>4, LockKept, QuietGuarded
  <2> QED
    BY <2>2, <2>3
<1>2. CASE GuardEvict(c)
  BY <1>2, <1>s, WithoutCredentialsGuarded DEF GuardEvict, Guarding
<1>3. CASE Status(c)
  <2>1. pc[c] = "status" /\ UNCHANGED <<session, shared>> /\ ~Publishing(c)
    BY <1>3 DEF Status, Publishing
  <2>2. CASE AfterStatus(c, FALSE) \/ AfterStatus(c, TRUE)
    BY <2>1, <2>2, AfterStatusGuarded
  <2>3. CASE Goto(c, "statusEvict") /\ UNCHANGED <<lock, local>>
    BY <2>1, <2>3, GotoGuarded DEF InRefresh
  <2> QED
    BY <1>3, <2>2, <2>3 DEF Status
<1>4. CASE StatusEvict(c)
  BY <1>4, <1>s, AfterStatusGuarded DEF StatusEvict
<1>5. CASE Enrol(c)
  <2>1. pc[c] = "enrol" /\ ~Publishing(c) /\ UNCHANGED <<lock, session, shared>>
    BY <1>5 DEF Enrol, Publishing, history
  <2>2. CASE Return(c)
    BY <2>1, <2>2, FinishGuarded
  <2>3. CASE Goto(c, "park") /\ UNCHANGED local
    BY <2>1, <2>3, GotoGuarded DEF Guarding
  <2> QED
    BY <1>5, <2>2, <2>3 DEF Enrol
<1>6. CASE Park(c)
  <2>1. pc[c] = "park" /\ ~Publishing(c) /\ UNCHANGED <<lock, session, shared>>
    BY <1>6 DEF Park, Publishing
  <2>2. CASE Return(c)
    BY <2>1, <2>2, FinishGuarded
  <2>3. CASE GotoStage(c, "drop", "cancel")
    <3> DEFINE l == [local[c] EXCEPT !.stage = "cancel"]
    <3>1. pc' = [pc EXCEPT ![c] = "drop"] /\ local' = [local EXCEPT ![c] = l]
      BY <2>3 DEF GotoStage, Goto
    <3> HIDE DEF l
    <3>2. OthersStay(c) /\ pc'[c] = "drop"
      BY <3>1, MoverStays
    <3>3. Holds(c)' /\ ~Publishing(c)'
      BY <3>2 DEF Holds, InRefresh, Guarding, Publishing
    <3> QED
      BY <2>1, <3>2, <3>3, LockKept, QuietGuarded
  <2> QED
    BY <1>6, <2>2, <2>3 DEF Park
<1>7. CASE Acquire(c)
  <2>1. /\ pc[c] = "acquire" /\ pc'[c] = "precheck" /\ OthersStay(c) /\ local' = local
        /\ lock'[local[c].prof] = c /\ OthersHold(c) /\ UNCHANGED <<session, shared>>
    BY <1>7, AuthenticationAssumption
    DEF Acquire, Goto, OthersStay, OthersHold, Typed, TypeOK, Locals
  <2>2. Holds(c)' /\ ~Publishing(c) /\ ~Publishing(c)'
    BY <2>1 DEF Holds, Publishing
  <2> QED
    BY <2>1, <2>2, QuietGuarded
<1>8. CASE IssueToken(c)
  <2>1. pc[c] = "sts" /\ InRefresh(c) /\ ~Publishing(c) /\ UNCHANGED <<session, shared>>
    BY <1>8 DEF IssueToken, InRefresh, Publishing
  <2>2. CASE Finish(c)
    BY <2>1, <2>2, FinishGuarded DEF Finish
  <2>3. CASE ~Finish(c)
    <3> DEFINE l == [local[c] EXCEPT !.row =
                       [serial |-> issued + 1, revision |-> local[c].base,
                        until |-> SessionUntil]]
    <3>1. l.prof = local[c].prof
      BY DEF Typed, TypeOK, Locals
    <3>2. pc' = [pc EXCEPT ![c] = "put"] /\ local' = [local EXCEPT ![c] = l] /\ UNCHANGED lock
      BY <1>8, <2>3 DEF IssueToken, Goto
    <3> HIDE DEF l
    <3>3. OthersStay(c) /\ pc'[c] = "put" /\ local'[c] = l
      BY <3>2, MoverStays
    <3>4. Holds(c)' /\ ~Publishing(c)'
      BY <2>1, <3>1, <3>2, <3>3 DEF Guarded, Holds, Publishing
    <3> QED
      BY <2>1, <3>2, <3>3, <3>4, LockKept, QuietGuarded
  <2> QED
    BY <2>2, <2>3
<1> QED
  BY <1>1, <1>2, <1>3, <1>4, <1>5, <1>6, <1>7, <1>8,
     PlainGuarded, PutGuarded, PublishGuarded, WithdrawGuarded DEF Step

LEMMA InitGuarded == Init => Guarded
<1> SUFFICES ASSUME Init PROVE Guarded
  OBVIOUS
<1>1. \A c \in Callers : ~InRefresh(c) /\ pc[c] # "publish"
  BY DEF Init, InRefresh, Guarding
<1>2. \A p \in Profiles : session[p] = NoRow
  BY DEF Init
<1> QED
  BY <1>1, <1>2 DEF Guarded, Holds, OwnRow, Matched

LEMMA NextGuarded == Typed /\ Guarded /\ [Next]_vars => Guarded'
<1> SUFFICES ASSUME Typed, Guarded, [Next]_vars PROVE Guarded'
  OBVIOUS
<1>1. CASE UNCHANGED <<session, shared, lock, pc, local>>
  BY <1>1 DEF Guarded, Holds, OwnRow, Matched, InRefresh, Publishing
<1>2. Tick \/ UNCHANGED vars => UNCHANGED <<session, shared, lock, pc, local>>
  BY DEF Tick, vars, stores
<1> QED
  BY <1>1, <1>2, EnterGuarded, StepGuarded DEF Next

-----------------------------------------------------------------------------
(* Theorems *)

\* However many threads resume MFA for one profile, one at a time is inside
\* AuthenticationService.refresh for it (the per-profile lock of refresh).
THEOREM RefreshesExclude == Spec => []RefreshIsExclusive
<1>1. Guarded => RefreshIsExclusive
  BY DEF Guarded, Holds, RefreshIsExclusive
<1> QED
  BY <1>1, InitType, NextType, InitGuarded, NextGuarded, PTL DEF Spec

\* "A refresh is not complete until both credential stores agree": whatever is
\* evicted, discarded or fails to be written meanwhile, a session that is stored
\* while nobody refreshes its profile is the one in the shared file.
THEOREM StoresStayEqual == Spec => []StoresAgree
<1>1. Typed /\ Guarded => StoresAgree
  <2> SUFFICES ASSUME Guarded, NEW p \in Profiles, Matched(p)
               PROVE  \/ \E c \in Callers : InRefresh(c) /\ local[c].prof = p
                      \/ session[p] = NoRow
                      \/ session[p].serial = shared[p]
    BY DEF Guarded, StoresAgree
  <2> QED
    BY DEF Matched, Publishing, InRefresh
<1> QED
  BY <1>1, InitType, NextType, InitGuarded, NextGuarded, PTL DEF Spec

-----------------------------------------------------------------------------
(* The identity a feature works as                                         *)

\* The revisions of a profile only grow: what a call was told when it came in and
\* what its guard resolved are in this order, and the guard compares with the latter.
Current(c) ==
  /\ local[c].seen <= profile[local[c].prof].revision
  /\ pc[c] \in {"load", "verify"} => local[c].seen <= local[c].rev
  /\ pc[c] = "body" => local[c].seen <= local[c].row.revision

AllCurrent == \A c \in Callers : Current(c)

\* The caller goes where the identity says nothing, or returns.
Moves(c) ==
  /\ OthersStay(c) /\ pc'[c] \notin {"load", "verify", "body"}
  /\ \/ local'[c].seen = 0 /\ local'[c].prof \in Profiles
     \/ local'[c].seen = local[c].seen /\ local'[c].prof = local[c].prof

LEMMA MovesCurrent ==
  ASSUME Typed, AllCurrent, NEW c \in Callers, Moves(c), UNCHANGED profile
  PROVE  AllCurrent'
<1>1. \A p \in Profiles : profile[p].revision \in Nat
  BY DEF Typed, TypeOK
<1>2. ASSUME NEW d \in Callers PROVE Current(d)'
  <2>1. CASE d # c
    BY <2>1 DEF Moves, OthersStay, AllCurrent, Current
  <2>2. CASE d = c
    BY <1>1, <2>2 DEF Moves, AllCurrent, Current
  <2> QED
    BY <2>1, <2>2
<1> QED
  BY <1>2 DEF AllCurrent

LEMMA ReturnCurrent ==
  ASSUME Typed, NEW c \in Callers, Return(c)
  PROVE  Moves(c)
<1>1. OthersStay(c) /\ pc'[c] = "idle" /\ local'[c] = Blank
  BY DEF Return, Goto, OthersStay, Typed, TypeOK
<1>2. Blank.prof \in Profiles /\ Blank.seen = 0
  BY AuthenticationAssumption DEF Blank, AnyProfile
<1> QED
  BY <1>1, <1>2 DEF Moves

LEMMA GotoCurrent ==
  ASSUME Typed, NEW c \in Callers, NEW label, label \notin {"load", "verify", "body"},
         NEW l, l.seen = local[c].seen, l.prof = local[c].prof,
         Goto(c, label), local' = [local EXCEPT ![c] = l]
  PROVE  Moves(c)
  BY MoverStays DEF Goto, Moves

LEMMA StayCurrent ==
  ASSUME Typed, NEW c \in Callers, NEW label, label \notin {"load", "verify", "body"},
         Goto(c, label), UNCHANGED local
  PROVE  Moves(c)
  BY DEF Goto, Moves, OthersStay, Typed, TypeOK

LEMMA StageCurrent ==
  ASSUME Typed, NEW c \in Callers, NEW label, label \notin {"load", "verify", "body"}, NEW stage,
         GotoStage(c, label, stage)
  PROVE  Moves(c)
<1> DEFINE l == [local[c] EXCEPT !.stage = stage]
<1>1. l.seen = local[c].seen /\ l.prof = local[c].prof
  BY DEF Typed, TypeOK, Locals
<1>2. Goto(c, label) /\ local' = [local EXCEPT ![c] = l]
  BY DEF GotoStage
<1> HIDE DEF l
<1> QED
  BY <1>1, <1>2, GotoCurrent

LEMMA WithoutCurrent ==
  ASSUME Typed, NEW c \in Callers, WithoutCredentials(c)
  PROVE  Moves(c)
  BY StayCurrent, ReturnCurrent DEF WithoutCredentials, Finish

LEMMA AfterCurrent ==
  ASSUME Typed, NEW c \in Callers, NEW reusable, AfterStatus(c, reusable)
  PROVE  Moves(c)
<1>1. CASE GotoStage(c, "resolve", "retry")
  BY <1>1, StageCurrent
<1>2. CASE GotoStage(c, "acquire", "refresh")
  BY <1>2, StageCurrent
<1>3. CASE Goto(c, "enrol") /\ UNCHANGED local
  BY <1>3, StayCurrent
<1>4. CASE Finish(c)
  BY <1>4, ReturnCurrent DEF Finish
<1> QED
  BY <1>1, <1>2, <1>3, <1>4 DEF AfterStatus

\* A call comes in with the revision of its profile, and an update is the one step
\* that changes a revision: by one more.
LEMMA CallCurrent ==
  ASSUME Typed, AllCurrent, NEW c \in Callers, NEW label, label \notin {"load", "verify", "body"},
         NEW r, NEW p \in Profiles, NEW stage, NEW code, Call(c, label, r, p, stage, code),
         \A q \in Profiles : profile'[q].revision \in {profile[q].revision,
                                                     profile[q].revision + 1}
  PROVE  AllCurrent'
<1>1. \A q \in Profiles : /\ profile[q].revision \in Nat
                           /\ profile[q].revision <= profile'[q].revision
                           /\ profile'[q].revision \in Nat
  BY DEF Typed, TypeOK
<1>2. /\ OthersStay(c) /\ pc'[c] = label /\ local'[c].prof = p
      /\ local'[c].seen = profile[p].revision
  BY DEF Call, OthersStay, Typed, TypeOK
<1>3. \A d \in Callers : local[d].prof \in Profiles /\ local[d].seen \in Nat
  BY DEF Typed, TypeOK, Locals
<1>4. ASSUME NEW d \in Callers PROVE Current(d)'
  <2>1. CASE d = c
    BY <1>1, <1>2, <2>1 DEF Current
  <2>2. CASE d # c
    <3>1. pc'[d] = pc[d] /\ local'[d] = local[d] /\ Current(d)
      BY <1>2, <2>2 DEF OthersStay, AllCurrent
    <3>2. local[d].seen <= profile'[local[d].prof].revision
      BY <1>1, <1>3, <3>1 DEF Current
    <3> QED
      BY <3>1, <3>2 DEF Current
  <2> QED
    BY <2>1, <2>2
<1> QED
  BY <1>4 DEF AllCurrent

LEMMA EnterCurrent ==
  ASSUME Typed, AllCurrent, NEW c \in Callers, Enter(c)
  PROVE  AllCurrent'
<1> USE DEF stores
<1>t. \A r \in ActionRequests \cup DirectRequests : target[r] \in Profiles
  BY DEF Typed, TypeOK, Requests
<1>u. UNCHANGED profile => \A q \in Profiles : profile'[q].revision \in
        {profile[q].revision, profile[q].revision + 1}
  OBVIOUS
<1>1. ASSUME NEW r \in ActionRequests, NEW p \in Profiles, StartLong(c, r, p)
      PROVE  AllCurrent'
  BY <1>1, <1>u, CallCurrent DEF StartLong
<1>2. ASSUME NEW r \in DirectRequests, NEW p \in Profiles, NEW discard \in BOOLEAN,
             StartRefresh(c, r, p, discard)
      PROVE  AllCurrent'
  BY <1>2, <1>u, CallCurrent DEF StartRefresh
<1>3. ASSUME NEW r \in ActionRequests, NEW code \in Codes, Resume(c, r, code)
      PROVE  AllCurrent'
  <2>1. CASE UNCHANGED <<pc, local, profile>>
    BY <2>1 DEF AllCurrent, Current
  <2>2. CASE Call(c, "claim", r, target[r], "refresh", code) /\ UNCHANGED profile
    BY <1>t, <1>u, <2>2, CallCurrent
  <2>3. CASE Call(c, "drop", r, target[r], "cancel", "none") /\ UNCHANGED profile
    BY <1>t, <1>u, <2>3, CallCurrent
  <2> QED
    BY <1>3, <2>1, <2>2, <2>3 DEF Resume
<1>4. ASSUME NEW r \in DirectRequests, NEW code \in Codes, ResumeDirect(c, r, code)
      PROVE  AllCurrent'
  BY <1>4, <1>t, <1>u, CallCurrent DEF ResumeDirect
<1>5. ASSUME NEW r \in ActionRequests, Cancel(c, r)
      PROVE  AllCurrent'
  BY <1>5, <1>t, <1>u, CallCurrent DEF Cancel
<1>6. ASSUME NEW p \in Profiles, ShowStatus(c, p)
      PROVE  AllCurrent'
  BY <1>6, <1>u, CallCurrent DEF ShowStatus
<1>7. ASSUME NEW p \in Profiles, NEW mfa \in BOOLEAN, UpdateProfile(c, p, mfa)
      PROVE  AllCurrent'
  <2>1. \A q \in Profiles : profile'[q].revision \in
          {profile[q].revision, profile[q].revision + 1}
    BY <1>7 DEF UpdateProfile, Typed, TypeOK
  <2> QED
    BY <1>7, <2>1, CallCurrent DEF UpdateProfile
<1> QED
  BY <1>1, <1>2, <1>3, <1>4, <1>5, <1>6, <1>7 DEF Enter

\* SessionGuard: the profile is resolved, its session is loaded, and who answers for
\* the session is the one who was resolved.
LEMMA GuardCurrent ==
  ASSUME Typed, AllCurrent, NEW c \in Callers, GuardResolve(c) \/ GuardLoad(c) \/ GuardVerify(c)
  PROVE  AllCurrent'
<1> USE DEF stores
<1>t. local[c] \in Locals /\ Current(c) /\ UNCHANGED profile
  BY DEF Typed, TypeOK, AllCurrent, GuardResolve, GuardLoad, GuardVerify
<1>o. ASSUME OthersStay(c), Current(c)' PROVE AllCurrent'
  BY <1>o, <1>t DEF OthersStay, AllCurrent, Current
<1>1. CASE GuardResolve(c)
  <2> DEFINE l == [local[c] EXCEPT !.rev = profile[local[c].prof].revision]
  <2>1. /\ l.seen = local[c].seen /\ l.prof = local[c].prof
        /\ l.rev = profile[local[c].prof].revision
    BY <1>t DEF Locals
  <2>2. pc' = [pc EXCEPT ![c] = "load"] /\ local' = [local EXCEPT ![c] = l]
    BY <1>1 DEF GuardResolve, Goto
  <2> HIDE DEF l
  <2>3. OthersStay(c) /\ pc'[c] = "load" /\ local'[c] = l
    BY <2>2, MoverStays
  <2>4. Current(c)'
    BY <1>t, <2>1, <2>3 DEF Current
  <2> QED
    BY <1>o, <2>3, <2>4
<1>2. CASE GuardLoad(c)
  <2>1. CASE WithoutCredentials(c)
    BY <1>t, <2>1, WithoutCurrent, MovesCurrent
  <2>2. CASE ~WithoutCredentials(c)
    <3> DEFINE l == [local[c] EXCEPT !.row = session[local[c].prof]]
    <3>1. l.seen = local[c].seen /\ l.prof = local[c].prof /\ l.rev = local[c].rev
      BY <1>t DEF Locals
    <3>2. PICK label \in {"evict", "verify"} :
            pc' = [pc EXCEPT ![c] = label] /\ local' = [local EXCEPT ![c] = l]
      BY <1>2, <2>2 DEF GuardLoad, Goto
    <3> HIDE DEF l
    <3>3. OthersStay(c) /\ pc'[c] = label /\ local'[c] = l
      BY <3>2, MoverStays
    <3>4. Current(c)'
      BY <1>2, <1>t, <3>1, <3>3 DEF Current, GuardLoad
    <3> QED
      BY <1>o, <3>3, <3>4
  <2> QED
    BY <2>1, <2>2
<1>3. CASE GuardVerify(c)
  <2>1. CASE Finish(c)
    BY <1>t, <2>1, ReturnCurrent, MovesCurrent DEF Finish
  <2>2. CASE Goto(c, "body") /\ SameIdentity(c) /\ UNCHANGED local
    <3>1. local[c].seen <= local[c].row.revision
      BY <1>3, <1>t, <2>2 DEF Current, GuardVerify, SameIdentity
    <3>2. OthersStay(c) /\ pc'[c] = "body" /\ local'[c] = local[c]
      BY <2>2 DEF Goto, OthersStay, Typed, TypeOK
    <3>3. Current(c)'
      BY <1>t, <3>1, <3>2 DEF Current
    <3> QED
      BY <1>o, <3>2, <3>3
  <2>3. CASE \E label \in {"status", "evict"} : Goto(c, label) /\ UNCHANGED local
    BY <1>t, <2>3, StayCurrent, MovesCurrent
  <2> QED
    BY <1>3, <2>1, <2>2, <2>3 DEF GuardVerify
<1> QED
  BY <1>1, <1>2, <1>3

LEMMA StepCurrent ==
  ASSUME Typed, AllCurrent, NEW c \in Callers, Step(c)
  PROVE  AllCurrent'
<1> USE DEF stores
<1>g. CASE GuardResolve(c) \/ GuardLoad(c) \/ GuardVerify(c)
  BY <1>g, GuardCurrent
<1>1. CASE GuardEvict(c)
  BY <1>1, WithoutCurrent, MovesCurrent DEF GuardEvict
<1>2. CASE Discard(c)
  BY <1>2, StayCurrent, MovesCurrent DEF Discard
<1>3. CASE Status(c)
  BY <1>3, StayCurrent, AfterCurrent, MovesCurrent DEF Status
<1>4. CASE StatusEvict(c)
  BY <1>4, AfterCurrent, MovesCurrent DEF StatusEvict
<1>5. CASE Enrol(c)
  BY <1>5, StayCurrent, ReturnCurrent, MovesCurrent DEF Enrol
<1>6. CASE Park(c)
  BY <1>6, StageCurrent, ReturnCurrent, MovesCurrent DEF Park
<1>7. CASE DropChallenge(c) \/ WithdrawSession(c) \/ UpdateEvict(c) \/ Body(c)
  BY <1>7, ReturnCurrent, MovesCurrent DEF DropChallenge, WithdrawSession, UpdateEvict, Body, Finish
<1>8. CASE ClaimForAction(c) \/ Admit(c)
  BY <1>8, StayCurrent, ReturnCurrent, MovesCurrent DEF ClaimForAction, Admit, Finish
<1>9. CASE Acquire(c) \/ PutSession(c) \/ Publish(c)
  BY <1>9, StayCurrent, MovesCurrent DEF Acquire, PutSession, Publish
<1>10. CASE Precheck(c)
  <2>1. CASE Finish(c)
    BY <1>10, <2>1, ReturnCurrent, MovesCurrent DEF Finish, Precheck
  <2>2. CASE ~Finish(c)
    <3> DEFINE l == [local[c] EXCEPT !.base = profile[local[c].prof].revision]
    <3>1. l.seen = local[c].seen /\ l.prof = local[c].prof
      BY DEF Typed, TypeOK, Locals
    <3>2. Goto(c, "resolve") /\ local' = [local EXCEPT ![c] = l] /\ UNCHANGED profile
      BY <1>10, <2>2 DEF Precheck
    <3> HIDE DEF l
    <3> QED
      BY <3>1, <3>2, GotoCurrent, MovesCurrent
  <2> QED
    BY <2>1, <2>2
<1>11. CASE IssueToken(c)
  <2>1. CASE Finish(c)
    BY <1>11, <2>1, ReturnCurrent, MovesCurrent DEF Finish, IssueToken
  <2>2. CASE ~Finish(c)
    <3> DEFINE l == [local[c] EXCEPT !.row =
                       [serial |-> issued + 1, revision |-> local[c].base,
                        until |-> SessionUntil]]
    <3>1. l.seen = local[c].seen /\ l.prof = local[c].prof
      BY DEF Typed, TypeOK, Locals
    <3>2. Goto(c, "put") /\ local' = [local EXCEPT ![c] = l] /\ UNCHANGED profile
      BY <1>11, <2>2 DEF IssueToken
    <3> HIDE DEF l
    <3> QED
      BY <3>1, <3>2, GotoCurrent, MovesCurrent
  <2> QED
    BY <2>1, <2>2
<1> QED
  BY <1>g, <1>1, <1>2, <1>3, <1>4, <1>5, <1>6, <1>7, <1>8, <1>9, <1>10, <1>11 DEF Step

LEMMA InitCurrent == Init => AllCurrent
<1> SUFFICES ASSUME Init, NEW c \in Callers PROVE Current(c)
  BY DEF AllCurrent
<1>1. pc[c] = "idle" /\ local[c].seen = 0 /\ local[c].prof \in Profiles
  BY AuthenticationAssumption DEF Init, Blank, AnyProfile
<1>2. profile[local[c].prof].revision = 1
  BY <1>1 DEF Init
<1> QED
  BY <1>1, <1>2 DEF Current

LEMMA NextCurrent == Typed /\ AllCurrent /\ [Next]_vars => AllCurrent'
<1> SUFFICES ASSUME Typed, AllCurrent, [Next]_vars PROVE AllCurrent'
  OBVIOUS
<1>1. CASE UNCHANGED <<profile, pc, local>>
  BY <1>1 DEF AllCurrent, Current
<1>2. Tick \/ UNCHANGED vars => UNCHANGED <<profile, pc, local>>
  BY DEF Tick, vars, stores
<1> QED
  BY <1>1, <1>2, EnterCurrent, StepCurrent DEF Next

\* SessionGuard._assert_identity: whatever updates, evictions and refreshes come between,
\* a feature works with a session of an identity that the profile had when the call
\* came in, or of a later one.
THEOREM FeaturesWorkAsCurrent == Spec => []WorksAsCurrentIdentity
<1>1. Typed /\ AllCurrent => WorksAsCurrentIdentity
  <2> SUFFICES ASSUME Typed, AllCurrent, NEW c \in Callers, pc[c] = "body"
               PROVE  local[c].row.revision >= local[c].seen
    BY DEF WorksAsCurrentIdentity
  <2>1. local[c].row.revision \in Nat /\ local[c].seen \in Nat
    BY DEF Typed, TypeOK, Locals, Rows
  <2> QED
    BY <2>1 DEF AllCurrent, Current
<1> QED
  BY <1>1, InitType, NextType, InitCurrent, NextCurrent, PTL DEF Spec

(***************************************************************************)
(* Authentication implements OneShot: the history of every request follows *)
(* the promise; and the two halves of its dialog stay together until a     *)
(* call for it takes them.                                                 *)
(***************************************************************************)

(* The inductive invariant *)

\* Caller state l has taken request r out of, or not yet put it into, a table.
Works(l, r) == l.req = r /\ l.stage \notin {"local", "cancel"}

\* What the history says of the request a caller is working on.
FateOK(f, label, l) ==
  /\ l.stage \in {"attempt", "direct"} => f[l.req] = "running"
  /\ l.stage = "refresh" =>
       /\ f[l.req] \in {"running", "claimed", "delivered"}
       /\ f[l.req] = "delivered" => l.req \in DirectRequests
       /\ label \in {"claim", "admit"} => f[l.req] = "claimed"
  /\ l.stage = "retry" => f[l.req] \in {"running", "delivered"}

\* The tables hold exactly the requests on offer, ...
TablesHoldOffers ==
  /\ \A r \in ActionRequests : r \in parked <=> fate[r] = "offered"
  /\ \A r \in DirectRequests : r \in waiting <=> fate[r] = "offered"

\* ... every other open request is in the hands of at most one caller, ...
OneWorker ==
  /\ \A c \in Callers : FateOK(fate, pc[c], local[c])
  /\ \A c, d \in Callers, r \in Requests :
       Works(local[c], r) /\ Works(local[d], r) => c = d

\* ... and what was delivered ran once.
Counted ==
  /\ fate \in [Requests -> Promise!Fates]
  /\ \A r \in Requests : runs[r] = IF fate[r] = "delivered" THEN 1 ELSE 0

Hist == TablesHoldOffers /\ OneWorker /\ Counted

\* A step keeps the invariant and is a step of the promise.
Kept == Hist' /\ (Promise!Next \/ UNCHANGED <<fate, runs>>)

-----------------------------------------------------------------------------
(* Steps by what they do to the history *)

DirectsStay == \A r \in DirectRequests : r \in waiting' <=> r \in waiting

\* No caller but c works on r: c does, or the request is new or on offer.
LEMMA NoOtherWorker ==
  ASSUME Typed, OneWorker, NEW c \in Callers, NEW d \in Callers \ {c}, NEW r \in Requests,
         Works(local[c], r) \/ fate[r] \in {"unused", "offered", "closed"}
  PROVE  ~Works(local[d], r)
<1>1. FateOK(fate, pc[d], local[d]) /\ local[d].stage \in Stages
  BY DEF OneWorker, Typed, TypeOK, Locals
<1>2. CASE Works(local[c], r)
  BY <1>2 DEF OneWorker
<1>3. CASE fate[r] \in {"unused", "offered", "closed"}
  BY <1>1, <1>3 DEF Works, FateOK, Stages
<1> QED
  BY <1>2, <1>3

\* The fate of r changes, and overdue offers close.
LEMMA WorkerMoves ==
  ASSUME Typed, OneWorker, NEW c \in Callers, NEW r \in Requests,
         OthersStay(c),
         Works(local[c], r) \/ fate[r] \in {"unused", "offered", "closed"},
         \A k \in Requests \ {r} : fate'[k] = fate[k] \/ fate[k] = "offered",
         local'[c].stage \in {"local", "cancel"} \/ local'[c].req = r,
         FateOK(fate', pc'[c], local'[c])
  PROVE  OneWorker'
<1>1. ASSUME NEW d \in Callers \ {c}
      PROVE  FateOK(fate', pc'[d], local'[d]) /\ ~Works(local'[d], r)
  <2>1. ~Works(local[d], r)
    BY NoOtherWorker
  <2>2. /\ pc'[d] = pc[d] /\ local'[d] = local[d]
        /\ FateOK(fate, pc[d], local[d]) /\ StageOK(pc[d], local[d])
        /\ local[d].stage \in Stages
    BY DEF OthersStay, OneWorker, Typed, TypeOK, Locals
  <2>3. CASE local[d].stage \in {"local", "cancel"}
    BY <2>1, <2>2, <2>3 DEF FateOK, Works
  <2>4. CASE local[d].stage \notin {"local", "cancel"}
    <3>1. local[d].req \in Requests \ {r} /\ fate[local[d].req] # "offered"
      BY <2>1, <2>2, <2>4 DEF Works, FateOK, StageOK, Stages, Requests
    <3> QED
      BY <2>1, <2>2, <3>1 DEF FateOK
  <2> QED
    BY <2>3, <2>4
<1>2. ASSUME NEW d \in Callers, NEW e \in Callers, NEW k \in Requests,
             Works(local'[d], k), Works(local'[e], k)
      PROVE  d = e
  <2>1. CASE d = c
    BY <1>1, <1>2, <2>1 DEF Works
  <2>2. CASE e = c
    BY <1>1, <1>2, <2>2 DEF Works
  <2>3. CASE d # c /\ e # c
    BY <1>2, <2>3 DEF OthersStay, OneWorker
  <2> QED
    BY <2>1, <2>2, <2>3
<1> QED
  BY <1>1, <1>2 DEF OneWorker

\* Nothing but overdue offers changes, and c takes on no request.
LEMMA WorkerRests ==
  ASSUME Typed, OneWorker, NEW c \in Callers,
         OthersStay(c),
         \A k \in Requests : fate'[k] = fate[k] \/ fate[k] = "offered",
         \/ local'[c].stage \in {"local", "cancel"}
         \/ /\ local'[c].req = local[c].req /\ local[c].stage \notin {"local", "cancel"}
            /\ FateOK(fate', pc'[c], local'[c])
  PROVE  OneWorker'
<1>1. ASSUME NEW d \in Callers
      PROVE  FateOK(fate', pc'[d], local'[d])
  <2>1. CASE d # c
    <3>1. /\ pc'[d] = pc[d] /\ local'[d] = local[d]
          /\ FateOK(fate, pc[d], local[d]) /\ StageOK(pc[d], local[d])
          /\ local[d].stage \in Stages
      BY <2>1 DEF OthersStay, OneWorker, Typed, TypeOK, Locals
    <3>2. CASE local[d].stage \in {"local", "cancel"}
      BY <3>1, <3>2 DEF FateOK
    <3>3. CASE local[d].stage \notin {"local", "cancel"}
      <4>1. local[d].req \in Requests /\ fate[local[d].req] # "offered"
        BY <3>1, <3>3 DEF FateOK, StageOK, Stages, Requests
      <4> QED
        BY <3>1, <4>1 DEF FateOK
    <3> QED
      BY <3>2, <3>3
  <2>2. CASE d = c /\ local'[c].stage \in {"local", "cancel"}
    BY <2>2 DEF FateOK
  <2> QED
    BY <2>1, <2>2
<1>2. ASSUME NEW d \in Callers, NEW k \in Requests, Works(local'[d], k)
      PROVE  Works(local[d], k)
  BY <1>2 DEF Works, OthersStay
<1> QED
  BY <1>1, <1>2 DEF OneWorker

\* A request moves on along the promise; overdue offers close.
LEMMA MoveKept ==
  ASSUME Typed, Hist, NEW c \in Callers, NEW r \in Requests,
         NEW now \in {"running", "offered", "claimed", "closed"},
         NEW dead \in SUBSET Promise!Offers,
         fate' = [k \in Requests |-> IF k = r THEN now
                                     ELSE IF k \in dead THEN "closed" ELSE fate[k]],
         UNCHANGED runs,
         \/ fate[r] = "unused" /\ now = "running"
         \/ fate[r] = "running" /\ now = "offered"
         \/ fate[r] = "offered" /\ now = "claimed"
         \/ fate[r] \in {"running", "offered", "claimed"} /\ now = "closed",
         OthersStay(c),
         Works(local[c], r) \/ fate[r] \in {"unused", "offered"},
         local'[c].stage \in {"local", "cancel"} \/ local'[c].req = r,
         FateOK(fate', pc'[c], local'[c]),
         \A k \in ActionRequests :
           k \in parked' <=> IF k = r THEN now = "offered" ELSE k \in parked /\ k \notin dead,
         \A k \in DirectRequests :
           k \in waiting' <=> IF k = r THEN now = "offered" ELSE k \in waiting /\ k \notin dead
  PROVE  Kept
<1>1. \A k \in Requests \ {r} : fate'[k] = fate[k] \/ fate[k] = "offered"
  BY DEF Promise!Offers
<1>2. OneWorker'
  BY <1>1, WorkerMoves DEF Hist
<1>3. TablesHoldOffers'
  BY DEF Hist, TablesHoldOffers, Promise!Offers, Requests
<1>4. Counted'
  BY DEF Hist, Counted, Promise!Offers, Promise!Fates
<1>5. Promise!Next
  <2>1. CASE fate[r] = "unused" /\ now = "running"
    <3>1. Promise!Start(r)
      BY <2>1 DEF Promise!Start, Promise!Move
    <3> QED
      BY <3>1 DEF Promise!Next
  <2>2. CASE fate[r] = "running" /\ now = "offered"
    <3>1. Promise!Offer(r)
      BY <2>2 DEF Promise!Offer, Promise!Move
    <3> QED
      BY <3>1 DEF Promise!Next
  <2>3. CASE fate[r] = "offered" /\ now = "claimed"
    <3>1. Promise!Claim(r)
      BY <2>3 DEF Promise!Claim, Promise!Move
    <3> QED
      BY <3>1 DEF Promise!Next
  <2>4. CASE fate[r] \in {"running", "offered", "claimed"} /\ now = "closed"
    <3>1. Promise!Close(r)
      BY <2>4 DEF Promise!Close, Promise!Move
    <3> QED
      BY <3>1 DEF Promise!Next
  <2> QED
    BY <2>1, <2>2, <2>3, <2>4
<1> QED
  BY <1>2, <1>3, <1>4, <1>5 DEF Kept, Hist

\* Only overdue offers close, and the caller takes on no request.
LEMMA LapseKept ==
  ASSUME Typed, Hist, NEW c \in Callers, NEW dead \in SUBSET Promise!Offers,
         fate' = [k \in Requests |-> IF k \in dead THEN "closed" ELSE fate[k]],
         UNCHANGED runs, OthersStay(c),
         \/ local'[c].stage \in {"local", "cancel"}
         \/ /\ local'[c].req = local[c].req /\ local[c].stage \notin {"local", "cancel"}
            /\ FateOK(fate', pc'[c], local'[c]),
         \A k \in ActionRequests : k \in parked' <=> k \in parked /\ k \notin dead,
         \A k \in DirectRequests : k \in waiting' <=> k \in waiting /\ k \notin dead
  PROVE  Kept
<1>1. \A k \in Requests : fate'[k] = fate[k] \/ fate[k] = "offered"
  BY DEF Promise!Offers
<1>2. OneWorker'
  BY <1>1, WorkerRests DEF Hist
<1>3. TablesHoldOffers'
  BY DEF Hist, TablesHoldOffers, Promise!Offers, Requests
<1>4. Counted'
  BY DEF Hist, Counted, Promise!Offers, Promise!Fates
<1>5. Promise!Next
  BY DEF Promise!Next, Promise!Lapse
<1> QED
  BY <1>2, <1>3, <1>4, <1>5 DEF Kept, Hist

\* The history and the offers stand still.
LEMMA QuietKept ==
  ASSUME Typed, Hist, NEW c \in Callers, UNCHANGED <<fate, runs, parked>>, DirectsStay,
         OthersStay(c),
         \/ local'[c].stage \in {"local", "cancel"}
         \/ /\ local'[c].req = local[c].req /\ local[c].stage \notin {"local", "cancel"}
            /\ FateOK(fate, pc'[c], local'[c])
  PROVE  Kept
<1>1. fate' = [k \in Requests |-> IF k \in {} THEN "closed" ELSE fate[k]]
  BY DEF Hist, Counted
<1>2. \/ local'[c].stage \in {"local", "cancel"}
      \/ /\ local'[c].req = local[c].req /\ local[c].stage \notin {"local", "cancel"}
         /\ FateOK(fate', pc'[c], local'[c])
  OBVIOUS
<1>3. /\ \A k \in ActionRequests : k \in parked' <=> k \in parked /\ k \notin {}
      /\ \A k \in DirectRequests : k \in waiting' <=> k \in waiting /\ k \notin {}
  BY DEF DirectsStay
<1>4. {} \in SUBSET Promise!Offers /\ UNCHANGED runs
  OBVIOUS
<1> HIDE DEF FateOK
<1> QED
  BY <1>1, <1>2, <1>3, <1>4, LapseKept

\* A claimed request is delivered.
LEMMA DeliverKept ==
  ASSUME Typed, Hist, NEW c \in Callers, Deliver(c),
         Works(local[c], local[c].req), local[c].req \in Requests,
         fate[local[c].req] = "claimed",
         UNCHANGED <<parked, waiting>>, OthersStay(c),
         local'[c].req = local[c].req,
         FateOK([fate EXCEPT ![local[c].req] = "delivered"], pc'[c], local'[c])
  PROVE  Kept
<1> DEFINE r == local[c].req
<1>1. /\ \A k \in Requests \ {r} : fate'[k] = fate[k]
      /\ fate'[r] = "delivered" /\ fate' \in [Requests -> Promise!Fates]
  BY DEF Deliver, Hist, Counted, Promise!Fates
<1>2. OneWorker'
  BY <1>1, WorkerMoves DEF Hist, Deliver
<1>3. TablesHoldOffers'
  BY <1>1 DEF Hist, TablesHoldOffers, Requests
<1>4. Counted'
  BY <1>1 DEF Hist, Counted, Deliver, Typed, TypeOK
<1>5. Promise!Deliver(r)
  BY DEF Promise!Deliver, Deliver
<1> QED
  BY <1>2, <1>3, <1>4, <1>5 DEF Kept, Hist, Promise!Next

\* A call ends: the request closes, unless it was delivered or is another's.
LEMMA FinishKept ==
  ASSUME Typed, Hist, NEW c \in Callers, Finish(c), UNCHANGED parked, DirectsStay
  PROVE  Kept
<1> DEFINE r == local[c].req
<1>1. OthersStay(c) /\ local'[c].stage = "local" /\ UNCHANGED runs
  BY DEF Finish, Return, Goto, OthersStay, Blank, Typed, TypeOK
<1>2. FateOK(fate', pc'[c], local'[c])
  BY <1>1 DEF FateOK
<1>3. CASE r \in Requests /\ fate[r] \in {"running", "claimed"} /\ local[c].stage # "cancel"
  <2>1. fate' = [k \in Requests |-> IF k = r THEN "closed"
                                    ELSE IF k \in {} THEN "closed" ELSE fate[k]]
    BY <1>3 DEF Finish
  <2>2. Works(local[c], r)
    BY <1>3, AuthenticationAssumption DEF Works, Typed, StageOK
  <2>3. r \in ActionRequests => r \notin parked
    BY <1>3 DEF Hist, TablesHoldOffers
  <2>4. r \in DirectRequests => r \notin waiting
    BY <1>3 DEF Hist, TablesHoldOffers
  <2>5. \A k \in ActionRequests :
          k \in parked' <=> IF k = r THEN "closed" = "offered" ELSE k \in parked /\ k \notin {}
    BY <2>3
  <2>6. \A k \in DirectRequests :
          k \in waiting' <=> IF k = r THEN "closed" = "offered" ELSE k \in waiting /\ k \notin {}
    BY <2>4 DEF DirectsStay
  <2>7. {} \in SUBSET Promise!Offers
    OBVIOUS
  <2> QED
    BY <1>1, <1>2, <1>3, <2>1, <2>2, <2>5, <2>6, <2>7, MoveKept
<1>4. CASE ~(r \in Requests /\ fate[r] \in {"running", "claimed"} /\ local[c].stage # "cancel")
  <2>1. fate' = fate
    BY <1>4 DEF Finish, Hist, Counted
  <2> QED
    BY <1>1, <2>1, QuietKept
<1> QED
  BY <1>3, <1>4

-----------------------------------------------------------------------------
(* The steps of Authentication *)

\* What is overdue is on offer.
LEMMA DeadAreOffers ==
  ASSUME Typed, Hist
  PROVE  /\ \A kept : Overdue(kept) \in SUBSET Promise!Offers
         /\ \A kept : Overdue(kept) \subseteq parked
         /\ SweepWaiting \cap DirectRequests \in SUBSET Promise!Offers
  BY DEF Typed, TypeOK, Hist, TablesHoldOffers, Overdue, SweepWaiting, Promise!Offers, Requests

LEMMA CallMoves ==
  ASSUME Typed, NEW c \in Callers, NEW label, NEW r, NEW p, NEW stage, NEW code,
         Call(c, label, r, p, stage, code)
  PROVE  /\ OthersStay(c) /\ pc'[c] = label
         /\ local'[c].req = r /\ local'[c].stage = stage
         /\ local[c].stage = "local"
<1>1. StageOK(pc[c], local[c]) /\ local[c].stage \in Stages
  BY DEF Typed, TypeOK, Locals
<1>2. local[c].stage = "local"
  BY <1>1 DEF Call, StageOK, Guarding, Stages
<1> DEFINE l == [req |-> r, prof |-> p, stage |-> stage, code |-> code,
                 seen |-> profile[p].revision, rev |-> 0, base |-> 0, row |-> NoRow]
<1>3. pc' = [pc EXCEPT ![c] = label] /\ local' = [local EXCEPT ![c] = l]
  BY DEF Call
<1>4. OthersStay(c) /\ pc'[c] = label /\ local'[c] = l
  BY <1>3, MoverStays
<1> QED
  BY <1>2, <1>4

LEMMA EnterKept ==
  ASSUME Typed, Hist, NEW c \in Callers, Enter(c)
  PROVE  Kept
<1> USE AuthenticationAssumption DEF tables, stores, history
<1>1. ASSUME NEW r \in ActionRequests, NEW p \in Profiles, StartLong(c, r, p)
      PROVE  Kept
  <2> DEFINE dead == Overdue(Nobody)
  <2>1. /\ r \in Requests /\ fate[r] = "unused" /\ UNCHANGED runs
        /\ fate' = [k \in Requests |-> IF k = r THEN "running"
                                       ELSE IF k \in dead THEN "closed" ELSE fate[k]]
    BY <1>1 DEF StartLong, Record, Requests
  <2>2. OthersStay(c) /\ local'[c].req = r /\ local'[c].stage = "attempt"
    BY <1>1, CallMoves DEF StartLong
  <2>3. FateOK(fate', pc'[c], local'[c])
    BY <2>1, <2>2 DEF FateOK
  <2>4. \A k \in ActionRequests :
          k \in parked' <=> IF k = r THEN "running" = "offered" ELSE k \in parked /\ k \notin dead
    BY <1>1, <2>1 DEF StartLong, Sweep, Hist, TablesHoldOffers
  <2>5. \A k \in DirectRequests :
          k \in waiting' <=> IF k = r THEN "running" = "offered" ELSE k \in waiting /\ k \notin dead
    BY <1>1, <2>1 DEF StartLong, Sweep
  <2>6. dead \in SUBSET Promise!Offers
    BY DeadAreOffers
  <2> HIDE DEF dead
  <2> QED
    BY <2>1, <2>2, <2>3, <2>4, <2>5, <2>6, MoveKept
<1>2. ASSUME NEW r \in DirectRequests, NEW p \in Profiles, NEW discard \in BOOLEAN,
             StartRefresh(c, r, p, discard)
      PROVE  Kept
  <2> DEFINE dead == (IF discard THEN {} ELSE SweepWaiting) \cap DirectRequests
  <2>1. /\ r \in Requests /\ fate[r] = "unused" /\ UNCHANGED runs
        /\ fate' = [k \in Requests |-> IF k = r THEN "running"
                                       ELSE IF k \in dead THEN "closed" ELSE fate[k]]
    BY <1>2 DEF StartRefresh, Record, Requests
  <2>2. OthersStay(c) /\ local'[c].req = r /\ local'[c].stage = "direct"
    BY <1>2, CallMoves DEF StartRefresh
  <2>3. FateOK(fate', pc'[c], local'[c])
    BY <2>1, <2>2 DEF FateOK
  <2>4. \A k \in ActionRequests :
          k \in parked' <=> IF k = r THEN "running" = "offered" ELSE k \in parked /\ k \notin dead
    BY <1>2 DEF StartRefresh
  <2>5. \A k \in DirectRequests :
          k \in waiting' <=> IF k = r THEN "running" = "offered" ELSE k \in waiting /\ k \notin dead
    BY <1>2, <2>1 DEF StartRefresh, Hist, TablesHoldOffers
  <2>6. dead \in SUBSET Promise!Offers
    BY DeadAreOffers
  <2> HIDE DEF dead
  <2> QED
    BY <2>1, <2>2, <2>3, <2>4, <2>5, <2>6, MoveKept
<1>3. ASSUME NEW r \in ActionRequests, NEW code \in Codes, Resume(c, r, code)
      PROVE  Kept
  <2> DEFINE dead == Overdue(r)
  <2>0. r \in Requests /\ dead \in SUBSET Promise!Offers /\ UNCHANGED runs
    BY <1>3, DeadAreOffers DEF Resume, Requests
  <2>t. \A k \in DirectRequests : k \in waiting' <=> k \in waiting /\ k \notin dead
    BY <1>3 DEF Resume, Sweep
  <2>1. CASE r \in parked
    <3>1. PICK now \in {"claimed", "closed"} :
            /\ fate' = [k \in Requests |-> IF k = r THEN now
                                           ELSE IF k \in dead THEN "closed" ELSE fate[k]]
            /\ IF now = "claimed" THEN Call(c, "claim", r, target[r], "refresh", code)
               ELSE Call(c, "drop", r, target[r], "cancel", "none")
      BY <1>3, <2>1 DEF Resume, Record
    <3>2. /\ OthersStay(c) /\ local'[c].req = r
          /\ local'[c].stage = IF now = "claimed" THEN "refresh" ELSE "cancel"
      BY <3>1, CallMoves
    <3>3. fate[r] = "offered"
      BY <2>1 DEF Hist, TablesHoldOffers
    <3>4. FateOK(fate', pc'[c], local'[c])
      BY <2>0, <3>1, <3>2 DEF FateOK
    <3>5. \A k \in ActionRequests :
            k \in parked' <=> IF k = r THEN now = "offered" ELSE k \in parked /\ k \notin dead
      BY <1>3, <2>1, <3>1 DEF Resume, Sweep
    <3>6. \A k \in DirectRequests :
            k \in waiting' <=> IF k = r THEN now = "offered" ELSE k \in waiting /\ k \notin dead
      BY <2>t
    <3> HIDE DEF dead
    <3>7. now \in {"running", "offered", "claimed", "closed"}
      OBVIOUS
    <3>8. \/ fate[r] = "offered" /\ now = "claimed"
          \/ fate[r] \in {"running", "offered", "claimed"} /\ now = "closed"
      BY <3>3
    <3> QED
      BY <2>0, <3>1, <3>2, <3>3, <3>4, <3>5, <3>6, <3>7, <3>8, MoveKept
  <2>2. CASE r \notin parked
    <3>1. /\ fate' = [k \in Requests |-> IF k = r THEN fate[r]
                                         ELSE IF k \in dead THEN "closed" ELSE fate[k]]
          /\ pc[c] = "idle" /\ UNCHANGED <<pc, local>>
      BY <1>3, <2>2 DEF Resume, Record
    <3>2. fate' = [k \in Requests |-> IF k \in dead THEN "closed" ELSE fate[k]]
      BY <3>1 DEF Overdue
    <3>3. OthersStay(c) /\ local'[c].stage = "local"
      <4>1. StageOK("idle", local[c]) /\ local[c].stage \in Stages
        BY <3>1 DEF Typed, TypeOK, Locals
      <4> QED
        BY <3>1, <4>1 DEF OthersStay, StageOK, Guarding, Stages
    <3>4. \A k \in ActionRequests : k \in parked' <=> k \in parked /\ k \notin dead
      BY <1>3, <2>2 DEF Resume, Sweep
    <3> HIDE DEF dead
    <3> QED
      BY <2>0, <2>t, <3>2, <3>3, <3>4, LapseKept
  <2> QED
    BY <2>1, <2>2
<1>4. ASSUME NEW r \in DirectRequests, NEW code \in Codes, ResumeDirect(c, r, code)
      PROVE  Kept
  <2> DEFINE dead == {}
  <2>1. /\ r \in Requests /\ fate[r] = "offered" /\ UNCHANGED runs
        /\ fate' = [k \in Requests |-> IF k = r THEN "claimed"
                                       ELSE IF k \in dead THEN "closed" ELSE fate[k]]
    BY <1>4 DEF ResumeDirect, Record, Requests, Hist, TablesHoldOffers
  <2>2. OthersStay(c) /\ local'[c].req = r /\ local'[c].stage = "refresh"
    BY <1>4, CallMoves DEF ResumeDirect
  <2>3. FateOK(fate', pc'[c], local'[c])
    BY <2>1, <2>2 DEF FateOK
  <2>4. \A k \in ActionRequests :
          k \in parked' <=> IF k = r THEN "claimed" = "offered" ELSE k \in parked /\ k \notin dead
    BY <1>4 DEF ResumeDirect
  <2>5. \A k \in DirectRequests :
          k \in waiting' <=> IF k = r THEN "claimed" = "offered" ELSE k \in waiting /\ k \notin dead
    BY <1>4 DEF ResumeDirect
  <2>6. dead \in SUBSET Promise!Offers
    OBVIOUS
  <2> HIDE DEF dead
  <2> QED
    BY <2>1, <2>2, <2>3, <2>4, <2>5, <2>6, MoveKept
<1>5. ASSUME NEW r \in ActionRequests, Cancel(c, r)
      PROVE  Kept
  <2> DEFINE dead == {}
  <2>1. /\ r \in Requests /\ UNCHANGED <<runs, waiting>> /\ OthersStay(c)
        /\ local'[c].stage = "cancel" /\ local'[c].req = r
        /\ FateOK(fate', pc'[c], local'[c])
    BY <1>5, CallMoves DEF Cancel, Requests, FateOK
  <2>2. CASE r \in parked
    <3>1. fate' = [k \in Requests |-> IF k = r THEN "closed"
                                      ELSE IF k \in dead THEN "closed" ELSE fate[k]]
      BY <1>5, <2>1, <2>2 DEF Cancel, Record
    <3>2. fate[r] = "offered"
      BY <2>2 DEF Hist, TablesHoldOffers
    <3>3. \A k \in ActionRequests :
            k \in parked' <=> IF k = r THEN "closed" = "offered" ELSE k \in parked /\ k \notin dead
      BY <1>5 DEF Cancel
    <3>4. \A k \in DirectRequests :
            k \in waiting' <=> IF k = r THEN "closed" = "offered" ELSE k \in waiting /\ k \notin dead
      BY <2>1
    <3>5. dead \in SUBSET Promise!Offers
      OBVIOUS
    <3> HIDE DEF dead
    <3> QED
      BY <2>1, <3>1, <3>2, <3>3, <3>4, <3>5, MoveKept
  <2>3. CASE r \notin parked
    <3>1. fate' = fate
      BY <1>5, <2>3 DEF Cancel, Record, Hist, Counted
    <3>2. UNCHANGED parked
      BY <1>5, <2>3 DEF Cancel
    <3> QED
      BY <2>1, <3>1, <3>2, QuietKept DEF DirectsStay
  <2> QED
    BY <2>2, <2>3
<1>6. ASSUME NEW p \in Profiles, ShowStatus(c, p)
      PROVE  Kept
  <2>1. OthersStay(c) /\ local'[c].stage = "local"
    BY <1>6, CallMoves DEF ShowStatus
  <2> QED
    BY <1>6, <2>1, QuietKept DEF ShowStatus, DirectsStay
<1>7. ASSUME NEW p \in Profiles, NEW mfa \in BOOLEAN, UpdateProfile(c, p, mfa)
      PROVE  Kept
  <2>1. OthersStay(c) /\ local'[c].stage = "local"
    BY <1>7, CallMoves DEF UpdateProfile
  <2> QED
    BY <1>7, <2>1, QuietKept DEF UpdateProfile, DirectsStay
<1> QED
  BY <1>1, <1>2, <1>3, <1>4, <1>5, <1>6, <1>7 DEF Enter

\* A caller goes on with its request, and nobody else's business changes.
LEMMA GoOnKept ==
  ASSUME Typed, Hist, NEW c \in Callers, NEW label, NEW l,
         pc' = [pc EXCEPT ![c] = label], local' = [local EXCEPT ![c] = l],
         l.req = local[c].req,
         local[c].stage = "local" => l.stage = "local",
         local[c].stage # "cancel",
         FateOK(fate, pc[c], local[c]) => FateOK(fate, label, l),
         UNCHANGED <<fate, runs, parked>>, DirectsStay
  PROVE  Kept
<1>1. OthersStay(c) /\ pc'[c] = label /\ local'[c] = l
  BY MoverStays
<1>2. FateOK(fate, label, l)
  BY DEF Hist, OneWorker
<1> QED
  BY <1>1, <1>2, QuietKept

LEMMA GotoKept ==
  ASSUME Typed, Hist, NEW c \in Callers, NEW label, pc[c] # "drop",
         Goto(c, label), UNCHANGED <<local, fate, runs, parked>>, DirectsStay,
         label = "admit" => pc[c] = "claim", label # "claim"
  PROVE  Kept
<1>1. local' = [local EXCEPT ![c] = local[c]]
  BY DEF Typed, TypeOK
<1>2. local[c].stage # "cancel"
  BY DEF Typed, StageOK
<1>3. FateOK(fate, pc[c], local[c]) => FateOK(fate, label, local[c])
  BY DEF FateOK
<1> QED
  BY <1>1, <1>2, <1>3, GoOnKept DEF Goto

\* An attempt that needs no challenge is retried, or goes to the refresh.
LEMMA StageKept ==
  ASSUME Typed, Hist, NEW c \in Callers, NEW label, label \notin {"claim", "admit"},
         local[c].stage \in {"attempt", "direct"} \/
           (/\ local[c].stage = "refresh" /\ local[c].req \in ActionRequests
            /\ fate[local[c].req] # "claimed"),
         NEW stage \in {"retry", "refresh"},
         local[c].stage = "refresh" => stage = "retry",
         GotoStage(c, label, stage),
         UNCHANGED <<fate, runs, parked>>, DirectsStay
  PROVE  Kept
<1> DEFINE l == [local[c] EXCEPT !.stage = stage]
<1>1. local' = [local EXCEPT ![c] = l] /\ l.req = local[c].req /\ l.stage = stage
  BY DEF GotoStage, Typed, TypeOK, Locals
<1>2. FateOK(fate, pc[c], local[c]) => FateOK(fate, label, l)
  BY <1>1, AuthenticationAssumption DEF FateOK
<1> HIDE DEF l
<1> QED
  BY <1>1, <1>2, GoOnKept DEF GotoStage, Goto

LEMMA AfterStatusKept ==
  ASSUME Typed, Hist, NEW c \in Callers, pc[c] \in {"status", "statusEvict"},
         NEW reusable \in BOOLEAN, AfterStatus(c, reusable), UNCHANGED tables
  PROVE  Kept
<1> DEFINE r == local[c].req
<1>0. UNCHANGED <<parked, waiting>> /\ DirectsStay
  BY DEF tables, DirectsStay
<1>1. CASE Finish(c)
  BY <1>0, <1>1, FinishKept
<1>2. CASE /\ local[c].stage = "refresh" /\ r \in ActionRequests
           /\ GotoStage(c, "resolve", "retry")
           /\ IF fate[r] = "claimed" THEN Deliver(c) ELSE UNCHANGED history
  <2>1. CASE fate[r] = "claimed"
    <3> DEFINE l == [local[c] EXCEPT !.stage = "retry"]
    <3>1. local' = [local EXCEPT ![c] = l] /\ l.req = r /\ l.stage = "retry"
      BY <1>2 DEF GotoStage, Typed, TypeOK, Locals
    <3>5. pc' = [pc EXCEPT ![c] = "resolve"] /\ local' = [local EXCEPT ![c] = l]
      BY <1>2, <3>1 DEF GotoStage, Goto
    <3>2. OthersStay(c) /\ pc'[c] = "resolve" /\ local'[c] = l
      <4> HIDE DEF l
      <4> QED
        BY <3>5, MoverStays
    <3>3. r \in Requests /\ Works(local[c], r)
      BY <1>2 DEF Works, Requests
    <3>4. FateOK([fate EXCEPT ![r] = "delivered"], pc'[c], local'[c])
      BY <3>1, <3>2, <3>3 DEF FateOK, Hist, Counted
    <3> HIDE DEF l
    <3> QED
      BY <1>0, <1>2, <2>1, <3>1, <3>2, <3>3, <3>4, DeliverKept
  <2>2. CASE fate[r] # "claimed"
    BY <1>0, <1>2, <2>2, StageKept DEF history
  <2> QED
    BY <2>1, <2>2
<1>3. CASE /\ local[c].stage = "attempt" /\ GotoStage(c, "resolve", "retry")
           /\ UNCHANGED <<lock, history>>
  BY <1>0, <1>3, StageKept DEF history
<1>4. CASE /\ local[c].stage \in {"attempt", "direct"} /\ Goto(c, "enrol")
           /\ UNCHANGED <<lock, local, history>>
  BY <1>0, <1>4, GotoKept DEF history
<1>5. CASE /\ local[c].stage \in {"attempt", "direct"} /\ GotoStage(c, "acquire", "refresh")
           /\ UNCHANGED <<lock, history>>
  BY <1>0, <1>5, StageKept DEF history
<1> QED
  BY <1>1, <1>2, <1>3, <1>4, <1>5 DEF AfterStatus

LEMMA WithoutCredentialsKept ==
  ASSUME Typed, Hist, NEW c \in Callers, pc[c] \in Guarding, WithoutCredentials(c),
         UNCHANGED tables
  PROVE  Kept
<1>0. UNCHANGED parked /\ DirectsStay
  BY DEF tables, DirectsStay
<1>1. CASE Finish(c)
  BY <1>0, <1>1, FinishKept
<1>2. CASE ~Finish(c)
  BY <1>0, <1>2, GotoKept DEF WithoutCredentials, Guarding, history
<1> QED
  BY <1>1, <1>2

LEMMA EnrolKept ==
  ASSUME Typed, Hist, NEW c \in Callers, Enrol(c)
  PROVE  Kept
<1> USE DEF tables, history
<1> DEFINE r == local[c].req
           dead == SweepWaiting \cap DirectRequests
<1>0. /\ r \in Requests /\ local[c].stage \in {"attempt", "direct"} /\ Works(local[c], r)
      /\ fate[r] = "running" /\ dead \in SUBSET Promise!Offers
  <2>1. StageOK("enrol", local[c]) /\ local[c].stage \in Stages
    BY DEF Enrol, Typed, TypeOK, Locals
  <2>2. r \in Requests /\ local[c].stage \in {"attempt", "direct"}
    BY <2>1 DEF StageOK, Guarding, Stages, Requests
  <2> QED
    BY <2>2, DeadAreOffers DEF Works, Hist, OneWorker, FateOK
<1>2. CASE HasRoom /\ r \in ActionRequests
  <2>1. /\ Goto(c, "park") /\ UNCHANGED <<local, runs, parked>>
        /\ fate' = [k \in Requests |-> IF k \in dead THEN "closed" ELSE fate[k]]
        /\ waiting' = (waiting \ SweepWaiting) \cup {r}
    BY <1>2 DEF Enrol, Lapse
  <2>2. local' = [local EXCEPT ![c] = local[c]]
    BY <2>1 DEF Typed, TypeOK
  <2>3. OthersStay(c) /\ pc'[c] = "park" /\ local'[c] = local[c]
    BY <2>1, <2>2, MoverStays DEF Goto
  <2>4. FateOK(fate', pc'[c], local'[c])
    BY <1>0, <2>1, <2>3 DEF FateOK, Promise!Offers
  <2>5. \A k \in ActionRequests : k \in parked' <=> k \in parked /\ k \notin dead
    BY <2>1, AuthenticationAssumption
  <2>6. \A k \in DirectRequests : k \in waiting' <=> k \in waiting /\ k \notin dead
    BY <1>2, <2>1, AuthenticationAssumption
  <2> HIDE DEF dead
  <2> QED
    BY <1>0, <2>1, <2>3, <2>4, <2>5, <2>6, LapseKept
<1>3. CASE (HasRoom => r \notin ActionRequests)
  <2>1. PICK now \in {"offered", "closed"} :
          /\ fate' = [k \in Requests |-> IF k = r THEN now
                                         ELSE IF k \in dead THEN "closed" ELSE fate[k]]
          /\ IF now = "offered"
             THEN r \notin ActionRequests /\ waiting' = (waiting \ SweepWaiting) \cup {r}
             ELSE waiting' = waiting \ SweepWaiting
    BY <1>3 DEF Enrol, Record
  <2>2. Return(c) /\ UNCHANGED <<runs, parked>>
    BY <1>3 DEF Enrol
  <2>3. OthersStay(c) /\ local'[c].stage = "local"
    BY <2>2, ReturnMoves
  <2>4. FateOK(fate', pc'[c], local'[c])
    BY <2>3 DEF FateOK
  <2>5. \A k \in ActionRequests :
          k \in parked' <=> IF k = r THEN now = "offered" ELSE k \in parked /\ k \notin dead
    BY <1>0, <2>1, <2>2, AuthenticationAssumption DEF Hist, TablesHoldOffers
  <2>6. \A k \in DirectRequests :
          k \in waiting' <=> IF k = r THEN now = "offered" ELSE k \in waiting /\ k \notin dead
    <3>1. r \notin DirectRequests \/ r \notin waiting
      BY <1>0 DEF Hist, TablesHoldOffers
    <3>2. ASSUME NEW k \in DirectRequests \ {r}
          PROVE  k \in waiting' <=> k \in waiting /\ k \notin dead
      BY <2>1
    <3>3. r \in DirectRequests => (r \in waiting' <=> now = "offered")
      BY <2>1, <3>1
    <3> QED
      BY <3>2, <3>3
  <2>7. \/ fate[r] = "running" /\ now = "offered"
        \/ fate[r] \in {"running", "offered", "claimed"} /\ now = "closed"
    BY <1>0
  <2>8. now \in {"running", "offered", "claimed", "closed"}
    OBVIOUS
  <2> HIDE DEF dead
  <2> QED
    BY <1>0, <2>1, <2>2, <2>3, <2>4, <2>5, <2>6, <2>7, <2>8, MoveKept
<1> QED
  BY <1>2, <1>3

LEMMA ParkKept ==
  ASSUME Typed, Hist, NEW c \in Callers, Park(c)
  PROVE  Kept
<1> DEFINE r == local[c].req
           dead == {}
<1>0. /\ r \in ActionRequests /\ r \in Requests /\ local[c].stage = "attempt"
      /\ Works(local[c], r) /\ fate[r] = "running" /\ dead \in SUBSET Promise!Offers
  <2>1. StageOK("park", local[c]) /\ local[c].stage \in Stages
    BY DEF Park, Typed, TypeOK, Locals
  <2>2. r \in ActionRequests /\ local[c].stage = "attempt"
    BY <2>1 DEF StageOK, Guarding, Stages
  <2> QED
    BY <2>2 DEF Works, Hist, OneWorker, FateOK, Requests
<1>1. PICK now \in {"offered", "closed"} :
        /\ fate' = [k \in Requests |-> IF k = r THEN now
                                       ELSE IF k \in dead THEN "closed" ELSE fate[k]]
        /\ IF now = "offered" THEN parked' = parked \cup {r} /\ Return(c)
           ELSE UNCHANGED parked /\ GotoStage(c, "drop", "cancel")
  BY DEF Park, Record
<1>2. UNCHANGED <<runs, waiting>>
  BY DEF Park
<1>3. OthersStay(c) /\ local'[c].stage \in {"local", "cancel"}
  <2>1. CASE now = "offered"
    BY <1>1, <2>1, ReturnMoves
  <2>2. CASE now # "offered"
    <3> DEFINE l == [local[c] EXCEPT !.stage = "cancel"]
    <3>1. local' = [local EXCEPT ![c] = l] /\ l.stage = "cancel"
      BY <1>1, <2>2 DEF GotoStage, Typed, TypeOK, Locals
    <3> HIDE DEF l
    <3> QED
      BY <1>1, <2>2, <3>1, MoverStays DEF GotoStage, Goto
  <2> QED
    BY <2>1, <2>2
<1>4. FateOK(fate', pc'[c], local'[c])
  BY <1>3 DEF FateOK
<1>5. \A k \in ActionRequests :
        k \in parked' <=> IF k = r THEN now = "offered" ELSE k \in parked /\ k \notin dead
  BY <1>0, <1>1 DEF Hist, TablesHoldOffers
<1>6. \A k \in DirectRequests :
        k \in waiting' <=> IF k = r THEN now = "offered" ELSE k \in waiting /\ k \notin dead
  <2>1. r \notin DirectRequests
    BY <1>0, AuthenticationAssumption
  <2> QED
    BY <1>2, <2>1
<1>7. \/ fate[r] = "running" /\ now = "offered"
      \/ fate[r] \in {"running", "offered", "claimed"} /\ now = "closed"
  BY <1>0
<1>8. now \in {"running", "offered", "claimed", "closed"}
  OBVIOUS
<1> HIDE DEF dead
<1> QED
  BY <1>0, <1>1, <1>2, <1>3, <1>4, <1>5, <1>6, <1>7, <1>8, MoveKept

LEMMA StepKept ==
  ASSUME Typed, Hist, NEW c \in Callers, Step(c)
  PROVE  Kept
<1> USE DEF tables, history
<1>t. UNCHANGED tables => UNCHANGED parked /\ DirectsStay
  BY DEF DirectsStay
<1>f. Finish(c) /\ UNCHANGED tables => Kept
  BY <1>t, FinishKept
\* One of the fields that the history does not see changes.
<1>l. ASSUME NEW label, label \notin {"claim", "admit"}, pc[c] # "drop", NEW l,
             l.req = local[c].req, l.stage = local[c].stage,
             Goto(c, label), local' = [local EXCEPT ![c] = l],
             UNCHANGED <<tables, history>>
      PROVE  Kept
  <2>1. local[c].stage # "cancel"
    BY <1>l DEF Typed, StageOK
  <2>2. FateOK(fate, pc[c], local[c]) => FateOK(fate, label, l)
    BY <1>l DEF FateOK
  <2> QED
    BY <1>l, <1>t, <2>1, <2>2, GoOnKept DEF Goto
<1>g. ASSUME NEW label, label \notin {"claim", "admit"}, pc[c] # "drop",
             Goto(c, label), UNCHANGED <<local, tables, history>>
      PROVE  Kept
  BY <1>g, <1>t, GotoKept
<1>1. CASE GuardResolve(c)
  <2> DEFINE l == [local[c] EXCEPT !.rev = profile[local[c].prof].revision]
  <2>1. l.req = local[c].req /\ l.stage = local[c].stage
    BY DEF Typed, TypeOK, Locals
  <2> QED
    BY <1>1, <1>l, <2>1 DEF GuardResolve
<1>2. CASE GuardLoad(c)
  <2>1. CASE WithoutCredentials(c)
    BY <1>2, <2>1, WithoutCredentialsKept DEF GuardLoad, Guarding
  <2>2. CASE ~WithoutCredentials(c)
    <3> DEFINE l == [local[c] EXCEPT !.row = session[local[c].prof]]
    <3>1. l.req = local[c].req /\ l.stage = local[c].stage
      BY DEF Typed, TypeOK, Locals
    <3>2. PICK label \in {"evict", "verify"} : Goto(c, label)
      BY <1>2, <2>2 DEF GuardLoad
    <3> QED
      BY <1>2, <2>2, <1>l, <3>1, <3>2 DEF GuardLoad
  <2> QED
    BY <2>1, <2>2
<1>3. CASE GuardVerify(c)
  <2>1. CASE Finish(c)
    BY <1>3, <2>1, <1>f DEF GuardVerify
  <2>2. CASE ~Finish(c)
    <3>1. PICK label \in {"status", "body", "evict"} : Goto(c, label)
      BY <1>3, <2>2 DEF GuardVerify
    <3> QED
      BY <1>3, <2>2, <3>1, <1>g DEF GuardVerify
  <2> QED
    BY <2>1, <2>2
<1>4. CASE GuardEvict(c)
  BY <1>4, WithoutCredentialsKept DEF GuardEvict, Guarding
<1>5. CASE Discard(c)
  <2> DEFINE dead == SweepWaiting \cap DirectRequests
  <2>1. /\ dead \in SUBSET Promise!Offers
        /\ fate' = [k \in Requests |-> IF k \in dead THEN "closed" ELSE fate[k]]
        /\ waiting' = waiting \ SweepWaiting /\ UNCHANGED <<runs, parked, local>>
    BY <1>5, DeadAreOffers DEF Discard, Lapse
  <2>2. OthersStay(c) /\ pc'[c] = "status" /\ local'[c] = local[c]
    <3>1. local' = [local EXCEPT ![c] = local[c]]
      BY <2>1 DEF Typed, TypeOK
    <3> QED
      BY <1>5, <3>1, MoverStays DEF Discard, Goto
  <2>3. /\ local[c].stage \in {"attempt", "direct"} /\ local[c].req \in Requests
        /\ fate[local[c].req] = "running"
    <3>1. StageOK("discard", local[c]) /\ local[c].stage \in Stages
      BY <1>5 DEF Discard, Typed, TypeOK, Locals
    <3>2. local[c].stage \in {"attempt", "direct"} /\ local[c].req \in Requests
      BY <3>1 DEF StageOK, Guarding, Stages, Requests
    <3> QED
      BY <3>2 DEF Hist, OneWorker, FateOK
  <2>4. FateOK(fate', pc'[c], local'[c])
    BY <2>1, <2>2, <2>3 DEF FateOK, Promise!Offers
  <2>5. \A k \in ActionRequests : k \in parked' <=> k \in parked /\ k \notin dead
    BY <2>1, AuthenticationAssumption
  <2>6. \A k \in DirectRequests : k \in waiting' <=> k \in waiting /\ k \notin dead
    BY <2>1
  <2> HIDE DEF dead
  <2> QED
    BY <2>1, <2>2, <2>3, <2>4, <2>5, <2>6, LapseKept
<1>6. CASE Status(c)
  <2>1. CASE \E reusable \in BOOLEAN : AfterStatus(c, reusable)
    BY <1>6, <2>1, AfterStatusKept DEF Status
  <2>2. CASE Goto(c, "statusEvict") /\ UNCHANGED <<lock, local, history>>
    BY <1>6, <2>2, <1>g DEF Status
  <2> QED
    BY <1>6, <2>1, <2>2 DEF Status
<1>7. CASE StatusEvict(c)
  BY <1>7, AfterStatusKept DEF StatusEvict
<1>8. CASE Enrol(c)
  BY <1>8, EnrolKept
<1>9. CASE Park(c)
  BY <1>9, ParkKept
<1>10. CASE DropChallenge(c)
  <2>1. local[c].req \in ActionRequests
    <3>1. StageOK("drop", local[c]) /\ local[c].stage \in Stages
      BY <1>10 DEF DropChallenge, Typed, TypeOK, Locals
    <3> QED
      BY <3>1 DEF StageOK, Guarding, Stages
  <2> QED
    BY <1>10, <2>1, FinishKept, AuthenticationAssumption
    DEF DropChallenge, Forget, DirectsStay
<1>11. CASE ClaimForAction(c)
  <2>1. local[c].req \in ActionRequests
    <3>1. StageOK("claim", local[c]) /\ local[c].stage \in Stages
      BY <1>11 DEF ClaimForAction, Typed, TypeOK, Locals
    <3> QED
      BY <3>1 DEF StageOK, Guarding, Stages
  <2>2. UNCHANGED parked /\ DirectsStay
    BY <1>11, <2>1, AuthenticationAssumption DEF ClaimForAction, DirectsStay
  <2>3. CASE Finish(c)
    BY <2>2, <2>3, FinishKept
  <2>4. CASE Goto(c, "admit") /\ UNCHANGED <<lock, local, history>>
    BY <1>11, <2>2, <2>4, GotoKept DEF ClaimForAction
  <2> QED
    BY <1>11, <2>3, <2>4 DEF ClaimForAction
<1>12. CASE Admit(c)
  <2>1. CASE Finish(c)
    BY <1>12, <2>1, <1>f DEF Admit
  <2>2. CASE ~Finish(c) /\ local[c].req \notin DirectRequests
    BY <1>12, <2>2, <1>g DEF Admit
  <2>3. CASE ~Finish(c) /\ local[c].req \in DirectRequests
    <3>1. /\ local[c].stage = "refresh" /\ local[c].req \in Requests
          /\ fate[local[c].req] = "claimed"
      <4>1. StageOK("admit", local[c]) /\ local[c].stage \in Stages
        BY <1>12 DEF Admit, Typed, TypeOK, Locals
      <4>2. local[c].stage = "refresh"
        BY <4>1 DEF StageOK, Guarding, Stages
      <4> QED
        BY <1>12, <2>3, <4>2 DEF Admit, Hist, OneWorker, FateOK, Requests
    <3>2. Deliver(c) /\ Goto(c, "acquire") /\ UNCHANGED <<local, parked, waiting>>
      BY <1>12, <2>3 DEF Admit
    <3>3. local' = [local EXCEPT ![c] = local[c]]
      BY <3>2 DEF Typed, TypeOK
    <3>4. OthersStay(c) /\ pc'[c] = "acquire" /\ local'[c] = local[c]
      BY <3>2, <3>3, MoverStays DEF Goto
    <3>5. FateOK([fate EXCEPT ![local[c].req] = "delivered"], pc'[c], local'[c])
      BY <2>3, <3>1, <3>4 DEF FateOK, Hist, Counted
    <3>6. Works(local[c], local[c].req)
      BY <3>1 DEF Works
    <3> QED
      BY <3>1, <3>2, <3>4, <3>5, <3>6, DeliverKept
  <2> QED
    BY <2>1, <2>2, <2>3
<1>13. CASE Acquire(c)
  BY <1>13, <1>g DEF Acquire
<1>14. CASE Precheck(c)
  <2>1. CASE Finish(c)
    BY <1>14, <2>1, <1>f DEF Precheck
  <2>2. CASE ~Finish(c)
    <3> DEFINE l == [local[c] EXCEPT !.base = profile[local[c].prof].revision]
    <3>1. l.req = local[c].req /\ l.stage = local[c].stage
      BY DEF Typed, TypeOK, Locals
    <3> QED
      BY <1>14, <2>2, <1>l, <3>1 DEF Precheck
  <2> QED
    BY <2>1, <2>2
<1>15. CASE IssueToken(c)
  <2>1. CASE Finish(c)
    BY <1>15, <2>1, <1>f DEF IssueToken
  <2>2. CASE ~Finish(c)
    <3> DEFINE l == [local[c] EXCEPT !.row =
                      [serial |-> issued + 1, revision |-> local[c].base,
                       until |-> SessionUntil]]
    <3>1. l.req = local[c].req /\ l.stage = local[c].stage
      BY DEF Typed, TypeOK, Locals
    <3>2. Goto(c, "put") /\ local' = [local EXCEPT ![c] = l] /\ UNCHANGED <<tables, history>>
      BY <1>15, <2>2 DEF IssueToken
    <3> HIDE DEF l
    <3> QED
      BY <1>15, <1>l, <3>1, <3>2 DEF IssueToken
  <2> QED
    BY <2>1, <2>2
<1>16. CASE PutSession(c)
  BY <1>16, <1>g DEF PutSession
<1>17. CASE Publish(c)
  BY <1>17, <1>g DEF Publish
<1>18. CASE WithdrawSession(c)
  BY <1>18, <1>f DEF WithdrawSession
<1>19. CASE UpdateEvict(c)
  BY <1>19, <1>f DEF UpdateEvict
<1>20. CASE Body(c)
  BY <1>20, <1>f DEF Body
<1> QED
  BY <1>1, <1>2, <1>3, <1>4, <1>5, <1>6, <1>7, <1>8, <1>9, <1>10, <1>11, <1>12,
     <1>13, <1>14, <1>15, <1>16, <1>17, <1>18, <1>19, <1>20 DEF Step

LEMMA InitKept == Init => Hist /\ Promise!Init
<1> SUFFICES ASSUME Init PROVE Hist /\ Promise!Init
  OBVIOUS
<1>1. Promise!Init
  BY DEF Init, Promise!Init
<1>2. TablesHoldOffers
  BY DEF Init, TablesHoldOffers, Requests
<1>3. \A c \in Callers : local[c].stage = "local"
  BY DEF Init, Blank
<1>4. OneWorker
  BY <1>3 DEF OneWorker, FateOK, Works
<1>5. Counted
  BY DEF Init, Counted, Promise!Fates
<1> QED
  BY <1>1, <1>2, <1>4, <1>5 DEF Hist

LEMMA NextKept == Typed /\ Hist /\ [Next]_vars => Kept
<1> SUFFICES ASSUME Typed, Hist, [Next]_vars PROVE Kept
  OBVIOUS
<1>1. CASE UNCHANGED <<parked, waiting, pc, local, fate, runs>>
  BY <1>1 DEF Kept, Hist, TablesHoldOffers, OneWorker, Counted
<1>2. Tick \/ UNCHANGED vars => UNCHANGED <<parked, waiting, pc, local, fate, runs>>
  BY DEF Tick, vars, tables, history
<1> QED
  BY <1>1, <1>2, EnterKept, StepKept DEF Next

\* Authentication implements OneShot: no schedule of threads, sweeps, expiries
\* and cancellations makes a coordinator offer, claim or deliver a request twice
\* (AuthenticatedOperationCoordinator: "Resume an action exactly once").
THEOREM ImplementsOneShot == Spec => ResumesOnce
<1>1. Typed /\ Hist /\ [Next]_vars => [Promise!Next]_<<fate, runs>>
  BY NextKept DEF Kept
<1>2. Typed /\ Hist /\ [Next]_vars => Hist'
  BY NextKept DEF Kept
<1> QED
  BY <1>1, <1>2, InitType, NextType, InitKept, PTL DEF Spec, ResumesOnce, Promise!Spec

\* In numbers: what a request waited for runs once if it is delivered, and never
\* if it was cancelled, refused or expired.
THEOREM RunsAtMostOnce == Spec => []Promise!AtMostOnce
<1>1. Typed /\ Hist /\ [Next]_vars => Hist'
  BY NextKept DEF Kept
<1>2. Hist => Promise!AtMostOnce
  BY DEF Hist, Counted, Promise!AtMostOnce
<1> QED
  BY <1>1, <1>2, InitType, NextType, InitKept, PTL DEF Spec
-----------------------------------------------------------------------------
(* The two halves of a dialog: the parked action and its waiting challenge *)

\* What became of a request that is in nobody's table any more.
Over == {"claimed", "delivered", "closed"}

InHands(c, r) == local[c].req = r /\ pc[c] \in {"park", "drop", "claim"}

\* A parked action has its challenge, and so has one that is about to be parked; ...
Answerable ==
  /\ \A r \in parked : Expired(r) \/ r \in waiting
  /\ \A c \in Callers : pc[c] = "park" => Expired(local[c].req) \/ local[c].req \in waiting

\* ... a challenge has its action, or a caller who is at work on the pair; ...
Owned ==
  \A r \in waiting \cap ActionRequests :
    r \in parked \/ Expired(r) \/ \E c \in Callers : InHands(c, r)

\* ... a challenge is dropped only when its action is gone for good; ...
Dropped == \A c \in Callers : pc[c] = "drop" => fate[local[c].req] \in Over

\* ... and both tables keep their bound.
Within(table) == IsFiniteSet(table) /\ Cardinality(table) <= MaxPending

Dialogs == Answerable /\ Owned /\ Dropped /\ Within(parked) /\ Within(waiting)

\* A dialog that can be answered leaves a table by a call for it.
Keeps ==
  \A r \in (parked \ parked') \cup (waiting \ waiting') :
    Expired(r) \/ \E c \in Callers : WorksOn(c, r)

LEMMA SubsetWithin ==
  ASSUME NEW S, NEW T, Within(S), T \subseteq S
  PROVE  Within(T)
<1>1. IsFiniteSet(T) /\ Cardinality(T) <= Cardinality(S)
  BY FS_Subset DEF Within
<1>2. Cardinality(T) \in Nat /\ Cardinality(S) \in Nat
  BY <1>1, FS_CardinalityType DEF Within
<1> QED
  BY <1>1, <1>2, AuthenticationAssumption DEF Within

LEMMA OneMoreWithin ==
  ASSUME NEW S, NEW x, Within(S), Cardinality(S) < MaxPending
  PROVE  Within(S \cup {x})
<1>1. /\ IsFiniteSet(S \cup {x}) /\ Cardinality(S) \in Nat
      /\ Cardinality(S \cup {x}) \in {Cardinality(S), Cardinality(S) + 1}
  BY FS_AddElement, FS_CardinalityType DEF Within
<1> QED
  BY <1>1, AuthenticationAssumption DEF Within

\* A request that is over stays over.
LEMMA OverStays ==
  ASSUME Kept, NEW r \in Requests, fate[r] \in Over
  PROVE  fate'[r] \in Over
<1>1. CASE \E k \in Requests : Promise!Deliver(k)
  BY <1>1 DEF Promise!Deliver, Over, Kept, Hist, Counted, Promise!Fates
<1>2. CASE \E k \in Requests : \E from, to : Promise!Move(k, from, to) /\ to \in Over
  BY <1>2 DEF Promise!Move, Promise!Offers, Over
<1>3. CASE \E k \in Requests : Promise!Start(k) \/ Promise!Offer(k)
  BY <1>3 DEF Promise!Start, Promise!Offer, Promise!Move, Promise!Offers, Over
<1>4. CASE \E k \in Requests : Promise!Claim(k) \/ Promise!Close(k)
  BY <1>2, <1>4 DEF Promise!Claim, Promise!Close, Over
<1>5. CASE Promise!Lapse
  BY <1>5 DEF Promise!Lapse, Promise!Offers, Over
<1> QED
  BY <1>1, <1>3, <1>4, <1>5 DEF Kept, Promise!Next

\* Who parks has a running attempt; who claims holds a claimed one.
LEMMA HandsOf ==
  ASSUME Typed, Hist, NEW c \in Callers
  PROVE  /\ pc[c] \in {"park", "drop", "claim"} => local[c].req \in ActionRequests
         /\ pc[c] = "park" => Works(local[c], local[c].req) /\ fate[local[c].req] = "running"
         /\ pc[c] = "claim" => fate[local[c].req] = "claimed"
<1>1. StageOK(pc[c], local[c]) /\ local[c].stage \in Stages /\ FateOK(fate, pc[c], local[c])
  BY DEF Typed, TypeOK, Locals, Hist, OneWorker
<1>2. CASE pc[c] = "park"
  <2>1. local[c].stage = "attempt" /\ local[c].req \in ActionRequests
    BY <1>1, <1>2 DEF StageOK, Guarding, Stages
  <2> QED
    BY <1>1, <1>2, <2>1 DEF Works, FateOK
<1>3. CASE pc[c] = "claim"
  <2>1. local[c].stage = "refresh" /\ local[c].req \in ActionRequests
    BY <1>1, <1>3 DEF StageOK, Guarding, Stages
  <2> QED
    BY <1>1, <1>3, <2>1 DEF FateOK
<1>4. CASE pc[c] = "drop"
  BY <1>1, <1>4 DEF StageOK, Guarding, Stages
<1> QED
  BY <1>2, <1>3, <1>4

\* What a caller's step does to the tables when it adds no challenge.
Clears(c) ==
  /\ OthersStay(c) /\ UNCHANGED <<clock, deadline>>
  /\ waiting' \subseteq waiting /\ Within(parked')
  /\ \A r \in waiting \ waiting' :
       Expired(r) \/ (WorksOn(c, r) /\ (fate[r] \in Over \/ r \in DirectRequests))
  /\ \A r \in parked' \ parked : pc[c] = "park" /\ r = local[c].req
  /\ \A r \in parked \ parked' : Expired(r) \/ WorksOn(c, r)
  /\ \A r \in waiting' \cap ActionRequests :
       r \in parked \/ InHands(c, r) =>
         r \in parked' \/ Expired(r) \/ (local'[c].req = r /\ pc'[c] \in {"park", "drop", "claim"})
  /\ pc'[c] # "park"
  /\ pc'[c] = "drop" => fate'[local'[c].req] \in Over
LEMMA ClearsDialogs ==
  ASSUME Typed, Hist, Kept, Dialogs, NEW c \in Callers, Clears(c)
  PROVE  Dialogs' /\ Keeps
<1>t. /\ parked \subseteq ActionRequests /\ waiting \subseteq Requests
      /\ ActionRequests \subseteq Requests /\ ActionRequests \cap DirectRequests = {}
      /\ \A r \in Requests : Expired(r)' <=> Expired(r)
  BY AuthenticationAssumption DEF Typed, TypeOK, Requests, Clears, Expired
<1>1. Answerable'
  <2>1. ASSUME NEW r \in parked' PROVE Expired(r)' \/ r \in waiting'
    <3>1. CASE r \in parked
      <4>1. fate[r] = "offered" /\ r \notin DirectRequests /\ r \in Requests
        BY <1>t, <3>1 DEF Hist, TablesHoldOffers
      <4>2. Expired(r) \/ r \in waiting
        BY <3>1 DEF Dialogs, Answerable
      <4> QED
        BY <1>t, <4>1, <4>2 DEF Clears, Over
    <3>2. CASE r \notin parked
      <4>1. pc[c] = "park" /\ r = local[c].req
        BY <3>2, <2>1 DEF Clears
      <4>2. r \in ActionRequests /\ fate[r] = "running"
        BY <4>1, HandsOf
      <4>3. Expired(r) \/ r \in waiting
        BY <4>1 DEF Dialogs, Answerable
      <4> QED
        BY <1>t, <4>2, <4>3 DEF Clears, Over
    <3> QED
      BY <3>1, <3>2
  <2>2. ASSUME NEW d \in Callers, pc'[d] = "park"
        PROVE  Expired(local[d].req)' \/ local'[d].req \in waiting'
    <3>1. d # c /\ pc[d] = "park" /\ local'[d] = local[d]
      BY <2>2 DEF Clears, OthersStay
    <3>2. local[d].req \in ActionRequests /\ fate[local[d].req] = "running"
      BY <3>1, HandsOf
    <3>3. PICK r \in ActionRequests : r = local[d].req /\ r = local'[d].req
      BY <3>1, <3>2
    <3>4. Expired(r) \/ r \in waiting
      BY <3>1, <3>3 DEF Dialogs, Answerable
    <3>5. Expired(r)' \/ r \in waiting'
      BY <1>t, <3>2, <3>3, <3>4 DEF Clears, Over
    <3> QED
      BY <3>3, <3>5 DEF Expired
  <2> QED
    BY <2>1, <2>2 DEF Answerable
<1>2. Owned'
  <2> SUFFICES ASSUME NEW r \in ActionRequests, r \in waiting'
               PROVE  r \in parked' \/ Expired(r)' \/ \E d \in Callers : InHands(d, r)'
    BY DEF Owned
  <2>1. CASE r \in parked \/ InHands(c, r)
    BY <1>t, <2>1 DEF Clears, InHands
  <2>2. CASE Expired(r)
    BY <1>t, <2>2
  <2>3. ASSUME NEW d \in Callers \ {c}, InHands(d, r)
        PROVE  InHands(d, r)'
    BY <2>3 DEF Clears, OthersStay, InHands
  <2> QED
    BY <2>1, <2>2, <2>3 DEF Dialogs, Owned, Clears
<1>3. Dropped'
  <2> SUFFICES ASSUME NEW d \in Callers, pc'[d] = "drop" PROVE fate'[local'[d].req] \in Over
    BY DEF Dropped
  <2>1. CASE d = c
    BY <2>1 DEF Clears
  <2>2. CASE d # c
    <3>1. pc[d] = "drop" /\ local'[d] = local[d]
      BY <2>2 DEF Clears, OthersStay
    <3>2. local[d].req \in Requests /\ fate[local[d].req] \in Over
      BY <1>t, <3>1, HandsOf DEF Dialogs, Dropped
    <3> QED
      BY <3>1, <3>2, OverStays
  <2> QED
    BY <2>1, <2>2
<1>4. Within(waiting')
  BY SubsetWithin DEF Clears, Dialogs
<1>5. Keeps
  BY DEF Keeps, Clears
<1> QED
  BY <1>1, <1>2, <1>3, <1>4, <1>5 DEF Dialogs, Clears, Within
LEMMA EnterClears ==
  ASSUME Typed, Hist, Dialogs, NEW c \in Callers, Enter(c)
  PROVE  Clears(c)
<1>t. /\ parked \subseteq ActionRequests /\ waiting \subseteq Requests
      /\ ActionRequests \cap DirectRequests = {}
      /\ \A r \in ActionRequests : r \in parked <=> fate[r] = "offered"
  BY AuthenticationAssumption DEF Typed, TypeOK, Hist, TablesHoldOffers
<1> USE DEF tables
\* Apart from what is overdue, an entering call takes the request it comes for.
<1>c. ASSUME NEW label, label \notin {"idle", "park"}, NEW r, NEW p, NEW stage, NEW code,
             Call(c, label, r, p, stage, code),
             UNCHANGED <<clock, deadline>>, waiting' \subseteq waiting, parked' \subseteq parked,
             \A k \in waiting \ waiting' : Expired(k) \/ (k = r /\ k \in DirectRequests),
             \A k \in parked \ parked' : Expired(k) \/ (k = r /\ label \in {"claim", "drop"}),
             label = "drop" => fate'[r] \in Over
      PROVE  Clears(c)
  <2>1. OthersStay(c) /\ pc[c] = "idle" /\ pc'[c] = label /\ local'[c].req = r
    BY <1>c, CallMoves DEF Call
  <2>2. Within(parked')
    BY <1>c, SubsetWithin DEF Dialogs
  <2>3. WorksOn(c, r)
    BY <1>c, <2>1 DEF WorksOn
  <2>4. ~\E k : InHands(c, k)
    BY <2>1 DEF InHands
  <2>5. \A k \in waiting \ waiting' :
          Expired(k) \/ (WorksOn(c, k) /\ (fate[k] \in Over \/ k \in DirectRequests))
    BY <1>c, <2>3
  <2>6. \A k \in parked \ parked' : Expired(k) \/ WorksOn(c, k)
    BY <1>c, <2>3
  <2>7. \A k \in waiting' \cap ActionRequests :
          k \in parked \/ InHands(c, k) =>
            k \in parked' \/ Expired(k) \/ (local'[c].req = k /\ pc'[c] \in {"park", "drop", "claim"})
    BY <1>c, <2>1, <2>4
  <2> QED
    BY <1>c, <2>1, <2>2, <2>5, <2>6, <2>7 DEF Clears
<1>1. ASSUME NEW r \in ActionRequests, NEW p \in Profiles, StartLong(c, r, p)
      PROVE  Clears(c)
  BY <1>1, <1>c DEF StartLong, Sweep, Overdue
<1>2. ASSUME NEW r \in DirectRequests, NEW p \in Profiles, NEW discard \in BOOLEAN,
             StartRefresh(c, r, p, discard)
      PROVE  Clears(c)
  BY <1>2, <1>c DEF StartRefresh, SweepWaiting
<1>3. ASSUME NEW r \in ActionRequests, NEW code \in Codes, Resume(c, r, code)
      PROVE  Clears(c)
  <2>1. CASE r \in parked /\ ~Expired(r)
    BY <1>3, <1>c, <2>1 DEF Resume, Sweep, Overdue
  <2>2. CASE r \in parked /\ Expired(r)
    <3>1. r \in Requests /\ fate'[r] = "closed"
      BY <1>3, <2>2 DEF Resume, Record, Requests
    <3> QED
      BY <1>3, <1>c, <2>2, <3>1 DEF Resume, Sweep, Overdue, Over
  <2>3. CASE r \notin parked
    <3>1. /\ parked' = parked \ (Overdue(r) \cup {}) /\ waiting' = waiting \ Overdue(r)
          /\ UNCHANGED <<clock, deadline, pc, local>> /\ pc[c] = "idle"
      BY <1>3, <2>3 DEF Resume, Sweep
    <3>2. \A k \in Overdue(r) : Expired(k)
      BY DEF Overdue
    <3>3. Within(parked')
      BY <3>1, SubsetWithin DEF Dialogs
    <3> QED
      BY <3>1, <3>2, <3>3 DEF Clears, OthersStay, InHands
  <2> QED
    BY <2>1, <2>2, <2>3
<1>4. ASSUME NEW r \in DirectRequests, NEW code \in Codes, ResumeDirect(c, r, code)
      PROVE  Clears(c)
  BY <1>4, <1>c DEF ResumeDirect
<1>5. ASSUME NEW r \in ActionRequests, Cancel(c, r)
      PROVE  Clears(c)
  <2>1. r \in Requests /\ fate[r] \in Promise!Fates
    BY DEF Requests, Hist, Counted
  <2>2. fate'[r] \in Over
    BY <1>t, <1>5, <2>1 DEF Cancel, Record, Known, Promise!Fates, Over
  <2> QED
    BY <1>5, <1>c, <2>2 DEF Cancel
<1>6. ASSUME NEW p \in Profiles, ShowStatus(c, p)
      PROVE  Clears(c)
  BY <1>6, <1>c DEF ShowStatus
<1>7. ASSUME NEW p \in Profiles, NEW mfa \in BOOLEAN, UpdateProfile(c, p, mfa)
      PROVE  Clears(c)
  BY <1>7, <1>c DEF UpdateProfile
<1> QED
  BY <1>1, <1>2, <1>3, <1>4, <1>5, <1>6, <1>7 DEF Enter
\* A caller goes on without touching a table.
LEMMA QuietClears ==
  ASSUME Dialogs, NEW c \in Callers, OthersStay(c), UNCHANGED <<clock, tables>>,
         pc[c] \notin {"park", "drop", "claim"}, pc'[c] \notin {"park", "drop"}
  PROVE  Clears(c)
  BY DEF Dialogs, Clears, tables, InHands, Within

LEMMA StepClears ==
  ASSUME Typed, Hist, Dialogs, NEW c \in Callers, Step(c), ~Enrol(c)
  PROVE  Clears(c)
<1> USE DEF tables
<1>t. pc \in [Callers -> Labels] /\ local \in [Callers -> Locals]
  BY DEF Typed, TypeOK
<1>f. Finish(c) => OthersStay(c) /\ pc'[c] = "idle" /\ local'[c].req = Nobody
  BY <1>t DEF Finish, Return, Goto, OthersStay, Blank
\* Where the tables are not in play, and the call does not end, ...
<1>g. ASSUME NEW label, Goto(c, label), UNCHANGED local
      PROVE  OthersStay(c) /\ pc'[c] = label
  BY <1>t, <1>g DEF Goto, OthersStay
\* ... or writes one of its variables.
<1>l. ASSUME NEW label, Goto(c, label), NEW l, local' = [local EXCEPT ![c] = l]
      PROVE  OthersStay(c) /\ pc'[c] = label /\ local'[c] = l
  BY <1>l, MoverStays DEF Goto
<1>1. CASE Discard(c)
  <2>1. OthersStay(c) /\ pc'[c] = "status" /\ pc[c] = "discard"
    BY <1>1, <1>g DEF Discard
  <2>2. \A k \in waiting \ waiting' : Expired(k)
    BY <1>1 DEF Discard, SweepWaiting
  <2> QED
    BY <1>1, <2>1, <2>2 DEF Discard, Dialogs, Clears, InHands, Within
<1>2. CASE DropChallenge(c)
  <2>1. OthersStay(c) /\ pc'[c] = "idle" /\ pc[c] = "drop"
    BY <1>2, <1>f DEF DropChallenge
  <2>2. fate[local[c].req] \in Over /\ WorksOn(c, local[c].req)
    BY <2>1 DEF Dialogs, Dropped, WorksOn
  <2> QED
    BY <1>2, <2>1, <2>2 DEF DropChallenge, Forget, Dialogs, Clears, InHands, Within
<1>3. CASE ClaimForAction(c)
  <2>1. OthersStay(c) /\ pc'[c] \in {"idle", "admit"} /\ pc[c] = "claim"
    BY <1>3, <1>f, <1>g DEF ClaimForAction
  <2>2. fate[local[c].req] \in Over /\ WorksOn(c, local[c].req)
    BY <2>1, HandsOf DEF Over, WorksOn
  <2> QED
    BY <1>3, <2>1, <2>2 DEF ClaimForAction, Dialogs, Clears, InHands, Within
<1>4. CASE Park(c)
  <2> DEFINE r == local[c].req
  <2>1. r \in Requests /\ pc[c] = "park" /\ fate[r] = "running"
    BY <1>4, HandsOf DEF Park, Requests
  <2>2. CASE parked' = parked \cup {r} /\ Cardinality(parked) < MaxPending /\ Return(c)
    <3>1. OthersStay(c) /\ pc'[c] = "idle"
      BY <1>t, <2>2 DEF Return, Goto, OthersStay
    <3>2. Within(parked \cup {r})
      BY <2>2, OneMoreWithin DEF Dialogs
    <3> QED
      BY <1>4, <2>1, <2>2, <3>1, <3>2 DEF Park, Clears, InHands
  <2>3. CASE GotoStage(c, "drop", "cancel") /\ UNCHANGED parked /\ Record({}, r, "closed")
    <3> DEFINE l == [local[c] EXCEPT !.stage = "cancel"]
    <3>1. l.req = r
      BY <1>t DEF Locals
    <3>2. Goto(c, "drop") /\ local' = [local EXCEPT ![c] = l]
      BY <2>3 DEF GotoStage
    <3> HIDE DEF l
    <3>3. OthersStay(c) /\ pc'[c] = "drop" /\ local'[c].req = r
      BY <1>l, <3>1, <3>2
    <3>4. fate'[r] \in Over
      BY <2>1, <2>3 DEF Record, Over
    <3> QED
      BY <1>4, <2>1, <2>3, <3>3, <3>4 DEF Park, Clears, Dialogs, InHands, Within
  <2> QED
    BY <1>4, <2>2, <2>3 DEF Park
<1>a. ASSUME NEW reusable, AfterStatus(c, reusable)
      PROVE  OthersStay(c) /\ pc'[c] \notin {"park", "drop"}
  <2>1. OthersStay(c)
    BY <1>a, AfterCurrent DEF Moves
  <2>2. (\E label \in {"resolve", "enrol", "acquire"} : Goto(c, label)) \/ Finish(c)
    BY <1>a DEF AfterStatus, GotoStage
  <2>3. pc'[c] \notin {"park", "drop"}
    BY <1>t, <1>f, <2>2 DEF Goto
  <2> QED
    BY <2>1, <2>3
<1>w. WithoutCredentials(c) => OthersStay(c) /\ pc'[c] \notin {"park", "drop"}
  BY <1>f, <1>g DEF WithoutCredentials
<1>5. CASE GuardResolve(c) \/ GuardLoad(c) \/ GuardVerify(c) \/ GuardEvict(c)
  <2>1. OthersStay(c) /\ pc'[c] \notin {"park", "drop"}
    BY <1>5, <1>t, <1>f, <1>w
    DEF GuardResolve, GuardLoad, GuardVerify, GuardEvict, Goto, OthersStay
  <2> QED
    BY <1>5, <2>1, QuietClears DEF GuardResolve, GuardLoad, GuardVerify, GuardEvict
<1>6. CASE Status(c) \/ StatusEvict(c)
  <2>1. OthersStay(c) /\ pc'[c] \notin {"park", "drop"}
    <3>1. CASE \E reusable \in BOOLEAN : AfterStatus(c, reusable)
      BY <3>1, <1>a
    <3>2. CASE Goto(c, "statusEvict") /\ UNCHANGED local
      BY <3>2, <1>g
    <3> QED
      BY <1>6, <3>1, <3>2 DEF Status, StatusEvict
  <2> QED
    BY <1>6, <2>1, QuietClears DEF Status, StatusEvict
<1>7. CASE Admit(c) \/ Acquire(c) \/ Precheck(c) \/ IssueToken(c)
  <2>1. OthersStay(c) /\ pc'[c] \notin {"park", "drop"}
    BY <1>7, <1>t, <1>f DEF Admit, Acquire, Precheck, IssueToken, Goto, OthersStay
  <2> QED
    BY <1>7, <2>1, QuietClears DEF Admit, Acquire, Precheck, IssueToken
<1>8. CASE PutSession(c) \/ Publish(c)
  <2>1. OthersStay(c) /\ pc'[c] \notin {"park", "drop"}
    BY <1>8, <1>g DEF PutSession, Publish
  <2> QED
    BY <1>8, <2>1, QuietClears DEF PutSession, Publish
<1>9. CASE WithdrawSession(c) \/ UpdateEvict(c) \/ Body(c)
  BY <1>9, <1>f, QuietClears DEF WithdrawSession, UpdateEvict, Body
<1> QED
  BY <1>1, <1>2, <1>3, <1>4, <1>5, <1>6, <1>7, <1>8, <1>9 DEF Step
LEMMA EnrolDialogs ==
  ASSUME Typed, Hist, Kept, Dialogs, NEW c \in Callers, Enrol(c)
  PROVE  Dialogs' /\ Keeps
<1> DEFINE r == local[c].req
<1>t. /\ parked \subseteq ActionRequests /\ waiting \subseteq Requests
      /\ ActionRequests \subseteq Requests /\ ActionRequests \cap DirectRequests = {}
      /\ pc \in [Callers -> Labels] /\ local \in [Callers -> Locals]
      /\ deadline \in [Requests -> Nat] /\ clock \in Nat
  BY AuthenticationAssumption DEF Typed, TypeOK, Requests
<1>0. r \in Requests /\ fate[r] = "running" /\ Works(local[c], r) /\ pc[c] = "enrol"
  <2>1. StageOK("enrol", local[c]) /\ local[c].stage \in Stages /\ FateOK(fate, pc[c], local[c])
    BY DEF Enrol, Typed, TypeOK, Locals, Hist, OneWorker
  <2>2. r \in Requests /\ local[c].stage \in {"attempt", "direct"}
    BY <2>1 DEF StageOK, Guarding, Stages, Requests
  <2> QED
    BY <2>1, <2>2 DEF Works, FateOK, Enrol
<1>1. CASE ~HasRoom
  <2>1. OthersStay(c) /\ pc'[c] = "idle"
    BY <1>1, <1>t DEF Enrol, Return, Goto, OthersStay
  <2>2. \A k \in waiting \ waiting' : Expired(k)
    BY <1>1 DEF Enrol, SweepWaiting
  <2>3. Clears(c)
    BY <1>0, <1>1, <2>1, <2>2 DEF Enrol, Clears, Dialogs, Within, InHands
  <2> QED
    BY <2>3, ClearsDialogs
<1>2. CASE HasRoom
  <2>1. /\ waiting' = (waiting \ SweepWaiting) \cup {r} /\ UNCHANGED <<clock, parked>>
        /\ deadline' = [deadline EXCEPT ![r] = clock + ChallengeLife]
    BY <1>2 DEF Enrol
  <2>2. /\ OthersStay(c) /\ pc'[c] \in {"idle", "park"}
        /\ pc'[c] = "park" => r \in ActionRequests /\ local'[c] = local[c]
        /\ r \in ActionRequests => pc'[c] = "park"
    BY <1>2, <1>t DEF Enrol, Return, Goto, OthersStay
  <2>3. \A k \in Requests \ {r} : Expired(k)' <=> Expired(k)
    BY <1>t, <2>1 DEF Expired
  <2>4. r \notin parked
    BY <1>0, <1>t DEF Hist, TablesHoldOffers
  <2>5. Answerable'
    <3>1. ASSUME NEW k \in parked' PROVE Expired(k)' \/ k \in waiting'
      <4>1. k \in parked /\ k # r /\ k \in Requests
        BY <1>t, <2>1, <2>4
      <4> QED
        BY <2>1, <2>3, <4>1 DEF Dialogs, Answerable, SweepWaiting
    <3>2. ASSUME NEW d \in Callers, pc'[d] = "park"
          PROVE  Expired(local[d].req)' \/ local'[d].req \in waiting'
      <4>1. CASE d = c
        BY <2>1, <2>2, <3>2, <4>1
      <4>2. CASE d # c
        <5>1. pc[d] = "park" /\ local'[d] = local[d]
          BY <2>2, <3>2, <4>2 DEF OthersStay
        <5>2. local[d].req \in ActionRequests /\ Works(local[d], local[d].req)
          BY <5>1, HandsOf
        <5>3. PICK k \in Requests : k = local[d].req /\ k = local'[d].req
          BY <1>t, <5>1, <5>2
        <5>4. k # r
          BY <1>0, <4>2, <5>2, <5>3, NoOtherWorker DEF Hist
        <5>5. Expired(k) \/ k \in waiting
          BY <5>1, <5>3 DEF Dialogs, Answerable
        <5>6. Expired(k)' \/ k \in waiting'
          BY <2>1, <2>3, <5>4, <5>5 DEF SweepWaiting
        <5> QED
          BY <5>3, <5>6 DEF Expired
      <4> QED
        BY <4>1, <4>2
    <3> QED
      BY <3>1, <3>2 DEF Answerable
  <2>6. Owned'
    <3> SUFFICES ASSUME NEW k \in ActionRequests, k \in waiting'
                 PROVE  k \in parked' \/ Expired(k)' \/ \E d \in Callers : InHands(d, k)'
      BY DEF Owned
    <3>1. CASE k = r
      BY <2>2, <3>1 DEF InHands
    <3>2. CASE k # r
      <4>1. k \in waiting /\ k \in Requests
        BY <1>t, <2>1, <3>2
      <4>2. ASSUME NEW d \in Callers, InHands(d, k) PROVE InHands(d, k)'
        BY <1>0, <2>2, <4>2 DEF InHands, OthersStay
      <4> QED
        BY <2>1, <2>3, <3>2, <4>1, <4>2 DEF Dialogs, Owned
    <3> QED
      BY <3>1, <3>2
  <2>7. Dropped'
    <3> SUFFICES ASSUME NEW d \in Callers, pc'[d] = "drop" PROVE fate'[local'[d].req] \in Over
      BY DEF Dropped
    <3>1. d # c /\ pc[d] = "drop" /\ local'[d] = local[d]
      BY <2>2 DEF OthersStay
    <3>2. local[d].req \in Requests /\ fate[local[d].req] \in Over
      BY <1>t, <3>1, HandsOf DEF Dialogs, Dropped
    <3> QED
      BY <3>1, <3>2, OverStays
  <2>8. Within(waiting')
    <3>1. Within(waiting \ SweepWaiting)
      BY SubsetWithin DEF Dialogs
    <3> QED
      BY <1>2, <2>1, <3>1, OneMoreWithin DEF HasRoom
  <2>9. Keeps
    BY <2>1 DEF Keeps, SweepWaiting
  <2> QED
    BY <2>1, <2>5, <2>6, <2>7, <2>8, <2>9 DEF Dialogs, Within
<1> QED
  BY <1>1, <1>2

LEMMA InitDialogs == Init => Dialogs
  BY FS_EmptySet, AuthenticationAssumption
  DEF Init, Dialogs, Answerable, Owned, Dropped, Within

LEMMA NextDialogs == Typed /\ Hist /\ Dialogs /\ [Next]_vars => Dialogs' /\ [Keeps]_vars
<1> SUFFICES ASSUME Typed, Hist, Dialogs, [Next]_vars PROVE Dialogs' /\ [Keeps]_vars
  OBVIOUS
<1> USE DEF tables, history
<1>1. CASE Tick
  <2>1. clock \in Nat /\ clock' = clock + 1 /\ UNCHANGED <<tables, pc, local, fate>>
    BY <1>1 DEF Tick, Typed, TypeOK
  <2>2. \A r \in Requests : Expired(r) => Expired(r)'
    BY <2>1 DEF Expired, Typed, TypeOK
  <2>3. /\ parked \subseteq Requests /\ waiting \subseteq Requests
        /\ \A c \in Callers : pc[c] = "park" => local[c].req \in Requests
    BY HandsOf DEF Typed, TypeOK, Requests
  <2>4. Answerable'
    <3>1. ASSUME NEW r \in parked' PROVE Expired(r)' \/ r \in waiting'
      BY <2>1, <2>2, <2>3 DEF Dialogs, Answerable
    <3>2. ASSUME NEW c \in Callers, pc'[c] = "park"
          PROVE  Expired(local[c].req)' \/ local'[c].req \in waiting'
      <4>1. PICK r \in Requests : r = local[c].req
        BY <2>1, <2>3, <3>2
      <4>2. Expired(r)' \/ r \in waiting'
        BY <2>1, <2>2, <3>2, <4>1 DEF Dialogs, Answerable
      <4> QED
        BY <2>1, <4>1, <4>2 DEF Expired
    <3> QED
      BY <3>1, <3>2 DEF Answerable
  <2>5. Owned'
    BY <2>1, <2>2, <2>3 DEF Dialogs, Owned, InHands
  <2>6. Dropped'
    BY <2>1 DEF Dialogs, Dropped
  <2>7. Keeps
    BY <2>1 DEF Keeps
  <2> QED
    BY <2>1, <2>4, <2>5, <2>6, <2>7 DEF Dialogs, Within
<1>2. ASSUME NEW c \in Callers, Enter(c)
      PROVE  Dialogs' /\ Keeps
  BY <1>2, EnterKept, EnterClears, ClearsDialogs
<1>3. ASSUME NEW c \in Callers, Step(c)
      PROVE  Dialogs' /\ Keeps
  BY <1>3, StepKept, StepClears, ClearsDialogs, EnrolDialogs
<1>4. CASE UNCHANGED vars
  BY <1>4 DEF vars, Dialogs, Answerable, Owned, Dropped, Within, Expired, InHands
<1> QED
  BY <1>1, <1>2, <1>3, <1>4 DEF Next

\* AuthenticatedOperationCoordinator and OperationCoordinator keep the two halves of
\* an MFA dialog under two locks: whatever the schedule, a parked action that has not
\* expired finds its challenge, no live challenge is left without an action, and
\* MAX_PENDING_AUTHENTICATION_OPERATIONS bounds both tables.
THEOREM DialogsStayWhole == Spec => []TablesAgree
<1>1. Dialogs => TablesAgree
  BY DEF Dialogs, Answerable, Owned, Within, TablesAgree, InHand, InHands
<1>2. Typed /\ Hist /\ [Next]_vars => Hist'
  BY NextKept DEF Kept
<1> QED
  BY <1>1, <1>2, InitType, NextType, InitKept, InitDialogs, NextDialogs, PTL DEF Spec

\* OperationCoordinator.start_refresh, _sweep_expired: no call throws another
\* request's open dialog out of a table, full or not.
THEOREM DialogsAreKept == Spec => KeepsDialogs
<1>1. Typed /\ Hist /\ [Next]_vars => Hist'
  BY NextKept DEF Kept
<1> QED
  BY <1>1, InitType, NextType, InitKept, InitDialogs, NextDialogs, PTL
  DEF Spec, KeepsDialogs, Keeps
=============================================================================
