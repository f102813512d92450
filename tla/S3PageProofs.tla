---------------------------- MODULE S3PageProofs -----------------------------
(***************************************************************************)
(* What the S3 page promises, for any keys, places and faults, whatever    *)
(* other programs do to the bucket and the directory, and in whatever      *)
(* order workers, callbacks and the user come.                             *)
(***************************************************************************)
EXTENDS S3Page, SequenceTheorems, TLAPS

-----------------------------------------------------------------------------
(* The inductive invariant *)

Values == Contents \cup {LocalFile}
Owners == {Owner[p] : p \in Places}
Plans == UNION {[S -> [place : Places, exists : BOOLEAN]] : S \in SUBSET Keys}
Transfers ==
  [stage : {"idle", "probe", "ended", "ask"} \cup Running, gen : Nat, plan : Plans,
   todo : SUBSET Keys, key : Keys \cup {None}, policy : {"none", "skip", "overwrite"},
   cancelled : BOOLEAN, result : {"none", "planned", "ok", "failed", "cancelled"}]
Calls == [kind : {"list", "buckets"}, gen : Nat, place : Places \cup Owners,
          found : (SUBSET Keys) \cup {None}]
Jobs ==
  [stage : {"idle", "ask", "check", "head", "copy", "drop", "ended"},
   kind : {"none", "rename", "delete"}, gen : Nat, place : Places \cup {None},
   key : Keys \cup {None}, target : Keys \cup {None}, etag : Values,
   result : {"none", "ok", "failed"}, asked : Places \cup {None}]

Data ==
  /\ obj \in [Places -> [Keys -> Values]] /\ disk \in [Keys -> Values]
  /\ writes \in Nat /\ gen \in Nat

\* What is listed is of the place the page is at, and so is the listing whose
\* answer will be taken.
Listing ==
  /\ profile \in Owners /\ at \in Places \cup {None} /\ listGen \in Nat
  /\ at # None => Owner[at] = profile
  /\ calls \subseteq Calls
  /\ \A c \in calls : c.kind = "list" =>
       c.place \in Places /\ c.gen <= listGen /\ (c.gen = listGen => c.place = at)
  /\ shown # None => at \in Places /\ shown.place = at /\ shown.keys \subseteq Keys

\* The one entry that is running is the one that is sent, or the last one that was.
Upload ==
  /\ up \in Transfers /\ queue \in [Keys -> [state : EntryStates, place : Places \cup {None}]]
  /\ parts # {} => /\ up.stage \in {"send", "abort"} /\ up.key \in Big
                   /\ parts = {Here}
  /\ up.stage \in {"send", "abort"} => up.key \in Keys
  /\ up.stage = "abort" => up.result \in {"failed", "cancelled"}
  /\ up.stage \in Running => "uploading" \in busy
  /\ \A k \in Keys :
       /\ queue[k].state = "ok" => <<queue[k].place, k>> \in sent
       /\ queue[k].state = "run" =>
            /\ "uploading" \in busy /\ up.gen = gen /\ k \in Planned(up)
            /\ \/ up.stage \in {"send", "abort"} /\ k = up.key
               \/ up.stage = "ended" /\ up.result \in {"failed", "cancelled"}

Download ==
  /\ down \in Transfers
  /\ down.stage # "idle" => "downloading" \in busy
  /\ down.stage \in {"begin", "items", "send"} => down.todo \subseteq Planned(down)
  /\ down.stage = "send" => down.key \in Planned(down)
  /\ temps \subseteq (IF down.stage = "send" THEN {down.key} ELSE {})

\* What a change of an object will remove is what was chosen, or was copied.
Change ==
  /\ job \in Jobs
  /\ job.stage # "idle" =>
       job.kind # "none" /\ job.place \in Places /\ job.key \in Keys /\ job.place = job.asked
  /\ job.stage \in {"head", "copy", "drop"} => job.kind = "rename"
  /\ job.stage = "drop" => job.etag \in copied

Inv == Data /\ Listing /\ Upload /\ Download /\ Change

-----------------------------------------------------------------------------
(* What each kind of step leaves alone *)

LEMMA UploadFrame ==
  ASSUME UploadStep
  PROVE  /\ UNCHANGED <<disk, temps, writes, profile, gen, down, job, copied>>
         /\ UploadEnded \/ UNCHANGED view
<1> USE DEF remote, local, view, history
<1>1. CASE ProbeUpload BY <1>1 DEF ProbeUpload
<1>2. CASE UploadPrepared BY <1>2 DEF UploadPrepared
<1>3. CASE UploadAnswered BY <1>3 DEF UploadAnswered
<1>4. CASE UploadBegins BY <1>4 DEF UploadBegins
<1>5. CASE UploadItem BY <1>5 DEF UploadItem
<1>6. CASE PutFile BY <1>6 DEF PutFile
<1>7. CASE CreateMultipart BY <1>7 DEF CreateMultipart
<1>8. CASE UploadParts BY <1>8 DEF UploadParts
<1>9. CASE CompleteMultipart BY <1>9 DEF CompleteMultipart
<1>10. CASE AbortMultipart BY <1>10 DEF AbortMultipart
<1>11. CASE UploadEnded BY <1>11 DEF UploadEnded
<1> QED
  BY <1>1, <1>2, <1>3, <1>4, <1>5, <1>6, <1>7, <1>8, <1>9, <1>10, <1>11 DEF UploadStep

LEMMA DownloadFrame ==
  ASSUME DownloadStep
  PROVE  UNCHANGED <<obj, writes, parts, view, queue, up, job, history>>
<1> USE DEF remote, local
<1>1. CASE ProbeDownload BY <1>1 DEF ProbeDownload
<1>2. CASE DownloadPrepared BY <1>2 DEF DownloadPrepared
<1>3. CASE DownloadAnswered BY <1>3 DEF DownloadAnswered
<1>4. CASE DownloadItem BY <1>4 DEF DownloadItem
<1>5. CASE DownloadFile BY <1>5 DEF DownloadFile
<1>6. CASE DownloadEnded BY <1>6 DEF DownloadEnded
<1> QED
  BY <1>1, <1>2, <1>3, <1>4, <1>5, <1>6 DEF DownloadStep

LEMMA JobFrame ==
  ASSUME JobStep
  PROVE  /\ UNCHANGED <<disk, temps, parts, writes, profile, gen, queue, busy, up, down, sent>>
         /\ JobEnded \/ UNCHANGED view
<1> USE DEF remote, local, view, history
<1>1. CASE Answer BY <1>1 DEF Answer
<1>2. CASE DeleteObject BY <1>2 DEF DeleteObject
<1>3. CASE CheckRename BY <1>3 DEF CheckRename
<1>4. CASE HeadObject BY <1>4 DEF HeadObject
<1>5. CASE CopyObject BY <1>5 DEF CopyObject
<1>6. CASE DropSource BY <1>6 DEF DropSource
<1>7. CASE JobEnded BY <1>7 DEF JobEnded
<1> QED
  BY <1>1, <1>2, <1>3, <1>4, <1>5, <1>6, <1>7 DEF JobStep

LEMMA CallFrame ==
  ASSUME CallStep
  PROVE  UNCHANGED <<remote, local, profile, gen, queue, busy, up, down, job, history>>
BY DEF CallStep, Look, Listed, Catalogued

LEMMA OthersFrame ==
  ASSUME Others
  PROVE  UNCHANGED <<parts, temps, view, queue, busy, up, down, job, history>>
BY DEF Others

LEMMA UserFrame ==
  ASSUME User
  PROVE  /\ UNCHANGED <<remote, local, copied>>
         /\ \/ Navigate /\ UNCHANGED <<gen, queue, busy, up, down, job, sent>>
            \/ PrepareUpload /\ UNCHANGED <<view, queue, down, job, sent>>
            \/ PrepareDownload /\ UNCHANGED <<view, queue, up, job, sent>>
            \/ Cancel /\ UNCHANGED <<view, queue, busy, down, job, sent>>
            \/ Quit /\ UNCHANGED <<view, queue, busy, job, sent>>
            \/ \E p \in Owners : SetProfile(p) /\ UNCHANGED <<busy, job>>
            \/ (\E k \in Keys : AddSource(k) \/ RemoveSource(k))
               /\ UNCHANGED <<view, busy, up, down, job>>
            \/ (\E k \in Keys : Choose("delete", k, None) \/ \E t \in Keys : Choose("rename", k, t))
               /\ UNCHANGED <<view, queue, busy, up, down, sent>>
<1> USE DEF history
<1>1. CASE Navigate BY <1>1 DEF Navigate
<1>2. CASE PrepareUpload BY <1>2 DEF PrepareUpload
<1>3. CASE PrepareDownload BY <1>3 DEF PrepareDownload
<1>4. CASE Cancel BY <1>4 DEF Cancel
<1>5. CASE Quit BY <1>5 DEF Quit
<1>6. CASE \E p \in Owners : SetProfile(p) BY <1>6 DEF SetProfile
<1>7. CASE \E k \in Keys : AddSource(k) \/ RemoveSource(k) BY <1>7 DEF AddSource, RemoveSource
<1>8. CASE \E k \in Keys : Choose("delete", k, None) \/ \E t \in Keys : Choose("rename", k, t)
  BY <1>8 DEF Choose
<1> QED
  BY <1>1, <1>2, <1>3, <1>4, <1>5, <1>6, <1>7, <1>8 DEF User, Owners

-----------------------------------------------------------------------------
(* The bucket and the directory *)

LEMMA PutIsTyped ==
  ASSUME Data, NEW content \in Values, NEW place, NEW k, Put(content, place, k)
  PROVE  obj' \in [Places -> [Keys -> Values]]
BY DEF Data, Put

LEMMA UploadKeepsObjects ==
  ASSUME Inv, UploadStep
  PROVE  obj' \in [Places -> [Keys -> Values]]
<1>1. LocalFile \in Values
  BY DEF Values
<1>2. CASE obj' = obj
  BY <1>2 DEF Inv, Data
<1>3. CASE Put(LocalFile, Here[1], up.key)
  BY <1>1, <1>3, PutIsTyped DEF Inv
<1> QED
  BY <1>2, <1>3
  DEF UploadStep, ProbeUpload, UploadPrepared, UploadAnswered, UploadBegins, UploadItem, PutFile,
      Sent, CreateMultipart, UploadParts, CompleteMultipart, AbortMultipart, UploadEnded, remote

LEMMA JobKeepsObjects ==
  ASSUME Inv, JobStep
  PROVE  obj' \in [Places -> [Keys -> Values]]
<1>1. obj \in [Places -> [Keys -> Values]] /\ None \in Values /\ job.etag \in Values
  BY DEF Inv, Data, Values, Contents, Change, Jobs
<1>2. CASE DeleteObject BY <1>1, <1>2 DEF DeleteObject
<1>3. CASE CopyObject BY <1>1, <1>3 DEF CopyObject
<1>4. CASE DropSource BY <1>1, <1>4 DEF DropSource
<1>5. CASE Answer \/ CheckRename \/ HeadObject \/ JobEnded
  BY <1>1, <1>5 DEF Answer, CheckRename, HeadObject, JobEnded, remote
<1> QED
  BY <1>2, <1>3, <1>4, <1>5 DEF JobStep

LEMMA DownloadKeepsFiles ==
  ASSUME Inv, DownloadStep
  PROVE  disk' \in [Keys -> Values]
<1>1. disk \in [Keys -> Values]
  BY DEF Inv, Data
<1>2. CASE DownloadFile
  <2>1. down.stage = "send"
    BY <1>2 DEF DownloadFile
  <2>2. down.key \in Planned(down) /\ down.plan \in Plans
    BY <2>1 DEF Inv, Download, Transfers
  <2>3. down.key \in Keys /\ down.plan[down.key].place \in Places
    BY <2>2 DEF Planned, Plans
  <2>4. obj[down.plan[down.key].place][down.key] \in Values
    BY <2>3 DEF Inv, Data
  <2> QED
    BY <1>1, <1>2, <2>4 DEF DownloadFile
<1>3. CASE ProbeDownload \/ DownloadPrepared \/ DownloadAnswered \/ DownloadItem \/ DownloadEnded
  BY <1>1, <1>3
  DEF ProbeDownload, DownloadPrepared, DownloadAnswered, DownloadItem, DownloadEnded, local
<1> QED
  BY <1>2, <1>3 DEF DownloadStep

LEMMA DataKept ==
  ASSUME Inv, Next
  PROVE  Data'
<1> USE DEF remote, local, view
<1>1. CASE UploadStep
  BY <1>1, UploadKeepsObjects, UploadFrame DEF Inv, Data
<1>2. CASE DownloadStep
  BY <1>2, DownloadKeepsFiles, DownloadFrame DEF Inv, Data
<1>3. CASE JobStep
  BY <1>3, JobKeepsObjects, JobFrame DEF Inv, Data
<1>4. CASE CallStep
  BY <1>4, CallFrame DEF Inv, Data
<1>5. CASE User
  BY <1>5, UserFrame DEF Inv, Data, SetProfile
<1>6. CASE Others
  <2>1. writes \in Nat /\ gen' = gen /\ writes' = writes + 1
    BY <1>6 DEF Inv, Data, Others
  <2>2. {None, writes + 1} \subseteq Values
    BY <2>1 DEF Values, Contents
  <2>3. CASE disk' = disk /\ \E p \in Watched, k \in Keys, c \in {None, writes + 1} : Put(c, p, k)
    BY <2>1, <2>2, <2>3, PutIsTyped DEF Inv, Data
  <2>4. CASE obj' = obj /\ \E k \in Keys, c \in {None, writes + 1} : disk' = [disk EXCEPT ![k] = c]
    BY <2>1, <2>2, <2>4 DEF Inv, Data
  <2> QED
    BY <1>6, <2>3, <2>4 DEF Others
<1> QED
  BY <1>1, <1>2, <1>3, <1>4, <1>5, <1>6 DEF Next

-----------------------------------------------------------------------------
(* The listing *)

LEMMA ListKeeps ==
  ASSUME Listing, NEW p \in Places, Owner[p] = profile, NEW rest \in SUBSET calls,
         List(p, rest), profile' = profile
  PROVE  Listing'
<1> DEFINE new == Call("list", listGen + 1, p)
<1>1. /\ at' = p /\ shown' = None /\ listGen' = listGen + 1
      /\ calls' \subseteq rest \cup {new}
  BY DEF List
<1>2. /\ new \in Calls /\ new.kind = "list" /\ new.place = p /\ new.gen = listGen + 1
  BY DEF Call, Calls, Listing
<1>3. ASSUME NEW c \in calls'
      PROVE  c \in Calls /\ (c.kind = "list" => c.place \in Places /\ c.gen <= listGen'
                                              /\ (c.gen = listGen' => c.place = at'))
  <2>1. CASE c \in calls
    BY <1>1, <2>1 DEF Listing, Calls
  <2>2. CASE c = new
    BY <1>1, <1>2, <2>2 DEF Listing
  <2> QED
    BY <1>1, <1>3, <2>1, <2>2
<1> QED
  BY <1>1, <1>3 DEF Listing

LEMMA LookKeeps ==
  ASSUME Listing, NEW c \in calls, Look(c)
  PROVE  Listing'
<1> DEFINE new == [c EXCEPT !.found = Contained(c.place)]
<1>1. UNCHANGED <<profile, at, listGen, shown>> /\ calls' = (calls \ {c}) \cup {new}
  BY DEF Look
<1>2. Contained(c.place) \in SUBSET Keys /\ c \in Calls
  BY DEF Contained, Listing
<1>3. new \in Calls /\ new.kind = c.kind /\ new.place = c.place /\ new.gen = c.gen
  BY <1>2 DEF Calls
<1> HIDE DEF new
<1> QED
  BY <1>1, <1>3 DEF Listing

LEMMA ListingKept ==
  ASSUME Inv, Next
  PROVE  Listing'
<1>a. Listing
  BY DEF Inv
<1>1. CASE UNCHANGED view
  BY <1>a, <1>1 DEF Listing, view
<1>2. CASE UploadEnded
  <2>1. CASE at # None /\ List(at, calls)
    BY <1>a, <1>2, <2>1, ListKeeps DEF UploadEnded, Listing
  <2>2. CASE UNCHANGED <<at, shown, listGen, calls>>
    BY <1>a, <1>2, <2>2 DEF UploadEnded, Listing
  <2> QED
    BY <1>2, <2>1, <2>2 DEF UploadEnded
<1>3. CASE JobEnded
  <2>1. CASE at # None /\ List(at, calls)
    BY <1>a, <1>3, <2>1, ListKeeps DEF JobEnded, Listing
  <2>2. CASE UNCHANGED <<at, shown, listGen, calls>>
    BY <1>a, <1>3, <2>2 DEF JobEnded, Listing
  <2> QED
    BY <1>3, <2>1, <2>2 DEF JobEnded
<1>4. ASSUME NEW c \in calls, Look(c)
      PROVE  Listing'
  BY <1>a, <1>4, LookKeeps
<1>5. ASSUME NEW c \in calls, Listed(c)
      PROVE  Listing'
  <2>1. /\ UNCHANGED <<profile, at, listGen>> /\ calls' = calls \ {c}
        /\ c \in Calls /\ c.kind = "list" /\ c.found # None
    BY <1>a, <1>5 DEF Listed, Listing
  <2>2. CASE c.gen = listGen
    <3>1. shown' = [place |-> c.place, keys |-> c.found] /\ c.place \in Places /\ c.place = at
      BY <1>a, <1>5, <2>1, <2>2 DEF Listed, Listing
    <3>2. c.found \subseteq Keys
      BY <2>1 DEF Calls
    <3> QED
      BY <1>a, <2>1, <3>1, <3>2 DEF Listing
  <2>3. CASE c.gen # listGen
    BY <1>a, <1>5, <2>1, <2>3 DEF Listed, Listing
  <2> QED
    BY <2>2, <2>3
<1>6. ASSUME NEW c \in calls, Catalogued(c)
      PROVE  Listing'
  <2>1. profile' = profile
    BY <1>6 DEF Catalogued
  <2>2. CASE c.gen = gen
    <3> PICK p \in Places : Owner[p] = profile /\ List(p, calls \ {c})
      BY <1>6, <2>2 DEF Catalogued
    <3> QED
      BY <1>a, <2>1, ListKeeps
  <2>3. CASE c.gen # gen
    BY <1>a, <1>6, <2>1, <2>3 DEF Catalogued, Listing
  <2> QED
    BY <2>2, <2>3
<1>7. CASE Navigate
  BY <1>a, <1>7, ListKeeps DEF Navigate
<1>8. ASSUME NEW p \in Owners, SetProfile(p)
      PROVE  Listing'
  <2> DEFINE new == Call("buckets", gen + 1, p)
  <2>1. /\ profile' = p /\ at' = None /\ shown' = None /\ listGen' = listGen + 1
        /\ calls' = calls \cup {new}
    BY <1>8 DEF SetProfile
  <2>2. new \in Calls /\ new.kind = "buckets"
    BY DEF Call, Calls, Inv, Data
  <2>3. \A c \in calls : c.kind = "list" => c.place \in Places /\ c.gen <= listGen' /\ c.gen # listGen'
    BY <1>a, <2>1 DEF Listing, Calls
  <2> HIDE DEF new
  <2> QED
    BY <1>a, <2>1, <2>2, <2>3 DEF Listing
<1> QED
  BY <1>1, <1>2, <1>3, <1>4, <1>5, <1>6, <1>7, <1>8, UploadFrame, DownloadFrame, JobFrame,
     OthersFrame, UserFrame DEF Next, CallStep

-----------------------------------------------------------------------------
(* The upload *)

LEMMA EmptyPlan ==
  <<>> \in Plans /\ Idle \in Transfers /\ Idle.stage = "idle"
<1>1. <<>> \in [1..0 -> [place : Places, exists : BOOLEAN]]
  BY EmptySeq, LenProperties
<1>2. 1..0 = {}
  OBVIOUS
<1>3. <<>> \in Plans
  BY <1>1, <1>2 DEF Plans
<1> QED
  BY <1>3 DEF Idle, Transfers

\* A look at one more key of a plan.
LEMMA ProbeIsTyped ==
  ASSUME NEW t \in Transfers, NEW k \in t.todo, NEW e \in BOOLEAN,
         NEW stage \in {t.stage, "ended"}, NEW result \in {t.result, "planned"}
  PROVE  [t EXCEPT !.plan[k].exists = e, !.todo = @ \ {k}, !.stage = stage, !.result = result]
           \in Transfers
<1> DEFINE plan == [t.plan EXCEPT ![k].exists = e]
<1>1. PICK S \in SUBSET Keys : t.plan \in [S -> [place : Places, exists : BOOLEAN]]
  BY DEF Transfers, Plans
<1>2. plan \in [S -> [place : Places, exists : BOOLEAN]]
  BY <1>1
<1>3. plan \in Plans
  BY <1>2 DEF Plans
<1>4. [t EXCEPT !.plan[k].exists = e, !.todo = @ \ {k}, !.stage = stage, !.result = result]
        = [t EXCEPT !.plan = plan, !.todo = @ \ {k}, !.stage = stage, !.result = result]
  BY DEF Transfers
<1> HIDE DEF plan
<1> QED
  BY <1>3, <1>4 DEF Transfers

\* The answer to the question of a transfer, and the files it is to go through.
Granted(t, policy) == [t EXCEPT !.stage = "begin", !.policy = policy, !.result = "none"]
Narrowed(t, todo) == [t EXCEPT !.todo = todo]

LEMMA GrantedIsTyped ==
  ASSUME NEW t \in Transfers, NEW policy \in {"none", "skip", "overwrite"}
  PROVE  /\ Granted(t, policy) \in Transfers /\ Granted(t, policy).stage = "begin"
         /\ Granted(t, policy).plan = t.plan
BY DEF Transfers, Running, Granted

LEMMA NarrowedIsTyped ==
  ASSUME NEW t \in Transfers, NEW todo \in SUBSET Keys
  PROVE  /\ Narrowed(t, todo) \in Transfers /\ Narrowed(t, todo).stage = t.stage
         /\ Narrowed(t, todo).plan = t.plan /\ Narrowed(t, todo).todo = todo
BY DEF Transfers, Narrowed

\* Without an entry that is running a transfer may go through any other stage.
Settled == \A k \in Keys : queue[k].state # "run"

LEMMA SettledUnlessSending ==
  ASSUME Upload,
         \/ up.stage \in {"idle", "probe", "ask", "begin", "items"}
         \/ up.stage = "ended" /\ up.result \in {"none", "planned", "ok"}
         \/ up.gen # gen \/ "uploading" \notin busy
  PROVE  Settled
BY DEF Upload, Settled

LEMMA NothingOpenUnlessSending ==
  ASSUME Upload, up.stage \notin {"send", "abort"}
  PROVE  parts = {}
BY DEF Upload

\* The steps before an item is sent, and after it.
LEMMA QuietStep ==
  ASSUME Upload, Settled, parts' = {}, up' \in Transfers,
         up'.stage \notin {"send", "abort"},
         up'.stage \in Running => "uploading" \in busy',
         queue' \in [Keys -> [state : EntryStates, place : Places \cup {None}]],
         \A k \in Keys : /\ queue'[k].state # "run"
                         /\ queue'[k].state = "ok" => <<queue'[k].place, k>> \in sent'
  PROVE  Upload'
BY DEF Upload

LEMMA ShowIsTyped ==
  ASSUME Upload, NEW state \in EntryStates, NEW ks \in SUBSET Keys, Show(ks, state)
  PROVE  /\ queue' \in [Keys -> [state : EntryStates, place : Places \cup {None}]]
         /\ \A k \in Keys :
              \/ queue'[k] = queue[k] /\ (up.gen # gen \/ k \notin ks \/ k \notin Planned(up))
              \/ /\ up.gen = gen /\ k \in ks /\ k \in Planned(up)
                 /\ queue'[k] = [state |-> state, place |-> up.plan[k].place]
<1>1. up.plan \in Plans /\ queue \in [Keys -> [state : EntryStates, place : Places \cup {None}]]
  BY DEF Upload, Transfers
<1>2. \A k \in Planned(up) : up.plan[k].place \in Places
  BY <1>1 DEF Planned, Plans
<1>3. CASE up.gen # gen
  BY <1>1, <1>3 DEF Show
<1>4. CASE up.gen = gen
  <2>1. queue' = [k \in Keys |-> IF k \in ks /\ k \in Planned(up)
                                 THEN [state |-> state, place |-> up.plan[k].place] ELSE queue[k]]
    BY <1>4 DEF Show, Entry
  <2> QED
    BY <1>1, <1>2, <1>4, <2>1
<1> QED
  BY <1>3, <1>4

LEMMA EndIsTyped ==
  ASSUME NEW t \in Transfers, NEW result \in {"ok", "failed", "cancelled"}
  PROVE  /\ End(t, result) \in Transfers /\ End(t, result).stage = "ended"
         /\ End(t, result).result = result /\ End(t, result).plan = t.plan
         /\ End(t, result).gen = t.gen /\ End(t, result).key = None
         /\ End(t, result).todo = t.todo
BY DEF End, Transfers

LEMMA PrepareUploadKeeps ==
  ASSUME Inv, PrepareUpload, UNCHANGED <<parts, queue, sent, gen>>
  PROVE  Upload'
<1>1. Upload /\ gen \in Nat /\ at \in Places
  BY DEF Inv, Data, Listing, PrepareUpload
<1>2. Settled /\ up.stage \notin Running /\ parts = {}
  BY <1>1 DEF Upload, Settled, PrepareUpload, Uploads, Running
<1> PICK sources \in {Pending} \cup {{k} : k \in {k \in Keys : queue[k].state = "fail"}} :
       /\ up' = [Idle EXCEPT !.stage = "probe", !.gen = gen, !.todo = sources,
                             !.plan = [k \in sources |-> Item(Target(k), FALSE)]]
  BY DEF PrepareUpload
<1>3. sources \subseteq Keys
  BY DEF Pending
<1>4. \A k \in sources : Target(k) \in Places
  BY <1>1, <1>3 DEF Target, Upload
<1>5. [k \in sources |-> Item(Target(k), FALSE)] \in Plans
  BY <1>3, <1>4 DEF Plans, Item
<1>6. up' \in Transfers /\ up'.stage = "probe"
  BY <1>1, <1>3, <1>5, EmptyPlan DEF Transfers
<1> QED
  BY <1>1, <1>2, <1>6, QuietStep DEF Upload, Running, Settled

LEMMA ProbeUploadKeeps ==
  ASSUME Inv, ProbeUpload
  PROVE  Upload'
<1>1. Upload /\ up \in Transfers /\ up.stage = "probe"
  BY DEF Inv, Upload, ProbeUpload
<1>2. Settled /\ parts = {}
  BY <1>1, SettledUnlessSending, NothingOpenUnlessSending
<1>3. UNCHANGED <<parts, queue, sent, busy>>
  BY DEF ProbeUpload, remote, history
<1>4. up' \in Transfers /\ up'.stage \in {"probe", "ended"}
  <2>1. ASSUME NEW result \in {"failed", "cancelled"}, up' = End(up, result)
        PROVE  up' \in Transfers /\ up'.stage \in {"probe", "ended"}
    BY <1>1, <2>1, EndIsTyped
  <2>2. ASSUME NEW k \in up.todo,
               up' = [up EXCEPT !.plan[k].exists = obj[up.plan[k].place][k] # None,
                                !.todo = @ \ {k},
                                !.stage = IF up.todo = {k} THEN "ended" ELSE @,
                                !.result = IF up.todo = {k} THEN "planned" ELSE @]
        PROVE  up' \in Transfers /\ up'.stage \in {"probe", "ended"}
    <3> PICK e \in BOOLEAN : e = (obj[up.plan[k].place][k] # None)
      OBVIOUS
    <3> PICK stage \in {up.stage, "ended"} : stage = IF up.todo = {k} THEN "ended" ELSE up.stage
      OBVIOUS
    <3> PICK result \in {up.result, "planned"} :
               result = IF up.todo = {k} THEN "planned" ELSE up.result
      OBVIOUS
    <3>1. up' = [up EXCEPT !.plan[k].exists = e, !.todo = @ \ {k}, !.stage = stage,
                           !.result = result]
      BY <1>1, <2>2 DEF Transfers
    <3>2. up' \in Transfers
      BY <1>1, <3>1, ProbeIsTyped
    <3>3. up'.stage = stage
      BY <1>1, <3>1 DEF Transfers
    <3> QED
      BY <1>1, <3>2, <3>3
  <2> QED
    BY <2>1, <2>2 DEF ProbeUpload
<1> QED
  BY <1>1, <1>2, <1>3, <1>4, QuietStep DEF Upload, Running, Settled

LEMMA UploadPreparedKeeps ==
  ASSUME Inv, UploadPrepared
  PROVE  Upload'
<1>1. Upload /\ up \in Transfers /\ up.stage = "ended" /\ up.result = "planned"
  BY DEF Inv, Upload, UploadPrepared
<1>2. Settled /\ parts = {}
  BY <1>1, SettledUnlessSending, NothingOpenUnlessSending
<1>3. UNCHANGED <<parts, queue, sent>>
  BY DEF UploadPrepared, remote, history
<1>4. up' \in Transfers /\ up'.stage \in {"idle", "ask"}
  BY <1>1, EmptyPlan DEF UploadPrepared, Transfers
<1> QED
  BY <1>1, <1>2, <1>3, <1>4, QuietStep DEF Upload, Running, Settled

LEMMA UploadAnsweredKeeps ==
  ASSUME Inv, UploadAnswered
  PROVE  Upload'
<1>1. Upload /\ up \in Transfers /\ up.stage = "ask"
  BY DEF Inv, Upload, UploadAnswered
<1>2. Settled /\ parts = {}
  BY <1>1, SettledUnlessSending, NothingOpenUnlessSending
<1>3. UNCHANGED <<parts, sent>>
  BY DEF UploadAnswered, remote, history
<1> PICK policy \in Answers(up) :
       IF Goes(up, policy)
       THEN /\ up' = [up EXCEPT !.stage = "begin", !.policy = policy, !.result = "none"]
            /\ queue' = [k \in Keys |-> IF k \in Planned(up)
                                        THEN Entry("wait", up.plan[k].place) ELSE queue[k]]
            /\ busy' = busy \cup {"uploading"} /\ UNCHANGED closing
       ELSE up' = Idle /\ UNCHANGED queue /\ Finish(busy)
  BY DEF UploadAnswered
<1>4. policy \in {"none", "skip", "overwrite"}
  BY DEF Answers
<1>5. CASE Goes(up, policy)
  <2>0. up' = Granted(up, policy) /\ busy' = busy \cup {"uploading"}
    BY <1>5 DEF Granted
  <2>1. up' \in Transfers /\ up'.stage = "begin" /\ "uploading" \in busy'
    <3>1. up' \in Transfers /\ up'.stage = "begin" /\ up'.plan = up.plan
      BY <1>1, <1>4, <2>0, GrantedIsTyped
    <3> QED
      BY <2>0, <3>1
  <2>2. \A k \in Planned(up) : up.plan[k].place \in Places
    BY <1>1 DEF Transfers, Planned, Plans
  <2>3. queue' \in [Keys -> [state : EntryStates, place : Places \cup {None}]]
    BY <1>1, <1>5, <2>2 DEF Upload, Entry, EntryStates
  <2>4. \A k \in Keys : queue'[k].state = "wait" \/ queue'[k] = queue[k]
    BY <1>5 DEF Entry
  <2> QED
    BY <1>1, <1>2, <1>3, <2>1, <2>3, <2>4, QuietStep DEF Upload, Settled
<1>6. CASE ~Goes(up, policy)
  <2>1. up' \in Transfers /\ up'.stage = "idle"
    BY <1>6, EmptyPlan
  <2> QED
    BY <1>1, <1>2, <1>3, <1>6, <2>1, QuietStep DEF Upload, Running, Settled
<1> QED
  BY <1>5, <1>6

LEMMA UploadBeginsKeeps ==
  ASSUME Inv, UploadBegins
  PROVE  Upload'
<1>1. Upload /\ up \in Transfers /\ up.stage = "begin" /\ "uploading" \in busy
  BY DEF Inv, Upload, UploadBegins, Running
<1>2. Settled /\ parts = {}
  BY <1>1, SettledUnlessSending, NothingOpenUnlessSending
<1>3. UNCHANGED <<parts, sent, busy>>
  BY DEF UploadBegins, remote, history
<1>4. ASSUME NEW result \in {"ok", "failed", "cancelled"}, up' = End(up, result)
      PROVE  up' \in Transfers /\ up'.stage \in {"items", "ended"}
  BY <1>1, <1>4, EndIsTyped
<1>5. up' \in Transfers /\ up'.stage \in {"items", "ended"}
  <2>1. CASE \E rest \in SUBSET Planned(up) : up' = [up EXCEPT !.stage = "items", !.todo = rest]
    <3> PICK rest \in SUBSET Planned(up) : up' = [up EXCEPT !.stage = "items", !.todo = rest]
      BY <2>1
    <3>1. rest \in SUBSET Keys
      BY <1>1 DEF Transfers, Planned, Plans
    <3> QED
      BY <1>1, <3>1 DEF Transfers, Running
  <2> QED
    BY <1>4, <2>1 DEF UploadBegins
<1>6. CASE queue' = queue
  BY <1>1, <1>2, <1>3, <1>5, <1>6, QuietStep DEF Upload, Settled
<1>7. ASSUME NEW ks \in SUBSET Keys, Show(ks, "skip")
      PROVE  Upload'
  <2>1. "skip" \in EntryStates
    BY DEF EntryStates
  <2>2. /\ queue' \in [Keys -> [state : EntryStates, place : Places \cup {None}]]
        /\ \A k \in Keys : \/ queue'[k] = queue[k]
                           \/ queue'[k] = [state |-> "skip", place |-> up.plan[k].place]
    BY <1>1, <1>7, <2>1, ShowIsTyped
  <2> QED
    BY <1>1, <1>2, <1>3, <1>5, <2>2, QuietStep DEF Upload, Settled
<1>8. Conflicts(up) \in SUBSET Keys
  BY <1>1 DEF Conflicts, Planned, Transfers, Plans
<1> QED
  BY <1>6, <1>7, <1>8 DEF UploadBegins

LEMMA UploadItemKeeps ==
  ASSUME Inv, UploadItem
  PROVE  Upload'
<1>1. Upload /\ up \in Transfers /\ up.stage = "items" /\ "uploading" \in busy
  BY DEF Inv, Upload, UploadItem, Running
<1>2. Settled /\ parts = {}
  BY <1>1, SettledUnlessSending, NothingOpenUnlessSending
<1>3. UNCHANGED <<parts, sent, busy, gen>>
  BY DEF UploadItem, remote, history, view
<1>4. ASSUME NEW result \in {"ok", "failed", "cancelled"}, up' = End(up, result), queue' = queue
      PROVE  Upload'
  BY <1>1, <1>2, <1>3, <1>4, EndIsTyped, QuietStep DEF Upload, Settled
<1>5. ASSUME NEW k \in up.todo, up' = [up EXCEPT !.todo = @ \ {k}], Show({k}, "skip")
      PROVE  Upload'
  <2>1. "skip" \in EntryStates
    BY DEF EntryStates
  <2>2. /\ queue' \in [Keys -> [state : EntryStates, place : Places \cup {None}]]
        /\ \A j \in Keys : \/ queue'[j] = queue[j]
                           \/ queue'[j] = [state |-> "skip", place |-> up.plan[j].place]
    <3>1. {k} \in SUBSET Keys
      BY <1>1 DEF Transfers
    <3> QED
      BY <1>1, <1>5, <2>1, <3>1, ShowIsTyped
  <2>3. up' \in Transfers /\ up'.stage = "items"
    BY <1>1, <1>5 DEF Transfers
  <2> QED
    BY <1>1, <1>2, <1>3, <2>2, <2>3, QuietStep DEF Upload, Settled
<1>6. ASSUME NEW k \in up.todo,
             up' = [up EXCEPT !.stage = "send", !.key = k, !.todo = @ \ {k}], Show({k}, "run")
      PROVE  Upload'
  <2>1. "run" \in EntryStates
    BY DEF EntryStates
  <2>2. /\ queue' \in [Keys -> [state : EntryStates, place : Places \cup {None}]]
        /\ \A j \in Keys : \/ queue'[j] = queue[j]
                           \/ /\ up.gen = gen /\ j = k /\ j \in Planned(up)
                              /\ queue'[j] = [state |-> "run", place |-> up.plan[j].place]
    <3>1. {k} \in SUBSET Keys
      BY <1>1 DEF Transfers
    <3> QED
      BY <1>1, <1>6, <2>1, <3>1, ShowIsTyped
  <2>3. /\ up' \in Transfers /\ up'.stage = "send" /\ up'.key = k /\ k \in Keys
        /\ up'.gen = up.gen /\ up'.plan = up.plan
    BY <1>1, <1>6 DEF Transfers, Running
  <2> QED
    BY <1>1, <1>2, <1>3, <2>2, <2>3 DEF Upload, Settled, Running, Planned
<1> QED
  BY <1>4, <1>5, <1>6 DEF UploadItem

\* After success the transfer is between items, and its entry says so.
LEMMA SentKeeps ==
  ASSUME Upload, up.stage = "send", Sent, parts' = {}, UNCHANGED <<busy, gen>>
  PROVE  Upload'
<1>1. up \in Transfers /\ up.key \in Keys /\ "uploading" \in busy /\ "ok" \in EntryStates
  BY DEF Upload, Running, EntryStates
<1>2. /\ up' \in Transfers /\ up'.stage = "items" /\ up'.gen = up.gen /\ up'.plan = up.plan
  BY <1>1 DEF Sent, Transfers, Running
<1>3. /\ queue' \in [Keys -> [state : EntryStates, place : Places \cup {None}]]
      /\ \A k \in Keys :
           \/ queue'[k] = queue[k] /\ (up.gen # gen \/ k # up.key \/ k \notin Planned(up))
           \/ k = up.key /\ queue'[k] = [state |-> "ok", place |-> up.plan[k].place]
  <2>1. Show({up.key}, "ok")
    BY DEF Sent
  <2> QED
    BY <1>1, <2>1, ShowIsTyped
<1>4. sent' = sent \cup {<<up.plan[up.key].place, up.key>>}
  BY DEF Sent, Here
<1>5. \A k \in Keys : /\ queue'[k].state # "run"
                      /\ queue'[k].state = "ok" => <<queue'[k].place, k>> \in sent'
  BY <1>3, <1>4 DEF Upload
<1> QED
  BY <1>1, <1>2, <1>3, <1>5 DEF Upload

\* A transfer that ends in the middle of an item keeps its entry running.
LEMMA BreaksKeeps ==
  ASSUME Upload, up.stage \in {"send", "abort"}, NEW result \in {"failed", "cancelled"},
         up' = End(up, result), parts' = {}, UNCHANGED <<busy, gen, queue, sent>>
  PROVE  Upload'
<1>1. up \in Transfers
  BY DEF Upload
<1>2. /\ up' \in Transfers /\ up'.stage = "ended" /\ up'.result = result
      /\ up'.plan = up.plan /\ up'.gen = up.gen
  BY <1>1, EndIsTyped
<1> QED
  BY <1>2 DEF Upload, Running, Planned

\* The same, when parts have to be aborted first.
LEMMA AbortingKeeps ==
  ASSUME Upload, up.stage = "send", NEW result \in {"failed", "cancelled"}, Aborting(result),
         parts' = {} \/ parts' = parts, UNCHANGED <<busy, gen, queue, sent>>
  PROVE  Upload'
<1>1. up \in Transfers
  BY DEF Upload
<1>2. /\ up' \in Transfers /\ up'.stage = "abort" /\ up'.result = result /\ up'.key = up.key
      /\ up'.plan = up.plan /\ up'.gen = up.gen
  BY <1>1 DEF Aborting, Transfers, Running
<1>3. Here' = Here
  BY <1>2 DEF Here
<1> QED
  BY <1>2, <1>3 DEF Upload, Running, Planned

LEMMA SendingKeeps ==
  ASSUME Inv, PutFile \/ CreateMultipart \/ UploadParts \/ CompleteMultipart \/ AbortMultipart
  PROVE  Upload'
<1>1. Upload /\ gen' = gen /\ busy' = busy
  BY DEF Inv, PutFile, CreateMultipart, UploadParts, CompleteMultipart, AbortMultipart, view
<1>2. CASE PutFile
  <2>1. up.stage = "send" /\ parts = {} /\ parts' = parts
    BY <1>1, <1>2 DEF PutFile, Upload
  <2> QED
    BY <1>1, <1>2, <2>1, SentKeeps, BreaksKeeps DEF PutFile
<1>3. CASE CreateMultipart
  <2>1. up.stage = "send" /\ parts = {} /\ up.key \in Big /\ UNCHANGED <<queue, sent>>
    BY <1>1, <1>3 DEF CreateMultipart, Upload, history
  <2>2. CASE parts' = parts \cup {Here} /\ UNCHANGED up
    BY <1>1, <2>1, <2>2 DEF Upload, Here
  <2>3. CASE up' = End(up, "failed") /\ UNCHANGED parts
    BY <1>1, <2>1, <2>3, BreaksKeeps
  <2> QED
    BY <1>3, <2>2, <2>3 DEF CreateMultipart
<1>4. CASE UploadParts
  BY <1>1, <1>4, AbortingKeeps DEF UploadParts, remote, history
<1>5. CASE CompleteMultipart
  <2>1. up.stage = "send" /\ parts' = {}
    BY <1>1, <1>5 DEF CompleteMultipart, Upload
  <2> QED
    BY <1>1, <1>5, <2>1, SentKeeps, AbortingKeeps DEF CompleteMultipart
<1>6. CASE AbortMultipart
  <2>1. /\ up.stage = "abort" /\ parts' = {} /\ UNCHANGED <<queue, sent>>
        /\ up' = End(up, up.result) /\ up.result \in {"failed", "cancelled"}
    BY <1>1, <1>6 DEF AbortMultipart, Upload, history
  <2> QED
    BY <1>1, <2>1, BreaksKeeps
<1> QED
  BY <1>2, <1>3, <1>4, <1>5, <1>6

LEMMA OutcomeIsSettled ==
  ASSUME Upload, up.stage = "ended", up.result # "planned", up.gen = gen, NEW k \in Keys
  PROVE  /\ Outcome(k) \in [state : EntryStates, place : Places \cup {None}]
         /\ Outcome(k).state # "run"
         /\ Outcome(k).state = "ok" => <<Outcome(k).place, k>> \in sent
<1>1. queue[k] \in [state : EntryStates, place : Places \cup {None}]
  BY DEF Upload
<1>2. Outcome(k) = queue[k] \/ Outcome(k) = [queue[k] EXCEPT !.state = "fail"]
        \/ Outcome(k) = [queue[k] EXCEPT !.state = "cancel"]
  BY DEF Outcome
<1>3. Outcome(k) = queue[k] => queue[k].state # "run"
  <2> SUFFICES ASSUME Outcome(k) = queue[k], queue[k].state = "run"
               PROVE  FALSE
    OBVIOUS
  <2>1. k \in Planned(up) /\ up.result \in {"failed", "cancelled"}
    BY DEF Upload
  <2>2. Outcome(k).state \in {"fail", "cancel"}
    BY <1>1, <2>1 DEF Outcome
  <2> QED
    BY <2>2
<1> QED
  BY <1>1, <1>2, <1>3 DEF Upload, EntryStates

LEMMA UploadEndedKeeps ==
  ASSUME Inv, UploadEnded
  PROVE  Upload'
<1>1. Upload /\ up.stage = "ended" /\ up.result # "planned"
  BY DEF Inv, UploadEnded
<1>2. parts' = {} /\ sent' = sent /\ gen' = gen
  BY <1>1, NothingOpenUnlessSending DEF UploadEnded, remote, history
<1>3. up' \in Transfers /\ up'.stage = "idle"
  BY EmptyPlan DEF UploadEnded
<1>4. /\ queue' \in [Keys -> [state : EntryStates, place : Places \cup {None}]]
      /\ \A k \in Keys : /\ queue'[k].state # "run"
                         /\ queue'[k].state = "ok" => <<queue'[k].place, k>> \in sent'
  <2>1. CASE up.gen = gen
    <3>1. queue' = [k \in Keys |-> Outcome(k)]
      BY <2>1 DEF UploadEnded
    <3>2. \A k \in Keys : /\ Outcome(k) \in [state : EntryStates, place : Places \cup {None}]
                          /\ Outcome(k).state # "run"
                          /\ Outcome(k).state = "ok" => <<Outcome(k).place, k>> \in sent
      BY <1>1, <2>1, OutcomeIsSettled
    <3> QED
      BY <1>2, <3>1, <3>2
  <2>2. CASE up.gen # gen
    BY <1>1, <1>2, <2>2 DEF UploadEnded, Upload
  <2> QED
    BY <2>1, <2>2
<1> QED
  BY <1>2, <1>3, <1>4 DEF Upload, Running

\* A token that is given up changes nothing else.
LEMMA TokenIsTyped ==
  ASSUME NEW t \in Transfers, NEW cancelled \in BOOLEAN,
         NEW u, u = [t EXCEPT !.cancelled = cancelled]
  PROVE  /\ u \in Transfers /\ u.stage = t.stage /\ u.gen = t.gen /\ u.plan = t.plan
         /\ u.todo = t.todo /\ u.key = t.key /\ u.policy = t.policy /\ u.result = t.result
BY DEF Transfers

LEMMA WithTokenIsTyped ==
  ASSUME NEW t \in Transfers, NEW u, u = WithToken(t)
  PROVE  /\ u \in Transfers /\ u.stage = t.stage /\ u.gen = t.gen /\ u.plan = t.plan
         /\ u.todo = t.todo /\ u.key = t.key /\ u.policy = t.policy /\ u.result = t.result
<1> PICK cancelled \in BOOLEAN : cancelled = (t.cancelled \/ t.stage \in Running)
  OBVIOUS
<1>1. u = [t EXCEPT !.cancelled = cancelled]
  BY DEF WithToken, Transfers
<1> QED
  BY <1>1, TokenIsTyped

LEMMA TokenKeeps ==
  ASSUME Upload, up' \in Transfers, up'.stage = up.stage, up'.gen = up.gen, up'.plan = up.plan,
         up'.key = up.key, up'.result = up.result, UNCHANGED <<parts, busy, gen, queue, sent>>
  PROVE  Upload'
<1>1. Here' = Here
  BY DEF Here
<1> QED
  BY <1>1 DEF Upload, Planned

LEMMA UploadKept ==
  ASSUME Inv, Next
  PROVE  Upload'
<1>a. Upload /\ up \in Transfers
  BY DEF Inv, Upload
<1> USE DEF remote, view, history
<1>1. CASE UploadStep
  BY <1>1, ProbeUploadKeeps, UploadPreparedKeeps, UploadAnsweredKeeps, UploadBeginsKeeps,
     UploadItemKeeps, SendingKeeps, UploadEndedKeeps DEF UploadStep
<1>b. ASSUME UNCHANGED <<parts, gen, queue, up, sent>>, "uploading" \in busy => "uploading" \in busy'
      PROVE  Upload'
  BY <1>a, <1>b DEF Upload, Here
<1>2. CASE DownloadStep
  <2>1. "uploading" \in busy => "uploading" \in busy'
    BY <1>2 DEF DownloadStep, ProbeDownload, DownloadPrepared, DownloadAnswered, DownloadItem,
                DownloadFile, DownloadEnded, Finish
  <2> QED
    BY <1>b, <1>2, <2>1, DownloadFrame
<1>3. CASE JobStep
  BY <1>b, <1>3, JobFrame
<1>4. CASE CallStep
  BY <1>b, <1>4, CallFrame
<1>5. CASE Others
  BY <1>b, <1>5, OthersFrame
<1>6. CASE User
  <2>1. parts' = parts
    BY <1>6, UserFrame
  <2>2. CASE Navigate \/ \E k \in Keys : Choose("delete", k, None) \/ \E t \in Keys : Choose("rename", k, t)
    BY <1>b, <2>1, <2>2 DEF Navigate, Choose
  <2>3. CASE PrepareUpload
    BY <2>1, <2>3, PrepareUploadKeeps DEF PrepareUpload
  <2>4. CASE PrepareDownload
    BY <1>b, <2>1, <2>4 DEF PrepareDownload
  <2>5. CASE Cancel
    BY <1>a, <2>1, <2>5, TokenIsTyped, TokenKeeps DEF Cancel
  <2>6. CASE Quit
    BY <1>a, <2>1, <2>6, WithTokenIsTyped, TokenKeeps DEF Quit
  <2>7. ASSUME NEW p \in Owners, SetProfile(p)
        PROVE  Upload'
    <3>1. /\ up' \in Transfers /\ up'.stage = up.stage /\ up'.plan = up.plan
          /\ up'.key = up.key /\ up'.result = up.result
      BY <1>a, <2>7, WithTokenIsTyped DEF SetProfile
    <3>2. Here' = Here /\ busy' = busy
      BY <2>7, <3>1 DEF Here, SetProfile
    <3>3. /\ queue' \in [Keys -> [state : EntryStates, place : Places \cup {None}]]
          /\ \A k \in Keys : queue'[k].state = "absent"
      BY <2>7 DEF SetProfile, Absent, Entry, EntryStates
    <3> QED
      BY <1>a, <2>1, <3>1, <3>2, <3>3 DEF Upload
  <2>8. ASSUME NEW k \in Keys, AddSource(k)
        PROVE  Upload'
    <3>1. UNCHANGED <<up, busy, gen>> /\ Here' = Here /\ "uploading" \notin busy
      BY <2>8 DEF AddSource, Uploads, Here
    <3>2. /\ queue' = [queue EXCEPT ![k] = [state |-> "wait", place |-> None]]
          /\ \A place : \A j \in Keys : j # k /\ <<place, j>> \in sent => <<place, j>> \in sent'
      BY <2>8 DEF AddSource, Entry
    <3>3. /\ queue' \in [Keys -> [state : EntryStates, place : Places \cup {None}]]
          /\ \A j \in Keys : IF j = k THEN queue'[j].state = "wait" ELSE queue'[j] = queue[j]
      BY <1>a, <3>2 DEF Upload, EntryStates
    <3> QED
      BY <1>a, <2>1, <3>1, <3>2, <3>3 DEF Upload
  <2>9. ASSUME NEW k \in Keys, RemoveSource(k)
        PROVE  Upload'
    <3>1. UNCHANGED <<up, busy, gen, sent>> /\ Here' = Here /\ "uploading" \notin busy
      BY <2>9 DEF RemoveSource, Uploads, Here
    <3>2. /\ queue' \in [Keys -> [state : EntryStates, place : Places \cup {None}]]
          /\ \A j \in Keys : queue'[j].state = "absent" \/ queue'[j] = queue[j]
      BY <1>a, <2>9 DEF RemoveSource, Upload, EntryStates, Absent, Entry
    <3> QED
      BY <1>a, <2>1, <3>1, <3>2 DEF Upload
  <2> QED
    BY <1>6, <2>2, <2>3, <2>4, <2>5, <2>6, <2>7, <2>8, <2>9, UserFrame
<1> QED
  BY <1>1, <1>2, <1>3, <1>4, <1>5, <1>6 DEF Next

-----------------------------------------------------------------------------
(* The download *)

LEMMA PlannedIsTyped ==
  ASSUME NEW t \in Transfers
  PROVE  Planned(t) \in SUBSET Keys
BY DEF Planned, Transfers, Plans

LEMMA PrepareDownloadKeeps ==
  ASSUME Inv, PrepareDownload
  PROVE  Download'
<1>1. gen \in Nat /\ shown # None /\ at \in Places /\ shown.keys \subseteq Keys
      /\ "downloading" \notin busy /\ temps' = temps /\ busy' = busy \cup {"downloading"}
  BY DEF Inv, Data, Listing, PrepareDownload, local
<1>2. temps = {}
  BY <1>1 DEF Inv, Download
<1> PICK ks \in SUBSET shown.keys :
       down' = [Idle EXCEPT !.stage = "probe", !.gen = gen, !.todo = ks,
                            !.plan = [k \in ks |-> Item(at, FALSE)]]
  BY DEF PrepareDownload
<1>3. ks \in SUBSET Keys
  BY <1>1
<1>4. [k \in ks |-> Item(at, FALSE)] \in Plans
  BY <1>1, <1>3 DEF Plans, Item
<1>5. down' \in Transfers /\ down'.stage = "probe"
  BY <1>1, <1>3, <1>4, EmptyPlan DEF Transfers
<1> QED
  BY <1>1, <1>2, <1>5 DEF Download

LEMMA ProbeDownloadKeeps ==
  ASSUME Inv, ProbeDownload
  PROVE  Download'
<1>1. down \in Transfers /\ down.stage = "probe" /\ temps = {} /\ "downloading" \in busy
  BY DEF Inv, Download, ProbeDownload
<1>2. UNCHANGED <<temps, busy>>
  BY DEF ProbeDownload, local
<1>3. down' \in Transfers /\ down'.stage \in {"probe", "ended"}
  <2>1. ASSUME NEW result \in {"failed", "cancelled"}, down' = End(down, result)
        PROVE  down' \in Transfers /\ down'.stage \in {"probe", "ended"}
    BY <1>1, <2>1, EndIsTyped
  <2>2. ASSUME NEW k \in down.todo,
               down' = [down EXCEPT !.plan[k].exists = disk[k] # None,
                                    !.todo = @ \ {k},
                                    !.stage = IF down.todo = {k} THEN "ended" ELSE @,
                                    !.result = IF down.todo = {k} THEN "planned" ELSE @]
        PROVE  down' \in Transfers /\ down'.stage \in {"probe", "ended"}
    <3> PICK e \in BOOLEAN : e = (disk[k] # None)
      OBVIOUS
    <3> PICK stage \in {down.stage, "ended"} : stage = IF down.todo = {k} THEN "ended" ELSE down.stage
      OBVIOUS
    <3> PICK result \in {down.result, "planned"} :
               result = IF down.todo = {k} THEN "planned" ELSE down.result
      OBVIOUS
    <3>1. down' = [down EXCEPT !.plan[k].exists = e, !.todo = @ \ {k}, !.stage = stage,
                               !.result = result]
      BY <1>1, <2>2 DEF Transfers
    <3>2. down' \in Transfers
      BY <1>1, <3>1, ProbeIsTyped
    <3>3. down'.stage = stage
      BY <1>1, <3>1 DEF Transfers
    <3> QED
      BY <1>1, <3>2, <3>3
  <2> QED
    BY <2>1, <2>2 DEF ProbeDownload
<1> QED
  BY <1>1, <1>2, <1>3 DEF Download

LEMMA DownloadPreparedKeeps ==
  ASSUME Inv, DownloadPrepared
  PROVE  Download'
<1>1. down \in Transfers /\ down.stage = "ended" /\ temps = {} /\ "downloading" \in busy
  BY DEF Inv, Download, DownloadPrepared
<1>2. temps' = temps
  BY DEF DownloadPrepared, local
<1>3. CASE Stale(down)
  BY <1>1, <1>2, <1>3, EmptyPlan DEF DownloadPrepared, Download
<1>4. CASE ~Stale(down)
  <2>1. down' \in Transfers /\ down'.stage = "ask" /\ busy' = busy
    BY <1>1, <1>4 DEF DownloadPrepared, Transfers
  <2> QED
    BY <1>1, <1>2, <2>1 DEF Download
<1> QED
  BY <1>3, <1>4

LEMMA DownloadAnsweredKeeps ==
  ASSUME Inv, DownloadAnswered
  PROVE  Download'
<1>1. down \in Transfers /\ down.stage = "ask" /\ temps = {} /\ "downloading" \in busy
  BY DEF Inv, Download, DownloadAnswered
<1>2. temps' = temps
  BY DEF DownloadAnswered, local
<1> PICK policy \in Answers(down) :
       IF Goes(down, policy)
       THEN /\ down' = [down EXCEPT !.stage = "begin", !.policy = policy, !.result = "none",
                                    !.todo = Planned(down)]
            /\ UNCHANGED <<busy, closing>>
       ELSE down' = Idle /\ Finish(busy \ {"downloading"})
  BY DEF DownloadAnswered
<1>3. CASE Goes(down, policy)
  <2>1. policy \in {"none", "skip", "overwrite"} /\ Planned(down) \in SUBSET Keys
    BY <1>1, PlannedIsTyped DEF Answers
  <2>0. /\ busy' = busy
        /\ down' = [down EXCEPT !.stage = "begin", !.policy = policy, !.result = "none",
                                !.todo = Planned(down)]
    BY <1>3
  <2>2. /\ down' \in Transfers /\ down'.stage = "begin" /\ down'.plan = down.plan
        /\ down'.todo = Planned(down) /\ busy' = busy
    <3> DEFINE u == Granted(down, policy)
    <3>1. u \in Transfers /\ u.stage = "begin" /\ u.plan = down.plan
      BY <1>1, <2>1, GrantedIsTyped
    <3>2. down' = Narrowed(u, Planned(down))
      BY <2>0 DEF Granted, Narrowed
    <3> HIDE DEF u
    <3>3. /\ down' \in Transfers /\ down'.stage = u.stage
          /\ down'.plan = u.plan /\ down'.todo = Planned(down)
      BY <2>1, <3>1, <3>2, NarrowedIsTyped
    <3> QED
      BY <2>0, <3>1, <3>3
  <2> QED
    BY <1>1, <1>2, <2>2 DEF Download, Planned
<1>4. CASE ~Goes(down, policy)
  BY <1>1, <1>2, <1>4, EmptyPlan DEF Download
<1> QED
  BY <1>3, <1>4

\* One more file: it is skipped, refused, or fetched into its own temporary file.
LEMMA DownloadItemKeeps ==
  ASSUME Inv, DownloadItem
  PROVE  Download'
<1>1. /\ down \in Transfers /\ down.stage \in {"begin", "items"} /\ temps = {}
      /\ "downloading" \in busy /\ down.todo \subseteq Planned(down)
  BY DEF Inv, Download, DownloadItem
<1>2. busy' = busy
  BY DEF DownloadItem
<1>3. Planned(down) \in SUBSET Keys
  BY <1>1, PlannedIsTyped
<1>4. ASSUME NEW result \in {"ok", "failed", "cancelled"}, down' = End(down, result), temps' = temps
      PROVE  Download'
  <2>1. down' \in Transfers /\ down'.stage = "ended"
    BY <1>1, <1>4, EndIsTyped
  <2> QED
    BY <1>1, <1>2, <1>4, <2>1 DEF Download
<1>5. ASSUME NEW k \in down.todo, temps' = temps,
             down' = [down EXCEPT !.stage = "items", !.todo = @ \ {k}]
      PROVE  Download'
  <2>1. /\ down' \in Transfers /\ down'.stage = "items" /\ down'.plan = down.plan
        /\ down'.todo = down.todo \ {k}
    BY <1>1, <1>5 DEF Transfers, Running
  <2> QED
    BY <1>1, <1>2, <1>5, <2>1 DEF Download, Planned
<1>6. ASSUME NEW k \in down.todo, temps' = temps \cup {k},
             down' = [down EXCEPT !.stage = "send", !.key = k, !.todo = @ \ {k}]
      PROVE  Download'
  <2>1. /\ down' \in Transfers /\ down'.stage = "send" /\ down'.plan = down.plan
        /\ down'.todo = down.todo \ {k} /\ down'.key = k
    BY <1>1, <1>3, <1>6 DEF Transfers, Running
  <2> QED
    BY <1>1, <1>2, <1>6, <2>1 DEF Download, Planned
<1> QED
  BY <1>4, <1>5, <1>6 DEF DownloadItem

LEMMA DownloadFileKeeps ==
  ASSUME Inv, DownloadFile
  PROVE  Download'
<1>1. /\ down \in Transfers /\ down.stage = "send" /\ temps \subseteq {down.key}
      /\ "downloading" \in busy /\ down.todo \subseteq Planned(down)
  BY DEF Inv, Download, DownloadFile
<1>2. busy' = busy /\ temps' = {}
  BY <1>1 DEF DownloadFile, Abandoned
<1>3. CASE down' = [down EXCEPT !.stage = "items", !.key = None]
  <2>1. /\ down' \in Transfers /\ down'.stage = "items" /\ down'.plan = down.plan
        /\ down'.todo = down.todo
    BY <1>1, <1>3 DEF Transfers, Running
  <2> QED
    BY <1>1, <1>2, <2>1 DEF Download, Planned
<1>4. ASSUME NEW result \in {"failed", "cancelled"}, down' = End(down, result)
      PROVE  Download'
  <2>1. down' \in Transfers /\ down'.stage = "ended"
    BY <1>1, <1>4, EndIsTyped
  <2> QED
    BY <1>1, <1>2, <2>1 DEF Download
<1> QED
  BY <1>3, <1>4 DEF DownloadFile

LEMMA DownloadEndedKeeps ==
  ASSUME Inv, DownloadEnded
  PROVE  Download'
<1>1. temps = {} /\ temps' = temps /\ down' = Idle
  BY DEF Inv, Download, DownloadEnded, local
<1> QED
  BY <1>1, EmptyPlan DEF Download

LEMMA DownloadKept ==
  ASSUME Inv, Next
  PROVE  Download'
<1>a. Download /\ down \in Transfers
  BY DEF Inv, Download
<1> USE DEF local
<1>b. ASSUME UNCHANGED <<temps, down>>, "downloading" \in busy => "downloading" \in busy'
      PROVE  Download'
  BY <1>a, <1>b DEF Download
<1>c. ASSUME temps' = temps, busy' = busy, down' \in Transfers, down'.stage = down.stage,
             down'.plan = down.plan, down'.todo = down.todo, down'.key = down.key
      PROVE  Download'
  BY <1>a, <1>c DEF Download, Planned
<1>1. CASE DownloadStep
  BY <1>1, ProbeDownloadKeeps, DownloadPreparedKeeps, DownloadAnsweredKeeps, DownloadItemKeeps,
     DownloadFileKeeps, DownloadEndedKeeps DEF DownloadStep
<1>2. CASE UploadStep
  <2>1. "downloading" \in busy => "downloading" \in busy'
    BY <1>2 DEF UploadStep, ProbeUpload, UploadPrepared, UploadAnswered, UploadBegins, UploadItem,
                PutFile, CreateMultipart, UploadParts, CompleteMultipart, AbortMultipart,
                UploadEnded, Finish, Uploads
  <2> QED
    BY <1>b, <1>2, <2>1, UploadFrame
<1>3. CASE JobStep
  BY <1>b, <1>3, JobFrame
<1>4. CASE CallStep
  BY <1>b, <1>4, CallFrame
<1>5. CASE Others
  BY <1>b, <1>5, OthersFrame
<1>6. CASE User
  <2>1. temps' = temps
    BY <1>6, UserFrame
  <2>2. CASE PrepareDownload
    BY <2>2, PrepareDownloadKeeps
  <2>3. CASE PrepareUpload
    BY <1>b, <2>1, <2>3 DEF PrepareUpload
  <2>4. CASE Quit
    BY <1>a, <1>c, <2>1, <2>4, WithTokenIsTyped DEF Quit
  <2>5. CASE \E p \in Owners : SetProfile(p)
    BY <1>a, <1>c, <2>1, <2>5, WithTokenIsTyped DEF SetProfile
  <2>6. CASE UNCHANGED <<busy, down>>
    BY <1>b, <2>1, <2>6
  <2> QED
    BY <1>6, <2>2, <2>3, <2>4, <2>5, <2>6, UserFrame
<1> QED
  BY <1>1, <1>2, <1>3, <1>4, <1>5, <1>6 DEF Next

-----------------------------------------------------------------------------
(* The change of an object *)

LEMMA NoJobIsTyped ==
  NoJob \in Jobs /\ NoJob.stage = "idle"
BY DEF NoJob, Jobs, Values, Contents

LEMMA JobEndsKeeps ==
  ASSUME Change, NEW result \in {"ok", "failed"}, JobEnds(result), job.stage # "idle"
  PROVE  Change'
<1>1. /\ job' \in Jobs /\ job'.stage = "ended" /\ job'.kind = job.kind /\ job'.place = job.place
      /\ job'.key = job.key /\ job'.asked = job.asked
  BY DEF Change, JobEnds, Jobs
<1> QED
  BY <1>1 DEF Change

LEMMA ChooseKeeps ==
  ASSUME Inv, NEW kind \in {"rename", "delete"}, NEW k \in Keys, NEW t \in Keys \cup {None},
         Choose(kind, k, t)
  PROVE  Change'
<1>1. at \in Places /\ gen \in Nat
  BY DEF Inv, Data, Listing, Choose
<1>2. /\ job' \in Jobs /\ job'.stage = "ask" /\ job'.kind = kind /\ job'.place = at
      /\ job'.key = k /\ job'.asked = at
  BY <1>1, NoJobIsTyped DEF Choose, Jobs
<1> QED
  BY <1>1, <1>2 DEF Change

LEMMA ChangeStepKeeps ==
  ASSUME Inv, JobStep
  PROVE  Change'
<1>a. Change /\ job \in Jobs /\ copied \subseteq copied'
  BY DEF Inv, Change, JobStep, Answer, DeleteObject, CheckRename, HeadObject, CopyObject,
         DropSource, JobEnded, history
<1>1. CASE job' = NoJob
  BY <1>1, NoJobIsTyped DEF Change
<1>2. ASSUME NEW result \in {"ok", "failed"}, JobEnds(result), job.stage # "idle"
      PROVE  Change'
  BY <1>a, <1>2, JobEndsKeeps
<1>3. ASSUME NEW stage \in {"check", "head", "drop"}, job' = [job EXCEPT !.stage = stage],
             job.stage # "idle",
             stage \in {"head", "drop"} => job.kind = "rename",
             stage = "drop" => job.etag \in copied'
      PROVE  Change'
  <2>1. /\ job' \in Jobs /\ job'.stage = stage /\ job'.kind = job.kind /\ job'.place = job.place
        /\ job'.key = job.key /\ job'.asked = job.asked /\ job'.etag = job.etag
    BY <1>a, <1>3 DEF Jobs
  <2> QED
    BY <1>a, <1>3, <2>1 DEF Change
<1>4. CASE Answer
  BY <1>1, <1>3, <1>4 DEF Answer, Confirmed
<1>5. CASE DeleteObject
  BY <1>2, <1>5 DEF DeleteObject
<1>6. CASE CheckRename
  BY <1>2, <1>3, <1>6 DEF CheckRename
<1>7. CASE HeadObject
  <2>1. CASE JobEnds("failed")
    BY <1>2, <1>7, <2>1 DEF HeadObject
  <2>2. CASE job' = [job EXCEPT !.stage = "copy", !.etag = Name(job.key)]
    <3>1. job.stage = "head" /\ job.place \in Places /\ job.key \in Keys
      BY <1>a, <1>7 DEF HeadObject, Change
    <3>2. Name(job.key) \in Values
      BY <3>1 DEF Name, Inv, Data
    <3>3. /\ job' \in Jobs /\ job'.stage = "copy" /\ job'.kind = job.kind
          /\ job'.place = job.place /\ job'.key = job.key /\ job'.asked = job.asked
      BY <1>a, <2>2, <3>2 DEF Jobs
    <3> QED
      BY <1>a, <3>1, <3>3 DEF Change
  <2> QED
    BY <1>7, <2>1, <2>2 DEF HeadObject
<1>8. CASE CopyObject
  <2>1. job.stage = "copy" /\ job.kind = "rename"
    BY <1>a, <1>8 DEF CopyObject, Change
  <2> QED
    BY <1>2, <1>3, <1>8, <2>1 DEF CopyObject
<1>9. CASE DropSource
  BY <1>2, <1>9 DEF DropSource
<1>10. CASE JobEnded
  BY <1>1, <1>10 DEF JobEnded
<1> QED
  BY <1>4, <1>5, <1>6, <1>7, <1>8, <1>9, <1>10 DEF JobStep

LEMMA ChangeKept ==
  ASSUME Inv, Next
  PROVE  Change'
<1>1. CASE JobStep
  BY <1>1, ChangeStepKeeps
<1>2. CASE UNCHANGED <<job, copied>>
  BY <1>2 DEF Inv, Change
<1>3. ASSUME NEW k \in Keys, copied' = copied,
             Choose("delete", k, None) \/ \E t \in Keys : Choose("rename", k, t)
      PROVE  Change'
  BY <1>3, ChooseKeeps
<1> QED
  BY <1>1, <1>2, <1>3, UploadFrame, DownloadFrame, CallFrame, OthersFrame, UserFrame
  DEF Next, history

-----------------------------------------------------------------------------
(* The theorems *)

LEMMA InitInv ==
  ASSUME Init
  PROVE  Inv
<1>1. Data
  BY DEF Init, Data, Values, Contents
<1>2. Listing
  <2>1. Home \in Places /\ Owner[Home] \in Owners
    BY S3PageAssumption DEF Owners
  <2>2. /\ Call("list", 0, Home) \in Calls /\ Call("list", 0, Home).gen = 0
        /\ Call("list", 0, Home).place = Home
    BY <2>1 DEF Call, Calls
  <2> QED
    BY <2>1, <2>2 DEF Init, Listing
<1>3. Upload
  BY EmptyPlan DEF Init, Upload, Running, Absent, Entry, EntryStates
<1>4. Download
  BY EmptyPlan DEF Init, Download
<1>5. Change
  BY NoJobIsTyped DEF Init, Change
<1> QED
  BY <1>1, <1>2, <1>3, <1>4, <1>5 DEF Inv

LEMMA NextKeepsInv ==
  ASSUME Inv, [Next]_vars
  PROVE  Inv'
<1>1. CASE Next
  BY <1>1, DataKept, ListingKept, UploadKept, DownloadKept, ChangeKept DEF Inv
<1>2. CASE UNCHANGED vars
  BY <1>2 DEF vars, remote, local, view, history, Inv, Data, Listing, Upload, Here, Download, Change
<1> QED
  BY <1>1, <1>2

LEMMA Invariance ==
  Spec => []Inv
<1>1. Init => Inv
  BY InitInv
<1>2. Inv /\ [Next]_vars => Inv'
  BY NextKeepsInv
<1> QED
  BY <1>1, <1>2, PTL DEF Spec

\* multipart_file and download_file clean up behind themselves: an open multipart
\* upload is the one of the item that is being sent, and a temporary file the one
\* of the file that is being fetched, whatever fails and whoever cancels.
THEOREM TransfersCleanUp == Spec => []NothingHalfDone
<1>1. Inv => NothingHalfDone
  <2> SUFFICES ASSUME Inv
               PROVE  NothingHalfDone
    OBVIOUS
  <2>1. None \notin Keys
    BY S3PageAssumption
  <2> QED
    BY <2>1 DEF Inv, Upload, Download, NothingHalfDone, Running
<1> QED
  BY <1>1, Invariance, PTL

\* The upload queue (_progressed, _upload_completed, _upload_failed,
\* _upload_cancelled, set_profile): a success it shows is an upload that succeeded
\* at the target it shows, and no entry stays running when its upload is over.
THEOREM QueueTellsTheTruth == Spec => []QueueIsTrue
<1>1. Inv => QueueIsTrue
  BY DEF Inv, Upload, QueueIsTrue
<1> QED
  BY <1>1, Invariance, PTL

\* list_objects and its generation: what is shown is a listing of the place the
\* page is at, in whatever order the answers come.
THEOREM ListingIsCurrent == Spec => []ListedIsHere
<1>1. Inv => ListedIsHere
  <2> SUFFICES ASSUME Inv, shown # None
               PROVE  shown.place = at /\ Owner[at] = profile
    BY DEF ListedIsHere
  <2>1. at \in Places /\ None \notin Places
    BY S3PageAssumption DEF Inv, Listing
  <2> QED
    BY <2>1 DEF Inv, Listing
<1> QED
  BY <1>1, Invariance, PTL

-----------------------------------------------------------------------------
(* What a step may not do *)

LEMMA ReplacesWhatWasFound ==
  ASSUME Inv, Next
  PROVE  ReplacesByConsent
<1> SUFFICES ASSUME NEW k \in Keys, down.stage = "send", down # down', disk[k] # None,
                    disk'[k] # disk[k]
             PROVE  down.policy = "overwrite" /\ k \in Conflicts(down)
  BY DEF ReplacesByConsent
<1>1. DownloadFile
  <2>1. disk' # disk
    OBVIOUS
  <2>2. DownloadStep
    BY <2>1, UploadFrame, JobFrame, CallFrame, OthersFrame, UserFrame DEF Next, local
  <2> QED
    BY <2>1, <2>2 DEF DownloadStep, ProbeDownload, DownloadPrepared, DownloadAnswered,
                      DownloadItem, DownloadEnded, local
<1>2. PICK content : disk' = [disk EXCEPT ![down.key] = content]
                     /\ (disk[down.key] = None \/ Replaces(down.key))
  BY <1>1 DEF DownloadFile
<1>3. k = down.key
  BY <1>2 DEF Inv, Data
<1>4. down.key \in Planned(down)
  BY DEF Inv, Download
<1> QED
  BY <1>2, <1>3, <1>4 DEF Replaces, Conflicts

LEMMA RemovesWhatWasChosen ==
  ASSUME Inv, Next
  PROVE  RemovesByConsent
<1> SUFFICES ASSUME NEW p \in Places, NEW k \in Keys, job # job', obj[p][k] # None,
                    obj'[p][k] # obj[p][k]
             PROVE  \/ job.kind = "rename" /\ obj[p][k] \in copied /\ obj'[p][k] = None
                    \/ job.kind = "delete" /\ p = job.asked /\ k = job.key
  BY DEF RemovesByConsent
<1>a. obj \in [Places -> [Keys -> Values]]
  BY DEF Inv, Data
<1>1. DeleteObject \/ CopyObject \/ DropSource
  <2>1. JobStep
    BY UploadFrame, DownloadFrame, CallFrame, OthersFrame, UserFrame DEF Next, remote
  <2> QED
    BY <2>1 DEF JobStep, Answer, CheckRename, HeadObject, JobEnded, remote
<1>2. CASE DeleteObject
  <2>1. obj' = [obj EXCEPT ![job.place][job.key] = None] /\ job.kind = "delete"
        /\ job.stage = "check"
    BY <1>2 DEF DeleteObject
  <2>2. p = job.place /\ k = job.key
    BY <1>a, <2>1
  <2> QED
    BY <2>1, <2>2 DEF Inv, Change
<1>3. CASE CopyObject
  <2>1. obj' = [obj EXCEPT ![job.place][job.target] = job.etag] /\ obj[job.place][job.target] = None
    BY <1>3 DEF CopyObject, MayCopy, Name
  <2> QED
    BY <1>a, <2>1
<1>4. CASE DropSource
  <2>1. obj' = [obj EXCEPT ![job.place][job.key] = None] /\ obj[job.place][job.key] = job.etag
        /\ job.stage = "drop"
    BY <1>4 DEF DropSource, MayDrop, Name
  <2>2. p = job.place /\ k = job.key
    BY <1>a, <2>1
  <2>3. obj[p][k] = job.etag /\ obj'[p][k] = None
    BY <1>a, <2>1, <2>2
  <2> QED
    BY <2>1, <2>3 DEF Inv, Change
<1> QED
  BY <1>1, <1>2, <1>3, <1>4

\* A download replaces a file only where it was found before and the user agreed
\* (prepare_download, download_file); a rename removes only what it has copied,
\* and a delete only the object its dialog was about (rename_object,
\* delete_object), whatever others write between any two calls.
THEOREM NothingElseIsLost == Spec => LosesOnlyWhatWasAsked
<1>1. Inv /\ [Next]_vars => [ReplacesByConsent /\ RemovesByConsent]_vars
  BY ReplacesWhatWasFound, RemovesWhatWasChosen
<1> QED
  BY <1>1, Invariance, PTL DEF Spec, LosesOnlyWhatWasAsked
=============================================================================
