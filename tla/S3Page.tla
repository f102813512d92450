------------------------------- MODULE S3Page --------------------------------
(***************************************************************************)
(* The GUI's S3 page with the S3 service and its gateway: the upload queue *)
(* and its transfers, batch downloads, rename and delete of one object,    *)
(* listings, the change of profile and complete quit.                      *)
(*                                                                         *)
(* `up`, `down` and `job` are the page's upload, download and change of an *)
(* object; their stage says which worker step, dialog or callback is next. *)
(* The bucket and the local directory have other writers, who come between *)
(* any two steps.  Progress reaches the queue in the step that reports it: *)
(* nothing else reads the queue while a transfer runs.                     *)
(***************************************************************************)
EXTENDS Naturals, FiniteSets

CONSTANTS
  Keys,            \* object keys; a key also stands for the local file of it
  Places,          \* what a listing is of: profile, bucket and prefix
  Owner,           \* the profile of a place
  Home,            \* the place the page starts at
  Big,             \* keys whose file is uploaded in parts
  None,
  Uses,            \* sets of what happens in one session, see UseKinds, FaultKinds
  MaxGenerations,  \* bound: changes of profile
  MaxListings,     \* bound: listings
  MaxWrites        \* bound: new contents

UseKinds == {"upload", "download", "rename", "delete", "navigate"}

\* "refused": a call fails and has no effect.  "lost": a call has its effect
\* and fails.  "others": other programs write and remove objects and files.
FaultKinds == {"refused", "lost", "others"}

ASSUME S3PageAssumption ==
  /\ Big \subseteq Keys
  /\ \A use \in Uses : use \subseteq UseKinds \cup FaultKinds
  /\ Home \in Places
  /\ None \notin Keys \cup Places \cup Nat \cup {Owner[p] : p \in Places}

VARIABLES
  obj,       \* the content of each key at each place, or None
  disk,      \* the content of each file in the download directory, or None
  writes,    \* contents made so far
  parts,     \* open multipart uploads nobody tried to abort: <<place, key>>
  temps,     \* temporary files of downloads
  profile,   \* _profile_id
  at,        \* bucket and prefix of the page, None without a bucket
  gen,       \* _profile_generation
  listGen,   \* _listing_generation
  calls,     \* listings and catalogues in flight
  shown,     \* _listed_objects and the place they are of, or None
  queue,     \* _queue: the state and the target of each source
  busy,      \* the page's *_in_progress and _preparing_upload
  up, down, job,
  closing,   \* "no", "waiting" (a callback is due) or "closed" (it was called)
  use,       \* what happens in this session
  sent,      \* history: <<place, key>> uploaded with success since it was queued
  copied     \* history: contents that a rename put at its target

remote == <<obj, writes, parts>>
local == <<disk, temps>>
view == <<profile, at, gen, listGen, calls, shown>>
history == <<sent, copied>>
vars == <<remote, local, view, queue, busy, up, down, job, closing, use, history>>

-----------------------------------------------------------------------------
(* Data *)

Contents == Nat \cup {None}
LocalFile == MaxWrites + 1  \* the content of a source of uploads
EntryStates == {"absent", "wait", "run", "ok", "skip", "fail", "cancel"}
Entry(state, place) == [state |-> state, place |-> place]
Absent == Entry("absent", None)

\* A transfer: its plan (what preflight found of each key), what is left of
\* it, the key it is at, the cancellation token and how it ended.
Idle == [stage |-> "idle", gen |-> 0, plan |-> <<>>, todo |-> {}, key |-> None,
         policy |-> "none", cancelled |-> FALSE, result |-> "none"]
NoJob == [stage |-> "idle", kind |-> "none", gen |-> 0, place |-> None, key |-> None,
          target |-> None, etag |-> None, result |-> "none", asked |-> None]

Item(place, exists) == [place |-> place, exists |-> exists]
Planned(t) == DOMAIN t.plan
Conflicts(t) == {k \in Planned(t) : t.plan[k].exists}
End(t, result) == [t EXCEPT !.stage = "ended", !.result = result, !.key = None]

\* cancel_upload, cancel_download: there is a handle once the transfer was submitted.
Running == {"begin", "items", "send", "abort"}
WithToken(t) == [t EXCEPT !.cancelled = @ \/ t.stage \in Running]

Fails == "refused" \in use
Loses == "lost" \in use

\* A call for a listing or a catalogue, and what it found.
Call(kind, g, place) == [kind |-> kind, gen |-> g, place |-> place, found |-> None]

\* The page after its first profile was loaded.
Init ==
  /\ use \in Uses
  /\ \E present \in SUBSET Keys :
       obj = [p \in Places |-> [k \in Keys |-> IF k \in present THEN 0 ELSE None]]
  /\ \E present \in SUBSET (IF "download" \in use THEN Keys ELSE {}) :
       disk = [k \in Keys |-> IF k \in present THEN 0 ELSE None]
  /\ writes = 0 /\ parts = {} /\ temps = {}
  /\ at = Home /\ profile = Owner[Home] 
  /\ gen = 0 /\ listGen = 0 /\ shown = None
  /\ calls = IF "upload" \in use THEN {} ELSE {Call("list", 0, Home)}
  /\ queue = [k \in Keys |-> Absent]
  /\ busy = {} /\ up = Idle /\ down = Idle /\ job = NoJob
  /\ closing = "no"
  /\ sent = {} /\ copied = {}

\* _finish_shutdown, with what will be busy.  _flags: only the flags are cleared.
Finish_flags(rest) == busy' = rest /\ UNCHANGED closing
Finish(rest) ==
  /\ busy' = rest
  /\ closing' = IF closing = "waiting" /\ rest = {} THEN "closed" ELSE closing

-----------------------------------------------------------------------------
(* Listings *)

\* list_objects of a place; `rest` are the calls there are without it.  Bound:
\* who only uploads does not look at listings.
List(place, rest) ==
  /\ at' = place /\ shown' = None
  /\ listGen < MaxListings /\ listGen' = listGen + 1
  /\ calls' = rest \cup (IF "upload" \in use THEN {} ELSE {Call("list", listGen + 1, place)})

\* Moves within the profile: breadcrumb, search, folders, the catalogue.
Navigate ==
  /\ "navigate" \in use /\ profile # None
  /\ \E p \in Places : Owner[p] = profile /\ List(p, calls)
  /\ UNCHANGED <<remote, local, profile, gen, queue, busy, up, down, job, closing, use, history>>

\* set_profile: cancels transfers, forgets everything, loads the catalogue.
SetProfile(p) ==
  /\ gen < MaxGenerations
  /\ up' = WithToken(up) /\ down' = WithToken(down)
  /\ gen' = gen + 1 /\ listGen' = listGen + 1
  /\ queue' = [k \in Keys |-> Absent]
  /\ profile' = p /\ at' = None /\ shown' = None
  /\ calls' = calls \cup {Call("buckets", gen + 1, p)}
  /\ sent' = {}
  /\ UNCHANGED <<remote, local, busy, job, closing, use, copied>>

\* ListObjectsV2: what is there now.
Contained(place) == {k \in Keys : obj[place][k] # None}

\* The worker lists.
Look(c) ==
  /\ c.kind = "list" /\ c.found = None
  /\ calls' = (calls \ {c}) \cup {[c EXCEPT !.found = Contained(c.place)]}
  /\ UNCHANGED <<remote, local, profile, at, gen, listGen, shown, queue, busy, up, down, job,
                 closing, use, history>>

\* loaded of list_objects.  _late: whatever the generation is by now.
Listed_late(c) ==
  /\ c.kind = "list" /\ c.found # None
  /\ calls' = calls \ {c}
  /\ shown' = [place |-> c.place, keys |-> c.found]
  /\ UNCHANGED <<remote, local, profile, at, gen, listGen, queue, busy, up, down, job,
                 closing, use, history>>
Listed(c) ==
  /\ c.kind = "list" /\ c.found # None
  /\ calls' = calls \ {c}
  /\ shown' = IF c.gen = listGen THEN [place |-> c.place, keys |-> c.found] ELSE shown
  /\ UNCHANGED <<remote, local, profile, at, gen, listGen, queue, busy, up, down, job,
                 closing, use, history>>

\* loaded and failed of load_buckets: the page goes to a bucket and lists it.
Catalogued(c) ==
  /\ c.kind = "buckets"
  /\ IF c.gen = gen
     THEN \E p \in Places : Owner[p] = profile /\ List(p, calls \ {c})
     ELSE calls' = calls \ {c} /\ UNCHANGED <<at, shown, listGen>>
  /\ UNCHANGED <<remote, local, profile, gen, queue, busy, up, down, job, closing, use, history>>

-----------------------------------------------------------------------------
(* The upload queue *)

Uploads == {"preparing", "uploading"}

\* add_sources, remove_source, clear_sources: not while an upload is under way.
AddSource(k) ==
  /\ "upload" \in use /\ busy \cap Uploads = {} /\ queue[k] = Absent
  /\ queue' = [queue EXCEPT ![k] = Entry("wait", None)]
  /\ sent' = {s \in sent : s[2] # k}
  /\ UNCHANGED <<remote, local, view, busy, up, down, job, closing, use, copied>>
RemoveSource(k) ==
  /\ busy \cap Uploads = {} /\ queue[k] # Absent
  /\ queue' = [queue EXCEPT ![k] = Absent]
  /\ UNCHANGED <<remote, local, view, busy, up, down, job, closing, use, history>>

Pending == {k \in Keys : queue[k].state \in {"wait", "fail", "cancel"}}
Target(k) == IF queue[k].place = None THEN at ELSE queue[k].place

\* prepare_upload: all that is left, or one failed source again.
PrepareUpload ==
  /\ profile # None /\ at # None /\ busy \cap Uploads = {}
  /\ \E sources \in {Pending} \cup {{k} : k \in {k \in Keys : queue[k].state = "fail"}} :
       /\ sources # {}
       /\ up' = [Idle EXCEPT !.stage = "probe", !.gen = gen, !.todo = sources,
                             !.plan = [k \in sources |-> Item(Target(k), FALSE)]]
  /\ busy' = busy \cup {"preparing"}
  /\ UNCHANGED <<remote, local, view, queue, down, job, closing, use, history>>

\* S3Service.prepare_upload: one look per key; or it fails, or no MFA code.
ProbeUpload ==
  /\ up.stage = "probe"
  /\ \/ \E k \in up.todo :
          up' = [up EXCEPT !.plan[k].exists = obj[up.plan[k].place][k] # None,
                           !.todo = @ \ {k},
                           !.stage = IF up.todo = {k} THEN "ended" ELSE @,
                           !.result = IF up.todo = {k} THEN "planned" ELSE @]
     \/ Fails /\ \E result \in {"failed", "cancelled"} : up' = End(up, result)
  /\ UNCHANGED <<remote, local, view, queue, busy, down, job, closing, use, history>>

\* _upload_prepared: without conflicts nobody is asked.
Stale(t) == t.gen # gen \/ closing # "no"
UploadPrepared ==
  /\ up.stage = "ended" /\ up.result = "planned"
  /\ up' = IF Stale(up) THEN Idle ELSE [up EXCEPT !.stage = "ask"]
  /\ Finish(busy \ {"preparing"})
  /\ UNCHANGED <<remote, local, view, queue, down, job, use, history>>

Answers(t) == IF Conflicts(t) = {} THEN {"skip"} ELSE {"skip", "overwrite", "none"}

\* The dialog is answered.  The entries of the plan are new ones.
Goes(t, policy) == policy # "none" /\ ~Stale(t)
UploadAnswered ==
  /\ up.stage = "ask"
  /\ \E policy \in Answers(up) :
       IF Goes(up, policy)
       THEN /\ up' = [up EXCEPT !.stage = "begin", !.policy = policy, !.result = "none"]
            /\ queue' = [k \in Keys |-> IF k \in Planned(up)
                                        THEN Entry("wait", up.plan[k].place) ELSE queue[k]]
            /\ busy' = busy \cup {"uploading"} /\ UNCHANGED closing
       ELSE up' = Idle /\ UNCHANGED queue /\ Finish(busy)
  /\ UNCHANGED <<remote, local, view, down, job, use, history>>

\* _progressed: an event of an upload of another profile changes no entry.
Show(ks, state) ==
  queue' = IF up.gen # gen THEN queue
           ELSE [k \in Keys |-> IF k \in ks /\ k \in Planned(up)
                                THEN Entry(state, up.plan[k].place) ELSE queue[k]]

-----------------------------------------------------------------------------
(* S3Service.upload and the gateway's put_file and multipart_file *)

UploadBegins ==
  /\ up.stage = "begin"
  /\ \/ up.cancelled /\ up' = End(up, "cancelled") /\ UNCHANGED queue
     \/ /\ ~up.cancelled
        /\ LET skipped == IF up.policy = "skip" THEN Conflicts(up) ELSE {}
               rest == Planned(up) \ skipped
           IN /\ up' = IF rest = {} THEN End(up, "ok")
                       ELSE [up EXCEPT !.stage = "items", !.todo = rest]
              /\ Show(skipped, "skip")
     \/ Fails /\ \E result \in {"failed", "cancelled"} : up' = End(up, result) /\ UNCHANGED queue
  /\ UNCHANGED <<remote, local, view, busy, down, job, closing, use, history>>

\* One item of the loop: look for the key again, then send it.
Recheck(k) == up.policy = "skip" /\ obj[up.plan[k].place][k] # None
UploadItem ==
  /\ up.stage = "items"
  /\ \/ up.cancelled /\ up' = End(up, "cancelled") /\ UNCHANGED queue
     \/ up.todo = {} /\ ~up.cancelled /\ up' = End(up, "ok") /\ UNCHANGED queue
     \/ /\ ~up.cancelled
        /\ \E k \in up.todo :
             IF Recheck(k)
             THEN up' = [up EXCEPT !.todo = @ \ {k}] /\ Show({k}, "skip")
             ELSE /\ up' = [up EXCEPT !.stage = "send", !.key = k, !.todo = @ \ {k}]
                  /\ Show({k}, "run")
     \/ Fails /\ up.todo # {} /\ up' = End(up, "failed") /\ UNCHANGED queue
  /\ UNCHANGED <<remote, local, view, busy, down, job, closing, use, history>>

Here == <<up.plan[up.key].place, up.key>>
Put(content, place, k) == obj' = [obj EXCEPT ![place][k] = content]
Sent ==
  /\ Put(LocalFile, Here[1], up.key) /\ sent' = sent \cup {Here}
  /\ up' = [up EXCEPT !.stage = "items", !.key = None] /\ Show({up.key}, "ok")

\* put_file: the reader of the body gives up when it is cancelled.
PutFile ==
  /\ up.stage = "send" /\ up.key \notin Big
  /\ \/ Sent
     \/ /\ \/ up.cancelled /\ up' = End(up, "cancelled")
           \/ Fails /\ up' = End(up, "failed")
        /\ UNCHANGED <<obj, queue, sent>>
     \/ Loses /\ Put(LocalFile, Here[1], up.key) /\ up' = End(up, "failed") /\ UNCHANGED <<queue, sent>>
  /\ UNCHANGED <<writes, parts, local, view, busy, down, job, closing, use, copied>>

\* multipart_file: created, its parts one after another, completed; whatever
\* happens after the creation, it is aborted.
CreateMultipart ==
  /\ up.stage = "send" /\ up.key \in Big /\ Here \notin parts
  /\ \/ parts' = parts \cup {Here} /\ UNCHANGED up
     \/ Fails /\ up' = End(up, "failed") /\ UNCHANGED parts
  /\ UNCHANGED <<obj, writes, local, view, queue, busy, down, job, closing, use, history>>

Aborting(result) == up' = [up EXCEPT !.stage = "abort", !.result = result]
\* Between parts and before the completion.
UploadParts ==
  /\ up.stage = "send" /\ up.key \in Big /\ Here \in parts
  /\ \/ up.cancelled /\ Aborting("cancelled")
     \/ Fails /\ Aborting("failed")
  /\ UNCHANGED <<remote, local, view, queue, busy, down, job, closing, use, history>>
CompleteMultipart ==
  /\ up.stage = "send" /\ up.key \in Big /\ Here \in parts
  /\ parts' = parts \ {Here}
  /\ \/ Sent
     \/ Loses /\ Put(LocalFile, Here[1], up.key) /\ Aborting("failed") /\ UNCHANGED <<queue, sent>>
  /\ UNCHANGED <<writes, local, view, busy, down, job, closing, use, copied>>

\* _failed: only a failure is cleaned up, not a cancellation.
AbortMultipart_failed ==
  /\ up.stage = "abort"
  /\ parts' = IF up.result = "failed" THEN parts \ {Here} ELSE parts
  /\ up' = End(up, up.result)
  /\ UNCHANGED <<obj, writes, local, view, queue, busy, down, job, closing, use, history>>
AbortMultipart ==
  /\ up.stage = "abort"
  /\ parts' = parts \ {Here}
  /\ up' = End(up, up.result)
  /\ UNCHANGED <<obj, writes, local, view, queue, busy, down, job, closing, use, history>>

\* What the callbacks make of the entries.  _cancel: a cancelled upload leaves
\* the entries as they are.
Outcome_cancel(k) ==
  LET running == \E j \in Keys : queue[j].state = "run"
      failed == queue[k].state = "run" \/ (~running /\ queue[k].state = "wait")
  IN IF up.result = "failed" /\ k \in Planned(up) /\ failed
     THEN [queue[k] EXCEPT !.state = "fail"] ELSE queue[k]
Outcome(k) ==
  LET running == \E j \in Keys : queue[j].state = "run"
      failed == queue[k].state = "run" \/ (~running /\ queue[k].state = "wait")
  IN CASE up.result = "failed" /\ k \in Planned(up) /\ failed -> [queue[k] EXCEPT !.state = "fail"]
       [] up.result = "cancelled" /\ queue[k].state = "run" -> [queue[k] EXCEPT !.state = "cancel"]
       [] OTHER -> queue[k]

\* _upload_completed, _upload_failed, _upload_cancelled and, of a preflight,
\* _mfa_cancelled.
UploadEnded ==
  /\ up.stage = "ended" /\ up.result # "planned"
  /\ queue' = IF up.gen = gen THEN [k \in Keys |-> Outcome(k)] ELSE queue
  /\ up' = Idle /\ Finish(busy \ Uploads)
  /\ IF up.result = "ok" /\ profile # None /\ at # None /\ listGen < MaxListings
     THEN List(at, calls) ELSE UNCHANGED <<at, shown, listGen, calls>>
  /\ UNCHANGED <<remote, local, profile, gen, down, job, use, history>>

-----------------------------------------------------------------------------
(* Downloads *)

\* download_selected_objects and S3Service.prepare_download, which looks at the
\* files of the destination; the destination's dialog comes before.
PrepareDownload ==
  /\ "download" \in use /\ "downloading" \notin busy /\ shown # None
  /\ \E ks \in SUBSET shown.keys :
       /\ ks # {}
       /\ down' = [Idle EXCEPT !.stage = "probe", !.gen = gen, !.todo = ks,
                               !.plan = [k \in ks |-> Item(at, FALSE)]]
  /\ busy' = busy \cup {"downloading"}
  /\ UNCHANGED <<remote, local, view, queue, up, job, closing, use, history>>

ProbeDownload ==
  /\ down.stage = "probe"
  /\ \/ \E k \in down.todo :
          down' = [down EXCEPT !.plan[k].exists = disk[k] # None,
                               !.todo = @ \ {k},
                               !.stage = IF down.todo = {k} THEN "ended" ELSE @,
                               !.result = IF down.todo = {k} THEN "planned" ELSE @]
     \/ Fails /\ \E result \in {"failed", "cancelled"} : down' = End(down, result)
  /\ UNCHANGED <<remote, local, view, queue, busy, up, job, closing, use, history>>

\* _download_prepared; the flag stays while the dialog is open.
DownloadPrepared ==
  /\ down.stage = "ended" /\ down.result = "planned"
  /\ IF Stale(down) THEN down' = Idle /\ Finish(busy \ {"downloading"})
     ELSE down' = [down EXCEPT !.stage = "ask"] /\ UNCHANGED <<busy, closing>>
  /\ UNCHANGED <<remote, local, view, queue, up, job, use, history>>
DownloadAnswered ==
  /\ down.stage = "ask"
  /\ \E policy \in Answers(down) :
       IF Goes(down, policy)
       THEN /\ down' = [down EXCEPT !.stage = "begin", !.policy = policy, !.result = "none",
                                    !.todo = Planned(down)]
            /\ UNCHANGED <<busy, closing>>
       ELSE down' = Idle /\ Finish(busy \ {"downloading"})
  /\ UNCHANGED <<remote, local, view, queue, up, job, use, history>>

\* S3Service.download: what is there is skipped, or was confirmed, or ends it.
DownloadItem ==
  /\ down.stage \in {"begin", "items"}
  /\ \/ down.cancelled /\ down' = End(down, "cancelled") /\ UNCHANGED temps
     \/ down.todo = {} /\ ~down.cancelled /\ down' = End(down, "ok") /\ UNCHANGED temps
     \/ Fails /\ down.stage = "begin" /\ UNCHANGED temps
        /\ \E result \in {"failed", "cancelled"} : down' = End(down, result)
     \/ /\ ~down.cancelled
        /\ \E k \in down.todo :
             CASE disk[k] # None /\ down.policy = "skip" ->
                    /\ down' = [down EXCEPT !.stage = "items", !.todo = @ \ {k}]
                    /\ UNCHANGED temps
               [] disk[k] # None /\ down.policy # "skip" /\ ~down.plan[k].exists ->
                    down' = End(down, "failed") /\ UNCHANGED temps
               [] OTHER ->
                    /\ down' = [down EXCEPT !.stage = "send", !.key = k, !.todo = @ \ {k}]
                    /\ temps' = temps \cup {k}
  /\ UNCHANGED <<remote, disk, view, queue, busy, up, job, closing, use, history>>

\* May the file be replaced?  _policy: as soon as anything may be.
Replaces_policy(k) == down.policy = "overwrite"
Replaces(k) == down.policy = "overwrite" /\ down.plan[k].exists

\* download_file: into a temporary file that replaces the destination, or is
\* renamed to it if there is none.
Abandoned == temps' = temps \ {down.key}
DownloadFile ==
  LET k == down.key
      content == obj[down.plan[k].place][k]
  IN /\ down.stage = "send"
     /\ \/ /\ ~down.cancelled /\ content # None /\ (disk[k] = None \/ Replaces(k))
           /\ disk' = [disk EXCEPT ![k] = content]
           /\ down' = [down EXCEPT !.stage = "items", !.key = None]
           /\ temps' = temps \ {k}
        \/ /\ \/ down.cancelled /\ down' = End(down, "cancelled")
              \/ /\ Fails \/ content = None \/ (disk[k] # None /\ ~Replaces(k))
                 /\ down' = End(down, "failed")
           /\ Abandoned /\ UNCHANGED disk
     /\ UNCHANGED <<remote, view, queue, busy, up, job, closing, use, history>>

\* _download_completed, _download_failed, _download_cancelled, _download_mfa_cancelled.
DownloadEnded ==
  /\ down.stage = "ended" /\ down.result # "planned"
  /\ down' = Idle /\ Finish(busy \ {"downloading"})
  /\ UNCHANGED <<remote, local, view, queue, up, job, use, history>>

-----------------------------------------------------------------------------
(* Rename and delete of one object *)

\* rename_selected_object, delete_selected_object: a dialog about a row.
Choose(kind, k, t) ==
  /\ kind \in use /\ job = NoJob /\ shown # None /\ k \in shown.keys /\ t # k
  /\ job' = [NoJob EXCEPT !.stage = "ask", !.kind = kind, !.gen = gen, !.place = at,
                          !.key = k, !.target = t, !.asked = at]
  /\ UNCHANGED <<remote, local, view, queue, busy, up, down, closing, use, history>>

\* The dialog is answered.
Confirmed == [job EXCEPT !.stage = "check"]
Answer ==
  /\ job.stage = "ask"
  /\ \/ job' = NoJob
     \/ job.gen = gen /\ job' = Confirmed
  /\ UNCHANGED <<remote, local, view, queue, busy, up, down, closing, use, history>>

JobEnds(result) == job' = [job EXCEPT !.stage = "ended", !.result = result]

\* S3Service.delete_object
DeleteObject ==
  /\ job.stage = "check" /\ job.kind = "delete"
  /\ \/ /\ obj' = [obj EXCEPT ![job.place][job.key] = None]
        /\ JobEnds("ok") \/ (Loses /\ JobEnds("failed"))
     \/ Fails /\ JobEnds("failed") /\ UNCHANGED obj
  /\ UNCHANGED <<writes, parts, local, view, queue, busy, up, down, closing, use, history>>

\* S3Service.rename_object: object_exists; the gateway: head_object ...
Name(k) == obj[job.place][k]
CheckRename ==
  /\ job.stage = "check" /\ job.kind = "rename"
  /\ IF Name(job.target) # None THEN JobEnds("failed")
     ELSE job' = [job EXCEPT !.stage = "head"]
  /\ UNCHANGED <<remote, local, view, queue, busy, up, down, closing, use, history>>
HeadObject ==
  /\ job.stage = "head"
  /\ IF Name(job.key) = None THEN JobEnds("failed")
     ELSE job' = [job EXCEPT !.stage = "copy", !.etag = Name(job.key)]
  /\ UNCHANGED <<remote, local, view, queue, busy, up, down, closing, use, history>>

\* ... copy_object if nothing is at the target and the source is unchanged.
MayCopy == Name(job.target) = None /\ Name(job.key) = job.etag
CopyObject ==
  /\ job.stage = "copy"
  /\ \/ /\ MayCopy
        /\ obj' = [obj EXCEPT ![job.place][job.target] = job.etag]
        /\ copied' = copied \cup {job.etag}
        /\ job' = [job EXCEPT !.stage = "drop"] \/ (Loses /\ JobEnds("failed"))
     \/ (~MayCopy \/ Fails) /\ JobEnds("failed") /\ UNCHANGED <<obj, copied>>
  /\ UNCHANGED <<writes, parts, local, view, queue, busy, up, down, closing, use, sent>>

\* ... delete_object if the source is still what was copied.
MayDrop == Name(job.key) = job.etag
DropSource ==
  /\ job.stage = "drop"
  /\ \/ /\ MayDrop
        /\ obj' = [obj EXCEPT ![job.place][job.key] = None]
        /\ JobEnds("ok") \/ (Loses /\ JobEnds("failed"))
     \/ (~MayDrop \/ Fails) /\ JobEnds("failed") /\ UNCHANGED obj
  /\ UNCHANGED <<writes, parts, local, view, queue, busy, up, down, closing, use, history>>

\* The callbacks: the place is listed again.
JobEnded ==
  /\ job.stage = "ended" /\ job' = NoJob
  /\ IF job.result = "ok" /\ at # None /\ listGen < MaxListings
     THEN List(at, calls) ELSE UNCHANGED <<at, shown, listGen, calls>>
  /\ UNCHANGED <<remote, local, profile, gen, queue, busy, up, down, closing, use, history>>

-----------------------------------------------------------------------------
(* Quit, and everybody else *)

\* shutdown
Quit ==
  /\ closing = "no"
  /\ closing' = IF busy = {} THEN "closed" ELSE "waiting"
  /\ up' = WithToken(up) /\ down' = WithToken(down)
  /\ UNCHANGED <<remote, local, view, queue, busy, job, use, history>>

\* toggle_upload: the user cancels.
Cancel ==
  /\ "uploading" \in busy /\ ~up.cancelled
  /\ up' = [up EXCEPT !.cancelled = TRUE]
  /\ UNCHANGED <<remote, local, view, queue, busy, down, job, closing, use, history>>

\* Bound: others write where it matters to an operation under way.
Watched == {up.plan[k].place : k \in Planned(up)} \cup {down.plan[k].place : k \in Planned(down)}
           \cup {p \in {job.place} : p # None}
Others ==
  /\ "others" \in use
  /\ writes < MaxWrites /\ writes' = writes + 1
  /\ \/ \E p \in Watched, k \in Keys, c \in {None, writes + 1} : Put(c, p, k)
        /\ UNCHANGED disk
     \/ "download" \in use /\ \E k \in Keys, c \in {None, writes + 1} : disk' = [disk EXCEPT ![k] = c]
        /\ UNCHANGED obj
  /\ UNCHANGED <<parts, temps, view, queue, busy, up, down, job, closing, use, history>>

UploadStep == ProbeUpload \/ UploadPrepared \/ UploadAnswered \/ UploadBegins \/ UploadItem
  \/ PutFile \/ CreateMultipart \/ UploadParts \/ CompleteMultipart \/ AbortMultipart
  \/ UploadEnded
DownloadStep == ProbeDownload \/ DownloadPrepared \/ DownloadAnswered \/ DownloadItem
  \/ DownloadFile \/ DownloadEnded
JobStep == Answer \/ DeleteObject \/ CheckRename \/ HeadObject \/ CopyObject \/ DropSource
  \/ JobEnded
CallStep == \E c \in calls : Look(c) \/ Listed(c) \/ Catalogued(c)
User ==
  \/ Navigate \/ PrepareUpload \/ PrepareDownload \/ Cancel \/ Quit
  \/ \E p \in {Owner[q] : q \in Places} : SetProfile(p)
  \/ \E k \in Keys : AddSource(k) \/ RemoveSource(k)
  \/ \E k \in Keys : \/ Choose("delete", k, None)
                     \/ \E t \in Keys : Choose("rename", k, t)

Next == UploadStep \/ DownloadStep \/ JobStep \/ CallStep \/ User \/ Others

Spec == Init /\ [][Next]_vars

\* Workers make their calls, callbacks run and modal dialogs are answered.
FairSpec == Spec /\ WF_vars(UploadStep) /\ WF_vars(DownloadStep)

-----------------------------------------------------------------------------
(* Properties *)

\* RELIABILITY.md: "cancel or any post-create failure attempts
\* AbortMultipartUpload before returning"; downloads remove partial files.  An
\* open multipart upload and a temporary file belong to a transfer that runs.
NothingHalfDone ==
  /\ parts \subseteq (IF up.stage \in Running /\ up.key # None THEN {Here} ELSE {})
  /\ temps \subseteq (IF down.stage = "send" THEN {down.key} ELSE {})

\* The queue shows a success for nothing but an upload that succeeded at the
\* target it shows, and no entry is left running, where no retry would take it.
QueueIsTrue == \A k \in Keys :
  /\ queue[k].state = "ok" => <<queue[k].place, k>> \in sent
  /\ queue[k].state = "run" => "uploading" \in busy /\ up.gen = gen

\* "Atomic commit refuses replacement unless overwrite was approved for an
\* existing preflight target; newly appearing targets require another
\* confirmation", whatever others do to the directory meanwhile; a rename never
\* loses a content, its own or one it would replace; and a delete removes what
\* its dialog was about.
ReplacesByConsent == \A k \in Keys :
  down.stage = "send" /\ down # down' /\ disk[k] # None /\ disk'[k] # disk[k]
    => down.policy = "overwrite" /\ k \in Conflicts(down)
RemovesByConsent == \A p \in Places, k \in Keys :
  job # job' /\ obj[p][k] # None /\ obj'[p][k] # obj[p][k]
    => \/ job.kind = "rename" /\ obj[p][k] \in copied /\ obj'[p][k] = None
       \/ job.kind = "delete" /\ p = job.asked /\ k = job.key
LosesOnlyWhatWasAsked == [][ReplacesByConsent /\ RemovesByConsent]_vars

\* What is listed is what is at the place the page shows, so an operation on a
\* row is about the object the user sees ("S3 GUI rejects stale results").
ListedIsHere == shown # None => shown.place = at /\ Owner[at] = profile

\* "GUI shutdown waits for the owned upload's cancellation result": the page
\* lets quit go on, from every state it is in.
QuitGoesOn == closing = "waiting" ~> closing = "closed"
=============================================================================
