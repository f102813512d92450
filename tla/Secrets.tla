------------------------------- MODULE Secrets -------------------------------
(***************************************************************************)
(* The GUI's Secrets page, SecretsService and the Run Command gateway:     *)
(* direct and relayed lookups, the relay test, the saved secrets of SQLite *)
(* with their edits, the timed reveal of values and the change of profile. *)
(*                                                                         *)
(* A task is a call on a worker and a callback on the GUI thread, in any   *)
(* order.  The two are one step where the worker neither reads nor writes  *)
(* what others write.  Equal listings that are in flight together are one  *)
(* task.  Which widget holds the identifier is left out: a lookup is of    *)
(* any secret.                                                             *)
(***************************************************************************)
EXTENDS Naturals, FiniteSets

CONSTANTS
  PageProfiles,
  Home,        \* the profile the page starts with
  Ids,         \* secret identifiers
  Relays,      \* managed nodes
  Reach,       \* the nodes each profile can see
  None,
  Uses,        \* sets of what the user does in one session, see UseKinds
  MaxPolls,    \* max_attempts of the Run Command gateway
  MaxResults,    \* bound: generations of the result
  MaxRevisions,  \* bound: the relay is changed and tested up to this revision
  MaxChanges     \* bound: changes of saved secrets and listings asked for again

UseKinds == {"relayed", "saved", "reveal"}

ASSUME SecretsAssumption ==
  /\ \A use \in Uses : use \subseteq UseKinds
  /\ Home \in PageProfiles /\ Reach \in [PageProfiles -> SUBSET Relays] /\ Reach[Home] # {}
  /\ None \notin PageProfiles \cup Ids \cup Relays
  /\ MaxPolls \in Nat \ {0} /\ {MaxResults, MaxRevisions, MaxChanges} \subseteq Nat

VARIABLES
  profile,      \* _profile_id
  mode,         \* lookup_mode: "direct" or "relayed"
  relays,       \* _relay_targets; None before they are loaded
  relay,        \* what relay_instance shows, or None
  consent,      \* relay_consent
  blocked,      \* _relay_blocked
  testing,      \* _relay_test_busy
  looking,      \* _lookup_busy
  gen, rev,     \* _result_generation, _relay_revision
  result,       \* _result: whose secret, and which; or None
  revealed,     \* of _revealed_paths and _raw_revealed
  timers,       \* single shots that hide: <<what, generation>>
  denied,       \* whose lookup offers the terminal fallback, or None
  entries,      \* _saved_entries
  pending,      \* _pending_saved_id, which the next list loads; or None
  tasks,        \* calls in flight
  rows,         \* saved_secrets
  changes,      \* changes and listings the user asked for
  use,          \* what happens in this session
  agreed        \* history: what the user's last unused consent was given for

choice == <<mode, relays, relay, consent, blocked, testing>>
lookup == <<choice, looking>>
shown == <<gen, result, revealed, timers, denied>>
saved == <<entries, pending>>
session == <<changes, use, agreed>>
secretsVars == <<profile, lookup, rev, shown, saved, tasks, rows, session>>

-----------------------------------------------------------------------------
(* Data *)

Secret(p, id) == [profile |-> p, id |-> id]
TaskKinds == {"get", "test", "list", "relays", "saved", "snapshot", "register", "update", "delete"}

\* `at`: the generation or revision the callback compares; `agreed`: history.
Task(kind, p) ==
  [kind |-> kind, profile |-> p, id |-> None, relay |-> None, at |-> 0, stage |-> "call",
   left |-> MaxPolls, found |-> {}, agreed |-> None]

\* load_saved, load_relays; load_list, which is these two in the relayed mode.
Reading(p) == IF p = None THEN {} ELSE {Task("saved", p)}
Listing(p) == IF p = None THEN {} ELSE {Task("saved", p), Task("relays", p)}
LoadList(p) ==
  IF mode = "relayed" \/ p = None THEN Listing(p) ELSE {Task("list", p)}

\* The page with its first profile, whose listings have come, and maybe with a
\* secret it has loaded.
SecretsInit ==
  /\ profile = Home /\ mode = "direct"
  /\ relays = Reach[Home] /\ relay \in relays
  /\ consent = FALSE /\ blocked = FALSE /\ testing = FALSE /\ looking = FALSE
  /\ rows \in SUBSET {Secret(Home, id) : id \in Ids}
  /\ entries = rows /\ pending = None
  /\ gen = 0 /\ rev = 0 /\ result \in {None} \cup entries /\ revealed = {} /\ timers = {} /\ denied = None
  /\ tasks = {} /\ changes = 0 /\ use \in Uses /\ agreed = None

\* _clear_result.
Cleared ==
  /\ gen < MaxResults /\ gen' = gen + 1
  /\ result' = None /\ revealed' = {} /\ denied' = None
  /\ looking' = FALSE /\ UNCHANGED timers

\* _relay_changed: the combo box shows `r`, which was not what it showed.
\* _keeps: the consent stays.
RelayChanged_keeps(r) ==
  /\ relay' = r /\ rev' = rev + 1
  /\ testing' = FALSE /\ blocked' = FALSE /\ UNCHANGED consent
RelayChanged(r) ==
  /\ relay' = r /\ rev' = rev + 1
  /\ testing' = FALSE /\ blocked' = FALSE /\ consent' = FALSE

-----------------------------------------------------------------------------
(* The user: profile, mode, relay *)

\* set_profile; the combo box reports that it was cleared if it showed a relay.
SetProfile(p) ==
  /\ p # profile /\ profile' = p
  /\ Cleared
  /\ rev' = rev + 1 /\ testing' = FALSE /\ consent' = FALSE
  /\ blocked' = (blocked /\ relay = None)
  /\ relay' = None /\ relays' = None
  /\ entries' = {} /\ pending' = None
  /\ tasks' = tasks \cup Listing(p) \cup LoadList(p)
  /\ UNCHANGED <<mode, rows, session>>

\* The refresh button.
Reload ==
  /\ changes < MaxChanges /\ changes' = changes + 1
  /\ tasks' = tasks \cup LoadList(profile)
  /\ UNCHANGED <<profile, lookup, rev, shown, saved, rows, use, agreed>>

\* _mode_changed: values are hidden, a lookup under way is given up.
\* _flags: the test stays busy.
ModeChanged_flags(m) ==
  /\ mode' = m /\ rev' = rev + 1 /\ consent' = FALSE /\ UNCHANGED testing
  /\ \/ looking /\ Cleared
     \/ /\ ~looking /\ revealed' = {} /\ denied' = None
        /\ UNCHANGED <<gen, result, looking, timers>>
ModeChanged(m) ==
  /\ mode' = m /\ rev' = rev + 1 /\ consent' = FALSE /\ testing' = FALSE
  /\ \/ looking /\ Cleared
     \/ /\ ~looking /\ revealed' = {} /\ denied' = None
        /\ UNCHANGED <<gen, result, looking, timers>>

ChooseMode ==
  /\ "relayed" \in use
  /\ rev < MaxRevisions /\ \E m \in {"direct", "relayed"} \ {mode} : ModeChanged(m)
  /\ UNCHANGED <<profile, relays, relay, blocked, saved, tasks, rows, session>>

ChooseRelay ==
  /\ "relayed" \in use
  /\ relays # None /\ rev < MaxRevisions /\ \E r \in relays \ {relay} : RelayChanged(r)
  /\ UNCHANGED <<profile, mode, relays, looking, shown, saved, tasks, rows, session>>

Consent ==
  /\ "relayed" \in use
  /\ mode = "relayed" /\ consent' = ~consent
  /\ agreed' = IF consent THEN None ELSE [profile |-> profile, relay |-> relay]
  /\ UNCHANGED <<profile, mode, relays, relay, blocked, testing, looking, rev, shown, saved,
                 tasks, rows, changes, use>>

-----------------------------------------------------------------------------
(* Lookups *)

\* _request_secret.
MayLook == mode = "relayed" => relay # None /\ consent /\ ~blocked /\ ~testing
Request(id) ==
  /\ profile # None /\ ~looking /\ MayLook
  /\ gen < MaxResults /\ gen' = gen + 1
  /\ result' = None /\ revealed' = {} /\ denied' = None /\ looking' = TRUE /\ consent' = FALSE
  /\ LET r == IF mode = "relayed" THEN relay ELSE None IN
     tasks' = tasks \cup {[Task("get", profile) EXCEPT !.id = id, !.relay = r, !.at = gen + 1,
                                                       !.agreed = agreed]}
  /\ agreed' = IF mode = "relayed" THEN None ELSE agreed
  /\ UNCHANGED <<profile, mode, relays, relay, blocked, testing, rev, timers, saved, rows,
                 changes, use>>

\* test_relay_connection.
Test ==
  /\ "relayed" \in use
  /\ profile # None /\ relay # None /\ ~testing /\ rev < MaxRevisions
  /\ rev' = rev + 1 /\ testing' = TRUE
  /\ tasks' = tasks \cup {[Task("test", profile) EXCEPT !.relay = relay, !.at = rev + 1]}
  /\ UNCHANGED <<profile, mode, relays, relay, consent, blocked, looking, shown, saved, rows,
                 session>>

Becomes(t, u) == tasks' = (tasks \ {t}) \cup {u}
AtStage(t, stage) == [t EXCEPT !.stage = stage, !.left = MaxPolls]
Gone(t) == tasks' = tasks \ {t}

\* _require_online_relay and SendCommand.
Send(t) ==
  /\ t.kind = "get" /\ t.relay # None /\ t.stage = "call"
  /\ Becomes(t, AtStage(t, "poll"))
  /\ UNCHANGED <<profile, lookup, rev, shown, saved, rows, session>>

\* GetCommandInvocation finds nothing yet, or a pending state.
PollCommand(t) ==
  /\ t.stage = "poll" /\ t.left > 1
  /\ Becomes(t, [t EXCEPT !.left = t.left - 1])
  /\ UNCHANGED <<profile, lookup, rev, shown, saved, rows, session>>

\* The value has come: from GetSecretValue itself, or from one successful
\* invocation with an output that is bounded and not empty.
Retrieved(t) == t.kind = "get" /\ t.stage = IF t.relay = None THEN "call" ELSE "poll"

\* upsert_saved_secret: one row for each profile and identifier.
Upsert(s) == rows' = rows \cup {s}

\* get: the snapshot is saved, whoever waits for it.
Remember(t) ==
  /\ Retrieved(t)
  /\ Upsert(Secret(t.profile, t.id))
  /\ Becomes(t, AtStage(t, "done"))
  /\ UNCHANGED <<profile, lookup, rev, shown, saved, session>>

-----------------------------------------------------------------------------
(* Callbacks of lookups, tests and listings *)

\* The callback of a lookup or a snapshot.  _any: whatever was asked since.
Current_any(t) == TRUE
Current(t) == t.at = gen

\* _loaded: the saved secrets are read again.
Loaded(t) ==
  /\ t.kind = "get" /\ t.stage = "done" /\ Current(t)
  /\ looking' = FALSE /\ result' = Secret(t.profile, t.id)
  /\ gen < MaxResults /\ gen' = gen + 1
  /\ tasks' = (tasks \ {t}) \cup {Task("saved", profile)}
  /\ UNCHANGED <<profile, choice, rev, revealed, timers, denied, saved, rows, session>>

\* Before its command is sent, or when the invocation failed, is unknown or is
\* pending for too long.
Raises(t) == t.kind = "get" /\ t.stage \in {"call", "poll"}

\* _failed: SendCommand was denied, or anything else went wrong.
LookupFailed(t) ==
  /\ Raises(t) /\ Current(t)
  /\ looking' = FALSE
  /\ denied' \in {None} \cup (IF t.relay # None /\ t.stage = "call" THEN {t.profile} ELSE {})
  /\ Gone(t)
  /\ UNCHANGED <<profile, choice, rev, gen, result, revealed, timers, saved, rows, session>>

\* _cancelled: no code was given.  A listing and a test call it whatever has
\* become of the page.
Cancelled(t) ==
  /\ t.kind \in {"get", "test", "list", "relays"} /\ t.stage = "call"
  /\ t.kind = "get" => Current(t)
  /\ looking' = FALSE /\ testing' = FALSE /\ Gone(t)
  /\ UNCHANGED <<profile, mode, relays, relay, consent, blocked, rev, shown, saved, rows,
                 session>>

\* The relay is Online on a platform that is supported, or it is not.
Verdict == BOOLEAN

\* completed and failed of test_relay_connection.
Tested(t) ==
  /\ t.kind = "test" /\ t.at = rev
  /\ testing' = FALSE /\ blocked' \in Verdict /\ Gone(t)
  /\ UNCHANGED <<profile, mode, relays, relay, consent, looking, rev, shown, saved, rows,
                 session>>

\* A callback whose profile, generation or revision is gone, _list_loaded, and
\* errors that are only shown.
Ignored(t) ==
  /\ \/ t.kind \in {"get", "snapshot"} /\ ~Current(t)
     \/ t.kind = "test" /\ t.at # rev
     \/ t.kind \in {"relays", "saved"} /\ t.profile # profile
     \/ t.kind = "list"
     \/ t.kind \in {"saved", "snapshot"} /\ t.stage = "call"
  /\ Gone(t)
  /\ UNCHANGED <<profile, lookup, rev, shown, saved, rows, session>>

\* list_relay_targets: the managed nodes that are Online now.
Online(p) == SUBSET Reach[p]

\* _relays_loaded: the combo box starts with the first or the saved one, which
\* may be gone.
Mine(t) == t.profile = profile
RelaysLoaded(t) ==
  /\ t.kind = "relays" /\ Mine(t)
  /\ relays' \in Online(t.profile)
  /\ \/ \E r \in relays' \cup {None} : RelayChanged(r)
     \/ /\ relays' = {} /\ relay = None
        /\ UNCHANGED <<relay, rev, testing, blocked, consent>>
  /\ Gone(t)
  /\ UNCHANGED <<profile, mode, looking, shown, saved, rows, session>>

\* _relay_failed.
RelaysFailed(t) ==
  /\ t.kind = "relays" /\ Mine(t)
  /\ blocked' = TRUE /\ Gone(t)
  /\ UNCHANGED <<profile, mode, relays, relay, consent, testing, looking, rev, shown, saved,
                 rows, session>>

-----------------------------------------------------------------------------
(* Saved secrets *)

\* _load_saved_entry; `rest` are the tasks there are without it.
LoadEntry(s, rest) ==
  /\ Cleared
  /\ tasks' = rest \cup {[Task("snapshot", profile) EXCEPT !.id = s.id, !.at = gen + 1]}

Select(s) ==
  /\ "saved" \in use
  /\ s \in entries /\ LoadEntry(s, tasks)
  /\ UNCHANGED <<profile, choice, rev, saved, rows, session>>

\* The worker reads the rows of its profile, or the row if it is of its profile.
ReadSaved(t) ==
  /\ t.stage = "call"
  /\ \/ /\ t.kind = "saved"
        /\ Becomes(t, [t EXCEPT !.stage = "done", !.found = {s \in rows : s.profile = t.profile}])
     \/ /\ t.kind = "snapshot" /\ Secret(t.profile, t.id) \in rows
        /\ Becomes(t, [t EXCEPT !.stage = "done"])
  /\ UNCHANGED <<profile, lookup, rev, shown, saved, rows, session>>

\* _saved_loaded: the entry that was just saved is loaded with the list.
SavedLoaded(t) ==
  /\ t.kind = "saved" /\ t.stage = "done" /\ Mine(t)
  /\ entries' = t.found /\ pending' = None
  /\ LET chosen == {s \in t.found : s.id = pending} IN
     \/ \E s \in chosen : LoadEntry(s, tasks \ {t})
     \/ chosen = {} /\ Gone(t) /\ UNCHANGED <<shown, looking>>
  /\ UNCHANGED <<profile, choice, rev, rows, session>>

\* _saved_snapshot_loaded: with the mode and the relay of that lookup.
SnapshotLoaded(t) ==
  /\ t.kind = "snapshot" /\ t.stage = "done" /\ Current(t) /\ Gone(t)
  /\ gen < MaxResults /\ gen' = gen + 1
  /\ result' = Secret(t.profile, t.id) /\ revealed' = {}
  /\ mode' \in {"direct", "relayed"}
  /\ \/ relays # None /\ \E r \in relays \cup {None} : RelayChanged(r)
     \/ /\ relays \in {None, {}} /\ mode' = mode
        /\ UNCHANGED <<relay, rev, testing, blocked, consent>>
     \/ /\ relays \in {None, {}} /\ mode' # mode
        /\ rev' = rev + 1 /\ testing' = FALSE /\ consent' = FALSE /\ UNCHANGED <<relay, blocked>>
  /\ UNCHANGED <<profile, relays, looking, timers, denied, saved, rows, session>>

\* register_saved, edit_saved, delete_saved after their dialogs.  An edit and a
\* deletion take the page's profile when the worker runs.
Change(kind, id) ==
  /\ "saved" \in use
  /\ profile # None /\ changes < MaxChanges /\ changes' = changes + 1
  /\ kind # "register" => Secret(profile, id) \in entries
  /\ tasks' = tasks \cup {[Task(kind, profile) EXCEPT !.id = id]}
  /\ UNCHANGED <<profile, lookup, rev, shown, saved, rows, use, agreed>>

WorkChange(t) ==
  /\ t.stage = "call"
  /\ LET s == Secret(t.profile, t.id) IN
     \/ t.kind = "register" /\ rows' = rows \cup {s}
     \/ t.kind = "update" /\ s \in rows /\ Mine(t) /\ UNCHANGED rows
     \/ t.kind = "delete" /\ s \in rows /\ Mine(t) /\ rows' = rows \ {s}
  /\ Becomes(t, [t EXCEPT !.stage = "done"])
  /\ UNCHANGED <<profile, lookup, rev, shown, saved, session>>
ChangeFails(t) ==
  /\ t.kind \in {"register", "update", "delete"} /\ t.stage = "call" /\ Gone(t)
  /\ UNCHANGED <<profile, lookup, rev, shown, saved, rows, session>>

\* _saved_changed, whichever profile the page has by now.
Changed(t) ==
  /\ t.kind \in {"register", "update"} /\ t.stage = "done"
  /\ pending' = t.id
  /\ tasks' = (tasks \ {t}) \cup Reading(profile)
  /\ UNCHANGED <<profile, lookup, rev, shown, entries, rows, session>>
Deleted(t) ==
  /\ t.kind = "delete" /\ t.stage = "done"
  /\ Cleared /\ pending' = None
  /\ tasks' = (tasks \ {t}) \cup Reading(profile)
  /\ UNCHANGED <<profile, choice, rev, entries, rows, session>>

-----------------------------------------------------------------------------
(* Values on the screen *)

\* reveal_selected and reveal_raw.  _once: a timer that runs is not started again.
Reveal_once(what) ==
  /\ "reveal" \in use
  /\ result # None /\ what \notin revealed /\ revealed' = revealed \cup {what}
  /\ timers' = IF \E g \in 0..gen : <<what, g>> \in timers THEN timers ELSE timers \cup {<<what, gen>>}
  /\ UNCHANGED <<profile, lookup, rev, gen, result, denied, saved, tasks, rows, session>>
Reveal(what) ==
  /\ "reveal" \in use
  /\ result # None /\ what \notin revealed
  /\ revealed' = revealed \cup {what} /\ timers' = timers \cup {<<what, gen>>}
  /\ UNCHANGED <<profile, lookup, rev, gen, result, denied, saved, tasks, rows, session>>

\* reveal_selected once more, hide_values.
Hide ==
  /\ \/ "field" \in revealed /\ revealed' = revealed \ {"field"}
     \/ revealed # {} /\ revealed' = {}
  /\ UNCHANGED <<profile, lookup, rev, gen, result, timers, denied, saved, tasks, rows,
                 session>>

\* _hide_revealed and _hide_raw, after thirty seconds.
HideLater(timer) ==
  /\ timer \in timers /\ timers' = timers \ {timer}
  /\ revealed' = IF timer[2] = gen THEN revealed \ {timer[1]} ELSE revealed
  /\ UNCHANGED <<profile, lookup, rev, gen, result, denied, saved, tasks, rows, session>>

-----------------------------------------------------------------------------
User ==
  \/ \E p \in PageProfiles \cup {None} : SetProfile(p)
  \/ Reload \/ ChooseMode \/ ChooseRelay \/ Consent \/ Test \/ Hide
  \/ \E id \in Ids : Request(id) \/ \E kind \in {"register", "update", "delete"} : Change(kind, id)
  \/ \E s \in entries : Select(s)
  \/ \E what \in {"field", "raw"} : Reveal(what)

Worker(t) == Send(t) \/ PollCommand(t) \/ Remember(t) \/ ReadSaved(t) \/ WorkChange(t)
Callback(t) ==
  \/ Loaded(t) \/ LookupFailed(t) \/ Cancelled(t) \/ Tested(t) \/ Ignored(t) \/ RelaysLoaded(t)
  \/ RelaysFailed(t) \/ SavedLoaded(t) \/ SnapshotLoaded(t) \/ ChangeFails(t) \/ Changed(t)
  \/ Deleted(t)

SecretsNext ==
  \/ User \/ \E t \in tasks : Worker(t) \/ Callback(t)
  \/ \E timer \in timers : HideLater(timer)

SecretsSpec == SecretsInit /\ [][SecretsNext]_secretsVars

-----------------------------------------------------------------------------
(* Properties *)

\* SECURITY.md: "a new lookup or profile change discards the previous result":
\* nothing an earlier profile asked for appears on the page of the current one,
\* neither a value nor a list, a relay or the offer of the terminal.
PageIsOfItsProfile ==
  /\ result # None => result.profile = profile
  /\ \A s \in entries : s.profile = profile
  /\ relay # None => relay \in Reach[profile]
  /\ denied \in {None, profile}

\* SECURITY.md: "EC2-mediated Secret lookup is an explicit opt-in path": every
\* command goes to the relay, and is of the profile, that the user agreed to
\* when ticking the box, and a tick is good for one command.
SendsWhatWasAgreed == \A t \in tasks :
  t.stage = "poll" => t.agreed = [profile |-> t.profile, relay |-> t.relay]

\* SECURITY.md: "GUI reveal is cleared after 30 seconds": what is revealed has a
\* timer that will find its generation unchanged, however often it was hidden and
\* shown and whatever was loaded meanwhile.
RevealsExpire == \A what \in revealed : result # None /\ <<what, gen>> \in timers

\* The buttons come back: a flag that keeps one shut has a call in flight whose
\* callback the page will still accept.
FlagsAreBacked ==
  /\ looking => \E t \in tasks : t.kind = "get" /\ t.at = gen
  /\ testing => \E t \in tasks : t.kind = "test" /\ t.at = rev
=============================================================================
