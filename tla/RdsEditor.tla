------------------------------ MODULE RdsEditor ------------------------------
(***************************************************************************)
(* The editor of the GUI's RDS page: the saved sessions of the profile,    *)
(* the one that is shown, what the user makes of its fields, whether its   *)
(* local port is free, and the calls to the store and to AWS that are under *)
(* way meanwhile.  The connections themselves are module RdsPage.          *)
(*                                                                         *)
(* A session is its host, its local port and its relay; its name and its   *)
(* duration are stored and shown as its host is.  Identical calls that     *)
(* wait are one.                                                           *)
(***************************************************************************)
EXTENDS Naturals, FiniteSets, Sequences

CONSTANTS
  Profiles,   \* profile ids
  MaxId,      \* bound: the last id of a row of tunnel_sessions
  Hosts,      \* hosts a user types
  Ports,      \* local ports
  NewPort,    \* the port of a new session, 13306
  Relays,     \* profile -> the relay instances AWS lists for it, in order
  Endpoint,   \* profile -> the first RDS endpoint AWS lists for it
  Stored,     \* the rows of tunnel_sessions in the beginning
  Blank       \* no value: no selection, an empty field, a port not checked

\* The rows have the ids that AUTOINCREMENT gave them.
ASSUME RdsEditorAssumption ==
  /\ IsFiniteSet(Stored) /\ \A r \in Stored : r.id \in 1..Cardinality(Stored)
  /\ \A r, q \in Stored : r.id = q.id => r = q
  /\ Blank \notin {"ok", "failed", "taken"}

VARIABLES
  busy,      \* _connection_busy
  relays,    \* _relays_ready
  scenario,  \* what this behaviour may use: module RdsPage
  shown,     \* _profile_id
  selected,  \* _selected_id
  drafted,   \* _draft_visible
  fields,    \* _editor_values()
  base,      \* _editor_baseline
  choices,   \* the items of the relay field
  verdict,   \* _port_available, with the port that was checked
  due,       \* _port_timer is active
  listed,    \* _saved
  active,    \* _active: rows of the tunnels that ran when they were polled
  calls,     \* calls submitted and not yet delivered
  rows,      \* the table tunnel_sessions
  lastId,    \* its AUTOINCREMENT
  open,      \* rows of the tunnels that RdsTunnelService runs
  mistaken,  \* a tunnel was opened to something else than the page showed
  presses    \* bound: what the user may still do

form == <<selected, drafted, fields, base, verdict, due>>
lists == <<shown, choices, listed, active, relays>>
store == <<rows, lastId, open, mistaken>>
editor == <<form, shown, choices, listed, active, store, calls, presses>>

Among(list) == {list[i] : i \in 1..Len(list)}
At(table, id) == {r \in table : r.id = id}
Row(id, profile, content) ==
  [id |-> id, profile |-> profile, host |-> content.host, port |-> content.port,
   relay |-> content.relay]
Content(row) == [host |-> row.host, port |-> row.port, relay |-> row.relay]

\* A call: the profile and the session the page named, the content it sent,
\* whether the page still wants its answer, the answer and the rows it brings.
Request(kind, page, id, content) ==
  [kind |-> kind, page |-> page, row |-> id, content |-> content, wanted |-> TRUE,
   answer |-> Blank, rows |-> {}]

-----------------------------------------------------------------------------
(* The page's own helpers *)

RunsIn(some, id) == \E r \in some : r.id = id
Running == RunsIn(active, selected)          \* _selected_operation_id() is not None
Editable == ~Running /\ ~busy                \* _sync_editor_actions
Available == relays /\ fields.relay # Blank  \* _relay_available
Free == verdict # Blank /\ verdict.free
Dirty_never == FALSE                         \* a change is never noticed
Dirty == fields # base                       \* _is_editor_dirty

\* reload reads the profile when it runs; the other two take it along.
List == Request("list", Blank, Blank, Blank)
Loads(page) == {List} \cup {Request(kind, page, Blank, Blank) : kind \in {"relays", "endpoints"}}

\* _port_revision goes up: the answers to the checks under way are not wanted.
CheckOf(port) ==
  Request("check", Blank, Blank, [host |-> Blank, port |-> port, relay |-> Blank])
Unwanted(some) ==
  {IF c.kind = "check" THEN [c EXCEPT !.wanted = FALSE] ELSE c : c \in some}

\* _check_local_port; `rest` are the other calls.
Check(id, port, running, rest) ==
  /\ due' = FALSE /\ verdict' = Blank
  /\ calls' = Unwanted(rest) \cup
       IF RunsIn(running, id) THEN {} ELSE {CheckOf(port)}

\* new_session, with `host` filled in afterwards.  Its question about unsaved
\* values is not part of it: answered with no, nothing is done.
NewSession(draft, relay, host, rest) ==
  LET empty == [host |-> Blank, port |-> NewPort, relay |-> relay] IN
  /\ selected' = Blank /\ drafted' = draft
  /\ base' = empty /\ fields' = [empty EXCEPT !.host = host]
  /\ Check(Blank, NewPort, {}, rest)

\* _select_session: the relay field is left alone where it has no such item.
ShowRow(r) ==
  /\ selected' = r.id
  /\ fields' = [Content(r) EXCEPT !.relay = IF r.relay \in Among(choices) THEN r.relay ELSE fields.relay]
  /\ base' = fields'
  /\ Check(r.id, r.port, active, calls)

\* The lists of a profile are loaded, and the user has selected a session.
EditorInit ==
  /\ busy = FALSE /\ relays = TRUE /\ drafted = FALSE /\ due = FALSE
  /\ \E r \in Stored :
       /\ r.relay \in Among(Relays[r.profile])
       /\ shown = r.profile /\ choices = Relays[shown]
       /\ selected = r.id /\ fields = Content(r) /\ base = fields
       /\ verdict = [port |-> r.port, free |-> TRUE]
  /\ listed = {r \in Stored : r.profile = shown} /\ active = {} /\ calls = {}
  /\ rows = Stored /\ lastId = Cardinality(Stored) /\ open = {} /\ mistaken = FALSE

-----------------------------------------------------------------------------
(* What the user does.  One who is patient waits until what he has asked for *)
(* is done and shown.                                                        *)

Background == {"relays", "endpoints", "check", "poll"}
User ==
  /\ presses > 0 /\ presses' = presses - 1
  /\ scenario.patient => \A c \in calls : c.kind \in Background
Submit(kind, content) == calls' = calls \cup {Request(kind, shown, selected, content)}

\* set_profile; the poll it submits is Poll.
ChooseProfile(p) ==
  /\ User /\ p # shown
  /\ shown' = p /\ listed' = {} /\ active' = {} /\ relays' = FALSE /\ choices' = <<>>
  /\ NewSession(FALSE, Blank, Blank, calls \cup Loads(p))
  /\ UNCHANGED <<busy, store>>

\* The button, the draft's row in the list, and prefill_endpoint.
New(host) ==
  /\ User /\ NewSession(TRUE, fields.relay, host, calls)
  /\ UNCHANGED <<busy, lists, store>>

Select(r) ==
  /\ User /\ r.id # selected /\ ShowRow(r)
  /\ UNCHANGED <<drafted, busy, lists, store>>

TypeHost(host) ==
  /\ User /\ Editable /\ host # fields.host
  /\ fields' = [fields EXCEPT !.host = host]
  /\ UNCHANGED <<selected, drafted, base, verdict, due, calls, busy, lists, store>>
ChooseRelay(relay) ==
  /\ User /\ Editable /\ Available /\ relay # fields.relay
  /\ fields' = [fields EXCEPT !.relay = relay]
  /\ UNCHANGED <<selected, drafted, base, verdict, due, calls, busy, lists, store>>

\* _schedule_port_check
TypePort(port) ==
  /\ User /\ Editable /\ port # fields.port
  /\ fields' = [fields EXCEPT !.port = port]
  /\ verdict' = Blank /\ due' = TRUE /\ calls' = Unwanted(calls)
  /\ UNCHANGED <<selected, drafted, base, busy, lists, store>>

\* rename_selected and clone_selected read the session that is listed first.
Copy(kind) ==
  /\ User /\ ~busy /\ At(listed, selected) # {} /\ Submit(kind, Blank)
  /\ UNCHANGED <<form, busy, lists, store>>

Save ==
  /\ User /\ Editable /\ Available /\ Submit("save", fields)
  /\ UNCHANGED <<form, busy, lists, store>>

\* delete_selected: the draft goes at once and the first row is selected.
Delete ==
  /\ User /\ Editable /\ selected # Blank /\ Submit("delete", Blank)
  /\ UNCHANGED <<form, busy, lists, store>>
DeleteDraft ==
  /\ User /\ Editable /\ selected = Blank /\ drafted
  /\ drafted' = FALSE
  /\ \/ \E r \in listed : ShowRow(r)
     \/ listed = {} /\ NewSession(FALSE, fields.relay, Blank, calls)
  /\ UNCHANGED <<busy, lists, store>>

\* toggle_connection, of a session that is not connected.  To end a connection
\* is module RdsPage's and looks like Ends from here.
Connect ==
  /\ User /\ Editable /\ selected # Blank /\ Available /\ Free
  /\ busy' = TRUE /\ Submit(IF Dirty THEN "saveStart" ELSE "start", fields)
  /\ UNCHANGED <<form, lists, store>>

UserActs ==
  \/ \E p \in Profiles : ChooseProfile(p)
  \/ \E host \in Hosts : New(host) \/ TypeHost(host)
  \/ New(Blank) \/ Save \/ Delete \/ DeleteDraft \/ Connect
  \/ \E r \in listed : Select(r)
  \/ \E relay \in Among(choices) : ChooseRelay(relay)
  \/ \E port \in Ports : TypePort(port)
  \/ \E kind \in {"rename", "clone"} : Copy(kind)

\* _port_timer
CheckIsDue ==
  /\ due /\ Check(selected, fields.port, active, calls)
  /\ UNCHANGED <<selected, drafted, fields, base, busy, lists, store, presses>>

\* refresh_active; a poll that can show nothing new is left out.
Poll ==
  /\ open # {} \/ active # {}
  /\ \A c \in calls : c.kind # "poll"
  /\ calls' = calls \cup {Request("poll", Blank, Blank, Blank)}
  /\ UNCHANGED <<form, busy, lists, store, presses>>

-----------------------------------------------------------------------------
(* The workers: TunnelSessionService over the table, one transaction at a time *)

Returns(c, answer, found) ==
  calls' = (calls \ {c}) \cup {[c EXCEPT !.answer = answer, !.rows = found]}
Refused(c) == Returns(c, "failed", {}) /\ UNCHANGED store

\* show: the session of that id, if it is one of the profile.
Found(c, page) == {r \in At(rows, c.row) : r.profile = page}

\* create_tunnel and update_tunnel; either fails when the name is taken, and a
\* session without a host is none (TunnelSession.__post_init__).
Create(c, content) ==
  LET new == Row(lastId + 1, c.page, content) IN
  /\ lastId < MaxId /\ lastId' = lastId + 1
  /\ rows' = rows \cup {new} /\ Returns(c, "ok", {new})
  /\ UNCHANGED <<open, mistaken>>
Update(c, content) ==
  LET new == Row(c.row, c.page, content) IN
  /\ Found(c, c.page) # {}
  /\ rows' = (rows \ Found(c, c.page)) \cup {new} /\ Returns(c, "ok", {new})
  /\ UNCHANGED <<lastId, open, mistaken>>

Stores(c) ==
  /\ c.kind \in {"save", "saveStart"}
  /\ \/ c.row = Blank /\ c.content.host # Blank /\ Create(c, c.content)
     \/ c.row # Blank /\ c.content.host # Blank /\ Update(c, c.content)
     \/ Refused(c)

\* rename and clone: show, and then update or create with what it returned.
Shows(c) ==
  /\ c.kind \in {"rename", "clone"} /\ c.rows = {}
  /\ IF Found(c, c.page) = {} THEN Refused(c)
     ELSE Returns(c, Blank, Found(c, c.page)) /\ UNCHANGED store
Copies(c) ==
  \E source \in c.rows :
    \/ c.kind = "rename" /\ Update(c, Content(source))
    \/ c.kind = "clone" /\ Create(c, Content(source))
    \/ c.kind \in {"rename", "clone"} /\ Refused(c)

\* The profile is the page's when the worker asks, not when the user did.
Deletes(c) ==
  /\ c.kind = "delete"
  /\ IF Found(c, shown) = {} THEN Refused(c)
     ELSE rows' = rows \ Found(c, shown) /\ Returns(c, "ok", {}) /\ UNCHANGED <<lastId, open, mistaken>>

\* start_managed: the session as it is stored now, if its port is free.
StartsManaged(c) ==
  /\ c.kind = "start"
  /\ \/ \E r \in Found(c, c.page) :
          /\ r.port \notin {o.port : o \in open} /\ open' = open \cup {r}
          /\ mistaken' = (mistaken \/ r.host # c.content.host \/ r.port # c.content.port)
          /\ Returns(c, "ok", {}) /\ UNCHANGED <<rows, lastId>>
     \/ Refused(c)

Reads(c) ==
  /\ \/ c.kind = "list" /\ Returns(c, "ok", {r \in rows : r.profile = shown})
     \/ c.kind = "poll" /\ Returns(c, "ok", open)
     \/ c.kind \in {"relays", "endpoints"} /\ \E answer \in {"ok", "failed"} : Returns(c, answer, {})
     \/ c.kind = "check" /\ \E answer \in {"ok", "taken", "failed"} : Returns(c, answer, {})
  /\ UNCHANGED store

Serve(c) ==
  /\ c.answer = Blank
  /\ Stores(c) \/ Shows(c) \/ Copies(c) \/ Deletes(c) \/ StartsManaged(c) \/ Reads(c)
  /\ UNCHANGED <<form, busy, lists, presses>>

TunnelEnds(r) ==
  /\ open' = open \ {r}
  /\ UNCHANGED <<form, busy, lists, rows, lastId, mistaken, calls, presses>>

-----------------------------------------------------------------------------
(* The callbacks, on the GUI thread *)

Got(c, kinds, answers) == c.kind \in kinds /\ c.answer \in answers
Consumed(c) == calls' = calls \ {c}
Listed(r) == (listed \ At(listed, r.id)) \cup {r}

GotList(c) ==  \* _sessions_loaded
  /\ Got(c, {"list"}, {"ok"}) /\ listed' = c.rows /\ Consumed(c)
  /\ UNCHANGED <<form, busy, shown, choices, active, relays>>

\* _relays_loaded: the first relay is chosen when the one before is not listed.
GotRelays(c) ==
  /\ Got(c, {"relays"}, {"ok"}) /\ Consumed(c)
  /\ choices' = Relays[c.page] /\ relays' = TRUE
  /\ fields' = [fields EXCEPT !.relay =
       IF fields.relay \in Among(choices') THEN fields.relay
       ELSE IF choices' = <<>> THEN Blank ELSE choices'[1]]
  /\ base' = IF selected = Blank THEN fields' ELSE base
  /\ UNCHANGED <<selected, drafted, verdict, due, busy, shown, listed, active>>

GotEndpoints(c) ==
  /\ Got(c, {"endpoints"}, {"ok", "failed"}) /\ Consumed(c)
  /\ fields' = IF c.answer = "ok" /\ selected = Blank /\ fields.host = Blank
               THEN [fields EXCEPT !.host = Endpoint[c.page]] ELSE fields
  /\ UNCHANGED <<selected, drafted, base, verdict, due, busy, lists>>

\* The answers of _check_local_port; _any: the revision and the port are not
\* compared.  A check that fails makes the connection not busy, as _failed does.
Judges(c) ==
  /\ verdict' = [port |-> c.content.port, free |-> c.answer = "ok"]
  /\ busy' = (busy /\ c.answer # "failed")
GotVerdict_any(c) ==
  /\ Got(c, {"check"}, {"ok", "taken", "failed"}) /\ Consumed(c) /\ Judges(c)
  /\ UNCHANGED <<selected, drafted, fields, base, due, lists>>
GotVerdict(c) ==
  /\ Got(c, {"check"}, {"ok", "taken", "failed"}) /\ Consumed(c)
  /\ IF c.wanted /\ c.content.port = fields.port THEN Judges(c) ELSE UNCHANGED <<verdict, busy>>
  /\ UNCHANGED <<selected, drafted, fields, base, due, lists>>

GotSaved(c) ==  \* _saved_done
  /\ Got(c, {"save"}, {"ok"})
  /\ \E r \in c.rows : selected' = r.id
  /\ drafted' = FALSE /\ base' = fields /\ calls' = (calls \ {c}) \cup {List}
  /\ UNCHANGED <<fields, verdict, due, busy, lists>>

\* _saved_then_start: start looks at its conditions again.
GotSavedToStart(c) ==
  /\ Got(c, {"saveStart"}, {"ok"})
  /\ \E r \in c.rows :
       /\ selected' = r.id /\ listed' = Listed(r) /\ base' = fields
       /\ busy' = (Available /\ Free)
       /\ calls' = (calls \ {c}) \cup
            IF Available /\ Free THEN {Request("start", shown, r.id, c.content)} ELSE {}
  /\ UNCHANGED <<drafted, fields, verdict, due, shown, choices, active, relays>>

GotRenamed(c) ==
  /\ Got(c, {"rename"}, {"ok"}) /\ Consumed(c)
  /\ \E r \in c.rows : listed' = IF c.page = shown THEN Listed(r) ELSE listed
  /\ UNCHANGED <<form, busy, shown, choices, active, relays>>

GotReset(c) ==  \* _cloned_done, _deleted_done
  /\ Got(c, {"clone", "delete"}, {"ok"})
  /\ NewSession(FALSE, fields.relay, Blank, (calls \ {c}) \cup {List})
  /\ UNCHANGED <<busy, lists>>

GotStarted(c) ==
  /\ Got(c, {"start"}, {"ok"}) /\ busy' = FALSE /\ Consumed(c)
  /\ UNCHANGED <<form, lists>>

\* _active_loaded: the tunnels of the profile that is shown now.
GotTunnels(c) ==
  /\ Got(c, {"poll"}, {"ok"})
  /\ active' = {r \in c.rows : r.profile = shown}
  /\ IF Running /\ ~RunsIn(active', selected)
     THEN Check(selected, fields.port, active', calls \ {c})
     ELSE Consumed(c) /\ UNCHANGED <<verdict, due>>
  /\ UNCHANGED <<selected, drafted, fields, base, busy, shown, choices, listed, relays>>

\* _failed and _start_failed
GotFailure(c) ==
  /\ c.kind \notin {"endpoints", "check"} /\ c.answer = "failed" /\ busy' = FALSE /\ Consumed(c)
  /\ UNCHANGED <<form, lists>>

Receive(c) ==
  /\ \/ GotList(c) \/ GotRelays(c) \/ GotEndpoints(c) \/ GotVerdict(c) \/ GotSaved(c)
     \/ GotSavedToStart(c) \/ GotRenamed(c) \/ GotReset(c) \/ GotStarted(c)
     \/ GotTunnels(c) \/ GotFailure(c)
  /\ UNCHANGED <<store, presses>>

EditorNext ==
  \/ UserActs \/ CheckIsDue \/ Poll
  \/ \E c \in calls : Serve(c) \/ Receive(c)
  \/ \E r \in open : TunnelEnds(r)

-----------------------------------------------------------------------------
(* Properties *)

\* DESIGN.md: a changed port is checked again, and there is no connection before
\* the check is done; a connection that is asked for after an edit is made only
\* once that edit is stored.  So the answer about a port, however late, is never
\* taken for another one's, and to a user who awaits the answers to what he asks
\* for, each tunnel that opens leads where the page said when he pressed.
ConnectsAsShown ==
  /\ verdict # Blank => verdict.port = fields.port
  /\ scenario.patient => ~mistaken
=============================================================================
