---------------------------- MODULE RdsPageProofs ----------------------------
(***************************************************************************)
(* Complete quit of the RDS page leaves no tunnel behind, and a tunnel that *)
(* its editor asks for leads where the page said: for any tunnels, hosts,  *)
(* ports, profiles and stored sessions.                                    *)
(***************************************************************************)
EXTENDS RdsPage, FiniteSetTheorems, TLAPS

-----------------------------------------------------------------------------
(* The editor: the inductive invariant *)

IsForm(f) == f \in [host : {f.host}, port : {f.port}, relay : {f.relay}]
IsCall(c) ==
  c \in [kind : {c.kind}, page : {c.page}, row : {c.row}, content : {c.content},
         wanted : {c.wanted}, answer : {c.answer}, rows : {c.rows}]

\* The keys of the table are used once, and the answer about the port is the port's.
KeysAreUnique ==
  /\ lastId \in Nat /\ \A r \in rows : r.id \in Nat /\ r.id <= lastId
  /\ \A r, q \in rows : r.id = q.id => r = q
VerdictIsOfThePort == verdict # Blank => verdict.port = fields.port
Consistent ==
  /\ IsForm(fields) /\ (\A c \in calls : IsCall(c))
  /\ KeysAreUnique /\ VerdictIsOfThePort

\* What a user who is patient waits for.
Fore(some) == {c \in some : c.kind \notin Background}

\* x says of its session what is stored.
Same(x, q) == q.host = x.host /\ q.port = x.port
Current(x) == \A q \in rows : q.id = x.id /\ q.profile = shown => Same(x, q)

\* The one call that is awaited: the rows it brings are current, a start names
\* what is stored, a save brings what the fields say.
Stored_(c) == c.kind \in {"save", "saveStart"} /\ c.answer = "ok"
Sound(c) ==
  /\ \A x \in c.rows : Current(x)
  /\ c.kind = "list" => c.answer # "failed"
  /\ c.kind # "list" => c.page = shown
  /\ c.kind = "rename" /\ c.answer = Blank => \A x \in c.rows : x.id = c.row
  /\ c.kind \in {"save", "saveStart"} =>
       /\ c.content.port = fields.port
       /\ c.content.host = Blank \/ c.content.host = fields.host
  /\ Stored_(c) => c.content.host # Blank /\ \A x \in c.rows : Same(c.content, x)
  /\ c.kind = "saveStart" => c.row # Blank
  /\ c.kind = "saveStart" /\ c.answer = "ok" =>
       /\ \A x \in c.rows : x.id = c.row
       /\ \A x \in listed : x.id = c.row \/ Current(x)
  /\ c.kind = "start" =>
       \A q \in rows : q.id = c.row /\ q.profile = c.page => Same(c.content, q)

\* The table was written and the page does not know yet.
Ahead == \E c \in Fore(calls) : c.kind \in {"save", "saveStart", "clone"} /\ c.answer = "ok"
BaseIsCurrent ==
  selected # Blank /\ ~Ahead =>
    \A q \in rows : q.id = selected /\ q.profile = shown => Same(base, q)
ListIsCurrent ==
  ~Ahead /\ (\A c \in Fore(calls) : c.kind # "list") => \A x \in listed : Current(x)

Patient ==
  /\ ~mistaken
  /\ \A c, d \in Fore(calls) : c = d
  /\ \A c \in Fore(calls) : Sound(c)
  /\ BaseIsCurrent /\ ListIsCurrent

EditorInv == Consistent /\ (scenario.patient => Patient)

-----------------------------------------------------------------------------
(* The helpers of the page *)

LEMMA RequestIsCall ==
  ASSUME NEW kind, NEW page, NEW id, NEW content
  PROVE  /\ IsCall(Request(kind, page, id, content))
         /\ Request(kind, page, id, content).kind = kind
         /\ Request(kind, page, id, content).page = page
         /\ Request(kind, page, id, content).row = id
         /\ Request(kind, page, id, content).content = content
         /\ Request(kind, page, id, content).answer = Blank
         /\ Request(kind, page, id, content).rows = {}
BY DEF Request, IsCall

\* A call that is answered stays the call it was.
Answered(c, answer, found) == [c EXCEPT !.answer = answer, !.rows = found]
LEMMA AnsweredIsCall ==
  ASSUME NEW c, IsCall(c), NEW answer, NEW found
  PROVE  /\ IsCall(Answered(c, answer, found))
         /\ Answered(c, answer, found).kind = c.kind
         /\ Answered(c, answer, found).page = c.page
         /\ Answered(c, answer, found).row = c.row
         /\ Answered(c, answer, found).content = c.content
         /\ Answered(c, answer, found).answer = answer
         /\ Answered(c, answer, found).rows = found
BY DEF Answered, IsCall

LEMMA UnwantedAreCalls ==
  ASSUME NEW some, \A c \in some : IsCall(c)
  PROVE  /\ \A c \in Unwanted(some) : IsCall(c)
         /\ Fore(Unwanted(some)) = Fore(some)
<1>1. ASSUME NEW c, IsCall(c)
      PROVE  IsCall([c EXCEPT !.wanted = FALSE]) /\ [c EXCEPT !.wanted = FALSE].kind = c.kind
  BY <1>1 DEF IsCall
<1>2. \A c \in Unwanted(some) : IsCall(c)
  BY <1>1 DEF Unwanted
<1>3. \A c \in Unwanted(some) : c \in some \/ c.kind = "check"
  BY <1>1 DEF Unwanted
<1>4. \A c \in some : c.kind # "check" => c \in Unwanted(some)
  BY DEF Unwanted
<1> QED
  BY <1>2, <1>3, <1>4 DEF Fore, Background

LEMMA CheckMakes ==
  ASSUME NEW id, NEW port, NEW running, NEW rest, \A c \in rest : IsCall(c),
         Check(id, port, running, rest)
  PROVE  (\A c \in calls' : IsCall(c)) /\ Fore(calls') = Fore(rest) /\ verdict' = Blank
<1>1. /\ \A c \in Unwanted(rest) : IsCall(c)
      /\ Fore(Unwanted(rest)) = Fore(rest)
  BY UnwantedAreCalls
<1>2. IsCall(CheckOf(port)) /\ CheckOf(port).kind = "check"
  BY RequestIsCall DEF CheckOf
<1>3. \A c \in calls' : c \in Unwanted(rest) \/ c = CheckOf(port)
  BY DEF Check
<1>4. Unwanted(rest) \subseteq calls'
  BY DEF Check
<1>5. Fore(calls') = Fore(Unwanted(rest))
  BY <1>2, <1>3, <1>4 DEF Fore, Background
<1> QED
  BY <1>1, <1>2, <1>3, <1>5 DEF Check

LEMMA NewSessionMakes ==
  ASSUME NEW draft, NEW relay, NEW host, NEW rest, \A c \in rest : IsCall(c),
         NewSession(draft, relay, host, rest)
  PROVE  /\ (\A c \in calls' : IsCall(c)) /\ Fore(calls') = Fore(rest)
         /\ verdict' = Blank /\ selected' = Blank /\ IsForm(fields')
BY CheckMakes DEF NewSession, IsForm

LEMMA ShowRowMakes ==
  ASSUME Consistent, NEW r, ShowRow(r)
  PROVE  /\ (\A c \in calls' : IsCall(c)) /\ Fore(calls') = Fore(calls)
         /\ verdict' = Blank /\ selected' = r.id /\ IsForm(fields')
         /\ base' = fields' /\ base'.host = r.host /\ base'.port = r.port
<1>1. Check(r.id, r.port, active, calls) /\ selected' = r.id /\ base' = fields'
  BY DEF ShowRow
<1>2. IsForm(fields') /\ fields'.host = r.host /\ fields'.port = r.port
  <2> PICK relay : fields' = [Content(r) EXCEPT !.relay = relay]
    BY DEF ShowRow
  <2> QED
    BY DEF IsForm, Content
<1> QED
  BY <1>1, <1>2, CheckMakes DEF Consistent

LEMMA SubmitMakes ==
  ASSUME Consistent, NEW kind, NEW content, Submit(kind, content)
  PROVE  \A c \in calls' : IsCall(c)
BY RequestIsCall DEF Submit, Consistent

LEMMA ReturnsMakes ==
  ASSUME Consistent, NEW c \in calls, NEW answer, NEW found, Returns(c, answer, found)
  PROVE  /\ \A d \in calls' : IsCall(d)
         /\ calls' = (calls \ {c}) \cup {Answered(c, answer, found)}
<1>1. IsCall(Answered(c, answer, found))
  BY AnsweredIsCall DEF Consistent
<1>2. calls' = (calls \ {c}) \cup {Answered(c, answer, found)}
  BY DEF Returns, Answered
<1> QED
  BY <1>1, <1>2 DEF Consistent

-----------------------------------------------------------------------------
(* The form, the calls and the keys, whoever acts *)

FormIsKept == IsForm(fields') /\ VerdictIsOfThePort' /\ \A c \in calls' : IsCall(c)

LEMMA UserKeepsForm ==
  ASSUME Consistent, UserActs
  PROVE  FormIsKept /\ KeysAreUnique'
<1>1. CASE \E p \in Profiles : ChooseProfile(p)
  <2> PICK p \in Profiles : ChooseProfile(p)
    BY <1>1
  <2>1. \A c \in Loads(p) : IsCall(c)
    BY RequestIsCall DEF Loads, List
  <2>2. NewSession(FALSE, Blank, Blank, calls \cup Loads(p)) /\ UNCHANGED store
    BY DEF ChooseProfile
  <2>3. \A c \in calls \cup Loads(p) : IsCall(c)
    BY <2>1 DEF Consistent
  <2>4. FormIsKept
    BY <2>2, <2>3, NewSessionMakes DEF FormIsKept, VerdictIsOfThePort
  <2> QED
    BY <2>2, <2>4 DEF Consistent, KeysAreUnique, store
<1>2. CASE New(Blank) \/ \E host \in Hosts : New(host)
  BY <1>2, NewSessionMakes DEF New, Consistent, FormIsKept, KeysAreUnique,
     VerdictIsOfThePort, store
<1>3. CASE DeleteDraft \/ \E r \in listed : Select(r)
  BY <1>3, ShowRowMakes, NewSessionMakes DEF DeleteDraft, Select, Consistent, FormIsKept,
     KeysAreUnique, VerdictIsOfThePort, store
<1>4. ASSUME NEW host \in Hosts, TypeHost(host)
      PROVE  FormIsKept /\ KeysAreUnique'
  <2>1. IsForm(fields') /\ fields'.port = fields.port
    BY <1>4 DEF TypeHost, IsForm, Consistent
  <2> QED
    BY <1>4, <2>1 DEF TypeHost, Consistent, FormIsKept, KeysAreUnique, VerdictIsOfThePort, store
<1>5. ASSUME NEW relay, ChooseRelay(relay)
      PROVE  FormIsKept /\ KeysAreUnique'
  <2>1. IsForm(fields') /\ fields'.port = fields.port
    BY <1>5 DEF ChooseRelay, IsForm, Consistent
  <2> QED
    BY <1>5, <2>1 DEF ChooseRelay, Consistent, FormIsKept, KeysAreUnique, VerdictIsOfThePort, store
<1>6. ASSUME NEW port \in Ports, TypePort(port)
      PROVE  FormIsKept /\ KeysAreUnique'
  <2>1. IsForm(fields') /\ verdict' = Blank
    BY <1>6 DEF TypePort, IsForm, Consistent
  <2>2. \A c \in calls' : IsCall(c)
    BY <1>6, UnwantedAreCalls DEF TypePort, Consistent
  <2> QED
    BY <1>6, <2>1, <2>2 DEF TypePort, Consistent, FormIsKept, KeysAreUnique, VerdictIsOfThePort, store
<1>7. CASE Save \/ Delete \/ Connect \/ \E kind \in {"rename", "clone"} : Copy(kind)
  <2>1. \A c \in calls' : IsCall(c)
    BY <1>7, SubmitMakes DEF Save, Delete, Connect, Copy
  <2>2. UNCHANGED <<form, store>>
    BY <1>7 DEF Save, Delete, Connect, Copy
  <2> QED
    BY <2>1, <2>2 DEF Consistent, FormIsKept, KeysAreUnique, VerdictIsOfThePort, store, form
<1> QED
  BY <1>1, <1>2, <1>3, <1>4, <1>5, <1>6, <1>7 DEF UserActs

\* What the workers do to the table: a row is added, changed, or taken away.
LEMMA CreateKeeps ==
  ASSUME Consistent, NEW c \in calls, NEW content, Create(c, content)
  PROVE  KeysAreUnique'
<1> DEFINE new == Row(lastId + 1, c.page, content)
<1>1. lastId' = lastId + 1 /\ rows' = rows \cup {new} /\ new.id = lastId + 1
  BY DEF Create, Row
<1> HIDE DEF new
<1> QED
  BY <1>1 DEF Consistent, KeysAreUnique

LEMMA UpdateKeeps ==
  ASSUME Consistent, NEW c \in calls, NEW content, Update(c, content)
  PROVE  KeysAreUnique'
<1> DEFINE new == Row(c.row, c.page, content)
<1>1. lastId' = lastId /\ rows' = (rows \ Found(c, c.page)) \cup {new} /\ new.id = c.row
  BY DEF Update, Row
<1>2. PICK old \in rows : old \in Found(c, c.page) /\ old.id = c.row
  BY DEF Update, Found, At
<1>3. \A r \in rows : r.id = c.row => r \in Found(c, c.page)
  BY <1>2 DEF Consistent, KeysAreUnique
<1> HIDE DEF new
<1>4. \A r \in rows' : r.id \in Nat /\ r.id <= lastId
  BY <1>1, <1>2 DEF Consistent, KeysAreUnique
<1>5. \A r, q \in rows' : r.id = q.id => r = q
  BY <1>1, <1>3 DEF Consistent, KeysAreUnique
<1> QED
  BY <1>1, <1>4, <1>5 DEF Consistent, KeysAreUnique

LEMMA ServeKeepsForm ==
  ASSUME Consistent, NEW c \in calls, Serve(c)
  PROVE  FormIsKept /\ KeysAreUnique'
<1>1. UNCHANGED <<fields, verdict>>
  BY DEF Serve, form
<1>2. \E answer, found : Returns(c, answer, found)
  BY DEF Serve, Stores, Shows, Copies, Deletes, StartsManaged, Reads, Refused, Create, Update
<1>3. FormIsKept
  BY <1>1, <1>2, ReturnsMakes DEF FormIsKept, Consistent, VerdictIsOfThePort
<1> SUFFICES KeysAreUnique'
  BY <1>3
<1>4. CASE rows' \subseteq rows /\ lastId' = lastId
  BY <1>4 DEF Consistent, KeysAreUnique
<1>5. CASE \E content : Create(c, content) \/ Update(c, content)
  BY <1>5, CreateKeeps, UpdateKeeps
<1>6. Stores(c) \/ Copies(c) => UNCHANGED store \/ \E content : Create(c, content) \/ Update(c, content)
  BY DEF Stores, Copies, Refused
<1>7. Shows(c) \/ Deletes(c) \/ StartsManaged(c) \/ Reads(c) => rows' \subseteq rows /\ lastId' = lastId
  BY DEF Shows, Deletes, StartsManaged, Reads, Refused, store
<1> QED
  BY <1>4, <1>5, <1>6, <1>7 DEF Serve, store

\* The callbacks.
LEMMA ReceiveKeepsForm ==
  ASSUME Consistent, NEW c \in calls, Receive(c)
  PROVE  FormIsKept /\ KeysAreUnique'
<1>1. KeysAreUnique'
  BY DEF Receive, Consistent, KeysAreUnique, store
<1> SUFFICES FormIsKept
  BY <1>1
<1>2. \A d \in calls \ {c} : IsCall(d)
  BY DEF Consistent
<1>3. \A kind, page, id, content : IsCall(Request(kind, page, id, content))
  BY RequestIsCall
<1>4. CASE GotList(c) \/ GotRenamed(c) \/ GotStarted(c) \/ GotFailure(c)
  BY <1>2, <1>4 DEF GotList, GotRenamed, GotStarted, GotFailure, Consumed, form, FormIsKept,
     Consistent, VerdictIsOfThePort
<1>5. CASE GotRelays(c) \/ GotEndpoints(c)
  <2>1. IsForm(fields') /\ fields'.port = fields.port /\ verdict' = verdict /\ Consumed(c)
    BY <1>5 DEF GotRelays, GotEndpoints, IsForm, Consistent
  <2> QED
    BY <1>2, <2>1 DEF Consumed, FormIsKept, Consistent, VerdictIsOfThePort
<1>6. CASE GotVerdict(c)
  <2>1. IsForm(fields') /\ fields' = fields /\ Consumed(c)
    BY <1>6 DEF GotVerdict, Consistent
  <2>2. VerdictIsOfThePort'
    BY <1>6, <2>1 DEF GotVerdict, Judges, VerdictIsOfThePort, Consistent
  <2> QED
    BY <1>2, <2>1, <2>2 DEF Consumed, FormIsKept
<1>7. CASE GotSaved(c)
  BY <1>2, <1>3, <1>7 DEF GotSaved, FormIsKept, Consistent, VerdictIsOfThePort, List
<1>8. CASE GotSavedToStart(c)
  <2>1. UNCHANGED <<fields, verdict>>
    BY <1>8 DEF GotSavedToStart
  <2>2. \A d \in calls' : d \in calls \ {c} \/ \E i : d = Request("start", shown, i, c.content)
    BY <1>8 DEF GotSavedToStart
  <2> QED
    BY <1>2, <1>3, <2>1, <2>2 DEF FormIsKept, Consistent, VerdictIsOfThePort
<1>9. CASE GotReset(c)
  <2>1. \A d \in (calls \ {c}) \cup {List} : IsCall(d)
    BY <1>2, <1>3 DEF List
  <2> QED
    BY <1>9, <2>1, NewSessionMakes DEF GotReset, FormIsKept, VerdictIsOfThePort
<1>10. CASE GotTunnels(c)
  <2>1. IsForm(fields') /\ fields' = fields
    BY <1>10 DEF GotTunnels, Consistent
  <2>2. CASE Check(selected, fields.port, active', calls \ {c})
    BY <1>2, <2>1, <2>2, CheckMakes DEF FormIsKept, VerdictIsOfThePort
  <2>3. CASE Consumed(c) /\ UNCHANGED <<verdict, due>>
    BY <1>2, <2>1, <2>3 DEF Consumed, FormIsKept, VerdictIsOfThePort, Consistent
  <2> QED
    BY <1>10, <2>2, <2>3 DEF GotTunnels
<1> QED
  BY <1>4, <1>5, <1>6, <1>7, <1>8, <1>9, <1>10 DEF Receive

LEMMA EditorKeepsForm ==
  ASSUME Consistent, EditorNext
  PROVE  Consistent'
<1>1. CASE CheckIsDue
  <2>1. Check(selected, fields.port, active, calls) /\ UNCHANGED <<fields, rows, lastId>>
    BY <1>1 DEF CheckIsDue, store
  <2> QED
    BY <2>1, CheckMakes DEF Consistent, VerdictIsOfThePort, KeysAreUnique
<1>2. CASE Poll
  BY <1>2, RequestIsCall DEF Poll, Consistent, VerdictIsOfThePort, KeysAreUnique, form, store
<1>3. CASE \E r \in open : TunnelEnds(r)
  BY <1>3 DEF TunnelEnds, Consistent, VerdictIsOfThePort, KeysAreUnique, form
<1>4. FormIsKept /\ KeysAreUnique' => Consistent'
  BY DEF FormIsKept, Consistent
<1> QED
  BY <1>1, <1>2, <1>3, <1>4, UserKeepsForm, ServeKeepsForm, ReceiveKeepsForm DEF EditorNext

-----------------------------------------------------------------------------
(* What a user who is patient waits for *)

\* Nothing that is awaited moves, and the session that is shown stays.
LEMMA QuietKeeps ==
  ASSUME Patient, Fore(calls') = Fore(calls), UNCHANGED <<shown, listed, rows, mistaken>>,
         fields'.port = fields.port, fields.host # Blank => fields'.host = fields.host,
         selected' = selected, selected # Blank => base' = base
  PROVE  Patient'
<1>1. Ahead' <=> Ahead
  BY DEF Ahead
<1>2. \A c \in Fore(calls) : Sound(c)'
  <2> SUFFICES ASSUME NEW c \in Fore(calls) PROVE Sound(c)'
    OBVIOUS
  <2>1. Sound(c) /\ \A x : Current(x)' <=> Current(x)
    BY DEF Patient, Current
  <2> QED
    BY <2>1 DEF Sound, Stored_
<1>3. BaseIsCurrent'
  BY <1>1 DEF Patient, BaseIsCurrent
<1>4. ListIsCurrent'
  BY <1>1 DEF Patient, ListIsCurrent, Current
<1> QED
  BY <1>2, <1>3, <1>4 DEF Patient

\* The one call that is awaited, and none.
LEMMA OneKeeps ==
  ASSUME NEW d, Fore(calls') = {d}, ~mistaken', Sound(d)', BaseIsCurrent', ListIsCurrent'
  PROVE  Patient'
BY DEF Patient

LEMMA NoneKeeps ==
  ASSUME Fore(calls') = {}, ~mistaken', BaseIsCurrent', ListIsCurrent'
  PROVE  Patient'
BY DEF Patient

\* A user who is patient acts when nothing is awaited.
LEMMA UserIsPatient ==
  ASSUME Patient, scenario.patient, User
  PROVE  /\ Fore(calls) = {} /\ ~Ahead /\ ~mistaken
         /\ \A x \in listed : Current(x)
         /\ selected # Blank =>
              \A q \in rows : q.id = selected /\ q.profile = shown => Same(base, q)
<1>1. Fore(calls) = {}
  BY DEF User, Fore
<1> QED
  BY <1>1 DEF Patient, Ahead, BaseIsCurrent, ListIsCurrent

\* A new call, whose answer is not there yet.
LEMMA SubmitKeeps ==
  ASSUME RdsEditorAssumption, Fore(calls) = {}, ~mistaken,
         \A x \in listed : Current(x),
         selected # Blank => \A q \in rows : q.id = selected /\ q.profile = shown => Same(base, q),
         NEW kind \in {"save", "saveStart", "start", "rename", "clone", "delete"}, NEW content,
         Submit(kind, content), UNCHANGED <<fields, base, selected, lists, store>>,
         kind \in {"save", "saveStart"} => content = fields,
         kind \in {"saveStart", "start"} => selected # Blank,
         kind = "start" => content = base
  PROVE  Patient'
<1> PICK d : d = Request(kind, shown, selected, content)
  OBVIOUS
<1>1. /\ d.kind = kind /\ d.page = shown /\ d.row = selected /\ d.content = content
      /\ d.answer = Blank /\ d.rows = {} /\ calls' = calls \cup {d}
  BY RequestIsCall DEF Submit
<1>2. Fore(calls') = {d} /\ d.answer # "ok"
  BY <1>1 DEF Fore, Background, RdsEditorAssumption
<1>3. UNCHANGED <<shown, listed, rows, mistaken>>
  BY DEF lists, store
<1>4. Sound(d)'
  BY <1>1, <1>2, <1>3 DEF Sound, Stored_
<1>5. BaseIsCurrent' /\ ListIsCurrent'
  BY <1>3 DEF BaseIsCurrent, ListIsCurrent, Current
<1> QED
  BY <1>2, <1>3, <1>4, <1>5, OneKeeps

LEMMA UserKeeps ==
  ASSUME Consistent, Patient, scenario.patient, UserActs
  PROVE  Patient'
<1>0. User
  BY DEF UserActs, ChooseProfile, New, TypeHost, Save, Delete, DeleteDraft, Connect, Select,
     ChooseRelay, TypePort, Copy
<1>1. /\ Fore(calls) = {} /\ ~Ahead /\ ~mistaken /\ \A x \in listed : Current(x)
      /\ selected # Blank =>
           \A q \in rows : q.id = selected /\ q.profile = shown => Same(base, q)
  BY <1>0, UserIsPatient
<1>2. CASE \E p \in Profiles : ChooseProfile(p)
  <2> PICK p \in Profiles : ChooseProfile(p)
    BY <1>2
  <2>1. \A c \in calls \cup Loads(p) : IsCall(c)
    BY RequestIsCall DEF Loads, List, Consistent
  <2>2. /\ NewSession(FALSE, Blank, Blank, calls \cup Loads(p))
        /\ listed' = {} /\ UNCHANGED mistaken
    BY DEF ChooseProfile, store
  <2>3. Fore(calls') = Fore(calls \cup Loads(p)) /\ selected' = Blank
    BY <2>1, <2>2, NewSessionMakes
  <2> PICK d : d = List
    OBVIOUS
  <2>4. d.kind = "list" /\ d.rows = {} /\ d.answer = Blank /\ Blank # "failed"
    BY RequestIsCall, RdsEditorAssumption DEF List, RdsEditorAssumption
  <2>5. Fore(calls') = {d}
    BY <1>1, <2>3, <2>4, RequestIsCall DEF Fore, Loads, Background
  <2>6. Sound(d)' /\ BaseIsCurrent' /\ ListIsCurrent'
    BY <2>2, <2>3, <2>4 DEF Sound, Stored_, BaseIsCurrent, ListIsCurrent
  <2> QED
    BY <1>1, <2>2, <2>5, <2>6, OneKeeps
<1>3. ASSUME NEW r \in listed, ShowRow(r), UNCHANGED <<lists, store>>
      PROVE  Patient'
  <2>1. /\ Fore(calls') = {} /\ selected' = r.id /\ Same(r, base') /\ ~mistaken'
        /\ UNCHANGED <<shown, listed, rows>>
    BY <1>1, <1>3, ShowRowMakes DEF lists, store, Same
  <2>2. BaseIsCurrent' /\ ListIsCurrent'
    BY <1>1, <2>1 DEF BaseIsCurrent, ListIsCurrent, Current, Same
  <2> QED
    BY <2>1, <2>2, NoneKeeps
<1>4. ASSUME NEW draft, NEW host, NewSession(draft, fields.relay, host, calls), UNCHANGED <<lists, store>>
      PROVE  Patient'
  <2>0. \A c \in calls : IsCall(c)
    BY DEF Consistent
  <2>1. Fore(calls') = {} /\ selected' = Blank /\ ~mistaken' /\ UNCHANGED <<shown, listed, rows>>
    BY <1>1, <1>4, <2>0, NewSessionMakes DEF lists, store
  <2>2. BaseIsCurrent' /\ ListIsCurrent'
    BY <1>1, <2>1 DEF BaseIsCurrent, ListIsCurrent, Current
  <2> QED
    BY <2>1, <2>2, NoneKeeps
<1>5. CASE \/ \E host \in Hosts : TypeHost(host)
           \/ \E relay \in Among(choices) : ChooseRelay(relay)
           \/ \E port \in Ports : TypePort(port)
  <2>1. Fore(calls') = {} /\ ~mistaken' /\ UNCHANGED <<shown, listed, rows, base, selected>>
    BY <1>1, <1>5, UnwantedAreCalls DEF TypeHost, ChooseRelay, TypePort, lists, store, Consistent
  <2>2. BaseIsCurrent' /\ ListIsCurrent'
    BY <1>1, <2>1 DEF BaseIsCurrent, ListIsCurrent, Current
  <2> QED
    BY <2>1, <2>2, NoneKeeps
<1>6. CASE Save \/ Delete \/ \E kind \in {"rename", "clone"} : Copy(kind)
  <2>1. /\ \E kind, content : /\ kind \in {"save", "rename", "clone", "delete"}
                               /\ Submit(kind, content) /\ (kind = "save" => content = fields)
        /\ UNCHANGED <<fields, base, selected, lists, store>>
    BY <1>6 DEF Save, Delete, Copy, form
  <2> PICK kind, content : /\ kind \in {"save", "rename", "clone", "delete"}
                           /\ Submit(kind, content) /\ (kind = "save" => content = fields)
    BY <2>1
  <2>2. /\ kind \in {"save", "saveStart", "start", "rename", "clone", "delete"}
        /\ kind \in {"save", "saveStart"} => content = fields
        /\ kind \notin {"saveStart", "start"}
    OBVIOUS
  <2> QED
    BY <1>1, <2>1, <2>2, SubmitKeeps, RdsEditorAssumption
<1>7. CASE Connect
  <2>1. selected # Blank /\ UNCHANGED <<fields, base, selected, lists, store>>
    BY <1>7 DEF Connect, form
  <2> PICK kind, content : /\ kind \in {"saveStart", "start"} /\ content = fields
                           /\ Submit(kind, content) /\ (kind = "start" => content = base)
    BY <1>7 DEF Connect, Dirty
  <2>2. kind \in {"save", "saveStart", "start", "rename", "clone", "delete"}
    OBVIOUS
  <2> QED
    BY <1>1, <2>1, <2>2, SubmitKeeps, RdsEditorAssumption
<1> QED
  BY <1>2, <1>3, <1>4, <1>5, <1>6, <1>7 DEF UserActs, New, Select, DeleteDraft

\* The worker has answered the call that is awaited.
LEMMA AnswerIsAwaited ==
  ASSUME Consistent, Patient, NEW c \in Fore(calls), NEW answer, NEW found,
         Returns(c, answer, found)
  PROVE  \E d : /\ Fore(calls') = {d} /\ d.kind = c.kind /\ d.page = c.page /\ d.row = c.row
                /\ d.content = c.content /\ d.answer = answer /\ d.rows = found
<1> PICK d : d = Answered(c, answer, found)
  OBVIOUS
<1>1. c \in calls /\ IsCall(c) /\ c.kind \notin Background
  BY DEF Fore, Consistent
<1>2. /\ d.kind = c.kind /\ d.page = c.page /\ d.row = c.row
      /\ d.content = c.content /\ d.answer = answer /\ d.rows = found
  BY <1>1, AnsweredIsCall
<1>3. calls' = (calls \ {c}) \cup {d}
  BY <1>1, ReturnsMakes
<1>4. \A e \in Fore(calls) : e = c
  BY DEF Patient
<1>5. Fore(calls') = {d}
  BY <1>1, <1>2, <1>3, <1>4 DEF Fore
<1> QED
  BY <1>2, <1>5

\* A row that is alone with its key is what is stored of it.
LEMMA StoredIsCurrent ==
  ASSUME KeysAreUnique, NEW x \in rows
  PROVE  Current(x)
BY DEF KeysAreUnique, Current, Same

LEMMA CurrentStays ==
  ASSUME rows' \subseteq rows, UNCHANGED shown, NEW x, Current(x)
  PROVE  Current(x)'
BY DEF Current

\* What the answer to the one call finds.
Awaits(c) ==
  /\ c \in Fore(calls) /\ c.answer = Blank /\ ~mistaken /\ Sound(c)
  /\ selected # Blank =>
       \A q \in rows : q.id = selected /\ q.profile = shown => Same(base, q)
  /\ c.kind # "list" => \A x \in listed : Current(x)
LEMMA OneIsAwaited ==
  ASSUME RdsEditorAssumption, Patient, NEW c \in Fore(calls), c.answer = Blank
  PROVE  Awaits(c)
<1>1. \A d \in Fore(calls) : d = c
  BY DEF Patient
<1>2. ~Ahead
  BY <1>1 DEF Ahead, RdsEditorAssumption
<1> QED
  BY <1>1, <1>2 DEF Patient, Awaits, BaseIsCurrent, ListIsCurrent

Page == <<shown, listed, selected, base, fields>>

LEMMA RefusedKeeps ==
  ASSUME Consistent, Patient, NEW c, Awaits(c), c.kind # "list", Refused(c), UNCHANGED Page
  PROVE  Patient'
<1> PICK d : /\ Fore(calls') = {d} /\ d.kind = c.kind /\ d.page = c.page /\ d.row = c.row
             /\ d.content = c.content /\ d.answer = "failed" /\ d.rows = {}
  BY AnswerIsAwaited DEF Refused, Awaits
<1>1. UNCHANGED <<shown, listed, rows, mistaken, selected, base, fields>>
  BY DEF Refused, store, Page
<1>2. \A x : Current(x) => Current(x)'
  BY <1>1, CurrentStays
<1>3. Sound(d)'
  BY <1>1, <1>2, RdsEditorAssumption DEF Sound, Awaits, Stored_, RdsEditorAssumption
<1>4. BaseIsCurrent'
  BY <1>1 DEF Awaits, BaseIsCurrent
<1>5. ListIsCurrent'
  BY <1>1, <1>2 DEF Awaits, ListIsCurrent
<1> QED
  BY <1>1, <1>3, <1>4, <1>5, OneKeeps DEF Awaits

\* A row is written: what is written is what is stored then.
LEMMA CreatedIsCurrent ==
  ASSUME Consistent, NEW c \in calls, NEW content, Create(c, content)
  PROVE  \E new : /\ new.id = lastId + 1 /\ Same(content, new)
                  /\ rows' = rows \cup {new} /\ Returns(c, "ok", {new})
                  /\ Current(new)' /\ UNCHANGED mistaken
<1> PICK new : new = Row(lastId + 1, c.page, content)
  OBVIOUS
<1>1. new.id = lastId + 1 /\ Same(content, new)
  BY DEF Row, Same
<1>2. rows' = rows \cup {new} /\ Returns(c, "ok", {new}) /\ UNCHANGED mistaken
  BY DEF Create
<1>3. Current(new)'
  BY <1>1, <1>2 DEF Consistent, KeysAreUnique, Current, Same
<1> QED
  BY <1>1, <1>2, <1>3

LEMMA UpdatedIsCurrent ==
  ASSUME Consistent, NEW c \in calls, NEW content, Update(c, content)
  PROVE  \E new, old : /\ new.id = c.row /\ Same(content, new)
                       /\ old \in rows /\ old.id = c.row /\ old.profile = c.page
                       /\ rows' \subseteq rows \cup {new} /\ Returns(c, "ok", {new})
                       /\ Current(new)' /\ UNCHANGED mistaken
<1> PICK new : new = Row(c.row, c.page, content)
  OBVIOUS
<1>1. new.id = c.row /\ Same(content, new)
  BY DEF Row, Same
<1>2. /\ rows' = (rows \ Found(c, c.page)) \cup {new} /\ Returns(c, "ok", {new})
      /\ UNCHANGED mistaken
  BY DEF Update
<1> PICK old \in rows : old \in Found(c, c.page) /\ old.id = c.row /\ old.profile = c.page
  BY DEF Update, Found, At
<1>3. \A r \in rows : r.id = c.row => r \in Found(c, c.page)
  BY DEF Consistent, KeysAreUnique
<1>4. Current(new)'
  BY <1>1, <1>2, <1>3 DEF Current, Same
<1> QED
  BY <1>1, <1>2, <1>4

LEMMA StoresKeeps ==
  ASSUME Consistent, Patient, NEW c, Awaits(c), Stores(c), UNCHANGED Page
  PROVE  Patient'
<1>0. c \in calls /\ c.kind \in {"save", "saveStart"} /\ c.page = shown /\ Sound(c)
  BY DEF Awaits, Fore, Stores, Sound
<1>1. CASE Refused(c)
  BY <1>0, <1>1, RefusedKeeps
<1>2. ASSUME NEW new, Returns(c, "ok", {new}), Same(c.content, new), Current(new)',
             UNCHANGED mistaken, c.content.host # Blank,
             c.kind = "saveStart" =>
               new.id = c.row /\ \A x \in listed : x.id = c.row \/ Current(x)'
      PROVE  Patient'
  <2> PICK d : /\ Fore(calls') = {d} /\ d.kind = c.kind /\ d.page = c.page /\ d.row = c.row
               /\ d.content = c.content /\ d.answer = "ok" /\ d.rows = {new}
    BY <1>2, AnswerIsAwaited DEF Awaits
  <2>1. d \in Fore(calls') /\ Ahead'
    BY <1>0 DEF Ahead
  <2>2. BaseIsCurrent' /\ ListIsCurrent'
    BY <2>1 DEF BaseIsCurrent, ListIsCurrent
  <2>3. Sound(d)'
    BY <1>0, <1>2 DEF Sound, Stored_, Page
  <2> QED
    BY <1>2, <2>2, <2>3, OneKeeps DEF Awaits
<1>3. CASE c.row = Blank /\ c.content.host # Blank /\ Create(c, c.content)
  <2>1. c.kind # "saveStart"
    BY <1>0, <1>3 DEF Sound
  <2> QED
    BY <1>0, <1>2, <1>3, <2>1, CreatedIsCurrent
<1>4. CASE c.row # Blank /\ c.content.host # Blank /\ Update(c, c.content)
  <2> PICK new : /\ new.id = c.row /\ Same(c.content, new) /\ rows' \subseteq rows \cup {new}
                 /\ Returns(c, "ok", {new}) /\ Current(new)' /\ UNCHANGED mistaken
    BY <1>0, <1>4, UpdatedIsCurrent
  <2>1. \A x \in listed : x.id = c.row \/ Current(x)'
    BY <1>0 DEF Awaits, Current, Page
  <2> QED
    BY <1>2, <1>4, <2>1
<1> QED
  BY <1>1, <1>3, <1>4 DEF Stores

LEMMA CopiesKeeps ==
  ASSUME Consistent, Patient, NEW c, Awaits(c), Copies(c), UNCHANGED Page
  PROVE  Patient'
<1>0. /\ c \in calls /\ c.kind \in {"rename", "clone"} /\ c.page = shown /\ Sound(c)
      /\ c.answer = Blank
  BY DEF Awaits, Fore, Copies, Sound
<1> PICK source \in c.rows :
       \/ c.kind = "rename" /\ Update(c, Content(source))
       \/ c.kind = "clone" /\ Create(c, Content(source))
       \/ c.kind \in {"rename", "clone"} /\ Refused(c)
  BY DEF Copies
<1> PICK content : content = Content(source)
  OBVIOUS
<1>1. Same(source, content) /\ Current(source)
  BY <1>0 DEF Content, Same, Sound
<1>2. CASE Refused(c)
  BY <1>0, <1>2, RefusedKeeps
<1>3. CASE c.kind = "clone" /\ Create(c, content)
  <2> PICK new : Returns(c, "ok", {new}) /\ Current(new)' /\ UNCHANGED mistaken
    BY <1>0, <1>3, CreatedIsCurrent
  <2> PICK d : /\ Fore(calls') = {d} /\ d.kind = c.kind /\ d.page = c.page /\ d.row = c.row
               /\ d.content = c.content /\ d.answer = "ok" /\ d.rows = {new}
    BY AnswerIsAwaited DEF Awaits
  <2>1. Ahead'
    BY <1>3 DEF Ahead
  <2>2. BaseIsCurrent' /\ ListIsCurrent'
    BY <2>1 DEF BaseIsCurrent, ListIsCurrent
  <2>3. Sound(d)'
    BY <1>0, <1>3 DEF Sound, Stored_, Page
  <2> QED
    BY <2>2, <2>3, OneKeeps DEF Awaits
<1>4. CASE c.kind = "rename" /\ Update(c, content)
  <2> PICK new, old : /\ new.id = c.row /\ Same(content, new)
                      /\ old \in rows /\ old.id = c.row /\ old.profile = c.page
                      /\ rows' \subseteq rows \cup {new} /\ Returns(c, "ok", {new})
                      /\ Current(new)' /\ UNCHANGED mistaken
    BY <1>0, <1>4, UpdatedIsCurrent
  <2> PICK d : /\ Fore(calls') = {d} /\ d.kind = c.kind /\ d.page = c.page /\ d.row = c.row
               /\ d.content = c.content /\ d.answer = "ok" /\ d.rows = {new}
    BY AnswerIsAwaited DEF Awaits
  <2>1. source.id = c.row
    BY <1>0, <1>4 DEF Sound
  <2>2. Same(old, new)
    BY <1>0, <1>1, <2>1 DEF Current, Same
  <2>3. Sound(d)'
    BY <1>0, <1>4, RdsEditorAssumption DEF Sound, Stored_, Page, RdsEditorAssumption
  <2>4. BaseIsCurrent'
    BY <1>0, <2>2 DEF BaseIsCurrent, Awaits, Same, Page
  <2>5. ListIsCurrent'
    BY <1>0, <1>4, <2>2 DEF ListIsCurrent, Awaits, Current, Same, Page
  <2> QED
    BY <2>3, <2>4, <2>5, OneKeeps DEF Awaits
<1> QED
  BY <1>2, <1>3, <1>4

\* The other calls leave the rows, or take one away.
LEMMA ReadersKeep ==
  ASSUME Consistent, Patient, NEW c, Awaits(c), UNCHANGED Page,
         Shows(c) \/ Deletes(c) \/ StartsManaged(c) \/ Reads(c)
  PROVE  Patient'
<1>0. c \in calls /\ c.kind \notin Background /\ Sound(c) /\ c.answer = Blank
  BY DEF Awaits, Fore
<1>1. CASE Refused(c) /\ c.kind # "list"
  BY <1>1, RefusedKeeps
<1>2. ASSUME NEW answer, NEW found, Returns(c, answer, found), rows' \subseteq rows,
             ~mistaken', \A x \in found : Current(x),
             c.kind \in {"list", "rename", "clone", "delete", "start"},
             c.kind = "clone" => answer # "ok", c.kind = "list" => answer # "failed",
             c.kind = "rename" => \A x \in found : x.id = c.row
      PROVE  Patient'
  <2> PICK d : /\ Fore(calls') = {d} /\ d.kind = c.kind /\ d.page = c.page /\ d.row = c.row
               /\ d.content = c.content /\ d.answer = answer /\ d.rows = found
    BY <1>2, AnswerIsAwaited DEF Awaits
  <2>1. \A x : Current(x) => Current(x)'
    BY <1>2, CurrentStays DEF Page
  <2>2. Sound(d)'
    BY <1>0, <1>2, <2>1 DEF Sound, Stored_, Page
  <2>3. BaseIsCurrent'
    BY <1>2 DEF BaseIsCurrent, Awaits, Page
  <2>4. ListIsCurrent'
    BY <2>1 DEF ListIsCurrent, Awaits, Page
  <2> QED
    BY <1>2, <2>2, <2>3, <2>4, OneKeeps DEF Awaits
<1>3. \A x \in rows : Current(x)
  BY StoredIsCurrent DEF Consistent
<1>4. CASE Shows(c) /\ ~Refused(c)
  <2>1. /\ Returns(c, Blank, Found(c, c.page)) /\ UNCHANGED <<rows, mistaken>>
        /\ c.kind \in {"rename", "clone"}
    BY <1>4 DEF Shows, store
  <2>2. \A x \in Found(c, c.page) : Current(x) /\ x.id = c.row
    BY <1>3 DEF Found, At
  <2> QED
    BY <1>2, <2>1, <2>2, RdsEditorAssumption DEF RdsEditorAssumption, Awaits
<1>5. CASE Deletes(c) /\ ~Refused(c)
  <2>1. /\ Returns(c, "ok", {}) /\ rows' \subseteq rows /\ UNCHANGED mistaken
        /\ c.kind = "delete"
    BY <1>5 DEF Deletes
  <2> QED
    BY <1>2, <2>1 DEF Awaits
<1>6. CASE StartsManaged(c) /\ ~Refused(c)
  <2>1. c.kind = "start"
    BY <1>6 DEF StartsManaged
  <2> PICK r \in Found(c, c.page) :
         /\ mistaken' = (mistaken \/ r.host # c.content.host \/ r.port # c.content.port)
         /\ Returns(c, "ok", {}) /\ UNCHANGED <<rows, lastId>>
    BY <1>6 DEF StartsManaged
  <2>2. Same(c.content, r)
    BY <1>0, <2>1 DEF Sound, Found, At
  <2>3. ~mistaken'
    BY <2>2 DEF Same, Awaits
  <2> QED
    BY <1>2, <2>1, <2>3
<1>7. CASE Reads(c)
  <2>1. c.kind = "list" /\ Returns(c, "ok", {r \in rows : r.profile = shown}) /\ UNCHANGED store
    BY <1>0, <1>7 DEF Reads, Background
  <2> QED
    BY <1>2, <1>3, <2>1 DEF store, Awaits
<1> QED
  BY <1>1, <1>4, <1>5, <1>6, <1>7 DEF Shows, Deletes, StartsManaged

LEMMA ServeKeeps ==
  ASSUME Consistent, Patient, NEW c \in calls, Serve(c)
  PROVE  Patient'
<1>1. UNCHANGED Page /\ c.answer = Blank
  BY DEF Serve, form, lists, Page
<1>2. CASE c \in Fore(calls)
  <2>1. Awaits(c)
    BY <1>1, <1>2, OneIsAwaited, RdsEditorAssumption
  <2> QED
    BY <1>1, <2>1, StoresKeeps, CopiesKeeps, ReadersKeep DEF Serve
<1>3. CASE c \notin Fore(calls)
  <2>1. c.kind \in Background
    BY <1>3 DEF Fore
  <2>2. Reads(c)
    BY <2>1 DEF Serve, Stores, Shows, Copies, Deletes, StartsManaged, Background
  <2>3. UNCHANGED store
    BY <2>2 DEF Reads
  <2> PICK answer, found : Returns(c, answer, found)
    BY <2>2 DEF Reads
  <2> PICK d : d = Answered(c, answer, found)
    OBVIOUS
  <2>4. calls' = (calls \ {c}) \cup {d} /\ d.kind = c.kind
    BY ReturnsMakes, AnsweredIsCall DEF Consistent
  <2>5. Fore(calls') = Fore(calls)
    BY <2>1, <2>4 DEF Fore
  <2> QED
    BY <1>1, <2>3, <2>5, QuietKeeps DEF Page, store
<1> QED
  BY <1>2, <1>3

-----------------------------------------------------------------------------
(* The callbacks, and the whole editor *)

LEMMA ForeWithout ==
  ASSUME Patient, NEW c \in calls, Consumed(c)
  PROVE  /\ c \notin Fore(calls) => Fore(calls') = Fore(calls)
         /\ c \in Fore(calls) => Fore(calls') = {}
BY DEF Consumed, Fore, Patient

\* The answers in the background, of whatever is under way beside them.
LEMMA BackgroundKeeps ==
  ASSUME Consistent, Patient, NEW c \in calls, c.kind \in Background, Receive(c)
  PROVE  Patient'
<1>0. c \notin Fore(calls) /\ UNCHANGED store
  BY DEF Fore, Receive
<1>1. CASE GotRelays(c) \/ GotEndpoints(c)
  <2>1. /\ Consumed(c) /\ UNCHANGED <<selected, shown, listed>>
        /\ fields'.port = fields.port /\ (fields.host # Blank => fields'.host = fields.host)
        /\ (selected # Blank => base' = base)
    BY <1>1 DEF GotRelays, GotEndpoints, Consistent, IsForm, lists
  <2> QED
    BY <1>0, <2>1, ForeWithout, QuietKeeps DEF store
<1>2. CASE GotVerdict(c)
  BY <1>0, <1>2, ForeWithout, QuietKeeps DEF GotVerdict, lists, store
<1>3. CASE GotTunnels(c)
  <2>1. UNCHANGED <<selected, fields, base, shown, listed>>
    BY <1>3 DEF GotTunnels
  <2>2. \A d \in calls \ {c} : IsCall(d)
    BY DEF Consistent
  <2>3. Fore(calls \ {c}) = Fore(calls)
    BY <1>0 DEF Fore
  <2>4. CASE Check(selected, fields.port, active', calls \ {c})
    BY <1>0, <2>1, <2>2, <2>3, <2>4, CheckMakes, QuietKeeps DEF store
  <2>5. CASE Consumed(c)
    BY <1>0, <2>1, <2>5, ForeWithout, QuietKeeps DEF store
  <2> QED
    BY <1>3, <2>4, <2>5 DEF GotTunnels
<1>4. CASE GotFailure(c)
  BY <1>0, <1>4, ForeWithout, QuietKeeps DEF GotFailure, form, lists, store
<1> QED
  BY <1>1, <1>2, <1>3, <1>4 DEF Receive, GotList, GotSaved, GotSavedToStart, GotRenamed,
     GotReset, GotStarted, Got, Background

\* What the answer to the one call tells.
LEMMA OneIsAnswered ==
  ASSUME Patient, NEW c \in Fore(calls)
  PROVE  /\ \A d \in Fore(calls) : d = c
         /\ ~mistaken /\ Sound(c) /\ Fore(calls \ {c}) = {}
         /\ ~(c.kind \in {"save", "saveStart", "clone"} /\ c.answer = "ok") =>
              /\ selected # Blank =>
                   \A q \in rows : q.id = selected /\ q.profile = shown => Same(base, q)
              /\ c.kind # "list" => \A x \in listed : Current(x)
<1>1. \A d \in Fore(calls) : d = c
  BY DEF Patient
<1>2. Fore(calls \ {c}) = {}
  BY <1>1 DEF Fore
<1> QED
  BY <1>1, <1>2 DEF Patient, Ahead, BaseIsCurrent, ListIsCurrent

LEMMA AwaitedKeeps ==
  ASSUME Consistent, Patient, NEW c \in Fore(calls), Receive(c)
  PROVE  Patient'
<1>0. c \in calls /\ c.kind \notin Background /\ UNCHANGED <<rows, mistaken>>
  BY DEF Fore, Receive, store
<1>1. /\ ~mistaken /\ Sound(c) /\ Fore(calls \ {c}) = {}
      /\ ~(c.kind \in {"save", "saveStart", "clone"} /\ c.answer = "ok") =>
           /\ selected # Blank =>
                \A q \in rows : q.id = selected /\ q.profile = shown => Same(base, q)
           /\ c.kind # "list" => \A x \in listed : Current(x)
  BY OneIsAnswered
<1>2. ASSUME calls' = calls \ {c}, UNCHANGED <<shown, selected, base>>,
             ~(c.kind \in {"save", "saveStart", "clone"} /\ c.answer = "ok"),
             \A x \in listed' : Current(x)
      PROVE  Patient'
  <2>1. BaseIsCurrent' /\ ListIsCurrent'
    BY <1>0, <1>1, <1>2 DEF BaseIsCurrent, ListIsCurrent, Current
  <2> QED
    BY <1>0, <1>1, <1>2, <2>1, NoneKeeps
<1>3. CASE GotList(c)
  BY <1>1, <1>2, <1>3 DEF GotList, Got, Consumed, form, Sound
<1>4. CASE GotRenamed(c)
  <2>1. \A x \in listed' : Current(x)
    BY <1>1, <1>4 DEF GotRenamed, Got, Listed, Sound
  <2> QED
    BY <1>2, <1>4, <2>1 DEF GotRenamed, Got, Consumed, form
<1>5. CASE GotStarted(c)
  BY <1>1, <1>2, <1>5 DEF GotStarted, Got, Consumed, form, lists
<1>6. CASE GotFailure(c)
  <2>1. c.kind # "list" /\ c.answer = "failed" /\ Consumed(c) /\ UNCHANGED <<form, lists>>
    BY <1>1, <1>6 DEF GotFailure, Sound
  <2> QED
    BY <1>1, <1>2, <2>1 DEF Consumed, form, lists
\* The list is asked for, and nothing that may be out of date is selected.
<1>7. ASSUME UNCHANGED <<shown, listed>>, Fore(calls') = Fore((calls \ {c}) \cup {List}), BaseIsCurrent'
      PROVE  Patient'
  <2> PICK d : d = List
    OBVIOUS
  <2>1. d.kind = "list" /\ d.rows = {} /\ d.answer = Blank
    BY RequestIsCall DEF List
  <2>2. Fore(calls') = {d}
    BY <1>1, <1>7, <2>1 DEF Fore, Background
  <2>3. Sound(d)' /\ ListIsCurrent'
    BY <2>1, <2>2, RdsEditorAssumption DEF Sound, Stored_, ListIsCurrent, RdsEditorAssumption
  <2> QED
    BY <1>0, <1>1, <1>7, <2>2, <2>3, OneKeeps
<1>8. CASE GotSaved(c)
  <2>1. /\ c.kind = "save" /\ c.answer = "ok" /\ calls' = (calls \ {c}) \cup {List}
        /\ base' = fields /\ UNCHANGED <<shown, listed>>
    BY <1>8 DEF GotSaved, Got, lists
  <2> PICK r \in c.rows : selected' = r.id
    BY <1>8 DEF GotSaved
  <2>2. Current(r) /\ Same(fields, r)
    BY <1>1, <2>1 DEF Sound, Stored_, Same
  <2>3. BaseIsCurrent'
    BY <1>0, <2>1, <2>2 DEF BaseIsCurrent, Current, Same
  <2> QED
    BY <1>7, <2>1, <2>3
<1>9. CASE GotReset(c)
  <2>1. \A d \in (calls \ {c}) \cup {List} : IsCall(d)
    BY RequestIsCall DEF List, Consistent
  <2>2. /\ NewSession(FALSE, fields.relay, Blank, (calls \ {c}) \cup {List})
        /\ UNCHANGED <<shown, listed>>
    BY <1>9 DEF GotReset, lists
  <2>3. Fore(calls') = Fore((calls \ {c}) \cup {List}) /\ selected' = Blank
    BY <2>1, <2>2, NewSessionMakes
  <2>4. BaseIsCurrent'
    BY <2>3 DEF BaseIsCurrent
  <2> QED
    BY <1>7, <2>2, <2>3, <2>4
<1>10. CASE GotSavedToStart(c)
  <2>1. c.kind = "saveStart" /\ c.answer = "ok" /\ shown' = shown /\ base' = fields
    BY <1>10 DEF GotSavedToStart, Got
  <2> PICK r \in c.rows :
         /\ selected' = r.id /\ listed' = Listed(r)
         /\ calls' = (calls \ {c}) \cup
              IF Available /\ Free THEN {Request("start", shown, r.id, c.content)} ELSE {}
    BY <1>10 DEF GotSavedToStart
  <2>2. Current(r) /\ Same(fields, r) /\ Same(c.content, r) /\ r.id = c.row
    BY <1>1, <2>1 DEF Sound, Stored_, Same
  <2>3. \A x \in listed' : Current(x)
    BY <1>1, <2>1, <2>2 DEF Listed, At, Sound
  <2>4. BaseIsCurrent' /\ ListIsCurrent'
    BY <1>0, <2>1, <2>2, <2>3 DEF BaseIsCurrent, ListIsCurrent, Current, Same
  <2>5. CASE calls' = calls \ {c}
    BY <1>0, <1>1, <2>4, <2>5, NoneKeeps
  <2>6. CASE calls' = (calls \ {c}) \cup {Request("start", shown, r.id, c.content)}
    <3> PICK d : d = Request("start", shown, r.id, c.content)
      OBVIOUS
    <3>1. /\ d.kind = "start" /\ d.page = shown /\ d.row = r.id /\ d.content = c.content
          /\ d.rows = {}
      BY RequestIsCall
    <3>2. Fore(calls') = {d}
      BY <1>1, <2>6, <3>1 DEF Fore, Background
    <3>3. Sound(d)'
      BY <1>0, <2>1, <2>2, <3>1 DEF Sound, Stored_, Current, Same
    <3> QED
      BY <1>0, <1>1, <2>4, <3>2, <3>3, OneKeeps
  <2> QED
    BY <2>5, <2>6
<1> QED
  BY <1>0, <1>3, <1>4, <1>5, <1>6, <1>8, <1>9, <1>10 DEF Receive, GotRelays, GotEndpoints,
     GotVerdict, GotTunnels, Got, Background

LEMMA EditorKeeps ==
  ASSUME EditorInv, EditorNext, UNCHANGED scenario
  PROVE  EditorInv'
<1>1. Consistent /\ Consistent'
  BY EditorKeepsForm DEF EditorInv
<1> SUFFICES ASSUME scenario.patient PROVE Patient'
  BY <1>1 DEF EditorInv
<1>2. Patient
  BY DEF EditorInv
<1>3. CASE UserActs
  BY <1>1, <1>2, <1>3, UserKeeps
<1>4. CASE CheckIsDue
  <2>1. Check(selected, fields.port, active, calls)
    BY <1>4 DEF CheckIsDue
  <2>2. Fore(calls') = Fore(calls)
    BY <1>1, <2>1, CheckMakes DEF Consistent
  <2> QED
    BY <1>2, <1>4, <2>2, QuietKeeps DEF CheckIsDue, lists, store
<1>5. CASE Poll
  <2>1. Fore(calls') = Fore(calls)
    BY <1>5, RequestIsCall DEF Poll, Fore, Background
  <2> QED
    BY <1>2, <1>5, <2>1, QuietKeeps DEF Poll, form, lists, store
<1>6. CASE \E c \in calls : Serve(c) \/ Receive(c)
  <2> PICK c \in calls : Serve(c) \/ Receive(c)
    BY <1>6
  <2>1. c \in Fore(calls) \/ c.kind \in Background
    BY DEF Fore
  <2> QED
    BY <1>1, <1>2, <2>1, ServeKeeps, AwaitedKeeps, BackgroundKeeps
<1>7. CASE \E r \in open : TunnelEnds(r)
  BY <1>2, <1>7, QuietKeeps DEF TunnelEnds, form, lists
<1> QED
  BY <1>3, <1>4, <1>5, <1>6, <1>7 DEF EditorNext

LEMMA EditorStarts ==
  ASSUME EditorInit
  PROVE  EditorInv
<1> PICK r \in Stored :
       /\ shown = r.profile /\ selected = r.id /\ fields = Content(r) /\ base = fields
       /\ verdict = [port |-> r.port, free |-> TRUE]
  BY DEF EditorInit
<1>1. /\ rows = Stored /\ calls = {} /\ listed \subseteq Stored /\ ~mistaken
      /\ lastId = Cardinality(Stored)
  BY DEF EditorInit
<1>2. IsForm(fields) /\ Same(base, r) /\ VerdictIsOfThePort
  BY DEF IsForm, Content, Same, VerdictIsOfThePort
<1>3. KeysAreUnique
  <2>1. Cardinality(Stored) \in Nat
    BY RdsEditorAssumption, FS_CardinalityType DEF RdsEditorAssumption
  <2> QED
    BY <1>1, <2>1, RdsEditorAssumption DEF RdsEditorAssumption, KeysAreUnique
<1>4. Consistent
  BY <1>1, <1>2, <1>3 DEF Consistent
<1>5. \A x \in rows : Current(x)
  BY <1>3, StoredIsCurrent
<1>6. Fore(calls) = {}
  BY <1>1 DEF Fore
<1>7. BaseIsCurrent
  BY <1>1, <1>2, <1>3 DEF BaseIsCurrent, Same, KeysAreUnique
<1>8. ListIsCurrent
  BY <1>1, <1>5 DEF ListIsCurrent
<1> QED
  BY <1>1, <1>4, <1>6, <1>7, <1>8 DEF EditorInv, Patient

-----------------------------------------------------------------------------
(* The tasks of the page: the inductive invariant *)

StartKinds == {"start", "resume", "cancel"}
BusyKinds == StartKinds \cup {"save", "stop"}

Plausible(t) ==
  /\ t.result \in {"mfa", "ask"} => t.kind = "start"
  /\ t.kind \in {"poll", "relays", "other"} /\ t.result = "failed" => "other" \in scenario.faults

OnePoll ==
  /\ polling = (\E t \in tasks : t.kind = "poll")
  /\ \A t, u \in tasks : t.kind = "poll" /\ u.kind = "poll" => t = u

\* One connection at a time, with its flags; and after the tasks that complete
\* quit waits for, none that opens a tunnel.
Orderly ==
  /\ \A t, u \in tasks : t.kind \in BusyKinds /\ u.kind \in BusyKinds => t = u
  /\ \A t \in tasks : (t.kind \in BusyKinds => busy) /\ (t.kind \in StartKinds => starting)
  /\ closed \/ (\E t \in tasks : t.kind = "stopAll") =>
       quitting /\ \A t \in tasks : t.kind \notin StartKinds
  /\ closed \/ (\E t \in tasks : t.kind = "stopAll" /\ t.result # "none") => table = {}

PageInv ==
  /\ \A t \in tasks : Plausible(t)
  /\ OnePoll
  /\ scenario.tunnels = {} => tasks = {}
  /\ "other" \notin scenario.faults => Orderly

-----------------------------------------------------------------------------
(* What the steps do to the tasks *)

LEMMA TaskIs ==
  ASSUME NEW kind, NEW o, NEW result
  PROVE  /\ Task(kind, o, result).kind = kind /\ Task(kind, o, result).op = o
         /\ Task(kind, o, result).result = result
BY DEF Task

\* A step that leaves the polls alone.
LEMMA PollsStay ==
  ASSUME OnePoll, UNCHANGED polling,
         \A t \in tasks' : t.kind = "poll" => t \in tasks,
         \A t \in tasks : t.kind = "poll" => t \in tasks'
  PROVE  OnePoll'
BY DEF OnePoll

\* A poll is asked for, or there is one, or the page quits.
LEMMA RefreshKeeps ==
  ASSUME OnePoll, NEW rest, RefreshActive(rest),
         \A t \in rest : t.kind = "poll" => t \in tasks,
         \A t \in tasks : t.kind = "poll" => t \in rest
  PROVE  /\ OnePoll'
         /\ \A t \in tasks' : t \in rest \/ (t.kind = "poll" /\ t.result = "none")
<1>1. CASE tasks' = rest /\ UNCHANGED polling
  BY <1>1, PollsStay
<1>2. CASE ~polling /\ tasks' = rest \cup {Task("poll", None, "none")} /\ polling' = TRUE
  BY <1>2, TaskIs DEF OnePoll
<1> QED
  BY <1>1, <1>2 DEF RefreshActive

\* What stays orderly: the flags and the tasks that need them.
LEMMA OrderlyStays ==
  ASSUME Orderly, UNCHANGED <<busy, starting, quitting, closed, table>>,
         \A t \in tasks' : t \in tasks \/ t.kind \notin BusyKinds \cup {"stopAll"}
  PROVE  Orderly'
BY DEF Orderly, BusyKinds, StartKinds

\* The one task that has the flags comes to its end.
LEMMA OrderlyEnds ==
  ASSUME Orderly, NEW t \in tasks, t.kind \in BusyKinds, UNCHANGED <<quitting, closed, table>>,
         \A u \in tasks' : u \in tasks \ {t} \/ u.kind \notin BusyKinds \cup {"stopAll"}
  PROVE  Orderly'
<1>1. \A u \in tasks' : u.kind \notin BusyKinds
  BY DEF Orderly
<1> QED
  BY <1>1 DEF Orderly, BusyKinds, StartKinds

\* A task that needs the flags begins, or goes on as another.
LEMMA OrderlyBegins ==
  ASSUME Orderly, NEW d, d.kind \in BusyKinds, UNCHANGED <<quitting, closed, table>>,
         d.kind \in StartKinds => ~closed /\ \A t \in tasks : t.kind # "stopAll",
         \A u \in tasks' : u = d \/ (u \in tasks /\ u.kind \notin BusyKinds),
         busy', d.kind \in StartKinds => starting'
  PROVE  Orderly'
BY DEF Orderly, BusyKinds, StartKinds

\* What a step of the page keeps.
PageKept ==
  /\ \A t \in tasks' : Plausible(t)
  /\ OnePoll'
  /\ "other" \notin scenario.faults => Orderly'

LEMMA PressKeeps ==
  ASSUME PageInv, Press \/ TimerFires \/ Retry
  PROVE  PageKept
<1>0. (\A t \in tasks : Plausible(t)) /\ OnePoll /\ ("other" \notin scenario.faults => Orderly)
  BY DEF PageInv
<1>1. ASSUME NEW d, d.kind \in {"start", "save", "stop"}, d.result = "none",
             tasks' = tasks \cup {d}, ~busy, busy', d.kind = "start" => starting' /\ ~quitting,
             UNCHANGED <<polling, quitting, closed, table>>
      PROVE  PageKept
  <2>1. OnePoll'
    BY <1>0, <1>1, PollsStay
  <2>2. \A t \in tasks' : Plausible(t)
    BY <1>0, <1>1 DEF Plausible
  <2>3. Orderly => Orderly'
    <3> SUFFICES ASSUME Orderly PROVE Orderly'
      OBVIOUS
    <3>1. /\ \A t \in tasks : t.kind \notin BusyKinds
          /\ d.kind \in StartKinds => ~closed /\ \A t \in tasks : t.kind # "stopAll"
      BY <1>1 DEF Orderly, StartKinds
    <3>2. d.kind \in BusyKinds /\ (d.kind \in StartKinds => starting')
      BY <1>1 DEF BusyKinds, StartKinds
    <3> QED
      BY <1>1, <3>1, <3>2, OrderlyBegins
  <2> QED
    BY <1>0, <2>1, <2>2, <2>3 DEF PageKept
<1>2. CASE \E o \in Tunnels : Start(o)
  <2> PICK o \in Tunnels : Start(o)
    BY <1>2
  <2> PICK d : d = Task("start", o, "none")
    OBVIOUS
  <2> QED
    BY <1>1, TaskIs DEF Start, Begin, service
<1>3. CASE SaveThenStart
  <2> PICK d : d = Task("save", None, "none")
    OBVIOUS
  <2> QED
    BY <1>1, <1>3, TaskIs DEF SaveThenStart, service
<1>4. CASE \E o \in Tunnels : Stop(o)
  <2> PICK o \in Tunnels : Stop(o)
    BY <1>4
  <2> PICK d : d = Task("stop", o, "none")
    OBVIOUS
  <2> QED
    BY <1>1, TaskIs DEF Stop, service
<1>5. ASSUME NEW rest, RefreshActive(rest), tasks \subseteq rest,
             \A t \in rest : t \in tasks \/ (t.kind \in {"relays", "other"} /\ t.result = "none"),
             UNCHANGED <<busy, starting, quitting, closed, table>>
      PROVE  PageKept
  <2>0. /\ \A t \in rest : t.kind = "poll" => t \in tasks
        /\ \A t \in tasks : t.kind = "poll" => t \in rest
    BY <1>5
  <2>1. OnePoll' /\ \A t \in tasks' : t \in rest \/ (t.kind = "poll" /\ t.result = "none")
    BY <1>0, <1>5, <2>0, RefreshKeeps
  <2>2. \A t \in tasks' : Plausible(t)
    BY <1>0, <1>5, <2>1 DEF Plausible
  <2>3. \A t \in tasks' : t \in tasks \/ t.kind \notin BusyKinds \cup {"stopAll"}
    BY <1>5, <2>1 DEF BusyKinds, StartKinds
  <2> QED
    BY <1>0, <1>5, <2>1, <2>2, <2>3, OrderlyStays DEF PageKept
<1>6. CASE SetProfile
  <2> PICK rest : rest = tasks \cup {Task(kind, None, "none") : kind \in {"relays", "other"}}
    OBVIOUS
  <2>1. \A t \in rest : t \in tasks \/ (t.kind \in {"relays", "other"} /\ t.result = "none")
    BY TaskIs
  <2> QED
    BY <1>5, <1>6, <2>1 DEF SetProfile, service
<1>7. CASE TimerFires
  BY <1>5, <1>7 DEF TimerFires, service
<1>8. CASE Quit \/ Retry
  <2> PICK d : d = Task("stopAll", None, "none")
    OBVIOUS
  <2>1. /\ d.kind = "stopAll" /\ d.result = "none" /\ quitting' /\ UNCHANGED <<polling, busy, starting, closed, table>>
        /\ tasks' = tasks \/ (~Waits /\ tasks' = tasks \cup {d})
    BY <1>8, TaskIs DEF Quit, Retry, Shutdown, service
  <2>2. OnePoll'
    BY <1>0, <2>1, PollsStay
  <2>3. \A t \in tasks' : Plausible(t)
    BY <1>0, <2>1 DEF Plausible
  <2>4. Orderly => Orderly'
    BY <2>1 DEF Orderly, Waits, BusyKinds, StartKinds
  <2> QED
    BY <1>0, <2>2, <2>3, <2>4 DEF PageKept
<1> QED
  BY <1>2, <1>3, <1>4, <1>6, <1>7, <1>8 DEF Press

LEMMA WorkKeeps ==
  ASSUME PageInv, NEW t \in tasks, Work(t)
  PROVE  PageKept
<1>0. (\A u \in tasks : Plausible(u)) /\ OnePoll /\ ("other" \notin scenario.faults => Orderly)
  BY DEF PageInv
<1> PICK result \in Results : Call(t, result) /\ tasks' = (tasks \ {t}) \cup {Task(t.kind, t.op, result)}
  BY DEF Work
<1> PICK d : d = Task(t.kind, t.op, result)
  OBVIOUS
<1>1. d.kind = t.kind /\ d.result = result /\ tasks' = (tasks \ {t}) \cup {d}
  BY TaskIs
<1>2. UNCHANGED flags
  BY DEF Work
<1>3. OnePoll'
  BY <1>0, <1>1, <1>2 DEF OnePoll, flags
<1>4. Plausible(d)
  BY <1>1 DEF Plausible, Call
<1>5. ASSUME Orderly PROVE Orderly'
  <2>1. /\ \A u, v \in tasks' : u.kind \in BusyKinds /\ v.kind \in BusyKinds => u = v
        /\ \A u \in tasks' : (u.kind \in BusyKinds => busy) /\ (u.kind \in StartKinds => starting)
        /\ closed \/ (\E u \in tasks' : u.kind = "stopAll") =>
             quitting /\ \A u \in tasks' : u.kind \notin StartKinds
    BY <1>1, <1>5 DEF Orderly
  <2>2. CASE t.kind \in StartKinds
    BY <1>1, <1>2, <1>5, <2>1, <2>2 DEF Orderly, flags, StartKinds
  <2>3. CASE t.kind = "stopAll"
    <3>1. table' = {}
      BY <2>3 DEF Call, Closes
    <3> QED
      BY <1>2, <2>1, <3>1 DEF Orderly, flags
  <2>4. CASE t.kind \notin StartKinds \cup {"stopAll"}
    <3>1. table' \subseteq table
      BY <2>4 DEF Call, Closes, StartKinds, service
    <3> QED
      BY <1>1, <1>2, <1>5, <2>1, <2>4, <3>1 DEF Orderly, flags
  <2> QED
    BY <2>2, <2>3, <2>4
<1> QED
  BY <1>0, <1>1, <1>3, <1>4, <1>5 DEF PageKept

LEMMA AnswerKeeps ==
  ASSUME PageInv, NEW t \in tasks, Answer(t)
  PROVE  PageKept
<1>0. (\A u \in tasks : Plausible(u)) /\ OnePoll /\ ("other" \notin scenario.faults => Orderly)
  BY DEF PageInv
<1>1. t.kind = "start"
  BY <1>0 DEF Answer, Plausible
<1> PICK kind \in {"resume", "cancel"} : tasks' = (tasks \ {t}) \cup {Task(kind, t.op, "none")}
  BY DEF Answer
<1> PICK d : d = Task(kind, t.op, "none")
  OBVIOUS
<1>2. /\ d.kind \in {"resume", "cancel"} /\ d.result = "none"
      /\ tasks' = (tasks \ {t}) \cup {d} /\ UNCHANGED flags /\ UNCHANGED table
  BY TaskIs DEF Answer, service
<1>3. OnePoll' /\ Plausible(d)
  BY <1>0, <1>1, <1>2, PollsStay DEF flags, Plausible
<1>4. ASSUME Orderly PROVE Orderly'
  <2>1. /\ busy /\ starting /\ ~closed /\ \A u \in tasks : u.kind # "stopAll"
        /\ \A u \in tasks \ {t} : u.kind \notin BusyKinds
    BY <1>1, <1>4 DEF Orderly, BusyKinds, StartKinds
  <2>2. d.kind \in BusyKinds
    BY <1>2 DEF BusyKinds, StartKinds
  <2> QED
    BY <1>2, <1>4, <2>1, <2>2, OrderlyBegins DEF flags
<1> QED
  BY <1>0, <1>2, <1>3, <1>4 DEF PageKept

LEMMA DeliverKeeps ==
  ASSUME PageInv, NEW t \in tasks, Deliver(t)
  PROVE  PageKept
<1>0. (\A u \in tasks : Plausible(u)) /\ OnePoll /\ ("other" \notin scenario.faults => Orderly)
  BY DEF PageInv
<1>1. ASSUME NEW d, d.kind \in StartKinds, d.result \in {"none", "ask"},
             d.result = "ask" => d.kind = "start",
             t.kind \in {"start", "save"}, tasks' = (tasks \ {t}) \cup {d},
             t.kind = "save" => ~quitting,
             t.kind = "start" => UNCHANGED <<busy, starting>>, t.kind = "save" => busy' /\ starting',
             UNCHANGED <<polling, quitting, closed, table>>
      PROVE  PageKept
  <2>1. OnePoll'
    BY <1>0, <1>1, PollsStay DEF StartKinds
  <2>2. Plausible(d)
    BY <1>1 DEF Plausible, StartKinds
  <2>3. ASSUME Orderly PROVE Orderly'
    <3>1. /\ t.kind = "start" => busy /\ starting
          /\ ~closed /\ \A u \in tasks : u.kind # "stopAll"
          /\ \A u \in tasks \ {t} : u.kind \notin BusyKinds
      BY <1>1, <2>3 DEF Orderly, BusyKinds, StartKinds
    <3>2. d.kind \in BusyKinds
      BY <1>1 DEF BusyKinds
    <3> QED
      BY <1>1, <2>3, <3>1, <3>2, OrderlyBegins
  <2> QED
    BY <1>0, <1>1, <2>1, <2>2, <2>3 DEF PageKept
<1>2. CASE DeliverChallenge(t)
  <2> PICK d : d = IF quitting THEN Task("cancel", t.op, "none") ELSE Task("start", t.op, "ask")
    OBVIOUS
  <2>1. d.kind \in StartKinds /\ d.result \in {"none", "ask"} /\ (d.result = "ask" => d.kind = "start")
    BY TaskIs DEF StartKinds
  <2> QED
    BY <1>1, <1>2, <2>1 DEF DeliverChallenge, Done, flags, service
<1>3. CASE DeliverSaved(t)
  <2>1. t.kind = "save" /\ UNCHANGED <<polling, quitting, closed, table>>
    BY <1>3 DEF DeliverSaved, Done, service
  <2>2. CASE ~quitting /\ \E o \in fresh : Begin(o, tasks \ {t})
    <3> PICK o \in fresh : Begin(o, tasks \ {t})
      BY <2>2
    <3> PICK d : d = Task("start", o, "none")
      OBVIOUS
    <3>1. d.kind \in StartKinds /\ d.kind = "start" /\ d.result = "none"
      BY TaskIs DEF StartKinds
    <3> QED
      BY <1>1, <2>1, <2>2, <3>1 DEF Begin
  <2>3. CASE tasks' = tasks \ {t}
    <3>1. OnePoll'
      BY <1>0, <2>1, <2>3, PollsStay
    <3>2. Orderly => Orderly'
      BY <2>1, <2>3, OrderlyEnds DEF BusyKinds
    <3> QED
      BY <1>0, <2>3, <3>1, <3>2 DEF PageKept
  <2> QED
    BY <1>3, <2>2, <2>3 DEF DeliverSaved
<1>4. CASE DeliverStarted(t) \/ DeliverStopped(t)
  <2>1. /\ t.kind \in {"start", "resume", "stop"} /\ RefreshActive(tasks \ {t})
        /\ UNCHANGED <<quitting, closed, table>>
    BY <1>4 DEF DeliverStarted, DeliverStopped, Done, service
  <2>2. /\ \A u \in tasks \ {t} : u.kind = "poll" => u \in tasks
        /\ \A u \in tasks : u.kind = "poll" => u \in tasks \ {t}
    BY <2>1
  <2>3. OnePoll' /\ \A u \in tasks' : u \in tasks \ {t} \/ (u.kind = "poll" /\ u.result = "none")
    BY <1>0, <2>1, <2>2, RefreshKeeps
  <2>4. \A u \in tasks' : Plausible(u)
    BY <1>0, <2>3 DEF Plausible
  <2>5. \A u \in tasks' : u \in tasks \ {t} \/ u.kind \notin BusyKinds \cup {"stopAll"}
    BY <2>3 DEF BusyKinds, StartKinds
  <2>6. Orderly => Orderly'
    BY <2>1, <2>5, OrderlyEnds DEF BusyKinds, StartKinds
  <2> QED
    BY <1>0, <2>3, <2>4, <2>6 DEF PageKept
<1>5. CASE DeliverNotStarted(t)
  <2>1. /\ t.kind \in {"start", "resume", "cancel"} /\ tasks' = tasks \ {t}
        /\ UNCHANGED <<polling, quitting, closed, table>>
    BY <1>5 DEF DeliverNotStarted, Done, service
  <2>2. OnePoll'
    BY <1>0, <2>1, PollsStay
  <2>3. Orderly => Orderly'
    BY <2>1, OrderlyEnds DEF BusyKinds, StartKinds
  <2> QED
    BY <1>0, <2>1, <2>2, <2>3 DEF PageKept
<1>6. CASE DeliverPoll(t)
  <2>1. /\ t.kind = "poll" /\ polling' = FALSE /\ tasks' = tasks \ {t}
        /\ UNCHANGED <<busy, starting, quitting, closed, table>>
    BY <1>6 DEF DeliverPoll, Done, service
  <2>2. OnePoll'
    BY <1>0, <2>1 DEF OnePoll
  <2>3. Orderly => Orderly'
    BY <2>1, OrderlyStays
  <2> QED
    BY <1>0, <2>1, <2>2, <2>3 DEF PageKept
<1>7. CASE DeliverFailed(t)
  <2>1. /\ t.kind \in {"poll", "stop", "save", "relays", "other"} /\ t.result = "failed"
        /\ polling' = (polling /\ t.kind # "poll") /\ tasks' = tasks \ {t}
        /\ UNCHANGED <<quitting, closed, table>>
    BY <1>7 DEF DeliverFailed, Done, service
  <2>2. OnePoll'
    BY <1>0, <2>1 DEF OnePoll
  <2>3. ASSUME "other" \notin scenario.faults PROVE Orderly'
    <3>1. t.kind \in BusyKinds
      BY <1>0, <2>1, <2>3 DEF Plausible, BusyKinds
    <3> QED
      BY <1>0, <2>1, <2>3, <3>1, OrderlyEnds
  <2> QED
    BY <1>0, <2>1, <2>2, <2>3 DEF PageKept
<1>8. CASE DeliverOther(t)
  <2>1. /\ t.kind \in {"relays", "other"} /\ tasks' = tasks \ {t}
        /\ UNCHANGED <<polling, busy, starting, quitting, closed, table>>
    BY <1>8 DEF DeliverOther, Done, service
  <2>2. OnePoll'
    BY <1>0, <2>1, PollsStay
  <2>3. Orderly => Orderly'
    BY <2>1, OrderlyStays
  <2> QED
    BY <1>0, <2>1, <2>2, <2>3 DEF PageKept
<1>9. CASE DeliverStoppedAll(t)
  <2>1. /\ t.kind = "stopAll" /\ t.result # "none" /\ tasks' = tasks \ {t} /\ closed' = TRUE
        /\ UNCHANGED <<polling, busy, starting, quitting, table>>
    BY <1>9 DEF DeliverStoppedAll, Done, service
  <2>2. OnePoll'
    BY <1>0, <2>1, PollsStay
  <2>3. Orderly => Orderly'
    BY <2>1 DEF Orderly
  <2> QED
    BY <1>0, <2>1, <2>2, <2>3 DEF PageKept
<1> QED
  BY <1>2, <1>3, <1>4, <1>5, <1>6, <1>7, <1>8, <1>9 DEF Deliver

-----------------------------------------------------------------------------
(* Together *)

LEMMA NextKeeps ==
  ASSUME PageInv, EditorInv, [Next]_vars
  PROVE  PageInv' /\ EditorInv'
<1>1. CASE UNCHANGED vars
  <2>1. PageInv'
    BY <1>1 DEF vars, flags, service, PageInv, OnePoll, Orderly, Plausible
  <2>2. EditorInv'
    BY <1>1 DEF vars, editor, form, store, EditorInv, Consistent, KeysAreUnique,
       VerdictIsOfThePort, Patient, BaseIsCurrent, ListIsCurrent, Ahead, Sound, Stored_, Current
  <2> QED
    BY <2>1, <2>2
<1>2. ASSUME Connecting, PageKept
      PROVE  PageInv' /\ EditorInv'
  <2>1. UNCHANGED <<scenario, editor>> /\ scenario.tunnels # {}
    BY <1>2 DEF Connecting
  <2>2. \A t \in tasks' : Plausible(t)'
    BY <1>2, <2>1 DEF PageKept, Plausible
  <2>3. PageInv'
    BY <1>2, <2>1, <2>2 DEF PageKept, PageInv
  <2>4. EditorInv'
    BY <2>1 DEF editor, form, store, EditorInv, Consistent, KeysAreUnique,
       VerdictIsOfThePort, Patient, BaseIsCurrent, ListIsCurrent, Ahead, Sound, Stored_, Current
  <2> QED
    BY <2>3, <2>4
<1>3. CASE Connecting /\ (Press \/ TimerFires \/ Retry)
  BY <1>2, <1>3, PressKeeps
<1>4. CASE Connecting /\ \E t \in tasks : Work(t) \/ Deliver(t) \/ Answer(t)
  BY <1>2, <1>4, WorkKeeps, DeliverKeeps, AnswerKeeps
<1>5. CASE Connecting /\ \E o \in Tunnels : Ends(o)
  <2>1. UNCHANGED <<flags, tasks, table>>
    BY <1>5 DEF Ends
  <2>2. PageKept
    BY <2>1 DEF PageKept, PageInv, OnePoll, Orderly, flags
  <2> QED
    BY <1>2, <1>5, <2>2
<1>6. CASE EditorNext /\ Editing
  <2>1. UNCHANGED <<starting, polling, quitting, closed, tasks, table, scenario>> /\ tasks = {}
    BY <1>6 DEF Editing, service, PageInv
  <2>2. PageInv'
    BY <2>1 DEF PageInv, OnePoll, Orderly
  <2>3. EditorInv'
    BY <1>6, <2>1, EditorKeeps
  <2> QED
    BY <2>2, <2>3
<1> QED
  BY <1>1, <1>3, <1>4, <1>5, <1>6 DEF Next

LEMMA InitHolds == Init => PageInv /\ EditorInv
<1> SUFFICES ASSUME Init PROVE PageInv /\ EditorInv
  OBVIOUS
<1>1. EditorInv
  BY EditorStarts DEF Init
<1>2. PageInv
  BY DEF Init, PageInv, OnePoll, Orderly
<1> QED
  BY <1>1, <1>2

\* A set with one member at most.
LEMMA AtMostOne ==
  ASSUME NEW S, \A x, y \in S : x = y
  PROVE  Cardinality(S) <= 1
<1>1. CASE S = {}
  BY <1>1, FS_EmptySet
<1>2. CASE S # {}
  <2> PICK x \in S : TRUE
    BY <1>2
  <2>1. S = {x}
    OBVIOUS
  <2> QED
    BY <2>1, FS_Singleton
<1> QED
  BY <1>1, <1>2

LEMMA InvIsEnough ==
  ASSUME PageInv, EditorInv
  PROVE  QuitIsComplete /\ ConnectsAsShown
<1>1. ConnectsAsShown
  BY DEF EditorInv, Consistent, VerdictIsOfThePort, Patient, ConnectsAsShown
<1> DEFINE polls == {t \in tasks : t.kind = "poll"}
<1>2. polling = (polls # {}) /\ \A t, u \in polls : t = u
  BY DEF PageInv, OnePoll
<1>3. Cardinality(polls) <= 1
  <2> HIDE DEF polls
  <2> QED
    BY <1>2, AtMostOne
<1>4. ASSUME Orderly
      PROVE  Cardinality(Starts) <= 1 /\ (Starts # {} => starting /\ busy) /\ QuitLeavesNothing
  <2>1. \A t, u \in Starts : t = u
    BY <1>4 DEF Starts, Orderly, BusyKinds, StartKinds
  <2>2. Cardinality(Starts) <= 1
    BY <2>1, AtMostOne
  <2>3. (Starts # {} => starting /\ busy) /\ QuitLeavesNothing
    BY <1>4 DEF Starts, Orderly, BusyKinds, StartKinds, QuitLeavesNothing
  <2> QED
    BY <2>2, <2>3
<1>5. "other" \notin scenario.faults => Orderly
  BY DEF PageInv
<1> QED
  BY <1>1, <1>2, <1>3, <1>4, <1>5 DEF QuitIsComplete

-----------------------------------------------------------------------------
(* The theorems *)

\* Complete quit of the RDS page is complete: whatever is started, stopped, saved
\* or asked before and during it, and in whatever order the callbacks come, the
\* window closes with no tunnel left and none to come, and one poll is in flight
\* at most (RdsPage.shutdown, refresh_active, start, _failed).
THEOREM QuitStopsEverything == Spec => []QuitIsComplete
<1>1. Init => PageInv /\ EditorInv
  BY InitHolds
<1>2. (PageInv /\ EditorInv) /\ [Next]_vars => (PageInv /\ EditorInv)'
  BY NextKeeps
<1>3. PageInv /\ EditorInv => QuitIsComplete
  BY InvIsEnough
<1> QED
  BY <1>1, <1>2, <1>3, PTL DEF Spec

\* The port's answer is the port's, and a user who awaits his answers connects to
\* what he was shown, for any sessions, hosts and ports, however late a list, a
\* poll or a check comes (toggle_connection, _saved_then_start, _saved_done).
THEOREM EditorConnectsAsShown == Spec => []ConnectsAsShown
<1>1. Init => PageInv /\ EditorInv
  BY InitHolds
<1>2. (PageInv /\ EditorInv) /\ [Next]_vars => (PageInv /\ EditorInv)'
  BY NextKeeps
<1>3. PageInv /\ EditorInv => ConnectsAsShown
  BY InvIsEnough
<1> QED
  BY <1>1, <1>2, <1>3, PTL DEF Spec
=============================================================================
