----------------------------- MODULE StoreProofs -----------------------------
(***************************************************************************)
(* What the processes of the program may rely on in the store they share:  *)
(* the schema whatever dies in a migration, the default as long as no two  *)
(* calls move it at once, and a session as long as its profile is the      *)
(* subject of one call at a time.                                          *)
(***************************************************************************)
EXTENDS Store, FiniteSetTheorems, WellFoundedInduction, TLAPS

-----------------------------------------------------------------------------
(* Types *)

KeyOrNone == Keys \cup {None}
Ops == {"create", "clone", "update", "use", "delete", "refresh", "import", "none"}
Working == {"begin", "look", "insert", "get", "tunnel", "undo", "write", "forget", "guard",
            "discard", "put", "read", "replace", "drop"}
Rows == [name : Nat, keys : KeyOrNone, deflt : BOOLEAN]

ProcOK(p) ==
  /\ DOMAIN p = DOMAIN Down
  /\ p.at \in Working \cup {"down", "open", "idle"} /\ p.op \in Ops
  /\ p.id \in 0..MaxId /\ p.name \in Nat /\ p.keys \in KeyOrNone
  /\ p.was \in BOOLEAN /\ p.step \in Nat /\ p.known \subseteq Versions

TablesOK ==
  /\ rows \in [Ids -> Rows] /\ session \in [Ids -> KeyOrNone] /\ next \in 1..(MaxId + 1)
  /\ \A i \in Ids : rows[i] # NoRow => rows[i].keys \in Keys /\ i < next

Typed ==
  /\ applied \in [Versions -> Nat] /\ recorded \subseteq Versions
  /\ TablesOK
  /\ DOMAIN proc = Procs /\ \A q \in Procs : ProcOK(proc[q])
  /\ torn \in BOOLEAN /\ raced \in BOOLEAN

-----------------------------------------------------------------------------
(* The schema *)

\* A process that migrates has run as much of the script it is at as `step`
\* says, at least; nothing runs past the end of a script.
Migrates(q) == Migrating(q) /\ Missing(q) # {}
Script(q) == First(Missing(q))

Recorded ==
  /\ \A v \in Versions : applied[v] <= Scripts[v]
  /\ \A v \in recorded : applied[v] = Scripts[v]
  /\ \A q \in Procs :
       /\ proc[q].known \subseteq recorded
       /\ Migrates(q) => proc[q].step <= applied[Script(q)]
       /\ proc[q].at \notin {"down", "open"} => recorded = Versions

\* While nobody has died in a migration and none overlapped, a script that has
\* begun is the one that is being run, by the process that began it.
Whole == ~torn =>
  /\ \A q, r \in Procs : Migrating(q) /\ Migrating(r) => q = r
  /\ \A q \in Procs : Migrating(q) => proc[q].known = recorded
  /\ \A q \in Procs : Migrates(q) => proc[q].step = applied[Script(q)]
  /\ \A v \in Versions \ recorded :
       applied[v] = 0 \/ \E q \in Procs : Migrates(q) /\ v = Script(q)

Schemed == Recorded /\ Whole /\ OpensAgain

-----------------------------------------------------------------------------
(* The default *)

Moves(q) == Busy(q) /\ proc[q].op \in MovesDefault

\* What a call that moves the default has read is still so when it writes.
Fresh(q) ==
  /\ proc[q].at = "insert" => proc[q].was = (Stored # {})
  /\ proc[q].at = "write" /\ proc[q].op \in {"use", "delete"} =>
       /\ Exists(proc[q].id)
       /\ proc[q].op = "delete" => proc[q].was = rows[proc[q].id].deflt

\* The label of a call fits its operation.
InOrder(q) ==
  /\ proc[q].at \in Working => proc[q].op # "none"
  /\ proc[q].at \in {"look", "insert"} => proc[q].op \in {"create", "clone", "import"}
  /\ proc[q].at = "write" => proc[q].op \in {"update", "use", "delete"}
  /\ proc[q].at = "forget" => proc[q].op = "update"
  /\ proc[q].at \in {"tunnel", "undo"} => proc[q].op = "import"
  /\ proc[q].at \in {"guard", "discard", "put", "read", "replace", "drop"} =>
       proc[q].op = "refresh"
  /\ proc[q].at \notin {"down", "idle", "open", "begin", "look", "insert"} =>
       proc[q].id \in Ids
  /\ proc[q].at \in {"look", "insert"} => proc[q].keys \in Keys
  /\ proc[q].at \in {"put", "discard", "guard"} => proc[q].keys \in Keys
  /\ proc[q].at = "write" /\ proc[q].op = "update" => proc[q].keys \in Keys
  /\ proc[q].at = "begin" /\ proc[q].op \notin {"create", "import"} => proc[q].id \in Ids
  /\ proc[q].at = "begin" /\ proc[q].op \in {"create", "import"} => proc[q].keys \in Keys
  /\ proc[q].at = "begin" /\ proc[q].op = "refresh" => proc[q].keys = None

Single == ~raced =>
  /\ \A q, r \in Procs : Moves(q) /\ Moves(r) => q = r
  /\ \A q \in Procs : Moves(q) => Fresh(q)
  /\ Stored # {} => \E i \in Ids : Defaults = {i}

-----------------------------------------------------------------------------
(* The session *)

\* Calls about a profile that is there, but for those that make one.
About(q, i) == Busy(q) /\ proc[q].id = i /\ proc[q].op \notin {"create", "clone", "import"}

Alone == \A i \in Ids \ mixed : \A q, r \in Procs : About(q, i) /\ About(r, i) => q = r

\* A refresh that is alone has the keys its profile has.
Keyed == \A q \in Procs :
  proc[q].at \in {"guard", "discard", "put"} /\ proc[q].id \notin mixed =>
    Exists(proc[q].id) /\ proc[q].keys = rows[proc[q].id].keys

Issued == \A i \in Ids : session[i] # None =>
  /\ Exists(i)
  /\ i \in mixed \/ session[i] = rows[i].keys
     \/ \E q \in Procs : proc[q].op = "update" /\ proc[q].id = i /\ proc[q].at \in {"get", "forget"}

Faithful == Alone /\ Keyed /\ Issued

Inv ==
  /\ Typed
  /\ \A q \in Procs : InOrder(q)
  /\ Schemed /\ Single /\ Faithful

-----------------------------------------------------------------------------
(* Least elements *)

LEMMA LeastElement ==
  ASSUME NEW S \in SUBSET Nat, S # {}
  PROVE  \E x \in S : \A y \in S : x <= y
<1> DEFINE R == {ss \in Nat \X Nat : ss[1] < ss[2]}
<1>1. IsWellFoundedOn(R, Nat)
  <2>1. R = OpToRel(<, Nat)
    BY Zenon DEF OpToRel
  <2> QED
    BY <2>1, NatLessThanWellFounded, Zenon
<1>2. \A x, y \in Nat : y < x => <<y, x>> \in R
  OBVIOUS
<1>3. \A x, y \in Nat : ~(y < x) => x <= y
  OBVIOUS
<1> HIDE DEF R
<1>4. \E x \in S : \A y \in S : <<y, x>> \notin R
  BY <1>1, WFMin
<1> QED
  BY <1>2, <1>3, <1>4

LEMMA FirstIn ==
  ASSUME NEW S \in SUBSET Nat, S # {}
  PROVE  First(S) \in S /\ \A v \in S : First(S) <= v
  BY LeastElement DEF First

\* The first by name of the profiles that are left.
LEMMA HeirIn ==
  ASSUME Typed, NEW i \in Ids, Stored \ {i} # {}
  PROVE  Heir(i) \in Stored \ {i}
<1> DEFINE names == {rows[j].name : j \in Stored \ {i}}
<1>1. names \in SUBSET Nat /\ names # {}
  <2>1. \A j \in Stored : rows[j].name \in Nat
    BY DEF Typed, TablesOK, Stored, Rows
  <2> QED
    BY <2>1
<1>2. PICK n \in names : \A m \in names : n <= m
  BY <1>1, LeastElement
<1>3. \E j \in Stored \ {i} : \A k \in Stored \ {i} : rows[j].name <= rows[k].name
  BY <1>2
<1> QED
  BY <1>3 DEF Heir

-----------------------------------------------------------------------------
(* What a process does next *)

\* The others stay where they are.
OthersStay(q) ==
  /\ DOMAIN proc' = Procs
  /\ \A r \in Procs : r # q => proc'[r] = proc[r]

LEMMA GoesOn ==
  ASSUME Typed, NEW q \in Procs, NEW at, Goes(q, at)
  PROVE  /\ OthersStay(q)
         /\ proc'[q] = [proc[q] EXCEPT !.at = at]
         /\ proc'[q].at = at /\ DOMAIN proc'[q] = DOMAIN Down
         /\ proc'[q].op = proc[q].op /\ proc'[q].id = proc[q].id
         /\ proc'[q].name = proc[q].name /\ proc'[q].keys = proc[q].keys
         /\ proc'[q].was = proc[q].was /\ proc'[q].step = proc[q].step
         /\ proc'[q].known = proc[q].known /\ proc'[q].answer = proc[q].answer
  BY DEF Goes, Typed, ProcOK, Down, OthersStay

-----------------------------------------------------------------------------
(* A step of a call, by the parts of the invariant *)

\* A call goes on or ends; the process is no nearer to the schema.
Steady(q) ==
  /\ OthersStay(q) /\ ProcOK(proc'[q])
  /\ proc[q].at \in Working \cup {"idle"} /\ proc'[q].at \in Working \cup {"idle"}
  /\ proc'[q].known \subseteq proc[q].known
  /\ proc'[q].answer # "broken" \/ proc'[q].answer = proc[q].answer
  /\ UNCHANGED <<applied, recorded, torn>>

LEMMA SteadySchemed ==
  ASSUME Typed, Schemed, NEW q \in Procs, Steady(q)
  PROVE  Schemed'
<1>1. \A r \in Procs : proc[r].at = "open" \/ proc'[r].at = "open" => proc'[r] = proc[r]
  BY DEF Steady, OthersStay, Working
<1>2. \A r \in Procs : Migrating(r)' <=> Migrating(r)
  BY <1>1 DEF Migrating
<1>3. \A r \in Procs : Migrating(r) => Missing(r)' = Missing(r) /\ proc'[r] = proc[r]
  BY <1>1 DEF Migrating, Missing
<1>4. \A r \in Procs : (Migrates(r)' <=> Migrates(r)) /\ (Migrates(r) => Script(r)' = Script(r))
  BY <1>2, <1>3 DEF Migrates, Script, First
<1>5. Recorded'
  <2>1. \A r \in Procs : proc'[r].known \subseteq proc[r].known
    BY DEF Steady, OthersStay
  <2>2. \A r \in Procs : Migrates(r)' => proc'[r].step <= applied'[Script(r)']
    BY <1>3, <1>4 DEF Schemed, Recorded, Steady, Migrates
  <2>3. \A r \in Procs : proc'[r].at \notin {"down", "open"} => recorded' = Versions
    BY DEF Schemed, Recorded, Steady, OthersStay, Working
  <2> QED
    BY <2>1, <2>2, <2>3 DEF Schemed, Recorded, Steady
<1>6. Whole'
  <2> SUFFICES ASSUME ~torn PROVE Whole'
    BY DEF Whole, Steady
  <2>1. \A r, u \in Procs : Migrating(r)' /\ Migrating(u)' => r = u
    BY <1>2 DEF Schemed, Whole
  <2>2. \A r \in Procs : Migrating(r)' => proc'[r].known = recorded'
    BY <1>2, <1>3 DEF Schemed, Whole, Steady
  <2>3. \A r \in Procs : Migrates(r)' => proc'[r].step = applied'[Script(r)']
    BY <1>3, <1>4 DEF Schemed, Whole, Steady, Migrates
  <2>4. \A v \in Versions \ recorded' :
          applied'[v] = 0 \/ \E r \in Procs : Migrates(r)' /\ v = Script(r)'
    BY <1>4 DEF Schemed, Whole, Steady
  <2> QED
    BY <2>1, <2>2, <2>3, <2>4 DEF Whole
<1>7. OpensAgain'
  BY DEF Schemed, OpensAgain, Steady, OthersStay
<1> QED
  BY <1>5, <1>6, <1>7 DEF Schemed

\* The profiles and which of them is the default stay as they are.
SameDefaults == \A i \in Ids :
  /\ rows'[i] # NoRow <=> rows[i] # NoRow
  /\ rows'[i].deflt = rows[i].deflt

OneDefault == Stored # {} => \E i \in Ids : Defaults = {i}

LEMMA SteadySingle ==
  ASSUME Typed, Single, NEW q \in Procs, OthersStay(q), UNCHANGED raced,
         Moves(q)' => Moves(q),
         ~raced /\ Moves(q)' => Fresh(q)',
         SameDefaults \/ (Moves(q) /\ (~raced => OneDefault'))
  PROVE  Single'
<1> SUFFICES ASSUME ~raced PROVE Single'
  BY DEF Single
<1>1. \A r \in Procs : r # q => (Moves(r)' <=> Moves(r))
  BY DEF OthersStay, Moves, Busy
<1>2. \A r, u \in Procs : Moves(r)' /\ Moves(u)' => r = u
  BY <1>1 DEF Single
<1>3. CASE SameDefaults
  <2>1. Stored' = Stored /\ Defaults' = Defaults
    BY <1>3 DEF SameDefaults, Stored, Defaults
  <2>2. ASSUME NEW r \in Procs, r # q, Moves(r)' PROVE Fresh(r)'
    <3>1. Fresh(r) /\ proc'[r] = proc[r]
      BY <1>1, <2>2 DEF Single, OthersStay
    <3> QED
      BY <1>3, <2>1, <3>1 DEF Fresh, Exists, SameDefaults
  <2> QED
    BY <1>2, <2>1, <2>2 DEF Single
<1>4. CASE Moves(q) /\ OneDefault'
  <2>1. \A r \in Procs : Moves(r)' => r = q
    BY <1>1, <1>4 DEF Single
  <2> QED
    BY <1>2, <1>4, <2>1 DEF Single, OneDefault
<1> QED
  BY <1>3, <1>4

Updating(q, i) == proc[q].op = "update" /\ proc[q].id = i /\ proc[q].at \in {"get", "forget"}

\* Another call about a profile that is not mixed up finds its keys unchanged.
KeysStay(q) == \A i \in Ids :
  Exists(i) => About(q, i) \/ (Exists(i)' /\ rows'[i].keys = rows[i].keys)

KeyedAt(q) ==
  proc[q].at \in {"guard", "discard", "put"} /\ proc[q].id \notin mixed =>
    Exists(proc[q].id) /\ proc[q].keys = rows[proc[q].id].keys

\* A session is issued for its keys, or was there and still is being forgotten.
Accounts(q) == \A i \in Ids : session'[i] # None =>
  /\ Exists(i)'
  /\ \/ i \in mixed \/ session'[i] = rows'[i].keys \/ Updating(q, i)'
     \/ \E r \in Procs : r # q /\ Updating(r, i)

LEMMA SteadyFaithful ==
  ASSUME Typed, \A r \in Procs : InOrder(r), Faithful, NEW q \in Procs, OthersStay(q),
         UNCHANGED mixed, \A i \in Ids : About(q, i)' => About(q, i),
         KeysStay(q), KeyedAt(q)', Accounts(q)
  PROVE  Faithful'
<1>1. \A r \in Procs, i \in Ids : About(r, i)' => About(r, i)
  BY DEF OthersStay, About, Busy
<1>2. Alone'
  BY <1>1 DEF Faithful, Alone
<1>3. ASSUME NEW r \in Procs, r # q PROVE KeyedAt(r)'
  <2>1. proc'[r] = proc[r] /\ KeyedAt(r)
    BY <1>3 DEF OthersStay, Faithful, Keyed, KeyedAt
  <2> SUFFICES ASSUME proc[r].at \in {"guard", "discard", "put"}, proc[r].id \notin mixed
               PROVE  KeyedAt(r)'
    BY <2>1 DEF KeyedAt
  <2>2. Exists(proc[r].id) /\ proc[r].keys = rows[proc[r].id].keys /\ proc[r].id \in Ids \ mixed
    BY <2>1 DEF KeyedAt, Exists
  <2>3. About(r, proc[r].id)
    BY DEF About, Busy, InOrder
  <2>4. ~About(q, proc[r].id)
    BY <1>3, <2>2, <2>3 DEF Faithful, Alone
  <2>5. rows'[proc[r].id] # NoRow /\ rows'[proc[r].id].keys = rows[proc[r].id].keys
    BY <2>2, <2>4 DEF KeysStay, Exists
  <2> QED
    BY <2>1, <2>2, <2>5 DEF KeyedAt, Exists
<1>4. Keyed'
  BY <1>3 DEF Keyed, KeyedAt
<1>5. Issued'
  BY DEF Accounts, Issued, Updating, OthersStay
<1> QED
  BY <1>2, <1>4, <1>5 DEF Faithful

LEMMA WorkOK ==
  ASSUME Inv, NEW q \in Procs, Steady(q), UNCHANGED <<raced, mixed>>, TablesOK', InOrder(q)',
         Moves(q)' => Moves(q),
         ~raced /\ Moves(q)' => Fresh(q)',
         SameDefaults \/ (Moves(q) /\ (~raced => OneDefault')),
         \A i \in Ids : About(q, i)' => About(q, i),
         KeysStay(q), KeyedAt(q)', Accounts(q)
  PROVE  Inv'
<1>1. Typed'
  BY DEF Inv, Typed, Steady, OthersStay
<1>2. \A r \in Procs : InOrder(r)'
  BY DEF Inv, Steady, OthersStay, InOrder
<1>3. Schemed'
  BY SteadySchemed DEF Inv
<1>4. Single'
  BY SteadySingle DEF Inv, Steady
<1>5. Faithful'
  BY SteadyFaithful DEF Inv, Steady
<1> QED
  BY <1>1, <1>2, <1>3, <1>4, <1>5 DEF Inv

\* A call reads, decides or writes what nobody here looks at.
LEMMA ThinkOK ==
  ASSUME Inv, NEW q \in Procs, Steady(q), UNCHANGED <<raced, mixed, rows, session, next>>,
         InOrder(q)', Moves(q)' => Moves(q),
         ~raced /\ Moves(q)' => Fresh(q)',
         \A i \in Ids : About(q, i)' => About(q, i),
         KeyedAt(q)',
         \A i \in Ids : Updating(q, i) /\ Exists(i) => Updating(q, i)'
  PROVE  Inv'
<1>1. TablesOK'
  BY DEF Inv, Typed, TablesOK
<1>2. SameDefaults /\ KeysStay(q)
  BY DEF SameDefaults, KeysStay, Exists
<1>3. Accounts(q)
  BY DEF Inv, Faithful, Issued, Accounts, Updating, Exists
<1> QED
  BY <1>1, <1>2, <1>3, WorkOK

\* The same for a step that only moves the label, or ends the call.
LEMMA GoesSteady ==
  ASSUME Inv, NEW q \in Procs, NEW at \in Working, Goes(q, at), proc[q].at \in Working,
         UNCHANGED <<applied, recorded, torn>>
  PROVE  /\ Steady(q) /\ (Moves(q)' => Moves(q))
         /\ \A i \in Ids : About(q, i)' => About(q, i)
<1>1. ProcOK(proc[q])
  BY DEF Inv, Typed
<1>2. Typed
  BY DEF Inv
<1>3. Steady(q)
  <2>1. ProcOK(proc'[q])
    <3>1. proc'[q].at \in Working \cup {"down", "open", "idle"}
      BY <1>2, GoesOn
    <3>2. proc'[q].was = proc[q].was /\ proc[q].was \in BOOLEAN
      BY <1>1, <1>2, GoesOn DEF ProcOK
    <3> QED
      BY <1>1, <1>2, <3>1, <3>2, GoesOn DEF ProcOK
  <2> QED
    BY <1>2, <2>1, GoesOn DEF Steady
<1> QED
  BY <1>2, <1>3, GoesOn DEF Moves, Busy, About, Working

\* Nothing the invariant is about changes but what the processes do.
Untouched == UNCHANGED <<applied, recorded, torn, raced, mixed, rows, session, next>>
Answered == {"ok", "failed", "missing", "duplicate", "locked", "conflict"}

LEMMA AnswersSteady ==
  ASSUME Inv, NEW q \in Procs, NEW a \in Answered, Answers(q, a),
         proc[q].at \in Working, UNCHANGED <<applied, recorded, torn>>
  PROVE  /\ Steady(q) /\ proc'[q].at = "idle" /\ ~Moves(q)' /\ InOrder(q)' /\ KeyedAt(q)'
         /\ \A i \in Ids : ~About(q, i)' /\ ~Updating(q, i)'
<1>1. DOMAIN proc = Procs
  BY DEF Inv, Typed
<1>2. OthersStay(q) /\ proc'[q] = [Down EXCEPT !.at = "idle", !.answer = a]
  BY <1>1 DEF Answers, OthersStay
<1>3. /\ OthersStay(q) /\ proc'[q].at = "idle" /\ DOMAIN proc'[q] = DOMAIN Down
      /\ proc'[q].op = "none" /\ proc'[q].id = 0 /\ proc'[q].name = 0 /\ proc'[q].keys = None
      /\ proc'[q].was = FALSE /\ proc'[q].step = 0 /\ proc'[q].known = {}
      /\ proc'[q].answer = a
  BY <1>2 DEF Down
<1>4. ProcOK(proc'[q])
  <2>1. proc'[q].was \in BOOLEAN
    BY <1>3
  <2> QED
    BY <1>3, <2>1, StoreAssumption DEF ProcOK, Ops, KeyOrNone
<1> QED
  BY <1>3, <1>4 DEF Steady, Moves, Busy, InOrder, KeyedAt, About, Updating, Answered, Working

\* A call ends and has changed nothing.
LEMMA AnswerOK ==
  ASSUME Inv, NEW q \in Procs, NEW a \in Answered, Answers(q, a),
         proc[q].at \in Working, Untouched,
         \A i \in Ids : ~(Updating(q, i) /\ Exists(i))
  PROVE  Inv'
  <1>1. UNCHANGED <<applied, recorded, torn>> /\ UNCHANGED <<raced, mixed, rows, session, next>>
  BY DEF Untouched
<1> QED
  BY <1>1, AnswersSteady, ThinkOK

-----------------------------------------------------------------------------
(* Steps that write nothing of a profile or a session *)

\* The label moves on and nothing else.
Follows(q, at) ==
  \/ at = "look" /\ proc[q].at = "begin" /\ proc[q].op \in {"create", "import"}
  \/ at = "tunnel" /\ proc[q].at = "get" /\ proc[q].op = "import"
  \/ at = "undo" /\ proc[q].at = "tunnel"
  \/ at = "forget" /\ proc[q].at = "get" /\ proc[q].op = "update"
  \/ at \in {"put", "discard"} /\ proc[q].at = "guard"
  \/ at = "drop" /\ proc[q].at \in {"read", "replace"}

LEMMA GoOK ==
  ASSUME Inv, NEW q \in Procs, NEW at, Goes(q, at), Follows(q, at),
         Untouched
  PROVE  Inv'
<1>1. Typed /\ InOrder(q)
  BY DEF Inv
<1>2. at \in Working /\ proc[q].at \in Working
  BY DEF Follows, Working
<1>3. Steady(q) /\ (Moves(q)' => Moves(q)) /\ \A i \in Ids : About(q, i)' => About(q, i)
  BY <1>2, GoesSteady DEF Untouched
<1>4. /\ proc'[q].at = at /\ proc'[q].op = proc[q].op /\ proc'[q].id = proc[q].id
      /\ proc'[q].keys = proc[q].keys
  BY <1>1, GoesOn
<1>5. InOrder(q)'
  BY <1>1, <1>4 DEF InOrder, Follows
<1>6. Fresh(q)'
  BY <1>4 DEF Fresh, Follows
<1>7. KeyedAt(q)'
  <2>1. CASE at \in {"put", "discard"} /\ proc[q].at = "guard"
    <3>1. KeyedAt(q)
      BY DEF Inv, Faithful, Keyed, KeyedAt
    <3> QED
      BY <1>4, <2>1, <3>1 DEF KeyedAt, Exists, Untouched
  <2>2. CASE at \notin {"put", "discard", "guard"}
    BY <1>4, <2>2 DEF KeyedAt
  <2> QED
    BY <2>1, <2>2 DEF Follows
<1>8. \A i \in Ids : Updating(q, i) /\ Exists(i) => Updating(q, i)'
  BY <1>1, <1>4 DEF Updating, InOrder, Follows
<1>9. UNCHANGED <<raced, mixed, rows, session, next>>
  BY DEF Untouched
<1> QED
  BY <1>3, <1>5, <1>6, <1>7, <1>8, <1>9, ThinkOK

LEMMA LookOK == ASSUME Inv, NEW q \in Procs, Look(q) PROVE Inv'
<1>1. Typed /\ ProcOK(proc[q]) /\ InOrder(q) /\ proc[q].at = "look" /\ DOMAIN proc = Procs
  BY DEF Inv, Typed, Look
<1>2. /\ OthersStay(q) /\ DOMAIN proc'[q] = DOMAIN Down
      /\ proc'[q].at = "insert" /\ proc'[q].was = (Stored # {})
      /\ proc'[q].op = proc[q].op /\ proc'[q].id = proc[q].id /\ proc'[q].name = proc[q].name
      /\ proc'[q].keys = proc[q].keys /\ proc'[q].step = proc[q].step
      /\ proc'[q].known = proc[q].known /\ proc'[q].answer = proc[q].answer
  BY <1>1 DEF Look, OthersStay, ProcOK, Down
<1>3. ProcOK(proc'[q])
  <2>1. proc'[q].was \in BOOLEAN /\ proc'[q].at \in Working
    BY <1>2 DEF Working
  <2> QED
    BY <1>1, <1>2, <2>1 DEF ProcOK
<1>4. Steady(q) /\ UNCHANGED <<raced, mixed, rows, session, next>>
  BY <1>1, <1>2, <1>3 DEF Steady, Look, Schema, Ghosts, Tables, Working
<1>5. InOrder(q)' /\ KeyedAt(q)'
  BY <1>1, <1>2 DEF InOrder, KeyedAt
<1>6. Fresh(q)'
  <2>1. Stored' = Stored
    BY <1>4 DEF Stored
  <2> QED
    BY <1>2, <2>1 DEF Fresh
<1>7. (Moves(q)' => Moves(q)) /\ \A i \in Ids : About(q, i)' => About(q, i)
  BY <1>1, <1>2 DEF Moves, Busy, About
<1>8. \A i \in Ids : ~Updating(q, i)
  BY <1>1 DEF Updating
<1> QED
  BY <1>4, <1>5, <1>6, <1>7, <1>8, ThinkOK

LEMMA GetOK == ASSUME Inv, NEW q \in Procs, Get(q) PROVE Inv'
<1>1. /\ proc[q].at = "get" /\ proc[q].at \in Working /\ InOrder(q)
      /\ Untouched
  BY DEF Get, Working, Schema, Tables, Ghosts, Untouched, Inv
<1>2. CASE ~Exists(proc[q].id)
  <2>1. Answers(q, "failed")
    BY <1>2 DEF Get
  <2>2. \A i \in Ids : ~(Updating(q, i) /\ Exists(i))
    BY <1>2 DEF Updating
  <2> QED
    BY <1>1, <2>1, <2>2, AnswerOK DEF Answered
<1>3. CASE Exists(proc[q].id) /\ proc[q].op = "update"
  <2>1. Goes(q, "forget") /\ Follows(q, "forget")
    BY <1>3 DEF Get, Follows
  <2> QED
    BY <1>1, <2>1, GoOK
<1>4. CASE Exists(proc[q].id) /\ proc[q].op = "import"
  <2>1. Goes(q, "tunnel") /\ Follows(q, "tunnel")
    BY <1>4 DEF Get, Follows
  <2> QED
    BY <1>1, <2>1, GoOK
<1>5. CASE Exists(proc[q].id) /\ proc[q].op \notin {"update", "import"}
  <2>1. Answers(q, "ok")
    BY <1>5 DEF Get
  <2>2. \A i \in Ids : ~(Updating(q, i) /\ Exists(i))
    BY <1>5 DEF Updating
  <2> QED
    BY <1>1, <2>1, <2>2, AnswerOK DEF Answered
<1> QED
  BY <1>2, <1>3, <1>4, <1>5

LEMMA TunnelOK == ASSUME Inv, NEW q \in Procs, Tunnel(q) \/ Undo(q) PROVE Inv'
<1>1. /\ proc[q].at \in {"tunnel", "undo"} /\ proc[q].at \in Working /\ InOrder(q)
      /\ Untouched
  BY DEF Tunnel, Undo, Working, Schema, Tables, Ghosts, Untouched, Inv
<1>2. \A i \in Ids : ~(Updating(q, i) /\ Exists(i))
  BY <1>1 DEF Updating
<1>3. CASE Answers(q, "ok")
  BY <1>1, <1>2, <1>3, AnswerOK DEF Answered
<1>4. CASE Answers(q, "missing")
  BY <1>1, <1>2, <1>4, AnswerOK DEF Answered
<1>5. CASE Goes(q, "undo") /\ proc[q].at = "tunnel"
  <2>1. Follows(q, "undo")
    BY <1>5 DEF Follows
  <2> QED
    BY <1>1, <1>5, <2>1, GoOK
<1> QED
  BY <1>1, <1>3, <1>4, <1>5 DEF Tunnel, Undo

LEMMA BeginOK == ASSUME Inv, NEW q \in Procs, Begin(q) PROVE Inv'
<1>1. /\ proc[q].at = "begin" /\ proc[q].at \in Working /\ InOrder(q) /\ Typed /\ ProcOK(proc[q])
      /\ Untouched
  BY DEF Begin, Working, Schema, Tables, Ghosts, Untouched, Inv, Typed
<1>2. \A i \in Ids : ~(Updating(q, i) /\ Exists(i))
  BY <1>1 DEF Updating
<1>3. CASE Answers(q, "conflict")
  BY <1>1, <1>2, <1>3, AnswerOK DEF Answered
<1>4. CASE Answers(q, "missing")
  BY <1>1, <1>2, <1>4, AnswerOK DEF Answered
<1>5. CASE Goes(q, "look") /\ proc[q].op \in {"create", "import"}
  <2>1. Follows(q, "look")
    BY <1>1, <1>5 DEF Follows
  <2> QED
    BY <1>1, <1>5, <2>1, GoOK
<1>6. CASE /\ proc[q].op \notin {"create", "import"} /\ Exists(proc[q].id)
           /\ \/ /\ proc[q].op = "clone"
                 /\ proc' = [proc EXCEPT ![q].at = "look", ![q].keys = rows[proc[q].id].keys,
                                         ![q].id = 0]
              \/ /\ proc[q].op \in {"update", "refresh"}
                 /\ proc' = [proc EXCEPT
                      ![q].at = IF proc[q].op = "update" THEN "write" ELSE "guard",
                      ![q].keys = IF @ = None THEN rows[proc[q].id].keys ELSE @]
              \/ /\ proc[q].op \notin {"clone", "update", "refresh"}
                 /\ proc' = [proc EXCEPT ![q].at = "write", ![q].was = rows[proc[q].id].deflt]
  <2> DEFINE row == rows[proc[q].id]
  <2>1. row.keys \in Keys /\ row.deflt \in BOOLEAN /\ proc[q].id \in Ids
    BY <1>1, <1>6 DEF Typed, TablesOK, Exists, Rows
  <2>2. /\ OthersStay(q) /\ DOMAIN proc'[q] = DOMAIN Down
        /\ proc'[q].op = proc[q].op /\ proc'[q].name = proc[q].name
        /\ proc'[q].step = proc[q].step
        /\ proc'[q].known = proc[q].known /\ proc'[q].answer = proc[q].answer
        /\ \/ /\ proc[q].op = "clone" /\ proc'[q].at = "look" /\ proc'[q].id = 0
              /\ proc'[q].keys = row.keys /\ proc'[q].was = proc[q].was
           \/ /\ proc[q].op \in {"update", "refresh"} /\ proc'[q].id = proc[q].id
              /\ proc'[q].at = IF proc[q].op = "update" THEN "write" ELSE "guard"
              /\ proc'[q].keys = IF proc[q].keys = None THEN row.keys ELSE proc[q].keys
              /\ proc'[q].was = proc[q].was
           \/ /\ proc[q].op \notin {"clone", "update", "refresh"} /\ proc'[q].at = "write"
              /\ proc'[q].id = proc[q].id /\ proc'[q].keys = proc[q].keys
              /\ proc'[q].was = row.deflt
    BY <1>1, <1>6 DEF OthersStay, ProcOK, Down, Typed
  <2>3. proc[q].op \in {"clone", "update", "refresh", "use", "delete"}
    BY <1>1, <1>6 DEF ProcOK, Ops, InOrder
  <2> HIDE DEF row
  <2>4. ProcOK(proc'[q])
    <3>1. proc'[q].was \in BOOLEAN
      <4>1. proc'[q].was = proc[q].was \/ proc'[q].was = row.deflt
        BY <2>2
      <4> QED
        BY <1>1, <2>1, <4>1 DEF ProcOK
    <3>2. proc'[q].at \in Working /\ proc'[q].id \in 0..MaxId /\ proc'[q].keys \in KeyOrNone
      BY <1>1, <2>1, <2>2, StoreAssumption DEF ProcOK, Working, KeyOrNone
    <3> QED
      BY <1>1, <2>2, <3>1, <3>2 DEF ProcOK
  <2>5. Steady(q) /\ UNCHANGED <<raced, mixed, rows, session, next>>
    <3>1. proc'[q].at \in Working
      BY <2>2 DEF Working
    <3> QED
      BY <1>1, <2>2, <2>4, <3>1 DEF Steady, Untouched
  <2>6. InOrder(q)'
    BY <1>1, <2>1, <2>2, <2>3, StoreAssumption DEF InOrder, ProcOK, KeyOrNone
  <2>7. Fresh(q)'
    <3>1. CASE proc[q].op \in {"use", "delete"}
      <4>1. proc[q].id \in Ids /\ rows'[proc[q].id] # NoRow /\ rows'[proc[q].id].deflt = row.deflt
        BY <1>6, <2>5 DEF Exists, row
      <4>2. proc'[q].id = proc[q].id /\ proc'[q].was = row.deflt /\ proc'[q].at = "write"
        BY <2>2, <3>1
      <4> QED
        BY <4>1, <4>2 DEF Fresh, Exists
    <3>2. CASE proc[q].op \in {"clone", "update", "refresh"}
      BY <2>2, <3>2 DEF Fresh
    <3> QED
      BY <2>3, <3>1, <3>2
  <2>8. (Moves(q)' => Moves(q)) /\ \A i \in Ids : About(q, i)' => About(q, i)
    BY <1>1, <2>2 DEF Moves, Busy, About
  <2>9. KeyedAt(q)'
    <3>1. CASE proc[q].op = "refresh"
      <4>1. proc'[q].keys = row.keys /\ proc'[q].id = proc[q].id
        BY <1>1, <2>2, <3>1 DEF InOrder
      <4>2. proc[q].id \in Ids /\ rows'[proc[q].id] # NoRow /\ rows'[proc[q].id].keys = row.keys
        BY <1>6, <2>5 DEF Exists, row
      <4> QED
        BY <4>1, <4>2 DEF KeyedAt, Exists
    <3>2. CASE proc[q].op # "refresh"
      BY <2>2, <3>2 DEF KeyedAt
    <3> QED
      BY <3>1, <3>2
  <2> QED
    BY <1>2, <2>5, <2>6, <2>7, <2>8, <2>9, ThinkOK
<1> QED
  BY <1>3, <1>4, <1>5, <1>6 DEF Begin

LEMMA ReadFileOK == ASSUME Inv, NEW q \in Procs, ReadFile(q) PROVE Inv'
<1>1. /\ proc[q].at = "read" /\ InOrder(q) /\ Typed /\ ProcOK(proc[q]) /\ Untouched
  BY DEF ReadFile, Schema, Tables, Ghosts, Untouched, Inv, Typed
<1>2. CASE Goes(q, "drop")
  <2>1. Follows(q, "drop")
    BY <1>1 DEF Follows
  <2> QED
    BY <1>1, <1>2, <2>1, GoOK
<1>3. CASE proc' = [proc EXCEPT ![q].at = "replace", ![q].copy = file]
  <2>1. /\ OthersStay(q) /\ DOMAIN proc'[q] = DOMAIN Down
        /\ proc'[q].at = "replace" /\ proc'[q].was = proc[q].was
        /\ proc'[q].op = proc[q].op /\ proc'[q].id = proc[q].id /\ proc'[q].name = proc[q].name
        /\ proc'[q].keys = proc[q].keys /\ proc'[q].step = proc[q].step
        /\ proc'[q].known = proc[q].known /\ proc'[q].answer = proc[q].answer
    BY <1>1, <1>3 DEF OthersStay, ProcOK, Down, Typed
  <2>2. ProcOK(proc'[q])
    <3>1. proc'[q].at \in Working
      BY <2>1 DEF Working
    <3>2. proc'[q].was \in BOOLEAN
      BY <1>1, <2>1 DEF ProcOK
    <3> QED
      BY <1>1, <2>1, <3>1, <3>2 DEF ProcOK
  <2>3. Steady(q) /\ UNCHANGED <<raced, mixed, rows, session, next>>
    BY <1>1, <2>1, <2>2 DEF Steady, Untouched, Working
  <2>4. InOrder(q)' /\ KeyedAt(q)' /\ Fresh(q)'
    BY <1>1, <2>1 DEF InOrder, KeyedAt, Fresh
  <2>5. (Moves(q)' => Moves(q)) /\ \A i \in Ids : About(q, i)' => About(q, i)
    BY <1>1, <2>1 DEF Moves, Busy, About
  <2>6. \A i \in Ids : ~Updating(q, i)
    BY <1>1 DEF Updating
  <2> QED
    BY <2>3, <2>4, <2>5, <2>6, ThinkOK
<1> QED
  BY <1>2, <1>3 DEF ReadFile

LEMMA ReplaceFileOK == ASSUME Inv, NEW q \in Procs, ReplaceFile(q) PROVE Inv'
<1>1. /\ proc[q].at = "replace" /\ proc[q].at \in Working /\ Untouched
  BY DEF ReplaceFile, Working, Schema, Tables, Ghosts, Untouched
<1>2. CASE Goes(q, "drop")
  <2>1. Follows(q, "drop")
    BY <1>1 DEF Follows
  <2> QED
    BY <1>1, <1>2, <2>1, GoOK
<1>3. CASE Answers(q, "ok")
  <2>1. \A i \in Ids : ~(Updating(q, i) /\ Exists(i))
    BY <1>1 DEF Updating
  <2> QED
    BY <1>1, <1>3, <2>1, AnswerOK DEF Answered
<1> QED
  BY <1>2, <1>3 DEF ReplaceFile

LEMMA GuardOK == ASSUME Inv, NEW q \in Procs, Guard(q) PROVE Inv'
<1>1. /\ proc[q].at = "guard" /\ proc[q].at \in Working /\ Untouched
  BY DEF Guard, Working, Schema, Tables, Ghosts, Untouched
<1>2. CASE Goes(q, "put")
  <2>1. Follows(q, "put")
    BY <1>1 DEF Follows
  <2> QED
    BY <1>1, <1>2, <2>1, GoOK
<1>3. CASE Goes(q, "discard")
  <2>1. Follows(q, "discard")
    BY <1>1 DEF Follows
  <2> QED
    BY <1>1, <1>3, <2>1, GoOK
<1>4. CASE Answers(q, "ok")
  <2>1. \A i \in Ids : ~(Updating(q, i) /\ Exists(i))
    BY <1>1 DEF Updating
  <2> QED
    BY <1>1, <1>4, <2>1, AnswerOK DEF Answered
<1> QED
  BY <1>2, <1>3, <1>4 DEF Guard

-----------------------------------------------------------------------------
(* Steps that write the session of the profile they are about *)

\* The calls that write sessions never move the default.
Sessions == {"forget", "discard", "put", "drop"}

LEMMA SessionOK ==
  ASSUME Inv, NEW q \in Procs, proc[q].at \in Sessions, NEW v \in KeyOrNone,
         session' = [session EXCEPT ![proc[q].id] = v],
         v # None => /\ Exists(proc[q].id)
                     /\ proc[q].id \in mixed \/ v = rows[proc[q].id].keys,
         UNCHANGED <<applied, recorded, torn, raced, mixed, rows, next>>,
         Steady(q), Moves(q)' => Moves(q), \A i \in Ids : About(q, i)' => About(q, i),
         InOrder(q)', KeyedAt(q)'
  PROVE  Inv'
<1>1. Typed /\ TablesOK /\ InOrder(q) /\ ProcOK(proc[q]) /\ Issued
  BY DEF Inv, Typed, Faithful
<1>2. PICK i \in Ids : i = proc[q].id
  BY <1>1 DEF InOrder, Sessions
<1>3. /\ session' = [session EXCEPT ![i] = v]
      /\ v # None => Exists(i) /\ (i \in mixed \/ v = rows[i].keys)
  BY <1>2
<1>4. TablesOK'
  BY <1>1, <1>3 DEF TablesOK
<1>5. ~Moves(q)
  BY <1>1 DEF Moves, InOrder, Sessions, MovesDefault
<1>6. SameDefaults /\ KeysStay(q)
  BY DEF SameDefaults, KeysStay, Exists
<1>7. Accounts(q)
  <2> SUFFICES ASSUME NEW j \in Ids, session'[j] # None
               PROVE  /\ Exists(j)'
                      /\ \/ j \in mixed \/ session'[j] = rows'[j].keys \/ Updating(q, j)'
                         \/ \E r \in Procs : r # q /\ Updating(r, j)
    BY DEF Accounts
  <2>1. CASE j = i
    BY <1>1, <1>3, <2>1 DEF Exists, TablesOK
  <2>2. CASE j # i
    <3>1. session'[j] = session[j] /\ Exists(j)
      BY <1>1, <1>3, <2>2 DEF TablesOK, Issued
    <3>2. ~Updating(q, j)
      BY <1>2, <2>2 DEF Updating
    <3> QED
      BY <1>1, <3>1, <3>2 DEF Issued, Exists, Updating
  <2> QED
    BY <2>1, <2>2
<1> QED
  BY <1>4, <1>5, <1>6, <1>7, WorkOK

LEMMA ForgetOK == ASSUME Inv, NEW q \in Procs, Forget(q) \/ Drop(q) PROVE Inv'
<1>1. /\ proc[q].at \in Sessions /\ proc[q].at \in Working
      /\ session' = [session EXCEPT ![proc[q].id] = None]
      /\ UNCHANGED <<applied, recorded, torn, raced, mixed, rows, next>>
  BY DEF Forget, Drop, Sessions, Working, Schema, Ghosts
<1>2. None \in KeyOrNone /\ UNCHANGED <<applied, recorded, torn>>
  BY <1>1 DEF KeyOrNone
<1>3. CASE Answers(q, "ok")
  BY <1>1, <1>2, <1>3, AnswersSteady, SessionOK DEF Answered
<1>4. CASE Answers(q, "failed")
  BY <1>1, <1>2, <1>4, AnswersSteady, SessionOK DEF Answered
<1> QED
  BY <1>3, <1>4 DEF Forget, Drop

LEMMA DiscardOK == ASSUME Inv, NEW q \in Procs, Discard(q) PROVE Inv'
<1>1. /\ proc[q].at = "discard" /\ proc[q].at \in Sessions /\ proc[q].at \in Working
      /\ session' = [session EXCEPT ![proc[q].id] = None] /\ Goes(q, "put")
      /\ UNCHANGED <<applied, recorded, torn, raced, mixed, rows, next>>
      /\ Typed /\ InOrder(q) /\ KeyedAt(q)
  BY DEF Discard, Sessions, Working, Schema, Ghosts, Inv, Faithful, Keyed, KeyedAt
<1>2. /\ None \in KeyOrNone /\ "put" \in Working /\ UNCHANGED <<applied, recorded, torn>>
  BY <1>1 DEF KeyOrNone, Working
<1>3. /\ Steady(q) /\ (Moves(q)' => Moves(q))
      /\ \A i \in Ids : About(q, i)' => About(q, i)
  BY <1>1, <1>2, GoesSteady
<1>4. /\ proc'[q].at = "put" /\ proc'[q].op = proc[q].op /\ proc'[q].id = proc[q].id
      /\ proc'[q].keys = proc[q].keys
  BY <1>1, GoesOn
<1>5. InOrder(q)' /\ KeyedAt(q)'
  BY <1>1, <1>4 DEF InOrder, KeyedAt, Exists
<1> QED
  BY <1>1, <1>2, <1>3, <1>5, SessionOK

LEMMA PutOK == ASSUME Inv, NEW q \in Procs, Put(q) PROVE Inv'
<1>1. /\ proc[q].at = "put" /\ proc[q].at \in Sessions /\ proc[q].at \in Working
      /\ UNCHANGED <<applied, recorded, torn, raced, mixed, rows, next>>
      /\ Typed /\ InOrder(q) /\ KeyedAt(q)
  BY DEF Put, Sessions, Working, Schema, Ghosts, Inv, Faithful, Keyed, KeyedAt
<1>2. CASE Exists(proc[q].id)
  <2>1. session' = [session EXCEPT ![proc[q].id] = proc[q].keys] /\ Goes(q, "read")
    BY <1>2 DEF Put
  <2>2. /\ proc[q].keys \in KeyOrNone /\ "read" \in Working
        /\ UNCHANGED <<applied, recorded, torn>>
    BY <1>1 DEF KeyOrNone, Working, InOrder
  <2>3. /\ Steady(q) /\ (Moves(q)' => Moves(q))
        /\ \A i \in Ids : About(q, i)' => About(q, i)
    BY <1>1, <2>1, <2>2, GoesSteady
  <2>4. /\ proc'[q].at = "read" /\ proc'[q].op = proc[q].op /\ proc'[q].id = proc[q].id
        /\ proc'[q].keys = proc[q].keys
    BY <1>1, <2>1, GoesOn
  <2>5. InOrder(q)' /\ KeyedAt(q)'
    BY <1>1, <2>4 DEF InOrder, KeyedAt
  <2>6. proc[q].id \in mixed \/ proc[q].keys = rows[proc[q].id].keys
    BY <1>1 DEF KeyedAt
  <2> QED
    BY <1>1, <1>2, <2>1, <2>2, <2>3, <2>5, <2>6, SessionOK
<1>3. CASE ~Exists(proc[q].id)
  <2>1. Answers(q, "failed") /\ Untouched
    BY <1>1, <1>3 DEF Put, Untouched
  <2>2. \A i \in Ids : ~(Updating(q, i) /\ Exists(i))
    BY <1>1 DEF Updating
  <2> QED
    BY <1>1, <2>1, <2>2, AnswerOK DEF Answered
<1> QED
  BY <1>2, <1>3

-----------------------------------------------------------------------------
(* Steps that write profiles *)

\* A row has a key, which no absent row has.
LEMMA RowIsThere ==
  ASSUME NEW r, r.keys \in Keys
  PROVE  r # NoRow
  BY StoreAssumption DEF NoRow

LEMMA InsertOK == ASSUME Inv, NEW q \in Procs, Insert(q) PROVE Inv'
<1>1. /\ proc[q].at = "insert" /\ proc[q].at \in Working /\ next <= MaxId
      /\ UNCHANGED <<applied, recorded, torn>> /\ UNCHANGED <<raced, mixed>>
      /\ session' = session
      /\ Typed /\ TablesOK /\ InOrder(q) /\ ProcOK(proc[q]) /\ Issued
  BY DEF Insert, Working, Schema, Ghosts, Inv, Typed, Faithful
<1>2. \A i \in Ids : ~Updating(q, i)
  BY <1>1 DEF Updating
<1>3. CASE Answers(q, "duplicate") /\ UNCHANGED <<rows, next>>
  <2>1. Untouched
    BY <1>1, <1>3 DEF Untouched
  <2> QED
    BY <1>1, <1>2, <1>3, <2>1, AnswerOK DEF Answered
<1>4. CASE /\ ~(~proc[q].was /\ Defaults # {})
           /\ rows' = [rows EXCEPT ![next] = [name |-> proc[q].name, keys |-> proc[q].keys,
                                             deflt |-> ~proc[q].was]]
           /\ next' = next + 1
           /\ proc' = [proc EXCEPT ![q].at = "get", ![q].id = next]
  <2> DEFINE row == [name |-> proc[q].name, keys |-> proc[q].keys, deflt |-> ~proc[q].was]
  <2>1. /\ next \in Ids /\ rows[next] = NoRow /\ row \in Rows
        /\ row.keys \in Keys /\ row # NoRow /\ row.deflt = ~proc[q].was
    <3>1. next \in Ids /\ rows[next] = NoRow
      BY <1>1, StoreAssumption DEF TablesOK, Ids
    <3>2. proc[q].keys \in Keys /\ row.keys = proc[q].keys /\ row.deflt = ~proc[q].was
      BY <1>1 DEF InOrder
    <3>3. row \in Rows
      <4>1. (~proc[q].was) \in BOOLEAN
        OBVIOUS
      <4> QED
        BY <1>1, <3>2, <4>1 DEF ProcOK, Rows, KeyOrNone
    <3>4. row # NoRow
      BY <3>2, RowIsThere
    <3> QED
      BY <3>1, <3>2, <3>3, <3>4
  <2>2. rows' = [rows EXCEPT ![next] = row]
    BY <1>4
  <2> HIDE DEF row
  <2>3. rows'[next] = row /\ \A j \in Ids : j # next => rows'[j] = rows[j]
    BY <1>1, <2>1, <2>2 DEF TablesOK
  <2>4. /\ OthersStay(q) /\ DOMAIN proc'[q] = DOMAIN Down
        /\ proc'[q].at = "get" /\ proc'[q].id = next /\ proc'[q].was = proc[q].was
        /\ proc'[q].op = proc[q].op /\ proc'[q].name = proc[q].name
        /\ proc'[q].keys = proc[q].keys /\ proc'[q].step = proc[q].step
        /\ proc'[q].known = proc[q].known /\ proc'[q].answer = proc[q].answer
    BY <1>1, <1>4 DEF OthersStay, ProcOK, Down, Typed
  <2>5. TablesOK'
    <3>1. rows' \in [Ids -> Rows]
      BY <1>1, <2>1, <2>2 DEF TablesOK
    <3>2. next' \in 1..(MaxId + 1)
      BY <1>1, <1>4, StoreAssumption DEF TablesOK
    <3>3. \A i \in Ids : rows'[i] # NoRow => rows'[i].keys \in Keys /\ i < next'
      BY <1>1, <1>4, <2>1, <2>3 DEF TablesOK, Ids
    <3> QED
      BY <1>1, <3>1, <3>2, <3>3 DEF TablesOK
  <2>6. Steady(q)
    <3>1. ProcOK(proc'[q])
      <4>1. proc'[q].was \in BOOLEAN
        BY <1>1, <2>4 DEF ProcOK
      <4>2. proc'[q].at \in Working /\ proc'[q].id \in 0..MaxId
        BY <2>1, <2>4 DEF Working, Ids
      <4> QED
        BY <1>1, <2>4, <4>1, <4>2 DEF ProcOK
    <3> QED
      BY <1>1, <2>4, <3>1 DEF Steady, Working
  <2>7. InOrder(q)' /\ KeyedAt(q)' /\ Fresh(q)'
    BY <1>1, <2>1, <2>4 DEF InOrder, KeyedAt, Fresh
  <2>8. Moves(q) /\ \A i \in Ids : About(q, i)' => About(q, i)
    BY <1>1, <2>4 DEF Moves, Busy, About, InOrder, MovesDefault
  <2>9. ~raced => OneDefault'
    <3> SUFFICES ASSUME ~raced PROVE OneDefault'
      OBVIOUS
    <3>1. /\ proc[q].was = (Stored # {})
          /\ Stored # {} => \E i \in Ids : Defaults = {i}
      BY <1>1, <2>8 DEF Inv, Single, Fresh
    <3>2. CASE Stored = {}
      <4>1. \A j \in Ids : rows'[j] # NoRow <=> j = next
        BY <2>1, <2>3, <3>2 DEF Stored
      <4>2. rows'[next].deflt
        BY <2>1, <2>3, <3>1, <3>2
      <4>3. Defaults' = {next}
        BY <2>1, <4>1, <4>2 DEF Defaults, Stored
      <4> QED
        BY <2>1, <4>3 DEF OneDefault
    <3>3. CASE Stored # {}
      <4>1. ~rows'[next].deflt
        BY <2>1, <2>3, <3>1, <3>3
      <4>2. next \notin Defaults
        BY <2>1 DEF Defaults, Stored
      <4>3. Defaults' = Defaults
        BY <2>1, <2>3, <4>1, <4>2 DEF Defaults, Stored
      <4> QED
        BY <3>1, <3>3, <4>3 DEF OneDefault
    <3> QED
      BY <3>2, <3>3
  <2>10. KeysStay(q)
    BY <2>1, <2>3 DEF KeysStay, Exists
  <2>11. Accounts(q)
    <3>1. \A j \in Ids : session'[j] # None => Exists(j) /\ j # next
      BY <1>1, <2>1 DEF Issued, Exists
    <3> QED
      BY <1>1, <1>2, <2>3, <3>1 DEF Issued, Exists, Updating, Accounts
  <2> QED
    BY <1>1, <2>5, <2>6, <2>7, <2>8, <2>9, <2>10, <2>11, WorkOK
<1> QED
  BY <1>3, <1>4 DEF Insert

LEMMA WriteUpdateOK == ASSUME Inv, NEW q \in Procs, WriteUpdate(q) PROVE Inv'
<1>1. /\ proc[q].at = "write" /\ proc[q].at \in Working /\ proc[q].op = "update"
      /\ UNCHANGED <<applied, recorded, torn>> /\ UNCHANGED <<raced, mixed>>
      /\ session' = session /\ next' = next
      /\ Typed /\ TablesOK /\ InOrder(q) /\ ProcOK(proc[q]) /\ Issued
  BY DEF WriteUpdate, Working, Schema, Ghosts, Inv, Typed, Faithful
<1>2. \A i \in Ids : ~Updating(q, i)
  BY <1>1 DEF Updating
<1>3. CASE Answers(q, "missing") /\ UNCHANGED rows
  <2>1. Untouched
    BY <1>1, <1>3 DEF Untouched
  <2> QED
    BY <1>1, <1>2, <1>3, <2>1, AnswerOK DEF Answered
<1>4. CASE Answers(q, "duplicate") /\ UNCHANGED rows
  <2>1. Untouched
    BY <1>1, <1>4 DEF Untouched
  <2> QED
    BY <1>1, <1>2, <1>4, <2>1, AnswerOK DEF Answered
<1>5. CASE /\ Exists(proc[q].id) /\ Goes(q, "get")
           /\ rows' = [rows EXCEPT ![proc[q].id].name = proc[q].name,
                                  ![proc[q].id].keys = proc[q].keys]
  <2>1. PICK i \in Ids : i = proc[q].id
    BY <1>5 DEF Exists
  <2>2. PICK n \in Nat : n = proc[q].name
    BY <1>1 DEF ProcOK
  <2>3. PICK k \in Keys : k = proc[q].keys
    BY <1>1 DEF InOrder
  <2>4. /\ rows[i] \in Rows /\ rows[i] # NoRow
        /\ rows' = [rows EXCEPT ![i].name = n, ![i].keys = k]
    BY <1>1, <1>5, <2>1, <2>2, <2>3 DEF TablesOK, Exists
  <2>5. /\ rows' \in [Ids -> Rows] /\ rows'[i].keys = k /\ rows'[i].deflt = rows[i].deflt
        /\ \A j \in Ids : j # i => rows'[j] = rows[j]
    <3> DEFINE v == [rows EXCEPT ![i].name = n]
               w == [v EXCEPT ![i].keys = k]
    <3>1. rows' = w
      BY <2>4
    <3>2. v \in [Ids -> Rows] /\ v[i].deflt = rows[i].deflt /\ \A j \in Ids : j # i => v[j] = rows[j]
      BY <1>1, <2>4 DEF TablesOK, Rows
    <3> HIDE DEF v
    <3>3. /\ w \in [Ids -> Rows] /\ w[i].keys = k /\ w[i].deflt = v[i].deflt
          /\ \A j \in Ids : j # i => w[j] = v[j]
      BY <3>2 DEF Rows, KeyOrNone
    <3> HIDE DEF w
    <3> QED
      BY <3>1, <3>2, <3>3
  <2>6. rows'[i] # NoRow
    BY <2>5, RowIsThere
  <2>7. TablesOK'
    <3>1. i < next
      BY <1>1, <2>4 DEF TablesOK
    <3> QED
      BY <1>1, <2>5, <3>1 DEF TablesOK
  <2>8. SameDefaults
    BY <2>4, <2>5, <2>6 DEF SameDefaults
  <2>9. "get" \in Working /\ Goes(q, "get")
    BY <1>5 DEF Working
  <2>10. /\ Steady(q) /\ (Moves(q)' => Moves(q))
         /\ \A j \in Ids : About(q, j)' => About(q, j)
    BY <1>1, <2>9, GoesSteady
  <2>11. /\ proc'[q].at = "get" /\ proc'[q].op = proc[q].op /\ proc'[q].id = proc[q].id
         /\ proc'[q].keys = proc[q].keys
    BY <1>1, <2>9, GoesOn
  <2>12. InOrder(q)' /\ KeyedAt(q)' /\ Fresh(q)'
    BY <1>1, <2>11 DEF InOrder, KeyedAt, Fresh, Working
  <2>13. KeysStay(q)
    <3>1. About(q, i)
      BY <1>1, <2>1 DEF About, Busy
    <3> QED
      BY <2>5, <3>1 DEF KeysStay, Exists
  <2>14. Accounts(q)
    <3>1. Updating(q, i)'
      BY <1>1, <2>1, <2>11 DEF Updating
    <3> QED
      BY <1>1, <1>2, <2>5, <2>6, <3>1 DEF Accounts, Issued, Exists, Updating
  <2> QED
    BY <1>1, <2>7, <2>8, <2>10, <2>12, <2>13, <2>14, WorkOK
<1> QED
  BY <1>3, <1>4, <1>5 DEF WriteUpdate

LEMMA WriteUseOK == ASSUME Inv, NEW q \in Procs, WriteUse(q) PROVE Inv'
<1>1. /\ proc[q].at = "write" /\ proc[q].at \in Working /\ proc[q].op = "use"
      /\ UNCHANGED <<applied, recorded, torn>> /\ UNCHANGED <<raced, mixed>>
      /\ session' = session /\ next' = next /\ Goes(q, "get") /\ "get" \in Working
      /\ Typed /\ TablesOK /\ InOrder(q) /\ ProcOK(proc[q]) /\ Issued
  BY DEF WriteUse, Working, Schema, Ghosts, Inv, Typed, Faithful
<1>2. PICK i \in Ids : i = proc[q].id
  BY <1>1 DEF InOrder
<1>3. rows' = [j \in Ids |-> IF j \in Stored THEN [rows[j] EXCEPT !.deflt = (j = i)] ELSE NoRow]
  BY <1>2 DEF WriteUse
<1>4. \A j \in Stored : /\ rows'[j] \in Rows /\ rows'[j].keys = rows[j].keys
                        /\ rows'[j].keys \in Keys /\ rows'[j].deflt = (j = i)
  <2> SUFFICES ASSUME NEW j \in Stored
               PROVE  /\ rows'[j] \in Rows /\ rows'[j].keys = rows[j].keys
                      /\ rows'[j].keys \in Keys /\ rows'[j].deflt = (j = i)
    OBVIOUS
  <2>1. rows[j] \in Rows /\ rows[j].keys \in Keys /\ j \in Ids
    BY <1>1 DEF TablesOK, Stored
  <2>2. PICK b \in BOOLEAN : b = (j = i)
    OBVIOUS
  <2>3. rows'[j] = [rows[j] EXCEPT !.deflt = b]
    BY <1>3, <2>1, <2>2
  <2>4. rows'[j] \in Rows /\ rows'[j].keys = rows[j].keys /\ rows'[j].deflt = b
    BY <2>1, <2>3 DEF Rows
  <2> QED
    BY <2>1, <2>2, <2>4
<1>5. \A j \in Ids \ Stored : rows'[j] = NoRow /\ rows[j] = NoRow
  BY <1>3 DEF Stored
<1>6. \A j \in Stored : rows'[j] # NoRow
  BY <1>4, RowIsThere
<1>7. NoRow \in Rows
  BY DEF NoRow, Rows, KeyOrNone
<1>8. TablesOK'
  <2>1. \A j \in Ids : rows'[j] \in Rows
    BY <1>4, <1>5, <1>7
  <2>2. rows' \in [Ids -> Rows]
    BY <1>3, <2>1
  <2>3. \A j \in Ids : rows'[j] # NoRow => rows'[j].keys \in Keys /\ j < next
    BY <1>1, <1>4, <1>5 DEF TablesOK, Stored
  <2> QED
    BY <1>1, <2>2, <2>3 DEF TablesOK
<1>9. Stored' = Stored
  BY <1>5, <1>6 DEF Stored
<1>10. Moves(q)
  BY <1>1 DEF Moves, Busy, MovesDefault
<1>11. ~raced => OneDefault'
  <2> SUFFICES ASSUME ~raced PROVE OneDefault'
    OBVIOUS
  <2>1. i \in Stored
    BY <1>1, <1>2, <1>10 DEF Inv, Single, Fresh, Exists, Stored
  <2>2. Defaults' = {i}
    BY <1>4, <1>9, <2>1 DEF Defaults
  <2> QED
    BY <2>2 DEF OneDefault
<1>12. KeysStay(q)
  BY <1>4, <1>6 DEF KeysStay, Exists, Stored
<1>13. /\ Steady(q) /\ \A j \in Ids : About(q, j)' => About(q, j)
  BY <1>1, GoesSteady
<1>14. /\ proc'[q].at = "get" /\ proc'[q].op = proc[q].op /\ proc'[q].id = proc[q].id
       /\ proc'[q].keys = proc[q].keys
  BY <1>1, GoesOn
<1>15. InOrder(q)' /\ KeyedAt(q)' /\ Fresh(q)'
  BY <1>1, <1>14 DEF InOrder, KeyedAt, Fresh, Working
<1>16. Accounts(q)
  <2>1. \A j \in Ids : Exists(j) => Exists(j)' /\ rows'[j].keys = rows[j].keys
    BY <1>4, <1>6 DEF Exists, Stored
  <2>2. \A j \in Ids : ~Updating(q, j)
    BY <1>1 DEF Updating
  <2> QED
    BY <1>1, <2>1, <2>2 DEF Accounts, Issued, Updating
<1> QED
  BY <1>1, <1>8, <1>10, <1>11, <1>12, <1>13, <1>15, <1>16, WorkOK

LEMMA WriteDeleteOK == ASSUME Inv, NEW q \in Procs, WriteDelete(q) PROVE Inv'
<1>1. /\ proc[q].at = "write" /\ proc[q].at \in Working /\ proc[q].op = "delete"
      /\ UNCHANGED <<applied, recorded, torn>> /\ UNCHANGED <<raced, mixed>> /\ next' = next
      /\ Typed /\ TablesOK /\ InOrder(q) /\ ProcOK(proc[q]) /\ Issued
  BY DEF WriteDelete, Working, Schema, Ghosts, Inv, Typed, Faithful
<1>2. \A j \in Ids : ~Updating(q, j)
  BY <1>1 DEF Updating
<1>3. CASE Answers(q, "failed") /\ UNCHANGED <<rows, session, tunnels>>
  <2>1. Untouched
    BY <1>1, <1>3 DEF Untouched
  <2> QED
    BY <1>1, <1>2, <1>3, <2>1, AnswerOK DEF Answered
<1>4. CASE /\ Answers(q, "ok") /\ session' = [session EXCEPT ![proc[q].id] = None]
           /\ rows' = IF proc[q].was /\ Stored \ {proc[q].id} # {}
                      THEN [Removed(proc[q].id) EXCEPT ![Heir(proc[q].id)].deflt = TRUE]
                      ELSE Removed(proc[q].id)
  <2>1. PICK i \in Ids : i = proc[q].id
    BY <1>1 DEF InOrder
  <2> DEFINE gone == [rows EXCEPT ![i] = NoRow]
             follows == proc[q].was /\ Stored \ {i} # {}
  <2>2. /\ rows' = IF follows THEN [gone EXCEPT ![Heir(i)].deflt = TRUE] ELSE gone
        /\ session' = [session EXCEPT ![i] = None]
    BY <1>4, <2>1 DEF Removed
  <2>3. NoRow \in Rows /\ rows \in [Ids -> Rows]
    BY <1>1 DEF NoRow, Rows, KeyOrNone, TablesOK
  <2>4. gone \in [Ids -> Rows] /\ gone[i] = NoRow /\ \A j \in Ids : j # i => gone[j] = rows[j]
    BY <2>3
  <2>5. follows => Heir(i) \in Stored \ {i}
    BY <1>1, HeirIn
  <2> HIDE DEF gone
  <2>6. /\ rows' \in [Ids -> Rows] /\ rows'[i] = NoRow
        /\ \A j \in Ids : j # i => rows'[j].keys = rows[j].keys
        /\ \A j \in Ids : j # i => (rows'[j].deflt <=> rows[j].deflt \/ (follows /\ j = Heir(i)))
        /\ \A j \in Ids : j # i => (rows[j] = NoRow => rows'[j] = NoRow)
    <3>1. CASE ~follows
      BY <2>2, <2>4, <3>1
    <3>2. CASE follows
      <4>1. PICK h \in Stored \ {i} : h = Heir(i)
        BY <2>5, <3>2
      <4>2. h \in Ids /\ rows[h] # NoRow /\ rows' = [gone EXCEPT ![h].deflt = TRUE]
        BY <2>2, <3>2, <4>1 DEF Stored
      <4>3. /\ rows' \in [Ids -> Rows] /\ rows'[h].deflt = TRUE /\ rows'[h].keys = gone[h].keys
            /\ \A j \in Ids : j # h => rows'[j] = gone[j]
        BY <2>4, <4>2 DEF Rows
      <4>4. \A j \in Ids : j # i => (rows'[j].deflt <=> rows[j].deflt \/ j = h)
        <5>1. \A j \in Ids : rows[j].deflt \in BOOLEAN
          BY <2>3 DEF Rows
        <5> QED
          BY <2>4, <4>3, <5>1
      <4> QED
        BY <2>4, <3>2, <4>1, <4>2, <4>3, <4>4
    <3> QED
      BY <3>1, <3>2
  <2>61. /\ rows' \in [Ids -> Rows] /\ rows'[i] = NoRow
         /\ \A j \in Ids : j # i => rows'[j].keys = rows[j].keys
         /\ \A j \in Ids : j # i => (rows[j] = NoRow => rows'[j] = NoRow)
    BY <2>6
  <2>7. \A j \in Ids : j # i /\ rows[j] # NoRow => rows'[j] # NoRow
    <3>1. \A j \in Ids : j # i /\ rows[j] # NoRow => rows'[j].keys \in Keys
      BY <1>1, <2>61 DEF TablesOK
    <3> QED
      BY <3>1, RowIsThere
  <2> HIDE DEF follows
  <2>8. /\ session' \in [Ids -> KeyOrNone] /\ session'[i] = None
        /\ \A j \in Ids : j # i => session'[j] = session[j]
    BY <1>1, <2>2 DEF TablesOK, KeyOrNone
  <2>9. TablesOK'
    BY <1>1, <2>61, <2>8 DEF TablesOK
  <2>10. Stored' = Stored \ {i}
    BY <2>61, <2>7 DEF Stored
  <2>11. Moves(q)
    BY <1>1 DEF Moves, Busy, MovesDefault
  <2>12. ~raced => OneDefault'
    <3> SUFFICES ASSUME ~raced, Stored \ {i} # {} PROVE \E j \in Ids : Defaults' = {j}
      BY <2>10 DEF OneDefault
    <3>1. i \in Stored /\ proc[q].was = rows[i].deflt
      BY <1>1, <2>1, <2>11 DEF Inv, Single, Fresh, Exists, Stored
    <3>2. PICK d \in Ids : Defaults = {d}
      BY DEF Inv, Single
    <3>3. \A j \in Stored \ {i} : j \in Defaults' <=> (j = d \/ (follows /\ j = Heir(i)))
      BY <2>6, <2>10, <3>2 DEF Defaults, Stored
    <3>4. CASE proc[q].was
      <4>1. d = i /\ follows
        BY <3>1, <3>2, <3>4 DEF Defaults, follows
      <4>2. Defaults' = {Heir(i)}
        BY <2>5, <2>10, <3>3, <4>1 DEF Defaults
      <4> QED
        BY <2>5, <4>1, <4>2 DEF Stored
    <3>5. CASE ~proc[q].was
      <4>1. d # i /\ ~follows /\ d \in Stored
        BY <3>1, <3>2, <3>5 DEF Defaults, follows
      <4>2. Defaults' = {d}
        BY <2>10, <3>3, <4>1 DEF Defaults
      <4> QED
        BY <4>2
    <3> QED
      BY <3>4, <3>5
  <2>13. KeysStay(q)
    <3>1. About(q, i)
      BY <1>1, <2>1 DEF About, Busy
    <3> QED
      BY <2>61, <2>7, <3>1 DEF KeysStay, Exists
  <2>14. Accounts(q)
    BY <1>1, <1>2, <2>61, <2>7, <2>8 DEF Accounts, Issued, Exists, Updating
  <2> QED
    BY <1>1, <1>4, <2>9, <2>11, <2>12, <2>13, <2>14, AnswersSteady, WorkOK DEF Answered
<1> QED
  BY <1>3, <1>4 DEF WriteDelete

-----------------------------------------------------------------------------
(* Migrations *)

LEMMA ScriptIn ==
  ASSUME Typed, NEW q \in Procs, Missing(q) # {}
  PROVE  Script(q) \in Missing(q)
<1>1. Missing(q) \in SUBSET Nat
  BY StoreAssumption DEF Missing, Versions
<1> QED
  BY <1>1, FirstIn DEF Script

LEMMA OtherScripts ==
  ASSUME NEW q \in Procs, OthersStay(q), NEW r \in Procs, r # q
  PROVE  /\ proc'[r] = proc[r] /\ (Migrating(r)' <=> Migrating(r))
         /\ (Migrates(r)' <=> Migrates(r)) /\ Script(r)' = Script(r)
<1>1. proc'[r] = proc[r]
  BY DEF OthersStay
<1>2. Missing(r)' = Missing(r)
  BY <1>1 DEF Missing
<1> QED
  BY <1>1, <1>2 DEF Migrating, Migrates, Script, First

\* A process that is in no call changes its part in the schema only.
LEMMA OutsideOK ==
  ASSUME Inv, NEW q \in Procs, OthersStay(q), ProcOK(proc'[q]), ~Busy(q), ~Busy(q)',
         UNCHANGED <<raced, mixed, rows, session, next>>,
         applied' \in [Versions -> Nat], recorded' \subseteq Versions, torn' \in BOOLEAN,
         Schemed'
  PROVE  Inv'
<1>1. Typed'
  BY DEF Inv, Typed, TablesOK, OthersStay
<1>2. proc[q].at \notin Working /\ proc'[q].at \notin Working
  BY DEF Busy, Working
<1>3. \A r \in Procs : InOrder(r)'
  <2>1. InOrder(q)'
    BY <1>2 DEF InOrder, Working, OthersStay, ProcOK, Inv, Typed
  <2>2. \A r \in Procs : r # q => InOrder(r)'
    BY DEF Inv, OthersStay, InOrder
  <2> QED
    BY <2>1, <2>2
<1>4. Single'
  <2>1. ~Moves(q) /\ ~Moves(q)' /\ SameDefaults
    BY DEF Moves, SameDefaults
  <2> QED
    BY <2>1, SteadySingle DEF Inv
<1>5. Faithful'
  <2>1. \A i \in Ids : About(q, i)' => About(q, i)
    BY DEF About
  <2>2. KeysStay(q)
    BY DEF KeysStay, Exists
  <2>3. KeyedAt(q)'
    BY <1>2 DEF KeyedAt, Working
  <2>4. Accounts(q)
    <3>1. \A i \in Ids : ~Updating(q, i)
      BY <1>2 DEF Updating, Working
    <3> QED
      BY <3>1 DEF Inv, Faithful, Issued, Accounts, Updating, Exists
  <2> QED
    BY <2>1, <2>2, <2>3, <2>4, SteadyFaithful DEF Inv
<1> QED
  BY <1>1, <1>3, <1>4, <1>5 DEF Inv

LEMMA OpenOK == ASSUME Inv, NEW q \in Procs, Open(q) PROVE Inv'
<1>1. /\ Typed /\ Recorded /\ Whole /\ OpensAgain /\ ProcOK(proc[q]) /\ proc[q].at = "down"
      /\ UNCHANGED <<applied, recorded, raced, mixed, rows, session, next>>
      /\ torn' = (torn \/ \E r \in Procs : Migrating(r))
  BY DEF Open, Inv, Typed, Schemed, Schema, Tables
<1>2. /\ OthersStay(q) /\ DOMAIN proc'[q] = DOMAIN Down
      /\ proc'[q].at = "open" /\ proc'[q].known = recorded /\ proc'[q].step = 0
      /\ proc'[q].op = "none" /\ proc'[q].id = 0 /\ proc'[q].name = 0 /\ proc'[q].keys = None
      /\ proc'[q].was = FALSE /\ proc'[q].answer = "none"
  BY <1>1 DEF Open, OthersStay, Typed, Down
<1>3. ProcOK(proc'[q])
  <2>1. proc'[q].was \in BOOLEAN
    BY <1>2
  <2> QED
    BY <1>1, <1>2, <2>1, StoreAssumption DEF ProcOK, Ops, KeyOrNone, Typed
<1>4. ~Migrating(q) /\ ~Busy(q) /\ ~Busy(q)'
  BY <1>1, <1>2 DEF Migrating, Busy
<1>5. Missing(q)' = Versions \ recorded
  BY <1>2 DEF Missing
<1>6. Migrates(q)' => Script(q)' \in Versions \ recorded
  <2>1. Versions \ recorded \in SUBSET Nat
    BY StoreAssumption DEF Versions
  <2> QED
    BY <1>5, <2>1, FirstIn DEF Migrates, Script
<1>7. Recorded'
  <2>1. \A r \in Procs : Migrates(r)' => proc'[r].step <= applied'[Script(r)']
    <3>1. Migrates(q)' => proc'[q].step <= applied'[Script(q)']
      BY <1>1, <1>2, <1>6 DEF Typed
    <3>2. \A r \in Procs : r # q => (Migrates(r)' => proc'[r].step <= applied'[Script(r)'])
      BY <1>1, <1>2, OtherScripts DEF Recorded
    <3> QED
      BY <3>1, <3>2
  <2> QED
    BY <1>1, <1>2, <2>1 DEF Recorded, OthersStay
<1>8. Whole'
  <2> SUFFICES ASSUME ~torn, \A r \in Procs : ~Migrating(r) PROVE Whole'
    BY <1>1 DEF Whole
  <2>1. \A r \in Procs : Migrating(r)' => r = q
    BY <1>2, OtherScripts
  <2>2. \A v \in Versions \ recorded : applied[v] = 0
    BY <1>1 DEF Whole, Migrates
  <2>3. Migrates(q)' => proc'[q].step = applied'[Script(q)']
    BY <1>1, <1>2, <1>6, <2>2
  <2>4. \A r \in Procs : Migrates(r)' => r = q
    BY <2>1 DEF Migrates
  <2> QED
    BY <1>1, <1>2, <2>1, <2>2, <2>3, <2>4 DEF Whole
<1>9. OpensAgain'
  BY <1>1, <1>2 DEF OpensAgain, OthersStay
<1>10. torn' \in BOOLEAN /\ applied' \in [Versions -> Nat] /\ recorded' \subseteq Versions
  BY <1>1 DEF Typed
<1> QED
  BY <1>1, <1>2, <1>3, <1>4, <1>7, <1>8, <1>9, <1>10, OutsideOK DEF Schemed

\* A statement that fails means that someone ran it before and did not get to the end.
LEMMA StatementBreaks ==
  ASSUME Inv, NEW q \in Procs, Statement(q), applied[Script(q)] > proc[q].step
  PROVE  Inv'
<1>1. /\ Typed /\ Recorded /\ Whole /\ OpensAgain /\ ProcOK(proc[q])
      /\ proc[q].at = "open" /\ Migrates(q)
      /\ UNCHANGED <<applied, recorded, torn, raced, mixed, rows, session, next>>
      /\ proc' = [proc EXCEPT ![q] = [Down EXCEPT !.answer = "broken"]]
  BY DEF Statement, Inv, Typed, Schemed, Tables, Ghosts, Migrating, Migrates, Script
<1>2. /\ OthersStay(q) /\ DOMAIN proc'[q] = DOMAIN Down
      /\ proc'[q].at = "down" /\ proc'[q].known = {} /\ proc'[q].step = 0
      /\ proc'[q].op = "none" /\ proc'[q].id = 0 /\ proc'[q].name = 0 /\ proc'[q].keys = None
      /\ proc'[q].was = FALSE
  BY <1>1 DEF OthersStay, Typed, Down
<1>3. ProcOK(proc'[q])
  <2>1. proc'[q].was \in BOOLEAN
    BY <1>2
  <2> QED
    BY <1>1, <1>2, <2>1, StoreAssumption DEF ProcOK, Ops, KeyOrNone, Typed
<1>4. ~Migrating(q)' /\ ~Migrates(q)' /\ ~Busy(q) /\ ~Busy(q)'
  BY <1>1, <1>2 DEF Migrating, Migrates, Busy
<1>5. torn
  <2>1. Script(q) \in Missing(q)
    BY <1>1, ScriptIn DEF Migrates
  <2>2. applied[Script(q)] \in Nat /\ proc[q].step \in Nat
    BY <1>1, <2>1 DEF Typed, ProcOK, Missing
  <2> QED
    BY <1>1, <2>2 DEF Whole
<1>6. Recorded'
  <2>1. \A r \in Procs : Migrates(r)' => proc'[r].step <= applied'[Script(r)']
    <3>1. \A r \in Procs : r # q => (Migrates(r)' => proc'[r].step <= applied'[Script(r)'])
      BY <1>1, <1>2, OtherScripts DEF Recorded
    <3> QED
      BY <1>4, <3>1
  <2> QED
    BY <1>1, <1>2, <2>1 DEF Recorded, OthersStay
<1>7. Whole' /\ OpensAgain'
  BY <1>1, <1>5 DEF Whole, OpensAgain
<1>8. torn' \in BOOLEAN /\ applied' \in [Versions -> Nat] /\ recorded' \subseteq Versions
  BY <1>1 DEF Typed
<1> QED
  BY <1>1, <1>2, <1>3, <1>4, <1>6, <1>7, <1>8, OutsideOK DEF Schemed

LEMMA StatementOK == ASSUME Inv, NEW q \in Procs, Statement(q) PROVE Inv'
<1>1. /\ Typed /\ Recorded /\ Whole /\ OpensAgain /\ ProcOK(proc[q])
      /\ proc[q].at = "open" /\ Migrates(q) /\ Migrating(q) /\ proc[q].step < Scripts[Script(q)]
      /\ UNCHANGED <<recorded, torn, raced, mixed, rows, session, next>>
  BY DEF Statement, Inv, Typed, Schemed, Tables, Ghosts, Migrating, Migrates, Script
<1>2. PICK v \in Missing(q) : v = Script(q)
  BY <1>1, ScriptIn DEF Migrates
<1>3. CASE applied[v] > proc[q].step
  BY <1>2, <1>3, StatementBreaks
<1>4. CASE ~(applied[v] > proc[q].step)
  <2>1. /\ applied' = [applied EXCEPT ![v] = applied[v] + 1]
        /\ proc' = [proc EXCEPT ![q].step = proc[q].step + 1]
    BY <1>2, <1>4 DEF Statement, Script
  <2>2. v \in Versions /\ applied[v] \in Nat /\ proc[q].step \in Nat /\ Scripts[v] \in Nat
    BY <1>1, StoreAssumption DEF Typed, ProcOK, Missing, Versions
  <2>3. applied[v] = proc[q].step /\ applied[v] < Scripts[v] /\ v \notin recorded
    BY <1>1, <1>2, <1>4, <2>2 DEF Recorded
  <2>4. /\ applied' \in [Versions -> Nat] /\ applied'[v] = applied[v] + 1
        /\ \A w \in Versions : w # v => applied'[w] = applied[w]
    BY <1>1, <2>1, <2>2 DEF Typed
  <2>5. /\ OthersStay(q) /\ DOMAIN proc'[q] = DOMAIN Down
        /\ proc'[q].step = proc[q].step + 1 /\ proc'[q].at = "open" /\ proc'[q].was = proc[q].was
        /\ proc'[q].known = proc[q].known /\ proc'[q].answer = proc[q].answer
        /\ proc'[q].op = proc[q].op /\ proc'[q].id = proc[q].id /\ proc'[q].name = proc[q].name
        /\ proc'[q].keys = proc[q].keys
    BY <1>1, <2>1 DEF OthersStay, Typed, ProcOK, Down
  <2>6. ProcOK(proc'[q])
    <3>1. proc'[q].was \in BOOLEAN
      BY <1>1, <2>5 DEF ProcOK
    <3> QED
      BY <1>1, <2>2, <2>5, <3>1 DEF ProcOK
  <2>7. Missing(q)' = Missing(q) /\ Migrating(q)' /\ ~Busy(q) /\ ~Busy(q)'
    BY <1>1, <2>5 DEF Missing, Migrating, Busy
  <2>8. Migrates(q)' /\ Script(q)' = v
    BY <1>1, <1>2, <2>7 DEF Migrates, Script, First
  <2>9. \A r \in Procs : r # q => /\ Migrates(r)' <=> Migrates(r)
                                  /\ Script(r)' = Script(r) /\ proc'[r] = proc[r]
    BY <2>5, OtherScripts
  <2>10. Recorded'
    <3>1. \A w \in Versions : applied'[w] <= Scripts[w] /\ applied[w] <= applied'[w]
      BY <1>1, <2>2, <2>3, <2>4 DEF Recorded, Typed
    <3>2. \A w \in recorded' : applied'[w] = Scripts[w]
      BY <1>1, <2>3, <2>4 DEF Recorded, Typed
    <3>3. ASSUME NEW r \in Procs, r # q, Migrates(r)' PROVE proc'[r].step <= applied'[Script(r)']
      <4>1. PICK w \in Versions : w = Script(r)
        BY <1>1, <2>9, <3>3, ScriptIn DEF Migrates, Missing
      <4>2. proc[r].step <= applied[w] /\ proc[r].step \in Nat /\ applied[w] \in Nat
            /\ applied'[w] \in Nat
        BY <1>1, <2>4, <2>9, <3>3, <4>1 DEF Recorded, Typed, ProcOK
      <4> QED
        BY <2>9, <3>1, <3>3, <4>1, <4>2
    <3>4. Migrates(q)' => proc'[q].step <= applied'[Script(q)']
      BY <2>2, <2>3, <2>4, <2>5, <2>8
    <3>5. \A r \in Procs : Migrates(r)' => proc'[r].step <= applied'[Script(r)']
      BY <3>3, <3>4
    <3> QED
      BY <1>1, <2>5, <3>1, <3>2, <3>5 DEF Recorded, OthersStay
  <2>11. Whole'
    <3> SUFFICES ASSUME ~torn PROVE Whole'
      BY <1>1 DEF Whole
    <3>1. \A r \in Procs : Migrating(r)' => r = q
      BY <1>1, <2>5, OtherScripts DEF Whole
    <3>2. \A r \in Procs : Migrates(r)' => r = q
      BY <3>1 DEF Migrates
    <3>3. \A w \in Versions \ recorded : w # v => applied'[w] = 0
      <4>1. \A r \in Procs : Migrates(r) => r = q
        BY <1>1 DEF Whole, Migrates
      <4> QED
        BY <1>1, <1>2, <2>4, <4>1 DEF Whole
    <3>4. proc'[q].known = recorded' /\ proc'[q].step = applied'[Script(q)']
      BY <1>1, <2>3, <2>4, <2>5, <2>8 DEF Whole
    <3> QED
      BY <1>1, <2>8, <3>1, <3>2, <3>3, <3>4 DEF Whole
  <2>12. OpensAgain'
    BY <1>1, <2>5 DEF OpensAgain, OthersStay
  <2>13. torn' \in BOOLEAN /\ recorded' \subseteq Versions
    BY <1>1 DEF Typed
  <2> QED
    BY <1>1, <2>4, <2>5, <2>6, <2>7, <2>10, <2>11, <2>12, <2>13, OutsideOK DEF Schemed
<1> QED
  BY <1>3, <1>4

LEMMA RecordOK == ASSUME Inv, NEW q \in Procs, Record(q) PROVE Inv'
<1>1. /\ Typed /\ Recorded /\ Whole /\ OpensAgain /\ ProcOK(proc[q])
      /\ proc[q].at = "open" /\ Migrates(q) /\ Migrating(q) /\ proc[q].step = Scripts[Script(q)]
      /\ UNCHANGED <<applied, torn, raced, mixed, rows, session, next>>
  BY DEF Record, Inv, Typed, Schemed, Tables, Ghosts, Migrating, Migrates, Script
<1>2. PICK v \in Missing(q) : v = Script(q)
  BY <1>1, ScriptIn DEF Migrates
<1>3. /\ recorded' = recorded \cup {v}
      /\ proc' = [proc EXCEPT ![q].step = 0, ![q].known = proc[q].known \cup {v}]
  BY <1>2 DEF Record, Script
<1>4. v \in Versions /\ applied[v] \in Nat /\ proc[q].step \in Nat /\ Scripts[v] \in Nat
  BY <1>1, StoreAssumption DEF Typed, ProcOK, Missing, Versions
<1>5. applied[v] = Scripts[v]
  BY <1>1, <1>2, <1>4 DEF Recorded
<1>6. /\ OthersStay(q) /\ DOMAIN proc'[q] = DOMAIN Down
      /\ proc'[q].step = 0 /\ proc'[q].at = "open" /\ proc'[q].was = proc[q].was
      /\ proc'[q].known = proc[q].known \cup {v} /\ proc'[q].answer = proc[q].answer
      /\ proc'[q].op = proc[q].op /\ proc'[q].id = proc[q].id /\ proc'[q].name = proc[q].name
      /\ proc'[q].keys = proc[q].keys
  BY <1>1, <1>3 DEF OthersStay, Typed, ProcOK, Down
<1>7. ProcOK(proc'[q])
  <2>1. proc'[q].was \in BOOLEAN
    BY <1>1, <1>6 DEF ProcOK
  <2> QED
    BY <1>1, <1>4, <1>6, <2>1 DEF ProcOK
<1>8. Missing(q)' = Missing(q) \ {v} /\ Migrating(q)' /\ ~Busy(q) /\ ~Busy(q)'
  BY <1>1, <1>6 DEF Missing, Migrating, Busy
<1>9. torn' \in BOOLEAN /\ recorded' \subseteq Versions /\ applied' \in [Versions -> Nat]
  BY <1>1, <1>3, <1>4 DEF Typed
<1>10. Typed'
  BY <1>1, <1>6, <1>7, <1>9 DEF Typed, TablesOK, OthersStay
<1>11. Migrates(q)' => Script(q)' \in Missing(q) \ {v}
  <2>1. Missing(q) \ {v} \in SUBSET Nat
    BY StoreAssumption DEF Missing, Versions
  <2> QED
    BY <1>8, <2>1, FirstIn DEF Migrates, Script
<1>12. \A r \in Procs : r # q => /\ Migrates(r)' <=> Migrates(r)
                                 /\ Script(r)' = Script(r) /\ proc'[r] = proc[r]
  BY <1>6, OtherScripts
<1>13. Recorded'
  <2>1. \A w \in recorded' : applied'[w] = Scripts[w]
    BY <1>1, <1>3, <1>5 DEF Recorded
  <2>2. Migrates(q)' => proc'[q].step <= applied'[Script(q)']
    BY <1>1, <1>6, <1>11 DEF Missing, Typed
  <2>3. \A r \in Procs : Migrates(r)' => proc'[r].step <= applied'[Script(r)']
    BY <1>1, <1>12, <2>2 DEF Recorded
  <2>4. \A r \in Procs : proc'[r].at \notin {"down", "open"} => recorded' = Versions
    BY <1>1, <1>3, <1>4, <1>6 DEF Recorded, OthersStay, Typed
  <2>5. \A r \in Procs : proc'[r].known \subseteq recorded'
    BY <1>1, <1>3, <1>6 DEF Recorded, OthersStay
  <2>6. \A w \in Versions : applied'[w] <= Scripts[w]
    BY <1>1 DEF Recorded
  <2> QED
    BY <2>1, <2>3, <2>4, <2>5, <2>6 DEF Recorded
<1>14. Whole'
  <2> SUFFICES ASSUME ~torn PROVE Whole'
    BY <1>1 DEF Whole
  <2>1. \A r \in Procs : Migrating(r)' => r = q
    BY <1>1, <1>6, OtherScripts DEF Whole
  <2>2. \A r \in Procs : Migrates(r)' => r = q
    BY <2>1 DEF Migrates
  <2>3. \A w \in Versions \ recorded : w # v => applied[w] = 0
    <3>1. \A r \in Procs : Migrates(r) => r = q
      BY <1>1 DEF Whole, Migrates
    <3> QED
      BY <1>1, <1>2, <3>1 DEF Whole
  <2>4. proc[q].known = recorded /\ proc'[q].known = recorded'
    BY <1>1, <1>3, <1>6 DEF Whole
  <2>5. Migrates(q)' => proc'[q].step = applied'[Script(q)']
    BY <1>1, <1>6, <1>11, <2>3, <2>4 DEF Missing
  <2>6. \A w \in Versions \ recorded' : applied'[w] = 0
    BY <1>1, <1>3, <2>3
  <2> QED
    BY <2>1, <2>2, <2>4, <2>5, <2>6 DEF Whole
<1>15. OpensAgain'
  BY <1>1, <1>6 DEF OpensAgain, OthersStay
<1> QED
  BY <1>1, <1>6, <1>7, <1>8, <1>9, <1>13, <1>14, <1>15, OutsideOK DEF Schemed

LEMMA ReadyOK == ASSUME Inv, NEW q \in Procs, Ready(q) PROVE Inv'
<1>1. /\ Typed /\ Recorded /\ Whole /\ OpensAgain /\ ProcOK(proc[q])
      /\ proc[q].at = "open" /\ Missing(q) = {}
      /\ UNCHANGED <<applied, recorded, torn, raced, mixed, rows, session, next>>
      /\ proc' = [proc EXCEPT ![q] = [Down EXCEPT !.at = "idle"]]
  BY DEF Ready, Inv, Typed, Schemed, Schema, Tables, Ghosts, Migrating
<1>2. /\ OthersStay(q) /\ DOMAIN proc'[q] = DOMAIN Down
      /\ proc'[q].at = "idle" /\ proc'[q].known = {} /\ proc'[q].step = 0
      /\ proc'[q].op = "none" /\ proc'[q].id = 0 /\ proc'[q].name = 0 /\ proc'[q].keys = None
      /\ proc'[q].was = FALSE /\ proc'[q].answer = "none"
  BY <1>1 DEF OthersStay, Typed, Down
<1>3. ProcOK(proc'[q])
  <2>1. proc'[q].was \in BOOLEAN
    BY <1>2
  <2> QED
    BY <1>1, <1>2, <2>1, StoreAssumption DEF ProcOK, Ops, KeyOrNone, Typed
<1>4. ~Migrating(q)' /\ ~Migrates(q)' /\ ~Busy(q) /\ ~Busy(q)'
  BY <1>1, <1>2 DEF Migrating, Migrates, Busy
<1>5. recorded = Versions
  BY <1>1 DEF Recorded, Missing, Typed, ProcOK
<1>6. \A r \in Procs : r # q => /\ Migrates(r)' <=> Migrates(r)
                                /\ Migrating(r)' <=> Migrating(r)
                                /\ Script(r)' = Script(r) /\ proc'[r] = proc[r]
  BY <1>2, OtherScripts
<1>7. Recorded'
  <2>1. \A r \in Procs : Migrates(r)' => proc'[r].step <= applied'[Script(r)']
    BY <1>1, <1>4, <1>6 DEF Recorded
  <2> QED
    BY <1>1, <1>2, <1>5, <2>1 DEF Recorded, OthersStay
<1>8. Whole'
  <2> SUFFICES ASSUME ~torn PROVE Whole'
    BY <1>1 DEF Whole
  <2>1. \A r \in Procs : ~Migrating(r)'
    <3>1. Migrating(q)
      BY <1>1 DEF Migrating
    <3> QED
      BY <1>1, <1>4, <1>6, <3>1 DEF Whole
  <2> QED
    BY <1>1, <1>5, <2>1 DEF Whole, Migrates
<1>9. OpensAgain'
  BY <1>1, <1>2 DEF OpensAgain, OthersStay
<1>10. torn' \in BOOLEAN /\ applied' \in [Versions -> Nat] /\ recorded' \subseteq Versions
  BY <1>1 DEF Typed
<1> QED
  BY <1>1, <1>2, <1>3, <1>4, <1>7, <1>8, <1>9, <1>10, OutsideOK DEF Schemed

-----------------------------------------------------------------------------
(* A death, and a database that is locked *)

\* An edit that is cut short leaves its profile mixed up; any other call leaves nothing
\* that has to follow.
LEMMA EndsFaithful ==
  ASSUME Inv, NEW q \in Procs, OthersStay(q), ~Busy(q)', mixed' = CutShort(q),
         UNCHANGED <<rows, session>>
  PROVE  Faithful'
<1>1. mixed \subseteq mixed'
  BY DEF CutShort
<1>2. \A r \in Procs, i \in Ids : About(r, i)' => About(r, i)
  BY DEF About, OthersStay, Busy
<1>3. Alone'
  BY <1>1, <1>2 DEF Inv, Faithful, Alone
<1>4. Keyed'
  <2>1. \A r \in Procs : proc'[r].at \in {"guard", "discard", "put"} => proc'[r] = proc[r]
    BY DEF OthersStay, Busy
  <2> QED
    BY <1>1, <2>1 DEF Inv, Faithful, Keyed, Exists
<1>5. \A i \in Ids : Updating(q, i) => i \in mixed'
  BY DEF Updating, CutShort
<1>6. Issued'
  BY <1>1, <1>5 DEF Inv, Faithful, Issued, OthersStay, Exists, Updating
<1> QED
  BY <1>3, <1>4, <1>6 DEF Faithful

LEMMA LockedOK == ASSUME Inv, NEW q \in Procs, Locked(q) PROVE Inv'
<1>1. /\ Typed /\ ProcOK(proc[q]) /\ Schemed /\ Single
      /\ Busy(q) /\ Answers(q, "locked") /\ mixed' = CutShort(q)
      /\ UNCHANGED <<applied, recorded, torn, raced, rows, session, next>>
  BY DEF Locked, Inv, Typed, Schema, Tables
<1>2. proc[q].at \in Working
  BY <1>1 DEF Busy, ProcOK
<1>3. /\ Steady(q) /\ OthersStay(q) /\ proc'[q].at = "idle" /\ ~Moves(q)' /\ InOrder(q)'
  BY <1>1, <1>2, AnswersSteady DEF Answered, Steady
<1>4. Typed'
  BY <1>1, <1>3 DEF Typed, TablesOK, Steady, OthersStay
<1>5. \A r \in Procs : InOrder(r)'
  BY <1>3 DEF Inv, OthersStay, InOrder
<1>6. Schemed'
  BY <1>1, <1>3, SteadySchemed
<1>7. Single'
  <2>1. SameDefaults
    BY <1>1 DEF SameDefaults
  <2> QED
    BY <1>1, <1>3, <2>1, SteadySingle
<1>8. Faithful'
  <2>1. ~Busy(q)'
    BY <1>3 DEF Busy
  <2> QED
    BY <1>1, <1>3, <2>1, EndsFaithful
<1> QED
  BY <1>4, <1>5, <1>6, <1>7, <1>8 DEF Inv

LEMMA CrashOK == ASSUME Inv, NEW q \in Procs, Crash(q) PROVE Inv'
<1>1. /\ Typed /\ Recorded /\ Whole /\ OpensAgain /\ ProcOK(proc[q])
      /\ proc' = [proc EXCEPT ![q] = Down]
      /\ UNCHANGED <<applied, recorded, raced, rows, session, next>>
      /\ torn' = (torn \/ (Migrates(q) /\ applied[Script(q)] > 0))
      /\ mixed' = CutShort(q)
  BY DEF Crash, Inv, Typed, Schemed, Schema, Tables, Migrates, Script
<1>2. /\ OthersStay(q) /\ proc'[q] = Down
  BY <1>1 DEF OthersStay, Typed
<1>3. /\ DOMAIN proc'[q] = DOMAIN Down
      /\ proc'[q].at = "down" /\ proc'[q].known = {} /\ proc'[q].step = 0
      /\ proc'[q].op = "none" /\ proc'[q].id = 0 /\ proc'[q].name = 0 /\ proc'[q].keys = None
      /\ proc'[q].was = FALSE /\ proc'[q].answer = "none"
  BY <1>2 DEF Down
<1>4. ProcOK(proc'[q])
  <2>1. proc'[q].was \in BOOLEAN
    BY <1>3
  <2> QED
    BY <1>1, <1>3, <2>1, StoreAssumption DEF ProcOK, Ops, KeyOrNone, Typed
<1>5. Typed'
  <2>1. torn' \in BOOLEAN
    BY <1>1
  <2> QED
    BY <1>1, <1>2, <1>4, <2>1 DEF Typed, TablesOK, OthersStay
<1>6. \A r \in Procs : InOrder(r)'
  <2>1. InOrder(q)'
    BY <1>3 DEF InOrder, Working
  <2>2. \A r \in Procs : r # q => InOrder(r)'
    BY <1>2 DEF Inv, OthersStay, InOrder
  <2> QED
    BY <2>1, <2>2
<1>7. ~Migrating(q)' /\ ~Migrates(q)' /\ ~Busy(q)'
  BY <1>3 DEF Migrating, Migrates, Busy
<1>8. \A r \in Procs : r # q => /\ Migrates(r)' <=> Migrates(r)
                                /\ Migrating(r)' <=> Migrating(r)
                                /\ Script(r)' = Script(r) /\ proc'[r] = proc[r]
  BY <1>2, OtherScripts
<1>9. Recorded'
  <2>1. \A r \in Procs : Migrates(r)' => proc'[r].step <= applied'[Script(r)']
    BY <1>1, <1>7, <1>8 DEF Recorded
  <2> QED
    BY <1>1, <1>2, <1>3, <2>1 DEF Recorded, OthersStay
<1>10. Whole'
  <2> SUFFICES ASSUME ~torn, ~(Migrates(q) /\ applied[Script(q)] > 0) PROVE Whole'
    BY <1>1 DEF Whole
  <2>1. \A r \in Procs : Migrating(r)' => Migrating(r) /\ proc'[r] = proc[r] /\ r # q
    BY <1>7, <1>8
  <2>2. \A r, u \in Procs : Migrating(r)' /\ Migrating(u)' => r = u
    BY <1>1, <2>1 DEF Whole
  <2>3. \A r \in Procs : Migrating(r)' => proc'[r].known = recorded'
    BY <1>1, <2>1 DEF Whole
  <2>4. \A r \in Procs : Migrates(r)' => proc'[r].step = applied'[Script(r)']
    BY <1>1, <1>7, <1>8 DEF Whole
  <2>5. \A v \in Versions \ recorded :
          applied[v] = 0 \/ \E r \in Procs : r # q /\ Migrates(r) /\ v = Script(r)
    BY <1>1 DEF Whole, Typed
  <2>6. \A v \in Versions \ recorded' :
          applied'[v] = 0 \/ \E r \in Procs : Migrates(r)' /\ v = Script(r)'
    BY <1>1, <1>8, <2>5
  <2> QED
    BY <2>2, <2>3, <2>4, <2>6 DEF Whole
<1>11. OpensAgain'
  BY <1>1, <1>2, <1>3 DEF OpensAgain, OthersStay
<1>12. Single'
  <2>1. ~Moves(q)' /\ SameDefaults
    BY <1>1, <1>7 DEF Moves, SameDefaults
  <2> QED
    BY <1>1, <1>2, <2>1, SteadySingle DEF Inv
<1>13. Faithful'
  BY <1>1, <1>2, <1>7, EndsFaithful
<1> QED
  BY <1>5, <1>6, <1>9, <1>10, <1>11, <1>12, <1>13 DEF Inv, Schemed

-----------------------------------------------------------------------------
(* A call *)

LEMMA CallOK ==
  ASSUME Inv, NEW q \in Procs, NEW op \in Kinds, NEW i \in 0..MaxId, NEW n \in Nat,
         NEW k \in KeyOrNone, Call(q, op, i, n, k),
         op \in {"create", "import"} => k \in Keys,
         op \notin {"create", "import"} => i \in Ids,
         op = "refresh" => k = None
  PROVE  Inv'
<1>1. /\ Typed /\ ProcOK(proc[q]) /\ proc[q].at = "idle"
      /\ UNCHANGED <<applied, recorded, torn, rows, session, next>>
      /\ proc' = [proc EXCEPT ![q] =
           [Down EXCEPT !.at = "begin", !.op = op, !.id = i, !.name = n, !.keys = k]]
      /\ raced' = (raced \/ (/\ op \in MovesDefault
                             /\ \E r \in Procs : Busy(r) /\ proc[r].op \in MovesDefault))
      /\ mixed' = IF \E r \in Procs : Busy(r) /\ proc[r].id = i THEN mixed \cup {i} ELSE mixed
  BY DEF Call, Inv, Typed, Schema, Tables
<1>2. /\ OthersStay(q) /\ DOMAIN proc'[q] = DOMAIN Down
      /\ proc'[q].at = "begin" /\ proc'[q].op = op /\ proc'[q].id = i
      /\ proc'[q].name = n /\ proc'[q].keys = k /\ proc'[q].was = FALSE
      /\ proc'[q].step = 0 /\ proc'[q].known = {} /\ proc'[q].answer = "none"
  BY <1>1 DEF OthersStay, Typed, Down
<1>3. op \in Ops /\ op # "none"
  BY StoreAssumption DEF Ops
<1>4. ProcOK(proc'[q])
  <2>1. proc'[q].was \in BOOLEAN
    BY <1>2
  <2> QED
    BY <1>2, <1>3, <2>1 DEF ProcOK, Working
<1>5. Typed'
  <2>1. raced' \in BOOLEAN
    BY <1>1
  <2> QED
    BY <1>1, <1>2, <1>4, <2>1 DEF Typed, TablesOK, OthersStay
<1>6. \A r \in Procs : InOrder(r)'
  <2>1. InOrder(q)'
    BY <1>2, <1>3 DEF InOrder
  <2>2. \A r \in Procs : r # q => InOrder(r)'
    BY <1>2 DEF Inv, OthersStay, InOrder
  <2> QED
    BY <2>1, <2>2
<1>7. Schemed'
  <2>1. Steady(q)
    BY <1>1, <1>2, <1>4 DEF Steady, Working
  <2> QED
    BY <2>1, SteadySchemed DEF Inv
<1>8. ~Busy(q)
  BY <1>1 DEF Busy
<1>9. Single'
  <2> SUFFICES ASSUME ~raced' PROVE Single'
    BY DEF Single
  <2>1. ~raced /\ (op \in MovesDefault => \A r \in Procs : ~Moves(r))
    BY <1>1 DEF Moves
  <2>2. \A r \in Procs : r # q => (Moves(r)' <=> Moves(r))
    BY <1>2 DEF OthersStay, Moves, Busy
  <2>3. Moves(q)' => op \in MovesDefault
    BY <1>2 DEF Moves
  <2>4. \A r, u \in Procs : Moves(r)' /\ Moves(u)' => r = u
    BY <2>1, <2>2, <2>3 DEF Inv, Single
  <2>5. Fresh(q)'
    BY <1>2 DEF Fresh
  <2>6. ASSUME NEW r \in Procs, r # q, Moves(r)' PROVE Fresh(r)'
    <3>1. Fresh(r) /\ proc'[r] = proc[r]
      BY <1>2, <2>1, <2>2, <2>6 DEF Inv, Single, OthersStay
    <3> QED
      BY <1>1, <3>1 DEF Fresh, Exists, Stored
  <2>7. Stored' = Stored /\ Defaults' = Defaults
    BY <1>1 DEF Stored, Defaults
  <2> QED
    BY <2>1, <2>4, <2>5, <2>6, <2>7 DEF Inv, Single
<1>10. mixed \subseteq mixed'
  BY <1>1
<1>11. Alone'
  <2> SUFFICES ASSUME NEW j \in Ids \ mixed', NEW r \in Procs, NEW u \in Procs,
                      About(r, j)', About(u, j)'
               PROVE  r = u
    BY DEF Alone
  <2>1. \A p \in Procs : p # q => (About(p, j)' <=> About(p, j))
    BY <1>2 DEF About, OthersStay, Busy
  <2>2. \A p \in Procs : About(p, j) /\ j = i => j \in mixed'
    BY <1>1 DEF About
  <2>3. About(q, j)' => j = i
    BY <1>2 DEF About
  <2>4. j \notin mixed
    BY <1>10
  <2> QED
    BY <2>1, <2>2, <2>3, <2>4 DEF Inv, Faithful, Alone
<1>12. Keyed'
  BY <1>1, <1>2, <1>10 DEF Inv, Faithful, Keyed, OthersStay, Exists
<1>13. Issued'
  <2>1. \A j \in Ids : ~Updating(q, j)
    BY <1>1 DEF Updating
  <2> QED
    BY <1>1, <1>2, <1>10, <2>1 DEF Inv, Faithful, Issued, OthersStay, Exists, Updating
<1> QED
  BY <1>5, <1>6, <1>7, <1>9, <1>11, <1>12, <1>13 DEF Inv, Faithful

LEMMA MakesOK == ASSUME Inv, NEW q \in Procs, Makes(q) PROVE Inv'
<1>1. /\ \A n \in Names : n \in Nat
      /\ Keys \subseteq KeyOrNone /\ None \in KeyOrNone
      /\ 0 \in 0..MaxId /\ 0 \in Nat /\ \A i \in Ids : i \in 0..MaxId
  BY StoreAssumption DEF KeyOrNone, Ids
<1>2. CASE Create(q)
  <2>1. PICK n \in Names, k \in Keys : Call(q, "create", 0, n, k)
    BY <1>2 DEF Create
  <2>2. "create" \in Kinds
    BY <2>1 DEF Call
  <2> QED
    BY <1>1, <2>1, <2>2, CallOK
<1>3. CASE Import(q)
  <2>1. PICK n \in Names, k \in Keys : Call(q, "import", 0, n, k)
    BY <1>3 DEF Import
  <2>2. "import" \in Kinds
    BY <2>1 DEF Call
  <2> QED
    BY <1>1, <2>1, <2>2, CallOK
<1>4. CASE Clone(q)
  <2>1. PICK i \in Ids, n \in Names : Call(q, "clone", i, n, None)
    BY <1>4 DEF Clone
  <2>2. "clone" \in Kinds
    BY <2>1 DEF Call
  <2> QED
    BY <1>1, <2>1, <2>2, CallOK
<1>5. CASE Update(q)
  <2>1. PICK i \in Ids, n \in Names, k \in KeyOrNone : Call(q, "update", i, n, k)
    BY <1>5 DEF Update, KeyOrNone
  <2>2. "update" \in Kinds
    BY <2>1 DEF Call
  <2> QED
    BY <1>1, <2>1, <2>2, CallOK
<1>6. CASE Other(q)
  <2>1. PICK i \in Ids, op \in {"use", "delete", "refresh"} : Call(q, op, i, 0, None)
    BY <1>6 DEF Other
  <2>2. op \in Kinds
    BY <2>1 DEF Call
  <2> QED
    BY <1>1, <2>1, <2>2, CallOK
<1> QED
  BY <1>2, <1>3, <1>4, <1>5, <1>6 DEF Makes

-----------------------------------------------------------------------------
(* The invariant holds *)

LEMMA InitOK == Init => Inv
<1> SUFFICES ASSUME Init PROVE Inv
  OBVIOUS
<1>1. PICK m \in 0..MaxId, k \in Keys, has \in BOOLEAN :
        /\ has => m > 0
        /\ applied = [v \in Versions |-> IF m = 0 THEN 0 ELSE Scripts[v]]
        /\ recorded = IF m = 0 THEN {} ELSE Versions
        /\ rows = [i \in Ids |-> IF i > m THEN NoRow
                                 ELSE [name |-> i, keys |-> k, deflt |-> i = 1]]
        /\ next = m + 1
        /\ session = [i \in Ids |-> IF has /\ i = 1 THEN k ELSE None]
  BY DEF Init
<1>2. /\ proc = [q \in Procs |-> Down] /\ torn = FALSE /\ raced = FALSE /\ mixed = {}
  BY DEF Init
<1>3. /\ DOMAIN proc = Procs
      /\ \A q \in Procs :
           /\ proc[q].at = "down" /\ proc[q].known = {} /\ proc[q].step = 0
           /\ proc[q].op = "none" /\ proc[q].id = 0 /\ proc[q].name = 0 /\ proc[q].keys = None
           /\ proc[q].was = FALSE /\ proc[q].answer = "none" /\ DOMAIN proc[q] = DOMAIN Down
  BY <1>2 DEF Down
<1>4. \A v \in Versions : v \in Nat /\ Scripts[v] \in Nat
  BY StoreAssumption DEF Versions
<1>5. Ids \subseteq Nat /\ m \in Nat /\ m <= MaxId
  BY StoreAssumption DEF Ids
<1>6. \A i \in Ids :
        /\ i <= m => rows[i].name = i /\ rows[i].keys = k /\ (rows[i].deflt <=> i = 1)
                      /\ rows[i] \in Rows
        /\ i > m => rows[i] = NoRow
  <2> SUFFICES ASSUME NEW i \in Ids
               PROVE  /\ i <= m => rows[i].name = i /\ rows[i].keys = k
                                    /\ (rows[i].deflt <=> i = 1) /\ rows[i] \in Rows
                      /\ i > m => rows[i] = NoRow
    OBVIOUS
  <2>1. PICK b \in BOOLEAN : b = (i = 1)
    OBVIOUS
  <2>2. rows[i] = IF i > m THEN NoRow ELSE [name |-> i, keys |-> k, deflt |-> b]
    <3>1. rows[i] = IF i > m THEN NoRow ELSE [name |-> i, keys |-> k, deflt |-> i = 1]
      BY <1>1
    <3> QED
      BY <2>1, <3>1, Zenon
  <2>3. i \in Nat /\ [name |-> i, keys |-> k, deflt |-> b] \in Rows
    BY <1>5 DEF Rows, KeyOrNone
  <2>4. i > m \/ i <= m
    BY <1>5, <2>3
  <2>5. CASE i > m
    BY <1>5, <2>2, <2>3, <2>5
  <2>6. CASE i <= m
    <3>1. ~(i > m)
      BY <1>5, <2>3, <2>6
    <3>2. rows[i] = [name |-> i, keys |-> k, deflt |-> b]
      BY <2>2, <3>1
    <3>3. rows[i].name = i /\ rows[i].keys = k /\ rows[i].deflt = b /\ rows[i] \in Rows
      BY <2>3, <3>2
    <3> QED
      BY <2>1, <3>1, <3>3
  <2> QED
    BY <2>4, <2>5, <2>6
<1>7. \A i \in Ids : rows[i] # NoRow <=> i <= m
  BY <1>5, <1>6, RowIsThere
<1>8. TablesOK
  <2>1. NoRow \in Rows
    BY DEF NoRow, Rows, KeyOrNone
  <2>2. \A i \in Ids : rows[i] \in Rows
    BY <1>5, <1>6, <2>1
  <2>3. rows \in [Ids -> Rows]
    BY <1>1, <2>2
  <2>4. session \in [Ids -> KeyOrNone]
    BY <1>1 DEF KeyOrNone
  <2>5. next \in 1..(MaxId + 1)
    BY <1>1, <1>5, StoreAssumption
  <2>6. \A i \in Ids : rows[i] # NoRow => rows[i].keys \in Keys /\ i < next
    BY <1>1, <1>5, <1>6, <1>7
  <2> QED
    BY <2>3, <2>4, <2>5, <2>6 DEF TablesOK
<1>9. Typed
  <2>1. \A q \in Procs : ProcOK(proc[q])
    <3>1. \A q \in Procs : proc[q].was \in BOOLEAN
      BY <1>3
    <3> QED
      BY <1>3, <3>1, StoreAssumption DEF ProcOK, Ops, KeyOrNone
  <2>2. applied \in [Versions -> Nat] /\ recorded \subseteq Versions
    BY <1>1, <1>4
  <2> QED
    BY <1>2, <1>3, <1>8, <2>1, <2>2 DEF Typed
<1>10. \A q \in Procs : InOrder(q)
  BY <1>3 DEF InOrder, Working
<1>11. Schemed
  <2>1. \A q \in Procs : ~Migrating(q) /\ ~Migrates(q)
    BY <1>3 DEF Migrating, Migrates
  <2>2. \A v \in Versions : /\ applied[v] <= Scripts[v]
                            /\ v \in recorded => applied[v] = Scripts[v]
                            /\ v \notin recorded => applied[v] = 0
    BY <1>1, <1>4
  <2>3. Recorded
    BY <1>3, <1>9, <2>1, <2>2 DEF Recorded, Typed
  <2>4. Whole
    BY <2>1, <2>2 DEF Whole
  <2> QED
    BY <1>3, <2>3, <2>4 DEF Schemed, OpensAgain
<1>12. Single
  <2>1. \A q \in Procs : ~Moves(q)
    BY <1>3 DEF Moves, Busy
  <2>2. ASSUME Stored # {} PROVE Defaults = {1} /\ 1 \in Ids
    <3>1. PICK j \in Ids : j <= m /\ 1 <= j
      BY <1>7, <2>2 DEF Stored, Ids
    <3>2. 1 \in Ids /\ 1 <= m
      BY <1>5, <3>1, StoreAssumption DEF Ids
    <3>3. \A i \in Ids : i \in Defaults <=> i <= m /\ rows[i].deflt
      BY <1>7 DEF Stored, Defaults
    <3>4. \A i \in Ids : i \in Defaults <=> i = 1
      BY <1>6, <3>2, <3>3
    <3> QED
      BY <3>2, <3>4 DEF Defaults, Stored
  <2> QED
    BY <2>1, <2>2 DEF Single
<1>13. Faithful
  <2>1. Alone /\ Keyed
    BY <1>3 DEF Alone, Keyed, About, Busy
  <2>2. Issued
    BY <1>1, <1>5, <1>6, <1>7 DEF Issued, Exists, Ids
  <2> QED
    BY <2>1, <2>2 DEF Faithful
<1> QED
  BY <1>9, <1>10, <1>11, <1>12, <1>13 DEF Inv

LEMMA StutterOK == Inv /\ UNCHANGED vars => Inv'
<1> SUFFICES ASSUME Inv, UNCHANGED vars PROVE Inv'
  OBVIOUS
<1>1. UNCHANGED <<applied, recorded, rows, session, tunnels, next, file, proc, opens, ops,
                  torn, raced, mixed>>
  BY DEF vars
<1>2. Typed' /\ \A q \in Procs : InOrder(q)'
  BY <1>1 DEF Inv, Typed, TablesOK, InOrder
<1>3. Schemed'
  <2>1. \A q \in Procs : /\ Migrating(q)' <=> Migrating(q)
                         /\ Migrates(q)' <=> Migrates(q)
                         /\ Script(q)' = Script(q)
    BY <1>1 DEF Migrating, Migrates, Missing, Script, First
  <2>2. Recorded'
    BY <1>1, <2>1 DEF Inv, Schemed, Recorded
  <2>3. Whole'
    <3> SUFFICES ASSUME ~torn PROVE Whole'
      BY <1>1 DEF Whole
    <3>1. \A r, u \in Procs : Migrating(r)' /\ Migrating(u)' => r = u
      BY <2>1 DEF Inv, Schemed, Whole
    <3>2. \A r \in Procs : Migrating(r)' => proc'[r].known = recorded'
      BY <1>1, <2>1 DEF Inv, Schemed, Whole
    <3>3. \A r \in Procs : Migrates(r)' => proc'[r].step = applied'[Script(r)']
      BY <1>1, <2>1 DEF Inv, Schemed, Whole
    <3>4. ASSUME NEW v \in Versions \ recorded', applied'[v] # 0
          PROVE  \E r \in Procs : Migrates(r)' /\ v = Script(r)'
      <4>1. PICK r \in Procs : Migrates(r) /\ v = Script(r)
        BY <1>1, <3>4 DEF Inv, Schemed, Whole
      <4> QED
        BY <2>1, <4>1
    <3> QED
      BY <3>1, <3>2, <3>3, <3>4 DEF Whole
  <2> QED
    BY <1>1, <2>2, <2>3 DEF Inv, Schemed, OpensAgain
<1>4. Single'
  BY <1>1 DEF Inv, Single, Moves, Busy, Fresh, Stored, Defaults, Exists
<1>5. Faithful'
  BY <1>1 DEF Inv, Faithful, Alone, Keyed, Issued, About, Busy, Exists
<1> QED
  BY <1>2, <1>3, <1>4, <1>5 DEF Inv

LEMMA StepOK == Inv /\ [Next]_vars => Inv'
<1> SUFFICES ASSUME Inv, [Next]_vars PROVE Inv'
  OBVIOUS
<1>1. CASE UNCHANGED vars
  BY <1>1, StutterOK
<1>2. CASE Next
  <2>1. PICK q \in Procs : Open(q) \/ Opens(q) \/ Makes(q) \/ Works(q) \/ Crash(q) \/ Locked(q)
    BY <1>2 DEF Next
  <2>2. CASE Open(q) \/ Opens(q)
    BY <2>2, OpenOK, StatementOK, RecordOK, ReadyOK DEF Opens
  <2>3. CASE Makes(q)
    BY <2>3, MakesOK
  <2>4. CASE Works(q)
    BY <2>4, BeginOK, LookOK, InsertOK, GetOK, TunnelOK, WriteUpdateOK, ForgetOK, WriteUseOK,
       WriteDeleteOK, GuardOK, DiscardOK, PutOK, ReadFileOK, ReplaceFileOK DEF Works
  <2>5. CASE Crash(q)
    BY <2>5, CrashOK
  <2>6. CASE Locked(q)
    BY <2>6, LockedOK
  <2> QED
    BY <2>1, <2>2, <2>3, <2>4, <2>5, <2>6
<1> QED
  BY <1>1, <1>2

LEMMA Invariant == Spec => []Inv
<1>1. Init => Inv
  BY InitOK
<1>2. Inv /\ [Next]_vars => Inv'
  BY StepOK
<1> QED
  BY <1>1, <1>2, PTL DEF Spec

-----------------------------------------------------------------------------
(* What follows *)

\* migrate(): whoever dies in a migration and however many run at once, a version that
\* is recorded has run to its end, and a process that works has all of them.
THEOREM StoreSchema == Spec => []SchemaIsComplete
<1>1. Inv => SchemaIsComplete
  BY DEF Inv, Schemed, Recorded, SchemaIsComplete
<1> QED
  BY <1>1, Invariant, PTL

\* A start that fails on the schema follows a death inside a migration, or two at once.
THEOREM StoreOpens == Spec => []OpensAgain
<1>1. Inv => OpensAgain
  BY DEF Inv, Schemed
<1> QED
  BY <1>1, Invariant, PTL

\* create(), set_default() and delete() leave one default, whoever dies between their
\* reads and their writes, as long as no two of them overlap.
THEOREM StoreDefault == Spec => []DefaultStands
<1>1. Inv => DefaultStands
  <2> SUFFICES ASSUME Inv, ~raced, Stored # {} PROVE Cardinality(Defaults) = 1
    BY DEF DefaultStands
  <2>1. PICK i \in Ids : Defaults = {i}
    BY DEF Inv, Single
  <2> QED
    BY <2>1, FS_Singleton
<1> QED
  BY <1>1, Invariant, PTL

\* update() and put(): a stored session is one for the keys its profile has, but while an
\* edit is about to forget it, after a second call about the profile, or a death.
THEOREM StoreSession == Spec => []SessionFollowsEdit
<1>1. Inv => SessionFollowsEdit
  BY DEF Inv, Faithful, Issued, SessionFollowsEdit, Busy
<1> QED
  BY <1>1, Invariant, PTL
=============================================================================
