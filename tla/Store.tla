------------------------------- MODULE Store -------------------------------
(***************************************************************************)
(* The SQLite store of a user, and the AWS credentials file beside it, as  *)
(* the processes of the program share them: the window and the commands of *)
(* the command line, each with one call at a time (the threads of one      *)
(* process are the subject of Authentication).  A call is a sequence of     *)
(* short transactions with nothing held in between; a read is not part of  *)
(* the transaction that follows it, because the driver begins one at the   *)
(* first statement that writes.  A process may die between two of them.    *)
(***************************************************************************)
EXTENDS Naturals, FiniteSets, Sequences

CONSTANTS
  Procs,    \* the processes
  MaxId,    \* a bound: the profiles that are ever created
  Names,    \* the names of profiles, ordered: numbers
  Keys,     \* the access keys
  None,
  Scripts,  \* the migrations: how many statements each has
  MaxOps,   \* a bound: the calls of a behaviour
  MaxOpens, \* a bound: how often a process starts
  Kinds,    \* the calls that are made
  Faults    \* "crash", "file" and "locked" are what may go wrong

ASSUME StoreAssumption ==
  /\ Names \subseteq Nat /\ Scripts \in Seq(Nat) /\ None \notin Keys
  /\ MaxId \in Nat /\ MaxOps \in Nat /\ MaxOpens \in Nat
  /\ Kinds \subseteq {"create", "clone", "update", "use", "delete", "refresh", "import"}

Ids == 1..MaxId
Versions == DOMAIN Scripts

VARIABLES
  applied,  \* how many statements of each script have run
  recorded, \* schema_migrations
  rows,     \* aws_profiles
  session,  \* session_credentials: the keys a session was issued for
  tunnels,  \* the profiles that have a tunnel
  next,     \* AUTOINCREMENT: an id is never used again
  file,     \* the sections [aws-connect-id] and, at 0, [default]
  proc,     \* what each process is doing
  opens, ops,
  torn,     \* a process died in a migration, or two migrated at once
  raced,    \* two calls that move the default overlapped
  mixed     \* the profiles two calls were about at once, or whose edit was cut short

vars == <<applied, recorded, rows, session, tunnels, next, file, proc, opens, ops,
          torn, raced, mixed>>

NoRow == [name |-> 0, keys |-> None, deflt |-> FALSE]
Down == [at |-> "down", op |-> "none", id |-> 0, name |-> 0, keys |-> None,
         was |-> FALSE, known |-> {}, step |-> 0, copy |-> <<>>, answer |-> "none"]

\* A store that is not there yet, or one with the first m profiles: the names in
\* order, the first the default, with a session or without.
Init ==
  /\ \E m \in 0..MaxId, k \in Keys, has \in BOOLEAN :
       /\ has => m > 0
       /\ applied = [v \in Versions |-> IF m = 0 THEN 0 ELSE Scripts[v]]
       /\ recorded = IF m = 0 THEN {} ELSE Versions
       /\ rows = [i \in Ids |-> IF i > m THEN NoRow
                               ELSE [name |-> i, keys |-> k, deflt |-> i = 1]]
       /\ next = m + 1 /\ tunnels = {}
       /\ session = [i \in Ids |-> IF has /\ i = 1 THEN k ELSE None]
  /\ file = [i \in 0..MaxId |-> IF i \in {0, 1} THEN session[1] ELSE None]
  /\ proc = [q \in Procs |-> Down]
  /\ opens = 0 /\ ops = 0 /\ torn = FALSE /\ raced = FALSE /\ mixed = {}

Exists(i) == i \in Ids /\ rows[i] # NoRow
Stored == {i \in Ids : rows[i] # NoRow}
Named(n) == {i \in Stored : rows[i].name = n}
Defaults == {i \in Stored : rows[i].deflt}

Goes(q, at) == proc' = [proc EXCEPT ![q].at = at]
Answers(q, a) == proc' = [proc EXCEPT ![q] = [Down EXCEPT !.at = "idle", !.answer = a]]

Ghosts == <<torn, raced, mixed>>
Schema == <<applied, recorded>>
Tables == <<rows, session, tunnels, next>>
Counts == <<opens, ops>>

-----------------------------------------------------------------------------
(* migrate(): executescript runs every statement in a transaction of its own, *)
(* the version is recorded in the next one.                                  *)

Migrating(q) == proc[q].at = "open"
\* Wrong variant: the versions that are recorded are not read.
Open_blind(q) ==
  /\ proc[q].at = "down" /\ opens < MaxOpens /\ opens' = opens + 1
  /\ proc' = [proc EXCEPT ![q] = [Down EXCEPT !.at = "open", !.known = {}]]
  /\ torn' = (torn \/ \E r \in Procs : Migrating(r))
  /\ UNCHANGED <<Schema, Tables, file, ops, raced, mixed>>

Open(q) ==
  /\ proc[q].at = "down" /\ opens < MaxOpens /\ opens' = opens + 1
  /\ proc' = [proc EXCEPT ![q] = [Down EXCEPT !.at = "open", !.known = recorded]]
  /\ torn' = (torn \/ \E r \in Procs : Migrating(r))
  /\ UNCHANGED <<Schema, Tables, file, ops, raced, mixed>>

Missing(q) == Versions \ proc[q].known
First(S) == CHOOSE v \in S : \A w \in S : v <= w

\* A table, an index or a column that is there already is an error.
Statement(q) ==
  /\ Migrating(q) /\ Missing(q) # {}
  /\ LET v == First(Missing(q)) IN
     /\ proc[q].step < Scripts[v]
     /\ IF applied[v] > proc[q].step
        THEN proc' = [proc EXCEPT ![q] = [Down EXCEPT !.answer = "broken"]] /\ UNCHANGED applied
        ELSE /\ applied' = [applied EXCEPT ![v] = @ + 1]
             /\ proc' = [proc EXCEPT ![q].step = @ + 1]
  /\ UNCHANGED <<recorded, Tables, file, Counts, Ghosts>>
\* Wrong variant: the version is recorded whatever has run.
Record_first(q) ==
  /\ Migrating(q) /\ Missing(q) # {}
  /\ LET v == First(Missing(q)) IN
     /\ recorded' = recorded \cup {v}
     /\ proc' = [proc EXCEPT ![q].step = 0, ![q].known = @ \cup {v}]
  /\ UNCHANGED <<applied, Tables, file, Counts, Ghosts>>

Record(q) ==
  /\ Migrating(q) /\ Missing(q) # {}
  /\ LET v == First(Missing(q)) IN
     /\ proc[q].step = Scripts[v] /\ recorded' = recorded \cup {v}
     /\ proc' = [proc EXCEPT ![q].step = 0, ![q].known = @ \cup {v}]
  /\ UNCHANGED <<applied, Tables, file, Counts, Ghosts>>

Ready(q) ==
  /\ Migrating(q) /\ Missing(q) = {}
  /\ proc' = [proc EXCEPT ![q] = [Down EXCEPT !.at = "idle"]]
  /\ UNCHANGED <<Schema, Tables, file, Counts, Ghosts>>

\* An edit that ends here leaves a session of the keys before it.
CutShort(q) == IF proc[q].op = "update" /\ proc[q].at \in {"get", "forget"}
               THEN mixed \cup {proc[q].id} ELSE mixed

\* What is written is kept, what was read is lost.  A start that finds the database
\* locked ends like one that dies.
Crash(q) ==
  /\ "crash" \in Faults /\ proc[q].at \notin {"down", "idle"}
  /\ proc' = [proc EXCEPT ![q] = Down]
  /\ torn' = (torn \/ (Migrating(q) /\ Missing(q) # {} /\ applied[First(Missing(q))] > 0))
  /\ mixed' = CutShort(q)
  /\ UNCHANGED <<Schema, Tables, file, Counts, raced>>

-----------------------------------------------------------------------------
(* The calls *)

Busy(q) == proc[q].at \notin {"down", "idle", "open"}
MovesDefault == {"create", "clone", "import", "use", "delete"}

\* name: of a create, a clone, an update, an import.  keys: of a create, of an
\* update that changes them.  id: of the others, the profile that is cloned too.
Call(q, op, i, n, k) ==
  /\ proc[q].at = "idle" /\ op \in Kinds /\ ops < MaxOps /\ ops' = ops + 1
  /\ proc' = [proc EXCEPT ![q] =
       [Down EXCEPT !.at = "begin", !.op = op, !.id = i, !.name = n, !.keys = k]]
  /\ raced' = (raced \/ (op \in MovesDefault /\ \E r \in Procs : Busy(r) /\ proc[r].op \in MovesDefault))
  /\ mixed' = IF \E r \in Procs : Busy(r) /\ proc[r].id = i THEN mixed \cup {i} ELSE mixed
  /\ UNCHANGED <<Schema, Tables, file, opens, torn>>

Create(q) == \E n \in Names, k \in Keys : Call(q, "create", 0, n, k)
Import(q) == \E n \in Names, k \in Keys : Call(q, "import", 0, n, k)
Clone(q) == \E i \in Ids, n \in Names : Call(q, "clone", i, n, None)
Update(q) == \E i \in Ids, n \in Names, k \in Keys \cup {None} : Call(q, "update", i, n, k)
Other(q) == \E i \in Ids, op \in {"use", "delete", "refresh"} : Call(q, op, i, 0, None)

\* The reads a call begins with: the profile is resolved, the name of an import is
\* looked for, a default is looked for, identity and issued session come from STS.
Begin(q) ==
  /\ proc[q].at = "begin"
  /\ LET p == proc[q] IN
     IF p.op \in {"create", "import"}
     THEN IF p.op = "import" /\ Named(p.name) # {} THEN Answers(q, "conflict") ELSE Goes(q, "look")
     ELSE IF ~Exists(p.id) THEN Answers(q, "missing")
     ELSE IF p.op = "clone"
     THEN proc' = [proc EXCEPT ![q].at = "look", ![q].keys = rows[p.id].keys, ![q].id = 0]
     ELSE IF p.op \in {"update", "refresh"}
     THEN proc' = [proc EXCEPT ![q].at = IF p.op = "update" THEN "write" ELSE "guard",
                               ![q].keys = IF @ = None THEN rows[p.id].keys ELSE @]
     ELSE proc' = [proc EXCEPT ![q].at = "write", ![q].was = rows[p.id].deflt]
  /\ UNCHANGED <<Schema, Tables, file, Counts, Ghosts>>

\* create(): is there any profile; then the row, its name and the default unique.
Look(q) ==
  /\ proc[q].at = "look"
  /\ proc' = [proc EXCEPT ![q].at = "insert", ![q].was = (Stored # {})]
  /\ UNCHANGED <<Schema, Tables, file, Counts, Ghosts>>

Insert(q) ==
  /\ proc[q].at = "insert" /\ next <= MaxId
  /\ LET p == proc[q] IN
     IF Named(p.name) # {} \/ (~p.was /\ Defaults # {})
     THEN Answers(q, "duplicate") /\ UNCHANGED <<rows, next>>
     ELSE /\ rows' = [rows EXCEPT ![next] = [name |-> p.name, keys |-> p.keys, deflt |-> ~p.was]]
          /\ next' = next + 1
          /\ proc' = [proc EXCEPT ![q].at = "get", ![q].id = next]
  /\ UNCHANGED <<Schema, session, tunnels, file, Counts, Ghosts>>

\* Wrong variant: an edit keeps the session.
Get_keeps(q) ==
  /\ proc[q].at = "get"
  /\ LET p == proc[q] IN
     IF ~Exists(p.id) THEN Answers(q, "failed")
     ELSE IF p.op = "import" THEN Goes(q, "tunnel") ELSE Answers(q, "ok")
  /\ UNCHANGED <<Schema, Tables, file, Counts, Ghosts>>

\* Every write is read back.
Get(q) ==
  /\ proc[q].at = "get"
  /\ LET p == proc[q] IN
     IF ~Exists(p.id) THEN Answers(q, "failed")
     ELSE IF p.op = "update" THEN Goes(q, "forget")
     ELSE IF p.op = "import" THEN Goes(q, "tunnel") ELSE Answers(q, "ok")
  /\ UNCHANGED <<Schema, Tables, file, Counts, Ghosts>>

\* The tunnel of an import.  A foreign key is an application error and undoes the
\* profile; a locked database is not, and leaves it.
Tunnel(q) ==
  /\ proc[q].at = "tunnel"
  /\ \/ Exists(proc[q].id) /\ tunnels' = tunnels \cup {proc[q].id} /\ Answers(q, "ok")
     \/ Exists(proc[q].id) /\ Answers(q, "ok") /\ UNCHANGED tunnels
     \/ ~Exists(proc[q].id) /\ Goes(q, "undo") /\ UNCHANGED tunnels
  /\ UNCHANGED <<Schema, rows, session, next, file, Counts, Ghosts>>

WriteUpdate(q) ==
  /\ proc[q].at = "write" /\ proc[q].op = "update"
  /\ LET p == proc[q] IN
     IF ~Exists(p.id) THEN Answers(q, "missing") /\ UNCHANGED rows
     ELSE IF Named(p.name) \ {p.id} # {} THEN Answers(q, "duplicate") /\ UNCHANGED rows
     ELSE /\ rows' = [rows EXCEPT ![p.id].name = p.name, ![p.id].keys = p.keys]
          /\ Goes(q, "get")
  /\ UNCHANGED <<Schema, session, tunnels, next, file, Counts, Ghosts>>

Forget(q) ==
  /\ proc[q].at = "forget"
  /\ session' = [session EXCEPT ![proc[q].id] = None] /\ Answers(q, "ok")
  /\ UNCHANGED <<Schema, rows, tunnels, next, file, Counts, Ghosts>>

\* set_default(): no default any more when the profile went in between.
WriteUse(q) ==
  /\ proc[q].at = "write" /\ proc[q].op = "use"
  /\ LET i == proc[q].id IN
     rows' = [j \in Ids |-> IF j \in Stored THEN [rows[j] EXCEPT !.deflt = (j = i)] ELSE NoRow]
  /\ Goes(q, "get")
  /\ UNCHANGED <<Schema, session, tunnels, next, file, Counts, Ghosts>>

\* delete(): the rows of other tables go with it, and the first by name follows
\* a default; two defaults are an error that takes the deletion back.
Removed(i) == [rows EXCEPT ![i] = NoRow]
Heir(i) == CHOOSE j \in Stored \ {i} : \A k \in Stored \ {i} : rows[j].name <= rows[k].name
\* Wrong variant: no profile follows the default.
WriteDelete_plain(q) ==
  /\ proc[q].at = "write" /\ proc[q].op = "delete"
  /\ LET i == proc[q].id IN
     IF ~proc[q].was \/ Stored \ {i} = {} \/ Defaults \subseteq {i, Heir(i)}
     THEN /\ rows' = Removed(i)
          /\ session' = [session EXCEPT ![i] = None] /\ tunnels' = tunnels \ {i}
          /\ Answers(q, "ok")
     ELSE Answers(q, "failed") /\ UNCHANGED <<rows, session, tunnels>>
  /\ UNCHANGED <<Schema, next, file, Counts, Ghosts>>

WriteDelete(q) ==
  /\ proc[q].at = "write" /\ proc[q].op = "delete"
  /\ LET i == proc[q].id IN
     IF ~proc[q].was \/ Stored \ {i} = {} \/ Defaults \subseteq {i, Heir(i)}
     THEN /\ rows' = IF proc[q].was /\ Stored \ {i} # {}
                     THEN [Removed(i) EXCEPT ![Heir(i)].deflt = TRUE] ELSE Removed(i)
          /\ session' = [session EXCEPT ![i] = None] /\ tunnels' = tunnels \ {i}
          /\ Answers(q, "ok")
     ELSE Answers(q, "failed") /\ UNCHANGED <<rows, session, tunnels>>
  /\ UNCHANGED <<Schema, next, file, Counts, Ghosts>>

\* The compensation of an import finds that the profile has gone.
Undo(q) ==
  /\ proc[q].at = "undo" /\ ~Exists(proc[q].id) /\ Answers(q, "missing")
  /\ UNCHANGED <<Schema, Tables, file, Counts, Ghosts>>

\* refresh(): a session that is found usable is kept, any other is discarded.
Guard(q) ==
  /\ proc[q].at = "guard"
  /\ \/ session[proc[q].id] = None /\ Goes(q, "put")
     \/ session[proc[q].id] # None /\ Answers(q, "ok")
     \/ session[proc[q].id] # None /\ Goes(q, "discard")
  /\ UNCHANGED <<Schema, Tables, file, Counts, Ghosts>>

Discard(q) ==
  /\ proc[q].at = "discard"
  /\ session' = [session EXCEPT ![proc[q].id] = None] /\ Goes(q, "put")
  /\ UNCHANGED <<Schema, rows, tunnels, next, file, Counts, Ghosts>>

\* The session first, then the file; a file that cannot be written takes it back.
Put(q) ==
  /\ proc[q].at = "put"
  /\ IF Exists(proc[q].id)
     THEN session' = [session EXCEPT ![proc[q].id] = proc[q].keys] /\ Goes(q, "read")
     ELSE Answers(q, "failed") /\ UNCHANGED session
  /\ UNCHANGED <<Schema, rows, tunnels, next, file, Counts, Ghosts>>

ReadFile(q) ==
  /\ proc[q].at = "read"
  /\ \/ proc' = [proc EXCEPT ![q].at = "replace", ![q].copy = file]
     \/ "file" \in Faults /\ Goes(q, "drop")
  /\ UNCHANGED <<Schema, Tables, file, Counts, Ghosts>>

ReplaceFile(q) ==
  /\ proc[q].at = "replace"
  /\ \/ /\ file' = [proc[q].copy EXCEPT ![proc[q].id] = proc[q].keys, ![0] = proc[q].keys]
        /\ Answers(q, "ok")
     \/ "file" \in Faults /\ Goes(q, "drop") /\ UNCHANGED file
  /\ UNCHANGED <<Schema, Tables, Counts, Ghosts>>

Drop(q) ==
  /\ proc[q].at = "drop"
  /\ session' = [session EXCEPT ![proc[q].id] = None] /\ Answers(q, "failed")
  /\ UNCHANGED <<Schema, rows, tunnels, next, file, Counts, Ghosts>>

\* Any read or write of a call may find the database locked by another process: that
\* transaction does nothing, the ones before it stay, and nothing undoes them.
Locked(q) ==
  /\ "locked" \in Faults /\ Busy(q) /\ proc[q].at \notin {"read", "replace"}
  /\ Answers(q, "locked") /\ mixed' = CutShort(q)
  /\ UNCHANGED <<Schema, Tables, file, Counts, torn, raced>>

-----------------------------------------------------------------------------

Makes(q) == Create(q) \/ Import(q) \/ Clone(q) \/ Update(q) \/ Other(q)
Opens(q) == Statement(q) \/ Record(q) \/ Ready(q)
Works(q) ==
  \/ Begin(q) \/ Look(q) \/ Insert(q) \/ Get(q) \/ Tunnel(q) \/ Undo(q)
  \/ WriteUpdate(q) \/ Forget(q) \/ WriteUse(q) \/ WriteDelete(q)
  \/ Guard(q) \/ Discard(q) \/ Put(q) \/ ReadFile(q) \/ ReplaceFile(q) \/ Drop(q)

Next == \E q \in Procs : Open(q) \/ Opens(q) \/ Makes(q) \/ Works(q) \/ Crash(q) \/ Locked(q)

Spec == Init /\ [][Next]_vars

-----------------------------------------------------------------------------
(* Properties *)

\* migrate(): a version that is recorded has run to its end, so no start leaves a
\* part of the schema out, whoever died or migrated at the same time.
SchemaIsComplete ==
  /\ \A v \in recorded : applied[v] = Scripts[v]
  /\ \A q \in Procs : proc[q].at \notin {"down", "open"} => recorded = Versions

\* A start fails on the schema only after a death inside a migration, or when two
\* processes migrated at once.
OpensAgain == \A q \in Procs : proc[q].answer = "broken" => torn

\* As long as no two calls that move the default overlapped there is exactly one
\* default among the profiles, wherever a process died.
DefaultStands == ~raced /\ Stored # {} => Cardinality(Defaults) = 1

\* A stored session was issued for the keys its profile has now: an edit forgets it,
\* unless another call was about the profile or the edit was cut short, by a death or
\* by a database that is locked when it comes to the session.
SessionFollowsEdit ==
  \A i \in Ids : session[i] # None /\ i \notin mixed =>
    \/ session[i] = rows[i].keys
    \/ \E q \in Procs : proc[q].op = "update" /\ proc[q].id = i /\ Busy(q)
=============================================================================
