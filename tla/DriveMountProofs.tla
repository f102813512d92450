-------------------------- MODULE DriveMountProofs --------------------------
(***************************************************************************)
(* What the lease and the binding of a cache buy, for any number of        *)
(* applications, drives and targets and whatever fails: one rclone at a    *)
(* time works on a cache, and unsent files go where they were written for. *)
(* Then what the states of a mount are worth: a stop that ends has seen    *)
(* its file system go, and an application that has the cache and the table *)
(* to itself finds both as it left them.                                   *)
(***************************************************************************)
EXTENDS DriveMount, TLAPS

-----------------------------------------------------------------------------
(* The inductive invariant *)

Leased(a, d) == lease[d] = <<a, "mount">>

\* An application that has a mount holds the lease of its drive; its child
\* belongs to a mount and serves what the cache is bound to; ...
Serves(a) == \A d \in Drives :
  /\ Owns(a, d) => Leased(a, d)
  /\ rclone[a][d] # None => Owns(a, d) /\ rclone[a][d] = marker[d]

\* ... and a call knows what the steps before it have taken and checked.
Connecting == {"connect", "lease", "bind", "write", "launch"}
Holding == {"bind", "write", "launch"}
Owning == {"wait", "mounting", "reap", "drain", "unmount", "removal", "quit"}
KnowsAt(a, label, l) ==
  /\ label \in Connecting => l.drive \in Drives /\ l.target \in Targets
  /\ label \in Holding => Leased(a, l.drive) /\ ~Owns(a, l.drive)
  /\ label \in {"write", "launch"} => unsent[l.drive] \in {None, l.target}
  /\ label = "launch" => marker[l.drive] = l.target
  /\ label \in Owning => l.drive \in Drives /\ Owns(a, l.drive)
  /\ l.op = "save" => l.target \in Targets
Knows(a) == KnowsAt(a, pc[a], local[a])

Inv == TypeOK /\ BoundOrTorn /\ \A a \in Apps : Serves(a) /\ Knows(a)

-----------------------------------------------------------------------------
(* How an application moves *)

At(a, label, l) ==
  /\ pc' \in [Apps -> Labels] /\ local' \in [Apps -> Locals]
  /\ pc'[a] = label /\ local'[a] = l
  /\ \A b \in Apps \ {a} : pc'[b] = pc[b] /\ local'[b] = local[b]

LEMMA MoveAt ==
  ASSUME TypeOK, NEW a \in Apps, NEW label \in Labels, NEW l \in Locals,
         Goto(a, label), local' = [local EXCEPT ![a] = l]
  PROVE  At(a, label, l)
  BY DEF At, Goto, TypeOK

LEMMA GotoAt ==
  ASSUME TypeOK, NEW a \in Apps, NEW label \in Labels, Goto(a, label), UNCHANGED local
  PROVE  At(a, label, local[a])
  BY DEF At, Goto, TypeOK

LEMMA StayAt ==
  ASSUME TypeOK, NEW a \in Apps, UNCHANGED <<pc, local>>
  PROVE  At(a, pc[a], local[a])
  BY DEF At, TypeOK

LEMMA BlankType == Blank \in Locals /\ Blank.op = "none"
  BY DEF Blank, Locals, Ops

LEMMA ReturnAt ==
  ASSUME TypeOK, NEW a \in Apps, Return(a)
  PROVE  At(a, "idle", Blank)
  BY BlankType, MoveAt DEF Return, Labels

LEMMA VisitedAt ==
  ASSUME TypeOK, NEW a \in Apps, NEW failure \in BOOLEAN, Visited(a, failure)
  PROVE  \E l \in Locals : At(a, "stop", l) /\ l.op = local[a].op /\ l.target = local[a].target
<1> DEFINE l == [local[a] EXCEPT !.todo = @ \ {local[a].drive}, !.drive = None,
                                 !.failed = @ \/ failure]
<1>1. local[a] \in Locals
  BY DEF TypeOK
<1>2. l \in Locals /\ l.op = local[a].op /\ l.target = local[a].target
  BY <1>1 DEF Locals
<1>3. local' = [local EXCEPT ![a] = l]
  BY <1>1 DEF Visited, TypeOK, Locals
<1>4. At(a, "stop", l)
  BY <1>2, <1>3, MoveAt DEF Visited, Labels
<1> QED
  BY <1>2, <1>4

-----------------------------------------------------------------------------
(* What is enough for a step of one application to keep the invariant *)

StoresTyped ==
  /\ row' \in [Drives -> Targets \cup {"unsaved", "deleted"}]
  /\ closing' \in [Apps -> BOOLEAN]
CacheTyped ==
  /\ marker' \in [Drives -> Targets \cup {None, "torn"}]
  /\ unsent' \in [Drives -> Targets \cup {None}]
  /\ lease' \in [Drives -> Holders] /\ seen' \subseteq Drives
OwnedTyped ==
  /\ mount' \in [Apps -> [Drives -> MountSet]]
  /\ rclone' \in [Apps -> [Drives -> Targets \cup {None}]]
  /\ volume' \in [Apps -> [Drives -> Volumes]]

\* It leaves what other applications own, and the cache they hold the lease of.
Respects(a) == \A b \in Apps \ {a} :
  /\ mount'[b] = mount[b] /\ rclone'[b] = rclone[b]
  /\ \A d \in Drives : Leased(b, d) =>
       lease'[d] = lease[d] /\ marker'[d] = marker[d] /\ unsent'[d] = unsent[d]

LEMMA StepKeeps ==
  ASSUME Inv, NEW a \in Apps, NEW label, NEW l, At(a, label, l),
         StoresTyped, CacheTyped, OwnedTyped, Respects(a),
         Serves(a)', BoundOrTorn', KnowsAt(a, label, l)'
  PROVE  Inv'
<1>1. TypeOK'
  BY DEF TypeOK, At, StoresTyped, CacheTyped, OwnedTyped
<1>2. Knows(a)'
  BY DEF Knows, At
<1>3. ASSUME NEW b \in Apps \ {a} PROVE Serves(b)' /\ Knows(b)'
  <2>1. \A d \in Drives : Owns(b, d)' = Owns(b, d) /\ rclone'[b][d] = rclone[b][d]
    BY <1>3 DEF Respects, Owns
  <2>2. \A d \in Drives : Leased(b, d) => Leased(b, d)' /\ marker'[d] = marker[d]
                                                        /\ unsent'[d] = unsent[d]
    BY <1>3 DEF Respects, Leased
  <2>3. Serves(b)'
    BY <2>1, <2>2, <1>3 DEF Serves, Inv
  <2>4. pc'[b] = pc[b] /\ local'[b] = local[b]
    BY <1>3 DEF At
  <2>5. Knows(b)'
    BY <2>1, <2>2, <2>4, <1>3 DEF Knows, KnowsAt, Inv, Connecting, Holding
  <2> QED
    BY <2>3, <2>5
<1> QED
  BY <1>1, <1>2, <1>3 DEF Inv

\* Most steps leave the cache alone, mount and unmount nothing, and start no child.
SameOwned(a) ==
  /\ OwnedTyped
  /\ \A b \in Apps \ {a} : mount'[b] = mount[b] /\ rclone'[b] = rclone[b]
  /\ \A d \in Drives : /\ Owns(a, d)' = Owns(a, d)
                       /\ rclone'[a][d] \in {rclone[a][d], None}

LEMMA SameCache ==
  ASSUME TypeOK, UNCHANGED cache
  PROVE  CacheTyped
  BY DEF TypeOK, cache, CacheTyped

LEMMA QuietKeeps ==
  ASSUME Inv, NEW a \in Apps, NEW label, NEW l, At(a, label, l), KnowsAt(a, label, l),
         UNCHANGED cache, StoresTyped, SameOwned(a)
  PROVE  Inv'
<1>1. CacheTyped
  BY SameCache DEF Inv
<1>2. Respects(a)
  BY DEF Respects, SameOwned, cache
<1>3. Serves(a)'
  <2>1. ASSUME NEW d \in Drives
        PROVE  /\ Owns(a, d)' => Leased(a, d)'
               /\ rclone'[a][d] # None => Owns(a, d)' /\ rclone'[a][d] = marker'[d]
    BY DEF Inv, Serves, SameOwned, cache, Leased
  <2> QED
    BY <2>1 DEF Serves
<1>4. BoundOrTorn'
  BY DEF Inv, BoundOrTorn, cache
<1>5. KnowsAt(a, label, l)'
  <2>1. label \in Owning => Owns(a, l.drive)'
    BY DEF KnowsAt, SameOwned
  <2>2. label \in Holding => l.drive \in Drives /\ Leased(a, l.drive)' /\ ~Owns(a, l.drive)'
    BY DEF KnowsAt, SameOwned, Holding, Connecting, cache, Leased
  <2> QED
    BY <2>1, <2>2 DEF KnowsAt, cache
<1> QED
  BY <1>1, <1>2, <1>3, <1>4, <1>5, StepKeeps DEF SameOwned

LEMMA NothingOwned ==
  ASSUME TypeOK, NEW a \in Apps, UNCHANGED owned
  PROVE  SameOwned(a)
  BY DEF TypeOK, owned, SameOwned, OwnedTyped, Owns

LEMMA SetStateOwned ==
  ASSUME TypeOK, NEW a \in Apps, NEW d \in Drives, NEW state \in States,
         Owns(a, d), SetState(a, d, state)
  PROVE  /\ mount' \in [Apps -> [Drives -> MountSet]]
         /\ \A b \in Apps \ {a} : mount'[b] = mount[b]
         /\ \A e \in Drives : Owns(a, e)' = Owns(a, e)
<1> DEFINE m == [mount[a][d] EXCEPT !.state = state]
<1>1. mount[a][d] \in [state : States, mounted : BOOLEAN]
  BY DEF TypeOK, MountSet, Owns
<1>2. m \in MountSet /\ m # NoMount
  BY <1>1 DEF MountSet, NoMount, States
<1>3. mount' = [mount EXCEPT ![a] = [mount[a] EXCEPT ![d] = m]]
  BY DEF SetState, TypeOK
<1> HIDE DEF m
<1>4. mount' \in [Apps -> [Drives -> MountSet]]
  BY <1>2, <1>3 DEF TypeOK
<1>5. \A b \in Apps \ {a} : mount'[b] = mount[b]
  BY <1>3 DEF TypeOK
<1>6. \A e \in Drives : mount'[a][e] = IF e = d THEN m ELSE mount[a][e]
  BY <1>3 DEF TypeOK
<1> QED
  BY <1>2, <1>4, <1>5, <1>6 DEF Owns

\* What connect and disconnect write into `mounted`.
SetMounted(a, d, mounted) == mount' = [mount EXCEPT ![a][d].mounted = mounted]
LEMMA SetMountedOwned ==
  ASSUME TypeOK, NEW a \in Apps, NEW d \in Drives, NEW mounted \in BOOLEAN,
         Owns(a, d), SetMounted(a, d, mounted)
  PROVE  /\ mount' \in [Apps -> [Drives -> MountSet]]
         /\ \A b \in Apps \ {a} : mount'[b] = mount[b]
         /\ \A e \in Drives : Owns(a, e)' = Owns(a, e)
<1> DEFINE m == [mount[a][d] EXCEPT !.mounted = mounted]
<1>1. mount[a][d] \in [state : States, mounted : BOOLEAN]
  BY DEF TypeOK, MountSet, Owns
<1>2. m \in MountSet /\ m # NoMount
  BY <1>1 DEF MountSet, NoMount, States
<1>3. mount' = [mount EXCEPT ![a] = [mount[a] EXCEPT ![d] = m]]
  BY DEF SetMounted, TypeOK
<1> HIDE DEF m
<1>4. mount' \in [Apps -> [Drives -> MountSet]] /\ \A b \in Apps \ {a} : mount'[b] = mount[b]
  BY <1>2, <1>3 DEF TypeOK
<1>5. \A e \in Drives : mount'[a][e] = IF e = d THEN m ELSE mount[a][e]
  BY <1>3 DEF TypeOK
<1> QED
  BY <1>2, <1>4, <1>5 DEF Owns

LEMMA KillOwned ==
  ASSUME TypeOK, NEW a \in Apps, NEW d \in Drives, Kill(a, d)
  PROVE  /\ rclone' \in [Apps -> [Drives -> Targets \cup {None}]]
         /\ volume' \in [Apps -> [Drives -> Volumes]]
         /\ \A b \in Apps \ {a} : rclone'[b] = rclone[b]
         /\ \A e \in Drives : rclone'[a][e] = IF e = d THEN None ELSE rclone[a][e]
<1>1. Orphan(volume[a][d]) \in Volumes
  BY DEF TypeOK, Orphan, Volumes
<1>2. volume' = [volume EXCEPT ![a] = [volume[a] EXCEPT ![d] = Orphan(volume[a][d])]]
  BY DEF Kill, TypeOK
<1>3. volume' \in [Apps -> [Drives -> Volumes]]
  BY <1>1, <1>2 DEF TypeOK
<1> QED
  BY <1>3 DEF Kill, TypeOK

-----------------------------------------------------------------------------
(* Steps that leave the cache alone *)

LEMMA IdleKnows == ASSUME NEW a \in Apps PROVE KnowsAt(a, "idle", Blank)
  BY BlankType DEF KnowsAt, Connecting, Holding, Owning

Plain == {"idle", "stop", "check", "store"}
LEMMA PlainKnows ==
  ASSUME Inv, NEW a \in Apps, NEW label \in Plain, NEW l,
         l.op = local[a].op, l.target = local[a].target
  PROVE  KnowsAt(a, label, l)
  BY DEF Inv, Knows, KnowsAt, Plain, Connecting, Holding, Owning

LEMMA SameStores ==
  ASSUME TypeOK, UNCHANGED <<row, closing>>
  PROVE  StoresTyped
  BY DEF TypeOK, StoresTyped

\* The call ends.
LEMMA ReturnKeeps ==
  ASSUME Inv, NEW a \in Apps, Return(a), UNCHANGED cache, StoresTyped, SameOwned(a)
  PROVE  Inv'
  BY IdleKnows, ReturnAt, QuietKeeps DEF Inv

\* _stop goes on to the next drive.
LEMMA VisitedKeeps ==
  ASSUME Inv, NEW a \in Apps, NEW failure \in BOOLEAN, Visited(a, failure),
         UNCHANGED cache, StoresTyped, SameOwned(a)
  PROVE  Inv'
<1>1. PICK l \in Locals : /\ At(a, "stop", l)
                          /\ l.op = local[a].op /\ l.target = local[a].target
  BY VisitedAt DEF Inv
<1> QED
  BY <1>1, PlainKnows, QuietKeeps DEF Plain

LEMMA FailKeeps ==
  ASSUME Inv, NEW a \in Apps, local[a].drive \in Drives, Owns(a, local[a].drive), Fail(a),
         UNCHANGED cache, StoresTyped,
         volume' \in [Apps -> [Drives -> Volumes]],
         UNCHANGED rclone \/ Kill(a, local[a].drive)
  PROVE  Inv'
<1>1. /\ rclone' \in [Apps -> [Drives -> Targets \cup {None}]]
      /\ \A b \in Apps \ {a} : rclone'[b] = rclone[b]
      /\ \A d \in Drives : rclone'[a][d] \in {rclone[a][d], None}
  BY KillOwned DEF Inv, TypeOK
<1>2. SameOwned(a)
  BY <1>1, SetStateOwned DEF Inv, Fail, States, SameOwned, OwnedTyped
<1> QED
  BY <1>2, VisitedKeeps DEF Fail

LEMMA ConnectKeeps ==
  ASSUME Inv, NEW a \in Apps, NEW d \in Drives, Connect(a, d)
  PROVE  Inv'
<1> DEFINE l == [Blank EXCEPT !.op = "connect", !.drive = d, !.target = row[d]]
<1>1. l \in Locals /\ l.drive = d /\ l.target \in Targets /\ l.op = "connect"
  BY DEF Connect, Saved, Blank, Locals, Ops
<1>2. At(a, "connect", l)
  BY <1>1, MoveAt DEF Connect, Inv, Labels
<1>3. KnowsAt(a, "connect", l)
  BY <1>1 DEF KnowsAt, Connecting, Holding, Owning
<1>4. StoresTyped /\ SameOwned(a) /\ UNCHANGED cache
  BY SameStores, NothingOwned DEF Connect, Inv
<1> QED
  BY <1>2, <1>3, <1>4, QuietKeeps

LEMMA BeginKeeps ==
  ASSUME Inv, NEW a \in Apps, NEW op \in Ops \ {"save"}, NEW drives \in SUBSET Drives,
         Begin(a, op, drives), closing' \in [Apps -> BOOLEAN]
  PROVE  Inv'
<1> DEFINE l == [Blank EXCEPT !.op = op, !.todo = drives, !.goal = drives]
<1>1. l \in Locals /\ l.op = op
  BY DEF Blank, Locals
<1>2. At(a, "stop", l)
  BY <1>1, MoveAt DEF Begin, Inv, Labels
<1>3. KnowsAt(a, "stop", l)
  BY <1>1 DEF KnowsAt, Connecting, Holding, Owning
<1>4. StoresTyped /\ SameOwned(a) /\ UNCHANGED cache
  BY NothingOwned DEF Begin, Inv, TypeOK, StoresTyped
<1> QED
  BY <1>2, <1>3, <1>4, QuietKeeps

LEMMA EnterKeeps ==
  ASSUME Inv, NEW a \in Apps, Enter(a)
  PROVE  Inv'
<1>1. ASSUME NEW d \in Drives, Connect(a, d) PROVE Inv'
  BY <1>1, ConnectKeeps
<1>2. ASSUME NEW d \in Drives, Disconnect(a, d) \/ Delete(a, d) PROVE Inv'
  <2>1. closing' \in [Apps -> BOOLEAN] /\ {d} \in SUBSET Drives
    BY <1>2 DEF Disconnect, Delete, Inv, TypeOK
  <2>2. Begin(a, "disconnect", {d}) \/ Begin(a, "delete", {d})
    BY <1>2 DEF Disconnect, Delete
  <2>3. {"disconnect", "delete"} \subseteq Ops \ {"save"}
    BY DEF Ops
  <2> QED
    BY <2>1, <2>2, <2>3, BeginKeeps
<1>3. CASE DeleteProfile(a) \/ Shutdown(a)
  <2>1. closing' \in [Apps -> BOOLEAN] /\ SavedDrives \in SUBSET Drives
    BY <1>3 DEF DeleteProfile, Shutdown, SavedDrives, Inv, TypeOK
  <2>2. Begin(a, "profile", SavedDrives) \/ Begin(a, "shutdown", SavedDrives)
    BY <1>3 DEF DeleteProfile, Shutdown
  <2>3. {"profile", "shutdown"} \subseteq Ops \ {"save"}
    BY DEF Ops
  <2> QED
    BY <2>1, <2>2, <2>3, BeginKeeps
<1>4. ASSUME NEW d \in Drives, NEW target \in Targets, Create(a, d, target) PROVE Inv'
  <2>1. At(a, pc[a], local[a])
    BY <1>4, StayAt DEF Create, Inv
  <2>2. StoresTyped /\ SameOwned(a) /\ UNCHANGED cache
    BY <1>4, NothingOwned DEF Create, Inv, TypeOK, StoresTyped
  <2> QED
    BY <2>1, <2>2, QuietKeeps DEF Inv, Knows
<1>5. ASSUME NEW d \in Drives, NEW target \in Targets, Save(a, d, target) PROVE Inv'
  <2> DEFINE l == [Blank EXCEPT !.op = "save", !.target = target, !.todo = {d}, !.goal = {d}]
  <2>1. l \in Locals /\ l.target = target
    BY DEF Blank, Locals, Ops
  <2>2. At(a, "check", l)
    BY <1>5, <2>1, MoveAt DEF Save, Inv, Labels
  <2>3. KnowsAt(a, "check", l)
    BY <2>1 DEF KnowsAt, Connecting, Holding, Owning
  <2>4. StoresTyped /\ SameOwned(a) /\ UNCHANGED cache
    BY <1>5, NothingOwned, SameStores DEF Save, Inv
  <2> QED
    BY <2>2, <2>3, <2>4, QuietKeeps
<1> QED
  BY <1>1, <1>2, <1>3, <1>4, <1>5 DEF Enter

LEMMA StopKeeps ==
  ASSUME Inv, NEW a \in Apps, Stop(a)
  PROVE  Inv'
<1>1. PICK d \in Drives : local' = [local EXCEPT ![a].drive = d]
  BY DEF Stop, Inv, TypeOK, Locals
<1> DEFINE l == [local[a] EXCEPT !.drive = d]
<1>2. local[a] \in Locals /\ local' = [local EXCEPT ![a] = l]
  BY <1>1 DEF Inv, TypeOK
<1>3. l \in Locals /\ l.op = local[a].op /\ l.target = local[a].target
  BY <1>2 DEF Locals
<1>4. At(a, "stop", l)
  BY <1>2, <1>3 DEF Stop, At, Inv, TypeOK
<1>5. StoresTyped /\ SameOwned(a) /\ UNCHANGED cache
  BY NothingOwned, SameStores DEF Stop, Inv
<1> QED
  BY <1>3, <1>4, <1>5, PlainKnows, QuietKeeps DEF Plain

LEMMA StoppedKeeps ==
  ASSUME Inv, NEW a \in Apps, Stopped(a)
  PROVE  Inv'
<1>1. closing' \in [Apps -> BOOLEAN] /\ local[a] \in Locals
  BY DEF Stopped, Reopened, Inv, TypeOK, Locals
<1>2. StoresTyped /\ SameOwned(a) /\ UNCHANGED cache
  BY <1>1, NothingOwned DEF Stopped, Inv, TypeOK, StoresTyped
<1>3. CASE Return(a)
  BY <1>2, <1>3, ReturnKeeps
<1>4. ASSUME NEW todo \in SUBSET Drives, Goto(a, "check"),
             local' = [local EXCEPT ![a].todo = todo]
      PROVE  Inv'
  <2> DEFINE l == [local[a] EXCEPT !.todo = todo]
  <2>1. l \in Locals /\ l.op = local[a].op /\ l.target = local[a].target
    BY <1>1 DEF Locals
  <2>2. At(a, "check", l)
    BY <1>4, <2>1, MoveAt DEF Inv, Labels
  <2> QED
    BY <1>2, <2>1, <2>2, PlainKnows, QuietKeeps DEF Plain
<1>5. SavedDrives \in SUBSET Drives /\ local[a].goal \in SUBSET Drives
  BY <1>1 DEF SavedDrives, Locals
<1> QED
  BY <1>3, <1>4, <1>5 DEF Stopped

LEMMA CheckKeeps ==
  ASSUME Inv, NEW a \in Apps, Check(a)
  PROVE  Inv'
<1>1. StoresTyped /\ SameOwned(a) /\ UNCHANGED cache
  BY NothingOwned, SameStores DEF Check, Inv
<1>2. CASE Return(a)
  BY <1>1, <1>2, ReturnKeeps
<1>3. ASSUME NEW d \in Drives, local' = [local EXCEPT ![a].todo = @ \ {d}], UNCHANGED pc
      PROVE  Inv'
  <2> DEFINE l == [local[a] EXCEPT !.todo = @ \ {d}]
  <2>1. local[a] \in Locals /\ local' = [local EXCEPT ![a] = l]
    BY <1>3 DEF Inv, TypeOK
  <2>2. l \in Locals /\ l.op = local[a].op /\ l.target = local[a].target
    BY <2>1 DEF Locals
  <2>3. At(a, "check", l)
    BY <1>3, <2>1, <2>2 DEF Check, At, Inv, TypeOK
  <2> QED
    BY <1>1, <2>2, <2>3, PlainKnows, QuietKeeps DEF Plain
<1>4. CASE Goto(a, "store") /\ UNCHANGED local
  BY <1>1, <1>4, GotoAt, PlainKnows, QuietKeeps DEF Plain, Labels, Inv
<1>5. local[a].todo \subseteq Drives
  BY DEF Inv, TypeOK, Locals
<1> QED
  BY <1>2, <1>3, <1>4, <1>5 DEF Check

LEMMA StoreKeeps ==
  ASSUME Inv, NEW a \in Apps, Store(a)
  PROVE  Inv'
<1>1. Stored(a) \in [Drives -> Targets \cup {"unsaved", "deleted"}]
  BY DEF Stored, Inv, TypeOK, Knows, KnowsAt
<1>2. StoresTyped /\ SameOwned(a) /\ UNCHANGED cache
  BY <1>1, NothingOwned DEF Store, Inv, TypeOK, StoresTyped
<1> QED
  BY <1>2, ReturnKeeps DEF Store

LEMMA AwaitKeeps ==
  ASSUME Inv, NEW a \in Apps, Await(a)
  PROVE  Inv'
<1> DEFINE d == local[a].drive
<1>1. d \in Drives /\ Owns(a, d) /\ StoresTyped /\ UNCHANGED <<cache, rclone>>
  BY SameStores DEF Await, Inv, Knows, KnowsAt, Owning
<1>2. CASE Return(a) /\ UNCHANGED <<mount, volume>>
  BY <1>1, <1>2, NothingOwned, ReturnKeeps DEF Inv, owned
<1>3. CASE /\ mount' = [mount EXCEPT ![a][d].mounted = TRUE]
           /\ volume' = [volume EXCEPT ![a][d] = "asked"]
           /\ Goto(a, "mounting") /\ UNCHANGED local
  <2>1. volume' \in [Apps -> [Drives -> Volumes]]
    BY <1>1, <1>3 DEF Inv, TypeOK, Volumes
  <2>2. SameOwned(a)
    BY <1>1, <1>3, <2>1, SetMountedOwned DEF SetMounted, SameOwned, OwnedTyped, Inv, TypeOK
  <2>3. At(a, "mounting", local[a])
    BY <1>3, GotoAt DEF Inv, Labels
  <2>4. KnowsAt(a, "mounting", local[a])
    BY <1>1 DEF Inv, Knows, KnowsAt, Connecting, Holding
  <2> QED
    BY <1>1, <2>2, <2>3, <2>4, QuietKeeps
<1> QED
  BY <1>2, <1>3 DEF Await

LEMMA MountingKeeps ==
  ASSUME Inv, NEW a \in Apps, Mounting(a)
  PROVE  Inv'
<1> DEFINE d == local[a].drive
<1>1. d \in Drives /\ Owns(a, d) /\ StoresTyped /\ UNCHANGED <<cache, rclone>>
  BY SameStores DEF Mounting, Inv, Knows, KnowsAt, Owning
<1>2. /\ volume' \in [Apps -> [Drives -> Volumes]]
      /\ rclone' \in [Apps -> [Drives -> Targets \cup {None}]]
  <2>1. CASE volume' = [volume EXCEPT ![a][d] = "none"]
    BY <1>1, <2>1 DEF Inv, TypeOK, Volumes
  <2>2. CASE UNCHANGED volume
    BY <1>1, <2>2 DEF Inv, TypeOK
  <2> QED
    BY <2>1, <2>2 DEF Mounting
<1>3. SameOwned(a)
  <2>1. CASE SetState(a, d, "connected")
    BY <1>1, <1>2, <2>1, SetStateOwned DEF Inv, States, SameOwned, OwnedTyped
  <2>2. CASE UNCHANGED mount
    BY <1>1, <1>2, <2>2 DEF Inv, TypeOK, SameOwned, OwnedTyped, Owns
  <2> QED
    BY <2>1, <2>2 DEF Mounting
<1> QED
  BY <1>1, <1>3, ReturnKeeps DEF Mounting

\* The call of a stop knows its drive and that it is mounted.
LEMMA OwningKnows ==
  ASSUME Inv, NEW a \in Apps, pc[a] \in Owning
  PROVE  local[a].drive \in Drives /\ Owns(a, local[a].drive)
  BY DEF Inv, Knows, KnowsAt

\* A stop goes on with a mount in another state.
LEMMA ProceedKeeps ==
  ASSUME Inv, NEW a \in Apps, NEW label \in Owning, Goto(a, label), UNCHANGED local,
         local[a].drive \in Drives, Owns(a, local[a].drive),
         UNCHANGED cache, StoresTyped, SameOwned(a)
  PROVE  Inv'
<1>1. At(a, label, local[a])
  BY GotoAt DEF Inv, Owning, Labels
<1>2. KnowsAt(a, label, local[a])
  BY DEF Inv, Knows, KnowsAt, Owning, Connecting, Holding
<1> QED
  BY <1>1, <1>2, QuietKeeps

LEMMA StopFailedKeeps ==
  ASSUME Inv, NEW a \in Apps, StopFailed(a)
  PROVE  Inv'
<1> DEFINE d == local[a].drive
<1>1. d \in Drives /\ Owns(a, d) /\ SetState(a, d, "disconnecting")
  BY DEF StopFailed, Inv, TypeOK, Locals
<1>2. /\ rclone' \in [Apps -> [Drives -> Targets \cup {None}]]
      /\ volume' \in [Apps -> [Drives -> Volumes]]
      /\ \A b \in Apps \ {a} : rclone'[b] = rclone[b]
      /\ \A e \in Drives : rclone'[a][e] \in {rclone[a][e], None}
  <2>1. CASE Kill(a, d)
    BY <1>1, <2>1, KillOwned DEF Inv
  <2>2. CASE UNCHANGED <<rclone, volume>>
    BY <2>2 DEF Inv, TypeOK
  <2> QED
    BY <2>1, <2>2 DEF StopFailed
<1>3. SameOwned(a)
  BY <1>1, <1>2, SetStateOwned DEF Inv, States, SameOwned, OwnedTyped
<1>4. Goto(a, "reap") /\ UNCHANGED local /\ UNCHANGED cache /\ StoresTyped
  BY SameStores DEF StopFailed, Inv
<1> QED
  BY <1>1, <1>3, <1>4, ProceedKeeps DEF Owning

LEMMA StopMountedKeeps ==
  ASSUME Inv, NEW a \in Apps, StopMounted(a)
  PROVE  Inv'
<1> DEFINE d == local[a].drive
<1>1. d \in Drives /\ Owns(a, d) /\ SetState(a, d, "disconnecting")
  BY DEF StopMounted, Inv, TypeOK, Locals
<1>2. SameOwned(a)
  BY <1>1, SetStateOwned DEF StopMounted, Inv, TypeOK, States, SameOwned, OwnedTyped
<1>3. Goto(a, "drain") /\ UNCHANGED local /\ UNCHANGED cache /\ StoresTyped
  BY SameStores DEF StopMounted, Inv
<1> QED
  BY <1>1, <1>2, <1>3, ProceedKeeps DEF Owning

LEMMA DrainKeeps ==
  ASSUME Inv, NEW a \in Apps, Drain(a) \/ Removal(a)
  PROVE  Inv'
<1>1. local[a].drive \in Drives /\ Owns(a, local[a].drive)
  BY OwningKnows DEF Drain, Removal, Owning
<1>2. /\ UNCHANGED <<cache, rclone>> /\ UNCHANGED cache /\ StoresTyped
      /\ rclone' \in [Apps -> [Drives -> Targets \cup {None}]]
      /\ volume' \in [Apps -> [Drives -> Volumes]]
  BY SameStores DEF Drain, Removal, Inv, TypeOK
<1>3. CASE Fail(a)
  BY <1>1, <1>2, <1>3, FailKeeps
<1>4. CASE UNCHANGED <<mount, local>> /\ (Goto(a, "unmount") \/ Goto(a, "quit"))
  <2>1. SameOwned(a)
    BY <1>2, <1>4, NothingOwned DEF Drain, Removal, Inv, owned
  <2> QED
    BY <1>1, <1>2, <1>4, <2>1, ProceedKeeps DEF Owning
<1> QED
  BY <1>3, <1>4 DEF Drain, Removal

LEMMA UnmountKeeps ==
  ASSUME Inv, NEW a \in Apps, Unmount(a)
  PROVE  Inv'
<1> DEFINE d == local[a].drive
           unmounted == [volume EXCEPT ![a][d] = Orphan(@)]
<1>1. d \in Drives /\ Owns(a, d)
  BY OwningKnows DEF Unmount, Owning
<1>2. UNCHANGED <<cache, rclone>> /\ UNCHANGED cache /\ StoresTyped
  BY SameStores DEF Unmount, Inv
<1>3. volume' \in [Apps -> [Drives -> Volumes]]
  <2>1. volume' \in {volume, unmounted}
    BY DEF Unmount
  <2>2. Orphan(volume[a][d]) \in Volumes
    BY <1>1 DEF Inv, TypeOK, Orphan, Volumes
  <2>3. unmounted = [volume EXCEPT ![a] = [volume[a] EXCEPT ![d] = Orphan(volume[a][d])]]
    BY <1>1 DEF Inv, TypeOK
  <2>4. unmounted \in [Apps -> [Drives -> Volumes]]
    <3>1. [volume[a] EXCEPT ![d] = Orphan(volume[a][d])] \in [Drives -> Volumes]
      BY <1>1, <2>2 DEF Inv, TypeOK
    <3> QED
      BY <2>3, <3>1 DEF Inv, TypeOK
  <2> QED
    BY <2>1, <2>4 DEF Inv, TypeOK
<1>4. rclone' \in [Apps -> [Drives -> Targets \cup {None}]]
  BY <1>2 DEF Inv, TypeOK
<1>5. CASE Fail(a)
  BY <1>1, <1>2, <1>3, <1>4, <1>5, FailKeeps
<1>6. CASE /\ mount' = [mount EXCEPT ![a][d].mounted = FALSE]
           /\ Goto(a, "removal") /\ UNCHANGED local
  <2>1. SameOwned(a)
    BY <1>1, <1>2, <1>3, <1>4, <1>6, SetMountedOwned DEF SetMounted, SameOwned, OwnedTyped, Inv
  <2> QED
    BY <1>1, <1>2, <1>6, <2>1, ProceedKeeps DEF Owning
<1> QED
  BY <1>5, <1>6 DEF Unmount

-----------------------------------------------------------------------------
(* Steps on the cache *)

\* A lease is held for one application, and not free.
LEMMA LeasedOnce ==
  ASSUME NEW a \in Apps, NEW d \in Drives, Leased(a, d)
  PROVE  lease[d] # None /\ \A b \in Apps \ {a} : ~Leased(b, d)
  BY DriveMountAssumption DEF Leased

\* What is mounted by another application is not held by a call of this one.
LEMMA OthersIdle ==
  ASSUME Inv, NEW a \in Apps, NEW d \in Drives, lease[d] = None \/ Leased(a, d),
         NEW b \in Apps \ {a}
  PROVE  ~Owns(b, d) /\ rclone[b][d] = None /\ ~Leased(b, d)
  BY LeasedOnce DEF Inv, Serves

LEMMA ReleasedOwned ==
  ASSUME TypeOK, NEW a \in Apps, NEW d \in Drives, Released(a, d)
  PROVE  /\ mount' \in [Apps -> [Drives -> MountSet]]
         /\ \A b \in Apps \ {a} : mount'[b] = mount[b]
         /\ \A e \in Drives : Owns(a, e)' <=> e # d /\ Owns(a, e)
         /\ lease' \in [Drives -> Holders] /\ lease'[d] = None
         /\ \A e \in Drives \ {d} : lease'[e] = lease[e]
<1>1. NoMount \in MountSet
  BY DEF MountSet
<1>2. mount' = [mount EXCEPT ![a] = [mount[a] EXCEPT ![d] = NoMount]]
  BY DEF Released, TypeOK
<1>3. lease' \in [Drives -> Holders] /\ lease'[d] = None /\ \A e \in Drives \ {d} : lease'[e] = lease[e]
  BY DEF Released, TypeOK, Holders
<1>4. mount' \in [Apps -> [Drives -> MountSet]] /\ \A b \in Apps \ {a} : mount'[b] = mount[b]
  BY <1>1, <1>2 DEF TypeOK
<1>5. \A e \in Drives : mount'[a][e] = IF e = d THEN NoMount ELSE mount[a][e]
  BY <1>2 DEF TypeOK
<1> QED
  BY <1>3, <1>4, <1>5 DEF Owns

\* A connection is given up, after its cache was cleaned or not.
LEMMA ReleaseKeeps ==
  ASSUME Inv, NEW a \in Apps, NEW d \in Drives, Owns(a, d), Released(a, d), Kill(a, d),
         marker' \in {marker, Cleared(d)}, UNCHANGED <<unsent, seen>>, StoresTyped,
         NEW label \in Plain \cup {"lease"}, NEW l, At(a, label, l), KnowsAt(a, label, l)
  PROVE  Inv'
<1> USE DEF Inv
<1>1. Leased(a, d)
  BY DEF Serves
<1>2. marker' \in [Drives -> Targets \cup {None, "torn"}]
  BY DEF Cleared, TypeOK
<1>3. \A e \in Drives \ {d} : marker'[e] = marker[e]
  BY DEF Cleared, TypeOK
<1>4. CacheTyped /\ OwnedTyped
  BY <1>2, ReleasedOwned, KillOwned DEF CacheTyped, OwnedTyped, TypeOK
<1>5. Respects(a)
  BY <1>1, <1>3, LeasedOnce, ReleasedOwned, KillOwned DEF Respects
<1>6. ASSUME NEW e \in Drives
      PROVE  /\ Owns(a, e)' => Leased(a, e)'
             /\ rclone'[a][e] # None => Owns(a, e)' /\ rclone'[a][e] = marker'[e]
  BY <1>3, ReleasedOwned, KillOwned DEF Serves, Leased
<1>7. Serves(a)'
  BY <1>6 DEF Serves
<1>8. BoundOrTorn'
  BY <1>3 DEF BoundOrTorn, Cleared, TypeOK
<1>9. KnowsAt(a, label, l)'
  BY DEF KnowsAt, Plain, Connecting, Holding, Owning
<1> QED
  BY <1>4, <1>5, <1>7, <1>8, <1>9, StepKeeps

LEMMA ReuseKeeps ==
  ASSUME Inv, NEW a \in Apps, Reuse(a)
  PROVE  Inv'
<1> DEFINE d == local[a].drive
<1>1. d \in Drives /\ StoresTyped /\ UNCHANGED <<marker, unsent, seen>>
  BY SameStores DEF Reuse, Inv, Knows, KnowsAt, Connecting
<1>2. KnowsAt(a, "lease", local[a])
  BY DEF Reuse, Inv, Knows, KnowsAt, Connecting, Holding, Owning
<1>3. CASE Goto(a, "lease") /\ UNCHANGED local
  <2>1. At(a, "lease", local[a])
    BY <1>3, GotoAt DEF Inv, Labels
  <2>2. CASE UNCHANGED <<lease, owned>>
    BY <1>1, <1>2, <2>1, <2>2, NothingOwned, QuietKeeps DEF Inv, cache
  <2>3. CASE Owns(a, d) /\ Released(a, d) /\ Kill(a, d)
    BY <1>1, <1>2, <2>1, <2>3, ReleaseKeeps
  <2> QED
    BY <1>3, <2>2, <2>3 DEF Reuse
<1>4. CASE Return(a)
  <2>1. At(a, "idle", Blank) /\ KnowsAt(a, "idle", Blank)
    BY <1>4, ReturnAt, IdleKnows DEF Inv
  <2>2. CASE UNCHANGED <<lease, owned>>
    BY <1>1, <2>1, <2>2, NothingOwned, QuietKeeps DEF Inv, cache
  <2>3. CASE Owns(a, d) /\ Released(a, d) /\ Kill(a, d)
    BY <1>1, <2>1, <2>3, ReleaseKeeps DEF Plain
  <2> QED
    BY <1>4, <2>2, <2>3 DEF Reuse
<1> QED
  BY <1>3, <1>4 DEF Reuse

LEMMA ReapKeeps ==
  ASSUME Inv, NEW a \in Apps, Reap(a) \/ Quit(a)
  PROVE  Inv'
<1> DEFINE d == local[a].drive
<1>1. d \in Drives /\ Owns(a, d)
  BY OwningKnows DEF Reap, Quit, Owning
<1>2. StoresTyped /\ UNCHANGED <<unsent, seen>>
  BY SameStores DEF Reap, Quit, Inv
<1>3. CASE Fail(a) /\ UNCHANGED <<marker, lease>> /\ (Kill(a, d) \/ UNCHANGED <<rclone, volume>>)
  <2>1. volume' \in [Apps -> [Drives -> Volumes]]
    BY <1>1, <1>3, KillOwned DEF Inv, TypeOK
  <2> QED
    BY <1>1, <1>2, <1>3, <2>1, FailKeeps DEF cache
<1>4. CASE marker' = Cleared(d) /\ Released(a, d) /\ Kill(a, d) /\ Visited(a, FALSE)
  <2>1. PICK l \in Locals : /\ At(a, "stop", l)
                            /\ l.op = local[a].op /\ l.target = local[a].target
    BY <1>4, VisitedAt DEF Inv
  <2> QED
    BY <1>1, <1>2, <1>4, <2>1, PlainKnows, ReleaseKeeps DEF Plain
<1> QED
  BY <1>3, <1>4 DEF Reap, Quit

\* The marker of a cache nobody has is removed.
LEMMA StopUnownedKeeps ==
  ASSUME Inv, NEW a \in Apps, StopUnowned(a)
  PROVE  Inv'
<1> USE DEF Inv
<1> DEFINE d == local[a].drive
<1>1. d \in Drives /\ StoresTyped /\ UNCHANGED <<unsent, lease, seen, owned>>
  BY SameStores DEF StopUnowned, TypeOK, Locals
<1>2. PICK failure \in BOOLEAN : Visited(a, failure)
  BY DEF StopUnowned
<1>3. PICK l \in Locals : At(a, "stop", l) /\ l.op = local[a].op /\ l.target = local[a].target
  BY <1>2, VisitedAt
<1>4. CASE UNCHANGED marker
  BY <1>1, <1>3, <1>4, PlainKnows, NothingOwned, QuietKeeps DEF Plain, cache
<1>5. CASE lease[d] = None /\ marker' = Cleared(d)
  <2>1. marker' \in [Drives -> Targets \cup {None, "torn"}]
    BY <1>5 DEF Cleared, TypeOK
  <2>2. \A e \in Drives \ {d} : marker'[e] = marker[e]
    BY <1>5 DEF Cleared, TypeOK
  <2>3. CacheTyped /\ OwnedTyped
    BY <1>1, <2>1 DEF CacheTyped, OwnedTyped, owned, TypeOK
  <2>4. Respects(a)
    BY <1>1, <1>5, <2>2, OthersIdle DEF Respects, owned
  <2>5. ~Owns(a, d)
    BY DEF StopUnowned
  <2>6. Serves(a)'
    BY <1>1, <2>2, <2>5 DEF Serves, owned, Owns, Leased
  <2>7. BoundOrTorn'
    BY <1>1, <1>5, <2>2 DEF BoundOrTorn, Cleared, TypeOK
  <2>8. KnowsAt(a, "stop", l)'
    BY <1>3 DEF Knows, KnowsAt, Connecting, Holding, Owning
  <2> QED
    BY <1>1, <1>3, <2>3, <2>4, <2>6, <2>7, <2>8, StepKeeps
<1> QED
  BY <1>4, <1>5 DEF StopUnowned

\* A connection that failed before its mount was registered gives the lease back.
LEMMA UnleaseKeeps ==
  ASSUME Inv, NEW a \in Apps, pc[a] \in Holding, Unlease(a),
         UNCHANGED <<row, marker, unsent, seen, owned, closing>>
  PROVE  Inv'
<1> USE DEF Inv
<1> DEFINE d == local[a].drive
<1>1. d \in Drives /\ Leased(a, d) /\ ~Owns(a, d)
  BY DEF Knows, KnowsAt, Holding, Connecting
<1>2. /\ lease' \in [Drives -> Holders] /\ lease'[d] = None
      /\ \A e \in Drives \ {d} : lease'[e] = lease[e]
  BY <1>1 DEF Unlease, TypeOK, Holders
<1>3. CacheTyped /\ OwnedTyped /\ StoresTyped
  BY <1>2, SameStores DEF CacheTyped, OwnedTyped, owned, TypeOK
<1>4. Respects(a)
  BY <1>1, <1>2, LeasedOnce DEF Respects, owned
<1>5. Serves(a)'
  BY <1>1, <1>2 DEF Serves, owned, Owns, Leased
<1>6. BoundOrTorn'
  BY DEF BoundOrTorn
<1>7. At(a, "idle", Blank) /\ KnowsAt(a, "idle", Blank)'
  BY ReturnAt, BlankType DEF Unlease, KnowsAt, Connecting, Holding, Owning
<1> QED
  BY <1>3, <1>4, <1>5, <1>6, <1>7, StepKeeps

LEMMA TakeLeaseKeeps ==
  ASSUME Inv, NEW a \in Apps, TakeLease(a)
  PROVE  Inv'
<1> USE DEF Inv
<1> DEFINE d == local[a].drive
<1>1. d \in Drives /\ local[a].target \in Targets /\ StoresTyped
  BY SameStores DEF TakeLease, Knows, KnowsAt, Connecting
<1>2. seen' \subseteq Drives /\ UNCHANGED <<marker, unsent, owned>>
  BY <1>1 DEF TakeLease, TypeOK
<1>3. CASE lease[d] = None /\ lease' = [lease EXCEPT ![d] = <<a, "mount">>]
           /\ Goto(a, "bind") /\ UNCHANGED local
  <2>1. /\ lease' \in [Drives -> Holders] /\ lease'[d] = <<a, "mount">>
        /\ \A e \in Drives \ {d} : lease'[e] = lease[e]
    BY <1>1, <1>3 DEF TypeOK, Holders
  <2>2. CacheTyped /\ OwnedTyped
    BY <1>2, <2>1 DEF CacheTyped, OwnedTyped, owned, TypeOK
  <2>3. Respects(a)
    BY <1>1, <1>2, <1>3, <2>1, OthersIdle DEF Respects, owned
  <2>4. Serves(a)'
    <3>1. ASSUME NEW e \in Drives PROVE Owns(a, e) => Leased(a, e)'
      BY <2>1 DEF Serves, Leased
    <3> QED
      BY <1>2, <3>1 DEF Serves, owned, Owns
  <2>5. BoundOrTorn'
    BY <1>2 DEF BoundOrTorn
  <2>6. At(a, "bind", local[a])
    BY <1>3, GotoAt DEF Labels
  <2>7. ~Owns(a, d)
    BY <1>1, <1>3, LeasedOnce DEF Serves
  <2>8. KnowsAt(a, "bind", local[a])'
    BY <1>1, <1>2, <1>3, <2>1, <2>7 DEF Knows, KnowsAt, Owning, owned, Owns, Leased
  <2> QED
    BY <1>1, <1>3, <2>2, <2>3, <2>4, <2>5, <2>6, <2>8, StepKeeps
<1>4. CASE Return(a) /\ UNCHANGED lease
  <2>1. CacheTyped /\ OwnedTyped
    BY <1>2, <1>4 DEF CacheTyped, OwnedTyped, owned, TypeOK
  <2>2. Respects(a) /\ BoundOrTorn'
    BY <1>2, <1>4 DEF Respects, BoundOrTorn, owned
  <2>3. Serves(a)'
    BY <1>2, <1>4 DEF Serves, owned, Owns, Leased
  <2>4. At(a, "idle", Blank) /\ KnowsAt(a, "idle", Blank)'
    BY <1>4, ReturnAt, BlankType DEF KnowsAt, Connecting, Holding, Owning
  <2> QED
    BY <1>1, <2>1, <2>2, <2>3, <2>4, StepKeeps
<1> QED
  BY <1>3, <1>4 DEF TakeLease, MayLease

\* The marker of a cache that is held is rewritten.
LEMMA MarkKeeps ==
  ASSUME Inv, NEW a \in Apps, pc[a] \in Holding,
         NEW mark \in Targets \cup {"torn"}, NEW label \in {"write", "launch"},
         marker' = [marker EXCEPT ![local[a].drive] = mark],
         label = "launch" => mark = local[a].target,
         unsent[local[a].drive] \in {None, local[a].target},
         mark \in {"torn", local[a].target},
         Goto(a, label), UNCHANGED <<local, row, unsent, lease, seen, owned, closing>>
  PROVE  Inv'
<1> USE DEF Inv
<1> DEFINE d == local[a].drive
<1>1. d \in Drives /\ local[a].target \in Targets /\ Leased(a, d) /\ ~Owns(a, d)
  BY DEF Knows, KnowsAt, Holding, Connecting
<1>2. /\ marker' \in [Drives -> Targets \cup {None, "torn"}] /\ marker'[d] = mark
      /\ \A e \in Drives \ {d} : marker'[e] = marker[e]
  BY <1>1 DEF TypeOK
<1>3. CacheTyped /\ OwnedTyped /\ StoresTyped
  BY <1>2, SameStores DEF CacheTyped, OwnedTyped, owned, TypeOK
<1>4. Respects(a)
  BY <1>1, <1>2, LeasedOnce DEF Respects, owned
<1>5. Serves(a)'
  BY <1>1, <1>2 DEF Serves, owned, Owns, Leased
<1>6. BoundOrTorn'
  BY <1>1, <1>2 DEF BoundOrTorn
<1>7. At(a, label, local[a])
  BY GotoAt DEF Labels
<1>8. KnowsAt(a, label, local[a])'
  BY <1>1, <1>2 DEF Knows, KnowsAt, Owning, owned, Owns, Leased
<1> QED
  BY <1>3, <1>4, <1>5, <1>6, <1>7, <1>8, StepKeeps

LEMMA BindKeeps ==
  ASSUME Inv, NEW a \in Apps, Bind(a)
  PROVE  Inv'
<1> DEFINE d == local[a].drive
<1>1. pc[a] \in Holding /\ UNCHANGED <<row, unsent, seen, owned, closing>>
  BY DEF Bind, Holding
<1>2. CASE Unlease(a) /\ UNCHANGED marker
  BY <1>1, <1>2, UnleaseKeeps
<1>3. CASE /\ marker[d] \in {None, local[a].target}
           /\ marker' = [marker EXCEPT ![d] = "torn"]
           /\ Goto(a, "write") /\ UNCHANGED <<local, lease>>
  <2>1. d \in Drives /\ local[a].target \in Targets
    BY <1>1 DEF Inv, Knows, KnowsAt, Holding, Connecting
  <2>2. unsent[d] \in {None, local[a].target}
    BY <1>3, <2>1, DriveMountAssumption DEF Inv, BoundOrTorn, TypeOK
  <2> QED
    BY <1>1, <1>3, <2>2, MarkKeeps
<1> QED
  BY <1>2, <1>3 DEF Bind, Bindable

LEMMA WriteKeeps ==
  ASSUME Inv, NEW a \in Apps, Write(a)
  PROVE  Inv'
<1> DEFINE d == local[a].drive
<1>1. pc[a] \in Holding /\ UNCHANGED <<row, unsent, seen, owned, closing>>
  BY DEF Write, Holding
<1>2. CASE Unlease(a) /\ UNCHANGED marker
  BY <1>1, <1>2, UnleaseKeeps
<1>3. CASE /\ marker' = [marker EXCEPT ![d] = local[a].target]
           /\ Goto(a, "launch") /\ UNCHANGED <<local, lease>>
  <2>1. local[a].target \in Targets /\ unsent[d] \in {None, local[a].target}
    BY DEF Write, Inv, Knows, KnowsAt, Connecting
  <2> QED
    BY <1>1, <1>3, <2>1, MarkKeeps
<1> QED
  BY <1>2, <1>3 DEF Write, Binding

LEMMA LaunchKeeps ==
  ASSUME Inv, NEW a \in Apps, Launch(a)
  PROVE  Inv'
<1> USE DEF Inv
<1> DEFINE d == local[a].drive
           m == [state |-> "connecting", mounted |-> FALSE]
<1>1. UNCHANGED <<row, marker, unsent, seen, volume, closing>> /\ pc[a] \in Holding
  BY DEF Launch, Holding
<1>2. CASE Unlease(a) /\ UNCHANGED <<rclone, mount>>
  BY <1>1, <1>2, UnleaseKeeps DEF owned
<1>3. CASE /\ rclone' = [rclone EXCEPT ![a][d] = local[a].target]
           /\ mount' = [mount EXCEPT ![a][d] = m]
           /\ Goto(a, "wait") /\ UNCHANGED <<local, lease>>
  <2>1. /\ d \in Drives /\ local[a].target \in Targets /\ Leased(a, d) /\ ~Owns(a, d)
        /\ marker[d] = local[a].target
    BY DEF Launch, Knows, KnowsAt, Holding, Connecting
  <2>2. m \in MountSet /\ m # NoMount
    BY DEF MountSet, NoMount, States
  <2> HIDE DEF m
  <2>3. mount' \in [Apps -> [Drives -> MountSet]] /\ \A b \in Apps \ {a} : mount'[b] = mount[b]
    BY <1>3, <2>1, <2>2 DEF TypeOK
  <2>4. \A e \in Drives : mount'[a][e] = IF e = d THEN m ELSE mount[a][e]
    BY <1>3, <2>1 DEF TypeOK
  <2>5. /\ rclone' \in [Apps -> [Drives -> Targets \cup {None}]]
        /\ \A b \in Apps \ {a} : rclone'[b] = rclone[b]
        /\ \A e \in Drives : rclone'[a][e] = IF e = d THEN local[a].target ELSE rclone[a][e]
    BY <1>3, <2>1 DEF TypeOK
  <2>6. CacheTyped /\ OwnedTyped /\ StoresTyped
    BY <1>1, <1>3, <2>3, <2>5, SameStores DEF CacheTyped, OwnedTyped, TypeOK
  <2>7. Respects(a)
    BY <1>1, <1>3, <2>3, <2>5 DEF Respects
  <2>8. \A e \in Drives : Owns(a, e)' <=> e = d \/ Owns(a, e)
    BY <2>2, <2>4 DEF Owns
  <2>9. ASSUME NEW e \in Drives
        PROVE  /\ Owns(a, e)' => Leased(a, e)'
               /\ rclone'[a][e] # None => Owns(a, e)' /\ rclone'[a][e] = marker'[e]
    BY <1>1, <1>3, <2>1, <2>5, <2>8 DEF Serves, Leased
  <2>10. Serves(a)' /\ BoundOrTorn'
    BY <1>1, <2>9 DEF Serves, BoundOrTorn
  <2>11. At(a, "wait", local[a])
    BY <1>3, GotoAt DEF Labels
  <2>12. KnowsAt(a, "wait", local[a])'
    BY <1>3, <2>1, <2>8 DEF Knows, KnowsAt, Connecting, Holding
  <2> QED
    BY <1>3, <2>6, <2>7, <2>10, <2>11, <2>12, StepKeeps
<1> QED
  BY <1>2, <1>3 DEF Launch

-----------------------------------------------------------------------------
(* Looks at a free cache, ends, and the environment *)

\* Applications go on where they are.
LEMMA StandKeeps ==
  ASSUME Inv, NEW a \in Apps, UNCHANGED <<pc, local, row, closing>>, CacheTyped, OwnedTyped,
         Respects(a), Serves(a)', BoundOrTorn', Knows(a)'
  PROVE  Inv'
<1>1. At(a, pc[a], local[a]) /\ StoresTyped
  BY StayAt, SameStores DEF Inv
<1>2. KnowsAt(a, pc[a], local[a])'
  BY DEF Knows
<1> QED
  BY <1>1, <1>2, StepKeeps

LEMMA LookKeeps ==
  ASSUME Inv, NEW a \in Apps, NEW d \in Drives, Look(a, d) \/ Looked(a, d)
  PROVE  Inv'
<1> USE DEF Inv
<1>1. /\ UNCHANGED <<row, marker, unsent, seen, owned, closing, pc, local>>
      /\ UNCHANGED <<pc, local, row, closing>>
  BY DEF Look, Looked
<1>2. /\ lease' \in [Drives -> Holders]
      /\ \A e \in Drives \ {d} : lease'[e] = lease[e]
  <2>1. PICK h \in Holders : lease' = [lease EXCEPT ![d] = h]
    BY DEF Look, Looked, Holders
  <2> QED
    BY <2>1 DEF TypeOK
<1>3. \A b \in Apps : ~Leased(b, d)
  BY DriveMountAssumption DEF Look, Looked, Leased
<1>4. CacheTyped /\ OwnedTyped
  BY <1>1, <1>2 DEF CacheTyped, OwnedTyped, owned, TypeOK
<1>5. Respects(a) /\ BoundOrTorn'
  BY <1>1, <1>2, <1>3 DEF Respects, BoundOrTorn, owned
<1>6. Serves(a)'
  BY <1>1, <1>2, <1>3 DEF Serves, owned, Owns, Leased
<1>7. Knows(a)'
  BY <1>1, <1>2, <1>3 DEF Knows, KnowsAt, Holding, Connecting, Owning, owned, Owns, Leased
<1> QED
  BY <1>1, <1>4, <1>5, <1>6, <1>7, StandKeeps

LEMMA VolumeKeeps ==
  ASSUME Inv, NEW a \in Apps, NEW d \in Drives, RcloneMounts(a, d) \/ VolumeGone(a, d)
  PROVE  Inv'
<1>1. volume' \in [Apps -> [Drives -> Volumes]]
  <2>1. PICK v \in Volumes : volume' = [volume EXCEPT ![a][d] = v]
    BY DEF RcloneMounts, VolumeGone, Volumes
  <2> QED
    BY <2>1 DEF Inv, TypeOK
<1>2. SameOwned(a)
  BY <1>1 DEF RcloneMounts, VolumeGone, SameOwned, OwnedTyped, Owns, Inv, TypeOK
<1>3. At(a, pc[a], local[a]) /\ StoresTyped /\ UNCHANGED cache
  BY StayAt, SameStores DEF RcloneMounts, VolumeGone, Inv
<1> QED
  BY <1>2, <1>3, QuietKeeps DEF Inv, Knows

LEMMA RcloneDiesKeeps ==
  ASSUME Inv, NEW a \in Apps, NEW d \in Drives, RcloneDies(a, d)
  PROVE  Inv'
<1>1. SameOwned(a)
  BY KillOwned DEF RcloneDies, SameOwned, OwnedTyped, Owns, Inv, TypeOK
<1>2. At(a, pc[a], local[a]) /\ StoresTyped /\ UNCHANGED cache
  BY StayAt, SameStores DEF RcloneDies, Inv
<1> QED
  BY <1>1, <1>2, QuietKeeps DEF Inv, Knows

\* Only a child that serves the drive writes to its cache or sends from it.
LEMMA UnsentKeeps ==
  ASSUME Inv, NEW a \in Apps, NEW d \in Drives, WriterWrites(a, d) \/ Upload(a, d)
  PROVE  Inv'
<1> USE DEF Inv
<1>1. /\ UNCHANGED <<row, marker, lease, seen, owned, closing, pc, local>>
      /\ UNCHANGED <<pc, local, row, closing>>
      /\ rclone[a][d] # None /\ unsent' \in {[unsent EXCEPT ![d] = rclone[a][d]],
                                             [unsent EXCEPT ![d] = None]}
  BY DEF WriterWrites, Upload
<1>2. Owns(a, d) /\ Leased(a, d) /\ rclone[a][d] = marker[d] /\ rclone[a][d] \in Targets
  BY <1>1 DEF Serves, TypeOK
<1>3. /\ unsent' \in [Drives -> Targets \cup {None}] /\ unsent'[d] \in {marker[d], None}
      /\ \A e \in Drives \ {d} : unsent'[e] = unsent[e]
  BY <1>1, <1>2 DEF TypeOK
<1>4. CacheTyped /\ OwnedTyped
  BY <1>1, <1>3 DEF CacheTyped, OwnedTyped, owned, TypeOK
<1>5. Respects(a)
  BY <1>1, <1>2, <1>3, LeasedOnce DEF Respects, owned
<1>6. Serves(a)'
  BY <1>1 DEF Serves, owned, Owns, Leased
<1>7. BoundOrTorn'
  BY <1>1, <1>3 DEF BoundOrTorn
<1>8. Knows(a)'
  BY <1>1, <1>2, <1>3 DEF Knows, KnowsAt, Holding, Connecting, Owning, owned, Owns, Leased
<1> QED
  BY <1>1, <1>4, <1>5, <1>6, <1>7, <1>8, StandKeeps

LEMMA EndsKeeps ==
  ASSUME Inv, NEW a \in Apps, Ends(a)
  PROVE  Inv'
<1> USE DEF Inv
<1>1. UNCHANGED <<row, marker, unsent, seen>>
  BY DEF Ends
<1>2. /\ mount' \in [Apps -> [Drives -> MountSet]]
      /\ \A b \in Apps \ {a} : mount'[b] = mount[b]
      /\ \A d \in Drives : mount'[a][d] = NoMount
  BY DEF Ends, TypeOK, MountSet
<1>3. /\ rclone' \in [Apps -> [Drives -> Targets \cup {None}]]
      /\ \A b \in Apps \ {a} : rclone'[b] = rclone[b]
      /\ \A d \in Drives : rclone'[a][d] = None
  BY DEF Ends, TypeOK
<1>4. volume' \in [Apps -> [Drives -> Volumes]]
  <2>1. \A d \in Drives : Orphan(volume[a][d]) \in Volumes
    BY DEF TypeOK, Orphan, Volumes
  <2>2. [d \in Drives |-> Orphan(volume[a][d])] \in [Drives -> Volumes]
    BY <2>1
  <2> QED
    BY <2>2 DEF Ends, TypeOK
<1>5. lease' \in [Drives -> Holders] /\ \A d \in Drives : lease'[d] \in {lease[d], None}
  BY DEF Ends, TypeOK, Holders
<1>6. \A b \in Apps \ {a}, d \in Drives : Leased(b, d) => lease'[d] = lease[d]
  BY DEF Ends, Leased
<1>7. CacheTyped /\ OwnedTyped
  BY <1>1, <1>2, <1>3, <1>4, <1>5 DEF CacheTyped, OwnedTyped, TypeOK
<1>8. StoresTyped
  BY DEF Ends, StoresTyped, TypeOK
<1>9. Respects(a) /\ Serves(a)' /\ BoundOrTorn'
  BY <1>1, <1>2, <1>3, <1>6 DEF Respects, Serves, BoundOrTorn, Owns
<1>10. At(a, "idle", Blank) /\ KnowsAt(a, "idle", Blank)'
  BY ReturnAt, BlankType DEF Ends, KnowsAt, Connecting, Holding, Owning
<1> QED
  BY <1>7, <1>8, <1>9, <1>10, StepKeeps

-----------------------------------------------------------------------------
(* The theorems *)

LEMMA InitInv == Init => Inv
<1> SUFFICES ASSUME Init PROVE Inv
  OBVIOUS
<1>1. NoMount \in MountSet /\ "none" \in Volumes /\ "idle" \in Labels /\ None \in Holders
  BY DEF MountSet, Volumes, Labels, Holders
<1>2. TypeOK
  BY <1>1, BlankType DEF Init, TypeOK
<1>3. BoundOrTorn /\ \A a \in Apps : Serves(a)
  BY DEF Init, BoundOrTorn, Serves, Owns
<1>4. \A a \in Apps : Knows(a)
  BY IdleKnows DEF Init, Knows
<1> QED
  BY <1>2, <1>3, <1>4 DEF Inv

LEMMA NextInv == Inv /\ [Next]_vars => Inv'
<1> SUFFICES ASSUME Inv, [Next]_vars PROVE Inv'
  OBVIOUS
<1>1. ASSUME NEW a \in Apps, Step(a) PROVE Inv'
  <2>1. CASE Reuse(a) \/ TakeLease(a) \/ Bind(a) \/ Write(a) \/ Launch(a) \/ Await(a) \/ Mounting(a)
    BY <2>1, ReuseKeeps, TakeLeaseKeeps, BindKeeps, WriteKeeps, LaunchKeeps, AwaitKeeps,
       MountingKeeps
  <2>2. CASE Stop(a) \/ StopUnowned(a) \/ StopFailed(a) \/ Reap(a) \/ StopMounted(a)
    BY <2>2, StopKeeps, StopUnownedKeeps, StopFailedKeeps, ReapKeeps, StopMountedKeeps
  <2>3. CASE Drain(a) \/ Unmount(a) \/ Removal(a) \/ Quit(a)
    BY <2>3, DrainKeeps, UnmountKeeps, ReapKeeps
  <2>4. CASE Stopped(a) \/ Check(a) \/ Store(a)
    BY <2>4, StoppedKeeps, CheckKeeps, StoreKeeps
  <2> QED
    BY <1>1, <2>1, <2>2, <2>3, <2>4 DEF Step
<1>2. ASSUME NEW a \in Apps, NEW d \in Drives, Environment(a, d) PROVE Inv'
  BY <1>2, LookKeeps, VolumeKeeps, RcloneDiesKeeps, UnsentKeeps DEF Environment
<1>3. CASE UNCHANGED vars
  BY <1>3 DEF vars, cache, owned, Inv, TypeOK, BoundOrTorn, Serves, Knows, KnowsAt, Owns, Leased
<1> QED
  BY <1>1, <1>2, <1>3, EnterKeeps, EndsKeeps DEF Next

LEMMA Invariance == Spec => []Inv
  BY InitInv, NextInv, PTL DEF Spec

\* Every state is well typed.
THEOREM DriveTypeCorrect == Spec => []TypeOK
<1>1. Inv => TypeOK
  BY DEF Inv
<1> QED
  BY <1>1, Invariance, PTL

\* Two rclone processes never work on one cache: whose child runs has the mount,
\* who has the mount has the lease, and connect takes it before anything else.
THEOREM CacheHasOneOwner == Spec => []OneOwner
<1>1. Inv => OneOwner
  BY OthersIdle DEF Inv, OneOwner, Serves
<1> QED
  BY <1>1, Invariance, PTL

\* Unsent files keep their binding: the marker goes only from a cache that has
\* none, and is rewritten only for the target it names.
THEOREM BindingSurvives == Spec => []BoundOrTorn
<1>1. Inv => BoundOrTorn
  BY DEF Inv
<1> QED
  BY <1>1, Invariance, PTL

\* Files written for one target are never sent to another one, whatever
\* applications edit, connect, crash and restart.
THEOREM SendsWhereWritten == Spec => []UploadsWhereWritten
<1>1. Inv => UploadsWhereWritten
  BY DriveMountAssumption DEF Inv, UploadsWhereWritten, BoundOrTorn, Serves, TypeOK
<1> QED
  BY <1>1, Invariance, PTL

\* Both together: the property of the runs.
THEOREM UnsentFilesSurvive == Spec => []UnsentStaysBound
<1> QED
  BY BindingSurvives, SendsWhereWritten, PTL DEF UnsentStaysBound
-----------------------------------------------------------------------------
(* What a mount looks like while it is made and unmade *)

\* A connected drive that has its child is there; a call that makes or unmakes a
\* mount finds it in the state it has put it in; and once the file system was told
\* to go, it does not come back.
Making == {"wait", "mounting"}
Ending == {"reap", "drain", "unmount", "removal", "quit"}
SteadyAt(a, label, l) ==
  /\ label \in Making => mount[a][l.drive].state = "connecting"
  /\ label \in Ending => mount[a][l.drive].state = "disconnecting"
  /\ label = "removal" => volume[a][l.drive] \in {"none", "going"}
  /\ label = "quit" => volume[a][l.drive] = "none"
Steady(a) ==
  /\ \A d \in Drives : mount[a][d].state = "connected" /\ rclone[a][d] # None => volume[a][d] = "up"
  /\ SteadyAt(a, pc[a], local[a])
AllSteady == \A a \in Apps : Steady(a)

\* An application that has not done anything.
Fresh(a) == pc[a] = "idle" /\ ~closing[a] /\ \A d \in Drives : ~Owns(a, d)

\* What an application knows that is the only one to have done anything: its drives
\* are as they were saved, what it is about to change is clean, and a shutdown has
\* still to visit what is mounted.
Clean(a, d) == ~Owns(a, d) /\ unsent[d] = None
Concerns(l, d) == IF l.op = "profile" THEN Saved(d) ELSE d \in l.goal
SoleAt(a, label, l) ==
  /\ label \in Connecting => l.target = row[l.drive]
  /\ label \in Connecting \cup Making => ~closing[a]
  /\ label \in {"check", "store"} =>
       /\ l.op \in {"save", "delete", "profile"}
       /\ \A d \in Drives : Concerns(l, d) => d \in l.todo \/ Clean(a, d)
  /\ label = "store" => l.todo = {}
  /\ l.op = "shutdown" => closing[a]
  /\ closing[a] =>
       \/ \A d \in Drives : ~Owns(a, d)
       \/ /\ l.op = "shutdown" /\ label # "idle"
          /\ l.failed \/ \A d \in Drives : Owns(a, d) => d \in l.todo
AsSaved(a) == \A d \in Drives :
  /\ Owns(a, d) => Saved(d)
  /\ rclone[a][d] # None => rclone[a][d] = row[d]
  /\ unsent[d] # None => unsent[d] = row[d]
Sole(a) == AsSaved(a) /\ SoleAt(a, pc[a], local[a])

Lonely ==
  /\ \A a \in Apps \ acted : Fresh(a)
  /\ \A a \in Apps : acted \subseteq {a} => Sole(a)

\* What a step of application a keeps.
Held(a) ==
  /\ AllSteady'
  /\ Sole(a) => Sole(a)'
  /\ \A b \in Apps \ {a} : pc'[b] = pc[b] /\ (Fresh(b) => Fresh(b)')

-----------------------------------------------------------------------------
(* A step of an application changes one of its mounts *)

MountIs(a, d, m) == \A b \in Apps, e \in Drives :
  mount'[b][e] = IF b = a /\ e = d THEN m ELSE mount[b][e]
ChildIs(a, d, r) == \A b \in Apps, e \in Drives :
  rclone'[b][e] = IF b = a /\ e = d THEN r ELSE rclone[b][e]
VolumeIs(a, d, v) == \A b \in Apps, e \in Drives :
  volume'[b][e] = IF b = a /\ e = d THEN v ELSE volume[b][e]

LEMMA Unmoved ==
  ASSUME NEW a \in Apps, NEW d \in Drives
  PROVE  /\ UNCHANGED mount => MountIs(a, d, mount[a][d])
         /\ UNCHANGED rclone => ChildIs(a, d, rclone[a][d])
         /\ UNCHANGED volume => VolumeIs(a, d, volume[a][d])
  BY DEF MountIs, ChildIs, VolumeIs

\* One entry of a table of tables is written.
LEMMA Entry ==
  ASSUME NEW f, NEW V, f \in [Apps -> [Drives -> V]], NEW a \in Apps, NEW d \in Drives, NEW v
  PROVE  \A b \in Apps, e \in Drives :
           [f EXCEPT ![a][d] = v][b][e] = IF b = a /\ e = d THEN v ELSE f[b][e]
  OBVIOUS

LEMMA KillIs ==
  ASSUME TypeOK, NEW a \in Apps, NEW d \in Drives, Kill(a, d)
  PROVE  ChildIs(a, d, None) /\ VolumeIs(a, d, Orphan(volume[a][d]))
<1>1. ChildIs(a, d, None)
  BY DEF Kill, ChildIs, TypeOK
<1>2. VolumeIs(a, d, Orphan(volume[a][d]))
  <2>1. volume' = [volume EXCEPT ![a][d] = Orphan(volume[a][d])]
    BY DEF Kill, TypeOK
  <2> QED
    BY <2>1, Entry DEF VolumeIs, TypeOK
<1> QED
  BY <1>1, <1>2

LEMMA ReleasedIs ==
  ASSUME TypeOK, NEW a \in Apps, NEW d \in Drives, Released(a, d)
  PROVE  MountIs(a, d, NoMount)
  BY DEF Released, MountIs, TypeOK

LEMMA SetStateIs ==
  ASSUME TypeOK, NEW a \in Apps, NEW d \in Drives, NEW state, SetState(a, d, state)
  PROVE  \E m : MountIs(a, d, m) /\ m.state = state
<1> DEFINE m == [mount[a][d] EXCEPT !.state = state]
<1>1. mount' = [mount EXCEPT ![a][d] = m]
  BY DEF SetState, TypeOK
<1>2. m.state = state
  BY DEF TypeOK, MountSet, NoMount
<1> HIDE DEF m
<1>3. MountIs(a, d, m)
  BY <1>1, Entry DEF MountIs, TypeOK
<1> QED
  BY <1>2, <1>3

LEMMA SetMountedIs ==
  ASSUME TypeOK, NEW a \in Apps, NEW d \in Drives, NEW mounted \in BOOLEAN, SetMounted(a, d, mounted)
  PROVE  \E m : MountIs(a, d, m) /\ m.state = mount[a][d].state
<1> DEFINE m == [mount[a][d] EXCEPT !.mounted = mounted]
<1>1. mount' = [mount EXCEPT ![a][d] = m]
  BY DEF SetMounted, TypeOK
<1>2. m.state = mount[a][d].state
  BY DEF TypeOK, MountSet, NoMount
<1> HIDE DEF m
<1>3. MountIs(a, d, m)
  BY <1>1, Entry DEF MountIs, TypeOK
<1> QED
  BY <1>2, <1>3

\* What is written into the mount of drive d by a step to (label, l).
LEMMA MoveHolds ==
  ASSUME Inv, AllSteady, NEW a \in Apps, NEW d \in Drives, NEW label, NEW l, At(a, label, l),
         NEW m, NEW r, NEW v, MountIs(a, d, m), ChildIs(a, d, r), VolumeIs(a, d, v),
         m.state = "connected" /\ r # None => v = "up",
         \/ l.drive = d
         \/ label \notin Making \cup Ending
         \/ l.drive \in Drives /\ label = pc[a] /\ l = local[a],
         label \in Making /\ l.drive = d => m.state = "connecting",
         label \in Ending /\ l.drive = d => m.state = "disconnecting",
         label = "removal" /\ l.drive = d => v \in {"none", "going"},
         label = "quit" /\ l.drive = d => v = "none",
         \A b \in Apps \ {a} : closing'[b] = closing[b],
         Sole(a) => Sole(a)'
  PROVE  Held(a)
<1>1. ASSUME NEW b \in Apps \ {a}
      PROVE  Steady(b)' /\ pc'[b] = pc[b] /\ (Fresh(b) => Fresh(b)')
  <2>1. /\ pc'[b] = pc[b] /\ local'[b] = local[b]
        /\ \A e \in Drives : /\ mount'[b][e] = mount[b][e] /\ rclone'[b][e] = rclone[b][e]
                             /\ volume'[b][e] = volume[b][e]
    BY DEF At, MountIs, ChildIs, VolumeIs
  <2>2. pc[b] \in Making \cup Ending => local[b].drive \in Drives
    BY DEF Inv, Knows, KnowsAt, Owning, Making, Ending
  <2>3. Steady(b)'
    BY <2>1, <2>2 DEF AllSteady, Steady, SteadyAt, Ending
  <2> QED
    BY <2>1, <2>3 DEF Fresh, Owns
<1>2. Steady(a)'
  <2>1. pc'[a] = label /\ local'[a] = l
    BY DEF At
  <2>2. /\ mount'[a][d] = m /\ rclone'[a][d] = r /\ volume'[a][d] = v
        /\ \A e \in Drives \ {d} : /\ mount'[a][e] = mount[a][e] /\ rclone'[a][e] = rclone[a][e]
                                   /\ volume'[a][e] = volume[a][e]
    BY DEF MountIs, ChildIs, VolumeIs
  <2>3. SteadyAt(a, label, l)'
    <3>1. CASE l.drive = d
      BY <2>2, <3>1 DEF SteadyAt, Ending
    <3>2. CASE label \notin Making \cup Ending
      BY <3>2 DEF SteadyAt, Ending
    <3>3. CASE l.drive \in Drives \ {d} /\ label = pc[a] /\ l = local[a]
      BY <2>2, <3>3 DEF AllSteady, Steady, SteadyAt
    <3> QED
      BY <3>1, <3>2, <3>3
  <2>4. \A e \in Drives :
          mount'[a][e].state = "connected" /\ rclone'[a][e] # None => volume'[a][e] = "up"
    BY <2>2 DEF AllSteady, Steady
  <2> QED
    BY <2>1, <2>3, <2>4 DEF Steady, SteadyAt
<1> QED
  BY <1>1, <1>2 DEF Held, AllSteady
\* Nothing is mounted or unmounted.
LEMMA StillHolds ==
  ASSUME Inv, AllSteady, NEW a \in Apps, NEW label, NEW l, At(a, label, l), UNCHANGED owned,
         SteadyAt(a, label, l), \A b \in Apps \ {a} : closing'[b] = closing[b],
         Sole(a) => Sole(a)'
  PROVE  Held(a)
<1>1. ASSUME NEW b \in Apps \ {a}
      PROVE  Steady(b)' /\ pc'[b] = pc[b] /\ (Fresh(b) => Fresh(b)')
  <2>1. pc'[b] = pc[b] /\ local'[b] = local[b]
    BY DEF At
  <2> QED
    BY <2>1 DEF AllSteady, Steady, SteadyAt, owned, Fresh, Owns
<1>2. Steady(a)'
  <2>1. pc'[a] = label /\ local'[a] = l
    BY DEF At
  <2> QED
    BY <2>1 DEF AllSteady, Steady, SteadyAt, owned
<1> QED
  BY <1>1, <1>2 DEF Held, AllSteady

LEMMA StillSole ==
  ASSUME NEW a \in Apps, NEW label, NEW l, At(a, label, l),
         UNCHANGED <<owned, row, unsent, closing>>, Sole(a), SoleAt(a, label, l)
  PROVE  Sole(a)'
<1>1. pc'[a] = label /\ local'[a] = l
  BY DEF At
<1>2. AsSaved(a)'
  BY DEF Sole, AsSaved, owned, Owns, Saved
<1>3. SoleAt(a, label, l)'
  BY DEF SoleAt, owned, Owns, Concerns, Saved, Clean
<1> QED
  BY <1>1, <1>2, <1>3 DEF Sole, SoleAt

\* The call ends, and nothing else happens.
LEMMA ReturnHolds ==
  ASSUME Inv, AllSteady, NEW a \in Apps, Return(a), UNCHANGED <<owned, row, unsent, closing>>,
         Sole(a) /\ closing[a] => \A d \in Drives : ~Owns(a, d)
  PROVE  Held(a)
<1>1. At(a, "idle", Blank)
  BY ReturnAt DEF Inv
<1>2. SteadyAt(a, "idle", Blank)
  BY DEF SteadyAt, Making, Ending
<1>3. Sole(a) => SoleAt(a, "idle", Blank)
  BY BlankType DEF SoleAt, Connecting, Making
<1>4. \A b \in Apps \ {a} : closing'[b] = closing[b]
  OBVIOUS
<1>5. UNCHANGED owned /\ UNCHANGED <<owned, row, unsent, closing>>
  OBVIOUS
<1> QED
  BY <1>1, <1>2, <1>3, <1>4, <1>5, StillHolds, StillSole

\* A mount is changed or given up, by a call that then is at (label, l).
LEMMA CalmSole ==
  ASSUME NEW a \in Apps, NEW d \in Drives, NEW label, NEW l, At(a, label, l),
         NEW m, NEW r, MountIs(a, d, m), ChildIs(a, d, r),
         m = NoMount \/ Owns(a, d), r \in {rclone[a][d], None},
         UNCHANGED <<row, unsent, closing>>, Sole(a), SoleAt(a, label, l)
  PROVE  Sole(a)'
<1>1. pc'[a] = label /\ local'[a] = l
  BY DEF At
<1>2. \A e \in Drives : /\ Owns(a, e)' => Owns(a, e)
                        /\ rclone'[a][e] \in {rclone[a][e], None}
  BY DEF MountIs, ChildIs, Owns
<1>3. AsSaved(a)'
  BY <1>2 DEF Sole, AsSaved, Saved
<1>4. SoleAt(a, label, l)'
  BY <1>2 DEF SoleAt, Concerns, Saved, Clean
<1> QED
  BY <1>1, <1>3, <1>4 DEF Sole, SoleAt

LEMMA VisitedIs ==
  ASSUME TypeOK, NEW a \in Apps, NEW failure \in BOOLEAN, Visited(a, failure)
  PROVE  \E l : /\ At(a, "stop", l) /\ l.op = local[a].op
                /\ l.todo = local[a].todo \ {local[a].drive}
                /\ l.failed = (local[a].failed \/ failure)
<1> DEFINE l == [local[a] EXCEPT !.todo = @ \ {local[a].drive}, !.drive = None,
                                 !.failed = @ \/ failure]
<1>1. local[a] \in Locals
  BY DEF TypeOK
<1>2. l \in Locals /\ l.op = local[a].op /\ l.todo = local[a].todo \ {local[a].drive}
  BY <1>1 DEF Locals
<1>3. l.failed = (local[a].failed \/ failure)
  BY <1>1 DEF Locals
<1>4. local' = [local EXCEPT ![a] = l]
  BY <1>1 DEF Visited, TypeOK, Locals
<1> HIDE DEF l
<1>5. At(a, "stop", l)
  BY <1>2, <1>4, MoveAt DEF Visited, Labels
<1> QED
  BY <1>2, <1>3, <1>5

\* The drive could not be stopped: it stays mounted, in the state "error".
LEMMA FailHolds ==
  ASSUME Inv, AllSteady, NEW a \in Apps, pc[a] \in Ending, Fail(a),
         UNCHANGED <<row, unsent, closing>>,
         NEW r \in {rclone[a][local[a].drive], None}, NEW v,
         ChildIs(a, local[a].drive, r), VolumeIs(a, local[a].drive, v)
  PROVE  Held(a)
<1> DEFINE d == local[a].drive
<1>1. d \in Drives /\ Owns(a, d)
  BY OwningKnows DEF Ending, Owning
<1>2. PICK m : MountIs(a, d, m) /\ m.state = "error"
  BY <1>1, SetStateIs DEF Fail, Inv
<1>3. PICK l : /\ At(a, "stop", l) /\ l.op = local[a].op
               /\ l.todo = local[a].todo \ {d} /\ l.failed = (local[a].failed \/ TRUE)
  BY VisitedIs DEF Fail, Inv
<1>4. Sole(a) => SoleAt(a, "stop", l)
  BY <1>3 DEF Sole, SoleAt, Connecting, Making
<1>5. Sole(a) => Sole(a)'
  BY <1>1, <1>2, <1>3, <1>4, CalmSole
<1>6. "stop" \notin Making \cup Ending
  BY DEF Making, Ending
<1>7. \A b \in Apps \ {a} : closing'[b] = closing[b]
  OBVIOUS
<1> QED
  BY <1>1, <1>2, <1>3, <1>5, <1>6, <1>7, MoveHolds

-----------------------------------------------------------------------------
(* Steps that mount and unmount nothing *)

LEMMA QuietHolds ==
  ASSUME Inv, AllSteady, NEW a \in Apps, NEW label \in Labels \ (Making \cup Ending), NEW l,
         At(a, label, l), UNCHANGED <<owned, row, unsent, closing>>,
         Sole(a) => SoleAt(a, label, l)
  PROVE  Held(a)
<1>1. SteadyAt(a, label, l)
  BY DEF SteadyAt, Ending
<1>2. \A b \in Apps \ {a} : closing'[b] = closing[b]
  OBVIOUS
<1>3. UNCHANGED owned /\ UNCHANGED <<owned, row, unsent, closing>>
  OBVIOUS
<1> QED
  BY <1>1, <1>2, <1>3, StillHolds, StillSole

\* A call that connects fails, or goes on.
LEMMA ConnectingHolds ==
  ASSUME Inv, AllSteady, NEW a \in Apps, pc[a] \in Connecting,
         UNCHANGED <<owned, row, unsent, closing>>,
         \/ Return(a)
         \/ \E label \in Connecting : Goto(a, label) /\ UNCHANGED local
  PROVE  Held(a)
<1>1. Sole(a) => ~closing[a]
  BY DEF Sole, SoleAt
<1>2. CASE Return(a)
  BY <1>1, <1>2, ReturnHolds
<1>3. ASSUME NEW label \in Connecting, Goto(a, label), UNCHANGED local PROVE Held(a)
  <2>1. label \in Labels \ (Making \cup Ending) /\ label \notin {"check", "store"}
    BY DEF Connecting, Labels, Making, Ending
  <2>2. At(a, label, local[a])
    BY <1>3, <2>1, GotoAt DEF Inv
  <2>3. Sole(a) => SoleAt(a, label, local[a])
    BY <1>1, <2>1 DEF Sole, SoleAt
  <2> QED
    BY <2>1, <2>2, <2>3, QuietHolds
<1> QED
  BY <1>2, <1>3

LEMMA LeaseHolds ==
  ASSUME Inv, AllSteady, NEW a \in Apps, TakeLease(a) \/ Bind(a) \/ Write(a)
  PROVE  Held(a)
<1>1. pc[a] \in Connecting /\ UNCHANGED <<owned, row, unsent, closing>>
  BY DEF TakeLease, Bind, Write, Connecting
<1>2. Return(a) \/ \E label \in Connecting : Goto(a, label) /\ UNCHANGED local
  BY DEF TakeLease, Bind, Write, Connecting, Unlease
<1> QED
  BY <1>1, <1>2, ConnectingHolds

LEMMA ConnectHolds ==
  ASSUME Inv, AllSteady, NEW a \in Apps, NEW d \in Drives, Connect(a, d)
  PROVE  Held(a)
<1> DEFINE l == [Blank EXCEPT !.op = "connect", !.drive = d, !.target = row[d]]
<1>1. l \in Locals /\ l.drive = d /\ l.target = row[d] /\ l.op = "connect"
  BY DEF Connect, Saved, Blank, Locals, Ops
<1>2. At(a, "connect", l)
  BY <1>1, MoveAt DEF Connect, Inv, Labels
<1>3. SoleAt(a, "connect", l)
  BY <1>1 DEF Connect, SoleAt
<1>4. UNCHANGED <<owned, row, unsent, closing>>
  BY DEF Connect, cache
<1>5. "connect" \in Labels \ (Making \cup Ending)
  BY DEF Labels, Making, Ending
<1> QED
  BY <1>2, <1>3, <1>4, <1>5, QuietHolds

\* Disconnecting and deletions let a shutdown that is over stand.
LEMMA BeginHolds ==
  ASSUME Inv, AllSteady, NEW a \in Apps, NEW op \in Ops \ {"shutdown"},
         NEW drives \in SUBSET Drives, Begin(a, op, drives), UNCHANGED closing
  PROVE  Held(a)
<1> DEFINE l == [Blank EXCEPT !.op = op, !.todo = drives, !.goal = drives]
<1>1. l \in Locals /\ l.op = op
  BY DEF Blank, Locals
<1>2. At(a, "stop", l)
  BY <1>1, MoveAt DEF Begin, Inv, Labels
<1>3. Sole(a) => SoleAt(a, "stop", l)
  BY <1>1 DEF Begin, Sole, SoleAt, Connecting, Making
<1>4. UNCHANGED <<owned, row, unsent, closing>>
  BY DEF Begin, cache
<1>5. "stop" \in Labels \ (Making \cup Ending)
  BY DEF Labels, Making, Ending
<1> QED
  BY <1>2, <1>3, <1>4, <1>5, QuietHolds

\* A shutdown is to visit every saved drive: whatever is mounted is one.
LEMMA ShutdownHolds ==
  ASSUME Inv, AllSteady, NEW a \in Apps, Shutdown(a)
  PROVE  Held(a)
<1>1. PICK l \in Locals : l.op = "shutdown" /\ l.todo = SavedDrives /\ At(a, "stop", l)
  <2> DEFINE l == [Blank EXCEPT !.op = "shutdown", !.todo = SavedDrives, !.goal = SavedDrives]
  <2>1. l \in Locals /\ l.op = "shutdown" /\ l.todo = SavedDrives
    BY DEF Blank, Locals, Ops, SavedDrives
  <2>2. At(a, "stop", l)
    BY <2>1, MoveAt DEF Shutdown, Begin, Inv, Labels
  <2> QED
    BY <2>1, <2>2
<1>2. UNCHANGED <<owned, row, unsent>> /\ UNCHANGED owned
  BY DEF Shutdown, Begin, cache
<1>3. closing'[a] /\ \A b \in Apps \ {a} : closing'[b] = closing[b]
  BY DEF Shutdown, Inv, TypeOK
<1>4. SteadyAt(a, "stop", l)
  BY DEF SteadyAt, Making, Ending
<1>5. Sole(a) => Sole(a)'
  <2> SUFFICES ASSUME Sole(a) PROVE Sole(a)'
    OBVIOUS
  <2>1. AsSaved(a)'
    BY <1>2 DEF Sole, AsSaved, owned, Owns, Saved
  <2>2. \A d \in Drives : Owns(a, d)' => d \in l.todo
    BY <1>1, <1>2 DEF Sole, AsSaved, owned, Owns, SavedDrives
  <2>3. SoleAt(a, "stop", l)'
    BY <1>1, <1>3, <2>2 DEF SoleAt, Connecting, Making
  <2> QED
    BY <1>1, <2>1, <2>3 DEF Sole, At, SoleAt
<1> QED
  BY <1>1, <1>2, <1>3, <1>4, <1>5, StillHolds

\* What is saved now was in nobody's cache.
LEMMA CreateHolds ==
  ASSUME Inv, AllSteady, NEW a \in Apps, NEW d \in Drives, NEW target \in Targets,
         Create(a, d, target)
  PROVE  Held(a)
<1>1. At(a, "idle", local[a])
  BY StayAt DEF Create, Inv
<1>2. SteadyAt(a, "idle", local[a])
  BY DEF SteadyAt, Making, Ending
<1>3. UNCHANGED <<owned, unsent, closing>> /\ UNCHANGED owned
  BY DEF Create, cache
<1>4. row[d] \notin Targets /\ \A e \in Drives : row'[e] = IF e = d THEN target ELSE row[e]
  BY DriveMountAssumption DEF Create, Inv, TypeOK
<1>5. Sole(a) => Sole(a)'
  <2> SUFFICES ASSUME Sole(a) PROVE Sole(a)'
    OBVIOUS
  <2>1. ~Owns(a, d) /\ rclone[a][d] = None /\ unsent[d] = None
    BY <1>4 DEF Sole, AsSaved, Saved, Inv, Serves, TypeOK
  <2>2. \A e \in Drives : Owns(a, e)' = Owns(a, e)
    BY <1>3 DEF owned, Owns
  <2>3. AsSaved(a)'
    BY <1>3, <1>4, <2>1, <2>2 DEF Sole, AsSaved, owned, Saved
  <2>4. SoleAt(a, "idle", local[a])
    BY DEF Sole, Create
  <2>5. SoleAt(a, pc[a], local[a])'
    BY <1>1, <1>3, <2>2, <2>4 DEF SoleAt, At, Connecting, Making
  <2> QED
    BY <2>3, <2>5 DEF Sole
<1>6. \A b \in Apps \ {a} : closing'[b] = closing[b]
  BY <1>3
<1> QED
  BY <1>1, <1>2, <1>3, <1>5, <1>6, StillHolds

LEMMA SaveHolds ==
  ASSUME Inv, AllSteady, NEW a \in Apps, NEW d \in Drives, NEW target \in Targets,
         Save(a, d, target)
  PROVE  Held(a)
<1> DEFINE l == [Blank EXCEPT !.op = "save", !.target = target, !.todo = {d}, !.goal = {d}]
<1>1. l \in Locals /\ l.op = "save" /\ l.todo = {d} /\ l.goal = {d}
  BY DEF Blank, Locals, Ops
<1>2. At(a, "check", l)
  BY <1>1, MoveAt DEF Save, Inv, Labels
<1> HIDE DEF l
<1>3. Sole(a) => SoleAt(a, "check", l)
  BY <1>1 DEF Save, Sole, SoleAt, Connecting, Making, Concerns
<1>4. UNCHANGED <<owned, row, unsent, closing>>
  BY DEF Save, cache
<1>5. "check" \in Labels \ (Making \cup Ending)
  BY DEF Labels, Making, Ending
<1> QED
  BY <1>2, <1>3, <1>4, <1>5, QuietHolds

LEMMA EnterHolds ==
  ASSUME Inv, AllSteady, NEW a \in Apps, Enter(a)
  PROVE  Held(a)
<1>1. ASSUME NEW d \in Drives, Disconnect(a, d) \/ Delete(a, d) PROVE Held(a)
  <2>1. UNCHANGED closing /\ {d} \in SUBSET Drives
    BY <1>1 DEF Disconnect, Delete
  <2>2. \E op \in Ops \ {"shutdown"} : Begin(a, op, {d})
    BY <1>1 DEF Disconnect, Delete, Ops
  <2> QED
    BY <2>1, <2>2, BeginHolds
<1>2. CASE DeleteProfile(a)
  <2>1. SavedDrives \in SUBSET Drives /\ "profile" \in Ops \ {"shutdown"}
    BY DEF SavedDrives, Ops
  <2> QED
    BY <1>2, <2>1, BeginHolds DEF DeleteProfile
<1> QED
  BY <1>1, <1>2, ConnectHolds, CreateHolds, SaveHolds, ShutdownHolds DEF Enter

LEMMA StopHolds ==
  ASSUME Inv, AllSteady, NEW a \in Apps, Stop(a)
  PROVE  Held(a)
<1>1. PICK d \in Drives : local' = [local EXCEPT ![a].drive = d]
  BY DEF Stop, Inv, TypeOK, Locals
<1> DEFINE l == [local[a] EXCEPT !.drive = d]
<1>2. local[a] \in Locals /\ local' = [local EXCEPT ![a] = l]
  BY <1>1 DEF Inv, TypeOK
<1>3. l \in Locals /\ l.op = local[a].op /\ l.todo = local[a].todo /\ l.failed = local[a].failed
  BY <1>2 DEF Locals
<1> HIDE DEF l
<1>4. At(a, "stop", l)
  BY <1>2, <1>3 DEF Stop, At, Inv, TypeOK
<1>5. Sole(a) => SoleAt(a, "stop", l)
  BY <1>3 DEF Stop, Sole, SoleAt, Connecting, Making
<1>6. UNCHANGED <<owned, row, unsent, closing>>
  BY DEF Stop, cache
<1>7. "stop" \in Labels \ (Making \cup Ending)
  BY DEF Labels, Making, Ending
<1> QED
  BY <1>4, <1>5, <1>6, <1>7, QuietHolds

LEMMA StopUnownedHolds ==
  ASSUME Inv, AllSteady, NEW a \in Apps, StopUnowned(a)
  PROVE  Held(a)
<1> DEFINE d == local[a].drive
<1>1. PICK failure \in BOOLEAN : Visited(a, failure)
  BY DEF StopUnowned
<1>2. PICK l : /\ At(a, "stop", l) /\ l.op = local[a].op /\ l.todo = local[a].todo \ {d}
               /\ l.failed = (local[a].failed \/ failure)
  BY <1>1, VisitedIs DEF Inv
<1>3. Sole(a) => SoleAt(a, "stop", l)
  BY <1>2 DEF StopUnowned, Sole, SoleAt, Connecting, Making
<1>4. UNCHANGED <<owned, row, unsent, closing>>
  BY DEF StopUnowned
<1>5. "stop" \in Labels \ (Making \cup Ending)
  BY DEF Labels, Making, Ending
<1> QED
  BY <1>2, <1>3, <1>4, <1>5, QuietHolds

\* A shutdown that has failed lets connections in again; one that has not has
\* visited whatever was mounted.
LEMMA StoppedHolds ==
  ASSUME Inv, AllSteady, NEW a \in Apps, Stopped(a)
  PROVE  Held(a)
<1>1. UNCHANGED <<owned, row, unsent>> /\ UNCHANGED owned /\ local[a] \in Locals
      /\ pc[a] = "stop" /\ local[a].todo = {}
  BY DEF Stopped, cache, Inv, TypeOK
<1>2. CASE Return(a) /\ UNCHANGED closing /\ local[a].op # "shutdown"
  <2>1. Sole(a) /\ closing[a] => \A d \in Drives : ~Owns(a, d)
    BY <1>2 DEF Sole, SoleAt
  <2> QED
    BY <1>1, <1>2, <2>1, ReturnHolds
<1>3. CASE local[a].op = "shutdown" /\ Return(a) /\ closing' = Reopened(a)
  <2>1. At(a, "idle", Blank) /\ SteadyAt(a, "idle", Blank)
    BY <1>3, ReturnAt DEF Inv, SteadyAt, Making, Ending
  <2>2. /\ closing'[a] = ~local[a].failed
        /\ \A b \in Apps \ {a} : closing'[b] = closing[b]
    BY <1>3 DEF Reopened, Inv, TypeOK
  <2>3. Sole(a) => Sole(a)'
    <3> SUFFICES ASSUME Sole(a) PROVE Sole(a)'
      OBVIOUS
    <3>1. AsSaved(a)'
      BY <1>1 DEF Sole, AsSaved, owned, Owns, Saved
    <3>2. ~local[a].failed => \A d \in Drives : ~Owns(a, d)
      BY <1>1, <1>3 DEF Sole, SoleAt
    <3>3. closing'[a] => \A d \in Drives : ~Owns(a, d)'
      BY <1>1, <2>2, <3>2 DEF owned, Owns
    <3>4. SoleAt(a, "idle", Blank)'
      BY <3>3, BlankType DEF SoleAt, Connecting, Making
    <3> QED
      BY <2>1, <3>1, <3>4 DEF Sole, At, SoleAt
  <2> QED
    BY <1>1, <2>1, <2>2, <2>3, StillHolds
<1>4. CASE /\ local[a].op \in {"delete", "profile"} /\ Goto(a, "check") /\ UNCHANGED closing
           /\ local' = [local EXCEPT ![a].todo = IF local[a].op = "profile" THEN SavedDrives
                                                 ELSE local[a].goal]
  <2> DEFINE todo == IF local[a].op = "profile" THEN SavedDrives ELSE local[a].goal
             l == [local[a] EXCEPT !.todo = todo]
  <2>1. todo \in SUBSET Drives
    BY <1>1 DEF Locals, SavedDrives
  <2>2. /\ l \in Locals /\ l.op = local[a].op /\ l.todo = todo /\ l.failed = local[a].failed
        /\ l.goal = local[a].goal /\ local' = [local EXCEPT ![a] = l]
    BY <1>1, <1>4, <2>1 DEF Locals, Inv, TypeOK
  <2> HIDE DEF l
  <2>3. At(a, "check", l)
    BY <1>4, <2>2, MoveAt DEF Inv, Labels
  <2>4. \A d \in Drives : Concerns(l, d) => d \in l.todo
    BY <2>2 DEF Concerns, SavedDrives
  <2>5. Sole(a) => SoleAt(a, "check", l)
    BY <1>1, <1>4, <2>2, <2>4 DEF Sole, SoleAt, Connecting, Making
  <2>6. "check" \in Labels \ (Making \cup Ending) /\ UNCHANGED <<owned, row, unsent, closing>>
    BY <1>1, <1>4 DEF Labels, Making, Ending
  <2> QED
    BY <2>3, <2>5, <2>6, QuietHolds
<1> QED
  BY <1>2, <1>3, <1>4 DEF Stopped

\* What passes the check is clean, and stays so: nobody else is there to connect.
LEMMA CheckHolds ==
  ASSUME Inv, AllSteady, NEW a \in Apps, Check(a)
  PROVE  Held(a)
<1>1. UNCHANGED <<owned, row, unsent, closing>> /\ pc[a] = "check" /\ local[a] \in Locals
  BY DEF Check, cache, Inv, TypeOK
<1>2. CASE Return(a)
  <2>1. Sole(a) /\ closing[a] => \A d \in Drives : ~Owns(a, d)
    BY <1>1 DEF Sole, SoleAt
  <2> QED
    BY <1>1, <1>2, <2>1, ReturnHolds
<1>3. ASSUME NEW d \in Drives, Editable(a, d), UNCHANGED pc,
             local' = [local EXCEPT ![a].todo = @ \ {d}]
      PROVE  Held(a)
  <2> DEFINE l == [local[a] EXCEPT !.todo = @ \ {d}]
  <2>1. /\ l \in Locals /\ l.op = local[a].op /\ l.todo = local[a].todo \ {d}
        /\ l.failed = local[a].failed /\ l.goal = local[a].goal
        /\ local' = [local EXCEPT ![a] = l]
    BY <1>1, <1>3 DEF Locals, Inv, TypeOK
  <2> HIDE DEF l
  <2>2. At(a, "check", l)
    <3>1. pc' = pc /\ pc \in [Apps -> Labels] /\ local \in [Apps -> Locals]
      BY <1>3 DEF Inv, TypeOK
    <3> QED
      BY <1>1, <2>1, <3>1 DEF At
  <2>3. ASSUME Sole(a) PROVE SoleAt(a, "check", l)
    <3>1. \A e \in Drives : Concerns(l, e) => e \in l.todo \/ Clean(a, e)
      <4> SUFFICES ASSUME NEW e \in Drives, Concerns(l, e), e \notin l.todo
                   PROVE  Clean(a, e)
        OBVIOUS
      <4>1. Concerns(local[a], e)
        BY <2>1 DEF Concerns
      <4>2. e \in local[a].todo \/ Clean(a, e)
        BY <1>1, <2>3, <4>1 DEF Sole, SoleAt
      <4>3. Clean(a, d)
        BY <1>3 DEF Clean, Editable
      <4> QED
        BY <2>1, <4>2, <4>3
    <3> QED
      BY <1>1, <2>1, <2>3, <3>1 DEF Sole, SoleAt, Connecting, Making
  <2>4. "check" \in Labels \ (Making \cup Ending)
    BY DEF Labels, Making, Ending
  <2> QED
    BY <1>1, <2>2, <2>3, <2>4, QuietHolds
<1>4. CASE local[a].todo = {} /\ Goto(a, "store") /\ UNCHANGED local
  <2>1. "store" \in Labels \ (Making \cup Ending)
    BY DEF Labels, Making, Ending
  <2>2. At(a, "store", local[a])
    BY <1>4, <2>1, GotoAt DEF Inv
  <2>3. Sole(a) => SoleAt(a, "store", local[a])
    BY <1>1, <1>4 DEF Sole, SoleAt, Connecting, Making
  <2> QED
    BY <1>1, <2>1, <2>2, <2>3, QuietHolds
<1>5. local[a].todo \subseteq Drives
  BY <1>1 DEF Locals
<1> QED
  BY <1>2, <1>3, <1>4, <1>5 DEF Check

LEMMA StoreHolds ==
  ASSUME Inv, AllSteady, NEW a \in Apps, Store(a)
  PROVE  Held(a)
<1>1. /\ UNCHANGED <<owned, unsent, closing>> /\ UNCHANGED owned
      /\ pc[a] = "store" /\ local[a] \in Locals
  BY DEF Store, cache, Inv, TypeOK
<1>2. At(a, "idle", Blank) /\ SteadyAt(a, "idle", Blank)
  BY ReturnAt DEF Store, Inv, SteadyAt, Making, Ending
<1>3. \A d \in Drives : ~Concerns(local[a], d) => row'[d] = row[d]
  BY DEF Store, Stored, Concerns, Inv, TypeOK
<1>4. Sole(a) => Sole(a)'
  <2> SUFFICES ASSUME Sole(a) PROVE Sole(a)'
    OBVIOUS
  <2>1. \A d \in Drives : Clean(a, d) \/ row'[d] = row[d]
    BY <1>1, <1>3 DEF Sole, SoleAt
  <2>2. \A d \in Drives : /\ Owns(a, d)' = Owns(a, d) /\ rclone'[a][d] = rclone[a][d]
                          /\ unsent'[d] = unsent[d] /\ (rclone[a][d] # None => Owns(a, d))
    BY <1>1 DEF owned, Owns, Inv, Serves
  <2>3. AsSaved(a)'
    BY <2>1, <2>2 DEF Sole, AsSaved, Saved, Clean
  <2>4. closing[a] => \A d \in Drives : ~Owns(a, d)
    BY <1>1 DEF Sole, SoleAt
  <2>5. closing'[a] => \A d \in Drives : ~Owns(a, d)'
    BY <1>1, <2>2, <2>4
  <2>6. SoleAt(a, "idle", Blank)'
    BY <2>5, BlankType DEF SoleAt, Connecting, Making
  <2> QED
    BY <1>2, <2>3, <2>6 DEF Sole, At, SoleAt
<1>5. \A b \in Apps \ {a} : closing'[b] = closing[b]
  BY <1>1
<1> QED
  BY <1>1, <1>2, <1>4, <1>5, StillHolds

\* Nothing is left to send, or the drive stays mounted.  The file system that was
\* told to go is gone once its letter is free.
LEMMA DrainHolds ==
  ASSUME Inv, AllSteady, NEW a \in Apps, Drain(a) \/ Removal(a)
  PROVE  Held(a)
<1> DEFINE d == local[a].drive
<1>1. /\ d \in Drives /\ Owns(a, d) /\ pc[a] \in Ending
      /\ UNCHANGED <<rclone, volume>> /\ UNCHANGED <<row, unsent, closing>>
  BY OwningKnows DEF Drain, Removal, Ending, Owning, cache
<1>2. CASE Fail(a)
  BY <1>1, <1>2, Unmoved, FailHolds
<1>3. ASSUME NEW label \in {"unmount", "quit"}, Goto(a, label), UNCHANGED <<mount, local>>,
             SteadyAt(a, label, local[a])
      PROVE  Held(a)
  <2>1. At(a, label, local[a])
    BY <1>3, GotoAt DEF Inv, Labels
  <2>2. UNCHANGED <<owned, row, unsent, closing>> /\ UNCHANGED owned
    BY <1>1, <1>3 DEF owned
  <2>3. Sole(a) => SoleAt(a, label, local[a])
    BY <1>1 DEF Sole, SoleAt, Connecting, Making, Ending
  <2>4. Sole(a) => Sole(a)'
    BY <2>1, <2>2, <2>3, StillSole
  <2>5. \A b \in Apps \ {a} : closing'[b] = closing[b]
    BY <1>1
  <2> QED
    BY <1>3, <2>1, <2>2, <2>4, <2>5, StillHolds
<1>4. CASE Drain(a) /\ ~Fail(a)
  <2>1. SteadyAt(a, "unmount", local[a])
    BY <1>4 DEF Drain, AllSteady, Steady, SteadyAt, Making, Ending
  <2> QED
    BY <1>3, <1>4, <2>1 DEF Drain
<1>5. CASE Removal(a) /\ ~Fail(a)
  <2>1. ~Busy(d) /\ volume[a][d] \in {"none", "going"}
    BY <1>5 DEF Removal, AllSteady, Steady, SteadyAt
  <2>2. volume[a][d] = "none"
    BY <1>1, <2>1 DEF Busy, Visible
  <2>3. SteadyAt(a, "quit", local[a])
    BY <1>5, <2>2 DEF Removal, AllSteady, Steady, SteadyAt, Making, Ending
  <2> QED
    BY <1>3, <1>5, <2>3 DEF Removal
<1> QED
  BY <1>2, <1>4, <1>5

LEMMA LookHolds ==
  ASSUME Inv, AllSteady, NEW a \in Apps, NEW d \in Drives, Look(a, d) \/ Looked(a, d)
  PROVE  Held(a)
<1>1. /\ UNCHANGED <<owned, row, unsent, closing>> /\ UNCHANGED owned
      /\ UNCHANGED <<pc, local>>
  BY DEF Look, Looked
<1>2. At(a, pc[a], local[a])
  BY <1>1, StayAt DEF Inv
<1>3. SteadyAt(a, pc[a], local[a]) /\ (Sole(a) => SoleAt(a, pc[a], local[a]))
  BY DEF AllSteady, Steady, Sole
<1>4. Sole(a) => Sole(a)'
  BY <1>1, <1>2, <1>3, StillSole
<1>5. \A b \in Apps \ {a} : closing'[b] = closing[b]
  BY <1>1
<1> QED
  BY <1>1, <1>2, <1>3, <1>4, <1>5, StillHolds

\* What is written is written for the saved target, and not to a cache that was
\* found clean: its drive would be mounted.
LEMMA UnsentHolds ==
  ASSUME Inv, AllSteady, NEW a \in Apps, NEW d \in Drives, WriterWrites(a, d) \/ Upload(a, d)
  PROVE  Held(a)
<1>1. /\ UNCHANGED <<owned, row, closing>> /\ UNCHANGED owned /\ UNCHANGED <<pc, local>>
      /\ rclone[a][d] # None /\ Owns(a, d)
  BY DEF WriterWrites, Upload, Inv, Serves
<1>2. At(a, pc[a], local[a]) /\ SteadyAt(a, pc[a], local[a])
  BY <1>1, StayAt DEF Inv, AllSteady, Steady
<1>3. unsent'[d] \in {None, rclone[a][d]} /\ \A e \in Drives \ {d} : unsent'[e] = unsent[e]
  BY DEF WriterWrites, Upload, Inv, TypeOK
<1>4. Sole(a) => Sole(a)'
  <2> SUFFICES ASSUME Sole(a) PROVE Sole(a)'
    OBVIOUS
  <2>1. \A e \in Drives : Owns(a, e)' = Owns(a, e) /\ (Clean(a, e) => Clean(a, e)')
    BY <1>1, <1>3 DEF owned, Owns, Clean
  <2>2. AsSaved(a)'
    BY <1>1, <1>3, <2>1 DEF Sole, AsSaved, owned, Saved
  <2>3. SoleAt(a, pc[a], local[a])'
    BY <1>1, <2>1 DEF Sole, SoleAt, Concerns, Saved
  <2> QED
    BY <2>2, <2>3 DEF Sole
<1>5. \A b \in Apps \ {a} : closing'[b] = closing[b]
  BY <1>1
<1> QED
  BY <1>1, <1>2, <1>4, <1>5, StillHolds

-----------------------------------------------------------------------------
(* Steps that make a mount *)

\* An earlier connection that does not work is given up.
LEMMA ReuseHolds ==
  ASSUME Inv, AllSteady, NEW a \in Apps, Reuse(a)
  PROVE  Held(a)
<1> DEFINE d == local[a].drive
<1>1. /\ d \in Drives /\ pc[a] = "connect" /\ UNCHANGED <<row, unsent, closing>>
      /\ (Sole(a) => ~closing[a])
  BY DEF Reuse, Inv, Knows, KnowsAt, Connecting, Sole, SoleAt
<1>2. CASE UNCHANGED owned
  <2>1. UNCHANGED <<owned, row, unsent, closing>> /\ pc[a] \in Connecting
    BY <1>1, <1>2 DEF Connecting
  <2>2. Return(a) \/ \E label \in Connecting : Goto(a, label) /\ UNCHANGED local
    BY DEF Reuse, Connecting
  <2> QED
    BY <2>1, <2>2, ConnectingHolds
<1>3. CASE Owns(a, d) /\ Released(a, d) /\ Kill(a, d)
  <2>1. /\ MountIs(a, d, NoMount) /\ ChildIs(a, d, None)
        /\ VolumeIs(a, d, Orphan(volume[a][d])) /\ NoMount.state # "connected"
    BY <1>1, <1>3, ReleasedIs, KillIs DEF Inv, NoMount
  <2>2. PICK label \in {"idle", "lease"}, l \in {Blank, local[a]} :
          At(a, label, l) /\ (Sole(a) => SoleAt(a, label, l))
    <3>1. CASE Return(a)
      <4>1. At(a, "idle", Blank) /\ (Sole(a) => SoleAt(a, "idle", Blank))
        BY <1>1, <3>1, ReturnAt, BlankType DEF Inv, SoleAt, Connecting, Making
      <4> QED
        BY <4>1
    <3>2. CASE Goto(a, "lease") /\ UNCHANGED local
      <4>1. At(a, "lease", local[a]) /\ (Sole(a) => SoleAt(a, "lease", local[a]))
        BY <1>1, <3>2, GotoAt DEF Inv, Labels, Sole, SoleAt, Connecting, Making
      <4> QED
        BY <4>1
    <3> QED
      BY <3>1, <3>2 DEF Reuse
  <2>3. Sole(a) => Sole(a)'
    BY <1>1, <2>1, <2>2, CalmSole
  <2>4. label \notin Making \cup Ending
    BY DEF Making, Ending
  <2>5. \A b \in Apps \ {a} : closing'[b] = closing[b]
    BY <1>1
  <2> QED
    BY <1>1, <2>1, <2>2, <2>3, <2>4, <2>5, MoveHolds
<1> QED
  BY <1>2, <1>3 DEF Reuse

LEMMA LaunchHolds ==
  ASSUME Inv, AllSteady, NEW a \in Apps, Launch(a)
  PROVE  Held(a)
<1> DEFINE d == local[a].drive
           m == [state |-> "connecting", mounted |-> FALSE]
<1>1. /\ d \in Drives /\ local[a].target \in Targets /\ pc[a] = "launch"
      /\ UNCHANGED <<row, unsent, volume, closing>>
      /\ (Sole(a) => ~closing[a] /\ local[a].target = row[d])
  BY DEF Launch, Inv, Knows, KnowsAt, Connecting, Sole, SoleAt
<1>2. CASE Unlease(a) /\ UNCHANGED <<rclone, mount>>
  BY <1>1, <1>2, ReturnHolds DEF Unlease, owned
<1>3. CASE /\ rclone' = [rclone EXCEPT ![a][d] = local[a].target]
           /\ mount' = [mount EXCEPT ![a][d] = m]
           /\ Goto(a, "wait") /\ UNCHANGED <<local, lease>>
  <2>1. MountIs(a, d, m)
    BY <1>1, <1>3, Entry DEF MountIs, Inv, TypeOK
  <2>2. ChildIs(a, d, local[a].target)
    BY <1>1, <1>3, Entry DEF ChildIs, Inv, TypeOK
  <2>3. VolumeIs(a, d, volume[a][d])
    BY <1>1, Unmoved
  <2>4. At(a, "wait", local[a])
    BY <1>3, GotoAt DEF Inv, Labels
  <2>5. m.state = "connecting"
    OBVIOUS
  <2> HIDE DEF m
  <2>6. Sole(a) => Sole(a)'
    <3> SUFFICES ASSUME Sole(a) PROVE Sole(a)'
      OBVIOUS
    <3>1. \A e \in Drives : e # d => Owns(a, e)' = Owns(a, e) /\ rclone'[a][e] = rclone[a][e]
      BY <2>1, <2>2 DEF MountIs, ChildIs, Owns
    <3>2. row[d] \in Targets /\ rclone'[a][d] = row[d]
      BY <1>1, <2>2 DEF ChildIs
    <3>3. AsSaved(a)'
      BY <1>1, <3>1, <3>2 DEF Sole, AsSaved, Saved
    <3>4. SoleAt(a, "wait", local[a]) /\ ~closing[a]
      BY <1>1 DEF Sole, SoleAt, Connecting, Making
    <3>5. SoleAt(a, "wait", local[a])'
      BY <1>1, <1>3, <3>4 DEF SoleAt, Connecting, Making
    <3> QED
      BY <2>4, <3>3, <3>5 DEF Sole, SoleAt, At
  <2>7. /\ "wait" \in Making /\ "wait" \notin Ending
        /\ \A b \in Apps \ {a} : closing'[b] = closing[b]
    BY <1>1 DEF Making, Ending
  <2> QED
    BY <1>1, <2>1, <2>2, <2>3, <2>4, <2>5, <2>6, <2>7, MoveHolds
<1> QED
  BY <1>2, <1>3 DEF Launch

LEMMA AwaitHolds ==
  ASSUME Inv, AllSteady, NEW a \in Apps, Await(a)
  PROVE  Held(a)
<1> DEFINE d == local[a].drive
<1>1. /\ d \in Drives /\ Owns(a, d) /\ pc[a] = "wait" /\ UNCHANGED rclone
      /\ UNCHANGED <<row, unsent, closing>> /\ mount[a][d].state = "connecting"
      /\ (Sole(a) => ~closing[a])
  BY OwningKnows DEF Await, Owning, cache, AllSteady, Steady, SteadyAt, Making, Sole, SoleAt
<1>2. CASE Return(a) /\ UNCHANGED <<mount, volume>>
  BY <1>1, <1>2, ReturnHolds DEF owned
<1>3. CASE /\ mount' = [mount EXCEPT ![a][d].mounted = TRUE]
           /\ volume' = [volume EXCEPT ![a][d] = "asked"]
           /\ Goto(a, "mounting") /\ UNCHANGED local
  <2>1. PICK m : MountIs(a, d, m) /\ m.state = "connecting"
    <3>1. SetMounted(a, d, TRUE)
      BY <1>3 DEF SetMounted
    <3>2. TypeOK /\ TRUE \in BOOLEAN
      BY DEF Inv
    <3>3. \E m : MountIs(a, d, m) /\ m.state = mount[a][d].state
      BY <1>1, <3>1, <3>2, SetMountedIs
    <3> QED
      BY <1>1, <3>3
  <2>2. VolumeIs(a, d, "asked")
    BY <1>1, <1>3, Entry DEF VolumeIs, Inv, TypeOK
  <2>3. ChildIs(a, d, rclone[a][d])
    BY <1>1, Unmoved
  <2>4. At(a, "mounting", local[a])
    BY <1>3, GotoAt DEF Inv, Labels
  <2>5. Sole(a) => SoleAt(a, "mounting", local[a])
    BY <1>1 DEF Sole, SoleAt, Connecting, Making
  <2>6. Sole(a) => Sole(a)'
    BY <1>1, <2>1, <2>3, <2>4, <2>5, CalmSole
  <2>7. /\ "mounting" \in Making /\ "mounting" \notin Ending
        /\ \A b \in Apps \ {a} : closing'[b] = closing[b]
    BY <1>1 DEF Making, Ending
  <2> QED
    BY <1>1, <2>1, <2>2, <2>3, <2>4, <2>6, <2>7, MoveHolds DEF Making, Ending
<1> QED
  BY <1>2, <1>3 DEF Await

\* The drive is connected once its file system is there.
LEMMA MountingHolds ==
  ASSUME Inv, AllSteady, NEW a \in Apps, Mounting(a)
  PROVE  Held(a)
<1> DEFINE d == local[a].drive
<1>1. /\ d \in Drives /\ Owns(a, d) /\ pc[a] = "mounting" /\ UNCHANGED rclone /\ Return(a)
      /\ UNCHANGED <<row, unsent, closing>> /\ mount[a][d].state = "connecting"
      /\ (Sole(a) => ~closing[a])
  BY OwningKnows DEF Mounting, Owning, cache, AllSteady, Steady, SteadyAt, Making, Sole, SoleAt
<1>2. CASE UNCHANGED <<volume, mount>>
  BY <1>1, <1>2, ReturnHolds DEF owned
<1>3. ASSUME NEW m, NEW v, MountIs(a, d, m), VolumeIs(a, d, v), m.state = "connected" => v = "up"
      PROVE  Held(a)
  <2>1. ChildIs(a, d, rclone[a][d])
    BY <1>1, Unmoved
  <2>2. At(a, "idle", Blank)
    BY <1>1, ReturnAt DEF Inv
  <2>3. Sole(a) => SoleAt(a, "idle", Blank)
    BY <1>1, BlankType DEF SoleAt, Connecting, Making
  <2>4. Sole(a) => Sole(a)'
    BY <1>1, <1>3, <2>1, <2>2, <2>3, CalmSole
  <2>5. "idle" \notin Making \cup Ending /\ \A b \in Apps \ {a} : closing'[b] = closing[b]
    BY <1>1 DEF Making, Ending
  <2> QED
    BY <1>1, <1>3, <2>1, <2>2, <2>4, <2>5, MoveHolds
<1>4. CASE volume[a][d] = "up" /\ SetState(a, d, "connected") /\ UNCHANGED volume
  <2>1. PICK m : MountIs(a, d, m) /\ m.state = "connected"
    BY <1>1, <1>4, SetStateIs DEF Inv
  <2>2. VolumeIs(a, d, volume[a][d])
    BY <1>1, <1>4, Unmoved
  <2> QED
    BY <1>3, <1>4, <2>1, <2>2
<1>5. CASE volume' = [volume EXCEPT ![a][d] = "none"] /\ UNCHANGED mount
  <2>1. VolumeIs(a, d, "none")
    BY <1>1, <1>5, Entry DEF VolumeIs, Inv, TypeOK
  <2>2. MountIs(a, d, mount[a][d])
    BY <1>1, <1>5, Unmoved
  <2> QED
    BY <1>1, <1>3, <2>1, <2>2
<1> QED
  BY <1>2, <1>4, <1>5 DEF Mounting

-----------------------------------------------------------------------------
(* Steps that end a mount *)

LEMMA VolumesType ==
  ASSUME TypeOK, NEW a \in Apps, NEW d \in Drives
  PROVE  {volume[a][d], Orphan(volume[a][d]), "up", "none"} \subseteq Volumes
  BY DEF TypeOK, Orphan, Volumes

LEMMA KilledOrNot ==
  ASSUME TypeOK, NEW a \in Apps, NEW d \in Drives, Kill(a, d) \/ UNCHANGED <<rclone, volume>>
  PROVE  \E r \in {rclone[a][d], None}, v \in Volumes : ChildIs(a, d, r) /\ VolumeIs(a, d, v)
<1>1. CASE Kill(a, d)
  BY <1>1, KillIs, VolumesType
<1>2. CASE UNCHANGED <<rclone, volume>>
  <2>1. ChildIs(a, d, rclone[a][d]) /\ VolumeIs(a, d, volume[a][d])
    BY <1>2, Unmoved
  <2> QED
    BY <2>1, VolumesType
<1> QED
  BY <1>1, <1>2

\* A stop begins with what it found.
LEMMA StopOwnedHolds ==
  ASSUME Inv, AllSteady, NEW a \in Apps, StopFailed(a) \/ StopMounted(a)
  PROVE  Held(a)
<1> DEFINE d == local[a].drive
<1>1. /\ d \in Drives /\ Owns(a, d) /\ pc[a] = "stop" /\ SetState(a, d, "disconnecting")
      /\ UNCHANGED <<row, unsent, closing>> /\ UNCHANGED local
  BY DEF StopFailed, StopMounted, Inv, TypeOK, Locals, cache
<1>2. PICK m : MountIs(a, d, m) /\ m.state = "disconnecting"
  BY <1>1, SetStateIs DEF Inv
<1>3. PICK r \in {rclone[a][d], None}, v \in Volumes : ChildIs(a, d, r) /\ VolumeIs(a, d, v)
  BY <1>1, KilledOrNot DEF StopFailed, StopMounted, Inv
<1>4. PICK label \in {"reap", "drain"} : Goto(a, label)
  BY DEF StopFailed, StopMounted
<1>5. At(a, label, local[a])
  BY <1>1, <1>4, GotoAt DEF Inv, Labels
<1>6. Sole(a) => SoleAt(a, label, local[a])
  BY <1>1 DEF Sole, SoleAt, Connecting, Making
<1>7. Sole(a) => Sole(a)'
  BY <1>1, <1>2, <1>3, <1>5, <1>6, CalmSole
<1>8. /\ label \notin Making /\ label \in Ending
      /\ \A b \in Apps \ {a} : closing'[b] = closing[b]
  BY <1>1 DEF Making, Ending
<1> QED
  BY <1>1, <1>2, <1>3, <1>5, <1>7, <1>8, MoveHolds

\* From here on the file system goes, or is gone.
LEMMA UnmountHolds ==
  ASSUME Inv, AllSteady, NEW a \in Apps, Unmount(a)
  PROVE  Held(a)
<1> DEFINE d == local[a].drive
<1>1. /\ d \in Drives /\ Owns(a, d) /\ pc[a] = "unmount" /\ UNCHANGED rclone
      /\ UNCHANGED <<row, unsent, closing>> /\ mount[a][d].state = "disconnecting"
  BY OwningKnows DEF Unmount, Owning, cache, AllSteady, Steady, SteadyAt, Ending
<1>2. ChildIs(a, d, rclone[a][d])
  BY <1>1, Unmoved
<1>3. Orphan(volume[a][d]) \in {"none", "going"}
  BY <1>1 DEF Inv, TypeOK, Orphan, Volumes
<1>4. volume' = [volume EXCEPT ![a][d] = Orphan(@)] => VolumeIs(a, d, Orphan(volume[a][d]))
  <2> SUFFICES ASSUME volume' = [volume EXCEPT ![a][d] = Orphan(@)]
               PROVE  VolumeIs(a, d, Orphan(volume[a][d]))
    OBVIOUS
  <2>1. volume' = [volume EXCEPT ![a][d] = Orphan(volume[a][d])]
    BY <1>1 DEF Inv, TypeOK
  <2> QED
    BY <1>1, <2>1, Entry DEF VolumeIs, Inv, TypeOK
<1>5. CASE Fail(a)
  <2>1. PICK v : VolumeIs(a, d, v)
    BY <1>1, <1>4, Unmoved DEF Unmount
  <2>2. pc[a] \in Ending
    BY <1>1 DEF Ending
  <2> QED
    BY <1>1, <1>2, <1>5, <2>1, <2>2, FailHolds
<1>6. CASE /\ volume' = [volume EXCEPT ![a][d] = Orphan(@)]
           /\ mount' = [mount EXCEPT ![a][d].mounted = FALSE]
           /\ Goto(a, "removal") /\ UNCHANGED local
  <2>1. PICK m : MountIs(a, d, m) /\ m.state = "disconnecting"
    <3>1. SetMounted(a, d, FALSE)
      BY <1>6 DEF SetMounted
    <3>2. TypeOK /\ FALSE \in BOOLEAN
      BY DEF Inv
    <3>3. \E m : MountIs(a, d, m) /\ m.state = mount[a][d].state
      BY <1>1, <3>1, <3>2, SetMountedIs
    <3> QED
      BY <1>1, <3>3
  <2>2. VolumeIs(a, d, Orphan(volume[a][d]))
    BY <1>4, <1>6
  <2>3. At(a, "removal", local[a])
    BY <1>6, GotoAt DEF Inv, Labels
  <2>4. Sole(a) => SoleAt(a, "removal", local[a])
    BY <1>1 DEF Sole, SoleAt, Connecting, Making
  <2>5. Sole(a) => Sole(a)'
    BY <1>1, <1>2, <2>1, <2>3, <2>4, CalmSole
  <2>6. /\ "removal" \notin Making /\ "removal" \in Ending
        /\ \A b \in Apps \ {a} : closing'[b] = closing[b]
    BY <1>1 DEF Making, Ending
  <2> QED
    BY <1>1, <1>2, <1>3, <2>1, <2>2, <2>3, <2>5, <2>6, MoveHolds DEF Making, Ending
<1> QED
  BY <1>5, <1>6 DEF Unmount

\* What is given up need not be visited any more.
LEMMA ReleaseHolds ==
  ASSUME Inv, AllSteady, NEW a \in Apps, Reap(a) \/ Quit(a)
  PROVE  Held(a)
<1> DEFINE d == local[a].drive
<1>1. /\ d \in Drives /\ Owns(a, d) /\ pc[a] \in {"reap", "quit"} /\ pc[a] \in Ending
      /\ UNCHANGED <<row, unsent, closing>>
  BY OwningKnows DEF Reap, Quit, Owning, Ending
<1>2. CASE Fail(a) /\ (Kill(a, d) \/ UNCHANGED <<rclone, volume>>)
  <2>1. PICK r \in {rclone[a][d], None}, v \in Volumes : ChildIs(a, d, r) /\ VolumeIs(a, d, v)
    BY <1>1, <1>2, KilledOrNot DEF Inv
  <2> QED
    BY <1>1, <1>2, <2>1, FailHolds
<1>3. CASE Released(a, d) /\ Kill(a, d) /\ Visited(a, FALSE)
  <2>1. /\ MountIs(a, d, NoMount) /\ ChildIs(a, d, None)
        /\ VolumeIs(a, d, Orphan(volume[a][d])) /\ NoMount.state # "connected"
    BY <1>1, <1>3, ReleasedIs, KillIs DEF Inv, NoMount
  <2>2. PICK l : /\ At(a, "stop", l) /\ l.op = local[a].op /\ l.todo = local[a].todo \ {d}
                 /\ l.failed = (local[a].failed \/ FALSE)
    BY <1>3, VisitedIs DEF Inv
  <2>3. Sole(a) => Sole(a)'
    <3> SUFFICES ASSUME Sole(a) PROVE Sole(a)'
      OBVIOUS
    <3>1. \A e \in Drives : /\ Owns(a, e)' <=> e # d /\ Owns(a, e)
                            /\ rclone'[a][e] \in {rclone[a][e], None}
      BY <2>1 DEF MountIs, ChildIs, Owns
    <3>2. AsSaved(a)'
      BY <1>1, <3>1 DEF Sole, AsSaved, Saved
    <3>3. SoleAt(a, "stop", l)'
      BY <1>1, <2>2, <3>1 DEF Sole, SoleAt, Connecting, Making
    <3> QED
      BY <2>2, <3>2, <3>3 DEF Sole, SoleAt, At
  <2>4. "stop" \notin Making \cup Ending /\ \A b \in Apps \ {a} : closing'[b] = closing[b]
    BY <1>1 DEF Making, Ending
  <2> QED
    BY <1>1, <2>1, <2>2, <2>3, <2>4, MoveHolds
<1> QED
  BY <1>2, <1>3 DEF Reap, Quit

-----------------------------------------------------------------------------
(* rclone, its file system, and the end of an application *)

LEMMA ChildHolds ==
  ASSUME Inv, AllSteady, NEW a \in Apps, NEW d \in Drives,
         RcloneMounts(a, d) \/ RcloneDies(a, d) \/ VolumeGone(a, d)
  PROVE  Held(a)
<1>1. /\ UNCHANGED <<row, unsent, closing>> /\ UNCHANGED mount /\ UNCHANGED <<pc, local>>
  BY DEF RcloneMounts, RcloneDies, VolumeGone, cache
<1>2. PICK r \in {rclone[a][d], None}, v \in Volumes :
        /\ ChildIs(a, d, r) /\ VolumeIs(a, d, v)
        /\ mount[a][d].state = "connected" /\ r # None => v = "up"
        /\ volume[a][d] \in {"none", "going"} => v \in {"none", "going"}
        /\ volume[a][d] = "none" => v = "none"
  <2>1. CASE RcloneMounts(a, d)
    <3>1. VolumeIs(a, d, "up") /\ ChildIs(a, d, rclone[a][d]) /\ volume[a][d] = "asked"
      BY <2>1, Unmoved, Entry DEF RcloneMounts, VolumeIs, Inv, TypeOK
    <3> QED
      BY <3>1, VolumesType DEF Inv
  <2>2. CASE RcloneDies(a, d)
    <3>1. ChildIs(a, d, None) /\ VolumeIs(a, d, Orphan(volume[a][d]))
      BY <2>2, KillIs DEF RcloneDies, Inv
    <3> QED
      BY <3>1, VolumesType DEF Orphan, Inv
  <2>3. CASE VolumeGone(a, d)
    <3>1. VolumeIs(a, d, "none") /\ ChildIs(a, d, rclone[a][d]) /\ volume[a][d] = "going"
      BY <2>3, Unmoved, Entry DEF VolumeGone, VolumeIs, Inv, TypeOK
    <3> QED
      BY <3>1, VolumesType DEF AllSteady, Steady, Inv
  <2> QED
    BY <2>1, <2>2, <2>3
<1>3. MountIs(a, d, mount[a][d])
  BY <1>1, Unmoved
<1>4. At(a, pc[a], local[a])
  BY <1>1, StayAt DEF Inv
<1>5. pc[a] \in Making \cup Ending => local[a].drive \in Drives
  BY OwningKnows DEF Making, Ending, Owning
<1>6. SteadyAt(a, pc[a], local[a])
  BY DEF AllSteady, Steady
<1>7. Sole(a) => SoleAt(a, pc[a], local[a])
  BY DEF Sole
<1>8. Sole(a) => Sole(a)'
  BY <1>1, <1>2, <1>3, <1>4, <1>7, CalmSole DEF Owns
<1>9. \A b \in Apps \ {a} : closing'[b] = closing[b]
  BY <1>1
<1>10. /\ pc[a] \in Making /\ local[a].drive = d => mount[a][d].state = "connecting"
       /\ pc[a] \in Ending /\ local[a].drive = d => mount[a][d].state = "disconnecting"
       /\ pc[a] = "removal" /\ local[a].drive = d => v \in {"none", "going"}
       /\ pc[a] = "quit" /\ local[a].drive = d => v = "none"
  BY <1>2, <1>6 DEF SteadyAt
<1>11. \/ pc[a] \notin Making \cup Ending
       \/ local[a].drive \in Drives /\ pc[a] = pc[a] /\ local[a] = local[a]
  BY <1>5
<1> QED
  BY <1>2, <1>3, <1>4, <1>8, <1>9, <1>10, <1>11, MoveHolds

LEMMA EndsHolds ==
  ASSUME Inv, AllSteady, NEW a \in Apps, Ends(a)
  PROVE  Held(a)
<1>1. UNCHANGED <<row, unsent>> /\ At(a, "idle", Blank)
  BY ReturnAt DEF Ends, Inv
<1>2. ~closing'[a] /\ \A b \in Apps \ {a} : closing'[b] = closing[b]
  BY DEF Ends, Inv, TypeOK
<1>3. \A e \in Drives :
        /\ mount'[a][e] = NoMount /\ rclone'[a][e] = None
        /\ \A b \in Apps \ {a} : /\ mount'[b][e] = mount[b][e] /\ rclone'[b][e] = rclone[b][e]
                                 /\ volume'[b][e] = volume[b][e]
  BY DEF Ends, Inv, TypeOK
<1>4. ASSUME NEW b \in Apps \ {a}
      PROVE  Steady(b)' /\ pc'[b] = pc[b] /\ (Fresh(b) => Fresh(b)')
  <2>1. pc'[b] = pc[b] /\ local'[b] = local[b]
    BY <1>1 DEF At
  <2>2. pc[b] \in Making \cup Ending => local[b].drive \in Drives
    BY OwningKnows DEF Making, Ending, Owning
  <2>3. Steady(b)'
    BY <1>3, <2>1, <2>2 DEF AllSteady, Steady, SteadyAt, Ending
  <2> QED
    BY <1>2, <1>3, <2>1, <2>3 DEF Fresh, Owns
<1>5. pc'[a] = "idle" /\ local'[a] = Blank
  BY <1>1 DEF At
<1>6. Steady(a)'
  BY <1>3, <1>5 DEF Steady, SteadyAt, Making, Ending, NoMount
<1>7. Sole(a) => Sole(a)'
  <2>1. Sole(a) => AsSaved(a)'
    BY <1>1, <1>3 DEF Sole, AsSaved, Owns
  <2>2. SoleAt(a, "idle", Blank)'
    BY <1>2, BlankType DEF SoleAt, Connecting, Making
  <2> QED
    BY <1>5, <2>1, <2>2 DEF Sole, SoleAt
<1> QED
  BY <1>4, <1>6, <1>7 DEF Held, AllSteady

-----------------------------------------------------------------------------
(* The theorems about the file systems and about a single application *)

LEMMA StepHolds ==
  ASSUME Inv, AllSteady, NEW a \in Apps,
         Enter(a) \/ Step(a) \/ Ends(a) \/ \E d \in Drives : Environment(a, d)
  PROVE  Held(a)
<1>1. CASE Step(a)
  <2>1. CASE Reuse(a) \/ TakeLease(a) \/ Bind(a) \/ Write(a) \/ Launch(a) \/ Await(a) \/ Mounting(a)
    BY <2>1, ReuseHolds, LeaseHolds, LaunchHolds, AwaitHolds, MountingHolds
  <2>2. CASE Stop(a) \/ StopUnowned(a) \/ StopFailed(a) \/ Reap(a) \/ StopMounted(a)
    BY <2>2, StopHolds, StopUnownedHolds, StopOwnedHolds, ReleaseHolds
  <2>3. CASE Drain(a) \/ Unmount(a) \/ Removal(a) \/ Quit(a)
    BY <2>3, DrainHolds, UnmountHolds, ReleaseHolds
  <2>4. CASE Stopped(a) \/ Check(a) \/ Store(a)
    BY <2>4, StoppedHolds, CheckHolds, StoreHolds
  <2> QED
    BY <1>1, <2>1, <2>2, <2>3, <2>4 DEF Step
<1>2. ASSUME NEW d \in Drives, Environment(a, d) PROVE Held(a)
  BY <1>2, LookHolds, ChildHolds, UnsentHolds DEF Environment
<1> QED
  BY <1>1, <1>2, EnterHolds, EndsHolds

LEMMA InitHolds == Init => AllSteady /\ Lonely
<1> SUFFICES ASSUME Init PROVE AllSteady /\ Lonely
  OBVIOUS
<1>1. ASSUME NEW a \in Apps PROVE Steady(a) /\ Fresh(a) /\ Sole(a)
  <2>1. /\ pc[a] = "idle" /\ local[a] = Blank /\ ~closing[a]
        /\ \A d \in Drives : ~Owns(a, d) /\ mount[a][d].state # "connected"
        /\ \A d \in Drives : rclone[a][d] = None /\ unsent[d] = None
    BY DEF Init, Owns, NoMount
  <2>2. Steady(a) /\ Fresh(a)
    BY <2>1 DEF Steady, SteadyAt, Making, Ending, Fresh
  <2>3. AsSaved(a) /\ SoleAt(a, "idle", Blank)
    BY <2>1, BlankType DEF AsSaved, SoleAt, Connecting, Making
  <2> QED
    BY <2>1, <2>2, <2>3 DEF Sole
<1> QED
  BY <1>1 DEF AllSteady, Lonely

LEMMA NextHolds == Inv /\ AllSteady /\ Lonely /\ [Next]_vars => AllSteady' /\ Lonely'
<1> SUFFICES ASSUME Inv, AllSteady, Lonely, [Next]_vars PROVE AllSteady' /\ Lonely'
  OBVIOUS
<1>1. ASSUME NEW a \in Apps, acted' = acted \cup {a},
             Enter(a) \/ Step(a) \/ Ends(a) \/ \E d \in Drives : Environment(a, d)
      PROVE  AllSteady' /\ Lonely'
  <2>1. Held(a)
    BY <1>1, StepHolds
  <2>2. \A b \in Apps \ acted' : Fresh(b)'
    BY <1>1, <2>1 DEF Held, Lonely
  <2>3. ASSUME NEW b \in Apps, acted' \subseteq {b} PROVE Sole(b)'
    <3>1. b = a /\ acted \subseteq {a}
      BY <1>1, <2>3
    <3> QED
      BY <2>1, <3>1 DEF Held, Lonely
  <2> QED
    BY <2>1, <2>2, <2>3 DEF Held, Lonely
<1>2. CASE UNCHANGED vars
  <2>1. UNCHANGED <<row, unsent, mount, rclone, volume, closing, pc, local, acted>>
    BY <1>2 DEF vars, cache, owned
  <2>2. AllSteady'
    BY <2>1 DEF AllSteady, Steady, SteadyAt
  <2>3. \A a \in Apps : Fresh(a)' = Fresh(a) /\ Sole(a)' = Sole(a)
    BY <2>1 DEF Fresh, Sole, AsSaved, SoleAt, Owns, Saved, Clean, Concerns
  <2> QED
    BY <2>1, <2>2, <2>3 DEF Lonely
<1> QED
  BY <1>1, <1>2 DEF Next

LEMMA Steadiness == Spec => [](Inv /\ AllSteady /\ Lonely)
  BY InitInv, NextInv, InitHolds, NextHolds, PTL DEF Spec

\* As long as one application has the cache and the table to itself, unsent files
\* stay with the drive they were written for, a connected drive is there and shows
\* the saved target, and a shutdown that lets the application exit has stopped
\* everything, whatever fails in between.
THEOREM OneApplicationIsSafe == Spec => []DrivesOfOneApplication
<1> SUFFICES ASSUME Inv, AllSteady, Lonely PROVE DrivesOfOneApplication
  BY Steadiness, PTL
<1> SUFFICES ASSUME NEW a \in Apps, acted \subseteq {a}
             PROVE  PendingKeepsItsDrive /\ ConnectedIsUsable /\ ExitIsClean
  BY DEF DrivesOfOneApplication
<1>1. Sole(a) /\ \A b \in Apps \ {a} : Fresh(b)
  BY DEF Lonely
<1>2. PendingKeepsItsDrive
  BY <1>1 DEF Sole, AsSaved, PendingKeepsItsDrive
<1>3. ConnectedIsUsable
  <2> SUFFICES ASSUME NEW b \in Apps, NEW d \in Drives, Status(b, d) = "connected"
               PROVE  volume[b][d] = "up" /\ rclone[b][d] = row[d]
    BY DEF ConnectedIsUsable
  <2>1. Owns(b, d) /\ mount[b][d].state = "connected" /\ rclone[b][d] # None
    BY DEF Status, Owns
  <2>2. b = a
    BY <1>1, <2>1 DEF Fresh
  <2> QED
    BY <1>1, <2>1, <2>2 DEF AllSteady, Steady, Sole, AsSaved
<1>4. ExitIsClean
  <2> SUFFICES ASSUME NEW b \in Apps, closing[b], pc[b] = "idle", NEW d \in Drives
               PROVE  ~Owns(b, d) /\ rclone[b][d] = None
    BY DEF ExitIsClean
  <2>1. b = a
    BY <1>1 DEF Fresh
  <2>2. ~Owns(b, d)
    BY <1>1, <2>1 DEF Sole, SoleAt
  <2> QED
    BY <2>2 DEF Inv, Serves
<1> QED
  BY <1>2, <1>3, <1>4

LEMMA LastSteps ==
  ASSUME NEW a \in Apps, pc[a] \in {"reap", "quit"}, Step(a)
  PROVE  Reap(a) \/ Quit(a)
<1>1. ~(Reuse(a) \/ TakeLease(a) \/ Bind(a) \/ Write(a) \/ Launch(a) \/ Await(a) \/ Mounting(a))
  BY DEF Reuse, TakeLease, Bind, Write, Launch, Await, Mounting
<1>2. ~(Stop(a) \/ StopUnowned(a) \/ StopFailed(a) \/ StopMounted(a))
  BY DEF Stop, StopUnowned, StopFailed, StopMounted
<1>3. ~(Drain(a) \/ Unmount(a) \/ Removal(a) \/ Stopped(a) \/ Check(a) \/ Store(a))
  BY DEF Drain, Unmount, Removal, Stopped, Check, Store
<1> QED
  BY <1>1, <1>2, <1>3 DEF Step

\* A stop that gives up a mount at its end leaves no file system behind that
\* somebody sees: it has waited until the letter was free.
THEOREM StopsLeaveNoVolume == Spec => LeavesNoVolume
<1> DEFINE Left(a, d) == (pc[a] = "quit" \/ (pc[a] = "reap" /\ mount[a][d].mounted))
                           /\ pc'[a] = "stop" /\ Owns(a, d) /\ ~Owns(a, d)'
<1>1. ASSUME Inv, AllSteady, Next, NEW b \in Apps, NEW d \in Drives, Left(b, d)
      PROVE  ~Visible(b, d)
  <2>1. PICK a \in Apps : Enter(a) \/ Step(a) \/ Ends(a) \/ \E e \in Drives : Environment(a, e)
    BY <1>1 DEF Next
  <2>2. b = a
    <3>1. Held(a)
      BY <1>1, <2>1, StepHolds
    <3> QED
      BY <1>1, <3>1 DEF Held
  <2>3. ~Enter(a)
    BY <1>1, <2>2 DEF Enter, Connect, Disconnect, Delete, DeleteProfile, Shutdown, Begin, Create, Save
  <2>4. ~Ends(a)
    BY <1>1, <2>2 DEF Ends, Return, Goto, Inv, TypeOK
  <2>5. \A e \in Drives : ~Environment(a, e)
    BY <1>1, <2>2 DEF Environment, Look, Looked, RcloneMounts, RcloneDies, VolumeGone,
                      WriterWrites, Upload
  <2>6. Reap(a) \/ Quit(a)
    BY <1>1, <2>1, <2>2, <2>3, <2>4, <2>5, LastSteps
  <2>7. local[a].drive \in Drives /\ Owns(a, local[a].drive)
    BY <1>1, <2>2, OwningKnows DEF Owning
  <2>8. ~Fail(a)
    BY <1>1, <2>2, <2>7, SetStateOwned DEF Fail, States, Inv
  <2>9. d = local[a].drive
    <3>1. Released(a, local[a].drive)
      BY <2>6, <2>8 DEF Reap, Quit
    <3> QED
      BY <1>1, <2>2, <2>7, <3>1, ReleasedOwned DEF Inv
  <2>10. CASE Reap(a)
    BY <1>1, <2>2, <2>8, <2>9, <2>10 DEF Reap, Removed, Busy
  <2>11. CASE Quit(a)
    BY <1>1, <2>2, <2>9, <2>11 DEF Quit, AllSteady, Steady, SteadyAt, Visible
  <2> QED
    BY <2>6, <2>10, <2>11
<1>2. Inv /\ AllSteady /\ Lonely /\ [Next]_vars =>
        [\A a \in Apps, d \in Drives :
           (pc[a] = "quit" \/ (pc[a] = "reap" /\ mount[a][d].mounted))
             /\ pc'[a] = "stop" /\ Owns(a, d) /\ ~Owns(a, d)' => ~Visible(a, d)]_vars
  BY <1>1
<1> QED
  BY <1>2, Steadiness, PTL DEF Spec, LeavesNoVolume
=============================================================================
