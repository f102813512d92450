------------------------------ MODULE SsmProofs ------------------------------
(***************************************************************************)
(* Systems Manager from both sides: its sessions, and Run Command from the *)
(* Secrets page.                                                           *)
(*                                                                         *)
(* What the ownership of sessions and processes buys, for any number of    *)
(* threads and connections and whatever fails: nothing that was started is *)
(* left without a keeper, and nothing is ended or recorded twice.          *)
(*                                                                         *)
(* What the generations of the Secrets page buy: whatever the order in     *)
(* which answers come in, nothing of an earlier profile is shown, no       *)
(* command goes where the user did not agree to, what is revealed is       *)
(* hidden again, and no button stays shut for an answer that is ignored.   *)
(***************************************************************************)
EXTENDS Connections, Secrets, TLAPS

-----------------------------------------------------------------------------
(* Sessions: the inductive invariant *)

Typed ==
  /\ pc \in [Callers -> Labels] /\ local \in [Callers -> Locals]
  /\ aws \in [Ops -> {"none", "open", "ended"}] /\ ends \in [Ops -> Nat]
  /\ proc \in [Ops -> {"none", "running", "clean", "crashed", "killed"}]
  /\ stuck \subseteq Ops
  /\ owned \subseteq Managed /\ managed \subseteq Tunnels /\ external \subseteq Terminals
  /\ owner \in [Ops -> Profiles \cup {Nobody}]
  /\ records \in [Terminals -> [success : Nat, failure : Nat]]

\* A caller that makes a connection, from its first step to its last one.
Connecting == {"prepare", "session", "launch", "own", "announce", "register", "wait", "close"}
Connects(c, o) == Holds(c, o, Connecting)

\* An operation id that was used, by nobody who is still connecting it.
Past(o) == owner[o] # Nobody /\ \A c \in Callers : ~Connects(c, o)

Untold(o) == o \in Terminals => records[o].success = 0 /\ records[o].failure = 0

\* What holds of an operation id that nobody has used, ...
Unused(o) == owner[o] = Nobody =>
  /\ aws[o] = "none" /\ proc[o] = "none" /\ ends[o] = 0
  /\ o \notin owned \cup managed \cup external
  /\ Untold(o) /\ \A c \in Callers : ~Connects(c, o)

\* ... and of every one: it is ended and recorded once, what runs is in care, and
\* what is owned is in a table or on its way there.
Once(o) ==
  /\ ends[o] <= 1
  /\ o \in Terminals => records[o].success + records[o].failure <= 1
  /\ o \in external => Untold(o)
Cared(o) ==
  /\ aws[o] = "open" /\ ends[o] = 0 => InCare(o)
  /\ proc[o] = "running" /\ o \notin stuck => InCare(o)
Tracked(o) ==
  /\ o \in owned => \/ o \in managed \cup external
                    \/ \E c \in Callers : Holds(c, o, {"announce", "register"})
  /\ o \in managed => o \in owned
OpOK(o) == Unused(o) /\ Once(o) /\ Cared(o) /\ Tracked(o)

\* What a call knows of the connection it makes, ...
Stage(c, o) ==
  /\ pc[c] \in {"prepare", "session"} => aws[o] = "none"
  /\ pc[c] \in {"prepare", "session", "launch"} => proc[o] = "none"
  /\ pc[c] \in {"prepare", "session", "launch", "own", "wait", "close"} =>
       o \notin owned /\ ends[o] = 0
  /\ pc[c] \in {"own", "announce", "register"} => o \in Managed
  /\ pc[c] \in {"announce", "register"} => o \in owned
  /\ pc[c] \in {"wait", "close"} => o \in Runs
  /\ pc[c] = "close" => proc[o] # "running" \/ o \in stuck
Made(c) == LET o == local[c].op IN
  pc[c] \in Connecting =>
    /\ o \in Ops /\ owner[o] # Nobody /\ o \notin managed \cup external /\ Untold(o)
    /\ \A d \in Callers \ {c} : ~Connects(d, o)
    /\ Stage(c, o)

\* ... and of the connections it visits: none of them is being made.
Visiting == {"reap", "note", "halt", "halting", "forget"}
Seen(c) == LET o == local[c].op IN
  /\ pc[c] \in {"idle", "watchLock"} => o = Nobody
  /\ pc[c] \in Visiting => local[c].todo \subseteq Terminals
  /\ pc[c] \in Visiting \cup {"watch"} => \A x \in local[c].todo : x \in Ops /\ Past(x)
  /\ pc[c] \in {"note", "halting", "forget"} => o \in Terminals /\ Past(o)
  /\ pc[c] = "note" => /\ local[c].got \in {"running", "success", "failure"}
                       /\ local[c].got # "running" => o \notin owned
  /\ pc[c] = "forget" => o \notin owned
Knows(c) == Made(c) /\ Seen(c)

Inv == Typed /\ (\A o \in Ops : OpOK(o)) /\ (\A c \in Callers : Knows(c))

-----------------------------------------------------------------------------
(* What is enough for a step of one caller to keep the invariant *)

\* Only c moves.
Moves(c) ==
  /\ pc' \in [Callers -> Labels] /\ local' \in [Callers -> Locals]
  /\ \A d \in Callers \ {c} : pc'[d] = pc[d] /\ local'[d] = local[d]

DataTyped ==
  /\ aws' \in [Ops -> {"none", "open", "ended"}] /\ ends' \in [Ops -> Nat]
  /\ proc' \in [Ops -> {"none", "running", "clean", "crashed", "killed"}]
  /\ stuck' \subseteq Ops
  /\ owned' \subseteq Managed /\ managed' \subseteq Tunnels /\ external' \subseteq Terminals
  /\ owner' \in [Ops -> Profiles \cup {Nobody}]
  /\ records' \in [Terminals -> [success : Nat, failure : Nat]]

\* Nothing changes for any connection but o.
Alone(o) == \A p \in Ops \ {o} :
  /\ aws'[p] = aws[p] /\ ends'[p] = ends[p] /\ proc'[p] = proc[p] /\ owner'[p] = owner[p]
  /\ p \in stuck' <=> p \in stuck
  /\ p \in owned' <=> p \in owned
  /\ p \in managed' <=> p \in managed
  /\ p \in external' <=> p \in external
  /\ p \in Terminals => records'[p] = records[p]

Down(o) == proc[o] # "running" \/ o \in stuck

\* What c connects is o, and nobody else connects o.  A step that is about no
\* connection is about an o that is none.
InHand(c, o) ==
  /\ \A x \in Ops : Connects(c, x) \/ Connects(c, x)' => x = o
  /\ o \in Ops =>
       /\ owner[o] = Nobody \/ Connects(c, o) \/ Past(o)
       /\ Connects(c, o)' => owner[o] = Nobody \/ Connects(c, o)
       /\ owner'[o] # Nobody
       /\ owner[o] = Nobody \/ owner'[o] = owner[o]
       /\ o \in owned' => o \in owned \/ Connects(c, o)
       /\ Past(o) /\ Down(o) => Down(o)'

\* What stays of a connection when its caller is done with it: whose it is, and
\* that its process is down.
Stays == \A x \in Ops : Past(x) =>
  Past(x)' /\ owner'[x] = owner[x] /\ (Down(x) => Down(x)')
Kept(c) == Inv' /\ Moves(c) /\ Stays

LEMMA StepKeeps ==
  ASSUME Inv, NEW c \in Callers, NEW o, Moves(c), DataTyped, Alone(o), InHand(c, o),
         Knows(c)', o \in Ops => OpOK(o)'
  PROVE  Kept(c)
<1>1. Typed'
  BY DEF Typed, Moves, DataTyped
<1>2. \A d \in Callers \ {c}, x \in Ops : Connects(d, x)' = Connects(d, x)
  BY DEF Moves, Connects, Holds
<1>3. ASSUME NEW d \in Callers \ {c}, NEW x \in Ops, Connects(d, x) PROVE x # o
  <2>1. \A e \in Callers \ {d} : ~Connects(e, x)
    BY <1>3 DEF Inv, Knows, Made, Connects, Holds
  <2>2. owner[x] # Nobody
    BY <1>3 DEF Inv, Knows, Made, Connects, Holds
  <2> QED
    BY <1>3, <2>1, <2>2 DEF InHand, Past
<1>4. ASSUME NEW x \in Ops, Past(x) PROVE Past(x)'
  <2>1. owner'[x] # Nobody
    BY <1>4 DEF Past, Alone, InHand
  <2>2. \A d \in Callers : ~Connects(d, x)'
    BY <1>2, <1>4 DEF Past, InHand
  <2> QED
    BY <2>1, <2>2 DEF Past
<1>5. ASSUME NEW d \in Callers \ {c} PROVE Made(d)'
  <2>1. pc'[d] = pc[d] /\ local'[d] = local[d] /\ Made(d)
    BY DEF Moves, Inv, Knows
  <2>2. CASE pc[d] \notin Connecting
    BY <2>1, <2>2 DEF Made, Connecting
  <2>3. CASE pc[d] \in Connecting
    <3> DEFINE x == local[d].op
    <3>1. x \in Ops /\ Connects(d, x)
      BY <2>1, <2>3 DEF Made, Connects, Holds
    <3>2. x # o /\ local'[d].op = x
      BY <1>3, <2>1, <3>1
    <3>3. \A e \in Callers \ {d} : ~Connects(e, x)
      BY <2>1, <2>3 DEF Made
    <3>4. \A e \in Callers \ {d} : ~Connects(e, x)'
      BY <1>2, <3>1, <3>2, <3>3 DEF InHand
    <3>5. \A e \in Callers \ {d} : ~Connects(e, local[d].op)'
      BY <3>2, <3>4, <2>1 DEF Connects, Holds
    <3>6. Untold(x) = Untold(x)'
      BY <3>1, <3>2 DEF Alone, Untold
    <3> QED
      BY <2>1, <2>3, <3>1, <3>2, <3>5, <3>6 DEF Made, Stage, Alone, Untold
  <2> QED
    BY <2>2, <2>3
<1>6. ASSUME NEW d \in Callers \ {c} PROVE Seen(d)'
  <2>1. pc'[d] = pc[d] /\ local'[d] = local[d] /\ Seen(d)
    BY DEF Moves, Inv, Knows
  <2>2. ASSUME NEW x \in Ops, Past(x), x \notin owned PROVE x \notin owned'
    BY <2>2 DEF Alone, InHand, Past
  <2>3. Terminals \subseteq Ops
    BY DEF Ops, Managed
  <2>4. pc[d] \in Visiting \cup {"watch"} => \A x \in local[d].todo : x \in Ops /\ Past(x)'
    BY <1>4, <2>1 DEF Seen
  <2>5. CASE pc[d] \in {"note", "halting", "forget"}
    <3>1. PICK x \in Ops : x = local[d].op /\ Past(x) /\ x \in Terminals
      BY <2>1, <2>3, <2>5 DEF Seen
    <3>2. Past(x)'
      BY <1>4, <3>1
    <3>3. Past(local[d].op)'
      BY <2>1, <3>1, <3>2 DEF Past, Connects, Holds
    <3>4. x \notin owned => x \notin owned'
      BY <2>2, <3>1
    <3> QED
      BY <2>1, <2>4, <2>5, <3>1, <3>3, <3>4 DEF Seen, Visiting
  <2>6. CASE pc[d] \notin {"note", "halting", "forget"}
    BY <2>1, <2>4, <2>6 DEF Seen, Visiting
  <2> QED
    BY <2>5, <2>6
<1>7. ASSUME NEW p \in Ops \ {o} PROVE OpOK(p)'
  <2>1. OpOK(p)
    BY DEF Inv
  <2>2. ASSUME NEW d \in Callers, ~Connects(d, p) PROVE ~Connects(d, p)'
    <3>1. CASE d = c
      BY <3>1 DEF InHand
    <3>2. CASE d # c
      BY <1>2, <2>2, <3>2
    <3> QED
      BY <3>1, <3>2
  <2>3. Unused(p)'
    BY <2>1, <2>2 DEF OpOK, Unused, Alone, Untold
  <2>4. Once(p)'
    BY <2>1 DEF OpOK, Once, Alone, Untold
  <2>5. ASSUME NEW d \in Callers, NEW labels \in SUBSET Connecting, Holds(d, p, labels)
        PROVE  Holds(d, p, labels)'
    <3>1. Connects(d, p)
      BY <2>5 DEF Connects, Holds
    <3>2. d # c
      BY <3>1 DEF InHand
    <3> QED
      BY <2>5, <3>2 DEF Moves, Holds
  <2>6. InCare(p) => InCare(p)'
    <3>1. {"launch", "own", "wait", "close"} \subseteq Connecting
      BY DEF Connecting
    <3> QED
      BY <2>5, <3>1 DEF InCare, Alone
  <2>7. Cared(p)'
    BY <2>1, <2>6 DEF OpOK, Cared, Alone
  <2>8. Tracked(p)'
    <3>1. {"announce", "register"} \subseteq Connecting
      BY DEF Connecting
    <3> QED
      BY <2>1, <2>5, <3>1 DEF OpOK, Tracked, Alone
  <2> QED
    BY <2>3, <2>4, <2>7, <2>8 DEF OpOK
<1>8. Stays
  BY <1>4 DEF Stays, Alone, InHand, Past, Down
<1> QED
  BY <1>1, <1>5, <1>6, <1>7, <1>8 DEF Inv, Knows, Kept

\* A step that goes on with the connection c makes, or gives it up.
LEMMA MakeKeeps ==
  ASSUME Inv, NEW c \in Callers, NEW o, o = local[c].op, pc[c] \in Connecting, Moves(c),
         \/ pc'[c] = "idle" /\ local'[c] = Blank
         \/ pc'[c] \in Connecting /\ local'[c] = local[c] /\ Made(c)',
         DataTyped, Alone(o), UNCHANGED owner, OpOK(o)'
  PROVE  Kept(c)
<1>1. o \in Ops /\ owner[o] # Nobody /\ Connects(c, o)
  BY DEF Inv, Knows, Made, Connects, Holds
<1>2. \A x \in Ops : Connects(c, x) \/ Connects(c, x)' => x = o
  BY DEF Connects, Holds, Connecting
<1>3. InHand(c, o)
  <2>1. ~Past(o)
    BY <1>1 DEF Past
  <2> QED
    BY <1>1, <1>2, <2>1 DEF InHand
<1>4. Knows(c)'
  <2>1. CASE pc'[c] = "idle" /\ local'[c] = Blank
    BY <2>1 DEF Knows, Made, Seen, Connecting, Visiting, Blank
  <2>2. CASE pc'[c] \in Connecting /\ local'[c] = local[c] /\ Made(c)'
    BY <2>2 DEF Knows, Seen, Connecting, Visiting
  <2> QED
    BY <2>1, <2>2
<1> QED
  BY <1>1, <1>3, <1>4, StepKeeps

\* The bonds of the connection c makes hold as long as it is in no table.
LEMMA StillMine ==
  ASSUME Inv, NEW c \in Callers, NEW o, o = local[c].op, pc[c] \in Connecting, Moves(c),
         local'[c] = local[c], UNCHANGED <<owner, managed, external, records>>
  PROVE  /\ o \in Ops /\ owner'[o] # Nobody /\ o \notin managed' \cup external' /\ Untold(o)'
         /\ local'[c].op = o
         /\ \A d \in Callers \ {c} : ~Connects(d, local[c].op)'
<1>1. \A d \in Callers \ {c} : ~Connects(d, o)
  BY DEF Inv, Knows, Made
<1>2. \A d \in Callers \ {c} : ~Connects(d, local[c].op)'
  BY <1>1 DEF Moves, Connects, Holds
<1> QED
  BY <1>2 DEF Inv, Knows, Made, Untold

\* What the runner does to an operation it may own.
RunnerTyped(o) ==
  /\ aws' \in [Ops -> {"none", "open", "ended"}] /\ ends' \in [Ops -> Nat]
  /\ proc' \in [Ops -> {"none", "running", "clean", "crashed", "killed"}]
  /\ stuck' \subseteq Ops /\ owned' \subseteq owned
  /\ \A p \in Ops \ {o} :
       /\ aws'[p] = aws[p] /\ ends'[p] = ends[p] /\ proc'[p] = proc[p]
       /\ p \in stuck' <=> p \in stuck
       /\ p \in owned' <=> p \in owned

Reclaimed(o) ==
  o \notin owned' /\ ends'[o] = 1 /\ (proc'[o] # "running" \/ o \in stuck')

Runner(o) == RunnerTyped(o) /\ (UNCHANGED <<aws, ends, proc, stuck, owned>> \/ Reclaimed(o))

\* A caller that connects nothing visits o, which nobody connects, or no connection.
LEMMA VisitKeeps ==
  ASSUME Inv, NEW c \in Callers, NEW o, pc[c] \notin Connecting, Moves(c),
         pc'[c] \notin Connecting, DataTyped, Alone(o), UNCHANGED owner,
         o \in Ops => Past(o) /\ Runner(o) /\ OpOK(o)',
         Seen(c)'
  PROVE  Kept(c)
<1>1. \A x : ~Connects(c, x) /\ ~Connects(c, x)'
  BY DEF Connects, Holds
<1>2. ASSUME o \in Ops
      PROVE  /\ Past(o) /\ owner[o] # Nobody /\ (o \in owned' => o \in owned)
             /\ Down(o) => Down(o)'
  <2>1. Past(o) /\ owner[o] # Nobody /\ Runner(o)
    BY <1>2 DEF Past
  <2>2. o \in owned' => o \in owned
    BY <2>1 DEF Runner, RunnerTyped
  <2>3. Down(o) => Down(o)'
    BY <2>1 DEF Runner, Reclaimed, Down
  <2> QED
    BY <2>1, <2>2, <2>3
<1>3. InHand(c, o)
  BY <1>1, <1>2 DEF InHand
<1>4. Made(c)'
  BY DEF Made, Connecting
<1> QED
  BY <1>3, <1>4, StepKeeps DEF Knows

LEMMA PastStays ==
  ASSUME NEW c \in Callers, Moves(c), pc'[c] \notin Connecting, UNCHANGED owner,
         NEW x, Past(x)
  PROVE  Past(x)'
BY DEF Past, Moves, Connects, Holds

Same == UNCHANGED <<aws, ends, proc, stuck, owned, managed, external, owner, records>>

LEMMA QuietKeeps ==
  ASSUME Inv, NEW c \in Callers, pc[c] \notin Connecting, Moves(c),
         pc'[c] \notin Connecting, Same, Seen(c)'
  PROVE  Kept(c)
<1>1. DataTyped
  BY DEF Inv, Typed, DataTyped, Same
<1>2. Alone(Nobody)
  BY DEF Alone, Same
<1>3. Nobody \notin Ops
  BY ConnectionsAssumption
<1> QED
  BY <1>1, <1>2, <1>3, VisitKeeps DEF Same

\* What is in a table is nobody's any more.
LEMMA TableIsPast ==
  ASSUME Inv, NEW o \in managed \cup external
  PROVE  o \in Ops /\ Past(o)
<1>1. o \in Ops
  BY DEF Inv, Typed, Ops, Managed
<1>2. owner[o] # Nobody
  BY <1>1 DEF Inv, OpOK, Unused
<1>3. \A d \in Callers : ~Connects(d, o)
  BY DEF Inv, Knows, Made, Connects, Holds
<1> QED
  BY <1>1, <1>2, <1>3 DEF Past

-----------------------------------------------------------------------------
(* Moves *)

LEMMA GoesTo ==
  ASSUME Typed, NEW c \in Callers, NEW l \in Labels, Goto(c, l), UNCHANGED local
  PROVE  Moves(c) /\ pc'[c] = l /\ local'[c] = local[c]
BY DEF Typed, Goto, Moves

LEMMA Returns ==
  ASSUME Typed, NEW c \in Callers, Return(c)
  PROVE  Moves(c) /\ pc'[c] = "idle" /\ local'[c] = Blank
<1>1. Blank \in Locals
  BY DEF Blank, Locals, Outcomes
<1>2. "idle" \in Labels
  BY DEF Labels
<1> QED
  BY <1>1, <1>2 DEF Typed, Return, Goto, Moves

\* c goes to l with r for its local variables.
LEMMA GoesWith ==
  ASSUME Typed, NEW c \in Callers, NEW l \in Labels, NEW r \in Locals,
         pc' = [pc EXCEPT ![c] = l], local' = [local EXCEPT ![c] = r]
  PROVE  Moves(c) /\ pc'[c] = l /\ local'[c] = r
BY DEF Typed, Moves

LEMMA StaysWith ==
  ASSUME Typed, NEW c \in Callers, NEW r \in Locals,
         UNCHANGED pc, local' = [local EXCEPT ![c] = r]
  PROVE  Moves(c) /\ pc'[c] = pc[c] /\ local'[c] = r
BY DEF Typed, Moves

-----------------------------------------------------------------------------
(* The runner *)

LEMMA StopProcessDoes ==
  ASSUME Typed, NEW o \in Ops, NEW ok \in BOOLEAN, StopProcess(o, ok)
  PROVE  /\ proc' \in [Ops -> {"none", "running", "clean", "crashed", "killed"}]
         /\ stuck' \subseteq Ops /\ (proc'[o] # "running" \/ o \in stuck')
         /\ \A p \in Ops \ {o} : proc'[p] = proc[p] /\ (p \in stuck' <=> p \in stuck)
BY DEF Typed, StopProcess, process

LEMMA EndSessionDoes ==
  ASSUME Typed, NEW o \in Ops, NEW ok \in BOOLEAN, EndSession(o, ok)
  PROVE  /\ aws' \in [Ops -> {"none", "open", "ended"}] /\ ends' \in [Ops -> Nat]
         /\ ends'[o] = ends[o] + 1
         /\ \A p \in Ops \ {o} : aws'[p] = aws[p] /\ ends'[p] = ends[p]
BY DEF Typed, EndSession

LEMMA ReclaimDoes ==
  ASSUME Inv, NEW o \in Ops, NEW died \in BOOLEAN, NEW answered \in BOOLEAN,
         Reclaim(o, died, answered)
  PROVE  Runner(o) /\ o \notin owned'
<1>1. Typed /\ ends[o] \in {0, 1}
  BY DEF Inv, Typed, OpOK, Once
<1>2. /\ proc' \in [Ops -> {"none", "running", "clean", "crashed", "killed"}]
      /\ stuck' \subseteq Ops /\ (proc'[o] # "running" \/ o \in stuck')
      /\ \A p \in Ops \ {o} : proc'[p] = proc[p] /\ (p \in stuck' <=> p \in stuck)
  BY <1>1, StopProcessDoes DEF Reclaim
<1>3. /\ aws' \in [Ops -> {"none", "open", "ended"}] /\ ends' \in [Ops -> Nat]
      /\ ends'[o] = 1
      /\ \A p \in Ops \ {o} : aws'[p] = aws[p] /\ ends'[p] = ends[p]
  <2>1. CASE ends[o] = 0
    BY <1>1, <2>1, EndSessionDoes DEF Reclaim, EndOnce
  <2>2. CASE ends[o] # 0
    BY <1>1, <2>2 DEF Reclaim, EndOnce, remote, Typed
  <2> QED
    BY <2>1, <2>2
<1>4. owned' = owned \ {o}
  BY DEF Reclaim
<1> QED
  BY <1>2, <1>3, <1>4 DEF Runner, RunnerTyped, Reclaimed

LEMMA NothingDone ==
  ASSUME Typed, NEW o, UNCHANGED <<remote, process, owned>>
  PROVE  Runner(o) /\ UNCHANGED <<aws, ends, proc, stuck, owned>>
BY DEF Typed, Runner, RunnerTyped, remote, process

LEMMA RunnerStopDoes ==
  ASSUME Inv, NEW o \in Ops, NEW error \in BOOLEAN, RunnerStop(o, error)
  PROVE  Runner(o) /\ o \notin owned'
<1>1. CASE o \notin owned /\ UNCHANGED <<remote, process, owned, outcome>>
  BY <1>1, NothingDone DEF Inv
<1>2. ASSUME NEW died \in BOOLEAN, NEW answered \in BOOLEAN, Reclaim(o, died, answered)
      PROVE  Runner(o) /\ o \notin owned'
  BY <1>2, ReclaimDoes
<1> QED
  BY <1>1, <1>2 DEF RunnerStop

LEMMA RunnerStatusDoes ==
  ASSUME Inv, NEW o \in Ops, NEW got \in {"running", "success", "failure"},
         RunnerStatus(o, got)
  PROVE  /\ Runner(o)
         /\ got # "running" => o \notin owned'
         /\ got = "running" => UNCHANGED <<aws, ends, proc, stuck, owned>>
<1>1. CASE o \notin owned /\ got = "failure" /\ UNCHANGED <<remote, process, owned, outcome>>
  BY <1>1, NothingDone DEF Inv
<1>2. CASE got = "running" /\ UNCHANGED <<remote, process, owned, outcome>>
  BY <1>2, NothingDone DEF Inv
<1>3. ASSUME NEW died \in BOOLEAN, NEW answered \in BOOLEAN, Reclaim(o, died, answered),
             got # "running"
      PROVE  Runner(o) /\ o \notin owned' /\ got # "running"
  BY <1>3, ReclaimDoes
<1>4. CASE \E answered \in BOOLEAN :
             /\ Reclaim(o, TRUE, answered)
             /\ got = IF proc[o] = "clean" /\ (answered \/ o \in Terminals)
                      THEN "success" ELSE "failure"
  BY <1>3, <1>4
<1>5. CASE \E died, answered \in BOOLEAN : got = "failure" /\ Reclaim(o, died, answered)
  BY <1>3, <1>5
<1> QED
  BY <1>1, <1>2, <1>4, <1>5 DEF RunnerStatus

\* What a visit leaves of an operation, when no record of it is written.
LEMMA VisitedIsOK ==
  ASSUME Inv, NEW o \in Ops, Past(o), Runner(o), UNCHANGED <<owner, records>>,
         o \in external' => o \in external,
         o \in owned' => o \in managed' \cup external',
         o \in managed' => o \in owned'
  PROVE  OpOK(o)'
<1>1. OpOK(o) /\ owner[o] # Nobody
  BY DEF Inv, Past
<1>2. Unused(o)'
  BY <1>1 DEF Unused
<1>3. Once(o)'
  BY <1>1 DEF OpOK, Once, Untold, Runner, Reclaimed
<1>4. Cared(o)'
  <2>1. CASE Reclaimed(o)
    BY <2>1 DEF Reclaimed, Cared
  <2>2. CASE UNCHANGED <<aws, ends, proc, stuck, owned>>
    <3>1. InCare(o) => o \in owned
      BY DEF Past, InCare, Connects, Holds, Connecting
    <3> QED
      BY <1>1, <2>2, <3>1 DEF OpOK, Cared, InCare
  <2> QED
    BY <2>1, <2>2 DEF Runner
<1>5. Tracked(o)'
  BY DEF Tracked
<1> QED
  BY <1>2, <1>3, <1>4, <1>5 DEF OpOK

-----------------------------------------------------------------------------
(* Connecting *)

LEMMA SameData ==
  ASSUME Inv, Same
  PROVE  DataTyped /\ \A o : Alone(o)
BY DEF Inv, Typed, DataTyped, Same, Alone

\* What the stage of a connection says keeps it in care, and on its way to a table.
LEMMA StageIsOK ==
  ASSUME NEW c \in Callers, NEW o \in Ops, pc'[c] \in Connecting, local'[c].op = o,
         owner'[o] # Nobody, o \notin managed', o \notin external', Untold(o)',
         ends'[o] \in {0, 1}, Stage(c, o)'
  PROVE  OpOK(o)'
<1>1. Unused(o)' /\ Once(o)'
  BY DEF Unused, Once, Untold
<1>2. Cared(o)'
  <2>1. CASE pc'[c] \in {"prepare", "session"}
    BY <2>1 DEF Stage, Cared
  <2>2. CASE pc'[c] \in {"launch", "own", "wait", "close"}
    BY <2>2 DEF Cared, InCare, Holds
  <2>3. CASE pc'[c] \in {"announce", "register"}
    BY <2>3 DEF Stage, Cared, InCare
  <2> QED
    BY <2>1, <2>2, <2>3 DEF Connecting
<1>3. Tracked(o)'
  <2>1. CASE pc'[c] \in {"announce", "register"}
    BY <2>1 DEF Tracked, Holds
  <2>2. CASE pc'[c] \notin {"announce", "register"}
    BY <2>2 DEF Tracked, Stage, Connecting
  <2> QED
    BY <2>1, <2>2
<1> QED
  BY <1>1, <1>2, <1>3 DEF OpOK

\* The connection c makes goes on to the stage l, ...
LEMMA GoOnKeeps ==
  ASSUME Inv, NEW c \in Callers, NEW o \in Ops, o = local[c].op, pc[c] \in Connecting,
         NEW l \in Connecting, Goto(c, l), UNCHANGED local,
         UNCHANGED <<owner, managed, external, records>>, DataTyped, Alone(o),
         ends'[o] \in {0, 1}, Stage(c, o)'
  PROVE  Kept(c)
<1>1. Moves(c) /\ pc'[c] = l /\ local'[c] = local[c]
  <2>1. l \in Labels
    BY DEF Connecting, Labels
  <2> QED
    BY <2>1, GoesTo DEF Inv
<1>2. /\ owner'[o] # Nobody /\ o \notin managed' \cup external' /\ Untold(o)'
      /\ local'[c].op = o /\ \A d \in Callers \ {c} : ~Connects(d, local[c].op)'
  BY <1>1, StillMine
<1>3. Stage(c, local[c].op)'
  BY <1>2 DEF Stage
<1>4. Untold(local[c].op)'
  BY <1>2 DEF Untold
<1>5. Made(c)'
  BY <1>1, <1>2, <1>3, <1>4 DEF Made
<1>6. OpOK(o)'
  BY <1>1, <1>2, StageIsOK
<1> QED
  BY <1>1, <1>5, <1>6, MakeKeeps

\* ... or is given up.
LEMMA GiveUpKeeps ==
  ASSUME Inv, NEW c \in Callers, NEW o \in Ops, o = local[c].op, pc[c] \in Connecting,
         Return(c), UNCHANGED <<owner, managed, external, records>>, DataTyped, Alone(o),
         o \notin owned', ends'[o] \in {0, 1},
         \/ aws'[o] = "none" /\ proc'[o] = "none"
         \/ ends'[o] = 1 /\ (proc'[o] # "running" \/ o \in stuck')
  PROVE  Kept(c)
<1>1. owner[o] # Nobody /\ o \notin managed \cup external /\ Untold(o)
  BY DEF Inv, Knows, Made
<1>2. owner'[o] # Nobody /\ o \notin owned' \cup managed' \cup external' /\ Untold(o)'
  BY <1>1 DEF Untold
<1>3. OpOK(o)'
  BY <1>2 DEF OpOK, Unused, Once, Untold, Cared, Tracked
<1> QED
  BY <1>3, Returns, MakeKeeps DEF Inv

\* What the invariant says of the connection a caller makes.
LEMMA OfMine ==
  ASSUME Inv, NEW c \in Callers, pc[c] \in Connecting
  PROVE  Typed /\ Stage(c, local[c].op) /\ local[c].op \in Ops
BY DEF Inv, Knows, Made

LEMMA ConnectKeeps ==
  ASSUME Inv, NEW c \in Callers, NEW o \in Ops, NEW p \in Profiles, Connect(c, o, p)
  PROVE  Kept(c)
<1>1. /\ pc[c] = "idle" /\ owner[o] = Nobody /\ owner' = [owner EXCEPT ![o] = p]
      /\ UNCHANGED <<aws, ends, proc, stuck, owned, managed, external, records>>
  BY DEF Connect, remote, process, tables, logs
<1>2. /\ aws[o] = "none" /\ proc[o] = "none" /\ ends[o] = 0
      /\ o \notin owned \cup managed \cup external
      /\ Untold(o) /\ \A d \in Callers : ~Connects(d, o)
  BY <1>1 DEF Inv, OpOK, Unused
<1>3. /\ Moves(c) /\ pc'[c] = "prepare" /\ local'[c].op = o
  <2>0. local[c] \in Locals
    BY DEF Inv, Typed
  <2>1. [local[c] EXCEPT !.op = o] \in Locals
    BY <2>0 DEF Locals
  <2>2. /\ local' = [local EXCEPT ![c] = [local[c] EXCEPT !.op = o]]
        /\ pc' = [pc EXCEPT ![c] = "prepare"]
    BY DEF Connect, Goto
  <2>3. "prepare" \in Labels /\ Typed
    BY DEF Labels, Inv
  <2>4. Moves(c) /\ pc'[c] = "prepare" /\ local'[c] = [local[c] EXCEPT !.op = o]
    BY <2>1, <2>2, <2>3, GoesWith
  <2> QED
    BY <2>4 DEF Inv, Typed, Locals
<1>4. owner'[o] # Nobody /\ owner' \in [Ops -> Profiles \cup {Nobody}]
  BY <1>1, ConnectionsAssumption DEF Inv, Typed
<1>5. DataTyped /\ Alone(o)
  BY <1>1, <1>4 DEF Inv, Typed, DataTyped, Alone
<1>6. InHand(c, o)
  <2>1. \A x \in Ops : Connects(c, x) \/ Connects(c, x)' => x = o
    BY <1>1, <1>3 DEF Connects, Holds, Connecting
  <2>2. ~Past(o)
    BY <1>1 DEF Past
  <2> QED
    BY <1>1, <1>4, <2>1, <2>2 DEF InHand
<1>7. Untold(o)' /\ Stage(c, o)'
  BY <1>1, <1>2, <1>3 DEF Untold, Stage
<1>8. Knows(c)'
  <2>1. \A d \in Callers \ {c} : ~Connects(d, local[c].op)'
    BY <1>2, <1>3 DEF Moves, Connects, Holds
  <2>2. Stage(c, local[c].op)' /\ Untold(local[c].op)'
    BY <1>3, <1>7 DEF Stage, Untold
  <2>3. Made(c)'
    BY <1>1, <1>2, <1>3, <1>4, <2>1, <2>2 DEF Made
  <2> QED
    BY <1>3, <2>3 DEF Knows, Seen, Visiting
<1>9. OpOK(o)'
  BY <1>1, <1>2, <1>4, <1>7 DEF OpOK, Unused, Once, Untold, Cared, Tracked
<1> QED
  BY <1>3, <1>5, <1>6, <1>8, <1>9, StepKeeps

LEMMA PrepareKeeps ==
  ASSUME Inv, NEW c \in Callers, Prepare(c)
  PROVE  Kept(c)
<1>1. pc[c] = "prepare" /\ pc[c] \in Connecting /\ Same
  BY DEF Prepare, Connecting, Same, remote, process, tables, logs
<1>2. PICK o \in Ops : o = local[c].op /\ Stage(c, o)
  BY <1>1, OfMine
<1>3. DataTyped /\ Alone(o)
  BY <1>1, SameData
<1>4. aws'[o] = "none" /\ proc'[o] = "none" /\ ends'[o] = 0 /\ o \notin owned'
  BY <1>1, <1>2 DEF Stage, Same
<1>5. CASE Return(c)
  BY <1>1, <1>2, <1>3, <1>4, <1>5, GiveUpKeeps DEF Same
<1>6. CASE Goto(c, "session") /\ UNCHANGED local
  <2>1. pc'[c] = "session" /\ "session" \in Connecting
    BY <1>6 DEF Goto, Inv, Typed, Connecting
  <2>2. Stage(c, o)'
    BY <1>4, <2>1 DEF Stage
  <2> QED
    BY <1>1, <1>2, <1>3, <1>4, <1>6, <2>1, <2>2, GoOnKeeps DEF Same
<1> QED
  BY <1>5, <1>6 DEF Prepare

LEMMA StartSessionKeeps ==
  ASSUME Inv, NEW c \in Callers, StartSession(c)
  PROVE  Kept(c)
<1>1. /\ pc[c] = "session" /\ pc[c] \in Connecting
      /\ UNCHANGED <<ends, proc, stuck, owned, managed, external, owner, records>>
  BY DEF StartSession, Connecting, process, tables, logs
<1>2. PICK o \in Ops : o = local[c].op /\ Stage(c, o)
  BY <1>1, OfMine
<1>3. aws[o] = "none" /\ proc'[o] = "none" /\ ends'[o] = 0 /\ o \notin owned'
  BY <1>1, <1>2 DEF Stage
<1>4. CASE Return(c) /\ UNCHANGED aws
  <2>1. DataTyped /\ Alone(o)
    BY <1>1, <1>4, SameData DEF Same
  <2> QED
    BY <1>1, <1>2, <1>3, <1>4, <2>1, GiveUpKeeps
<1>5. CASE aws' = [aws EXCEPT ![o] = "open"] /\ Goto(c, "launch") /\ UNCHANGED local
  <2>1. pc'[c] = "launch" /\ "launch" \in Connecting
    BY <1>5 DEF Goto, Inv, Typed, Connecting
  <2>2. Stage(c, o)'
    BY <1>3, <2>1 DEF Stage
  <2>3. DataTyped /\ Alone(o)
    BY <1>1, <1>5 DEF Inv, Typed, DataTyped, Alone
  <2> QED
    BY <1>1, <1>2, <1>3, <1>5, <2>1, <2>2, <2>3, GoOnKeeps
<1> QED
  BY <1>2, <1>4, <1>5 DEF StartSession

LEMMA LaunchKeeps ==
  ASSUME Inv, NEW c \in Callers, Launch(c)
  PROVE  Kept(c)
<1>1. /\ pc[c] = "launch" /\ pc[c] \in Connecting
      /\ UNCHANGED <<stuck, owned, managed, external, owner, records>>
  BY DEF Launch, Connecting, tables, logs
<1>2. PICK o \in Ops : o = local[c].op /\ Stage(c, o)
  BY <1>1, OfMine
<1>3. proc[o] = "none" /\ ends[o] = 0 /\ o \notin owned'
  BY <1>1, <1>2 DEF Stage
<1>4. CASE Launched(c)
  <2>1. /\ proc' = [proc EXCEPT ![o] = "running"] /\ UNCHANGED <<aws, ends, local>>
        /\ Goto(c, IF o \in Runs THEN "wait" ELSE "own")
    BY <1>2, <1>4 DEF Launched, remote
  <2>2. PICK l \in {"wait", "own"} : Goto(c, l) /\ (l = "wait" <=> o \in Runs)
    BY <2>1
  <2>3. pc'[c] = l /\ l \in Connecting
    BY <2>2 DEF Goto, Inv, Typed, Connecting
  <2>4. Stage(c, o)'
    BY <1>3, <2>1, <2>2, <2>3 DEF Stage, Ops
  <2>5. DataTyped /\ Alone(o)
    BY <1>1, <2>1 DEF Inv, Typed, DataTyped, Alone
  <2> QED
    BY <1>1, <1>2, <1>3, <2>1, <2>2, <2>3, <2>4, <2>5, GoOnKeeps
<1>5. ASSUME NEW ok \in BOOLEAN, EndSession(o, ok), Return(c), UNCHANGED proc
      PROVE  Kept(c)
  <2>1. /\ aws' \in [Ops -> {"none", "open", "ended"}] /\ ends' \in [Ops -> Nat]
        /\ ends'[o] = 1
        /\ \A p \in Ops \ {o} : aws'[p] = aws[p] /\ ends'[p] = ends[p]
    BY <1>3, <1>5, EndSessionDoes DEF Inv
  <2>2. DataTyped /\ Alone(o)
    BY <1>1, <1>5, <2>1 DEF Inv, Typed, DataTyped, Alone
  <2> QED
    BY <1>1, <1>2, <1>3, <1>5, <2>1, <2>2, GiveUpKeeps
<1> QED
  BY <1>2, <1>4, <1>5 DEF Launch

LEMMA OwnKeeps ==
  ASSUME Inv, NEW c \in Callers, Own(c)
  PROVE  Kept(c)
<1>1. /\ pc[c] = "own" /\ pc[c] \in Connecting /\ Goto(c, "announce")
      /\ UNCHANGED <<aws, ends, proc, stuck, managed, external, owner, records, local>>
  BY DEF Own, Connecting, remote, process, logs
<1>2. PICK o \in Ops : o = local[c].op /\ Stage(c, o)
  BY <1>1, OfMine
<1>3. ends'[o] = 0 /\ o \in Managed /\ owned' = owned \cup {o}
  BY <1>1, <1>2 DEF Stage, Own
<1>4. pc'[c] = "announce" /\ "announce" \in Connecting
  BY <1>1 DEF Goto, Inv, Typed, Connecting
<1>5. Stage(c, o)'
  BY <1>3, <1>4 DEF Stage
<1>6. DataTyped /\ Alone(o)
  BY <1>1, <1>3 DEF Inv, Typed, DataTyped, Alone
<1> QED
  BY <1>1, <1>2, <1>3, <1>4, <1>5, <1>6, GoOnKeeps

LEMMA AnnounceKeeps ==
  ASSUME Inv, NEW c \in Callers, Announce(c)
  PROVE  Kept(c)
<1>1. /\ pc[c] = "announce" /\ pc[c] \in Connecting
      /\ UNCHANGED <<managed, external, owner, records>>
  BY DEF Announce, Connecting
<1>2. PICK o \in Ops : o = local[c].op /\ Stage(c, o)
  BY <1>1, OfMine
<1>3. o \in Managed /\ o \in owned /\ ends[o] \in {0, 1}
  BY <1>1, <1>2 DEF Stage, Inv, OpOK, Once, Typed
<1>4. CASE Goto(c, "register") /\ UNCHANGED <<remote, process, owned, outcome, local>>
  <2>1. Same
    BY <1>1, <1>4 DEF Same, remote, process
  <2>2. DataTyped /\ Alone(o)
    BY <2>1, SameData
  <2>3. pc'[c] = "register" /\ "register" \in Connecting
    BY <1>4 DEF Goto, Inv, Typed, Connecting
  <2>4. Stage(c, o)'
    BY <1>3, <2>1, <2>3 DEF Stage, Same
  <2>5. ends'[o] \in {0, 1}
    BY <1>3, <2>1 DEF Same
  <2> QED
    BY <1>1, <1>2, <1>4, <2>2, <2>3, <2>4, <2>5, GoOnKeeps
<1>5. ASSUME NEW error \in BOOLEAN, RunnerStop(o, error), Return(c)
      PROVE  Kept(c)
  <2>1. Runner(o) /\ o \notin owned'
    BY <1>5, RunnerStopDoes
  <2>2. Reclaimed(o)
    BY <1>3, <2>1 DEF Runner
  <2>3. DataTyped /\ Alone(o)
    BY <1>1, <2>1 DEF Inv, Typed, DataTyped, Alone, Runner, RunnerTyped
  <2> QED
    BY <1>1, <1>2, <1>5, <2>1, <2>2, <2>3, GiveUpKeeps DEF Reclaimed
<1> QED
  BY <1>2, <1>4, <1>5 DEF Announce

LEMMA RegisterKeeps ==
  ASSUME Inv, NEW c \in Callers, Register(c)
  PROVE  Kept(c)
<1>1. /\ pc[c] = "register" /\ pc[c] \in Connecting /\ Return(c)
      /\ UNCHANGED <<aws, ends, proc, stuck, owned, owner, records>>
  BY DEF Register, Connecting, remote, process, logs
<1>2. PICK o \in Ops : o = local[c].op /\ Stage(c, o)
  BY <1>1, OfMine
<1>3. o \in owned /\ OpOK(o)
  BY <1>1, <1>2 DEF Stage, Inv
<1>4. owner[o] # Nobody /\ Untold(o)
  BY <1>1, <1>2 DEF Inv, Knows, Made
<1>5. \/ o \in Tunnels /\ managed' = managed \cup {o} /\ UNCHANGED external
      \/ o \in Terminals /\ external' = external \cup {o} /\ UNCHANGED managed
  BY <1>2 DEF Register
<1>6. DataTyped /\ Alone(o)
  BY <1>1, <1>5 DEF Inv, Typed, DataTyped, Alone
<1>7. OpOK(o)'
  <2>1. Unused(o)' /\ Once(o)'
    BY <1>1, <1>3, <1>4 DEF OpOK, Unused, Once, Untold
  <2>2. Cared(o)' /\ Tracked(o)'
    BY <1>1, <1>3, <1>5 DEF Cared, Tracked, InCare
  <2> QED
    BY <2>1, <2>2 DEF OpOK
<1> QED
  BY <1>1, <1>2, <1>6, <1>7, Returns, MakeKeeps DEF Inv

LEMMA WaitKeeps ==
  ASSUME Inv, NEW c \in Callers, Wait(c)
  PROVE  Kept(c)
<1>1. /\ pc[c] = "wait" /\ pc[c] \in Connecting /\ Same
      /\ Goto(c, "close") /\ UNCHANGED local
  BY DEF Wait, Connecting, Same, remote, process, tables, logs
<1>2. PICK o \in Ops : o = local[c].op /\ Stage(c, o)
  BY <1>1, OfMine
<1>3. DataTyped /\ Alone(o)
  BY <1>1, SameData
<1>4. /\ o \in Runs /\ ends'[o] = 0 /\ o \notin owned' /\ proc'[o] # "running"
  BY <1>1, <1>2 DEF Stage, Same, Wait
<1>5. pc'[c] = "close" /\ "close" \in Connecting
  BY <1>1 DEF Goto, Inv, Typed, Connecting
<1>6. Stage(c, o)'
  BY <1>4, <1>5 DEF Stage
<1> QED
  BY <1>1, <1>2, <1>3, <1>4, <1>5, <1>6, GoOnKeeps DEF Same

LEMMA InterruptKeeps ==
  ASSUME Inv, NEW c \in Callers, Interrupt(c)
  PROVE  Kept(c)
<1>1. /\ pc[c] = "wait" /\ pc[c] \in Connecting
      /\ Goto(c, "close")
      /\ UNCHANGED <<aws, ends, owned, managed, external, owner, records, local>>
  BY DEF Interrupt, Connecting, remote, tables, logs
<1>2. PICK o \in Ops : o = local[c].op /\ Stage(c, o)
  BY <1>1, OfMine
<1>3. PICK ok \in BOOLEAN : StopProcess(o, ok)
  BY <1>2 DEF Interrupt
<1>4. /\ proc' \in [Ops -> {"none", "running", "clean", "crashed", "killed"}]
      /\ stuck' \subseteq Ops /\ (proc'[o] # "running" \/ o \in stuck')
      /\ \A p \in Ops \ {o} : proc'[p] = proc[p] /\ (p \in stuck' <=> p \in stuck)
  BY <1>3, StopProcessDoes DEF Inv
<1>5. DataTyped /\ Alone(o)
  BY <1>1, <1>4 DEF Inv, Typed, DataTyped, Alone
<1>6. o \in Runs /\ ends'[o] = 0 /\ o \notin owned'
  BY <1>1, <1>2 DEF Stage
<1>7. pc'[c] = "close" /\ "close" \in Connecting
  BY <1>1 DEF Goto, Inv, Typed, Connecting
<1>8. Stage(c, o)'
  BY <1>4, <1>6, <1>7 DEF Stage
<1> QED
  BY <1>1, <1>2, <1>5, <1>6, <1>7, <1>8, GoOnKeeps

LEMMA CloseKeeps ==
  ASSUME Inv, NEW c \in Callers, Close(c)
  PROVE  Kept(c)
<1>1. /\ pc[c] = "close" /\ pc[c] \in Connecting /\ Return(c)
      /\ UNCHANGED <<proc, stuck, owned, managed, external, owner, records>>
  BY DEF Close, Connecting, process, tables, logs
<1>2. PICK o \in Ops : o = local[c].op /\ Stage(c, o)
  BY <1>1, OfMine
<1>3. PICK ok \in BOOLEAN : EndSession(o, ok)
  BY <1>2 DEF Close
<1>4. /\ ends[o] = 0 /\ o \notin owned' /\ (proc'[o] # "running" \/ o \in stuck')
  BY <1>1, <1>2 DEF Stage
<1>5. /\ aws' \in [Ops -> {"none", "open", "ended"}] /\ ends' \in [Ops -> Nat]
      /\ ends'[o] = 1
      /\ \A p \in Ops \ {o} : aws'[p] = aws[p] /\ ends'[p] = ends[p]
  BY <1>3, <1>4, EndSessionDoes DEF Inv
<1>6. DataTyped /\ Alone(o)
  BY <1>1, <1>5 DEF Inv, Typed, DataTyped, Alone
<1> QED
  BY <1>1, <1>2, <1>4, <1>5, <1>6, GiveUpKeeps

-----------------------------------------------------------------------------
(* Polling, stopping, reaping and deleting *)

LEMMA VisitedMoves ==
  ASSUME Typed, NEW c \in Callers, NEW o, NEW running \in BOOLEAN, NEW failure \in BOOLEAN,
         Visited(c, o, running, failure)
  PROVE  /\ local' \in [Callers -> Locals]
         /\ \A d \in Callers \ {c} : local'[d] = local[d]
         /\ local'[c].todo = local[c].todo \ {o}
         /\ local'[c].op = local[c].op /\ local'[c].got = local[c].got
<1> DEFINE r == [local[c] EXCEPT !.todo = @ \ {o}, !.active = @ \/ running,
                                 !.failed = @ \/ failure]
<1>1. local[c] \in Locals
  BY DEF Typed
<1>2. (local[c].active \/ running) \in BOOLEAN /\ (local[c].failed \/ failure) \in BOOLEAN
  OBVIOUS
<1>3. r \in Locals /\ r.todo = local[c].todo \ {o} /\ r.op = local[c].op /\ r.got = local[c].got
  BY <1>1, <1>2 DEF Locals
<1>4. local' = [local EXCEPT ![c] = r]
  BY DEF Visited
<1> HIDE DEF r
<1> QED
  BY <1>3, <1>4 DEF Typed

\* A visit that found nothing running.
LEMMA PassedMoves ==
  ASSUME Typed, NEW c \in Callers, NEW o, NEW failure \in BOOLEAN,
         Visited(c, o, FALSE, failure)
  PROVE  /\ local' \in [Callers -> Locals]
         /\ \A d \in Callers \ {c} : local'[d] = local[d]
         /\ local'[c].todo = local[c].todo \ {o} /\ local'[c].op = local[c].op
<1>1. PICK running \in BOOLEAN : running = FALSE
  OBVIOUS
<1>2. Visited(c, o, running, failure)
  BY <1>1
<1>3. /\ local' \in [Callers -> Locals]
      /\ \A d \in Callers \ {c} : local'[d] = local[d]
      /\ local'[c].todo = local[c].todo \ {o}
      /\ local'[c].op = local[c].op /\ local'[c].got = local[c].got
  BY <1>2, VisitedMoves
<1> QED
  BY <1>3

LEMMA PollKeeps ==
  ASSUME Inv, NEW c \in Callers, Poll(c)
  PROVE  Kept(c)
<1>1. pc[c] = "idle" /\ Goto(c, "watchLock") /\ UNCHANGED local /\ Same
  BY DEF Poll, Same, remote, process, tables, logs
<1>2. Moves(c) /\ pc'[c] = "watchLock" /\ local'[c] = local[c]
  BY <1>1, GoesTo DEF Inv, Labels
<1>3. Seen(c)'
  BY <1>1, <1>2 DEF Inv, Knows, Seen, Visiting
<1> QED
  BY <1>1, <1>2, <1>3, QuietKeeps DEF Connecting

LEMMA StopTunnelKeeps ==
  ASSUME Inv, NEW c \in Callers, NEW o \in Tunnels, StopTunnel(c, o)
  PROVE  Kept(c)
<1>1. pc[c] = "idle" /\ Goto(c, "drainLock") /\ Same
  BY DEF StopTunnel, Same, remote, process, tables, logs
<1>2. Moves(c) /\ pc'[c] = "drainLock"
  <2>0. local[c] \in Locals /\ o \in Ops
    BY DEF Inv, Typed, Ops, Managed
  <2>1. [local[c] EXCEPT !.op = o] \in Locals
    BY <2>0 DEF Locals
  <2>2. local' = [local EXCEPT ![c] = [local[c] EXCEPT !.op = o]]
    BY DEF StopTunnel
  <2> QED
    BY <1>1, <2>1, <2>2, GoesWith DEF Inv, Goto, Labels
<1>3. Seen(c)'
  BY <1>2 DEF Seen, Visiting
<1> QED
  BY <1>1, <1>2, <1>3, QuietKeeps DEF Connecting

LEMMA StopAllKeeps ==
  ASSUME Inv, NEW c \in Callers, StopAll(c)
  PROVE  Kept(c)
<1>1. pc[c] = "idle" /\ Goto(c, "drainLock") /\ UNCHANGED local /\ Same
  BY DEF StopAll, Same, remote, process, tables, logs
<1>2. Moves(c) /\ pc'[c] = "drainLock"
  BY <1>1, GoesTo DEF Inv, Labels
<1>3. Seen(c)'
  BY <1>2 DEF Seen, Visiting
<1> QED
  BY <1>1, <1>2, <1>3, QuietKeeps DEF Connecting

LEMMA TakeLockKeeps ==
  ASSUME Inv, NEW c \in Callers, TakeLock(c)
  PROVE  Kept(c)
<1> DEFINE t == IF local[c].op # Nobody THEN {local[c].op} ELSE Of(managed, local[c].prof)
<1>1. Same /\ local' = [local EXCEPT ![c] = [local[c] EXCEPT !.todo = t]]
  BY DEF TakeLock, Same, remote, process, tables, logs
<1>2. [local[c] EXCEPT !.todo = t] \in Locals
  <2>1. local[c] \in Locals /\ managed \subseteq Ops
    BY DEF Inv, Typed, Ops, Managed
  <2>2. local[c].op \in Ops \cup {Nobody} /\ Of(managed, local[c].prof) \subseteq Ops
    BY <2>1 DEF Locals, Of
  <2>3. t \in SUBSET Ops
    BY <2>2
  <2> HIDE DEF t
  <2> QED
    BY <2>1, <2>3 DEF Locals
<1>3. CASE pc[c] = "watchLock" /\ Goto(c, "watch")
  <2>0. pc' = [pc EXCEPT ![c] = "watch"] /\ "watch" \in Labels /\ Typed
    BY <1>3 DEF Inv, Goto, Labels
  <2>1. /\ Moves(c) /\ pc'[c] = "watch" /\ local'[c] = [local[c] EXCEPT !.todo = t]
    <3> HIDE DEF t
    <3> QED
      BY <1>1, <1>2, <2>0, GoesWith
  <2>2. local[c].op = Nobody
    BY <1>3 DEF Inv, Knows, Seen
  <2>3. local'[c].todo = Of(managed, local[c].prof)
    BY <2>1, <2>2 DEF Inv, Typed, Locals
  <2>4. \A x \in local'[c].todo : x \in Ops /\ Past(x)
    BY <2>3, TableIsPast DEF Of
  <2>5. \A x \in local'[c].todo : x \in Ops /\ Past(x)'
    BY <1>1, <2>1, <2>4, PastStays DEF Same, Connecting
  <2>6. Seen(c)'
    BY <2>1, <2>5 DEF Seen, Visiting
  <2> QED
    BY <1>1, <1>3, <2>1, <2>6, QuietKeeps DEF Connecting
<1>4. CASE pc[c] = "drainLock" /\ Goto(c, "drain")
  <2>0. pc' = [pc EXCEPT ![c] = "drain"] /\ "drain" \in Labels /\ Typed
    BY <1>4 DEF Inv, Goto, Labels
  <2>1. Moves(c) /\ pc'[c] = "drain"
    <3> HIDE DEF t
    <3> QED
      BY <1>1, <1>2, <2>0, GoesWith
  <2>2. Seen(c)'
    BY <2>1 DEF Seen, Visiting
  <2> QED
    BY <1>1, <1>4, <2>1, <2>2, QuietKeeps DEF Connecting
<1> QED
  BY <1>3, <1>4 DEF TakeLock

\* A loop visits o and stays where it is.
LEMMA LoopKeeps ==
  ASSUME Inv, NEW c \in Callers, NEW o, NEW running \in BOOLEAN, NEW failure \in BOOLEAN,
         Visited(c, o, running, failure), UNCHANGED pc,
         pc[c] \in {"watch", "drain", "halt"},
         UNCHANGED <<owner, external, records>>,
         \/ Same
         \/ /\ o \in Ops /\ Past(o) /\ Runner(o)
            /\ managed' = managed \/ managed' = managed \ {o}
            /\ o \in owned' => o \in managed' \cup external'
            /\ o \in managed' => o \in owned'
  PROVE  Kept(c)
<1>1. /\ Moves(c) /\ pc'[c] = pc[c] /\ local'[c].todo = local[c].todo \ {o}
      /\ local'[c].op = local[c].op
  <2>1. Typed
    BY DEF Inv
  <2>2. /\ local' \in [Callers -> Locals]
        /\ \A d \in Callers \ {c} : local'[d] = local[d]
        /\ local'[c].todo = local[c].todo \ {o} /\ local'[c].op = local[c].op
    BY <2>1, VisitedMoves, ZenonT(60)
  <2> QED
    BY <2>1, <2>2 DEF Typed, Moves
<1>2. pc[c] \notin Connecting /\ pc'[c] \notin Connecting
  BY <1>1 DEF Connecting
<1>3. Seen(c)'
  <2>1. pc[c] \in Visiting \cup {"watch"} =>
          \A x \in local'[c].todo : x \in Ops /\ Past(x)'
    BY <1>1, <1>2, PastStays DEF Inv, Knows, Seen
  <2> QED
    BY <1>1, <2>1 DEF Inv, Knows, Seen, Visiting
<1>4. CASE Same
  BY <1>1, <1>2, <1>3, <1>4, QuietKeeps
<1>5. CASE /\ o \in Ops /\ Past(o) /\ Runner(o)
           /\ managed' = managed \/ managed' = managed \ {o}
           /\ o \in owned' => o \in managed' \cup external'
           /\ o \in managed' => o \in owned'
  <2>1. OpOK(o)'
    BY <1>5, VisitedIsOK
  <2>2. DataTyped /\ Alone(o)
    BY <1>5 DEF Inv, Typed, DataTyped, Alone, Runner, RunnerTyped
  <2> QED
    BY <1>1, <1>2, <1>3, <1>5, <2>1, <2>2, VisitKeeps
<1> QED
  BY <1>4, <1>5

LEMMA WatchKeeps ==
  ASSUME Inv, NEW c \in Callers, Watch(c)
  PROVE  Kept(c)
<1>1. pc[c] = "watch" /\ UNCHANGED <<owner, external, records, pc>>
  BY DEF Watch
<1>2. ASSUME NEW o \in local[c].todo PROVE o \in Ops /\ Past(o) /\ OpOK(o)
  BY <1>1 DEF Inv, Knows, Seen
<1>3. ASSUME NEW o \in local[c].todo, NEW error \in BOOLEAN, RunnerStop(o, error),
             managed' = managed \ {o}, Visited(c, o, FALSE, error)
      PROVE  Kept(c)
  <2>1. Runner(o) /\ o \notin owned'
    BY <1>2, <1>3, RunnerStopDoes
  <2> QED
    BY <1>1, <1>2, <1>3, <2>1, LoopKeeps
<1>4. ASSUME NEW o \in local[c].todo, NEW got \in {"running", "success", "failure"},
             RunnerStatus(o, got), managed' = Untrack(o, got),
             Visited(c, o, got = "running", got = "failure")
      PROVE  Kept(c)
  <2>1. /\ Runner(o)
        /\ got # "running" => o \notin owned'
        /\ got = "running" => UNCHANGED <<aws, ends, proc, stuck, owned>>
    BY <1>2, <1>4, RunnerStatusDoes
  <2>2. (got = "running") \in BOOLEAN /\ (got = "failure") \in BOOLEAN
    OBVIOUS
  <2>3. CASE got = "running"
    <3>1. Same
      BY <1>1, <1>4, <2>1, <2>3 DEF Same, Untrack
    <3> QED
      BY <1>1, <1>4, <2>2, <3>1, LoopKeeps
  <2>4. CASE got # "running"
    <3>1. managed' = managed \ {o} /\ o \notin owned'
      BY <1>4, <2>1, <2>4 DEF Untrack
    <3> QED
      BY <1>1, <1>2, <1>4, <2>1, <2>2, <3>1, LoopKeeps
  <2> QED
    BY <2>3, <2>4
<1> QED
  BY <1>3, <1>4 DEF Watch

LEMMA DrainKeeps ==
  ASSUME Inv, NEW c \in Callers, Drain(c)
  PROVE  Kept(c)
<1>1. pc[c] = "drain" /\ UNCHANGED <<owner, external, records, pc>>
  BY DEF Drain
<1>2. ASSUME NEW o, Visited(c, o, FALSE, TRUE),
             UNCHANGED <<remote, process, owned, managed, outcome>>
      PROVE  Kept(c)
  <2>1. Same
    BY <1>1, <1>2 DEF Same, remote, process
  <2> QED
    BY <1>1, <1>2, <2>1, LoopKeeps
<1>3. ASSUME NEW o \in managed, NEW error \in BOOLEAN, RunnerStop(o, error),
             managed' = managed \ {o}, Visited(c, o, FALSE, error)
      PROVE  Kept(c)
  <2>1. o \in Ops /\ Past(o)
    BY TableIsPast
  <2>2. Runner(o) /\ o \notin owned'
    BY <1>3, <2>1, RunnerStopDoes
  <2> QED
    BY <1>1, <1>3, <2>1, <2>2, LoopKeeps
<1> QED
  BY <1>2, <1>3 DEF Drain

LEMMA ReapKeeps ==
  ASSUME Inv, NEW c \in Callers, NEW r \in Locals, pc[c] = "idle", Goto(c, "reap"), Same,
         local' = [local EXCEPT ![c] = r], r.todo = external
  PROVE  Kept(c)
<1>1. Moves(c) /\ pc'[c] = "reap" /\ local'[c] = r
  BY GoesWith DEF Inv, Goto, Labels
<1>2. \A x \in local'[c].todo : x \in Ops /\ Past(x)'
  BY <1>1, TableIsPast, PastStays DEF Same, Connecting
<1>3. Seen(c)'
  BY <1>1, <1>2 DEF Seen, Visiting, Inv, Typed
<1> QED
  BY <1>1, <1>3, QuietKeeps DEF Connecting

LEMMA ReapBegins ==
  ASSUME Inv, NEW c \in Callers, Reap(c)
  PROVE  Kept(c)
<1> DEFINE r == [local[c] EXCEPT !.todo = external]
<1>1. /\ pc[c] = "idle" /\ Goto(c, "reap") /\ Same
      /\ local' = [local EXCEPT ![c] = r]
  BY DEF Reap, Same, remote, process, tables, logs
<1>2. r \in Locals /\ r.todo = external
  <2>1. local[c] \in Locals /\ external \subseteq Ops
    BY DEF Inv, Typed, Ops, Managed
  <2> QED
    BY <2>1 DEF Locals
<1> HIDE DEF r
<1> QED
  BY <1>1, <1>2, ReapKeeps

LEMMA DeleteKeeps ==
  ASSUME Inv, NEW c \in Callers, NEW p \in Profiles, NEW stopActive \in BOOLEAN,
         Delete(c, p, stopActive)
  PROVE  Kept(c)
<1> DEFINE r == [local[c] EXCEPT !.prof = p, !.todo = external,
                   !.known = Of(managed \cup external, p), !.stopActive = stopActive]
<1>1. /\ pc[c] = "idle" /\ Goto(c, "reap") /\ Same
      /\ local' = [local EXCEPT ![c] = r]
  BY DEF Delete, Same, remote, process, tables, logs
<1>2. r \in Locals /\ r.todo = external
  <2>1. local[c] \in Locals /\ external \subseteq Ops
    BY DEF Inv, Typed, Ops, Managed
  <2>2. Of(managed \cup external, p) \subseteq Ops
    BY DEF Inv, Typed, Ops, Managed, Of
  <2> QED
    BY <2>1, <2>2 DEF Locals
<1> HIDE DEF r
<1> QED
  BY <1>1, <1>2, ReapKeeps

LEMMA ReapNextKeeps ==
  ASSUME Inv, NEW c \in Callers, ReapNext(c)
  PROVE  Kept(c)
<1>1. pc[c] = "reap" /\ UNCHANGED <<owner, managed, external, records>> /\ Goto(c, "note")
  BY DEF ReapNext
<1>2. PICK o \in local[c].todo, got \in {"running", "success", "failure"} :
        /\ RunnerStatus(o, got)
        /\ local' = [local EXCEPT ![c].op = o, ![c].got = got]
  BY DEF ReapNext
<1>3. o \in Ops /\ Past(o) /\ OpOK(o) /\ o \in Terminals
  BY <1>1 DEF Inv, Knows, Seen, Visiting
<1>4. Runner(o) /\ (got # "running" => o \notin owned')
  BY <1>2, <1>3, RunnerStatusDoes
<1> DEFINE r == [local[c] EXCEPT !.op = o, !.got = got]
<1>5. /\ r \in Locals /\ r.todo = local[c].todo /\ r.op = o /\ r.got = got
  <2>1. local[c] \in Locals
    BY DEF Inv, Typed
  <2> QED
    BY <1>3, <2>1 DEF Locals, Outcomes
<1>6. local' = [local EXCEPT ![c] = r]
  BY <1>2
<1> HIDE DEF r
<1>7. Moves(c) /\ pc'[c] = "note" /\ local'[c] = r
  BY <1>1, <1>5, <1>6, GoesWith DEF Inv, Goto, Labels
<1>8. Past(o)' /\ \A x \in local[c].todo : x \in Ops /\ Past(x)'
  BY <1>1, <1>3, <1>7, PastStays DEF Inv, Knows, Seen, Visiting, Connecting
<1>9. Past(local[c].op)'
  BY <1>5, <1>7, <1>8 DEF Past, Connects, Holds
<1>10. local[c].todo \subseteq Terminals
  BY <1>1 DEF Inv, Knows, Seen, Visiting
<1>11. Seen(c)'
  BY <1>3, <1>4, <1>5, <1>7, <1>8, <1>9, <1>10 DEF Seen, Visiting
<1>12. o \notin managed
  BY <1>3, ConnectionsAssumption DEF Inv, Typed
<1>13. o \in owned' => o \in managed' \cup external'
  <2>1. ~\E d \in Callers : Holds(d, o, {"announce", "register"})
    BY <1>3 DEF Past, Connects, Holds, Connecting
  <2> QED
    BY <1>1, <1>3, <1>4, <2>1 DEF OpOK, Tracked, Runner, RunnerTyped
<1>14. OpOK(o)'
  BY <1>1, <1>3, <1>4, <1>12, <1>13, VisitedIsOK
<1>15. DataTyped /\ Alone(o)
  BY <1>1, <1>4 DEF Inv, Typed, DataTyped, Alone, Runner, RunnerTyped
<1> QED
  BY <1>1, <1>3, <1>4, <1>7, <1>11, <1>14, <1>15, VisitKeeps DEF Connecting

LEMMA NoteKeeps ==
  ASSUME Inv, NEW c \in Callers, Note(c)
  PROVE  Kept(c)
<1>1. /\ pc[c] = "note" /\ Goto(c, "reap")
      /\ UNCHANGED <<aws, ends, proc, stuck, owned, managed, owner>>
  BY DEF Note, remote, process
<1>2. PICK o, got : o = local[c].op /\ got = local[c].got
  OBVIOUS
<1>3. /\ o \in Terminals /\ o \in Ops /\ Past(o) /\ OpOK(o)
      /\ got \in {"running", "success", "failure"}
      /\ got # "running" => o \notin owned
  BY <1>1, <1>2 DEF Inv, Knows, Seen, Ops, Managed
<1>4. /\ external' = IF got = "running" THEN external ELSE external \ {o}
      /\ records' = IF got # "running" /\ Removes(o)
                    THEN [records EXCEPT ![o][got] = @ + 1] ELSE records
  BY <1>2 DEF Note
<1>5. PICK running \in BOOLEAN, failure \in BOOLEAN : Visited(c, o, running, failure)
  <2>1. Visited(c, o, owner[o] = local[c].prof /\ got = "running",
                      owner[o] = local[c].prof /\ got = "failure")
    BY <1>2 DEF Note
  <2> QED
    BY <2>1
<1>6. /\ Moves(c) /\ pc'[c] = "reap" /\ local'[c].todo = local[c].todo \ {o}
  <2>1. /\ local' \in [Callers -> Locals]
        /\ \A d \in Callers \ {c} : local'[d] = local[d]
        /\ local'[c].todo = local[c].todo \ {o}
    <3>1. Typed
      BY DEF Inv
    <3> QED
      BY <1>5, <3>1, VisitedMoves, ZenonT(60)
  <2> QED
    BY <1>1, <2>1 DEF Inv, Typed, Goto, Moves, Labels
<1>7. Seen(c)'
  <2>1. \A x \in local[c].todo : x \in Ops /\ Past(x)'
    BY <1>1, <1>6, PastStays DEF Inv, Knows, Seen, Visiting, Connecting
  <2>2. local[c].todo \subseteq Terminals
    BY <1>1 DEF Inv, Knows, Seen, Visiting
  <2> QED
    BY <1>6, <2>1, <2>2 DEF Seen, Visiting
<1>8. /\ records' \in [Terminals -> [success : Nat, failure : Nat]]
      /\ \A p \in Terminals \ {o} : records'[p] = records[p]
      /\ got # "running" /\ o \in external =>
           records'[o].success + records'[o].failure = 1
      /\ got = "running" \/ o \notin external => records'[o] = records[o]
  <2>1. CASE got # "running" /\ o \in external
    <3>1. records[o] \in [success : Nat, failure : Nat]
      BY <1>3 DEF Inv, Typed
    <3>2. records[o].success = 0 /\ records[o].failure = 0
      BY <1>3, <2>1 DEF OpOK, Once, Untold
    <3> DEFINE e == [records[o] EXCEPT ![got] = @ + 1]
    <3>3. e \in [success : Nat, failure : Nat] /\ e.success + e.failure = 1
      <4>1. CASE got = "success"
        BY <3>1, <3>2, <4>1
      <4>2. CASE got = "failure"
        BY <3>1, <3>2, <4>2
      <4> QED
        BY <1>3, <2>1, <4>1, <4>2
    <3>4. records' = [records EXCEPT ![o] = e]
      BY <1>4, <2>1 DEF Removes
    <3> HIDE DEF e
    <3> QED
      BY <1>3, <2>1, <3>3, <3>4 DEF Inv, Typed
  <2>2. CASE got = "running" \/ o \notin external
    BY <1>4, <2>2 DEF Inv, Typed, Removes
  <2> QED
    BY <2>1, <2>2
<1>9. DataTyped /\ Alone(o)
  BY <1>1, <1>4, <1>8 DEF Inv, Typed, DataTyped, Alone
<1>10. OpOK(o)'
  <2>1. Unused(o)'
    BY <1>1, <1>3 DEF Unused, Past
  <2>2. Once(o)'
    <3>1. CASE got # "running" /\ o \in external
      BY <1>1, <1>3, <1>4, <1>8, <3>1 DEF OpOK, Once
    <3>2. CASE got = "running" \/ o \notin external
      BY <1>1, <1>3, <1>4, <1>8, <3>2 DEF OpOK, Once, Untold
    <3> QED
      BY <3>1, <3>2
  <2>3. Cared(o)'
    <3>1. InCare(o) => o \in owned
      BY <1>3 DEF Past, InCare, Connects, Holds, Connecting
    <3> QED
      BY <1>1, <1>3, <3>1 DEF OpOK, Cared, InCare
  <2>4. Tracked(o)'
    <3>1. ~\E d \in Callers : Holds(d, o, {"announce", "register"})
      BY <1>3 DEF Past, Connects, Holds, Connecting
    <3> QED
      BY <1>1, <1>3, <1>4, <3>1 DEF OpOK, Tracked
  <2> QED
    BY <2>1, <2>2, <2>3, <2>4 DEF OpOK
<1>11. Runner(o)
  BY <1>1 DEF Inv, Typed, Runner, RunnerTyped
<1> QED
  BY <1>1, <1>3, <1>6, <1>7, <1>9, <1>10, <1>11, VisitKeeps DEF Connecting

LEMMA HaltKeeps ==
  ASSUME Inv, NEW c \in Callers, Halt(c)
  PROVE  Kept(c)
<1>1. pc[c] = "halt" /\ Same
  BY DEF Halt, Same, remote, process, tables, logs
<1>2. ASSUME NEW o \in local[c].todo, Visited(c, o, FALSE, TRUE), UNCHANGED pc
      PROVE  Kept(c)
  BY <1>1, <1>2, LoopKeeps DEF Same
<1>3. ASSUME NEW o \in local[c].todo, Goto(c, "halting"),
             local' = [local EXCEPT ![c].op = o]
      PROVE  Kept(c)
  <2>1. o \in Ops /\ Past(o) /\ o \in Terminals
    BY <1>1, <1>3 DEF Inv, Knows, Seen, Visiting
  <2> DEFINE r == [local[c] EXCEPT !.op = o]
  <2>2. r \in Locals /\ r.todo = local[c].todo /\ r.op = o
    <3>1. local[c] \in Locals
      BY DEF Inv, Typed
    <3> QED
      BY <2>1, <3>1 DEF Locals
  <2>3. local' = [local EXCEPT ![c] = r]
    BY <1>3
  <2> HIDE DEF r
  <2>4. Moves(c) /\ pc'[c] = "halting" /\ local'[c] = r
    BY <1>3, <2>2, <2>3, GoesWith DEF Inv, Goto, Labels
  <2>5. Past(o)' /\ \A x \in local[c].todo : x \in Ops /\ Past(x)'
    BY <1>1, <2>1, <2>4, PastStays DEF Inv, Knows, Seen, Visiting, Connecting, Same
  <2>6. Past(local[c].op)'
    BY <2>2, <2>4, <2>5 DEF Past, Connects, Holds
  <2>7. local[c].todo \subseteq Terminals
    BY <1>1 DEF Inv, Knows, Seen, Visiting
  <2>8. Seen(c)'
    BY <2>1, <2>2, <2>4, <2>5, <2>6, <2>7 DEF Seen, Visiting
  <2> QED
    BY <1>1, <2>4, <2>8, QuietKeeps DEF Connecting
<1> QED
  BY <1>2, <1>3 DEF Halt

LEMMA HaltingKeeps ==
  ASSUME Inv, NEW c \in Callers, Halting(c)
  PROVE  Kept(c)
<1>1. /\ pc[c] = "halting" /\ Goto(c, "forget")
      /\ UNCHANGED <<managed, external, owner, records>>
  BY DEF Halting
<1>2. PICK o : o = local[c].op
  OBVIOUS
<1>3. o \in Terminals /\ o \in Ops /\ Past(o) /\ OpOK(o)
  BY <1>1, <1>2 DEF Inv, Knows, Seen, Ops, Managed
<1>4. PICK error \in BOOLEAN : RunnerStop(o, error) /\ Visited(c, o, FALSE, error)
  BY <1>2 DEF Halting
<1>5. Runner(o) /\ o \notin owned'
  BY <1>3, <1>4, RunnerStopDoes
<1>6. /\ Moves(c) /\ pc'[c] = "forget" /\ local'[c].todo = local[c].todo \ {o}
      /\ local'[c].op = o
  <2>1. /\ local' \in [Callers -> Locals]
        /\ \A d \in Callers \ {c} : local'[d] = local[d]
        /\ local'[c].todo = local[c].todo \ {o} /\ local'[c].op = local[c].op
    <3>1. Typed
      BY DEF Inv
    <3> QED
      BY <1>4, <3>1, PassedMoves
  <2> QED
    BY <1>1, <1>2, <2>1 DEF Inv, Typed, Goto, Moves, Labels
<1>7. Past(o)' /\ \A x \in local[c].todo : x \in Ops /\ Past(x)'
  BY <1>1, <1>3, <1>6, PastStays DEF Inv, Knows, Seen, Visiting, Connecting
<1>8. Past(local[c].op)'
  BY <1>6, <1>7 DEF Past, Connects, Holds
<1>9. local[c].todo \subseteq Terminals
  BY <1>1 DEF Inv, Knows, Seen, Visiting
<1>10. Seen(c)'
  BY <1>3, <1>5, <1>6, <1>7, <1>8, <1>9 DEF Seen, Visiting
<1>11. o \notin managed
  BY <1>3, ConnectionsAssumption DEF Inv, Typed
<1>12. OpOK(o)'
  BY <1>1, <1>3, <1>5, <1>11, VisitedIsOK
<1>13. DataTyped /\ Alone(o)
  BY <1>1, <1>5 DEF Inv, Typed, DataTyped, Alone, Runner, RunnerTyped
<1> QED
  BY <1>1, <1>3, <1>5, <1>6, <1>10, <1>12, <1>13, VisitKeeps DEF Connecting

LEMMA ForgetKeeps ==
  ASSUME Inv, NEW c \in Callers, Forget(c)
  PROVE  Kept(c)
<1>1. /\ pc[c] = "forget" /\ Goto(c, "halt") /\ UNCHANGED local
      /\ UNCHANGED <<aws, ends, proc, stuck, owned, managed, owner, records>>
  BY DEF Forget, remote, process, logs
<1>2. PICK o : o = local[c].op
  OBVIOUS
<1>3. o \in Ops /\ o \in Terminals /\ Past(o) /\ OpOK(o) /\ o \notin owned
  BY <1>1, <1>2 DEF Inv, Knows, Seen, Ops, Managed
<1>4. external' = external \ {o}
  BY <1>2 DEF Forget
<1>5. Moves(c) /\ pc'[c] = "halt" /\ local'[c] = local[c]
  BY <1>1, GoesTo DEF Inv, Labels
<1>6. Seen(c)'
  <2>1. \A x \in local[c].todo : x \in Ops /\ Past(x)'
    BY <1>1, <1>5, PastStays DEF Inv, Knows, Seen, Visiting, Connecting
  <2>2. local[c].todo \subseteq Terminals
    BY <1>1 DEF Inv, Knows, Seen, Visiting
  <2> QED
    BY <1>5, <2>1, <2>2 DEF Seen, Visiting
<1>7. DataTyped /\ Alone(o)
  BY <1>1, <1>4 DEF Inv, Typed, DataTyped, Alone
<1>8. Runner(o)
  BY <1>1 DEF Inv, Typed, Runner, RunnerTyped
<1>9. o \notin managed
  BY <1>3, ConnectionsAssumption DEF Inv, Typed
<1>10. OpOK(o)'
  BY <1>1, <1>3, <1>4, <1>8, <1>9, VisitedIsOK
<1> QED
  BY <1>1, <1>3, <1>5, <1>6, <1>7, <1>8, <1>10, VisitKeeps DEF Connecting

-----------------------------------------------------------------------------
(* The ends of the loops *)

\* c returns, or goes where it knows nothing.
LEMMA AwayKeeps ==
  ASSUME Inv, NEW c \in Callers, pc[c] \notin Connecting, Same,
         \/ Return(c)
         \/ \E l \in {"drop", "drain", "drainLock"} : Goto(c, l) /\ UNCHANGED local
  PROVE  Kept(c)
<1>1. CASE Return(c)
  <2>1. Moves(c) /\ pc'[c] = "idle" /\ local'[c] = Blank
    BY <1>1, Returns DEF Inv
  <2>2. Seen(c)'
    BY <2>1 DEF Seen, Visiting, Blank
  <2> QED
    BY <2>1, <2>2, QuietKeeps DEF Connecting
<1>2. ASSUME NEW l \in {"drop", "drain", "drainLock"}, Goto(c, l), UNCHANGED local
      PROVE  Kept(c)
  <2>1. Moves(c) /\ pc'[c] = l
    BY <1>2, GoesTo DEF Inv, Labels
  <2>2. Seen(c)'
    BY <2>1 DEF Seen, Visiting
  <2> QED
    BY <2>1, <2>2, QuietKeeps DEF Connecting
<1> QED
  BY <1>1, <1>2

\* c goes on to the next lock of a deletion.
LEMMA NextLockKeeps ==
  ASSUME Inv, NEW c \in Callers, pc[c] \notin Connecting, Same,
         NEW l \in {"watchLock", "drainLock"}, Goto(c, l),
         local' = [local EXCEPT ![c].op = Nobody]
  PROVE  Kept(c)
<1> DEFINE r == [local[c] EXCEPT !.op = Nobody]
<1>1. r \in Locals /\ r.op = Nobody
  BY DEF Inv, Typed, Locals
<1>2. local' = [local EXCEPT ![c] = r]
  OBVIOUS
<1> HIDE DEF r
<1>3. Moves(c) /\ pc'[c] = l /\ local'[c] = r
  BY <1>1, <1>2, GoesWith DEF Inv, Goto, Labels
<1>4. Seen(c)'
  BY <1>1, <1>3 DEF Seen, Visiting
<1> QED
  BY <1>3, <1>4, QuietKeeps DEF Connecting

LEMMA ReapDoneKeeps ==
  ASSUME Inv, NEW c \in Callers, ReapDone(c)
  PROVE  Kept(c)
<1>1. pc[c] \notin Connecting /\ Same
  BY DEF ReapDone, Done, Connecting, Same, remote, process, tables, logs
<1>2. CASE Goto(c, "watchLock") /\ local' = [local EXCEPT ![c].op = Nobody]
  BY <1>1, <1>2, NextLockKeeps
<1>3. CASE Return(c)
  BY <1>1, <1>3, AwayKeeps
<1> QED
  BY <1>2, <1>3 DEF ReapDone

LEMMA WatchDoneKeeps ==
  ASSUME Inv, NEW c \in Callers, WatchDone(c)
  PROVE  Kept(c)
<1>1. pc[c] \notin Connecting /\ Same
  BY DEF WatchDone, Done, Connecting, Same, remote, process, tables, logs
<1>2. CASE Return(c) \/ (Goto(c, "drop") /\ UNCHANGED local)
  BY <1>1, <1>2, AwayKeeps
<1>3. CASE /\ Goto(c, "halt")
           /\ local' = [local EXCEPT ![c].todo = Of(external, local[c].prof)]
  <2> DEFINE r == [local[c] EXCEPT !.todo = Of(external, local[c].prof)]
  <2>1. r \in Locals /\ r.todo \subseteq external
    <3>1. local[c] \in Locals /\ external \subseteq Ops
      BY DEF Inv, Typed, Ops, Managed
    <3>2. Of(external, local[c].prof) \subseteq external
      BY DEF Of
    <3> QED
      BY <3>1, <3>2 DEF Locals
  <2>2. local' = [local EXCEPT ![c] = r]
    BY <1>3
  <2> HIDE DEF r
  <2>3. Moves(c) /\ pc'[c] = "halt" /\ local'[c] = r
    BY <1>3, <2>1, <2>2, GoesWith DEF Inv, Goto, Labels
  <2>4. \A x \in r.todo : x \in Ops /\ Past(x)'
    BY <1>1, <2>1, <2>3, TableIsPast, PastStays DEF Same, Connecting
  <2>5. Seen(c)'
    BY <2>1, <2>3, <2>4 DEF Seen, Visiting, Inv, Typed
  <2> QED
    BY <1>1, <2>3, <2>5, QuietKeeps DEF Connecting
<1> QED
  BY <1>2, <1>3 DEF WatchDone, GiveUp

LEMMA HaltDoneKeeps ==
  ASSUME Inv, NEW c \in Callers, HaltDone(c)
  PROVE  Kept(c)
<1>1. pc[c] \notin Connecting /\ Same
  BY DEF HaltDone, Done, Connecting, Same, remote, process, tables, logs
<1> QED
  BY <1>1, NextLockKeeps DEF HaltDone

LEMMA DrainDoneKeeps ==
  ASSUME Inv, NEW c \in Callers, DrainDone(c)
  PROVE  Kept(c)
<1>1. pc[c] \notin Connecting /\ Same
  BY DEF DrainDone, Done, Connecting, Same, remote, process, tables, logs
<1> QED
  BY <1>1, AwayKeeps DEF DrainDone, GiveUp

LEMMA DropKeeps ==
  ASSUME Inv, NEW c \in Callers, Drop(c)
  PROVE  Kept(c)
<1>1. pc[c] \notin Connecting /\ Same
  BY DEF Drop, Connecting, Same, remote, process, tables, logs
<1> QED
  BY <1>1, AwayKeeps DEF Drop, GiveUp

-----------------------------------------------------------------------------
(* Steps of nobody *)

\* What the invariant says is of pc, local and the data of connections.
LEMMA StutterKeeps ==
  ASSUME Inv, Same, UNCHANGED <<pc, local>>
  PROVE  Inv' /\ Stays
<1>1. Typed'
  BY DEF Inv, Typed, Same
<1>2. ASSUME NEW o \in Ops PROVE OpOK(o)'
  <2>1. OpOK(o)
    BY DEF Inv
  <2>2. Unused(o)' /\ Once(o)'
    BY <2>1 DEF OpOK, Unused, Once, Untold, Connects, Holds, Same
  <2>3. Cared(o)' /\ Tracked(o)'
    BY <2>1 DEF OpOK, Cared, Tracked, InCare, Holds, Same
  <2> QED
    BY <2>2, <2>3 DEF OpOK
<1>3. ASSUME NEW c \in Callers PROVE Knows(c)'
  <2>1. Knows(c)
    BY DEF Inv
  <2>2. Made(c)'
    BY <2>1 DEF Knows, Made, Stage, Untold, Connects, Holds, Same
  <2>3. Seen(c)'
    BY <2>1 DEF Knows, Seen, Past, Connects, Holds, Same
  <2> QED
    BY <2>2, <2>3 DEF Knows
<1>4. Stays
  BY DEF Stays, Past, Down, Connects, Holds, Same
<1> QED
  BY <1>1, <1>2, <1>3, <1>4 DEF Inv

LEMMA ExitKeeps ==
  ASSUME Inv, NEW p \in Ops, ProcessExits(p)
  PROVE  Inv' /\ UNCHANGED <<pc, local>> /\ Stays
<1>1. /\ proc[p] = "running"
      /\ UNCHANGED <<aws, ends, stuck, owned, managed, external, owner, records, pc, local>>
  BY DEF ProcessExits, remote, tables, logs
<1>2. PICK how \in {"clean", "crashed"} : proc' = [proc EXCEPT ![p] = how]
  BY DEF ProcessExits
<1>3. /\ proc' \in [Ops -> {"none", "running", "clean", "crashed", "killed"}]
      /\ proc'[p] = how /\ \A o \in Ops \ {p} : proc'[o] = proc[o]
  BY <1>2 DEF Inv, Typed
<1>4. Typed'
  BY <1>1, <1>3 DEF Inv, Typed
<1>5. ASSUME NEW o \in Ops PROVE OpOK(o)'
  <2>1. OpOK(o)
    BY DEF Inv
  <2>2. Unused(o)'
    <3>1. CASE o = p
      BY <1>1, <2>1, <3>1 DEF OpOK, Unused
    <3>2. CASE o # p
      BY <1>1, <1>3, <2>1, <3>2 DEF OpOK, Unused, Untold, Connects, Holds
    <3> QED
      BY <3>1, <3>2
  <2>3. Once(o)'
    BY <1>1, <2>1 DEF OpOK, Once, Untold
  <2>4. Cared(o)' /\ Tracked(o)'
    BY <1>1, <1>3, <2>1 DEF OpOK, Cared, Tracked, InCare, Holds
  <2> QED
    BY <2>2, <2>3, <2>4 DEF OpOK
<1>6. ASSUME NEW c \in Callers PROVE Knows(c)'
  <2>1. Knows(c)
    BY DEF Inv
  <2>2. ASSUME NEW o \in Ops, Stage(c, o) PROVE Stage(c, o)'
    BY <1>1, <1>3, <2>2 DEF Stage
  <2>3. Made(c)'
    BY <1>1, <2>1, <2>2 DEF Knows, Made, Stage, Untold, Connects, Holds
  <2>4. Seen(c)'
    BY <1>1, <2>1 DEF Knows, Seen, Past, Connects, Holds
  <2> QED
    BY <2>3, <2>4 DEF Knows
<1>7. Stays
  BY <1>1, <1>3 DEF Stays, Past, Down, Connects, Holds
<1> QED
  BY <1>1, <1>4, <1>5, <1>6, <1>7 DEF Inv

-----------------------------------------------------------------------------
(* The theorems *)

LEMMA Establishes ==
  ASSUME Init
  PROVE  Inv
<1>1. Typed
  <2>1. Blank \in Locals
    BY DEF Blank, Locals, Outcomes
  <2> QED
    BY <2>1 DEF Init, Typed, Labels
<1>2. \A c \in Callers : pc[c] = "idle" /\ local[c] = Blank
  BY DEF Init
<1>3. \A c \in Callers, o \in Ops : ~Connects(c, o)
  BY <1>2 DEF Connects, Holds, Connecting
<1>4. ASSUME NEW o \in Ops PROVE OpOK(o)
  BY <1>3 DEF Init, OpOK, Unused, Once, Untold, Cared, Tracked
<1>5. ASSUME NEW c \in Callers PROVE Knows(c)
  BY <1>2 DEF Knows, Made, Seen, Connecting, Visiting, Blank
<1> QED
  BY <1>1, <1>4, <1>5 DEF Inv

LEMMA EnterKeeps ==
  ASSUME Inv, scenario \in Scenarios, NEW c \in Callers, Enter(c)
  PROVE  Kept(c)
<1>1. scenario.ops \subseteq Ops
  BY ConnectionsAssumption
<1> QED
  BY <1>1, ConnectKeeps, PollKeeps, ReapBegins, StopAllKeeps, StopTunnelKeeps, DeleteKeeps
  DEF Enter

LEMMA CallKeeps ==
  ASSUME Inv, NEW c \in Callers, Step(c)
  PROVE  Kept(c)
BY PrepareKeeps, StartSessionKeeps, LaunchKeeps, OwnKeeps, AnnounceKeeps, RegisterKeeps,
   WaitKeeps, CloseKeeps, TakeLockKeeps, WatchKeeps, WatchDoneKeeps, DrainKeeps,
   DrainDoneKeeps, ReapNextKeeps, NoteKeeps, ReapDoneKeeps, HaltKeeps, HaltingKeeps,
   ForgetKeeps, HaltDoneKeeps, DropKeeps DEF Step

Safe == scenario \in Scenarios /\ Inv

LEMMA NextKeeps ==
  ASSUME Safe, [Next]_vars
  PROVE  /\ Safe' /\ Stays
         /\ \/ UNCHANGED <<pc, local>>
            \/ \E c \in Callers : (Enter(c) \/ Step(c) \/ Interrupt(c)) /\ Moves(c)
<1>1. Inv /\ scenario \in Scenarios
  BY DEF Safe
<1>2. CASE UNCHANGED vars
  BY <1>1, <1>2, StutterKeeps DEF vars, Safe, Same, remote, process, tables, logs
<1>3. CASE Next
  <2>1. UNCHANGED scenario
    BY <1>3 DEF Next
  <2>2. ASSUME NEW c \in Callers, Enter(c) \/ Step(c) \/ Interrupt(c)
        PROVE  Kept(c)
    BY <1>1, <2>2, EnterKeeps, CallKeeps, InterruptKeeps
  <2>3. ASSUME NEW o \in Ops, ProcessExits(o)
        PROVE  Inv' /\ UNCHANGED <<pc, local>> /\ Stays
    BY <1>1, <2>3, ExitKeeps
  <2>4. ASSUME NEW o \in Tunnels, Expire(o)
        PROVE  Inv' /\ UNCHANGED <<pc, local>> /\ Stays
    <3>1. Same /\ UNCHANGED <<pc, local>>
      BY <2>4 DEF Expire, Same, remote, process, logs
    <3> QED
      BY <1>1, <3>1, StutterKeeps
  <2> QED
    BY <1>1, <1>3, <2>1, <2>2, <2>3, <2>4 DEF Next, Safe, Kept
<1> QED
  BY <1>2, <1>3

LEMMA Invariance == Spec => []Safe
<1>1. Init => Safe
  BY Establishes DEF Init, Safe
<1>2. Safe /\ [Next]_vars => Safe'
  BY NextKeeps
<1> QED
  BY <1>1, <1>2, PTL DEF Spec

\* Whatever fails, and whoever polls, stops, reaps, interrupts or deletes at once,
\* the end of a session is requested at most once, and a terminal's recorded at
\* most once (_end_once, reap_external_sessions).
THEOREM SessionsEndOnce == Spec => []EndedOnce
<1>1. Safe => EndedOnce
  <2>1. Terminals \subseteq Ops
    BY DEF Ops, Managed
  <2> QED
    BY <2>1 DEF Safe, Inv, OpOK, Once, EndedOnce
<1> QED
  BY <1>1, Invariance, PTL

\* An open session nobody tried to end and a plugin whose stop did not fail have a
\* keeper, and what the runner owns is in a table of a service, or about to be.
THEOREM NoSessionIsLost == Spec => []NothingLeaks
<1>1. Safe => NothingLeaks
  <2>1. Safe => owned \subseteq Ops /\ managed \subseteq Ops
    BY DEF Safe, Inv, Typed, Ops, Managed
  <2> QED
    BY <2>1 DEF Safe, Inv, OpOK, Cared, Tracked, NothingLeaks
<1> QED
  BY <1>1, Invariance, PTL

-----------------------------------------------------------------------------
(* A profile goes only when the connections that were tracked as its       *)
(* deletion began are down, whatever the other threads do to the tables in *)
(* the meantime.  The invariant of that: *)

\* Where a deletion stands with a connection it knows: still to be visited, seen
\* active, or down.
Fate(c, o) ==
  /\ o \in Terminals =>
       /\ pc[c] \in {"reap", "note"} => o \in local[c].todo \/ local[c].active \/ Down(o)
       /\ pc[c] \in {"watchLock", "watch"} => local[c].active \/ Down(o)
       /\ pc[c] \in {"halt", "halting", "forget"} => o \in local[c].todo \/ Down(o)
       /\ pc[c] \in {"drainLock", "drain", "drop"} => Down(o)
  /\ o \in Tunnels =>
       /\ pc[c] = "watch" => o \in local[c].todo \/ local[c].active \/ Down(o)
       /\ pc[c] = "drain" => o \in local[c].todo \/ Down(o)
       /\ pc[c] = "drop" => Down(o)

Accounts(c) ==
  /\ \A o \in local[c].known :
       o \in Managed /\ Past(o) /\ owner[o] = local[c].prof /\ Fate(c, o)
  /\ pc[c] \in Connecting \cup {"idle"} => local[c].known = {}
  /\ pc[c] = "drainLock" /\ local[c].op # Nobody => local[c].known = {}

-----------------------------------------------------------------------------
(* What is out of the runner's table, or of the services', is down *)

LEMMA NotOwnedIsDown ==
  ASSUME Inv, NEW o \in Ops, Past(o), o \notin owned
  PROVE  Down(o)
<1>1. Cared(o)
  BY DEF Inv, OpOK
<1>2. ~InCare(o)
  BY DEF Past, InCare, Connects, Holds, Connecting
<1> QED
  BY <1>1, <1>2 DEF Cared, Down

LEMMA LeftIsDown ==
  ASSUME Inv', NEW o \in Ops, Past(o)', o \notin owned'
  PROVE  Down(o)'
<1>1. Cared(o)'
  BY DEF Inv, OpOK
<1>2. ~InCare(o)'
  BY DEF Past, InCare, Connects, Holds, Connecting
<1> QED
  BY <1>1, <1>2 DEF Cared, Down

LEMMA NotTrackedIsDown ==
  ASSUME Inv, NEW o \in Ops, Past(o), o \notin managed \cup external
  PROVE  Down(o)
<1>1. Tracked(o)
  BY DEF Inv, OpOK
<1>2. ~\E d \in Callers : Holds(d, o, {"announce", "register"})
  BY DEF Past, Connects, Holds, Connecting
<1> QED
  BY <1>1, <1>2, NotOwnedIsDown DEF Tracked

\* A connection of the other kind is in the other table or in none.
LEMMA Kinds ==
  ASSUME Inv
  PROVE  /\ \A o \in Terminals : o \in Ops /\ o \notin managed
         /\ \A o \in Tunnels : o \in Ops /\ o \notin external
BY ConnectionsAssumption DEF Inv, Typed, Ops, Managed

-----------------------------------------------------------------------------
(* What is enough for a step to keep an account *)

\* What others do to a connection leaves it down.
LEMMA OthersAccount ==
  ASSUME Stays, NEW d \in Callers, Accounts(d), pc'[d] = pc[d], local'[d] = local[d]
  PROVE  Accounts(d)'
<1>1. \A o \in local[d].known : Past(o)' /\ owner'[o] = owner[o] /\ (Down(o) => Down(o)')
  BY DEF Stays, Accounts, Ops
<1>2. \A o \in local[d].known : Fate(d, o)'
  BY <1>1 DEF Accounts, Fate
<1> QED
  BY <1>1, <1>2 DEF Accounts

LEMMA NothingKnown ==
  ASSUME NEW c \in Callers, local'[c].known = {}
  PROVE  Accounts(c)'
BY DEF Accounts

\* A deletion goes on.
LEMMA GoesOn ==
  ASSUME Stays, NEW c \in Callers, Accounts(c),
         local'[c].known = local[c].known, local'[c].prof = local[c].prof,
         pc'[c] \notin Connecting \cup {"idle"},
         pc'[c] = "drainLock" => local'[c].op = Nobody,
         \A o \in local[c].known : Fate(c, o)'
  PROVE  Accounts(c)'
BY DEF Accounts, Stays, Ops

\* What is known of a connection before a step, and what of it stays.
LEMMA Known ==
  ASSUME Stays, NEW c \in Callers, Accounts(c), NEW o \in local[c].known
  PROVE  /\ o \in Ops /\ o \in Managed /\ Past(o) /\ Past(o)' /\ owner[o] = local[c].prof
         /\ Fate(c, o) /\ (Down(o) => Down(o)')
BY DEF Accounts, Stays, Ops

LEMMA VisitedAccount ==
  ASSUME Typed, NEW c \in Callers, NEW o, NEW running \in BOOLEAN, NEW failure \in BOOLEAN,
         Visited(c, o, running, failure)
  PROVE  /\ local'[c].todo = local[c].todo \ {o}
         /\ local'[c].active = (local[c].active \/ running)
         /\ local'[c].known = local[c].known /\ local'[c].prof = local[c].prof
BY DEF Typed, Locals, Visited

\* A visit that found nothing running.
LEMMA PassedAccount ==
  ASSUME Typed, NEW c \in Callers, NEW o, NEW failure \in BOOLEAN,
         Visited(c, o, FALSE, failure)
  PROVE  /\ local'[c].todo = local[c].todo \ {o}
         /\ local'[c].known = local[c].known /\ local'[c].prof = local[c].prof
BY DEF Typed, Locals, Visited

-----------------------------------------------------------------------------
(* Callers that delete nothing *)

LEMMA ReturnAccount ==
  ASSUME Inv, NEW c \in Callers, Return(c)
  PROVE  Accounts(c)'
<1>1. local'[c].known = {}
  BY DEF Inv, Typed, Return, Blank
<1> QED
  BY <1>1, NothingKnown

\* What a call that is none of a deletion knows stays nothing.
LEMMA NoDeletion ==
  ASSUME Inv, NEW c \in Callers, Accounts(c), pc[c] \in Connecting \cup {"idle"},
         \/ Return(c) \/ UNCHANGED local
         \/ \E o : local' = [local EXCEPT ![c].op = o]
         \/ local' = [local EXCEPT ![c].todo = external]
  PROVE  Accounts(c)'
<1>1. CASE Return(c)
  BY <1>1, ReturnAccount
<1>2. CASE \/ UNCHANGED local
           \/ \E o : local' = [local EXCEPT ![c].op = o]
           \/ local' = [local EXCEPT ![c].todo = external]
  <2>1. local[c].known = {}
    BY DEF Accounts
  <2>2. local'[c].known = local[c].known
    BY <1>2 DEF Inv, Typed, Locals
  <2> QED
    BY <2>1, <2>2, NothingKnown
<1> QED
  BY <1>1, <1>2

LEMMA ConnectingAccount ==
  ASSUME Inv, NEW c \in Callers, Accounts(c),
         \/ Prepare(c) \/ StartSession(c) \/ Launch(c) \/ Own(c) \/ Announce(c)
         \/ Register(c) \/ Wait(c) \/ Close(c) \/ Interrupt(c)
  PROVE  Accounts(c)'
<1>1. pc[c] \in Connecting
  BY DEF Prepare, StartSession, Launch, Own, Announce, Register, Wait, Close, Interrupt,
         Connecting
<1>2. Return(c) \/ UNCHANGED local
  BY DEF Prepare, StartSession, Launch, Launched, Own, Announce, Register, Wait, Close,
         Interrupt
<1> QED
  BY <1>1, <1>2, NoDeletion

LEMMA EntersAccount ==
  ASSUME Inv, NEW c \in Callers, Accounts(c),
         \/ \E o \in scenario.ops, p \in Profiles : Connect(c, o, p)
         \/ Poll(c) \/ Reap(c) \/ StopAll(c)
         \/ \E o \in Tunnels : StopTunnel(c, o)
  PROVE  Accounts(c)'
<1>1. pc[c] = "idle"
  BY DEF Connect, Poll, Reap, StopAll, StopTunnel
<1>2. \/ UNCHANGED local
      \/ \E o : local' = [local EXCEPT ![c].op = o]
      \/ local' = [local EXCEPT ![c].todo = external]
  BY DEF Connect, Poll, Reap, StopAll, StopTunnel
<1> QED
  BY <1>1, <1>2, NoDeletion

-----------------------------------------------------------------------------
(* The steps of a deletion *)

LEMMA DeleteAccount ==
  ASSUME Inv, Stays, NEW c \in Callers, NEW p \in Profiles, NEW stopActive \in BOOLEAN,
         Delete(c, p, stopActive)
  PROVE  Accounts(c)'
<1>1. /\ pc'[c] = "reap" /\ local'[c].todo = external /\ local'[c].prof = p
      /\ local'[c].known = Of(managed \cup external, p)
  BY DEF Delete, Goto, Inv, Typed, Locals
<1>2. ASSUME NEW o \in local'[c].known
      PROVE  o \in Managed /\ Past(o)' /\ owner'[o] = p /\ Fate(c, o)'
  <2>1. o \in managed \cup external /\ owner[o] = p
    BY <1>1, <1>2, ConnectionsAssumption DEF Of
  <2>2. o \in Managed /\ o \in Ops /\ Past(o)
    BY <2>1, TableIsPast DEF Inv, Typed, Managed
  <2>3. Past(o)' /\ owner'[o] = p
    BY <2>1, <2>2 DEF Stays
  <2>4. Fate(c, o)'
    BY <1>1, <2>1, Kinds DEF Fate
  <2> QED
    BY <2>2, <2>3, <2>4
<1>3. pc'[c] \notin Connecting \cup {"idle", "drainLock"}
  BY <1>1 DEF Connecting
<1> QED
  BY <1>1, <1>2, <1>3 DEF Accounts

LEMMA ReapNextAccount ==
  ASSUME Inv, Stays, NEW c \in Callers, Accounts(c), ReapNext(c)
  PROVE  Accounts(c)'
<1>1. /\ pc[c] = "reap" /\ pc'[c] = "note" /\ local'[c].todo = local[c].todo
      /\ local'[c].active = local[c].active /\ local'[c].known = local[c].known
      /\ local'[c].prof = local[c].prof
  BY DEF ReapNext, Goto, Inv, Typed, Locals
<1>2. \A o \in local[c].known : Fate(c, o)'
  BY <1>1, Known DEF Fate
<1> QED
  BY <1>1, <1>2, GoesOn DEF Connecting

LEMMA NoteAccount ==
  ASSUME Inv, Stays, NEW c \in Callers, Accounts(c), Note(c)
  PROVE  Accounts(c)'
<1>1. PICK v, got : v = local[c].op /\ got = local[c].got
  OBVIOUS
<1>2. /\ pc[c] = "note" /\ pc'[c] = "reap"
      /\ Visited(c, v, owner[v] = local[c].prof /\ got = "running",
                       owner[v] = local[c].prof /\ got = "failure")
  BY <1>1 DEF Note, Goto, Inv, Typed
<1>3. PICK running \in BOOLEAN, failure \in BOOLEAN :
        /\ Visited(c, v, running, failure)
        /\ running <=> owner[v] = local[c].prof /\ got = "running"
  BY <1>2
<1>4. /\ local'[c].todo = local[c].todo \ {v}
      /\ local'[c].active = (local[c].active \/ running)
      /\ local'[c].known = local[c].known /\ local'[c].prof = local[c].prof
  BY <1>3, VisitedAccount DEF Inv
<1>5. ASSUME NEW o \in local[c].known PROVE Fate(c, o)'
  <2>1. /\ o \in Ops /\ Past(o) /\ owner[o] = local[c].prof
        /\ Fate(c, o) /\ (Down(o) => Down(o)')
    BY Known
  <2>2. CASE o # v
    BY <1>2, <1>4, <2>1, <2>2 DEF Fate
  <2>3. CASE o = v /\ got = "running"
    BY <1>2, <1>3, <1>4, <2>1, <2>3 DEF Fate
  <2>4. CASE o = v /\ got # "running"
    <3>1. o \notin owned
      BY <1>1, <1>2, <2>4 DEF Inv, Knows, Seen
    <3>2. Down(o)'
      BY <2>1, <3>1, NotOwnedIsDown
    <3> QED
      BY <1>2, <3>2 DEF Fate
  <2> QED
    BY <2>2, <2>3, <2>4
<1> QED
  BY <1>2, <1>4, <1>5, GoesOn DEF Connecting

LEMMA ReapDoneAccount ==
  ASSUME Inv, Stays, NEW c \in Callers, Accounts(c), ReapDone(c)
  PROVE  Accounts(c)'
<1>1. CASE Return(c)
  BY <1>1, ReturnAccount
<1>2. CASE Goto(c, "watchLock") /\ local' = [local EXCEPT ![c].op = Nobody]
  <2>1. /\ pc[c] = "reap" /\ local[c].todo = {} /\ pc'[c] = "watchLock"
        /\ local'[c].active = local[c].active /\ local'[c].known = local[c].known
        /\ local'[c].prof = local[c].prof
    BY <1>2 DEF ReapDone, Done, Goto, Inv, Typed, Locals
  <2>2. \A o \in local[c].known : Fate(c, o)'
    BY <2>1, Known DEF Fate
  <2> QED
    BY <2>1, <2>2, GoesOn DEF Connecting
<1> QED
  BY <1>1, <1>2 DEF ReapDone

\* With the lock of the tunnels, those of the profile are looked up.
LEMMA TakeLockAccount ==
  ASSUME Inv, Stays, NEW c \in Callers, Accounts(c), TakeLock(c)
  PROVE  Accounts(c)'
<1>1. \/ pc[c] = "watchLock" /\ pc'[c] = "watch"
      \/ pc[c] = "drainLock" /\ pc'[c] = "drain"
  BY DEF TakeLock, Goto, Inv, Typed
<1>2. /\ local'[c].todo = IF local[c].op # Nobody THEN {local[c].op}
                          ELSE Of(managed, local[c].prof)
      /\ local'[c].active = local[c].active /\ local'[c].known = local[c].known
      /\ local'[c].prof = local[c].prof
  BY DEF TakeLock, Inv, Typed, Locals
<1>3. ASSUME NEW o \in local[c].known PROVE Fate(c, o)'
  <2>1. /\ o \in Ops /\ Past(o) /\ owner[o] = local[c].prof
        /\ Fate(c, o) /\ (Down(o) => Down(o)')
    BY Known
  <2>2. local[c].op = Nobody
    BY <1>1 DEF Accounts, Inv, Knows, Seen
  <2>3. o \in Tunnels => o \in local'[c].todo \/ Down(o)
    BY <1>2, <2>1, <2>2, Kinds, NotTrackedIsDown DEF Of
  <2> QED
    BY <1>1, <1>2, <2>1, <2>3 DEF Fate
<1> QED
  BY <1>1, <1>2, <1>3, GoesOn DEF Connecting

LEMMA WatchAccount ==
  ASSUME Inv, Inv', Stays, NEW c \in Callers, Accounts(c), Watch(c)
  PROVE  Accounts(c)'
<1>1. PICK v \in local[c].todo, running \in BOOLEAN, failure \in BOOLEAN :
        /\ Visited(c, v, running, failure)
        /\ ~running => v \notin owned'
  <2>1. ASSUME NEW v \in local[c].todo PROVE v \in Ops
    BY DEF Watch, Inv, Knows, Seen
  <2>2. ASSUME NEW v \in local[c].todo, NEW error \in BOOLEAN, RunnerStop(v, error)
        PROVE  v \notin owned'
    BY <2>1, <2>2, RunnerStopDoes
  <2>3. ASSUME NEW v \in local[c].todo, NEW got \in {"running", "success", "failure"},
               RunnerStatus(v, got), got # "running"
        PROVE  v \notin owned'
    BY <2>1, <2>3, RunnerStatusDoes
  <2>4. CASE \E v \in local[c].todo, error \in BOOLEAN :
               RunnerStop(v, error) /\ Visited(c, v, FALSE, error)
    BY <2>2, <2>4
  <2>5. CASE \E v \in local[c].todo, got \in {"running", "success", "failure"} :
               RunnerStatus(v, got) /\ Visited(c, v, got = "running", got = "failure")
    BY <2>3, <2>5
  <2> QED
    BY <2>4, <2>5 DEF Watch
<1>2. /\ local'[c].todo = local[c].todo \ {v}
      /\ local'[c].active = (local[c].active \/ running)
      /\ local'[c].known = local[c].known /\ local'[c].prof = local[c].prof
  BY <1>1, VisitedAccount DEF Inv
<1>3. pc[c] = "watch" /\ pc'[c] = "watch"
  BY DEF Watch
<1>4. ASSUME NEW o \in local[c].known PROVE Fate(c, o)'
  <2>1. o \in Ops /\ Past(o)' /\ Fate(c, o) /\ (Down(o) => Down(o)')
    BY Known
  <2>2. o = v /\ ~running => Down(o)'
    BY <1>1, <2>1, LeftIsDown
  <2> QED
    BY <1>2, <1>3, <2>1, <2>2 DEF Fate
<1> QED
  BY <1>2, <1>3, <1>4, GoesOn DEF Connecting

LEMMA WatchDoneAccount ==
  ASSUME Inv, Stays, NEW c \in Callers, Accounts(c), WatchDone(c)
  PROVE  Accounts(c)'
<1>1. pc[c] = "watch" /\ local[c].todo = {}
  BY DEF WatchDone, Done
<1>2. CASE Return(c)
  BY <1>2, ReturnAccount
<1>3. CASE /\ Goto(c, "halt")
           /\ local' = [local EXCEPT ![c].todo = Of(external, local[c].prof)]
  <2>1. /\ pc'[c] = "halt" /\ local'[c].todo = Of(external, local[c].prof)
        /\ local'[c].known = local[c].known /\ local'[c].prof = local[c].prof
    BY <1>3 DEF Goto, Inv, Typed, Locals
  <2>2. ASSUME NEW o \in local[c].known PROVE Fate(c, o)'
    <3>1. /\ o \in Ops /\ Past(o) /\ owner[o] = local[c].prof /\ (Down(o) => Down(o)')
      BY Known
    <3>2. o \in Terminals => o \in local'[c].todo \/ Down(o)
      BY <2>1, <3>1, Kinds, NotTrackedIsDown DEF Of
    <3> QED
      BY <2>1, <3>1, <3>2 DEF Fate
  <2> QED
    BY <2>1, <2>2, GoesOn DEF Connecting
<1>4. CASE ~local[c].active /\ Goto(c, "drop") /\ UNCHANGED local
  <2>1. pc'[c] = "drop" /\ local'[c] = local[c]
    BY <1>4 DEF Goto, Inv, Typed
  <2>2. \A o \in local[c].known : Fate(c, o)'
    BY <1>1, <1>4, <2>1, Known DEF Fate
  <2> QED
    BY <2>1, <2>2, GoesOn DEF Connecting
<1> QED
  BY <1>2, <1>3, <1>4 DEF WatchDone, GiveUp

LEMMA HaltAccount ==
  ASSUME Inv, Stays, NEW c \in Callers, Accounts(c), Halt(c)
  PROVE  Accounts(c)'
<1>1. PICK v \in local[c].todo :
        \/ v \notin external /\ Visited(c, v, FALSE, TRUE) /\ UNCHANGED pc
        \/ Goto(c, "halting") /\ local' = [local EXCEPT ![c].op = v]
  BY DEF Halt
<1>2. pc[c] = "halt"
  BY DEF Halt
<1>3. CASE v \notin external /\ Visited(c, v, FALSE, TRUE) /\ UNCHANGED pc
  <2>1. TRUE \in BOOLEAN /\ Typed
    BY DEF Inv
  <2>2. /\ local'[c].todo = local[c].todo \ {v}
        /\ local'[c].known = local[c].known /\ local'[c].prof = local[c].prof
    BY <1>3, <2>1, PassedAccount
  <2>3. ASSUME NEW o \in local[c].known PROVE Fate(c, o)'
    <3>1. /\ o \in Ops /\ Past(o) /\ Fate(c, o) /\ (Down(o) => Down(o)')
      BY Known
    <3>2. o \in Terminals /\ o = v => Down(o)
      BY <1>3, <3>1, Kinds, NotTrackedIsDown
    <3> QED
      BY <1>2, <1>3, <2>2, <3>1, <3>2 DEF Fate
  <2> QED
    BY <1>2, <1>3, <2>2, <2>3, GoesOn DEF Connecting
<1>4. CASE Goto(c, "halting") /\ local' = [local EXCEPT ![c].op = v]
  <2>1. /\ pc'[c] = "halting" /\ local'[c].todo = local[c].todo
        /\ local'[c].known = local[c].known /\ local'[c].prof = local[c].prof
    BY <1>4 DEF Goto, Inv, Typed, Locals
  <2>2. \A o \in local[c].known : Fate(c, o)'
    BY <1>2, <2>1, Known DEF Fate
  <2> QED
    BY <2>1, <2>2, GoesOn DEF Connecting
<1> QED
  BY <1>1, <1>3, <1>4

LEMMA HaltingAccount ==
  ASSUME Inv, Inv', Stays, NEW c \in Callers, Accounts(c), Halting(c)
  PROVE  Accounts(c)'
<1>1. PICK v : v = local[c].op
  OBVIOUS
<1>2. PICK error \in BOOLEAN : RunnerStop(v, error) /\ Visited(c, v, FALSE, error)
  BY <1>1 DEF Halting
<1>3. pc[c] = "halting" /\ pc'[c] = "forget"
  BY DEF Halting, Goto, Inv, Typed
<1>4. v \in Ops /\ v \notin owned'
  <2>1. v \in Ops
    BY <1>1, <1>3 DEF Inv, Knows, Seen, Ops, Managed
  <2> QED
    BY <1>2, <2>1, RunnerStopDoes
<1>5. /\ local'[c].todo = local[c].todo \ {v}
      /\ local'[c].known = local[c].known /\ local'[c].prof = local[c].prof
  BY <1>2, PassedAccount DEF Inv
<1>6. ASSUME NEW o \in local[c].known PROVE Fate(c, o)'
  <2>1. o \in Ops /\ Past(o)' /\ Fate(c, o) /\ (Down(o) => Down(o)')
    BY Known
  <2>2. o = v => Down(o)'
    BY <1>4, <2>1, LeftIsDown
  <2> QED
    BY <1>3, <1>5, <2>1, <2>2 DEF Fate
<1> QED
  BY <1>3, <1>5, <1>6, GoesOn DEF Connecting

LEMMA ForgetAccount ==
  ASSUME Inv, Stays, NEW c \in Callers, Accounts(c), Forget(c)
  PROVE  Accounts(c)'
<1>1. pc[c] = "forget" /\ pc'[c] = "halt" /\ local'[c] = local[c]
  BY DEF Forget, Goto, Inv, Typed
<1>2. \A o \in local[c].known : Fate(c, o)'
  BY <1>1, Known DEF Fate
<1> QED
  BY <1>1, <1>2, GoesOn DEF Connecting

LEMMA HaltDoneAccount ==
  ASSUME Inv, Stays, NEW c \in Callers, Accounts(c), HaltDone(c)
  PROVE  Accounts(c)'
<1>1. /\ pc[c] = "halt" /\ local[c].todo = {} /\ pc'[c] = "drainLock"
      /\ local'[c].op = Nobody
      /\ local'[c].known = local[c].known /\ local'[c].prof = local[c].prof
  BY DEF HaltDone, Done, Goto, Inv, Typed, Locals
<1>2. \A o \in local[c].known : Fate(c, o)'
  BY <1>1, Known DEF Fate
<1> QED
  BY <1>1, <1>2, GoesOn DEF Connecting

LEMMA DrainAccount ==
  ASSUME Inv, Inv', Stays, NEW c \in Callers, Accounts(c), Drain(c)
  PROVE  Accounts(c)'
<1>1. pc[c] = "drain" /\ pc'[c] = "drain"
  BY DEF Drain
<1>2. ASSUME NEW v, NEW failure \in BOOLEAN, Visited(c, v, FALSE, failure),
             v \notin managed \/ v \notin owned'
      PROVE  Accounts(c)'
  <2>1. /\ local'[c].todo = local[c].todo \ {v}
        /\ local'[c].known = local[c].known /\ local'[c].prof = local[c].prof
    BY <1>2, PassedAccount DEF Inv
  <2>2. ASSUME NEW o \in local[c].known PROVE Fate(c, o)'
    <3>1. o \in Ops /\ Past(o) /\ Past(o)' /\ Fate(c, o) /\ (Down(o) => Down(o)')
      BY Known
    <3>2. o \in Tunnels /\ o \notin managed => Down(o)
      BY <3>1, Kinds, NotTrackedIsDown
    <3>3. o \notin owned' => Down(o)'
      BY <3>1, LeftIsDown
    <3> QED
      BY <1>1, <1>2, <2>1, <3>1, <3>2, <3>3 DEF Fate
  <2> QED
    BY <1>1, <2>1, <2>2, GoesOn DEF Connecting
<1>3. CASE \E v : v \notin managed /\ Visited(c, v, FALSE, TRUE)
  BY <1>2, <1>3
<1>4. ASSUME NEW v \in managed, NEW error \in BOOLEAN, RunnerStop(v, error),
             Visited(c, v, FALSE, error)
      PROVE  Accounts(c)'
  <2>1. v \notin owned'
    BY <1>4, TableIsPast, RunnerStopDoes
  <2> QED
    BY <1>2, <1>4, <2>1
<1> QED
  BY <1>3, <1>4 DEF Drain

LEMMA DrainDoneAccount ==
  ASSUME Inv, Stays, NEW c \in Callers, Accounts(c), DrainDone(c)
  PROVE  Accounts(c)'
<1>1. CASE Return(c)
  BY <1>1, ReturnAccount
<1>2. CASE Goto(c, "drop") /\ UNCHANGED local
  <2>1. /\ pc[c] = "drain" /\ local[c].todo = {} /\ pc'[c] = "drop"
        /\ local'[c] = local[c]
    BY <1>2 DEF DrainDone, Done, Goto, Inv, Typed
  <2>2. \A o \in local[c].known : Fate(c, o)'
    BY <2>1, Known DEF Fate
  <2> QED
    BY <2>1, <2>2, GoesOn DEF Connecting
<1> QED
  BY <1>1, <1>2 DEF DrainDone, GiveUp

-----------------------------------------------------------------------------
(* The theorem *)

LEMMA CallAccount ==
  ASSUME Inv, Inv', Stays, NEW c \in Callers, Accounts(c),
         Enter(c) \/ Step(c) \/ Interrupt(c)
  PROVE  Accounts(c)'
<1>1. CASE Enter(c)
  BY <1>1, EntersAccount, DeleteAccount DEF Enter
<1>2. CASE Step(c) \/ Interrupt(c)
  <2>1. CASE Drop(c)
    BY <2>1, ReturnAccount DEF Drop, GiveUp
  <2> QED
    BY <1>2, <2>1, ConnectingAccount, TakeLockAccount, WatchAccount, WatchDoneAccount,
       DrainAccount, DrainDoneAccount, ReapNextAccount, NoteAccount, ReapDoneAccount,
       HaltAccount, HaltingAccount, ForgetAccount, HaltDoneAccount DEF Step
<1> QED
  BY <1>1, <1>2

Accounted == Safe /\ \A c \in Callers : Accounts(c)

LEMMA AccountedAlways == Spec => []Accounted
<1>1. ASSUME Init PROVE Accounted
  <2>1. \A c \in Callers : local[c].known = {}
    BY <1>1 DEF Init, Blank
  <2>2. Safe
    BY <1>1, Establishes DEF Init, Safe
  <2> QED
    BY <2>1, <2>2 DEF Accounted, Accounts
<1>2. ASSUME Accounted, [Next]_vars PROVE Accounted'
  <2>1. /\ Inv /\ Inv' /\ Safe' /\ Stays
        /\ \/ UNCHANGED <<pc, local>>
           \/ \E c \in Callers : (Enter(c) \/ Step(c) \/ Interrupt(c)) /\ Moves(c)
    BY <1>2, NextKeeps DEF Accounted, Safe
  <2>2. ASSUME NEW d \in Callers PROVE Accounts(d)'
    <3>1. Accounts(d)
      BY <1>2 DEF Accounted
    <3>2. CASE UNCHANGED <<pc, local>>
      BY <2>1, <3>1, <3>2, OthersAccount
    <3>3. ASSUME NEW c \in Callers, Enter(c) \/ Step(c) \/ Interrupt(c), Moves(c)
          PROVE  Accounts(d)'
      <4>1. CASE d = c
        BY <2>1, <3>1, <3>3, <4>1, CallAccount
      <4>2. CASE d # c
        <5>1. pc'[d] = pc[d] /\ local'[d] = local[d]
          BY <3>3, <4>2 DEF Moves
        <5> QED
          BY <2>1, <3>1, <5>1, OthersAccount
      <4> QED
        BY <4>1, <4>2
    <3> QED
      BY <2>1, <3>2, <3>3
  <2> QED
    BY <2>1, <2>2 DEF Accounted
<1> QED
  BY <1>1, <1>2, PTL DEF Spec

\* ProfileConnectionLifecycleService.delete: when the row of a profile goes, every
\* connection that was tracked as the deletion began is down, unless its plugin has
\* survived a stop.
THEOREM DeletionIsClean == Spec => DeletesWhenClean
<1>1. ASSUME Accounted, NEW c \in Callers, pc[c] = "drop", NEW o \in local[c].known \ stuck
      PROVE  proc[o] # "running"
  <2>1. o \in Managed /\ Fate(c, o)
    BY <1>1 DEF Accounted, Accounts
  <2>2. Down(o)
    BY <1>1, <2>1 DEF Fate, Managed
  <2> QED
    BY <1>1, <2>2 DEF Down
<1>2. Accounted /\ [Next]_vars =>
        [\A c \in Callers : pc[c] = "drop" /\ profiles' # profiles =>
           \A o \in local[c].known \ stuck : proc[o] # "running"]_vars
  BY <1>1
<1> QED
  BY <1>2, AccountedAlways, PTL DEF Spec, DeletesWhenClean

-----------------------------------------------------------------------------
(* The Secrets page: types *)

Profile == PageProfiles \cup {None}
Relay == Relays \cup {None}
Id == Ids \cup {None}
SecretSet == [profile : Profile, id : Id]
Agreements == [profile : Profile, relay : Relay] \cup {None}
Tasks == [kind : TaskKinds, profile : Profile, id : Id, relay : Relay, at : Nat,
          stage : {"call", "poll", "done"}, left : Nat, found : SUBSET SecretSet,
          agreed : Agreements]

PageTyped ==
  /\ profile \in Profile /\ relays \in (SUBSET Relays) \cup {None} /\ relay \in Relay
  /\ mode \in {"direct", "relayed"}
  /\ consent \in BOOLEAN /\ blocked \in BOOLEAN /\ testing \in BOOLEAN /\ looking \in BOOLEAN
  /\ gen \in Nat /\ rev \in Nat
  /\ result \in SecretSet \cup {None} /\ denied \in Profile
  /\ revealed \subseteq {"field", "raw"} /\ timers \subseteq {"field", "raw"} \X Nat
  /\ entries \subseteq SecretSet /\ rows \subseteq SecretSet /\ pending \in Id
  /\ tasks \subseteq Tasks
  /\ changes \in Nat /\ agreed \in Agreements

-----------------------------------------------------------------------------
(* The Secrets page: the inductive invariant *)

\* A lookup or snapshot that is still current is of the profile of the page; a
\* current lookup finds nothing shown, and a current snapshot no lookup.
Aimed(t) == t.kind \in {"get", "snapshot"} =>
  /\ t.at \in 0..gen
  /\ t.at = gen => t.profile = profile
  /\ t.at = gen => IF t.kind = "get" THEN result = None ELSE ~looking

\* A relayed lookup carries what was agreed for it; only they are polled for.
Agreed(t) ==
  /\ t.stage = "poll" => t.kind = "get" /\ t.relay # None
  /\ t.kind = "get" /\ t.relay # None =>
       t.agreed = [profile |-> t.profile, relay |-> t.relay]

\* A listing of saved secrets has found those of its profile; managed nodes are
\* asked for of a profile.
Listed(t) ==
  /\ t.kind = "saved" => \A s \in t.found : s.profile = t.profile
  /\ t.kind = "relays" => t.profile # None

TaskOK(t) == Aimed(t) /\ Agreed(t) /\ Listed(t)

\* The relays on offer are the page's, and a tick is for what is on the page.
OnOffer == relays # None => relays \subseteq Reach[profile]
Ticked == consent => agreed = [profile |-> profile, relay |-> relay]

Sound ==
  /\ \A t \in tasks : TaskOK(t)
  /\ OnOffer /\ Ticked
  /\ PageIsOfItsProfile /\ RevealsExpire /\ FlagsAreBacked

PageInv == PageTyped /\ Sound

-----------------------------------------------------------------------------
(* Tasks, old and new *)

\* A call for profile p, which nobody has worked on.
LEMMA TaskFields ==
  ASSUME NEW k \in TaskKinds, NEW p \in Profile
  PROVE  /\ Task(k, p) \in Tasks
         /\ Task(k, p).kind = k /\ Task(k, p).profile = p /\ Task(k, p).relay = None
         /\ Task(k, p).stage = "call" /\ Task(k, p).found = {}
  BY SecretsAssumption DEF Task, Tasks, Profile, Id, Relay, Agreements

\* A task that promises nothing, and one that a worker has moved on.
Plain(u) ==
  /\ u.kind \notin {"get", "snapshot"} /\ u.found = {} /\ u.stage # "poll"
  /\ u.kind = "relays" => u.profile # None

Moved(t, u) ==
  /\ u.kind = t.kind /\ u.profile = t.profile /\ u.relay = t.relay /\ u.at = t.at
  /\ u.agreed = t.agreed
  /\ u.stage = "poll" => t.kind = "get" /\ t.relay # None
  /\ u.found = t.found \/ \A s \in u.found : s.profile = u.profile

\* Callbacks of older generations are ignored, so a new one frees them.
Aging ==
  \/ gen' = gen + 1
  \/ UNCHANGED <<gen, profile, result>> /\ (looking' => looking)

LEMMA OldOK ==
  ASSUME PageInv, Aging, NEW t \in tasks
  PROVE  TaskOK(t)'
<1>1. TaskOK(t) /\ gen \in Nat
  BY DEF PageInv, Sound, PageTyped
<1>2. t.kind \in {"get", "snapshot"} => t.at \in 0..gen
  BY <1>1 DEF TaskOK, Aimed
<1>3. Aimed(t)'
  BY <1>1, <1>2 DEF TaskOK, Aimed, Aging
<1> QED
  BY <1>1, <1>3 DEF TaskOK, Agreed, Listed

LEMMA PlainOK ==
  ASSUME NEW u, Plain(u)
  PROVE  TaskOK(u)'
  BY DEF Plain, TaskOK, Aimed, Agreed, Listed

LEMMA MovedOK ==
  ASSUME PageInv, Aging, NEW t \in tasks, NEW u, Moved(t, u)
  PROVE  TaskOK(u)'
<1>1. TaskOK(t)'
  BY OldOK
<1> QED
  BY <1>1 DEF Moved, TaskOK, Aimed, Agreed, Listed

-----------------------------------------------------------------------------
(* Steps that the page does not show *)

\* Somebody waits for the callback of t.
Awaited(t) == (t.kind = "get" /\ t.at = gen) \/ (t.kind = "test" /\ t.at = rev)

LEMMA Unshown ==
  ASSUME PageInv, UNCHANGED <<profile, lookup, rev, shown, entries, agreed>>,
         rows' \subseteq SecretSet, pending' \in Id, changes' \in Nat, tasks' \subseteq Tasks,
         \A u \in tasks' : u \in tasks \/ Plain(u) \/ \E t \in tasks : Moved(t, u),
         \A t \in tasks : Awaited(t) => \E u \in tasks' : u.kind = t.kind /\ u.at = t.at
  PROVE  PageInv'
<1>1. PageTyped'
  BY DEF PageInv, PageTyped, lookup, choice, shown
<1>2. \A u \in tasks' : TaskOK(u)'
  <2> SUFFICES ASSUME NEW u \in tasks' PROVE TaskOK(u)'
    OBVIOUS
  <2>1. Aging
    BY DEF Aging, shown, lookup
  <2> QED
    BY <2>1, OldOK, PlainOK, MovedOK
<1>3. OnOffer' /\ Ticked' /\ PageIsOfItsProfile' /\ RevealsExpire'
  BY DEF PageInv, Sound, OnOffer, Ticked, PageIsOfItsProfile, RevealsExpire, lookup, choice, shown
<1>4. FlagsAreBacked'
  BY DEF PageInv, Sound, FlagsAreBacked, Awaited, lookup, choice, shown
<1> QED
  BY <1>1, <1>2, <1>3, <1>4 DEF PageInv, Sound

\* Listings and changes are asked for.
AskedFor(new) == \A u \in new : u \in Tasks /\ Plain(u)

LEMMA ListingsPlain ==
  ASSUME NEW p \in Profile
  PROVE  AskedFor(Listing(p)) /\ AskedFor(LoadList(p)) /\ AskedFor(Reading(p))
  BY TaskFields DEF AskedFor, Listing, LoadList, Reading, Plain, TaskKinds

LEMMA ReloadOK == PageInv /\ Reload => PageInv'
<1> SUFFICES ASSUME PageInv, Reload PROVE PageInv'
  OBVIOUS
<1>1. AskedFor(LoadList(profile))
  BY ListingsPlain DEF PageInv, PageTyped
<1> QED
  BY <1>1, Unshown DEF Reload, PageInv, PageTyped, AskedFor, saved

LEMMA ChangeOK ==
  ASSUME PageInv, NEW kind \in {"register", "update", "delete"}, NEW id \in Ids, Change(kind, id)
  PROVE  PageInv'
<1>1. profile \in Profile /\ kind \in TaskKinds
  BY DEF PageInv, PageTyped, TaskKinds
<1>2. AskedFor({[Task(kind, profile) EXCEPT !.id = id]})
  BY <1>1, TaskFields DEF AskedFor, Plain, Tasks, Id
<1> QED
  BY <1>2, Unshown DEF Change, PageInv, PageTyped, AskedFor, saved

\* A worker moves its task on and leaves the page alone.
LEMMA WorkerUnshown ==
  ASSUME PageInv, NEW t \in tasks, NEW u \in Tasks, Moved(t, u), Becomes(t, u),
         UNCHANGED <<profile, lookup, rev, shown, saved, session>>, rows' \subseteq SecretSet
  PROVE  PageInv'
<1>1. \A v \in tasks' : v \in tasks \/ v = u
  BY DEF Becomes
<1>2. \A v \in tasks : v \in tasks' \/ v = t
  BY DEF Becomes
<1>3. u \in tasks' /\ u.kind = t.kind /\ u.at = t.at
  BY DEF Becomes, Moved
<1>4. tasks' \subseteq Tasks
  BY <1>1 DEF PageInv, PageTyped
<1>5. \A v \in tasks : Awaited(v) => \E w \in tasks' : w.kind = v.kind /\ w.at = v.at
  BY <1>2, <1>3
<1>6. pending' \in Id /\ changes' \in Nat /\ UNCHANGED <<entries, agreed>>
  BY DEF saved, session, PageInv, PageTyped
<1> QED
  BY <1>1, <1>4, <1>5, <1>6, Unshown

LEMMA StageFields ==
  ASSUME NEW t \in Tasks, NEW stage \in {"call", "poll", "done"}
  PROVE  /\ AtStage(t, stage) \in Tasks
         /\ AtStage(t, stage).stage = stage
         /\ stage # "poll" => Moved(t, AtStage(t, stage))
         /\ t.kind = "get" /\ t.relay # None => Moved(t, AtStage(t, stage))
<1>1. /\ [t EXCEPT !.stage = stage] \in Tasks /\ [t EXCEPT !.stage = stage].stage = stage
      /\ stage # "poll" => Moved(t, [t EXCEPT !.stage = stage])
      /\ t.kind = "get" /\ t.relay # None => Moved(t, [t EXCEPT !.stage = stage])
  BY DEF Tasks, Moved
<1> QED
  BY <1>1, SecretsAssumption DEF AtStage, Tasks, Moved

LEMMA SendOK == ASSUME PageInv, NEW t \in tasks, Send(t) PROVE PageInv'
<1>1. t \in Tasks /\ rows \subseteq SecretSet
  BY DEF PageInv, PageTyped
<1>2. AtStage(t, "poll") \in Tasks /\ Moved(t, AtStage(t, "poll"))
  BY <1>1, StageFields DEF Send
<1> QED
  BY <1>1, <1>2, WorkerUnshown DEF Send

LEMMA PollOK == ASSUME PageInv, NEW t \in tasks, PollCommand(t) PROVE PageInv'
<1>1. t \in Tasks /\ rows \subseteq SecretSet /\ TaskOK(t)
  BY DEF PageInv, PageTyped, Sound
<1> DEFINE u == [t EXCEPT !.left = t.left - 1]
<1>2. u \in Tasks
  BY <1>1 DEF PollCommand, Tasks
<1>3. Moved(t, u)
  BY <1>1 DEF PollCommand, Tasks, Moved, TaskOK, Agreed
<1>4. Becomes(t, u) /\ UNCHANGED <<profile, lookup, rev, shown, saved, rows, session>>
  BY DEF PollCommand
<1> HIDE DEF u
<1> QED
  BY <1>1, <1>2, <1>3, <1>4, WorkerUnshown

LEMMA RememberOK == ASSUME PageInv, NEW t \in tasks, Remember(t) PROVE PageInv'
<1>1. t \in Tasks /\ rows \subseteq SecretSet
  BY DEF PageInv, PageTyped
<1>2. AtStage(t, "done") \in Tasks /\ Moved(t, AtStage(t, "done"))
  BY <1>1, StageFields
<1>3. rows' \subseteq SecretSet
  BY <1>1 DEF Remember, Upsert, Secret, SecretSet, Tasks
<1> QED
  BY <1>2, <1>3, WorkerUnshown DEF Remember

LEMMA ReadSavedOK == ASSUME PageInv, NEW t \in tasks, ReadSaved(t) PROVE PageInv'
<1> DEFINE found == {s \in rows : s.profile = t.profile}
           u == [t EXCEPT !.stage = "done", !.found = found]
           v == [t EXCEPT !.stage = "done"]
<1>1. t \in Tasks /\ rows \subseteq SecretSet
  BY DEF PageInv, PageTyped
<1>2. found \in SUBSET SecretSet /\ \A s \in found : s.profile = t.profile
  BY <1>1
<1>3. UNCHANGED <<profile, lookup, rev, shown, saved, rows, session>>
  BY DEF ReadSaved
<1>4. CASE Becomes(t, u)
  <2> HIDE DEF found
  <2>1. u = [[t EXCEPT !.stage = "done"] EXCEPT !.found = found]
    BY <1>1 DEF Tasks
  <2>2. v \in Tasks /\ Moved(t, v)
    BY <1>1 DEF Tasks, Moved
  <2>3. u \in Tasks
    BY <1>2, <2>1, <2>2 DEF Tasks
  <2>4. Moved(t, u)
    BY <1>2, <2>1, <2>2 DEF Tasks, Moved
  <2> HIDE DEF u
  <2> QED
    BY <1>1, <1>3, <1>4, <2>3, <2>4, WorkerUnshown
<1>5. CASE Becomes(t, v)
  <2>1. v \in Tasks /\ Moved(t, v)
    BY <1>1 DEF Tasks, Moved
  <2> HIDE DEF v
  <2> QED
    BY <1>1, <1>3, <1>5, <2>1, WorkerUnshown
<1> QED
  BY <1>4, <1>5 DEF ReadSaved

LEMMA WorkChangeOK == ASSUME PageInv, NEW t \in tasks, WorkChange(t) PROVE PageInv'
<1> DEFINE u == [t EXCEPT !.stage = "done"]
<1>1. t \in Tasks /\ rows \subseteq SecretSet
  BY DEF PageInv, PageTyped
<1>2. u \in Tasks /\ Moved(t, u)
  BY <1>1 DEF Tasks, Moved
<1>3. rows' \subseteq SecretSet
  BY <1>1 DEF WorkChange, Secret, SecretSet, Tasks
<1>4. Becomes(t, u) /\ UNCHANGED <<profile, lookup, rev, shown, saved, session>>
  BY DEF WorkChange
<1> HIDE DEF u
<1> QED
  BY <1>2, <1>3, <1>4, WorkerUnshown

\* A callback that nobody waited for, with the tasks it starts.
LEMMA IgnoredOK == ASSUME PageInv, NEW t \in tasks, Ignored(t) \/ ChangeFails(t) PROVE PageInv'
<1>1. ~Awaited(t)
  BY DEF Ignored, ChangeFails, Awaited, Current
<1>2. /\ UNCHANGED <<profile, lookup, rev, shown, entries, agreed, rows, pending, changes>>
      /\ Gone(t)
  BY DEF Ignored, ChangeFails, saved, session
<1> QED
  BY <1>1, <1>2, Unshown DEF Gone, PageInv, PageTyped

LEMMA ChangedOK == ASSUME PageInv, NEW t \in tasks, Changed(t) PROVE PageInv'
<1>1. ~Awaited(t) /\ t \in Tasks /\ AskedFor(Reading(profile))
  BY ListingsPlain DEF Changed, Awaited, PageInv, PageTyped
<1>2. /\ UNCHANGED <<profile, lookup, rev, shown, entries, agreed, rows, changes>>
      /\ pending' \in Id /\ tasks' = (tasks \ {t}) \cup Reading(profile)
  BY <1>1 DEF Changed, session, Tasks
<1> QED
  BY <1>1, <1>2, Unshown DEF AskedFor, PageInv, PageTyped

-----------------------------------------------------------------------------
(* Steps that end a wait *)

\* The page as a whole, where the tasks there are were there or are in order.
LEMMA Together ==
  ASSUME PageInv, Aging, PageTyped', \A u \in tasks' : u \in tasks \/ TaskOK(u)',
         OnOffer', Ticked', PageIsOfItsProfile', RevealsExpire', FlagsAreBacked'
  PROVE  PageInv'
  BY OldOK DEF PageInv, Sound

\* Flags are lowered and a task goes that none of those left was raised for.
LEMMA Settles ==
  ASSUME PageInv, NEW t \in tasks, Gone(t),
         UNCHANGED <<profile, mode, relays, relay, consent, rev, gen, result, revealed, timers,
                     saved, rows, session>>,
         blocked' \in BOOLEAN, denied' \in Profile, denied' \in {None, profile},
         looking' = FALSE \/ (UNCHANGED looking /\ ~(t.kind = "get" /\ t.at = gen)),
         testing' = FALSE \/ (UNCHANGED testing /\ ~(t.kind = "test" /\ t.at = rev))
  PROVE  PageInv'
<1>1. PageTyped' /\ Aging
  <2>1. looking' \in BOOLEAN /\ testing' \in BOOLEAN
    BY DEF PageInv, PageTyped
  <2>2. Aging
    BY DEF Aging
  <2>3. tasks' \subseteq Tasks /\ rows' \subseteq SecretSet /\ entries' \subseteq SecretSet
    BY DEF PageInv, PageTyped, Gone, saved
  <2> QED
    BY <2>1, <2>2, <2>3 DEF PageInv, PageTyped, saved, session
<1>2. OnOffer' /\ Ticked' /\ PageIsOfItsProfile' /\ RevealsExpire'
  BY DEF PageInv, Sound, OnOffer, Ticked, PageIsOfItsProfile, RevealsExpire, saved, session
<1>3. FlagsAreBacked'
  <2>1. ASSUME looking' PROVE \E u \in tasks' : u.kind = "get" /\ u.at = gen'
    BY <2>1 DEF PageInv, PageTyped, Sound, FlagsAreBacked, Gone
  <2>2. ASSUME testing' PROVE \E u \in tasks' : u.kind = "test" /\ u.at = rev'
    BY <2>2 DEF PageInv, PageTyped, Sound, FlagsAreBacked, Gone
  <2> QED
    BY <2>1, <2>2 DEF FlagsAreBacked
<1>4. \A u \in tasks' : u \in tasks
  BY DEF Gone
<1> QED
  BY <1>1, <1>2, <1>3, <1>4, Together

LEMMA LookupFailedOK == ASSUME PageInv, NEW t \in tasks, LookupFailed(t) PROVE PageInv'
<1>1. t \in Tasks /\ t.kind = "get" /\ t.at = gen /\ t.profile = profile
  BY DEF LookupFailed, Raises, Current, PageInv, PageTyped, Sound, TaskOK, Aimed
<1>2. denied' \in Profile /\ denied' \in {None, profile}
  BY <1>1 DEF LookupFailed, PageInv, PageTyped, Profile
<1>3. blocked' \in BOOLEAN /\ Gone(t)
  BY DEF LookupFailed, choice, PageInv, PageTyped
<1>4. UNCHANGED <<profile, mode, relays, relay, consent, rev, gen, result, revealed, timers,
                  saved, rows, session>>
  BY DEF LookupFailed, choice
<1>5. /\ looking' = FALSE
      /\ UNCHANGED testing /\ ~(t.kind = "test" /\ t.at = rev)
  BY <1>1 DEF LookupFailed, choice
<1> QED
  BY <1>2, <1>3, <1>4, <1>5, Settles

LEMMA CancelledOK == ASSUME PageInv, NEW t \in tasks, Cancelled(t) PROVE PageInv'
<1>1. denied' \in Profile /\ denied' \in {None, profile}
  BY DEF Cancelled, shown, PageInv, PageTyped, Sound, PageIsOfItsProfile
<1>2. blocked' \in BOOLEAN /\ Gone(t) /\ looking' = FALSE /\ testing' = FALSE
  BY DEF Cancelled, PageInv, PageTyped
<1>3. UNCHANGED <<profile, mode, relays, relay, consent, rev, gen, result, revealed, timers,
                  saved, rows, session>>
  BY DEF Cancelled, shown
<1> QED
  BY <1>1, <1>2, <1>3, Settles

LEMMA CheckedOK == ASSUME PageInv, NEW t \in tasks, Tested(t) \/ RelaysFailed(t) PROVE PageInv'
<1>1. denied' \in Profile /\ denied' \in {None, profile}
  BY DEF Tested, RelaysFailed, shown, PageInv, PageTyped, Sound, PageIsOfItsProfile
<1>2. blocked' \in BOOLEAN /\ Gone(t)
  BY DEF Tested, RelaysFailed, Verdict
<1>3. UNCHANGED <<profile, mode, relays, relay, consent, rev, gen, result, revealed, timers,
                  saved, rows, session>>
  BY DEF Tested, RelaysFailed, shown
<1>4. UNCHANGED looking /\ ~(t.kind = "get" /\ t.at = gen)
  BY DEF Tested, RelaysFailed
<1>5. testing' = FALSE \/ (UNCHANGED testing /\ ~(t.kind = "test" /\ t.at = rev))
  BY DEF Tested, RelaysFailed
<1> QED
  BY <1>1, <1>2, <1>3, <1>4, <1>5, Settles

\* Another relay is shown: one that is on offer, and no tick for it.
LEMMA RelaysLoadedOK == ASSUME PageInv, NEW t \in tasks, RelaysLoaded(t) PROVE PageInv'
<1>1. /\ t \in Tasks /\ t.kind = "relays" /\ t.profile = profile /\ profile \in PageProfiles
      /\ relays' \subseteq Reach[profile] /\ Reach[profile] \subseteq Relays
  BY SecretsAssumption DEF RelaysLoaded, Mine, Online, PageInv, PageTyped, Sound, TaskOK, Listed, Tasks, Profile
<1>2. /\ UNCHANGED <<profile, mode, looking, gen, result, revealed, timers, denied, entries,
                     pending, rows, changes, agreed>>
      /\ tasks' = tasks \ {t}
  BY DEF RelaysLoaded, shown, saved, session, Gone
<1>3. /\ relay' \in relays' \cup {None} /\ rev' \in Nat
      /\ testing' \in BOOLEAN /\ blocked' \in BOOLEAN /\ consent' \in BOOLEAN
      /\ consent' => consent /\ relay' = relay
      /\ testing' => testing /\ rev' = rev
  <2>1. ASSUME NEW r \in relays' \cup {None}, RelayChanged(r)
        PROVE  /\ relay' = r /\ rev' \in Nat
               /\ testing' = FALSE /\ blocked' = FALSE /\ consent' = FALSE
    BY <2>1 DEF RelayChanged, PageInv, PageTyped
  <2>2. CASE relay = None /\ UNCHANGED <<relay, rev, testing, blocked, consent>>
    BY <2>2 DEF PageInv, PageTyped
  <2> QED
    BY <2>1, <2>2 DEF RelaysLoaded
<1>4. PageTyped' /\ Aging
  BY <1>1, <1>2, <1>3 DEF PageInv, PageTyped, Aging, Relay
<1>5. OnOffer' /\ Ticked' /\ RevealsExpire'
  BY <1>1, <1>2, <1>3 DEF PageInv, Sound, OnOffer, Ticked, RevealsExpire
<1>6. PageIsOfItsProfile'
  BY <1>1, <1>2, <1>3 DEF PageInv, Sound, PageIsOfItsProfile
<1>7. FlagsAreBacked'
  BY <1>1, <1>2, <1>3 DEF PageInv, Sound, FlagsAreBacked
<1>8. \A u \in tasks' : u \in tasks
  BY <1>2
<1> QED
  BY <1>4, <1>5, <1>6, <1>7, <1>8, Together

-----------------------------------------------------------------------------
(* What the user does while the generation stays *)

LEMMA ChooseRelayOK == PageInv /\ ChooseRelay => PageInv'
<1> SUFFICES ASSUME PageInv, ChooseRelay PROVE PageInv'
  OBVIOUS
<1>1. /\ UNCHANGED <<profile, mode, relays, looking, gen, result, revealed, timers, denied,
                     entries, pending, rows, changes, agreed, tasks>>
      /\ relays # None /\ relay' \in relays /\ rev' = rev + 1
      /\ consent' = FALSE /\ testing' = FALSE /\ blocked' = FALSE
  BY DEF ChooseRelay, RelayChanged, shown, saved, session
<1>2. PageTyped' /\ Aging
  <2>1. relay' \in Relay /\ rev' \in Nat /\ Aging
    BY <1>1 DEF PageInv, PageTyped, Relay, Aging
  <2>2. consent' \in BOOLEAN /\ testing' \in BOOLEAN /\ blocked' \in BOOLEAN
    BY <1>1
  <2> QED
    BY <1>1, <2>1, <2>2 DEF PageInv, PageTyped
<1>3. OnOffer' /\ Ticked' /\ PageIsOfItsProfile' /\ RevealsExpire' /\ FlagsAreBacked'
  BY <1>1 DEF PageInv, Sound, OnOffer, Ticked, PageIsOfItsProfile, RevealsExpire, FlagsAreBacked
<1> QED
  BY <1>1, <1>2, <1>3, Together

LEMMA ConsentOK == PageInv /\ Consent => PageInv'
<1> SUFFICES ASSUME PageInv, Consent PROVE PageInv'
  OBVIOUS
<1>1. /\ UNCHANGED <<profile, mode, relays, relay, blocked, testing, looking, rev, gen, result,
                     revealed, timers, denied, entries, pending, tasks, rows, changes>>
      /\ consent' = ~consent
      /\ agreed' = IF consent THEN None ELSE [profile |-> profile, relay |-> relay]
  BY DEF Consent, shown, saved
<1>2. agreed' \in Agreements /\ consent' \in BOOLEAN
  BY <1>1 DEF PageInv, PageTyped, Agreements
<1>3. PageTyped' /\ Aging
  BY <1>1, <1>2 DEF PageInv, PageTyped, Aging
<1>4. Ticked'
  BY <1>1 DEF PageInv, PageTyped, Ticked
<1>5. OnOffer' /\ PageIsOfItsProfile' /\ RevealsExpire' /\ FlagsAreBacked'
  BY <1>1 DEF PageInv, Sound, OnOffer, PageIsOfItsProfile, RevealsExpire, FlagsAreBacked
<1> QED
  BY <1>1, <1>3, <1>4, <1>5, Together

LEMMA TestOK == PageInv /\ Test => PageInv'
<1> SUFFICES ASSUME PageInv, Test PROVE PageInv'
  OBVIOUS
<1> DEFINE u == [Task("test", profile) EXCEPT !.relay = relay, !.at = rev + 1]
<1>1. /\ UNCHANGED <<profile, mode, relays, relay, consent, blocked, looking, gen, result,
                     revealed, timers, denied, entries, pending, rows, changes, agreed>>
      /\ rev' = rev + 1 /\ testing' = TRUE /\ tasks' = tasks \cup {u}
  BY DEF Test, shown, saved, session
<1>2. u \in Tasks /\ u.kind = "test" /\ u.at = rev + 1 /\ Plain(u)
  <2>1. profile \in Profile /\ relay \in Relay /\ rev + 1 \in Nat /\ "test" \in TaskKinds
    BY DEF PageInv, PageTyped, TaskKinds
  <2> DEFINE v == Task("test", profile)
             w == [v EXCEPT !.relay = relay]
  <2>2. v \in Tasks /\ v.kind = "test" /\ v.stage = "call" /\ v.found = {}
    BY <2>1, TaskFields
  <2> HIDE DEF v
  <2>3. w \in Tasks /\ w.kind = "test" /\ w.stage = "call" /\ w.found = {}
    BY <2>1, <2>2 DEF Tasks
  <2>4. u = [w EXCEPT !.at = rev + 1]
    BY <2>2 DEF v, Tasks
  <2> HIDE DEF w, u
  <2> QED
    BY <2>1, <2>3, <2>4 DEF Tasks, Plain
<1> HIDE DEF u
<1>3. PageTyped' /\ Aging
  BY <1>1, <1>2 DEF PageInv, PageTyped, Aging
<1>4. OnOffer' /\ Ticked' /\ PageIsOfItsProfile' /\ RevealsExpire'
  BY <1>1 DEF PageInv, Sound, OnOffer, Ticked, PageIsOfItsProfile, RevealsExpire
<1>5. FlagsAreBacked'
  BY <1>1, <1>2 DEF PageInv, Sound, FlagsAreBacked
<1>6. \A v \in tasks' : v \in tasks \/ TaskOK(v)'
  <2> SUFFICES ASSUME NEW v \in tasks', v \notin tasks PROVE TaskOK(v)'
    OBVIOUS
  <2>1. Plain(v)
    BY <1>1, <1>2
  <2> QED
    BY <2>1, PlainOK
<1> QED
  BY <1>3, <1>4, <1>5, <1>6, Together

\* What is revealed or hidden leaves everything else alone.
LEMMA HidingOK ==
  ASSUME PageInv, UNCHANGED <<profile, lookup, rev, gen, result, denied, saved, tasks, rows, session>>,
         revealed' \subseteq {"field", "raw"}, timers' \subseteq {"field", "raw"} \X Nat,
         RevealsExpire'
  PROVE  PageInv'
<1>1. PageTyped' /\ Aging
  BY DEF PageInv, PageTyped, Aging, lookup, choice, saved, session
<1>2. OnOffer' /\ Ticked' /\ PageIsOfItsProfile' /\ FlagsAreBacked'
  BY DEF PageInv, Sound, OnOffer, Ticked, PageIsOfItsProfile, FlagsAreBacked, lookup, choice, saved,
         session
<1> QED
  BY <1>1, <1>2, Together

LEMMA RevealOK == ASSUME PageInv, NEW what \in {"field", "raw"}, Reveal(what) PROVE PageInv'
<1>1. /\ revealed' = revealed \cup {what} /\ timers' = timers \cup {<<what, gen>>}
      /\ result # None /\ UNCHANGED <<gen, result>> /\ gen \in Nat
  BY DEF Reveal, PageInv, PageTyped
<1>2. revealed' \subseteq {"field", "raw"} /\ timers' \subseteq {"field", "raw"} \X Nat
  <2>1. revealed \subseteq {"field", "raw"} /\ timers \subseteq {"field", "raw"} \X Nat
    BY DEF PageInv, PageTyped
  <2>2. revealed' \subseteq {"field", "raw"}
    BY <1>1, <2>1
  <2>3. <<what, gen>> \in {"field", "raw"} \X Nat
    BY <1>1
  <2> QED
    BY <1>1, <2>1, <2>2, <2>3
<1>3. RevealsExpire'
  BY <1>1 DEF PageInv, Sound, RevealsExpire
<1> QED
  BY <1>2, <1>3, HidingOK DEF Reveal

LEMMA HideOK == PageInv /\ Hide => PageInv'
<1> SUFFICES ASSUME PageInv, Hide PROVE PageInv'
  OBVIOUS
<1>1. revealed' \subseteq revealed /\ UNCHANGED <<timers, gen, result>>
  BY DEF Hide
<1>2. revealed' \subseteq {"field", "raw"} /\ timers' \subseteq {"field", "raw"} \X Nat
  BY <1>1 DEF PageInv, PageTyped
<1>3. RevealsExpire'
  BY <1>1 DEF PageInv, Sound, RevealsExpire
<1> QED
  BY <1>2, <1>3, HidingOK DEF Hide

\* A timer of this generation hides what it was started for.
LEMMA HideLaterOK == ASSUME PageInv, NEW timer \in timers, HideLater(timer) PROVE PageInv'
<1>1. /\ timers' = timers \ {timer} /\ UNCHANGED <<gen, result>>
      /\ revealed' = IF timer[2] = gen THEN revealed \ {timer[1]} ELSE revealed
  BY DEF HideLater
<1>2. revealed' \subseteq {"field", "raw"} /\ timers' \subseteq {"field", "raw"} \X Nat
  BY <1>1 DEF PageInv, PageTyped
<1>3. RevealsExpire'
  <2> SUFFICES ASSUME NEW what \in revealed'
               PROVE  result' # None /\ <<what, gen'>> \in timers'
    BY DEF RevealsExpire
  <2>1. what \in revealed /\ result # None /\ <<what, gen>> \in timers
    BY <1>1 DEF PageInv, Sound, RevealsExpire
  <2>2. <<what, gen>> # timer
    BY <1>1
  <2> QED
    BY <1>1, <2>1, <2>2
<1> QED
  BY <1>2, <1>3, HidingOK DEF HideLater

-----------------------------------------------------------------------------
(* What makes a new generation *)

LEMMA ClearedTyped ==
  ASSUME PageInv, Cleared
  PROVE  /\ Aging /\ gen' = gen + 1 /\ gen' \in Nat
         /\ result' \in SecretSet \cup {None} /\ denied' \in Profile /\ looking' \in BOOLEAN
         /\ revealed' \subseteq {"field", "raw"} /\ timers' \subseteq {"field", "raw"} \X Nat
<1>1. /\ gen' = gen + 1 /\ result' = None /\ denied' = None /\ looking' = FALSE
      /\ revealed' = {} /\ UNCHANGED timers
  BY DEF Cleared
<1>2. gen \in Nat /\ timers \subseteq {"field", "raw"} \X Nat
  BY DEF PageInv, PageTyped
<1>3. looking' \in BOOLEAN
  BY <1>1
<1> QED
  BY <1>1, <1>2, <1>3 DEF Aging, Profile

\* The mode: what was revealed is hidden, what was under way is given up.
LEMMA ChooseModeOK == PageInv /\ ChooseMode => PageInv'
<1> SUFFICES ASSUME PageInv, ChooseMode PROVE PageInv'
  OBVIOUS
<1>1. /\ UNCHANGED <<profile, relays, relay, blocked, entries, pending, tasks, rows, changes,
                     agreed, timers>>
      /\ mode' \in {"direct", "relayed"} /\ rev' = rev + 1
      /\ consent' = FALSE /\ testing' = FALSE /\ looking' = FALSE
      /\ revealed' = {} /\ denied' = None
      /\ \/ gen' = gen + 1 /\ result' = None
         \/ UNCHANGED <<gen, result>>
  <2>1. PICK m \in {"direct", "relayed"} : ModeChanged(m)
    BY DEF ChooseMode
  <2>2. looking' = FALSE
    BY <2>1 DEF ModeChanged, Cleared, PageInv, PageTyped
  <2> QED
    BY <2>1, <2>2 DEF ChooseMode, ModeChanged, Cleared, saved, session
<1>2. PageTyped' /\ Aging
  <2>1. rev' \in Nat /\ gen' \in Nat /\ denied' \in Profile /\ result' \in SecretSet \cup {None}
    BY <1>1 DEF PageInv, PageTyped, Profile
  <2>2. consent' \in BOOLEAN /\ testing' \in BOOLEAN /\ looking' \in BOOLEAN
    BY <1>1
  <2>3. Aging
    BY <1>1 DEF Aging
  <2> QED
    BY <1>1, <2>1, <2>2, <2>3 DEF PageInv, PageTyped
<1>3. OnOffer' /\ Ticked' /\ PageIsOfItsProfile' /\ RevealsExpire' /\ FlagsAreBacked'
  BY <1>1 DEF PageInv, Sound, OnOffer, Ticked, PageIsOfItsProfile, RevealsExpire, FlagsAreBacked
<1> QED
  BY <1>1, <1>2, <1>3, Together

LEMMA SetProfileOK == ASSUME PageInv, NEW p \in Profile, SetProfile(p) PROVE PageInv'
<1>1. /\ profile' = p /\ relay' = None /\ relays' = None /\ entries' = {} /\ pending' = None
      /\ consent' = FALSE /\ testing' = FALSE /\ blocked' \in BOOLEAN /\ rev' = rev + 1
      /\ Cleared /\ UNCHANGED <<mode, rows, changes, agreed>>
      /\ tasks' = tasks \cup Listing(p) \cup LoadList(p)
  BY DEF SetProfile, session
<1>2. AskedFor(Listing(p)) /\ AskedFor(LoadList(p))
  BY ListingsPlain
<1>3. PageTyped'
  <2>1. /\ rev' \in Nat /\ relay' \in Relay /\ relays' \in (SUBSET Relays) \cup {None}
        /\ entries' \subseteq SecretSet /\ pending' \in Id /\ tasks' \subseteq Tasks
    BY <1>1, <1>2 DEF PageInv, PageTyped, AskedFor, Relay, Id
  <2>2. consent' \in BOOLEAN /\ testing' \in BOOLEAN
    BY <1>1
  <2> QED
    BY <1>1, <2>1, <2>2, ClearedTyped DEF PageInv, PageTyped
<1>4. OnOffer' /\ Ticked' /\ PageIsOfItsProfile' /\ RevealsExpire' /\ FlagsAreBacked'
  BY <1>1 DEF Cleared, OnOffer, Ticked, PageIsOfItsProfile, RevealsExpire, FlagsAreBacked
<1>5. \A u \in tasks' : u \in tasks \/ TaskOK(u)'
  <2> SUFFICES ASSUME NEW u \in tasks', u \notin tasks PROVE TaskOK(u)'
    OBVIOUS
  <2>1. Plain(u)
    BY <1>1, <1>2 DEF AskedFor
  <2> QED
    BY <2>1, PlainOK
<1> QED
  BY <1>1, <1>3, <1>4, <1>5, ClearedTyped, Together

\* A lookup: what the user agreed to goes with it, and nothing is shown.
LEMMA RequestOK == ASSUME PageInv, NEW id \in Ids, Request(id) PROVE PageInv'
<1> DEFINE r == IF mode = "relayed" THEN relay ELSE None
           v == Task("get", profile)
           w == [v EXCEPT !.id = id]
           x == [w EXCEPT !.relay = r]
           y == [x EXCEPT !.at = gen + 1]
           u == [y EXCEPT !.agreed = agreed]
<1>1. /\ UNCHANGED <<profile, mode, relays, relay, blocked, testing, rev, timers, entries,
                     pending, rows, changes>>
      /\ gen' = gen + 1 /\ result' = None /\ revealed' = {} /\ denied' = None
      /\ looking' = TRUE /\ consent' = FALSE
      /\ agreed' = IF mode = "relayed" THEN None ELSE agreed
      /\ mode = "relayed" => consent
  BY DEF Request, MayLook, saved
<1>2. /\ profile \in Profile /\ relay \in Relay /\ gen + 1 \in Nat /\ "get" \in TaskKinds
      /\ agreed \in Agreements /\ None \in Agreements /\ None \in Profile /\ id \in Id
      /\ None \in Relay
  BY DEF PageInv, PageTyped, TaskKinds, Agreements, Profile, Id, Relay
<1>3. v \in Tasks /\ v.kind = "get" /\ v.profile = profile /\ v.stage = "call"
  BY <1>2, TaskFields
<1> HIDE DEF v
<1>4. w \in Tasks /\ w.kind = "get" /\ w.profile = profile /\ w.stage = "call"
  BY <1>2, <1>3 DEF Tasks
<1>5. tasks' = tasks \cup {u}
  <2>1. u = [v EXCEPT !.id = id, !.relay = r, !.at = gen + 1, !.agreed = agreed]
    BY <1>3 DEF Tasks
  <2> QED
    BY <2>1 DEF Request, v
<1> HIDE DEF w
<1>6. r \in Relay
  BY <1>2
<1>7. /\ x \in Tasks /\ x.kind = "get" /\ x.profile = profile /\ x.stage = "call"
      /\ x.relay = r
  BY <1>4, <1>6 DEF Tasks
<1> HIDE DEF x
<1>8. /\ y \in Tasks /\ y.kind = "get" /\ y.profile = profile /\ y.stage = "call"
      /\ y.relay = r /\ y.at = gen + 1
  BY <1>2, <1>7 DEF Tasks
<1> HIDE DEF y
<1>9. /\ u \in Tasks /\ u.kind = "get" /\ u.profile = profile /\ u.stage = "call"
      /\ u.relay = r /\ u.at = gen + 1 /\ u.agreed = agreed
  BY <1>2, <1>8 DEF Tasks
<1> HIDE DEF u
<1>10. PageTyped' /\ Aging
  <2>1. /\ gen' \in Nat /\ result' \in SecretSet \cup {None} /\ denied' \in Profile
        /\ agreed' \in Agreements /\ tasks' \subseteq Tasks
    BY <1>1, <1>2, <1>5, <1>9 DEF PageInv, PageTyped
  <2>2. looking' \in BOOLEAN /\ consent' \in BOOLEAN
    BY <1>1
  <2> QED
    BY <1>1, <2>1, <2>2 DEF PageInv, PageTyped, Aging
<1>11. OnOffer' /\ Ticked' /\ PageIsOfItsProfile' /\ RevealsExpire'
  BY <1>1 DEF PageInv, Sound, OnOffer, Ticked, PageIsOfItsProfile, RevealsExpire
<1>12. FlagsAreBacked'
  BY <1>1, <1>5, <1>9 DEF PageInv, Sound, FlagsAreBacked
<1>13. ASSUME NEW t \in tasks', t \notin tasks PROVE TaskOK(t)'
  <2>1. /\ t.kind = "get" /\ t.profile = profile /\ t.stage = "call"
        /\ t.relay = r /\ t.at = gen + 1 /\ t.agreed = agreed
    BY <1>5, <1>9, <1>13
  <2>2. Aimed(t)'
    BY <1>1, <1>2, <2>1 DEF Aimed
  <2>3. r # None => agreed = [profile |-> profile, relay |-> r]
    BY <1>1 DEF PageInv, Sound, Ticked
  <2>4. Agreed(t)' /\ Listed(t)'
    BY <2>1, <2>3 DEF Agreed, Listed
  <2> QED
    BY <2>2, <2>4 DEF TaskOK
<1> QED
  BY <1>10, <1>11, <1>12, <1>13, Together

\* A snapshot of the entry s is asked for, and t has been answered, or nothing.
LEMMA LoadEntryOK ==
  ASSUME PageInv, NEW s \in SecretSet, NEW rest \in SUBSET tasks, LoadEntry(s, rest),
         UNCHANGED <<profile, choice, rev, rows, session>>,
         entries' \subseteq SecretSet, pending' \in Id, \A e \in entries' : e.profile = profile,
         \A t \in tasks \ rest : t.kind # "test"
  PROVE  PageInv'
<1> DEFINE v == Task("snapshot", profile)
           w == [v EXCEPT !.id = s.id]
           u == [w EXCEPT !.at = gen + 1]
<1>1. /\ gen' = gen + 1 /\ result' = None /\ revealed' = {} /\ denied' = None
      /\ looking' = FALSE /\ Cleared
  BY DEF LoadEntry, Cleared
<1>2. profile \in Profile /\ gen + 1 \in Nat /\ "snapshot" \in TaskKinds /\ s.id \in Id
  BY DEF PageInv, PageTyped, TaskKinds, SecretSet
<1>3. v \in Tasks /\ v.kind = "snapshot" /\ v.profile = profile /\ v.stage = "call"
  BY <1>2, TaskFields
<1>4. tasks' = rest \cup {u}
  <2> HIDE DEF v
  <2>1. u = [v EXCEPT !.id = s.id, !.at = gen + 1]
    BY <1>3 DEF Tasks
  <2> QED
    BY <2>1 DEF LoadEntry, v
<1> HIDE DEF v
<1>5. w \in Tasks /\ w.kind = "snapshot" /\ w.profile = profile /\ w.stage = "call"
  BY <1>2, <1>3 DEF Tasks
<1> HIDE DEF w
<1>6. /\ u \in Tasks /\ u.kind = "snapshot" /\ u.profile = profile /\ u.stage = "call"
      /\ u.at = gen + 1
  BY <1>2, <1>5 DEF Tasks
<1> HIDE DEF u
<1>7. PageTyped' /\ Aging
  <2>1. tasks' \subseteq Tasks
    BY <1>4, <1>6 DEF PageInv, PageTyped
  <2> QED
    BY <1>1, <2>1, ClearedTyped DEF PageInv, PageTyped, choice, session
<1>8. OnOffer' /\ Ticked' /\ PageIsOfItsProfile' /\ RevealsExpire'
  BY <1>1 DEF PageInv, Sound, OnOffer, Ticked, PageIsOfItsProfile, RevealsExpire, choice, session
<1>9. FlagsAreBacked'
  BY <1>1, <1>4 DEF PageInv, Sound, FlagsAreBacked, choice
<1>10. ASSUME NEW t \in tasks', t \notin tasks PROVE TaskOK(t)'
  <2>1. /\ t.kind = "snapshot" /\ t.profile = profile /\ t.stage = "call" /\ t.at = gen + 1
    BY <1>4, <1>6, <1>10
  <2> QED
    BY <1>1, <1>2, <2>1 DEF TaskOK, Aimed, Agreed, Listed
<1> QED
  BY <1>7, <1>8, <1>9, <1>10, Together

LEMMA SelectOK == ASSUME PageInv, NEW s \in entries, Select(s) PROVE PageInv'
<1>1. s \in SecretSet /\ LoadEntry(s, tasks) /\ tasks \in SUBSET tasks
  BY DEF Select, PageInv, PageTyped
<1>2. UNCHANGED <<profile, choice, rev, rows, session>>
  BY DEF Select
<1>3. entries' \subseteq SecretSet /\ pending' \in Id /\ \A e \in entries' : e.profile = profile
  BY DEF Select, saved, PageInv, PageTyped, Sound, PageIsOfItsProfile
<1> QED
  BY <1>1, <1>2, <1>3, LoadEntryOK

LEMMA SavedLoadedOK == ASSUME PageInv, NEW t \in tasks, SavedLoaded(t) PROVE PageInv'
<1>1. /\ t \in Tasks /\ t.kind = "saved" /\ t.profile = profile
      /\ \A s \in t.found : s.profile = profile
      /\ entries' = t.found /\ pending' = None /\ entries' \subseteq SecretSet /\ pending' \in Id
      /\ UNCHANGED <<profile, choice, rev, rows, session>>
  BY DEF SavedLoaded, Mine, PageInv, PageTyped, Sound, TaskOK, Listed, Tasks, Id
<1>2. ASSUME NEW s \in t.found, LoadEntry(s, tasks \ {t}) PROVE PageInv'
  <2>1. s \in SecretSet /\ tasks \ {t} \in SUBSET tasks
    BY <1>1
  <2>2. \A v \in tasks \ (tasks \ {t}) : v.kind # "test"
    BY <1>1
  <2> QED
    BY <1>1, <1>2, <2>1, <2>2, LoadEntryOK
<1>3. ASSUME Gone(t), UNCHANGED <<shown, looking>> PROVE PageInv'
  <2>1. PageTyped' /\ Aging
    BY <1>1, <1>3 DEF PageInv, PageTyped, Gone, Aging, shown, choice, session
  <2>2. OnOffer' /\ Ticked' /\ PageIsOfItsProfile' /\ RevealsExpire'
    BY <1>1, <1>3 DEF PageInv, Sound, OnOffer, Ticked, PageIsOfItsProfile, RevealsExpire, shown,
                      choice, session
  <2>3. FlagsAreBacked'
    BY <1>1, <1>3 DEF PageInv, Sound, FlagsAreBacked, Gone, shown, choice
  <2>4. \A v \in tasks' : v \in tasks
    BY <1>3 DEF Gone
  <2> QED
    BY <2>1, <2>2, <2>3, <2>4, Together
<1> QED
  BY <1>2, <1>3 DEF SavedLoaded

\* The value of a current lookup: nothing was shown, so nothing is revealed.
LEMMA LoadedOK == ASSUME PageInv, NEW t \in tasks, Loaded(t) PROVE PageInv'
<1>1. /\ t \in Tasks /\ t.kind = "get" /\ t.at = gen /\ t.profile = profile /\ result = None
  BY DEF Loaded, Current, PageInv, PageTyped, Sound, TaskOK, Aimed
<1>2. /\ UNCHANGED <<profile, mode, relays, relay, consent, blocked, testing, rev, revealed,
                     timers, denied, entries, pending, rows, changes, agreed>>
      /\ gen' = gen + 1 /\ looking' = FALSE /\ result' = Secret(t.profile, t.id)
      /\ tasks' = (tasks \ {t}) \cup {Task("saved", profile)}
  BY DEF Loaded, choice, saved, session
<1>3. profile \in Profile /\ "saved" \in TaskKinds /\ gen + 1 \in Nat
  BY DEF PageInv, PageTyped, TaskKinds
<1>4. Task("saved", profile) \in Tasks /\ Plain(Task("saved", profile))
  BY <1>3, TaskFields DEF Plain
<1>5. result' \in SecretSet /\ result'.profile = profile
  BY <1>1, <1>2 DEF Secret, SecretSet, Tasks
<1>6. PageTyped' /\ Aging
  <2>1. tasks' \subseteq Tasks
    BY <1>2, <1>4 DEF PageInv, PageTyped
  <2>2. looking' \in BOOLEAN
    BY <1>2
  <2> QED
    BY <1>2, <1>3, <1>5, <2>1, <2>2 DEF PageInv, PageTyped, Aging
<1>7. OnOffer' /\ Ticked' /\ PageIsOfItsProfile'
  BY <1>2, <1>5 DEF PageInv, Sound, OnOffer, Ticked, PageIsOfItsProfile
<1>8. RevealsExpire'
  BY <1>1, <1>2 DEF PageInv, Sound, RevealsExpire
<1>9. FlagsAreBacked'
  BY <1>1, <1>2 DEF PageInv, Sound, FlagsAreBacked
<1>10. ASSUME NEW u \in tasks', u \notin tasks PROVE TaskOK(u)'
  <2>1. Plain(u)
    BY <1>2, <1>4, <1>10
  <2> QED
    BY <2>1, PlainOK
<1> QED
  BY <1>6, <1>7, <1>8, <1>9, <1>10, Together

\* A current snapshot, with the mode and the relay it was loaded with.
LEMMA SnapshotLoadedOK == ASSUME PageInv, NEW t \in tasks, SnapshotLoaded(t) PROVE PageInv'
<1>1. /\ t \in Tasks /\ t.kind = "snapshot" /\ t.at = gen /\ t.profile = profile /\ ~looking
  BY DEF SnapshotLoaded, Current, PageInv, PageTyped, Sound, TaskOK, Aimed
<1>2. /\ UNCHANGED <<profile, relays, looking, timers, denied, entries, pending, rows, changes,
                     agreed>>
      /\ gen' = gen + 1 /\ result' = Secret(t.profile, t.id) /\ revealed' = {}
      /\ mode' \in {"direct", "relayed"} /\ tasks' = tasks \ {t}
  BY DEF SnapshotLoaded, Gone, saved, session
<1>3. /\ relay' = relay \/ (relays # None /\ relay' \in relays \cup {None})
      /\ rev' \in Nat /\ consent' \in BOOLEAN /\ testing' \in BOOLEAN /\ blocked' \in BOOLEAN
      /\ consent' => consent /\ relay' = relay
      /\ testing' => testing /\ rev' = rev
  <2>1. ASSUME NEW r \in relays \cup {None}, RelayChanged(r)
        PROVE  /\ relay' = r /\ rev' \in Nat
               /\ testing' = FALSE /\ blocked' = FALSE /\ consent' = FALSE
    BY <2>1 DEF RelayChanged, PageInv, PageTyped
  <2>2. CASE UNCHANGED <<relay, rev, testing, blocked, consent>>
    BY <2>2 DEF PageInv, PageTyped
  <2>3. CASE rev' = rev + 1 /\ testing' = FALSE /\ consent' = FALSE /\ UNCHANGED <<relay, blocked>>
    <3>1. consent' \in BOOLEAN /\ testing' \in BOOLEAN
      BY <2>3
    <3> QED
      BY <2>3, <3>1 DEF PageInv, PageTyped
  <2>4. \/ relays # None /\ \E r \in relays \cup {None} : RelayChanged(r)
        \/ UNCHANGED <<relay, rev, testing, blocked, consent>>
        \/ rev' = rev + 1 /\ testing' = FALSE /\ consent' = FALSE /\ UNCHANGED <<relay, blocked>>
    BY DEF SnapshotLoaded
  <2>5. CASE relays # None /\ \E r \in relays \cup {None} : RelayChanged(r)
    <3>1. /\ relay' \in relays \cup {None} /\ rev' \in Nat
          /\ testing' = FALSE /\ blocked' = FALSE /\ consent' = FALSE
      BY <2>1, <2>5
    <3> QED
      BY <2>5, <3>1
  <2> QED
    BY <2>2, <2>3, <2>4, <2>5
<1>4. result' \in SecretSet /\ result'.profile = profile
  BY <1>1, <1>2 DEF Secret, SecretSet, Tasks
<1>5. relay' \in Relay /\ (relay' # None => relay' \in Reach[profile])
  BY <1>3 DEF PageInv, PageTyped, Sound, OnOffer, PageIsOfItsProfile, Relay
<1>6. PageTyped' /\ Aging
  <2>1. gen' \in Nat /\ tasks' \subseteq Tasks
    BY <1>2 DEF PageInv, PageTyped
  <2> QED
    BY <1>2, <1>3, <1>4, <1>5, <2>1 DEF PageInv, PageTyped, Aging
<1>7. OnOffer' /\ Ticked' /\ PageIsOfItsProfile' /\ RevealsExpire'
  BY <1>2, <1>3, <1>4, <1>5 DEF PageInv, Sound, OnOffer, Ticked, PageIsOfItsProfile, RevealsExpire
<1>8. FlagsAreBacked'
  BY <1>1, <1>2, <1>3 DEF PageInv, Sound, FlagsAreBacked
<1>9. \A u \in tasks' : u \in tasks
  BY <1>2
<1> QED
  BY <1>6, <1>7, <1>8, <1>9, Together

LEMMA DeletedOK == ASSUME PageInv, NEW t \in tasks, Deleted(t) PROVE PageInv'
<1>1. /\ t.kind = "delete" /\ Cleared /\ pending' = None
      /\ UNCHANGED <<profile, choice, rev, entries, rows, session>>
      /\ tasks' = (tasks \ {t}) \cup Reading(profile) /\ AskedFor(Reading(profile))
  BY ListingsPlain DEF Deleted, PageInv, PageTyped
<1>2. gen' = gen + 1 /\ result' = None /\ revealed' = {} /\ denied' = None /\ looking' = FALSE
  BY <1>1 DEF Cleared
<1>3. PageTyped'
  <2>1. tasks' \subseteq Tasks /\ pending' \in Id
    BY <1>1 DEF PageInv, PageTyped, AskedFor, Id
  <2> QED
    BY <1>1, <2>1, ClearedTyped DEF PageInv, PageTyped, choice, session
<1>4. OnOffer' /\ Ticked' /\ PageIsOfItsProfile' /\ RevealsExpire'
  BY <1>1, <1>2 DEF PageInv, Sound, OnOffer, Ticked, PageIsOfItsProfile, RevealsExpire, choice,
                    session
<1>5. FlagsAreBacked'
  BY <1>1, <1>2 DEF PageInv, Sound, FlagsAreBacked, choice
<1>6. ASSUME NEW u \in tasks', u \notin tasks PROVE TaskOK(u)'
  <2>1. Plain(u)
    BY <1>1, <1>6 DEF AskedFor
  <2> QED
    BY <2>1, PlainOK
<1> QED
  BY <1>1, <1>3, <1>4, <1>5, <1>6, ClearedTyped, Together

-----------------------------------------------------------------------------
(* The specification *)

LEMMA SecretsStart == SecretsInit => PageInv
<1> SUFFICES ASSUME SecretsInit PROVE PageInv
  OBVIOUS
<1>1. /\ profile \in PageProfiles /\ relay \in Reach[profile] /\ relays \subseteq Reach[profile]
      /\ Reach[profile] \subseteq Relays
  BY SecretsAssumption DEF SecretsInit
<1>2. /\ rows \subseteq SecretSet /\ entries = rows /\ \A s \in entries : s.profile = profile
      /\ result \in entries \cup {None}
  <2>1. \A id \in Ids : Secret(Home, id) \in SecretSet /\ Secret(Home, id).profile = Home
    BY SecretsAssumption DEF Secret, SecretSet, Profile, Id
  <2> QED
    BY <2>1 DEF SecretsInit
<1>3. PageTyped
  <2>1. consent \in BOOLEAN /\ blocked \in BOOLEAN /\ testing \in BOOLEAN /\ looking \in BOOLEAN
    BY DEF SecretsInit
  <2> QED
    BY <1>1, <1>2, <2>1 DEF SecretsInit, PageTyped, Profile, Relay, Id, Agreements
<1>4. OnOffer /\ Ticked /\ RevealsExpire /\ FlagsAreBacked
  BY <1>1 DEF SecretsInit, OnOffer, Ticked, RevealsExpire, FlagsAreBacked
<1>5. PageIsOfItsProfile
  BY <1>1, <1>2 DEF SecretsInit, PageIsOfItsProfile
<1> QED
  BY <1>3, <1>4, <1>5 DEF SecretsInit, PageInv, Sound

LEMMA UserOK == PageInv /\ User => PageInv'
  BY ReloadOK, ChangeOK, ChooseModeOK, ChooseRelayOK, ConsentOK, TestOK, HideOK, RequestOK,
     SelectOK, RevealOK, SetProfileOK DEF User, Profile

LEMMA TaskStepOK == ASSUME PageInv, NEW t \in tasks, Worker(t) \/ Callback(t) PROVE PageInv'
  BY SendOK, PollOK, RememberOK, ReadSavedOK, WorkChangeOK, IgnoredOK, ChangedOK, LoadedOK,
     LookupFailedOK, CancelledOK, CheckedOK, RelaysLoadedOK, SavedLoadedOK, SnapshotLoadedOK,
     DeletedOK DEF Worker, Callback

LEMMA SecretsStep == PageInv /\ [SecretsNext]_secretsVars => PageInv'
<1> SUFFICES ASSUME PageInv, [SecretsNext]_secretsVars PROVE PageInv'
  OBVIOUS
<1>1. CASE UNCHANGED secretsVars
  <2>1. UNCHANGED <<profile, lookup, rev, shown, entries, agreed, rows, pending, changes, tasks>>
    BY <1>1 DEF secretsVars, saved, session
  <2> QED
    BY <2>1, Unshown DEF PageInv, PageTyped
<1> QED
  BY <1>1, UserOK, TaskStepOK, HideLaterOK DEF SecretsNext

\* Nothing an earlier profile asked for is shown as the current one's: no value,
\* list, relay or offer, for all orders of answers (_loaded, _relays_loaded,
\* _saved_loaded, _saved_snapshot_loaded and _failed of the Secrets page).
THEOREM SecretsPage == SecretsSpec => []PageIsOfItsProfile
<1>1. PageInv => PageIsOfItsProfile
  BY DEF PageInv, Sound
<1> QED
  BY <1>1, SecretsStart, SecretsStep, PTL DEF SecretsSpec

\* A command is sent to the relay, and for the profile, that the last tick was
\* given for, and one tick is good for one command (_request_secret,
\* _relay_changed, _mode_changed, set_profile).
THEOREM SecretsAgreed == SecretsSpec => []SendsWhatWasAgreed
<1>1. PageInv => SendsWhatWasAgreed
  BY DEF PageInv, Sound, TaskOK, Agreed, SendsWhatWasAgreed
<1> QED
  BY <1>1, SecretsStart, SecretsStep, PTL DEF SecretsSpec

\* What is revealed is of a value that is there and has a timer of its
\* generation (reveal_selected, reveal_raw, _hide_revealed, _hide_raw).
THEOREM SecretsHidden == SecretsSpec => []RevealsExpire
<1>1. PageInv => RevealsExpire
  BY DEF PageInv, Sound
<1> QED
  BY <1>1, SecretsStart, SecretsStep, PTL DEF SecretsSpec

\* A busy flag has a call whose callback is not yet outdated (_lookup_busy and
\* _relay_test_busy against _result_generation and _relay_revision).
THEOREM SecretsBusy == SecretsSpec => []FlagsAreBacked
<1>1. PageInv => FlagsAreBacked
  BY DEF PageInv, Sound
<1> QED
  BY <1>1, SecretsStart, SecretsStep, PTL DEF SecretsSpec
==============================================================================
