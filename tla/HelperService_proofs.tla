------------------------- MODULE HelperService_proofs -------------------------
(***************************************************************************)
(* For any number of users, rules, calls and failures: an active plan keeps  *)
(* the cgroups it was loaded for, only processes of the application enter    *)
(* them, an activation replaces the plan its caller saw, the monitor brings  *)
(* an armed runtime to the kernel's topology, and daemons are told.          *)
(*                                                                         *)
(* None of them is inductive.  A recovery that has listed directories must   *)
(* not list those of the active plan (BoundInv), a process about to be moved *)
(* must be the application's (MatchedInv), and a caller's generation must    *)
(* name the plan it saw and no later one (SeenInv).  For the monitor         *)
(* (WatchInv): what it captured, refreshed and is about to publish is still  *)
(* true unless it will be woken again, and a change nobody was told of is    *)
(* about to be announced by a call or by the monitor.                        *)
(***************************************************************************)
EXTENDS HelperService, TLAPS

-----------------------------------------------------------------------------
(* Types *)

Owners == Users \cup {Nobody}
Receipts ==
    [user: Owners, token: Nat, gen: Nat, armed: BOOLEAN, owner: Owners, rules: SUBSET Rules, topo: Nat]
Backends ==
    [gen: Nat, armed: BOOLEAN, degraded: BOOLEAN, retry: BOOLEAN, owner: Owners,
     rules: SUBSET Rules, bound: [Rules -> Nat], topo: Nat, serial: Nat, receipt: Receipts]
CallRecords ==
    [op: AllOps \cup {"none"}, at: Nat, rules: SUBSET Rules, saw: Nat, serial: Nat, topo: Nat,
     token: Nat, list: SUBSET Rules, ident: Nat]
\* A call in progress is at one of its steps.
OnTrack(c) == c.op # "none" => c.at \in 1..Len(StepsOf(c.op))
Calls == {c \in CallRecords : OnTrack(c)}
Directories == [exists: BOOLEAN, id: Nat, members: SUBSET Nat]
Statuses == [gen: Nat, owner: Owners, degraded: BOOLEAN]
Refreshing ==
    [pc: {"idle", "capture", "refresh", "degrade", "publish"}, topo: Nat, status: Statuses,
     ended: {"done", "refused", "unread"}]

Histories ==
    [overlap: BOOLEAN, reused: BOOLEAN, restarted: SUBSET Users, silent: BOOLEAN, anew: BOOLEAN]
USE DEF Histories

ServiceTypes ==
    /\ backend \in Backends
    /\ topo \in Nat
    /\ cg \in [Rules -> Directories]
    /\ proc \in [start: Nat, app: BOOLEAN]
    /\ call \in [Users -> Calls]
    /\ mon \in Refreshing
    /\ wake \in BOOLEAN /\ stale \in BOOLEAN
    /\ last \in Statuses
    /\ hist \in Histories

-----------------------------------------------------------------------------
(* The inductive invariant *)

\* What a recovery is about to remove belongs to no plan, and a plan of
\* generation 0 has no rules.
BoundInv ==
    /\ RulesBound
    /\ backend.gen = 0 => backend.rules = {}
    /\ \A u \in Users : At(u, "remove") => hist.overlap \/ call[u].list \cap backend.rules = {}

\* What is about to be moved is the application.
MatchedInv ==
    /\ MembersMatch
    /\ \A u \in Users : At(u, "move") => proc.app \/ hist.reused

\* The generation an activation expects is the plan its caller saw, or past.
Awaits(u) == call[u].op = "activate" /\ call[u].at \in 1..3
SawIt(u) ==
    /\ call[u].saw <= backend.gen
    /\ call[u].saw = backend.gen => call[u].serial = backend.serial
SeenInv == \A u \in Users : Awaits(u) => u \in hist.restarted \/ SawIt(u)

\* A degraded plan is armed, and an armed one has an owner.
Sound(b) ==
    /\ b.degraded => b.armed
    /\ b.armed => b.owner # Nobody
    /\ b.receipt.armed => b.receipt.owner # Nobody

\* The step a call is at.
StepIs(c, step) == c.op # "none" /\ StepsOf(c.op)[c.at] = step

ServiceInv == ServiceTypes /\ BoundInv /\ MatchedInv /\ SeenInv

-----------------------------------------------------------------------------
(* Steps of a call *)

\* How many steps each operation has, and which.
LEMMA StepTable ==
    /\ Len(StepsOf("activate")) = 4 /\ StepsOf("activate")[1] = "topology"
    /\ StepsOf("activate")[2] = "prepare" /\ StepsOf("activate")[3] = "backend"
    /\ StepsOf("activate")[4] = "announce"
    /\ \A op \in {"restore", "cleanup"} :
         /\ Len(StepsOf(op)) = 2 /\ StepsOf(op)[1] = "backend" /\ StepsOf(op)[2] = "announce"
    /\ Len(StepsOf("apply1")) = 2 /\ StepsOf("apply1")[1] = "prepare" /\ StepsOf("apply1")[2] = "backend"
    /\ Len(StepsOf("cleanup1")) = 1 /\ StepsOf("cleanup1")[1] = "backend"
    /\ Len(StepsOf("recover")) = 3 /\ StepsOf("recover")[1] = "list"
    /\ StepsOf("recover")[2] = "backend" /\ StepsOf("recover")[3] = "remove"
    /\ Len(StepsOf("launch")) = 2 /\ StepsOf("launch")[1] = "prepare" /\ StepsOf("launch")[2] = "spawn"
    /\ Len(StepsOf("adopt")) = 3 /\ StepsOf("adopt")[1] = "match"
    /\ StepsOf("adopt")[2] = "identify" /\ StepsOf("adopt")[3] = "move"
  BY DEF StepsOf, Helper1Steps, Helper2Steps, Helper2Ops

\* The operation and the position a step stands for.
LEMMA StepPlaces ==
    ASSUME NEW c \in Calls
    PROVE  /\ StepIs(c, "remove") <=> c.op = "recover" /\ c.at = 3
           /\ StepIs(c, "list") <=> c.op = "recover" /\ c.at = 1
           /\ StepIs(c, "move") <=> c.op = "adopt" /\ c.at = 3
           /\ StepIs(c, "identify") <=> c.op = "adopt" /\ c.at = 2
           /\ StepIs(c, "match") <=> c.op = "adopt" /\ c.at = 1
           /\ StepIs(c, "spawn") <=> c.op = "launch" /\ c.at = 2
           /\ StepIs(c, "topology") <=> c.op = "activate" /\ c.at = 1
           /\ StepIs(c, "prepare") <=>
                \/ c.op = "activate" /\ c.at = 2
                \/ c.op \in {"apply1", "launch"} /\ c.at = 1
           /\ StepIs(c, "backend") <=>
                \/ c.op = "activate" /\ c.at = 3
                \/ c.op \in {"restore", "cleanup", "cleanup1"} /\ c.at = 1
                \/ c.op \in {"apply1", "recover"} /\ c.at = 2
           /\ StepIs(c, "announce") <=>
                \/ c.op = "activate" /\ c.at = 4
                \/ c.op \in {"restore", "cleanup"} /\ c.at = 2
<1> DEFINE op == c.op  at == c.at
<1>1. op \in AllOps \cup {"none"} /\ (op # "none" => at \in 1..Len(StepsOf(op)))
  BY DEF Calls, CallRecords, OnTrack
<1>2. CASE op = "none"
  BY <1>2 DEF StepIs
<1>3. CASE op = "activate"
  <2>1. at \in 1..4
    BY <1>1, <1>3, StepTable
  <2>2. at \in {1, 2, 3, 4}
    BY <2>1
  <2> QED BY <1>3, <2>2, StepTable DEF StepIs
<1>4. CASE op = "recover"
  <2>1. at \in 1..3
    BY <1>1, <1>4, StepTable
  <2>2. at \in {1, 2, 3}
    BY <2>1
  <2> QED BY <1>4, <2>2, StepTable DEF StepIs
<1>5. CASE op = "adopt"
  <2>1. at \in 1..3
    BY <1>1, <1>5, StepTable
  <2>2. at \in {1, 2, 3}
    BY <2>1
  <2> QED BY <1>5, <2>2, StepTable DEF StepIs
<1>6. CASE op \in {"restore", "cleanup"}
  <2>1. at \in 1..2
    BY <1>1, <1>6, StepTable
  <2>2. at \in {1, 2}
    BY <2>1
  <2> QED BY <1>6, <2>2, StepTable DEF StepIs
<1>7. CASE op \in {"apply1", "launch"}
  <2>1. at \in 1..2
    BY <1>1, <1>7, StepTable
  <2>2. at \in {1, 2}
    BY <2>1
  <2> QED BY <1>7, <2>2, StepTable DEF StepIs
<1>8. CASE op = "cleanup1"
  <2>1. at \in 1..1
    BY <1>1, <1>8, StepTable
  <2>2. at = 1
    BY <2>1
  <2> QED BY <1>8, <2>2, StepTable DEF StepIs
<1> QED
  BY <1>1, <1>2, <1>3, <1>4, <1>5, <1>6, <1>7, <1>8 DEF AllOps, Helper1Ops, Helper2Ops

\* A call that goes on is at its next step, or over; nobody else's call changes.
LEMMA GoesOn ==
    ASSUME call \in [Users -> Calls], NEW u \in Users, NEW c \in Calls, c.op # "none", GoOn(u, c)
    PROVE  /\ call' \in [Users -> Calls]
           /\ \A v \in Users \ {u} : call'[v] = call[v]
           /\ \/ call'[u] = NoCall
              \/ call'[u] = [c EXCEPT !.at = c.at + 1]
           /\ call'[u] = NoCall \/ call'[u].at \in 2..Len(StepsOf(c.op))
<1>1. NoCall \in Calls
  BY DEF NoCall, Calls, CallRecords, OnTrack
<1>2. c \in CallRecords /\ c.at \in 1..Len(StepsOf(c.op)) /\ c.op \in AllOps
  BY DEF Calls, CallRecords, OnTrack
<1>3. Len(StepsOf(c.op)) \in Nat
  BY <1>2, StepTable DEF AllOps, Helper1Ops, Helper2Ops
<1>4. CASE c.at = Len(StepsOf(c.op))
  BY <1>1, <1>4 DEF GoOn, Advanced
<1>5. CASE c.at # Len(StepsOf(c.op))
  <2> DEFINE d == [c EXCEPT !.at = c.at + 1]
  <2>1. d \in CallRecords /\ d.op = c.op /\ d.at = c.at + 1
    BY <1>2 DEF CallRecords
  <2>2. d.at \in 2..Len(StepsOf(c.op))
    BY <1>2, <1>3, <1>5, <2>1
  <2>3. d \in Calls
    <3>1. d.at \in 1..Len(StepsOf(d.op))
      BY <1>3, <2>1, <2>2
    <3> HIDE DEF d
    <3> QED BY <2>1, <3>1 DEF Calls, OnTrack
  <2>4. call' = [call EXCEPT ![u] = d]
    BY <1>5 DEF GoOn, Advanced
  <2> QED BY <2>1, <2>2, <2>3, <2>4
<1> QED BY <1>4, <1>5

\* The same of a call that returns.
LEMMA Returns ==
    ASSUME call \in [Users -> Calls], NEW u \in Users, Return(u)
    PROVE  /\ call' \in [Users -> Calls]
           /\ \A v \in Users \ {u} : call'[v] = call[v]
           /\ call'[u] = NoCall
  BY DEF Return, NoCall, Calls, CallRecords, OnTrack

-----------------------------------------------------------------------------
(* What changes of the calls, and what of the rest *)

\* Only u's call changes.
Alone(u) == call' \in [Users -> Calls] /\ \A v \in Users \ {u} : call'[v] = call[v]
\* No call comes to the points the invariant speaks of.
Nearer(v) ==
    /\ At(v, "remove")' => At(v, "remove") /\ call'[v].list = call[v].list
    /\ At(v, "move")' => At(v, "move")
    /\ Awaits(v)' => Awaits(v) /\ call'[v].saw = call[v].saw /\ call'[v].serial = call[v].serial

\* The calls of the others stay where they are.
LEMMA OthersNearer ==
    ASSUME NEW u \in Users, Alone(u)
    PROVE  \A v \in Users \ {u} : Nearer(v)
  BY DEF Alone, Nearer, At, Busy, Awaits

\* A directory stays what it is.
Stays(r) == cg[r].exists => cg'[r].exists /\ cg'[r].id = cg[r].id

\* Without a commit, plans keep their directories if those stay.
LEMMA BoundKept ==
    ASSUME ServiceInv, NEW u \in Users, Alone(u), backend' = backend,
           hist'.overlap = hist.overlap,
           hist.overlap \/ \A r \in backend.rules : Stays(r),
           At(u, "remove")' => hist.overlap \/ call'[u].list \cap backend.rules = {}
    PROVE  BoundInv'
<1>1. RulesBound'
  BY DEF ServiceInv, BoundInv, RulesBound, Stays
<1>2. (backend.gen = 0 => backend.rules = {})'
  BY DEF ServiceInv, BoundInv
<1>3. ASSUME NEW v \in Users, At(v, "remove")'
      PROVE  hist'.overlap \/ call'[v].list \cap backend'.rules = {}
  <2>1. CASE v = u
    BY <1>3, <2>1
  <2>2. CASE v # u
    BY <1>3, <2>2, OthersNearer DEF Nearer, Alone, ServiceInv, BoundInv
  <2> QED BY <2>1, <2>2
<1> QED BY <1>1, <1>2, <1>3 DEF BoundInv

\* With the same process, members stay the application if none joins.
LEMMA MatchedKept ==
    ASSUME ServiceInv, NEW u \in Users, Alone(u), proc' = proc, hist'.reused = hist.reused,
           \A r \in Rules : proc.start \in cg'[r].members => proc.start \in cg[r].members,
           At(u, "move")' => proc.app \/ hist.reused
    PROVE  MatchedInv'
<1>1. MembersMatch'
  BY DEF ServiceInv, MatchedInv, MembersMatch
<1>2. ASSUME NEW v \in Users, At(v, "move")'
      PROVE  proc'.app \/ hist'.reused
  <2>1. CASE v = u
    BY <1>2, <2>1
  <2>2. CASE v # u
    BY <1>2, <2>2, OthersNearer DEF Nearer, ServiceInv, MatchedInv
  <2> QED BY <2>1, <2>2
<1> QED BY <1>1, <1>2 DEF MatchedInv

\* Without a commit, what callers saw stays what it was.
LEMMA SeenKept ==
    ASSUME ServiceInv, NEW u \in Users, Alone(u), backend' = backend,
           hist.restarted \ {u} \subseteq hist'.restarted,
           Awaits(u)' => u \in hist'.restarted \/ SawIt(u)'
    PROVE  SeenInv'
<1>1. ASSUME NEW v \in Users, Awaits(v)'
      PROVE  v \in hist'.restarted \/ SawIt(v)'
  <2>1. CASE v = u
    BY <1>1, <2>1
  <2>2. CASE v # u
    <3>1. call'[v] = call[v] /\ Awaits(v)
      BY <1>1, <2>2 DEF Alone, Awaits
    <3>2. v \in hist.restarted \/ SawIt(v)
      BY <3>1 DEF ServiceInv, SeenInv
    <3> QED BY <2>2, <3>1, <3>2 DEF SawIt
  <2> QED BY <2>1, <2>2
<1> QED BY <1>1 DEF SeenInv

\* A commit of a plan that is loaded as the next generation, or of none.
LEMMA CommitKeeps ==
    ASSUME ServiceInv, NEW b \in Backends, NEW silently \in BOOLEAN, Commits(b, silently),
           cg' = cg, proc' = proc, \A v \in Users : Nearer(v),
           \A r \in b.rules : cg[r].exists /\ cg[r].id = b.bound[r],
           b.gen = 0 => b.rules = {},
           b.gen = 0 \/ b.gen = backend.gen + 1
    PROVE  BoundInv' /\ MatchedInv' /\ SeenInv'
<1> DEFINE meets == \E u \in Users : At(u, "remove") /\ call[u].list \cap b.rules # {}
<1>1. /\ backend' = b
      /\ hist'.overlap = (hist.overlap \/ meets)
      /\ hist'.reused = hist.reused
      /\ hist'.restarted = IF b.gen = 0 THEN {u \in Users : Busy(u) /\ call[u].op = "activate"}
                           ELSE hist.restarted
  BY DEF Commits, ServiceInv, ServiceTypes
<1>2. BoundInv'
  <2>1. RulesBound'
    BY <1>1 DEF RulesBound
  <2>2. (backend.gen = 0 => backend.rules = {})'
    BY <1>1
  <2>3. ASSUME NEW v \in Users, At(v, "remove")'
        PROVE  hist'.overlap \/ call'[v].list \cap backend'.rules = {}
    <3>1. At(v, "remove") /\ call'[v].list = call[v].list
      BY <2>3 DEF Nearer
    <3>2. call[v].list \cap b.rules = {} \/ meets
      BY <3>1
    <3> QED BY <1>1, <3>1, <3>2
  <2> QED BY <2>1, <2>2, <2>3 DEF BoundInv
<1>3. MatchedInv'
  BY <1>1 DEF Nearer, ServiceInv, MatchedInv, MembersMatch
<1>4. ASSUME NEW v \in Users, Awaits(v)'
      PROVE  v \in hist'.restarted \/ SawIt(v)'
  <2>1. Awaits(v) /\ call'[v].saw = call[v].saw /\ call'[v].serial = call[v].serial
    BY <1>4 DEF Nearer
  <2>2. CASE b.gen = 0
    BY <1>1, <2>1, <2>2 DEF Awaits, Busy
  <2>3. CASE b.gen = backend.gen + 1 /\ b.gen # 0
    <3>1. v \in hist.restarted \/ SawIt(v)
      BY <2>1 DEF ServiceInv, SeenInv
    <3>2. call[v].saw \in Nat /\ backend.gen \in Nat
      BY DEF ServiceInv, ServiceTypes, Calls, CallRecords, Backends
    <3> QED BY <1>1, <2>1, <2>3, <3>1, <3>2 DEF SawIt
  <2> QED BY <2>2, <2>3
<1>5. SeenInv'
  BY <1>4 DEF SeenInv
<1> QED BY <1>2, <1>3, <1>5

-----------------------------------------------------------------------------
(* How far a call gets *)

\* A call that goes on comes to removing, moving or waiting only from the step before.
LEMMA GoneOn ==
    ASSUME ServiceTypes, NEW u \in Users, NEW c \in Calls, Busy(u),
           c.op = call[u].op, c.at = call[u].at, GoOn(u, c)
    PROVE  /\ Alone(u)
           /\ At(u, "remove")' => c.op = "recover" /\ c.at = 2 /\ call'[u].list = c.list
           /\ At(u, "move")' => c.op = "adopt" /\ c.at = 2
           /\ Awaits(u)' => /\ c.op = "activate" /\ c.at \in 1..2
                            /\ call'[u].saw = c.saw /\ call'[u].serial = c.serial
<1>1. /\ call' \in [Users -> Calls] /\ \A v \in Users \ {u} : call'[v] = call[v]
      /\ call'[u] = NoCall \/ call'[u] = [c EXCEPT !.at = c.at + 1]
  BY GoesOn DEF ServiceTypes, Busy
<1>2. CASE call'[u] = NoCall
  BY <1>1, <1>2 DEF Alone, At, Busy, Awaits, NoCall
<1>3. CASE call'[u] = [c EXCEPT !.at = c.at + 1]
  <2>1. c \in CallRecords /\ c.at \in Nat
    BY DEF Calls, CallRecords
  <2>2. /\ call'[u].op = c.op /\ call'[u].at = c.at + 1 /\ call'[u].list = c.list
        /\ call'[u].saw = c.saw /\ call'[u].serial = c.serial
    BY <1>3, <2>1 DEF CallRecords
  <2>3. call'[u] \in Calls
    BY <1>1
  <2>4. /\ At(u, "remove")' => call'[u].op = "recover" /\ call'[u].at = 3
        /\ At(u, "move")' => call'[u].op = "adopt" /\ call'[u].at = 3
    BY <2>3, StepPlaces DEF At, Busy, StepIs
  <2>5. Awaits(u)' => call'[u].op = "activate" /\ call'[u].at \in 1..3
    BY DEF Awaits
  <2>6. c.at >= 1
    <3>1. c.at \in 1..Len(StepsOf(c.op)) /\ c.op \in AllOps
      BY DEF Calls, CallRecords, OnTrack, Busy
    <3>2. Len(StepsOf(c.op)) \in Nat
      BY <3>1, StepTable DEF AllOps, Helper1Ops, Helper2Ops
    <3> QED BY <3>1, <3>2
  <2> QED BY <1>1, <2>1, <2>2, <2>4, <2>5, <2>6 DEF Alone
<1> QED BY <1>1, <1>2, <1>3

\* A call that returned is at none of those points.
LEMMA Returned ==
    ASSUME ServiceTypes, NEW u \in Users, Return(u)
    PROVE  Alone(u) /\ ~At(u, "remove")' /\ ~At(u, "move")' /\ ~Awaits(u)'
<1>1. /\ call' \in [Users -> Calls] /\ call'[u] = NoCall
      /\ \A v \in Users \ {u} : call'[v] = call[v]
  BY Returns DEF ServiceTypes
<1> QED BY <1>1 DEF Alone, At, Busy, Awaits, NoCall

\* A step of a call that commits nothing and takes no directory away.
LEMMA CallKeeps ==
    ASSUME ServiceInv, NEW u \in Users, Busy(u), NEW c \in Calls,
           c.op = call[u].op, c.at = call[u].at, c.saw = call[u].saw, c.serial = call[u].serial,
           \/ Return(u)
           \/ /\ GoOn(u, c)
              /\ c.op = "recover" /\ c.at = 2 => hist.overlap \/ c.list \cap backend.rules = {}
              /\ c.op = "adopt" /\ c.at = 2 => proc.app \/ hist.reused,
           backend' = backend, proc' = proc, hist'.overlap = hist.overlap,
           hist'.reused = hist.reused, hist'.restarted = hist.restarted,
           hist.overlap \/ \A r \in backend.rules : Stays(r),
           \A r \in Rules : proc.start \in cg'[r].members => proc.start \in cg[r].members
    PROVE  BoundInv' /\ MatchedInv' /\ SeenInv'
<1>1. CASE Return(u)
  <2>1. Alone(u) /\ ~At(u, "remove")' /\ ~At(u, "move")' /\ ~Awaits(u)'
    BY <1>1, Returned DEF ServiceInv
  <2> QED BY <2>1, BoundKept, MatchedKept, SeenKept
<1>2. CASE /\ GoOn(u, c)
           /\ c.op = "recover" /\ c.at = 2 => hist.overlap \/ c.list \cap backend.rules = {}
           /\ c.op = "adopt" /\ c.at = 2 => proc.app \/ hist.reused
  <2>1. /\ Alone(u)
        /\ At(u, "remove")' => c.op = "recover" /\ c.at = 2 /\ call'[u].list = c.list
        /\ At(u, "move")' => c.op = "adopt" /\ c.at = 2
        /\ Awaits(u)' => /\ c.op = "activate" /\ c.at \in 1..2
                         /\ call'[u].saw = c.saw /\ call'[u].serial = c.serial
    BY <1>2, GoneOn DEF ServiceInv
  <2>2. BoundInv'
    BY <1>2, <2>1, BoundKept
  <2>3. MatchedInv'
    BY <1>2, <2>1, MatchedKept
  <2>4. ASSUME Awaits(u)' PROVE u \in hist'.restarted \/ SawIt(u)'
    <3>1. Awaits(u) /\ call'[u].saw = call[u].saw /\ call'[u].serial = call[u].serial
      BY <2>1, <2>4 DEF Awaits
    <3> QED BY <3>1 DEF ServiceInv, SeenInv, SawIt
  <2>5. SeenInv'
    BY <2>1, <2>4, SeenKept
  <2> QED BY <2>2, <2>3, <2>5
<1> QED BY <1>1, <1>2

-----------------------------------------------------------------------------
(* The actions keep the invariant: calls *)

\* A call begins with the generation and the plan that are in force.
LEMMA BeginKeeps ==
    ASSUME ServiceInv, NEW u \in Users, NEW op \in Ops, NEW rules \in SUBSET Rules,
           Begin(u, op, rules)
    PROVE  ServiceInv'
<1> DEFINE c == [NoCall EXCEPT !.op = op, !.rules = rules,
                               !.saw = IF op \in {"activate", "apply1"} THEN backend.gen ELSE 0,
                               !.serial = IF op = "activate" THEN backend.serial ELSE 0,
                               !.token = IF op = "restore" THEN backend.receipt.token ELSE 0]
<1>1. ServiceTypes
  BY DEF ServiceInv
<1>2. op \in AllOps
  BY ServiceAssumption
<1>3. backend.gen \in Nat /\ backend.serial \in Nat /\ backend.receipt.token \in Nat
  BY <1>1 DEF ServiceTypes, Backends, Receipts
<1>4. /\ c.op = op /\ c.at = 1
      /\ op = "activate" => c.saw = backend.gen /\ c.serial = backend.serial
      /\ c \in CallRecords
  BY <1>2, <1>3 DEF NoCall, CallRecords
<1>5. call' = [call EXCEPT ![u] = c]
  BY DEF Begin
<1> HIDE DEF c
<1>6. c \in Calls
  <2>1. Len(StepsOf(op)) \in Nat /\ Len(StepsOf(op)) >= 1
    BY <1>2, StepTable DEF AllOps, Helper1Ops, Helper2Ops
  <2>2. 1 \in 1..Len(StepsOf(op))
    BY <2>1
  <2> QED BY <1>4, <2>2 DEF Calls, OnTrack
<1>7. Alone(u) /\ call'[u] = c
  BY <1>1, <1>5, <1>6 DEF ServiceTypes, Alone
<1>8. ~At(u, "remove")' /\ ~At(u, "move")'
  BY <1>4, <1>6, <1>7, StepPlaces DEF At, Busy, StepIs
<1>9. /\ backend' = backend /\ cg' = cg /\ proc' = proc
      /\ UNCHANGED <<topo, mon, wake, stale, last>>
      /\ hist' = [hist EXCEPT !.restarted = @ \ {u}]
  BY DEF Begin
<1>10. /\ hist'.overlap = hist.overlap /\ hist'.reused = hist.reused
       /\ hist'.restarted = hist.restarted \ {u}
  BY <1>1, <1>9 DEF ServiceTypes
<1>11. ServiceTypes'
  <2>1. hist' \in Histories
    BY <1>1, <1>9 DEF ServiceTypes
  <2> QED BY <1>1, <1>7, <1>9, <2>1 DEF ServiceTypes, Alone
<1>12. Awaits(u)' => SawIt(u)'
  BY <1>3, <1>4, <1>7, <1>9 DEF Awaits, SawIt
<1>13. BoundInv'
  BY <1>7, <1>8, <1>9, <1>10, BoundKept DEF Stays
<1>14. MatchedInv'
  BY <1>7, <1>8, <1>9, <1>10, MatchedKept
<1>15. SeenInv'
  BY <1>7, <1>9, <1>10, <1>12, SeenKept
<1> QED BY <1>11, <1>13, <1>14, <1>15 DEF ServiceInv

\* Steps that touch the call alone.
LEMMA LocalKeeps ==
    ASSUME ServiceInv, NEW u \in Users,
           Captures(u) \/ Lists(u) \/ Matches(u) \/ Identifies(u) \/ Fails(u) \/ Announces(u)
    PROVE  ServiceInv'
<1>1. ServiceTypes /\ call[u] \in Calls /\ call[u] \in CallRecords
  BY DEF ServiceInv, ServiceTypes, Calls
<1>2. /\ Busy(u)
      /\ UNCHANGED <<backend, cg, proc, topo, mon, wake, last>>
      /\ stale' \in BOOLEAN
      /\ hist' = [hist EXCEPT !.silent = hist'.silent] /\ hist'.silent \in BOOLEAN
  BY <1>1 DEF Captures, Lists, Matches, Identifies, Fails, Announces, At, Unchanged, ServiceTypes
<1>3. PICK c \in Calls :
        /\ c.op = call[u].op /\ c.at = call[u].at /\ c.saw = call[u].saw
        /\ c.serial = call[u].serial
        /\ \/ Return(u)
           \/ /\ GoOn(u, c) /\ ~(c.op = "recover" /\ c.at = 2)
              /\ c.op = "adopt" /\ c.at = 2 => proc.app
  <2>1. CASE Captures(u)
    <3> DEFINE c == [call[u] EXCEPT !.topo = topo]
    <3>1. c \in Calls /\ c.op = call[u].op /\ c.at = call[u].at /\ c.saw = call[u].saw
          /\ c.serial = call[u].serial
      BY <1>1 DEF Calls, CallRecords, OnTrack, ServiceTypes
    <3>2. c.op = "activate" /\ GoOn(u, c)
      BY <1>1, <2>1, StepPlaces DEF Captures, At, Busy, StepIs
    <3> HIDE DEF c
    <3> QED BY <3>1, <3>2
  <2>2. CASE Lists(u)
    <3> DEFINE c == [call[u] EXCEPT !.list = Listed]
    <3>1. c \in Calls /\ c.op = call[u].op /\ c.at = call[u].at /\ c.saw = call[u].saw
          /\ c.serial = call[u].serial
      BY <1>1 DEF Calls, CallRecords, OnTrack, Listed
    <3>2. c.at # 2 /\ (GoOn(u, c) \/ Return(u))
      BY <1>1, <2>2, StepPlaces DEF Lists, At, Busy, StepIs
    <3> HIDE DEF c
    <3> QED BY <3>1, <3>2
  <2>3. CASE Matches(u)
    <3> DEFINE c == [call[u] EXCEPT !.ident = proc.start]
    <3>1. c \in Calls /\ c.op = call[u].op /\ c.at = call[u].at /\ c.saw = call[u].saw
          /\ c.serial = call[u].serial
      BY <1>1 DEF Calls, CallRecords, OnTrack, ServiceTypes
    <3>2. c.at # 2 /\ (GoOn(u, c) \/ Return(u))
      BY <1>1, <2>3, StepPlaces DEF Matches, At, Busy, StepIs
    <3> HIDE DEF c
    <3> QED BY <3>1, <3>2
  <2>4. CASE Identifies(u) /\ SameProcess(call[u].ident)
    <3>1. call[u].op = "adopt" /\ GoOn(u, call[u]) /\ proc.app
      BY <1>1, <2>4, StepPlaces DEF Identifies, At, Busy, StepIs, SameProcess
    <3> QED BY <1>1, <3>1
  <2>5. CASE Announces(u)
    <3>1. call[u].op # "recover" /\ call[u].op # "adopt" /\ GoOn(u, call[u])
      BY <1>1, <2>5, StepPlaces DEF Announces, At, Busy, StepIs
    <3> QED BY <1>1, <3>1
  <2>6. CASE Return(u)
    BY <1>1, <2>6
  <2> QED BY <2>1, <2>2, <2>3, <2>4, <2>5, <2>6 DEF Identifies, Fails
<1>4. ServiceTypes'
  <2>1. call' \in [Users -> Calls]
    BY <1>1, <1>2, <1>3, GoesOn, Returns DEF ServiceTypes, Busy
  <2>2. hist' \in Histories
    BY <1>1, <1>2 DEF ServiceTypes
  <2> QED BY <1>1, <1>2, <2>1, <2>2 DEF ServiceTypes
<1>5. /\ hist'.overlap = hist.overlap /\ hist'.reused = hist.reused
      /\ hist'.restarted = hist.restarted
  BY <1>1, <1>2 DEF ServiceTypes
<1>6. BoundInv' /\ MatchedInv' /\ SeenInv'
  BY <1>2, <1>3, <1>5, CallKeeps DEF Stays
<1> QED BY <1>4, <1>6 DEF ServiceInv

\* What preparing a directory makes of it.
LEMMA Directory ==
    ASSUME NEW dir \in Directories
    PROVE  /\ Made(dir) \in Directories
           /\ Made(dir).members = dir.members
           /\ dir.exists => Made(dir) = dir
<1>1. dir.exists \in BOOLEAN /\ dir.id \in Nat /\ dir.id + 1 \in Nat
  BY DEF Directories
<1>2. CASE dir.exists
  BY <1>2 DEF Made, Directories
<1>3. CASE ~dir.exists
  <2>1. Made(dir) = [dir EXCEPT !.exists = TRUE, !.id = @ + 1]
    BY <1>3 DEF Made
  <2> QED BY <1>1, <1>3, <2>1 DEF Directories
<1> QED BY <1>1, <1>2, <1>3

\* Members change, and nothing else.
LEMMA MembersChange ==
    ASSUME ServiceTypes, NEW members \in [Rules -> SUBSET Nat],
           cg' = [r \in Rules |-> [cg[r] EXCEPT !.members = members[r]]]
    PROVE  /\ cg' \in [Rules -> Directories]
           /\ \A r \in Rules : Stays(r) /\ cg'[r].members = members[r]
<1>1. ASSUME NEW r \in Rules
      PROVE  cg'[r] \in Directories /\ Stays(r) /\ cg'[r].members = members[r]
  <2>1. cg[r] \in Directories /\ members[r] \in SUBSET Nat
    BY DEF ServiceTypes
  <2>2. cg'[r] = [cg[r] EXCEPT !.members = members[r]]
    OBVIOUS
  <2> DEFINE d == [cg[r] EXCEPT !.members = members[r]]
  <2>3. d \in Directories /\ d.exists = cg[r].exists /\ d.id = cg[r].id /\ d.members = members[r]
    BY <2>1 DEF Directories
  <2> HIDE DEF d
  <2>4. cg'[r] = d
    BY <2>2 DEF d
  <2> QED BY <2>3, <2>4 DEF Stays
<1> QED BY <1>1

\* Directories that exist keep their incarnation.
LEMMA PreparesKeeps ==
    ASSUME ServiceInv, NEW u \in Users, Prepares(u)
    PROVE  ServiceInv'
<1>1. ServiceTypes /\ call[u] \in Calls /\ call[u] \in CallRecords
  BY DEF ServiceInv, ServiceTypes, Calls
<1>2. \A r \in Rules : Made(cg[r]) \in Directories /\ Made(cg[r]).members = cg[r].members
  BY <1>1, Directory DEF ServiceTypes
<1>3. /\ cg' \in [Rules -> Directories]
      /\ \A r \in Rules : Stays(r) /\ cg'[r].members = cg[r].members
  <2>1. cg' = [r \in Rules |-> IF r \in call[u].rules THEN Made(cg[r]) ELSE cg[r]]
    BY DEF Prepares
  <2>2. \A r \in Rules : cg[r].exists => Made(cg[r]) = cg[r]
    BY <1>1, Directory DEF ServiceTypes
  <2> QED BY <1>1, <1>2, <2>1, <2>2 DEF Stays, ServiceTypes
<1>4. /\ Busy(u) /\ GoOn(u, call[u])
      /\ UNCHANGED <<backend, wake, stale, hist, topo, proc, mon, last>>
  BY DEF Prepares, At, Unchanged
<1>5. call[u].op # "recover" /\ call[u].op # "adopt"
  BY <1>1, StepPlaces DEF Prepares, At, Busy, StepIs
<1>6. ServiceTypes'
  BY <1>1, <1>3, <1>4, GoesOn DEF ServiceTypes, Busy
<1>7. \A r \in backend.rules : Stays(r)
  BY <1>1, <1>3 DEF ServiceTypes, Backends
<1>8. BoundInv' /\ MatchedInv' /\ SeenInv'
  BY <1>1, <1>3, <1>4, <1>5, <1>7, CallKeeps
<1> QED BY <1>6, <1>8 DEF ServiceInv

\* No directory of the active plan is on the list, unless that plan came since.
LEMMA RemovesKeeps ==
    ASSUME ServiceInv, NEW u \in Users, Removes(u)
    PROVE  ServiceInv'
<1>1. ServiceTypes /\ call[u] \in Calls /\ call[u] \in CallRecords
  BY DEF ServiceInv, ServiceTypes, Calls
<1>2. /\ Busy(u) /\ At(u, "remove") /\ Return(u)
      /\ UNCHANGED <<backend, wake, stale, hist, topo, proc, mon, last>>
  BY DEF Removes, At, Unchanged
<1>3. /\ cg' \in [Rules -> Directories]
      /\ \A r \in Rules : cg'[r].members \subseteq cg[r].members
      /\ \A r \in Rules \ call[u].list : Stays(r)
  <2>1. CASE UNCHANGED cg
    BY <1>1, <2>1 DEF Stays, ServiceTypes
  <2>2. CASE cg' = [r \in Rules |-> IF r \in call[u].list
                                   THEN [cg[r] EXCEPT !.exists = FALSE, !.members = {}] ELSE cg[r]]
    <3>1. \A r \in Rules : cg[r] \in Directories
      BY <1>1 DEF ServiceTypes
    <3>2. \A dir \in Directories :
            LET d == [dir EXCEPT !.exists = FALSE, !.members = {}]
            IN  d \in Directories /\ d.members = {}
      BY DEF Directories
    <3> QED BY <2>2, <3>1, <3>2 DEF Stays
  <2> QED BY <2>1, <2>2 DEF Removes
<1>4. hist.overlap \/ \A r \in backend.rules : Stays(r)
  <2>1. hist.overlap \/ call[u].list \cap backend.rules = {}
    BY <1>2 DEF ServiceInv, BoundInv
  <2>2. backend.rules \subseteq Rules
    BY <1>1 DEF ServiceTypes, Backends
  <2> QED BY <1>3, <2>1, <2>2
<1>5. ServiceTypes'
  BY <1>1, <1>2, <1>3, Returns DEF ServiceTypes
<1>6. BoundInv' /\ MatchedInv' /\ SeenInv'
  BY <1>1, <1>2, <1>3, <1>4, CallKeeps
<1> QED BY <1>5, <1>6 DEF ServiceInv

\* Whatever is moved now was found to be the application a step before.
LEMMA MovesKeeps ==
    ASSUME ServiceInv, NEW u \in Users, Moves(u)
    PROVE  ServiceInv'
<1>1. ServiceTypes /\ call[u] \in Calls /\ call[u] \in CallRecords
  BY DEF ServiceInv, ServiceTypes, Calls
<1>2. /\ Busy(u) /\ At(u, "move") /\ GoOn(u, call[u]) /\ call[u].op = "adopt" /\ call[u].at = 3
      /\ UNCHANGED <<backend, wake, stale, hist, topo, proc, mon, last>>
  BY <1>1, StepPlaces DEF Moves, At, Busy, StepIs, Unchanged
<1>3. /\ cg' \in [Rules -> Directories]
      /\ \A r \in Rules : Stays(r)
  <2>1. CASE UNCHANGED cg
    BY <1>1, <2>1 DEF Stays, ServiceTypes
  <2>2. CASE cg' = [r \in Rules |->
                      [cg[r] EXCEPT !.members = IF r \in call[u].rules THEN {proc.start} ELSE {}]]
    <3> DEFINE members == [r \in Rules |-> IF r \in call[u].rules THEN {proc.start} ELSE {}]
    <3>1. members \in [Rules -> SUBSET Nat]
      BY <1>1 DEF ServiceTypes
    <3>2. cg' = [r \in Rules |-> [cg[r] EXCEPT !.members = members[r]]]
      BY <2>2
    <3> HIDE DEF members
    <3> QED BY <1>1, <3>1, <3>2, MembersChange
  <2> QED BY <2>1, <2>2 DEF Moves
<1>4. proc.app \/ hist.reused
  BY <1>2 DEF ServiceInv, MatchedInv
<1>5. ServiceTypes'
  BY <1>1, <1>2, <1>3, GoesOn DEF ServiceTypes, Busy
<1>6. /\ Alone(u) /\ ~At(u, "remove")' /\ ~At(u, "move")' /\ ~Awaits(u)'
  BY <1>1, <1>2, GoneOn
<1>7. \A r \in backend.rules : Stays(r)
  BY <1>1, <1>3 DEF ServiceTypes, Backends
<1>8. BoundInv'
  BY <1>2, <1>6, <1>7, BoundKept
<1>9. MatchedInv'
  BY <1>2, <1>4 DEF MatchedInv, MembersMatch
<1>10. SeenInv'
  BY <1>2, <1>6, SeenKept
<1> QED BY <1>5, <1>8, <1>9, <1>10 DEF ServiceInv

\* A process that takes over the id is in no cgroup, or is the application.
LEMMA NewProcessKeeps ==
    ASSUME ServiceTypes, NEW app \in BOOLEAN, NEW rules \in SUBSET Rules,
           app \/ rules = {}, NewProcess(app, rules)
    PROVE  /\ cg' \in [Rules -> Directories]
           /\ \A r \in Rules : Stays(r)
           /\ proc' \in [start: Nat, app: BOOLEAN] /\ proc'.app = app
           /\ app \/ \A r \in Rules : cg'[r].members = {}
<1>1. /\ proc' = [start |-> proc.start + 1, app |-> app] /\ proc.start \in Nat
      /\ cg' = [r \in Rules |-> [cg[r] EXCEPT !.members = IF r \in rules THEN {proc'.start} ELSE {}]]
  BY DEF NewProcess, ServiceTypes
<1> DEFINE members == [r \in Rules |-> IF r \in rules THEN {proc'.start} ELSE {}]
<1>2. /\ members \in [Rules -> SUBSET Nat]
      /\ rules = {} => \A r \in Rules : members[r] = {}
  BY <1>1
<1>3. cg' = [r \in Rules |-> [cg[r] EXCEPT !.members = members[r]]]
  BY <1>1
<1> HIDE DEF members
<1>4. cg' \in [Rules -> Directories] /\ \A r \in Rules : Stays(r) /\ cg'[r].members = members[r]
  BY <1>2, <1>3, MembersChange
<1>5. proc' \in [start: Nat, app: BOOLEAN] /\ proc'.app = app
  BY <1>1
<1> QED BY <1>2, <1>4, <1>5

\* What is launched is the application.
LEMMA SpawnsKeeps ==
    ASSUME ServiceInv, NEW u \in Users, Spawns(u)
    PROVE  ServiceInv'
<1>1. ServiceTypes /\ call[u] \in Calls /\ call[u] \in CallRecords
  BY DEF ServiceInv, ServiceTypes, Calls
<1>2. /\ Busy(u) /\ GoOn(u, call[u]) /\ call[u].op = "launch"
      /\ UNCHANGED <<backend, wake, stale, topo, mon, last>>
  BY <1>1, StepPlaces DEF Spawns, At, Busy, StepIs
<1>3. /\ Alone(u) /\ ~At(u, "remove")' /\ ~At(u, "move")' /\ ~Awaits(u)'
  BY <1>1, <1>2, GoneOn
<1>4. /\ cg' \in [Rules -> Directories] /\ \A r \in Rules : Stays(r)
      /\ proc' \in [start: Nat, app: BOOLEAN]
      /\ hist' = [hist EXCEPT !.reused = hist'.reused] /\ hist'.reused \in BOOLEAN
      /\ UNCHANGED <<cg, proc, hist>> \/ proc'.app
  <2>1. CASE UNCHANGED <<cg, proc, hist>>
    BY <1>1, <2>1 DEF Stays, ServiceTypes
  <2>2. CASE NewProcess(TRUE, call[u].rules)
    <3>1. call[u].rules \in SUBSET Rules
      BY <1>1 DEF CallRecords
    <3>2. /\ cg' \in [Rules -> Directories] /\ \A r \in Rules : Stays(r)
          /\ proc' \in [start: Nat, app: BOOLEAN] /\ proc'.app
      BY <1>1, <2>2, <3>1, NewProcessKeeps
    <3>3. hist' = [hist EXCEPT !.reused = hist'.reused] /\ hist'.reused \in BOOLEAN
      BY <1>1, <2>2 DEF NewProcess, ServiceTypes
    <3> QED BY <3>2, <3>3
  <2> QED BY <2>1, <2>2 DEF Spawns
<1>5. /\ hist' \in Histories
      /\ hist'.overlap = hist.overlap /\ hist'.restarted = hist.restarted
  BY <1>1, <1>4 DEF ServiceTypes
<1>6. ServiceTypes'
  BY <1>1, <1>2, <1>3, <1>4, <1>5 DEF ServiceTypes, Alone
<1>7. \A r \in backend.rules : Stays(r)
  BY <1>1, <1>4 DEF ServiceTypes, Backends
<1>8. BoundInv'
  BY <1>2, <1>3, <1>5, <1>7, BoundKept
<1>9. MatchedInv'
  <2>1. CASE proc'.app
    BY <2>1 DEF MatchedInv, MembersMatch
  <2>2. CASE UNCHANGED <<cg, proc, hist>>
    BY <1>3, <2>2, MatchedKept
  <2> QED BY <1>4, <2>1, <2>2
<1>10. SeenInv'
  BY <1>2, <1>3, <1>5, SeenKept
<1> QED BY <1>6, <1>8, <1>9, <1>10 DEF ServiceInv

\* What the invariant says of calls holds of calls that do not change.
LEMMA CallsStay ==
    ASSUME call' = call
    PROVE  \A v \in Users : Nearer(v)
  BY DEF Nearer, At, Busy, Awaits

\* A process id given away under a process about to be moved is on record.
LEMMA ProcessReplacedKeeps ==
    ASSUME ServiceInv, ProcessReplaced
    PROVE  ServiceInv'
<1>1. ServiceTypes
  BY DEF ServiceInv
<1>2. UNCHANGED <<backend, topo, call, mon, wake, last, stale, used>>
  BY DEF ProcessReplaced
<1>3. PICK app \in BOOLEAN : NewProcess(app, {})
  BY DEF ProcessReplaced
<1>4. /\ cg' \in [Rules -> Directories] /\ \A r \in Rules : Stays(r)
      /\ proc' \in [start: Nat, app: BOOLEAN] /\ proc'.app = app
      /\ app \/ \A r \in Rules : cg'[r].members = {}
  BY <1>1, <1>3, NewProcessKeeps
<1>5. /\ hist' = [hist EXCEPT !.reused = hist'.reused]
      /\ hist'.reused = (hist.reused \/ \E u \in Users : At(u, "move"))
  BY <1>1, <1>3 DEF NewProcess, ServiceTypes
<1>6. /\ hist' \in Histories
      /\ hist'.overlap = hist.overlap /\ hist'.restarted = hist.restarted
  BY <1>1, <1>5 DEF ServiceTypes
<1>7. ServiceTypes'
  BY <1>1, <1>2, <1>4, <1>6 DEF ServiceTypes
<1>8. BoundInv'
  <2>1. \A r \in backend.rules : Stays(r)
    BY <1>1, <1>4 DEF ServiceTypes, Backends
  <2>2. RulesBound'
    BY <1>2, <1>6, <2>1 DEF ServiceInv, BoundInv, RulesBound, Stays
  <2> QED BY <1>2, <1>6, <2>2, CallsStay DEF ServiceInv, BoundInv, Nearer
<1>9. MatchedInv'
  <2>1. MembersMatch'
    BY <1>4 DEF MembersMatch
  <2>2. ASSUME NEW v \in Users, At(v, "move")' PROVE hist'.reused
    BY <1>2, <1>5, <2>2, CallsStay DEF Nearer
  <2> QED BY <2>1, <2>2 DEF MatchedInv
<1>10. SeenInv'
  BY <1>2, <1>6 DEF ServiceInv, SeenInv, Awaits, SawIt
<1> QED BY <1>7, <1>8, <1>9, <1>10 DEF ServiceInv

-----------------------------------------------------------------------------
(* Commits *)

\* A plan that is loaded is the next generation, bound to the directories there are.
LEMMA LoadedPlan ==
    ASSUME ServiceTypes, NEW rules \in SUBSET Rules, Loads(rules)
    PROVE  LET b == Loaded(backend, rules)
           IN  /\ b \in Backends /\ b.rules = rules /\ b.gen = backend.gen + 1 /\ b.gen # 0
               /\ b.serial = backend.serial + 1
               /\ ~b.degraded /\ b.armed = backend.armed /\ b.owner = backend.owner
               /\ b.receipt = backend.receipt
               /\ \A r \in rules : cg[r].exists /\ cg[r].id = b.bound[r]
<1> DEFINE bound == [r \in Rules |-> IF r \in rules THEN cg[r].id ELSE 0]
<1>1. bound \in [Rules -> Nat] /\ \A r \in rules : bound[r] = cg[r].id
  BY DEF ServiceTypes, Directories
<1>2. backend \in Backends /\ backend.gen + 1 \in Nat /\ backend.serial + 1 \in Nat
      /\ backend.gen + 1 # 0
  BY DEF ServiceTypes, Backends
<1> HIDE DEF bound
<1>3. Loaded(backend, rules) =
        [backend EXCEPT !.gen = @ + 1, !.serial = @ + 1, !.rules = rules, !.degraded = FALSE,
                        !.retry = FALSE, !.bound = bound]
  BY DEF Loaded, bound
<1> QED BY <1>1, <1>2, <1>3 DEF Backends, Loads

\* After a cleanup no plan is in force.
LEMMA NoPlan ==
    ASSUME ServiceTypes
    PROVE  /\ Inactive(backend.serial) \in Backends
           /\ Inactive(backend.serial).rules = {} /\ Inactive(backend.serial).gen = 0
           /\ Inactive(backend.serial).serial = backend.serial
           /\ Sound(Inactive(backend.serial))
<1>1. backend.serial \in Nat
  BY DEF ServiceTypes, Backends
<1>2. NoRestore \in Receipts
  BY DEF NoRestore, Receipts, Owners
<1>3. [r \in Rules |-> 0] \in [Rules -> Nat]
  OBVIOUS
<1> QED BY <1>1, <1>2, <1>3 DEF Inactive, Backends, Owners, Sound, NoRestore

\* A commit keeps the types.
LEMMA CommitTypes ==
    ASSUME ServiceTypes, NEW b \in Backends, NEW silently \in BOOLEAN, Commits(b, silently)
    PROVE  /\ backend' \in Backends /\ wake' \in BOOLEAN /\ stale' \in BOOLEAN
           /\ hist' \in Histories
<1> DEFINE over == hist.overlap \/ \E u \in Users : At(u, "remove") /\ call[u].list \cap b.rules # {}
           quiet == hist.silent \/ silently
           anew == hist.anew \/ b.gen = 0
           again == IF b.gen = 0 THEN {u \in Users : Busy(u) /\ call[u].op = "activate"}
                    ELSE hist.restarted
<1>1. over \in BOOLEAN /\ quiet \in BOOLEAN /\ anew \in BOOLEAN /\ again \in SUBSET Users
  BY DEF ServiceTypes
<1>2. hist' = [hist EXCEPT !.overlap = over, !.silent = quiet, !.anew = anew, !.restarted = again]
  BY DEF Commits
<1> HIDE DEF over, quiet, anew, again
<1>3. hist' \in Histories
  BY <1>1, <1>2 DEF ServiceTypes
<1>4. stale' \in BOOLEAN
  BY DEF Commits, ServiceTypes
<1> QED BY <1>3, <1>4 DEF Commits

\* What an operation of the backend commits, if it commits.
LEMMA BackendCommits ==
    ASSUME ServiceTypes, NEW u \in Users, RunBackend(u), call[u].op # "recover",
           ~(Return(u) /\ Unchanged)
    PROVE  \E b \in Backends, silently \in BOOLEAN :
             /\ Commits(b, silently)
             /\ GoOn(u, Done(call[u]))
             /\ \A r \in b.rules : cg[r].exists /\ cg[r].id = b.bound[r]
             /\ b.gen = 0 => b.rules = {}
             /\ b.gen = 0 \/ b.gen = backend.gen + 1
             /\ Sound(backend) => Sound(b)
             /\ silently \/ call[u].op \in Helper2Ops
<1> DEFINE c == call[u]
           Good(b) == /\ b \in Backends
                      /\ \A r \in b.rules : cg[r].exists /\ cg[r].id = b.bound[r]
                      /\ b.gen = 0 => b.rules = {}
                      /\ b.gen = 0 \/ b.gen = backend.gen + 1
                      /\ Sound(backend) => Sound(b)
<1>1. c \in Calls /\ c \in CallRecords
  BY DEF ServiceTypes, Calls
<1>2. c.op \in {"activate", "restore", "apply1", "cleanup", "cleanup1"}
  BY <1>1, StepPlaces DEF RunBackend, At, Busy, StepIs
<1>3. backend \in Backends /\ backend.receipt \in Receipts
  BY DEF ServiceTypes, Backends
<1>4. CASE c.op = "activate"
  <2>1. Activatable(c) /\ Commits(Activated(u, c), FALSE) /\ GoOn(u, Done(c))
    BY <1>4 DEF RunBackend
  <2>2. c.rules \in SUBSET Rules /\ Loads(c.rules) /\ c.topo \in Nat
    BY <1>1, <2>1 DEF Activatable, CallRecords
  <2> DEFINE b == Loaded(backend, c.rules)
             rec == [user |-> u, token |-> backend.serial + 1, gen |-> backend.gen,
                         armed |-> backend.armed, owner |-> backend.owner,
                         rules |-> backend.rules, topo |-> backend.topo]
  <2>3. /\ b \in Backends /\ b.gen = backend.gen + 1 /\ b.gen # 0 /\ b.rules = c.rules
        /\ \A r \in b.rules : cg[r].exists /\ cg[r].id = b.bound[r]
        /\ ~b.degraded /\ b.armed = backend.armed /\ b.owner = backend.owner
    BY <2>2, LoadedPlan
  <2>4. rec \in Receipts /\ rec.armed = backend.armed /\ rec.owner = backend.owner
    BY <1>3 DEF Receipts, Backends, Owners
  <2>5. Activated(u, c) = [b EXCEPT !.armed = TRUE, !.owner = u, !.topo = c.topo, !.receipt = rec]
    BY DEF Activated
  <2> HIDE DEF b, rec
  <2>6. /\ Activated(u, c) \in Backends /\ Activated(u, c).rules = b.rules /\ Activated(u, c).gen = b.gen
        /\ Activated(u, c).bound = b.bound /\ ~Activated(u, c).degraded
        /\ Activated(u, c).owner = u /\ Activated(u, c).receipt = rec
    BY <2>2, <2>3, <2>4, <2>5 DEF Backends, Owners
  <2>7. Sound(backend) => Sound(Activated(u, c))
    BY <2>4, <2>6, ServiceAssumption DEF Sound
  <2>8. Good(Activated(u, c))
    BY <2>3, <2>6, <2>7
  <2> QED BY <1>4, <2>1, <2>8 DEF Helper2Ops
<1>5. CASE c.op = "restore"
  <2>1. Restorable(u, c) /\ Commits(Restored, FALSE) /\ GoOn(u, Done(c))
    BY <1>5 DEF RunBackend
  <2> DEFINE prior == backend.receipt
  <2>2. CASE prior.gen = 0
    <3>1. Good(Inactive(backend.serial))
      BY NoPlan
    <3>2. Restored = Inactive(backend.serial)
      BY <2>2 DEF Restored
    <3> QED BY <1>5, <2>1, <3>1, <3>2 DEF Helper2Ops
  <2>3. CASE prior.gen # 0
    <3> DEFINE b == Loaded(backend, prior.rules)
    <3>1. prior.rules \in SUBSET Rules /\ Loads(prior.rules)
      BY <1>3, <2>1 DEF Restorable, Receipts
    <3>2. /\ b \in Backends /\ b.gen = backend.gen + 1 /\ b.gen # 0 /\ b.rules = prior.rules
          /\ \A r \in b.rules : cg[r].exists /\ cg[r].id = b.bound[r]
          /\ ~b.degraded /\ b.armed = backend.armed /\ b.owner = backend.owner
      BY <3>1, LoadedPlan
    <3>3. Restored = [b EXCEPT !.armed = prior.armed, !.owner = prior.owner, !.topo = prior.topo,
                               !.receipt = NoRestore]
      BY <2>3 DEF Restored
    <3>4. NoRestore \in Receipts
      BY DEF NoRestore, Receipts, Owners
    <3> HIDE DEF b
    <3>5. /\ Restored \in Backends /\ Restored.rules = b.rules /\ Restored.gen = b.gen
          /\ Restored.bound = b.bound /\ ~Restored.degraded /\ Restored.armed = prior.armed
          /\ Restored.owner = prior.owner /\ Restored.receipt = NoRestore
      BY <1>3, <3>2, <3>3, <3>4 DEF Backends, Receipts
    <3>6. Sound(backend) => Sound(Restored)
      BY <3>5 DEF Sound, NoRestore
    <3>7. Good(Restored)
      BY <3>2, <3>5, <3>6
    <3> QED BY <1>5, <2>1, <3>7 DEF Helper2Ops
  <2> QED BY <2>2, <2>3
<1>6. CASE c.op = "apply1"
  <2>1. Appliable(c) /\ Commits(Applied(c), TRUE) /\ GoOn(u, Done(c))
    BY <1>6 DEF RunBackend
  <2> DEFINE b == Loaded(backend, c.rules)
  <2>2. c.rules \in SUBSET Rules /\ Loads(c.rules)
    BY <1>1, <2>1 DEF Appliable, CallRecords
  <2>3. /\ b \in Backends /\ b.gen = backend.gen + 1 /\ b.gen # 0 /\ b.rules = c.rules
        /\ \A r \in b.rules : cg[r].exists /\ cg[r].id = b.bound[r]
        /\ ~b.degraded /\ b.armed = backend.armed /\ b.owner = backend.owner
    BY <2>2, LoadedPlan
  <2>4. Applied(c) = [b EXCEPT !.topo = topo, !.receipt = NoRestore]
    BY DEF Applied
  <2>5. NoRestore \in Receipts /\ topo \in Nat
    BY DEF NoRestore, Receipts, Owners, ServiceTypes
  <2> HIDE DEF b
  <2>6. /\ Applied(c) \in Backends /\ Applied(c).rules = b.rules /\ Applied(c).gen = b.gen
        /\ Applied(c).bound = b.bound /\ ~Applied(c).degraded /\ Applied(c).armed = b.armed
        /\ Applied(c).owner = b.owner /\ Applied(c).receipt = NoRestore
    BY <2>3, <2>4, <2>5 DEF Backends
  <2>7. Sound(backend) => Sound(Applied(c))
    BY <2>3, <2>6 DEF Sound, NoRestore
  <2>8. Good(Applied(c))
    BY <2>3, <2>6, <2>7
  <2> QED BY <2>1, <2>8
<1>7. CASE c.op \in {"cleanup", "cleanup1"}
  <2>1. Commits(Inactive(backend.serial), c.op = "cleanup1") /\ GoOn(u, Done(c))
    BY <1>7 DEF RunBackend
  <2>2. Good(Inactive(backend.serial)) /\ (c.op = "cleanup1") \in BOOLEAN
    BY NoPlan
  <2> QED BY <1>7, <2>1, <2>2 DEF Helper2Ops
<1> QED BY <1>2, <1>4, <1>5, <1>6, <1>7

\* The backend answers one call.
LEMMA BackendAlone ==
    ASSUME ServiceTypes, NEW u \in Users, RunBackend(u)
    PROVE  Alone(u)
<1>1. Busy(u) /\ call[u] \in Calls /\ Done(call[u]) \in Calls
      /\ Done(call[u]).op = call[u].op /\ Done(call[u]).at = call[u].at
  BY DEF RunBackend, At, Done, NoCall, ServiceTypes, Calls, CallRecords, OnTrack
<1>2. CASE Return(u)
  BY <1>2, Returned
<1>3. CASE GoOn(u, call[u])
  BY <1>1, <1>3, GoneOn
<1>4. CASE GoOn(u, Done(call[u]))
  BY <1>1, <1>4, GoneOn
<1>5. CASE call[u].op = "recover"
  BY <1>2, <1>3, <1>5 DEF RunBackend
<1>6. CASE call[u].op # "recover"
  BY <1>2, <1>4, <1>6, BackendCommits
<1> QED BY <1>5, <1>6

\* An operation of the backend commits one plan, or changes nothing.
LEMMA RunBackendKeeps ==
    ASSUME ServiceInv, NEW u \in Users, RunBackend(u)
    PROVE  ServiceInv'
<1>1. ServiceTypes /\ call[u] \in Calls /\ call[u] \in CallRecords
  BY DEF ServiceInv, ServiceTypes, Calls
<1>2. Busy(u) /\ UNCHANGED <<topo, cg, proc, mon, last, used>>
  BY DEF RunBackend, At
<1>3. CASE Unchanged /\ (Return(u) \/ (call[u].op = "recover" /\ backend.gen = 0 /\ GoOn(u, call[u])))
  <2>1. UNCHANGED <<backend, wake, stale, hist>>
    BY <1>3 DEF Unchanged
  <2>2. call' \in [Users -> Calls]
    BY <1>1, <1>2, <1>3, GoesOn, Returns DEF ServiceTypes, Busy
  <2>3. ServiceTypes'
    BY <1>1, <1>2, <2>1, <2>2 DEF ServiceTypes
  <2>4. call[u].op = "recover" /\ backend.gen = 0 => call[u].list \cap backend.rules = {}
    BY DEF ServiceInv, BoundInv
  <2>5. BoundInv' /\ MatchedInv' /\ SeenInv'
    BY <1>1, <1>2, <1>3, <2>1, <2>4, CallKeeps DEF Stays
  <2> QED BY <2>3, <2>5 DEF ServiceInv
<1>4. CASE call[u].op # "recover" /\ ~(Return(u) /\ Unchanged)
  <2>1. PICK b \in Backends, silently \in BOOLEAN :
             /\ Commits(b, silently)
             /\ GoOn(u, Done(call[u]))
             /\ \A r \in b.rules : cg[r].exists /\ cg[r].id = b.bound[r]
             /\ b.gen = 0 => b.rules = {}
             /\ b.gen = 0 \/ b.gen = backend.gen + 1
    BY <1>1, <1>4, BackendCommits
  <2>2. Done(call[u]) \in Calls /\ Done(call[u]).op = call[u].op /\ Done(call[u]).at = call[u].at
    BY <1>1 DEF Done, NoCall, Calls, CallRecords, OnTrack
  <2>3. /\ Alone(u)
        /\ At(u, "remove")' => call[u].op = "recover"
        /\ At(u, "move")' => call[u].op = "adopt"
        /\ Awaits(u)' => call[u].op = "activate" /\ call[u].at \in 1..2
    BY <1>1, <1>2, <2>1, <2>2, GoneOn
  <2>4. call[u].op # "adopt" /\ (call[u].op = "activate" => call[u].at = 3)
    BY <1>1, StepPlaces DEF RunBackend, At, Busy, StepIs
  <2>5. Nearer(u)
    BY <1>4, <2>3, <2>4 DEF Nearer
  <2>6. \A v \in Users : Nearer(v)
    BY <2>3, <2>5, OthersNearer
  <2>7. BoundInv' /\ MatchedInv' /\ SeenInv'
    BY <1>2, <2>1, <2>6, CommitKeeps
  <2>8. ServiceTypes'
    BY <1>1, <1>2, <2>1, <2>3, CommitTypes DEF ServiceTypes, Alone
  <2> QED BY <2>7, <2>8 DEF ServiceInv
<1>5. CASE call[u].op = "recover"
  BY <1>3, <1>5 DEF RunBackend
<1> QED BY <1>3, <1>4, <1>5

-----------------------------------------------------------------------------
(* The monitor *)

\* The status of a plan has its type.
LEMMA StatusTypes ==
    ASSUME NEW b \in Backends
    PROVE  Status(b) \in Statuses
  BY DEF Status, Backends, Statuses, Owners

\* A step that changes neither calls nor directories, nor what is in force.
LEMMA SamePlanKeeps ==
    ASSUME ServiceInv, ServiceTypes', UNCHANGED <<cg, proc, call, hist>>,
           backend'.rules = backend.rules, backend'.bound = backend.bound,
           backend'.gen = backend.gen, backend'.serial = backend.serial
    PROVE  ServiceInv'
<1>1. \A v \in Users : Nearer(v)
  BY CallsStay
<1>2. BoundInv'
  <2>1. RulesBound'
    BY DEF ServiceInv, BoundInv, RulesBound
  <2>2. (backend.gen = 0 => backend.rules = {})'
    BY DEF ServiceInv, BoundInv
  <2>3. \A v \in Users : At(v, "remove")' => hist'.overlap \/ call'[v].list \cap backend'.rules = {}
    BY <1>1 DEF Nearer, ServiceInv, BoundInv
  <2> QED BY <2>1, <2>2, <2>3 DEF BoundInv
<1>3. MatchedInv'
  BY <1>1 DEF Nearer, ServiceInv, MatchedInv, MembersMatch
<1>4. SeenInv'
  BY DEF ServiceInv, SeenInv, Awaits, SawIt
<1> QED BY <1>2, <1>3, <1>4 DEF ServiceInv

\* The monitor and the kernel change neither plan nor directories.
LEMMA WatchKeeps ==
    ASSUME ServiceInv, TopologyChanges \/ Wakes \/ Unread \/ MonitorCaptures \/ Degrades
    PROVE  ServiceInv'
<1>1. ServiceTypes /\ Status(backend) \in Statuses
  BY StatusTypes DEF ServiceInv, ServiceTypes
<1>2. NoStatus \in Statuses
  BY ServiceAssumption DEF NoStatus, Statuses, Owners
<1>3. CASE TopologyChanges
  <2>1. ServiceTypes'
    BY <1>1, <1>3 DEF TopologyChanges, ServiceTypes
  <2> QED BY <1>3, <2>1, SamePlanKeeps DEF TopologyChanges
<1>4. CASE Wakes
  <2>1. mon' \in Refreshing
    BY <1>1, <1>2, <1>4 DEF Wakes, NoRefresh, Refreshing
  <2>2. ServiceTypes'
    BY <1>1, <1>4, <2>1 DEF Wakes, ServiceTypes
  <2> QED BY <1>4, <2>2, SamePlanKeeps DEF Wakes
<1>5. CASE MonitorCaptures
  <2>1. mon' \in Refreshing
    BY <1>1, <1>5 DEF MonitorCaptures, ServiceTypes, Refreshing
  <2>2. ServiceTypes'
    BY <1>1, <1>5, <2>1 DEF MonitorCaptures, ServiceTypes
  <2> QED BY <1>5, <2>2, SamePlanKeeps DEF MonitorCaptures
<1>6. CASE Degrades
  <2>1. backend' = [backend EXCEPT !.degraded = backend.armed, !.retry = backend.retry]
    BY <1>6 DEF Degrades, Shows
  <2>2. /\ backend' \in Backends /\ backend'.rules = backend.rules
        /\ backend'.bound = backend.bound /\ backend'.gen = backend.gen
        /\ backend'.serial = backend.serial /\ backend'.degraded \in BOOLEAN
    BY <1>1, <2>1 DEF ServiceTypes, Backends
  <2>3. Status(backend') \in Statuses
    BY <2>2, StatusTypes
  <2>4. mon' \in Refreshing
    BY <1>1, <1>6, <2>3 DEF Degrades, Ends, ServiceTypes, Refreshing
  <2>5. wake' \in BOOLEAN /\ stale' \in BOOLEAN
    BY <1>1, <1>6, <2>2 DEF Degrades, Shows, Retried, ServiceTypes
  <2>6. ServiceTypes'
    BY <1>1, <1>6, <2>2, <2>4, <2>5 DEF Degrades, Shows, ServiceTypes
  <2> QED BY <1>6, <2>2, <2>6, SamePlanKeeps DEF Degrades, Shows
<1>7. CASE Unread
  <2>1. mon' \in Refreshing
    BY <1>1, <1>2, <1>7 DEF Unread, NoRefresh, Refreshing
  <2>2. ServiceTypes'
    BY <1>1, <1>7, <2>1 DEF Unread, ServiceTypes
  <2> QED BY <1>7, <2>2, SamePlanKeeps DEF Unread
<1> QED BY <1>3, <1>4, <1>5, <1>6, <1>7

\* A publication changes what is known of the status.
LEMMA PublishesKeeps ==
    ASSUME ServiceInv, Publishes
    PROVE  ServiceInv'
<1>1. ServiceTypes
  BY DEF ServiceInv
<1>2. [NoRefresh EXCEPT !.ended = mon.ended] \in Refreshing
  BY <1>1, ServiceAssumption DEF ServiceTypes, NoRefresh, NoStatus, Refreshing, Statuses, Owners
<1>3. UNCHANGED <<backend, topo, cg, proc, call, wake>>
  BY DEF Publishes
<1> DEFINE quiet == hist.silent /\ SameAsLast(mon.status)
           anew == hist.anew /\ (SameAsLast(mon.status) \/ mon.status # Status(backend))
<1>4. quiet \in BOOLEAN /\ anew \in BOOLEAN
  BY <1>1 DEF ServiceTypes
<1>5. hist' = [hist EXCEPT !.silent = quiet, !.anew = anew]
  BY DEF Publishes
<1> HIDE DEF quiet, anew
<1>6. /\ hist' \in Histories
      /\ hist'.overlap = hist.overlap /\ hist'.reused = hist.reused
      /\ hist'.restarted = hist.restarted
  BY <1>1, <1>4, <1>5 DEF ServiceTypes
<1>7. ServiceTypes'
  <2>1. stale' \in BOOLEAN /\ last' \in Statuses /\ mon' = [NoRefresh EXCEPT !.ended = mon.ended]
    BY <1>1 DEF Publishes, ServiceTypes, Refreshing
  <2> QED BY <1>1, <1>2, <1>3, <1>6, <2>1 DEF ServiceTypes
<1>8. BoundInv'
  <2>1. RulesBound'
    BY <1>3, <1>6 DEF ServiceInv, BoundInv, RulesBound
  <2> QED BY <1>3, <1>6, <2>1, CallsStay DEF ServiceInv, BoundInv, Nearer
<1>9. MatchedInv'
  BY <1>3, <1>6, CallsStay DEF ServiceInv, MatchedInv, MembersMatch, Nearer
<1>10. SeenInv'
  BY <1>3, <1>6 DEF ServiceInv, SeenInv, Awaits, SawIt
<1> QED BY <1>7, <1>8, <1>9, <1>10 DEF ServiceInv

\* A refresh commits the rules in force once more, for another topology.
LEMMA RefreshesKeeps ==
    ASSUME ServiceInv, Refreshes
    PROVE  ServiceInv'
<1>1. ServiceTypes /\ backend \in Backends /\ mon.topo \in Nat
  BY DEF ServiceInv, ServiceTypes, Refreshing
<1>2. /\ UNCHANGED <<topo, cg, proc, call, last>>
      /\ \E how \in {"done", "refused"} :
           mon' = [mon EXCEPT !.pc = "publish", !.status = Status(backend'), !.ended = how]
  BY DEF Refreshes, Ends
<1>3. ASSUME backend' \in Backends
      PROVE  mon' \in Refreshing
  <2>1. Status(backend') \in Statuses
    BY <1>3, StatusTypes
  <2> QED BY <1>1, <1>2, <2>1 DEF ServiceTypes, Refreshing
<1>4. CASE \E degraded, retry \in BOOLEAN : Shows(degraded, retry)
  <2>1. PICK degraded, retry \in BOOLEAN : Shows(degraded, retry)
    BY <1>4
  <2>2. /\ backend' \in Backends /\ backend'.rules = backend.rules
        /\ backend'.bound = backend.bound /\ backend'.gen = backend.gen
        /\ backend'.serial = backend.serial
    BY <1>1, <2>1 DEF Shows, Backends
  <2>3. stale' \in BOOLEAN /\ wake' \in BOOLEAN /\ UNCHANGED hist
    BY <1>1, <2>1, <2>2 DEF Shows, Retried, ServiceTypes, Backends
  <2>4. ServiceTypes'
    BY <1>1, <1>2, <1>3, <2>2, <2>3 DEF ServiceTypes
  <2> QED BY <1>2, <2>2, <2>3, <2>4, SamePlanKeeps
<1>5. CASE \E deadline \in BOOLEAN :
             /\ Loads(backend.rules)
             /\ Commits([Loaded(backend, backend.rules) EXCEPT !.topo = mon.topo,
                                                               !.retry = deadline], FALSE)
  <2> DEFINE b == Loaded(backend, backend.rules)
             next(deadline) == [b EXCEPT !.topo = mon.topo, !.retry = deadline]
  <2>0. PICK deadline \in BOOLEAN : Loads(backend.rules) /\ Commits(next(deadline), FALSE)
    BY <1>5
  <2>1. backend.rules \in SUBSET Rules
    BY <1>1 DEF Backends
  <2>2. /\ b \in Backends /\ b.rules = backend.rules /\ b.gen = backend.gen + 1 /\ b.gen # 0
        /\ \A r \in b.rules : cg[r].exists /\ cg[r].id = b.bound[r]
    BY <1>1, <2>0, <2>1, LoadedPlan
  <2>3. next(deadline) = [b EXCEPT !.topo = mon.topo, !.retry = deadline]
    OBVIOUS
  <2> HIDE DEF b, next
  <2>4. /\ next(deadline) \in Backends /\ next(deadline).gen = backend.gen + 1
        /\ next(deadline).gen # 0
        /\ \A r \in next(deadline).rules : cg[r].exists /\ cg[r].id = next(deadline).bound[r]
    BY <1>1, <2>2, <2>3 DEF Backends
  <2>5. ServiceTypes'
    <3>1. backend' = next(deadline)
      BY <2>0 DEF Commits
    <3> QED BY <1>1, <1>2, <1>3, <2>0, <2>4, <3>1, CommitTypes DEF ServiceTypes
  <2>6. \A v \in Users : Nearer(v)
    BY <1>2, CallsStay
  <2>7. BoundInv' /\ MatchedInv' /\ SeenInv'
    BY <1>2, <2>0, <2>4, <2>6, CommitKeeps
  <2> QED BY <2>5, <2>7 DEF ServiceInv
<1>6. backend.armed \in BOOLEAN
  BY <1>1 DEF Backends
<1> QED BY <1>4, <1>5, <1>6 DEF Refreshes

-----------------------------------------------------------------------------
(* What the monitor brings about *)

\* What a status can say: only an owner's runtime is degraded.
Said(s) == s.degraded => s.owner # Nobody
Telling == \E u \in Users : At(u, "announce")

\* With no notification left to handle and no timer set, the refresh is for the
\* topology there is, and leaves the runtime as the property has it.
TopoInv ==
    /\ mon.pc = "refresh" /\ ~wake => mon.topo = topo
    /\ mon.pc \in {"idle", "publish"} /\ ~wake /\ backend.armed => Followed
\* What is about to be published was true, and is unless the monitor is woken.
ReadInv ==
    /\ mon.pc = "publish" => Said(mon.status)
    /\ mon.pc = "publish" /\ ~wake => mon.status = Status(backend)
    /\ mon.pc = "publish" /\ ~hist.anew =>
         /\ mon.status.gen <= backend.gen
         /\ mon.status.gen = backend.gen => mon.status = Status(backend)
    /\ mon.pc = "idle" /\ ~wake /\ mon.ended # "unread" => last = Status(backend)
\* As long as generations go on, only what the monitor is about to publish has
\* the generation it published last.
LastInv ==
    ~hist.anew =>
        \/ last = NoStatus
        \/ /\ last.gen <= backend.gen
           /\ last.gen = backend.gen /\ mon.pc # "publish" => last = Status(backend)
\* Who will announce a change that nobody was told of.
ToldInv ==
    stale =>
        \/ hist.silent \/ hist.anew \/ Telling \/ last = NoStatus
        \/ mon.pc = "publish" /\ mon.status # last

WatchInv == Sound(backend) /\ TopoInv /\ ReadInv /\ LastInv /\ ToldInv

\* The status of a sound plan.
LEMMA StatusSaid ==
    ASSUME NEW b \in Backends, Sound(b)
    PROVE  Said(Status(b)) /\ Status(b).gen = b.gen /\ Status(b) # NoStatus
  BY ServiceAssumption DEF Status, Said, Sound, NoStatus, Backends

\* Another's announcement is still to come.
LEMMA StillTelling ==
    ASSUME NEW u \in Users, \A v \in Users \ {u} : call'[v] = call[v], ~At(u, "announce"), Telling
    PROVE  Telling'
  BY DEF Telling, At, Busy

\* What leaves plan, topology and monitor alone.
LEMMA ElsewhereKeeps ==
    ASSUME WatchInv, UNCHANGED <<backend, topo, mon, wake, last>>,
           hist'.silent = hist.silent \/ hist'.silent = TRUE, hist'.anew = hist.anew,
           stale' => stale, Telling => Telling' \/ hist'.silent \/ ~stale'
    PROVE  WatchInv'
  BY DEF WatchInv, Sound, TopoInv, Followed, ReadInv, LastInv, ToldInv

\* The next plan, or none.
LEMMA CommitWatched ==
    ASSUME ServiceTypes, WatchInv, NEW b \in Backends, NEW silently \in BOOLEAN,
           Commits(b, silently), UNCHANGED <<topo, mon, last>>, Sound(b),
           b.gen = 0 \/ b.gen = backend.gen + 1, silently \/ Telling'
    PROVE  WatchInv'
<1>1. /\ backend \in Backends /\ backend.gen \in Nat /\ b.gen \in Nat
      /\ mon.status.gen \in Nat /\ last.gen \in Nat
  BY DEF ServiceTypes, Backends, Refreshing, Statuses
<1>2. /\ backend' = b /\ wake' = TRUE
      /\ hist'.silent = (hist.silent \/ silently) /\ hist'.anew = (hist.anew \/ b.gen = 0)
  BY DEF Commits, ServiceTypes
<1>3. Sound(backend)' /\ TopoInv'
  BY <1>2 DEF Sound, TopoInv
<1>4. ReadInv'
  <2>1. mon.pc = "publish" /\ ~hist.anew => mon.status.gen <= backend.gen
    BY DEF WatchInv, ReadInv
  <2>2. ~hist'.anew => ~hist.anew /\ b.gen = backend.gen + 1
    BY <1>2
  <2>3. mon.pc = "publish" /\ ~hist'.anew => mon.status.gen <= b.gen /\ mon.status.gen # b.gen
    BY <1>1, <2>1, <2>2
  <2>4. mon.pc = "publish" => Said(mon.status)
    BY DEF WatchInv, ReadInv
  <2> QED BY <1>2, <2>3, <2>4 DEF ReadInv, Said
<1>5. LastInv'
  <2>1. ~hist.anew => last = NoStatus \/ last.gen <= backend.gen
    BY DEF WatchInv, LastInv
  <2>2. ~hist'.anew => ~hist.anew /\ b.gen = backend.gen + 1
    BY <1>2
  <2>3. ~hist'.anew => last = NoStatus \/ (last.gen <= b.gen /\ last.gen # b.gen)
    BY <1>1, <2>1, <2>2
  <2> QED BY <1>2, <2>3 DEF LastInv
<1>6. ToldInv'
  BY <1>2 DEF ToldInv
<1> QED BY <1>3, <1>4, <1>5, <1>6 DEF WatchInv

\* A method of the second interface announces what it committed.
LEMMA AnnouncesNext ==
    ASSUME ServiceTypes, NEW u \in Users, At(u, "backend"), GoOn(u, Done(call[u])),
           call[u].op \in Helper2Ops
    PROVE  Telling'
<1>1. call[u] \in Calls /\ Busy(u)
  BY DEF ServiceTypes, At
<1>2. \/ call[u].op = "activate" /\ call[u].at = 3
      \/ call[u].op \in {"restore", "cleanup"} /\ call[u].at = 1
  BY <1>1, StepPlaces DEF At, Busy, StepIs, Helper2Ops
<1>3. Done(call[u]).op = call[u].op /\ Done(call[u]).at = call[u].at /\ Done(call[u]) \in CallRecords
  BY <1>1 DEF Done, NoCall, Calls, CallRecords
<1>4. call'[u].op = call[u].op /\ call'[u].at = call[u].at + 1
  BY <1>2, <1>3, StepTable, SMTT(40) DEF GoOn, Advanced, ServiceTypes, CallRecords
<1>5. At(u, "announce")'
  BY <1>2, <1>4, StepTable DEF At, Busy
<1> QED BY <1>5 DEF Telling

\* An operation of the backend.
LEMMA BackendWatched ==
    ASSUME ServiceTypes, WatchInv, NEW u \in Users, RunBackend(u)
    PROVE  WatchInv'
<1>1. At(u, "backend") /\ ~At(u, "announce") /\ UNCHANGED <<topo, mon, last>>
  <2>1. StepIs(call[u], "backend") <=> At(u, "backend")
    BY DEF StepIs, At, Busy
  <2> QED BY <2>1 DEF RunBackend, At
<1>2. \A v \in Users \ {u} : call'[v] = call[v]
  BY BackendAlone DEF Alone
<1>3. CASE Unchanged
  <2>1. Telling => Telling'
    BY <1>1, <1>2, StillTelling
  <2> QED BY <1>1, <1>3, <2>1, ElsewhereKeeps DEF Unchanged
<1>4. CASE ~Unchanged
  <2>1. call[u].op # "recover"
    BY <1>4 DEF RunBackend
  <2>2. PICK b \in Backends, silently \in BOOLEAN :
             /\ Commits(b, silently)
             /\ GoOn(u, Done(call[u]))
             /\ b.gen = 0 \/ b.gen = backend.gen + 1
             /\ Sound(backend) => Sound(b)
             /\ silently \/ call[u].op \in Helper2Ops
    BY <1>4, <2>1, BackendCommits
  <2>3. silently \/ Telling'
    BY <1>1, <2>2, AnnouncesNext
  <2>4. Sound(b)
    BY <2>2 DEF WatchInv
  <2> QED BY <1>1, <2>2, <2>3, <2>4, CommitWatched
<1> QED BY <1>3, <1>4

\* The other steps of a call.
LEMMA CallWatched ==
    ASSUME ServiceTypes, WatchInv, NEW u \in Users, CallStep(u)
    PROVE  WatchInv'
<1>1. CASE RunBackend(u)
  BY <1>1, BackendWatched
<1>2. CASE Announces(u)
  <2>1. stale' = FALSE /\ hist'.silent = FALSE /\ hist'.anew = hist.anew
        /\ UNCHANGED <<backend, topo, mon, wake, last>>
    BY <1>2 DEF Announces, ServiceTypes
  <2> QED BY <2>1 DEF WatchInv, Sound, TopoInv, Followed, ReadInv, LastInv, ToldInv
<1>3. CASE Fails(u)
  <2>1. /\ \A v \in Users \ {u} : call'[v] = call[v]
        /\ hist'.silent = (hist.silent \/ At(u, "announce")) /\ hist'.anew = hist.anew
        /\ UNCHANGED <<backend, topo, mon, wake, last, stale>>
    BY <1>3 DEF Fails, Return, ServiceTypes
  <2>2. Telling => Telling' \/ hist'.silent
    BY <2>1, StillTelling
  <2>3. hist.silent \in BOOLEAN
    BY DEF ServiceTypes
  <2> QED BY <2>1, <2>2, <2>3, ElsewhereKeeps
<1>4. ASSUME ~RunBackend(u), ~Announces(u), ~Fails(u)
      PROVE  WatchInv'
  <2>1. /\ \A v \in Users \ {u} : call'[v] = call[v]
        /\ hist'.silent = hist.silent /\ hist'.anew = hist.anew
        /\ UNCHANGED <<backend, topo, mon, wake, last, stale>>
    BY <1>4 DEF CallStep, Begin, Captures, Prepares, Lists, Removes, Spawns, Matches, Identifies,
                Moves, NewProcess, GoOn, Return, Unchanged, ServiceTypes
  <2>2. ~At(u, "announce")
    BY <1>4 DEF CallStep, Begin, Captures, Prepares, Lists, Removes, Spawns, Matches, Identifies,
                Moves, At
  <2> QED BY <2>1, <2>2, StillTelling, ElsewhereKeeps
<1> QED BY <1>1, <1>2, <1>3, <1>4

\* Waking up, and a topology or a status that could not be read.
LEMMA WakeWatched ==
    ASSUME ServiceTypes, WatchInv, Wakes \/ Unread \/ MonitorCaptures \/ TopologyChanges
    PROVE  WatchInv'
<1>1. backend \in Backends /\ Said(Status(backend)) /\ Status(backend).gen = backend.gen
      /\ backend.gen \in Nat /\ Telling = Telling' /\ UNCHANGED <<backend, call, last, stale, hist>>
  <2>1. UNCHANGED <<backend, call, last, stale, hist>>
    BY DEF Wakes, Unread, MonitorCaptures, TopologyChanges
  <2>2. Telling = Telling'
    BY <2>1 DEF Telling, At, Busy
  <2> QED BY <2>1, <2>2, StatusSaid DEF ServiceTypes, WatchInv, Backends
<1>2. mon \in Refreshing /\ mon.pc \in {"idle", "capture", "refresh", "degrade", "publish"}
  BY DEF ServiceTypes, Refreshing
<1>3. CASE TopologyChanges
  BY <1>1, <1>3 DEF TopologyChanges, WatchInv, Sound, TopoInv, Followed, ReadInv, LastInv, ToldInv
<1>4. CASE MonitorCaptures
  <2>1. /\ mon.pc = "capture" /\ mon'.pc \in {"refresh", "degrade"}
        /\ mon'.pc = "refresh" => mon'.topo = topo
        /\ UNCHANGED <<topo, wake>>
    BY <1>2, <1>4 DEF MonitorCaptures, Refreshing
  <2> QED BY <1>1, <2>1 DEF WatchInv, Sound, TopoInv, Followed, ReadInv, LastInv, ToldInv
<1>5. CASE Wakes
  <2>1. /\ mon.pc = "idle" /\ UNCHANGED topo
        /\ \/ mon'.pc = "capture"
           \/ ~backend.armed /\ mon'.pc = "publish" /\ mon'.status = Status(backend)
    BY <1>2, <1>5 DEF Wakes, NoRefresh, Refreshing
  <2> QED BY <1>1, <2>1 DEF WatchInv, Sound, TopoInv, Followed, ReadInv, LastInv, ToldInv
<1>6. CASE Unread
  <2>1. /\ mon.pc \in {"idle", "degrade", "refresh"} /\ UNCHANGED topo
        /\ mon'.pc = "idle" /\ mon'.ended = "unread"
    BY <1>2, <1>6 DEF Unread, NoRefresh, Refreshing
  <2> QED BY <1>1, <2>1 DEF WatchInv, Sound, TopoInv, Followed, ReadInv, LastInv, ToldInv
<1> QED BY <1>3, <1>4, <1>5, <1>6

\* A status of the same generation is news only if it was not published.
LEMMA NewsIsNew ==
    ASSUME ServiceTypes, WatchInv, NEW b \in Backends, Sound(b), mon.pc # "publish",
           \/ b.gen = backend.gen /\ Status(b) # Status(backend)
           \/ b.gen = backend.gen + 1
    PROVE  hist.anew \/ last = NoStatus \/ Status(b) # last
<1>1. last.gen \in Nat /\ backend.gen \in Nat /\ Status(b).gen = b.gen
  BY StatusSaid DEF ServiceTypes, Statuses, Backends
<1> QED BY <1>1 DEF WatchInv, LastInv

\* The monitor comes to publish the status of the plan it refreshed or degraded.
LEMMA RefreshWatched ==
    ASSUME ServiceTypes, WatchInv, mon.pc \in {"refresh", "degrade"},
           UNCHANGED <<topo, call, last>>, hist'.silent = hist.silent, hist'.anew = hist.anew,
           mon'.pc = "publish", mon'.status = Status(backend'),
           backend' \in Backends, Sound(backend'),
           backend'.gen = backend.gen \/ backend'.gen = backend.gen + 1,
           stale' => stale \/ Status(backend') # Status(backend) \/ backend'.gen = backend.gen + 1,
           ~wake' /\ backend'.armed => Followed'
    PROVE  WatchInv'
<1>1. /\ Said(Status(backend')) /\ Status(backend').gen = backend'.gen
      /\ backend.gen \in Nat /\ backend'.gen \in Nat /\ last.gen \in Nat
  BY StatusSaid DEF ServiceTypes, Statuses, Backends
<1>2. Telling => Telling'
  BY DEF Telling, At, Busy
<1>3. Sound(backend)' /\ TopoInv' /\ ReadInv' /\ LastInv'
  BY <1>1 DEF WatchInv, TopoInv, ReadInv, LastInv, Sound
<1>4. ToldInv'
  <2>1. CASE ~stale' \/ stale
    BY <1>2, <2>1 DEF WatchInv, ToldInv
  <2>2. CASE stale' /\ ~stale
    <3>1. hist.anew \/ last = NoStatus \/ Status(backend') # last
      BY <2>2, NewsIsNew
    <3> QED BY <3>1 DEF ToldInv
  <2> QED BY <2>1, <2>2
<1> QED BY <1>3, <1>4 DEF WatchInv

\* The refresh of a topology.
LEMMA RefreshesWatched ==
    ASSUME ServiceTypes, ServiceTypes', WatchInv, Refreshes
    PROVE  WatchInv'
<1> DEFINE settles == ~backend.armed \/ mon.topo = backend.topo
<1>1. backend \in Backends /\ mon.topo \in Nat /\ Sound(backend) /\ backend' \in Backends
      /\ backend.rules \in SUBSET Rules /\ mon \in Refreshing
  BY DEF ServiceTypes, WatchInv, Refreshing, Backends
<1>2. /\ UNCHANGED <<topo, cg, proc, call, last>> /\ mon.pc = "refresh"
      /\ mon'.pc = "publish" /\ mon'.status = Status(backend')
  BY <1>1 DEF Refreshes, Ends, Refreshing
<1>3. ~wake => mon.topo = topo
  BY <1>2 DEF WatchInv, TopoInv
<1>4. ASSUME NEW degraded \in BOOLEAN, NEW retry \in BOOLEAN, Shows(degraded, retry),
             degraded => backend.armed, ~wake' /\ backend'.armed => Followed'
      PROVE  WatchInv'
  <2>1. /\ backend'.gen = backend.gen /\ backend'.armed = backend.armed
        /\ backend'.degraded = degraded
        /\ backend'.owner = backend.owner /\ backend'.receipt = backend.receipt
    BY <1>1, <1>4 DEF Shows, Backends
  <2>2. Sound(backend')
    BY <1>1, <1>4, <2>1 DEF Sound
  <2>3. /\ stale' = (stale \/ Status(backend') # Status(backend)) /\ UNCHANGED hist
    BY <1>4 DEF Shows
  <2> QED BY <1>1, <1>2, <1>4, <2>1, <2>2, <2>3, RefreshWatched
<1>5. CASE /\ settles /\ Ends("done")
           /\ \E deadline \in {FALSE, backend.armed} : Shows(FALSE, deadline)
  <2>1. PICK deadline \in BOOLEAN : Shows(FALSE, deadline)
    BY <1>1, <1>5 DEF Backends
  <2>2. /\ wake' = (wake \/ deadline) /\ backend'.armed = backend.armed
        /\ backend'.topo = backend.topo /\ ~backend'.degraded
    BY <1>1, <2>1 DEF Shows, Retried, Backends
  <2>3. mon'.ended = "done"
    BY <1>1, <1>5 DEF Ends, Refreshing
  <2>4. ~wake' /\ backend'.armed => Followed'
    BY <1>2, <1>3, <1>5, <2>2, <2>3 DEF Followed
  <2> QED BY <1>4, <2>1, <2>4
<1>6. CASE /\ Loads(backend.rules) /\ ~settles
           /\ \E deadline \in BOOLEAN :
                Commits([Loaded(backend, backend.rules) EXCEPT !.topo = mon.topo,
                                                               !.retry = deadline], FALSE)
  <2> DEFINE b == Loaded(backend, backend.rules)
             next(deadline) == [b EXCEPT !.topo = mon.topo, !.retry = deadline]
  <2>0. PICK deadline \in BOOLEAN : Commits(next(deadline), FALSE)
    BY <1>6
  <2>1. /\ b \in Backends /\ b.gen = backend.gen + 1 /\ b.gen # 0
        /\ ~b.degraded /\ b.armed = backend.armed /\ b.owner = backend.owner
        /\ b.receipt = backend.receipt
    BY <1>1, <1>6, LoadedPlan
  <2>2. next(deadline) = [b EXCEPT !.topo = mon.topo, !.retry = deadline]
    OBVIOUS
  <2> HIDE DEF b, next
  <2>3. /\ next(deadline).gen = backend.gen + 1 /\ next(deadline).gen # 0
        /\ next(deadline).armed = backend.armed /\ ~next(deadline).degraded
        /\ next(deadline).owner = backend.owner /\ next(deadline).receipt = backend.receipt
    BY <1>1, <2>1, <2>2 DEF Backends
  <2>4. backend' = next(deadline) /\ wake' = TRUE
        /\ hist'.silent = hist.silent /\ hist'.anew = hist.anew
    BY <2>0, <2>3 DEF Commits, ServiceTypes
  <2>5. Sound(backend')
    BY <1>1, <2>3, <2>4 DEF Sound
  <2> QED BY <1>1, <1>2, <2>3, <2>4, <2>5, RefreshWatched
<1>7. CASE backend.armed /\ Shows(TRUE, TRUE)
  <2>1. wake'
    BY <1>1, <1>7 DEF Shows, Retried, Backends
  <2> QED BY <1>4, <1>7, <2>1
<1>8. CASE backend.armed /\ Ends("refused") /\ \E deadline \in BOOLEAN : Shows(TRUE, deadline)
  <2>1. PICK deadline \in BOOLEAN : Shows(TRUE, deadline)
    BY <1>8
  <2>2. backend'.degraded /\ mon'.ended = "refused"
    BY <1>1, <1>8, <2>1 DEF Shows, Ends, Backends, Refreshing
  <2> QED BY <1>4, <1>8, <2>1, <2>2 DEF Followed
<1> QED BY <1>5, <1>6, <1>7, <1>8 DEF Refreshes

\* A topology that could not be read.
LEMMA DegradesWatched ==
    ASSUME ServiceTypes, ServiceTypes', WatchInv, Degrades
    PROVE  WatchInv'
<1>1. backend \in Backends /\ Sound(backend) /\ backend' \in Backends /\ mon \in Refreshing
  BY DEF ServiceTypes, WatchInv
<1>2. /\ UNCHANGED <<topo, call, last, hist>> /\ mon.pc = "degrade"
      /\ mon'.pc = "publish" /\ mon'.status = Status(backend') /\ mon'.ended = "refused"
      /\ stale' = (stale \/ Status(backend') # Status(backend))
  BY <1>1 DEF Degrades, Shows, Ends, Refreshing
<1>3. /\ backend'.gen = backend.gen /\ backend'.armed = backend.armed
      /\ backend'.degraded = backend.armed
      /\ backend'.owner = backend.owner /\ backend'.receipt = backend.receipt
  BY <1>1 DEF Degrades, Shows, Backends
<1>4. Sound(backend')
  BY <1>1, <1>3 DEF Sound
<1>5. ~wake' /\ backend'.armed => Followed'
  BY <1>2, <1>3 DEF Followed
<1> QED BY <1>1, <1>2, <1>3, <1>4, <1>5, RefreshWatched

\* A publication, of what is current or of what the monitor will read again.
LEMMA PublishesWatched ==
    ASSUME ServiceTypes, WatchInv, Publishes
    PROVE  WatchInv'
<1>1. /\ UNCHANGED <<backend, topo, call, wake>> /\ mon.pc = "publish" /\ mon'.pc = "idle"
      /\ mon'.ended = mon.ended
      /\ last' = mon.status /\ stale' = (stale /\ SameAsLast(mon.status))
  BY DEF Publishes, NoRefresh
<1> DEFINE quiet == hist.silent /\ SameAsLast(mon.status)
           anew == hist.anew /\ (SameAsLast(mon.status) \/ mon.status # Status(backend))
<1>2. hist' = [hist EXCEPT !.silent = quiet, !.anew = anew]
  BY DEF Publishes
<1> HIDE DEF quiet, anew
<1>3. hist'.silent = quiet /\ hist'.anew = anew
  BY <1>2 DEF ServiceTypes
<1>4. Telling' = Telling
  BY <1>1 DEF Telling, At, Busy
<1>5. mon.status # NoStatus
  BY <1>1 DEF WatchInv, ReadInv, Said, NoStatus
<1>6. Status(backend).gen = backend.gen /\ backend.gen \in Nat
  BY StatusSaid DEF WatchInv, ServiceTypes, Backends
<1>7. Sound(backend)' /\ TopoInv'
  BY <1>1 DEF WatchInv, Sound, TopoInv, Followed
<1>8. ReadInv'
  BY <1>1 DEF WatchInv, ReadInv
<1>9. LastInv'
  <2>1. Status(backend)' = Status(backend)
    BY <1>1 DEF Status
  <2>2. ~hist'.anew => ~hist.anew \/ mon.status = Status(backend)
    BY <1>3 DEF anew
  <2>3. ~hist'.anew =>
          /\ mon.status.gen <= backend.gen
          /\ mon.status.gen = backend.gen => mon.status = Status(backend)
    BY <1>1, <1>6, <2>2 DEF WatchInv, ReadInv
  <2> QED BY <1>1, <2>1, <2>3 DEF LastInv
<1>10. ToldInv'
  BY <1>1, <1>3, <1>4, <1>5 DEF WatchInv, ToldInv, SameAsLast, quiet, anew
<1> QED BY <1>7, <1>8, <1>9, <1>10 DEF WatchInv

\* Every step keeps what the monitor brings about.
LEMMA StepWatched ==
    ASSUME ServiceTypes, ServiceTypes', WatchInv, [Next]_vars
    PROVE  WatchInv'
<1>1. CASE ProcessReplaced
  <2>1. UNCHANGED <<backend, topo, call, mon, wake, last, stale>>
        /\ hist'.silent = hist.silent /\ hist'.anew = hist.anew
    BY <1>1 DEF ProcessReplaced, NewProcess, ServiceTypes
  <2>2. Telling => Telling'
    BY <2>1 DEF Telling, At, Busy
  <2> QED BY <2>1, <2>2, ElsewhereKeeps
<1>2. CASE UNCHANGED vars
  <2>1. Telling => Telling'
    BY <1>2 DEF vars, Telling, At, Busy
  <2> QED BY <1>2, <2>1, ElsewhereKeeps DEF vars
<1> QED
  BY <1>1, <1>2, CallWatched, WakeWatched, RefreshesWatched, DegradesWatched, PublishesWatched
  DEF Next, MonitorStep

\* The monitor is woken when the helper starts.
LEMMA InitWatched == Init => WatchInv
<1> SUFFICES ASSUME Init PROVE WatchInv
  OBVIOUS
<1>1. Sound(backend)
  BY DEF Init, Inactive, NoRestore, Sound
<1> QED BY <1>1 DEF Init, NoRefresh, WatchInv, TopoInv, ReadInv, LastInv, ToldInv

-----------------------------------------------------------------------------
(* The theorems *)

\* The invariant holds when the helper starts.
LEMMA InitService == Init => ServiceInv
<1> SUFFICES ASSUME Init PROVE ServiceInv
  OBVIOUS
<1>1. \A u \in Users : call[u] = NoCall
  BY DEF Init
<1>2. ServiceTypes
  <2>1. NoCall \in Calls
    BY DEF NoCall, Calls, CallRecords, OnTrack
  <2>2. Inactive(0) \in Backends
    <3>1. NoRestore \in Receipts
      BY DEF NoRestore, Receipts, Owners
    <3> QED BY <3>1 DEF Inactive, Backends, Owners
  <2>3. NoStatus \in Statuses
    BY ServiceAssumption DEF NoStatus, Statuses, Owners
  <2>4. NoRefresh \in Refreshing
    BY <2>3 DEF NoRefresh, Refreshing
  <2>5. cg \in [Rules -> Directories]
    <3>1. /\ [exists |-> FALSE, id |-> 0, members |-> {}] \in Directories
          /\ [exists |-> TRUE, id |-> 1, members |-> {}] \in Directories
      BY DEF Directories
    <3> QED BY <3>1 DEF Init
  <2> QED BY <2>1, <2>2, <2>3, <2>4, <2>5 DEF Init, ServiceTypes
<1>3. BoundInv
  BY <1>1 DEF Init, Inactive, BoundInv, RulesBound, At, Busy, NoCall
<1>4. MatchedInv
  BY <1>1 DEF Init, MatchedInv, MembersMatch, At, Busy, NoCall
<1>5. SeenInv
  BY <1>1 DEF SeenInv, Awaits, NoCall
<1> QED BY <1>2, <1>3, <1>4, <1>5 DEF ServiceInv

\* Every step keeps the invariant.
LEMMA StepService ==
    ASSUME ServiceInv, [Next]_vars
    PROVE  ServiceInv'
<1>1. ASSUME NEW u \in Users, CallStep(u) PROVE ServiceInv'
  <2>1. CASE \E op \in Ops : \E rules \in SUBSET Rules : Begin(u, op, rules)
    BY <2>1, BeginKeeps
  <2>2. CASE Captures(u) \/ Lists(u) \/ Matches(u) \/ Identifies(u) \/ Fails(u) \/ Announces(u)
    BY <2>2, LocalKeeps
  <2>3. CASE Prepares(u)
    BY <2>3, PreparesKeeps
  <2>4. CASE RunBackend(u)
    BY <2>4, RunBackendKeeps
  <2>5. CASE Removes(u)
    BY <2>5, RemovesKeeps
  <2>6. CASE Spawns(u)
    BY <2>6, SpawnsKeeps
  <2>7. CASE Moves(u)
    BY <2>7, MovesKeeps
  <2> QED BY <1>1, <2>1, <2>2, <2>3, <2>4, <2>5, <2>6, <2>7 DEF CallStep
<1>2. CASE MonitorStep
  BY <1>2, WatchKeeps, RefreshesKeeps, PublishesKeeps DEF MonitorStep
<1>3. CASE TopologyChanges
  BY <1>3, WatchKeeps
<1>4. CASE ProcessReplaced
  BY <1>4, ProcessReplacedKeeps
<1>5. CASE UNCHANGED vars
  <2>1. ServiceTypes'
    BY <1>5 DEF vars, ServiceInv, ServiceTypes
  <2> QED BY <1>5, <2>1, SamePlanKeeps DEF vars
<1> QED BY <1>1, <1>2, <1>3, <1>4, <1>5 DEF Next

\* What an activation commits replaces what its caller saw.
LEMMA ActivationReplaces ==
    ASSUME ServiceInv, [Next]_vars, NEW u \in Users, At(u, "backend"), call[u].op = "activate",
           backend'.serial # backend.serial, call'[u] # call[u]
    PROVE  call[u].serial = backend.serial \/ u \in hist.restarted
<1>1. ServiceTypes /\ call[u] \in Calls
  BY DEF ServiceInv, ServiceTypes
<1>2. RunBackend(u)
  <2>1. ASSUME NEW v \in Users, CallStep(v) PROVE RunBackend(u)
    <3>1. RunBackend(v)
      BY <2>1 DEF CallStep, Begin, Fails, Captures, Prepares, Announces, Lists, Removes, Spawns,
                  Matches, Identifies, Moves, Unchanged
    <3>2. v = u
      BY <1>1, <3>1, BackendAlone DEF Alone
    <3> QED BY <3>1, <3>2
  <2> QED BY <2>1 DEF Next, MonitorStep, Wakes, Unread, MonitorCaptures, Refreshes, Shows, Degrades,
                      Publishes, TopologyChanges, ProcessReplaced, vars
<1>3. call[u].saw = backend.gen
  BY <1>2 DEF RunBackend, Activatable, Unchanged
<1>4. Awaits(u)
  BY <1>1, StepPlaces DEF At, Busy, StepIs, Awaits
<1> QED BY <1>3, <1>4 DEF ServiceInv, SeenInv, SawIt

\* Types are kept, and every call is at one of its steps.
THEOREM ServiceTyped == Spec => []ServiceTypes
<1>1. ServiceInv => ServiceTypes
  BY DEF ServiceInv
<1> QED BY <1>1, InitService, StepService, PTL DEF Spec

\* The directories of the active plan stay, for any number of users that launch,
\* recover and activate at the same time, unless a plan was committed between
\* the last two steps of a recovery.
THEOREM PlansKeepCgroups == Spec => []RulesBound
<1>1. ServiceInv => RulesBound
  BY DEF ServiceInv, BoundInv
<1> QED BY <1>1, InitService, StepService, PTL DEF Spec

\* Nothing but the application is adopted, whoever has its process id by then,
\* unless the id was given away between the identity check and the write.
THEOREM OnlyTheApplication == Spec => []MembersMatch
<1>1. ServiceInv => MembersMatch
  BY DEF ServiceInv, MatchedInv
<1> QED BY <1>1, InitService, StepService, PTL DEF Spec

\* However long its prompt took, an activation replaces the plan its caller saw.
THEOREM ActivatesWhatItSaw == Spec => ReplacesSeen
<1>1. ServiceInv /\ [Next]_vars =>
        [\A u \in Users :
            At(u, "backend") /\ call[u].op = "activate" /\ backend'.serial # backend.serial
               /\ call'[u] # call[u] =>
            call[u].serial = backend.serial \/ u \in hist.restarted]_vars
  BY ActivationReplaces
<1> QED BY <1>1, InitService, StepService, PTL DEF Spec, ReplacesSeen

\* An activation compiled for another topology, a refresh that was overtaken or
\* a transition that failed does not last: the monitor comes back until an armed
\* runtime has the topology of the kernel.  It sleeps without a timer only after a
\* refresh that was refused or had no topology, with the runtime shown as
\* degraded, or after one that could not read its status.
THEOREM MonitorFollowsTopology == Spec => []TopologyFollowed
<1>1. WatchInv => TopologyFollowed
  BY DEF WatchInv, TopoInv, TopologyFollowed, Quiet
<1>2. ServiceInv /\ ServiceInv' /\ WatchInv /\ [Next]_vars => WatchInv'
  BY StepWatched DEF ServiceInv
<1> QED BY <1>1, <1>2, InitService, InitWatched, StepService, PTL DEF Spec

\* When nothing is in progress every daemon was told of the current status, but
\* for a status the monitor had published last: after a method that announces
\* nothing, or after generations started anew; and but for a refresh that could
\* not read the status.
THEOREM ChangesAreTold == Spec => []ChangesAnnounced
<1>1. ServiceTypes /\ WatchInv => ChangesAnnounced
  <2> SUFFICES ASSUME ServiceTypes, WatchInv, Quiet, stale, mon.ended # "unread"
               PROVE  (hist.silent \/ hist.anew) /\ Status(backend) = last
    BY DEF ChangesAnnounced
  <2>1. ~Telling
    BY DEF Quiet, Telling, At
  <2>2. last = Status(backend)
    BY DEF Quiet, WatchInv, ReadInv
  <2>3. last # NoStatus
    BY <2>2, StatusSaid DEF WatchInv, ServiceTypes
  <2> QED BY <2>1, <2>2, <2>3 DEF WatchInv, ToldInv, Quiet
<1>2. ServiceInv /\ ServiceInv' /\ WatchInv /\ [Next]_vars => WatchInv'
  BY StepWatched DEF ServiceInv
<1>3. ServiceInv => ServiceTypes
  BY DEF ServiceInv
<1> QED BY <1>1, <1>2, <1>3, InitService, InitWatched, StepService, PTL DEF Spec
=============================================================================
