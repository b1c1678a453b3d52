------------------------ MODULE LeftoverCleanup_proofs ------------------------
(***************************************************************************)
(* Theorems about LeftoverCleanup, for every set of leftovers, every         *)
(* disturbance and any number of failures.                                   *)
(***************************************************************************)
EXTENDS LeftoverCleanup, PlanRouting_proofs, FiniteSetTheorems

-----------------------------------------------------------------------------
(* The types *)

Docs ==
    [by: {"none", "v1", "v2", "v3", "other"}, active: PlansOrNone, pending: PlansOrNone,
     guard: BOOLEAN]
Routes == [fam: Families, tab: Nat, dev: Devices \cup {""}, via: Vias \cup {"unreachable"}]
Rules == [fam: Families, tab: Nat]
Routings == Parts(Routes, Rules)
Journals ==
    [kind: {"none", "orphan", "v1", "v2"}, active: PlansOrNone, pending: PlansOrNone,
     lost: SUBSET (Families \X Nat), cleanup: BOOLEAN, inner: PlansOrNone,
     settings: SUBSET Devices, doc: Docs, routing: Routings]
Strangers ==
    [what: {"route", "rule"}, fam: Families, tab: {1}, dev: {""}, via: {"none"}]
    \cup [what: {"table"}, fam: {0}, tab: {0}, dev: {""}, via: {"none"}]
    \cup [what: {"default"}, fam: Families, tab: Nat, dev: Devices, via: Vias \ {"none"}]
Pcs == {"idle", "load", "capture", "record", "note", "run", "drop", "final", "clear",
        "activate", "check", "intent", "verify", "settle"}
Jobs ==
    [op: {"none", "orphan", "v1", "v2"}, pc: Pcs, then: {"end", "forget", "capture", "activate"},
     own: [doc: Docs, routing: Routings], todo: Seq(RemovalSteps)]

TypedLeftovers ==
    /\ journal \in Journals
    /\ mem \in [init: BOOLEAN, record: Journals]
    /\ kern \in [doc: Docs, routing: Routings, svm: SUBSET Devices]
    /\ foreign \subseteq Strangers
    /\ job \in Jobs
    /\ used \in [faults: Nat, others: Nat, done: BOOLEAN]
    /\ hist \in [touched: BOOLEAN, fresh: SUBSET Strangers, owed: BOOLEAN,
                 gone: SUBSET Devices, reported: BOOLEAN]

-----------------------------------------------------------------------------
(* The inductive invariant *)

At(op, pcs) == job.op = op /\ job.pc \in pcs

\* The steps a call of each kind can be at.
Control ==
    /\ job.pc = "idle" => job = NoJob
    /\ job.op = "none" => job.pc \in {"idle", "clear", "activate"} /\ job.then = "end"
    /\ job.op = "orphan" =>
         /\ job.pc \in {"load", "capture", "record", "note", "run", "drop", "final", "clear",
                        "activate"}
         /\ job.todo = <<>>
    /\ job.op = "v1" =>
         job.pc \in {"check", "intent", "run", "drop", "final", "clear"} /\ job.then = "end"
    /\ job.op = "v2" =>
         /\ job.pc \in {"check", "intent", "verify", "run", "drop", "final", "settle", "clear"}
         /\ job.then = "end"
    /\ job.op \in {"v1", "v2"} => job.op = mem.record.kind
    /\ job.todo # <<>> => job.pc \in {"run", "verify"}
    /\ At("v2", {"run"}) => job.todo # <<>>

\* What the journal on disk and the record in memory say of one another.
Remembered ==
    /\ journal.kind # "orphan" => journal.doc = NoTable /\ journal.routing = Nothing
    /\ mem.record.doc = NoTable /\ mem.record.routing = Nothing
    /\ mem.record.kind \in {"none", "v1", "v2"}
    /\ mem.record.kind # "none" => mem.init
    /\ mem.init /\ Legacy(journal) => Legacy(mem.record)
    /\ mem.record.kind = "v2" /\ mem.record.inner # NoPlan => Legacy(journal)
\* What a call knows of them.
Records ==
    /\ Remembered
    /\ job.op = "orphan" => ~Legacy(journal)
    /\ At("orphan", {"load", "note", "run", "drop", "final", "clear"}) => journal.kind = "orphan"
    /\ At("none", {"clear"}) => journal.kind = "none"
    /\ job.pc = "activate" => mem.init /\ journal.kind # "orphan"
    /\ At("v1", {"run", "drop"}) => journal = [mem.record EXCEPT !.cleanup = TRUE]
    /\ At("v2", {"verify", "run", "drop"}) => journal = mem.record /\ mem.record.cleanup
    /\ job.op = "v2" /\ job.pc # "check" => mem.record.inner = NoPlan
    /\ At("orphan", {"run"}) => journal = OrphanJournal(job.own)

\* What a removal can meet lies within what the journal declares.
Shares ==
    /\ At("orphan", {"note", "run", "drop"}) => Within(kern.routing, job.own.routing)
    /\ At("v1", {"intent", "run"}) => Within(kern.routing, OwnV1(mem.record.active))
    /\ At("v2", {"run"}) =>
         /\ kern.routing.routes \subseteq
              Own(mem.record.active).routes \cup Own(mem.record.pending).routes
         /\ kern.routing.rules \subseteq
              Own(mem.record.active).rules \cup Own(mem.record.pending).rules

\* What a cleanup on its way takes for RouteLane's.
Target ==
    CASE job.op = "orphan" -> job.own.routing.routes
      [] job.op = "v1" -> OwnV1(mem.record.active).routes
      [] job.op = "v2" -> Own(mem.record.active).routes \cup Own(mem.record.pending).routes
      [] OTHER -> {}
Claims(x) == x.what = "default" /\ RouteOf(x) \in Target
\* What is foreign at a removal came after the last verification, or it is a
\* default that this verification took for RouteLane's.
Strange ==
    /\ (\E x \in foreign : x.what = "table") => kern.doc = Altered
    /\ journal.kind = "orphan" => journal.doc # Altered
    /\ At("orphan", {"record", "note", "run", "drop"}) => job.own.doc # Altered
    /\ \/ At("orphan", {"note", "run", "drop"}) \/ At("v1", {"intent", "run", "drop"})
       \/ At("v2", {"run", "drop"})
       => \A x \in foreign : x.what # "table" => x \in hist.fresh \/ Claims(x)
    /\ job.pc = "drop" => \A x \in foreign : x.what = "table" => x \in hist.fresh

\* What is owed, and what became of the settings.
Bare == kern.doc = NoTable /\ kern.routing = Nothing
SettingsDone == kern.svm = {} \/ hist.reported
InV2(j) == j.kind = "v2" /\ j.inner = NoPlan /\ kern.svm \subseteq j.settings
Evidence ==
    /\ hist.owed /\ journal.kind = "none" => Bare
    /\ hist.owed /\ job.pc = "clear" => Bare
    /\ job.pc = "settle" => Bare
    /\ journal.kind = "v1" /\ journal.active = NoPlan => Bare
    /\ mem.record.kind = "v1" /\ mem.record.active = NoPlan => Bare
    /\ \/ SettingsDone
       \/ InV2(journal) /\ (mem.record.kind # "none" => InV2(mem.record))
    /\ At("v2", {"clear"}) => SettingsDone

\* The states from which the removals of a schema-2 cleanup may have started.
StartsV2(j, doc) ==
    LET basis == RoutingBasis(j.active, j.lost)
    IN  (IF doc = NoTable THEN {Nothing} ELSE {})
        \cup (IF j.pending = NoPlan
              THEN IF j.active # NoPlan /\ doc = Doc("v2", j.active, NoPlan, FALSE)
                   THEN {Own(j.active)} ELSE {}
              ELSE (IF doc = Doc("v2", j.active, NoPlan, FALSE) THEN {Own(basis)} ELSE {})
                   \cup (IF doc = NoTable THEN AbsentRollbackStates(basis) ELSE {})
                   \cup (IF doc \in {Doc("v2", j.active, j.pending, g) : g \in BOOLEAN}
                         THEN PreparedStates(basis, j.pending) ELSE {})
                   \cup (IF doc \in {Doc("v2", j.pending, NoPlan, g) : g \in BOOLEAN}
                         THEN ActivatedStates(basis, j.pending) ELSE {})
                   \cup (IF doc = Doc("v2", j.pending, NoPlan, FALSE) THEN {Own(j.pending)} ELSE {}))

\* All removals, and how many of them were made now and by an earlier attempt.
RemovalsV2(j) == RollbackRemovals(j.active, j.pending)
UnderWay(j, doc, routing, todo) ==
    \E s \in StartsV2(j, doc), k \in 0..Len(RemovalsV2(j)), m \in 0..Len(RemovalsV2(j)) :
        /\ k <= m
        /\ todo = SubSeq(RemovalsV2(j), k + 1, Len(RemovalsV2(j)))
        /\ routing = StatesAfter(s, RemovalsV2(j))[m]
\* Everything that is live is removed by what is left to do.
Covered(routing, todo) ==
    /\ \A r \in routing.rules : \E i \in 1..Len(todo) : todo[i] = DeleteRule(r.fam, r.tab)
    /\ \A r \in routing.routes : \E i \in 1..Len(todo) : todo[i] = FlushTable(r.fam, r.tab)

\* As long as nobody interfered, what is live is what a cleanup expects.
ExpectedV1(plan, exact, doc, routing) ==
    /\ IF exact THEN routing = OwnV1(plan) ELSE Within(routing, OwnV1(plan))
    /\ IF doc = NoTable THEN routing = Nothing /\ ~exact ELSE doc = Doc("v1", plan, NoPlan, FALSE)
\* What a journal accepts as its own leftovers,
Accepts(j, doc, routing) ==
    /\ j.kind = "orphan" =>
         /\ IF doc = NoTable THEN routing = Nothing ELSE doc = j.doc
         /\ Within(routing, j.routing)
    /\ j.kind = "v1" =>
         j.pending # NoPlan \/ j.active = NoPlan \/ ExpectedV1(j.active, ~j.cleanup, doc, routing)
    /\ j.kind = "v2" /\ j.inner # NoPlan => ExpectedV1(j.inner, TRUE, doc, routing)
    /\ j.kind = "v2" /\ j.inner = NoPlan => ExpectedV2(j, doc, routing)
\* the record in memory when it is about to be unwrapped,
Wraps(r, doc, routing) ==
    r.kind = "v2" /\ r.inner # NoPlan => ExpectedV1(r.inner, TRUE, doc, routing)
\* and a call on its way.
Midway(doc, routing) ==
    /\ At("orphan", {"record", "note", "run", "drop"}) =>
         /\ job.own.doc = doc /\ job.own.routing = routing
         /\ doc = NoTable => routing = Nothing
    /\ job.pc = "drop" => routing = Nothing
    /\ At("v1", {"intent"}) => ExpectedV1(mem.record.active, ~mem.record.cleanup, doc, routing)
    /\ At("v1", {"run"}) => Covered(routing, job.todo)
    /\ At("v2", {"intent"}) => ExpectedV2(mem.record, doc, routing)
    /\ At("v2", {"verify", "run"}) => UnderWay(mem.record, doc, routing, job.todo)
Cleanable(doc, routing) ==
    Accepts(journal, doc, routing) /\ Wraps(mem.record, doc, routing) /\ Midway(doc, routing)
Undisturbed == ~hist.touched => foreign = {} /\ Cleanable(kern.doc, kern.routing)

LeftoverInv ==
    TypedLeftovers /\ Control /\ Records /\ Shares /\ Strange /\ Evidence /\ Undisturbed /\ StartsFresh

-----------------------------------------------------------------------------
(* What the values are *)

\* The records of the journals, field by field: schema 1,
LEMMA FieldsV1 ==
    ASSUME NEW a, NEW b
    PROVE  LET j == JournalV1(a, b)
           IN  /\ j.kind = "v1" /\ j.active = a /\ j.pending = b /\ j.lost = {}
               /\ j.cleanup = FALSE /\ j.inner = NoPlan /\ j.settings = {}
               /\ j.doc = NoTable /\ j.routing = Nothing
BY DEF JournalV1, NoJournal

\* schema 2,
LEMMA FieldsV2 ==
    ASSUME NEW a, NEW b, NEW l, NEW s
    PROVE  LET j == JournalV2(a, b, l, s)
           IN  /\ j.kind = "v2" /\ j.active = a /\ j.pending = b /\ j.lost = l
               /\ j.cleanup = FALSE /\ j.inner = NoPlan /\ j.settings = s
               /\ j.doc = NoTable /\ j.routing = Nothing
BY DEF JournalV2, NoJournal

\* and orphans.
LEMMA FieldsOrphan ==
    ASSUME NEW own
    PROVE  LET j == OrphanJournal(own)
           IN  /\ j.kind = "orphan" /\ j.active = NoPlan /\ j.pending = NoPlan /\ j.lost = {}
               /\ j.cleanup = FALSE /\ j.inner = NoPlan /\ j.settings = {}
               /\ j.doc = own.doc /\ j.routing = own.routing
BY DEF OrphanJournal, NoJournal

\* A document is a document, and they differ by who rendered them.
LEMMA DocTyped ==
    ASSUME NEW by \in {"none", "v1", "v2", "v3", "other"}, NEW a \in PlansOrNone,
           NEW b \in PlansOrNone, NEW g \in BOOLEAN
    PROVE  Doc(by, a, b, g) \in Docs /\ Doc(by, a, b, g).by = by
BY DEF Doc, Docs

\* Nothing, no table, an altered one and no plan are values of their kinds.
LEMMA EmptyTyped ==
    /\ NoPlan \in PlansOrNone /\ NoTable \in Docs /\ Altered \in Docs /\ Nothing \in Routings
    /\ NoTable.by = "none" /\ Altered.by = "other" /\ NoTable # Altered
    /\ NoJournal \in Journals /\ NoJob \in Jobs
<1>1. NoPlan \in PlansOrNone
  BY DEF PlansOrNone
<1>2. NoTable \in Docs /\ Altered \in Docs /\ NoTable.by = "none" /\ Altered.by = "other"
  BY <1>1 DEF NoTable, Altered, Doc, Docs
<1>3. Nothing \in Routings
  BY DEF Nothing, Routings, Parts
<1>4. NoJournal \in Journals
  <2> HIDE DEF NoPlan, NoTable, Nothing
  <2> QED BY <1>1, <1>2, <1>3 DEF NoJournal, Journals
<1>5. NoJob \in Jobs
  <2>1. <<>> \in Seq(RemovalSteps)
    OBVIOUS
  <2> QED BY <1>2, <1>3, <2>1 DEF NoJob, NoOwn, Jobs, Pcs
<1> QED BY <1>1, <1>2, <1>3, <1>4, <1>5

\* What a plan owns is routing, and schema 1 owned a part of it.
LEMMA OwnTyped ==
    ASSUME NEW plan \in PlansOrNone
    PROVE  Own(plan) \in Routings /\ OwnV1(plan) \in Routings /\ Within(OwnV1(plan), Own(plan))
<1>0. LaneCount(plan) \in Nat /\ \A t \in 1..LaneCount(plan) : plan.lanes[t] \in Lanes
  BY PlanLanes
<1>1. ASSUME NEW f \in Families, NEW t \in 1..LaneCount(plan)
      PROVE  /\ Terminal(f, t) \in Routes /\ Rule(f, t) \in Rules
             /\ Unicast(plan, f, t) \in Routes
  <2>1. plan.lanes[t].dev \in Devices /\ plan.lanes[t].via[f] \in Vias
    BY <1>0 DEF Lanes
  <2>2. t \in Nat
    BY <1>0
  <2>3. Unicast(plan, f, t) = [fam |-> f, tab |-> t, dev |-> plan.lanes[t].dev,
                               via |-> plan.lanes[t].via[f]]
    BY DEF Unicast
  <2>4. Terminal(f, t) \in Routes /\ Rule(f, t) \in Rules
    BY <2>2 DEF Terminal, Rule, Routes, Rules
  <2> DEFINE d == plan.lanes[t].dev
             v == plan.lanes[t].via[f]
  <2> HIDE DEF d, v
  <2>5. [fam |-> f, tab |-> t, dev |-> d, via |-> v] \in Routes
    BY <2>1, <2>2 DEF Routes, d, v
  <2> QED BY <2>3, <2>4, <2>5 DEF d, v
<1>2. Own(plan).routes \subseteq Routes /\ Own(plan).rules \subseteq Rules
  BY <1>1 DEF Own, LaneFamilies
<1>3. Within(OwnV1(plan), Own(plan))
  BY DEF Within, OwnV1, Own
<1>4. Own(plan) \in Routings
  BY <1>2 DEF Own, Routings, Parts
<1>5. OwnV1(plan) = [routes |-> OwnV1(plan).routes, rules |-> OwnV1(plan).rules]
  BY DEF OwnV1
<1>6. OwnV1(plan) \in Routings
  BY <1>2, <1>3, <1>5 DEF Within, Routings, Parts
<1> QED BY <1>3, <1>4, <1>6

\* What others add is what a stranger can be.
LEMMA StrangersAre ==
    /\ \A what \in {"route", "rule"}, f \in Families :
         Stranger(what, f, 1) \in Strangers /\ Stranger(what, f, 1).what = what
    /\ Stranger("table", 0, 0) \in Strangers /\ Stranger("table", 0, 0).what = "table"
    /\ \A r \in Defaults : Default(r) \in Strangers /\ Default(r).what = "default"
<1>1. \A what \in {"route", "rule"}, f \in Families :
        Stranger(what, f, 1) \in Strangers /\ Stranger(what, f, 1).what = what
  BY DEF Stranger, Strangers
<1>2. Stranger("table", 0, 0) \in Strangers /\ Stranger("table", 0, 0).what = "table"
  BY DEF Stranger, Strangers
<1>3. ASSUME NEW r \in Defaults PROVE Default(r) \in Strangers /\ Default(r).what = "default"
  <2>1. r.fam \in Families /\ r.tab \in Nat /\ r.dev \in Devices /\ r.via \in Vias \ {"none"}
    BY LeftoverAssumption
  <2>2. [what |-> "default", fam |-> r.fam, tab |-> r.tab, dev |-> r.dev, via |-> r.via] \in
          [what: {"default"}, fam: Families, tab: Nat, dev: Devices, via: Vias \ {"none"}]
    <3> DEFINE f == r.fam
               t == r.tab
               d == r.dev
               v == r.via
    <3>1. f \in Families /\ t \in Nat /\ d \in Devices /\ v \in Vias \ {"none"}
      BY <2>1
    <3> HIDE DEF f, t, d, v
    <3>2. [what |-> "default", fam |-> f, tab |-> t, dev |-> d, via |-> v] \in
            [what: {"default"}, fam: Families, tab: Nat, dev: Devices, via: Vias \ {"none"}]
      BY <3>1
    <3> QED BY <3>2 DEF f, t, d, v
  <2> QED BY <2>2 DEF Default, Strangers
<1> QED BY <1>1, <1>2, <1>3

\* What the helper reads is routing, and what it owns there is a part of it.
LEMMA SeenTyped ==
    ASSUME TypedLeftovers
    PROVE  /\ Seen \in Routings /\ Claimed \subseteq Seen.routes
           /\ Seen.routes = kern.routing.routes \cup Claimed /\ Seen.rules = kern.routing.rules
           /\ Within(kern.routing, Seen)
           /\ Empty => Bare
           /\ Seen = Nothing => kern.routing = Nothing
           /\ (\A x \in foreign : x.what # "default") => Seen = kern.routing
<1>1. kern.routing \in Routings /\ foreign \subseteq Strangers
  BY DEF TypedLeftovers
<1>2. Seen.routes = kern.routing.routes \cup Claimed /\ Seen.rules = kern.routing.rules
  BY DEF Seen
<1>3. Claimed \subseteq Routes
  <2> SUFFICES ASSUME NEW x \in foreign, x.what = "default" PROVE RouteOf(x) \in Routes
    BY DEF Claimed
  <2>1. x.fam \in Families /\ x.tab \in Nat /\ x.dev \in Devices /\ x.via \in Vias \ {"none"}
    BY <1>1 DEF Strangers
  <2> DEFINE f == x.fam
             t == x.tab
             d == x.dev
             v == x.via
  <2>2. f \in Families /\ t \in Nat /\ d \in Devices /\ v \in Vias
    BY <2>1
  <2> HIDE DEF f, t, d, v
  <2>3. [fam |-> f, tab |-> t, dev |-> d, via |-> v] \in Routes
    BY <2>2 DEF Routes
  <2> QED BY <2>3 DEF RouteOf, f, t, d, v
<1>4. kern.routing.routes \subseteq Routes /\ kern.routing.rules \subseteq Rules
  BY <1>1 DEF Routings, Parts
<1>5. Seen \in Routings
  <2> DEFINE a == kern.routing.routes \cup Claimed
             b == kern.routing.rules
  <2>1. a \in SUBSET Routes /\ b \in SUBSET Rules /\ Seen = [routes |-> a, rules |-> b]
    BY <1>3, <1>4 DEF Seen
  <2> HIDE DEF a, b
  <2> QED BY <2>1 DEF Routings, Parts
<1>6. Seen = Nothing => kern.routing = Nothing
  BY <1>1, <1>2 DEF Nothing, Routings, Parts
<1>7. (\A x \in foreign : x.what # "default") => Seen = kern.routing
  <2> SUFFICES ASSUME \A x \in foreign : x.what # "default" PROVE Seen = kern.routing
    OBVIOUS
  <2>1. Claimed = {}
    BY DEF Claimed
  <2>2. Seen.routes = kern.routing.routes
    BY <1>2, <2>1
  <2> QED BY <1>1, <1>2, <1>5, <2>2 DEF Routings, Parts
<1> QED BY <1>2, <1>5, <1>6, <1>7 DEF Within, Empty, Bare

\* A finite set laid out as a sequence has its members, each somewhere.
LEMMA LaidOut ==
    ASSUME NEW S, IsFiniteSet(S)
    PROVE  SetToSeq(S) \in Seq(S) /\ \A x \in S : \E i \in 1..Len(SetToSeq(S)) : SetToSeq(S)[i] = x
<1> DEFINE n == Cardinality(S)
           g == SetToSeq(S)
<1>1. n \in Nat /\ \E f : f \in Bijection(1..n, S)
  BY FS_CardinalityType DEF ExistsBijection
<1>2. \E f \in [1..n -> S] : IsInjective(f)
  BY <1>1 DEF Bijection, Injection, Surjection, IsInjective
<1>3. g \in [1..n -> S] /\ IsInjective(g)
  BY <1>2 DEF SetToSeq
<1> HIDE DEF g
<1>4. g \in Injection(1..n, S)
  BY <1>3 DEF Injection, IsInjective
<1>5. IsFiniteSet(1..n) /\ Cardinality(1..n) = n
  BY <1>1, FS_Interval
<1>6. g \in Surjection(1..n, S)
  BY <1>4, <1>5, FS_Injection
<1> HIDE DEF n
<1>7. g \in Seq(S) /\ Len(g) = n
  BY <1>1, <1>3
<1>8. \A x \in S : \E i \in 1..n : g[i] = x
  BY <1>6 DEF Surjection
<1> QED BY <1>7, <1>8 DEF g

\* The journals the helper writes are journals.
LEMMA JournalsTyped ==
    ASSUME NEW a \in PlansOrNone, NEW b \in PlansOrNone, NEW s \in SUBSET Devices,
           NEW own \in [doc: Docs, routing: Routings]
    PROVE  /\ JournalV1(a, b) \in Journals /\ JournalV2(a, b, {}, s) \in Journals
           /\ OrphanJournal(own) \in Journals
<1>1. NoJournal \in Journals
  BY EmptyTyped
<1> QED BY <1>1 DEF JournalV1, JournalV2, OrphanJournal, Journals

\* A journal marked for cleanup is one, and nothing else of it changes.
LEMMA Marked ==
    ASSUME NEW j \in Journals
    PROVE  LET c == [j EXCEPT !.cleanup = TRUE]
           IN  /\ c \in Journals /\ c.kind = j.kind /\ c.active = j.active /\ c.pending = j.pending
               /\ c.lost = j.lost /\ c.cleanup = TRUE /\ c.inner = j.inner
               /\ c.settings = j.settings /\ c.doc = j.doc /\ c.routing = j.routing
BY DEF Journals

\* So is a schema-2 journal that carries a schema-1 record.
LEMMA Wrapped ==
    ASSUME NEW j \in Journals, NEW p \in PlansOrNone
    PROVE  LET c == [j EXCEPT !.inner = p]
           IN  /\ c \in Journals /\ c.kind = j.kind /\ c.active = j.active /\ c.pending = j.pending
               /\ c.lost = j.lost /\ c.cleanup = j.cleanup /\ c.inner = p
               /\ c.settings = j.settings /\ c.doc = j.doc /\ c.routing = j.routing
BY DEF Journals

\* The indices of a removal order that belong to a set are finitely many, and
\* so is what is removed at them.
LEMMA FiniteImage ==
    ASSUME NEW n \in Nat, NEW I \in SUBSET (1..n), NEW F, DOMAIN F = 1..n
    PROVE  IsFiniteSet({F[i] : i \in I})
<1> DEFINE g == [i \in I |-> F[i]]
           T == {F[i] : i \in I}
<1>1. IsFiniteSet(I)
  <2>1. IsFiniteSet(1..n)
    BY FS_Interval
  <2> QED BY <2>1, FS_Subset
<1>2. g \in Surjection(I, T)
  BY DEF Surjection
<1> HIDE DEF g, T
<1> QED BY <1>1, <1>2, FS_Surjection DEF T

\* The removals of a schema-1 cleanup take away every rule and route it owns.
LEMMA StepsOfV1 ==
    ASSUME NEW plan \in PlansOrNone
    PROVE  /\ Steps(OwnV1(plan)) \in Seq(RemovalSteps)
           /\ Covered(OwnV1(plan), Steps(OwnV1(plan)))
<1> DEFINE n == LaneCount(plan)
           own == OwnV1(plan)
           I == {i \in 1..(2 * n) : HasUnicast(plan, VisitedFamily(i), VisitedTable(i))}
           D == [i \in 1..(2 * n) |-> DeleteRule(VisitedFamily(i), VisitedTable(i))]
           F == [i \in 1..(2 * n) |-> FlushTable(VisitedFamily(i), VisitedTable(i))]
           rules == {DeleteRule(r.fam, r.tab) : r \in own.rules}
           routes == {FlushTable(r.fam, r.tab) : r \in own.routes}
<1>0. n \in Nat /\ 2 * n \in Nat
  BY PlanLanes
<1>1. \A r \in own.rules \cup own.routes : r.fam \in Families /\ r.tab \in 1..n
  BY DEF OwnV1, LaneFamilies, Rule, Unicast
<1>2. \A r \in own.rules \cup own.routes : HasUnicast(plan, r.fam, r.tab)
  BY DEF OwnV1, LaneFamilies, Rule, Unicast
<1> HIDE DEF own, n
<1>3. \A r \in own.rules \cup own.routes :
          \E i \in I : r.fam = VisitedFamily(i) /\ r.tab = VisitedTable(i)
  <2> SUFFICES ASSUME NEW r \in own.rules \cup own.routes
               PROVE  \E i \in I : r.fam = VisitedFamily(i) /\ r.tab = VisitedTable(i)
    OBVIOUS
  <2>1. r.fam \in Families /\ r.tab \in 1..n /\ HasUnicast(plan, r.fam, r.tab)
    BY <1>1, <1>2
  <2>2. PICK i \in 1..(2 * n) : VisitedFamily(i) = r.fam /\ VisitedTable(i) = r.tab
    BY <1>0, <2>1, RemovalIndex
  <2> QED BY <2>1, <2>2
<1>4. IsFiniteSet({D[i] : i \in I}) /\ IsFiniteSet({F[i] : i \in I})
  <2> DEFINE m == 2 * n
  <2>1. m \in Nat /\ I \in SUBSET (1..m) /\ DOMAIN D = 1..m /\ DOMAIN F = 1..m
    BY <1>0
  <2> HIDE DEF m, I, D, F
  <2> QED BY <2>1, FiniteImage
<1>5. rules \subseteq {D[i] : i \in I} /\ routes \subseteq {F[i] : i \in I}
  BY <1>3
<1>6. rules \subseteq RemovalSteps /\ routes \subseteq RemovalSteps
  <2>1. \A r \in own.rules \cup own.routes : r.fam \in Families /\ r.tab \in Nat
    BY <1>0, <1>1
  <2> QED BY <2>1 DEF RemovalSteps
<1> HIDE DEF I, D, F
<1>7. IsFiniteSet(rules) /\ IsFiniteSet(routes)
  BY <1>4, <1>5, FS_Subset
<1> DEFINE a == SetToSeq(rules)
           b == SetToSeq(routes)
<1>8. /\ a \in Seq(rules) /\ \A x \in rules : \E i \in 1..Len(a) : a[i] = x
      /\ b \in Seq(routes) /\ \A x \in routes : \E i \in 1..Len(b) : b[i] = x
  <2> HIDE DEF rules, routes
  <2> QED BY <1>7, LaidOut
<1>9. Steps(own) = a \o b
  BY DEF Steps
<1>10. a \in Seq(RemovalSteps) /\ b \in Seq(RemovalSteps)
  <2> HIDE DEF a, b, rules, routes
  <2> QED BY <1>6, <1>8
<1>11. /\ \A r \in own.rules : \E i \in 1..Len(a) : a[i] = DeleteRule(r.fam, r.tab)
       /\ \A r \in own.routes : \E i \in 1..Len(b) : b[i] = FlushTable(r.fam, r.tab)
  <2> HIDE DEF a, b
  <2> QED BY <1>8
<1> HIDE DEF a, b, rules, routes
<1>12. a \o b \in Seq(RemovalSteps)
  BY <1>10
<1>13. Covered(own, a \o b)
  <2>1. ASSUME NEW r \in own.rules
        PROVE  \E i \in 1..Len(a \o b) : (a \o b)[i] = DeleteRule(r.fam, r.tab)
    <3>1. PICK i \in 1..Len(a) : a[i] = DeleteRule(r.fam, r.tab)
      BY <1>11
    <3>2. i \in 1..Len(a \o b) /\ (a \o b)[i] = a[i]
      BY <1>10
    <3> QED BY <3>1, <3>2
  <2>2. ASSUME NEW r \in own.routes
        PROVE  \E i \in 1..Len(a \o b) : (a \o b)[i] = FlushTable(r.fam, r.tab)
    <3>1. PICK i \in 1..Len(b) : b[i] = FlushTable(r.fam, r.tab)
      BY <1>11
    <3>2. Len(a) + i \in 1..Len(a \o b) /\ (a \o b)[Len(a) + i] = b[i]
      BY <1>10
    <3> QED BY <3>1, <3>2
  <2> QED BY <2>1, <2>2 DEF Covered
<1> QED BY <1>9, <1>12, <1>13 DEF own

\* What removals leave of routing is routing.
LEMMA RemovalTyped ==
    ASSUME NEW live \in Routings, NEW step \in RemovalSteps
    PROVE  ApplyRoutingStep(live, step) \in Routings /\ Within(ApplyRoutingStep(live, step), live)
BY RemovalStays DEF Routings

-----------------------------------------------------------------------------
(* Types *)

Mems == [init: BOOLEAN, record: Journals]
Bounds == [faults: Nat, others: Nat, done: BOOLEAN]
Histories ==
    [touched: BOOLEAN, fresh: SUBSET Strangers, owed: BOOLEAN, gone: SUBSET Devices,
     reported: BOOLEAN]

\* A job goes on with another step, or ends.
LEMMA JobTyped ==
    ASSUME job \in Jobs
    PROVE  /\ NoJob \in Jobs
           /\ \A pc \in Pcs : [job EXCEPT !.pc = pc] \in Jobs
           /\ \A op \in {"none", "orphan", "v1", "v2"}, pc \in Pcs,
                 then \in {"end", "forget", "capture", "activate"} :
                [NoJob EXCEPT !.op = op, !.pc = pc, !.then = then] \in Jobs
<1>1. NoJob \in Jobs
  BY EmptyTyped
<1> QED BY <1>1 DEF Jobs

\* A save leaves a journal, and the memory and job it is given or those of a failure.
LEMMA SaveTyped ==
    ASSUME TypedLeftovers, NEW j \in Journals, NEW memory \in Mems, NEW next \in Jobs,
           Save(j, memory, next)
    PROVE  journal' \in Journals /\ mem' \in Mems /\ job' \in Jobs /\ used' \in Bounds
           /\ hist' \in Histories
<1>1. journal \in Journals /\ mem \in Mems /\ job \in Jobs /\ used \in Bounds /\ hist \in Histories
  BY DEF TypedLeftovers, Mems, Bounds, Histories
<1>2. journal' \in Journals /\ mem' \in Mems /\ job' \in Jobs
  BY <1>1, JobTyped DEF Save, Refuse
<1>3. used' \in Bounds
  BY <1>1 DEF Save, Bounds
<1>4. hist' \in Histories
  <2>1. \A owed \in BOOLEAN : [hist EXCEPT !.owed = owed] \in Histories
    BY <1>1 DEF Histories
  <2>2. hist.owed \in BOOLEAN
    BY <1>1 DEF Histories
  <2>3. \E owed \in BOOLEAN : hist' = [hist EXCEPT !.owed = owed]
    BY <2>2 DEF Save
  <2> QED BY <2>1, <2>3
<1> QED BY <1>2, <1>3, <1>4

\* A removal leaves routing, and some of what is foreign.
LEMMA RemovedTyped ==
    ASSUME TypedLeftovers, NEW step \in RemovalSteps, Removed(step)
    PROVE  /\ kern' \in [doc: Docs, routing: Routings, svm: SUBSET Devices]
           /\ foreign' \subseteq foreign
           /\ kern'.doc = kern.doc /\ kern'.svm = kern.svm
           /\ kern'.routing = ApplyRoutingStep(kern.routing, step)
           /\ Within(kern'.routing, kern.routing)
<1>1. kern \in [doc: Docs, routing: Routings, svm: SUBSET Devices]
  BY DEF TypedLeftovers
<1> DEFINE after == ApplyRoutingStep(kern.routing, step)
<1>2. after \in Routings /\ Within(after, kern.routing)
  BY <1>1, RemovalTyped
<1>3. kern' = [kern EXCEPT !.routing = after] /\ foreign' \subseteq foreign
  BY DEF Removed, Flushed
<1> HIDE DEF after
<1>4. /\ kern' \in [doc: Docs, routing: Routings, svm: SUBSET Devices]
      /\ kern'.doc = kern.doc /\ kern'.svm = kern.svm /\ kern'.routing = after
  BY <1>1, <1>2, <1>3
<1> QED BY <1>2, <1>3, <1>4 DEF after

\* A dropped table is no table, and nothing foreign in it is left.
LEMMA DroppedTyped ==
    ASSUME TypedLeftovers, DropTable
    PROVE  /\ kern' \in [doc: Docs, routing: Routings, svm: SUBSET Devices]
           /\ foreign' = {x \in foreign : x.what # "table"}
           /\ kern'.doc = NoTable /\ kern'.svm = kern.svm /\ kern'.routing = kern.routing
BY EmptyTyped DEF DropTable, TypedLeftovers

\* What the helper takes into memory is a journal.
LEMMA AdoptedTyped ==
    ASSUME TypedLeftovers
    PROVE  /\ Adopted \in Mems /\ Reconciled \in Mems
           /\ Adopted.init = TRUE /\ Reconciled.init = TRUE
           /\ Adopted.record = IF Legacy(journal) THEN journal
                               ELSE IF journal.kind = "none" THEN mem.record ELSE NoJournal
<1>1. journal \in Journals /\ mem \in Mems /\ NoJournal \in Journals
  BY EmptyTyped DEF TypedLeftovers, Mems
<1> DEFINE r == IF Legacy(journal) THEN journal
                ELSE IF journal.kind = "none" THEN mem.record ELSE NoJournal
<1>2. r \in Journals
  BY <1>1 DEF Mems
<1>3. Adopted = [init |-> TRUE, record |-> r]
  BY DEF Adopted
<1> HIDE DEF r
<1>4. Adopted \in Mems /\ Adopted.init = TRUE /\ Adopted.record = r
  BY <1>2, <1>3 DEF Mems
<1>5. Reconciled \in Mems /\ Reconciled.init = TRUE
  BY <1>1, <1>4 DEF Reconciled, Mems
<1> QED BY <1>4, <1>5 DEF r

\* Routing of an orphan is removed by removal steps: rules first, then tables.
LEMMA OrphanStep ==
    ASSUME NEW own \in Routings, own # Nothing
    PROVE  LET rule == CHOOSE r \in own.rules : TRUE
               route == CHOOSE r \in own.routes : TRUE
           IN  (IF own.rules # {} THEN DeleteRule(rule.fam, rule.tab)
                ELSE FlushTable(route.fam, route.tab)) \in RemovalSteps
<1>1. own = [routes |-> own.routes, rules |-> own.rules] /\ own.routes \subseteq Routes
      /\ own.rules \subseteq Rules
  BY DEF Routings, Parts
<1>2. own.rules # {} \/ own.routes # {}
  BY <1>1 DEF Nothing
<1> DEFINE rule == CHOOSE r \in own.rules : TRUE
           route == CHOOSE r \in own.routes : TRUE
<1>3. CASE own.rules # {}
  <2>1. rule \in Rules
    BY <1>1, <1>3
  <2> HIDE DEF rule
  <2>2. rule.fam \in Families /\ rule.tab \in Nat
    BY <2>1 DEF Rules
  <2>3. DeleteRule(rule.fam, rule.tab) \in RemovalSteps
    BY <2>2 DEF RemovalSteps
  <2> QED BY <1>3, <2>3 DEF rule
<1>4. CASE own.rules = {}
  <2>1. route \in Routes
    BY <1>1, <1>2, <1>4
  <2> HIDE DEF route
  <2>2. route.fam \in Families /\ route.tab \in Nat
    BY <2>1 DEF Routes
  <2>3. FlushTable(route.fam, route.tab) \in RemovalSteps
    BY <2>2 DEF RemovalSteps
  <2> QED BY <1>4, <2>3 DEF route
<1> QED BY <1>3, <1>4

\* The head of a list of removals is one, and its tail a list of them.
LEMMA HeadTail ==
    ASSUME NEW S, NEW s \in Seq(S), s # <<>>
    PROVE  Head(s) \in S /\ Tail(s) \in Seq(S) /\ Head(s) = s[1]
OBVIOUS

\* Every step keeps the types.
LEMMA TypesKept ==
    ASSUME TypedLeftovers, Control, Records, [Next]_vars
    PROVE  TypedLeftovers'
<1> DEFINE Kerns == [doc: Docs, routing: Routings, svm: SUBSET Devices]
           Typed == /\ journal' \in Journals /\ mem' \in Mems /\ kern' \in Kerns
                    /\ foreign' \subseteq Strangers /\ job' \in Jobs /\ used' \in Bounds
                    /\ hist' \in Histories
<1>0. /\ journal \in Journals /\ mem \in Mems /\ kern \in Kerns
      /\ foreign \subseteq Strangers /\ job \in Jobs /\ used \in Bounds
      /\ hist \in Histories
  BY DEF TypedLeftovers, Mems, Bounds, Histories
<1>j. /\ NoJob \in Jobs /\ \A pc \in Pcs : [job EXCEPT !.pc = pc] \in Jobs
      /\ \A op \in {"none", "orphan", "v1", "v2"}, pc \in Pcs,
            then \in {"end", "forget", "capture", "activate"} :
           [NoJob EXCEPT !.op = op, !.pc = pc, !.then = then] \in Jobs
  BY <1>0, JobTyped
<1>a. Adopted \in Mems /\ Reconciled \in Mems
  BY AdoptedTyped
<1>v. Verified => hist' \in Histories
  BY <1>0 DEF Verified, Histories
<1>p. {"idle", "load", "capture", "record", "note", "run", "drop", "final", "clear",
       "activate", "check", "intent", "verify", "settle"} \subseteq Pcs
  BY DEF Pcs
<1> SUFFICES Typed
  BY DEF TypedLeftovers, Mems, Bounds, Histories
<1> HIDE DEF Typed
<1>1. CASE UNCHANGED vars
  BY <1>0, <1>1 DEF Typed, vars
<1>2. CASE Inspect \/ Cleanup \/ Recover \/ Refresh \/ Activate
  <2>1. mem' \in Mems
    BY <1>0, <1>2, <1>a DEF Inspect, Cleanup, Recover, Refresh, Activate
  <2>2. job' \in Jobs
    <3>1. ASSUME NEW op \in {"none", "orphan", "v1", "v2"},
                 NEW pc \in {"load", "check", "clear", "capture", "activate"},
                 NEW then \in {"end", "forget", "capture", "activate"}, Begin(op, pc, then)
          PROVE  job' \in Jobs
      <4>1. pc \in Pcs
        BY <1>p
      <4>2. [NoJob EXCEPT !.op = op, !.pc = pc, !.then = then] \in Jobs
        BY <1>j, <4>1, Zenon
      <4> QED BY <3>1, <4>2 DEF Begin
    <3>2. \/ UNCHANGED job
          \/ \E op \in {"none", "orphan", "v1", "v2"}, pc \in {"load", "check", "clear", "capture", "activate"},
                then \in {"end", "forget", "capture", "activate"} : Begin(op, pc, then)
      BY <1>2 DEF Inspect, Cleanup, Recover, Refresh, Activate
    <3> QED BY <1>0, <3>1, <3>2
  <2>3. Still
    BY <1>2 DEF Inspect, Cleanup, Recover, Refresh, Activate
  <2> QED BY <1>0, <2>1, <2>2, <2>3 DEF Typed, Still
<1>3. CASE Activates
  <2>1. used' \in Bounds
    BY <1>0, <1>3 DEF Activates, Bounds
  <2> QED BY <1>0, <1>3, <1>j, <2>1 DEF Typed, Activates, Refuse
<1>4. CASE Capture \/ Load
  <2>1. [doc |-> kern.doc, routing |-> Seen] \in [doc: Docs, routing: Routings]
    BY <1>0, SeenTyped
  <2>2. \A own \in [doc: Docs, routing: Routings], pc \in Pcs :
            [job EXCEPT !.pc = pc, !.own = own] \in Jobs
    BY <1>0 DEF Jobs
  <2> DEFINE own == [doc |-> kern.doc, routing |-> Seen]
  <2>3. [job EXCEPT !.pc = "record", !.own = own] \in Jobs /\ [job EXCEPT !.pc = "note", !.own = own] \in Jobs
    <3>1. own \in [doc: Docs, routing: Routings] /\ "record" \in Pcs /\ "note" \in Pcs
      BY <2>1, <1>p
    <3> HIDE DEF own
    <3> QED BY <2>2, <3>1
  <2>4. job' \in Jobs
    BY <1>4, <2>3, <1>j DEF Capture, Load, Refuse
  <2> QED BY <1>0, <1>4, <1>v, <2>4 DEF Typed, Capture, Load
<1>5. CASE Record \/ Note
  <2>1. job.own \in [doc: Docs, routing: Routings]
    BY <1>0 DEF Jobs
  <2>2. OrphanJournal(job.own) \in Journals
    BY <2>1, EmptyTyped, JournalsTyped
  <2>3. [job EXCEPT !.pc = "load"] \in Jobs /\ [job EXCEPT !.pc = "run"] \in Jobs
    BY <1>j, <1>p
  <2>4. journal' \in Journals /\ mem' \in Mems /\ job' \in Jobs /\ used' \in Bounds /\ hist' \in Histories
    BY <1>0, <1>5, <2>2, <2>3, SaveTyped DEF Record, Note
  <2> QED BY <1>0, <1>5, <2>4 DEF Typed, Record, Note
<1>6. CASE RemoveOrphan
  <2> DEFINE own == job.own.routing
             rule == CHOOSE r \in own.rules : TRUE
             route == CHOOSE r \in own.routes : TRUE
             step == IF own.rules # {} THEN DeleteRule(rule.fam, rule.tab)
                     ELSE FlushTable(route.fam, route.tab)
  <2>1. CASE own # Nothing
    <3>1. own \in Routings
      BY <1>0 DEF Jobs
    <3>2. step \in RemovalSteps
      BY <2>1, <3>1, OrphanStep
    <3>3. /\ Removed(step) /\ UNCHANGED <<journal, mem, used, hist>>
          /\ job' = [job EXCEPT !.pc = "note", !.own.routing = ApplyRoutingStep(@, step)]
      BY <1>6, <2>1 DEF RemoveOrphan
    <3> HIDE DEF step
    <3>4. ApplyRoutingStep(own, step) \in Routings
      BY <3>1, <3>2, RemovalTyped
    <3>5. job' \in Jobs
      BY <1>0, <3>3, <3>4 DEF Jobs, Pcs
    <3>6. kern' \in Kerns /\ foreign' \subseteq foreign
      BY <3>2, <3>3, RemovedTyped
    <3> QED BY <1>0, <3>3, <3>5, <3>6 DEF Typed
  <2>2. CASE own = Nothing
    <3>1. job' \in Jobs
      BY <1>6, <2>2, <1>j, <1>p DEF RemoveOrphan, Goto, Refuse
    <3> QED BY <1>0, <1>6, <2>2, <3>1 DEF Typed, RemoveOrphan
  <2> QED BY <2>1, <2>2
<1>7. CASE DropOrphan \/ DropLegacy
  <2>1. kern' \in Kerns /\ foreign' \subseteq foreign
    BY <1>7, DroppedTyped DEF DropOrphan, DropLegacy
  <2>2. job' \in Jobs
    <3>1. [job EXCEPT !.pc = "note", !.own.doc = NoTable] \in Jobs
      BY <1>0, EmptyTyped DEF Jobs, Pcs
    <3> QED BY <1>7, <3>1, <1>j, <1>p DEF DropOrphan, DropLegacy, Goto
  <2> QED BY <1>0, <1>7, <2>1, <2>2 DEF Typed, DropOrphan, DropLegacy
<1>8. CASE CheckV1 \/ VerifyV1
  <2>1. [job EXCEPT !.pc = "intent", !.own.doc = kern.doc] \in Jobs
    BY <1>0 DEF Jobs, Pcs
  <2>2. job' \in Jobs
    BY <1>8, <2>1, <1>j, <1>p DEF CheckV1, VerifyV1, Goto, Refuse
  <2>3. hist' \in Histories
    BY <1>0, <1>8, <1>v DEF CheckV1, VerifyV1
  <2> QED BY <1>0, <1>8, <2>2, <2>3 DEF Typed, CheckV1, VerifyV1
<1>9. CASE IntentV1
  <2>1. mem.record \in Journals /\ mem.record.active \in PlansOrNone
    BY <1>0 DEF Mems, Journals
  <2>2. [mem.record EXCEPT !.cleanup = TRUE] \in Journals
    BY <2>1, Marked
  <2>3. Steps(OwnV1(mem.record.active)) \in Seq(RemovalSteps)
    BY <2>1, StepsOfV1
  <2>4. [job EXCEPT !.pc = "run", !.todo = Steps(OwnV1(mem.record.active))] \in Jobs
    BY <1>0, <2>3 DEF Jobs, Pcs
  <2>5. journal' \in Journals /\ mem' \in Mems /\ job' \in Jobs /\ used' \in Bounds /\ hist' \in Histories
    BY <1>0, <1>9, <2>2, <2>4, SaveTyped DEF IntentV1
  <2> QED BY <1>0, <1>9, <2>5 DEF Typed, IntentV1
<1>10. CASE RemoveV1 \/ RemoveV2
  <2>1. job.todo \in Seq(RemovalSteps) /\ job.todo # <<>>
    BY <1>0, <1>10 DEF Jobs, RemoveV1, RemoveV2, Control, At
  <2>2. Head(job.todo) \in RemovalSteps /\ Tail(job.todo) \in Seq(RemovalSteps)
    BY <2>1, HeadTail
  <2>3. [job EXCEPT !.todo = Tail(@)] \in Jobs /\ [job EXCEPT !.pc = "verify", !.todo = Tail(@)] \in Jobs
    BY <1>0, <2>2 DEF Jobs, Pcs
  <2>4. job' \in Jobs
    BY <1>10, <2>3, <1>j DEF RemoveV1, RemoveV2, Refuse
  <2>5. kern' \in Kerns /\ foreign' \subseteq foreign
    BY <1>0, <1>10, <2>2, RemovedTyped DEF RemoveV1, RemoveV2
  <2> QED BY <1>0, <1>10, <2>4, <2>5 DEF Typed, RemoveV1, RemoveV2
<1>11. CASE Unwrap
  <2> DEFINE v1 == JournalV1(mem.record.inner, NoPlan)
  <2>1. v1 \in Journals
    <3>1. mem.record.inner \in PlansOrNone /\ NoPlan \in PlansOrNone
      BY <1>0, EmptyTyped DEF Mems, Journals
    <3>2. NoOwn \in [doc: Docs, routing: Routings]
      BY EmptyTyped DEF NoOwn
    <3> QED BY <3>1, <3>2, JournalsTyped
  <2> HIDE DEF v1
  <2>2. [mem EXCEPT !.record = v1] \in Mems /\ [job EXCEPT !.op = "v1"] \in Jobs
    BY <1>0, <2>1 DEF Mems, Jobs
  <2>3. Save(v1, [mem EXCEPT !.record = v1], [job EXCEPT !.op = "v1"])
    BY <1>11 DEF Unwrap, v1
  <2>4. journal' \in Journals /\ mem' \in Mems /\ job' \in Jobs /\ used' \in Bounds /\ hist' \in Histories
    BY <2>1, <2>2, <2>3, SaveTyped
  <2> QED BY <1>0, <1>11, <2>4 DEF Typed, Unwrap
<1>12. CASE CheckV2 \/ VerifyV2 \/ Final
  <2>1. job' \in Jobs
    BY <1>12, <1>j, <1>p DEF CheckV2, VerifyV2, Final, Goto, Refuse
  <2>2. hist' \in Histories
    BY <1>12, <1>v DEF CheckV2, VerifyV2, Final
  <2> QED BY <1>0, <1>12, <2>1, <2>2 DEF Typed, CheckV2, VerifyV2, Final
<1>13. CASE IntentV2
  <2> DEFINE r == [mem.record EXCEPT !.cleanup = TRUE]
             todo == RollbackRemovals(r.active, r.pending)
  <2>1. mem.record \in Journals
    BY <1>0 DEF Mems
  <2>2. r \in Journals
    BY <2>1, Marked
  <2>3. Save(r, [mem EXCEPT !.record = r], [job EXCEPT !.pc = "verify", !.todo = todo])
    BY <1>13 DEF IntentV2
  <2> HIDE DEF r
  <2>4. r.active \in PlansOrNone /\ r.pending \in PlansOrNone
    BY <2>2 DEF Journals
  <2>5. todo \in Seq(RemovalSteps)
    BY <2>4, PlanLanes, RollbackStepsAre
  <2> HIDE DEF todo
  <2>6. [mem EXCEPT !.record = r] \in Mems /\ [job EXCEPT !.pc = "verify", !.todo = todo] \in Jobs
    BY <1>0, <2>2, <2>5 DEF Mems, Jobs, Pcs
  <2>7. journal' \in Journals /\ mem' \in Mems /\ job' \in Jobs /\ used' \in Bounds /\ hist' \in Histories
    BY <2>2, <2>3, <2>6, SaveTyped
  <2> QED BY <1>0, <1>13, <2>7 DEF Typed, IntentV2
<1>14. CASE Settle
  <2>1. kern' \in Kerns
    BY <1>0, <1>14 DEF Settle
  <2>2. used' \in Bounds
    BY <1>0, <1>14 DEF Settle, Bounds
  <2>3. hist' \in Histories
    BY <1>0, <1>14 DEF Settle, Histories
  <2>4. job' \in Jobs
    BY <1>14, <1>j, <1>p DEF Settle, Goto
  <2> QED BY <1>0, <1>14, <2>1, <2>2, <2>3, <2>4 DEF Typed, Settle
<1>15. CASE Clear
  <2> DEFINE after == IF job.then \in {"capture", "activate"}
                      THEN [job EXCEPT !.pc = job.then, !.then = "end"] ELSE NoJob
  <2>1. after \in Jobs
    <3>1. \A pc \in {"capture", "activate"} : [job EXCEPT !.pc = pc, !.then = "end"] \in Jobs
      BY <1>0 DEF Jobs, Pcs
    <3> QED BY <1>j, <3>1
  <2>2. Save(NoJournal, [init |-> TRUE, record |-> NoJournal], after)
    BY <1>15 DEF Clear
  <2> HIDE DEF after
  <2>3. [init |-> TRUE, record |-> NoJournal] \in Mems /\ NoJournal \in Journals
    BY EmptyTyped DEF Mems
  <2>4. journal' \in Journals /\ mem' \in Mems /\ job' \in Jobs /\ used' \in Bounds /\ hist' \in Histories
    BY <2>1, <2>2, <2>3, SaveTyped
  <2> QED BY <1>0, <1>15, <2>4 DEF Typed, Clear
<1>16. CASE CommandFails \/ Crash
  <2>1. mem' \in Mems
    <3>1. NoMemory \in Mems
      BY EmptyTyped DEF NoMemory, Mems
    <3> QED BY <1>0, <1>16, <3>1 DEF CommandFails, Crash
  <2>2. used' \in Bounds
    BY <1>0, <1>16 DEF CommandFails, Crash, Fault, Bounds
  <2> QED BY <1>0, <1>16, <1>j, <2>1, <2>2 DEF Typed, CommandFails, Crash, Refuse
<1>17. CASE Undo
  <2>1. hist' \in Histories
    BY <1>0, <1>17 DEF Undo, Histories
  <2> QED BY <1>0, <1>17, <2>1 DEF Typed, Undo
<1>18. ASSUME NEW what \in Disturbances, Other(what) PROVE Typed
  <2>1. used' \in Bounds
    <3>1. used' = [used EXCEPT !.others = @ + 1]
      BY <1>18 DEF Other
    <3> QED BY <1>0, <3>1 DEF Bounds
  <2>2. \A x \in Strangers : foreign \cup {x} \subseteq Strangers
    BY <1>0
  <2>3. \A x \in Strangers : [hist EXCEPT !.touched = TRUE, !.fresh = @ \cup {x}] \in Histories
    BY <1>0 DEF Histories
  <2>4. \A dev \in Devices : [hist EXCEPT !.touched = TRUE, !.gone = @ \cup {dev}] \in Histories
    BY <1>0 DEF Histories
  <2>5. CASE what \in {"route", "rule"}
    <3>1. \A f \in Families : Stranger(what, f, 1) \in Strangers
      BY <2>5, StrangersAre
    <3>2. hist' \in Histories /\ foreign' \subseteq Strangers /\ kern' = kern
      BY <1>18, <2>2, <2>3, <2>5, <3>1 DEF Other
    <3> QED BY <1>0, <1>18, <2>1, <3>2 DEF Typed, Other
  <2>8. CASE what = "default"
    <3>1. PICK r \in Defaults : /\ foreign' = foreign \cup {Default(r)} /\ kern' = kern
                                /\ hist' = [hist EXCEPT !.touched = TRUE, !.fresh = @ \cup {Default(r)}]
      BY <1>18, <2>8 DEF Other
    <3>2. hist' \in Histories /\ foreign' \subseteq Strangers /\ kern' = kern
      BY <2>2, <2>3, <3>1, StrangersAre
    <3> QED BY <1>0, <1>18, <2>1, <3>2 DEF Typed, Other
  <2>6. CASE what = "table"
    <3>1. Stranger(what, 0, 0) \in Strangers
      BY <2>6, StrangersAre
    <3>2. hist' \in Histories /\ foreign' \subseteq Strangers /\ kern' = [kern EXCEPT !.doc = Altered]
      BY <1>18, <2>2, <2>3, <2>6, <3>1 DEF Other
    <3>3. kern' \in Kerns
      BY <1>0, <3>2, EmptyTyped
    <3> QED BY <1>0, <1>18, <2>1, <3>2, <3>3 DEF Typed, Other
  <2>7. CASE what = "link"
    <3>1. PICK dev \in Devices :
              /\ kern' = [kern EXCEPT !.routing.routes = {r \in @ : r.dev # dev}]
              /\ hist' = [hist EXCEPT !.touched = TRUE, !.gone = @ \cup {dev}]
      BY <1>18, <2>7 DEF Other
    <3>2. kern' \in Kerns
      BY <1>0, <3>1 DEF Routings, Parts
    <3>3. foreign' \subseteq foreign
      BY <1>18, <2>7 DEF Other
    <3> QED BY <1>0, <1>18, <2>1, <2>4, <3>1, <3>2, <3>3 DEF Typed, Other
  <2> QED BY <1>18, LeftoverAssumption, <2>5, <2>6, <2>7, <2>8 DEF AllDisturbances
<1> QED
  BY <1>1, <1>2, <1>3, <1>4, <1>5, <1>6, <1>7, <1>8, <1>9, <1>10, <1>11, <1>12, <1>13, <1>14, <1>15,
     <1>16, <1>17, <1>18 DEF Next, Helper, HandedOver

-----------------------------------------------------------------------------
(* Control *)

\* A fresh job, and a job that moves on: which fields they have.
LEMMA JobFields ==
    ASSUME job \in Jobs
    PROVE  /\ NoJob.op = "none" /\ NoJob.pc = "idle" /\ NoJob.then = "end" /\ NoJob.todo = <<>>
           /\ \A op, pc, then :
                LET next == [NoJob EXCEPT !.op = op, !.pc = pc, !.then = then]
                IN  next.op = op /\ next.pc = pc /\ next.then = then /\ next.todo = <<>>
           /\ \A pc : LET next == [job EXCEPT !.pc = pc]
                      IN  /\ next.op = job.op /\ next.pc = pc /\ next.then = job.then
                          /\ next.own = job.own /\ next.todo = job.todo
BY DEF NoJob, Jobs

\* The fields of a job that was just begun, that ended, or that moved on.
LEMMA BegunJob ==
    ASSUME job \in Jobs, NEW op, NEW pc, NEW then, Begin(op, pc, then)
    PROVE  job'.op = op /\ job'.pc = pc /\ job'.then = then /\ job'.todo = <<>>
BY DEF Begin, NoJob

\* A job that is refused is no job.
LEMMA RefusedJob ==
    ASSUME job \in Jobs, job' = NoJob
    PROVE  job'.op = "none" /\ job'.pc = "idle" /\ job'.then = "end" /\ job'.todo = <<>>
BY DEF NoJob

\* A job that goes to a step is otherwise the same.
LEMMA MovedJob ==
    ASSUME job \in Jobs, NEW pc, Goto(pc)
    PROVE  /\ job'.op = job.op /\ job'.pc = pc /\ job'.then = job.then /\ job'.own = job.own
           /\ job'.todo = job.todo
BY DEF Goto, Jobs

\* The record a call finds in memory when it begins.
LEMMA AdoptedIs ==
    ASSUME TypedLeftovers, Control, Records
    PROVE  /\ Legacy(journal) => Adopted.record = journal
           /\ journal.kind = "none" => Adopted.record = mem.record
           /\ journal.kind = "orphan" => Adopted.record = NoJournal
           /\ Adopted.record.kind \in {"none", "v1", "v2"}
           /\ NoJournal.kind = "none" /\ NoJournal.doc = NoTable /\ NoJournal.routing = Nothing
           /\ NoJournal.inner = NoPlan
<1>1. journal.kind \in {"none", "orphan", "v1", "v2"}
  BY DEF TypedLeftovers, Journals
<1>2. NoJournal.kind = "none" /\ NoJournal.doc = NoTable /\ NoJournal.routing = Nothing
      /\ NoJournal.inner = NoPlan
  BY DEF NoJournal
<1> QED BY <1>1, <1>2, AdoptedTyped DEF Legacy, Records, Remembered

\* A call is always at a step of its kind.
LEMMA ControlKept ==
    ASSUME TypedLeftovers, Control, Records, [Next]_vars
    PROVE  Control'
<1>0. job \in Jobs /\ mem \in Mems /\ job.op \in {"none", "orphan", "v1", "v2"}
  BY DEF TypedLeftovers, Mems, Jobs
<1>1. CASE UNCHANGED vars
  BY <1>1 DEF Control, At, vars
<1>2. CASE job' = NoJob
  BY <1>0, <1>2, RefusedJob DEF Control, At
<1>3. CASE Inspect
  BY <1>3 DEF Inspect, Idle, NoJob, Control, At
<1>4. CASE Cleanup
  <2>1. mem' = Adopted
    BY <1>4 DEF Cleanup
  <2>2. CASE journal.kind = "orphan"
    <3>1. mem'.record.kind = "none"
      BY <2>1, <2>2, AdoptedIs
    <3>2. Begin("orphan", "load", "forget")
      BY <1>4, <2>2, <3>1 DEF Cleanup
    <3> QED BY <1>0, <3>2, BegunJob DEF Control, At
  <2>3. CASE journal.kind # "orphan" /\ mem'.record.kind = "v2"
    <3>1. Begin("v2", "check", "end")
      BY <1>4, <2>3 DEF Cleanup
    <3> QED BY <1>0, <2>3, <3>1, BegunJob DEF Control, At
  <2>4. CASE journal.kind # "orphan" /\ mem'.record.kind = "v1"
    <3>1. Begin("v1", "check", "end")
      BY <1>4, <2>4 DEF Cleanup
    <3> QED BY <1>0, <2>4, <3>1, BegunJob DEF Control, At
  <2>5. CASE journal.kind # "orphan" /\ mem'.record.kind \notin {"v1", "v2"}
    <3>1. Begin("none", "clear", "end")
      BY <1>4, <2>5 DEF Cleanup
    <3> QED BY <1>0, <3>1, BegunJob DEF Control, At
  <2> QED BY <2>2, <2>3, <2>4, <2>5
<1>5. CASE Recover
  <2>1. CASE UNCHANGED job
    BY <1>5, <2>1 DEF Recover, Idle, NoJob, Control, At
  <2>2. CASE Begin("orphan", "load", "capture") \/ Begin("orphan", "capture", "end")
    BY <1>0, <2>2, BegunJob DEF Control, At
  <2> QED BY <1>5, <2>1, <2>2 DEF Recover
<1>6. CASE Refresh
  <2>1. CASE UNCHANGED job
    BY <1>6, <2>1 DEF Refresh, Idle, NoJob, Control, At
  <2>2. CASE Begin("orphan", "load", "end")
    BY <1>0, <2>2, BegunJob DEF Control, At
  <2> QED BY <1>6, <2>1, <2>2 DEF Refresh
<1>7. CASE Activate
  <2>1. Begin("orphan", "load", "activate") \/ Begin("none", "activate", "end")
    BY <1>7 DEF Activate
  <2> QED BY <1>0, <2>1, BegunJob DEF Control, At
<1>8. CASE Activates \/ CommandFails \/ Crash
  BY <1>2, <1>8 DEF Activates, CommandFails, Crash, Refuse
<1>9. ASSUME job' # NoJob, mem' = mem, NEW pc, Goto(pc),
             \/ job.op = "orphan" /\ pc \in {"load", "run", "drop", "final"}
             \/ job.op = "v1" /\ pc \in {"intent", "drop", "final", "clear"} /\ job.todo = <<>>
             \/ job.op = "v2" /\ pc \in {"intent", "drop", "final", "settle", "clear"} /\ job.todo = <<>>
             \/ job.op = "v2" /\ pc = "run" /\ job.todo # <<>>
             \/ job.op = "orphan" /\ pc = "clear"
      PROVE  Control'
  BY <1>0, <1>9, MovedJob DEF Control, At
<1>10. CASE (Capture \/ Load) /\ job' # NoJob
  <2>1. job.op = "orphan"
    BY <1>0, <1>10 DEF Capture, Load, Control
  <2>2. job'.op = job.op /\ job'.pc \in {"record", "note"} /\ job'.todo = job.todo
    BY <1>0, <1>10 DEF Capture, Load, Refuse, Jobs
  <2> QED BY <2>1, <2>2 DEF Control, At
<1>11. CASE (Record \/ Note) /\ job' # NoJob
  <2>1. job.op = "orphan" /\ mem' = mem
    BY <1>0, <1>11 DEF Record, Note, Control, Save
  <2>2. Goto("load") \/ Goto("run")
    BY <1>11 DEF Record, Note, Save, Goto, Refuse
  <2> QED BY <1>9, <1>11, <2>1, <2>2
<1>12. CASE RemoveOrphan /\ job' # NoJob
  <2>1. CASE job.own.routing # Nothing
    <3>1. \E step : job' = [job EXCEPT !.pc = "note", !.own.routing = ApplyRoutingStep(@, step)]
      BY <1>12, <2>1 DEF RemoveOrphan
    <3>2. job'.op = job.op /\ job'.pc = "note" /\ job'.todo = job.todo
      BY <1>0, <3>1 DEF Jobs
    <3> QED BY <1>12, <3>2 DEF RemoveOrphan, Control, At
  <2>2. CASE job.own.routing = Nothing
    <3>1. (Goto("final") \/ Goto("drop")) /\ job.op = "orphan" /\ mem' = mem
      BY <1>12, <2>2 DEF RemoveOrphan, Refuse
    <3> QED BY <1>9, <1>12, <3>1
  <2> QED BY <2>1, <2>2
<1>13. CASE DropOrphan
  <2>1. job'.op = job.op /\ job'.pc = "note" /\ job'.todo = job.todo
    BY <1>0, <1>13 DEF DropOrphan, Jobs
  <2> QED BY <1>13, <2>1 DEF DropOrphan, Control, At
<1>14. CASE CheckV1 /\ job' # NoJob
  <2>1. job.op = "v1" /\ job.todo = <<>> /\ mem' = mem
    BY <1>14 DEF CheckV1, Control
  <2>2. \/ Goto("clear")
        \/ job' = [job EXCEPT !.pc = "intent", !.own.doc = kern.doc]
    BY <1>14 DEF CheckV1, Refuse
  <2>3. CASE job' = [job EXCEPT !.pc = "intent", !.own.doc = kern.doc]
    <3>1. job'.op = job.op /\ job'.pc = "intent" /\ job'.todo = job.todo /\ job'.then = job.then
      BY <1>0, <2>3 DEF Jobs
    <3> QED BY <2>1, <3>1 DEF Control, At
  <2> QED BY <1>9, <1>14, <2>1, <2>2, <2>3
<1>15. CASE IntentV1 /\ job' # NoJob
  <2>1. job'.op = job.op /\ job'.pc = "run" /\ job'.then = job.then
    BY <1>0, <1>15 DEF IntentV1, Save, Refuse, Jobs
  <2> QED BY <1>15, <2>1 DEF IntentV1, Save, Control, At
<1>16. CASE RemoveV1 /\ job' # NoJob
  <2>1. job'.op = job.op /\ job'.pc = "run" /\ job'.then = job.then
    BY <1>0, <1>16 DEF RemoveV1, Refuse, Jobs
  <2> QED BY <1>16, <2>1 DEF RemoveV1, Control, At
<1>17. CASE VerifyV1 /\ job' # NoJob
  <2>1. (Goto("final") \/ Goto("drop")) /\ job.op = "v1" /\ job.todo = <<>> /\ mem' = mem
    BY <1>17 DEF VerifyV1, Refuse
  <2> QED BY <1>9, <1>17, <2>1
<1>18. CASE Unwrap /\ job' # NoJob
  <2> DEFINE v1 == JournalV1(mem.record.inner, NoPlan)
  <2>1. job' = [job EXCEPT !.op = "v1"] /\ mem' = [mem EXCEPT !.record = v1] /\ job.pc = "check" /\ job.op = "v2"
    BY <1>18 DEF Unwrap, Save, Refuse
  <2>2. v1.kind = "v1"
    BY DEF JournalV1, NoJournal
  <2> HIDE DEF v1
  <2>3. mem'.record = v1
    BY <1>0, <2>1 DEF Mems
  <2>4. job'.op = "v1" /\ job'.pc = job.pc /\ job'.then = job.then /\ job'.todo = job.todo
    BY <1>0, <2>1 DEF Jobs
  <2> QED BY <2>1, <2>2, <2>3, <2>4 DEF Control, At
<1>19. CASE CheckV2 /\ job' # NoJob
  <2>1. Goto("intent") /\ job.op = "v2" /\ job.todo = <<>> /\ mem' = mem
    BY <1>19 DEF CheckV2, Refuse, Control
  <2> QED BY <1>9, <1>19, <2>1
<1>20. CASE IntentV2 /\ job' # NoJob
  <2> DEFINE r == [mem.record EXCEPT !.cleanup = TRUE]
  <2>1. /\ job'.op = job.op /\ job'.pc = "verify" /\ job'.then = job.then
        /\ mem' = [mem EXCEPT !.record = r] /\ job.op = "v2"
    BY <1>0, <1>20 DEF IntentV2, Save, Refuse, Jobs
  <2>2. r.kind = mem.record.kind
    BY <1>0, Marked DEF Mems
  <2> HIDE DEF r
  <2>3. mem'.record = r
    BY <1>0, <2>1 DEF Mems
  <2> QED BY <2>1, <2>2, <2>3 DEF Control, At
<1>21. CASE VerifyV2 /\ job' # NoJob
  <2>1. /\ job.op = "v2" /\ mem' = mem
        /\ Goto(IF job.todo # <<>> THEN "run" ELSE IF kern.doc = NoTable THEN "final" ELSE "drop")
    BY <1>21 DEF VerifyV2, Refuse
  <2> QED BY <1>9, <1>21, <2>1
<1>22. CASE RemoveV2 /\ job' # NoJob
  <2>1. job'.op = job.op /\ job'.pc = "verify" /\ job'.then = job.then
    BY <1>0, <1>22 DEF RemoveV2, Refuse, Jobs
  <2> QED BY <1>22, <2>1 DEF RemoveV2, Control, At
<1>23. CASE DropLegacy
  <2>1. Goto("final") /\ job.op \in {"v1", "v2"} /\ job.todo = <<>> /\ mem' = mem
    BY <1>23 DEF DropLegacy, Control
  <2> QED BY <1>2, <1>9, <2>1
<1>24. CASE Final /\ job' # NoJob
  <2>1. job.op \in {"orphan", "v1", "v2"} /\ job.todo = <<>> /\ mem' = mem
    BY <1>0, <1>24 DEF Final, Control, Jobs
  <2>2. Goto(IF job.op = "v2" THEN "settle" ELSE "clear")
    BY <1>24 DEF Final, Refuse
  <2> QED BY <1>9, <1>24, <2>1, <2>2
<1>25. CASE Settle
  <2>1. Goto("clear") /\ job.op = "v2" /\ job.todo = <<>> /\ mem' = mem
    BY <1>0, <1>25 DEF Settle, Control, Jobs
  <2> QED BY <1>2, <1>9, <2>1
<1>26. CASE Clear /\ job' # NoJob
  <2>1. job.then \in {"capture", "activate"} /\ job' = [job EXCEPT !.pc = job.then, !.then = "end"]
    BY <1>26 DEF Clear, Save, Refuse
  <2>2. job.op = "orphan" /\ job.todo = <<>>
    BY <1>0, <1>26, <2>1 DEF Clear, Control, Jobs
  <2>3. job'.op = job.op /\ job'.pc \in {"capture", "activate"} /\ job'.todo = job.todo
    BY <1>0, <2>1 DEF Jobs
  <2> QED BY <2>2, <2>3 DEF Control, At
<1>27. CASE Undo \/ \E what \in Disturbances : Other(what)
  BY <1>27 DEF Undo, Other, Control, At
<1> QED
  BY <1>1, <1>2, <1>3, <1>4, <1>5, <1>6, <1>7, <1>8, <1>10, <1>11, <1>12, <1>13, <1>14, <1>15,
     <1>16, <1>17, <1>18, <1>19, <1>20, <1>21, <1>22, <1>23, <1>24, <1>25, <1>26, <1>27
  DEF Next, Helper, HandedOver

-----------------------------------------------------------------------------
(* The journal and the record in memory *)

\* A call that begins finds a record that matches the journal.
LEMMA AdoptedMatches ==
    ASSUME TypedLeftovers, Control, Records, journal' = journal, mem' = Adopted
    PROVE  Remembered'
<1>1. mem'.init = TRUE /\ mem'.record = Adopted.record
  BY AdoptedTyped
<1>2. journal.kind \in {"none", "orphan", "v1", "v2"}
  BY DEF TypedLeftovers, Journals
<1>3. CASE Legacy(journal)
  BY <1>1, <1>3, AdoptedIs DEF Remembered, Records, Legacy
<1>4. CASE journal.kind = "none"
  BY <1>1, <1>4, AdoptedIs DEF Remembered, Records, Legacy
<1>5. CASE journal.kind = "orphan"
  BY <1>1, <1>5, AdoptedIs DEF Remembered, Records, Legacy
<1> QED BY <1>2, <1>3, <1>4, <1>5 DEF Legacy

\* A save that fails leaves the old journal or the new one, and the memory.
LEMMA FailedSave ==
    ASSUME TypedLeftovers, Records, NEW j \in Journals, journal' \in {journal, j}, mem' = mem,
           job' = NoJob, j.kind # "orphan" => j.doc = NoTable /\ j.routing = Nothing,
           mem.init /\ Legacy(j) => Legacy(mem.record),
           mem.record.kind = "v2" /\ mem.record.inner # NoPlan => Legacy(j)
    PROVE  Records'
<1>1. Remembered'
  BY DEF Records, Remembered
<1> QED BY <1>1, RefusedJob DEF Records, At, TypedLeftovers

\* The journal, the record in memory and the call keep agreeing.
LEMMA RecordsKept ==
    ASSUME TypedLeftovers, Control, Records, [Next]_vars
    PROVE  Records'
<1>0. /\ job \in Jobs /\ mem \in Mems /\ job.op \in {"none", "orphan", "v1", "v2"}
      /\ mem.record \in Journals /\ journal \in Journals
      /\ journal.kind \in {"none", "orphan", "v1", "v2"}
  BY DEF TypedLeftovers, Mems, Jobs, Journals
<1>1. CASE UNCHANGED vars
  BY <1>1 DEF Records, Remembered, At, vars
<1>2. CASE job' = NoJob /\ journal' = journal /\ mem' \in {mem, NoMemory}
  <2>1. Remembered'
    <3>1. CASE mem' = mem
      BY <1>2, <3>1 DEF Records, Remembered
    <3>2. CASE mem' = NoMemory
      <4>1. mem'.init = FALSE /\ mem'.record = NoJournal
        BY <3>2 DEF NoMemory
      <4> QED BY <1>2, <4>1, AdoptedIs DEF Records, Remembered
    <3> QED BY <1>2, <3>1, <3>2
  <2> QED BY <1>0, <1>2, <2>1, RefusedJob DEF Records, At
<1>3. CASE Inspect
  <2>1. Remembered'
    BY <1>3, AdoptedMatches DEF Inspect, Still
  <2> QED BY <1>0, <1>3, <2>1 DEF Inspect, Idle, NoJob, Records, At
<1>4. CASE Cleanup
  <2>1. mem' = Adopted /\ journal' = journal
    BY <1>4 DEF Cleanup, Still
  <2>2. Remembered'
    BY <2>1, AdoptedMatches
  <2>3. CASE journal.kind = "orphan"
    <3>1. mem'.record.kind = "none"
      BY <2>1, <2>3, AdoptedIs
    <3>2. Begin("orphan", "load", "forget")
      BY <1>4, <2>3, <3>1 DEF Cleanup
    <3> QED BY <1>0, <2>1, <2>2, <2>3, <3>2, BegunJob DEF Records, At, Legacy
  <2>4. CASE journal.kind # "orphan" /\ mem'.record.kind \in {"v1", "v2"}
    <3>1. Begin("v2", "check", "end") \/ Begin("v1", "check", "end")
      BY <1>4, <2>4 DEF Cleanup
    <3> QED BY <1>0, <2>2, <3>1, BegunJob DEF Records, At
  <2>5. CASE journal.kind # "orphan" /\ mem'.record.kind \notin {"v1", "v2"}
    <3>1. Begin("none", "clear", "end")
      BY <1>4, <2>5 DEF Cleanup
    <3>2. journal.kind = "none"
      BY <1>0, <2>1, <2>5, AdoptedIs DEF Legacy
    <3> QED BY <1>0, <2>1, <2>2, <3>1, <3>2, BegunJob DEF Records, At
  <2> QED BY <2>3, <2>4, <2>5
<1>5. CASE Recover
  <2>1. CASE journal.kind = "orphan" /\ Begin("orphan", "load", "capture") /\ UNCHANGED <<mem, journal>>
    BY <1>0, <2>1, BegunJob DEF Records, Remembered, At, Legacy
  <2>2. CASE journal.kind # "orphan" /\ mem' = Reconciled /\ journal' = journal
    <3>1. Remembered'
      BY <2>2, AdoptedMatches DEF Reconciled, Records, Remembered
    <3>2. CASE UNCHANGED job /\ Idle
      BY <1>0, <3>1, <3>2 DEF Idle, NoJob, Records, At
    <3>3. CASE ~Legacy(mem'.record) /\ Begin("orphan", "capture", "end")
      <4>1. mem'.init = TRUE
        BY <2>2, AdoptedTyped
      <4>2. ~Legacy(journal')
        BY <3>1, <3>3, <4>1 DEF Remembered
      <4> QED BY <1>0, <3>1, <3>3, <4>2, BegunJob DEF Records, At
    <3> QED BY <1>5, <2>2, <3>2, <3>3 DEF Recover
  <2> QED BY <1>5, <2>1, <2>2 DEF Recover, Still
<1>6. CASE Refresh \/ Activate
  <2>1. mem' = Reconciled /\ journal' = journal /\ Idle
    BY <1>6 DEF Refresh, Activate, Still
  <2>2. Remembered'
    BY <2>1, AdoptedMatches DEF Reconciled, Records, Remembered
  <2>3. mem'.init = TRUE
    BY <2>1, AdoptedTyped
  <2>4. CASE journal.kind = "orphan" /\ (Begin("orphan", "load", "end") \/ Begin("orphan", "load", "activate"))
    BY <1>0, <2>1, <2>2, <2>4, BegunJob DEF Records, At, Legacy
  <2>5. CASE journal.kind # "orphan" /\ Begin("none", "activate", "end")
    BY <1>0, <2>1, <2>2, <2>3, <2>5, BegunJob DEF Records, At, Legacy
  <2>6. CASE UNCHANGED job
    BY <1>0, <2>1, <2>2, <2>6 DEF Idle, NoJob, Records, At
  <2> QED BY <1>6, <2>4, <2>5, <2>6 DEF Refresh, Activate
<1>7. CASE Activates \/ CommandFails \/ Crash
  BY <1>2, <1>7 DEF Activates, CommandFails, Crash, Refuse
<1>8. ASSUME job' # NoJob, mem' = mem, journal' = journal, job'.op = job.op, job'.own = job.own,
             \/ job.op = "orphan" /\ job'.pc \in {"drop", "final", "clear"} /\ journal.kind = "orphan"
             \/ job.op = "orphan" /\ job'.pc = "note" /\ journal.kind = "orphan"
             \/ job.op = "v1" /\ job'.pc \in {"intent", "final", "clear"}
             \/ job.op = "v1" /\ job'.pc \in {"run", "drop"} /\ job.pc = "run"
             \/ job.op = "v2" /\ job'.pc \in {"intent", "final", "settle", "clear"} /\ mem.record.inner = NoPlan
             \/ job.op = "v2" /\ job'.pc \in {"verify", "run", "drop"} /\ job.pc \in {"verify", "run"}
      PROVE  Records'
  BY <1>0, <1>8 DEF Records, Remembered, At, Legacy
<1>9. CASE Capture \/ Load
  <2>1. CASE job' = NoJob
    BY <1>2, <1>9, <2>1 DEF Capture, Load
  <2>2. CASE Capture /\ job' # NoJob
    <3>1. job'.op = job.op /\ job'.pc = "record" /\ UNCHANGED <<journal, mem>>
      BY <1>0, <2>2 DEF Capture, Refuse, Jobs
    <3> QED BY <1>0, <2>2, <3>1 DEF Capture, Control, Records, Remembered, At, Legacy
  <2>3. CASE Load /\ job' # NoJob
    <3>1. job'.op = job.op /\ job'.pc = "note" /\ UNCHANGED <<journal, mem>>
      BY <1>0, <2>3 DEF Load, Refuse, Jobs
    <3> QED BY <1>0, <2>3, <3>1 DEF Load, Records, Remembered, At, Legacy
  <2> QED BY <1>9, <2>1, <2>2, <2>3
<1>10. CASE Record \/ Note
  <2> DEFINE j == OrphanJournal(job.own)
  <2>1. job.op = "orphan" /\ ~Legacy(journal)
    BY <1>0, <1>10 DEF Record, Note, Control, Records
  <2>2. j.kind = "orphan"
    BY DEF OrphanJournal, NoJournal
  <2>3. job.own \in [doc: Docs, routing: Routings]
    BY <1>0 DEF Jobs
  <2>4. j \in Journals
    BY <2>3, EmptyTyped, JournalsTyped
  <2>5. ~Legacy(j)
    BY <2>2 DEF Legacy
  <2>6. ~(mem.record.kind = "v2" /\ mem.record.inner # NoPlan)
    BY <2>1 DEF Records, Remembered
  <2>7. CASE job' = NoJob /\ mem' = mem /\ journal' \in {journal, j}
    <3> HIDE DEF j
    <3> QED BY <1>0, <2>2, <2>4, <2>5, <2>6, <2>7, FailedSave
  <2>8. CASE journal' = j /\ mem' = mem /\ \E pc \in {"load", "run"} : job' = [job EXCEPT !.pc = pc]
    <3>1. job'.op = "orphan" /\ job'.own = job.own /\ job'.pc \in {"load", "run"}
      BY <1>0, <2>1, <2>8 DEF Jobs
    <3>2. journal' = OrphanJournal(job'.own)
      BY <2>8, <3>1
    <3> HIDE DEF j
    <3>3. Remembered'
      BY <2>2, <2>5, <2>6, <2>8 DEF Records, Remembered
    <3> QED BY <2>2, <2>5, <2>8, <3>1, <3>2, <3>3 DEF Records, At
  <2> QED BY <1>10, <2>7, <2>8 DEF Record, Note, Save, Refuse
<1>11. CASE RemoveOrphan
  <2>1. CASE job' = NoJob
    BY <1>2, <1>11, <2>1 DEF RemoveOrphan
  <2>2. CASE job' # NoJob
    <3>1. UNCHANGED <<journal, mem>> /\ journal.kind = "orphan" /\ job.op = "orphan"
      BY <1>11 DEF RemoveOrphan, Records, At
    <3>2. CASE job.own.routing # Nothing
      <4>1. \E step : job' = [job EXCEPT !.pc = "note", !.own.routing = ApplyRoutingStep(@, step)]
        BY <1>11, <3>2 DEF RemoveOrphan
      <4>2. job'.op = job.op /\ job'.pc = "note"
        BY <1>0, <4>1 DEF Jobs
      <4> QED BY <1>0, <3>1, <4>2 DEF Records, Remembered, At, Legacy
    <3>3. CASE job.own.routing = Nothing
      <4>1. Goto("final") \/ Goto("drop")
        BY <1>11, <2>2, <3>3 DEF RemoveOrphan, Refuse
      <4> QED BY <1>0, <1>8, <2>2, <3>1, <4>1, MovedJob
    <3> QED BY <3>2, <3>3
  <2> QED BY <2>1, <2>2
<1>12. CASE DropOrphan
  <2>1. job'.op = job.op /\ job'.pc = "note"
    BY <1>0, <1>12 DEF DropOrphan, Jobs
  <2> QED BY <1>0, <1>12, <2>1 DEF DropOrphan, Records, Remembered, At, Legacy
<1>13. CASE CheckV1
  <2>1. CASE job' = NoJob
    BY <1>2, <1>13, <2>1 DEF CheckV1
  <2>2. CASE job' # NoJob
    <3>1. UNCHANGED <<journal, mem>> /\ job.op = "v1"
      BY <1>13 DEF CheckV1
    <3>2. \/ Goto("clear")
          \/ job' = [job EXCEPT !.pc = "intent", !.own.doc = kern.doc]
      BY <1>13, <2>2 DEF CheckV1, Refuse
    <3>3. CASE Goto("clear")
      BY <1>0, <1>8, <2>2, <3>1, <3>3, MovedJob
    <3>4. CASE job' = [job EXCEPT !.pc = "intent", !.own.doc = kern.doc]
      <4>1. job'.op = job.op /\ job'.pc = "intent"
        BY <1>0, <3>4 DEF Jobs
      <4> QED BY <1>0, <3>1, <4>1 DEF Records, Remembered, At, Legacy
    <3> QED BY <3>2, <3>3, <3>4
  <2> QED BY <2>1, <2>2
<1>14. CASE IntentV1
  <2> DEFINE j == [mem.record EXCEPT !.cleanup = TRUE]
  <2>1. j \in Journals /\ j.kind = mem.record.kind /\ j.doc = mem.record.doc /\ j.routing = mem.record.routing
    BY <1>0, Marked
  <2>2. mem.record.kind = "v1" /\ mem.record.doc = NoTable /\ mem.record.routing = Nothing
    BY <1>14 DEF IntentV1, Control, Records, Remembered
  <2>3. CASE job' = NoJob /\ mem' = mem /\ journal' \in {journal, j}
    <3> HIDE DEF j
    <3> QED BY <1>0, <2>1, <2>2, <2>3, FailedSave DEF Legacy
  <2>4. CASE journal' = j /\ mem' = mem /\ job' = [job EXCEPT !.pc = "run", !.todo = Steps(OwnV1(mem.record.active))]
    <3>1. job'.op = "v1" /\ job'.pc = "run"
      BY <1>0, <1>14, <2>4 DEF IntentV1, Jobs
    <3>2. journal' = [mem'.record EXCEPT !.cleanup = TRUE]
      BY <2>4
    <3> HIDE DEF j
    <3>3. Remembered'
      BY <2>1, <2>2, <2>4 DEF Records, Remembered, Legacy
    <3> QED BY <2>4, <3>1, <3>2, <3>3 DEF Records, At
  <2> QED BY <1>14, <2>3, <2>4 DEF IntentV1, Save, Refuse
<1>15. CASE RemoveV1
  <2>1. CASE job' = NoJob
    BY <1>2, <1>15, <2>1 DEF RemoveV1
  <2>2. CASE job' # NoJob
    <3>1. job'.op = job.op /\ job'.pc = job.pc /\ job'.own = job.own
      BY <1>0, <1>15, <2>2 DEF RemoveV1, Refuse, Jobs
    <3> QED BY <1>8, <1>15, <2>2, <3>1 DEF RemoveV1
  <2> QED BY <2>1, <2>2
<1>16. CASE VerifyV1
  <2>1. CASE job' = NoJob
    BY <1>2, <1>16, <2>1 DEF VerifyV1
  <2>2. CASE job' # NoJob
    <3>1. Goto("final") \/ Goto("drop")
      BY <1>16, <2>2 DEF VerifyV1, Refuse
    <3> QED BY <1>0, <1>8, <1>16, <2>2, <3>1, MovedJob DEF VerifyV1
  <2> QED BY <2>1, <2>2
<1>17. CASE Unwrap
  <2> DEFINE j == JournalV1(mem.record.inner, NoPlan)
  <2>1. j.kind = "v1" /\ j.doc = NoTable /\ j.routing = Nothing /\ j.inner = NoPlan
    BY DEF JournalV1, NoJournal
  <2>2. mem.record.kind = "v2" /\ mem.init
    BY <1>17 DEF Unwrap, Control, Records, Remembered
  <2>3. j \in Journals
    <3>1. mem.record.inner \in PlansOrNone /\ NoPlan \in PlansOrNone
      BY <1>0, EmptyTyped DEF Journals
    <3>2. NoOwn \in [doc: Docs, routing: Routings]
      BY EmptyTyped DEF NoOwn
    <3> QED BY <3>1, <3>2, JournalsTyped
  <2>4. CASE job' = NoJob /\ mem' = mem /\ journal' \in {journal, j}
    <3> HIDE DEF j
    <3> QED BY <1>0, <2>1, <2>2, <2>3, <2>4, FailedSave DEF Legacy
  <2>5. CASE journal' = j /\ mem' = [mem EXCEPT !.record = j] /\ job' = [job EXCEPT !.op = "v1"]
    <3> HIDE DEF j
    <3>1. job'.op = "v1" /\ job'.pc = "check"
      BY <1>0, <1>17, <2>5 DEF Unwrap, Jobs
    <3>2. mem'.record = j /\ mem'.init = mem.init
      BY <1>0, <2>5 DEF Mems
    <3>3. Remembered'
      BY <2>1, <2>2, <2>5, <3>2 DEF Remembered, Legacy
    <3> QED BY <3>1, <3>3 DEF Records, At
  <2> QED BY <1>17, <2>4, <2>5 DEF Unwrap, Save, Refuse
<1>18. CASE CheckV2
  <2>1. CASE job' = NoJob
    BY <1>2, <1>18, <2>1 DEF CheckV2
  <2>2. CASE job' # NoJob
    <3>1. Goto("intent")
      BY <1>18, <2>2 DEF CheckV2, Refuse
    <3> QED BY <1>0, <1>8, <1>18, <2>2, <3>1, MovedJob DEF CheckV2
  <2> QED BY <2>1, <2>2
<1>19. CASE IntentV2
  <2> DEFINE j == [mem.record EXCEPT !.cleanup = TRUE]
  <2>1. /\ j \in Journals /\ j.kind = mem.record.kind /\ j.doc = mem.record.doc
        /\ j.routing = mem.record.routing /\ j.inner = mem.record.inner /\ j.cleanup = TRUE
    BY <1>0, Marked
  <2>2. /\ mem.record.kind = "v2" /\ mem.record.doc = NoTable /\ mem.record.routing = Nothing
        /\ mem.init /\ mem.record.inner = NoPlan
    BY <1>19 DEF IntentV2, Control, Records, Remembered
  <2>3. CASE job' = NoJob /\ mem' = mem /\ journal' \in {journal, j}
    <3> HIDE DEF j
    <3> QED BY <1>0, <2>1, <2>2, <2>3, FailedSave DEF Legacy
  <2>4. CASE /\ journal' = j /\ mem' = [mem EXCEPT !.record = j]
             /\ job' = [job EXCEPT !.pc = "verify", !.todo = RollbackRemovals(j.active, j.pending)]
    <3> HIDE DEF j
    <3>1. job'.op = "v2" /\ job'.pc = "verify"
      BY <1>0, <1>19, <2>4 DEF IntentV2, Jobs
    <3>2. mem'.record = j /\ mem'.init = mem.init
      BY <1>0, <2>4 DEF Mems
    <3>3. Remembered'
      BY <2>1, <2>2, <2>4, <3>2 DEF Remembered, Legacy
    <3> QED BY <2>1, <2>2, <2>4, <3>1, <3>2, <3>3 DEF Records, At
  <2> QED BY <1>19, <2>3, <2>4 DEF IntentV2, Save, Refuse
<1>20. CASE VerifyV2
  <2>1. CASE job' = NoJob
    BY <1>2, <1>20, <2>1 DEF VerifyV2
  <2>2. CASE job' # NoJob
    <3>1. Goto(IF job.todo # <<>> THEN "run" ELSE IF kern.doc = NoTable THEN "final" ELSE "drop")
      BY <1>20, <2>2 DEF VerifyV2, Refuse
    <3>2. job.op = "v2" /\ job.pc = "verify" /\ mem.record.inner = NoPlan /\ UNCHANGED <<journal, mem>>
      BY <1>20 DEF VerifyV2, Records
    <3> QED BY <1>0, <1>8, <2>2, <3>1, <3>2, MovedJob
  <2> QED BY <2>1, <2>2
<1>21. CASE RemoveV2
  <2>1. CASE job' = NoJob
    BY <1>2, <1>21, <2>1 DEF RemoveV2
  <2>2. CASE job' # NoJob
    <3>1. job'.op = job.op /\ job'.pc = "verify" /\ job'.own = job.own
      BY <1>0, <1>21, <2>2 DEF RemoveV2, Refuse, Jobs
    <3> QED BY <1>8, <1>21, <2>2, <3>1 DEF RemoveV2
  <2> QED BY <2>1, <2>2
<1>22. CASE DropLegacy
  <2>1. CASE job' = NoJob
    BY <1>2, <1>22, <2>1 DEF DropLegacy
  <2>2. CASE job' # NoJob
    <3>1. Goto("final") /\ job.op \in {"v1", "v2"} /\ UNCHANGED <<journal, mem>> /\ job.pc = "drop"
      BY <1>22 DEF DropLegacy
    <3>2. job.op = "v2" => mem.record.inner = NoPlan
      BY <3>1 DEF Records
    <3> QED BY <1>0, <1>8, <2>2, <3>1, <3>2, MovedJob
  <2> QED BY <2>1, <2>2
<1>23. CASE Final
  <2>1. CASE job' = NoJob
    BY <1>2, <1>23, <2>1 DEF Final
  <2>2. CASE job' # NoJob
    <3>1. Goto(IF job.op = "v2" THEN "settle" ELSE "clear") /\ UNCHANGED <<journal, mem>> /\ job.pc = "final"
      BY <1>23, <2>2 DEF Final, Refuse
    <3>2. job.op \in {"orphan", "v1", "v2"}
      BY <1>0, <3>1 DEF Control
    <3>3. job.op = "v2" => mem.record.inner = NoPlan
      BY <3>1 DEF Records
    <3>4. job.op = "orphan" => journal.kind = "orphan"
      BY <3>1 DEF Records, At
    <3> QED BY <1>0, <1>8, <2>2, <3>1, <3>2, <3>3, <3>4, MovedJob
  <2> QED BY <2>1, <2>2
<1>24. CASE Settle
  <2>1. CASE job' = NoJob
    BY <1>2, <1>24, <2>1 DEF Settle
  <2>2. CASE job' # NoJob
    <3>1. Goto("clear") /\ job.op = "v2" /\ UNCHANGED <<journal, mem>> /\ mem.record.inner = NoPlan
      BY <1>0, <1>24 DEF Settle, Control, Records
    <3> QED BY <1>0, <1>8, <2>2, <3>1, MovedJob
  <2> QED BY <2>1, <2>2
<1>25. CASE Clear
  <2>1. NoJournal \in Journals /\ ~Legacy(NoJournal)
    BY EmptyTyped, AdoptedIs DEF Legacy
  <2>2. ~(mem.record.kind = "v2" /\ mem.record.inner # NoPlan)
    <3>1. job.op = "orphan" => ~Legacy(journal)
      BY DEF Records
    <3>2. job.op = "none" => ~Legacy(journal)
      BY <1>25 DEF Clear, Records, At, Legacy
    <3>3. job.op = "v1" => mem.record.kind = "v1"
      BY DEF Control
    <3>4. job.op = "v2" => mem.record.inner = NoPlan
      BY <1>25 DEF Clear, Records
    <3> QED BY <1>0, <3>1, <3>2, <3>3, <3>4 DEF Records, Remembered
  <2>3. CASE job' = NoJob /\ mem' = mem /\ journal' \in {journal, NoJournal}
    BY <1>0, <2>1, <2>2, <2>3, AdoptedIs, FailedSave
  <2>4. CASE journal' = NoJournal /\ mem' = [init |-> TRUE, record |-> NoJournal]
    <3>1. mem'.init = TRUE /\ mem'.record = NoJournal
      BY <2>4
    <3>2. Remembered'
      BY <2>1, <2>4, <3>1, AdoptedIs DEF Remembered, Legacy
    <3>3. CASE job' = NoJob
      BY <1>0, <3>2, <3>3, RefusedJob DEF Records, At
    <3>4. CASE job' # NoJob
      <4>1. job.then \in {"capture", "activate"} /\ job' = [job EXCEPT !.pc = job.then, !.then = "end"]
        BY <1>25, <3>4 DEF Clear, Save, Refuse
      <4>2. job'.op = job.op /\ job'.pc \in {"capture", "activate"}
        BY <1>0, <4>1 DEF Jobs
      <4>3. job.op = "orphan"
        BY <1>0, <4>1 DEF Control
      <4> QED BY <2>1, <2>4, <3>1, <3>2, <4>2, <4>3, AdoptedIs DEF Records, At
    <3> QED BY <3>3, <3>4
  <2> QED BY <1>25, <2>3, <2>4 DEF Clear, Save, Refuse
<1>26. CASE Undo \/ \E what \in Disturbances : Other(what)
  <2>1. UNCHANGED <<journal, mem, job>>
    BY <1>26 DEF Undo, Other
  <2> QED BY <2>1 DEF Records, Remembered, At
<1> QED
  BY <1>1, <1>3, <1>4, <1>5, <1>6, <1>7, <1>9, <1>10, <1>11, <1>12, <1>13, <1>14, <1>15,
     <1>16, <1>17, <1>18, <1>19, <1>20, <1>21, <1>22, <1>23, <1>24, <1>25, <1>26
  DEF Next, Helper, HandedOver

-----------------------------------------------------------------------------
(* What is owed *)

\* What becomes of the kernel in a step: routing only shrinks, a table that is
\* not there does not appear, settings are only restored, and history adds up.
LEMMA KernelShrinks ==
    ASSUME TypedLeftovers, Control, [Next]_vars
    PROVE  /\ Within(kern'.routing, kern.routing)
           /\ kern.doc = NoTable => kern'.doc = NoTable
           /\ kern'.svm \subseteq kern.svm
           /\ hist.reported => hist'.reported
           /\ hist.touched => hist'.touched
<1> DEFINE Shrinks == /\ Within(kern'.routing, kern.routing)
                      /\ kern.doc = NoTable => kern'.doc = NoTable
                      /\ kern'.svm \subseteq kern.svm
                      /\ hist.reported => hist'.reported
                      /\ hist.touched => hist'.touched
<1>0. /\ kern \in [doc: Docs, routing: Routings, svm: SUBSET Devices] /\ job \in Jobs
      /\ hist \in Histories
  BY DEF TypedLeftovers, Histories
<1>1. kern' = kern /\ hist' = hist => Shrinks
  BY DEF Within
<1>2. Verified /\ kern' = kern => Shrinks
  BY <1>0 DEF Verified, Within, Histories
<1>3. \A step \in RemovalSteps : Removed(step) /\ hist' = hist => Shrinks
  BY RemovedTyped
<1>4. DropTable /\ hist' = hist => Shrinks
  BY DroppedTyped DEF Within
<1>5. \A j, memory, next : Save(j, memory, next) /\ kern' = kern => Shrinks
  BY <1>0 DEF Save, Within, Histories
<1> SUFFICES Shrinks
  OBVIOUS
<1>6. CASE UNCHANGED vars \/ Inspect \/ Cleanup \/ Recover \/ Refresh \/ Activate \/ Activates
           \/ CommandFails \/ Crash
  <2>1. kern' = kern /\ hist' = hist
    BY <1>6 DEF vars, Inspect, Cleanup, Recover, Refresh, Activate, Activates, CommandFails, Crash, Still
  <2> HIDE DEF Shrinks
  <2> QED BY <1>1, <2>1
<1>7. CASE Capture \/ Load \/ CheckV1 \/ CheckV2 \/ VerifyV2 \/ Final
  <2>1. Verified /\ kern' = kern
    BY <1>7 DEF Capture, Load, CheckV1, CheckV2, VerifyV2, Final
  <2> HIDE DEF Shrinks
  <2> QED BY <1>2, <2>1
<1>8. CASE VerifyV1
  <2>1. kern' = kern /\ (Verified \/ hist' = hist)
    BY <1>8 DEF VerifyV1
  <2> HIDE DEF Shrinks
  <2> QED BY <1>1, <1>2, <2>1
<1>9. CASE Record \/ Note \/ IntentV1 \/ Unwrap \/ IntentV2 \/ Clear
  <2>1. kern' = kern /\ \E j, memory, next : Save(j, memory, next)
    BY <1>9, Zenon DEF Record, Note, IntentV1, Unwrap, IntentV2, Clear
  <2> HIDE DEF Shrinks
  <2> QED BY <1>5, <2>1
<1>10. CASE RemoveOrphan
  <2> DEFINE own == job.own.routing
             rule == CHOOSE r \in own.rules : TRUE
             route == CHOOSE r \in own.routes : TRUE
             step == IF own.rules # {} THEN DeleteRule(rule.fam, rule.tab)
                     ELSE FlushTable(route.fam, route.tab)
  <2>1. CASE own # Nothing
    <3>1. own \in Routings
      BY <1>0 DEF Jobs
    <3>2. step \in RemovalSteps
      BY <2>1, <3>1, OrphanStep
    <3>3. Removed(step) /\ hist' = hist
      BY <1>10, <2>1 DEF RemoveOrphan
    <3> HIDE DEF step, Shrinks
    <3> QED BY <1>3, <3>2, <3>3
  <2>2. CASE own = Nothing
    <3>1. kern' = kern /\ hist' = hist
      BY <1>10, <2>2 DEF RemoveOrphan
    <3> HIDE DEF Shrinks
    <3> QED BY <1>1, <3>1
  <2> QED BY <2>1, <2>2
<1>11. CASE RemoveV1 \/ RemoveV2
  <2>1. Head(job.todo) \in RemovalSteps
    <3>1. job.todo \in Seq(RemovalSteps) /\ job.todo # <<>>
      BY <1>0, <1>11 DEF Jobs, RemoveV1, RemoveV2, Control, At
    <3> QED BY <3>1, HeadTail
  <2>2. hist' = hist /\ (kern' = kern \/ Removed(Head(job.todo)))
    BY <1>11 DEF RemoveV1, RemoveV2
  <2> HIDE DEF Shrinks
  <2> QED BY <1>1, <1>3, <2>1, <2>2
<1>12. CASE DropOrphan \/ DropLegacy
  <2>1. DropTable /\ hist' = hist
    BY <1>12 DEF DropOrphan, DropLegacy
  <2> HIDE DEF Shrinks
  <2> QED BY <1>4, <2>1
<1>13. CASE Settle
  BY <1>0, <1>13 DEF Settle, Within, Histories
<1>14. CASE Undo
  BY <1>0, <1>14 DEF Undo, Within, Histories
<1>15. ASSUME NEW what \in Disturbances, Other(what) PROVE Shrinks
  <2>1. CASE kern' = kern \/ (kern.doc # NoTable /\ kern' = [kern EXCEPT !.doc = Altered])
    <3>1. \/ \E x : hist' = [hist EXCEPT !.touched = TRUE, !.fresh = @ \cup {x}]
          \/ \E x : hist' = [hist EXCEPT !.touched = TRUE, !.gone = @ \cup {x}]
      BY <1>15 DEF Other
    <3> QED BY <1>0, <2>1, <3>1 DEF Histories, Within
  <2>2. ASSUME NEW dev \in Devices,
               kern' = [kern EXCEPT !.routing.routes = {r \in @ : r.dev # dev}],
               hist' = [hist EXCEPT !.touched = TRUE, !.gone = @ \cup {dev}]
        PROVE  Shrinks
    BY <1>0, <2>2 DEF Within, Histories, Routings, Parts
  <2> HIDE DEF Shrinks
  <2> QED BY <1>15, <2>1, <2>2 DEF Other
<1> HIDE DEF Shrinks
<1> QED
  BY <1>6, <1>7, <1>8, <1>9, <1>10, <1>11, <1>12, <1>13, <1>14, <1>15 DEF Next, Helper, HandedOver

\* What is gone stays gone.
LEMMA BareStays ==
    ASSUME TypedLeftovers, TypedLeftovers', Control, [Next]_vars
    PROVE  /\ Bare => Bare'
           /\ SettingsDone => SettingsDone'
           /\ kern'.svm \subseteq kern.svm
           /\ \A j, k : k.kind = j.kind /\ k.inner = j.inner /\ k.settings = j.settings /\ InV2(j) => InV2(k)'
<1>1. Bare => Bare'
  <2>1. kern'.routing \in Routings
    BY DEF TypedLeftovers
  <2> QED BY <2>1, KernelShrinks DEF Bare, Within, Nothing, Routings, Parts
<1>2. SettingsDone => SettingsDone'
  BY KernelShrinks DEF SettingsDone
<1>3. kern'.svm \subseteq kern.svm
  BY KernelShrinks
<1> QED BY <1>1, <1>2, <1>3 DEF InV2

\* While the journal stays, what it says of what is owed stays too.
LEMMA EvidenceStays ==
    ASSUME TypedLeftovers, TypedLeftovers', Control, Evidence, [Next]_vars, journal' = journal,
           mem'.record \in {mem.record, NoJournal} \/ (Legacy(journal) /\ mem'.record = journal),
           hist'.owed = hist.owed,
           job'.pc = "settle" => Bare,
           hist.owed /\ job'.pc = "clear" => Bare,
           At("v2", {"clear"})' => SettingsDone'
    PROVE  Evidence'
<1>1. NoJournal.kind = "none"
  BY DEF NoJournal
<1>2. \/ SettingsDone'
      \/ InV2(journal)' /\ (mem'.record.kind # "none" => InV2(mem.record)')
  <2>1. CASE SettingsDone
    BY <2>1, BareStays
  <2>2. CASE InV2(journal) /\ (mem.record.kind # "none" => InV2(mem.record))
    <3>1. InV2(journal)'
      BY <2>2, BareStays DEF InV2
    <3>2. mem'.record.kind # "none" => InV2(mem.record)'
      BY <1>1, <2>2, BareStays DEF InV2
    <3> QED BY <3>1, <3>2
  <2> QED BY <2>1, <2>2 DEF Evidence
<1> QED BY <1>1, <1>2, BareStays DEF Evidence

\* What was owed before a save is owed after it, or there is nothing left.
LEMMA EvidenceSaved ==
    ASSUME TypedLeftovers, TypedLeftovers', Control, Evidence, [Next]_vars, NEW j \in Journals,
           journal' \in {journal, j}, mem'.record \in {mem.record, j},
           mem'.record = j => journal' = j,
           hist'.owed <=> hist.owed \/ journal'.kind # "none",
           job'.pc \notin {"settle", "clear"},
           j.kind = "none" /\ hist.owed => Bare,
           j.kind = "v1" /\ j.active = NoPlan => Bare,
           SettingsDone \/ (InV2(j) /\ InV2(mem.record))
    PROVE  Evidence'
<1>1. \/ SettingsDone'
      \/ InV2(journal)' /\ (mem'.record.kind # "none" => InV2(mem.record)')
  <2>1. CASE SettingsDone
    BY <2>1, BareStays
  <2>2. CASE ~SettingsDone
    <3>1. InV2(journal) /\ InV2(j) /\ InV2(mem.record)
      BY <2>2 DEF Evidence, InV2
    <3> QED BY <3>1, BareStays DEF InV2
  <2> QED BY <2>1, <2>2
<1>2. hist'.owed /\ journal'.kind = "none" => Bare'
  BY BareStays DEF Evidence
<1>3. journal'.kind = "v1" /\ journal'.active = NoPlan => Bare'
  BY BareStays DEF Evidence
<1>4. mem'.record.kind = "v1" /\ mem'.record.active = NoPlan => Bare'
  BY BareStays DEF Evidence
<1> QED BY <1>1, <1>2, <1>3, <1>4 DEF Evidence, At

\* Whatever is owed stays on record until it is gone.
LEMMA EvidenceKeeps ==
    ASSUME TypedLeftovers, TypedLeftovers', Control, Control', Records, Evidence, [Next]_vars
    PROVE  Evidence'
<1>0. /\ job \in Jobs /\ mem \in Mems /\ job.op \in {"none", "orphan", "v1", "v2"}
      /\ mem.record \in Journals /\ journal \in Journals /\ hist \in Histories
      /\ journal.kind \in {"none", "orphan", "v1", "v2"}
      /\ NoJob.pc = "idle" /\ NoJournal.kind = "none" /\ NoMemory.record = NoJournal
  BY DEF TypedLeftovers, Mems, Jobs, Journals, Histories, NoJob, NoJournal, NoMemory
<1>1. CASE UNCHANGED vars
  BY <1>1 DEF Evidence, At, vars, SettingsDone, InV2, Bare
<1>2. ASSUME journal' = journal,
             mem'.record \in {mem.record, NoJournal} \/ (Legacy(journal) /\ mem'.record = journal),
             hist'.owed = hist.owed, job'.pc \notin {"settle", "clear"}
      PROVE  Evidence'
  BY <1>2, EvidenceStays DEF At
<1>3. CASE Inspect \/ Cleanup \/ Recover \/ Refresh \/ Activate
  <2>1. mem'.record \in {mem.record, NoJournal} \/ (Legacy(journal) /\ mem'.record = journal)
    <3>1. mem' \in {mem, Adopted}
      BY <1>3 DEF Inspect, Cleanup, Recover, Refresh, Activate, Reconciled
    <3> QED BY <1>0, <3>1, AdoptedIs DEF Legacy
  <2>2. journal' = journal /\ hist' = hist
    BY <1>3 DEF Inspect, Cleanup, Recover, Refresh, Activate, Still
  <2>3. CASE job'.pc \notin {"settle", "clear"}
    BY <1>2, <2>1, <2>2, <2>3
  <2>4. CASE job'.pc \in {"settle", "clear"}
    <3>1. CASE UNCHANGED job
      <4>1. job.pc = "idle"
        BY <1>0, <1>3, <3>1, BegunJob DEF Inspect, Cleanup, Recover, Refresh, Activate, Idle
      <4> QED BY <2>4, <3>1, <4>1
    <3>2. CASE \E op, then : \E pc \in {"load", "check", "capture", "activate"} : Begin(op, pc, then)
      BY <1>0, <2>4, <3>2, BegunJob
    <3>3. CASE Begin("none", "clear", "end") /\ Cleanup /\ journal.kind # "orphan" /\ ~Legacy(mem'.record)
      <4>1. journal.kind = "none"
        BY <1>0, <3>3, AdoptedIs DEF Cleanup, Legacy
      <4>2. hist.owed => Bare
        BY <4>1 DEF Evidence
      <4>3. job'.op = "none" /\ job'.pc = "clear"
        BY <1>0, <3>3, BegunJob
      <4> QED BY <2>1, <2>2, <4>2, <4>3, EvidenceStays DEF At
    <3>4. Cleanup => \/ \E op, then : \E pc \in {"load", "check"} : Begin(op, pc, then)
                     \/ Begin("none", "clear", "end") /\ journal.kind # "orphan" /\ ~Legacy(mem'.record)
      <4> SUFFICES ASSUME Cleanup PROVE \/ \E op, then : \E pc \in {"load", "check"} : Begin(op, pc, then)
                                        \/ /\ Begin("none", "clear", "end")
                                           /\ journal.kind # "orphan" /\ ~Legacy(mem'.record)
        OBVIOUS
      <4>1. journal.kind = "orphan" => mem'.record.kind = "none"
        BY <1>0, AdoptedIs DEF Cleanup
      <4>2. mem'.record.kind \in {"none", "v1", "v2"}
        BY AdoptedIs DEF Cleanup
      <4>3. CASE journal.kind = "orphan"
        BY <4>1, <4>3 DEF Cleanup
      <4>4. CASE journal.kind # "orphan" /\ mem'.record.kind = "v2"
        BY <4>4 DEF Cleanup
      <4>5. CASE journal.kind # "orphan" /\ mem'.record.kind = "v1"
        BY <4>5 DEF Cleanup
      <4>6. CASE journal.kind # "orphan" /\ mem'.record.kind = "none"
        BY <4>6 DEF Cleanup, Legacy
      <4> QED BY <4>2, <4>3, <4>4, <4>5, <4>6
    <3> QED BY <1>3, <3>1, <3>2, <3>3, <3>4 DEF Inspect, Recover, Refresh, Activate
  <2> QED BY <2>3, <2>4
<1>4. CASE Activates \/ CommandFails \/ Crash
  <2>1. journal' = journal /\ mem' \in {mem, NoMemory} /\ hist' = hist /\ job' = NoJob
    BY <1>4 DEF Activates, CommandFails, Crash, Refuse
  <2> QED BY <1>0, <1>2, <2>1
<1>5. CASE Capture \/ Load \/ RemoveOrphan \/ DropOrphan \/ RemoveV1 \/ VerifyV1 \/ CheckV2 \/ VerifyV2
           \/ RemoveV2 \/ DropLegacy
  <2>1. journal' = journal /\ mem' = mem
    BY <1>5 DEF Capture, Load, RemoveOrphan, DropOrphan, RemoveV1, VerifyV1, CheckV2, VerifyV2,
       RemoveV2, DropLegacy
  <2>2. hist' \in {hist, [hist EXCEPT !.fresh = {}]}
    BY <1>5 DEF Capture, Load, RemoveOrphan, DropOrphan, RemoveV1, VerifyV1, CheckV2, VerifyV2,
       RemoveV2, DropLegacy, Verified
  <2>3. hist'.owed = hist.owed
    BY <1>0, <2>2 DEF Histories
  <2>4. job'.pc \notin {"settle", "clear"}
    <3>1. job' = NoJob => job'.pc \notin {"settle", "clear"}
      BY <1>0
    <3>2. \A pc \in {"intent", "run", "final", "drop"} : Goto(pc) => job'.pc \notin {"settle", "clear"}
      BY <1>0, MovedJob
    <3>3. CASE Capture \/ Load \/ DropOrphan
      BY <1>0, <3>3 DEF Capture, Load, DropOrphan, Refuse, Jobs
    <3>4. CASE RemoveOrphan
      <4>1. CASE job.own.routing # Nothing
        <5>1. \E step : job' = [job EXCEPT !.pc = "note", !.own.routing = ApplyRoutingStep(@, step)]
          BY <3>4, <4>1 DEF RemoveOrphan
        <5> QED BY <1>0, <5>1 DEF Jobs
      <4>2. CASE job.own.routing = Nothing
        BY <3>1, <3>2, <3>4, <4>2 DEF RemoveOrphan, Refuse
      <4> QED BY <4>1, <4>2
    <3>5. CASE RemoveV1 \/ RemoveV2
      BY <1>0, <3>5 DEF RemoveV1, RemoveV2, Refuse, Jobs
    <3>6. CASE VerifyV1 \/ CheckV2 \/ VerifyV2 \/ DropLegacy
      <4>1. job' = NoJob \/ \E pc \in {"intent", "run", "final", "drop"} : Goto(pc)
        BY <3>6 DEF VerifyV1, CheckV2, VerifyV2, DropLegacy, Refuse
      <4> QED BY <3>1, <3>2, <4>1
    <3> QED BY <1>5, <3>3, <3>4, <3>5, <3>6
  <2> QED BY <1>2, <2>1, <2>3, <2>4
<1>6. CASE Undo \/ \E what \in Disturbances : Other(what)
  <2>1. UNCHANGED <<journal, mem, job>>
    BY <1>6 DEF Undo, Other
  <2>2. hist'.owed = hist.owed
    <3>1. CASE Undo
      BY <1>0, <3>1 DEF Undo, Histories
    <3>2. CASE \E what \in Disturbances : Other(what)
      <4>1. \/ \E x : hist' = [hist EXCEPT !.touched = TRUE, !.fresh = @ \cup {x}]
            \/ \E x : hist' = [hist EXCEPT !.touched = TRUE, !.gone = @ \cup {x}]
        BY <3>2 DEF Other
      <4> QED BY <1>0, <4>1 DEF Histories
    <3> QED BY <1>6, <3>1, <3>2
  <2>3. /\ job'.pc = "settle" => Bare
        /\ hist.owed /\ job'.pc = "clear" => Bare
        /\ At("v2", {"clear"})' => SettingsDone'
    BY <2>1, BareStays DEF Evidence, At
  <2> QED BY <2>1, <2>2, <2>3, EvidenceStays
<1>7. CASE CheckV1
  <2>1. journal' = journal /\ mem' = mem /\ job.op = "v1"
    BY <1>7 DEF CheckV1
  <2>2. hist'.owed = hist.owed
    BY <1>0, <1>7 DEF CheckV1, Verified, Histories
  <2>3. CASE job'.pc \notin {"settle", "clear"}
    BY <1>2, <2>1, <2>2, <2>3
  <2>4. CASE job'.pc \in {"settle", "clear"}
    <3>1. Goto("clear") /\ mem.record.active = NoPlan
      BY <1>0, <1>7, <2>4 DEF CheckV1, Refuse, Jobs
    <3>2. Bare
      BY <2>1, <3>1 DEF Evidence, Control
    <3>3. job'.op = "v1" /\ job'.pc = "clear"
      BY <1>0, <2>1, <3>1, MovedJob
    <3> QED BY <2>1, <2>2, <3>2, <3>3, EvidenceStays DEF At
  <2> QED BY <2>3, <2>4
<1>8. CASE Final
  <2>1. journal' = journal /\ mem' = mem /\ hist'.owed = hist.owed
    BY <1>0, <1>8 DEF Final, Verified, Histories
  <2>2. CASE job' = NoJob
    BY <1>0, <1>2, <2>1, <2>2
  <2>3. CASE job' # NoJob
    <3>1. Bare /\ Goto(IF job.op = "v2" THEN "settle" ELSE "clear")
      BY <1>8, <2>3, SeenTyped DEF Final, Refuse
    <3>2. ~At("v2", {"clear"})'
      BY <1>0, <3>1, MovedJob DEF At
    <3> QED BY <2>1, <3>1, <3>2, EvidenceStays
  <2> QED BY <2>2, <2>3
<1>9. CASE Settle
  <2>1. journal' = journal /\ mem' = mem /\ Goto("clear") /\ Bare /\ job.op = "v2"
    BY <1>0, <1>9 DEF Settle, Evidence, Control
  <2>2. hist'.owed = hist.owed
    BY <1>0, <1>9 DEF Settle, Histories
  <2>3. SettingsDone'
    <3>1. CASE SettingsDone
      BY <3>1, BareStays
    <3>2. CASE ~SettingsDone
      <4>1. kern.svm \subseteq mem.record.settings
        BY <2>1, <3>2 DEF Evidence, Control, InV2
      <4>2. hist'.reported \/ kern' = [kern EXCEPT !.svm = @ \ mem.record.settings]
        BY <1>0, <1>9 DEF Settle, Histories
      <4>3. kern' = [kern EXCEPT !.svm = @ \ mem.record.settings] => kern'.svm = {}
        BY <4>1 DEF TypedLeftovers
      <4> QED BY <4>2, <4>3 DEF SettingsDone
    <3> QED BY <3>1, <3>2
  <2>4. job'.pc = "clear"
    BY <1>0, <2>1, MovedJob
  <2> QED BY <2>1, <2>2, <2>3, <2>4, EvidenceStays
<1>10. ASSUME NEW j \in Journals, NEW memory, NEW next, Save(j, memory, next),
              memory.record \in {mem.record, j}, next.pc \notin {"settle", "clear"},
              j.kind = "none" /\ hist.owed => Bare,
              j.kind = "v1" /\ j.active = NoPlan => Bare,
              SettingsDone \/ (InV2(j) /\ InV2(mem.record))
       PROVE  Evidence'
  <2>1. hist'.owed <=> hist.owed \/ journal'.kind # "none"
    BY <1>0, <1>10 DEF Save, Histories
  <2>2. journal' \in {journal, j} /\ job'.pc \notin {"settle", "clear"}
    BY <1>0, <1>10 DEF Save, Refuse
  <2>3. CASE journal' = j /\ mem' = memory
    BY <1>10, <2>1, <2>2, <2>3, EvidenceSaved
  <2>4. CASE mem' = mem
    <3>1. CASE journal' = journal /\ mem.record = j
      <4>1. mem'.record = mem.record /\ journal.kind \in {"none", "orphan", "v1", "v2"}
        BY <1>0, <2>4
      <4>2. CASE hist'.owed = hist.owed
        BY <1>2, <2>2, <3>1, <4>1, <4>2
      <4>3. CASE hist'.owed # hist.owed
        BY <1>0, <1>10, <2>1, <2>2, <2>4, <3>1, <4>3, BareStays DEF Evidence, InV2, At, SettingsDone
      <4> QED BY <4>2, <4>3
    <3>2. CASE journal' = j \/ mem.record # j
      <4>1. mem'.record = j => journal' = j
        BY <2>4, <3>2
      <4>2. mem'.record \in {mem.record, j}
        BY <2>4
      <4> QED BY <1>10, <2>1, <2>2, <4>1, <4>2, EvidenceSaved
    <3> QED BY <2>2, <3>1, <3>2
  <2> QED BY <1>10, <2>3, <2>4 DEF Save
<1>11. CASE Record \/ Note
  <2> DEFINE j == OrphanJournal(job.own)
  <2>1. job.op = "orphan" /\ ~Legacy(journal)
    BY <1>0, <1>11 DEF Record, Note, Control, Records
  <2>2. j.kind = "orphan"
    BY DEF OrphanJournal, NoJournal
  <2>3. j \in Journals
    <3>1. job.own \in [doc: Docs, routing: Routings]
      BY <1>0 DEF Jobs
    <3> QED BY <3>1, EmptyTyped, JournalsTyped
  <2>4. SettingsDone
    BY <2>1 DEF Evidence, InV2, Legacy
  <2>5. \E pc \in {"load", "run"} : Save(j, mem, [job EXCEPT !.pc = pc])
    BY <1>11 DEF Record, Note
  <2>6. \A pc : [job EXCEPT !.pc = pc].pc = pc
    BY <1>0 DEF Jobs
  <2> HIDE DEF j
  <2> QED BY <1>10, <2>2, <2>3, <2>4, <2>5, <2>6
<1>12. CASE IntentV1
  <2> DEFINE j == [mem.record EXCEPT !.cleanup = TRUE]
             next == [job EXCEPT !.pc = "run", !.todo = Steps(OwnV1(mem.record.active))]
  <2>1. j \in Journals /\ j.kind = mem.record.kind /\ j.active = mem.record.active
    BY <1>0, Marked
  <2>2. mem.record.kind = "v1"
    BY <1>12 DEF IntentV1, Control
  <2>3. SettingsDone
    BY <2>2 DEF Evidence, InV2
  <2>4. next.pc = "run"
    BY <1>0 DEF Jobs
  <2>5. Save(j, mem, next)
    BY <1>12 DEF IntentV1
  <2> HIDE DEF j, next
  <2> QED BY <1>10, <2>1, <2>2, <2>3, <2>4, <2>5 DEF Evidence
<1>13. CASE Unwrap
  <2> DEFINE j == JournalV1(mem.record.inner, NoPlan)
             memory == [mem EXCEPT !.record = j]
             next == [job EXCEPT !.op = "v1"]
  <2>1. j.kind = "v1" /\ j.active = mem.record.inner
    BY DEF JournalV1, NoJournal
  <2>2. mem.record.kind = "v2" /\ mem.record.inner # NoPlan
    BY <1>13 DEF Unwrap, Control
  <2>3. j \in Journals
    <3>1. mem.record.inner \in PlansOrNone /\ NoPlan \in PlansOrNone
      BY <1>0, EmptyTyped DEF Journals
    <3>2. NoOwn \in [doc: Docs, routing: Routings]
      BY EmptyTyped DEF NoOwn
    <3> QED BY <3>1, <3>2, JournalsTyped
  <2> HIDE DEF j
  <2>4. memory.record = j /\ next.pc = "check"
    BY <1>0, <1>13 DEF Mems, Jobs, Unwrap
  <2>5. SettingsDone
    BY <2>2 DEF Evidence, InV2
  <2>6. Save(j, memory, next)
    BY <1>13 DEF Unwrap, j
  <2> HIDE DEF memory, next
  <2> QED BY <1>10, <2>1, <2>2, <2>3, <2>4, <2>5, <2>6
<1>14. CASE IntentV2
  <2> DEFINE j == [mem.record EXCEPT !.cleanup = TRUE]
             memory == [mem EXCEPT !.record = j]
             next == [job EXCEPT !.pc = "verify", !.todo = RollbackRemovals(j.active, j.pending)]
  <2>1. /\ j \in Journals /\ j.kind = mem.record.kind /\ j.inner = mem.record.inner
        /\ j.settings = mem.record.settings
    BY <1>0, Marked
  <2>2. mem.record.kind = "v2"
    BY <1>14 DEF IntentV2, Control
  <2>3. Save(j, memory, next)
    BY <1>14 DEF IntentV2
  <2> HIDE DEF j
  <2>4. memory.record = j /\ next.pc = "verify"
    BY <1>0 DEF Mems, Jobs
  <2>5. SettingsDone \/ (InV2(j) /\ InV2(mem.record))
    BY <2>1, <2>2 DEF Evidence, InV2
  <2> HIDE DEF memory, next
  <2> QED BY <1>10, <2>1, <2>2, <2>3, <2>4, <2>5
<1>15. CASE Clear
  <2> DEFINE memory == [init |-> TRUE, record |-> NoJournal]
             next == IF job.then \in {"capture", "activate"}
                     THEN [job EXCEPT !.pc = job.then, !.then = "end"] ELSE NoJob
  <2>1. next.pc \notin {"settle", "clear"}
    BY <1>0 DEF Jobs
  <2>2. SettingsDone
    <3>1. job.op = "orphan" => ~Legacy(journal)
      BY DEF Records
    <3>2. job.op = "none" => ~Legacy(journal)
      BY <1>15 DEF Clear, Records, At, Legacy
    <3>3. job.op = "v1" => mem.record.kind = "v1"
      BY DEF Control
    <3>4. job.op = "v2" => SettingsDone
      BY <1>15 DEF Clear, Evidence, At
    <3> QED BY <1>0, <3>1, <3>2, <3>3, <3>4 DEF Evidence, InV2, Legacy
  <2>3. hist.owed => Bare
    BY <1>15 DEF Clear, Evidence
  <2>4. Save(NoJournal, memory, next)
    BY <1>15 DEF Clear
  <2>5. NoJournal \in Journals
    BY EmptyTyped
  <2>6. memory.record = NoJournal
    OBVIOUS
  <2> HIDE DEF memory, next
  <2> QED BY <1>0, <1>10, <2>1, <2>2, <2>3, <2>4, <2>5, <2>6
<1> QED
  BY <1>1, <1>3, <1>4, <1>5, <1>6, <1>7, <1>8, <1>9, <1>11, <1>12, <1>13, <1>14, <1>15
  DEF Next, Helper, HandedOver

\* A plan is handed over to the activation only without leftovers on record.
LEMMA StartsFreshKept ==
    ASSUME TypedLeftovers, Records, StartsFresh, [Next]_vars
    PROVE  StartsFresh'
<1>0. used \in Bounds /\ hist \in Histories /\ journal.kind \in {"none", "orphan", "v1", "v2"}
  BY DEF TypedLeftovers, Bounds, Histories, Journals
<1>1. CASE UNCHANGED vars
  BY <1>1 DEF StartsFresh, vars
<1>2. CASE Activates
  <2>1. used'.done = (~Legacy(mem.record) /\ Empty /\ Readable(Families))
    BY <1>0, <1>2 DEF Activates, Bounds
  <2>2. mem.init /\ journal.kind # "orphan" /\ UNCHANGED <<journal, kern>>
    BY <1>2 DEF Activates, Records
  <2>3. used'.done => journal.kind = "none"
    BY <1>0, <2>1, <2>2 DEF Records, Remembered, Legacy
  <2> QED BY <2>1, <2>2, <2>3 DEF StartsFresh, Empty
<1>3. CASE ~used.done /\ used' \in {used, [used EXCEPT !.faults = @ + 1], [used EXCEPT !.others = @ + 1]}
  <2>1. ~used'.done
    BY <1>0, <1>3 DEF Bounds
  <2> QED BY <2>1 DEF StartsFresh
<1>4. CASE ~used.done /\ (Inspect \/ Cleanup \/ Recover \/ Refresh \/ Activate \/ Undo \/ CommandFails \/ Crash)
  BY <1>3, <1>4 DEF Inspect, Cleanup, Recover, Refresh, Activate, Undo, CommandFails, Crash, Still, Fault
<1>5. CASE ~used.done /\ (Capture \/ Load \/ RemoveOrphan \/ DropOrphan \/ CheckV1 \/ RemoveV1 \/ VerifyV1 \/ CheckV2
                          \/ VerifyV2 \/ RemoveV2 \/ DropLegacy \/ Final \/ Settle)
  BY <1>3, <1>5 DEF Capture, Load, RemoveOrphan, DropOrphan, CheckV1, RemoveV1, VerifyV1, CheckV2,
     VerifyV2, RemoveV2, DropLegacy, Final, Settle
<1>6. CASE ~used.done /\ (Record \/ Note \/ IntentV1 \/ Unwrap \/ IntentV2 \/ Clear)
  <2>1. \E j, memory, next : Save(j, memory, next)
    BY <1>6, Zenon DEF Record, Note, IntentV1, Unwrap, IntentV2, Clear
  <2> QED BY <1>3, <1>6, <2>1 DEF Save
<1>7. CASE ~used.done /\ \E what \in Disturbances : Other(what)
  BY <1>3, <1>7 DEF Other
<1> QED BY <1>1, <1>2, <1>4, <1>5, <1>6, <1>7 DEF Next, Helper, HandedOver

-----------------------------------------------------------------------------
(* What a removal can meet *)

\* Whatever a schema-2 cleanup expects is owned by one of the two plans.
LEMMA ExpectedWithin ==
    ASSUME NEW j \in Journals, NEW doc, NEW routing \in Routings, ExpectedV2(j, doc, routing)
    PROVE  /\ routing.routes \subseteq Own(j.active).routes \cup Own(j.pending).routes
           /\ routing.rules \subseteq Own(j.active).rules \cup Own(j.pending).rules
<1> DEFINE basis == RoutingBasis(j.active, j.lost)
           P(a, b) == Parts(Own(a).routes \cup Own(b).routes, Own(a).rules \cup Own(b).rules)
<1>1. j.active \in PlansOrNone /\ j.pending \in PlansOrNone /\ NoPlan \in PlansOrNone
  BY EmptyTyped DEF Journals
<1>2. /\ LaneCount(basis) \in Nat /\ LaneCount(j.pending) \in Nat /\ LaneCount(j.active) \in Nat
      /\ LaneCount(NoPlan) \in Nat
  BY <1>1, PlanLanes, BasisLanes
<1>3. Own(basis).routes \subseteq Own(j.active).routes /\ Own(basis).rules = Own(j.active).rules
  BY <1>1, BasisOwns
<1>4. CASE routing = Nothing
  BY <1>4 DEF Nothing
<1>5. CASE j.pending # NoPlan /\ routing # Nothing
  <2>1. /\ Own(basis) \in P(basis, j.pending) /\ Own(j.pending) \in P(basis, j.pending)
        /\ PreparedStates(basis, j.pending) \subseteq P(basis, j.pending)
        /\ ActivatedStates(basis, j.pending) \subseteq P(basis, j.pending)
        /\ AbsentRollbackStates(basis) \subseteq P(basis, j.pending)
        /\ \A starts \in SUBSET P(basis, j.pending) : \A live :
              ReachedFrom(starts, live, basis, j.pending) => live \in P(basis, j.pending)
    <3> HIDE DEF basis
    <3> QED BY <1>2, CrashStatesWithin
  <2>2. \/ \E starts \in SUBSET P(basis, j.pending) : ReachedFrom(starts, routing, basis, j.pending)
        \/ routing \in AbsentRollbackStates(basis)
    <3>1. \/ \E starts \in {{Own(basis)}, AbsentRollbackStates(basis), PreparedStates(basis, j.pending),
                            ActivatedStates(basis, j.pending),
                            ActivatedStates(basis, j.pending) \cup {Own(j.pending)}} :
               ReachedFrom(starts, routing, basis, j.pending)
          \/ routing \in AbsentRollbackStates(basis)
      BY <1>5 DEF ExpectedV2
    <3>2. \A starts \in {{Own(basis)}, AbsentRollbackStates(basis), PreparedStates(basis, j.pending),
                         ActivatedStates(basis, j.pending),
                         ActivatedStates(basis, j.pending) \cup {Own(j.pending)}} :
             starts \in SUBSET P(basis, j.pending)
      <4> HIDE DEF P, basis
      <4> QED BY <2>1
    <3> HIDE DEF P, basis
    <3> QED BY <3>1, <3>2
  <2>3. routing \in P(basis, j.pending)
    <3> HIDE DEF P, basis
    <3> QED BY <2>1, <2>2
  <2> QED BY <1>3, <2>3 DEF Parts
<1>6. CASE j.pending = NoPlan /\ routing # Nothing
  <2>1. routing = Own(j.active) \/ ReachedFrom({Own(j.active)}, routing, NoPlan, j.active)
    BY <1>6 DEF ExpectedV2
  <2>2. /\ Own(j.active) \in P(NoPlan, j.active)
        /\ \A starts \in SUBSET P(NoPlan, j.active) : \A live :
              ReachedFrom(starts, live, NoPlan, j.active) => live \in P(NoPlan, j.active)
    BY <1>2, CrashStatesWithin
  <2>3. routing \in P(NoPlan, j.active)
    <3>1. {Own(j.active)} \in SUBSET P(NoPlan, j.active)
      BY <2>2
    <3> HIDE DEF P
    <3> QED BY <2>1, <2>2, <3>1
  <2> QED BY <2>3, OwnNothing DEF Parts, Nothing
<1> QED BY <1>4, <1>5, <1>6

\* A removal takes the same away from what is live and from what is owned.
LEMMA AppliedWithin ==
    ASSUME NEW live \in Routings, NEW own \in Routings, Within(live, own), NEW step \in RemovalSteps
    PROVE  Within(ApplyRoutingStep(live, step), ApplyRoutingStep(own, step))
<1>0. live = [routes |-> live.routes, rules |-> live.rules] /\ own = [routes |-> own.routes, rules |-> own.rules]
  BY DEF Routings, Parts
<1>1. CASE \E f \in Families, t \in Nat : step = DeleteRule(f, t)
  <2>1. PICK f \in Families, t \in Nat : step = DeleteRule(f, t)
    BY <1>1
  <2>2. /\ ApplyRoutingStep(live, step) = [live EXCEPT !.rules = @ \ {Rule(f, t)}]
        /\ ApplyRoutingStep(own, step) = [own EXCEPT !.rules = @ \ {Rule(f, t)}]
    BY <2>1, DeleteRuleApplied
  <2> QED BY <2>2 DEF Within, Routings, Parts
<1>2. CASE \E f \in Families, t \in Nat : step = FlushTable(f, t)
  <2>1. PICK f \in Families, t \in Nat : step = FlushTable(f, t)
    BY <1>2
  <2>2. /\ ApplyRoutingStep(live, step) = [live EXCEPT !.routes = {r \in @ : r.fam # f \/ r.tab # t}]
        /\ ApplyRoutingStep(own, step) = [own EXCEPT !.routes = {r \in @ : r.fam # f \/ r.tab # t}]
    BY <2>1, FlushTableApplied
  <2> QED BY <2>2 DEF Within, Routings, Parts
<1> QED BY <1>1, <1>2 DEF RemovalSteps

\* A cleanup begins with the record that says what to clean up.
LEMMA CleanupBegins ==
    ASSUME TypedLeftovers, Control, Records, Cleanup
    PROVE  \E op, then : \E pc \in {"load", "check", "clear"} : Begin(op, pc, then)
<1>1. /\ journal.kind = "orphan" => mem'.record.kind = "none"
      /\ mem'.record.kind \in {"none", "v1", "v2"}
  BY AdoptedIs DEF Cleanup
<1>2. CASE journal.kind = "orphan"
  BY <1>1, <1>2 DEF Cleanup
<1>3. CASE journal.kind # "orphan" /\ mem'.record.kind = "v2"
  BY <1>3 DEF Cleanup
<1>4. CASE journal.kind # "orphan" /\ mem'.record.kind = "v1"
  BY <1>4 DEF Cleanup
<1>5. CASE journal.kind # "orphan" /\ mem'.record.kind = "none"
  BY <1>5 DEF Cleanup
<1> QED BY <1>1, <1>2, <1>3, <1>4, <1>5

\* What can be removed stays within what the call captured or verified.
LEMMA SharesKept ==
    ASSUME TypedLeftovers, Control, Records, Shares, [Next]_vars
    PROVE  Shares'
<1>0. /\ job \in Jobs /\ mem \in Mems /\ job.op \in {"none", "orphan", "v1", "v2"}
      /\ mem.record \in Journals /\ kern.routing \in Routings
      /\ NoJob.pc = "idle"
  BY DEF TypedLeftovers, Mems, Jobs, NoJob
<1>1. \A own : Within(kern.routing, own) => Within(kern'.routing, own)
  BY KernelShrinks DEF Within
<1>2. CASE job'.pc \notin {"note", "run", "drop", "intent"}
  BY <1>2 DEF Shares, At
<1>3. CASE /\ job'.op = job.op /\ job'.own.routing = job.own.routing /\ mem'.record = mem.record
           /\ job'.pc = job.pc
  BY <1>1, <1>3, KernelShrinks DEF Shares, At, Within
<1>4. CASE UNCHANGED vars \/ Undo \/ (\E what \in Disturbances : Other(what)) \/ Inspect
  <2>1. CASE UNCHANGED <<job, mem>>
    BY <1>3, <2>1
  <2>2. CASE Inspect
    BY <1>0, <1>2, <2>2 DEF Inspect, Idle
  <2> QED BY <1>4, <2>1, <2>2 DEF vars, Undo, Other
<1>5. CASE Cleanup \/ Recover \/ Refresh \/ Activate
  <2>1. job'.pc \in {"idle", "load", "check", "clear", "capture", "activate"}
    <3>1. CASE UNCHANGED job
      BY <1>0, <1>5, <3>1 DEF Cleanup, Recover, Refresh, Activate, Idle
    <3>2. CASE \E op, then : \E pc \in {"load", "check", "clear", "capture", "activate"} : Begin(op, pc, then)
      BY <1>0, <3>2, BegunJob
    <3>3. Cleanup => \E op, then : \E pc \in {"load", "check", "clear"} : Begin(op, pc, then)
      BY CleanupBegins
    <3> QED BY <1>5, <3>1, <3>2, <3>3 DEF Recover, Refresh, Activate
  <2> QED BY <1>2, <2>1
<1>6. CASE job' = NoJob
  BY <1>0, <1>2, <1>6
<1>7. CASE Activates \/ CommandFails \/ Crash
  BY <1>6, <1>7 DEF Activates, CommandFails, Crash, Refuse
<1>8. CASE Capture \/ Record \/ Unwrap \/ CheckV2 \/ IntentV2 \/ RemoveV2 \/ DropLegacy \/ Final \/ Settle \/ Clear
  <2>1. CASE CheckV2 /\ Goto("intent")
    <3>1. job'.op = "v2" /\ job'.pc = "intent"
      BY <1>0, <2>1, MovedJob DEF CheckV2
    <3> QED BY <3>1 DEF Shares, At
  <2>2. CASE job'.pc \in {"record", "load", "check", "verify", "final", "settle", "clear", "capture", "activate"}
    BY <1>2, <2>2
  <2>3. CASE Capture \/ Record \/ Unwrap \/ IntentV2 \/ RemoveV2
    BY <1>0, <1>6, <2>2, <2>3 DEF Capture, Record, Unwrap, IntentV2, RemoveV2, Save, Refuse, Jobs
  <2>4. CASE DropLegacy \/ Final \/ Settle
    BY <1>0, <1>6, <2>2, <2>4, MovedJob DEF DropLegacy, Final, Settle, Refuse
  <2>5. CASE Clear
    BY <1>0, <1>6, <2>2, <2>5 DEF Clear, Save, Refuse, Jobs
  <2> QED BY <1>6, <1>8, <2>1, <2>3, <2>4, <2>5 DEF CheckV2, Refuse
<1>9. CASE Load
  <2>1. CASE job' # NoJob
    <3> DEFINE own == [doc |-> kern.doc, routing |-> Seen]
    <3>0. job' = [job EXCEPT !.pc = "note", !.own = own] /\ job.op = "orphan" /\ kern' = kern
      BY <1>9, <2>1 DEF Load, Refuse
    <3>01. own.routing = Seen
      OBVIOUS
    <3> HIDE DEF own
    <3>1. job'.own.routing = Seen /\ job'.op = "orphan" /\ kern' = kern
      BY <1>0, <3>0, <3>01 DEF Jobs
    <3>2. Within(kern'.routing, job'.own.routing)
      BY <3>1, SeenTyped
    <3> QED BY <3>1, <3>2 DEF Shares, At
  <2> QED BY <1>6, <2>1
<1>10. CASE Note
  <2>1. CASE job' # NoJob
    <3>1. /\ job'.own = job.own /\ job'.op = job.op /\ job.op = "orphan" /\ job.pc = "note"
          /\ mem' = mem
      BY <1>0, <1>10, <2>1 DEF Note, Save, Refuse, Jobs, Control
    <3> QED BY <1>1, <3>1 DEF Shares, At
  <2> QED BY <1>6, <2>1
<1>11. CASE RemoveOrphan
  <2> DEFINE own == job.own.routing
             rule == CHOOSE r \in own.rules : TRUE
             route == CHOOSE r \in own.routes : TRUE
             step == IF own.rules # {} THEN DeleteRule(rule.fam, rule.tab)
                     ELSE FlushTable(route.fam, route.tab)
  <2>0. own \in Routings /\ Within(kern.routing, own) /\ job.op = "orphan"
    BY <1>0, <1>11 DEF Jobs, RemoveOrphan, Shares, At
  <2>1. CASE own # Nothing
    <3>1. step \in RemovalSteps
      BY <2>0, <2>1, OrphanStep
    <3>2. Removed(step) /\ job' = [job EXCEPT !.pc = "note", !.own.routing = ApplyRoutingStep(@, step)]
      BY <1>11, <2>1 DEF RemoveOrphan
    <3> HIDE DEF step
    <3>3. job'.op = "orphan" /\ job'.own.routing = ApplyRoutingStep(job.own.routing, step)
      BY <1>0, <2>0, <3>2 DEF Jobs
    <3>4. kern'.routing = ApplyRoutingStep(kern.routing, step)
      BY <3>1, <3>2, RemovedTyped
    <3>5. Within(kern'.routing, job'.own.routing)
      BY <1>0, <2>0, <3>1, <3>3, <3>4, AppliedWithin
    <3> QED BY <3>3, <3>5 DEF Shares, At
  <2>2. CASE own = Nothing
    <3>1. job' = NoJob \/ Goto("final") \/ Goto("drop")
      BY <1>11, <2>2 DEF RemoveOrphan, Refuse
    <3>2. CASE job' # NoJob
      <4>1. job'.op = "orphan" /\ job'.own = job.own
        BY <1>0, <2>0, <3>1, <3>2, MovedJob
      <4> QED BY <1>1, <2>0, <4>1 DEF Shares, At
    <3> QED BY <1>6, <3>2
  <2> QED BY <2>1, <2>2
<1>12. CASE DropOrphan
  <2>1. job'.op = "orphan" /\ job'.own.routing = job.own.routing /\ Within(kern.routing, job.own.routing)
    BY <1>0, <1>12 DEF DropOrphan, Jobs, Shares, At
  <2> QED BY <1>1, <2>1 DEF Shares, At
<1>13. CASE CheckV1
  <2>1. CASE job' # NoJob /\ ~Goto("clear")
    <3>1. /\ LiveV1(mem.record, ~mem.record.cleanup) /\ job.op = "v1" /\ UNCHANGED <<mem, kern>>
          /\ job' = [job EXCEPT !.pc = "intent", !.own.doc = kern.doc]
      BY <1>13, <2>1 DEF CheckV1, Refuse
    <3>2. Within(Seen, OwnV1(mem'.record.active)) /\ job'.op = "v1"
      BY <1>0, <3>1 DEF LiveV1, Within, Jobs
    <3>3. Within(kern'.routing, OwnV1(mem'.record.active))
      BY <3>1, <3>2, SeenTyped DEF Within
    <3> QED BY <3>2, <3>3 DEF Shares, At
  <2>2. CASE Goto("clear")
    BY <1>0, <1>2, <2>2, MovedJob
  <2> QED BY <1>6, <2>1, <2>2
<1>14. CASE IntentV1
  <2>1. CASE job' # NoJob
    <3>1. /\ job'.op = job.op /\ job.op = "v1" /\ job.pc = "intent" /\ mem' = mem
      BY <1>0, <1>14, <2>1 DEF IntentV1, Save, Refuse, Jobs
    <3> QED BY <1>1, <3>1 DEF Shares, At
  <2> QED BY <1>6, <2>1
<1>15. CASE RemoveV1
  <2>1. CASE job' # NoJob
    <3>1. job'.op = job.op /\ job'.pc = job.pc /\ job'.own = job.own /\ mem' = mem
      BY <1>0, <1>15, <2>1 DEF RemoveV1, Refuse, Jobs
    <3> QED BY <1>3, <3>1
  <2> QED BY <1>6, <2>1
<1>16. CASE VerifyV1
  <2>1. CASE job' # NoJob
    <3>1. job.op = "v1" /\ (Goto("final") \/ Goto("drop"))
      BY <1>16, <2>1 DEF VerifyV1, Refuse
    <3>2. job'.op = "v1" /\ job'.pc \in {"final", "drop"}
      BY <1>0, <3>1, MovedJob
    <3> QED BY <3>2 DEF Shares, At
  <2> QED BY <1>6, <2>1
<1>17. CASE VerifyV2
  <2>1. CASE job' # NoJob
    <3>1. /\ ExpectedV2(mem.record, kern.doc, Seen) /\ UNCHANGED <<mem, kern>>
          /\ job.op = "v2" /\ \E pc : Goto(pc)
      BY <1>17, <2>1 DEF VerifyV2, Refuse, LiveV2
    <3>2. job'.op = "v2"
      BY <1>0, <3>1, MovedJob
    <3>3. /\ Seen.routes \subseteq Own(mem.record.active).routes \cup Own(mem.record.pending).routes
          /\ Seen.rules \subseteq Own(mem.record.active).rules \cup Own(mem.record.pending).rules
      BY <1>0, <3>1, SeenTyped, ExpectedWithin
    <3>4. Within(kern.routing, Seen)
      BY SeenTyped
    <3> QED BY <3>1, <3>2, <3>3, <3>4 DEF Shares, At, Within
  <2> QED BY <1>6, <2>1
<1> QED
  BY <1>4, <1>5, <1>7, <1>8, <1>9, <1>10, <1>11, <1>12, <1>13, <1>14, <1>15, <1>16, <1>17
  DEF Next, Helper, HandedOver

-----------------------------------------------------------------------------
(* What is foreign *)

\* Only a changed table and a default of RouteLane's shape pass the readers.
LEMMA OnlyTables ==
    ASSUME TypedLeftovers, Readable(Families)
    PROVE  \A x \in foreign :
             x.what # "table" => x.what = "default" /\ RouteOf(x) \in Seen.routes
<1> SUFFICES ASSUME NEW x \in foreign, x.what # "table"
             PROVE  x.what = "default" /\ RouteOf(x) \in Seen.routes
  OBVIOUS
<1>1. x \in Strangers
  BY DEF TypedLeftovers
<1>2. x.what = "default" \/ (x.what \in {"route", "rule"} /\ x.fam \in Families)
  BY <1>1 DEF Strangers
<1>3. x.what = "default"
  BY <1>2 DEF Readable
<1>4. RouteOf(x) \in Claimed
  BY <1>3 DEF Claimed
<1> QED BY <1>3, <1>4, SeenTyped

\* A changed table stays changed until it is gone, and whatever else becomes
\* foreign is fresh until the next verification.
LEMMA ForeignGrows ==
    ASSUME TypedLeftovers, Control, Strange, [Next]_vars
    PROVE  /\ (\E x \in foreign' : x.what = "table") => kern'.doc = Altered
           /\ \/ \A x \in foreign' : x \in hist'.fresh \/ (x \in foreign /\ x \notin hist.fresh)
              \/ Verified /\ foreign' = foreign
<1> DEFINE T == (\E x \in foreign' : x.what = "table") => kern'.doc = Altered
           F == \A x \in foreign' : x \in hist'.fresh \/ (x \in foreign /\ x \notin hist.fresh)
<1>0. /\ kern \in [doc: Docs, routing: Routings, svm: SUBSET Devices] /\ hist \in Histories
      /\ job \in Jobs
      /\ (\E x \in foreign : x.what = "table") => kern.doc = Altered
  BY DEF TypedLeftovers, Histories, Strange
<1>1. CASE foreign' \subseteq foreign /\ kern'.doc = kern.doc /\ hist'.fresh = hist.fresh
  BY <1>0, <1>1
<1>2. CASE Verified /\ foreign' = foreign /\ kern' = kern
  BY <1>0, <1>2
<1>3. CASE Capture \/ Load \/ CheckV1 \/ VerifyV1 \/ CheckV2 \/ VerifyV2 \/ Final
  BY <1>1, <1>2, <1>3 DEF Capture, Load, CheckV1, VerifyV1, CheckV2, VerifyV2, Final
<1>4. CASE UNCHANGED vars \/ Inspect \/ Cleanup \/ Recover \/ Refresh \/ Activate \/ Activates \/ CommandFails \/ Crash
  BY <1>1, <1>4 DEF vars, Inspect, Cleanup, Recover, Refresh, Activate, Activates, CommandFails, Crash, Still
<1>5. CASE Record \/ Note \/ IntentV1 \/ Unwrap \/ IntentV2 \/ Clear
  <2>1. \E j, memory, next : Save(j, memory, next)
    BY <1>5, Zenon DEF Record, Note, IntentV1, Unwrap, IntentV2, Clear
  <2>2. UNCHANGED <<kern, foreign>>
    BY <1>5 DEF Record, Note, IntentV1, Unwrap, IntentV2, Clear
  <2>3. hist'.fresh = hist.fresh
    BY <1>0, <2>1 DEF Save, Histories
  <2> QED BY <1>1, <2>2, <2>3
<1>6. CASE RemoveOrphan
  <2> DEFINE own == job.own.routing
             rule == CHOOSE r \in own.rules : TRUE
             route == CHOOSE r \in own.routes : TRUE
             step == IF own.rules # {} THEN DeleteRule(rule.fam, rule.tab)
                     ELSE FlushTable(route.fam, route.tab)
  <2>1. CASE own # Nothing
    <3>1. own \in Routings
      BY <1>0 DEF Jobs
    <3>2. step \in RemovalSteps
      BY <2>1, <3>1, OrphanStep
    <3>3. Removed(step) /\ hist' = hist
      BY <1>6, <2>1 DEF RemoveOrphan
    <3> HIDE DEF step
    <3> QED BY <1>1, <3>2, <3>3, RemovedTyped
  <2>2. CASE own = Nothing
    BY <1>1, <1>6, <2>2 DEF RemoveOrphan
  <2> QED BY <2>1, <2>2
<1>7. CASE RemoveV1 \/ RemoveV2
  <2>1. job.todo \in Seq(RemovalSteps) /\ job.todo # <<>>
    BY <1>0, <1>7 DEF Jobs, RemoveV1, RemoveV2, Control, At
  <2>2. Head(job.todo) \in RemovalSteps
    BY <2>1, HeadTail
  <2>3. hist' = hist /\ (Removed(Head(job.todo)) \/ UNCHANGED <<kern, foreign>>)
    BY <1>7 DEF RemoveV1, RemoveV2
  <2> QED BY <1>1, <2>2, <2>3, RemovedTyped
<1>8. CASE DropOrphan \/ DropLegacy
  <2>1. foreign' = {x \in foreign : x.what # "table"} /\ hist' = hist
    BY <1>8, DroppedTyped DEF DropOrphan, DropLegacy
  <2> QED BY <2>1
<1>9. CASE Settle
  <2>1. kern'.doc = kern.doc /\ hist'.fresh = hist.fresh /\ foreign' = foreign
    BY <1>0, <1>9 DEF Settle, Histories
  <2> QED BY <1>1, <2>1
<1>10. CASE Undo
  BY <1>10 DEF Undo
<1>11. ASSUME NEW what \in Disturbances, Other(what) PROVE T /\ F
  <2>1. CASE what \in {"route", "rule"}
    <3>1. PICK f \in Families :
             LET x == Stranger(what, f, 1)
             IN  /\ foreign' = foreign \cup {x}
                 /\ hist' = [hist EXCEPT !.touched = TRUE, !.fresh = @ \cup {x}]
      BY <1>11, <2>1 DEF Other
    <3> DEFINE x == Stranger(what, f, 1)
    <3>2. x.what # "table" /\ kern' = kern
      BY <1>11, <2>1, StrangersAre DEF Other
    <3>3. foreign' = foreign \cup {x} /\ hist'.fresh = hist.fresh \cup {x}
      BY <1>0, <3>1 DEF Histories
    <3> HIDE DEF x
    <3> QED BY <1>0, <3>2, <3>3
  <2>2. CASE what = "table"
    <3> DEFINE x == Stranger(what, 0, 0)
    <3>1. foreign' = foreign \cup {x} /\ hist'.fresh = hist.fresh \cup {x} /\ kern'.doc = Altered
      BY <1>0, <1>11, <2>2 DEF Other, Histories
    <3> HIDE DEF x
    <3> QED BY <3>1
  <2>3. CASE what = "link"
    <3>1. foreign' \subseteq foreign /\ hist'.fresh = hist.fresh /\ kern'.doc = kern.doc
      BY <1>0, <1>11, <2>3 DEF Other, Histories
    <3> QED BY <1>1, <3>1
  <2>4. CASE what = "default"
    <3>1. PICK r \in Defaults : /\ foreign' = foreign \cup {Default(r)} /\ kern' = kern
                                /\ hist' = [hist EXCEPT !.touched = TRUE, !.fresh = @ \cup {Default(r)}]
      BY <1>11, <2>4 DEF Other
    <3> DEFINE x == Default(r)
    <3>2. x.what # "table"
      BY StrangersAre
    <3>3. foreign' = foreign \cup {x} /\ hist'.fresh = hist.fresh \cup {x}
      BY <1>0, <3>1 DEF Histories
    <3> HIDE DEF x
    <3> QED BY <1>0, <3>1, <3>2, <3>3
  <2> QED BY <1>11, LeftoverAssumption, <2>1, <2>2, <2>3, <2>4 DEF AllDisturbances
<1> HIDE DEF T, F
<1>12. (T /\ F) \/ (T /\ Verified /\ foreign' = foreign)
  BY <1>3, <1>4, <1>5, <1>6, <1>7, <1>8, <1>9, <1>10, <1>11
  DEF Next, Helper, HandedOver, T, F
<1> QED BY <1>12 DEF T, F

\* An orphan journal never names a changed table, and neither does its call.
LEMMA OwnUnchanged ==
    ASSUME TypedLeftovers, Control, Records, Strange, [Next]_vars
    PROVE  /\ journal'.kind = "orphan" => journal'.doc # Altered
           /\ (At("orphan", {"record", "note", "run", "drop"}))' => job'.own.doc # Altered
<1> DEFINE A == journal'.kind = "orphan" => journal'.doc # Altered
           B == (At("orphan", {"record", "note", "run", "drop"}))' => job'.own.doc # Altered
<1>0. /\ job \in Jobs /\ mem \in Mems /\ job.op \in {"none", "orphan", "v1", "v2"}
      /\ mem.record \in Journals /\ NoJob.pc = "idle" /\ NoTable # Altered
      /\ mem.record.kind \in {"none", "v1", "v2"}
      /\ journal.kind = "orphan" => journal.doc # Altered
  BY EmptyTyped DEF TypedLeftovers, Mems, Jobs, NoJob, Strange, Records, Remembered
<1>1. CASE job' = NoJob
  <2>1. B
    BY <1>0, <1>1 DEF At
  <2>2. A
    <3>1. CASE journal' = journal
      BY <1>0, <3>1
    <3>2. CASE Record \/ Note
      <4>1. At("orphan", {"record", "note"})
        BY <1>0, <3>2 DEF Record, Note, At, Control
      <4>2. job.own.doc # Altered /\ journal' \in {journal, OrphanJournal(job.own)}
        BY <3>2, <4>1 DEF Record, Note, Save, Strange, At
      <4> QED BY <1>0, <4>2, FieldsOrphan, ZenonT(40)
    <3>3. CASE IntentV1 \/ IntentV2
      <4> DEFINE r == [mem.record EXCEPT !.cleanup = TRUE]
      <4>1. r.kind = mem.record.kind
        BY <1>0, Marked
      <4>2. journal' \in {journal, r}
        BY <3>3 DEF IntentV1, IntentV2, Save
      <4> HIDE DEF r
      <4> QED BY <1>0, <4>1, <4>2
    <3>4. CASE Unwrap
      <4> DEFINE v1 == JournalV1(mem.record.inner, NoPlan)
      <4>1. v1.kind = "v1"
        BY DEF JournalV1, NoJournal
      <4>2. journal' \in {journal, v1}
        BY <3>4 DEF Unwrap, Save
      <4> HIDE DEF v1
      <4> QED BY <1>0, <4>1, <4>2
    <3>5. CASE Clear
      <4>1. NoJournal.kind = "none"
        BY DEF NoJournal
      <4>2. journal' \in {journal, NoJournal}
        BY <3>5 DEF Clear, Save
      <4> QED BY <1>0, <4>1, <4>2
    <3>6. CASE Inspect \/ Cleanup \/ Recover \/ Refresh \/ Activate
      BY <1>0, <3>1, <3>6 DEF Inspect, Cleanup, Recover, Refresh, Activate, Still
    <3>7. CASE \/ Activates \/ Capture \/ Load \/ RemoveOrphan \/ DropOrphan \/ CheckV1 \/ RemoveV1
               \/ VerifyV1 \/ CheckV2 \/ VerifyV2 \/ RemoveV2 \/ DropLegacy \/ Final \/ Settle
               \/ CommandFails \/ Crash \/ Undo \/ UNCHANGED vars
      BY <3>1, <3>7 DEF Activates, Capture, Load, RemoveOrphan, DropOrphan, CheckV1, RemoveV1,
         VerifyV1, CheckV2, VerifyV2, RemoveV2, DropLegacy, Final, Settle, CommandFails, Crash, Undo, vars
    <3>8. CASE \E what \in Disturbances : Other(what)
      BY <3>1, <3>8 DEF Other
    <3> QED
      BY <3>2, <3>3, <3>4, <3>5, <3>6, <3>7, <3>8 DEF Next, Helper, HandedOver
  <2> QED BY <2>1, <2>2
<1>2. CASE journal' = journal /\ job'.pc \notin {"record", "note", "run", "drop"}
  BY <1>0, <1>2 DEF At
<1>3. CASE journal' = journal /\ job'.op = job.op /\ job.op # "orphan"
  BY <1>0, <1>3 DEF At
<1>4. CASE journal' = journal /\ job' = job
  BY <1>0, <1>4 DEF At, Strange
<1>5. CASE UNCHANGED vars \/ Undo \/ (\E what \in Disturbances : Other(what)) \/ Inspect
  BY <1>4, <1>5 DEF vars, Undo, Other, Inspect, Still
<1>6. CASE Cleanup \/ Recover \/ Refresh \/ Activate
  <2>1. job'.pc \in {"idle", "load", "check", "clear", "capture", "activate"}
    <3>1. CASE UNCHANGED job
      BY <1>0, <1>6, <3>1 DEF Cleanup, Recover, Refresh, Activate, Idle
    <3>2. CASE \E op, then : \E pc \in {"load", "check", "clear", "capture", "activate"} : Begin(op, pc, then)
      BY <1>0, <3>2, BegunJob
    <3>3. Cleanup => \E op, then : \E pc \in {"load", "check", "clear"} : Begin(op, pc, then)
      BY CleanupBegins
    <3> QED BY <1>6, <3>1, <3>2, <3>3 DEF Recover, Refresh, Activate
  <2>2. journal' = journal
    BY <1>6 DEF Cleanup, Recover, Refresh, Activate, Still
  <2> QED BY <1>2, <2>1, <2>2
<1>7. CASE job' # NoJob /\ Capture
  <2> DEFINE own == [doc |-> kern.doc, routing |-> Seen]
  <2>1. /\ job' = [job EXCEPT !.pc = "record", !.own = own] /\ journal' = journal
        /\ OrphanDocOK(kern.doc)
    BY <1>7 DEF Capture, Refuse, Orphaned
  <2>2. own.doc = kern.doc /\ kern.doc # Altered
    BY <2>1, EmptyTyped DEF OrphanDocOK
  <2> HIDE DEF own
  <2>3. job'.own.doc # Altered
    BY <1>0, <2>1, <2>2 DEF Jobs
  <2> QED BY <1>0, <2>1, <2>3
<1>8. CASE job' # NoJob /\ Load
  <2> DEFINE own == [doc |-> kern.doc, routing |-> Seen]
  <2>1. /\ job' = [job EXCEPT !.pc = "note", !.own = own] /\ journal' = journal
        /\ Resumable(journal) /\ journal.kind = "orphan"
    BY <1>8 DEF Load, Refuse, Records, At
  <2>2. own.doc = kern.doc /\ kern.doc # Altered
    BY <1>0, <2>1 DEF Resumable
  <2> HIDE DEF own
  <2>3. job'.own.doc # Altered
    BY <1>0, <2>1, <2>2 DEF Jobs
  <2> QED BY <1>0, <2>1, <2>3
<1>9. CASE job' # NoJob /\ (Record \/ Note)
  <2>1. At("orphan", {"record", "note"})
    BY <1>0, <1>9 DEF Record, Note, At, Control
  <2>2. job.own.doc # Altered /\ journal' = OrphanJournal(job.own) /\ \E pc : job' = [job EXCEPT !.pc = pc]
    BY <1>9, <2>1 DEF Record, Note, Save, Refuse, Strange, At
  <2>3. job'.own = job.own
    BY <1>0, <2>2, JobFields
  <2> QED BY <1>0, <2>2, <2>3, FieldsOrphan
<1>10. CASE job' # NoJob /\ (RemoveOrphan \/ DropOrphan)
  <2>1. journal' = journal /\ At("orphan", {"run", "drop"}) /\ job.own.doc # Altered
    BY <1>10 DEF RemoveOrphan, DropOrphan, At, Strange
  <2>2. CASE DropOrphan
    <3>1. job'.own.doc = NoTable
      BY <1>0, <2>2 DEF DropOrphan, Jobs
    <3> QED BY <1>0, <2>1, <3>1
  <2>3. CASE RemoveOrphan
    <3>1. job'.own.doc = job.own.doc
      BY <1>0, <1>10, <2>3, ZenonT(40) DEF RemoveOrphan, Goto, Refuse, Jobs
    <3> QED BY <1>0, <2>1, <3>1
  <2> QED BY <1>10, <2>2, <2>3
<1>11. CASE job' # NoJob /\ (CheckV1 \/ RemoveV1 \/ VerifyV1 \/ CheckV2 \/ VerifyV2 \/ RemoveV2 \/ DropLegacy)
  <2>1. journal' = journal /\ job.op # "orphan"
    BY <1>11 DEF CheckV1, RemoveV1, VerifyV1, CheckV2, VerifyV2, RemoveV2, DropLegacy
  <2>2. job'.op = job.op
    <3>1. CASE \E pc : Goto(pc)
      BY <1>0, <3>1, MovedJob
    <3>2. CASE ~ \E pc : Goto(pc)
      BY <1>0, <1>11, <3>2 DEF CheckV1, RemoveV1, VerifyV1, CheckV2, VerifyV2, RemoveV2, DropLegacy, Refuse, Jobs
    <3> QED BY <3>1, <3>2
  <2> QED BY <1>3, <2>1, <2>2
<1>12. CASE job' # NoJob /\ (Final \/ Settle)
  <2>1. journal' = journal /\ \E pc \in {"settle", "clear"} : Goto(pc)
    BY <1>12 DEF Final, Settle, Refuse
  <2>2. job'.pc \in {"settle", "clear"}
    BY <1>0, <2>1, MovedJob
  <2> QED BY <1>2, <2>1, <2>2
<1>13. CASE job' # NoJob /\ (IntentV1 \/ Unwrap \/ IntentV2)
  <2> DEFINE r == [mem.record EXCEPT !.cleanup = TRUE]
             v1 == JournalV1(mem.record.inner, NoPlan)
  <2>1. r.kind = mem.record.kind /\ v1.kind = "v1"
    <3>1. r.kind = mem.record.kind
      BY <1>0, Marked
    <3>2. v1.kind = "v1"
      BY DEF JournalV1, NoJournal
    <3> QED BY <3>1, <3>2
  <2>2. journal' \in {r, v1}
    BY <1>13 DEF IntentV1, Unwrap, IntentV2, Save, Refuse
  <2> HIDE DEF r, v1
  <2>3. A
    BY <1>0, <2>1, <2>2
  <2>4. job'.op # "orphan"
    BY <1>0, <1>13 DEF IntentV1, Unwrap, IntentV2, Save, Refuse, Jobs
  <2> QED BY <2>3, <2>4 DEF At
<1>14. CASE job' # NoJob /\ Clear
  <2>1. journal' = NoJournal /\ job'.pc \in {"capture", "activate"}
    BY <1>0, <1>14 DEF Clear, Save, Refuse, Jobs
  <2>2. NoJournal.kind = "none"
    BY DEF NoJournal
  <2> QED BY <2>1, <2>2 DEF At
<1>15. CASE Activates \/ CommandFails \/ Crash
  BY <1>1, <1>15 DEF Activates, CommandFails, Crash, Refuse
<1> QED
  BY <1>1, <1>5, <1>6, <1>7, <1>8, <1>9, <1>10, <1>11, <1>12, <1>13, <1>14, <1>15
  DEF Next, Helper, HandedOver

\* What is foreign at a removal came after the last verification, or was
\* taken for RouteLane's by it.
LEMMA StrangeKept ==
    ASSUME TypedLeftovers, TypedLeftovers', Control, Control', Records, Strange, [Next]_vars
    PROVE  Strange'
<1> DEFINE Removing == \/ At("orphan", {"note", "run", "drop"}) \/ At("v1", {"intent", "run", "drop"})
                       \/ At("v2", {"run", "drop"})
           F == \A x \in foreign' : x \in hist'.fresh \/ (x \in foreign /\ x \notin hist.fresh)
           C == Removing' => \A x \in foreign' :
                  x.what # "table" => x \in hist'.fresh \/ (x.what = "default" /\ RouteOf(x) \in Target')
           D == job'.pc = "drop" => \A x \in foreign' : x.what = "table" => x \in hist'.fresh
<1>0. /\ job \in Jobs /\ mem \in Mems /\ job.op \in {"none", "orphan", "v1", "v2"}
      /\ job' \in Jobs /\ kern.doc \in Docs
      /\ NoJob.op = "none" /\ NoJob.pc = "idle" /\ (job.pc = "drop" => job.op # "none")
  BY DEF TypedLeftovers, Mems, Jobs, NoJob, Control
<1>1. /\ (\E x \in foreign' : x.what = "table") => kern'.doc = Altered
      /\ F \/ (Verified /\ foreign' = foreign)
  BY ForeignGrows
<1>2. /\ journal'.kind = "orphan" => journal'.doc # Altered
      /\ (At("orphan", {"record", "note", "run", "drop"}))' => job'.own.doc # Altered
  BY OwnUnchanged
<1>r. Removing => \A x \in foreign :
        x.what # "table" => x \in hist.fresh \/ (x.what = "default" /\ RouteOf(x) \in Target)
  BY DEF Strange, Claims
<1>d. job.pc = "drop" => \A x \in foreign : x.what = "table" => x \in hist.fresh
  BY DEF Strange
<1> SUFFICES C /\ D
  BY <1>1, <1>2 DEF Strange, Claims
<1>3. CASE job'.pc \notin {"note", "run", "drop", "intent"}
  BY <1>3 DEF At
<1>5. CASE F /\ UNCHANGED <<job, mem>>
  <2>1. Target' = Target /\ (Removing' <=> Removing) /\ job'.pc = job.pc
    BY <1>5 DEF Target, At
  <2> HIDE DEF Removing
  <2> QED BY <1>5, <1>r, <1>d, <2>1
<1>6. CASE foreign' = {}
  BY <1>6
<1>7. CASE job' = NoJob
  BY <1>0, <1>3, <1>7
<1>8. CASE /\ Readable(Families) /\ foreign' = foreign /\ kern' = kern
           /\ job'.pc = "drop" => kern.doc # Altered
           /\ Removing' => Seen.routes \subseteq Target'
  <2>1. C
    BY <1>8, OnlyTables
  <2>2. D
    BY <1>8 DEF Strange
  <2> QED BY <2>1, <2>2
<1>9. \A a, b, g : Doc("v1", a, b, g) # Altered /\ Doc("v2", a, b, g) # Altered
  BY DEF Doc, Altered
<1>10. CASE UNCHANGED vars \/ Undo \/ (\E what \in Disturbances : Other(what)) \/ Inspect
  <2>1. UNCHANGED <<job, mem>> \/ Inspect
    BY <1>10 DEF vars, Undo, Other
  <2>4. CASE Inspect
    BY <1>0, <1>3, <2>4 DEF Inspect, Idle
  <2>2. CASE F
    BY <1>5, <2>1, <2>2, <2>4
  <2>3. CASE Verified /\ foreign' = foreign /\ ~F
    <3>1. hist'.fresh # hist.fresh
      BY <2>3
    <3>2. CASE Undo
      BY <1>6, <3>2 DEF Undo
    <3>3. CASE UNCHANGED hist
      BY <3>1, <3>3
    <3>4. CASE \E what \in Disturbances : Other(what)
      <4>1. hist \in Histories /\ hist'.fresh = {}
        BY <2>3 DEF TypedLeftovers, Histories, Verified
      <4>2. hist.fresh \subseteq hist'.fresh
        BY <3>4, <4>1 DEF Other, Histories
      <4> QED BY <3>1, <4>1, <4>2
    <3> QED BY <1>10, <3>2, <3>3, <3>4 DEF vars, Inspect, Still
  <2> QED BY <1>1, <2>2, <2>3
<1>11. CASE Cleanup \/ Recover \/ Refresh \/ Activate
  <2>1. job'.pc \in {"idle", "load", "check", "clear", "capture", "activate"}
    <3>1. CASE UNCHANGED job
      BY <1>0, <1>11, <3>1 DEF Cleanup, Recover, Refresh, Activate, Idle
    <3>2. CASE \E op, then : \E pc \in {"load", "check", "clear", "capture", "activate"} : Begin(op, pc, then)
      BY <1>0, <3>2, BegunJob
    <3>3. Cleanup => \E op, then : \E pc \in {"load", "check", "clear"} : Begin(op, pc, then)
      BY CleanupBegins
    <3> QED BY <1>11, <3>1, <3>2, <3>3 DEF Recover, Refresh, Activate
  <2> QED BY <1>3, <2>1
<1>12. CASE Activates \/ CommandFails \/ Crash
  BY <1>7, <1>12 DEF Activates, CommandFails, Crash, Refuse
<1>13. CASE job' # NoJob /\ (Capture \/ Record \/ Unwrap \/ IntentV2 \/ RemoveV2 \/ Clear)
  <2>1. job'.pc \in {"record", "load", "check", "verify", "capture", "activate"}
    BY <1>0, <1>13 DEF Capture, Record, Unwrap, IntentV2, RemoveV2, Clear, Save, Refuse, Jobs
  <2> QED BY <1>3, <2>1
<1>14. CASE job' # NoJob /\ (DropLegacy \/ Final \/ Settle)
  <2>1. \E pc \in {"final", "settle", "clear"} : Goto(pc)
    BY <1>14 DEF DropLegacy, Final, Settle, Refuse
  <2> QED BY <1>0, <1>3, <2>1, MovedJob
<1>15. CASE job' # NoJob /\ Load
  <2>1. Readable(Families) /\ foreign' = foreign /\ kern' = kern
    BY <1>15 DEF Load, Refuse, Resumable
  <2> DEFINE own == [doc |-> kern.doc, routing |-> Seen]
  <2>2. job' = [job EXCEPT !.pc = "note", !.own = own] /\ job.op = "orphan" /\ own.routing = Seen
    BY <1>15 DEF Load, Refuse
  <2> HIDE DEF own
  <2>3. job'.pc = "note" /\ job'.op = "orphan" /\ job'.own.routing = Seen
    BY <1>0, <2>2 DEF Jobs
  <2>4. Target' = Seen.routes
    BY <2>3 DEF Target
  <2> QED BY <1>8, <2>1, <2>3, <2>4
<1>16. CASE job' # NoJob /\ (Note \/ DropOrphan \/ IntentV1 \/ RemoveV1)
  <2>1. hist'.fresh = hist.fresh /\ foreign' \subseteq foreign
    <3>1. hist \in Histories
      BY DEF TypedLeftovers, Histories
    <3>2. CASE Note \/ IntentV1
      <4>1. \E j, memory, next : Save(j, memory, next)
        BY <3>2, Zenon DEF Note, IntentV1
      <4>2. foreign' = foreign
        BY <3>2 DEF Note, IntentV1
      <4> QED BY <3>1, <4>1, <4>2 DEF Save, Histories
    <3>3. CASE DropOrphan \/ RemoveV1
      BY <3>3, <1>16 DEF DropOrphan, RemoveV1, DropTable, Removed, Flushed
    <3> QED BY <1>16, <3>2, <3>3
  <2>2. Removing
    BY <1>0, <1>16 DEF Note, DropOrphan, IntentV1, RemoveV1, Control, At
  <2>3. job'.pc # "drop"
    BY <1>0, <1>16 DEF Note, DropOrphan, IntentV1, RemoveV1, Save, Refuse, Jobs
  <2>4. Target' = Target
    <3>1. job'.op = job.op /\ job'.own.routing = job.own.routing
      <4>1. CASE DropOrphan
        BY <1>0, <4>1 DEF DropOrphan, Jobs
      <4>2. CASE Note \/ IntentV1 \/ RemoveV1
        <5>1. \/ job' = [job EXCEPT !.pc = "run"] \/ job' = [job EXCEPT !.todo = Tail(@)]
              \/ \E todo : job' = [job EXCEPT !.pc = "run", !.todo = todo]
          BY <1>16, <4>2 DEF Note, IntentV1, RemoveV1, Save, Refuse
        <5> QED BY <1>0, <5>1 DEF Jobs
      <4> QED BY <1>16, <4>1, <4>2
    <3>2. mem' = mem
      BY <1>16 DEF Note, DropOrphan, IntentV1, RemoveV1, Save
    <3> QED BY <3>1, <3>2 DEF Target
  <2>5. C
    BY <1>r, <2>1, <2>2, <2>4
  <2> QED BY <2>3, <2>5
<1>17. CASE job' # NoJob /\ RemoveOrphan
  <2>1. Removing /\ At("orphan", {"run"})
    BY <1>17 DEF RemoveOrphan, At
  <2>2. hist' = hist /\ foreign' \subseteq foreign
    BY <1>17 DEF RemoveOrphan, Removed, Flushed
  <2>3. CASE job.own.routing # Nothing
    <3> DEFINE own == job.own.routing
               rule == CHOOSE r \in own.rules : TRUE
               route == CHOOSE r \in own.routes : TRUE
               step == IF own.rules # {} THEN DeleteRule(rule.fam, rule.tab)
                       ELSE FlushTable(route.fam, route.tab)
    <3>1. own \in Routings
      BY <1>0 DEF Jobs
    <3>2. step \in RemovalSteps
      BY <2>3, <3>1, OrphanStep
    <3>3. foreign' = Flushed(step) /\ job' = [job EXCEPT !.pc = "note", !.own.routing = ApplyRoutingStep(@, step)]
      BY <1>17, <2>3 DEF RemoveOrphan, Removed
    <3> HIDE DEF step, own
    <3>4. job'.op = "orphan" /\ job'.pc = "note" /\ job'.own.routing = ApplyRoutingStep(own, step)
      BY <1>0, <2>1, <3>3 DEF Jobs, At, own
    <3>5. Target = own.routes /\ Target' = ApplyRoutingStep(own, step).routes
      BY <2>1, <3>4 DEF Target, At, own
    <3>6. \A x \in foreign' : x.what = "default" /\ RouteOf(x) \in Target => RouteOf(x) \in Target'
      <4>1. CASE \E f \in Families, t \in Nat : step = DeleteRule(f, t)
        <5>1. PICK f \in Families, t \in Nat : step = DeleteRule(f, t)
          BY <4>1
        <5>2. ApplyRoutingStep(own, step) = [own EXCEPT !.rules = @ \ {Rule(f, t)}]
          BY <3>1, <5>1, DeleteRuleApplied
        <5> QED BY <3>1, <3>5, <5>2 DEF Routings, Parts
      <4>2. CASE \E f \in Families, t \in Nat : step = FlushTable(f, t)
        <5>1. PICK f \in Families, t \in Nat : step = FlushTable(f, t)
          BY <4>2
        <5>2. ApplyRoutingStep(own, step) = [own EXCEPT !.routes = {r \in @ : r.fam # f \/ r.tab # t}]
          BY <3>1, <5>1, FlushTableApplied
        <5>3. Target' = {r \in Target : r.fam # f \/ r.tab # t}
          BY <3>1, <3>5, <5>2 DEF Routings, Parts
        <5>4. \A x \in foreign' : x.what = "default" => ~(x.fam = f /\ x.tab = t)
          <6>1. step.op = "flush" /\ step.fam = f /\ step.tab = t
            BY <5>1 DEF FlushTable
          <6> QED BY <3>3, <6>1 DEF Flushed
        <5>5. \A x : RouteOf(x).fam = x.fam /\ RouteOf(x).tab = x.tab
          BY DEF RouteOf
        <5> QED BY <5>3, <5>4, <5>5
      <4> QED BY <3>2, <4>1, <4>2 DEF RemovalSteps
    <3> QED BY <1>r, <2>1, <2>2, <3>4, <3>6
  <2>4. CASE job.own.routing = Nothing
    <3>1. kern' = kern /\ foreign' = foreign /\ mem' = mem /\ (Goto("final") \/ (Goto("drop") /\ kern.doc = job.own.doc))
      BY <1>17, <2>4 DEF RemoveOrphan, Refuse
    <3>2. job'.op = job.op /\ job'.own = job.own /\ (job'.pc = "drop" => kern.doc = job.own.doc)
      BY <1>0, <3>1, MovedJob
    <3>3. Target' = Target
      BY <3>1, <3>2 DEF Target
    <3>4. C
      BY <1>r, <2>1, <2>2, <3>1, <3>3
    <3>5. job'.pc = "drop" => kern.doc # Altered
      BY <2>1, <3>2 DEF Strange, At
    <3> QED BY <3>1, <3>4, <3>5 DEF Strange
  <2> QED BY <2>3, <2>4
<1>18. CASE job' # NoJob /\ (CheckV1 \/ VerifyV1)
  <2>1. foreign' = foreign /\ kern' = kern /\ mem' = mem /\ job.op = "v1"
    BY <1>18 DEF CheckV1, VerifyV1
  <2>2. CASE \E exact : LiveV1(mem.record, exact)
    <3>1. Readable(Families) /\ kern.doc # Altered /\ Within(Seen, OwnV1(mem.record.active))
      BY <1>9, <2>2, EmptyTyped DEF LiveV1, Within
    <3>2. Removing' => job'.op = "v1"
      <4>1. CASE \E pc : Goto(pc)
        BY <1>0, <2>1, <4>1, MovedJob
      <4>2. CASE ~ \E pc : Goto(pc)
        BY <1>0, <1>18, <2>1, <4>2 DEF CheckV1, VerifyV1, Refuse, Jobs
      <4> QED BY <4>1, <4>2
    <3>3. job'.op = "v1" => Target' = OwnV1(mem.record.active).routes
      BY <2>1 DEF Target
    <3> HIDE DEF Removing
    <3> QED BY <1>8, <2>1, <3>1, <3>2, <3>3 DEF Within
  <2>3. CASE Goto("clear") \/ Goto("final")
    BY <1>0, <1>3, <2>3, MovedJob
  <2> QED BY <1>18, <2>2, <2>3 DEF CheckV1, VerifyV1, Refuse
<1>19. CASE job' # NoJob /\ (CheckV2 \/ VerifyV2)
  <2>1. foreign' = foreign /\ kern' = kern /\ mem' = mem /\ LiveV2(mem.record) /\ job.op = "v2" /\ \E pc : Goto(pc)
    BY <1>19 DEF CheckV2, VerifyV2, Refuse
  <2>2. Readable(Families) /\ ExpectedV2(mem.record, kern.doc, Seen)
    BY <2>1 DEF LiveV2
  <2>3. kern.doc # Altered
    BY <1>9, <2>2, EmptyTyped DEF ExpectedV2
  <2>4. job'.op = "v2"
    BY <1>0, <2>1, MovedJob
  <2>5. Seen.routes \subseteq Target'
    <3>1. mem.record \in Journals
      BY <1>0 DEF Mems
    <3>2. Target' = Own(mem.record.active).routes \cup Own(mem.record.pending).routes
      BY <2>1, <2>4 DEF Target
    <3> QED BY <2>2, <3>1, <3>2, SeenTyped, ExpectedWithin
  <2> QED BY <1>8, <2>1, <2>2, <2>3, <2>5
<1> QED
  BY <1>7, <1>10, <1>11, <1>12, <1>13, <1>14, <1>15, <1>16, <1>17, <1>18, <1>19
  DEF Next, Helper, HandedOver

-----------------------------------------------------------------------------
(* How far a schema-2 cleanup has come *)

\* What a removal cleanup may start from is owned by one of the two plans.
LEMMA StartsOwned ==
    ASSUME NEW j \in Journals, NEW doc, NEW s \in StartsV2(j, doc)
    PROVE  s \in Parts(Own(j.active).routes \cup Own(j.pending).routes,
                       Own(j.active).rules \cup Own(j.pending).rules)
<1> DEFINE basis == RoutingBasis(j.active, j.lost)
           P(a, b) == Parts(Own(a).routes \cup Own(b).routes, Own(a).rules \cup Own(b).rules)
<1>1. j.active \in PlansOrNone /\ j.pending \in PlansOrNone
  BY DEF Journals
<1>2. LaneCount(basis) \in Nat /\ LaneCount(j.pending) \in Nat /\ LaneCount(j.active) \in Nat
  BY <1>1, PlanLanes, BasisLanes
<1>3. Own(basis).routes \subseteq Own(j.active).routes /\ Own(basis).rules = Own(j.active).rules
  BY <1>1, BasisOwns
<1>4. \/ s = Nothing \/ s = Own(j.active) \/ s = Own(basis) \/ s = Own(j.pending)
      \/ s \in AbsentRollbackStates(basis) \cup PreparedStates(basis, j.pending)
                 \cup ActivatedStates(basis, j.pending)
  BY DEF StartsV2
<1>5. /\ Own(basis) \in P(basis, j.pending) /\ Own(j.pending) \in P(basis, j.pending)
      /\ PreparedStates(basis, j.pending) \subseteq P(basis, j.pending)
      /\ ActivatedStates(basis, j.pending) \subseteq P(basis, j.pending)
      /\ AbsentRollbackStates(basis) \subseteq P(basis, j.pending)
  <2> HIDE DEF basis
  <2> QED BY <1>2, CrashStatesWithin
<1>6. P(basis, j.pending) \subseteq P(j.active, j.pending)
  BY <1>3 DEF Parts
<1>7. Own(j.active) \in P(j.active, j.pending)
  BY <1>2, CrashStatesWithin
<1>8. Nothing \in P(j.active, j.pending)
  BY DEF Nothing, Parts
<1> QED
  <2> HIDE DEF P, basis
  <2>1. s \in P(j.active, j.pending)
    BY <1>4, <1>5, <1>6, <1>7, <1>8
  <2> QED BY <2>1 DEF P

\* Marked for cleanup, a journal expects what removals leave of those.
LEMMA ExpectedStarts ==
    ASSUME NEW j \in Journals, j.cleanup, NEW doc, NEW routing
    PROVE  ExpectedV2(j, doc, routing) <=>
             \E s \in StartsV2(j, doc) : routing \in StatesAlong(s, RemovalsV2(j))
<1> DEFINE basis == RoutingBasis(j.active, j.lost)
           R == RemovalsV2(j)
           reached(starts) == \E s \in starts : routing \in StatesAlong(s, R)
<1>1. j.active \in PlansOrNone /\ j.pending \in PlansOrNone /\ NoPlan \in PlansOrNone
  BY EmptyTyped DEF Journals
<1>2. /\ LaneCount(basis) = LaneCount(j.active) /\ LaneCount(j.pending) \in Nat
      /\ LaneCount(j.active) \in Nat /\ LaneCount(NoPlan) \in Nat
  BY <1>1, PlanLanes, BasisLanes
<1>3. RollbackRemovals(basis, j.pending) = R
  <2> HIDE DEF basis
  <2> QED BY <1>2, RollbackByLanes DEF RemovalsV2
<1>4. j.pending = NoPlan => RollbackRemovals(NoPlan, j.active) = R
  BY <1>2, RollbackByLanes DEF RemovalsV2
<1>5. R \in Seq(RemovalSteps) /\ Len(R) \in Nat
  BY <1>2, RollbackStepsAre DEF RemovalsV2
<1>6. StatesAlong(Nothing, R) = {Nothing}
  <2> HIDE DEF R
  <2> QED BY <1>5, NothingToRemove
<1>7. \A s : s \in StatesAlong(s, R)
  <2> SUFFICES ASSUME NEW s PROVE s \in StatesAlong(s, R)
    OBVIOUS
  <2> DEFINE after == StatesAfter(s, R)
  <2> HIDE DEF R
  <2>1. after = [i \in 0..Len(R) |-> IF i = 0 THEN s ELSE ApplyRoutingStep(after[i - 1], R[i])]
    BY <1>5, StatesFollow
  <2> HIDE DEF after
  <2>2. 0 \in 0..Len(R)
    BY <1>5
  <2>3. after[0] = s
    BY <2>1, <2>2
  <2> QED BY <2>2, <2>3 DEF StatesAlong, after
<1>8. \A starts : ReachedFrom(starts, routing, basis, j.pending) <=> reached(starts)
  BY <1>3 DEF ReachedFrom
<1>9. \A starts : j.pending = NoPlan => (ReachedFrom(starts, routing, NoPlan, j.active) <=> reached(starts))
  BY <1>4 DEF ReachedFrom
<1> DEFINE absent == AbsentRollbackStates(basis)
           prepared == PreparedStates(basis, j.pending)
           activated == ActivatedStates(basis, j.pending)
           back(doc1) == doc = doc1
           A1 == doc = Doc("v2", j.active, NoPlan, FALSE)
           A2 == doc \in {Doc("v2", j.active, j.pending, g) : g \in BOOLEAN}
           A3 == doc = Doc("v2", j.pending, NoPlan, TRUE)
           A4 == doc = Doc("v2", j.pending, NoPlan, FALSE)
           A5 == doc = NoTable
<1>10. ExpectedV2(j, doc, routing) <=>
         \/ A5 /\ routing = Nothing
         \/ /\ j.pending # NoPlan
            /\ \/ A1 /\ reached({Own(basis)})
               \/ A5 /\ (routing \in absent \/ reached(absent))
               \/ A2 /\ reached(prepared)
               \/ A3 /\ reached(activated)
               \/ A4 /\ reached(activated \cup {Own(j.pending)})
         \/ /\ j.pending = NoPlan /\ j.active # NoPlan
            /\ A1 /\ (routing = Own(j.active) \/ reached({Own(j.active)}))
  <2>1. A2 <=> doc = Doc("v2", j.active, j.pending, TRUE) \/ doc = Doc("v2", j.active, j.pending, FALSE)
    OBVIOUS
  <2> HIDE DEF reached
  <2> QED BY <1>8, <1>9, <2>1 DEF ExpectedV2
<1>11. \A x : x \in StartsV2(j, doc) <=>
         \/ A5 /\ x = Nothing
         \/ /\ j.pending # NoPlan
            /\ \/ A1 /\ x = Own(basis)
               \/ A5 /\ x \in absent
               \/ A2 /\ x \in prepared
               \/ (A3 \/ A4) /\ x \in activated
               \/ A4 /\ x = Own(j.pending)
         \/ /\ j.pending = NoPlan /\ j.active # NoPlan
            /\ A1 /\ x = Own(j.active)
  <2>1. doc \in {Doc("v2", j.pending, NoPlan, g) : g \in BOOLEAN} <=> A3 \/ A4
    OBVIOUS
  <2> QED BY <2>1 DEF StartsV2
<1> HIDE DEF basis, R, absent, prepared, activated, A1, A2, A3, A4, A5
<1>12. ASSUME ExpectedV2(j, doc, routing)
       PROVE  \E s \in StartsV2(j, doc) : routing \in StatesAlong(s, R)
  <2>1. CASE A5 /\ routing = Nothing
    <3>1. Nothing \in StartsV2(j, doc) /\ routing \in StatesAlong(Nothing, R)
      BY <1>6, <1>11, <2>1
    <3> QED BY <3>1
  <2>2. CASE j.pending # NoPlan /\ ~(A5 /\ routing = Nothing)
    <3>1. CASE A5 /\ routing \in absent
      BY <1>7, <1>11, <2>2, <3>1
    <3>2. CASE ~(A5 /\ routing \in absent)
      BY <1>10, <1>11, <1>12, <2>2, <3>2
    <3> QED BY <3>1, <3>2
  <2>3. CASE j.pending = NoPlan /\ ~(A5 /\ routing = Nothing)
    <3>1. Own(j.active) \in StartsV2(j, doc) /\ (routing = Own(j.active) \/ reached({Own(j.active)}))
      BY <1>10, <1>11, <1>12, <2>3
    <3> QED BY <1>7, <3>1
  <2> QED BY <2>1, <2>2, <2>3
<1>13. ASSUME NEW s \in StartsV2(j, doc), routing \in StatesAlong(s, R)
       PROVE  ExpectedV2(j, doc, routing)
  <2>1. CASE A5 /\ s = Nothing
    BY <1>6, <1>10, <1>13, <2>1
  <2>2. CASE j.pending # NoPlan /\ ~(A5 /\ s = Nothing)
    BY <1>10, <1>11, <1>13, <2>2
  <2>3. CASE j.pending = NoPlan /\ ~(A5 /\ s = Nothing)
    BY <1>10, <1>11, <1>13, <2>3
  <2> QED BY <2>1, <2>2, <2>3
<1> QED BY <1>12, <1>13 DEF R

\* A removal order is made of removals.
LEMMA RemovalsAre ==
    ASSUME NEW j \in Journals
    PROVE  RemovalsV2(j) \in Seq(RemovalSteps) /\ Len(RemovalsV2(j)) \in Nat
<1>1. j.active \in PlansOrNone /\ j.pending \in PlansOrNone
  BY DEF Journals
<1> QED BY <1>1, PlanLanes, RollbackStepsAre DEF RemovalsV2

\* A cleanup starts with all removals ahead of it,
LEMMA UnderWayStarts ==
    ASSUME NEW j \in Journals, j.cleanup, NEW doc, NEW routing, ExpectedV2(j, doc, routing)
    PROVE  UnderWay(j, doc, routing, RemovalsV2(j))
<1> DEFINE R == RemovalsV2(j)
<1>1. R \in Seq(RemovalSteps) /\ Len(R) \in Nat
  BY RemovalsAre
<1>2. PICK s \in StartsV2(j, doc) : routing \in StatesAlong(s, R)
  BY ExpectedStarts
<1>3. PICK m \in 0..Len(R) : routing = StatesAfter(s, R)[m]
  BY <1>2 DEF StatesAlong
<1> HIDE DEF R
<1>4. 0 \in 0..Len(R) /\ 0 <= m /\ R = SubSeq(R, 0 + 1, Len(R))
  BY <1>1, <1>3
<1> QED BY <1>3, <1>4 DEF UnderWay, R

\* is always where the journal expects it to be,
LEMMA UnderWayExpected ==
    ASSUME NEW j \in Journals, j.cleanup, NEW doc, NEW routing, NEW todo,
           UnderWay(j, doc, routing, todo)
    PROVE  ExpectedV2(j, doc, routing)
<1>1. \E s \in StartsV2(j, doc) : routing \in StatesAlong(s, RemovalsV2(j))
  BY DEF UnderWay, StatesAlong
<1> QED BY <1>1, ExpectedStarts

\* has one removal less ahead of it after each, whatever an earlier attempt
\* removed already,
LEMMA UnderWayMoves ==
    ASSUME NEW j \in Journals, NEW doc, NEW routing, NEW todo \in Seq(RemovalSteps), todo # <<>>,
           UnderWay(j, doc, routing, todo)
    PROVE  UnderWay(j, doc, ApplyRoutingStep(routing, Head(todo)), Tail(todo))
<1> DEFINE R == RemovalsV2(j)
           N == Len(R)
           owned == Parts(Own(j.active).routes \cup Own(j.pending).routes,
                          Own(j.active).rules \cup Own(j.pending).rules)
<1>1. R \in Seq(RemovalSteps) /\ N \in Nat
  BY RemovalsAre
<1>2. PICK s \in StartsV2(j, doc), k \in 0..N, m \in 0..N :
          k <= m /\ todo = SubSeq(R, k + 1, N) /\ routing = StatesAfter(s, R)[m]
  BY DEF UnderWay
<1> DEFINE after == StatesAfter(s, R)
<1>3. s \in owned
  BY StartsOwned
<1> HIDE DEF R, owned
<1>4. after = [i \in 0..N |-> IF i = 0 THEN s ELSE ApplyRoutingStep(after[i - 1], R[i])]
  BY <1>1, StatesFollow
<1>5. after[m] \in owned /\ \A i \in 1..m : Gone(after[m], R[i])
  BY <1>1, <1>2, <1>3, GoneAlong DEF owned
<1> HIDE DEF after, N
<1>6. k < N
  <2> SUFFICES ASSUME k = N PROVE FALSE
    BY <1>1, <1>2
  <2>1. todo = <<>>
    BY <1>1, <1>2
  <2> QED BY <2>1
<1>7. k + 1 \in 1..N /\ k + 1 \in 0..N /\ R[k + 1] \in RemovalSteps
  BY <1>1, <1>2, <1>6 DEF N
<1>8. Head(todo) = R[k + 1] /\ Tail(todo) = SubSeq(R, (k + 1) + 1, N)
  <2>1. Len(todo) = N - k /\ \A i \in 1..(N - k) : todo[i] = R[k + i]
    BY <1>1, <1>2, <1>6 DEF N
  <2>2. Head(todo) = R[k + 1]
    BY <1>1, <1>2, <1>6, <2>1
  <2>3. Tail(todo) \in Seq(RemovalSteps) /\ Len(Tail(todo)) = N - k - 1
        /\ \A i \in 1..(N - k - 1) : Tail(todo)[i] = R[k + 1 + i]
    <3>1. Tail(todo) \in Seq(RemovalSteps) /\ Len(Tail(todo)) = Len(todo) - 1
          /\ \A i \in 1..(Len(todo) - 1) : Tail(todo)[i] = todo[i + 1]
      OBVIOUS
    <3>2. ASSUME NEW i \in 1..(N - k - 1) PROVE Tail(todo)[i] = R[k + 1 + i]
      <4>1. i + 1 \in 1..(N - k) /\ i \in 1..(Len(todo) - 1) /\ k + (i + 1) = k + 1 + i
        BY <1>1, <1>2, <1>6, <2>1
      <4>2. todo[i + 1] = R[k + (i + 1)]
        BY <2>1, <4>1
      <4> QED BY <3>1, <4>1, <4>2
    <3> QED BY <1>1, <1>2, <1>6, <2>1, <3>1, <3>2
  <2>4. LET rest == SubSeq(R, (k + 1) + 1, N)
        IN  rest \in Seq(RemovalSteps) /\ Len(rest) = N - k - 1
            /\ \A i \in 1..(N - k - 1) : rest[i] = R[k + 1 + i]
    BY <1>1, <1>2, <1>6, <1>7 DEF N
  <2>5. Tail(todo) = SubSeq(R, (k + 1) + 1, N)
    <3> DEFINE a == Tail(todo)
               b == SubSeq(R, (k + 1) + 1, N)
    <3>1. a \in Seq(RemovalSteps) /\ b \in Seq(RemovalSteps) /\ Len(a) = Len(b)
          /\ \A i \in 1..Len(a) : a[i] = b[i]
      BY <2>3, <2>4
    <3> HIDE DEF a, b
    <3>2. a = b
      BY <3>1
    <3> QED BY <3>2 DEF a, b
  <2> QED BY <2>2, <2>5
<1>9. CASE m = k
  <2>1. after[k + 1] = ApplyRoutingStep(routing, Head(todo))
    BY <1>1, <1>2, <1>4, <1>7, <1>8, <1>9 DEF after
  <2> DEFINE n == k + 1
  <2>2. /\ n \in 0..N /\ n <= n /\ Tail(todo) = SubSeq(R, n + 1, N)
        /\ ApplyRoutingStep(routing, Head(todo)) = StatesAfter(s, R)[n]
    BY <1>1, <1>7, <1>8, <2>1 DEF after
  <2> HIDE DEF n
  <2> QED BY <2>2 DEF UnderWay, R, N
<1>10. CASE m # k
  <2>1. k + 1 <= m /\ k + 1 \in 1..m
    BY <1>1, <1>2, <1>10
  <2>2. Gone(after[m], R[k + 1])
    BY <1>5, <2>1
  <2>3. ApplyRoutingStep(after[m], R[k + 1]) = after[m]
    BY <1>5, <1>7, <2>2, RemovedIsGone DEF owned
  <2>4. ApplyRoutingStep(routing, Head(todo)) = after[m]
    BY <1>2, <1>8, <2>3 DEF after
  <2> DEFINE n == k + 1
  <2>5. /\ n \in 0..N /\ m \in 0..N /\ n <= m /\ Tail(todo) = SubSeq(R, n + 1, N)
        /\ ApplyRoutingStep(routing, Head(todo)) = StatesAfter(s, R)[m]
    BY <1>2, <1>7, <1>8, <2>1, <2>4 DEF after
  <2> HIDE DEF n
  <2> QED BY <2>5 DEF UnderWay, R, N
<1> QED BY <1>9, <1>10

\* and leaves nothing when none is ahead of it.
LEMMA UnderWayEnds ==
    ASSUME NEW j \in Journals, NEW doc, NEW routing, UnderWay(j, doc, routing, <<>>)
    PROVE  routing = Nothing
<1> DEFINE R == RemovalsV2(j)
           N == Len(R)
<1>1. R \in Seq(RemovalSteps) /\ N \in Nat
  BY RemovalsAre
<1>2. PICK s \in StartsV2(j, doc), k \in 0..N, m \in 0..N :
          k <= m /\ <<>> = SubSeq(R, k + 1, N) /\ routing = StatesAfter(s, R)[m]
  BY DEF UnderWay
<1>3. k = N
  <2> HIDE DEF R
  <2> SUFFICES ASSUME k < N PROVE FALSE
    BY <1>1, <1>2
  <2>1. Len(SubSeq(R, k + 1, N)) = N - k
    BY <1>1, <1>2
  <2>2. Len(SubSeq(R, k + 1, N)) = 0
    <3>1. Len(<<>>) = 0
      OBVIOUS
    <3> QED BY <1>2, <3>1
  <2> HIDE DEF N
  <2> QED BY <1>1, <1>2, <2>1, <2>2
<1>4. m = N
  BY <1>1, <1>2, <1>3
<1>5. j.active \in PlansOrNone /\ j.pending \in PlansOrNone
  BY DEF Journals
<1>6. StateAfter(s, R) = Nothing
  BY <1>5, PlanLanes, StartsOwned, RollbackLeavesNothing DEF RemovalsV2
<1> QED BY <1>2, <1>4, <1>6 DEF StateAfter

-----------------------------------------------------------------------------
(* What nobody interfered with *)

\* Removals leave what is still accepted, of orphans and of a marked schema-1
\* record.
LEMMA AcceptsLess ==
    ASSUME NEW j \in Journals, NEW doc, NEW routing \in Routings, NEW less \in Routings,
           Within(less, routing), Accepts(j, doc, routing),
           j.kind = "orphan" \/ (j.kind = "v1" /\ j.cleanup)
    PROVE  Accepts(j, doc, less)
<1>1. routing = Nothing => less = Nothing
  BY DEF Within, Nothing, Routings, Parts
<1> QED BY <1>1 DEF Accepts, Within, ExpectedV1

\* A record may be marked for cleanup whenever it may be cleaned up.
LEMMA AcceptsMarked ==
    ASSUME NEW j \in Journals, NEW doc, NEW routing, Legacy(j),
           j.kind = "v1" => ExpectedV1(j.active, ~j.cleanup, doc, routing),
           j.kind = "v2" => j.inner = NoPlan /\ ExpectedV2(j, doc, routing)
    PROVE  LET c == [j EXCEPT !.cleanup = TRUE] IN Accepts(c, doc, routing)
<1> DEFINE c == [j EXCEPT !.cleanup = TRUE]
<1>1. /\ c \in Journals /\ c.kind = j.kind /\ c.active = j.active /\ c.pending = j.pending
      /\ c.lost = j.lost /\ c.cleanup = TRUE /\ c.inner = j.inner
  BY Marked
<1> SUFFICES Accepts(c, doc, routing)
  OBVIOUS
<1> HIDE DEF c
<1>2. CASE j.kind = "v1"
  BY <1>1, <1>2 DEF Accepts, ExpectedV1, Within
<1>3. CASE j.kind = "v2"
  <2>1. ExpectedV2(c, doc, routing)
    BY <1>1, <1>3 DEF ExpectedV2
  <2> QED BY <1>1, <1>3, <2>1 DEF Accepts
<1> QED BY <1>2, <1>3 DEF Legacy

\* An orphan journal accepts what was captured.
LEMMA AcceptsCaptured ==
    ASSUME NEW own, own.doc = NoTable => own.routing = Nothing
    PROVE  Accepts(OrphanJournal(own), own.doc, own.routing)
<1> DEFINE j == OrphanJournal(own)
<1>1. j.kind = "orphan" /\ j.doc = own.doc /\ j.routing = own.routing
  BY FieldsOrphan
<1> HIDE DEF j
<1>2. Accepts(j, own.doc, own.routing)
  BY <1>1 DEF Accepts, Within
<1> QED BY <1>2 DEF j

\* The first of the removals ahead takes its part of what is live.
LEMMA CoveredLess ==
    ASSUME NEW routing \in Routings, NEW todo \in Seq(RemovalSteps), todo # <<>>, Covered(routing, todo)
    PROVE  Covered(ApplyRoutingStep(routing, Head(todo)), Tail(todo))
<1> DEFINE less == ApplyRoutingStep(routing, Head(todo))
           step == Head(todo)
<1>1. step \in RemovalSteps /\ step = todo[1] /\ Len(todo) \in Nat
      /\ Len(Tail(todo)) = Len(todo) - 1 /\ \A i \in 1..(Len(todo) - 1) : Tail(todo)[i] = todo[i + 1]
  OBVIOUS
<1>2. less \in Routings /\ Within(less, routing) /\ Gone(less, step)
  BY <1>1, RemovedIsGone, RemovalStays DEF Routings
<1> HIDE DEF less, step
<1>3. \A i \in 1..Len(todo) : i # 1 => i - 1 \in 1..Len(Tail(todo)) /\ Tail(todo)[i - 1] = todo[i]
  BY <1>1
<1>4. ASSUME NEW r \in less.rules
      PROVE  \E i \in 1..Len(Tail(todo)) : Tail(todo)[i] = DeleteRule(r.fam, r.tab)
  <2>1. r \in routing.rules /\ r \in Rules
    BY <1>2 DEF Within, Routings, Parts
  <2>2. PICK i \in 1..Len(todo) : todo[i] = DeleteRule(r.fam, r.tab)
    BY <2>1 DEF Covered
  <2>3. CASE i = 1
    <3>1. step.op = "delrule" /\ step.rule = Rule(r.fam, r.tab)
      BY <1>1, <2>2, <2>3 DEF DeleteRule
    <3>2. r = Rule(r.fam, r.tab)
      BY <2>1 DEF Rules, Rule
    <3> QED BY <1>2, <3>1, <3>2 DEF Gone
  <2> QED BY <1>3, <2>2, <2>3
<1>5. ASSUME NEW r \in less.routes
      PROVE  \E i \in 1..Len(Tail(todo)) : Tail(todo)[i] = FlushTable(r.fam, r.tab)
  <2>1. r \in routing.routes
    BY <1>2 DEF Within
  <2>2. PICK i \in 1..Len(todo) : todo[i] = FlushTable(r.fam, r.tab)
    BY <2>1 DEF Covered
  <2>3. CASE i = 1
    <3>1. step.op = "flush" /\ step.fam = r.fam /\ step.tab = r.tab
      BY <1>1, <2>2, <2>3 DEF FlushTable
    <3> QED BY <1>2, <3>1 DEF Gone
  <2> QED BY <1>3, <2>2, <2>3
<1> QED BY <1>4, <1>5 DEF Covered, less, step

\* When nothing is left to remove, nothing is live.
LEMMA CoveredEnds ==
    ASSUME NEW routing \in Routings, Covered(routing, <<>>)
    PROVE  routing = Nothing
<1>1. Len(<<>>) = 0 /\ 1..0 = {}
  OBVIOUS
<1>2. routing.rules = {} /\ routing.routes = {}
  BY <1>1 DEF Covered
<1> QED BY <1>2 DEF Nothing, Routings, Parts

\* As long as nobody interfered, every step leaves what is live acceptable.
LEMMA UndisturbedKept ==
    ASSUME TypedLeftovers, TypedLeftovers', Control, Control', Records, Records', Shares,
           Undisturbed, [Next]_vars
    PROVE  Undisturbed'
<1> DEFINE doc == kern.doc
           routing == kern.routing
           Ok == /\ Accepts(journal', kern'.doc, kern'.routing)
                 /\ Wraps(mem'.record, kern'.doc, kern'.routing) /\ Midway(kern.doc, kern.routing)'
<1>0. /\ job \in Jobs /\ mem \in Mems /\ hist \in Histories /\ journal \in Journals
      /\ job' \in Jobs /\ mem' \in Mems /\ journal' \in Journals
      /\ mem.record \in Journals /\ mem'.record \in Journals
      /\ kern \in [doc: Docs, routing: Routings, svm: SUBSET Devices]
      /\ kern' \in [doc: Docs, routing: Routings, svm: SUBSET Devices]
      /\ kern.routing \in Routings
      /\ job.op \in {"none", "orphan", "v1", "v2"}
  BY DEF TypedLeftovers, Mems, Histories, Jobs
<1>00. /\ NoJob.op = "none" /\ NoJob.pc = "idle"
       /\ NoJournal.kind = "none" /\ NoMemory.record = NoJournal
  BY DEF NoJob, NoJournal, NoMemory
<1>1. CASE hist'.touched
  BY <1>1 DEF Undisturbed
<1>2. CASE hist.touched /\ ~hist'.touched
  <2>1. CASE UNCHANGED hist
    BY <1>2, <2>1
  <2>2. CASE Undo \/ Verified \/ (\E x \in BOOLEAN : hist' = [hist EXCEPT !.owed = x])
             \/ hist' = [hist EXCEPT !.reported = TRUE]
    BY <1>0, <1>2, <2>2 DEF Undo, Verified, Histories
  <2>3. CASE \E what \in Disturbances : Other(what)
    BY <1>0, <1>2, <2>3 DEF Other, Histories
  <2>4. CASE Record \/ Note \/ IntentV1 \/ Unwrap \/ IntentV2 \/ Clear
    <3>1. \E j, memory, next : Save(j, memory, next)
      BY <2>4, Zenon DEF Record, Note, IntentV1, Unwrap, IntentV2, Clear
    <3>2. hist.owed \in BOOLEAN
      BY <1>0 DEF Histories
    <3> QED BY <2>2, <3>1, <3>2 DEF Save
  <2> QED
    BY <2>1, <2>2, <2>3, <2>4
    DEF Next, Helper, HandedOver, vars, Inspect, Cleanup, Recover, Refresh, Activate, Still, Activates,
        Capture, Load, RemoveOrphan, DropOrphan, CheckV1, RemoveV1, VerifyV1, CheckV2, VerifyV2,
        RemoveV2, DropLegacy, Final, Settle, CommandFails, Crash
<1>3. CASE ~hist.touched /\ ~hist'.touched
  <2>1. /\ foreign = {} /\ Accepts(journal, doc, routing) /\ Wraps(mem.record, doc, routing)
        /\ Midway(doc, routing)
    BY <1>3 DEF Undisturbed, Cleanable
  <2>s. Seen = routing
    BY <2>1, SeenTyped
  <2>2. foreign' = {} /\ ~ \E what \in Disturbances : Other(what)
    <3>1. ~ \E what \in Disturbances : Other(what)
      BY <1>0, <1>3 DEF Other, Histories
    <3> QED
      BY <2>1, <3>1
      DEF Next, Helper, HandedOver, vars, Inspect, Cleanup, Recover, Refresh, Activate, Still, Activates,
          Capture, Record, Load, Note, RemoveOrphan, DropOrphan, CheckV1, IntentV1, RemoveV1, VerifyV1,
          Unwrap, CheckV2, IntentV2, VerifyV2, RemoveV2, DropLegacy, Final, Settle, Clear, CommandFails,
          Crash, Undo, Removed, Flushed, DropTable
  <2> SUFFICES Ok
    BY <2>2 DEF Undisturbed, Cleanable
  <2>3. CASE job'.pc \notin {"record", "note", "run", "drop", "intent", "verify"}
        /\ UNCHANGED <<journal, mem>> /\ kern'.doc = doc /\ kern'.routing = routing
    BY <2>1, <2>3 DEF Midway, At
  <2>4. CASE job' = NoJob /\ UNCHANGED <<journal, mem>> /\ kern' = kern
    BY <1>00, <2>3, <2>4
  <2>5. CASE UNCHANGED vars \/ Undo
    BY <2>1, <2>5 DEF vars, Undo, Midway, At
  <2>6. CASE Inspect \/ Cleanup \/ Recover \/ Refresh \/ Activate
    <3>1. UNCHANGED <<journal, kern>> /\ mem' \in {mem, Adopted}
      BY <2>6 DEF Inspect, Cleanup, Recover, Refresh, Activate, Still, Reconciled
    <3>2. job'.pc \in {"idle", "load", "check", "clear", "capture", "activate"}
      <4>1. CASE UNCHANGED job
        BY <1>00, <2>6, <4>1 DEF Inspect, Cleanup, Recover, Refresh, Activate, Idle
      <4>2. CASE \E op, then : \E pc \in {"load", "check", "clear", "capture", "activate"} : Begin(op, pc, then)
        BY <1>0, <4>2, BegunJob
      <4>3. Cleanup => \E op, then : \E pc \in {"load", "check", "clear"} : Begin(op, pc, then)
        BY CleanupBegins
      <4> QED BY <2>6, <4>1, <4>2, <4>3 DEF Inspect, Recover, Refresh, Activate
    <3>3. Midway(kern.doc, kern.routing)'
      BY <3>2 DEF Midway, At
    <3>4. Wraps(mem'.record, doc, routing)
      <4>1. Adopted.record \in {journal, mem.record, NoJournal}
        BY AdoptedTyped
      <4>2. Wraps(journal, doc, routing) /\ Wraps(NoJournal, doc, routing)
        BY <1>00, <2>1 DEF Wraps, Accepts
      <4> QED BY <2>1, <3>1, <4>1, <4>2
    <3> QED BY <2>1, <3>1, <3>3, <3>4
  <2>7. CASE Activates \/ CommandFails
    BY <2>4, <2>7 DEF Activates, CommandFails, Refuse
  <2>8. CASE Crash
    <3>1. Wraps(mem'.record, doc, routing)
      BY <1>00, <2>8 DEF Crash, Wraps
    <3> QED BY <1>00, <2>1, <2>8, <3>1 DEF Crash, Midway, At
  <2>9. CASE Capture \/ Load
    <3> DEFINE own == [doc |-> kern.doc, routing |-> Seen]
    <3>1. CASE job' # NoJob
      <4>1. /\ UNCHANGED <<journal, mem, kern>>
            /\ \E pc \in {"record", "note"} : job' = [job EXCEPT !.pc = pc, !.own = own]
            /\ doc = NoTable => routing = Nothing
        BY <2>9, <2>s, <3>1 DEF Capture, Load, Refuse, Orphaned, Resumable
      <4>2. own.doc = doc /\ own.routing = routing
        BY <2>s
      <4> HIDE DEF own
      <4>3. job'.pc \in {"record", "note"} /\ job'.own.doc = doc /\ job'.own.routing = routing
        BY <1>0, <4>1, <4>2 DEF Jobs
      <4> QED BY <2>1, <4>1, <4>3 DEF Midway, At
    <3>2. UNCHANGED <<journal, mem, kern>>
      BY <2>9 DEF Capture, Load
    <3> QED BY <2>4, <3>1, <3>2
  <2>10. CASE Record \/ Note
    <3>1. At("orphan", {"record", "note"}) /\ UNCHANGED <<mem, kern>>
      BY <1>0, <2>10 DEF Record, Note, At, Control, Save
    <3>2. job.own.doc = doc /\ job.own.routing = routing /\ (doc = NoTable => routing = Nothing)
      BY <2>1, <3>1 DEF Midway, At
    <3>3. journal' \in {journal, OrphanJournal(job.own)}
      BY <2>10 DEF Record, Note, Save
    <3>4. Accepts(OrphanJournal(job.own), doc, routing)
      BY <3>2, AcceptsCaptured
    <3>5. Accepts(journal', doc, routing)
      BY <2>1, <3>3, <3>4
    <3>6. job' = NoJob \/ (job'.op = "orphan" /\ job'.pc \in {"load", "run"} /\ job'.own = job.own)
      BY <1>0, <2>10, <3>1 DEF Record, Note, Save, Refuse, Jobs, At
    <3>7. Midway(kern.doc, kern.routing)'
      BY <1>00, <3>1, <3>2, <3>6 DEF Midway, At
    <3> QED BY <2>1, <3>1, <3>5, <3>7
  <2>11. CASE RemoveOrphan
    <3> DEFINE own == job.own.routing
               rule == CHOOSE r \in own.rules : TRUE
               route == CHOOSE r \in own.routes : TRUE
               step == IF own.rules # {} THEN DeleteRule(rule.fam, rule.tab)
                       ELSE FlushTable(route.fam, route.tab)
    <3>0. /\ own \in Routings /\ own = routing /\ job.own.doc = doc /\ job.op = "orphan"
          /\ doc = NoTable => routing = Nothing
          /\ journal.kind = "orphan"
      BY <1>0, <2>1, <2>11 DEF Jobs, RemoveOrphan, Midway, At, Records
    <3>1. CASE own # Nothing
      <4>1. step \in RemovalSteps
        BY <3>0, <3>1, OrphanStep
      <4>2. Removed(step) /\ job' = [job EXCEPT !.pc = "note", !.own.routing = ApplyRoutingStep(@, step)]
            /\ UNCHANGED <<journal, mem>>
        BY <2>11, <3>1 DEF RemoveOrphan
      <4> HIDE DEF step
      <4>3. /\ job'.op = "orphan" /\ job'.pc = "note" /\ job'.own.doc = job.own.doc
            /\ job'.own.routing = ApplyRoutingStep(job.own.routing, step)
        BY <1>0, <3>0, <4>2 DEF Jobs
      <4>4. /\ kern'.routing = ApplyRoutingStep(kern.routing, step) /\ kern'.doc = kern.doc
            /\ kern'.routing \in Routings /\ Within(kern'.routing, kern.routing)
        BY <1>0, <4>1, <4>2, RemovedTyped
      <4>5. Accepts(journal', kern'.doc, kern'.routing)
        BY <1>0, <2>1, <3>0, <4>2, <4>4, AcceptsLess
      <4>6. Wraps(mem'.record, kern'.doc, kern'.routing)
        BY <1>0, <3>0, <4>2 DEF Wraps, Records, Remembered, Legacy
      <4>7. Midway(kern.doc, kern.routing)'
        BY <3>0, <3>1, <4>3, <4>4 DEF Midway, At
      <4> QED BY <4>5, <4>6, <4>7
    <3>2. CASE own = Nothing
      <4>1. UNCHANGED <<journal, mem, kern>> /\ (job' = NoJob \/ Goto("final") \/ Goto("drop"))
        BY <2>11, <3>2 DEF RemoveOrphan, Refuse
      <4>2. CASE job' = NoJob
        BY <2>4, <4>1, <4>2
      <4>3. CASE job' # NoJob
        <5>1. job'.op = "orphan" /\ job'.own = job.own /\ job'.pc \in {"final", "drop"}
          BY <1>0, <3>0, <4>1, <4>3, MovedJob
        <5>2. Midway(kern.doc, kern.routing)'
          BY <3>0, <3>2, <4>1, <5>1 DEF Midway, At
        <5> QED BY <2>1, <4>1, <5>2
      <4> QED BY <4>2, <4>3
    <3> QED BY <3>1, <3>2
  <2>12. CASE DropOrphan
    <3>1. /\ journal.kind = "orphan" /\ job.op = "orphan" /\ routing = Nothing
          /\ job.own.routing = routing /\ UNCHANGED <<journal, mem>>
      BY <2>1, <2>12 DEF DropOrphan, Records, At, Midway
    <3>2. kern'.doc = NoTable /\ kern'.routing = Nothing
      BY <2>12, <3>1, DroppedTyped DEF DropOrphan
    <3>3. job'.op = "orphan" /\ job'.pc = "note" /\ job'.own.doc = NoTable /\ job'.own.routing = Nothing
      BY <1>0, <2>12, <3>1 DEF DropOrphan, Jobs
    <3>4. Midway(kern.doc, kern.routing)'
      BY <3>2, <3>3 DEF Midway, At
    <3>5. Accepts(journal', kern'.doc, kern'.routing)
      <4>1. \A own : Within(Nothing, own)
        BY DEF Within, Nothing
      <4> QED BY <3>1, <3>2, <4>1 DEF Accepts
    <3>6. Wraps(mem'.record, kern'.doc, kern'.routing)
      BY <3>1 DEF Wraps, Records, Remembered, Legacy
    <3> QED BY <3>4, <3>5, <3>6
  <2>13. CASE CheckV1
    <3>1. UNCHANGED <<journal, mem, kern>> /\ job.op = "v1"
      BY <2>13 DEF CheckV1
    <3>2. CASE Goto("clear") \/ job' = NoJob
      BY <1>0, <2>3, <2>4, <3>1, <3>2, MovedJob
    <3>3. CASE ~(Goto("clear") \/ job' = NoJob)
      <4>1. LiveV1(mem.record, ~mem.record.cleanup) /\ job' = [job EXCEPT !.pc = "intent", !.own.doc = doc]
        BY <2>13, <3>3 DEF CheckV1, Refuse
      <4>2. job'.op = "v1" /\ job'.pc = "intent"
        BY <1>0, <3>1, <4>1 DEF Jobs
      <4>3. ExpectedV1(mem.record.active, ~mem.record.cleanup, doc, routing)
        BY <2>s, <4>1 DEF LiveV1, ExpectedV1
      <4> QED BY <2>1, <3>1, <4>2, <4>3 DEF Midway, At
    <3> QED BY <3>2, <3>3
  <2>14. CASE IntentV1
    <3> DEFINE c == [mem.record EXCEPT !.cleanup = TRUE]
               todo == Steps(OwnV1(mem.record.active))
    <3>1. /\ job.op = "v1" /\ job.pc = "intent" /\ UNCHANGED <<mem, kern>>
          /\ mem.record.kind = "v1"
      BY <1>0, <2>14 DEF IntentV1, Save, Control
    <3>2. ExpectedV1(mem.record.active, ~mem.record.cleanup, doc, routing)
      BY <2>1, <3>1 DEF Midway, At
    <3>3. Accepts(c, doc, routing)
      BY <1>0, <3>1, <3>2, AcceptsMarked DEF Legacy
    <3>4. journal' \in {journal, c} /\ (job' = NoJob \/ job' = [job EXCEPT !.pc = "run", !.todo = todo])
      BY <2>14 DEF IntentV1, Save, Refuse
    <3>5. Covered(routing, todo)
      <4>1. mem.record.active \in PlansOrNone
        BY <1>0 DEF Journals
      <4>2. Within(routing, OwnV1(mem.record.active))
        BY <3>2 DEF ExpectedV1, Within
      <4> QED BY <4>1, <4>2, StepsOfV1 DEF Covered, Within
    <3> HIDE DEF c, todo
    <3>6. job' = NoJob \/ (job'.op = "v1" /\ job'.pc = "run" /\ job'.todo = todo)
      BY <1>0, <3>1, <3>4 DEF Jobs
    <3>7. Midway(kern.doc, kern.routing)'
      BY <1>00, <3>1, <3>5, <3>6 DEF Midway, At
    <3>8. Accepts(journal', doc, routing)
      BY <2>1, <3>3, <3>4
    <3> QED BY <2>1, <3>1, <3>7, <3>8
  <2>15. CASE RemoveV1
    <3> DEFINE step == Head(job.todo)
    <3>1. /\ job.op = "v1" /\ job.pc = "run" /\ job.todo # <<>> /\ job.todo \in Seq(RemovalSteps)
          /\ UNCHANGED <<journal, mem>>
      BY <1>0, <2>15 DEF RemoveV1, Jobs
    <3>2. CASE StepReads(step)
      <4>1. Removed(step) /\ job' = [job EXCEPT !.todo = Tail(@)]
        BY <2>15, <3>2 DEF RemoveV1
      <4>2. job'.op = "v1" /\ job'.pc = "run" /\ job'.todo = Tail(job.todo)
        BY <1>0, <3>1, <4>1 DEF Jobs
      <4>3. step \in RemovalSteps
        BY <3>1, HeadTail
      <4> HIDE DEF step
      <4>4. /\ kern'.routing = ApplyRoutingStep(kern.routing, step) /\ kern'.doc = kern.doc
            /\ kern'.routing \in Routings /\ Within(kern'.routing, kern.routing)
        BY <1>0, <4>1, <4>3, RemovedTyped
      <4>5. journal.kind = "v1" /\ journal.cleanup /\ mem.record.kind = "v1"
        <5>1. journal = [mem.record EXCEPT !.cleanup = TRUE] /\ mem.record.kind = "v1"
          BY <3>1 DEF Records, At, Control
        <5> QED BY <1>0, <5>1, Marked
      <4>6. Accepts(journal', kern'.doc, kern'.routing)
        BY <1>0, <2>1, <3>1, <4>4, <4>5, AcceptsLess
      <4>7. Wraps(mem'.record, kern'.doc, kern'.routing)
        BY <3>1, <4>5 DEF Wraps
      <4>8. Covered(kern'.routing, job'.todo)
        <5>1. Covered(routing, job.todo)
          BY <2>1, <3>1 DEF Midway, At
        <5> QED BY <1>0, <3>1, <4>2, <4>4, <5>1, CoveredLess DEF step
      <4>9. Midway(kern.doc, kern.routing)'
        BY <4>2, <4>8 DEF Midway, At
      <4> QED BY <4>6, <4>7, <4>9
    <3>3. CASE ~StepReads(step)
      BY <2>4, <2>15, <3>3 DEF RemoveV1, Refuse
    <3> QED BY <3>2, <3>3
  <2>16. CASE VerifyV1
    <3>1. UNCHANGED <<journal, mem, kern>> /\ job.op = "v1" /\ job.pc = "run" /\ job.todo = <<>>
      BY <2>16 DEF VerifyV1
    <3>2. routing = Nothing
      BY <1>0, <2>1, <3>1, CoveredEnds DEF Midway, At
    <3>3. job' = NoJob \/ Goto("final") \/ Goto("drop")
      BY <2>16 DEF VerifyV1, Refuse
    <3>4. CASE job' # NoJob
      <4>1. job'.op = "v1" /\ job'.pc \in {"final", "drop"}
        BY <1>0, <3>1, <3>3, <3>4, MovedJob
      <4>2. Midway(kern.doc, kern.routing)'
        BY <3>1, <3>2, <4>1 DEF Midway, At
      <4> QED BY <2>1, <3>1, <4>2
    <3> QED BY <2>4, <3>1, <3>4
  <2>17. CASE Unwrap
    <3> DEFINE v1 == JournalV1(mem.record.inner, NoPlan)
    <3>1. ExpectedV1(mem.record.inner, TRUE, doc, routing) /\ mem.record.kind = "v2"
      BY <1>0, <2>1, <2>17 DEF Unwrap, Wraps, Control
    <3>2. v1.kind = "v1" /\ v1.active = mem.record.inner /\ v1.cleanup = FALSE
      BY DEF JournalV1, NoJournal
    <3>3. Accepts(v1, doc, routing) /\ Wraps(v1, doc, routing)
      <4> HIDE DEF v1
      <4> QED BY <3>1, <3>2 DEF Accepts, Wraps
    <3>4. /\ journal' \in {journal, v1} /\ mem' \in {mem, [mem EXCEPT !.record = v1]}
          /\ job' \in {NoJob, [job EXCEPT !.op = "v1"]} /\ job.pc = "check" /\ kern' = kern
      BY <2>17 DEF Unwrap, Save, Refuse
    <3> HIDE DEF v1
    <3>5. mem'.record \in {mem.record, v1} /\ job'.pc \in {"idle", "check"}
      BY <1>0, <1>00, <3>4 DEF Mems, Jobs
    <3>6. Midway(kern.doc, kern.routing)'
      BY <3>5 DEF Midway, At
    <3>7. Accepts(journal', doc, routing) /\ Wraps(mem'.record, doc, routing)
      BY <2>1, <3>3, <3>4, <3>5
    <3> QED BY <3>4, <3>6, <3>7
  <2>18. CASE CheckV2
    <3>1. UNCHANGED <<journal, mem, kern>> /\ job.op = "v2"
      BY <2>18 DEF CheckV2
    <3>2. CASE job' # NoJob
      <4>1. Goto("intent") /\ ExpectedV2(mem.record, doc, routing)
        BY <2>18, <2>s, <3>2 DEF CheckV2, Refuse, LiveV2
      <4>2. job'.op = "v2" /\ job'.pc = "intent"
        BY <1>0, <3>1, <4>1, MovedJob
      <4>3. Midway(kern.doc, kern.routing)'
        BY <3>1, <4>1, <4>2 DEF Midway, At
      <4> QED BY <2>1, <3>1, <4>3
    <3> QED BY <2>4, <3>1, <3>2
  <2>19. CASE IntentV2
    <3> DEFINE c == [mem.record EXCEPT !.cleanup = TRUE]
               todo == RollbackRemovals(c.active, c.pending)
    <3>1. /\ job.op = "v2" /\ job.pc = "intent" /\ kern' = kern
          /\ mem.record.kind = "v2" /\ mem.record.inner = NoPlan
      BY <1>0, <2>19 DEF IntentV2, Control, Records, Save
    <3>2. ExpectedV2(mem.record, doc, routing)
      BY <2>1, <3>1 DEF Midway, At
    <3>3. Accepts(c, doc, routing)
      BY <1>0, <3>1, <3>2, AcceptsMarked DEF Legacy
    <3>4. c \in Journals /\ c.kind = "v2" /\ c.inner = NoPlan /\ c.cleanup
      BY <1>0, <3>1, Marked
    <3>5. \/ journal' \in {journal, c} /\ job' = NoJob /\ mem' = mem
          \/ journal' = c /\ mem' = [mem EXCEPT !.record = c]
             /\ job' = [job EXCEPT !.pc = "verify", !.todo = todo]
      BY <2>19 DEF IntentV2, Save, Refuse
    <3>6. todo = RemovalsV2(c)
      BY DEF RemovalsV2
    <3> HIDE DEF c, todo
    <3>7. UnderWay(c, doc, routing, todo)
      BY <3>3, <3>4, <3>6, UnderWayStarts DEF Accepts
    <3>8. CASE job' = NoJob /\ mem' = mem /\ journal' \in {journal, c}
      <4>1. Midway(kern.doc, kern.routing)'
        BY <1>00, <3>8 DEF Midway, At
      <4> QED BY <2>1, <3>1, <3>3, <3>8, <4>1
    <3>9. CASE /\ journal' = c /\ mem' = [mem EXCEPT !.record = c]
               /\ job' = [job EXCEPT !.pc = "verify", !.todo = todo]
      <4>1. mem'.record = c /\ job'.op = "v2" /\ job'.pc = "verify" /\ job'.todo = todo
        BY <1>0, <3>1, <3>9 DEF Mems, Jobs
      <4>2. Midway(kern.doc, kern.routing)'
        BY <3>1, <3>7, <4>1 DEF Midway, At
      <4>3. Wraps(c, doc, routing)
        BY <3>4 DEF Wraps
      <4> QED BY <3>1, <3>3, <3>9, <4>1, <4>2, <4>3
    <3> QED BY <3>5, <3>8, <3>9
  <2>20. CASE VerifyV2
    <3>1. UNCHANGED <<journal, mem, kern>> /\ job.op = "v2" /\ job.pc = "verify"
      BY <2>20 DEF VerifyV2
    <3>2. UnderWay(mem.record, doc, routing, job.todo)
      BY <2>1, <3>1 DEF Midway, At
    <3>3. CASE job' # NoJob
      <4>1. \E pc \in {"run", "final", "drop"} : Goto(pc) /\ (pc # "run" => job.todo = <<>>)
        BY <2>20, <3>3 DEF VerifyV2, Refuse
      <4>2. PICK pc \in {"run", "final", "drop"} : Goto(pc) /\ (pc # "run" => job.todo = <<>>)
        BY <4>1
      <4>3. job'.op = "v2" /\ job'.pc = pc /\ job'.todo = job.todo
        BY <1>0, <3>1, <4>2, MovedJob
      <4>4. pc # "run" => routing = Nothing
        BY <1>0, <3>2, <4>2, UnderWayEnds
      <4>5. Midway(kern.doc, kern.routing)'
        BY <3>1, <3>2, <4>2, <4>3, <4>4 DEF Midway, At
      <4> QED BY <2>1, <3>1, <4>5
    <3> QED BY <2>4, <3>1, <3>3
  <2>21. CASE RemoveV2
    <3> DEFINE step == Head(job.todo)
    <3>1. /\ job.op = "v2" /\ job.pc = "run" /\ job.todo # <<>> /\ job.todo \in Seq(RemovalSteps)
          /\ UNCHANGED <<journal, mem>> /\ journal = mem.record /\ mem.record.cleanup
          /\ mem.record.kind = "v2" /\ mem.record.inner = NoPlan
      BY <1>0, <2>21 DEF RemoveV2, Jobs, Control, Records, At
    <3>2. CASE StepReads(step)
      <4>1. Removed(step) /\ job' = [job EXCEPT !.pc = "verify", !.todo = Tail(@)]
        BY <2>21, <3>2 DEF RemoveV2
      <4>2. job'.op = "v2" /\ job'.pc = "verify" /\ job'.todo = Tail(job.todo)
        BY <1>0, <3>1, <4>1 DEF Jobs
      <4>3. step \in RemovalSteps
        BY <3>1, HeadTail
      <4>4. /\ kern'.routing = ApplyRoutingStep(kern.routing, step) /\ kern'.doc = kern.doc
            /\ kern'.routing \in Routings
        <5> HIDE DEF step
        <5> QED BY <1>0, <4>1, <4>3, RemovedTyped
      <4>5. UnderWay(mem.record, doc, routing, job.todo)
        BY <2>1, <3>1 DEF Midway, At
      <4>6. UnderWay(mem.record, doc, ApplyRoutingStep(routing, step), Tail(job.todo))
        BY <1>0, <3>1, <4>5, UnderWayMoves
      <4>7. UnderWay(mem'.record, kern'.doc, kern'.routing, job'.todo)
        BY <3>1, <4>2, <4>4, <4>6
      <4>8. Midway(kern.doc, kern.routing)'
        BY <4>2, <4>7 DEF Midway, At
      <4>9. ExpectedV2(mem'.record, kern'.doc, kern'.routing)
        BY <1>0, <3>1, <4>7, UnderWayExpected
      <4>10. Accepts(journal', kern'.doc, kern'.routing) /\ Wraps(mem'.record, kern'.doc, kern'.routing)
        BY <3>1, <4>9 DEF Accepts, Wraps
      <4> QED BY <4>8, <4>10
    <3>3. CASE ~StepReads(step)
      BY <2>4, <2>21, <3>3 DEF RemoveV2, Refuse
    <3> QED BY <3>2, <3>3
  <2>22. CASE DropLegacy
    <3>1. UNCHANGED <<journal, mem>> /\ job.op \in {"v1", "v2"} /\ job.pc = "drop" /\ Goto("final")
      BY <2>22 DEF DropLegacy
    <3>2. kern'.doc = NoTable /\ kern'.routing = Nothing
      BY <2>1, <2>22, <3>1, DroppedTyped DEF DropLegacy, Midway
    <3>3. job'.pc = "final"
      BY <1>0, <3>1, MovedJob
    <3>4. Midway(kern.doc, kern.routing)'
      BY <3>3 DEF Midway, At
    <3>5. journal.kind = job.op /\ journal.cleanup /\ mem.record.kind = job.op
          /\ (job.op = "v2" => mem.record.inner = NoPlan /\ journal.inner = NoPlan)
      <4>1. mem.record.kind = job.op
        BY <3>1 DEF Control
      <4>2. CASE job.op = "v1"
        <5>1. journal = [mem.record EXCEPT !.cleanup = TRUE]
          BY <3>1, <4>2 DEF Records, At
        <5> QED BY <1>0, <4>1, <4>2, <5>1, Marked
      <4>3. CASE job.op = "v2"
        BY <3>1, <4>1, <4>3 DEF Records, At
      <4> QED BY <3>1, <4>2, <4>3
    <3>6. \A own : Within(Nothing, own)
      BY DEF Within, Nothing
    <3>7. Accepts(journal', kern'.doc, kern'.routing)
      <4>1. CASE job.op = "v1"
        BY <3>1, <3>2, <3>5, <3>6, <4>1 DEF Accepts, ExpectedV1
      <4>2. CASE job.op = "v2"
        <5>1. ExpectedV2(journal, NoTable, Nothing)
          BY <3>5 DEF ExpectedV2
        <5> QED BY <3>1, <3>2, <3>5, <4>2, <5>1 DEF Accepts
      <4> QED BY <3>1, <4>1, <4>2
    <3>8. Wraps(mem'.record, kern'.doc, kern'.routing)
      BY <3>1, <3>5 DEF Wraps
    <3> QED BY <3>4, <3>7, <3>8
  <2>23. CASE Final \/ Settle
    <3>1. /\ UNCHANGED <<journal, mem>> /\ kern'.doc = doc /\ kern'.routing = routing
          /\ job' = NoJob \/ \E pc \in {"settle", "clear"} : Goto(pc)
      BY <1>0, <2>23 DEF Final, Settle, Refuse
    <3>2. job'.pc \in {"idle", "settle", "clear"}
      BY <1>0, <1>00, <3>1, MovedJob
    <3> QED BY <2>3, <3>1, <3>2
  <2>24. CASE Clear
    <3>1. /\ journal' \in {journal, NoJournal} /\ kern' = kern
          /\ mem' = mem \/ mem' = [init |-> TRUE, record |-> NoJournal]
          /\ job' = NoJob \/ \E pc \in {"capture", "activate"} : job' = [job EXCEPT !.pc = pc, !.then = "end"]
      BY <2>24 DEF Clear, Save, Refuse
    <3>2. job'.pc \in {"idle", "capture", "activate"}
      BY <1>0, <1>00, <3>1 DEF Jobs
    <3>3. mem'.record \in {mem.record, NoJournal}
      BY <1>0, <3>1
    <3>4. Accepts(NoJournal, doc, routing) /\ Wraps(NoJournal, doc, routing)
      BY <1>00 DEF Accepts, Wraps
    <3>5. Midway(kern.doc, kern.routing)'
      BY <3>2 DEF Midway, At
    <3> QED BY <2>1, <3>1, <3>3, <3>4, <3>5
  <2> QED
    BY <2>2, <2>5, <2>6, <2>7, <2>8, <2>9, <2>10, <2>11, <2>12, <2>13, <2>14, <2>15, <2>16, <2>17,
       <2>18, <2>19, <2>20, <2>21, <2>22, <2>23, <2>24
    DEF Next, Helper, HandedOver
<1> QED BY <1>1, <1>2, <1>3

-----------------------------------------------------------------------------
(* What the helper finds *)

Fine(j, doc, routing) ==
    /\ j \in Journals /\ doc \in Docs /\ routing \in Routings
    /\ j.kind # "orphan" /\ j.doc = NoTable /\ j.routing = Nothing
    /\ j.settings = {} \/ (j.kind = "v2" /\ j.inner = NoPlan)
    /\ j.kind = "v1" /\ j.active = NoPlan => doc = NoTable /\ routing = Nothing
    /\ doc # Altered => Accepts(j, doc, routing)

\* A sequence of states begins with the first.
LEMMA StatesBegin ==
    ASSUME NEW s, NEW steps, Len(steps) \in Nat
    PROVE  s \in StatesAlong(s, steps)
<1> DEFINE after == StatesAfter(s, steps)
<1>1. after = [i \in 0..Len(steps) |-> IF i = 0 THEN s ELSE ApplyRoutingStep(after[i - 1], steps[i])]
  BY StatesFollow
<1> HIDE DEF after
<1>2. 0 \in 0..Len(steps)
  OBVIOUS
<1>3. after[0] = s
  BY <1>1, <1>2
<1> QED BY <1>2, <1>3 DEF StatesAlong, after

\* Whatever a schema-2 helper left of a transition, its journal accepts.
LEMMA LeftIsFine ==
    ASSUME NEW active \in PlansOrNone, NEW pending \in Plans, NEW y \in LeftByV2(active, pending)
    PROVE  Fine(JournalV2(active, pending, {}, {}), y[1], y[2])
<1> DEFINE j == JournalV2(active, pending, {}, {})
           R == RollbackRemovals(active, pending)
           reached(starts) == \E s \in starts : y[2] \in StatesAlong(s, R)
           P(a, b) == Parts(Own(a).routes \cup Own(b).routes, Own(a).rules \cup Own(b).rules)
<1>1. pending \in PlansOrNone /\ pending # NoPlan /\ NoPlan \in PlansOrNone
  BY EmptyTyped DEF PlansOrNone, Plans, NoPlan
<1>2. /\ j \in Journals /\ j.kind = "v2" /\ j.active = active /\ j.pending = pending /\ j.lost = {}
      /\ j.cleanup = FALSE /\ j.inner = NoPlan /\ j.settings = {} /\ j.doc = NoTable
      /\ j.routing = Nothing
  <2>1. j \in Journals
    <3>1. NoOwn \in [doc: Docs, routing: Routings]
      BY EmptyTyped DEF NoOwn
    <3> QED BY <1>1, <3>1, JournalsTyped
  <2> QED BY <2>1 DEF JournalV2, NoJournal
<1> HIDE DEF j
<1>3. RoutingBasis(j.active, j.lost) = active
  BY <1>2, BasisOfAll
<1>4. LaneCount(active) \in Nat /\ LaneCount(pending) \in Nat /\ R \in Seq(RemovalSteps)
  BY <1>1, PlanLanes, RollbackStepsAre
<1>5. /\ Own(active) \in P(active, pending)
      /\ PreparedStates(active, pending) \subseteq P(active, pending)
      /\ ActivatedStates(active, pending) \subseteq P(active, pending)
      /\ AbsentRollbackStates(active) \subseteq P(active, pending)
      /\ \A starts \in SUBSET P(active, pending) : \A live :
            ReachedFrom(starts, live, active, pending) => live \in P(active, pending)
  BY <1>4, CrashStatesWithin
<1>6. P(active, pending) \subseteq Routings
  <2>1. Own(active) \in Routings /\ Own(pending) \in Routings
    BY <1>1, OwnTyped
  <2> QED BY <2>1 DEF Routings, Parts
<1>7. \A starts : ReachedFrom(starts, y[2], active, pending) <=> reached(starts)
  BY DEF ReachedFrom
<1>8. \/ \E g \in BOOLEAN : y[1] = Doc("v2", active, pending, g) /\ reached(PreparedStates(active, pending))
      \/ \E g \in BOOLEAN : y[1] = Doc("v2", pending, NoPlan, g) /\ reached(ActivatedStates(active, pending))
      \/ y[1] = NoTable /\ y[2] \in AbsentRollbackStates(active)
      \/ /\ y[1] = IF active = NoPlan THEN NoTable ELSE Doc("v2", active, NoPlan, FALSE)
         /\ y[2] = Own(active)
  <2> DEFINE prepared == PreparedStates(active, pending)
             activated == ActivatedStates(active, pending)
             back(starts) == UNION {StatesAlong(x, R) : x \in starts}
             doc == IF active = NoPlan THEN NoTable ELSE Doc("v2", active, NoPlan, FALSE)
  <2>1. y \in {<<Doc("v2", active, pending, TRUE), x>> : x \in back(prepared)}
              \cup {<<Doc("v2", pending, NoPlan, TRUE), x>> : x \in back(activated)}
              \cup {<<Doc("v2", pending, NoPlan, FALSE), x>> : x \in back(activated)}
              \cup {<<NoTable, x>> : x \in AbsentRollbackStates(active)}
              \cup {<<doc, Own(active)>>}
    BY Zenon DEF LeftByV2
  <2>2. \A starts : y[2] \in back(starts) => reached(starts)
    OBVIOUS
  <2> HIDE DEF prepared, activated, back, reached, doc
  <2>3. ASSUME y \in {<<Doc("v2", active, pending, TRUE), x>> : x \in back(prepared)}
        PROVE  \E g \in BOOLEAN : y[1] = Doc("v2", active, pending, g) /\ reached(prepared)
    <3>1. PICK x \in back(prepared) : y = <<Doc("v2", active, pending, TRUE), x>>
      BY <2>3
    <3> QED BY <2>2, <3>1
  <2>4. ASSUME NEW g \in BOOLEAN, y \in {<<Doc("v2", pending, NoPlan, g), x>> : x \in back(activated)}
        PROVE  y[1] = Doc("v2", pending, NoPlan, g) /\ reached(activated)
    <3>1. PICK x \in back(activated) : y = <<Doc("v2", pending, NoPlan, g), x>>
      BY <2>4
    <3> QED BY <2>2, <3>1
  <2>5. ASSUME y \in {<<NoTable, x>> : x \in AbsentRollbackStates(active)}
        PROVE  y[1] = NoTable /\ y[2] \in AbsentRollbackStates(active)
    BY <2>5
  <2>6. ASSUME y = <<doc, Own(active)>>
        PROVE  y[1] = doc /\ y[2] = Own(active)
    BY <2>6
  <2>7. \/ \E g \in BOOLEAN : y[1] = Doc("v2", active, pending, g) /\ reached(prepared)
        \/ \E g \in BOOLEAN : y[1] = Doc("v2", pending, NoPlan, g) /\ reached(activated)
        \/ y[1] = NoTable /\ y[2] \in AbsentRollbackStates(active)
        \/ y[1] = doc /\ y[2] = Own(active)
    BY <2>1, <2>3, <2>4, <2>5, <2>6
  <2> QED BY <2>7, Zenon DEF prepared, activated, doc
<1>9. y[1] \in Docs
  <2>1. CASE y[1] = NoTable
    BY <2>1, EmptyTyped
  <2>2. CASE \E a, b \in PlansOrNone, g \in BOOLEAN : y[1] = Doc("v2", a, b, g)
    BY <2>2, DocTyped
  <2> QED BY <1>1, <1>8, <2>1, <2>2
<1>10. y[2] \in Routings
  <2> HIDE DEF P, reached
  <2> QED BY <1>5, <1>6, <1>7, <1>8
<1>11. ExpectedV2(j, y[1], y[2])
  <2>1. Own(active) \in StatesAlong(Own(active), R)
    BY <1>4, StatesBegin
  <2>2. active = NoPlan => Own(active) \in AbsentRollbackStates(active)
    BY OwnNothing DEF AbsentRollbackStates
  <2> DEFINE basis == RoutingBasis(j.active, j.lost)
  <2>3. basis = active
    BY <1>3
  <2>4. CASE \E g \in BOOLEAN : y[1] = Doc("v2", active, pending, g) /\ reached(PreparedStates(active, pending))
    <3>1. ReachedFrom(PreparedStates(basis, j.pending), y[2], basis, j.pending)
      BY <1>2, <1>7, <2>3, <2>4
    <3> QED BY <1>1, <1>2, <2>4, <3>1 DEF ExpectedV2
  <2>5. CASE \E g \in BOOLEAN : y[1] = Doc("v2", pending, NoPlan, g) /\ reached(ActivatedStates(active, pending))
    <3>1. ReachedFrom(ActivatedStates(basis, j.pending), y[2], basis, j.pending)
      BY <1>2, <1>7, <2>3, <2>5
    <3>2. ReachedFrom(ActivatedStates(basis, j.pending) \cup {Own(j.pending)}, y[2], basis, j.pending)
      BY <3>1 DEF ReachedFrom
    <3> QED BY <1>1, <1>2, <2>5, <3>1, <3>2 DEF ExpectedV2
  <2>6. CASE y[1] = NoTable /\ y[2] \in AbsentRollbackStates(active)
    BY <1>1, <1>2, <1>3, <2>6 DEF ExpectedV2
  <2>7. CASE active # NoPlan /\ y[1] = Doc("v2", active, NoPlan, FALSE) /\ y[2] = Own(active)
    <3>1. ReachedFrom({Own(basis)}, y[2], basis, j.pending)
      BY <1>2, <1>7, <2>1, <2>3, <2>7
    <3> QED BY <1>1, <1>2, <2>7, <3>1 DEF ExpectedV2
  <2> QED BY <1>8, <2>2, <2>4, <2>5, <2>6, <2>7
<1>12. Accepts(j, y[1], y[2])
  BY <1>2, <1>11 DEF Accepts
<1>13. Fine(j, y[1], y[2])
  BY <1>2, <1>9, <1>10, <1>12 DEF Fine
<1> QED BY <1>13 DEF j

\* So it is for everything the helper may find.
LEMMA FoundIsFine ==
    ASSUME NEW x \in Found
    PROVE  Fine(x[1], x[2], x[3])
<1> DEFINE one == {p \in Plans : p.gen = 1}
<1>1. \A p \in one : p \in PlansOrNone /\ p # NoPlan
  BY DEF PlansOrNone, NoPlan
<1>2. NoPlan \in PlansOrNone /\ NoTable \in Docs /\ Altered \in Docs /\ Nothing \in Routings
      /\ NoJournal \in Journals
  BY EmptyTyped
<1>3. NoOwn \in [doc: Docs, routing: Routings]
  BY <1>2 DEF NoOwn
<1>4. /\ NoJournal.kind = "none" /\ NoJournal.doc = NoTable /\ NoJournal.routing = Nothing
      /\ NoJournal.settings = {} /\ NoJournal.inner = NoPlan
  BY DEF NoJournal
<1>5. ASSUME NEW p \in one
      PROVE  /\ Doc("v1", p, NoPlan, FALSE) \in Docs /\ Doc("v2", p, NoPlan, FALSE) \in Docs
             /\ \A g \in BOOLEAN : Doc("v3", p, NoPlan, g) \in Docs
             /\ Doc("v1", p, NoPlan, FALSE) # NoTable /\ Doc("v2", p, NoPlan, FALSE) # NoTable
             /\ Own(p) \in Routings /\ OwnV1(p) \in Routings
  <2>1. Doc("v1", p, NoPlan, FALSE).by = "v1" /\ Doc("v2", p, NoPlan, FALSE).by = "v2"
    BY <1>1, <1>2, DocTyped, ZenonT(40)
  <2> QED BY <1>1, <1>2, <2>1, DocTyped, EmptyTyped, OwnTyped
<1>6. \A doc \in Docs, routing \in Routings : Fine(NoJournal, doc, routing)
  BY <1>2, <1>4 DEF Fine, Accepts
<1>7. ASSUME NEW p \in one, NEW doc \in Docs, NEW r \in StatesAlong(Own(p), RollbackRemovals(NoPlan, p))
      PROVE  Fine(NoJournal, doc, r)
  <2>1. RollbackRemovals(NoPlan, p) \in Seq(RemovalSteps)
    BY <1>1, <1>2, PlanLanes, RollbackStepsAre
  <2>2. r \in Routings
    BY <1>5, <2>1, RemovalsWithin DEF Routings
  <2> QED BY <1>6, <2>2
<1>8. ASSUME NEW p \in one, NEW q \in {p, NoPlan}
      PROVE  Fine(JournalV1(p, q), Doc("v1", p, NoPlan, FALSE), OwnV1(p))
  <2> DEFINE j == JournalV1(p, q)
  <2>1. /\ j \in Journals /\ j.kind = "v1" /\ j.active = p /\ j.pending = q /\ j.cleanup = FALSE
        /\ j.settings = {} /\ j.doc = NoTable /\ j.routing = Nothing
    <3>1. j \in Journals
      BY <1>1, <1>2, <1>3, JournalsTyped
    <3> QED BY <3>1 DEF JournalV1, NoJournal
  <2> HIDE DEF j
  <2>2. ExpectedV1(p, TRUE, Doc("v1", p, NoPlan, FALSE), OwnV1(p))
    BY <1>5 DEF ExpectedV1
  <2>3. Accepts(j, Doc("v1", p, NoPlan, FALSE), OwnV1(p))
    BY <2>1, <2>2 DEF Accepts
  <2>4. Fine(j, Doc("v1", p, NoPlan, FALSE), OwnV1(p))
    BY <1>1, <1>5, <2>1, <2>3 DEF Fine
  <2> QED BY <2>4 DEF j
<1>9. Fine(JournalV1(NoPlan, NoPlan), NoTable, Nothing)
  <2> DEFINE j == JournalV1(NoPlan, NoPlan)
  <2>1. /\ j \in Journals /\ j.kind = "v1" /\ j.active = NoPlan /\ j.pending = NoPlan
        /\ j.settings = {} /\ j.doc = NoTable /\ j.routing = Nothing
    <3>1. j \in Journals
      BY <1>2, <1>3, JournalsTyped
    <3> QED BY <3>1 DEF JournalV1, NoJournal
  <2> HIDE DEF j
  <2>2. Fine(j, NoTable, Nothing)
    BY <1>2, <2>1 DEF Fine, Accepts
  <2> QED BY <2>2 DEF j
<1>10. ASSUME NEW p \in one
       PROVE  Fine(JournalV2(p, NoPlan, {}, Devices), Doc("v2", p, NoPlan, FALSE), Own(p))
  <2> DEFINE j == JournalV2(p, NoPlan, {}, Devices)
  <2>1. /\ j \in Journals /\ j.kind = "v2" /\ j.active = p /\ j.pending = NoPlan /\ j.inner = NoPlan
        /\ j.doc = NoTable /\ j.routing = Nothing
    <3>1. j \in Journals
      BY <1>1, <1>2, <1>3, JournalsTyped
    <3> QED BY <3>1 DEF JournalV2, NoJournal
  <2> HIDE DEF j
  <2>2. ExpectedV2(j, Doc("v2", p, NoPlan, FALSE), Own(p))
    BY <1>1, <2>1 DEF ExpectedV2
  <2>3. Fine(j, Doc("v2", p, NoPlan, FALSE), Own(p))
    BY <1>5, <2>1, <2>2 DEF Fine, Accepts
  <2> QED BY <2>3 DEF j
<1>11. ASSUME NEW p \in one
       PROVE  Fine([JournalV2(NoPlan, NoPlan, {}, {}) EXCEPT !.inner = p], Doc("v1", p, NoPlan, FALSE), OwnV1(p))
  <2> DEFINE i == JournalV2(NoPlan, NoPlan, {}, {})
             j == [i EXCEPT !.inner = p]
  <2>1. i \in Journals /\ i.kind = "v2" /\ i.doc = NoTable /\ i.routing = Nothing /\ i.settings = {}
    <3>1. i \in Journals
      BY <1>2, <1>3, JournalsTyped
    <3> QED BY <3>1 DEF JournalV2, NoJournal
  <2> HIDE DEF i
  <2>2. /\ j \in Journals /\ j.kind = "v2" /\ j.inner = p /\ j.doc = NoTable /\ j.routing = Nothing
        /\ j.settings = {}
    BY <1>1, <2>1, Wrapped
  <2> HIDE DEF j
  <2>3. ExpectedV1(p, TRUE, Doc("v1", p, NoPlan, FALSE), OwnV1(p))
    BY <1>5 DEF ExpectedV1
  <2>4. Fine(j, Doc("v1", p, NoPlan, FALSE), OwnV1(p))
    BY <1>1, <1>5, <2>2, <2>3 DEF Fine, Accepts
  <2> QED BY <2>4 DEF i, j
<1>12. ASSUME NEW a \in one \cup {NoPlan}, NEW b \in Plans, NEW y \in LeftByV2(a, b)
       PROVE  Fine(JournalV2(a, b, {}, {}), y[1], y[2])
  BY <1>1, <1>2, LeftIsFine
<1> DEFINE orphan == \E p \in one : \E r, doc :
                       /\ r \in StatesAlong(Own(p), RollbackRemovals(NoPlan, p))
                       /\ doc \in {Doc("v3", p, NoPlan, g) : g \in BOOLEAN} \cup {Altered, NoTable}
                       /\ x = <<NoJournal, doc, r>>
           bare == \E p \in one : x = <<NoJournal, Doc("v1", p, NoPlan, FALSE), OwnV1(p)>>
           v1 == \E p \in one : \E q \in {p, NoPlan} :
                   x = <<JournalV1(p, q), Doc("v1", p, NoPlan, FALSE), OwnV1(p)>>
           none == x = <<JournalV1(NoPlan, NoPlan), NoTable, Nothing>>
           committed == \E p \in one : x = <<JournalV2(p, NoPlan, {}, Devices), Doc("v2", p, NoPlan, FALSE), Own(p)>>
           moving == \E a \in one \cup {NoPlan}, b \in Plans : \E y \in LeftByV2(a, b) :
                       x = <<JournalV2(a, b, {}, {}), y[1], y[2]>>
           wrapped == \E p \in one : x = <<[JournalV2(NoPlan, NoPlan, {}, {}) EXCEPT !.inner = p],
                                           Doc("v1", p, NoPlan, FALSE), OwnV1(p)>>
<1>13. orphan \/ bare \/ v1 \/ none \/ committed \/ moving \/ wrapped
  <2>1. \/ x \in UNION {WithoutJournal(p) : p \in one}
        \/ x \in FoundV1
        \/ x \in Committed
        \/ x \in UNION {Moving(z[1], z[2]) : z \in Moves}
        \/ x \in Wrapping
    BY DEF Found, First
  <2>2. ASSUME x \in UNION {WithoutJournal(p) : p \in one} PROVE orphan \/ bare
    <3> DEFINE docs(p) == {Doc("v3", p, NoPlan, g) : g \in BOOLEAN} \cup {Altered, NoTable}
               along(p) == StatesAlong(Own(p), RollbackRemovals(NoPlan, p))
    <3>1. PICK p \in one : x \in WithoutJournal(p)
      BY <2>2
    <3>2. CASE x \in OrphansOf(p)
      <4>1. x \in {<<NoJournal, doc, r>> : doc \in docs(p), r \in along(p)}
        BY <3>2 DEF OrphansOf
      <4>2. PICK doc \in docs(p), r \in along(p) : x = <<NoJournal, doc, r>>
        <5> HIDE DEF docs, along
        <5> QED BY <4>1
      <4>3. orphan
        BY <4>2
      <4> QED BY <4>3
    <3>3. CASE x = <<NoJournal, Doc("v1", p, NoPlan, FALSE), OwnV1(p)>>
      <4>1. bare
        BY <3>3
      <4> QED BY <4>1
    <3>4. x \in OrphansOf(p) \/ x = <<NoJournal, Doc("v1", p, NoPlan, FALSE), OwnV1(p)>>
      BY <3>1 DEF WithoutJournal
    <3> HIDE DEF orphan, bare
    <3> QED BY <3>2, <3>3, <3>4
  <2>3. x \in FoundV1 => v1 \/ none
    BY Zenon DEF FoundV1, First
  <2>4. x \in Committed => committed
    BY Zenon DEF Committed, First
  <2>5. ASSUME x \in UNION {Moving(z[1], z[2]) : z \in Moves} PROVE moving
    <3>1. PICK z \in Moves : x \in Moving(z[1], z[2])
      BY <2>5
    <3>2. PICK y \in LeftByV2(z[1], z[2]) : x = <<JournalV2(z[1], z[2], {}, {}), y[1], y[2]>>
      BY <3>1, Zenon DEF Moving
    <3>3. z[1] \in one \cup {NoPlan} /\ z[2] \in Plans
      BY DEF Moves, First
    <3> QED BY <3>2, <3>3, Zenon
  <2>6. x \in Wrapping => wrapped
    BY Zenon DEF Wrapping, First
  <2> HIDE DEF orphan, bare, v1, none, committed, moving, wrapped
  <2> QED BY <2>1, <2>2, <2>3, <2>4, <2>5, <2>6
<1> SUFFICES \E j, doc, r : Fine(j, doc, r) /\ x = <<j, doc, r>>
  OBVIOUS
<1>14. CASE orphan
  <2>1. PICK p \in one : \E r, doc :
           /\ r \in StatesAlong(Own(p), RollbackRemovals(NoPlan, p))
           /\ doc \in {Doc("v3", p, NoPlan, g) : g \in BOOLEAN} \cup {Altered, NoTable}
           /\ x = <<NoJournal, doc, r>>
    BY <1>14
  <2>2. \A doc \in {Doc("v3", p, NoPlan, g) : g \in BOOLEAN} \cup {Altered, NoTable} : doc \in Docs
    BY <1>2, <1>5
  <2> QED BY <1>7, <2>1, <2>2
<1>15. CASE bare
  <2>1. PICK p \in one : x = <<NoJournal, Doc("v1", p, NoPlan, FALSE), OwnV1(p)>>
    BY <1>15
  <2>2. Fine(NoJournal, Doc("v1", p, NoPlan, FALSE), OwnV1(p))
    BY <1>5, <1>6
  <2> QED BY <2>1, <2>2, Zenon
<1>16. CASE v1
  <2>1. PICK p \in one : \E q \in {p, NoPlan} : x = <<JournalV1(p, q), Doc("v1", p, NoPlan, FALSE), OwnV1(p)>>
    BY <1>16
  <2>2. \A q \in {p, NoPlan} : Fine(JournalV1(p, q), Doc("v1", p, NoPlan, FALSE), OwnV1(p))
    BY <1>8, Zenon
  <2> QED BY <2>1, <2>2, Zenon
<1>17. CASE none
  BY <1>9, <1>17, Zenon
<1>18. CASE committed
  <2>1. PICK p \in one : x = <<JournalV2(p, NoPlan, {}, Devices), Doc("v2", p, NoPlan, FALSE), Own(p)>>
    BY <1>18
  <2>2. Fine(JournalV2(p, NoPlan, {}, Devices), Doc("v2", p, NoPlan, FALSE), Own(p))
    BY <1>10, Zenon
  <2> QED BY <2>1, <2>2, Zenon
<1>19. CASE moving
  <2>0. PICK a \in one \cup {NoPlan}, b \in Plans :
           \E y \in LeftByV2(a, b) : x = <<JournalV2(a, b, {}, {}), y[1], y[2]>>
    BY <1>19
  <2>1. PICK y \in LeftByV2(a, b) : x = <<JournalV2(a, b, {}, {}), y[1], y[2]>>
    BY <2>0
  <2>2. Fine(JournalV2(a, b, {}, {}), y[1], y[2])
    BY <1>12, Zenon
  <2> QED BY <2>1, <2>2, Zenon
<1>20. CASE wrapped
  <2>1. PICK p \in one : x = <<[JournalV2(NoPlan, NoPlan, {}, {}) EXCEPT !.inner = p],
                               Doc("v1", p, NoPlan, FALSE), OwnV1(p)>>
    BY <1>20
  <2>2. Fine([JournalV2(NoPlan, NoPlan, {}, {}) EXCEPT !.inner = p], Doc("v1", p, NoPlan, FALSE), OwnV1(p))
    BY <1>11, Zenon
  <2> QED BY <2>1, <2>2, Zenon
<1> QED BY <1>13, <1>14, <1>15, <1>16, <1>17, <1>18, <1>19, <1>20

\* The helper starts with what it finds, nothing in memory and no call.
LEMMA InitLeftover ==
    ASSUME Init
    PROVE  LeftoverInv
<1>1. PICK x \in Found :
         /\ journal = x[1] /\ mem = NoMemory /\ job = NoJob
         /\ kern = [doc |-> x[2], routing |-> x[3], svm |-> x[1].settings]
         /\ foreign = IF x[2] = Altered THEN {Stranger("table", 0, 0)} ELSE {}
         /\ used = [faults |-> 0, others |-> 0, done |-> FALSE]
         /\ hist = [touched |-> x[2] = Altered, fresh |-> {}, gone |-> {},
                    owed |-> x[1].kind # "none", reported |-> FALSE]
  BY DEF Init
<1> DEFINE doc == kern.doc
           routing == kern.routing
<1>2. Fine(journal, doc, routing) /\ kern.svm = journal.settings
  BY <1>1, FoundIsFine
<1>3. /\ journal \in Journals /\ doc \in Docs /\ routing \in Routings
      /\ journal.kind # "orphan" /\ journal.doc = NoTable /\ journal.routing = Nothing
      /\ journal.settings = {} \/ (journal.kind = "v2" /\ journal.inner = NoPlan)
      /\ journal.kind = "v1" /\ journal.active = NoPlan => doc = NoTable /\ routing = Nothing
      /\ doc # Altered => Accepts(journal, doc, routing)
  BY <1>2 DEF Fine
<1>4. /\ job = NoJob /\ job.op = "none" /\ job.pc = "idle" /\ job.then = "end" /\ job.todo = <<>>
      /\ job \in Jobs
  BY <1>1, EmptyTyped DEF NoJob
<1>5. /\ mem = NoMemory /\ mem.init = FALSE /\ mem.record = NoJournal
      /\ mem.record.kind = "none" /\ mem.record.doc = NoTable /\ mem.record.routing = Nothing
  <2>1. NoJournal.kind = "none" /\ NoJournal.doc = NoTable /\ NoJournal.routing = Nothing
    BY DEF NoJournal
  <2> QED BY <1>1, <2>1 DEF NoMemory
<1>6. /\ hist.touched = (doc = Altered) /\ hist.fresh = {} /\ hist.gone = {} /\ ~hist.reported
      /\ hist.owed = (journal.kind # "none")
      /\ used.faults = 0 /\ used.others = 0 /\ ~used.done
  BY <1>1
<1>7. foreign = IF doc = Altered THEN {Stranger("table", 0, 0)} ELSE {}
  BY <1>1
<1>8. TypedLeftovers
  <2>1. mem \in [init: BOOLEAN, record: Journals]
    BY <1>1, EmptyTyped DEF NoMemory
  <2>2. kern \in [doc: Docs, routing: Routings, svm: SUBSET Devices]
    <3>1. journal.settings \in SUBSET Devices
      BY <1>3 DEF Journals
    <3>2. kern = [doc |-> doc, routing |-> routing, svm |-> kern.svm]
      BY <1>1
    <3> QED BY <1>2, <1>3, <3>1, <3>2
  <2>3. foreign \subseteq Strangers
    BY <1>7, StrangersAre
  <2>4. used \in [faults: Nat, others: Nat, done: BOOLEAN]
    BY <1>1
  <2>5. hist \in [touched: BOOLEAN, fresh: SUBSET Strangers, owed: BOOLEAN,
                  gone: SUBSET Devices, reported: BOOLEAN]
    BY <1>1
  <2> QED BY <1>3, <1>4, <2>1, <2>2, <2>3, <2>4, <2>5 DEF TypedLeftovers
<1>9. Control
  BY <1>4 DEF Control, At
<1>10. Records
  BY <1>3, <1>4, <1>5 DEF Records, Remembered, Legacy, At
<1>11. Shares
  BY <1>4 DEF Shares, At
<1>12. Strange
  BY <1>3, <1>4, <1>7, StrangersAre DEF Strange, At
<1>13. Evidence
  <2>1. SettingsDone \/ InV2(journal)
    BY <1>2, <1>3 DEF SettingsDone, InV2
  <2> QED BY <1>3, <1>4, <1>5, <1>6, <2>1 DEF Evidence, Bare, At
<1>14. Undisturbed
  <2>1. Wraps(mem.record, doc, routing)
    BY <1>5 DEF Wraps
  <2>2. Midway(doc, routing)
    BY <1>4 DEF Midway, At
  <2> QED BY <1>3, <1>6, <1>7, <2>1, <2>2 DEF Undisturbed, Cleanable
<1>15. StartsFresh
  BY <1>6 DEF StartsFresh
<1> QED BY <1>8, <1>9, <1>10, <1>11, <1>12, <1>13, <1>14, <1>15 DEF LeftoverInv

\* Every step keeps the invariant.
LEMMA LeftoverKept ==
    ASSUME LeftoverInv, [Next]_vars
    PROVE  LeftoverInv'
<1>1. TypedLeftovers'
  BY TypesKept DEF LeftoverInv
<1>2. Control'
  BY ControlKept DEF LeftoverInv
<1>3. Records'
  BY RecordsKept DEF LeftoverInv
<1>4. Shares'
  BY SharesKept DEF LeftoverInv
<1>5. Strange'
  BY <1>1, <1>2, StrangeKept DEF LeftoverInv
<1>6. Evidence'
  BY <1>1, <1>2, EvidenceKeeps DEF LeftoverInv
<1>7. Undisturbed'
  BY <1>1, <1>2, <1>3, UndisturbedKept DEF LeftoverInv
<1>8. StartsFresh'
  BY StartsFreshKept DEF LeftoverInv
<1> QED BY <1>1, <1>2, <1>3, <1>4, <1>5, <1>6, <1>7, <1>8 DEF LeftoverInv

\* So the invariant always holds.
LEMMA LeftoverAlways == Spec => []LeftoverInv
<1>1. Init => LeftoverInv
  BY InitLeftover
<1>2. LeftoverInv /\ [Next]_vars => LeftoverInv'
  BY LeftoverKept
<1> QED BY <1>1, <1>2, PTL DEF Spec

-----------------------------------------------------------------------------
(* The theorems *)

\* A call, the journal and the memory keep their shape: an orphan's ownership is
\* in an orphan journal only, and a job of a schema has a record of that schema.
THEOREM LeftoversTyped == Spec => []LeftoverTypeOK
<1>1. LeftoverInv => LeftoverTypeOK
  <2> SUFFICES ASSUME LeftoverInv PROVE LeftoverTypeOK
    OBVIOUS
  <2>1. journal.kind \in {"none", "orphan", "v1", "v2"} /\ mem.init \in BOOLEAN /\ kern.svm \subseteq Devices
    BY DEF LeftoverInv, TypedLeftovers, Journals
  <2>2. Remembered /\ Control
    BY DEF LeftoverInv, Records
  <2> QED BY <2>1, <2>2 DEF LeftoverTypeOK, Remembered, Control
<1> QED BY <1>1, LeftoverAlways, PTL

\* Whatever fails and whoever interferes, ownership on record stays there until
\* the table, the routing and the settings are gone, or a setting that could not
\* be restored was reported.
THEOREM LeftoversStayOnRecord == Spec => []EvidenceKept
<1>1. LeftoverInv => EvidenceKept
  <2> SUFFICES ASSUME LeftoverInv, hist.owed, journal.kind = "none"
               PROVE  Bare /\ (kern.svm = {} \/ hist.reported)
    BY DEF EvidenceKept, Bare
  <2>1. Evidence
    BY DEF LeftoverInv
  <2> QED BY <2>1 DEF Evidence, SettingsDone, InV2
<1> QED BY <1>1, LeftoverAlways, PTL

\* A plan is only activated where no record of leftovers and no table is left.
THEOREM ActivationStartsFresh == Spec => []StartsFresh
<1>1. LeftoverInv => StartsFresh
  BY DEF LeftoverInv
<1> QED BY <1>1, LeftoverAlways, PTL

\* What an interrupted cleanup leaves is accepted by the next: wherever it
\* failed or died, and however often, as long as nobody else interfered.
THEOREM CleanupCanResume == Spec => []StillCleanable
<1>1. LeftoverInv => StillCleanable
  <2> SUFFICES ASSUME LeftoverInv, Idle, ~hist.touched
               PROVE  StillCleanable
    BY DEF StillCleanable
  <2>1. foreign = {} /\ Accepts(journal, kern.doc, kern.routing)
    BY DEF LeftoverInv, Undisturbed, Cleanable
  <2>2. Readable(Families) /\ Seen = kern.routing
    BY <2>1, SeenTyped DEF Readable, LeftoverInv
  <2>3. journal.kind \in {"none", "orphan", "v1", "v2"}
    BY DEF LeftoverInv, TypedLeftovers, Journals
  <2>4. CASE journal.kind = "orphan"
    <3>1. Resumable(journal)
      BY <2>1, <2>2, <2>4 DEF Accepts, Resumable
    <3> QED BY <2>4, <3>1 DEF StillCleanable
  <2>5. CASE journal.kind = "v1"
    <3>1. \/ journal.pending # NoPlan \/ journal.active = NoPlan
          \/ ExpectedV1(journal.active, ~journal.cleanup, kern.doc, kern.routing)
      BY <2>1, <2>5 DEF Accepts
    <3>2. journal.pending # NoPlan \/ journal.active = NoPlan \/ LiveV1(journal, ~journal.cleanup)
      BY <2>2, <3>1 DEF ExpectedV1, LiveV1
    <3> QED BY <2>5, <3>2 DEF StillCleanable
  <2>6. CASE journal.kind = "v2" /\ journal.inner # NoPlan
    <3>1. ExpectedV1(journal.inner, TRUE, kern.doc, kern.routing)
      BY <2>1, <2>6 DEF Accepts
    <3> DEFINE inner == JournalV1(journal.inner, NoPlan)
    <3>2. inner.active = journal.inner
      BY DEF JournalV1, NoJournal
    <3> HIDE DEF inner
    <3>3. LiveV1(inner, TRUE)
      BY <2>2, <3>1, <3>2 DEF ExpectedV1, LiveV1
    <3> QED BY <2>6, <3>3 DEF StillCleanable, inner
  <2>7. CASE journal.kind = "v2" /\ journal.inner = NoPlan
    <3>1. LiveV2(journal)
      BY <2>1, <2>2, <2>7 DEF Accepts, LiveV2
    <3> QED BY <2>7, <3>1 DEF StillCleanable
  <2>8. CASE journal.kind = "none"
    BY <2>8 DEF StillCleanable
  <2> QED BY <2>3, <2>4, <2>5, <2>6, <2>7, <2>8
<1> QED BY <1>1, LeftoverAlways, PTL

-----------------------------------------------------------------------------
(* What a step may remove *)

\* Only the removals, the restoring of settings and others change the kernel.
LEMMA ChangesKern ==
    ASSUME [Next]_vars
    PROVE  \/ kern' = kern
           \/ RemoveOrphan \/ DropOrphan \/ RemoveV1 \/ RemoveV2 \/ DropLegacy \/ Settle
           \/ \E what \in Disturbances : Other(what)
<1>1. CASE UNCHANGED vars
  BY <1>1 DEF vars
<1>2. CASE Inspect \/ Cleanup \/ Recover \/ Refresh \/ Activate
  BY <1>2 DEF Inspect, Cleanup, Recover, Refresh, Activate, Still
<1>3. CASE \/ Activates \/ Capture \/ Record \/ Load \/ Note \/ CheckV1 \/ IntentV1 \/ VerifyV1
           \/ Unwrap \/ CheckV2 \/ IntentV2 \/ VerifyV2 \/ Final \/ Clear
  BY <1>3
  DEF Activates, Capture, Record, Load, Note, CheckV1, IntentV1, VerifyV1, Unwrap, CheckV2,
      IntentV2, VerifyV2, Final, Clear
<1>4. CASE CommandFails \/ Crash \/ Undo \/ HandedOver
  BY <1>4 DEF CommandFails, Crash, Undo, HandedOver, vars
<1> QED BY <1>1, <1>2, <1>3, <1>4 DEF Next, Helper

\* The journal on disk, while something is removed, declares what may be there.
LEMMA DeclaresAll ==
    ASSUME LeftoverInv,
           \/ At("orphan", {"run", "drop"}) \/ At("v1", {"run", "drop"}) \/ At("v2", {"run", "drop"})
    PROVE  /\ job.pc = "run" => Within(kern.routing, Declared) /\ Target \subseteq Declared.routes
           /\ journal.cleanup \/ journal.kind = "orphan"
<1>0. /\ mem.record \in Journals /\ job \in Jobs
      /\ job.op \in {"v1", "v2"} => job.op = mem.record.kind
  BY DEF LeftoverInv, TypedLeftovers, Control
<1>1. CASE At("orphan", {"run", "drop"})
  <2>1. journal.kind = "orphan"
    BY <1>1 DEF LeftoverInv, Records, At
  <2>2. ASSUME job.pc = "run" PROVE Within(kern.routing, Declared) /\ Target \subseteq Declared.routes
    <3>1. journal = OrphanJournal(job.own) /\ Within(kern.routing, job.own.routing)
      BY <1>1, <2>2 DEF LeftoverInv, Records, Shares, At
    <3>2. journal.routing = job.own.routing
      BY <3>1, FieldsOrphan
    <3>3. Declared = journal.routing
      BY <2>1 DEF Declared
    <3>4. Target = job.own.routing.routes
      BY <1>1 DEF Target, At
    <3> QED BY <3>1, <3>2, <3>3, <3>4
  <2> QED BY <2>1, <2>2
<1>2. CASE At("v1", {"run", "drop"})
  <2>1. journal = [mem.record EXCEPT !.cleanup = TRUE] /\ mem.record.kind = "v1"
    BY <1>0, <1>2 DEF LeftoverInv, Records, At
  <2>2. journal.cleanup /\ journal.kind = "v1" /\ journal.active = mem.record.active
    BY <1>0, <2>1, Marked
  <2>3. Declared = OwnV1(mem.record.active)
    BY <2>2 DEF Declared
  <2>4. job.pc = "run" => Within(kern.routing, OwnV1(mem.record.active))
    BY <1>2 DEF LeftoverInv, Shares, At
  <2>5. Target = OwnV1(mem.record.active).routes
    BY <1>2 DEF Target, At
  <2> QED BY <2>2, <2>3, <2>4, <2>5
<1>3. CASE At("v2", {"run", "drop"})
  <2>1. journal = mem.record /\ journal.cleanup /\ journal.kind = "v2"
    BY <1>0, <1>3 DEF LeftoverInv, Records, At
  <2>2. Declared = [routes |-> Own(journal.active).routes \cup Own(journal.pending).routes,
                    rules |-> Own(journal.active).rules \cup Own(journal.pending).rules]
    BY <2>1 DEF Declared
  <2>3. job.pc = "run" =>
          /\ kern.routing.routes \subseteq Own(journal.active).routes \cup Own(journal.pending).routes
          /\ kern.routing.rules \subseteq Own(journal.active).rules \cup Own(journal.pending).rules
    BY <1>3, <2>1 DEF LeftoverInv, Shares, At
  <2>4. job.pc = "run" => Within(kern.routing, Declared)
    BY <2>2, <2>3 DEF Within
  <2>5. Target = Declared.routes
    BY <1>3, <2>1, <2>2 DEF Target, At
  <2> QED BY <2>1, <2>4, <2>5
<1> QED BY <1>1, <1>2, <1>3

\* A removal is one of a call that has reached its removals.
LEMMA RemovalsAt ==
    ASSUME LeftoverInv
    PROVE  /\ RemoveOrphan => At("orphan", {"run", "drop"}) /\ job.pc = "run"
           /\ RemoveV1 => At("v1", {"run", "drop"}) /\ job.pc = "run"
           /\ RemoveV2 => At("v2", {"run", "drop"}) /\ job.pc = "run"
           /\ DropOrphan => At("orphan", {"run", "drop"}) /\ job.pc = "drop"
           /\ DropLegacy => /\ At("v1", {"run", "drop"}) \/ At("v2", {"run", "drop"})
                            /\ job.pc = "drop"
BY DEF RemoveOrphan, RemoveV1, RemoveV2, DropOrphan, DropLegacy, At

\* Nothing but what a journal on disk declares is ever removed.
THEOREM OnlyDeclaredGoes == Spec => RemovesDeclared
<1> DEFINE Legal ==
             hist'.gone = hist.gone =>
               /\ kern.routing.routes \ kern'.routing.routes \subseteq Declared.routes
               /\ kern.routing.rules \ kern'.routing.rules \subseteq Declared.rules
               /\ kern.doc # kern'.doc /\ kern'.doc = NoTable =>
                    journal.cleanup \/ journal.kind = "orphan"
<1>1. ASSUME LeftoverInv, [Next]_vars PROVE Legal
  <2>0. kern \in [doc: Docs, routing: Routings, svm: SUBSET Devices]
        /\ hist \in [touched: BOOLEAN, fresh: SUBSET Strangers, owed: BOOLEAN,
                     gone: SUBSET Devices, reported: BOOLEAN]
    BY <1>1 DEF LeftoverInv, TypedLeftovers
  <2>1. CASE kern' = kern \/ Settle
    <3>1. kern'.routing = kern.routing /\ kern'.doc = kern.doc
      BY <2>0, <2>1 DEF Settle
    <3> QED BY <3>1
  <2>2. CASE RemoveOrphan \/ RemoveV1 \/ RemoveV2
    <3>1. Within(kern.routing, Declared)
      BY <1>1, <2>2, RemovalsAt, DeclaresAll
    <3>2. kern'.doc = kern.doc
      BY <2>0, <2>2 DEF RemoveOrphan, RemoveV1, RemoveV2, Removed
    <3> QED BY <3>1, <3>2 DEF Within
  <2>3. CASE DropOrphan \/ DropLegacy
    <3>1. journal.cleanup \/ journal.kind = "orphan"
      BY <1>1, <2>3, RemovalsAt, DeclaresAll
    <3>2. kern'.routing = kern.routing
      BY <2>0, <2>3 DEF DropOrphan, DropLegacy, DropTable
    <3> QED BY <3>1, <3>2
  <2>4. CASE \E what \in Disturbances : Other(what)
    <3>1. PICK what \in Disturbances : Other(what)
      BY <2>4
    <3>2. CASE kern' = kern
      BY <3>2
    <3>3. CASE kern' = [kern EXCEPT !.doc = Altered]
      <4>1. kern'.doc # NoTable /\ kern'.routing = kern.routing
        BY <2>0, <3>3, EmptyTyped
      <4> QED BY <4>1
    <3>4. CASE \E dev \in Devices \ hist.gone : hist' = [hist EXCEPT !.touched = TRUE, !.gone = @ \cup {dev}]
      <4>1. hist'.gone # hist.gone
        BY <2>0, <3>4
      <4> QED BY <4>1
    <3> QED BY <3>1, <3>2, <3>3, <3>4 DEF Other
  <2> QED BY <1>1, <2>1, <2>2, <2>3, <2>4, ChangesKern
<1>2. LeftoverInv /\ [Next]_vars => [Legal]_vars
  BY <1>1
<1> HIDE DEF Legal
<1>3. Spec => [][Legal]_vars
  BY <1>2, LeftoverAlways, PTL DEF Spec
<1> QED BY <1>3 DEF RemovesDeclared, Legal

\* Only a removal takes away something foreign while a call goes on.
LEMMA ForeignGoes ==
    ASSUME [Next]_vars, job' # job
    PROVE  \/ foreign' = foreign
           \/ RemoveOrphan \/ RemoveV1 \/ RemoveV2 \/ DropOrphan \/ DropLegacy
<1>1. CASE UNCHANGED vars \/ HandedOver
  BY <1>1 DEF vars, HandedOver
<1>2. CASE Inspect \/ Cleanup \/ Recover \/ Refresh \/ Activate
  BY <1>2 DEF Inspect, Cleanup, Recover, Refresh, Activate, Still
<1>3. CASE \/ Activates \/ Capture \/ Record \/ Load \/ Note \/ CheckV1 \/ IntentV1 \/ VerifyV1
           \/ Unwrap \/ CheckV2 \/ IntentV2 \/ VerifyV2 \/ Final \/ Settle \/ Clear
  BY <1>3
  DEF Activates, Capture, Record, Load, Note, CheckV1, IntentV1, VerifyV1, Unwrap, CheckV2,
      IntentV2, VerifyV2, Final, Settle, Clear
<1>4. CASE CommandFails \/ Crash
  BY <1>4 DEF CommandFails, Crash
<1>5. ~Undo /\ ~ \E what \in Disturbances : Other(what)
  BY DEF Undo, Other
<1> QED BY <1>1, <1>2, <1>3, <1>4, <1>5 DEF Next, Helper

\* A cleanup removes a resource of another program only when it came after the
\* last verification (by the flush of its table, or with the table it changed),
\* or when it is a default route of RouteLane's own shape that the journal on
\* disk declares: the removal was announced before it happened.
THEOREM VerifiedForeignStays == Spec => ForeignUntouched
<1> DEFINE Kept ==
             job' # job =>
               \A x \in foreign :
                 \/ x \in foreign' \/ x \in hist.fresh
                 \/ x.what = "default" /\ RouteOf(x) \in Declared.routes
<1>1. ASSUME LeftoverInv, [Next]_vars PROVE Kept
  <2> SUFFICES ASSUME job' # job, NEW x \in foreign
               PROVE  \/ x \in foreign' \/ x \in hist.fresh
                      \/ x.what = "default" /\ RouteOf(x) \in Declared.routes
    OBVIOUS
  <2>1. CASE foreign' = foreign
    BY <2>1
  <2>2. CASE RemoveOrphan \/ RemoveV1 \/ RemoveV2
    <3>1. job.pc = "run" /\ (At("orphan", {"run"}) \/ At("v1", {"run"}) \/ At("v2", {"run"}))
      BY <1>1, <2>2, RemovalsAt DEF At
    <3>2. x.what # "table" => x \in hist.fresh \/ (x.what = "default" /\ RouteOf(x) \in Target)
      BY <1>1, <3>1 DEF LeftoverInv, Strange, Claims, At
    <3>3. Target \subseteq Declared.routes
      BY <1>1, <3>1, DeclaresAll DEF At
    <3>4. foreign' = foreign \/ \E step : foreign' = Flushed(step)
      BY <2>2 DEF RemoveOrphan, RemoveV1, RemoveV2, Removed
    <3>5. x.what = "table" => x \in foreign'
      BY <3>4 DEF Flushed
    <3> QED BY <3>2, <3>3, <3>5
  <2>3. CASE DropOrphan \/ DropLegacy
    <3>1. x.what = "table" => x \in hist.fresh
      BY <1>1, <2>3, RemovalsAt DEF LeftoverInv, Strange
    <3>2. foreign' = {y \in foreign : y.what # "table"}
      BY <2>3 DEF DropOrphan, DropLegacy, DropTable
    <3> QED BY <3>1, <3>2
  <2> QED BY <1>1, <2>1, <2>2, <2>3, ForeignGoes
<1>2. LeftoverInv /\ [Next]_vars => [Kept]_vars
  BY <1>1
<1> HIDE DEF Kept
<1>3. Spec => [][Kept]_vars
  BY <1>2, LeftoverAlways, PTL DEF Spec
<1> QED BY <1>3 DEF ForeignUntouched, Kept
=============================================================================
