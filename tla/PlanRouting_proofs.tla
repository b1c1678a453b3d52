------------------------- MODULE PlanRouting_proofs -------------------------
(***************************************************************************)
(* Facts about the routing model of a plan, for every plan: what it owns,    *)
(* what its transitions and rollbacks are made of, and where every state     *)
(* they pass through lies.  The states of a step sequence are a recursive    *)
(* function; its facts rest on the well-foundedness of the naturals.         *)
(***************************************************************************)
EXTENDS PlanRouting, WellFoundedInduction, TLAPS

\* The plans of every generation, and none.
ListedPlans == [gen: Nat, lanes: Layouts \cup {<<>>}]

\* The plans within the bound are among them.
LEMMA PlansListed == PlansOrNone \subseteq ListedPlans
BY MaxGenAssumption DEF PlansOrNone, Plans, NoPlan, ListedPlans

\* A plan's lanes are counted by a natural number and each one is a lane.
LEMMA ListedLanes ==
    ASSUME NEW plan \in ListedPlans
    PROVE  /\ plan.lanes \in Seq(Lanes)
           /\ LaneCount(plan) \in Nat
           /\ DOMAIN plan.lanes = 1..LaneCount(plan)
           /\ \A t \in 1..LaneCount(plan) : plan.lanes[t] \in Lanes
<1>1. plan.lanes \in Seq(Lanes)
  <2>1. CASE plan.lanes = <<>>
    BY <2>1
  <2>2. CASE plan.lanes \in Layouts
    BY <2>2, LayoutsAssumption
  <2> QED
    BY <2>1, <2>2 DEF ListedPlans
<1> QED
  BY <1>1 DEF LaneCount

\* So are those of a plan within the bound.
LEMMA PlanLanes ==
    ASSUME NEW plan \in PlansOrNone
    PROVE  /\ plan.lanes \in Seq(Lanes)
           /\ LaneCount(plan) \in Nat
           /\ DOMAIN plan.lanes = 1..LaneCount(plan)
           /\ \A t \in 1..LaneCount(plan) : plan.lanes[t] \in Lanes
BY PlansListed, ListedLanes

\* What a plan owns, taken apart.
LEMMA OwnRules ==
    ASSUME NEW plan
    PROVE  Own(plan).rules = {Rule(ft[1], ft[2]) : ft \in LaneFamilies(plan)}
BY DEF Own

\* The routes a plan owns: a terminal per lane and family, a unicast default where it has one.
LEMMA OwnRoutes ==
    ASSUME NEW plan
    PROVE  Own(plan).routes =
             {Terminal(ft[1], ft[2]) : ft \in LaneFamilies(plan)}
               \cup {Unicast(plan, ft[1], ft[2]) :
                       ft \in {x \in LaneFamilies(plan) : HasUnicast(plan, x[1], x[2])}}
BY DEF Own

\* The only terminal routes a plan owns are the ones its lanes end in.
LEMMA OwnTerminal ==
    ASSUME NEW plan \in PlansOrNone, NEW r \in Own(plan).routes, IsTerminal(r)
    PROVE  \E ft \in LaneFamilies(plan) : r = Terminal(ft[1], ft[2])
<1>1. ~ \E ft \in LaneFamilies(plan) :
          HasUnicast(plan, ft[1], ft[2]) /\ r = Unicast(plan, ft[1], ft[2])
  <2> SUFFICES ASSUME NEW ft \in LaneFamilies(plan), HasUnicast(plan, ft[1], ft[2]),
                      r = Unicast(plan, ft[1], ft[2])
               PROVE  FALSE
    OBVIOUS
  <2>1. ft[1] \in Families /\ ft[2] \in 1..LaneCount(plan)
    BY DEF LaneFamilies
  <2>2. plan.lanes[ft[2]].via[ft[1]] \in Vias
    BY <2>1, PlanLanes DEF Lanes
  <2> QED
    BY <2>2 DEF Unicast, IsTerminal, Vias
<1> QED
  BY <1>1, OwnRoutes

\* No plan owns nothing.
LEMMA OwnNothing == Own(NoPlan) = Nothing
<1>1. LaneFamilies(NoPlan) = {}
  BY DEF LaneFamilies, LaneCount, NoPlan
<1> QED
  BY <1>1 DEF Own, Nothing

\* A basis has the lanes of its plan, some of them without their unicast default.
LEMMA ListedBasis ==
    ASSUME NEW plan \in ListedPlans, NEW lost
    PROVE  /\ LaneCount(RoutingBasis(plan, lost)) = LaneCount(plan)
           /\ LaneFamilies(RoutingBasis(plan, lost)) = LaneFamilies(plan)
           /\ \A f \in Families, t \in 1..LaneCount(plan) :
                HasUnicast(RoutingBasis(plan, lost), f, t) =>
                  /\ HasUnicast(plan, f, t)
                  /\ Unicast(RoutingBasis(plan, lost), f, t) = Unicast(plan, f, t)
<1> DEFINE Basis == RoutingBasis(plan, lost)
           lanes == [t \in DOMAIN plan.lanes |->
                       [plan.lanes[t] EXCEPT !.via =
                          [f \in Families |-> IF <<f, t>> \in lost THEN "none"
                                              ELSE plan.lanes[t].via[f]]]]
<1>0. plan = [gen |-> plan.gen, lanes |-> plan.lanes]
  BY DEF ListedPlans
<1>1. Basis.lanes = lanes
  BY <1>0 DEF RoutingBasis
<1>2. /\ LaneCount(plan) \in Nat
      /\ DOMAIN plan.lanes = 1..LaneCount(plan)
      /\ \A t \in 1..LaneCount(plan) : plan.lanes[t] \in Lanes
  BY ListedLanes
<1>3. \A t \in 1..LaneCount(plan) : lanes[t] \in Lanes
  BY <1>2, ZenonT(40) DEF Lanes, Vias
<1>4. lanes \in Seq(Lanes) /\ Len(lanes) = LaneCount(plan)
  <2>1. lanes \in [1..LaneCount(plan) -> Lanes]
    BY <1>2, <1>3
  <2> HIDE DEF lanes
  <2> QED
    BY <1>2, <2>1
<1>5. LaneCount(Basis) = LaneCount(plan)
  BY <1>1, <1>4 DEF LaneCount
<1>6. ASSUME NEW f \in Families, NEW t \in 1..LaneCount(plan), HasUnicast(Basis, f, t)
      PROVE  HasUnicast(plan, f, t) /\ Unicast(Basis, f, t) = Unicast(plan, f, t)
  <2>1. lanes[t].dev = plan.lanes[t].dev
    BY <1>2 DEF Lanes
  <2>2. lanes[t].via[f] = IF <<f, t>> \in lost THEN "none" ELSE plan.lanes[t].via[f]
    BY <1>2 DEF Lanes
  <2> QED
    BY <1>1, <1>5, <1>6, <2>1, <2>2 DEF HasUnicast, HasTable, Unicast
<1> QED
  BY <1>5, <1>6 DEF LaneFamilies

\* Within the bound too.
LEMMA BasisLanes ==
    ASSUME NEW plan \in PlansOrNone, NEW lost
    PROVE  /\ LaneCount(RoutingBasis(plan, lost)) = LaneCount(plan)
           /\ LaneFamilies(RoutingBasis(plan, lost)) = LaneFamilies(plan)
           /\ \A f \in Families, t \in 1..LaneCount(plan) :
                HasUnicast(RoutingBasis(plan, lost), f, t) =>
                  /\ HasUnicast(plan, f, t)
                  /\ Unicast(RoutingBasis(plan, lost), f, t) = Unicast(plan, f, t)
BY PlansListed, ListedBasis

\* A basis owns all rules and terminal routes of its plan, and no other route.
LEMMA BasisOwns ==
    ASSUME NEW plan \in PlansOrNone, NEW lost
    PROVE  /\ Own(RoutingBasis(plan, lost)) \in
                [routes: SUBSET Own(plan).routes, rules: {Own(plan).rules}]
           /\ \A r \in Own(plan).routes :
                IsTerminal(r) => r \in Own(RoutingBasis(plan, lost)).routes
<1> DEFINE Basis == RoutingBasis(plan, lost)
<1>1. Own(Basis).rules = Own(plan).rules
  BY BasisLanes DEF Own
<1>2. Own(Basis).routes \subseteq Own(plan).routes
  <2> SUFFICES ASSUME NEW r \in Own(Basis).routes
               PROVE  r \in Own(plan).routes
    OBVIOUS
  <2>1. CASE \E ft \in LaneFamilies(plan) : r = Terminal(ft[1], ft[2])
    BY <2>1, OwnRoutes
  <2>2. CASE \E ft \in LaneFamilies(plan) :
               HasUnicast(Basis, ft[1], ft[2]) /\ r = Unicast(Basis, ft[1], ft[2])
    <3>1. PICK ft \in LaneFamilies(plan) :
                 HasUnicast(Basis, ft[1], ft[2]) /\ r = Unicast(Basis, ft[1], ft[2])
      BY <2>2
    <3>2. ft[1] \in Families /\ ft[2] \in 1..LaneCount(plan)
      BY <3>1 DEF LaneFamilies
    <3>3. HasUnicast(plan, ft[1], ft[2]) /\ r = Unicast(plan, ft[1], ft[2])
      BY <3>1, <3>2, BasisLanes
    <3> QED
      BY <3>1, <3>3, OwnRoutes
  <2> QED
    BY <2>1, <2>2, OwnRoutes, BasisLanes
<1>3. ASSUME NEW r \in Own(plan).routes, IsTerminal(r)
      PROVE  r \in Own(Basis).routes
  <2>1. PICK ft \in LaneFamilies(plan) : r = Terminal(ft[1], ft[2])
    BY <1>3, OwnTerminal
  <2> QED
    BY <2>1, BasisLanes, OwnRoutes
<1>4. Own(Basis) = [routes |-> Own(Basis).routes, rules |-> Own(Basis).rules]
  BY DEF Own
<1> QED
  BY <1>1, <1>2, <1>3, <1>4

-----------------------------------------------------------------------------
(* The removals of a rollback *)

\* What the two removal steps do to the kernel's routes and rules.
LEMMA DeleteRuleApplied ==
    ASSUME NEW live, NEW f, NEW t
    PROVE  ApplyRoutingStep(live, DeleteRule(f, t)) =
             [live EXCEPT !.rules = @ \ {Rule(f, t)}]
<1> DEFINE step == DeleteRule(f, t)
<1>1. step.op = "delrule" /\ step.rule = Rule(f, t)
  BY DEF DeleteRule
<1> HIDE DEF step
<1> QED
  BY <1>1 DEF ApplyRoutingStep, step

\* A flush removes the routes of one family's table, and nothing else.
LEMMA FlushTableApplied ==
    ASSUME NEW live, NEW f, NEW t
    PROVE  ApplyRoutingStep(live, FlushTable(f, t)) =
             [live EXCEPT !.routes = {r \in @ : r.fam # f \/ r.tab # t}]
<1> DEFINE step == FlushTable(f, t)
<1>1. step.op = "flush" /\ step.fam = f /\ step.tab = t
  BY DEF FlushTable
<1> HIDE DEF step
<1> QED
  BY <1>1 DEF ApplyRoutingStep, step

\* Index 2t - 1 of a removal order is lane t's IPv4 step and index 2t its IPv6 step.
LEMMA RemovalIndex ==
    ASSUME NEW n \in Nat, NEW f \in Families, NEW t \in 1..n
    PROVE  \E i \in 1..(2 * n) : VisitedFamily(i) = f /\ VisitedTable(i) = t
<1>1. CASE f = 4
  <2>1. 2 * t - 1 \in 1..(2 * n) /\ ((2 * t - 1) - 1) % 2 = 0 /\ ((2 * t - 1) + 1) \div 2 = t
    OBVIOUS
  <2>2. VisitedFamily(2 * t - 1) = f /\ VisitedTable(2 * t - 1) = t
    BY <1>1, <2>1 DEF FamilyOrder, VisitedFamily, VisitedTable
  <2> QED
    BY <2>1, <2>2
<1>2. CASE f = 6
  <2>1. 2 * t \in 1..(2 * n) /\ (2 * t - 1) % 2 = 1 /\ (2 * t + 1) \div 2 = t
    OBVIOUS
  <2>2. VisitedFamily(2 * t) = f /\ VisitedTable(2 * t) = t
    BY <1>2, <2>1 DEF FamilyOrder, VisitedFamily, VisitedTable
  <2> QED
    BY <2>1, <2>2
<1> QED
  BY <1>1, <1>2 DEF Families

\* Every index of a removal order is some lane's step of some family.
LEMMA RemovalStep ==
    ASSUME NEW n \in Nat, NEW i \in 1..(2 * n)
    PROVE  VisitedFamily(i) \in Families /\ VisitedTable(i) \in 1..n
<1>1. (i - 1) % 2 \in 0..1 /\ (i + 1) \div 2 \in 1..n
  OBVIOUS
<1>2. ((i - 1) % 2) + 1 \in {1, 2}
  BY <1>1
<1> QED
  BY <1>1, <1>2 DEF FamilyOrder, Families, VisitedFamily, VisitedTable

\* Without a next plan, the removals of a rollback are the rule and the table of
\* every lane and family of the previous plan, each of them at least once.
LEMMA RollbackRemovesAll ==
    ASSUME NEW plan \in PlansOrNone
    PROVE  /\ RollbackRemovals(plan, NoPlan) \in
                Seq({DeleteRule(ft[1], ft[2]) : ft \in LaneFamilies(plan)}
                      \cup {FlushTable(ft[1], ft[2]) : ft \in LaneFamilies(plan)})
           /\ \A ft \in LaneFamilies(plan) :
                /\ \E i \in DOMAIN RollbackRemovals(plan, NoPlan) :
                     RollbackRemovals(plan, NoPlan)[i] = DeleteRule(ft[1], ft[2])
                /\ \E i \in DOMAIN RollbackRemovals(plan, NoPlan) :
                     RollbackRemovals(plan, NoPlan)[i] = FlushTable(ft[1], ft[2])
<1> DEFINE n == LaneCount(plan)
           Steps == {DeleteRule(ft[1], ft[2]) : ft \in LaneFamilies(plan)}
                      \cup {FlushTable(ft[1], ft[2]) : ft \in LaneFamilies(plan)}
           rules == RollbackRules(plan, NoPlan)
           tables == RollbackTables(plan, NoPlan)
<1>1. n \in Nat /\ WiderLaneCount(plan, NoPlan) = n
  BY PlanLanes DEF WiderLaneCount, LaneCount, NoPlan
<1>2. /\ rules = [i \in 1..(2 * n) |->
                    DeleteRule(VisitedFamily(i), VisitedTable(i))]
      /\ tables = [i \in 1..(2 * n) |->
                    FlushTable(VisitedFamily(i), VisitedTable(i))]
  BY <1>1 DEF RollbackRules, RollbackTables
<1>3. ASSUME NEW i \in 1..(2 * n)
      PROVE  rules[i] \in Steps /\ tables[i] \in Steps
  <2> DEFINE ft == <<VisitedFamily(i), VisitedTable(i)>>
  <2>1. ft \in LaneFamilies(plan)
    BY <1>1, RemovalStep DEF LaneFamilies
  <2>2. rules[i] = DeleteRule(ft[1], ft[2]) /\ tables[i] = FlushTable(ft[1], ft[2])
    BY <1>2
  <2> QED
    BY <2>1, <2>2
<1>4. 2 * n \in Nat
  BY <1>1
<1>5. rules \in Seq(Steps) /\ Len(rules) = 2 * n /\ DOMAIN rules = 1..(2 * n)
  <2> HIDE DEF Steps
  <2> QED
    BY <1>2, <1>3, <1>4
<1>6. tables \in Seq(Steps) /\ Len(tables) = 2 * n /\ DOMAIN tables = 1..(2 * n)
  <2> HIDE DEF Steps
  <2> QED
    BY <1>2, <1>3, <1>4
<1>7. /\ RollbackRemovals(plan, NoPlan) = rules \o tables
      /\ rules \o tables \in Seq(Steps)
      /\ DOMAIN (rules \o tables) = 1..(4 * n)
      /\ \A i \in 1..(2 * n) : (rules \o tables)[i] = rules[i]
      /\ \A i \in 1..(2 * n) : (rules \o tables)[2 * n + i] = tables[i]
  <2> HIDE DEF Steps, rules, tables
  <2>1. rules \o tables \in Seq(Steps)
    BY <1>5, <1>6
  <2>2. Len(rules \o tables) = 4 * n
    BY <1>1, <1>5, <1>6
  <2>3. \A i \in 1..(2 * n) : (rules \o tables)[i] = rules[i]
    BY <1>1, <1>5, <1>6
  <2>4. \A i \in 1..(2 * n) : (rules \o tables)[2 * n + i] = tables[i]
    BY <1>1, <1>5, <1>6, SMTT(40)
  <2>5. RollbackRemovals(plan, NoPlan) = rules \o tables
    BY DEF RollbackRemovals, rules, tables
  <2>6. DOMAIN (rules \o tables) = 1..(4 * n)
    BY <2>1, <2>2
  <2> HIDE DEF n
  <2> QED
    BY <2>1, <2>3, <2>4, <2>5, <2>6
<1>8. ASSUME NEW ft \in LaneFamilies(plan)
      PROVE  /\ \E i \in DOMAIN (rules \o tables) :
                  (rules \o tables)[i] = DeleteRule(ft[1], ft[2])
             /\ \E i \in DOMAIN (rules \o tables) :
                  (rules \o tables)[i] = FlushTable(ft[1], ft[2])
  <2>1. ft[1] \in Families /\ ft[2] \in 1..n
    BY DEF LaneFamilies
  <2>2. PICK i \in 1..(2 * n) :
               VisitedFamily(i) = ft[1] /\ VisitedTable(i) = ft[2]
    <3> HIDE DEF n
    <3> QED
      BY <1>1, <2>1, RemovalIndex
  <2>3. rules[i] = DeleteRule(ft[1], ft[2]) /\ tables[i] = FlushTable(ft[1], ft[2])
    BY <1>2, <2>2
  <2>4. i \in 1..(4 * n) /\ 2 * n + i \in 1..(4 * n)
    BY <1>1
  <2> HIDE DEF rules, tables
  <2> QED
    BY <1>7, <2>3, <2>4
<1> QED
  BY <1>7, <1>8

-----------------------------------------------------------------------------
(* The states a sequence of steps passes through *)

\* What holds at zero and is inherited from each number to the next holds for all.
LEMMA SetInduction ==
    ASSUME NEW T \in SUBSET Nat, 0 \in T, \A n \in T : n + 1 \in T
    PROVE  \A n \in Nat : n \in T
<1> DEFINE R == {ss \in Nat \X Nat : ss[1] < ss[2]}
           B == Nat \ T
<1> SUFFICES ASSUME B # {} PROVE FALSE
  OBVIOUS
<1>1. \E x \in B : \A y \in B : ~(<<y, x>> \in R)
  <2>1. IsWellFoundedOn(R, Nat) /\ B \subseteq Nat
    BY NatLessThanWellFounded DEF OpToRel
  <2> HIDE DEF R, B
  <2> QED BY <2>1, WFMin
<1>2. PICK x \in B : \A y \in B : ~(<<y, x>> \in R)
  BY <1>1
<1>3. x # 0 /\ x - 1 \in Nat /\ x - 1 < x
  OBVIOUS
<1>4. x - 1 \in T
  BY <1>2, <1>3
<1> QED BY <1>3, <1>4

\* The states of a step sequence follow one another.
LEMMA StatesFollow ==
    ASSUME NEW live, NEW steps, Len(steps) \in Nat
    PROVE  LET after == StatesAfter(live, steps)
           IN  after = [i \in 0..Len(steps) |->
                            IF i = 0 THEN live ELSE ApplyRoutingStep(after[i - 1], steps[i])]
<1> DEFINE N == Len(steps)
           is(g, n) == g = [i \in 0..n |-> IF i = 0 THEN live ELSE ApplyRoutingStep(g[i - 1], steps[i])]
           T == {n \in Nat : \E g : is(g, n)}
<1>1. 0 \in T
  <2> DEFINE g == [i \in 0..0 |-> live]
  <2>1. g = [i \in 0..0 |-> IF i = 0 THEN live ELSE ApplyRoutingStep(g[i - 1], steps[i])]
    OBVIOUS
  <2> QED BY <2>1
<1>2. ASSUME NEW n \in T PROVE n + 1 \in T
  <2>1. PICK g : is(g, n)
    OBVIOUS
  <2> DEFINE h == [i \in 0..(n + 1) |-> IF i = n + 1 THEN ApplyRoutingStep(g[n], steps[n + 1]) ELSE g[i]]
  <2>2. ASSUME NEW i \in 0..(n + 1)
        PROVE  h[i] = IF i = 0 THEN live ELSE ApplyRoutingStep(h[i - 1], steps[i])
    <3>1. CASE i = n + 1
      <4>1. h[i - 1] = g[n] /\ h[i] = ApplyRoutingStep(g[n], steps[n + 1])
        BY <3>1
      <4> HIDE DEF h
      <4> QED BY <3>1, <4>1
    <3>2. CASE i \in 0..n
      <4>1. h[i] = g[i] /\ (i # 0 => h[i - 1] = g[i - 1])
        BY <3>2
      <4> HIDE DEF h
      <4> QED BY <2>1, <3>2, <4>1
    <3> QED BY <3>1, <3>2
  <2>3. is(h, n + 1)
    BY <2>2
  <2> HIDE DEF h, is
  <2> QED BY <2>3
<1>3. N \in T
  <2>1. T \in SUBSET Nat
    OBVIOUS
  <2> HIDE DEF T
  <2> QED BY <1>1, <1>2, <2>1, SetInduction
<1>4. \E g : is(g, N)
  BY <1>3
<1> DEFINE after == StatesAfter(live, steps)
<1>5. after = CHOOSE g : is(g, N)
  BY DEF StatesAfter
<1> HIDE DEF is
<1>6. is(after, N)
  BY <1>4, <1>5
<1> QED BY <1>6 DEF is

\* A set of states that every step keeps holds all states of a sequence.
LEMMA StatesWithin ==
    ASSUME NEW live, NEW steps, Len(steps) \in Nat, NEW I, live \in I,
           \A x \in I : \A i \in 1..Len(steps) : ApplyRoutingStep(x, steps[i]) \in I
    PROVE  StatesAlong(live, steps) \subseteq I /\ StateAfter(live, steps) \in I
<1> DEFINE after == StatesAfter(live, steps)
           T == {n \in Nat : n <= Len(steps) => after[n] \in I}
<1>1. after = [i \in 0..Len(steps) |->
                    IF i = 0 THEN live ELSE ApplyRoutingStep(after[i - 1], steps[i])]
  BY StatesFollow
<1> HIDE DEF after
<1>2. 0 \in T
  BY <1>1
<1>3. ASSUME NEW n \in T PROVE n + 1 \in T
  <2>1. SUFFICES ASSUME n + 1 <= Len(steps) PROVE after[n + 1] \in I
    OBVIOUS
  <2>2. after[n + 1] = ApplyRoutingStep(after[n], steps[n + 1])
    BY <1>1, <2>1
  <2>3. after[n] \in I /\ n + 1 \in 1..Len(steps)
    BY <2>1
  <2> QED BY <2>2, <2>3
<1>4. \A n \in Nat : n \in T
  <2>1. T \in SUBSET Nat
    OBVIOUS
  <2> HIDE DEF T
  <2> QED BY <1>2, <1>3, <2>1, SetInduction
<1>5. \A n \in 0..Len(steps) : after[n] \in I
  BY <1>4
<1> QED BY <1>5 DEF StatesAlong, StateAfter, after

\* Sequences laid end to end grow by one sequence at a time.
LEMMA FlattenGrows ==
    ASSUME NEW S, NEW seqs \in Seq(Seq(S)), seqs # <<>>
    PROVE  \E flat : /\ FlattenSeq(seqs) = flat[Len(seqs)]
                     /\ flat[1] = seqs[1]
                     /\ \A i \in 2..Len(seqs) : flat[i] = flat[i - 1] \o seqs[i]
                     /\ \A i \in 1..Len(seqs) : flat[i] \in Seq(S)
<1> DEFINE N == Len(seqs)
           is(g, n) == \A i \in 1..n : g[i] = IF i = 1 THEN seqs[i] ELSE g[i - 1] \o seqs[i]
           ok(g, n) == /\ g = [i \in 1..n |-> g[i]] /\ is(g, n)
                       /\ \A i \in 1..n : g[i] \in Seq(S)
           T == {n \in Nat : n <= N => \E g : ok(g, n)}
<1>0. N \in Nat /\ \A i \in 1..N : seqs[i] \in Seq(S)
  OBVIOUS
<1> HIDE DEF N
<1>1. 0 \in T
  <2> DEFINE g == [i \in 1..0 |-> seqs[i]]
  <2>1. ok(g, 0)
    OBVIOUS
  <2> HIDE DEF ok, g
  <2> QED BY <2>1
<1>2. ASSUME NEW n \in T PROVE n + 1 \in T
  <2>1. SUFFICES ASSUME n + 1 <= N PROVE \E h : ok(h, n + 1)
    <3> HIDE DEF ok
    <3> QED OBVIOUS
  <2>2. \E g : ok(g, n)
    <3> HIDE DEF ok
    <3> QED BY <1>0, <2>1
  <2>3. PICK g : ok(g, n)
    BY <2>2
  <2> DEFINE last == IF n = 0 THEN seqs[n + 1] ELSE g[n] \o seqs[n + 1]
             h == [i \in 1..(n + 1) |-> IF i <= n THEN g[i] ELSE last]
  <2>4. last \in Seq(S)
    <3>1. seqs[n + 1] \in Seq(S)
      BY <1>0, <2>1
    <3>2. n # 0 => g[n] \in Seq(S)
      BY <2>3
    <3> QED BY <3>1, <3>2
  <2> DEFINE both(i) == h[i] = (IF i = 1 THEN seqs[i] ELSE h[i - 1] \o seqs[i]) /\ h[i] \in Seq(S)
  <2>5. ASSUME NEW i \in 1..(n + 1) PROVE both(i)
    <3>1. CASE i = n + 1
      <4>1. h[i] = last /\ (n # 0 => h[i - 1] = g[n])
        <5> HIDE DEF last
        <5> QED BY <3>1
      <4> HIDE DEF h
      <4> QED BY <2>4, <3>1, <4>1
    <3>2. CASE i <= n
      <4>1. h[i] = g[i] /\ (i # 1 => h[i - 1] = g[i - 1])
        <5> HIDE DEF last
        <5> QED BY <3>2
      <4>2. g[i] = (IF i = 1 THEN seqs[i] ELSE g[i - 1] \o seqs[i]) /\ g[i] \in Seq(S)
        <5>1. i \in 1..n
          BY <3>2
        <5>2. \A j \in 1..n : g[j] = IF j = 1 THEN seqs[j] ELSE g[j - 1] \o seqs[j]
          BY <2>3, Zenon
        <5>3. \A j \in 1..n : g[j] \in Seq(S)
          BY <2>3, Zenon
        <5> HIDE DEF ok, is
        <5> QED BY <5>1, <5>2, <5>3, Zenon
      <4> HIDE DEF h
      <4> QED BY <4>1, <4>2
    <3> QED BY <3>1, <3>2
  <2>6. h = [i \in 1..(n + 1) |-> h[i]]
    OBVIOUS
  <2> HIDE DEF h, last
  <2>7. ok(h, n + 1)
    BY <2>5, <2>6
  <2> HIDE DEF ok
  <2> QED BY <2>7
<1>3. \E g : ok(g, N)
  <2>1. T \in SUBSET Nat
    OBVIOUS
  <2>2. N \in T
    <3> HIDE DEF T
    <3> QED BY <1>0, <1>1, <1>2, <2>1, SetInduction
  <2> HIDE DEF ok
  <2> QED BY <2>2
<1>4. N # 0
  BY DEF N
<1> QED
  <2> DEFINE whole(g) == g = [i \in 1..N |-> IF i = 1 THEN seqs[i] ELSE g[i - 1] \o seqs[i]]
             flat == CHOOSE g : whole(g)
  <2>1. FlattenSeq(seqs) = flat[N]
    BY <1>4 DEF FlattenSeq, N
  <2>2. PICK g : ok(g, N)
    BY <1>3
  <2>3. whole(g)
    <3>1. [i \in 1..N |-> IF i = 1 THEN seqs[i] ELSE g[i - 1] \o seqs[i]] = [i \in 1..N |-> g[i]]
      BY <2>2
    <3> QED BY <2>2, <3>1
  <2>4. whole(flat)
    <3> HIDE DEF whole
    <3> QED BY <2>3
  <2> HIDE DEF flat
  <2>5. ASSUME NEW i \in 1..N
        PROVE  flat[i] = IF i = 1 THEN seqs[i] ELSE flat[i - 1] \o seqs[i]
    BY <2>4
  <2> HIDE DEF whole
  <2> DEFINE U == {n \in Nat : n + 1 <= N => flat[n + 1] \in Seq(S)}
  <2>6. 0 \in U
    <3>1. flat[1] = seqs[1] /\ seqs[1] \in Seq(S)
      BY <1>0, <1>4, <2>5
    <3> QED BY <3>1
  <2>7. ASSUME NEW n \in U PROVE n + 1 \in U
    <3>1. SUFFICES ASSUME n + 2 <= N PROVE flat[n + 2] \in Seq(S)
      OBVIOUS
    <3>2. n + 2 \in 1..N /\ n + 2 # 1 /\ (n + 2) - 1 = n + 1
      BY <1>0, <3>1
    <3>3. flat[n + 2] = flat[n + 1] \o seqs[n + 2]
      BY <2>5, <3>2
    <3>4. flat[n + 1] \in Seq(S)
      BY <1>0, <3>1
    <3>5. seqs[n + 2] \in Seq(S)
      BY <1>0, <3>2
    <3> QED BY <3>3, <3>4, <3>5
  <2>8. \A n \in Nat : n \in U
    <3>1. U \in SUBSET Nat
      OBVIOUS
    <3> HIDE DEF U
    <3> QED BY <2>6, <2>7, <3>1, SetInduction
  <2>9. \A i \in 1..N : flat[i] \in Seq(S)
    <3> TAKE i \in 1..N
    <3>1. i - 1 \in Nat /\ (i - 1) + 1 = i /\ i <= N
      BY <1>0
    <3>2. i - 1 \in U
      <4> HIDE DEF U
      <4> QED BY <2>8, <3>1
    <3>3. (i - 1) + 1 <= N => flat[(i - 1) + 1] \in Seq(S)
      BY <3>2
    <3> QED BY <3>1, <3>3
  <2>10. flat[1] = seqs[1]
    <3>1. 1 \in 1..N
      BY <1>0, <1>4
    <3>2. flat[1] = IF 1 = 1 THEN seqs[1] ELSE flat[1 - 1] \o seqs[1]
      BY <2>5, <3>1
    <3> QED BY <3>2
  <2>11. ASSUME NEW i \in 2..N PROVE flat[i] = flat[i - 1] \o seqs[i]
    <3>1. i \in 1..N /\ i # 1
      BY <1>0
    <3> QED BY <2>5, <3>1
  <2> QED BY <2>1, <2>9, <2>10, <2>11 DEF N

\* Sequences over a set, laid end to end, are one over that set.
LEMMA FlattenAre ==
    ASSUME NEW S, NEW seqs \in Seq(Seq(S))
    PROVE  FlattenSeq(seqs) \in Seq(S)
<1>1. CASE seqs = <<>>
  BY <1>1 DEF FlattenSeq
<1>2. CASE seqs # <<>>
  <2>1. Len(seqs) \in 1..Len(seqs)
    BY <1>2
  <2> QED BY <1>2, <2>1, FlattenGrows
<1> QED BY <1>1, <1>2

-----------------------------------------------------------------------------
(* What the steps of a transition and of a rollback are *)

RemovalSteps ==
    {DeleteRule(f, t) : f \in Families, t \in Nat} \cup {FlushTable(f, t) : f \in Families, t \in Nat}
ForwardSteps(next) ==
    {ReplaceRoute(r) : r \in Own(next).routes} \cup {DeleteRoute(r) : r \in Own(next).routes}
    \cup {AddRule(ft[1], ft[2]) : ft \in LaneFamilies(next)}
RetiringSteps(previous) ==
    RemovalSteps \cup {DeleteRoute(r) : r \in Own(previous).routes}

\* The steps of every lane and family in turn are a sequence over their set.
LEMMA PerLaneFamilyAre ==
    ASSUME NEW S, NEW n \in Nat, NEW F,
           \A f \in Families : \A t \in 1..n : F[<<f, t>>] \in Seq(S)
    PROVE  FlattenSeq([i \in 1..(2 * n) |-> F[<<VisitedFamily(i), VisitedTable(i)>>]]) \in Seq(S)
<1> DEFINE seqs == [i \in 1..(2 * n) |-> F[<<VisitedFamily(i), VisitedTable(i)>>]]
<1>1. \A i \in 1..(2 * n) : seqs[i] \in Seq(S)
  BY RemovalStep
<1>2. seqs \in [1..(2 * n) -> Seq(S)]
  BY <1>1
<1> HIDE DEF seqs
<1>3. 2 * n \in Nat
  OBVIOUS
<1>4. seqs \in Seq(Seq(S))
  BY <1>2, <1>3
<1>5. FlattenSeq(seqs) \in Seq(S)
  BY <1>4, FlattenAre
<1> QED BY <1>5 DEF seqs

\* What a plan owns of a lane and family it has.
LEMMA OwnMembers ==
    ASSUME NEW plan, NEW f \in Families, NEW t \in 1..LaneCount(plan)
    PROVE  /\ <<f, t>> \in LaneFamilies(plan)
           /\ Terminal(f, t) \in Own(plan).routes
           /\ Rule(f, t) \in Own(plan).rules
           /\ HasUnicast(plan, f, t) => Unicast(plan, f, t) \in Own(plan).routes
<1>1. <<f, t>> \in LaneFamilies(plan)
  BY DEF LaneFamilies
<1> QED BY <1>1 DEF Own

\* A transition replaces routes of the next plan, lifts its terminals and adds
\* its rules.
LEMMA TransitionStepsAre ==
    ASSUME NEW previous, NEW next, LaneCount(next) \in Nat
    PROVE  TransitionSteps(previous, next) \in Seq(ForwardSteps(next))
<1> DEFINE S == ForwardSteps(next)
           n == LaneCount(next)
           F == [x \in Families \X (1..n) |-> TransitionRoutes(previous, next, x[1], x[2])]
           G == [x \in Families \X (1..n) |-> NewRules(previous, x[1], x[2])]
           sF == [i \in 1..(2 * n) |-> F[<<VisitedFamily(i), VisitedTable(i)>>]]
           sG == [i \in 1..(2 * n) |-> G[<<VisitedFamily(i), VisitedTable(i)>>]]
<1>1. ASSUME NEW f \in Families, NEW t \in 1..n
      PROVE  F[<<f, t>>] \in Seq(S) /\ G[<<f, t>>] \in Seq(S)
  <2>1. F[<<f, t>>] = TransitionRoutes(previous, next, f, t) /\ G[<<f, t>>] = NewRules(previous, f, t)
    OBVIOUS
  <2>2. /\ <<f, t>> \in LaneFamilies(next) /\ Terminal(f, t) \in Own(next).routes
        /\ HasUnicast(next, f, t) => Unicast(next, f, t) \in Own(next).routes
    BY OwnMembers
  <2>3. \A r \in Own(next).routes : DeleteRoute(r) \in S /\ ReplaceRoute(r) \in S
    BY DEF ForwardSteps
  <2>4. AddRule(f, t) \in S
    BY <2>2 DEF ForwardSteps
  <2>5. /\ DeleteRoute(Terminal(f, t)) \in S /\ ReplaceRoute(Terminal(f, t)) \in S
        /\ AddRule(f, t) \in S
        /\ HasUnicast(next, f, t) => ReplaceRoute(Unicast(next, f, t)) \in S
    <3> HIDE DEF S
    <3> QED BY <2>2, <2>3, <2>4
  <2> HIDE DEF S, F, G
  <2> DEFINE a == IF GatewayNeedsOpenTable(previous, next, f, t)
                  THEN <<DeleteRoute(Terminal(f, t))>> ELSE <<>>
             b == IF HasUnicast(next, f, t) THEN <<ReplaceRoute(Unicast(next, f, t))>> ELSE <<>>
             c == <<ReplaceRoute(Terminal(f, t))>>
  <2>6. a \in Seq(S) /\ b \in Seq(S) /\ c \in Seq(S)
    BY <2>5
  <2>7. TransitionRoutes(previous, next, f, t) = a \o b \o c
    BY DEF TransitionRoutes
  <2> HIDE DEF a, b, c
  <2>8. a \o b \o c \in Seq(S)
    BY <2>6
  <2>9. NewRules(previous, f, t) \in Seq(S)
    BY <2>5 DEF NewRules
  <2> QED BY <2>1, <2>7, <2>8, <2>9
<1>2. /\ \A i \in 1..(2 * n) : F[<<VisitedFamily(i), VisitedTable(i)>>]
                = TransitionRoutes(previous, next, VisitedFamily(i), VisitedTable(i))
      /\ \A i \in 1..(2 * n) : G[<<VisitedFamily(i), VisitedTable(i)>>]
                = NewRules(previous, VisitedFamily(i), VisitedTable(i))
  BY RemovalStep
<1> HIDE DEF S, F, G
<1>3. FlattenSeq(sF) \in Seq(S) /\ FlattenSeq(sG) \in Seq(S)
  <2> HIDE DEF n
  <2>1. n \in Nat
    BY DEF n
  <2> QED BY <1>1, <2>1, PerLaneFamilyAre
<1>4. TransitionSteps(previous, next) = FlattenSeq(sF) \o FlattenSeq(sG)
  <2>1. /\ sF = [i \in 1..(2 * n) |-> TransitionRoutes(previous, next, VisitedFamily(i), VisitedTable(i))]
        /\ sG = [i \in 1..(2 * n) |-> NewRules(previous, VisitedFamily(i), VisitedTable(i))]
    BY <1>2
  <2> QED BY <2>1 DEF TransitionSteps, PerLaneFamily
<1> HIDE DEF sF, sG
<1> QED BY <1>3, <1>4 DEF S

\* Retiring a plan removes rules, tables and routes of it.
LEMMA RetireStepsAre ==
    ASSUME NEW previous, NEW next, LaneCount(previous) \in Nat
    PROVE  RetireSteps(previous, next) \in Seq(RetiringSteps(previous))
<1> DEFINE S == RetiringSteps(previous)
           n == LaneCount(previous)
           F == [x \in Families \X (1..n) |-> OldRules(next, x[1], x[2])]
           G == [x \in Families \X (1..n) |-> OldRoutes(previous, next, x[1], x[2])]
           sF == [i \in 1..(2 * n) |-> F[<<VisitedFamily(i), VisitedTable(i)>>]]
           sG == [i \in 1..(2 * n) |-> G[<<VisitedFamily(i), VisitedTable(i)>>]]
<1>1. ASSUME NEW f \in Families, NEW t \in 1..n
      PROVE  F[<<f, t>>] \in Seq(S) /\ G[<<f, t>>] \in Seq(S)
  <2>1. F[<<f, t>>] = OldRules(next, f, t) /\ G[<<f, t>>] = OldRoutes(previous, next, f, t)
    OBVIOUS
  <2>2. HasUnicast(previous, f, t) => Unicast(previous, f, t) \in Own(previous).routes
    BY OwnMembers
  <2>3. \A r \in Own(previous).routes : DeleteRoute(r) \in S
    BY DEF RetiringSteps
  <2>4. DeleteRule(f, t) \in S /\ FlushTable(f, t) \in S
    BY DEF RetiringSteps, RemovalSteps
  <2>5. /\ DeleteRule(f, t) \in S /\ FlushTable(f, t) \in S
        /\ HasUnicast(previous, f, t) => DeleteRoute(Unicast(previous, f, t)) \in S
    <3> HIDE DEF S
    <3> QED BY <2>2, <2>3, <2>4
  <2> HIDE DEF S, F, G
  <2> QED BY <2>1, <2>5 DEF OldRules, OldRoutes
<1>2. /\ \A i \in 1..(2 * n) : F[<<VisitedFamily(i), VisitedTable(i)>>]
                = OldRules(next, VisitedFamily(i), VisitedTable(i))
      /\ \A i \in 1..(2 * n) : G[<<VisitedFamily(i), VisitedTable(i)>>]
                = OldRoutes(previous, next, VisitedFamily(i), VisitedTable(i))
  BY RemovalStep
<1> HIDE DEF S, F, G
<1>3. FlattenSeq(sF) \in Seq(S) /\ FlattenSeq(sG) \in Seq(S)
  <2> HIDE DEF n
  <2>1. n \in Nat
    BY DEF n
  <2> QED BY <1>1, <2>1, PerLaneFamilyAre
<1>4. RetireSteps(previous, next) = FlattenSeq(sF) \o FlattenSeq(sG)
  <2>1. /\ sF = [i \in 1..(2 * n) |-> OldRules(next, VisitedFamily(i), VisitedTable(i))]
        /\ sG = [i \in 1..(2 * n) |-> OldRoutes(previous, next, VisitedFamily(i), VisitedTable(i))]
    BY <1>2
  <2> QED BY <2>1 DEF RetireSteps, PerLaneFamily
<1> HIDE DEF sF, sG
<1> QED BY <1>3, <1>4 DEF S

\* A rollback removes rules, then tables.
LEMMA RollbackStepsAre ==
    ASSUME NEW previous, NEW next, LaneCount(previous) \in Nat, LaneCount(next) \in Nat
    PROVE  RollbackRemovals(previous, next) \in Seq(RemovalSteps)
<1> DEFINE w == WiderLaneCount(previous, next)
           S == RemovalSteps
           a == RollbackRules(previous, next)
           b == RollbackTables(previous, next)
<1>1. w \in Nat /\ 2 * w \in Nat
  BY DEF WiderLaneCount
<1>2. /\ a = [i \in 1..(2 * w) |-> DeleteRule(VisitedFamily(i), VisitedTable(i))]
      /\ b = [i \in 1..(2 * w) |-> FlushTable(VisitedFamily(i), VisitedTable(i))]
  BY DEF RollbackRules, RollbackTables
<1> HIDE DEF w, a, b
<1>3. ASSUME NEW i \in 1..(2 * w) PROVE a[i] \in S /\ b[i] \in S
  BY <1>1, <1>2, RemovalStep DEF RemovalSteps
<1> HIDE DEF S
<1>4. a \in Seq(S) /\ b \in Seq(S)
  BY <1>1, <1>2, <1>3
<1>5. RollbackRemovals(previous, next) = a \o b
  BY DEF RollbackRemovals, a, b
<1>6. a \o b \in Seq(S)
  BY <1>4
<1> QED BY <1>5, <1>6 DEF S

-----------------------------------------------------------------------------
(* Where those steps lead *)

Parts(routes, rules) == [routes: SUBSET routes, rules: SUBSET rules]

\* A replaced route takes the place of the one of its kind in its table.
LEMMA ReplaceRouteApplied ==
    ASSUME NEW live, NEW r
    PROVE  ApplyRoutingStep(live, ReplaceRoute(r)) =
             [live EXCEPT !.routes = {q \in @ : \/ q.fam # r.fam \/ q.tab # r.tab
                                               \/ IsTerminal(q) # IsTerminal(r)} \cup {r}]
<1>1. ReplaceRoute(r).op = "replace" /\ ReplaceRoute(r).route = r
  BY DEF ReplaceRoute
<1> QED BY <1>1 DEF ApplyRoutingStep

\* A deleted route is gone, and no other.
LEMMA DeleteRouteApplied ==
    ASSUME NEW live, NEW r
    PROVE  ApplyRoutingStep(live, DeleteRoute(r)) = [live EXCEPT !.routes = @ \ {r}]
<1>1. DeleteRoute(r).op = "delete" /\ DeleteRoute(r).route = r
  BY DEF DeleteRoute
<1> QED BY <1>1 DEF ApplyRoutingStep

\* An added rule is there, and no other.
LEMMA AddRuleApplied ==
    ASSUME NEW live, NEW f, NEW t
    PROVE  ApplyRoutingStep(live, AddRule(f, t)) = [live EXCEPT !.rules = @ \cup {Rule(f, t)}]
<1>1. AddRule(f, t).op = "addrule" /\ AddRule(f, t).rule = Rule(f, t)
  BY DEF AddRule
<1> QED BY <1>1 DEF ApplyRoutingStep

\* Removals leave a part of what there was.
LEMMA RemovalStays ==
    ASSUME NEW R, NEW U, NEW live \in Parts(R, U), NEW step \in RemovalSteps
    PROVE  /\ ApplyRoutingStep(live, step) \in Parts(R, U)
           /\ Within(ApplyRoutingStep(live, step), live)
<1>1. CASE \E f \in Families, t \in Nat : step = DeleteRule(f, t)
  BY <1>1, DeleteRuleApplied DEF Parts, Within
<1>2. CASE \E f \in Families, t \in Nat : step = FlushTable(f, t)
  BY <1>2, FlushTableApplied DEF Parts, Within
<1> QED BY <1>1, <1>2 DEF RemovalSteps

\* So does the retirement of a plan.
LEMMA RetiringStays ==
    ASSUME NEW R, NEW U, NEW plan, NEW live \in Parts(R, U), NEW step \in RetiringSteps(plan)
    PROVE  ApplyRoutingStep(live, step) \in Parts(R, U)
<1>1. CASE step \in RemovalSteps
  BY <1>1, RemovalStays
<1>2. CASE \E r \in Own(plan).routes : step = DeleteRoute(r)
  BY <1>2, DeleteRouteApplied DEF Parts
<1> QED BY <1>1, <1>2 DEF RetiringSteps

\* A transition adds what the next plan owns.
LEMMA ForwardStays ==
    ASSUME NEW R, NEW U, NEW next, Own(next).routes \subseteq R, Own(next).rules \subseteq U,
           NEW live \in Parts(R, U), NEW step \in ForwardSteps(next)
    PROVE  ApplyRoutingStep(live, step) \in Parts(R, U)
<1>1. CASE \E r \in Own(next).routes : step = ReplaceRoute(r)
  BY <1>1, ReplaceRouteApplied DEF Parts
<1>2. CASE \E r \in Own(next).routes : step = DeleteRoute(r)
  BY <1>2, DeleteRouteApplied DEF Parts
<1>3. CASE \E ft \in LaneFamilies(next) : step = AddRule(ft[1], ft[2])
  <2>1. PICK ft \in LaneFamilies(next) : step = AddRule(ft[1], ft[2])
    BY <1>3
  <2>2. Rule(ft[1], ft[2]) \in Own(next).rules
    BY DEF Own
  <2>3. ApplyRoutingStep(live, step) = [live EXCEPT !.rules = @ \cup {Rule(ft[1], ft[2])}]
    BY <2>1, AddRuleApplied, ZenonT(40)
  <2> QED BY <2>2, <2>3 DEF Parts
<1> QED BY <1>1, <1>2, <1>3 DEF ForwardSteps

\* Everything a sequence of removals passes through is part of where it started.
LEMMA RemovalsWithin ==
    ASSUME NEW R, NEW U, NEW live \in Parts(R, U), NEW steps \in Seq(RemovalSteps)
    PROVE  StatesAlong(live, steps) \subseteq Parts(R, U)
<1>1. \A x \in Parts(R, U) : \A i \in 1..Len(steps) : ApplyRoutingStep(x, steps[i]) \in Parts(R, U)
  BY RemovalStays
<1>2. Len(steps) \in Nat
  OBVIOUS
<1> QED BY <1>1, <1>2, StatesWithin

\* Every state recovery expects of a transition has routes and rules of the
\* two plans only.
LEMMA CrashStatesWithin ==
    ASSUME NEW basis, NEW next, LaneCount(basis) \in Nat, LaneCount(next) \in Nat
    PROVE  LET P == Parts(Own(basis).routes \cup Own(next).routes, Own(basis).rules \cup Own(next).rules)
           IN  /\ Own(basis) \in P /\ Own(next) \in P
               /\ PreparedStates(basis, next) \subseteq P
               /\ ActivatedStates(basis, next) \subseteq P
               /\ AbsentRollbackStates(basis) \subseteq P
               /\ \A starts \in SUBSET P : \A live : ReachedFrom(starts, live, basis, next) => live \in P
<1> DEFINE R == Own(basis).routes \cup Own(next).routes
           U == Own(basis).rules \cup Own(next).rules
           P == Parts(R, U)
           forward == TransitionSteps(basis, next)
           retire == IF basis = NoPlan THEN <<>> ELSE RetireSteps(basis, next)
<1>1. Own(basis) \in P /\ Own(next) \in P /\ Nothing \in P
  BY DEF Own, Nothing, Parts
<1>2. StatesAlong(Own(basis), forward) \subseteq P /\ StateAfter(Own(basis), forward) \in P
  <2>1. forward \in Seq(ForwardSteps(next))
    BY TransitionStepsAre
  <2> HIDE DEF forward, R, U
  <2>2. Len(forward) \in Nat /\ \A i \in 1..Len(forward) : forward[i] \in ForwardSteps(next)
    BY <2>1
  <2>3. \A x \in P : \A i \in 1..Len(forward) : ApplyRoutingStep(x, forward[i]) \in P
    BY <2>2, ForwardStays DEF R, U
  <2> HIDE DEF P
  <2> QED BY <1>1, <2>2, <2>3, StatesWithin
<1>3. StatesAlong(StateAfter(Own(basis), forward), retire) \subseteq P
  <2>1. retire \in Seq(RetiringSteps(basis))
    BY RetireStepsAre
  <2> HIDE DEF retire, forward, R, U
  <2>2. Len(retire) \in Nat /\ \A i \in 1..Len(retire) : retire[i] \in RetiringSteps(basis)
    BY <2>1
  <2>3. \A x \in P : \A i \in 1..Len(retire) : ApplyRoutingStep(x, retire[i]) \in P
    BY <2>2, RetiringStays
  <2> HIDE DEF P
  <2> QED BY <1>2, <2>2, <2>3, StatesWithin
<1>4. AbsentRollbackStates(basis) \subseteq P
  <2> DEFINE install == InstallSteps(basis)
  <2>1. install \in Seq(ForwardSteps(basis))
    BY TransitionStepsAre DEF InstallSteps
  <2> HIDE DEF install, R, U
  <2>2. Len(install) \in Nat /\ \A i \in 1..Len(install) : install[i] \in ForwardSteps(basis)
    BY <2>1
  <2>3. \A x \in P : \A i \in 1..Len(install) : ApplyRoutingStep(x, install[i]) \in P
    BY <2>2, ForwardStays DEF R, U
  <2> HIDE DEF P
  <2>4. StatesAlong(Nothing, install) \subseteq P
    BY <1>1, <2>2, <2>3, StatesWithin
  <2> QED BY <1>1, <2>4 DEF AbsentRollbackStates, install
<1>5. ASSUME NEW starts \in SUBSET P, NEW live, ReachedFrom(starts, live, basis, next)
      PROVE  live \in P
  <2> HIDE DEF R, U
  <2>1. PICK s \in starts : live \in StatesAlong(s, RollbackRemovals(basis, next))
    BY <1>5 DEF ReachedFrom
  <2>2. RollbackRemovals(basis, next) \in Seq(RemovalSteps)
    BY RollbackStepsAre
  <2> QED BY <2>1, <2>2, RemovalsWithin
<1> HIDE DEF P
<1> QED BY <1>1, <1>2, <1>3, <1>4, <1>5 DEF PreparedStates, ActivatedStates, P, R, U, forward, retire

-----------------------------------------------------------------------------
(* What removals leave nothing of *)

\* Nothing is there for a removal to take away.
Gone(live, step) ==
    /\ step.op = "delrule" => step.rule \notin live.rules
    /\ step.op = "flush" => \A r \in live.routes : r.fam # step.fam \/ r.tab # step.tab

\* A removal leaves nothing of what it takes away, has no effect where nothing
\* is left, and what is gone is gone from every part.
LEMMA RemovedIsGone ==
    ASSUME NEW R, NEW U, NEW live \in Parts(R, U), NEW step \in RemovalSteps
    PROVE  /\ Gone(ApplyRoutingStep(live, step), step)
           /\ Gone(live, step) => ApplyRoutingStep(live, step) = live
           /\ \A part : Within(part, live) /\ Gone(live, step) => Gone(part, step)
<1>0. live.routes \subseteq R /\ live.rules \subseteq U /\ live = [routes |-> live.routes, rules |-> live.rules]
  BY DEF Parts
<1>1. CASE \E f \in Families, t \in Nat : step = DeleteRule(f, t)
  <2>1. PICK f \in Families, t \in Nat : step = DeleteRule(f, t)
    BY <1>1
  <2>2. step.op = "delrule" /\ step.rule = Rule(f, t)
    BY <2>1 DEF DeleteRule
  <2>3. ApplyRoutingStep(live, step) = [live EXCEPT !.rules = @ \ {Rule(f, t)}]
    BY <2>1, DeleteRuleApplied
  <2>4. ApplyRoutingStep(live, step).rules = live.rules \ {Rule(f, t)}
    BY <1>0, <2>3
  <2>5. Rule(f, t) \notin live.rules => ApplyRoutingStep(live, step) = live
    <3> SUFFICES ASSUME Rule(f, t) \notin live.rules PROVE ApplyRoutingStep(live, step) = live
      OBVIOUS
    <3>1. live.rules \ {Rule(f, t)} = live.rules
      OBVIOUS
    <3>2. ApplyRoutingStep(live, step) = [live EXCEPT !.rules = live.rules]
      BY <2>3, <3>1
    <3> QED BY <1>0, <3>2
  <2> QED BY <2>2, <2>4, <2>5 DEF Gone, Within
<1>2. CASE \E f \in Families, t \in Nat : step = FlushTable(f, t)
  <2>1. PICK f \in Families, t \in Nat : step = FlushTable(f, t)
    BY <1>2
  <2>2. step.op = "flush" /\ step.fam = f /\ step.tab = t
    BY <2>1 DEF FlushTable
  <2> DEFINE rest == {r \in live.routes : r.fam # f \/ r.tab # t}
  <2>3. ApplyRoutingStep(live, step) = [live EXCEPT !.routes = rest]
    BY <2>1, FlushTableApplied
  <2>4. ApplyRoutingStep(live, step).routes = rest
    BY <1>0, <2>3
  <2>5. Gone(live, step) => ApplyRoutingStep(live, step) = live
    <3> SUFFICES ASSUME Gone(live, step) PROVE ApplyRoutingStep(live, step) = live
      OBVIOUS
    <3>1. rest = live.routes
      BY <2>2 DEF Gone
    <3>2. ApplyRoutingStep(live, step) = [live EXCEPT !.routes = live.routes]
      BY <2>3, <3>1
    <3> QED BY <1>0, <3>2
  <2>6. Gone(ApplyRoutingStep(live, step), step)
    BY <2>2, <2>4 DEF Gone
  <2> QED BY <2>2, <2>5, <2>6 DEF Gone, Within
<1> QED BY <1>1, <1>2 DEF RemovalSteps

\* After each number of removals nothing is left of what they took away.
LEMMA GoneAlong ==
    ASSUME NEW R, NEW U, NEW live \in Parts(R, U), NEW steps \in Seq(RemovalSteps)
    PROVE  \A n \in 0..Len(steps) :
             /\ StatesAfter(live, steps)[n] \in Parts(R, U)
             /\ \A i \in 1..n : Gone(StatesAfter(live, steps)[n], steps[i])
<1> DEFINE after == StatesAfter(live, steps)
           ok(n) == after[n] \in Parts(R, U) /\ \A i \in 1..n : Gone(after[n], steps[i])
           T == {n \in Nat : n <= Len(steps) => ok(n)}
<1>0. Len(steps) \in Nat /\ \A i \in 1..Len(steps) : steps[i] \in RemovalSteps
  OBVIOUS
<1>1. after = [i \in 0..Len(steps) |->
                    IF i = 0 THEN live ELSE ApplyRoutingStep(after[i - 1], steps[i])]
  BY <1>0, StatesFollow
<1> HIDE DEF after
<1>2. 0 \in T
  <2>1. after[0] = live
    BY <1>0, <1>1
  <2> QED BY <2>1
<1>3. ASSUME NEW n \in T PROVE n + 1 \in T
  <2> SUFFICES ASSUME n + 1 <= Len(steps) PROVE ok(n + 1)
    OBVIOUS
  <2>1. n \in Nat /\ ok(n) /\ n + 1 \in 1..Len(steps)
    BY <1>0
  <2>2. after[n + 1] = ApplyRoutingStep(after[n], steps[n + 1])
    BY <1>0, <1>1, <2>1
  <2> DEFINE x == after[n]
             step == steps[n + 1]
             y == ApplyRoutingStep(x, step)
  <2>3. x \in Parts(R, U) /\ step \in RemovalSteps /\ \A i \in 1..n : Gone(x, steps[i])
    BY <1>0, <2>1
  <2> HIDE DEF x, step
  <2>4. y \in Parts(R, U) /\ Within(y, x) /\ Gone(y, step)
    BY <2>3, RemovalStays, RemovedIsGone
  <2> HIDE DEF y
  <2>5. ASSUME NEW i \in 1..n PROVE Gone(y, steps[i])
    <3>1. steps[i] \in RemovalSteps /\ Gone(x, steps[i])
      BY <1>0, <2>1, <2>3
    <3> QED BY <2>3, <2>4, <3>1, RemovedIsGone
  <2>6. after[n + 1] = y
    BY <2>2 DEF x, y, step
  <2>7. \A i \in 1..(n + 1) : i \in 1..n \/ i = n + 1
    BY <2>1
  <2> QED BY <2>4, <2>5, <2>6, <2>7 DEF step
<1>4. \A n \in Nat : n \in T
  <2> HIDE DEF ok
  <2>1. T \in SUBSET Nat
    OBVIOUS
  <2> HIDE DEF T
  <2> QED BY <1>2, <1>3, <2>1, SetInduction
<1> QED BY <1>0, <1>4 DEF after

\* A rollback removes the rules and flushes the tables of both plans.
LEMMA RollbackMeets ==
    ASSUME NEW previous, NEW next, LaneCount(previous) \in Nat, LaneCount(next) \in Nat,
           NEW ft \in LaneFamilies(previous) \cup LaneFamilies(next)
    PROVE  LET steps == RollbackRemovals(previous, next)
           IN  /\ \E i \in 1..Len(steps) : steps[i] = DeleteRule(ft[1], ft[2])
               /\ \E i \in 1..Len(steps) : steps[i] = FlushTable(ft[1], ft[2])
<1> DEFINE w == WiderLaneCount(previous, next)
           S == RemovalSteps
           a == RollbackRules(previous, next)
           b == RollbackTables(previous, next)
<1>1. w \in Nat /\ 2 * w \in Nat /\ LaneCount(previous) <= w /\ LaneCount(next) <= w
  BY DEF WiderLaneCount
<1>2. /\ a = [i \in 1..(2 * w) |-> DeleteRule(VisitedFamily(i), VisitedTable(i))]
      /\ b = [i \in 1..(2 * w) |-> FlushTable(VisitedFamily(i), VisitedTable(i))]
  BY DEF RollbackRules, RollbackTables
<1>3. ft[1] \in Families /\ ft[2] \in 1..w
  BY <1>1 DEF LaneFamilies
<1> HIDE DEF w, a, b
<1>4. ASSUME NEW i \in 1..(2 * w) PROVE a[i] \in S /\ b[i] \in S
  BY <1>1, <1>2, RemovalStep DEF RemovalSteps
<1> HIDE DEF S
<1>5. a \in Seq(S) /\ b \in Seq(S) /\ Len(a) = 2 * w /\ Len(b) = 2 * w
  BY <1>1, <1>2, <1>4
<1>6. PICK i \in 1..(2 * w) : VisitedFamily(i) = ft[1] /\ VisitedTable(i) = ft[2]
  BY <1>1, <1>3, RemovalIndex
<1>7. a[i] = DeleteRule(ft[1], ft[2]) /\ b[i] = FlushTable(ft[1], ft[2])
  BY <1>2, <1>6
<1> DEFINE m == 2 * w
<1>8. m \in Nat /\ i \in 1..m /\ Len(a) = m /\ Len(b) = m
  BY <1>1, <1>5
<1> HIDE DEF m
<1>9. i \in 1..Len(a \o b) /\ (a \o b)[i] = a[i] /\ m + i \in 1..Len(a \o b) /\ (a \o b)[m + i] = b[i]
  BY <1>5, <1>8
<1>10. RollbackRemovals(previous, next) = a \o b
  BY DEF RollbackRemovals, a, b
<1> QED BY <1>7, <1>9, <1>10

\* After all of them nothing is left of either plan.
LEMMA RollbackLeavesNothing ==
    ASSUME NEW previous, NEW next, LaneCount(previous) \in Nat, LaneCount(next) \in Nat,
           NEW live \in Parts(Own(previous).routes \cup Own(next).routes,
                              Own(previous).rules \cup Own(next).rules)
    PROVE  StateAfter(live, RollbackRemovals(previous, next)) = Nothing
<1> DEFINE R == Own(previous).routes \cup Own(next).routes
           U == Own(previous).rules \cup Own(next).rules
           steps == RollbackRemovals(previous, next)
           last == StatesAfter(live, steps)[Len(steps)]
           both == LaneFamilies(previous) \cup LaneFamilies(next)
<1>1. steps \in Seq(RemovalSteps) /\ Len(steps) \in Nat
  BY RollbackStepsAre
<1>2. \A ft \in both : /\ \E i \in 1..Len(steps) : steps[i] = DeleteRule(ft[1], ft[2])
                       /\ \E i \in 1..Len(steps) : steps[i] = FlushTable(ft[1], ft[2])
  BY RollbackMeets
<1>3. /\ \A r \in U : \E ft \in both : r = Rule(ft[1], ft[2])
      /\ \A r \in R : \E ft \in both : r.fam = ft[1] /\ r.tab = ft[2]
  <2>1. ASSUME NEW plan
        PROVE  /\ \A r \in Own(plan).rules : \E ft \in LaneFamilies(plan) : r = Rule(ft[1], ft[2])
               /\ \A r \in Own(plan).routes :
                    \E ft \in LaneFamilies(plan) : r.fam = ft[1] /\ r.tab = ft[2]
    <3>1. ASSUME NEW r \in Own(plan).routes
          PROVE  \E ft \in LaneFamilies(plan) : r.fam = ft[1] /\ r.tab = ft[2]
      <4>1. \E ft \in LaneFamilies(plan) : r = Terminal(ft[1], ft[2]) \/ r = Unicast(plan, ft[1], ft[2])
        BY OwnRoutes
      <4>2. PICK ft \in LaneFamilies(plan) : r = Terminal(ft[1], ft[2]) \/ r = Unicast(plan, ft[1], ft[2])
        BY <4>1
      <4>3. \A f, t : Terminal(f, t).fam = f /\ Terminal(f, t).tab = t
        BY DEF Terminal
      <4>4. \A f, t : Unicast(plan, f, t).fam = f /\ Unicast(plan, f, t).tab = t
        BY DEF Unicast
      <4> QED BY <4>2, <4>3, <4>4
    <3> QED BY <3>1, OwnRules
  <2> QED BY <2>1
<1> HIDE DEF steps, both
<1>4. last \in Parts(R, U) /\ \A i \in 1..Len(steps) : Gone(last, steps[i])
  <2>1. live \in Parts(R, U)
    OBVIOUS
  <2> HIDE DEF R, U
  <2> QED BY <1>1, <2>1, GoneAlong
<1> HIDE DEF R, U, last
<1>5. last.routes \subseteq R /\ last.rules \subseteq U /\ last = [routes |-> last.routes, rules |-> last.rules]
  BY <1>4 DEF Parts
<1>6. ASSUME NEW r \in last.rules PROVE FALSE
  <2>1. PICK ft \in both : r = Rule(ft[1], ft[2])
    BY <1>3, <1>5
  <2>2. PICK i \in 1..Len(steps) : steps[i] = DeleteRule(ft[1], ft[2])
    BY <1>2
  <2>3. steps[i].op = "delrule" /\ steps[i].rule = Rule(ft[1], ft[2])
    BY <2>2 DEF DeleteRule
  <2> QED BY <1>4, <2>1, <2>3 DEF Gone
<1>7. ASSUME NEW r \in last.routes PROVE FALSE
  <2>1. PICK ft \in both : r.fam = ft[1] /\ r.tab = ft[2]
    BY <1>3, <1>5
  <2>2. PICK i \in 1..Len(steps) : steps[i] = FlushTable(ft[1], ft[2])
    BY <1>2
  <2>3. steps[i].op = "flush" /\ steps[i].fam = ft[1] /\ steps[i].tab = ft[2]
    BY <2>2 DEF FlushTable
  <2> QED BY <1>4, <2>1, <2>3 DEF Gone
<1>8. last.routes = {} /\ last.rules = {}
  BY <1>6, <1>7
<1> QED BY <1>5, <1>8 DEF StateAfter, Nothing, last, steps

\* With nothing there, removals leave nothing.
LEMMA NothingToRemove ==
    ASSUME NEW steps \in Seq(RemovalSteps)
    PROVE  StatesAlong(Nothing, steps) = {Nothing}
<1>1. Nothing \in Parts({}, {}) /\ Parts({}, {}) \subseteq {Nothing}
  BY DEF Nothing, Parts
<1>2. StatesAlong(Nothing, steps) \subseteq {Nothing}
  BY <1>1, RemovalsWithin
<1>3. Nothing \in StatesAlong(Nothing, steps)
  <2> DEFINE after == StatesAfter(Nothing, steps)
  <2>1. after = [i \in 0..Len(steps) |-> IF i = 0 THEN Nothing ELSE ApplyRoutingStep(after[i - 1], steps[i])]
    BY StatesFollow
  <2> HIDE DEF after
  <2>2. 0 \in 0..Len(steps)
    OBVIOUS
  <2>3. after[0] = Nothing
    BY <2>1, <2>2
  <2> QED BY <2>2, <2>3 DEF StatesAlong, after
<1> QED BY <1>2, <1>3

\* The removals of a rollback depend on how many lanes the plans have.
LEMMA RollbackByLanes ==
    ASSUME NEW a, NEW b, NEW c, NEW d, LaneCount(a) \in Nat, LaneCount(b) \in Nat,
           \/ LaneCount(c) = LaneCount(a) /\ LaneCount(d) = LaneCount(b)
           \/ LaneCount(c) = LaneCount(b) /\ LaneCount(d) = LaneCount(a)
    PROVE  RollbackRemovals(c, d) = RollbackRemovals(a, b)
<1>1. WiderLaneCount(c, d) = WiderLaneCount(a, b)
  BY DEF WiderLaneCount
<1> QED BY <1>1 DEF RollbackRemovals, RollbackRules, RollbackTables

\* Without lost defaults the basis of a plan is the plan.
LEMMA BasisOfAll ==
    ASSUME NEW plan \in PlansOrNone
    PROVE  RoutingBasis(plan, {}) = plan
<1> DEFINE lanes == [t \in DOMAIN plan.lanes |->
                        [plan.lanes[t] EXCEPT !.via =
                            [f \in Families |-> IF <<f, t>> \in {} THEN "none" ELSE plan.lanes[t].via[f]]]]
<1>1. plan.lanes \in Seq(Lanes) /\ \A t \in DOMAIN plan.lanes : plan.lanes[t] \in Lanes
  BY PlanLanes
<1>2. ASSUME NEW t \in DOMAIN plan.lanes PROVE lanes[t] = plan.lanes[t]
  <2> DEFINE lane == plan.lanes[t]
             via == [f \in Families |-> IF <<f, t>> \in {} THEN "none" ELSE lane.via[f]]
  <2>1. lane \in Lanes
    BY <1>1
  <2>2. via = lane.via
    <3>1. lane.via \in [Families -> Vias]
      BY <2>1 DEF Lanes
    <3>2. via = [f \in Families |-> lane.via[f]]
      OBVIOUS
    <3> QED BY <3>1, <3>2
  <2>3. lanes[t] = [lane EXCEPT !.via = via]
    OBVIOUS
  <2> HIDE DEF lane, via, lanes
  <2>4. [lane EXCEPT !.via = lane.via] = lane
    BY <2>1 DEF Lanes
  <2> QED BY <2>2, <2>3, <2>4 DEF lane
<1>3. lanes = plan.lanes
  <2>1. plan.lanes = [t \in DOMAIN plan.lanes |-> plan.lanes[t]]
    BY <1>1
  <2>2. DOMAIN lanes = DOMAIN plan.lanes /\ lanes = [t \in DOMAIN lanes |-> lanes[t]]
    OBVIOUS
  <2> HIDE DEF lanes
  <2> QED BY <1>2, <2>1, <2>2
<1>4. RoutingBasis(plan, {}) = [plan EXCEPT !.lanes = lanes]
  BY DEF RoutingBasis
<1> HIDE DEF lanes
<1>5. [plan EXCEPT !.lanes = plan.lanes] = plan
  <2>1. CASE plan = NoPlan
    BY <2>1 DEF NoPlan
  <2>2. CASE plan \in Plans
    BY <2>2 DEF Plans
  <2> QED BY <2>1, <2>2 DEF PlansOrNone
<1> QED BY <1>3, <1>4, <1>5

-----------------------------------------------------------------------------
(* What is ahead in a step list *)

\* One of the steps in C is ahead.
Ahead(s, C) == \E i \in 1..Len(s) : s[i] \in C

\* Step c is ahead, and none of B comes after it.
Finally(s, c, B) == \E i \in 1..Len(s) : s[i] = c /\ \A j \in i..Len(s) : s[j] \notin B

\* What is ahead of a list is its head or ahead of the rest.
LEMMA AheadInTail ==
    ASSUME NEW S, NEW s \in Seq(S), s # <<>>, NEW c, NEW B
    PROVE  /\ Head(s) \in S /\ Tail(s) \in Seq(S)
           /\ Ahead(s, B) <=> Head(s) \in B \/ Ahead(Tail(s), B)
           /\ Finally(s, c, B) => \/ Head(s) = c /\ ~Ahead(Tail(s), B)
                                  \/ Finally(Tail(s), c, B)
<1> DEFINE t == Tail(s)
<1>1. /\ Len(s) \in Nat /\ Len(s) > 0 /\ t \in Seq(S) /\ Len(t) = Len(s) - 1
      /\ Head(s) = s[1] /\ s[1] \in S /\ \A i \in 1..Len(t) : t[i] = s[i + 1]
  OBVIOUS
<1> HIDE DEF t
<1>2. ASSUME Ahead(s, B) PROVE Head(s) \in B \/ Ahead(t, B)
  <2>1. PICK i \in 1..Len(s) : s[i] \in B
    BY <1>2 DEF Ahead
  <2>2. CASE i = 1
    BY <1>1, <2>1, <2>2
  <2>3. CASE i # 1
    <3>1. i - 1 \in 1..Len(t) /\ t[i - 1] = s[i]
      BY <1>1, <2>1, <2>3
    <3> QED BY <2>1, <3>1 DEF Ahead
  <2> QED BY <2>2, <2>3
<1>3. ASSUME ~Ahead(s, B) PROVE Head(s) \notin B /\ ~Ahead(t, B)
  <2>1. \A i \in 1..Len(s) : s[i] \notin B
    BY <1>3 DEF Ahead
  <2>2. 1 \in 1..Len(s) /\ \A i \in 1..Len(t) : i + 1 \in 1..Len(s)
    BY <1>1
  <2> QED BY <1>1, <2>1, <2>2 DEF Ahead
<1>4. ASSUME Finally(s, c, B)
      PROVE  (Head(s) = c /\ ~Ahead(t, B)) \/ Finally(t, c, B)
  <2>1. PICK i \in 1..Len(s) : s[i] = c /\ \A j \in i..Len(s) : s[j] \notin B
    BY <1>4 DEF Finally
  <2>2. \A k \in 1..Len(t) : k + 1 >= i => k + 1 \in i..Len(s) /\ t[k] \notin B
    BY <1>1, <2>1
  <2>3. CASE i = 1
    BY <1>1, <2>1, <2>2, <2>3 DEF Ahead
  <2>4. CASE i # 1
    <3>1. i - 1 \in 1..Len(t) /\ t[i - 1] = c
      BY <1>1, <2>1, <2>4
    <3>2. \A k \in (i - 1)..Len(t) : t[k] \notin B
      BY <1>1, <2>2, <2>4
    <3> QED BY <3>1, <3>2 DEF Finally
  <2> QED BY <2>3, <2>4
<1> QED BY <1>1, <1>2, <1>3, <1>4 DEF t

\* What is ahead when two lists follow each other.
LEMMA AheadInBoth ==
    ASSUME NEW S, NEW s \in Seq(S), NEW t \in Seq(S), NEW c, NEW B
    PROVE  /\ Ahead(s \o t, B) <=> Ahead(s, B) \/ Ahead(t, B)
           /\ Finally(s, c, B) /\ ~Ahead(t, B) => Finally(s \o t, c, B)
           /\ Finally(t, c, B) => Finally(s \o t, c, B)
<1> DEFINE u == s \o t
<1>1. /\ Len(s) \in Nat /\ Len(t) \in Nat /\ Len(u) = Len(s) + Len(t)
      /\ \A i \in 1..Len(s) : u[i] = s[i]
      /\ \A i \in 1..Len(t) : u[Len(s) + i] = t[i]
  OBVIOUS
<1> HIDE DEF u
<1>2. \A i \in 1..Len(u) : i \in 1..Len(s) \/ (i - Len(s) \in 1..Len(t) /\ u[i] = t[i - Len(s)])
  <2> TAKE i \in 1..Len(u)
  <2>1. CASE i > Len(s)
    <3>1. i - Len(s) \in 1..Len(t) /\ Len(s) + (i - Len(s)) = i
      BY <1>1, <2>1
    <3> QED BY <1>1, <3>1
  <2> QED BY <1>1, <2>1
<1>3. Ahead(u, B) => Ahead(s, B) \/ Ahead(t, B)
  BY <1>1, <1>2 DEF Ahead
<1>4. \A i \in 1..Len(s) : i \in 1..Len(u)
  BY <1>1
<1>5. \A i \in 1..Len(t) : Len(s) + i \in 1..Len(u)
  BY <1>1
<1>6. Ahead(s, B) \/ Ahead(t, B) => Ahead(u, B)
  BY <1>1, <1>4, <1>5 DEF Ahead
<1>7. ASSUME Finally(s, c, B), ~Ahead(t, B) PROVE Finally(u, c, B)
  <2>1. PICK i \in 1..Len(s) : s[i] = c /\ \A j \in i..Len(s) : s[j] \notin B
    BY <1>7 DEF Finally
  <2>2. ASSUME NEW j \in i..Len(u) PROVE u[j] \notin B
    <3>1. j \in 1..Len(u)
      BY <1>1, <2>1
    <3>2. CASE j \in 1..Len(s)
      BY <1>1, <2>1, <3>2
    <3>3. CASE j \notin 1..Len(s)
      BY <1>2, <1>7, <3>1, <3>3 DEF Ahead
    <3> QED BY <3>2, <3>3
  <2> QED BY <1>1, <1>4, <2>1, <2>2 DEF Finally
<1>8. ASSUME Finally(t, c, B) PROVE Finally(u, c, B)
  <2>1. PICK i \in 1..Len(t) : t[i] = c /\ \A j \in i..Len(t) : t[j] \notin B
    BY <1>8 DEF Finally
  <2>2. ASSUME NEW j \in (Len(s) + i)..Len(u) PROVE u[j] \notin B
    <3>1. j - Len(s) \in i..Len(t) /\ Len(s) + (j - Len(s)) = j /\ j - Len(s) \in 1..Len(t)
      BY <1>1, <2>1
    <3> QED BY <1>1, <2>1, <3>1
  <2> QED BY <1>1, <1>5, <2>1, <2>2 DEF Finally
<1> QED BY <1>3, <1>6, <1>7, <1>8 DEF u

\* What one of several lists ends with stays ahead when they are laid end to end.
LEMMA AheadInFlat ==
    ASSUME NEW S, NEW seqs \in Seq(Seq(S)), NEW k \in 1..Len(seqs), NEW c, NEW B,
           Finally(seqs[k], c, B), \A i \in (k + 1)..Len(seqs) : ~Ahead(seqs[i], B)
    PROVE  Finally(FlattenSeq(seqs), c, B)
<1> DEFINE N == Len(seqs)
<1>0. N \in Nat /\ \A i \in 1..N : seqs[i] \in Seq(S)
  OBVIOUS
<1>1. seqs # <<>>
  OBVIOUS
<1>2. PICK flat : /\ FlattenSeq(seqs) = flat[N]
                  /\ flat[1] = seqs[1]
                  /\ \A i \in 2..N : flat[i] = flat[i - 1] \o seqs[i]
                  /\ \A i \in 1..N : flat[i] \in Seq(S)
  BY <1>1, FlattenGrows
<1> DEFINE T == {n \in Nat : k + n <= N => Finally(flat[k + n], c, B)}
<1> HIDE DEF N
<1>3. k \in 1..N /\ \A i \in (k + 1)..N : ~Ahead(seqs[i], B)
  BY DEF N
<1>4. 0 \in T
  <2>1. CASE k = 1
    BY <1>2, <2>1
  <2>2. CASE k # 1
    <3>1. k \in 2..N /\ k - 1 \in 1..N
      BY <1>0, <1>3, <2>2
    <3>2. flat[k] = flat[k - 1] \o seqs[k] /\ flat[k - 1] \in Seq(S) /\ seqs[k] \in Seq(S)
      BY <1>0, <1>2, <1>3, <3>1
    <3>3. Finally(flat[k], c, B)
      BY <3>2, AheadInBoth
    <3> QED BY <1>3, <3>3
  <2> QED BY <2>1, <2>2
<1>5. ASSUME NEW n \in T PROVE n + 1 \in T
  <2> SUFFICES ASSUME k + (n + 1) <= N PROVE Finally(flat[k + (n + 1)], c, B)
    OBVIOUS
  <2> DEFINE i == k + (n + 1)
  <2>1. i \in 2..N /\ i \in (k + 1)..N /\ i - 1 = k + n /\ i - 1 \in 1..N /\ i \in 1..N
    BY <1>0, <1>3
  <2>2. Finally(flat[i - 1], c, B)
    BY <2>1
  <2> HIDE DEF i
  <2>3. flat[i] = flat[i - 1] \o seqs[i] /\ flat[i - 1] \in Seq(S) /\ seqs[i] \in Seq(S)
    BY <1>0, <1>2, <2>1
  <2>4. Finally(flat[i], c, B)
    BY <1>3, <2>1, <2>2, <2>3, AheadInBoth
  <2> QED BY <2>4 DEF i
<1>6. N - k \in Nat /\ k + (N - k) = N
  BY <1>0, <1>3
<1>7. N - k \in T
  <2>1. T \in SUBSET Nat
    OBVIOUS
  <2> HIDE DEF T
  <2> QED BY <1>4, <1>5, <1>6, <2>1, SetInduction
<1> QED BY <1>2, <1>6, <1>7 DEF N

\* Each lane and family is visited once.
LEMMA VisitedOnce ==
    ASSUME NEW n \in Nat, NEW i \in 1..(2 * n), NEW j \in 1..(2 * n),
           VisitedFamily(i) = VisitedFamily(j), VisitedTable(i) = VisitedTable(j)
    PROVE  i = j
<1>1. FamilyOrder[1] # FamilyOrder[2]
  BY DEF FamilyOrder
<1>2. (i - 1) % 2 \in {0, 1} /\ (j - 1) % 2 \in {0, 1}
  OBVIOUS
<1>3. (i - 1) % 2 = (j - 1) % 2
  BY <1>1, <1>2 DEF VisitedFamily
<1> QED BY <1>3 DEF VisitedTable

\* What the steps of one lane and family end with is ahead in those of all, when
\* the others have nothing against it.
LEMMA AheadPerLane ==
    ASSUME NEW S, NEW n \in Nat, NEW F,
           \A f \in Families : \A t \in 1..n : F[<<f, t>>] \in Seq(S),
           NEW f0 \in Families, NEW t0 \in 1..n, NEW c, NEW B, Finally(F[<<f0, t0>>], c, B),
           \A f \in Families : \A t \in 1..n : <<f, t>> # <<f0, t0>> => ~Ahead(F[<<f, t>>], B)
    PROVE  Finally(FlattenSeq([i \in 1..(2 * n) |-> F[<<VisitedFamily(i), VisitedTable(i)>>]]), c, B)
<1> DEFINE seqs == [i \in 1..(2 * n) |-> F[<<VisitedFamily(i), VisitedTable(i)>>]]
<1>1. \A i \in 1..(2 * n) : VisitedFamily(i) \in Families /\ VisitedTable(i) \in 1..n
  BY RemovalStep
<1>2. PICK k \in 1..(2 * n) : VisitedFamily(k) = f0 /\ VisitedTable(k) = t0
  BY RemovalIndex
<1>3. 2 * n \in Nat
  OBVIOUS
<1>4. seqs \in [1..(2 * n) -> Seq(S)]
  BY <1>1
<1>5. Finally(seqs[k], c, B)
  BY <1>2
<1>6. ASSUME NEW i \in (k + 1)..(2 * n) PROVE ~Ahead(seqs[i], B)
  <2>1. i \in 1..(2 * n) /\ i # k
    BY <1>2, <1>3
  <2>2. VisitedFamily(i) # f0 \/ VisitedTable(i) # t0
    BY <1>2, <2>1, VisitedOnce
  <2>3. VisitedFamily(i) \in Families /\ VisitedTable(i) \in 1..n
    BY <1>1, <2>1
  <2>4. seqs[i] = F[<<VisitedFamily(i), VisitedTable(i)>>]
    BY <2>1
  <2> HIDE DEF seqs
  <2> QED BY <2>2, <2>3, <2>4
<1> HIDE DEF seqs
<1>7. seqs \in Seq(Seq(S)) /\ Len(seqs) = 2 * n
  BY <1>3, <1>4
<1>8. Finally(FlattenSeq(seqs), c, B)
  BY <1>2, <1>5, <1>6, <1>7, AheadInFlat
<1> QED BY <1>8 DEF seqs

-----------------------------------------------------------------------------
(* The steps of a walk and what they do *)

\* A plan with a lane list whose unicast defaults are no terminal routes.
Proper(plan) ==
    /\ LaneCount(plan) \in Nat
    /\ \A ft \in LaneFamilies(plan) :
         HasUnicast(plan, ft[1], ft[2]) => ~IsTerminal(Unicast(plan, ft[1], ft[2]))

\* Terminals an IPv6 gateway has lifted, and routes of lanes that stay which the
\* next plan gives up.
Lifted(b, n) == {ft \in LaneFamilies(n) : GatewayNeedsOpenTable(b, n, ft[1], ft[2])}
GivenUp(b, n) ==
    {ft \in LaneFamilies(b) \cap LaneFamilies(n) :
        HasUnicast(b, ft[1], ft[2]) /\ ~HasUnicast(n, ft[1], ft[2])}
WalkSteps(b, n) ==
    {ReplaceRoute(r) : r \in Own(n).routes}
    \cup {DeleteRoute(Terminal(ft[1], ft[2])) : ft \in Lifted(b, n)}
    \cup {AddRule(ft[1], ft[2]) : ft \in LaneFamilies(n)}
    \cup {DeleteRule(ft[1], ft[2]) : ft \in LaneFamilies(b) \ LaneFamilies(n)}
    \cup {FlushTable(ft[1], ft[2]) : ft \in LaneFamilies(b) \ LaneFamilies(n)}
    \cup {DeleteRoute(Unicast(b, ft[1], ft[2])) : ft \in GivenUp(b, n)}

\* What takes a route away that the next plan does not have.
TakesAway(n, r) ==
    {FlushTable(r.fam, r.tab), DeleteRoute(r)}
    \cup {ReplaceRoute(q) : q \in {x \in Own(n).routes :
            x.fam = r.fam /\ x.tab = r.tab /\ IsTerminal(x) = IsTerminal(r)}}

\* A route of a plan is the terminal or the unicast default of its cell.
LEMMA OwnCell ==
    ASSUME NEW plan, Proper(plan), NEW r \in Own(plan).routes
    PROVE  /\ <<r.fam, r.tab>> \in LaneFamilies(plan)
           /\ IsTerminal(r) => r = Terminal(r.fam, r.tab)
           /\ ~IsTerminal(r) => /\ HasUnicast(plan, r.fam, r.tab)
                                /\ r = Unicast(plan, r.fam, r.tab)
<1>1. CASE \E ft \in LaneFamilies(plan) : r = Terminal(ft[1], ft[2])
  <2>1. PICK ft \in LaneFamilies(plan) : r = Terminal(ft[1], ft[2])
    BY <1>1
  <2>2. r.fam = ft[1] /\ r.tab = ft[2] /\ IsTerminal(r)
    BY <2>1 DEF Terminal, IsTerminal
  <2>3. ft = <<ft[1], ft[2]>>
    BY <2>1 DEF LaneFamilies
  <2> QED BY <2>1, <2>2, <2>3
<1>2. CASE \E ft \in LaneFamilies(plan) :
             HasUnicast(plan, ft[1], ft[2]) /\ r = Unicast(plan, ft[1], ft[2])
  <2>1. PICK ft \in LaneFamilies(plan) :
          HasUnicast(plan, ft[1], ft[2]) /\ r = Unicast(plan, ft[1], ft[2])
    BY <1>2
  <2>2. ~IsTerminal(r)
    BY <2>1 DEF Proper
  <2>3. r.fam = ft[1] /\ r.tab = ft[2] /\ ft = <<ft[1], ft[2]>>
    BY <2>1 DEF Unicast, LaneFamilies
  <2> QED BY <2>1, <2>2, <2>3
<1> QED BY <1>1, <1>2, OwnRoutes

\* The six kinds of steps.
LEMMA WalkKinds ==
    ASSUME NEW b, NEW n, NEW c \in WalkSteps(b, n)
    PROVE  \/ \E r \in Own(n).routes : c = ReplaceRoute(r)
           \/ \E ft \in Lifted(b, n) : c = DeleteRoute(Terminal(ft[1], ft[2]))
           \/ \E ft \in LaneFamilies(n) : c = AddRule(ft[1], ft[2])
           \/ \E ft \in LaneFamilies(b) \ LaneFamilies(n) : c = DeleteRule(ft[1], ft[2])
           \/ \E ft \in LaneFamilies(b) \ LaneFamilies(n) : c = FlushTable(ft[1], ft[2])
           \/ \E ft \in GivenUp(b, n) : c = DeleteRoute(Unicast(b, ft[1], ft[2]))
BY DEF WalkSteps

\* The effect of a step on the routes.
RoutesMove(n, c, x, y) ==
    /\ \A r \in Own(n).routes : r \in x.routes /\ c # DeleteRoute(r) => r \in y.routes
    /\ \A r \in Own(n).routes : c = ReplaceRoute(r) => r \in y.routes
    /\ y.routes \subseteq x.routes \cup Own(n).routes
    /\ \A r : c \in TakesAway(n, r) /\ r \notin Own(n).routes => r \notin y.routes
\* Its effect on the rules.
RulesMove(n, c, x, y) ==
    /\ x.rules \cap Own(n).rules \subseteq y.rules
    /\ \A f, t : c = AddRule(f, t) => Rule(f, t) \in y.rules
    /\ y.rules \subseteq x.rules \cup Own(n).rules
    /\ \A r : c = [op |-> "delrule", rule |-> r] => r \notin y.rules

\* Steps on routes.
LEMMA WalkMovesRoutes ==
    ASSUME NEW b, NEW n, Proper(b), Proper(n), NEW c \in WalkSteps(b, n), NEW x, NEW y,
           y = ApplyRoutingStep(x, c), x = [routes |-> x.routes, rules |-> x.rules]
    PROVE  /\ y = [routes |-> y.routes, rules |-> y.rules]
           /\ RoutesMove(n, c, x, y)
           /\ RulesMove(n, c, x, y)
<1>0. \A f, t, r : /\ AddRule(f, t) # ReplaceRoute(r) /\ AddRule(f, t) # DeleteRoute(r)
                   /\ DeleteRule(f, t) # ReplaceRoute(r) /\ DeleteRule(f, t) # DeleteRoute(r)
                   /\ FlushTable(f, t) # ReplaceRoute(r) /\ FlushTable(f, t) # DeleteRoute(r)
                   /\ ReplaceRoute(r).op = "replace" /\ ReplaceRoute(r).route = r
                   /\ DeleteRoute(r).op = "delete" /\ DeleteRoute(r).route = r
                   /\ FlushTable(f, t).op = "flush"
                   /\ AddRule(f, t).op = "addrule" /\ AddRule(f, t).rule = Rule(f, t)
                   /\ DeleteRule(f, t).op = "delrule" /\ DeleteRule(f, t).rule = Rule(f, t)
                   /\ FlushTable(f, t).fam = f /\ FlushTable(f, t).tab = t
  BY DEF AddRule, DeleteRule, FlushTable, ReplaceRoute, DeleteRoute
<1>1. CASE \E q \in Own(n).routes : c = ReplaceRoute(q)
  <2>1. PICK q \in Own(n).routes : c = ReplaceRoute(q)
    BY <1>1
  <2> DEFINE kept == {r \in x.routes : \/ r.fam # q.fam \/ r.tab # q.tab
                                       \/ IsTerminal(r) # IsTerminal(q)}
  <2>2. y = [x EXCEPT !.routes = kept \cup {q}]
    BY <2>1, ReplaceRouteApplied
  <2>3. \A r \in x.routes : r \in kept <=> ~(r.fam = q.fam /\ r.tab = q.tab /\ IsTerminal(r) = IsTerminal(q))
    OBVIOUS
  <2>4. kept \subseteq x.routes
    OBVIOUS
  <2> HIDE DEF kept
  <2>5. y.routes = kept \cup {q} /\ y.rules = x.rules /\ y = [routes |-> y.routes, rules |-> y.rules]
    BY <2>2
  <2>6. ASSUME NEW r \in Own(n).routes, r.fam = q.fam, r.tab = q.tab, IsTerminal(r) = IsTerminal(q)
        PROVE  r = q
    <3>1. CASE IsTerminal(q)
      <4>1. q = Terminal(q.fam, q.tab) /\ r = Terminal(r.fam, r.tab)
        BY <2>6, <3>1, OwnCell
      <4> QED BY <2>6, <4>1
    <3>2. CASE ~IsTerminal(q)
      <4>1. q = Unicast(n, q.fam, q.tab) /\ r = Unicast(n, r.fam, r.tab)
        BY <2>6, <3>2, OwnCell
      <4> QED BY <2>6, <4>1
    <3> QED BY <3>1, <3>2
  <2>7. ASSUME NEW r, c \in TakesAway(n, r)
        PROVE  r.fam = q.fam /\ r.tab = q.tab /\ IsTerminal(r) = IsTerminal(q)
    <3>1. \A p : ReplaceRoute(p) = c => p = q
      BY <1>0, <2>1
    <3>2. c # FlushTable(r.fam, r.tab) /\ c # DeleteRoute(r)
      BY <1>0, <2>1
    <3> QED BY <2>7, <3>1, <3>2 DEF TakesAway
  <2>8. RoutesMove(n, c, x, y)
    <3>1. \A r \in Own(n).routes : r \in x.routes => r \in y.routes
      BY <2>3, <2>5, <2>6
    <3>2. \A r : ReplaceRoute(r) = c => r = q
      BY <1>0, <2>1
    <3>3. \A r : c \in TakesAway(n, r) /\ r \notin Own(n).routes => r \notin y.routes
      BY <2>1, <2>3, <2>4, <2>5, <2>7
    <3> QED BY <2>1, <2>4, <2>5, <3>1, <3>2, <3>3 DEF RoutesMove
  <2>9. RulesMove(n, c, x, y)
    BY <1>0, <2>1, <2>5 DEF RulesMove
  <2> QED BY <2>5, <2>8, <2>9
<1>2. CASE \E q : /\ c = DeleteRoute(q)
                  /\ \/ \E ft \in Lifted(b, n) : q = Terminal(ft[1], ft[2])
                     \/ \E ft \in GivenUp(b, n) : q = Unicast(b, ft[1], ft[2])
  <2>1. PICK q : c = DeleteRoute(q)
    BY <1>2
  <2>2. y = [x EXCEPT !.routes = @ \ {q}]
    BY <2>1, DeleteRouteApplied
  <2>3. y.routes = x.routes \ {q} /\ y.rules = x.rules /\ y = [routes |-> y.routes, rules |-> y.rules]
    BY <2>2
  <2>4. \A r : c \in TakesAway(n, r) => r = q
    BY <1>0, <2>1 DEF TakesAway
  <2>5. RoutesMove(n, c, x, y)
    BY <1>0, <2>1, <2>3, <2>4 DEF RoutesMove
  <2>6. RulesMove(n, c, x, y)
    BY <1>0, <2>1, <2>3 DEF RulesMove
  <2> QED BY <2>3, <2>5, <2>6
<1>3. CASE \E ft \in LaneFamilies(n) : c = AddRule(ft[1], ft[2])
  <2>1. PICK ft \in LaneFamilies(n) : c = AddRule(ft[1], ft[2])
    BY <1>3
  <2>2. y.routes = x.routes /\ y.rules = x.rules \cup {Rule(ft[1], ft[2])}
        /\ y = [routes |-> y.routes, rules |-> y.rules]
    BY <2>1, AddRuleApplied
  <2>3. Rule(ft[1], ft[2]) \in Own(n).rules
    BY <2>1, OwnRules
  <2>4. \A r : c \notin TakesAway(n, r)
    BY <1>0, <2>1 DEF TakesAway
  <2>5. RoutesMove(n, c, x, y)
    BY <1>0, <2>1, <2>2, <2>4 DEF RoutesMove
  <2>6. \A f, t : c = AddRule(f, t) => Rule(f, t) = Rule(ft[1], ft[2])
    BY <2>1 DEF AddRule
  <2>7. RulesMove(n, c, x, y)
    BY <1>0, <2>1, <2>2, <2>3, <2>6 DEF RulesMove
  <2> QED BY <2>2, <2>5, <2>7
<1>4. CASE \E ft \in LaneFamilies(b) \ LaneFamilies(n) : c = DeleteRule(ft[1], ft[2])
  <2>1. PICK ft \in LaneFamilies(b) \ LaneFamilies(n) : c = DeleteRule(ft[1], ft[2])
    BY <1>4
  <2>2. y.routes = x.routes /\ y.rules = x.rules \ {Rule(ft[1], ft[2])}
        /\ y = [routes |-> y.routes, rules |-> y.rules]
    BY <2>1, DeleteRuleApplied
  <2>3. Rule(ft[1], ft[2]) \notin Own(n).rules
    <3>1. SUFFICES ASSUME Rule(ft[1], ft[2]) \in Own(n).rules PROVE FALSE
      OBVIOUS
    <3>2. PICK g \in LaneFamilies(n) : Rule(ft[1], ft[2]) = Rule(g[1], g[2])
      BY <3>1, OwnRules
    <3>3. ft[1] = g[1] /\ ft[2] = g[2]
      BY <3>2 DEF Rule
    <3>4. ft = <<ft[1], ft[2]>> /\ g = <<g[1], g[2]>>
      BY <2>1 DEF LaneFamilies
    <3> QED BY <2>1, <3>3, <3>4
  <2>4. \A r : c \notin TakesAway(n, r)
    BY <1>0, <2>1 DEF TakesAway, DeleteRule, FlushTable
  <2>5. RoutesMove(n, c, x, y)
    BY <1>0, <2>1, <2>2, <2>4 DEF RoutesMove
  <2>6. \A r : c = [op |-> "delrule", rule |-> r] => r = Rule(ft[1], ft[2])
    BY <2>1 DEF DeleteRule
  <2>7. \A f, t : c # AddRule(f, t)
    BY <1>0, <2>1
  <2>8. RulesMove(n, c, x, y)
    BY <2>2, <2>3, <2>6, <2>7 DEF RulesMove
  <2> QED BY <2>2, <2>5, <2>8
<1>5. CASE \E ft \in LaneFamilies(b) \ LaneFamilies(n) : c = FlushTable(ft[1], ft[2])
  <2>0. PICK ft \in LaneFamilies(b) \ LaneFamilies(n) : c = FlushTable(ft[1], ft[2])
    BY <1>5
  <2>1. PICK f, t : c = FlushTable(f, t) /\ <<f, t>> \notin LaneFamilies(n)
    <3>1. ft = <<ft[1], ft[2]>>
      BY <2>0 DEF LaneFamilies
    <3> QED BY <2>0, <3>1
  <2>2. y = [x EXCEPT !.routes = {r \in @ : r.fam # f \/ r.tab # t}]
    BY <2>1, FlushTableApplied
  <2>3. y.routes = {r \in x.routes : r.fam # f \/ r.tab # t} /\ y.rules = x.rules
        /\ y = [routes |-> y.routes, rules |-> y.rules]
    BY <2>2
  <2>4. \A r \in Own(n).routes : r.fam # f \/ r.tab # t
    BY <2>1, OwnCell
  <2>5. \A r : c \in TakesAway(n, r) => r.fam = f /\ r.tab = t
    <3>1. \A r : c = FlushTable(r.fam, r.tab) => r.fam = f /\ r.tab = t
      BY <2>1 DEF FlushTable
    <3>2. \A r : c # DeleteRoute(r) /\ c # ReplaceRoute(r)
      BY <1>0, <2>1
    <3> QED BY <3>1, <3>2 DEF TakesAway
  <2>6. RoutesMove(n, c, x, y)
    BY <1>0, <2>1, <2>3, <2>4, <2>5 DEF RoutesMove
  <2>7. RulesMove(n, c, x, y)
    BY <1>0, <2>1, <2>3 DEF RulesMove
  <2> QED BY <2>3, <2>6, <2>7
<1> QED BY <1>1, <1>2, <1>3, <1>4, <1>5, WalkKinds

-----------------------------------------------------------------------------
(* What is not as the next plan wants it has its step ahead *)

RulesDue(n, s, x) ==
    /\ \A ft \in LaneFamilies(n) :
         Rule(ft[1], ft[2]) \in x.rules \/ Ahead(s, {AddRule(ft[1], ft[2])})
    /\ \A r \in x.rules \ Own(n).rules : Ahead(s, {[op |-> "delrule", rule |-> r]})
RoutesDue(n, s, x) ==
    /\ \A r \in Own(n).routes :
         \/ r \in x.routes /\ ~Ahead(s, {DeleteRoute(r)})
         \/ Finally(s, ReplaceRoute(r), {DeleteRoute(r)})
    /\ \A r \in x.routes \ Own(n).routes : Ahead(s, TakesAway(n, r))
\* What lanes of both plans have all along.
SharedHave(b, n, s, x) ==
    \A ft \in LaneFamilies(b) \cap LaneFamilies(n) :
        /\ Rule(ft[1], ft[2]) \in x.rules
        /\ Terminal(ft[1], ft[2]) \in x.routes \/ GatewayNeedsOpenTable(b, n, ft[1], ft[2])
OnCourse(b, n, s, x) ==
    /\ s \in Seq(WalkSteps(b, n))
    /\ x = [routes |-> x.routes, rules |-> x.rules]
    /\ RulesDue(n, s, x) /\ RoutesDue(n, s, x) /\ SharedHave(b, n, s, x)

\* No step takes a terminal of a shared lane but where a gateway enters.
LEMMA TerminalsStay ==
    ASSUME NEW b, NEW n, Proper(b), Proper(n), NEW c \in WalkSteps(b, n),
           NEW ft \in LaneFamilies(n), c = DeleteRoute(Terminal(ft[1], ft[2]))
    PROVE  GatewayNeedsOpenTable(b, n, ft[1], ft[2])
<1>1. ft = <<ft[1], ft[2]>>
  BY DEF LaneFamilies
<1>2. /\ \A r : c # ReplaceRoute(r)
      /\ \A f, t : c # AddRule(f, t) /\ c # DeleteRule(f, t) /\ c # FlushTable(f, t)
      /\ \A r : c = DeleteRoute(r) => r = Terminal(ft[1], ft[2])
  BY DEF AddRule, DeleteRule, FlushTable, ReplaceRoute, DeleteRoute
<1>3. CASE \E g \in Lifted(b, n) : c = DeleteRoute(Terminal(g[1], g[2]))
  <2>1. PICK g \in Lifted(b, n) : c = DeleteRoute(Terminal(g[1], g[2]))
    BY <1>3
  <2>2. Terminal(g[1], g[2]) = Terminal(ft[1], ft[2])
    BY <1>2, <2>1
  <2>3. g[1] = ft[1] /\ g[2] = ft[2]
    BY <2>2 DEF Terminal
  <2> QED BY <2>1, <2>3 DEF Lifted
<1>4. CASE \E g \in GivenUp(b, n) : c = DeleteRoute(Unicast(b, g[1], g[2]))
  <2>1. PICK g \in GivenUp(b, n) : c = DeleteRoute(Unicast(b, g[1], g[2]))
    BY <1>4
  <2>2. Unicast(b, g[1], g[2]) = Terminal(ft[1], ft[2])
    BY <1>2, <2>1
  <2>3. ~IsTerminal(Unicast(b, g[1], g[2]))
    BY <2>1 DEF GivenUp, Proper
  <2>4. IsTerminal(Terminal(ft[1], ft[2]))
    BY DEF Terminal, IsTerminal
  <2> QED BY <2>2, <2>3, <2>4
<1> QED BY <1>2, <1>3, <1>4, WalkKinds

\* A step of the walk keeps it on course.
LEMMA WalkGoesOn ==
    ASSUME NEW b, NEW n, Proper(b), Proper(n), NEW s, NEW x, OnCourse(b, n, s, x), s # <<>>
    PROVE  OnCourse(b, n, Tail(s), ApplyRoutingStep(x, Head(s)))
<1> DEFINE c == Head(s)
           rest == Tail(s)
           y == ApplyRoutingStep(x, c)
           S == WalkSteps(b, n)
<1>1. s \in Seq(S) /\ x = [routes |-> x.routes, rules |-> x.rules]
  BY DEF OnCourse
<1>2. c \in S /\ rest \in Seq(S)
  BY <1>1
<1>3. \A B : Ahead(s, B) <=> c \in B \/ Ahead(rest, B)
  BY <1>1, AheadInTail
<1>4. \A e, B : Finally(s, e, B) => (c = e /\ ~Ahead(rest, B)) \/ Finally(rest, e, B)
  BY <1>1, AheadInTail
<1>5. y = [routes |-> y.routes, rules |-> y.rules] /\ RoutesMove(n, c, x, y) /\ RulesMove(n, c, x, y)
  BY <1>1, <1>2, WalkMovesRoutes
<1> HIDE DEF c, rest, y, S
<1>6. RulesDue(n, rest, y)
  <2>1. ASSUME NEW ft \in LaneFamilies(n)
        PROVE  Rule(ft[1], ft[2]) \in y.rules \/ Ahead(rest, {AddRule(ft[1], ft[2])})
    <3>1. Rule(ft[1], ft[2]) \in Own(n).rules
      BY OwnRules
    <3>2. Rule(ft[1], ft[2]) \in x.rules \/ Ahead(s, {AddRule(ft[1], ft[2])})
      BY DEF OnCourse, RulesDue
    <3>3. CASE Rule(ft[1], ft[2]) \in x.rules
      BY <1>5, <3>1, <3>3 DEF RulesMove
    <3>4. CASE Ahead(s, {AddRule(ft[1], ft[2])})
      <4>1. c = AddRule(ft[1], ft[2]) \/ Ahead(rest, {AddRule(ft[1], ft[2])})
        BY <1>3, <3>4
      <4> QED BY <1>5, <4>1 DEF RulesMove
    <3> QED BY <3>2, <3>3, <3>4
  <2>2. ASSUME NEW r \in y.rules \ Own(n).rules
        PROVE  Ahead(rest, {[op |-> "delrule", rule |-> r]})
    <3>1. r \in x.rules \ Own(n).rules /\ c # [op |-> "delrule", rule |-> r]
      BY <1>5 DEF RulesMove
    <3>2. Ahead(s, {[op |-> "delrule", rule |-> r]})
      BY <3>1 DEF OnCourse, RulesDue
    <3> QED BY <1>3, <3>1, <3>2
  <2> QED BY <2>1, <2>2 DEF RulesDue
<1>7. RoutesDue(n, rest, y)
  <2>1. ASSUME NEW r \in Own(n).routes
        PROVE  \/ r \in y.routes /\ ~Ahead(rest, {DeleteRoute(r)})
               \/ Finally(rest, ReplaceRoute(r), {DeleteRoute(r)})
    <3>1. \/ r \in x.routes /\ ~Ahead(s, {DeleteRoute(r)})
          \/ Finally(s, ReplaceRoute(r), {DeleteRoute(r)})
      BY DEF OnCourse, RoutesDue
    <3>2. CASE r \in x.routes /\ ~Ahead(s, {DeleteRoute(r)})
      <4>1. c # DeleteRoute(r) /\ ~Ahead(rest, {DeleteRoute(r)})
        BY <1>3, <3>2
      <4> QED BY <1>5, <3>2, <4>1 DEF RoutesMove
    <3>3. CASE Finally(s, ReplaceRoute(r), {DeleteRoute(r)})
      <4>1. \/ c = ReplaceRoute(r) /\ ~Ahead(rest, {DeleteRoute(r)})
            \/ Finally(rest, ReplaceRoute(r), {DeleteRoute(r)})
        BY <1>4, <3>3
      <4> QED BY <1>5, <4>1 DEF RoutesMove
    <3> QED BY <3>1, <3>2, <3>3
  <2>2. ASSUME NEW r \in y.routes \ Own(n).routes
        PROVE  Ahead(rest, TakesAway(n, r))
    <3>1. r \in x.routes \ Own(n).routes /\ c \notin TakesAway(n, r)
      BY <1>5 DEF RoutesMove
    <3>2. Ahead(s, TakesAway(n, r))
      BY <3>1 DEF OnCourse, RoutesDue
    <3> QED BY <1>3, <3>1, <3>2
  <2> QED BY <2>1, <2>2 DEF RoutesDue
<1>8. SharedHave(b, n, rest, y)
  <2> SUFFICES ASSUME NEW ft \in LaneFamilies(b) \cap LaneFamilies(n)
               PROVE  /\ Rule(ft[1], ft[2]) \in y.rules
                      /\ \/ Terminal(ft[1], ft[2]) \in y.routes
                         \/ GatewayNeedsOpenTable(b, n, ft[1], ft[2])
    BY DEF SharedHave
  <2>1. /\ Rule(ft[1], ft[2]) \in x.rules
        /\ Terminal(ft[1], ft[2]) \in x.routes \/ GatewayNeedsOpenTable(b, n, ft[1], ft[2])
    BY DEF OnCourse, SharedHave
  <2>2. Rule(ft[1], ft[2]) \in Own(n).rules /\ Terminal(ft[1], ft[2]) \in Own(n).routes
    BY OwnRules, OwnRoutes
  <2>3. Rule(ft[1], ft[2]) \in y.rules
    BY <1>5, <2>1, <2>2 DEF RulesMove
  <2>4. CASE Terminal(ft[1], ft[2]) \in x.routes /\ c # DeleteRoute(Terminal(ft[1], ft[2]))
    BY <1>5, <2>2, <2>3, <2>4 DEF RoutesMove
  <2>5. CASE c = DeleteRoute(Terminal(ft[1], ft[2]))
    BY <1>2, <2>3, <2>5, TerminalsStay DEF S
  <2> QED BY <2>1, <2>3, <2>4, <2>5
<1> QED BY <1>2, <1>5, <1>6, <1>7, <1>8 DEF OnCourse, c, rest, y, S

\* Where nothing is ahead any more, the walk has arrived.
LEMMA WalkArrives ==
    ASSUME NEW b, NEW n, NEW x, OnCourse(b, n, <<>>, x)
    PROVE  x = Own(n)
<1>1. \A B : ~Ahead(<<>>, B)
  BY DEF Ahead
<1>2. \A e, B : ~Finally(<<>>, e, B)
  BY DEF Finally
<1>3. x.routes = Own(n).routes
  BY <1>1, <1>2 DEF OnCourse, RoutesDue
<1>4. \A r \in Own(n).rules : r \in x.rules
  BY <1>1, OwnRules DEF OnCourse, RulesDue
<1>5. x.rules = Own(n).rules
  BY <1>1, <1>4 DEF OnCourse, RulesDue
<1>6. x = [routes |-> x.routes, rules |-> x.rules]
  BY DEF OnCourse
<1>7. Own(n) = [routes |-> Own(n).routes, rules |-> Own(n).rules]
  <2> DEFINE a == {Terminal(ft[1], ft[2]) : ft \in LaneFamilies(n)}
                  \cup {Unicast(n, ft[1], ft[2]) :
                          ft \in {z \in LaneFamilies(n) : HasUnicast(n, z[1], z[2])}}
             u == {Rule(ft[1], ft[2]) : ft \in LaneFamilies(n)}
  <2>1. Own(n) = [routes |-> a, rules |-> u]
    BY DEF Own
  <2> HIDE DEF a, u
  <2> QED BY <2>1
<1> QED BY <1>3, <1>5, <1>6, <1>7

-----------------------------------------------------------------------------
(* The step lists *)

\* Steps of other kinds are not ahead.
LEMMA NotAhead ==
    ASSUME NEW S, NEW s \in Seq(S), NEW B, S \cap B = {}
    PROVE  ~Ahead(s, B)
<1>1. \A i \in 1..Len(s) : s[i] \in S
  OBVIOUS
<1> QED BY <1>1 DEF Ahead

\* A list of one step.
LEMMA OneAhead ==
    ASSUME NEW c, NEW B, c \notin B
    PROVE  Finally(<<c>>, c, B) /\ ~Ahead(<<c>>, B)
<1>1. Len(<<c>>) = 1 /\ <<c>>[1] = c
  OBVIOUS
<1>2. 1 \in 1..1 /\ \A j \in 1..1 : j = 1
  OBVIOUS
<1> QED BY <1>1, <1>2 DEF Finally, Ahead

\* Lists of at most one step.
LEMMA OneStep ==
    ASSUME NEW c
    PROVE  <<c>> \in Seq({c}) /\ <<>> \in Seq({c})
OBVIOUS

\* What comes finally is ahead.
LEMMA FinallyAhead ==
    ASSUME NEW s, NEW c, NEW B, Finally(s, c, B)
    PROVE  \A C : c \in C => Ahead(s, C)
BY DEF Finally, Ahead

\* A step deletes what it names.
LEMMA DeletesDiffer ==
    /\ \A r, q : DeleteRoute(r) = DeleteRoute(q) => r = q
    /\ \A r, q : DeleteRoute(r) # ReplaceRoute(q)
    /\ \A r, f, t : /\ DeleteRoute(r) # AddRule(f, t) /\ DeleteRoute(r) # DeleteRule(f, t)
                    /\ DeleteRoute(r) # FlushTable(f, t)
<1>1. ASSUME NEW r, NEW q, DeleteRoute(r) = DeleteRoute(q) PROVE r = q
  <2>1. DeleteRoute(r).route = r /\ DeleteRoute(q).route = q
    BY DEF DeleteRoute
  <2> QED BY <1>1, <2>1
<1>2. ASSUME NEW r, NEW q PROVE DeleteRoute(r) # ReplaceRoute(q)
  BY DEF DeleteRoute, ReplaceRoute
<1>3. ASSUME NEW r, NEW f, NEW t
      PROVE  /\ DeleteRoute(r) # AddRule(f, t) /\ DeleteRoute(r) # DeleteRule(f, t)
             /\ DeleteRoute(r) # FlushTable(f, t)
  BY DEF DeleteRoute, AddRule, DeleteRule, FlushTable
<1> QED BY <1>1, <1>2, <1>3

\* The steps for the routes of one lane and family, and what they end with.
LEMMA CellRoutes ==
    ASSUME NEW b, NEW n, Proper(n), NEW f \in Families, NEW t \in 1..LaneCount(n)
    PROVE  LET steps == TransitionRoutes(b, n, f, t)
           IN  /\ steps \in Seq(WalkSteps(b, n))
               /\ \A r : r # Terminal(f, t) => ~Ahead(steps, {DeleteRoute(r)})
               /\ Finally(steps, ReplaceRoute(Terminal(f, t)), {DeleteRoute(Terminal(f, t))})
               /\ HasUnicast(n, f, t) =>
                    Finally(steps, ReplaceRoute(Unicast(n, f, t)), {DeleteRoute(Unicast(n, f, t))})
<1> DEFINE S == WalkSteps(b, n)
           T == Terminal(f, t)
           U == Unicast(n, f, t)
           k == IF GatewayNeedsOpenTable(b, n, f, t) THEN <<DeleteRoute(T)>> ELSE <<>>
           l == IF HasUnicast(n, f, t) THEN <<ReplaceRoute(U)>> ELSE <<>>
           m == <<ReplaceRoute(T)>>
<1>1. <<f, t>> \in LaneFamilies(n) /\ T \in Own(n).routes /\ (HasUnicast(n, f, t) => U \in Own(n).routes)
  BY OwnMembers DEF Proper
<1>2. /\ ReplaceRoute(T) \in S
      /\ HasUnicast(n, f, t) => ReplaceRoute(U) \in S
      /\ GatewayNeedsOpenTable(b, n, f, t) => DeleteRoute(T) \in S
  <2>1. \A r \in Own(n).routes : ReplaceRoute(r) \in S
    BY DEF WalkSteps
  <2>2. ASSUME GatewayNeedsOpenTable(b, n, f, t) PROVE DeleteRoute(T) \in S
    <3>1. <<f, t>> \in Lifted(b, n)
      BY <1>1, <2>2 DEF Lifted
    <3>2. \A ft \in Lifted(b, n) : DeleteRoute(Terminal(ft[1], ft[2])) \in S
      BY DEF WalkSteps
    <3> QED BY <3>1, <3>2
  <2> HIDE DEF S, T, U
  <2> QED BY <1>1, <2>1, <2>2
<1>3. IsTerminal(T) /\ (HasUnicast(n, f, t) => ~IsTerminal(U) /\ U # T)
  <2>1. IsTerminal(T)
    BY DEF Terminal, IsTerminal
  <2>2. HasUnicast(n, f, t) => ~IsTerminal(U)
    BY <1>1 DEF Proper
  <2> QED BY <2>1, <2>2
<1>4. TransitionRoutes(b, n, f, t) = k \o l \o m
  BY DEF TransitionRoutes
<1>5. k \in Seq(S) /\ l \in Seq(S) /\ m \in Seq(S)
  <2> HIDE DEF S, T, U
  <2> QED BY <1>2
<1>6. \A r : r # T => ~Ahead(k, {DeleteRoute(r)})
  <2> TAKE r
  <2> HAVE r # T
  <2>1. k \in Seq({DeleteRoute(T)})
    BY OneStep, Zenon
  <2>2. {DeleteRoute(T)} \cap {DeleteRoute(r)} = {}
    <3> HIDE DEF T
    <3> QED BY DeletesDiffer
  <2> HIDE DEF k, T
  <2> QED BY <2>1, <2>2, NotAhead
<1>7. \A r : ~Ahead(l, {DeleteRoute(r)}) /\ ~Ahead(m, {DeleteRoute(r)})
  <2> TAKE r
  <2>1. l \in Seq({ReplaceRoute(U)}) /\ m \in Seq({ReplaceRoute(T)})
    BY OneStep, Zenon
  <2>2. {ReplaceRoute(U)} \cap {DeleteRoute(r)} = {} /\ {ReplaceRoute(T)} \cap {DeleteRoute(r)} = {}
    <3> HIDE DEF T, U
    <3> QED BY DeletesDiffer
  <2> HIDE DEF l, m, T, U
  <2> QED BY <2>1, <2>2, NotAhead
<1>8. Finally(m, ReplaceRoute(T), {DeleteRoute(T)})
  <2> HIDE DEF T
  <2> QED BY DeletesDiffer, OneAhead
<1>9. HasUnicast(n, f, t) => Finally(l, ReplaceRoute(U), {DeleteRoute(U)})
  <2> HIDE DEF U
  <2> QED BY DeletesDiffer, OneAhead
<1> HIDE DEF S, k, l, m
<1>10. k \o l \in Seq(S) /\ (k \o l) \o m \in Seq(S)
  BY <1>5
<1>11. \A r : r # T => ~Ahead((k \o l) \o m, {DeleteRoute(r)})
  BY <1>5, <1>6, <1>7, <1>10, AheadInBoth, ZenonT(40)
<1>12. Finally((k \o l) \o m, ReplaceRoute(T), {DeleteRoute(T)})
  BY <1>5, <1>8, <1>10, AheadInBoth
<1>13. ASSUME HasUnicast(n, f, t)
       PROVE  Finally((k \o l) \o m, ReplaceRoute(U), {DeleteRoute(U)})
  <2>1. Finally(k \o l, ReplaceRoute(U), {DeleteRoute(U)})
    BY <1>5, <1>9, <1>13, AheadInBoth
  <2> QED BY <1>5, <1>7, <1>10, <2>1, AheadInBoth, ZenonT(40)
<1> QED BY <1>4, <1>10, <1>11, <1>12, <1>13 DEF S

\* All routes of the next plan are replaced, each after its last removal.
LEMMA RoutesAhead ==
    ASSUME NEW b, NEW n, Proper(n)
    PROVE  LET steps == PerLaneFamily(LaneCount(n), LAMBDA f, t : TransitionRoutes(b, n, f, t))
           IN  /\ steps \in Seq(WalkSteps(b, n))
               /\ \A r \in Own(n).routes : Finally(steps, ReplaceRoute(r), {DeleteRoute(r)})
<1> DEFINE S == WalkSteps(b, n)
           N == LaneCount(n)
           F == [x \in Families \X (1..N) |-> TransitionRoutes(b, n, x[1], x[2])]
           flat == FlattenSeq([i \in 1..(2 * N) |-> F[<<VisitedFamily(i), VisitedTable(i)>>]])
<1>0. N \in Nat
  BY DEF Proper
<1>1. \A f \in Families, t \in 1..N : F[<<f, t>>] = TransitionRoutes(b, n, f, t)
  OBVIOUS
<1>2. \A i \in 1..(2 * N) : F[<<VisitedFamily(i), VisitedTable(i)>>]
                              = TransitionRoutes(b, n, VisitedFamily(i), VisitedTable(i))
  BY <1>0, RemovalStep
<1> HIDE DEF F, N
<1>3. PerLaneFamily(N, LAMBDA f, t : TransitionRoutes(b, n, f, t)) = flat
  <2>1. [i \in 1..(2 * N) |-> F[<<VisitedFamily(i), VisitedTable(i)>>]]
          = [i \in 1..(2 * N) |-> TransitionRoutes(b, n, VisitedFamily(i), VisitedTable(i))]
    BY <1>2
  <2> QED BY <2>1 DEF PerLaneFamily
<1>4. \A f \in Families : \A t \in 1..N :
        /\ F[<<f, t>>] \in Seq(S)
        /\ \A r : r # Terminal(f, t) => ~Ahead(F[<<f, t>>], {DeleteRoute(r)})
        /\ Finally(F[<<f, t>>], ReplaceRoute(Terminal(f, t)), {DeleteRoute(Terminal(f, t))})
        /\ HasUnicast(n, f, t) =>
             Finally(F[<<f, t>>], ReplaceRoute(Unicast(n, f, t)), {DeleteRoute(Unicast(n, f, t))})
  BY <1>1, CellRoutes DEF N
<1> HIDE DEF S
<1>5. flat \in Seq(S)
  BY <1>0, <1>4, PerLaneFamilyAre
<1>6. ASSUME NEW r \in Own(n).routes
      PROVE  Finally(flat, ReplaceRoute(r), {DeleteRoute(r)})
  <2> DEFINE f0 == r.fam
             t0 == r.tab
  <2>1. /\ <<f0, t0>> \in LaneFamilies(n)
        /\ IsTerminal(r) => r = Terminal(f0, t0)
        /\ ~IsTerminal(r) => HasUnicast(n, f0, t0) /\ r = Unicast(n, f0, t0)
    BY OwnCell
  <2>2. f0 \in Families /\ t0 \in 1..N
    BY <2>1 DEF LaneFamilies, N
  <2> HIDE DEF f0, t0
  <2>3. Finally(F[<<f0, t0>>], ReplaceRoute(r), {DeleteRoute(r)})
    BY <1>4, <2>1, <2>2
  <2>4. ASSUME NEW f \in Families, NEW t \in 1..N, <<f, t>> # <<f0, t0>>
        PROVE  ~Ahead(F[<<f, t>>], {DeleteRoute(r)})
    <3>1. Terminal(f, t).fam = f /\ Terminal(f, t).tab = t
      BY DEF Terminal
    <3>2. r # Terminal(f, t)
      BY <2>4, <3>1 DEF f0, t0
    <3> QED BY <1>4, <3>2
  <2> HIDE DEF flat
  <2>5. Finally(FlattenSeq([i \in 1..(2 * N) |-> F[<<VisitedFamily(i), VisitedTable(i)>>]]),
                ReplaceRoute(r), {DeleteRoute(r)})
    BY <1>0, <1>4, <2>2, <2>3, <2>4, AheadPerLane
  <2> QED BY <2>5 DEF flat
<1> QED BY <1>3, <1>5, <1>6 DEF S, N

\* The rules of new lanes are added.
LEMMA RulesAhead ==
    ASSUME NEW b, NEW n, Proper(n)
    PROVE  LET steps == PerLaneFamily(LaneCount(n), LAMBDA f, t : NewRules(b, f, t))
           IN  /\ steps \in Seq({AddRule(ft[1], ft[2]) : ft \in LaneFamilies(n)})
               /\ \A ft \in LaneFamilies(n) :
                    HasTable(b, ft[2]) \/ Ahead(steps, {AddRule(ft[1], ft[2])})
<1> DEFINE S == {AddRule(ft[1], ft[2]) : ft \in LaneFamilies(n)}
           N == LaneCount(n)
           F == [x \in Families \X (1..N) |-> NewRules(b, x[1], x[2])]
           flat == FlattenSeq([i \in 1..(2 * N) |-> F[<<VisitedFamily(i), VisitedTable(i)>>]])
<1>0. N \in Nat
  BY DEF Proper
<1>1. \A f \in Families, t \in 1..N : F[<<f, t>>] = NewRules(b, f, t)
  OBVIOUS
<1>2. \A i \in 1..(2 * N) : F[<<VisitedFamily(i), VisitedTable(i)>>]
                              = NewRules(b, VisitedFamily(i), VisitedTable(i))
  BY <1>0, RemovalStep
<1> HIDE DEF F
<1>3. PerLaneFamily(N, LAMBDA f, t : NewRules(b, f, t)) = flat
  <2> HIDE DEF N
  <2>1. [i \in 1..(2 * N) |-> F[<<VisitedFamily(i), VisitedTable(i)>>]]
          = [i \in 1..(2 * N) |-> NewRules(b, VisitedFamily(i), VisitedTable(i))]
    BY <1>2
  <2> QED BY <2>1 DEF PerLaneFamily
<1>4. ASSUME NEW f \in Families, NEW t \in 1..N
      PROVE  /\ F[<<f, t>>] \in Seq(S)
             /\ HasTable(b, t) \/ Finally(F[<<f, t>>], AddRule(f, t), {})
  <2>1. <<f, t>> \in LaneFamilies(n)
    BY DEF LaneFamilies
  <2>2. \A ft \in LaneFamilies(n) : AddRule(ft[1], ft[2]) \in S
    OBVIOUS
  <2>3. AddRule(f, t) \in S
    BY <2>1, <2>2
  <2> HIDE DEF S
  <2>4. <<AddRule(f, t)>> \in Seq(S) /\ <<>> \in Seq(S)
    BY <2>3
  <2>5. Finally(<<AddRule(f, t)>>, AddRule(f, t), {})
    BY OneAhead
  <2> QED BY <1>1, <2>4, <2>5 DEF NewRules
<1> HIDE DEF S, N
<1>5. \A f \in Families : \A t \in 1..N : F[<<f, t>>] \in Seq(S)
  BY <1>4
<1>6. flat \in Seq(S)
  BY <1>0, <1>5, PerLaneFamilyAre
<1>7. ASSUME NEW ft \in LaneFamilies(n), ~HasTable(b, ft[2])
      PROVE  Ahead(flat, {AddRule(ft[1], ft[2])})
  <2>1. ft[1] \in Families /\ ft[2] \in 1..N
    BY DEF LaneFamilies, N
  <2>2. Finally(F[<<ft[1], ft[2]>>], AddRule(ft[1], ft[2]), {})
    BY <1>4, <1>7, <2>1
  <2>3. \A f \in Families : \A t \in 1..N : ~Ahead(F[<<f, t>>], {})
    BY DEF Ahead
  <2> HIDE DEF flat
  <2>4. Finally(FlattenSeq([i \in 1..(2 * N) |-> F[<<VisitedFamily(i), VisitedTable(i)>>]]),
                AddRule(ft[1], ft[2]), {})
    BY <1>0, <1>5, <2>1, <2>2, <2>3, AheadPerLane
  <2>5. Finally(flat, AddRule(ft[1], ft[2]), {})
    BY <2>4 DEF flat
  <2> QED BY <2>5, FinallyAhead
<1> QED BY <1>3, <1>6, <1>7 DEF S, N

\* The rules of lanes the next plan does not have are deleted.
LEMMA OldRulesAhead ==
    ASSUME NEW b, NEW n, Proper(b)
    PROVE  LET steps == PerLaneFamily(LaneCount(b), LAMBDA f, t : OldRules(n, f, t))
           IN  /\ steps \in Seq({DeleteRule(ft[1], ft[2]) : ft \in LaneFamilies(b) \ LaneFamilies(n)})
               /\ \A ft \in LaneFamilies(b) \ LaneFamilies(n) :
                    Ahead(steps, {DeleteRule(ft[1], ft[2])})
<1> DEFINE S == {DeleteRule(ft[1], ft[2]) : ft \in LaneFamilies(b) \ LaneFamilies(n)}
           N == LaneCount(b)
           F == [x \in Families \X (1..N) |-> OldRules(n, x[1], x[2])]
           flat == FlattenSeq([i \in 1..(2 * N) |-> F[<<VisitedFamily(i), VisitedTable(i)>>]])
<1>0. N \in Nat
  BY DEF Proper
<1>1. \A f \in Families, t \in 1..N : F[<<f, t>>] = OldRules(n, f, t)
  OBVIOUS
<1>2. \A i \in 1..(2 * N) : F[<<VisitedFamily(i), VisitedTable(i)>>]
                              = OldRules(n, VisitedFamily(i), VisitedTable(i))
  BY <1>0, RemovalStep
<1> HIDE DEF F
<1>3. PerLaneFamily(N, LAMBDA f, t : OldRules(n, f, t)) = flat
  <2> HIDE DEF N
  <2>1. [i \in 1..(2 * N) |-> F[<<VisitedFamily(i), VisitedTable(i)>>]]
          = [i \in 1..(2 * N) |-> OldRules(n, VisitedFamily(i), VisitedTable(i))]
    BY <1>2
  <2> QED BY <2>1 DEF PerLaneFamily
<1>4. ASSUME NEW f \in Families, NEW t \in 1..N
      PROVE  /\ F[<<f, t>>] \in Seq(S)
             /\ <<f, t>> \notin LaneFamilies(n) => Finally(F[<<f, t>>], DeleteRule(f, t), {})
  <2>1. <<f, t>> \in LaneFamilies(b) /\ (HasTable(n, t) <=> <<f, t>> \in LaneFamilies(n))
    BY DEF LaneFamilies, HasTable
  <2>2. \A ft \in LaneFamilies(b) \ LaneFamilies(n) : DeleteRule(ft[1], ft[2]) \in S
    OBVIOUS
  <2>3. ~HasTable(n, t) => DeleteRule(f, t) \in S
    BY <2>1, <2>2
  <2> HIDE DEF S
  <2>4. <<>> \in Seq(S) /\ (~HasTable(n, t) => <<DeleteRule(f, t)>> \in Seq(S))
    BY <2>3
  <2>5. Finally(<<DeleteRule(f, t)>>, DeleteRule(f, t), {})
    BY OneAhead
  <2> QED BY <1>1, <2>1, <2>4, <2>5 DEF OldRules
<1> HIDE DEF S, N
<1>5. \A f \in Families : \A t \in 1..N : F[<<f, t>>] \in Seq(S)
  BY <1>4
<1>6. flat \in Seq(S)
  BY <1>0, <1>5, PerLaneFamilyAre
<1>7. ASSUME NEW ft \in LaneFamilies(b) \ LaneFamilies(n)
      PROVE  Ahead(flat, {DeleteRule(ft[1], ft[2])})
  <2>1. ft[1] \in Families /\ ft[2] \in 1..N /\ <<ft[1], ft[2]>> \notin LaneFamilies(n)
    BY DEF LaneFamilies, N
  <2>2. Finally(F[<<ft[1], ft[2]>>], DeleteRule(ft[1], ft[2]), {})
    BY <1>4, <2>1
  <2>3. \A f \in Families : \A t \in 1..N : ~Ahead(F[<<f, t>>], {})
    BY DEF Ahead
  <2> HIDE DEF flat
  <2>4. Finally(FlattenSeq([i \in 1..(2 * N) |-> F[<<VisitedFamily(i), VisitedTable(i)>>]]),
                DeleteRule(ft[1], ft[2]), {})
    BY <1>0, <1>5, <2>1, <2>2, <2>3, AheadPerLane
  <2>5. Finally(flat, DeleteRule(ft[1], ft[2]), {})
    BY <2>4 DEF flat
  <2> QED BY <2>5, FinallyAhead
<1> QED BY <1>3, <1>6, <1>7 DEF S, N

\* Their tables are flushed, and the defaults deleted that the next plan gives up.
LEMMA OldRoutesAhead ==
    ASSUME NEW b, NEW n, Proper(b)
    PROVE  LET steps == PerLaneFamily(LaneCount(b), LAMBDA f, t : OldRoutes(b, n, f, t))
           IN  /\ steps \in Seq({FlushTable(ft[1], ft[2]) : ft \in LaneFamilies(b) \ LaneFamilies(n)}
                                \cup {DeleteRoute(Unicast(b, ft[1], ft[2])) : ft \in GivenUp(b, n)})
               /\ \A ft \in LaneFamilies(b) \ LaneFamilies(n) :
                    Ahead(steps, {FlushTable(ft[1], ft[2])})
               /\ \A ft \in GivenUp(b, n) :
                    Ahead(steps, {DeleteRoute(Unicast(b, ft[1], ft[2]))})
<1> DEFINE A == {FlushTable(ft[1], ft[2]) : ft \in LaneFamilies(b) \ LaneFamilies(n)}
           D == {DeleteRoute(Unicast(b, ft[1], ft[2])) : ft \in GivenUp(b, n)}
           S == A \cup D
           N == LaneCount(b)
           F == [x \in Families \X (1..N) |-> OldRoutes(b, n, x[1], x[2])]
           flat == FlattenSeq([i \in 1..(2 * N) |-> F[<<VisitedFamily(i), VisitedTable(i)>>]])
<1>0. N \in Nat
  BY DEF Proper
<1>1. \A f \in Families, t \in 1..N : F[<<f, t>>] = OldRoutes(b, n, f, t)
  OBVIOUS
<1>2. \A i \in 1..(2 * N) : F[<<VisitedFamily(i), VisitedTable(i)>>]
                              = OldRoutes(b, n, VisitedFamily(i), VisitedTable(i))
  BY <1>0, RemovalStep
<1> HIDE DEF F
<1>3. PerLaneFamily(N, LAMBDA f, t : OldRoutes(b, n, f, t)) = flat
  <2> HIDE DEF N
  <2>1. [i \in 1..(2 * N) |-> F[<<VisitedFamily(i), VisitedTable(i)>>]]
          = [i \in 1..(2 * N) |-> OldRoutes(b, n, VisitedFamily(i), VisitedTable(i))]
    BY <1>2
  <2> QED BY <2>1 DEF PerLaneFamily
<1>4. ASSUME NEW f \in Families, NEW t \in 1..N
      PROVE  /\ F[<<f, t>>] \in Seq(S)
             /\ <<f, t>> \notin LaneFamilies(n) => Finally(F[<<f, t>>], FlushTable(f, t), {})
             /\ <<f, t>> \in GivenUp(b, n) =>
                  Finally(F[<<f, t>>], DeleteRoute(Unicast(b, f, t)), {})
  <2>1. <<f, t>> \in LaneFamilies(b) /\ (HasTable(n, t) <=> <<f, t>> \in LaneFamilies(n))
    BY DEF LaneFamilies, HasTable
  <2>2. \A ft \in LaneFamilies(b) \ LaneFamilies(n) : FlushTable(ft[1], ft[2]) \in A
    OBVIOUS
  <2>3. \A ft \in GivenUp(b, n) : DeleteRoute(Unicast(b, ft[1], ft[2])) \in D
    OBVIOUS
  <2>4. <<f, t>> \in GivenUp(b, n) <=>
          HasTable(n, t) /\ HasUnicast(b, f, t) /\ ~HasUnicast(n, f, t)
    BY <2>1 DEF GivenUp
  <2>5. ~HasTable(n, t) => FlushTable(f, t) \in S
    BY <2>1, <2>2
  <2>6. <<f, t>> \in GivenUp(b, n) => DeleteRoute(Unicast(b, f, t)) \in S
    BY <2>3
  <2> HIDE DEF S
  <2>7. /\ <<>> \in Seq(S) /\ (~HasTable(n, t) => <<FlushTable(f, t)>> \in Seq(S))
        /\ <<f, t>> \in GivenUp(b, n) => <<DeleteRoute(Unicast(b, f, t))>> \in Seq(S)
    BY <2>5, <2>6
  <2>8. /\ Finally(<<FlushTable(f, t)>>, FlushTable(f, t), {})
        /\ Finally(<<DeleteRoute(Unicast(b, f, t))>>, DeleteRoute(Unicast(b, f, t)), {})
    BY OneAhead
  <2> QED BY <1>1, <2>1, <2>4, <2>7, <2>8 DEF OldRoutes
<1> HIDE DEF S, N
<1>5. \A f \in Families : \A t \in 1..N : F[<<f, t>>] \in Seq(S)
  BY <1>4
<1>6. flat \in Seq(S)
  BY <1>0, <1>5, PerLaneFamilyAre
<1> HIDE DEF flat
<1>7. ASSUME NEW f \in Families, NEW t \in 1..N, NEW c, Finally(F[<<f, t>>], c, {})
      PROVE  Ahead(flat, {c})
  <2>1. \A f1 \in Families : \A t1 \in 1..N : ~Ahead(F[<<f1, t1>>], {})
    BY DEF Ahead
  <2>2. Finally(FlattenSeq([i \in 1..(2 * N) |-> F[<<VisitedFamily(i), VisitedTable(i)>>]]), c, {})
    BY <1>0, <1>5, <1>7, <2>1, AheadPerLane
  <2>3. Finally(flat, c, {})
    BY <2>2 DEF flat
  <2> QED BY <2>3, FinallyAhead
<1>8. ASSUME NEW ft \in LaneFamilies(b)
      PROVE  /\ ft \notin LaneFamilies(n) => Ahead(flat, {FlushTable(ft[1], ft[2])})
             /\ ft \in GivenUp(b, n) => Ahead(flat, {DeleteRoute(Unicast(b, ft[1], ft[2]))})
  <2>1. ft[1] \in Families /\ ft[2] \in 1..N /\ ft = <<ft[1], ft[2]>>
    BY DEF LaneFamilies, N
  <2> QED BY <1>4, <1>7, <2>1
<1>9. GivenUp(b, n) \subseteq LaneFamilies(b)
  BY DEF GivenUp
<1> QED BY <1>3, <1>6, <1>8, <1>9 DEF S, N

\* Deletions of routes the next plan owns are none of these.
LEMMA RulesNotDeletes ==
    ASSUME NEW b, NEW n, Proper(b), Proper(n), NEW r \in Own(n).routes
    PROVE  /\ {AddRule(ft[1], ft[2]) : ft \in LaneFamilies(n)} \cap {DeleteRoute(r)} = {}
           /\ {DeleteRule(ft[1], ft[2]) : ft \in LaneFamilies(b) \ LaneFamilies(n)} \cap {DeleteRoute(r)} = {}
           /\ ({FlushTable(ft[1], ft[2]) : ft \in LaneFamilies(b) \ LaneFamilies(n)}
                 \cup {DeleteRoute(Unicast(b, ft[1], ft[2])) : ft \in GivenUp(b, n)}) \cap {DeleteRoute(r)} = {}
<1>1. \A ft \in LaneFamilies(n) : AddRule(ft[1], ft[2]) # DeleteRoute(r)
  BY DeletesDiffer
<1>2. \A ft \in LaneFamilies(b) \ LaneFamilies(n) : DeleteRule(ft[1], ft[2]) # DeleteRoute(r)
  BY DeletesDiffer
<1>3. \A ft \in LaneFamilies(b) \ LaneFamilies(n) : FlushTable(ft[1], ft[2]) # DeleteRoute(r)
  BY DeletesDiffer
<1>4. ASSUME NEW ft \in GivenUp(b, n) PROVE DeleteRoute(Unicast(b, ft[1], ft[2])) # DeleteRoute(r)
  <2>1. /\ ft \in LaneFamilies(b) /\ ft = <<ft[1], ft[2]>>
        /\ HasUnicast(b, ft[1], ft[2]) /\ ~HasUnicast(n, ft[1], ft[2])
    BY DEF GivenUp, LaneFamilies
  <2>2. ~IsTerminal(Unicast(b, ft[1], ft[2]))
    BY <2>1 DEF Proper
  <2>3. Unicast(b, ft[1], ft[2]).fam = ft[1] /\ Unicast(b, ft[1], ft[2]).tab = ft[2]
    BY DEF Unicast
  <2>4. Unicast(b, ft[1], ft[2]) # r
    BY <2>1, <2>2, <2>3, OwnCell
  <2> QED BY <2>4, DeletesDiffer
<1>5. \A e : e \in {AddRule(ft[1], ft[2]) : ft \in LaneFamilies(n)}
               => \E ft \in LaneFamilies(n) : e = AddRule(ft[1], ft[2])
  OBVIOUS
<1>6. \A e : e \in {DeleteRule(ft[1], ft[2]) : ft \in LaneFamilies(b) \ LaneFamilies(n)}
               => \E ft \in LaneFamilies(b) \ LaneFamilies(n) : e = DeleteRule(ft[1], ft[2])
  OBVIOUS
<1>7. \A e : e \in {FlushTable(ft[1], ft[2]) : ft \in LaneFamilies(b) \ LaneFamilies(n)}
               => \E ft \in LaneFamilies(b) \ LaneFamilies(n) : e = FlushTable(ft[1], ft[2])
  OBVIOUS
<1>8. \A e : e \in {DeleteRoute(Unicast(b, ft[1], ft[2])) : ft \in GivenUp(b, n)}
               => \E ft \in GivenUp(b, n) : e = DeleteRoute(Unicast(b, ft[1], ft[2]))
  OBVIOUS
<1> QED BY <1>1, <1>2, <1>3, <1>4, <1>5, <1>6, <1>7, <1>8

\* Parts of the steps of a walk.
LEMMA WalkStepsHave ==
    ASSUME NEW b, NEW n
    PROVE  /\ {AddRule(ft[1], ft[2]) : ft \in LaneFamilies(n)} \subseteq WalkSteps(b, n)
           /\ {DeleteRule(ft[1], ft[2]) : ft \in LaneFamilies(b) \ LaneFamilies(n)} \subseteq WalkSteps(b, n)
           /\ ({FlushTable(ft[1], ft[2]) : ft \in LaneFamilies(b) \ LaneFamilies(n)}
                 \cup {DeleteRoute(Unicast(b, ft[1], ft[2])) : ft \in GivenUp(b, n)}) \subseteq WalkSteps(b, n)
BY Zenon DEF WalkSteps

\* What transition_steps brings.
LEMMA TransitionAhead ==
    ASSUME NEW b, NEW n, Proper(b), Proper(n)
    PROVE  LET steps == TransitionSteps(b, n)
           IN  /\ steps \in Seq(WalkSteps(b, n))
               /\ \A r \in Own(n).routes : Finally(steps, ReplaceRoute(r), {DeleteRoute(r)})
               /\ \A ft \in LaneFamilies(n) :
                    HasTable(b, ft[2]) \/ Ahead(steps, {AddRule(ft[1], ft[2])})
<1> DEFINE S == WalkSteps(b, n)
           N == LaneCount(n)
           C == {AddRule(ft[1], ft[2]) : ft \in LaneFamilies(n)}
           u == FlattenSeq([i \in 1..(2 * N) |-> TransitionRoutes(b, n, VisitedFamily(i), VisitedTable(i))])
           v == FlattenSeq([i \in 1..(2 * N) |-> NewRules(b, VisitedFamily(i), VisitedTable(i))])
<1>1. /\ u \in Seq(S)
      /\ \A r \in Own(n).routes : Finally(u, ReplaceRoute(r), {DeleteRoute(r)})
  BY RoutesAhead DEF PerLaneFamily
<1>2. /\ v \in Seq(C)
      /\ \A ft \in LaneFamilies(n) : HasTable(b, ft[2]) \/ Ahead(v, {AddRule(ft[1], ft[2])})
  BY RulesAhead DEF PerLaneFamily
<1>3. TransitionSteps(b, n) = u \o v
  BY DEF TransitionSteps, PerLaneFamily
<1>4. C \subseteq S /\ \A r \in Own(n).routes : C \cap {DeleteRoute(r)} = {}
  BY WalkStepsHave, RulesNotDeletes
<1> HIDE DEF S, N, C, u, v
<1>5. v \in Seq(S)
  BY <1>2, <1>4
<1>6. \A r \in Own(n).routes : ~Ahead(v, {DeleteRoute(r)})
  BY <1>2, <1>4, NotAhead
<1>7. u \o v \in Seq(S)
  BY <1>1, <1>5
<1>8. \A r \in Own(n).routes : Finally(u \o v, ReplaceRoute(r), {DeleteRoute(r)})
  BY <1>1, <1>5, <1>6, AheadInBoth
<1>9. \A ft \in LaneFamilies(n) : HasTable(b, ft[2]) \/ Ahead(u \o v, {AddRule(ft[1], ft[2])})
  BY <1>1, <1>2, <1>5, AheadInBoth
<1> QED BY <1>3, <1>7, <1>8, <1>9 DEF S

\* What retire_steps takes away: the rules and tables of lanes the next plan does
\* not have, and the defaults it gives up; nothing the next plan owns.
Retires(b, n, steps) ==
    /\ steps \in Seq(WalkSteps(b, n))
    /\ \A r \in Own(n).routes : ~Ahead(steps, {DeleteRoute(r)})
    /\ \A ft \in LaneFamilies(b) \ LaneFamilies(n) :
         Ahead(steps, {DeleteRule(ft[1], ft[2])}) /\ Ahead(steps, {FlushTable(ft[1], ft[2])})
    /\ \A ft \in GivenUp(b, n) : Ahead(steps, {DeleteRoute(Unicast(b, ft[1], ft[2]))})
    /\ \A r : ~Ahead(steps, {ReplaceRoute(r)})
    /\ \A f, t : ~Ahead(steps, {AddRule(f, t)})

\* retire_steps does so.
LEMMA RetireAhead ==
    ASSUME NEW b, NEW n, Proper(b), Proper(n)
    PROVE  Retires(b, n, RetireSteps(b, n))
<1> DEFINE S == WalkSteps(b, n)
           N == LaneCount(b)
           C == {DeleteRule(ft[1], ft[2]) : ft \in LaneFamilies(b) \ LaneFamilies(n)}
           D == {FlushTable(ft[1], ft[2]) : ft \in LaneFamilies(b) \ LaneFamilies(n)}
                  \cup {DeleteRoute(Unicast(b, ft[1], ft[2])) : ft \in GivenUp(b, n)}
           u == FlattenSeq([i \in 1..(2 * N) |-> OldRules(n, VisitedFamily(i), VisitedTable(i))])
           v == FlattenSeq([i \in 1..(2 * N) |-> OldRoutes(b, n, VisitedFamily(i), VisitedTable(i))])
<1>1. /\ u \in Seq(C)
      /\ \A ft \in LaneFamilies(b) \ LaneFamilies(n) : Ahead(u, {DeleteRule(ft[1], ft[2])})
  BY OldRulesAhead DEF PerLaneFamily
<1>2. /\ v \in Seq(D)
      /\ \A ft \in LaneFamilies(b) \ LaneFamilies(n) : Ahead(v, {FlushTable(ft[1], ft[2])})
      /\ \A ft \in GivenUp(b, n) : Ahead(v, {DeleteRoute(Unicast(b, ft[1], ft[2]))})
  BY OldRoutesAhead DEF PerLaneFamily
<1>3. RetireSteps(b, n) = u \o v
  BY DEF RetireSteps, PerLaneFamily
<1>4. C \subseteq S /\ D \subseteq S
  BY WalkStepsHave
<1>5. \A r \in Own(n).routes : C \cap {DeleteRoute(r)} = {} /\ D \cap {DeleteRoute(r)} = {}
  BY RulesNotDeletes
<1>6. \A e \in C \cup D : e.op \in {"delrule", "flush", "delete"}
  <2>1. \A ft : /\ DeleteRule(ft[1], ft[2]).op = "delrule" /\ FlushTable(ft[1], ft[2]).op = "flush"
                /\ DeleteRoute(Unicast(b, ft[1], ft[2])).op = "delete"
    BY DEF DeleteRule, FlushTable, DeleteRoute
  <2> QED BY <2>1
<1> HIDE DEF S, N, C, D, u, v
<1>7. \A r, f, t : /\ C \cap {ReplaceRoute(r)} = {} /\ D \cap {ReplaceRoute(r)} = {}
                   /\ C \cap {AddRule(f, t)} = {} /\ D \cap {AddRule(f, t)} = {}
  <2>1. \A r, f, t : ReplaceRoute(r).op = "replace" /\ AddRule(f, t).op = "addrule"
    BY DEF ReplaceRoute, AddRule
  <2> QED BY <1>6, <2>1
<1>8. \A r, f, t : /\ ~Ahead(u, {ReplaceRoute(r)}) /\ ~Ahead(v, {ReplaceRoute(r)})
                   /\ ~Ahead(u, {AddRule(f, t)}) /\ ~Ahead(v, {AddRule(f, t)})
  <2> TAKE r, f, t
  <2>1. /\ C \cap {ReplaceRoute(r)} = {} /\ D \cap {ReplaceRoute(r)} = {}
        /\ C \cap {AddRule(f, t)} = {} /\ D \cap {AddRule(f, t)} = {}
    BY <1>7
  <2> QED BY <1>1, <1>2, <2>1, NotAhead
<1>9. u \in Seq(S) /\ v \in Seq(S)
  BY <1>1, <1>2, <1>4
<1>10. \A r \in Own(n).routes : ~Ahead(u, {DeleteRoute(r)}) /\ ~Ahead(v, {DeleteRoute(r)})
  BY <1>1, <1>2, <1>5, NotAhead
<1>11. u \o v \in Seq(S)
  BY <1>9
<1>12. \A B : Ahead(u \o v, B) <=> Ahead(u, B) \/ Ahead(v, B)
  BY <1>9, AheadInBoth
<1> QED BY <1>1, <1>2, <1>3, <1>10, <1>11, <1>12, <1>8 DEF S, Retires

\* Without a lane to retire there is nothing to do.
LEMMA NothingRetired ==
    ASSUME NEW b, NEW n, LaneCount(b) = 0
    PROVE  Retires(b, n, <<>>)
<1>1. LaneFamilies(b) = {}
  BY DEF LaneFamilies
<1>2. GivenUp(b, n) = {}
  BY <1>1 DEF GivenUp
<1>3. \A B : ~Ahead(<<>>, B)
  BY DEF Ahead
<1> QED BY <1>1, <1>2, <1>3 DEF Retires

\* The steps of an update are on course from what the basis owns.
LEMMA WalkBegins ==
    ASSUME NEW b, NEW n, Proper(b), Proper(n), NEW R, Retires(b, n, R)
    PROVE  OnCourse(b, n, TransitionSteps(b, n) \o R, Own(b))
<1> DEFINE S == WalkSteps(b, n)
           T == TransitionSteps(b, n)
           x == Own(b)
<1>1. /\ T \in Seq(S)
      /\ \A r \in Own(n).routes : Finally(T, ReplaceRoute(r), {DeleteRoute(r)})
      /\ \A ft \in LaneFamilies(n) : HasTable(b, ft[2]) \/ Ahead(T, {AddRule(ft[1], ft[2])})
  BY TransitionAhead
<1>2. /\ R \in Seq(S)
      /\ \A r \in Own(n).routes : ~Ahead(R, {DeleteRoute(r)})
  BY DEF Retires
<1>3. x = [routes |-> x.routes, rules |-> x.rules]
  <2> DEFINE a == {Terminal(ft[1], ft[2]) : ft \in LaneFamilies(b)}
                  \cup {Unicast(b, ft[1], ft[2]) :
                          ft \in {z \in LaneFamilies(b) : HasUnicast(b, z[1], z[2])}}
             u == {Rule(ft[1], ft[2]) : ft \in LaneFamilies(b)}
  <2>1. x = [routes |-> a, rules |-> u]
    BY DEF Own
  <2> HIDE DEF a, u, x
  <2> QED BY <2>1
<1>4. \A ft \in LaneFamilies(n) : HasTable(b, ft[2]) => ft \in LaneFamilies(b)
  BY DEF LaneFamilies, HasTable
<1>5. \A ft \in LaneFamilies(b) : /\ Rule(ft[1], ft[2]) \in x.rules
                                  /\ Terminal(ft[1], ft[2]) \in x.routes
  BY OwnRules, OwnRoutes
<1>6. \A r \in x.rules : \E ft \in LaneFamilies(b) : r = Rule(ft[1], ft[2])
  BY OwnRules
<1> HIDE DEF S, T, x
<1>7. T \o R \in Seq(S)
  BY <1>1, <1>2
<1>8. \A B : Ahead(T \o R, B) <=> Ahead(T, B) \/ Ahead(R, B)
  BY <1>1, <1>2, AheadInBoth
<1>9. RulesDue(n, T \o R, x)
  <2>1. \A ft \in LaneFamilies(n) :
          Rule(ft[1], ft[2]) \in x.rules \/ Ahead(T \o R, {AddRule(ft[1], ft[2])})
    BY <1>1, <1>4, <1>5, <1>8
  <2>2. ASSUME NEW r \in x.rules \ Own(n).rules
        PROVE  Ahead(T \o R, {[op |-> "delrule", rule |-> r]})
    <3>1. PICK ft \in LaneFamilies(b) : r = Rule(ft[1], ft[2])
      BY <1>6
    <3>2. ft \notin LaneFamilies(n)
      BY <2>2, <3>1, OwnRules
    <3>3. Ahead(R, {DeleteRule(ft[1], ft[2])})
      BY <3>2 DEF Retires
    <3>4. DeleteRule(ft[1], ft[2]) = [op |-> "delrule", rule |-> r]
      BY <3>1 DEF DeleteRule
    <3> QED BY <1>8, <3>3, <3>4
  <2> QED BY <2>1, <2>2 DEF RulesDue
<1>10. RoutesDue(n, T \o R, x)
  <2>1. \A r \in Own(n).routes : Finally(T \o R, ReplaceRoute(r), {DeleteRoute(r)})
    BY <1>1, <1>2, AheadInBoth
  <2>2. ASSUME NEW r \in x.routes \ Own(n).routes
        PROVE  Ahead(T \o R, TakesAway(n, r))
    <3> DEFINE f == r.fam
               t == r.tab
    <3>1. /\ <<f, t>> \in LaneFamilies(b)
          /\ IsTerminal(r) => r = Terminal(f, t)
          /\ ~IsTerminal(r) => HasUnicast(b, f, t) /\ r = Unicast(b, f, t)
      BY OwnCell DEF x
    <3>2. FlushTable(f, t) \in TakesAway(n, r) /\ DeleteRoute(r) \in TakesAway(n, r)
      BY DEF TakesAway
    <3>3. \A q \in Own(n).routes : q.fam = f /\ q.tab = t /\ IsTerminal(q) = IsTerminal(r)
                                     => ReplaceRoute(q) \in TakesAway(n, r)
      BY DEF TakesAway
    <3> HIDE DEF f, t
    <3>4. CASE <<f, t>> \notin LaneFamilies(n)
      <4>1. \A ft \in LaneFamilies(b) \ LaneFamilies(n) : Ahead(R, {FlushTable(ft[1], ft[2])})
        BY DEF Retires
      <4>2. Ahead(R, {FlushTable(f, t)})
        BY <3>1, <3>4, <4>1
      <4>3. Ahead(R, TakesAway(n, r))
        BY <3>2, <4>2 DEF Ahead
      <4> QED BY <1>8, <4>3
    <3>5. CASE <<f, t>> \in LaneFamilies(n)
      <4>1. f \in Families /\ t \in 1..LaneCount(n)
        BY <3>5 DEF LaneFamilies
      <4>2. ~IsTerminal(r) /\ HasUnicast(b, f, t) /\ r = Unicast(b, f, t)
        BY <2>2, <3>1, <4>1, OwnMembers
      <4>3. CASE HasUnicast(n, f, t)
        <5>1. Unicast(n, f, t) \in Own(n).routes /\ ~IsTerminal(Unicast(n, f, t))
          BY <3>5, <4>1, <4>3, OwnMembers DEF Proper
        <5>2. Unicast(n, f, t).fam = f /\ Unicast(n, f, t).tab = t
          BY DEF Unicast
        <5>3. ReplaceRoute(Unicast(n, f, t)) \in TakesAway(n, r)
          <6>1. IsTerminal(Unicast(n, f, t)) = IsTerminal(r)
            BY <4>2, <5>1 DEF IsTerminal
          <6> QED BY <3>3, <5>1, <5>2, <6>1
        <5>4. Ahead(T, {ReplaceRoute(Unicast(n, f, t))})
          BY <1>1, <5>1, FinallyAhead
        <5>5. Ahead(T, TakesAway(n, r))
          BY <5>3, <5>4 DEF Ahead
        <5> QED BY <1>8, <5>5
      <4>4. CASE ~HasUnicast(n, f, t)
        <5>1. <<f, t>> \in GivenUp(b, n)
          BY <3>1, <3>5, <4>2, <4>4 DEF GivenUp
        <5>2. \A ft \in GivenUp(b, n) : Ahead(R, {DeleteRoute(Unicast(b, ft[1], ft[2]))})
          BY DEF Retires
        <5>3. Ahead(R, {DeleteRoute(r)})
          BY <4>2, <5>1, <5>2
        <5>4. Ahead(R, TakesAway(n, r))
          BY <3>2, <5>3 DEF Ahead
        <5> QED BY <1>8, <5>4
      <4> QED BY <4>3, <4>4
    <3> QED BY <3>4, <3>5
  <2> QED BY <2>1, <2>2 DEF RoutesDue
<1>11. SharedHave(b, n, T \o R, x)
  BY <1>5 DEF SharedHave
<1> QED BY <1>3, <1>7, <1>9, <1>10, <1>11 DEF OnCourse, S, T, x

\* Plans are proper.
LEMMA PlansProper ==
    ASSUME NEW plan \in ListedPlans
    PROVE  Proper(plan)
<1>1. /\ LaneCount(plan) \in Nat
      /\ \A t \in 1..LaneCount(plan) : plan.lanes[t] \in Lanes
  BY ListedLanes
<1>2. ASSUME NEW ft \in LaneFamilies(plan) PROVE ~IsTerminal(Unicast(plan, ft[1], ft[2]))
  <2>1. ft[1] \in Families /\ ft[2] \in 1..LaneCount(plan)
    BY DEF LaneFamilies
  <2>2. plan.lanes[ft[2]].via[ft[1]] \in Vias
    BY <1>1, <2>1 DEF Lanes
  <2> QED BY <2>2 DEF Unicast, IsTerminal, Vias
<1> QED BY <1>1, <1>2 DEF Proper

\* So is the basis of a plan.
LEMMA BasisProper ==
    ASSUME NEW plan \in ListedPlans, NEW missing
    PROVE  Proper(RoutingBasis(plan, missing))
<1> DEFINE b == RoutingBasis(plan, missing)
<1>1. Proper(plan)
  BY PlansProper
<1>2. /\ LaneCount(b) = LaneCount(plan)
      /\ LaneFamilies(b) = LaneFamilies(plan)
      /\ \A f \in Families, t \in 1..LaneCount(plan) :
           HasUnicast(b, f, t) => HasUnicast(plan, f, t) /\ Unicast(b, f, t) = Unicast(plan, f, t)
  BY ListedBasis
<1> HIDE DEF b
<1>3. ASSUME NEW ft \in LaneFamilies(b), HasUnicast(b, ft[1], ft[2])
      PROVE  ~IsTerminal(Unicast(b, ft[1], ft[2]))
  <2>1. ft \in LaneFamilies(plan) /\ ft[1] \in Families /\ ft[2] \in 1..LaneCount(plan)
    BY <1>2 DEF LaneFamilies
  <2> QED BY <1>1, <1>2, <1>3, <2>1 DEF Proper
<1>4. Proper(b)
  BY <1>1, <1>2, <1>3 DEF Proper
<1> QED BY <1>4 DEF b

-----------------------------------------------------------------------------
(* No step of a walk is refused *)

\* No step of E comes before step c; step d comes before each step c.
NoneBefore(s, E, c) == \A i \in 1..Len(s) : s[i] = c => \A j \in 1..(i - 1) : s[j] \notin E
Preceded(s, d, c) == \A i \in 1..Len(s) : s[i] = c => \E j \in 1..(i - 1) : s[j] = d

\* What comes before in a list does so in the rest of it.
LEMMA BeforeInTail ==
    ASSUME NEW S, NEW s \in Seq(S), s # <<>>, NEW E, NEW c, NEW d
    PROVE  /\ NoneBefore(s, E, c) => /\ NoneBefore(Tail(s), E, c)
                                     /\ Head(s) \in E => ~Ahead(Tail(s), {c})
           /\ Preceded(s, d, c) => /\ Head(s) # c
                                   /\ Head(s) # d => Preceded(Tail(s), d, c)
<1> DEFINE t == Tail(s)
<1>1. /\ Len(s) \in Nat /\ Len(s) > 0 /\ t \in Seq(S) /\ Len(t) = Len(s) - 1
      /\ Head(s) = s[1] /\ \A i \in 1..Len(t) : t[i] = s[i + 1]
  OBVIOUS
<1> HIDE DEF t
<1>2. \A i \in 1..Len(t) : i + 1 \in 1..Len(s) /\ t[i] = s[i + 1] /\ (i + 1) - 1 = i
  BY <1>1
<1>3. ASSUME NoneBefore(s, E, c)
      PROVE  NoneBefore(t, E, c) /\ (Head(s) \in E => ~Ahead(t, {c}))
  <2>1. ASSUME NEW i \in 1..Len(t), t[i] = c
        PROVE  s[1] \notin E /\ \A j \in 1..(i - 1) : t[j] \notin E
    <3>1. \A j \in 1..((i + 1) - 1) : s[j] \notin E
      BY <1>2, <1>3, <2>1 DEF NoneBefore
    <3>2. \A j \in 1..(i - 1) : j \in 1..Len(t) /\ j + 1 \in 1..((i + 1) - 1)
      BY <1>1
    <3>3. 1 \in 1..((i + 1) - 1)
      OBVIOUS
    <3> QED BY <1>2, <3>1, <3>2, <3>3
  <2> QED BY <1>1, <2>1 DEF NoneBefore, Ahead
<1>4. ASSUME Preceded(s, d, c)
      PROVE  Head(s) # c /\ (Head(s) # d => Preceded(t, d, c))
  <2>1. s[1] # c
    <3>1. 1 \in 1..Len(s) /\ ~ \E j \in 1..(1 - 1) : s[j] = d
      BY <1>1
    <3> QED BY <1>4, <3>1 DEF Preceded
  <2>2. ASSUME s[1] # d, NEW i \in 1..Len(t), t[i] = c
        PROVE  \E j \in 1..(i - 1) : t[j] = d
    <3>1. PICK j \in 1..((i + 1) - 1) : s[j] = d
      BY <1>2, <1>4, <2>2 DEF Preceded
    <3>2. j # 1 /\ j - 1 \in 1..(i - 1) /\ j - 1 \in 1..Len(t) /\ (j - 1) + 1 = j
      BY <1>1, <2>2, <3>1
    <3> QED BY <1>2, <3>1, <3>2
  <2> QED BY <1>1, <2>1, <2>2 DEF Preceded
<1> QED BY <1>3, <1>4 DEF t

\* A list without the steps in question may follow or lead.
LEMMA BeforeInBoth ==
    ASSUME NEW S, NEW s \in Seq(S), NEW t \in Seq(S), NEW E, NEW c, NEW d
    PROVE  /\ NoneBefore(s, E, c) /\ ~Ahead(t, {c}) => NoneBefore(s \o t, E, c)
           /\ NoneBefore(t, E, c) /\ ~Ahead(s, {c}) /\ ~Ahead(s, E) => NoneBefore(s \o t, E, c)
           /\ Preceded(s, d, c) /\ ~Ahead(t, {c}) => Preceded(s \o t, d, c)
           /\ Preceded(t, d, c) /\ ~Ahead(s, {c}) => Preceded(s \o t, d, c)
<1> DEFINE u == s \o t
<1>1. /\ Len(s) \in Nat /\ Len(t) \in Nat /\ Len(u) = Len(s) + Len(t)
      /\ \A i \in 1..Len(s) : u[i] = s[i]
      /\ \A i \in 1..Len(t) : u[Len(s) + i] = t[i]
  OBVIOUS
<1> HIDE DEF u
<1>2. \A i \in 1..Len(u) : i \in 1..Len(s) \/ (i - Len(s) \in 1..Len(t) /\ u[i] = t[i - Len(s)])
  <2> TAKE i \in 1..Len(u)
  <2>1. CASE i > Len(s)
    <3>1. i - Len(s) \in 1..Len(t) /\ Len(s) + (i - Len(s)) = i
      BY <1>1, <2>1
    <3> QED BY <1>1, <3>1
  <2> QED BY <1>1, <2>1
<1>3. ASSUME ~Ahead(t, {c}), NEW i \in 1..Len(u), u[i] = c
      PROVE  i \in 1..Len(s) /\ s[i] = c
    /\ \A j \in 1..(i - 1) : j \in 1..Len(s) /\ u[j] = s[j]
  <2>1. i \in 1..Len(s)
    BY <1>2, <1>3 DEF Ahead
  <2>2. \A j \in 1..(i - 1) : j \in 1..Len(s)
    BY <1>1, <2>1
  <2> QED BY <1>1, <1>3, <2>1, <2>2
<1>4. ASSUME ~Ahead(s, {c}), NEW i \in 1..Len(u), u[i] = c
      PROVE  i - Len(s) \in 1..Len(t) /\ t[i - Len(s)] = c
  BY <1>1, <1>2, <1>4 DEF Ahead
<1>5. NoneBefore(s, E, c) /\ ~Ahead(t, {c}) => NoneBefore(u, E, c)
  BY <1>3 DEF NoneBefore
<1>6. ASSUME NoneBefore(t, E, c), ~Ahead(s, {c}), ~Ahead(s, E) PROVE NoneBefore(u, E, c)
  <2> SUFFICES ASSUME NEW i \in 1..Len(u), u[i] = c, NEW j \in 1..(i - 1)
               PROVE  u[j] \notin E
    BY DEF NoneBefore
  <2>1. i - Len(s) \in 1..Len(t) /\ t[i - Len(s)] = c
    BY <1>4, <1>6
  <2>2. j \in 1..Len(u)
    BY <1>1
  <2>3. CASE j \in 1..Len(s)
    BY <1>1, <1>6, <2>3 DEF Ahead
  <2>4. CASE j \notin 1..Len(s)
    <3>1. j - Len(s) \in 1..((i - Len(s)) - 1)
      BY <1>1, <2>1, <2>2, <2>4
    <3>2. t[j - Len(s)] \notin E
      BY <1>6, <2>1, <3>1 DEF NoneBefore
    <3> QED BY <1>2, <2>2, <2>4, <3>2
  <2> QED BY <2>3, <2>4
<1>7. Preceded(s, d, c) /\ ~Ahead(t, {c}) => Preceded(u, d, c)
  BY <1>3 DEF Preceded
<1>8. ASSUME Preceded(t, d, c), ~Ahead(s, {c}) PROVE Preceded(u, d, c)
  <2> SUFFICES ASSUME NEW i \in 1..Len(u), u[i] = c PROVE \E j \in 1..(i - 1) : u[j] = d
    BY DEF Preceded
  <2>1. i - Len(s) \in 1..Len(t) /\ t[i - Len(s)] = c
    BY <1>4, <1>8
  <2>2. PICK j \in 1..((i - Len(s)) - 1) : t[j] = d
    BY <1>8, <2>1 DEF Preceded
  <2>3. j \in 1..Len(t) /\ Len(s) + j \in 1..(i - 1)
    BY <1>1, <2>1
  <2> QED BY <1>1, <2>2, <2>3
<1> QED BY <1>5, <1>6, <1>7, <1>8 DEF u

\* A list among steps of which none is in B.
Around(S, w, s, B) == \E p, q \in Seq(S) : w = (p \o s) \o q /\ ~Ahead(p, B) /\ ~Ahead(q, B)

\* More such steps may follow.
LEMMA AroundMore ==
    ASSUME NEW S, NEW s \in Seq(S), NEW r \in Seq(S), NEW B, ~Ahead(r, B)
    PROVE  /\ \A p \in Seq(S) : ~Ahead(p, B) => Around(S, p \o s, s, B)
           /\ \A w : Around(S, w, s, B) => Around(S, w \o r, s, B)
<1>0. <<>> \in Seq(S) /\ ~Ahead(<<>>, B)
  BY DEF Ahead
<1>1. ASSUME NEW p \in Seq(S), ~Ahead(p, B) PROVE Around(S, p \o s, s, B)
  <2>1. p \o s = (p \o s) \o <<>>
    OBVIOUS
  <2> QED BY <1>0, <1>1, <2>1 DEF Around
<1>2. ASSUME NEW w, Around(S, w, s, B) PROVE Around(S, w \o r, s, B)
  <2>1. PICK p \in Seq(S) : \E q \in Seq(S) : w = (p \o s) \o q /\ ~Ahead(p, B) /\ ~Ahead(q, B)
    BY <1>2 DEF Around
  <2>2. PICK q \in Seq(S) : w = (p \o s) \o q /\ ~Ahead(p, B) /\ ~Ahead(q, B)
    BY <2>1
  <2> DEFINE ps == p \o s
  <2>3. ps \in Seq(S)
    OBVIOUS
  <2> HIDE DEF ps
  <2>4. w \o r = ps \o (q \o r)
    <3>1. w = ps \o q
      BY <2>2 DEF ps
    <3> QED BY <2>3, <3>1
  <2>5. q \o r \in Seq(S)
    OBVIOUS
  <2>6. Ahead(q \o r, B) <=> Ahead(q, B) \/ Ahead(r, B)
    BY AheadInBoth
  <2>7. ~Ahead(q \o r, B)
    BY <1>2, <2>2, <2>6
  <2> QED BY <2>2, <2>4, <2>5, <2>7 DEF Around, ps
<1> QED BY <1>1, <1>2

\* One of several lists among others that have none of its steps.
LEMMA FlatAround ==
    ASSUME NEW S, NEW seqs \in Seq(Seq(S)), NEW k \in 1..Len(seqs), NEW B,
           \A i \in 1..Len(seqs) : i # k => ~Ahead(seqs[i], B)
    PROVE  Around(S, FlattenSeq(seqs), seqs[k], B)
<1> DEFINE N == Len(seqs)
           Q == Seq(S)
<1>0. N \in Nat /\ \A i \in 1..N : seqs[i] \in Q
  OBVIOUS
<1>1. seqs # <<>>
  OBVIOUS
<1>2. PICK flat : /\ FlattenSeq(seqs) = flat[N]
                  /\ flat[1] = seqs[1]
                  /\ \A i \in 2..N : flat[i] = flat[i - 1] \o seqs[i]
                  /\ \A i \in 1..N : flat[i] \in Q
  BY <1>1, FlattenGrows
<1>3. k \in 1..N /\ \A i \in 1..N : i # k => ~Ahead(seqs[i], B)
  OBVIOUS
<1>4. <<>> \in Q /\ ~Ahead(<<>>, B) /\ \A p \in Q : <<>> \o p = p
  BY DEF Ahead
<1>5. \A p, q \in Q : ~Ahead(p, B) /\ ~Ahead(q, B) => ~Ahead(p \o q, B)
  BY AheadInBoth
<1> DEFINE Wraps(w) == Around(S, w, seqs[k], B)
<1>6. /\ \A p \in Q : ~Ahead(p, B) => Wraps(p \o seqs[k])
      /\ \A r \in Q : ~Ahead(r, B) => \A w : Wraps(w) => Wraps(w \o r)
  BY <1>0, <1>3, <1>4, AroundMore
<1> HIDE DEF N, Q, Wraps
<1> DEFINE L == {n \in Nat : n + 1 < k => ~Ahead(flat[n + 1], B)}
           T == {n \in Nat : k + n <= N => Wraps(flat[k + n])}
<1>7. 0 \in L
  <2>1. 1 < k => 1 \in 1..N /\ 1 # k
    BY <1>0, <1>3
  <2> QED BY <1>2, <1>3, <2>1
<1>8. ASSUME NEW n \in L PROVE n + 1 \in L
  <2> SUFFICES ASSUME (n + 1) + 1 < k PROVE ~Ahead(flat[(n + 1) + 1], B)
    OBVIOUS
  <2> DEFINE i == (n + 1) + 1
  <2>1. i \in 2..N /\ i \in 1..N /\ i # k /\ i - 1 = n + 1 /\ i - 1 \in 1..N /\ n + 1 < k
    BY <1>0, <1>3
  <2>2. ~Ahead(flat[i - 1], B)
    BY <2>1
  <2> HIDE DEF i, L, T
  <2>3. flat[i] = flat[i - 1] \o seqs[i] /\ flat[i - 1] \in Q /\ seqs[i] \in Q
    BY <1>0, <1>2, <2>1
  <2>4. ~Ahead(flat[i], B)
    BY <1>3, <1>5, <2>1, <2>2, <2>3
  <2> QED BY <2>4 DEF i
<1>9. \A n \in Nat : n \in L
  <2>1. L \in SUBSET Nat
    OBVIOUS
  <2> HIDE DEF L, T
  <2> QED BY <1>7, <1>8, <2>1, SetInduction
<1>10. 0 \in T
  <2>1. seqs[k] \in Q
    BY <1>0, <1>3
  <2>2. CASE k = 1
    <3>1. Wraps(<<>> \o seqs[k])
      BY <1>4, <1>6
    <3> QED BY <1>2, <1>3, <1>4, <2>1, <2>2, <3>1
  <2>3. CASE k # 1
    <3>1. k \in 2..N /\ k - 1 \in 1..N /\ k - 2 \in Nat /\ (k - 2) + 1 = k - 1 /\ (k - 2) + 1 < k
      BY <1>0, <1>3, <2>3
    <3>2. k - 2 \in L
      BY <1>9, <3>1
    <3>3. ~Ahead(flat[k - 1], B)
      BY <3>1, <3>2
    <3>4. flat[k] = flat[k - 1] \o seqs[k] /\ flat[k - 1] \in Q
      BY <1>2, <3>1
    <3>5. Wraps(flat[k])
      BY <1>6, <3>3, <3>4
    <3> QED BY <1>3, <3>5
  <2> QED BY <2>2, <2>3
<1>11. ASSUME NEW n \in T PROVE n + 1 \in T
  <2> SUFFICES ASSUME k + (n + 1) <= N PROVE Wraps(flat[k + (n + 1)])
    OBVIOUS
  <2> DEFINE i == k + (n + 1)
  <2>1. i \in 2..N /\ i \in 1..N /\ i # k /\ i - 1 = k + n /\ k + n <= N
    BY <1>0, <1>3
  <2>2. Wraps(flat[k + n])
    BY <2>1
  <2> HIDE DEF i, L, T
  <2>3. flat[i] = flat[k + n] \o seqs[i] /\ seqs[i] \in Q /\ ~Ahead(seqs[i], B)
    BY <1>0, <1>2, <1>3, <2>1
  <2> QED BY <1>6, <2>2, <2>3 DEF i
<1>12. N - k \in Nat /\ k + (N - k) = N
  BY <1>0, <1>3
<1>13. N - k \in T
  <2>1. T \in SUBSET Nat
    OBVIOUS
  <2> HIDE DEF L, T
  <2> QED BY <1>10, <1>11, <1>12, <2>1, SetInduction
<1>14. Wraps(flat[N])
  BY <1>12, <1>13
<1> QED BY <1>2, <1>14 DEF Wraps

\* The steps of one lane and family among those of all.
LEMMA PerLaneAround ==
    ASSUME NEW S, NEW n \in Nat, NEW F,
           \A f \in Families : \A t \in 1..n : F[<<f, t>>] \in Seq(S),
           NEW f0 \in Families, NEW t0 \in 1..n, NEW B,
           \A f \in Families : \A t \in 1..n : <<f, t>> # <<f0, t0>> => ~Ahead(F[<<f, t>>], B)
    PROVE  Around(S, FlattenSeq([i \in 1..(2 * n) |-> F[<<VisitedFamily(i), VisitedTable(i)>>]]),
                  F[<<f0, t0>>], B)
<1> DEFINE seqs == [i \in 1..(2 * n) |-> F[<<VisitedFamily(i), VisitedTable(i)>>]]
<1>1. \A i \in 1..(2 * n) : VisitedFamily(i) \in Families /\ VisitedTable(i) \in 1..n
  BY RemovalStep
<1>2. PICK k \in 1..(2 * n) : VisitedFamily(k) = f0 /\ VisitedTable(k) = t0
  BY RemovalIndex
<1>3. 2 * n \in Nat
  OBVIOUS
<1>4. seqs \in [1..(2 * n) -> Seq(S)]
  BY <1>1
<1>5. seqs[k] = F[<<f0, t0>>]
  BY <1>2
<1>6. ASSUME NEW i \in 1..(2 * n), i # k PROVE ~Ahead(seqs[i], B)
  <2>1. VisitedFamily(i) # f0 \/ VisitedTable(i) # t0
    BY <1>2, <1>6, VisitedOnce
  <2>2. VisitedFamily(i) \in Families /\ VisitedTable(i) \in 1..n
    BY <1>1
  <2>3. seqs[i] = F[<<VisitedFamily(i), VisitedTable(i)>>]
    OBVIOUS
  <2> HIDE DEF seqs
  <2> QED BY <2>1, <2>2, <2>3
<1> HIDE DEF seqs
<1>7. seqs \in Seq(Seq(S)) /\ Len(seqs) = 2 * n
  BY <1>3, <1>4
<1>8. Around(S, FlattenSeq(seqs), seqs[k], B)
  BY <1>2, <1>6, <1>7, FlatAround
<1> QED BY <1>5, <1>8 DEF seqs

\* What a step brings is what it names.
LEMMA StepBrings ==
    ASSUME NEW b, NEW n, NEW h \in WalkSteps(b, n), NEW x,
           x = [routes |-> x.routes, rules |-> x.rules]
    PROVE  LET y == ApplyRoutingStep(x, h)
           IN  /\ \A r \in y.routes : r \in x.routes \/ h = ReplaceRoute(r)
               /\ \A r \in y.rules : r \in x.rules \/ h = [op |-> "addrule", rule |-> r]
               /\ \A r : h = DeleteRoute(r) => r \notin y.routes
<1> DEFINE y == ApplyRoutingStep(x, h)
<1>1. CASE \E q : h = ReplaceRoute(q)
  <2>1. PICK q : h = ReplaceRoute(q)
    BY <1>1
  <2>2. y = [x EXCEPT !.routes = {r \in @ : \/ r.fam # q.fam \/ r.tab # q.tab
                                           \/ IsTerminal(r) # IsTerminal(q)} \cup {q}]
    BY <2>1, ReplaceRouteApplied
  <2> HIDE DEF y
  <2>3. (\A r \in y.routes : r \in x.routes \/ r = q) /\ y.rules = x.rules
    BY <2>2
  <2>4. \A r : h # DeleteRoute(r)
    BY <2>1, DeletesDiffer
  <2> QED BY <2>1, <2>3, <2>4 DEF y
<1>2. CASE \E q : h = DeleteRoute(q)
  <2>1. PICK q : h = DeleteRoute(q)
    BY <1>2
  <2>2. y = [x EXCEPT !.routes = @ \ {q}]
    BY <2>1, DeleteRouteApplied
  <2> HIDE DEF y
  <2>3. y.routes = x.routes \ {q} /\ y.rules = x.rules
    BY <2>2
  <2>4. \A r : h = DeleteRoute(r) => r = q
    BY <2>1, DeletesDiffer
  <2> QED BY <2>3, <2>4 DEF y
<1>3. CASE \E f, t : h = AddRule(f, t)
  <2>1. PICK f, t : h = AddRule(f, t)
    BY <1>3
  <2>2. y = [x EXCEPT !.rules = @ \cup {Rule(f, t)}]
    BY <2>1, AddRuleApplied
  <2> HIDE DEF y
  <2>3. y.routes = x.routes /\ y.rules = x.rules \cup {Rule(f, t)}
    BY <2>2
  <2>4. h = [op |-> "addrule", rule |-> Rule(f, t)]
    BY <2>1 DEF AddRule
  <2>5. \A r : h # DeleteRoute(r)
    BY <2>1, DeletesDiffer
  <2> QED BY <2>3, <2>4, <2>5 DEF y
<1>4. CASE \E f, t : h = DeleteRule(f, t)
  <2>1. PICK f, t : h = DeleteRule(f, t)
    BY <1>4
  <2>2. y = [x EXCEPT !.rules = @ \ {Rule(f, t)}]
    BY <2>1, DeleteRuleApplied
  <2> HIDE DEF y
  <2>3. y.routes = x.routes /\ y.rules \subseteq x.rules
    BY <2>2
  <2>4. \A r : h # DeleteRoute(r)
    BY <2>1, DeletesDiffer
  <2> QED BY <2>3, <2>4 DEF y
<1>5. CASE \E f, t : h = FlushTable(f, t)
  <2>1. PICK f, t : h = FlushTable(f, t)
    BY <1>5
  <2>2. y = [x EXCEPT !.routes = {r \in @ : r.fam # f \/ r.tab # t}]
    BY <2>1, FlushTableApplied
  <2> HIDE DEF y
  <2>3. y.routes \subseteq x.routes /\ y.rules = x.rules
    BY <2>2
  <2>4. \A r : h # DeleteRoute(r)
    BY <2>1, DeletesDiffer
  <2> QED BY <2>3, <2>4 DEF y
<1> QED BY <1>1, <1>2, <1>3, <1>4, <1>5, WalkKinds

\* A unicast default stays in a table the next plan has one for.
HasDefault(x, t) == \E q \in x.routes : q.fam = 6 /\ q.tab = t /\ ~IsTerminal(q)
LEMMA DefaultStays ==
    ASSUME NEW b, NEW n, Proper(b), Proper(n), NEW h \in WalkSteps(b, n), NEW x,
           x = [routes |-> x.routes, rules |-> x.rules],
           NEW t \in 1..LaneCount(n), HasUnicast(n, 6, t), HasDefault(x, t)
    PROVE  HasDefault(ApplyRoutingStep(x, h), t)
<1> DEFINE y == ApplyRoutingStep(x, h)
<1>1. PICK q \in x.routes : q.fam = 6 /\ q.tab = t /\ ~IsTerminal(q)
  BY DEF HasDefault
<1>2. SUFFICES HasDefault(y, t)
  OBVIOUS
<1>3. CASE \E r \in Own(n).routes : h = ReplaceRoute(r)
  <2>1. PICK r \in Own(n).routes : h = ReplaceRoute(r)
    BY <1>3
  <2>2. y = [x EXCEPT !.routes = {p \in @ : \/ p.fam # r.fam \/ p.tab # r.tab
                                           \/ IsTerminal(p) # IsTerminal(r)} \cup {r}]
    BY <2>1, ReplaceRouteApplied
  <2> HIDE DEF y
  <2>3. y.routes = {p \in x.routes : \/ p.fam # r.fam \/ p.tab # r.tab
                                     \/ IsTerminal(p) # IsTerminal(r)} \cup {r}
    BY <2>2
  <2>4. CASE r.fam = 6 /\ r.tab = t /\ IsTerminal(q) = IsTerminal(r)
    BY <1>1, <2>3, <2>4 DEF HasDefault
  <2>5. CASE ~(r.fam = 6 /\ r.tab = t /\ IsTerminal(q) = IsTerminal(r))
    BY <1>1, <2>3, <2>5 DEF HasDefault
  <2> QED BY <2>4, <2>5
<1>4. CASE \E ft \in Lifted(b, n) : h = DeleteRoute(Terminal(ft[1], ft[2]))
  <2>1. PICK ft \in Lifted(b, n) : h = DeleteRoute(Terminal(ft[1], ft[2]))
    BY <1>4
  <2>2. y = [x EXCEPT !.routes = @ \ {Terminal(ft[1], ft[2])}]
    BY <2>1, DeleteRouteApplied
  <2> HIDE DEF y
  <2>3. y.routes = x.routes \ {Terminal(ft[1], ft[2])}
    BY <2>2
  <2>4. IsTerminal(Terminal(ft[1], ft[2]))
    BY DEF Terminal, IsTerminal
  <2>5. q # Terminal(ft[1], ft[2])
    BY <1>1, <2>4
  <2> QED BY <1>1, <2>3, <2>5 DEF HasDefault
<1>5. CASE \E ft \in LaneFamilies(n) : h = AddRule(ft[1], ft[2])
  <2>1. PICK ft \in LaneFamilies(n) : h = AddRule(ft[1], ft[2])
    BY <1>5
  <2>2. y = [x EXCEPT !.rules = @ \cup {Rule(ft[1], ft[2])}]
    BY <2>1, AddRuleApplied
  <2> HIDE DEF y
  <2> QED BY <1>1, <2>2 DEF HasDefault
<1>6. CASE \E ft \in LaneFamilies(b) \ LaneFamilies(n) : h = DeleteRule(ft[1], ft[2])
  <2>1. PICK ft \in LaneFamilies(b) \ LaneFamilies(n) : h = DeleteRule(ft[1], ft[2])
    BY <1>6
  <2>2. y = [x EXCEPT !.rules = @ \ {Rule(ft[1], ft[2])}]
    BY <2>1, DeleteRuleApplied
  <2> HIDE DEF y
  <2> QED BY <1>1, <2>2 DEF HasDefault
<1>7. CASE \E ft \in LaneFamilies(b) \ LaneFamilies(n) : h = FlushTable(ft[1], ft[2])
  <2>1. PICK f, u : h = FlushTable(f, u) /\ <<f, u>> \notin LaneFamilies(n)
    <3>1. PICK ft \in LaneFamilies(b) \ LaneFamilies(n) : h = FlushTable(ft[1], ft[2])
      BY <1>7
    <3>2. ft = <<ft[1], ft[2]>>
      BY DEF LaneFamilies
    <3> QED BY <3>1, <3>2
  <2>2. y = [x EXCEPT !.routes = {r \in @ : r.fam # f \/ r.tab # u}]
    BY <2>1, FlushTableApplied
  <2>3. <<6, t>> \in LaneFamilies(n)
    BY DEF LaneFamilies, Families
  <2>4. f # 6 \/ u # t
    BY <2>1, <2>3
  <2> HIDE DEF y
  <2> QED BY <1>1, <2>2, <2>4 DEF HasDefault
<1>8. CASE \E ft \in GivenUp(b, n) : h = DeleteRoute(Unicast(b, ft[1], ft[2]))
  <2>1. PICK ft \in GivenUp(b, n) : h = DeleteRoute(Unicast(b, ft[1], ft[2]))
    BY <1>8
  <2>2. y = [x EXCEPT !.routes = @ \ {Unicast(b, ft[1], ft[2])}]
    BY <2>1, DeleteRouteApplied
  <2> HIDE DEF y
  <2>3. y.routes = x.routes \ {Unicast(b, ft[1], ft[2])}
    BY <2>2
  <2>4. ~HasUnicast(n, ft[1], ft[2])
    BY <2>1 DEF GivenUp
  <2>5. q # Unicast(b, ft[1], ft[2])
    BY <1>1, <2>4 DEF Unicast
  <2> QED BY <1>1, <2>3, <2>5 DEF HasDefault
<1> QED BY <1>3, <1>4, <1>5, <1>6, <1>7, <1>8, WalkKinds

\* What ip asks of the steps ahead: a rule is added once, where there is none; an
\* IPv6 gateway finds a default, or no terminal, or one that is deleted before.
Admissible(s, x, n, t) ==
    LET entry == ReplaceRoute(Unicast(n, 6, t))
    IN  \/ HasDefault(x, t)
        \/ /\ NoneBefore(s, {ReplaceRoute(Terminal(6, t))}, entry)
           /\ Terminal(6, t) \in x.routes => Preceded(s, DeleteRoute(Terminal(6, t)), entry)
Acceptable(n, s, x) ==
    /\ \A ft \in LaneFamilies(n) :
         LET add == AddRule(ft[1], ft[2])
         IN  /\ NoneBefore(s, {add}, add)
             /\ Rule(ft[1], ft[2]) \in x.rules => ~Ahead(s, {add})
    /\ \A t \in 1..LaneCount(n) :
         HasUnicast(n, 6, t) /\ n.lanes[t].via[6] = "gateway" => Admissible(s, x, n, t)

\* The steps of a walk keep it acceptable, and none is refused.
LEMMA WalkAccepted ==
    ASSUME NEW b, NEW n, Proper(b), Proper(n), NEW s \in Seq(WalkSteps(b, n)), s # <<>>, NEW x,
           x = [routes |-> x.routes, rules |-> x.rules], Acceptable(n, s, x)
    PROVE  /\ Acceptable(n, Tail(s), ApplyRoutingStep(x, Head(s)))
           /\ ~Refused(x, Head(s))
<1> DEFINE h == Head(s)
           rest == Tail(s)
           y == ApplyRoutingStep(x, h)
           S == WalkSteps(b, n)
<1>1. h \in S /\ rest \in Seq(S)
  OBVIOUS
<1>2. /\ \A r \in y.routes : r \in x.routes \/ h = ReplaceRoute(r)
      /\ \A r \in y.rules : r \in x.rules \/ h = [op |-> "addrule", rule |-> r]
      /\ \A r : h = DeleteRoute(r) => r \notin y.routes
  BY <1>1, StepBrings
<1>3. \A B : Ahead(s, B) <=> h \in B \/ Ahead(rest, B)
  BY AheadInTail
<1>4. \A E, c : NoneBefore(s, E, c) => NoneBefore(rest, E, c) /\ (h \in E => ~Ahead(rest, {c}))
  BY BeforeInTail
<1>5. \A d, c : Preceded(s, d, c) => h # c /\ (h # d => Preceded(rest, d, c))
  BY BeforeInTail
<1>6. \A t \in 1..LaneCount(n) : HasUnicast(n, 6, t) /\ HasDefault(x, t) => HasDefault(y, t)
  BY <1>1, DefaultStays
<1> HIDE DEF h, rest, y, S
<1>7. ASSUME NEW ft \in LaneFamilies(n)
      PROVE  LET add == AddRule(ft[1], ft[2])
             IN  /\ NoneBefore(rest, {add}, add)
                 /\ Rule(ft[1], ft[2]) \in y.rules => ~Ahead(rest, {add})
  <2> DEFINE add == AddRule(ft[1], ft[2])
  <2>1. NoneBefore(s, {add}, add) /\ (Rule(ft[1], ft[2]) \in x.rules => ~Ahead(s, {add}))
    BY DEF Acceptable
  <2>2. add = [op |-> "addrule", rule |-> Rule(ft[1], ft[2])]
    BY DEF AddRule
  <2> HIDE DEF add
  <2>3. NoneBefore(rest, {add}, add) /\ (h = add => ~Ahead(rest, {add}))
    BY <1>4, <2>1
  <2>4. Rule(ft[1], ft[2]) \in y.rules => ~Ahead(rest, {add})
    BY <1>2, <1>3, <2>1, <2>2, <2>3
  <2> QED BY <2>3, <2>4 DEF add
<1>8. ASSUME NEW t \in 1..LaneCount(n), HasUnicast(n, 6, t), n.lanes[t].via[6] = "gateway"
      PROVE  Admissible(rest, y, n, t)
  <2> DEFINE c == ReplaceRoute(Unicast(n, 6, t))
             T == Terminal(6, t)
             e == ReplaceRoute(T)
             d == DeleteRoute(T)
  <2>1. HasDefault(x, t) \/ (NoneBefore(s, {e}, c) /\ (T \in x.routes => Preceded(s, d, c)))
    BY <1>8 DEF Acceptable, Admissible
  <2> SUFFICES HasDefault(y, t) \/ (NoneBefore(rest, {e}, c) /\ (T \in y.routes => Preceded(rest, d, c)))
    BY DEF Admissible
  <2> HIDE DEF c, T
  <2>2. CASE HasDefault(x, t)
    BY <1>6, <1>8, <2>2
  <2>3. CASE NoneBefore(s, {e}, c) /\ (T \in x.routes => Preceded(s, d, c))
    <3>1. NoneBefore(rest, {e}, c) /\ (h = e => ~Ahead(rest, {c}))
      BY <1>4, <2>3
    <3>2. CASE T \notin y.routes
      BY <3>1, <3>2
    <3>3. CASE T \in y.routes /\ T \in x.routes
      <4>1. h # d
        BY <1>2, <3>3
      <4>2. Preceded(rest, d, c)
        BY <1>5, <2>3, <3>3, <4>1
      <4> QED BY <3>1, <4>2
    <3>4. CASE T \in y.routes /\ T \notin x.routes
      <4>1. h = e
        BY <1>2, <3>4
      <4>2. Preceded(rest, d, c)
        BY <3>1, <4>1 DEF Ahead, Preceded
      <4> QED BY <3>1, <4>2
    <3> QED BY <3>2, <3>3, <3>4
  <2> QED BY <2>1, <2>2, <2>3
<1>9. ~Refused(x, h)
  <2>1. ASSUME h.op = "addrule", h.rule \in x.rules PROVE FALSE
    <3>1. \A r, f, t : /\ ReplaceRoute(r).op = "replace" /\ DeleteRoute(r).op = "delete"
                       /\ DeleteRule(f, t).op = "delrule" /\ FlushTable(f, t).op = "flush"
      BY DEF ReplaceRoute, DeleteRoute, DeleteRule, FlushTable
    <3>2. /\ \A r : h # ReplaceRoute(r) /\ h # DeleteRoute(r)
          /\ \A f, t : h # DeleteRule(f, t) /\ h # FlushTable(f, t)
      BY <2>1, <3>1
    <3>3. h \in WalkSteps(b, n)
      BY <1>1 DEF S
    <3>4. PICK ft \in LaneFamilies(n) : h = AddRule(ft[1], ft[2])
      BY <3>2, <3>3, WalkKinds
    <3>5. h.rule = Rule(ft[1], ft[2])
      BY <3>4 DEF AddRule
    <3>6. ~Ahead(s, {h})
      BY <2>1, <3>4, <3>5 DEF Acceptable
    <3> QED BY <1>3, <3>6
  <2>2. ASSUME h.op = "replace", h.route.fam = 6, h.route.via = "gateway",
               {r \in x.routes : r.fam = 6 /\ r.tab = h.route.tab} = {Terminal(6, h.route.tab)}
        PROVE  FALSE
    <3>1. \A r, f, t : /\ AddRule(f, t).op = "addrule" /\ DeleteRoute(r).op = "delete"
                       /\ DeleteRule(f, t).op = "delrule" /\ FlushTable(f, t).op = "flush"
      BY DEF AddRule, DeleteRoute, DeleteRule, FlushTable
    <3>2. /\ \A r : h # DeleteRoute(r)
          /\ \A f, t : h # AddRule(f, t) /\ h # DeleteRule(f, t) /\ h # FlushTable(f, t)
      BY <2>2, <3>1
    <3>3. h \in WalkSteps(b, n)
      BY <1>1 DEF S
    <3>4. PICK r \in Own(n).routes : h = ReplaceRoute(r)
      BY <3>2, <3>3, WalkKinds
    <3>5. h.route = r
      BY <3>4 DEF ReplaceRoute
    <3> DEFINE t == r.tab
    <3>6. ~IsTerminal(r)
      BY <2>2, <3>5 DEF IsTerminal
    <3>7. <<6, t>> \in LaneFamilies(n) /\ HasUnicast(n, 6, t) /\ r = Unicast(n, 6, t)
      BY <2>2, <3>5, <3>6, OwnCell
    <3>8. t \in 1..LaneCount(n) /\ n.lanes[t].via[6] = "gateway"
      BY <2>2, <3>5, <3>7 DEF LaneFamilies, Unicast
    <3> HIDE DEF t
    <3>9. Admissible(s, x, n, t)
      BY <3>7, <3>8 DEF Acceptable
    <3>10. {q \in x.routes : q.fam = 6 /\ q.tab = t} = {Terminal(6, t)} /\ IsTerminal(Terminal(6, t))
      BY <2>2, <3>5 DEF t, IsTerminal, Terminal
    <3>11. ~HasDefault(x, t) /\ Terminal(6, t) \in x.routes
      BY <3>10 DEF HasDefault
    <3>12. Preceded(s, DeleteRoute(Terminal(6, t)), h)
      BY <3>4, <3>7, <3>9, <3>11 DEF Admissible
    <3> QED BY <1>5, <3>12
  <2> QED BY <2>1, <2>2 DEF Refused
<1> QED BY <1>7, <1>8, <1>9 DEF Acceptable, h, rest, y

\* What comes before in one of several lists does so in all of them.
LEMMA AroundKeeps ==
    ASSUME NEW S, NEW s \in Seq(S), NEW w, NEW E, NEW c, NEW d, Around(S, w, s, E \cup {c})
    PROVE  /\ Ahead(w, {c}) <=> Ahead(s, {c})
           /\ NoneBefore(s, E, c) => NoneBefore(w, E, c)
           /\ Preceded(s, d, c) => Preceded(w, d, c)
<1>1. PICK p \in Seq(S) : \E q \in Seq(S) :
        w = (p \o s) \o q /\ ~Ahead(p, E \cup {c}) /\ ~Ahead(q, E \cup {c})
  BY DEF Around
<1>2. PICK q \in Seq(S) : w = (p \o s) \o q /\ ~Ahead(p, E \cup {c}) /\ ~Ahead(q, E \cup {c})
  BY <1>1
<1>3. ~Ahead(p, E) /\ ~Ahead(p, {c}) /\ ~Ahead(q, {c})
  BY <1>2 DEF Ahead
<1> DEFINE ps == p \o s
<1>4. ps \in Seq(S)
  OBVIOUS
<1>5. Ahead(ps, {c}) <=> Ahead(p, {c}) \/ Ahead(s, {c})
  BY AheadInBoth
<1>6. /\ NoneBefore(s, E, c) => NoneBefore(ps, E, c)
      /\ Preceded(s, d, c) => Preceded(ps, d, c)
  BY <1>3, BeforeInBoth
<1> HIDE DEF ps
<1>7. Ahead(ps \o q, {c}) <=> Ahead(ps, {c}) \/ Ahead(q, {c})
  BY <1>4, AheadInBoth
<1>8. /\ NoneBefore(ps, E, c) => NoneBefore(ps \o q, E, c)
      /\ Preceded(ps, d, c) => Preceded(ps \o q, d, c)
  BY <1>3, <1>4, BeforeInBoth
<1>9. w = ps \o q
  BY <1>2 DEF ps
<1> QED BY <1>3, <1>5, <1>6, <1>7, <1>8, <1>9

\* Each rule is added once, and none a basis has.
LEMMA RulesOnce ==
    ASSUME NEW b, NEW n, Proper(n), NEW f0 \in Families, NEW t0 \in 1..LaneCount(n)
    PROVE  LET steps == PerLaneFamily(LaneCount(n), LAMBDA f, t : NewRules(b, f, t))
               add == AddRule(f0, t0)
           IN  /\ NoneBefore(steps, {add}, add)
               /\ HasTable(b, t0) => ~Ahead(steps, {add})
<1> DEFINE S == {AddRule(ft[1], ft[2]) : ft \in LaneFamilies(n)}
           N == LaneCount(n)
           add == AddRule(f0, t0)
           F == [x \in Families \X (1..N) |-> NewRules(b, x[1], x[2])]
           flat == FlattenSeq([i \in 1..(2 * N) |-> F[<<VisitedFamily(i), VisitedTable(i)>>]])
<1>0. N \in Nat
  BY DEF Proper
<1>1. \A f \in Families, t \in 1..N : F[<<f, t>>] = NewRules(b, f, t)
  OBVIOUS
<1>2. \A i \in 1..(2 * N) : F[<<VisitedFamily(i), VisitedTable(i)>>]
                              = NewRules(b, VisitedFamily(i), VisitedTable(i))
  BY <1>0, RemovalStep
<1> HIDE DEF F
<1>3. PerLaneFamily(N, LAMBDA f, t : NewRules(b, f, t)) = flat
  <2> HIDE DEF N
  <2>1. [i \in 1..(2 * N) |-> F[<<VisitedFamily(i), VisitedTable(i)>>]]
          = [i \in 1..(2 * N) |-> NewRules(b, VisitedFamily(i), VisitedTable(i))]
    BY <1>2
  <2> QED BY <2>1 DEF PerLaneFamily
<1>4. ASSUME NEW f \in Families, NEW t \in 1..N
      PROVE  /\ F[<<f, t>>] \in Seq(S)
             /\ <<f, t>> # <<f0, t0>> => ~Ahead(F[<<f, t>>], {add})
  <2>1. <<f, t>> \in LaneFamilies(n)
    BY DEF LaneFamilies
  <2>2. \A ft \in LaneFamilies(n) : AddRule(ft[1], ft[2]) \in S
    OBVIOUS
  <2>3. AddRule(f, t) \in S
    BY <2>1, <2>2
  <2> HIDE DEF S
  <2>4. <<AddRule(f, t)>> \in Seq(S) /\ <<>> \in Seq(S)
    BY <2>3
  <2>5. ASSUME <<f, t>> # <<f0, t0>> PROVE AddRule(f, t) # add
    <3>1. /\ AddRule(f, t).rule.fam = f /\ AddRule(f, t).rule.tab = t
          /\ add.rule.fam = f0 /\ add.rule.tab = t0
      BY DEF AddRule, Rule
    <3> HIDE DEF add
    <3> QED BY <2>5, <3>1
  <2> HIDE DEF add
  <2>6. ASSUME <<f, t>> # <<f0, t0>> PROVE ~Ahead(<<AddRule(f, t)>>, {add}) /\ ~Ahead(<<>>, {add})
    <3>1. ~Ahead(<<AddRule(f, t)>>, {add})
      BY <2>5, <2>6, OneAhead
    <3> QED BY <3>1 DEF Ahead
  <2> QED BY <1>1, <2>4, <2>6 DEF NewRules
<1>5. F[<<f0, t0>>] = NewRules(b, f0, t0)
  BY <1>1
<1> HIDE DEF S, N, add, flat
<1>6. Around(S, flat, F[<<f0, t0>>], {add})
  <2>1. Around(S, FlattenSeq([i \in 1..(2 * N) |-> F[<<VisitedFamily(i), VisitedTable(i)>>]]),
               F[<<f0, t0>>], {add})
    <3>1. t0 \in 1..N
      BY DEF N
    <3>2. \A f \in Families : \A t \in 1..N : F[<<f, t>>] \in Seq(S)
      BY <1>4
    <3>3. \A f \in Families : \A t \in 1..N : <<f, t>> # <<f0, t0>> => ~Ahead(F[<<f, t>>], {add})
      BY <1>4
    <3> QED BY <1>0, <3>1, <3>2, <3>3, PerLaneAround
  <2> QED BY <2>1 DEF flat
<1>7. Around(S, flat, F[<<f0, t0>>], {add} \cup {add}) /\ F[<<f0, t0>>] \in Seq(S)
  <2>1. {add} \cup {add} = {add}
    OBVIOUS
  <2> QED BY <1>4, <1>6, <2>1 DEF N
<1>8. /\ NoneBefore(F[<<f0, t0>>], {add}, add)
      /\ HasTable(b, t0) => ~Ahead(F[<<f0, t0>>], {add})
  <2>1. NoneBefore(<<add>>, {add}, add) /\ NoneBefore(<<>>, {add}, add) /\ ~Ahead(<<>>, {add})
    BY DEF NoneBefore, Ahead
  <2>2. F[<<f0, t0>>] = IF HasTable(b, t0) THEN <<>> ELSE <<add>>
    BY <1>5 DEF NewRules, add
  <2> QED BY <2>1, <2>2
<1>9. /\ Ahead(flat, {add}) <=> Ahead(F[<<f0, t0>>], {add})
      /\ NoneBefore(F[<<f0, t0>>], {add}, add) => NoneBefore(flat, {add}, add)
  <2> DEFINE s == F[<<f0, t0>>]
             E == {add}
  <2>1. Around(S, flat, s, E \cup {add}) /\ s \in Seq(S)
    BY <1>7
  <2> HIDE DEF s, E
  <2>2. /\ Ahead(flat, {add}) <=> Ahead(s, {add})
        /\ NoneBefore(s, E, add) => NoneBefore(flat, E, add)
    BY <2>1, AroundKeeps, Zenon
  <2> QED BY <2>2 DEF s, E
<1> QED BY <1>3, <1>8, <1>9 DEF N, add

\* Lists in a row, by index.
LEMMA Joined ==
    ASSUME NEW S, NEW s \in Seq(S), NEW t \in Seq(S)
    PROVE  /\ s \o t \in Seq(S) /\ Len(s \o t) = Len(s) + Len(t)
           /\ \A i \in 1..Len(s) : (s \o t)[i] = s[i]
           /\ \A i \in 1..Len(t) : (s \o t)[Len(s) + i] = t[i]
OBVIOUS

\* Short lists, written out.
LEMMA ShortLists ==
    ASSUME NEW c, NEW d, NEW e
    PROVE  /\ LET w == <<d>> \o <<c>> \o <<e>>
              IN  Len(w) = 3 /\ w[1] = d /\ w[2] = c /\ w[3] = e
           /\ LET w == <<>> \o <<c>> \o <<e>> IN Len(w) = 2 /\ w[1] = c /\ w[2] = e
<1> DEFINE S == {c, d, e}
           C == <<c>>
           D == <<d>>
           E == <<e>>
           N == <<>>
<1>1. /\ C \in Seq(S) /\ D \in Seq(S) /\ E \in Seq(S) /\ N \in Seq(S)
      /\ Len(C) = 1 /\ Len(D) = 1 /\ Len(E) = 1 /\ Len(N) = 0
      /\ C[1] = c /\ D[1] = d /\ E[1] = e
  OBVIOUS
<1> HIDE DEF S, C, D, E, N
<1>2. 1 \in 1..1 /\ 1 \in 1..2 /\ 2 \in 1..2 /\ 0 + 1 = 1 /\ 1 + 1 = 2 /\ 2 + 1 = 3
  OBVIOUS
<1> DEFINE P == D \o C
           Q == N \o C
<1>3. /\ P \in Seq(S) /\ Len(P) = 2 /\ P[1] = d /\ P[2] = c
  <2>1. /\ P \in Seq(S) /\ Len(P) = 1 + 1 /\ \A i \in 1..1 : P[i] = D[i]
        /\ \A i \in 1..1 : P[1 + i] = C[i]
    BY <1>1, Joined
  <2> QED BY <1>1, <1>2, <2>1
<1>4. Q \in Seq(S) /\ Len(Q) = 1 /\ Q[1] = c
  <2>1. /\ Q \in Seq(S) /\ Len(Q) = 0 + 1 /\ \A i \in 1..1 : Q[0 + i] = C[i]
    BY <1>1, Joined
  <2> QED BY <1>1, <1>2, <2>1
<1> HIDE DEF P, Q
<1>5. Len(P \o E) = 3 /\ (P \o E)[1] = d /\ (P \o E)[2] = c /\ (P \o E)[3] = e
  <2>0. P \in Seq(S) /\ E \in Seq(S)
    BY <1>1, <1>3
  <2>2. /\ Len(P \o E) = Len(P) + Len(E) /\ \A i \in 1..Len(P) : (P \o E)[i] = P[i]
        /\ \A i \in 1..Len(E) : (P \o E)[Len(P) + i] = E[i]
    BY <2>0, Joined
  <2>1. /\ Len(P \o E) = 2 + 1 /\ \A i \in 1..2 : (P \o E)[i] = P[i]
        /\ \A i \in 1..1 : (P \o E)[2 + i] = E[i]
    BY <1>1, <1>3, <2>2, Zenon
  <2> QED BY <1>1, <1>2, <1>3, <2>1
<1>6. Len(Q \o E) = 2 /\ (Q \o E)[1] = c /\ (Q \o E)[2] = e
  <2>1. /\ Len(Q \o E) = 1 + 1 /\ \A i \in 1..1 : (Q \o E)[i] = Q[i]
        /\ \A i \in 1..1 : (Q \o E)[1 + i] = E[i]
    BY <1>1, <1>4, Joined
  <2> QED BY <1>1, <1>2, <1>4, <2>1
<1> QED BY <1>5, <1>6 DEF P, Q, C, D, E, N

\* A gateway of one lane enters before the lane's terminal is replaced, and after
\* the terminal is lifted if there was one.
LEMMA CellAsks ==
    ASSUME NEW b, NEW n, Proper(n), NEW t \in 1..LaneCount(n),
           HasUnicast(n, 6, t), n.lanes[t].via[6] = "gateway", ~HasUnicast(b, 6, t)
    PROVE  LET steps == TransitionRoutes(b, n, 6, t)
               c == ReplaceRoute(Unicast(n, 6, t))
           IN  /\ NoneBefore(steps, {ReplaceRoute(Terminal(6, t))}, c)
               /\ HasTable(b, t) => Preceded(steps, DeleteRoute(Terminal(6, t)), c)
<1> DEFINE T == Terminal(6, t)
           c == ReplaceRoute(Unicast(n, 6, t))
           d == DeleteRoute(T)
           e == ReplaceRoute(T)
<1>1. c # e /\ c # d /\ d # e
  <2>1. 6 \in Families
    BY DEF Families
  <2>2. <<6, t>> \in LaneFamilies(n)
    BY <2>1, OwnMembers
  <2>3. ~IsTerminal(Unicast(n, 6, t)) /\ IsTerminal(T)
    BY <2>2 DEF Proper, Terminal, IsTerminal
  <2>4. c.route = Unicast(n, 6, t) /\ e.route = T /\ c.op = "replace" /\ e.op = "replace" /\ d.op = "delete"
    BY DEF ReplaceRoute, DeleteRoute
  <2> HIDE DEF T, c, d, e
  <2> QED BY <2>3, <2>4
<1>2. CASE HasTable(b, t)
  <2>1. TransitionRoutes(b, n, 6, t) = <<d>> \o <<c>> \o <<e>>
    BY <1>2 DEF TransitionRoutes, GatewayNeedsOpenTable
  <2> HIDE DEF c, d, e
  <2> DEFINE w == <<d>> \o <<c>> \o <<e>>
  <2>3. Len(w) = 3 /\ w[1] = d /\ w[2] = c /\ w[3] = e
    BY ShortLists
  <2> HIDE DEF w
  <2>4. \A i \in 1..Len(w) : w[i] = c => i = 2
    BY <1>1, <2>3
  <2>5. \A j \in 1..(2 - 1) : j = 1
    OBVIOUS
  <2>6. NoneBefore(w, {e}, c)
    BY <1>1, <2>3, <2>4, <2>5 DEF NoneBefore
  <2>7. 1 \in 1..(2 - 1)
    OBVIOUS
  <2>8. Preceded(w, d, c)
    BY <2>3, <2>4, <2>7 DEF Preceded
  <2> QED BY <2>1, <2>6, <2>8 DEF c, d, e, w
<1>3. CASE ~HasTable(b, t)
  <2>1. TransitionRoutes(b, n, 6, t) = <<>> \o <<c>> \o <<e>>
    BY <1>3 DEF TransitionRoutes, GatewayNeedsOpenTable
  <2> HIDE DEF c, d, e
  <2> DEFINE w == <<>> \o <<c>> \o <<e>>
  <2>3. Len(w) = 2 /\ w[1] = c /\ w[2] = e
    BY ShortLists
  <2> HIDE DEF w
  <2>4. \A i \in 1..Len(w) : w[i] = c => i = 1
    BY <1>1, <2>3
  <2>5. NoneBefore(w, {e}, c)
    BY <2>4 DEF NoneBefore
  <2> QED BY <1>3, <2>1, <2>5 DEF c, e, w
<1> QED BY <1>2, <1>3

\* The steps for the routes of one lane and family.
LEMMA CellSteps ==
    ASSUME NEW b, NEW n, NEW f, NEW t
    PROVE  TransitionRoutes(b, n, f, t) \in
             Seq({DeleteRoute(Terminal(f, t)), ReplaceRoute(Unicast(n, f, t)), ReplaceRoute(Terminal(f, t))})
<1> DEFINE T == Terminal(f, t)
           U == Unicast(n, f, t)
           S == {DeleteRoute(T), ReplaceRoute(U), ReplaceRoute(T)}
           k == IF GatewayNeedsOpenTable(b, n, f, t) THEN <<DeleteRoute(T)>> ELSE <<>>
           l == IF HasUnicast(n, f, t) THEN <<ReplaceRoute(U)>> ELSE <<>>
           m == <<ReplaceRoute(T)>>
<1>1. TransitionRoutes(b, n, f, t) = k \o l \o m
  BY DEF TransitionRoutes
<1>2. k \in Seq(S) /\ l \in Seq(S) /\ m \in Seq(S)
  <2>1. DeleteRoute(T) \in S /\ ReplaceRoute(U) \in S /\ ReplaceRoute(T) \in S
    OBVIOUS
  <2> HIDE DEF S
  <2> QED BY <2>1
<1> HIDE DEF S, k, l, m
<1>3. k \o l \o m \in Seq(S)
  BY <1>2
<1> QED BY <1>1, <1>3 DEF S

\* The steps of another lane or family have nothing to do with it.
LEMMA CellsDiffer ==
    ASSUME NEW b, NEW n, NEW f, NEW t, NEW t0, f # 6 \/ t # t0
    PROVE  ~Ahead(TransitionRoutes(b, n, f, t),
                  {ReplaceRoute(Terminal(6, t0)), ReplaceRoute(Unicast(n, 6, t0))})
<1> DEFINE T == Terminal(f, t)
           U == Unicast(n, f, t)
           B == {ReplaceRoute(Terminal(6, t0)), ReplaceRoute(Unicast(n, 6, t0))}
           S == {DeleteRoute(T), ReplaceRoute(U), ReplaceRoute(T)}
           steps == TransitionRoutes(b, n, f, t)
<1>1. steps \in Seq(S)
  BY CellSteps
<1>2. T.fam = f /\ T.tab = t /\ U.fam = f /\ U.tab = t
  BY DEF Terminal, Unicast
<1>3. \A e \in B : e.op = "replace" /\ e.route.fam = 6 /\ e.route.tab = t0
  <2>1. /\ Terminal(6, t0).fam = 6 /\ Terminal(6, t0).tab = t0
        /\ Unicast(n, 6, t0).fam = 6 /\ Unicast(n, 6, t0).tab = t0
    BY DEF Terminal, Unicast
  <2>2. \A r : ReplaceRoute(r).op = "replace" /\ ReplaceRoute(r).route = r
    BY DEF ReplaceRoute
  <2> QED BY <2>1, <2>2
<1>4. /\ DeleteRoute(T).op = "delete"
      /\ ReplaceRoute(T).route = T /\ ReplaceRoute(U).route = U
  BY DEF DeleteRoute, ReplaceRoute
<1> HIDE DEF T, U, B
<1>5. S \cap B = {}
  BY <1>2, <1>3, <1>4
<1> HIDE DEF S, steps
<1>6. ~Ahead(steps, B)
  BY <1>1, <1>5, NotAhead
<1> QED BY <1>6 DEF B, steps

\* A gateway among the steps for all routes.
LEMMA RoutesPreceded ==
    ASSUME NEW b, NEW n, Proper(n), NEW t0 \in 1..LaneCount(n),
           HasUnicast(n, 6, t0), n.lanes[t0].via[6] = "gateway", ~HasUnicast(b, 6, t0)
    PROVE  LET steps == PerLaneFamily(LaneCount(n), LAMBDA f, t : TransitionRoutes(b, n, f, t))
               c == ReplaceRoute(Unicast(n, 6, t0))
           IN  /\ NoneBefore(steps, {ReplaceRoute(Terminal(6, t0))}, c)
               /\ HasTable(b, t0) => Preceded(steps, DeleteRoute(Terminal(6, t0)), c)
<1> DEFINE S == WalkSteps(b, n)
           N == LaneCount(n)
           c == ReplaceRoute(Unicast(n, 6, t0))
           d == DeleteRoute(Terminal(6, t0))
           E == {ReplaceRoute(Terminal(6, t0))}
           F == [x \in Families \X (1..N) |-> TransitionRoutes(b, n, x[1], x[2])]
           flat == FlattenSeq([i \in 1..(2 * N) |-> F[<<VisitedFamily(i), VisitedTable(i)>>]])
<1>0. N \in Nat /\ 6 \in Families
  BY DEF Proper, Families
<1>1. \A f \in Families, t \in 1..N : F[<<f, t>>] = TransitionRoutes(b, n, f, t)
  OBVIOUS
<1>2. \A i \in 1..(2 * N) : F[<<VisitedFamily(i), VisitedTable(i)>>]
                              = TransitionRoutes(b, n, VisitedFamily(i), VisitedTable(i))
  BY <1>0, RemovalStep
<1> HIDE DEF F, N
<1>3. PerLaneFamily(N, LAMBDA f, t : TransitionRoutes(b, n, f, t)) = flat
  <2>1. [i \in 1..(2 * N) |-> F[<<VisitedFamily(i), VisitedTable(i)>>]]
          = [i \in 1..(2 * N) |-> TransitionRoutes(b, n, VisitedFamily(i), VisitedTable(i))]
    BY <1>2
  <2> QED BY <2>1 DEF PerLaneFamily
<1>4. \A f \in Families : \A t \in 1..N : F[<<f, t>>] \in Seq(S)
  BY <1>1, CellRoutes DEF N
<1>5. ASSUME NEW f \in Families, NEW t \in 1..N, <<f, t>> # <<6, t0>>
      PROVE  ~Ahead(F[<<f, t>>], E \cup {c})
  <2>1. f # 6 \/ t # t0
    BY <1>5
  <2>2. E \cup {c} = {ReplaceRoute(Terminal(6, t0)), ReplaceRoute(Unicast(n, 6, t0))}
    OBVIOUS
  <2> QED BY <1>1, <2>1, <2>2, CellsDiffer
<1> DEFINE s == F[<<6, t0>>]
<1>6. t0 \in 1..N /\ s \in Seq(S) /\ s = TransitionRoutes(b, n, 6, t0)
  BY <1>0, <1>1, <1>4 DEF N
<1>7. NoneBefore(s, E, c) /\ (HasTable(b, t0) => Preceded(s, d, c))
  BY <1>6, CellAsks
<1> HIDE DEF S, E, c, d
<1>8. Around(S, FlattenSeq([i \in 1..(2 * N) |-> F[<<VisitedFamily(i), VisitedTable(i)>>]]),
             F[<<6, t0>>], E \cup {c})
  BY <1>0, <1>4, <1>5, <1>6, PerLaneAround
<1>9. Around(S, flat, s, E \cup {c})
  BY <1>8
<1> HIDE DEF flat, s
<1>10. /\ NoneBefore(s, E, c) => NoneBefore(flat, E, c)
       /\ Preceded(s, d, c) => Preceded(flat, d, c)
  BY <1>6, <1>9, AroundKeeps
<1> QED BY <1>3, <1>7, <1>10 DEF N, E, c, d

\* The steps for all routes add no rule.
LEMMA RoutesAddNone ==
    ASSUME NEW b, NEW n, Proper(n)
    PROVE  LET steps == PerLaneFamily(LaneCount(n), LAMBDA f, t : TransitionRoutes(b, n, f, t))
           IN  steps \in Seq({e \in WalkSteps(b, n) : e.op # "addrule"})
<1> DEFINE S == WalkSteps(b, n)
           A == {e \in S : e.op # "addrule"}
           N == LaneCount(n)
           F == [x \in Families \X (1..N) |-> TransitionRoutes(b, n, x[1], x[2])]
           flat == FlattenSeq([i \in 1..(2 * N) |-> F[<<VisitedFamily(i), VisitedTable(i)>>]])
<1>0. N \in Nat
  BY DEF Proper
<1>1. \A f \in Families, t \in 1..N : F[<<f, t>>] = TransitionRoutes(b, n, f, t)
  OBVIOUS
<1>2. \A i \in 1..(2 * N) : F[<<VisitedFamily(i), VisitedTable(i)>>]
                              = TransitionRoutes(b, n, VisitedFamily(i), VisitedTable(i))
  BY <1>0, RemovalStep
<1> HIDE DEF F, N
<1>3. PerLaneFamily(N, LAMBDA f, t : TransitionRoutes(b, n, f, t)) = flat
  <2>1. [i \in 1..(2 * N) |-> F[<<VisitedFamily(i), VisitedTable(i)>>]]
          = [i \in 1..(2 * N) |-> TransitionRoutes(b, n, VisitedFamily(i), VisitedTable(i))]
    BY <1>2
  <2> QED BY <2>1 DEF PerLaneFamily
<1>4. ASSUME NEW f \in Families, NEW t \in 1..N
      PROVE  F[<<f, t>>] \in Seq(A)
  <2> DEFINE B == {DeleteRoute(Terminal(f, t)), ReplaceRoute(Unicast(n, f, t)), ReplaceRoute(Terminal(f, t))}
             s == F[<<f, t>>]
  <2>1. s \in Seq(S) /\ s \in Seq(B)
    <3>1. s = TransitionRoutes(b, n, f, t) /\ t \in 1..LaneCount(n)
      BY <1>1 DEF N
    <3>2. TransitionRoutes(b, n, f, t) \in Seq(S)
      BY <3>1, CellRoutes
    <3>3. TransitionRoutes(b, n, f, t) \in Seq(B)
      BY CellSteps
    <3> QED BY <3>1, <3>2, <3>3
  <2>2. \A e \in B : e.op # "addrule"
    BY DEF DeleteRoute, ReplaceRoute
  <2> HIDE DEF S, B, s
  <2>3. \A i \in 1..Len(s) : s[i] \in S /\ s[i] \in B
    BY <2>1
  <2>4. \A i \in 1..Len(s) : s[i] \in A
    BY <2>2, <2>3
  <2> HIDE DEF A
  <2>5. s \in Seq(A)
    BY <2>1, <2>4
  <2> QED BY <2>5 DEF s
<1> HIDE DEF S, A
<1>5. flat \in Seq(A)
  BY <1>0, <1>4, PerLaneFamilyAre
<1> QED BY <1>3, <1>5 DEF S, A, N

\* The steps of an update are acceptable to what the basis owns.
LEMMA WalkAcceptable ==
    ASSUME NEW b, NEW n, Proper(b), Proper(n), NEW R, Retires(b, n, R)
    PROVE  Acceptable(n, TransitionSteps(b, n) \o R, Own(b))
<1> DEFINE S == WalkSteps(b, n)
           N == LaneCount(n)
           A == {e \in S : e.op # "addrule"}
           C == {AddRule(ft[1], ft[2]) : ft \in LaneFamilies(n)}
           x == Own(b)
           u == FlattenSeq([i \in 1..(2 * N) |-> TransitionRoutes(b, n, VisitedFamily(i), VisitedTable(i))])
           v == FlattenSeq([i \in 1..(2 * N) |-> NewRules(b, VisitedFamily(i), VisitedTable(i))])
<1>1. u \in Seq(S) /\ u \in Seq(A)
  BY RoutesAhead, RoutesAddNone DEF PerLaneFamily
<1>2. v \in Seq(C) /\ v \in Seq(S)
  <2>1. v \in Seq(C)
    BY RulesAhead DEF PerLaneFamily
  <2>2. C \subseteq S
    BY WalkStepsHave
  <2> HIDE DEF C, S, v
  <2> QED BY <2>1, <2>2
<1>3. TransitionSteps(b, n) = u \o v
  BY DEF TransitionSteps, PerLaneFamily
<1>4. /\ R \in Seq(S)
      /\ \A r : ~Ahead(R, {ReplaceRoute(r)})
      /\ \A f, t : ~Ahead(R, {AddRule(f, t)})
  BY DEF Retires
<1>5. \A f, t : ~Ahead(u, {AddRule(f, t)})
  <2> TAKE f, t
  <2>1. AddRule(f, t).op = "addrule"
    BY DEF AddRule
  <2>2. A \cap {AddRule(f, t)} = {}
    BY <2>1
  <2> HIDE DEF A, u
  <2> QED BY <1>1, <2>2, NotAhead
<1>6. \A r : ~Ahead(v, {ReplaceRoute(r)})
  <2> TAKE r
  <2>1. ReplaceRoute(r).op = "replace" /\ \A ft : AddRule(ft[1], ft[2]).op = "addrule"
    BY DEF ReplaceRoute, AddRule
  <2>2. C \cap {ReplaceRoute(r)} = {}
    BY <2>1
  <2> HIDE DEF C, v
  <2> QED BY <1>2, <2>2, NotAhead
<1>7. \A ft \in LaneFamilies(n) : LET add == AddRule(ft[1], ft[2])
                                  IN  /\ NoneBefore(v, {add}, add)
                                      /\ HasTable(b, ft[2]) => ~Ahead(v, {add})
  <2> TAKE ft \in LaneFamilies(n)
  <2>1. ft[1] \in Families /\ ft[2] \in 1..LaneCount(n)
    BY DEF LaneFamilies
  <2> QED BY <2>1, RulesOnce DEF PerLaneFamily
<1>8. \A t \in 1..N : HasUnicast(n, 6, t) /\ n.lanes[t].via[6] = "gateway" /\ ~HasUnicast(b, 6, t) =>
        LET c == ReplaceRoute(Unicast(n, 6, t))
        IN  /\ NoneBefore(u, {ReplaceRoute(Terminal(6, t))}, c)
            /\ HasTable(b, t) => Preceded(u, DeleteRoute(Terminal(6, t)), c)
  BY RoutesPreceded DEF PerLaneFamily
<1> HIDE DEF S, A, C, u, v
<1> DEFINE T == u \o v
<1>9. T \in Seq(S)
  BY <1>1, <1>2
<1>10. \A B : /\ Ahead(T, B) <=> Ahead(u, B) \/ Ahead(v, B)
              /\ Ahead(T \o R, B) <=> Ahead(T, B) \/ Ahead(R, B)
  <2> TAKE B
  <2>1. Ahead(T, B) <=> Ahead(u, B) \/ Ahead(v, B)
    BY <1>1, <1>2, AheadInBoth
  <2> HIDE DEF T
  <2>2. Ahead(T \o R, B) <=> Ahead(T, B) \/ Ahead(R, B)
    BY <1>4, <1>9, AheadInBoth
  <2> QED BY <2>1, <2>2
<1>11. ASSUME NEW ft \in LaneFamilies(n)
       PROVE  LET add == AddRule(ft[1], ft[2])
              IN  /\ NoneBefore(T \o R, {add}, add)
                  /\ Rule(ft[1], ft[2]) \in x.rules => ~Ahead(T \o R, {add})
  <2> DEFINE add == AddRule(ft[1], ft[2])
  <2>1. ~Ahead(u, {add}) /\ ~Ahead(R, {add})
    BY <1>4, <1>5
  <2>2. NoneBefore(v, {add}, add) /\ (HasTable(b, ft[2]) => ~Ahead(v, {add}))
    BY <1>7
  <2>3. Rule(ft[1], ft[2]) \in x.rules => HasTable(b, ft[2])
    <3> SUFFICES ASSUME Rule(ft[1], ft[2]) \in x.rules PROVE HasTable(b, ft[2])
      OBVIOUS
    <3>1. PICK gu \in LaneFamilies(b) : Rule(ft[1], ft[2]) = Rule(gu[1], gu[2])
      BY OwnRules
    <3>2. Rule(ft[1], ft[2]).tab = ft[2] /\ Rule(gu[1], gu[2]).tab = gu[2]
      BY DEF Rule
    <3> QED BY <3>1, <3>2 DEF LaneFamilies, HasTable
  <2> HIDE DEF add, x
  <2>4. NoneBefore(T, {add}, add)
    BY <1>1, <1>2, <2>1, <2>2, BeforeInBoth
  <2> HIDE DEF T
  <2>5. NoneBefore(T \o R, {add}, add)
    BY <1>4, <1>9, <2>1, <2>4, BeforeInBoth
  <2>6. ~Ahead(v, {add}) => ~Ahead(T \o R, {add})
    BY <1>10, <2>1
  <2> QED BY <2>2, <2>3, <2>5, <2>6 DEF add
<1>12. ASSUME NEW t \in 1..N, HasUnicast(n, 6, t), n.lanes[t].via[6] = "gateway"
       PROVE  Admissible(T \o R, x, n, t)
  <2> DEFINE c == ReplaceRoute(Unicast(n, 6, t))
             d == DeleteRoute(Terminal(6, t))
             E == {ReplaceRoute(Terminal(6, t))}
  <2>1. CASE HasUnicast(b, 6, t)
    <3>1. t \in 1..LaneCount(b) /\ 6 \in Families
      BY <2>1 DEF HasUnicast, HasTable, Families
    <3>2. <<6, t>> \in LaneFamilies(b) /\ Unicast(b, 6, t) \in x.routes
      BY <2>1, <3>1, OwnMembers
    <3>3. ~IsTerminal(Unicast(b, 6, t))
      BY <2>1, <3>2 DEF Proper
    <3>4. Unicast(b, 6, t).fam = 6 /\ Unicast(b, 6, t).tab = t
      BY DEF Unicast
    <3>5. HasDefault(x, t)
      BY <3>2, <3>3, <3>4 DEF HasDefault
    <3> QED BY <3>5 DEF Admissible
  <2>2. CASE ~HasUnicast(b, 6, t)
    <3>1. NoneBefore(u, E, c) /\ (HasTable(b, t) => Preceded(u, d, c))
      BY <1>8, <1>12, <2>2
    <3>2. Terminal(6, t) \in x.routes => HasTable(b, t)
      <4> SUFFICES ASSUME Terminal(6, t) \in x.routes PROVE HasTable(b, t)
        OBVIOUS
      <4>1. Terminal(6, t).fam = 6 /\ Terminal(6, t).tab = t
        BY DEF Terminal
      <4>2. <<6, t>> \in LaneFamilies(b)
        BY <4>1, OwnCell
      <4> QED BY <4>2 DEF LaneFamilies, HasTable
    <3>3. ~Ahead(v, {c}) /\ ~Ahead(R, {c})
      BY <1>4, <1>6
    <3> HIDE DEF c, d, E, x
    <3>4. NoneBefore(T, E, c) /\ (Preceded(u, d, c) => Preceded(T, d, c))
      BY <1>1, <1>2, <3>1, <3>3, BeforeInBoth
    <3> HIDE DEF T
    <3>5. NoneBefore(T \o R, E, c) /\ (Preceded(T, d, c) => Preceded(T \o R, d, c))
      BY <1>4, <1>9, <3>3, <3>4, BeforeInBoth
    <3> QED BY <3>1, <3>2, <3>4, <3>5 DEF Admissible, c, d, E
  <2> QED BY <2>1, <2>2
<1> HIDE DEF x
<1>13. Acceptable(n, T \o R, x)
  BY <1>11, <1>12 DEF Acceptable, N
<1> QED BY <1>3, <1>13 DEF x
-----------------------------------------------------------------------------
(* A list of steps, by the states along it *)
\* What is left of a list of commands when the first k were run.
LeftOf(s, k) == SubSeq(s, k + 1, Len(s))

\* The next command is the next of the list, and then one less is left.
LEMMA LeftGoesOn ==
    ASSUME NEW S, NEW s \in Seq(S), NEW k \in 0..Len(s)
    PROVE  /\ LeftOf(s, k) \in Seq(S)
           /\ LeftOf(s, 0) = s
           /\ LeftOf(s, k) = <<>> <=> k = Len(s)
           /\ \A i \in 1..(Len(s) - k) : LeftOf(s, k)[i] = s[k + i]
           /\ Len(LeftOf(s, k)) = Len(s) - k
           /\ k # Len(s) =>
                /\ Head(LeftOf(s, k)) = s[k + 1] /\ k + 1 \in 1..Len(s)
                /\ Tail(LeftOf(s, k)) = LeftOf(s, k + 1)
<1>1. /\ LeftOf(s, k) \in Seq(S) /\ Len(LeftOf(s, k)) = Len(s) - k
      /\ \A i \in 1..(Len(s) - k) : LeftOf(s, k)[i] = s[k + i]
  BY DEF LeftOf
<1>2. LeftOf(s, 0) = s
  BY DEF LeftOf
<1>3. LeftOf(s, k) = <<>> <=> k = Len(s)
  BY <1>1
<1>4. ASSUME k # Len(s)
      PROVE  Head(LeftOf(s, k)) = s[k + 1] /\ k + 1 \in 1..Len(s)
  BY <1>1, <1>4
<1>5. ASSUME k # Len(s)
      PROVE  Tail(LeftOf(s, k)) = LeftOf(s, k + 1)
  BY <1>1, <1>5 DEF LeftOf
<1> QED BY <1>1, <1>2, <1>3, <1>4, <1>5

\* The states after each number of steps.
LEMMA StatesStep ==
    ASSUME NEW live, NEW steps, Len(steps) \in Nat
    PROVE  /\ StatesAfter(live, steps)[0] = live
           /\ \A k \in 1..Len(steps) :
                StatesAfter(live, steps)[k] = ApplyRoutingStep(StatesAfter(live, steps)[k - 1], steps[k])
<1> DEFINE after == StatesAfter(live, steps)
<1>1. after = [i \in 0..Len(steps) |-> IF i = 0 THEN live ELSE ApplyRoutingStep(after[i - 1], steps[i])]
  BY StatesFollow
<1> HIDE DEF after
<1> QED BY <1>1 DEF after

\* The states of two lists in a row are those of the first, and then those of the
\* second from where the first ends.
LEMMA StatesJoin ==
    ASSUME NEW live, NEW S, NEW s \in Seq(S), NEW t \in Seq(S)
    PROVE  /\ \A k \in 0..Len(s) : StatesAfter(live, s \o t)[k] = StatesAfter(live, s)[k]
           /\ \A k \in 0..Len(t) :
                StatesAfter(live, s \o t)[Len(s) + k] = StatesAfter(StateAfter(live, s), t)[k]
<1> DEFINE w == s \o t
           both == StatesAfter(live, w)
           one == StatesAfter(live, s)
           end == StateAfter(live, s)
           two == StatesAfter(end, t)
           A == {k \in Nat : k <= Len(s) => both[k] = one[k]}
           B == {k \in Nat : k <= Len(t) => both[Len(s) + k] = two[k]}
<1>1. /\ w \in Seq(S) /\ Len(s) \in Nat /\ Len(t) \in Nat /\ Len(w) \in Nat /\ Len(w) = Len(s) + Len(t)
      /\ \A i \in 1..Len(s) : w[i] = s[i]
      /\ \A i \in 1..Len(t) : w[Len(s) + i] = t[i]
  BY Joined
<1> HIDE DEF w
<1>2. /\ both[0] = live
      /\ \A k \in 1..Len(w) : both[k] = ApplyRoutingStep(both[k - 1], w[k])
  BY <1>1, StatesStep
<1>3. /\ one[0] = live
      /\ \A k \in 1..Len(s) : one[k] = ApplyRoutingStep(one[k - 1], s[k])
  BY <1>1, StatesStep
<1>4. /\ two[0] = end
      /\ \A k \in 1..Len(t) : two[k] = ApplyRoutingStep(two[k - 1], t[k])
  BY <1>1, StatesStep
<1>5. end = one[Len(s)]
  BY DEF StateAfter
<1> HIDE DEF both, one, two, end
<1>6. 0 \in A
  BY <1>2, <1>3
<1>7. ASSUME NEW k \in A PROVE k + 1 \in A
  <2> SUFFICES ASSUME k + 1 <= Len(s) PROVE both[k + 1] = one[k + 1]
    OBVIOUS
  <2>1. k + 1 \in 1..Len(s) /\ k + 1 \in 1..Len(w) /\ both[k] = one[k] /\ (k + 1) - 1 = k
    BY <1>1
  <2> QED BY <1>1, <1>2, <1>3, <2>1
<1>8. \A k \in Nat : k \in A
  <2>1. A \in SUBSET Nat
    OBVIOUS
  <2> HIDE DEF A
  <2> QED BY <1>6, <1>7, <2>1, SetInduction
<1>9. 0 \in B
  BY <1>1, <1>4, <1>5, <1>8
<1>10. ASSUME NEW k \in B PROVE k + 1 \in B
  <2> SUFFICES ASSUME k + 1 <= Len(t) PROVE both[Len(s) + (k + 1)] = two[k + 1]
    OBVIOUS
  <2>1. /\ k + 1 \in 1..Len(t) /\ Len(s) + (k + 1) \in 1..Len(w) /\ both[Len(s) + k] = two[k]
        /\ (k + 1) - 1 = k /\ (Len(s) + (k + 1)) - 1 = Len(s) + k
    BY <1>1
  <2>2. both[Len(s) + (k + 1)] = ApplyRoutingStep(both[Len(s) + k], w[Len(s) + (k + 1)])
    BY <1>2, <2>1
  <2>3. two[k + 1] = ApplyRoutingStep(two[k], t[k + 1])
    BY <1>4, <2>1
  <2> QED BY <1>1, <2>1, <2>2, <2>3
<1>11. \A k \in Nat : k \in B
  <2>1. B \in SUBSET Nat
    OBVIOUS
  <2> HIDE DEF B
  <2> QED BY <1>9, <1>10, <2>1, SetInduction
<1> QED BY <1>1, <1>8, <1>11 DEF both, one, two, end, w

\* A walk stays on course and acceptable at every step.
LEMMA WalkThrough ==
    ASSUME NEW b, NEW n, Proper(b), Proper(n), NEW R, Retires(b, n, R)
    PROVE  LET s == TransitionSteps(b, n) \o R
               after == StatesAfter(Own(b), s)
           IN  /\ s \in Seq(WalkSteps(b, n))
               /\ \A k \in 0..Len(s) : /\ OnCourse(b, n, LeftOf(s, k), after[k])
                                       /\ Acceptable(n, LeftOf(s, k), after[k])
<1> DEFINE s == TransitionSteps(b, n) \o R
           after == StatesAfter(Own(b), s)
           S == WalkSteps(b, n)
           A == {k \in Nat : k <= Len(s) => /\ OnCourse(b, n, LeftOf(s, k), after[k])
                                            /\ Acceptable(n, LeftOf(s, k), after[k])}
<1>1. OnCourse(b, n, s, Own(b)) /\ Acceptable(n, s, Own(b))
  BY WalkBegins, WalkAcceptable
<1>2. s \in Seq(S)
  BY <1>1 DEF OnCourse
<1> HIDE DEF s, S
<1>3. Len(s) \in Nat
  BY <1>2
<1>4. /\ after[0] = Own(b)
      /\ \A k \in 1..Len(s) : after[k] = ApplyRoutingStep(after[k - 1], s[k])
  BY <1>3, StatesStep
<1> HIDE DEF after
<1>5. 0 \in A
  BY <1>1, <1>2, <1>3, <1>4, LeftGoesOn
<1>6. ASSUME NEW k \in A PROVE k + 1 \in A
  <2> SUFFICES ASSUME k + 1 <= Len(s)
               PROVE  /\ OnCourse(b, n, LeftOf(s, k + 1), after[k + 1])
                      /\ Acceptable(n, LeftOf(s, k + 1), after[k + 1])
    OBVIOUS
  <2> DEFINE l == LeftOf(s, k)
             x == after[k]
  <2>1. k \in 0..Len(s) /\ k # Len(s) /\ OnCourse(b, n, l, x) /\ Acceptable(n, l, x)
    BY <1>3
  <2>2. l # <<>> /\ Tail(l) = LeftOf(s, k + 1) /\ Head(l) = s[k + 1] /\ k + 1 \in 1..Len(s)
    BY <1>2, <2>1, LeftGoesOn
  <2>3. after[k + 1] = ApplyRoutingStep(x, Head(l))
    BY <1>4, <2>1, <2>2
  <2> HIDE DEF l, x
  <2>4. l \in Seq(WalkSteps(b, n)) /\ x = [routes |-> x.routes, rules |-> x.rules]
    BY <2>1 DEF OnCourse
  <2>5. OnCourse(b, n, Tail(l), ApplyRoutingStep(x, Head(l)))
    BY <2>1, <2>2, WalkGoesOn
  <2>6. Acceptable(n, Tail(l), ApplyRoutingStep(x, Head(l)))
    BY <2>1, <2>2, <2>4, WalkAccepted
  <2> QED BY <2>2, <2>3, <2>5, <2>6
<1>7. \A k \in Nat : k \in A
  <2>1. A \in SUBSET Nat
    OBVIOUS
  <2> HIDE DEF A
  <2> QED BY <1>5, <1>6, <2>1, SetInduction
<1> QED BY <1>2, <1>3, <1>7 DEF s, after, S

\* What a walk passes through: ip refuses none of its steps, the next plan is in
\* place before anything is retired, and it is all there is at the end.
LEMMA WalkStates ==
    ASSUME NEW b, NEW n, Proper(b), Proper(n), NEW R, Retires(b, n, R)
    PROVE  LET T == TransitionSteps(b, n)
               turned == StateAfter(Own(b), T)
           IN  /\ T \in Seq(WalkSteps(b, n)) /\ R \in Seq(WalkSteps(b, n))
               /\ \A k \in 0..(Len(T) - 1) : ~Refused(StatesAfter(Own(b), T)[k], T[k + 1])
               /\ \A k \in 0..(Len(R) - 1) : ~Refused(StatesAfter(turned, R)[k], R[k + 1])
               /\ Within(Own(n), turned)
               /\ StateAfter(turned, R) = Own(n)
<1> DEFINE T == TransitionSteps(b, n)
           S == WalkSteps(b, n)
           s == T \o R
           after == StatesAfter(Own(b), s)
           turned == StateAfter(Own(b), T)
           one == StatesAfter(Own(b), T)
           two == StatesAfter(turned, R)
           p == Len(T)
           r == Len(R)
<1>1. T \in Seq(S) /\ R \in Seq(S)
  BY TransitionAhead DEF Retires
<1>2. /\ s \in Seq(S)
      /\ \A k \in 0..Len(s) : OnCourse(b, n, LeftOf(s, k), after[k]) /\ Acceptable(n, LeftOf(s, k), after[k])
  BY WalkThrough
<1> HIDE DEF T, S
<1>3. /\ \A k \in 0..p : after[k] = one[k]
      /\ \A k \in 0..r : after[p + k] = two[k]
  BY <1>1, StatesJoin
<1>4. /\ Len(s) = p + r /\ p \in Nat /\ r \in Nat
      /\ \A i \in 1..p : s[i] = T[i]
      /\ \A i \in 1..r : s[p + i] = R[i]
  <2>1. p \in Nat /\ r \in Nat
    BY <1>1
  <2> QED BY <1>1, <2>1, Joined
<1>5. turned = one[p] /\ StateAfter(turned, R) = two[r]
  BY DEF StateAfter
<1> HIDE DEF s, after, turned, one, two
<1>6. ASSUME NEW k \in 0..(Len(s) - 1) PROVE ~Refused(after[k], s[k + 1])
  <2> DEFINE l == LeftOf(s, k)
             x == after[k]
  <2>1. k \in 0..Len(s) /\ k # Len(s) /\ OnCourse(b, n, l, x) /\ Acceptable(n, l, x)
    BY <1>2, <1>4
  <2>2. l # <<>> /\ Head(l) = s[k + 1]
    BY <1>2, <2>1, LeftGoesOn
  <2> HIDE DEF l, x
  <2>3. l \in Seq(WalkSteps(b, n)) /\ x = [routes |-> x.routes, rules |-> x.rules]
    BY <2>1 DEF OnCourse
  <2>4. ~Refused(x, Head(l))
    BY <2>1, <2>2, <2>3, WalkAccepted
  <2> QED BY <2>2, <2>4 DEF x
<1> HIDE DEF p, r
<1>7. \A k \in 0..(p - 1) : ~Refused(one[k], T[k + 1])
  <2> SUFFICES ASSUME NEW k \in 0..(p - 1) PROVE ~Refused(one[k], T[k + 1])
    OBVIOUS
  <2>1. k \in 0..(Len(s) - 1) /\ k \in 0..p /\ k + 1 \in 1..p
    BY <1>4
  <2> QED BY <1>3, <1>4, <1>6, <2>1
<1>8. \A k \in 0..(r - 1) : ~Refused(two[k], R[k + 1])
  <2> SUFFICES ASSUME NEW k \in 0..(r - 1) PROVE ~Refused(two[k], R[k + 1])
    OBVIOUS
  <2>1. p + k \in 0..(Len(s) - 1) /\ k \in 0..r /\ k + 1 \in 1..r /\ (p + k) + 1 = p + (k + 1)
    BY <1>4
  <2>2. ~Refused(after[p + k], s[(p + k) + 1])
    BY <1>6, <2>1
  <2> QED BY <1>3, <1>4, <2>1, <2>2
<1>9. two[r] = Own(n)
  <2>1. Len(s) \in 0..Len(s) /\ r \in 0..r
    BY <1>4
  <2>2. LeftOf(s, Len(s)) = <<>>
    BY <1>2, <2>1, LeftGoesOn
  <2>3. OnCourse(b, n, <<>>, after[Len(s)])
    BY <1>2, <2>1, <2>2
  <2>4. after[Len(s)] = Own(n)
    BY <2>3, WalkArrives
  <2> QED BY <1>3, <1>4, <2>1, <2>4
<1>10. Within(Own(n), turned)
  <2> DEFINE l == LeftOf(s, p)
  <2>1. p \in 0..Len(s) /\ p \in 0..p
    BY <1>4
  <2>2. after[p] = turned
    BY <1>3, <1>5, <2>1
  <2>3. RulesDue(n, l, turned) /\ RoutesDue(n, l, turned)
    BY <1>2, <2>1, <2>2 DEF OnCourse
  <2>4. Len(l) = r /\ \A i \in 1..r : l[i] = R[i]
    <3>1. Len(l) = Len(s) - p /\ \A i \in 1..(Len(s) - p) : l[i] = s[p + i]
      BY <1>2, <2>1, LeftGoesOn
    <3>2. Len(s) - p = r
      BY <1>4
    <3> QED BY <1>4, <3>1, <3>2
  <2> HIDE DEF l
  <2>5. Len(R) = r
    BY DEF r
  <2>6. \A C : Ahead(l, C) => Ahead(R, C)
    BY <2>4, <2>5 DEF Ahead
  <2>7. /\ \A q : ~Ahead(l, {ReplaceRoute(q)})
        /\ \A f, t : ~Ahead(l, {AddRule(f, t)})
    BY <2>6 DEF Retires
  <2>8. ASSUME NEW q \in Own(n).routes PROVE q \in turned.routes
    <3>1. Finally(l, ReplaceRoute(q), {DeleteRoute(q)}) => Ahead(l, {ReplaceRoute(q)})
      BY DEF Finally, Ahead
    <3> QED BY <2>3, <2>7, <3>1 DEF RoutesDue
  <2>9. ASSUME NEW q \in Own(n).rules PROVE q \in turned.rules
    <3>1. PICK ft \in LaneFamilies(n) : q = Rule(ft[1], ft[2])
      BY OwnRules
    <3>2. ~Ahead(l, {AddRule(ft[1], ft[2])})
      BY <2>7
    <3> QED BY <2>3, <3>1, <3>2 DEF RulesDue
  <2> QED BY <2>8, <2>9 DEF Within
<1> QED BY <1>1, <1>5, <1>7, <1>8, <1>9, <1>10 DEF T, turned, one, two, p, r, S

\* The same of an installation, which starts from nothing.
LEMMA InstallStates ==
    ASSUME NEW n, Proper(n)
    PROVE  LET T == InstallSteps(n)
           IN  /\ T \in Seq(ForwardSteps(n))
               /\ \A k \in 0..(Len(T) - 1) : ~Refused(StatesAfter(Nothing, T)[k], T[k + 1])
               /\ StateAfter(Nothing, T) = Own(n)
<1> DEFINE N == <<>>
           T == TransitionSteps(NoPlan, n)
<1>1. Proper(NoPlan) /\ LaneCount(NoPlan) = 0
  BY DEF Proper, NoPlan, LaneCount, LaneFamilies
<1>2. Retires(NoPlan, n, N)
  BY <1>1, NothingRetired
<1> HIDE DEF N
<1>3. /\ \A k \in 0..(Len(T) - 1) : ~Refused(StatesAfter(Own(NoPlan), T)[k], T[k + 1])
      /\ StateAfter(StateAfter(Own(NoPlan), T), N) = Own(n)
  BY <1>1, <1>2, WalkStates
<1>4. StateAfter(StateAfter(Nothing, T), N) = StateAfter(Nothing, T)
  <2> DEFINE x == StateAfter(Nothing, T)
  <2>1. Len(N) = 0
    BY DEF N
  <2> HIDE DEF N, x
  <2>2. StatesAfter(x, N)[0] = x
    BY <2>1, StatesStep
  <2> QED BY <2>1, <2>2 DEF StateAfter, x
<1>5. T \in Seq(ForwardSteps(n))
  BY TransitionStepsAre DEF Proper
<1> QED BY <1>3, <1>4, <1>5, OwnNothing DEF InstallSteps

\* A removal changes nothing that an earlier removal already took away: it leaves
\* a state of the removals that is at least as far.
LEMMA RemovalGoesOn ==
    ASSUME NEW R, NEW U, NEW live \in Parts(R, U), NEW steps \in Seq(RemovalSteps),
           NEW k \in 0..(Len(steps) - 1), NEW j \in k..Len(steps)
    PROVE  \E i \in (k + 1)..Len(steps) :
             ApplyRoutingStep(StatesAfter(live, steps)[j], steps[k + 1]) = StatesAfter(live, steps)[i]
<1> DEFINE after == StatesAfter(live, steps)
<1>1. /\ Len(steps) \in Nat /\ k + 1 \in 1..Len(steps) /\ steps[k + 1] \in RemovalSteps
      /\ j \in 0..Len(steps)
  OBVIOUS
<1>2. \A i \in 1..Len(steps) : after[i] = ApplyRoutingStep(after[i - 1], steps[i])
  BY <1>1, StatesStep
<1>3. after[j] \in Parts(R, U) /\ \A i \in 1..j : Gone(after[j], steps[i])
  BY <1>1, GoneAlong
<1> HIDE DEF after
<1>4. CASE j = k
  <2>1. after[k + 1] = ApplyRoutingStep(after[k], steps[k + 1])
    BY <1>1, <1>2
  <2> QED BY <1>1, <1>4, <2>1 DEF after
<1>5. CASE j # k
  <2>1. k + 1 \in 1..j /\ j \in (k + 1)..Len(steps)
    BY <1>1, <1>5
  <2>2. ApplyRoutingStep(after[j], steps[k + 1]) = after[j]
    BY <1>1, <1>3, <2>1, RemovedIsGone
  <2> QED BY <2>1, <2>2 DEF after
<1> QED BY <1>4, <1>5
====
