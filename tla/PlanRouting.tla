----------------------------- MODULE PlanRouting -----------------------------
(***************************************************************************)
(* The routing half of a RouteLane kernel plan: which routes and policy    *)
(* rules a plan owns, the typed steps that move the kernel from one plan to *)
(* the next, and the crash states those steps can leave behind              *)
(* (backend/policy_route.rs and the routing model of privileged.rs).        *)
(*                                                                         *)
(* The planner gives lane slot i the table, mark and rule priority BASE+i,  *)
(* so a lane, its table and its policy rule share one index here.           *)
(***************************************************************************)
EXTENDS Naturals, Sequences, SequencesExt

CONSTANTS
    Devices,    \* network interfaces a lane can name (a set of strings)
    Layouts,    \* the lane lists a plan may carry: sequences of lanes
    MaxGen      \* bound on plan generations

FamilyOrder == <<4, 6>>
Families == {4, 6}

\* How a lane reaches the default destination of a family, if at all.
Vias == {"none", "onlink", "gateway"}
Lanes == [dev: Devices, via: [Families -> Vias]]

ASSUME LayoutsAssumption == Layouts \subseteq Seq(Lanes)
ASSUME MaxGenAssumption == MaxGen \in Nat
\* The terminal route names no interface.
ASSUME DevicesAssumption == "" \notin Devices

Plans == [gen: 1..MaxGen, lanes: Layouts]
NoPlan == [gen |-> 0, lanes |-> <<>>]
PlansOrNone == Plans \cup {NoPlan}

-----------------------------------------------------------------------------
(* Routes, rules and the ownership of a plan *)

LaneCount(plan) == Len(plan.lanes)
HasTable(plan, t) == t \in 1..LaneCount(plan)

\* lane_unicast_route
HasUnicast(plan, f, t) == HasTable(plan, t) /\ plan.lanes[t].via[f] # "none"
Unicast(plan, f, t) ==
    [fam |-> f, tab |-> t, dev |-> plan.lanes[t].dev, via |-> plan.lanes[t].via[f]]
Terminal(f, t) == [fam |-> f, tab |-> t, dev |-> "", via |-> "unreachable"]
Rule(f, t) == [fam |-> f, tab |-> t]
IsTerminal(r) == r.via = "unreachable"

Nothing == [routes |-> {}, rules |-> {}]

\* plan_routing_ownership: every lane and family owns a terminal route, a rule
\* and, where the lane is usable, a unicast default.
LaneFamilies(plan) == Families \X (1..LaneCount(plan))
Own(plan) ==
    [routes |-> {Terminal(ft[1], ft[2]) : ft \in LaneFamilies(plan)}
                  \cup {Unicast(plan, ft[1], ft[2]) :
                          ft \in {x \in LaneFamilies(plan) : HasUnicast(plan, x[1], x[2])}},
     rules  |-> {Rule(ft[1], ft[2]) : ft \in LaneFamilies(plan)}]

\* routing_ownership_is_subset
Within(live, own) == live.routes \subseteq own.routes /\ live.rules \subseteq own.rules

\* routing_basis: what an active plan really has once the kernel dropped the
\* unicast defaults named by lost.
RoutingBasis(plan, lost) ==
    [plan EXCEPT !.lanes = [t \in DOMAIN plan.lanes |->
        [plan.lanes[t] EXCEPT !.via =
            [f \in Families |-> IF <<f, t>> \in lost THEN "none" ELSE plan.lanes[t].via[f]]]]]

-----------------------------------------------------------------------------
(* Typed routing steps *)

ReplaceRoute(r) == [op |-> "replace", route |-> r]
DeleteRoute(r) == [op |-> "delete", route |-> r]
AddRule(f, t) == [op |-> "addrule", rule |-> Rule(f, t)]
DeleteRule(f, t) == [op |-> "delrule", rule |-> Rule(f, t)]
FlushTable(f, t) == [op |-> "flush", fam |-> f, tab |-> t]

\* apply_routing_step: a replace swaps the route of the same kind in its table,
\* removals are idempotent.
ApplyRoutingStep(live, step) ==
    CASE step.op = "replace" ->
           [live EXCEPT !.routes = {r \in @ : \/ r.fam # step.route.fam
                                              \/ r.tab # step.route.tab
                                              \/ IsTerminal(r) # IsTerminal(step.route)}
                                     \cup {step.route}]
      [] step.op = "delete" -> [live EXCEPT !.routes = @ \ {step.route}]
      [] step.op = "addrule" -> [live EXCEPT !.rules = @ \cup {step.rule}]
      [] step.op = "delrule" -> [live EXCEPT !.rules = @ \ {step.rule}]
      [] step.op = "flush" ->
           [live EXCEPT !.routes = {r \in @ : r.fam # step.fam \/ r.tab # step.tab}]

\* What ip itself refuses: a rule that exists, and an IPv6 gateway entering a
\* table that holds nothing but its terminal route.
Refused(live, step) ==
    \/ step.op = "addrule" /\ step.rule \in live.rules
    \/ /\ step.op = "replace"
       /\ step.route.fam = 6 /\ step.route.via = "gateway"
       /\ {r \in live.routes : r.fam = 6 /\ r.tab = step.route.tab} = {Terminal(6, step.route.tab)}

\* Lanes are visited in order, and the families inside a lane.
VisitedFamily(i) == FamilyOrder[((i - 1) % 2) + 1]
VisitedTable(i) == (i + 1) \div 2
PerLaneFamily(n, Steps(_, _)) ==
    FlattenSeq([i \in 1..(2 * n) |-> Steps(VisitedFamily(i), VisitedTable(i))])

\* IPv6 checks a gateway against the table it enters; a terminal-only table
\* rejects it, so the terminal of an existing lane is lifted first.
GatewayNeedsOpenTable(previous, next, f, t) ==
    /\ f = 6
    /\ HasTable(previous, t)
    /\ ~HasUnicast(previous, f, t)
    /\ HasUnicast(next, f, t)
    /\ next.lanes[t].via[f] = "gateway"

TransitionRoutes(previous, next, f, t) ==
    (IF GatewayNeedsOpenTable(previous, next, f, t)
        THEN <<DeleteRoute(Terminal(f, t))>> ELSE <<>>)
    \o (IF HasUnicast(next, f, t) THEN <<ReplaceRoute(Unicast(next, f, t))>> ELSE <<>>)
    \o <<ReplaceRoute(Terminal(f, t))>>

NewRules(previous, f, t) == IF HasTable(previous, t) THEN <<>> ELSE <<AddRule(f, t)>>

\* transition_steps
TransitionSteps(previous, next) ==
    PerLaneFamily(LaneCount(next), LAMBDA f, t : TransitionRoutes(previous, next, f, t))
    \o PerLaneFamily(LaneCount(next), LAMBDA f, t : NewRules(previous, f, t))

InstallSteps(plan) == TransitionSteps(NoPlan, plan)

\* Faulty variant: every rule of the previous plan is removed.
EveryOldRule(next, f, t) == <<DeleteRule(f, t)>>
OldRules(next, f, t) == IF HasTable(next, t) THEN <<>> ELSE <<DeleteRule(f, t)>>
\* Faulty variant: lanes that stay keep the routes their next plan gave up.
OldRoutesOfRemovedLanes(previous, next, f, t) ==
    IF ~HasTable(next, t) THEN <<FlushTable(f, t)>> ELSE <<>>
OldRoutes(previous, next, f, t) ==
    IF ~HasTable(next, t) THEN <<FlushTable(f, t)>>
    ELSE IF HasUnicast(previous, f, t) /\ ~HasUnicast(next, f, t)
      THEN <<DeleteRoute(Unicast(previous, f, t))>> ELSE <<>>

\* retire_steps
RetireSteps(previous, next) ==
    PerLaneFamily(LaneCount(previous), LAMBDA f, t : OldRules(next, f, t))
    \o PerLaneFamily(LaneCount(previous), LAMBDA f, t : OldRoutes(previous, next, f, t))

\* The lanes of two plans with the shared ones counted once, as the removal
\* orders of a rollback visit them: the previous plan's, then those only next has.
WiderLaneCount(previous, next) ==
    IF LaneCount(previous) > LaneCount(next) THEN LaneCount(previous) ELSE LaneCount(next)

\* rollback_rule_order, rollback_table_order
RollbackRules(previous, next) ==
    [i \in 1..(2 * WiderLaneCount(previous, next)) |->
        DeleteRule(VisitedFamily(i), VisitedTable(i))]
RollbackTables(previous, next) ==
    [i \in 1..(2 * WiderLaneCount(previous, next)) |->
        FlushTable(VisitedFamily(i), VisitedTable(i))]
RollbackRemovals(previous, next) ==
    RollbackRules(previous, next) \o RollbackTables(previous, next)

-----------------------------------------------------------------------------
(* Crash states: what recovery accepts as left behind by an interrupted run *)

\* The states after each number of steps; all of them, the first one included;
\* and the last.
StatesAfter(live, steps) ==
    LET after[i \in 0..Len(steps)] ==
          IF i = 0 THEN live ELSE ApplyRoutingStep(after[i - 1], steps[i])
    IN  after
StatesAlong(live, steps) ==
    LET after == StatesAfter(live, steps) IN {after[i] : i \in 0..Len(steps)}
StateAfter(live, steps) == StatesAfter(live, steps)[Len(steps)]

\* build_forward_routing_states, by the nftables phase that is live
PreparedStates(basis, next) == StatesAlong(Own(basis), TransitionSteps(basis, next))
ActivatedStates(basis, next) ==
    StatesAlong(StateAfter(Own(basis), TransitionSteps(basis, next)),
                IF basis = NoPlan THEN <<>> ELSE RetireSteps(basis, next))

\* Faulty variant: an interrupted rollback is not expected.
ReachedForward(starts, live, basis, next) == live \in starts

\* rollback_prefix_reaches: live is a start state or some non-empty part of the
\* removals of a rollback away from one.
ReachedFrom(starts, live, basis, next) ==
    \E s \in starts : live \in StatesAlong(s, RollbackRemovals(basis, next))

\* build_absent_rollback_states
AbsentRollbackStates(basis) ==
    IF basis = NoPlan THEN {Nothing} ELSE StatesAlong(Nothing, InstallSteps(basis))
=============================================================================
