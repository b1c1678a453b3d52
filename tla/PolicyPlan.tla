----------------------------- MODULE PolicyPlan -----------------------------
(***************************************************************************)
(* What a profile means and what is compiled from it: the validation of     *)
(* domain/profile.rs, the topology of backend/topology.rs and the planner   *)
(* of backend/planner.rs.  Destinations stand for the networks rules name;  *)
(* a domain is the set of destinations it resolves to.  Lane and rule       *)
(* identifiers are numbers, for the planner orders lanes by identifier: the  *)
(* lane in slot n has mark, table and rule priority BASE + n - 1, here n.    *)
(***************************************************************************)
EXTENDS Naturals, FiniteSets, FiniteSetsExt, Sequences, SequencesExt

CONSTANTS
    Families,       \* address families
    Interfaces,     \* interface names
    Dests,          \* destinations
    DestFamily,     \* the family of a destination
    DestLink,       \* the interface a destination is on-link of, or None
    MaxLanes,       \* lanes a profile or plan may have (100)
    MaxRules,       \* rules a profile or plan may have (10 000)
    Ambiguous,      \* DefaultSelection::Ambiguous
    None

ASSUME DestAssumption ==
    /\ DestFamily \in [Dests -> Families]
    /\ DestLink \in [Dests -> Interfaces \cup {None}]
    /\ \A f \in Families : \E d \in Dests : DestFamily[d] = f
ASSUME LimitAssumption == {MaxLanes, MaxRules} \subseteq Nat \ {0}

-----------------------------------------------------------------------------
(* Topology *)

\* The kernel's side: a link (index 0: absent) with its flags, an address per
\* family that is absent or unusable, deprecated ("old") or usable ("fresh"),
\* and its default routes in the main table: none, one through a gateway or
\* through the device, or two of equal metric.
\* "odd" are the families with a foreign policy rule or an unsupported default.
LinkReady(k) == k.index # 0 /\ k.up

\* fill_family: the route of an interface, if it has exactly one best default.
RouteOf(k, f) ==
    IF LinkReady(k) /\ k.addr[f] = "fresh" /\ k.default[f] \in {"via", "device"}
    THEN k.default[f] ELSE "none"

\* parse_topology
Topology(net) ==
    LET route(i, f) == RouteOf(net.link[i], f)
        usable(f) == {i \in Interfaces : route(i, f) # "none"}
        best(f) == {i \in usable(f) :
            \A j \in usable(f) : net.link[i].metric <= net.link[j].metric}
        unclear(f) ==
            \/ f \in net.odd \/ Cardinality(best(f)) > 1
            \/ \E i \in Interfaces : LinkReady(net.link[i]) /\ net.link[i].default[f] = "two"
    IN  [iface |-> [i \in Interfaces |->
            [ident |-> IF net.link[i].index = 0 THEN None ELSE net.link[i].index,
             ready |-> LinkReady(net.link[i]),
             route |-> [f \in Families |-> route(i, f)],
             source |-> {f \in Families : net.link[i].addr[f] = "fresh"},
             nets |-> {d \in Dests :
                DestLink[d] = i /\ net.link[i].addr[DestFamily[d]] # "none"}]],
         default |-> [f \in Families |->
            IF unclear(f) THEN Ambiguous
            ELSE IF usable(f) = {} THEN None ELSE CHOOSE i \in best(f) : TRUE],
         addresses |-> [f \in Families |->
            {i \in Interfaces : net.link[i].index # 0 /\ net.link[i].addr[f] # "none"}]]

\* InterfaceTopology::ready
Ready(top, i, f) ==
    LET e == top.iface[i]
    IN  i \in DOMAIN top.iface /\ e.ident # None /\ e.ready /\ e.route[f] # "none" /\ f \in e.source

\* connected_networks, of the interfaces the snapshot still has
ConnectedNetworks(top) == UNION {top.iface[i].nets : i \in {j \in Interfaces : top.iface[j].ready}}

AbsentInterface ==
    [ident |-> None, ready |-> FALSE, route |-> [f \in Families |-> "none"], source |-> {},
     nets |-> {}]
\* restricted_to: a device that is not one of the granted ones is absent; the
\* addresses stay.
RestrictedTo(top, idents) ==
    [top EXCEPT !.iface = [i \in Interfaces |->
        IF top.iface[i].ident \in idents THEN top.iface[i] ELSE AbsentInterface]]

-----------------------------------------------------------------------------
(* Profiles: sequences of lanes and rules, as the user wrote them *)

Elements(s) == {s[n] : n \in DOMAIN s}
Distinct(s, Key(_)) == \A m, n \in DOMAIN s : Key(s[m]) = Key(s[n]) => m = n
LaneIds(p) == {l.id : l \in Elements(p.lanes)}
LaneOf(p, id) == CHOOSE l \in Elements(p.lanes) : l.id = id

\* The lanes reached by following fallback_lane n times; None once it ends.
FallbackChain(p, id) ==
    LET lane[n \in Nat] ==
            IF n = 0 THEN id
            ELSE IF lane[n - 1] = None THEN None ELSE LaneOf(p, lane[n - 1]).fallback
    IN  [n \in 0..Len(p.lanes) |-> lane[n]]

\* Rule::duplicate_key: identity, priority and switch are no routing intent.
DuplicateKey(r) ==
    [app |-> r.app, kind |-> IF r.kind = "ip" THEN "net" ELSE r.kind, dests |-> r.dests,
     action |-> r.action, lane |-> r.lane]

\* RoutingPolicy::validate
RoutingValid(p) ==
    /\ p.primary \in LaneIds(p) \cup {None}
    /\ Elements(p.backups) \subseteq LaneIds(p) \ {p.primary}
    /\ Distinct(p.backups, LAMBDA b : b)

FallbacksKnown(p) ==
    \A l \in Elements(p.lanes) : l.fallback \in LaneIds(p) \cup {None}
FallbacksValid(p) ==
    /\ FallbacksKnown(p)
    /\ \A id \in LaneIds(p) : FallbackChain(p, id)[Len(p.lanes)] = None

\* validate_profile
ValidProfile(p) ==
    /\ Len(p.lanes) <= MaxLanes /\ Len(p.rules) <= MaxRules
    /\ Distinct(p.lanes, LAMBDA l : l.id) /\ Distinct(p.lanes, LAMBDA l : l.name)
    /\ \A l \in Elements(p.lanes) : l.name # None
    /\ RoutingValid(p)
    /\ Distinct(p.rules, LAMBDA r : r.id) /\ Distinct(p.rules, DuplicateKey)
    /\ \A r \in Elements(p.rules) :
        /\ r.app # None => r.kind = "any" /\ r.action = "route"
        /\ r.action = "route" => r.lane \in LaneIds(p)
    /\ FallbacksValid(p)

-----------------------------------------------------------------------------
(* The planner *)

\* Verdicts of compiled rules other than the mark of a lane.
Block == 0

\* compile_lane, for each lane in the order of the identifiers
CompiledLanes(p, top) ==
    LET order == SetToSortSeq(LaneIds(p), <)
        compiled(l) ==
            [id |-> l.id, iface |-> l.iface, ident |-> top.iface[l.iface].ident,
             source |-> top.iface[l.iface].source, fail |-> l.fail,
             route |-> [f \in Families |->
                IF Ready(top, l.iface, f) THEN top.iface[l.iface].route[f] ELSE "none"]]
    IN  [n \in DOMAIN order |-> compiled(LaneOf(p, order[n]))]

Slot(lanes, id) == CHOOSE n \in DOMAIN lanes : lanes[n].id = id
Available(lanes, id, f) == lanes[Slot(lanes, id)].route[f] # "none"

PrimaryAction(lanes, exits, f) == IF exits[f] = None THEN Block ELSE Slot(lanes, exits[f])

\* compile_route_action: at most one action; none, when the rule is inactive
RouteAction(p, lanes, exits, id, f) ==
    LET chain == FallbackChain(p, id)
        up == {n \in DOMAIN chain : chain[n] # None /\ Available(lanes, chain[n], f)}
        fail == LaneOf(p, id).fail
    IN  IF up # {} THEN {Slot(lanes, chain[Min(up)])}
        ELSE IF fail = "block" THEN {Block}
        ELSE IF fail = "direct" THEN {PrimaryAction(lanes, exits, f)} ELSE {}

\* compile_action
Actions(p, lanes, exits, r, f) ==
    IF r.action = "route" THEN RouteAction(p, lanes, exits, r.lane, f)
    ELSE IF r.action = "direct" THEN {PrimaryAction(lanes, exits, f)} ELSE {Block}

\* What a rule matches: the cgroup of its application, or destinations; a
\* domain gives one target per address it resolved to.
Targets(r, resolved) ==
    IF r.app # None THEN {[dests |-> Dests, app |-> r.id]}
    ELSE IF r.kind = "domain" THEN {[dests |-> {d}, app |-> None] : d \in resolved[r.id]}
    ELSE {[dests |-> r.dests, app |-> None]}
TargetFamilies(t) == {DestFamily[d] : d \in t.dests}

\* execution_cmp
Before(r, q) == r.prio < q.prio \/ (r.prio = q.prio /\ r.id < q.id)
EnabledRules(p) == SetToSortSeq({r \in Elements(p.rules) : r.on}, Before)

\* compile_rule: the rules of one rule never compete, so their order is free.
CompiledRule(p, lanes, exits, resolved, r) ==
    LET verdicts(t, f) == {[fam |-> f, dests |-> t.dests, app |-> t.app, act |-> a] :
                              a \in Actions(p, lanes, exits, r, f)}
    IN  SetToSeq(UNION {UNION {verdicts(t, f) : f \in TargetFamilies(t)} : t \in Targets(r, resolved)})

\* Faulty variant: a target that was seen is dropped whatever its verdict.
FirstOfTarget(rules) ==
    LET seen(acc, x) == \E n \in DOMAIN acc : acc[n].dests = x.dests /\ acc[n].app = x.app
    IN  FoldLeft(LAMBDA acc, x : IF seen(acc, x) THEN acc ELSE Append(acc, x), <<>>, rules)
\* Verdicts that repeat an earlier one are dropped (routing_key).
FirstOfVerdict(rules) ==
    FoldLeft(LAMBDA acc, x : IF \E n \in DOMAIN acc : acc[n] = x THEN acc ELSE Append(acc, x),
             <<>>, rules)

\* SystemResolutionProvider: a domain resolves to some of its addresses.
Resolutions(p) ==
    LET domains == {r \in Elements(p.rules) : r.on /\ r.kind = "domain"}
        of(id) == UNION {r.dests : r \in {q \in domains : q.id = id}}
    IN  {a \in [{r.id : r \in domains} -> SUBSET Dests] :
            \A id \in DOMAIN a : a[id] # {} /\ a[id] \subseteq of(id)}

\* compile_profile_inner; CanCompile are its early returns.
CanCompile(p, top, exits, resolved) ==
    /\ p.enabled /\ ValidProfile(p)
    /\ LET lanes == CompiledLanes(p, top)
       IN \A f \in Families : exits[f] # None =>
            /\ exits[f] \in LaneIds(p)
            /\ lanes[Slot(lanes, exits[f])].ident # None
            /\ Available(lanes, exits[f], f)
            /\ f \in lanes[Slot(lanes, exits[f])].source
    /\ \A r \in Elements(p.rules) : r.on /\ r.app = None =>
        /\ r.kind \notin {"wildcard", "pack"}
        /\ r.kind = "domain" => resolved[r.id] # {}

Compile(p, top, exits, resolved, gen) ==
    LET lanes == CompiledLanes(p, top)
        ordered == EnabledRules(p)
        each == [n \in DOMAIN ordered |-> CompiledRule(p, lanes, exits, resolved, ordered[n])]
    IN  [gen |-> gen, lanes |-> lanes, exits |-> exits,
         rules |-> FirstOfVerdict(FlattenSeq(each)),
         networks |-> ConnectedNetworks(top), addresses |-> top.addresses]

\* validate_privileged_plan and validate_new_plan_rules; the slots make
\* tables, marks and priorities distinct and in range.
Acceptable(plan) ==
    /\ plan.gen # 0
    /\ Len(plan.lanes) <= MaxLanes /\ Len(plan.rules) <= MaxRules
    /\ Distinct(plan.lanes, LAMBDA l : l.id)
    /\ \A r \in Elements(plan.rules) : r.act \in DOMAIN plan.lanes \cup {Block}
    /\ Distinct(plan.rules, LAMBDA r : r)
=============================================================================
