---------------------------- MODULE PolicyTraffic ----------------------------
(***************************************************************************)
(* Where packets go while the helper installs, refreshes, rolls back and     *)
(* removes plans and links come and go: the chains of                        *)
(* backend/nft_document.rs over the lane tables and rules of a plan, the     *)
(* conntrack marks that outlive a plan, the conflict checks of               *)
(* backend/inspect.rs and the health report of health/probes.rs.             *)
(*                                                                         *)
(* Flows are sockets of this host.  "control" stands for what every chain    *)
(* lets pass first: loopback, local addresses, DHCP, link-local multicast    *)
(* and neighbour discovery.                                                  *)
(***************************************************************************)
EXTENDS PolicyPlan

CONSTANTS
    Profiles,       \* profiles that can be activated
    Flows,          \* flows: [dest, app, mark, control]; app is a rule's identifier
    V4,             \* the family with reverse-path filtering
    Nets,           \* networks the system starts with
    Changes,        \* what can happen to links and resources
    MaxChanges,     \* bound on what happens to links and resources
    MaxPlans,       \* bound on plans
    MaxFaults       \* bound on verifications that fail

AllChanges == {"gone", "back", "carrier", "address", "route", "rule", "foreign"}

ASSUME TrafficAssumption ==
    /\ Changes \subseteq AllChanges /\ V4 \in Families
    /\ {MaxChanges, MaxPlans, MaxFaults} \subseteq Nat
ASSUME NoneAssumption == None \notin Interfaces
\* What every chain lets pass carries no lane's mark: setting one is privileged.
ASSUME ControlAssumption == \A x \in Flows : x.control => x.mark \notin 1..MaxLanes

VARIABLES
    net,        \* links, addresses and main defaults
    kern,       \* RouteLane's table, lane routes and policy rules
    helper,     \* the helper's plan, grant and the transition it is in
    flow,       \* conntrack: mark and state of each flow, and its source address
    used        \* bounds

vars == <<net, kern, helper, flow, used>>

-----------------------------------------------------------------------------
(* The owned resources of a plan *)

NoDoc == [active |-> None, guard |-> FALSE]
Nothing == [doc |-> NoDoc, routes |-> {}, rules |-> {}]
NoWork == [next |-> None, ask |-> None, lost |-> {}]
NoHelper == [pc |-> "idle", plan |-> None, auth |-> None, work |-> NoWork]
NewFlow == [ct |-> 0, est |-> FALSE, src |-> None, lane |-> None, auth |-> 0]

Unicast(plan, f, t) ==
    [fam |-> f, tab |-> t, dev |-> plan.lanes[t].iface, via |-> plan.lanes[t].route[f]]
Terminal(f, t) == [fam |-> f, tab |-> t, dev |-> None, via |-> "unreachable"]
Alien(f, t) == [fam |-> f, tab |-> t, dev |-> None, via |-> "alien"]
PolicyRule(f, t) == [fam |-> f, prio |-> t, mark |-> t]
UnicastsOf(plan) ==
    {Unicast(plan, x[1], x[2]) :
        x \in {y \in Families \X DOMAIN plan.lanes : plan.lanes[y[2]].route[y[1]] # "none"}}
RoutesOf(plan) ==
    IF plan = None THEN {}
    ELSE UnicastsOf(plan) \cup {Terminal(f, t) : f \in Families, t \in DOMAIN plan.lanes}
RulesOf(plan) ==
    IF plan = None THEN {}
    ELSE {PolicyRule(f, t) : f \in Families, t \in DOMAIN plan.lanes}

-----------------------------------------------------------------------------
(* The chains of the table; k is a packet with its conntrack entry *)

\* ready: lanes whose exact device a rule may name
LaneReady(plan, n, f) ==
    LET l == plan.lanes[n]
    IN  l.ident # None /\ l.route[f] # "none" /\ f \in l.source

Rejected == [ok |-> FALSE, mark |-> 0, ct |-> 0]
Pass(k) == [ok |-> TRUE, mark |-> k.mark, ct |-> k.ct]
Owned(mark) == mark \in 1..MaxLanes

\* restore4, restore6: a flow keeps the lane it started on, or is rejected.
Restore(plan, k) ==
    IF k.ct \in DOMAIN plan.lanes /\ LaneReady(plan, k.ct, k.fam)
    THEN [ok |-> TRUE, mark |-> k.ct, ct |-> k.ct] ELSE Rejected

Unmanaged(k) == k.ct = 0 /\ k.est

\* Faulty variant: the lane of the rule replaces the lane of the flow.
SelectAnew(plan, k, n) ==
    IF Unmanaged(k) THEN Pass(k)
    ELSE IF LaneReady(plan, n, k.fam) THEN [ok |-> TRUE, mark |-> n, ct |-> n] ELSE Rejected
\* select4_*, select6_*
Select(plan, k, n) ==
    IF k.ct # 0 THEN Restore(plan, k)
    ELSE IF Unmanaged(k) THEN Pass(k)
    ELSE IF LaneReady(plan, n, k.fam) THEN [ok |-> TRUE, mark |-> n, ct |-> n]
    ELSE Rejected

\* primary_mark
PrimaryMark(plan, f) ==
    LET n == PrimaryAction(plan.lanes, plan.exits, f)
    IN  IF n # Block /\ LaneReady(plan, n, f) THEN n ELSE Block

\* explicit_rule: the verdicts of the rules that match, in their order
Verdicts(plan, k) ==
    LET hits == {n \in DOMAIN plan.rules :
            /\ plan.rules[n].fam = k.fam /\ k.dest \in plan.rules[n].dests
            /\ plan.rules[n].app \in {None, k.app}}
    IN  {plan.rules[n].act : n \in IF hits = {} THEN {} ELSE {Min(hits)}}

\* The output chain, in the order of its rules.
Output(plan, k) ==
    LET foreign(mark) == mark # 0 /\ ~Owned(mark)
        to(n) == IF n = Block THEN Rejected ELSE Select(plan, k, n)
    IN  IF k.control THEN Pass(k)
        ELSE IF foreign(k.mark) \/ foreign(k.ct) THEN Rejected
        ELSE IF Verdicts(plan, k) # {} THEN to(CHOOSE n \in Verdicts(plan, k) : TRUE)
        ELSE IF Owned(k.ct) THEN Restore(plan, k)
        ELSE IF Unmanaged(k) \/ k.dest \in plan.networks THEN Pass(k)
        ELSE to(PrimaryMark(plan, k.fam))

\* The guard chain: nothing but control and connected networks.
Guarded(doc, networks, k) == doc.guard /\ ~k.control /\ k.dest \notin networks

\* Faulty variant: an owned mark may leave by any device.
EgressOpen(plan, dev, index, src, k) == TRUE
\* egress_guard, and source_nat under the same conditions: the exact device of
\* the lane, from an address of this host; an owned mark leaves no other way.
Egress(plan, dev, index, src, k) ==
    \/ k.control \/ ~Owned(k.mark)
    \/ /\ k.mark = k.ct /\ k.ct \in DOMAIN plan.lanes
       /\ LaneReady(plan, k.ct, k.fam)
       /\ plan.lanes[k.ct].iface = dev /\ plan.lanes[k.ct].ident = index
       /\ src \in plan.addresses[k.fam]

-----------------------------------------------------------------------------
(* The kernel's routing *)

Usable(k, f) == LinkReady(k) /\ k.addr[f] # "none"

\* The main table: an on-link route, or the default of lowest metric.
MainRoute(dest) ==
    LET f == DestFamily[dest]
        up == {i \in Interfaces : Usable(net.link[i], f) /\ net.link[i].default[f] # "none"}
        best == {i \in up : \A j \in up : net.link[i].metric <= net.link[j].metric}
    IN  IF DestLink[dest] # None /\ Usable(net.link[DestLink[dest]], f)
        THEN {DestLink[dest]} ELSE best

\* A lane's rule and table, which fall through to main when both routes are gone.
RouteFor(mark, dest) ==
    LET f == DestFamily[dest]
        here == {r \in kern.routes : r.fam = f /\ r.tab = mark}
        unicast == {r \in here : r.via \in {"via", "device"}}
    IN  IF PolicyRule(f, mark) \notin kern.rules \/ here = {} THEN MainRoute(dest)
        ELSE {r.dev : r \in unicast}

\* How a packet of a flow can leave now: device, mark and conntrack mark.
Ways(x, src, ct, est) ==
    LET k == [fam |-> DestFamily[x.dest], dest |-> x.dest, app |-> x.app, mark |-> x.mark,
              control |-> x.control, ct |-> ct, est |-> est]
        plan == kern.doc.active
        first == IF plan = None THEN Pass(k) ELSE Output(plan, k)
        networks == UNION {p.networks : p \in {plan, helper.work.next} \ {None}}
        sent == [k EXCEPT !.mark = first.mark, !.ct = first.ct]
        leaves(dev) ==
            /\ LinkReady(net.link[dev])
            /\ plan = None \/ Egress(plan, dev, net.link[dev].index, src, sent)
    IN  IF ~first.ok \/ Guarded(kern.doc, networks, k) THEN {}
        ELSE {[dev |-> dev, mark |-> first.mark, ct |-> first.ct] :
                dev \in {i \in RouteFor(first.mark, x.dest) : leaves(i)}}

\* The packets a flow can send: source address, device, marks and, where the
\* mark is a lane's, the interface of the lane.  A first packet has the source
\* the main table gives it; without a route there the socket fails.
Packets(x) ==
    LET lane(mark) == IF Owned(mark) /\ kern.doc.active # None
                      THEN kern.doc.active.lanes[mark].iface ELSE None
    IN  UNION {{[src |-> src, dev |-> w.dev, ct |-> w.ct, lane |-> lane(w.mark)] :
                    w \in Ways(x, src, flow[x].ct, flow[x].est)} :
               src \in IF flow[x].est THEN {flow[x].src} ELSE MainRoute(x.dest)}

\* The chains are those of an activation that is not committed yet.
Trial ==
    /\ helper.work.next # None /\ kern.doc.active = helper.work.next
    /\ helper.work.ask.activates

\* A packet that is not let out leaves no conntrack entry; one that is let out
\* is answered.
Send(x) ==
    /\ \E p \in Packets(x) :
        flow' = [flow EXCEPT ![x] =
            [ct |-> p.ct, est |-> TRUE, src |-> p.src,
             lane |-> IF p.lane = None THEN @.lane ELSE p.lane,
             auth |-> IF p.lane = None THEN @.auth ELSE IF Trial THEN 0 ELSE used.auths]]
    /\ UNCHANGED <<net, kern, helper, used>>

\* The flow ends; conntrack forgets it.
Close(x) ==
    /\ flow[x].est
    /\ flow' = [flow EXCEPT ![x] = NewFlow]
    /\ UNCHANGED <<net, kern, helper, used>>

-----------------------------------------------------------------------------
(* Links and what others do to the resources *)

\* The kernel drops the lane routes through a device that loses its address or
\* disappears; without carrier they stay ("linkdown").
Dropped(i, fams) == [kern EXCEPT !.routes = {r \in @ : ~(r.dev = i /\ r.fam \in fams)}]

Links(what, i) ==
    LET none == [f \in Families |-> "none"]
    IN  \/ /\ what = "gone" /\ net.link[i].index # 0
           /\ net' = [net EXCEPT !.link[i].index = 0, !.link[i].addr = none,
                                 !.link[i].default = none]
           /\ kern' = Dropped(i, Families)
        \/ /\ what = "back" /\ net.link[i].index = 0
           /\ net' = [net EXCEPT !.link[i] =
                [@ EXCEPT !.index = 1 + Max({net.link[j].index : j \in Interfaces} \cup {used.last}),
                          !.up = TRUE, !.addr = [f \in Families |-> "fresh"],
                          !.default = [f \in Families |-> "via"]]]
           /\ UNCHANGED kern
        \/ /\ what = "carrier" /\ net.link[i].index # 0
           /\ net' = [net EXCEPT !.link[i].up = ~@]
           /\ UNCHANGED kern
        \/ /\ what = "address"
           /\ \E f \in Families :
                /\ net.link[i].addr[f] # "none"
                /\ net' = [net EXCEPT !.link[i].addr[f] = "none", !.link[i].default[f] = "none"]
                /\ kern' = Dropped(i, {f})

\* An administrator removes a lane route or a rule, or adds a route to a lane's
\* table; the families are alike, so only one of them drifts.
Drifts(what) ==
    LET mine(resources) == {r \in resources : r.fam = V4}
    IN  /\ helper.pc \in {"idle", "asked"} /\ helper.plan # None
        /\ UNCHANGED net
        /\ \/ what = "route" /\ \E r \in mine(kern.routes \cap RoutesOf(helper.plan)) :
                kern' = [kern EXCEPT !.routes = @ \ {r}]
           \/ what = "rule" /\ \E r \in mine(kern.rules) : kern' = [kern EXCEPT !.rules = @ \ {r}]
           \/ what = "foreign" /\ \E r \in mine(kern.rules) :
                kern' = [kern EXCEPT !.routes = @ \cup {Alien(r.fam, r.mark)}]

Change ==
    /\ used.changes < MaxChanges
    /\ \E what \in Changes : Drifts(what) \/ \E i \in Interfaces : Links(what, i)
    /\ used' = [used EXCEPT !.changes = @ + 1,
                            !.last = Max({net'.link[j].index : j \in Interfaces} \cup {@})]
    /\ UNCHANGED <<helper, flow>>

-----------------------------------------------------------------------------
(* The helper *)

AuthIdents(p, top) == {top.iface[l.iface].ident : l \in Elements(p.lanes)} \ {None}

\* capture_topology, before the authorization prompt of an activation or at the
\* beginning of a refresh; the resolutions come with the activation.
Capture ==
    LET ask(p, resolved, activates) ==
            [prof |-> p, resolved |-> resolved, activates |-> activates,
             top |-> RestrictedTo(Topology(net), IF activates THEN AuthIdents(p, Topology(net))
                                                 ELSE helper.auth.grant)]
    IN  /\ helper.pc = "idle" /\ used.plans < MaxPlans
        /\ \/ \E p \in Profiles : \E resolved \in Resolutions(p) :
                helper' = [helper EXCEPT !.pc = "asked", !.work.ask = ask(p, resolved, TRUE)]
           \/ /\ helper.plan # None
              /\ helper' = [helper EXCEPT !.pc = "asked",
                    !.work.ask = ask(helper.auth.prof, helper.auth.resolved, FALSE)]
        /\ UNCHANGED <<net, kern, flow, used>>

\* tolerated_lost_unicast: the committed resources are exact but for unicasts
\* that the next plan gives up; a route without carrier it gives up too.
Tolerated(next) ==
    LET plan == helper.plan
        lost == RoutesOf(plan) \ kern.routes
        usedBy(r) == r.tab \in DOMAIN next.lanes /\ next.lanes[r.tab].route[r.fam] # "none"
        linkdown == {r \in kern.routes : r.dev # None /\ ~LinkReady(net.link[r.dev])}
    IN  /\ kern.doc = [active |-> plan, guard |-> FALSE]
        /\ kern.rules = RulesOf(plan) /\ kern.routes \subseteq RoutesOf(plan)
        /\ \A r \in lost : r.dev # None /\ ~usedBy(r)
        /\ \A r \in linkdown : ~usedBy(r)

\* detect_resource_conflicts: a table of the plan holds its terminal and the
\* unicast that the current plan has there, or else the one of the plan.
Conflicts(plan, current) ==
    LET owner(r) == IF current # None /\ r.tab \in DOMAIN current.lanes THEN current ELSE plan
    IN  {r \in kern.routes :
            /\ r.tab \in DOMAIN plan.lanes
            /\ r \notin UnicastsOf(owner(r)) \cup {Terminal(r.fam, r.tab)}}

\* ensure_interface_settings looks up the device of every lane with an IPv4
\* route, and refuses when it is not the one of the plan.  (It skips devices
\* with a receipt; one that was replaced has lost the committed routes.)
IdentitiesHold(next) ==
    \A n \in DOMAIN next.lanes : next.lanes[n].route[V4] # "none" =>
        net.link[next.lanes[n].iface].index = next.lanes[n].ident

\* The exits a decision may name: approved connections that are ready, and the
\* lane of the system's default where the profile follows it; none, only when
\* the primary is not ready.
Decisions(p, top) ==
    LET up(id, f) == Ready(top, LaneOf(p, id).iface, f)
        first(f) == IF p.primary # None THEN {p.primary}
                    ELSE {l.id : l \in {m \in Elements(p.lanes) : m.iface = top.default[f]}}
        ready(f) == {id \in first(f) \cup Elements(p.backups) : up(id, f)}
    IN  {e \in [Families -> {None} \cup LaneIds(p)] : \A f \in Families :
            IF e[f] = None THEN ready(f) \cap first(f) = {} ELSE e[f] \in ready(f)}

\* activate_runtime_inner and refresh_armed up to the journal: the candidate
\* is refused, changes nothing, or becomes pending.
Begin ==
    LET a == helper.work.ask
        gen == IF helper.plan = None THEN 1 ELSE helper.plan.gen + 1
    IN  /\ helper.pc = "asked"
        /\ \E exits \in Decisions(a.prof, a.top) :
            LET next == Compile(a.prof, a.top, exits, a.resolved, gen)
                same == helper.plan # None /\ [next EXCEPT !.gen = helper.plan.gen] = helper.plan
            IN  IF /\ CanCompile(a.prof, a.top, exits, a.resolved) /\ Acceptable(next)
                   /\ Tolerated(next) /\ Conflicts(next, helper.plan) = {} /\ IdentitiesHold(next)
                   /\ a.activates \/ ~same
                THEN /\ helper' = [helper EXCEPT !.pc = "guard", !.work =
                            [next |-> next, ask |-> a, lost |-> RoutesOf(helper.plan) \ kern.routes]]
                     /\ used' = [used EXCEPT !.plans = @ + 1]
                ELSE /\ helper' = [helper EXCEPT !.pc = "idle", !.work = NoWork]
                     /\ UNCHANGED used
        /\ UNCHANGED <<net, kern, flow>>

At(pc, then) == helper.pc = pc /\ helper' = [helper EXCEPT !.pc = then]

\* install_guard: the old chains and the guard, in one batch
InstallGuard ==
    /\ At("guard", "prepare")
    /\ kern' = [kern EXCEPT !.doc = [active |-> helper.plan, guard |-> TRUE]]
    /\ UNCHANGED <<net, flow, used>>

\* A unicast can be added while its device exists and has an address.
CanAdd(routes) ==
    \A r \in routes : r.dev # None =>
        net.link[r.dev].index # 0 /\ net.link[r.dev].addr[r.fam] # "none"

\* prepare_routes: tables of the next plan get its routes, the others keep theirs.
Prepare ==
    /\ At("prepare", "activate")
    /\ CanAdd(UnicastsOf(helper.work.next))
    /\ kern' = [kern EXCEPT
        !.routes = RoutesOf(helper.work.next)
            \cup {r \in @ : r.tab \notin DOMAIN helper.work.next.lanes},
        !.rules = @ \cup RulesOf(helper.work.next)]
    /\ UNCHANGED <<net, flow, used>>

\* activate_nft: the chains of the next plan, still guarded
Activate ==
    /\ At("activate", "verify")
    /\ kern' = [kern EXCEPT !.doc = [active |-> helper.work.next, guard |-> TRUE]]
    /\ UNCHANGED <<net, flow, used>>

\* verify, then remove_generation: what the next plan does not have goes.
Verify ==
    /\ At("verify", "commit")
    /\ RoutesOf(helper.work.next) \subseteq kern.routes
    /\ kern' = [kern EXCEPT !.routes = @ \cap RoutesOf(helper.work.next),
                            !.rules = @ \cap RulesOf(helper.work.next)]
    /\ UNCHANGED <<net, flow, used>>

\* remove_guard: the chains of the next plan alone
RemoveGuard ==
    /\ At("commit", "save")
    /\ kern' = [kern EXCEPT !.doc.guard = FALSE]
    /\ UNCHANGED <<net, flow, used>>

\* exact_committed_state: what is live is the next plan's, nothing less or more.
Exact == kern.routes = RoutesOf(helper.work.next) /\ kern.rules = RulesOf(helper.work.next)

\* persist_committed_with_receipt: plan and grant are in force once saved.
Commit ==
    LET a == helper.work.ask
    IN  /\ helper.pc = "save" /\ Exact
        /\ helper' = [pc |-> "idle", plan |-> helper.work.next, work |-> NoWork,
                      auth |-> IF ~a.activates THEN helper.auth
                               ELSE [prof |-> a.prof, resolved |-> a.resolved,
                                     grant |-> {a.top.iface[i].ident : i \in Interfaces} \ {None}]]
        /\ used' = [used EXCEPT !.auths = IF a.activates THEN @ + 1 ELSE @]
        /\ UNCHANGED <<net, kern, flow>>

\* A step fails: a command, a link that vanished, a verification or the save.
\* Once the guard is removed the rollback starts without it.
Fail ==
    /\ \/ helper.pc = "prepare" /\ ~CanAdd(UnicastsOf(helper.work.next)) /\ UNCHANGED used
       \/ helper.pc = "verify" /\ ~(RoutesOf(helper.work.next) \subseteq kern.routes) /\ UNCHANGED used
       \/ helper.pc = "save" /\ ~Exact /\ UNCHANGED used
       \/ /\ helper.pc \in {"guard", "prepare", "activate", "verify", "commit", "save"}
          /\ used.faults < MaxFaults
          /\ used' = [used EXCEPT !.faults = @ + 1]
    /\ helper' = [helper EXCEPT !.pc = "undo"]
    /\ UNCHANGED <<net, kern, flow>>

\* restore: rules and tables of both plans are removed first,
Undo ==
    /\ At("undo", "drop")
    /\ kern' = [kern EXCEPT !.routes = {}, !.rules = {}]
    /\ UNCHANGED <<net, flow, used>>
\* then the nftables table,
DropTable ==
    /\ IF helper.plan = None
       THEN helper.pc = "drop" /\ helper' = [helper EXCEPT !.pc = "idle", !.work = NoWork]
       ELSE At("drop", "reinstall")
    /\ kern' = [kern EXCEPT !.doc = NoDoc]
    /\ UNCHANGED <<net, flow, used>>
\* and the routing of the previous plan is installed, without what was lost.
\* Without a device that the plan needs it fails; the retained journal is
\* replayed later.
Reinstall ==
    LET basis == RoutesOf(helper.plan) \ helper.work.lost
    IN  /\ At("reinstall", "rerender")
        /\ CanAdd(basis)
        /\ kern' = [kern EXCEPT !.routes = basis, !.rules = RulesOf(helper.plan)]
        /\ UNCHANGED <<net, flow, used>>
Rerender ==
    /\ helper.pc = "rerender"
    /\ kern' = [kern EXCEPT !.doc = [active |-> helper.plan, guard |-> FALSE]]
    /\ helper' = [helper EXCEPT !.pc = "idle", !.work = NoWork]
    /\ UNCHANGED <<net, flow, used>>

\* Faulty variant: the ownership of the routing is not verified.
DeactivateUnverified ==
    /\ helper.plan # None /\ At("idle", "clean")
    /\ kern.doc = [active |-> helper.plan, guard |-> FALSE]
    /\ kern' = [kern EXCEPT !.routes = {}, !.rules = {}]
    /\ UNCHANGED <<net, flow, used>>
\* cleanup: rules and routes, then the table
Deactivate ==
    /\ helper.plan # None /\ At("idle", "clean")
    /\ kern.doc = [active |-> helper.plan, guard |-> FALSE] /\ Conflicts(helper.plan, None) = {}
    /\ kern.routes \subseteq RoutesOf(helper.plan) /\ kern.rules \subseteq RulesOf(helper.plan)
    /\ kern' = [kern EXCEPT !.routes = {}, !.rules = {}]
    /\ UNCHANGED <<net, flow, used>>
Deactivated ==
    /\ helper.pc = "clean"
    /\ kern' = [kern EXCEPT !.doc = NoDoc]
    /\ helper' = NoHelper
    /\ used' = [used EXCEPT !.auths = @ + 1]
    /\ UNCHANGED <<net, flow>>

-----------------------------------------------------------------------------
(* Health *)

\* KernelSnapshot::route_state and rule_state
\* Faulty variant: a route of somebody else in the table is taken for the lane's.
AnyRoute(plan, n, f) ==
    \E r \in kern.routes : r.fam = f /\ r.tab = n /\ r # Terminal(f, n)
ExactRoute(plan, n, f) ==
    {r \in kern.routes : r.fam = f /\ r.tab = n} \ {Terminal(f, n)} = {Unicast(plan, f, n)}
ExactRule(n, f) == {r \in kern.rules : r.fam = f /\ r.prio = n} = {PolicyRule(f, n)}

\* route_reachable: the interface is ready and its default is the lane's
Reachable(top, l, f) == Ready(top, l.iface, f) /\ top.iface[l.iface].route[f] = l.route[f]
\* inspect_lane
LaneHealthy(plan, n) ==
    LET l == plan.lanes[n]
        top == Topology(net)
        fams == {f \in Families : l.route[f] # "none"}
    IN  /\ net.link[l.iface].index # 0 /\ fams # {}
        /\ \A f \in fams :
            /\ Reachable(top, l, f)
            /\ ExactRoute(plan, n, f) /\ ExactRule(n, f)

\* evaluate_health and aggregate_health: Healthy unless something degrades it
Health ==
    IF helper.plan = None THEN "inactive"
    ELSE IF /\ kern.doc = [active |-> helper.plan, guard |-> FALSE]
            /\ \A n \in DOMAIN helper.plan.lanes : LaneHealthy(helper.plan, n)
    THEN "healthy" ELSE "degraded"

-----------------------------------------------------------------------------
Init ==
    /\ net \in Nets
    /\ kern = Nothing
    /\ helper = NoHelper
    /\ flow = [x \in Flows |-> NewFlow]
    /\ used = [changes |-> 0, plans |-> 0, faults |-> 0, auths |-> 1,
               last |-> Max({net.link[i].index : i \in Interfaces})]

Next ==
    \/ \E x \in Flows : Send(x) \/ Close(x)
    \/ Change
    \/ Capture \/ Begin
    \/ InstallGuard \/ Prepare \/ Activate \/ Verify \/ RemoveGuard \/ Commit \/ Fail
    \/ Undo \/ DropTable \/ Reinstall \/ Rerender
    \/ Deactivate \/ Deactivated

Spec == Init /\ [][Next]_vars

-----------------------------------------------------------------------------
(* Properties *)

\* Plans are compiled from valid profiles, marks are slots, and the live table
\* is the one of the helper's plan or of the pending one.
TrafficTypeOK ==
    /\ helper.pc \in {"idle", "asked", "guard", "prepare", "activate", "verify", "commit",
                      "save", "undo", "drop", "reinstall", "rerender", "clean"}
    /\ kern.doc.active \in {None, helper.plan, helper.work.next}
    /\ \A x \in Flows : flow[x].ct \in 0..MaxLanes
    /\ helper.plan # None => ValidProfile(helper.auth.prof) /\ Acceptable(helper.plan)

\* Every destination, for every application with a rule and for the others.
NewFlows(p) ==
    [dest : Dests, app : {None} \cup {r.id : r \in Elements(p.rules)}, mark : {0},
     control : {FALSE}]

\* What the user asked for a new flow, from the profile alone: the first
\* enabled rule that matches and decides, the nearest fallback that is up, the
\* failure policy, else the connected network or the primary exit.
Meaning(p, resolved, plan, x) ==
    LET f == DestFamily[x.dest]
        up(id) == Available(plan.lanes, id, f)
        ways(id) == {n \in 0..Len(p.lanes) : FallbackChain(p, id)[n] # None
                                               /\ up(FallbackChain(p, id)[n])}
        exit == IF plan.exits[f] = None THEN None ELSE LaneOf(p, plan.exits[f]).iface
        target(r) ==
            IF r.action = "block" THEN None
            ELSE IF r.action = "direct" THEN exit
            ELSE IF ways(r.lane) # {}
                 THEN LaneOf(p, FallbackChain(p, r.lane)[Min(ways(r.lane))]).iface
            ELSE IF LaneOf(p, r.lane).fail = "direct" THEN exit ELSE None
        decides(r) ==
            /\ r.on
            /\ IF r.app # None THEN r.id = x.app
               ELSE x.dest \in IF r.kind = "domain" THEN resolved[r.id] ELSE r.dests
            /\ ~(/\ r.action = "route" /\ ways(r.lane) = {}
                 /\ LaneOf(p, r.lane).fail = "inactive")
        deciding == {r \in Elements(p.rules) : decides(r)}
    IN  IF deciding # {}
        THEN target(CHOOSE r \in deciding : \A q \in deciding \ {r} : Before(r, q))
        ELSE exit

\* Compilation keeps the meaning of the profile: whatever order, overlap,
\* fallbacks and repeated targets the rules have, the chains rendered from the
\* plan that is committed send a new flow where the profile says, or reject it.
ProfileMeaning ==
    helper.pc = "idle" /\ helper.plan # None => \A x \in NewFlows(helper.auth.prof) :
        LET plan == helper.plan
            k == [fam |-> DestFamily[x.dest], dest |-> x.dest, app |-> x.app, mark |-> 0,
                  control |-> FALSE, ct |-> 0, est |-> FALSE]
            sent == Output(plan, k)
            meant == Meaning(helper.auth.prof, helper.auth.resolved, plan, x)
        IN  ~(x.dest \in plan.networks /\ Verdicts(plan, k) = {}) =>
            IF meant = None THEN ~sent.ok
            ELSE sent.ok /\ plan.lanes[sent.mark].iface = meant

\* The profile, with its resolutions, that the chains of the table are made of.
Rendering == IF kern.doc.active = helper.plan THEN helper.auth ELSE helper.work.ask

\* From the first command of an activation to the last one of a deactivation,
\* in every stage of every transition, with routes lost, drifted or without
\* carrier and with a plan made from a topology that is no longer true, the
\* chains of a plan are there and a new flow leaves by the connection their
\* profile gives it or not at all.  A rollback to an earlier plan is the
\* exception: it deletes the table before it installs that plan's routing, and
\* until the table is rendered again nothing holds any flow.
NoEscape ==
    LET plan == kern.doc.active
        meant(x) == Meaning(Rendering.prof, Rendering.resolved, plan, x)
        undecided(x) ==
            /\ x.dest \in plan.networks
            /\ Verdicts(plan, [fam |-> DestFamily[x.dest], dest |-> x.dest, app |-> x.app]) = {}
    IN  /\ helper.plan # None /\ helper.pc \notin {"reinstall", "rerender"} => plan # None
        /\ plan # None => \A x \in NewFlows(Rendering.prof) : \A src \in MainRoute(x.dest) :
            \A w \in Ways(x, src, 0, FALSE) : w.dev = meant(x) \/ undecided(x)

\* While the table is there, refreshes, failovers and their rollbacks send a
\* flow nowhere but to the connection it has; an activation, while it is on
\* trial and afterwards, may move it.  In a rollback the table is gone for a
\* while: then every flow leaves by the main table, whatever lane it has.
FlowsStay ==
    ~Trial /\ kern.doc.active # None => \A x \in Flows : flow[x].auth = used.auths =>
        \A p \in Packets(x) : p.dev = flow[x].lane

\* A report of Healthy can be believed: a new flow that the plan gives a lane
\* leaves by it.  This is only so while the host has the addresses and the
\* devices the plan was made with: health compares neither.
HealthyDelivers ==
    LET plan == helper.plan
        known == /\ Topology(net).addresses = plan.addresses
                 /\ \A l \in Elements(plan.lanes) : l.ident \in {None, net.link[l.iface].index}
        meant(x) == Meaning(helper.auth.prof, helper.auth.resolved, plan, x)
    IN  helper.pc = "idle" /\ Health = "healthy" /\ known =>
        \A x \in NewFlows(helper.auth.prof) : meant(x) # None /\ x.dest \notin plan.networks =>
                \A src \in MainRoute(x.dest) : {w.dev : w \in Ways(x, src, 0, FALSE)} = {meant(x)}

\* Resources of others are never removed by a step of the helper.
ForeignKept ==
    [][{r \in kern.routes : r.via = "alien"} \subseteq kern'.routes]_vars
=============================================================================
