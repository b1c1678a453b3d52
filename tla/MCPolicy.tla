------------------------------ MODULE MCPolicy ------------------------------
(* Two connections, one of them with an on-link network, and a second family  *)
(* that both of them have; profiles whose rules overlap, repeat targets and    *)
(* fall back, one that has only the second connection, one with a cycle.       *)
EXTENDS PolicyTraffic

CONSTANTS v4, v6, wan, vpn, web, lan, six

MCDestFamily == web :> v4 @@ lan :> v4 @@ six :> v6
MCDestLink == web :> None @@ lan :> wan @@ six :> None

Rule(id, prio, app, kind, dests, action, lane) ==
    [id |-> id, prio |-> prio, on |-> TRUE, app |-> app, kind |-> kind, dests |-> dests,
     action |-> action, lane |-> lane]
Lane(id, iface, fallback, fail) ==
    [id |-> id, name |-> iface, iface |-> iface, fallback |-> fallback, fail |-> fail]

Both ==
    [lanes |-> <<Lane(2, vpn, 1, "inactive"), Lane(1, wan, None, "block")>>,
     rules |-> <<Rule(2, 2, None, "net", {web}, "direct", None),
                 Rule(1, 1, None, "domain", {web}, "route", 2),
                 Rule(3, 3, None, "ip", {web}, "route", 2)>>,
     primary |-> 1, backups |-> <<2>>, enabled |-> TRUE]
Single ==
    [lanes |-> <<Lane(2, vpn, None, "inactive")>>,
     rules |-> <<Rule(1, 1, 1, "any", {}, "route", 2),
                 Rule(2, 1, None, "domain", {six}, "block", None)>>,
     primary |-> None, backups |-> <<>>, enabled |-> TRUE]
Cyclic == [Both EXCEPT !.lanes = <<Lane(2, vpn, 1, "block"), Lane(1, wan, 2, "block")>>]
MCProfiles == {Both, Single, Cyclic}

Flow(dest, app, mark, control) == [dest |-> dest, app |-> app, mark |-> mark, control |-> control]
MCFlows == {Flow(web, 1, 0, FALSE)}

Link(index, metric) ==
    [index |-> index, up |-> TRUE, addr |-> [f \in Families |-> "fresh"],
     default |-> [f \in Families |-> "via"], metric |-> metric]
MCNets == {[link |-> wan :> Link(1, 1) @@ vpn :> Link(2, 2), odd |-> {}]}
=============================================================================
