------------------------------ MODULE MCRuntime ------------------------------
(* Small instances of RuntimeFailover: lanes a and b over two interfaces. *)
EXTENDS RuntimeFailover, TLC

MCLanes == {"a", "b"}
MCInterfaces == {"eth", "wlan"}
MCLaneInterface == "a" :> "eth" @@ "b" :> "wlan"

Policy(primary, backups, failover) ==
    [primary |-> primary, backups |-> backups, failover |-> failover]
MCPinned == {Policy("a", <<"b">>, TRUE)}
MCPolicies == MCPinned \cup {Policy(Follow, <<"b">>, TRUE), Policy("a", <<"b">>, FALSE)}
=============================================================================
