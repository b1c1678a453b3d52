------------------------------ MODULE MCRouting ------------------------------
(* Every plan of at most two lanes over one device, and two that move a lane *)
(* to another device. *)
EXTENDS RoutingWalk

Lane(d, v4, v6) == [dev |-> d, via |-> (4 :> v4 @@ 6 :> v6)]

MCDevices == {"eth", "wan"}
AnyLane == {Lane("eth", v4, v6) : v4 \in {"none", "gateway"}, v6 \in Vias}
MCLayouts ==
    {<<>>} \cup {<<a>> : a \in AnyLane} \cup {<<a, b>> : a \in AnyLane, b \in AnyLane}
    \cup {<<Lane("wan", "gateway", "gateway")>>}
=============================================================================
