------------------------------- MODULE MCHelper -------------------------------
(* Small instances of HelperTransaction: one or two lanes over two devices. *)
EXTENDS HelperTransaction

Lane(d, v4, v6) == [dev |-> d, via |-> (4 :> v4 @@ 6 :> v6)]

\* A usable lane, the same lane without IPv6, and two lanes.
Both == <<Lane("eth", "gateway", "gateway")>>
OnlyV4 == <<Lane("eth", "gateway", "none")>>
Two == <<Lane("wan", "onlink", "none"), Lane("eth", "none", "gateway")>>

MCDevices == {"eth", "wan"}
MCLayouts == {Both, OnlyV4, Two}
MCOneLane == {Both, OnlyV4}
=============================================================================
