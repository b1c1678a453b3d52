------------------------------ MODULE MCLeftover ------------------------------
(* Small instances of LeftoverCleanup: one lane, with and without IPv6,
   and two. *)
EXTENDS LeftoverCleanup

Lane(d, v4, v6) == [dev |-> d, via |-> (4 :> v4 @@ 6 :> v6)]
MCLayouts ==
    {<<Lane("eth", "gateway", "gateway")>>, <<Lane("eth", "onlink", "none")>>,
     <<Lane("wan", "none", "onlink"), Lane("eth", "gateway", "none")>>}
\* A lane's own route, one of a lane that has none in some plans, and one in a
\* table that no plan uses.
MCDefaults ==
    {[fam |-> 4, tab |-> 1, dev |-> "eth", via |-> "gateway"],
     [fam |-> 6, tab |-> 1, dev |-> "wan", via |-> "onlink"],
     [fam |-> 4, tab |-> 3, dev |-> "eth", via |-> "onlink"]}
=============================================================================
