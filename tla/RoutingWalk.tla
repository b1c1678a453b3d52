----------------------------- MODULE RoutingWalk -----------------------------
(***************************************************************************)
(* The routing steps of an update, walked one at a time between any two      *)
(* plans: prepare_routes runs transition_steps, remove_generation runs        *)
(* retire_steps (backend/privileged.rs, CommandKernelRunner).                 *)
(***************************************************************************)
EXTENDS PlanRouting

VARIABLES
    outgoing,   \* the plan that is applied
    missing,    \* its unicast defaults the kernel dropped
    incoming,   \* the plan to come
    inKernel,   \* the kernel's routes and rules
    remaining   \* the steps left

walkVars == <<outgoing, missing, incoming, inKernel, remaining>>

Basis == RoutingBasis(outgoing, missing)

\* tolerated_lost_unicast: what was dropped, the plan to come does not use.
Tolerable ==
    SUBSET {ft \in LaneFamilies(outgoing) : /\ HasUnicast(outgoing, ft[1], ft[2])
                                            /\ ~HasUnicast(incoming, ft[1], ft[2])}

WalkInit ==
    /\ outgoing \in {[gen |-> 1, lanes |-> l] : l \in Layouts} \cup {NoPlan}
    /\ incoming \in {[gen |-> 2, lanes |-> l] : l \in Layouts}
    /\ missing \in Tolerable
    /\ inKernel = Own(Basis)
    /\ remaining = TransitionSteps(Basis, incoming)
                 \o (IF outgoing = NoPlan THEN <<>> ELSE RetireSteps(Basis, incoming))

WalkStep ==
    /\ remaining # <<>>
    /\ ~Refused(inKernel, Head(remaining))
    /\ inKernel' = ApplyRoutingStep(inKernel, Head(remaining))
    /\ remaining' = Tail(remaining)
    /\ UNCHANGED <<outgoing, missing, incoming>>

WalkDone == remaining = <<>> /\ UNCHANGED walkVars

WalkNext == WalkStep \/ WalkDone

WalkSpec == WalkInit /\ [][WalkNext]_walkVars

\* The steps end in exactly what the next plan owns, whatever the previous plan
\* was and whatever the kernel had dropped of it.
WalkEndsInNext == remaining = <<>> => inKernel = Own(incoming)

\* A lane both plans have keeps its policy rule through the update, and its table
\* always ends in a terminal route while it has no unicast default, but for the
\* moment an IPv6 gateway enters it.
SharedLanesStayRouted ==
    \A ft \in LaneFamilies(outgoing) \cap LaneFamilies(incoming) :
        /\ Rule(ft[1], ft[2]) \in inKernel.rules
        /\ \/ Terminal(ft[1], ft[2]) \in inKernel.routes
           \/ GatewayNeedsOpenTable(Basis, incoming, ft[1], ft[2])
=============================================================================
