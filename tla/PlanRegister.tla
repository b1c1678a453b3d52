---------------------------- MODULE PlanRegister ----------------------------
(***************************************************************************)
(* What the helper promises its clients: one applied plan that changes all  *)
(* at once. A change is announced, worked on, and then either takes place    *)
(* with the kernel carrying the new plan, or is given up with the kernel     *)
(* carrying the old one. Crashes and failed commands are invisible here.     *)
(***************************************************************************)
CONSTANT Values         \* the plans, and the value that stands for no plan
CONSTANT Empty

VARIABLES
    value,      \* the plan the helper answers for
    intent,     \* the values a change under way leads to: none or one
    carried     \* the values the kernel fully carries: none or one

regVars == <<value, intent, carried>>

Init ==
    /\ value = Empty
    /\ intent = {}
    /\ carried = {Empty}

\* A change starts from a kernel that carries the value.
Announce ==
    /\ intent = {} /\ carried = {value}
    /\ \E v \in Values : intent' = {v}
    /\ UNCHANGED <<value, carried>>

\* The kernel is only touched while a change is announced.
Work ==
    /\ intent # {}
    /\ \E c \in SUBSET Values : carried' = c
    /\ UNCHANGED <<value, intent>>

Commit ==
    /\ intent # {} /\ carried = intent
    /\ value' \in intent
    /\ intent' = {}
    /\ UNCHANGED carried

GiveUp ==
    /\ intent # {} /\ carried = {value}
    /\ intent' = {}
    /\ UNCHANGED <<value, carried>>

Next == Announce \/ Work \/ Commit \/ GiveUp

Spec == Init /\ [][Next]_regVars
=============================================================================
