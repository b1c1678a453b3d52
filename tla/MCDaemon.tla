------------------------------- MODULE MCDaemon -------------------------------
(* Small instances of DaemonService. *)
EXTENDS DaemonService, TLC

CONSTANTS a1, a2, b

MCProfiles == {a1, a2, b}
\* a1 and a2 are one profile with a rule off and on.
MCIdOf == (a1 :> "a") @@ (a2 :> "a") @@ (b :> "b")
MCToggled == (a1 :> a2) @@ (a2 :> a1) @@ (b :> b)
MCValid == {a1, a2}
==============================================================================
