------------------------- MODULE DaemonService_proofs -------------------------
(***************************************************************************)
(* For any number of clients, profiles and requests: a failed application    *)
(* leaves the policy that was in force; the daemon does not show a plan as   *)
(* healthy after the helper gave it up, unless two failures met, or three    *)
(* where nothing is left to recover; and what it shows as healthy or         *)
(* inactive is what the helper has.                                        *)
(*                                                                         *)
(* All rest on the mutation lock (LockInv): whoever changes the helper or    *)
(* the applied plan holds it.  The first needs in addition that a receipt    *)
(* names the profile its activation replaced (UndoInv).  The others need     *)
(* that no reconciliation is under way with an older view of the helper when  *)
(* its plan changes: the gate is complete by then (GateInv, FirstInv), and    *)
(* a complete gate opens again only at a restart of the daemon or for the     *)
(* recovery of orphans (SparedInv, TruthInv).                              *)
(***************************************************************************)
EXTENDS DaemonService, TLAPS

-----------------------------------------------------------------------------
(* What a task has at each of its steps *)

\* The steps at which a task has nothing in its hands but its request.
Bare == {"idle", "gate", "again", "store", "show", "health", "ready", "activate", "cleanup",
         "recover", "rejoin"}
Fits(k) ==
    /\ k.op = "follow" => k.pc \in {"mutex", "follow"}
    /\ k.pc \in {"mutex", "follow"} /\ k.op = "follow" => k.view \in Statuses
    /\ k.pc \in Bare \/ (k.pc \in {"mutex", "reconcile"} /\ k.op # "follow") => k.view = None
    /\ k.pc \notin {"reconcile", "follow"} => k.read = None
    /\ k.pc = "reconcile" /\ k.read = None => k.was \in {"reconcile", "denied"}
    /\ k.pc = "store" => k.was \in Errors
    /\ k.pc = "ready" => k.op \in {"apply", "toggle", "launch"}
    /\ k.pc = "activate" => k.prof \in Profiles
    /\ k.pc = "verify" => k.view \in Plans /\ k.prof \in Profiles
    /\ k.pc \in {"verify", "restore"} => k.was \in Profiles \cup {None}
    /\ k.pc = "cleanup" => k.op = "deactivate"
    /\ k.pc = "recover" => k.op = "recover"
    /\ k.pc = "again" => k.op = "recover"
    /\ k.pc = "gate" => k.op # "recover"
    /\ k.pc = "rejoin" => k.op \in {"deactivate", "recover"}
    /\ k.pc = "follow" => k.op = "follow"

FitsInv == DaemonTypeOK /\ \A t \in Tasks : Fits(task[t])

-----------------------------------------------------------------------------
(* The mutation lock *)

\* The steps behind the lock.
Holds(k) ==
    \/ k.pc \in {"ready", "activate", "verify", "restore", "cleanup", "recover", "rejoin", "again",
                 "follow"}
    \/ k.op \in {"launch", "deactivate", "recover"} /\ k.pc \in {"gate", "reconcile", "store"}
LockInv == \A t \in Tasks : Holds(task[t]) => mutation = t

-----------------------------------------------------------------------------
(* The receipt of an activation *)

UndoInv ==
    /\ helper.undo # None => helper.undo.gen <= helper.gen /\ helper.prof # None
    /\ \A t \in Tasks :
         task[t].pc \in {"verify", "restore"} /\ helper.undo # None
            /\ helper.undo.gen = helper.gen => helper.undo.prof = task[t].was

-----------------------------------------------------------------------------
(* The reconciliation gate *)

\* The gate is held by the one that inspects, and only until it is complete.
GateInv ==
    /\ gate.holder # None => ~gate.completed /\ task[gate.holder].pc = "reconcile"
    /\ \A t \in Tasks : task[t].pc = "reconcile" => gate.holder = t
    /\ gate.completed => gate.last = "none"
    /\ gate.attempts > 0 /\ gate.last = "none" => gate.completed
    /\ helper.prof # None => helper.left = "none"

\* The holder of the lock removed the plan and is about to tell the state.
Rejoining == mutation # None /\ task[mutation].pc = "rejoin" /\ task[mutation].op = "deactivate"
\* The holder of the lock has reset the gate and reconciles again.
Recovering ==
    mutation # None /\ task[mutation].pc \in {"again", "reconcile"} /\ task[mutation].op = "recover"

\* What a task knows of the helper.
KnowsInv ==
    \A t \in Tasks :
      LET k == task[t]
      IN  /\ k.pc = "reconcile" /\ k.read # None /\ k.read.prof # None => k.read.left = "none"
          /\ k.pc = "follow" /\ k.read # None => k.read.prof = helper.prof
          /\ k.op = "deactivate" /\ k.pc = "reconcile" /\ k.read # None => k.read.prof = helper.prof
          /\ k.op = "deactivate" /\ k.pc = "store" /\ k.was = "none" => gate.completed
          /\ k.op = "recover" /\ k.pc = "rejoin" => helper.left = "none"

\* As long as nothing failed, a plan is only changed behind a complete gate.
Unharmed(k) ==
    /\ k.pc = "reconcile" => k.read # None
    /\ k.pc = "reconcile" /\ k.read.prof = None => helper.prof = None
    /\ k.pc = "store" => k.was # "reconcile"
    /\ k.op = "deactivate" /\ k.pc = "store" /\ k.was = "legacy" => helper.prof = None
    /\ k.pc = "store" /\ k.was = "none" => gate.completed \/ Recovering
    /\ k.op \in {"apply", "toggle"} /\ k.pc = "mutex" => gate.completed \/ Recovering
    /\ k.op \in {"apply", "toggle"} /\ k.pc = "ready" => gate.completed
    /\ k.pc \in {"activate", "verify"} => gate.completed
    /\ k.pc = "cleanup" => gate.completed \/ helper.prof = None
    /\ k.pc # "restore"
UnharmedInv ==
    used.faults = 0 =>
      /\ gate.last # "reconcile"
      /\ gate.last = "legacy" => helper.prof = None
      /\ Recovering =>
           /\ helper.left = "none"
           /\ gate.attempts = 0 \/ gate.completed
           /\ \A t \in Tasks : task[t].pc = "reconcile" => task[t].read.left = "none"
      /\ \A t \in Tasks : Unharmed(task[t])

\* With one failure at most, nobody brings a plan back that was given up.
FirstInv ==
    used.faults <= 1 =>
      /\ state.applied # None /\ state.health = "healthy" /\ helper.prof = None => Rejoining
      /\ \A t \in Tasks :
           LET k == task[t]
           IN  /\ k.pc = "reconcile" /\ k.read # None /\ k.read.prof # None /\ helper.prof = None
                    => Rejoining
               /\ k.pc = "restore" => gate.completed

\* With nothing left to recover a gate once complete stays so, until the daemon
\* is restarted.  A plan behind a gate that is not complete takes a first
\* failure, the restart, and to remove it there takes a second.
Given == gate.completed \/ helper.prof = None \/ used.faults >= 2
Spared(k) ==
    /\ k.pc = "reconcile" /\ k.read # None =>
         k.read.left # "orphan" /\ (k.read.prof = None => helper.prof = None)
    /\ k.pc = "reconcile" /\ k.read = None /\ k.was = "reconcile" => Given
    /\ k.pc = "store" => k.was # "orphan"
    /\ k.pc = "store" /\ k.was = "none" => gate.completed
    /\ k.pc = "store" /\ k.was = "reconcile" => Given
    /\ k.pc = "store" /\ k.was = "legacy" => gate.completed \/ helper.prof = None
    /\ k.op \in {"apply", "toggle"} /\ k.pc \in {"mutex", "ready"} => gate.completed
    /\ k.pc \in {"activate", "verify", "restore"} => gate.completed
    /\ k.pc = "cleanup" => Given
    /\ k.op = "recover" => k.pc = "mutex"
SparedInv ==
    "orphan" \notin Leftovers =>
      /\ helper.left # "orphan" /\ gate.last # "orphan" /\ state.err # "orphan"
      /\ ~gate.completed /\ helper.prof # None => used.faults >= 1
      /\ gate.last = "reconcile" => Given
      /\ gate.last = "legacy" => helper.prof = None
      /\ \A t \in Tasks : Spared(task[t])

\* The daemon names the profile, or none.
Names(s, p) == IF p = None THEN s.applied = None ELSE s.applied # None /\ s.applied.prof = p

\* Before the first failure, or up to the second when no leftovers can be
\* recovered, what the daemon shows behind a complete gate is so, and a
\* reconciliation under way has read what the helper still has.
Watched == used.faults = 0 \/ ("orphan" \notin Leftovers /\ used.faults <= 2)
Tells(k) ==
    /\ k.pc = "reconcile" /\ k.read # None => k.read.prof = helper.prof \/ Rejoining
    /\ k.pc = "rejoin" /\ k.op = "deactivate" => helper.prof = None
    /\ k.pc \in {"activate", "verify", "restore"} => state.health = "applying"
TruthInv ==
    Watched =>
      /\ gate.completed /\ state.health \in {"healthy", "inactive"} =>
           Names(state, helper.prof) \/ Rejoining
      /\ state.applied # None /\ state.health = "healthy" /\ helper.prof = None => Rejoining
      /\ \A t \in Tasks : Tells(task[t])

DaemonInv ==
    /\ FitsInv /\ LockInv /\ UndoInv /\ GateInv /\ KnowsInv /\ UnharmedInv /\ FirstInv
    /\ SparedInv /\ TruthInv

-----------------------------------------------------------------------------
(* Types and steps *)

\* The state of one task changed, to one it may have.
Moved(t) ==
    /\ task' \in [Tasks -> TaskStates] /\ Fits(task'[t])
    /\ \A x \in Tasks \ {t} : task'[x] = task[x]

\* A task is assigned a state it may have.
LEMMA SetMoves ==
    ASSUME NEW t \in Tasks, FitsInv, NEW k \in TaskStates, Fits(k),
           task' = [task EXCEPT ![t] = k]
    PROVE  Moved(t) /\ task'[t] = k
  BY DEF FitsInv, DaemonTypeOK, Moved

\* A task that answers is at rest.
LEMMA EndsMoves ==
    ASSUME NEW t \in Tasks, FitsInv, Ends(t)
    PROVE  Moved(t) /\ task'[t] = AtRest /\ mutation' \in Tasks \cup {None}
<1>1. AtRest \in TaskStates
  BY DEF AtRest, TaskStates, PCs
<1>2. Fits(AtRest)
  BY NoneAssumption DEF AtRest, Fits, Bare, Ops
<1>3. task' = [task EXCEPT ![t] = AtRest]
  BY DEF Ends
<1>4. mutation' \in Tasks \cup {None}
  BY DEF FitsInv, DaemonTypeOK, Ends
<1> QED BY <1>1, <1>2, <1>3, <1>4, SetMoves

\* What is left of a task that answered.
LEMMA EndsLeaves ==
    ASSUME NEW t \in Tasks, FitsInv, Ends(t)
    PROVE  /\ task'[t].pc = "idle" /\ task'[t].op = None /\ task'[t].read = None
           /\ mutation' = (IF mutation = t THEN None ELSE mutation)
<1>1. task'[t] = AtRest
  BY EndsMoves
<1>2. AtRest.pc = "idle" /\ AtRest.op = None /\ AtRest.read = None
  BY DEF AtRest
<1> QED BY <1>1, <1>2 DEF Ends

\* A task goes on to a step that fits what it has.
LEMMA GoesMoves ==
    ASSUME NEW t \in Tasks, FitsInv, NEW pc \in PCs, Goes(t, pc),
           Fits([task[t] EXCEPT !.pc = pc])
    PROVE  Moved(t) /\ task'[t] = [task[t] EXCEPT !.pc = pc]
<1>1. task[t] \in TaskStates
  BY DEF FitsInv, DaemonTypeOK
<1>2. [task[t] EXCEPT !.pc = pc] \in TaskStates
  BY <1>1 DEF TaskStates
<1> QED BY <1>2, SetMoves DEF Goes

\* Where a result of the reconciliation leads.
LEMMA ContinuesMoves ==
    ASSUME NEW t \in Tasks, FitsInv, NEW e \in Errors, task[t].pc \in {"gate", "again", "store"},
           Continues(t, e)
    PROVE  /\ Moved(t) /\ mutation' \in Tasks \cup {None}
           /\ \/ /\ task[t].op \in {"apply", "toggle"} /\ e = "none"
                 /\ task'[t] = [task[t] EXCEPT !.pc = "mutex"] /\ mutation' = mutation
              \/ /\ task[t].op = "launch" /\ e = "none"
                 /\ task'[t] = [task[t] EXCEPT !.pc = "ready"] /\ mutation' = mutation
              \/ /\ task[t].op = "deactivate"
                 /\ e \in {"none", "legacy"} \/ (e = "reconcile" /\ state.applied # None)
                 /\ task'[t] = [task[t] EXCEPT !.pc = "cleanup"] /\ mutation' = mutation
              \/ Ends(t)
<1> DEFINE k == task[t]
<1>0. k \in TaskStates /\ Fits(k) /\ mutation \in Tasks \cup {None}
  BY DEF FitsInv, DaemonTypeOK
<1>1. \/ /\ k.op \in {"apply", "toggle"} /\ e = "none"
         /\ Goes(t, "mutex") /\ mutation' = mutation
      \/ /\ k.op = "launch" /\ e = "none" /\ Goes(t, "ready") /\ mutation' = mutation
      \/ /\ k.op = "deactivate"
         /\ e \in {"none", "legacy"} \/ (e = "reconcile" /\ state.applied # None)
         /\ Goes(t, "cleanup") /\ mutation' = mutation
      \/ Ends(t)
  BY DEF Continues
<1>2. CASE k.op \in {"apply", "toggle"} /\ Goes(t, "mutex") /\ e = "none" /\ mutation' = mutation
  <2>1. Fits([k EXCEPT !.pc = "mutex"])
    BY <1>0, <1>2 DEF TaskStates, Fits, Bare
  <2> QED BY <2>1, <1>0, <1>2, GoesMoves DEF PCs
<1>3. CASE k.op = "launch" /\ Goes(t, "ready") /\ e = "none" /\ mutation' = mutation
  <2>1. Fits([k EXCEPT !.pc = "ready"])
    BY <1>0, <1>3 DEF TaskStates, Fits, Bare
  <2> QED BY <2>1, <1>0, <1>3, GoesMoves DEF PCs
<1>4. CASE /\ k.op = "deactivate" /\ Goes(t, "cleanup") /\ mutation' = mutation
           /\ e \in {"none", "legacy"} \/ (e = "reconcile" /\ state.applied # None)
  <2>1. Fits([k EXCEPT !.pc = "cleanup"])
    BY <1>0, <1>4 DEF TaskStates, Fits, Bare
  <2> QED BY <2>1, <1>0, <1>4, GoesMoves DEF PCs
<1>5. CASE Ends(t)
  BY <1>5, EndsMoves
<1> QED BY <1>1, <1>2, <1>3, <1>4, <1>5

\* Lock keeps the types.
LEMMA LockFits ==
    ASSUME NEW t \in Tasks, FitsInv, Lock(t)
    PROVE  /\ FitsInv' /\ Moved(t) /\ task[t].pc = "mutex" /\ mutation = None
           /\ \/ /\ task[t].op \in {"apply", "toggle"} /\ mutation' = t
                 /\ task'[t] = [task[t] EXCEPT !.pc = "ready"]
              \/ /\ task[t].op \in {"launch", "deactivate"} /\ mutation' = t
                 /\ task'[t] = [task[t] EXCEPT !.pc = "gate", !.seen = attempts]
              \/ /\ task[t].op = "recover" /\ mutation' = t
                 /\ task'[t] = [task[t] EXCEPT !.pc = "recover"]
              \/ /\ task[t].op = "follow" /\ mutation' = t
                 /\ task'[t] = [task[t] EXCEPT !.pc = "follow"]
              \/ Ends(t)
<1> DEFINE k == task[t]
<1>0. k \in TaskStates /\ Fits(k) /\ k.pc = "mutex" /\ attempts \in Nat /\ mutation = None
  BY DEF FitsInv, DaemonTypeOK, Lock
<1>1. \/ Goes(t, "ready") /\ k.op \in {"apply", "toggle"} /\ mutation' = t
      \/ /\ k.op \in {"launch", "deactivate"} /\ mutation' = t
         /\ task' = [task EXCEPT ![t] = [k EXCEPT !.pc = "gate", !.seen = attempts]]
      \/ k.op = "recover" /\ Goes(t, "recover") /\ mutation' = t
      \/ k.op = "follow" /\ Goes(t, "follow") /\ mutation' = t
      \/ Ends(t)
  BY DEF Lock
<1>2. Fits([k EXCEPT !.pc = "ready"]) \/ ~ k.op \in {"apply", "toggle"}
  BY <1>0 DEF TaskStates, Fits, Bare
<1>3. Fits([k EXCEPT !.pc = "recover"]) \/ k.op # "recover"
  BY <1>0 DEF TaskStates, Fits, Bare
<1>4. Fits([k EXCEPT !.pc = "follow"]) \/ k.op # "follow"
  BY <1>0 DEF TaskStates, Fits, Bare
<1>5. Fits([k EXCEPT !.pc = "gate", !.seen = attempts]) \/ ~ k.op \in {"launch", "deactivate"}
  BY <1>0 DEF TaskStates, Fits, Bare
<1>6. [k EXCEPT !.pc = "gate", !.seen = attempts] \in TaskStates
  BY <1>0 DEF TaskStates, PCs
<1>7. CASE Ends(t)
  <2>1. Moved(t) /\ mutation' \in Tasks \cup {None}
    BY <1>7, EndsMoves
  <2> QED BY <1>0, <1>7, <2>1 DEF Lock, Moved, FitsInv, DaemonTypeOK
<1>8. CASE Goes(t, "ready") /\ k.op \in {"apply", "toggle"} /\ mutation' = t
  <2>1. Moved(t) /\ task'[t] = [task[t] EXCEPT !.pc = "ready"]
    BY <1>8, <1>2, GoesMoves DEF PCs
  <2> QED BY <1>0, <1>8, <2>1 DEF Lock, Moved, FitsInv, DaemonTypeOK
<1>9. CASE /\ k.op \in {"launch", "deactivate"} /\ mutation' = t
           /\ task' = [task EXCEPT ![t] = [k EXCEPT !.pc = "gate", !.seen = attempts]]
  <2>1. Moved(t) /\ task'[t] = [task[t] EXCEPT !.pc = "gate", !.seen = attempts]
    BY <1>9, <1>5, <1>6, SetMoves
  <2> QED BY <1>0, <1>9, <2>1 DEF Lock, Moved, FitsInv, DaemonTypeOK
<1>10. CASE k.op = "recover" /\ Goes(t, "recover") /\ mutation' = t
  <2>1. Moved(t) /\ task'[t] = [task[t] EXCEPT !.pc = "recover"]
    BY <1>10, <1>3, GoesMoves DEF PCs
  <2> QED BY <1>0, <1>10, <2>1 DEF Lock, Moved, FitsInv, DaemonTypeOK
<1>11. CASE k.op = "follow" /\ Goes(t, "follow") /\ mutation' = t
  <2>1. Moved(t) /\ task'[t] = [task[t] EXCEPT !.pc = "follow"]
    BY <1>11, <1>4, GoesMoves DEF PCs
  <2> QED BY <1>0, <1>11, <2>1 DEF Lock, Moved, FitsInv, DaemonTypeOK
<1> QED BY <1>1, <1>7, <1>8, <1>9, <1>10, <1>11

\* PassGate keeps the types.
LEMMA PassGateFits ==
    ASSUME NEW t \in Tasks, FitsInv, PassGate(t)
    PROVE  /\ FitsInv' /\ Moved(t) /\ task[t].pc \in {"gate", "again"}
           /\ \/ /\ task[t].op = "status" /\ mutation' = mutation
                 /\ task'[t] = [task[t] EXCEPT !.pc = "show"]
              \/ Continues(t, IF gate.attempts > task[t].seen THEN gate.last ELSE "none")
<1> DEFINE k == task[t]
<1>0. k \in TaskStates /\ Fits(k) /\ k.pc \in {"gate", "again"}
  BY DEF FitsInv, DaemonTypeOK, PassGate
<1>1. CASE k.op = "status" /\ Goes(t, "show") /\ mutation' = mutation
  <2>1. Fits([k EXCEPT !.pc = "show"])
    BY <1>0, <1>1 DEF TaskStates, Fits, Bare
  <2>2. Moved(t) /\ task'[t] = [task[t] EXCEPT !.pc = "show"]
    BY <2>1, <1>1, GoesMoves DEF PCs
  <2> QED BY <1>0, <1>1, <2>2 DEF PassGate, Moved, FitsInv, DaemonTypeOK
<1>2. CASE Continues(t, IF gate.attempts > k.seen THEN gate.last ELSE "none")
  <2>1. Moved(t) /\ mutation' \in Tasks \cup {None}
    <3>1. (IF gate.attempts > k.seen THEN gate.last ELSE "none") \in Errors
      BY DEF FitsInv, DaemonTypeOK, Gates, Errors
    <3> QED BY <3>1, <1>0, <1>2, ContinuesMoves
  <2> QED BY <1>0, <1>2, <2>1 DEF PassGate, Moved, FitsInv, DaemonTypeOK
<1> QED BY <1>1, <1>2 DEF PassGate

\* Inspect keeps the types.
LEMMA InspectFits ==
    ASSUME NEW t \in Tasks, FitsInv, Inspect(t)
    PROVE  /\ FitsInv' /\ Moved(t) /\ task[t].pc \in {"gate", "again"}
           /\ \/ /\ task'[t] = [task[t] EXCEPT !.pc = "reconcile", !.read = helper]
                 /\ used' = used
              \/ /\ \E e \in {"reconcile", "denied"} :
                      task'[t] = [task[t] EXCEPT !.pc = "reconcile", !.was = e]
                 /\ used'.faults = used.faults + 1
<1> DEFINE k == task[t]
<1>0. /\ k \in TaskStates /\ Fits(k) /\ k.pc \in {"gate", "again"} /\ helper \in HelperStates
      /\ used \in [requests: Nat, faults: Nat, refreshes: Nat]
  BY DEF FitsInv, DaemonTypeOK, Inspect
<1>1. \/ task' = [task EXCEPT ![t] = [k EXCEPT !.pc = "reconcile", !.read = helper]]
         /\ used' = used
      \/ /\ \E e \in {"reconcile", "denied"} :
              task' = [task EXCEPT ![t] = [k EXCEPT !.pc = "reconcile", !.was = e]]
         /\ used' = [used EXCEPT !.faults = @ + 1]
  BY DEF Inspect, Fault
<1>2. gate' \in Gates
  BY DEF FitsInv, DaemonTypeOK, Gates, Inspect
<1>3. CASE /\ task' = [task EXCEPT ![t] = [k EXCEPT !.pc = "reconcile", !.read = helper]]
           /\ used' = used
  <2>1. [k EXCEPT !.pc = "reconcile", !.read = helper] \in TaskStates
    BY <1>0 DEF TaskStates, PCs
  <2>2. Fits([k EXCEPT !.pc = "reconcile", !.read = helper])
    BY <1>0, NoneAssumption DEF TaskStates, Fits, Bare
  <2>3. Moved(t) /\ task'[t] = [task[t] EXCEPT !.pc = "reconcile", !.read = helper]
    BY <2>1, <2>2, <1>3, SetMoves
  <2> QED BY <1>0, <1>2, <1>3, <2>3 DEF Inspect, Moved, FitsInv, DaemonTypeOK
<1>4. CASE /\ \E e \in {"reconcile", "denied"} :
                task' = [task EXCEPT ![t] = [k EXCEPT !.pc = "reconcile", !.was = e]]
           /\ used' = [used EXCEPT !.faults = @ + 1]
  <2>1. PICK e \in {"reconcile", "denied"} :
          task' = [task EXCEPT ![t] = [k EXCEPT !.pc = "reconcile", !.was = e]]
    BY <1>4
  <2>2. [k EXCEPT !.pc = "reconcile", !.was = e] \in TaskStates
    BY <1>0 DEF TaskStates, PCs, Errors
  <2>3. Fits([k EXCEPT !.pc = "reconcile", !.was = e])
    BY <1>0, NoneAssumption DEF TaskStates, Fits, Bare
  <2>4. Moved(t) /\ task'[t] = [task[t] EXCEPT !.pc = "reconcile", !.was = e]
    BY <2>1, <2>2, <2>3, SetMoves
  <2>5. used' \in [requests: Nat, faults: Nat, refreshes: Nat] /\ used'.faults = used.faults + 1
    BY <1>0, <1>4
  <2> QED BY <1>0, <1>2, <1>4, <2>4, <2>5 DEF Inspect, Moved, FitsInv, DaemonTypeOK
<1> QED BY <1>1, <1>3, <1>4

\* What Reconcile makes of the state and of the gate.
Reconciles(t, e) ==
    /\ gate' = [attempts |-> gate.attempts + 1, completed |-> e = "none", last |-> e,
                holder |-> None]
    /\ task'[t] = [task[t] EXCEPT !.pc = "store", !.was = e, !.read = None]

\* Reconcile keeps the types.
LEMMA ReconcileFits ==
    ASSUME NEW t \in Tasks, FitsInv, Reconcile(t)
    PROVE  /\ FitsInv' /\ Moved(t) /\ task[t].pc = "reconcile"
           /\ \E e \in Errors :
                /\ Reconciles(t, e)
                /\ \/ e = task[t].was /\ task[t].read = None /\ used' = used
                   \/ e = "legacy" /\ task[t].read # None /\ task[t].read.left = "legacy"
                      /\ used' = used
                   \/ /\ e = "orphan" /\ task[t].read # None /\ task[t].read.left = "orphan"
                      /\ used' = used
                   \/ e = "none" /\ task[t].read # None /\ used' = used
                   \/ e = "reconcile" /\ task[t].read # None /\ used'.faults = used.faults + 1
                /\ IF e = "none" THEN state' = Reconciled(state, task[t].read)
                   ELSE state'.health \notin {"healthy", "inactive"} /\ state'.err = e
<1> DEFINE k == task[t]
           S(e) == [k EXCEPT !.pc = "store", !.was = e, !.read = None]
<1>0. /\ k \in TaskStates /\ Fits(k) /\ k.pc = "reconcile" /\ state \in States /\ gate \in Gates
      /\ used \in [requests: Nat, faults: Nat, refreshes: Nat]
      /\ k.read \in HelperStates \cup {None}
  BY DEF FitsInv, DaemonTypeOK, Reconcile, TaskStates
<1>1. ASSUME NEW e \in Errors,
             gate' = [attempts |-> gate.attempts + 1, completed |-> e = "none", last |-> e,
                      holder |-> None],
             task' = [task EXCEPT ![t] = S(e)],
             state' \in States, used' \in [requests: Nat, faults: Nat, refreshes: Nat]
      PROVE  FitsInv' /\ Moved(t) /\ Reconciles(t, e)
  <2>1. S(e) \in TaskStates
    BY <1>0, <1>1 DEF TaskStates, PCs
  <2>2. Fits(S(e))
    BY <1>0, <1>1, NoneAssumption DEF TaskStates, Fits, Bare
  <2>3. Moved(t) /\ task'[t] = S(e)
    BY <2>1, <2>2, <1>1, SetMoves
  <2>4. gate' \in Gates
    BY <1>0, <1>1 DEF Gates
  <2> QED BY <1>1, <2>3, <2>4 DEF Reconcile, Reconciles, Moved, FitsInv, DaemonTypeOK
<1>2. ASSUME NEW s \in States, NEW e \in Errors
      PROVE  /\ Drifted(s, e) \in States /\ Drifted(s, e).health \notin {"healthy", "inactive"}
             /\ Drifted(s, e).err = e
  BY <1>2 DEF Drifted, States, Healths
<1>3. ASSUME k.read # None
      PROVE  Reconciled(state, k.read) \in States
  <2>1. k.read \in HelperStates
    BY <1>0, <1>3
  <2>2. CASE k.read.prof = None
    <3>1. k.read.phase \in Phases
      BY <2>1 DEF HelperStates
    <3> QED BY <1>0, <2>2, <3>1 DEF Reconciled, States, Healths, Errors
  <2>3. CASE k.read.prof # None
    <3>1. Plan(k.read) \in Plans /\ k.read.gen \in Nat /\ k.read.phase \in Phases
      BY <2>1, <2>3 DEF Plan, Plans, HelperStates
    <3>2. (IF state.desired # None /\ IdOf[state.desired] = IdOf[k.read.prof]
           THEN state.desired ELSE None) \in Profiles \cup {None}
      BY <1>0 DEF States
    <3> QED BY <1>0, <2>3, <3>1, <3>2 DEF Reconciled, States, Healths, Errors
  <2> QED BY <2>2, <2>3
<1>4. \/ /\ k.read = None /\ used' = used /\ state' = Drifted(state, k.was)
         /\ gate' = [attempts |-> gate.attempts + 1, completed |-> k.was = "none", last |-> k.was,
                     holder |-> None]
         /\ task' = [task EXCEPT ![t] = S(k.was)]
      \/ \E e \in {"legacy", "orphan"} :
         /\ k.read # None /\ k.read.left = e /\ used' = used /\ state' = Drifted(state, e)
         /\ gate' = [attempts |-> gate.attempts + 1, completed |-> e = "none", last |-> e,
                     holder |-> None]
         /\ task' = [task EXCEPT ![t] = S(e)]
      \/ /\ k.read # None /\ used' = used /\ state' = Reconciled(state, k.read)
         /\ gate' = [attempts |-> gate.attempts + 1, completed |-> "none" = "none", last |-> "none",
                     holder |-> None]
         /\ task' = [task EXCEPT ![t] = S("none")]
      \/ /\ k.read # None /\ used' = [used EXCEPT !.faults = @ + 1]
         /\ state' = Drifted(Reconciled(state, k.read), "reconcile")
         /\ gate' = [attempts |-> gate.attempts + 1, completed |-> "reconcile" = "none",
                     last |-> "reconcile", holder |-> None]
         /\ task' = [task EXCEPT ![t] = S("reconcile")]
  BY DEF Reconcile, Fault
<1>5. CASE /\ k.read = None /\ used' = used /\ state' = Drifted(state, k.was)
           /\ gate' = [attempts |-> gate.attempts + 1, completed |-> k.was = "none",
                       last |-> k.was, holder |-> None]
           /\ task' = [task EXCEPT ![t] = S(k.was)]
  <2>1. k.was \in Errors /\ k.was # "none"
    BY <1>0, <1>5 DEF Fits, Errors
  <2> QED BY <1>0, <1>1, <1>2, <1>5, <2>1
<1>6. ASSUME NEW e \in {"legacy", "orphan"},
             k.read # None, k.read.left = e, used' = used, state' = Drifted(state, e),
             gate' = [attempts |-> gate.attempts + 1, completed |-> e = "none", last |-> e,
                      holder |-> None],
             task' = [task EXCEPT ![t] = S(e)]
      PROVE  /\ FitsInv' /\ Moved(t) /\ Reconciles(t, e) /\ e \in Errors
             /\ state'.health \notin {"healthy", "inactive"} /\ state'.err = e
  <2>1. e \in Errors
    BY DEF Errors
  <2>2. /\ state' \in States /\ state'.health \notin {"healthy", "inactive"} /\ state'.err = e
    BY <1>0, <1>2, <1>6, <2>1
  <2> QED BY <1>0, <1>1, <1>6, <2>1, <2>2
<1>7. CASE /\ k.read # None /\ used' = used /\ state' = Reconciled(state, k.read)
           /\ gate' = [attempts |-> gate.attempts + 1, completed |-> "none" = "none",
                       last |-> "none", holder |-> None]
           /\ task' = [task EXCEPT ![t] = S("none")]
  BY <1>0, <1>1, <1>3, <1>7 DEF Errors
<1>8. CASE /\ k.read # None /\ used' = [used EXCEPT !.faults = @ + 1]
           /\ state' = Drifted(Reconciled(state, k.read), "reconcile")
           /\ gate' = [attempts |-> gate.attempts + 1, completed |-> "reconcile" = "none",
                       last |-> "reconcile", holder |-> None]
           /\ task' = [task EXCEPT ![t] = S("reconcile")]
  <2>1. used' \in [requests: Nat, faults: Nat, refreshes: Nat] /\ used'.faults = used.faults + 1
    BY <1>0, <1>8
  <2> QED BY <1>0, <1>1, <1>2, <1>3, <1>8, <2>1 DEF Errors
<1> QED BY <1>0, <1>4, <1>5, <1>6, <1>7, <1>8

\* StoreAttempts keeps the types.
LEMMA StoreAttemptsFits ==
    ASSUME NEW t \in Tasks, FitsInv, StoreAttempts(t)
    PROVE  FitsInv' /\ Moved(t) /\ task[t].pc = "store" /\ Continues(t, task[t].was)
<1>1. /\ task[t].pc = "store" /\ Continues(t, task[t].was) /\ gate \in Gates
      /\ task[t].was \in Errors
  BY DEF FitsInv, Fits, DaemonTypeOK, StoreAttempts
<1>2. Moved(t) /\ mutation' \in Tasks \cup {None}
  BY <1>1, ContinuesMoves
<1> QED BY <1>1, <1>2 DEF StoreAttempts, Moved, FitsInv, DaemonTypeOK, Gates

\* The answers of a status keep the types.
LEMMA ReadStatusFits ==
    ASSUME NEW t \in Tasks, FitsInv, ReadStatus(t) \/ AnswerStatus(t)
    PROVE  /\ FitsInv' /\ Moved(t) /\ task[t].pc \in {"show", "health"}
           /\ \/ Ends(t)
              \/ task'[t] = [task[t] EXCEPT !.pc = "health"] /\ mutation' = mutation
           /\ used'.faults \in {used.faults, used.faults + 1}
<1> DEFINE k == task[t]
<1>0. /\ k \in TaskStates /\ Fits(k) /\ k.pc \in {"show", "health"}
      /\ used \in [requests: Nat, faults: Nat, refreshes: Nat]
  BY DEF FitsInv, DaemonTypeOK, ReadStatus, AnswerStatus
<1>1. /\ used' \in [requests: Nat, faults: Nat, refreshes: Nat]
      /\ used'.faults \in {used.faults, used.faults + 1}
  BY <1>0 DEF ReadStatus, AnswerStatus, Fault
<1>2. Ends(t) \/ (Goes(t, "health") /\ mutation' = mutation)
  BY DEF ReadStatus, AnswerStatus
<1>3. Fits([k EXCEPT !.pc = "health"])
  BY <1>0 DEF TaskStates, Fits, Bare
<1>4. /\ Moved(t) /\ mutation' \in Tasks \cup {None}
      /\ Ends(t) \/ (task'[t] = [task[t] EXCEPT !.pc = "health"] /\ mutation' = mutation)
  BY <1>2, <1>3, EndsMoves, GoesMoves DEF PCs, FitsInv, DaemonTypeOK
<1>5. UNCHANGED <<helper, publish, news, state, file, gate, attempts>>
  BY DEF ReadStatus, AnswerStatus
<1> QED BY <1>0, <1>1, <1>4, <1>5 DEF Moved, FitsInv, DaemonTypeOK

\* A failure is a state that is not healthy.
LEMMA FailedFits ==
    ASSUME NEW s \in States, NEW e \in Errors
    PROVE  /\ Failed(s, e) \in States /\ Failed(s, e).health \notin {"healthy", "inactive"}
           /\ Failed(s, e).err = e
           /\ RestoreFailed(s) \in States /\ RestoreFailed(s).health \notin {"healthy", "inactive"}
           /\ RestoreFailed(s).err = "rollback"
<1>1. Failed(s, e) \in States /\ Failed(s, e).health \notin {"healthy", "inactive"}
      /\ Failed(s, e).err = e
  BY DEF Failed, States, Healths
<1>2. /\ RestoreFailed(s) \in States /\ RestoreFailed(s).health \notin {"healthy", "inactive"}
      /\ RestoreFailed(s).err = "rollback"
  BY DEF RestoreFailed, States, Healths, Errors
<1> QED BY <1>1, <1>2

\* A failure is counted.
LEMMA FaultFits ==
    ASSUME FitsInv, NEW e, Fault(e)
    PROVE  used' \in [requests: Nat, faults: Nat, refreshes: Nat] /\ used'.faults = used.faults + 1
  BY DEF FitsInv, DaemonTypeOK, Fault

\* Prepare keeps the types.
LEMMA PrepareFits ==
    ASSUME NEW t \in Tasks, FitsInv, Prepare(t)
    PROVE  /\ FitsInv' /\ Moved(t) /\ task[t].pc = "ready" /\ task[t].op \in {"apply", "toggle"}
           /\ Ends(t) \/ ( /\ task'[t].pc = "activate" /\ task'[t].op = task[t].op
                           /\ task'[t].was = task[t].was /\ mutation' = mutation
                           /\ state'.health = "applying")
           /\ state' = state \/ state'.health \notin {"healthy", "inactive"}
           /\ used'.faults \in {used.faults, used.faults + 1}
<1> DEFINE k == task[t]
           p == Wanted(t)
           K == [k EXCEPT !.pc = "activate", !.prof = p, !.seen = state.gen]
           saved == [state EXCEPT !.desired = p, !.health = "applying"]
<1> HIDE DEF p, saved
<1>0. /\ k \in TaskStates /\ Fits(k) /\ k.pc = "ready" /\ k.op \in {"apply", "toggle"}
      /\ state \in States /\ file \in Profiles \cup {None}
      /\ used \in [requests: Nat, faults: Nat, refreshes: Nat]
  BY DEF FitsInv, DaemonTypeOK, Prepare
<1>1. ASSUME p \in Valid
      PROVE  saved \in States /\ saved.health = "applying" /\ p \in Profiles
  BY <1>0, <1>1, ProfilesAssumption DEF States, Healths, saved
<1>2. /\ used' \in [requests: Nat, faults: Nat, refreshes: Nat]
      /\ used'.faults \in {used.faults, used.faults + 1}
  BY <1>0, FaultFits DEF Prepare, SaveFails
<1>3. file' \in Profiles \cup {None}
  BY <1>0, ProfilesAssumption DEF Prepare, SaveFails
<1>4. state' \in States /\ (state' = state \/ state'.health \notin {"healthy", "inactive"})
  <2>1. \/ state' = state
        \/ state' = Failed(state, "validation")
        \/ state' = Failed(state, "config")
        \/ p \in Valid /\ state' = Failed(saved, "helper")
        \/ p \in Valid /\ state' = saved
    BY DEF Prepare, p, saved
  <2> QED BY <1>0, <1>1, <2>1, FailedFits DEF Errors
<1>5. \/ Ends(t)
      \/ /\ p \in Valid /\ task' = [task EXCEPT ![t] = K] /\ mutation' = mutation
         /\ state' = saved
  BY DEF Prepare, p, saved
<1>6. ASSUME p \in Valid
      PROVE  K \in TaskStates /\ Fits(K)
  <2>1. state.gen \in Nat
    BY <1>0 DEF States
  <2>2. K \in TaskStates
    BY <1>0, <1>1, <1>6, <2>1 DEF TaskStates, PCs
  <2>3. Fits(K)
    BY <1>0, <1>1, <1>6 DEF TaskStates, Fits, Bare
  <2> QED BY <2>2, <2>3
<1>7. Moved(t) /\ mutation' \in Tasks \cup {None}
  BY <1>5, <1>6, SetMoves, EndsMoves DEF FitsInv, DaemonTypeOK
<1>8. \/ Ends(t)
      \/ /\ task'[t].pc = "activate" /\ task'[t].op = k.op /\ task'[t].was = k.was
         /\ mutation' = mutation /\ state'.health = "applying"
  <2>1. CASE /\ p \in Valid /\ task' = [task EXCEPT ![t] = K] /\ mutation' = mutation
             /\ state' = saved
    <3>1. task'[t] = K
      BY <1>6, <2>1, SetMoves
    <3>2. K.pc = "activate" /\ K.op = k.op /\ K.was = k.was
      BY <1>0 DEF TaskStates
    <3> HIDE DEF K
    <3> QED BY <1>1, <2>1, <3>1, <3>2
  <2> QED BY <1>5, <2>1
<1>9. UNCHANGED <<helper, publish, news, gate, attempts>>
  BY DEF Prepare
<1> QED BY <1>0, <1>2, <1>3, <1>4, <1>7, <1>8, <1>9 DEF Moved, FitsInv, DaemonTypeOK

\* Activate keeps the types: the plan of the task, or a failure.
LEMMA ActivateFits ==
    ASSUME NEW t \in Tasks, FitsInv, Activate(t)
    PROVE  /\ FitsInv' /\ Moved(t) /\ task[t].pc = "activate"
           /\ \/ /\ helper' = helper /\ Ends(t) /\ state'.health \notin {"healthy", "inactive"}
              \/ /\ helper.left = "none" /\ helper'.prof \in Profiles /\ helper'.left = "none"
                 /\ helper'.undo.prof = helper.prof /\ helper'.undo.gen = helper.gen + 1
                 /\ helper'.gen = helper.gen + 1
                 /\ \/ /\ Ends(t) /\ state'.health \notin {"healthy", "inactive"}
                       /\ news' = Append(news, Resync)
                    \/ /\ task'[t].pc = "verify" /\ task'[t].op = task[t].op
                       /\ task'[t].was = helper.prof /\ state' = state /\ mutation' = mutation
           /\ used'.faults \in {used.faults, used.faults + 1}
<1> DEFINE k == task[t]
           new == [gen |-> helper.gen + 1, prof |-> k.prof, phase |-> "armed",
                   undo |-> [gen |-> helper.gen + 1, prof |-> helper.prof], left |-> "none"]
           K == [k EXCEPT !.pc = "verify", !.view = Plan(new), !.was = helper.prof]
<1>0. /\ k \in TaskStates /\ Fits(k) /\ k.pc = "activate" /\ k.prof \in Profiles
      /\ state \in States /\ helper \in HelperStates /\ news \in Seq(Statuses)
      /\ used \in [requests: Nat, faults: Nat, refreshes: Nat]
  BY DEF FitsInv, DaemonTypeOK, Activate, Fits
<1>1. helper.gen \in Nat /\ helper.prof \in Profiles \cup {None}
  BY <1>0 DEF HelperStates
<1>2. new \in HelperStates
  BY <1>0, <1>1 DEF HelperStates, Receipts, Phases
<1>3. Plan(new) \in Plans /\ Status(new) \in Statuses /\ Plan(new) \in Statuses
  BY <1>0, <1>1, ProfilesAssumption DEF Plan, Plans, Status, Statuses
<1>4. Resync \in Statuses
  BY DEF Resync, Statuses
<1>5. /\ used' \in [requests: Nat, faults: Nat, refreshes: Nat]
      /\ used'.faults \in {used.faults, used.faults + 1}
  BY <1>0, FaultFits DEF Activate
<1>6. K \in TaskStates /\ Fits(K)
  <2>1. K \in TaskStates
    BY <1>0, <1>1, <1>3 DEF TaskStates, PCs
  <2>2. K.pc = "verify" /\ K.view \in Plans /\ K.was \in Profiles \cup {None}
        /\ K.op = k.op /\ K.prof = k.prof /\ K.read = k.read
    BY <1>0, <1>1, <1>3 DEF TaskStates
  <2>3. k.op # "follow" /\ k.read = None
    BY <1>0 DEF Fits
  <2> QED BY <1>0, <2>1, <2>2, <2>3 DEF Fits, Bare
<1>7. \/ /\ helper.left = "none" /\ helper' = new /\ news' = Append(news, Status(new))
         /\ task' = [task EXCEPT ![t] = K] /\ state' = state /\ mutation' = mutation
      \/ /\ helper.left = "none" /\ helper' = new /\ news' = Append(news, Resync)
         /\ state' = Failed(state, "helper") /\ Ends(t)
      \/ /\ \E code \in {"helper", "denied"} : state' = Failed(state, code)
         /\ Ends(t) /\ helper' = helper /\ news' = news
  BY DEF Activate, Code
<1>8. /\ state' \in States /\ helper' \in HelperStates /\ news' \in Seq(Statuses)
      /\ UNCHANGED <<publish, file, gate, attempts>>
  <2>1. state' \in States
    BY <1>0, <1>7, FailedFits DEF Errors
  <2>2. helper' \in HelperStates
    BY <1>0, <1>2, <1>7
  <2>3. news' \in Seq(Statuses)
    <3>1. \A x \in Statuses : Append(news, x) \in Seq(Statuses)
      BY <1>0
    <3> HIDE DEF new, K
    <3> QED BY <1>0, <1>3, <1>4, <1>7, <3>1
  <2> QED BY <2>1, <2>2, <2>3 DEF Activate
<1>9. Moved(t) /\ mutation' \in Tasks \cup {None}
  BY <1>6, <1>7, SetMoves, EndsMoves DEF FitsInv, DaemonTypeOK
<1>10. FitsInv'
  BY <1>5, <1>8, <1>9 DEF Moved, FitsInv, DaemonTypeOK
<1>11. /\ new.prof = k.prof /\ new.left = "none" /\ new.undo.prof = helper.prof
       /\ new.undo.gen = helper.gen + 1 /\ new.gen = helper.gen + 1
       /\ K.pc = "verify" /\ K.op = k.op /\ K.was = helper.prof
  BY <1>0 DEF TaskStates
<1>12. task' = [task EXCEPT ![t] = K] => task'[t] = K
  BY <1>6, SetMoves
<1>13. \A code \in {"helper", "denied"} : Failed(state, code).health \notin {"healthy", "inactive"}
  BY <1>0, FailedFits DEF Errors
<1> HIDE DEF new, K
<1> QED BY <1>0, <1>5, <1>7, <1>9, <1>10, <1>11, <1>12, <1>13

\* A failed verification keeps everything but the step and the count.
LEMMA VerifyFailsFits ==
    ASSUME NEW t \in Tasks, FitsInv, VerifyFails(t)
    PROVE  /\ FitsInv' /\ Moved(t) /\ task[t].pc = "verify"
           /\ task'[t] = [task[t] EXCEPT !.pc = "restore"]
           /\ used'.faults = used.faults + 1
<1> DEFINE k == task[t]
<1>0. k \in TaskStates /\ Fits(k) /\ k.pc = "verify"
  BY DEF FitsInv, DaemonTypeOK, VerifyFails
<1>1. Fits([k EXCEPT !.pc = "restore"])
  BY <1>0 DEF TaskStates, Fits, Bare
<1>2. Moved(t) /\ task'[t] = [task[t] EXCEPT !.pc = "restore"]
  BY <1>1, GoesMoves DEF VerifyFails, PCs
<1>3. used' \in [requests: Nat, faults: Nat, refreshes: Nat] /\ used'.faults = used.faults + 1
  BY FaultFits DEF VerifyFails
<1> QED BY <1>0, <1>2, <1>3 DEF VerifyFails, Moved, FitsInv, DaemonTypeOK

\* Verify keeps the types: what it shows the helper has.
LEMMA VerifyFits ==
    ASSUME NEW t \in Tasks, FitsInv, Verify(t)
    PROVE  /\ FitsInv' /\ Moved(t) /\ task[t].pc = "verify" /\ Ends(t) /\ helper.prof # None
           /\ state'.err = "none" /\ Names(state', helper.prof)
<1> DEFINE k == task[t]
           S == [state EXCEPT !.applied = Plan(helper), !.profile = k.prof, !.gen = helper.gen,
                              !.health = "healthy", !.phase = helper.phase, !.err = "none"]
<1>0. /\ k \in TaskStates /\ Fits(k) /\ k.pc = "verify" /\ k.view \in Plans /\ k.prof \in Profiles
      /\ state \in States /\ helper \in HelperStates
  BY DEF FitsInv, DaemonTypeOK, Verify, Fits
<1>1. helper.prof # None
  <2>1. k.view # None /\ k.view.prof \in Profiles
    BY <1>0, NoneAssumption DEF Plans
  <2> QED BY <2>1, ProfilesAssumption DEF Verify, Pairs, Plan
<1>2. helper.gen \in Nat /\ helper.phase \in Phases /\ Plan(helper) \in Plans
  BY <1>0, <1>1 DEF HelperStates, Plan, Plans
<1>3. S \in States /\ S.err = "none" /\ S.applied = Plan(helper)
  BY <1>0, <1>2 DEF States, Healths, Errors
<1>4. state' = S /\ Ends(t) /\ UNCHANGED <<helper, publish, news, file, gate, attempts, used>>
  BY DEF Verify
<1>5. Plan(helper) # None /\ Plan(helper).prof = helper.prof
  BY <1>1, <1>2, NoneAssumption DEF Plan
<1> HIDE DEF S
<1>6. Names(state', helper.prof)
  BY <1>1, <1>3, <1>4, <1>5 DEF Names
<1> QED BY <1>0, <1>1, <1>3, <1>4, <1>6, EndsMoves DEF Moved, FitsInv, DaemonTypeOK

\* Restore keeps the types: back to what the receipt names, or a failure.
LEMMA RestoreFits ==
    ASSUME NEW t \in Tasks, FitsInv, Restore(t)
    PROVE  /\ FitsInv' /\ Moved(t) /\ task[t].pc = "restore" /\ Ends(t)
           /\ state'.health \notin {"healthy", "inactive"}
           /\ \/ /\ helper.undo # None /\ helper.undo.gen = helper.gen
                 /\ helper'.prof = helper.undo.prof /\ helper'.undo = None
                 /\ helper'.left = helper.left
              \/ helper' = helper /\ state'.err = "rollback"
           /\ used'.faults \in {used.faults, used.faults + 1}
<1> DEFINE k == task[t]
           H == IF helper.undo.prof = None THEN NoHelperPlan(helper.left)
                ELSE [helper EXCEPT !.gen = @ + 1, !.prof = helper.undo.prof,
                                    !.phase = "armed", !.undo = None]
<1>0. /\ state \in States /\ helper \in HelperStates /\ news \in Seq(Statuses)
      /\ used \in [requests: Nat, faults: Nat, refreshes: Nat]
  BY DEF FitsInv, DaemonTypeOK
<1>1. ASSUME helper.undo # None
      PROVE  H \in HelperStates /\ H.prof = helper.undo.prof /\ H.undo = None
             /\ H.left = helper.left
  <2>1. helper.undo \in Receipts
    BY <1>0, <1>1 DEF HelperStates
  <2>2. helper.undo.prof \in Profiles \cup {None}
    BY <2>1 DEF Receipts
  <2>3. CASE helper.undo.prof = None
    BY <1>0, <2>3 DEF NoHelperPlan, HelperStates, Phases
  <2>4. CASE helper.undo.prof # None
    <3> DEFINE p == helper.undo.prof
               g == helper.gen + 1
               R == [helper EXCEPT !.gen = g, !.prof = p, !.phase = "armed", !.undo = None]
    <3>1. H = R
      BY <2>4
    <3>2. p \in Profiles \cup {None} /\ p = helper.undo.prof
      BY <2>2
    <3>3. g \in Nat
      BY <1>0 DEF HelperStates
    <3> HIDE DEF p, g, H
    <3>4. R \in HelperStates /\ R.prof = p /\ R.undo = None /\ R.left = helper.left
      BY <1>0, <3>2, <3>3 DEF HelperStates, Phases
    <3> QED BY <3>1, <3>2, <3>4
  <2> QED BY <2>3, <2>4
<1> HIDE DEF H
<1>2. \/ /\ helper.undo # None /\ helper.undo.gen = helper.gen /\ helper' = H
         /\ news' = Append(news, Status(H)) /\ state' = Failed(state, "health") /\ used' = used
      \/ /\ helper' = helper /\ news' = news /\ state' = RestoreFailed(state)
         /\ used' = used \/ Fault("call")
  BY DEF Restore, VerificationFailed, H
<1>3. /\ Ends(t) /\ task[t].pc = "restore"
      /\ UNCHANGED <<publish, file, gate, attempts>>
  BY DEF Restore
<1>4. /\ used' \in [requests: Nat, faults: Nat, refreshes: Nat]
      /\ used'.faults \in {used.faults, used.faults + 1}
  BY <1>0, <1>2, FaultFits
<1>5. /\ state' \in States /\ state'.health \notin {"healthy", "inactive"}
      /\ state'.err = "rollback" \/ helper' = H
  BY <1>0, <1>2, FailedFits DEF Errors
<1>6. helper' \in HelperStates
  BY <1>0, <1>1, <1>2
<1>7. news' \in Seq(Statuses)
  <2>1. helper.undo # None => Status(H) \in Statuses
    BY <1>1 DEF Status, Statuses, HelperStates
  <2>2. \A x \in Statuses : Append(news, x) \in Seq(Statuses)
    BY <1>0
  <2> QED BY <1>0, <1>2, <2>1, <2>2
<1>8. FitsInv' /\ Moved(t)
  BY <1>3, <1>4, <1>5, <1>6, <1>7, EndsMoves DEF Moved, FitsInv, DaemonTypeOK
<1>9. \/ /\ helper.undo # None /\ helper.undo.gen = helper.gen
         /\ helper'.prof = helper.undo.prof /\ helper'.undo = None /\ helper'.left = helper.left
      \/ helper' = helper /\ state'.err = "rollback"
  BY <1>0, <1>1, <1>2, FailedFits DEF Errors
<1> QED BY <1>3, <1>4, <1>5, <1>8, <1>9

\* A launch only answers.
LEMMA LaunchFits ==
    ASSUME NEW t \in Tasks, FitsInv, Launch(t)
    PROVE  /\ FitsInv' /\ Moved(t) /\ task[t].pc = "ready" /\ Ends(t)
           /\ used'.faults \in {used.faults, used.faults + 1}
<1>1. /\ task[t].pc = "ready" /\ Ends(t)
      /\ UNCHANGED <<helper, publish, news, state, file, gate, attempts>>
      /\ used' = used \/ Fault("denied")
  BY DEF Launch
<1>2. /\ used' \in [requests: Nat, faults: Nat, refreshes: Nat]
      /\ used'.faults \in {used.faults, used.faults + 1}
  BY <1>1, FaultFits DEF FitsInv, DaemonTypeOK
<1> QED BY <1>1, <1>2, EndsMoves DEF Moved, FitsInv, DaemonTypeOK

\* Cleanup keeps the types: the plan is gone, or nothing happened.
LEMMA CleanupFits ==
    ASSUME NEW t \in Tasks, FitsInv, Cleanup(t)
    PROVE  /\ FitsInv' /\ Moved(t) /\ task[t].pc = "cleanup"
           /\ \/ /\ helper'.prof = None /\ helper'.undo = None
                 /\ helper'.left \in {"orphan", "none"}
                 /\ helper.left # "orphan" => helper'.left = "none"
                 /\ \/ /\ task'[t] = [task[t] EXCEPT !.pc = "rejoin"] /\ mutation' = mutation
                       /\ state' = state /\ used' = used
                    \/ Ends(t) /\ state'.health \notin {"healthy", "inactive"}
                       /\ used'.faults = used.faults + 1
              \/ helper' = helper /\ Ends(t) /\ state'.health \notin {"healthy", "inactive"}
                 /\ used'.faults = used.faults + 1
<1> DEFINE k == task[t]
           H == NoHelperPlan(IF helper.left = "orphan" THEN "orphan" ELSE "none")
<1>0. /\ k \in TaskStates /\ Fits(k) /\ k.pc = "cleanup" /\ k.op = "deactivate"
      /\ state \in States /\ helper \in HelperStates /\ news \in Seq(Statuses)
      /\ used \in [requests: Nat, faults: Nat, refreshes: Nat]
  BY DEF FitsInv, DaemonTypeOK, Cleanup, Fits
<1>1. /\ H \in HelperStates /\ H.prof = None /\ H.undo = None /\ H.left \in {"orphan", "none"}
      /\ helper.left # "orphan" => H.left = "none"
  BY DEF NoHelperPlan, HelperStates, Phases
<1> HIDE DEF H
<1>2. \/ helper' = H /\ Goes(t, "rejoin") /\ UNCHANGED <<news, state, mutation, used>>
      \/ /\ Fault("crash") /\ helper' = H /\ news' = Append(news, Resync)
         /\ state' = Failed(state, "helper") /\ Ends(t)
      \/ /\ \E e \in {"denied", "call"} : Fault(e)
         /\ \E code \in {"helper", "denied"} : state' = Failed(state, code)
         /\ Ends(t) /\ helper' = helper /\ news' = news
  BY DEF Cleanup, Code, H
<1>3. UNCHANGED <<publish, file, gate, attempts>> /\ k.pc = "cleanup"
  BY DEF Cleanup
<1>4. Fits([k EXCEPT !.pc = "rejoin"])
  BY <1>0 DEF TaskStates, Fits, Bare
<1>5. /\ \A x \in Statuses : Append(news, x) \in Seq(Statuses)
      /\ Resync \in Statuses
  BY <1>0 DEF Resync, Statuses
<1>6. \A code \in {"helper", "denied"} :
         Failed(state, code) \in States /\ Failed(state, code).health \notin {"healthy", "inactive"}
  BY <1>0, FailedFits DEF Errors
<1>7. CASE helper' = H /\ Goes(t, "rejoin") /\ UNCHANGED <<news, state, mutation, used>>
  <2>1. Moved(t) /\ task'[t] = [k EXCEPT !.pc = "rejoin"]
    BY <1>4, <1>7, GoesMoves DEF PCs
  <2> QED BY <1>0, <1>1, <1>3, <1>7, <2>1 DEF Moved, FitsInv, DaemonTypeOK
<1>8. CASE /\ Fault("crash") /\ helper' = H /\ news' = Append(news, Resync)
           /\ state' = Failed(state, "helper") /\ Ends(t)
  <2>1. used' \in [requests: Nat, faults: Nat, refreshes: Nat] /\ used'.faults = used.faults + 1
    BY <1>8, FaultFits
  <2> QED BY <1>0, <1>1, <1>3, <1>5, <1>6, <1>8, <2>1, EndsMoves DEF Moved, FitsInv, DaemonTypeOK
<1>9. CASE /\ \E e \in {"denied", "call"} : Fault(e)
           /\ \E code \in {"helper", "denied"} : state' = Failed(state, code)
           /\ Ends(t) /\ helper' = helper /\ news' = news
  <2>1. used' \in [requests: Nat, faults: Nat, refreshes: Nat] /\ used'.faults = used.faults + 1
    BY <1>9, FaultFits
  <2> QED BY <1>0, <1>1, <1>3, <1>5, <1>6, <1>9, <2>1, EndsMoves DEF Moved, FitsInv, DaemonTypeOK
<1> QED BY <1>2, <1>7, <1>8, <1>9

\* RecoverOrphans keeps the types: what is left is gone, or nothing happened.
LEMMA RecoverOrphansFits ==
    ASSUME NEW t \in Tasks, FitsInv, RecoverOrphans(t)
    PROVE  /\ FitsInv' /\ Moved(t) /\ task[t].pc = "recover" /\ state' = state
           /\ helper'.prof = helper.prof /\ helper'.undo = helper.undo /\ helper'.gen = helper.gen
           /\ helper'.left \in {helper.left, "none"}
           /\ \/ /\ helper'.left = "none"
                 /\ task'[t] = [task[t] EXCEPT !.pc = "rejoin"] /\ mutation' = mutation
              \/ Ends(t)
           /\ used'.faults \in {used.faults, used.faults + 1}
<1> DEFINE k == task[t]
<1>0. /\ k \in TaskStates /\ Fits(k) /\ k.pc = "recover" /\ helper \in HelperStates
      /\ used \in [requests: Nat, faults: Nat, refreshes: Nat]
  BY DEF FitsInv, DaemonTypeOK, RecoverOrphans, Fits
<1>1. \/ /\ helper' = [helper EXCEPT !.left = "none"] /\ helper.prof = None
         /\ Goes(t, "rejoin") /\ mutation' = mutation
      \/ helper' = helper /\ Ends(t)
  BY DEF RecoverOrphans
<1>2. /\ used' \in [requests: Nat, faults: Nat, refreshes: Nat]
      /\ used'.faults \in {used.faults, used.faults + 1}
  BY <1>0, FaultFits DEF RecoverOrphans
<1>3. UNCHANGED <<publish, news, state, file, gate, attempts>>
  BY DEF RecoverOrphans
<1>4. /\ helper' \in HelperStates
      /\ helper'.prof = helper.prof /\ helper'.undo = helper.undo /\ helper'.gen = helper.gen
      /\ helper'.left \in {helper.left, "none"}
      /\ Goes(t, "rejoin") => helper'.left = "none" \/ Ends(t)
  BY <1>0, <1>1 DEF HelperStates
<1>5. Fits([k EXCEPT !.pc = "rejoin"])
  BY <1>0 DEF TaskStates, Fits, Bare
<1>6. /\ Moved(t) /\ mutation' \in Tasks \cup {None}
      /\ Ends(t) \/ task'[t] = [k EXCEPT !.pc = "rejoin"]
  BY <1>1, <1>5, EndsMoves, GoesMoves DEF PCs, FitsInv, DaemonTypeOK
<1>7. FitsInv'
  BY <1>2, <1>3, <1>4, <1>6 DEF Moved, FitsInv, DaemonTypeOK
<1>8. Goes(t, "rejoin") => task'[t] = [k EXCEPT !.pc = "rejoin"]
  BY <1>5, GoesMoves DEF PCs
<1> QED BY <1>0, <1>1, <1>2, <1>3, <1>4, <1>6, <1>7, <1>8

\* Rejoin keeps the types: the state names no plan.
LEMMA RejoinFits ==
    ASSUME NEW t \in Tasks, FitsInv, Rejoin(t)
    PROVE  /\ FitsInv' /\ Moved(t) /\ task[t].pc = "rejoin" /\ gate.holder = None
           /\ state'.applied = None /\ helper' = helper /\ used' = used
           /\ \/ /\ task[t].op = "deactivate" /\ Ends(t)
                 /\ gate'.completed = TRUE /\ gate'.last = "none" /\ gate'.holder = None
              \/ /\ task[t].op = "recover" /\ gate' = NewGate /\ mutation' = mutation
                 /\ task'[t] = [task[t] EXCEPT !.pc = "again", !.seen = 0]
<1> DEFINE k == task[t]
           off == [state EXCEPT !.applied = None, !.profile = None, !.gen = 0, !.err = "none"]
           quiet == [off EXCEPT !.health = "inactive", !.phase = "inactive"]
           again == [k EXCEPT !.pc = "again", !.seen = 0]
           done == [gate EXCEPT !.completed = TRUE, !.last = "none"]
<1>0. /\ k \in TaskStates /\ Fits(k) /\ k.pc = "rejoin" /\ state \in States /\ gate \in Gates
      /\ gate.holder = None
  BY DEF FitsInv, DaemonTypeOK, Rejoin, Fits
<1>1. off \in States /\ off.applied = None
  BY <1>0 DEF States, Errors
<1>2. quiet \in States /\ quiet.applied = None
  <2> HIDE DEF off
  <2> QED BY <1>1 DEF States, Healths, Phases
<1>3. done \in Gates /\ done.completed = TRUE /\ done.last = "none" /\ done.holder = None
  BY <1>0 DEF Gates, Errors
<1>4. NewGate \in Gates
  BY DEF NewGate, Gates, Errors
<1>5. UNCHANGED <<helper, publish, news, file, used>> /\ gate.holder = None
  BY DEF Rejoin
<1>6. \/ /\ k.op = "deactivate" /\ gate' = done /\ state' = quiet /\ Ends(t) /\ attempts' = attempts
      \/ /\ k.op = "recover" /\ gate' = NewGate /\ attempts' = 0 /\ state' = off
         /\ task' = [task EXCEPT ![t] = again] /\ mutation' = mutation
  BY DEF Rejoin
<1> HIDE DEF off, quiet, done
<1>7. CASE /\ k.op = "deactivate" /\ gate' = done /\ state' = quiet /\ Ends(t)
           /\ attempts' = attempts
  BY <1>0, <1>2, <1>3, <1>5, <1>7, EndsMoves DEF Moved, FitsInv, DaemonTypeOK
<1>8. CASE /\ k.op = "recover" /\ gate' = NewGate /\ attempts' = 0 /\ state' = off
           /\ task' = [task EXCEPT ![t] = again] /\ mutation' = mutation
  <2>1. again \in TaskStates
    BY <1>0 DEF TaskStates, PCs
  <2>2. Fits(again)
    BY <1>0, <1>8 DEF TaskStates, Fits, Bare
  <2>3. Moved(t) /\ task'[t] = again
    BY <1>8, <2>1, <2>2, SetMoves
  <2> QED BY <1>0, <1>1, <1>4, <1>5, <1>8, <2>3 DEF Moved, FitsInv, DaemonTypeOK
<1> QED BY <1>6, <1>7, <1>8

\* FollowInspect keeps the types.
LEMMA FollowInspectFits ==
    ASSUME NEW t \in Tasks, FitsInv, FollowInspect(t)
    PROVE  /\ FitsInv' /\ Moved(t) /\ task[t].pc = "follow" /\ helper' = helper /\ gate' = gate
           /\ \/ /\ task'[t] = [task[t] EXCEPT !.read = helper] /\ state' = state
                 /\ mutation' = mutation /\ used' = used
              \/ Ends(t) /\ state'.health \notin {"healthy", "inactive"}
                 /\ used'.faults = used.faults + 1
<1> DEFINE k == task[t]
           K == [k EXCEPT !.read = helper]
<1>0. /\ k \in TaskStates /\ Fits(k) /\ k.pc = "follow" /\ state \in States
      /\ helper \in HelperStates
  BY DEF FitsInv, DaemonTypeOK, FollowInspect, Fits
<1>1. \/ task' = [task EXCEPT ![t] = K] /\ UNCHANGED <<state, mutation, used>>
      \/ Fault("call") /\ state' = Failed(state, "health") /\ Ends(t)
  BY DEF FollowInspect
<1>2. UNCHANGED <<helper, publish, news, file, gate, attempts>>
  BY DEF FollowInspect
<1>3. K \in TaskStates
  BY <1>0 DEF TaskStates
<1>4. Fits(K)
  BY <1>0 DEF TaskStates, Fits, Bare
<1>5. CASE task' = [task EXCEPT ![t] = K] /\ UNCHANGED <<state, mutation, used>>
  <2>1. Moved(t) /\ task'[t] = K
    BY <1>3, <1>4, <1>5, SetMoves
  <2> QED BY <1>0, <1>2, <1>5, <2>1 DEF Moved, FitsInv, DaemonTypeOK
<1>6. CASE Fault("call") /\ state' = Failed(state, "health") /\ Ends(t)
  <2>1. /\ Failed(state, "health") \in States
        /\ Failed(state, "health").health \notin {"healthy", "inactive"}
    BY <1>0, FailedFits DEF Errors
  <2>2. used' \in [requests: Nat, faults: Nat, refreshes: Nat] /\ used'.faults = used.faults + 1
    BY <1>6, FaultFits
  <2> QED BY <1>0, <1>2, <1>6, <2>1, <2>2, EndsMoves DEF Moved, FitsInv, DaemonTypeOK
<1> QED BY <1>1, <1>5, <1>6

\* Follow keeps the types: healthy only with a plan it read.
LEMMA FollowFits ==
    ASSUME NEW t \in Tasks, FitsInv, Follow(t)
    PROVE  /\ FitsInv' /\ Moved(t) /\ task[t].pc = "follow" /\ Ends(t)
           /\ helper' = helper /\ gate' = gate /\ used' = used /\ task[t].read # None
           /\ \/ state' = state \/ state'.health \notin {"healthy", "inactive"}
              \/ Names(state', task[t].read.prof)
<1> DEFINE k == task[t]
           h == k.read
           told == [state EXCEPT !.phase = h.phase]
           S1 == [told EXCEPT !.applied = Plan(h), !.gen = h.gen,
                              !.health = IF h.phase = "armed" THEN "healthy" ELSE "degraded"]
           S2 == [told EXCEPT !.applied = None, !.profile = None, !.health = "inactive"]
           S3 == [told EXCEPT !.health = "degraded"]
<1>0. /\ k \in TaskStates /\ Fits(k) /\ k.pc = "follow" /\ state \in States
      /\ h \in HelperStates
  BY DEF FitsInv, DaemonTypeOK, Follow, Fits, TaskStates
<1>1. h.gen \in Nat /\ h.phase \in Phases /\ h.prof \in Profiles \cup {None}
  BY <1>0 DEF HelperStates
<1>2. told \in States
  BY <1>0, <1>1 DEF States
<1>3. UNCHANGED <<helper, publish, news, file, gate, attempts, used>> /\ Ends(t) /\ h # None
  BY DEF Follow
<1>4. \/ state' = state
      \/ h.prof # None /\ state' = S1
      \/ h.prof = None /\ state' = S2
      \/ h.prof # None /\ state' = S3
  BY DEF Follow
<1>5. h.prof # None => S1 \in States /\ Names(S1, h.prof)
  <2>1. h.prof # None => Plan(h) \in Plans /\ Plan(h) # None /\ Plan(h).prof = h.prof
    BY <1>1, NoneAssumption DEF Plan, Plans
  <2> HIDE DEF told, h
  <2>2. h.prof # None => S1 \in States /\ S1.applied = Plan(h)
    BY <1>1, <1>2, <2>1 DEF States, Healths
  <2> HIDE DEF S1
  <2> QED BY <2>1, <2>2 DEF Names
<1>6. S2 \in States /\ S3 \in States /\ S2.applied = None /\ S3.health = "degraded"
  <2> HIDE DEF told, h
  <2> QED BY <1>2 DEF States, Healths
<1> HIDE DEF S1, S2, S3, h
<1>7. /\ state' \in States
      /\ state' = state \/ state'.health \notin {"healthy", "inactive"} \/ Names(state', h.prof)
  BY <1>0, <1>4, <1>5, <1>6 DEF Names
<1> QED BY <1>0, <1>3, <1>7, EndsMoves DEF Moved, FitsInv, DaemonTypeOK, h

\* What the helper does on its own keeps the types, and the profile in force.
LEMMA HelperFits ==
    ASSUME FitsInv, HelperRefreshes \/ HelperPublishes \/ HelperRestarts
    PROVE  /\ FitsInv' /\ UNCHANGED <<state, gate, mutation, task>>
           /\ helper'.prof = helper.prof /\ helper'.undo = helper.undo /\ helper'.left = helper.left
           /\ helper'.gen \in {helper.gen, helper.gen + 1}
           /\ used'.faults \in {used.faults, used.faults + 1}
<1>0. /\ helper \in HelperStates /\ publish \in Statuses \cup {None} /\ news \in Seq(Statuses)
      /\ used \in [requests: Nat, faults: Nat, refreshes: Nat]
  BY DEF FitsInv, DaemonTypeOK
<1>1. \A x \in Statuses : Append(news, x) \in Seq(Statuses)
  BY <1>0
<1>2. Resync \in Statuses
  BY DEF Resync, Statuses
<1>3. UNCHANGED <<state, file, gate, attempts, mutation, task>>
  BY DEF HelperRefreshes, HelperPublishes, HelperRestarts
<1>4. /\ helper' \in HelperStates
      /\ helper'.prof = helper.prof /\ helper'.undo = helper.undo /\ helper'.left = helper.left
      /\ helper'.gen \in {helper.gen, helper.gen + 1}
  <2>1. helper.gen \in Nat
    BY <1>0 DEF HelperStates
  <2>2. \/ helper' = helper
        \/ helper' = [helper EXCEPT !.gen = @ + 1, !.phase = "armed"]
        \/ \E ph \in Phases : helper' = [helper EXCEPT !.phase = ph]
    BY DEF HelperRefreshes, HelperPublishes, HelperRestarts, Phases
  <2>3. CASE helper' = [helper EXCEPT !.gen = @ + 1, !.phase = "armed"]
    <3> DEFINE g == helper.gen + 1
               R == [helper EXCEPT !.gen = g, !.phase = "armed"]
    <3>1. helper' = R /\ g \in Nat /\ g = helper.gen + 1
      BY <2>1, <2>3
    <3> HIDE DEF g
    <3>2. /\ R \in HelperStates /\ R.prof = helper.prof /\ R.undo = helper.undo
          /\ R.left = helper.left /\ R.gen = g
      BY <1>0, <3>1 DEF HelperStates, Phases
    <3> QED BY <3>1, <3>2
  <2>4. ASSUME NEW ph \in Phases, helper' = [helper EXCEPT !.phase = ph]
        PROVE  /\ helper' \in HelperStates
               /\ helper'.prof = helper.prof /\ helper'.undo = helper.undo
               /\ helper'.left = helper.left /\ helper'.gen = helper.gen
    BY <1>0, <2>1, <2>4 DEF HelperStates
  <2> QED BY <1>0, <2>1, <2>2, <2>3, <2>4
<1>5. /\ used' \in [requests: Nat, faults: Nat, refreshes: Nat]
      /\ used'.faults \in {used.faults, used.faults + 1}
  BY <1>0, FaultFits DEF HelperRefreshes, HelperPublishes, HelperRestarts
<1>6. Status(helper') \in Statuses
  BY <1>4 DEF HelperStates, Status, Statuses
<1>7. publish' \in Statuses \cup {None} /\ news' \in Seq(Statuses)
  <2>1. CASE HelperRefreshes
    BY <1>0, <1>6, <2>1 DEF HelperRefreshes
  <2>2. CASE HelperPublishes
    BY <1>0, <1>1, <2>2 DEF HelperPublishes
  <2>3. CASE HelperRestarts
    BY <1>0, <1>1, <1>2, <2>3 DEF HelperRestarts
  <2> QED BY <2>1, <2>2, <2>3
<1> QED BY <1>0, <1>3, <1>4, <1>5, <1>7 DEF FitsInv, DaemonTypeOK

\* A daemon that starts anew has its types.
LEMMA DaemonRestartsFits ==
    ASSUME FitsInv, DaemonRestarts
    PROVE  /\ FitsInv' /\ helper' = helper /\ gate' = NewGate /\ mutation' = None
           /\ task' = [t \in Tasks |-> AtRest] /\ state'.applied = None /\ state'.err = "none"
<1>1. AtRest \in TaskStates
  BY DEF AtRest, TaskStates, PCs
<1>2. Fits(AtRest)
  BY NoneAssumption DEF AtRest, Fits, Bare, Ops
<1>3. NewState(file) \in States /\ NewState(file).applied = None /\ NewState(file).err = "none"
  BY DEF NewState, States, Healths, Errors, Phases, FitsInv, DaemonTypeOK
<1>4. NewGate \in Gates
  BY DEF NewGate, Gates, Errors
<1>5. <<Resync>> \in Seq(Statuses)
  BY DEF Resync, Statuses
<1>6. used' \in [requests: Nat, faults: Nat, refreshes: Nat]
  BY FaultFits DEF DaemonRestarts
<1> QED BY <1>1, <1>2, <1>3, <1>4, <1>5, <1>6 DEF DaemonRestarts, FitsInv, DaemonTypeOK

\* A task at rest begins with something to do.
LEMMA BeginsFits ==
    ASSUME FitsInv, NEW t \in Tasks, NEW op \in Ops, NEW p \in Profiles \cup {None},
           (TakeNews /\ t = Follower) \/ (Request(t, op, p) /\ op # "follow")
    PROVE  /\ FitsInv' /\ Moved(t) /\ task[t].pc = "idle"
           /\ UNCHANGED <<helper, state, gate, mutation>> /\ used'.faults = used.faults
           /\ \/ task'[t].pc = "mutex" /\ task'[t].op \notin {"apply", "toggle"}
              \/ task'[t].pc = "gate" /\ task'[t].op \notin {"launch", "deactivate", "recover"}
<1> DEFINE K1 == [AtRest EXCEPT !.pc = "mutex", !.op = "follow", !.view = Head(news)]
           K2 == [AtRest EXCEPT !.pc = IF op \in LockFirst THEN "mutex" ELSE "gate",
                                !.op = op, !.prof = p, !.seen = attempts]
<1>0. /\ news \in Seq(Statuses) /\ attempts \in Nat
      /\ used \in [requests: Nat, faults: Nat, refreshes: Nat]
  BY DEF FitsInv, DaemonTypeOK
<1>1. CASE TakeNews /\ t = Follower
  <2>1. Head(news) \in Statuses /\ Tail(news) \in Seq(Statuses)
    BY <1>0, <1>1 DEF TakeNews
  <2>2. K1 \in TaskStates /\ K1.pc = "mutex" /\ K1.op = "follow" /\ K1.read = None
        /\ K1.view = Head(news)
    BY <2>1 DEF AtRest, TaskStates, PCs, Ops
  <2>3. Fits(K1)
    BY <2>1, <2>2 DEF Fits, Bare
  <2>4. task' = [task EXCEPT ![t] = K1] /\ task[t].pc = "idle"
    BY <1>1 DEF TakeNews
  <2> HIDE DEF K1
  <2>5. Moved(t) /\ task'[t] = K1
    BY <2>2, <2>3, <2>4, SetMoves
  <2>6. /\ news' = Tail(news)
        /\ UNCHANGED <<helper, publish, state, file, gate, attempts, mutation, used>>
    BY <1>1 DEF TakeNews
  <2> QED BY <1>0, <2>1, <2>2, <2>4, <2>5, <2>6 DEF Moved, FitsInv, DaemonTypeOK
<1>2. CASE Request(t, op, p) /\ op # "follow"
  <2>1. /\ K2 \in TaskStates /\ K2.op = op /\ K2.read = None /\ K2.view = None
        /\ K2.pc = IF op \in LockFirst THEN "mutex" ELSE "gate"
    BY <1>0 DEF AtRest, TaskStates, PCs, Ops
  <2>2. Fits(K2)
    BY <1>2, <2>1 DEF Fits, Bare, LockFirst
  <2>3. task' = [task EXCEPT ![t] = K2] /\ task[t].pc = "idle"
    BY <1>2 DEF Request
  <2> HIDE DEF K2
  <2>4. Moved(t) /\ task'[t] = K2
    BY <2>1, <2>2, <2>3, SetMoves
  <2>5. /\ UNCHANGED <<helper, publish, news, state, file, gate, attempts, mutation>>
        /\ used' = [used EXCEPT !.requests = @ + 1]
    BY <1>2 DEF Request
  <2>6. used' \in [requests: Nat, faults: Nat, refreshes: Nat] /\ used'.faults = used.faults
    BY <1>0, <2>5
  <2>7. FitsInv'
    BY <2>4, <2>5, <2>6 DEF Moved, FitsInv, DaemonTypeOK
  <2>8. \/ K2.pc = "mutex" /\ K2.op \notin {"apply", "toggle"}
        \/ K2.pc = "gate" /\ K2.op \notin {"launch", "deactivate", "recover"}
    BY <2>1 DEF LockFirst
  <2> QED BY <2>3, <2>4, <2>5, <2>6, <2>7, <2>8
<1> QED BY <1>1, <1>2

\* The error of an orphan is a reconciliation's alone.
LEMMA ErrStays ==
    ASSUME NEW t \in Tasks, FitsInv, state.err # "orphan",
           \/ Lock(t) \/ PassGate(t) \/ Inspect(t) \/ StoreAttempts(t) \/ ReadStatus(t)
           \/ AnswerStatus(t) \/ Prepare(t) \/ Activate(t) \/ VerifyFails(t) \/ Verify(t)
           \/ Restore(t) \/ Launch(t) \/ Cleanup(t) \/ RecoverOrphans(t) \/ Rejoin(t)
           \/ FollowInspect(t) \/ Follow(t)
    PROVE  state'.err # "orphan"
<1>1. state \in States
  BY DEF FitsInv, DaemonTypeOK
<1>2. \A s \in States, e \in Errors :
        e # "orphan" => Failed(s, e).err # "orphan" /\ RestoreFailed(s).err # "orphan"
  BY FailedFits
<1>3. CASE \/ Lock(t) \/ PassGate(t) \/ Inspect(t) \/ StoreAttempts(t) \/ ReadStatus(t)
           \/ AnswerStatus(t) \/ VerifyFails(t) \/ Launch(t) \/ RecoverOrphans(t)
  <2>1. state' = state
    BY <1>3 DEF Lock, PassGate, Inspect, StoreAttempts, ReadStatus, AnswerStatus, VerifyFails,
                Launch, RecoverOrphans
  <2> QED BY <2>1
<1>4. CASE Prepare(t)
  <2> DEFINE p == Wanted(t)
             saved == [state EXCEPT !.desired = p, !.health = "applying"]
  <2>1. \/ state' = state \/ state' = Failed(state, "validation")
        \/ state' = Failed(state, "config")
        \/ p \in Valid /\ (state' = Failed(saved, "helper") \/ state' = saved)
    BY <1>4 DEF Prepare
  <2>2. p \in Valid => saved \in States /\ saved.err = state.err
    BY <1>1, ProfilesAssumption DEF States, Healths
  <2> QED BY <1>1, <1>2, <2>1, <2>2 DEF Errors
<1>5. CASE Activate(t)
  <2>1. state' = state \/ \E code \in {"helper", "denied"} : state' = Failed(state, code)
    BY <1>5 DEF Activate, Code
  <2> QED BY <1>1, <1>2, <2>1 DEF Errors
<1>6. CASE Verify(t)
  BY <1>6, VerifyFits
<1>7. CASE Restore(t)
  <2>1. state' = Failed(state, "health") \/ state' = RestoreFailed(state)
    BY <1>7 DEF Restore, VerificationFailed
  <2> QED BY <1>1, <1>2, <2>1 DEF Errors
<1>8. CASE Cleanup(t)
  <2>1. state' = state \/ \E code \in {"helper", "denied"} : state' = Failed(state, code)
    BY <1>8 DEF Cleanup, Code
  <2> QED BY <1>1, <1>2, <2>1 DEF Errors
<1>9. CASE Rejoin(t)
  BY <1>1, <1>9 DEF Rejoin, States
<1>10. CASE FollowInspect(t)
  <2>1. state' = state \/ state' = Failed(state, "health")
    BY <1>10 DEF FollowInspect
  <2> QED BY <1>1, <1>2, <2>1 DEF Errors
<1>11. CASE Follow(t)
  BY <1>1, <1>11 DEF Follow, States
<1> QED BY <1>3, <1>4, <1>5, <1>6, <1>7, <1>8, <1>9, <1>10, <1>11

\* Nobody inspects behind a complete gate.
LEMMA CompleteGate ==
    ASSUME DaemonInv, gate.completed, NEW t \in Tasks
    PROVE  task[t].pc # "reconcile"
  BY NoneAssumption DEF DaemonInv, GateInv

\* A step of one task that only takes a plan away, or changes it behind a
\* complete gate.
LEMMA SparedMoves ==
    ASSUME DaemonInv, NEW t \in Tasks, Moved(t), used.faults \in Nat,
           used'.faults \in {used.faults, used.faults + 1},
           gate'.completed = gate.completed, gate'.last = gate.last,
           "orphan" \notin Leftovers =>
             /\ helper'.prof \in {helper.prof, None} \/ gate.completed
             /\ helper'.left # "orphan" /\ state'.err # "orphan" /\ Spared(task[t])'
    PROVE  SparedInv'
<1> SUFFICES ASSUME "orphan" \notin Leftovers PROVE SparedInv'
  BY DEF SparedInv
<1>1. Given => Given'
  BY DEF Given
<1>2. ASSUME NEW x \in Tasks PROVE Spared(task[x])'
  <2>1. CASE x = t
    BY <2>1
  <2>2. CASE x # t
    <3>1. task'[x] = task[x] /\ Spared(task[x])
      BY <2>2 DEF Moved, DaemonInv, SparedInv
    <3>2. gate.completed => task[x].pc # "reconcile"
      BY CompleteGate
    <3> QED BY <1>1, <3>1, <3>2 DEF Spared
  <2> QED BY <2>1, <2>2
<1>3. gate.completed => gate.last = "none"
  BY DEF DaemonInv, GateInv
<1> QED BY <1>1, <1>2, <1>3 DEF DaemonInv, SparedInv

\* A plan is put in force behind a complete gate.
LEMMA CompleteTells ==
    ASSUME DaemonInv, Watched, NEW t \in Tasks, task[t].pc \in {"activate", "verify", "restore"}
    PROVE  gate.completed
  BY DEF DaemonInv, Watched, UnharmedInv, Unharmed, SparedInv, Spared

\* The holder of the lock who is about to tell the state keeps it.
LEMMA RejoiningStays ==
    ASSUME DaemonInv, NEW t \in Tasks, Moved(t), task[t].pc # "rejoin",
           \/ mutation' = mutation \/ mutation = None
           \/ mutation' = (IF mutation = t THEN None ELSE mutation)
    PROVE  Rejoining => Rejoining'
<1>1. mutation \in Tasks \cup {None}
  BY DEF DaemonInv, FitsInv, DaemonTypeOK
<1> QED BY <1>1 DEF Rejoining, Moved

\* A step of one task that keeps the profile of the helper, and what is shown
\* unless it reports a failure.
LEMMA TruthMoves ==
    ASSUME DaemonInv, NEW t \in Tasks, Moved(t), used.faults \in Nat,
           used'.faults \in {used.faults, used.faults + 1},
           gate'.completed = gate.completed, helper'.prof = helper.prof, task[t].pc # "rejoin",
           \/ mutation' = mutation \/ mutation = None
           \/ mutation' = (IF mutation = t THEN None ELSE mutation),
           state' = state \/ (state'.health \notin {"healthy", "inactive"} /\ Holds(task[t])),
           Watched => Tells(task[t])'
    PROVE  TruthInv'
<1> SUFFICES ASSUME Watched' PROVE TruthInv'
  BY DEF TruthInv
<1>1. Watched
  BY DEF Watched
<1>2. Rejoining => Rejoining'
  BY RejoiningStays
<1>3. ASSUME NEW x \in Tasks PROVE Tells(task[x])'
  <2>1. CASE x = t
    BY <1>1, <2>1
  <2>2. CASE x # t
    <3>1. task'[x] = task[x] /\ Tells(task[x])
      BY <1>1, <2>2 DEF Moved, DaemonInv, TruthInv
    <3>2. task[x].pc \in {"activate", "verify", "restore"} => state' = state
      BY <2>2 DEF DaemonInv, LockInv, Holds
    <3> QED BY <1>2, <3>1, <3>2 DEF Tells
  <2> QED BY <2>1, <2>2
<1>4. TruthInv
  BY DEF DaemonInv
<1> QED BY <1>1, <1>2, <1>3, <1>4 DEF TruthInv, Names

\* A step of the holder of the lock.
LEMMA TruthHeld ==
    ASSUME DaemonInv, NEW t \in Tasks, Moved(t), Holds(task[t]), used.faults \in Nat,
           used'.faults \in {used.faults, used.faults + 1},
           Watched' =>
             /\ \/ gate.completed \/ gate.holder = None \/ Rejoining'
                \/ helper'.prof = helper.prof /\ task[t].pc # "rejoin"
             /\ gate'.completed /\ state'.health \in {"healthy", "inactive"} =>
                  Names(state', helper'.prof) \/ Rejoining'
             /\ state'.applied # None /\ state'.health = "healthy" /\ helper'.prof = None =>
                  Rejoining'
             /\ Tells(task[t])'
    PROVE  TruthInv'
<1> SUFFICES ASSUME Watched' PROVE TruthInv'
  BY DEF TruthInv
<1>1. Watched
  BY DEF Watched
<1>2. mutation = t
  BY DEF DaemonInv, LockInv
<1>3. ASSUME NEW x \in Tasks PROVE Tells(task[x])'
  <2>1. CASE x = t
    BY <2>1
  <2>2. CASE x # t
    <3>1. task'[x] = task[x] /\ Tells(task[x])
      BY <1>1, <2>2 DEF Moved, DaemonInv, TruthInv
    <3>2. ~Holds(task[x])
      BY <1>2, <2>2 DEF DaemonInv, LockInv
    <3>3. gate.completed \/ gate.holder = None => task[x].pc # "reconcile"
      BY NoneAssumption DEF DaemonInv, GateInv
    <3>4. task[t].pc # "rejoin" => ~Rejoining
      BY <1>2 DEF Rejoining
    <3> QED BY <3>1, <3>2, <3>3, <3>4 DEF Tells, Holds
  <2> QED BY <2>1, <2>2
<1> QED BY <1>3 DEF TruthInv, Names

\* Lock keeps the invariant.
LEMMA LockKeeps ==
    ASSUME NEW t \in Tasks, DaemonInv, Lock(t)
    PROVE  LockInv' /\ UndoInv' /\ GateInv' /\ KnowsInv' /\ UnharmedInv' /\ FirstInv'
           /\ SparedInv' /\ TruthInv'
<1> DEFINE k == task[t]
<1>1. /\ FitsInv /\ k \in TaskStates /\ Fits(k) /\ helper.gen \in Nat /\ used.faults \in Nat
      /\ gate.attempts \in Nat /\ mutation \in Tasks \cup {None}
      /\ gate.holder \in Tasks \cup {None}
  BY DEF DaemonInv, FitsInv, DaemonTypeOK, HelperStates, Gates
<1>2. FitsInv' /\ Moved(t) /\ k.pc = "mutex" /\ mutation = None
      /\ helper' = helper /\ gate' = gate /\ state' = state /\ used' = used
  BY <1>1, LockFits DEF Lock
<1>3. \/ /\ task'[t].pc = "ready" /\ task'[t].was = k.was /\ task'[t].read = k.read
         /\ task'[t].op = k.op
         /\ mutation' = t
         /\ k.op \in {"apply", "toggle"}
      \/ /\ task'[t].pc = "gate" /\ task'[t].was = k.was /\ task'[t].read = k.read
         /\ task'[t].op = k.op
         /\ mutation' = t
         /\ k.op \in {"launch", "deactivate"}
      \/ /\ task'[t].pc = "recover" /\ task'[t].was = k.was /\ task'[t].read = k.read
         /\ task'[t].op = k.op
         /\ mutation' = t
         /\ k.op = "recover"
      \/ /\ task'[t].pc = "follow" /\ task'[t].was = k.was /\ task'[t].read = k.read
         /\ task'[t].op = k.op
         /\ mutation' = t
         /\ k.op = "follow"
      \/ /\ task'[t].pc = "idle" /\ task'[t].op = None /\ task'[t].read = None
         /\ mutation' = (IF mutation = t THEN None ELSE mutation)
  <2>1. LET r == [k EXCEPT !.pc = "ready"]
       IN  r.pc = "ready" /\ r.op = k.op /\ r.was = k.was /\ r.read = k.read
    BY <1>1 DEF TaskStates
  <2>2. LET r == [k EXCEPT !.pc = "gate", !.seen = attempts]
       IN  r.pc = "gate" /\ r.op = k.op /\ r.was = k.was /\ r.read = k.read
    BY <1>1 DEF TaskStates
  <2>3. LET r == [k EXCEPT !.pc = "recover"]
       IN  r.pc = "recover" /\ r.op = k.op /\ r.was = k.was /\ r.read = k.read
    BY <1>1 DEF TaskStates
  <2>4. LET r == [k EXCEPT !.pc = "follow"]
       IN  r.pc = "follow" /\ r.op = k.op /\ r.was = k.was /\ r.read = k.read
    BY <1>1 DEF TaskStates
  <2>5. Ends(t) => /\ task'[t].pc = "idle" /\ task'[t].op = None /\ task'[t].read = None
                    /\ mutation' = (IF mutation = t THEN None ELSE mutation)
    BY <1>1, EndsLeaves
  <2> QED BY <1>1, <1>2, <2>1, <2>2, <2>3, <2>4, <2>5, LockFits
<1>4. LockInv'
  BY <1>1, <1>2, <1>3, NoneAssumption DEF DaemonInv, Moved, Fits, LockInv, Holds
<1>5. UndoInv'
  BY <1>1, <1>2, <1>3, NoneAssumption DEF DaemonInv, Moved, Fits, UndoInv, LockInv, Holds
<1>6. GateInv'
  BY <1>1, <1>2, <1>3, NoneAssumption DEF DaemonInv, Moved, Fits, GateInv, UndoInv
<1>7. KnowsInv'
  BY <1>1, <1>2, <1>3, NoneAssumption DEF DaemonInv, Moved, Fits, KnowsInv, GateInv, LockInv, Holds
<1>8. UnharmedInv'
  BY <1>1, <1>2, <1>3, NoneAssumption
     DEF DaemonInv, Moved, Fits, UnharmedInv, Unharmed, KnowsInv, GateInv, LockInv, Holds,
         Recovering
<1>9. FirstInv'
  BY <1>1, <1>2, <1>3, NoneAssumption
     DEF DaemonInv, Moved, Fits, FirstInv, UnharmedInv, Unharmed, KnowsInv, GateInv, LockInv,
         Holds, Rejoining
<1>10. SparedInv'
  <2>2. k.op = "recover" /\ state.err # "orphan" => task'[t].pc = "idle"
    BY <1>1, EndsLeaves DEF Lock
  <2>1. ASSUME "orphan" \notin Leftovers
        PROVE  /\ helper'.prof \in {helper.prof, None} \/ gate.completed
               /\ helper'.left # "orphan" /\ state'.err # "orphan" /\ Spared(task[t])'
    BY <1>1, <1>2, <1>3, <2>1, ErrStays, NoneAssumption, <2>2
       DEF DaemonInv, SparedInv, Spared, Given, Ops
  <2> QED BY <1>1, <1>2, <1>3, <2>1, SparedMoves
<1>11. TruthInv'
  <2>1. Watched => Tells(task[t])'
    BY <1>1, <1>2, <1>3, NoneAssumption DEF DaemonInv, TruthInv, Tells
  <2> QED BY <1>1, <1>2, <1>3, <2>1, TruthMoves DEF Holds
<1> QED BY <1>4, <1>5, <1>6, <1>7, <1>8, <1>9, <1>10, <1>11

\* PassGate keeps the invariant.
LEMMA PassGateKeeps ==
    ASSUME NEW t \in Tasks, DaemonInv, PassGate(t)
    PROVE  LockInv' /\ UndoInv' /\ GateInv' /\ KnowsInv' /\ UnharmedInv' /\ FirstInv'
           /\ SparedInv' /\ TruthInv'
<1> DEFINE k == task[t]
<1>1. /\ FitsInv /\ k \in TaskStates /\ Fits(k) /\ helper.gen \in Nat /\ used.faults \in Nat
      /\ gate.attempts \in Nat /\ mutation \in Tasks \cup {None}
      /\ gate.holder \in Tasks \cup {None}
  BY DEF DaemonInv, FitsInv, DaemonTypeOK, HelperStates, Gates
<1>2. FitsInv' /\ Moved(t) /\ k.pc \in {"gate", "again"}
      /\ gate.holder = None /\ (gate.attempts > k.seen \/ gate.completed) /\ k.seen \in Nat
      /\ helper' = helper /\ gate' = gate /\ state' = state /\ used' = used
  BY <1>1, PassGateFits, ContinuesMoves DEF PassGate, TaskStates
<1>3. \/ /\ task'[t].pc = "show" /\ task'[t].was = k.was /\ task'[t].read = k.read
         /\ task'[t].op = k.op
         /\ mutation' = mutation
         /\ k.op = "status"
      \/ /\ task'[t].pc = "mutex" /\ task'[t].was = k.was /\ task'[t].read = k.read
         /\ task'[t].op = k.op
         /\ mutation' = mutation
         /\ k.op \in {"apply", "toggle"}
         /\ (IF gate.attempts > k.seen THEN gate.last ELSE "none") = "none"
      \/ /\ task'[t].pc = "ready" /\ task'[t].was = k.was /\ task'[t].read = k.read
         /\ task'[t].op = k.op
         /\ mutation' = mutation
         /\ k.op = "launch" /\ (IF gate.attempts > k.seen THEN gate.last ELSE "none") = "none"
      \/ /\ task'[t].pc = "cleanup" /\ task'[t].was = k.was /\ task'[t].read = k.read
         /\ task'[t].op = k.op
         /\ mutation' = mutation
         /\ k.op = "deactivate"
         /\ (IF gate.attempts > k.seen THEN gate.last ELSE "none") \in {"none", "legacy", "reconcile"}
      \/ /\ task'[t].pc = "idle" /\ task'[t].op = None /\ task'[t].read = None
         /\ mutation' = (IF mutation = t THEN None ELSE mutation)
  <2>1. LET r == [k EXCEPT !.pc = "show"]
       IN  r.pc = "show" /\ r.op = k.op /\ r.was = k.was /\ r.read = k.read
    BY <1>1 DEF TaskStates
  <2>2. LET r == [k EXCEPT !.pc = "mutex"]
       IN  r.pc = "mutex" /\ r.op = k.op /\ r.was = k.was /\ r.read = k.read
    BY <1>1 DEF TaskStates
  <2>3. LET r == [k EXCEPT !.pc = "ready"]
       IN  r.pc = "ready" /\ r.op = k.op /\ r.was = k.was /\ r.read = k.read
    BY <1>1 DEF TaskStates
  <2>4. LET r == [k EXCEPT !.pc = "cleanup"]
       IN  r.pc = "cleanup" /\ r.op = k.op /\ r.was = k.was /\ r.read = k.read
    BY <1>1 DEF TaskStates
  <2>5. (IF gate.attempts > k.seen THEN gate.last ELSE "none") \in Errors
    BY <1>1 DEF FitsInv, DaemonTypeOK, Gates, Errors
  <2>6. Ends(t) => /\ task'[t].pc = "idle" /\ task'[t].op = None /\ task'[t].read = None
                    /\ mutation' = (IF mutation = t THEN None ELSE mutation)
    BY <1>1, EndsLeaves
  <2> DEFINE e == IF gate.attempts > k.seen THEN gate.last ELSE "none"
  <2>7. \/ k.op = "status" /\ mutation' = mutation /\ task'[t] = [k EXCEPT !.pc = "show"]
        \/ Continues(t, e)
    BY <1>1, PassGateFits
  <2>8. e \in Errors
    BY <2>5
  <2> HIDE DEF e
  <2>9. ASSUME Continues(t, e)
        PROVE  \/ /\ k.op \in {"apply", "toggle"} /\ e = "none"
                  /\ task'[t] = [k EXCEPT !.pc = "mutex"] /\ mutation' = mutation
               \/ /\ k.op = "launch" /\ e = "none"
                  /\ task'[t] = [k EXCEPT !.pc = "ready"] /\ mutation' = mutation
               \/ /\ k.op = "deactivate" /\ e \in {"none", "legacy", "reconcile"}
                  /\ task'[t] = [k EXCEPT !.pc = "cleanup"] /\ mutation' = mutation
               \/ Ends(t)
    BY <1>1, <1>2, <2>8, <2>9, ContinuesMoves
  <2> QED BY <2>1, <2>2, <2>3, <2>4, <2>6, <2>7, <2>9 DEF e
<1>4. LockInv'
  BY <1>1, <1>2, <1>3, NoneAssumption DEF DaemonInv, Moved, Fits, LockInv, Holds
<1>5. UndoInv'
  BY <1>1, <1>2, <1>3, NoneAssumption DEF DaemonInv, Moved, Fits, UndoInv, LockInv, Holds
<1>6. GateInv'
  BY <1>1, <1>2, <1>3, NoneAssumption DEF DaemonInv, Moved, Fits, GateInv, UndoInv
<1>7. KnowsInv'
  BY <1>1, <1>2, <1>3, NoneAssumption DEF DaemonInv, Moved, Fits, KnowsInv, GateInv, LockInv, Holds
<1>8. UnharmedInv'
  BY <1>1, <1>2, <1>3, NoneAssumption
     DEF DaemonInv, Moved, Fits, UnharmedInv, Unharmed, KnowsInv, GateInv, LockInv, Holds,
         Recovering
<1>9. FirstInv'
  BY <1>1, <1>2, <1>3, NoneAssumption
     DEF DaemonInv, Moved, Fits, FirstInv, UnharmedInv, Unharmed, KnowsInv, GateInv, LockInv,
         Holds, Rejoining
<1>10. SparedInv'
  <2>1. ASSUME "orphan" \notin Leftovers
        PROVE  /\ helper'.prof \in {helper.prof, None} \/ gate.completed
               /\ helper'.left # "orphan" /\ state'.err # "orphan" /\ Spared(task[t])'
    BY <1>1, <1>2, <1>3, <2>1, ErrStays, NoneAssumption
       DEF DaemonInv, SparedInv, Spared, Given, Ops, GateInv
  <2> QED BY <1>1, <1>2, <1>3, <2>1, SparedMoves
<1>11. TruthInv'
  <2>1. Watched => Tells(task[t])'
    BY <1>1, <1>2, <1>3, NoneAssumption DEF DaemonInv, TruthInv, Tells
  <2> QED BY <1>1, <1>2, <1>3, <2>1, TruthMoves DEF Holds
<1> QED BY <1>4, <1>5, <1>6, <1>7, <1>8, <1>9, <1>10, <1>11

\* Inspect keeps the invariant.
LEMMA InspectKeeps ==
    ASSUME NEW t \in Tasks, DaemonInv, Inspect(t)
    PROVE  LockInv' /\ UndoInv' /\ GateInv' /\ KnowsInv' /\ UnharmedInv' /\ FirstInv'
           /\ SparedInv' /\ TruthInv'
<1> DEFINE k == task[t]
<1>1. /\ FitsInv /\ k \in TaskStates /\ Fits(k) /\ helper.gen \in Nat /\ used.faults \in Nat
      /\ gate.attempts \in Nat /\ mutation \in Tasks \cup {None}
      /\ gate.holder \in Tasks \cup {None}
  BY DEF DaemonInv, FitsInv, DaemonTypeOK, HelperStates, Gates
<1>2. FitsInv' /\ Moved(t) /\ k.pc \in {"gate", "again"}
      /\ gate.holder = None /\ ~gate.completed /\ gate' = [gate EXCEPT !.holder = t]
      /\ gate'.holder = t /\ gate'.completed = gate.completed /\ gate'.last = gate.last
      /\ gate'.attempts = gate.attempts /\ helper \in HelperStates
      /\ helper' = helper /\ state' = state
  BY <1>1, InspectFits DEF Inspect, FitsInv, DaemonTypeOK, Gates
<1>3. \/ /\ task'[t].pc = "reconcile" /\ task'[t].was = k.was /\ task'[t].op = k.op
         /\ mutation' = mutation
         /\ task'[t].read = helper
         /\ used' = used
      \/ /\ task'[t].pc = "reconcile" /\ task'[t].read = k.read /\ task'[t].op = k.op
         /\ mutation' = mutation
         /\ used'.faults = used.faults + 1
  <2>1. LET r == [k EXCEPT !.pc = "reconcile", !.read = helper]
       IN  r.pc = "reconcile" /\ r.op = k.op /\ r.was = k.was /\ r.read = helper
    BY <1>1 DEF TaskStates
  <2>2. mutation' = mutation
    BY DEF Inspect
  <2>3. ASSUME NEW e \in {"reconcile", "denied"},
               task'[t] = [k EXCEPT !.pc = "reconcile", !.was = e]
        PROVE  task'[t].pc = "reconcile" /\ task'[t].op = k.op /\ task'[t].read = k.read
    BY <1>1, <2>3 DEF TaskStates
  <2>4. Ends(t) => /\ task'[t].pc = "idle" /\ task'[t].op = None /\ task'[t].read = None
                    /\ mutation' = (IF mutation = t THEN None ELSE mutation)
    BY <1>1, EndsLeaves
  <2> QED BY <1>1, <1>2, <2>1, <2>2, <2>3, <2>4, InspectFits
<1>4. LockInv'
  BY <1>1, <1>2, <1>3, NoneAssumption DEF DaemonInv, Moved, Fits, LockInv, Holds
<1>5. UndoInv'
  BY <1>1, <1>2, <1>3, NoneAssumption DEF DaemonInv, Moved, Fits, UndoInv, LockInv, Holds
<1>6. GateInv'
  BY <1>1, <1>2, <1>3, NoneAssumption DEF DaemonInv, Moved, Fits, GateInv, UndoInv
<1>7. KnowsInv'
  BY <1>1, <1>2, <1>3, NoneAssumption DEF DaemonInv, Moved, Fits, KnowsInv, GateInv, LockInv, Holds
<1>8. UnharmedInv'
  <2>1. CASE used'.faults = 0
    <3>1. /\ task'[t].pc = "reconcile" /\ task'[t].op = k.op /\ mutation' = mutation
          /\ task'[t].read = helper /\ used.faults = 0
      BY <1>1, <1>2, <1>3, <2>1
    <3>2. helper # None
      BY <1>2, NoneAssumption
    <3>3. Recovering' => Recovering
      BY <1>1, <1>2, <1>3, <3>1 DEF Recovering, Moved, Fits
    <3>4. \A x \in Tasks : x # t => task'[x] = task[x] /\ task[x].pc # "reconcile"
      BY <1>2, NoneAssumption DEF DaemonInv, Moved, GateInv
    <3>5. ASSUME NEW x \in Tasks PROVE Unharmed(task[x])'
      <4>1. CASE x = t
        BY <3>1, <3>2, <4>1, <1>2 DEF Unharmed
      <4>2. CASE x # t
        <5>1. Unharmed(task[x])
          BY <3>1 DEF DaemonInv, UnharmedInv
        <5>2. Recovering => Recovering'
          BY <1>1, <1>2, <3>1, <3>4 DEF Recovering, Fits
        <5> QED BY <1>2, <3>4, <4>2, <5>1, <5>2 DEF Unharmed
      <4> QED BY <4>1, <4>2
    <3>6. Recovering' => helper.left = "none" /\ (gate.attempts = 0 \/ gate.completed)
      BY <3>1, <3>3 DEF DaemonInv, UnharmedInv
    <3> QED BY <1>2, <3>1, <3>4, <3>5, <3>6 DEF DaemonInv, UnharmedInv
  <2> QED BY <2>1 DEF UnharmedInv
<1>9. FirstInv'
  BY <1>1, <1>2, <1>3, NoneAssumption
     DEF DaemonInv, Moved, Fits, FirstInv, UnharmedInv, Unharmed, KnowsInv, GateInv, LockInv,
         Holds, Rejoining
<1>10. SparedInv'
  <2>1. ASSUME "orphan" \notin Leftovers
        PROVE  /\ helper'.prof \in {helper.prof, None} \/ gate.completed
               /\ helper'.left # "orphan" /\ state'.err # "orphan" /\ Spared(task[t])'
    BY <1>1, <1>2, <1>3, <2>1, ErrStays, NoneAssumption
       DEF DaemonInv, SparedInv, Spared, Given, Ops, Fits
  <2> QED BY <1>1, <1>2, <1>3, <2>1, SparedMoves
<1>11. TruthInv'
  <2>1. Watched => Tells(task[t])'
    BY <1>1, <1>2, <1>3, NoneAssumption DEF DaemonInv, TruthInv, Tells, Fits
  <2> QED BY <1>1, <1>2, <1>3, <2>1, TruthMoves DEF Holds
<1> QED BY <1>4, <1>5, <1>6, <1>7, <1>8, <1>9, <1>10, <1>11

\* StoreAttempts keeps the invariant.
LEMMA StoreAttemptsKeeps ==
    ASSUME NEW t \in Tasks, DaemonInv, StoreAttempts(t)
    PROVE  LockInv' /\ UndoInv' /\ GateInv' /\ KnowsInv' /\ UnharmedInv' /\ FirstInv'
           /\ SparedInv' /\ TruthInv'
<1> DEFINE k == task[t]
<1>1. /\ FitsInv /\ k \in TaskStates /\ Fits(k) /\ helper.gen \in Nat /\ used.faults \in Nat
      /\ gate.attempts \in Nat /\ mutation \in Tasks \cup {None}
      /\ gate.holder \in Tasks \cup {None}
  BY DEF DaemonInv, FitsInv, DaemonTypeOK, HelperStates, Gates
<1>2. FitsInv' /\ Moved(t) /\ k.pc = "store"
      /\ helper' = helper /\ gate' = gate /\ state' = state /\ used' = used
  BY <1>1, StoreAttemptsFits, ContinuesMoves DEF StoreAttempts
<1>3. \/ /\ task'[t].pc = "mutex" /\ task'[t].was = k.was /\ task'[t].read = k.read
         /\ task'[t].op = k.op
         /\ mutation' = mutation
         /\ k.op \in {"apply", "toggle"} /\ k.was = "none"
      \/ /\ task'[t].pc = "ready" /\ task'[t].was = k.was /\ task'[t].read = k.read
         /\ task'[t].op = k.op
         /\ mutation' = mutation
         /\ k.op = "launch" /\ k.was = "none"
      \/ /\ task'[t].pc = "cleanup" /\ task'[t].was = k.was /\ task'[t].read = k.read
         /\ task'[t].op = k.op
         /\ mutation' = mutation
         /\ k.op = "deactivate" /\ k.was \in {"none", "legacy", "reconcile"}
      \/ /\ task'[t].pc = "idle" /\ task'[t].op = None /\ task'[t].read = None
         /\ mutation' = (IF mutation = t THEN None ELSE mutation)
  <2>1. LET r == [k EXCEPT !.pc = "mutex"]
       IN  r.pc = "mutex" /\ r.op = k.op /\ r.was = k.was /\ r.read = k.read
    BY <1>1 DEF TaskStates
  <2>2. LET r == [k EXCEPT !.pc = "ready"]
       IN  r.pc = "ready" /\ r.op = k.op /\ r.was = k.was /\ r.read = k.read
    BY <1>1 DEF TaskStates
  <2>3. LET r == [k EXCEPT !.pc = "cleanup"]
       IN  r.pc = "cleanup" /\ r.op = k.op /\ r.was = k.was /\ r.read = k.read
    BY <1>1 DEF TaskStates
  <2>4. k.was \in Errors
    BY <1>1, <1>2 DEF Fits
  <2>5. Ends(t) => /\ task'[t].pc = "idle" /\ task'[t].op = None /\ task'[t].read = None
                    /\ mutation' = (IF mutation = t THEN None ELSE mutation)
    BY <1>1, EndsLeaves
  <2> QED BY <1>1, <1>2, <2>1, <2>2, <2>3, <2>4, <2>5, StoreAttemptsFits, ContinuesMoves
<1>4. LockInv'
  BY <1>1, <1>2, <1>3, NoneAssumption DEF DaemonInv, Moved, Fits, LockInv, Holds
<1>5. UndoInv'
  BY <1>1, <1>2, <1>3, NoneAssumption DEF DaemonInv, Moved, Fits, UndoInv, LockInv, Holds
<1>6. GateInv'
  BY <1>1, <1>2, <1>3, NoneAssumption DEF DaemonInv, Moved, Fits, GateInv, UndoInv
<1>7. KnowsInv'
  BY <1>1, <1>2, <1>3, NoneAssumption DEF DaemonInv, Moved, Fits, KnowsInv, GateInv, LockInv, Holds
<1>8. UnharmedInv'
  BY <1>1, <1>2, <1>3, NoneAssumption
     DEF DaemonInv, Moved, Fits, UnharmedInv, Unharmed, KnowsInv, GateInv, LockInv, Holds,
         Recovering
<1>9. FirstInv'
  BY <1>1, <1>2, <1>3, NoneAssumption
     DEF DaemonInv, Moved, Fits, FirstInv, UnharmedInv, Unharmed, KnowsInv, GateInv, LockInv,
         Holds, Rejoining
<1>10. SparedInv'
  <2>1. ASSUME "orphan" \notin Leftovers
        PROVE  /\ helper'.prof \in {helper.prof, None} \/ gate.completed
               /\ helper'.left # "orphan" /\ state'.err # "orphan" /\ Spared(task[t])'
    BY <1>1, <1>2, <1>3, <2>1, ErrStays, NoneAssumption
       DEF DaemonInv, SparedInv, Spared, Given, Ops
  <2> QED BY <1>1, <1>2, <1>3, <2>1, SparedMoves
<1>11. TruthInv'
  <2>1. Watched => Tells(task[t])'
    BY <1>1, <1>2, <1>3, NoneAssumption DEF DaemonInv, TruthInv, Tells
  <2> QED BY <1>1, <1>2, <1>3, <2>1, TruthMoves DEF Holds
<1> QED BY <1>4, <1>5, <1>6, <1>7, <1>8, <1>9, <1>10, <1>11

\* The answer of a status keeps the invariant.
LEMMA StatusKeeps ==
    ASSUME NEW t \in Tasks, DaemonInv, ReadStatus(t) \/ AnswerStatus(t)
    PROVE  LockInv' /\ UndoInv' /\ GateInv' /\ KnowsInv' /\ UnharmedInv' /\ FirstInv'
           /\ SparedInv' /\ TruthInv'
<1> DEFINE k == task[t]
<1>1. /\ FitsInv /\ k \in TaskStates /\ Fits(k) /\ helper.gen \in Nat /\ used.faults \in Nat
      /\ gate.attempts \in Nat /\ mutation \in Tasks \cup {None}
      /\ gate.holder \in Tasks \cup {None}
  BY DEF DaemonInv, FitsInv, DaemonTypeOK, HelperStates, Gates
<1>2. FitsInv' /\ Moved(t) /\ k.pc \in {"show", "health"}
      /\ helper' = helper /\ gate' = gate /\ state' = state
      /\ used'.faults \in {used.faults, used.faults + 1}
  BY <1>1, ReadStatusFits DEF ReadStatus, AnswerStatus
<1>3. \/ /\ task'[t].pc = "idle" /\ task'[t].op = None /\ task'[t].read = None
         /\ mutation' = (IF mutation = t THEN None ELSE mutation)
      \/ /\ task'[t].pc = "health" /\ task'[t].was = k.was /\ task'[t].read = k.read
         /\ task'[t].op = k.op
         /\ mutation' = mutation
  <2>1. LET r == [k EXCEPT !.pc = "health"]
       IN  r.pc = "health" /\ r.op = k.op /\ r.was = k.was /\ r.read = k.read
    BY <1>1 DEF TaskStates
  <2>2. Ends(t) => /\ task'[t].pc = "idle" /\ task'[t].op = None /\ task'[t].read = None
                    /\ mutation' = (IF mutation = t THEN None ELSE mutation)
    BY <1>1, EndsLeaves
  <2> QED BY <1>1, <1>2, <2>1, <2>2, ReadStatusFits
<1>4. LockInv'
  BY <1>1, <1>2, <1>3, NoneAssumption DEF DaemonInv, Moved, Fits, LockInv, Holds
<1>5. UndoInv'
  BY <1>1, <1>2, <1>3, NoneAssumption DEF DaemonInv, Moved, Fits, UndoInv, LockInv, Holds
<1>6. GateInv'
  BY <1>1, <1>2, <1>3, NoneAssumption DEF DaemonInv, Moved, Fits, GateInv, UndoInv
<1>7. KnowsInv'
  BY <1>1, <1>2, <1>3, NoneAssumption DEF DaemonInv, Moved, Fits, KnowsInv, GateInv, LockInv, Holds
<1>8. UnharmedInv'
  BY <1>1, <1>2, <1>3, NoneAssumption
     DEF DaemonInv, Moved, Fits, UnharmedInv, Unharmed, KnowsInv, GateInv, LockInv, Holds,
         Recovering
<1>9. FirstInv'
  BY <1>1, <1>2, <1>3, NoneAssumption
     DEF DaemonInv, Moved, Fits, FirstInv, UnharmedInv, Unharmed, KnowsInv, GateInv, LockInv,
         Holds, Rejoining
<1>10. SparedInv'
  <2>1. ASSUME "orphan" \notin Leftovers
        PROVE  /\ helper'.prof \in {helper.prof, None} \/ gate.completed
               /\ helper'.left # "orphan" /\ state'.err # "orphan" /\ Spared(task[t])'
    BY <1>1, <1>2, <1>3, <2>1, ErrStays, NoneAssumption
       DEF DaemonInv, SparedInv, Spared, Given, Ops
  <2> QED BY <1>1, <1>2, <1>3, <2>1, SparedMoves
<1>11. TruthInv'
  <2>1. Watched => Tells(task[t])'
    BY <1>1, <1>2, <1>3, NoneAssumption DEF DaemonInv, TruthInv, Tells
  <2> QED BY <1>1, <1>2, <1>3, <2>1, TruthMoves DEF Holds
<1> QED BY <1>4, <1>5, <1>6, <1>7, <1>8, <1>9, <1>10, <1>11

\* Prepare keeps the invariant.
LEMMA PrepareKeeps ==
    ASSUME NEW t \in Tasks, DaemonInv, Prepare(t)
    PROVE  LockInv' /\ UndoInv' /\ GateInv' /\ KnowsInv' /\ UnharmedInv' /\ FirstInv'
           /\ SparedInv' /\ TruthInv'
<1> DEFINE k == task[t]
<1>1. /\ FitsInv /\ k \in TaskStates /\ Fits(k) /\ helper.gen \in Nat /\ used.faults \in Nat
      /\ gate.attempts \in Nat /\ mutation \in Tasks \cup {None}
      /\ gate.holder \in Tasks \cup {None}
  BY DEF DaemonInv, FitsInv, DaemonTypeOK, HelperStates, Gates
<1>2. FitsInv' /\ Moved(t) /\ k.pc = "ready" /\ k.op \in {"apply", "toggle"}
      /\ helper' = helper /\ gate' = gate
      /\ (state' = state \/ state'.health \notin {"healthy", "inactive"})
      /\ used'.faults \in {used.faults, used.faults + 1}
  BY <1>1, PrepareFits DEF Prepare
<1>3. \/ /\ task'[t].pc = "idle" /\ task'[t].op = None /\ task'[t].read = None
         /\ mutation' = (IF mutation = t THEN None ELSE mutation)
      \/ /\ task'[t].pc = "activate" /\ task'[t].op = k.op /\ task'[t].was = k.was
         /\ mutation' = mutation /\ state'.health = "applying"
  <2>1. Ends(t) => /\ task'[t].pc = "idle" /\ task'[t].op = None /\ task'[t].read = None
                    /\ mutation' = (IF mutation = t THEN None ELSE mutation)
    BY <1>1, EndsLeaves
  <2> QED BY <1>1, <1>2, <2>1, PrepareFits
<1>4. LockInv'
  BY <1>1, <1>2, <1>3, NoneAssumption DEF DaemonInv, Moved, Fits, LockInv, Holds
<1>5. UndoInv'
  BY <1>1, <1>2, <1>3, NoneAssumption DEF DaemonInv, Moved, Fits, UndoInv, LockInv, Holds
<1>6. GateInv'
  BY <1>1, <1>2, <1>3, NoneAssumption DEF DaemonInv, Moved, Fits, GateInv, UndoInv
<1>7. KnowsInv'
  BY <1>1, <1>2, <1>3, NoneAssumption DEF DaemonInv, Moved, Fits, KnowsInv, GateInv, LockInv, Holds
<1>8. UnharmedInv'
  BY <1>1, <1>2, <1>3, NoneAssumption
     DEF DaemonInv, Moved, Fits, UnharmedInv, Unharmed, KnowsInv, GateInv, LockInv, Holds,
         Recovering
<1>9. FirstInv'
  BY <1>1, <1>2, <1>3, NoneAssumption
     DEF DaemonInv, Moved, Fits, FirstInv, UnharmedInv, Unharmed, KnowsInv, GateInv, LockInv,
         Holds, Rejoining
<1>10. SparedInv'
  <2>1. ASSUME "orphan" \notin Leftovers
        PROVE  /\ helper'.prof \in {helper.prof, None} \/ gate.completed
               /\ helper'.left # "orphan" /\ state'.err # "orphan" /\ Spared(task[t])'
    BY <1>1, <1>2, <1>3, <2>1, ErrStays, NoneAssumption
       DEF DaemonInv, SparedInv, Spared, Given, Ops
  <2> QED BY <1>1, <1>2, <1>3, <2>1, SparedMoves
<1>11. TruthInv'
  <2>1. Watched => Tells(task[t])'
    BY <1>1, <1>2, <1>3, NoneAssumption DEF DaemonInv, TruthInv, Tells
  <2> QED BY <1>1, <1>2, <1>3, <2>1, TruthMoves DEF Holds
<1> QED BY <1>4, <1>5, <1>6, <1>7, <1>8, <1>9, <1>10, <1>11

\* Activate keeps the invariant.
LEMMA ActivateKeeps ==
    ASSUME NEW t \in Tasks, DaemonInv, Activate(t)
    PROVE  LockInv' /\ UndoInv' /\ GateInv' /\ KnowsInv' /\ UnharmedInv' /\ FirstInv'
           /\ SparedInv' /\ TruthInv'
<1> DEFINE k == task[t]
<1>1. /\ FitsInv /\ k \in TaskStates /\ Fits(k) /\ helper.gen \in Nat /\ used.faults \in Nat
      /\ gate.attempts \in Nat /\ mutation \in Tasks \cup {None}
      /\ gate.holder \in Tasks \cup {None}
  BY DEF DaemonInv, FitsInv, DaemonTypeOK, HelperStates, Gates
<1>2. FitsInv' /\ Moved(t) /\ k.pc = "activate" /\ gate' = gate
      /\ (state' = state \/ state'.health \notin {"healthy", "inactive"})
      /\ used'.faults \in {used.faults, used.faults + 1}
      /\ \/ helper' = helper
         \/ /\ helper.left = "none" /\ helper'.prof # None /\ helper'.left = "none"
            /\ helper'.undo.prof = helper.prof /\ helper'.undo.gen = helper.gen + 1
            /\ helper'.gen = helper.gen + 1
  BY <1>1, ActivateFits, ProfilesAssumption DEF Activate
<1>3. \/ /\ task'[t].pc = "idle" /\ task'[t].op = None /\ task'[t].read = None
         /\ mutation' = (IF mutation = t THEN None ELSE mutation)
      \/ /\ task'[t].pc = "verify" /\ task'[t].op = k.op
         /\ mutation' = mutation
         /\ task'[t].was = helper.prof
         /\ helper'.undo.prof = helper.prof /\ state' = state
  <2>1. Ends(t) => /\ task'[t].pc = "idle" /\ task'[t].op = None /\ task'[t].read = None
                    /\ mutation' = (IF mutation = t THEN None ELSE mutation)
    BY <1>1, EndsLeaves
  <2> QED BY <1>1, <1>2, <2>1, ActivateFits
<1>4. LockInv'
  BY <1>1, <1>2, <1>3, NoneAssumption DEF DaemonInv, Moved, Fits, LockInv, Holds
<1>5. UndoInv'
  BY <1>1, <1>2, <1>3, NoneAssumption DEF DaemonInv, Moved, Fits, UndoInv, LockInv, Holds
<1>6. GateInv'
  BY <1>1, <1>2, <1>3, NoneAssumption DEF DaemonInv, Moved, Fits, GateInv, UndoInv
<1>7. KnowsInv'
  BY <1>1, <1>2, <1>3, NoneAssumption DEF DaemonInv, Moved, Fits, KnowsInv, GateInv, LockInv, Holds
<1>8. UnharmedInv'
  BY <1>1, <1>2, <1>3, NoneAssumption
     DEF DaemonInv, Moved, Fits, UnharmedInv, Unharmed, KnowsInv, GateInv, LockInv, Holds,
         Recovering
<1>9. FirstInv'
  BY <1>1, <1>2, <1>3, NoneAssumption
     DEF DaemonInv, Moved, Fits, FirstInv, UnharmedInv, Unharmed, KnowsInv, GateInv, LockInv,
         Holds, Rejoining
<1>10. SparedInv'
  <2>1. ASSUME "orphan" \notin Leftovers
        PROVE  /\ helper'.prof \in {helper.prof, None} \/ gate.completed
               /\ helper'.left # "orphan" /\ state'.err # "orphan" /\ Spared(task[t])'
    BY <1>1, <1>2, <1>3, <2>1, ErrStays, NoneAssumption
       DEF DaemonInv, SparedInv, Spared, Given, Ops
  <2> QED BY <1>1, <1>2, <1>3, <2>1, SparedMoves
<1>11. TruthInv'
  <2>1. ASSUME Watched'
        PROVE  /\ \/ gate.completed \/ gate.holder = None \/ Rejoining'
                  \/ helper'.prof = helper.prof /\ task[t].pc # "rejoin"
               /\ gate'.completed /\ state'.health \in {"healthy", "inactive"} =>
                    Names(state', helper'.prof) \/ Rejoining'
               /\ state'.applied # None /\ state'.health = "healthy" /\ helper'.prof = None =>
                    Rejoining'
               /\ Tells(task[t])'
    <3>1. Watched /\ Tells(k)
      BY <1>1, <1>2, <1>3, <2>1 DEF Watched, DaemonInv, TruthInv
    <3>2. gate.completed /\ state.health = "applying"
      BY <1>2, <3>1, CompleteTells DEF Tells
    <3> QED BY <1>2, <1>3, <3>2 DEF Tells
  <2> QED BY <1>1, <1>2, <1>3, <2>1, TruthHeld DEF Holds
<1> QED BY <1>4, <1>5, <1>6, <1>7, <1>8, <1>9, <1>10, <1>11

\* VerifyFails keeps the invariant.
LEMMA VerifyFailsKeeps ==
    ASSUME NEW t \in Tasks, DaemonInv, VerifyFails(t)
    PROVE  LockInv' /\ UndoInv' /\ GateInv' /\ KnowsInv' /\ UnharmedInv' /\ FirstInv'
           /\ SparedInv' /\ TruthInv'
<1> DEFINE k == task[t]
<1>1. /\ FitsInv /\ k \in TaskStates /\ Fits(k) /\ helper.gen \in Nat /\ used.faults \in Nat
      /\ gate.attempts \in Nat /\ mutation \in Tasks \cup {None}
      /\ gate.holder \in Tasks \cup {None}
  BY DEF DaemonInv, FitsInv, DaemonTypeOK, HelperStates, Gates
<1>2. FitsInv' /\ Moved(t) /\ k.pc = "verify"
      /\ helper' = helper /\ gate' = gate /\ state' = state /\ used'.faults = used.faults + 1
  BY <1>1, VerifyFailsFits DEF VerifyFails
<1>3. /\ task'[t].pc = "restore" /\ task'[t].was = k.was /\ task'[t].read = k.read
      /\ task'[t].op = k.op
            /\ mutation' = mutation
  <2>1. LET r == [k EXCEPT !.pc = "restore"]
       IN  r.pc = "restore" /\ r.op = k.op /\ r.was = k.was /\ r.read = k.read
    BY <1>1 DEF TaskStates
  <2>2. mutation' = mutation
    BY DEF VerifyFails
  <2>3. Ends(t) => /\ task'[t].pc = "idle" /\ task'[t].op = None /\ task'[t].read = None
                    /\ mutation' = (IF mutation = t THEN None ELSE mutation)
    BY <1>1, EndsLeaves
  <2> QED BY <1>1, <1>2, <2>1, <2>2, <2>3, VerifyFailsFits
<1>4. LockInv'
  BY <1>1, <1>2, <1>3, NoneAssumption DEF DaemonInv, Moved, Fits, LockInv, Holds
<1>5. UndoInv'
  BY <1>1, <1>2, <1>3, NoneAssumption DEF DaemonInv, Moved, Fits, UndoInv, LockInv, Holds
<1>6. GateInv'
  BY <1>1, <1>2, <1>3, NoneAssumption DEF DaemonInv, Moved, Fits, GateInv, UndoInv
<1>7. KnowsInv'
  BY <1>1, <1>2, <1>3, NoneAssumption DEF DaemonInv, Moved, Fits, KnowsInv, GateInv, LockInv, Holds
<1>8. UnharmedInv'
  BY <1>1, <1>2, <1>3, NoneAssumption
     DEF DaemonInv, Moved, Fits, UnharmedInv, Unharmed, KnowsInv, GateInv, LockInv, Holds,
         Recovering
<1>9. FirstInv'
  BY <1>1, <1>2, <1>3, NoneAssumption
     DEF DaemonInv, Moved, Fits, FirstInv, UnharmedInv, Unharmed, KnowsInv, GateInv, LockInv,
         Holds, Rejoining
<1>10. SparedInv'
  <2>1. ASSUME "orphan" \notin Leftovers
        PROVE  /\ helper'.prof \in {helper.prof, None} \/ gate.completed
               /\ helper'.left # "orphan" /\ state'.err # "orphan" /\ Spared(task[t])'
    BY <1>1, <1>2, <1>3, <2>1, ErrStays, NoneAssumption
       DEF DaemonInv, SparedInv, Spared, Given, Ops
  <2> QED BY <1>1, <1>2, <1>3, <2>1, SparedMoves
<1>11. TruthInv'
  <2>1. Watched => Tells(task[t])'
    BY <1>1, <1>2, <1>3, NoneAssumption DEF DaemonInv, TruthInv, Tells
  <2> QED BY <1>1, <1>2, <1>3, <2>1, TruthMoves DEF Holds
<1> QED BY <1>4, <1>5, <1>6, <1>7, <1>8, <1>9, <1>10, <1>11

\* Verify keeps the invariant.
LEMMA VerifyKeeps ==
    ASSUME NEW t \in Tasks, DaemonInv, Verify(t)
    PROVE  LockInv' /\ UndoInv' /\ GateInv' /\ KnowsInv' /\ UnharmedInv' /\ FirstInv'
           /\ SparedInv' /\ TruthInv'
<1> DEFINE k == task[t]
<1>1. /\ FitsInv /\ k \in TaskStates /\ Fits(k) /\ helper.gen \in Nat /\ used.faults \in Nat
      /\ gate.attempts \in Nat /\ mutation \in Tasks \cup {None}
      /\ gate.holder \in Tasks \cup {None}
  BY DEF DaemonInv, FitsInv, DaemonTypeOK, HelperStates, Gates
<1>2. FitsInv' /\ Moved(t) /\ k.pc = "verify"
      /\ helper' = helper /\ gate' = gate /\ used' = used /\ helper.prof # None
      /\ Names(state', helper.prof)
  BY <1>1, VerifyFits DEF Verify
<1>3. /\ task'[t].pc = "idle" /\ task'[t].op = None /\ task'[t].read = None
            /\ mutation' = (IF mutation = t THEN None ELSE mutation)
  <2>1. Ends(t) => /\ task'[t].pc = "idle" /\ task'[t].op = None /\ task'[t].read = None
                    /\ mutation' = (IF mutation = t THEN None ELSE mutation)
    BY <1>1, EndsLeaves
  <2> QED BY <1>1, <1>2, <2>1, VerifyFits
<1>4. LockInv'
  BY <1>1, <1>2, <1>3, NoneAssumption DEF DaemonInv, Moved, Fits, LockInv, Holds
<1>5. UndoInv'
  BY <1>1, <1>2, <1>3, NoneAssumption DEF DaemonInv, Moved, Fits, UndoInv, LockInv, Holds
<1>6. GateInv'
  BY <1>1, <1>2, <1>3, NoneAssumption DEF DaemonInv, Moved, Fits, GateInv, UndoInv
<1>7. KnowsInv'
  BY <1>1, <1>2, <1>3, NoneAssumption DEF DaemonInv, Moved, Fits, KnowsInv, GateInv, LockInv, Holds
<1>8. UnharmedInv'
  BY <1>1, <1>2, <1>3, NoneAssumption
     DEF DaemonInv, Moved, Fits, UnharmedInv, Unharmed, KnowsInv, GateInv, LockInv, Holds,
         Recovering
<1>9. FirstInv'
  BY <1>1, <1>2, <1>3, NoneAssumption
     DEF DaemonInv, Moved, Fits, FirstInv, UnharmedInv, Unharmed, KnowsInv, GateInv, LockInv,
         Holds, Rejoining
<1>10. SparedInv'
  <2>1. ASSUME "orphan" \notin Leftovers
        PROVE  /\ helper'.prof \in {helper.prof, None} \/ gate.completed
               /\ helper'.left # "orphan" /\ state'.err # "orphan" /\ Spared(task[t])'
    BY <1>1, <1>2, <1>3, <2>1, ErrStays, NoneAssumption
       DEF DaemonInv, SparedInv, Spared, Given, Ops
  <2> QED BY <1>1, <1>2, <1>3, <2>1, SparedMoves
<1>11. TruthInv'
  <2>1. ASSUME Watched'
        PROVE  /\ \/ gate.completed \/ gate.holder = None \/ Rejoining'
                  \/ helper'.prof = helper.prof /\ task[t].pc # "rejoin"
               /\ gate'.completed /\ state'.health \in {"healthy", "inactive"} =>
                    Names(state', helper'.prof) \/ Rejoining'
               /\ state'.applied # None /\ state'.health = "healthy" /\ helper'.prof = None =>
                    Rejoining'
               /\ Tells(task[t])'
    BY <1>2, <1>3 DEF Tells
  <2> QED BY <1>1, <1>2, <1>3, <2>1, TruthHeld DEF Holds
<1> QED BY <1>4, <1>5, <1>6, <1>7, <1>8, <1>9, <1>10, <1>11

\* Restore keeps the invariant.
LEMMA RestoreKeeps ==
    ASSUME NEW t \in Tasks, DaemonInv, Restore(t)
    PROVE  LockInv' /\ UndoInv' /\ GateInv' /\ KnowsInv' /\ UnharmedInv' /\ FirstInv'
           /\ SparedInv' /\ TruthInv'
<1> DEFINE k == task[t]
<1>1. /\ FitsInv /\ k \in TaskStates /\ Fits(k) /\ helper.gen \in Nat /\ used.faults \in Nat
      /\ gate.attempts \in Nat /\ mutation \in Tasks \cup {None}
      /\ gate.holder \in Tasks \cup {None}
  BY DEF DaemonInv, FitsInv, DaemonTypeOK, HelperStates, Gates
<1>2. FitsInv' /\ Moved(t) /\ k.pc = "restore" /\ gate' = gate
      /\ state'.health \notin {"healthy", "inactive"}
      /\ used'.faults \in {used.faults, used.faults + 1}
      /\ \/ /\ helper.undo # None /\ helper'.undo = None /\ helper'.left = helper.left
            /\ helper'.prof = helper.undo.prof
         \/ helper' = helper
  BY <1>1, RestoreFits DEF Restore
<1>3. /\ task'[t].pc = "idle" /\ task'[t].op = None /\ task'[t].read = None
            /\ mutation' = (IF mutation = t THEN None ELSE mutation)
  <2>1. Ends(t) => /\ task'[t].pc = "idle" /\ task'[t].op = None /\ task'[t].read = None
                    /\ mutation' = (IF mutation = t THEN None ELSE mutation)
    BY <1>1, EndsLeaves
  <2> QED BY <1>1, <1>2, <2>1, RestoreFits
<1>4. LockInv'
  BY <1>1, <1>2, <1>3, NoneAssumption DEF DaemonInv, Moved, Fits, LockInv, Holds
<1>5. UndoInv'
  BY <1>1, <1>2, <1>3, NoneAssumption DEF DaemonInv, Moved, Fits, UndoInv, LockInv, Holds
<1>6. GateInv'
  BY <1>1, <1>2, <1>3, NoneAssumption DEF DaemonInv, Moved, Fits, GateInv, UndoInv
<1>7. KnowsInv'
  BY <1>1, <1>2, <1>3, NoneAssumption DEF DaemonInv, Moved, Fits, KnowsInv, GateInv, LockInv, Holds
<1>8. UnharmedInv'
  BY <1>1, <1>2, <1>3, NoneAssumption
     DEF DaemonInv, Moved, Fits, UnharmedInv, Unharmed, KnowsInv, GateInv, LockInv, Holds,
         Recovering
<1>9. FirstInv'
  BY <1>1, <1>2, <1>3, NoneAssumption
     DEF DaemonInv, Moved, Fits, FirstInv, UnharmedInv, Unharmed, KnowsInv, GateInv, LockInv,
         Holds, Rejoining
<1>10. SparedInv'
  <2>1. ASSUME "orphan" \notin Leftovers
        PROVE  /\ helper'.prof \in {helper.prof, None} \/ gate.completed
               /\ helper'.left # "orphan" /\ state'.err # "orphan" /\ Spared(task[t])'
    BY <1>1, <1>2, <1>3, <2>1, ErrStays, NoneAssumption
       DEF DaemonInv, SparedInv, Spared, Given, Ops
  <2> QED BY <1>1, <1>2, <1>3, <2>1, SparedMoves
<1>11. TruthInv'
  <2>1. ASSUME Watched'
        PROVE  /\ \/ gate.completed \/ gate.holder = None \/ Rejoining'
                  \/ helper'.prof = helper.prof /\ task[t].pc # "rejoin"
               /\ gate'.completed /\ state'.health \in {"healthy", "inactive"} =>
                    Names(state', helper'.prof) \/ Rejoining'
               /\ state'.applied # None /\ state'.health = "healthy" /\ helper'.prof = None =>
                    Rejoining'
               /\ Tells(task[t])'
    <3>1. Watched /\ Tells(k)
      BY <1>1, <1>2, <1>3, <2>1 DEF Watched, DaemonInv, TruthInv
    <3>2. gate.completed
      BY <1>2, <3>1, CompleteTells
    <3> QED BY <1>2, <1>3, <3>2 DEF Tells
  <2> QED BY <1>1, <1>2, <1>3, <2>1, TruthHeld DEF Holds
<1> QED BY <1>4, <1>5, <1>6, <1>7, <1>8, <1>9, <1>10, <1>11

\* Launch keeps the invariant.
LEMMA LaunchKeeps ==
    ASSUME NEW t \in Tasks, DaemonInv, Launch(t)
    PROVE  LockInv' /\ UndoInv' /\ GateInv' /\ KnowsInv' /\ UnharmedInv' /\ FirstInv'
           /\ SparedInv' /\ TruthInv'
<1> DEFINE k == task[t]
<1>1. /\ FitsInv /\ k \in TaskStates /\ Fits(k) /\ helper.gen \in Nat /\ used.faults \in Nat
      /\ gate.attempts \in Nat /\ mutation \in Tasks \cup {None}
      /\ gate.holder \in Tasks \cup {None}
  BY DEF DaemonInv, FitsInv, DaemonTypeOK, HelperStates, Gates
<1>2. FitsInv' /\ Moved(t) /\ k.pc = "ready" /\ helper' = helper /\ gate' = gate /\ state' = state
      /\ used'.faults \in {used.faults, used.faults + 1}
  BY <1>1, LaunchFits DEF Launch
<1>3. /\ task'[t].pc = "idle" /\ task'[t].op = None /\ task'[t].read = None
            /\ mutation' = (IF mutation = t THEN None ELSE mutation)
  <2>1. Ends(t) => /\ task'[t].pc = "idle" /\ task'[t].op = None /\ task'[t].read = None
                    /\ mutation' = (IF mutation = t THEN None ELSE mutation)
    BY <1>1, EndsLeaves
  <2> QED BY <1>1, <1>2, <2>1, LaunchFits
<1>4. LockInv'
  BY <1>1, <1>2, <1>3, NoneAssumption DEF DaemonInv, Moved, Fits, LockInv, Holds
<1>5. UndoInv'
  BY <1>1, <1>2, <1>3, NoneAssumption DEF DaemonInv, Moved, Fits, UndoInv, LockInv, Holds
<1>6. GateInv'
  BY <1>1, <1>2, <1>3, NoneAssumption DEF DaemonInv, Moved, Fits, GateInv, UndoInv
<1>7. KnowsInv'
  BY <1>1, <1>2, <1>3, NoneAssumption DEF DaemonInv, Moved, Fits, KnowsInv, GateInv, LockInv, Holds
<1>8. UnharmedInv'
  BY <1>1, <1>2, <1>3, NoneAssumption
     DEF DaemonInv, Moved, Fits, UnharmedInv, Unharmed, KnowsInv, GateInv, LockInv, Holds,
         Recovering
<1>9. FirstInv'
  BY <1>1, <1>2, <1>3, NoneAssumption
     DEF DaemonInv, Moved, Fits, FirstInv, UnharmedInv, Unharmed, KnowsInv, GateInv, LockInv,
         Holds, Rejoining
<1>10. SparedInv'
  <2>1. ASSUME "orphan" \notin Leftovers
        PROVE  /\ helper'.prof \in {helper.prof, None} \/ gate.completed
               /\ helper'.left # "orphan" /\ state'.err # "orphan" /\ Spared(task[t])'
    BY <1>1, <1>2, <1>3, <2>1, ErrStays, NoneAssumption
       DEF DaemonInv, SparedInv, Spared, Given, Ops
  <2> QED BY <1>1, <1>2, <1>3, <2>1, SparedMoves
<1>11. TruthInv'
  <2>1. Watched => Tells(task[t])'
    BY <1>1, <1>2, <1>3, NoneAssumption DEF DaemonInv, TruthInv, Tells
  <2> QED BY <1>1, <1>2, <1>3, <2>1, TruthMoves DEF Holds
<1> QED BY <1>4, <1>5, <1>6, <1>7, <1>8, <1>9, <1>10, <1>11

\* Cleanup keeps the invariant.
LEMMA CleanupKeeps ==
    ASSUME NEW t \in Tasks, DaemonInv, Cleanup(t)
    PROVE  LockInv' /\ UndoInv' /\ GateInv' /\ KnowsInv' /\ UnharmedInv' /\ FirstInv'
           /\ SparedInv' /\ TruthInv'
<1> DEFINE k == task[t]
<1>1. /\ FitsInv /\ k \in TaskStates /\ Fits(k) /\ helper.gen \in Nat /\ used.faults \in Nat
      /\ gate.attempts \in Nat /\ mutation \in Tasks \cup {None}
      /\ gate.holder \in Tasks \cup {None}
  BY DEF DaemonInv, FitsInv, DaemonTypeOK, HelperStates, Gates
<1>2. FitsInv' /\ Moved(t) /\ k.pc = "cleanup" /\ k.op = "deactivate" /\ gate' = gate
      /\ \/ helper'.prof = None /\ helper'.undo = None
         \/ helper' = helper
      /\ (helper.left # "orphan" => helper'.left # "orphan")
  BY <1>1, CleanupFits DEF Cleanup, Fits
<1>3. \/ /\ task'[t].pc = "rejoin" /\ task'[t].was = k.was /\ task'[t].read = k.read
         /\ task'[t].op = k.op
         /\ mutation' = mutation
         /\ helper'.prof = None
         /\ state' = state /\ used' = used
      \/ /\ task'[t].pc = "idle" /\ task'[t].op = None /\ task'[t].read = None
         /\ mutation' = (IF mutation = t THEN None ELSE mutation)
         /\ state'.health \notin {"healthy", "inactive"} /\ used'.faults = used.faults + 1
  <2>1. LET r == [k EXCEPT !.pc = "rejoin"]
       IN  r.pc = "rejoin" /\ r.op = k.op /\ r.was = k.was /\ r.read = k.read
    BY <1>1 DEF TaskStates
  <2>2. Ends(t) => /\ task'[t].pc = "idle" /\ task'[t].op = None /\ task'[t].read = None
                    /\ mutation' = (IF mutation = t THEN None ELSE mutation)
    BY <1>1, EndsLeaves
  <2> QED BY <1>1, <1>2, <2>1, <2>2, CleanupFits
<1>4. LockInv'
  BY <1>1, <1>2, <1>3, NoneAssumption DEF DaemonInv, Moved, Fits, LockInv, Holds
<1>5. UndoInv'
  BY <1>1, <1>2, <1>3, NoneAssumption DEF DaemonInv, Moved, Fits, UndoInv, LockInv, Holds
<1>6. GateInv'
  BY <1>1, <1>2, <1>3, NoneAssumption DEF DaemonInv, Moved, Fits, GateInv, UndoInv
<1>7. KnowsInv'
  BY <1>1, <1>2, <1>3, NoneAssumption DEF DaemonInv, Moved, Fits, KnowsInv, GateInv, LockInv, Holds
<1>8. UnharmedInv'
  BY <1>1, <1>2, <1>3, NoneAssumption
     DEF DaemonInv, Moved, Fits, UnharmedInv, Unharmed, KnowsInv, GateInv, LockInv, Holds,
         Recovering
<1>9. FirstInv'
  BY <1>1, <1>2, <1>3, NoneAssumption
     DEF DaemonInv, Moved, Fits, FirstInv, UnharmedInv, Unharmed, KnowsInv, GateInv, LockInv,
         Holds, Rejoining
<1>10. SparedInv'
  <2>1. ASSUME "orphan" \notin Leftovers
        PROVE  /\ helper'.prof \in {helper.prof, None} \/ gate.completed
               /\ helper'.left # "orphan" /\ state'.err # "orphan" /\ Spared(task[t])'
    BY <1>1, <1>2, <1>3, <2>1, ErrStays, NoneAssumption
       DEF DaemonInv, SparedInv, Spared, Given, Ops
  <2> QED BY <1>1, <1>2, <1>3, <2>1, SparedMoves
<1>11. TruthInv'
  <2>1. ASSUME Watched'
        PROVE  /\ \/ gate.completed \/ gate.holder = None \/ Rejoining'
                  \/ helper'.prof = helper.prof /\ task[t].pc # "rejoin"
               /\ gate'.completed /\ state'.health \in {"healthy", "inactive"} =>
                    Names(state', helper'.prof) \/ Rejoining'
               /\ state'.applied # None /\ state'.health = "healthy" /\ helper'.prof = None =>
                    Rejoining'
               /\ Tells(task[t])'
    <3>1. mutation = t
      BY <1>2 DEF DaemonInv, LockInv, Holds
    <3>2. CASE task'[t].pc = "rejoin"
      <4>1. Rejoining' /\ helper'.prof = None
        BY <1>2, <1>3, <3>1, <3>2, NoneAssumption DEF Rejoining
      <4> QED BY <4>1, <3>2 DEF Tells
    <3>3. CASE task'[t].pc # "rejoin"
      <4>1. /\ task'[t].pc = "idle" /\ used'.faults = used.faults + 1
            /\ state'.health \notin {"healthy", "inactive"}
        BY <1>3, <3>3
      <4>2. "orphan" \notin Leftovers /\ used.faults <= 1
        BY <1>1, <2>1, <4>1 DEF Watched
      <4>3. gate.completed \/ helper.prof = None
        BY <1>1, <1>2, <4>2 DEF DaemonInv, SparedInv, Spared, Given
      <4> QED BY <1>2, <4>1, <4>3 DEF Tells
    <3> QED BY <3>2, <3>3
  <2> QED BY <1>1, <1>2, <1>3, <2>1, TruthHeld DEF Holds
<1> QED BY <1>4, <1>5, <1>6, <1>7, <1>8, <1>9, <1>10, <1>11

\* RecoverOrphans keeps the invariant.
LEMMA RecoverOrphansKeeps ==
    ASSUME NEW t \in Tasks, DaemonInv, RecoverOrphans(t)
    PROVE  LockInv' /\ UndoInv' /\ GateInv' /\ KnowsInv' /\ UnharmedInv' /\ FirstInv'
           /\ SparedInv' /\ TruthInv'
<1> DEFINE k == task[t]
<1>1. /\ FitsInv /\ k \in TaskStates /\ Fits(k) /\ helper.gen \in Nat /\ used.faults \in Nat
      /\ gate.attempts \in Nat /\ mutation \in Tasks \cup {None}
      /\ gate.holder \in Tasks \cup {None}
  BY DEF DaemonInv, FitsInv, DaemonTypeOK, HelperStates, Gates
<1>2. FitsInv' /\ Moved(t) /\ k.pc = "recover" /\ k.op = "recover" /\ gate' = gate /\ state' = state
      /\ used'.faults \in {used.faults, used.faults + 1}
      /\ helper'.prof = helper.prof /\ helper'.undo = helper.undo /\ helper'.gen = helper.gen
      /\ helper'.left \in {helper.left, "none"}
  BY <1>1, RecoverOrphansFits DEF RecoverOrphans, Fits
<1>3. \/ /\ task'[t].pc = "rejoin" /\ task'[t].was = k.was /\ task'[t].read = k.read
         /\ task'[t].op = k.op
         /\ mutation' = mutation
         /\ k.op = "recover" /\ helper'.left = "none"
      \/ /\ task'[t].pc = "idle" /\ task'[t].op = None /\ task'[t].read = None
         /\ mutation' = (IF mutation = t THEN None ELSE mutation)
  <2>1. LET r == [k EXCEPT !.pc = "rejoin"]
       IN  r.pc = "rejoin" /\ r.op = k.op /\ r.was = k.was /\ r.read = k.read
    BY <1>1 DEF TaskStates
  <2>2. Ends(t) => /\ task'[t].pc = "idle" /\ task'[t].op = None /\ task'[t].read = None
                    /\ mutation' = (IF mutation = t THEN None ELSE mutation)
    BY <1>1, EndsLeaves
  <2> QED BY <1>1, <1>2, <2>1, <2>2, RecoverOrphansFits
<1>4. LockInv'
  BY <1>1, <1>2, <1>3, NoneAssumption DEF DaemonInv, Moved, Fits, LockInv, Holds
<1>5. UndoInv'
  BY <1>1, <1>2, <1>3, NoneAssumption DEF DaemonInv, Moved, Fits, UndoInv, LockInv, Holds
<1>6. GateInv'
  BY <1>1, <1>2, <1>3, NoneAssumption DEF DaemonInv, Moved, Fits, GateInv, UndoInv
<1>7. KnowsInv'
  BY <1>1, <1>2, <1>3, NoneAssumption DEF DaemonInv, Moved, Fits, KnowsInv, GateInv, LockInv, Holds
<1>8. UnharmedInv'
  BY <1>1, <1>2, <1>3, NoneAssumption
     DEF DaemonInv, Moved, Fits, UnharmedInv, Unharmed, KnowsInv, GateInv, LockInv, Holds,
         Recovering
<1>9. FirstInv'
  BY <1>1, <1>2, <1>3, NoneAssumption
     DEF DaemonInv, Moved, Fits, FirstInv, UnharmedInv, Unharmed, KnowsInv, GateInv, LockInv,
         Holds, Rejoining
<1>10. SparedInv'
  <2>1. ASSUME "orphan" \notin Leftovers
        PROVE  /\ helper'.prof \in {helper.prof, None} \/ gate.completed
               /\ helper'.left # "orphan" /\ state'.err # "orphan" /\ Spared(task[t])'
    BY <1>1, <1>2, <1>3, <2>1, ErrStays, NoneAssumption
       DEF DaemonInv, SparedInv, Spared, Given, Ops
  <2> QED BY <1>1, <1>2, <1>3, <2>1, SparedMoves
<1>11. TruthInv'
  <2>1. Watched => Tells(task[t])'
    BY <1>1, <1>2, <1>3, NoneAssumption DEF DaemonInv, TruthInv, Tells
  <2> QED BY <1>1, <1>2, <1>3, <2>1, TruthMoves DEF Holds
<1> QED BY <1>4, <1>5, <1>6, <1>7, <1>8, <1>9, <1>10, <1>11

\* Rejoin keeps the invariant.
LEMMA RejoinKeeps ==
    ASSUME NEW t \in Tasks, DaemonInv, Rejoin(t)
    PROVE  LockInv' /\ UndoInv' /\ GateInv' /\ KnowsInv' /\ UnharmedInv' /\ FirstInv'
           /\ SparedInv' /\ TruthInv'
<1> DEFINE k == task[t]
<1>1. /\ FitsInv /\ k \in TaskStates /\ Fits(k) /\ helper.gen \in Nat /\ used.faults \in Nat
      /\ gate.attempts \in Nat /\ mutation \in Tasks \cup {None}
      /\ gate.holder \in Tasks \cup {None}
  BY DEF DaemonInv, FitsInv, DaemonTypeOK, HelperStates, Gates
<1>2. FitsInv' /\ Moved(t) /\ k.pc = "rejoin" /\ helper' = helper /\ used' = used
      /\ gate.holder = None /\ state'.applied = None
  BY <1>1, RejoinFits
<1>3. \/ /\ task'[t].pc = "idle" /\ task'[t].op = None /\ task'[t].read = None
         /\ mutation' = (IF mutation = t THEN None ELSE mutation)
         /\ gate'.completed = TRUE /\ gate'.last = "none" /\ gate'.holder = None
      \/ /\ task'[t].pc = "again" /\ task'[t].was = k.was /\ task'[t].read = k.read
         /\ task'[t].op = k.op
         /\ mutation' = mutation
         /\ k.op = "recover"
         /\ gate'.attempts = 0 /\ gate'.completed = FALSE /\ gate'.last = "none"
         /\ gate'.holder = None
  <2>1. LET r == [k EXCEPT !.pc = "again", !.seen = 0]
       IN  r.pc = "again" /\ r.op = k.op /\ r.was = k.was /\ r.read = k.read
    BY <1>1 DEF TaskStates
  <2>2. /\ NewGate.attempts = 0 /\ NewGate.completed = FALSE /\ NewGate.last = "none"
        /\ NewGate.holder = None
    BY DEF NewGate
  <2>3. Ends(t) => /\ task'[t].pc = "idle" /\ task'[t].op = None /\ task'[t].read = None
                    /\ mutation' = (IF mutation = t THEN None ELSE mutation)
    BY <1>1, EndsLeaves
  <2> QED BY <1>1, <1>2, <2>1, <2>2, <2>3, RejoinFits
<1>4. LockInv'
  BY <1>1, <1>2, <1>3, NoneAssumption DEF DaemonInv, Moved, Fits, LockInv, Holds
<1>5. UndoInv'
  BY <1>1, <1>2, <1>3, NoneAssumption DEF DaemonInv, Moved, Fits, UndoInv, LockInv, Holds
<1>6. GateInv'
  BY <1>1, <1>2, <1>3, NoneAssumption DEF DaemonInv, Moved, Fits, GateInv, UndoInv
<1>7. KnowsInv'
  BY <1>1, <1>2, <1>3, NoneAssumption DEF DaemonInv, Moved, Fits, KnowsInv, GateInv, LockInv, Holds
<1>8. UnharmedInv'
  BY <1>1, <1>2, <1>3, NoneAssumption
     DEF DaemonInv, Moved, Fits, UnharmedInv, Unharmed, KnowsInv, GateInv, LockInv, Holds,
         Recovering
<1>9. FirstInv'
  BY <1>1, <1>2, <1>3, NoneAssumption
     DEF DaemonInv, Moved, Fits, FirstInv, UnharmedInv, Unharmed, KnowsInv, GateInv, LockInv,
         Holds, Rejoining
<1>10. SparedInv'
  <2>1. ASSUME "orphan" \notin Leftovers PROVE SparedInv'
    <3>1. k.op = "deactivate"
      BY <1>1, <1>2, <2>1 DEF DaemonInv, SparedInv, Spared, Fits
    <3>2. /\ task'[t].pc = "idle" /\ task'[t].op = None
          /\ gate'.completed = TRUE /\ gate'.last = "none"
      BY <1>3, <3>1
    <3>3. state'.err # "orphan"
      BY <1>1, <2>1, ErrStays DEF DaemonInv, SparedInv
    <3>4. ASSUME NEW x \in Tasks PROVE Spared(task[x])'
      <4>1. CASE x = t
        BY <3>2, <4>1, NoneAssumption DEF Spared, Ops
      <4>2. CASE x # t
        <5>1. task'[x] = task[x] /\ Spared(task[x]) /\ task[x].pc # "reconcile"
          BY <1>2, <2>1, <4>2, NoneAssumption DEF Moved, DaemonInv, SparedInv, GateInv
        <5> QED BY <1>2, <3>2, <5>1 DEF Spared, Given
      <4> QED BY <4>1, <4>2
    <3> QED BY <1>2, <2>1, <3>2, <3>3, <3>4 DEF DaemonInv, SparedInv
  <2> QED BY <2>1 DEF SparedInv
<1>11. TruthInv'
  <2>1. ASSUME Watched'
        PROVE  /\ \/ gate.completed \/ gate.holder = None \/ Rejoining'
                  \/ helper'.prof = helper.prof /\ task[t].pc # "rejoin"
               /\ gate'.completed /\ state'.health \in {"healthy", "inactive"} =>
                    Names(state', helper'.prof) \/ Rejoining'
               /\ state'.applied # None /\ state'.health = "healthy" /\ helper'.prof = None =>
                    Rejoining'
               /\ Tells(task[t])'
    <3>1. Watched /\ Tells(k)
      BY <1>1, <1>2, <1>3, <2>1 DEF Watched, DaemonInv, TruthInv
    <3>2. k.op = "deactivate" => helper.prof = None
      BY <1>2, <3>1 DEF Tells
    <3>3. k.op = "deactivate" \/ ~gate'.completed
      <4>1. ~NewGate.completed
        BY DEF NewGate
      <4> QED BY <1>1, <4>1, RejoinFits
    <3>4. task'[t].pc \in {"idle", "again"}
      BY <1>3
    <3> QED BY <1>2, <3>2, <3>3, <3>4 DEF Tells, Names
  <2> QED BY <1>1, <1>2, <1>3, <2>1, TruthHeld DEF Holds
<1> QED BY <1>4, <1>5, <1>6, <1>7, <1>8, <1>9, <1>10, <1>11

\* FollowInspect keeps the invariant.
LEMMA FollowInspectKeeps ==
    ASSUME NEW t \in Tasks, DaemonInv, FollowInspect(t)
    PROVE  LockInv' /\ UndoInv' /\ GateInv' /\ KnowsInv' /\ UnharmedInv' /\ FirstInv'
           /\ SparedInv' /\ TruthInv'
<1> DEFINE k == task[t]
<1>1. /\ FitsInv /\ k \in TaskStates /\ Fits(k) /\ helper.gen \in Nat /\ used.faults \in Nat
      /\ gate.attempts \in Nat /\ mutation \in Tasks \cup {None}
      /\ gate.holder \in Tasks \cup {None}
  BY DEF DaemonInv, FitsInv, DaemonTypeOK, HelperStates, Gates
<1>2. FitsInv' /\ Moved(t) /\ k.pc = "follow" /\ helper' = helper /\ gate' = gate
      /\ (state' = state \/ state'.health \notin {"healthy", "inactive"})
      /\ used'.faults \in {used.faults, used.faults + 1}
  BY <1>1, FollowInspectFits
<1>3. \/ /\ task'[t].pc = k.pc /\ task'[t].was = k.was /\ task'[t].op = k.op
         /\ mutation' = mutation
         /\ task'[t].read = helper
      \/ /\ task'[t].pc = "idle" /\ task'[t].op = None /\ task'[t].read = None
         /\ mutation' = (IF mutation = t THEN None ELSE mutation)
  <2>1. LET r == [k EXCEPT !.read = helper]
       IN  r.pc = k.pc /\ r.op = k.op /\ r.was = k.was /\ r.read = helper
    BY <1>1 DEF TaskStates
  <2>2. Ends(t) => /\ task'[t].pc = "idle" /\ task'[t].op = None /\ task'[t].read = None
                    /\ mutation' = (IF mutation = t THEN None ELSE mutation)
    BY <1>1, EndsLeaves
  <2> QED BY <1>1, <1>2, <2>1, <2>2, FollowInspectFits
<1>4. LockInv'
  BY <1>1, <1>2, <1>3, NoneAssumption DEF DaemonInv, Moved, Fits, LockInv, Holds
<1>5. UndoInv'
  BY <1>1, <1>2, <1>3, NoneAssumption DEF DaemonInv, Moved, Fits, UndoInv, LockInv, Holds
<1>6. GateInv'
  BY <1>1, <1>2, <1>3, NoneAssumption DEF DaemonInv, Moved, Fits, GateInv, UndoInv
<1>7. KnowsInv'
  BY <1>1, <1>2, <1>3, NoneAssumption DEF DaemonInv, Moved, Fits, KnowsInv, GateInv, LockInv, Holds
<1>8. UnharmedInv'
  BY <1>1, <1>2, <1>3, NoneAssumption
     DEF DaemonInv, Moved, Fits, UnharmedInv, Unharmed, KnowsInv, GateInv, LockInv, Holds,
         Recovering
<1>9. FirstInv'
  BY <1>1, <1>2, <1>3, NoneAssumption
     DEF DaemonInv, Moved, Fits, FirstInv, UnharmedInv, Unharmed, KnowsInv, GateInv, LockInv,
         Holds, Rejoining
<1>10. SparedInv'
  <2>1. ASSUME "orphan" \notin Leftovers
        PROVE  /\ helper'.prof \in {helper.prof, None} \/ gate.completed
               /\ helper'.left # "orphan" /\ state'.err # "orphan" /\ Spared(task[t])'
    BY <1>1, <1>2, <1>3, <2>1, ErrStays, NoneAssumption
       DEF DaemonInv, SparedInv, Spared, Given, Ops
  <2> QED BY <1>1, <1>2, <1>3, <2>1, SparedMoves
<1>11. TruthInv'
  <2>1. Watched => Tells(task[t])'
    BY <1>1, <1>2, <1>3, NoneAssumption DEF DaemonInv, TruthInv, Tells
  <2> QED BY <1>1, <1>2, <1>3, <2>1, TruthMoves DEF Holds
<1> QED BY <1>4, <1>5, <1>6, <1>7, <1>8, <1>9, <1>10, <1>11

\* Follow keeps the invariant.
LEMMA FollowKeeps ==
    ASSUME NEW t \in Tasks, DaemonInv, Follow(t)
    PROVE  LockInv' /\ UndoInv' /\ GateInv' /\ KnowsInv' /\ UnharmedInv' /\ FirstInv'
           /\ SparedInv' /\ TruthInv'
<1> DEFINE k == task[t]
<1>1. /\ FitsInv /\ k \in TaskStates /\ Fits(k) /\ helper.gen \in Nat /\ used.faults \in Nat
      /\ gate.attempts \in Nat /\ mutation \in Tasks \cup {None}
      /\ gate.holder \in Tasks \cup {None}
  BY DEF DaemonInv, FitsInv, DaemonTypeOK, HelperStates, Gates
<1>2. FitsInv' /\ Moved(t) /\ k.pc = "follow" /\ helper' = helper /\ gate' = gate
      /\ used' = used /\ k.read # None
      /\ \/ state' = state \/ state'.health \notin {"healthy", "inactive"}
         \/ Names(state', k.read.prof)
  BY <1>1, FollowFits
<1>3. /\ task'[t].pc = "idle" /\ task'[t].op = None /\ task'[t].read = None
            /\ mutation' = (IF mutation = t THEN None ELSE mutation)
  <2>1. Ends(t) => /\ task'[t].pc = "idle" /\ task'[t].op = None /\ task'[t].read = None
                    /\ mutation' = (IF mutation = t THEN None ELSE mutation)
    BY <1>1, EndsLeaves
  <2> QED BY <1>1, <1>2, <2>1, FollowFits
<1>4. LockInv'
  BY <1>1, <1>2, <1>3, NoneAssumption DEF DaemonInv, Moved, Fits, LockInv, Holds
<1>5. UndoInv'
  BY <1>1, <1>2, <1>3, NoneAssumption DEF DaemonInv, Moved, Fits, UndoInv, LockInv, Holds
<1>6. GateInv'
  BY <1>1, <1>2, <1>3, NoneAssumption DEF DaemonInv, Moved, Fits, GateInv, UndoInv
<1>7. KnowsInv'
  BY <1>1, <1>2, <1>3, NoneAssumption DEF DaemonInv, Moved, Fits, KnowsInv, GateInv, LockInv, Holds
<1>8. UnharmedInv'
  BY <1>1, <1>2, <1>3, NoneAssumption
     DEF DaemonInv, Moved, Fits, UnharmedInv, Unharmed, KnowsInv, GateInv, LockInv, Holds,
         Recovering
<1>9. FirstInv'
  BY <1>1, <1>2, <1>3, NoneAssumption
     DEF DaemonInv, Moved, Fits, FirstInv, UnharmedInv, Unharmed, KnowsInv, GateInv, LockInv,
         Holds, Rejoining, Names
<1>10. SparedInv'
  <2>1. ASSUME "orphan" \notin Leftovers
        PROVE  /\ helper'.prof \in {helper.prof, None} \/ gate.completed
               /\ helper'.left # "orphan" /\ state'.err # "orphan" /\ Spared(task[t])'
    BY <1>1, <1>2, <1>3, <2>1, ErrStays, NoneAssumption
       DEF DaemonInv, SparedInv, Spared, Given, Ops
  <2> QED BY <1>1, <1>2, <1>3, <2>1, SparedMoves
<1>11. TruthInv'
  <2>1. ASSUME Watched'
        PROVE  /\ \/ gate.completed \/ gate.holder = None \/ Rejoining'
                  \/ helper'.prof = helper.prof /\ task[t].pc # "rejoin"
               /\ gate'.completed /\ state'.health \in {"healthy", "inactive"} =>
                    Names(state', helper'.prof) \/ Rejoining'
               /\ state'.applied # None /\ state'.health = "healthy" /\ helper'.prof = None =>
                    Rejoining'
               /\ Tells(task[t])'
    <3>1. Watched
      BY <1>1, <1>2, <2>1 DEF Watched
    <3>2. ~Rejoining /\ k.read.prof = helper.prof
      BY <1>2 DEF DaemonInv, LockInv, Holds, Rejoining, KnowsInv
    <3>3. /\ gate.completed /\ state.health \in {"healthy", "inactive"} => Names(state, helper.prof)
          /\ ~(state.applied # None /\ state.health = "healthy" /\ helper.prof = None)
      BY <3>1, <3>2 DEF DaemonInv, TruthInv
    <3> QED BY <1>2, <1>3, <3>2, <3>3 DEF Tells, Names
  <2> QED BY <1>1, <1>2, <1>3, <2>1, TruthHeld DEF Holds
<1> QED BY <1>4, <1>5, <1>6, <1>7, <1>8, <1>9, <1>10, <1>11

\* Reconcile keeps the invariant.
LEMMA ReconcileKeeps ==
    ASSUME NEW t \in Tasks, DaemonInv, Reconcile(t)
    PROVE  LockInv' /\ UndoInv' /\ GateInv' /\ KnowsInv' /\ UnharmedInv' /\ FirstInv'
           /\ SparedInv' /\ TruthInv'
<1> DEFINE k == task[t]
<1>1. /\ FitsInv /\ k \in TaskStates /\ Fits(k) /\ helper.gen \in Nat /\ used.faults \in Nat
      /\ gate.attempts \in Nat /\ mutation \in Tasks \cup {None}
      /\ gate.holder \in Tasks \cup {None}
      /\ k.read \in HelperStates \cup {None}
  BY DEF DaemonInv, FitsInv, DaemonTypeOK, HelperStates, Gates, TaskStates
<1>2. FitsInv' /\ Moved(t) /\ k.pc = "reconcile"
      /\ helper' = helper /\ mutation' = mutation
  BY <1>1, ReconcileFits DEF Reconcile
<1>3. PICK e \in Errors :
        /\ Reconciles(t, e)
        /\ \/ e = k.was /\ k.read = None /\ used' = used
           \/ e = "legacy" /\ k.read # None /\ k.read.left = "legacy" /\ used' = used
           \/ e = "orphan" /\ k.read # None /\ k.read.left = "orphan" /\ used' = used
           \/ e = "none" /\ k.read # None /\ used' = used
           \/ e = "reconcile" /\ k.read # None /\ used'.faults = used.faults + 1
        /\ IF e = "none" THEN state' = Reconciled(state, k.read)
           ELSE state'.health \notin {"healthy", "inactive"} /\ state'.err = e
  BY <1>1, ReconcileFits
<1>4. /\ task'[t].pc = "store" /\ task'[t].was = e /\ task'[t].op = k.op /\ task'[t].read = None
      /\ gate'.completed = (e = "none") /\ gate'.last = e /\ gate'.holder = None
      /\ gate'.attempts = gate.attempts + 1
  BY <1>1, <1>3 DEF Reconciles, TaskStates
<1>5. e = "none" /\ k.read.prof = None => state'.applied = None
  <2>1. state \in States
    BY <1>1 DEF FitsInv, DaemonTypeOK
  <2> QED BY <1>3, <2>1 DEF Reconciled, States
<1>6. /\ k.read = None => k.was \in {"reconcile", "denied"}
      /\ k.op = "recover" => mutation = t
      /\ gate.holder = t /\ ~gate.completed
      /\ \A x \in Tasks : x # t => task'[x] = task[x] /\ task[x].pc # "reconcile"
  BY <1>1, <1>2, NoneAssumption DEF Fits, DaemonInv, LockInv, Holds, GateInv, Moved
<1>7. LockInv'
  BY <1>1, <1>2, <1>4, NoneAssumption DEF DaemonInv, Moved, Fits, LockInv, Holds
<1>8. UndoInv'
  BY <1>1, <1>2, <1>4, NoneAssumption DEF DaemonInv, Moved, Fits, UndoInv
<1>9. GateInv'
  BY <1>1, <1>2, <1>4, <1>6, NoneAssumption DEF DaemonInv, GateInv
<1>10. KnowsInv'
  BY <1>1, <1>2, <1>4, <1>6, NoneAssumption, ZenonT(40) DEF DaemonInv, KnowsInv
<1>11. UnharmedInv'
  <2>1. SUFFICES ASSUME used'.faults = 0 PROVE UnharmedInv'
    BY DEF UnharmedInv
  <2>2. /\ used.faults = 0 /\ k.read # None /\ e # "reconcile"
        /\ e \in {"none", "legacy", "orphan"} /\ (e \in {"legacy", "orphan"} => k.read.left = e)
    <3>1. used'.faults # used.faults + 1
      BY <1>1, <2>1
    <3>2. used.faults = 0
      BY <1>3, <2>1, <3>1
    <3>3. k.read # None
      BY <1>2, <3>2 DEF DaemonInv, UnharmedInv, Unharmed
    <3> QED BY <1>3, <3>1, <3>2, <3>3
  <2>3. Unharmed(k) /\ UnharmedInv /\ \A x \in Tasks : Unharmed(task[x])
    BY <2>2 DEF DaemonInv, UnharmedInv
  <2>4. e = "legacy" => helper.prof = None
    <3>1. e = "legacy" => k.read.prof = None
      BY <1>2, <2>2 DEF DaemonInv, KnowsInv
    <3> QED BY <1>2, <2>3, <3>1 DEF Unharmed
  <2>6. Recovering => e = "none"
    BY <1>2, <2>2, <2>3 DEF UnharmedInv
  <2>7. Recovering' => Recovering
    BY <1>1, <1>2, <1>4, <1>6 DEF Recovering
  <2>8. ASSUME NEW x \in Tasks PROVE Unharmed(task[x])'
    <3>1. CASE x = t
      BY <1>2, <1>4, <2>2, <2>4, <3>1 DEF Unharmed
    <3>2. CASE x # t
      <4>1. task'[x] = task[x] /\ task[x].pc # "reconcile" /\ Unharmed(task[x])
        BY <1>6, <2>3, <3>2
      <4>2. gate.completed \/ Recovering => gate'.completed
        BY <1>4, <1>6, <2>6
      <4> QED BY <1>2, <1>6, <4>1, <4>2 DEF Unharmed
    <3> QED BY <3>1, <3>2
  <2>9. Recovering' => helper.left = "none" /\ gate'.completed
    BY <1>4, <2>2, <2>3, <2>6, <2>7 DEF UnharmedInv
  <2>10. \A x \in Tasks : task'[x].pc # "reconcile"
    BY <1>4, <1>6
  <2> QED BY <1>2, <1>4, <2>2, <2>4, <2>8, <2>9, <2>10 DEF UnharmedInv
<1>12. FirstInv'
  <2>1. SUFFICES ASSUME used'.faults <= 1 PROVE FirstInv'
    BY DEF FirstInv
  <2>2. used.faults <= 1
    BY <1>1, <1>3, <2>1
  <2>3. Rejoining => Rejoining'
    BY <1>1, <1>2, <1>6 DEF Rejoining
  <2>4. state'.applied # None /\ state'.health = "healthy" /\ helper'.prof = None => Rejoining
    <3>1. ASSUME e = "none", state'.applied # None, helper.prof = None PROVE Rejoining
      <4>1. k.read # None /\ k.read.prof # None
        BY <1>3, <1>5, <1>6, <3>1
      <4> QED BY <1>2, <2>2, <3>1, <4>1 DEF DaemonInv, FirstInv
    <3> QED BY <1>2, <1>3, <3>1
  <2>5. \A x \in Tasks : task'[x].pc # "reconcile"
    BY <1>4, <1>6
  <2>6. ~gate.completed
    BY <1>6
  <2>7. \A x \in Tasks : task'[x].pc # "restore"
    BY <1>4, <1>6, <2>2, <2>6 DEF DaemonInv, FirstInv
  <2> QED BY <2>3, <2>4, <2>5, <2>7 DEF FirstInv
<1>13. SparedInv'
  <2>1. SUFFICES ASSUME "orphan" \notin Leftovers PROVE SparedInv'
    BY DEF SparedInv
  <2>2. /\ Spared(k) /\ helper.left # "orphan" /\ \A x \in Tasks : Spared(task[x])
        /\ helper.prof # None => used.faults >= 1
    BY <1>6, <2>1 DEF DaemonInv, SparedInv
  <2>3. used'.faults \in {used.faults, used.faults + 1}
    BY <1>3
  <2>4. e = "reconcile" => Given'
    <3>1. CASE k.read = None
      BY <1>1, <1>2, <1>3, <1>6, <2>2, <2>3, <3>1 DEF Spared, Given
    <3>2. CASE k.read # None
      BY <1>1, <1>2, <1>3, <2>2, <3>2 DEF Given
    <3> QED BY <3>1, <3>2
  <2>5. e = "legacy" => helper.prof = None
    <3>1. e = "legacy" => k.read # None /\ k.read.left = "legacy"
      BY <1>3, <1>6
    <3>2. e = "legacy" => k.read.prof = None
      BY <1>2, <3>1 DEF DaemonInv, KnowsInv
    <3> QED BY <1>2, <2>2, <3>1, <3>2 DEF Spared
  <2>6. e # "orphan"
    BY <1>2, <1>3, <1>6, <2>2 DEF Spared
  <2>7. state'.err # "orphan"
    <3>1. state \in States
      BY <1>1 DEF FitsInv, DaemonTypeOK
    <3>2. Reconciled(state, k.read).err = "none"
      BY <3>1 DEF Reconciled, States
    <3> QED BY <1>3, <2>6, <3>2
  <2>8. ASSUME NEW x \in Tasks PROVE Spared(task[x])'
    <3>1. CASE x = t
      <4>1. task'[t].op # "recover"
        BY <1>2, <1>4, <2>2 DEF Spared
      <4>2. e = "none" => gate'.completed
        BY <1>4
      <4> QED BY <1>2, <1>4, <2>4, <2>5, <2>6, <3>1, <4>1, <4>2 DEF Spared
    <3>2. CASE x # t
      <4>1. task'[x] = task[x] /\ Spared(task[x])
        BY <1>6, <2>2, <3>2
      <4>2. Given => Given'
        BY <1>1, <1>2, <1>6, <2>3 DEF Given
      <4> QED BY <1>2, <1>6, <4>1, <4>2 DEF Spared
    <3> QED BY <3>1, <3>2
  <2> QED BY <1>1, <1>2, <1>4, <2>2, <2>3, <2>4, <2>5, <2>6, <2>7, <2>8 DEF SparedInv
<1>14. TruthInv'
  <2>1. SUFFICES ASSUME Watched' PROVE TruthInv'
    BY DEF TruthInv
  <2>2. Watched /\ TruthInv
    BY <1>1, <1>3, <2>1 DEF Watched, DaemonInv
  <2>3. Rejoining => Rejoining'
    BY <1>1, <1>2, <1>6 DEF Rejoining
  <2>4. e = "none" => k.read # None /\ (k.read.prof = helper.prof \/ Rejoining)
    BY <1>2, <1>3, <1>6, <2>2 DEF TruthInv, Tells
  <2>5. e = "none" => Names(state', k.read.prof)
    <3>1. state \in States
      BY <1>1 DEF FitsInv, DaemonTypeOK
    <3>2. ASSUME k.read # None, k.read.prof # None
          PROVE  Plan(k.read) # None /\ Plan(k.read).prof = k.read.prof
      <4>1. Plan(k.read) = [gen |-> k.read.gen, prof |-> k.read.prof]
        BY <3>2 DEF Plan
      <4>2. Plan(k.read) \in Plans
        BY <1>1, <3>2, <4>1 DEF Plans, HelperStates
      <4> QED BY <4>1, <4>2, NoneAssumption
    <3> QED BY <1>3, <2>4, <3>1, <3>2 DEF Reconciled, States, Names
  <2>6. ASSUME NEW x \in Tasks PROVE Tells(task[x])'
    <3>1. CASE x = t
      BY <1>4, <3>1 DEF Tells
    <3>2. CASE x # t
      <4>1. task'[x] = task[x] /\ task[x].pc # "reconcile" /\ Tells(task[x])
        BY <1>6, <2>2, <3>2 DEF TruthInv
      <4>2. task[x].pc \notin {"activate", "verify", "restore"}
        BY <1>6, <2>2, CompleteTells
      <4> QED BY <1>2, <4>1, <4>2 DEF Tells
    <3> QED BY <3>1, <3>2
  <2>7. gate'.completed => e = "none"
    BY <1>4
  <2> QED BY <1>2, <1>3, <2>3, <2>4, <2>5, <2>6, <2>7 DEF TruthInv, Names
<1> QED BY <1>7, <1>8, <1>9, <1>10, <1>11, <1>12, <1>13, <1>14

\* What the helper does on its own keeps the invariant.
LEMMA HelperKeeps ==
    ASSUME DaemonInv, HelperRefreshes \/ HelperPublishes \/ HelperRestarts
    PROVE  DaemonInv'
<1>1. /\ FitsInv' /\ UNCHANGED <<state, gate, mutation, task>>
      /\ helper'.prof = helper.prof /\ helper'.undo = helper.undo /\ helper'.left = helper.left
      /\ helper'.gen \in {helper.gen, helper.gen + 1}
      /\ used'.faults \in {used.faults, used.faults + 1}
  BY HelperFits DEF DaemonInv
<1>2. /\ helper.gen \in Nat /\ used.faults \in Nat /\ helper.undo \in Receipts \cup {None}
  BY DEF DaemonInv, FitsInv, DaemonTypeOK, HelperStates
<1>3. LockInv' /\ GateInv' /\ KnowsInv'
  BY <1>1 DEF DaemonInv, LockInv, GateInv, KnowsInv
<1>4. UndoInv'
  <2>1. helper.undo # None => helper.undo.gen \in Nat
    BY <1>2 DEF Receipts
  <2> QED BY <1>1, <1>2, <2>1 DEF DaemonInv, UndoInv
<1>5. UnharmedInv'
  BY <1>1, <1>2 DEF DaemonInv, UnharmedInv, Unharmed, Recovering
<1>6. FirstInv'
  BY <1>1, <1>2 DEF DaemonInv, FirstInv, Rejoining
<1>7. SparedInv'
  BY <1>1, <1>2 DEF DaemonInv, SparedInv, Spared, Given
<1>8. TruthInv'
  BY <1>1, <1>2 DEF DaemonInv, TruthInv, Tells, Watched, Names, Rejoining
<1> QED BY <1>1, <1>3, <1>4, <1>5, <1>6, <1>7, <1>8 DEF DaemonInv

\* A daemon that starts anew meets the invariant.
LEMMA DaemonRestartsKeeps == DaemonInv /\ DaemonRestarts => DaemonInv'
<1> SUFFICES ASSUME DaemonInv, DaemonRestarts PROVE DaemonInv'
  OBVIOUS
<1>1. /\ FitsInv' /\ helper' = helper /\ gate' = NewGate /\ mutation' = None
      /\ task' = [t \in Tasks |-> AtRest] /\ state'.applied = None
  BY DaemonRestartsFits DEF DaemonInv
<1>2. /\ AtRest.pc = "idle" /\ AtRest.op = None
      /\ NewGate.attempts = 0 /\ NewGate.completed = FALSE /\ NewGate.last = "none"
      /\ NewGate.holder = None
  BY DEF AtRest, NewGate
<1>3. \A t \in Tasks : task'[t].pc = "idle" /\ task'[t].op = None
  BY <1>1, <1>2
<1>4. LockInv' /\ UndoInv' /\ GateInv' /\ KnowsInv'
  BY <1>1, <1>2, <1>3, NoneAssumption
     DEF DaemonInv, LockInv, Holds, UndoInv, GateInv, KnowsInv, Ops
<1>5. ~Recovering' /\ ~Rejoining'
  BY <1>1 DEF Recovering, Rejoining
<1>6. UnharmedInv' /\ FirstInv'
  BY <1>1, <1>2, <1>3, <1>5 DEF UnharmedInv, Unharmed, FirstInv
<1>7. used'.faults = used.faults + 1 /\ used.faults \in Nat
  BY FaultFits DEF DaemonRestarts, DaemonInv, FitsInv, DaemonTypeOK
<1>8. SparedInv'
  <2>1. "orphan" \notin Leftovers => helper.left # "orphan"
    BY DEF DaemonInv, SparedInv
  <2>2. state'.err # "orphan"
    BY DaemonRestartsFits DEF DaemonInv
  <2> QED BY <1>1, <1>2, <1>3, <1>7, <2>1, <2>2, NoneAssumption DEF SparedInv, Spared, Ops
<1>9. TruthInv'
  BY <1>1, <1>2, <1>3 DEF TruthInv, Tells
<1> QED BY <1>1, <1>4, <1>6, <1>8, <1>9 DEF DaemonInv

\* A task that begins keeps the invariant.
LEMMA BeginsKeeps ==
    ASSUME DaemonInv, NEW t \in Tasks, NEW op \in Ops, NEW p \in Profiles \cup {None},
           (TakeNews /\ t = Follower) \/ (Request(t, op, p) /\ op # "follow")
    PROVE  DaemonInv'
<1>1. /\ FitsInv' /\ Moved(t) /\ task[t].pc = "idle"
      /\ UNCHANGED <<helper, state, gate, mutation>> /\ used'.faults = used.faults
      /\ \/ task'[t].pc = "mutex" /\ task'[t].op \notin {"apply", "toggle"}
         \/ task'[t].pc = "gate" /\ task'[t].op \notin {"launch", "deactivate", "recover"}
  BY BeginsFits DEF DaemonInv
<1>2. mutation \in Tasks \cup {None} /\ gate.holder \in Tasks \cup {None}
  BY DEF DaemonInv, FitsInv, DaemonTypeOK, Gates
<1>3. \A x \in Tasks : x # t => task'[x] = task[x]
  BY <1>1 DEF Moved
<1>4. LockInv' /\ UndoInv' /\ KnowsInv'
  BY <1>1, <1>3 DEF DaemonInv, LockInv, Holds, UndoInv, KnowsInv
<1>5. GateInv'
  BY <1>1, <1>2, <1>3 DEF DaemonInv, GateInv
<1>6. (Recovering' <=> Recovering) /\ (Rejoining' <=> Rejoining)
  BY <1>1, <1>2, <1>3 DEF Recovering, Rejoining
<1>7. UnharmedInv'
  BY <1>1, <1>3, <1>6 DEF DaemonInv, UnharmedInv, Unharmed
<1>8. FirstInv'
  BY <1>1, <1>3, <1>6 DEF DaemonInv, FirstInv
<1>9. SparedInv'
  <2>1. used.faults \in Nat
    BY DEF DaemonInv, FitsInv, DaemonTypeOK
  <2>2. Spared(task[t])'
    <3>1. task'[t].op # "recover" \/ task'[t].pc = "mutex"
      BY <1>1
    <3> QED BY <1>1, <3>1 DEF Spared
  <2> QED BY <1>1, <2>1, <2>2, SparedMoves DEF DaemonInv, SparedInv
<1>10. TruthInv'
  <2>1. used.faults \in Nat
    BY DEF DaemonInv, FitsInv, DaemonTypeOK
  <2>2. Tells(task[t])'
    BY <1>1 DEF Tells
  <2> QED BY <1>1, <2>1, <2>2, TruthMoves
<1> QED BY <1>1, <1>4, <1>5, <1>7, <1>8, <1>9, <1>10 DEF DaemonInv

\* The invariant holds initially.
LEMMA InitDaemon == Init => DaemonInv
<1> SUFFICES ASSUME Init PROVE DaemonInv
  OBVIOUS
<1>1. PICK left \in Leftovers : helper = NoHelperPlan(left)
  BY DEF Init
<1>2. /\ helper \in HelperStates /\ helper.prof = None /\ helper.undo = None
      /\ helper.left = left
  BY <1>1, FaultAssumption DEF NoHelperPlan, HelperStates, Phases
<1>3. /\ AtRest \in TaskStates /\ AtRest.pc = "idle" /\ AtRest.op = None
  BY DEF AtRest, TaskStates, PCs
<1>4. /\ NewGate \in Gates /\ NewGate.attempts = 0 /\ NewGate.completed = FALSE
      /\ NewGate.last = "none" /\ NewGate.holder = None
  BY DEF NewGate, Gates, Errors
<1>5. /\ NewState(None) \in States /\ NewState(None).applied = None
      /\ NewState(None).err = "none"
  BY DEF NewState, States, Healths, Errors, Phases
<1>6. Resync \in Statuses
  BY DEF Resync, Statuses
<1>7. Fits(AtRest)
  BY NoneAssumption DEF AtRest, Fits, Bare, Ops
<1>8. \A t \in Tasks : task[t] = AtRest
  BY DEF Init
<1>9. FitsInv
  BY <1>2, <1>3, <1>4, <1>5, <1>6, <1>7 DEF Init, FitsInv, DaemonTypeOK
<1>10. LockInv /\ UndoInv /\ GateInv /\ KnowsInv
  BY <1>2, <1>3, <1>4, <1>8, NoneAssumption
     DEF Init, LockInv, Holds, UndoInv, GateInv, KnowsInv, Ops
<1>11. UnharmedInv /\ FirstInv
  BY <1>2, <1>3, <1>4, <1>5, <1>8
     DEF Init, UnharmedInv, Unharmed, FirstInv, Recovering, Rejoining
<1>12. SparedInv
  BY <1>1, <1>2, <1>3, <1>4, <1>5, <1>8, NoneAssumption DEF Init, SparedInv, Spared, Ops
<1>13. TruthInv
  BY <1>2, <1>3, <1>4, <1>5, <1>8 DEF Init, TruthInv, Tells
<1> QED BY <1>9, <1>10, <1>11, <1>12, <1>13 DEF DaemonInv

\* Every step keeps the invariant.
LEMMA StepDaemon == DaemonInv /\ [Next]_vars => DaemonInv'
<1> SUFFICES ASSUME DaemonInv, [Next]_vars PROVE DaemonInv'
  OBVIOUS
<1>0. FitsInv
  BY DEF DaemonInv
<1>1. CASE UNCHANGED vars
  BY <1>1 DEF vars, DaemonInv, FitsInv, DaemonTypeOK, LockInv, UndoInv, GateInv, KnowsInv,
              UnharmedInv, Unharmed, FirstInv, SparedInv, Spared, Given, TruthInv, Tells, Watched,
              Names, Recovering, Rejoining
<1>2. CASE HelperRefreshes \/ HelperPublishes \/ HelperRestarts
  BY <1>2, HelperKeeps
<1>3. CASE DaemonRestarts
  BY <1>3, DaemonRestartsKeeps
<1>4. CASE TakeNews
  <2>1. Follower \in Tasks /\ "status" \in Ops /\ None \in Profiles \cup {None}
    BY DEF Tasks, Ops
  <2> QED BY <1>4, <2>1, BeginsKeeps
<1>5. ASSUME NEW t \in Clients, NEW op \in Ops, NEW p \in Profiles \cup {None}, Request(t, op, p),
             op # "follow"
      PROVE  DaemonInv'
  BY <1>5, BeginsKeeps DEF Tasks
<1>6. ASSUME NEW t \in Tasks, Step(t) PROVE DaemonInv'
  <2>1. FitsInv'
    BY <1>0, <1>6, LockFits, PassGateFits, InspectFits, ReconcileFits, StoreAttemptsFits,
       ReadStatusFits, PrepareFits, ActivateFits, VerifyFailsFits, VerifyFits, RestoreFits,
       LaunchFits, CleanupFits, RecoverOrphansFits, RejoinFits, FollowInspectFits, FollowFits
       DEF Step
  <2>2. /\ LockInv' /\ UndoInv' /\ GateInv' /\ KnowsInv' /\ UnharmedInv' /\ FirstInv'
        /\ SparedInv' /\ TruthInv'
    BY <1>6, LockKeeps, PassGateKeeps, InspectKeeps, ReconcileKeeps, StoreAttemptsKeeps,
       StatusKeeps, PrepareKeeps, ActivateKeeps, VerifyFailsKeeps, VerifyKeeps, RestoreKeeps,
       LaunchKeeps, CleanupKeeps, RecoverOrphansKeeps, RejoinKeeps, FollowInspectKeeps,
       FollowKeeps DEF Step
  <2> QED BY <2>1, <2>2 DEF DaemonInv
<1>7. ASSUME Next PROVE DaemonInv'
  <2>1. ASSUME NEW t \in Clients,
               \/ \E op \in {"status", "deactivate", "recover"} : Request(t, op, None)
               \/ \E op \in {"apply", "toggle", "launch"}, p \in Profiles : Request(t, op, p)
        PROVE  DaemonInv'
    <3>1. {"status", "deactivate", "recover", "apply", "toggle", "launch"} \subseteq Ops \ {"follow"}
      BY DEF Ops
    <3> QED BY <1>5, <2>1, <3>1
  <2> QED BY <1>2, <1>3, <1>4, <1>6, <1>7, <2>1 DEF Next
<1> QED BY <1>1, <1>7

-----------------------------------------------------------------------------
(* Theorems *)

\* For any number of clients and any interleaving, every variable keeps its type
\* and the mutation lock is held where the code holds it.
THEOREM DaemonTyped == Spec => [](DaemonTypeOK /\ LockInv)
<1>1. DaemonInv => DaemonTypeOK /\ LockInv
  BY DEF DaemonInv, FitsInv
<1> QED BY <1>1, InitDaemon, StepDaemon, PTL DEF Spec

\* Up to the first failure, whatever it is and however many requests and
\* reconciliations meet it, a plan that was given up is not shown as healthy
\* again: a reconciliation that read the helper before its plan was removed has
\* told the state by then, or is overruled.
THEOREM FirstFailureRevivesNothing == Spec => [](used.faults <= 1 => NoRevival)
<1>1. DaemonInv => (used.faults <= 1 => NoRevival)
  BY DEF DaemonInv, FirstInv, NoRevival, Quiet, Rejoining
<1> QED BY <1>1, InitDaemon, StepDaemon, PTL DEF Spec

\* Up to the second failure the same holds, unless orphans are recovered in
\* between (recover_orphaned_resources resets the gate): a gate once complete
\* opens again only when the daemon is restarted, the first failure, and a
\* plan is removed behind it only by a deactivation whose reconciliation
\* failed, the second.
THEOREM SecondFailureRevivesNothing ==
    ASSUME "orphan" \notin Leftovers
    PROVE  Spec => [](used.faults <= 2 => NoRevival)
<1>1. DaemonInv => (used.faults <= 2 => NoRevival)
  BY DEF DaemonInv, TruthInv, Watched, NoRevival, Quiet, Rejoining
<1> QED BY <1>1, InitDaemon, StepDaemon, PTL DEF Spec

\* What the daemon shows as healthy or inactive is so once every announcement
\* was delivered and every request answered, for any number of either: behind a
\* complete gate the state names the profile of the helper, but between a
\* deactivation at the helper and its entry in the state (TruthInv).
THEOREM HealthShownIsTrue == Spec => [](Watched => HealthyIsTrue)
<1>1. DaemonInv => (Watched => HealthyIsTrue)
  <2> SUFFICES ASSUME DaemonInv, Watched, Nothing, gate.completed,
                      state.health \in {"healthy", "inactive"}
               PROVE  helper.prof = IF state.applied = None THEN None ELSE state.applied.prof
    BY DEF HealthyIsTrue
  <2>1. ~Rejoining
    <3>1. mutation \in Tasks \cup {None}
      BY DEF DaemonInv, FitsInv, DaemonTypeOK
    <3> QED BY <3>1 DEF Nothing, Rejoining
  <2>2. Names(state, helper.prof)
    BY <2>1 DEF DaemonInv, TruthInv
  <2> QED BY <2>2 DEF Names
<1> QED BY <1>1, InitDaemon, StepDaemon, PTL DEF Spec

\* The step of a failed application.
LEMMA FailureKeeps ==
    ASSUME DaemonInv, Next, NEW t \in Clients,
           task[t].pc \in {"activate", "verify", "restore"},
           task'[t].pc = "idle", state'.err \notin {"none", "rollback"}
    PROVE  \/ helper'.prof = IF task[t].pc = "activate" THEN helper.prof ELSE task[t].was
           \/ task[t].pc = "activate" /\ news' = Append(news, Resync)
<1>0. FitsInv /\ t \in Tasks
  BY DEF DaemonInv, Tasks
<1>1. ASSUME NEW x \in Tasks, Step(x) PROVE x = t
  <2>1. Moved(x)
    BY <1>0, <1>1, LockFits, PassGateFits, InspectFits, ReconcileFits, StoreAttemptsFits,
       ReadStatusFits, PrepareFits, ActivateFits, VerifyFailsFits, VerifyFits, RestoreFits,
       LaunchFits, CleanupFits, RecoverOrphansFits, RejoinFits, FollowInspectFits, FollowFits, ZenonT(40)
       DEF Step
  <2> QED BY <1>0, <2>1 DEF Moved
<1>2. ~DaemonRestarts /\ ~HelperRefreshes /\ ~HelperPublishes /\ ~HelperRestarts
  BY <1>0, DaemonRestartsFits, HelperFits
<1>3. ~TakeNews
  <2>1. Follower \in Tasks /\ "status" \in Ops /\ None \in Profiles \cup {None}
    BY DEF Tasks, Ops
  <2>2. TakeNews => Moved(Follower) /\ task[Follower].pc = "idle" /\ task'[Follower].pc # "idle"
    BY <1>0, <2>1, BeginsFits
  <2> QED BY <1>0, <2>2 DEF Moved
<1>4. ASSUME NEW x \in Clients, NEW op \in Ops, NEW p \in Profiles \cup {None},
             Request(x, op, p), op # "follow"
      PROVE  FALSE
  <2>1. Moved(x) /\ task[x].pc = "idle"
    BY <1>0, <1>4, BeginsFits DEF Tasks
  <2> QED BY <1>0, <2>1 DEF Moved
<1>5. Step(t)
  <2>1. {"status", "deactivate", "recover", "apply", "toggle", "launch"} \subseteq Ops \ {"follow"}
    BY DEF Ops
  <2> QED BY <1>1, <1>2, <1>3, <1>4, <2>1 DEF Next
<1>6. CASE Activate(t)
  <2>1. task[t].pc = "activate" /\ (helper' = helper \/ news' = Append(news, Resync))
    BY <1>0, <1>6, ActivateFits
  <2> QED BY <2>1
<1>7. ASSUME ~Activate(t) PROVE Restore(t)
  <2>1. ~Verify(t) /\ ~VerifyFails(t)
    <3>1. VerifyFails(t) => task'[t].pc = "restore"
      <4>1. task[t] \in TaskStates
        BY <1>0 DEF FitsInv, DaemonTypeOK
      <4> QED BY <1>0, <4>1, VerifyFailsFits DEF TaskStates
    <3> QED BY <1>0, <3>1, VerifyFits
  <2> QED BY <1>0, <1>5, <1>7, <2>1, LockFits, PassGateFits, InspectFits, ReconcileFits,
             StoreAttemptsFits, ReadStatusFits, PrepareFits, LaunchFits, CleanupFits,
             RecoverOrphansFits, RejoinFits, FollowInspectFits, FollowFits, ZenonT(40) DEF Step
<1>8. CASE ~Activate(t)
  <2>1. /\ helper.undo # None /\ helper.undo.gen = helper.gen
        /\ helper'.prof = helper.undo.prof /\ task[t].pc = "restore"
    BY <1>0, <1>7, <1>8, RestoreFits
  <2> QED BY <1>0, <2>1 DEF DaemonInv, UndoInv
<1> QED BY <1>6, <1>8

\* A failed application leaves the policy that was in force, whatever fails how
\* often: nobody but the holder of the lock changes the profile meanwhile, and
\* the receipt of an activation names the profile it replaced.  A reply that is
\* lost with the helper is the exception, and is followed by a resync.
THEOREM FailuresKeepPolicy == Spec => FailedApplyKeepsPrevious
<1>1. DaemonInv /\ [Next]_vars =>
        [\A t \in Clients :
          (/\ task[t].pc \in {"activate", "verify", "restore"} /\ task'[t].pc = "idle"
           /\ state'.err \notin {"none", "rollback"})
          => \/ helper'.prof = IF task[t].pc = "activate" THEN helper.prof ELSE task[t].was
             \/ task[t].pc = "activate" /\ news' = Append(news, Resync)]_vars
  BY FailureKeeps
<1> QED BY <1>1, InitDaemon, StepDaemon, PTL DEF Spec, FailedApplyKeepsPrevious
=============================================================================
