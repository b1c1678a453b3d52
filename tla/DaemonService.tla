---------------------------- MODULE DaemonService ----------------------------
(***************************************************************************)
(* The user's daemon (daemon/service.rs): requests of its clients and the    *)
(* announcements of the helper, each a task of its own, over one mutation    *)
(* lock, one reconciliation gate and the state they share.                   *)
(*                                                                         *)
(* A step of a task runs from one await of a lock or of the helper to the    *)
(* next.  The helper is what its D-Bus methods promise the daemon: a         *)
(* register of plans with a generation (PlanRegister, HelperTransaction),    *)
(* refreshes it makes on its own (RuntimeFailover), and what it announces.   *)
(***************************************************************************)
EXTENDS Naturals, Sequences, FiniteSets

CONSTANTS
    Clients,        \* connections with a request under way
    Profiles,       \* profile contents
    IdOf,           \* Profile::id
    Toggled,        \* the profile with one rule switched on or off
    Valid,          \* the profiles validate_profile accepts
    Leftovers,      \* what the helper may find when it starts
    Faults,         \* the failures that may happen
    None,
    MaxRequests,    \* bound on requests
    MaxFaults,      \* bound on failures
    MaxRefreshes    \* bound on what the helper does on its own

AllFaults ==
    {"call",        \* a call of the helper fails
     "denied",      \* Polkit denies a mutation
     "save",        \* the desired profile cannot be saved
     "drift",       \* the kernel does not match the plan the helper reports
     "crash"}       \* the daemon or the helper is restarted

ASSUME ProfilesAssumption ==
    /\ None \notin Profiles /\ Valid \subseteq Profiles
    /\ Toggled \in [Profiles -> Profiles]
    /\ \A p \in Profiles : IdOf[Toggled[p]] = IdOf[p]
ASSUME FaultAssumption == Faults \subseteq AllFaults /\ Leftovers \subseteq {"none", "orphan", "legacy"}
ASSUME BoundsAssumption == {MaxRequests, MaxFaults, MaxRefreshes} \subseteq Nat

VARIABLES
    helper,     \* the helper: plan in force, phase, restore receipt, leftovers
    publish,    \* the status of a refresh that is not announced yet
    news,       \* announcements on their way to the daemon, and resyncs
    state,      \* DaemonState
    file,       \* the saved desired profile
    gate,       \* ReconciliationGate
    attempts,   \* reconciliation_attempts
    mutation,   \* the task that holds the mutation lock
    task,       \* what each task is doing
    used        \* requests, failures and refreshes so far

vars == <<helper, publish, news, state, file, gate, attempts, mutation, task, used>>

Follower == "follow"
Tasks == Clients \cup {Follower}

-----------------------------------------------------------------------------
(* State *)

NoPlan == [gen |-> 0, prof |-> None]
NoHelperPlan(left) == [gen |-> 0, prof |-> None, phase |-> "inactive", undo |-> None, left |-> left]

\* DaemonState::new
NewState(desired) ==
    [desired |-> desired, applied |-> None, profile |-> None, gen |-> 0,
     health |-> "inactive", err |-> "none", phase |-> "inactive"]

\* ReconciliationGate::default
NewGate == [attempts |-> 0, completed |-> FALSE, last |-> "none", holder |-> None]

\* A task at work: the step it is at, its operation and profile, the attempts
\* or the generation it saw, the plan it activated or the announcement it took,
\* the helper it inspected, and the result or the profile it has to remember.
AtRest ==
    [pc |-> "idle", op |-> None, prof |-> None, seen |-> 0, view |-> None, read |-> None,
     was |-> None]

\* helper_call_error, runtime_call_error: the code a failed call is reported
\* with; a Helper2 that is missing counts as a failed call.
Code(fault) == IF fault = "denied" THEN "denied" ELSE "helper"

\* What the helper answers to Inspect, and what it announces.
Plan(h) == IF h.prof = None THEN None ELSE [gen |-> h.gen, prof |-> h.prof]
Status(h) == [gen |-> h.gen, prof |-> h.prof]
Resync == [gen |-> None, prof |-> None]

Phases == {"inactive", "armed", "degraded"}
Healths == {"inactive", "applying", "healthy", "degraded", "failed", "denied"}
Errors ==
    {"none", "validation", "config", "denied", "helper", "health", "rollback",
     "reconcile", "orphan", "legacy", "missing", "unavailable"}
Ops == {"status", "apply", "toggle", "launch", "deactivate", "recover", "follow"}
PCs == {"idle", "mutex", "gate", "reconcile", "store", "ready", "activate", "verify",
        "restore", "cleanup", "recover", "rejoin", "again", "follow", "show", "health"}

\* Types of what is kept and sent.
Plans == [gen: Nat, prof: Profiles]
Statuses == [gen: Nat \cup {None}, prof: Profiles \cup {None}]
Receipts == [gen: Nat, prof: Profiles \cup {None}]
HelperStates ==
    [gen: Nat, prof: Profiles \cup {None}, phase: Phases, undo: Receipts \cup {None},
     left: {"none", "orphan", "legacy"}]
States ==
    [desired: Profiles \cup {None}, applied: Plans \cup {None}, profile: Profiles \cup {None},
     gen: Nat, health: Healths, err: Errors, phase: Phases]
Gates == [attempts: Nat, completed: BOOLEAN, last: Errors, holder: Tasks \cup {None}]
TaskStates ==
    [pc: PCs, op: Ops \cup {None}, prof: Profiles \cup {None}, seen: Nat,
     view: Statuses \cup {None}, read: HelperStates \cup {None},
     was: Errors \cup Profiles \cup {None}]

ASSUME NoneAssumption ==
    None \notin Tasks \cup Plans \cup HelperStates \cup Receipts \cup Ops \cup Errors

\* Everything has its type.
DaemonTypeOK ==
    /\ helper \in HelperStates
    /\ publish \in Statuses \cup {None} /\ news \in Seq(Statuses)
    /\ state \in States /\ file \in Profiles \cup {None}
    /\ gate \in Gates /\ attempts \in Nat
    /\ mutation \in Tasks \cup {None}
    /\ task \in [Tasks -> TaskStates]
    /\ used \in [requests: Nat, faults: Nat, refreshes: Nat]

Init ==
    /\ \E left \in Leftovers : helper = NoHelperPlan(left)
    /\ publish = None /\ news = <<Resync>>
    /\ file = None /\ state = NewState(None)
    /\ gate = NewGate /\ attempts = 0 /\ mutation = None
    /\ task = [t \in Tasks |-> AtRest]
    /\ used = [requests |-> 0, faults |-> 0, refreshes |-> 0]

Fault(kind) ==
    /\ kind \in Faults /\ used.faults < MaxFaults
    /\ used' = [used EXCEPT !.faults = @ + 1]

Goes(t, pc) == task' = [task EXCEPT ![t].pc = pc]
\* The task answers and drops the mutation lock, if it holds it.
Ends(t) ==
    /\ task' = [task EXCEPT ![t] = AtRest]
    /\ mutation' = IF mutation = t THEN None ELSE mutation

\* Faulty variant: the health stays what it was.
FailedQuietly(s, e) == [s EXCEPT !.err = e]
\* record_failure, record_rolled_back_failure (the
\* events they send are DesktopSession's).
Failed(s, e) ==
    [s EXCEPT !.health = IF e = "denied" THEN "denied"
                         ELSE IF s.applied # None THEN "degraded" ELSE "failed",
              !.err = e]
\* record_verification_failure
VerificationFailed(s) == Failed(s, "health")
\* record_kernel_restore_failure
RestoreFailed(s) == [s EXCEPT !.health = "failed", !.err = "rollback"]

-----------------------------------------------------------------------------
(* The helper on its own *)

\* A refresh commits the plan of another exit, or changes the phase; it is
\* announced once the backend is free again.
HelperRefreshes ==
    /\ helper.prof # None /\ publish = None /\ used.refreshes < MaxRefreshes
    /\ used' = [used EXCEPT !.refreshes = @ + 1]
    /\ \/ helper' = [helper EXCEPT !.gen = @ + 1, !.phase = "armed"]
       \/ helper' = [helper EXCEPT !.phase = IF @ = "armed" THEN "degraded" ELSE "armed"]
    /\ publish' = Status(helper')
    /\ UNCHANGED <<news, state, file, gate, attempts, mutation, task>>

HelperPublishes ==
    /\ publish # None
    /\ news' = Append(news, publish) /\ publish' = None
    /\ UNCHANGED <<helper, state, file, gate, attempts, mutation, task, used>>

\* The helper restarts; the daemon sees its bus name change hands.
HelperRestarts ==
    /\ Fault("crash")
    /\ publish' = None /\ news' = Append(news, Resync)
    /\ UNCHANGED <<helper, state, file, gate, attempts, mutation, task>>

\* The daemon restarts: it loads the desired profile, and starts with a resync.
DaemonRestarts ==
    /\ Fault("crash")
    /\ state' = NewState(file)
    /\ gate' = NewGate /\ attempts' = 0 /\ mutation' = None
    /\ task' = [t \in Tasks |-> AtRest]
    /\ news' = <<Resync>>
    /\ UNCHANGED <<helper, publish, file>>

-----------------------------------------------------------------------------
(* Requests *)

\* apply, toggle and status pass the gate before the mutation lock; the others
\* take the lock first.
LockFirst == {"launch", "deactivate", "recover", "follow"}

\* handle
Request(t, op, p) ==
    /\ t \in Clients /\ task[t].pc = "idle" /\ used.requests < MaxRequests
    /\ used' = [used EXCEPT !.requests = @ + 1]
    /\ task' = [task EXCEPT ![t] =
                  [AtRest EXCEPT !.pc = IF op \in LockFirst THEN "mutex" ELSE "gate",
                                         !.op = op, !.prof = p, !.seen = attempts]]
    /\ UNCHANGED <<helper, publish, news, state, file, gate, attempts, mutation>>

\* The follower task takes the next announcement.
TakeNews ==
    /\ task[Follower].pc = "idle" /\ news # <<>>
    /\ task' = [task EXCEPT ![Follower] =
                  [AtRest EXCEPT !.pc = "mutex", !.op = "follow", !.view = Head(news)]]
    /\ news' = Tail(news)
    /\ UNCHANGED <<helper, publish, state, file, gate, attempts, mutation, used>>

\* The mutation lock.
Lock(t) ==
    /\ task[t].pc = "mutex" /\ mutation = None
    /\ LET op == task[t].op
       IN  \/ /\ op \in {"apply", "toggle"}
              /\ Goes(t, "ready") /\ mutation' = t
           \/ \* ensure_reconciled loads the attempts before it waits for the gate
              /\ op \in {"launch", "deactivate"}
              /\ task' = [task EXCEPT ![t].pc = "gate", ![t].seen = attempts]
              /\ mutation' = t
           \/ /\ op = "recover"
              /\ IF state.err = "orphan" THEN Goes(t, "recover") /\ mutation' = t
                 ELSE Ends(t)
           \/ \* follow_runtime: a stale generation is ignored
              /\ op = "follow"
              /\ IF task[t].view # Resync /\ task[t].view.gen < state.gen THEN Ends(t)
                 ELSE Goes(t, "follow") /\ mutation' = t
    /\ UNCHANGED <<helper, publish, news, state, file, gate, attempts, used>>

-----------------------------------------------------------------------------
(* ensure_reconciled *)

\* Where the operation goes on with the result of ensure_reconciled.
Continues(t, e) ==
    LET op == task[t].op
        cleans == e \in {"none", "legacy"} \/ (e = "reconcile" /\ state.applied # None)
    IN  CASE op \in {"apply", "toggle"} /\ e = "none" ->
                Goes(t, "mutex") /\ UNCHANGED mutation
          [] op = "launch" /\ e = "none" -> Goes(t, "ready") /\ UNCHANGED mutation
          [] op = "deactivate" /\ cleans -> Goes(t, "cleanup") /\ UNCHANGED mutation
          [] OTHER -> Ends(t)

\* The result of an attempt that ended while the task waited, or of the one
\* that succeeded.
PassGate(t) ==
    /\ task[t].pc \in {"gate", "again"} /\ gate.holder = None
    /\ gate.attempts > task[t].seen \/ gate.completed
    /\ UNCHANGED state
    /\ IF task[t].op = "status" /\ gate.attempts <= task[t].seen
       THEN Goes(t, "show") /\ UNCHANGED mutation
       ELSE Continues(t, IF gate.attempts > task[t].seen THEN gate.last ELSE "none")
    /\ UNCHANGED <<helper, publish, news, file, gate, attempts, used>>

\* reconcile_from_helper: Inspect, with the gate held.
Inspect(t) ==
    /\ task[t].pc \in {"gate", "again"} /\ gate.holder = None
    /\ gate.attempts <= task[t].seen /\ ~gate.completed
    /\ gate' = [gate EXCEPT !.holder = t]
    /\ \/ task' = [task EXCEPT ![t].pc = "reconcile", ![t].read = helper] /\ UNCHANGED used
       \/ /\ Fault("call")
          /\ task' = [task EXCEPT ![t].pc = "reconcile", ![t].was = "reconcile"]
       \/ /\ Fault("denied")
          /\ task' = [task EXCEPT ![t].pc = "reconcile", ![t].was = "denied"]
    /\ UNCHANGED <<helper, publish, news, state, file, attempts, mutation>>

\* record_reconciliation_drift_with_code
Drifted(s, e) ==
    [s EXCEPT !.health = IF e = "denied" THEN "denied" ELSE "failed", !.err = e]
\* What reconcile_from_helper makes of an inspection.
Reconciled(s, view) ==
    IF view.prof = None
    THEN [s EXCEPT !.applied = None, !.profile = None, !.gen = 0, !.health = "inactive",
                   !.phase = view.phase, !.err = "none"]
    ELSE [s EXCEPT !.applied = Plan(view), !.gen = view.gen, !.phase = view.phase,
                   !.profile = IF s.desired # None /\ IdOf[s.desired] = IdOf[view.prof]
                               THEN s.desired ELSE None,
                   !.health = "healthy", !.err = "none"]

Reconcile(t) ==
    LET view == task[t].read
        ends(s, e) ==
            /\ state' = s
            /\ gate' = [attempts |-> gate.attempts + 1, completed |-> e = "none", last |-> e,
                        holder |-> None]
            /\ task' = [task EXCEPT ![t].pc = "store", ![t].was = e, ![t].read = None]
    IN  /\ task[t].pc = "reconcile"
        /\ \/ view = None /\ ends(Drifted(state, task[t].was), task[t].was) /\ UNCHANGED used
           \/ /\ view # None /\ view.left = "legacy"
              /\ ends(Drifted(state, "legacy"), "legacy") /\ UNCHANGED used
           \/ /\ view # None /\ view.left = "orphan" /\ view.prof = None
              /\ ends(Drifted(state, "orphan"), "orphan") /\ UNCHANGED used
           \/ /\ view # None /\ (view.left = "none" \/ (view.left = "orphan" /\ view.prof # None))
              /\ \/ ends(Reconciled(state, view), "none") /\ UNCHANGED used
                 \/ /\ view.prof # None /\ Fault("drift")
                    /\ ends(Drifted(Reconciled(state, view), "reconcile"), "reconcile")
        /\ UNCHANGED <<helper, publish, news, file, attempts, mutation>>

\* The attempt is published after the gate was released.
StoreAttempts(t) ==
    /\ task[t].pc = "store"
    /\ attempts' = gate.attempts
    /\ UNCHANGED state
    /\ Continues(t, task[t].was)
    /\ UNCHANGED <<helper, publish, news, file, gate, used>>

-----------------------------------------------------------------------------
(* current_status *)

\* The state is copied; with a plan in it the helper is asked for its health.
ReadStatus(t) ==
    /\ task[t].pc = "show"
    /\ IF state.applied = None THEN Ends(t)
       ELSE Goes(t, "health") /\ UNCHANGED mutation
    /\ UNCHANGED <<helper, publish, news, state, file, gate, attempts, used>>

\* inspect_plan_health: the answer is the copy, with what this inspection says
\* of its plan; neither the answer nor a failed call changes the state.
AnswerStatus(t) ==
    /\ task[t].pc = "health"
    /\ Ends(t)
    /\ UNCHANGED used \/ Fault("call")
    /\ UNCHANGED <<helper, publish, news, state, file, gate, attempts>>

-----------------------------------------------------------------------------
(* apply_profile, set_rule_enabled *)

\* The profile to apply.
Wanted(t) == IF task[t].op = "apply" THEN task[t].prof
             ELSE IF state.desired = None \/ IdOf[state.desired] # IdOf[task[t].prof] THEN None
             ELSE Toggled[state.desired]

\* AtomicJsonConfigRepository::save fails, before or after the rename.
SaveFails(p) == Fault("save") /\ file' \in {file, p}

\* apply_profile_locked up to the activation: validate, save, resolve.
Prepare(t) ==
    LET p == Wanted(t)
        saved == [state EXCEPT !.desired = p, !.health = "applying"]
    IN  /\ task[t].pc = "ready" /\ task[t].op \in {"apply", "toggle"}
        /\ \/ p = None /\ Ends(t) /\ UNCHANGED <<state, file, used>>
           \/ /\ p # None /\ p \notin Valid
              /\ state' = Failed(state, "validation") /\ Ends(t)
              /\ UNCHANGED <<file, used>>
           \/ /\ p \in Valid /\ SaveFails(p)
              /\ state' = Failed(state, "config") /\ Ends(t)
           \/ \* a domain that cannot be resolved
              /\ p \in Valid /\ Fault("call")
              /\ file' = p
              /\ state' = Failed(saved, "helper") /\ Ends(t)
           \/ /\ p \in Valid
              /\ file' = p /\ state' = saved
              /\ task' = [task EXCEPT ![t].pc = "activate", ![t].prof = p, ![t].seen = state.gen]
              /\ UNCHANGED <<mutation, used>>
        /\ UNCHANGED <<helper, publish, news, gate, attempts>>

\* ActivateRuntime: the helper checks the expected generation.  A helper that
\* is restarted once it has committed never answers.
Activate(t) ==
    LET new == [gen |-> helper.gen + 1, prof |-> task[t].prof, phase |-> "armed",
                undo |-> [gen |-> helper.gen + 1, prof |-> helper.prof], left |-> "none"]
        accepted == helper.left = "none" /\ helper.gen = task[t].seen
        fails(code) == state' = Failed(state, code) /\ Ends(t)
    IN  /\ task[t].pc = "activate"
        /\ \/ /\ accepted
              /\ helper' = new /\ news' = Append(news, Status(new))
              /\ task' = [task EXCEPT ![t].pc = "verify", ![t].view = Plan(new),
                                      ![t].was = helper.prof]
              /\ UNCHANGED <<state, mutation, used>>
           \/ /\ accepted /\ Fault("crash")
              /\ helper' = new /\ news' = Append(news, Resync)
              /\ fails("helper")
           \/ /\ ~accepted
              /\ fails("helper")
              /\ UNCHANGED <<helper, news, used>>
           \/ /\ \E e \in {"denied", "call"} : Fault(e) /\ fails(Code(e))
              /\ UNCHANGED <<helper, news>>
        /\ UNCHANGED <<publish, file, gate, attempts>>

\* inspect_runtime: the plan that was reported, or a newer one of its grant.
Pairs(plan, h) ==
    Plan(h) = plan \/ (h.prof = plan.prof /\ h.gen > plan.gen)

\* The faulty variant takes the reply for the proof.
VerifyFailsQuietly(t) ==
    /\ task[t].pc = "verify" /\ Fault("call")
    /\ state' = Failed(state, "health") /\ Ends(t)
    /\ UNCHANGED <<helper, publish, news, file, gate, attempts>>
VerifyFails(t) ==
    /\ task[t].pc = "verify"
    /\ \E e \in {"call", "drift"} : Fault(e)
    /\ Goes(t, "restore")
    /\ UNCHANGED <<helper, publish, news, state, file, gate, attempts, mutation>>

Verify(t) ==
    /\ task[t].pc = "verify" /\ Pairs(task[t].view, helper)
    /\ state' = [state EXCEPT !.applied = Plan(helper), !.profile = task[t].prof,
                              !.gen = helper.gen, !.health = "healthy",
                              !.phase = helper.phase, !.err = "none"]
    /\ Ends(t)
    /\ UNCHANGED <<helper, publish, news, file, gate, attempts, used>>

\* restore_runtime_receipt: the helper goes back to what the receipt names,
\* unless a newer commit superseded it.
Restore(t) ==
    /\ task[t].pc = "restore"
    /\ \/ /\ helper.undo # None /\ helper.undo.gen = helper.gen
          /\ helper' = IF helper.undo.prof = None THEN NoHelperPlan(helper.left)
                       ELSE [helper EXCEPT !.gen = @ + 1, !.prof = helper.undo.prof,
                                           !.phase = "armed", !.undo = None]
          /\ news' = Append(news, Status(helper'))
          /\ state' = VerificationFailed(state) /\ Ends(t)
          /\ UNCHANGED used
       \/ /\ \/ (helper.undo = None \/ helper.undo.gen # helper.gen) /\ UNCHANGED used
             \/ Fault("call")
          /\ state' = RestoreFailed(state) /\ Ends(t)
          /\ UNCHANGED <<helper, news>>
    /\ UNCHANGED <<publish, file, gate, attempts>>

-----------------------------------------------------------------------------
(* launch_application, deactivate, recover_orphaned_resources *)

\* launch_application, adopt_application_processes: application_selector asks
\* for the profile that is applied, the helper then prepares the cgroup.
Launch(t) ==
    LET routed(p) == p # None /\ IdOf[p] = IdOf[task[t].prof]
        applied == IF state.applied = None THEN None ELSE state.applied.prof
    IN  /\ task[t].pc = "ready" /\ task[t].op = "launch"
        /\ \/ /\ ~(routed(applied) /\ routed(state.profile))
              /\ Ends(t) /\ UNCHANGED used
           \/ /\ routed(applied) /\ routed(state.profile)
              /\ \/ Ends(t) /\ UNCHANGED used
                 \/ Fault("denied") /\ Ends(t)
        /\ UNCHANGED <<helper, publish, news, state, file, gate, attempts>>

\* Cleanup of the helper; the daemon's own interface does not announce it.
Cleanup(t) ==
    LET off == NoHelperPlan(IF helper.left = "orphan" THEN "orphan" ELSE "none")
        fails(code) == state' = Failed(state, code) /\ Ends(t)
    IN  /\ task[t].pc = "cleanup"
        /\ \/ /\ helper' = off /\ Goes(t, "rejoin")
              /\ UNCHANGED <<news, state, mutation, used>>
           \/ /\ Fault("crash")
              /\ helper' = off /\ news' = Append(news, Resync)
              /\ fails("helper")
           \/ /\ \E e \in {"denied", "call"} : Fault(e) /\ fails(Code(e))
              /\ UNCHANGED <<helper, news>>
        /\ UNCHANGED <<publish, file, gate, attempts>>

\* RecoverOrphanedResources of the helper.
RecoverOrphans(t) ==
    /\ task[t].pc = "recover"
    /\ \/ /\ helper.prof = None /\ helper.left # "legacy"
          /\ helper' = [helper EXCEPT !.left = "none"]
          /\ Goes(t, "rejoin") /\ UNCHANGED <<mutation, used>>
       \/ /\ helper.prof # None \/ helper.left = "legacy"
          /\ Ends(t) /\ UNCHANGED <<helper, used>>
       \/ \E e \in {"denied", "call"} :
          /\ Fault(e) /\ Ends(t)
          /\ UNCHANGED helper
    /\ UNCHANGED <<publish, news, state, file, gate, attempts>>

\* Faulty variant: recovery keeps the gate locked while it reconciles again.
RejoinLocked(t) ==
    /\ task[t].pc = "rejoin" /\ gate.holder = None
    /\ gate' = [NewGate EXCEPT !.holder = t] /\ attempts' = 0
    /\ task' = [task EXCEPT ![t].pc = "again", ![t].seen = 0]
    /\ UNCHANGED <<helper, publish, news, state, file, mutation, used>>
\* deactivate settles the gate and then the state; recovery resets both and
\* reconciles again.  Both wait for the gate first.
Rejoin(t) ==
    /\ task[t].pc = "rejoin" /\ gate.holder = None
    /\ LET off == [state EXCEPT !.applied = None, !.profile = None, !.gen = 0, !.err = "none"]
       IN  \/ /\ task[t].op = "deactivate"
              /\ gate' = [gate EXCEPT !.completed = TRUE, !.last = "none"]
              /\ state' = [off EXCEPT !.health = "inactive", !.phase = "inactive"]
              /\ Ends(t)
              /\ UNCHANGED attempts
           \/ /\ task[t].op = "recover"
              /\ gate' = NewGate /\ attempts' = 0
              /\ state' = off
              /\ task' = [task EXCEPT ![t].pc = "again", ![t].seen = 0]
              /\ UNCHANGED mutation
    /\ UNCHANGED <<helper, publish, news, file, used>>

-----------------------------------------------------------------------------
(* follow_runtime *)

\* Faulty variant: the mutation lock is given up while the helper is asked.
FollowInspectUnlocked(t) ==
    /\ task[t].pc = "follow" /\ task[t].read = None
    /\ task' = [task EXCEPT ![t].read = helper] /\ mutation' = None
    /\ UNCHANGED <<helper, publish, news, state, file, gate, attempts, used>>
\* Inspect, after which the state is changed at once: it stays locked over
\* the topology snapshot.
FollowInspect(t) ==
    /\ task[t].pc = "follow" /\ task[t].read = None
    /\ \/ task' = [task EXCEPT ![t].read = helper] /\ UNCHANGED <<state, mutation, used>>
       \/ Fault("call") /\ state' = Failed(state, "health") /\ Ends(t)
    /\ UNCHANGED <<helper, publish, news, file, gate, attempts>>

Follow(t) ==
    LET h == task[t].read
        announced == task[t].view
        paired == h.prof # None /\ (announced = Resync \/ announced.prof = h.prof)
        told == [state EXCEPT !.phase = h.phase]
    IN  /\ task[t].pc = "follow" /\ h # None
        /\ \/ h.gen < state.gen /\ UNCHANGED state
           \/ /\ h.gen >= state.gen /\ paired
              /\ state' = [told EXCEPT !.applied = Plan(h), !.gen = h.gen,
                              !.health = IF h.phase = "armed" THEN "healthy" ELSE "degraded"]
           \/ /\ h.gen >= state.gen /\ h.prof = None
              /\ state' = [told EXCEPT !.applied = None, !.profile = None, !.health = "inactive"]
           \/ /\ h.gen >= state.gen /\ ~paired /\ h.prof # None
              /\ state' = [told EXCEPT !.health = "degraded"]
        /\ Ends(t)
        /\ UNCHANGED <<helper, publish, news, file, gate, attempts, used>>

-----------------------------------------------------------------------------
Step(t) ==
    \/ Lock(t) \/ PassGate(t) \/ Inspect(t) \/ Reconcile(t) \/ StoreAttempts(t)
    \/ ReadStatus(t) \/ AnswerStatus(t)
    \/ Prepare(t) \/ Activate(t) \/ VerifyFails(t) \/ Verify(t) \/ Restore(t)
    \/ Launch(t) \/ Cleanup(t) \/ RecoverOrphans(t) \/ Rejoin(t)
    \/ FollowInspect(t) \/ Follow(t)

Next ==
    \/ HelperRefreshes \/ HelperPublishes \/ HelperRestarts \/ DaemonRestarts
    \/ TakeNews
    \/ \E t \in Clients :
        \/ \E op \in {"status", "deactivate", "recover"} : Request(t, op, None)
        \/ \E op \in {"apply", "toggle", "launch"}, p \in Profiles : Request(t, op, p)
    \/ \E t \in Tasks : Step(t)

Spec == Init /\ [][Next]_vars

\* A helper call returns (D-Bus and the helper bound it), a lock that stays
\* free is taken by a task that waits for it, announcements are delivered.
Fairness ==
    /\ \A t \in Tasks : WF_vars(Step(t))
    /\ WF_vars(TakeNews) /\ WF_vars(HelperPublishes)
FairSpec == Spec /\ Fairness

-----------------------------------------------------------------------------
(* Properties *)

Quiet == mutation = None /\ gate.holder = None
\* What is on its way to the daemon.
Nothing == news = <<>> /\ publish = None /\ \A t \in Tasks : task[t].pc = "idle"

\* A deactivation is final: when nobody holds the mutation lock or the gate,
\* the daemon does not show a plan the helper no longer has as healthy,
\* whatever announcement of the earlier activation arrives late (follow_runtime
\* asks the helper again under the lock, and does not trust the announcement).
NoRevival ==
    Quiet => ~(state.applied # None /\ state.health = "healthy" /\ helper.prof = None)

\* A failed application leaves the policy that was in force: unless the
\* rollback itself is reported as failed, the helper has the profile it had
\* before the activation.  One failure is excepted, and no other: the helper dies
\* once it has committed, and its reply with it; apply_profile_locked then
\* restores nothing and the new policy stays, but a resync tells the daemon of it.
FailedApplyKeepsPrevious ==
    [][\A t \in Clients :
        (/\ task[t].pc \in {"activate", "verify", "restore"} /\ task'[t].pc = "idle"
         /\ state'.err \notin {"none", "rollback"})
        => \/ helper'.prof = IF task[t].pc = "activate" THEN helper.prof ELSE task[t].was
           \/ task[t].pc = "activate" /\ news' = Append(news, Resync)]_vars

\* Every request is answered: nobody waits for a lock forever.
RequestsAnswered == \A t \in Clients : task[t].pc # "idle" ~> task[t].pc = "idle"

\* What the daemon shows as healthy or inactive is so: with no announcement
\* on its way and no request under way, the helper has the profile the daemon
\* names, or none; anything else is reported as degraded or failed.
HealthyIsTrue ==
    Nothing /\ gate.completed /\ state.health \in {"healthy", "inactive"}
        => helper.prof = IF state.applied = None THEN None ELSE state.applied.prof

\* "Subscribe before the first snapshot so no helper transition is missed"
\* (bin/routelane_daemon.rs): once everything was delivered, the daemon has
\* the helper's generation.  Violated: the first snapshot (reconcile_from_helper)
\* is not taken under the mutation lock, and overwrites what follow_runtime
\* learnt from an announcement in between.
SettledAgrees ==
    Nothing /\ gate.completed /\ state.health = "healthy" => state.applied = Plan(helper)

=============================================================================
