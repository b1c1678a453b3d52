--------------------------- MODULE RuntimeFailover ---------------------------
(***************************************************************************)
(* The armed runtime of the helper: kernel notifications and one timer make *)
(* the monitor (backend/runtime_monitor.rs, bin/routelane_helper.rs) refresh *)
(* the authorised policy against a fresh topology, and the refresh           *)
(* (backend/privileged.rs) moves the committed plan to the selector's        *)
(* decision.  The transition itself is one step here; HelperTransaction      *)
(* opens it.                                                                 *)
(*                                                                         *)
(* Three actors interleave: the kernel, a client that activates policies,    *)
(* and the monitor task, whose backend calls take one lock each.             *)
(***************************************************************************)
EXTENDS PrimarySelector

CONSTANTS
    FirstWait,      \* FIRST_RETRY_WAIT
    MaxWait,        \* MAX_RETRY_WAIT
    Faults,         \* the failures that may happen
    MaxFaults,      \* bound on failures
    MaxChanges,     \* bound on topology changes
    MaxActivations  \* bound on activation requests

AllFaults ==
    {"commit",      \* a transition fails and is rolled back
     "rollback",    \* a failed transition may leave its journal, a replay may fail
     "capture",     \* the topology cannot be read
     "close",       \* the notification source ends
     "late",        \* a started source may subscribe after the topology was read
     "device",      \* an interface changes or loses its device
     "drop",        \* a lost link takes the routes over it out of the kernel
     "restart"}     \* the helper process is restarted

ASSUME WaitAssumption == FirstWait \in Nat \ {0} /\ MaxWait \in Nat /\ FirstWait <= MaxWait
ASSUME FaultsAssumption == Faults \subseteq AllFaults
ASSUME BoundAssumption == {MaxFaults, MaxChanges, MaxActivations} \subseteq Nat

VARIABLES
    top,        \* the kernel's topology
    dropped,    \* unicast defaults of the committed plan the kernel removed
    feed,       \* the task that forwards kernel notifications
    events,     \* the channel between it and the driver, of capacity one
    driver,     \* where drive_runtime stands
    snap,       \* the topology the refresh under way has read
    wake,       \* the driver's one-shot timer
    ask,        \* an activation with the topology read for it
    runtime,    \* ArmedRuntime
    plan,       \* the committed plan
    broken,     \* the journal is of an unfinished transition
    kept,       \* the journal holds the record of the armed runtime
    recovery,   \* recovery_held_back
    steady,     \* per family: the preferred lane refreshes see ready, and for how long
    used        \* changes, faults and activations so far

kernel == <<top, dropped>>
monitor == <<feed, events, driver, snap, wake>>
helper == <<ask, runtime, plan, broken, kept, recovery>>
history == steady
vars == <<kernel, monitor, helper, history, used>>

-----------------------------------------------------------------------------
(* State *)

\* KernelPlan, by what its content hash covers here: the decision, and the
\* device and the usable families of each lane.
PlanFor(dec, seen) ==
    [dec |-> dec,
     ident |-> Bind(seen),
     via |-> [l \in Lanes |->
        IF Bind(seen)[l] = None THEN {} ELSE seen.up[LaneInterface[l]]]]
KernelPlans ==
    [dec: Decisions, ident: Bindings, via: [Lanes -> SUBSET Families]]
Uses(p) == {e \in Lanes \X Families : e[2] \in p.via[e[1]]}

\* HeldBackCandidate, and recovery_held_back; left is retry_at minus now.
NoHold == [cand |-> None, left |-> 0, wait |-> 0]
Holds == [cand: KernelPlans \cup {None}, left: 0..MaxWait, wait: 0..MaxWait]
NoRecovery == [left |-> 0, wait |-> 0]

Armed(policy, bind, dec, sel) ==
    [policy |-> policy, bind |-> bind, dec |-> dec, sel |-> sel,
     phase |-> "Armed", due |-> None, held |-> NoHold]
\* load_runtime: what comes back of an armed runtime whose record is journaled.
\* The faulty variant takes the selector's decision for the recorded one.
LoadedFromSelector(r, journaled) ==
    IF r = None \/ ~journaled THEN None
    ELSE Armed(r.policy, r.bind, IF r.sel = None THEN r.dec ELSE Decision(r.sel), None)
Loaded(r, journaled) ==
    IF r = None \/ ~journaled THEN None ELSE Armed(r.policy, r.bind, r.dec, None)
\* RuntimeStatus::failback_in_ms
Due(r) == IF r = None THEN None ELSE r.due

Waits == 0..(Delay + MaxWait) \cup {None}
Runtimes ==
    [policy: Policies, bind: Bindings, dec: Decisions, sel: Selectors \cup {None},
     phase: {"Armed", "Degraded"}, due: Waits, held: Holds]
Requests == [policy: Policies, seen: Topologies]

NotSeen == [lane |-> None, age |-> 0]

\* Everything has its type.
RuntimeTypeOK ==
    /\ top \in Topologies
    /\ dropped \subseteq Lanes \X Families
    /\ feed \in {"starting", "live", "closing", "ended"}
    /\ events \in {"none", "changed", "closed"}
    /\ driver \in {"idle", "coalesce", "backoff", "status", "capture", "refresh"}
    /\ snap \in Topologies \cup {None}
    /\ wake \in Waits
    /\ ask \in Requests \cup {None}
    /\ runtime \in Runtimes \cup {None}
    /\ plan \in KernelPlans \cup {None}
    /\ broken \in BOOLEAN /\ kept \in BOOLEAN
    /\ recovery \in [left: 0..MaxWait, wait: 0..MaxWait]
    /\ steady \in [Families -> [lane: Lanes \cup {None}, age: 0..Delay]]
    /\ used \in [changes: 0..MaxChanges, faults: 0..MaxFaults, activations: 0..MaxActivations]

Init ==
    /\ top \in {t \in Topologies : \A i \in Interfaces : t.ident[i] # None /\ t.up[i] = Families}
    /\ dropped = {}
    /\ feed = "starting" /\ events = "none" /\ driver = "status" /\ snap = None /\ wake = None
    /\ ask = None /\ runtime = None /\ plan = None
    /\ broken = FALSE /\ kept = FALSE /\ recovery = NoRecovery
    /\ steady = [f \in Families |-> NotSeen]
    /\ used = [changes |-> 0, faults |-> 0, activations |-> 0]

\* A fault of the given kind happens.
Fault(kind) ==
    /\ kind \in Faults /\ used.faults < MaxFaults
    /\ used' = [used EXCEPT !.faults = @ + 1]

\* try_send of forward_kernel_notifications: a full channel drops the event.
\* Faulty variant: an event is kept only while the driver waits for one.
NotifiedWhenIdle ==
    IF feed = "live" /\ events = "none" /\ driver = "idle" THEN "changed" ELSE events
Notified == IF feed = "live" /\ events = "none" THEN "changed" ELSE events

-----------------------------------------------------------------------------
(* The kernel *)

\* A link, address or default-route change.
Change ==
    /\ used.changes < MaxChanges
    /\ used' = [used EXCEPT !.changes = @ + 1]
    /\ \E i \in Interfaces, f \in Families :
        \/ \E u \in SUBSET Families : u # top.up[i] /\ top' = [top EXCEPT !.up[i] = u]
        \/ \E d \in Defaults :
            d # top.default[f] /\ top' = [top EXCEPT !.default[f] = d]
        \/ \E d \in Idents \cup {None} :
            /\ "device" \in Faults /\ d # top.ident[i]
            /\ top' = [top EXCEPT !.ident[i] = d]
    /\ dropped' = IF plan = None \/ "drop" \notin Faults THEN dropped
                  ELSE dropped \cup {e \in Uses(plan) :
                        LET i == LaneInterface[e[1]]
                        IN  e[2] \notin top'.up[i] \/ top'.ident[i] # plan.ident[e[1]]}
    /\ events' = Notified
    /\ UNCHANGED <<feed, driver, snap, wake, helper, history>>

Later(w) == IF w \in Nat \ {0} THEN w - 1 ELSE w

\* One tick of the monotonic clock.
Tick ==
    /\ runtime' = IF runtime = None THEN None
                  ELSE [runtime EXCEPT !.sel = IF @ = None THEN None ELSE Older(@),
                                       !.held.left = Later(@)]
    /\ recovery' = [recovery EXCEPT !.left = Later(@)]
    /\ wake' = Later(wake)
    /\ steady' = [f \in Families |->
                    IF steady[f] # NotSeen /\ steady[f].age < Delay
                    THEN [steady[f] EXCEPT !.age = @ + 1] ELSE steady[f]]
    /\ UNCHANGED <<kernel, feed, events, driver, snap, ask, plan, broken, kept, used>>

-----------------------------------------------------------------------------
(* The forwarder *)

Subscribe ==
    /\ feed = "starting"
    /\ feed' = "live"
    /\ UNCHANGED <<kernel, events, driver, snap, wake, helper, history, used>>

SourceEnds ==
    /\ feed \in {"starting", "live"}
    /\ Fault("close")
    /\ feed' = "closing"
    /\ UNCHANGED <<kernel, events, driver, snap, wake, helper, history>>

\* The closing message waits for room in the channel.
ReportClosed ==
    /\ feed = "closing" /\ events = "none"
    /\ feed' = "ended" /\ events' = "closed"
    /\ UNCHANGED <<kernel, driver, snap, wake, helper, history, used>>

-----------------------------------------------------------------------------
(* Recovery of an unfinished journal, called first by every operation *)

\* prepare_runtime_operation: replaying the journal reloads the runtime.
Recovered == IF broken THEN Loaded(runtime, kept) ELSE runtime
RecoveryDone == recovery' = IF broken THEN NoRecovery ELSE recovery
PrepareFails == broken /\ Fault("rollback") /\ UNCHANGED broken
\* The writes of a replay are notified, if it got that far.
Replayed == events' \in IF broken THEN {events, Notified} ELSE {events}

NextWait(wait) ==
    IF wait = 0 THEN FirstWait ELSE IF 2 * wait < MaxWait THEN 2 * wait ELSE MaxWait
HoldBackRecovery ==
    recovery' = LET w == NextWait(recovery.wait) IN [left |-> w, wait |-> w]

\* transition_with commits p: every commit writes routes, which are notified.
Commits(p) ==
    /\ plan' = p /\ dropped' = {}
    /\ events' = Notified
    /\ broken' = FALSE /\ kept' = TRUE

\* transition_with fails: before its journal was written, or after; then it is
\* undone, or leaves the journal unfinished.  The journal names the previous
\* runtime as far as the caller left it in place.  The kernel commands it ran,
\* if any, are notified.
TransitionFails(previous) ==
    /\ Fault("commit")
    /\ events' \in {events, Notified}
    /\ broken' \in {FALSE, "rollback" \in Faults}
    /\ kept' \in {previous} \cup (IF broken' THEN {} ELSE {kept})
    /\ UNCHANGED <<plan, dropped>>

-----------------------------------------------------------------------------
(* The client *)

\* The topology for an activation is read before the lock is taken.
RequestActivation(policy) ==
    /\ ask = None /\ used.activations < MaxActivations
    /\ ask' = [policy |-> policy, seen |-> top]
    /\ used' = [used EXCEPT !.activations = @ + 1]
    /\ UNCHANGED <<kernel, monitor, runtime, plan, broken, kept, recovery, history>>

ActivateWith(policy, seen) ==
    LET bind == Bind(seen)
        granted == RestrictedTo(seen, bind)
        sel == Update(NewSelector(granted), policy, granted)
        candidate == PlanFor(Decision(sel), granted)
        refused == dropped \cap Uses(candidate) # {}
    IN  \/ /\ PrepareFails /\ Replayed
           /\ UNCHANGED <<runtime, plan, dropped, kept, recovery, history>>
        \/ /\ refused
           /\ runtime' = Recovered /\ RecoveryDone /\ broken' = FALSE /\ Replayed
           /\ UNCHANGED <<plan, dropped, kept, history, used>>
        \/ /\ ~refused
           /\ runtime' = Recovered /\ RecoveryDone
           /\ TransitionFails(Recovered # None)
           /\ UNCHANGED history
        \/ /\ ~refused
           /\ RecoveryDone
           /\ Commits(candidate)
           /\ runtime' = Armed(policy, bind, Decision(sel), sel)
           /\ steady' = [f \in Families |-> NotSeen]
           /\ UNCHANGED used

Activate ==
    /\ ask # None
    /\ ask' = None
    /\ ActivateWith(ask.policy, ask.seen)
    /\ UNCHANGED <<top, feed, driver, snap, wake>>

-----------------------------------------------------------------------------
(* The monitor: drive_runtime *)

TakeChanged ==
    /\ driver = "idle" /\ events = "changed"
    /\ driver' = "coalesce" /\ events' = "none"
    /\ UNCHANGED <<kernel, feed, snap, wake, helper, history, used>>

\* try_recv takes whatever the channel holds; only "changed" is looked at.
Coalesced ==
    /\ driver = "coalesce"
    /\ driver' = "status" /\ events' = "none"
    /\ UNCHANGED <<kernel, feed, snap, wake, helper, history, used>>

TimerFires ==
    /\ driver = "idle" /\ events = "none" /\ wake = 0
    /\ driver' = "status"
    /\ UNCHANGED <<kernel, feed, events, snap, wake, helper, history, used>>

\* degrade_runtime
Degrade(r) == IF r = None THEN None ELSE [r EXCEPT !.phase = "Degraded"]

TakeClosed ==
    /\ driver = "idle" /\ events = "closed"
    /\ driver' = "backoff" /\ events' = "none"
    /\ \/ PrepareFails /\ UNCHANGED <<runtime, recovery>>
       \/ /\ runtime' = Degrade(Recovered) /\ RecoveryDone /\ broken' = FALSE
          /\ UNCHANGED used
    /\ UNCHANGED <<kernel, feed, snap, wake, ask, plan, kept, history>>

RestartFeed ==
    /\ driver = "backoff"
    /\ driver' = "status" /\ feed' = "starting"
    /\ UNCHANGED <<kernel, events, snap, wake, helper, history, used>>

-----------------------------------------------------------------------------
(* The monitor: HelperRefresher::refresh *)

Idles(w) == driver' = "idle" /\ wake' = w /\ snap' = None

\* runtime_status, whose error the refresher drops.  A source that subscribes
\* in time has done so before the refresh that follows its start.
Status ==
    /\ driver = "status"
    /\ feed # "starting" \/ "late" \in Faults
    /\ Replayed
    /\ \/ PrepareFails /\ Idles(None) /\ UNCHANGED <<runtime, recovery>>
       \/ /\ runtime' = Recovered /\ RecoveryDone /\ broken' = FALSE
          /\ IF Recovered = None THEN Idles(None)
             ELSE driver' = "capture" /\ UNCHANGED <<wake, snap>>
          /\ UNCHANGED used
    /\ UNCHANGED <<kernel, feed, ask, plan, kept, history>>

\* capture_topology, or degrade_runtime when it fails
Capture ==
    /\ driver = "capture"
    /\ \/ /\ driver' = "refresh" /\ snap' = top
          /\ UNCHANGED <<events, wake, runtime, broken, recovery, used>>
       \/ /\ Fault("capture") /\ Replayed
          /\ \/ /\ broken /\ "rollback" \in Faults
                /\ Idles(None)
                /\ UNCHANGED <<runtime, broken, recovery>>
             \/ /\ runtime' = Degrade(Recovered) /\ RecoveryDone /\ broken' = FALSE
                /\ Idles(Due(runtime'))
    /\ UNCHANGED <<kernel, feed, ask, plan, kept, history>>

\* What this refresh sees of each family's preferred lane.
Observe(r) ==
    steady' = [f \in Families |->
        LET lane == Preferred(r.policy, r.bind, snap, f)
        IN  IF lane = None \/ ~Ready(r.bind, snap, lane, f) THEN NotSeen
            ELSE IF steady[f].lane = lane THEN steady[f] ELSE [lane |-> lane, age |-> 0]]

RefreshWith(r) ==
    LET seen == RestrictedTo(snap, r.bind)
        sel == Update(IF r.sel = None THEN ResumedSelector(seen, r.dec) ELSE r.sel,
                      r.policy, seen)
        due == NextDeadline(sel)
        candidate == PlanFor(Decision(sel), seen)
        refused == dropped \cap Uses(candidate) # {}
        same == candidate = plan /\ Decision(sel) = r.dec
        held == IF r.held.cand = candidate THEN r.held ELSE NoHold
        wait == NextWait(held.wait)
        failed(w) == [r EXCEPT !.sel = None, !.phase = "Degraded", !.due = w]
    IN  \/ \* revalidate_current_ownership_for
           /\ refused
           /\ runtime' = failed(due)
           /\ RecoveryDone /\ broken' = FALSE /\ Replayed
           /\ UNCHANGED <<plan, dropped, kept, used>>
        \/ /\ ~refused /\ same
           /\ runtime' = [r EXCEPT !.sel = sel, !.phase = "Armed", !.due = due, !.held = NoHold]
           /\ RecoveryDone /\ broken' = FALSE /\ Replayed
           /\ UNCHANGED <<plan, dropped, kept, used>>
        \/ \* the candidate that failed last, before its time
           /\ ~refused /\ ~same /\ held.left > 0
           /\ runtime' = [r EXCEPT !.sel = sel, !.due = Sooner(due, held.left)]
           /\ RecoveryDone /\ broken' = FALSE /\ Replayed
           /\ UNCHANGED <<plan, dropped, kept, used>>
        \/ /\ ~refused /\ ~same /\ held.left = 0
           /\ Commits(candidate)
           /\ RecoveryDone
           /\ runtime' = [r EXCEPT !.dec = Decision(sel), !.sel = sel, !.phase = "Armed",
                                   !.due = due, !.held = NoHold]
           /\ UNCHANGED used
        \/ /\ ~refused /\ ~same /\ held.left = 0
           /\ TransitionFails(FALSE)
           /\ IF broken' THEN HoldBackRecovery ELSE RecoveryDone
           /\ runtime' =
                [failed(IF broken' THEN Sooner(Sooner(due, wait), recovery'.left)
                        ELSE Sooner(due, wait))
                    EXCEPT !.held = [cand |-> candidate, left |-> wait, wait |-> wait]]

\* refresh_runtime_inner.  While automatic recovery is held back nothing is
\* done; after Status has replayed the journal that never is the case.
Refresh ==
    /\ driver = "refresh"
    /\ IF broken /\ recovery.left > 0
       THEN /\ runtime' = [runtime EXCEPT !.due = recovery.left]
            /\ UNCHANGED <<plan, dropped, events, broken, kept, recovery, history, used>>
       ELSE \/ /\ PrepareFails /\ Replayed
               /\ HoldBackRecovery
               /\ runtime' = [runtime EXCEPT !.sel = None, !.phase = "Degraded",
                                             !.due = recovery'.left]
               /\ UNCHANGED <<plan, dropped, kept, history>>
            \/ RefreshWith(Recovered) /\ Observe(Recovered)
    /\ Idles(Due(runtime'))
    /\ UNCHANGED <<top, feed, ask>>

\* The process dies and is started again; an activation under way is lost.  The
\* first operation loads the runtime; nothing looks at it before.
Restart ==
    /\ Fault("restart")
    /\ runtime' = Loaded(runtime, kept)
    /\ ask' = None /\ recovery' = NoRecovery
    /\ feed' = "starting" /\ events' = "none" /\ driver' = "status"
    /\ snap' = None /\ wake' = None
    /\ UNCHANGED <<kernel, plan, broken, kept, history>>

Next ==
    \/ Change \/ Tick
    \/ Subscribe \/ SourceEnds \/ ReportClosed
    \/ \E policy \in Policies : RequestActivation(policy)
    \/ Activate
    \/ TakeChanged \/ Coalesced \/ TimerFires \/ TakeClosed \/ RestartFeed
    \/ Status \/ Capture \/ Refresh
    \/ Restart

Spec == Init /\ [][Next]_vars

\* The clock runs, spawned processes get to start, and the driver task is
\* polled whenever its channel or its timer is ready.
Fairness ==
    /\ WF_vars(Tick) /\ WF_vars(Subscribe) /\ WF_vars(ReportClosed) /\ WF_vars(Activate)
    /\ WF_vars(TakeChanged) /\ WF_vars(Coalesced) /\ WF_vars(TimerFires)
    /\ WF_vars(TakeClosed) /\ WF_vars(RestartFeed)
    /\ WF_vars(Status) /\ WF_vars(Capture) /\ WF_vars(Refresh)
FairSpec == Spec /\ Fairness

-----------------------------------------------------------------------------
(* Properties *)

\* Every exit of plan p is approved by r, over the device r was granted for,
\* and has a route for its family.
ExitsWithin(p, r) ==
    \A f \in Families :
        LET l == p.dec[f].effective
        IN  l # None => /\ Approved(r.policy, l)
                        /\ r.bind[l] # None
                        /\ p.ident[l] = r.bind[l]
                        /\ f \in p.via[l]

\* The plan in force sends a family only through a lane the policy approves,
\* over the very device that was there when the user authorised it, and with a
\* route for that family; whatever the topology did since (refresh_armed and
\* PrimarySelector::update; the planner's InvalidPrimaryExit never fires).
ExitApproved == runtime # None => ExitsWithin(plan, runtime)

\* The decision the topology asks for once everything has settled.
Fits(f) ==
    LET d == plan.dec[f]
        policy == runtime.policy
        bind == runtime.bind
        p == Preferred(policy, bind, top, f)
    IN  /\ d.preferred = p
        /\ IF Unclear(policy, bind, top, f) THEN d.effective = None
           ELSE IF p # None /\ Ready(bind, top, p, f) THEN d.effective = p
           ELSE IF d.effective = None THEN FirstBackup(policy, bind, top, f, p) = {}
           ELSE policy.failover /\ Ready(bind, top, d.effective, f)

\* Nothing is on its way to the driver: no event, no timer, no refresh.
Quiet == driver = "idle" /\ events = "none" /\ wake = None /\ feed = "live"

\* When the driver sleeps without a timer, the plan in force is the one the
\* topology asks for: no notification was lost in the one-place channel, in
\* the coalescing window or to an activation racing a refresh.
SettledDecision == Quiet /\ runtime # None => \A f \in Families : Fits(f)

\* A usable exit is given up for the preferred lane only after every refresh
\* of the last five seconds has seen that lane ready.
FailbackWaited ==
    [][driver = "refresh" /\ plan # None /\ plan' # plan /\ UNCHANGED ask
         /\ runtime.held = NoHold =>
        \A f \in Families :
            LET old == plan.dec[f].effective
                new == plan'.dec[f].effective
            IN  (/\ None \notin {old, new} /\ old # new /\ new = plan'.dec[f].preferred
                 /\ runtime.policy.failover /\ Ready(runtime.bind, snap, old, f))
                => steady[f] = [lane |-> new, age |-> Delay]]_vars

\* The decision the helper publishes is the one of the plan in force, never one
\* that failed to commit.
PublishedIsCommitted == runtime # None => runtime.dec = plan.dec

\* Once the topology stays as it is, the preferred lane carries every family
\* it is ready for, for good.
FailsBack ==
    <>[](runtime # None => \A f \in Families :
            LET p == Preferred(runtime.policy, runtime.bind, top, f)
            IN  p # None /\ Ready(runtime.bind, top, p, f) => plan.dec[f].effective = p)
-----------------------------------------------------------------------------
(* What keeps the exit approved: the invariant RuntimeFailover_proofs uses *)

\* Lanes on one interface were bound to one device.
Uniform(bind) ==
    \A l, m \in Lanes : LaneInterface[l] = LaneInterface[m] => bind[l] = bind[m]

\* A selector knows a lane by the granted device or not at all, and stands on
\* approved lanes only.
SelectorWithin(sel, policy, bind) ==
    /\ sel \in Selectors
    /\ \A l \in Lanes : sel.bind[l] \in {None, bind[l]}
    /\ \A f \in Families :
        sel.st[f].effective # None => Approved(policy, sel.st[f].effective)

RuntimeFields == {"policy", "bind", "dec", "sel", "phase", "due", "held"}

\* A runtime that stands for plan p.
RuntimeSound(p, r) ==
    /\ DOMAIN r = RuntimeFields
    /\ r.policy \in Policies
    /\ r.bind \in Bindings /\ Uniform(r.bind)
    /\ r.dec \in Decisions
    /\ r.sel # None => SelectorWithin(r.sel, r.policy, r.bind)
    /\ r.dec = p.dec /\ ExitsWithin(p, r)

\* A refresh under way has a runtime, and a journal it would get it back from.
Refreshing == driver \in {"capture", "refresh"}

RuntimeInv ==
    /\ top \in Topologies
    /\ ask # None => ask \in Requests
    /\ driver = "refresh" => snap \in Topologies
    /\ runtime # None \/ Refreshing => RuntimeSound(plan, runtime)
    /\ Refreshing /\ broken => kept \/ runtime = None
=============================================================================
