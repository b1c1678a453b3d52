----------------------------- MODULE HelperService -----------------------------
(***************************************************************************)
(* The helper's two D-Bus interfaces, its monitor and the application        *)
(* cgroups (bin/routelane_helper.rs, PrivilegedService and the authorizer in *)
(* backend/privileged.rs, backend/cgroup.rs, application/process.rs and the  *)
(* daemon's launch and adoption).  Calls of several users interleave at      *)
(* every await; only the backend itself is under a lock, and a backend       *)
(* operation, which HelperTransaction details, is one step here.             *)
(***************************************************************************)
EXTENDS Naturals, Sequences, FiniteSets

CONSTANTS
    Users,          \* users whose daemons call the helper
    Rules,          \* application rules
    Ops,            \* the operations to consider, a subset of AllOps
    Nobody,         \* no user
    MaxCalls,       \* bound on calls
    MaxCommits,     \* bound on committed plans
    MaxChanges,     \* bound on topology changes
    MaxFaults,      \* bound on refused and failed steps
    MaxStarts       \* bound on processes that take over the process id

Helper2Ops == {"activate", "restore", "cleanup"}
Helper1Ops == {"apply1", "cleanup1", "recover", "launch", "adopt"}
AllOps == Helper2Ops \cup Helper1Ops

ASSUME ServiceAssumption ==
    /\ Ops \subseteq AllOps /\ Nobody \notin Users
    /\ {MaxCalls, MaxCommits, MaxChanges, MaxFaults, MaxStarts} \subseteq Nat

VARIABLES
    backend,    \* what the locked backend has committed
    topo,       \* version of the kernel's topology
    cg,         \* per rule: the cgroup directory, its incarnation and members
    proc,       \* the process behind one process id
    call,       \* per user: the call in progress
    mon,        \* the monitor's refresh in progress
    wake,       \* kernel notifications pending, or the driver's timer set
    last,       \* HelperRefresher.last
    stale,      \* whether the status changed since the last announcement
    used,       \* bounds
    hist        \* history: overlap, a plan was committed while a recovery was about
                \* to remove directories; reused, a process id was given away while it
                \* was adopted; restarted, the calls that saw generations start anew;
                \* silent, a method committed and did not announce it; anew, generations
                \* started anew since the monitor last announced the status of the time

vars == <<backend, topo, cg, proc, call, mon, wake, last, stale, used, hist>>

-----------------------------------------------------------------------------
(* State *)

\* The current plan: its generation, whether a runtime is armed with it and for
\* whom, its rules with the cgroups they were loaded for, the topology it was
\* compiled for; whether the runtime is degraded, and whether failback_in_ms asks
\* for another refresh; serial tells plans apart that share a generation.
NoRestore ==
    [user |-> Nobody, token |-> 0, gen |-> 0, armed |-> FALSE, owner |-> Nobody, rules |-> {}, topo |-> 0]
Inactive(serial) ==
    [gen |-> 0, armed |-> FALSE, degraded |-> FALSE, retry |-> FALSE, owner |-> Nobody, rules |-> {},
     bound |-> [r \in Rules |-> 0], topo |-> 0, serial |-> serial, receipt |-> NoRestore]

\* runtime_status_snapshot
Status(b) ==
    IF b.armed THEN [gen |-> b.gen, owner |-> b.owner, degraded |-> b.degraded]
    ELSE [gen |-> b.gen, owner |-> Nobody, degraded |-> FALSE]
\* No status has this shape: nothing was published yet.
NoStatus == [gen |-> 0, owner |-> Nobody, degraded |-> TRUE]

NoCall ==
    [op |-> "none", at |-> 1, rules |-> {}, saw |-> 0, serial |-> 0, topo |-> 0, token |-> 0,
     list |-> {}, ident |-> 0]
\* For the invariants, a refresh remembers how it ended: "refused" without a
\* transition, "unread" with an error the refresher dropped, or neither.
NoRefresh == [pc |-> "idle", topo |-> 0, status |-> NoStatus, ended |-> "done"]

\* The awaits and effects of a method, in order.  Looking up the caller and
\* authorizing it, which may prompt for any time, reads nothing of this state: it
\* is the wait before the next step, and a refusal is Fails at that step.
Helper2Steps(op) ==
    CASE op = "activate" -> <<"topology", "prepare", "backend", "announce">>
      [] op = "restore" -> <<"backend", "announce">>
      [] op = "cleanup" -> <<"backend", "announce">>
\* Faulty variant: the directories to remove are looked up last.
Helper1StepsLateList(op) ==
    CASE op = "apply1" -> <<"prepare", "backend">>
      [] op = "cleanup1" -> <<"backend">>
      [] op = "recover" -> <<"backend", "list", "remove">>
      [] op = "launch" -> <<"prepare", "spawn">>
      [] op = "adopt" -> <<"match", "identify", "move">>
Helper1Steps(op) ==
    CASE op = "apply1" -> <<"prepare", "backend">>
      [] op = "cleanup1" -> <<"backend">>
      [] op = "recover" -> <<"list", "backend", "remove">>
      [] op = "launch" -> <<"prepare", "spawn">>
      [] op = "adopt" -> <<"match", "identify", "move">>
StepsOf(op) == IF op \in Helper2Ops THEN Helper2Steps(op) ELSE Helper1Steps(op)

Busy(u) == call[u].op # "none"
At(u, step) == Busy(u) /\ StepsOf(call[u].op)[call[u].at] = step
\* A call goes on with its next step, or returns.
Advanced(c) == IF c.at = Len(StepsOf(c.op)) THEN NoCall ELSE [c EXCEPT !.at = @ + 1]
\* Past the backend a call holds nothing it still needs.
Done(c) == [NoCall EXCEPT !.op = c.op, !.at = c.at]
GoOn(u, c) == call' = [call EXCEPT ![u] = Advanced(c)]
Return(u) == call' = [call EXCEPT ![u] = NoCall]

\* A plan is committed; its routes wake the monitor.
Commits(b, silently) ==
    /\ backend' = b /\ wake' = TRUE
    /\ stale' = (stale \/ Status(b) # Status(backend))
    /\ hist' = [hist EXCEPT
                  !.overlap = @ \/ \E u \in Users : At(u, "remove") /\ call[u].list \cap b.rules # {},
                  !.silent = @ \/ silently,
                  !.anew = @ \/ b.gen = 0,
                  !.restarted = IF b.gen = 0 THEN {u \in Users : Busy(u) /\ call[u].op = "activate"} ELSE @]
Unchanged == UNCHANGED <<backend, wake, stale, hist>>

-----------------------------------------------------------------------------
(* Calls *)

Init ==
    /\ backend = Inactive(0) /\ topo = 0
    /\ cg \in [Rules -> {[exists |-> FALSE, id |-> 0, members |-> {}],
                         [exists |-> TRUE, id |-> 1, members |-> {}]}]
    /\ proc = [start |-> 1, app |-> TRUE]
    /\ call = [u \in Users |-> NoCall]
    /\ mon = NoRefresh /\ wake = TRUE /\ last = NoStatus /\ stale = TRUE
    /\ used = [calls |-> 0, changes |-> 0, faults |-> 0]
    /\ hist = [overlap |-> FALSE, reused |-> FALSE, restarted |-> {}, silent |-> FALSE,
               anew |-> FALSE]

\* A daemon holds its mutation lock: one call of a user at a time.  It acts on
\* the generation it last saw; launch and adoption need an applied profile.
Begin(u, op, rules) ==
    /\ ~Busy(u) /\ op \in Ops
    /\ used.calls < MaxCalls /\ used' = [used EXCEPT !.calls = @ + 1]
    /\ op \in {"activate", "apply1"} => backend.serial < MaxCommits
    /\ op \in {"restore", "cleanup", "cleanup1", "recover"} => rules = {}
    /\ op \in {"launch", "adopt"} => backend.armed /\ \E r \in backend.rules : rules = {r}
    /\ op = "restore" => backend.receipt.user = u /\ backend.serial < MaxCommits
    /\ call' = [call EXCEPT ![u] =
                  [NoCall EXCEPT !.op = op, !.rules = rules,
                                 !.saw = IF op \in {"activate", "apply1"} THEN backend.gen ELSE 0,
                                 !.serial = IF op = "activate" THEN backend.serial ELSE 0,
                                 !.token = IF op = "restore" THEN backend.receipt.token ELSE 0]]
    /\ hist' = [hist EXCEPT !.restarted = @ \ {u}]
    /\ UNCHANGED <<backend, wake, stale, topo, cg, proc, mon, last>>

\* caller_uid, CheckAuthorization or the step itself fails: the call ends.
Fails(u) ==
    /\ used.faults < MaxFaults
    /\ Busy(u)
    /\ \E step \in {"topology", "prepare", "backend", "announce", "list", "identify"} : At(u, step)
    /\ Return(u) /\ used' = [used EXCEPT !.faults = @ + 1]
    /\ hist' = [hist EXCEPT !.silent = @ \/ At(u, "announce")]
    /\ UNCHANGED <<backend, wake, stale, topo, cg, proc, mon, last>>
\* capture_topology, before the prompt
Captures(u) ==
    /\ At(u, "topology")
    /\ GoOn(u, [call[u] EXCEPT !.topo = topo])
    /\ UNCHANGED <<topo, cg, proc, mon, last, used>> /\ Unchanged

\* prepare_application_cgroups, prepare: a directory that exists is kept.
Made(dir) == IF dir.exists THEN dir ELSE [dir EXCEPT !.exists = TRUE, !.id = @ + 1]
Prepares(u) ==
    /\ At(u, "prepare")
    /\ cg' = [r \in Rules |-> IF r \in call[u].rules THEN Made(cg[r]) ELSE cg[r]]
    /\ GoOn(u, call[u])
    /\ UNCHANGED <<topo, proc, mon, last, used>> /\ Unchanged

\* nftables resolves the cgroups of a plan as it loads it.
Loads(rules) == \A r \in rules : cg[r].exists
Loaded(b, rules) ==
    [b EXCEPT !.gen = @ + 1, !.serial = @ + 1, !.rules = rules, !.degraded = FALSE, !.retry = FALSE,
              !.bound = [r \in Rules |-> IF r \in rules THEN cg[r].id ELSE 0]]

\* Faulty variant: the generation the caller expects is not compared.
ActivatableAlways(c) == Loads(c.rules)
\* activate_runtime_inner: the expected generation, and the plan loads.
Activatable(c) == c.saw = backend.gen /\ Loads(c.rules)
\* The receipt restores what this activation replaces.
Activated(u, c) ==
    [Loaded(backend, c.rules) EXCEPT
        !.armed = TRUE, !.owner = u, !.topo = c.topo,
        !.receipt = [user |-> u, token |-> backend.serial + 1, gen |-> backend.gen,
                     armed |-> backend.armed, owner |-> backend.owner,
                     rules |-> backend.rules, topo |-> backend.topo]]
\* restore_runtime_inner: the receipt of the current generation, once.
Restorable(u, c) ==
    /\ backend.receipt.user = u /\ backend.receipt.token = c.token
    /\ backend.serial = c.token /\ backend.gen # 0
    /\ Loads(backend.receipt.rules)
Restored ==
    LET prior == backend.receipt
    IN  IF prior.gen = 0 THEN Inactive(backend.serial)
        ELSE [Loaded(backend, prior.rules) EXCEPT
                 !.armed = prior.armed, !.owner = prior.owner, !.topo = prior.topo,
                 !.receipt = NoRestore]
\* apply: refused while a runtime is armed.
Appliable(c) == ~backend.armed /\ c.saw = backend.gen /\ Loads(c.rules)
Applied(c) == [Loaded(backend, c.rules) EXCEPT !.topo = topo, !.receipt = NoRestore]

\* run_backend: the operation, or an error that leaves what was committed.
RunBackend(u) ==
    LET c == call[u]
        succeeds == GoOn(u, Done(c))
        refused == Return(u) /\ Unchanged
    IN  /\ At(u, "backend")
        /\ CASE c.op = "activate" ->
                  IF Activatable(c) THEN Commits(Activated(u, c), FALSE) /\ succeeds ELSE refused
             [] c.op = "restore" ->
                  IF Restorable(u, c) THEN Commits(Restored, FALSE) /\ succeeds ELSE refused
             [] c.op = "apply1" ->
                  IF Appliable(c) THEN Commits(Applied(c), TRUE) /\ succeeds ELSE refused
             [] c.op \in {"cleanup", "cleanup1"} ->
                  Commits(Inactive(backend.serial), c.op = "cleanup1") /\ succeeds
             [] c.op = "recover" ->
                  IF backend.gen # 0 THEN refused ELSE Unchanged /\ GoOn(u, c)
        /\ UNCHANGED <<topo, cg, proc, mon, last, used>>

\* announce: a daemon that hears a change inspects the helper.  cleanup asks for
\* the status under a lock of its own; it, or the signal, may fail.
Announces(u) ==
    /\ At(u, "announce")
    /\ stale' = FALSE /\ hist' = [hist EXCEPT !.silent = FALSE]
    /\ GoOn(u, call[u])
    /\ UNCHANGED <<backend, wake, topo, cg, proc, mon, last, used>>

\* verified_orphan_directories: only when all of them are empty.
Listed == {r \in Rules : cg[r].exists}
AllEmpty == \A r \in Listed : cg[r].members = {}
Lists(u) ==
    /\ At(u, "list")
    /\ IF AllEmpty THEN GoOn(u, [call[u] EXCEPT !.list = Listed]) ELSE Return(u)
    /\ UNCHANGED <<topo, cg, proc, mon, last, used>> /\ Unchanged
\* remove_verified_orphan_directories verifies them again.
Removable(list) == AllEmpty /\ list \subseteq Listed
Removes(u) ==
    /\ At(u, "remove")
    /\ IF Removable(call[u].list)
       THEN cg' = [r \in Rules |-> IF r \in call[u].list
                                   THEN [cg[r] EXCEPT !.exists = FALSE, !.members = {}] ELSE cg[r]]
       ELSE UNCHANGED cg
    /\ Return(u)
    /\ UNCHANGED <<topo, proc, mon, last, used>> /\ Unchanged

-----------------------------------------------------------------------------
(* Applications *)

\* The process id is given to another process, which enters a cgroup or none.
NewProcess(app, rules) ==
    /\ proc' = [start |-> proc.start + 1, app |-> app]
    /\ cg' = [r \in Rules |-> [cg[r] EXCEPT !.members = IF r \in rules THEN {proc'.start} ELSE {}]]
    /\ hist' = [hist EXCEPT !.reused = @ \/ \E u \in Users : At(u, "move")]

\* launch_application: the child enters the cgroup before it executes.
Spawns(u) ==
    /\ At(u, "spawn")
    /\ IF call[u].rules \subseteq Listed /\ proc.start < MaxStarts
       THEN NewProcess(TRUE, call[u].rules) ELSE UNCHANGED <<cg, proc, hist>>
    /\ GoOn(u, call[u])
    /\ UNCHANGED <<backend, wake, stale, topo, mon, last, used>>

\* matching_processes: what runs the selector's executable now.
Matches(u) ==
    /\ At(u, "match")
    /\ IF proc.app THEN GoOn(u, [call[u] EXCEPT !.ident = proc.start]) ELSE Return(u)
    /\ UNCHANGED <<topo, cg, proc, mon, last, used>> /\ Unchanged
\* Faulty variant: the executable alone is compared with what was matched.
SamePid(ident) == TRUE
\* matches_process: the executable and the start time.
SameProcess(ident) == proc.app /\ proc.start = ident
Identifies(u) ==
    /\ At(u, "identify")
    /\ IF SameProcess(call[u].ident) THEN GoOn(u, call[u]) ELSE Return(u)
    /\ UNCHANGED <<topo, cg, proc, mon, last, used>> /\ Unchanged
\* adopt: whatever has the process id when it is written enters the cgroup.
Moves(u) ==
    /\ At(u, "move")
    /\ cg' = IF call[u].rules \subseteq Listed
             THEN [r \in Rules |-> [cg[r] EXCEPT !.members = IF r \in call[u].rules THEN {proc.start} ELSE {}]]
             ELSE cg
    /\ GoOn(u, call[u])
    /\ UNCHANGED <<topo, proc, mon, last, used>> /\ Unchanged

\* The process exits and its id is given to another one; only of a process that
\* was matched or has entered a cgroup does it make a difference.
ProcessReplaced ==
    /\ proc.start < MaxStarts
    /\ \/ \E u \in Users : call[u].ident = proc.start
       \/ \E r \in Rules : proc.start \in cg[r].members
    /\ \E app \in BOOLEAN : NewProcess(app, {})
    /\ UNCHANGED <<backend, topo, call, mon, wake, last, stale, used>>

-----------------------------------------------------------------------------
(* The monitor *)

TopologyChanges ==
    /\ used.changes < MaxChanges /\ used' = [used EXCEPT !.changes = @ + 1]
    /\ topo' = topo + 1 /\ wake' = TRUE
    /\ UNCHANGED <<backend, cg, proc, call, mon, last, stale, hist>>

\* HelperRefresher::refresh
Wakes ==
    /\ mon.pc = "idle" /\ wake
    /\ wake' = FALSE
    /\ mon' = IF backend.armed THEN [NoRefresh EXCEPT !.pc = "capture"]
              ELSE [NoRefresh EXCEPT !.pc = "publish", !.status = Status(backend)]
    /\ UNCHANGED <<backend, topo, cg, proc, call, last, stale, used, hist>>
MonitorCaptures ==
    /\ mon.pc = "capture"
    /\ \/ mon' = [mon EXCEPT !.pc = "refresh", !.topo = topo] /\ UNCHANGED used
       \/ /\ used.faults < MaxFaults
          /\ used' = [used EXCEPT !.faults = @ + 1] /\ mon' = [mon EXCEPT !.pc = "degrade"]
    /\ UNCHANGED <<backend, topo, cg, proc, call, wake, last, stale, hist>>
\* runtime_status, degrade_runtime or, when the runtime is gone, refresh_runtime
\* fails: the refresher drops the error, and the driver sleeps without a timer.
Unread ==
    /\ used.faults < MaxFaults /\ used' = [used EXCEPT !.faults = @ + 1]
    /\ \/ mon.pc = "idle" /\ wake /\ wake' = FALSE
       \/ /\ mon.pc = "degrade" \/ (mon.pc = "refresh" /\ ~backend.armed)
          /\ UNCHANGED wake
    /\ mon' = [NoRefresh EXCEPT !.ended = "unread"]
    /\ UNCHANGED <<backend, topo, cg, proc, call, last, stale, hist>>
\* Faulty variant: a refresh that fails is not tried again.
NoRetry(b) == wake
\* failback_wait: the driver wakes again when failback_in_ms is over.
Retried(b) == wake \/ b.retry
\* The runtime stays as it is, or is degraded or set right: the plan is the same.
Shows(degraded, retry) ==
    /\ backend' = [backend EXCEPT !.degraded = degraded, !.retry = retry]
    /\ stale' = (stale \/ Status(backend') # Status(backend))
    /\ wake' = Retried(backend')
    /\ UNCHANGED hist
Ends(how) ==
    mon' = [mon EXCEPT !.pc = "publish", !.status = Status(backend'), !.ended = how]
\* refresh_runtime_inner: nothing to do, a transition, or one that failed and is
\* tried again after its wait, as is a recovery that failed.  A candidate that
\* does not compile, or that the routes found in the kernel rule out, is refused.
\* Where no wait was set it is the selector that may have a deadline.
Refreshes ==
    LET settles == ~backend.armed \/ mon.topo = backend.topo
        loads == Loads(backend.rules) /\ backend.serial < MaxCommits
        faulty == used.faults < MaxFaults /\ used' = [used EXCEPT !.faults = @ + 1]
    IN  /\ mon.pc = "refresh"
        /\ \/ /\ settles
              /\ \E deadline \in {FALSE, backend.armed} : Shows(FALSE, deadline)
              /\ Ends("done") /\ UNCHANGED used
           \/ /\ ~settles /\ loads
              /\ \E deadline \in BOOLEAN :
                   Commits([Loaded(backend, backend.rules) EXCEPT !.topo = mon.topo,
                                                                 !.retry = deadline], FALSE)
              /\ Ends("done") /\ UNCHANGED used
           \/ /\ backend.armed
              /\ Shows(TRUE, TRUE)
              /\ Ends("done") /\ IF ~settles /\ ~loads THEN UNCHANGED used ELSE faulty
           \/ /\ backend.armed
              /\ \E deadline \in BOOLEAN : Shows(TRUE, deadline)
              /\ Ends("refused") /\ faulty
        /\ UNCHANGED <<topo, cg, proc, call, last>>
\* degrade_runtime sets no wait: one that an earlier refresh left is kept.
Degrades ==
    /\ mon.pc = "degrade"
    /\ Shows(backend.armed, backend.retry)
    /\ Ends("refused")
    /\ UNCHANGED <<topo, cg, proc, call, last, used>>
\* Faulty variant: what was published is not remembered.
SameAsEver(status) == last # NoStatus
\* publish: a status equal to the last published one is not announced.
SameAsLast(status) == last = status
Publishes ==
    /\ mon.pc = "publish"
    /\ last' = mon.status
    /\ stale' = (stale /\ SameAsLast(mon.status))
    /\ hist' = [hist EXCEPT !.silent = @ /\ SameAsLast(mon.status),
                            !.anew = @ /\ (SameAsLast(mon.status) \/ mon.status # Status(backend))]
    /\ mon' = [NoRefresh EXCEPT !.ended = mon.ended]
    /\ UNCHANGED <<backend, topo, cg, proc, call, wake, used>>

-----------------------------------------------------------------------------
CallStep(u) ==
    \/ \E op \in Ops : \E rules \in SUBSET Rules : Begin(u, op, rules)
    \/ Fails(u) \/ Captures(u) \/ Prepares(u) \/ RunBackend(u)
    \/ Announces(u) \/ Lists(u) \/ Removes(u)
    \/ Spawns(u) \/ Matches(u) \/ Identifies(u) \/ Moves(u)
MonitorStep ==
    \/ Wakes \/ Unread \/ MonitorCaptures \/ Refreshes \/ Degrades \/ Publishes
Next ==
    \/ \E u \in Users : CallStep(u)
    \/ MonitorStep
    \/ TopologyChanges \/ ProcessReplaced

Spec == Init /\ [][Next]_vars

-----------------------------------------------------------------------------
(* Properties *)

Quiet == mon.pc = "idle" /\ ~wake /\ \A u \in Users : ~Busy(u)

\* Type correctness: a status is read only of a call that announces one, and
\* a directory without existence has no members.
ServiceTypeOK ==
    /\ backend.gen \in 0..MaxCommits /\ backend.serial \in 0..MaxCommits
    /\ backend.armed => backend.owner \in Users /\ backend.gen > 0
    /\ \A u \in Users : Busy(u) => call[u].at \in 1..Len(StepsOf(call[u].op))
    /\ \A r \in Rules : ~cg[r].exists => cg[r].members = {}
    /\ mon.pc \in {"idle", "capture", "refresh", "degrade", "publish"}

\* The cgroups that the committed plan was loaded for are the directories
\* applications enter: a recovery never takes one away from an active plan,
\* unless that plan was committed between its last two steps.
RulesBound ==
    \/ \A r \in backend.rules : cg[r].exists /\ cg[r].id = backend.bound[r]
    \/ hist.overlap

\* Only processes of the application are moved into its cgroup, however long
\* the prompt between matching and adoption took and whoever has their process
\* id by now, unless it was given away between the identity check and the write.
MembersMatch ==
    (\E r \in Rules : proc.start \in cg[r].members) => proc.app \/ hist.reused

\* When nothing is in progress every daemon was told of the current status.
\* The exceptions come back to the status the monitor published last, which it
\* does not publish again: a method committed without announcing it (Helper1's
\* apply and cleanup never do, a signal may fail), or generations started anew
\* and a refresh arrived at the one that was published last.  After a refresh that
\* could not read the status nothing is published at all.
ChangesAnnounced ==
    Quiet /\ stale /\ mon.ended # "unread" =>
        (hist.silent \/ hist.anew) /\ Status(backend) = last

\* How an armed runtime was left by a refresh.
Followed ==
    /\ mon.ended = "done" => backend.topo = topo /\ ~backend.degraded
    /\ mon.ended = "refused" => backend.degraded
\* An activation compiled for the topology before its prompt, a refresh that
\* overtook another or a transition that failed does not last: the monitor comes
\* back until an armed runtime has the topology of the kernel.  It sleeps behind
\* the kernel, and without a timer, only after a refresh that was refused or could
\* not read the topology, and then the runtime is shown as degraded; or after one
\* that could not read the runtime's own status, which shows nothing.
TopologyFollowed == Quiet /\ backend.armed => Followed

\* An activation replaces the plan its caller saw, whatever was committed
\* during its prompt, unless a cleanup made generations start anew.
ReplacesSeen ==
    [][\A u \in Users :
          At(u, "backend") /\ call[u].op = "activate" /\ backend'.serial # backend.serial
             /\ call'[u] # call[u] =>
          call[u].serial = backend.serial \/ u \in hist.restarted]_vars
=============================================================================
