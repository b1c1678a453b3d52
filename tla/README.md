# A TLA+ model of RouteLane

RouteLane sends the traffic of chosen applications, users, domains and networks
through chosen network connections ("lanes"). A graphical client and a command
line talk to a per-user daemon over a Unix socket; the daemon compiles the active
profile and asks a privileged helper, over D-Bus and after Polkit authorisation,
to put the plan into the kernel with `nft` and `ip`. The helper keeps a journal
under `/run/routelane`, so that a restarted helper can tell how far an
interrupted change had come, and, once a *runtime* is authorised, follows link
changes on its own: it fails over to a backup connection and back.

This directory models the whole path: what the window believes, what the daemon
does with the requests of several clients, how the helper's D-Bus calls interleave,
how it moves the kernel from one plan to the next and survives failures on the way,
how the armed runtime decides which plan that is, what a plan means for packets, and
how what earlier versions left behind is removed. File names below are relative to
the repository's `src/`.

## Inventory

| Component | State | Operations | Hard because |
|---|---|---|---|
| Routing steps (`backend/policy_route.rs`, `privileged.rs` 3488-3700) | none: pure functions of two plans | transition, install, retire and rollback step lists, the states a crash can leave | order matters to the kernel; forward and backward moves must fit together |
| Helper transaction (`backend/privileged.rs`, `backend/transaction.rs`) | journal, live nft table, routes and rules, memory of the helper | apply, restore, cleanup, inspect, recover | a crash between any two commands, failed commands, failed rollbacks, failed saves, routes the kernel drops |
| Interface settings (`backend/interface_settings.rs`) | `src_valid_mark` per device, receipts in the journal | ensure, restore | must be switched back whatever fails |
| Runtime authority (`backend/runtime.rs`, `privileged.rs` 1925-2334) | grant, decision, undo receipt; held-back candidate, recovery wait | activate, refresh, restore_runtime, degrade, status | one grant covers automatic changes; they must stay inside it |
| Primary selection (`backend/primary.rs`) | bindings, per family preferred and effective lane and wait | new, resume, update, next_deadline | flapping links, a reused interface name, a wait that must end |
| Runtime monitor (`backend/runtime_monitor.rs`, `bin/routelane_helper.rs`) | channel of capacity one, timer, forwarder task | forward, coalesce, refresh, restart a lost source | lost, late and coalesced notifications; state read before a lock and used after it |
| Topology (`backend/topology.rs`) | snapshot | capture, restricted_to, system_default | several `ip` calls make one snapshot |
| Planner (`backend/planner.rs`, `backend/plan.rs`), profiles (`domain/*.rs`) | none | validate, compile, order | overlapping rules, fallback chains, slots shared with flows already marked |
| nftables documents (`backend/nft_document.rs`, `backend/nftables.rs`) | the chains of the table | render, fingerprint | what a chain does depends on order, on the mark and on conntrack |
| Live inspection (`backend/inspect.rs`), health (`health/*.rs`) | none | parse, compare, evaluate | a report is made of several readings |
| Application cgroups (`backend/cgroup.rs`, `application/process.rs`) | cgroup directories and their members | prepare, launch, adopt, remove | processes that exit and whose id is reused; a directory removed under a plan |
| Legacy journals (`backend/legacy_*.rs`, orphans in `privileged.rs`) | schema 1 and 2 records, orphan records | claim, cleanup, recover | ownership of what an older version left, after any crash |
| Helper D-Bus service (`bin/routelane_helper.rs`, `privileged.rs` 5095-5249) | the backend behind a lock | authorise, call, announce | a prompt may take any time; topology is captured before it |
| Daemon (`daemon/service.rs`, `daemon/state.rs`) | active profile, generation, runtime status, gate | apply, toggle, launch, follow_runtime, deactivate, recover | the helper's announcements interleave with requests |
| IPC (`ipc/*.rs`), bridge (`main.rs`) | connections, subscriptions, the request in flight | framed requests and events | timeouts, answers that come late, events that are dropped |
| User interface (`ui/session.rs`, `ui/controller.rs`, `ui/window.rs`) | session, pending operation, saved and applied profile | save, apply, toggle, deactivate, recover | several views of one truth, each updated by another message |
| Configuration (`config*.rs`) | files | load, migrate, save | a save that fails after the rename |
| DNS, application discovery, command line | - | I/O around the above | - |

Who calls whom: window -> controller -> bridge -> IPC -> daemon -> (D-Bus) helper
service -> backend -> `nft`/`ip`/journal. In the other direction kernel notifications
-> forwarder -> channel -> monitor -> backend, helper announcements -> daemon ->
events -> bridge -> session. Daemon and monitor meet only in the backend, one call at
a time.

What makes it correct: a finished journal names the plan the kernel carries; an
interrupted one can always be finished or undone; no traffic escapes while tables
are rewritten; a flow stays on the connection it started on; what is switched on in
the kernel is on record before it happens; a grant lives and dies with its plan; the
armed runtime only ever uses approved lanes over the devices it was granted, follows
the topology, and returns to the preferred lane; a failed request leaves the policy
that was in force; nobody is shown as healthy what is not; every request is answered;
and leftovers are removed only as far as they are on record.

## Modules

| Module | Lines of the system it stands for |
|---|---|
| `PlanRouting` | plans as routing sees them, the step lists of `policy_route.rs`, their effect, the crash states `privileged.rs` accepts |
| `RoutingWalk` | one walk from a plan to the next, command by command |
| `HelperTransaction` | the helper: requests, transition stages, rollback, journal, start-up and recovery, settings, grants |
| `PlanRegister` | what the helper promises: a register of plans whose updates take effect once or not at all |
| `PrimarySelector` | `backend/primary.rs` and the parts of `topology.rs` it reads, as operators |
| `RuntimeFailover` | kernel changes, notification forwarder, monitor, client activations, and what a refresh does |
| `HelperService` | both D-Bus interfaces with several users, the monitor beside them, the application cgroups and process ids |
| `DaemonService` | the daemon's requests and its follower over the mutation lock and the reconciliation gate |
| `DesktopSession` | window, controller, session, bridge and event stream |
| `PolicyPlan` | profile validation, topology and planner, as operators |
| `PolicyTraffic` | the chains, lane tables and rules of a plan and what they do to packets through every stage of a transition |
| `LeftoverCleanup` | orphans and schema 1 and 2 journals, removed command by command |
| `MCRouting`, `MCHelper`, `MCRuntime`, `MCHelperService`, `MCDaemon`, `MCPolicy`, `MCLeftover` | the instances TLC checks |
| `PlanRouting_proofs`, `HelperTransaction_proofs` (with those of `RoutingWalk`), `RuntimeFailover_proofs`, `HelperService_proofs`, `DaemonService_proofs`, `DesktopSession_proofs`, `PolicyTraffic_proofs`, `LeftoverCleanup_proofs` | theorems |

`LeftoverCleanup` builds on `PlanRouting`, `PolicyTraffic` on `PolicyPlan`,
`RuntimeFailover` on `PrimarySelector`; `HelperTransaction` is shown to implement
`PlanRegister`. The layers above take the one below for what it promises: the backend
operation of `HelperService`, and a transition of `RuntimeFailover`, is the one that
`HelperTransaction` details; the helper of `DaemonService` is a register of plans with
refreshes of its own; the daemon of `DesktopSession` runs mutations in the order they
reach its lock.

### PlanRouting and RoutingWalk

A plan is a generation and a sequence of lanes; a lane is its device and, per
family, how its table reaches out (`gateway`, `onlink` or not at all). Table, mark
and priority of a lane are its position, as in `compile_lane`. The live state is a
set of routes and a set of rules. Step lists keep the code's order: for each lane,
for each family. `Refused` is the one kernel behaviour the order depends on, an
IPv6 gateway route into a table that only holds its unreachable route; it is
external and marked so; a walk that met it would deadlock. `PreparedStates`,
`ActivatedStates`, `ReachedFrom` and `AbsentRollbackStates` are the states in which
recovery accepts what it finds.

### HelperTransaction

`pc` is the point the single backend call has reached, `todo` the kernel commands
left of the stage. `journal` is `StoredAppliedState` without its hashes (a plan
stands for its hash), `nft` the document the live table renders, `mem` the fields of
`CommandPrivilegedBackend`. `Begin` is the head of `transition_with` up to the
pending save; `JournalSetting`/`WriteSetting` are `ensure_mark_aware_rpf`;
`Command`/`CommandFails` run `ForwardScript` or `RestoreScript`, one nft or ip
command each; `Commit`, `CheckRollback`, `Withdraw` and `Unset` are the ends of
`transition_with`; `Adopt`, `Reconcile`, `Recover`, `CheckRecovery` and `Resettle`
are `ensure_inspection_ready` and `ensure_reconciled`. A crash keeps journal, kernel
and settings and loses `mem`, `pc`, `job` and `todo`. `SaveFails` leaves the old
file or, with `LateSaves`, the new one: `save` syncs the directory after the rename.
`LinkLoss` removes the unicast defaults over one device and family; with
`LinkLossInFlight` also in the middle of a change.

### PrimarySelector and RuntimeFailover

Times are relative and count ticks: a family's `waited` is now minus
`ready_since`, a held-back candidate's `left` is `retry_at` minus now. A topology
says, per interface, which device it is and for which families it is `ready` (carrier,
address and default route together), and per family where the system default
points. A plan is what its content hash covers here: the decision, and device and
usable families of each lane.

Three actors interleave in `RuntimeFailover`. The kernel changes the topology
(`Change`) and notifies the forwarder, whose channel holds one event (`Notified`).
A client reads the topology first (`RequestActivation`) and gets the backend later
(`Activate`). The monitor is `drive_runtime` with `HelperRefresher::refresh`: three
backend calls with the lock released between them (`Status`, `Capture`, `Refresh`).
A transition is one step here that commits, is undone or leaves its journal
unfinished (`Commits`, `TransitionFails`); `HelperTransaction` opens that step.
`steady` and `fails` are history variables for two properties; no action reads them.

### HelperService

Each user has one call, because its daemon holds a mutation lock over it. A method is
the sequence of its awaits and effects (`Helper1Steps`, `Helper2Steps`): `Captures` is
`capture_topology`, before the authorisation prompt; `Prepares` makes cgroup
directories; `RunBackend` is the closure given to `run_backend`, under the lock;
`Announces` is the signal. The monitor is `Wakes` to `Publishes` as in
`HelperRefresher`, with `last` the status it published. A cgroup is a directory with
an incarnation (`id`) and members; nftables resolves it when a plan is loaded
(`bound`). `proc` is whatever process has one process id, told apart by its start time;
`ProcessReplaced` gives the id away. `hist` records the races the properties except.

### DaemonService

A task is a client's request or the follower; its `pc` names the await it is at:
`mutex` for the mutation lock, `gate` and `reconcile` for `ensure_reconciled`, then
the helper call it makes. `Prepare`, `Activate`, `Verify` and `Restore` are
`apply_profile_locked`; `Cleanup` and `Rejoin` are `deactivate`; `RecoverOrphans` is
the recovery request; `ReadStatus` and `AnswerStatus` are the status and health
requests, which copy the state and ask the helper without a lock; `Launch` stands for
launch and adoption. `TakeNews`, `FollowInspect` and `Follow` are `follow_runtime`. The
helper is a register with a generation, an armed or degraded phase and a restore
receipt; `HelperRefreshes` commits without the daemon and `HelperPublishes` announces
it later.

### DesktopSession

`s` is `UiSession`, `c` the controller with the window's profile, `bridge` the loop of
`daemon_bridge`: idle, connecting, or waiting for one answer with a timeout. `toBridge`
and `toUi` are its two channels, `feed` the subscription. A request that timed out may
still run (`late`, `LateRuns`): the daemon does not learn that its client is gone.
`Handled` is `UiSession::handle` with one operator per message; `Receive` is the
window's handler, with everything it calls; `BeginsSave` to `Saved` are the save thread.
A profile is its contents but for one rule (`base`) and that rule's switch (`on`),
since `SetRuleEnabled` changes only the switch.

### PolicyPlan and PolicyTraffic

Destinations stand for networks, a domain for the destinations it resolves to. A rule
has a priority and an identifier, and a specificity by its kind; the planner sorts and
drops the repeated ones. `Compile` is `compile_profile_with_primary`, `Acceptable` the
helper's own validation. In `PolicyTraffic` a packet has a destination, an application,
a mark and its flow's conntrack mark; `Output`, `Guarded` and `Egress` are the chains of
`nft_document.rs` in order, `RouteFor` the kernel's walk through policy rules, lane
table and main table. `Begin` to `Commit` and `Fail` to `Rerender` are the stages of a
transition, between any two of which packets are sent; whole route lists are one step,
for `HelperTransaction` takes them one by one. Links lose carrier, address or
device, and others add routes, rules and tables in between (`Change`).

### LeftoverCleanup

A document says which schema rendered it and for which plans (`Doc`), or that it was
altered; `journal` is one of the ownership envelopes. `Adopted`, `Note`,
`RemoveOrphan` and `DropOrphan` are `recover_orphaned`; `Steps`, `DropLegacy`, `Settle` and
`Clear` are `cleanup_legacy` and `cleanup_legacy_v2`; `Unwrap` is the schema-1 record inside
a schema-2 journal. `Found` enumerates what a helper of the earlier schema can have left,
its own crashes included. `Other` is what other programs do to the reserved tables; the
helper knows its own by their shape, so what it has `Seen` is its routing and every
default route of another program that looks like a lane's (`Claimed`). A route or rule of
another shape is an error of the whole reading (`Readable`), also of the one before a
rule is deleted, which lists the routes of the family as well (`live_family_ownership`).

### Type invariants

`TypeOK`, `RuntimeTypeOK`, `ServiceTypeOK`, `DaemonTypeOK`, `DesktopTypeOK`,
`TrafficTypeOK` and `LeftoverTypeOK` state the types. They hold on the instances of the
runs below (add one to a `.cfg` as an `INVARIANT` to see it), but the runs spend their
time on what could be wrong. Those of `HelperTransaction` (but for the live routing,
which depends on the plans), `HelperService`, `DaemonService`, `LeftoverCleanup` and, under
the hypothesis of `DesktopTyped`, `DesktopSession` are proved; the inductive invariants of the other proofs contain what they need of theirs.

## Runs

| Run | Checks | Instance |
|---|---|---|
| `routing_walk` | `WalkEndsInNext`, `SharedLanesStayRouted` | every pair of plans of at most two lanes, every set of dropped routes the helper tolerates |
| `helper_faults` | `CommittedPlanIsLive`, `InterruptedJournalRecoverable`, `GuardCoversUpdate`, `MemoryMatchesJournal`, `ArmedGrantIsJournaled`, `SettingsAccounted`, `MutationsAreJournaled`, `ImplementsRegister`, `GrantCommitsWithItsPlan` | three layouts, three generations, two authorities, one device that needs a setting, two faults anywhere |
| `helper_recovers` | `CleanupRevokesGrant`, `InterruptedIsResolved` (liveness) | apply, activate, refresh, cleanup; two faults, late saves included |
| `failover_settles` | `SettledDecision`, `FailbackWaited`, `FailsBack` (liveness) | three policies, all defaults, two changes around one activation, two failed commits or restarts |
| `failover_faults` | `ExitApproved`, `PublishedIsCommitted` | every kind of failure, three of them, two changes, two activations |
| `helper_service` | `RulesBound`, `MembersMatch`, `ChangesAnnounced`, `TopologyFollowed`, `ReplacesSeen` | two users, three calls, three commits, a change, a failure, a process id that is reused |
| `daemon_service` | `NoRevival`, `HealthyIsTrue`, `FailedApplyKeepsPrevious`, `RequestsAnswered` (liveness) | two clients and the follower, two requests, a failure or restart anywhere, a refresh by the helper |
| `desktop_session` | `AppliedIsApplied`, `SettledShowsDaemon`, `OperationEnds` (liveness) | two acts of the user, one of somebody else, one failure: timeout, restart, lost events, failed save, refusal |
| `policy_traffic` | `ProfileMeaning`, `NoEscape`, `FlowsStay`, `HealthyDelivers`, `ForeignKept` | three profiles, two connections, two families, two changes, two plans, one stage or save that fails |
| `leftover_cleanup` | `StillCleanable`, `EvidenceKept`, `StartsFresh`, `RemovesDeclared`, `ForeignUntouched` | orphans and three kinds of journals in every state their helpers can leave, two failures or crashes, one disturbance: a route, a rule, a changed table, a lost link, or one of three defaults shaped like a lane's |

What they show: the kernel, the journal and the memory of the helper never disagree
beyond what the journal says, and the helper is a register of plans whatever fails;
an interrupted change is always resolved; the armed runtime settles on the lane its
policy asks for and goes back to the preferred one, only after its delay; calls of
several users that interleave at every await neither take cgroups from an active plan
nor replace a plan nobody saw; no daemon calls healthy what is not, and a failed
application changes nothing unless the helper dies with its answer; a window that has
settled shows the daemon; what a profile says is what packets do, and as long as the
table of a plan is there, which it is but for a part of a rollback, new traffic leaves by the
connection the profile gives it or stays, and a flow leaves by no other than its own; and
no cleanup forgets or exceeds what is on record.

Two runs end in a violation, each a disagreement between the code and what the
repository says about it:

| Run | What the code does |
|---|---|
| `link_loss_wedge` | a default route the kernel drops after a crash in mid-transition makes recovery refuse for good (`privileged.rs:3453`) |
| `stale_reconcile` | the daemon's first snapshot is not taken under the mutation lock, and overwrites a generation the follower has learnt in between (`service.rs:1032`); `routelane_daemon.rs` says no transition is missed |

### Other disagreements and limits

Seen while modelling; each is in the model or can be had from it, and no run is kept:

Helper:

- a failed refresh repairs the journal without the grant it is armed with
  (`privileged.rs:2159`), which a restart then forgets: the exception of
  `ArmedGrantIsJournaled`. The next activation writes the grant again, which
  `GrantCommitsWithItsPlan` excludes; this is why `helper_faults` has no refreshes;
- every failed failback is retried after the same wait: the refresh in between forgets
  the candidate (`privileged.rs:2229`), while the README (160) has the wait grow;
- the monitor's status call replays an interrupted journal during the wait it was
  given (`routelane_helper.rs:202`);
- a `Closed` queued while a burst is coalesced is dropped, and the source never
  restarted (`runtime_monitor.rs:73`);
- a rollback deletes the old generation's whole table before it installs it again
  (`privileged.rs:2971`), while the README (160) says the previous generation is kept: from
  that command to the rendering of the earlier plan no chain is there, and what is sent, new
  or established, with a lane or without, leaves by the main route. `NoEscape` names the two
  points, `FlowsStay` says nothing of them; both fail without these exceptions;
- a third fault, in a recovery that removes what an earlier one had partly
  reinstalled, leaves a state no later recovery accepts (`privileged.rs:3689`);
  `InterruptedJournalRecoverable` fails with `MaxFaults = 3`;
- after a failed transition the journal is repaired before the settings are
  undone (`privileged.rs:1595`): a crash in between leaks a setting when another
  fault preceded it;
- `save` may fail after the rename (`privileged.rs:723`); with `LateSaves` and two
  faults the journal is a committed one while the kernel is half way back;
- `resume` binds lanes anew (`primary.rs:52`): a device absent at that moment stays
  unknown to the selector when it returns, though the bindings are called frozen;
- a held-back refresh keeps a selector that stands on the uncommitted decision
  (`privileged.rs:2245`): with new evidence a ready primary is given up, and a retry
  after a recovery may apply the older candidate; the first is the exception in
  `FailbackWaited`;
- a dropped route which the new plan still uses is refused without timer
  (`privileged.rs:2224`): `Degraded` is not retried, and activation is refused until a
  cleanup;
- the first snapshot may precede the subscription (`routelane_helper.rs:234`);
  `SettledDecision` fails with `"late"` among the faults.

Planner, traffic and health:

- slots belong to positions: a plan that drops or adds a lane gives its mark to
  another one, and a flow keeps the number (`planner.rs:156`; the README, 154, has a
  flow keep its connection). `FlowsStay` speaks of refreshes, which keep the lanes;
- while an activation with another order of lanes is verified behind its guard, an
  established flow to a connected network already follows its number in the new plan, and
  so does every flow between the removal of the guard and the save (`privileged.rs:1664`),
  also when that activation is then undone: `Trial`, another exception of `FlowsStay`;
- `Healthy` compares neither addresses nor interface indexes: `HealthyDelivers` holds
  while the host has those the plan was made with;
- local networks are those of granted interfaces only; `MAX_RULES` counts compiled
  rules; unmatched traffic set to `PreserveSystem` is stored and read by nobody;
- a rule identifier the compiler accepts may not be a cgroup name the helper accepts;
- between the last verification and a flush another program's route can come, and
  goes with it; `ForeignUntouched` and `ForeignKept` speak of what the verification saw.

Leftovers:

- a default route of another program that is shaped exactly like a lane's, in a reserved
  table, is taken for RouteLane's (`privileged.rs:4241`), and nothing ties an orphaned
  route to a rule or to the document (`privileged.rs:3793`): `recover_orphaned` puts it on
  record and flushes it, though the design (2026-08-04, 59) says that the operation does
  not claim or remove unrelated resources. It is the exception of `ForeignUntouched`, which
  fails without it; a legacy cleanup refuses such a route unless it equals one of its own.
  Rules of others that are exactly a lane's, and their terminal routes, are not modelled;
- a schema-1 cleanup whose `clear` fails after the file was removed stays refused until
  the helper is restarted; an empty schema-2 journal cannot be cleaned;
- a schema-2 journal with an orphan cleanup in it, or with a device that was replaced,
  is refused for good;
- a restore of `src_valid_mark` that fails is reported and forgotten: the exception of
  `EvidenceKept`.

D-Bus service, daemon and desktop:

- `RecoverOrphanedResources` removes cgroups without the backend's lock after its
  backend step: a plan activated in between loses its cgroup (the exception of
  `RulesBound`); the identity of a process is checked a step before it is moved (that
  of `MembersMatch`); generations start at 1 again after a cleanup (that of
  `ReplacesSeen`);
- `Helper1.Cleanup`, which the daemon uses, announces nothing, and the monitor does not
  repeat a status equal to its last one: one exception of `ChangesAnnounced`. Another:
  after a cleanup generations start again, and the monitor's refresh can come back to the
  status it published last (`routelane_helper.rs:178`);
- the topology of an activation is captured before its prompt; the monitor corrects it
  later (`TopologyFollowed`), and comes back after a transition that failed. A refresh
  that is refused (`privileged.rs:2216`) or has no topology (`degrade_runtime`, 1132) sets
  no wait of its own: unless the selector's deadline or an earlier refresh left one, the
  driver sleeps on a degraded runtime until the kernel changes again. A refresh whose
  `runtime_status` fails shows nothing at all (`routelane_helper.rs:202`): the other
  exception of `TopologyFollowed`, and one of `ChangesAnnounced`;
- when the helper dies once it has committed an activation, its reply dies with it: the
  application is reported as failed but nothing is restored (`service.rs:452`), and the
  new policy stays. The resync that follows tells the daemon (`FailedApplyKeepsPrevious`);
- a switch of a rule names the rule, not the contents it was made in: after another
  client applied other contents the window takes its own profile for applied
  (`session.rs:533`; `docs/superpowers/plans/2026-10-13-practical-ui-ux.md:98`), as it does
  when another client deactivates and applies again, or has other contents saved by an application that then fails. After
  another client's deactivation the window can wait for a snapshot that does not come.
  `desktop_session` therefore has one `base` and the acts `apply`, `refresh` and `orphan`;
- `Busy` leaves out that a status of health `Applying` keeps the window busy
  (`session.rs:148`): a request of the daemon is one step of `DesktopSession`, and the
  daemon answers others with a health it has just computed (`service.rs:939`).
- `follow_runtime` ignores an inactive helper while the daemon has a generation;
- with three failures (a restart of the daemon, drift at its first reconciliation, a helper
  that dies after a cleanup) a reconciliation that read the helper before the cleanup
  brings the plan back for good: `NoRevival` and `HealthyIsTrue` fail. Its root is that of
  `stale_reconcile`. The theorems cover two failures;
- one failure is enough where orphans are recovered: `recover_orphaned_resources` resets
  the gate (`service.rs:773`) while an application that has already passed it waits for
  the lock. If the Inspect of the recovery fails, the application is carried out behind
  the open gate, and a status request whose reconciliation began before it overwrites the
  state with an inactive one. `HealthyIsTrue` fails with four requests; the run has two,
  and the theorems say under which conditions it holds.

### Bounds

`MaxFaults`, `MaxGen`, `MaxChanges`, `MaxActivations`, `MaxCalls`, `MaxCommits`,
`MaxStarts`, `MaxRequests`, `MaxRefreshes`, `MaxUser`, `MaxOther`, `MaxOthers` and
`MaxPlans` bound the runs only; the theorems hold for every value.

- Helper: two faults are a failure and the failure of its repair; three generations a
  plan, its successor and the one a receipt returns to. The layouts contain a lane with
  both families, the same lane without IPv6, and two lanes that swap devices, so that
  routes are shared, replaced and retired.
- Failover: two lanes over two interfaces are a primary and a backup; two changes are a
  failover and a return, or a flap during the wait. `Delay` is 2 ticks where the wait
  matters, so that a wait can be under way, and `MaxWait` above `FirstWait`, so that
  waits can grow and reach their cap.
- Helper service: three calls are two that race and one that prepared what they race
  for; two process starts give the id away once. `Users` are interchangeable in
  every action and property, and the run checks no liveness: they are symmetric. The
  generations that start anew (`hist.anew`) need four commits and two changes to matter to
  `ChangesAnnounced`; TLC met that case with one user, the theorem has no bound.
- Daemon: two requests of two clients and the follower give every pair of tasks that
  can meet at the lock and at the gate; three profiles are one, the same with a rule
  switched, and one that is refused.
- Desktop: an act that is under way and one that overtakes it; each failure and each
  act of others once.
- Traffic: two connections are a lane and its fallback; the profiles have overlapping
  rules of different priority, kind and action, a repeated target, fallbacks in both
  directions, a rule for one application, a lane that blocks, and one cycle, which has
  to be refused. Two plans are a change of plan with flows under way.
- Leftovers: one lane, one lane without IPv6, and two; a failure or crash during the
  cleanup and another one during what takes it up again. The `Defaults` of others are a
  lane's own route, one in the family a lane may lack, and one in a table no plan uses.

`CHECK_DEADLOCK FALSE` is said where the bounds let everybody finish: no request is
left to make, no change to happen.

### Fairness

`HelperTransaction!FairSpec` assumes that a started backend call and a recovery go
on: the helper runs them to the end on one thread, and systemd and D-Bus activation
start it again. `RuntimeFailover!FairSpec` assumes that time passes, a spawned
forwarder starts, the client's call is served, and the driver task is polled when
its channel or timer is ready, which tokio guarantees. `DaemonService!FairSpec` assumes
that a helper call returns, which D-Bus bounds, that a task takes a lock that stays
free (tokio's mutex is fair), and that announcements are delivered; it does not assume
that a lock becomes free, which is what `RequestsAnswered` shows.
`DesktopSession!FairSpec` assumes that the save thread, the main loop and the bridge
thread run on and that the daemon gets to what was sent to it; every wait of the bridge
has a timeout. No fairness is assumed of changes, failures, users or requests.

## Proofs

Each theorem holds for every value of the constants: any number of plans, lanes, users,
clients, requests, changes and failures. Hypotheses a theorem adds are said with it; they
name failures the property does not survive, each listed among the limits above.
Inductive invariants that TLC can evaluate (`RuntimeInv`, `SettlingInv`, `ServiceInv`,
`DesktopInv`, `TrafficInv`, `LeftoverInv`, `KernelInv`) hold as an `INVARIANT` on the instances of the
runs. Named `ASSUME`s of the modules say what the constants are; the runs evaluate them.

`PlanRouting_proofs`: what a plan owns, what each routing step does to the live state, and
what the folds over step lists reach. Induction over finite sets and sequences is had
from well-foundedness of the naturals (`SetInduction`), with the set of instances for
which the claim holds in place of a predicate parameter; `BasisOfAll` and the lemmas on
`StatesAfter` rest on it.

`HelperTransaction_proofs`, on `RoutingWalk`: `WalkReachesNext` (`WalkEndsInNext`), `SharedLanesKeepRouting`
(`SharedLanesStayRouted`) and `StepsAccepted` (what the deadlock check of `routing_walk` shows
on its instance), for all pairs of plans and all unicast defaults the kernel may have
dropped. The lemmas are in `PlanRouting_proofs`, for others to use. The invariant `OnCourse` reads the steps left (`Ahead`, `Finally`): a rule or route
the next plan owns is live with no removal ahead of it, or is added by a step ahead with no
removal behind that; what the next plan does not own has its removal, its flush or its
replacement ahead; and what is ahead of a shared lane spares its rule and its terminal.
`WalkBegins` shows that `transition_steps` followed by `retire_steps` is on course from what
the basis owns, `WalkGoesOn` that each step stays on course. That `ip` accepts each step is
the other half of the order: `Acceptable` says that a rule ahead is not there yet and
comes once, and that a gateway ahead finds a default in its table, or no terminal, or one
that is deleted before it enters (`WalkAcceptable`, `WalkAccepted`).

`HelperTransaction_proofs`, on `HelperTransaction`:

| Theorem | Property | Hypotheses |
|---|---|---|
| `HelperTypes` | `HelperTypeOK` | |
| `CommittedPlan` | `CommittedPlanIsLive`, links dropping in mid-change | `~LateSaves` |
| `JournaledMutations` | `MutationsAreJournaled` | `~LateSaves` |
| `KernelFollowsJournal` | `ControlInv`, `KernelInv` | `~LateSaves` |
| `CleanupRevokes` | `CleanupRevokesGrant` | |
| `MemoryFollowsJournal` | `MemoryMatchesJournal` | `~LateSaves` |
| `GrantIsJournaled` | `ArmedGrantIsJournaled`, refreshes included | `~LateSaves` |
| `GrantWithItsPlan` | `GrantCommitsWithItsPlan` | `~LateSaves`, no refreshes |
| `HelperImplementsRegister` | `ImplementsRegister` (`PlanRegister`) | `~LateSaves` |
| `UpdatesAreGuarded` | `GuardCoversUpdate`, links dropping in mid-change | |
| `InterruptedRecoverable` | `InterruptedJournalRecoverable` in a cleanup, and elsewhere up to the second failure | `~LateSaves`, no link lost in mid-change |
| `SettingsAreAccounted` | `SettingsAccounted`: up to the first failure | `~LateSaves`, no link lost in mid-change |

`CommittedPlanIsLive` speaks of finished journals only, so it says nothing at the points a
commit comes from. `ControlInv` says what each `pc` means for journal and memory, `KernelInv`
what the scripts still to run do to the kernel: after the forward script it carries the new
plan, after a rollback the old one, and the removals a cleanup has ahead take away all
that is left (`RemovesRest`). The refinement needs no more: every step of the helper is a
step of the register or none, and `journal.active`, the unfinished journal and the plans the
kernel carries are the register's value, intent and carried plans. `GuardCoversUpdate` needs
no assumption on saves because it looks at one process only: `StagesInv` says which
commands are left of the forward script, that the document is the previous one or has the
guard until the last of them, and that after the verification only commands are left
that spare the next plan's rules and terminal routes (`Sparing`).

`InterruptedRecoverable` has to know the kernel's state at every command of every script.
`StagedAt` and `UndoneAt` give it for each position of the forward and of the rollback
script, and `ProgressInv` says that the commands left are the rest of such a script from
the position the kernel is at. A rollback starts wherever the transition or an
earlier rollback stopped, and its removals pass through states that are again on record; that is
what takes the removals of a basis half reinstalled, after a second failure, back to
nothing. `DroppedInv` is the same for a cleanup, which meets nothing but its own remains and
drops the table last; it needs no bound on failures. For a transition the bound of two is tight: a
recovery that fails inside the reinstallation which an earlier one began leaves a
part of that part, which no later recovery accepts (see the limits).

`SettingsInv` says of each point where a setting that is on is remembered: in the journal,
in the helper's memory, or among those the transition under way has written (`job.wrote`). A
failed transition repairs the journal before it switches its settings off, so that the
point in between (`"unset"`) is reached with one failure already spent. A link lost in
mid-change leads there without one, hence the hypothesis; a crash there is the second
failure and the limit named above.

`RuntimeFailover_proofs`: `ExitsStayApproved` (`ExitApproved`) and `PublishesCommitted`
(`PublishedIsCommitted`) under all failures; `SettlesOnTopology` (`SettledDecision`) and
`FailbackTakesItsTime` (`FailbackWaited`) for transitions that fail and are undone,
restarts and lost notification sources (`Faults \subseteq {"commit", "restart", "close"}`;
with a replaced device, a failed capture or a failed rollback TLC finds `SettledDecision`
violated, for the reasons in the limits). The first two follow from `RuntimeInv`: the selector
must stand on approved lanes and know each lane by its granted device or not at all
(`SelectorWithin`; the second half because `resume` binds lanes anew in the grant-filtered
topology), lanes on one interface must have been granted one device (`Uniform`), and a
refresh under way must not lose its runtime to an activation that breaks the journal
(`Refreshing`). The other two add `SettlingInv`: a runtime that is not what the
topology asks for has a notification, a snapshot, a retry or a wait under way that is
going to correct it (`AccountedRuntime`).

`HelperService_proofs`: `ServiceTyped`, `PlansKeepCgroups` (`RulesBound`),
`OnlyTheApplication` (`MembersMatch`), `ActivatesWhatItSaw` (`ReplacesSeen`),
`MonitorFollowsTopology` (`TopologyFollowed`) and `ChangesAreTold` (`ChangesAnnounced`),
with no hypotheses. `RulesBound` is not inductive because a recovery has listed its
directories before it removes them: `BoundInv` adds that the list has none of the active
plan, which holds when the backend answered that there is none (generation 0 has no
rules), and ends, recorded in `hist.overlap`, when a plan is committed then. `MatchedInv`
adds that what is about to be moved was found to be the application. `SeenInv` compares the
generation a waiting activation expects with the one in force: it is never larger, and
equal only if no plan came in between. `WatchInv` says who is going to look at a topology
or to announce a status that nobody did yet.

`DaemonService_proofs`: `DaemonTyped` (types, and the mutation lock is held where the code
holds it), `FailuresKeepPolicy` (`FailedApplyKeepsPrevious`), `FirstFailureRevivesNothing`
(`NoRevival` up to the first failure, of whatever kind), `SecondFailureRevivesNothing`
(`NoRevival` up to the second, with no orphans among the `Leftovers`) and
`HealthShownIsTrue` (`HealthyIsTrue` under `Watched`: before the first failure, or up to the
second with no orphans). A reconciliation that has read the
helper knows a state that may be gone: `GateInv` and `KnowsInv` say how the state it would
publish and the one the helper is in can differ, and who is going to correct it;
`UndoInv` that a receipt names the profile its holder replaced. `TruthInv` says that behind
a complete gate the state names the helper's profile whenever it claims to, but for the
moment between a deactivation at the helper and its entry in the state. It needs that no
plan changes while a reconciliation is under way, that is, behind an open gate. `SparedInv`
counts what that takes: with no orphans only a restart of the daemon opens a complete
gate, the first failure, and only a deactivation whose reconciliation failed, the second,
removes a plan behind it.

`DesktopSession_proofs`: `SettledShows` (`SettledShowsDaemon`) when no other client
deactivates (`"deactivate" \notin Others`), `AppliedIs` (`AppliedIsApplied`) when in
addition all clients agree on the profile but for the switch (`OneBase`), and
`DesktopSound`, the invariant behind both. Without either hypothesis TLC finds the property
violated, in the ways the limits name. `DesktopInv` follows a status from the daemon to the window.
`FeedInv`: the stream of a live connection ends in the daemon's status, and nothing on it
is newer. `Introduced`, `Told`: what is said over the current connection comes behind
its announcement and is never newer than the daemon. `Ordered`: requests are carried out and
answered in the order of their ids, and nothing is carried out late behind the answer to
the newest. `Coming`: a window that does not show the daemon has ahead of it a
snapshot, an event or answer after which it asks for one, a request for one, or a
connection about to read one. `Waited`: a request that is waited for is queued, at the
daemon, or answered. `Asking`, `Awaiting` and `Believed`: the answer a window waits
for names what it asked for, and what it believes applied the daemon holds, until the
answer to a deactivation of its own is ahead. The window's part is said of a session and a
message list rather than of the variables, since `Receive` handles a message and may
send a request in one step: each such function of the session has a lemma of its own.

`PolicyTraffic_proofs`: `FlowsKeepTheirLane` (`FlowsStay`) and `OthersRoutesStay`
(`ForeignKept`) follow from `TrafficInv`: which document each stage has rendered (`Rendered`), that flows carry marks
of lanes the authorisation in force gave (`Carried`), and that during a transition no
lane's table has another program's route (`Alone`). `ControlAssumption` says that a
program that sets packet marks of its own does not use a lane's, for setting one takes
`CAP_NET_ADMIN`. Routes of others appear between transitions in this model.

`LeftoverCleanup_proofs`: `LeftoversTyped`, `CleanupCanResume` (`StillCleanable`),
`LeftoversStayOnRecord` (`EvidenceKept`), `ActivationStartsFresh` (`StartsFresh`),
`OnlyDeclaredGoes` (`RemovesDeclared`) and `VerifiedForeignStays` (`ForeignUntouched`), with
no hypotheses. `LeftoverInv` relates the job to the journal it took up (`Records`), the
kernel to what the job has left to remove (`Shares`), and what others added to what the
last verification saw: while removals are on their way, it came later or is a default the
verification took for RouteLane's (`Strange`), which the journal then declares
(`DeclaresAll`); `Undisturbed` is that an interrupted cleanup leaves
one of the states the journal accepts.

### Only model-checked

- Liveness (`InterruptedIsResolved`, `FailsBack`, `RequestsAnswered`, `OperationEnds`), which is
  out of the provers' reach.
- `ProfileMeaning`, `NoEscape` and `HealthyDelivers`: they compare the sorting and folding
  planner, and what its plans do in every stage, with what a profile says, on three profiles.
- `HealthyIsTrue` and `NoRevival` where orphans are recovered among failures: the first
  holds within the bounds of `daemon_service` only (see the limits).
- `SettledShowsDaemon` and `AppliedIsApplied` need the hypotheses of their theorems:
  without them they fail.

## Not modelled

In the modelled parts: `NeedsReauthorization` (boot, namespace or policy mismatch) and
the `unverified` path, a failing restore of a setting outside a legacy cleanup, renamed
devices, routes that stay but are marked linkdown, a clock that runs back, and snapshots
torn between two `ip` calls. `Helper1.RestorePlan` is `HelperTransaction`'s `restore`
and not a call of `HelperService`. Documents, fingerprints and hashes are values that are
equal when the plans they stand for are. The branch of `refresh_runtime_inner` that waits
for a held-back recovery is in the model but never taken: the status call before it has
already replayed the journal.

Not modelled at all: resolver I/O (a resolution is an input of `Compile`, a failed one an
outcome of `Prepare`), parsing of `nft`, `ip`, desktop and configuration files and the
migration of old ones, frames and size limits of the socket, widgets and catalogues, and
argument parsing: pure functions of text, or I/O. `PROJECT.json` lists them with the
components they belong to.

## Plan

1. Done: the modules and theorems above.
2. Theorems next: `ProfileMeaning` for the planner without its sorting.
3. Models next: `NeedsReauthorization` with boots and namespaces in `HelperTransaction`;
   snapshots torn between `ip` calls in `RuntimeFailover`; frames and limits of the socket;
   `DaemonService` and `DesktopSession` composed, so that the second is checked against
   the first and not against what it promises.
