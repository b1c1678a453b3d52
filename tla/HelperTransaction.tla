-------------------------- MODULE HelperTransaction --------------------------
(***************************************************************************)
(* The privileged helper of RouteLane (backend/privileged.rs with           *)
(* backend/transaction.rs): it moves the kernel from one plan to the next   *)
(* through a guarded sequence of nft and ip commands, under a journal that  *)
(* lets a restarted helper find out how far it had come.                    *)
(*                                                                         *)
(* The helper serves one request at a time, so pc is the point its single   *)
(* thread has reached; a crash can hit between any two commands or saves.   *)
(***************************************************************************)
EXTENDS PlanRouting

CONSTANTS
    Strict,             \* devices with strict reverse-path filtering
    Authorities,        \* runtime grants the helper may hold
    NoAuth,             \* no runtime grant
    Requests,           \* the client operations that are issued
    MaxFaults,          \* bound on crashes, failed commands and failed saves
    LateSaves,          \* a failed save may already have replaced the file
    LinkLossInFlight    \* links may drop while a journal is unfinished

AllRequests == {"apply", "restore", "activate", "refresh", "restore_runtime", "cleanup"}

ASSUME StrictAssumption == Strict \subseteq Devices
ASSUME AuthAssumption == NoAuth \notin Authorities
ASSUME RequestsAssumption == Requests \subseteq AllRequests
ASSUME FaultsAssumption == MaxFaults \in Nat
ASSUME SwitchAssumption == LateSaves \in BOOLEAN /\ LinkLossInFlight \in BOOLEAN

VARIABLES
    journal,    \* the persisted StoredAppliedState
    nft,        \* the live inet/routelane table, by the document it renders
    routing,    \* the live routes and rules in RouteLane's reserved ranges
    svm,        \* devices whose src_valid_mark the helper switched on
    mem,        \* the helper's memory: what it believes is committed
    pc,         \* where the request being served stands
    job,        \* the parameters of the transition being served
    todo,       \* kernel commands left of the stage being run
    faults      \* faults injected so far

vars == <<journal, nft, routing, svm, mem, pc, job, todo, faults>>

-----------------------------------------------------------------------------
(* State *)

Grants == Authorities \cup {NoAuth}

\* RestoreReceipt and RuntimeRestoreReceipt
NoReceipt == [failed |-> NoPlan, previous |-> NoPlan]
Receipts == [failed: PlansOrNone, previous: PlansOrNone]
NoUndo == [issuedFor |-> NoPlan, previous |-> NoPlan, auth |-> NoAuth]
Undos == [issuedFor: PlansOrNone, previous: PlansOrNone, auth: Grants]

\* StoredAppliedState; an absent file and the default record are one value.
NoJournal ==
    [active |-> NoPlan, pending |-> NoPlan, lost |-> {}, cleanup |-> FALSE,
     receipt |-> NoReceipt, settings |-> {}, newSettings |-> {},
     auth |-> NoAuth, nextAuth |-> NoAuth, undo |-> NoUndo]
Losses == SUBSET (Families \X Nat)
Journals ==
    [active: PlansOrNone, pending: PlansOrNone, lost: Losses, cleanup: BOOLEAN,
     receipt: Receipts, settings: SUBSET Devices, newSettings: SUBSET Devices,
     auth: Grants, nextAuth: Grants, undo: Undos]

\* The documents nft_document.rs renders. Every document carries the generation
\* and hash of its plans, so two different plans never render the same one.
NoTable == [active |-> NoPlan, pending |-> NoPlan, guard |-> FALSE]
\* Faulty variant: a transaction document without the guard chain.
UnguardedDoc(previous, next) == [active |-> previous, pending |-> next, guard |-> FALSE]
GuardDoc(previous, next) == [active |-> previous, pending |-> next, guard |-> TRUE]
ActivatedDoc(next) == [active |-> next, pending |-> NoPlan, guard |-> TRUE]
CommittedDoc(plan) == [active |-> plan, pending |-> NoPlan, guard |-> FALSE]
Documents == [active: PlansOrNone, pending: PlansOrNone, guard: BOOLEAN]

Memories == [init: BOOLEAN, current: PlansOrNone, settings: SUBSET Devices,
             receipt: Receipts, auth: Grants, undo: Undos]
NoMemory == [init |-> FALSE, current |-> NoPlan, settings |-> {},
             receipt |-> NoReceipt, auth |-> NoAuth, undo |-> NoUndo]

Jobs == [next: PlansOrNone, lost: Losses, receipt: Receipts, keep: Grants,
         auth: Grants, undo: Undos, wrote: SUBSET Devices]
NoJob == [next |-> NoPlan, lost |-> {}, receipt |-> NoReceipt, keep |-> NoAuth,
          auth |-> NoAuth, undo |-> NoUndo, wrote |-> {}]

\* journal_interrupted
Interrupted == journal.pending # NoPlan \/ journal.cleanup

Routes == [fam: Families, tab: Nat, dev: Devices \cup {""}, via: Vias \cup {"unreachable"}]
Points == {"idle", "settings", "forward", "commit", "rollback", "unguard", "repair",
           "withdraw", "unset", "clean", "clear", "recover", "resettle"}

HelperTypeOK ==
    /\ journal \in Journals
    /\ svm \subseteq Devices
    /\ mem \in Memories
    /\ pc \in Points
    /\ job \in Jobs
    /\ faults \in 0..MaxFaults

KernelTypeOK ==
    /\ nft \in Documents
    /\ routing \in [routes: SUBSET Routes, rules: SUBSET [fam: Families, tab: Nat]]

TypeOK == HelperTypeOK /\ KernelTypeOK

Init ==
    /\ journal = NoJournal
    /\ nft = NoTable
    /\ routing = Nothing
    /\ svm = {}
    /\ mem = NoMemory
    /\ pc = "idle"
    /\ job = NoJob
    /\ todo = <<>>
    /\ faults = 0

-----------------------------------------------------------------------------
(* What the helper checks against the live kernel *)

\* verify_persisted_ownership_basis, verify_exact_kernel_basis
ExactlyOwns(plan, lost) ==
    /\ nft = IF plan = NoPlan THEN NoTable ELSE CommittedDoc(plan)
    /\ routing = Own(RoutingBasis(plan, lost))

\* tolerated_lost_unicast: what the kernel dropped, and whether next gives it up.
LostUnicast(plan) ==
    {ft \in LaneFamilies(plan) : /\ HasUnicast(plan, ft[1], ft[2])
                                 /\ Unicast(plan, ft[1], ft[2]) \notin routing.routes}
OwnsFor(plan, next) ==
    /\ ExactlyOwns(plan, LostUnicast(plan))
    /\ \A ft \in LostUnicast(plan) : ~HasUnicast(next, ft[1], ft[2])

\* preflight_plan
Preflight(current, next) ==
    /\ current = NoPlan => nft = NoTable /\ routing = Nothing
    /\ routing.routes \cap Own(next).routes \subseteq Own(current).routes
    /\ routing.rules \cap Own(next).rules \subseteq Own(current).rules

\* verify_cleanup_table_ownership
CleanupOwnership(plan) ==
    /\ Within(routing, Own(plan))
    /\ IF nft = NoTable THEN routing = Nothing ELSE nft = CommittedDoc(plan)

\* Faulty variant: forgets the document a failed rollback leaves without its guard.
PendingOwnershipGuarded(active, pending, lost) ==
    LET basis == RoutingBasis(active, lost)
        prepared == PreparedStates(basis, pending)
        activated == ActivatedStates(basis, pending)
        From(starts) == ReachedFrom(starts, routing, basis, pending)
    IN  \/ nft = CommittedDoc(active) /\ From({Own(basis)})
        \/ nft = NoTable /\ active # NoPlan /\ routing \in AbsentRollbackStates(basis)
        \/ nft = GuardDoc(active, pending) /\ From(prepared)
        \/ nft = ActivatedDoc(pending) /\ From(activated)
        \/ nft = CommittedDoc(pending) /\ From(activated \cup {Own(pending)})

\* verify_pending_table_ownership: the nftables phase that is live, and the
\* routing states an interrupted run can have left in that phase.
PendingOwnership(active, pending, lost) ==
    LET basis == RoutingBasis(active, lost)
        prepared == PreparedStates(basis, pending)
        activated == ActivatedStates(basis, pending)
        From(starts) == ReachedFrom(starts, routing, basis, pending)
    IN  \/ nft = CommittedDoc(active) /\ From({Own(basis)})
        \/ nft = NoTable /\ active # NoPlan /\ routing \in AbsentRollbackStates(basis)
        \/ nft = GuardDoc(active, pending) /\ From(prepared)
        \/ nft = [GuardDoc(active, pending) EXCEPT !.guard = FALSE] /\ From(prepared)
        \/ nft = ActivatedDoc(pending) /\ From(activated)
        \/ nft = CommittedDoc(pending) /\ From(activated \cup {Own(pending)})

-----------------------------------------------------------------------------
(* Kernel commands *)

LoadDoc(doc) == [op |-> "nft", doc |-> doc]
Verify(plan, basis) == [op |-> "verify", plan |-> plan, basis |-> basis]

\* transition_plan after the snapshot: guard, routes, activation, verification,
\* retirement of the previous generation, guard removal.
ForwardScript(previous, next, lost) ==
    LET basis == RoutingBasis(previous, lost)
    IN  <<LoadDoc(GuardDoc(previous, next))>>
        \o TransitionSteps(basis, next)
        \o <<LoadDoc(ActivatedDoc(next)), Verify(next, next)>>
        \o (IF previous = NoPlan THEN <<>> ELSE RetireSteps(basis, next))
        \o <<LoadDoc(CommittedDoc(next))>>

\* CommandKernelRunner::restore: remove the rules and routes of both plans and
\* the table, then install the target anew.
RestoreScript(target, previous, next, lost) ==
    LET basis == RoutingBasis(target, lost)
    IN  RollbackRemovals(previous, next)
        \o (IF nft = NoTable THEN <<>> ELSE <<LoadDoc(NoTable)>>)
        \o (IF target = NoPlan THEN <<>>
            ELSE InstallSteps(basis) \o <<LoadDoc(CommittedDoc(target)), Verify(target, basis)>>)

\* verify_plan_basis
VerifyFails(cmd) ==
    \/ nft.active # cmd.plan
    \/ ~Within(Own(cmd.basis), routing)

Rejected(cmd) ==
    \/ cmd.op \notin {"nft", "verify"} /\ Refused(routing, cmd)
    \/ cmd.op = "verify" /\ VerifyFails(cmd)

Effect(cmd) ==
    /\ nft' = IF cmd.op = "nft" THEN cmd.doc ELSE nft
    /\ routing' = IF cmd.op \in {"nft", "verify"} THEN routing ELSE ApplyRoutingStep(routing, cmd)

-----------------------------------------------------------------------------
(* Faults and saves *)

Fault == faults < MaxFaults /\ faults' = faults + 1

\* FileAppliedStateStore: a save that reports an error left the old file, or,
\* when only the directory sync failed, already replaced it.
SaveFails(record) ==
    /\ Fault
    /\ \/ journal' = journal
       \/ LateSaves /\ journal' = record

\* persist_committed_with_receipt
Committed(plan, receipt, settings, auth, undo) ==
    [NoJournal EXCEPT !.active = plan, !.receipt = receipt, !.settings = settings,
                      !.auth = auth, !.undo = undo]

Goto(point) == pc' = point /\ UNCHANGED <<job, todo>>
Return == pc' = "idle" /\ job' = NoJob /\ todo' = <<>>
Run(point, script) == pc' = point /\ todo' = script /\ UNCHANGED job

-----------------------------------------------------------------------------
(* A transition: transition_with *)

\* Faulty variant: the pending journal already names the new grant as in force.
BeginArmed(next, lost, receipt, keep, auth, undo) ==
    /\ Preflight(mem.current, next)
    /\ journal' = [active |-> mem.current, pending |-> next, lost |-> lost,
                   cleanup |-> FALSE, receipt |-> receipt, settings |-> mem.settings,
                   newSettings |-> {}, auth |-> auth, nextAuth |-> auth, undo |-> mem.undo]
    /\ mem' = [mem EXCEPT !.receipt = NoReceipt]
    /\ pc' = "settings"
    /\ job' = [next |-> next, lost |-> lost, receipt |-> receipt, keep |-> keep,
               auth |-> auth, undo |-> undo, wrote |-> {}]
    /\ UNCHANGED <<todo, faults, nft, routing, svm>>

\* The request is validated; the pending journal is saved before anything else.
Begin(next, lost, receipt, keep, auth, undo) ==
    LET record == [active |-> mem.current, pending |-> next, lost |-> lost,
                   cleanup |-> FALSE, receipt |-> receipt, settings |-> mem.settings,
                   newSettings |-> {}, auth |-> keep, nextAuth |-> auth, undo |-> mem.undo]
    IN  /\ Preflight(mem.current, next)
        /\ \/ /\ journal' = record
              /\ mem' = [mem EXCEPT !.receipt = NoReceipt]
              /\ pc' = "settings"
              /\ job' = [next |-> next, lost |-> lost, receipt |-> receipt, keep |-> keep,
                         auth |-> auth, undo |-> undo, wrote |-> {}]
              /\ UNCHANGED <<todo, faults>>
           \/ SaveFails(record) /\ UNCHANGED <<mem, pc, job, todo>>
        /\ UNCHANGED <<nft, routing, svm>>

\* ensure_interface_settings visits the lanes in order; a lane needs a write when
\* it carries IPv4 on a strict device that is neither owned nor switched on yet.
NeedsWrite(t) ==
    LET lane == job.next.lanes[t]
    IN  /\ lane.via[4] # "none"
        /\ lane.dev \in Strict \ (journal.settings \cup svm)
NextWrite(t) ==
    /\ t \in 1..LaneCount(job.next) /\ NeedsWrite(t)
    /\ \A u \in 1..(t - 1) : ~NeedsWrite(u)

\* Faulty variant: the setting is written first and journaled afterwards.
WriteSettingFirst ==
    /\ pc = "settings"
    /\ \E t \in 1..LaneCount(job.next) :
         /\ NextWrite(t)
         /\ svm' = svm \cup {job.next.lanes[t].dev}
    /\ Goto("settings")
    /\ UNCHANGED <<journal, nft, routing, mem, faults>>

\* The receipt is saved before the setting is written.
JournalSetting ==
    /\ pc = "settings"
    /\ \E t \in 1..LaneCount(job.next) :
         LET d == job.next.lanes[t].dev
             record == [journal EXCEPT !.newSettings = @ \cup {d}]
         IN  /\ NextWrite(t) /\ d \notin journal.newSettings
             /\ \/ /\ journal' = record
                   /\ Goto("settings") /\ UNCHANGED <<svm, faults>>
                \/ /\ SaveFails(record)
                   /\ svm' = svm \ record.newSettings
                   /\ Goto("withdraw")
    /\ UNCHANGED <<nft, routing, mem>>

WriteSetting ==
    /\ pc = "settings"
    /\ \E t \in 1..LaneCount(job.next) :
         LET d == job.next.lanes[t].dev
         IN  /\ NextWrite(t) /\ d \in journal.newSettings
             /\ \/ svm' = svm \cup {d} /\ Goto("settings") /\ UNCHANGED faults
                \/ Fault /\ svm' = svm \ journal.newSettings /\ Goto("withdraw")
    /\ UNCHANGED <<journal, nft, routing, mem>>

\* Every setting is in place: snapshot the kernel and start the stages. A failed
\* snapshot has nothing to roll back.
StartStages ==
    /\ pc = "settings"
    /\ \A t \in 1..LaneCount(job.next) : ~NextWrite(t)
    /\ job' = [job EXCEPT !.wrote = journal.newSettings]
    /\ \/ /\ pc' = "forward" /\ UNCHANGED faults
          /\ todo' = ForwardScript(mem.current, job.next, job.lost)
       \/ Fault /\ pc' = "repair" /\ UNCHANGED todo
    /\ UNCHANGED <<journal, nft, routing, svm, mem>>

RunningPoints == {"forward", "rollback", "clean", "recover"}

Command ==
    /\ pc \in RunningPoints /\ todo # <<>>
    /\ ~Rejected(Head(todo))
    /\ Effect(Head(todo))
    /\ todo' = Tail(todo)
    /\ UNCHANGED <<journal, svm, mem, pc, job, faults>>

StartRollback == Run("rollback", RestoreScript(mem.current, mem.current, job.next, job.lost))

\* Faulty variant: a rollback that fails is taken for one that succeeded.
CommandFailsUnnoticed ==
    /\ pc \in RunningPoints /\ todo # <<>>
    /\ \/ Rejected(Head(todo)) /\ UNCHANGED faults
       \/ Fault
    /\ CASE pc = "forward" -> StartRollback
         [] pc = "rollback" -> Run("withdraw", <<>>)
         [] OTHER -> Return
    /\ UNCHANGED <<journal, nft, routing, svm, mem>>

\* A command fails without effect: run_mutating_stage rolls back; a rollback that
\* fails itself only drops the guard; a failed removal leaves its journal.
CommandFails ==
    /\ pc \in RunningPoints /\ todo # <<>>
    /\ \/ Rejected(Head(todo)) /\ UNCHANGED faults
       \/ Fault
    /\ CASE pc = "forward" -> StartRollback
         [] pc = "rollback" /\ nft.guard -> Run("unguard", <<>>)
         [] OTHER -> Return
    /\ UNCHANGED <<journal, nft, routing, svm, mem>>

\* remove_guard after a failed rollback; the pending journal stays either way.
Unguard ==
    /\ pc = "unguard"
    /\ \/ nft' = [nft EXCEPT !.guard = FALSE] /\ UNCHANGED faults
       \/ Fault /\ UNCHANGED nft
    /\ Return
    /\ UNCHANGED <<journal, routing, svm, mem>>

\* The stages are done: commit only what is exactly the journaled pending state.
CheckForward ==
    /\ pc = "forward" /\ todo = <<>>
    /\ \/ ExactlyOwns(job.next, {}) /\ Goto("commit") /\ UNCHANGED faults
       \/ ~ExactlyOwns(job.next, {}) /\ StartRollback /\ UNCHANGED faults
       \/ Fault /\ StartRollback
    /\ UNCHANGED <<journal, nft, routing, svm, mem>>

\* Faulty variant: the settings written for the new plan are not remembered.
CommitForgettingSettings ==
    LET settings == mem.settings \cup job.wrote
        record == Committed(job.next, job.receipt, settings, job.auth, job.undo)
    IN  /\ pc = "commit"
        /\ \/ /\ journal' = record
              /\ mem' = [mem EXCEPT !.current = job.next,
                                    !.receipt = job.receipt, !.auth = job.auth,
                                    !.undo = job.undo]
              /\ Return /\ UNCHANGED faults
           \/ SaveFails(record) /\ StartRollback /\ UNCHANGED mem
        /\ UNCHANGED <<nft, routing, svm>>

\* Faulty variant: the grant of the previous plan stays in memory.
CommitForgettingGrant ==
    LET settings == mem.settings \cup job.wrote
        record == Committed(job.next, job.receipt, settings, job.auth, job.undo)
    IN  /\ pc = "commit"
        /\ \/ /\ journal' = record
              /\ mem' = [mem EXCEPT !.current = job.next, !.settings = settings,
                                    !.receipt = job.receipt, !.undo = job.undo]
              /\ Return /\ UNCHANGED faults
           \/ SaveFails(record) /\ StartRollback /\ UNCHANGED mem
        /\ UNCHANGED <<nft, routing, svm>>

Commit ==
    LET settings == mem.settings \cup job.wrote
        record == Committed(job.next, job.receipt, settings, job.auth, job.undo)
    IN  /\ pc = "commit"
        /\ \/ /\ journal' = record
              /\ mem' = [mem EXCEPT !.current = job.next, !.settings = settings,
                                    !.receipt = job.receipt, !.auth = job.auth,
                                    !.undo = job.undo]
              /\ Return /\ UNCHANGED faults
           \/ SaveFails(record) /\ StartRollback /\ UNCHANGED mem
        /\ UNCHANGED <<nft, routing, svm>>

\* repair_committed_journal_after_rollback: the previous journal comes back only
\* over exactly the previous kernel state.
CheckRollback ==
    /\ \/ pc = "rollback" /\ todo = <<>>
       \/ pc = "repair"
    /\ IF ExactlyOwns(mem.current, job.lost) THEN Goto("withdraw") ELSE Return
    /\ UNCHANGED <<journal, nft, routing, svm, mem, faults>>

\* persist_committed(previous): on failure the pending journal is retained.
Withdraw ==
    LET record == Committed(mem.current, NoReceipt, mem.settings, job.keep, mem.undo)
    IN  /\ pc = "withdraw"
        /\ \/ journal' = record /\ Goto("unset") /\ UNCHANGED faults
           \/ SaveFails(record) /\ Return
        /\ UNCHANGED <<nft, routing, svm, mem>>

\* restore_setting_receipts of the settings this transition wrote.
Unset ==
    /\ pc = "unset"
    /\ svm' = svm \ job.wrote
    /\ Return
    /\ UNCHANGED <<journal, nft, routing, mem, faults>>

-----------------------------------------------------------------------------
(* Requests *)

Ready(request) == request \in Requests /\ pc = "idle" /\ mem.init /\ ~Interrupted

NextGeneration == mem.current.gen + 1

\* PrivilegedBackend::apply, a newer generation
Apply ==
    /\ Ready("apply") /\ mem.auth = NoAuth
    /\ \E next \in Plans :
         /\ next.gen > mem.current.gen
         /\ OwnsFor(mem.current, next)
         /\ Begin(next, LostUnicast(mem.current), NoReceipt, NoAuth, NoAuth, NoUndo)

\* PrivilegedBackend::apply, the plan that is applied: it only ends a restore.
ApplyAgain ==
    LET record == Committed(mem.current, NoReceipt, mem.settings, mem.auth, mem.undo)
    IN  /\ Ready("apply") /\ mem.auth = NoAuth
        /\ mem.current # NoPlan /\ mem.receipt # NoReceipt
        /\ OwnsFor(mem.current, mem.current)
        /\ \/ /\ journal' = record
              /\ mem' = [mem EXCEPT !.receipt = NoReceipt]
              /\ UNCHANGED faults
           \/ SaveFails(record) /\ UNCHANGED mem
        /\ UNCHANGED <<nft, routing, svm, pc, job, todo>>

\* activate_runtime_inner: the caller's expected generation is the current one.
Activate ==
    /\ Ready("activate")
    /\ \E lanes \in Layouts, auth \in Authorities :
         LET next == [gen |-> NextGeneration, lanes |-> lanes]
             undo == [issuedFor |-> next, previous |-> mem.current, auth |-> mem.auth]
         IN  /\ next \in Plans
             /\ OwnsFor(mem.current, next)
             /\ Begin(next, LostUnicast(mem.current), NoReceipt, mem.auth, auth, undo)

\* refresh_runtime_inner: the armed runtime is taken out of memory while the
\* transition runs, so the previous extras hold no record of it.
Refresh ==
    /\ Ready("refresh") /\ mem.auth # NoAuth /\ mem.current # NoPlan
    /\ \E lanes \in Layouts :
         LET next == [gen |-> NextGeneration, lanes |-> lanes]
         IN  /\ next \in Plans
             /\ OwnsFor(mem.current, next)
             /\ Begin(next, LostUnicast(mem.current), NoReceipt, NoAuth, mem.auth, mem.undo)

\* Faulty variant: the kernel is cleaned without journaling the cleanup first.
CleanupUnjournaled(receipt) ==
    /\ mem' = [mem EXCEPT !.auth = NoAuth, !.undo = NoUndo]
    /\ CleanupOwnership(mem.current)
    /\ UNCHANGED <<journal, faults>>
    /\ pc' = "clean"
    /\ todo' = RestoreScript(NoPlan, mem.current, NoPlan, {})
    /\ job' = [NoJob EXCEPT !.receipt = receipt]
    /\ UNCHANGED <<nft, routing, svm>>

\* Faulty variant: the grant is only forgotten once the cleanup is over.
CleanupKeepingGrant(receipt) ==
    LET record == [NoJournal EXCEPT !.active = mem.current, !.cleanup = TRUE,
                                    !.receipt = receipt, !.settings = mem.settings]
    IN  /\ CleanupOwnership(mem.current)
        /\ journal' = record
        /\ pc' = "clean"
        /\ todo' = RestoreScript(NoPlan, mem.current, NoPlan, {})
        /\ job' = [NoJob EXCEPT !.receipt = receipt]
        /\ UNCHANGED <<nft, routing, svm, mem, faults>>

\* cleanup_with_receipt: authority is revoked in memory before anything else.
CleanupWith(receipt) ==
    LET revoked == [mem EXCEPT !.auth = NoAuth, !.undo = NoUndo]
        record == [NoJournal EXCEPT !.active = mem.current, !.cleanup = TRUE,
                                    !.receipt = receipt, !.settings = mem.settings]
    IN  /\ mem' = revoked
        /\ \/ /\ CleanupOwnership(mem.current)
              /\ journal' = record /\ UNCHANGED faults
              /\ pc' = "clean"
              /\ todo' = RestoreScript(NoPlan, mem.current, NoPlan, {})
              /\ job' = [NoJob EXCEPT !.receipt = receipt]
           \/ /\ \/ SaveFails(record)
                 \/ ~CleanupOwnership(mem.current) /\ UNCHANGED <<journal, faults>>
              /\ UNCHANGED <<pc, job, todo>>
        /\ UNCHANGED <<nft, routing, svm>>

Cleanup == Ready("cleanup") /\ mem.current # NoPlan /\ CleanupWith(NoReceipt)

\* With nothing applied a cleanup only clears the journal.
CleanupNothing ==
    /\ Ready("cleanup") /\ mem.current = NoPlan
    /\ \/ journal' = NoJournal /\ UNCHANGED faults
          /\ mem' = [mem EXCEPT !.auth = NoAuth, !.undo = NoUndo, !.receipt = NoReceipt]
       \/ SaveFails(NoJournal) /\ mem' = [mem EXCEPT !.auth = NoAuth, !.undo = NoUndo]
    /\ UNCHANGED <<nft, routing, svm, pc, job, todo>>

\* Restoring: the settings of the removed plan go back before the journal is cleared.
CleanupSettings ==
    /\ pc = "clean" /\ todo = <<>>
    /\ svm' = svm \ mem.settings
    /\ mem' = [mem EXCEPT !.settings = {}]
    /\ Goto("clear")
    /\ UNCHANGED <<journal, nft, routing, faults>>

Clear ==
    LET record == Committed(NoPlan, job.receipt, {}, NoAuth, NoUndo)
    IN  /\ pc = "clear"
        /\ \/ /\ journal' = record
              /\ mem' = [mem EXCEPT !.current = NoPlan, !.receipt = job.receipt]
              /\ UNCHANGED faults
           \/ SaveFails(record) /\ UNCHANGED mem
        /\ Return
        /\ UNCHANGED <<nft, routing, svm>>

\* PrivilegedBackend::restore of the failed candidate that is applied
Restore ==
    /\ Ready("restore") /\ mem.auth = NoAuth /\ mem.current # NoPlan
    /\ ExactlyOwns(mem.current, {})
    /\ \E previous \in PlansOrNone :
         LET receipt == [failed |-> mem.current, previous |-> previous]
         IN  /\ previous.gen < mem.current.gen
             /\ IF previous = NoPlan
                  THEN CleanupWith(receipt)
                  ELSE Begin(previous, {}, receipt, NoAuth, NoAuth, NoUndo)

\* restore_runtime_inner: the receipt must have been issued for what is applied.
RestoreRuntime ==
    /\ Ready("restore_runtime")
    /\ mem.undo # NoUndo /\ mem.current = mem.undo.issuedFor
    /\ LET next == [mem.undo.previous EXCEPT !.gen = NextGeneration]
       IN  IF mem.undo.previous = NoPlan
             THEN CleanupWith(NoReceipt)
             ELSE /\ next \in Plans
                  /\ OwnsFor(mem.current, next)
                  /\ Begin(next, LostUnicast(mem.current), NoReceipt, mem.auth,
                           mem.undo.auth, NoUndo)

-----------------------------------------------------------------------------
(* Start-up and recovery *)

Loaded ==
    [init |-> TRUE, current |-> journal.active, settings |-> journal.settings,
     receipt |-> journal.receipt, auth |-> journal.auth, undo |-> journal.undo]

\* ensure_inspection_ready and load_runtime: the journal is believed as it stands;
\* the runtime record is only loaded once per process.
Adopt ==
    /\ pc = "idle"
    /\ mem' = IF journal = NoJournal THEN [mem EXCEPT !.init = TRUE]
              ELSE IF mem.init THEN [Loaded EXCEPT !.auth = mem.auth, !.undo = mem.undo]
              ELSE Loaded
    /\ mem' # mem
    /\ UNCHANGED <<journal, nft, routing, svm, pc, job, todo, faults>>

\* ensure_reconciled on a committed journal: it must own the kernel exactly.
Reconcile ==
    /\ pc = "idle" /\ ~mem.init /\ ~Interrupted
    /\ journal.active # NoPlan => ExactlyOwns(journal.active, {})
    /\ mem' = Loaded
    /\ UNCHANGED <<journal, nft, routing, svm, pc, job, todo, faults>>

\* ensure_reconciled on an interrupted journal: finish a cleanup, undo a transition.
Recoverable ==
    IF journal.cleanup THEN CleanupOwnership(journal.active)
    ELSE PendingOwnership(journal.active, journal.pending, journal.lost)

RecoveryTarget == IF journal.cleanup THEN NoPlan ELSE journal.active

Recover ==
    /\ pc = "idle" /\ Interrupted /\ Recoverable
    /\ Run("recover", RestoreScript(RecoveryTarget, journal.active, journal.pending, journal.lost))
    /\ UNCHANGED <<journal, nft, routing, svm, mem, faults>>

\* The transition's settings go back only over exactly the previous kernel state.
CheckRecovery ==
    /\ pc = "recover" /\ todo = <<>>
    /\ \/ /\ journal.cleanup
          /\ svm' = svm \ journal.settings
          /\ Goto("resettle")
       \/ /\ ~journal.cleanup
          /\ IF ExactlyOwns(journal.active, journal.lost)
               THEN svm' = svm \ (journal.newSettings \ journal.settings) /\ Goto("resettle")
               ELSE Return /\ UNCHANGED svm
    /\ UNCHANGED <<journal, nft, routing, mem, faults>>

Resettle ==
    LET record == IF journal.cleanup
                    THEN Committed(NoPlan, journal.receipt, {}, NoAuth, NoUndo)
                    ELSE Committed(journal.active, NoReceipt, journal.settings,
                                   journal.auth, journal.undo)
    IN  /\ pc = "resettle"
        /\ \/ /\ journal' = record
              /\ mem' = [init |-> TRUE, current |-> record.active,
                         settings |-> record.settings, receipt |-> record.receipt,
                         auth |-> record.auth, undo |-> record.undo]
              /\ UNCHANGED faults
           \/ SaveFails(record) /\ UNCHANGED mem
        /\ Return
        /\ UNCHANGED <<nft, routing, svm>>

-----------------------------------------------------------------------------
(* The environment *)

\* The helper process dies and a new one starts; the kernel and the file stay.
Crash ==
    /\ mem # NoMemory \/ pc # "idle"
    /\ Fault
    /\ mem' = NoMemory
    /\ Return
    /\ UNCHANGED <<journal, nft, routing, svm>>

\* Carrier or address loss: the kernel drops a device's unicast defaults.
LinkLoss ==
    /\ LinkLossInFlight \/ (pc = "idle" /\ ~Interrupted)
    /\ \E d \in Devices, f \in Families :
         LET dropped == {r \in routing.routes : r.dev = d /\ r.fam = f}
         IN  /\ dropped # {}
             /\ routing' = [routing EXCEPT !.routes = @ \ dropped]
    /\ UNCHANGED <<journal, nft, svm, mem, pc, job, todo, faults>>

Transition ==
    \/ JournalSetting \/ WriteSetting \/ StartStages \/ Command \/ CommandFails
    \/ Unguard \/ CheckForward \/ Commit \/ CheckRollback \/ Withdraw \/ Unset
    \/ CleanupSettings \/ Clear \/ CheckRecovery \/ Resettle

Request ==
    \/ Apply \/ ApplyAgain \/ Activate \/ Refresh \/ Cleanup \/ CleanupNothing
    \/ Restore \/ RestoreRuntime

Next == Transition \/ Request \/ Adopt \/ Reconcile \/ Recover \/ Crash \/ LinkLoss

Spec == Init /\ [][Next]_vars

-----------------------------------------------------------------------------
(* Properties *)

\* What a plan's presence in the kernel means: its document, all its rules and
\* terminal routes, and no route but its own.
Carries(doc, live, plan) ==
    IF plan = NoPlan THEN doc = NoTable /\ live = Nothing
    ELSE /\ doc = CommittedDoc(plan)
         /\ live \in [routes: SUBSET Own(plan).routes, rules: {Own(plan).rules}]
         /\ \A r \in Own(plan).routes : IsTerminal(r) => r \in live.routes
LivePlan(plan) == Carries(nft, routing, plan)

\* Whenever the journal names a finished transition, the kernel carries exactly
\* the plan it names, up to unicast defaults the kernel dropped on link loss;
\* with no plan named, nothing of RouteLane is left in the kernel.
CommittedPlanIsLive == ~Interrupted => LivePlan(journal.active)

\* A helper that stopped half way, wherever it stopped, left a kernel state that
\* verify_pending_table_ownership or verify_cleanup_table_ownership recognises.
InterruptedJournalRecoverable == pc = "idle" /\ Interrupted => Recoverable

\* While a transition moves forward, traffic is classified without the guard only
\* by a plan whose rules and terminal routes are all installed.
GuardCoversUpdate ==
    pc \in {"forward", "commit"} /\ nft # NoTable /\ ~nft.guard =>
        /\ nft.pending = NoPlan
        /\ Own(nft.active).rules \subseteq routing.rules
        /\ \A r \in Own(nft.active).routes : IsTerminal(r) => r \in routing.routes

\* Between requests, with a finished journal, an initialised helper believes what
\* the journal says about the plan and the settings it owns.
MemoryMatchesJournal ==
    pc = "idle" /\ mem.init /\ ~Interrupted =>
        /\ mem.current = journal.active
        /\ mem.settings = journal.settings

\* Every write to the kernel happens under a journal that names it as unfinished.
MutationsAreJournaled ==
    [][nft' # nft \/ routing'.rules # routing.rules => Interrupted]_vars

\* A grant takes effect only in the save that commits the plan it came with; a
\* recovered or failed activation never leaves its grant behind.
GrantCommitsWithItsPlan ==
    [][journal'.auth \notin {journal.auth, NoAuth} =>
         /\ journal'.auth = journal.nextAuth
         /\ journal'.active = journal.pending /\ journal'.pending = NoPlan]_vars

\* Once a cleanup is journaled, and as long as nothing is applied, no grant is held
\* that a queued refresh could act on.
CleanupRevokesGrant ==
    journal.cleanup \/ journal.active = NoPlan =>
        mem.auth = NoAuth /\ mem.undo = NoUndo

\* After no more than one failure, every src_valid_mark the helper switched on has a
\* journaled receipt, or is being switched off right now.  A crash just then, in
\* the undo of a failed transition, is a second one and leaves it on for good: the
\* journal has already given the receipt up.
SettingsAccounted ==
    pc # "unset" /\ faults < 2 => svm \subseteq journal.settings \cup journal.newSettings

\* Between requests, the grant the helper acts on is in its finished journal.  The
\* repair after a failed refresh leaves a journal without any, since the armed
\* runtime is out of the memory it is written from; a journal with another grant
\* than the one acted on is never left.
ArmedGrantIsJournaled ==
    pc = "idle" /\ mem.init /\ ~Interrupted =>
        \/ mem.auth \in {NoAuth, journal.auth}
        \/ "refresh" \in Requests /\ journal.auth = NoAuth

-----------------------------------------------------------------------------
(* The inductive invariant behind CommittedPlanIsLive *)

\* The points of a transition, from its pending journal to its commit or repair.
TransitionPoints ==
    {"settings", "forward", "commit", "rollback", "unguard", "repair", "withdraw"}

\* What the control point says about the journal and the helper's memory.
ControlInv ==
    /\ pc \in TransitionPoints =>
         /\ journal.pending # NoPlan /\ ~journal.cleanup
         /\ journal.active = mem.current
    /\ pc \in {"clean", "clear"} => journal.cleanup
    /\ pc \in {"recover", "resettle"} => Interrupted
    /\ pc = "unset" => ~Interrupted /\ mem.current = journal.active
    /\ pc = "idle" /\ mem.init /\ ~Interrupted => mem.current = journal.active
    /\ journal.cleanup => journal.pending = NoPlan
    /\ pc \in TransitionPoints \cup {"clean", "clear", "unset"} => mem.init
    /\ ~mem.init => mem.current = NoPlan

\* The commands of a cleanup only remove, and each thing left has its removal ahead.
RemovalCommands(plan) ==
    {DeleteRule(ft[1], ft[2]) : ft \in LaneFamilies(plan)}
    \cup {FlushTable(ft[1], ft[2]) : ft \in LaneFamilies(plan)}
    \cup {LoadDoc(NoTable)}
RemovesRest(script, doc, live, plan) ==
    /\ script \in Seq(RemovalCommands(plan))
    /\ \A r \in live.rules : \E i \in DOMAIN script : script[i] = DeleteRule(r.fam, r.tab)
    /\ \A r \in live.routes : \E i \in DOMAIN script : script[i] = FlushTable(r.fam, r.tab)
    /\ doc # NoTable => \E i \in DOMAIN script : script[i] = LoadDoc(NoTable)

\* A cleanup leaves part of the plan it removes, under that plan's document or none.
PartOf(doc, live, plan) ==
    /\ live \in [routes: SUBSET Own(plan).routes, rules: SUBSET Own(plan).rules]
    /\ doc \in {NoTable, CommittedDoc(plan)}

\* What the kernel carries at each point.
KernelInv ==
    /\ ~Interrupted => LivePlan(journal.active)
    /\ pc = "settings" \/ pc = "withdraw" => LivePlan(mem.current)
    /\ pc = "commit" => LivePlan(job.next)
    /\ pc = "resettle" /\ ~journal.cleanup => LivePlan(journal.active)
    /\ journal.cleanup => PartOf(nft, routing, journal.active)
    /\ pc = "clean" \/ (pc = "recover" /\ journal.cleanup) =>
         RemovesRest(todo, nft, routing, journal.active)
    /\ pc = "clear" \/ (pc = "resettle" /\ journal.cleanup) => LivePlan(NoPlan)

-----------------------------------------------------------------------------
(* The helper implements a register of plans *)

Register == INSTANCE PlanRegister WITH
    Values <- PlansOrNone,
    Empty <- NoPlan,
    value <- journal.active,
    intent <- IF journal.cleanup THEN {NoPlan}
              ELSE {journal.pending} \ {NoPlan},
    carried <- {p \in PlansOrNone : LivePlan(p)}

\* Whatever fails and wherever the helper dies, clients see plans that change all
\* at once.
ImplementsRegister == Register!Spec

-----------------------------------------------------------------------------
(* Liveness *)

\* The helper's own steps are taken; an interrupted journal is retried by the next
\* authorised call or by the monitor's retry timer.
FairSpec == Spec /\ WF_vars(Transition) /\ WF_vars(Recover)

\* An interrupted transition or cleanup is finished or undone.
InterruptedIsResolved == Interrupted ~> ~Interrupted
=============================================================================
