--------------------------- MODULE LeftoverCleanup ---------------------------
(***************************************************************************)
(* The helper removes what it finds but cannot manage: resources without a   *)
(* journal (recover_orphaned) and those of the journals that schema-1 and    *)
(* schema-2 helpers left (cleanup_legacy, cleanup_legacy_v2), in             *)
(* backend/privileged.rs, legacy_journal.rs, legacy_journal_v2.rs and        *)
(* legacy_nft_v2.rs.  Every read, save and command is a step: the helper can *)
(* die after any of them, and others change the reserved tables in between.  *)
(***************************************************************************)
EXTENDS PlanRouting

CONSTANTS
    Leftovers,      \* what the helper may find: see Found
    Disturbances,   \* what others may do meanwhile
    Defaults,       \* default routes of RouteLane's own shape that others may add
    MaxFaults,      \* bound on failures and crashes
    MaxOthers       \* bound on what others do

AllLeftovers == {"orphan", "v1", "v2", "wrapped"}
AllDisturbances ==
    {"route",       \* a route of another program in a reserved table
     "default",     \* one that is shaped exactly like a lane's default route
     "rule",        \* a rule of another program at a reserved priority
     "table",       \* a change of the nftables table
     "link"}        \* a device goes, and its routes with it

ASSUME LeftoverAssumption ==
    /\ Leftovers \subseteq AllLeftovers /\ Disturbances \subseteq AllDisturbances
    /\ {MaxFaults, MaxOthers} \subseteq Nat
    /\ Defaults \subseteq [fam: Families, tab: Nat, dev: Devices, via: Vias \ {"none"}]

VARIABLES
    journal,    \* the file of FileAppliedStateStore
    mem,        \* initialized, and the legacy record in memory
    kern,       \* RouteLane's nftables table, routes, rules, src_valid_mark settings
    foreign,    \* what others added to reserved tables and priorities
    job,        \* the call that holds the backend
    used,       \* bounds
    hist        \* history: touched, whether others interfered; fresh, what they
                \* added since the last verification; owed, whether ownership was on
                \* record; gone, the devices lost; reported, a restore that failed

vars == <<journal, mem, kern, foreign, job, used, hist>>

-----------------------------------------------------------------------------
(* Documents, journals and memory *)

\* A table as a helper of some schema renders it; "other" once it was changed.
Doc(by, active, pending, guard) ==
    [by |-> by, active |-> active, pending |-> pending, guard |-> guard]
NoTable == Doc("none", NoPlan, NoPlan, FALSE)
Altered == Doc("other", NoPlan, NoPlan, FALSE)

\* StoredAppliedState: the envelope of one kind of ownership; for an orphan
\* journal the document and the routing it owns.
NoJournal ==
    [kind |-> "none", active |-> NoPlan, pending |-> NoPlan, lost |-> {}, cleanup |-> FALSE,
     inner |-> NoPlan, settings |-> {}, doc |-> NoTable, routing |-> Nothing]
OrphanJournal(own) ==
    [NoJournal EXCEPT !.kind = "orphan", !.doc = own.doc, !.routing = own.routing]
\* LegacyJournalV1, LegacyJournalV2 (inner: a schema-1 record it carries)
JournalV1(active, pending) ==
    [NoJournal EXCEPT !.kind = "v1", !.active = active, !.pending = pending]
JournalV2(active, pending, lost, settings) ==
    [NoJournal EXCEPT !.kind = "v2", !.active = active, !.pending = pending, !.lost = lost,
                      !.settings = settings]
Legacy(j) == j.kind \in {"v1", "v2"}

\* LegacyPlanV1::ownership: no terminal routes, and rules for usable families.
OwnV1(plan) ==
    LET usable == {x \in LaneFamilies(plan) : HasUnicast(plan, x[1], x[2])}
    IN  [routes |-> {Unicast(plan, x[1], x[2]) : x \in usable},
         rules |-> {Rule(x[1], x[2]) : x \in usable}]

NoMemory == [init |-> FALSE, record |-> NoJournal]
NoOwn == [doc |-> NoTable, routing |-> Nothing]
NoJob == [op |-> "none", pc |-> "idle", then |-> "end", own |-> NoOwn, todo |-> <<>>]
Idle == job = NoJob

-----------------------------------------------------------------------------
(* What is live *)

\* An entry of another program: a route, a rule, a changed table; or a default.
Stranger(what, f, t) == [what |-> what, fam |-> f, tab |-> t, dev |-> "", via |-> "none"]
Default(r) == [what |-> "default", fam |-> r.fam, tab |-> r.tab, dev |-> r.dev, via |-> r.via]
RouteOf(x) == [fam |-> x.fam, tab |-> x.tab, dev |-> x.dev, via |-> x.via]

\* live_routing_ownership: live_unicast_route goes by the shape of a route, so
\* a default of another program counts as RouteLane's.
Claimed == {RouteOf(x) : x \in {y \in foreign : y.what = "default"}}
Seen == [routes |-> kern.routing.routes \cup Claimed, rules |-> kern.routing.rules]
Empty == kern.doc = NoTable /\ Seen = Nothing

\* Faulty variant: only the rules are checked, and not the routes.
ReadableRules(fams) == \A x \in foreign : x.what = "rule" => x.fam \notin fams
\* collect_live_routes and collect_live_rules: a route of another shape in a
\* reserved table is an error, and so is such a rule at a reserved priority.
Readable(fams) == \A x \in foreign : x.what \in {"route", "rule"} => x.fam \notin fams

\* validate_orphan_nft_document: the complete sealed table without a guard, or
\* the schema-1 layout.
OrphanDocOK(doc) == doc = NoTable \/ (doc.by \in {"v3", "v1"} /\ ~doc.guard)
\* validate_orphan_routing: one rule, and one route of a kind, in a table.
OrphanRoutingOK(live) ==
    \A r, q \in live.routes :
        r.fam = q.fam /\ r.tab = q.tab /\ IsTerminal(r) = IsTerminal(q) => r = q
\* capture_verified_orphaned_ownership
Orphaned ==
    /\ Readable(Families) /\ OrphanRoutingOK(Seen) /\ OrphanDocOK(kern.doc)
    /\ kern.doc = NoTable => Seen = Nothing

\* resume_orphan_cleanup: the live table is the recorded one, and the live
\* routing a part of what is recorded.  The faulty variant expects all of it.
ResumableExact(j) ==
    /\ Readable(Families) /\ Seen = j.routing /\ kern.doc = j.doc
Resumable(j) ==
    /\ Readable(Families)
    /\ IF kern.doc = NoTable THEN Seen = Nothing ELSE kern.doc = j.doc
    /\ Within(Seen, j.routing)

\* cleanup_legacy's verify: exact, or what a cleanup can have left.
LiveV1(j, exact) ==
    /\ Readable(Families)
    /\ IF exact THEN Seen = OwnV1(j.active) ELSE Within(Seen, OwnV1(j.active))
    /\ IF kern.doc = NoTable THEN Seen = Nothing /\ ~exact
       ELSE kern.doc = Doc("v1", j.active, NoPlan, FALSE)

\* verify_legacy_v2_live: the phase the table is in, and the routing that an
\* interrupted transition, its rollback or this cleanup can have left there.
ExpectedV2(j, doc, routing) ==
    LET basis == RoutingBasis(j.active, j.lost)
        from(starts, previous, next) == ReachedFrom(starts, routing, previous, next)
        is(d) == doc = d
        prepared == PreparedStates(basis, j.pending)
        activated == ActivatedStates(basis, j.pending)
        absent == AbsentRollbackStates(basis)
        both(guard) == Doc("v2", j.active, j.pending, guard)
        transition ==
            \/ is(Doc("v2", j.active, NoPlan, FALSE)) /\ from({Own(basis)}, basis, j.pending)
            \/ is(NoTable) /\ (routing \in absent \/ (j.cleanup /\ from(absent, basis, j.pending)))
            \/ (is(both(TRUE)) \/ is(both(FALSE))) /\ from(prepared, basis, j.pending)
            \/ is(Doc("v2", j.pending, NoPlan, TRUE)) /\ from(activated, basis, j.pending)
            \/ /\ is(Doc("v2", j.pending, NoPlan, FALSE))
               /\ from(activated \cup {Own(j.pending)}, basis, j.pending)
        committed ==
            /\ is(Doc("v2", j.active, NoPlan, FALSE))
            /\ routing = Own(j.active) \/ (j.cleanup /\ from({Own(j.active)}, NoPlan, j.active))
    IN  \/ j.cleanup /\ doc = NoTable /\ routing = Nothing
        \/ j.pending # NoPlan /\ transition
        \/ j.pending = NoPlan /\ j.active # NoPlan /\ committed
LiveV2(j) == Readable(Families) /\ ExpectedV2(j, kern.doc, Seen)

\* The interface of every lane is the device the plan was made for.
Devs(plan) == {plan.lanes[t].dev : t \in 1..LaneCount(plan)}
IdentitiesHold(j) == \A dev \in Devs(j.active) \cup Devs(j.pending) : dev \notin hist.gone

-----------------------------------------------------------------------------
(* The steps of a call *)

Goto(pc) == job' = [job EXCEPT !.pc = pc]
Refuse == job' = NoJob
Verified == hist' = [hist EXCEPT !.fresh = {}]

\* The file is replaced, or the call ends with an error; the rename can have
\* happened although save reports one.
Save(j, memory, next) ==
    \/ /\ journal' = j /\ mem' = memory /\ job' = next
       /\ hist' = [hist EXCEPT !.owed = @ \/ j.kind # "none"]
       /\ UNCHANGED used
    \/ /\ used.faults < MaxFaults
       /\ used' = [used EXCEPT !.faults = @ + 1]
       /\ journal' \in {journal, j} /\ Refuse
       /\ hist' = [hist EXCEPT !.owed = @ \/ journal'.kind # "none"]
       /\ UNCHANGED mem

\* run_routing_step: before a rule is deleted the routes and the rules of its
\* family are read (live_family_ownership); a flush takes with it whatever is in
\* the table.
StepReads(step) == step.op = "delrule" => Readable({step.rule.fam})
Flushed(step) ==
    IF step.op = "flush"
    THEN {x \in foreign : ~(x.what \in {"route", "default"} /\ x.fam = step.fam /\ x.tab = step.tab)}
    ELSE foreign
Removed(step) ==
    /\ kern' = [kern EXCEPT !.routing = ApplyRoutingStep(@, step)]
    /\ foreign' = Flushed(step)
DropTable ==
    /\ kern' = [kern EXCEPT !.doc = NoTable]
    /\ foreign' = {x \in foreign : x.what # "table"}

\* ensure_inspection_ready: a legacy record is taken into memory.
Adopted ==
    [init |-> TRUE,
     record |-> IF Legacy(journal) THEN journal
                ELSE IF journal.kind = "none" THEN mem.record ELSE NoJournal]
\* ensure_reconciled of an initialized helper reads nothing but interruptions.
Reconciled == IF mem.init THEN mem ELSE Adopted

Begin(op, pc, then) ==
    job' = [NoJob EXCEPT !.op = op, !.pc = pc, !.then = then]
Still == UNCHANGED <<journal, kern, foreign, used, hist>>

-----------------------------------------------------------------------------
(* Calls *)

\* inspect adopts and changes nothing.
Inspect ==
    /\ Idle /\ mem' = Adopted /\ mem' # mem
    /\ UNCHANGED job /\ Still

\* cleanup, authorized: an orphan cleanup is resumed first.
Cleanup ==
    /\ Idle /\ mem' = Adopted
    /\ CASE journal.kind = "orphan" -> Begin("orphan", "load", "forget")
         [] mem'.record.kind = "v2" -> Begin("v2", "check", "end")
         [] mem'.record.kind = "v1" -> Begin("v1", "check", "end")
         [] OTHER -> Begin("none", "clear", "end")
    /\ Still

\* recover_orphaned, authorized; validated state must use cleanup.
Recover ==
    /\ Idle
    /\ \/ /\ journal.kind = "orphan" /\ Begin("orphan", "load", "capture")
          /\ UNCHANGED mem
       \/ /\ journal.kind # "orphan" /\ mem' = Reconciled
          /\ IF Legacy(mem'.record) THEN UNCHANGED job ELSE Begin("orphan", "capture", "end")
    /\ Still

\* refresh_runtime and runtime_status, without authorization: they resume an
\* orphan cleanup that is on record.
Refresh ==
    /\ Idle /\ mem' = Reconciled
    /\ IF journal.kind = "orphan" THEN Begin("orphan", "load", "end") ELSE UNCHANGED job
    /\ <<mem', job'>> # <<mem, job>>
    /\ Still

\* Faulty variant: an initialized helper trusts its memory of the journal.
ActivateFromMemory ==
    /\ Idle /\ mem' = Reconciled
    /\ IF journal.kind = "orphan" /\ ~mem.init THEN Begin("orphan", "load", "activate")
       ELSE Begin("none", "activate", "end")
    /\ Still
\* apply and activate_runtime; what follows is HelperTransaction's.
Activate ==
    /\ Idle /\ mem' = Reconciled
    /\ IF journal.kind = "orphan" THEN Begin("orphan", "load", "activate")
       ELSE Begin("none", "activate", "end")
    /\ Still
\* refuse_legacy_activation and the preflight; a new plan needs clean tables.
Activates ==
    /\ job.pc = "activate"
    /\ Refuse
    /\ used' = [used EXCEPT !.done = ~Legacy(mem.record) /\ Empty /\ Readable(Families)]
    /\ UNCHANGED <<journal, mem, kern, foreign, hist>>

-----------------------------------------------------------------------------
(* Orphaned resources *)

Capture ==
    /\ job.pc = "capture" /\ Verified
    /\ \/ ~Orphaned /\ Refuse
       \/ Orphaned /\ Empty /\ Refuse
       \/ /\ Orphaned /\ ~Empty
          /\ job' = [job EXCEPT !.pc = "record",
                                !.own = [doc |-> kern.doc, routing |-> Seen]]
    /\ UNCHANGED <<journal, mem, kern, foreign, used>>
\* Faulty variant: the removals begin before the ownership is on record.
RecordLater ==
    /\ job.pc = "record" /\ Goto("run")
    /\ UNCHANGED <<journal, mem, kern, foreign, used, hist>>
Record ==
    /\ job.pc = "record"
    /\ Save(OrphanJournal(job.own), mem, [job EXCEPT !.pc = "load"])
    /\ UNCHANGED <<kern, foreign>>

Load ==
    /\ job.op = "orphan" /\ job.pc = "load" /\ Verified
    /\ IF Resumable(journal)
       THEN job' = [job EXCEPT !.pc = "note",
                               !.own = [doc |-> kern.doc, routing |-> Seen]]
       ELSE Refuse
    /\ UNCHANGED <<journal, mem, kern, foreign, used>>
\* The remaining ownership is saved before the first and after every removal.
Note ==
    /\ job.pc = "note"
    /\ Save(OrphanJournal(job.own), mem, [job EXCEPT !.pc = "run"])
    /\ UNCHANGED <<kern, foreign>>

\* Rules first, then tables, then the nftables table if it is still the same.
RemoveOrphan ==
    LET own == job.own.routing
        rule == CHOOSE r \in own.rules : TRUE
        route == CHOOSE r \in own.routes : TRUE
        step == IF own.rules # {} THEN DeleteRule(rule.fam, rule.tab)
                ELSE FlushTable(route.fam, route.tab)
    IN  /\ job.op = "orphan" /\ job.pc = "run"
        /\ IF own # Nothing
           THEN /\ Removed(step)
                /\ job' = [job EXCEPT !.pc = "note", !.own.routing = ApplyRoutingStep(@, step)]
           ELSE /\ UNCHANGED <<kern, foreign>>
                /\ IF job.own.doc = NoTable THEN Goto("final")
                   ELSE IF kern.doc = job.own.doc THEN Goto("drop") ELSE Refuse
        /\ UNCHANGED <<journal, mem, used, hist>>
DropOrphan ==
    /\ job.op = "orphan" /\ job.pc = "drop"
    /\ DropTable
    /\ job' = [job EXCEPT !.pc = "note", !.own.doc = NoTable]
    /\ UNCHANGED <<journal, mem, used, hist>>

-----------------------------------------------------------------------------
(* Schema 1 *)

Steps(own) ==
    SetToSeq({DeleteRule(r.fam, r.tab) : r \in own.rules})
        \o SetToSeq({FlushTable(r.fam, r.tab) : r \in own.routes})

\* Faulty variant: a record that is marked already is taken for cleaned up.
CheckV1Marked ==
    LET r == mem.record
    IN  /\ job.op = "v1" /\ job.pc = "check" /\ Verified
        /\ IF r.pending # NoPlan THEN Refuse
           ELSE IF r.active = NoPlan \/ r.cleanup THEN Goto("clear")
           ELSE IF LiveV1(r, TRUE) THEN job' = [job EXCEPT !.pc = "intent", !.own.doc = kern.doc]
           ELSE Refuse
        /\ UNCHANGED <<journal, mem, kern, foreign, used>>
\* An interrupted schema-1 transaction is left alone.
CheckV1 ==
    LET r == mem.record
    IN  /\ job.op = "v1" /\ job.pc = "check" /\ Verified
        /\ IF r.pending # NoPlan THEN Refuse
           ELSE IF r.active = NoPlan THEN Goto("clear")
           ELSE IF LiveV1(r, ~r.cleanup) THEN job' = [job EXCEPT !.pc = "intent", !.own.doc = kern.doc]
           ELSE Refuse
        /\ UNCHANGED <<journal, mem, kern, foreign, used>>
\* The record in memory keeps its old mark.
IntentV1 ==
    /\ job.op = "v1" /\ job.pc = "intent"
    /\ Save([mem.record EXCEPT !.cleanup = TRUE], mem,
            [job EXCEPT !.pc = "run", !.todo = Steps(OwnV1(mem.record.active))])
    /\ UNCHANGED <<kern, foreign>>
RemoveV1 ==
    /\ job.op = "v1" /\ job.pc = "run" /\ job.todo # <<>>
    /\ IF StepReads(Head(job.todo))
       THEN Removed(Head(job.todo)) /\ job' = [job EXCEPT !.todo = Tail(@)]
       ELSE Refuse /\ UNCHANGED <<kern, foreign>>
    /\ UNCHANGED <<journal, mem, used, hist>>
\* A table that was there before the removals is verified again.
VerifyV1 ==
    /\ job.op = "v1" /\ job.pc = "run" /\ job.todo = <<>>
    /\ IF job.own.doc = NoTable THEN Goto("final") /\ UNCHANGED hist
       ELSE /\ Verified
            /\ IF ~LiveV1(mem.record, FALSE) THEN Refuse
               ELSE Goto(IF kern.doc = NoTable THEN "final" ELSE "drop")
    /\ UNCHANGED <<journal, mem, kern, foreign, used>>

-----------------------------------------------------------------------------
(* Schema 2 *)

\* A schema-1 record inside becomes a journal of its own.
Unwrap ==
    LET v1 == JournalV1(mem.record.inner, NoPlan)
    IN  /\ job.op = "v2" /\ job.pc = "check" /\ mem.record.inner # NoPlan
        /\ Save(v1, [mem EXCEPT !.record = v1], [job EXCEPT !.op = "v1"])
        /\ UNCHANGED <<kern, foreign>>
CheckV2 ==
    /\ job.op = "v2" /\ job.pc = "check" /\ mem.record.inner = NoPlan /\ Verified
    /\ IF IdentitiesHold(mem.record) /\ LiveV2(mem.record) THEN Goto("intent") ELSE Refuse
    /\ UNCHANGED <<journal, mem, kern, foreign, used>>
\* "This intent precedes every deletion."
IntentV2 ==
    LET r == [mem.record EXCEPT !.cleanup = TRUE]
    IN  /\ job.op = "v2" /\ job.pc = "intent"
        /\ Save(r, [mem EXCEPT !.record = r],
                [job EXCEPT !.pc = "verify", !.todo = RollbackRemovals(r.active, r.pending)])
        /\ UNCHANGED <<kern, foreign>>
\* The ownership is verified again before every removal.
VerifyV2 ==
    /\ job.op = "v2" /\ job.pc = "verify" /\ Verified
    /\ IF ~LiveV2(mem.record) THEN Refuse
       ELSE Goto(IF job.todo # <<>> THEN "run" ELSE IF kern.doc = NoTable THEN "final" ELSE "drop")
    /\ UNCHANGED <<journal, mem, kern, foreign, used>>
RemoveV2 ==
    /\ job.op = "v2" /\ job.pc = "run"
    /\ IF StepReads(Head(job.todo))
       THEN Removed(Head(job.todo)) /\ job' = [job EXCEPT !.pc = "verify", !.todo = Tail(@)]
       ELSE Refuse /\ UNCHANGED <<kern, foreign>>
    /\ UNCHANGED <<journal, mem, used, hist>>

-----------------------------------------------------------------------------
(* The end of a cleanup *)

DropLegacy ==
    /\ job.op \in {"v1", "v2"} /\ job.pc = "drop"
    /\ DropTable /\ Goto("final")
    /\ UNCHANGED <<journal, mem, used, hist>>
\* verify_exact_kernel_state(None): nothing reserved is left.
Final ==
    /\ job.pc = "final" /\ Verified
    /\ IF ~Empty \/ ~Readable(Families) THEN Refuse
       ELSE Goto(IF job.op = "v2" THEN "settle" ELSE "clear")
    /\ UNCHANGED <<journal, mem, kern, foreign, used>>
\* restore_setting_receipts: a write that fails is reported, and nothing more.
Settle ==
    /\ job.pc = "settle" /\ Goto("clear")
    /\ \/ /\ kern' = [kern EXCEPT !.svm = @ \ mem.record.settings]
          /\ UNCHANGED <<used, hist>>
       \/ /\ kern.svm # {} /\ used.faults < MaxFaults
          /\ used' = [used EXCEPT !.faults = @ + 1]
          /\ hist' = [hist EXCEPT !.reported = TRUE]
          /\ UNCHANGED kern
    /\ UNCHANGED <<journal, mem, foreign>>
\* store.clear; a resumed call goes on with what it was about.
Clear ==
    LET after == IF job.then \in {"capture", "activate"} THEN [job EXCEPT !.pc = job.then, !.then = "end"]
                 ELSE NoJob
    IN  /\ job.pc = "clear"
        /\ Save(NoJournal, [init |-> TRUE, record |-> NoJournal], after)
        /\ UNCHANGED <<kern, foreign>>

-----------------------------------------------------------------------------
(* Failures, and what others do *)

Fault == used.faults < MaxFaults /\ used' = [used EXCEPT !.faults = @ + 1]
\* A command fails or a read does: the call ends.
CommandFails ==
    /\ ~Idle /\ Fault /\ Refuse
    /\ UNCHANGED <<journal, mem, kern, foreign, hist>>
Crash ==
    /\ Fault /\ job' = NoJob /\ mem' = NoMemory
    /\ <<mem', job'>> # <<mem, job>>
    /\ UNCHANGED <<journal, kern, foreign, hist>>

Other(what) ==
    /\ what \in Disturbances /\ used.others < MaxOthers
    /\ used' = [used EXCEPT !.others = @ + 1]
    /\ \/ /\ what \in {"route", "rule"}
          /\ \E f \in Families :
                LET x == Stranger(what, f, 1)
                IN  /\ foreign' = foreign \cup {x}
                    /\ hist' = [hist EXCEPT !.touched = TRUE, !.fresh = @ \cup {x}]
          /\ UNCHANGED kern
       \/ /\ what = "default"
          /\ \E r \in Defaults \ Seen.routes :
                /\ r.dev \notin hist.gone
                /\ foreign' = foreign \cup {Default(r)}
                /\ hist' = [hist EXCEPT !.touched = TRUE, !.fresh = @ \cup {Default(r)}]
          /\ UNCHANGED kern
       \/ /\ what = "table" /\ kern.doc # NoTable
          /\ LET x == Stranger(what, 0, 0)
             IN  /\ foreign' = foreign \cup {x}
                 /\ hist' = [hist EXCEPT !.touched = TRUE, !.fresh = @ \cup {x}]
          /\ kern' = [kern EXCEPT !.doc = Altered]
       \/ /\ what = "link"
          /\ \E dev \in Devices \ hist.gone :
                /\ kern' = [kern EXCEPT !.routing.routes = {r \in @ : r.dev # dev}]
                /\ foreign' = {x \in foreign : x.dev # dev}
                /\ hist' = [hist EXCEPT !.touched = TRUE, !.gone = @ \cup {dev}]
    /\ UNCHANGED <<journal, mem, job>>
\* What others added can be removed by hand.
Undo ==
    /\ foreign # {} /\ \A x \in foreign : x.what # "table"
    /\ foreign' = {}
    /\ hist' = [hist EXCEPT !.fresh = {}]
    /\ UNCHANGED <<journal, mem, kern, job, used>>

-----------------------------------------------------------------------------
\* The states a schema-2 helper can have left of a transition: on its way, on
\* its way back, and back without a table.
LeftByV2(active, pending) ==
    LET prepared == PreparedStates(active, pending)
        activated == ActivatedStates(active, pending)
        back(starts) == UNION {StatesAlong(x, RollbackRemovals(active, pending)) : x \in starts}
    IN  {<<Doc("v2", active, pending, TRUE), x>> : x \in back(prepared)}
        \cup {<<Doc("v2", pending, NoPlan, TRUE), x>> : x \in back(activated)}
        \cup {<<Doc("v2", pending, NoPlan, FALSE), x>> : x \in back(activated)}
        \cup {<<NoTable, x>> : x \in AbsentRollbackStates(active)}
        \cup {<<IF active = NoPlan THEN NoTable ELSE Doc("v2", active, NoPlan, FALSE), Own(active)>>}

\* What the helper finds when it starts: a journal, a table and routing.
First == {p \in Plans : p.gen = 1}
OrphansOf(p) ==
    {<<NoJournal, doc, r>> : doc \in {Doc("v3", p, NoPlan, g) : g \in BOOLEAN} \cup {Altered, NoTable},
                             r \in StatesAlong(Own(p), RollbackRemovals(NoPlan, p))}
WithoutJournal(p) == OrphansOf(p) \cup {<<NoJournal, Doc("v1", p, NoPlan, FALSE), OwnV1(p)>>}
FoundV1 ==
    {<<JournalV1(p, NoPlan), Doc("v1", p, NoPlan, FALSE), OwnV1(p)>> : p \in First}
    \cup {<<JournalV1(p, p), Doc("v1", p, NoPlan, FALSE), OwnV1(p)>> : p \in First}
    \cup {<<JournalV1(NoPlan, NoPlan), NoTable, Nothing>>}
Committed == {<<JournalV2(p, NoPlan, {}, Devices), Doc("v2", p, NoPlan, FALSE), Own(p)>> : p \in First}
Moves == {z \in (First \cup {NoPlan}) \X Plans : z[2].gen = z[1].gen + 1}
Moving(a, b) == {<<JournalV2(a, b, {}, {}), y[1], y[2]>> : y \in LeftByV2(a, b)}
Wrapping == {<<[JournalV2(NoPlan, NoPlan, {}, {}) EXCEPT !.inner = p], Doc("v1", p, NoPlan, FALSE), OwnV1(p)>>
               : p \in First}
Found ==
    (IF "orphan" \in Leftovers THEN UNION {WithoutJournal(p) : p \in First} ELSE {})
    \cup (IF "v1" \in Leftovers THEN FoundV1 ELSE {})
    \cup (IF "v2" \in Leftovers THEN Committed \cup UNION {Moving(z[1], z[2]) : z \in Moves} ELSE {})
    \cup (IF "wrapped" \in Leftovers THEN Wrapping ELSE {})

Init ==
    \E x \in Found :
        /\ journal = x[1] /\ mem = NoMemory /\ job = NoJob
        /\ kern = [doc |-> x[2], routing |-> x[3], svm |-> x[1].settings]
        /\ foreign = IF x[2] = Altered THEN {Stranger("table", 0, 0)} ELSE {}
        /\ used = [faults |-> 0, others |-> 0, done |-> FALSE]
        /\ hist = [touched |-> x[2] = Altered, fresh |-> {}, gone |-> {},
                   owed |-> x[1].kind # "none", reported |-> FALSE]

Helper ==
    \/ Activates \/ Capture \/ Record \/ Load \/ Note \/ RemoveOrphan \/ DropOrphan
    \/ CheckV1 \/ IntentV1 \/ RemoveV1 \/ VerifyV1
    \/ Unwrap \/ CheckV2 \/ IntentV2 \/ VerifyV2 \/ RemoveV2
    \/ DropLegacy \/ Final \/ Settle \/ Clear
\* A plan is being activated: the rest is HelperTransaction's.
HandedOver == used.done /\ UNCHANGED vars
Next ==
    \/ /\ ~used.done
       /\ \/ Inspect \/ Cleanup \/ Recover \/ Refresh \/ Activate
          \/ Helper
          \/ CommandFails \/ Crash \/ Undo
          \/ \E what \in Disturbances : Other(what)
    \/ HandedOver

Spec == Init /\ [][Next]_vars

-----------------------------------------------------------------------------
(* Properties *)

\* Type correctness: a job names its removals, and only an orphan journal
\* carries the ownership it captured.
LeftoverTypeOK ==
    /\ journal.kind \in {"none", "orphan", "v1", "v2"}
    /\ journal.kind # "orphan" => journal.doc = NoTable /\ journal.routing = Nothing
    /\ mem.record.kind \in {"none", "v1", "v2"} /\ mem.init \in BOOLEAN
    /\ mem.record.kind # "none" => mem.init
    /\ job.op = "none" => job.pc \in {"idle", "clear", "activate"}
    /\ job.op \in {"v1", "v2"} => job.op = mem.record.kind
    /\ job.todo # <<>> => job.pc \in {"run", "verify"}
    /\ kern.svm \subseteq Devices

\* An interrupted cleanup can be taken up again: whatever call failed or died
\* where, as long as nobody else interfered the journal on disk accepts what is
\* live (resume_orphan_cleanup, cleanup_legacy, verify_legacy_v2_live).
StillCleanable ==
    Idle /\ ~hist.touched =>
        CASE journal.kind = "orphan" -> Resumable(journal)
          [] journal.kind = "v1" ->
               journal.pending # NoPlan \/ journal.active = NoPlan \/ LiveV1(journal, ~journal.cleanup)
          [] journal.kind = "v2" ->
               IF journal.inner # NoPlan THEN LiveV1(JournalV1(journal.inner, NoPlan), TRUE)
               ELSE LiveV2(journal)
          [] OTHER -> TRUE

\* Once ownership is on record it stays on record until the table, the routing
\* and the settings are gone: no failure makes the helper forget leftovers.
EvidenceKept ==
    hist.owed /\ journal.kind = "none" =>
        kern.doc = NoTable /\ kern.routing = Nothing /\ (kern.svm = {} \/ hist.reported)

\* A plan is activated only after every record of leftovers is gone from the
\* disk: the activation's first save would replace what is still owed.
StartsFresh == used.done => journal.kind = "none" /\ kern.doc = NoTable

\* Every removal is of something the journal on disk already declares for
\* removal: an orphan journal that names it, or a legacy record marked for
\* cleanup that owns it.
Declared ==
    CASE journal.kind = "orphan" -> journal.routing
      [] journal.kind = "v1" /\ journal.cleanup -> OwnV1(journal.active)
      [] journal.kind = "v2" /\ journal.cleanup ->
           [routes |-> Own(journal.active).routes \cup Own(journal.pending).routes,
            rules |-> Own(journal.active).rules \cup Own(journal.pending).rules]
      [] OTHER -> Nothing
RemovesDeclared ==
    [][hist'.gone = hist.gone =>
         /\ kern.routing.routes \ kern'.routing.routes \subseteq Declared.routes
         /\ kern.routing.rules \ kern'.routing.rules \subseteq Declared.rules
         /\ kern.doc # kern'.doc /\ kern'.doc = NoTable =>
              journal.cleanup \/ journal.kind = "orphan"]_vars

\* A resource of another program that was there at the helper's last
\* verification is never removed (a flush takes with it whatever came later),
\* unless the journal on disk declares it: verification goes by shape, so a
\* default route shaped like a lane's is claimed with the orphaned ones.
ForeignUntouched ==
    [][job' # job =>
         \A x \in foreign :
             \/ x \in foreign' \/ x \in hist.fresh
             \/ x.what = "default" /\ RouteOf(x) \in Declared.routes]_vars
=============================================================================
