---------------------- MODULE HelperTransaction_proofs ----------------------
(***************************************************************************)
(* Proofs about HelperTransaction for every set of devices, layouts, grants  *)
(* and requests, and every bound on generations and faults; and about the    *)
(* walk of its routing steps, RoutingWalk, for every pair of plans.           *)
(***************************************************************************)
EXTENDS HelperTransaction, RoutingWalk, PlanRouting_proofs, TLAPS

-----------------------------------------------------------------------------
(* Types *)

\* NoPlan and the empty records have their types.
LEMMA EmptyTypes ==
    /\ NoPlan \in PlansOrNone
    /\ NoReceipt \in Receipts
    /\ NoUndo \in Undos
    /\ NoAuth \in Grants
    /\ {} \in Losses
    /\ NoJournal \in Journals
    /\ NoMemory \in Memories
    /\ NoJob \in Jobs
<1>1. NoPlan \in PlansOrNone /\ NoAuth \in Grants
  BY DEF PlansOrNone, Grants
<1>2. NoReceipt \in Receipts /\ NoUndo \in Undos
  BY <1>1 DEF NoReceipt, Receipts, NoUndo, Undos
<1>3. {} \in Losses
  BY DEF Losses
<1> QED
  BY <1>1, <1>2, <1>3 DEF NoJournal, Journals, NoJob, Jobs, NoMemory, Memories

\* A committed record is a journal.
LEMMA CommittedType ==
    ASSUME NEW plan \in PlansOrNone, NEW receipt \in Receipts,
           NEW settings \in SUBSET Devices, NEW auth \in Grants, NEW undo \in Undos
    PROVE  Committed(plan, receipt, settings, auth, undo) \in Journals
BY EmptyTypes DEF Committed, Journals, NoJournal

\* What the kernel dropped of a plan is named by families and tables.
LEMMA LostUnicastType ==
    ASSUME NEW plan \in PlansOrNone
    PROVE  LostUnicast(plan) \in Losses
BY PlanLanes DEF LostUnicast, LaneFamilies, Losses

\* A fault stays within its bound.
LEMMA FaultType ==
    ASSUME faults \in 0..MaxFaults, Fault
    PROVE  faults' \in 0..MaxFaults
BY FaultsAssumption DEF Fault

\* A failed save leaves a journal, the old one or the new one.
LEMMA SaveFailsType ==
    ASSUME HelperTypeOK, NEW record \in Journals, SaveFails(record)
    PROVE  journal' \in Journals /\ faults' \in 0..MaxFaults
BY FaultType DEF SaveFails, HelperTypeOK

\* Returning to the caller forgets the job.
LEMMA ReturnType ==
    ASSUME Return
    PROVE  pc' \in Points /\ job' \in Jobs
BY EmptyTypes DEF Return, Points

\* Announcing a transition keeps the types.
LEMMA BeginType ==
    ASSUME HelperTypeOK, NEW next \in PlansOrNone, NEW lost \in Losses,
           NEW receipt \in Receipts, NEW keep \in Grants, NEW auth \in Grants,
           NEW undo \in Undos, Begin(next, lost, receipt, keep, auth, undo)
    PROVE  HelperTypeOK'
<1> DEFINE record == [active |-> mem.current, pending |-> next, lost |-> lost,
                      cleanup |-> FALSE, receipt |-> receipt, settings |-> mem.settings,
                      newSettings |-> {}, auth |-> keep, nextAuth |-> auth, undo |-> mem.undo]
<1>1. record \in Journals
  BY DEF HelperTypeOK, Memories, Journals
<1>2. CASE SaveFails(record) /\ UNCHANGED <<mem, pc, job, todo>>
  BY <1>1, <1>2, SaveFailsType DEF Begin, HelperTypeOK
<1>3. CASE /\ journal' = record
           /\ mem' = [mem EXCEPT !.receipt = NoReceipt]
           /\ pc' = "settings"
           /\ job' = [next |-> next, lost |-> lost, receipt |-> receipt, keep |-> keep,
                      auth |-> auth, undo |-> undo, wrote |-> {}]
           /\ UNCHANGED <<todo, faults>>
  BY <1>1, <1>3, EmptyTypes DEF Begin, HelperTypeOK, Memories, Jobs, Points
<1> QED
  BY <1>2, <1>3 DEF Begin

\* So does announcing a cleanup.
LEMMA CleanupWithType ==
    ASSUME HelperTypeOK, NEW receipt \in Receipts, CleanupWith(receipt)
    PROVE  HelperTypeOK'
<1> DEFINE record == [NoJournal EXCEPT !.active = mem.current, !.cleanup = TRUE,
                                       !.receipt = receipt, !.settings = mem.settings]
<1>1. record \in Journals
  BY EmptyTypes DEF HelperTypeOK, Memories, Journals, NoJournal
<1>2. mem' \in Memories /\ svm' \subseteq Devices
  BY EmptyTypes DEF CleanupWith, HelperTypeOK, Memories
<1>3. pc' \in Points /\ job' \in Jobs
  BY EmptyTypes DEF CleanupWith, HelperTypeOK, Points, Jobs, NoJob
<1>4. journal' \in Journals /\ faults' \in 0..MaxFaults
  <2>1. CASE SaveFails(record)
    BY <1>1, <2>1, SaveFailsType
  <2>2. CASE ~SaveFails(record)
    BY <1>1, <2>2 DEF CleanupWith, HelperTypeOK
  <2> QED
    BY <2>1, <2>2
<1> QED
  BY <1>2, <1>3, <1>4 DEF HelperTypeOK

\* What the helper persists and remembers always has its type: every record it
\* saves can be loaded again, whatever failed before.
THEOREM HelperTypes == Spec => []HelperTypeOK
<1>1. Init => HelperTypeOK
  BY EmptyTypes, FaultsAssumption DEF Init, HelperTypeOK, Points
<1>2. HelperTypeOK /\ [Next]_vars => HelperTypeOK'
  <2> SUFFICES ASSUME HelperTypeOK, [Next]_vars
               PROVE  HelperTypeOK'
    OBVIOUS
  <2> USE EmptyTypes
  <2>1. CASE JournalSetting
    <3>1. PICK t \in 1..LaneCount(job.next) :
            LET d == job.next.lanes[t].dev
                record == [journal EXCEPT !.newSettings = @ \cup {d}]
            IN  \/ /\ journal' = record
                   /\ Goto("settings") /\ UNCHANGED <<svm, faults>>
                \/ /\ SaveFails(record)
                   /\ svm' = svm \ record.newSettings
                   /\ Goto("withdraw")
      BY <2>1 DEF JournalSetting
    <3> DEFINE d == job.next.lanes[t].dev
               record == [journal EXCEPT !.newSettings = @ \cup {d}]
    <3>2. d \in Devices
      BY PlanLanes DEF HelperTypeOK, Jobs, Lanes
    <3>3. record \in Journals
      BY <3>2 DEF HelperTypeOK, Journals
    <3>4. CASE journal' = record /\ Goto("settings") /\ UNCHANGED <<svm, faults>>
      BY <2>1, <3>3, <3>4 DEF JournalSetting, Goto, HelperTypeOK, Points
    <3>5. CASE SaveFails(record) /\ svm' = svm \ record.newSettings /\ Goto("withdraw")
      <4>1. journal' \in Journals /\ faults' \in 0..MaxFaults
        BY <3>3, <3>5, SaveFailsType
      <4> QED
        BY <2>1, <3>5, <4>1 DEF JournalSetting, Goto, HelperTypeOK, Points
    <3> QED
      BY <3>1, <3>4, <3>5
  <2>2. CASE WriteSetting
    <3>1. PICK t \in 1..LaneCount(job.next) :
            LET d == job.next.lanes[t].dev
            IN  \/ svm' = svm \cup {d} /\ Goto("settings") /\ UNCHANGED faults
                \/ Fault /\ svm' = svm \ journal.newSettings /\ Goto("withdraw")
      BY <2>2 DEF WriteSetting
    <3>2. job.next.lanes[t].dev \in Devices
      BY PlanLanes DEF HelperTypeOK, Jobs, Lanes
    <3> QED
      BY <2>2, <3>1, <3>2, FaultType DEF WriteSetting, Goto, HelperTypeOK, Points
  <2>3. CASE StartStages
    BY <2>3, FaultType DEF StartStages, HelperTypeOK, Points, Jobs, Journals
  <2>4. CASE Command
    BY <2>4 DEF Command, HelperTypeOK
  <2>5. CASE CommandFails
    <3>1. faults' \in 0..MaxFaults
      BY <2>5, FaultType DEF CommandFails, HelperTypeOK
    <3>2. pc' \in Points /\ job' \in Jobs
      BY <2>5, ReturnType DEF CommandFails, StartRollback, Run, HelperTypeOK, Points
    <3> QED
      BY <2>5, <3>1, <3>2 DEF CommandFails, HelperTypeOK
  <2>6. CASE Unguard
    BY <2>6, FaultType, ReturnType DEF Unguard, HelperTypeOK
  <2>7. CASE CheckForward
    BY <2>7, FaultType DEF CheckForward, StartRollback, Run, Goto, HelperTypeOK, Points
  <2>8. CASE Commit
    <3> DEFINE settings == mem.settings \cup job.wrote
               record == Committed(job.next, job.receipt, settings, job.auth, job.undo)
    <3>1. record \in Journals /\ settings \subseteq Devices
      BY CommittedType DEF HelperTypeOK, Memories, Jobs
    <3>2. CASE /\ journal' = record
               /\ mem' = [mem EXCEPT !.current = job.next, !.settings = settings,
                                     !.receipt = job.receipt, !.auth = job.auth,
                                     !.undo = job.undo]
               /\ Return /\ UNCHANGED faults
      BY <2>8, <3>1, <3>2, ReturnType DEF Commit, HelperTypeOK, Memories, Jobs
    <3>3. CASE SaveFails(record) /\ StartRollback /\ UNCHANGED mem
      BY <2>8, <3>1, <3>3, SaveFailsType
      DEF Commit, StartRollback, Run, HelperTypeOK, Points
    <3> QED
      BY <2>8, <3>2, <3>3 DEF Commit
  <2>9. CASE CheckRollback
    BY <2>9, ReturnType DEF CheckRollback, Goto, HelperTypeOK, Points
  <2>10. CASE Withdraw
    <3> DEFINE record == Committed(mem.current, NoReceipt, mem.settings, job.keep, mem.undo)
    <3>1. record \in Journals
      BY CommittedType DEF HelperTypeOK, Memories, Jobs
    <3>2. CASE journal' = record /\ Goto("unset") /\ UNCHANGED faults
      BY <2>10, <3>1, <3>2 DEF Withdraw, Goto, HelperTypeOK, Points
    <3>3. CASE SaveFails(record) /\ Return
      BY <2>10, <3>1, <3>3, SaveFailsType, ReturnType DEF Withdraw, HelperTypeOK
    <3> QED
      BY <2>10, <3>2, <3>3 DEF Withdraw
  <2>11. CASE Unset
    BY <2>11, ReturnType DEF Unset, HelperTypeOK
  <2>12. CASE CleanupSettings
    BY <2>12 DEF CleanupSettings, Goto, HelperTypeOK, Points, Memories
  <2>13. CASE Clear
    <3> DEFINE record == Committed(NoPlan, job.receipt, {}, NoAuth, NoUndo)
    <3>1. record \in Journals
      BY CommittedType DEF HelperTypeOK, Jobs
    <3>2. CASE /\ journal' = record
               /\ mem' = [mem EXCEPT !.current = NoPlan, !.receipt = job.receipt]
               /\ UNCHANGED faults
      BY <2>13, <3>1, <3>2, ReturnType DEF Clear, HelperTypeOK, Memories, Jobs
    <3>3. CASE SaveFails(record) /\ UNCHANGED mem
      BY <2>13, <3>1, <3>3, SaveFailsType, ReturnType DEF Clear, HelperTypeOK
    <3> QED
      BY <2>13, <3>2, <3>3 DEF Clear
  <2>14. CASE CheckRecovery
    BY <2>14, ReturnType DEF CheckRecovery, Goto, HelperTypeOK, Points
  <2>15. CASE Resettle
    <3> DEFINE record == IF journal.cleanup
                           THEN Committed(NoPlan, journal.receipt, {}, NoAuth, NoUndo)
                           ELSE Committed(journal.active, NoReceipt, journal.settings,
                                          journal.auth, journal.undo)
    <3>1. record \in Journals
      BY CommittedType DEF HelperTypeOK, Journals
    <3>2. CASE /\ journal' = record
               /\ mem' = [init |-> TRUE, current |-> record.active,
                          settings |-> record.settings, receipt |-> record.receipt,
                          auth |-> record.auth, undo |-> record.undo]
               /\ UNCHANGED faults
      <4>1. mem' \in Memories
        BY <3>1, <3>2 DEF Memories, Journals
      <4> QED
        BY <2>15, <3>1, <3>2, <4>1, ReturnType DEF Resettle, HelperTypeOK
    <3>3. CASE SaveFails(record) /\ UNCHANGED mem
      BY <2>15, <3>1, <3>3, SaveFailsType, ReturnType DEF Resettle, HelperTypeOK
    <3> QED
      BY <2>15, <3>2, <3>3 DEF Resettle
  <2>16. CASE Apply
    <3>1. PICK next \in Plans :
            Begin(next, LostUnicast(mem.current), NoReceipt, NoAuth, NoAuth, NoUndo)
      BY <2>16 DEF Apply
    <3>2. next \in PlansOrNone /\ LostUnicast(mem.current) \in Losses
      BY LostUnicastType DEF PlansOrNone, HelperTypeOK, Memories
    <3> QED
      BY <3>1, <3>2, BeginType
  <2>17. CASE ApplyAgain
    <3> DEFINE record == Committed(mem.current, NoReceipt, mem.settings, mem.auth, mem.undo)
    <3>1. record \in Journals
      BY CommittedType DEF HelperTypeOK, Memories
    <3>2. CASE SaveFails(record) /\ UNCHANGED mem
      BY <2>17, <3>1, <3>2, SaveFailsType DEF ApplyAgain, HelperTypeOK
    <3>3. CASE /\ journal' = record
               /\ mem' = [mem EXCEPT !.receipt = NoReceipt]
               /\ UNCHANGED faults
      BY <2>17, <3>1, <3>3 DEF ApplyAgain, HelperTypeOK, Memories
    <3> QED
      BY <2>17, <3>2, <3>3 DEF ApplyAgain
  <2>18. CASE Activate
    <3>1. PICK lanes \in Layouts, auth \in Authorities :
            LET next == [gen |-> NextGeneration, lanes |-> lanes]
                undo == [issuedFor |-> next, previous |-> mem.current, auth |-> mem.auth]
            IN  /\ next \in Plans
                /\ Begin(next, LostUnicast(mem.current), NoReceipt, mem.auth, auth, undo)
      BY <2>18 DEF Activate
    <3> DEFINE next == [gen |-> NextGeneration, lanes |-> lanes]
               undo == [issuedFor |-> next, previous |-> mem.current, auth |-> mem.auth]
    <3>2. next \in PlansOrNone
      BY <3>1 DEF PlansOrNone
    <3>3. /\ undo \in Undos
          /\ LostUnicast(mem.current) \in Losses
          /\ mem.auth \in Grants /\ auth \in Grants
      BY <3>2, LostUnicastType DEF HelperTypeOK, Memories, Undos, Grants
    <3> QED
      BY <3>1, <3>2, <3>3, BeginType
  <2>19. CASE Refresh
    <3>1. PICK lanes \in Layouts :
            LET next == [gen |-> NextGeneration, lanes |-> lanes]
            IN  /\ next \in Plans
                /\ Begin(next, LostUnicast(mem.current), NoReceipt, NoAuth, mem.auth, mem.undo)
      BY <2>19 DEF Refresh
    <3> DEFINE next == [gen |-> NextGeneration, lanes |-> lanes]
    <3>2. next \in PlansOrNone
      BY <3>1 DEF PlansOrNone
    <3>3. /\ mem.undo \in Undos /\ mem.auth \in Grants
          /\ LostUnicast(mem.current) \in Losses
      BY LostUnicastType DEF HelperTypeOK, Memories
    <3> QED
      BY <3>1, <3>2, <3>3, BeginType
  <2>20. CASE Cleanup
    BY <2>20, CleanupWithType DEF Cleanup
  <2>21. CASE CleanupNothing
    <3>1. journal' \in Journals /\ faults' \in 0..MaxFaults
      BY <2>21, SaveFailsType DEF CleanupNothing, HelperTypeOK
    <3> QED
      BY <2>21, <3>1 DEF CleanupNothing, HelperTypeOK, Memories
  <2>22. CASE Restore
    <3>1. PICK previous \in PlansOrNone :
            LET receipt == [failed |-> mem.current, previous |-> previous]
            IN  IF previous = NoPlan
                  THEN CleanupWith(receipt)
                  ELSE Begin(previous, {}, receipt, NoAuth, NoAuth, NoUndo)
      BY <2>22 DEF Restore
    <3> DEFINE receipt == [failed |-> mem.current, previous |-> previous]
    <3>2. receipt \in Receipts
      BY DEF Receipts, HelperTypeOK, Memories
    <3> QED
      BY <3>1, <3>2, BeginType, CleanupWithType
  <2>23. CASE RestoreRuntime
    <3> DEFINE next == [mem.undo.previous EXCEPT !.gen = NextGeneration]
    <3>1. CASE CleanupWith(NoReceipt)
      BY <3>1, CleanupWithType
    <3>2. CASE /\ next \in Plans
               /\ Begin(next, LostUnicast(mem.current), NoReceipt, mem.auth,
                        mem.undo.auth, NoUndo)
      <4>1. next \in PlansOrNone
        BY <3>2 DEF PlansOrNone
      <4>2. /\ mem.auth \in Grants /\ mem.undo.auth \in Grants
            /\ LostUnicast(mem.current) \in Losses
        BY LostUnicastType DEF HelperTypeOK, Memories, Undos
      <4> QED
        BY <3>2, <4>1, <4>2, BeginType
    <3> QED
      BY <2>23, <3>1, <3>2 DEF RestoreRuntime
  <2>24. CASE Adopt
    <3>1. Loaded \in Memories
      BY DEF Loaded, Memories, HelperTypeOK, Journals
    <3>2. mem' \in Memories
      BY <2>24, <3>1 DEF Adopt, Memories, HelperTypeOK
    <3> QED
      BY <2>24, <3>2 DEF Adopt, HelperTypeOK
  <2>25. CASE Reconcile
    BY <2>25 DEF Reconcile, Loaded, Memories, HelperTypeOK, Journals
  <2>26. CASE Recover
    BY <2>26 DEF Recover, Run, HelperTypeOK, Points
  <2>27. CASE Crash
    BY <2>27, FaultType, ReturnType DEF Crash, HelperTypeOK
  <2>28. CASE LinkLoss
    BY <2>28 DEF LinkLoss, HelperTypeOK
  <2>29. CASE UNCHANGED vars
    BY <2>29 DEF vars, HelperTypeOK
  <2> QED
    BY <2>1, <2>2, <2>3, <2>4, <2>5, <2>6, <2>7, <2>8, <2>9, <2>10, <2>11, <2>12, <2>13,
       <2>14, <2>15, <2>16, <2>17, <2>18, <2>19, <2>20, <2>21, <2>22, <2>23, <2>24, <2>25,
       <2>26, <2>27, <2>28, <2>29 DEF Next, Transition, Request
<1> QED
  BY <1>1, <1>2, PTL DEF Spec

-----------------------------------------------------------------------------
(* Control *)

\* A plan to come is never the absent one.
LEMMA PlansAreSome == NoPlan \notin Plans
BY DEF NoPlan, Plans

\* A failed save that did not replace the file leaves the journal as it was.
LEMMA FailedSaveKeeps ==
    ASSUME ~LateSaves, NEW record, SaveFails(record)
    PROVE  journal' = journal
BY DEF SaveFails

\* What announcing a transition, and announcing a cleanup, do to the control state.
LEMMA BeginControl ==
    ASSUME ~LateSaves, HelperTypeOK, ControlInv, pc = "idle", mem.init, ~Interrupted,
           NEW next \in Plans, NEW lost, NEW receipt, NEW keep, NEW auth, NEW undo,
           Begin(next, lost, receipt, keep, auth, undo)
    PROVE  ControlInv'
<1>1. next # NoPlan
  BY PlansAreSome
<1>2. CASE pc' = "settings"
  <2>1. /\ journal'.active = mem.current /\ journal'.pending = next
        /\ journal'.cleanup = FALSE /\ mem'.current = mem.current /\ mem'.init
    BY <1>2 DEF Begin, HelperTypeOK, Memories
  <2> QED
    BY <1>1, <1>2, <2>1 DEF ControlInv, Interrupted, TransitionPoints
<1>3. CASE UNCHANGED <<journal, mem, pc>>
  BY <1>3 DEF ControlInv, Interrupted
<1> QED
  BY <1>2, <1>3, FailedSaveKeeps DEF Begin

\* The start of a cleanup keeps what each point says of journal and memory.
LEMMA CleanupWithControl ==
    ASSUME ~LateSaves, HelperTypeOK, ControlInv, pc = "idle", mem.init, ~Interrupted,
           NEW receipt, CleanupWith(receipt)
    PROVE  ControlInv'
<1>1. mem'.current = mem.current /\ mem'.init
  BY DEF CleanupWith, HelperTypeOK, Memories
<1>2. CASE pc' = "clean"
  <2>1. /\ journal'.active = mem.current /\ journal'.pending = NoPlan
        /\ journal'.cleanup = TRUE
    BY <1>2 DEF CleanupWith, NoJournal
  <2> QED
    BY <1>1, <1>2, <2>1 DEF ControlInv, Interrupted, TransitionPoints
<1>3. CASE UNCHANGED <<journal, pc>>
  BY <1>1, <1>3 DEF ControlInv, Interrupted
<1> QED
  BY <1>2, <1>3, FailedSaveKeeps DEF CleanupWith

\* The points of the helper and the kind of journal it works under agree.
LEMMA ControlStep ==
    ASSUME ~LateSaves, HelperTypeOK, ControlInv, [Next]_vars
    PROVE  ControlInv'
<1> USE DEF TransitionPoints, Interrupted
<1>1. CASE JournalSetting
  <2>1. /\ journal'.active = journal.active /\ journal'.pending = journal.pending
        /\ journal'.cleanup = journal.cleanup
    BY <1>1, FailedSaveKeeps DEF JournalSetting, HelperTypeOK, Journals
  <2>2. pc = "settings" /\ pc' \in {"settings", "withdraw"} /\ UNCHANGED mem
    BY <1>1 DEF JournalSetting, Goto
  <2> QED
    BY <2>1, <2>2 DEF ControlInv
<1>2. CASE WriteSetting
  BY <1>2 DEF WriteSetting, Goto, ControlInv
<1>3. CASE StartStages
  BY <1>3 DEF StartStages, ControlInv
<1>4. CASE Command
  BY <1>4 DEF Command, ControlInv
<1>5. CASE CommandFails
  BY <1>5 DEF CommandFails, StartRollback, Run, Return, RunningPoints, ControlInv
<1>6. CASE Unguard
  BY <1>6 DEF Unguard, Return, ControlInv
<1>7. CASE CheckForward
  BY <1>7 DEF CheckForward, StartRollback, Run, Goto, ControlInv
<1>8. CASE Commit
  <2> DEFINE record == Committed(job.next, job.receipt, mem.settings \cup job.wrote,
                                 job.auth, job.undo)
  <2>1. CASE journal' = record /\ Return /\ mem'.current = job.next /\ mem'.init = mem.init
    <3>1. journal'.active = job.next /\ journal'.pending = NoPlan /\ journal'.cleanup = FALSE
      BY <2>1 DEF Committed, NoJournal
    <3> QED
      BY <1>8, <2>1, <3>1 DEF Commit, Return, ControlInv
  <2>2. CASE UNCHANGED <<journal, mem>> /\ StartRollback
    BY <1>8, <2>2 DEF Commit, StartRollback, Run, ControlInv
  <2> QED
    BY <1>8, <2>1, <2>2, FailedSaveKeeps DEF Commit, HelperTypeOK, Memories
<1>9. CASE CheckRollback
  BY <1>9 DEF CheckRollback, Goto, Return, ControlInv
<1>10. CASE Withdraw
  <2> DEFINE record == Committed(mem.current, NoReceipt, mem.settings, job.keep, mem.undo)
  <2>1. CASE journal' = record /\ Goto("unset")
    <3>1. /\ journal'.active = mem.current /\ journal'.pending = NoPlan
          /\ journal'.cleanup = FALSE
      BY <2>1 DEF Committed, NoJournal
    <3> QED
      BY <1>10, <2>1, <3>1 DEF Withdraw, Goto, ControlInv
  <2>2. CASE UNCHANGED journal /\ Return
    BY <1>10, <2>2 DEF Withdraw, Return, ControlInv
  <2> QED
    BY <1>10, <2>1, <2>2, FailedSaveKeeps DEF Withdraw
<1>11. CASE Unset
  BY <1>11 DEF Unset, Return, ControlInv
<1>12. CASE CleanupSettings
  BY <1>12 DEF CleanupSettings, Goto, ControlInv, HelperTypeOK, Memories
<1>13. CASE Clear
  <2> DEFINE record == Committed(NoPlan, job.receipt, {}, NoAuth, NoUndo)
  <2>1. CASE journal' = record /\ mem'.current = NoPlan /\ mem'.init = mem.init
    <3>1. journal'.active = NoPlan /\ journal'.pending = NoPlan /\ journal'.cleanup = FALSE
      BY <2>1 DEF Committed, NoJournal
    <3> QED
      BY <1>13, <2>1, <3>1 DEF Clear, Return, ControlInv
  <2>2. CASE UNCHANGED <<journal, mem>>
    BY <1>13, <2>2 DEF Clear, Return, ControlInv
  <2> QED
    BY <1>13, <2>1, <2>2, FailedSaveKeeps DEF Clear, HelperTypeOK, Memories
<1>14. CASE CheckRecovery
  BY <1>14 DEF CheckRecovery, Goto, Return, ControlInv
<1>15. CASE Resettle
  <2> DEFINE record == IF journal.cleanup
                         THEN Committed(NoPlan, journal.receipt, {}, NoAuth, NoUndo)
                         ELSE Committed(journal.active, NoReceipt, journal.settings,
                                        journal.auth, journal.undo)
  <2>1. CASE journal' = record /\ mem'.current = record.active /\ mem'.init
    <3>1. journal'.pending = NoPlan /\ journal'.cleanup = FALSE
      BY <2>1 DEF Committed, NoJournal
    <3> QED
      BY <1>15, <2>1, <3>1 DEF Resettle, Return, ControlInv
  <2>2. CASE UNCHANGED <<journal, mem>>
    BY <1>15, <2>2 DEF Resettle, Return, ControlInv
  <2> QED
    BY <1>15, <2>1, <2>2, FailedSaveKeeps DEF Resettle
<1>16. CASE Apply
  BY <1>16, BeginControl DEF Apply, Ready
<1>17. CASE ApplyAgain
  <2> DEFINE record == Committed(mem.current, NoReceipt, mem.settings, mem.auth, mem.undo)
  <2>1. UNCHANGED pc /\ pc = "idle" /\ mem'.current = mem.current /\ mem'.init = mem.init
    BY <1>17 DEF ApplyAgain, Ready, HelperTypeOK, Memories
  <2>2. CASE journal' = record
    <3>1. /\ journal'.active = mem.current /\ journal'.pending = NoPlan
          /\ journal'.cleanup = FALSE
      BY <2>2 DEF Committed, NoJournal
    <3> QED
      BY <2>1, <3>1 DEF ControlInv
  <2>3. CASE UNCHANGED journal
    BY <2>1, <2>3 DEF ControlInv
  <2> QED
    BY <1>17, <2>2, <2>3, FailedSaveKeeps DEF ApplyAgain
<1>18. CASE Activate
  BY <1>18, BeginControl DEF Activate, Ready
<1>19. CASE Refresh
  BY <1>19, BeginControl DEF Refresh, Ready
<1>20. CASE Cleanup
  BY <1>20, CleanupWithControl DEF Cleanup, Ready
<1>21. CASE CleanupNothing
  <2>1. /\ UNCHANGED pc /\ pc = "idle" /\ mem'.current = NoPlan /\ mem.current = NoPlan
        /\ mem'.init = mem.init
    BY <1>21 DEF CleanupNothing, Ready, HelperTypeOK, Memories
  <2>2. CASE journal' = NoJournal
    BY <2>1, <2>2 DEF ControlInv, NoJournal
  <2>3. CASE UNCHANGED journal
    BY <2>1, <2>3 DEF ControlInv
  <2> QED
    BY <1>21, <2>2, <2>3, FailedSaveKeeps DEF CleanupNothing
<1>22. CASE Restore
  BY <1>22, BeginControl, CleanupWithControl DEF Restore, Ready, PlansOrNone
<1>23. CASE RestoreRuntime
  BY <1>23, BeginControl, CleanupWithControl DEF RestoreRuntime, Ready
<1>24. CASE Adopt
  <2>1. CASE journal = NoJournal
    BY <1>24, <2>1 DEF Adopt, NoJournal, ControlInv, HelperTypeOK, Memories
  <2>2. CASE journal # NoJournal
    BY <1>24, <2>2 DEF Adopt, Loaded, ControlInv
  <2> QED
    BY <2>1, <2>2
<1>25. CASE Reconcile
  BY <1>25 DEF Reconcile, Loaded, ControlInv
<1>26. CASE Recover
  BY <1>26 DEF Recover, Run, ControlInv
<1>27. CASE Crash
  BY <1>27 DEF Crash, Return, NoMemory, ControlInv
<1>28. CASE LinkLoss
  BY <1>28 DEF LinkLoss, ControlInv
<1>29. CASE UNCHANGED vars
  BY <1>29 DEF vars, ControlInv
<1> QED
  BY <1>1, <1>2, <1>3, <1>4, <1>5, <1>6, <1>7, <1>8, <1>9, <1>10, <1>11, <1>12, <1>13,
     <1>14, <1>15, <1>16, <1>17, <1>18, <1>19, <1>20, <1>21, <1>22, <1>23, <1>24, <1>25,
     <1>26, <1>27, <1>28, <1>29 DEF Next, Transition, Request

-----------------------------------------------------------------------------
(* The kernel *)

\* A kernel that is exactly what a plan owns, or what is left of it after losses,
\* carries the plan.
LEMMA ExactlyCarries ==
    ASSUME NEW plan \in PlansOrNone, NEW lost, ExactlyOwns(plan, lost)
    PROVE  LivePlan(plan)
<1>1. CASE plan = NoPlan
  <2>1. /\ Own(RoutingBasis(NoPlan, lost)) \in
             [routes: SUBSET Own(NoPlan).routes, rules: {Own(NoPlan).rules}]
    BY BasisOwns DEF PlansOrNone
  <2> QED
    BY <1>1, <2>1, OwnNothing DEF ExactlyOwns, LivePlan, Carries, Nothing
<1>2. CASE plan # NoPlan
  BY <1>2, BasisOwns DEF ExactlyOwns, LivePlan, Carries
<1> QED
  BY <1>1, <1>2

\* A kernel that carries a plan holds part of it.
LEMMA CarriesIsPart ==
    ASSUME NEW doc, NEW live, NEW plan, Carries(doc, live, plan)
    PROVE  PartOf(doc, live, plan)
BY OwnNothing DEF Carries, PartOf, Nothing

\* Losing the unicast defaults of a device leaves the plan carried: the terminal
\* routes name no device.
LEMMA LossCarries ==
    ASSUME NEW doc, NEW live, NEW plan \in PlansOrNone, Carries(doc, live, plan),
           NEW d \in Devices, NEW f
    PROVE  Carries(doc, [live EXCEPT !.routes =
                           @ \ {r \in live.routes : r.dev = d /\ r.fam = f}], plan)
<1>1. CASE plan = NoPlan
  BY <1>1 DEF Carries, Nothing
<1>2. CASE plan # NoPlan
  <2>1. ASSUME NEW r \in Own(plan).routes, IsTerminal(r)
        PROVE  r.dev = ""
    <3>1. PICK ft \in LaneFamilies(plan) : r = Terminal(ft[1], ft[2])
      BY <2>1, OwnTerminal
    <3> QED
      BY <3>1 DEF Terminal
  <2> QED
    BY <1>2, <2>1, DevicesAssumption DEF Carries
<1> QED
  BY <1>1, <1>2

\* Losing routes leaves part of the plan, and every removal that is needed ahead.
LEMMA LossRemoves ==
    ASSUME NEW doc, NEW live, NEW plan, PartOf(doc, live, plan), NEW gone
    PROVE  /\ PartOf(doc, [live EXCEPT !.routes = @ \ gone], plan)
           /\ \A script : RemovesRest(script, doc, live, plan) =>
                RemovesRest(script, doc, [live EXCEPT !.routes = @ \ gone], plan)
BY DEF PartOf, RemovesRest

\* A command of a script other than its first is still in the tail.
LEMMA TailKeeps ==
    ASSUME NEW S, NEW script \in Seq(S), script # <<>>, NEW cmd, cmd # Head(script),
           \E i \in DOMAIN script : script[i] = cmd
    PROVE  \E j \in DOMAIN Tail(script) : Tail(script)[j] = cmd
<1>1. PICK i \in DOMAIN script : script[i] = cmd
  OBVIOUS
<1>2. i \in 1..Len(script) /\ i # 1
  BY <1>1
<1>3. i - 1 \in DOMAIN Tail(script) /\ Tail(script)[i - 1] = script[i]
  BY <1>2
<1> QED
  BY <1>1, <1>3

\* What a plan's rules and routes look like.
LEMMA OwnRuleShape ==
    ASSUME NEW plan, NEW r \in Own(plan).rules
    PROVE  r = Rule(r.fam, r.tab) /\ <<r.fam, r.tab>> \in LaneFamilies(plan)
BY OwnRules DEF Rule, LaneFamilies

\* A route of a plan lies in the table of one of its lanes.
LEMMA OwnRouteShape ==
    ASSUME NEW plan, NEW r \in Own(plan).routes
    PROVE  <<r.fam, r.tab>> \in LaneFamilies(plan)
<1>1. PICK ft \in LaneFamilies(plan) :
             r = Terminal(ft[1], ft[2]) \/ r = Unicast(plan, ft[1], ft[2])
  BY OwnRoutes
<1>2. r.fam = ft[1] /\ r.tab = ft[2]
  <2>1. CASE r = Terminal(ft[1], ft[2])
    BY <2>1 DEF Terminal
  <2>2. CASE r = Unicast(plan, ft[1], ft[2])
    BY <2>2 DEF Unicast
  <2> QED
    BY <1>1, <2>1, <2>2
<1> QED
  BY <1>2 DEF LaneFamilies

\* One command of a cleanup: what is left still has its removal ahead.
LEMMA RemovalKeepsAhead ==
    ASSUME NEW script, NEW doc, NEW live, NEW plan, script # <<>>,
           RemovesRest(script, doc, live, plan), PartOf(doc, live, plan)
    PROVE  LET cmd == Head(script)
               docNext == IF cmd.op = "nft" THEN cmd.doc ELSE doc
               liveNext == IF cmd.op \in {"nft", "verify"} THEN live
                           ELSE ApplyRoutingStep(live, cmd)
           IN  /\ PartOf(docNext, liveNext, plan)
               /\ RemovesRest(Tail(script), docNext, liveNext, plan)
<1> DEFINE cmd == Head(script)
           docNext == IF cmd.op = "nft" THEN cmd.doc ELSE doc
           liveNext == IF cmd.op \in {"nft", "verify"} THEN live
                       ELSE ApplyRoutingStep(live, cmd)
           Cmds == RemovalCommands(plan)
<1>1. script \in Seq(Cmds) /\ cmd \in Cmds /\ Tail(script) \in Seq(Cmds)
  <2> HIDE DEF Cmds
  <2>1. script \in Seq(Cmds)
    BY DEF RemovesRest, Cmds
  <2> QED
    BY <2>1
<1>2. ASSUME NEW c, c # cmd, \E i \in DOMAIN script : script[i] = c
      PROVE  \E j \in DOMAIN Tail(script) : Tail(script)[j] = c
  <2> HIDE DEF Cmds
  <2> QED
    BY <1>1, <1>2, TailKeeps
<1>3. live = [routes |-> live.routes, rules |-> live.rules]
  BY DEF PartOf
<1>4. CASE \E ft \in LaneFamilies(plan) : cmd = DeleteRule(ft[1], ft[2])
  <2>1. PICK ft \in LaneFamilies(plan) : cmd = DeleteRule(ft[1], ft[2])
    BY <1>4
  <2>2. docNext = doc /\ liveNext = [live EXCEPT !.rules = @ \ {Rule(ft[1], ft[2])}]
    <3>1. cmd.op = "delrule"
      BY <2>1 DEF DeleteRule
    <3>2. ApplyRoutingStep(live, cmd) = [live EXCEPT !.rules = @ \ {Rule(ft[1], ft[2])}]
      BY <2>1, DeleteRuleApplied
    <3> HIDE DEF cmd
    <3> QED
      BY <3>1, <3>2
  <2>3. liveNext.routes = live.routes /\ liveNext.rules = live.rules \ {Rule(ft[1], ft[2])}
    BY <1>3, <2>2
  <2>4. PartOf(docNext, liveNext, plan)
    BY <2>2 DEF PartOf
  <2>5. ASSUME NEW r \in liveNext.rules
        PROVE  \E i \in DOMAIN Tail(script) : Tail(script)[i] = DeleteRule(r.fam, r.tab)
    <3>1. r \in live.rules /\ r # Rule(ft[1], ft[2]) /\ r = Rule(r.fam, r.tab)
      BY <2>3, OwnRuleShape DEF PartOf
    <3>2. DeleteRule(r.fam, r.tab) # cmd
      BY <2>1, <3>1 DEF DeleteRule
    <3> QED
      BY <1>2, <3>1, <3>2 DEF RemovesRest
  <2>6. ASSUME NEW r \in liveNext.routes
        PROVE  \E i \in DOMAIN Tail(script) : Tail(script)[i] = FlushTable(r.fam, r.tab)
    <3>1. FlushTable(r.fam, r.tab) # cmd
      BY <2>1 DEF DeleteRule, FlushTable
    <3> QED
      BY <1>2, <2>3, <3>1 DEF RemovesRest
  <2>7. ASSUME docNext # NoTable
        PROVE  \E i \in DOMAIN Tail(script) : Tail(script)[i] = LoadDoc(NoTable)
    <3>1. LoadDoc(NoTable) # cmd
      BY <2>1 DEF DeleteRule, LoadDoc
    <3> QED
      BY <1>2, <2>2, <2>7, <3>1 DEF RemovesRest
  <2> QED
    BY <1>1, <2>4, <2>5, <2>6, <2>7 DEF RemovesRest
<1>5. CASE \E ft \in LaneFamilies(plan) : cmd = FlushTable(ft[1], ft[2])
  <2>1. PICK ft \in LaneFamilies(plan) : cmd = FlushTable(ft[1], ft[2])
    BY <1>5
  <2>2. /\ docNext = doc
        /\ liveNext = [live EXCEPT !.routes = {r \in @ : r.fam # ft[1] \/ r.tab # ft[2]}]
    <3>1. cmd.op = "flush"
      BY <2>1 DEF FlushTable
    <3>2. ApplyRoutingStep(live, cmd) =
            [live EXCEPT !.routes = {r \in @ : r.fam # ft[1] \/ r.tab # ft[2]}]
      BY <2>1, FlushTableApplied
    <3> HIDE DEF cmd
    <3> QED
      BY <3>1, <3>2
  <2>3. /\ liveNext.rules = live.rules
        /\ liveNext.routes = {r \in live.routes : r.fam # ft[1] \/ r.tab # ft[2]}
    BY <1>3, <2>2
  <2>4. PartOf(docNext, liveNext, plan)
    BY <2>2 DEF PartOf
  <2>5. ASSUME NEW r \in liveNext.rules
        PROVE  \E i \in DOMAIN Tail(script) : Tail(script)[i] = DeleteRule(r.fam, r.tab)
    <3>1. DeleteRule(r.fam, r.tab) # cmd
      BY <2>1 DEF DeleteRule, FlushTable
    <3> QED
      BY <1>2, <2>3, <3>1 DEF RemovesRest
  <2>6. ASSUME NEW r \in liveNext.routes
        PROVE  \E i \in DOMAIN Tail(script) : Tail(script)[i] = FlushTable(r.fam, r.tab)
    <3>1. r \in live.routes /\ FlushTable(r.fam, r.tab) # cmd
      BY <2>1, <2>3 DEF FlushTable
    <3> QED
      BY <1>2, <3>1 DEF RemovesRest
  <2>7. ASSUME docNext # NoTable
        PROVE  \E i \in DOMAIN Tail(script) : Tail(script)[i] = LoadDoc(NoTable)
    <3>1. LoadDoc(NoTable) # cmd
      BY <2>1 DEF FlushTable, LoadDoc
    <3> QED
      BY <1>2, <2>2, <2>7, <3>1 DEF RemovesRest
  <2> QED
    BY <1>1, <2>4, <2>5, <2>6, <2>7 DEF RemovesRest
<1>6. CASE cmd = LoadDoc(NoTable)
  <2>1. docNext = NoTable /\ liveNext = live
    BY <1>6 DEF LoadDoc
  <2>2. ASSUME NEW r
        PROVE  DeleteRule(r.fam, r.tab) # cmd /\ FlushTable(r.fam, r.tab) # cmd
    BY <1>6 DEF LoadDoc, DeleteRule, FlushTable
  <2> QED
    BY <1>1, <1>2, <2>1, <2>2 DEF PartOf, RemovesRest
<1> QED
  BY <1>1, <1>4, <1>5, <1>6 DEF RemovalCommands

\* The script of a cleanup has the removal of everything that can be left of its plan.
LEMMA CleanupRemoves ==
    ASSUME NEW plan \in PlansOrNone, NEW lost, PartOf(nft, routing, plan)
    PROVE  RemovesRest(RestoreScript(NoPlan, plan, NoPlan, lost), nft, routing, plan)
<1> DEFINE removals == RollbackRemovals(plan, NoPlan)
           last == IF nft = NoTable THEN <<>> ELSE <<LoadDoc(NoTable)>>
           script == RestoreScript(NoPlan, plan, NoPlan, lost)
           Cmds == RemovalCommands(plan)
           Steps == {DeleteRule(ft[1], ft[2]) : ft \in LaneFamilies(plan)}
                      \cup {FlushTable(ft[1], ft[2]) : ft \in LaneFamilies(plan)}
<1>1. removals \in Seq(Steps)
  BY RollbackRemovesAll
<1>2. Steps \subseteq Cmds /\ LoadDoc(NoTable) \in Cmds
  BY DEF RemovalCommands
<1>3. last \in Seq(Cmds)
  <2> HIDE DEF Cmds
  <2> QED
    BY <1>2
<1>4. removals \in Seq(Cmds)
  <2> HIDE DEF Cmds, Steps, removals
  <2> QED
    BY <1>1, <1>2
<1>5. script = removals \o last /\ script \in Seq(Cmds)
  <2>1. script = (removals \o last) \o <<>>
    BY DEF RestoreScript
  <2> HIDE DEF Cmds, removals, last, script
  <2> QED
    BY <1>3, <1>4, <2>1
<1>6. ASSUME NEW c, \E i \in DOMAIN removals : removals[i] = c
      PROVE  \E i \in DOMAIN script : script[i] = c
  <2> HIDE DEF Cmds, removals, last, script
  <2>1. PICK i \in DOMAIN removals : removals[i] = c
    BY <1>6
  <2>2. i \in DOMAIN script /\ script[i] = removals[i]
    BY <1>3, <1>4, <1>5
  <2> QED
    BY <2>1, <2>2
<1>7. ASSUME NEW r \in routing.rules
      PROVE  \E i \in DOMAIN script : script[i] = DeleteRule(r.fam, r.tab)
  <2>1. <<r.fam, r.tab>> \in LaneFamilies(plan)
    BY OwnRuleShape DEF PartOf
  <2>2. \E i \in DOMAIN removals : removals[i] = DeleteRule(r.fam, r.tab)
    BY <2>1, RollbackRemovesAll
  <2> QED
    BY <1>6, <2>2
<1>8. ASSUME NEW r \in routing.routes
      PROVE  \E i \in DOMAIN script : script[i] = FlushTable(r.fam, r.tab)
  <2>1. <<r.fam, r.tab>> \in LaneFamilies(plan)
    BY OwnRouteShape DEF PartOf
  <2>2. \E i \in DOMAIN removals : removals[i] = FlushTable(r.fam, r.tab)
    BY <2>1, RollbackRemovesAll
  <2> QED
    BY <1>6, <2>2
<1>9. ASSUME nft # NoTable
      PROVE  \E i \in DOMAIN script : script[i] = LoadDoc(NoTable)
  <2>1. last = <<LoadDoc(NoTable)>>
    BY <1>9
  <2> HIDE DEF Cmds, removals, last, script
  <2>2. /\ Len(removals) + 1 \in DOMAIN script
        /\ script[Len(removals) + 1] = LoadDoc(NoTable)
    BY <1>3, <1>4, <1>5, <2>1
  <2> QED
    BY <2>2
<1> QED
  BY <1>5, <1>7, <1>8, <1>9 DEF RemovesRest

\* What announcing a transition, and announcing a cleanup, mean for the kernel.
LEMMA BeginKernel ==
    ASSUME ~LateSaves, HelperTypeOK, ControlInv, KernelInv, pc = "idle", mem.init,
           ~Interrupted, NEW next \in Plans, NEW lost, NEW receipt, NEW keep, NEW auth,
           NEW undo, Begin(next, lost, receipt, keep, auth, undo)
    PROVE  KernelInv'
<1>1. Carries(nft, routing, mem.current)
  BY DEF ControlInv, KernelInv, LivePlan
<1>2. UNCHANGED <<nft, routing>>
  BY DEF Begin
<1>3. CASE pc' = "settings"
  <2>1. /\ journal'.active = mem.current /\ journal'.pending = next
        /\ journal'.cleanup = FALSE /\ mem'.current = mem.current
    BY <1>3 DEF Begin, HelperTypeOK, Memories
  <2> QED
    BY <1>1, <1>2, <1>3, <2>1, PlansAreSome DEF KernelInv, Interrupted, LivePlan
<1>4. CASE UNCHANGED <<journal, mem, pc, job, todo>>
  BY <1>2, <1>4 DEF KernelInv, Interrupted, LivePlan
<1> QED
  BY <1>3, <1>4, FailedSaveKeeps DEF Begin

\* The start of a cleanup keeps what the journal says of the kernel.
LEMMA CleanupWithKernel ==
    ASSUME ~LateSaves, HelperTypeOK, ControlInv, KernelInv, pc = "idle", mem.init,
           ~Interrupted, NEW receipt, CleanupWith(receipt)
    PROVE  KernelInv'
<1>1. Carries(nft, routing, mem.current)
  BY DEF ControlInv, KernelInv, LivePlan
<1>2. UNCHANGED <<nft, routing>>
  BY DEF CleanupWith
<1>3. CASE pc' = "clean"
  <2>1. /\ journal'.active = mem.current /\ journal'.pending = NoPlan
        /\ journal'.cleanup = TRUE
    BY <1>3 DEF CleanupWith, NoJournal
  <2>2. todo' = RestoreScript(NoPlan, mem.current, NoPlan, {})
    BY <1>3 DEF CleanupWith
  <2>3. PartOf(nft, routing, mem.current)
    BY <1>1, CarriesIsPart
  <2>4. RemovesRest(todo', nft, routing, mem.current)
    BY <2>2, <2>3, CleanupRemoves DEF HelperTypeOK, Memories
  <2> QED
    BY <1>2, <1>3, <2>1, <2>3, <2>4 DEF KernelInv, Interrupted
<1>4. CASE UNCHANGED <<journal, pc, job, todo>>
  BY <1>2, <1>4 DEF KernelInv, Interrupted, LivePlan
<1> QED
  BY <1>3, <1>4, FailedSaveKeeps DEF CleanupWith

\* A step that touches neither the kernel nor the journal and ends between requests.
LEMMA QuietKernel ==
    ASSUME KernelInv, UNCHANGED <<journal, nft, routing>>,
           pc' \in {"idle", "forward", "rollback", "unguard", "repair"}
    PROVE  KernelInv'
BY DEF KernelInv, Interrupted, LivePlan

\* Nothing of a plan is left once its removals are through.
LEMMA NothingAhead ==
    ASSUME NEW doc, NEW live, NEW plan, PartOf(doc, live, plan),
           RemovesRest(<<>>, doc, live, plan)
    PROVE  Carries(doc, live, NoPlan)
BY DEF PartOf, RemovesRest, Carries, Nothing

\* The kernel carries what the journal and the point of the helper say.
LEMMA KernelStep ==
    ASSUME ~LateSaves, HelperTypeOK, ControlInv, KernelInv, [Next]_vars
    PROVE  KernelInv'
<1> USE DEF Interrupted, LivePlan
<1>1. CASE JournalSetting
  <2>1. /\ journal'.active = journal.active /\ journal'.pending = journal.pending
        /\ journal'.cleanup = journal.cleanup
    BY <1>1, FailedSaveKeeps DEF JournalSetting, HelperTypeOK, Journals
  <2>2. pc = "settings" /\ pc' \in {"settings", "withdraw"} /\ UNCHANGED <<nft, routing, mem>>
    BY <1>1 DEF JournalSetting, Goto
  <2> QED
    BY <2>1, <2>2 DEF KernelInv
<1>2. CASE WriteSetting
  BY <1>2 DEF WriteSetting, Goto, KernelInv
<1>3. CASE StartStages
  BY <1>3, QuietKernel DEF StartStages
<1>4. CASE Command
  <2>1. UNCHANGED <<journal, mem, pc, job>> /\ todo # <<>> /\ todo' = Tail(todo)
    BY <1>4 DEF Command
  <2>2. CASE journal.cleanup
    <3>1. pc \in {"clean", "recover"}
      BY <1>4, <2>2 DEF Command, RunningPoints, ControlInv, TransitionPoints
    <3>2. /\ RemovesRest(todo, nft, routing, journal.active)
          /\ PartOf(nft, routing, journal.active)
      BY <2>2, <3>1 DEF KernelInv
    <3>3. /\ nft' = IF Head(todo).op = "nft" THEN Head(todo).doc ELSE nft
          /\ routing' = IF Head(todo).op \in {"nft", "verify"} THEN routing
                        ELSE ApplyRoutingStep(routing, Head(todo))
      BY <1>4 DEF Command, Effect
    <3>4. /\ PartOf(nft', routing', journal.active)
          /\ RemovesRest(Tail(todo), nft', routing', journal.active)
      BY <2>1, <3>2, <3>3, RemovalKeepsAhead
    <3> QED
      BY <2>1, <2>2, <3>1, <3>4 DEF KernelInv
  <2>3. CASE ~journal.cleanup
    <3>1. pc \in {"forward", "rollback", "recover"} /\ journal.pending # NoPlan
      BY <1>4, <2>3 DEF Command, RunningPoints, ControlInv, TransitionPoints
    <3> QED
      BY <2>1, <2>3, <3>1 DEF KernelInv
  <2> QED
    BY <2>2, <2>3
<1>5. CASE CommandFails
  <2>1. pc' \in {"idle", "rollback", "unguard"}
    BY <1>5 DEF CommandFails, StartRollback, Run, Return
  <2> QED
    BY <1>5, <2>1, QuietKernel DEF CommandFails
<1>6. CASE Unguard
  BY <1>6 DEF Unguard, Return, ControlInv, TransitionPoints, KernelInv
<1>7. CASE CheckForward
  <2>1. CASE ExactlyOwns(job.next, {}) /\ Goto("commit")
    <3>1. Carries(nft, routing, job.next)
      BY <2>1, ExactlyCarries DEF HelperTypeOK, Jobs
    <3> QED
      BY <1>7, <2>1, <3>1 DEF CheckForward, Goto, KernelInv
  <2>2. CASE StartRollback
    BY <1>7, <2>2, QuietKernel DEF CheckForward, StartRollback, Run
  <2> QED
    BY <1>7, <2>1, <2>2 DEF CheckForward
<1>8. CASE Commit
  <2> DEFINE record == Committed(job.next, job.receipt, mem.settings \cup job.wrote,
                                 job.auth, job.undo)
  <2>1. CASE journal' = record /\ Return
    <3>1. journal'.active = job.next /\ journal'.pending = NoPlan /\ journal'.cleanup = FALSE
      BY <2>1 DEF Committed, NoJournal
    <3> QED
      BY <1>8, <2>1, <3>1 DEF Commit, Return, KernelInv
  <2>2. CASE UNCHANGED <<journal, mem>> /\ StartRollback
    BY <1>8, <2>2, QuietKernel DEF Commit, StartRollback, Run
  <2> QED
    BY <1>8, <2>1, <2>2, FailedSaveKeeps DEF Commit
<1>9. CASE CheckRollback
  <2>1. CASE ExactlyOwns(mem.current, job.lost)
    <3>1. Carries(nft, routing, mem.current)
      BY <2>1, ExactlyCarries DEF HelperTypeOK, Memories
    <3> QED
      BY <1>9, <2>1, <3>1 DEF CheckRollback, Goto, KernelInv
  <2>2. CASE ~ExactlyOwns(mem.current, job.lost)
    BY <1>9, <2>2, QuietKernel DEF CheckRollback, Return
  <2> QED
    BY <2>1, <2>2
<1>10. CASE Withdraw
  <2> DEFINE record == Committed(mem.current, NoReceipt, mem.settings, job.keep, mem.undo)
  <2>1. CASE journal' = record /\ Goto("unset")
    <3>1. /\ journal'.active = mem.current /\ journal'.pending = NoPlan
          /\ journal'.cleanup = FALSE
      BY <2>1 DEF Committed, NoJournal
    <3> QED
      BY <1>10, <2>1, <3>1 DEF Withdraw, Goto, KernelInv
  <2>2. CASE UNCHANGED journal /\ Return
    BY <1>10, <2>2, QuietKernel DEF Withdraw, Return
  <2> QED
    BY <1>10, <2>1, <2>2, FailedSaveKeeps DEF Withdraw
<1>11. CASE Unset
  BY <1>11, QuietKernel DEF Unset, Return
<1>12. CASE CleanupSettings
  <2>1. Carries(nft, routing, NoPlan)
    BY <1>12, NothingAhead DEF CleanupSettings, ControlInv, KernelInv
  <2> QED
    BY <1>12, <2>1 DEF CleanupSettings, Goto, ControlInv, KernelInv
<1>13. CASE Clear
  <2> DEFINE record == Committed(NoPlan, job.receipt, {}, NoAuth, NoUndo)
  <2>1. CASE journal' = record
    <3>1. journal'.active = NoPlan /\ journal'.pending = NoPlan /\ journal'.cleanup = FALSE
      BY <2>1 DEF Committed, NoJournal
    <3> QED
      BY <1>13, <2>1, <3>1 DEF Clear, Return, KernelInv
  <2>2. CASE UNCHANGED journal
    BY <1>13, <2>2, QuietKernel DEF Clear, Return
  <2> QED
    BY <1>13, <2>1, <2>2, FailedSaveKeeps DEF Clear
<1>14. CASE CheckRecovery
  <2>1. CASE journal.cleanup
    <3>1. Carries(nft, routing, NoPlan)
      BY <1>14, <2>1, NothingAhead DEF CheckRecovery, KernelInv
    <3> QED
      BY <1>14, <2>1, <3>1 DEF CheckRecovery, Goto, KernelInv
  <2>2. CASE ~journal.cleanup /\ ExactlyOwns(journal.active, journal.lost)
    <3>1. Carries(nft, routing, journal.active)
      BY <2>2, ExactlyCarries DEF HelperTypeOK, Journals
    <3> QED
      BY <1>14, <2>2, <3>1 DEF CheckRecovery, Goto, KernelInv
  <2>3. CASE ~journal.cleanup /\ ~ExactlyOwns(journal.active, journal.lost)
    BY <1>14, <2>3, QuietKernel DEF CheckRecovery, Return
  <2> QED
    BY <2>1, <2>2, <2>3
<1>15. CASE Resettle
  <2> DEFINE record == IF journal.cleanup
                         THEN Committed(NoPlan, journal.receipt, {}, NoAuth, NoUndo)
                         ELSE Committed(journal.active, NoReceipt, journal.settings,
                                        journal.auth, journal.undo)
  <2>1. CASE journal' = record
    <3>1. /\ journal'.active = IF journal.cleanup THEN NoPlan ELSE journal.active
          /\ journal'.pending = NoPlan /\ journal'.cleanup = FALSE
      BY <2>1 DEF Committed, NoJournal
    <3> QED
      BY <1>15, <2>1, <3>1 DEF Resettle, Return, KernelInv
  <2>2. CASE UNCHANGED journal
    BY <1>15, <2>2, QuietKernel DEF Resettle, Return
  <2> QED
    BY <1>15, <2>1, <2>2, FailedSaveKeeps DEF Resettle
<1>16. CASE Apply
  BY <1>16, BeginKernel DEF Apply, Ready
<1>17. CASE ApplyAgain
  <2> DEFINE record == Committed(mem.current, NoReceipt, mem.settings, mem.auth, mem.undo)
  <2>1. /\ UNCHANGED <<nft, routing, pc>> /\ pc = "idle"
        /\ Carries(nft, routing, mem.current)
    BY <1>17 DEF ApplyAgain, Ready, ControlInv, KernelInv
  <2>2. CASE journal' = record
    <3>1. /\ journal'.active = mem.current /\ journal'.pending = NoPlan
          /\ journal'.cleanup = FALSE
      BY <2>2 DEF Committed, NoJournal
    <3> QED
      BY <2>1, <3>1 DEF KernelInv
  <2>3. CASE UNCHANGED journal
    BY <2>1, <2>3, QuietKernel
  <2> QED
    BY <1>17, <2>2, <2>3, FailedSaveKeeps DEF ApplyAgain
<1>18. CASE Activate
  BY <1>18, BeginKernel DEF Activate, Ready
<1>19. CASE Refresh
  BY <1>19, BeginKernel DEF Refresh, Ready
<1>20. CASE Cleanup
  BY <1>20, CleanupWithKernel DEF Cleanup, Ready
<1>21. CASE CleanupNothing
  <2>1. /\ UNCHANGED <<nft, routing, pc>> /\ pc = "idle"
        /\ Carries(nft, routing, NoPlan)
    BY <1>21 DEF CleanupNothing, Ready, ControlInv, KernelInv
  <2>2. CASE journal' = NoJournal
    BY <2>1, <2>2 DEF KernelInv, NoJournal
  <2>3. CASE UNCHANGED journal
    BY <2>1, <2>3, QuietKernel
  <2> QED
    BY <1>21, <2>2, <2>3, FailedSaveKeeps DEF CleanupNothing
<1>22. CASE Restore
  BY <1>22, BeginKernel, CleanupWithKernel DEF Restore, Ready, PlansOrNone
<1>23. CASE RestoreRuntime
  BY <1>23, BeginKernel, CleanupWithKernel DEF RestoreRuntime, Ready
<1>24. CASE Adopt
  BY <1>24, QuietKernel DEF Adopt
<1>25. CASE Reconcile
  BY <1>25, QuietKernel DEF Reconcile
<1>26. CASE Recover
  <2>1. UNCHANGED <<journal, nft, routing>> /\ pc' = "recover"
    BY <1>26 DEF Recover, Run
  <2>2. CASE journal.cleanup
    <3>1. todo' = RestoreScript(NoPlan, journal.active, NoPlan, journal.lost)
      BY <1>26, <2>2 DEF Recover, Run, RecoveryTarget, ControlInv
    <3>2. PartOf(nft, routing, journal.active)
      BY <2>2 DEF KernelInv
    <3>3. RemovesRest(todo', nft, routing, journal.active)
      BY <3>1, <3>2, CleanupRemoves DEF HelperTypeOK, Journals
    <3> QED
      BY <2>1, <2>2, <3>2, <3>3 DEF KernelInv
  <2>3. CASE ~journal.cleanup
    BY <1>26, <2>1, <2>3 DEF Recover, KernelInv
  <2> QED
    BY <2>2, <2>3
<1>27. CASE Crash
  BY <1>27, QuietKernel DEF Crash, Return
<1>28. CASE LinkLoss
  <2>1. PICK d \in Devices, f \in Families :
          routing' = [routing EXCEPT !.routes =
                        @ \ {r \in routing.routes : r.dev = d /\ r.fam = f}]
    BY <1>28 DEF LinkLoss
  <2>2. UNCHANGED <<journal, nft, mem, pc, job, todo>>
    BY <1>28 DEF LinkLoss
  <2>3. ASSUME NEW plan \in PlansOrNone, Carries(nft, routing, plan)
        PROVE  Carries(nft, routing', plan)
    BY <2>1, <2>3, LossCarries
  <2>4. ASSUME NEW plan, PartOf(nft, routing, plan)
        PROVE  /\ PartOf(nft, routing', plan)
               /\ \A script : RemovesRest(script, nft, routing, plan) =>
                    RemovesRest(script, nft, routing', plan)
    BY <2>1, <2>4, LossRemoves
  <2>5. /\ journal.active \in PlansOrNone /\ mem.current \in PlansOrNone
        /\ job.next \in PlansOrNone /\ NoPlan \in PlansOrNone
    BY EmptyTypes DEF HelperTypeOK, Journals, Memories, Jobs
  <2> QED
    BY <2>2, <2>3, <2>4, <2>5 DEF KernelInv, ControlInv
<1>29. CASE UNCHANGED vars
  BY <1>29 DEF vars, KernelInv
<1> QED
  BY <1>1, <1>2, <1>3, <1>4, <1>5, <1>6, <1>7, <1>8, <1>9, <1>10, <1>11, <1>12, <1>13,
     <1>14, <1>15, <1>16, <1>17, <1>18, <1>19, <1>20, <1>21, <1>22, <1>23, <1>24, <1>25,
     <1>26, <1>27, <1>28, <1>29 DEF Next, Transition, Request

-----------------------------------------------------------------------------
(* Theorems *)

\* The inductive invariant holds throughout.
THEOREM KernelFollowsJournal ==
    ASSUME ~LateSaves
    PROVE  Spec => [](HelperTypeOK /\ ControlInv /\ KernelInv)
<1>1. Init => ControlInv /\ KernelInv
  BY DEF Init, ControlInv, KernelInv, NoJournal, NoMemory, Interrupted, LivePlan, Carries,
         TransitionPoints
<1>2. HelperTypeOK /\ ControlInv /\ KernelInv /\ [Next]_vars => ControlInv' /\ KernelInv'
  BY ControlStep, KernelStep
<1> QED
  BY <1>1, <1>2, HelperTypes, PTL DEF Spec

\* Whatever fails and wherever the helper dies, and whenever links drop, a journal
\* that names a finished transition names the plan the kernel carries.
THEOREM CommittedPlan ==
    ASSUME ~LateSaves
    PROVE  Spec => []CommittedPlanIsLive
<1>1. KernelInv => CommittedPlanIsLive
  BY DEF KernelInv, CommittedPlanIsLive
<1> QED
  BY <1>1, KernelFollowsJournal, PTL

\* The kernel is only written under a journal that says so.
THEOREM JournaledMutations ==
    ASSUME ~LateSaves
    PROVE  Spec => MutationsAreJournaled
<1>1. ASSUME ControlInv, KernelInv, [Next]_vars,
             nft' # nft \/ routing'.rules # routing.rules
      PROVE  Interrupted
  <2>1. CASE Command
    BY <1>1, <2>1 DEF Command, RunningPoints, ControlInv, TransitionPoints, Interrupted
  <2>2. CASE Unguard
    BY <1>1, <2>2 DEF Unguard, ControlInv, TransitionPoints, Interrupted
  <2>3. CASE LinkLoss
    <3>1. ASSUME ~Interrupted PROVE FALSE
      <4>1. routing = [routes |-> routing.routes, rules |-> routing.rules]
        BY <1>1, <3>1 DEF KernelInv, LivePlan, Carries, Nothing
      <4>2. nft' = nft /\ routing'.rules = routing.rules
        BY <2>3, <4>1 DEF LinkLoss
      <4> QED
        BY <1>1, <4>2
    <3> QED
      BY <3>1
  <2>4. CASE UNCHANGED <<nft, routing>>
    BY <1>1, <2>4
  <2> QED
    BY <1>1, <2>1, <2>2, <2>3, <2>4
    DEF Next, Transition, Request, vars, JournalSetting, WriteSetting, StartStages,
        CommandFails, CheckForward, Commit, CheckRollback, Withdraw, Unset, CleanupSettings,
        Clear, CheckRecovery, Resettle, Apply, ApplyAgain, Activate, Refresh, Cleanup,
        CleanupNothing, Restore, RestoreRuntime, Begin, CleanupWith, Adopt, Reconcile,
        Recover, Crash
<1>2. ControlInv /\ KernelInv /\ [Next]_vars =>
        [nft' # nft \/ routing'.rules # routing.rules => Interrupted]_vars
  BY <1>1
<1> QED
  BY <1>2, KernelFollowsJournal, PTL DEF Spec, MutationsAreJournaled

-----------------------------------------------------------------------------
(* Grants are revoked where no plan is *)

\* Where no plan is or a cleanup is under way, nothing holds a grant, on disk or
\* in memory.
RevokedInv ==
    /\ journal.cleanup \/ journal.active = NoPlan =>
         /\ journal.auth = NoAuth /\ journal.undo = NoUndo
         /\ mem.auth = NoAuth /\ mem.undo = NoUndo
    /\ mem.current = NoPlan => mem.auth = NoAuth /\ mem.undo = NoUndo
    /\ pc \in TransitionPoints =>
         job.next # NoPlan /\ (mem.current = NoPlan => job.keep = NoAuth)
    /\ pc \in {"clean", "clear"} => journal.cleanup

\* What the journal of a transition repeats of its job, and the settings that the
\* journal and the helper's memory agree on.
MemoryInv ==
    /\ pc \in TransitionPoints =>
         /\ journal.pending = job.next /\ journal.nextAuth = job.auth
         /\ journal.auth = job.keep /\ journal.settings = mem.settings
    /\ pc = "unset" => mem.settings = journal.settings
    /\ pc = "idle" /\ mem.init /\ ~Interrupted => mem.settings = journal.settings
    /\ pc = "clear" => mem.settings = {}
    /\ ~mem.init \/ mem.current = NoPlan => mem.settings = {}
    /\ journal.active = NoPlan => journal.settings = {}

\* A grant in memory is the one on record, or a refresh took it off the record.
OnRecord(auth, record) ==
    auth \in {NoAuth, record} \/ ("refresh" \in Requests /\ record = NoAuth)
\* The grant in memory is the one a withdrawn transition puts on record again.
GrantInv ==
    /\ pc \in TransitionPoints => OnRecord(mem.auth, job.keep)
    /\ pc = "unset" => OnRecord(mem.auth, journal.auth)
    /\ pc = "idle" /\ mem.init /\ ~Interrupted => OnRecord(mem.auth, journal.auth)

\* A failed save leaves the old journal or the record that was to replace it.
LEMMA SaveFailsLeaves ==
    ASSUME NEW record, SaveFails(record)
    PROVE  journal' = journal \/ journal' = record
BY DEF SaveFails

\* Announcing a transition holds no grant where no plan is.
LEMMA BeginRevoked ==
    ASSUME HelperTypeOK, RevokedInv, pc = "idle",
           NEW next \in Plans, NEW lost, NEW receipt, NEW keep \in {NoAuth, mem.auth},
           NEW auth, NEW undo, Begin(next, lost, receipt, keep, auth, undo)
    PROVE  RevokedInv'
<1> DEFINE record == [active |-> mem.current, pending |-> next, lost |-> lost,
                      cleanup |-> FALSE, receipt |-> receipt, settings |-> mem.settings,
                      newSettings |-> {}, auth |-> keep, nextAuth |-> auth, undo |-> mem.undo]
<1>1. /\ mem'.current = mem.current /\ mem'.auth = mem.auth /\ mem'.undo = mem.undo
  BY DEF Begin, HelperTypeOK, Memories
<1>2. journal' = journal \/ journal' = record
  BY SaveFailsLeaves DEF Begin
<1>3. /\ journal'.cleanup \/ journal'.active = NoPlan =>
           /\ journal'.auth = NoAuth /\ journal'.undo = NoUndo
           /\ mem'.auth = NoAuth /\ mem'.undo = NoUndo
  <2>1. CASE journal' = journal
    BY <1>1, <2>1 DEF RevokedInv
  <2>2. CASE journal' = record
    <3>1. /\ journal'.active = mem.current /\ journal'.cleanup = FALSE
          /\ journal'.auth = keep /\ journal'.undo = mem.undo
      BY <2>2
    <3> QED
      BY <1>1, <3>1 DEF RevokedInv
  <2> QED
    BY <1>2, <2>1, <2>2
<1>4. CASE pc' = "settings" /\ job'.next = next /\ job'.keep = keep
  BY <1>1, <1>3, <1>4, PlansAreSome DEF RevokedInv, TransitionPoints
<1>5. CASE UNCHANGED <<pc, job>>
  BY <1>1, <1>3, <1>5 DEF RevokedInv, TransitionPoints
<1> QED
  BY <1>4, <1>5 DEF Begin

\* Announcing a cleanup revokes what is held.
LEMMA CleanupWithRevoked ==
    ASSUME HelperTypeOK, RevokedInv, pc = "idle", NEW receipt, CleanupWith(receipt)
    PROVE  RevokedInv'
<1> DEFINE record == [NoJournal EXCEPT !.active = mem.current, !.cleanup = TRUE,
                                       !.receipt = receipt, !.settings = mem.settings]
<1>1. mem'.current = mem.current /\ mem'.auth = NoAuth /\ mem'.undo = NoUndo
  BY DEF CleanupWith, HelperTypeOK, Memories
<1>2. journal' = journal \/ journal' = record
  BY SaveFailsLeaves DEF CleanupWith
<1>3. record.auth = NoAuth /\ record.undo = NoUndo /\ record.cleanup = TRUE
  BY DEF NoJournal
<1>4. /\ pc' = "clean" /\ journal' = record
      \/ UNCHANGED <<pc, job>>
  BY DEF CleanupWith
<1> HIDE DEF record
<1> QED
  BY <1>1, <1>2, <1>3, <1>4 DEF RevokedInv, TransitionPoints

\* Whatever fails, revocation is kept.
LEMMA RevokedStep ==
    ASSUME HelperTypeOK, RevokedInv, [Next]_vars
    PROVE  RevokedInv'
<1> USE DEF TransitionPoints
<1>1. CASE JournalSetting
  <2>1. PICK d : LET record == [journal EXCEPT !.newSettings = @ \cup {d}]
                 IN  journal' = record \/ SaveFails(record)
    BY <1>1 DEF JournalSetting
  <2>2. /\ journal'.cleanup = journal.cleanup /\ journal'.active = journal.active
        /\ journal'.auth = journal.auth /\ journal'.undo = journal.undo
    BY <2>1, SaveFailsLeaves DEF HelperTypeOK, Journals
  <2>3. pc = "settings" /\ pc' \in {"settings", "withdraw"} /\ UNCHANGED <<mem, job>>
    BY <1>1 DEF JournalSetting, Goto
  <2> QED
    BY <2>2, <2>3 DEF RevokedInv
<1>2. CASE WriteSetting
  BY <1>2 DEF WriteSetting, Goto, RevokedInv
<1>3. CASE StartStages
  <2>1. job'.next = job.next /\ job'.keep = job.keep
    BY <1>3 DEF StartStages, HelperTypeOK, Jobs
  <2> QED
    BY <1>3, <2>1 DEF StartStages, RevokedInv
<1>4. CASE Command
  BY <1>4 DEF Command, RevokedInv
<1>5. CASE CommandFails
  BY <1>5 DEF CommandFails, StartRollback, Run, Return, RunningPoints, RevokedInv
<1>6. CASE Unguard
  BY <1>6 DEF Unguard, Return, RevokedInv
<1>7. CASE CheckForward
  BY <1>7 DEF CheckForward, StartRollback, Run, Goto, RevokedInv
<1>8. CASE Commit
  <2> DEFINE record == Committed(job.next, job.receipt, mem.settings \cup job.wrote,
                                 job.auth, job.undo)
  <2>1. record.active = job.next /\ record.cleanup = FALSE /\ job.next # NoPlan
    BY <1>8 DEF Commit, RevokedInv, Committed, NoJournal
  <2>2. journal' = record \/ journal' = journal
    BY <1>8, SaveFailsLeaves DEF Commit
  <2>3. CASE mem'.current = job.next /\ journal' = record /\ Return
    BY <2>1, <2>3 DEF Return, RevokedInv
  <2>4. CASE UNCHANGED mem /\ StartRollback
    BY <1>8, <2>1, <2>2, <2>4 DEF Commit, StartRollback, Run, RevokedInv
  <2> QED
    BY <1>8, <2>3, <2>4 DEF Commit, HelperTypeOK, Memories
<1>9. CASE CheckRollback
  BY <1>9 DEF CheckRollback, Goto, Return, RevokedInv
<1>10. CASE Withdraw
  <2> DEFINE record == Committed(mem.current, NoReceipt, mem.settings, job.keep, mem.undo)
  <2>1. /\ record.active = mem.current /\ record.cleanup = FALSE
        /\ record.auth = job.keep /\ record.undo = mem.undo
    BY DEF Committed, NoJournal
  <2>2. journal' = record \/ journal' = journal
    BY <1>10, SaveFailsLeaves DEF Withdraw
  <2>3. pc = "withdraw" /\ pc' \in {"unset", "idle"} /\ UNCHANGED mem
    BY <1>10 DEF Withdraw, Goto, Return
  <2> HIDE DEF record
  <2> QED
    BY <2>1, <2>2, <2>3 DEF RevokedInv
<1>11. CASE Unset
  BY <1>11 DEF Unset, Return, RevokedInv
<1>12. CASE CleanupSettings
  <2>1. mem'.current = mem.current /\ mem'.auth = mem.auth /\ mem'.undo = mem.undo
    BY <1>12 DEF CleanupSettings, HelperTypeOK, Memories
  <2> QED
    BY <1>12, <2>1 DEF CleanupSettings, Goto, RevokedInv
<1>13. CASE Clear
  <2> DEFINE record == Committed(NoPlan, job.receipt, {}, NoAuth, NoUndo)
  <2>1. record.auth = NoAuth /\ record.undo = NoUndo
    BY DEF Committed, NoJournal
  <2>2. journal' = record \/ journal' = journal
    BY <1>13, SaveFailsLeaves DEF Clear
  <2>3. /\ pc = "clear" /\ pc' = "idle"
        /\ mem'.auth = mem.auth /\ mem'.undo = mem.undo
    BY <1>13 DEF Clear, Return, HelperTypeOK, Memories
  <2> HIDE DEF record
  <2> QED
    BY <2>1, <2>2, <2>3 DEF RevokedInv
<1>14. CASE CheckRecovery
  BY <1>14 DEF CheckRecovery, Goto, Return, RevokedInv
<1>15. CASE Resettle
  <2> DEFINE record == IF journal.cleanup
                         THEN Committed(NoPlan, journal.receipt, {}, NoAuth, NoUndo)
                         ELSE Committed(journal.active, NoReceipt, journal.settings,
                                        journal.auth, journal.undo)
  <2>1. /\ record.cleanup = FALSE
        /\ record.active = NoPlan => record.auth = NoAuth /\ record.undo = NoUndo
        /\ record.active = NoPlan => journal.cleanup \/ journal.active = NoPlan
    BY DEF RevokedInv, Committed, NoJournal
  <2>2. journal' = record \/ journal' = journal
    BY <1>15, SaveFailsLeaves DEF Resettle
  <2>3. pc' = "idle"
    BY <1>15 DEF Resettle, Return
  <2>4. \/ /\ journal' = record
           /\ mem'.current = record.active /\ mem'.auth = record.auth
           /\ mem'.undo = record.undo
        \/ UNCHANGED mem
    BY <1>15 DEF Resettle
  <2> HIDE DEF record
  <2> QED
    BY <2>1, <2>2, <2>3, <2>4 DEF RevokedInv
<1>16. CASE Apply
  BY <1>16, BeginRevoked DEF Apply, Ready
<1>17. CASE ApplyAgain
  <2> DEFINE record == Committed(mem.current, NoReceipt, mem.settings, mem.auth, mem.undo)
  <2>1. record.active = mem.current /\ record.cleanup = FALSE
    BY DEF Committed, NoJournal
  <2>4. mem.current # NoPlan
    BY <1>17 DEF ApplyAgain
  <2>2. journal' = record \/ journal' = journal
    BY <1>17, SaveFailsLeaves DEF ApplyAgain
  <2>3. /\ pc = "idle" /\ pc' = "idle"
        /\ mem'.current = mem.current /\ mem'.auth = mem.auth /\ mem'.undo = mem.undo
    BY <1>17 DEF ApplyAgain, Ready, HelperTypeOK, Memories
  <2> HIDE DEF record
  <2> QED
    BY <2>1, <2>2, <2>3, <2>4 DEF RevokedInv
<1>18. CASE Activate
  BY <1>18, BeginRevoked DEF Activate, Ready
<1>19. CASE Refresh
  BY <1>19, BeginRevoked DEF Refresh, Ready
<1>20. CASE Cleanup
  BY <1>20, CleanupWithRevoked DEF Cleanup, Ready
<1>21. CASE CleanupNothing
  <2>1. /\ pc = "idle" /\ pc' = "idle"
        /\ mem'.current = mem.current /\ mem'.auth = NoAuth /\ mem'.undo = NoUndo
    BY <1>21 DEF CleanupNothing, Ready, HelperTypeOK, Memories
  <2>2. journal' = NoJournal \/ journal' = journal
    BY <1>21, SaveFailsLeaves DEF CleanupNothing
  <2> QED
    BY <2>1, <2>2 DEF RevokedInv, NoJournal
<1>22. CASE Restore
  BY <1>22, BeginRevoked, CleanupWithRevoked DEF Restore, Ready, PlansOrNone
<1>23. CASE RestoreRuntime
  BY <1>23, BeginRevoked, CleanupWithRevoked DEF RestoreRuntime, Ready
<1>24. CASE Adopt
  <2>1. CASE journal = NoJournal
    BY <1>24, <2>1 DEF Adopt, RevokedInv, HelperTypeOK, Memories
  <2>2. CASE journal # NoJournal
    BY <1>24, <2>2 DEF Adopt, Loaded, RevokedInv
  <2> QED
    BY <2>1, <2>2
<1>25. CASE Reconcile
  BY <1>25 DEF Reconcile, Loaded, RevokedInv
<1>26. CASE Recover
  BY <1>26 DEF Recover, Run, RevokedInv
<1>27. CASE Crash
  BY <1>27 DEF Crash, Return, NoMemory, RevokedInv
<1>28. CASE LinkLoss
  BY <1>28 DEF LinkLoss, RevokedInv
<1>29. CASE UNCHANGED vars
  BY <1>29 DEF vars, RevokedInv
<1> QED
  BY <1>1, <1>2, <1>3, <1>4, <1>5, <1>6, <1>7, <1>8, <1>9, <1>10, <1>11, <1>12, <1>13,
     <1>14, <1>15, <1>16, <1>17, <1>18, <1>19, <1>20, <1>21, <1>22, <1>23, <1>24, <1>25,
     <1>26, <1>27, <1>28, <1>29 DEF Next, Transition, Request

\* Once a cleanup is journaled, and while nothing is applied, no grant is held,
\* whatever failed and also where a failed save replaced the file.
THEOREM CleanupRevokes == Spec => []CleanupRevokesGrant
<1>1. Init => RevokedInv
  BY DEF Init, RevokedInv, NoJournal, NoMemory, TransitionPoints
<1>2. HelperTypeOK /\ RevokedInv /\ [Next]_vars => RevokedInv'
  BY RevokedStep
<1>3. RevokedInv => CleanupRevokesGrant
  BY DEF RevokedInv, CleanupRevokesGrant
<1> QED
  BY <1>1, <1>2, <1>3, HelperTypes, PTL DEF Spec

-----------------------------------------------------------------------------
(* What the helper remembers *)

\* Announcing a transition copies its job into the journal.
LEMMA BeginMemory ==
    ASSUME ~LateSaves, HelperTypeOK, MemoryInv, pc = "idle", mem.init, ~Interrupted,
           NEW next \in Plans, NEW lost, NEW receipt, NEW keep, NEW auth, NEW undo,
           Begin(next, lost, receipt, keep, auth, undo)
    PROVE  MemoryInv'
<1>1. /\ mem'.current = mem.current /\ mem'.settings = mem.settings /\ mem'.init = mem.init
  BY DEF Begin, HelperTypeOK, Memories
<1>2. CASE pc' = "settings"
  <2>1. /\ journal'.active = mem.current /\ journal'.pending = next
        /\ journal'.settings = mem.settings /\ journal'.auth = keep
        /\ journal'.nextAuth = auth
    BY <1>2 DEF Begin
  <2>2. job'.next = next /\ job'.keep = keep /\ job'.auth = auth
    BY <1>2 DEF Begin
  <2> QED
    BY <1>1, <1>2, <2>1, <2>2 DEF MemoryInv, TransitionPoints
<1>3. CASE UNCHANGED <<journal, pc, job>>
  BY <1>1, <1>3 DEF MemoryInv, TransitionPoints, Interrupted
<1> QED
  BY <1>2, <1>3, FailedSaveKeeps DEF Begin

\* Announcing a cleanup keeps the settings it will give back.
LEMMA CleanupWithMemory ==
    ASSUME ~LateSaves, HelperTypeOK, MemoryInv, pc = "idle", mem.init, ~Interrupted,
           NEW receipt, CleanupWith(receipt)
    PROVE  MemoryInv'
<1>1. /\ mem'.current = mem.current /\ mem'.settings = mem.settings /\ mem'.init = mem.init
  BY DEF CleanupWith, HelperTypeOK, Memories
<1>2. CASE pc' = "clean"
  <2>1. journal'.active = mem.current /\ journal'.settings = mem.settings
    BY <1>2 DEF CleanupWith, NoJournal
  <2> QED
    BY <1>1, <1>2, <2>1 DEF MemoryInv, TransitionPoints
<1>3. CASE UNCHANGED <<journal, pc, job>>
  BY <1>1, <1>3 DEF MemoryInv, TransitionPoints, Interrupted
<1> QED
  BY <1>2, <1>3, FailedSaveKeeps DEF CleanupWith

\* What the helper remembers of settings is what its journal says.
LEMMA MemoryStep ==
    ASSUME ~LateSaves, HelperTypeOK, ControlInv, RevokedInv, MemoryInv, [Next]_vars
    PROVE  MemoryInv'
<1> USE DEF TransitionPoints, Interrupted
<1>1. CASE JournalSetting
  <2>1. PICK d : LET record == [journal EXCEPT !.newSettings = @ \cup {d}]
                 IN  journal' = record \/ SaveFails(record)
    BY <1>1 DEF JournalSetting
  <2>2. /\ journal'.active = journal.active /\ journal'.pending = journal.pending
        /\ journal'.settings = journal.settings
        /\ journal'.auth = journal.auth /\ journal'.nextAuth = journal.nextAuth
    BY <2>1, SaveFailsLeaves DEF HelperTypeOK, Journals
  <2>3. pc = "settings" /\ pc' \in {"settings", "withdraw"} /\ UNCHANGED <<mem, job>>
    BY <1>1 DEF JournalSetting, Goto
  <2> QED
    BY <2>2, <2>3 DEF MemoryInv
<1>2. CASE WriteSetting
  BY <1>2 DEF WriteSetting, Goto, MemoryInv
<1>3. CASE StartStages
  <2>1. job'.next = job.next /\ job'.keep = job.keep /\ job'.auth = job.auth
    BY <1>3 DEF StartStages, HelperTypeOK, Jobs
  <2> QED
    BY <1>3, <2>1 DEF StartStages, MemoryInv
<1>4. CASE Command
  BY <1>4 DEF Command, MemoryInv
<1>5. CASE CommandFails
  BY <1>5 DEF CommandFails, StartRollback, Run, Return, RunningPoints, MemoryInv, ControlInv
<1>6. CASE Unguard
  BY <1>6 DEF Unguard, Return, MemoryInv, ControlInv
<1>7. CASE CheckForward
  BY <1>7 DEF CheckForward, StartRollback, Run, Goto, MemoryInv
<1>8. CASE Commit
  <2> DEFINE record == Committed(job.next, job.receipt, mem.settings \cup job.wrote,
                                 job.auth, job.undo)
  <2>1. /\ record.active = job.next /\ job.next # NoPlan
        /\ record.settings = mem.settings \cup job.wrote
    BY <1>8 DEF Commit, RevokedInv, Committed, NoJournal
  <2>2. CASE /\ journal' = record /\ Return
             /\ mem'.current = job.next /\ mem'.settings = mem.settings \cup job.wrote
             /\ mem'.init = mem.init
    <3> HIDE DEF record
    <3>1. mem.init
      BY <1>8 DEF Commit, ControlInv
    <3> QED
      BY <2>1, <2>2, <3>1 DEF Return, MemoryInv
  <2>3. CASE UNCHANGED <<journal, mem>> /\ StartRollback
    BY <1>8, <2>3 DEF Commit, StartRollback, Run, MemoryInv
  <2> QED
    BY <1>8, <2>2, <2>3, FailedSaveKeeps DEF Commit, HelperTypeOK, Memories
<1>9. CASE CheckRollback
  BY <1>9 DEF CheckRollback, Goto, Return, MemoryInv, ControlInv
<1>10. CASE Withdraw
  <2> DEFINE record == Committed(mem.current, NoReceipt, mem.settings, job.keep, mem.undo)
  <2>1. record.active = mem.current /\ record.settings = mem.settings
    BY DEF Committed, NoJournal
  <2>2. CASE journal' = record /\ Goto("unset")
    <3> HIDE DEF record
    <3> QED
      BY <1>10, <2>1, <2>2 DEF Withdraw, Goto, MemoryInv
  <2>3. CASE UNCHANGED journal /\ Return
    BY <1>10, <2>3 DEF Withdraw, Return, MemoryInv, ControlInv
  <2> QED
    BY <1>10, <2>2, <2>3, FailedSaveKeeps DEF Withdraw
<1>11. CASE Unset
  BY <1>11 DEF Unset, Return, MemoryInv
<1>12. CASE CleanupSettings
  <2>1. mem'.current = mem.current /\ mem'.settings = {} /\ mem'.init = mem.init
    BY <1>12 DEF CleanupSettings, HelperTypeOK, Memories
  <2> QED
    BY <1>12, <2>1 DEF CleanupSettings, Goto, MemoryInv
<1>13. CASE Clear
  <2> DEFINE record == Committed(NoPlan, job.receipt, {}, NoAuth, NoUndo)
  <2>1. record.settings = {} /\ mem'.settings = mem.settings /\ mem.settings = {}
    BY <1>13 DEF Clear, HelperTypeOK, Memories, Committed, NoJournal, MemoryInv
  <2>2. CASE journal' = record
    <3> HIDE DEF record
    <3> QED
      BY <1>13, <2>1, <2>2 DEF Clear, Return, MemoryInv
  <2>3. CASE UNCHANGED <<journal, mem>>
    BY <1>13, <2>3 DEF Clear, Return, MemoryInv, ControlInv
  <2> QED
    BY <1>13, <2>2, <2>3, FailedSaveKeeps DEF Clear
<1>14. CASE CheckRecovery
  BY <1>14 DEF CheckRecovery, Goto, Return, MemoryInv, ControlInv
<1>15. CASE Resettle
  <2> DEFINE record == IF journal.cleanup
                         THEN Committed(NoPlan, journal.receipt, {}, NoAuth, NoUndo)
                         ELSE Committed(journal.active, NoReceipt, journal.settings,
                                        journal.auth, journal.undo)
  <2>1. record.active = NoPlan => record.settings = {}
    BY DEF Committed, NoJournal, MemoryInv
  <2>2. CASE /\ journal' = record
             /\ mem'.current = record.active /\ mem'.settings = record.settings
             /\ mem'.init = TRUE
    <3> HIDE DEF record
    <3> QED
      BY <1>15, <2>1, <2>2 DEF Resettle, Return, MemoryInv
  <2>3. CASE UNCHANGED <<journal, mem>>
    BY <1>15, <2>3 DEF Resettle, Return, MemoryInv, ControlInv
  <2>4. \/ /\ journal' = record
           /\ mem'.current = record.active /\ mem'.settings = record.settings
           /\ mem'.init = TRUE
        \/ SaveFails(record) /\ UNCHANGED mem
    BY <1>15 DEF Resettle
  <2> HIDE DEF record
  <2> QED
    BY <2>2, <2>3, <2>4, FailedSaveKeeps
<1>16. CASE Apply
  BY <1>16, BeginMemory DEF Apply, Ready
<1>17. CASE ApplyAgain
  <2> DEFINE record == Committed(mem.current, NoReceipt, mem.settings, mem.auth, mem.undo)
  <2>1. record.active = mem.current /\ record.settings = mem.settings
    BY DEF Committed, NoJournal
  <2>2. /\ pc = "idle" /\ pc' = "idle"
        /\ mem'.current = mem.current /\ mem'.settings = mem.settings
        /\ mem'.init = mem.init
    BY <1>17 DEF ApplyAgain, Ready, HelperTypeOK, Memories
  <2>3. journal' = record \/ journal' = journal
    BY <1>17, SaveFailsLeaves DEF ApplyAgain
  <2> HIDE DEF record
  <2> QED
    BY <2>1, <2>2, <2>3 DEF MemoryInv
<1>18. CASE Activate
  BY <1>18, BeginMemory DEF Activate, Ready
<1>19. CASE Refresh
  BY <1>19, BeginMemory DEF Refresh, Ready
<1>20. CASE Cleanup
  BY <1>20, CleanupWithMemory DEF Cleanup, Ready
<1>21. CASE CleanupNothing
  <2>1. /\ pc = "idle" /\ pc' = "idle" /\ mem.current = NoPlan
        /\ mem'.current = mem.current /\ mem'.settings = mem.settings
        /\ mem'.init = mem.init
    BY <1>21 DEF CleanupNothing, Ready, HelperTypeOK, Memories
  <2>2. journal' = NoJournal \/ journal' = journal
    BY <1>21, SaveFailsLeaves DEF CleanupNothing
  <2> QED
    BY <2>1, <2>2 DEF MemoryInv, NoJournal
<1>22. CASE Restore
  BY <1>22, BeginMemory, CleanupWithMemory DEF Restore, Ready, PlansOrNone
<1>23. CASE RestoreRuntime
  BY <1>23, BeginMemory, CleanupWithMemory DEF RestoreRuntime, Ready
<1>24. CASE Adopt
  <2>1. CASE journal = NoJournal
    <3>1. /\ mem.init = FALSE /\ mem'.current = mem.current
          /\ mem'.settings = mem.settings
      BY <1>24, <2>1 DEF Adopt, HelperTypeOK, Memories
    <3> QED
      BY <1>24, <2>1, <3>1 DEF Adopt, MemoryInv, NoJournal
  <2>2. CASE journal # NoJournal
    <3>1. mem'.init = TRUE /\ mem'.current = journal.active
          /\ mem'.settings = journal.settings
      BY <1>24, <2>2 DEF Adopt, Loaded
    <3> QED
      BY <1>24, <3>1 DEF Adopt, MemoryInv
  <2> QED
    BY <2>1, <2>2
<1>25. CASE Reconcile
  BY <1>25 DEF Reconcile, Loaded, MemoryInv
<1>26. CASE Recover
  BY <1>26 DEF Recover, Run, MemoryInv
<1>27. CASE Crash
  BY <1>27 DEF Crash, Return, NoMemory, MemoryInv
<1>28. CASE LinkLoss
  BY <1>28 DEF LinkLoss, MemoryInv
<1>29. CASE UNCHANGED vars
  BY <1>29 DEF vars, MemoryInv
<1> QED
  BY <1>1, <1>2, <1>3, <1>4, <1>5, <1>6, <1>7, <1>8, <1>9, <1>10, <1>11, <1>12, <1>13,
     <1>14, <1>15, <1>16, <1>17, <1>18, <1>19, <1>20, <1>21, <1>22, <1>23, <1>24, <1>25,
     <1>26, <1>27, <1>28, <1>29 DEF Next, Transition, Request

\* Announcing a transition keeps the grant in force, or there was none.
LEMMA BeginGrant ==
    ASSUME ~LateSaves, HelperTypeOK, GrantInv, pc = "idle", mem.init, ~Interrupted,
           NEW next \in Plans, NEW lost, NEW receipt, NEW keep, OnRecord(mem.auth, keep),
           NEW auth, NEW undo, Begin(next, lost, receipt, keep, auth, undo)
    PROVE  GrantInv'
<1>1. mem'.auth = mem.auth
  BY DEF Begin, HelperTypeOK, Memories
<1>2. CASE pc' = "settings" /\ job'.keep = keep
  BY <1>1, <1>2 DEF GrantInv, TransitionPoints
<1>3. CASE UNCHANGED <<journal, pc, job, mem>>
  BY <1>3 DEF GrantInv, TransitionPoints, Interrupted
<1> QED
  BY <1>2, <1>3, FailedSaveKeeps DEF Begin

\* A cleanup leaves no grant in memory.
LEMMA CleanupWithGrant ==
    ASSUME HelperTypeOK, pc = "idle", NEW receipt, CleanupWith(receipt)
    PROVE  GrantInv'
<1>1. mem'.auth = NoAuth /\ pc' \in {"idle", "clean"}
  BY DEF CleanupWith, HelperTypeOK, Memories
<1> QED
  BY <1>1 DEF GrantInv, OnRecord, TransitionPoints

\* No step puts a grant in memory that is not the one on record.
LEMMA GrantStep ==
    ASSUME ~LateSaves, HelperTypeOK, ControlInv, RevokedInv, MemoryInv, GrantInv, [Next]_vars
    PROVE  GrantInv'
<1> USE DEF TransitionPoints, Interrupted, OnRecord
<1>1. CASE JournalSetting
  BY <1>1 DEF JournalSetting, Goto, GrantInv
<1>2. CASE WriteSetting
  BY <1>2 DEF WriteSetting, Goto, GrantInv
<1>3. CASE StartStages
  <2>1. job'.keep = job.keep
    BY <1>3 DEF StartStages, HelperTypeOK, Jobs
  <2> QED
    BY <1>3, <2>1 DEF StartStages, GrantInv
<1>4. CASE Command
  BY <1>4 DEF Command, GrantInv
<1>5. CASE CommandFails
  BY <1>5 DEF CommandFails, StartRollback, Run, Return, RunningPoints, GrantInv, ControlInv
<1>6. CASE Unguard
  BY <1>6 DEF Unguard, Return, GrantInv, ControlInv
<1>7. CASE CheckForward
  BY <1>7 DEF CheckForward, StartRollback, Run, Goto, GrantInv
<1>8. CASE Commit
  <2> DEFINE record == Committed(job.next, job.receipt, mem.settings \cup job.wrote,
                                 job.auth, job.undo)
  <2>1. record.auth = job.auth
    BY DEF Committed, NoJournal
  <2>2. CASE journal' = record /\ Return /\ mem'.auth = job.auth
    <3> HIDE DEF record
    <3> QED
      BY <2>1, <2>2 DEF Return, GrantInv
  <2>3. CASE UNCHANGED <<journal, mem>> /\ StartRollback
    BY <1>8, <2>3 DEF Commit, StartRollback, Run, GrantInv
  <2> QED
    BY <1>8, <2>2, <2>3, FailedSaveKeeps DEF Commit, HelperTypeOK, Memories
<1>9. CASE CheckRollback
  BY <1>9 DEF CheckRollback, Goto, Return, GrantInv, ControlInv
<1>10. CASE Withdraw
  <2> DEFINE record == Committed(mem.current, NoReceipt, mem.settings, job.keep, mem.undo)
  <2>1. record.auth = job.keep
    BY DEF Committed, NoJournal
  <2>2. CASE journal' = record /\ Goto("unset")
    <3> HIDE DEF record
    <3> QED
      BY <1>10, <2>1, <2>2 DEF Withdraw, Goto, GrantInv
  <2>3. CASE UNCHANGED journal /\ Return
    BY <1>10, <2>3 DEF Withdraw, Return, GrantInv, ControlInv
  <2> QED
    BY <1>10, <2>2, <2>3, FailedSaveKeeps DEF Withdraw
<1>11. CASE Unset
  BY <1>11 DEF Unset, Return, GrantInv
<1>12. CASE CleanupSettings
  BY <1>12 DEF CleanupSettings, Goto, GrantInv
<1>13. CASE Clear
  <2>1. mem'.auth = NoAuth
    BY <1>13 DEF Clear, RevokedInv, HelperTypeOK, Memories
  <2> QED
    BY <1>13, <2>1 DEF Clear, Return, GrantInv
<1>14. CASE CheckRecovery
  BY <1>14 DEF CheckRecovery, Goto, Return, GrantInv, ControlInv
<1>15. CASE Resettle
  <2> DEFINE record == IF journal.cleanup
                         THEN Committed(NoPlan, journal.receipt, {}, NoAuth, NoUndo)
                         ELSE Committed(journal.active, NoReceipt, journal.settings,
                                        journal.auth, journal.undo)
  <2>1. CASE journal' = record /\ mem'.auth = record.auth
    <3> HIDE DEF record
    <3> QED
      BY <1>15, <2>1 DEF Resettle, Return, GrantInv
  <2>2. CASE UNCHANGED <<journal, mem>>
    BY <1>15, <2>2 DEF Resettle, Return, GrantInv, ControlInv
  <2> QED
    BY <1>15, <2>1, <2>2, FailedSaveKeeps DEF Resettle
<1>16. CASE Apply
  BY <1>16, BeginGrant DEF Apply, Ready
<1>17. CASE ApplyAgain
  <2>1. pc = "idle" /\ pc' = "idle" /\ mem'.auth = NoAuth
    BY <1>17 DEF ApplyAgain, Ready, HelperTypeOK, Memories
  <2> QED
    BY <2>1 DEF GrantInv
<1>18. CASE Activate
  BY <1>18, BeginGrant DEF Activate, Ready
<1>19. CASE Refresh
  BY <1>19, BeginGrant DEF Refresh, Ready
<1>20. CASE Cleanup
  BY <1>20, CleanupWithGrant DEF Cleanup, Ready
<1>21. CASE CleanupNothing
  <2>1. pc = "idle" /\ pc' = "idle" /\ mem'.auth = NoAuth
    BY <1>21 DEF CleanupNothing, Ready, HelperTypeOK, Memories
  <2> QED
    BY <2>1 DEF GrantInv
<1>22. CASE Restore
  BY <1>22, BeginGrant, CleanupWithGrant DEF Restore, Ready, PlansOrNone
<1>23. CASE RestoreRuntime
  BY <1>23, BeginGrant, CleanupWithGrant DEF RestoreRuntime, Ready
<1>24. CASE Adopt
  <2>1. CASE journal = NoJournal
    <3>1. mem.init = FALSE /\ mem'.auth = mem.auth
      BY <1>24, <2>1 DEF Adopt, HelperTypeOK, Memories
    <3> QED
      BY <1>24, <2>1, <3>1 DEF Adopt, GrantInv, ControlInv, RevokedInv
  <2>2. CASE journal # NoJournal
    <3>1. mem'.auth = IF mem.init THEN mem.auth ELSE journal.auth
      BY <1>24, <2>2 DEF Adopt, Loaded
    <3> QED
      BY <1>24, <3>1 DEF Adopt, GrantInv
  <2> QED
    BY <2>1, <2>2
<1>25. CASE Reconcile
  BY <1>25 DEF Reconcile, Loaded, GrantInv
<1>26. CASE Recover
  BY <1>26 DEF Recover, Run, GrantInv
<1>27. CASE Crash
  BY <1>27 DEF Crash, Return, NoMemory, GrantInv
<1>28. CASE LinkLoss
  BY <1>28 DEF LinkLoss, GrantInv
<1>29. CASE UNCHANGED vars
  BY <1>29 DEF vars, GrantInv
<1> QED
  BY <1>1, <1>2, <1>3, <1>4, <1>5, <1>6, <1>7, <1>8, <1>9, <1>10, <1>11, <1>12, <1>13,
     <1>14, <1>15, <1>16, <1>17, <1>18, <1>19, <1>20, <1>21, <1>22, <1>23, <1>24, <1>25,
     <1>26, <1>27, <1>28, <1>29 DEF Next, Transition, Request

-----------------------------------------------------------------------------
(* Memory and grants: theorems *)

\* The control and revocation invariants hold together with the memory's.
LEMMA MemoryInvariant ==
    ASSUME ~LateSaves
    PROVE  Spec => [](HelperTypeOK /\ ControlInv /\ RevokedInv /\ MemoryInv)
<1>1. Init => ControlInv /\ RevokedInv /\ MemoryInv
  BY DEF Init, ControlInv, RevokedInv, MemoryInv, NoJournal, NoMemory, Interrupted,
         TransitionPoints
<1>2. /\ HelperTypeOK /\ ControlInv /\ RevokedInv /\ MemoryInv /\ [Next]_vars
      => ControlInv' /\ RevokedInv' /\ MemoryInv'
  BY ControlStep, RevokedStep, MemoryStep
<1> QED
  BY <1>1, <1>2, HelperTypes, PTL DEF Spec

\* Between requests, what the helper believes about the plan and the settings is
\* what its finished journal says: a failed transition, cleanup or recovery leaves
\* no stale belief.
THEOREM MemoryFollowsJournal ==
    ASSUME ~LateSaves
    PROVE  Spec => []MemoryMatchesJournal
<1>1. ControlInv /\ MemoryInv => MemoryMatchesJournal
  BY DEF ControlInv, MemoryInv, MemoryMatchesJournal
<1> QED
  BY <1>1, MemoryInvariant, PTL

\* The memory invariant and the grant's hold together.
LEMMA GrantInvariant ==
    ASSUME ~LateSaves
    PROVE  Spec => [](HelperTypeOK /\ ControlInv /\ RevokedInv /\ MemoryInv /\ GrantInv)
<1>1. Init => GrantInv
  BY DEF Init, GrantInv, OnRecord, NoMemory, TransitionPoints
<1>2. /\ HelperTypeOK /\ ControlInv /\ RevokedInv /\ MemoryInv /\ GrantInv /\ [Next]_vars
      => GrantInv'
  BY GrantStep
<1> QED
  BY <1>1, <1>2, MemoryInvariant, PTL DEF Spec

\* The grant the helper acts on between requests is in its finished journal, or
\* the repair of a refresh left that journal without one: refreshes, failures,
\* activations and restarts in any order never leave two different grants.
THEOREM GrantIsJournaled ==
    ASSUME ~LateSaves
    PROVE  Spec => []ArmedGrantIsJournaled
<1>1. GrantInv => ArmedGrantIsJournaled
  BY DEF GrantInv, OnRecord, ArmedGrantIsJournaled
<1> QED
  BY <1>1, GrantInvariant, PTL

\* What a save of a transition's start does to the grant in the journal.
LEMMA BeginKeepsGrant ==
    ASSUME ~LateSaves, "refresh" \notin Requests, GrantInv, pc = "idle", mem.init, ~Interrupted, NEW next, NEW lost,
           NEW receipt, NEW keep \in {NoAuth, mem.auth}, NEW auth, NEW undo,
           Begin(next, lost, receipt, keep, auth, undo)
    PROVE  journal'.auth \in {journal.auth, NoAuth}
BY FailedSaveKeeps DEF Begin, GrantInv, OnRecord

\* A cleanup's start leaves the grant in the journal or takes it out.
LEMMA CleanupWithKeepsGrant ==
    ASSUME ~LateSaves, NEW receipt, CleanupWith(receipt)
    PROVE  journal'.auth \in {journal.auth, NoAuth}
BY FailedSaveKeeps DEF CleanupWith, NoJournal

\* A grant takes effect only in the save that commits the plan it came with.
THEOREM GrantWithItsPlan ==
    ASSUME ~LateSaves, "refresh" \notin Requests
    PROVE  Spec => GrantCommitsWithItsPlan
<1> DEFINE Committing ==
             /\ journal'.auth = journal.nextAuth
             /\ journal'.active = journal.pending /\ journal'.pending = NoPlan
<1>1. ASSUME HelperTypeOK, ControlInv, RevokedInv, MemoryInv, GrantInv, [Next]_vars
      PROVE  journal'.auth \in {journal.auth, NoAuth} \/ Committing
  <2>1. CASE UNCHANGED journal
    BY <2>1
  <2>2. CASE JournalSetting
    <3>1. PICK d : LET record == [journal EXCEPT !.newSettings = @ \cup {d}]
                   IN  journal' = record \/ SaveFails(record)
      BY <2>2 DEF JournalSetting
    <3> QED
      BY <1>1, <3>1, SaveFailsLeaves DEF HelperTypeOK, Journals
  <2>3. CASE Commit
    <3> DEFINE record == Committed(job.next, job.receipt, mem.settings \cup job.wrote,
                                   job.auth, job.undo)
    <3>1. record.active = job.next /\ record.pending = NoPlan /\ record.auth = job.auth
      BY DEF Committed, NoJournal
    <3>2. journal.pending = job.next /\ journal.nextAuth = job.auth
      BY <1>1, <2>3 DEF Commit, MemoryInv, TransitionPoints
    <3>3. journal' = record \/ journal' = journal
      BY <2>3, SaveFailsLeaves DEF Commit
    <3> HIDE DEF record
    <3> QED
      BY <3>1, <3>2, <3>3
  <2>4. CASE Withdraw
    <3> DEFINE record == Committed(mem.current, NoReceipt, mem.settings, job.keep, mem.undo)
    <3>1. record.auth = job.keep
      BY DEF Committed, NoJournal
    <3>2. journal.auth = job.keep
      BY <1>1, <2>4 DEF Withdraw, MemoryInv, TransitionPoints
    <3>3. journal' = record \/ journal' = journal
      BY <2>4, SaveFailsLeaves DEF Withdraw
    <3> HIDE DEF record
    <3> QED
      BY <3>1, <3>2, <3>3
  <2>5. CASE Clear
    <3>1. \/ journal' = Committed(NoPlan, job.receipt, {}, NoAuth, NoUndo)
          \/ journal' = journal
      BY <2>5, SaveFailsLeaves DEF Clear
    <3> QED
      BY <3>1 DEF Committed, NoJournal
  <2>6. CASE Resettle
    <3> DEFINE record == IF journal.cleanup
                           THEN Committed(NoPlan, journal.receipt, {}, NoAuth, NoUndo)
                           ELSE Committed(journal.active, NoReceipt, journal.settings,
                                          journal.auth, journal.undo)
    <3>1. record.auth \in {journal.auth, NoAuth}
      BY DEF Committed, NoJournal
    <3>2. journal' = record \/ journal' = journal
      BY <2>6, SaveFailsLeaves DEF Resettle
    <3> HIDE DEF record
    <3> QED
      BY <3>1, <3>2
  <2>7. CASE ApplyAgain
    <3> DEFINE record == Committed(mem.current, NoReceipt, mem.settings, mem.auth, mem.undo)
    <3>1. record.auth = NoAuth
      BY <2>7 DEF ApplyAgain, Committed, NoJournal
    <3>2. journal' = record \/ journal' = journal
      BY <2>7, SaveFailsLeaves DEF ApplyAgain
    <3> HIDE DEF record
    <3> QED
      BY <3>1, <3>2
  <2>8. CASE CleanupNothing
    <3>1. journal' = NoJournal \/ journal' = journal
      BY <2>8, SaveFailsLeaves DEF CleanupNothing
    <3> QED
      BY <3>1 DEF NoJournal
  <2>9. CASE Apply
    BY <1>1, <2>9, BeginKeepsGrant DEF Apply, Ready
  <2>10. CASE Activate
    BY <1>1, <2>10, BeginKeepsGrant DEF Activate, Ready
  <2>11. CASE Refresh
    BY <2>11 DEF Refresh, Ready
  <2>12. CASE Cleanup
    BY <2>12, CleanupWithKeepsGrant DEF Cleanup
  <2>13. CASE Restore
    BY <1>1, <2>13, BeginKeepsGrant, CleanupWithKeepsGrant DEF Restore, Ready
  <2>14. CASE RestoreRuntime
    BY <1>1, <2>14, BeginKeepsGrant, CleanupWithKeepsGrant DEF RestoreRuntime, Ready
  <2> QED
    BY <1>1, <2>1, <2>2, <2>3, <2>4, <2>5, <2>6, <2>7, <2>8, <2>9, <2>10, <2>11, <2>12,
       <2>13, <2>14
    DEF Next, Transition, Request, vars, WriteSetting, StartStages, Command, CommandFails,
        Unguard, CheckForward, CheckRollback, Unset, CleanupSettings, CheckRecovery, Adopt,
        Reconcile, Recover, Crash, LinkLoss
<1>2. HelperTypeOK /\ ControlInv /\ RevokedInv /\ MemoryInv /\ GrantInv /\ [Next]_vars =>
        [journal'.auth \notin {journal.auth, NoAuth} => Committing]_vars
  BY <1>1
<1> QED
  BY <1>2, GrantInvariant, PTL DEF Spec, GrantCommitsWithItsPlan

-----------------------------------------------------------------------------
(* The helper implements the register *)

\* The refinement mapping, by its parts.
Intent == IF journal.cleanup THEN {NoPlan} ELSE {journal.pending} \ {NoPlan}
Carried == {p \in PlansOrNone : LivePlan(p)}

\* The document names the plan a kernel carries, so it carries no other.
LEMMA CarriesOne ==
    ASSUME NEW plan \in PlansOrNone, LivePlan(plan)
    PROVE  Carried = {plan}
<1>1. ASSUME NEW p \in PlansOrNone, LivePlan(p)
      PROVE  p = plan
  BY <1>1 DEF LivePlan, Carries, NoTable, CommittedDoc
<1> QED
  BY <1>1 DEF Carried

\* A kernel that is not written carries what it carried.
LEMMA CarriedStays ==
    ASSUME UNCHANGED <<nft, routing>>
    PROVE  Carried' = Carried
BY DEF Carried, LivePlan

\* An unfinished journal, and no other, announces a change.
LEMMA IntentOfJournal ==
    /\ Interrupted => Intent # {}
    /\ ~Interrupted => Intent = {}
BY DEF Intent, Interrupted

\* Announcing a transition announces its plan.
LEMMA BeginAnnounces ==
    ASSUME ~LateSaves, HelperTypeOK, ControlInv, KernelInv, pc = "idle", mem.init,
           ~Interrupted, NEW next \in Plans, NEW lost, NEW receipt, NEW keep, NEW auth,
           NEW undo, Begin(next, lost, receipt, keep, auth, undo)
    PROVE  Register!Announce \/ UNCHANGED Register!regVars
<1>1. Carried = {journal.active} /\ Intent = {}
  BY CarriesOne, IntentOfJournal DEF KernelInv, HelperTypeOK, Journals
<1>2. UNCHANGED Carried
  BY CarriedStays DEF Begin
<1>3. CASE UNCHANGED journal
  BY <1>2, <1>3 DEF Register!regVars, Intent, Carried
<1>4. CASE journal' # journal
  <2>1. /\ journal'.active = mem.current /\ journal'.pending = next
        /\ journal'.cleanup = FALSE
    BY <1>4, FailedSaveKeeps DEF Begin
  <2>2. mem.current = journal.active
    BY DEF ControlInv
  <2>3. Intent' = {next} /\ next \in PlansOrNone
    BY <2>1, PlansAreSome DEF Intent, PlansOrNone
  <2> QED
    BY <1>1, <1>2, <2>1, <2>2, <2>3 DEF Register!Announce, Intent, Carried
<1> QED
  BY <1>3, <1>4

\* Announcing a cleanup announces that no plan is to be left.
LEMMA CleanupAnnounces ==
    ASSUME ~LateSaves, HelperTypeOK, ControlInv, KernelInv, pc = "idle", mem.init,
           ~Interrupted, NEW receipt, CleanupWith(receipt)
    PROVE  Register!Announce \/ UNCHANGED Register!regVars
<1>1. Carried = {journal.active} /\ Intent = {}
  BY CarriesOne, IntentOfJournal DEF KernelInv, HelperTypeOK, Journals
<1>2. UNCHANGED Carried
  BY CarriedStays DEF CleanupWith
<1>3. CASE UNCHANGED journal
  BY <1>2, <1>3 DEF Register!regVars, Intent, Carried
<1>4. CASE journal' # journal
  <2>1. journal'.active = mem.current /\ journal'.cleanup = TRUE
    BY <1>4, FailedSaveKeeps DEF CleanupWith, NoJournal
  <2>2. mem.current = journal.active
    BY DEF ControlInv
  <2>3. Intent' = {NoPlan} /\ NoPlan \in PlansOrNone
    BY <2>1, EmptyTypes DEF Intent
  <2> QED
    BY <1>1, <1>2, <2>1, <2>2, <2>3 DEF Register!Announce, Intent, Carried
<1> QED
  BY <1>3, <1>4

\* A save that names a value the kernel carries ends the change: with the value it
\* led to, or with the old one.
LEMMA SaveEnds ==
    ASSUME HelperTypeOK, Interrupted, ~Interrupted', UNCHANGED <<nft, routing>>,
           NEW plan \in PlansOrNone, LivePlan(plan), journal'.active = plan,
           plan = journal.active \/ Intent = {plan}
    PROVE  Register!Commit \/ Register!GiveUp
<1>1. Carried = {plan} /\ UNCHANGED Carried /\ Intent # {} /\ Intent' = {}
  <2>1. Intent' = {}
    BY DEF Intent, Interrupted
  <2> QED
    BY <2>1, CarriesOne, CarriedStays, IntentOfJournal
<1>2. CASE Intent = {plan}
  BY <1>1, <1>2 DEF Register!Commit, Intent, Carried
<1>3. CASE plan = journal.active
  BY <1>1, <1>3 DEF Register!GiveUp, Intent, Carried
<1> QED
  BY <1>2, <1>3

\* Whatever is done to the kernel under an unfinished journal is work.
LEMMA WritesWork ==
    ASSUME Interrupted, UNCHANGED journal
    PROVE  Register!Work
<1>1. Intent # {} /\ UNCHANGED Intent /\ Carried' \in SUBSET PlansOrNone
  BY IntentOfJournal DEF Intent, Carried
<1> QED
  BY <1>1 DEF Register!Work, Intent, Carried

\* A step that changes nothing of the plan in force, the change announced and the
\* kernel is not seen.
LEMMA Unseen ==
    ASSUME UNCHANGED <<journal, nft, routing>>
    PROVE  UNCHANGED Register!regVars
BY CarriedStays DEF Register!regVars, Intent, Carried

\* Nor is a save that only touches other fields.
LEMMA OtherFields ==
    ASSUME UNCHANGED <<nft, routing>>, journal'.active = journal.active,
           journal'.pending = journal.pending, journal'.cleanup = journal.cleanup
    PROVE  UNCHANGED Register!regVars
BY CarriedStays DEF Register!regVars, Intent, Carried

\* Every step of the helper is a step of the register or none of its own.
LEMMA RegisterStep ==
    ASSUME ~LateSaves, HelperTypeOK, ControlInv, RevokedInv, MemoryInv, KernelInv,
           [Next]_vars
    PROVE  [Register!Next]_(Register!regVars)
<1> USE DEF Register!Next
<1>1. CASE JournalSetting
  <2>1. PICK d : LET record == [journal EXCEPT !.newSettings = @ \cup {d}]
                 IN  journal' = record \/ SaveFails(record)
    BY <1>1 DEF JournalSetting
  <2>2. /\ journal'.active = journal.active /\ journal'.pending = journal.pending
        /\ journal'.cleanup = journal.cleanup
    BY <2>1, SaveFailsLeaves DEF HelperTypeOK, Journals
  <2> QED
    BY <1>1, <2>2, OtherFields DEF JournalSetting
<1>2. CASE Command \/ Unguard
  <2>1. Interrupted /\ UNCHANGED journal
    BY <1>2 DEF Command, Unguard, RunningPoints, ControlInv, TransitionPoints, Interrupted
  <2> QED
    BY <2>1, WritesWork
<1>3. CASE LinkLoss
  <2>1. UNCHANGED <<journal, nft>>
    BY <1>3 DEF LinkLoss
  <2>2. CASE Interrupted
    BY <2>1, <2>2, WritesWork
  <2>3. CASE ~Interrupted
    <3>1. PICK d \in Devices, f \in Families :
            routing' = [routing EXCEPT !.routes =
                          @ \ {r \in routing.routes : r.dev = d /\ r.fam = f}]
      BY <1>3 DEF LinkLoss
    <3>2. journal.active \in PlansOrNone /\ Carries(nft, routing, journal.active)
      BY <2>3 DEF KernelInv, LivePlan, HelperTypeOK, Journals
    <3>6. ASSUME NEW plan \in PlansOrNone, Carries(nft, routing, plan)
          PROVE  Carries(nft, routing', plan)
      BY <3>1, <3>6, LossCarries
    <3>3. Carries(nft, routing', journal.active)
      BY <3>2, <3>6
    <3>4. Carried = {journal.active}
      BY <3>2, CarriesOne DEF LivePlan
    <3>5. Carried' = {journal.active}
      <4>1. ASSUME NEW p \in PlansOrNone, Carries(nft, routing', p)
            PROVE  p = journal.active
        BY <3>3, <4>1 DEF Carries, NoTable, CommittedDoc
      <4> QED
        BY <2>1, <3>2, <3>3, <4>1 DEF Carried, LivePlan
    <3> QED
      BY <2>1, <3>4, <3>5 DEF Register!regVars, Intent, Carried
  <2> QED
    BY <2>2, <2>3
<1>4. CASE Commit
  <2> DEFINE record == Committed(job.next, job.receipt, mem.settings \cup job.wrote,
                                 job.auth, job.undo)
  <2>1. record.active = job.next /\ record.pending = NoPlan /\ record.cleanup = FALSE
    BY DEF Committed, NoJournal
  <2>2. UNCHANGED <<nft, routing>> /\ pc = "commit"
    BY <1>4 DEF Commit
  <2>3. Interrupted /\ LivePlan(job.next) /\ Intent = {job.next} /\ job.next \in PlansOrNone
    BY <2>2 DEF ControlInv, MemoryInv, KernelInv, TransitionPoints, Interrupted, Intent,
                HelperTypeOK, Jobs
  <2>4. CASE journal' = record
    BY <2>1, <2>2, <2>3, <2>4, SaveEnds DEF Interrupted
  <2>5. CASE UNCHANGED journal
    BY <2>2, <2>5, Unseen
  <2> QED
    BY <1>4, <2>4, <2>5, FailedSaveKeeps DEF Commit
<1>5. CASE Withdraw
  <2> DEFINE record == Committed(mem.current, NoReceipt, mem.settings, job.keep, mem.undo)
  <2>1. record.active = mem.current /\ record.pending = NoPlan /\ record.cleanup = FALSE
    BY DEF Committed, NoJournal
  <2>2. UNCHANGED <<nft, routing>> /\ pc = "withdraw"
    BY <1>5 DEF Withdraw
  <2>3. /\ Interrupted /\ LivePlan(mem.current) /\ mem.current = journal.active
        /\ mem.current \in PlansOrNone
    BY <2>2 DEF ControlInv, KernelInv, TransitionPoints, Interrupted, HelperTypeOK, Memories
  <2>4. CASE journal' = record
    BY <2>1, <2>2, <2>3, <2>4, SaveEnds DEF Interrupted
  <2>5. CASE UNCHANGED journal
    BY <2>2, <2>5, Unseen
  <2> QED
    BY <1>5, <2>4, <2>5, FailedSaveKeeps DEF Withdraw
<1>6. CASE Clear
  <2> DEFINE record == Committed(NoPlan, job.receipt, {}, NoAuth, NoUndo)
  <2>1. record.active = NoPlan /\ record.pending = NoPlan /\ record.cleanup = FALSE
    BY DEF Committed, NoJournal
  <2>2. UNCHANGED <<nft, routing>> /\ pc = "clear"
    BY <1>6 DEF Clear
  <2>3. Interrupted /\ LivePlan(NoPlan) /\ Intent = {NoPlan} /\ NoPlan \in PlansOrNone
    BY <2>2, EmptyTypes DEF ControlInv, KernelInv, Interrupted, Intent
  <2>4. CASE journal' = record
    BY <2>1, <2>2, <2>3, <2>4, SaveEnds DEF Interrupted
  <2>5. CASE UNCHANGED journal
    BY <2>2, <2>5, Unseen
  <2> QED
    BY <1>6, <2>4, <2>5, FailedSaveKeeps DEF Clear
<1>7. CASE Resettle
  <2> DEFINE record == IF journal.cleanup
                         THEN Committed(NoPlan, journal.receipt, {}, NoAuth, NoUndo)
                         ELSE Committed(journal.active, NoReceipt, journal.settings,
                                        journal.auth, journal.undo)
             plan == IF journal.cleanup THEN NoPlan ELSE journal.active
  <2>1. record.active = plan /\ record.pending = NoPlan /\ record.cleanup = FALSE
    BY DEF Committed, NoJournal
  <2>2. UNCHANGED <<nft, routing>> /\ pc = "resettle"
    BY <1>7 DEF Resettle
  <2>3. /\ Interrupted /\ LivePlan(plan) /\ plan \in PlansOrNone
        /\ plan = journal.active \/ Intent = {plan}
    BY <2>2, EmptyTypes DEF ControlInv, KernelInv, Interrupted, Intent, HelperTypeOK, Journals
  <2> HIDE DEF plan
  <2>4. CASE journal' = record
    BY <2>1, <2>2, <2>3, <2>4, SaveEnds DEF Interrupted
  <2>5. CASE UNCHANGED journal
    BY <2>2, <2>5, Unseen
  <2> QED
    BY <1>7, <2>4, <2>5, FailedSaveKeeps DEF Resettle
<1>8. CASE ApplyAgain
  <2> DEFINE record == Committed(mem.current, NoReceipt, mem.settings, mem.auth, mem.undo)
  <2>1. record.active = mem.current /\ record.pending = NoPlan /\ record.cleanup = FALSE
    BY DEF Committed, NoJournal
  <2>2. /\ UNCHANGED <<nft, routing>> /\ mem.current = journal.active
        /\ journal.pending = NoPlan /\ journal.cleanup = FALSE
    BY <1>8 DEF ApplyAgain, Ready, ControlInv, Interrupted, HelperTypeOK, Journals
  <2>3. CASE journal' = record
    BY <2>1, <2>2, <2>3, OtherFields
  <2>4. CASE UNCHANGED journal
    BY <2>2, <2>4, Unseen
  <2> QED
    BY <1>8, <2>3, <2>4, FailedSaveKeeps DEF ApplyAgain
<1>9. CASE CleanupNothing
  <2>1. /\ UNCHANGED <<nft, routing>> /\ NoPlan = journal.active
        /\ journal.pending = NoPlan /\ journal.cleanup = FALSE
    BY <1>9 DEF CleanupNothing, Ready, ControlInv, Interrupted, HelperTypeOK, Journals
  <2>2. CASE journal' = NoJournal
    BY <2>1, <2>2, OtherFields DEF NoJournal
  <2>3. CASE UNCHANGED journal
    BY <2>1, <2>3, Unseen
  <2> QED
    BY <1>9, <2>2, <2>3, FailedSaveKeeps DEF CleanupNothing
<1>10. CASE Apply
  BY <1>10, BeginAnnounces DEF Apply, Ready
<1>11. CASE Activate
  BY <1>11, BeginAnnounces DEF Activate, Ready
<1>12. CASE Refresh
  BY <1>12, BeginAnnounces DEF Refresh, Ready
<1>13. CASE Cleanup
  BY <1>13, CleanupAnnounces DEF Cleanup, Ready
<1>14. CASE Restore
  BY <1>14, BeginAnnounces, CleanupAnnounces DEF Restore, Ready, PlansOrNone
<1>15. CASE RestoreRuntime
  BY <1>15, BeginAnnounces, CleanupAnnounces DEF RestoreRuntime, Ready
<1>16. CASE UNCHANGED <<journal, nft, routing>>
  BY <1>16, Unseen
<1> QED
  BY <1>1, <1>2, <1>3, <1>4, <1>5, <1>6, <1>7, <1>8, <1>9, <1>10, <1>11, <1>12, <1>13,
     <1>14, <1>15, <1>16
  DEF Next, Transition, Request, vars, WriteSetting, StartStages, CommandFails, CheckForward,
      CheckRollback, Unset, CleanupSettings, CheckRecovery, Adopt, Reconcile, Recover, Crash

\* Clients see one applied plan that changes all at once, whatever fails and
\* wherever the helper dies: every behaviour of the helper is one of the register.
THEOREM HelperImplementsRegister ==
    ASSUME ~LateSaves
    PROVE  Spec => ImplementsRegister
<1>1. Init => Register!Init
  <2> SUFFICES ASSUME Init PROVE Register!Init
    OBVIOUS
  <2>1. LivePlan(NoPlan)
    BY DEF Init, LivePlan, Carries
  <2>2. Carried = {NoPlan} /\ Intent = {} /\ journal.active = NoPlan
    BY <2>1, CarriesOne, EmptyTypes DEF Init, NoJournal, Intent
  <2> QED
    BY <2>2 DEF Register!Init, Carried, Intent
<1>2. /\ HelperTypeOK /\ ControlInv /\ RevokedInv /\ MemoryInv /\ KernelInv /\ [Next]_vars
      => [Register!Next]_(Register!regVars)
  BY RegisterStep
<1> QED
  BY <1>1, <1>2, MemoryInvariant, KernelFollowsJournal, PTL
  DEF Spec, ImplementsRegister, Register!Spec
-----------------------------------------------------------------------------
(* The guard covers an update *)

\* All rules of a plan are live, and the terminal route of each of its tables.
Covered(live, plan) ==
    /\ Own(plan).rules \subseteq live.rules
    /\ \A r \in Own(plan).routes : IsTerminal(r) => r \in live.routes

\* What a transition runs before it verifies the next plan, and the retirement
\* after it, which spares that plan's rules and terminal routes.
Guarding(previous, next) == {GuardDoc(previous, next), ActivatedDoc(next)}
Opening(previous, next) ==
    ForwardSteps(next) \cup {LoadDoc(doc) : doc \in Guarding(previous, next)}
Sparing(next) ==
    {DeleteRule(f, t) : f \in Families, t \in Nat \ (1..LaneCount(next))}
    \cup {FlushTable(f, t) : f \in Families, t \in Nat \ (1..LaneCount(next))}
    \cup {DeleteRoute(r) : r \in [fam: Families, tab: Nat, dev: Devices, via: Vias]}
StageCommands(previous, next) ==
    Opening(previous, next) \cup Sparing(next)
    \cup {Verify(next, next), LoadDoc(CommittedDoc(next))}

\* The commands that are left of the stages, where the verification is the v-th
\* of them, or was run when v is 0.
Staged(script, previous, next, v) ==
    /\ script \in Seq(StageCommands(previous, next)) /\ v \in 0..Len(script)
    /\ \A i \in 1..(v - 1) : script[i] \in Opening(previous, next)
    /\ v # 0 => script[v] = Verify(next, next) /\ v < Len(script)
    /\ \A i \in (v + 1)..(Len(script) - 1) : script[i] \in Sparing(next)
    /\ script # <<>> => script[Len(script)] = LoadDoc(CommittedDoc(next))

\* Between the previous plan's document and the next one's there is only the guard;
\* it is lifted when the next plan was verified, whose rules and terminals stay.
StagesInv ==
    /\ pc = "settings" => LivePlan(mem.current)
    /\ pc = "forward" =>
         /\ routing = [routes |-> routing.routes, rules |-> routing.rules]
         /\ \E v \in 0..Len(todo) :
              /\ Staged(todo, mem.current, job.next, v)
              /\ v = 0 => Covered(routing, job.next)
         /\ IF todo = <<>> THEN nft = CommittedDoc(job.next)
            ELSE \/ nft \in Guarding(mem.current, job.next)
                 \/ Head(todo) = LoadDoc(GuardDoc(mem.current, job.next)) /\ LivePlan(mem.current)
    /\ pc = "commit" => LivePlan(job.next)

\* The retirement of a plan spares what the next one has.
LEMMA RetirementSpares ==
    ASSUME NEW previous, NEW next, LaneCount(previous) \in Nat,
           \A f \in Families, t \in 1..LaneCount(previous) :
             HasUnicast(previous, f, t) =>
               Unicast(previous, f, t) \in [fam: Families, tab: Nat, dev: Devices, via: Vias]
    PROVE  RetireSteps(previous, next) \in Seq(Sparing(next))
<1> DEFINE S == Sparing(next)
           n == LaneCount(previous)
           F == [x \in Families \X (1..n) |-> OldRules(next, x[1], x[2])]
           G == [x \in Families \X (1..n) |-> OldRoutes(previous, next, x[1], x[2])]
           sF == [i \in 1..(2 * n) |-> F[<<VisitedFamily(i), VisitedTable(i)>>]]
           sG == [i \in 1..(2 * n) |-> G[<<VisitedFamily(i), VisitedTable(i)>>]]
<1>1. ASSUME NEW f \in Families, NEW t \in 1..n
      PROVE  F[<<f, t>>] \in Seq(S) /\ G[<<f, t>>] \in Seq(S)
  <2>1. F[<<f, t>>] = OldRules(next, f, t) /\ G[<<f, t>>] = OldRoutes(previous, next, f, t)
    OBVIOUS
  <2>2. ~HasTable(next, t) => DeleteRule(f, t) \in S /\ FlushTable(f, t) \in S
    BY DEF HasTable, Sparing
  <2>3. HasUnicast(previous, f, t) => DeleteRoute(Unicast(previous, f, t)) \in S
    BY DEF Sparing
  <2> HIDE DEF S, F, G
  <2> QED BY <2>1, <2>2, <2>3 DEF OldRules, OldRoutes
<1>2. /\ \A i \in 1..(2 * n) : F[<<VisitedFamily(i), VisitedTable(i)>>]
                = OldRules(next, VisitedFamily(i), VisitedTable(i))
      /\ \A i \in 1..(2 * n) : G[<<VisitedFamily(i), VisitedTable(i)>>]
                = OldRoutes(previous, next, VisitedFamily(i), VisitedTable(i))
  BY RemovalStep
<1> HIDE DEF S, F, G
<1>3. FlattenSeq(sF) \in Seq(S) /\ FlattenSeq(sG) \in Seq(S)
  <2> HIDE DEF n
  <2>1. n \in Nat
    BY DEF n
  <2> QED BY <1>1, <2>1, PerLaneFamilyAre
<1>4. RetireSteps(previous, next) = FlattenSeq(sF) \o FlattenSeq(sG)
  <2>1. /\ sF = [i \in 1..(2 * n) |-> OldRules(next, VisitedFamily(i), VisitedTable(i))]
        /\ sG = [i \in 1..(2 * n) |-> OldRoutes(previous, next, VisitedFamily(i), VisitedTable(i))]
    BY <1>2
  <2> QED BY <2>1 DEF RetireSteps, PerLaneFamily
<1> HIDE DEF sF, sG
<1> QED BY <1>3, <1>4 DEF S

\* The stages are the guard, the next plan's routes, its activation and
\* verification, the retirement and the end of the guard.
LEMMA StagesBegin ==
    ASSUME NEW previous \in PlansOrNone, NEW next \in PlansOrNone, NEW lost
    PROVE  LET script == ForwardScript(previous, next, lost)
           IN  /\ script # <<>> /\ Head(script) = LoadDoc(GuardDoc(previous, next))
               /\ \E v \in 1..Len(script) : Staged(script, previous, next, v)
<1> DEFINE basis == RoutingBasis(previous, lost)
           guard == LoadDoc(GuardDoc(previous, next))
           activate == LoadDoc(ActivatedDoc(next))
           verify == Verify(next, next)
           finish == LoadDoc(CommittedDoc(next))
           T == TransitionSteps(basis, next)
           R == IF previous = NoPlan THEN <<>> ELSE RetireSteps(basis, next)
           C == StageCommands(previous, next)
           v == Len(T) + 3
<1>1. T \in Seq(ForwardSteps(next))
  BY PlanLanes, TransitionStepsAre
<1>2. R \in Seq(Sparing(next))
  <2>1. LaneCount(basis) = LaneCount(previous) /\ LaneCount(previous) \in Nat
    BY PlanLanes, BasisLanes
  <2>2. ASSUME NEW f \in Families, NEW t \in 1..LaneCount(basis), HasUnicast(basis, f, t)
        PROVE  Unicast(basis, f, t) \in [fam: Families, tab: Nat, dev: Devices, via: Vias]
    <3>1. Unicast(basis, f, t) = Unicast(previous, f, t)
      BY <2>1, <2>2, BasisLanes
    <3>2. previous.lanes[t] \in Lanes
      BY <2>1, PlanLanes
    <3> QED BY <2>1, <3>1, <3>2 DEF Unicast, Lanes
  <2>3. RetireSteps(basis, next) \in Seq(Sparing(next))
    BY <2>1, <2>2, RetirementSpares
  <2> HIDE DEF basis
  <2> QED BY <2>3
<1>3. /\ ForwardSteps(next) \subseteq Opening(previous, next)
      /\ guard \in Opening(previous, next) /\ activate \in Opening(previous, next)
      /\ Opening(previous, next) \subseteq C /\ Sparing(next) \subseteq C
      /\ verify \in C /\ finish \in C
  <2>1. guard \in Opening(previous, next) /\ activate \in Opening(previous, next)
    BY DEF Opening, Guarding
  <2> QED BY <2>1 DEF Opening, StageCommands
<1>4. ForwardScript(previous, next, lost) = <<guard>> \o T \o <<activate, verify>> \o R \o <<finish>>
  BY DEF ForwardScript
<1> HIDE DEF guard, activate, verify, finish, T, R, C, basis
<1> DEFINE O == Opening(previous, next)
           P == Sparing(next)
<1>5. T \in Seq(O) /\ R \in Seq(P)
  BY <1>1, <1>2, <1>3
<1> DEFINE a == <<guard>> \o T
           b == a \o <<activate, verify>>
           c == b \o R
           d == c \o <<finish>>
<1> HIDE DEF O, P
<1>6. O \subseteq C /\ P \subseteq C /\ guard \in O /\ activate \in O /\ verify \in C /\ finish \in C
  BY <1>3 DEF O, P
<1>7. /\ a \in Seq(O) /\ Len(a) = Len(T) + 1 /\ a[1] = guard
      /\ \A i \in 1..Len(a) : a[i] \in O
  BY <1>5, <1>6
<1> HIDE DEF a
<1>8. Len(T) \in Nat /\ Len(R) \in Nat
  BY <1>5
<1>9. /\ b \in Seq(C) /\ Len(b) = v /\ b[v] = verify /\ b[1] = guard
      /\ \A i \in 1..(v - 1) : b[i] \in O
  <2>1. a \in Seq(C) /\ <<activate, verify>> \in Seq(C)
    BY <1>6, <1>7
  <2>2. b \in Seq(C) /\ Len(b) = v
    BY <1>7, <1>8, <2>1
  <2>3. /\ \A i \in 1..Len(a) : b[i] = a[i]
        /\ b[Len(a) + 1] = activate /\ b[Len(a) + 2] = verify
    BY <1>7, <1>8, <2>1
  <2> QED BY <1>6, <1>7, <1>8, <2>2, <2>3
<1> HIDE DEF b
<1>10. /\ c \in Seq(C) /\ Len(c) = v + Len(R) /\ c[v] = verify /\ c[1] = guard
       /\ \A i \in 1..(v - 1) : c[i] \in O
       /\ \A i \in (v + 1)..Len(c) : c[i] \in P
  <2>1. R \in Seq(C)
    BY <1>5, <1>6
  <2>2. c \in Seq(C) /\ Len(c) = v + Len(R)
    BY <1>9, <2>1
  <2>3. /\ \A i \in 1..v : c[i] = b[i]
        /\ \A i \in 1..Len(R) : c[v + i] = R[i]
    BY <1>8, <1>9, <2>1
  <2>4. \A i \in (v + 1)..Len(c) : i - v \in 1..Len(R) /\ c[i] = R[i - v]
    BY <1>8, <2>2, <2>3
  <2> QED BY <1>5, <1>8, <1>9, <2>2, <2>3, <2>4
<1> HIDE DEF c
<1>11. /\ d \in Seq(C) /\ Len(d) = v + Len(R) + 1 /\ d[v] = verify /\ d[1] = guard
       /\ \A i \in 1..(v - 1) : d[i] \in O
       /\ \A i \in (v + 1)..(Len(d) - 1) : d[i] \in P
       /\ d[Len(d)] = finish
  <2>1. <<finish>> \in Seq(C)
    BY <1>6
  <2>2. d \in Seq(C) /\ Len(d) = v + Len(R) + 1
    BY <1>8, <1>10, <2>1
  <2>3. /\ \A i \in 1..Len(c) : d[i] = c[i]
        /\ d[Len(c) + 1] = finish
    BY <1>10, <2>1
  <2> QED BY <1>8, <1>10, <2>2, <2>3
<1>12. d = ForwardScript(previous, next, lost)
  BY <1>4 DEF a, b, c
<1> HIDE DEF d
<1>13. v \in 1..Len(d) /\ v < Len(d) /\ v # 0 /\ v \in 0..Len(d)
  BY <1>8, <1>11
<1>14. Staged(d, previous, next, v)
  BY <1>11, <1>13 DEF Staged, O, P, C, verify, finish
<1>15. d # <<>> /\ Head(d) = guard
  BY <1>11, <1>13
<1> QED BY <1>12, <1>13, <1>14, <1>15 DEF guard

\* A retirement leaves the rules and terminal routes of the next plan.
LEMMA SparingKeeps ==
    ASSUME NEW next \in PlansOrNone, NEW live, Covered(live, next), NEW cmd \in Sparing(next),
           live = [routes |-> live.routes, rules |-> live.rules],
           NEW after, after = ApplyRoutingStep(live, cmd)
    PROVE  /\ after = [routes |-> after.routes, rules |-> after.rules]
           /\ Covered(after, next)
<1>1. ASSUME NEW f \in Families, NEW t \in Nat \ (1..LaneCount(next)), cmd = DeleteRule(f, t)
      PROVE  /\ after = [routes |-> after.routes, rules |-> after.rules]
             /\ Covered(after, next)
  <2>1. after = [live EXCEPT !.rules = @ \ {Rule(f, t)}]
    BY <1>1, DeleteRuleApplied
  <2>2. \A r \in Own(next).rules : r # Rule(f, t)
    BY OwnRules DEF LaneFamilies, Rule
  <2>3. after.routes = live.routes /\ after.rules = live.rules \ {Rule(f, t)}
    BY <2>1
  <2>4. after = [routes |-> after.routes, rules |-> after.rules]
    BY <2>1
  <2> QED BY <2>2, <2>3, <2>4 DEF Covered
<1>2. ASSUME NEW f \in Families, NEW t \in Nat \ (1..LaneCount(next)), cmd = FlushTable(f, t)
      PROVE  /\ after = [routes |-> after.routes, rules |-> after.rules]
             /\ Covered(after, next)
  <2>1. after = [live EXCEPT !.routes = {r \in @ : r.fam # f \/ r.tab # t}]
    BY <1>2, FlushTableApplied
  <2>2. \A r \in Own(next).routes : IsTerminal(r) => r.tab # t
    <3> SUFFICES ASSUME NEW r \in Own(next).routes, IsTerminal(r) PROVE r.tab # t
      OBVIOUS
    <3>1. PICK ft \in LaneFamilies(next) : r = Terminal(ft[1], ft[2])
      BY OwnTerminal
    <3> QED BY <3>1 DEF LaneFamilies, Terminal
  <2>3. /\ after.routes = {r \in live.routes : r.fam # f \/ r.tab # t}
        /\ after.rules = live.rules
    BY <2>1
  <2>4. after = [routes |-> after.routes, rules |-> after.rules]
    BY <2>1
  <2> QED BY <2>2, <2>3, <2>4 DEF Covered
<1>3. ASSUME NEW q \in [fam: Families, tab: Nat, dev: Devices, via: Vias], cmd = DeleteRoute(q)
      PROVE  /\ after = [routes |-> after.routes, rules |-> after.rules]
             /\ Covered(after, next)
  <2>1. after = [live EXCEPT !.routes = @ \ {q}]
    BY <1>3, DeleteRouteApplied
  <2>2. ~IsTerminal(q)
    BY DEF IsTerminal, Vias
  <2>3. after.routes = live.routes \ {q} /\ after.rules = live.rules
    BY <2>1
  <2>4. after = [routes |-> after.routes, rules |-> after.rules]
    BY <2>1
  <2> QED BY <2>2, <2>3, <2>4 DEF Covered
<1> QED BY <1>1, <1>2, <1>3 DEF Sparing

\* Which commands load documents, and which verify.
LEMMA StageOps ==
    ASSUME NEW previous, NEW next
    PROVE  /\ \A cmd \in ForwardSteps(next) \cup Sparing(next) : cmd.op \notin {"nft", "verify"}
           /\ \A doc : LoadDoc(doc).op = "nft" /\ LoadDoc(doc).doc = doc
           /\ /\ Verify(next, next).op = "verify" /\ Verify(next, next).plan = next
              /\ Verify(next, next).basis = next
<1>1. \A r : ReplaceRoute(r).op = "replace" /\ DeleteRoute(r).op = "delete"
  BY DEF ReplaceRoute, DeleteRoute
<1>2. \A f, t : /\ AddRule(f, t).op = "addrule" /\ DeleteRule(f, t).op = "delrule"
                /\ FlushTable(f, t).op = "flush"
  BY DEF AddRule, DeleteRule, FlushTable
<1>3. ASSUME NEW cmd \in ForwardSteps(next) \cup Sparing(next) PROVE cmd.op \notin {"nft", "verify"}
  <2>1. cmd.op \in {"replace", "delete", "addrule", "delrule", "flush"}
    BY <1>1, <1>2 DEF ForwardSteps, Sparing
  <2> QED BY <2>1
<1> QED BY <1>3 DEF LoadDoc, Verify

\* A routing step leaves a record of routes and rules.
LEMMA ForwardShape ==
    ASSUME NEW next, NEW cmd \in ForwardSteps(next), NEW live,
           live = [routes |-> live.routes, rules |-> live.rules]
    PROVE  LET after == ApplyRoutingStep(live, cmd)
           IN  after = [routes |-> after.routes, rules |-> after.rules]
<1>1. ASSUME NEW r, cmd = ReplaceRoute(r)
      PROVE  LET after == ApplyRoutingStep(live, cmd)
             IN  after = [routes |-> after.routes, rules |-> after.rules]
  <2> DEFINE routes == {q \in live.routes : \/ q.fam # r.fam \/ q.tab # r.tab
                                            \/ IsTerminal(q) # IsTerminal(r)} \cup {r}
  <2>1. ApplyRoutingStep(live, cmd) = [live EXCEPT !.routes = routes]
    BY <1>1, ReplaceRouteApplied
  <2> HIDE DEF routes
  <2> QED BY <2>1
<1>2. ASSUME NEW r, cmd = DeleteRoute(r)
      PROVE  LET after == ApplyRoutingStep(live, cmd)
             IN  after = [routes |-> after.routes, rules |-> after.rules]
  BY <1>2, DeleteRouteApplied
<1>3. ASSUME NEW f, NEW t, cmd = AddRule(f, t)
      PROVE  LET after == ApplyRoutingStep(live, cmd)
             IN  after = [routes |-> after.routes, rules |-> after.rules]
  BY <1>3, AddRuleApplied
<1>4. \/ \E r : cmd = ReplaceRoute(r)
      \/ \E r : cmd = DeleteRoute(r)
      \/ \E f, t : cmd = AddRule(f, t)
  BY DEF ForwardSteps
<1> QED BY <1>1, <1>2, <1>3, <1>4

\* The next command of the stages keeps the guard over what is not verified yet.
LEMMA StagesGoOn ==
    ASSUME HelperTypeOK, StagesInv, pc = "forward", Command
    PROVE  StagesInv'
<1> DEFINE previous == mem.current
           next == job.next
           cmd == Head(todo)
           shaped(live) == live = [routes |-> live.routes, rules |-> live.rules]
<1>1. /\ todo # <<>> /\ ~Rejected(cmd) /\ todo' = Tail(todo)
      /\ UNCHANGED <<mem, pc, job>>
      /\ nft' = IF cmd.op = "nft" THEN cmd.doc ELSE nft
      /\ routing' = IF cmd.op \in {"nft", "verify"} THEN routing ELSE ApplyRoutingStep(routing, cmd)
  BY DEF Command, Effect
<1>2. shaped(routing)
  BY DEF StagesInv
<1>3. PICK v \in 0..Len(todo) : Staged(todo, previous, next, v) /\ (v = 0 => Covered(routing, next))
  BY DEF StagesInv
<1>4. next \in PlansOrNone
  BY DEF HelperTypeOK, Jobs
<1> DEFINE w == IF v = 0 THEN 0 ELSE v - 1
<1> HIDE DEF previous, next, cmd
<1>5. /\ Len(todo) \in Nat \ {0} /\ cmd = todo[1]
      /\ Len(Tail(todo)) = Len(todo) - 1
      /\ Len(todo) = 1 => Tail(todo) = <<>>
      /\ Len(todo) # 1 => Tail(todo) # <<>>
      /\ \A i \in 1..(Len(todo) - 1) : Tail(todo)[i] = todo[i + 1]
      /\ Tail(todo) \in Seq(StageCommands(previous, next))
  <2> DEFINE S == StageCommands(previous, next)
  <2>1. todo \in Seq(S) /\ todo # <<>>
    BY <1>1, <1>3 DEF Staged
  <2> HIDE DEF S
  <2>2. /\ Len(todo) \in Nat \ {0} /\ Head(todo) = todo[1]
        /\ Len(Tail(todo)) = Len(todo) - 1
        /\ \A i \in 1..(Len(todo) - 1) : Tail(todo)[i] = todo[i + 1]
        /\ Tail(todo) \in Seq(S)
    BY <2>1
  <2>3. Len(todo) = 1 => Tail(todo) = <<>>
    <3> DEFINE rest == Tail(todo)
    <3>1. rest \in Seq(S) /\ (Len(todo) = 1 => Len(rest) = 0)
      BY <2>2
    <3> HIDE DEF rest
    <3>2. rest \in Seq(S) /\ Len(rest) = 0 => rest = <<>>
      OBVIOUS
    <3>3. Len(todo) = 1 => rest = <<>>
      BY <3>1, <3>2
    <3> QED BY <3>3 DEF rest
  <2>4. Len(todo) # 1 => Tail(todo) # <<>>
    BY <2>2
  <2> QED BY <2>2, <2>3, <2>4 DEF cmd, S
<1>6. w \in 0..Len(Tail(todo)) /\ Staged(Tail(todo), previous, next, w)
  <2>1. v # 0 => v < Len(todo)
    BY <1>3 DEF Staged
  <2>2. w \in 0..Len(Tail(todo)) /\ w \in Nat /\ (w # 0 => v = w + 1 /\ w < Len(Tail(todo)))
    BY <1>3, <1>5, <2>1
  <2>3. \A i \in 1..(w - 1) : Tail(todo)[i] \in Opening(previous, next)
    BY <1>3, <1>5, <2>1, <2>2 DEF Staged
  <2>4. w # 0 => Tail(todo)[w] = Verify(next, next)
    BY <1>3, <1>5, <2>1, <2>2 DEF Staged
  <2>5. \A i \in (w + 1)..(Len(Tail(todo)) - 1) : Tail(todo)[i] \in Sparing(next)
    BY <1>3, <1>5, <2>1, <2>2 DEF Staged
  <2>6. Tail(todo) # <<>> => Tail(todo)[Len(Tail(todo))] = LoadDoc(CommittedDoc(next))
    BY <1>3, <1>5 DEF Staged
  <2> QED BY <1>5, <2>2, <2>3, <2>4, <2>5, <2>6 DEF Staged
<1>7. \/ nft \in Guarding(previous, next)
      \/ cmd = LoadDoc(GuardDoc(previous, next)) /\ LivePlan(previous)
  BY <1>1 DEF StagesInv, previous, next, cmd
<1>8. \A doc : LoadDoc(doc).op = "nft" /\ LoadDoc(doc).doc = doc
  BY StageOps
<1> DEFINE Goal == /\ shaped(routing')
                   /\ w = 0 => Covered(routing', next)
                   /\ IF Tail(todo) = <<>> THEN nft' = CommittedDoc(next)
                      ELSE nft' \in Guarding(previous, next)
<1>9. ASSUME v > 1 PROVE Goal
  <2>1. cmd \in Opening(previous, next) /\ w # 0 /\ Tail(todo) # <<>>
    BY <1>3, <1>5, <1>9 DEF Staged
  <2>2. CASE cmd \in ForwardSteps(next)
    <3>1. cmd.op \notin {"nft", "verify"}
      BY <2>2, StageOps
    <3>2. nft' = nft /\ routing' = ApplyRoutingStep(routing, cmd)
      BY <1>1, <3>1
    <3>3. nft \in Guarding(previous, next)
      BY <1>7, <1>8, <3>1
    <3>4. shaped(routing')
      BY <1>2, <2>2, <3>2, ForwardShape
    <3> QED BY <2>1, <3>2, <3>3, <3>4
  <2>3. CASE \E doc \in Guarding(previous, next) : cmd = LoadDoc(doc)
    <3>1. nft' \in Guarding(previous, next) /\ routing' = routing
      BY <1>1, <1>8, <2>3
    <3> QED BY <1>2, <2>1, <3>1
  <2> QED BY <2>1, <2>2, <2>3 DEF Opening
<1>10. ASSUME v = 1 PROVE Goal
  <2>1. cmd = Verify(next, next) /\ Tail(todo) # <<>>
    BY <1>3, <1>5, <1>10 DEF Staged
  <2>2. cmd.op = "verify" /\ cmd.plan = next /\ cmd.basis = next
    BY <2>1, StageOps
  <2>3. nft' = nft /\ routing' = routing
    BY <1>1, <2>2
  <2>4. nft \in Guarding(previous, next)
    BY <1>7, <1>8, <2>2
  <2>5. Within(Own(next), routing)
    BY <1>1, <2>2 DEF Rejected, VerifyFails
  <2>6. Covered(routing', next)
    BY <2>3, <2>5 DEF Within, Covered
  <2> QED BY <1>2, <2>1, <2>3, <2>4, <2>6
<1>11. ASSUME v = 0 /\ Len(todo) = 1 PROVE Goal
  <2>1. cmd = LoadDoc(CommittedDoc(next)) /\ Tail(todo) = <<>>
    BY <1>1, <1>3, <1>5, <1>11 DEF Staged
  <2>2. nft' = CommittedDoc(next) /\ routing' = routing
    BY <1>1, <1>8, <2>1
  <2> QED BY <1>2, <1>3, <1>11, <2>1, <2>2
<1>12. ASSUME v = 0 /\ Len(todo) # 1 PROVE Goal
  <2>1. cmd \in Sparing(next) /\ Tail(todo) # <<>>
    BY <1>1, <1>3, <1>5, <1>12 DEF Staged
  <2>2. cmd.op \notin {"nft", "verify"}
    BY <2>1, StageOps
  <2>3. nft' = nft /\ routing' = ApplyRoutingStep(routing, cmd)
    BY <1>1, <2>2
  <2>4. nft \in Guarding(previous, next)
    BY <1>7, <1>8, <2>2
  <2>5. shaped(routing') /\ Covered(routing', next)
    BY <1>2, <1>3, <1>4, <1>12, <2>1, <2>3, SparingKeeps DEF next
  <2> QED BY <2>1, <2>3, <2>4, <2>5
<1>13. Goal
  BY <1>3, <1>9, <1>10, <1>11, <1>12
<1>14. pc' = "forward" /\ mem' = mem /\ job' = job
  BY <1>1
<1> QED BY <1>1, <1>6, <1>13, <1>14 DEF StagesInv, previous, next

\* Losing routes through a device takes no rule and no terminal route.
LEMMA LossCovers ==
    ASSUME NEW plan \in PlansOrNone, NEW live, Covered(live, plan), NEW d \in Devices, NEW f,
           live = [routes |-> live.routes, rules |-> live.rules]
    PROVE  LET after == [live EXCEPT !.routes = @ \ {r \in live.routes : r.dev = d /\ r.fam = f}]
           IN  after = [routes |-> after.routes, rules |-> after.rules] /\ Covered(after, plan)
<1> DEFINE lost == {r \in live.routes : r.dev = d /\ r.fam = f}
           after == [live EXCEPT !.routes = @ \ lost]
<1>1. ASSUME NEW r \in Own(plan).routes, IsTerminal(r) PROVE r \notin lost
  <2>1. PICK ft \in LaneFamilies(plan) : r = Terminal(ft[1], ft[2])
    BY <1>1, OwnTerminal
  <2>2. r.dev = ""
    BY <2>1 DEF Terminal
  <2> QED BY <2>2, DevicesAssumption
<1> HIDE DEF lost
<1>2. after.routes = live.routes \ lost /\ after.rules = live.rules
  OBVIOUS
<1>3. after = [routes |-> after.routes, rules |-> after.rules]
  OBVIOUS
<1>4. Covered(after, plan)
  <2> HIDE DEF after
  <2> QED BY <1>1, <1>2 DEF Covered
<1> QED BY <1>3, <1>4 DEF lost

\* A transition that is announced starts from the plan that is live.
LEMMA BeginStages ==
    ASSUME HelperTypeOK, StagesInv, pc = "idle", NEW next, NEW lost, NEW receipt, NEW keep,
           NEW auth, NEW undo, NEW given, ExactlyOwns(mem.current, given),
           Begin(next, lost, receipt, keep, auth, undo)
    PROVE  StagesInv'
<1>1. LivePlan(mem.current)
  BY ExactlyCarries DEF HelperTypeOK, Memories
<1>2. UNCHANGED <<nft, routing>>
  BY DEF Begin
<1>3. \/ pc' = "settings" /\ mem'.current = mem.current
      \/ pc' = "idle"
  BY DEF Begin, HelperTypeOK, Memories
<1> QED BY <1>1, <1>2, <1>3 DEF StagesInv, LivePlan

\* A cleanup is no transition.
LEMMA CleanupStages ==
    ASSUME pc = "idle", NEW receipt, CleanupWith(receipt)
    PROVE  StagesInv'
BY DEF CleanupWith, StagesInv

\* Every step keeps the stages in their order.
LEMMA StagesStep ==
    ASSUME HelperTypeOK, StagesInv, [Next]_vars
    PROVE  StagesInv'
<1>1. CASE JournalSetting \/ WriteSetting
  <2>1. /\ pc = "settings" /\ pc' \in {"settings", "withdraw"}
        /\ UNCHANGED <<nft, routing, mem>>
    BY <1>1 DEF JournalSetting, WriteSetting, Goto
  <2> QED BY <2>1 DEF StagesInv, LivePlan
<1>2. CASE StartStages
  <2>1. /\ pc = "settings" /\ UNCHANGED <<nft, routing, mem>>
        /\ job'.next = job.next
        /\ \/ pc' = "repair"
           \/ pc' = "forward" /\ todo' = ForwardScript(mem.current, job.next, job.lost)
    BY <1>2 DEF StartStages, HelperTypeOK, Jobs
  <2>2. CASE pc' = "repair"
    BY <2>2 DEF StagesInv
  <2>3. CASE pc' = "forward" /\ todo' = ForwardScript(mem.current, job.next, job.lost)
    <3>1. LivePlan(mem.current)
      BY <2>1 DEF StagesInv
    <3>2. routing = [routes |-> routing.routes, rules |-> routing.rules]
      BY <3>1 DEF LivePlan, Carries, Nothing
    <3>3. mem.current \in PlansOrNone /\ job.next \in PlansOrNone
      BY DEF HelperTypeOK, Memories, Jobs
    <3>4. /\ todo' # <<>> /\ Head(todo') = LoadDoc(GuardDoc(mem.current, job.next))
          /\ \E v \in 1..Len(todo') : Staged(todo', mem.current, job.next, v)
      BY <2>3, <3>3, StagesBegin
    <3>5. \E v \in 0..Len(todo') :
            Staged(todo', mem.current, job.next, v) /\ (v = 0 => Covered(routing, job.next))
      BY <3>4
    <3> QED BY <2>1, <2>3, <3>1, <3>2, <3>4, <3>5 DEF StagesInv, LivePlan
  <2> QED BY <2>1, <2>2, <2>3
<1>3. CASE Command
  <2>1. CASE pc = "forward"
    BY <1>3, <2>1, StagesGoOn
  <2>2. CASE pc # "forward"
    BY <1>3, <2>2 DEF Command, RunningPoints, StagesInv
  <2> QED BY <2>1, <2>2
<1>4. CASE CommandFails \/ Unguard \/ CheckRollback \/ Withdraw \/ Unset \/ CleanupSettings
           \/ Clear \/ CheckRecovery \/ Resettle \/ Recover \/ Crash
  BY <1>4 DEF CommandFails, StartRollback, Unguard, CheckRollback, Withdraw, Unset,
              CleanupSettings, Clear, CheckRecovery, Resettle, Recover, Crash, Run, Return, Goto,
              RunningPoints, StagesInv
<1>5. CASE CheckForward
  <2>1. /\ pc = "forward" /\ UNCHANGED <<nft, routing, mem>>
        /\ \/ pc' = "rollback"
           \/ pc' = "commit" /\ job' = job /\ ExactlyOwns(job.next, {})
    BY <1>5 DEF CheckForward, StartRollback, Goto, Run
  <2>2. ExactlyOwns(job.next, {}) => LivePlan(job.next)
    BY ExactlyCarries DEF HelperTypeOK, Jobs
  <2> QED BY <2>1, <2>2 DEF StagesInv, LivePlan
<1>6. CASE Commit
  BY <1>6 DEF Commit, StartRollback, Run, Return, StagesInv
<1>7. CASE Apply \/ Activate \/ Refresh \/ Restore \/ RestoreRuntime
  <2>1. CASE Apply
    BY <2>1, BeginStages DEF Apply, Ready, OwnsFor
  <2>2. CASE Activate
    BY <2>2, BeginStages DEF Activate, Ready, OwnsFor
  <2>3. CASE Refresh
    BY <2>3, BeginStages DEF Refresh, Ready, OwnsFor
  <2>4. CASE Restore
    BY <2>4, BeginStages, CleanupStages DEF Restore, Ready
  <2>5. CASE RestoreRuntime
    BY <2>5, BeginStages, CleanupStages DEF RestoreRuntime, Ready, OwnsFor
  <2> QED BY <1>7, <2>1, <2>2, <2>3, <2>4, <2>5
<1>8. CASE Cleanup
  BY <1>8, CleanupStages DEF Cleanup, Ready
<1>9. CASE ApplyAgain \/ CleanupNothing \/ Adopt \/ Reconcile
  <2>1. pc = "idle" /\ pc' = "idle"
    BY <1>9 DEF ApplyAgain, CleanupNothing, Adopt, Reconcile, Ready
  <2> QED BY <2>1 DEF StagesInv
<1>10. CASE LinkLoss
  <2>1. UNCHANGED <<nft, mem, pc, job, todo>>
    BY <1>10 DEF LinkLoss
  <2>2. PICK d \in Devices, f \in Families :
          routing' = [routing EXCEPT !.routes = @ \ {r \in routing.routes : r.dev = d /\ r.fam = f}]
    BY <1>10 DEF LinkLoss
  <2>3. mem.current \in PlansOrNone /\ job.next \in PlansOrNone
    BY DEF HelperTypeOK, Memories, Jobs
  <2>4. ASSUME NEW plan \in PlansOrNone, Carries(nft, routing, plan)
        PROVE  Carries(nft, routing', plan)
    BY <2>2, <2>4, LossCarries
  <2>5. CASE pc = "forward"
    <3>1. routing = [routes |-> routing.routes, rules |-> routing.rules]
      BY <2>5 DEF StagesInv
    <3>2. ASSUME NEW plan \in PlansOrNone, Covered(routing, plan)
          PROVE  Covered(routing', plan)
      <4> DEFINE after == [routing EXCEPT !.routes = @ \ {r \in routing.routes : r.dev = d /\ r.fam = f}]
      <4>1. Covered(after, plan)
        BY <3>1, <3>2, LossCovers
      <4> HIDE DEF after
      <4>2. routing' = after
        BY <2>2 DEF after
      <4> QED BY <4>1, <4>2
    <3>3. routing' = [routes |-> routing'.routes, rules |-> routing'.rules]
      <4> DEFINE lost == {r \in routing.routes : r.dev = d /\ r.fam = f}
      <4> HIDE DEF lost
      <4> QED BY <2>2, <3>1 DEF lost
    <3>4. \E v \in 0..Len(todo) :
            Staged(todo, mem.current, job.next, v) /\ (v = 0 => Covered(routing', job.next))
      BY <2>3, <2>5, <3>2 DEF StagesInv
    <3>5. LivePlan(mem.current) => Carries(nft, routing', mem.current)
      BY <2>3, <2>4 DEF LivePlan
    <3> QED BY <2>1, <2>5, <3>3, <3>4, <3>5 DEF StagesInv, LivePlan
  <2>6. CASE pc # "forward"
    BY <2>1, <2>3, <2>4, <2>6 DEF StagesInv, LivePlan
  <2> QED BY <2>5, <2>6
<1>11. CASE UNCHANGED vars
  BY <1>11 DEF vars, StagesInv, LivePlan
<1> QED
  BY <1>1, <1>2, <1>3, <1>4, <1>5, <1>6, <1>7, <1>8, <1>9, <1>10, <1>11
  DEF Next, Transition, Request

\* While a transition moves forward, whatever fails and whenever links drop, no
\* document classifies traffic without the guard unless all rules and terminal
\* routes of its plan are live: what is not verified is never open.
THEOREM UpdatesAreGuarded == Spec => []GuardCoversUpdate
<1>1. Init => StagesInv
  BY DEF Init, StagesInv
<1>2. HelperTypeOK /\ StagesInv /\ [Next]_vars => StagesInv'
  BY StagesStep
<1>3. HelperTypeOK /\ StagesInv => GuardCoversUpdate
  <2> SUFFICES ASSUME HelperTypeOK, StagesInv, pc \in {"forward", "commit"},
                      nft # NoTable, ~nft.guard
               PROVE  nft.pending = NoPlan /\ Covered(routing, nft.active)
    BY DEF GuardCoversUpdate, Covered
  <2>1. ASSUME NEW plan \in PlansOrNone, LivePlan(plan)
        PROVE  nft.pending = NoPlan /\ Covered(routing, nft.active)
    BY <2>1 DEF LivePlan, Carries, CommittedDoc, Covered
  <2>2. mem.current \in PlansOrNone /\ job.next \in PlansOrNone
    BY DEF HelperTypeOK, Memories, Jobs
  <2>3. CASE pc = "commit"
    BY <2>1, <2>2, <2>3 DEF StagesInv
  <2>4. CASE pc = "forward" /\ todo = <<>>
    <3>1. nft = CommittedDoc(job.next)
      BY <2>4 DEF StagesInv
    <3>2. Covered(routing, job.next)
      BY <2>4 DEF StagesInv, Staged
    <3> QED BY <3>1, <3>2 DEF CommittedDoc
  <2>5. CASE pc = "forward" /\ todo # <<>>
    <3>1. nft \notin Guarding(mem.current, job.next)
      BY DEF Guarding, GuardDoc, ActivatedDoc
    <3> QED BY <2>1, <2>2, <2>5, <3>1 DEF StagesInv
  <2> QED BY <2>3, <2>4, <2>5
<1> QED BY <1>1, <1>2, <1>3, HelperTypes, PTL DEF Spec

-----------------------------------------------------------------------------
(* Wherever it stopped, recovery knows the state it left *)

\* What a transition retires: nothing without a previous plan.
Retirement(previous, basis, next) ==
    IF previous = NoPlan THEN <<>> ELSE RetireSteps(basis, next)

\* The kernel after k commands of the stages.
StagedAt(k, doc, live, previous, next, lost) ==
    LET basis == RoutingBasis(previous, lost)
        T == TransitionSteps(basis, next)
        R == Retirement(previous, basis, next)
        p == Len(T)
        r == Len(R)
        turned == StateAfter(Own(basis), T)
    IN  \/ k = 0 /\ doc = CommittedDoc(previous) /\ live = Own(basis)
        \/ /\ k \in 1..(p + 1) /\ doc = GuardDoc(previous, next)
           /\ live = StatesAfter(Own(basis), T)[k - 1]
        \/ k = p + 2 /\ doc = ActivatedDoc(next) /\ live = turned
        \/ /\ k \in (p + 3)..(p + 3 + r) /\ doc = ActivatedDoc(next)
           /\ live = StatesAfter(turned, R)[k - p - 3]
        \/ k = p + r + 4 /\ doc = CommittedDoc(next) /\ live = Own(next)

\* The routing states a transition forward can have under a document.
Starts(doc, active, pending, lost) ==
    LET basis == RoutingBasis(active, lost)
        activated == ActivatedStates(basis, pending)
    IN  {s \in {Own(basis)} : doc = CommittedDoc(active)}
        \cup {s \in PreparedStates(basis, pending) :
                doc \in {GuardDoc(active, pending), UnguardedDoc(active, pending)}}
        \cup {s \in activated : doc = ActivatedDoc(pending)}
        \cup {s \in activated \cup {Own(pending)} : doc = CommittedDoc(pending)}

\* A kernel with some part of a rollback's removals away from one of those.
Recognised(doc, live, active, pending, lost) ==
    \E s \in Starts(doc, active, pending, lost) :
        live \in StatesAlong(s, RollbackRemovals(active, pending))

\* A kernel without the table, where the previous plan is being installed anew.
HalfBack(doc, live, active, lost) ==
    /\ doc = NoTable /\ active # NoPlan
    /\ live \in AbsentRollbackStates(RoutingBasis(active, lost))

\* RestoreScript, by the number of tables to delete: none or one.
UndoScript(tables, active, pending, lost) ==
    LET basis == RoutingBasis(active, lost)
    IN  RollbackRemovals(active, pending)
        \o (IF tables = 0 THEN <<>> ELSE <<LoadDoc(NoTable)>>)
        \o (IF active = NoPlan THEN <<>>
            ELSE InstallSteps(basis) \o <<LoadDoc(CommittedDoc(active)), Verify(active, basis)>>)

\* The kernel after k commands of a rollback.  Its removals begin in a state of the
\* transition, or, when it undoes a rollback that failed, in one of that rollback's.
UndoneAt(k, tables, doc, live, failures, active, pending, lost) ==
    LET basis == RoutingBasis(active, lost)
        removals == RollbackRemovals(active, pending)
        q == Len(removals) + tables
        i == IF active = NoPlan THEN 0 ELSE Len(InstallSteps(basis))
    IN  \/ /\ k \in 0..Len(removals) /\ (doc = NoTable <=> tables = 0)
           /\ \E s \in Starts(doc, active, pending, lost)
                       \cup {x \in AbsentRollbackStates(basis) : failures >= 2 /\ HalfBack(doc, x, active, lost)},
                 j \in k..Len(removals) : live = StatesAfter(s, removals)[j]
        \/ /\ k \in q..(q + i) /\ doc = NoTable
           /\ live = StatesAfter(Nothing, InstallSteps(basis))[k - q]
        \/ /\ active # NoPlan /\ k \in (q + i + 1)..(q + i + 2)
           /\ doc = CommittedDoc(active) /\ live = Own(basis)

\* Only without a plan is there no basis.
LEMMA BasisNone ==
    ASSUME NEW plan \in PlansOrNone, NEW lost
    PROVE  RoutingBasis(plan, lost) = NoPlan <=> plan = NoPlan
<1> DEFINE lanes == [t \in DOMAIN plan.lanes |->
                       [plan.lanes[t] EXCEPT !.via =
                          [f \in Families |-> IF <<f, t>> \in lost THEN "none"
                                              ELSE plan.lanes[t].via[f]]]]
           basis == RoutingBasis(plan, lost)
<1>1. basis = [plan EXCEPT !.lanes = lanes]
  BY DEF RoutingBasis
<1>2. CASE plan = NoPlan
  <2>1. DOMAIN plan.lanes = {}
    BY <1>2 DEF NoPlan
  <2>2. lanes = <<>>
    BY <2>1
  <2> HIDE DEF lanes, basis
  <2> QED BY <1>1, <1>2, <2>2 DEF NoPlan, basis
<1>3. CASE plan \in Plans
  <2>1. plan = [gen |-> plan.gen, lanes |-> plan.lanes] /\ plan.gen # 0
    BY <1>3, MaxGenAssumption DEF Plans
  <2> HIDE DEF lanes, basis
  <2>2. basis.gen = plan.gen
    BY <1>1, <2>1
  <2> QED BY <2>1, <2>2 DEF NoPlan, basis
<1> QED BY <1>2, <1>3 DEF PlansOrNone

\* The commands of the stages, one by one.
LEMMA StagesListed ==
    ASSUME NEW previous \in PlansOrNone, NEW next \in PlansOrNone, NEW lost
    PROVE  LET script == ForwardScript(previous, next, lost)
               basis == RoutingBasis(previous, lost)
               T == TransitionSteps(basis, next)
               R == Retirement(previous, basis, next)
               p == Len(T)
               r == Len(R)
           IN  /\ T \in Seq(ForwardSteps(next)) /\ R \in Seq(Sparing(next))
               /\ p \in Nat /\ r \in Nat
               /\ script \in Seq(StageCommands(previous, next)) /\ Len(script) = p + r + 4
               /\ script[1] = LoadDoc(GuardDoc(previous, next))
               /\ \A i \in 1..p : script[1 + i] = T[i]
               /\ script[p + 2] = LoadDoc(ActivatedDoc(next))
               /\ script[p + 3] = Verify(next, next)
               /\ \A i \in 1..r : script[p + 3 + i] = R[i]
               /\ script[p + r + 4] = LoadDoc(CommittedDoc(next))
<1> DEFINE basis == RoutingBasis(previous, lost)
           guard == LoadDoc(GuardDoc(previous, next))
           activate == LoadDoc(ActivatedDoc(next))
           verify == Verify(next, next)
           finish == LoadDoc(CommittedDoc(next))
           T == TransitionSteps(basis, next)
           R == Retirement(previous, basis, next)
           C == StageCommands(previous, next)
           p == Len(T)
           r == Len(R)
<1>1. T \in Seq(ForwardSteps(next))
  BY PlanLanes, TransitionStepsAre
<1>2. R \in Seq(Sparing(next))
  <2>1. LaneCount(basis) = LaneCount(previous) /\ LaneCount(previous) \in Nat
    BY PlanLanes, BasisLanes
  <2>2. ASSUME NEW f \in Families, NEW t \in 1..LaneCount(basis), HasUnicast(basis, f, t)
        PROVE  Unicast(basis, f, t) \in [fam: Families, tab: Nat, dev: Devices, via: Vias]
    <3>1. Unicast(basis, f, t) = Unicast(previous, f, t)
      BY <2>1, <2>2, BasisLanes
    <3>2. previous.lanes[t] \in Lanes
      BY <2>1, PlanLanes
    <3> QED BY <2>1, <3>1, <3>2 DEF Unicast, Lanes
  <2>3. RetireSteps(basis, next) \in Seq(Sparing(next))
    BY <2>1, <2>2, RetirementSpares
  <2> HIDE DEF basis
  <2> QED BY <2>3 DEF Retirement
<1>3. /\ ForwardSteps(next) \subseteq C /\ Sparing(next) \subseteq C
      /\ guard \in C /\ activate \in C /\ verify \in C /\ finish \in C
  <2>1. guard \in Opening(previous, next) /\ activate \in Opening(previous, next)
    BY DEF Opening, Guarding
  <2> QED BY <2>1 DEF Opening, StageCommands
<1>4. ForwardScript(previous, next, lost) = <<guard>> \o T \o <<activate, verify>> \o R \o <<finish>>
  BY DEF ForwardScript, Retirement
<1> HIDE DEF guard, activate, verify, finish, T, R, C, basis
<1>5. T \in Seq(C) /\ R \in Seq(C) /\ p \in Nat /\ r \in Nat
  BY <1>1, <1>2, <1>3
<1> HIDE DEF p, r
<1> DEFINE G == <<guard>>
           V == <<activate, verify>>
           F == <<finish>>
<1>6. /\ G \in Seq(C) /\ V \in Seq(C) /\ F \in Seq(C)
      /\ Len(G) = 1 /\ Len(V) = 2 /\ Len(F) = 1
      /\ G[1] = guard /\ V[1] = activate /\ V[2] = verify /\ F[1] = finish
  BY <1>3
<1> HIDE DEF G, V, F
<1> DEFINE a == G \o T
           b == a \o V
           c == b \o R
           d == c \o F
<1>7. /\ a \in Seq(C) /\ Len(a) = p + 1 /\ a[1] = guard
      /\ \A i \in 1..p : a[1 + i] = T[i]
  <2>0. G \in Seq(C) /\ T \in Seq(C)
    BY <1>5, <1>6
  <2>1. /\ a \in Seq(C) /\ Len(a) = Len(G) + Len(T) /\ \A i \in 1..Len(G) : a[i] = G[i]
        /\ \A i \in 1..Len(T) : a[Len(G) + i] = T[i]
    BY <2>0, Joined
  <2> HIDE DEF a
  <2> QED BY <1>5, <1>6, <2>1 DEF p
<1> HIDE DEF a
<1>8. /\ b \in Seq(C) /\ Len(b) = p + 3 /\ \A i \in 1..(p + 1) : b[i] = a[i]
      /\ b[p + 2] = activate /\ b[p + 3] = verify
  <2>0. a \in Seq(C) /\ V \in Seq(C)
    BY <1>6, <1>7
  <2>1. /\ b \in Seq(C) /\ Len(b) = Len(a) + Len(V) /\ \A i \in 1..Len(a) : b[i] = a[i]
        /\ \A i \in 1..Len(V) : b[Len(a) + i] = V[i]
    BY <2>0, Joined
  <2> HIDE DEF b
  <2>2. 1 \in 1..Len(V) /\ 2 \in 1..Len(V) /\ Len(a) + 1 = p + 2 /\ Len(a) + 2 = p + 3
    BY <1>5, <1>6, <1>7
  <2>3. b[p + 2] = activate /\ b[p + 3] = verify
    BY <1>6, <2>1, <2>2
  <2> QED BY <1>5, <1>6, <1>7, <2>1, <2>3
<1> HIDE DEF b
<1>9. /\ c \in Seq(C) /\ Len(c) = p + r + 3 /\ \A i \in 1..(p + 3) : c[i] = b[i]
      /\ \A i \in 1..r : c[p + 3 + i] = R[i]
  <2>0. b \in Seq(C) /\ R \in Seq(C)
    BY <1>5, <1>8
  <2>1. /\ c \in Seq(C) /\ Len(c) = Len(b) + Len(R) /\ \A i \in 1..Len(b) : c[i] = b[i]
        /\ \A i \in 1..Len(R) : c[Len(b) + i] = R[i]
    BY <2>0, Joined
  <2> HIDE DEF c
  <2> QED BY <1>5, <1>8, <2>1 DEF r
<1> HIDE DEF c
<1>10. /\ d \in Seq(C) /\ Len(d) = p + r + 4 /\ \A i \in 1..(p + r + 3) : d[i] = c[i]
       /\ d[p + r + 4] = finish
  <2>0. c \in Seq(C) /\ F \in Seq(C)
    BY <1>6, <1>9
  <2>1. /\ d \in Seq(C) /\ Len(d) = Len(c) + Len(F) /\ \A i \in 1..Len(c) : d[i] = c[i]
        /\ \A i \in 1..Len(F) : d[Len(c) + i] = F[i]
    BY <2>0, Joined
  <2> HIDE DEF d
  <2>2. 1 \in 1..Len(F) /\ Len(c) + 1 = p + r + 4
    BY <1>5, <1>6, <1>9
  <2> QED BY <1>5, <1>6, <1>9, <2>1, <2>2
<1>11. d = ForwardScript(previous, next, lost)
  BY <1>4 DEF a, b, c, G, V, F
<1> HIDE DEF d
<1>12. d[1] = guard /\ \A i \in 1..p : d[1 + i] = T[i]
  <2>1. \A i \in 1..(p + 1) : d[i] = a[i]
    BY <1>5, <1>8, <1>9, <1>10
  <2> QED BY <1>5, <1>7, <2>1
<1>13. d[p + 2] = activate /\ d[p + 3] = verify
  <2>1. /\ p + 2 \in 1..(p + 3) /\ p + 3 \in 1..(p + 3)
        /\ p + 2 \in 1..(p + r + 3) /\ p + 3 \in 1..(p + r + 3)
    BY <1>5
  <2> QED BY <1>8, <1>9, <1>10, <2>1
<1>14. \A i \in 1..r : d[p + 3 + i] = R[i]
  <2>1. \A i \in 1..r : p + 3 + i \in 1..(p + r + 3)
    BY <1>5
  <2> QED BY <1>9, <1>10, <2>1
<1> QED BY <1>1, <1>2, <1>5, <1>10, <1>11, <1>12, <1>13, <1>14
        DEF guard, activate, verify, finish, T, R, C, p, r, basis

\* The routing states of the stages.
LEMMA StagesPass ==
    ASSUME NEW previous \in PlansOrNone, NEW next \in PlansOrNone, NEW lost
    PROVE  LET basis == RoutingBasis(previous, lost)
               T == TransitionSteps(basis, next)
               R == Retirement(previous, basis, next)
               p == Len(T)
               r == Len(R)
               turned == StateAfter(Own(basis), T)
               one == StatesAfter(Own(basis), T)
               two == StatesAfter(turned, R)
           IN  /\ one[0] = Own(basis) /\ one[p] = turned
               /\ \A k \in 0..(p - 1) : ~Refused(one[k], T[k + 1]) /\ one[k + 1] = ApplyRoutingStep(one[k], T[k + 1])
               /\ Within(Own(next), turned)
               /\ two[0] = turned /\ two[r] = Own(next)
               /\ \A k \in 0..(r - 1) : ~Refused(two[k], R[k + 1]) /\ two[k + 1] = ApplyRoutingStep(two[k], R[k + 1])
<1> DEFINE basis == RoutingBasis(previous, lost)
           T == TransitionSteps(basis, next)
           R == Retirement(previous, basis, next)
           p == Len(T)
           r == Len(R)
           turned == StateAfter(Own(basis), T)
           one == StatesAfter(Own(basis), T)
           two == StatesAfter(turned, R)
<1>1. Proper(basis) /\ Proper(next)
  BY PlansListed, PlansProper, BasisProper
<1>2. Retires(basis, next, R)
  <2>1. CASE previous = NoPlan
    <3>1. LaneCount(basis) = 0
      <4>1. LaneCount(basis) = LaneCount(previous)
        BY BasisLanes
      <4> QED BY <2>1, <4>1 DEF LaneCount, NoPlan
    <3>2. R = <<>>
      BY <2>1 DEF Retirement
    <3> HIDE DEF R, basis
    <3> QED BY <3>1, <3>2, NothingRetired
  <2>2. CASE previous # NoPlan
    <3>1. R = RetireSteps(basis, next)
      BY <2>2 DEF Retirement
    <3> HIDE DEF R, basis
    <3> QED BY <1>1, <3>1, RetireAhead
  <2> QED BY <2>1, <2>2
<1> HIDE DEF basis, R
<1>3. /\ \A k \in 0..(p - 1) : ~Refused(one[k], T[k + 1])
      /\ \A k \in 0..(r - 1) : ~Refused(two[k], R[k + 1])
      /\ Within(Own(next), turned)
      /\ StateAfter(turned, R) = Own(next)
  BY <1>1, <1>2, WalkStates
<1>4. p \in Nat /\ r \in Nat
  BY StagesListed DEF basis, R
<1>5. /\ one[0] = Own(basis) /\ \A k \in 1..p : one[k] = ApplyRoutingStep(one[k - 1], T[k])
      /\ two[0] = turned /\ \A k \in 1..r : two[k] = ApplyRoutingStep(two[k - 1], R[k])
  BY <1>4, StatesStep
<1>6. one[p] = turned /\ two[r] = StateAfter(turned, R)
  BY DEF StateAfter
<1> HIDE DEF one, two, p, r, turned, T
<1>7. ASSUME NEW k \in 0..(p - 1) PROVE one[k + 1] = ApplyRoutingStep(one[k], T[k + 1])
  <2>1. k + 1 \in 1..p /\ (k + 1) - 1 = k
    BY <1>4
  <2> QED BY <1>5, <2>1
<1>8. ASSUME NEW k \in 0..(r - 1) PROVE two[k + 1] = ApplyRoutingStep(two[k], R[k + 1])
  <2>1. k + 1 \in 1..r /\ (k + 1) - 1 = k
    BY <1>4
  <2> QED BY <1>5, <2>1
<1> QED BY <1>3, <1>5, <1>6, <1>7, <1>8 DEF one, two, p, r, turned, T, R, basis

\* No command of the stages is rejected, and each leads to the next position.
LEMMA StagesRun ==
    ASSUME NEW previous \in PlansOrNone, NEW next \in PlansOrNone, NEW lost,
           NEW k \in 0..(Len(ForwardScript(previous, next, lost)) - 1),
           StagedAt(k, nft, routing, previous, next, lost)
    PROVE  LET cmd == ForwardScript(previous, next, lost)[k + 1]
           IN  /\ ~Rejected(cmd)
               /\ Effect(cmd) => StagedAt(k + 1, nft', routing', previous, next, lost)
<1> DEFINE script == ForwardScript(previous, next, lost)
           cmd == script[k + 1]
           basis == RoutingBasis(previous, lost)
           T == TransitionSteps(basis, next)
           R == Retirement(previous, basis, next)
           p == Len(T)
           r == Len(R)
           turned == StateAfter(Own(basis), T)
           one == StatesAfter(Own(basis), T)
           two == StatesAfter(turned, R)
           Goal == ~Rejected(cmd) /\ (Effect(cmd) => StagedAt(k + 1, nft', routing', previous, next, lost))
<1>1. /\ T \in Seq(ForwardSteps(next)) /\ R \in Seq(Sparing(next))
      /\ p \in Nat /\ r \in Nat /\ Len(script) = p + r + 4
      /\ script[1] = LoadDoc(GuardDoc(previous, next))
      /\ \A i \in 1..p : script[1 + i] = T[i]
      /\ script[p + 2] = LoadDoc(ActivatedDoc(next))
      /\ script[p + 3] = Verify(next, next)
      /\ \A i \in 1..r : script[p + 3 + i] = R[i]
      /\ script[p + r + 4] = LoadDoc(CommittedDoc(next))
  BY StagesListed
<1>2. /\ one[0] = Own(basis) /\ one[p] = turned
      /\ \A i \in 0..(p - 1) : ~Refused(one[i], T[i + 1]) /\ one[i + 1] = ApplyRoutingStep(one[i], T[i + 1])
      /\ Within(Own(next), turned)
      /\ two[0] = turned /\ two[r] = Own(next)
      /\ \A i \in 0..(r - 1) : ~Refused(two[i], R[i + 1]) /\ two[i + 1] = ApplyRoutingStep(two[i], R[i + 1])
  BY StagesPass
<1>3. ASSUME NEW j, NEW doc, NEW live
      PROVE  StagedAt(j, doc, live, previous, next, lost)
             <=> \/ j = 0 /\ doc = CommittedDoc(previous) /\ live = Own(basis)
                 \/ j \in 1..(p + 1) /\ doc = GuardDoc(previous, next) /\ live = one[j - 1]
                 \/ j = p + 2 /\ doc = ActivatedDoc(next) /\ live = turned
                 \/ j \in (p + 3)..(p + 3 + r) /\ doc = ActivatedDoc(next) /\ live = two[j - p - 3]
                 \/ j = p + r + 4 /\ doc = CommittedDoc(next) /\ live = Own(next)
  BY DEF StagedAt
<1> SUFFICES Goal
  OBVIOUS
<1> HIDE DEF script, cmd, basis, T, R, p, r, turned, one, two
<1>0. p \in Nat /\ r \in Nat
  BY <1>1
<1>4. k \in Nat /\ k < p + r + 4 /\ cmd = script[k + 1]
  BY <1>1 DEF script, cmd
<1>5. \A doc : LoadDoc(doc).op = "nft" /\ LoadDoc(doc).doc = doc
  BY StageOps
<1>6. ASSUME NEW doc, cmd = LoadDoc(doc)
      PROVE  ~Rejected(cmd) /\ (Effect(cmd) => nft' = doc /\ routing' = routing)
  BY <1>5, <1>6 DEF Rejected, Effect
<1>7. ASSUME cmd \in ForwardSteps(next) \cup Sparing(next), ~Refused(routing, cmd)
      PROVE  ~Rejected(cmd) /\ (Effect(cmd) => nft' = nft /\ routing' = ApplyRoutingStep(routing, cmd))
  <2>1. cmd.op \notin {"nft", "verify"}
    BY <1>7, StageOps
  <2> QED BY <1>7, <2>1 DEF Rejected, Effect
<1>at. \/ k = 0 /\ nft = CommittedDoc(previous) /\ routing = Own(basis)
       \/ k \in 1..(p + 1) /\ nft = GuardDoc(previous, next) /\ routing = one[k - 1]
       \/ k = p + 2 /\ nft = ActivatedDoc(next) /\ routing = turned
       \/ k \in (p + 3)..(p + 3 + r) /\ nft = ActivatedDoc(next) /\ routing = two[k - p - 3]
       \/ k = p + r + 4 /\ nft = CommittedDoc(next) /\ routing = Own(next)
  BY <1>3
<1>8. CASE k = 0
  <2>1. nft = CommittedDoc(previous) /\ routing = Own(basis)
    BY <1>0, <1>at, <1>8
  <2>2. cmd = LoadDoc(GuardDoc(previous, next))
    BY <1>1, <1>4, <1>8
  <2>3. k + 1 \in 1..(p + 1) /\ (k + 1) - 1 = 0
    BY <1>1, <1>8
  <2> QED BY <1>2, <1>3, <1>6, <2>1, <2>2, <2>3
<1>9. CASE k \in 1..p
  <2>1. nft = GuardDoc(previous, next) /\ routing = one[k - 1]
    BY <1>0, <1>at, <1>9
  <2>2. k - 1 \in 0..(p - 1) /\ (k - 1) + 1 = k /\ k + 1 = 1 + k /\ (k + 1) - 1 = k /\ k + 1 \in 1..(p + 1)
    BY <1>0, <1>9
  <2>3. cmd = T[k] /\ T[k] \in ForwardSteps(next)
    <3>1. k \in 1..Len(T)
      BY <1>9 DEF p
    <3> QED BY <1>1, <1>4, <1>9, <2>2, <3>1
  <2>4. ~Refused(routing, cmd) /\ one[k] = ApplyRoutingStep(routing, cmd)
    BY <1>2, <2>1, <2>2, <2>3
  <2> QED BY <1>3, <1>7, <2>1, <2>2, <2>3, <2>4
<1>10. CASE k = p + 1
  <2>1. nft = GuardDoc(previous, next) /\ routing = one[p]
    BY <1>0, <1>at, <1>10
  <2>2. cmd = LoadDoc(ActivatedDoc(next)) /\ k + 1 = p + 2
    BY <1>1, <1>4, <1>10
  <2> QED BY <1>2, <1>3, <1>6, <2>1, <2>2
<1>11. CASE k = p + 2
  <2>1. nft = ActivatedDoc(next) /\ routing = turned
    BY <1>0, <1>at, <1>11
  <2>2. cmd = Verify(next, next) /\ k + 1 = p + 3
    BY <1>1, <1>4, <1>11
  <2>3. cmd.op = "verify" /\ cmd.plan = next /\ cmd.basis = next
    BY <2>2, StageOps
  <2>4. ~Rejected(cmd)
    BY <1>2, <2>1, <2>3 DEF Rejected, VerifyFails, ActivatedDoc
  <2>5. Effect(cmd) => nft' = nft /\ routing' = routing
    BY <2>3 DEF Effect
  <2>6. k + 1 \in (p + 3)..(p + 3 + r) /\ (k + 1) - p - 3 = 0
    BY <1>1, <1>11
  <2> QED BY <1>2, <1>3, <2>1, <2>4, <2>5, <2>6
<1>12. CASE k \in (p + 3)..(p + 2 + r)
  <2> DEFINE j == k - p - 3
  <2>1. nft = ActivatedDoc(next) /\ routing = two[j]
    BY <1>0, <1>at, <1>12
  <2>2. /\ j \in 0..(r - 1) /\ j + 1 \in 1..r /\ k + 1 = p + 3 + (j + 1)
        /\ k + 1 \in (p + 3)..(p + 3 + r) /\ (k + 1) - p - 3 = j + 1
    BY <1>1, <1>12
  <2> HIDE DEF j
  <2>3. cmd = R[j + 1] /\ R[j + 1] \in Sparing(next)
    <3>1. j + 1 \in 1..Len(R)
      BY <2>2 DEF r
    <3>2. R[j + 1] \in Sparing(next)
      BY <1>1, <3>1
    <3>3. script[p + 3 + (j + 1)] = R[j + 1]
      BY <1>1, <2>2
    <3>4. cmd = script[p + 3 + (j + 1)]
      BY <1>4, <2>2
    <3> QED BY <3>2, <3>3, <3>4
  <2>4. ~Refused(routing, cmd) /\ two[j + 1] = ApplyRoutingStep(routing, cmd)
    BY <1>2, <2>1, <2>2, <2>3
  <2> QED BY <1>3, <1>7, <2>1, <2>2, <2>3, <2>4, SMTT(40)
<1>13. CASE k = p + 3 + r
  <2>0. k \in (p + 3)..(p + 3 + r) /\ k - p - 3 = r
    BY <1>1, <1>13
  <2>1. nft = ActivatedDoc(next) /\ routing = two[r]
    BY <1>0, <1>at, <2>0
  <2>2. cmd = LoadDoc(CommittedDoc(next)) /\ k + 1 = p + r + 4
    BY <1>1, <1>4, <1>13
  <2> QED BY <1>2, <1>3, <1>6, <2>1, <2>2
<1>14. k = 0 \/ k \in 1..p \/ k = p + 1 \/ k = p + 2 \/ k \in (p + 3)..(p + 2 + r) \/ k = p + 3 + r
  BY <1>1, <1>4
<1> QED BY <1>8, <1>9, <1>10, <1>11, <1>12, <1>13, <1>14

\* The commands of a rollback, and where each stands.
UndoCommands(active, basis) ==
    RemovalSteps \cup ForwardSteps(basis)
    \cup {LoadDoc(NoTable), LoadDoc(CommittedDoc(active)), Verify(active, basis)}
UndoLaidOut(script, tables, active, pending, lost) ==
    LET basis == RoutingBasis(active, lost)
        removals == RollbackRemovals(active, pending)
        m == Len(removals)
        q == m + tables
        I == InstallSteps(basis)
    IN  /\ removals \in Seq(RemovalSteps) /\ I \in Seq(ForwardSteps(basis))
        /\ m \in Nat /\ Len(I) \in Nat
        /\ script \in Seq(UndoCommands(active, basis))
        /\ Len(script) = IF active = NoPlan THEN q ELSE q + Len(I) + 2
        /\ \A x \in 1..m : script[x] = removals[x]
        /\ tables = 1 => script[m + 1] = LoadDoc(NoTable)
        /\ active # NoPlan =>
             /\ \A x \in 1..Len(I) : script[q + x] = I[x]
             /\ script[q + Len(I) + 1] = LoadDoc(CommittedDoc(active))
             /\ script[q + Len(I) + 2] = Verify(active, basis)

\* The commands of a rollback, one by one.
LEMMA UndoListed ==
    ASSUME NEW tables \in {0, 1}, NEW active \in PlansOrNone, NEW pending \in PlansOrNone, NEW lost
    PROVE  UndoLaidOut(UndoScript(tables, active, pending, lost), tables, active, pending, lost)
<1> DEFINE basis == RoutingBasis(active, lost)
           A == RollbackRemovals(active, pending)
           drop == LoadDoc(NoTable)
           load == LoadDoc(CommittedDoc(active))
           check == Verify(active, basis)
           D == IF tables = 0 THEN <<>> ELSE <<drop>>
           I == InstallSteps(basis)
           V == <<load, check>>
           w == I \o V
           E == IF active = NoPlan THEN <<>> ELSE w
           C == UndoCommands(active, basis)
           m == Len(A)
           n == Len(I)
           d == tables
           q == m + d
           a == A \o D
           s == a \o E
<1>1. A \in Seq(RemovalSteps)
  BY PlanLanes, RollbackStepsAre
<1>2. I \in Seq(ForwardSteps(basis))
  <2>1. LaneCount(basis) \in Nat
    BY PlanLanes, BasisLanes
  <2> HIDE DEF basis
  <2> QED BY <2>1, TransitionStepsAre DEF InstallSteps
<1>3. /\ RemovalSteps \subseteq C /\ ForwardSteps(basis) \subseteq C
      /\ drop \in C /\ load \in C /\ check \in C
  BY DEF UndoCommands
<1>4. UndoScript(tables, active, pending, lost) = s
  BY DEF UndoScript
<1> HIDE DEF basis, A, drop, load, check, I, C
<1>5. A \in Seq(C) /\ I \in Seq(C) /\ m \in Nat /\ n \in Nat
  BY <1>1, <1>2, <1>3
<1>6. D \in Seq(C) /\ Len(D) = d /\ d \in Nat /\ (tables = 1 => d = 1 /\ D[1] = drop)
  BY <1>3
<1>7. V \in Seq(C) /\ Len(V) = 2 /\ V[1] = load /\ V[2] = check
  BY <1>3
<1> HIDE DEF D, V
<1>8. /\ w \in Seq(C) /\ Len(w) = n + 2 /\ \A x \in 1..n : w[x] = I[x]
      /\ w[n + 1] = load /\ w[n + 2] = check
  <2>0. I \in Seq(C) /\ V \in Seq(C)
    BY <1>5, <1>7
  <2>1. /\ w \in Seq(C) /\ Len(w) = Len(I) + Len(V) /\ \A x \in 1..Len(I) : w[x] = I[x]
        /\ \A x \in 1..Len(V) : w[Len(I) + x] = V[x]
    BY <2>0, Joined
  <2> HIDE DEF w
  <2>2. 1 \in 1..Len(V) /\ 2 \in 1..Len(V)
    BY <1>7
  <2> QED BY <1>7, <2>1, <2>2
<1> HIDE DEF w
<1>9. E \in Seq(C) /\ Len(E) = (IF active = NoPlan THEN 0 ELSE n + 2)
  BY <1>8
<1>10. active # NoPlan => E = w
  OBVIOUS
<1> HIDE DEF E
<1>11. /\ a \in Seq(C) /\ Len(a) = q /\ \A x \in 1..m : a[x] = A[x]
       /\ tables = 1 => a[m + 1] = drop
  <2>0. A \in Seq(C) /\ D \in Seq(C)
    BY <1>5, <1>6
  <2>1. /\ a \in Seq(C) /\ Len(a) = Len(A) + Len(D) /\ \A x \in 1..Len(A) : a[x] = A[x]
        /\ \A x \in 1..Len(D) : a[Len(A) + x] = D[x]
    BY <2>0, Joined
  <2> HIDE DEF a
  <2>2. tables = 1 => 1 \in 1..Len(D)
    BY <1>6
  <2> HIDE DEF d
  <2> QED BY <1>6, <2>1, <2>2
<1>12. q \in Nat /\ m \in 0..q
  BY <1>5, <1>6
<1> HIDE DEF a, d, m, n
<1>13. /\ s \in Seq(C) /\ Len(s) = q + Len(E) /\ \A x \in 1..q : s[x] = a[x]
       /\ \A x \in 1..Len(E) : s[q + x] = E[x]
  <2>0. a \in Seq(C) /\ E \in Seq(C)
    BY <1>9, <1>11
  <2>1. /\ s \in Seq(C) /\ Len(s) = Len(a) + Len(E) /\ \A x \in 1..Len(a) : s[x] = a[x]
        /\ \A x \in 1..Len(E) : s[Len(a) + x] = E[x]
    BY <2>0, Joined
  <2> HIDE DEF s
  <2> QED BY <1>11, <2>1
<1> HIDE DEF s
<1>14. \A x \in 1..m : s[x] = A[x]
  <2>1. \A x \in 1..m : x \in 1..q
    BY <1>5, <1>12
  <2> QED BY <1>11, <1>13, <2>1
<1>15. tables = 1 => s[m + 1] = drop
  <2>1. tables = 1 => m + 1 \in 1..q
    BY <1>5, <1>6
  <2> QED BY <1>11, <1>13, <2>1
<1>16. ASSUME active # NoPlan
       PROVE  /\ \A x \in 1..n : s[q + x] = I[x]
              /\ s[q + n + 1] = load /\ s[q + n + 2] = check
  <2>1. E = w /\ Len(E) = n + 2
    BY <1>9, <1>10, <1>16
  <2>2. /\ \A x \in 1..n : x \in 1..Len(E)
        /\ n + 1 \in 1..Len(E) /\ n + 2 \in 1..Len(E)
        /\ q + n + 1 = q + (n + 1) /\ q + n + 2 = q + (n + 2)
    BY <1>5, <1>12, <2>1
  <2>3. \A x \in 1..Len(E) : s[q + x] = w[x]
    BY <1>13, <2>1
  <2> HIDE DEF q
  <2>4. s[q + (n + 1)] = load /\ s[q + (n + 2)] = check
    BY <1>8, <2>2, <2>3
  <2>5. \A x \in 1..n : s[q + x] = I[x]
    BY <1>8, <2>2, <2>3
  <2> QED BY <2>2, <2>4, <2>5
<1>17. Len(s) = IF active = NoPlan THEN q ELSE q + n + 2
  BY <1>5, <1>9, <1>12, <1>13
<1> QED BY <1>1, <1>2, <1>4, <1>5, <1>13, <1>14, <1>15, <1>16, <1>17
        DEF UndoLaidOut, basis, A, drop, load, check, I, C, m, n, d

\* The removals lead from every state they can begin in to nothing at all.
LEMMA UndoPass ==
    ASSUME NEW active \in PlansOrNone, NEW pending \in PlansOrNone, NEW lost, NEW doc,
           NEW s \in Starts(doc, active, pending, lost)
                     \cup AbsentRollbackStates(RoutingBasis(active, lost))
    PROVE  LET removals == RollbackRemovals(active, pending)
               m == Len(removals)
           IN  /\ StatesAfter(s, removals)[0] = s
               /\ StatesAfter(s, removals)[m] = Nothing
               /\ \A k \in 0..(m - 1) : \A j \in k..m : \E i \in (k + 1)..m :
                    ApplyRoutingStep(StatesAfter(s, removals)[j], removals[k + 1])
                      = StatesAfter(s, removals)[i]
<1> DEFINE basis == RoutingBasis(active, lost)
           R == Own(basis).routes \cup Own(pending).routes
           U == Own(basis).rules \cup Own(pending).rules
           removals == RollbackRemovals(active, pending)
<1>1. /\ LaneCount(basis) \in Nat /\ LaneCount(pending) \in Nat
      /\ LaneCount(active) \in Nat /\ LaneCount(basis) = LaneCount(active)
  BY PlanLanes, BasisLanes
<1> HIDE DEF basis
<1>2. removals \in Seq(RemovalSteps) /\ removals = RollbackRemovals(basis, pending)
  BY <1>1, RollbackStepsAre, RollbackByLanes
<1>3. s \in Parts(R, U)
  <2>1. /\ Own(basis) \in Parts(R, U) /\ Own(pending) \in Parts(R, U)
        /\ PreparedStates(basis, pending) \subseteq Parts(R, U)
        /\ ActivatedStates(basis, pending) \subseteq Parts(R, U)
        /\ AbsentRollbackStates(basis) \subseteq Parts(R, U)
    BY <1>1, CrashStatesWithin
  <2> HIDE DEF R, U
  <2> QED BY <2>1 DEF Starts, basis
<1>4. StateAfter(s, removals) = Nothing
  BY <1>1, <1>2, <1>3, RollbackLeavesNothing
<1> HIDE DEF removals, R, U
<1>5. \A k \in 0..(Len(removals) - 1) : \A j \in k..Len(removals) : \E i \in (k + 1)..Len(removals) :
        ApplyRoutingStep(StatesAfter(s, removals)[j], removals[k + 1]) = StatesAfter(s, removals)[i]
  BY <1>2, <1>3, RemovalGoesOn
<1>6. StatesAfter(s, removals)[0] = s
  BY <1>2, StatesStep
<1> QED BY <1>4, <1>5, <1>6 DEF StateAfter, removals

\* No command of a rollback is rejected, and each leads to the next position.
LEMMA UndoRuns ==
    ASSUME NEW tables \in {0, 1}, NEW active \in PlansOrNone, NEW pending \in PlansOrNone, NEW lost,
           NEW failures, NEW k \in 0..(Len(UndoScript(tables, active, pending, lost)) - 1),
           UndoneAt(k, tables, nft, routing, failures, active, pending, lost)
    PROVE  LET cmd == UndoScript(tables, active, pending, lost)[k + 1]
           IN  /\ ~Rejected(cmd)
               /\ Effect(cmd) => UndoneAt(k + 1, tables, nft', routing', failures, active, pending, lost)
<1> DEFINE script == UndoScript(tables, active, pending, lost)
           cmd == script[k + 1]
           basis == RoutingBasis(active, lost)
           removals == RollbackRemovals(active, pending)
           m == Len(removals)
           q == m + tables
           I == InstallSteps(basis)
           i == IF active = NoPlan THEN 0 ELSE Len(I)
           up == StatesAfter(Nothing, I)
<1>1. /\ removals \in Seq(RemovalSteps) /\ I \in Seq(ForwardSteps(basis))
      /\ m \in Nat /\ Len(I) \in Nat
      /\ Len(script) = IF active = NoPlan THEN q ELSE q + Len(I) + 2
      /\ \A x \in 1..m : script[x] = removals[x]
      /\ tables = 1 => script[m + 1] = LoadDoc(NoTable)
      /\ active # NoPlan =>
           /\ \A x \in 1..Len(I) : script[q + x] = I[x]
           /\ script[q + Len(I) + 1] = LoadDoc(CommittedDoc(active))
           /\ script[q + Len(I) + 2] = Verify(active, basis)
  <2>1. UndoLaidOut(script, tables, active, pending, lost)
    BY UndoListed
  <2> HIDE DEF script, cmd
  <2> QED BY <2>1 DEF UndoLaidOut
<1> DEFINE From(doc) == Starts(doc, active, pending, lost)
                        \cup {x \in AbsentRollbackStates(basis) : failures >= 2 /\ HalfBack(doc, x, active, lost)}
           First(l, doc, live) ==
             /\ l \in 0..m /\ (doc = NoTable <=> tables = 0)
             /\ \E s \in From(doc), j \in l..m : live = StatesAfter(s, removals)[j]
           Second(l, doc, live) == l \in q..(q + i) /\ doc = NoTable /\ live = up[l - q]
           Third(l, doc, live) ==
             /\ active # NoPlan /\ l \in (q + i + 1)..(q + i + 2)
             /\ doc = CommittedDoc(active) /\ live = Own(basis)
           Goal == ~Rejected(cmd) /\ (Effect(cmd) => UndoneAt(k + 1, tables, nft', routing', failures, active, pending, lost))
<1>2. ASSUME NEW l, NEW doc, NEW live
      PROVE  UndoneAt(l, tables, doc, live, failures, active, pending, lost)
             <=> First(l, doc, live) \/ Second(l, doc, live) \/ Third(l, doc, live)
  BY DEF UndoneAt
<1>3. \A doc : \A s \in From(doc) :
        /\ StatesAfter(s, removals)[m] = Nothing
        /\ \A x \in 0..(m - 1) : \A j \in x..m : \E y \in (x + 1)..m :
             ApplyRoutingStep(StatesAfter(s, removals)[j], removals[x + 1]) = StatesAfter(s, removals)[y]
  BY UndoPass
<1>4. /\ \A x \in 0..(Len(I) - 1) : ~Refused(up[x], I[x + 1])
      /\ StateAfter(Nothing, I) = Own(basis)
  BY PlansListed, BasisProper, InstallStates
<1>5. up[0] = Nothing /\ \A x \in 1..Len(I) : up[x] = ApplyRoutingStep(up[x - 1], I[x])
  BY <1>1, StatesStep
<1>6. up[Len(I)] = Own(basis)
  BY <1>4 DEF StateAfter
<1> SUFFICES Goal
  OBVIOUS
<1>7. q \in Nat /\ i \in Nat /\ m \in 0..q /\ (active # NoPlan => i = Len(I)) /\ (active = NoPlan => i = 0)
      /\ (tables = 0 => q = m) /\ (tables = 1 => q = m + 1) /\ m \in Nat
  BY <1>1
<1> HIDE DEF script, cmd, basis, removals, m, q, I, i, up, From
<1>8. /\ k \in Nat /\ k < Len(script) /\ cmd = script[k + 1]
  <2>1. Len(script) \in Nat
    BY <1>1, <1>7
  <2> QED BY <2>1 DEF script, cmd
<1>9. \A doc : LoadDoc(doc).op = "nft" /\ LoadDoc(doc).doc = doc
  BY StageOps
<1>10. ASSUME NEW doc, cmd = LoadDoc(doc)
       PROVE  ~Rejected(cmd) /\ (Effect(cmd) => nft' = doc /\ routing' = routing)
  BY <1>9, <1>10 DEF Rejected, Effect
<1>11. CASE First(k, nft, routing) /\ k # m
  <2>1. k \in 0..(m - 1) /\ k + 1 \in 1..m /\ k + 1 \in 0..m
    BY <1>7, <1>11
  <2>2. cmd = removals[k + 1] /\ cmd \in RemovalSteps
    <3>1. k + 1 \in 1..Len(removals)
      BY <2>1 DEF m
    <3>2. removals[k + 1] \in RemovalSteps
      BY <1>1, <3>1
    <3> QED BY <1>1, <1>8, <2>1, <3>2
  <2>3. cmd.op \in {"delrule", "flush"}
    <3>1. \A f, tab : DeleteRule(f, tab).op = "delrule" /\ FlushTable(f, tab).op = "flush"
      BY DEF DeleteRule, FlushTable
    <3> QED BY <2>2, <3>1 DEF RemovalSteps
  <2>4. ~Rejected(cmd)
    BY <2>3 DEF Rejected, Refused
  <2>5. ASSUME Effect(cmd) PROVE First(k + 1, nft', routing')
    <3>1. nft' = nft /\ routing' = ApplyRoutingStep(routing, cmd)
      BY <2>3, <2>5 DEF Effect
    <3>2. PICK s \in From(nft), j \in k..m : routing = StatesAfter(s, removals)[j]
      BY <1>11
    <3>3. PICK y \in (k + 1)..m : routing' = StatesAfter(s, removals)[y]
      BY <1>3, <2>1, <2>2, <3>1, <3>2
    <3> QED BY <1>11, <2>1, <3>1, <3>3
  <2> QED BY <1>2, <2>4, <2>5
<1>12. CASE First(k, nft, routing) /\ k = m /\ tables = 1
  <2>1. cmd = LoadDoc(NoTable)
    BY <1>1, <1>8, <1>12
  <2>2. routing = Nothing
    <3>1. PICK s \in From(nft), j \in m..m : routing = StatesAfter(s, removals)[j]
      BY <1>12
    <3>2. j = m
      BY <1>7
    <3> QED BY <1>3, <3>1, <3>2
  <2>3. k + 1 \in q..(q + i) /\ (k + 1) - q = 0
    BY <1>7, <1>12
  <2> QED BY <1>2, <1>5, <1>10, <2>1, <2>2, <2>3
<1>13. First(k, nft, routing) /\ k = m /\ tables = 0 => Second(k, nft, routing)
  <2> SUFFICES ASSUME First(k, nft, routing), k = m, tables = 0 PROVE Second(k, nft, routing)
    OBVIOUS
  <2>1. PICK s \in From(nft), j \in m..m : routing = StatesAfter(s, removals)[j]
    OBVIOUS
  <2>2. routing = Nothing
    <3>2. j = m
      BY <1>7
    <3> QED BY <1>3, <2>1, <3>2
  <2>3. k \in q..(q + i) /\ k - q = 0
    BY <1>7
  <2> QED BY <1>5, <2>2, <2>3
<1>14. CASE Second(k, nft, routing) /\ k # q + i
  <2> DEFINE x == k - q
  <2>1. active # NoPlan /\ x \in 0..(Len(I) - 1) /\ x + 1 \in 1..Len(I) /\ x + 1 \in 1..i
        /\ q + (x + 1) = k + 1 /\ (x + 1) - 1 = x /\ k + 1 \in q..(q + i) /\ (k + 1) - q = x + 1
    BY <1>7, <1>14
  <2>2. nft = NoTable /\ routing = up[x]
    BY <1>14
  <2> HIDE DEF x
  <2>3. I[x + 1] \in ForwardSteps(basis)
    BY <1>1, <2>1
  <2>4. cmd = I[x + 1]
    BY <1>1, <1>8, <2>1
  <2>5. cmd.op \notin {"nft", "verify"}
    BY <2>3, <2>4, StageOps
  <2>6. ~Rejected(cmd)
    BY <1>4, <2>1, <2>2, <2>4, <2>5 DEF Rejected
  <2>7. up[x + 1] = ApplyRoutingStep(routing, cmd)
    BY <1>5, <2>1, <2>2, <2>4
  <2>8. Effect(cmd) => Second(k + 1, nft', routing')
    BY <2>1, <2>2, <2>5, <2>7 DEF Effect
  <2> QED BY <1>2, <2>6, <2>8
<1>15. CASE Second(k, nft, routing) /\ k = q + i
  <2>1. active # NoPlan
    BY <1>1, <1>7, <1>8, <1>15
  <2>2. cmd = LoadDoc(CommittedDoc(active))
    BY <1>1, <1>7, <1>8, <1>15, <2>1
  <2>3. k - q = Len(I)
    BY <1>7, <1>15, <2>1
  <2>4. routing = Own(basis)
    BY <1>6, <1>15, <2>3
  <2>5. k + 1 \in (q + i + 1)..(q + i + 2)
    BY <1>7, <1>15
  <2>6. Effect(cmd) => Third(k + 1, nft', routing')
    BY <1>10, <2>1, <2>2, <2>4, <2>5
  <2> QED BY <1>2, <1>10, <2>2, <2>6
<1>16. CASE Third(k, nft, routing)
  <2>1. k = q + i + 1
    BY <1>1, <1>7, <1>8, <1>16
  <2>2. cmd = Verify(active, basis)
    <3>1. k + 1 = q + i + 2
      BY <1>7, <2>1
    <3> QED BY <1>1, <1>7, <1>8, <1>16, <3>1
  <2>3. cmd.op = "verify" /\ cmd.plan = active /\ cmd.basis = basis
    BY <2>2 DEF Verify
  <2>4. ~Rejected(cmd)
    BY <1>16, <2>3 DEF Rejected, VerifyFails, CommittedDoc, Within
  <2>5. Effect(cmd) => nft' = nft /\ routing' = routing
    BY <2>3 DEF Effect
  <2>6. k + 1 \in (q + i + 1)..(q + i + 2)
    BY <1>7, <2>1
  <2>7. Effect(cmd) => Third(k + 1, nft', routing')
    BY <1>16, <2>5, <2>6
  <2> QED BY <1>2, <2>4, <2>7
<1>17. First(k, nft, routing) \/ Second(k, nft, routing) \/ Third(k, nft, routing)
  BY <1>2
<1> HIDE DEF First, Second, Third, Goal
<1> QED BY <1>11, <1>12, <1>13, <1>14, <1>15, <1>16, <1>17

\* A state after some of the steps is one of the states along them.
LEMMA AlongHolds ==
    ASSUME NEW live, NEW steps, NEW k \in 0..Len(steps)
    PROVE  StatesAfter(live, steps)[k] \in StatesAlong(live, steps)
BY DEF StatesAlong

\* When the stages are done, exactly the next plan is live.
LEMMA StagedEnds ==
    ASSUME NEW previous \in PlansOrNone, NEW next \in PlansOrNone, NEW lost, NEW doc, NEW live,
           StagedAt(Len(ForwardScript(previous, next, lost)), doc, live, previous, next, lost)
    PROVE  doc = CommittedDoc(next) /\ live = Own(next)
<1> DEFINE script == ForwardScript(previous, next, lost)
           basis == RoutingBasis(previous, lost)
           T == TransitionSteps(basis, next)
           R == Retirement(previous, basis, next)
           p == Len(T)
           r == Len(R)
           k == Len(script)
<1>1. p \in Nat /\ r \in Nat /\ k = p + r + 4
  BY StagesListed
<1>2. \/ k = 0 \/ k \in 1..(p + 1) \/ k = p + 2 \/ k \in (p + 3)..(p + 3 + r)
      \/ k = p + r + 4 /\ doc = CommittedDoc(next) /\ live = Own(next)
  BY DEF StagedAt
<1> HIDE DEF k, p, r
<1> QED BY <1>1, <1>2

\* Wherever the stages stop, they leave a state that is recognised.
LEMMA StagedIsStart ==
    ASSUME NEW previous \in PlansOrNone, NEW next \in PlansOrNone, NEW lost, NEW doc, NEW live,
           NEW k, StagedAt(k, doc, live, previous, next, lost)
    PROVE  live \in Starts(doc, previous, next, lost)
<1> DEFINE basis == RoutingBasis(previous, lost)
           T == TransitionSteps(basis, next)
           R == Retirement(previous, basis, next)
           p == Len(T)
           r == Len(R)
           turned == StateAfter(Own(basis), T)
           one == StatesAfter(Own(basis), T)
           two == StatesAfter(turned, R)
<1>1. p \in Nat /\ r \in Nat
  BY StagesListed
<1>2. two[0] = turned
  BY StagesPass
<1>3. PreparedStates(basis, next) = StatesAlong(Own(basis), T)
  BY DEF PreparedStates
<1>4. ActivatedStates(basis, next) = StatesAlong(turned, R)
  <2>1. R = IF basis = NoPlan THEN <<>> ELSE RetireSteps(basis, next)
    BY BasisNone DEF Retirement
  <2> HIDE DEF R
  <2> QED BY <2>1 DEF ActivatedStates
<1>5. \/ k = 0 /\ doc = CommittedDoc(previous) /\ live = Own(basis)
      \/ k \in 1..(p + 1) /\ doc = GuardDoc(previous, next) /\ live = one[k - 1]
      \/ k = p + 2 /\ doc = ActivatedDoc(next) /\ live = turned
      \/ k \in (p + 3)..(p + 3 + r) /\ doc = ActivatedDoc(next) /\ live = two[k - p - 3]
      \/ k = p + r + 4 /\ doc = CommittedDoc(next) /\ live = Own(next)
  BY DEF StagedAt
<1>6. \A i \in 0..p : one[i] \in StatesAlong(Own(basis), T)
  BY AlongHolds
<1>7. \A i \in 0..r : two[i] \in StatesAlong(turned, R)
  BY AlongHolds
<1> HIDE DEF basis, T, R, p, r, turned, one, two
<1>8. CASE k \in 1..(p + 1) /\ doc = GuardDoc(previous, next) /\ live = one[k - 1]
  <2>1. k - 1 \in 0..p
    BY <1>1, <1>8
  <2> QED BY <1>3, <1>6, <1>8, <2>1 DEF Starts, basis
<1>9. CASE k = p + 2 /\ doc = ActivatedDoc(next) /\ live = turned
  <2>1. 0 \in 0..r
    BY <1>1
  <2> QED BY <1>2, <1>4, <1>7, <1>9, <2>1 DEF Starts, basis
<1>10. CASE k \in (p + 3)..(p + 3 + r) /\ doc = ActivatedDoc(next) /\ live = two[k - p - 3]
  <2>1. k - p - 3 \in 0..r
    BY <1>1, <1>10
  <2> QED BY <1>4, <1>7, <1>10, <2>1 DEF Starts, basis
<1> QED BY <1>5, <1>8, <1>9, <1>10 DEF Starts, basis

\* A start state is recognised as it is: with none of the removals run yet.
LEMMA StartRecognised ==
    ASSUME NEW active \in PlansOrNone, NEW pending \in PlansOrNone, NEW lost, NEW doc,
           NEW live \in Starts(doc, active, pending, lost)
    PROVE  Recognised(doc, live, active, pending, lost)
<1> DEFINE removals == RollbackRemovals(active, pending)
<1>1. Len(removals) \in Nat
  BY PlanLanes, RollbackStepsAre
<1> HIDE DEF removals
<1>2. StatesAfter(live, removals)[0] = live /\ 0 \in 0..Len(removals)
  BY <1>1, StatesStep
<1>3. live \in StatesAlong(live, removals)
  BY <1>2, AlongHolds
<1> QED BY <1>3 DEF Recognised, removals

\* What the committed document of a plan alone means.
LEMMA SettledIsStart ==
    ASSUME NEW active \in PlansOrNone, NEW pending, NEW lost, ExactlyOwns(active, lost)
    PROVE  routing \in Starts(nft, active, pending, lost)
BY DEF ExactlyOwns, Starts, CommittedDoc, NoTable

\* The script of a rollback, from the document that is live.
LEMMA UndoIsRestore ==
    ASSUME NEW active, NEW pending, NEW lost
    PROVE  RestoreScript(active, active, pending, lost)
             = UndoScript(IF nft = NoTable THEN 0 ELSE 1, active, pending, lost)
<1>1. CASE nft = NoTable
  BY <1>1 DEF RestoreScript, UndoScript
<1>2. CASE nft # NoTable
  <2>1. (IF nft = NoTable THEN 0 ELSE 1) = 1 /\ 1 # 0
    BY <1>2
  <2> QED BY <1>2, <2>1 DEF RestoreScript, UndoScript
<1> QED BY <1>1, <1>2

\* A rollback begins from what is recognised, or from a rollback that failed.
LEMMA UndoBegins ==
    ASSUME NEW active \in PlansOrNone, NEW pending \in PlansOrNone, NEW lost, NEW failures,
           \/ Recognised(nft, routing, active, pending, lost)
           \/ failures >= 2 /\ HalfBack(nft, routing, active, lost)
    PROVE  UndoneAt(0, IF nft = NoTable THEN 0 ELSE 1, nft, routing, failures, active, pending, lost)
<1> DEFINE basis == RoutingBasis(active, lost)
           removals == RollbackRemovals(active, pending)
           m == Len(removals)
           From == Starts(nft, active, pending, lost)
                   \cup {x \in AbsentRollbackStates(basis) : failures >= 2 /\ HalfBack(nft, x, active, lost)}
<1>1. m \in Nat
  BY PlanLanes, RollbackStepsAre
<1>2. \E s \in From, j \in 0..m : routing = StatesAfter(s, removals)[j]
  <2>1. CASE Recognised(nft, routing, active, pending, lost)
    <3>1. PICK s \in Starts(nft, active, pending, lost) : routing \in StatesAlong(s, removals)
      BY <2>1 DEF Recognised
    <3>2. PICK j \in 0..m : routing = StatesAfter(s, removals)[j]
      BY <3>1 DEF StatesAlong
    <3> QED BY <3>2
  <2>2. CASE failures >= 2 /\ HalfBack(nft, routing, active, lost)
    <3>1. routing \in From
      BY <2>2 DEF HalfBack
    <3>2. routing = StatesAfter(routing, removals)[0] /\ 0 \in 0..m
      BY <1>1, StatesStep
    <3> HIDE DEF From, m
    <3> QED BY <3>1, <3>2
  <2> QED BY <2>1, <2>2
<1> HIDE DEF From
<1>3. 0 \in 0..m /\ (nft = NoTable <=> (IF nft = NoTable THEN 0 ELSE 1) = 0)
  BY <1>1
<1> QED BY <1>2, <1>3 DEF UndoneAt, From

\* When a rollback is done, exactly the previous plan is live.
LEMMA UndoEnds ==
    ASSUME NEW tables \in {0, 1}, NEW active \in PlansOrNone, NEW pending \in PlansOrNone, NEW lost,
           NEW failures,
           UndoneAt(Len(UndoScript(tables, active, pending, lost)), tables, nft, routing, failures,
                    active, pending, lost)
    PROVE  ExactlyOwns(active, lost)
<1> DEFINE k == Len(UndoScript(tables, active, pending, lost))
           basis == RoutingBasis(active, lost)
           removals == RollbackRemovals(active, pending)
           m == Len(removals)
           q == m + tables
           I == InstallSteps(basis)
           i == IF active = NoPlan THEN 0 ELSE Len(I)
           up == StatesAfter(Nothing, I)
           From == Starts(nft, active, pending, lost)
                   \cup {x \in AbsentRollbackStates(basis) : failures >= 2 /\ HalfBack(nft, x, active, lost)}
<1>1. \/ k \in 0..m /\ (nft = NoTable <=> tables = 0)
         /\ \E s \in From, j \in k..m : routing = StatesAfter(s, removals)[j]
      \/ k \in q..(q + i) /\ nft = NoTable /\ routing = up[k - q]
      \/ active # NoPlan /\ nft = CommittedDoc(active) /\ routing = Own(basis)
  BY DEF UndoneAt
<1>2. m \in Nat /\ Len(I) \in Nat /\ k = IF active = NoPlan THEN q ELSE q + Len(I) + 2
  <2>1. UndoLaidOut(UndoScript(tables, active, pending, lost), tables, active, pending, lost)
    BY UndoListed
  <2> QED BY <2>1 DEF UndoLaidOut
<1>3. \A s \in From : StatesAfter(s, removals)[m] = Nothing
  BY UndoPass
<1>4. up[0] = Nothing
  BY <1>2, StatesStep
<1>5. active # NoPlan => i = Len(I)
  OBVIOUS
<1>6. active = NoPlan => i = 0 /\ Own(basis) = Nothing
  BY BasisNone, OwnNothing
<1> HIDE DEF k, basis, removals, m, I, i, up, From
<1>7. CASE active = NoPlan
  <2>1. k = q /\ q \in Nat /\ k - q = 0
    BY <1>2, <1>7
  <2>2. nft = NoTable /\ routing = Nothing
    <3>1. CASE k \in 0..m /\ (nft = NoTable <=> tables = 0)
               /\ \E s \in From, j \in k..m : routing = StatesAfter(s, removals)[j]
      <4>1. k = m /\ tables = 0
        BY <1>2, <2>1, <3>1
      <4>2. PICK s \in From, j \in k..m : routing = StatesAfter(s, removals)[j]
        BY <3>1
      <4>3. j = m
        BY <1>2, <4>1
      <4> QED BY <1>3, <3>1, <4>1, <4>2, <4>3
    <3>2. CASE k \in q..(q + i) /\ nft = NoTable /\ routing = up[k - q]
      BY <1>4, <2>1, <3>2
    <3> QED BY <1>1, <1>7, <3>1, <3>2
  <2> QED BY <1>6, <1>7, <2>2 DEF ExactlyOwns, basis
<1>8. CASE active # NoPlan
  <2>1. k = m + tables + Len(I) + 2 /\ q \in Nat /\ i = Len(I)
    BY <1>2, <1>5, <1>8
  <2>2. k \notin 0..m /\ k \notin q..(q + i)
    BY <1>2, <2>1
  <2> QED BY <1>1, <1>8, <2>2 DEF ExactlyOwns, basis
<1> QED BY <1>7, <1>8

\* Wherever the first rollback stops, it leaves a state that is recognised, or the
\* previous plan half installed, without a table and hence without the guard.
LEMMA UndoneLeft ==
    ASSUME NEW tables \in {0, 1}, NEW active \in PlansOrNone, NEW pending \in PlansOrNone, NEW lost,
           NEW k, NEW doc, NEW live, NEW failures \in {0, 1},
           UndoneAt(k, tables, doc, live, failures, active, pending, lost)
    PROVE  \/ Recognised(doc, live, active, pending, lost)
           \/ HalfBack(doc, live, active, lost) /\ ~doc.guard
<1> DEFINE basis == RoutingBasis(active, lost)
           removals == RollbackRemovals(active, pending)
           m == Len(removals)
           q == m + tables
           I == InstallSteps(basis)
           i == IF active = NoPlan THEN 0 ELSE Len(I)
           up == StatesAfter(Nothing, I)
<1>0. /\ ~(failures >= 2)
      /\ Starts(doc, active, pending, lost)
           \cup {x \in AbsentRollbackStates(basis) : failures >= 2 /\ HalfBack(doc, x, active, lost)}
         = Starts(doc, active, pending, lost)
  OBVIOUS
<1>1. \/ \E s \in Starts(doc, active, pending, lost), j \in k..m :
           k \in 0..m /\ live = StatesAfter(s, removals)[j]
      \/ k \in q..(q + i) /\ doc = NoTable /\ live = up[k - q]
      \/ active # NoPlan /\ doc = CommittedDoc(active) /\ live = Own(basis)
  BY <1>0 DEF UndoneAt
<1>2. m \in Nat /\ Len(I) \in Nat
  <2>1. UndoLaidOut(UndoScript(tables, active, pending, lost), tables, active, pending, lost)
    BY UndoListed
  <2> QED BY <2>1 DEF UndoLaidOut
<1>3. up[0] = Nothing
  BY <1>2, StatesStep
<1>4. \A j \in 0..Len(I) : up[j] \in StatesAlong(Nothing, I)
  BY AlongHolds
<1>5. active # NoPlan => i = Len(I) /\ AbsentRollbackStates(basis) = StatesAlong(Nothing, I)
  BY BasisNone DEF AbsentRollbackStates
<1>6. active = NoPlan => i = 0 /\ Own(basis) = Nothing
  BY BasisNone, OwnNothing
<1> HIDE DEF basis, removals, m, I, i, up
<1>7. CASE \E s \in Starts(doc, active, pending, lost), j \in k..m :
              k \in 0..m /\ live = StatesAfter(s, removals)[j]
  <2>1. PICK s \in Starts(doc, active, pending, lost), j \in k..m :
               k \in 0..m /\ live = StatesAfter(s, removals)[j]
    BY <1>7
  <2>2. j \in 0..Len(removals)
    BY <1>2, <2>1 DEF m
  <2>3. live \in StatesAlong(s, removals)
    BY <2>1, <2>2, AlongHolds
  <2> QED BY <2>3 DEF Recognised, removals
<1>8. CASE k \in q..(q + i) /\ doc = NoTable /\ live = up[k - q]
  <2>1. CASE active = NoPlan
    <3>1. k - q = 0
      BY <1>2, <1>6, <1>8, <2>1
    <3>2. live = Own(basis) /\ doc = CommittedDoc(active)
      BY <1>3, <1>6, <1>8, <2>1, <3>1 DEF NoTable, CommittedDoc
    <3>3. live \in Starts(doc, active, pending, lost)
      BY <3>2 DEF Starts, basis
    <3> QED BY <3>3, StartRecognised
  <2>2. CASE active # NoPlan
    <3>1. k - q \in 0..Len(I)
      BY <1>2, <1>5, <1>8, <2>2
    <3> QED BY <1>4, <1>5, <1>8, <2>2, <3>1 DEF HalfBack, basis, NoTable
  <2> QED BY <2>1, <2>2
<1>9. CASE active # NoPlan /\ doc = CommittedDoc(active) /\ live = Own(basis)
  <2>1. live \in Starts(doc, active, pending, lost)
    BY <1>9 DEF Starts, basis
  <2> QED BY <2>1, StartRecognised
<1> QED BY <1>1, <1>7, <1>8, <1>9

\* A document with another guard.
LEMMA GuardSwitched ==
    ASSUME NEW a, NEW p, NEW g, NEW h
    PROVE  [[active |-> a, pending |-> p, guard |-> g] EXCEPT !.guard = h]
             = [active |-> a, pending |-> p, guard |-> h]
OBVIOUS

\* What is recognised here is what recovery accepts.
LEMMA RecognisedOwnership ==
    ASSUME NEW active \in PlansOrNone, NEW pending \in PlansOrNone, NEW lost,
           \/ Recognised(nft, routing, active, pending, lost)
           \/ HalfBack(nft, routing, active, lost)
    PROVE  PendingOwnership(active, pending, lost)
<1> DEFINE basis == RoutingBasis(active, lost)
<1>1. RollbackRemovals(active, pending) = RollbackRemovals(basis, pending)
  <2>1. /\ LaneCount(active) \in Nat /\ LaneCount(pending) \in Nat
        /\ LaneCount(basis) = LaneCount(active)
    BY PlanLanes, BasisLanes
  <2> HIDE DEF basis
  <2> QED BY <2>1, RollbackByLanes
<1>2. CASE HalfBack(nft, routing, active, lost)
  BY <1>2 DEF HalfBack, PendingOwnership
<1>3. CASE Recognised(nft, routing, active, pending, lost)
  <2>1. PICK s \in Starts(nft, active, pending, lost) :
               routing \in StatesAlong(s, RollbackRemovals(basis, pending))
    BY <1>1, <1>3 DEF Recognised
  <2>2. \A starts : s \in starts => ReachedFrom(starts, routing, basis, pending)
    BY <2>1 DEF ReachedFrom
  <2>3. UnguardedDoc(active, pending) = [GuardDoc(active, pending) EXCEPT !.guard = FALSE]
    BY GuardSwitched DEF UnguardedDoc, GuardDoc
  <2>4. \/ s \in {Own(basis)} /\ nft = CommittedDoc(active)
        \/ /\ s \in PreparedStates(basis, pending)
           /\ nft \in {GuardDoc(active, pending), UnguardedDoc(active, pending)}
        \/ s \in ActivatedStates(basis, pending) /\ nft = ActivatedDoc(pending)
        \/ /\ s \in ActivatedStates(basis, pending) \cup {Own(pending)}
           /\ nft = CommittedDoc(pending)
    BY DEF Starts
  <2> HIDE DEF basis
  <2> QED BY <2>2, <2>3, <2>4 DEF PendingOwnership, basis
<1> QED BY <1>2, <1>3

\* Without its guard a document of the transition is still one of those expected.
LEMMA UnguardKeeps ==
    ASSUME NEW active, NEW pending, NEW lost, nft.guard,
           Recognised(nft, routing, active, pending, lost)
    PROVE  Recognised([nft EXCEPT !.guard = FALSE], routing, active, pending, lost)
<1> DEFINE open == [nft EXCEPT !.guard = FALSE]
<1>1. PICK s \in Starts(nft, active, pending, lost) :
             routing \in StatesAlong(s, RollbackRemovals(active, pending))
  BY DEF Recognised
<1>2. \A plan : ~CommittedDoc(plan).guard
  BY DEF CommittedDoc
<1>3. ~UnguardedDoc(active, pending).guard
  BY DEF UnguardedDoc
<1>4. nft = GuardDoc(active, pending) => open = UnguardedDoc(active, pending)
  <2>1. [GuardDoc(active, pending) EXCEPT !.guard = FALSE] = UnguardedDoc(active, pending)
    BY GuardSwitched DEF GuardDoc, UnguardedDoc
  <2> QED BY <2>1
<1>5. nft = ActivatedDoc(pending) => open = CommittedDoc(pending)
  <2>1. [ActivatedDoc(pending) EXCEPT !.guard = FALSE] = CommittedDoc(pending)
    BY GuardSwitched DEF ActivatedDoc, CommittedDoc
  <2> QED BY <2>1
<1> HIDE DEF open
<1>6. s \in Starts(open, active, pending, lost)
  BY <1>2, <1>3, <1>4, <1>5 DEF Starts
<1> QED BY <1>1, <1>6 DEF Recognised, open

\* The transition whose journal is open, and how far it came.
Known == Recognised(nft, routing, journal.active, journal.pending, journal.lost)
Settled == ExactlyOwns(journal.active, journal.lost)
Undoing == pc = "rollback" \/ (pc = "recover" /\ ~journal.cleanup)
GoingOn ==
    LET script == ForwardScript(journal.active, journal.pending, journal.lost)
    IN  \E k \in 0..Len(script) :
          /\ todo = LeftOf(script, k)
          /\ StagedAt(k, nft, routing, journal.active, journal.pending, journal.lost)
GoingBack ==
    \E tables \in {0, 1} :
      LET script == UndoScript(tables, journal.active, journal.pending, journal.lost)
      IN  \E k \in 0..Len(script) :
            /\ todo = LeftOf(script, k)
            /\ UndoneAt(k, tables, nft, routing, faults, journal.active, journal.pending, journal.lost)

\* The request that is served is the one the journal names.
JobInv == pc \in TransitionPoints => job.next = journal.pending /\ job.lost = journal.lost

\* A cleanup drops the table last: without it nothing is left.
DroppedInv ==
    /\ journal.cleanup /\ nft = NoTable => routing = Nothing
    /\ pc = "clean" \/ (pc = "recover" /\ journal.cleanup) =>
         \A i \in 1..(Len(todo) - 1) : todo[i] # LoadDoc(NoTable)

\* What each point of a transition left of the kernel, if no more than two steps failed.
ProgressInv ==
    faults <= 2 =>
      /\ pc \in {"settings", "repair", "withdraw"} \/ (pc = "resettle" /\ ~journal.cleanup) => Settled
      /\ pc \in {"repair", "withdraw"} \/ (pc = "resettle" /\ ~journal.cleanup) \/ Undoing => faults >= 1
      /\ pc = "forward" => GoingOn
      /\ pc = "commit" => nft = CommittedDoc(journal.pending) /\ routing = Own(journal.pending)
      /\ Undoing => GoingBack
      /\ pc = "unguard" => faults >= 2 /\ nft.guard /\ Known
      /\ pc = "idle" /\ Interrupted /\ ~journal.cleanup =>
           /\ faults >= 1
           /\ Known \/ (faults >= 2 /\ HalfBack(nft, routing, journal.active, journal.lost))

\* The plans of a journal.
LEMMA JournalPlans ==
    ASSUME HelperTypeOK
    PROVE  /\ journal.active \in PlansOrNone /\ journal.pending \in PlansOrNone
           /\ journal.cleanup \in BOOLEAN /\ faults \in Nat
           /\ mem.current \in PlansOrNone /\ job.next \in PlansOrNone
BY FaultsAssumption DEF HelperTypeOK, Journals, Memories, Jobs

\* Wherever a transition stands when its first two failures hit, what it leaves is
\* known; only a rollback can leave the previous plan half installed.
LEMMA StoppedKnown ==
    ASSUME HelperTypeOK, ControlInv, ProgressInv, faults <= 1, Interrupted, ~journal.cleanup
    PROVE  /\ Known \/ (Undoing /\ HalfBack(nft, routing, journal.active, journal.lost) /\ ~nft.guard)
           /\ pc # "unguard"
<1> DEFINE a == journal.active
           n == journal.pending
           l == journal.lost
<1>1. a \in PlansOrNone /\ n \in PlansOrNone /\ faults \in {0, 1} /\ faults <= 2 /\ ~(faults >= 2)
  BY JournalPlans
<1>2. ASSUME routing \in Starts(nft, a, n, l) PROVE Known
  BY <1>1, <1>2, StartRecognised DEF Known
<1> HIDE DEF a, n, l
<1>3. CASE pc \in {"settings", "repair", "withdraw", "resettle"}
  <2>1. ExactlyOwns(a, l)
    BY <1>1, <1>3 DEF ProgressInv, Settled, a, l
  <2> QED BY <1>1, <1>2, <1>3, <2>1, SettledIsStart
<1>4. CASE pc = "forward"
  <2>1. \E k \in 0..Len(ForwardScript(a, n, l)) : StagedAt(k, nft, routing, a, n, l)
    BY <1>1, <1>4 DEF ProgressInv, GoingOn, a, n, l
  <2> QED BY <1>1, <1>2, <1>4, <2>1, StagedIsStart
<1>5. CASE pc = "commit"
  <2>1. nft = CommittedDoc(n) /\ routing = Own(n)
    BY <1>1, <1>5 DEF ProgressInv, n
  <2>2. routing \in Starts(nft, a, n, l)
    BY <2>1 DEF Starts
  <2> QED BY <1>2, <1>5, <2>2
<1>6. CASE Undoing
  <2>1. PICK tables \in {0, 1} :
               \E k \in 0..Len(UndoScript(tables, a, n, l)) :
                 UndoneAt(k, tables, nft, routing, faults, a, n, l)
    BY <1>1, <1>6 DEF ProgressInv, GoingBack, a, n, l
  <2>2. PICK k \in 0..Len(UndoScript(tables, a, n, l)) :
               UndoneAt(k, tables, nft, routing, faults, a, n, l)
    BY <2>1
  <2>3. \/ Recognised(nft, routing, a, n, l)
        \/ HalfBack(nft, routing, a, l) /\ ~nft.guard
    BY <1>1, <2>2, UndoneLeft
  <2> QED BY <1>6, <2>3 DEF Known, Undoing, a, n, l
<1>7. CASE pc = "idle"
  BY <1>1, <1>7 DEF ProgressInv
<1>8. pc \notin {"unguard", "clean", "clear", "unset"}
  BY <1>1 DEF ProgressInv, ControlInv
<1>9. pc = "recover" => Undoing
  BY DEF Undoing
<1> QED BY <1>3, <1>4, <1>5, <1>6, <1>7, <1>8, <1>9 DEF HelperTypeOK, Points, Undoing

\* What StartRollback and Recover put on the list.
LEMMA BackBegins ==
    ASSUME HelperTypeOK, NEW failures,
           \/ Known
           \/ failures >= 2 /\ HalfBack(nft, routing, journal.active, journal.lost),
           UNCHANGED <<journal, nft, routing>>, faults' = failures,
           todo' = RestoreScript(journal.active, journal.active, journal.pending, journal.lost)
    PROVE  GoingBack'
<1> DEFINE a == journal.active
           n == journal.pending
           l == journal.lost
           tables == IF nft = NoTable THEN 0 ELSE 1
           script == UndoScript(tables, a, n, l)
<1>1. a \in PlansOrNone /\ n \in PlansOrNone /\ tables \in {0, 1}
  BY JournalPlans
<1>2. todo' = script
  BY UndoIsRestore
<1>3. UndoneAt(0, tables, nft, routing, failures, a, n, l)
  BY <1>1, UndoBegins DEF Known
<1>4. script \in Seq(UndoCommands(a, RoutingBasis(a, l)))
  <2>1. UndoLaidOut(UndoScript(tables, a, n, l), tables, a, n, l)
    BY <1>1, UndoListed
  <2> QED BY <2>1 DEF UndoLaidOut
<1>5. 0 \in 0..Len(script) /\ LeftOf(script, 0) = script
  <2> HIDE DEF script
  <2>1. 0 \in 0..Len(script)
    BY <1>4
  <2> QED BY <1>4, <2>1, LeftGoesOn
<1>6. \E k \in 0..Len(script) : todo' = LeftOf(script, k) /\ UndoneAt(k, tables, nft, routing, failures, a, n, l)
  BY <1>2, <1>3, <1>5
<1> HIDE DEF tables
<1>7. \E t \in {0, 1} : \E k \in 0..Len(UndoScript(t, a, n, l)) :
        /\ todo' = LeftOf(UndoScript(t, a, n, l), k)
        /\ UndoneAt(k, t, nft, routing, failures, a, n, l)
  BY <1>1, <1>6
<1>8. UNCHANGED <<journal, nft, routing>> /\ faults' = failures
  OBVIOUS
<1> QED BY <1>7, <1>8 DEF GoingBack

\* The stages: each command is accepted, and after the last the next plan is live.
LEMMA OnGoes ==
    ASSUME HelperTypeOK, GoingOn
    PROVE  /\ todo # <<>> => ~Rejected(Head(todo))
           /\ todo # <<>> /\ Effect(Head(todo)) /\ todo' = Tail(todo) /\ journal' = journal => GoingOn'
           /\ todo = <<>> => nft = CommittedDoc(journal.pending) /\ routing = Own(journal.pending)
<1> DEFINE a == journal.active
           n == journal.pending
           l == journal.lost
           script == ForwardScript(a, n, l)
<1>1. a \in PlansOrNone /\ n \in PlansOrNone
  BY JournalPlans
<1>2. script \in Seq(StageCommands(a, n)) /\ Len(script) \in Nat
  <2>1. script \in Seq(StageCommands(a, n))
    BY <1>1, StagesListed
  <2> HIDE DEF script
  <2> QED BY <2>1
<1> HIDE DEF a, n, l, script
<1>3. PICK k \in 0..Len(script) : todo = LeftOf(script, k) /\ StagedAt(k, nft, routing, a, n, l)
  BY DEF GoingOn, a, n, l, script
<1>4. /\ todo = <<>> <=> k = Len(script)
      /\ k # Len(script) => /\ Head(todo) = script[k + 1] /\ k + 1 \in 1..Len(script)
                            /\ Tail(todo) = LeftOf(script, k + 1)
  <2>1. /\ LeftOf(script, k) = <<>> <=> k = Len(script)
        /\ k # Len(script) =>
             /\ Head(LeftOf(script, k)) = script[k + 1] /\ k + 1 \in 1..Len(script)
             /\ Tail(LeftOf(script, k)) = LeftOf(script, k + 1)
    <3>1. script \in Seq(StageCommands(a, n))
      BY <1>2
    <3>2. k \in 0..Len(script)
      BY <1>3
    <3> QED BY <3>1, <3>2, LeftGoesOn
  <2> QED BY <2>1, <1>3
<1>5. CASE todo = <<>>
  <2>1. nft = CommittedDoc(n) /\ routing = Own(n)
    BY <1>1, <1>3, <1>4, <1>5, StagedEnds DEF script
  <2> QED BY <1>5, <2>1 DEF n
<1>6. CASE todo # <<>>
  <2>1. k \in 0..(Len(script) - 1) /\ k + 1 \in 0..Len(script)
    BY <1>2, <1>3, <1>4, <1>6
  <2>2. /\ ~Rejected(script[k + 1])
        /\ Effect(script[k + 1]) => StagedAt(k + 1, nft', routing', a, n, l)
    BY <1>1, <1>3, <2>1, StagesRun DEF script
  <2>3. ASSUME Effect(Head(todo)), todo' = Tail(todo), journal' = journal
        PROVE  GoingOn'
    <3>1. todo' = LeftOf(script, k + 1) /\ StagedAt(k + 1, nft', routing', a, n, l)
      BY <1>4, <1>6, <2>2, <2>3
    <3>2. \E j \in 0..Len(script) : todo' = LeftOf(script, j) /\ StagedAt(j, nft', routing', a, n, l)
      BY <2>1, <3>1
    <3> QED BY <2>3, <3>2 DEF GoingOn, a, n, l, script
  <2> QED BY <1>4, <1>6, <2>2, <2>3
<1> QED BY <1>5, <1>6

\* The rollback: each command is accepted, and after the last the previous plan is live.
LEMMA BackGoes ==
    ASSUME HelperTypeOK, GoingBack
    PROVE  /\ todo # <<>> => ~Rejected(Head(todo))
           /\ /\ todo # <<>> /\ Effect(Head(todo)) /\ todo' = Tail(todo)
              /\ journal' = journal /\ faults' = faults
              => GoingBack'
           /\ todo = <<>> => ExactlyOwns(journal.active, journal.lost)
<1> DEFINE a == journal.active
           n == journal.pending
           l == journal.lost
           script(t) == UndoScript(t, a, n, l)
<1>1. a \in PlansOrNone /\ n \in PlansOrNone
  BY JournalPlans
<1> HIDE DEF a, n, l
<1>2. PICK tables \in {0, 1} : \E k \in 0..Len(script(tables)) :
             todo = LeftOf(script(tables), k) /\ UndoneAt(k, tables, nft, routing, faults, a, n, l)
  BY DEF GoingBack, a, n, l
<1>3. PICK k \in 0..Len(script(tables)) :
             todo = LeftOf(script(tables), k) /\ UndoneAt(k, tables, nft, routing, faults, a, n, l)
  BY <1>2
<1> DEFINE s == script(tables)
<1>4. s \in Seq(UndoCommands(a, RoutingBasis(a, l))) /\ Len(s) \in Nat
  <2>1. s \in Seq(UndoCommands(a, RoutingBasis(a, l)))
    <3>1. UndoLaidOut(UndoScript(tables, a, n, l), tables, a, n, l)
      BY <1>1, UndoListed
    <3> QED BY <3>1 DEF UndoLaidOut
  <2> HIDE DEF s
  <2> QED BY <2>1
<1> HIDE DEF s
<1>5. k \in 0..Len(s) /\ todo = LeftOf(s, k)
  BY <1>3 DEF s
<1>6. /\ todo = <<>> <=> k = Len(s)
      /\ k # Len(s) => /\ Head(todo) = s[k + 1] /\ k + 1 \in 1..Len(s)
                       /\ Tail(todo) = LeftOf(s, k + 1)
  <2>1. /\ LeftOf(s, k) = <<>> <=> k = Len(s)
        /\ k # Len(s) =>
             /\ Head(LeftOf(s, k)) = s[k + 1] /\ k + 1 \in 1..Len(s)
             /\ Tail(LeftOf(s, k)) = LeftOf(s, k + 1)
    <3>1. s \in Seq(UndoCommands(a, RoutingBasis(a, l)))
      BY <1>4
    <3>2. k \in 0..Len(s)
      BY <1>5
    <3> QED BY <3>1, <3>2, LeftGoesOn
  <2> QED BY <2>1, <1>5
<1>7. CASE todo = <<>>
  <2>1. UndoneAt(Len(UndoScript(tables, a, n, l)), tables, nft, routing, faults, a, n, l)
    BY <1>3, <1>6, <1>7 DEF s
  <2>2. ExactlyOwns(a, l)
    BY <1>1, <2>1, UndoEnds
  <2> QED BY <1>7, <2>2 DEF a, l
<1>8. CASE todo # <<>>
  <2>1. k \in 0..(Len(s) - 1) /\ k + 1 \in 0..Len(s)
    BY <1>4, <1>5, <1>6, <1>8
  <2>2. /\ ~Rejected(s[k + 1])
        /\ Effect(s[k + 1]) => UndoneAt(k + 1, tables, nft', routing', faults, a, n, l)
    BY <1>1, <1>3, <2>1, UndoRuns DEF s
  <2>3. ASSUME Effect(Head(todo)), todo' = Tail(todo), journal' = journal, faults' = faults
        PROVE  GoingBack'
    <3>1. todo' = LeftOf(s, k + 1) /\ UndoneAt(k + 1, tables, nft', routing', faults, a, n, l)
      BY <1>6, <1>8, <2>2, <2>3
    <3>2. \E t \in {0, 1} : \E j \in 0..Len(script(t)) :
            todo' = LeftOf(script(t), j) /\ UndoneAt(j, t, nft', routing', faults, a, n, l)
      BY <2>1, <3>1 DEF s
    <3> QED BY <2>3, <3>2 DEF GoingBack, a, n, l
  <2> QED BY <1>6, <1>8, <2>2, <2>3
<1> QED BY <1>7, <1>8

\* A transition that begins is the one its journal names, over exactly what it replaces.
LEMMA BeginProgress ==
    ASSUME ~LateSaves, HelperTypeOK, pc = "idle", ~Interrupted, NEW next, NEW lost, NEW receipt,
           NEW keep, NEW auth, NEW undo, ExactlyOwns(mem.current, lost),
           Begin(next, lost, receipt, keep, auth, undo)
    PROVE  JobInv' /\ ProgressInv'
<1>1. UNCHANGED <<nft, routing>>
  BY DEF Begin
<1>2. CASE pc' = "settings"
  <2>1. /\ journal'.active = mem.current /\ journal'.pending = next /\ journal'.lost = lost
        /\ job'.next = next /\ job'.lost = lost
    BY <1>2 DEF Begin
  <2>3. Settled'
    BY <1>1, <2>1 DEF Settled, ExactlyOwns
  <2> QED BY <1>2, <2>1, <2>3 DEF JobInv, ProgressInv, Undoing
<1>3. CASE UNCHANGED <<journal, pc>>
  BY <1>3 DEF JobInv, ProgressInv, Undoing, TransitionPoints, Interrupted
<1> QED BY <1>2, <1>3, FailedSaveKeeps DEF Begin

\* A cleanup is no transition.
LEMMA CleanupProgress ==
    ASSUME ~LateSaves, pc = "idle", ~Interrupted, NEW receipt, CleanupWith(receipt)
    PROVE  JobInv' /\ ProgressInv'
<1>1. pc' = "clean" \/ (UNCHANGED <<journal, pc>>)
  BY FailedSaveKeeps DEF CleanupWith
<1> QED BY <1>1 DEF JobInv, ProgressInv, Undoing, TransitionPoints, Interrupted

\* In the script of a cleanup the table goes last.
LEMMA TableLast ==
    ASSUME NEW plan \in PlansOrNone, NEW lost
    PROVE  LET script == RestoreScript(NoPlan, plan, NoPlan, lost)
           IN  \A i \in 1..(Len(script) - 1) : script[i] # LoadDoc(NoTable)
<1> DEFINE tables == IF nft = NoTable THEN 0 ELSE 1
           script == RestoreScript(NoPlan, plan, NoPlan, lost)
           removals == RollbackRemovals(NoPlan, plan)
           m == Len(removals)
<1>1. NoPlan \in PlansOrNone /\ tables \in {0, 1}
  BY DEF PlansOrNone
<1>2. RollbackRemovals(plan, NoPlan) = removals
  <2>1. LaneCount(plan) \in Nat /\ LaneCount(NoPlan) \in Nat
    BY <1>1, PlanLanes
  <2> QED BY <2>1, RollbackByLanes
<1>3. script = UndoScript(tables, NoPlan, plan, lost)
  <2>1. RestoreScript(NoPlan, plan, NoPlan, lost) = RestoreScript(NoPlan, NoPlan, plan, lost)
    BY <1>2 DEF RestoreScript
  <2> QED BY <2>1, UndoIsRestore
<1> HIDE DEF tables, script
<1>4. UndoLaidOut(script, tables, NoPlan, plan, lost)
  BY <1>1, <1>3, UndoListed
<1>5. /\ removals \in Seq(RemovalSteps) /\ m \in Nat /\ Len(script) = m + tables
      /\ \A i \in 1..m : script[i] = removals[i]
  BY <1>4 DEF UndoLaidOut
<1>6. \A cmd \in RemovalSteps : cmd # LoadDoc(NoTable)
  <2>1. \A f, t : DeleteRule(f, t).op = "delrule" /\ FlushTable(f, t).op = "flush"
    BY DEF DeleteRule, FlushTable
  <2>2. LoadDoc(NoTable).op = "nft"
    BY StageOps
  <2> QED BY <2>1, <2>2 DEF RemovalSteps
<1>7. \A i \in 1..m : removals[i] \in RemovalSteps
  BY <1>5
<1> HIDE DEF removals, m
<1>8. \A i \in 1..(Len(script) - 1) : i \in 1..m
  BY <1>1, <1>5
<1> QED BY <1>5, <1>6, <1>7, <1>8 DEF script

\* A cleanup that is announced finds its plan whole, and drops the table last.
LEMMA CleanupWithDropped ==
    ASSUME ~LateSaves, HelperTypeOK, ControlInv, KernelInv, pc = "idle", mem.init, ~Interrupted,
           NEW receipt, CleanupWith(receipt)
    PROVE  DroppedInv'
<1>1. UNCHANGED <<nft, routing>>
  BY DEF CleanupWith
<1>2. nft = NoTable => routing = Nothing
  BY DEF KernelInv, LivePlan, Carries, NoTable, CommittedDoc
<1>3. CASE pc' = "clean"
  <2>1. todo' = RestoreScript(NoPlan, mem.current, NoPlan, {})
    BY <1>3 DEF CleanupWith
  <2>2. \A i \in 1..(Len(todo') - 1) : todo'[i] # LoadDoc(NoTable)
    BY <2>1, TableLast, JournalPlans
  <2> QED BY <1>1, <1>2, <1>3, <2>2 DEF DroppedInv
<1>4. CASE UNCHANGED <<journal, pc>>
  BY <1>1, <1>4 DEF DroppedInv, Interrupted
<1> QED BY <1>3, <1>4, FailedSaveKeeps DEF CleanupWith

\* From nothing there is nothing to remove.
LEMMA NothingStays ==
    ASSUME NEW f, NEW t
    PROVE  /\ ApplyRoutingStep(Nothing, DeleteRule(f, t)) = Nothing
           /\ ApplyRoutingStep(Nothing, FlushTable(f, t)) = Nothing
<1> DEFINE none == [routes |-> {}, rules |-> {}]
<1>1. none.rules = {} /\ none.routes = {} /\ Nothing = none
  BY DEF Nothing
<1>2. [none EXCEPT !.rules = {}] = none /\ [none EXCEPT !.routes = {}] = none
  OBVIOUS
<1> HIDE DEF none
<1>3. none.rules \ {Rule(f, t)} = {} /\ {r \in none.routes : r.fam # f \/ r.tab # t} = {}
  BY <1>1
<1>4. ApplyRoutingStep(none, DeleteRule(f, t)) = none
  <2>1. ApplyRoutingStep(none, DeleteRule(f, t)) = [none EXCEPT !.rules = none.rules \ {Rule(f, t)}]
    BY DeleteRuleApplied, ZenonT(40)
  <2> QED BY <1>2, <1>3, <2>1
<1>5. ApplyRoutingStep(none, FlushTable(f, t)) = none
  BY <1>2, <1>3, FlushTableApplied
<1> QED BY <1>1, <1>4, <1>5

\* One command of a cleanup: it takes something away, the table when nothing else is left.
LEMMA DropsLast ==
    ASSUME HelperTypeOK, KernelInv, DroppedInv, journal.cleanup, pc \in {"clean", "recover"},
           todo # <<>>, Effect(Head(todo)), todo' = Tail(todo), UNCHANGED <<journal, pc>>
    PROVE  DroppedInv'
<1> DEFINE plan == journal.active
           cmd == Head(todo)
           n == Len(todo)
<1>1. /\ PartOf(nft, routing, plan) /\ RemovesRest(todo, nft, routing, plan)
      /\ \A i \in 1..(n - 1) : todo[i] # LoadDoc(NoTable)
      /\ nft = NoTable => routing = Nothing
  BY DEF KernelInv, DroppedInv
<1>2. todo \in Seq(RemovalCommands(plan))
  BY <1>1 DEF RemovesRest
<1>3. cmd = todo[1] /\ n \in Nat /\ n >= 1 /\ cmd \in RemovalCommands(plan) /\ DOMAIN todo = 1..n
  BY <1>2
<1>4. \A i \in 1..(Len(todo') - 1) : todo'[i] # LoadDoc(NoTable)
  <2>1. Len(todo') = n - 1 /\ \A i \in 1..(n - 1) : todo'[i] = todo[i + 1]
    BY <1>2
  <2>2. \A i \in 1..(Len(todo') - 1) : i \in 1..(n - 1) /\ i + 1 \in 1..(n - 1)
    BY <1>3, <2>1
  <2> HIDE DEF n
  <2> QED BY <1>1, <2>1, <2>2
<1>5. CASE cmd = LoadDoc(NoTable)
  <2>1. n = 1
    BY <1>1, <1>3, <1>5
  <2>2. \A i \in DOMAIN todo : todo[i] = LoadDoc(NoTable)
    BY <1>3, <1>5, <2>1
  <2>3. /\ LoadDoc(NoTable).op = "nft"
        /\ \A f, t : DeleteRule(f, t).op = "delrule" /\ FlushTable(f, t).op = "flush"
    BY DEF LoadDoc, DeleteRule, FlushTable
  <2> HIDE DEF n, cmd
  <2>4. routing.rules = {} /\ routing.routes = {}
    BY <1>1, <2>2, <2>3 DEF RemovesRest
  <2>5. routing = Nothing
    BY <1>1, <2>4 DEF PartOf, Nothing
  <2>6. routing' = routing
    BY <1>5, <2>3 DEF Effect, cmd
  <2> QED BY <1>4, <2>5, <2>6 DEF DroppedInv
<1>6. CASE cmd # LoadDoc(NoTable)
  <2>1. PICK ft \in LaneFamilies(plan) :
               cmd = DeleteRule(ft[1], ft[2]) \/ cmd = FlushTable(ft[1], ft[2])
    BY <1>3, <1>6 DEF RemovalCommands
  <2> HIDE DEF cmd
  <2>2. nft' = nft /\ routing' = ApplyRoutingStep(routing, cmd)
    BY <2>1 DEF Effect, cmd, DeleteRule, FlushTable
  <2>3. ASSUME routing = Nothing PROVE routing' = Nothing
    BY <2>1, <2>2, <2>3, NothingStays
  <2> QED BY <1>1, <1>4, <2>2, <2>3 DEF DroppedInv
<1> QED BY <1>5, <1>6

\* A step that leaves the kernel, announces no cleanup and starts no removals.
LEMMA QuietDropped ==
    ASSUME DroppedInv, UNCHANGED <<nft, routing>>, journal'.cleanup => journal.cleanup,
           pc' \notin {"clean", "recover"}
    PROVE  DroppedInv'
BY DEF DroppedInv

\* A cleanup drops the table last.
LEMMA DroppedStep ==
    ASSUME ~LateSaves, HelperTypeOK, ControlInv, KernelInv, DroppedInv, [Next]_vars
    PROVE  DroppedInv'
<1>1. CASE JournalSetting
  <2>1. journal'.cleanup = journal.cleanup
    BY <1>1, FailedSaveKeeps DEF JournalSetting, HelperTypeOK, Journals
  <2> QED BY <1>1, <2>1, QuietDropped DEF JournalSetting, Goto
<1>2. CASE WriteSetting \/ StartStages
  BY <1>2, QuietDropped DEF WriteSetting, StartStages, Goto
<1>3. CASE Command
  <2>1. /\ todo # <<>> /\ Effect(Head(todo)) /\ todo' = Tail(todo) /\ UNCHANGED <<journal, pc>>
        /\ pc \in RunningPoints
    BY <1>3 DEF Command
  <2>2. CASE journal.cleanup
    <3>1. pc \in {"clean", "recover"}
      BY <2>1, <2>2 DEF RunningPoints, ControlInv, TransitionPoints
    <3> QED BY <2>1, <2>2, <3>1, DropsLast
  <2>3. CASE ~journal.cleanup
    BY <2>1, <2>3 DEF DroppedInv, ControlInv
  <2> QED BY <2>2, <2>3
<1>4. CASE CommandFails
  <2>1. UNCHANGED <<nft, routing, journal>> /\ pc' \in {"rollback", "unguard", "idle"}
    BY <1>4 DEF CommandFails, StartRollback, Run, Return
  <2> QED BY <2>1, QuietDropped
<1>5. CASE Unguard
  BY <1>5 DEF Unguard, Return, DroppedInv, ControlInv, TransitionPoints
<1>6. CASE CheckForward
  BY <1>6, QuietDropped DEF CheckForward, StartRollback, Run, Goto
<1>7. CASE Commit
  <2>1. journal'.cleanup => journal.cleanup
    BY <1>7, FailedSaveKeeps DEF Commit, Committed, NoJournal
  <2> QED BY <1>7, <2>1, QuietDropped DEF Commit, StartRollback, Run, Return
<1>8. CASE CheckRollback \/ Unset \/ CleanupSettings \/ CheckRecovery \/ Crash
  BY <1>8, QuietDropped DEF CheckRollback, Unset, CleanupSettings, CheckRecovery, Crash, Goto, Return
<1>9. CASE Withdraw \/ Clear \/ Resettle
  <2>1. journal'.cleanup => journal.cleanup
    BY <1>9, FailedSaveKeeps DEF Withdraw, Clear, Resettle, Committed, NoJournal
  <2> QED BY <1>9, <2>1, QuietDropped DEF Withdraw, Clear, Resettle, Goto, Return
<1>10. ASSUME NEW next, NEW lost, NEW receipt, NEW keep, NEW auth, NEW undo,
              Begin(next, lost, receipt, keep, auth, undo), pc = "idle"
       PROVE  DroppedInv'
  <2>1. journal'.cleanup => journal.cleanup
    BY <1>10, FailedSaveKeeps DEF Begin
  <2> QED BY <1>10, <2>1, QuietDropped DEF Begin
<1>11. CASE Apply \/ Activate \/ Refresh
  BY <1>10, <1>11 DEF Apply, Activate, Refresh, Ready
<1>12. CASE Restore \/ RestoreRuntime \/ Cleanup
  BY <1>10, <1>12, CleanupWithDropped DEF Restore, RestoreRuntime, Cleanup, Ready
<1>13. CASE ApplyAgain \/ CleanupNothing
  <2>1. journal'.cleanup => journal.cleanup
    <3>1. CASE ApplyAgain
      BY <3>1, FailedSaveKeeps DEF ApplyAgain, Committed, NoJournal
    <3>2. CASE CleanupNothing
      BY <3>2, FailedSaveKeeps DEF CleanupNothing, NoJournal
    <3> QED BY <1>13, <3>1, <3>2
  <2> QED BY <1>13, <2>1, QuietDropped DEF ApplyAgain, CleanupNothing, Ready
<1>14. CASE Adopt \/ Reconcile
  BY <1>14, QuietDropped DEF Adopt, Reconcile
<1>15. CASE Recover
  <2>1. UNCHANGED <<journal, nft, routing>>
    BY <1>15 DEF Recover
  <2>2. CASE journal.cleanup
    <3>1. journal.pending = NoPlan /\ RecoveryTarget = NoPlan
      BY <2>2 DEF ControlInv, RecoveryTarget
    <3>2. todo' = RestoreScript(NoPlan, journal.active, NoPlan, journal.lost)
      BY <1>15, <3>1 DEF Recover, Run
    <3>3. \A i \in 1..(Len(todo') - 1) : todo'[i] # LoadDoc(NoTable)
      BY <3>2, TableLast, JournalPlans
    <3> QED BY <2>1, <3>3 DEF DroppedInv
  <2>3. CASE ~journal.cleanup
    BY <1>15, <2>1, <2>3 DEF DroppedInv, Recover, Run
  <2> QED BY <2>2, <2>3
<1>16. CASE LinkLoss
  <2>1. UNCHANGED <<journal, nft, pc, todo>>
    BY <1>16 DEF LinkLoss
  <2>2. routing # Nothing
    BY <1>16 DEF LinkLoss, Nothing
  <2> QED BY <2>1, <2>2 DEF DroppedInv
<1>17. CASE UNCHANGED vars
  BY <1>17 DEF vars, DroppedInv
<1> QED
  BY <1>1, <1>2, <1>3, <1>4, <1>5, <1>6, <1>7, <1>8, <1>9, <1>11, <1>12, <1>13, <1>14, <1>15,
     <1>16, <1>17 DEF Next, Transition, Request

\* A rollback that begins, after a failure, in a state that is known.
LEMMA RollbackBegins ==
    ASSUME HelperTypeOK, ControlInv, JobInv, pc \in TransitionPoints, Known, StartRollback,
           UNCHANGED <<journal, nft, routing, mem>>, faults' >= 1
    PROVE  ProgressInv'
<1>1. /\ pc' = "rollback" /\ job' = job
      /\ todo' = RestoreScript(journal.active, journal.active, journal.pending, journal.lost)
  BY DEF StartRollback, Run, ControlInv, JobInv
<1>2. GoingBack'
  BY <1>1, BackBegins
<1> QED BY <1>1, <1>2 DEF ProgressInv, Undoing

\* A helper that stops half way after a failure, in a state that is known.
LEMMA StopsKnown ==
    ASSUME HelperTypeOK, UNCHANGED <<journal, nft, routing>>, pc' = "idle", faults' >= 1,
           \/ Known
           \/ faults' >= 2 /\ HalfBack(nft, routing, journal.active, journal.lost)
    PROVE  ProgressInv'
<1>1. Known => Known'
  BY DEF Known
<1> QED BY <1>1 DEF ProgressInv, Undoing

\* No transition is under way afterwards.
LEMMA StopsDone ==
    ASSUME pc' \in {"idle", "unset", "clean", "clear"} \/ (pc' \in {"recover", "resettle"} /\ journal'.cleanup),
           pc' = "idle" => ~Interrupted' \/ journal'.cleanup
    PROVE  ProgressInv'
BY DEF ProgressInv, Undoing

\* The request that is served stays the one the journal names.
LEMMA JobStep ==
    ASSUME ~LateSaves, HelperTypeOK, ControlInv, JobInv, [Next]_vars
    PROVE  JobInv'
<1> USE DEF TransitionPoints
<1>1. CASE JournalSetting
  <2>1. journal'.pending = journal.pending /\ journal'.lost = journal.lost
    BY <1>1, FailedSaveKeeps DEF JournalSetting, HelperTypeOK, Journals
  <2> QED BY <1>1, <2>1 DEF JournalSetting, Goto, JobInv
<1>2. CASE WriteSetting
  BY <1>2 DEF WriteSetting, Goto, JobInv
<1>3. CASE StartStages
  <2>1. job'.next = job.next /\ job'.lost = job.lost
    BY <1>3 DEF StartStages, HelperTypeOK, Jobs
  <2> QED BY <1>3, <2>1 DEF StartStages, JobInv
<1>4. CASE Command
  BY <1>4 DEF Command, JobInv
<1>5. CASE CommandFails
  <2>1. /\ UNCHANGED journal
        /\ pc' = "idle" \/ (pc \in {"forward", "rollback"} /\ UNCHANGED job)
    BY <1>5 DEF CommandFails, StartRollback, Run, Return
  <2> QED BY <2>1 DEF JobInv
<1>6. CASE Unguard \/ Unset \/ CleanupSettings \/ Clear \/ CheckRecovery \/ Resettle \/ Crash \/ Recover
  BY <1>6 DEF Unguard, Unset, CleanupSettings, Clear, CheckRecovery, Resettle, Crash, Recover,
              Run, Goto, Return, JobInv
<1>7. CASE CheckForward \/ CheckRollback
  BY <1>7 DEF CheckForward, CheckRollback, StartRollback, Run, Goto, Return, JobInv
<1>8. CASE Commit
  BY <1>8, FailedSaveKeeps DEF Commit, StartRollback, Run, Return, JobInv
<1>9. CASE Withdraw
  BY <1>9 DEF Withdraw, Goto, Return, JobInv
<1>10. ASSUME NEW next, NEW lost, NEW receipt, NEW keep, NEW auth, NEW undo,
              Begin(next, lost, receipt, keep, auth, undo), pc = "idle"
       PROVE  JobInv'
  <2>1. CASE pc' = "settings"
    BY <1>10, <2>1 DEF Begin, JobInv
  <2>2. CASE pc' = "idle"
    BY <2>2 DEF JobInv
  <2> QED BY <1>10, <2>1, <2>2 DEF Begin
<1>11. CASE Apply \/ Activate \/ Refresh
  BY <1>10, <1>11 DEF Apply, Activate, Refresh, Ready
<1>12. CASE Restore \/ RestoreRuntime \/ Cleanup
  <2>1. ASSUME NEW receipt, CleanupWith(receipt), pc = "idle" PROVE JobInv'
    BY <2>1 DEF CleanupWith, JobInv
  <2> QED BY <1>10, <1>12, <2>1 DEF Restore, RestoreRuntime, Cleanup, Ready
<1>13. CASE ApplyAgain \/ CleanupNothing \/ Adopt \/ Reconcile
  BY <1>13 DEF ApplyAgain, CleanupNothing, Adopt, Reconcile, Ready, JobInv
<1>14. CASE LinkLoss \/ UNCHANGED vars
  BY <1>14 DEF LinkLoss, vars, JobInv
<1> QED
  BY <1>1, <1>2, <1>3, <1>4, <1>5, <1>6, <1>7, <1>8, <1>9, <1>11, <1>12, <1>13, <1>14
  DEF Next, Transition, Request

\* With at most two failures, each point keeps what it left of the kernel.
LEMMA ProgressStep ==
    ASSUME ~LateSaves, ~LinkLossInFlight, HelperTypeOK, ControlInv, KernelInv, JobInv,
           ProgressInv, [Next]_vars, faults' <= 2
    PROVE  ProgressInv'
<1>0. /\ journal.active \in PlansOrNone /\ journal.pending \in PlansOrNone /\ faults \in Nat
      /\ journal.cleanup \in BOOLEAN
      /\ pc \in TransitionPoints => /\ Interrupted /\ ~journal.cleanup /\ mem.current = journal.active
                                    /\ job.next = journal.pending /\ job.lost = journal.lost
                                    /\ journal.pending # NoPlan
  BY JournalPlans DEF ControlInv, JobInv, Interrupted
<1>1. ASSUME Fault PROVE faults <= 1 /\ faults' = faults + 1 /\ faults' >= 1 /\ faults' \in Nat
  BY <1>0, <1>1 DEF Fault
<1>2. ASSUME Fault, pc # "unguard", Interrupted, ~journal.cleanup
      PROVE  Known \/ (Undoing /\ faults' >= 2 /\ HalfBack(nft, routing, journal.active, journal.lost) /\ ~nft.guard)
  <2>1. Known \/ (Undoing /\ HalfBack(nft, routing, journal.active, journal.lost) /\ ~nft.guard)
    BY <1>1, <1>2, StoppedKnown
  <2>2. Undoing => faults' >= 2
    BY <1>0, <1>1, <1>2 DEF ProgressInv
  <2> QED BY <2>1, <2>2
<1>3. CASE JournalSetting
  <2>1. pc = "settings" /\ Settled
    BY <1>0, <1>3 DEF JournalSetting, ProgressInv, SaveFails, Fault
  <2>2. /\ journal'.active = journal.active /\ journal'.pending = journal.pending
        /\ journal'.lost = journal.lost
    BY <1>3, FailedSaveKeeps DEF JournalSetting, HelperTypeOK, Journals
  <2>3. Settled'
    BY <1>3, <2>1, <2>2 DEF JournalSetting, Settled, ExactlyOwns
  <2>4. pc' = "settings" \/ (pc' = "withdraw" /\ faults' >= 1)
    BY <1>1, <1>3 DEF JournalSetting, Goto, SaveFails
  <2> QED BY <2>3, <2>4 DEF ProgressInv, Undoing
<1>4. CASE WriteSetting
  <2>1. pc = "settings" /\ Settled
    BY <1>0, <1>4 DEF WriteSetting, ProgressInv, Fault
  <2>2. Settled'
    BY <1>4, <2>1 DEF WriteSetting, Settled, ExactlyOwns
  <2>3. pc' = "settings" \/ (pc' = "withdraw" /\ faults' >= 1)
    BY <1>1, <1>4 DEF WriteSetting, Goto
  <2> QED BY <2>2, <2>3 DEF ProgressInv, Undoing
<1>5. CASE StartStages
  <2>1. pc = "settings" /\ Settled /\ UNCHANGED <<journal, nft, routing>>
    BY <1>0, <1>5 DEF StartStages, ProgressInv, Fault
  <2>2. CASE pc' = "repair" /\ Fault
    <3>1. Settled'
      BY <2>1 DEF Settled, ExactlyOwns
    <3> QED BY <1>1, <2>2, <3>1 DEF ProgressInv, Undoing
  <2>3. CASE pc' = "forward" /\ todo' = ForwardScript(mem.current, job.next, job.lost)
    <3> DEFINE a == journal.active
               n == journal.pending
               l == journal.lost
               script == ForwardScript(a, n, l)
    <3>1. todo' = script
      BY <1>0, <2>1, <2>3 DEF TransitionPoints
    <3>2. script \in Seq(StageCommands(a, n))
      BY <1>0, StagesListed
    <3>3. StagedAt(0, nft, routing, a, n, l)
      BY <2>1 DEF Settled, ExactlyOwns, StagedAt, CommittedDoc, NoTable
    <3> HIDE DEF a, n, l, script
    <3>4. 0 \in 0..Len(script) /\ LeftOf(script, 0) = script
      <4>1. 0 \in 0..Len(script)
        BY <3>2
      <4> QED BY <3>2, <4>1, LeftGoesOn
    <3>5. \E k \in 0..Len(script) : todo' = LeftOf(script, k) /\ StagedAt(k, nft, routing, a, n, l)
      BY <3>1, <3>3, <3>4
    <3>6. GoingOn'
      BY <2>1, <3>5 DEF GoingOn, a, n, l, script
    <3> QED BY <2>3, <3>6 DEF ProgressInv, Undoing
  <2> QED BY <1>5, <2>2, <2>3 DEF StartStages
<1>6. CASE Command
  <2>1. /\ pc \in RunningPoints /\ todo # <<>> /\ Effect(Head(todo)) /\ todo' = Tail(todo)
        /\ UNCHANGED <<journal, pc, faults>>
    BY <1>6 DEF Command
  <2>2. CASE pc = "forward"
    <3>1. GoingOn
      BY <1>0, <2>1, <2>2 DEF ProgressInv
    <3>2. GoingOn'
      BY <2>1, <3>1, OnGoes
    <3> QED BY <2>1, <2>2, <3>2 DEF ProgressInv, Undoing
  <2>3. CASE Undoing
    <3>1. GoingBack /\ faults >= 1
      BY <1>0, <2>1, <2>3 DEF ProgressInv
    <3>2. GoingBack'
      BY <2>1, <3>1, BackGoes
    <3> QED BY <2>1, <2>3, <3>1, <3>2 DEF ProgressInv, Undoing
  <2>4. CASE pc = "clean" \/ (pc = "recover" /\ journal.cleanup)
    BY <2>1, <2>4, StopsDone
  <2> QED BY <2>1, <2>2, <2>3, <2>4 DEF RunningPoints, Undoing
<1>7. CASE CommandFails
  <2>1. /\ pc \in RunningPoints /\ todo # <<>> /\ UNCHANGED <<journal, nft, routing, mem>>
        /\ (Rejected(Head(todo)) /\ UNCHANGED faults) \/ Fault
        /\ CASE pc = "forward" -> StartRollback
             [] pc = "rollback" /\ nft.guard -> Run("unguard", <<>>)
             [] OTHER -> Return
    BY <1>7 DEF CommandFails
  <2>2. CASE pc = "clean" \/ (pc = "recover" /\ journal.cleanup)
    <3>1. pc' = "idle" /\ journal'.cleanup
      BY <2>1, <2>2 DEF Return, ControlInv
    <3> QED BY <3>1, StopsDone
  <2>3. CASE pc = "forward"
    <3>1. Fault
      <4>1. faults' = faults => GoingOn
        BY <2>3 DEF ProgressInv
      <4> QED BY <2>1, <4>1, OnGoes
    <3>2. Known
      BY <1>0, <1>2, <2>3, <3>1 DEF TransitionPoints, Undoing
    <3>3. StartRollback
      BY <2>1, <2>3
    <3> QED BY <1>1, <2>1, <2>3, <3>1, <3>2, <3>3, RollbackBegins DEF TransitionPoints
  <2>4. CASE Undoing
    <3>1. Fault
      <4>1. faults' = faults => GoingBack
        BY <2>4 DEF ProgressInv
      <4> QED BY <2>1, <4>1, BackGoes
    <3>2. Interrupted /\ ~journal.cleanup /\ pc \in {"rollback", "recover"}
      BY <1>0, <2>4 DEF Undoing, ControlInv, TransitionPoints
    <3>3. Known \/ (faults' >= 2 /\ HalfBack(nft, routing, journal.active, journal.lost) /\ ~nft.guard)
      BY <1>2, <3>1, <3>2
    <3>4. CASE pc = "rollback" /\ nft.guard
      <4>1. pc' = "unguard" /\ Known'
        BY <2>1, <3>3, <3>4 DEF Run, Known
      <4>2. faults' >= 2
        BY <1>0, <1>1, <2>4, <3>1 DEF ProgressInv
      <4> QED BY <2>1, <3>4, <4>1, <4>2 DEF ProgressInv, Undoing
    <3>5. CASE ~(pc = "rollback" /\ nft.guard)
      <4>1. pc' = "idle"
        BY <2>1, <3>2, <3>5 DEF Return
      <4> QED BY <1>1, <2>1, <3>1, <3>3, <4>1, StopsKnown
    <3> QED BY <3>4, <3>5
  <2> QED BY <2>1, <2>2, <2>3, <2>4 DEF RunningPoints, Undoing
<1>8. CASE Unguard
  <2>1. /\ pc = "unguard" /\ pc' = "idle" /\ UNCHANGED <<journal, routing>>
        /\ (nft' = [nft EXCEPT !.guard = FALSE] /\ UNCHANGED faults) \/ Fault
    BY <1>8 DEF Unguard, Return
  <2>2. faults <= 2 => faults >= 2 /\ nft.guard /\ Known
    BY <2>1 DEF ProgressInv
  <2>3. nft' = [nft EXCEPT !.guard = FALSE] /\ UNCHANGED faults
    BY <1>0, <1>1, <2>1, <2>2
  <2>4. Known'
    BY <2>1, <2>2, <2>3, UnguardKeeps DEF Known
  <2>5. faults' >= 1 /\ faults' >= 2
    BY <1>0, <2>2, <2>3
  <2> QED BY <2>1, <2>4, <2>5 DEF ProgressInv, Undoing
<1>9. CASE CheckForward
  <2>1. /\ pc = "forward" /\ todo = <<>> /\ UNCHANGED <<journal, nft, routing, mem>>
        /\ \/ Goto("commit") /\ UNCHANGED faults
           \/ ~ExactlyOwns(job.next, {}) /\ UNCHANGED faults
           \/ Fault /\ StartRollback
    BY <1>9 DEF CheckForward
  <2>2. nft = CommittedDoc(journal.pending) /\ routing = Own(journal.pending)
    <3>1. GoingOn
      BY <1>0, <1>1, <2>1 DEF ProgressInv
    <3> QED BY <2>1, <3>1, OnGoes
  <2>3. ExactlyOwns(job.next, {})
    <3>1. job.next = journal.pending /\ journal.pending # NoPlan
      BY <1>0, <2>1 DEF TransitionPoints
    <3>2. RoutingBasis(journal.pending, {}) = journal.pending
      BY <1>0, BasisOfAll
    <3> QED BY <2>2, <3>1, <3>2 DEF ExactlyOwns
  <2>4. CASE Goto("commit")
    BY <2>1, <2>2, <2>4 DEF ProgressInv, Undoing, Goto
  <2>5. CASE Fault /\ StartRollback
    <3>1. Known
      BY <1>0, <1>2, <2>1, <2>5 DEF TransitionPoints, Undoing
    <3> QED BY <1>1, <2>1, <2>5, <3>1, RollbackBegins DEF TransitionPoints
  <2> QED BY <2>1, <2>3, <2>4, <2>5
<1>10. CASE Commit
  <2> DEFINE record == Committed(job.next, job.receipt, mem.settings \cup job.wrote, job.auth, job.undo)
  <2>1. /\ pc = "commit" /\ UNCHANGED <<nft, routing>>
        /\ \/ journal' = record /\ Return
           \/ Fault /\ UNCHANGED <<journal, mem>> /\ StartRollback
    BY <1>10, FailedSaveKeeps DEF Commit, SaveFails
  <2>2. CASE journal' = record /\ Return
    <3>1. pc' = "idle" /\ ~Interrupted'
      BY <2>2 DEF Return, Interrupted, Committed, NoJournal
    <3> QED BY <3>1, StopsDone
  <2>3. CASE Fault /\ UNCHANGED <<journal, mem>> /\ StartRollback
    <3>1. Known
      BY <1>0, <1>2, <2>1, <2>3 DEF TransitionPoints, Undoing
    <3> QED BY <1>1, <2>1, <2>3, <3>1, RollbackBegins DEF TransitionPoints
  <2> QED BY <2>1, <2>2, <2>3
<1>11. CASE CheckRollback
  <2>1. /\ UNCHANGED <<journal, nft, routing, mem, faults>>
        /\ (pc = "rollback" /\ todo = <<>>) \/ pc = "repair"
        /\ IF ExactlyOwns(mem.current, job.lost) THEN Goto("withdraw") ELSE Return
    BY <1>11 DEF CheckRollback
  <2>2. faults >= 1 /\ ExactlyOwns(journal.active, journal.lost)
    <3>1. CASE pc = "rollback" /\ todo = <<>>
      <4>1. GoingBack /\ faults >= 1
        BY <2>1, <3>1 DEF ProgressInv, Undoing
      <4> QED BY <3>1, <4>1, BackGoes
    <3>2. CASE pc = "repair"
      BY <2>1, <3>2 DEF ProgressInv, Settled
    <3> QED BY <2>1, <3>1, <3>2
  <2>3. pc' = "withdraw"
    BY <1>0, <2>1, <2>2 DEF TransitionPoints, Goto
  <2>4. Settled'
    BY <2>1, <2>2 DEF Settled, ExactlyOwns
  <2> QED BY <2>1, <2>2, <2>3, <2>4 DEF ProgressInv, Undoing
<1>12. CASE Withdraw
  <2> DEFINE record == Committed(mem.current, NoReceipt, mem.settings, job.keep, mem.undo)
  <2>1. /\ pc = "withdraw" /\ UNCHANGED <<nft, routing>>
        /\ \/ journal' = record /\ Goto("unset")
           \/ Fault /\ UNCHANGED journal /\ Return
    BY <1>12, FailedSaveKeeps DEF Withdraw, SaveFails
  <2>2. CASE Goto("unset")
    BY <2>2, StopsDone DEF Goto
  <2>3. CASE Fault /\ UNCHANGED journal /\ Return
    <3>1. Known
      BY <1>0, <1>2, <2>1, <2>3 DEF TransitionPoints, Undoing
    <3> QED BY <1>1, <2>1, <2>3, <3>1, StopsKnown DEF Return
  <2> QED BY <2>1, <2>2, <2>3
<1>13. CASE Unset
  <2>1. pc' = "idle" /\ ~Interrupted'
    BY <1>13 DEF Unset, Return, ControlInv, Interrupted
  <2> QED BY <2>1, StopsDone
<1>14. CASE CleanupSettings
  BY <1>14, StopsDone DEF CleanupSettings, Goto
<1>15. CASE Clear
  <2>1. pc' = "idle" /\ (~Interrupted' \/ journal'.cleanup)
    BY <1>15, FailedSaveKeeps DEF Clear, Return, ControlInv, Interrupted, Committed, NoJournal
  <2> QED BY <2>1, StopsDone
<1>16. CASE CheckRecovery
  <2>1. pc = "recover" /\ todo = <<>> /\ UNCHANGED <<journal, nft, routing, faults>>
    BY <1>16 DEF CheckRecovery
  <2>2. CASE journal.cleanup
    BY <1>16, <2>1, <2>2, StopsDone DEF CheckRecovery, Goto
  <2>3. CASE ~journal.cleanup
    <3>1. GoingBack /\ faults >= 1
      BY <2>1, <2>3 DEF ProgressInv, Undoing
    <3>2. Settled
      BY <2>1, <3>1, BackGoes DEF Settled
    <3>3. pc' = "resettle"
      BY <1>16, <2>3, <3>2 DEF CheckRecovery, Goto, Settled
    <3>4. Settled'
      BY <2>1, <3>2 DEF Settled, ExactlyOwns
    <3> QED BY <2>1, <3>1, <3>3, <3>4 DEF ProgressInv, Undoing
  <2> QED BY <2>2, <2>3
<1>17. CASE Resettle
  <2>1. /\ pc = "resettle" /\ pc' = "idle" /\ UNCHANGED <<nft, routing>>
        /\ ~Interrupted' \/ (Fault /\ UNCHANGED journal)
    BY <1>17, FailedSaveKeeps DEF Resettle, Return, SaveFails, Committed, NoJournal, Interrupted
  <2>2. CASE ~Interrupted' \/ journal.cleanup
    <3>1. ~Interrupted' \/ journal'.cleanup
      BY <2>1, <2>2
    <3> QED BY <2>1, <3>1, StopsDone
  <2>3. CASE Fault /\ UNCHANGED journal /\ ~journal.cleanup
    <3>1. Interrupted
      BY <2>1 DEF ControlInv
    <3>2. Known
      BY <1>2, <2>1, <2>3, <3>1 DEF Undoing
    <3> QED BY <1>1, <2>1, <2>3, <3>2, StopsKnown
  <2> QED BY <2>1, <2>2, <2>3
<1>18. CASE Apply \/ Activate \/ Refresh \/ Restore \/ RestoreRuntime
  <2>1. CASE Apply
    BY <2>1, BeginProgress DEF Apply, Ready, OwnsFor
  <2>2. CASE Activate
    BY <2>2, BeginProgress DEF Activate, Ready, OwnsFor
  <2>3. CASE Refresh
    BY <2>3, BeginProgress DEF Refresh, Ready, OwnsFor
  <2>4. CASE Restore
    BY <2>4, BeginProgress, CleanupProgress DEF Restore, Ready
  <2>5. CASE RestoreRuntime
    BY <2>5, BeginProgress, CleanupProgress DEF RestoreRuntime, Ready, OwnsFor
  <2> QED BY <1>18, <2>1, <2>2, <2>3, <2>4, <2>5
<1>19. CASE Cleanup
  BY <1>19, CleanupProgress DEF Cleanup, Ready
<1>20. CASE ApplyAgain
  <2>1. pc' = "idle" /\ ~Interrupted'
    BY <1>20, FailedSaveKeeps DEF ApplyAgain, Ready, Interrupted, Committed, NoJournal
  <2> QED BY <2>1, StopsDone
<1>21. CASE CleanupNothing
  <2>1. pc' = "idle" /\ ~Interrupted'
    BY <1>21, FailedSaveKeeps DEF CleanupNothing, Ready, Interrupted, NoJournal
  <2> QED BY <2>1, StopsDone
<1>22. CASE Adopt \/ Reconcile \/ UNCHANGED vars
  <2>1. UNCHANGED <<journal, nft, routing, pc, job, todo, faults>>
    BY <1>22 DEF Adopt, Reconcile, vars
  <2> QED
    BY <2>1 DEF ProgressInv, Undoing, Settled, ExactlyOwns, GoingOn, GoingBack, Known, Interrupted
<1>23. CASE Recover
  <2>1. /\ pc = "idle" /\ Interrupted /\ pc' = "recover" /\ UNCHANGED <<journal, nft, routing, faults>>
        /\ todo' = RestoreScript(RecoveryTarget, journal.active, journal.pending, journal.lost)
    BY <1>23 DEF Recover, Run
  <2>2. CASE journal.cleanup
    BY <2>1, <2>2, StopsDone
  <2>3. CASE ~journal.cleanup
    <3>1. /\ faults >= 1
          /\ Known \/ (faults >= 2 /\ HalfBack(nft, routing, journal.active, journal.lost))
      BY <2>1, <2>3 DEF ProgressInv
    <3>2. GoingBack'
      BY <2>1, <2>3, <3>1, BackBegins DEF RecoveryTarget
    <3> QED BY <2>1, <2>3, <3>1, <3>2 DEF ProgressInv, Undoing
  <2> QED BY <2>2, <2>3
<1>24. CASE Crash
  <2>1. pc' = "idle" /\ Fault /\ UNCHANGED <<journal, nft, routing>>
    BY <1>24 DEF Crash, Return
  <2>2. CASE ~Interrupted \/ journal.cleanup
    <3>1. ~Interrupted' \/ journal'.cleanup
      BY <2>1, <2>2 DEF Interrupted
    <3> QED BY <2>1, <3>1, StopsDone
  <2>3. CASE Interrupted /\ ~journal.cleanup
    <3>1. pc # "unguard"
      BY <1>1, <2>1, <2>3, StoppedKnown
    <3>2. Known \/ (faults' >= 2 /\ HalfBack(nft, routing, journal.active, journal.lost))
      BY <1>2, <2>1, <2>3, <3>1
    <3> QED BY <1>1, <2>1, <3>2, StopsKnown
  <2> QED BY <2>2, <2>3
<1>25. CASE LinkLoss
  <2>1. pc' = "idle" /\ ~Interrupted'
    BY <1>25 DEF LinkLoss, Interrupted
  <2> QED BY <2>1, StopsDone
<1> QED
  BY <1>3, <1>4, <1>5, <1>6, <1>7, <1>8, <1>9, <1>10, <1>11, <1>12, <1>13, <1>14, <1>15, <1>16,
     <1>17, <1>18, <1>19, <1>20, <1>21, <1>22, <1>23, <1>24, <1>25 DEF Next, Transition, Request

\* What cleanups and the first two failures of transitions leave behind.
LEMMA RecoveryInvariant ==
    ASSUME ~LateSaves, ~LinkLossInFlight
    PROVE  Spec => [](HelperTypeOK /\ ControlInv /\ KernelInv /\ DroppedInv /\ ProgressInv)
<1>1. Init => JobInv /\ DroppedInv /\ ProgressInv
  BY DEF Init, JobInv, DroppedInv, ProgressInv, Undoing, Interrupted, NoJournal, TransitionPoints
<1>2. HelperTypeOK /\ ControlInv /\ KernelInv /\ JobInv /\ DroppedInv /\ ProgressInv
      /\ [Next]_vars => JobInv' /\ DroppedInv' /\ ProgressInv'
  <2> SUFFICES ASSUME HelperTypeOK, ControlInv, KernelInv, JobInv, DroppedInv, ProgressInv, [Next]_vars
               PROVE  JobInv' /\ DroppedInv' /\ ProgressInv'
    OBVIOUS
  <2>1. CASE faults' <= 2
    BY <2>1, ProgressStep, JobStep, DroppedStep
  <2>2. CASE ~(faults' <= 2)
    <3>1. ProgressInv'
      BY <2>2 DEF ProgressInv
    <3> QED BY <3>1, JobStep, DroppedStep
  <2> QED BY <2>1, <2>2
<1> QED BY <1>1, <1>2, HelperTypes, KernelFollowsJournal, PTL DEF Spec

\* Wherever a cleanup stops, however often it fails, and wherever the first two
\* failures stop a transition, the rollback of its failure or the recovery of its
\* journal, ensure_reconciled recognises what is in the kernel and can go on from it.
THEOREM InterruptedRecoverable ==
    ASSUME ~LateSaves, ~LinkLossInFlight
    PROVE  Spec => [](journal.cleanup \/ faults <= 2 => InterruptedJournalRecoverable)
<1>1. HelperTypeOK /\ ControlInv /\ KernelInv /\ DroppedInv /\ ProgressInv
      => (journal.cleanup \/ faults <= 2 => InterruptedJournalRecoverable)
  <2> SUFFICES ASSUME HelperTypeOK, ControlInv, KernelInv, DroppedInv, ProgressInv,
                      journal.cleanup \/ faults <= 2, pc = "idle", Interrupted
               PROVE  Recoverable
    BY DEF InterruptedJournalRecoverable
  <2>1. CASE journal.cleanup
    <3>1. PartOf(nft, routing, journal.active) /\ (nft = NoTable => routing = Nothing)
      BY <2>1 DEF KernelInv, DroppedInv
    <3>2. CleanupOwnership(journal.active)
      BY <3>1 DEF CleanupOwnership, PartOf, Within
    <3> QED BY <2>1, <3>2 DEF Recoverable
  <2>2. CASE ~journal.cleanup
    <3>1. \/ Recognised(nft, routing, journal.active, journal.pending, journal.lost)
          \/ HalfBack(nft, routing, journal.active, journal.lost)
      BY <2>2 DEF ProgressInv, Known
    <3>2. PendingOwnership(journal.active, journal.pending, journal.lost)
      BY <3>1, RecognisedOwnership, JournalPlans
    <3> QED BY <2>2, <3>2 DEF Recoverable
  <2> QED BY <2>1, <2>2
<1> QED BY <1>1, RecoveryInvariant, PTL

-----------------------------------------------------------------------------
(* Settings *)

\* Where each setting the helper switched on is remembered, while no more than one
\* step failed.
SettingsInv ==
    faults < 2 =>
      /\ pc # "unset" => svm \subseteq journal.settings \cup journal.newSettings
      /\ pc \in (TransitionPoints \ {"settings"}) \cup {"unset"} =>
           svm \subseteq mem.settings \cup job.wrote
      /\ pc = "settings" => job.wrote = {}
      /\ pc = "unset" => faults = 1
      /\ pc = "clean" => svm \subseteq mem.settings
      /\ pc = "clear" => svm = {}
      /\ pc = "resettle" => svm \subseteq IF journal.cleanup THEN {} ELSE journal.settings
      /\ journal.pending = NoPlan => journal.newSettings = {}

\* Announcing a transition keeps the receipts of the previous plan.
LEMMA BeginSettings ==
    ASSUME ~LateSaves, HelperTypeOK, MemoryInv, SettingsInv, pc = "idle", mem.init, ~Interrupted,
           NEW next \in Plans, NEW lost, NEW receipt, NEW keep, NEW auth, NEW undo,
           Begin(next, lost, receipt, keep, auth, undo)
    PROVE  SettingsInv'
<1>1. faults \in Nat /\ (faults' = faults \/ faults' = faults + 1) /\ svm' = svm
  BY DEF Begin, SaveFails, Fault, HelperTypeOK
<1>2. CASE pc' = "settings"
  <2>1. /\ journal'.pending = next /\ journal'.settings = mem.settings
        /\ journal'.newSettings = {} /\ job'.wrote = {} /\ faults' = faults
    BY <1>2 DEF Begin
  <2>2. next # NoPlan
    BY PlansAreSome
  <2>3. faults < 2 => svm \subseteq mem.settings
    BY DEF SettingsInv, MemoryInv, Interrupted
  <2> QED BY <1>1, <1>2, <2>1, <2>2, <2>3 DEF SettingsInv, TransitionPoints
<1>3. CASE UNCHANGED <<journal, pc, job>>
  <2>1. pc' = "idle" /\ journal' = journal
    BY <1>3
  <2> QED BY <1>1, <2>1 DEF SettingsInv, TransitionPoints
<1> QED BY <1>2, <1>3, FailedSaveKeeps DEF Begin

\* Announcing a cleanup keeps them too.
LEMMA CleanupWithSettings ==
    ASSUME ~LateSaves, HelperTypeOK, MemoryInv, SettingsInv, pc = "idle", mem.init, ~Interrupted,
           NEW receipt, CleanupWith(receipt)
    PROVE  SettingsInv'
<1>1. faults \in Nat /\ (faults' = faults \/ faults' = faults + 1) /\ svm' = svm
  BY DEF CleanupWith, SaveFails, Fault, HelperTypeOK
<1>2. CASE pc' = "clean"
  <2>1. /\ journal'.pending = NoPlan /\ journal'.settings = mem.settings
        /\ journal'.newSettings = {} /\ faults' = faults
    BY <1>2 DEF CleanupWith, NoJournal
  <2>2. faults < 2 => svm \subseteq mem.settings
    BY DEF SettingsInv, MemoryInv, Interrupted
  <2>3. mem'.settings = mem.settings
    BY DEF CleanupWith, HelperTypeOK, Memories
  <2> QED BY <1>1, <1>2, <2>1, <2>2, <2>3 DEF SettingsInv, TransitionPoints
<1>3. CASE UNCHANGED <<journal, pc, job>>
  <2>1. pc' = "idle" /\ journal' = journal
    BY <1>3
  <2> QED BY <1>1, <2>1 DEF SettingsInv, TransitionPoints
<1> QED BY <1>2, <1>3, FailedSaveKeeps DEF CleanupWith

\* Faults are only counted up.
LEMMA FaultsGrow ==
    ASSUME HelperTypeOK, [Next]_vars
    PROVE  faults \in Nat /\ faults' \in Nat /\ faults' >= faults
<1>1. faults \in Nat
  BY DEF HelperTypeOK
<1>2. faults' = faults \/ faults' = faults + 1
  BY DEF Next, Transition, Request, JournalSetting, WriteSetting, StartStages, Command,
     CommandFails, Unguard, CheckForward, Commit, CheckRollback, Withdraw, Unset, CleanupSettings,
     Clear, CheckRecovery, Resettle, Apply, ApplyAgain, Activate, Refresh, Cleanup, CleanupNothing,
     Restore, RestoreRuntime, Begin, CleanupWith, SaveFails, Adopt, Reconcile, Recover, Crash,
     LinkLoss, Fault, vars
<1> QED BY <1>1, <1>2

\* Until a second failure no step forgets a setting that is on.
LEMMA SettingsStep ==
    ASSUME ~LateSaves, HelperTypeOK, HelperTypeOK', ControlInv, MemoryInv, ProgressInv, SettingsInv,
           [Next]_vars, faults' < 2
    PROVE  SettingsInv'
<1> USE DEF TransitionPoints
<1>0. /\ faults \in Nat /\ faults' \in Nat /\ faults' >= faults /\ faults < 2
  BY FaultsGrow
<1>s. /\ pc # "unset" => svm \subseteq journal.settings \cup journal.newSettings
      /\ pc \in (TransitionPoints \ {"settings"}) \cup {"unset"} =>
           svm \subseteq mem.settings \cup job.wrote
      /\ pc = "settings" => job.wrote = {}
      /\ pc = "unset" => faults = 1
      /\ pc = "clean" => svm \subseteq mem.settings
      /\ pc = "clear" => svm = {}
      /\ pc = "resettle" => svm \subseteq IF journal.cleanup THEN {} ELSE journal.settings
      /\ journal.pending = NoPlan => journal.newSettings = {}
  BY <1>0 DEF SettingsInv
<1>m. pc \in TransitionPoints => journal.settings = mem.settings /\ journal.pending # NoPlan
  BY DEF MemoryInv, ControlInv
<1>g. ASSUME /\ pc' # "unset" => svm' \subseteq journal'.settings \cup journal'.newSettings
             /\ pc' \in (TransitionPoints \ {"settings"}) \cup {"unset"} =>
                  svm' \subseteq mem'.settings \cup job'.wrote
             /\ pc' = "settings" => job'.wrote = {}
             /\ pc' = "unset" => faults' = 1
             /\ pc' = "clean" => svm' \subseteq mem'.settings
             /\ pc' = "clear" => svm' = {}
             /\ pc' = "resettle" => svm' \subseteq IF journal'.cleanup THEN {} ELSE journal'.settings
             /\ journal'.pending = NoPlan => journal'.newSettings = {}
      PROVE  SettingsInv'
  BY <1>g DEF SettingsInv
<1>1. CASE JournalSetting
  <2>1. PICK d : LET record == [journal EXCEPT !.newSettings = @ \cup {d}]
                 IN  \/ journal' = record /\ Goto("settings") /\ UNCHANGED svm
                     \/ /\ SaveFails(record) /\ svm' = svm \ record.newSettings
                        /\ Goto("withdraw")
    BY <1>1 DEF JournalSetting
  <2>2. pc = "settings" /\ mem' = mem /\ job' = job
    BY <1>1 DEF JournalSetting, Goto
  <2> DEFINE record == [journal EXCEPT !.newSettings = @ \cup {d}]
  <2>3. /\ record.settings = journal.settings /\ record.pending = journal.pending
        /\ record.newSettings = journal.newSettings \cup {d}
    BY DEF HelperTypeOK, Journals
  <2>4. \/ journal' = record /\ Goto("settings") /\ UNCHANGED svm
        \/ journal' = journal /\ svm' = svm \ record.newSettings /\ Goto("withdraw")
    BY <2>1, FailedSaveKeeps
  <2> HIDE DEF record
  <2>5. CASE journal' = record /\ Goto("settings") /\ UNCHANGED svm
    BY <1>s, <1>m, <1>g, <2>2, <2>3, <2>5 DEF Goto
  <2>6. CASE journal' = journal /\ svm' = svm \ record.newSettings /\ Goto("withdraw")
    BY <1>s, <1>m, <1>g, <2>2, <2>3, <2>6 DEF Goto
  <2> QED BY <2>4, <2>5, <2>6
<1>2. CASE WriteSetting
  <2>1. PICK d \in journal.newSettings :
           \/ svm' = svm \cup {d} /\ Goto("settings")
           \/ svm' = svm \ journal.newSettings /\ Goto("withdraw")
    BY <1>2 DEF WriteSetting
  <2>2. pc = "settings" /\ mem' = mem /\ journal' = journal
    BY <1>2 DEF WriteSetting
  <2> QED BY <1>s, <1>m, <1>g, <2>1, <2>2 DEF Goto
<1>3. CASE StartStages
  <2>1. pc = "settings" /\ UNCHANGED <<journal, svm, mem>> /\ pc' \in {"forward", "repair"}
    BY <1>3 DEF StartStages
  <2>2. job'.wrote = journal.newSettings
    BY <1>3 DEF StartStages, HelperTypeOK, Jobs
  <2> QED BY <1>s, <1>m, <1>g, <2>1, <2>2
<1>4. CASE Command
  BY <1>4, <1>s, <1>g DEF Command, RunningPoints
<1>5. CASE CommandFails
  BY <1>5, <1>s, <1>g DEF CommandFails, StartRollback, Run, Return, RunningPoints
<1>6. CASE Unguard
  BY <1>6, <1>s, <1>g DEF Unguard, Return
<1>7. CASE CheckForward
  BY <1>7, <1>s, <1>g DEF CheckForward, StartRollback, Run, Goto
<1>8. CASE Commit
  <2> DEFINE record == Committed(job.next, job.receipt, mem.settings \cup job.wrote,
                                 job.auth, job.undo)
  <2>1. record.pending = NoPlan /\ record.newSettings = {} /\ record.settings = mem.settings \cup job.wrote
    BY DEF Committed, NoJournal
  <2>2. CASE journal' = record /\ Return /\ UNCHANGED svm
    <3> HIDE DEF record
    <3> QED BY <1>8, <1>s, <1>g, <2>1, <2>2 DEF Return, Commit
  <2>3. CASE UNCHANGED <<journal, mem, svm>> /\ StartRollback
    BY <1>8, <1>s, <1>g, <2>3 DEF Commit, StartRollback, Run
  <2> QED BY <1>8, <2>2, <2>3, FailedSaveKeeps DEF Commit
<1>9. CASE CheckRollback
  BY <1>9, <1>s, <1>g DEF CheckRollback, Goto, Return
<1>10. CASE Withdraw
  <2> DEFINE record == Committed(mem.current, NoReceipt, mem.settings, job.keep, mem.undo)
  <2>1. record.newSettings = {}
    BY DEF Committed, NoJournal
  <2>2. pc = "withdraw" /\ UNCHANGED <<svm, mem>>
    BY <1>10 DEF Withdraw
  <2>3. faults >= 1
    BY <1>0, <2>2 DEF ProgressInv
  <2>4. CASE journal' = record /\ Goto("unset")
    <3> HIDE DEF record
    <3> QED BY <1>0, <1>s, <1>g, <2>1, <2>2, <2>3, <2>4 DEF Goto
  <2>5. CASE UNCHANGED journal /\ Return
    BY <1>s, <1>g, <2>2, <2>5 DEF Return
  <2> QED BY <1>10, <2>4, <2>5, FailedSaveKeeps DEF Withdraw
<1>11. CASE Unset
  <2>1. pc = "unset" /\ journal' = journal /\ svm' = svm \ job.wrote
    BY <1>11 DEF Unset
  <2>2. mem.settings = journal.settings
    BY <2>1 DEF MemoryInv
  <2> QED BY <1>11, <1>s, <1>g, <2>1, <2>2 DEF Unset, Return
<1>12. CASE CleanupSettings
  <2>1. pc = "clean" /\ journal' = journal /\ svm' = svm \ mem.settings /\ Goto("clear")
    BY <1>12 DEF CleanupSettings
  <2> QED BY <1>s, <1>g, <2>1 DEF Goto
<1>13. CASE Clear
  <2> DEFINE record == Committed(NoPlan, job.receipt, {}, NoAuth, NoUndo)
  <2>1. record.newSettings = {} /\ pc = "clear" /\ svm' = svm /\ Return
    BY <1>13 DEF Clear, Committed, NoJournal
  <2>2. journal' = record \/ journal' = journal
    BY <1>13, FailedSaveKeeps DEF Clear
  <2> HIDE DEF record
  <2> QED BY <1>s, <1>g, <2>1, <2>2 DEF Return
<1>14. CASE CheckRecovery
  <2>1. pc = "recover" /\ journal' = journal /\ mem' = mem
    BY <1>14 DEF CheckRecovery
  <2>2. journal.cleanup => journal.newSettings = {}
    BY <1>s DEF ControlInv
  <2> QED BY <1>14, <1>s, <1>g, <2>1, <2>2 DEF CheckRecovery, Goto, Return
<1>15. CASE Resettle
  <2> DEFINE record == IF journal.cleanup
                         THEN Committed(NoPlan, journal.receipt, {}, NoAuth, NoUndo)
                         ELSE Committed(journal.active, NoReceipt, journal.settings,
                                        journal.auth, journal.undo)
  <2>1. /\ record.newSettings = {}
        /\ svm \subseteq record.settings
    BY <1>15, <1>s DEF Resettle, Committed, NoJournal
  <2>2. pc = "resettle" /\ svm' = svm /\ Return
    BY <1>15 DEF Resettle
  <2>3. journal' = record \/ SaveFails(record)
    BY <1>15 DEF Resettle
  <2> HIDE DEF record
  <2>4. journal' = record \/ journal' = journal
    BY <2>3, FailedSaveKeeps
  <2> QED BY <1>s, <1>g, <2>1, <2>2, <2>4 DEF Return
<1>16. CASE Apply
  BY <1>16, BeginSettings DEF Apply, Ready
<1>17. CASE ApplyAgain
  <2> DEFINE record == Committed(mem.current, NoReceipt, mem.settings, mem.auth, mem.undo)
  <2>1. record.newSettings = {} /\ record.settings = mem.settings
    BY DEF Committed, NoJournal
  <2>2. /\ pc = "idle" /\ mem.init /\ ~Interrupted
        /\ pc' = "idle" /\ svm' = svm
    BY <1>17 DEF ApplyAgain, Ready
  <2>3. mem.settings = journal.settings /\ journal.newSettings = {}
    BY <1>s, <2>2 DEF MemoryInv, Interrupted
  <2>4. journal' = record \/ journal' = journal
    BY <1>17, FailedSaveKeeps DEF ApplyAgain
  <2> HIDE DEF record
  <2> QED BY <1>s, <1>g, <2>1, <2>2, <2>3, <2>4
<1>18. CASE Activate
  BY <1>18, BeginSettings DEF Activate, Ready
<1>19. CASE Refresh
  BY <1>19, BeginSettings DEF Refresh, Ready
<1>20. CASE Cleanup
  BY <1>20, CleanupWithSettings DEF Cleanup, Ready
<1>21. CASE CleanupNothing
  <2>1. /\ pc = "idle" /\ mem.init /\ ~Interrupted /\ mem.current = NoPlan
        /\ pc' = "idle" /\ svm' = svm
    BY <1>21 DEF CleanupNothing, Ready
  <2>2. svm = {}
    BY <1>s, <2>1 DEF MemoryInv, Interrupted
  <2>3. journal' = NoJournal \/ journal' = journal
    BY <1>21, FailedSaveKeeps DEF CleanupNothing
  <2> QED BY <1>s, <1>g, <2>1, <2>2, <2>3 DEF NoJournal
<1>22. CASE Restore
  BY <1>22, BeginSettings, CleanupWithSettings DEF Restore, Ready, PlansOrNone
<1>23. CASE RestoreRuntime
  BY <1>23, BeginSettings, CleanupWithSettings DEF RestoreRuntime, Ready
<1>24. CASE Adopt
  BY <1>24, <1>s, <1>g DEF Adopt
<1>25. CASE Reconcile
  BY <1>25, <1>s, <1>g DEF Reconcile
<1>26. CASE Recover
  BY <1>26, <1>s, <1>g DEF Recover, Run
<1>27. CASE Crash
  BY <1>0, <1>27, <1>s, <1>g DEF Crash, Return, Fault
<1>28. CASE LinkLoss
  BY <1>28, <1>s, <1>g DEF LinkLoss
<1>29. CASE UNCHANGED vars
  BY <1>29, <1>s, <1>g DEF vars
<1> QED
  BY <1>1, <1>2, <1>3, <1>4, <1>5, <1>6, <1>7, <1>8, <1>9, <1>10, <1>11, <1>12, <1>13,
     <1>14, <1>15, <1>16, <1>17, <1>18, <1>19, <1>20, <1>21, <1>22, <1>23, <1>24, <1>25,
     <1>26, <1>27, <1>28, <1>29 DEF Next, Transition, Request

\* Up to the first failure, wherever it hits, every setting that was switched on for a
\* plan has a receipt in the journal or is being switched off by the undo of that plan.
THEOREM SettingsAreAccounted ==
    ASSUME ~LateSaves, ~LinkLossInFlight
    PROVE  Spec => []SettingsAccounted
<1>1. Init => SettingsInv
  BY DEF Init, SettingsInv, NoJournal, TransitionPoints
<1>2. /\ HelperTypeOK /\ HelperTypeOK' /\ ControlInv /\ MemoryInv /\ ProgressInv /\ SettingsInv
      /\ [Next]_vars
      => SettingsInv'
  <2> SUFFICES ASSUME HelperTypeOK, HelperTypeOK', ControlInv, MemoryInv, ProgressInv, SettingsInv,
                      [Next]_vars
               PROVE  SettingsInv'
    OBVIOUS
  <2>1. CASE faults' < 2
    BY <2>1, SettingsStep
  <2>2. CASE ~(faults' < 2)
    BY <2>2 DEF SettingsInv
  <2> QED BY <2>1, <2>2
<1>3. SettingsInv => SettingsAccounted
  BY DEF SettingsInv, SettingsAccounted
<1> QED
  BY <1>1, <1>2, <1>3, HelperTypes, MemoryInvariant, RecoveryInvariant, PTL DEF Spec

-----------------------------------------------------------------------------
(* The walk of transition_steps and retire_steps *)

\* The plans of a walk, and what is left of it.
WalkInv ==
    /\ outgoing \in ListedPlans
    /\ incoming \in ListedPlans
    /\ OnCourse(Basis, incoming, remaining, inKernel)
    /\ Acceptable(incoming, remaining, inKernel)

\* An update starts on course.
LEMMA WalkInvInit == WalkInit => WalkInv
<1> SUFFICES ASSUME WalkInit PROVE WalkInv
  OBVIOUS
<1>1. outgoing \in ListedPlans /\ incoming \in ListedPlans
  BY DEF WalkInit, ListedPlans, NoPlan
<1>2. Proper(Basis) /\ Proper(incoming)
  BY <1>1, PlansProper, BasisProper DEF Basis
<1>3. inKernel = Own(Basis)
  BY DEF WalkInit
<1>4. CASE outgoing = NoPlan
  <2>1. LaneCount(Basis) = LaneCount(outgoing)
    BY <1>1, ListedBasis DEF Basis
  <2>2. LaneCount(outgoing) = 0
    BY <1>4 DEF NoPlan, LaneCount
  <2>3. Retires(Basis, incoming, <<>>)
    BY <2>1, <2>2, NothingRetired
  <2>4. remaining = TransitionSteps(Basis, incoming) \o <<>>
    BY <1>4 DEF WalkInit
  <2>5. /\ OnCourse(Basis, incoming, TransitionSteps(Basis, incoming) \o <<>>, Own(Basis))
        /\ Acceptable(incoming, TransitionSteps(Basis, incoming) \o <<>>, Own(Basis))
    BY <1>2, <2>3, WalkBegins, WalkAcceptable
  <2> QED BY <1>1, <1>3, <2>4, <2>5 DEF WalkInv
<1>5. CASE outgoing # NoPlan
  <2>1. Retires(Basis, incoming, RetireSteps(Basis, incoming))
    BY <1>2, RetireAhead
  <2>2. remaining = TransitionSteps(Basis, incoming) \o RetireSteps(Basis, incoming)
    BY <1>5 DEF WalkInit
  <2>3. /\ OnCourse(Basis, incoming, TransitionSteps(Basis, incoming) \o RetireSteps(Basis, incoming), Own(Basis))
        /\ Acceptable(incoming, TransitionSteps(Basis, incoming) \o RetireSteps(Basis, incoming), Own(Basis))
    BY <1>2, <2>1, WalkBegins, WalkAcceptable
  <2> QED BY <1>1, <1>3, <2>2, <2>3 DEF WalkInv
<1> QED BY <1>4, <1>5

\* A step keeps to it.
LEMMA WalkInvNext == WalkInv /\ [WalkNext]_walkVars => WalkInv'
<1> SUFFICES ASSUME WalkInv, [WalkNext]_walkVars PROVE WalkInv'
  OBVIOUS
<1>1. CASE WalkStep
  <2>1. outgoing' = outgoing /\ incoming' = incoming /\ Basis' = Basis
    BY <1>1 DEF WalkStep, Basis
  <2>2. remaining # <<>> /\ inKernel' = ApplyRoutingStep(inKernel, Head(remaining)) /\ remaining' = Tail(remaining)
    BY <1>1 DEF WalkStep
  <2>3. Proper(Basis) /\ Proper(incoming)
    BY PlansProper, BasisProper DEF WalkInv, Basis
  <2>4. OnCourse(Basis, incoming, remaining, inKernel) /\ Acceptable(incoming, remaining, inKernel)
    BY DEF WalkInv
  <2>5. OnCourse(Basis, incoming, Tail(remaining), ApplyRoutingStep(inKernel, Head(remaining)))
    BY <2>2, <2>3, <2>4, WalkGoesOn
  <2>6. /\ remaining \in Seq(WalkSteps(Basis, incoming))
        /\ inKernel = [routes |-> inKernel.routes, rules |-> inKernel.rules]
    BY <2>4 DEF OnCourse
  <2>7. Acceptable(incoming, Tail(remaining), ApplyRoutingStep(inKernel, Head(remaining)))
    BY <2>2, <2>3, <2>4, <2>6, WalkAccepted
  <2> QED BY <2>1, <2>2, <2>5, <2>7 DEF WalkInv
<1>2. CASE WalkDone \/ UNCHANGED walkVars
  <2>1. outgoing' = outgoing /\ incoming' = incoming /\ remaining' = remaining /\ inKernel' = inKernel /\ missing' = missing
    BY <1>2 DEF WalkDone, walkVars
  <2>2. Basis' = Basis
    BY <2>1 DEF Basis
  <2> QED BY <2>1, <2>2 DEF WalkInv
<1> QED BY <1>1, <1>2 DEF WalkNext

\* WalkEndsInNext: transition_steps and then retire_steps lead from what an
\* active plan has left in the kernel to exactly what the next plan owns.
THEOREM WalkReachesNext == WalkSpec => []WalkEndsInNext
<1>1. WalkInit => WalkInv
  BY WalkInvInit
<1>2. WalkInv => WalkEndsInNext
  <2> SUFFICES ASSUME WalkInv, remaining = <<>> PROVE inKernel = Own(incoming)
    BY DEF WalkEndsInNext
  <2>1. OnCourse(Basis, incoming, <<>>, inKernel)
    BY DEF WalkInv
  <2> QED BY <2>1, WalkArrives
<1> QED BY <1>1, <1>2, WalkInvNext, PTL DEF WalkSpec

\* SharedLanesStayRouted: a lane of both plans keeps its rule and its terminal
\* route at every step, but for a terminal a gateway's entry has lifted.
THEOREM SharedLanesKeepRouting == WalkSpec => []SharedLanesStayRouted
<1>1. WalkInit => WalkInv
  BY WalkInvInit
<1>2. WalkInv => SharedLanesStayRouted
  <2> SUFFICES ASSUME WalkInv PROVE SharedLanesStayRouted
    OBVIOUS
  <2>1. LaneFamilies(Basis) = LaneFamilies(outgoing)
    BY ListedBasis DEF WalkInv, Basis
  <2>2. SharedHave(Basis, incoming, remaining, inKernel)
    BY DEF WalkInv, OnCourse
  <2> QED BY <2>1, <2>2 DEF SharedLanesStayRouted, SharedHave
<1> QED BY <1>1, <1>2, WalkInvNext, PTL DEF WalkSpec

\* The step ahead is one ip accepts.
NothingRefused == remaining # <<>> => ~Refused(inKernel, Head(remaining))

\* NothingRefused: prepare_routes adds no rule the kernel has and no IPv6 gateway
\* to a table with its terminal route only, so a walk never stops half way.
THEOREM StepsAccepted == WalkSpec => []NothingRefused
<1>1. WalkInit => WalkInv
  BY WalkInvInit
<1>2. WalkInv => NothingRefused
  <2> SUFFICES ASSUME WalkInv, remaining # <<>> PROVE ~Refused(inKernel, Head(remaining))
    BY DEF NothingRefused
  <2>1. Proper(Basis) /\ Proper(incoming)
    BY PlansProper, BasisProper DEF WalkInv, Basis
  <2>2. /\ remaining \in Seq(WalkSteps(Basis, incoming)) /\ Acceptable(incoming, remaining, inKernel)
        /\ inKernel = [routes |-> inKernel.routes, rules |-> inKernel.rules]
    BY DEF WalkInv, OnCourse
  <2> QED BY <2>1, <2>2, WalkAccepted
<1> QED BY <1>1, <1>2, WalkInvNext, PTL DEF WalkSpec
=============================================================================
