------------------------ MODULE RuntimeFailover_proofs ------------------------
(***************************************************************************)
(* For every set of lanes, interfaces, families and policies, any number of *)
(* topology changes and every failure RuntimeFailover knows: the plan in     *)
(* force only uses approved lanes over the devices they were granted for.    *)
(*                                                                         *)
(* ExitApproved alone is not inductive.  What a refresh commits comes from   *)
(* the selector, so the selector must stand on approved lanes (a decision is *)
(* resumed, and kept while its exit is ready) and know every lane by the     *)
(* granted device or not at all (resume binds lanes anew); both are          *)
(* SelectorWithin, part of RuntimeInv.                                       *)
(*                                                                         *)
(* The plan the runtime settles on is the topology's, and a failback takes   *)
(* its time, under the failures Undisturbed names: devices stay, the kernel   *)
(* drops no route, a failed transition is undone.  Its parts are what the    *)
(* refresh relies on: a topology read is current or a notification waits     *)
(* (CurrentSnap), and what the selector waited for the refreshes have seen    *)
(* (Accounted).                                                              *)
(***************************************************************************)
EXTENDS RuntimeFailover, WellFoundedInduction, TLAPS

-----------------------------------------------------------------------------
(* The selector *)

\* What update decides for a family is ready and approved, if the exit it
\* starts from was approved.
LEMMA UpdateFamilyApproved ==
    ASSUME NEW policy \in Policies, NEW bind \in Bindings, NEW seen \in Topologies,
           NEW f \in Families, NEW s \in FamilyStates,
           s.effective # None => Approved(policy, s.effective)
    PROVE  LET u == UpdateFamily(policy, bind, seen, f, s)
           IN  /\ u \in FamilyStates
               /\ u.effective # None =>
                    Approved(policy, u.effective) /\ Ready(bind, seen, u.effective, f)
<1> DEFINE preferred == Preferred(policy, bind, seen, f)
           chosen == Chosen(policy, bind, seen, f, preferred)
           unclear == Unclear(policy, bind, seen, f)
<1>1. preferred \in Lanes \cup {None} /\ (preferred # None => Approved(policy, preferred))
  BY PolicyAssumption DEF Preferred, OnDefault, Approved
<1>2. chosen # None => chosen \in Lanes /\ Approved(policy, chosen) /\ Ready(bind, seen, chosen, f)
  <2>1. CASE preferred # None /\ Ready(bind, seen, preferred, f)
    BY <1>1, <2>1 DEF Chosen
  <2>2. CASE ~(preferred # None /\ Ready(bind, seen, preferred, f))
    <3>1. CASE FirstBackup(policy, bind, seen, f, preferred) = {}
      BY <2>2, <3>1 DEF Chosen
    <3>2. CASE FirstBackup(policy, bind, seen, f, preferred) # {}
      <4>1. PICK k \in FirstBackup(policy, bind, seen, f, preferred) : chosen = policy.backups[k]
        BY <2>2, <3>2 DEF Chosen
      <4>2. k \in DOMAIN policy.backups /\ policy.failover /\ Ready(bind, seen, policy.backups[k], f)
        BY <4>1 DEF FirstBackup
      <4>3. policy.backups[k] \in Lanes
        BY <4>2, PolicyAssumption
      <4> QED BY <4>1, <4>2, <4>3 DEF Approved
    <3> QED BY <3>1, <3>2
  <2> QED BY <2>1, <2>2
<1> HIDE DEF preferred, chosen, unclear
<1> DEFINE u == UpdateFamily(policy, bind, seen, f, s)
           oldReady == /\ s.effective # None
                       /\ Ready(bind, seen, s.effective, f)
                       /\ policy.failover \/ s.effective = preferred
           returning == /\ preferred # None
                        /\ Ready(bind, seen, preferred, f)
                        /\ s.effective # preferred
           resumed == IF s.preferred = preferred THEN s.waited ELSE None
           started == IF resumed = None THEN 0 ELSE resumed
<1>3. \/ u = [preferred |-> preferred, effective |-> None, waited |-> None]
      \/ u = [preferred |-> preferred, effective |-> chosen, waited |-> None]
      \/ oldReady /\ u = [preferred |-> preferred, effective |-> s.effective, waited |-> None]
      \/ returning /\ u = [preferred |-> preferred, effective |-> preferred, waited |-> None]
      \/ /\ oldReady /\ ~(started >= Delay)
         /\ u = [preferred |-> preferred, effective |-> s.effective, waited |-> started]
  BY Zenon DEF UpdateFamily, preferred, chosen, unclear
<1>4. started \in 0..Delay
  BY DelayAssumption DEF FamilyStates
<1>5. chosen \in Lanes \cup {None}
  BY <1>2
<1> HIDE DEF started, resumed, u
<1>6. u \in FamilyStates
  BY <1>1, <1>3, <1>4, <1>5 DEF FamilyStates
<1>7. u.effective # None => Approved(policy, u.effective) /\ Ready(bind, seen, u.effective, f)
  BY <1>1, <1>2, <1>3
<1> QED BY <1>6, <1>7 DEF u

\* A whole update keeps the selector within the grant, and every exit it
\* decides on is ready.
LEMMA UpdateWithin ==
    ASSUME NEW policy \in Policies, NEW bind, NEW seen \in Topologies, NEW sel,
           SelectorWithin(sel, policy, bind)
    PROVE  LET n == Update(sel, policy, seen)
           IN  /\ SelectorWithin(n, policy, bind)
               /\ n.bind = sel.bind
               /\ \A f \in Families :
                    n.st[f].effective # None => Ready(n.bind, seen, n.st[f].effective, f)
<1> DEFINE n == Update(sel, policy, seen)
<1>1. sel \in Selectors /\ sel.bind \in Bindings /\ sel.st \in [Families -> FamilyStates]
  BY DEF SelectorWithin, Selectors
<1>2. /\ n = [bind |-> sel.bind, st |-> n.st]
      /\ n.st = [f \in Families |-> UpdateFamily(policy, sel.bind, seen, f, sel.st[f])]
  BY <1>1 DEF Update, Selectors
<1>3. ASSUME NEW f \in Families
      PROVE  /\ n.st[f] \in FamilyStates
             /\ n.st[f].effective # None =>
                    Approved(policy, n.st[f].effective) /\ Ready(sel.bind, seen, n.st[f].effective, f)
  <2>1. sel.st[f] \in FamilyStates
    BY <1>1
  <2>2. sel.st[f].effective # None => Approved(policy, sel.st[f].effective)
    BY DEF SelectorWithin
  <2>3. n.st[f] = UpdateFamily(policy, sel.bind, seen, f, sel.st[f])
    BY <1>2
  <2> QED BY <1>1, <2>1, <2>2, <2>3, UpdateFamilyApproved
<1> HIDE DEF n
<1>4. n.bind = sel.bind
  BY <1>2
<1>5. n.st \in [Families -> FamilyStates]
  <2>1. \E F : n.st = [f \in Families |-> F[f]]
    <3> DEFINE F == [f \in Families |-> UpdateFamily(policy, sel.bind, seen, f, sel.st[f])]
    <3>1. n.st = [f \in Families |-> F[f]]
      BY <1>2
    <3> QED BY <3>1
  <2> QED BY <2>1, <1>3
<1>6. n \in Selectors
  BY <1>1, <1>2, <1>4, <1>5 DEF Selectors
<1>7. SelectorWithin(n, policy, bind)
  BY <1>3, <1>4, <1>6 DEF SelectorWithin
<1> QED BY <1>3, <1>4, <1>7 DEF n

\* One tick changes waits only.
LEMMA OlderWithin ==
    ASSUME NEW policy, NEW bind, NEW sel, SelectorWithin(sel, policy, bind)
    PROVE  SelectorWithin(Older(sel), policy, bind)
<1> DEFINE n == Older(sel)
<1>1. sel \in Selectors /\ sel.bind \in Bindings /\ sel.st \in [Families -> FamilyStates]
  BY DEF SelectorWithin, Selectors
<1>2. n.bind = sel.bind /\ n = [bind |-> n.bind, st |-> n.st]
  BY <1>1 DEF Older, Selectors
<1>3. ASSUME NEW f \in Families
      PROVE  n.st[f] \in FamilyStates /\ n.st[f].effective = sel.st[f].effective
  BY <1>1, DelayAssumption DEF Older, Selectors, FamilyStates
<1>4. n.st \in [Families -> FamilyStates]
  BY <1>1, <1>3 DEF Older, Selectors
<1> HIDE DEF n
<1>5. n \in Selectors
  BY <1>1, <1>2, <1>4 DEF Selectors
<1> QED BY <1>2, <1>3, <1>5 DEF SelectorWithin, n

\* In the topology a grant lets through, a lane has the granted device or none.
LEMMA RestrictedBinds ==
    ASSUME NEW bind \in Bindings, Uniform(bind), NEW t \in Topologies
    PROVE  /\ RestrictedTo(t, bind) \in Topologies
           /\ Bind(RestrictedTo(t, bind)) \in Bindings
           /\ \A l \in Lanes : Bind(RestrictedTo(t, bind))[l] \in {None, bind[l]}
<1> DEFINE r == RestrictedTo(t, bind)
<1>1. r \in Topologies
  BY DEF RestrictedTo, Topologies
<1>2. Bind(r) \in Bindings
  BY <1>1, LaneAssumption DEF Bind, Bindings, Topologies
<1>3. ASSUME NEW l \in Lanes PROVE Bind(r)[l] \in {None, bind[l]}
  <2>1. Bind(r)[l] = r.ident[LaneInterface[l]] /\ LaneInterface[l] \in Interfaces
    BY LaneAssumption DEF Bind
  <2>2. r.ident[LaneInterface[l]] =
            IF \E m \in Lanes : LaneInterface[m] = LaneInterface[l] /\ bind[m] = t.ident[LaneInterface[l]]
            THEN t.ident[LaneInterface[l]] ELSE None
    BY <2>1 DEF RestrictedTo, Topologies
  <2> QED BY <2>1, <2>2 DEF Uniform
<1> QED BY <1>1, <1>2, <1>3

\* A new selector, and one resumed from an approved decision, are within the
\* grant.
LEMMA FreshWithin ==
    ASSUME NEW policy, NEW bind, NEW seen, Bind(seen) \in Bindings,
           \A l \in Lanes : Bind(seen)[l] \in {None, bind[l]}
    PROVE  /\ SelectorWithin(NewSelector(seen), policy, bind)
           /\ \A dec \in Decisions :
                (\A f \in Families :
                    dec[f].effective # None => Approved(policy, dec[f].effective))
                => SelectorWithin(ResumedSelector(seen, dec), policy, bind)
<1>1. SelectorWithin(NewSelector(seen), policy, bind)
  BY DEF NewSelector, Fresh, NoChoice, SelectorWithin, Selectors, FamilyStates
<1>2. ASSUME NEW dec \in Decisions,
             \A f \in Families : dec[f].effective # None => Approved(policy, dec[f].effective)
      PROVE  SelectorWithin(ResumedSelector(seen, dec), policy, bind)
  <2>1. \A f \in Families : dec[f] \in Choices
    BY DEF Decisions
  <2> QED BY <1>2, <2>1 DEF ResumedSelector, Fresh, SelectorWithin, Selectors, FamilyStates, Choices
<1> QED BY <1>1, <1>2

\* The plan built from an updated selector sends each family through an
\* approved lane, its granted device and a route for it.
LEMMA CandidateWithin ==
    ASSUME NEW policy \in Policies, NEW bind \in Bindings, NEW seen \in Topologies,
           NEW sel, SelectorWithin(sel, policy, bind),
           \A f \in Families :
                sel.st[f].effective # None => Ready(sel.bind, seen, sel.st[f].effective, f)
    PROVE  LET p == PlanFor(Decision(sel), seen)
           IN  /\ Decision(sel) \in Decisions /\ p.dec = Decision(sel)
               /\ \A r : r.policy = policy /\ r.bind = bind => ExitsWithin(p, r)
<1> DEFINE p == PlanFor(Decision(sel), seen)
<1>1. sel.bind \in Bindings /\ sel.st \in [Families -> FamilyStates]
  BY DEF SelectorWithin, Selectors
<1>2. Decision(sel) \in Decisions
  BY <1>1 DEF Decision, Decisions, Choices, FamilyStates
<1>3. p.dec = Decision(sel)
  BY DEF PlanFor
<1>4. ASSUME NEW r, r.policy = policy, r.bind = bind, NEW f \in Families,
             p.dec[f].effective # None
      PROVE  LET l == p.dec[f].effective
             IN  /\ Approved(r.policy, l) /\ r.bind[l] # None
                 /\ p.ident[l] = r.bind[l] /\ f \in p.via[l]
  <2> DEFINE l == p.dec[f].effective
  <2>1. l = sel.st[f].effective /\ l # None
    BY <1>3, <1>4 DEF Decision
  <2>2. l \in Lanes
    BY <1>1, <2>1 DEF FamilyStates
  <2>3. Approved(policy, l) /\ sel.bind[l] \in {None, bind[l]}
    BY <2>1, <2>2 DEF SelectorWithin
  <2>4. sel.bind[l] # None /\ seen.ident[LaneInterface[l]] = sel.bind[l] /\ f \in seen.up[LaneInterface[l]]
    BY <2>1 DEF Ready
  <2>5. Bind(seen)[l] = sel.bind[l]
    BY <2>2, <2>4 DEF Bind
  <2>6. p.ident = Bind(seen) /\ p.via[l] = seen.up[LaneInterface[l]]
    BY <2>2, <2>4, <2>5 DEF PlanFor
  <2> HIDE DEF l, p
  <2>7. Approved(r.policy, l) /\ r.bind[l] # None /\ p.ident[l] = r.bind[l] /\ f \in p.via[l]
    BY <1>4, <2>3, <2>4, <2>5, <2>6
  <2> QED BY <2>7 DEF l
<1> HIDE DEF p
<1>5. \A r : r.policy = policy /\ r.bind = bind => ExitsWithin(p, r)
  BY <1>4 DEF ExitsWithin
<1> QED BY <1>2, <1>3, <1>5 DEF p

-----------------------------------------------------------------------------
(* The runtime *)

\* A runtime that differs in its selector, phase, timer and held candidate
\* stands for the same plan.
LEMMA SoundUpdate ==
    ASSUME NEW p, NEW r, RuntimeSound(p, r), NEW s,
           DOMAIN s = RuntimeFields,
           s.policy = r.policy, s.bind = r.bind, s.dec = r.dec,
           s.sel # None => SelectorWithin(s.sel, r.policy, r.bind)
    PROVE  RuntimeSound(p, s)
<1>1. ExitsWithin(p, s)
  BY DEF RuntimeSound, ExitsWithin
<1> QED BY <1>1 DEF RuntimeSound

\* What prepare_runtime_operation makes of the runtime still stands for the
\* plan; a refresh under way does not lose it.
LEMMA RecoveredSound ==
    ASSUME RuntimeInv, Recovered # None \/ Refreshing
    PROVE  RuntimeSound(plan, Recovered)
<1>1. CASE ~broken \/ runtime = None
  BY <1>1 DEF RuntimeInv, Recovered, Loaded
<1>2. CASE broken /\ runtime # None /\ kept
  <2>1. RuntimeSound(plan, runtime)
    BY <1>2 DEF RuntimeInv
  <2>2. Recovered = Armed(runtime.policy, runtime.bind, runtime.dec, None)
    BY <1>2 DEF Recovered, Loaded
  <2>3. /\ DOMAIN Recovered = RuntimeFields
        /\ Recovered.policy = runtime.policy /\ Recovered.bind = runtime.bind
        /\ Recovered.dec = runtime.dec /\ Recovered.sel = None
    BY <2>2 DEF Armed, RuntimeFields
  <2> QED BY <2>1, <2>3, SoundUpdate
<1>3. CASE broken /\ runtime # None /\ ~kept
  BY <1>3 DEF RuntimeInv, Recovered, Loaded
<1> QED BY <1>1, <1>2, <1>3

\* An activation reads a topology that lets every device through: each lane is
\* granted the device it has now.
LEMMA GrantBinds ==
    ASSUME NEW seen \in Topologies
    PROVE  Bind(seen) \in Bindings /\ Uniform(Bind(seen))
<1>1. Bind(seen) \in Bindings
  BY LaneAssumption DEF Bind, Bindings, Topologies
<1> QED BY <1>1 DEF Uniform, Bind

\* What an activation arms stands for the plan it commits.
LEMMA ActivationSound ==
    ASSUME NEW policy \in Policies, NEW seen \in Topologies
    PROVE  LET bind == Bind(seen)
               granted == RestrictedTo(seen, bind)
               sel == Update(NewSelector(granted), policy, granted)
           IN  RuntimeSound(PlanFor(Decision(sel), granted),
                            Armed(policy, bind, Decision(sel), sel))
<1> DEFINE bind == Bind(seen)
           granted == RestrictedTo(seen, bind)
           fresh == NewSelector(granted)
           sel == Update(fresh, policy, granted)
           p == PlanFor(Decision(sel), granted)
           r == Armed(policy, bind, Decision(sel), sel)
<1>1. bind \in Bindings /\ Uniform(bind)
  BY GrantBinds
<1> HIDE DEF bind
<1>2. /\ granted \in Topologies /\ Bind(granted) \in Bindings
      /\ \A l \in Lanes : Bind(granted)[l] \in {None, bind[l]}
  BY <1>1, RestrictedBinds
<1> HIDE DEF granted
<1>3. SelectorWithin(fresh, policy, bind)
  BY <1>2, FreshWithin
<1> HIDE DEF fresh
<1>4. /\ SelectorWithin(sel, policy, bind)
      /\ \A f \in Families :
            sel.st[f].effective # None => Ready(sel.bind, granted, sel.st[f].effective, f)
  BY <1>2, <1>3, UpdateWithin
<1> HIDE DEF sel
<1>5. r.policy = policy /\ r.bind = bind /\ r.dec = Decision(sel) /\ r.sel = sel /\ DOMAIN r = RuntimeFields
  BY DEF Armed, RuntimeFields
<1> HIDE DEF r
<1>6. Decision(sel) \in Decisions /\ p.dec = Decision(sel) /\ ExitsWithin(p, r)
  BY <1>1, <1>2, <1>4, <1>5, CandidateWithin
<1> HIDE DEF p
<1>7. RuntimeSound(p, r)
  BY <1>1, <1>4, <1>5, <1>6 DEF RuntimeSound
<1> QED BY <1>7 DEF p, r, sel, fresh, granted, bind

\* The selector a refresh works with, and what it commits, stand for the grant.
LEMMA RefreshSound ==
    ASSUME NEW p0, NEW r, RuntimeSound(p0, r), NEW t \in Topologies
    PROVE  LET seen == RestrictedTo(t, r.bind)
               sel == Update(IF r.sel = None THEN ResumedSelector(seen, r.dec) ELSE r.sel,
                             r.policy, seen)
               p == PlanFor(Decision(sel), seen)
           IN  /\ SelectorWithin(sel, r.policy, r.bind)
               /\ \A s : /\ DOMAIN s = RuntimeFields
                         /\ s.policy = r.policy /\ s.bind = r.bind
                         /\ s.dec = Decision(sel) /\ s.sel = sel
                         => RuntimeSound(p, s)
<1> DEFINE seen == RestrictedTo(t, r.bind)
           first == IF r.sel = None THEN ResumedSelector(seen, r.dec) ELSE r.sel
           sel == Update(first, r.policy, seen)
           p == PlanFor(Decision(sel), seen)
<1>1. /\ r.policy \in Policies /\ r.bind \in Bindings /\ Uniform(r.bind) /\ r.dec \in Decisions
      /\ r.sel # None => SelectorWithin(r.sel, r.policy, r.bind)
  BY DEF RuntimeSound
<1>2. \A f \in Families : r.dec[f].effective # None => Approved(r.policy, r.dec[f].effective)
  BY DEF RuntimeSound, ExitsWithin
<1>3. /\ seen \in Topologies /\ Bind(seen) \in Bindings
      /\ \A l \in Lanes : Bind(seen)[l] \in {None, r.bind[l]}
  BY <1>1, RestrictedBinds
<1> HIDE DEF seen
<1>4. SelectorWithin(ResumedSelector(seen, r.dec), r.policy, r.bind)
  BY <1>1, <1>2, <1>3, FreshWithin
<1>5. SelectorWithin(first, r.policy, r.bind)
  BY <1>1, <1>4
<1> HIDE DEF first
<1>6. /\ SelectorWithin(sel, r.policy, r.bind)
      /\ \A f \in Families :
            sel.st[f].effective # None => Ready(sel.bind, seen, sel.st[f].effective, f)
  BY <1>1, <1>3, <1>5, UpdateWithin
<1> HIDE DEF sel
<1>7. /\ Decision(sel) \in Decisions /\ p.dec = Decision(sel)
      /\ \A s : s.policy = r.policy /\ s.bind = r.bind => ExitsWithin(p, s)
  BY <1>1, <1>3, <1>6, CandidateWithin
<1> HIDE DEF p
<1>8. ASSUME NEW s, DOMAIN s = RuntimeFields, s.policy = r.policy, s.bind = r.bind,
             s.dec = Decision(sel), s.sel = sel
      PROVE  RuntimeSound(p, s)
  BY <1>1, <1>6, <1>7, <1>8 DEF RuntimeSound
<1>9. /\ SelectorWithin(sel, r.policy, r.bind)
      /\ \A s : /\ DOMAIN s = RuntimeFields
                /\ s.policy = r.policy /\ s.bind = r.bind
                /\ s.dec = Decision(sel) /\ s.sel = sel
                => RuntimeSound(p, s)
  BY <1>6, <1>8
<1> QED BY <1>9 DEF p, sel, first, seen

-----------------------------------------------------------------------------
(* The invariant *)

\* The initial states satisfy RuntimeInv.
LEMMA InitRuntimeInv == Init => RuntimeInv
BY DEF Init, RuntimeInv, Refreshing

\* The kernel's and the clock's steps keep RuntimeInv.
LEMMA EnvironmentKeepsInv ==
    ASSUME RuntimeInv, Change \/ Tick
    PROVE  RuntimeInv'
<1>1. CASE Change
  <2>1. top' \in Topologies
    BY <1>1 DEF RuntimeInv, Change, Topologies
  <2> QED BY <1>1, <2>1 DEF RuntimeInv, Change, Refreshing, helper
<1>2. CASE Tick
  <2>1. UNCHANGED <<top, ask, driver, snap, plan, broken, kept>>
    BY <1>2 DEF Tick, kernel
  <2>2. ASSUME runtime' # None \/ Refreshing PROVE RuntimeSound(plan, runtime')
    <3>1. CASE runtime = None
      BY <1>2, <2>2, <3>1 DEF Tick, RuntimeInv
    <3>2. CASE runtime # None
      <4> DEFINE older == IF runtime.sel = None THEN None ELSE Older(runtime.sel)
      <4>1. RuntimeSound(plan, runtime)
        BY <3>2 DEF RuntimeInv
      <4>2. DOMAIN runtime = RuntimeFields
        BY <4>1 DEF RuntimeSound
      <4>3. runtime' = [runtime EXCEPT !.sel = IF @ = None THEN None ELSE Older(@),
                                       !.held.left = Later(@)]
        BY <1>2, <3>2 DEF Tick
      <4>4. /\ DOMAIN runtime' = RuntimeFields /\ runtime'.policy = runtime.policy
            /\ runtime'.bind = runtime.bind /\ runtime'.dec = runtime.dec
            /\ runtime'.sel = older
        BY <4>2, <4>3 DEF RuntimeFields
      <4>5. older # None => SelectorWithin(older, runtime.policy, runtime.bind)
        BY <4>1, OlderWithin DEF RuntimeSound
      <4> QED BY <4>1, <4>4, <4>5, SoundUpdate
    <3> QED BY <3>1, <3>2
  <2>3. Refreshing /\ broken => kept \/ runtime' = None
    BY <1>2 DEF RuntimeInv, Tick
  <2> QED BY <2>1, <2>2, <2>3 DEF RuntimeInv, Refreshing
<1> QED BY <1>1, <1>2

\* So do the steps of the forwarder and of the driver that call no backend.
LEMMA MonitorKeepsInv ==
    ASSUME RuntimeInv,
           \/ Subscribe \/ SourceEnds \/ ReportClosed
           \/ TakeChanged \/ Coalesced \/ TimerFires \/ RestartFeed
    PROVE  RuntimeInv'
<1>1. /\ UNCHANGED <<top, snap, ask, runtime, plan, broken, kept>>
      /\ driver' = driver \/ driver' \notin {"capture", "refresh"}
  BY DEF Subscribe, SourceEnds, ReportClosed, TakeChanged, Coalesced, TimerFires, RestartFeed,
         kernel, helper
<1> QED BY <1>1 DEF RuntimeInv, Refreshing

\* An activation keeps RuntimeInv, also while a refresh is under way.
LEMMA ActivationKeepsInv ==
    ASSUME RuntimeInv, Activate \/ \E policy \in Policies : RequestActivation(policy)
    PROVE  RuntimeInv'
<1>1. CASE \E policy \in Policies : RequestActivation(policy)
  <2>1. ask' \in Requests
    BY <1>1 DEF RequestActivation, Requests, RuntimeInv
  <2>2. UNCHANGED <<top, driver, snap, runtime, plan, broken, kept>>
    BY <1>1 DEF RequestActivation, kernel, monitor
  <2> QED BY <2>1, <2>2 DEF RuntimeInv, Refreshing
<1>2. CASE Activate
  <2>1. ask' = None /\ UNCHANGED <<top, driver, snap>>
    BY <1>2 DEF Activate
  <2>2. /\ ask \in Requests /\ ask.policy \in Policies /\ ask.seen \in Topologies
        /\ ActivateWith(ask.policy, ask.seen)
    BY <1>2 DEF Activate, RuntimeInv, Requests
  <2> DEFINE bind == Bind(ask.seen)
             granted == RestrictedTo(ask.seen, bind)
             sel == Update(NewSelector(granted), ask.policy, granted)
             candidate == PlanFor(Decision(sel), granted)
  <2>3. \/ PrepareFails /\ UNCHANGED <<runtime, plan, kept>>
        \/ runtime' = Recovered /\ broken' = FALSE /\ UNCHANGED <<plan, kept>>
        \/ runtime' = Recovered /\ TransitionFails(Recovered # None)
        \/ Commits(candidate) /\ runtime' = Armed(ask.policy, bind, Decision(sel), sel)
    BY <2>2, Zenon DEF ActivateWith
  <2>4. RuntimeSound(candidate, Armed(ask.policy, bind, Decision(sel), sel))
    BY <2>2, ActivationSound
  <2> HIDE DEF candidate, sel, granted, bind
  <2>5. runtime' # None \/ Refreshing => RuntimeSound(plan', runtime')
    <3>1. CASE PrepareFails /\ UNCHANGED <<runtime, plan, kept>>
      BY <3>1 DEF RuntimeInv
    <3>2. CASE runtime' = Recovered /\ plan' = plan
      BY <3>2, RecoveredSound
    <3>3. CASE Commits(candidate) /\ runtime' = Armed(ask.policy, bind, Decision(sel), sel)
      BY <2>4, <3>3 DEF Commits
    <3> QED BY <2>3, <3>1, <3>2, <3>3 DEF TransitionFails
  <2>6. Refreshing /\ broken' => kept' \/ runtime' = None
    <3>1. CASE PrepareFails /\ UNCHANGED <<runtime, plan, kept>>
      BY <3>1 DEF RuntimeInv, PrepareFails
    <3>2. CASE runtime' = Recovered /\ TransitionFails(Recovered # None)
      BY <3>2 DEF TransitionFails
    <3> QED BY <2>3, <3>1, <3>2 DEF Commits
  <2> QED BY <2>1, <2>5, <2>6 DEF RuntimeInv, Refreshing
<1> QED BY <1>1, <1>2

\* degrade_runtime keeps what the runtime stands for.
LEMMA DegradeSound ==
    ASSUME NEW p, NEW r, r # None => RuntimeSound(p, r)
    PROVE  Degrade(r) # None => RuntimeSound(p, Degrade(r))
<1>1. SUFFICES ASSUME r # None PROVE RuntimeSound(p, [r EXCEPT !.phase = "Degraded"])
  BY DEF Degrade
<1> DEFINE s == [r EXCEPT !.phase = "Degraded"]
<1>2. RuntimeSound(p, r) /\ DOMAIN r = RuntimeFields
  BY <1>1 DEF RuntimeSound
<1>3. /\ DOMAIN s = RuntimeFields /\ s.policy = r.policy /\ s.bind = r.bind
      /\ s.dec = r.dec /\ s.sel = r.sel
  BY <1>2 DEF RuntimeFields
<1>4. r.sel # None => SelectorWithin(r.sel, r.policy, r.bind)
  BY <1>2 DEF RuntimeSound
<1> HIDE DEF s
<1>5. RuntimeSound(p, s)
  BY <1>2, <1>3, <1>4, SoundUpdate
<1> QED BY <1>5 DEF s

\* A lost source, a status call and a topology capture keep RuntimeInv.
LEMMA StatusKeepsInv ==
    ASSUME RuntimeInv, TakeClosed \/ Status \/ Capture
    PROVE  RuntimeInv'
<1>1. UNCHANGED <<top, ask, plan, kept>>
  BY DEF TakeClosed, Status, Capture, kernel
<1>2. Recovered # None => RuntimeSound(plan, Recovered)
  BY RecoveredSound
<1>3. CASE TakeClosed
  <2>1. runtime' = runtime \/ runtime' = Degrade(Recovered)
    BY <1>3 DEF TakeClosed
  <2>2. runtime' # None => RuntimeSound(plan, runtime')
    BY <1>2, <2>1, DegradeSound DEF RuntimeInv
  <2> QED BY <1>1, <1>3, <2>2 DEF RuntimeInv, Refreshing, TakeClosed
<1>4. CASE Status
  <2>1. \/ runtime' = runtime /\ driver' = "idle"
        \/ runtime' = Recovered /\ broken' = FALSE /\ driver' = "idle"
        \/ runtime' = Recovered /\ broken' = FALSE /\ Recovered # None /\ driver' = "capture"
    BY <1>4 DEF Status, Idles
  <2>2. runtime' # None \/ driver' = "capture" => RuntimeSound(plan, runtime')
    BY <1>2, <2>1 DEF RuntimeInv
  <2> QED BY <1>1, <2>1, <2>2 DEF RuntimeInv, Refreshing
<1>5. CASE Capture
  <2>1. \/ driver = "capture" /\ driver' = "refresh" /\ snap' = top /\ UNCHANGED <<runtime, broken>>
        \/ driver' = "idle" /\ runtime' = runtime
        \/ driver' = "idle" /\ runtime' = Degrade(Recovered)
    BY <1>5 DEF Capture, Idles
  <2>2. CASE driver = "capture" /\ driver' = "refresh" /\ snap' = top /\ UNCHANGED <<runtime, broken>>
    BY <1>1, <2>2 DEF RuntimeInv, Refreshing
  <2>3. CASE driver' = "idle" /\ (runtime' = runtime \/ runtime' = Degrade(Recovered))
    <3>1. runtime' # None => RuntimeSound(plan, runtime')
      BY <1>2, <2>3, DegradeSound DEF RuntimeInv
    <3> QED BY <1>1, <2>3, <3>1 DEF RuntimeInv, Refreshing
  <2> QED BY <2>1, <2>2, <2>3
<1> QED BY <1>3, <1>4, <1>5

\* A refresh keeps RuntimeInv: what it does not commit it does not stand for.
LEMMA RefreshKeepsInv ==
    ASSUME RuntimeInv, Refresh
    PROVE  RuntimeInv'
<1>1. driver = "refresh" /\ driver' = "idle" /\ UNCHANGED <<top, ask>> /\ snap \in Topologies
  BY DEF Refresh, Idles, RuntimeInv
<1>2. SUFFICES RuntimeSound(plan', runtime')
  BY <1>1 DEF RuntimeInv, Refreshing
<1>3. RuntimeSound(plan, runtime) /\ RuntimeSound(plan, Recovered)
  BY <1>1, RecoveredSound DEF RuntimeInv, Refreshing
<1>4. ASSUME NEW r, RuntimeSound(plan, r), NEW s,
             DOMAIN s = RuntimeFields, s.policy = r.policy, s.bind = r.bind, s.dec = r.dec,
             s.sel = None \/ s.sel = r.sel \/ SelectorWithin(s.sel, r.policy, r.bind)
      PROVE  RuntimeSound(plan, s)
  BY <1>4, SoundUpdate DEF RuntimeSound
<1>5. CASE UNCHANGED plan /\ \E d : runtime' = [runtime EXCEPT !.due = d]
  <2>1. /\ DOMAIN runtime' = RuntimeFields /\ runtime'.policy = runtime.policy
        /\ runtime'.bind = runtime.bind /\ runtime'.dec = runtime.dec
        /\ runtime'.sel = runtime.sel
    BY <1>3, <1>5 DEF RuntimeSound, RuntimeFields
  <2> QED BY <1>3, <1>4, <1>5, <2>1
<1>6. CASE /\ UNCHANGED plan
           /\ \E d : runtime' = [runtime EXCEPT !.sel = None, !.phase = "Degraded", !.due = d]
  <2>1. /\ DOMAIN runtime' = RuntimeFields /\ runtime'.policy = runtime.policy
        /\ runtime'.bind = runtime.bind /\ runtime'.dec = runtime.dec /\ runtime'.sel = None
    BY <1>3, <1>6 DEF RuntimeSound, RuntimeFields
  <2> QED BY <1>3, <1>4, <1>6, <2>1
<1>7. CASE RefreshWith(Recovered)
  <2> DEFINE r == Recovered
             seen == RestrictedTo(snap, r.bind)
             sel == Update(IF r.sel = None THEN ResumedSelector(seen, r.dec) ELSE r.sel,
                           r.policy, seen)
             candidate == PlanFor(Decision(sel), seen)
  <2>1. /\ SelectorWithin(sel, r.policy, r.bind)
        /\ \A s : /\ DOMAIN s = RuntimeFields /\ s.policy = r.policy /\ s.bind = r.bind
                  /\ s.dec = Decision(sel) /\ s.sel = sel
                  => RuntimeSound(candidate, s)
    BY <1>1, <1>3, RefreshSound
  <2>2. DOMAIN r = RuntimeFields
    BY <1>3 DEF RuntimeSound
  <2>3. \/ /\ UNCHANGED plan
           /\ \E d : runtime' = [r EXCEPT !.sel = None, !.phase = "Degraded", !.due = d]
        \/ /\ UNCHANGED plan
           /\ \E d : runtime' = [r EXCEPT !.sel = sel, !.phase = "Armed", !.due = d, !.held = NoHold]
        \/ /\ UNCHANGED plan
           /\ \E d : runtime' = [r EXCEPT !.sel = sel, !.due = d]
        \/ /\ plan' = candidate
           /\ \E d : runtime' = [r EXCEPT !.dec = Decision(sel), !.sel = sel, !.phase = "Armed",
                                           !.due = d, !.held = NoHold]
        \/ /\ UNCHANGED plan
           /\ \E d, h : runtime' =
                [[r EXCEPT !.sel = None, !.phase = "Degraded", !.due = d] EXCEPT !.held = h]
    <3> DEFINE due == NextDeadline(sel)
               held == IF r.held.cand = candidate THEN r.held ELSE NoHold
               wait == NextWait(held.wait)
               later == IF broken' THEN Sooner(Sooner(due, wait), recovery'.left)
                        ELSE Sooner(due, wait)
               failed(w) == [r EXCEPT !.sel = None, !.phase = "Degraded", !.due = w]
    <3>1. \/ runtime' = failed(due) /\ UNCHANGED plan
          \/ /\ runtime' = [r EXCEPT !.sel = sel, !.phase = "Armed", !.due = due, !.held = NoHold]
             /\ UNCHANGED plan
          \/ runtime' = [r EXCEPT !.sel = sel, !.due = Sooner(due, held.left)] /\ UNCHANGED plan
          \/ /\ runtime' = [r EXCEPT !.dec = Decision(sel), !.sel = sel, !.phase = "Armed",
                                     !.due = due, !.held = NoHold]
             /\ plan' = candidate
          \/ /\ runtime' = [failed(later) EXCEPT
                                !.held = [cand |-> candidate, left |-> wait, wait |-> wait]]
             /\ UNCHANGED plan
      BY <1>7, Zenon DEF RefreshWith, Commits, TransitionFails
    <3> HIDE DEF due, held, wait, later, candidate, sel, seen, r
    <3> QED BY <3>1, Zenon
  <2> HIDE DEF candidate, sel, seen, r
  <2>4. CASE UNCHANGED plan /\ runtime'.dec = r.dec /\ runtime'.sel \in {None, sel}
             /\ DOMAIN runtime' = RuntimeFields
             /\ runtime'.policy = r.policy /\ runtime'.bind = r.bind
    BY <1>3, <1>4, <2>1, <2>4 DEF r
  <2>5. CASE plan' = candidate /\ \E d : runtime' =
                [r EXCEPT !.dec = Decision(sel), !.sel = sel, !.phase = "Armed",
                          !.due = d, !.held = NoHold]
    <3>1. /\ DOMAIN runtime' = RuntimeFields /\ runtime'.policy = r.policy
          /\ runtime'.bind = r.bind /\ runtime'.dec = Decision(sel) /\ runtime'.sel = sel
      BY <2>2, <2>5 DEF RuntimeFields
    <3> QED BY <2>1, <2>5, <3>1
  <2>6. CASE UNCHANGED plan /\ ~(plan' = candidate /\ \E d : runtime' =
                [r EXCEPT !.dec = Decision(sel), !.sel = sel, !.phase = "Armed",
                          !.due = d, !.held = NoHold])
    <3>1. /\ DOMAIN runtime' = RuntimeFields /\ runtime'.policy = r.policy
          /\ runtime'.bind = r.bind /\ runtime'.dec = r.dec /\ runtime'.sel \in {None, sel}
      BY <2>2, <2>3, <2>6 DEF RuntimeFields
    <3> QED BY <2>4, <2>6, <3>1
  <2> QED BY <2>3, <2>5, <2>6
<1> QED BY <1>5, <1>6, <1>7 DEF Refresh, PrepareFails

\* A restart keeps RuntimeInv: what is loaded is what was committed.
LEMMA RestartKeepsInv ==
    ASSUME RuntimeInv, Restart
    PROVE  RuntimeInv'
<1>1. UNCHANGED <<top, plan>> /\ ask' = None /\ driver' = "status"
  BY DEF Restart, kernel
<1>2. runtime' = None \/ (runtime # None /\ runtime' = Armed(runtime.policy, runtime.bind, runtime.dec, None))
  BY DEF Restart, Loaded
<1>3. ASSUME runtime' # None PROVE RuntimeSound(plan, runtime')
  <2>1. RuntimeSound(plan, runtime)
    BY <1>2, <1>3 DEF RuntimeInv
  <2>2. /\ DOMAIN runtime' = RuntimeFields /\ runtime'.policy = runtime.policy
        /\ runtime'.bind = runtime.bind /\ runtime'.dec = runtime.dec /\ runtime'.sel = None
    BY <1>2, <1>3 DEF Armed, RuntimeFields
  <2> QED BY <2>1, <2>2, SoundUpdate
<1> QED BY <1>1, <1>3 DEF RuntimeInv, Refreshing

\* Every step keeps RuntimeInv.
LEMMA NextKeepsInv == RuntimeInv /\ [Next]_vars => RuntimeInv'
<1>1. SUFFICES ASSUME RuntimeInv, [Next]_vars PROVE RuntimeInv'
  OBVIOUS
<1>2. CASE UNCHANGED vars
  BY <1>1, <1>2 DEF vars, kernel, monitor, helper, RuntimeInv, Refreshing
<1>3. CASE Next
  BY <1>1, <1>3, EnvironmentKeepsInv, MonitorKeepsInv, ActivationKeepsInv, StatusKeepsInv,
     RefreshKeepsInv, RestartKeepsInv DEF Next
<1> QED BY <1>1, <1>2, <1>3

-----------------------------------------------------------------------------
(* What an update decides *)

\* Every non-empty set of waits has a shortest one.
LEMMA ShortestWait ==
    ASSUME NEW S \in SUBSET Nat, S # {}
    PROVE  \E w \in S : \A v \in S : w <= v
<1> DEFINE R == {ss \in Nat \X Nat : ss[1] < ss[2]}
<1>1. IsWellFoundedOn(R, Nat)
  BY NatLessThanWellFounded DEF OpToRel
<1>2. \E w \in S : \A v \in S : ~(<<v, w>> \in R)
  <2> HIDE DEF R
  <2> QED BY <1>1, WFMin
<1>3. PICK w \in S : \A v \in S : ~(<<v, w>> \in R)
  BY <1>2
<1>4. ASSUME NEW v \in S PROVE w <= v
  <2>1. v \in Nat /\ w \in Nat
    OBVIOUS
  <2>2. ~(v < w)
    BY <1>3, <2>1
  <2> QED BY <2>1, <2>2
<1> QED BY <1>4

\* The next deadline is a time, unless no family waits.
LEMMA DeadlineKnown ==
    ASSUME NEW sel \in Selectors
    PROVE  /\ NextDeadline(sel) \in Nat \cup {None}
           /\ NextDeadline(sel) = None => \A f \in Families : sel.st[f].waited = None
<1>1. \A f \in Families : sel.st[f].waited \in 0..Delay \cup {None}
  BY DEF Selectors, FamilyStates
<1>2. Pending(sel) \in SUBSET Nat
  BY <1>1, DelayAssumption DEF Pending
<1>3. CASE Pending(sel) = {}
  BY <1>3 DEF NextDeadline, Soonest, Pending
<1>4. CASE Pending(sel) # {}
  <2>1. \E w \in Pending(sel) : \A v \in Pending(sel) : w <= v
    BY <1>2, <1>4, ShortestWait
  <2>2. NextDeadline(sel) \in Pending(sel)
    BY <1>4, <2>1 DEF NextDeadline, Soonest
  <2> QED BY <1>2, <2>2, NoneAssumption
<1> QED BY <1>3, <1>4

\* With a wait there is a next time.
LEMMA SoonerKnown ==
    ASSUME NEW a \in Nat \cup {None}, NEW b \in Nat
    PROVE  Sooner(a, b) \in Nat /\ Sooner(a, b) # None
<1> DEFINE S == {a, b} \ {None}
<1>1. b # None /\ S \in SUBSET Nat /\ S # {}
  BY NoneAssumption
<1>2. \E w \in S : \A v \in S : w <= v
  <2> HIDE DEF S
  <2> QED BY <1>1, ShortestWait
<1>3. Sooner(a, b) \in S
  <2>1. Sooner(a, b) = CHOOSE w \in S : \A v \in S : w <= v
    BY <1>1 DEF Sooner, Soonest
  <2> HIDE DEF S
  <2> QED BY <1>2, <2>1
<1> QED BY <1>1, <1>3, NoneAssumption

\* The decision a topology asks for.
Meets(d, policy, bind, t, f) ==
    LET p == Preferred(policy, bind, t, f)
    IN  /\ d.preferred = p
        /\ IF Unclear(policy, bind, t, f) THEN d.effective = None
           ELSE IF p # None /\ Ready(bind, t, p, f) THEN d.effective = p
           ELSE IF d.effective = None THEN FirstBackup(policy, bind, t, f, p) = {}
           ELSE policy.failover /\ Ready(bind, t, d.effective, f)

\* A family that need not wait has what the topology asks for; one that waits
\* for its preferred lane sees it ready, now and since the wait began; and a
\* ready exit is only left for it when the wait is over.
LEMMA UpdateFamilyMeets ==
    ASSUME NEW policy \in Policies, NEW bind \in Bindings, NEW t \in Topologies,
           NEW f \in Families, NEW s \in FamilyStates
    PROVE  LET u == UpdateFamily(policy, bind, t, f, s)
               p == Preferred(policy, bind, t, f)
           IN  /\ u.preferred = p /\ u.effective \in Lanes \cup {None}
               /\ u.waited = None => Meets(u, policy, bind, t, f)
               /\ u.waited # None =>
                    /\ p # None /\ Ready(bind, t, p, f) /\ s.effective # None
                    /\ u.waited = 0 \/ (s.preferred = p /\ s.waited # None /\ u.waited = s.waited)
               /\ /\ s.effective # None /\ Ready(bind, t, s.effective, f) /\ policy.failover
                  /\ u.effective = p /\ p # None /\ s.effective # p
                  => s.preferred = p /\ s.waited = Delay
<1> DEFINE p == Preferred(policy, bind, t, f)
           u == UpdateFamily(policy, bind, t, f, s)
           chosen == Chosen(policy, bind, t, f, p)
           unclear == Unclear(policy, bind, t, f)
           first == FirstBackup(policy, bind, t, f, p)
           oldReady == /\ s.effective # None
                       /\ Ready(bind, t, s.effective, f)
                       /\ policy.failover \/ s.effective = p
           returning == /\ p # None /\ Ready(bind, t, p, f) /\ s.effective # p
           resumed == IF s.preferred = p THEN s.waited ELSE None
           started == IF resumed = None THEN 0 ELSE resumed
           becomes(lane, wait) == [preferred |-> p, effective |-> lane, waited |-> wait]
<1>1. p \in Lanes \cup {None} /\ (unclear => p = None)
  <2>1. unclear => p = None
    BY DEF Preferred, Unclear
  <2> QED BY <2>1, PolicyAssumption DEF Preferred, OnDefault
<1>2. /\ ~unclear => Meets(becomes(chosen, None), policy, bind, t, f)
      /\ chosen \in Lanes \cup {None}
  <2>1. CASE p # None /\ Ready(bind, t, p, f)
    BY <1>1, <2>1 DEF Meets, Chosen
  <2>2. CASE ~(p # None /\ Ready(bind, t, p, f)) /\ first = {}
    BY <2>2 DEF Meets, Chosen
  <2>3. CASE ~(p # None /\ Ready(bind, t, p, f)) /\ first # {}
    <3>1. PICK k \in first : chosen = policy.backups[k]
      BY <2>3 DEF Chosen
    <3>2. k \in DOMAIN policy.backups /\ policy.failover /\ Ready(bind, t, policy.backups[k], f)
      BY <3>1 DEF FirstBackup
    <3>3. policy.backups[k] \in Lanes
      BY <3>2, PolicyAssumption
    <3>4. chosen # None
      BY <3>1, <3>3, NoneAssumption
    <3> HIDE DEF chosen, first
    <3> QED BY <2>3, <3>1, <3>2, <3>3, <3>4 DEF Meets
  <2> QED BY <2>1, <2>2, <2>3
<1>3. started \in 0..Delay /\ started # None /\ (s.waited = None \/ s.waited \in 0..Delay)
  BY DelayAssumption, NoneAssumption DEF FamilyStates
<1>4. Meets(becomes(s.effective, None), policy, bind, t, f) <=>
        IF unclear THEN s.effective = None
        ELSE IF p # None /\ Ready(bind, t, p, f) THEN s.effective = p
        ELSE IF s.effective = None THEN first = {}
        ELSE policy.failover /\ Ready(bind, t, s.effective, f)
  BY DEF Meets
<1>5. Meets(becomes(p, None), policy, bind, t, f) <=>
        IF unclear THEN p = None
        ELSE IF p # None /\ Ready(bind, t, p, f) THEN p = p
        ELSE IF p = None THEN first = {}
        ELSE policy.failover /\ Ready(bind, t, p, f)
  BY DEF Meets
<1>6. unclear => Meets(becomes(None, None), policy, bind, t, f)
  BY <1>1 DEF Meets
<1>7. \/ unclear /\ u = becomes(None, None)
      \/ ~unclear /\ ~oldReady /\ u = becomes(chosen, None)
      \/ ~unclear /\ oldReady /\ ~returning /\ u = becomes(s.effective, None)
      \/ ~unclear /\ oldReady /\ returning /\ started >= Delay /\ u = becomes(p, None)
      \/ ~unclear /\ oldReady /\ returning /\ ~(started >= Delay) /\ u = becomes(s.effective, started)
  <2> HIDE DEF p, chosen, unclear
  <2> QED BY Zenon DEF UpdateFamily, p, chosen, unclear
<1> HIDE DEF p, u, chosen, unclear, first
<1>8. u.preferred = p
  BY <1>7
<1>9. u.waited = None => Meets(u, policy, bind, t, f)
  BY <1>2, <1>3, <1>4, <1>5, <1>6, <1>7
<1>10. u.waited # None =>
         /\ p # None /\ Ready(bind, t, p, f) /\ s.effective # None
         /\ u.waited = 0 \/ (s.preferred = p /\ s.waited # None /\ u.waited = s.waited)
  BY <1>3, <1>7
<1>11. /\ s.effective # None /\ Ready(bind, t, s.effective, f) /\ policy.failover
       /\ u.effective = p /\ p # None /\ s.effective # p
       => s.preferred = p /\ s.waited = Delay
  <2>1. started >= Delay => s.preferred = p /\ s.waited = Delay
    BY <1>3, DelayAssumption
  <2> QED BY <1>1, <1>7, <2>1
<1>12. u.effective \in Lanes \cup {None}
  BY <1>1, <1>2, <1>7 DEF FamilyStates
<1> QED BY <1>8, <1>9, <1>10, <1>11, <1>12 DEF p, u


\* The grant of the devices the interfaces have now filters nothing.
LEMMA RestrictionMoot ==
    ASSUME NEW policy \in Policies, NEW t \in Topologies, NEW f \in Families
    PROVE  LET bind == Bind(t)
               s == RestrictedTo(t, bind)
           IN  /\ bind \in Bindings
               /\ s \in Topologies /\ Bind(s) = bind
               /\ \A l \in Lanes : Ready(bind, s, l, f) <=> Ready(bind, t, l, f)
               /\ Preferred(policy, bind, s, f) = Preferred(policy, bind, t, f)
               /\ Unclear(policy, bind, s, f) <=> Unclear(policy, bind, t, f)
               /\ \A p : FirstBackup(policy, bind, s, f, p) = FirstBackup(policy, bind, t, f, p)
<1> DEFINE bind == Bind(t)
           s == RestrictedTo(t, bind)
<1>1. bind \in Bindings
  BY LaneAssumption DEF Bind, Bindings, Topologies
<1>2. s \in Topologies
  BY DEF RestrictedTo, Topologies
<1>3. s.up = t.up /\ s.default = t.default
  BY DEF RestrictedTo, Topologies
<1>4. \A l \in Lanes : s.ident[LaneInterface[l]] = t.ident[LaneInterface[l]]
  BY LaneAssumption DEF RestrictedTo, Topologies, Bind
<1>5. Bind(s) = bind
  BY <1>4 DEF Bind
<1> HIDE DEF s, bind
<1>6. \A l \in Lanes : Ready(bind, s, l, f) <=> Ready(bind, t, l, f)
  BY <1>3, <1>4 DEF Ready
<1>7. OnDefault(bind, s, f) = OnDefault(bind, t, f)
  BY <1>3 DEF OnDefault
<1>8. Unclear(policy, bind, s, f) <=> Unclear(policy, bind, t, f)
  BY <1>3, <1>7 DEF Unclear
<1>9. Preferred(policy, bind, s, f) = Preferred(policy, bind, t, f)
  BY <1>7, <1>8 DEF Preferred
<1>10. ASSUME NEW p
       PROVE  FirstBackup(policy, bind, s, f, p) = FirstBackup(policy, bind, t, f, p)
  <2>1. policy.backups \in Seq(Lanes)
    BY PolicyAssumption
  <2>2. \A k \in DOMAIN policy.backups :
            /\ policy.backups[k] \in Lanes /\ k \in Int
            /\ \A j \in 1..(k - 1) : j \in DOMAIN policy.backups
    BY <2>1
  <2> QED BY <1>6, <2>2 DEF FirstBackup
<1> QED BY <1>1, <1>2, <1>5, <1>6, <1>8, <1>9, <1>10 DEF s, bind

\* So what a refresh decides with all devices in place is what the topology it
\* read asks for.
LEMMA RefreshDecides ==
    ASSUME NEW policy \in Policies, NEW t \in Topologies, NEW f \in Families,
           NEW sel \in Selectors, sel.bind = Bind(t)
    PROVE  LET bind == Bind(t)
               n == Update(sel, policy, RestrictedTo(t, bind))
               u == n.st[f]
               s == sel.st[f]
               p == Preferred(policy, bind, t, f)
           IN  /\ u.preferred = p
               /\ u.waited = None => Meets(u, policy, bind, t, f)
               /\ u.waited # None =>
                    /\ p # None /\ Ready(bind, t, p, f) /\ s.effective # None
                    /\ u.waited = 0 \/ (s.preferred = p /\ s.waited # None /\ u.waited = s.waited)
               /\ /\ s.effective # None /\ Ready(bind, t, s.effective, f) /\ policy.failover
                  /\ u.effective = p /\ p # None /\ s.effective # p
                  => s.preferred = p /\ s.waited = Delay
<1> DEFINE bind == Bind(t)
           seen == RestrictedTo(t, bind)
           n == Update(sel, policy, seen)
           u == n.st[f]
           s == sel.st[f]
           p == Preferred(policy, bind, t, f)
<1>1. /\ bind \in Bindings /\ seen \in Topologies
      /\ \A l \in Lanes : Ready(bind, seen, l, f) <=> Ready(bind, t, l, f)
      /\ Preferred(policy, bind, seen, f) = p /\ Preferred(policy, bind, t, f) = p
      /\ Unclear(policy, bind, seen, f) <=> Unclear(policy, bind, t, f)
      /\ \A q : FirstBackup(policy, bind, seen, f, q) = FirstBackup(policy, bind, t, f, q)
  BY RestrictionMoot
<1>2. s \in FamilyStates
  BY DEF Selectors
<1>3. u = UpdateFamily(policy, bind, seen, f, s)
  BY DEF Update, Selectors
<1> HIDE DEF bind, seen, n, p
<1>4. p \in Lanes \cup {None}
  BY PolicyAssumption DEF p, Preferred, OnDefault
<1> HIDE DEF s, u
<1>5. /\ u.preferred = p
      /\ u.waited = None => Meets(u, policy, bind, seen, f)
      /\ u.waited # None =>
            /\ p # None /\ Ready(bind, seen, p, f) /\ s.effective # None
            /\ u.waited = 0 \/ (s.preferred = p /\ s.waited # None /\ u.waited = s.waited)
      /\ /\ s.effective # None /\ Ready(bind, seen, s.effective, f) /\ policy.failover
         /\ u.effective = p /\ p # None /\ s.effective # p
         => s.preferred = p /\ s.waited = Delay
  BY <1>1, <1>2, <1>3, UpdateFamilyMeets
<1>6. u.effective \in Lanes \cup {None} /\ s.effective \in Lanes \cup {None}
  BY <1>1, <1>2, <1>3, UpdateFamilyMeets DEF FamilyStates
<1>7. Meets(u, policy, bind, seen, f) => Meets(u, policy, bind, t, f)
  BY <1>1, <1>4, <1>6 DEF Meets
<1> QED BY <1>1, <1>4, <1>5, <1>6, <1>7 DEF bind, seen, n, p, s, u

-----------------------------------------------------------------------------
(* What settles: devices stay, every topology is read, a failed transition is *)
(* undone and a started source has subscribed before the refresh that follows *)

Undisturbed == Faults \subseteq {"commit", "restart", "close"}

\* What a runtime's selector has waited for, the refreshes have seen: for as
\* long, and the same lane.  Unless a candidate is held back the selector stands
\* where the committed plan does.
Accounted(r, seen) ==
    /\ r.held = [cand |-> r.held.cand, left |-> r.held.left, wait |-> r.held.wait]
    /\ r.held.left \in Nat /\ r.held.wait \in Nat
    /\ r.held = NoHold \/ r.held.wait > 0
    /\ r.sel # None =>
        /\ r.sel.bind = r.bind
        /\ r.held = NoHold => Decision(r.sel) = r.dec
        /\ \A f \in Families :
            LET s == r.sel.st[f]
            IN  s.waited # None =>
                    s.preferred # None /\ seen[f].lane = s.preferred /\ s.waited <= seen[f].age

\* The topology a refresh works with is the kernel's, or a notification waits.
CurrentSnap ==
    driver = "refresh" =>
        /\ snap.ident = top.ident
        /\ feed = "live" /\ events = "none" => snap = top

AccountedRuntime ==
    runtime # None \/ Refreshing => runtime.bind = Bind(top) /\ Accounted(runtime, steady)

Orderly ==
    /\ ~broken /\ dropped = {}
    /\ feed = "starting" => driver = "status"
    /\ ask # None => ask.seen.ident = top.ident
    /\ steady \in [Families -> [lane: Lanes \cup {None}, age: 0..Delay]]

SettlingInv ==
    RuntimeInv /\ Orderly /\ CurrentSnap /\ AccountedRuntime /\ SettledDecision

\* The initial states satisfy SettlingInv.
LEMMA InitSettlingInv == Init => SettlingInv
<1>1. Init => RuntimeInv
  BY InitRuntimeInv
<1>2. Init => Orderly
  BY DelayAssumption DEF Init, Orderly, NotSeen
<1>3. Init => CurrentSnap /\ AccountedRuntime /\ SettledDecision
  BY DEF Init, CurrentSnap, AccountedRuntime, Refreshing, SettledDecision
<1> QED BY <1>1, <1>2, <1>3 DEF SettlingInv

\* The kernel's and the clock's steps keep SettlingInv.
LEMMA EnvironmentSettles ==
    ASSUME Undisturbed, SettlingInv, Change \/ Tick
    PROVE  SettlingInv'
<1>0. RuntimeInv'
  BY EnvironmentKeepsInv DEF SettlingInv
<1>1. CASE Change
  <2>1. /\ top'.ident = top.ident /\ dropped' = dropped /\ events' = Notified
        /\ UNCHANGED <<feed, driver, snap, wake, helper, history>>
    BY <1>1 DEF Undisturbed, Change, SettlingInv, RuntimeInv, Topologies
  <2>2. Bind(top') = Bind(top)
    BY <2>1 DEF Bind
  <2>3. feed = "live" => events' # "none"
    BY <2>1 DEF Notified
  <2>4. Orderly'
    BY <2>1 DEF SettlingInv, Orderly, helper, history
  <2>5. CurrentSnap'
    BY <2>1, <2>3 DEF SettlingInv, CurrentSnap
  <2>6. AccountedRuntime'
    BY <2>1, <2>2 DEF SettlingInv, AccountedRuntime, Refreshing, helper, history
  <2>7. SettledDecision'
    BY <2>1, <2>3 DEF SettledDecision, Quiet
  <2> QED BY <1>0, <2>4, <2>5, <2>6, <2>7 DEF SettlingInv
<1>2. CASE Tick
  <2>1. UNCHANGED <<top, dropped, feed, events, driver, snap, ask, plan, broken>>
    BY <1>2 DEF Tick, kernel
  <2>2. /\ steady \in [Families -> [lane: Lanes \cup {None}, age: 0..Delay]]
        /\ steady' = [f \in Families |->
                        IF steady[f] # NotSeen /\ steady[f].age < Delay
                        THEN [steady[f] EXCEPT !.age = @ + 1] ELSE steady[f]]
    BY <1>2 DEF Tick, SettlingInv, Orderly
  <2>3. ASSUME NEW f \in Families
        PROVE  /\ steady'[f] \in [lane: Lanes \cup {None}, age: 0..Delay]
               /\ steady'[f].lane = steady[f].lane
               /\ steady[f].age \in 0..Delay /\ steady'[f].age \in 0..Delay
               /\ steady[f].age <= steady'[f].age
               /\ steady[f].lane # None =>
                    steady'[f].age = IF steady[f].age < Delay THEN steady[f].age + 1 ELSE Delay
    <3>1. steady[f] \in [lane: Lanes \cup {None}, age: 0..Delay]
      BY <2>2
    <3>2. steady'[f] = IF steady[f] # NotSeen /\ steady[f].age < Delay
                       THEN [steady[f] EXCEPT !.age = @ + 1] ELSE steady[f]
      BY <2>2
    <3> QED BY <3>1, <3>2, DelayAssumption DEF NotSeen
  <2>4. steady' \in [Families -> [lane: Lanes \cup {None}, age: 0..Delay]]
    BY <2>2, <2>3
  <2>5. Orderly'
    BY <2>1, <2>4 DEF SettlingInv, Orderly
  <2>6. CurrentSnap'
    BY <2>1 DEF SettlingInv, CurrentSnap
  <2>7. AccountedRuntime'
    <3>1. CASE runtime = None
      <4>1. runtime' = runtime
        BY <1>2, <3>1 DEF Tick
      <4>2. SUFFICES ASSUME Refreshing PROVE Accounted(runtime, steady')
        BY <2>1, <3>1, <4>1 DEF SettlingInv, AccountedRuntime, Refreshing
      <4>3. Accounted(runtime, steady) /\ RuntimeSound(plan, runtime)
        BY <4>2 DEF SettlingInv, AccountedRuntime, RuntimeInv
      <4>4. ASSUME runtime.sel # None, NEW f \in Families, runtime.sel.st[f].waited # None
            PROVE  runtime.sel.st[f].waited <= steady'[f].age
        <5>1. runtime.sel.st[f].waited \in 0..Delay
          BY <4>3, <4>4 DEF RuntimeSound, SelectorWithin, Selectors, FamilyStates
        <5>2. runtime.sel.st[f].waited <= steady[f].age
          BY <4>3, <4>4 DEF Accounted
        <5> QED BY <2>3, <5>1, <5>2, DelayAssumption
      <4> QED BY <2>3, <4>3, <4>4 DEF Accounted
    <3>2. CASE runtime # None
      <4> DEFINE r == runtime
                 n == runtime'
      <4>1. Accounted(r, steady) /\ RuntimeSound(plan, r) /\ r.bind = Bind(top)
        BY <3>2 DEF SettlingInv, AccountedRuntime, RuntimeInv
      <4>2. DOMAIN r = RuntimeFields
        BY <4>1 DEF RuntimeSound
      <4>3. /\ n = [r EXCEPT !.sel = IF @ = None THEN None ELSE Older(@), !.held.left = Later(@)]
        BY <1>2, <3>2 DEF Tick
      <4>4. /\ n.bind = r.bind /\ n.dec = r.dec
            /\ n.sel = IF r.sel = None THEN None ELSE Older(r.sel)
            /\ n.held = [r.held EXCEPT !.left = Later(@)]
        BY <4>2, <4>3 DEF RuntimeFields
      <4> HIDE DEF n
      <4>5. /\ r.held = [cand |-> r.held.cand, left |-> r.held.left, wait |-> r.held.wait]
            /\ r.held.left \in Nat /\ r.held.wait \in Nat
            /\ r.held = NoHold \/ r.held.wait > 0
        BY <4>1 DEF Accounted
      <4>6. n.held = [cand |-> r.held.cand, left |-> Later(r.held.left), wait |-> r.held.wait]
        BY <4>4, <4>5
      <4>7. /\ n.held = [cand |-> n.held.cand, left |-> n.held.left, wait |-> n.held.wait]
            /\ n.held.left \in Nat /\ n.held.wait \in Nat
            /\ n.held = NoHold \/ n.held.wait > 0
            /\ n.held = NoHold => r.held = NoHold
        BY <4>5, <4>6 DEF Later, NoHold
      <4>8. ASSUME r.sel # None
            PROVE  /\ n.sel # None => n.sel.bind = n.bind
                   /\ Decision(n.sel) = Decision(r.sel)
                   /\ \A f \in Families :
                        LET s == n.sel.st[f]
                        IN  s.waited # None =>
                                /\ s.preferred # None /\ steady'[f].lane = s.preferred
                                /\ s.waited <= steady'[f].age
        <5>1. r.sel \in Selectors /\ r.sel.bind = r.bind
          BY <4>1, <4>8 DEF RuntimeSound, SelectorWithin, Accounted
        <5>2. n.sel.bind = r.bind
          BY <4>4, <4>8, <5>1 DEF Older, Selectors
        <5>3. ASSUME NEW f \in Families
              PROVE  /\ r.sel.st[f].waited \in 0..Delay \cup {None}
                     /\ n.sel.st[f].preferred = r.sel.st[f].preferred
                     /\ n.sel.st[f].effective = r.sel.st[f].effective
                     /\ n.sel.st[f].waited = IF r.sel.st[f].waited \in 0..(Delay - 1)
                                             THEN r.sel.st[f].waited + 1
                                             ELSE r.sel.st[f].waited
          BY <4>4, <4>8, <5>1 DEF Older, Selectors, FamilyStates
        <5>4. Decision(n.sel) = Decision(r.sel)
          BY <5>3 DEF Decision
        <5>5. ASSUME NEW f \in Families, n.sel.st[f].waited # None
              PROVE  /\ n.sel.st[f].preferred # None /\ steady'[f].lane = n.sel.st[f].preferred
                     /\ n.sel.st[f].waited <= steady'[f].age
          <6>1. r.sel.st[f].waited # None /\ r.sel.st[f].waited \in 0..Delay
            BY <5>3, <5>5, NoneAssumption
          <6>2. /\ r.sel.st[f].preferred # None /\ steady[f].lane = r.sel.st[f].preferred
                /\ r.sel.st[f].waited <= steady[f].age
            BY <4>1, <4>8, <6>1 DEF Accounted
          <6>3. n.sel.st[f].waited =
                    IF r.sel.st[f].waited < Delay THEN r.sel.st[f].waited + 1 ELSE r.sel.st[f].waited
            BY <5>3, <6>1, DelayAssumption
          <6> QED BY <2>3, <5>3, <6>1, <6>2, <6>3, DelayAssumption
        <5> QED BY <4>4, <5>2, <5>4, <5>5
      <4>9. Accounted(n, steady')
        BY <4>1, <4>4, <4>7, <4>8 DEF Accounted
      <4>10. n.bind = Bind(top')
        BY <2>1, <4>1, <4>4
      <4> QED BY <4>9, <4>10 DEF AccountedRuntime, n
    <3> QED BY <3>1, <3>2
  <2>8. SettledDecision'
    <3>1. SUFFICES ASSUME Quiet', runtime' # None, NEW f \in Families PROVE Fits(f)'
      BY DEF SettledDecision
    <3>2. runtime # None
      BY <1>2, <3>1 DEF Tick
    <3>3. RuntimeSound(plan, runtime)
      BY <3>2 DEF SettlingInv, RuntimeInv
    <3>4. runtime'.policy = runtime.policy /\ runtime'.bind = runtime.bind
      BY <1>2, <3>2, <3>3 DEF Tick, RuntimeSound, RuntimeFields
    <3>5. wake = None
      BY <1>2, <3>1, NoneAssumption DEF Tick, Later, Quiet
    <3>6. Fits(f)
      BY <2>1, <3>1, <3>2, <3>5 DEF Quiet, SettlingInv, SettledDecision
    <3> QED BY <2>1, <3>4, <3>6 DEF Fits
  <2> QED BY <1>0, <2>5, <2>6, <2>7, <2>8 DEF SettlingInv
<1> QED BY <1>1, <1>2

\* So do the steps of the forwarder and of the driver that call no backend.
LEMMA MonitorSettles ==
    ASSUME Undisturbed, SettlingInv,
           \/ Subscribe \/ SourceEnds \/ ReportClosed
           \/ TakeChanged \/ Coalesced \/ TimerFires \/ RestartFeed
    PROVE  SettlingInv'
<1>0. RuntimeInv'
  BY MonitorKeepsInv DEF SettlingInv
<1>1. UNCHANGED <<top, dropped, snap, wake, ask, runtime, plan, broken, steady>>
  BY DEF Subscribe, SourceEnds, ReportClosed, TakeChanged, Coalesced, TimerFires, RestartFeed,
         kernel, helper, history
<1>2. \/ UNCHANGED driver /\ feed = "starting" /\ feed' = "live" /\ UNCHANGED events
      \/ UNCHANGED driver /\ feed' \in {"closing", "ended"}
      \/ driver' \notin {"idle", "capture", "refresh"} /\ driver # "status" /\ UNCHANGED feed
      \/ driver' = "status" /\ (UNCHANGED feed \/ feed' = "starting")
  BY DEF Subscribe, SourceEnds, ReportClosed, TakeChanged, Coalesced, TimerFires, RestartFeed
<1>3. Orderly'
  BY <1>1, <1>2 DEF SettlingInv, Orderly
<1>4. CurrentSnap'
  BY <1>1, <1>2 DEF SettlingInv, CurrentSnap, Orderly
<1>5. AccountedRuntime'
  BY <1>1, <1>2 DEF SettlingInv, AccountedRuntime, Refreshing
<1>6. ~Quiet'
  BY <1>2 DEF SettlingInv, Orderly, Quiet
<1> QED BY <1>0, <1>3, <1>4, <1>5, <1>6 DEF SettlingInv, SettledDecision

\* A request keeps SettlingInv; so does an activation: one that fails leaves
\* everything as it is, and one that commits is notified.
LEMMA ActivationSettles ==
    ASSUME Undisturbed, SettlingInv, Activate \/ \E policy \in Policies : RequestActivation(policy)
    PROVE  SettlingInv'
<1>0. RuntimeInv'
  BY ActivationKeepsInv DEF SettlingInv
<1>1. CASE \E policy \in Policies : RequestActivation(policy)
  <2>1. /\ UNCHANGED <<top, dropped, feed, events, driver, snap, wake, runtime, plan, broken, steady>>
        /\ ask'.seen = top
    BY <1>1 DEF RequestActivation, kernel, monitor, history
  <2>2. Orderly' /\ CurrentSnap'
    BY <2>1 DEF SettlingInv, Orderly, CurrentSnap
  <2>3. AccountedRuntime'
    BY <2>1 DEF SettlingInv, AccountedRuntime, Refreshing
  <2>4. SettledDecision'
    BY <2>1 DEF SettlingInv, SettledDecision, Quiet, Fits
  <2> QED BY <1>0, <2>2, <2>3, <2>4 DEF SettlingInv
<1>2. CASE Activate
  <2>1. /\ UNCHANGED <<top, feed, driver, snap, wake>> /\ ask' = None
        /\ ask.policy \in Policies /\ ask.seen \in Topologies /\ ask.seen.ident = top.ident
        /\ ActivateWith(ask.policy, ask.seen)
    BY <1>2 DEF Activate, SettlingInv, RuntimeInv, Orderly, Requests
  <2>2. ~broken /\ dropped = {} /\ Recovered = runtime
    BY DEF SettlingInv, Orderly, Recovered
  <2> DEFINE bind == Bind(ask.seen)
             granted == RestrictedTo(ask.seen, bind)
             fresh == NewSelector(granted)
             sel == Update(fresh, ask.policy, granted)
             candidate == PlanFor(Decision(sel), granted)
  <2>3. \/ /\ runtime' = runtime /\ TransitionFails(Recovered # None)
           /\ UNCHANGED steady
        \/ /\ Commits(candidate) /\ runtime' = Armed(ask.policy, bind, Decision(sel), sel)
           /\ steady' = [f \in Families |-> NotSeen]
    <3>1. \/ PrepareFails
          \/ dropped \cap Uses(candidate) # {}
          \/ /\ runtime' = Recovered /\ TransitionFails(Recovered # None)
             /\ UNCHANGED history
          \/ /\ Commits(candidate) /\ runtime' = Armed(ask.policy, bind, Decision(sel), sel)
             /\ steady' = [f \in Families |-> NotSeen]
      BY <2>1, Zenon DEF ActivateWith
    <3> HIDE DEF candidate, sel, fresh, granted, bind
    <3>2. ~PrepareFails /\ ~(dropped \cap Uses(candidate) # {})
      BY <2>2 DEF PrepareFails
    <3> QED BY <2>2, <3>1, <3>2 DEF history
  <2>4. CASE runtime' = runtime /\ TransitionFails(Recovered # None) /\ UNCHANGED steady
    <3>1. ~broken' /\ UNCHANGED <<plan, dropped>> /\ events' \in {events, Notified}
      <4>1. "rollback" \notin Faults
        BY DEF Undisturbed
      <4>2. broken' \in {FALSE, "rollback" \in Faults}
        BY <2>4, Zenon DEF TransitionFails
      <4>3. ~broken'
        BY <4>1, <4>2, Zenon
      <4> QED BY <2>4, <4>3, Zenon DEF TransitionFails
    <3>2. events' = "none" => events = "none"
      BY <3>1 DEF Notified
    <3>3. Orderly' /\ CurrentSnap'
      BY <2>1, <2>4, <3>1, <3>2 DEF SettlingInv, Orderly, CurrentSnap
    <3>4. AccountedRuntime'
      BY <2>1, <2>4 DEF SettlingInv, AccountedRuntime, Refreshing
    <3>5. SettledDecision'
      BY <2>1, <2>4, <3>1, <3>2 DEF SettlingInv, SettledDecision, Quiet, Fits
    <3> QED BY <1>0, <3>3, <3>4, <3>5 DEF SettlingInv
  <2>5. CASE /\ Commits(candidate) /\ runtime' = Armed(ask.policy, bind, Decision(sel), sel)
             /\ steady' = [f \in Families |-> NotSeen]
    <3>1. ~broken' /\ dropped' = {} /\ events' = Notified
      BY <2>5 DEF Commits
    <3>2. feed = "live" => events' # "none"
      BY <3>1 DEF Notified
    <3>3. Orderly' /\ CurrentSnap' /\ SettledDecision'
      <4>1. steady' \in [Families -> [lane: Lanes \cup {None}, age: 0..Delay]]
        BY <2>5, DelayAssumption DEF NotSeen
      <4>2. Orderly'
        BY <2>1, <3>1, <4>1 DEF SettlingInv, Orderly
      <4>3. CurrentSnap' /\ SettledDecision'
        BY <2>1, <3>2 DEF SettlingInv, CurrentSnap, SettledDecision, Quiet
      <4> QED BY <4>2, <4>3
    <3>4. bind = Bind(top) /\ bind \in Bindings /\ granted \in Topologies /\ Bind(granted) = bind
      <4>1. bind = Bind(top)
        BY <2>1 DEF Bind
      <4>2. bind \in Bindings /\ Uniform(bind)
        BY <2>1, GrantBinds
      <4>3. granted \in Topologies
        BY <2>1 DEF RestrictedTo, Topologies
      <4>4. \A l \in Lanes : granted.ident[LaneInterface[l]] = ask.seen.ident[LaneInterface[l]]
        BY <2>1, LaneAssumption DEF RestrictedTo, Topologies, Bind
      <4>5. Bind(granted) = bind
        BY <4>4 DEF Bind
      <4> QED BY <4>1, <4>2, <4>3, <4>5
    <3> HIDE DEF granted, bind
    <3>5. fresh \in Selectors /\ fresh.bind = bind /\ \A f \in Families : fresh.st[f].effective = None
      BY <3>4 DEF NewSelector, Fresh, NoChoice, Selectors, FamilyStates
    <3> HIDE DEF fresh
    <3>6. sel.bind = bind
      BY <3>5 DEF Update, Selectors
    <3>7. ASSUME NEW f \in Families PROVE sel.st[f].waited = None
      <4>1. fresh.st[f] \in FamilyStates /\ fresh.st[f].effective = None
        BY <3>5 DEF Selectors
      <4>2. sel.st[f] = UpdateFamily(ask.policy, bind, granted, f, fresh.st[f])
        BY <3>5 DEF Update, Selectors
      <4> QED BY <2>1, <3>4, <4>1, <4>2, UpdateFamilyMeets
    <3> HIDE DEF sel, candidate
    <3>8. /\ runtime'.bind = bind /\ runtime'.dec = Decision(sel) /\ runtime'.sel = sel
          /\ runtime'.held = NoHold
      BY <2>5 DEF Armed
    <3>9. Accounted(runtime', steady')
      BY <3>6, <3>7, <3>8 DEF Accounted, NoHold
    <3>10. AccountedRuntime'
      BY <2>1, <3>4, <3>8, <3>9 DEF AccountedRuntime
    <3> QED BY <1>0, <3>3, <3>10 DEF SettlingInv
  <2> QED BY <2>3, <2>4, <2>5
<1> QED BY <1>1, <1>2

\* So do a lost source, a status call, a topology capture and a restart.
LEMMA StatusSettles ==
    ASSUME Undisturbed, SettlingInv, TakeClosed \/ Status \/ Capture \/ Restart
    PROVE  SettlingInv'
<1>0. RuntimeInv'
  BY StatusKeepsInv, RestartKeepsInv DEF SettlingInv
<1>1. UNCHANGED <<top, dropped, plan, steady>> /\ ask' \in {ask, None}
  BY DEF TakeClosed, Status, Capture, Restart, kernel, history
<1>2. ~broken /\ dropped = {} /\ Recovered = runtime /\ ~PrepareFails
  BY DEF SettlingInv, Orderly, Recovered, PrepareFails
<1>3. CASE TakeClosed
  <2>1. driver' = "backoff" /\ runtime' = Degrade(runtime) /\ ~broken' /\ UNCHANGED feed /\ driver = "idle"
    BY <1>2, <1>3 DEF TakeClosed
  <2>2. Orderly' /\ CurrentSnap' /\ SettledDecision'
    BY <1>1, <2>1 DEF SettlingInv, Orderly, CurrentSnap, SettledDecision, Quiet
  <2>3. AccountedRuntime'
    <3>1. SUFFICES ASSUME runtime # None PROVE runtime'.bind = Bind(top) /\ Accounted(runtime', steady)
      BY <1>1, <2>1 DEF AccountedRuntime, Refreshing, Degrade
    <3>2. Accounted(runtime, steady) /\ runtime.bind = Bind(top) /\ DOMAIN runtime = RuntimeFields
      BY <3>1 DEF SettlingInv, RuntimeInv, AccountedRuntime, RuntimeSound
    <3>3. /\ runtime'.bind = runtime.bind /\ runtime'.dec = runtime.dec
          /\ runtime'.sel = runtime.sel /\ runtime'.held = runtime.held
      BY <2>1, <3>1, <3>2 DEF Degrade, RuntimeFields
    <3> QED BY <3>2, <3>3 DEF Accounted
  <2> QED BY <1>0, <2>2, <2>3 DEF SettlingInv
<1>4. CASE Status
  <2>1. /\ (driver' = "idle" /\ runtime = None) \/ (driver' = "capture" /\ runtime # None)
        /\ runtime' = runtime /\ ~broken' /\ UNCHANGED feed /\ driver = "status" /\ feed # "starting"
    BY <1>2, <1>4 DEF Status, Idles, Undisturbed
  <2>2. Orderly' /\ CurrentSnap' /\ SettledDecision'
    BY <1>1, <2>1 DEF SettlingInv, Orderly, CurrentSnap, SettledDecision, Quiet
  <2>3. AccountedRuntime'
    BY <1>1, <2>1 DEF SettlingInv, AccountedRuntime, Refreshing
  <2> QED BY <1>0, <2>2, <2>3 DEF SettlingInv
<1>5. CASE Capture
  <2>1. /\ driver = "capture" /\ driver' = "refresh" /\ snap' = top
        /\ UNCHANGED <<events, runtime, broken, feed>>
    BY <1>5 DEF Capture, Undisturbed, Fault
  <2>2. Orderly' /\ CurrentSnap' /\ SettledDecision'
    BY <1>1, <2>1 DEF SettlingInv, Orderly, CurrentSnap, SettledDecision, Quiet
  <2>3. AccountedRuntime'
    BY <1>1, <2>1 DEF SettlingInv, AccountedRuntime, Refreshing
  <2> QED BY <1>0, <2>2, <2>3 DEF SettlingInv
<1>6. CASE Restart
  <2>1. driver' = "status" /\ UNCHANGED broken /\ runtime' = Loaded(runtime, kept) /\ feed' = "starting"
    BY <1>6 DEF Restart
  <2>2. Orderly' /\ CurrentSnap' /\ SettledDecision'
    BY <1>1, <2>1 DEF SettlingInv, Orderly, CurrentSnap, SettledDecision, Quiet
  <2>3. AccountedRuntime'
    <3>1. SUFFICES ASSUME runtime' # None PROVE runtime'.bind = Bind(top) /\ Accounted(runtime', steady)
      BY <1>1, <2>1 DEF AccountedRuntime, Refreshing
    <3>2. runtime # None /\ runtime' = Armed(runtime.policy, runtime.bind, runtime.dec, None)
      BY <2>1, <3>1 DEF Loaded
    <3>3. runtime.bind = Bind(top)
      BY <3>2 DEF SettlingInv, AccountedRuntime
    <3> QED BY <3>2, <3>3 DEF Accounted, Armed, NoHold
  <2> QED BY <1>0, <2>2, <2>3 DEF SettlingInv
<1> QED BY <1>3, <1>4, <1>5, <1>6

\* The selector a refresh starts from knows the lanes by the granted devices.
LEMMA RefreshStart ==
    ASSUME NEW p, NEW r, RuntimeSound(p, r), NEW seen, Accounted(r, seen),
           NEW t \in Topologies, r.bind = Bind(t)
    PROVE  LET s == RestrictedTo(t, r.bind)
               old == IF r.sel = None THEN ResumedSelector(s, r.dec) ELSE r.sel
           IN  old \in Selectors /\ old.bind = r.bind
<1> DEFINE s == RestrictedTo(t, r.bind)
<1>1. CASE r.sel # None
  BY <1>1 DEF RuntimeSound, SelectorWithin, Accounted
<1>2. CASE r.sel = None
  <2>1. r.bind \in Bindings /\ r.dec \in Decisions
    BY DEF RuntimeSound
  <2>2. \A l \in Lanes : s.ident[LaneInterface[l]] = t.ident[LaneInterface[l]]
    BY LaneAssumption DEF RestrictedTo, Topologies, Bind
  <2>3. Bind(s) = r.bind
    BY <2>2 DEF Bind
  <2> HIDE DEF s
  <2>4. ResumedSelector(s, r.dec) \in Selectors /\ ResumedSelector(s, r.dec).bind = r.bind
    BY <2>1, <2>3 DEF ResumedSelector, Fresh, Selectors, FamilyStates, Decisions, Choices
  <2> QED BY <1>2, <2>4 DEF s
<1> QED BY <1>1, <1>2

\* So does a refresh: without a timer the selector waits for nothing, and what
\* it decided is in force.
LEMMA RefreshSettles ==
    ASSUME Undisturbed, SettlingInv, Refresh
    PROVE  SettlingInv'
<1> DEFINE r == runtime
           seen == RestrictedTo(snap, r.bind)
           old == IF r.sel = None THEN ResumedSelector(seen, r.dec) ELSE r.sel
           sel == Update(old, r.policy, seen)
           due == NextDeadline(sel)
           candidate == PlanFor(Decision(sel), seen)
           held == IF r.held.cand = candidate THEN r.held ELSE NoHold
           wait == NextWait(held.wait)
<1>0. RuntimeInv'
  BY RefreshKeepsInv DEF SettlingInv
<1>1. /\ driver = "refresh" /\ driver' = "idle" /\ wake' = Due(runtime') /\ snap' = None
      /\ UNCHANGED <<top, feed, ask>>
      /\ ~broken /\ dropped = {} /\ Recovered = runtime
  BY DEF Refresh, Idles, SettlingInv, Orderly, Recovered
<1>2. ~PrepareFails /\ RefreshWith(r) /\ Observe(r)
  BY <1>1 DEF Refresh, PrepareFails
<1>3. /\ RuntimeSound(plan, r) /\ Accounted(r, steady) /\ r.bind = Bind(top)
      /\ snap \in Topologies /\ snap.ident = top.ident
      /\ feed = "live" /\ events = "none" => snap = top
      /\ DOMAIN r = RuntimeFields /\ r.policy \in Policies
  BY <1>1 DEF SettlingInv, RuntimeInv, RuntimeSound, AccountedRuntime, CurrentSnap, Refreshing
<1>4. r.bind = Bind(snap)
  BY <1>3 DEF Bind
<1>5. old \in Selectors /\ old.bind = r.bind
  BY RefreshStart, <1>3, <1>4
<1>6. ASSUME NEW f \in Families
      PROVE  LET u == sel.st[f]
                 s == old.st[f]
                 p == Preferred(r.policy, r.bind, snap, f)
             IN  /\ u.preferred = p
                 /\ u.waited = None => Meets(u, r.policy, r.bind, snap, f)
                 /\ u.waited # None =>
                      /\ p # None /\ Ready(r.bind, snap, p, f) /\ s.effective # None
                      /\ u.waited = 0 \/ (s.preferred = p /\ s.waited # None /\ u.waited = s.waited)
  BY <1>3, <1>4, <1>5, RefreshDecides
<1>7. sel \in Selectors /\ sel.bind = r.bind
  <2>1. SelectorWithin(sel, r.policy, r.bind)
    BY <1>3, RefreshSound
  <2>2. sel.bind = old.bind
    BY <1>5 DEF Update, Selectors
  <2> QED BY <1>5, <2>1, <2>2 DEF SelectorWithin
<1>8. due \in Nat \cup {None} /\ (due = None => \A f \in Families : sel.st[f].waited = None)
  BY <1>7, DeadlineKnown
<1>9. /\ steady' \in [Families -> [lane: Lanes \cup {None}, age: 0..Delay]]
      /\ \A f \in Families : sel.st[f].waited # None =>
            /\ sel.st[f].preferred # None /\ steady'[f].lane = sel.st[f].preferred
            /\ sel.st[f].waited <= steady'[f].age
  <2>1. steady' = [f \in Families |->
            LET lane == Preferred(r.policy, r.bind, snap, f)
            IN  IF lane = None \/ ~Ready(r.bind, snap, lane, f) THEN NotSeen
                ELSE IF steady[f].lane = lane THEN steady[f] ELSE [lane |-> lane, age |-> 0]]
    BY <1>2 DEF Observe
  <2>2. steady \in [Families -> [lane: Lanes \cup {None}, age: 0..Delay]]
    BY DEF SettlingInv, Orderly
  <2>3. ASSUME NEW f \in Families
        PROVE  steady'[f] \in [lane: Lanes \cup {None}, age: 0..Delay]
    <3>1. Preferred(r.policy, r.bind, snap, f) \in Lanes \cup {None}
      BY <1>3, PolicyAssumption DEF Preferred, OnDefault
    <3> QED BY <2>1, <2>2, <3>1, DelayAssumption DEF NotSeen
  <2>4. ASSUME NEW f \in Families, sel.st[f].waited # None
        PROVE  /\ sel.st[f].preferred # None /\ steady'[f].lane = sel.st[f].preferred
               /\ sel.st[f].waited <= steady'[f].age
    <3> DEFINE p == Preferred(r.policy, r.bind, snap, f)
    <3>1. /\ sel.st[f].preferred = p /\ p # None /\ Ready(r.bind, snap, p, f)
          /\ sel.st[f].waited = 0
             \/ (old.st[f].preferred = p /\ old.st[f].waited # None /\ sel.st[f].waited = old.st[f].waited)
      BY <1>6, <2>4
    <3>2. steady'[f] = IF steady[f].lane = p THEN steady[f] ELSE [lane |-> p, age |-> 0]
      BY <2>1, <3>1
    <3>3. steady[f].age \in 0..Delay
      BY <2>2
    <3>4. CASE sel.st[f].waited = 0
      BY <3>1, <3>2, <3>3, <3>4, DelayAssumption
    <3>5. CASE /\ old.st[f].preferred = p /\ old.st[f].waited # None
               /\ sel.st[f].waited = old.st[f].waited
      <4>1. r.sel # None
        BY <3>5 DEF ResumedSelector, Fresh
      <4>2. steady[f].lane = p /\ old.st[f].waited <= steady[f].age
        BY <1>3, <3>5, <4>1 DEF Accounted
      <4> QED BY <3>1, <3>2, <3>5, <4>2
    <3> QED BY <3>1, <3>4, <3>5
  <2>5. steady' \in [Families -> [lane: Lanes \cup {None}, age: 0..Delay]]
    BY <2>1, <2>3
  <2> QED BY <2>4, <2>5
<1>10. /\ r.held = [cand |-> r.held.cand, left |-> r.held.left, wait |-> r.held.wait]
       /\ r.held.left \in Nat /\ r.held.wait \in Nat
       /\ r.held = NoHold \/ r.held.wait > 0
  BY <1>3 DEF Accounted
<1>11. /\ held.left \in Nat /\ held.wait \in Nat /\ wait \in Nat /\ wait > 0
       /\ held.left > 0 => held = r.held /\ r.held # NoHold
  BY <1>10, WaitAssumption DEF NoHold, NextWait
<1> HIDE DEF seen, old, sel, due, candidate, held, wait, r
<1>12. /\ Sooner(due, held.left) # None
       /\ Sooner(due, wait) # None
  BY <1>8, <1>11, SoonerKnown
<1>13. \/ /\ candidate = plan /\ Decision(sel) = r.dec
          /\ runtime' = [r EXCEPT !.sel = sel, !.phase = "Armed", !.due = due, !.held = NoHold]
          /\ broken' = FALSE /\ UNCHANGED <<plan, dropped, events>>
       \/ /\ held.left > 0
          /\ runtime' = [r EXCEPT !.sel = sel, !.due = Sooner(due, held.left)]
          /\ broken' = FALSE /\ UNCHANGED <<plan, dropped>>
       \/ /\ Commits(candidate)
          /\ runtime' = [r EXCEPT !.dec = Decision(sel), !.sel = sel, !.phase = "Armed",
                                   !.due = due, !.held = NoHold]
       \/ /\ TransitionFails(FALSE)
          /\ runtime' = [[r EXCEPT !.sel = None, !.phase = "Degraded", !.due = Sooner(due, wait)]
                            EXCEPT !.held = [cand |-> candidate, left |-> wait, wait |-> wait]]
          /\ broken' = FALSE
  <2>1. "rollback" \notin Faults
    BY DEF Undisturbed
  <2>2. TransitionFails(FALSE) => broken' = FALSE
    <3>1. TransitionFails(FALSE) => broken' \in {FALSE, "rollback" \in Faults}
      BY Zenon DEF TransitionFails
    <3>2. ("rollback" \in Faults) = FALSE
      BY <2>1
    <3> QED BY <3>1, <3>2, Zenon
  <2>3. Replayed => events' = events
    BY <1>1 DEF Replayed
  <2>4. ~(dropped \cap Uses(candidate) # {})
    BY <1>1
  <2> DEFINE refused == dropped \cap Uses(candidate) # {}
             same == candidate = plan /\ Decision(sel) = r.dec
  <2>5. \/ refused
        \/ /\ same
           /\ runtime' = [r EXCEPT !.sel = sel, !.phase = "Armed", !.due = due, !.held = NoHold]
           /\ broken' = FALSE /\ Replayed /\ UNCHANGED <<plan, dropped>>
        \/ /\ held.left > 0
           /\ runtime' = [r EXCEPT !.sel = sel, !.due = Sooner(due, held.left)]
           /\ broken' = FALSE /\ UNCHANGED <<plan, dropped>>
        \/ /\ Commits(candidate)
           /\ runtime' = [r EXCEPT !.dec = Decision(sel), !.sel = sel, !.phase = "Armed",
                                   !.due = due, !.held = NoHold]
        \/ /\ TransitionFails(FALSE)
           /\ runtime' =
                [[r EXCEPT !.sel = None, !.phase = "Degraded",
                           !.due = IF broken' THEN Sooner(Sooner(due, wait), recovery'.left)
                                   ELSE Sooner(due, wait)]
                    EXCEPT !.held = [cand |-> candidate, left |-> wait, wait |-> wait]]
    BY <1>2, Zenon DEF RefreshWith, seen, old, sel, due, candidate, held, wait, r
  <2> QED BY <2>2, <2>3, <2>4, <2>5, Zenon
<1>14. CASE /\ candidate = plan /\ Decision(sel) = r.dec
            /\ runtime' = [r EXCEPT !.sel = sel, !.phase = "Armed", !.due = due, !.held = NoHold]
            /\ broken' = FALSE /\ UNCHANGED <<plan, dropped, events>>
  <2>1. /\ runtime'.policy = r.policy /\ runtime'.bind = r.bind /\ runtime'.dec = r.dec
        /\ runtime'.sel = sel /\ runtime'.due = due /\ runtime'.held = NoHold
    BY <1>3, <1>14 DEF RuntimeFields
  <2>2. Accounted(runtime', steady')
    BY <1>7, <1>9, <1>14, <2>1 DEF Accounted, NoHold
  <2>3. AccountedRuntime'
    BY <1>1, <1>3, <2>1, <2>2 DEF AccountedRuntime
  <2>4. Orderly' /\ CurrentSnap'
    BY <1>1, <1>9, <1>14 DEF SettlingInv, Orderly, CurrentSnap
  <2>5. SettledDecision'
    <3>1. SUFFICES ASSUME Quiet', runtime' # None, NEW f \in Families PROVE Fits(f)'
      BY DEF SettledDecision
    <3>2. snap = top /\ due = None
      BY <1>1, <1>3, <1>14, <2>1, <3>1 DEF Quiet, Due
    <3>3. Meets(sel.st[f], r.policy, r.bind, top, f)
      BY <1>6, <1>8, <3>2
    <3>4. plan'.dec[f] = [preferred |-> sel.st[f].preferred, effective |-> sel.st[f].effective]
      BY <1>3, <1>14 DEF RuntimeSound, Decision
    <3> QED BY <1>1, <2>1, <3>3, <3>4 DEF Fits, Meets
  <2> QED BY <1>0, <2>3, <2>4, <2>5 DEF SettlingInv
<1>15. CASE /\ held.left > 0
            /\ runtime' = [r EXCEPT !.sel = sel, !.due = Sooner(due, held.left)]
            /\ broken' = FALSE /\ UNCHANGED <<plan, dropped>>
  <2>1. /\ runtime'.bind = r.bind /\ runtime'.dec = r.dec /\ runtime'.sel = sel
        /\ runtime'.due # None /\ runtime'.held = r.held
    BY <1>3, <1>12, <1>15 DEF RuntimeFields
  <2>2. Accounted(runtime', steady')
    BY <1>7, <1>9, <1>10, <1>11, <1>15, <2>1 DEF Accounted
  <2>3. AccountedRuntime'
    BY <1>1, <1>3, <2>1, <2>2 DEF AccountedRuntime
  <2>4. Orderly' /\ CurrentSnap'
    BY <1>1, <1>9, <1>15 DEF SettlingInv, Orderly, CurrentSnap
  <2>5. SettledDecision'
    BY <1>1, <2>1 DEF SettledDecision, Quiet, Due
  <2> QED BY <1>0, <2>3, <2>4, <2>5 DEF SettlingInv
<1>16. CASE /\ Commits(candidate)
            /\ runtime' = [r EXCEPT !.dec = Decision(sel), !.sel = sel, !.phase = "Armed",
                                     !.due = due, !.held = NoHold]
  <2>1. /\ runtime'.bind = r.bind /\ runtime'.dec = Decision(sel) /\ runtime'.sel = sel
        /\ runtime'.held = NoHold
    BY <1>3, <1>16 DEF RuntimeFields
  <2>2. /\ ~broken' /\ dropped' = {} /\ (feed = "live" => events' # "none")
    BY <1>16 DEF Commits, Notified
  <2>3. Accounted(runtime', steady')
    BY <1>7, <1>9, <2>1 DEF Accounted, NoHold
  <2>4. AccountedRuntime'
    BY <1>1, <1>3, <2>1, <2>3 DEF AccountedRuntime
  <2>5. Orderly' /\ CurrentSnap'
    BY <1>1, <1>9, <2>2 DEF SettlingInv, Orderly, CurrentSnap
  <2>6. SettledDecision'
    BY <1>1, <2>2 DEF SettledDecision, Quiet
  <2> QED BY <1>0, <2>4, <2>5, <2>6 DEF SettlingInv
<1>17. CASE /\ TransitionFails(FALSE)
            /\ runtime' = [[r EXCEPT !.sel = None, !.phase = "Degraded", !.due = Sooner(due, wait)]
                              EXCEPT !.held = [cand |-> candidate, left |-> wait, wait |-> wait]]
            /\ broken' = FALSE
  <2>1. /\ runtime'.bind = r.bind /\ runtime'.dec = r.dec /\ runtime'.sel = None
        /\ runtime'.due # None
        /\ runtime'.held = [cand |-> candidate, left |-> wait, wait |-> wait]
    BY <1>3, <1>12, <1>17 DEF RuntimeFields
  <2>2. UNCHANGED <<plan, dropped>>
    BY <1>17, Zenon DEF TransitionFails
  <2>3. Accounted(runtime', steady')
    BY <1>11, <2>1 DEF Accounted, NoHold
  <2>4. AccountedRuntime'
    BY <1>1, <1>3, <2>1, <2>3 DEF AccountedRuntime
  <2>5. Orderly' /\ CurrentSnap'
    BY <1>1, <1>9, <1>17, <2>2 DEF SettlingInv, Orderly, CurrentSnap
  <2>6. SettledDecision'
    BY <1>1, <2>1 DEF SettledDecision, Quiet, Due
  <2> QED BY <1>0, <2>4, <2>5, <2>6 DEF SettlingInv
<1> QED BY <1>13, <1>14, <1>15, <1>16, <1>17

\* Every step keeps SettlingInv.
LEMMA NextSettles == Undisturbed /\ SettlingInv /\ [Next]_vars => SettlingInv'
<1>1. SUFFICES ASSUME Undisturbed, SettlingInv, [Next]_vars PROVE SettlingInv'
  OBVIOUS
<1>2. CASE UNCHANGED vars
  <2>1. RuntimeInv'
    BY <1>1, NextKeepsInv DEF SettlingInv
  <2>2. UNCHANGED <<top, dropped, feed, events, driver, snap, wake, ask, runtime, plan, broken, steady>>
    BY <1>2 DEF vars, kernel, monitor, helper, history
  <2>3. Orderly' /\ CurrentSnap' /\ SettledDecision'
    BY <1>1, <2>2 DEF SettlingInv, Orderly, CurrentSnap, SettledDecision, Quiet, Fits
  <2>4. AccountedRuntime'
    BY <1>1, <2>2 DEF SettlingInv, AccountedRuntime, Refreshing
  <2> QED BY <2>1, <2>3, <2>4 DEF SettlingInv
<1>3. CASE Next
  BY <1>1, <1>3, EnvironmentSettles, MonitorSettles, ActivationSettles, StatusSettles,
     RefreshSettles DEF Next
<1> QED BY <1>1, <1>2, <1>3

\* Only a refresh moves the plan without an activation, and it leaves a ready
\* exit for the preferred lane only when the wait for it is over.
LEMMA FailbackStep ==
    ASSUME Undisturbed, SettlingInv, [Next]_vars,
           driver = "refresh", plan # None, plan' # plan, UNCHANGED ask, runtime.held = NoHold,
           NEW f \in Families,
           None \notin {plan.dec[f].effective, plan'.dec[f].effective},
           plan.dec[f].effective # plan'.dec[f].effective,
           plan'.dec[f].effective = plan'.dec[f].preferred,
           runtime.policy.failover, Ready(runtime.bind, snap, plan.dec[f].effective, f)
    PROVE  steady[f] = [lane |-> plan'.dec[f].effective, age |-> Delay]
<1> DEFINE r == runtime
           seen == RestrictedTo(snap, r.bind)
           old == IF r.sel = None THEN ResumedSelector(seen, r.dec) ELSE r.sel
           sel == Update(old, r.policy, seen)
           candidate == PlanFor(Decision(sel), seen)
<1>1. /\ RuntimeSound(plan, r) /\ Accounted(r, steady) /\ r.bind = Bind(top)
      /\ snap \in Topologies /\ snap.ident = top.ident /\ r.policy \in Policies
      /\ ~broken /\ Recovered = runtime
      /\ steady \in [Families -> [lane: Lanes \cup {None}, age: 0..Delay]]
  BY DEF SettlingInv, RuntimeInv, RuntimeSound, AccountedRuntime, CurrentSnap, Refreshing,
         Orderly, Recovered
<1>2. r.bind = Bind(snap)
  BY <1>1 DEF Bind
<1>3. old \in Selectors /\ old.bind = r.bind
  BY RefreshStart, <1>1, <1>2
<1>4. Refresh
  <2>1. ~Activate
    <3>1. Activate => ask # None /\ ask' = None
      BY Zenon DEF Activate
    <3> QED BY <3>1
  <2>2. \/ Change \/ Tick \/ Subscribe \/ SourceEnds \/ ReportClosed
        \/ (\E policy \in Policies : RequestActivation(policy))
        \/ TakeChanged \/ Coalesced \/ TimerFires \/ TakeClosed \/ RestartFeed
        \/ Status \/ Capture \/ Restart \/ UNCHANGED vars
        => UNCHANGED plan
    BY DEF Change, Tick, Subscribe, SourceEnds, ReportClosed, RequestActivation, TakeChanged,
           Coalesced, TimerFires, TakeClosed, RestartFeed, Status, Capture, Restart, helper, vars
  <2> QED BY <2>1, <2>2 DEF Next
<1>5. RefreshWith(r)
  BY <1>1, <1>4 DEF Refresh, PrepareFails
<1>6. plan' = candidate
  <2>1. UNCHANGED plan \/ plan' = candidate
    BY <1>5, Zenon DEF RefreshWith, Commits, TransitionFails, candidate, sel, old, seen, r
  <2> QED BY <2>1
<1>7. LET u == sel.st[f]
          s == old.st[f]
          p == Preferred(r.policy, r.bind, snap, f)
      IN  /\ u.preferred = p
          /\ /\ s.effective # None /\ Ready(r.bind, snap, s.effective, f) /\ r.policy.failover
             /\ u.effective = p /\ p # None /\ s.effective # p
             => s.preferred = p /\ s.waited = Delay
  BY <1>1, <1>2, <1>3, RefreshDecides
<1> HIDE DEF sel, seen
<1>8. /\ plan'.dec[f].preferred = sel.st[f].preferred
      /\ plan'.dec[f].effective = sel.st[f].effective
  BY <1>6 DEF PlanFor, Decision
<1>9. old.st[f].effective = plan.dec[f].effective
  <2>1. CASE r.sel = None
    BY <1>1, <2>1 DEF RuntimeSound, ResumedSelector, Fresh
  <2>2. CASE r.sel # None
    BY <1>1, <2>2 DEF RuntimeSound, Accounted, Decision
  <2> QED BY <2>1, <2>2
<1>10. old.st[f].preferred = plan'.dec[f].effective /\ old.st[f].waited = Delay
  BY <1>7, <1>8, <1>9
<1>11. r.sel # None
  BY <1>10, DelayAssumption, NoneAssumption DEF ResumedSelector, Fresh
<1>12. steady[f].lane = plan'.dec[f].effective /\ Delay <= steady[f].age
  BY <1>1, <1>10, <1>11, DelayAssumption, NoneAssumption DEF Accounted
<1>13. steady[f] = [lane |-> steady[f].lane, age |-> steady[f].age] /\ steady[f].age \in 0..Delay
  BY <1>1
<1> QED BY <1>12, <1>13, DelayAssumption

-----------------------------------------------------------------------------
(* The theorems *)

\* Whatever the topology, the failures and the interleaving of activations with
\* refreshes: the plan in force sends a family only through a lane its policy
\* approves, over the device of the authorised activation and with a route
\* for the family (activate_runtime_inner, refresh_armed,
\* PrimarySelector::update).
THEOREM ExitsStayApproved == Spec => []ExitApproved
<1>1. RuntimeInv => ExitApproved
  BY DEF RuntimeInv, RuntimeSound, ExitApproved
<1> QED BY <1>1, InitRuntimeInv, NextKeepsInv, PTL DEF Spec

\* The decision runtime_status publishes is the one of the plan in force: a
\* candidate that failed to commit is never published, nor one a restart or a
\* replay finds in the journal.
THEOREM PublishesCommitted == Spec => []PublishedIsCommitted
<1>1. RuntimeInv => PublishedIsCommitted
  BY DEF RuntimeInv, RuntimeSound, PublishedIsCommitted
<1> QED BY <1>1, InitRuntimeInv, NextKeepsInv, PTL DEF Spec


\* With every device in place and no failure but transitions that are undone,
\* lost notification sources and restarts: whenever the driver sleeps without a
\* timer, the plan in force is the one the topology asks for.  No notification
\* is lost in the one-place channel, in the coalescing window or to an
\* activation that races a refresh (forward_kernel_notifications,
\* drive_runtime, refresh_armed).
THEOREM SettlesOnTopology ==
    ASSUME Faults \subseteq {"commit", "restart", "close"}
    PROVE  Spec => []SettledDecision
<1>1. Undisturbed
  BY DEF Undisturbed
<1>2. SettlingInv => SettledDecision
  BY DEF SettlingInv
<1>3. SettlingInv /\ [Next]_vars => SettlingInv'
  BY <1>1, NextSettles
<1> QED BY <1>2, <1>3, InitSettlingInv, PTL DEF Spec

\* Under the same failures a usable exit is only given up for the preferred
\* lane after every refresh of the last Delay has seen that lane ready, also
\* when a restart or an activation came in between (PrimarySelector::update,
\* FAILBACK_DELAY).
THEOREM FailbackTakesItsTime ==
    ASSUME Faults \subseteq {"commit", "restart", "close"}
    PROVE  Spec => FailbackWaited
<1> DEFINE A == driver = "refresh" /\ plan # None /\ plan' # plan /\ UNCHANGED ask
                    /\ runtime.held = NoHold =>
                \A f \in Families :
                    LET old == plan.dec[f].effective
                        new == plan'.dec[f].effective
                    IN  (/\ None \notin {old, new} /\ old # new /\ new = plan'.dec[f].preferred
                         /\ runtime.policy.failover /\ Ready(runtime.bind, snap, old, f))
                        => steady[f] = [lane |-> new, age |-> Delay]
<1>1. Undisturbed
  BY DEF Undisturbed
<1>2. SettlingInv /\ [Next]_vars => SettlingInv'
  BY <1>1, NextSettles
<1>3. SettlingInv /\ [Next]_vars => A
  BY <1>1, FailbackStep
<1>4. Spec => [][A]_vars
  BY <1>2, <1>3, InitSettlingInv, PTL DEF Spec
<1> QED BY <1>4 DEF FailbackWaited
=============================================================================
