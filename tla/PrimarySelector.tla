--------------------------- MODULE PrimarySelector ---------------------------
(***************************************************************************)
(* The primary selector of backend/primary.rs: per address family, which    *)
(* lane carries the traffic no rule assigns.  A lane counts only while its  *)
(* interface still is the device it was bound to.  Times are relative: a    *)
(* family's "waited" is now minus ready_since, in ticks.                    *)
(***************************************************************************)
EXTENDS Integers, FiniteSets, Sequences

CONSTANTS
    Families,       \* address families
    Lanes,          \* the lanes of the profile
    Interfaces,     \* interface names
    LaneInterface,  \* the interface a lane is configured on
    Idents,         \* device identities an interface can have
    Defaults,       \* what the system default can be: an interface, None or Ambiguous
    Policies,       \* routing policies a profile can have
    Delay,          \* FAILBACK_DELAY
    Follow,         \* PrimarySelection::FollowSystemDefault
    Ambiguous,      \* DefaultSelection::Ambiguous
    None            \* no lane (FamilyExit::Blocked), no device, no wait

ASSUME LaneAssumption == LaneInterface \in [Lanes -> Interfaces]
ASSUME PolicyAssumption ==
    Policies \subseteq [primary: Lanes \cup {Follow}, backups: Seq(Lanes), failover: BOOLEAN]
ASSUME DelayAssumption == Delay \in Nat \ {0}
ASSUME NoneAssumption == None \notin Lanes \cup Interfaces \cup Idents \cup Int \cup {Follow}
ASSUME DefaultsAssumption == Defaults \subseteq Interfaces \cup {None, Ambiguous}
ASSUME FollowAssumption == Follow \notin Lanes /\ Ambiguous \notin Interfaces

-----------------------------------------------------------------------------
(* Topology *)

\* TopologySnapshot: "up" are the families an interface has carrier, an
\* address and a default route for.
Topologies ==
    [ident: [Interfaces -> Idents \cup {None}],
     up: [Interfaces -> SUBSET Families],
     default: [Families -> Defaults]]

\* The identity each lane's interface has now, if it has one.
Bindings == [Lanes -> Idents \cup {None}]
Bind(top) == [l \in Lanes |-> top.ident[LaneInterface[l]]]

\* An interface whose device is not one of the granted ones becomes absent;
\* the system default is not filtered.
RestrictedTo(top, bind) ==
    [top EXCEPT !.ident = [i \in Interfaces |->
        IF \E l \in Lanes : LaneInterface[l] = i /\ bind[l] = top.ident[i]
        THEN top.ident[i] ELSE None]]

\* Faulty variant: any device of that name will do.
ReadyByName(bind, top, l, f) == bind[l] # None /\ f \in top.up[LaneInterface[l]]

Ready(bind, top, l, f) ==
    /\ bind[l] # None
    /\ top.ident[LaneInterface[l]] = bind[l]
    /\ f \in top.up[LaneInterface[l]]

-----------------------------------------------------------------------------
(* Selection *)

NoChoice == [preferred |-> None, effective |-> None]
Choices == [preferred: Lanes \cup {None}, effective: Lanes \cup {None}]
Decisions == [Families -> Choices]
FamilyStates ==
    [preferred: Lanes \cup {None}, effective: Lanes \cup {None}, waited: 0..Delay \cup {None}]
Selectors == [bind: Bindings, st: [Families -> FamilyStates]]

Fresh(choice) ==
    [preferred |-> choice.preferred, effective |-> choice.effective, waited |-> None]
NewSelector(top) == [bind |-> Bind(top), st |-> [f \in Families |-> Fresh(NoChoice)]]
\* Faulty variant: the wait of an earlier process counts.
ResumedElapsed(top, dec) ==
    [bind |-> Bind(top), st |-> [f \in Families |-> [Fresh(dec[f]) EXCEPT !.waited = Delay]]]
ResumedSelector(top, dec) == [bind |-> Bind(top), st |-> [f \in Families |-> Fresh(dec[f])]]

\* Bound lanes on the interface that holds the system default; matching is by
\* name alone.
OnDefault(bind, top, f) ==
    {l \in Lanes : bind[l] # None /\ LaneInterface[l] = top.default[f]}

Unclear(policy, bind, top, f) ==
    /\ policy.primary = Follow
    /\ \/ top.default[f] = Ambiguous
       \/ \E l, m \in OnDefault(bind, top, f) : l # m

Preferred(policy, bind, top, f) ==
    IF policy.primary # Follow THEN policy.primary
    ELSE IF Unclear(policy, bind, top, f) \/ OnDefault(bind, top, f) = {} THEN None
    ELSE CHOOSE l \in OnDefault(bind, top, f) : TRUE

\* Positions of the first backup that is ready, at most one.
FirstBackup(policy, bind, top, f, preferred) ==
    LET usable(k) == policy.backups[k] # preferred /\ Ready(bind, top, policy.backups[k], f)
    IN  {k \in DOMAIN policy.backups :
            policy.failover /\ usable(k) /\ \A j \in 1..(k - 1) : ~usable(j)}

Chosen(policy, bind, top, f, preferred) ==
    LET first == FirstBackup(policy, bind, top, f, preferred)
    IN  IF preferred # None /\ Ready(bind, top, preferred, f) THEN preferred
        ELSE IF first # {} THEN policy.backups[CHOOSE k \in first : TRUE]
        ELSE None

UpdateFamily(policy, bind, top, f, s) ==
    LET preferred == Preferred(policy, bind, top, f)
        becomes(lane, wait) == [preferred |-> preferred, effective |-> lane, waited |-> wait]
        kept == IF s.preferred = preferred THEN s.waited ELSE None
        started == IF kept = None THEN 0 ELSE kept
        oldReady == /\ s.effective # None
                    /\ Ready(bind, top, s.effective, f)
                    /\ policy.failover \/ s.effective = preferred
        returning == /\ preferred # None
                     /\ Ready(bind, top, preferred, f)
                     /\ s.effective # preferred
    IN  CASE Unclear(policy, bind, top, f) -> becomes(None, None)
          [] ~Unclear(policy, bind, top, f) /\ ~oldReady ->
                becomes(Chosen(policy, bind, top, f, preferred), None)
          [] ~Unclear(policy, bind, top, f) /\ oldReady /\ ~returning ->
                becomes(s.effective, None)
          [] ~Unclear(policy, bind, top, f) /\ oldReady /\ returning ->
                IF started >= Delay THEN becomes(preferred, None)
                ELSE becomes(s.effective, started)

Update(sel, policy, top) ==
    [sel EXCEPT !.st = [f \in Families |-> UpdateFamily(policy, sel.bind, top, f, sel.st[f])]]

Decision(sel) ==
    [f \in Families |-> [preferred |-> sel.st[f].preferred, effective |-> sel.st[f].effective]]

\* The waits of the families that wait for their preferred lane, and the
\* shorter of two waits either of which may be absent.
Pending(sel) == {Delay - sel.st[f].waited : f \in {g \in Families : sel.st[g].waited # None}}
Soonest(waits) == IF waits = {} THEN None ELSE CHOOSE w \in waits : \A v \in waits : w <= v
Sooner(a, b) == Soonest({a, b} \ {None})
\* Faulty variant: a wait that begins now has no deadline yet.
DeadlineOnceStarted(sel) == Soonest(Pending(sel) \ {Delay})
NextDeadline(sel) == Soonest(Pending(sel))

\* now advances by one tick; more than the delay is as good as the delay.
Older(sel) ==
    [sel EXCEPT !.st = [f \in Families |->
        IF sel.st[f].waited \in 0..(Delay - 1) THEN [sel.st[f] EXCEPT !.waited = @ + 1]
        ELSE sel.st[f]]]

-----------------------------------------------------------------------------
(* Lane usage a policy approves: its primary, with failover its backups, and *)
(* whichever bound lane is or was the system default when it follows that.   *)
Approved(policy, l) ==
    \/ policy.primary \in {l, Follow}
    \/ policy.failover /\ \E k \in DOMAIN policy.backups : policy.backups[k] = l
=============================================================================
