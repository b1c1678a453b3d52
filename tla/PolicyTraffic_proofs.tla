------------------------- MODULE PolicyTraffic_proofs -------------------------
(***************************************************************************)
(* Theorems about PolicyTraffic, for every profile, flow and network, and    *)
(* any number of changes, plans and failures.                                *)
(***************************************************************************)
EXTENDS PolicyTraffic, TLAPS

-----------------------------------------------------------------------------
(* Packets *)

\* What the chains let out with the mark of a lane is no control traffic and
\* leaves by that lane's device, and its flow has the same mark.
LEMMA LanesAreExact ==
    ASSUME NEW x \in Flows, NEW src, NEW ct, NEW est, kern.doc.active # None,
           NEW w \in Ways(x, src, ct, est), Owned(w.mark)
    PROVE  /\ ~x.control
           /\ w.ct = w.mark /\ w.ct \in DOMAIN kern.doc.active.lanes
           /\ kern.doc.active.lanes[w.mark].iface = w.dev
<1> DEFINE k == [fam |-> DestFamily[x.dest], dest |-> x.dest, app |-> x.app, mark |-> x.mark,
                 control |-> x.control, ct |-> ct, est |-> est]
           plan == kern.doc.active
           first == IF plan = None THEN Pass(k) ELSE Output(plan, k)
           networks == UNION {p.networks : p \in {plan, helper.work.next} \ {None}}
           sent == [k EXCEPT !.mark = first.mark, !.ct = first.ct]
           leaves(dev) ==
             /\ LinkReady(net.link[dev])
             /\ plan = None \/ Egress(plan, dev, net.link[dev].index, src, sent)
<1>1. /\ ~(~first.ok \/ Guarded(kern.doc, networks, k))
      /\ w \in {[dev |-> dev, mark |-> first.mark, ct |-> first.ct] :
                  dev \in {i \in RouteFor(first.mark, x.dest) : leaves(i)}}
  BY Zenon DEF Ways
<1> HIDE DEF networks
<1>2. PICK dev : leaves(dev) /\ w = [dev |-> dev, mark |-> first.mark, ct |-> first.ct]
  <2> HIDE DEF leaves, first
  <2> QED BY <1>1
<1>3. w.dev = dev /\ w.mark = first.mark /\ w.ct = first.ct
  <2> HIDE DEF leaves, first
  <2> QED BY <1>2
<1>4. Egress(plan, dev, net.link[dev].index, src, sent)
  BY <1>2
<1>5. sent.control = x.control /\ sent.mark = first.mark /\ sent.ct = first.ct
  <2> HIDE DEF first
  <2> QED OBVIOUS
<1>6. ~x.control
  <2> SUFFICES ASSUME x.control PROVE FALSE
    OBVIOUS
  <2>1. k.control /\ k.mark = x.mark
    OBVIOUS
  <2>2. first = Pass(k)
    BY <2>1 DEF Output
  <2>3. first.mark = x.mark
    BY <2>1, <2>2 DEF Pass
  <2> QED BY <1>3, <2>3, ControlAssumption DEF Owned
<1> HIDE DEF sent, first
<1>7. /\ first.mark = first.ct /\ first.ct \in DOMAIN plan.lanes
      /\ plan.lanes[first.ct].iface = dev
  BY <1>3, <1>4, <1>5, <1>6 DEF Egress
<1> QED BY <1>3, <1>6, <1>7

\* So it is for the packets that a flow can send.
LEMMA PacketsAreExact ==
    ASSUME NEW x \in Flows, NEW p \in Packets(x)
    PROVE  \/ p.lane = None
           \/ /\ ~x.control
              /\ kern.doc.active # None /\ Owned(p.ct) /\ p.ct \in DOMAIN kern.doc.active.lanes
              /\ p.lane = kern.doc.active.lanes[p.ct].iface /\ p.dev = p.lane
              /\ \E src : \E w \in Ways(x, src, flow[x].ct, flow[x].est) :
                    w.mark = p.ct /\ w.ct = p.ct
<1> DEFINE lane(mark) == IF Owned(mark) /\ kern.doc.active # None
                         THEN kern.doc.active.lanes[mark].iface ELSE None
           sources == IF flow[x].est THEN {flow[x].src} ELSE MainRoute(x.dest)
           sent(src) == {[src |-> src, dev |-> w.dev, ct |-> w.ct, lane |-> lane(w.mark)] :
                            w \in Ways(x, src, flow[x].ct, flow[x].est)}
<1>1. p \in UNION {sent(src) : src \in sources}
  BY Zenon DEF Packets
<1>2. PICK src \in sources : p \in sent(src)
  <2> HIDE DEF sent, sources
  <2> QED BY <1>1
<1>3. PICK w \in Ways(x, src, flow[x].ct, flow[x].est) :
        p = [src |-> src, dev |-> w.dev, ct |-> w.ct, lane |-> lane(w.mark)]
  BY <1>2
<1> HIDE DEF lane
<1>4. p.dev = w.dev /\ p.ct = w.ct /\ p.lane = lane(w.mark)
  BY <1>3
<1>5. CASE Owned(w.mark) /\ kern.doc.active # None
  <2>1. /\ ~x.control
        /\ w.ct = w.mark /\ w.ct \in DOMAIN kern.doc.active.lanes
        /\ kern.doc.active.lanes[w.mark].iface = w.dev
    BY <1>5, LanesAreExact
  <2> QED BY <1>4, <1>5, <2>1 DEF lane
<1>6. CASE ~(Owned(w.mark) /\ kern.doc.active # None)
  BY <1>4, <1>6 DEF lane
<1> QED BY <1>5, <1>6

-----------------------------------------------------------------------------
(* Plans *)

Pcs == {"idle", "asked", "guard", "prepare", "activate", "verify", "commit", "save", "undo", "drop",
        "reinstall", "rerender", "clean"}
\* The points at which a transition is under way.
Transitions == Pcs \ {"idle", "asked", "clean"}

\* The interface of each slot, which the lanes of a profile alone decide,
Shape(prof) ==
    LET order == SetToSortSeq(LaneIds(prof), <)
    IN  [n \in DOMAIN order |-> LaneOf(prof, order[n]).iface]
\* and what a plan of the profile is made of.
Formed(plan, prof) ==
    \A n \in DOMAIN plan.lanes :
        /\ plan.lanes[n].iface = Shape(prof)[n]
        /\ \A f \in Families : plan.lanes[n].route[f] # "alien"

\* A topology as the kernel's links make it, with no route of another program.
Sound(top) ==
    DOMAIN top.iface = Interfaces /\ \A i \in Interfaces, f \in Families : top.iface[i].route[f] # "alien"

\* The records that are written field by field.
Fields ==
    /\ DOMAIN helper = {"pc", "plan", "auth", "work"} /\ helper.pc \in Pcs
    /\ DOMAIN helper.work = {"next", "ask", "lost"}
    /\ DOMAIN kern = {"doc", "routes", "rules"} /\ DOMAIN kern.doc = {"active", "guard"}
    /\ DOMAIN used = {"changes", "plans", "faults", "auths", "last"}
    /\ used.auths \in Nat \ {0}
    /\ DOMAIN flow = Flows
    /\ \A x \in Flows : flow[x].auth \in 0..used.auths
\* The helper's plans, and which of them the table is rendered from.
Rendered ==
    /\ helper.pc \in {"idle", "asked", "clean"} => helper.work.next = None
    /\ helper.pc = "idle" => helper.work = NoWork
    /\ helper.plan # None => Formed(helper.plan, helper.auth.prof)
    /\ helper.pc \in Transitions => Formed(helper.work.next, helper.work.ask.prof)
    /\ helper.pc \in Transitions \cup {"asked"} =>
         /\ helper.work.ask.activates \in BOOLEAN
         /\ ~helper.work.ask.activates => helper.plan # None /\ helper.work.ask.prof = helper.auth.prof
    /\ helper.pc = "asked" => Sound(helper.work.ask.top)
    /\ kern.doc.active \in {None, helper.plan, helper.work.next}
    /\ helper.pc \in {"verify", "commit", "save"} => kern.doc.active = helper.work.next
\* A flow that got its lane under the authorisation in force has its mark.
Carried ==
    \A x \in Flows : flow[x].auth = used.auths =>
        /\ ~x.control
        /\ flow[x].ct \in 1..MaxLanes
        /\ flow[x].lane = Shape(helper.auth.prof)[flow[x].ct]
\* Routes of others have no device, and none of them is there in a transition.
Alone ==
    /\ \A r \in kern.routes : r.via = "alien" => r.dev = None
    /\ helper.pc \notin {"idle", "asked"} => \A r \in kern.routes : r.via # "alien"
TrafficInv == Fields /\ Rendered /\ Carried /\ Alone

\* A flow keeps its mark.
LEMMA MarksStay ==
    ASSUME NEW x \in Flows, NEW src, NEW ct, NEW est, ct # 0,
           NEW w \in Ways(x, src, ct, est)
    PROVE  w.ct = ct
<1> DEFINE k == [fam |-> DestFamily[x.dest], dest |-> x.dest, app |-> x.app, mark |-> x.mark,
                 control |-> x.control, ct |-> ct, est |-> est]
           plan == kern.doc.active
           first == IF plan = None THEN Pass(k) ELSE Output(plan, k)
           networks == UNION {p.networks : p \in {plan, helper.work.next} \ {None}}
           sent == [k EXCEPT !.mark = first.mark, !.ct = first.ct]
           leaves(dev) ==
             /\ LinkReady(net.link[dev])
             /\ plan = None \/ Egress(plan, dev, net.link[dev].index, src, sent)
<1>1. /\ ~(~first.ok \/ Guarded(kern.doc, networks, k))
      /\ w \in {[dev |-> dev, mark |-> first.mark, ct |-> first.ct] :
                  dev \in {i \in RouteFor(first.mark, x.dest) : leaves(i)}}
  BY Zenon DEF Ways
<1>2. first.ok /\ w.ct = first.ct
  <2> HIDE DEF leaves, first, networks
  <2> QED BY <1>1
<1>3. k.ct = ct
  OBVIOUS
<1>4. Pass(k).ct = ct
  BY <1>3 DEF Pass
<1> HIDE DEF k, networks, leaves
<1>5. Restore(plan, k).ok => Restore(plan, k).ct = ct
  BY <1>3 DEF Restore, Rejected
<1>6. \A n : Select(plan, k, n) = Restore(plan, k)
  BY <1>3 DEF Select
<1>7. ~Rejected.ok
  BY DEF Rejected
<1>8. Output(plan, k) \in {Pass(k), Rejected, Restore(plan, k)}
  <2> DEFINE to(n) == IF n = Block THEN Rejected ELSE Select(plan, k, n)
  <2>1. \A n : to(n) \in {Rejected, Restore(plan, k)}
    BY <1>6
  <2> DEFINE deciding == CHOOSE n \in Verdicts(plan, k) : TRUE
             foreign == (k.mark # 0 /\ ~Owned(k.mark)) \/ (k.ct # 0 /\ ~Owned(k.ct))
  <2>2. Output(plan, k) =
          IF k.control THEN Pass(k)
          ELSE IF foreign THEN Rejected
          ELSE IF Verdicts(plan, k) # {} THEN to(deciding)
          ELSE IF Owned(k.ct) THEN Restore(plan, k)
          ELSE IF Unmanaged(k) \/ k.dest \in plan.networks THEN Pass(k)
          ELSE to(PrimaryMark(plan, k.fam))
    BY Zenon DEF Output
  <2> HIDE DEF to, foreign, deciding
  <2> QED BY <2>1, <2>2
<1> QED BY <1>2, <1>4, <1>5, <1>7, <1>8

\* A topology is nothing but links: no route in it is of another program.
LEMMA TopologySound ==
    ASSUME NEW idents
    PROVE  Sound(RestrictedTo(Topology(net), idents))
<1> DEFINE top == Topology(net)
<1>1. /\ top.iface = [j \in Interfaces |-> top.iface[j]]
      /\ \A i \in Interfaces, f \in Families : top.iface[i].route[f] = RouteOf(net.link[i], f)
      /\ "iface" \in DOMAIN top
  BY DEF Topology
<1> HIDE DEF top
<1>2. \A i \in Interfaces, f \in Families : top.iface[i].route[f] # "alien"
  BY <1>1 DEF RouteOf
<1>3. \A f \in Families : AbsentInterface.route[f] # "alien"
  BY DEF AbsentInterface
<1>4. RestrictedTo(top, idents).iface =
        [j \in Interfaces |-> IF top.iface[j].ident \in idents THEN top.iface[j] ELSE AbsentInterface]
  BY <1>1 DEF RestrictedTo
<1> QED BY <1>2, <1>3, <1>4 DEF top, Sound

\* What is compiled from a topology is made of the profile.
LEMMA CompiledFormed ==
    ASSUME NEW prof, NEW top, Sound(top), NEW exits, NEW resolved, NEW gen
    PROVE  Formed(Compile(prof, top, exits, resolved, gen), prof)
<1> DEFINE lanes == CompiledLanes(prof, top)
           order == SetToSortSeq(LaneIds(prof), <)
<1>1. Compile(prof, top, exits, resolved, gen).lanes = lanes
  BY DEF Compile
<1>2. ASSUME NEW n \in DOMAIN lanes
      PROVE  /\ n \in DOMAIN order /\ lanes[n].iface = LaneOf(prof, order[n]).iface
             /\ \A f \in Families : lanes[n].route[f] # "alien"
  <2> DEFINE l == LaneOf(prof, order[n])
  <2>1. n \in DOMAIN order
    BY DEF CompiledLanes
  <2>2. lanes[n] =
          [id |-> l.id, iface |-> l.iface, ident |-> top.iface[l.iface].ident,
           source |-> top.iface[l.iface].source, fail |-> l.fail,
           route |-> [f \in Families |->
              IF Ready(top, l.iface, f) THEN top.iface[l.iface].route[f] ELSE "none"]]
    BY <2>1 DEF CompiledLanes
  <2> HIDE DEF l, order, lanes
  <2>3. ASSUME NEW f \in Families, Ready(top, l.iface, f) PROVE top.iface[l.iface].route[f] # "alien"
    BY <2>3 DEF Ready, Sound
  <2>4. \A f \in Families : lanes[n].route[f] # "alien"
    BY <2>2, <2>3
  <2> QED BY <2>1, <2>2, <2>4 DEF l
<1> HIDE DEF lanes
<1>3. \A n \in DOMAIN order : Shape(prof)[n] = LaneOf(prof, order[n]).iface
  BY DEF Shape
<1> HIDE DEF order
<1> QED BY <1>1, <1>2, <1>3 DEF Formed

-----------------------------------------------------------------------------
(* Every step keeps the invariant *)

\* What a step of the helper does to its point; nothing else moves it.
LEMMA HelperMoves ==
    ASSUME Fields, Rendered, [Next]_vars
    PROVE  /\ Fields'
           /\ (helper.plan' = helper.plan /\ helper.auth' = helper.auth) \/ Commit \/ Deactivated
           /\ used.auths' \in {used.auths, used.auths + 1}
<1> USE DEF Fields
<1> DEFINE Goal == /\ DOMAIN helper' = {"pc", "plan", "auth", "work"} /\ helper'.pc \in Pcs
                   /\ DOMAIN helper'.work = {"next", "ask", "lost"}
                   /\ DOMAIN kern' = {"doc", "routes", "rules"} /\ DOMAIN kern'.doc = {"active", "guard"}
                   /\ DOMAIN used' = {"changes", "plans", "faults", "auths", "last"}
                   /\ used'.auths \in Nat \ {0}
                   /\ used'.auths \in {used.auths, used.auths + 1}
                   /\ ((helper'.plan = helper.plan /\ helper'.auth = helper.auth) \/ Commit \/ Deactivated)
           Flowing == DOMAIN flow' = Flows /\ \A x \in Flows : flow'[x].auth \in 0..used.auths
<1>0. flow' = flow => Flowing
  OBVIOUS
<1>1. CASE UNCHANGED vars
  BY <1>1 DEF vars
<1>2. CASE \E x \in Flows : Send(x) \/ Close(x)
  <2>1. PICK x \in Flows : Send(x) \/ Close(x)
    BY <1>2
  <2>2. UNCHANGED <<net, kern, helper, used>>
    BY <2>1 DEF Send, Close
  <2>3. /\ DOMAIN flow' = DOMAIN flow /\ \A y \in Flows \ {x} : flow'[y] = flow[y]
        /\ flow'[x].auth \in {flow[x].auth, 0, used.auths}
    <3>1. CASE Send(x)
      <4>1. PICK p \in Packets(x) :
               flow' = [flow EXCEPT ![x] =
                  [ct |-> p.ct, est |-> TRUE, src |-> p.src,
                   lane |-> IF p.lane = None THEN @.lane ELSE p.lane,
                   auth |-> IF p.lane = None THEN @.auth ELSE IF Trial THEN 0 ELSE used.auths]]
        BY <3>1 DEF Send
      <4> QED BY <4>1
    <3>2. CASE Close(x)
      BY <3>2 DEF Close, NewFlow
    <3> QED BY <2>1, <3>1, <3>2
  <2>4. Flowing
    BY <2>3
  <2> QED BY <2>2, <2>4
<1>3. CASE Change
  <2>1. /\ helper' = helper /\ flow' = flow
        /\ used' = [used EXCEPT !.changes = @ + 1,
                                !.last = Max({net'.link[j].index : j \in Interfaces} \cup {@})]
        /\ \E what \in Changes : Drifts(what) \/ \E i \in Interfaces : Links(what, i)
    BY <1>3 DEF Change
  <2>2. DOMAIN used' = DOMAIN used /\ used'.auths = used.auths
    BY <2>1
  <2>3. DOMAIN kern' = DOMAIN kern /\ kern'.doc = kern.doc
    BY <2>1 DEF Drifts, Links, Dropped
  <2> QED BY <2>1, <2>2, <2>3
<1>4. CASE Capture
  BY <1>4 DEF Capture, Pcs
<1>5. CASE Begin
  BY <1>5 DEF Begin, NoWork, Pcs
<1>6. CASE InstallGuard \/ Prepare \/ Activate \/ Verify \/ RemoveGuard
  BY <1>6 DEF InstallGuard, Prepare, Activate, Verify, RemoveGuard, At, Pcs
<1>7. CASE Commit
  BY <1>7 DEF Commit, NoWork, Pcs
<1>8. CASE Fail
  BY <1>8 DEF Fail, Pcs
<1>9. CASE Undo \/ DropTable \/ Reinstall \/ Rerender
  BY <1>9 DEF Undo, DropTable, Reinstall, Rerender, At, NoWork, NoDoc, Pcs
<1>10. CASE Deactivate
  BY <1>10 DEF Deactivate, At, Pcs
<1>11. CASE Deactivated
  <2>1. helper'.pc = "idle" /\ DOMAIN helper' = {"pc", "plan", "auth", "work"} /\ helper'.work = NoWork
    BY <1>11 DEF Deactivated, NoHelper
  <2>2. DOMAIN kern' = DOMAIN kern /\ kern'.doc = NoDoc
    BY <1>11 DEF Deactivated
  <2>3. DOMAIN used' = DOMAIN used /\ used'.auths = used.auths + 1 /\ flow' = flow
    BY <1>11 DEF Deactivated
  <2> QED BY <1>11, <2>1, <2>2, <2>3 DEF NoWork, NoDoc, Pcs
<1> QED BY <1>1, <1>2, <1>3, <1>4, <1>5, <1>6, <1>7, <1>8, <1>9, <1>10, <1>11 DEF Next

\* Initially nothing is installed and nothing flows.
LEMMA InitTraffic == Init => TrafficInv
<1> SUFFICES ASSUME Init PROVE TrafficInv
  OBVIOUS
<1>1. /\ helper = NoHelper /\ kern = Nothing /\ flow = [x \in Flows |-> NewFlow]
      /\ used = [changes |-> 0, plans |-> 0, faults |-> 0, auths |-> 1,
                 last |-> Max({net.link[i].index : i \in Interfaces})]
  BY DEF Init
<1>2. Fields
  BY <1>1 DEF Fields, NoHelper, NoWork, Nothing, NoDoc, NewFlow, Pcs
<1>3. Rendered
  BY <1>1 DEF Rendered, NoHelper, NoWork, Nothing, NoDoc, Transitions, Pcs
<1>4. Carried
  BY <1>1 DEF Carried, NewFlow
<1>5. Alone
  BY <1>1 DEF Alone, Nothing
<1> QED BY <1>2, <1>3, <1>4, <1>5 DEF TrafficInv

\* The points that name the transitions, one by one.
LEMMA PointsOf ==
    /\ Pcs = {"idle", "asked", "guard", "prepare", "activate", "verify", "commit", "save", "undo", "drop",
              "reinstall", "rerender", "clean"}
    /\ Transitions = {"guard", "prepare", "activate", "verify", "commit", "save", "undo", "drop",
                      "reinstall", "rerender"}
BY DEF Pcs, Transitions

\* The plans stay what they were compiled to be.
LEMMA RenderedKept ==
    ASSUME Fields, Rendered, [Next]_vars
    PROVE  Rendered'
<1> USE DEF Fields
<1>1. CASE helper' = helper /\ kern'.doc = kern.doc
  BY <1>1 DEF Rendered
<1>2. CASE Change
  <2>1. helper' = helper /\ kern'.doc = kern.doc
    BY <1>2 DEF Change, Drifts, Links, Dropped
  <2> QED BY <1>1, <2>1
<1>3. CASE Capture
  <2> DEFINE ask(p, resolved, activates) ==
               [prof |-> p, resolved |-> resolved, activates |-> activates,
                top |-> RestrictedTo(Topology(net), IF activates THEN AuthIdents(p, Topology(net))
                                                    ELSE helper.auth.grant)]
  <2>a. \A p, resolved, activates :
           /\ ask(p, resolved, activates).activates = activates /\ ask(p, resolved, activates).prof = p
           /\ \E idents : ask(p, resolved, activates).top = RestrictedTo(Topology(net), idents)
    OBVIOUS
  <2>b. PICK p, resolved, activates :
           /\ helper' = [helper EXCEPT !.pc = "asked", !.work.ask = ask(p, resolved, activates)]
           /\ \/ activates = TRUE
              \/ helper.plan # None /\ activates = FALSE /\ p = helper.auth.prof
    <3>1. \/ \E p \in Profiles : \E resolved \in Resolutions(p) :
                helper' = [helper EXCEPT !.pc = "asked", !.work.ask = ask(p, resolved, TRUE)]
          \/ /\ helper.plan # None
             /\ helper' = [helper EXCEPT !.pc = "asked",
                    !.work.ask = ask(helper.auth.prof, helper.auth.resolved, FALSE)]
      BY <1>3, Zenon DEF Capture
    <3> HIDE DEF ask
    <3>2. CASE \E p \in Profiles : \E resolved \in Resolutions(p) :
                 helper' = [helper EXCEPT !.pc = "asked", !.work.ask = ask(p, resolved, TRUE)]
      BY <3>2
    <3>3. CASE /\ helper.plan # None
               /\ helper' = [helper EXCEPT !.pc = "asked",
                    !.work.ask = ask(helper.auth.prof, helper.auth.resolved, FALSE)]
      BY <3>3
    <3> QED BY <3>1, <3>2, <3>3
  <2> HIDE DEF ask
  <2>1. /\ helper.pc = "idle" /\ helper'.pc = "asked" /\ kern' = kern
        /\ helper'.plan = helper.plan /\ helper'.auth = helper.auth
        /\ helper'.work.next = helper.work.next
        /\ helper'.work.ask = ask(p, resolved, activates)
    <3>1. helper.pc = "idle" /\ kern' = kern
      BY <1>3 DEF Capture
    <3> QED BY <2>b, <3>1
  <2>2. \/ helper'.work.ask.activates = TRUE
        \/ /\ helper.plan # None /\ helper'.work.ask.activates = FALSE
           /\ helper'.work.ask.prof = helper.auth.prof
    BY <2>a, <2>b, <2>1
  <2>3. \E idents : helper'.work.ask.top = RestrictedTo(Topology(net), idents)
    BY <2>a, <2>1
  <2>4. Sound(helper'.work.ask.top)
    BY <2>3, TopologySound
  <2>5. helper.work.next = None
    BY <2>1 DEF Rendered
  <2> QED BY <2>1, <2>2, <2>4, <2>5, PointsOf DEF Rendered
<1>4. CASE Begin
  <2>1. helper.pc = "asked" /\ kern' = kern
    BY <1>4 DEF Begin
  <2>2. \/ /\ helper' = [helper EXCEPT !.pc = "idle", !.work = NoWork]
        \/ \E exits, gen :
             helper' = [helper EXCEPT !.pc = "guard", !.work =
                [next |-> Compile(helper.work.ask.prof, helper.work.ask.top, exits,
                                  helper.work.ask.resolved, gen),
                 ask |-> helper.work.ask, lost |-> RoutesOf(helper.plan) \ kern.routes]]
    BY <1>4 DEF Begin
  <2>3. kern.doc.active \in {None, helper.plan}
    BY <2>1 DEF Rendered
  <2>4. CASE helper' = [helper EXCEPT !.pc = "idle", !.work = NoWork]
    BY <2>1, <2>3, <2>4, PointsOf DEF Rendered, NoWork
  <2>5. ASSUME NEW exits, NEW gen,
               helper' = [helper EXCEPT !.pc = "guard", !.work =
                  [next |-> Compile(helper.work.ask.prof, helper.work.ask.top, exits,
                                    helper.work.ask.resolved, gen),
                   ask |-> helper.work.ask, lost |-> RoutesOf(helper.plan) \ kern.routes]]
        PROVE  Rendered'
    <3>1. Sound(helper.work.ask.top)
      BY <2>1 DEF Rendered
    <3>2. Formed(Compile(helper.work.ask.prof, helper.work.ask.top, exits,
                         helper.work.ask.resolved, gen), helper.work.ask.prof)
      BY <3>1, CompiledFormed
    <3>3. /\ helper'.pc = "guard" /\ helper'.plan = helper.plan /\ helper'.auth = helper.auth
          /\ helper'.work.ask = helper.work.ask
          /\ Formed(helper'.work.next, helper'.work.ask.prof)
      BY <2>5, <3>2
    <3> QED BY <2>1, <2>3, <3>3, PointsOf DEF Rendered
  <2> QED BY <2>2, <2>4, <2>5
<1>5. CASE InstallGuard \/ Prepare \/ Activate \/ Verify \/ RemoveGuard
  <2>1. /\ helper.pc \in Transitions /\ helper'.pc \in Transitions
        /\ helper'.plan = helper.plan /\ helper'.auth = helper.auth /\ helper'.work = helper.work
    BY <1>5, PointsOf DEF InstallGuard, Prepare, Activate, Verify, RemoveGuard, At
  <2>2. \/ InstallGuard /\ kern'.doc.active = helper.plan /\ helper'.pc = "prepare"
        \/ Prepare /\ kern'.doc = kern.doc /\ helper'.pc = "activate"
        \/ Activate /\ kern'.doc.active = helper.work.next /\ helper'.pc = "verify"
        \/ Verify /\ kern'.doc = kern.doc /\ helper'.pc = "commit" /\ helper.pc = "verify"
        \/ /\ RemoveGuard /\ kern'.doc.active = kern.doc.active
           /\ helper'.pc = "save" /\ helper.pc = "commit"
    <3>1. CASE InstallGuard
      BY <3>1 DEF InstallGuard, At
    <3>2. CASE Prepare
      BY <3>2 DEF Prepare, At
    <3>3. CASE Activate
      BY <3>3 DEF Activate, At
    <3>4. CASE Verify
      BY <3>4 DEF Verify, At
    <3>5. CASE RemoveGuard
      BY <3>5 DEF RemoveGuard, At
    <3> QED BY <1>5, <3>1, <3>2, <3>3, <3>4, <3>5
  <2> QED BY <2>1, <2>2, PointsOf DEF Rendered
<1>6. CASE Commit
  <2>1. /\ helper.pc = "save" /\ helper'.pc = "idle" /\ helper'.work = NoWork
        /\ helper'.plan = helper.work.next /\ kern'.doc.active = kern.doc.active
        /\ helper'.auth.prof = helper.work.ask.prof
    BY <1>6, PointsOf DEF Commit, Rendered
  <2>2. /\ Formed(helper.work.next, helper.work.ask.prof)
        /\ kern.doc.active = helper.work.next
    BY <2>1, PointsOf DEF Rendered
  <2>3. Formed(helper'.plan, helper'.auth.prof)
    BY <2>1, <2>2
  <2> QED BY <2>1, <2>2, <2>3, PointsOf DEF Rendered, NoWork
<1>7. CASE Fail
  <2>1. /\ helper.pc \in Transitions /\ helper'.pc = "undo" /\ kern' = kern
        /\ helper'.plan = helper.plan /\ helper'.auth = helper.auth /\ helper'.work = helper.work
    BY <1>7, PointsOf DEF Fail
  <2> QED BY <2>1, PointsOf DEF Rendered
<1>8. CASE Undo \/ Reinstall
  <2>1. /\ helper.pc \in Transitions /\ helper'.pc \in {"drop", "rerender"} /\ kern'.doc = kern.doc
        /\ helper'.plan = helper.plan /\ helper'.auth = helper.auth /\ helper'.work = helper.work
    BY <1>8, PointsOf DEF Undo, Reinstall, At
  <2> QED BY <2>1, PointsOf DEF Rendered
<1>9. CASE DropTable \/ Rerender
  <2>1. /\ helper.pc \in Transitions /\ kern'.doc.active \in {None, helper.plan}
        /\ helper'.plan = helper.plan /\ helper'.auth = helper.auth
        /\ \/ helper'.pc = "idle" /\ helper'.work = NoWork
           \/ helper'.pc = "reinstall" /\ helper'.work = helper.work
    <3>1. CASE DropTable
      BY <3>1, PointsOf DEF DropTable, At, NoDoc
    <3>2. CASE Rerender
      BY <3>2, PointsOf DEF Rerender
    <3> QED BY <1>9, <3>1, <3>2
  <2>2. helper'.plan # None => Formed(helper'.plan, helper'.auth.prof)
    BY <2>1 DEF Rendered
  <2>3. CASE helper'.pc = "idle" /\ helper'.work = NoWork
    BY <2>1, <2>2, <2>3, PointsOf DEF Rendered, NoWork
  <2>4. CASE helper'.pc = "reinstall" /\ helper'.work = helper.work
    BY <2>1, <2>2, <2>4, PointsOf DEF Rendered
  <2> QED BY <2>1, <2>3, <2>4
<1>10. CASE Deactivate
  <2>1. /\ helper.pc = "idle" /\ helper'.pc = "clean" /\ kern'.doc = kern.doc
        /\ helper'.plan = helper.plan /\ helper'.auth = helper.auth /\ helper'.work = helper.work
    BY <1>10 DEF Deactivate, At
  <2> QED BY <2>1, PointsOf DEF Rendered
<1>11. CASE Deactivated
  <2>1. helper' = NoHelper /\ kern'.doc = NoDoc
    BY <1>11 DEF Deactivated
  <2> QED BY <2>1, PointsOf DEF Rendered, NoHelper, NoWork, NoDoc
<1>12. (\E x \in Flows : Send(x) \/ Close(x)) \/ UNCHANGED vars => helper' = helper /\ kern' = kern
  BY DEF Send, Close, vars
<1> QED BY <1>1, <1>2, <1>3, <1>4, <1>5, <1>6, <1>7, <1>8, <1>9, <1>10, <1>11, <1>12 DEF Next

\* What a flow with a mark sends has that mark.
LEMMA PacketsKeepMarks ==
    ASSUME NEW x \in Flows, flow[x].ct # 0, NEW p \in Packets(x)
    PROVE  p.ct = flow[x].ct
<1> DEFINE lane(mark) == IF Owned(mark) /\ kern.doc.active # None
                         THEN kern.doc.active.lanes[mark].iface ELSE None
           sources == IF flow[x].est THEN {flow[x].src} ELSE MainRoute(x.dest)
           sent(src) == {[src |-> src, dev |-> w.dev, ct |-> w.ct, lane |-> lane(w.mark)] :
                            w \in Ways(x, src, flow[x].ct, flow[x].est)}
<1>1. p \in UNION {sent(src) : src \in sources}
  BY Zenon DEF Packets
<1>2. PICK src \in sources : p \in sent(src)
  <2> HIDE DEF sent, sources
  <2> QED BY <1>1
<1>3. PICK w \in Ways(x, src, flow[x].ct, flow[x].est) :
        p = [src |-> src, dev |-> w.dev, ct |-> w.ct, lane |-> lane(w.mark)]
  BY <1>2
<1> HIDE DEF lane
<1> QED BY <1>3, MarksStay

\* Outside a trial the live table's plan is one of the authorised profile.
LEMMA LiveIsAuthorised ==
    ASSUME Rendered, Fields, ~Trial, kern.doc.active # None
    PROVE  Formed(kern.doc.active, helper.auth.prof)
<1>1. CASE kern.doc.active = helper.plan
  BY <1>1 DEF Rendered
<1>2. CASE kern.doc.active = helper.work.next
  <2>1. helper.pc \in Transitions
    BY <1>2, PointsOf DEF Rendered, Fields
  <2>2. ~helper.work.ask.activates
    BY <1>2 DEF Trial
  <2> QED BY <1>2, <2>1, <2>2, PointsOf DEF Rendered
<1> QED BY <1>1, <1>2 DEF Rendered

\* Outside a trial the lane of what is sent is the profile's for its mark.
LEMMA LaneOfMark ==
    ASSUME Fields, Rendered, ~Trial, NEW x \in Flows, NEW p \in Packets(x), p.lane # None
    PROVE  ~x.control /\ p.ct \in 1..MaxLanes /\ p.lane = Shape(helper.auth.prof)[p.ct]
<1>1. /\ ~x.control
      /\ kern.doc.active # None /\ Owned(p.ct) /\ p.ct \in DOMAIN kern.doc.active.lanes
      /\ p.lane = kern.doc.active.lanes[p.ct].iface
  BY PacketsAreExact
<1>2. Formed(kern.doc.active, helper.auth.prof)
  BY <1>1, LiveIsAuthorised
<1> QED BY <1>1, <1>2 DEF Formed, Owned

\* What a step does to the grant in force and its number.
LEMMA GrantMoves ==
    ASSUME Fields, Rendered, [Next]_vars
    PROVE  \/ used'.auths = used.auths + 1
           \/ used'.auths = used.auths /\ helper'.auth = helper.auth
<1> USE DEF Fields
<1>1. CASE Commit
  <2>1. CASE helper.work.ask.activates
    BY <1>1, <2>1 DEF Commit
  <2>2. CASE ~helper.work.ask.activates
    BY <1>1, <2>2 DEF Commit
  <2> QED BY <2>1, <2>2
<1>2. CASE Deactivated
  BY <1>2 DEF Deactivated
<1>3. CASE Change
  <2>1. /\ helper' = helper
        /\ used' = [used EXCEPT !.changes = @ + 1,
                                !.last = Max({net'.link[j].index : j \in Interfaces} \cup {@})]
    BY <1>3 DEF Change
  <2> QED BY <2>1
<1>4. CASE Begin
  BY <1>4, HelperMoves DEF Begin, Commit, Deactivated
<1>5. CASE Fail
  BY <1>5, HelperMoves DEF Fail, Commit, Deactivated
<1>6. CASE used' = used /\ ~Commit /\ ~Deactivated
  BY <1>6, HelperMoves
<1>7. [Next]_vars => \/ Commit \/ Deactivated \/ Change \/ Begin \/ Fail
                     \/ used' = used
  BY DEF Next, vars, Send, Close, Capture, InstallGuard, Prepare, Activate, Verify,
         RemoveGuard, Undo, DropTable, Reinstall, Rerender, Deactivate
<1> QED BY <1>1, <1>2, <1>3, <1>4, <1>5, <1>6, <1>7

\* A flow that got its lane under the grant keeps the mark of that lane.
LEMMA CarriedKept ==
    ASSUME Fields, Rendered, Carried, [Next]_vars
    PROVE  Carried'
<1>1. CASE \E x \in Flows : Send(x) \/ Close(x)
  <2>1. PICK x \in Flows : Send(x) \/ Close(x)
    BY <1>1
  <2>2. UNCHANGED <<net, kern, helper, used>>
    BY <2>1 DEF Send, Close
  <2>3. CASE Send(x)
    <3>1. PICK p \in Packets(x) :
             flow' = [flow EXCEPT ![x] =
                [ct |-> p.ct, est |-> TRUE, src |-> p.src,
                 lane |-> IF p.lane = None THEN @.lane ELSE p.lane,
                 auth |-> IF p.lane = None THEN @.auth ELSE IF Trial THEN 0 ELSE used.auths]]
      BY <2>3 DEF Send
    <3>2. /\ \A y \in Flows \ {x} : flow'[y] = flow[y]
          /\ flow'[x].ct = p.ct
          /\ flow'[x].lane = IF p.lane = None THEN flow[x].lane ELSE p.lane
          /\ flow'[x].auth = IF p.lane = None THEN flow[x].auth
                             ELSE IF Trial THEN 0 ELSE used.auths
      BY <3>1 DEF Fields
    <3>3. CASE p.lane = None
      <4>1. flow[x].ct \in 1..MaxLanes => p.ct = flow[x].ct
        BY PacketsKeepMarks
      <4> QED BY <2>2, <3>2, <3>3, <4>1 DEF Carried
    <3>4. CASE p.lane # None /\ Trial
      <4>1. flow'[x].auth # used.auths
        BY <3>2, <3>4 DEF Fields
      <4> QED BY <2>2, <3>2, <4>1 DEF Carried
    <3>5. CASE p.lane # None /\ ~Trial
      <4>1. ~x.control /\ p.ct \in 1..MaxLanes /\ p.lane = Shape(helper.auth.prof)[p.ct]
        BY <3>5, LaneOfMark
      <4> QED BY <2>2, <3>2, <3>5, <4>1 DEF Carried
    <3> QED BY <3>3, <3>4, <3>5
  <2>4. CASE Close(x)
    <3>1. /\ \A y \in Flows \ {x} : flow'[y] = flow[y]
          /\ flow'[x].auth = 0
      BY <2>4 DEF Close, NewFlow, Fields
    <3>2. flow'[x].auth # used.auths
      BY <3>1 DEF Fields
    <3> QED BY <2>2, <3>1, <3>2 DEF Carried
  <2> QED BY <2>1, <2>3, <2>4
<1>2. CASE flow' = flow
  <2>1. CASE used'.auths = used.auths + 1
    <3>1. \A x \in Flows : flow'[x].auth # used'.auths
      BY <1>2, <2>1 DEF Fields
    <3> QED BY <3>1 DEF Carried
  <2>2. CASE used'.auths = used.auths /\ helper'.auth = helper.auth
    BY <1>2, <2>2 DEF Carried
  <2> QED BY <2>1, <2>2, GrantMoves
<1>3. (\E x \in Flows : Send(x) \/ Close(x)) \/ flow' = flow
  BY DEF Next, vars, Change, Capture, Begin, InstallGuard, Prepare, Activate, Verify,
         RemoveGuard, Commit, Fail, Undo, DropTable, Reinstall, Rerender, Deactivate, Deactivated
<1> QED BY <1>1, <1>2, <1>3

\* The routes of a plan are RouteLane's.
LEMMA PlansHaveNoAliens ==
    ASSUME NEW plan, NEW prof, plan # None => Formed(plan, prof)
    PROVE  \A r \in RoutesOf(plan) : r.via # "alien"
<1>1. CASE plan = None
  BY <1>1 DEF RoutesOf
<1>2. CASE plan # None
  <2>1. ASSUME NEW f, NEW t PROVE /\ Terminal(f, t).via = "unreachable"
                                  /\ Unicast(plan, f, t).via = plan.lanes[t].route[f]
    BY DEF Terminal, Unicast
  <2>2. ASSUME NEW r \in UnicastsOf(plan) PROVE r.via # "alien"
    <3>1. PICK x \in Families \X DOMAIN plan.lanes : r = Unicast(plan, x[1], x[2])
      BY Zenon DEF UnicastsOf
    <3>2. x[1] \in Families /\ x[2] \in DOMAIN plan.lanes
      BY <3>1
    <3> QED BY <1>2, <2>1, <3>1, <3>2 DEF Formed
  <2>3. ASSUME NEW r \in {Terminal(f, t) : f \in Families, t \in DOMAIN plan.lanes}
        PROVE  r.via # "alien"
    BY <2>1, <2>3
  <2>4. RoutesOf(plan) = UnicastsOf(plan) \cup {Terminal(f, t) : f \in Families, t \in DOMAIN plan.lanes}
    BY <1>2 DEF RoutesOf
  <2> QED BY <2>2, <2>3, <2>4
<1> QED BY <1>1, <1>2

\* A route of another program never goes, and none is there in a transition.
LEMMA AloneKept ==
    ASSUME Fields, Rendered, Alone, [Next]_vars
    PROVE  /\ Alone'
           /\ {r \in kern.routes : r.via = "alien"} \subseteq kern'.routes
<1> USE DEF Fields
<1> DEFINE Goal == /\ Alone'
                   /\ {r \in kern.routes : r.via = "alien"} \subseteq kern'.routes
<1>a. \A r \in RoutesOf(helper.plan) : r.via # "alien"
  BY PlansHaveNoAliens DEF Rendered
<1>b. helper.pc \in Transitions => \A r \in RoutesOf(helper.work.next) : r.via # "alien"
  BY PlansHaveNoAliens DEF Rendered
<1>1. CASE kern'.routes = kern.routes /\ (helper'.pc = helper.pc \/ helper'.pc \in {"idle", "asked"}
                                          \/ helper.pc \in Transitions)
  BY <1>1, PointsOf DEF Alone
<1>2. CASE Change
  <2>1. /\ helper' = helper
        /\ \E what \in Changes : Drifts(what) \/ \E i \in Interfaces : Links(what, i)
    BY <1>2 DEF Change
  <2>2. ASSUME NEW what, Drifts(what) PROVE Goal
    <3>1. helper.pc \in {"idle", "asked"}
      BY <2>2 DEF Drifts
    <3>2. CASE kern'.routes = kern.routes
      BY <2>1, <3>1, <3>2 DEF Alone
    <3>3. ASSUME NEW r \in kern.routes, r \in RoutesOf(helper.plan), kern'.routes = kern.routes \ {r}
          PROVE  Goal
      BY <1>a, <2>1, <3>1, <3>3 DEF Alone
    <3>4. ASSUME NEW f, NEW m, kern'.routes = kern.routes \cup {Alien(f, m)}
          PROVE  Goal
      <4>1. Alien(f, m).dev = None
        BY DEF Alien
      <4> QED BY <2>1, <3>1, <3>4, <4>1 DEF Alone
    <3>5. \/ kern'.routes = kern.routes
          \/ \E r \in kern.routes : r \in RoutesOf(helper.plan) /\ kern'.routes = kern.routes \ {r}
          \/ \E f, m : kern'.routes = kern.routes \cup {Alien(f, m)}
      <4> DEFINE mine(resources) == {r \in resources : r.fam = V4}
      <4>1. \/ \E r \in mine(kern.routes \cap RoutesOf(helper.plan)) :
                kern' = [kern EXCEPT !.routes = @ \ {r}]
            \/ \E r \in mine(kern.rules) : kern' = [kern EXCEPT !.rules = @ \ {r}]
            \/ \E r \in mine(kern.rules) :
                kern' = [kern EXCEPT !.routes = @ \cup {Alien(r.fam, r.mark)}]
        BY <2>2, Zenon DEF Drifts
      <4>2. CASE \E r \in mine(kern.routes \cap RoutesOf(helper.plan)) :
                   kern' = [kern EXCEPT !.routes = @ \ {r}]
        BY <4>2
      <4>3. CASE \E r \in mine(kern.rules) : kern' = [kern EXCEPT !.rules = @ \ {r}]
        BY <4>3
      <4>4. CASE \E r \in mine(kern.rules) :
                   kern' = [kern EXCEPT !.routes = @ \cup {Alien(r.fam, r.mark)}]
        BY <4>4
      <4> QED BY <4>1, <4>2, <4>3, <4>4
    <3> QED BY <3>2, <3>3, <3>4, <3>5
  <2>3. ASSUME NEW what, NEW i \in Interfaces, Links(what, i) PROVE Goal
    <3>1. kern' = kern \/ \E fams : kern' = Dropped(i, fams)
      BY <2>3, Zenon DEF Links
    <3>2. CASE kern' = kern
      BY <2>1, <3>2 DEF Alone
    <3>3. ASSUME NEW fams, kern' = Dropped(i, fams) PROVE Goal
      <4>1. kern'.routes = {r \in kern.routes : ~(r.dev = i /\ r.fam \in fams)}
        BY <3>3 DEF Dropped
      <4> QED BY <2>1, <4>1, NoneAssumption DEF Alone
    <3> QED BY <3>1, <3>2, <3>3
  <2> QED BY <2>1, <2>2, <2>3
<1>3. CASE Begin
  <2>1. kern' = kern
    BY <1>3 DEF Begin
  <2>2. helper'.pc = "idle" \/ (helper'.pc = "guard" /\ kern.routes \subseteq RoutesOf(helper.plan))
    <3>1. \/ helper' = [helper EXCEPT !.pc = "idle", !.work = NoWork]
          \/ \E next, work : Tolerated(next) /\ helper' = [helper EXCEPT !.pc = "guard", !.work = work]
      BY <1>3 DEF Begin
    <3>2. \A next : Tolerated(next) => kern.routes \subseteq RoutesOf(helper.plan)
      BY DEF Tolerated
    <3> QED BY <3>1, <3>2
  <2> QED BY <1>a, <2>1, <2>2 DEF Alone
<1>4. CASE Prepare
  <2>1. /\ helper.pc = "prepare" /\ helper'.pc = "activate"
        /\ kern'.routes = RoutesOf(helper.work.next)
             \cup {r \in kern.routes : r.tab \notin DOMAIN helper.work.next.lanes}
    BY <1>4 DEF Prepare, At
  <2> QED BY <1>b, <2>1, PointsOf DEF Alone
<1>5. CASE Verify
  <2>1. /\ helper.pc = "verify" /\ helper'.pc = "commit"
        /\ kern'.routes = kern.routes \cap RoutesOf(helper.work.next)
    BY <1>5 DEF Verify, At
  <2> QED BY <1>b, <2>1, PointsOf DEF Alone
<1>6. CASE Undo
  <2>1. helper.pc = "undo" /\ kern'.routes = {}
    BY <1>6 DEF Undo, At
  <2> QED BY <2>1 DEF Alone
<1>7. CASE Reinstall
  <2>1. helper.pc = "reinstall" /\ kern'.routes = RoutesOf(helper.plan) \ helper.work.lost
    BY <1>7 DEF Reinstall, At
  <2> QED BY <1>a, <2>1 DEF Alone
<1>8. CASE Deactivate
  <2>1. kern.routes \subseteq RoutesOf(helper.plan) /\ kern'.routes = {}
    BY <1>8 DEF Deactivate
  <2> QED BY <1>a, <2>1 DEF Alone
<1>9. CASE Capture \/ InstallGuard \/ Activate \/ RemoveGuard \/ Commit \/ Fail \/ DropTable \/ Rerender
           \/ Deactivated \/ UNCHANGED vars \/ \E x \in Flows : Send(x) \/ Close(x)
  <2>1. CASE Capture
    <3>1. kern' = kern /\ helper'.pc = "asked"
      BY <2>1 DEF Capture
    <3> QED BY <1>1, <3>1
  <2>2. CASE UNCHANGED vars \/ \E x \in Flows : Send(x) \/ Close(x)
    BY <1>1, <2>2 DEF vars, Send, Close
  <2>3. CASE InstallGuard \/ Activate \/ RemoveGuard \/ Commit \/ Fail \/ DropTable \/ Rerender
    <3>1. helper.pc \in Transitions /\ kern'.routes = kern.routes
      BY <2>3, PointsOf DEF InstallGuard, Activate, RemoveGuard, Commit, Fail, DropTable, Rerender, At
    <3> QED BY <1>1, <3>1
  <2>4. CASE Deactivated
    BY <1>1, <2>4 DEF Deactivated, NoHelper
  <2> QED BY <1>9, <2>1, <2>2, <2>3, <2>4
<1> QED BY <1>2, <1>3, <1>4, <1>5, <1>6, <1>7, <1>8, <1>9 DEF Next

\* The invariant holds in every reachable state.
LEMMA TrafficHolds == Spec => []TrafficInv
<1>1. TrafficInv /\ [Next]_vars => TrafficInv'
  BY HelperMoves, RenderedKept, CarriedKept, AloneKept DEF TrafficInv
<1> QED BY InitTraffic, <1>1, PTL DEF Spec

\* The chains of a plan send a flow that has a lane's mark by that lane.
LEMMA MarkedLeaveByLane ==
    ASSUME NEW x \in Flows, ~x.control, flow[x].ct \in 1..MaxLanes, kern.doc.active # None,
           NEW p \in Packets(x)
    PROVE  /\ flow[x].ct \in DOMAIN kern.doc.active.lanes
           /\ p.dev = kern.doc.active.lanes[flow[x].ct].iface
<1> DEFINE ct == flow[x].ct
           est == flow[x].est
           lane(mark) == IF Owned(mark) /\ kern.doc.active # None
                         THEN kern.doc.active.lanes[mark].iface ELSE None
           sources == IF est THEN {flow[x].src} ELSE MainRoute(x.dest)
           sent(src) == {[src |-> src, dev |-> w.dev, ct |-> w.ct, lane |-> lane(w.mark)] :
                            w \in Ways(x, src, ct, est)}
           k == [fam |-> DestFamily[x.dest], dest |-> x.dest, app |-> x.app, mark |-> x.mark,
                 control |-> x.control, ct |-> ct, est |-> est]
           plan == kern.doc.active
           first == IF plan = None THEN Pass(k) ELSE Output(plan, k)
           networks == UNION {q.networks : q \in {plan, helper.work.next} \ {None}}
           after == [k EXCEPT !.mark = first.mark, !.ct = first.ct]
           leaves(src, dev) ==
             /\ LinkReady(net.link[dev])
             /\ plan = None \/ Egress(plan, dev, net.link[dev].index, src, after)
<1>1. p \in UNION {sent(src) : src \in sources}
  BY Zenon DEF Packets
<1>2. PICK src \in sources : p \in sent(src)
  <2> HIDE DEF sent, sources
  <2> QED BY <1>1
<1>3. PICK w \in Ways(x, src, ct, est) : p.dev = w.dev
  <2> HIDE DEF lane
  <2> QED BY <1>2
<1>4. /\ ~(~first.ok \/ Guarded(kern.doc, networks, k))
      /\ w \in {[dev |-> dev, mark |-> first.mark, ct |-> first.ct] :
                  dev \in {i \in RouteFor(first.mark, x.dest) : leaves(src, i)}}
  BY Zenon DEF Ways
<1>5. first.ok /\ w.mark = first.mark
  <2> HIDE DEF leaves, first, networks
  <2> QED BY <1>4
<1>6. first = Output(plan, k)
  OBVIOUS
<1>7. k.ct = ct /\ ct # 0 /\ Owned(k.ct) /\ ~k.control
  BY DEF Owned
<1> HIDE DEF k, first
<1>8. ~Rejected.ok
  BY DEF Rejected
<1>9. Restore(plan, k).ok => Restore(plan, k).mark = ct
  BY <1>7, <1>8 DEF Restore
<1>10. Output(plan, k) \in {Rejected, Restore(plan, k)}
  <2> DEFINE to(n) == IF n = Block THEN Rejected ELSE Select(plan, k, n)
             deciding == CHOOSE n \in Verdicts(plan, k) : TRUE
             foreign == (k.mark # 0 /\ ~Owned(k.mark)) \/ (k.ct # 0 /\ ~Owned(k.ct))
  <2>1. \A n : to(n) \in {Rejected, Restore(plan, k)}
    BY <1>7 DEF Select
  <2>2. Output(plan, k) =
          IF k.control THEN Pass(k)
          ELSE IF foreign THEN Rejected
          ELSE IF Verdicts(plan, k) # {} THEN to(deciding)
          ELSE IF Owned(k.ct) THEN Restore(plan, k)
          ELSE IF Unmanaged(k) \/ k.dest \in plan.networks THEN Pass(k)
          ELSE to(PrimaryMark(plan, k.fam))
    BY Zenon DEF Output
  <2> HIDE DEF to, foreign, deciding
  <2> QED BY <1>7, <2>1, <2>2
<1>11. w.mark = ct
  BY <1>5, <1>6, <1>8, <1>9, <1>10
<1>12. Owned(w.mark)
  BY <1>11 DEF Owned
<1> QED BY <1>3, <1>11, <1>12, LanesAreExact

\* While the table is there and no activation is on trial, an established flow
\* with a lane of the authorisation in force is sent nowhere but to that lane,
\* in every stage of a refresh, a failover, their rollbacks and a cleanup: its
\* mark is honoured by every plan, and the slots of an authorised profile name
\* the same interfaces in all its plans.
THEOREM FlowsKeepTheirLane == Spec => []FlowsStay
<1>1. TrafficInv => FlowsStay
  <2> SUFFICES ASSUME TrafficInv, ~Trial, kern.doc.active # None,
                      NEW x \in Flows, flow[x].auth = used.auths, NEW p \in Packets(x)
               PROVE  p.dev = flow[x].lane
    BY DEF FlowsStay
  <2>1. /\ ~x.control /\ flow[x].ct \in 1..MaxLanes
        /\ flow[x].lane = Shape(helper.auth.prof)[flow[x].ct]
    BY DEF TrafficInv, Carried
  <2>2. /\ flow[x].ct \in DOMAIN kern.doc.active.lanes
        /\ p.dev = kern.doc.active.lanes[flow[x].ct].iface
    BY <2>1, MarkedLeaveByLane
  <2>3. Formed(kern.doc.active, helper.auth.prof)
    BY LiveIsAuthorised DEF TrafficInv
  <2> QED BY <2>1, <2>2, <2>3 DEF Formed
<1> QED BY TrafficHolds, <1>1, PTL

\* Installing, refreshing, rolling back and removing plans never removes a route
\* that another program added to a lane's table: such a route makes the helper
\* refuse before its first change.  (Routes of others appear between transitions.)
THEOREM OthersRoutesStay == Spec => ForeignKept
<1> DEFINE Legal == {r \in kern.routes : r.via = "alien"} \subseteq kern'.routes
<1>1. TrafficInv /\ [Next]_vars => [Legal]_vars
  BY AloneKept DEF TrafficInv
<1>2. ForeignKept <=> [][Legal]_vars
  BY DEF ForeignKept
<1> HIDE DEF Legal
<1> QED BY TrafficHolds, <1>1, <1>2, PTL DEF Spec
=============================================================================
