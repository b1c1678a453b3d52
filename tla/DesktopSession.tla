---------------------------- MODULE DesktopSession ----------------------------
(***************************************************************************)
(* The desktop application: the window and its controller (ui/window.rs,     *)
(* ui/controller.rs), the session that decides what may be asked and what an *)
(* answer means (ui/session.rs), and the bridge thread (main.rs) that speaks *)
(* to the daemon over its socket (ipc/), one request at a time.              *)
(*                                                                         *)
(* The daemon is what DaemonService promises: mutations in the order they    *)
(* reach its lock, each with an event; other clients and the helper change   *)
(* it at any time.  There is one profile id: Profiles are its contents.      *)
(***************************************************************************)
EXTENDS Naturals, Sequences

CONSTANTS
    Bases,          \* contents of the profile but for one rule's switch
    Others,         \* what other clients and the helper do to the daemon
    Faults,         \* the failures that may happen
    None,
    MaxUser,        \* bound on what the user does
    MaxOther,       \* bound on what the others do
    MaxFaults       \* bound on failures

AllOthers ==
    {"apply",       \* routelanectl applies a profile
     "fail",        \* routelanectl applies one that fails once it was saved
     "deactivate",  \* routelanectl deactivates
     "refresh",     \* the helper commits another exit
     "orphan"}      \* resources without a plan are found
AllFaults ==
    {"timeout",     \* a request takes longer than its timeout
     "restart",     \* the daemon is restarted
     "lag",         \* the subscription misses the oldest events
     "save",        \* the configuration cannot be written
     "refused"}     \* the daemon answers with an error

ASSUME DesktopAssumption ==
    /\ None \notin Bases
    /\ Others \subseteq AllOthers /\ Faults \subseteq AllFaults
    /\ {MaxUser, MaxOther, MaxFaults} \subseteq Nat

VARIABLES
    d,          \* the daemon: event sequence, generation, profiles, leftovers
    late,       \* mutations that timed out and still wait for the daemon's lock
    feed,       \* events on the subscription's stream
    bridge,     \* daemon_bridge
    toBridge,   \* UiToDaemon
    toUi,       \* DaemonToUi
    s,          \* UiSession
    c,          \* UiController and the window's profile
    used        \* bounds

vars == <<d, late, feed, bridge, toBridge, toUi, s, c, used>>

-----------------------------------------------------------------------------
(* State *)

\* A profile with a rule that is switched on or off.
Profiles == [base: Bases, on: BOOLEAN]

\* DaemonState::status
StatusOf(x) == [seq |-> x.seq, gen |-> x.gen, on |-> x.app # None]

\* SetRuleEnabled carries the rule and its switch, not the profile.
Switched(p, on) == [p EXCEPT !.on = on]

\* UiSession::new
NewSession(p) ==
    [epoch |-> 0, known |-> FALSE, status |-> None, rev |-> None, saved |-> p,
     applied |-> None, writable |-> TRUE, pending |-> None, err |-> None, clean |-> TRUE]
\* UiController::new
NewController(p) ==
    [profile |-> p, recovery |-> None, used |-> FALSE, started |-> FALSE, retry |-> FALSE,
     id |-> 0, gone |-> FALSE]

Pending(kind, stage, id, cand, follow) ==
    [kind |-> kind, stage |-> stage, id |-> id, cand |-> cand, follow |-> follow, exp |-> None]
\* DaemonToUi
Message(kind, epoch) ==
    [kind |-> kind, epoch |-> epoch, id |-> None, result |-> None, err |-> None, gen |-> None,
     status |-> None, profile |-> None]
\* UiToDaemon
Refresh == [op |-> "refresh", id |-> None, prof |-> None]

Statuses == [seq: Nat, gen: Nat, on: BOOLEAN]
Daemons ==
    [seq: Nat, gen: Nat, app: Profiles \cup {None}, desired: Profiles \cup {None}, orphan: BOOLEAN]
Asked == {"apply", "toggle", "deactivate", "launch", "recover"}
Mutations ==
    {r \in [op: Asked, id: Nat, prof: Profiles \cup {None}] :
        r.op \in {"apply", "toggle"} => r.prof \in Profiles}
Requests == Mutations \cup {Refresh}
Bridges ==
    [pc: {"idle", "request", "status", "profiles"}, epoch: Nat, sub: BOOLEAN, min: Nat,
     req: Mutations \cup {None}, status: Statuses \cup {None}, connecting: BOOLEAN, lost: BOOLEAN]
Errors == {"orphan", "other", "ipc"}
Results == {"applied", "deactivated", "recovered", "launched"}
Messages ==
    [kind: {"established", "snapshot", "response", "event", "unavailable"}, epoch: Nat,
     id: Nat \cup {None}, result: Results \cup {None}, err: Errors \cup {None},
     gen: Nat \cup {None}, status: Statuses \cup {None}, profile: Profiles \cup {None}]
Revisions == [seq: Nat, gen: Nat]
Applications == [gen: Nat, prof: Profiles]
Pendings ==
    [kind: Asked \cup {"save"}, stage: {"saving", "reply", "snapshot"}, id: Nat \cup {None},
     cand: Profiles \cup {None}, follow: {"none", "quit", "apply", "toggle"}, exp: Nat \cup {None}]
Sessions ==
    [epoch: Nat, known: BOOLEAN, status: Statuses \cup {None}, rev: Revisions \cup {None},
     saved: Profiles, applied: Applications \cup {None}, writable: BOOLEAN,
     pending: Pendings \cup {None}, err: Errors \cup {None}, clean: BOOLEAN]
Controllers ==
    [profile: Profiles, recovery: Profiles \cup {None}, used: BOOLEAN, started: BOOLEAN,
     retry: BOOLEAN, id: Nat, gone: BOOLEAN]

\* None is none of the values it stands in for.
ASSUME NoneAssumption ==
    None \notin Nat \cup Profiles \cup Statuses \cup Mutations \cup Errors \cup Results
               \cup Revisions \cup Applications \cup Pendings

Init ==
    \E p \in [base: Bases, on: {TRUE}], orphan \in BOOLEAN :
        /\ d = [seq |-> 0, gen |-> 0, app |-> None, desired |-> None, orphan |-> orphan]
        /\ late = <<>> /\ feed = <<>> /\ toBridge = <<>> /\ toUi = <<>>
        /\ bridge = [pc |-> "idle", epoch |-> 0, sub |-> FALSE, min |-> 0, req |-> None,
                     status |-> None, connecting |-> FALSE, lost |-> FALSE]
        /\ s = NewSession(p) /\ c = NewController(p)
        /\ used = [user |-> 0, other |-> 0, faults |-> 0]

Fault(kind) ==
    /\ kind \in Faults /\ used.faults < MaxFaults
    /\ used' = [used EXCEPT !.faults = @ + 1]

-----------------------------------------------------------------------------
(* UiSession *)

\* An answer of the daemon is one step here, so that no status has the health
\* Applying, which would keep the window busy as well.
Busy(u) == u.pending # None
In(u, stage) == u.pending # None /\ u.pending.stage = stage

\* needs_reapply.  The faulty variant takes the saved profile for the applied.
NeedsReapplySaved(u, p) == ~u.known \/ ~u.status.on \/ u.saved # p
NeedsReapply(u, p) ==
    \/ ~u.known \/ u.applied = None
    \/ ~u.status.on \/ u.status.gen # u.applied.gen
    \/ u.applied.prof # p \/ u.saved # p

\* begin_request: whether the request may be made, and the session with it.
MayRequest(u, op, p) ==
    /\ ~Busy(u)
    /\ u.known \/ (op = "recover" /\ u.err = "orphan")
    /\ op = "deactivate" => u.status # None /\ u.status.on
    /\ op = "launch" => ~NeedsReapply(u, p)
    /\ op = "recover" => u.err = "orphan"
    /\ op \in {"apply", "toggle"} => u.writable
Requested(u, op, p, id) ==
    [u EXCEPT !.pending = Pending(op, "reply", id, p, "none"), !.err = None,
              !.clean = @ /\ op \notin {"apply", "toggle"}]

\* accept_status: the sequence orders the states of one connection.
Accepts(u, st) ==
    u.rev = None \/ ~(st.seq < u.rev.seq \/ (st.seq = u.rev.seq /\ st.gen < u.rev.gen))
Accepted(u, st) ==
    IF Accepts(u, st) THEN [u EXCEPT !.rev = [seq |-> st.seq, gen |-> st.gen], !.status = st]
    ELSE u

\* A lost connection ends every operation but a save.  The faulty variant
\* keeps waiting for the answer.
AbandonsNothing(u) == u
Abandoned(u) ==
    IF u.pending # None /\ u.pending.stage # "saving"
    THEN [u EXCEPT !.pending = None, !.clean = FALSE] ELSE u

\* A new connection: nothing is known of the daemon.
Established(u, m) ==
    IF m.epoch <= u.epoch THEN u
    ELSE Abandoned([u EXCEPT !.epoch = m.epoch, !.known = FALSE, !.rev = None, !.applied = None])

\* A snapshot ends the operation that waits for it; it does not confirm an
\* application whose generation the daemon has left.
Snapshot(u, m) ==
    IF \/ In(u, "snapshot") /\ m.status.gen < u.pending.exp
       \/ ~Accepts(u, m.status)
    THEN u
    ELSE LET v == [Accepted(u, m.status) EXCEPT !.known = TRUE]
             kept == v.applied # None /\ v.applied.gen = m.status.gen /\ m.status.on
             done == m.status.gen = u.pending.exp /\ m.status.on
         IN  [v EXCEPT !.applied = IF kept /\ (In(u, "snapshot") => done) THEN @ ELSE None,
                       !.pending = IF In(u, "snapshot") THEN None ELSE @]

\* An event of the daemon; the snapshot is refreshed after it.
Event(u, m) ==
    IF u.status = None THEN u
    ELSE Accepted(u, [u.status EXCEPT !.seq = m.status.seq, !.gen = m.status.gen])

Unavailable(u, m) ==
    IF m.id # None /\ u.pending # None /\ u.pending.id # m.id THEN u
    ELSE Abandoned([u EXCEPT !.known = FALSE, !.applied = None, !.err = m.err])

Answers(u, m) == In(u, "reply") /\ m.epoch = u.epoch /\ u.pending.id = m.id
\* handle_response: the answer to the pending request.
Response(u, m) ==
    LET v == [u EXCEPT !.pending = None]
    IN  CASE ~Answers(u, m) -> u
          [] Answers(u, m) /\ m.err # None ->
                [v EXCEPT !.err = m.err, !.applied = None, !.known = FALSE, !.clean = FALSE]
          [] Answers(u, m) /\ m.result = "applied" ->
                [u EXCEPT !.applied = [gen |-> m.gen, prof |-> u.pending.cand],
                          !.pending.stage = "snapshot", !.pending.exp = m.gen]
          [] Answers(u, m) /\ m.result = "deactivated" ->
                [v EXCEPT !.status.on = FALSE, !.applied = None, !.clean = FALSE]
          [] Answers(u, m) /\ m.result = "launched" -> v
          [] Answers(u, m) /\ m.result = "recovered" ->
                [v EXCEPT !.known = FALSE, !.applied = None]

\* handle_daemon: messages of another connection are ignored.
Handled(u, m) ==
    CASE m.kind = "established" -> Established(u, m)
      [] m.epoch = u.epoch /\ m.kind = "snapshot" -> Snapshot(u, m)
      [] m.epoch = u.epoch /\ m.kind = "response" -> Response(u, m)
      [] m.epoch = u.epoch /\ m.kind = "event" -> Event(u, m)
      [] m.epoch = u.epoch /\ m.kind = "unavailable" -> Unavailable(u, m)
      [] OTHER -> u
\* Whether handle_daemon asks for a new snapshot.
AsksRefresh(u, m) ==
    /\ m.epoch = u.epoch
    /\ m.kind = "event" \/ (m.kind = "response" /\ Answers(u, m) /\ m.result # "launched")

-----------------------------------------------------------------------------
(* What the user does *)

User == used.user < MaxUser /\ ~c.gone
Counted == used' = [used EXCEPT !.user = @ + 1]
\* A new application cycle: the one retry after a recovery is available again.
NewCycle(x) == [x EXCEPT !.used = FALSE, !.started = FALSE, !.recovery = None]

\* begin_save: when a save may begin, and the session that waits for its end;
\* only what asks the daemon afterwards needs to know it.
MaySave(u, follow) == ~Busy(u) /\ u.writable /\ (follow \in {"apply", "toggle"} => u.known)
BeginsSave(u, p, follow) ==
    [u EXCEPT !.pending = Pending("save", "saving", None, p, follow), !.err = None,
              !.clean = FALSE]

\* controller.save
Save(p, follow) ==
    /\ MaySave(s, follow)
    /\ s' = BeginsSave(s, p, follow)
    /\ c' = [IF follow = "apply" THEN NewCycle(c) ELSE c EXCEPT !.profile = p]
    /\ Counted
    /\ UNCHANGED <<d, late, feed, bridge, toBridge, toUi>>

\* save_profile: an edit, applied at once where the profile is active.
Edit(p) ==
    LET active == s.status # None /\ s.status.on
        aligned == ~NeedsReapply(s, c.profile)
    IN  /\ User /\ s.known
        /\ Save(p, IF ~active THEN "none"
                   ELSE IF p = Switched(c.profile, ~c.profile.on) /\ aligned THEN "toggle" ELSE "apply")
\* apply_now: enable routing, or reapply.
Enable == User /\ Save(c.profile, "apply")
\* open_settings: another language needs a restart.
ChangeLanguage == User /\ Save(c.profile, "quit")

\* controller.request of the buttons: deactivate, launch or adopt.
Ask(op) ==
    LET p == IF op = "launch" THEN c.profile ELSE None
    IN  /\ User /\ Counted /\ MayRequest(s, op, p)
        /\ s' = Requested(s, op, p, c.id)
        /\ c' = [c EXCEPT !.id = @ + 1]
        /\ toBridge' = Append(toBridge, [op |-> op, id |-> c.id, prof |-> p])
        /\ UNCHANGED <<d, late, feed, bridge, toUi>>

\* refresh
RefreshStatus ==
    /\ User /\ Counted
    /\ toBridge' = Append(toBridge, Refresh)
    /\ UNCHANGED <<d, late, feed, bridge, toUi, s, c>>

\* confirm_recovery; the dialog is shown while a recovery is available.
RecoveryAvailable == c.recovery # None /\ ~c.started /\ ~c.used /\ ~c.retry
ConfirmRecovery ==
    /\ ~c.gone /\ RecoveryAvailable
    /\ IF MayRequest(s, "recover", None)
       THEN /\ s' = Requested(s, "recover", None, c.id)
            /\ c' = [c EXCEPT !.started = TRUE, !.id = @ + 1]
            /\ toBridge' = Append(toBridge, [op |-> "recover", id |-> c.id, prof |-> None])
       ELSE UNCHANGED <<s, c, toBridge>>
    /\ UNCHANGED <<d, late, feed, bridge, toUi, used>>
CancelRecovery ==
    /\ ~c.gone /\ RecoveryAvailable
    /\ c' = [c EXCEPT !.recovery = None, !.started = FALSE, !.retry = FALSE]
    /\ UNCHANGED <<d, late, feed, bridge, toBridge, toUi, s, used>>

-----------------------------------------------------------------------------
(* Messages to the session *)

\* PersistenceWorker: the write ends; handle_persistence goes on with what
\* was to follow the save.
Saved ==
    LET p == s.pending.cand
        op == s.pending.follow
        done == [s EXCEPT !.pending = None, !.saved = p]
    IN  /\ In(s, "saving")
        /\ \/ /\ Fault("save")
              /\ s' = [s EXCEPT !.pending = None, !.writable = FALSE]
              /\ UNCHANGED <<c, toBridge>>
           \/ /\ UNCHANGED used
              /\ \/ /\ op \in {"none", "quit"}
                    /\ s' = done /\ c' = [c EXCEPT !.gone = op = "quit"]
                    /\ UNCHANGED toBridge
                 \/ /\ op \in {"apply", "toggle"} /\ MayRequest(done, op, p)
                    /\ s' = Requested(done, op, p, c.id)
                    /\ c' = [c EXCEPT !.id = @ + 1]
                    /\ toBridge' = Append(toBridge, [op |-> op, id |-> c.id, prof |-> p])
                 \/ \* the connection was lost while the file was written
                    /\ op \in {"apply", "toggle"} /\ ~MayRequest(done, op, p)
                    /\ s' = done /\ toBridge' = Append(toBridge, Refresh)
                    /\ UNCHANGED c
        /\ UNCHANGED <<d, late, feed, bridge, toUi>>

\* The controller's own notes of a message: what may be recovered and retried.
Notes(x, u, m) ==
    LET mine == m.kind = "response" /\ Answers(u, m)
    IN  [x EXCEPT !.recovery = IF mine /\ m.err = "orphan" /\ u.pending.kind = "apply" /\ ~x.used
                               THEN u.pending.cand ELSE @,
                  !.retry = @ \/ (mine /\ m.result = "recovered")]

\* controller.receive, window.receive
Receive ==
    LET m == Head(toUi)
        u == Handled(s, m)
        x == Notes(c, s, m)
        asks == IF AsksRefresh(s, m) THEN <<Refresh>> ELSE <<>>
        ready == m.kind = "snapshot" /\ x.retry /\ u.known /\ ~Busy(u)
        shown == [x EXCEPT !.profile = IF m.kind = "snapshot" /\ u.known /\ u.clean /\ ~Busy(u)
                                          /\ m.profile # None
                                       THEN m.profile ELSE @]
        spent == [shown EXCEPT !.retry = FALSE, !.used = TRUE, !.recovery = None]
    IN  /\ toUi # <<>> /\ ~c.gone
        /\ toUi' = Tail(toUi)
        /\ \/ /\ ~ready
              /\ s' = u /\ c' = shown /\ toBridge' = toBridge \o asks
           \/ \* the recovered application is submitted again, once
              /\ ready /\ x.recovery # None /\ MayRequest(u, "apply", x.recovery)
              /\ s' = Requested(u, "apply", x.recovery, c.id)
              /\ c' = [spent EXCEPT !.id = @ + 1]
              /\ toBridge' = Append(toBridge, [op |-> "apply", id |-> c.id, prof |-> x.recovery])
           \/ /\ ready /\ (x.recovery = None \/ ~MayRequest(u, "apply", x.recovery))
              /\ s' = u /\ c' = spent
              /\ UNCHANGED toBridge
        /\ UNCHANGED <<d, late, feed, bridge, used>>

-----------------------------------------------------------------------------
(* The daemon *)

\* What a mutation makes of the daemon, and its answer.
Mutated(x, op, p) ==
    LET content == IF op = "toggle" THEN Switched(x.desired, p.on) ELSE p
    IN  CASE op \in {"apply", "toggle"} ->
                [x EXCEPT !.seq = @ + 1, !.gen = @ + 1, !.app = content, !.desired = content]
          [] op = "fail" -> [x EXCEPT !.seq = @ + 1, !.desired = p]
          [] op = "refresh" -> [x EXCEPT !.seq = @ + 1, !.gen = @ + 1]
          [] op = "deactivate" -> [x EXCEPT !.seq = @ + 1, !.gen = 0, !.app = None]
          [] op = "recover" -> [x EXCEPT !.orphan = FALSE]
          [] op = "orphan" -> [x EXCEPT !.orphan = TRUE]
          [] op = "launch" -> x
Refuses(x, op) ==
    \/ x.orphan /\ op \in {"apply", "toggle", "deactivate", "launch"}
    \/ ~x.orphan /\ op = "recover"
    \/ x.desired = None /\ op = "toggle"
    \/ x.app = None /\ op \in {"refresh", "launch"}
    \/ x.app # None /\ op = "orphan"
Result(op) ==
    CASE op \in {"apply", "toggle"} -> "applied" [] op = "deactivate" -> "deactivated"
      [] op = "recover" -> "recovered" [] op = "launch" -> "launched"

\* The stream carries events while somebody listens.
Listening == bridge.sub \/ bridge.connecting
Announced(x) == IF Listening /\ ~bridge.lost /\ x.seq > d.seq THEN Append(feed, StatusOf(x)) ELSE feed

Says(m) == toUi' = Append(toUi, m)
\* The bridge drops its subscription and tells the window.
Disconnected(id) ==
    /\ Says([Message("unavailable", bridge.epoch) EXCEPT !.id = id, !.err = "ipc"])
    /\ bridge' = [bridge EXCEPT !.pc = "idle", !.req = None, !.status = None, !.sub = FALSE,
                                !.connecting = FALSE, !.lost = FALSE]
    /\ feed' = <<>>

\* Another client, or the helper.
Other(op, p) ==
    /\ op \in Others /\ used.other < MaxOther /\ ~Refuses(d, op)
    /\ d' = Mutated(d, op, p) /\ feed' = Announced(d')
    /\ used' = [used EXCEPT !.other = @ + 1]
    /\ UNCHANGED <<late, bridge, toBridge, toUi, s, c>>

\* A mutation nobody waits for any more gets the lock.
LateRuns ==
    /\ late # <<>>
    /\ late' = Tail(late)
    /\ d' = IF Refuses(d, Head(late).op) THEN d ELSE Mutated(d, Head(late).op, Head(late).prof)
    /\ feed' = Announced(d')
    /\ UNCHANGED <<bridge, toBridge, toUi, s, c, used>>

\* The daemon starts again and finds the helper's plan; its streams end.
DaemonRestarts ==
    /\ Fault("restart")
    /\ d' = [d EXCEPT !.seq = 0]
    /\ late' = <<>> /\ feed' = <<>>
    /\ \/ /\ bridge.pc = "idle"
          /\ bridge' = [bridge EXCEPT !.lost = Listening] /\ UNCHANGED toUi
       \/ /\ bridge.pc # "idle"
          /\ Disconnected(IF bridge.req = None THEN None ELSE bridge.req.id)
    /\ UNCHANGED <<toBridge, s, c>>

\* RecvError::Lagged: the oldest events are gone, the newest is not.
Lagged ==
    /\ Fault("lag") /\ Len(feed) > 1
    /\ feed' = Tail(feed)
    /\ UNCHANGED <<d, late, bridge, toBridge, toUi, s, c>>

-----------------------------------------------------------------------------
(* daemon_bridge *)

\* The next command of the window.
TakeCommand ==
    /\ bridge.pc = "idle" /\ toBridge # <<>>
    /\ toBridge' = Tail(toBridge)
    /\ bridge' = IF Head(toBridge).op = "refresh" THEN [bridge EXCEPT !.pc = "status"]
                 ELSE [bridge EXCEPT !.pc = "request", !.req = Head(toBridge)]
    /\ UNCHANGED <<d, late, feed, toUi, s, c, used>>

\* deliver_request: the daemon's answer is forwarded.
Deliver ==
    LET r == bridge.req
        answer == [Message("response", bridge.epoch) EXCEPT !.id = r.id]
    IN  /\ bridge.pc = "request" /\ late = <<>>
        /\ bridge' = [bridge EXCEPT !.pc = "idle", !.req = None]
        /\ \/ /\ ~Refuses(d, r.op)
              /\ d' = Mutated(d, r.op, r.prof)
              /\ Says([answer EXCEPT !.result = Result(r.op), !.gen = d'.gen])
              /\ UNCHANGED used
           \/ /\ Refuses(d, r.op)
              /\ Says([answer EXCEPT !.err = IF d.orphan THEN "orphan" ELSE "other"])
              /\ UNCHANGED <<d, used>>
           \/ /\ Fault("refused") /\ ~Refuses(d, r.op)
              /\ d' = IF r.op \in {"apply", "toggle", "deactivate"}
                       THEN [d EXCEPT !.seq = @ + 1,
                                      !.desired = CASE r.op = "apply" -> r.prof
                                                    [] r.op = "toggle" -> Switched(@, r.prof.on)
                                                    [] OTHER -> @]
                       ELSE d
              /\ Says([answer EXCEPT !.err = "other"])
        /\ feed' = Announced(d')
        /\ UNCHANGED <<late, toBridge, s, c>>

\* The timeout of a mutation; the daemon goes on with it.
TimesOut ==
    /\ bridge.pc = "request" /\ Fault("timeout")
    /\ late' = Append(late, bridge.req)
    /\ Disconnected(bridge.req.id)
    /\ UNCHANGED <<d, toBridge, s, c>>

\* refresh_daemon_state: the status, then the profiles, then the snapshot.
ReadStatus ==
    /\ bridge.pc = "status"
    /\ bridge' = [bridge EXCEPT !.pc = "profiles", !.status = StatusOf(d)]
    /\ UNCHANGED <<d, late, feed, toBridge, toUi, s, c, used>>
ReadProfiles ==
    /\ bridge.pc = "profiles"
    /\ Says([Message("snapshot", bridge.epoch) EXCEPT !.status = bridge.status,
                                                      !.profile = d.desired])
    /\ bridge' = [bridge EXCEPT !.pc = "idle", !.status = None, !.connecting = FALSE,
                                !.sub = @ \/ bridge.connecting,
                                !.min = IF bridge.connecting THEN bridge.status.seq ELSE @]
    /\ UNCHANGED <<d, late, feed, toBridge, s, c, used>>
ReadFails ==
    /\ bridge.pc \in {"status", "profiles"} /\ Fault("timeout")
    /\ Disconnected(None)
    /\ UNCHANGED <<d, late, toBridge, s, c>>

\* establish_subscription_and_refresh, once the delay is over.
Connect ==
    /\ bridge.pc = "idle" /\ ~bridge.sub
    /\ bridge' = [bridge EXCEPT !.pc = "status", !.epoch = @ + 1, !.connecting = TRUE,
                                !.lost = FALSE]
    /\ feed' = <<>>
    /\ Says(Message("established", bridge.epoch + 1))
    /\ UNCHANGED <<d, late, toBridge, s, c, used>>

\* EventSubscription::recv: events older than the snapshot are dropped.  The
\* faulty variant drops whatever came while the bridge was busy.
ForwardEventLate ==
    /\ bridge.pc = "idle" /\ bridge.sub /\ feed # <<>>
    /\ feed' = <<>>
    /\ UNCHANGED <<d, late, bridge, toBridge, toUi, s, c, used>>
ForwardEvent ==
    /\ bridge.pc = "idle" /\ bridge.sub /\ feed # <<>>
    /\ feed' = Tail(feed)
    /\ \/ /\ Head(feed).seq > bridge.min
          /\ bridge' = [bridge EXCEPT !.min = Head(feed).seq]
          /\ Says([Message("event", bridge.epoch) EXCEPT !.status = Head(feed)])
       \/ /\ Head(feed).seq <= bridge.min
          /\ UNCHANGED <<bridge, toUi>>
    /\ UNCHANGED <<d, late, toBridge, s, c, used>>

\* The stream ended.
StreamEnds ==
    /\ bridge.pc = "idle" /\ bridge.sub /\ bridge.lost /\ feed = <<>>
    /\ Disconnected(None)
    /\ UNCHANGED <<d, late, toBridge, s, c, used>>

-----------------------------------------------------------------------------
UserActs ==
    \/ \E p \in Profiles : Edit(p)
    \/ Enable \/ ChangeLanguage
    \/ \E op \in {"deactivate", "launch"} : Ask(op)
    \/ RefreshStatus \/ ConfirmRecovery \/ CancelRecovery
BridgeActs ==
    \/ TakeCommand \/ Deliver \/ ReadStatus \/ ReadProfiles \/ Connect \/ ForwardEvent
    \/ StreamEnds
Next ==
    \/ UserActs \/ Saved \/ Receive \/ BridgeActs
    \/ TimesOut \/ ReadFails \/ LateRuns \/ DaemonRestarts \/ Lagged
    \/ \E op \in Others, p \in Profiles : Other(op, p)

Spec == Init /\ [][Next]_vars

\* The threads run: the window's main loop, the writer, the bridge (every wait
\* of it has a timeout) and the daemon's own tasks.
FairSpec == Spec /\ WF_vars(Saved) /\ WF_vars(Receive) /\ WF_vars(BridgeActs) /\ WF_vars(LateRuns)

-----------------------------------------------------------------------------
(* Properties *)

\* Everything has its type.
DesktopTypeOK ==
    /\ d \in Daemons
    /\ late \in Seq(Mutations) /\ feed \in Seq(Statuses)
    /\ bridge \in Bridges
    /\ toBridge \in Seq(Requests) /\ toUi \in Seq(Messages)
    /\ s \in Sessions /\ c \in Controllers
    /\ used \in [user: Nat, other: Nat, faults: Nat]

\* Nothing is on its way between the window and the daemon.
Settled ==
    /\ toUi = <<>> /\ toBridge = <<>> /\ feed = <<>> /\ late = <<>>
    /\ bridge.pc = "idle" /\ bridge.sub /\ ~bridge.lost

\* What the window offers to launch into is what is applied ("Launch/adopt
\* requires that snapshot to match the current saved profile and the latest
\* confirmed generation", docs/superpowers/plans/2026-10-13-practical-ui-ux.md):
\* once everything is delivered, a profile that needs no reapplication is the
\* daemon's, while all clients agree on the profile but for the switch
\* (SetRuleEnabled names the rule, not the contents it is switched in).
AppliedIsApplied ==
    Settled /\ ~NeedsReapply(s, c.profile) => d.app = c.profile

\* The window follows the daemon: once everything is delivered, it shows the
\* daemon's generation and whether routing is on, and is not stuck.
SettledShowsDaemon ==
    Settled => s.known /\ s.status = StatusOf(d) /\ (In(s, "saving") \/ ~Busy(s))

\* Every operation ends, whatever is lost on the way.
OperationEnds == Busy(s) ~> (~Busy(s) \/ c.gone)

=============================================================================
