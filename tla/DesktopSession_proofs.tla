----------------------- MODULE DesktopSession_proofs -----------------------
(***************************************************************************)
(* Once everything is delivered the window shows what the daemon holds, and   *)
(* what it takes for applied is applied, for any number of requests, of       *)
(* failures and of steps of other clients, as long as those do not deactivate.*)
(*                                                                         *)
(* The window's side of the invariant is said of a session u, the next        *)
(* request id n, the commands and the messages on their way, since a message  *)
(* may be handled and answered by another request in one step.                *)
(***************************************************************************)
EXTENDS DesktopSession, SequencesExt, TLAPS

-----------------------------------------------------------------------------
(* The invariant *)

OneBase == \A a, b \in Bases : a = b

IsAsked(r) == r.op # "refresh"
NothingAsked(asks) == bridge.req = None /\ \A r \in ToSet(asks) : ~IsAsked(r)

\* The bridge has a connection, and the stream of it has not ended.
Linked == Listening /\ ~bridge.lost
Hears(u) == Linked /\ u.epoch = bridge.epoch
Current(m) == m.epoch = bridge.epoch
\* A status the daemon had, and whether it still has it.
Past(st) == st.seq < d.seq \/ st = StatusOf(d)

BridgeShape ==
    /\ bridge.connecting => bridge.pc \in {"status", "profiles"} /\ ~bridge.sub
    /\ (bridge.pc = "request") <=> (bridge.req # None)
    /\ bridge.pc = "profiles" => bridge.status # None
    /\ bridge.lost => bridge.sub

\* What is on the stream, or was read, is past; the last event is of now.
FeedInv ==
    Linked =>
      /\ feed # <<>> => feed[Len(feed)] = StatusOf(d)
      /\ \A st \in ToSet(feed) : Past(st)
      /\ bridge.pc = "profiles" => Past(bridge.status)
      /\ ~bridge.connecting => bridge.min <= d.seq

SessionShape(u) ==
    /\ u.known => u.status # None /\ u.rev # None
    /\ u.rev # None => u.status # None /\ u.status.seq = u.rev.seq /\ u.status.gen = u.rev.gen
    /\ In(u, "saving") => u.pending.cand # None
    /\ In(u, "snapshot") => u.pending.exp # None
    /\ In(u, "reply") /\ u.pending.kind = "deactivate" => u.status # None

MessageShape(m) ==
    /\ m.kind \in {"snapshot", "event"} => m.status # None
    /\ m.kind = "response" => m.id # None /\ (m.err = None <=> m.result # None)
    /\ m.result = "applied" => m.gen # None

\* A connection is announced before anything is said over it.
Introduced(u, msgs) ==
    /\ u.epoch <= bridge.epoch
    /\ \A m \in ToSet(msgs) : m.epoch <= bridge.epoch
    /\ u.epoch < bridge.epoch =>
         \E k \in DOMAIN msgs :
            /\ msgs[k].kind = "established" /\ Current(msgs[k])
            /\ \A j \in 1..(k - 1) : ~Current(msgs[j])

\* Requests are carried out and answered in the order they were made in.
Increasing(asks) ==
    \A i, j \in DOMAIN asks :
        (i < j /\ IsAsked(asks[i]) /\ IsAsked(asks[j])) => asks[i].id < asks[j].id
Answered(m, n, asks) ==
    m.kind = "response" =>
      /\ m.id < n
      /\ bridge.req # None => m.id < bridge.req.id
      /\ \A r \in ToSet(asks) : IsAsked(r) => m.id < r.id
      /\ m.id + 1 = n => late = <<>>
InTurn(msgs) ==
    \A i, j \in DOMAIN msgs :
        (i < j /\ msgs[i].kind = "response" /\ msgs[j].kind = "response") => msgs[i].id < msgs[j].id
Ordered(u, n, asks, msgs) ==
    /\ Increasing(asks)
    /\ InTurn(msgs)
    /\ \A r \in ToSet(asks) :
         IsAsked(r) => r.id < n /\ (bridge.req # None => bridge.req.id < r.id)
    /\ bridge.req # None => bridge.req.id < n
    /\ \A m \in ToSet(msgs) : Answered(m, n, asks)
    /\ In(u, "reply") \/ In(u, "snapshot") => u.pending.id + 1 = n

\* What the window was told over this connection is past.
Told(msgs) ==
    Linked => \A m \in ToSet(msgs) :
      Current(m) => /\ m.kind # "unavailable"
                    /\ m.kind \in {"snapshot", "event"} => Past(m.status)
Knows(u) ==
    Hears(u) /\ u.rev # None =>
      u.rev.seq < d.seq \/ (u.rev.seq = d.seq /\ u.rev.gen = d.gen)

\* Who has not seen the daemon as it is will be shown it: by a snapshot, or by
\* a message after which the window asks for one.
UpToDate(u) ==
    u.epoch = bridge.epoch /\ u.known /\ u.status = StatusOf(d) /\ ~In(u, "snapshot")
Announces(m, u) ==
    /\ Current(m)
    /\ \/ m.kind = "snapshot" /\ m.status = StatusOf(d)
       \/ m.kind = "event"
       \/ m.kind = "response" /\ m.epoch = u.epoch /\ In(u, "reply") /\ m.id = u.pending.id
            /\ m.result # "launched"
Reads == bridge.pc = "status" \/ (bridge.pc = "profiles" /\ bridge.status = StatusOf(d))
Ahead ==
    /\ feed # <<>>
    /\ bridge.connecting /\ bridge.pc = "profiles" => d.seq > bridge.status.seq
    /\ ~bridge.connecting => d.seq > bridge.min
Coming(u, asks, msgs) ==
    Linked =>
      \/ UpToDate(u)
      \/ \E m \in ToSet(msgs) : Announces(m, u)
      \/ \E r \in ToSet(asks) : ~IsAsked(r)
      \/ Reads
      \/ Ahead

\* A request that is waited for is on its way, or its answer is.
AnswerTo(m, id) == m.kind = "response" /\ m.id = id
Waited(u, asks, msgs) ==
    Hears(u) /\ In(u, "reply") =>
      \/ \E r \in ToSet(asks) : IsAsked(r) /\ r.id = u.pending.id
      \/ bridge.req # None /\ bridge.req.id = u.pending.id
      \/ \E m \in ToSet(msgs) : Current(m) /\ AnswerTo(m, u.pending.id)

\* The daemon holds what was applied as a generation, or a later one.
Holds(gen, p) == d.app # None /\ gen <= d.gen /\ (OneBase /\ gen = d.gen => d.app = p)
Faithful(r, u) == r.id = u.pending.id => r.op = u.pending.kind /\ r.prof = u.pending.cand
Asking(u, asks, msgs) ==
    In(u, "reply") =>
      /\ \A r \in ToSet(asks) : IsAsked(r) => Faithful(r, u)
      /\ bridge.req # None => Faithful(bridge.req, u)
      /\ \A m \in ToSet(msgs) : AnswerTo(m, u.pending.id) =>
           /\ m.result = "applied" => u.pending.cand # None /\ Holds(m.gen, u.pending.cand)
           /\ m.result = "deactivated" => u.pending.kind = "deactivate"
Awaiting(u, asks) ==
    In(u, "snapshot") => NothingAsked(asks) /\ late = <<>> /\ u.pending.exp <= d.gen

\* What the window takes for applied is, or it is about to hear that it
\* deactivated it.
OnlyAsked(u, asks) ==
    /\ In(u, "reply")
    /\ \A r \in ToSet(asks) : IsAsked(r) => r.id = u.pending.id
    /\ bridge.req # None => bridge.req.id = u.pending.id
Doomed(u, msgs) ==
    /\ In(u, "reply")
    /\ \E m \in ToSet(msgs) : Current(m) /\ AnswerTo(m, u.pending.id)
    /\ \A m \in ToSet(msgs) : AnswerTo(m, u.pending.id) => m.result = "deactivated"
Believed(u, asks, msgs) ==
    Hears(u) /\ u.applied # None =>
      /\ late = <<>>
      /\ NothingAsked(asks) \/ OnlyAsked(u, asks)
      /\ Holds(u.applied.gen, u.applied.prof) \/ Doomed(u, msgs)

WindowInv(u, n, asks, msgs) ==
    /\ SessionShape(u)
    /\ \A m \in ToSet(msgs) : MessageShape(m)
    /\ Introduced(u, msgs)
    /\ Ordered(u, n, asks, msgs)
    /\ Told(msgs)
    /\ Knows(u)
    /\ Coming(u, asks, msgs)
    /\ Waited(u, asks, msgs)
    /\ Asking(u, asks, msgs)
    /\ Awaiting(u, asks)
    /\ Believed(u, asks, msgs)

DesktopInv ==
    /\ DesktopTypeOK
    /\ BridgeShape
    /\ FeedInv
    /\ WindowInv(s, c.id, toBridge, toUi)

-----------------------------------------------------------------------------
(* Sequences *)

\* What is in a sequence that grows at its end.
LEMMA Appended ==
    ASSUME NEW S, NEW q \in Seq(S), NEW x \in S
    PROVE  /\ Append(q, x) \in Seq(S)
           /\ ToSet(Append(q, x)) = ToSet(q) \cup {x}
           /\ Len(Append(q, x)) = Len(q) + 1 /\ Append(q, x) # <<>>
           /\ \A i \in 1..Len(q) : Append(q, x)[i] = q[i]
           /\ Append(q, x)[Len(q) + 1] = x
<1>1. /\ Append(q, x) \in Seq(S) /\ Len(Append(q, x)) = Len(q) + 1 /\ Append(q, x) # <<>>
      /\ \A i \in 1..Len(q) : Append(q, x)[i] = q[i]
      /\ Append(q, x)[Len(q) + 1] = x
  OBVIOUS
<1>2. DOMAIN q = 1..Len(q) /\ DOMAIN Append(q, x) = 1..(Len(q) + 1) /\ Len(q) \in Nat
  OBVIOUS
<1>3. ToSet(Append(q, x)) \subseteq ToSet(q) \cup {x}
  <2> SUFFICES ASSUME NEW i \in 1..(Len(q) + 1)
               PROVE  Append(q, x)[i] \in ToSet(q) \cup {x}
    BY <1>2 DEF ToSet
  <2>1. CASE i = Len(q) + 1
    BY <2>1, <1>1
  <2>2. CASE i \in 1..Len(q)
    BY <2>2, <1>1, <1>2 DEF ToSet
  <2> QED BY <2>1, <2>2, <1>2
<1>4. ToSet(q) \subseteq ToSet(Append(q, x))
  <2> SUFFICES ASSUME NEW i \in 1..Len(q)
               PROVE  q[i] \in ToSet(Append(q, x))
    BY <1>2 DEF ToSet
  <2>1. i \in 1..(Len(q) + 1) /\ q[i] = Append(q, x)[i]
    BY <1>1, <1>2
  <2> QED BY <2>1, <1>2 DEF ToSet
<1>5. x \in ToSet(Append(q, x))
  <2>1. Len(q) + 1 \in 1..(Len(q) + 1) /\ x = Append(q, x)[Len(q) + 1]
    BY <1>1, <1>2
  <2> QED BY <2>1, <1>2 DEF ToSet
<1> QED BY <1>1, <1>3, <1>4, <1>5

\* What is in a sequence whose head is taken.
LEMMA Taken ==
    ASSUME NEW S, NEW q \in Seq(S), q # <<>>
    PROVE  /\ Head(q) \in S /\ Tail(q) \in Seq(S) /\ Head(q) = q[1] /\ 1 \in DOMAIN q
           /\ ToSet(q) = {Head(q)} \cup ToSet(Tail(q))
           /\ Len(q) \in Nat \ {0} /\ Len(Tail(q)) = Len(q) - 1
           /\ \A i \in 1..(Len(q) - 1) : Tail(q)[i] = q[i + 1]
<1>1. /\ Head(q) \in S /\ Tail(q) \in Seq(S) /\ Head(q) = q[1]
      /\ Len(q) \in Nat \ {0} /\ Len(Tail(q)) = Len(q) - 1
      /\ \A i \in 1..(Len(q) - 1) : Tail(q)[i] = q[i + 1]
  OBVIOUS
<1>2. DOMAIN q = 1..Len(q) /\ DOMAIN Tail(q) = 1..(Len(q) - 1) /\ 1 \in DOMAIN q
  BY <1>1
<1>3. ToSet(q) \subseteq {Head(q)} \cup ToSet(Tail(q))
  <2> SUFFICES ASSUME NEW i \in 1..Len(q)
               PROVE  q[i] \in {Head(q)} \cup ToSet(Tail(q))
    BY <1>2 DEF ToSet
  <2>1. CASE i = 1
    BY <2>1, <1>1
  <2>2. CASE i # 1
    <3>1. i - 1 \in 1..(Len(q) - 1) /\ Tail(q)[i - 1] = q[i]
      BY <2>2, <1>1
    <3> QED BY <3>1, <1>2 DEF ToSet
  <2> QED BY <2>1, <2>2
<1>4. {Head(q)} \cup ToSet(Tail(q)) \subseteq ToSet(q)
  <2>1. Head(q) \in ToSet(q)
    BY <1>1, <1>2 DEF ToSet
  <2>2. ASSUME NEW i \in 1..(Len(q) - 1) PROVE Tail(q)[i] \in ToSet(q)
    <3>1. i + 1 \in 1..Len(q) /\ Tail(q)[i] = q[i + 1]
      BY <1>1
    <3> QED BY <3>1, <1>2 DEF ToSet
  <2> QED BY <2>1, <2>2, <1>2 DEF ToSet
<1> QED BY <1>1, <1>2, <1>3, <1>4

\* Members of a typed sequence have its type.
LEMMA Members ==
    ASSUME NEW S, NEW q \in Seq(S)
    PROVE  /\ \A x \in ToSet(q) : x \in S
           /\ DOMAIN q = 1..Len(q) /\ Len(q) \in Nat
           /\ \A i \in DOMAIN q : q[i] \in ToSet(q)
           /\ q = <<>> <=> ToSet(q) = {}
           /\ q = <<>> <=> Len(q) = 0
<1>1. DOMAIN q = 1..Len(q) /\ Len(q) \in Nat /\ \A i \in DOMAIN q : q[i] \in S
  OBVIOUS
<1>2. q = <<>> <=> Len(q) = 0
  OBVIOUS
<1>3. q # <<>> => q[1] \in ToSet(q)
  BY <1>1, <1>2 DEF ToSet
<1>4. q = <<>> => ToSet(q) = {}
  BY <1>1, <1>2 DEF ToSet
<1> QED BY <1>1, <1>2, <1>3, <1>4 DEF ToSet

-----------------------------------------------------------------------------
(* What the window does *)

\* What is on its way.
LEMMA CommandsTyped ==
    ASSUME NEW asks \in Seq(Requests)
    PROVE  \A r \in ToSet(asks) : IsAsked(r) => r \in Mutations
BY Members DEF Requests, Refresh, IsAsked

LEMMA MessagesTyped ==
    ASSUME NEW msgs \in Seq(Messages), \A m \in ToSet(msgs) : MessageShape(m)
    PROVE  \A m \in ToSet(msgs) :
             /\ m \in Messages
             /\ m.kind = "response" => m.id \in Nat /\ (m.err = None <=> m.result \in Results)
             /\ m.kind \in {"snapshot", "event"} => m.status \in Statuses
             /\ m.result = "applied" => m.gen \in Nat
<1>1. \A m \in ToSet(msgs) : m \in Messages
  BY Members
<1>2. None \notin Results
  BY NoneAssumption
<1>3. \A m \in ToSet(msgs) : m.result # None <=> m.result \in Results
  BY <1>1, <1>2 DEF Messages
<1>4. \A m \in ToSet(msgs) : m.kind = "response" => (m.err = None <=> m.result \in Results)
  BY <1>3 DEF MessageShape
<1>5. \A m \in ToSet(msgs) :
        /\ m.kind = "response" => m.id \in Nat
        /\ m.kind \in {"snapshot", "event"} => m.status \in Statuses
        /\ m.result = "applied" => m.gen \in Nat
  BY <1>1 DEF MessageShape, Messages
<1> QED BY <1>1, <1>4, <1>5

\* A window that asks for nothing, but perhaps for a snapshot, and learns
\* nothing.
LEMMA WindowStays ==
    ASSUME DesktopTypeOK, NEW u \in Sessions, NEW v \in Sessions, NEW n \in Nat,
           NEW asks \in Seq(Requests), NEW next \in {asks, Append(asks, Refresh)},
           NEW msgs \in Seq(Messages),
           WindowInv(u, n, asks, msgs), SessionShape(v),
           v.epoch = u.epoch, v.known = u.known, v.status = u.status, v.rev = u.rev,
           v.applied = u.applied,
           \/ v.pending = u.pending
           \/ /\ ~In(u, "reply") /\ ~In(u, "snapshot")
              /\ ~In(v, "reply") /\ ~In(v, "snapshot")
    PROVE  WindowInv(v, n, next, msgs)
<1>1. /\ \A r \in ToSet(next) : r \in ToSet(asks) \/ r = Refresh
      /\ \A r \in ToSet(asks) : r \in ToSet(next)
      /\ next \in Seq(Requests)
  <2>1. Refresh \in Requests
    BY DEF Requests
  <2>2. CASE next = asks
    BY <2>2
  <2>3. CASE next = Append(asks, Refresh)
    BY <2>1, <2>3, Appended
  <2> QED BY <2>2, <2>3
<1>2. ~IsAsked(Refresh)
  BY DEF IsAsked, Refresh
<1>3. \A r \in ToSet(next) : IsAsked(r) => r \in ToSet(asks)
  BY <1>1, <1>2
<1>4. Increasing(next)
  <2>1. Increasing(asks)
    BY DEF WindowInv, Ordered
  <2>2. CASE next = Append(asks, Refresh)
    <3> SUFFICES ASSUME NEW i \in DOMAIN next, NEW j \in DOMAIN next, i < j,
                        IsAsked(next[i]), IsAsked(next[j])
                 PROVE  next[i].id < next[j].id
      BY DEF Increasing
    <3>1. Refresh \in Requests
      BY DEF Requests
    <3>2. /\ next \in Seq(Requests) /\ Len(next) = Len(asks) + 1 /\ next[Len(asks) + 1] = Refresh
          /\ \A k \in 1..Len(asks) : next[k] = asks[k]
      BY <2>2, <3>1, Appended
    <3>3. DOMAIN next = 1..(Len(asks) + 1) /\ DOMAIN asks = 1..Len(asks) /\ Len(asks) \in Nat
      BY <3>2, Members
    <3>4. i \in 1..Len(asks) /\ j \in 1..Len(asks)
      BY <1>2, <3>2, <3>3
    <3> QED BY <2>1, <3>2, <3>3, <3>4 DEF Increasing
  <2> QED BY <2>1, <2>2
<1>5. In(v, "reply") => In(u, "reply") /\ v.pending = u.pending
  BY DEF In
<1>6. In(v, "snapshot") <=> In(u, "snapshot")
  BY DEF In
<1>7. In(u, "reply") => In(v, "reply") /\ v.pending = u.pending
  BY DEF In
<1>8. In(u, "snapshot") => v.pending = u.pending
  BY DEF In
<1>9. Introduced(v, msgs)
  BY DEF WindowInv, Introduced
<1>10. Ordered(v, n, next, msgs)
  <2>1. \A m \in ToSet(msgs) : Answered(m, n, next)
    BY <1>3 DEF WindowInv, Ordered, Answered
  <2> QED BY <2>1, <1>3, <1>4, <1>5, <1>6, <1>8 DEF WindowInv, Ordered
<1>11. Knows(v)
  BY DEF WindowInv, Knows, Hears
<1>12. Coming(v, next, msgs)
  <2>1. UpToDate(u) => UpToDate(v)
    BY <1>6 DEF UpToDate
  <2>2. \A m \in ToSet(msgs) : Announces(m, u) => Announces(m, v)
    BY <1>7 DEF Announces
  <2> QED BY <2>1, <2>2, <1>1 DEF WindowInv, Coming
<1>13. Waited(v, next, msgs)
  BY <1>1, <1>5 DEF WindowInv, Waited, Hears
<1>14. Asking(v, next, msgs)
  BY <1>3, <1>5 DEF WindowInv, Asking, Faithful
<1>15. Awaiting(v, next)
  BY <1>3, <1>6, <1>8 DEF WindowInv, Awaiting, NothingAsked
<1>16. Believed(v, next, msgs)
  <2>1. NothingAsked(asks) => NothingAsked(next)
    BY <1>3 DEF NothingAsked
  <2>2. OnlyAsked(u, asks) => OnlyAsked(v, next)
    BY <1>3, <1>7 DEF OnlyAsked
  <2>3. Doomed(u, msgs) => Doomed(v, msgs)
    BY <1>7 DEF Doomed
  <2> QED BY <2>1, <2>2, <2>3 DEF WindowInv, Believed, Hears
<1> QED BY <1>9, <1>10, <1>11, <1>12, <1>13, <1>14, <1>15, <1>16 DEF WindowInv

\* The window makes a request.
LEMMA WindowAsks ==
    ASSUME DesktopTypeOK, BridgeShape, NEW u \in Sessions, NEW n \in Nat,
           NEW asks \in Seq(Requests), NEW msgs \in Seq(Messages),
           WindowInv(u, n, asks, msgs),
           NEW op \in Asked, NEW p \in Profiles \cup {None},
           op \in {"apply", "toggle"} => p \in Profiles, MayRequest(u, op, p)
    PROVE  LET r == [op |-> op, id |-> n, prof |-> p]
           IN  /\ Requested(u, op, p, n) \in Sessions
               /\ Append(asks, r) \in Seq(Requests)
               /\ WindowInv(Requested(u, op, p, n), n + 1, Append(asks, r), msgs)
<1> DEFINE r == [op |-> op, id |-> n, prof |-> p]
           v == Requested(u, op, p, n)
           next == Append(asks, r)
<1>1. r \in Mutations /\ r \in Requests
  BY DEF Mutations, Requests
<1>2. IsAsked(r) /\ r.id = n /\ r.op = op /\ r.prof = p
  BY DEF IsAsked, Asked
<1>3. Pending(op, "reply", n, p, "none") \in Pendings
  BY DEF Pending, Pendings, Asked
<1>4. /\ v \in Sessions
      /\ v.pending = Pending(op, "reply", n, p, "none")
      /\ v.epoch = u.epoch /\ v.known = u.known /\ v.status = u.status /\ v.rev = u.rev
      /\ v.applied = u.applied
  BY <1>3 DEF Requested, Sessions
<1>5. v.pending # None
  BY <1>3, <1>4, NoneAssumption
<1>6. /\ In(v, "reply") /\ ~In(v, "snapshot") /\ ~In(v, "saving")
      /\ v.pending.id = n /\ v.pending.cand = p /\ v.pending.kind = op
  BY <1>4, <1>5 DEF In, Pending
<1>7. ~In(u, "reply") /\ ~In(u, "snapshot") /\ ~In(u, "saving")
  BY DEF In, Busy, MayRequest
<1>8. /\ next \in Seq(Requests) /\ ToSet(next) = ToSet(asks) \cup {r}
      /\ Len(next) = Len(asks) + 1 /\ next[Len(asks) + 1] = r
      /\ \A k \in 1..Len(asks) : next[k] = asks[k]
  BY <1>1, Appended
<1>9. /\ DOMAIN next = 1..(Len(asks) + 1) /\ DOMAIN asks = 1..Len(asks) /\ Len(asks) \in Nat
      /\ \A i \in DOMAIN asks : asks[i] \in ToSet(asks)
  BY <1>8, Members
<1>10. \A x \in ToSet(asks) : IsAsked(x) => x.id \in Nat /\ x.id < n
  <2> QED BY CommandsTyped DEF WindowInv, Ordered, Mutations
<1>11. bridge.req # None => bridge.req.id \in Nat /\ bridge.req.id < n
  BY DEF WindowInv, Ordered, DesktopTypeOK, Bridges, Mutations
<1>12. \A m \in ToSet(msgs) : m.kind = "response" => m.id \in Nat /\ m.id < n
  BY MessagesTyped DEF WindowInv, Ordered, Answered
<1>13. Increasing(next)
  <2> SUFFICES ASSUME NEW i \in DOMAIN next, NEW j \in DOMAIN next, i < j,
                      IsAsked(next[i]), IsAsked(next[j])
               PROVE  next[i].id < next[j].id
    BY DEF Increasing
  <2>1. i \in DOMAIN asks /\ next[i] = asks[i]
    BY <1>8, <1>9
  <2>2. CASE j = Len(asks) + 1
    BY <2>1, <2>2, <1>2, <1>8, <1>9, <1>10
  <2>3. CASE j # Len(asks) + 1
    <3>1. j \in DOMAIN asks /\ next[j] = asks[j]
      BY <2>3, <1>8, <1>9
    <3> QED BY <2>1, <3>1 DEF WindowInv, Ordered, Increasing
  <2> QED BY <2>2, <2>3
<1>14. SessionShape(v)
  BY <1>4, <1>6 DEF WindowInv, SessionShape, MayRequest
<1>15. Introduced(v, msgs)
  BY <1>4 DEF WindowInv, Introduced
<1>16. Ordered(v, n + 1, next, msgs)
  <2>1. \A x \in ToSet(next) :
          IsAsked(x) => x.id < n + 1 /\ (bridge.req # None => bridge.req.id < x.id)
    BY <1>2, <1>8, <1>10, <1>11 DEF WindowInv, Ordered
  <2>2. ASSUME NEW m \in ToSet(msgs), m.kind = "response" PROVE Answered(m, n + 1, next)
    <3>1. m.id \in Nat /\ m.id < n
      BY <2>2, <1>12
    <3>2. Answered(m, n, asks)
      BY DEF WindowInv, Ordered
    <3> QED BY <3>1, <3>2, <2>2, <1>2, <1>8 DEF Answered
  <2>3. \A m \in ToSet(msgs) : Answered(m, n + 1, next)
    BY <2>2 DEF Answered
  <2> QED BY <2>1, <2>3, <1>6, <1>11, <1>13 DEF WindowInv, Ordered
<1>17. Knows(v)
  BY <1>4 DEF WindowInv, Knows, Hears
<1>18. Coming(v, next, msgs)
  <2>1. UpToDate(u) => UpToDate(v)
    BY <1>4, <1>6 DEF UpToDate
  <2>2. \A m \in ToSet(msgs) : Announces(m, u) => Announces(m, v)
    BY <1>7 DEF Announces
  <2> QED BY <2>1, <2>2, <1>8 DEF WindowInv, Coming
<1>19. Waited(v, next, msgs)
  BY <1>2, <1>6, <1>8 DEF Waited
<1>20. Asking(v, next, msgs)
  <2>1. \A x \in ToSet(next) : IsAsked(x) => Faithful(x, v)
    BY <1>2, <1>6, <1>8, <1>10 DEF Faithful
  <2>2. bridge.req # None => Faithful(bridge.req, v)
    BY <1>6, <1>11 DEF Faithful
  <2>3. \A m \in ToSet(msgs) : ~AnswerTo(m, v.pending.id)
    BY <1>6, <1>12 DEF AnswerTo
  <2> QED BY <2>1, <2>2, <2>3 DEF Asking
<1>21. Awaiting(v, next)
  BY <1>6 DEF Awaiting
<1>22. Believed(v, next, msgs)
  <2> SUFFICES ASSUME Hears(v), v.applied # None
               PROVE  /\ late = <<>>
                      /\ NothingAsked(next) \/ OnlyAsked(v, next)
                      /\ Holds(v.applied.gen, v.applied.prof) \/ Doomed(v, msgs)
    BY DEF Believed
  <2>1. late = <<>> /\ NothingAsked(asks) /\ Holds(u.applied.gen, u.applied.prof)
    BY <1>4, <1>7 DEF WindowInv, Believed, Hears, OnlyAsked, Doomed
  <2>2. OnlyAsked(v, next)
    BY <2>1, <1>2, <1>6, <1>8 DEF NothingAsked, OnlyAsked
  <2> QED BY <2>1, <2>2, <1>4
<1> QED BY <1>4, <1>8, <1>14, <1>15, <1>16, <1>17, <1>18, <1>19, <1>20, <1>21, <1>22 DEF WindowInv

-----------------------------------------------------------------------------
(* What the window is told *)

\* The answer to what it waits for is the last thing on its way.
LEMMA LastAnswer ==
    ASSUME DesktopTypeOK, NEW u \in Sessions, NEW n \in Nat, NEW asks \in Seq(Requests),
           NEW msgs \in Seq(Messages), WindowInv(u, n, asks, msgs),
           NEW m \in ToSet(msgs), In(u, "reply"), AnswerTo(m, u.pending.id)
    PROVE  NothingAsked(asks) /\ late = <<>>
<1>1. m.kind = "response" /\ m.id + 1 = n /\ m.id \in Nat /\ Answered(m, n, asks)
  BY MessagesTyped DEF WindowInv, Ordered, AnswerTo
<1>2. bridge.req # None => bridge.req.id \in Nat /\ bridge.req.id < n
  BY DEF WindowInv, Ordered, DesktopTypeOK, Bridges, Mutations
<1>3. \A x \in ToSet(asks) : IsAsked(x) => x.id \in Nat /\ x.id < n
  BY CommandsTyped DEF WindowInv, Ordered, Mutations
<1> QED BY <1>1, <1>2, <1>3 DEF Answered, NothingAsked

\* There is one answer to a request.
LEMMA OneAnswer ==
    ASSUME NEW msgs \in Seq(Messages), msgs # <<>>, \A m \in ToSet(msgs) : MessageShape(m),
           InTurn(msgs), Head(msgs).kind = "response"
    PROVE  \A x \in ToSet(Tail(msgs)) : ~AnswerTo(x, Head(msgs).id)
<1>1. /\ Tail(msgs) \in Seq(Messages) /\ Len(msgs) \in Nat \ {0}
      /\ Len(Tail(msgs)) = Len(msgs) - 1 /\ Head(msgs) = msgs[1] /\ 1 \in DOMAIN msgs
      /\ \A i \in 1..(Len(msgs) - 1) : Tail(msgs)[i] = msgs[i + 1]
      /\ Head(msgs) \in ToSet(msgs)
  BY Taken
<1>2. DOMAIN msgs = 1..Len(msgs) /\ DOMAIN Tail(msgs) = 1..(Len(msgs) - 1)
  BY <1>1, Members
<1> SUFFICES ASSUME NEW i \in 1..(Len(msgs) - 1), AnswerTo(Tail(msgs)[i], Head(msgs).id)
             PROVE  FALSE
  BY <1>2 DEF ToSet
<1>3. i + 1 \in DOMAIN msgs /\ 1 < i + 1 /\ Tail(msgs)[i] = msgs[i + 1]
  BY <1>1, <1>2
<1>4. msgs[1].id < msgs[i + 1].id
  BY <1>1, <1>3 DEF InTurn, AnswerTo
<1>5. Head(msgs).id \in Nat
  BY <1>1, MessagesTyped
<1> QED BY <1>1, <1>3, <1>4, <1>5 DEF AnswerTo

\* A message is handled: the session u becomes v, and a snapshot may be asked for.
LEMMA WindowHears ==
    ASSUME DesktopTypeOK, NEW u \in Sessions, NEW v \in Sessions, NEW n \in Nat,
           NEW asks \in Seq(Requests), NEW next \in {asks, Append(asks, Refresh)},
           NEW msgs \in Seq(Messages), msgs # <<>>,
           WindowInv(u, n, asks, msgs), SessionShape(v),
           u.epoch <= v.epoch, v.epoch <= bridge.epoch,
           v.epoch < bridge.epoch => ~(Head(msgs).kind = "established" /\ Current(Head(msgs))),
           Knows(v),
           In(v, "reply") =>
             /\ In(u, "reply") /\ v.pending = u.pending /\ v.epoch = u.epoch
             /\ ~(Current(Head(msgs)) /\ AnswerTo(Head(msgs), u.pending.id)),
           In(v, "snapshot") =>
             \/ In(u, "snapshot") /\ v.pending = u.pending
             \/ Awaiting(v, asks) /\ v.pending.id + 1 = n,
           Linked =>
             \/ UpToDate(v)
             \/ next = Append(asks, Refresh)
             \/ /\ ~UpToDate(u) /\ ~Announces(Head(msgs), u)
                /\ In(u, "reply") /\ u.epoch = bridge.epoch =>
                     \/ In(v, "reply") /\ v.pending = u.pending /\ v.epoch = u.epoch
                     \/ \A x \in ToSet(Tail(msgs)) : ~AnswerTo(x, u.pending.id),
           Hears(v) /\ v.applied # None =>
             \/ /\ v.applied = u.applied /\ v.epoch = u.epoch
                /\ v.pending = u.pending \/ ~In(u, "reply")
             \/ late = <<>> /\ NothingAsked(asks) /\ Holds(v.applied.gen, v.applied.prof)
    PROVE  WindowInv(v, n, next, Tail(msgs))
<1> DEFINE m == Head(msgs)
           rest == Tail(msgs)
<1>1. /\ m \in Messages /\ rest \in Seq(Messages) /\ m = msgs[1] /\ 1 \in DOMAIN msgs
      /\ ToSet(msgs) = {m} \cup ToSet(rest)
      /\ Len(msgs) \in Nat \ {0} /\ Len(rest) = Len(msgs) - 1
      /\ \A i \in 1..(Len(msgs) - 1) : rest[i] = msgs[i + 1]
  BY Taken
<1>2. /\ next \in Seq(Requests)
      /\ \A r \in ToSet(next) : IsAsked(r) => r \in ToSet(asks)
      /\ \A r \in ToSet(asks) : r \in ToSet(next)
      /\ next = Append(asks, Refresh) => \E r \in ToSet(next) : ~IsAsked(r)
      /\ Increasing(next)
  <2>1. Refresh \in Requests /\ ~IsAsked(Refresh) /\ Increasing(asks)
    BY DEF Requests, IsAsked, Refresh, WindowInv, Ordered
  <2>2. CASE next = asks /\ next # Append(asks, Refresh)
    BY <2>1, <2>2
  <2>3. CASE next = Append(asks, Refresh)
    <3>1. /\ next \in Seq(Requests) /\ Len(next) = Len(asks) + 1 /\ next[Len(asks) + 1] = Refresh
          /\ ToSet(next) = ToSet(asks) \cup {Refresh}
          /\ \A k \in 1..Len(asks) : next[k] = asks[k]
      BY <2>1, <2>3, Appended
    <3>2. DOMAIN next = 1..(Len(asks) + 1) /\ DOMAIN asks = 1..Len(asks) /\ Len(asks) \in Nat
      BY <3>1, Members
    <3>3. ASSUME NEW i \in DOMAIN next, NEW j \in DOMAIN next, i < j,
                 IsAsked(next[i]), IsAsked(next[j])
          PROVE  next[i].id < next[j].id
      <4>1. i \in 1..Len(asks) /\ j \in 1..Len(asks)
        BY <2>1, <3>1, <3>2, <3>3
      <4> QED BY <2>1, <3>1, <3>2, <3>3, <4>1 DEF Increasing
    <3>4. Increasing(next)
      BY <3>3 DEF Increasing
    <3> QED BY <2>1, <3>1, <3>4
  <2> QED BY <2>2, <2>3
<1>3. Introduced(v, rest)
  <2>1. \A x \in ToSet(rest) : x.epoch <= bridge.epoch
    BY <1>1 DEF WindowInv, Introduced
  <2>2. ASSUME v.epoch < bridge.epoch
        PROVE  \E k \in DOMAIN rest :
                  /\ rest[k].kind = "established" /\ Current(rest[k])
                  /\ \A j \in 1..(k - 1) : ~Current(rest[j])
    <3>1. u.epoch < bridge.epoch
      BY <2>2 DEF Sessions, DesktopTypeOK, Bridges
    <3>2. PICK k \in DOMAIN msgs :
                  /\ msgs[k].kind = "established" /\ Current(msgs[k])
                  /\ \A j \in 1..(k - 1) : ~Current(msgs[j])
      BY <3>1 DEF WindowInv, Introduced
    <3>3. DOMAIN msgs = 1..Len(msgs) /\ DOMAIN rest = 1..(Len(msgs) - 1)
      BY <1>1, Members
    <3>4. k # 1
      BY <1>1, <2>2, <3>2
    <3>5. k - 1 \in DOMAIN rest /\ rest[k - 1] = msgs[k]
      BY <1>1, <3>3, <3>4
    <3>6. ASSUME NEW j \in 1..(k - 1 - 1) PROVE ~Current(rest[j])
      <4>1. j \in 1..(Len(msgs) - 1) /\ j + 1 \in 1..(k - 1)
        BY <1>1, <3>3
      <4> QED BY <1>1, <3>2, <4>1
    <3> QED BY <3>2, <3>5, <3>6
  <2> QED BY <2>1, <2>2 DEF Introduced
<1>4. Ordered(v, n, next, rest)
  <2>1. \A x \in ToSet(rest) : Answered(x, n, next)
    BY <1>1, <1>2 DEF WindowInv, Ordered, Answered
  <2>2. In(v, "reply") \/ In(v, "snapshot") => v.pending.id + 1 = n
    BY DEF WindowInv, Ordered
  <2>3. InTurn(rest)
    <3>1. DOMAIN msgs = 1..Len(msgs) /\ DOMAIN rest = 1..(Len(msgs) - 1)
      BY <1>1, Members
    <3> SUFFICES ASSUME NEW i \in 1..(Len(msgs) - 1), NEW j \in 1..(Len(msgs) - 1), i < j,
                        rest[i].kind = "response", rest[j].kind = "response"
                 PROVE  rest[i].id < rest[j].id
      BY <3>1 DEF InTurn
    <3>2. i + 1 \in DOMAIN msgs /\ j + 1 \in DOMAIN msgs /\ i + 1 < j + 1
      BY <1>1, <3>1
    <3>3. rest[i] = msgs[i + 1] /\ rest[j] = msgs[j + 1]
      BY <1>1
    <3> QED BY <3>2, <3>3 DEF WindowInv, Ordered, InTurn
  <2> QED BY <1>2, <2>1, <2>2, <2>3 DEF WindowInv, Ordered
<1>5. Told(rest)
  BY <1>1 DEF WindowInv, Told
<1>6. Coming(v, next, rest)
  <2> SUFFICES ASSUME Linked, ~UpToDate(v), next # Append(asks, Refresh)
               PROVE  \/ \E x \in ToSet(rest) : Announces(x, v)
                      \/ \E r \in ToSet(next) : ~IsAsked(r)
                      \/ Reads
                      \/ Ahead
    BY <1>2 DEF Coming
  <2>1. CASE \E x \in ToSet(msgs) : Announces(x, u)
    <3>1. PICK x \in ToSet(rest) : Announces(x, u)
      BY <1>1, <2>1
    <3>2. Announces(x, v)
      BY <3>1 DEF Announces, Current, AnswerTo
    <3> QED BY <3>2
  <2>2. CASE ~\E x \in ToSet(msgs) : Announces(x, u)
    BY <2>2, <1>2 DEF WindowInv, Coming
  <2> QED BY <2>1, <2>2
<1>7. Waited(v, next, rest)
  <2> SUFFICES ASSUME Hears(v), In(v, "reply")
               PROVE  \/ \E r \in ToSet(next) : IsAsked(r) /\ r.id = v.pending.id
                      \/ bridge.req # None /\ bridge.req.id = v.pending.id
                      \/ \E x \in ToSet(rest) : Current(x) /\ AnswerTo(x, v.pending.id)
    BY DEF Waited
  <2>1. Hears(u) /\ In(u, "reply") /\ v.pending = u.pending
    BY DEF Hears
  <2> QED BY <1>1, <1>2, <2>1 DEF WindowInv, Waited
<1>8. Asking(v, next, rest)
  BY <1>1, <1>2 DEF WindowInv, Asking, Faithful
<1>9. Awaiting(v, next)
  <2>1. NothingAsked(asks) => NothingAsked(next)
    BY <1>2 DEF NothingAsked
  <2> QED BY <2>1 DEF WindowInv, Awaiting
<1>10. Believed(v, next, rest)
  <2> SUFFICES ASSUME Hears(v), v.applied # None
               PROVE  /\ late = <<>>
                      /\ NothingAsked(next) \/ OnlyAsked(v, next)
                      /\ Holds(v.applied.gen, v.applied.prof) \/ Doomed(v, rest)
    BY DEF Believed
  <2>1. NothingAsked(asks) => NothingAsked(next)
    BY <1>2 DEF NothingAsked
  <2>2. CASE late = <<>> /\ NothingAsked(asks) /\ Holds(v.applied.gen, v.applied.prof)
    BY <2>1, <2>2
  <2>3. CASE /\ v.applied = u.applied /\ v.epoch = u.epoch
             /\ v.pending = u.pending \/ ~In(u, "reply")
    <3>1. /\ late = <<>>
          /\ NothingAsked(asks) \/ OnlyAsked(u, asks)
          /\ Holds(u.applied.gen, u.applied.prof) \/ Doomed(u, msgs)
      BY <2>3 DEF WindowInv, Believed, Hears
    <3>2. OnlyAsked(u, asks) => OnlyAsked(v, next)
      BY <1>2, <2>3 DEF OnlyAsked, In
    <3>3. Doomed(u, msgs) => Doomed(v, rest)
      <4> SUFFICES ASSUME Doomed(u, msgs) PROVE Doomed(v, rest)
        OBVIOUS
      <4>1. In(v, "reply") /\ v.pending = u.pending
        BY <2>3 DEF Doomed, In
      <4> QED BY <1>1, <4>1 DEF Doomed
    <3> QED BY <2>1, <2>3, <3>1, <3>2, <3>3
  <2> QED BY <2>2, <2>3
<1>11. \A x \in ToSet(rest) : MessageShape(x)
  BY <1>1 DEF WindowInv
<1> QED BY <1>3, <1>4, <1>5, <1>6, <1>7, <1>8, <1>9, <1>10, <1>11 DEF WindowInv

\* A message over a connection the window has not heard of announces it.
LEMMA HeadKnown ==
    ASSUME DesktopTypeOK, NEW u \in Sessions, NEW msgs \in Seq(Messages), msgs # <<>>,
           Introduced(u, msgs), Head(msgs).kind # "established", Current(Head(msgs))
    PROVE  u.epoch = bridge.epoch
<1> SUFFICES ASSUME u.epoch < bridge.epoch PROVE FALSE
  BY DEF Introduced, Sessions, DesktopTypeOK, Bridges
<1>1. PICK k \in DOMAIN msgs :
            /\ msgs[k].kind = "established" /\ Current(msgs[k])
            /\ \A j \in 1..(k - 1) : ~Current(msgs[j])
  BY DEF Introduced
<1>2. Head(msgs) = msgs[1] /\ DOMAIN msgs = 1..Len(msgs) /\ Len(msgs) \in Nat
  BY Taken, Members
<1>3. k # 1
  BY <1>1, <1>2
<1>4. 1 \in 1..(k - 1)
  BY <1>2, <1>3
<1> QED BY <1>1, <1>2, <1>4

\* A message that changes nothing.
LEMMA Ignored ==
    ASSUME DesktopTypeOK, NEW u \in Sessions, NEW n \in Nat, NEW asks \in Seq(Requests),
           NEW msgs \in Seq(Messages), msgs # <<>>, WindowInv(u, n, asks, msgs),
           Head(msgs).kind = "established" => Head(msgs).epoch <= u.epoch,
           In(u, "reply") => ~(Current(Head(msgs)) /\ AnswerTo(Head(msgs), u.pending.id)),
           Linked => ~Announces(Head(msgs), u)
    PROVE  WindowInv(u, n, asks, Tail(msgs))
<1>1. SessionShape(u) /\ Knows(u) /\ u.epoch <= bridge.epoch
  BY DEF WindowInv, Introduced
<1>2. Head(msgs) \in Messages
  BY Taken
<1>3. u.epoch < bridge.epoch => ~(Head(msgs).kind = "established" /\ Current(Head(msgs)))
  BY <1>2 DEF Current, Messages, Sessions, DesktopTypeOK, Bridges
<1>4. u.epoch <= u.epoch
  BY DEF Sessions
<1> QED BY <1>1, <1>3, <1>4, WindowHears

\* What is left of a session that loses its connection.
LEMMA LeftBehind ==
    ASSUME NEW u \in Sessions
    PROVE  /\ Abandoned(u) \in Sessions
           /\ Abandoned(u).epoch = u.epoch /\ Abandoned(u).known = u.known
           /\ Abandoned(u).status = u.status /\ Abandoned(u).rev = u.rev
           /\ Abandoned(u).applied = u.applied
           /\ ~In(Abandoned(u), "reply") /\ ~In(Abandoned(u), "snapshot")
           /\ In(Abandoned(u), "saving") => Abandoned(u).pending = u.pending /\ In(u, "saving")
<1>1. CASE u.pending # None /\ u.pending.stage # "saving"
  <2>1. Abandoned(u) = [u EXCEPT !.pending = None, !.clean = FALSE]
    BY <1>1 DEF Abandoned
  <2> QED BY <2>1 DEF Sessions, In
<1>2. CASE ~(u.pending # None /\ u.pending.stage # "saving")
  <2>1. Abandoned(u) = u
    BY <1>2 DEF Abandoned
  <2> QED BY <1>2, <2>1 DEF Sessions, In
<1> QED BY <1>1, <1>2

\* A new connection.
LEMMA HearsEstablished ==
    ASSUME DesktopTypeOK, NEW u \in Sessions, NEW n \in Nat, NEW asks \in Seq(Requests),
           NEW msgs \in Seq(Messages), msgs # <<>>, WindowInv(u, n, asks, msgs),
           Head(msgs).kind = "established"
    PROVE  /\ Established(u, Head(msgs)) \in Sessions
           /\ WindowInv(Established(u, Head(msgs)), n, asks, Tail(msgs))
<1> DEFINE m == Head(msgs)
           w == [u EXCEPT !.epoch = m.epoch, !.known = FALSE, !.rev = None, !.applied = None]
           v == Established(u, m)
<1>1. m \in Messages /\ m \in ToSet(msgs)
  BY Taken
<1>2. CASE m.epoch <= u.epoch
  <2>1. v = u
    BY <1>2 DEF Established
  <2>2. ~Announces(m, u) /\ ~AnswerTo(m, u.pending.id)
    BY DEF Announces, AnswerTo
  <2> QED BY <1>2, <2>1, <2>2, Ignored
<1>3. CASE ~(m.epoch <= u.epoch)
  <2>1. v = Abandoned(w) /\ w \in Sessions
    BY <1>1, <1>3 DEF Established, Sessions, Messages
  <2>2. /\ v \in Sessions /\ v.epoch = m.epoch /\ ~v.known /\ v.rev = None /\ v.applied = None
        /\ ~In(v, "reply") /\ ~In(v, "snapshot")
        /\ In(v, "saving") => v.pending = u.pending /\ In(u, "saving")
    <3>1. /\ w.epoch = m.epoch /\ w.known = FALSE /\ w.rev = None /\ w.applied = None
          /\ w.pending = u.pending
      BY DEF Sessions
    <3>2. In(w, "saving") => In(u, "saving")
      BY <3>1 DEF In
    <3> HIDE DEF w, v
    <3> QED BY <2>1, <3>1, <3>2, LeftBehind
  <2>3. u.epoch < m.epoch /\ m.epoch <= bridge.epoch /\ u.epoch <= v.epoch
    BY <1>1, <1>3, <2>2 DEF WindowInv, Introduced, Messages, Sessions
  <2>4. u.epoch # bridge.epoch
    BY <1>1, <2>3 DEF Messages, Sessions, DesktopTypeOK, Bridges
  <2>5. ~UpToDate(u) /\ ~Announces(m, u)
    BY <2>4 DEF UpToDate, Announces
  <2>6. SessionShape(v) /\ Knows(v)
    BY <2>2 DEF SessionShape, Knows, WindowInv
  <2>7. v.epoch < bridge.epoch => ~Current(m)
    BY <1>1, <2>2 DEF Current, Messages, DesktopTypeOK, Bridges
  <2> QED BY <2>2, <2>3, <2>4, <2>5, <2>6, <2>7, WindowHears
<1> QED BY <1>2, <1>3

\* The daemon cannot be reached any more.
LEMMA HearsUnavailable ==
    ASSUME DesktopTypeOK, NEW u \in Sessions, NEW n \in Nat, NEW asks \in Seq(Requests),
           NEW msgs \in Seq(Messages), msgs # <<>>, WindowInv(u, n, asks, msgs),
           Head(msgs).kind = "unavailable", Head(msgs).epoch = u.epoch
    PROVE  /\ Unavailable(u, Head(msgs)) \in Sessions
           /\ WindowInv(Unavailable(u, Head(msgs)), n, asks, Tail(msgs))
<1> DEFINE m == Head(msgs)
           w == [u EXCEPT !.known = FALSE, !.applied = None, !.err = m.err]
           v == Unavailable(u, m)
<1>1. m \in Messages /\ m \in ToSet(msgs)
  BY Taken
<1>2. Linked => u.epoch # bridge.epoch /\ ~Current(m)
  BY <1>1 DEF WindowInv, Told, Current
<1>3. ~Announces(m, u) /\ ~AnswerTo(m, u.pending.id)
  BY DEF Announces, AnswerTo
<1>4. CASE m.id # None /\ u.pending # None /\ u.pending.id # m.id
  <2>1. v = u
    BY <1>4 DEF Unavailable
  <2> QED BY <1>3, <2>1, Ignored
<1>5. CASE ~(m.id # None /\ u.pending # None /\ u.pending.id # m.id)
  <2>1. v = Abandoned(w) /\ w \in Sessions
    BY <1>1, <1>5 DEF Unavailable, Sessions, Messages
  <2>2. /\ v \in Sessions /\ v.epoch = u.epoch /\ ~v.known /\ v.applied = None
        /\ v.rev = u.rev /\ v.status = u.status
        /\ ~In(v, "reply") /\ ~In(v, "snapshot")
        /\ In(v, "saving") => v.pending = u.pending /\ In(u, "saving")
    <3>1. /\ w.epoch = u.epoch /\ w.known = FALSE /\ w.rev = u.rev /\ w.applied = None
          /\ w.status = u.status /\ w.pending = u.pending
      BY DEF Sessions
    <3>2. In(w, "saving") => In(u, "saving")
      BY <3>1 DEF In
    <3> HIDE DEF w, v
    <3> QED BY <2>1, <3>1, <3>2, LeftBehind
  <2>3. u.epoch <= v.epoch /\ v.epoch <= bridge.epoch
    BY <2>2 DEF WindowInv, Introduced, Sessions
  <2>4. Linked => ~UpToDate(u)
    BY <1>2 DEF UpToDate
  <2>5. SessionShape(v) /\ Knows(v)
    BY <2>2 DEF SessionShape, Knows, Hears, WindowInv
  <2> QED BY <1>2, <1>3, <2>2, <2>3, <2>4, <2>5, WindowHears
<1> QED BY <1>4, <1>5

\* A status the daemon had is as it is, if it is not older than it.
LEMMA PastIsPast ==
    ASSUME DesktopTypeOK, NEW st \in Statuses, Past(st)
    PROVE  /\ st.seq \in Nat /\ st.gen \in Nat /\ d.seq \in Nat /\ d.gen \in Nat
           /\ st.seq <= d.seq
           /\ st.seq = d.seq => st = StatusOf(d) /\ st.gen = d.gen
           /\ StatusOf(d).seq = d.seq /\ StatusOf(d).gen = d.gen
BY DEF Past, StatusOf, Statuses, DesktopTypeOK, Daemons

\* A snapshot.
LEMMA HearsSnapshot ==
    ASSUME DesktopTypeOK, NEW u \in Sessions, NEW n \in Nat, NEW asks \in Seq(Requests),
           NEW msgs \in Seq(Messages), msgs # <<>>, WindowInv(u, n, asks, msgs),
           Head(msgs).kind = "snapshot", Head(msgs).epoch = u.epoch
    PROVE  /\ Snapshot(u, Head(msgs)) \in Sessions
           /\ WindowInv(Snapshot(u, Head(msgs)), n, asks, Tail(msgs))
<1> DEFINE m == Head(msgs)
           v == Snapshot(u, m)
<1>1. m \in Messages /\ m \in ToSet(msgs)
  BY Taken
<1>2. m.status \in Statuses /\ m.status.seq \in Nat /\ m.status.gen \in Nat
  BY <1>1, MessagesTyped DEF WindowInv, Statuses
<1>3. Linked /\ u.epoch = bridge.epoch => Current(m) /\ Past(m.status)
  BY <1>1 DEF WindowInv, Told, Current
<1>4. ~AnswerTo(m, u.pending.id)
  BY DEF AnswerTo
<1>5. u.rev # None => u.rev.seq \in Nat /\ u.rev.gen \in Nat
  BY DEF Sessions, Revisions
<1>6. d.seq \in Nat /\ d.gen \in Nat /\ StatusOf(d).seq = d.seq /\ StatusOf(d).gen = d.gen
  BY DEF DesktopTypeOK, Daemons, StatusOf
<1>7. CASE In(u, "snapshot") /\ m.status.gen < u.pending.exp
  <2>1. v = u
    BY <1>7 DEF Snapshot
  <2>2. u.pending.exp \in Nat /\ u.pending.exp <= d.gen
    BY <1>7 DEF WindowInv, Awaiting, SessionShape, In, Sessions, Pendings
  <2>3. ~Announces(m, u)
    BY <1>2, <1>6, <1>7, <2>2 DEF Announces
  <2> QED BY <1>4, <2>1, <2>3, Ignored
<1>8. CASE ~Accepts(u, m.status)
  <2>1. v = u
    BY <1>8 DEF Snapshot
  <2>2. /\ u.rev # None
        /\ m.status.seq < u.rev.seq \/ (m.status.seq = u.rev.seq /\ m.status.gen < u.rev.gen)
    BY <1>8 DEF Accepts
  <2>3. Linked => ~Announces(m, u)
    <3> SUFFICES ASSUME Linked, Announces(m, u) PROVE FALSE
      OBVIOUS
    <3>1. u.epoch = bridge.epoch /\ m.status = StatusOf(d)
      BY DEF Announces, Current
    <3>2. u.rev.seq < d.seq \/ (u.rev.seq = d.seq /\ u.rev.gen = d.gen)
      BY <2>2, <3>1 DEF WindowInv, Knows, Hears
    <3> QED BY <1>2, <1>5, <1>6, <2>2, <3>1, <3>2
  <2> QED BY <1>4, <2>1, <2>3, Ignored
<1>9. CASE ~(In(u, "snapshot") /\ m.status.gen < u.pending.exp) /\ Accepts(u, m.status)
  <2> DEFINE a == [u EXCEPT !.rev = [seq |-> m.status.seq, gen |-> m.status.gen],
                            !.status = m.status]
             w == [a EXCEPT !.known = TRUE]
             pend == IF In(u, "snapshot") THEN None ELSE u.pending
  <2>1. [seq |-> m.status.seq, gen |-> m.status.gen] \in Revisions
    BY <1>2 DEF Revisions
  <2>2. /\ w \in Sessions /\ w = [Accepted(u, m.status) EXCEPT !.known = TRUE]
        /\ w.epoch = u.epoch /\ w.known = TRUE /\ w.status = m.status
        /\ w.rev = [seq |-> m.status.seq, gen |-> m.status.gen]
        /\ w.applied = u.applied /\ w.pending = u.pending
    BY <1>2, <1>9, <2>1 DEF Accepted, Sessions
  <2>3. PICK app \in {u.applied, None} :
          v = [w EXCEPT !.applied = app, !.pending = pend]
    BY <1>9, <2>2 DEF Snapshot
  <2> HIDE DEF a, w, v, m
  <2>4. pend \in Pendings \cup {None}
    BY DEF Sessions
  <2> HIDE DEF pend
  <2>5. /\ v \in Sessions /\ v.epoch = u.epoch /\ v.known /\ v.status = m.status
        /\ v.rev = [seq |-> m.status.seq, gen |-> m.status.gen]
        /\ v.applied \in {u.applied, None}
        /\ v.pending = pend
    <3>1. app \in Applications \cup {None}
      BY <2>3 DEF Sessions
    <3>2. v \in Sessions
      <4> DEFINE z == [w EXCEPT !.applied = app]
      <4>1. w \in Sessions
        BY <2>2
      <4>2. z \in Sessions
        BY <3>1, <4>1 DEF Sessions
      <4>3. v = [z EXCEPT !.pending = pend]
        BY <2>3
      <4> HIDE DEF z
      <4> QED BY <2>4, <4>2, <4>3 DEF Sessions
    <3>3. /\ v.epoch = w.epoch /\ v.known = w.known /\ v.status = w.status /\ v.rev = w.rev
          /\ v.applied = app /\ v.pending = pend
      BY <2>2, <2>3 DEF Sessions
    <3> QED BY <2>2, <2>3, <3>2, <3>3
  <2>6. /\ ~In(v, "snapshot")
        /\ In(v, "reply") <=> In(u, "reply")
        /\ In(u, "reply") => v.pending = u.pending
        /\ In(v, "saving") => In(u, "saving") /\ v.pending = u.pending
    BY <2>5 DEF In, pend
  <2>7. m.status # None
    BY <1>2, NoneAssumption
  <2>8. SessionShape(v)
    <3>1. v.rev # None
      BY <2>1, <2>5, NoneAssumption
    <3>2. v.rev.seq = v.status.seq /\ v.rev.gen = v.status.gen
      BY <2>5
    <3> QED BY <2>5, <2>6, <2>7, <3>1, <3>2 DEF WindowInv, SessionShape
  <2>9. u.epoch <= v.epoch /\ v.epoch <= bridge.epoch
    BY <2>5 DEF WindowInv, Introduced, Sessions
  <2>10. Knows(v)
    <3> SUFFICES ASSUME Hears(v)
                 PROVE  v.rev.seq < d.seq \/ (v.rev.seq = d.seq /\ v.rev.gen = d.gen)
      BY DEF Knows
    <3>1. Past(m.status)
      BY <1>3, <2>5 DEF Hears
    <3> QED BY <1>2, <2>5, <3>1, PastIsPast
  <2>11. Linked => UpToDate(v) \/ (~UpToDate(u) /\ ~Announces(m, u))
    <3> SUFFICES ASSUME Linked, UpToDate(u) \/ Announces(m, u)
                 PROVE  UpToDate(v)
      OBVIOUS
    <3>1. u.epoch = bridge.epoch
      BY DEF UpToDate, Announces, Current, m
    <3>2. Past(m.status)
      BY <1>3, <3>1
    <3>3. m.status = StatusOf(d)
      <4>1. CASE Announces(m, u)
        BY <4>1 DEF Announces, m
      <4>2. CASE UpToDate(u)
        <5>1. u.rev # None /\ u.rev.seq = d.seq
          BY <4>2, <1>6 DEF UpToDate, WindowInv, SessionShape
        <5>2. ~(m.status.seq < u.rev.seq)
          BY <1>9, <5>1 DEF Accepts
        <5> QED BY <1>2, <1>6, <3>2, <5>1, <5>2, PastIsPast
      <4> QED BY <4>1, <4>2
    <3> QED BY <2>5, <2>6, <3>1, <3>3 DEF UpToDate
  <2>12. m.kind # "established"
    BY DEF m
  <2>13. v.applied # None => v.applied = u.applied /\ (v.pending = u.pending \/ ~In(u, "reply"))
    BY <2>5, <2>6
  <2> HIDE DEF m
  <2> QED BY <1>4, <2>5, <2>6, <2>8, <2>9, <2>10, <2>11, <2>12, <2>13, WindowHears DEF m, v
<1> QED BY <1>7, <1>8, <1>9 DEF m, v

\* An event; a snapshot is asked for.
LEMMA HearsEvent ==
    ASSUME DesktopTypeOK, NEW u \in Sessions, NEW n \in Nat, NEW asks \in Seq(Requests),
           NEW msgs \in Seq(Messages), msgs # <<>>, WindowInv(u, n, asks, msgs),
           Head(msgs).kind = "event", Head(msgs).epoch = u.epoch
    PROVE  /\ Event(u, Head(msgs)) \in Sessions
           /\ WindowInv(Event(u, Head(msgs)), n, Append(asks, Refresh), Tail(msgs))
<1> DEFINE m == Head(msgs)
           st == [u.status EXCEPT !.seq = m.status.seq, !.gen = m.status.gen]
           v == Event(u, m)
<1>1. m \in Messages /\ m \in ToSet(msgs)
  BY Taken
<1>2. m.status \in Statuses /\ m.status.seq \in Nat /\ m.status.gen \in Nat
  BY <1>1, MessagesTyped DEF WindowInv, Statuses
<1>3. Linked /\ u.epoch = bridge.epoch => Past(m.status)
  BY <1>1 DEF WindowInv, Told, Current
<1>4. ~AnswerTo(m, u.pending.id)
  BY DEF AnswerTo
<1>5. /\ v \in Sessions /\ v.epoch = u.epoch /\ v.known = u.known /\ v.applied = u.applied
      /\ v.pending = u.pending /\ SessionShape(v) /\ Knows(v)
  <2>1. SessionShape(u) /\ Knows(u)
    BY DEF WindowInv
  <2>2. CASE v = u
    BY <2>1, <2>2
  <2>3. CASE v # u
    <3>1. u.status # None /\ v = Accepted(u, st) /\ Accepts(u, st)
      BY <2>3 DEF Event, Accepted
    <3>2. st \in Statuses /\ st.seq = m.status.seq /\ st.gen = m.status.gen
      BY <1>2, <3>1 DEF Sessions, Statuses
    <3>3. v = [u EXCEPT !.rev = [seq |-> st.seq, gen |-> st.gen], !.status = st]
      BY <3>1 DEF Accepted
    <3>4. [seq |-> st.seq, gen |-> st.gen] \in Revisions
      BY <1>2, <3>2 DEF Revisions
    <3> HIDE DEF st, v, m
    <3>5. /\ v \in Sessions /\ v.epoch = u.epoch /\ v.known = u.known /\ v.applied = u.applied
          /\ v.pending = u.pending /\ v.status = st /\ v.rev = [seq |-> st.seq, gen |-> st.gen]
      BY <3>2, <3>3, <3>4 DEF Sessions
    <3>6. st # None /\ v.rev # None
      BY <3>2, <3>4, <3>5, NoneAssumption
    <3>7. SessionShape(v)
      BY <2>1, <3>5, <3>6 DEF SessionShape, In
    <3>8. Knows(v)
      <4> SUFFICES ASSUME Hears(v)
                   PROVE  v.rev.seq < d.seq \/ (v.rev.seq = d.seq /\ v.rev.gen = d.gen)
        BY DEF Knows
      <4>1. Past(m.status)
        BY <1>3, <3>5 DEF Hears
      <4> QED BY <1>2, <3>2, <3>5, <4>1, PastIsPast
    <3> QED BY <3>5, <3>7, <3>8
  <2> QED BY <2>2, <2>3
<1>6. In(v, "reply") = In(u, "reply") /\ In(v, "snapshot") = In(u, "snapshot")
  BY <1>5 DEF In
<1>7. u.epoch <= v.epoch /\ v.epoch <= bridge.epoch
  BY <1>5 DEF WindowInv, Introduced, Sessions
<1>8. m.kind # "established"
  OBVIOUS
<1> HIDE DEF m, v
<1> QED BY <1>4, <1>5, <1>6, <1>7, <1>8, WindowHears DEF m, v

\* The answer it waits for.  What is applied by it is what the daemon holds.
LEMMA HearsAnswer ==
    ASSUME DesktopTypeOK, NEW u \in Sessions, NEW n \in Nat, NEW asks \in Seq(Requests),
           NEW msgs \in Seq(Messages), msgs # <<>>, WindowInv(u, n, asks, msgs),
           Head(msgs).kind = "response", Answers(u, Head(msgs))
    PROVE  /\ Response(u, Head(msgs)) \in Sessions
           /\ WindowInv(Response(u, Head(msgs)), n,
                        IF Head(msgs).result = "launched" THEN asks ELSE Append(asks, Refresh),
                        Tail(msgs))
<1> DEFINE m == Head(msgs)
           v == Response(u, m)
           w == [u EXCEPT !.pending = None]
           next == IF m.result = "launched" THEN asks ELSE Append(asks, Refresh)
<1>1. m \in Messages /\ m \in ToSet(msgs) /\ MessageShape(m)
  BY Taken DEF WindowInv
<1>2. /\ m.id \in Nat /\ m.err \in Errors \cup {None}
      /\ m.err = None <=> m.result \in Results
      /\ m.err # None => m.result = None
      /\ m.result = "applied" => m.gen \in Nat
  BY <1>1, MessagesTyped, NoneAssumption DEF WindowInv, Messages
<1>3. In(u, "reply") /\ m.epoch = u.epoch /\ u.pending.id = m.id /\ AnswerTo(m, u.pending.id)
  BY DEF Answers, AnswerTo
<1>4. NothingAsked(asks) /\ late = <<>>
  BY <1>1, <1>3, LastAnswer
<1>5. u.pending \in Pendings /\ u.pending # None /\ u.pending.id + 1 = n
  BY <1>3 DEF In, Sessions, WindowInv, Ordered
<1>6. /\ m.result = "applied" => u.pending.cand # None /\ Holds(m.gen, u.pending.cand)
      /\ m.result = "deactivated" => u.status \in Statuses
  BY <1>1, <1>3 DEF WindowInv, Asking, SessionShape, Sessions
<1>7. /\ w \in Sessions /\ w.epoch = u.epoch /\ w.known = u.known /\ w.status = u.status
      /\ w.rev = u.rev /\ w.applied = u.applied /\ w.pending = None
  BY DEF Sessions
<1>8. u.epoch <= u.epoch /\ u.epoch <= bridge.epoch /\ u.epoch \in Nat
  BY DEF WindowInv, Introduced, Sessions
<1>9. SessionShape(u) /\ Knows(u)
  BY DEF WindowInv
<1>10. m.kind # "established" /\ next \in {asks, Append(asks, Refresh)}
  OBVIOUS
<1>11. None \notin Results /\ None # "launched"
  BY NoneAssumption DEF Results
<1> HIDE DEF m, v, w, next
<1>12. CASE m.err # None
  <2>1. v = [w EXCEPT !.err = m.err, !.applied = None, !.known = FALSE, !.clean = FALSE]
    BY <1>2, <1>11, <1>12 DEF v, w, m, Response, Results
  <2>2. v \in Sessions
    <3> DEFINE z == [w EXCEPT !.err = m.err]
    <3>1. z \in Sessions
      BY <1>2, <1>7 DEF Sessions
    <3>2. v = [z EXCEPT !.applied = None, !.known = FALSE, !.clean = FALSE]
      BY <2>1
    <3> HIDE DEF z
    <3> QED BY <3>1, <3>2 DEF Sessions
  <2>3. /\ v.epoch = u.epoch /\ ~v.known /\ v.applied = None /\ v.pending = None
        /\ v.rev = u.rev /\ v.status = u.status
    BY <1>7, <2>1 DEF Sessions
  <2>4. SessionShape(v) /\ Knows(v) /\ ~In(v, "reply") /\ ~In(v, "snapshot")
    BY <1>9, <2>3 DEF SessionShape, Knows, Hears, In
  <2>5. next = Append(asks, Refresh)
    BY <1>2, <1>11, <1>12 DEF next
  <2> QED BY <1>8, <1>10, <2>2, <2>3, <2>4, <2>5, WindowHears DEF m, v, next
<1>13. CASE m.err = None /\ m.result = "applied"
  <2> DEFINE app == [gen |-> m.gen, prof |-> u.pending.cand]
             p == [u.pending EXCEPT !.stage = "snapshot", !.exp = m.gen]
  <2>1. app \in Applications /\ p \in Pendings
    BY <1>2, <1>5, <1>6, <1>13 DEF Applications, Pendings
  <2>2. /\ p.stage = "snapshot" /\ p.exp = m.gen /\ p.id = u.pending.id
        /\ app.gen = m.gen /\ app.prof = u.pending.cand
    BY <1>5 DEF Pendings
  <2>3. v = [u EXCEPT !.applied = app, !.pending = p]
    BY <1>3, <1>13 DEF v, m, Response, Answers, Sessions
  <2> HIDE DEF app, p
  <2>4. /\ v \in Sessions /\ v.epoch = u.epoch /\ v.known = u.known /\ v.applied = app
        /\ v.pending = p /\ v.rev = u.rev /\ v.status = u.status
    BY <2>1, <2>3 DEF Sessions
  <2>5. p # None /\ p.exp # None
    BY <1>2, <1>13, <2>1, <2>2, NoneAssumption
  <2>6. /\ SessionShape(v) /\ Knows(v) /\ ~In(v, "reply") /\ In(v, "snapshot")
        /\ v.pending.id + 1 = n
    BY <1>5, <1>9, <2>2, <2>4, <2>5 DEF SessionShape, Knows, Hears, In
  <2>7. Awaiting(v, asks)
    BY <1>4, <1>6, <1>13, <2>2, <2>4 DEF Awaiting, Holds
  <2>8. Holds(v.applied.gen, v.applied.prof)
    BY <1>6, <1>13, <2>2, <2>4
  <2>9. next = Append(asks, Refresh)
    BY <1>13 DEF next
  <2> QED BY <1>4, <1>8, <1>10, <2>4, <2>6, <2>7, <2>8, <2>9, WindowHears DEF m, v, next
<1>14. CASE m.err = None /\ m.result = "deactivated"
  <2> DEFINE st == [u.status EXCEPT !.on = FALSE]
  <2>1. st \in Statuses /\ st.seq = u.status.seq /\ st.gen = u.status.gen
    BY <1>6, <1>14 DEF Statuses
  <2>2. v = [w EXCEPT !.status = st, !.applied = None, !.clean = FALSE]
    BY <1>3, <1>7, <1>14 DEF v, w, m, Response, Answers, Sessions
  <2> HIDE DEF st
  <2>3. v \in Sessions
    <3> DEFINE z == [w EXCEPT !.status = st]
    <3>1. z \in Sessions
      BY <1>7, <2>1 DEF Sessions
    <3>2. v = [z EXCEPT !.applied = None, !.clean = FALSE]
      BY <2>2
    <3> HIDE DEF z
    <3> QED BY <3>1, <3>2 DEF Sessions
  <2>4. st # None
    BY <2>1, NoneAssumption
  <2>5. /\ v.epoch = u.epoch /\ v.applied = None /\ v.pending = None
        /\ v.rev = u.rev /\ v.status = st /\ v.known = u.known
    BY <1>7, <2>2 DEF Sessions
  <2>6. SessionShape(v) /\ Knows(v) /\ ~In(v, "reply") /\ ~In(v, "snapshot")
    BY <1>9, <2>1, <2>4, <2>5 DEF SessionShape, Knows, Hears, In
  <2>7. next = Append(asks, Refresh)
    BY <1>14 DEF next
  <2> QED BY <1>8, <1>10, <2>3, <2>5, <2>6, <2>7, WindowHears DEF m, v, next
<1>15. CASE m.err = None /\ m.result = "launched"
  <2>1. v = w
    BY <1>3, <1>15 DEF v, w, m, Response, Answers
  <2>2. SessionShape(v) /\ Knows(v) /\ ~In(v, "reply") /\ ~In(v, "snapshot")
    BY <1>7, <1>9, <2>1 DEF SessionShape, Knows, Hears, In
  <2>3. UpToDate(u) => UpToDate(v)
    BY <1>7, <2>1, <2>2 DEF UpToDate
  <2>4. ~Announces(m, u)
    BY <1>1, <1>15 DEF Announces, m
  <2>5. \A x \in ToSet(Tail(msgs)) : ~AnswerTo(x, u.pending.id)
    BY <1>3, OneAnswer DEF WindowInv, Ordered, m
  <2>6. v.applied # None /\ Hears(v) => Holds(v.applied.gen, v.applied.prof)
    <3> SUFFICES ASSUME v.applied # None, Hears(v) PROVE Holds(v.applied.gen, v.applied.prof)
      OBVIOUS
    <3>1. Holds(u.applied.gen, u.applied.prof) \/ Doomed(u, msgs)
      BY <1>7, <2>1 DEF WindowInv, Believed, Hears
    <3>2. ~Doomed(u, msgs)
      BY <1>1, <1>3, <1>15 DEF Doomed
    <3> QED BY <1>7, <2>1, <3>1, <3>2
  <2>7. next = asks
    BY <1>15 DEF next
  <2>8. v \in Sessions /\ v.epoch = u.epoch
    BY <1>7, <2>1
  <2>9. Linked => UpToDate(v) \/ (~UpToDate(u) /\ ~Announces(m, u))
    BY <2>3, <2>4
  <2> QED BY <1>4, <1>8, <1>10, <2>2, <2>5, <2>6, <2>7, <2>8, <2>9, WindowHears DEF m, v, next
<1>16. CASE m.err = None /\ m.result = "recovered"
  <2>1. v = [w EXCEPT !.known = FALSE, !.applied = None]
    BY <1>3, <1>16 DEF v, w, m, Response, Answers
  <2>2. /\ v \in Sessions /\ v.epoch = u.epoch /\ ~v.known /\ v.applied = None /\ v.pending = None
        /\ v.rev = u.rev /\ v.status = u.status
    BY <1>7, <2>1 DEF Sessions
  <2>3. SessionShape(v) /\ Knows(v) /\ ~In(v, "reply") /\ ~In(v, "snapshot")
    BY <1>9, <2>2 DEF SessionShape, Knows, Hears, In
  <2>4. next = Append(asks, Refresh)
    BY <1>16 DEF next
  <2> QED BY <1>8, <1>10, <2>2, <2>3, <2>4, WindowHears DEF m, v, next
<1> QED BY <1>2, <1>12, <1>13, <1>14, <1>15, <1>16 DEF m, v, next, Results

\* Every message.
LEMMA MessageHandled ==
    ASSUME DesktopTypeOK, NEW u \in Sessions, NEW n \in Nat, NEW asks \in Seq(Requests),
           NEW msgs \in Seq(Messages), msgs # <<>>, WindowInv(u, n, asks, msgs)
    PROVE  /\ Handled(u, Head(msgs)) \in Sessions
           /\ WindowInv(Handled(u, Head(msgs)), n,
                        IF AsksRefresh(u, Head(msgs)) THEN Append(asks, Refresh) ELSE asks,
                        Tail(msgs))
<1> DEFINE m == Head(msgs)
<1>1. m \in Messages
  BY Taken
<1>2. m.kind \in {"established", "snapshot", "response", "event", "unavailable"}
  BY <1>1 DEF Messages
<1>3. CASE m.kind = "established"
  <2>1. Handled(u, m) = Established(u, m) /\ ~AsksRefresh(u, m)
    BY <1>3 DEF Handled, AsksRefresh
  <2> QED BY <1>3, <2>1, HearsEstablished
<1>4. CASE m.kind # "established" /\ m.epoch # u.epoch
  <2>1. Handled(u, m) = u /\ ~AsksRefresh(u, m)
    BY <1>4 DEF Handled, AsksRefresh
  <2>2. ~Current(m)
    BY <1>4, HeadKnown DEF WindowInv, Current
  <2> QED BY <1>4, <2>1, <2>2, Ignored DEF Announces
<1>5. CASE m.kind = "snapshot" /\ m.epoch = u.epoch
  <2>1. Handled(u, m) = Snapshot(u, m) /\ ~AsksRefresh(u, m)
    BY <1>5 DEF Handled, AsksRefresh
  <2> QED BY <1>5, <2>1, HearsSnapshot
<1>6. CASE m.kind = "event" /\ m.epoch = u.epoch
  <2>1. Handled(u, m) = Event(u, m) /\ AsksRefresh(u, m)
    BY <1>6 DEF Handled, AsksRefresh
  <2> QED BY <1>6, <2>1, HearsEvent
<1>7. CASE m.kind = "unavailable" /\ m.epoch = u.epoch
  <2>1. Handled(u, m) = Unavailable(u, m) /\ ~AsksRefresh(u, m)
    BY <1>7 DEF Handled, AsksRefresh
  <2> QED BY <1>7, <2>1, HearsUnavailable
<1>8. CASE m.kind = "response" /\ m.epoch = u.epoch /\ Answers(u, m)
  <2>1. /\ Handled(u, m) = Response(u, m)
        /\ AsksRefresh(u, m) <=> m.result # "launched"
    BY <1>8 DEF Handled, AsksRefresh
  <2> QED BY <1>8, <2>1, HearsAnswer
<1>9. CASE m.kind = "response" /\ m.epoch = u.epoch /\ ~Answers(u, m)
  <2>1. Handled(u, m) = Response(u, m) /\ ~AsksRefresh(u, m)
    BY <1>9 DEF Handled, AsksRefresh
  <2>2. Response(u, m) = u
    BY <1>9 DEF Response
  <2>3. In(u, "reply") => ~AnswerTo(m, u.pending.id)
    BY <1>9 DEF Answers, AnswerTo
  <2>4. ~Announces(m, u)
    BY <1>9, <2>3 DEF Announces, AnswerTo
  <2> QED BY <1>9, <2>1, <2>2, <2>3, <2>4, Ignored
<1> QED BY <1>2, <1>3, <1>4, <1>5, <1>6, <1>7, <1>8, <1>9

-----------------------------------------------------------------------------
(* The steps of the window *)

\* The daemon, the stream and the bridge do not take part.
LEMMA WindowPrimed ==
    ASSUME DesktopInv, DesktopTypeOK', UNCHANGED <<d, late, feed, bridge>>,
           WindowInv(s', c.id', toBridge', toUi')
    PROVE  DesktopInv'
<1>1. d' = d /\ late' = late /\ feed' = feed /\ bridge' = bridge
  OBVIOUS
<1>2. BridgeShape' /\ (Linked <=> Linked')
  BY <1>1 DEF DesktopInv, BridgeShape, Linked, Listening
<1>3. FeedInv'
  BY <1>1, <1>2 DEF DesktopInv, FeedInv, Past, StatusOf
<1>4. SessionShape(s') /\ \A m \in ToSet(toUi') : MessageShape(m)
  BY DEF WindowInv
<1>5. Introduced(s, toUi)'
  BY <1>1 DEF WindowInv, Introduced, Current
<1>6. Ordered(s, c.id, toBridge, toUi)'
  BY <1>1 DEF WindowInv, Ordered, Increasing, InTurn, Answered
<1>7. Told(toUi)' /\ Knows(s)'
  BY <1>1, <1>2 DEF WindowInv, Told, Knows, Hears, Current, Past, StatusOf
<1>8. Coming(s, toBridge, toUi)'
  BY <1>1, <1>2 DEF WindowInv, Coming, UpToDate, Announces, Current, Reads, Ahead, StatusOf
<1>9. Waited(s, toBridge, toUi)' /\ Awaiting(s, toBridge)'
  BY <1>1, <1>2 DEF WindowInv, Waited, Hears, Current, Awaiting, NothingAsked
<1>10. Asking(s, toBridge, toUi)'
  BY <1>1, <1>2 DEF WindowInv, Asking, Faithful, Holds
<1>11. Believed(s, toBridge, toUi)'
  BY <1>1, <1>2
     DEF WindowInv, Believed, Hears, NothingAsked, OnlyAsked, Holds, Doomed, Current
<1> QED BY <1>2, <1>3, <1>4, <1>5, <1>6, <1>7, <1>8, <1>9, <1>10, <1>11 DEF DesktopInv, WindowInv

\* The parts a step of the window leaves alone keep their types.
LEMMA WindowTyped ==
    ASSUME DesktopTypeOK, UNCHANGED <<d, late, feed, bridge>>,
           s' \in Sessions, c' \in Controllers, toBridge' \in Seq(Requests),
           toUi' \in Seq(Messages),
           used' \in [user: Nat, other: Nat, faults: Nat]
    PROVE  DesktopTypeOK'
BY DEF DesktopTypeOK

LEMMA UsedTyped ==
    ASSUME DesktopTypeOK
    PROVE  /\ used \in [user: Nat, other: Nat, faults: Nat]
           /\ [used EXCEPT !.user = @ + 1] \in [user: Nat, other: Nat, faults: Nat]
           /\ [used EXCEPT !.other = @ + 1] \in [user: Nat, other: Nat, faults: Nat]
           /\ [used EXCEPT !.faults = @ + 1] \in [user: Nat, other: Nat, faults: Nat]
BY DEF DesktopTypeOK

LEMMA NextId ==
    ASSUME NEW x \in Controllers
    PROVE  /\ [x EXCEPT !.id = @ + 1] \in Controllers
           /\ [x EXCEPT !.id = @ + 1].id = x.id + 1
           /\ [x EXCEPT !.started = TRUE, !.id = @ + 1] \in Controllers
           /\ [x EXCEPT !.started = TRUE, !.id = @ + 1].id = x.id + 1
<1>1. x.id + 1 \in Nat
  BY DEF Controllers
<1> QED BY <1>1 DEF Controllers

\* A save begins.
LEMMA SaveStep ==
    ASSUME DesktopInv, NEW p \in Profiles, NEW follow \in {"none", "quit", "apply", "toggle"},
           Save(p, follow)
    PROVE  DesktopInv'
<1> DEFINE q == Pending("save", "saving", None, p, follow)
<1>1. /\ DesktopTypeOK /\ WindowInv(s, c.id, toBridge, toUi)
      /\ s \in Sessions /\ c \in Controllers /\ c.id \in Nat
      /\ toBridge \in Seq(Requests) /\ toUi \in Seq(Messages)
  BY DEF DesktopInv, DesktopTypeOK, Controllers
<1>2. /\ ~Busy(s) /\ s' = BeginsSave(s, p, follow)
      /\ UNCHANGED <<d, late, feed, bridge, toBridge, toUi>>
  BY DEF Save, MaySave
<1>3. q \in Pendings /\ q.stage = "saving" /\ q.cand = p
  BY DEF Pending, Pendings
<1>4. s' = [s EXCEPT !.pending = q, !.err = None, !.clean = FALSE]
  BY <1>2 DEF BeginsSave
<1> HIDE DEF q
<1>5. /\ s' \in Sessions /\ s'.pending = q /\ s'.epoch = s.epoch /\ s'.known = s.known
      /\ s'.status = s.status /\ s'.rev = s.rev /\ s'.applied = s.applied
  BY <1>1, <1>3, <1>4 DEF Sessions
<1>6. p # None
  BY NoneAssumption
<1>7. ~In(s, "reply") /\ ~In(s, "snapshot") /\ ~In(s', "reply") /\ ~In(s', "snapshot")
  BY <1>2, <1>3, <1>5 DEF In, Busy
<1>8. SessionShape(s')
  BY <1>1, <1>3, <1>5, <1>6, <1>7 DEF WindowInv, SessionShape
<1>9. c' \in Controllers /\ c'.id = c.id
  <2>1. NewCycle(c) \in Controllers /\ NewCycle(c).id = c.id
    BY <1>1 DEF NewCycle, Controllers
  <2>2. CASE follow = "apply"
    <3>1. c' = [NewCycle(c) EXCEPT !.profile = p]
      BY <2>2 DEF Save
    <3> QED BY <2>1, <3>1 DEF Controllers
  <2>3. CASE follow # "apply"
    <3>1. c' = [c EXCEPT !.profile = p]
      BY <2>3 DEF Save
    <3> QED BY <1>1, <3>1 DEF Controllers
  <2> QED BY <2>2, <2>3
<1>10. WindowInv(s', c'.id, toBridge', toUi')
  <2>1. WindowInv(s', c.id, toBridge, toUi)
    BY <1>1, <1>5, <1>7, <1>8, WindowStays
  <2> QED BY <1>2, <1>9, <2>1
<1>11. DesktopTypeOK'
  <2>1. used' \in [user: Nat, other: Nat, faults: Nat]
    BY <1>1, UsedTyped DEF Save, Counted
  <2> QED BY <1>1, <1>2, <1>5, <1>9, <2>1, WindowTyped
<1> QED BY <1>2, <1>10, <1>11, WindowPrimed

\* A request is made by the user.
LEMMA AskStep ==
    ASSUME DesktopInv, NEW op \in Asked, NEW p \in Profiles \cup {None},
           op \in {"apply", "toggle"} => p \in Profiles, MayRequest(s, op, p),
           s' = Requested(s, op, p, c.id), c' \in Controllers, c'.id = c.id + 1,
           toBridge' = Append(toBridge, [op |-> op, id |-> c.id, prof |-> p]),
           used' \in [user: Nat, other: Nat, faults: Nat],
           UNCHANGED <<d, late, feed, bridge, toUi>>
    PROVE  DesktopInv'
<1>1. /\ DesktopTypeOK /\ BridgeShape /\ WindowInv(s, c.id, toBridge, toUi)
      /\ s \in Sessions /\ c.id \in Nat
      /\ toBridge \in Seq(Requests) /\ toUi \in Seq(Messages)
  BY DEF DesktopInv, DesktopTypeOK, Controllers
<1>2. /\ s' \in Sessions /\ toBridge' \in Seq(Requests)
      /\ WindowInv(s', c.id + 1, toBridge', toUi)
  BY <1>1, WindowAsks
<1>3. WindowInv(s', c'.id, toBridge', toUi')
  BY <1>2
<1>4. DesktopTypeOK'
  BY <1>1, <1>2, WindowTyped
<1> QED BY <1>3, <1>4, WindowPrimed

\* What the user does.
LEMMA UserStep ==
    ASSUME DesktopInv, UserActs
    PROVE  DesktopInv'
<1>1. /\ DesktopTypeOK /\ WindowInv(s, c.id, toBridge, toUi) /\ SessionShape(s)
      /\ s \in Sessions /\ c \in Controllers /\ c.id \in Nat /\ c.profile \in Profiles
      /\ toBridge \in Seq(Requests) /\ toUi \in Seq(Messages)
  BY DEF DesktopInv, DesktopTypeOK, Controllers, WindowInv
<1>2. ASSUME NEW p \in Profiles, Edit(p) PROVE DesktopInv'
  BY <1>2, SaveStep DEF Edit
<1>3. CASE Enable
  BY <1>1, <1>3, SaveStep DEF Enable
<1>4. CASE ChangeLanguage
  BY <1>1, <1>4, SaveStep DEF ChangeLanguage
<1>5. ASSUME NEW op \in {"deactivate", "launch"}, Ask(op) PROVE DesktopInv'
  <2> DEFINE p == IF op = "launch" THEN c.profile ELSE None
  <2>1. /\ MayRequest(s, op, p) /\ s' = Requested(s, op, p, c.id)
        /\ c' = [c EXCEPT !.id = @ + 1]
        /\ toBridge' = Append(toBridge, [op |-> op, id |-> c.id, prof |-> p])
        /\ used' = [used EXCEPT !.user = @ + 1]
        /\ UNCHANGED <<d, late, feed, bridge, toUi>>
    BY <1>5 DEF Ask, Counted
  <2>2. op \in Asked /\ op \notin {"apply", "toggle"} /\ p \in Profiles \cup {None}
    BY <1>1 DEF Asked
  <2>3. c' \in Controllers /\ c'.id = c.id + 1
    BY <1>1, <2>1, NextId
  <2>4. used' \in [user: Nat, other: Nat, faults: Nat]
    BY <1>1, <2>1, UsedTyped
  <2> HIDE DEF p
  <2> QED BY <2>1, <2>2, <2>3, <2>4, AskStep
<1>6. CASE RefreshStatus
  <2>1. /\ toBridge' = Append(toBridge, Refresh) /\ used' = [used EXCEPT !.user = @ + 1]
        /\ UNCHANGED <<d, late, feed, bridge, toUi, s, c>>
    BY <1>6 DEF RefreshStatus, Counted
  <2>2. WindowInv(s, c.id, Append(toBridge, Refresh), toUi)
    BY <1>1, WindowStays
  <2>3. Refresh \in Requests
    BY DEF Requests
  <2>4. Append(toBridge, Refresh) \in Seq(Requests)
    BY <1>1, <2>3, Appended
  <2>5. DesktopTypeOK'
    BY <1>1, <2>1, <2>4, UsedTyped, WindowTyped
  <2>6. WindowInv(s', c'.id, toBridge', toUi')
    BY <2>1, <2>2
  <2> QED BY <2>1, <2>5, <2>6, WindowPrimed
<1>7. CASE ConfirmRecovery
  <2>1. UNCHANGED <<d, late, feed, bridge, toUi, used>>
    BY <1>7 DEF ConfirmRecovery
  <2>2. CASE MayRequest(s, "recover", None)
    <3>1. /\ s' = Requested(s, "recover", None, c.id)
          /\ c' = [c EXCEPT !.started = TRUE, !.id = @ + 1]
          /\ toBridge' = Append(toBridge, [op |-> "recover", id |-> c.id, prof |-> None])
      BY <1>7, <2>2 DEF ConfirmRecovery
    <3>2. c' \in Controllers /\ c'.id = c.id + 1 /\ "recover" \in Asked
      BY <1>1, <3>1, NextId DEF Asked
    <3>3. used' \in [user: Nat, other: Nat, faults: Nat]
      BY <1>1, <2>1, UsedTyped
    <3> QED BY <2>1, <2>2, <3>1, <3>2, <3>3, AskStep
  <2>3. CASE ~MayRequest(s, "recover", None)
    <3>1. UNCHANGED <<s, c, toBridge>>
      BY <1>7, <2>3 DEF ConfirmRecovery
    <3>2. WindowInv(s', c'.id, toBridge', toUi')
      BY <1>1, <2>1, <3>1
    <3>3. DesktopTypeOK'
      BY <1>1, <2>1, <3>1, UsedTyped, WindowTyped
    <3> QED BY <2>1, <3>2, <3>3, WindowPrimed
  <2> QED BY <2>2, <2>3
<1>8. CASE CancelRecovery
  <2>1. /\ c' = [c EXCEPT !.recovery = None, !.started = FALSE, !.retry = FALSE]
        /\ UNCHANGED <<d, late, feed, bridge, toBridge, toUi, s, used>>
    BY <1>8 DEF CancelRecovery
  <2>2. c' \in Controllers /\ c'.id = c.id
    BY <1>1, <2>1 DEF Controllers
  <2>3. WindowInv(s', c'.id, toBridge', toUi')
    BY <1>1, <2>1, <2>2
  <2>4. DesktopTypeOK'
    BY <1>1, <2>1, <2>2, UsedTyped, WindowTyped
  <2> QED BY <2>1, <2>3, <2>4, WindowPrimed
<1> QED BY <1>2, <1>3, <1>4, <1>5, <1>6, <1>7, <1>8 DEF UserActs

\* The save thread is done.
LEMMA SavedStep ==
    ASSUME DesktopInv, Saved
    PROVE  DesktopInv'
<1> DEFINE p == s.pending.cand
           op == s.pending.follow
           done == [s EXCEPT !.pending = None, !.saved = p]
<1>1. /\ DesktopTypeOK /\ WindowInv(s, c.id, toBridge, toUi) /\ SessionShape(s)
      /\ s \in Sessions /\ c \in Controllers /\ c.id \in Nat
      /\ toBridge \in Seq(Requests) /\ toUi \in Seq(Messages)
  BY DEF DesktopInv, DesktopTypeOK, Controllers, WindowInv
<1>2. In(s, "saving") /\ UNCHANGED <<d, late, feed, bridge, toUi>>
  BY DEF Saved
<1>3. p \in Profiles /\ op \in {"none", "quit", "apply", "toggle"}
  BY <1>1, <1>2 DEF SessionShape, In, Sessions, Pendings
<1>4. ~In(s, "reply") /\ ~In(s, "snapshot")
  BY <1>2 DEF In
<1>5. /\ done \in Sessions /\ done.pending = None /\ done.epoch = s.epoch /\ done.known = s.known
      /\ done.status = s.status /\ done.rev = s.rev /\ done.applied = s.applied
  BY <1>1, <1>3 DEF Sessions
<1>6. \/ /\ Fault("save")
         /\ s' = [s EXCEPT !.pending = None, !.writable = FALSE]
         /\ UNCHANGED <<c, toBridge>>
      \/ /\ s' = done /\ c' = [c EXCEPT !.gone = op = "quit"] /\ UNCHANGED <<toBridge, used>>
      \/ /\ op \in {"apply", "toggle"} /\ MayRequest(done, op, p)
         /\ s' = Requested(done, op, p, c.id)
         /\ c' = [c EXCEPT !.id = @ + 1]
         /\ toBridge' = Append(toBridge, [op |-> op, id |-> c.id, prof |-> p])
         /\ UNCHANGED used
      \/ s' = done /\ toBridge' = Append(toBridge, Refresh) /\ UNCHANGED <<c, used>>
  BY DEF Saved
<1> HIDE DEF p, op, done
<1>7. SessionShape(done) /\ ~In(done, "reply") /\ ~In(done, "snapshot")
  BY <1>1, <1>5 DEF SessionShape, In
<1>8. /\ WindowInv(done, c.id, toBridge, toUi)
      /\ WindowInv(done, c.id, Append(toBridge, Refresh), toUi)
  BY <1>1, <1>4, <1>5, <1>7, WindowStays
<1>9. CASE /\ Fault("save")
           /\ s' = [s EXCEPT !.pending = None, !.writable = FALSE]
           /\ UNCHANGED <<c, toBridge>>
  <2>1. /\ s' \in Sessions /\ s'.pending = None /\ s'.epoch = s.epoch /\ s'.known = s.known
        /\ s'.status = s.status /\ s'.rev = s.rev /\ s'.applied = s.applied
    BY <1>1, <1>9 DEF Sessions
  <2>2. SessionShape(s') /\ ~In(s', "reply") /\ ~In(s', "snapshot")
    BY <1>1, <2>1 DEF SessionShape, In
  <2>3. WindowInv(s', c.id, toBridge, toUi)
    BY <1>1, <1>4, <2>1, <2>2, WindowStays
  <2>4. WindowInv(s', c'.id, toBridge', toUi')
    BY <1>2, <1>9, <2>3
  <2>5. DesktopTypeOK'
    BY <1>1, <1>2, <1>9, <2>1, UsedTyped, WindowTyped DEF Fault
  <2> QED BY <1>2, <2>4, <2>5, WindowPrimed
<1>10. CASE /\ s' = done /\ c' = [c EXCEPT !.gone = op = "quit"] /\ UNCHANGED <<toBridge, used>>
  <2>1. c' \in Controllers /\ c'.id = c.id
    BY <1>1, <1>10 DEF Controllers
  <2>2. WindowInv(s', c'.id, toBridge', toUi')
    BY <1>2, <1>8, <1>10, <2>1
  <2>3. DesktopTypeOK'
    BY <1>1, <1>2, <1>5, <1>10, <2>1, UsedTyped, WindowTyped
  <2> QED BY <1>2, <2>2, <2>3, WindowPrimed
<1>11. CASE /\ op \in {"apply", "toggle"} /\ MayRequest(done, op, p)
            /\ s' = Requested(done, op, p, c.id)
            /\ c' = [c EXCEPT !.id = @ + 1]
            /\ toBridge' = Append(toBridge, [op |-> op, id |-> c.id, prof |-> p])
            /\ UNCHANGED used
  <2>1. op \in Asked /\ BridgeShape
    BY <1>11 DEF Asked, DesktopInv
  <2>2. /\ s' \in Sessions /\ toBridge' \in Seq(Requests)
        /\ WindowInv(s', c.id + 1, toBridge', toUi)
    BY <1>1, <1>3, <1>5, <1>8, <1>11, <2>1, WindowAsks
  <2>3. c' \in Controllers /\ c'.id = c.id + 1
    BY <1>1, <1>11, NextId
  <2>4. WindowInv(s', c'.id, toBridge', toUi')
    BY <1>2, <2>2, <2>3
  <2>5. DesktopTypeOK'
    BY <1>1, <1>2, <1>11, <2>2, <2>3, UsedTyped, WindowTyped
  <2> QED BY <1>2, <2>4, <2>5, WindowPrimed
<1>12. CASE s' = done /\ toBridge' = Append(toBridge, Refresh) /\ UNCHANGED <<c, used>>
  <2>1. Refresh \in Requests
    BY DEF Requests
  <2>2. toBridge' \in Seq(Requests)
    BY <1>1, <1>12, <2>1, Appended
  <2>3. WindowInv(s', c'.id, toBridge', toUi')
    BY <1>2, <1>8, <1>12
  <2>4. DesktopTypeOK'
    BY <1>1, <1>2, <1>5, <1>12, <2>2, UsedTyped, WindowTyped
  <2> QED BY <1>2, <2>3, <2>4, WindowPrimed
<1> QED BY <1>6, <1>9, <1>10, <1>11, <1>12

\* The window takes a message; after a recovery it may submit its application again.
LEMMA ReceiveStep ==
    ASSUME DesktopInv, Receive
    PROVE  DesktopInv'
<1> DEFINE m == Head(toUi)
           u == Handled(s, m)
           x == Notes(c, s, m)
           asks == IF AsksRefresh(s, m) THEN <<Refresh>> ELSE <<>>
           shown == [x EXCEPT !.profile = IF m.kind = "snapshot" /\ u.known /\ u.clean /\ ~Busy(u)
                                             /\ m.profile # None
                                          THEN m.profile ELSE @]
           spent == [shown EXCEPT !.retry = FALSE, !.used = TRUE, !.recovery = None]
           next == IF AsksRefresh(s, m) THEN Append(toBridge, Refresh) ELSE toBridge
<1>1. /\ DesktopTypeOK /\ BridgeShape /\ WindowInv(s, c.id, toBridge, toUi) /\ SessionShape(s)
      /\ s \in Sessions /\ c \in Controllers /\ c.id \in Nat
      /\ toBridge \in Seq(Requests) /\ toUi \in Seq(Messages)
  BY DEF DesktopInv, DesktopTypeOK, Controllers, WindowInv
<1>2. toUi # <<>> /\ toUi' = Tail(toUi) /\ UNCHANGED <<d, late, feed, bridge, used>>
  BY DEF Receive
<1>3. m \in Messages /\ toUi' \in Seq(Messages)
  BY <1>1, <1>2, Taken
<1>4. u \in Sessions /\ WindowInv(u, c.id, next, toUi')
  BY <1>1, <1>2, MessageHandled
<1>5. toBridge \o asks = next /\ next \in Seq(Requests)
  <2>1. Refresh \in Requests
    BY DEF Requests
  <2>2. toBridge \o <<>> = toBridge /\ toBridge \o <<Refresh>> = Append(toBridge, Refresh)
    BY <1>1, <2>1
  <2> QED BY <1>1, <2>1, <2>2, Appended
<1>6. x \in Controllers /\ x.id = c.id
  <2>1. In(s, "reply") => s.pending.cand \in Profiles \cup {None}
    BY <1>1 DEF In, Sessions, Pendings
  <2>2. m.kind = "response" /\ Answers(s, m) => s.pending.cand \in Profiles \cup {None}
    BY <2>1 DEF Answers
  <2> DEFINE mine == m.kind = "response" /\ Answers(s, m)
             rec == IF mine /\ m.err = "orphan" /\ s.pending.kind = "apply" /\ ~c.used
                    THEN s.pending.cand ELSE c.recovery
             ret == c.retry \/ (mine /\ m.result = "recovered")
  <2>3. x = [c EXCEPT !.recovery = rec, !.retry = ret]
    BY DEF Notes
  <2>4. rec \in Profiles \cup {None}
    BY <1>1, <2>2 DEF Controllers
  <2>5. ret \in BOOLEAN
    BY <1>1 DEF Controllers
  <2> HIDE DEF rec, ret, x
  <2> QED BY <1>1, <2>3, <2>4, <2>5 DEF Controllers
<1>7. shown \in Controllers /\ shown.id = c.id
  <2>1. m.profile \in Profiles \cup {None}
    BY <1>3 DEF Messages
  <2> HIDE DEF x, u, m
  <2> QED BY <1>6, <2>1 DEF Controllers
<1>8. spent \in Controllers /\ spent.id = c.id
  <2> HIDE DEF shown
  <2> QED BY <1>7 DEF Controllers
<1>9. \/ s' = u /\ c' = shown /\ toBridge' = toBridge \o asks
      \/ /\ m.kind = "snapshot" /\ x.recovery # None /\ MayRequest(u, "apply", x.recovery)
         /\ s' = Requested(u, "apply", x.recovery, c.id)
         /\ c' = [spent EXCEPT !.id = @ + 1]
         /\ toBridge' = Append(toBridge, [op |-> "apply", id |-> c.id, prof |-> x.recovery])
      \/ m.kind = "snapshot" /\ s' = u /\ c' = spent /\ UNCHANGED toBridge
  BY DEF Receive
<1>10. m.kind = "snapshot" => next = toBridge
  BY DEF AsksRefresh
<1> HIDE DEF m, u, x, asks, shown, spent, next
<1>11. CASE s' = u /\ c' \in {shown, spent} /\ toBridge' = next
  <2>1. WindowInv(s', c'.id, toBridge', toUi')
    BY <1>4, <1>7, <1>8, <1>11
  <2>2. DesktopTypeOK'
    BY <1>1, <1>2, <1>3, <1>4, <1>5, <1>7, <1>8, <1>11, UsedTyped, WindowTyped
  <2> QED BY <1>2, <2>1, <2>2, WindowPrimed
<1>12. CASE /\ m.kind = "snapshot" /\ x.recovery # None /\ MayRequest(u, "apply", x.recovery)
            /\ s' = Requested(u, "apply", x.recovery, c.id)
            /\ c' = [spent EXCEPT !.id = @ + 1]
            /\ toBridge' = Append(toBridge, [op |-> "apply", id |-> c.id, prof |-> x.recovery])
  <2>1. x.recovery \in Profiles /\ "apply" \in Asked
    BY <1>6, <1>12 DEF Controllers, Asked
  <2>2. WindowInv(u, c.id, toBridge, toUi')
    BY <1>4, <1>10, <1>12
  <2>3. /\ s' \in Sessions /\ toBridge' \in Seq(Requests)
        /\ WindowInv(s', c.id + 1, toBridge', toUi')
    BY <1>1, <1>3, <1>4, <1>12, <2>1, <2>2, WindowAsks
  <2>4. c' \in Controllers /\ c'.id = c.id + 1
    BY <1>8, <1>12, NextId
  <2>5. WindowInv(s', c'.id, toBridge', toUi')
    BY <2>3, <2>4
  <2>6. DesktopTypeOK'
    BY <1>1, <1>2, <1>3, <2>3, <2>4, UsedTyped, WindowTyped
  <2> QED BY <1>2, <2>5, <2>6, WindowPrimed
<1> QED BY <1>5, <1>9, <1>10, <1>11, <1>12

-----------------------------------------------------------------------------
(* The daemon moves *)

\* Whatever the status is made of changes with its sequence.
Moves(x, y) == y.seq = x.seq + 1 \/ (y.seq = x.seq /\ y.gen = x.gen /\ y.app = x.app)
\* Nobody deactivated.
Climbs(x, y) ==
    /\ x.gen <= y.gen
    /\ x.app # None => y.app # None
    /\ x.app # None /\ y.gen = x.gen => y.app = x.app

LEMMA MutatedMoves ==
    ASSUME NEW x \in Daemons, NEW op \in Asked \cup {"fail", "refresh", "orphan"},
           NEW p \in Profiles \cup {None},
           op \in {"apply", "toggle", "fail"} => p \in Profiles, ~Refuses(x, op)
    PROVE  /\ Mutated(x, op, p) \in Daemons
           /\ Moves(x, Mutated(x, op, p))
           /\ op # "deactivate" => Climbs(x, Mutated(x, op, p))
           /\ op \in {"apply", "toggle"} => /\ Mutated(x, op, p).gen = x.gen + 1
                                            /\ Mutated(x, op, p).app # None
           /\ OneBase /\ op \in {"apply", "toggle"} => Mutated(x, op, p).app = p
<1> DEFINE y == Mutated(x, op, p)
           content == IF op = "toggle" THEN Switched(x.desired, p.on) ELSE p
<1>1. /\ x.seq \in Nat /\ x.gen \in Nat /\ x.app \in Profiles \cup {None}
      /\ x.desired \in Profiles \cup {None} /\ x.orphan \in BOOLEAN
  BY DEF Daemons
<1>2. x.seq + 1 \in Nat /\ x.gen + 1 \in Nat /\ 0 \in Nat
  BY <1>1
<1>3. None \notin Profiles
  BY NoneAssumption
<1>4. CASE op \in {"apply", "toggle"}
  <2>1. content \in Profiles
    BY <1>1, <1>4 DEF Refuses, Switched, Profiles
  <2>2. OneBase => content = p
    <3> SUFFICES ASSUME OneBase, op = "toggle" PROVE Switched(x.desired, p.on) = p
      OBVIOUS
    <3>1. x.desired \in Profiles /\ p \in Profiles
      BY <1>1, <1>4 DEF Refuses
    <3>2. x.desired.base = p.base
      BY <3>1 DEF OneBase, Profiles
    <3> QED BY <3>1, <3>2 DEF Switched, Profiles
  <2>3. y = [x EXCEPT !.seq = @ + 1, !.gen = @ + 1, !.app = content, !.desired = content]
    BY <1>4 DEF Mutated
  <2> HIDE DEF content, y
  <2>4. /\ y \in Daemons /\ y.seq = x.seq + 1 /\ y.gen = x.gen + 1 /\ y.app = content
    BY <1>1, <1>2, <2>1, <2>3 DEF Daemons
  <2>5. Moves(x, y) /\ Climbs(x, y)
    BY <1>1, <1>3, <2>1, <2>4 DEF Moves, Climbs
  <2> QED BY <1>3, <2>1, <2>2, <2>4, <2>5 DEF y
<1>5. CASE op = "fail"
  <2>1. y = [x EXCEPT !.seq = @ + 1, !.desired = p]
    BY <1>5 DEF Mutated
  <2> HIDE DEF y
  <2>2. y \in Daemons /\ y.seq = x.seq + 1 /\ y.gen = x.gen /\ y.app = x.app
    BY <1>1, <1>2, <2>1 DEF Daemons
  <2>3. Moves(x, y) /\ Climbs(x, y)
    BY <1>1, <2>2 DEF Moves, Climbs
  <2> QED BY <1>5, <2>2, <2>3 DEF y
<1>6. CASE op = "refresh"
  <2>1. y = [x EXCEPT !.seq = @ + 1, !.gen = @ + 1]
    BY <1>6 DEF Mutated
  <2> HIDE DEF y
  <2>2. y \in Daemons /\ y.seq = x.seq + 1 /\ y.gen = x.gen + 1 /\ y.app = x.app
    BY <1>1, <1>2, <2>1 DEF Daemons
  <2>3. Moves(x, y) /\ Climbs(x, y)
    BY <1>1, <2>2 DEF Moves, Climbs
  <2> QED BY <1>6, <2>2, <2>3 DEF y
<1>7. CASE op = "deactivate"
  <2>1. y = [x EXCEPT !.seq = @ + 1, !.gen = 0, !.app = None]
    BY <1>7 DEF Mutated
  <2> HIDE DEF y
  <2>2. y \in Daemons /\ y.seq = x.seq + 1
    BY <1>1, <1>2, <2>1 DEF Daemons
  <2>3. Moves(x, y)
    BY <2>2 DEF Moves
  <2> QED BY <1>7, <2>2, <2>3 DEF y
<1>8. CASE op \in {"recover", "orphan", "launch"}
  <2>1. PICK o \in BOOLEAN : y = [x EXCEPT !.orphan = o]
    <3>1. CASE op = "launch"
      <4>1. y = [x EXCEPT !.orphan = x.orphan]
        BY <3>1 DEF Mutated, Daemons
      <4> QED BY <1>1, <4>1
    <3>2. CASE op # "launch"
      BY <1>8, <3>2 DEF Mutated
    <3> QED BY <3>1, <3>2
  <2> HIDE DEF y
  <2>2. y \in Daemons /\ y.seq = x.seq /\ y.gen = x.gen /\ y.app = x.app
    BY <1>1, <2>1 DEF Daemons
  <2>3. Moves(x, y) /\ Climbs(x, y)
    BY <1>1, <2>2 DEF Moves, Climbs
  <2> QED BY <1>8, <2>2, <2>3 DEF y
<1> QED BY <1>4, <1>5, <1>6, <1>7, <1>8 DEF Asked

\* What the window has heard stays past, and what it has not is on the stream.
LEMMA FeedMoves ==
    ASSUME DesktopTypeOK, BridgeShape, FeedInv, d' \in Daemons, Moves(d, d'),
           feed' = Announced(d'),
           bridge'.sub = bridge.sub, bridge'.connecting = bridge.connecting,
           bridge'.lost = bridge.lost, bridge'.min = bridge.min,
           bridge'.status = bridge.status,
           bridge'.pc = bridge.pc \/ (bridge.pc = "request" /\ bridge'.pc = "idle")
    PROVE  /\ feed' \in Seq(Statuses) /\ FeedInv' /\ (Linked <=> Linked')
           /\ \A st \in Statuses : Past(st) => Past(st)'
           /\ Linked => Ahead' \/ (StatusOf(d)' = StatusOf(d) /\ (Ahead => Ahead'))
           /\ d'.seq = d.seq => d'.gen = d.gen
           /\ d.seq <= d'.seq /\ d.seq \in Nat /\ d'.seq \in Nat
<1>1. Linked <=> Linked'
  BY DEF Linked, Listening
<1>2. /\ d.seq \in Nat /\ d'.seq \in Nat /\ feed \in Seq(Statuses) /\ bridge.min \in Nat
      /\ bridge.status \in Statuses \cup {None}
  BY DEF DesktopTypeOK, Daemons, Bridges
<1>3. StatusOf(d) \in Statuses /\ StatusOf(d') \in Statuses /\ StatusOf(d').seq = d'.seq
  BY DEF DesktopTypeOK, Daemons, StatusOf, Statuses
<1>4. StatusOf(d)' = StatusOf(d')
  BY DEF StatusOf
<1>5. CASE d'.seq = d.seq
  <2>1. d'.gen = d.gen /\ d'.app = d.app
    BY <1>2, <1>5 DEF Moves
  <2>2. StatusOf(d)' = StatusOf(d)
    BY <1>5, <2>1 DEF StatusOf
  <2>3. feed' = feed
    BY <1>2, <1>5 DEF Announced
  <2>4. \A st : Past(st) => Past(st)'
    BY <1>5, <2>2 DEF Past
  <2>5. bridge'.pc = "profiles" <=> bridge.pc = "profiles"
    OBVIOUS
  <2>6. FeedInv'
    BY <1>1, <1>5, <2>2, <2>3, <2>4, <2>5 DEF FeedInv
  <2>7. Ahead => Ahead'
    BY <1>5, <2>3, <2>5 DEF Ahead
  <2> QED BY <1>1, <1>2, <1>5, <2>1, <2>2, <2>3, <2>4, <2>6, <2>7
<1>6. CASE d'.seq = d.seq + 1
  <2>1. d.seq < d'.seq /\ d'.seq # d.seq /\ d.seq <= d'.seq
    BY <1>2, <1>6
  <2>2. \A st \in Statuses : Past(st) => st.seq < d'.seq /\ Past(st)'
    <3> SUFFICES ASSUME NEW st \in Statuses, Past(st) PROVE st.seq < d'.seq
      BY DEF Past
    <3>1. st.seq \in Nat /\ st.seq <= d.seq
      BY PastIsPast
    <3> QED BY <1>2, <2>1, <3>1
  <2>3. feed' = IF Linked THEN Append(feed, StatusOf(d')) ELSE feed
    BY <1>2, <2>1 DEF Announced, Linked
  <2>4. /\ Append(feed, StatusOf(d')) \in Seq(Statuses)
        /\ ToSet(Append(feed, StatusOf(d'))) = ToSet(feed) \cup {StatusOf(d')}
        /\ Len(Append(feed, StatusOf(d'))) = Len(feed) + 1
        /\ Append(feed, StatusOf(d')) # <<>>
        /\ Append(feed, StatusOf(d'))[Len(feed) + 1] = StatusOf(d')
    BY <1>2, <1>3, Appended
  <2>5. feed' \in Seq(Statuses)
    BY <1>2, <2>3, <2>4
  <2>6. ASSUME Linked
        PROVE  /\ bridge.pc = "profiles" => bridge.status \in Statuses /\ Past(bridge.status)
               /\ ~bridge.connecting => bridge.min < d'.seq
               /\ \A st \in ToSet(feed) : st \in Statuses /\ Past(st)
    <3>1. bridge.pc = "profiles" => bridge.status \in Statuses /\ Past(bridge.status)
      BY <1>2, <2>6 DEF BridgeShape, FeedInv
    <3>2. ~bridge.connecting => bridge.min < d'.seq
      BY <1>2, <2>1, <2>6 DEF FeedInv
    <3>3. \A st \in ToSet(feed) : st \in Statuses /\ Past(st)
      BY <1>2, <2>6, Members DEF FeedInv
    <3> QED BY <3>1, <3>2, <3>3
  <2>7. bridge'.pc = "profiles" => bridge.pc = "profiles"
    OBVIOUS
  <2>8. FeedInv'
    <3> SUFFICES ASSUME Linked'
                 PROVE  /\ feed'[Len(feed')] = StatusOf(d)'
                        /\ \A st \in ToSet(feed') : Past(st)'
                        /\ bridge'.pc = "profiles" => Past(bridge.status)'
                        /\ ~bridge'.connecting => bridge'.min <= d'.seq
      BY DEF FeedInv
    <3>1. Linked /\ feed' = Append(feed, StatusOf(d'))
      BY <1>1, <2>3
    <3>2. feed'[Len(feed')] = StatusOf(d)'
      BY <1>4, <2>4, <3>1
    <3>3. Past(StatusOf(d))'
      BY DEF Past
    <3>4. \A st \in ToSet(feed') : Past(st)'
      BY <1>4, <2>2, <2>4, <2>6, <3>1, <3>3
    <3>5. bridge'.pc = "profiles" => Past(bridge.status)'
      BY <2>2, <2>6, <2>7, <3>1
    <3>6. ~bridge'.connecting => bridge'.min <= d'.seq
      BY <1>2, <2>6, <3>1
    <3> QED BY <3>2, <3>4, <3>5, <3>6
  <2>9. Linked => Ahead'
    <3> SUFFICES ASSUME Linked PROVE Ahead'
      OBVIOUS
    <3>1. feed' # <<>>
      BY <2>3, <2>4
    <3>2. bridge'.pc = "profiles" => d'.seq > bridge'.status.seq
      BY <2>2, <2>6, <2>7
    <3>3. ~bridge'.connecting => d'.seq > bridge'.min
      BY <2>6
    <3> QED BY <3>1, <3>2, <3>3 DEF Ahead
  <2> QED BY <1>1, <1>2, <2>1, <2>2, <2>5, <2>8, <2>9
<1> QED BY <1>5, <1>6 DEF Moves

\* What was applied stays applied, if nobody deactivates.
LEMMA HoldsOn ==
    ASSUME DesktopTypeOK, d' \in Daemons, Climbs(d, d'), NEW gen \in Nat, NEW p, Holds(gen, p)
    PROVE  Holds(gen, p)'
<1>1. d.gen \in Nat /\ d'.gen \in Nat
  BY DEF DesktopTypeOK, Daemons
<1>2. gen <= d.gen /\ d.gen <= d'.gen /\ d.app # None /\ d'.app # None
  BY DEF Holds, Climbs
<1>3. gen = d'.gen => gen = d.gen /\ d'.gen = d.gen
  BY <1>1, <1>2
<1> QED BY <1>1, <1>2, <1>3 DEF Holds, Climbs

\* The session's revision is past.
LEMMA KnowsOn ==
    ASSUME DesktopTypeOK, Knows(s), s' = s, d.seq <= d'.seq, d'.seq \in Nat,
           d'.seq = d.seq => d'.gen = d.gen, Linked <=> Linked', bridge'.epoch = bridge.epoch
    PROVE  Knows(s)'
<1>1. /\ d.seq \in Nat
      /\ s.rev # None => s.rev.seq \in Nat
  BY DEF DesktopTypeOK, Daemons, Sessions, Revisions
<1>2. Hears(s)' <=> Hears(s)
  BY DEF Hears
<1> QED BY <1>1, <1>2 DEF Knows

\* The daemon is changed by others, or by a request nobody waits for.
LEMMA DaemonActs ==
    ASSUME DesktopInv, d' \in Daemons, Moves(d, d'), feed' = Announced(d'),
           late' \in Seq(Mutations), late = <<>> => late' = <<>> /\ Climbs(d, d'),
           used' \in [user: Nat, other: Nat, faults: Nat],
           UNCHANGED <<bridge, toBridge, toUi, s, c>>
    PROVE  DesktopInv'
<1>1. /\ DesktopTypeOK /\ BridgeShape /\ FeedInv /\ WindowInv(s, c.id, toBridge, toUi)
      /\ s \in Sessions /\ c.id \in Nat /\ toBridge \in Seq(Requests) /\ toUi \in Seq(Messages)
  BY DEF DesktopInv, DesktopTypeOK, Controllers
<1>2. /\ feed' \in Seq(Statuses) /\ FeedInv' /\ (Linked <=> Linked')
      /\ \A st \in Statuses : Past(st) => Past(st)'
      /\ Linked => Ahead' \/ (StatusOf(d)' = StatusOf(d) /\ (Ahead => Ahead'))
      /\ d'.seq = d.seq => d'.gen = d.gen
      /\ d.seq <= d'.seq /\ d.seq \in Nat /\ d'.seq \in Nat
  BY <1>1, FeedMoves
<1>3. DesktopTypeOK' /\ BridgeShape'
  BY <1>1, <1>2 DEF DesktopTypeOK, BridgeShape
<1>4. SessionShape(s)' /\ \A m \in ToSet(toUi') : MessageShape(m)
  BY <1>1 DEF WindowInv, SessionShape, In
<1>5. Introduced(s, toUi)'
  BY <1>1 DEF WindowInv, Introduced, Current
<1>6. Ordered(s, c.id, toBridge, toUi)'
  BY <1>1 DEF WindowInv, Ordered, Increasing, InTurn, Answered, In
<1>7. Told(toUi)'
  <2>1. \A m \in ToSet(toUi) : m.kind \in {"snapshot", "event"} => m.status \in Statuses
    BY <1>1, MessagesTyped DEF WindowInv
  <2>2. Told(toUi)
    BY <1>1 DEF WindowInv
  <2> QED BY <1>2, <2>1, <2>2 DEF Told, Current
<1>8. Knows(s)'
  BY <1>1, <1>2, KnowsOn DEF WindowInv
<1>9. Coming(s, toBridge, toUi)'
  <2>1. StatusOf(d)' = StatusOf(d) =>
          /\ UpToDate(s) => UpToDate(s)'
          /\ \A m \in ToSet(toUi) : Announces(m, s) => Announces(m, s)'
          /\ Reads => Reads'
    BY DEF UpToDate, Announces, Current, Reads, In
  <2> QED BY <1>1, <1>2, <2>1 DEF WindowInv, Coming
<1>10. Waited(s, toBridge, toUi)'
  BY <1>1, <1>2 DEF WindowInv, Waited, Hears, Current, In, IsAsked, AnswerTo
<1>11. Asking(s, toBridge, toUi)'
  <2> SUFFICES ASSUME In(s, "reply")
               PROVE  /\ \A r \in ToSet(toBridge) : IsAsked(r) => Faithful(r, s)
                      /\ bridge.req # None => Faithful(bridge.req, s)
                      /\ \A m \in ToSet(toUi) : AnswerTo(m, s.pending.id) =>
                           /\ m.result = "applied" =>
                                s.pending.cand # None /\ Holds(m.gen, s.pending.cand)'
                           /\ m.result = "deactivated" => s.pending.kind = "deactivate"
    BY DEF Asking, In, Faithful, IsAsked, AnswerTo, Holds
  <2>1. ASSUME NEW m \in ToSet(toUi), AnswerTo(m, s.pending.id), m.result = "applied"
        PROVE  s.pending.cand # None /\ Holds(m.gen, s.pending.cand)'
    <3>1. late = <<>>
      BY <1>1, <2>1, LastAnswer
    <3>2. s.pending.cand # None /\ Holds(m.gen, s.pending.cand)
      BY <1>1, <2>1 DEF WindowInv, Asking
    <3>3. m.gen \in Nat
      BY <1>1, <2>1, MessagesTyped DEF WindowInv
    <3>4. Climbs(d, d')
      BY <3>1
    <3> QED BY <1>1, <3>2, <3>3, <3>4, HoldsOn
  <2> QED BY <1>1, <2>1 DEF WindowInv, Asking
<1>12. Awaiting(s, toBridge)'
  <2> SUFFICES ASSUME In(s, "snapshot")
               PROVE  NothingAsked(toBridge) /\ late' = <<>> /\ s.pending.exp <= d'.gen
    BY DEF Awaiting, In, NothingAsked, IsAsked
  <2>1. NothingAsked(toBridge) /\ late = <<>> /\ s.pending.exp <= d.gen
    BY <1>1 DEF WindowInv, Awaiting
  <2>2. s.pending.exp \in Nat
    BY <1>1 DEF WindowInv, SessionShape, In, Sessions, Pendings
  <2>3. d.gen <= d'.gen /\ d.gen \in Nat /\ d'.gen \in Nat
    BY <1>1, <2>1 DEF Climbs, DesktopTypeOK, Daemons
  <2> QED BY <2>1, <2>2, <2>3
<1>13. Believed(s, toBridge, toUi)'
  <2> SUFFICES ASSUME Hears(s), s.applied # None
               PROVE  /\ late' = <<>>
                      /\ NothingAsked(toBridge) \/ OnlyAsked(s, toBridge)
                      /\ Holds(s.applied.gen, s.applied.prof)' \/ Doomed(s, toUi)
    BY <1>2 DEF Believed, Hears, NothingAsked, OnlyAsked, Doomed, IsAsked, AnswerTo, Current, In
  <2>1. /\ late = <<>>
        /\ NothingAsked(toBridge) \/ OnlyAsked(s, toBridge)
        /\ Holds(s.applied.gen, s.applied.prof) \/ Doomed(s, toUi)
    BY <1>1 DEF WindowInv, Believed
  <2>2. s.applied.gen \in Nat
    BY <1>1 DEF Sessions, Applications
  <2>3. Holds(s.applied.gen, s.applied.prof) => Holds(s.applied.gen, s.applied.prof)'
    BY <1>1, <2>1, <2>2, HoldsOn
  <2> QED BY <2>1, <2>3
<1> QED BY <1>2, <1>3, <1>4, <1>5, <1>6, <1>7, <1>8, <1>9, <1>10, <1>11, <1>12, <1>13
        DEF DesktopInv, WindowInv

\* Another client, or the helper.
LEMMA OtherStep ==
    ASSUME DesktopInv, NEW op \in Others \ {"deactivate"}, NEW p \in Profiles, Other(op, p)
    PROVE  DesktopInv'
<1>1. DesktopTypeOK /\ d \in Daemons /\ late \in Seq(Mutations)
  BY DEF DesktopInv, DesktopTypeOK
<1>2. op \in {"apply", "fail", "refresh", "orphan"}
  BY DesktopAssumption DEF AllOthers
<1>3. /\ ~Refuses(d, op) /\ d' = Mutated(d, op, p) /\ feed' = Announced(d')
      /\ used' = [used EXCEPT !.other = @ + 1]
      /\ UNCHANGED <<late, bridge, toBridge, toUi, s, c>>
  BY DEF Other
<1>4. /\ op \in Asked \cup {"fail", "refresh", "orphan"} /\ op # "deactivate"
      /\ p \in Profiles \cup {None}
  BY <1>2 DEF Asked
<1>5. d' \in Daemons /\ Moves(d, d') /\ Climbs(d, d')
  BY <1>1, <1>3, <1>4, MutatedMoves
<1>6. used' \in [user: Nat, other: Nat, faults: Nat]
  BY <1>1, <1>3, UsedTyped
<1>7. late' \in Seq(Mutations) /\ (late = <<>> => late' = <<>>)
  BY <1>1, <1>3
<1> QED BY <1>3, <1>5, <1>6, <1>7, DaemonActs

\* A request that timed out gets the daemon's lock.
LEMMA LateStep ==
    ASSUME DesktopInv, LateRuns
    PROVE  DesktopInv'
<1> DEFINE r == Head(late)
<1>1. DesktopTypeOK /\ d \in Daemons /\ late \in Seq(Mutations)
  BY DEF DesktopInv, DesktopTypeOK
<1>2. /\ late # <<>> /\ late' = Tail(late)
      /\ d' = IF Refuses(d, r.op) THEN d ELSE Mutated(d, r.op, r.prof)
      /\ feed' = Announced(d')
      /\ UNCHANGED <<bridge, toBridge, toUi, s, c, used>>
  BY DEF LateRuns
<1>3. r \in Mutations /\ late' \in Seq(Mutations)
  BY <1>1, <1>2, Taken
<1> HIDE DEF r
<1>4. /\ r.op \in Asked /\ r.prof \in Profiles \cup {None}
      /\ r.op \in {"apply", "toggle"} => r.prof \in Profiles
  BY <1>3 DEF Mutations
<1>5. d' \in Daemons /\ Moves(d, d')
  <2>1. CASE Refuses(d, r.op)
    BY <1>1, <1>2, <2>1 DEF Moves
  <2>2. CASE ~Refuses(d, r.op)
    <3>1. r.op # "fail"
      BY <1>4 DEF Asked
    <3> QED BY <1>1, <1>2, <1>4, <2>2, <3>1, MutatedMoves
  <2> QED BY <2>1, <2>2
<1>6. used' \in [user: Nat, other: Nat, faults: Nat]
  BY <1>1, <1>2, UsedTyped
<1> QED BY <1>2, <1>3, <1>5, <1>6, DaemonActs

-----------------------------------------------------------------------------
(* The bridge speaks *)

\* One message more over the connection there is.
LEMMA Spoken ==
    ASSUME DesktopTypeOK, Introduced(s, toUi), InTurn(toUi), \A m \in ToSet(toUi) : MessageShape(m),
           NEW x \in Messages, MessageShape(x), toUi' = Append(toUi, x), x.epoch = bridge.epoch,
           x.kind = "response" => \A m \in ToSet(toUi) : m.kind = "response" => m.id < x.id,
           s' = s, bridge'.epoch = bridge.epoch
    PROVE  /\ toUi' \in Seq(Messages) /\ ToSet(toUi') = ToSet(toUi) \cup {x}
           /\ Introduced(s, toUi)' /\ InTurn(toUi)' /\ \A m \in ToSet(toUi') : MessageShape(m)
           /\ Current(x)'
<1>1. toUi \in Seq(Messages) /\ bridge.epoch \in Nat
  BY DEF DesktopTypeOK, Bridges
<1>2. /\ toUi' \in Seq(Messages) /\ ToSet(toUi') = ToSet(toUi) \cup {x}
      /\ Len(toUi') = Len(toUi) + 1 /\ \A i \in 1..Len(toUi) : toUi'[i] = toUi[i]
      /\ toUi'[Len(toUi) + 1] = x
  BY <1>1, Appended
<1>3. /\ DOMAIN toUi = 1..Len(toUi) /\ DOMAIN toUi' = 1..(Len(toUi) + 1) /\ Len(toUi) \in Nat
      /\ \A i \in DOMAIN toUi : toUi[i] \in ToSet(toUi)
  BY <1>1, <1>2, Members
<1>4. Introduced(s, toUi)'
  <2>1. s'.epoch <= bridge'.epoch
    BY DEF Introduced
  <2>2. \A m \in ToSet(toUi') : m.epoch <= bridge'.epoch
    BY <1>1, <1>2 DEF Introduced
  <2>3. ASSUME s.epoch < bridge.epoch
        PROVE  \E k \in DOMAIN toUi' :
                  /\ toUi'[k].kind = "established" /\ toUi'[k].epoch = bridge'.epoch
                  /\ \A j \in 1..(k - 1) : toUi'[j].epoch # bridge'.epoch
    <3>1. PICK k \in DOMAIN toUi :
                  /\ toUi[k].kind = "established" /\ Current(toUi[k])
                  /\ \A j \in 1..(k - 1) : ~Current(toUi[j])
      BY <2>3 DEF Introduced
    <3>2. k \in DOMAIN toUi' /\ \A j \in 1..k : toUi'[j] = toUi[j]
      BY <1>2, <1>3
    <3>3. \A j \in 1..(k - 1) : j \in 1..k
      BY <1>3
    <3>4. k \in 1..k
      BY <1>3
    <3> QED BY <3>1, <3>2, <3>3, <3>4 DEF Current
  <2> QED BY <2>1, <2>2, <2>3 DEF Introduced, Current
<1>5. InTurn(toUi')
  <2> SUFFICES ASSUME NEW i \in DOMAIN toUi', NEW j \in DOMAIN toUi', i < j,
                      toUi'[i].kind = "response", toUi'[j].kind = "response"
               PROVE  toUi'[i].id < toUi'[j].id
    BY DEF InTurn
  <2>1. i \in DOMAIN toUi /\ toUi'[i] = toUi[i]
    BY <1>2, <1>3
  <2>2. CASE j \in DOMAIN toUi
    <3>1. toUi'[j] = toUi[j]
      BY <1>2, <1>3, <2>2
    <3> QED BY <2>1, <2>2, <3>1 DEF InTurn
  <2>3. CASE j = Len(toUi) + 1
    BY <1>2, <1>3, <2>1, <2>3
  <2> QED BY <1>3, <2>2, <2>3
<1>6. InTurn(toUi)' /\ Current(x)'
  BY <1>5 DEF Current
<1> QED BY <1>2, <1>4, <1>6

\* Nothing is answered.
LEMMA StillOrdered ==
    ASSUME Ordered(s, c.id, toBridge, toUi), UNCHANGED <<toBridge, s, c>>, InTurn(toUi)',
           \A m \in ToSet(toUi') : m \in ToSet(toUi) \/ m.kind # "response",
           bridge'.req \in {bridge.req, None},
           \A m \in ToSet(toUi) :
              Answered(m, c.id, toBridge) /\ m.kind = "response" /\ m.id + 1 = c.id => late' = <<>>
    PROVE  Ordered(s, c.id, toBridge, toUi)'
<1>1. \A m \in ToSet(toUi') : Answered(m, c.id, toBridge)'
  <2> SUFFICES ASSUME NEW m \in ToSet(toUi'), m.kind = "response"
               PROVE  Answered(m, c.id, toBridge)'
    BY DEF Answered
  <2>1. m \in ToSet(toUi) /\ Answered(m, c.id, toBridge)
    BY DEF Ordered
  <2> QED BY <2>1 DEF Answered, IsAsked
<1> QED BY <1>1 DEF Ordered, Increasing, IsAsked, In

-----------------------------------------------------------------------------
(* Connections end *)

\* What is said to the window has its type.
LEMMA UnavailableTyped ==
    ASSUME DesktopTypeOK, NEW id \in Nat \cup {None}, NEW x,
           x = [Message("unavailable", bridge.epoch) EXCEPT !.id = id, !.err = "ipc"]
    PROVE  x \in Messages /\ MessageShape(x) /\ x.epoch = bridge.epoch /\ x.kind = "unavailable"
<1>1. bridge.epoch \in Nat /\ bridge.epoch + 1 \in Nat
  BY DEF DesktopTypeOK, Bridges
<1>2. None \notin Results /\ None \notin Statuses
  BY NoneAssumption
<1>3. "applied" \in Results /\ "ipc" \in Errors
  BY DEF Results, Errors
<1> QED BY <1>1, <1>2, <1>3 DEF Message, Messages, MessageShape

LEMMA EstablishedTyped ==
    ASSUME DesktopTypeOK, NEW x, x = Message("established", bridge.epoch + 1)
    PROVE  x \in Messages /\ MessageShape(x) /\ x.epoch = bridge.epoch + 1 /\ x.kind = "established"
<1>1. bridge.epoch \in Nat /\ bridge.epoch + 1 \in Nat
  BY DEF DesktopTypeOK, Bridges
<1>2. None \notin Results /\ None \notin Statuses
  BY NoneAssumption
<1>3. "applied" \in Results
  BY DEF Results
<1> QED BY <1>1, <1>2, <1>3 DEF Message, Messages, MessageShape

\* There is no number between two that follow each other.
LEMMA NothingBetween ==
    ASSUME NEW a \in Nat, NEW b \in Nat, NEW n \in Nat, a < b, b < n
    PROVE  a + 1 # n
OBVIOUS

\* The bridge has no stream any more: nothing is promised of it, and the
\* request is not answered.
LEMMA Disconnects ==
    ASSUME DesktopInv, DesktopTypeOK', BridgeShape', ~Linked', bridge'.req = None,
           bridge'.epoch = bridge.epoch, d'.gen = d.gen, d'.app = d.app,
           UNCHANGED <<toBridge, s, c>>,
           late = <<>> => late' = <<>> \/ bridge.req # None,
           \/ toUi' = toUi
           \/ \E id \in Nat \cup {None} :
                 Says([Message("unavailable", bridge.epoch) EXCEPT !.id = id, !.err = "ipc"])
    PROVE  DesktopInv'
<1>1. /\ DesktopTypeOK /\ BridgeShape /\ WindowInv(s, c.id, toBridge, toUi)
      /\ s \in Sessions /\ c.id \in Nat /\ toBridge \in Seq(Requests) /\ toUi \in Seq(Messages)
  BY DEF DesktopInv, DesktopTypeOK, Controllers
<1>2. SessionShape(s)'
  BY <1>1 DEF WindowInv, SessionShape, In
<1>3. /\ Introduced(s, toUi)' /\ InTurn(toUi)' /\ \A m \in ToSet(toUi') : MessageShape(m)
      /\ \A m \in ToSet(toUi') : m \in ToSet(toUi) \/ m.kind = "unavailable"
  <2>1. CASE toUi' = toUi
    BY <1>1, <2>1 DEF WindowInv, Ordered, Introduced, Current, InTurn
  <2>2. CASE \E id \in Nat \cup {None} :
               Says([Message("unavailable", bridge.epoch) EXCEPT !.id = id, !.err = "ipc"])
    <3>1. PICK id \in Nat \cup {None} :
               Says([Message("unavailable", bridge.epoch) EXCEPT !.id = id, !.err = "ipc"])
      BY <2>2
    <3> DEFINE x == [Message("unavailable", bridge.epoch) EXCEPT !.id = id, !.err = "ipc"]
    <3>2. /\ x \in Messages /\ MessageShape(x) /\ x.kind = "unavailable" /\ x.epoch = bridge.epoch
      BY <1>1, UnavailableTyped
    <3>3. toUi' = Append(toUi, x)
      BY <3>1 DEF Says
    <3> HIDE DEF x
    <3> QED BY <1>1, <3>2, <3>3, Spoken DEF WindowInv, Ordered
  <2> QED BY <2>1, <2>2
<1>4. Ordered(s, c.id, toBridge, toUi)'
  <2>1. ASSUME NEW m \in ToSet(toUi), Answered(m, c.id, toBridge), m.kind = "response",
               m.id + 1 = c.id
        PROVE  late' = <<>>
    <3>1. late = <<>> /\ m.id \in Nat
      BY <1>1, <2>1, MessagesTyped DEF Answered, WindowInv
    <3>2. bridge.req # None => bridge.req.id \in Nat /\ m.id < bridge.req.id /\ bridge.req.id < c.id
      BY <1>1, <2>1 DEF Answered, WindowInv, Ordered, DesktopTypeOK, Bridges, Mutations
    <3>3. c.id \in Nat /\ m.id + 1 = c.id
      BY <1>1, <2>1
    <3>4. bridge.req = None
      BY <3>1, <3>2, <3>3, NothingBetween
    <3> QED BY <3>1, <3>4
  <2>2. \A m \in ToSet(toUi') : m \in ToSet(toUi) \/ m.kind # "response"
    BY <1>3
  <2> QED BY <1>1, <1>3, <2>1, <2>2, StillOrdered DEF WindowInv
<1>5. /\ FeedInv' /\ Told(toUi)' /\ Knows(s)' /\ Coming(s, toBridge, toUi)'
      /\ Waited(s, toBridge, toUi)' /\ Believed(s, toBridge, toUi)'
  BY DEF FeedInv, Told, Knows, Coming, Waited, Believed, Hears
<1>6. Asking(s, toBridge, toUi)'
  <2>1. \A m \in ToSet(toUi') : AnswerTo(m, s.pending.id) => m \in ToSet(toUi)
    BY <1>3 DEF AnswerTo
  <2>2. Asking(s, toBridge, toUi)
    BY <1>1 DEF WindowInv
  <2> QED BY <2>1, <2>2 DEF Asking, In, Faithful, IsAsked, AnswerTo, Holds
<1>7. Awaiting(s, toBridge)'
  <2>1. Awaiting(s, toBridge)
    BY <1>1 DEF WindowInv
  <2> QED BY <2>1 DEF Awaiting, In, NothingAsked, IsAsked
<1> QED BY <1>2, <1>3, <1>4, <1>5, <1>6, <1>7 DEF DesktopInv, WindowInv

\* How the bridge leaves its connection.
LEMMA DisconnectedIs ==
    ASSUME DesktopInv, NEW id \in Nat \cup {None}, Disconnected(id), d' \in Daemons,
           late' \in Seq(Mutations), used' \in [user: Nat, other: Nat, faults: Nat],
           UNCHANGED <<toBridge, s, c>>
    PROVE  /\ DesktopTypeOK' /\ BridgeShape' /\ ~Linked' /\ bridge'.req = None
           /\ bridge'.epoch = bridge.epoch
           /\ Says([Message("unavailable", bridge.epoch) EXCEPT !.id = id, !.err = "ipc"])
<1>1. DesktopTypeOK /\ bridge \in Bridges
  BY DEF DesktopInv, DesktopTypeOK
<1>2. /\ Says([Message("unavailable", bridge.epoch) EXCEPT !.id = id, !.err = "ipc"])
      /\ bridge' = [bridge EXCEPT !.pc = "idle", !.req = None, !.status = None, !.sub = FALSE,
                                  !.connecting = FALSE, !.lost = FALSE]
      /\ feed' = <<>>
  BY DEF Disconnected
<1>3. /\ bridge' \in Bridges /\ bridge'.pc = "idle" /\ bridge'.req = None /\ ~bridge'.sub
      /\ ~bridge'.connecting /\ ~bridge'.lost /\ bridge'.epoch = bridge.epoch
  BY <1>1, <1>2 DEF Bridges
<1>4. toUi' \in Seq(Messages)
  <2> DEFINE x == [Message("unavailable", bridge.epoch) EXCEPT !.id = id, !.err = "ipc"]
  <2>1. x \in Messages
    BY <1>1, UnavailableTyped
  <2>2. toUi' = Append(toUi, x)
    BY <1>2 DEF Says
  <2> HIDE DEF x
  <2> QED BY <1>1, <2>1, <2>2, Appended DEF DesktopTypeOK
<1>5. DesktopTypeOK'
  BY <1>1, <1>2, <1>3, <1>4 DEF DesktopTypeOK
<1>6. BridgeShape' /\ ~Linked'
  BY <1>3 DEF BridgeShape, Linked, Listening
<1> QED BY <1>2, <1>3, <1>5, <1>6

\* A request takes too long.
LEMMA TimesOutStep ==
    ASSUME DesktopInv, TimesOut
    PROVE  DesktopInv'
<1>1. DesktopTypeOK /\ bridge \in Bridges /\ BridgeShape /\ late \in Seq(Mutations)
  BY DEF DesktopInv, DesktopTypeOK
<1>2. /\ bridge.pc = "request" /\ late' = Append(late, bridge.req) /\ Disconnected(bridge.req.id)
      /\ used' = [used EXCEPT !.faults = @ + 1]
      /\ UNCHANGED <<d, toBridge, s, c>>
  BY DEF TimesOut, Fault
<1>3. bridge.req # None /\ bridge.req \in Mutations /\ bridge.req.id \in Nat
  BY <1>1, <1>2 DEF BridgeShape, Bridges, Mutations
<1>4. late' \in Seq(Mutations) /\ d' \in Daemons /\ used' \in [user: Nat, other: Nat, faults: Nat]
  BY <1>1, <1>2, <1>3, Appended, UsedTyped DEF DesktopTypeOK
<1>5. /\ DesktopTypeOK' /\ BridgeShape' /\ ~Linked' /\ bridge'.req = None
      /\ bridge'.epoch = bridge.epoch
      /\ Says([Message("unavailable", bridge.epoch) EXCEPT !.id = bridge.req.id, !.err = "ipc"])
  BY <1>2, <1>3, <1>4, DisconnectedIs
<1> QED BY <1>2, <1>3, <1>5, Disconnects

\* The daemon does not answer a read, or its stream has ended.
LEMMA LostStep ==
    ASSUME DesktopInv, ReadFails \/ StreamEnds
    PROVE  DesktopInv'
<1>1. DesktopTypeOK
  BY DEF DesktopInv
<1>2. /\ Disconnected(None) /\ UNCHANGED <<d, late, toBridge, s, c>>
      /\ used' = used \/ used' = [used EXCEPT !.faults = @ + 1]
  BY DEF ReadFails, StreamEnds, Fault
<1>3. late' \in Seq(Mutations) /\ d' \in Daemons /\ used' \in [user: Nat, other: Nat, faults: Nat]
  BY <1>1, <1>2, UsedTyped DEF DesktopTypeOK
<1>4. /\ DesktopTypeOK' /\ BridgeShape' /\ ~Linked' /\ bridge'.req = None
      /\ bridge'.epoch = bridge.epoch
      /\ Says([Message("unavailable", bridge.epoch) EXCEPT !.id = None, !.err = "ipc"])
  BY <1>2, <1>3, DisconnectedIs
<1> QED BY <1>2, <1>4, Disconnects

\* The daemon is restarted.
LEMMA RestartStep ==
    ASSUME DesktopInv, DaemonRestarts
    PROVE  DesktopInv'
<1>1. DesktopTypeOK /\ bridge \in Bridges /\ BridgeShape
  BY DEF DesktopInv, DesktopTypeOK
<1>2. /\ d' = [d EXCEPT !.seq = 0] /\ late' = <<>> /\ feed' = <<>>
      /\ used' = [used EXCEPT !.faults = @ + 1] /\ UNCHANGED <<toBridge, s, c>>
  BY DEF DaemonRestarts, Fault
<1>3. d' \in Daemons /\ d'.gen = d.gen /\ d'.app = d.app
  BY <1>1, <1>2 DEF DesktopTypeOK, Daemons
<1>4. late' \in Seq(Mutations) /\ used' \in [user: Nat, other: Nat, faults: Nat]
  BY <1>1, <1>2, UsedTyped
<1>5. CASE bridge.pc = "idle"
  <2>1. bridge' = [bridge EXCEPT !.lost = Listening] /\ toUi' = toUi
    BY <1>5 DEF DaemonRestarts, Disconnected
  <2>2. /\ bridge' \in Bridges /\ bridge'.pc = "idle" /\ bridge'.req = bridge.req
        /\ bridge'.sub = bridge.sub /\ bridge'.connecting = bridge.connecting
        /\ bridge'.lost = Listening /\ bridge'.epoch = bridge.epoch
    BY <1>1, <1>5, <2>1 DEF Bridges, Listening
  <2>3. bridge.req = None /\ ~bridge.connecting
    BY <1>1, <1>5 DEF BridgeShape
  <2>4. BridgeShape' /\ ~Linked'
    BY <2>2, <2>3 DEF BridgeShape, Linked, Listening
  <2>5. DesktopTypeOK'
    BY <1>1, <1>2, <1>3, <1>4, <2>1, <2>2 DEF DesktopTypeOK
  <2> QED BY <1>2, <1>3, <2>1, <2>2, <2>3, <2>4, <2>5, Disconnects
<1>6. CASE bridge.pc # "idle"
  <2> DEFINE id == IF bridge.req = None THEN None ELSE bridge.req.id
  <2>1. Disconnected(id)
    BY <1>6 DEF DaemonRestarts
  <2>2. id \in Nat \cup {None}
    BY <1>1 DEF Bridges, Mutations
  <2> HIDE DEF id
  <2>3. /\ DesktopTypeOK' /\ BridgeShape' /\ ~Linked' /\ bridge'.req = None
        /\ bridge'.epoch = bridge.epoch
        /\ Says([Message("unavailable", bridge.epoch) EXCEPT !.id = id, !.err = "ipc"])
    BY <1>2, <1>3, <1>4, <2>1, <2>2, DisconnectedIs
  <2> QED BY <1>2, <1>3, <2>2, <2>3, Disconnects
<1> QED BY <1>5, <1>6

-----------------------------------------------------------------------------
(* The bridge reads *)

\* What the bridge read, or took from the stream, it tells the window.
LEMMA BridgeSays ==
    ASSUME DesktopInv, DesktopTypeOK', BridgeShape', FeedInv',
           UNCHANGED <<d, late, toBridge, s, c>>,
           bridge'.req = bridge.req, bridge'.epoch = bridge.epoch, Linked <=> Linked',
           \/ toUi' = toUi
           \/ \E x \in Messages :
                 /\ toUi' = Append(toUi, x) /\ MessageShape(x) /\ x.epoch = bridge.epoch
                 /\ x.kind \in {"snapshot", "event"} /\ (Linked => Past(x.status)),
           Linked /\ (Reads \/ Ahead) =>
              (Reads \/ Ahead)' \/ \E m \in ToSet(toUi') : Announces(m, s)'
    PROVE  DesktopInv'
<1>1. /\ DesktopTypeOK /\ BridgeShape /\ WindowInv(s, c.id, toBridge, toUi)
      /\ s \in Sessions /\ c.id \in Nat /\ toBridge \in Seq(Requests) /\ toUi \in Seq(Messages)
  BY DEF DesktopInv, DesktopTypeOK, Controllers
<1>2. SessionShape(s)'
  BY <1>1 DEF WindowInv, SessionShape, In
<1>3. /\ Introduced(s, toUi)' /\ InTurn(toUi)' /\ \A m \in ToSet(toUi') : MessageShape(m)
      /\ \A m \in ToSet(toUi') :
           m \in ToSet(toUi) \/ (m.kind \in {"snapshot", "event"} /\ (Linked => Past(m.status)))
      /\ \A m \in ToSet(toUi) : m \in ToSet(toUi')
  <2>1. CASE toUi' = toUi
    BY <1>1, <2>1 DEF WindowInv, Ordered, Introduced, Current, InTurn
  <2>2. CASE toUi' # toUi
    <3>1. PICK x \in Messages :
                 /\ toUi' = Append(toUi, x) /\ MessageShape(x) /\ x.epoch = bridge.epoch
                 /\ x.kind \in {"snapshot", "event"} /\ (Linked => Past(x.status))
      BY <2>2
    <3> QED BY <1>1, <3>1, Spoken DEF WindowInv, Ordered
  <2> QED BY <2>1, <2>2
<1>4. Ordered(s, c.id, toBridge, toUi)'
  <2>1. \A m \in ToSet(toUi) :
           Answered(m, c.id, toBridge) /\ m.kind = "response" /\ m.id + 1 = c.id => late' = <<>>
    BY DEF Answered
  <2>2. \A m \in ToSet(toUi') : m \in ToSet(toUi) \/ m.kind # "response"
    BY <1>3
  <2> QED BY <1>1, <1>3, <2>1, <2>2, StillOrdered DEF WindowInv
<1>5. Told(toUi)'
  <2>1. Told(toUi)
    BY <1>1 DEF WindowInv
  <2> QED BY <1>3, <2>1 DEF Told, Current, Past, StatusOf
<1>6. Knows(s)'
  BY <1>1 DEF WindowInv, Knows, Hears
<1>7. Coming(s, toBridge, toUi)'
  <2>1. Coming(s, toBridge, toUi)
    BY <1>1 DEF WindowInv
  <2>2. UpToDate(s) => UpToDate(s)'
    BY DEF UpToDate, StatusOf, In
  <2>3. \A m \in ToSet(toUi) : Announces(m, s) => Announces(m, s)'
    BY DEF Announces, Current, StatusOf, In
  <2> QED BY <1>3, <2>1, <2>2, <2>3 DEF Coming, IsAsked
<1>8. Waited(s, toBridge, toUi)'
  <2>1. Waited(s, toBridge, toUi)
    BY <1>1 DEF WindowInv
  <2> QED BY <1>3, <2>1 DEF Waited, Hears, In, IsAsked, Current, AnswerTo
<1>9. \A id : \A m \in ToSet(toUi') : AnswerTo(m, id) => m \in ToSet(toUi)
  BY <1>3 DEF AnswerTo
<1>10. Asking(s, toBridge, toUi)'
  <2>1. Asking(s, toBridge, toUi)
    BY <1>1 DEF WindowInv
  <2> QED BY <1>9, <2>1 DEF Asking, In, Faithful, IsAsked, AnswerTo, Holds
<1>11. Awaiting(s, toBridge)'
  BY <1>1 DEF WindowInv, Awaiting, In, NothingAsked, IsAsked
<1>12. Believed(s, toBridge, toUi)'
  <2>1. Believed(s, toBridge, toUi)
    BY <1>1 DEF WindowInv
  <2>2. Doomed(s, toUi) => Doomed(s, toUi)'
    BY <1>3, <1>9 DEF Doomed, In, Current, AnswerTo
  <2> QED BY <2>1, <2>2 DEF Believed, Hears, NothingAsked, OnlyAsked, Holds, In, IsAsked
<1> QED BY <1>2, <1>3, <1>4, <1>5, <1>6, <1>7, <1>8, <1>10, <1>11, <1>12
        DEF DesktopInv, WindowInv

\* The bridge reads the daemon's status.
LEMMA StatusStep ==
    ASSUME DesktopInv, ReadStatus
    PROVE  DesktopInv'
<1>1. DesktopTypeOK /\ bridge \in Bridges /\ BridgeShape /\ FeedInv
  BY DEF DesktopInv, DesktopTypeOK
<1>2. /\ bridge.pc = "status" /\ UNCHANGED <<d, late, feed, toBridge, toUi, s, c, used>>
      /\ bridge' = [bridge EXCEPT !.pc = "profiles", !.status = StatusOf(d)]
  BY DEF ReadStatus
<1>3. StatusOf(d) \in Statuses
  BY <1>1 DEF DesktopTypeOK, Daemons, StatusOf, Statuses
<1>4. /\ bridge' \in Bridges /\ bridge'.pc = "profiles" /\ bridge'.req = bridge.req
      /\ bridge'.status = StatusOf(d) /\ bridge'.epoch = bridge.epoch
      /\ bridge'.sub = bridge.sub /\ bridge'.connecting = bridge.connecting
      /\ bridge'.lost = bridge.lost /\ bridge'.min = bridge.min
  BY <1>1, <1>2, <1>3 DEF Bridges
<1>5. DesktopTypeOK'
  BY <1>1, <1>2, <1>4 DEF DesktopTypeOK
<1>6. Linked <=> Linked'
  BY <1>4 DEF Linked, Listening
<1>7. BridgeShape'
  BY <1>1, <1>2, <1>3, <1>4, NoneAssumption DEF BridgeShape
<1>8. FeedInv'
  BY <1>1, <1>2, <1>4, <1>6 DEF FeedInv, Past, StatusOf
<1>9. Reads'
  BY <1>2, <1>4 DEF Reads, StatusOf
<1>10. toUi' = toUi
  BY <1>2
<1> QED BY <1>2, <1>4, <1>5, <1>6, <1>7, <1>8, <1>9, <1>10, BridgeSays

\* The bridge reads the profiles: the snapshot is complete.
LEMMA ProfilesStep ==
    ASSUME DesktopInv, ReadProfiles
    PROVE  DesktopInv'
<1>1. DesktopTypeOK /\ bridge \in Bridges /\ BridgeShape /\ FeedInv /\ d \in Daemons
  BY DEF DesktopInv, DesktopTypeOK
<1>2. /\ bridge.pc = "profiles" /\ UNCHANGED <<d, late, feed, toBridge, s, c, used>>
      /\ \E x : /\ x = [Message("snapshot", bridge.epoch) EXCEPT !.status = bridge.status,
                                                                 !.profile = d.desired]
                /\ toUi' = Append(toUi, x)
      /\ bridge' = [bridge EXCEPT !.pc = "idle", !.status = None, !.connecting = FALSE,
                                  !.sub = @ \/ bridge.connecting,
                                  !.min = IF bridge.connecting THEN bridge.status.seq ELSE @]
  BY DEF ReadProfiles, Says
<1>3. bridge.status \in Statuses /\ bridge.status.seq \in Nat /\ bridge.min \in Nat
  BY <1>1, <1>2 DEF BridgeShape, Bridges, Statuses
<1>4. /\ bridge' \in Bridges /\ bridge'.pc = "idle" /\ bridge'.req = bridge.req
      /\ bridge'.epoch = bridge.epoch /\ bridge'.lost = bridge.lost
      /\ bridge'.sub = (bridge.sub \/ bridge.connecting) /\ bridge'.connecting = FALSE
      /\ bridge'.min = IF bridge.connecting THEN bridge.status.seq ELSE bridge.min
  BY <1>1, <1>2, <1>3 DEF Bridges
<1>5. PICK x \in Messages :
           /\ toUi' = Append(toUi, x) /\ MessageShape(x) /\ x.kind = "snapshot"
           /\ x.epoch = bridge.epoch /\ x.status = bridge.status
  <2>1. PICK x : /\ x = [Message("snapshot", bridge.epoch) EXCEPT !.status = bridge.status,
                                                                  !.profile = d.desired]
                 /\ toUi' = Append(toUi, x)
    BY <1>2
  <2>2. x.kind = "snapshot"
    BY <2>1 DEF Message
  <2>3. PICK p \in Profiles \cup {None} : p = d.desired
    BY <1>1 DEF Daemons
  <2>4. PICK st \in Statuses : st = bridge.status
    BY <1>3
  <2>5. x = [Message("snapshot", bridge.epoch) EXCEPT !.status = st, !.profile = p]
    BY <2>1, <2>3, <2>4
  <2>6. bridge.epoch \in Nat /\ None \notin Results /\ None \notin Statuses /\ "applied" \in Results
    BY <1>1, NoneAssumption DEF Bridges, Results
  <2>7. x \in Messages /\ MessageShape(x) /\ x.epoch = bridge.epoch /\ x.status = st
    BY <2>5, <2>6 DEF Message, Messages, MessageShape
  <2> QED BY <2>1, <2>2, <2>4, <2>7
<1>6. DesktopTypeOK'
  <2>1. toUi' \in Seq(Messages)
    BY <1>1, <1>2, <1>5, Appended DEF DesktopTypeOK
  <2> QED BY <1>1, <1>2, <1>4, <2>1 DEF DesktopTypeOK
<1>7. Linked <=> Linked'
  BY <1>4 DEF Linked, Listening
<1>8. BridgeShape'
  BY <1>1, <1>2, <1>4 DEF BridgeShape
<1>9. Linked => Past(bridge.status) /\ bridge.status.seq <= d.seq
  <2>1. Linked => Past(bridge.status)
    BY <1>1, <1>2 DEF FeedInv
  <2> QED BY <1>1, <1>3, <2>1, PastIsPast
<1>10. FeedInv'
  <2> SUFFICES ASSUME Linked
               PROVE  /\ feed # <<>> => feed[Len(feed)] = StatusOf(d)
                      /\ \A st \in ToSet(feed) : Past(st)
                      /\ bridge'.min <= d.seq
    BY <1>2, <1>4, <1>7 DEF FeedInv, Past, StatusOf
  <2> QED BY <1>1, <1>4, <1>9 DEF FeedInv
<1>11. Linked /\ (Reads \/ Ahead) =>
         (Reads \/ Ahead)' \/ \E m \in ToSet(toUi') : Announces(m, s)'
  <2>1. CASE Reads
    <3>1. bridge.status = StatusOf(d)
      BY <1>2, <2>1 DEF Reads
    <3>2. Announces(x, s)'
      BY <1>2, <1>4, <1>5, <3>1 DEF Announces, Current, StatusOf
    <3>3. x \in ToSet(toUi')
      BY <1>1, <1>2, <1>5, Appended DEF DesktopTypeOK
    <3> QED BY <3>2, <3>3
  <2>2. CASE Ahead
    <3>1. Ahead'
      BY <1>2, <1>4, <2>2 DEF Ahead
    <3> QED BY <3>1
  <2> QED BY <2>1, <2>2
<1> QED BY <1>2, <1>4, <1>5, <1>6, <1>7, <1>8, <1>9, <1>10, <1>11, BridgeSays

\* The end of the stream stays.
LEMMA LastStays ==
    ASSUME NEW S, NEW q \in Seq(S), q # <<>>
    PROVE  /\ Tail(q) # <<>> <=> Len(q) > 1
           /\ Tail(q) # <<>> => Tail(q)[Len(Tail(q))] = q[Len(q)]
           /\ Tail(q) = <<>> => Head(q) = q[Len(q)]
<1>1. /\ Tail(q) \in Seq(S) /\ Head(q) = q[1] /\ Len(q) \in Nat \ {0} /\ Len(Tail(q)) = Len(q) - 1
      /\ \A i \in 1..(Len(q) - 1) : Tail(q)[i] = q[i + 1]
  BY Taken
<1>2. Tail(q) = <<>> <=> Len(Tail(q)) = 0
  BY <1>1, Members
<1>3. ASSUME Len(q) > 1 PROVE Tail(q)[Len(q) - 1] = q[Len(q)]
  <2>1. Len(q) - 1 \in 1..(Len(q) - 1) /\ (Len(q) - 1) + 1 = Len(q)
    BY <1>1, <1>3
  <2> QED BY <1>1, <2>1
<1> QED BY <1>1, <1>2, <1>3

\* The oldest event leaves the stream.
LEMMA FeedTaken ==
    ASSUME DesktopTypeOK, FeedInv, feed # <<>>, feed' = Tail(feed), d' = d,
           Linked <=> Linked', bridge'.pc = bridge.pc, bridge'.status = bridge.status,
           bridge'.connecting = bridge.connecting, bridge'.min \in Nat,
           bridge'.min = bridge.min \/ bridge'.min = Head(feed).seq
    PROVE  /\ feed' \in Seq(Statuses) /\ FeedInv' /\ Head(feed) \in Statuses
           /\ Linked => Past(Head(feed)) /\ Head(feed).seq <= d.seq
           /\ Linked /\ Tail(feed) = <<>> => Head(feed) = StatusOf(d)
<1>1. feed \in Seq(Statuses) /\ d.seq \in Nat
  BY DEF DesktopTypeOK, Daemons
<1>2. /\ Head(feed) \in Statuses /\ feed' \in Seq(Statuses)
      /\ ToSet(feed) = {Head(feed)} \cup ToSet(feed')
  BY <1>1, Taken
<1>3. /\ feed' # <<>> => feed'[Len(feed')] = feed[Len(feed)]
      /\ feed' = <<>> => Head(feed) = feed[Len(feed)]
  BY <1>1, LastStays
<1>4. ASSUME Linked
      PROVE  /\ feed[Len(feed)] = StatusOf(d) /\ \A st \in ToSet(feed) : Past(st)
             /\ bridge.pc = "profiles" => Past(bridge.status)
             /\ ~bridge.connecting => bridge.min <= d.seq
  BY <1>4 DEF FeedInv
<1>5. Linked => Past(Head(feed)) /\ Head(feed).seq <= d.seq
  BY <1>2, <1>4, PastIsPast
<1>6. FeedInv'
  <2> SUFFICES ASSUME Linked
               PROVE  /\ feed' # <<>> => feed'[Len(feed')] = StatusOf(d)
                      /\ \A st \in ToSet(feed') : Past(st)
                      /\ bridge.pc = "profiles" => Past(bridge.status)
                      /\ ~bridge.connecting => bridge'.min <= d.seq
    BY DEF FeedInv, Past, StatusOf
  <2> QED BY <1>2, <1>3, <1>4, <1>5
<1> QED BY <1>2, <1>3, <1>4, <1>5, <1>6

\* An event is forwarded, or is older than the snapshot.
LEMMA EventStep ==
    ASSUME DesktopInv, ForwardEvent
    PROVE  DesktopInv'
<1>1. DesktopTypeOK /\ bridge \in Bridges /\ BridgeShape /\ FeedInv /\ feed \in Seq(Statuses)
  BY DEF DesktopInv, DesktopTypeOK
<1>2. /\ bridge.pc = "idle" /\ bridge.sub /\ feed # <<>> /\ feed' = Tail(feed)
      /\ UNCHANGED <<d, late, toBridge, s, c, used>>
  BY DEF ForwardEvent
<1>3. Head(feed) \in Statuses /\ Head(feed).seq \in Nat /\ bridge.min \in Nat
  <2>1. Head(feed) \in Statuses
    BY <1>1, <1>2, Taken
  <2> QED BY <1>1, <2>1 DEF Statuses, Bridges
<1>4. ~bridge.connecting
  BY <1>1, <1>2 DEF BridgeShape
<1>5. CASE Head(feed).seq > bridge.min
  <2>1. /\ bridge' = [bridge EXCEPT !.min = Head(feed).seq]
        /\ Says([Message("event", bridge.epoch) EXCEPT !.status = Head(feed)])
    BY <1>3, <1>5 DEF ForwardEvent
  <2>2. /\ bridge' \in Bridges /\ bridge'.pc = bridge.pc /\ bridge'.req = bridge.req
        /\ bridge'.status = bridge.status /\ bridge'.epoch = bridge.epoch
        /\ bridge'.sub = bridge.sub /\ bridge'.connecting = bridge.connecting
        /\ bridge'.lost = bridge.lost /\ bridge'.min = Head(feed).seq
    BY <1>1, <1>3, <2>1 DEF Bridges
  <2>3. Linked <=> Linked'
    BY <2>2 DEF Linked, Listening
  <2>4. BridgeShape'
    BY <1>1, <2>2 DEF BridgeShape
  <2>5. feed' \in Seq(Statuses) /\ FeedInv' /\ (Linked => Past(Head(feed)))
    BY <1>1, <1>2, <1>3, <2>2, <2>3, FeedTaken
  <2>6. PICK x \in Messages :
             /\ toUi' = Append(toUi, x) /\ MessageShape(x) /\ x.kind = "event"
             /\ x.epoch = bridge.epoch /\ x.status = Head(feed)
    <3>1. PICK st \in Statuses : st = Head(feed)
      BY <1>3
    <3>2. PICK x : x = [Message("event", bridge.epoch) EXCEPT !.status = st]
      OBVIOUS
    <3>3. /\ bridge.epoch \in Nat /\ "applied" \in Results
          /\ None \notin Results /\ None \notin Statuses
      BY <1>1, NoneAssumption DEF Bridges, Results
    <3>4. /\ x \in Messages /\ MessageShape(x) /\ x.kind = "event"
          /\ x.epoch = bridge.epoch /\ x.status = st
      BY <3>2, <3>3 DEF Message, Messages, MessageShape
    <3>5. toUi' = Append(toUi, x)
      BY <2>1, <3>1, <3>2 DEF Says
    <3> QED BY <3>1, <3>4, <3>5
  <2>7. toUi \in Seq(Messages)
    BY <1>1 DEF DesktopTypeOK
  <2>8. toUi' \in Seq(Messages) /\ x \in ToSet(toUi')
    BY <2>6, <2>7, Appended
  <2>9. DesktopTypeOK'
    BY <1>1, <1>2, <2>2, <2>5, <2>8 DEF DesktopTypeOK
  <2>10. Announces(x, s)'
    BY <2>2, <2>6 DEF Announces, Current
  <2> QED BY <1>2, <2>2, <2>3, <2>4, <2>5, <2>6, <2>8, <2>9, <2>10, BridgeSays
<1>6. CASE Head(feed).seq <= bridge.min
  <2>1. bridge' = bridge /\ toUi' = toUi
    BY <1>3, <1>6 DEF ForwardEvent
  <2>2. Linked <=> Linked'
    BY <2>1 DEF Linked, Listening
  <2>3. /\ feed' \in Seq(Statuses) /\ FeedInv' /\ (Linked => Past(Head(feed)))
        /\ Linked /\ Tail(feed) = <<>> => Head(feed) = StatusOf(d)
    BY <1>1, <1>2, <1>3, <2>1, <2>2, FeedTaken
  <2>4. DesktopTypeOK' /\ BridgeShape'
    BY <1>1, <1>2, <2>1, <2>3 DEF DesktopTypeOK, BridgeShape
  <2>5. Linked /\ (Reads \/ Ahead) => Ahead'
    <3> SUFFICES ASSUME Linked, Reads \/ Ahead PROVE Ahead'
      OBVIOUS
    <3>1. Ahead
      BY <1>2 DEF Reads
    <3>2. bridge.min < d.seq /\ d.seq \in Nat
      BY <1>1, <1>4, <3>1 DEF Ahead, DesktopTypeOK, Daemons
    <3>3. StatusOf(d).seq = d.seq
      BY DEF StatusOf
    <3>4. feed' # <<>>
      BY <1>2, <1>3, <1>6, <2>3, <3>2, <3>3
    <3> QED BY <1>2, <2>1, <3>1, <3>4 DEF Ahead
  <2> QED BY <1>2, <2>1, <2>2, <2>3, <2>4, <2>5, BridgeSays
<1> QED BY <1>3, <1>5, <1>6

\* The subscription misses the oldest event.
LEMMA LagStep ==
    ASSUME DesktopInv, Lagged
    PROVE  DesktopInv'
<1>1. DesktopTypeOK /\ BridgeShape /\ FeedInv /\ feed \in Seq(Statuses) /\ bridge.min \in Nat
  BY DEF DesktopInv, DesktopTypeOK, Bridges
<1>2. /\ Len(feed) > 1 /\ feed' = Tail(feed) /\ used' = [used EXCEPT !.faults = @ + 1]
      /\ UNCHANGED <<d, late, bridge, toBridge, toUi, s, c>>
  BY DEF Lagged, Fault
<1>3. feed # <<>>
  BY <1>1, <1>2, Members
<1>4. feed' # <<>>
  BY <1>1, <1>2, <1>3, LastStays
<1>5. Linked <=> Linked'
  BY <1>2 DEF Linked, Listening
<1>6. feed' \in Seq(Statuses) /\ FeedInv'
  BY <1>1, <1>2, <1>3, <1>5, FeedTaken
<1>7. DesktopTypeOK' /\ BridgeShape'
  BY <1>1, <1>2, <1>6, UsedTyped DEF DesktopTypeOK, BridgeShape
<1>8. (Reads \/ Ahead) => (Reads \/ Ahead)'
  BY <1>2, <1>4 DEF Reads, Ahead, StatusOf
<1> QED BY <1>2, <1>5, <1>6, <1>7, <1>8, BridgeSays

\* The bridge connects anew, and says so first.
LEMMA ConnectStep ==
    ASSUME DesktopInv, Connect
    PROVE  DesktopInv'
<1>1. /\ DesktopTypeOK /\ BridgeShape /\ WindowInv(s, c.id, toBridge, toUi) /\ bridge \in Bridges
      /\ s \in Sessions /\ c.id \in Nat /\ toBridge \in Seq(Requests) /\ toUi \in Seq(Messages)
  BY DEF DesktopInv, DesktopTypeOK, Controllers
<1>2. /\ bridge.pc = "idle" /\ ~bridge.sub /\ feed' = <<>>
      /\ bridge' = [bridge EXCEPT !.pc = "status", !.epoch = @ + 1, !.connecting = TRUE,
                                  !.lost = FALSE]
      /\ toUi' = Append(toUi, Message("established", bridge.epoch + 1))
      /\ UNCHANGED <<d, late, toBridge, s, c, used>>
  BY DEF Connect, Says
<1>3. bridge.epoch \in Nat /\ bridge.epoch + 1 \in Nat /\ bridge.epoch < bridge.epoch + 1
  BY <1>1 DEF Bridges
<1>4. /\ bridge' \in Bridges /\ bridge'.pc = "status" /\ bridge'.req = bridge.req
      /\ bridge'.epoch = bridge.epoch + 1 /\ ~bridge'.sub /\ bridge'.connecting
      /\ ~bridge'.lost
  BY <1>1, <1>2, <1>3 DEF Bridges
<1>5. PICK x \in Messages :
           /\ toUi' = Append(toUi, x) /\ MessageShape(x) /\ x.kind = "established"
           /\ x.epoch = bridge.epoch + 1
  BY <1>1, <1>2, EstablishedTyped
<1>6. /\ toUi' \in Seq(Messages) /\ ToSet(toUi') = ToSet(toUi) \cup {x}
      /\ Len(toUi') = Len(toUi) + 1 /\ \A i \in 1..Len(toUi) : toUi'[i] = toUi[i]
      /\ toUi'[Len(toUi) + 1] = x
  BY <1>1, <1>5, Appended
<1>7. /\ DOMAIN toUi = 1..Len(toUi) /\ DOMAIN toUi' = 1..(Len(toUi) + 1) /\ Len(toUi) \in Nat
      /\ \A i \in DOMAIN toUi : toUi[i] \in ToSet(toUi)
      /\ \A m \in ToSet(toUi) : m \in Messages
  BY <1>1, <1>6, Members
<1>8. DesktopTypeOK'
  BY <1>1, <1>2, <1>4, <1>6 DEF DesktopTypeOK
<1>9. BridgeShape'
  BY <1>1, <1>2, <1>4 DEF BridgeShape
<1>10. FeedInv'
  <2>1. ToSet(feed') = {}
    BY <1>2 DEF ToSet
  <2> QED BY <1>2, <1>4, <2>1 DEF FeedInv
<1>11. /\ s.epoch \in Nat /\ s.epoch <= bridge.epoch
       /\ \A m \in ToSet(toUi) : m.epoch \in Nat /\ m.epoch <= bridge.epoch
  BY <1>1, <1>7 DEF WindowInv, Introduced, Sessions, Messages
<1>12. \A m \in ToSet(toUi) : m.epoch # bridge'.epoch
  BY <1>3, <1>4, <1>11
<1>13. SessionShape(s)' /\ \A m \in ToSet(toUi') : MessageShape(m)
  BY <1>1, <1>2, <1>5, <1>6 DEF WindowInv, SessionShape, In
<1>14. Introduced(s, toUi)'
  <2>1. s'.epoch <= bridge'.epoch /\ \A m \in ToSet(toUi') : m.epoch <= bridge'.epoch
    BY <1>2, <1>3, <1>4, <1>5, <1>6, <1>11
  <2>2. /\ Len(toUi) + 1 \in DOMAIN toUi' /\ toUi'[Len(toUi) + 1].kind = "established"
        /\ toUi'[Len(toUi) + 1].epoch = bridge'.epoch
        /\ \A j \in 1..((Len(toUi) + 1) - 1) : toUi'[j].epoch # bridge'.epoch
    BY <1>4, <1>5, <1>6, <1>7, <1>12
  <2> QED BY <2>1, <2>2 DEF Introduced, Current
<1>15. Ordered(s, c.id, toBridge, toUi)'
  <2>1. InTurn(toUi)'
    BY <1>1, <1>5, <1>6, <1>7 DEF WindowInv, Ordered, InTurn
  <2>2. \A m \in ToSet(toUi) :
           Answered(m, c.id, toBridge) /\ m.kind = "response" /\ m.id + 1 = c.id => late' = <<>>
    BY <1>2 DEF Answered
  <2>3. \A m \in ToSet(toUi') : m \in ToSet(toUi) \/ m.kind # "response"
    BY <1>5, <1>6
  <2> QED BY <1>1, <1>2, <1>4, <2>1, <2>2, <2>3, StillOrdered DEF WindowInv
<1>16. Told(toUi)'
  BY <1>5, <1>6, <1>12 DEF Told, Current
<1>17. Knows(s)' /\ Waited(s, toBridge, toUi)' /\ Believed(s, toBridge, toUi)'
  BY <1>2, <1>3, <1>4, <1>11 DEF Knows, Waited, Believed, Hears
<1>18. Coming(s, toBridge, toUi)'
  BY <1>4 DEF Coming, Reads
<1>19. Asking(s, toBridge, toUi)'
  <2>1. Asking(s, toBridge, toUi)
    BY <1>1 DEF WindowInv
  <2>2. \A id : \A m \in ToSet(toUi') : AnswerTo(m, id) => m \in ToSet(toUi)
    BY <1>5, <1>6 DEF AnswerTo
  <2> QED BY <1>2, <1>4, <2>1, <2>2 DEF Asking, In, Faithful, IsAsked, AnswerTo, Holds
<1>20. Awaiting(s, toBridge)'
  BY <1>1, <1>2, <1>4 DEF WindowInv, Awaiting, In, NothingAsked, IsAsked
<1> QED BY <1>8, <1>9, <1>10, <1>13, <1>14, <1>15, <1>16, <1>17, <1>18, <1>19, <1>20
        DEF DesktopInv, WindowInv

-----------------------------------------------------------------------------
(* The bridge carries requests out *)

\* The next command is taken.
LEMMA TakeStep ==
    ASSUME DesktopInv, TakeCommand
    PROVE  DesktopInv'
<1> DEFINE r == Head(toBridge)
<1>1. /\ DesktopTypeOK /\ BridgeShape /\ FeedInv /\ WindowInv(s, c.id, toBridge, toUi)
      /\ bridge \in Bridges
      /\ s \in Sessions /\ c.id \in Nat /\ toBridge \in Seq(Requests) /\ toUi \in Seq(Messages)
  BY DEF DesktopInv, DesktopTypeOK, Controllers
<1>2. /\ bridge.pc = "idle" /\ toBridge # <<>> /\ toBridge' = Tail(toBridge)
      /\ bridge' = IF ~IsAsked(r) THEN [bridge EXCEPT !.pc = "status"]
                   ELSE [bridge EXCEPT !.pc = "request", !.req = r]
      /\ UNCHANGED <<d, late, feed, toUi, s, c, used>>
  BY DEF TakeCommand, IsAsked
<1>3. /\ r \in Requests /\ toBridge' \in Seq(Requests) /\ r = toBridge[1] /\ 1 \in DOMAIN toBridge
      /\ ToSet(toBridge) = {r} \cup ToSet(toBridge')
      /\ Len(toBridge) \in Nat \ {0} /\ Len(toBridge') = Len(toBridge) - 1
      /\ \A i \in 1..(Len(toBridge) - 1) : toBridge'[i] = toBridge[i + 1]
  BY <1>1, <1>2, Taken
<1>4. DOMAIN toBridge = 1..Len(toBridge) /\ DOMAIN toBridge' = 1..(Len(toBridge) - 1)
  BY <1>1, <1>3, Members
<1> HIDE DEF r
<1>5. bridge.req = None /\ ~bridge.connecting
  BY <1>1, <1>2 DEF BridgeShape
<1>6. IsAsked(r) => r \in Mutations /\ r # None
  BY <1>1, <1>3, CommandsTyped, NoneAssumption
<1>7. /\ bridge' \in Bridges /\ bridge'.epoch = bridge.epoch /\ bridge'.sub = bridge.sub
      /\ bridge'.connecting = bridge.connecting /\ bridge'.lost = bridge.lost
      /\ bridge'.min = bridge.min
      /\ ~IsAsked(r) => bridge'.pc = "status" /\ bridge'.req = None
      /\ IsAsked(r) => bridge'.pc = "request" /\ bridge'.req = r
  BY <1>1, <1>2, <1>5, <1>6 DEF Bridges
<1>8. DesktopTypeOK' /\ BridgeShape' /\ (Linked <=> Linked')
  BY <1>1, <1>2, <1>3, <1>5, <1>6, <1>7 DEF DesktopTypeOK, BridgeShape, Linked, Listening
<1>9. FeedInv'
  BY <1>1, <1>2, <1>7, <1>8 DEF FeedInv, Past, StatusOf
<1>10. SessionShape(s)' /\ \A m \in ToSet(toUi') : MessageShape(m)
  BY <1>1, <1>2 DEF WindowInv, SessionShape, In
<1>11. Introduced(s, toUi)'
  BY <1>1, <1>2, <1>7 DEF WindowInv, Introduced, Current
<1>12. ASSUME NEW i \in DOMAIN toBridge', NEW j \in DOMAIN toBridge', i < j,
              IsAsked(toBridge'[i]), IsAsked(toBridge'[j])
       PROVE  toBridge'[i].id < toBridge'[j].id
  <2>1. i + 1 \in DOMAIN toBridge /\ j + 1 \in DOMAIN toBridge /\ i + 1 < j + 1
    BY <1>3, <1>4, <1>12
  <2>2. toBridge'[i] = toBridge[i + 1] /\ toBridge'[j] = toBridge[j + 1]
    BY <1>3, <1>4
  <2> QED BY <1>1, <1>12, <2>1, <2>2 DEF WindowInv, Ordered, Increasing
<1>13. ASSUME NEW x \in ToSet(toBridge'), IsAsked(x), IsAsked(r)
       PROVE  r.id < x.id
  <2>1. PICK i \in DOMAIN toBridge' : x = toBridge'[i]
    BY DEF ToSet
  <2>2. i + 1 \in DOMAIN toBridge /\ 1 < i + 1 /\ x = toBridge[i + 1]
    BY <1>3, <1>4, <2>1
  <2> QED BY <1>1, <1>3, <1>13, <2>2 DEF WindowInv, Ordered, Increasing
<1>14. Ordered(s, c.id, toBridge, toUi)'
  <2>1. Increasing(toBridge)'
    BY <1>12 DEF Increasing, IsAsked
  <2>2. InTurn(toUi)'
    BY <1>1, <1>2 DEF WindowInv, Ordered, InTurn
  <2>3. \A x \in ToSet(toBridge') :
           IsAsked(x) => x.id < c.id /\ (bridge'.req # None => bridge'.req.id < x.id)
    BY <1>1, <1>3, <1>7, <1>13 DEF WindowInv, Ordered
  <2>4. bridge'.req # None => bridge'.req.id < c.id
    BY <1>1, <1>3, <1>7 DEF WindowInv, Ordered
  <2>5. \A m \in ToSet(toUi) : Answered(m, c.id, toBridge)'
    <3> SUFFICES ASSUME NEW m \in ToSet(toUi), m.kind = "response"
                 PROVE  /\ m.id < c.id
                        /\ bridge'.req # None => m.id < bridge'.req.id
                        /\ \A x \in ToSet(toBridge') : IsAsked(x) => m.id < x.id
                        /\ m.id + 1 = c.id => late = <<>>
      BY <1>2 DEF Answered, IsAsked
    <3>1. Answered(m, c.id, toBridge)
      BY <1>1 DEF WindowInv, Ordered
    <3> QED BY <1>3, <1>7, <3>1 DEF Answered
  <2>6. In(s, "reply") \/ In(s, "snapshot") => s.pending.id + 1 = c.id
    BY <1>1 DEF WindowInv, Ordered
  <2> QED BY <1>2, <2>1, <2>2, <2>3, <2>4, <2>5, <2>6 DEF Ordered, IsAsked, In
<1>15. Told(toUi)' /\ Knows(s)'
  BY <1>1, <1>2, <1>7, <1>8 DEF WindowInv, Told, Knows, Hears, Current, Past, StatusOf
<1>16. Coming(s, toBridge, toUi)'
  <2>1. CASE ~IsAsked(r)
    BY <1>7, <2>1 DEF Coming, Reads
  <2>2. CASE IsAsked(r)
    <3>1. Coming(s, toBridge, toUi)
      BY <1>1 DEF WindowInv
    <3>2. ~Reads
      BY <1>2 DEF Reads
    <3>3. UpToDate(s) => UpToDate(s)'
      BY <1>2, <1>7 DEF UpToDate, StatusOf, In
    <3>4. \A m \in ToSet(toUi) : Announces(m, s) => Announces(m, s)'
      BY <1>2, <1>7 DEF Announces, Current, StatusOf, In
    <3>5. Ahead => Ahead'
      BY <1>2, <1>5, <1>7 DEF Ahead
    <3>6. (\E x \in ToSet(toBridge) : ~IsAsked(x)) => \E x \in ToSet(toBridge') : ~IsAsked(x)
      BY <1>3, <2>2
    <3> QED BY <1>2, <1>8, <3>1, <3>2, <3>3, <3>4, <3>5, <3>6 DEF Coming, IsAsked
  <2> QED BY <2>1, <2>2
<1>17. Waited(s, toBridge, toUi)'
  <2>1. Waited(s, toBridge, toUi)
    BY <1>1 DEF WindowInv
  <2> QED BY <1>2, <1>3, <1>5, <1>6, <1>7, <1>8, <2>1
          DEF Waited, Hears, In, IsAsked, Current, AnswerTo
<1>18. Asking(s, toBridge, toUi)'
  <2>1. Asking(s, toBridge, toUi)
    BY <1>1 DEF WindowInv
  <2> QED BY <1>2, <1>3, <1>7, <2>1 DEF Asking, In, Faithful, IsAsked, AnswerTo, Holds
<1>19. NothingAsked(toBridge) => NothingAsked(toBridge)'
  BY <1>3, <1>7 DEF NothingAsked, IsAsked
<1>20. Awaiting(s, toBridge)'
  BY <1>1, <1>2, <1>19 DEF WindowInv, Awaiting, In
<1>21. Believed(s, toBridge, toUi)'
  <2>1. Believed(s, toBridge, toUi)
    BY <1>1 DEF WindowInv
  <2>2. OnlyAsked(s, toBridge) => OnlyAsked(s, toBridge)'
    BY <1>2, <1>3, <1>5, <1>7 DEF OnlyAsked, IsAsked, In
  <2>3. Doomed(s, toUi) => Doomed(s, toUi)'
    BY <1>2, <1>7 DEF Doomed, In, Current, AnswerTo
  <2> QED BY <1>2, <1>7, <1>8, <1>19, <2>1, <2>2, <2>3 DEF Believed, Hears, Holds
<1> QED BY <1>8, <1>9, <1>10, <1>11, <1>14, <1>15, <1>16, <1>17, <1>18, <1>20, <1>21
        DEF DesktopInv, WindowInv

\* What an answer says of the request and of the daemon.
LEMMA AnswerIs ==
    ASSUME DesktopInv, Deliver
    PROVE  \E x \in Messages :
             /\ toUi' = Append(toUi, x) /\ MessageShape(x) /\ x.kind = "response"
             /\ x.id = bridge.req.id /\ x.epoch = bridge.epoch
             /\ d' \in Daemons /\ Moves(d, d')
             /\ x.result = "deactivated" => bridge.req.op = "deactivate"
             /\ x.result # "deactivated" => Climbs(d, d')
             /\ x.result = "applied" =>
                  /\ bridge.req.prof \in Profiles
                  /\ x.gen = d'.gen /\ d'.app # None /\ (OneBase => d'.app = bridge.req.prof)
<1> DEFINE r == bridge.req
           answer == [Message("response", bridge.epoch) EXCEPT !.id = r.id]
<1>1. DesktopTypeOK /\ BridgeShape /\ d \in Daemons /\ bridge \in Bridges /\ toUi \in Seq(Messages)
  BY DEF DesktopInv, DesktopTypeOK
<1>2. bridge.pc = "request"
  BY DEF Deliver
<1>3. r \in Mutations
  BY <1>1, <1>2 DEF BridgeShape, Bridges
<1>4. /\ r.op \in Asked /\ r.id \in Nat /\ r.prof \in Profiles \cup {None}
      /\ r.op \in {"apply", "toggle"} => r.prof \in Profiles
  BY <1>3 DEF Mutations
<1>5. /\ bridge.epoch \in Nat /\ "applied" \in Results
      /\ None \notin Results /\ None \notin Errors /\ None \notin Nat
  BY <1>1, NoneAssumption DEF Bridges, Results
<1>6. \/ /\ ~Refuses(d, r.op) /\ d' = Mutated(d, r.op, r.prof)
         /\ toUi' = Append(toUi, [answer EXCEPT !.result = Result(r.op), !.gen = d'.gen])
      \/ /\ d' = d
         /\ toUi' = Append(toUi, [answer EXCEPT !.err = IF d.orphan THEN "orphan" ELSE "other"])
      \/ /\ ~Refuses(d, r.op)
         /\ d' = IF r.op \in {"apply", "toggle", "deactivate"}
                 THEN [d EXCEPT !.seq = @ + 1,
                                !.desired = CASE r.op = "apply" -> r.prof
                                              [] r.op = "toggle" -> Switched(@, r.prof.on)
                                              [] OTHER -> @]
                 ELSE d
         /\ toUi' = Append(toUi, [answer EXCEPT !.err = "other"])
  BY DEF Deliver, Says
<1> HIDE DEF r
<1>7. ASSUME NEW e \in {"orphan", "other"}, NEW x, x = [answer EXCEPT !.err = e]
      PROVE  /\ x \in Messages /\ MessageShape(x) /\ x.kind = "response"
             /\ x.id = r.id /\ x.epoch = bridge.epoch /\ x.result = None
  <2>1. e \in Errors
    BY DEF Errors
  <2> QED BY <1>4, <1>5, <1>7, <2>1 DEF Message, Messages, MessageShape
<1>8. None # "applied" /\ None # "deactivated"
  BY NoneAssumption DEF Results
<1>9. CASE /\ ~Refuses(d, r.op) /\ d' = Mutated(d, r.op, r.prof)
           /\ toUi' = Append(toUi, [answer EXCEPT !.result = Result(r.op), !.gen = d'.gen])
  <2>1. /\ d' \in Daemons /\ Moves(d, d')
        /\ r.op # "deactivate" => Climbs(d, d')
        /\ r.op \in {"apply", "toggle"} => d'.app # None
        /\ OneBase /\ r.op \in {"apply", "toggle"} => d'.app = r.prof
    <3>1. r.op # "fail"
      BY <1>4 DEF Asked
    <3> QED BY <1>1, <1>4, <1>9, <3>1, MutatedMoves
  <2>2. /\ Result(r.op) \in Results
        /\ Result(r.op) = "deactivated" <=> r.op = "deactivate"
        /\ Result(r.op) = "applied" => r.op \in {"apply", "toggle"}
    BY <1>4 DEF Asked, Result, Results
  <2>3. d'.gen \in Nat
    BY <2>1 DEF Daemons
  <2>4. PICK x : x = [answer EXCEPT !.result = Result(r.op), !.gen = d'.gen]
    OBVIOUS
  <2>5. PICK res \in Results : res = Result(r.op)
    BY <2>2
  <2>6. x = [answer EXCEPT !.result = res, !.gen = d'.gen]
    BY <2>4, <2>5
  <2>7. /\ x \in Messages /\ MessageShape(x) /\ x.kind = "response"
        /\ x.id = r.id /\ x.epoch = bridge.epoch /\ x.result = res /\ x.gen = d'.gen
    BY <1>4, <1>5, <2>3, <2>6 DEF Message, Messages, MessageShape
  <2>8. toUi' = Append(toUi, x)
    BY <1>9, <2>4
  <2> QED BY <1>4, <2>1, <2>2, <2>5, <2>7, <2>8 DEF r
<1>10. ASSUME d' \in Daemons, Moves(d, d'), Climbs(d, d'), NEW e \in {"orphan", "other"},
              toUi' = Append(toUi, [answer EXCEPT !.err = e])
       PROVE  \E x \in Messages :
                /\ toUi' = Append(toUi, x) /\ MessageShape(x) /\ x.kind = "response"
                /\ x.id = r.id /\ x.epoch = bridge.epoch /\ x.result = None
  <2>1. PICK x : x = [answer EXCEPT !.err = e]
    OBVIOUS
  <2> QED BY <1>7, <1>10, <2>1
<1>11. CASE /\ d' = d
            /\ toUi' = Append(toUi, [answer EXCEPT !.err = IF d.orphan THEN "orphan" ELSE "other"])
  <2>1. d' \in Daemons /\ Moves(d, d') /\ Climbs(d, d')
    BY <1>1, <1>11 DEF Moves, Climbs, Daemons
  <2>2. PICK e \in {"orphan", "other"} : e = IF d.orphan THEN "orphan" ELSE "other"
    OBVIOUS
  <2>3. toUi' = Append(toUi, [answer EXCEPT !.err = e])
    BY <1>11, <2>2
  <2> QED BY <1>8, <1>10, <2>1, <2>3 DEF r
<1>12. CASE /\ ~Refuses(d, r.op)
            /\ d' = IF r.op \in {"apply", "toggle", "deactivate"}
                    THEN [d EXCEPT !.seq = @ + 1,
                                   !.desired = CASE r.op = "apply" -> r.prof
                                                 [] r.op = "toggle" -> Switched(@, r.prof.on)
                                                 [] OTHER -> @]
                    ELSE d
            /\ toUi' = Append(toUi, [answer EXCEPT !.err = "other"])
  <2>1. /\ d.seq \in Nat /\ d.seq + 1 \in Nat /\ d.gen \in Nat
        /\ d.desired \in Profiles \cup {None}
    BY <1>1 DEF Daemons
  <2>2. d' \in Daemons /\ Moves(d, d') /\ Climbs(d, d')
    <3>1. CASE r.op \in {"apply", "toggle", "deactivate"}
      <4> DEFINE want == CASE r.op = "apply" -> r.prof
                           [] r.op = "toggle" -> Switched(d.desired, r.prof.on)
                           [] OTHER -> d.desired
      <4>1. want \in Profiles \cup {None}
        <5>1. CASE r.op = "toggle"
          <6>1. d.desired \in Profiles /\ r.prof \in Profiles
            BY <1>4, <1>12, <2>1, <5>1 DEF Refuses
          <6> QED BY <5>1, <6>1 DEF Switched, Profiles
        <5>2. CASE r.op # "toggle"
          BY <1>4, <2>1, <3>1, <5>2
        <5> QED BY <5>1, <5>2
      <4>2. d' = [d EXCEPT !.seq = @ + 1, !.desired = want]
        BY <1>12, <3>1
      <4> HIDE DEF want
      <4>3. d' \in Daemons /\ d'.seq = d.seq + 1 /\ d'.gen = d.gen /\ d'.app = d.app
        BY <1>1, <2>1, <4>1, <4>2 DEF Daemons
      <4> QED BY <2>1, <4>3 DEF Moves, Climbs
    <3>2. CASE r.op \notin {"apply", "toggle", "deactivate"}
      BY <1>1, <1>12, <2>1, <3>2 DEF Moves, Climbs
    <3> QED BY <3>1, <3>2
  <2> QED BY <1>8, <1>10, <1>12, <2>2 DEF r
<1> QED BY <1>6, <1>9, <1>11, <1>12 DEF r

\* The daemon's answer is told to the window.
LEMMA DeliverStep ==
    ASSUME DesktopInv, Deliver
    PROVE  DesktopInv'
<1>1. /\ DesktopTypeOK /\ BridgeShape /\ FeedInv /\ WindowInv(s, c.id, toBridge, toUi)
      /\ bridge \in Bridges /\ d \in Daemons
      /\ s \in Sessions /\ c.id \in Nat /\ toBridge \in Seq(Requests) /\ toUi \in Seq(Messages)
  BY DEF DesktopInv, DesktopTypeOK, Controllers
<1>2. /\ bridge.pc = "request" /\ late = <<>>
      /\ bridge' = [bridge EXCEPT !.pc = "idle", !.req = None]
      /\ feed' = Announced(d')
      /\ used' = used \/ used' = [used EXCEPT !.faults = @ + 1]
      /\ UNCHANGED <<late, toBridge, s, c>>
  BY DEF Deliver, Fault
<1>3. PICK x \in Messages :
             /\ toUi' = Append(toUi, x) /\ MessageShape(x) /\ x.kind = "response"
             /\ x.id = bridge.req.id /\ x.epoch = bridge.epoch
             /\ d' \in Daemons /\ Moves(d, d')
             /\ x.result = "deactivated" => bridge.req.op = "deactivate"
             /\ x.result # "deactivated" => Climbs(d, d')
             /\ x.result = "applied" =>
                  /\ bridge.req.prof \in Profiles
                  /\ x.gen = d'.gen /\ d'.app # None /\ (OneBase => d'.app = bridge.req.prof)
  BY AnswerIs
<1>4. bridge.req # None /\ bridge.req \in Mutations /\ bridge.req.id \in Nat /\ ~bridge.connecting
  BY <1>1, <1>2 DEF BridgeShape, Bridges, Mutations
<1>5. /\ bridge' \in Bridges /\ bridge'.pc = "idle" /\ bridge'.req = None
      /\ bridge'.epoch = bridge.epoch /\ bridge'.sub = bridge.sub
      /\ bridge'.connecting = bridge.connecting /\ bridge'.lost = bridge.lost
      /\ bridge'.min = bridge.min /\ bridge'.status = bridge.status
  BY <1>1, <1>2 DEF Bridges
<1>6. /\ feed' \in Seq(Statuses) /\ FeedInv' /\ (Linked <=> Linked')
      /\ \A st \in Statuses : Past(st) => Past(st)'
      /\ Linked => Ahead' \/ (StatusOf(d)' = StatusOf(d) /\ (Ahead => Ahead'))
      /\ d'.seq = d.seq => d'.gen = d.gen
      /\ d.seq <= d'.seq /\ d.seq \in Nat /\ d'.seq \in Nat
  BY <1>1, <1>2, <1>3, <1>5, FeedMoves
<1>7. \A m \in ToSet(toUi) : m.kind = "response" => m.id < x.id
  BY <1>1, <1>3, <1>4 DEF WindowInv, Ordered, Answered
<1>8. /\ toUi' \in Seq(Messages) /\ ToSet(toUi') = ToSet(toUi) \cup {x}
      /\ Introduced(s, toUi)' /\ InTurn(toUi)' /\ \A m \in ToSet(toUi') : MessageShape(m)
      /\ Current(x)'
  BY <1>1, <1>2, <1>3, <1>5, <1>7, Spoken DEF WindowInv, Ordered
<1>9. DesktopTypeOK' /\ BridgeShape'
  <2>1. DesktopTypeOK'
    BY <1>1, <1>2, <1>3, <1>5, <1>6, <1>8, UsedTyped DEF DesktopTypeOK
  <2>2. BridgeShape'
    BY <1>1, <1>4, <1>5 DEF BridgeShape
  <2> QED BY <2>1, <2>2
<1>10. SessionShape(s)'
  BY <1>1, <1>2 DEF WindowInv, SessionShape, In
<1>11. Ordered(s, c.id, toBridge, toUi)'
  <2>1. Increasing(toBridge)'
    BY <1>1, <1>2 DEF WindowInv, Ordered, Increasing, IsAsked
  <2>2. \A r \in ToSet(toBridge') : IsAsked(r) => r.id < c'.id
    BY <1>1, <1>2 DEF WindowInv, Ordered
  <2>3. ASSUME NEW m \in ToSet(toUi'), m.kind = "response"
        PROVE  /\ m.id < c.id
               /\ \A r \in ToSet(toBridge) : IsAsked(r) => m.id < r.id
               /\ m.id + 1 = c.id => late = <<>>
    <3>1. CASE m = x
      BY <1>1, <1>2, <1>3, <1>4, <3>1 DEF WindowInv, Ordered
    <3>2. CASE m \in ToSet(toUi)
      BY <1>1, <2>3, <3>2 DEF WindowInv, Ordered, Answered
    <3> QED BY <1>8, <3>1, <3>2
  <2>4. \A m \in ToSet(toUi') : Answered(m, c.id, toBridge)'
    BY <1>2, <1>5, <2>3 DEF Answered, IsAsked
  <2>5. In(s, "reply") \/ In(s, "snapshot") => s.pending.id + 1 = c.id
    BY <1>1 DEF WindowInv, Ordered
  <2> QED BY <1>2, <1>5, <1>8, <2>1, <2>2, <2>4, <2>5 DEF Ordered, IsAsked, In
<1>12. Told(toUi)'
  <2>1. \A m \in ToSet(toUi) : m.kind \in {"snapshot", "event"} => m.status \in Statuses
    BY <1>1, MessagesTyped DEF WindowInv
  <2>2. Told(toUi)
    BY <1>1 DEF WindowInv
  <2> QED BY <1>3, <1>5, <1>6, <1>8, <2>1, <2>2 DEF Told, Current
<1>13. Knows(s)'
  BY <1>1, <1>2, <1>5, <1>6, KnowsOn DEF WindowInv
<1>14. Coming(s, toBridge, toUi)'
  <2>1. Coming(s, toBridge, toUi) /\ ~Reads
    BY <1>1, <1>2 DEF WindowInv, Reads
  <2>2. StatusOf(d)' = StatusOf(d) =>
          /\ UpToDate(s) => UpToDate(s)'
          /\ \A m \in ToSet(toUi) : Announces(m, s) => Announces(m, s)'
    BY <1>2, <1>5 DEF UpToDate, Announces, Current, In
  <2> QED BY <1>2, <1>6, <1>8, <2>1, <2>2 DEF Coming, IsAsked
<1>15. Waited(s, toBridge, toUi)'
  <2>1. Waited(s, toBridge, toUi)
    BY <1>1 DEF WindowInv
  <2> QED BY <1>2, <1>3, <1>5, <1>6, <1>8, <2>1 DEF Waited, Hears, In, IsAsked, Current, AnswerTo
<1>16. ASSUME In(s, "reply"), NEW m \in ToSet(toUi'), AnswerTo(m, s.pending.id)
       PROVE  m = x /\ bridge.req.id = s.pending.id
  <2>1. m \notin ToSet(toUi)
    BY <1>1, <1>4, <1>16, LastAnswer DEF NothingAsked
  <2> QED BY <1>3, <1>8, <1>16, <2>1 DEF AnswerTo
<1>17. Asking(s, toBridge, toUi)'
  <2> SUFFICES ASSUME In(s, "reply")
               PROVE  /\ \A r \in ToSet(toBridge) : IsAsked(r) => Faithful(r, s)
                      /\ \A m \in ToSet(toUi') : AnswerTo(m, s.pending.id) =>
                           /\ m.result = "applied" =>
                                s.pending.cand # None /\ Holds(m.gen, s.pending.cand)'
                           /\ m.result = "deactivated" => s.pending.kind = "deactivate"
    BY <1>2, <1>5 DEF Asking, In, Faithful, IsAsked, AnswerTo, Holds
  <2>1. /\ \A r \in ToSet(toBridge) : IsAsked(r) => Faithful(r, s)
        /\ Faithful(bridge.req, s)
    BY <1>1, <1>4 DEF WindowInv, Asking
  <2>2. ASSUME NEW m \in ToSet(toUi'), AnswerTo(m, s.pending.id)
        PROVE  /\ m.result = "applied" => s.pending.cand # None /\ Holds(m.gen, s.pending.cand)'
               /\ m.result = "deactivated" => s.pending.kind = "deactivate"
    <3>1. m = x /\ bridge.req.op = s.pending.kind /\ bridge.req.prof = s.pending.cand
      BY <1>16, <2>1, <2>2 DEF Faithful
    <3>2. ASSUME x.result = "applied" PROVE s.pending.cand # None /\ Holds(x.gen, s.pending.cand)'
      <4>1. s.pending.cand \in Profiles /\ x.gen = d'.gen /\ d'.gen \in Nat /\ d'.app # None
            /\ (OneBase => d'.app = s.pending.cand)
        BY <1>3, <3>1, <3>2 DEF Daemons
      <4>2. d'.gen <= d'.gen
        BY <4>1
      <4>3. None \notin Profiles
        BY NoneAssumption
      <4> QED BY <1>2, <4>1, <4>2, <4>3 DEF Holds
    <3> QED BY <1>3, <3>1, <3>2
  <2> QED BY <2>1, <2>2
<1>18. Awaiting(s, toBridge)'
  BY <1>1, <1>2, <1>4 DEF WindowInv, Awaiting, In, NothingAsked
<1>19. Believed(s, toBridge, toUi)'
  <2> SUFFICES ASSUME Hears(s), s.applied # None
               PROVE  /\ late' = <<>>
                      /\ OnlyAsked(s, toBridge)'
                      /\ Holds(s.applied.gen, s.applied.prof)' \/ Doomed(s, toUi)'
    BY <1>2, <1>5, <1>6 DEF Believed, Hears
  <2>1. /\ OnlyAsked(s, toBridge)
        /\ Holds(s.applied.gen, s.applied.prof) \/ Doomed(s, toUi)
    BY <1>1, <1>4 DEF WindowInv, Believed, NothingAsked
  <2>2. In(s, "reply") /\ bridge.req.id = s.pending.id
    BY <1>4, <2>1 DEF OnlyAsked
  <2>3. OnlyAsked(s, toBridge)'
    BY <1>2, <1>5, <2>1 DEF OnlyAsked, IsAsked, In
  <2>4. ~Doomed(s, toUi)
    BY <1>1, <1>4, <2>2, LastAnswer DEF Doomed, NothingAsked
  <2>5. s.applied.gen \in Nat
    BY <1>1 DEF Sessions, Applications
  <2>6. CASE x.result # "deactivated"
    <3>1. PICK gen, p : gen \in Nat /\ gen = s.applied.gen /\ p = s.applied.prof
      BY <2>5
    <3>2. Holds(gen, p)
      BY <2>1, <2>4, <3>1
    <3>3. Holds(gen, p)'
      BY <1>1, <1>3, <2>6, <3>1, <3>2, HoldsOn
    <3>4. gen = s'.applied.gen /\ p = s'.applied.prof
      BY <1>2, <3>1
    <3>5. Holds(s.applied.gen, s.applied.prof)'
      BY <3>3, <3>4 DEF Holds
    <3> QED BY <1>2, <2>3, <3>5
  <2>7. CASE x.result = "deactivated"
    <3>1. \A m \in ToSet(toUi') : AnswerTo(m, s.pending.id) => m.result = "deactivated"
      BY <1>16, <2>2, <2>7
    <3>2. x \in ToSet(toUi') /\ AnswerTo(x, s.pending.id)
      BY <1>3, <1>8, <2>2 DEF AnswerTo
    <3>3. Doomed(s, toUi)'
      BY <1>2, <1>8, <2>2, <3>1, <3>2 DEF Doomed, In, AnswerTo, Current
    <3> QED BY <1>2, <2>3, <3>3
  <2> QED BY <2>6, <2>7
<1> QED BY <1>6, <1>8, <1>9, <1>10, <1>11, <1>12, <1>13, <1>14, <1>15, <1>17, <1>18, <1>19
        DEF DesktopInv, WindowInv

-----------------------------------------------------------------------------
(* The theorems *)

\* At the start nobody knows anything, and nothing is promised.
LEMMA AtFirst ==
    ASSUME Init
    PROVE  DesktopInv
<1>1. PICK p \in [base: Bases, on: {TRUE}], orphan \in BOOLEAN :
        /\ d = [seq |-> 0, gen |-> 0, app |-> None, desired |-> None, orphan |-> orphan]
        /\ late = <<>> /\ feed = <<>> /\ toBridge = <<>> /\ toUi = <<>>
        /\ bridge = [pc |-> "idle", epoch |-> 0, sub |-> FALSE, min |-> 0, req |-> None,
                     status |-> None, connecting |-> FALSE, lost |-> FALSE]
        /\ s = NewSession(p) /\ c = NewController(p)
        /\ used = [user |-> 0, other |-> 0, faults |-> 0]
  BY DEF Init
<1>2. p \in Profiles
  BY <1>1 DEF Profiles
<1>3. DesktopTypeOK
  BY <1>1, <1>2
     DEF DesktopTypeOK, Daemons, Bridges, Sessions, Controllers, NewSession, NewController
<1>4. BridgeShape /\ ~Linked
  BY <1>1 DEF BridgeShape, Linked, Listening
<1>5. ToSet(toBridge) = {} /\ ToSet(toUi) = {} /\ DOMAIN toBridge = {} /\ DOMAIN toUi = {}
  BY <1>1 DEF ToSet
<1>6. /\ s.epoch = 0 /\ s.known = FALSE /\ s.rev = None /\ s.pending = None /\ s.applied = None
      /\ bridge.epoch = 0 /\ bridge.req = None /\ c.id = 0
  BY <1>1 DEF NewSession, NewController
<1>7. ~In(s, "saving") /\ ~In(s, "reply") /\ ~In(s, "snapshot")
  BY <1>6 DEF In
<1>8. SessionShape(s) /\ \A m \in ToSet(toUi) : MessageShape(m)
  BY <1>5, <1>6, <1>7 DEF SessionShape
<1>9. Introduced(s, toUi)
  BY <1>5, <1>6 DEF Introduced
<1>10. Ordered(s, c.id, toBridge, toUi)
  BY <1>5, <1>6, <1>7 DEF Ordered, Increasing, InTurn
<1>11. /\ FeedInv /\ Told(toUi) /\ Knows(s) /\ Coming(s, toBridge, toUi)
       /\ Waited(s, toBridge, toUi) /\ Believed(s, toBridge, toUi)
  BY <1>4 DEF FeedInv, Told, Knows, Coming, Waited, Believed, Hears
<1>12. Asking(s, toBridge, toUi) /\ Awaiting(s, toBridge)
  BY <1>7 DEF Asking, Awaiting
<1> QED BY <1>3, <1>4, <1>8, <1>9, <1>10, <1>11, <1>12 DEF DesktopInv, WindowInv

\* A step that changes nothing.
LEMMA Stutters ==
    ASSUME DesktopInv, UNCHANGED vars
    PROVE  DesktopInv'
<1>1. /\ d' = d /\ late' = late /\ feed' = feed /\ bridge' = bridge /\ toBridge' = toBridge
      /\ toUi' = toUi /\ s' = s /\ c' = c /\ used' = used
  BY DEF vars
<1>2. DesktopTypeOK'
  BY <1>1 DEF DesktopInv, DesktopTypeOK
<1>3. WindowInv(s', c'.id, toBridge', toUi')
  BY <1>1 DEF DesktopInv
<1> QED BY <1>1, <1>2, <1>3, WindowPrimed

\* Every step keeps the invariant.
LEMMA StepKeeps ==
    ASSUME DesktopInv, [Next]_vars, "deactivate" \notin Others
    PROVE  DesktopInv'
<1>1. ASSUME NEW op \in Others, NEW p \in Profiles, Other(op, p) PROVE DesktopInv'
  BY <1>1, OtherStep
<1>2. CASE BridgeActs
  BY <1>2, TakeStep, DeliverStep, StatusStep, ProfilesStep, ConnectStep, EventStep, LostStep
     DEF BridgeActs
<1> QED BY <1>1, <1>2, UserStep, SavedStep, ReceiveStep, TimesOutStep, LostStep, LateStep,
           RestartStep, LagStep, Stutters DEF Next

\* Nothing is on its way: the window has been told everything.
LEMMA SettledIs ==
    ASSUME DesktopInv, Settled
    PROVE  /\ Linked /\ ToSet(toBridge) = {} /\ ToSet(toUi) = {} /\ bridge.req = None
           /\ s.epoch = bridge.epoch /\ UpToDate(s) /\ ~In(s, "reply")
<1>1. /\ DesktopTypeOK /\ BridgeShape /\ WindowInv(s, c.id, toBridge, toUi)
      /\ s.epoch \in Nat /\ bridge.epoch \in Nat
  BY DEF DesktopInv, DesktopTypeOK, Sessions, Bridges
<1>2. Linked
  BY DEF Settled, Linked, Listening
<1>3. ToSet(toBridge) = {} /\ ToSet(toUi) = {} /\ DOMAIN toUi = {}
  BY DEF Settled, ToSet
<1>4. bridge.req = None
  BY <1>1 DEF BridgeShape, Settled
<1>5. UpToDate(s)
  BY <1>1, <1>2, <1>3 DEF WindowInv, Coming, Settled, Reads, Ahead
<1>6. s.epoch = bridge.epoch
  BY <1>5 DEF UpToDate
<1>7. ~In(s, "reply")
  BY <1>1, <1>2, <1>3, <1>4, <1>6 DEF WindowInv, Waited, Hears
<1> QED BY <1>2, <1>3, <1>4, <1>5, <1>6, <1>7

LEMMA ShownIs ==
    ASSUME DesktopInv
    PROVE  SettledShowsDaemon
<1> SUFFICES ASSUME Settled
             PROVE  s.known /\ s.status = StatusOf(d) /\ (In(s, "saving") \/ ~Busy(s))
  BY DEF SettledShowsDaemon
<1>1. UpToDate(s) /\ ~In(s, "reply")
  BY SettledIs
<1>2. s.pending \in Pendings \cup {None}
  BY DEF DesktopInv, DesktopTypeOK, Sessions
<1>3. In(s, "saving") \/ ~Busy(s)
  BY <1>1, <1>2 DEF UpToDate, In, Busy, Pendings
<1> QED BY <1>1, <1>3 DEF UpToDate

LEMMA AppliedHolds ==
    ASSUME DesktopInv, OneBase
    PROVE  AppliedIsApplied
<1> SUFFICES ASSUME Settled, ~NeedsReapply(s, c.profile) PROVE d.app = c.profile
  BY DEF AppliedIsApplied
<1>1. /\ s.applied # None /\ s.applied.prof = c.profile /\ s.status.gen = s.applied.gen
  BY DEF NeedsReapply
<1>2. Linked /\ ToSet(toUi) = {} /\ s.epoch = bridge.epoch /\ UpToDate(s) /\ ~In(s, "reply")
  BY SettledIs
<1>3. ~Doomed(s, toUi)
  BY <1>2 DEF Doomed
<1>4. Holds(s.applied.gen, s.applied.prof)
  BY <1>1, <1>2, <1>3 DEF DesktopInv, WindowInv, Believed, Hears
<1>5. s.applied.gen = d.gen
  BY <1>1, <1>2 DEF UpToDate, StatusOf
<1> QED BY <1>1, <1>4, <1>5 DEF Holds

\* The inductive invariant: the daemon's stream, the messages over the current
\* connection, the request that is waited for and the application that is
\* believed in, as long as no other client deactivates.
THEOREM DesktopSound ==
    ASSUME "deactivate" \notin Others
    PROVE  Spec => []DesktopInv
<1>1. Init => DesktopInv
  BY AtFirst
<1>2. DesktopInv /\ [Next]_vars => DesktopInv'
  BY StepKeeps
<1> QED BY <1>1, <1>2, PTL DEF Spec

\* DesktopTypeOK: the bridge thread, the session and everything on its way
\* between them has its type.
THEOREM DesktopTyped ==
    ASSUME "deactivate" \notin Others
    PROVE  Spec => []DesktopTypeOK
<1>1. DesktopInv => DesktopTypeOK
  BY DEF DesktopInv
<1> QED BY <1>1, DesktopSound, PTL

\* SettledShowsDaemon: whatever was lost, dropped or reconnected, the window
\* comes to show the daemon's status and waits for no answer (UiSession,
\* daemon_bridge), as long as no other client deactivates.
THEOREM SettledShows ==
    ASSUME "deactivate" \notin Others
    PROVE  Spec => []SettledShowsDaemon
<1>1. DesktopInv => SettledShowsDaemon
  BY ShownIs
<1> QED BY <1>1, DesktopSound, PTL

\* AppliedIsApplied: what needs no reapplication is what the daemon applied
\* (needs_reapply), as long as no other client deactivates and all clients
\* agree on the profile but for the switch.
THEOREM AppliedIs ==
    ASSUME "deactivate" \notin Others, OneBase
    PROVE  Spec => []AppliedIsApplied
<1>1. DesktopInv => AppliedIsApplied
  BY AppliedHolds
<1> QED BY <1>1, DesktopSound, PTL

====
