--------------------------- MODULE SdnNodeProofs ---------------------------
(***************************************************************************)
(* Proofs about SdnNode for pools, queues, tables and windows of every     *)
(* size, and every set of packets that neighbours may send.                *)
(*                                                                         *)
(* A handler is a composition of functions on the node's state.  Fit(s, n) *)
(* is what they all keep: n buffers are accounted for in s, the send       *)
(* process is awake exactly if its queue is not empty, and no packet waits *)
(* for a route that is there.  Each function has a lemma with the number   *)
(* of buffers that it gives back or takes; a handler that has a buffer in  *)
(* its hands works on a state in which one is missing.  The later sections *)
(* add to it what OneReport and ImplementsWindow need.                     *)
(***************************************************************************)
EXTENDS SdnNode, NumberLemmas

Fields == {"status", "sendQ", "recvQ", "event", "keep", "pool", "win",
           "table", "phase", "owed"}

IsSeq(q) == \E S : q \in Seq(S)

IsQueue(q) == IsSeq(q) /\ \A i \in DOMAIN q : IsPacket(q[i])

KeptAt(keep) == {i \in DOMAIN keep : keep[i] # <<>>}

IsKeep(keep) ==
  /\ DOMAIN keep = 1 .. KeepMax
  /\ \A i \in KeptAt(keep) : IsPacket(keep[i])

IsWindow(w) ==
  /\ DOMAIN w = {"pkt", "live", "count"}
  /\ DOMAIN w.pkt = Slots /\ w.live \in [Slots -> BOOLEAN]
  /\ \A i \in Slots : w.live[i] => IsPacket(w.pkt[i])

IsTable(t) ==
  /\ \A k \in DOMAIN t : t[k] \in Actions
  /\ IsFiniteSet(DOMAIN t) /\ Cardinality(DOMAIN t) <= TableSize

Held(s) == s.pool + Len(s.sendQ) + Len(s.recvQ) + Cardinality(KeptAt(s.keep))

\* The parts of a node's state, with n buffers in them.
Parts(s, n) ==
  /\ DOMAIN s = Fields
  /\ IsQueue(s.sendQ) /\ Len(s.sendQ) <= SendMax
  /\ IsQueue(s.recvQ)
  /\ IsKeep(s.keep) /\ s.pool \in Nat
  /\ IsWindow(s.win)
  /\ IsTable(s.table)
  /\ Held(s) = n

Awake(s) ==
  /\ s.status \in {"IDLE", "BUSY", "ACK_WAIT"}
  /\ s.status = "IDLE" <=> s.sendQ = <<>>

NoneWaits(s) == \A i \in KeptAt(s.keep) : RouteKey(s.keep[i]) \notin DOMAIN s.table

Fit(s, n) == Parts(s, n) /\ Awake(s) /\ NoneWaits(s)

\* The wait for the controller is over only with a route to it.
Routed(s) == \/ CtrlFlow \in DOMAIN s.table
             \/ Cardinality(DOMAIN s.table) = TableSize

Steady(s) == s.phase = "STEADY" => Routed(s)

\* What no handler does to a packet that the MAC layer has.
SamePacket(p, q) == SameRequest(p, q) /\ p.seq = q.seq /\ p.own = q.own

\* What a function leaves alone: the receive queue, entries of the table and
\* the head of the send queue.
Keeps(s, t) ==
  /\ t.recvQ = s.recvQ /\ t.event = s.event
  /\ DOMAIN s.table \subseteq DOMAIN t.table
  /\ t.status \in {s.status, "BUSY"}
  /\ s.sendQ # <<>> => /\ t.sendQ # <<>> /\ t.status = s.status
                       /\ SamePacket(Head(s.sendQ), Head(t.sendQ))

----------------------------------------------------------------------------
(* Sequences, packets and sets                                             *)

LEMMA SeqLen ==
  ASSUME NEW q, IsSeq(q)
  PROVE  /\ Len(q) \in Nat /\ DOMAIN q = 1 .. Len(q)
         /\ q = <<>> <=> Len(q) = 0
  BY DEF IsSeq

LEMMA SeqAppend ==
  ASSUME NEW q, IsSeq(q), NEW x
  PROVE  /\ IsSeq(Append(q, x)) /\ Len(Append(q, x)) = Len(q) + 1
         /\ DOMAIN Append(q, x) = 1 .. Len(q) + 1 /\ Append(q, x) # <<>>
         /\ \A i \in DOMAIN q : Append(q, x)[i] = q[i]
         /\ Append(q, x)[Len(q) + 1] = x
         /\ q # <<>> => Head(Append(q, x)) = Head(q)
<1>1. PICK S : q \in Seq(S)
  BY DEF IsSeq
<1> DEFINE T == S \cup {x}
<1>2. q \in Seq(T) /\ x \in T
  BY <1>1
<1> HIDE DEF T
<1>3. Append(q, x) \in Seq(T)
  BY <1>2
<1> QED
  BY <1>2, <1>3 DEF IsSeq

LEMMA SeqTail ==
  ASSUME NEW q, IsSeq(q), q # <<>>
  PROVE  /\ IsSeq(Tail(q)) /\ Len(Tail(q)) = Len(q) - 1 /\ Len(q) \in Nat \ {0}
         /\ 1 \in DOMAIN q /\ Head(q) = q[1]
         /\ \A i \in DOMAIN Tail(q) : i + 1 \in DOMAIN q /\ Tail(q)[i] = q[i + 1]
  BY DEF IsSeq

\* Names under which the provers find the terms below.
Joined(q, r) == q \o r

IsList(r, m) == r = [i \in 1 .. m |-> r[i]]

LEMMA SeqJoin ==
  ASSUME NEW q, IsSeq(q), NEW m \in Nat, NEW r, IsList(r, m), NEW c, c = Joined(q, r)
  PROVE  /\ IsSeq(c) /\ Len(c) = Len(q) + m
         /\ \A i \in DOMAIN c :
              \/ i \in DOMAIN q /\ c[i] = q[i]
              \/ \E j \in 1 .. m : c[i] = r[j]
         /\ \A i \in DOMAIN q : i \in DOMAIN c /\ c[i] = q[i]
         /\ \A i \in DOMAIN c \ DOMAIN q :
              i - Len(q) \in 1 .. m /\ c[i] = r[i - Len(q)]
         /\ q # <<>> => Head(c) = Head(q)
<1>1. PICK S : q \in Seq(S)
  BY DEF IsSeq
<1> DEFINE T == S \cup {r[i] : i \in 1 .. m}
<1>2. q \in Seq(T) /\ \A i \in 1 .. m : r[i] \in T
  BY <1>1
<1> HIDE DEF T
<1>3. r \in Seq(T) /\ Len(r) = m
  BY <1>2 DEF IsList
<1>4. /\ c \in Seq(T) /\ Len(c) = Len(q) + m /\ DOMAIN c = 1 .. Len(q) + m
      /\ \A i \in 1 .. Len(q) + m : c[i] = IF i <= Len(q) THEN q[i] ELSE r[i - Len(q)]
  BY <1>2, <1>3 DEF Joined
<1>5. Len(q) \in Nat /\ DOMAIN q = 1 .. Len(q)
  BY <1>2
<1>6. ASSUME NEW i \in DOMAIN c
      PROVE  \/ i \in DOMAIN q /\ c[i] = q[i]
             \/ i - Len(q) \in 1 .. m /\ c[i] = r[i - Len(q)]
  <2>1. CASE i <= Len(q)
    <3>1. i \in 1 .. Len(q) + m /\ i \in 1 .. Len(q)
      BY <1>4, <1>5, <2>1
    <3> QED
      BY <1>4, <1>5, <2>1, <3>1
  <2>2. CASE ~ (i <= Len(q))
    <3>1. i - Len(q) \in 1 .. m
      BY <1>4, <1>5, <2>2
    <3> QED
      BY <1>4, <2>2, <3>1
  <2> QED
    BY <2>1, <2>2
<1>7. q # <<>> => Head(c) = Head(q)
  <2> SUFFICES ASSUME q # <<>> PROVE Head(c) = Head(q)
    OBVIOUS
  <2>1. Len(q) > 0 /\ Head(q) = q[1]
    BY <1>2
  <2>2. 1 \in 1 .. Len(q) + m /\ 1 <= Len(q)
    BY <1>5, <2>1
  <2>3. c[1] = q[1]
    BY <1>4, <2>2
  <2>4. c # <<>>
    BY <1>4, <1>5, <2>1
  <2> QED
    BY <1>4, <2>1, <2>3, <2>4
<1>8. \A i \in DOMAIN q : i \in DOMAIN c /\ c[i] = q[i]
  <2> SUFFICES ASSUME NEW i \in DOMAIN q PROVE i \in DOMAIN c /\ c[i] = q[i]
    OBVIOUS
  <2>1. i \in 1 .. Len(q) + m /\ i <= Len(q)
    BY <1>5
  <2> QED
    BY <1>4, <2>1
<1> QED
  BY <1>4, <1>6, <1>7, <1>8 DEF IsSeq

\* Packets made by the node.
LEMMA OwnPacket ==
  ASSUME NEW type, NEW key, NEW seq, NEW ver, type \in ByFlow
  PROVE  IsPacket(Own(type, key, seq, ver))
  BY DEF IsPacket, Own, ByFlow, IsSetup

LEMMA ViaPacket ==
  ASSUME NEW p, IsPacket(p), NEW via
  PROVE  IsPacket([p EXCEPT !.via = via])
  BY DEF IsPacket, IsSetup

LEMMA SeqPacket ==
  ASSUME NEW p, IsPacket(p), NEW seq
  PROVE  IsPacket([p EXCEPT !.seq = seq])
  BY DEF IsPacket, IsSetup

LEMMA RewrittenPacket ==
  ASSUME NEW p, IsPacket(p), NEW seq, NEW ver
  PROVE  IsPacket(Rewritten(p, seq, ver)) /\ SamePacket(p, Rewritten(p, seq, ver))
  BY DEF IsPacket, IsSetup, Rewritten, SamePacket, SameRequest

LEMMA PacketNotBlank ==
  ASSUME NEW p, IsPacket(p)
  PROVE  p # <<>>
<1>1. DOMAIN <<>> = {}
  OBVIOUS
<1> QED
  BY <1>1 DEF IsPacket

LEMMA KeepFinite ==
  ASSUME NEW keep, DOMAIN keep = 1 .. KeepMax
  PROVE  IsFiniteSet(KeptAt(keep)) /\ Cardinality(KeptAt(keep)) \in Nat
<1>1. KeptAt(keep) \in SUBSET (1 .. KeepMax) /\ KeepMax \in Nat
  BY SdnNodeAssumption DEF KeptAt
<1> QED
  <2>1. IsFiniteSet(1 .. KeepMax)
    BY <1>1, FS_Interval
  <2>2. IsFiniteSet(KeptAt(keep))
    BY <1>1, <2>1, FS_Subset
  <2> QED
    BY <2>2, FS_CardinalityType

\* The window's contents when slots are freed, filled, refreshed or given up.
LEMMA RemoveElementWindow ==
  ASSUME NEW w, IsWindow(w), NEW i
  PROVE  IsWindow(RemoveElement(w, i))
<1> DEFINE live == [w.live EXCEPT ![i] = FALSE]
<1>1. live \in [Slots -> BOOLEAN] /\ \A j \in Slots : live[j] => w.live[j]
  BY DEF IsWindow
<1> HIDE DEF live
<1>2. RemoveElement(w, i) = [pkt |-> w.pkt, live |-> live,
                             count |-> IF i < w.count THEN i ELSE w.count]
  BY DEF RemoveElement, live
<1> QED
  BY <1>1, <1>2 DEF IsWindow

LEMMA RemoveMatchWindow ==
  ASSUME NEW w, IsWindow(w), NEW S
  PROVE  IsWindow(RemoveMatch(w, S))
  BY RemoveElementWindow DEF RemoveMatch

LEMMA AwaitAckWindow ==
  ASSUME NEW w, IsWindow(w), NEW p, IsPacket(p)
  PROVE  IsWindow(AwaitAck(w, p))
<1>1. IsWindow(Refresh(w, p))
  <2> DEFINE R == Redundant(w, p)
  <2> HIDE DEF R
  <2>1. CASE p.type = "NEIGHBOR_REPORT"
    <3>1. Refresh(w, p) = [pkt   |-> [i \in Slots |-> IF i \in R THEN p ELSE w.pkt[i]],
                           live  |-> w.live, count |-> w.count]
      BY <2>1 DEF Refresh, R
    <3> QED
      BY <3>1 DEF IsWindow
  <2>2. CASE p.type # "NEIGHBOR_REPORT"
    BY <2>2 DEF Refresh
  <2> QED
    BY <2>1, <2>2
<1>2. IsWindow(GiveUp(w))
  BY DEF GiveUp, IsWindow
<1>3. IsWindow(Store(w, p))
  <2> DEFINE i == First(FreeSlots(w))
             pkt == [w.pkt EXCEPT ![i] = p]
             live == [w.live EXCEPT ![i] = TRUE]
  <2>1. Store(w, p) = [pkt |-> pkt, live |-> live, count |-> i + 1]
    BY DEF Store
  <2> HIDE DEF i
  <2>2. /\ DOMAIN pkt = Slots /\ live \in [Slots -> BOOLEAN]
        /\ \A j \in Slots : live[j] => IsPacket(pkt[j])
    BY DEF IsWindow
  <2> HIDE DEF pkt, live
  <2> QED
    BY <2>1, <2>2 DEF IsWindow
<1> QED
  BY <1>1, <1>2, <1>3 DEF AwaitAck

LEMMA TimerWindow ==
  ASSUME NEW w, IsWindow(w), NEW i \in Slots, w.live[i], NEW seq
  PROVE  IsWindow(TimerRequeued(w, i, seq))
<1> DEFINE p == [w.pkt[i] EXCEPT !.seq = seq]
           pkt == [w.pkt EXCEPT ![i] = p]
           v == [w EXCEPT !.pkt = pkt]
<1>1. IsPacket(p)
  BY SeqPacket DEF IsWindow
<1> HIDE DEF p
<1>2. DOMAIN pkt = Slots /\ \A j \in Slots : w.live[j] => IsPacket(pkt[j])
  BY <1>1 DEF IsWindow
<1>3. IsWindow(v)
  <2> HIDE DEF pkt
  <2> QED
    BY <1>2 DEF IsWindow
<1> HIDE DEF v
<1>4. TimerRequeued(w, i, seq) = RemoveElement(v, i)
  BY DEF TimerRequeued, v, pkt, p
<1> QED
  BY <1>3, <1>4, RemoveElementWindow

----------------------------------------------------------------------------
(* The functions of the node                                               *)

LEMMA KeepsAll ==
  ASSUME NEW s
  PROVE  Keeps(s, s)
  BY DEF Keeps, SamePacket, SameRequest

LEMMA KeepsTwice ==
  ASSUME NEW s, NEW t, NEW u, Keeps(s, t), Keeps(t, u)
  PROVE  Keeps(s, u)
  BY DEF Keeps, SamePacket, SameRequest

\* sdn_send_down_once wakes the send process if a packet was put in its
\* queue.
LEMMA DownOnceFit ==
  ASSUME NEW s, NEW n, Parts(s, n), NoneWaits(s),
         s.status \in {"IDLE", "BUSY", "ACK_WAIT"},
         s.status # "IDLE" => s.sendQ # <<>>
  PROVE  /\ Fit(DownOnce(s), n)
         /\ DownOnce(s).phase = s.phase /\ DownOnce(s).owed = s.owed
         /\ DownOnce(s).table = s.table /\ DownOnce(s).sendQ = s.sendQ
         /\ DownOnce(s).recvQ = s.recvQ /\ DownOnce(s).event = s.event
         /\ DownOnce(s).win = s.win /\ DownOnce(s).keep = s.keep
         /\ s.status # "IDLE" => DownOnce(s).status = s.status
         /\ DownOnce(s).status \in {s.status, "BUSY"}
<1>1. CASE s.status = "IDLE" /\ s.sendQ # <<>>
  <2> DEFINE t == [s EXCEPT !.status = "BUSY"]
  <2>1. DownOnce(s) = t
    BY <1>1 DEF DownOnce
  <2>2. /\ DOMAIN t = Fields /\ t.status = "BUSY"
        /\ t.sendQ = s.sendQ /\ t.recvQ = s.recvQ /\ t.event = s.event
        /\ t.keep = s.keep /\ t.pool = s.pool /\ t.win = s.win
        /\ t.table = s.table /\ t.phase = s.phase /\ t.owed = s.owed
    BY DEF Parts, Fields
  <2> HIDE DEF t
  <2>3. Parts(t, n) /\ NoneWaits(t)
    BY <2>2 DEF Parts, NoneWaits, Held
  <2>4. Awake(t)
    BY <1>1, <2>2 DEF Awake
  <2> QED
    BY <1>1, <2>1, <2>2, <2>3, <2>4 DEF Fit
<1>2. CASE ~ (s.status = "IDLE" /\ s.sendQ # <<>>)
  BY <1>2 DEF DownOnce, Fit, Awake
<1> QED
  BY <1>1, <1>2

LEMMA HeldTypes ==
  ASSUME NEW s, NEW n, Parts(s, n)
  PROVE  /\ s.pool \in Nat /\ Len(s.sendQ) \in Nat /\ Len(s.recvQ) \in Nat
         /\ Cardinality(KeptAt(s.keep)) \in Nat /\ n \in Nat
         /\ n = s.pool + Len(s.sendQ) + Len(s.recvQ) + Cardinality(KeptAt(s.keep))
<1>1. /\ s.pool \in Nat /\ Len(s.sendQ) \in Nat /\ Len(s.recvQ) \in Nat
      /\ Cardinality(KeptAt(s.keep)) \in Nat
  BY SeqLen, KeepFinite DEF Parts, IsQueue, IsKeep
<1>2. n = s.pool + Len(s.sendQ) + Len(s.recvQ) + Cardinality(KeptAt(s.keep))
  BY DEF Parts, Held
<1> QED
  BY <1>1, <1>2

\* Another number of free buffers.
LEMMA PoolFit ==
  ASSUME NEW s, NEW n, Fit(s, n), NEW d \in Int, s.pool + d >= 0
  PROVE  /\ Fit([s EXCEPT !.pool = @ + d], n + d)
         /\ Keeps(s, [s EXCEPT !.pool = @ + d])
         /\ [s EXCEPT !.pool = @ + d].phase = s.phase
         /\ [s EXCEPT !.pool = @ + d].owed = s.owed
         /\ [s EXCEPT !.pool = @ + d].sendQ = s.sendQ
         /\ [s EXCEPT !.pool = @ + d].status = s.status
         /\ [s EXCEPT !.pool = @ + d].win = s.win
<1> DEFINE t == [s EXCEPT !.pool = @ + d]
<1>1. /\ DOMAIN t = Fields /\ t.pool = s.pool + d
      /\ t.sendQ = s.sendQ /\ t.recvQ = s.recvQ /\ t.event = s.event
      /\ t.keep = s.keep /\ t.status = s.status /\ t.win = s.win
      /\ t.table = s.table /\ t.phase = s.phase /\ t.owed = s.owed
  BY DEF Fit, Parts, Fields
<1> HIDE DEF t
<1>2. /\ s.pool \in Nat /\ Len(s.sendQ) \in Nat /\ Len(s.recvQ) \in Nat
      /\ Cardinality(KeptAt(s.keep)) \in Nat /\ n \in Nat
      /\ n = s.pool + Len(s.sendQ) + Len(s.recvQ) + Cardinality(KeptAt(s.keep))
  BY HeldTypes DEF Fit
<1>3. t.pool \in Nat /\ Held(t) = n + d
  <2> DEFINE a == s.pool
             b == Len(s.sendQ)
             c == Len(s.recvQ)
             e == Cardinality(KeptAt(s.keep))
  <2>1. Held(t) = (a + d) + b + c + e
    BY <1>1 DEF Held
  <2>2. a \in Nat /\ b \in Nat /\ c \in Nat /\ e \in Nat /\ n = a + b + c + e
    BY <1>2
  <2>3. t.pool = a + d /\ a + d >= 0
    BY <1>1
  <2> HIDE DEF a, b, c, e
  <2>4. (a + d) + b + c + e = n + d /\ a + d \in Nat
    BY <2>2, <2>3
  <2> QED
    BY <2>1, <2>3, <2>4
<1>4. Parts(t, n + d)
  BY <1>1, <1>3 DEF Fit, Parts
<1>5. Awake(t) /\ NoneWaits(t)
  BY <1>1 DEF Fit, Awake, NoneWaits
<1>6. Keeps(s, t)
  BY <1>1, KeepsAll DEF Keeps
<1> QED
  BY <1>1, <1>4, <1>5, <1>6 DEF Fit, t

\* A packet in a buffer that is in hand is queued, or the buffer given back.
LEMMA EnqueueFit ==
  ASSUME NEW s, NEW n, Fit(s, n), NEW p, IsPacket(p)
  PROVE  LET t == EnqueueAndSend(s, p)
         IN  /\ Fit(t, n + 1) /\ Keeps(s, t)
             /\ t.phase = s.phase /\ t.owed = s.owed /\ t.win = s.win
<1> DEFINE t == EnqueueAndSend(s, p)
<1>1. /\ s.pool \in Nat /\ Len(s.sendQ) \in Nat /\ Len(s.recvQ) \in Nat
      /\ Cardinality(KeptAt(s.keep)) \in Nat /\ n \in Nat
      /\ n = s.pool + Len(s.sendQ) + Len(s.recvQ) + Cardinality(KeptAt(s.keep))
  BY HeldTypes DEF Fit
<1>2. CASE Len(s.sendQ) < SendMax
  <2> DEFINE q == Append(s.sendQ, p)
             u == [s EXCEPT !.sendQ = Append(@, p)]
  <2>1. t = DownOnce(u)
    BY <1>2 DEF EnqueueAndSend
  <2>2. /\ DOMAIN u = Fields /\ u.sendQ = q
        /\ u.pool = s.pool /\ u.recvQ = s.recvQ /\ u.event = s.event
        /\ u.keep = s.keep /\ u.status = s.status /\ u.win = s.win
        /\ u.table = s.table /\ u.phase = s.phase /\ u.owed = s.owed
    BY DEF Fit, Parts, Fields
  <2>3. /\ IsSeq(q) /\ Len(q) = Len(s.sendQ) + 1 /\ q # <<>>
        /\ \A i \in DOMAIN q : IsPacket(q[i])
        /\ s.sendQ # <<>> => Head(q) = Head(s.sendQ)
    <3>1. IsSeq(s.sendQ) /\ \A i \in DOMAIN s.sendQ : IsPacket(s.sendQ[i])
      BY DEF Fit, Parts, IsQueue
    <3>2. /\ IsSeq(q) /\ Len(q) = Len(s.sendQ) + 1
          /\ DOMAIN q = 1 .. Len(s.sendQ) + 1 /\ q # <<>>
          /\ \A i \in DOMAIN s.sendQ : q[i] = s.sendQ[i]
          /\ q[Len(s.sendQ) + 1] = p
          /\ s.sendQ # <<>> => Head(q) = Head(s.sendQ)
      BY <3>1, SeqAppend
    <3>3. DOMAIN s.sendQ = 1 .. Len(s.sendQ)
      BY <3>1, SeqLen
    <3> HIDE DEF q
    <3>4. ASSUME NEW i \in DOMAIN q PROVE IsPacket(q[i])
      <4>1. i \in DOMAIN s.sendQ \/ i = Len(s.sendQ) + 1
        BY <1>1, <3>2, <3>3
      <4> QED
        BY <3>1, <3>2, <4>1
    <3> QED
      BY <3>2, <3>4
  <2> HIDE DEF q, u, t
  <2>4. Parts(u, n + 1)
    <3>1. Held(u) = n + 1
      <4> DEFINE a == s.pool
                 b == Len(s.sendQ)
                 c == Len(s.recvQ)
                 e == Cardinality(KeptAt(s.keep))
      <4>1. Held(u) = a + (b + 1) + c + e
        BY <2>2, <2>3 DEF Held
      <4>2. a \in Nat /\ b \in Nat /\ c \in Nat /\ e \in Nat /\ n = a + b + c + e
        BY <1>1
      <4> HIDE DEF a, b, c, e
      <4> QED
        BY <4>1, <4>2
    <3>2. Len(q) <= SendMax
      BY <1>1, <1>2, <2>3, SdnNodeAssumption
    <3> QED
      BY <2>2, <2>3, <3>1, <3>2 DEF Fit, Parts, IsQueue
  <2>5. NoneWaits(u) /\ u.status \in {"IDLE", "BUSY", "ACK_WAIT"} /\ u.sendQ # <<>>
    BY <2>2, <2>3 DEF Fit, NoneWaits, Awake
  <2>6. /\ Fit(t, n + 1) /\ t.phase = u.phase /\ t.owed = u.owed /\ t.win = u.win
        /\ t.table = u.table /\ t.sendQ = q /\ t.recvQ = u.recvQ /\ t.event = u.event
        /\ u.status # "IDLE" => t.status = u.status
        /\ t.status \in {u.status, "BUSY"}
    BY <2>1, <2>2, <2>4, <2>5, DownOnceFit
  <2>7. Keeps(s, t)
    BY <2>2, <2>3, <2>6 DEF Keeps, SamePacket, SameRequest, Fit, Awake
  <2> QED
    BY <2>2, <2>6, <2>7 DEF t
<1>3. CASE ~ (Len(s.sendQ) < SendMax)
  <2>1. t = [s EXCEPT !.pool = @ + 1]
    BY <1>3 DEF EnqueueAndSend
  <2>2. s.pool + 1 >= 0 /\ 1 \in Int
    BY <1>1
  <2> HIDE DEF t
  <2> QED
    BY <2>1, <2>2, PoolFit DEF t
<1> QED
  BY <1>2, <1>3

LEMMA GetFit ==
  ASSUME NEW s, NEW n, Fit(s, n), NEW p, IsPacket(p)
  PROVE  LET t == GetAndEnqueue(s, p)
         IN  /\ Fit(t, n) /\ Keeps(s, t)
             /\ t.phase = s.phase /\ t.owed = s.owed /\ t.win = s.win
<1>1. CASE s.pool = 0
  BY <1>1, KeepsAll DEF GetAndEnqueue
<1>2. CASE s.pool # 0
  <2> DEFINE u == [s EXCEPT !.pool = @ - 1]
             v == [s EXCEPT !.pool = @ + (-1)]
             t == EnqueueAndSend(u, p)
  <2>1. s.pool \in Nat /\ n \in Nat /\ GetAndEnqueue(s, p) = t
    BY <1>2, HeldTypes DEF Fit, GetAndEnqueue
  <2>2. u = v
    BY <2>1
  <2>3. Fit(v, n + (-1)) /\ Keeps(s, v) /\ v.phase = s.phase /\ v.owed = s.owed
        /\ v.win = s.win
    BY <1>2, <2>1, PoolFit
  <2> HIDE DEF u, v
  <2>4. /\ Fit(t, (n + (-1)) + 1) /\ Keeps(u, t)
        /\ t.phase = u.phase /\ t.owed = u.owed /\ t.win = u.win
    BY <2>2, <2>3, EnqueueFit
  <2>5. (n + (-1)) + 1 = n
    BY <2>1
  <2> QED
    BY <2>1, <2>2, <2>3, <2>4, <2>5, KeepsTwice
<1> QED
  BY <1>1, <1>2

LEMMA FirstIn ==
  ASSUME NEW S, S \subseteq Nat, S # {}
  PROVE  First(S) \in S
  BY HasLeast DEF First

LEMMA StoreFit ==
  ASSUME NEW s, NEW n, Fit(s, n), NEW p, IsPacket(p),
         RouteKey(p) \notin DOMAIN s.table
  PROVE  LET t == StorePacket(s, p)
         IN  /\ Fit(t, n) /\ Keeps(s, t)
             /\ t.phase = s.phase /\ t.owed = s.owed /\ t.win = s.win
             /\ t.table = s.table /\ t.sendQ = s.sendQ /\ t.status = s.status
<1> DEFINE free == {i \in DOMAIN s.keep : s.keep[i] = <<>>}
           f == First(free)
           keep == [s.keep EXCEPT ![f] = p]
           u == [s EXCEPT !.keep[f] = p, !.pool = @ - 1]
<1>1. CASE free = {} \/ s.pool = 0
  <2>1. StorePacket(s, p) = s
    BY <1>1 DEF StorePacket
  <2> QED
    BY <2>1, KeepsAll
<1>2. CASE ~ (free = {} \/ s.pool = 0)
  <2>1. StorePacket(s, p) = u
    BY <1>2 DEF StorePacket
  <2>2. f \in free
    <3>1. free \subseteq Nat
      BY DEF Fit, Parts, IsKeep
    <3> HIDE DEF free
    <3> QED
      BY <1>2, <3>1, FirstIn
  <2>3. f \in DOMAIN s.keep /\ s.keep[f] = <<>>
    BY <2>2
  <2> HIDE DEF f, free
  <2>4. /\ DOMAIN u = Fields /\ u.keep = keep /\ u.pool = s.pool - 1
        /\ u.sendQ = s.sendQ /\ u.recvQ = s.recvQ /\ u.event = s.event
        /\ u.status = s.status /\ u.win = s.win
        /\ u.table = s.table /\ u.phase = s.phase /\ u.owed = s.owed
    BY DEF Fit, Parts, Fields
  <2> HIDE DEF u
  <2>5. /\ DOMAIN keep = DOMAIN s.keep
        /\ KeptAt(keep) = KeptAt(s.keep) \cup {f} /\ f \notin KeptAt(s.keep)
        /\ \A i \in KeptAt(keep) : \/ i = f /\ keep[i] = p
                                   \/ i \in KeptAt(s.keep) /\ keep[i] = s.keep[i]
    BY <2>3, PacketNotBlank DEF KeptAt
  <2> HIDE DEF keep
  <2>6. IsKeep(keep)
    BY <2>5 DEF Fit, Parts, IsKeep
  <2>7. Cardinality(KeptAt(keep)) = Cardinality(KeptAt(s.keep)) + 1
    <3> DEFINE K == KeptAt(s.keep)
    <3>1. IsFiniteSet(K)
      BY KeepFinite DEF Fit, Parts, IsKeep
    <3>2. KeptAt(keep) = K \cup {f} /\ f \notin K
      BY <2>5
    <3> HIDE DEF K
    <3>3. Cardinality(K \cup {f}) = Cardinality(K) + 1
      BY <3>1, <3>2, FS_AddElement
    <3> QED
      BY <3>2, <3>3 DEF K
  <2>8. u.pool \in Nat /\ Held(u) = n
    <3> DEFINE a == s.pool
               b == Len(s.sendQ)
               c == Len(s.recvQ)
               e == Cardinality(KeptAt(s.keep))
    <3>1. Held(u) = (a - 1) + b + c + (e + 1)
      BY <2>4, <2>7 DEF Held
    <3>2. /\ a \in Nat /\ b \in Nat /\ c \in Nat /\ e \in Nat /\ n = a + b + c + e
          /\ a # 0 /\ u.pool = a - 1
      BY <1>2, <2>4, HeldTypes DEF Fit
    <3> HIDE DEF a, b, c, e
    <3> QED
      BY <3>1, <3>2
  <2>9. Parts(u, n)
    BY <2>4, <2>6, <2>8 DEF Fit, Parts
  <2>10. Awake(u) /\ NoneWaits(u)
    BY <2>4, <2>5 DEF Fit, Awake, NoneWaits
  <2>11. Keeps(s, u)
    BY <2>4 DEF Keeps, SamePacket, SameRequest
  <2> QED
    BY <2>1, <2>4, <2>9, <2>10, <2>11 DEF Fit
<1> QED
  BY <1>1, <1>2

LEMMA FlowRequestFit ==
  ASSUME NEW s, NEW n, Fit(s, n), NEW key
  PROVE  LET t == SendFlowRequest(s, key)
         IN  /\ Fit(t, n) /\ Keeps(s, t)
             /\ t.phase = s.phase /\ t.owed = s.owed /\ t.win = s.win
<1> DEFINE type == IF key \in Flows THEN "DATA_FLOW_REQUEST" ELSE "CONTROL_FLOW_REQUEST"
           p == Own(type, key, 0, 0)
<1>1. IsPacket(p)
  BY OwnPacket DEF ByFlow
<1>2. SendFlowRequest(s, key) = s \/ SendFlowRequest(s, key) = GetAndEnqueue(s, p)
  BY DEF SendFlowRequest
<1> HIDE DEF p
<1> QED
  BY <1>1, <1>2, GetFit, KeepsAll

LEMMA UnknownFit ==
  ASSUME NEW s, NEW n, Fit(s, n), NEW p, IsPacket(p),
         RouteKey(p) \notin DOMAIN s.table
  PROVE  LET t == UnknownRoute(s, p)
         IN  /\ Fit(t, n) /\ Keeps(s, t)
             /\ t.phase = s.phase /\ t.owed = s.owed /\ t.win = s.win
<1> DEFINE u == StorePacket(s, p)
           v == SendFlowRequest(u, RouteKey(p))
<1>1. /\ Fit(u, n) /\ Keeps(s, u)
      /\ u.phase = s.phase /\ u.owed = s.owed /\ u.win = s.win
  BY StoreFit
<1>2. UnknownRoute(s, p) = u \/ UnknownRoute(s, p) = v
  BY DEF UnknownRoute
<1> HIDE DEF u
<1>3. /\ Fit(v, n) /\ Keeps(u, v)
      /\ v.phase = u.phase /\ v.owed = u.owed /\ v.win = u.win
  BY <1>1, FlowRequestFit
<1>4. Keeps(s, v)
  BY <1>1, <1>3, KeepsTwice
<1> QED
  BY <1>1, <1>2, <1>3, <1>4

\* The elements of a finite set of numbers can be counted in their order.
Below(S, i) == {j \in S : j <= i}

LEMMA HasRank ==
  ASSUME NEW m \in Nat, NEW S, S \subseteq 1 .. m, NEW k \in 1 .. Cardinality(S)
  PROVE  \E i \in S : Cardinality(Below(S, i)) = k
<1> DEFINE Upto(i) == {j \in S : j <= i}
           C(i) == Cardinality(Upto(i))
           Enough == {i \in Nat : C(i) >= k}
<1>0. IsFiniteSet(S) /\ Cardinality(S) \in Nat /\ k \in Nat \ {0}
  <2>1. IsFiniteSet(1 .. m)
    BY FS_Interval
  <2>2. IsFiniteSet(S)
    BY <2>1, FS_Subset
  <2> QED
    BY <2>2, FS_CardinalityType
<1>1. \A i \in Nat : IsFiniteSet(Upto(i)) /\ C(i) \in Nat
  BY <1>0, FS_Subset, FS_CardinalityType
<1>2. Upto(m) = S /\ Upto(0) = {}
  <2>1. \A j \in S : j <= m /\ ~ (j <= 0)
    OBVIOUS
  <2> QED
    BY <2>1
<1>3. m \in Enough
  BY <1>0, <1>2
<1>4. C(0) = 0
  BY <1>2, FS_EmptySet
<1> HIDE DEF Enough
<1>5. PICK i \in Enough : \A j \in Enough : i <= j
  <2>1. Enough \subseteq Nat /\ Enough # {}
    BY <1>3 DEF Enough
  <2> QED
    BY <2>1, HasLeast
<1>6. i \in Nat \ {0} /\ C(i) >= k
  <2>1. i \in Nat /\ C(i) >= k
    BY <1>5 DEF Enough
  <2>2. i # 0
    BY <1>0, <1>4, <2>1
  <2> QED
    BY <2>1, <2>2
<1>7. i - 1 \in Nat /\ ~ (C(i - 1) >= k)
  <2>1. i - 1 \in Nat /\ ~ (i <= i - 1)
    BY <1>6
  <2>2. i - 1 \notin Enough
    BY <1>5, <2>1
  <2> QED
    BY <2>1, <2>2 DEF Enough
<1>8. i \in S => Upto(i) = Upto(i - 1) \cup {i} /\ i \notin Upto(i - 1)
  <2>1. \A j \in S : j <= i <=> j <= i - 1 \/ j = i
    BY <1>6
  <2>2. i <= i /\ ~ (i <= i - 1)
    BY <1>6
  <2> QED
    BY <2>1, <2>2
<1>9. i \notin S => Upto(i) = Upto(i - 1)
  <2> SUFFICES ASSUME i \notin S PROVE \A j \in S : j <= i <=> j <= i - 1
    OBVIOUS
  <2> QED
    BY <1>6
<1> HIDE DEF Upto
<1>10. i \in S
  BY <1>6, <1>7, <1>9
<1>11. C(i) = C(i - 1) + 1
  BY <1>1, <1>7, <1>8, <1>10, FS_AddElement
<1>12. C(i) = k
  <2>1. C(i) \in Nat /\ C(i - 1) \in Nat
    BY <1>1, <1>6, <1>7
  <2> HIDE DEF C
  <2> QED
    BY <1>0, <1>6, <1>7, <1>11, <2>1
<1> QED
  BY <1>10, <1>12 DEF Upto, Below

\* Each packet that is new in the queue of t has left a place of its own.
Left(s, t, from) ==
  \A i \in DOMAIN t.sendQ \ DOMAIN s.sendQ :
    /\ from[i] \in KeptAt(s.keep) \ KeptAt(t.keep)
    /\ t.sendQ[i] = s.keep[from[i]]
    /\ \A j \in DOMAIN t.sendQ \ DOMAIN s.sendQ : from[i] = from[j] => i = j

\* From s to t packets kept for key have moved to the end of the send queue.
Moved(s, t, key) ==
  /\ \A i \in DOMAIN s.sendQ : i \in DOMAIN t.sendQ /\ t.sendQ[i] = s.sendQ[i]
  /\ \A i \in DOMAIN t.sendQ \ DOMAIN s.sendQ :
       \E j \in KeptAt(s.keep) : RouteKey(s.keep[j]) = key /\ t.sendQ[i] = s.keep[j]
  /\ \E from : Left(s, t, from)
  /\ KeptAt(t.keep) \subseteq KeptAt(s.keep)
  /\ \A i \in KeptAt(t.keep) : t.keep[i] = s.keep[i]

\* The packets that wait for key leave their places: each goes to the send
\* queue or gives its buffer back.
LEMMA SolveFit ==
  ASSUME NEW s, NEW n, Parts(s, n), Awake(s), NEW key,
         \A i \in KeptAt(s.keep) :
           RouteKey(s.keep[i]) = key \/ RouteKey(s.keep[i]) \notin DOMAIN s.table
  PROVE  LET t == SolveUnknown(s, key)
         IN  /\ Fit(t, n) /\ Keeps(s, t)
             /\ t.phase = s.phase /\ t.owed = s.owed /\ t.win = s.win
             /\ t.table = s.table /\ Moved(s, t, key)
<1> DEFINE hits   == {i \in DOMAIN s.keep : s.keep[i] # <<>> /\ RouteKey(s.keep[i]) = key}
           Hit(k) == CHOOSE i \in hits : Cardinality({j \in hits : j <= i}) = k
           found  == Cardinality(hits)
           room   == SendMax - Len(s.sendQ)
           moved  == IF found <= room THEN found ELSE room
           r      == [k \in 1 .. moved |-> s.keep[Hit(k)]]
           keep   == [i \in DOMAIN s.keep |-> IF i \in hits THEN <<>> ELSE s.keep[i]]
           u      == [s EXCEPT !.sendQ = @ \o r, !.pool = @ + (found - moved),
                               !.keep = keep]
<1>1. SolveUnknown(s, key) = DownOnce(u)
  BY DEF SolveUnknown
<1>2. /\ hits \subseteq KeptAt(s.keep) /\ hits \subseteq 1 .. KeepMax
      /\ KeepMax \in Nat
      /\ \A i \in KeptAt(s.keep) : i \in hits <=> RouteKey(s.keep[i]) = key
  BY SdnNodeAssumption DEF KeptAt, Parts, IsKeep
<1>3. /\ s.pool \in Nat /\ Len(s.sendQ) \in Nat /\ Len(s.recvQ) \in Nat
      /\ Cardinality(KeptAt(s.keep)) \in Nat /\ n \in Nat
      /\ n = s.pool + Len(s.sendQ) + Len(s.recvQ) + Cardinality(KeptAt(s.keep))
  BY HeldTypes
<1>4. IsFiniteSet(KeptAt(s.keep))
  BY KeepFinite DEF Parts, IsKeep
<1>5. IsFiniteSet(hits) /\ found \in Nat
  BY <1>2, <1>4, FS_Subset, FS_CardinalityType
<1>6. /\ KeptAt(keep) = KeptAt(s.keep) \ hits /\ DOMAIN keep = 1 .. KeepMax
      /\ \A i \in KeptAt(keep) : keep[i] = s.keep[i]
  BY DEF KeptAt, Parts, IsKeep
<1>7. \A k \in 1 .. found : Hit(k) \in hits /\ Cardinality(Below(hits, Hit(k))) = k
  <2> SUFFICES ASSUME NEW k \in 1 .. found
               PROVE  Hit(k) \in hits /\ Cardinality(Below(hits, Hit(k))) = k
    OBVIOUS
  <2>1. \E i \in hits : Cardinality({j \in hits : j <= i}) = k
    <3> HIDE DEF hits
    <3>1. k \in 1 .. Cardinality(hits)
      OBVIOUS
    <3>2. \E i \in hits : Cardinality(Below(hits, i)) = k
      BY <1>2, <3>1, HasRank
    <3> QED
      BY <3>2 DEF Below
  <2> QED
    BY <2>1 DEF Below
<1> HIDE DEF hits, found, Hit
<1>8. Cardinality(KeptAt(keep)) = Cardinality(KeptAt(s.keep)) - found
  <2> DEFINE K == KeptAt(s.keep)
             L == K \ hits
  <2>1. /\ L \cup hits = K /\ L \cap hits = {}
        /\ IsFiniteSet(K) /\ L \in SUBSET K
    BY <1>2, <1>4
  <2>2. KeptAt(keep) = L
    BY <1>6
  <2> HIDE DEF K, L
  <2>3. IsFiniteSet(L)
    BY <2>1, FS_Subset
  <2>4. Cardinality(L \cup hits) = Cardinality(L) + Cardinality(hits) - Cardinality(L \cap hits)
    BY <1>5, <2>3, FS_Union
  <2>5. Cardinality({}) = 0 /\ Cardinality(L) \in Nat
    BY <2>3, FS_EmptySet, FS_CardinalityType
  <2>6. Cardinality(K) = Cardinality(L) + found - 0
    BY <2>1, <2>4, <2>5 DEF found
  <2> QED
    BY <1>5, <2>2, <2>5, <2>6 DEF K
<1>9. room \in Nat /\ moved \in Nat /\ moved <= found /\ moved <= room
  <2> HIDE DEF moved
  <2>1. room \in Nat
    BY <1>3, SdnNodeAssumption DEF Parts
  <2> HIDE DEF room
  <2> QED
    BY <1>5, <2>1 DEF moved
<1> HIDE DEF moved, room
<1>10. \A k \in 1 .. moved : Hit(k) \in hits /\ IsPacket(r[k]) /\ r[k] = s.keep[Hit(k)]
  <2> SUFFICES ASSUME NEW k \in 1 .. moved
               PROVE  Hit(k) \in hits /\ IsPacket(r[k]) /\ r[k] = s.keep[Hit(k)]
    OBVIOUS
  <2>1. k \in 1 .. found
    BY <1>5, <1>9
  <2>2. Hit(k) \in KeptAt(s.keep) /\ Hit(k) \in hits
    BY <1>2, <1>7, <2>1
  <2>3. r[k] = s.keep[Hit(k)]
    OBVIOUS
  <2> HIDE DEF r
  <2> QED
    BY <2>2, <2>3 DEF Parts, IsKeep
<1>11. IsList(r, moved)
  BY DEF IsList
<1> HIDE DEF r
<1> DEFINE q == s.sendQ \o r
<1>12. /\ IsQueue(q) /\ Len(q) = Len(s.sendQ) + moved
       /\ s.sendQ # <<>> => Head(q) = Head(s.sendQ)
       /\ \A i \in DOMAIN s.sendQ : i \in DOMAIN q /\ q[i] = s.sendQ[i]
       /\ \A i \in DOMAIN q \ DOMAIN s.sendQ :
            i - Len(s.sendQ) \in 1 .. moved /\ q[i] = r[i - Len(s.sendQ)]
       /\ DOMAIN q \subseteq Int
  <2>1. IsSeq(s.sendQ) /\ \A i \in DOMAIN s.sendQ : IsPacket(s.sendQ[i])
    BY DEF Parts, IsQueue
  <2>2. /\ IsSeq(q) /\ Len(q) = Len(s.sendQ) + moved
        /\ \A i \in DOMAIN q : \/ i \in DOMAIN s.sendQ /\ q[i] = s.sendQ[i]
                               \/ \E j \in 1 .. moved : q[i] = r[j]
        /\ s.sendQ # <<>> => Head(q) = Head(s.sendQ)
        /\ \A i \in DOMAIN s.sendQ : i \in DOMAIN q /\ q[i] = s.sendQ[i]
        /\ \A i \in DOMAIN q \ DOMAIN s.sendQ :
             i - Len(s.sendQ) \in 1 .. moved /\ q[i] = r[i - Len(s.sendQ)]
    <3> DEFINE a == s.sendQ
    <3>1. q = Joined(a, r)
      BY DEF Joined
    <3>2. IsSeq(a) /\ moved \in Nat /\ IsList(r, moved)
      BY <1>9, <1>11, <2>1
    <3> HIDE DEF q, a, u, keep
    <3>3. IsSeq(q) /\ Len(q) = Len(a) + moved
      BY <3>1, <3>2, SeqJoin, SMTT(30)
    <3>4. \A i \in DOMAIN q :
            \/ i \in DOMAIN a /\ q[i] = a[i]
            \/ \E j \in 1 .. moved : q[i] = r[j]
      BY <3>1, <3>2, SeqJoin, SMTT(30)
    <3>5. \A i \in DOMAIN a : i \in DOMAIN q /\ q[i] = a[i]
      BY <3>1, <3>2, SeqJoin, SMTT(30)
    <3>6. a # <<>> => Head(q) = Head(a)
      BY <3>1, <3>2, SeqJoin, SMTT(30)
    <3>7. \A i \in DOMAIN q \ DOMAIN a : i - Len(a) \in 1 .. moved /\ q[i] = r[i - Len(a)]
      BY <3>1, <3>2, SeqJoin, SMTT(30)
    <3> QED
      BY <3>3, <3>4, <3>5, <3>6, <3>7 DEF a
  <2> HIDE DEF q
  <2>3. DOMAIN q \subseteq Int
    BY <2>2, SeqLen
  <2> QED
    BY <1>10, <2>1, <2>2, <2>3 DEF IsQueue
<1>13. /\ DOMAIN u = Fields /\ u.sendQ = q /\ u.pool = s.pool + (found - moved)
       /\ u.keep = keep /\ u.recvQ = s.recvQ /\ u.event = s.event
       /\ u.status = s.status /\ u.win = s.win
       /\ u.table = s.table /\ u.phase = s.phase /\ u.owed = s.owed
  <2> HIDE DEF keep
  <2> QED
    BY DEF Parts, Fields
<1> HIDE DEF u, q, keep
<1>14. u.pool \in Nat /\ Held(u) = n
  <2> DEFINE a == s.pool
             b == Len(s.sendQ)
             c == Len(s.recvQ)
             e == Cardinality(KeptAt(s.keep))
  <2>1. Held(u) = (a + (found - moved)) + (b + moved) + c + (e - found)
    BY <1>8, <1>12, <1>13 DEF Held
  <2>2. /\ a \in Nat /\ b \in Nat /\ c \in Nat /\ e \in Nat /\ n = a + b + c + e
        /\ u.pool = a + (found - moved)
    BY <1>3, <1>13
  <2> HIDE DEF a, b, c, e
  <2> QED
    BY <1>5, <1>9, <2>1, <2>2
<1>15. Parts(u, n)
  <2>1. IsKeep(keep)
    BY <1>6 DEF IsKeep, Parts
  <2>2. Len(q) <= SendMax
    <3> DEFINE b == Len(s.sendQ)
    <3>1. b \in Nat /\ Len(q) = b + moved /\ moved <= SendMax - b
      BY <1>3, <1>9, <1>12 DEF room
    <3> HIDE DEF b
    <3> QED
      BY <1>9, <3>1, SdnNodeAssumption
  <2> QED
    BY <1>12, <1>13, <1>14, <2>1, <2>2 DEF Parts
<1>16. NoneWaits(u)
  BY <1>2, <1>6, <1>13 DEF NoneWaits
<1>17. s.sendQ # <<>> => q # <<>>
  <2>1. IsSeq(s.sendQ) /\ IsSeq(q)
    BY <1>12 DEF Parts, IsQueue
  <2>2. s.sendQ # <<>> => Len(s.sendQ) # 0
    BY <2>1, SeqLen
  <2>3. s.sendQ # <<>> => Len(q) # 0
    BY <1>3, <1>9, <1>12, <2>2
  <2> QED
    BY <2>1, <2>3, SeqLen
<1>18. u.status \in {"IDLE", "BUSY", "ACK_WAIT"} /\ (u.status # "IDLE" => u.sendQ # <<>>)
  BY <1>13, <1>17 DEF Awake
<1> DEFINE t == DownOnce(u)
<1>19. /\ Fit(t, n) /\ t.phase = u.phase /\ t.owed = u.owed /\ t.table = u.table
       /\ t.sendQ = u.sendQ /\ t.recvQ = u.recvQ /\ t.event = u.event
       /\ t.win = u.win /\ t.keep = u.keep
       /\ u.status # "IDLE" => t.status = u.status
       /\ t.status \in {u.status, "BUSY"}
  BY <1>15, <1>16, <1>18, DownOnceFit
<1> HIDE DEF t
<1>20. Keeps(s, t)
  BY <1>12, <1>13, <1>17, <1>19 DEF Keeps, SamePacket, SameRequest, Awake
<1>21. Moved(s, t, key)
  <2>1. \A k \in 1 .. moved : \E j \in KeptAt(s.keep) :
          RouteKey(s.keep[j]) = key /\ r[k] = s.keep[j]
    BY <1>2, <1>10
  <2>2. \A i \in DOMAIN q \ DOMAIN s.sendQ : \E j \in KeptAt(s.keep) :
          RouteKey(s.keep[j]) = key /\ q[i] = s.keep[j]
    BY <1>12, <2>1
  <2> DEFINE from == [i \in DOMAIN q |-> Hit(i - Len(s.sendQ))]
  <2>3. ASSUME NEW i \in DOMAIN q \ DOMAIN s.sendQ,
               NEW j \in DOMAIN q \ DOMAIN s.sendQ, from[i] = from[j]
        PROVE  i = j
    <3>1. /\ i - Len(s.sendQ) \in 1 .. moved /\ j - Len(s.sendQ) \in 1 .. moved
          /\ Hit(i - Len(s.sendQ)) = Hit(j - Len(s.sendQ))
      BY <1>12, <2>3
    <3>2. /\ i - Len(s.sendQ) \in 1 .. found /\ j - Len(s.sendQ) \in 1 .. found
      BY <1>5, <1>9, <3>1
    <3>3. i - Len(s.sendQ) = j - Len(s.sendQ)
      BY <1>7, <3>1, <3>2
    <3> QED
      BY <1>3, <1>12, <3>3
  <2>4. \A i \in DOMAIN q \ DOMAIN s.sendQ :
          from[i] \in KeptAt(s.keep) \ KeptAt(keep) /\ q[i] = s.keep[from[i]]
    <3> SUFFICES ASSUME NEW i \in DOMAIN q \ DOMAIN s.sendQ
                 PROVE  from[i] \in KeptAt(s.keep) \ KeptAt(keep) /\ q[i] = s.keep[from[i]]
      OBVIOUS
    <3>1. i - Len(s.sendQ) \in 1 .. moved /\ q[i] = r[i - Len(s.sendQ)]
      BY <1>12
    <3>2. from[i] = Hit(i - Len(s.sendQ))
      OBVIOUS
    <3> HIDE DEF from
    <3> QED
      BY <1>2, <1>6, <1>10, <3>1, <3>2
  <2> HIDE DEF from
  <2>5. Left(s, t, from)
    BY <1>13, <1>19, <2>3, <2>4 DEF Left
  <2> QED
    BY <1>6, <1>12, <1>13, <1>19, <2>2, <2>5 DEF Moved
<1> QED
  BY <1>1, <1>13, <1>19, <1>20, <1>21 DEF t

\* A state that has the same packets, and a window of its own.
LEMMA SameFit ==
  ASSUME NEW s, NEW n, Fit(s, n), NEW t, DOMAIN t = Fields, IsWindow(t.win),
         t.status = s.status, t.sendQ = s.sendQ, t.recvQ = s.recvQ,
         t.event = s.event, t.keep = s.keep, t.pool = s.pool, t.table = s.table
  PROVE  Fit(t, n) /\ Keeps(s, t)
<1>1. Parts(t, n)
  BY DEF Fit, Parts, Held
<1>2. Awake(t) /\ NoneWaits(t)
  BY DEF Fit, Awake, NoneWaits
<1>3. Keeps(s, t)
  BY KeepsAll DEF Keeps
<1> QED
  BY <1>1, <1>2, <1>3 DEF Fit

LEMMA WinFit ==
  ASSUME NEW s, NEW n, Fit(s, n), NEW w, IsWindow(w)
  PROVE  LET t == [s EXCEPT !.win = w]
         IN  /\ Fit(t, n) /\ Keeps(s, t) /\ t.win = w
             /\ t.phase = s.phase /\ t.owed = s.owed
             /\ t.sendQ = s.sendQ /\ t.pool = s.pool
<1> DEFINE t == [s EXCEPT !.win = w]
<1>1. /\ DOMAIN t = Fields /\ t.win = w
      /\ t.status = s.status /\ t.sendQ = s.sendQ /\ t.recvQ = s.recvQ
      /\ t.event = s.event /\ t.keep = s.keep /\ t.pool = s.pool
      /\ t.table = s.table /\ t.phase = s.phase /\ t.owed = s.owed
  BY DEF Fit, Parts, Fields
<1> HIDE DEF t
<1> QED
  BY <1>1, SameFit DEF t

LEMMA PhaseFit ==
  ASSUME NEW s, NEW n, Fit(s, n), NEW x
  PROVE  LET t == [s EXCEPT !.phase = x]
         IN  /\ Fit(t, n) /\ Keeps(s, t) /\ t.phase = x
             /\ t.owed = s.owed /\ t.table = s.table
<1> DEFINE t == [s EXCEPT !.phase = x]
<1>1. /\ DOMAIN t = Fields /\ t.win = s.win
      /\ t.status = s.status /\ t.sendQ = s.sendQ /\ t.recvQ = s.recvQ
      /\ t.event = s.event /\ t.keep = s.keep /\ t.pool = s.pool
      /\ t.table = s.table /\ t.phase = x /\ t.owed = s.owed
  BY DEF Fit, Parts, Fields
<1> HIDE DEF t
<1> QED
  BY <1>1, SameFit DEF t, Fit, Parts

LEMMA OwedFit ==
  ASSUME NEW s, NEW n, Fit(s, n), NEW x
  PROVE  LET t == [s EXCEPT !.owed = x]
         IN  Fit(t, n) /\ Keeps(s, t) /\ t.phase = s.phase /\ t.table = s.table
<1> DEFINE t == [s EXCEPT !.owed = x]
<1>1. /\ DOMAIN t = Fields /\ t.win = s.win
      /\ t.status = s.status /\ t.sendQ = s.sendQ /\ t.recvQ = s.recvQ
      /\ t.event = s.event /\ t.keep = s.keep /\ t.pool = s.pool
      /\ t.table = s.table /\ t.phase = s.phase
  BY DEF Fit, Parts, Fields
<1> HIDE DEF t
<1> QED
  BY <1>1, SameFit DEF t, Fit, Parts

\* An entry is made unless both tables' pool is used up.
LEMMA InsertFit ==
  ASSUME NEW s, NEW n, Fit(s, n), NEW key, NEW act \in Actions
  PROVE  LET t == Insert(s, key, act)
         IN  /\ Fit(t, n) /\ Keeps(s, t)
             /\ t.phase = s.phase /\ t.owed = s.owed /\ t.win = s.win
             /\ key \in DOMAIN t.table \/ Cardinality(DOMAIN t.table) = TableSize
             /\ t = s \/ (HasRoom(s, key) /\ Moved(s, t, key))
<1> DEFINE table == [k \in DOMAIN s.table \cup {key} |->
                       IF k = key THEN act ELSE s.table[k]]
           u == [s EXCEPT !.table = table]
           t == SolveUnknown(u, key)
<1>1. IsFiniteSet(DOMAIN s.table) /\ Cardinality(DOMAIN s.table) \in Nat
  BY FS_CardinalityType DEF Fit, Parts, IsTable
<1>2. CASE ~ HasRoom(s, key)
  <2>1. Insert(s, key, act) = s
    BY <1>2 DEF Insert
  <2>2. Cardinality(DOMAIN s.table) = TableSize
    BY <1>1, <1>2, SdnNodeAssumption DEF HasRoom, Fit, Parts, IsTable
  <2> QED
    BY <2>1, <2>2, KeepsAll
<1>3. CASE HasRoom(s, key)
  <2>1. Insert(s, key, act) = t
    BY <1>3 DEF Insert
  <2>2. /\ DOMAIN u = Fields /\ u.table = table /\ u.status = s.status
        /\ u.sendQ = s.sendQ /\ u.recvQ = s.recvQ /\ u.event = s.event
        /\ u.keep = s.keep /\ u.pool = s.pool /\ u.win = s.win
        /\ u.phase = s.phase /\ u.owed = s.owed
    BY DEF Fit, Parts, Fields
  <2> HIDE DEF u
  <2>3. IsTable(table)
    <3> DEFINE D == DOMAIN s.table
    <3>1. \A k \in DOMAIN table : table[k] \in Actions
      BY DEF Fit, Parts, IsTable
    <3>2. DOMAIN table = D \cup {key}
      OBVIOUS
    <3>3. IsFiniteSet(D \cup {key})
      BY <1>1, FS_AddElement
    <3>4. Cardinality(D \cup {key}) <= TableSize
      <4>1. CASE key \in D
        <5>1. D \cup {key} = D
          BY <4>1
        <5> QED
          BY <5>1 DEF Fit, Parts, IsTable
      <4>2. CASE key \notin D
        <5>1. Cardinality(D \cup {key}) = Cardinality(D) + 1
          BY <1>1, <4>2, FS_AddElement
        <5>2. Cardinality(D) < TableSize
          BY <1>3, <4>2 DEF HasRoom
        <5> QED
          BY <1>1, <5>1, <5>2, SdnNodeAssumption
      <4> QED
        BY <4>1, <4>2
    <3> HIDE DEF table
    <3> QED
      BY <3>1, <3>2, <3>3, <3>4 DEF IsTable
  <2>4. Parts(u, n) /\ Awake(u)
    <3> HIDE DEF table
    <3> QED
      BY <2>2, <2>3 DEF Fit, Parts, Awake, Held
  <2>5. \A i \in KeptAt(u.keep) :
          RouteKey(u.keep[i]) = key \/ RouteKey(u.keep[i]) \notin DOMAIN u.table
    BY <2>2 DEF Fit, NoneWaits
  <2>6. Keeps(s, u)
    BY <2>2 DEF Keeps, SamePacket, SameRequest
  <2>7. /\ Fit(t, n) /\ Keeps(u, t) /\ t.table = u.table
        /\ t.phase = u.phase /\ t.owed = u.owed /\ t.win = u.win
        /\ Moved(u, t, key)
    BY <2>4, <2>5, SolveFit
  <2>8. key \in DOMAIN t.table
    BY <2>2, <2>7
  <2>9. Moved(s, t, key)
    BY <2>2, <2>7 DEF Moved, Left
  <2> QED
    BY <1>3, <2>1, <2>2, <2>6, <2>7, <2>8, <2>9, KeepsTwice
<1> QED
  BY <1>2, <1>3

LEMMA RoutedKept ==
  ASSUME NEW s, NEW n, NEW t, NEW m, Fit(s, n), Fit(t, m), Keeps(s, t), Routed(s)
  PROVE  Routed(t)
<1> DEFINE D == DOMAIN s.table
           E == DOMAIN t.table
<1>1. /\ IsFiniteSet(D) /\ IsFiniteSet(E) /\ D \subseteq E
      /\ Cardinality(E) <= TableSize
      /\ CtrlFlow \in D \/ Cardinality(D) = TableSize
  BY DEF Fit, Parts, IsTable, Keeps, Routed
<1> HIDE DEF D, E
<1>2. Cardinality(D) <= Cardinality(E) /\ Cardinality(E) \in Nat
  BY <1>1, FS_Subset, FS_CardinalityType
<1>3. CtrlFlow \in E \/ Cardinality(E) = TableSize
  BY <1>1, <1>2, SdnNodeAssumption
<1> QED
  BY <1>3 DEF Routed, E

LEMMA SteadyKept ==
  ASSUME NEW s, NEW n, NEW t, NEW m, Fit(s, n), Fit(t, m), Keeps(s, t), Steady(s),
         t.phase = s.phase
  PROVE  Steady(t)
  BY RoutedKept DEF Steady

\* Whether the report is rewritten or queued.
LEMMA ReportFit ==
  ASSUME NEW s, NEW n, Fit(s, n), NEW seq, NEW ver
  PROVE  LET t == SendNeighborReport(s, seq, ver)
         IN  Fit(t, n) /\ Keeps(s, t) /\ t.phase = s.phase /\ t.owed = s.owed
<1> DEFINE w == Purge(s.win, "NEIGHBOR_REPORT")
           v == [s EXCEPT !.win = w]
           f == First(QueuedReports(s))
           p == Rewritten(s.sendQ[f], seq, ver)
           q == [s.sendQ EXCEPT ![f] = p]
           u == [v EXCEPT !.sendQ = q]
           g == GetAndEnqueue(v, Report(seq, ver))
<1>1. IsWindow(w)
  BY RemoveMatchWindow DEF Purge, Fit, Parts
<1> HIDE DEF w
<1>2. /\ Fit(v, n) /\ Keeps(s, v) /\ v.win = w
      /\ v.phase = s.phase /\ v.owed = s.owed /\ v.sendQ = s.sendQ
  BY <1>1, WinFit
<1> HIDE DEF v
<1>3. CASE QueuedReports(s) # {}
  <2>1. SendNeighborReport(s, seq, ver) = u
    BY <1>2, <1>3 DEF SendNeighborReport, v, w
  <2>2. IsSeq(s.sendQ) /\ \A i \in DOMAIN s.sendQ : IsPacket(s.sendQ[i])
    BY DEF Fit, Parts, IsQueue
  <2>3. f \in DOMAIN s.sendQ
    <3>1. QueuedReports(s) \subseteq DOMAIN s.sendQ
      BY DEF QueuedReports
    <3>2. QueuedReports(s) \subseteq Nat
      BY <2>2, <3>1, SeqLen
    <3> QED
      BY <1>3, <3>1, <3>2, FirstIn
  <2> HIDE DEF f
  <2>4. IsPacket(p) /\ SamePacket(s.sendQ[f], p)
    BY <2>2, <2>3, RewrittenPacket
  <2> HIDE DEF p
  <2>5. /\ IsSeq(q) /\ Len(q) = Len(s.sendQ) /\ s.sendQ # <<>>
        /\ DOMAIN q = DOMAIN s.sendQ
        /\ Head(q) = q[1] /\ Head(s.sendQ) = s.sendQ[1] /\ q # <<>>
    <3>1. PICK S : s.sendQ \in Seq(S)
      BY <2>2 DEF IsSeq
    <3> DEFINE T == S \cup {p}
    <3>2. s.sendQ \in Seq(T) /\ p \in T
      BY <3>1
    <3> HIDE DEF T
    <3>3. q \in Seq(T)
      BY <2>3, <3>2
    <3>4. IsSeq(q)
      BY <3>3 DEF IsSeq
    <3>5. /\ Len(q) = Len(s.sendQ) /\ DOMAIN q = DOMAIN s.sendQ
          /\ s.sendQ # <<>> /\ q # <<>>
      BY <2>3, <3>2, <3>3
    <3>6. Head(s.sendQ) = s.sendQ[1]
      BY <2>2, <3>5, SeqTail
    <3> HIDE DEF q
    <3>7. Head(q) = q[1]
      BY <3>4, <3>5, SeqTail
    <3> QED
      BY <3>4, <3>5, <3>6, <3>7
  <2>6. \A i \in DOMAIN q : /\ IsPacket(q[i])
                            /\ SamePacket(s.sendQ[i], q[i])
    BY <2>2, <2>4 DEF SamePacket, SameRequest
  <2> HIDE DEF q
  <2>7. SamePacket(Head(s.sendQ), Head(q))
    <3>1. 1 \in DOMAIN s.sendQ
      BY <2>2, <2>5, SeqTail
    <3> QED
      BY <2>5, <2>6, <3>1
  <2>8. /\ DOMAIN u = Fields /\ u.sendQ = q /\ u.pool = v.pool
        /\ u.recvQ = v.recvQ /\ u.event = v.event
        /\ u.keep = v.keep /\ u.status = v.status /\ u.win = v.win
        /\ u.table = v.table /\ u.phase = v.phase /\ u.owed = v.owed
    BY <1>2 DEF Fit, Parts, Fields
  <2> HIDE DEF u
  <2>9. Parts(u, n)
    BY <1>2, <2>5, <2>6, <2>8 DEF Fit, Parts, IsQueue, Held
  <2>10. Awake(u) /\ NoneWaits(u)
    BY <1>2, <2>5, <2>8 DEF Fit, Awake, NoneWaits
  <2>11. Keeps(v, u)
    BY <1>2, <2>5, <2>7, <2>8 DEF Keeps
  <2> QED
    BY <1>2, <2>1, <2>8, <2>9, <2>10, <2>11, KeepsTwice DEF Fit
<1>4. CASE ~ (QueuedReports(s) # {})
  <2>1. SendNeighborReport(s, seq, ver) = s \/ SendNeighborReport(s, seq, ver) = g
    BY <1>4 DEF SendNeighborReport, v, w
  <2>2. IsPacket(Report(seq, ver))
    BY OwnPacket DEF Report, ByFlow
  <2>3. /\ Fit(g, n) /\ Keeps(v, g) /\ g.phase = v.phase /\ g.owed = v.owed
    BY <1>2, <2>2, GetFit
  <2> HIDE DEF g
  <2> QED
    BY <1>2, <2>1, <2>3, KeepsTwice, KeepsAll
<1> QED
  BY <1>3, <1>4

\* The setup of the controller's flow ends the wait after its entry is made.
LEMMA DataSetupFit ==
  ASSUME NEW s, NEW n, Fit(s, n), Steady(s), NEW p, p.act \in Actions, NEW seq
  PROVE  LET t == TreatDataFlowSetup(s, p, seq)
         IN  Fit(t, n) /\ Keeps(s, t) /\ Steady(t)
<1> DEFINE w == RcvSetup(s.win, "DATA_FLOW_REQUEST", p.key)
           u == [s EXCEPT !.win = w]
           ack == Own("ACK_BY_FLOW_ID", p.key, 0, 0)
           acked == GetAndEnqueue(u, ack)
           done == Insert(acked, p.key, p.act)
           steady == [done EXCEPT !.phase = "STEADY"]
           t == SendNeighborReport(steady, seq, nbrs)
<1>1. TreatDataFlowSetup(s, p, seq) = IF EndsWait(s, p) THEN t ELSE done
  BY DEF TreatDataFlowSetup
<1>2. IsWindow(w)
  BY RemoveMatchWindow DEF RcvSetup, Fit, Parts
<1> HIDE DEF w
<1>3. Fit(u, n) /\ Keeps(s, u) /\ u.phase = s.phase
  BY <1>2, WinFit
<1> HIDE DEF u
<1>4. IsPacket(ack)
  BY OwnPacket DEF ByFlow
<1> HIDE DEF ack
<1>5. Fit(acked, n) /\ Keeps(u, acked) /\ acked.phase = u.phase
  BY <1>3, <1>4, GetFit
<1> HIDE DEF acked
<1>6. /\ Fit(done, n) /\ Keeps(acked, done) /\ done.phase = acked.phase
      /\ p.key \in DOMAIN done.table \/ Cardinality(DOMAIN done.table) = TableSize
  BY <1>5, InsertFit
<1> HIDE DEF done
<1>7. Keeps(s, done) /\ Steady(done)
  BY <1>3, <1>5, <1>6, KeepsTwice, SteadyKept
<1>8. CASE EndsWait(s, p)
  <2>1. Routed(done)
    BY <1>6, <1>8 DEF Routed, EndsWait
  <2>2. Fit(steady, n) /\ Keeps(done, steady) /\ steady.table = done.table
    BY <1>6, PhaseFit
  <2> HIDE DEF steady
  <2>3. Routed(steady)
    BY <2>1, <2>2 DEF Routed
  <2>4. Fit(t, n) /\ Keeps(steady, t) /\ t.phase = steady.phase
    BY <2>2, ReportFit
  <2> HIDE DEF t
  <2>5. Routed(t) /\ Keeps(s, t)
    BY <1>7, <2>2, <2>3, <2>4, RoutedKept, KeepsTwice
  <2> QED
    BY <1>1, <1>8, <2>4, <2>5 DEF Steady
<1>9. CASE ~ EndsWait(s, p)
  BY <1>1, <1>6, <1>7, <1>9
<1> QED
  BY <1>8, <1>9

LEMMA ControlSetupFit ==
  ASSUME NEW s, NEW n, Fit(s, n), Steady(s), NEW p, p.act \in Actions
  PROVE  LET t == TreatControlFlowSetup(s, p)
         IN  Fit(t, n) /\ Keeps(s, t) /\ Steady(t)
<1> DEFINE done == Insert(s, p.key, p.act)
           w == RcvSetup(done.win, "CONTROL_FLOW_REQUEST", p.key)
           u == [done EXCEPT !.win = w]
           ack == Own("ACK_BY_FLOW_ID", p.key, 0, 0)
           t == GetAndEnqueue(u, ack)
<1>1. TreatControlFlowSetup(s, p) = t
  BY DEF TreatControlFlowSetup
<1>2. Fit(done, n) /\ Keeps(s, done) /\ done.phase = s.phase
  BY InsertFit
<1> HIDE DEF done
<1>3. IsWindow(w)
  BY <1>2, RemoveMatchWindow DEF RcvSetup, Fit, Parts
<1> HIDE DEF w
<1>4. Fit(u, n) /\ Keeps(done, u) /\ u.phase = done.phase
  BY <1>2, <1>3, WinFit
<1> HIDE DEF u
<1>5. IsPacket(ack)
  BY OwnPacket DEF ByFlow
<1> HIDE DEF ack
<1>6. Fit(t, n) /\ Keeps(u, t) /\ t.phase = u.phase
  BY <1>4, <1>5, GetFit
<1> HIDE DEF t
<1>7. Keeps(s, t) /\ t.phase = s.phase
  BY <1>2, <1>4, <1>6, KeepsTwice
<1> QED
  BY <1>1, <1>6, <1>7, SteadyKept

LEMMA ExecuteFit ==
  ASSUME NEW s, NEW n, Fit(s, n), Steady(s), NEW p, IsPacket(p), NEW seq
  PROVE  LET t == ExecuteReceive(s, p, seq)
         IN  Fit(t, n) /\ Keeps(s, t) /\ Steady(t)
<1> DEFINE t == ExecuteReceive(s, p, seq)
           Good(u) == Fit(u, n) /\ Keeps(s, u) /\ Steady(u)
           Queued(via) == GetAndEnqueue(s, [p EXCEPT !.via = via])
           w == RcvAck(s.win, p.act, p.seq)
           acked == [s EXCEPT !.win = w]
<1>1. t \in {TreatFlowSetup(s, p, seq), Queued("ADDR"), Queued("NEXT"), acked, s}
  BY DEF ExecuteReceive
<1>2. IsSetup(p) => Good(TreatFlowSetup(s, p, seq))
  BY DataSetupFit, ControlSetupFit DEF TreatFlowSetup, IsPacket
<1>3. ~ IsSetup(p) => t \in {Queued("NEXT"), acked, s}
  BY DEF ExecuteReceive
<1>4. ASSUME NEW via PROVE Good(Queued(via))
  <2>1. IsPacket([p EXCEPT !.via = via])
    BY ViaPacket
  <2>2. Fit(Queued(via), n) /\ Keeps(s, Queued(via)) /\ Queued(via).phase = s.phase
    BY <2>1, GetFit
  <2> QED
    BY <2>2, SteadyKept
<1>5. Good(acked)
  <2>1. IsWindow(w)
    BY RemoveMatchWindow DEF RcvAck, Fit, Parts
  <2> HIDE DEF w
  <2>2. Fit(acked, n) /\ Keeps(s, acked) /\ acked.phase = s.phase
    BY <2>1, WinFit
  <2> QED
    BY <2>2, SteadyKept
<1>6. Good(s)
  BY KeepsAll
<1> HIDE DEF Good, Queued, acked, t
<1>7. Good(t)
  BY <1>1, <1>2, <1>3, <1>4, <1>5, <1>6
<1> QED
  BY <1>7 DEF Good, t

\* A packet for which the tables have no entry is kept, and asked about.
LEMMA TreatFit ==
  ASSUME NEW s, NEW n, Fit(s, n), Steady(s), NEW p, IsPacket(p), NEW seq
  PROVE  LET t == Treat(s, p, seq)
         IN  Fit(t, n) /\ Keeps(s, t) /\ Steady(t)
<1>1. CASE Action(s, p) = "RECEIVE"
  BY <1>1, ExecuteFit DEF Treat
<1>2. CASE Action(s, p) = "UNKNOWN"
  <2>1. RouteKey(p) \notin DOMAIN s.table
    BY <1>2 DEF Action, Fit, Parts, IsTable, Actions
  <2> DEFINE u == UnknownRoute(s, p)
  <2>2. Treat(s, p, seq) = u
    BY <1>2 DEF Treat
  <2>3. Fit(u, n) /\ Keeps(s, u) /\ u.phase = s.phase
    BY <2>1, UnknownFit
  <2> HIDE DEF u
  <2> QED
    BY <2>2, <2>3, SteadyKept
<1>3. CASE Action(s, p) \notin {"RECEIVE", "UNKNOWN"}
  BY <1>3, KeepsAll DEF Treat
<1> QED
  BY <1>1, <1>2, <1>3

\* The head of the send queue gives its buffer back.
LEMMA DequeueFit ==
  ASSUME NEW s, NEW n, Fit(s, n), s.sendQ # <<>>
  PROVE  LET t == DequeueHead(s)
         IN  /\ Fit(t, n) /\ t.status # "ACK_WAIT"
             /\ t.phase = s.phase /\ t.table = s.table
             /\ t.recvQ = s.recvQ /\ t.event = s.event
<1> DEFINE q == Tail(s.sendQ)
           u == [s EXCEPT !.sendQ = q, !.pool = @ + 1, !.status = "IDLE"]
           t == DownOnce(u)
<1>1. DequeueHead(s) = t
  BY DEF DequeueHead
<1>2. /\ DOMAIN u = Fields /\ u.sendQ = q /\ u.pool = s.pool + 1
      /\ u.recvQ = s.recvQ /\ u.event = s.event
      /\ u.keep = s.keep /\ u.status = "IDLE" /\ u.win = s.win
      /\ u.table = s.table /\ u.phase = s.phase /\ u.owed = s.owed
  BY DEF Fit, Parts, Fields
<1> HIDE DEF u
<1>3. /\ IsSeq(q) /\ Len(q) = Len(s.sendQ) - 1
      /\ \A i \in DOMAIN q : i + 1 \in DOMAIN s.sendQ /\ q[i] = s.sendQ[i + 1]
  BY SeqTail DEF Fit, Parts, IsQueue
<1> HIDE DEF q
<1>4. IsQueue(q)
  BY <1>3 DEF Fit, Parts, IsQueue
<1>5. u.pool \in Nat /\ Held(u) = n /\ Len(q) <= SendMax
  <2> DEFINE a == s.pool
             b == Len(s.sendQ)
             c == Len(s.recvQ)
             e == Cardinality(KeptAt(s.keep))
  <2>1. Held(u) = (a + 1) + (b - 1) + c + e /\ Len(q) = b - 1 /\ u.pool = a + 1
    BY <1>2, <1>3 DEF Held
  <2>2. /\ a \in Nat /\ b \in Nat /\ c \in Nat /\ e \in Nat /\ n = a + b + c + e
        /\ b <= SendMax
    BY HeldTypes DEF Fit, Parts
  <2> HIDE DEF a, b, c, e
  <2> QED
    BY <2>1, <2>2, SdnNodeAssumption
<1>6. Parts(u, n) /\ NoneWaits(u)
  BY <1>2, <1>4, <1>5 DEF Fit, Parts, NoneWaits
<1>7. /\ Fit(t, n) /\ t.phase = u.phase /\ t.table = u.table
      /\ t.recvQ = u.recvQ /\ t.event = u.event
      /\ t.status \in {u.status, "BUSY"}
  BY <1>2, <1>6, DownOnceFit
<1> HIDE DEF t
<1> QED
  BY <1>1, <1>2, <1>7

----------------------------------------------------------------------------
(* The invariant: all buffers are accounted for, and h is what the MAC     *)
(* layer has.                                                              *)

Sound(s, h) ==
  /\ Fit(s, PoolSize) /\ Steady(s)
  /\ s.event <=> s.recvQ # <<>>
  /\ s.status = "ACK_WAIT" <=> h # <<>>
  /\ h # <<>> => SamePacket(Head(s.sendQ), h)

NodeInv == Sound(node, handed)

LEMMA SoundKept ==
  ASSUME NEW s, NEW t, NEW h, Sound(s, h), Fit(t, PoolSize), Keeps(s, t), Steady(t)
  PROVE  Sound(t, h)
<1>1. t.event <=> t.recvQ # <<>>
  BY DEF Sound, Keeps
<1>2. CASE s.sendQ = <<>>
  BY <1>1, <1>2 DEF Sound, Keeps, Fit, Awake
<1>3. CASE s.sendQ # <<>>
  <2>1. t.status = s.status /\ SamePacket(Head(s.sendQ), Head(t.sendQ))
    BY <1>3 DEF Keeps
  <2>2. h # <<>> => SamePacket(Head(t.sendQ), h)
    BY <2>1 DEF Sound, SamePacket, SameRequest
  <2> QED
    BY <1>1, <2>1, <2>2 DEF Sound
<1> QED
  BY <1>2, <1>3

LEMMA InitSound == Init => NodeInv
<1> SUFFICES ASSUME Init PROVE NodeInv
  OBVIOUS
<1>1. /\ DOMAIN node = Fields
      /\ node.status = "IDLE" /\ node.sendQ = <<>> /\ node.recvQ = <<>>
      /\ node.event = FALSE /\ node.keep = [i \in 1 .. KeepMax |-> <<>>]
      /\ node.pool = PoolSize /\ node.win = EmptyWindow
      /\ node.table = [k \in {Self} |-> "RECEIVE"] /\ node.phase = "AWAITING"
      /\ handed = <<>>
  BY DEF Init, Fields
<1>2. IsQueue(<<>>) /\ Len(<<>>) = 0
  <2>1. <<>> \in Seq({}) /\ Len(<<>>) = 0 /\ DOMAIN <<>> = {}
    OBVIOUS
  <2> QED
    BY <2>1 DEF IsQueue, IsSeq
<1>3. DOMAIN node.keep = 1 .. KeepMax /\ KeptAt(node.keep) = {}
  BY <1>1 DEF KeptAt
<1>4. IsWindow(EmptyWindow)
  BY DEF IsWindow, EmptyWindow
<1>5. IsTable(node.table)
  <2>1. IsFiniteSet({Self}) /\ Cardinality({Self}) = 1
    BY FS_Singleton
  <2> QED
    BY <1>1, <2>1, SdnNodeAssumption DEF IsTable, Actions
<1>6. Held(node) = PoolSize
  <2>1. Held(node) = PoolSize + 0 + 0 + 0
    BY <1>1, <1>2, <1>3, FS_EmptySet DEF Held
  <2> QED
    BY <2>1, SdnNodeAssumption
<1>7. Parts(node, PoolSize)
  BY <1>1, <1>2, <1>3, <1>4, <1>5, <1>6, SdnNodeAssumption DEF Parts, IsKeep
<1>8. Awake(node) /\ NoneWaits(node)
  BY <1>1, <1>3 DEF Awake, NoneWaits
<1> QED
  BY <1>1, <1>7, <1>8 DEF NodeInv, Sound, Fit, Steady

LEMMA AppSendSound == ASSUME NodeInv, NEW f, AppSend(f) PROVE NodeInv'
<1> DEFINE t == GetAndEnqueue(node, Own("DATA", f, 0, 0))
<1>1. IsPacket(Own("DATA", f, 0, 0))
  BY OwnPacket DEF ByFlow
<1>2. Fit(t, PoolSize) /\ Keeps(node, t) /\ t.phase = node.phase
  BY <1>1, GetFit DEF NodeInv, Sound
<1>3. node' = t /\ handed' = handed
  BY DEF AppSend
<1> HIDE DEF t
<1>4. Sound(t, handed)
  BY <1>2, SoundKept, SteadyKept DEF NodeInv, Sound
<1> QED
  BY <1>3, <1>4 DEF NodeInv

LEMMA RegisterFlowSound == ASSUME NodeInv, NEW f, RegisterFlow(f) PROVE NodeInv'
<1> DEFINE entered == Insert(node, f, "RECEIVE")
           p == Own("REGISTER_FLOWID", f, FreshSeq, 0)
           t == GetAndEnqueue(entered, p)
<1>1. node' \in {t, node} /\ handed' = handed
  BY DEF RegisterFlow
<1>2. /\ Fit(entered, PoolSize) /\ Keeps(node, entered)
      /\ entered.phase = node.phase
  BY InsertFit DEF NodeInv, Sound, Actions
<1> HIDE DEF entered
<1>3. IsPacket(p)
  BY OwnPacket DEF ByFlow
<1> HIDE DEF p
<1>4. Fit(t, PoolSize) /\ Keeps(entered, t) /\ t.phase = entered.phase
  BY <1>2, <1>3, GetFit
<1> HIDE DEF t
<1>5. Keeps(node, t) /\ Steady(t)
  BY <1>2, <1>4, KeepsTwice, SteadyKept DEF NodeInv, Sound
<1>6. Sound(t, handed)
  BY <1>4, <1>5, SoundKept DEF NodeInv
<1> QED
  BY <1>1, <1>6 DEF NodeInv

LEMMA NdEventSound == ASSUME NodeInv, NdEvent PROVE NodeInv'
<1> DEFINE t == SendNeighborReport(node, FreshSeq, nbrs')
           u == [node EXCEPT !.owed = TRUE]
<1>1. node' \in {t, u} /\ handed' = handed
  BY DEF NdEvent
<1>2. Fit(t, PoolSize) /\ Keeps(node, t) /\ t.phase = node.phase
  BY ReportFit DEF NodeInv, Sound
<1>3. Fit(u, PoolSize) /\ Keeps(node, u) /\ u.phase = node.phase
  BY OwedFit DEF NodeInv, Sound
<1> HIDE DEF t, u
<1>4. Sound(t, handed) /\ Sound(u, handed)
  BY <1>2, <1>3, SoundKept, SteadyKept DEF NodeInv, Sound
<1> QED
  BY <1>1, <1>4 DEF NodeInv

LEMMA CdEventSound == ASSUME NodeInv, CdEvent PROVE NodeInv'
<1> DEFINE steady == [node EXCEPT !.phase = "STEADY"]
           found == Insert(steady, CtrlFlow, "FORWARD")
           paid == [found EXCEPT !.owed = FALSE]
           t == SendNeighborReport(paid, FreshSeq, nbrs)
<1>1. node' \in {t, found} /\ handed' = handed
  BY DEF CdEvent
<1>2. Fit(steady, PoolSize) /\ Keeps(node, steady)
  BY PhaseFit DEF NodeInv, Sound
<1> HIDE DEF steady
<1>3. Fit(found, PoolSize) /\ Keeps(steady, found) /\ Routed(found)
  BY <1>2, InsertFit DEF Actions, Routed
<1> HIDE DEF found
<1>4. Fit(paid, PoolSize) /\ Keeps(found, paid)
  BY <1>3, OwedFit
<1> HIDE DEF paid
<1>5. Fit(t, PoolSize) /\ Keeps(paid, t)
  BY <1>4, ReportFit
<1> HIDE DEF t
<1>6. Keeps(node, found) /\ Keeps(node, t) /\ Keeps(found, t)
  BY <1>2, <1>3, <1>4, <1>5, KeepsTwice
<1>7. Steady(found) /\ Steady(t)
  BY <1>3, <1>5, <1>6, RoutedKept DEF Steady
<1>8. Sound(found, handed) /\ Sound(t, handed)
  BY <1>3, <1>5, <1>6, <1>7, SoundKept DEF NodeInv
<1> QED
  BY <1>1, <1>8 DEF NodeInv

\* A received packet is in a buffer of the pool.
LEMMA ReceiveSound == ASSUME NodeInv, NEW p, IsPacket(p), Receive(p) PROVE NodeInv'
<1> DEFINE q == Append(node.recvQ, p)
           event == node.event \/ node.recvQ = <<>>
           t == [node EXCEPT !.pool = @ - 1, !.recvQ = q, !.event = event]
<1>1. handed' = handed
  BY DEF Receive
<1>2. CASE node' = node
  BY <1>1, <1>2 DEF NodeInv
<1>3. CASE node' # node
  <2>1. node' = t /\ node.pool # 0
    BY <1>3 DEF Receive
  <2>2. event = TRUE
    BY DEF NodeInv, Sound
  <2> HIDE DEF event
  <2>3. /\ DOMAIN t = Fields /\ t.pool = node.pool - 1 /\ t.recvQ = q /\ t.event = event
        /\ t.status = node.status /\ t.sendQ = node.sendQ
        /\ t.keep = node.keep /\ t.win = node.win
        /\ t.table = node.table /\ t.phase = node.phase
    BY DEF NodeInv, Sound, Fit, Parts, Fields
  <2> HIDE DEF t
  <2>4. IsQueue(node.recvQ) /\ IsSeq(node.recvQ) /\ DOMAIN node.recvQ = 1 .. Len(node.recvQ)
        /\ Len(node.recvQ) \in Nat
    BY SeqLen DEF NodeInv, Sound, Fit, Parts, IsQueue
  <2>5. /\ IsSeq(q) /\ Len(q) = Len(node.recvQ) + 1
        /\ DOMAIN q = 1 .. Len(node.recvQ) + 1 /\ q # <<>>
        /\ \A i \in DOMAIN node.recvQ : q[i] = node.recvQ[i]
        /\ q[Len(node.recvQ) + 1] = p
    BY <2>4, SeqAppend
  <2> HIDE DEF q
  <2>6. IsQueue(q)
    <3> SUFFICES ASSUME NEW i \in DOMAIN q PROVE IsPacket(q[i])
      BY <2>5 DEF IsQueue
    <3>1. i \in DOMAIN node.recvQ \/ i = Len(node.recvQ) + 1
      BY <2>4, <2>5
    <3> QED
      BY <2>4, <2>5, <3>1 DEF IsQueue
  <2>7. t.pool \in Nat /\ Held(t) = PoolSize
    <3> DEFINE a == node.pool
               b == Len(node.sendQ)
               c == Len(node.recvQ)
               e == Cardinality(KeptAt(node.keep))
    <3>1. Held(t) = (a - 1) + b + (c + 1) + e /\ t.pool = a - 1 /\ a # 0
      BY <2>1, <2>3, <2>5 DEF Held
    <3>2. a \in Nat /\ b \in Nat /\ c \in Nat /\ e \in Nat /\ PoolSize = a + b + c + e
      BY HeldTypes DEF NodeInv, Sound, Fit
    <3> HIDE DEF a, b, c, e
    <3> QED
      BY <3>1, <3>2, SdnNodeAssumption
  <2>8. Parts(t, PoolSize)
    BY <2>3, <2>6, <2>7 DEF NodeInv, Sound, Fit, Parts
  <2>9. Awake(t) /\ NoneWaits(t) /\ Steady(t)
    BY <2>3 DEF NodeInv, Sound, Fit, Awake, NoneWaits, Steady, Routed
  <2>10. Sound(t, handed)
    BY <2>2, <2>3, <2>5, <2>8, <2>9 DEF NodeInv, Sound, Fit
  <2> QED
    BY <1>1, <2>1, <2>10 DEF NodeInv
<1> QED
  BY <1>2, <1>3

LEMMA ReceiveInputSound == ASSUME NodeInv, ReceiveInput PROVE NodeInv'
  BY InputsAssumption, ReceiveSound DEF ReceiveInput

LEMMA ReceiveAckSound == ASSUME NodeInv, ReceiveAck PROVE NodeInv'
<1>1. \A p : IsPacket(AckFor(p))
  BY DEF AckFor, IsPacket, IsSetup
<1> QED
  BY <1>1, ReceiveSound DEF ReceiveAck

\* The core process works with one buffer in its hands.
LEMMA CoreStepSound == ASSUME NodeInv, CoreStep PROVE NodeInv'
<1> DEFINE p == Head(node.recvQ)
           q == Tail(node.recvQ)
           popped == [node EXCEPT !.recvQ = q]
           sent == GetAndEnqueue(popped, p)
           treated == Treat(popped, p, FreshSeq)
           done == IF Action(popped, p) = "FORWARD" THEN sent ELSE treated
           event == done.recvQ # <<>>
           t == [done EXCEPT !.pool = @ + 1, !.event = event]
<1>1. node' = t /\ handed' = handed /\ node.recvQ # <<>>
  BY DEF CoreStep, NodeInv, Sound
<1>2. /\ IsQueue(node.recvQ) /\ IsSeq(node.recvQ)
  BY DEF NodeInv, Sound, Fit, Parts, IsQueue
<1>3. /\ IsPacket(p) /\ IsQueue(q) /\ Len(q) = Len(node.recvQ) - 1
      /\ Len(node.recvQ) \in Nat \ {0}
  <2>1. /\ IsSeq(q) /\ Len(q) = Len(node.recvQ) - 1 /\ Len(node.recvQ) \in Nat \ {0}
        /\ 1 \in DOMAIN node.recvQ /\ p = node.recvQ[1]
        /\ \A i \in DOMAIN q : i + 1 \in DOMAIN node.recvQ /\ q[i] = node.recvQ[i + 1]
    BY <1>1, <1>2, SeqTail
  <2> HIDE DEF p, q
  <2> QED
    BY <1>2, <2>1 DEF IsQueue
<1> HIDE DEF p, q
<1>4. /\ DOMAIN popped = Fields /\ popped.recvQ = q /\ popped.event = node.event
      /\ popped.status = node.status /\ popped.sendQ = node.sendQ
      /\ popped.keep = node.keep /\ popped.pool = node.pool /\ popped.win = node.win
      /\ popped.table = node.table /\ popped.phase = node.phase
  BY DEF NodeInv, Sound, Fit, Parts, Fields
<1> HIDE DEF popped
<1>5. Held(popped) = PoolSize - 1
  <2> DEFINE a == node.pool
             b == Len(node.sendQ)
             c == Len(node.recvQ)
             e == Cardinality(KeptAt(node.keep))
  <2>1. Held(popped) = a + b + (c - 1) + e
    BY <1>3, <1>4 DEF Held
  <2>2. a \in Nat /\ b \in Nat /\ c \in Nat /\ e \in Nat /\ PoolSize = a + b + c + e
    BY HeldTypes DEF NodeInv, Sound, Fit
  <2> HIDE DEF a, b, c, e
  <2> QED
    BY <2>1, <2>2
<1>6. Parts(popped, PoolSize - 1)
  BY <1>3, <1>4, <1>5 DEF NodeInv, Sound, Fit, Parts
<1>7. Fit(popped, PoolSize - 1) /\ Steady(popped)
  BY <1>4, <1>6 DEF NodeInv, Sound, Fit, Awake, NoneWaits, Steady, Routed
<1>8. Fit(sent, PoolSize - 1) /\ Keeps(popped, sent) /\ Steady(sent)
  BY <1>3, <1>7, GetFit, SteadyKept
<1>9. Fit(treated, PoolSize - 1) /\ Keeps(popped, treated) /\ Steady(treated)
  BY <1>3, <1>7, TreatFit
<1> HIDE DEF sent, treated
<1>10. Fit(done, PoolSize - 1) /\ Keeps(popped, done) /\ Steady(done)
  BY <1>8, <1>9
<1> HIDE DEF done
<1> DEFINE given == [done EXCEPT !.pool = @ + 1]
<1>11. /\ Fit(given, PoolSize) /\ Keeps(done, given) /\ given.phase = done.phase
       /\ given.sendQ = done.sendQ /\ given.status = done.status
  <2>1. done.pool + 1 >= 0 /\ 1 \in Int /\ (PoolSize - 1) + 1 = PoolSize
    BY <1>10, SdnNodeAssumption DEF Fit, Parts
  <2> QED
    BY <1>10, <2>1, PoolFit
<1>12. t = [given EXCEPT !.event = event] /\ given.recvQ = done.recvQ
  BY <1>10 DEF Fit, Parts, Fields
<1> HIDE DEF given, t
<1>13. /\ DOMAIN t = Fields /\ t.event = event
       /\ t.status = given.status /\ t.sendQ = given.sendQ /\ t.recvQ = given.recvQ
       /\ t.keep = given.keep /\ t.pool = given.pool /\ t.win = given.win
       /\ t.table = given.table /\ t.phase = given.phase
  <2> HIDE DEF event
  <2> QED
    BY <1>11, <1>12 DEF Fit, Parts, Fields
<1>14. Parts(t, PoolSize)
  BY <1>11, <1>13 DEF Fit, Parts, Held
<1>15. Awake(t) /\ NoneWaits(t)
  BY <1>11, <1>13 DEF Fit, Awake, NoneWaits
<1>16. Steady(t)
  <2>1. Steady(given)
    BY <1>10, <1>11, SteadyKept
  <2> QED
    BY <1>13, <2>1 DEF Steady, Routed
<1>17. t.event <=> t.recvQ # <<>>
  BY <1>12, <1>13
<1>18. Sound(t, handed)
  <2>1. CASE node.sendQ = <<>>
    <3>1. handed = <<>> /\ t.status # "ACK_WAIT"
      BY <1>4, <1>10, <1>11, <1>13, <2>1 DEF NodeInv, Sound, Keeps, Fit, Awake
    <3> QED
      BY <1>14, <1>15, <1>16, <1>17, <3>1 DEF Sound, Fit
  <2>2. CASE node.sendQ # <<>>
    <3>1. t.status = node.status /\ SamePacket(Head(node.sendQ), Head(t.sendQ))
      BY <1>4, <1>10, <1>11, <1>13, <2>2 DEF Keeps
    <3>2. handed # <<>> => SamePacket(Head(t.sendQ), handed)
      BY <3>1 DEF NodeInv, Sound, SamePacket, SameRequest
    <3>3. node.status = "ACK_WAIT" <=> handed # <<>>
      BY DEF NodeInv, Sound
    <3> QED
      BY <1>14, <1>15, <1>16, <1>17, <3>1, <3>2, <3>3 DEF Sound, Fit
  <2> QED
    BY <2>1, <2>2
<1> QED
  BY <1>1, <1>18 DEF NodeInv

LEMMA SendStepSound == ASSUME NodeInv, SendStep PROVE NodeInv'
<1> DEFINE p == Head(node.sendQ)
<1>1. /\ node.sendQ # <<>> /\ IsPacket(p) /\ handed = <<>>
      /\ node.status = "BUSY"
  <2>1. node.sendQ # <<>> /\ node.status = "BUSY" /\ handed = <<>>
    BY DEF NodeInv, Sound, Fit, Awake, SendStep
  <2>2. 1 \in DOMAIN node.sendQ /\ p = node.sendQ[1]
    BY <2>1, SeqTail DEF NodeInv, Sound, Fit, Parts, IsQueue
  <2> HIDE DEF p
  <2> QED
    BY <2>1, <2>2 DEF NodeInv, Sound, Fit, Parts, IsQueue
<1>2. CASE Action(node, p) = "FORWARD"
  <2> DEFINE t == [node EXCEPT !.status = "ACK_WAIT"]
  <2>1. node' = t /\ handed' = p
    BY <1>2 DEF SendStep
  <2>2. /\ DOMAIN t = Fields /\ t.status = "ACK_WAIT" /\ t.sendQ = node.sendQ
        /\ t.recvQ = node.recvQ /\ t.event = node.event
        /\ t.keep = node.keep /\ t.pool = node.pool /\ t.win = node.win
        /\ t.table = node.table /\ t.phase = node.phase
    BY DEF NodeInv, Sound, Fit, Parts, Fields
  <2> HIDE DEF t
  <2>3. Parts(t, PoolSize)
    BY <2>2 DEF NodeInv, Sound, Fit, Parts, Held
  <2>4. Awake(t) /\ NoneWaits(t) /\ Steady(t) /\ (t.event <=> t.recvQ # <<>>)
    BY <1>1, <2>2 DEF NodeInv, Sound, Fit, Awake, NoneWaits, Steady, Routed
  <2>5. p # <<>> /\ SamePacket(Head(t.sendQ), p)
    BY <1>1, <2>2, PacketNotBlank DEF SamePacket, SameRequest
  <2> HIDE DEF p
  <2>6. Sound(t, p)
    BY <2>2, <2>3, <2>4, <2>5 DEF Sound, Fit
  <2> QED
    BY <2>1, <2>6 DEF NodeInv
<1>3. CASE Action(node, p) # "FORWARD"
  <2> DEFINE u == Treat(node, p, FreshSeq)
             t == DequeueHead(u)
  <2>1. node' = t /\ handed' = handed
    BY <1>3 DEF SendStep
  <2> HIDE DEF p
  <2>2. Fit(u, PoolSize) /\ Keeps(node, u) /\ Steady(u)
    BY <1>1, TreatFit DEF NodeInv, Sound
  <2> HIDE DEF u
  <2>3. u.sendQ # <<>> /\ (u.event <=> u.recvQ # <<>>)
    BY <1>1, <2>2 DEF Keeps, NodeInv, Sound
  <2>4. /\ Fit(t, PoolSize) /\ t.status # "ACK_WAIT"
        /\ t.phase = u.phase /\ t.table = u.table
        /\ t.recvQ = u.recvQ /\ t.event = u.event
    BY <2>2, <2>3, DequeueFit
  <2> HIDE DEF t
  <2>5. Sound(t, handed)
    BY <1>1, <2>2, <2>3, <2>4 DEF Sound, Steady, Routed
  <2> QED
    BY <2>1, <2>5 DEF NodeInv
<1> QED
  BY <1>2, <1>3

LEMMA MacDoneSound == ASSUME NodeInv, MacDone PROVE NodeInv'
<1> DEFINE w == AwaitAck(node.win, Head(node.sendQ))
           u == [node EXCEPT !.win = w]
           t == DequeueHead(u)
<1>1. node' = t /\ handed' = <<>>
  BY DEF MacDone
<1>2. node.sendQ # <<>> /\ IsPacket(Head(node.sendQ))
  <2>1. node.sendQ # <<>>
    BY DEF NodeInv, Sound, Fit, Awake, MacDone
  <2> QED
    BY <2>1, SeqTail DEF NodeInv, Sound, Fit, Parts, IsQueue
<1>3. IsWindow(w)
  BY <1>2, AwaitAckWindow DEF NodeInv, Sound, Fit, Parts
<1> HIDE DEF w
<1>4. /\ Fit(u, PoolSize) /\ Keeps(node, u) /\ u.phase = node.phase
      /\ u.sendQ = node.sendQ
  BY <1>3, WinFit DEF NodeInv, Sound
<1> HIDE DEF u
<1>5. /\ Fit(t, PoolSize) /\ t.status # "ACK_WAIT"
      /\ t.phase = u.phase /\ t.table = u.table
      /\ t.recvQ = u.recvQ /\ t.event = u.event
  BY <1>2, <1>4, DequeueFit
<1>6. Steady(u) /\ (u.event <=> u.recvQ # <<>>)
  BY <1>4, SteadyKept DEF NodeInv, Sound, Keeps
<1> HIDE DEF t
<1>7. Sound(t, <<>>)
  BY <1>5, <1>6 DEF Sound, Steady, Routed
<1> QED
  BY <1>1, <1>7 DEF NodeInv

LEMMA TimerSound == ASSUME NodeInv, NEW i \in Slots, Timer(i) PROVE NodeInv'
<1> DEFINE p == node.win.pkt[i]
           seq == IF BySeq(p) THEN FreshSeq ELSE 0
           m == [p EXCEPT !.seq = seq]
           u == GetAndEnqueue(node, m)
           w == TimerRequeued(u.win, i, seq)
           t == [u EXCEPT !.win = w]
<1>1. node' = t /\ handed' = handed /\ node.win.live[i]
  BY DEF Timer
<1> HIDE DEF seq
<1>2. IsPacket(m)
  BY <1>1, SeqPacket DEF NodeInv, Sound, Fit, Parts, IsWindow
<1> HIDE DEF m
<1>3. /\ Fit(u, PoolSize) /\ Keeps(node, u) /\ u.phase = node.phase
      /\ u.win = node.win
  BY <1>2, GetFit DEF NodeInv, Sound
<1> HIDE DEF u
<1>4. IsWindow(w)
  BY <1>1, <1>3, TimerWindow DEF Fit, Parts
<1> HIDE DEF w
<1>5. Fit(t, PoolSize) /\ Keeps(u, t) /\ t.phase = u.phase
  BY <1>3, <1>4, WinFit
<1> HIDE DEF t
<1>6. Keeps(node, t) /\ Steady(t)
  BY <1>3, <1>5, KeepsTwice, SteadyKept DEF NodeInv, Sound
<1>7. Sound(t, handed)
  BY <1>5, <1>6, SoundKept DEF NodeInv
<1> QED
  BY <1>1, <1>7 DEF NodeInv

LEMMA NextSound == NodeInv /\ [Next]_vars => NodeInv'
<1> SUFFICES ASSUME NodeInv, [Next]_vars PROVE NodeInv'
  OBVIOUS
<1>1. CASE \E f \in AppFlows : AppSend(f) \/ RegisterFlow(f)
  BY <1>1, AppSendSound, RegisterFlowSound
<1>2. CASE NdEvent
  BY <1>2, NdEventSound
<1>3. CASE CdEvent
  BY <1>3, CdEventSound
<1>4. CASE ReceiveInput
  BY <1>4, ReceiveInputSound
<1>5. CASE ReceiveAck
  BY <1>5, ReceiveAckSound
<1>6. CASE CoreStep
  BY <1>6, CoreStepSound
<1>7. CASE SendStep
  BY <1>7, SendStepSound
<1>8. CASE Lose
  BY <1>8 DEF Lose, NodeInv
<1>9. CASE MacDone
  BY <1>9, MacDoneSound
<1>10. CASE \E i \in Slots : Timer(i)
  BY <1>10, TimerSound
<1>11. CASE UNCHANGED vars
  BY <1>11 DEF vars, NodeInv
<1> QED
  BY <1>1, <1>2, <1>3, <1>4, <1>5, <1>6, <1>7, <1>8, <1>9, <1>10, <1>11 DEF Next

LEMMA NodeSound == Spec => []NodeInv
  BY InitSound, NextSound, PTL DEF Spec

----------------------------------------------------------------------------
(* The properties                                                          *)

\* However the handlers follow each other, and wherever one of them stops
\* for want of a buffer or of room in a queue, no buffer of the pool leaks
\* and none is used twice.
THEOREM BuffersConserved == Spec => []BufferConservation
<1>1. NodeInv => BufferConservation
  BY DEF NodeInv, Sound, Fit, Parts, Held, KeptAt, BufferConservation
<1> QED
  BY <1>1, NodeSound, PTL

\* No handler leaves a packet in a queue whose process is not told, nor
\* tells a process of a queue that is empty.
THEOREM WakeUpsHold == Spec => []WakeUps
<1>1. NodeInv => WakeUps
  BY DEF NodeInv, Sound, Fit, Awake, WakeUps
<1> QED
  BY <1>1, NodeSound, PTL

\* The packet whose transmission the MAC layer reports is the head of the
\* send queue, whatever was queued or rewritten in the meantime.
THEOREM HeadStays == Spec => []HeadIsHandedOver
<1>1. NodeInv => HeadIsHandedOver
  BY DEF NodeInv, Sound, SamePacket, HeadIsHandedOver
<1> QED
  BY <1>1, NodeSound, PTL

\* No packet waits for a route that the node has.
THEOREM NoneKeptInVain == Spec => []KeptHaveNoRoute
<1>1. NodeInv => KeptHaveNoRoute
  <2> SUFFICES ASSUME NodeInv, NEW p \in Kept(node)
               PROVE  RouteKey(p) \notin DOMAIN node.table
    BY DEF KeptHaveNoRoute
  <2>1. PICK i \in DOMAIN node.keep : p = node.keep[i] /\ node.keep[i] # <<>>
    BY DEF Kept, Range
  <2> QED
    BY <2>1 DEF NodeInv, Sound, Fit, NoneWaits, KeptAt
<1> QED
  BY <1>1, NodeSound, PTL

\* The wait for the controller does not end without a route to it, unless
\* the flow tables' common pool is used up.
THEOREM SteadyRouted == Spec => []SteadyHasRoute
<1>1. NodeInv => SteadyHasRoute
  BY DEF NodeInv, Sound, Steady, Routed, SteadyHasRoute
<1> QED
  BY <1>1, NodeSound, PTL

----------------------------------------------------------------------------
(* OneReport.  Reports are queued, awaited or kept.  sld_purge frees the   *)
(* first slot whose contents are a report, live or not, so that it matters *)
(* where old reports lie in the window (Awaits).  A kept report is no      *)
(* danger, since it is kept only when the flow tables are full and have no *)
(* route to the controller, and so for ever (Stuck).                       *)

IsReport(p) == p.type = "NEIGHBOR_REPORT" /\ p.own

ReportsIn(q) == {i \in DOMAIN q : IsReport(q[i])}

ReportSlots(w) == {i \in Slots : w.pkt[i].type = "NEIGHBOR_REPORT"}

LiveReports(w) == {i \in ReportSlots(w) : w.live[i]}

KeptReports(keep) == {i \in KeptAt(keep) : IsReport(keep[i])}

\* The slots below sld_count are live, and the first slot with a report in it
\* is the live one, if there is one.
Awaits(w) ==
  /\ w.count \in Int
  /\ \A i \in Slots : i < w.count => w.live[i]
  /\ \A i \in ReportSlots(w) : \A j \in LiveReports(w) : j <= i
  /\ \A i \in LiveReports(w) : w.pkt[i].key = CtrlFlow

Stuck(table) ==
  CtrlFlow \notin DOMAIN table /\ Cardinality(DOMAIN table) = TableSize

Single(s) ==
  /\ Awaits(s.win)
  /\ \A i, j \in ReportsIn(s.sendQ) : i = j
  /\ \A i \in ReportsIn(s.sendQ) : s.sendQ[i].key = CtrlFlow
  /\ ReportsIn(s.sendQ) # {} => LiveReports(s.win) = {}
  /\ ReportsIn(s.sendQ) \cup LiveReports(s.win) # {} => s.phase = "STEADY"
  /\ KeptReports(s.keep) # {} => Stuck(s.table)

\* t has no other reports than s.
Quiet(s, t) ==
  /\ ReportsIn(t.sendQ) = ReportsIn(s.sendQ)
  /\ \A i \in ReportsIn(s.sendQ) : t.sendQ[i].key = s.sendQ[i].key
  /\ Awaits(s.win) => Awaits(t.win) /\ LiveReports(t.win) \subseteq LiveReports(s.win)
  /\ KeptReports(t.keep) \subseteq KeptReports(s.keep)
  /\ s.phase = "STEADY" => t.phase = "STEADY"

NoneOwn(q) == \A i \in DOMAIN q : ~ q[i].own

ReportInv == NodeInv /\ Single(node) /\ NoneOwn(node.recvQ)

----------------------------------------------------------------------------
(* The window                                                              *)

LEMMA FirstLeast ==
  ASSUME NEW S, S \subseteq Nat, S # {}
  PROVE  First(S) \in S /\ \A j \in S : First(S) <= j
  BY HasLeast DEF First

LEMMA SlotsNat == Slots \subseteq Nat
  BY MaxTxWindowAssumption DEF Slots

LEMMA RemoveElementAwaits ==
  ASSUME NEW w, IsWindow(w), Awaits(w), NEW i \in Slots
  PROVE  /\ Awaits(RemoveElement(w, i))
         /\ LiveReports(RemoveElement(w, i)) = LiveReports(w) \ {i}
<1> DEFINE live == [w.live EXCEPT ![i] = FALSE]
           count == IF i < w.count THEN i ELSE w.count
           v == RemoveElement(w, i)
<1>1. v.pkt = w.pkt /\ v.live = live /\ v.count = count
  BY DEF RemoveElement
<1>2. \A j \in Slots : live[j] <=> w.live[j] /\ j # i
  BY DEF IsWindow
<1>3. count \in Int /\ \A j \in Slots : j < count => j < w.count /\ j # i
  <2>1. i \in Int /\ w.count \in Int /\ \A j \in Slots : j \in Int
    BY SlotsNat DEF Awaits
  <2>2. CASE i < w.count
    BY <2>1, <2>2
  <2>3. CASE ~ (i < w.count)
    BY <2>1, <2>3
  <2> QED
    BY <2>2, <2>3
<1> HIDE DEF live, count, v
<1>4. ReportSlots(v) = ReportSlots(w) /\ LiveReports(v) = LiveReports(w) \ {i}
  BY <1>1, <1>2 DEF ReportSlots, LiveReports
<1> QED
  BY <1>1, <1>2, <1>3, <1>4 DEF Awaits, v

LEMMA RemoveMatchAwaits ==
  ASSUME NEW w, IsWindow(w), Awaits(w), NEW S, S \subseteq Slots
  PROVE  /\ Awaits(RemoveMatch(w, S))
         /\ LiveReports(RemoveMatch(w, S)) \subseteq LiveReports(w)
<1>1. CASE S = {}
  BY <1>1 DEF RemoveMatch
<1>2. CASE S # {}
  <2>1. First(S) \in Slots
    BY <1>2, SlotsNat, FirstLeast
  <2> QED
    BY <1>2, <2>1, RemoveElementAwaits DEF RemoveMatch
<1> QED
  BY <1>1, <1>2

\* sld_purge finds the live report.
LEMMA PurgeAwaits ==
  ASSUME NEW w, IsWindow(w), Awaits(w)
  PROVE  /\ Awaits(Purge(w, "NEIGHBOR_REPORT"))
         /\ LiveReports(Purge(w, "NEIGHBOR_REPORT")) = {}
<1> DEFINE S == ReportSlots(w)
           f == First(S)
<1>1. Purge(w, "NEIGHBOR_REPORT") = RemoveMatch(w, S) /\ S \subseteq Slots
  BY DEF Purge, ReportSlots
<1> HIDE DEF S
<1>2. CASE S = {}
  BY <1>1, <1>2 DEF RemoveMatch, LiveReports, S
<1>3. CASE S # {}
  <2>1. f \in S /\ f \in Slots /\ \A j \in S : f <= j
    BY <1>1, <1>3, SlotsNat, FirstLeast
  <2> HIDE DEF f
  <2>2. /\ Awaits(RemoveElement(w, f))
        /\ LiveReports(RemoveElement(w, f)) = LiveReports(w) \ {f}
    BY <2>1, RemoveElementAwaits
  <2>3. ASSUME NEW j \in LiveReports(w) PROVE j = f
    <3>1. j \in S /\ j <= f
      BY <2>1 DEF Awaits, LiveReports, S
    <3> QED
      BY <1>1, <2>1, <3>1, SlotsNat
  <2> QED
    BY <1>1, <1>3, <2>2, <2>3 DEF RemoveMatch, f
<1> QED
  BY <1>2, <1>3

\* The report that is awaited goes below any old copy: all slots below it are
\* live, and none of them has a report.
LEMMA AwaitAckAwaits ==
  ASSUME NEW w, IsWindow(w), Awaits(w), NEW p, IsPacket(p),
         IsReport(p) => p.key = CtrlFlow
  PROVE  /\ Awaits(AwaitAck(w, p))
         /\ ~ IsReport(p) => LiveReports(AwaitAck(w, p)) \subseteq LiveReports(w)
<1> DEFINE Good(v) == /\ Awaits(v)
                      /\ ~ IsReport(p) => LiveReports(v) \subseteq LiveReports(w)
           f == First(FreeSlots(w))
           R == Redundant(w, p)
<1>1. CASE p.type \notin Reliable \/ ~ p.own
  BY <1>1 DEF AwaitAck
<1>2. CASE ~ (p.type \notin Reliable \/ ~ p.own) /\ R # {}
  <2>1. AwaitAck(w, p) = Refresh(w, p)
    BY <1>2 DEF AwaitAck
  <2>2. CASE p.type # "NEIGHBOR_REPORT"
    BY <2>1, <2>2 DEF Refresh
  <2>3. CASE p.type = "NEIGHBOR_REPORT"
    <3> DEFINE v == Refresh(w, p)
               pkt == [i \in Slots |-> IF i \in R THEN p ELSE w.pkt[i]]
    <3>1. v.pkt = pkt /\ v.live = w.live /\ v.count = w.count
      BY <2>3 DEF Refresh
    <3>2. \A i \in Slots : pkt[i].type = w.pkt[i].type /\ (w.live[i] => pkt[i].key = w.pkt[i].key)
      BY DEF Redundant, SameRequest
    <3> HIDE DEF v, pkt
    <3>3. ReportSlots(v) = ReportSlots(w) /\ LiveReports(v) = LiveReports(w)
      BY <3>1, <3>2 DEF ReportSlots, LiveReports
    <3>4. LiveReports(w) \subseteq Slots /\ \A i \in LiveReports(w) : w.live[i]
      BY DEF LiveReports, ReportSlots
    <3>5. Awaits(v)
      BY <3>1, <3>2, <3>3, <3>4 DEF Awaits
    <3> QED
      BY <2>1, <3>3, <3>5 DEF v
  <2> QED
    BY <2>2, <2>3
<1>3. CASE ~ (p.type \notin Reliable \/ ~ p.own) /\ R = {} /\ FreeSlots(w) = {}
  <2> DEFINE v == GiveUp(w)
  <2>1. AwaitAck(w, p) = v
    BY <1>3 DEF AwaitAck
  <2>2. v.pkt = w.pkt /\ v.live = w.live /\ v.count = MaxTxWindow
    BY DEF GiveUp, IsWindow
  <2> HIDE DEF v
  <2>3. ReportSlots(v) = ReportSlots(w) /\ LiveReports(v) = LiveReports(w)
    BY <2>2 DEF ReportSlots, LiveReports
  <2>4. \A i \in Slots : w.live[i]
    <3> SUFFICES ASSUME NEW i \in Slots, ~ w.live[i] PROVE FALSE
      OBVIOUS
    <3>1. i >= w.count
      BY SlotsNat DEF Awaits
    <3> QED
      BY <1>3, <3>1 DEF FreeSlots
  <2>5. Awaits(v)
    BY <2>2, <2>3, <2>4, MaxTxWindowAssumption DEF Awaits
  <2> QED
    BY <2>1, <2>3, <2>5
<1>4. CASE ~ (p.type \notin Reliable \/ ~ p.own) /\ R = {} /\ FreeSlots(w) # {}
  <2> DEFINE v == Store(w, p)
             pkt == [w.pkt EXCEPT ![f] = p]
             live == [w.live EXCEPT ![f] = TRUE]
  <2>1. AwaitAck(w, p) = v
    BY <1>4 DEF AwaitAck
  <2>2. f \in FreeSlots(w) /\ \A j \in FreeSlots(w) : f <= j
    BY <1>4, SlotsNat, FirstLeast DEF FreeSlots
  <2>3. v.pkt = pkt /\ v.live = live /\ v.count = f + 1
    BY DEF Store
  <2> HIDE DEF v, f
  <2>4. f \in Slots /\ f \in Nat /\ ~ w.live[f] /\ f >= w.count
    BY <2>2, SlotsNat DEF FreeSlots
  <2>5. \A j \in Slots : j < f => w.live[j]
    <3> SUFFICES ASSUME NEW j \in Slots, j < f, ~ w.live[j] PROVE FALSE
      OBVIOUS
    <3>1. j \in Nat /\ ~ (f <= j)
      BY <2>4, SlotsNat
    <3>2. j >= w.count
      BY <3>1 DEF Awaits
    <3> QED
      BY <2>2, <3>1, <3>2 DEF FreeSlots
  <2>6. /\ \A j \in Slots : pkt[j] = IF j = f THEN p ELSE w.pkt[j]
        /\ \A j \in Slots : live[j] <=> j = f \/ w.live[j]
    BY DEF IsWindow
  <2> HIDE DEF pkt, live
  <2>7. \A j \in Slots : j < f + 1 => live[j]
    <3> SUFFICES ASSUME NEW j \in Slots, j < f + 1 PROVE live[j]
      OBVIOUS
    <3>1. j = f \/ j < f
      BY <2>4, SlotsNat
    <3> QED
      BY <2>5, <2>6, <3>1
  <2>8. CASE p.type # "NEIGHBOR_REPORT"
    <3>1. ReportSlots(v) \subseteq ReportSlots(w) /\ LiveReports(v) \subseteq LiveReports(w)
      BY <2>3, <2>6, <2>8 DEF ReportSlots, LiveReports
    <3>2. \A i \in LiveReports(v) : v.pkt[i] = w.pkt[i]
      BY <2>3, <2>6, <2>8 DEF ReportSlots, LiveReports
    <3>3. Awaits(v)
      BY <2>3, <2>4, <2>7, <3>1, <3>2 DEF Awaits
    <3> QED
      BY <2>1, <3>1, <3>3
  <2>9. CASE p.type = "NEIGHBOR_REPORT"
    <3>1. IsReport(p) /\ p.key = CtrlFlow
      BY <1>4, <2>9 DEF IsReport
    <3>2. LiveReports(w) = {}
      <4> SUFFICES ASSUME NEW i \in LiveReports(w) PROVE FALSE
        OBVIOUS
      <4>1. i \in R
        BY <2>9, <3>1 DEF Redundant, SameRequest, Awaits, LiveReports, ReportSlots
      <4> QED
        BY <1>4, <4>1
    <3>3. \A i \in ReportSlots(w) : ~ (i < f)
      BY <2>5, <3>2 DEF LiveReports, ReportSlots
    <3>4. /\ ReportSlots(v) \subseteq ReportSlots(w) \cup {f}
          /\ LiveReports(v) \subseteq {f}
      BY <2>3, <2>6, <3>2 DEF ReportSlots, LiveReports
    <3>5. \A i \in ReportSlots(v) : f <= i
      BY <2>4, <3>3, <3>4, SlotsNat DEF ReportSlots
    <3>6. v.pkt[f].key = CtrlFlow
      BY <2>3, <2>4, <2>6, <3>1
    <3>7. Awaits(v)
      BY <2>3, <2>4, <2>7, <3>4, <3>5, <3>6 DEF Awaits
    <3> QED
      BY <2>1, <3>1, <3>7
  <2> QED
    BY <2>8, <2>9
<1> QED
  BY <1>1, <1>2, <1>3, <1>4

LEMMA TimerAwaits ==
  ASSUME NEW w, IsWindow(w), Awaits(w), NEW i \in Slots, w.live[i], NEW seq
  PROVE  LET v == TimerRequeued(w, i, seq)
         IN  Awaits(v) /\ LiveReports(v) = LiveReports(w) \ {i}
<1> DEFINE p == [w.pkt[i] EXCEPT !.seq = seq]
           pkt == [w.pkt EXCEPT ![i] = p]
           u == [w EXCEPT !.pkt = pkt]
<1>1. p.type = w.pkt[i].type /\ p.key = w.pkt[i].key /\ IsPacket(p)
  BY SeqPacket DEF IsWindow, IsPacket
<1> HIDE DEF p
<1>2. /\ DOMAIN pkt = Slots
      /\ \A j \in Slots : pkt[j].type = w.pkt[j].type /\ pkt[j].key = w.pkt[j].key
      /\ \A j \in Slots : w.live[j] => IsPacket(pkt[j])
  BY <1>1 DEF IsWindow
<1> HIDE DEF pkt
<1>3. /\ DOMAIN u = {"pkt", "live", "count"} /\ u.pkt = pkt
      /\ u.live = w.live /\ u.count = w.count
  BY DEF IsWindow
<1>4. TimerRequeued(w, i, seq) = RemoveElement(u, i)
  BY DEF TimerRequeued, u, pkt, p
<1> HIDE DEF u
<1>5. ReportSlots(u) = ReportSlots(w) /\ LiveReports(u) = LiveReports(w)
  BY <1>2, <1>3 DEF ReportSlots, LiveReports
<1>6. IsWindow(u)
  BY <1>2, <1>3 DEF IsWindow
<1>7. Awaits(u)
  BY <1>2, <1>3, <1>5 DEF Awaits, LiveReports, ReportSlots
<1> QED
  BY <1>4, <1>5, <1>6, <1>7, RemoveElementAwaits

----------------------------------------------------------------------------
(* The functions of the node                                               *)

LEMMA QuietAll ==
  ASSUME NEW s
  PROVE  Quiet(s, s)
  BY DEF Quiet

LEMMA QuietTwice ==
  ASSUME NEW s, NEW t, NEW u, Quiet(s, t), Quiet(t, u)
  PROVE  Quiet(s, u)
  BY DEF Quiet

\* Full tables stay as they are.
LEMMA StuckKept ==
  ASSUME NEW s, NEW n, NEW t, NEW m, Fit(s, n), Fit(t, m), Keeps(s, t),
         Stuck(s.table)
  PROVE  Stuck(t.table)
<1> DEFINE D == DOMAIN s.table
           E == DOMAIN t.table
<1>1. /\ IsFiniteSet(D) /\ IsFiniteSet(E) /\ D \subseteq E
      /\ Cardinality(E) <= TableSize
      /\ CtrlFlow \notin D /\ Cardinality(D) = TableSize
  BY DEF Fit, Parts, IsTable, Keeps, Stuck
<1> HIDE DEF D, E
<1>2. /\ Cardinality(D) <= Cardinality(E) /\ Cardinality(E) \in Nat
      /\ Cardinality(D) = Cardinality(E) => D = E
  BY <1>1, FS_Subset, FS_CardinalityType
<1>3. Cardinality(D) = Cardinality(E)
  BY <1>1, <1>2, SdnNodeAssumption
<1>4. CtrlFlow \notin E /\ Cardinality(E) = TableSize
  BY <1>1, <1>2, <1>3
<1> QED
  BY <1>4 DEF Stuck, E

LEMMA SingleKept ==
  ASSUME NEW s, NEW n, NEW t, NEW m, Fit(s, n), Fit(t, m), Keeps(s, t),
         Single(s), Quiet(s, t)
  PROVE  Single(t)
<1>1. KeptReports(t.keep) # {} => Stuck(t.table)
  BY StuckKept DEF Single, Quiet
<1>2. Awaits(t.win) /\ LiveReports(t.win) \subseteq LiveReports(s.win)
  BY DEF Single, Quiet
<1> QED
  BY <1>1, <1>2 DEF Single, Quiet

Queued(q, p) == Append(q, p)

LEMMA AppendReports ==
  ASSUME NEW q, IsSeq(q), NEW p, NEW r, r = Queued(q, p)
  PROVE  /\ \A i \in ReportsIn(q) : r[i] = q[i]
         /\ ~ IsReport(p) => ReportsIn(r) = ReportsIn(q)
         /\ ReportsIn(r) \subseteq ReportsIn(q) \cup {Len(q) + 1}
         /\ r[Len(q) + 1] = p
<1>1. /\ DOMAIN q = 1 .. Len(q) /\ Len(q) \in Nat
      /\ DOMAIN r = 1 .. Len(q) + 1
      /\ \A i \in DOMAIN q : r[i] = q[i]
      /\ r[Len(q) + 1] = p
  BY SeqLen, SeqAppend DEF Queued
<1>2. DOMAIN r = DOMAIN q \cup {Len(q) + 1}
  BY <1>1
<1> QED
  BY <1>1, <1>2 DEF ReportsIn

\* What putting a packet in the send queue does to the reports.
LEMMA EnqueueReports ==
  ASSUME NEW s, NEW n, Fit(s, n), NEW p
  PROVE  LET t == EnqueueAndSend(s, p)
         IN  /\ t.win = s.win /\ t.keep = s.keep /\ t.phase = s.phase
             /\ t.table = s.table
             /\ t.sendQ = s.sendQ \/ t.sendQ = Append(s.sendQ, p)
<1> DEFINE u == [s EXCEPT !.sendQ = Append(@, p)]
           v == [s EXCEPT !.pool = @ + 1]
           t == EnqueueAndSend(s, p)
<1>1. t = DownOnce(u) \/ t = v
  BY DEF EnqueueAndSend
<1>2. /\ u.win = s.win /\ u.keep = s.keep /\ u.phase = s.phase /\ u.table = s.table
      /\ u.sendQ = Append(s.sendQ, p) /\ DOMAIN u = Fields
      /\ v.win = s.win /\ v.keep = s.keep /\ v.phase = s.phase /\ v.table = s.table
      /\ v.sendQ = s.sendQ
  BY DEF Fit, Parts, Fields
<1> HIDE DEF u, v, t
<1>3. /\ DownOnce(u).win = u.win /\ DownOnce(u).keep = u.keep
      /\ DownOnce(u).phase = u.phase /\ DownOnce(u).table = u.table
      /\ DownOnce(u).sendQ = u.sendQ
  BY <1>2 DEF DownOnce, Fields
<1> QED
  BY <1>1, <1>2, <1>3 DEF t

LEMMA GetReports ==
  ASSUME NEW s, NEW n, Fit(s, n), NEW p
  PROVE  LET t == GetAndEnqueue(s, p)
         IN  /\ t.win = s.win /\ t.keep = s.keep /\ t.phase = s.phase
             /\ t.table = s.table
             /\ t.sendQ = s.sendQ \/ t.sendQ = Append(s.sendQ, p)
<1>1. CASE s.pool = 0
  BY <1>1 DEF GetAndEnqueue
<1>2. CASE s.pool # 0
  <2> DEFINE u == [s EXCEPT !.pool = @ - 1]
             v == [s EXCEPT !.pool = @ + (-1)]
             t == EnqueueAndSend(u, p)
  <2>1. s.pool \in Nat /\ GetAndEnqueue(s, p) = t
    BY <1>2, HeldTypes DEF Fit, GetAndEnqueue
  <2>2. u = v
    BY <2>1
  <2>3. Fit(v, n + (-1))
    BY <1>2, <2>1, PoolFit
  <2>4. /\ u.win = s.win /\ u.keep = s.keep /\ u.phase = s.phase
        /\ u.table = s.table /\ u.sendQ = s.sendQ
    BY DEF Fit, Parts, Fields
  <2> HIDE DEF u, v
  <2>5. /\ t.win = u.win /\ t.keep = u.keep /\ t.phase = u.phase
        /\ t.table = u.table
        /\ t.sendQ = u.sendQ \/ t.sendQ = Append(u.sendQ, p)
    BY <2>2, <2>3, EnqueueReports
  <2> QED
    BY <2>1, <2>4, <2>5
<1> QED
  BY <1>1, <1>2

LEMMA GetQuiet ==
  ASSUME NEW s, NEW n, Fit(s, n), NEW p, ~ IsReport(p)
  PROVE  Quiet(s, GetAndEnqueue(s, p))
<1> DEFINE t == GetAndEnqueue(s, p)
<1>1. /\ t.win = s.win /\ t.keep = s.keep /\ t.phase = s.phase
      /\ t.sendQ = s.sendQ \/ t.sendQ = Append(s.sendQ, p)
  BY GetReports
<1> HIDE DEF t
<1>2. /\ ReportsIn(t.sendQ) = ReportsIn(s.sendQ)
      /\ \A i \in ReportsIn(s.sendQ) : t.sendQ[i] = s.sendQ[i]
  <2>1. CASE t.sendQ = s.sendQ
    BY <2>1
  <2>2. CASE t.sendQ = Append(s.sendQ, p)
    <3>1. IsSeq(s.sendQ) /\ t.sendQ = Queued(s.sendQ, p)
      BY <2>2 DEF Fit, Parts, IsQueue, Queued
    <3> QED
      BY <3>1, AppendReports
  <2> QED
    BY <1>1, <2>1, <2>2
<1> QED
  BY <1>1, <1>2 DEF Quiet, t

LEMMA FlowRequestQuiet ==
  ASSUME NEW s, NEW n, Fit(s, n), NEW key
  PROVE  Quiet(s, SendFlowRequest(s, key))
<1> DEFINE type == IF key \in Flows THEN "DATA_FLOW_REQUEST" ELSE "CONTROL_FLOW_REQUEST"
           p == Own(type, key, 0, 0)
<1>1. ~ IsReport(p)
  BY DEF Own, IsReport
<1>2. SendFlowRequest(s, key) = s \/ SendFlowRequest(s, key) = GetAndEnqueue(s, p)
  BY DEF SendFlowRequest
<1> HIDE DEF p
<1> QED
  BY <1>1, <1>2, GetQuiet, QuietAll

\* A report is kept only if it has no route.
LEMMA StoreReports ==
  ASSUME NEW s, NEW n, Fit(s, n), NEW p, IsPacket(p)
  PROVE  LET t == StorePacket(s, p)
         IN  /\ t.win = s.win /\ t.phase = s.phase /\ t.table = s.table
             /\ t.sendQ = s.sendQ
             /\ ~ IsReport(p) => KeptReports(t.keep) \subseteq KeptReports(s.keep)
<1> DEFINE f == First({i \in DOMAIN s.keep : s.keep[i] = <<>>})
           keep == [s.keep EXCEPT ![f] = p]
           u == [s EXCEPT !.keep[f] = p, !.pool = @ - 1]
<1>1. StorePacket(s, p) = s \/ StorePacket(s, p) = u
  BY DEF StorePacket
<1> HIDE DEF f
<1>2. /\ u.keep = keep /\ u.win = s.win /\ u.phase = s.phase
      /\ u.table = s.table /\ u.sendQ = s.sendQ
  BY DEF Fit, Parts, Fields
<1> HIDE DEF u
<1>3. ~ IsReport(p) => KeptReports(keep) \subseteq KeptReports(s.keep)
  BY DEF KeptReports, KeptAt
<1> HIDE DEF keep
<1> QED
  BY <1>1, <1>2, <1>3

LEMMA UnknownSingle ==
  ASSUME NEW s, NEW n, Fit(s, n), Single(s), NEW p, IsPacket(p),
         RouteKey(p) \notin DOMAIN s.table,
         IsReport(p) => Stuck(s.table)
  PROVE  /\ Single(UnknownRoute(s, p))
         /\ ReportsIn(UnknownRoute(s, p).sendQ) = ReportsIn(s.sendQ)
         /\ UnknownRoute(s, p).win = s.win
<1> DEFINE u == StorePacket(s, p)
           v == SendFlowRequest(u, RouteKey(p))
<1>1. Fit(u, n) /\ Keeps(s, u)
  BY StoreFit
<1>2. /\ u.win = s.win /\ u.phase = s.phase /\ u.table = s.table
      /\ u.sendQ = s.sendQ
      /\ ~ IsReport(p) => KeptReports(u.keep) \subseteq KeptReports(s.keep)
  BY StoreReports
<1>3. UnknownRoute(s, p) = u \/ UnknownRoute(s, p) = v
  BY DEF UnknownRoute
<1> HIDE DEF u
<1>4. Single(u)
  BY <1>2 DEF Single
<1>5. Fit(v, n) /\ Keeps(u, v) /\ v.win = u.win
  BY <1>1, FlowRequestFit
<1>6. Quiet(u, v)
  BY <1>1, FlowRequestQuiet
<1> HIDE DEF v
<1>7. Single(v)
  BY <1>1, <1>4, <1>5, <1>6, SingleKept
<1> QED
  BY <1>2, <1>3, <1>4, <1>5, <1>6, <1>7 DEF Quiet

\* None of the packets that get their route is a report: a report is kept
\* only while no entry can be made for the controller's flow.
LEMMA InsertQuiet ==
  ASSUME NEW s, NEW n, Fit(s, n), NEW key, NEW act \in Actions,
         KeptReports(s.keep) # {} => Stuck(s.table)
  PROVE  Quiet(s, Insert(s, key, act))
<1> DEFINE t == Insert(s, key, act)
<1>1. /\ t.phase = s.phase /\ t.win = s.win
      /\ t = s \/ (HasRoom(s, key) /\ Moved(s, t, key))
  BY InsertFit
<1> HIDE DEF t
<1>2. CASE t = s
  BY <1>2, QuietAll DEF t
<1>3. CASE HasRoom(s, key) /\ Moved(s, t, key)
  <2>1. ASSUME NEW j \in KeptAt(s.keep), RouteKey(s.keep[j]) = key
        PROVE  ~ IsReport(s.keep[j])
    <3> SUFFICES ASSUME IsReport(s.keep[j]) PROVE FALSE
      OBVIOUS
    <3>1. key = CtrlFlow
      BY <2>1 DEF RouteKey, IsReport, ByFlow
    <3>2. Stuck(s.table)
      BY DEF KeptReports
    <3> QED
      BY <1>3, <3>1, <3>2, SdnNodeAssumption DEF HasRoom, Stuck
  <2>2. /\ ReportsIn(t.sendQ) = ReportsIn(s.sendQ)
        /\ \A i \in ReportsIn(s.sendQ) : t.sendQ[i] = s.sendQ[i]
    BY <1>3, <2>1 DEF Moved, ReportsIn
  <2>3. KeptReports(t.keep) \subseteq KeptReports(s.keep)
    BY <1>3 DEF Moved, KeptReports
  <2> QED
    BY <1>1, <2>2, <2>3 DEF Quiet, t
<1> QED
  BY <1>1, <1>2, <1>3

LEMMA WinQuiet ==
  ASSUME NEW s, NEW n, Fit(s, n), NEW w,
         Awaits(s.win) => Awaits(w) /\ LiveReports(w) \subseteq LiveReports(s.win)
  PROVE  Quiet(s, [s EXCEPT !.win = w])
<1> DEFINE t == [s EXCEPT !.win = w]
<1>1. t.win = w /\ t.sendQ = s.sendQ /\ t.keep = s.keep /\ t.phase = s.phase
  BY DEF Fit, Parts, Fields
<1> HIDE DEF t
<1> QED
  BY <1>1 DEF Quiet, t

\* The awaited report is given up before the new one is queued.
LEMMA ReportSingle ==
  ASSUME NEW s, NEW n, Fit(s, n), Single(s), s.phase = "STEADY", NEW seq, NEW ver
  PROVE  Single(SendNeighborReport(s, seq, ver))
<1> DEFINE w == Purge(s.win, "NEIGHBOR_REPORT")
           v == [s EXCEPT !.win = w]
           f == First(QueuedReports(s))
           p == Rewritten(s.sendQ[f], seq, ver)
           q == [s.sendQ EXCEPT ![f] = p]
           u == [v EXCEPT !.sendQ = q]
           g == GetAndEnqueue(v, Report(seq, ver))
<1>1. IsWindow(w) /\ Awaits(w) /\ LiveReports(w) = {}
  <2>1. IsWindow(s.win) /\ Awaits(s.win)
    BY DEF Fit, Parts, Single
  <2> QED
    BY <2>1, RemoveMatchWindow, PurgeAwaits DEF Purge
<1> HIDE DEF w
<1>2. /\ Fit(v, n) /\ v.win = w /\ v.sendQ = s.sendQ /\ v.phase = s.phase
  BY <1>1, WinFit
<1>3. v.keep = s.keep /\ v.table = s.table
  BY DEF Fit, Parts, Fields
<1> HIDE DEF v
<1>4. QueuedReports(s) = ReportsIn(s.sendQ)
  BY DEF QueuedReports, ReportsIn, IsReport
<1>5. CASE QueuedReports(s) # {}
  <2>1. SendNeighborReport(s, seq, ver) = u
    BY <1>2, <1>5 DEF SendNeighborReport, v, w
  <2>2. f \in ReportsIn(s.sendQ)
    <3>1. IsSeq(s.sendQ)
      BY DEF Fit, Parts, IsQueue
    <3>2. QueuedReports(s) \subseteq Nat
      BY <1>4, <3>1, SeqLen DEF ReportsIn
    <3> QED
      BY <1>4, <1>5, <3>2, FirstIn
  <2> HIDE DEF f
  <2>3. IsPacket(s.sendQ[f])
    BY <2>2 DEF Fit, Parts, IsQueue, ReportsIn
  <2>4. /\ p.type = s.sendQ[f].type /\ p.own = s.sendQ[f].own
        /\ p.key = s.sendQ[f].key
    BY <2>3 DEF Rewritten, IsPacket
  <2> HIDE DEF p
  <2>5. /\ DOMAIN q = DOMAIN s.sendQ
        /\ \A i \in DOMAIN q : q[i] = IF i = f THEN p ELSE s.sendQ[i]
    <3>1. IsSeq(s.sendQ)
      BY DEF Fit, Parts, IsQueue
    <3>2. PICK S : s.sendQ \in Seq(S)
      BY <3>1 DEF IsSeq
    <3> QED
      BY <3>2
  <2> HIDE DEF q
  <2>6. /\ ReportsIn(q) = ReportsIn(s.sendQ)
        /\ \A i \in ReportsIn(q) : q[i].key = s.sendQ[i].key
    BY <2>2, <2>4, <2>5 DEF ReportsIn, IsReport
  <2>7. /\ u.sendQ = q /\ u.win = v.win /\ u.keep = v.keep /\ u.phase = v.phase
        /\ u.table = v.table
    BY <1>2 DEF Fit, Parts, Fields
  <2> HIDE DEF u
  <2>8. Single(u)
    BY <1>1, <1>2, <1>3, <2>6, <2>7 DEF Single
  <2> QED
    BY <2>1, <2>8
<1>6. CASE QueuedReports(s) = {}
  <2>1. SendNeighborReport(s, seq, ver) = s \/ SendNeighborReport(s, seq, ver) = g
    BY <1>6 DEF SendNeighborReport, v, w
  <2> DEFINE r == Report(seq, ver)
  <2>2. r.key = CtrlFlow
    BY DEF Report, Own
  <2> HIDE DEF r
  <2>3. /\ g.win = v.win /\ g.keep = v.keep /\ g.phase = v.phase
        /\ g.table = v.table
        /\ g.sendQ = v.sendQ \/ g.sendQ = Append(v.sendQ, r)
    BY <1>2, GetReports DEF r
  <2> HIDE DEF g
  <2>4. /\ \A i, j \in ReportsIn(g.sendQ) : i = j
        /\ \A i \in ReportsIn(g.sendQ) : g.sendQ[i].key = CtrlFlow
    <3>1. CASE g.sendQ = s.sendQ
      BY <1>4, <1>6, <3>1
    <3>2. CASE g.sendQ = Append(s.sendQ, r)
      <4>1. IsSeq(s.sendQ) /\ g.sendQ = Queued(s.sendQ, r)
        BY <3>2 DEF Fit, Parts, IsQueue, Queued
      <4>2. /\ ReportsIn(g.sendQ) \subseteq ReportsIn(s.sendQ) \cup {Len(s.sendQ) + 1}
            /\ g.sendQ[Len(s.sendQ) + 1] = r
        BY <4>1, AppendReports
      <4> QED
        BY <1>4, <1>6, <2>2, <4>2
    <3> QED
      BY <1>2, <2>3, <3>1, <3>2
  <2>5. Single(g)
    BY <1>1, <1>2, <1>3, <2>3, <2>4 DEF Single
  <2> QED
    BY <2>1, <2>5
<1> QED
  BY <1>5, <1>6

LEMMA SetupQuiet ==
  ASSUME NEW s, NEW n, Fit(s, n), NEW type, NEW key
  PROVE  Quiet(s, [s EXCEPT !.win = RcvSetup(@, type, key)])
<1> DEFINE w == RcvSetup(s.win, type, key)
           S == {i \in Slots : s.win.pkt[i].type = type /\ s.win.pkt[i].key = key}
<1>1. w = RemoveMatch(s.win, S) /\ S \subseteq Slots
  BY DEF RcvSetup
<1> HIDE DEF S
<1>2. Awaits(s.win) => Awaits(w) /\ LiveReports(w) \subseteq LiveReports(s.win)
  BY <1>1, RemoveMatchAwaits DEF Fit, Parts
<1> HIDE DEF w
<1>3. Quiet(s, [s EXCEPT !.win = w])
  BY <1>2, WinQuiet
<1> QED
  BY <1>3 DEF w

LEMMA DataSetupSingle ==
  ASSUME NEW s, NEW n, Fit(s, n), Single(s), NEW p, p.act \in Actions, NEW seq
  PROVE  Single(TreatDataFlowSetup(s, p, seq))
<1> DEFINE w == RcvSetup(s.win, "DATA_FLOW_REQUEST", p.key)
           u == [s EXCEPT !.win = w]
           ack == Own("ACK_BY_FLOW_ID", p.key, 0, 0)
           acked == GetAndEnqueue(u, ack)
           done == Insert(acked, p.key, p.act)
           steady == [done EXCEPT !.phase = "STEADY"]
           t == SendNeighborReport(steady, seq, nbrs)
<1>1. TreatDataFlowSetup(s, p, seq) = IF EndsWait(s, p) THEN t ELSE done
  BY DEF TreatDataFlowSetup
<1>2. Quiet(s, u)
  BY SetupQuiet
<1>3. IsWindow(w)
  BY RemoveMatchWindow DEF RcvSetup, Fit, Parts
<1> HIDE DEF w
<1>4. Fit(u, n) /\ Keeps(s, u)
  BY <1>3, WinFit
<1> HIDE DEF u
<1>5. IsPacket(ack) /\ ~ IsReport(ack)
  BY OwnPacket DEF ByFlow, IsReport, Own
<1> HIDE DEF ack
<1>6. Fit(acked, n) /\ Keeps(u, acked) /\ Quiet(u, acked)
  BY <1>4, <1>5, GetFit, GetQuiet
<1> HIDE DEF acked
<1>7. Single(acked)
  BY <1>2, <1>4, <1>6, SingleKept, QuietTwice, KeepsTwice
<1>8. Fit(done, n) /\ Keeps(acked, done) /\ Quiet(acked, done)
  BY <1>6, <1>7, InsertFit, InsertQuiet DEF Single
<1> HIDE DEF done
<1>9. Single(done)
  BY <1>6, <1>7, <1>8, SingleKept
<1>10. /\ Fit(steady, n) /\ steady.phase = "STEADY"
  BY <1>8, PhaseFit
<1>11. Single(steady)
  <2>1. /\ steady.sendQ = done.sendQ /\ steady.win = done.win
        /\ steady.keep = done.keep /\ steady.table = done.table
    BY <1>8 DEF Fit, Parts, Fields
  <2> HIDE DEF steady
  <2> QED
    BY <1>9, <1>10, <2>1 DEF Single
<1> HIDE DEF steady
<1>12. Single(t)
  BY <1>10, <1>11, ReportSingle
<1> QED
  BY <1>1, <1>9, <1>12

LEMMA ControlSetupSingle ==
  ASSUME NEW s, NEW n, Fit(s, n), Single(s), NEW p, p.act \in Actions
  PROVE  Single(TreatControlFlowSetup(s, p))
<1> DEFINE done == Insert(s, p.key, p.act)
           w == RcvSetup(done.win, "CONTROL_FLOW_REQUEST", p.key)
           u == [done EXCEPT !.win = w]
           ack == Own("ACK_BY_FLOW_ID", p.key, 0, 0)
           t == GetAndEnqueue(u, ack)
<1>1. TreatControlFlowSetup(s, p) = t
  BY DEF TreatControlFlowSetup
<1>2. Fit(done, n) /\ Keeps(s, done) /\ Quiet(s, done)
  BY InsertFit, InsertQuiet DEF Single
<1> HIDE DEF done
<1>3. Quiet(done, u)
  BY <1>2, SetupQuiet
<1>4. IsWindow(w)
  BY <1>2, RemoveMatchWindow DEF RcvSetup, Fit, Parts
<1> HIDE DEF w
<1>5. Fit(u, n) /\ Keeps(done, u)
  BY <1>2, <1>4, WinFit
<1> HIDE DEF u
<1>6. IsPacket(ack) /\ ~ IsReport(ack)
  BY OwnPacket DEF ByFlow, IsReport, Own
<1> HIDE DEF ack
<1>7. Fit(t, n) /\ Keeps(u, t) /\ Quiet(u, t)
  BY <1>5, <1>6, GetFit, GetQuiet
<1> HIDE DEF t
<1>8. Keeps(s, t) /\ Quiet(s, t)
  BY <1>2, <1>3, <1>5, <1>7, KeepsTwice, QuietTwice
<1> QED
  BY <1>1, <1>7, <1>8, SingleKept

LEMMA ExecuteSingle ==
  ASSUME NEW s, NEW n, Fit(s, n), Steady(s), Single(s), NEW p, IsPacket(p), NEW seq
  PROVE  Single(ExecuteReceive(s, p, seq))
<1> DEFINE t == ExecuteReceive(s, p, seq)
           Queue(via) == GetAndEnqueue(s, [p EXCEPT !.via = via])
           S == {i \in Slots : s.win.pkt[i].type = p.act /\ s.win.pkt[i].seq = p.seq}
           w == RcvAck(s.win, p.act, p.seq)
           acked == [s EXCEPT !.win = w]
<1>1. t \in {TreatFlowSetup(s, p, seq), Queue("ADDR"), Queue("NEXT"), acked, s}
  BY DEF ExecuteReceive
<1>2. IsSetup(p) => Single(TreatFlowSetup(s, p, seq))
  BY DataSetupSingle, ControlSetupSingle DEF TreatFlowSetup, IsPacket
<1>3. ~ IsSetup(p) => t \in {Queue("NEXT"), acked, s}
  BY DEF ExecuteReceive
<1>4. IsReport(p) => t = s
  BY DEF IsReport, ExecuteReceive, Via, IsSetup, ByFlow
<1>5. ASSUME NEW via, ~ IsReport(p) PROVE Single(Queue(via))
  <2>1. IsPacket([p EXCEPT !.via = via]) /\ ~ IsReport([p EXCEPT !.via = via])
    BY <1>5, ViaPacket DEF IsReport, IsPacket
  <2>2. Fit(Queue(via), n) /\ Keeps(s, Queue(via)) /\ Quiet(s, Queue(via))
    BY <2>1, GetFit, GetQuiet
  <2> QED
    BY <2>2, SingleKept
<1>6. Single(acked)
  <2>1. w = RemoveMatch(s.win, S) /\ S \subseteq Slots
    BY DEF RcvAck
  <2> HIDE DEF S
  <2>2. /\ IsWindow(w) /\ Awaits(w) /\ LiveReports(w) \subseteq LiveReports(s.win)
    BY <2>1, RemoveMatchWindow, RemoveMatchAwaits DEF Fit, Parts, Single
  <2> HIDE DEF w
  <2>3. Fit(acked, n) /\ Keeps(s, acked) /\ Quiet(s, acked)
    BY <2>2, WinFit, WinQuiet
  <2> QED
    BY <2>3, SingleKept
<1> HIDE DEF Queue, acked, t
<1>7. Single(t)
  BY <1>1, <1>2, <1>3, <1>4, <1>5, <1>6
<1> QED
  BY <1>7 DEF t

\* A report that is treated here was queued while the wait for the controller
\* was over; it is kept if the tables have no room for the route.
LEMMA TreatSingle ==
  ASSUME NEW s, NEW n, Fit(s, n), Steady(s), Single(s), NEW p, IsPacket(p),
         IsReport(p) => s.phase = "STEADY", NEW seq
  PROVE  Single(Treat(s, p, seq))
<1>1. CASE Action(s, p) = "RECEIVE"
  BY <1>1, ExecuteSingle DEF Treat
<1>2. CASE Action(s, p) = "UNKNOWN"
  <2>1. RouteKey(p) \notin DOMAIN s.table
    BY <1>2 DEF Action, Fit, Parts, IsTable, Actions
  <2>2. IsReport(p) => RouteKey(p) = CtrlFlow
    BY DEF IsReport, RouteKey, ByFlow
  <2>3. IsReport(p) => Stuck(s.table)
    BY <2>1, <2>2 DEF Steady, Routed, Stuck
  <2>4. Single(UnknownRoute(s, p))
    BY <2>1, <2>3, UnknownSingle
  <2> QED
    BY <1>2, <2>4 DEF Treat
<1>3. CASE Action(s, p) \notin {"RECEIVE", "UNKNOWN"}
  BY <1>3 DEF Treat
<1> QED
  BY <1>1, <1>2, <1>3

\* The reports behind the head of the queue move up.
LEMMA DequeueReports ==
  ASSUME NEW s, NEW n, Fit(s, n), s.sendQ # <<>>
  PROVE  LET t == DequeueHead(s)
         IN  /\ \A i \in ReportsIn(t.sendQ) :
                  /\ i + 1 \in ReportsIn(s.sendQ) /\ i \in Nat \ {0}
                  /\ t.sendQ[i] = s.sendQ[i + 1]
             /\ t.win = s.win /\ t.keep = s.keep /\ t.phase = s.phase
             /\ t.table = s.table
<1> DEFINE q == Tail(s.sendQ)
           u == [s EXCEPT !.sendQ = q, !.pool = @ + 1, !.status = "IDLE"]
<1>1. DequeueHead(s) = DownOnce(u)
  BY DEF DequeueHead
<1>2. /\ DOMAIN u = Fields /\ u.sendQ = q /\ u.keep = s.keep /\ u.win = s.win
      /\ u.table = s.table /\ u.phase = s.phase
  BY DEF Fit, Parts, Fields
<1> HIDE DEF u
<1>3. /\ DownOnce(u).sendQ = u.sendQ /\ DownOnce(u).keep = u.keep
      /\ DownOnce(u).win = u.win /\ DownOnce(u).table = u.table
      /\ DownOnce(u).phase = u.phase
  BY <1>2 DEF DownOnce, Fields
<1>4. /\ IsSeq(q)
      /\ \A i \in DOMAIN q : i + 1 \in DOMAIN s.sendQ /\ q[i] = s.sendQ[i + 1]
  BY SeqTail DEF Fit, Parts, IsQueue
<1> HIDE DEF q
<1>5. DOMAIN q \subseteq Nat \ {0}
  BY <1>4, SeqLen
<1> QED
  BY <1>1, <1>2, <1>3, <1>4, <1>5 DEF ReportsIn

LEMMA DequeueSingle ==
  ASSUME NEW s, NEW n, Fit(s, n), Single(s), s.sendQ # <<>>
  PROVE  Single(DequeueHead(s))
<1> DEFINE t == DequeueHead(s)
<1>1. /\ \A i \in ReportsIn(t.sendQ) :
           /\ i + 1 \in ReportsIn(s.sendQ) /\ i \in Nat \ {0}
           /\ t.sendQ[i] = s.sendQ[i + 1]
      /\ t.win = s.win /\ t.keep = s.keep /\ t.phase = s.phase
      /\ t.table = s.table
  BY DequeueReports
<1> HIDE DEF t
<1>2. \A i, j \in ReportsIn(t.sendQ) : i = j
  <2> SUFFICES ASSUME NEW i \in ReportsIn(t.sendQ), NEW j \in ReportsIn(t.sendQ)
               PROVE  i = j
    OBVIOUS
  <2>1. i + 1 = j + 1
    BY <1>1 DEF Single
  <2> QED
    BY <1>1, <2>1
<1>3. ReportsIn(t.sendQ) # {} => ReportsIn(s.sendQ) # {}
  BY <1>1
<1>4. \A i \in ReportsIn(t.sendQ) : t.sendQ[i].key = CtrlFlow
  BY <1>1 DEF Single
<1> QED
  BY <1>1, <1>2, <1>3, <1>4 DEF Single, t

----------------------------------------------------------------------------
(* The actions                                                             *)

LEMMA InitReports == Init => Single(node) /\ NoneOwn(node.recvQ)
<1> SUFFICES ASSUME Init PROVE Single(node) /\ NoneOwn(node.recvQ)
  OBVIOUS
<1>1. /\ node.sendQ = <<>> /\ node.recvQ = <<>>
      /\ node.keep = [i \in 1 .. KeepMax |-> <<>>] /\ node.win = EmptyWindow
  BY DEF Init
<1>2. DOMAIN <<>> = {}
  OBVIOUS
<1>3. ReportsIn(node.sendQ) = {} /\ KeptReports(node.keep) = {}
  BY <1>1, <1>2 DEF ReportsIn, KeptReports, KeptAt
<1>4. ReportSlots(EmptyWindow) = {} /\ LiveReports(EmptyWindow) = {}
  BY DEF ReportSlots, LiveReports, EmptyWindow, Blank
<1>5. Awaits(EmptyWindow)
  <2>1. \A i \in Slots : ~ (i < 0)
    BY SlotsNat
  <2>2. EmptyWindow.count = 0
    BY DEF EmptyWindow
  <2> QED
    BY <1>4, <2>1, <2>2 DEF Awaits
<1> QED
  BY <1>1, <1>2, <1>3, <1>4, <1>5 DEF Single, NoneOwn

LEMMA AppSendReports ==
  ASSUME NodeInv, Single(node), NEW f, AppSend(f)
  PROVE  Single(node') /\ node'.recvQ = node.recvQ
<1> DEFINE p == Own("DATA", f, 0, 0)
           t == GetAndEnqueue(node, p)
<1>1. IsPacket(p) /\ ~ IsReport(p)
  BY OwnPacket DEF ByFlow, IsReport, Own
<1>2. node' = t
  BY DEF AppSend
<1> HIDE DEF p
<1>3. Fit(t, PoolSize) /\ Keeps(node, t) /\ Quiet(node, t)
  BY <1>1, GetFit, GetQuiet DEF NodeInv, Sound
<1> HIDE DEF t
<1> QED
  BY <1>2, <1>3, SingleKept DEF NodeInv, Sound, Keeps

LEMMA RegisterFlowReports ==
  ASSUME NodeInv, Single(node), NEW f, RegisterFlow(f)
  PROVE  Single(node') /\ node'.recvQ = node.recvQ
<1> DEFINE entered == Insert(node, f, "RECEIVE")
           p == Own("REGISTER_FLOWID", f, FreshSeq, 0)
           t == GetAndEnqueue(entered, p)
<1>1. node' \in {t, node}
  BY DEF RegisterFlow
<1>2. /\ Fit(entered, PoolSize) /\ Keeps(node, entered) /\ Quiet(node, entered)
  BY InsertFit, InsertQuiet DEF NodeInv, Sound, Actions, Single
<1> HIDE DEF entered
<1>3. IsPacket(p) /\ ~ IsReport(p)
  BY OwnPacket DEF ByFlow, IsReport, Own
<1> HIDE DEF p
<1>4. Fit(t, PoolSize) /\ Keeps(entered, t) /\ Quiet(entered, t)
  BY <1>2, <1>3, GetFit, GetQuiet
<1> HIDE DEF t
<1>5. Keeps(node, t) /\ Quiet(node, t)
  BY <1>2, <1>4, KeepsTwice, QuietTwice
<1>6. Single(t) /\ t.recvQ = node.recvQ
  BY <1>4, <1>5, SingleKept DEF NodeInv, Sound, Keeps
<1> QED
  BY <1>1, <1>6

LEMMA NdEventReports ==
  ASSUME NodeInv, Single(node), NdEvent
  PROVE  Single(node') /\ node'.recvQ = node.recvQ
<1> DEFINE t == SendNeighborReport(node, FreshSeq, nbrs')
           u == [node EXCEPT !.owed = TRUE]
<1>1. (node' = t /\ node.phase = "STEADY") \/ node' = u
  BY DEF NdEvent
<1>2. CASE node' = t /\ node.phase = "STEADY"
  <2>1. Keeps(node, t)
    BY ReportFit DEF NodeInv, Sound
  <2>2. Single(t)
    BY <1>2, ReportSingle DEF NodeInv, Sound
  <2> HIDE DEF t
  <2> QED
    BY <1>2, <2>1, <2>2 DEF Keeps
<1>3. CASE node' = u
  <2>1. Fit(u, PoolSize) /\ Keeps(node, u)
    BY OwedFit DEF NodeInv, Sound
  <2>2. u.sendQ = node.sendQ /\ u.win = node.win /\ u.keep = node.keep
        /\ u.phase = node.phase
    BY DEF NodeInv, Sound, Fit, Parts, Fields
  <2> HIDE DEF u
  <2>3. Quiet(node, u)
    BY <2>2 DEF Quiet
  <2> QED
    BY <1>3, <2>1, <2>3, SingleKept DEF NodeInv, Sound, Keeps
<1> QED
  BY <1>1, <1>2, <1>3

LEMMA CdEventReports ==
  ASSUME NodeInv, Single(node), CdEvent
  PROVE  Single(node') /\ node'.recvQ = node.recvQ
<1> DEFINE steady == [node EXCEPT !.phase = "STEADY"]
           found == Insert(steady, CtrlFlow, "FORWARD")
           paid == [found EXCEPT !.owed = FALSE]
           t == SendNeighborReport(paid, FreshSeq, nbrs)
<1>1. node' \in {t, found}
  BY DEF CdEvent
<1>2. /\ Fit(steady, PoolSize) /\ Keeps(node, steady)
      /\ steady.phase = "STEADY"
  BY PhaseFit DEF NodeInv, Sound
<1>3. Single(steady)
  <2>1. /\ steady.sendQ = node.sendQ /\ steady.win = node.win
        /\ steady.keep = node.keep /\ steady.table = node.table
    BY DEF NodeInv, Sound, Fit, Parts, Fields
  <2> HIDE DEF steady
  <2> QED
    BY <1>2, <2>1 DEF Single
<1> HIDE DEF steady
<1>4. /\ Fit(found, PoolSize) /\ Keeps(steady, found) /\ Quiet(steady, found)
      /\ found.phase = "STEADY"
  BY <1>2, <1>3, InsertFit, InsertQuiet DEF Actions, Single
<1> HIDE DEF found
<1>5. Single(found)
  BY <1>2, <1>3, <1>4, SingleKept
<1>6. Fit(paid, PoolSize) /\ Keeps(found, paid) /\ paid.phase = "STEADY"
  BY <1>4, OwedFit
<1>7. Single(paid)
  <2>1. /\ paid.sendQ = found.sendQ /\ paid.win = found.win
        /\ paid.keep = found.keep /\ paid.table = found.table
    BY <1>4 DEF Fit, Parts, Fields
  <2> HIDE DEF paid
  <2> QED
    BY <1>5, <1>6, <2>1 DEF Single
<1> HIDE DEF paid
<1>8. Single(t) /\ Keeps(paid, t)
  BY <1>6, <1>7, ReportSingle, ReportFit
<1> HIDE DEF t
<1> QED
  BY <1>1, <1>2, <1>4, <1>5, <1>6, <1>8 DEF Keeps

LEMMA ReceiveReports ==
  ASSUME NodeInv, Single(node), NoneOwn(node.recvQ), NEW p, IsPacket(p), ~ p.own,
         Receive(p)
  PROVE  Single(node') /\ NoneOwn(node'.recvQ)
<1> DEFINE q == Append(node.recvQ, p)
           event == node.event \/ node.recvQ = <<>>
           t == [node EXCEPT !.pool = @ - 1, !.recvQ = q, !.event = event]
<1>1. node' \in {t, node}
  BY DEF Receive
<1> HIDE DEF event
<1>2. /\ t.recvQ = q /\ t.sendQ = node.sendQ /\ t.keep = node.keep
      /\ t.win = node.win /\ t.table = node.table /\ t.phase = node.phase
  BY DEF NodeInv, Sound, Fit, Parts, Fields
<1> HIDE DEF t
<1>3. NoneOwn(q)
  <2>1. /\ DOMAIN node.recvQ = 1 .. Len(node.recvQ) /\ Len(node.recvQ) \in Nat
        /\ DOMAIN q = 1 .. Len(node.recvQ) + 1
        /\ \A i \in DOMAIN node.recvQ : q[i] = node.recvQ[i]
        /\ q[Len(node.recvQ) + 1] = p
    BY SeqLen, SeqAppend DEF NodeInv, Sound, Fit, Parts, IsQueue
  <2> HIDE DEF q
  <2>2. \A i \in DOMAIN q : i \in DOMAIN node.recvQ \/ i = Len(node.recvQ) + 1
    BY <2>1
  <2> QED
    BY <2>1, <2>2 DEF NoneOwn
<1>4. Single(t)
  BY <1>2 DEF Single
<1> QED
  BY <1>1, <1>2, <1>3, <1>4

LEMMA CoreStepReports ==
  ASSUME NodeInv, Single(node), NoneOwn(node.recvQ), CoreStep
  PROVE  Single(node') /\ NoneOwn(node'.recvQ)
<1> DEFINE p == Head(node.recvQ)
           q == Tail(node.recvQ)
           popped == [node EXCEPT !.recvQ = q]
           sent == GetAndEnqueue(popped, p)
           treated == Treat(popped, p, FreshSeq)
           done == IF Action(popped, p) = "FORWARD" THEN sent ELSE treated
           event == done.recvQ # <<>>
           t == [done EXCEPT !.pool = @ + 1, !.event = event]
<1>1. node' = t /\ node.recvQ # <<>>
  BY DEF CoreStep, NodeInv, Sound
<1>2. IsQueue(node.recvQ) /\ IsSeq(node.recvQ)
  BY DEF NodeInv, Sound, Fit, Parts, IsQueue
<1>3. /\ IsPacket(p) /\ ~ IsReport(p) /\ IsQueue(q) /\ NoneOwn(q)
      /\ Len(q) = Len(node.recvQ) - 1 /\ Len(node.recvQ) \in Nat \ {0}
  <2>1. /\ IsSeq(q) /\ Len(q) = Len(node.recvQ) - 1 /\ Len(node.recvQ) \in Nat \ {0}
        /\ 1 \in DOMAIN node.recvQ /\ p = node.recvQ[1]
        /\ \A i \in DOMAIN q : i + 1 \in DOMAIN node.recvQ /\ q[i] = node.recvQ[i + 1]
    BY <1>1, <1>2, SeqTail
  <2> HIDE DEF p, q
  <2> QED
    BY <1>2, <2>1 DEF IsQueue, NoneOwn, IsReport
<1> HIDE DEF p, q
<1>4. /\ DOMAIN popped = Fields /\ popped.recvQ = q
      /\ popped.status = node.status /\ popped.sendQ = node.sendQ
      /\ popped.keep = node.keep /\ popped.pool = node.pool /\ popped.win = node.win
      /\ popped.table = node.table /\ popped.phase = node.phase
  BY DEF NodeInv, Sound, Fit, Parts, Fields
<1> HIDE DEF popped
<1>5. Held(popped) = PoolSize - 1
  <2> DEFINE a == node.pool
             b == Len(node.sendQ)
             c == Len(node.recvQ)
             e == Cardinality(KeptAt(node.keep))
  <2>1. Held(popped) = a + b + (c - 1) + e
    BY <1>3, <1>4 DEF Held
  <2>2. a \in Nat /\ b \in Nat /\ c \in Nat /\ e \in Nat /\ PoolSize = a + b + c + e
    BY HeldTypes DEF NodeInv, Sound, Fit
  <2> HIDE DEF a, b, c, e
  <2> QED
    BY <2>1, <2>2
<1>6. Parts(popped, PoolSize - 1)
  BY <1>3, <1>4, <1>5 DEF NodeInv, Sound, Fit, Parts
<1>7. /\ Fit(popped, PoolSize - 1) /\ Steady(popped)
  BY <1>4, <1>6 DEF NodeInv, Sound, Fit, Awake, NoneWaits, Steady, Routed
<1>8. Single(popped)
  BY <1>4 DEF Single
<1>9. Fit(sent, PoolSize - 1) /\ Keeps(popped, sent) /\ Single(sent)
  <2>1. Fit(sent, PoolSize - 1) /\ Keeps(popped, sent) /\ Quiet(popped, sent)
    BY <1>3, <1>7, GetFit, GetQuiet
  <2> QED
    BY <1>7, <1>8, <2>1, SingleKept
<1>10. Fit(treated, PoolSize - 1) /\ Keeps(popped, treated) /\ Single(treated)
  BY <1>3, <1>7, <1>8, TreatFit, TreatSingle
<1> HIDE DEF sent, treated
<1>11. Fit(done, PoolSize - 1) /\ Keeps(popped, done) /\ Single(done)
  BY <1>9, <1>10
<1> HIDE DEF done, event
<1>12. /\ t.sendQ = done.sendQ /\ t.recvQ = done.recvQ /\ t.keep = done.keep
       /\ t.win = done.win /\ t.table = done.table /\ t.phase = done.phase
  BY <1>11 DEF Fit, Parts, Fields
<1> HIDE DEF t
<1>13. Single(t)
  BY <1>11, <1>12 DEF Single
<1>14. t.recvQ = q
  BY <1>4, <1>11, <1>12 DEF Keeps
<1> QED
  BY <1>1, <1>3, <1>13, <1>14

LEMMA SendStepReports ==
  ASSUME NodeInv, Single(node), SendStep
  PROVE  Single(node') /\ node'.recvQ = node.recvQ
<1> DEFINE p == Head(node.sendQ)
<1>1. /\ node.sendQ # <<>> /\ IsPacket(p)
      /\ IsReport(p) => node.phase = "STEADY"
  <2>1. node.sendQ # <<>>
    BY DEF NodeInv, Sound, Fit, Awake, SendStep
  <2>2. 1 \in DOMAIN node.sendQ /\ p = node.sendQ[1]
    BY <2>1, SeqTail DEF NodeInv, Sound, Fit, Parts, IsQueue
  <2> HIDE DEF p
  <2>3. IsReport(p) => 1 \in ReportsIn(node.sendQ)
    BY <2>2 DEF ReportsIn
  <2> QED
    BY <2>1, <2>2, <2>3 DEF NodeInv, Sound, Fit, Parts, IsQueue, Single
<1>2. CASE Action(node, p) = "FORWARD"
  <2> DEFINE t == [node EXCEPT !.status = "ACK_WAIT"]
  <2>1. node' = t
    BY <1>2 DEF SendStep
  <2>2. /\ t.sendQ = node.sendQ /\ t.recvQ = node.recvQ
        /\ t.keep = node.keep /\ t.win = node.win
        /\ t.table = node.table /\ t.phase = node.phase
    BY DEF NodeInv, Sound, Fit, Parts, Fields
  <2> HIDE DEF t
  <2>3. Single(t)
    BY <2>2 DEF Single
  <2> QED
    BY <2>1, <2>2, <2>3
<1>3. CASE Action(node, p) # "FORWARD"
  <2> DEFINE u == Treat(node, p, FreshSeq)
             t == DequeueHead(u)
  <2>1. node' = t
    BY <1>3 DEF SendStep
  <2> HIDE DEF p
  <2>2. Fit(u, PoolSize) /\ Keeps(node, u) /\ Single(u)
    BY <1>1, TreatFit, TreatSingle DEF NodeInv, Sound
  <2> HIDE DEF u
  <2>3. u.sendQ # <<>> /\ u.recvQ = node.recvQ
    BY <1>1, <2>2 DEF Keeps
  <2>4. Single(t) /\ t.recvQ = u.recvQ
    BY <2>2, <2>3, DequeueFit, DequeueSingle
  <2> HIDE DEF t
  <2> QED
    BY <2>1, <2>3, <2>4
<1> QED
  BY <1>2, <1>3

\* The report leaves the queue and is awaited.
LEMMA MacDoneReports ==
  ASSUME NodeInv, Single(node), MacDone
  PROVE  Single(node') /\ node'.recvQ = node.recvQ
<1> DEFINE p == Head(node.sendQ)
           w == AwaitAck(node.win, p)
           u == [node EXCEPT !.win = w]
           t == DequeueHead(u)
<1>1. node' = t
  BY DEF MacDone
<1>2. /\ node.sendQ # <<>> /\ IsPacket(p)
      /\ IsReport(p) => 1 \in ReportsIn(node.sendQ) /\ p.key = CtrlFlow
  <2>1. node.sendQ # <<>>
    BY DEF NodeInv, Sound, Fit, Awake, MacDone
  <2>2. 1 \in DOMAIN node.sendQ /\ p = node.sendQ[1]
    BY <2>1, SeqTail DEF NodeInv, Sound, Fit, Parts, IsQueue
  <2> HIDE DEF p
  <2>3. IsReport(p) => 1 \in ReportsIn(node.sendQ)
    BY <2>2 DEF ReportsIn
  <2> QED
    BY <2>1, <2>2, <2>3 DEF NodeInv, Sound, Fit, Parts, IsQueue, Single
<1> HIDE DEF p
<1>3. /\ IsWindow(w) /\ Awaits(w)
      /\ ~ IsReport(p) => LiveReports(w) \subseteq LiveReports(node.win)
  <2>1. IsWindow(node.win) /\ Awaits(node.win)
    BY DEF NodeInv, Sound, Fit, Parts, Single
  <2> QED
    BY <1>2, <2>1, AwaitAckWindow, AwaitAckAwaits
<1> HIDE DEF w
<1>4. /\ Fit(u, PoolSize) /\ u.win = w /\ u.phase = node.phase
      /\ u.sendQ = node.sendQ
  BY <1>3, WinFit DEF NodeInv, Sound
<1>5. u.keep = node.keep /\ u.table = node.table /\ u.recvQ = node.recvQ
  BY DEF NodeInv, Sound, Fit, Parts, Fields
<1> HIDE DEF u
<1>6. /\ \A i \in ReportsIn(t.sendQ) :
           /\ i + 1 \in ReportsIn(u.sendQ) /\ i \in Nat \ {0}
           /\ t.sendQ[i] = u.sendQ[i + 1]
      /\ t.win = u.win /\ t.keep = u.keep /\ t.phase = u.phase
      /\ t.table = u.table /\ t.recvQ = u.recvQ
  BY <1>2, <1>4, DequeueReports, DequeueFit
<1> HIDE DEF t
<1>7. \A i, j \in ReportsIn(t.sendQ) : i = j
  <2> SUFFICES ASSUME NEW i \in ReportsIn(t.sendQ), NEW j \in ReportsIn(t.sendQ)
               PROVE  i = j
    OBVIOUS
  <2>1. i + 1 = j + 1
    BY <1>4, <1>6 DEF Single
  <2> QED
    BY <1>6, <2>1
<1>8. \A i \in ReportsIn(t.sendQ) : t.sendQ[i].key = CtrlFlow
  BY <1>4, <1>6 DEF Single
<1>9. CASE IsReport(p)
  <2>1. ReportsIn(t.sendQ) = {}
    <3> SUFFICES ASSUME NEW i \in ReportsIn(t.sendQ) PROVE FALSE
      OBVIOUS
    <3>1. i + 1 = 1 /\ i \in Nat \ {0}
      BY <1>2, <1>4, <1>6, <1>9 DEF Single
    <3> QED
      BY <3>1
  <2>2. node.phase = "STEADY"
    BY <1>2, <1>9 DEF Single
  <2>3. Single(t)
    BY <1>3, <1>4, <1>5, <1>6, <2>1, <2>2 DEF Single
  <2> QED
    BY <1>1, <1>5, <1>6, <2>3
<1>10. CASE ~ IsReport(p)
  <2>1. ReportsIn(t.sendQ) # {} => ReportsIn(node.sendQ) # {}
    BY <1>4, <1>6
  <2>2. LiveReports(w) \subseteq LiveReports(node.win)
    BY <1>3, <1>10
  <2>3. Single(t)
    BY <1>3, <1>4, <1>5, <1>6, <1>7, <1>8, <2>1, <2>2 DEF Single
  <2> QED
    BY <1>1, <1>5, <1>6, <2>3
<1> QED
  BY <1>9, <1>10

\* The awaited report goes back to the queue.
LEMMA TimerReports ==
  ASSUME NodeInv, Single(node), NEW i \in Slots, Timer(i)
  PROVE  Single(node') /\ node'.recvQ = node.recvQ
<1> DEFINE p == node.win.pkt[i]
           seq == IF BySeq(p) THEN FreshSeq ELSE 0
           m == [p EXCEPT !.seq = seq]
           u == GetAndEnqueue(node, m)
           w == TimerRequeued(u.win, i, seq)
           t == [u EXCEPT !.win = w]
<1>1. node' = t /\ node.win.live[i]
  BY DEF Timer
<1> HIDE DEF seq
<1>2. /\ IsPacket(m) /\ m.type = p.type /\ m.key = p.key /\ IsWindow(node.win)
  BY <1>1, SeqPacket DEF NodeInv, Sound, Fit, Parts, IsWindow, IsPacket
<1>3. p.type = "NEIGHBOR_REPORT" => i \in LiveReports(node.win)
  BY <1>1 DEF LiveReports, ReportSlots
<1> HIDE DEF m, p
<1>4. /\ Fit(u, PoolSize) /\ Keeps(node, u)
      /\ u.win = node.win /\ u.keep = node.keep /\ u.phase = node.phase
      /\ u.table = node.table
      /\ u.sendQ = node.sendQ \/ u.sendQ = Append(node.sendQ, m)
  BY <1>2, GetFit, GetReports DEF NodeInv, Sound
<1>5. ~ IsReport(m) => Quiet(node, u)
  BY GetQuiet DEF NodeInv, Sound
<1> HIDE DEF u
<1>6. Awaits(w) /\ LiveReports(w) = LiveReports(node.win) \ {i}
  <2>1. IsWindow(u.win) /\ Awaits(u.win) /\ u.win.live[i]
    BY <1>1, <1>2, <1>4 DEF Single
  <2> QED
    BY <1>4, <2>1, TimerAwaits
<1> HIDE DEF w
<1>7. /\ t.win = w /\ t.sendQ = u.sendQ /\ t.keep = u.keep /\ t.phase = u.phase
      /\ t.table = u.table /\ t.recvQ = node.recvQ
  BY <1>4 DEF Fit, Parts, Fields, Keeps
<1> HIDE DEF t
<1>8. CASE p.type = "NEIGHBOR_REPORT"
  <2>1. /\ ReportsIn(node.sendQ) = {} /\ node.phase = "STEADY" /\ p.key = CtrlFlow
    BY <1>3, <1>8 DEF Single, Awaits, p
  <2>2. LiveReports(w) = {}
    <3> SUFFICES ASSUME NEW j \in LiveReports(node.win) PROVE j = i
      BY <1>6
    <3>1. j <= i /\ i <= j /\ i \in Nat /\ j \in Nat
      BY <1>3, <1>8, SlotsNat DEF Single, Awaits, LiveReports, ReportSlots
    <3> QED
      BY <3>1
  <2>3. /\ \A j, k \in ReportsIn(u.sendQ) : j = k
        /\ \A j \in ReportsIn(u.sendQ) : u.sendQ[j].key = CtrlFlow
    <3>1. CASE u.sendQ = node.sendQ
      BY <2>1, <3>1
    <3>2. CASE u.sendQ = Append(node.sendQ, m)
      <4>1. IsSeq(node.sendQ) /\ u.sendQ = Queued(node.sendQ, m)
        BY <3>2 DEF NodeInv, Sound, Fit, Parts, IsQueue, Queued
      <4>2. /\ ReportsIn(u.sendQ) \subseteq ReportsIn(node.sendQ) \cup {Len(node.sendQ) + 1}
            /\ u.sendQ[Len(node.sendQ) + 1] = m
        BY <4>1, AppendReports
      <4> QED
        BY <1>2, <2>1, <4>2
    <3> QED
      BY <1>4, <3>1, <3>2
  <2>4. Single(t)
    BY <1>4, <1>6, <1>7, <2>1, <2>2, <2>3 DEF Single
  <2> QED
    BY <1>1, <1>7, <2>4
<1>9. CASE p.type # "NEIGHBOR_REPORT"
  <2>1. Quiet(node, u)
    BY <1>2, <1>5, <1>9 DEF IsReport
  <2>2. Single(u)
    BY <1>4, <2>1, SingleKept DEF NodeInv, Sound
  <2>3. LiveReports(w) \subseteq LiveReports(u.win)
    BY <1>4, <1>6
  <2>4. Single(t)
    BY <1>6, <1>7, <2>2, <2>3 DEF Single
  <2> QED
    BY <1>1, <1>7, <2>4
<1> QED
  BY <1>8, <1>9

LEMMA NextReports == ReportInv /\ [Next]_vars => ReportInv'
<1> SUFFICES ASSUME ReportInv, [Next]_vars
             PROVE  Single(node') /\ NoneOwn(node'.recvQ)
  BY NextSound DEF ReportInv
<1>1. CASE \E f \in AppFlows : AppSend(f) \/ RegisterFlow(f)
  BY <1>1, AppSendReports, RegisterFlowReports DEF ReportInv
<1>2. CASE NdEvent
  BY <1>2, NdEventReports DEF ReportInv
<1>3. CASE CdEvent
  BY <1>3, CdEventReports DEF ReportInv
<1>4. CASE ReceiveInput
  BY <1>4, InputsAssumption, ReceiveReports DEF ReportInv, ReceiveInput
<1>5. CASE ReceiveAck
  <2>1. \A p : IsPacket(AckFor(p)) /\ ~ AckFor(p).own
    BY DEF AckFor, IsPacket, IsSetup
  <2> QED
    BY <1>5, <2>1, ReceiveReports DEF ReportInv, ReceiveAck
<1>6. CASE CoreStep
  BY <1>6, CoreStepReports DEF ReportInv
<1>7. CASE SendStep
  BY <1>7, SendStepReports DEF ReportInv
<1>8. CASE Lose
  BY <1>8 DEF Lose, ReportInv
<1>9. CASE MacDone
  BY <1>9, MacDoneReports DEF ReportInv
<1>10. CASE \E i \in Slots : Timer(i)
  BY <1>10, TimerReports DEF ReportInv
<1>11. CASE UNCHANGED vars
  BY <1>11 DEF vars, ReportInv
<1> QED
  BY <1>1, <1>2, <1>3, <1>4, <1>5, <1>6, <1>7, <1>8, <1>9, <1>10, <1>11 DEF Next

----------------------------------------------------------------------------
LEMMA OneOrNone ==
  ASSUME NEW S, \A i, j \in S : i = j
  PROVE  S = {} \/ Cardinality(S) = 1
<1>1. CASE S # {}
  <2>1. PICK i \in S : TRUE
    BY <1>1
  <2>2. S = {i}
    BY <2>1
  <2> QED
    BY <2>2, FS_Singleton
<1> QED
  BY <1>1

\* However often the neighbor table changes, and however reports are queued,
\* rewritten, sent, lost, sent again and kept, a node has one report under
\* way at most.
THEOREM OneReportHolds == Spec => []OneReport
<1>1. ReportInv => OneReport
  <2> SUFFICES ASSUME ReportInv PROVE OneReport
    OBVIOUS
  <2> DEFINE Q == ReportsIn(node.sendQ)
             L == LiveReports(node.win)
  <2>1. /\ Q = {i \in DOMAIN node.sendQ : /\ node.sendQ[i].type = "NEIGHBOR_REPORT"
                                        /\ node.sendQ[i].own}
        /\ L = {i \in Slots : /\ node.win.live[i]
                             /\ node.win.pkt[i].type = "NEIGHBOR_REPORT"}
    BY DEF ReportsIn, IsReport, LiveReports, ReportSlots
  <2>2. /\ \A i, j \in Q : i = j
        /\ Q # {} => L = {}
    BY DEF ReportInv, Single
  <2>3. \A i, j \in L : i = j
    <3> SUFFICES ASSUME NEW i \in L, NEW j \in L PROVE i = j
      OBVIOUS
    <3>1. i <= j /\ j <= i /\ i \in Nat /\ j \in Nat
      BY SlotsNat DEF ReportInv, Single, Awaits, LiveReports, ReportSlots
    <3> QED
      BY <3>1
  <2> HIDE DEF Q, L
  <2>4. (Q = {} \/ Cardinality(Q) = 1) /\ (L = {} \/ Cardinality(L) = 1)
    BY <2>2, <2>3, OneOrNone
  <2>5. Cardinality(Q) + Cardinality(L) <= 1
    BY <2>2, <2>4, FS_EmptySet
  <2> QED
    BY <2>1, <2>5 DEF OneReport
<1>2. Init => ReportInv
  BY InitSound, InitReports DEF ReportInv
<1> QED
  BY <1>1, <1>2, NextReports, PTL DEF Spec
----------------------------------------------------------------------------
(* ImplementsWindow.  The numbers that tell reports and registrations      *)
(* apart come from one counter, and the window relies on no two awaited    *)
(* packets of a type having the same.  So no two numbered packets of the   *)
(* node may have the same, in the send queue, among the kept packets or    *)
(* awaited (Unique), except that the head of the queue may be awaited      *)
(* already while it is taken off the queue (the parameter k); and what is  *)
(* awaited is a packet that the node made (Known).                         *)

Keys == Flows \cup Addrs

\* The packets a node makes itself.
OwnPackets ==
  [type : {"NEIGHBOR_REPORT"}, key : {CtrlFlow}, seq : Numbers,
   own : {TRUE}, ver : 0 .. MaxReports]
  \cup [type : ByFlow \ {"NEIGHBOR_REPORT"}, key : Keys, seq : Numbers,
        own : {TRUE}, ver : {0}]

Numbered == {"NEIGHBOR_REPORT", "REGISTER_FLOWID"}

\* What is known of every packet in the node.
Known(p) ==
  /\ IsPacket(p) /\ p.key \in Keys /\ RouteKey(p) \in Keys
  /\ p.own => p \in OwnPackets
  /\ p.type = "SRC_ROUTED_ACK" /\ Via(p) = "END"
       => p.act \in Numbered /\ p.seq \in Numbers

Apart(p, q) == ~ (BySeq(p) /\ BySeq(q) /\ p.seq = q.seq)

\* The places of the send queue after the first k.
After(q, k) == {i \in DOMAIN q : i > k}

\* No packet after the first k of the send queue, kept or awaited has the
\* number seq.
Unused(s, k, seq) ==
  /\ \A i \in After(s.sendQ, k) : BySeq(s.sendQ[i]) => s.sendQ[i].seq # seq
  /\ \A i \in KeptAt(s.keep) : BySeq(s.keep[i]) => s.keep[i].seq # seq
  /\ \A i \in Slots : s.win.live[i] /\ BySeq(s.win.pkt[i]) => s.win.pkt[i].seq # seq

\* No two of them have the same number.
Unique(s, k) ==
  /\ \A i, j \in After(s.sendQ, k) : i # j => Apart(s.sendQ[i], s.sendQ[j])
  /\ \A i, j \in KeptAt(s.keep) : i # j => Apart(s.keep[i], s.keep[j])
  /\ \A i \in After(s.sendQ, k), j \in KeptAt(s.keep) : Apart(s.sendQ[i], s.keep[j])
  /\ \A i \in After(s.sendQ, k), j \in Slots :
       s.win.live[j] => Apart(s.sendQ[i], s.win.pkt[j])
  /\ \A i \in KeptAt(s.keep), j \in Slots :
       s.win.live[j] => Apart(s.keep[i], s.win.pkt[j])

AllKnown(s) ==
  /\ \A i \in DOMAIN s.sendQ : Known(s.sendQ[i])
  /\ \A i \in KeptAt(s.keep) : Known(s.keep[i])
  /\ \A i \in Slots : s.win.live[i] => s.win.pkt[i].own /\ Known(s.win.pkt[i])

Tidy(s, k) ==
  /\ AllKnown(s) /\ Unique(s, k)
  /\ s.phase = "AWAITING" => ReportSlots(s.win) = {}

AirOK ==
  /\ IsFiniteSet(onAir) /\ Cardinality(onAir) <= MaxOnAir
  /\ \A p \in onAir : BySeq(p) /\ p \in OwnPackets

WindowInv ==
  /\ ReportInv /\ Tidy(node, 0)
  /\ \A i \in DOMAIN node.recvQ : Known(node.recvQ[i])
  /\ AirOK /\ nbrs \in 0 .. MaxReports

----------------------------------------------------------------------------
(* The functions of RetxWindow's copy of SldWindow are those of the node's. *)

LEMMA SameSlots == Window!Slots = Slots
  BY DEF Window!Slots, Slots

LEMMA SameRemoveMatch ==
  ASSUME NEW w, NEW S
  PROVE  Window!RemoveMatch(w, S) = RemoveMatch(w, S)
  BY DEF Window!RemoveMatch, RemoveMatch, Window!RemoveElement, RemoveElement,
         Window!First, First

LEMMA SameRemovals ==
  ASSUME NEW w, NEW type, NEW x
  PROVE  /\ Window!RcvAck(w, type, x) = RcvAck(w, type, x)
         /\ Window!RcvSetup(w, type, x) = RcvSetup(w, type, x)
         /\ Window!Purge(w, type) = Purge(w, type)
  BY SameRemoveMatch, SameSlots
     DEF Window!RcvAck, RcvAck, Window!RcvSetup, RcvSetup, Window!Purge, Purge

LEMMA SameAwaitAck ==
  ASSUME NEW w, NEW p
  PROVE  Window!AwaitAck(w, p) = AwaitAck(w, p)
<1>1. /\ Window!Redundant(w, p) = Redundant(w, p)
      /\ Window!FreeSlots(w) = FreeSlots(w)
  BY SameSlots DEF Window!Redundant, Redundant, Window!FreeSlots, FreeSlots,
                   Window!SameRequest, SameRequest
<1>2. /\ Window!Refresh(w, p) = Refresh(w, p)
      /\ Window!GiveUp(w) = GiveUp(w)
  BY <1>1, SameSlots DEF Window!Refresh, Refresh, Window!GiveUp, GiveUp
<1>3. Window!Store(w, p) = Store(w, p)
  BY <1>1 DEF Window!Store, Store, Window!First, First
<1> QED
  BY <1>1, <1>2, <1>3 DEF Window!AwaitAck, AwaitAck, Window!Reliable, Reliable

LEMMA SameTimer ==
  ASSUME NEW w, NEW i, NEW seq
  PROVE  Window!TimerRequeued(w, i, seq) = TimerRequeued(w, i, seq)
  BY DEF Window!TimerRequeued, TimerRequeued, Window!RemoveElement, RemoveElement

LEMMA SameEmpty == Window!EmptyWindow = EmptyWindow
  BY SameSlots DEF Window!EmptyWindow, EmptyWindow, Window!Blank, Blank

----------------------------------------------------------------------------
(* Numbers                                                                 *)

\* There are no more values than places.
LEMMA FewValues ==
  ASSUME NEW D, IsFiniteSet(D), NEW f
  PROVE  LET T == {f[i] : i \in D}
         IN  /\ IsFiniteSet(T) /\ Cardinality(T) \in Nat
             /\ Cardinality(T) <= Cardinality(D)
<1> DEFINE T == {f[i] : i \in D}
           g == [i \in D |-> f[i]]
<1>1. g \in Surjection(D, T)
  BY DEF Surjection
<1> HIDE DEF g, T
<1>2. IsFiniteSet(T) /\ Cardinality(T) <= Cardinality(D)
  BY <1>1, FS_Surjection
<1> QED
  BY <1>2, FS_CardinalityType DEF T

LEMMA UnionSize ==
  ASSUME NEW S, NEW T, IsFiniteSet(S), IsFiniteSet(T), NEW U, U = S \cup T
  PROVE  /\ IsFiniteSet(U) /\ Cardinality(U) \in Nat
         /\ Cardinality(U) <= Cardinality(S) + Cardinality(T)
<1>1. /\ IsFiniteSet(S \cap T) /\ Cardinality(S \cap T) \in Nat
      /\ Cardinality(S) \in Nat /\ Cardinality(T) \in Nat
  BY FS_Intersection, FS_CardinalityType
<1>2. Cardinality(S \cup T) = Cardinality(S) + Cardinality(T) - Cardinality(S \cap T)
      /\ IsFiniteSet(S \cup T)
  BY FS_Union
<1>3. Cardinality(S \cup T) \in Nat
  BY <1>2, FS_CardinalityType
<1> QED
  BY <1>1, <1>2, <1>3

\* A packet's number is new if no packet of the node has it, and there are
\* numbers enough.
LEMMA FreshNumber ==
  ASSUME NodeInv, AirOK
  PROVE  FreshSeq \in Numbers /\ Unused(node, 0, FreshSeq)
<1> DEFINE Q == Range(node.sendQ)
           R == Range(node.recvQ)
           K == Kept(node)
           L == Live(node)
           carried == Q \cup R \cup K \cup L \cup onAir
           taken == {p.seq : p \in carried}
           all == 1 .. Cardinality(carried) + 1
           q == Len(node.sendQ)
           r == Len(node.recvQ)
           k == Cardinality(KeptAt(node.keep))
           bound == q + r + k + MaxTxWindow + MaxOnAir
<1>1. /\ IsFiniteSet(Q) /\ Cardinality(Q) <= q /\ IsFiniteSet(R) /\ Cardinality(R) <= r
      /\ q \in Nat /\ r \in Nat
  <2>1. ASSUME NEW s, IsSeq(s)
        PROVE  IsFiniteSet(Range(s)) /\ Cardinality(Range(s)) <= Len(s)
    <3>1. Len(s) \in Nat /\ DOMAIN s = 1 .. Len(s)
      BY <2>1, SeqLen
    <3>2. \A n \in Nat : IsFiniteSet(1 .. n) /\ Cardinality(1 .. n) = n
      BY FS_Interval
    <3> DEFINE D == 1 .. Len(s)
    <3>3. Range(s) = {s[i] : i \in D}
      BY <3>1 DEF Range
    <3> HIDE DEF D
    <3> QED
      BY <3>1, <3>2, <3>3, FewValues DEF D
  <2> QED
    BY <2>1, SeqLen DEF NodeInv, Sound, Fit, Parts, IsQueue
<1>2. IsFiniteSet(K) /\ Cardinality(K) <= k /\ k \in Nat
  <2>1. IsFiniteSet(KeptAt(node.keep)) /\ k \in Nat
    BY KeepFinite DEF NodeInv, Sound, Fit, Parts, IsKeep
  <2>2. K = {node.keep[i] : i \in KeptAt(node.keep)}
    BY DEF Kept, KeptAt, Range
  <2> QED
    BY <2>1, <2>2, FewValues
<1>3. IsFiniteSet(L) /\ Cardinality(L) <= MaxTxWindow
  <2> DEFINE D == {j \in Slots : node.win.live[j]}
  <2>1. IsFiniteSet(Slots) /\ Cardinality(Slots) = MaxTxWindow
    BY MaxTxWindowAssumption, FS_Interval DEF Slots
  <2>2. IsFiniteSet(D) /\ Cardinality(D) <= MaxTxWindow
    BY <2>1, FS_Subset
  <2>3. L = {node.win.pkt[i] : i \in D}
    BY DEF Live
  <2> HIDE DEF D, L
  <2>4. IsFiniteSet(L) /\ Cardinality(L) <= Cardinality(D) /\ Cardinality(L) \in Nat
    BY <2>2, <2>3, FewValues
  <2>5. Cardinality(D) \in Nat
    BY <2>2, FS_CardinalityType
  <2> QED
    BY <2>2, <2>4, <2>5, MaxTxWindowAssumption
<1>4. IsFiniteSet(onAir) /\ Cardinality(onAir) <= MaxOnAir
  BY DEF AirOK
<1> HIDE DEF Q, R, K, L
<1>5. IsFiniteSet(carried) /\ Cardinality(carried) <= bound
  <2> DEFINE A == Q \cup R
             B == A \cup K
             C == B \cup L
  <2>1. carried = C \cup onAir
    OBVIOUS
  <2> HIDE DEF q, r, k, carried
  <2>2. /\ IsFiniteSet(A) /\ Cardinality(A) \in Nat
        /\ Cardinality(A) <= Cardinality(Q) + Cardinality(R)
    BY <1>1, UnionSize
  <2> HIDE DEF A
  <2>3. /\ IsFiniteSet(B) /\ Cardinality(B) \in Nat
        /\ Cardinality(B) <= Cardinality(A) + Cardinality(K)
    BY <1>2, <2>2, UnionSize
  <2> HIDE DEF B
  <2>4. /\ IsFiniteSet(C) /\ Cardinality(C) \in Nat
        /\ Cardinality(C) <= Cardinality(B) + Cardinality(L)
    BY <1>3, <2>3, UnionSize
  <2> HIDE DEF C
  <2>5. /\ IsFiniteSet(carried)
        /\ Cardinality(carried) <= Cardinality(C) + Cardinality(onAir)
    BY <1>4, <2>1, <2>4, UnionSize
  <2>6. /\ Cardinality(Q) \in Nat /\ Cardinality(R) \in Nat /\ Cardinality(K) \in Nat
        /\ Cardinality(L) \in Nat /\ Cardinality(onAir) \in Nat
        /\ Cardinality(carried) \in Nat
    BY <1>1, <1>2, <1>3, <1>4, <2>5, FS_CardinalityType
  <2> QED
    BY <1>1, <1>2, <1>3, <1>4, <2>2, <2>3, <2>4, <2>5, <2>6,
       MaxTxWindowAssumption, SdnNodeAssumption
<1> HIDE DEF carried
<1>6. Cardinality(carried) \in Nat
  BY <1>5, FS_CardinalityType
<1>7. IsFiniteSet(taken) /\ Cardinality(taken) <= Cardinality(carried)
  <2> DEFINE f == [p \in carried |-> p.seq]
  <2>1. taken = {f[p] : p \in carried}
    OBVIOUS
  <2> HIDE DEF f, taken
  <2> QED
    BY <1>5, <2>1, FewValues
<1>8. all \ taken # {} /\ all \ taken \subseteq Nat
  <2>1. IsFiniteSet(all) /\ Cardinality(all) = Cardinality(carried) + 1
    BY <1>6, FS_Interval
  <2>2. Cardinality(taken) \in Nat
    BY <1>7, FS_CardinalityType
  <2> HIDE DEF all, taken
  <2>3. ~ all \subseteq taken
    <3> SUFFICES ASSUME all \in SUBSET taken PROVE FALSE
      OBVIOUS
    <3>1. Cardinality(all) <= Cardinality(taken)
      BY <1>7, FS_Subset
    <3> QED
      BY <1>6, <1>7, <2>1, <2>2, <3>1
  <2> QED
    BY <2>3 DEF all
<1>9. FreshSeq = First(all \ taken)
  BY DEF FreshSeq, carried, Q, R, K, L
<1>10. FreshSeq \in all /\ FreshSeq \notin taken
  <2> HIDE DEF all, taken
  <2> QED
    BY <1>8, <1>9, FirstIn
<1>11. FreshSeq \in Numbers
  <2>1. bound <= PoolSize + MaxTxWindow + MaxOnAir /\ bound \in Nat
    <3>1. node.pool \in Nat /\ PoolSize = node.pool + q + r + k
      BY HeldTypes DEF NodeInv, Sound, Fit
    <3> HIDE DEF q, r, k
    <3> QED
      BY <1>1, <1>2, <3>1, MaxTxWindowAssumption, SdnNodeAssumption
  <2> HIDE DEF bound
  <2> QED
    BY <1>5, <1>6, <1>10, <2>1, MaxTxWindowAssumption, SdnNodeAssumption DEF Numbers
<1>12. \A p \in carried : p.seq # FreshSeq
  BY <1>10
<1>13. /\ \A i \in DOMAIN node.sendQ : node.sendQ[i] \in carried
       /\ \A i \in KeptAt(node.keep) : node.keep[i] \in carried
       /\ \A i \in Slots : node.win.live[i] => node.win.pkt[i] \in carried
  BY DEF carried, Q, K, L, Range, Kept, KeptAt, Live
<1> QED
  BY <1>11, <1>12, <1>13 DEF Unused, After

----------------------------------------------------------------------------
(* The functions of the node: no number comes twice.                       *)

\* Another packet in the send queue, whose number no other has.
LEMMA GetTidy ==
  ASSUME NEW s, NEW n, Fit(s, n), NEW k, Tidy(s, k), NEW p, Known(p),
         BySeq(p) => Unused(s, k, p.seq)
  PROVE  LET t == GetAndEnqueue(s, p)
         IN  /\ Tidy(t, k)
             /\ \A seq : Unused(s, k, seq) /\ (BySeq(p) => p.seq # seq) => Unused(t, k, seq)
<1> DEFINE t == GetAndEnqueue(s, p)
<1>1. /\ t.win = s.win /\ t.keep = s.keep /\ t.phase = s.phase
      /\ t.sendQ = s.sendQ \/ t.sendQ = Append(s.sendQ, p)
  BY GetReports
<1> HIDE DEF t
<1>2. CASE t.sendQ = s.sendQ
  BY <1>1, <1>2 DEF Tidy, AllKnown, Unique, Unused, t
<1>3. CASE t.sendQ = Append(s.sendQ, p)
  <2> DEFINE e == Len(s.sendQ) + 1
  <2>1. /\ DOMAIN t.sendQ = DOMAIN s.sendQ \cup {e} /\ t.sendQ[e] = p
        /\ \A i \in DOMAIN s.sendQ : t.sendQ[i] = s.sendQ[i]
    <3>1. /\ DOMAIN s.sendQ = 1 .. Len(s.sendQ) /\ Len(s.sendQ) \in Nat
          /\ DOMAIN t.sendQ = 1 .. Len(s.sendQ) + 1
          /\ \A i \in DOMAIN s.sendQ : t.sendQ[i] = s.sendQ[i]
          /\ t.sendQ[Len(s.sendQ) + 1] = p
      BY <1>3, SeqLen, SeqAppend DEF Fit, Parts, IsQueue
    <3>2. 1 .. Len(s.sendQ) + 1 = (1 .. Len(s.sendQ)) \cup {Len(s.sendQ) + 1}
      BY <3>1
    <3> QED
      BY <3>1, <3>2
  <2> HIDE DEF e
  <2>2. \A i \in After(t.sendQ, k) :
          \/ i \in After(s.sendQ, k) /\ t.sendQ[i] = s.sendQ[i]
          \/ i = e /\ t.sendQ[i] = p
    BY <2>1 DEF After
  <2>3. /\ \A i \in After(s.sendQ, k) : Apart(p, s.sendQ[i]) /\ Apart(s.sendQ[i], p)
        /\ \A i \in KeptAt(s.keep) : Apart(p, s.keep[i])
        /\ \A i \in Slots : s.win.live[i] => Apart(p, s.win.pkt[i])
    BY DEF Unused, Apart
  <2>4. AllKnown(t)
    BY <1>1, <2>1 DEF Tidy, AllKnown
  <2>5. \A i, j \in After(t.sendQ, k) : i # j => Apart(t.sendQ[i], t.sendQ[j])
    BY <2>2, <2>3 DEF Tidy, Unique
  <2>6. Unique(t, k)
    BY <1>1, <2>2, <2>3, <2>5 DEF Tidy, Unique
  <2>7. Tidy(t, k)
    BY <1>1, <2>4, <2>6 DEF Tidy
  <2>8. \A seq : Unused(s, k, seq) /\ (BySeq(p) => p.seq # seq) => Unused(t, k, seq)
    BY <1>1, <2>2 DEF Unused
  <2> QED
    BY <2>7, <2>8 DEF t
<1> QED
  BY <1>1, <1>2, <1>3

LEMMA StoreTidy ==
  ASSUME NEW s, NEW n, Fit(s, n), NEW k, Tidy(s, k), NEW p, Known(p),
         BySeq(p) => Unused(s, k, p.seq)
  PROVE  LET t == StorePacket(s, p)
         IN  /\ Tidy(t, k)
             /\ \A seq : Unused(s, k, seq) /\ (BySeq(p) => p.seq # seq) => Unused(t, k, seq)
<1> DEFINE free == {i \in DOMAIN s.keep : s.keep[i] = <<>>}
           f == First(free)
           keep == [s.keep EXCEPT ![f] = p]
           u == [s EXCEPT !.keep[f] = p, !.pool = @ - 1]
<1>1. CASE free = {} \/ s.pool = 0
  <2>1. StorePacket(s, p) = s
    BY <1>1 DEF StorePacket
  <2> QED
    BY <2>1
<1>2. CASE ~ (free = {} \/ s.pool = 0)
  <2>1. StorePacket(s, p) = u
    BY <1>2 DEF StorePacket
  <2>2. f \in free
    <3>1. free \subseteq Nat
      BY DEF Fit, Parts, IsKeep
    <3> HIDE DEF free
    <3> QED
      BY <1>2, <3>1, FirstIn
  <2>3. f \in DOMAIN s.keep /\ s.keep[f] = <<>>
    BY <2>2
  <2> HIDE DEF f, free
  <2>4. u.keep = keep /\ u.sendQ = s.sendQ /\ u.win = s.win /\ u.phase = s.phase
    BY DEF Fit, Parts, Fields
  <2> HIDE DEF u
  <2>5. \A i \in KeptAt(keep) : \/ i = f /\ keep[i] = p
                                \/ i \in KeptAt(s.keep) /\ keep[i] = s.keep[i]
    BY <2>3 DEF KeptAt
  <2> HIDE DEF keep
  <2>6. /\ \A i \in After(s.sendQ, k) : Apart(s.sendQ[i], p)
        /\ \A i \in KeptAt(s.keep) : Apart(p, s.keep[i]) /\ Apart(s.keep[i], p)
        /\ \A i \in Slots : s.win.live[i] => Apart(p, s.win.pkt[i])
    BY DEF Unused, Apart
  <2>7. AllKnown(u)
    BY <2>4, <2>5 DEF Tidy, AllKnown
  <2>8. \A i, j \in KeptAt(keep) : i # j => Apart(keep[i], keep[j])
    BY <2>5, <2>6 DEF Tidy, Unique
  <2>9. Unique(u, k)
    BY <2>4, <2>5, <2>6, <2>8 DEF Tidy, Unique
  <2>10. Tidy(u, k)
    BY <2>4, <2>7, <2>9 DEF Tidy
  <2>11. \A seq : Unused(s, k, seq) /\ (BySeq(p) => p.seq # seq) => Unused(u, k, seq)
    BY <2>4, <2>5 DEF Unused
  <2> QED
    BY <2>1, <2>10, <2>11
<1> QED
  BY <1>1, <1>2

\* A packet of the node itself that has no number to be told apart by.
LEMMA OwnKnown ==
  ASSUME NEW type \in ByFlow \ {"NEIGHBOR_REPORT"}, NEW key \in Keys, NEW seq \in Numbers,
         type = "DATA" => key \in Flows
  PROVE  /\ Known(Own(type, key, seq, 0)) /\ Own(type, key, seq, 0).seq = seq
         /\ BySeq(Own(type, key, seq, 0)) => type = "REGISTER_FLOWID"
<1> DEFINE p == Own(type, key, seq, 0)
<1>1. p \in OwnPackets
  BY DEF Own, OwnPackets
<1>2. IsPacket(p)
  BY OwnPacket
<1>3. RouteKey(p) \in Keys
  BY SdnNodeAssumption DEF RouteKey, Own, Keys
<1>4. p.type = type /\ p.key = key /\ p.seq = seq /\ p.own = TRUE
  BY DEF Own
<1>5. type # "SRC_ROUTED_ACK"
  BY DEF ByFlow
<1> HIDE DEF p
<1> QED
  BY <1>1, <1>2, <1>3, <1>4, <1>5 DEF Known, BySeq, p

LEMMA ZeroNumber == 0 \in Numbers
  BY SdnNodeAssumption, MaxTxWindowAssumption DEF Numbers

LEMMA FlowRequestTidy ==
  ASSUME NEW s, NEW n, Fit(s, n), NEW k, Tidy(s, k), NEW key \in Keys
  PROVE  LET t == SendFlowRequest(s, key)
         IN  Tidy(t, k) /\ \A seq : Unused(s, k, seq) => Unused(t, k, seq)
<1> DEFINE type == IF key \in Flows THEN "DATA_FLOW_REQUEST" ELSE "CONTROL_FLOW_REQUEST"
           p == Own(type, key, 0, 0)
<1>1. Known(p) /\ ~ BySeq(p)
  BY ZeroNumber, OwnKnown DEF ByFlow
<1>2. SendFlowRequest(s, key) = s \/ SendFlowRequest(s, key) = GetAndEnqueue(s, p)
  BY DEF SendFlowRequest
<1> HIDE DEF p
<1> QED
  BY <1>1, <1>2, GetTidy

LEMMA UnknownTidy ==
  ASSUME NEW s, NEW n, Fit(s, n), NEW k, Tidy(s, k), NEW p, Known(p),
         BySeq(p) => Unused(s, k, p.seq), RouteKey(p) \notin DOMAIN s.table
  PROVE  LET t == UnknownRoute(s, p) IN  Tidy(t, k)
<1> DEFINE u == StorePacket(s, p)
           v == SendFlowRequest(u, RouteKey(p))
<1>1. Fit(u, n)
  BY StoreFit DEF Known
<1>2. Tidy(u, k)
  BY StoreTidy
<1>3. UnknownRoute(s, p) = u \/ UnknownRoute(s, p) = v
  BY DEF UnknownRoute
<1> HIDE DEF u
<1>4. Tidy(v, k)
  BY <1>1, <1>2, FlowRequestTidy DEF Known
<1> QED
  BY <1>2, <1>3, <1>4

\* The packets that get their route take their numbers along.
LEMMA InsertTidy ==
  ASSUME NEW s, NEW n, Fit(s, n), NEW k, Tidy(s, k), NEW key, NEW act \in Actions
  PROVE  LET t == Insert(s, key, act)
         IN  Tidy(t, k) /\ \A seq : Unused(s, k, seq) => Unused(t, k, seq)
<1> DEFINE t == Insert(s, key, act)
<1>1. t.phase = s.phase /\ t.win = s.win /\ (t = s \/ Moved(s, t, key))
  BY InsertFit
<1> HIDE DEF t
<1>2. CASE t = s
  BY <1>2 DEF t
<1>3. CASE Moved(s, t, key)
  <2>1. PICK from : Left(s, t, from)
    BY <1>3 DEF Moved
  <2>2. /\ KeptAt(t.keep) \subseteq KeptAt(s.keep)
        /\ \A i \in KeptAt(t.keep) : t.keep[i] = s.keep[i]
    BY <1>3 DEF Moved
  <2> DEFINE new == DOMAIN t.sendQ \ DOMAIN s.sendQ
  <2>3. \A i \in After(t.sendQ, k) :
          \/ i \in After(s.sendQ, k) /\ t.sendQ[i] = s.sendQ[i]
          \/ i \in new
    BY <1>3 DEF Moved, After
  <2>4. /\ \A i \in new : /\ from[i] \in KeptAt(s.keep) /\ from[i] \notin KeptAt(t.keep)
                          /\ t.sendQ[i] = s.keep[from[i]]
        /\ \A i, j \in new : from[i] = from[j] => i = j
    BY <2>1 DEF Left
  <2> HIDE DEF new
  <2>5. AllKnown(t)
    <3>1. \A i \in DOMAIN t.sendQ : \/ i \in DOMAIN s.sendQ /\ t.sendQ[i] = s.sendQ[i]
                                  \/ i \in new
      BY <1>3 DEF Moved, new
    <3> QED
      BY <1>1, <2>2, <2>4, <3>1 DEF Tidy, AllKnown
  <2>6. ASSUME NEW i \in After(t.sendQ, k), NEW j \in After(t.sendQ, k), i # j
        PROVE  Apart(t.sendQ[i], t.sendQ[j])
    <3>1. CASE i \in new /\ j \in new
      BY <2>4, <2>6, <3>1 DEF Tidy, Unique
    <3>2. CASE i \notin new /\ j \notin new
      BY <2>3, <2>6, <3>2 DEF Tidy, Unique
    <3>3. CASE i \notin new /\ j \in new
      BY <2>3, <2>4, <3>3 DEF Tidy, Unique
    <3>4. CASE i \in new /\ j \notin new
      <4>1. Apart(s.sendQ[j], s.keep[from[i]])
        BY <2>3, <2>4, <3>4 DEF Tidy, Unique
      <4> QED
        BY <2>3, <2>4, <3>4, <4>1 DEF Apart
    <3> QED
      BY <3>1, <3>2, <3>3, <3>4
  <2>7. \A i \in After(t.sendQ, k), j \in KeptAt(t.keep) : Apart(t.sendQ[i], t.keep[j])
    BY <2>2, <2>3, <2>4 DEF Tidy, Unique
  <2>8. \A i \in After(t.sendQ, k), j \in Slots :
          t.win.live[j] => Apart(t.sendQ[i], t.win.pkt[j])
    BY <1>1, <2>3, <2>4 DEF Tidy, Unique
  <2>9. Unique(t, k)
    BY <1>1, <2>2, <2>6, <2>7, <2>8 DEF Tidy, Unique
  <2>10. Tidy(t, k)
    BY <1>1, <2>5, <2>9 DEF Tidy
  <2>11. \A seq : Unused(s, k, seq) => Unused(t, k, seq)
    BY <1>1, <2>2, <2>3, <2>4 DEF Unused
  <2> QED
    BY <2>10, <2>11 DEF t
<1> QED
  BY <1>1, <1>2, <1>3

\* The window's slots are freed, their contents stay.
Slimmer(w, v) == v.pkt = w.pkt /\ \A i \in Slots : v.live[i] => w.live[i]

Requests == {"DATA_FLOW_REQUEST", "CONTROL_FLOW_REQUEST"}

\* What the functions that treat a packet do with the window: nothing, or
\* one of RetxWindow's removals.
Answered(w, v) ==
  \/ v = w
  \/ v = Purge(w, "NEIGHBOR_REPORT")
  \/ \E type \in Numbered, seq \in Numbers : v = RcvAck(w, type, seq)
  \/ \E type \in Requests, key \in Keys : v = RcvSetup(w, type, key)

LEMMA RemoveSlimmer ==
  ASSUME NEW w, IsWindow(w), NEW S
  PROVE  Slimmer(w, RemoveMatch(w, S))
<1> DEFINE i == First(S)
           live == [w.live EXCEPT ![i] = FALSE]
<1>1. \A j \in Slots : live[j] => w.live[j]
  BY DEF IsWindow
<1>2. RemoveElement(w, i) = [pkt |-> w.pkt, live |-> live,
                             count |-> IF i < w.count THEN i ELSE w.count]
  BY DEF RemoveElement
<1> HIDE DEF live, i
<1>3. Slimmer(w, RemoveElement(w, i))
  BY <1>1, <1>2 DEF Slimmer
<1>4. Slimmer(w, w)
  BY DEF Slimmer
<1> QED
  BY <1>3, <1>4 DEF RemoveMatch, i

LEMMA AnsweredSlimmer ==
  ASSUME NEW w, IsWindow(w), NEW v, Answered(w, v)
  PROVE  Slimmer(w, v) /\ IsWindow(v)
<1>1. v = w \/ \E S : v = RemoveMatch(w, S)
  BY DEF Answered, Purge, RcvAck, RcvSetup
<1> QED
  BY <1>1, RemoveSlimmer, RemoveMatchWindow DEF Slimmer

LEMMA WinTidy ==
  ASSUME NEW s, NEW n, Fit(s, n), NEW k, Tidy(s, k), NEW w, Slimmer(s.win, w)
  PROVE  LET t == [s EXCEPT !.win = w]
         IN  Tidy(t, k) /\ \A seq : Unused(s, k, seq) => Unused(t, k, seq)
<1> DEFINE t == [s EXCEPT !.win = w]
<1>1. t.win = w /\ t.sendQ = s.sendQ /\ t.keep = s.keep /\ t.phase = s.phase
  BY DEF Fit, Parts, Fields
<1> HIDE DEF t
<1>2. AllKnown(t) /\ Unique(t, k)
  BY <1>1 DEF Tidy, AllKnown, Unique, Slimmer
<1>3. Tidy(t, k)
  BY <1>1, <1>2 DEF Tidy, Slimmer, ReportSlots
<1>4. \A seq : Unused(s, k, seq) => Unused(t, k, seq)
  BY <1>1 DEF Unused, Slimmer
<1> QED
  BY <1>3, <1>4 DEF t

LEMMA RewrittenKnown ==
  ASSUME NEW p, Known(p), p.own, p.type = "NEIGHBOR_REPORT", NEW seq,
         NEW ver \in 0 .. MaxReports
  PROVE  LET r == Rewritten(p, seq, ver)
         IN  Known(r) /\ BySeq(r) /\ BySeq(p) /\ r.seq = p.seq
<1> DEFINE r == Rewritten(p, seq, ver)
<1>1. p \in [type : {"NEIGHBOR_REPORT"}, key : {CtrlFlow}, seq : Numbers,
             own : {TRUE}, ver : 0 .. MaxReports]
  BY DEF Known, OwnPackets
<1>2. r \in [type : {"NEIGHBOR_REPORT"}, key : {CtrlFlow}, seq : Numbers,
             own : {TRUE}, ver : 0 .. MaxReports]
  BY <1>1 DEF Rewritten
<1>3. /\ r.type = "NEIGHBOR_REPORT" /\ r.key = CtrlFlow /\ r.own = TRUE
      /\ p.type = "NEIGHBOR_REPORT" /\ r.seq = p.seq
  BY <1>1 DEF Rewritten
<1>4. IsPacket(r)
  BY RewrittenPacket DEF Known
<1> HIDE DEF r
<1>5. RouteKey(r) \in Keys
  BY <1>3, SdnNodeAssumption DEF RouteKey, ByFlow, Keys
<1>6. r \in OwnPackets
  BY <1>2 DEF OwnPackets
<1>7. Known(r)
  BY <1>3, <1>4, <1>5, <1>6, SdnNodeAssumption DEF Known, Keys
<1> QED
  BY <1>3, <1>7 DEF BySeq, r

LEMMA ReportKnown ==
  ASSUME NEW seq \in Numbers, NEW ver \in 0 .. MaxReports
  PROVE  Known(Report(seq, ver)) /\ Report(seq, ver).seq = seq
<1> DEFINE r == Report(seq, ver)
<1>1. r \in OwnPackets
  BY DEF Report, Own, OwnPackets
<1>2. r.type = "NEIGHBOR_REPORT" /\ r.key = CtrlFlow /\ r.own = TRUE /\ r.seq = seq
  BY DEF Report, Own
<1>3. IsPacket(r)
  BY OwnPacket DEF Report, ByFlow
<1> HIDE DEF r
<1> QED
  BY <1>1, <1>2, <1>3, SdnNodeAssumption DEF Known, RouteKey, ByFlow, Keys, r

\* A queued report keeps its number, a new one has its own.
LEMMA ReportTidy ==
  ASSUME NEW s, NEW n, Fit(s, n), NEW k, Tidy(s, k), NEW seq \in Numbers,
         Unused(s, k, seq), NEW ver \in 0 .. MaxReports
  PROVE  LET t == SendNeighborReport(s, seq, ver)
         IN  /\ Tidy(t, k)
             /\ t.win = s.win \/ t.win = Purge(s.win, "NEIGHBOR_REPORT")
<1> DEFINE w == Purge(s.win, "NEIGHBOR_REPORT")
           v == [s EXCEPT !.win = w]
           f == First(QueuedReports(s))
           p == Rewritten(s.sendQ[f], seq, ver)
           q == [s.sendQ EXCEPT ![f] = p]
           u == [v EXCEPT !.sendQ = q]
           g == GetAndEnqueue(v, Report(seq, ver))
<1>1. IsWindow(w) /\ Slimmer(s.win, w)
  BY RemoveMatchWindow, RemoveSlimmer DEF Purge, Fit, Parts
<1> HIDE DEF w
<1>2. Fit(v, n) /\ v.win = w /\ v.sendQ = s.sendQ
  BY <1>1, WinFit
<1>3. Tidy(v, k) /\ Unused(v, k, seq)
  BY <1>1, WinTidy
<1> HIDE DEF v
<1>4. CASE QueuedReports(s) # {}
  <2>1. SendNeighborReport(s, seq, ver) = u
    BY <1>2, <1>4 DEF SendNeighborReport, v, w
  <2>2. f \in DOMAIN s.sendQ /\ s.sendQ[f].own /\ s.sendQ[f].type = "NEIGHBOR_REPORT"
    <3>1. QueuedReports(s) \subseteq Nat
      BY SeqLen DEF QueuedReports, Fit, Parts, IsQueue
    <3>2. f \in QueuedReports(s)
      BY <1>4, <3>1, FirstIn
    <3> QED
      BY <3>2 DEF QueuedReports
  <2> HIDE DEF f
  <2>3. Known(p) /\ BySeq(p) /\ BySeq(s.sendQ[f]) /\ p.seq = s.sendQ[f].seq
    <3>1. Known(s.sendQ[f])
      BY <2>2 DEF Tidy, AllKnown
    <3> QED
      BY <2>2, <3>1, RewrittenKnown
  <2> HIDE DEF p
  <2>4. /\ DOMAIN q = DOMAIN s.sendQ /\ q[f] = p
        /\ \A i \in DOMAIN q : i # f => q[i] = s.sendQ[i]
    BY <2>2
  <2> HIDE DEF q
  <2>5. u.sendQ = q /\ u.keep = v.keep /\ u.win = w /\ u.phase = v.phase
    BY <1>2 DEF Fit, Parts, Fields
  <2> HIDE DEF u
  <2>6. AllKnown(u)
    BY <1>2, <1>3, <2>3, <2>4, <2>5 DEF Tidy, AllKnown
  <2>7. /\ After(q, k) = After(s.sendQ, k)
        /\ \A i \in After(q, k) : BySeq(q[i]) => BySeq(s.sendQ[i]) /\ q[i].seq = s.sendQ[i].seq
    BY <2>3, <2>4 DEF After
  <2>8. \A i \in After(q, k) : \A r : Apart(s.sendQ[i], r) => Apart(q[i], r)
    BY <2>7 DEF Apart
  <2>9. \A i, j \in After(q, k) : i # j => Apart(q[i], q[j])
    BY <1>2, <1>3, <2>7 DEF Tidy, Unique, Apart
  <2>10. Unique(u, k)
    BY <1>2, <1>3, <2>5, <2>7, <2>8, <2>9 DEF Tidy, Unique
  <2>11. Tidy(u, k)
    BY <1>2, <1>3, <2>5, <2>6, <2>10 DEF Tidy
  <2> QED
    BY <2>1, <2>5, <2>11 DEF w
<1>5. CASE ~ (QueuedReports(s) # {})
  <2>1. SendNeighborReport(s, seq, ver) = s \/ SendNeighborReport(s, seq, ver) = g
    BY <1>5 DEF SendNeighborReport, v, w
  <2>2. Known(Report(seq, ver)) /\ Report(seq, ver).seq = seq
    BY ReportKnown
  <2>3. Tidy(g, k) /\ g.win = v.win
    BY <1>2, <1>3, <2>2, GetTidy, GetFit DEF Known
  <2> HIDE DEF g
  <2> QED
    BY <1>2, <2>1, <2>3 DEF w
<1> QED
  BY <1>4, <1>5

\* A node that waits for the controller has never sent a report, so that
\* there is none to give up after the request was answered.
LEMMA PurgeNothing ==
  ASSUME NEW w, ReportSlots(w) = {}
  PROVE  Purge(w, "NEIGHBOR_REPORT") = w
<1>1. {i \in Slots : w.pkt[i].type = "NEIGHBOR_REPORT"} = {}
  BY DEF ReportSlots
<1> QED
  BY <1>1 DEF Purge, RemoveMatch

LEMMA DataSetupTidy ==
  ASSUME NEW s, NEW n, Fit(s, n), NEW k, Tidy(s, k), NEW p, p.act \in Actions,
         p.key \in Keys, NEW seq \in Numbers, Unused(s, k, seq),
         nbrs \in 0 .. MaxReports
  PROVE  LET t == TreatDataFlowSetup(s, p, seq)
         IN  Tidy(t, k) /\ Answered(s.win, t.win)
<1> DEFINE w == RcvSetup(s.win, "DATA_FLOW_REQUEST", p.key)
           u == [s EXCEPT !.win = w]
           ack == Own("ACK_BY_FLOW_ID", p.key, 0, 0)
           acked == GetAndEnqueue(u, ack)
           done == Insert(acked, p.key, p.act)
           steady == [done EXCEPT !.phase = "STEADY"]
           t == SendNeighborReport(steady, seq, nbrs)
<1>1. TreatDataFlowSetup(s, p, seq) = IF EndsWait(s, p) THEN t ELSE done
  BY DEF TreatDataFlowSetup
<1>2. IsWindow(w) /\ Slimmer(s.win, w) /\ Answered(s.win, w)
  BY RemoveMatchWindow, RemoveSlimmer DEF RcvSetup, Fit, Parts, Answered, Requests
<1> HIDE DEF w
<1>3. Fit(u, n) /\ u.win = w /\ u.phase = s.phase /\ Tidy(u, k) /\ Unused(u, k, seq)
  BY <1>2, WinFit, WinTidy
<1> HIDE DEF u
<1>4. Known(ack) /\ ~ BySeq(ack)
  BY ZeroNumber, OwnKnown DEF ByFlow
<1> HIDE DEF ack
<1>5. /\ Fit(acked, n) /\ acked.win = u.win /\ acked.phase = u.phase
      /\ Tidy(acked, k) /\ Unused(acked, k, seq)
  BY <1>3, <1>4, GetFit, GetTidy DEF Known
<1> HIDE DEF acked
<1>6. /\ Fit(done, n) /\ done.win = acked.win /\ done.phase = acked.phase
      /\ Tidy(done, k) /\ Unused(done, k, seq)
  BY <1>5, InsertFit, InsertTidy
<1> HIDE DEF done
<1>7. CASE EndsWait(s, p)
  <2>1. Fit(steady, n)
    BY <1>6, PhaseFit
  <2>2. /\ steady.win = done.win /\ steady.sendQ = done.sendQ
        /\ steady.keep = done.keep /\ steady.phase = "STEADY"
    BY <1>6 DEF Fit, Parts, Fields
  <2> HIDE DEF steady
  <2>3. Tidy(steady, k) /\ Unused(steady, k, seq)
    BY <1>6, <2>2 DEF Tidy, AllKnown, Unique, Unused
  <2>4. /\ Tidy(t, k)
        /\ t.win = steady.win \/ t.win = Purge(steady.win, "NEIGHBOR_REPORT")
    BY <2>1, <2>3, ReportTidy
  <2> HIDE DEF t
  <2>5. ReportSlots(w) = {}
    BY <1>2, <1>7 DEF Tidy, EndsWait, Slimmer, ReportSlots
  <2>6. t.win = w
    BY <1>3, <1>5, <1>6, <2>2, <2>4, <2>5, PurgeNothing
  <2> QED
    BY <1>1, <1>2, <1>7, <2>4, <2>6
<1>8. CASE ~ EndsWait(s, p)
  BY <1>1, <1>2, <1>3, <1>5, <1>6, <1>8
<1> QED
  BY <1>7, <1>8

LEMMA ControlSetupTidy ==
  ASSUME NEW s, NEW n, Fit(s, n), NEW k, Tidy(s, k), NEW p, p.act \in Actions,
         p.key \in Keys
  PROVE  LET t == TreatControlFlowSetup(s, p)
         IN  Tidy(t, k) /\ Answered(s.win, t.win)
<1> DEFINE done == Insert(s, p.key, p.act)
           w == RcvSetup(done.win, "CONTROL_FLOW_REQUEST", p.key)
           u == [done EXCEPT !.win = w]
           ack == Own("ACK_BY_FLOW_ID", p.key, 0, 0)
           t == GetAndEnqueue(u, ack)
<1>1. TreatControlFlowSetup(s, p) = t
  BY DEF TreatControlFlowSetup
<1>2. Fit(done, n) /\ done.win = s.win /\ Tidy(done, k)
  BY InsertFit, InsertTidy
<1> HIDE DEF done
<1>3. IsWindow(w) /\ Slimmer(done.win, w) /\ Answered(done.win, w)
  BY <1>2, RemoveMatchWindow, RemoveSlimmer DEF RcvSetup, Fit, Parts, Answered, Requests
<1> HIDE DEF w
<1>4. Fit(u, n) /\ u.win = w /\ Tidy(u, k)
  BY <1>2, <1>3, WinFit, WinTidy
<1> HIDE DEF u
<1>5. Known(ack) /\ ~ BySeq(ack)
  BY ZeroNumber, OwnKnown DEF ByFlow
<1> HIDE DEF ack
<1>6. t.win = u.win /\ Tidy(t, k)
  BY <1>4, <1>5, GetFit, GetTidy DEF Known
<1> HIDE DEF t
<1> QED
  BY <1>1, <1>2, <1>3, <1>4, <1>6

LEMMA ViaKnown ==
  ASSUME NEW p, Known(p), p.type \notin ByFlow, NEW via \in {"ADDR", "NEXT"}
  PROVE  Known([p EXCEPT !.via = via]) /\ ~ BySeq([p EXCEPT !.via = via])
<1> DEFINE r == [p EXCEPT !.via = via]
<1>1. "via" \in DOMAIN p /\ {"type", "key", "seq", "own", "ver", "dest"} \subseteq DOMAIN p
  BY DEF Known, IsPacket
<1>2. /\ r.via = via /\ r.type = p.type /\ r.key = p.key /\ r.own = p.own
      /\ r.dest = p.dest
  BY <1>1
<1>3. IsPacket(r)
  BY ViaPacket DEF Known
<1>4. ~ p.own
  BY DEF Known, OwnPackets, ByFlow
<1> HIDE DEF r
<1>5. RouteKey(r) = RouteKey(p) /\ Via(r) # "END"
  BY <1>2 DEF RouteKey, Via
<1>6. Known(r) /\ ~ BySeq(r)
  BY <1>2, <1>3, <1>4, <1>5 DEF Known, BySeq
<1> QED
  BY <1>6 DEF r

LEMMA ExecuteTidy ==
  ASSUME NEW s, NEW n, Fit(s, n), NEW k, Tidy(s, k), NEW p, Known(p),
         NEW seq \in Numbers, Unused(s, k, seq), nbrs \in 0 .. MaxReports
  PROVE  LET t == ExecuteReceive(s, p, seq)
         IN  Tidy(t, k) /\ Answered(s.win, t.win)
<1> DEFINE t == ExecuteReceive(s, p, seq)
           OK(u) == Tidy(u, k) /\ Answered(s.win, u.win)
           Queue(via) == GetAndEnqueue(s, [p EXCEPT !.via = via])
           w == RcvAck(s.win, p.act, p.seq)
           acked == [s EXCEPT !.win = w]
<1>1. \/ IsSetup(p) /\ t = TreatFlowSetup(s, p, seq)
      \/ p.type \notin ByFlow /\ (t = Queue("ADDR") \/ t = Queue("NEXT"))
      \/ p.type = "SRC_ROUTED_ACK" /\ Via(p) = "END" /\ t = acked
      \/ t = s
  BY DEF ExecuteReceive, Via
<1>2. IsSetup(p) => OK(TreatFlowSetup(s, p, seq))
  BY DataSetupTidy, ControlSetupTidy DEF TreatFlowSetup, IsPacket, Known
<1>3. ASSUME NEW via \in {"ADDR", "NEXT"}, p.type \notin ByFlow PROVE OK(Queue(via))
  <2>1. Known([p EXCEPT !.via = via]) /\ ~ BySeq([p EXCEPT !.via = via])
    BY <1>3, ViaKnown
  <2>2. Tidy(Queue(via), k) /\ Queue(via).win = s.win
    BY <2>1, GetTidy, GetFit DEF Known
  <2> QED
    BY <2>2 DEF Answered
<1>4. p.type = "SRC_ROUTED_ACK" /\ Via(p) = "END" => OK(acked)
  <2> SUFFICES ASSUME p.type = "SRC_ROUTED_ACK", Via(p) = "END" PROVE OK(acked)
    OBVIOUS
  <2>1. IsWindow(w) /\ Slimmer(s.win, w)
    BY RemoveMatchWindow, RemoveSlimmer DEF RcvAck, Fit, Parts
  <2>2. Answered(s.win, w)
    BY DEF Answered, Known
  <2> HIDE DEF w
  <2>3. Tidy(acked, k) /\ acked.win = w
    BY <2>1, WinTidy, WinFit
  <2> QED
    BY <2>2, <2>3
<1>5. OK(s)
  BY DEF Answered
<1> HIDE DEF OK, Queue, acked, t
<1>6. OK(t)
  BY <1>1, <1>2, <1>3, <1>4, <1>5
<1> QED
  BY <1>6 DEF OK, t

LEMMA TreatTidy ==
  ASSUME NEW s, NEW n, Fit(s, n), NEW k, Tidy(s, k), NEW p, Known(p),
         BySeq(p) => Unused(s, k, p.seq),
         NEW seq \in Numbers, Unused(s, k, seq), nbrs \in 0 .. MaxReports
  PROVE  LET t == Treat(s, p, seq)
         IN  Tidy(t, k) /\ Answered(s.win, t.win)
<1>1. CASE Action(s, p) = "RECEIVE"
  BY <1>1, ExecuteTidy DEF Treat
<1>2. CASE Action(s, p) = "UNKNOWN"
  <2>1. RouteKey(p) \notin DOMAIN s.table
    BY <1>2 DEF Action, Fit, Parts, IsTable, Actions
  <2> DEFINE u == UnknownRoute(s, p)
  <2>2. Treat(s, p, seq) = u
    BY <1>2 DEF Treat
  <2>3. Tidy(u, k) /\ u.win = s.win
    BY <2>1, UnknownTidy, UnknownFit DEF Known
  <2> HIDE DEF u
  <2> QED
    BY <2>2, <2>3 DEF Answered
<1>3. CASE Action(s, p) \notin {"RECEIVE", "UNKNOWN"}
  BY <1>3 DEF Treat, Answered
<1> QED
  BY <1>1, <1>2, <1>3

\* Without the head of the send queue.
LEMMA DequeueTidy ==
  ASSUME NEW s, NEW n, Fit(s, n), s.sendQ # <<>>, Tidy(s, 1)
  PROVE  LET t == DequeueHead(s) IN  Tidy(t, 0) /\ t.win = s.win
<1> DEFINE q == Tail(s.sendQ)
           u == [s EXCEPT !.sendQ = q, !.pool = @ + 1, !.status = "IDLE"]
           t == DownOnce(u)
<1>1. DequeueHead(s) = t
  BY DEF DequeueHead
<1>2. /\ \A i \in DOMAIN q : i + 1 \in DOMAIN s.sendQ /\ q[i] = s.sendQ[i + 1]
      /\ DOMAIN q \subseteq Nat \ {0}
  <2>1. /\ \A i \in DOMAIN q : i + 1 \in DOMAIN s.sendQ /\ q[i] = s.sendQ[i + 1]
        /\ IsSeq(q)
    BY SeqTail DEF Fit, Parts, IsQueue
  <2> HIDE DEF q
  <2> QED
    BY <2>1, SeqLen
<1> HIDE DEF q
<1>3. /\ u.sendQ = q /\ u.keep = s.keep /\ u.win = s.win /\ u.phase = s.phase
      /\ DOMAIN u = Fields
  BY DEF Fit, Parts, Fields
<1> HIDE DEF u
<1>4. t.sendQ = q /\ t.keep = s.keep /\ t.win = s.win /\ t.phase = s.phase
  BY <1>3 DEF DownOnce, Fields
<1> HIDE DEF t
<1>5. \A i \in After(q, 0) : i + 1 \in After(s.sendQ, 1) /\ q[i] = s.sendQ[i + 1] /\ i \in Nat
  BY <1>2 DEF After
<1>6. AllKnown(t)
  BY <1>2, <1>4 DEF Tidy, AllKnown
<1>7. \A i, j \in After(q, 0) : i # j => Apart(q[i], q[j])
  <2> SUFFICES ASSUME NEW i \in After(q, 0), NEW j \in After(q, 0), i # j
               PROVE  Apart(q[i], q[j])
    OBVIOUS
  <2>1. i + 1 # j + 1
    BY <1>5
  <2> QED
    BY <1>5, <2>1 DEF Tidy, Unique
<1>8. Unique(t, 0)
  BY <1>4, <1>5, <1>7 DEF Tidy, Unique
<1> QED
  BY <1>1, <1>4, <1>6, <1>8 DEF Tidy

----------------------------------------------------------------------------
(* The handlers                                                            *)

WindowStep == node'.win = node.win \/ Window!Next

LEMMA AnsweredStep ==
  ASSUME Answered(node.win, node'.win)
  PROVE  WindowStep
<1>1. CASE node'.win = Purge(node.win, "NEIGHBOR_REPORT")
  BY <1>1, SameRemovals DEF WindowStep, Window!Next, Window!NewReport
<1>2. CASE \E type \in Numbered, seq \in Numbers : node'.win = RcvAck(node.win, type, seq)
  <2>1. PICK type \in Numbered, seq \in Numbers : node'.win = RcvAck(node.win, type, seq)
    BY <1>2
  <2>2. Window!Ack(type, seq)
    BY <2>1, SameRemovals DEF Window!Ack
  <2> QED
    BY <2>2 DEF WindowStep, Window!Next, Window!AckTypes, Numbered
<1>3. CASE \E type \in Requests, key \in Keys : node'.win = RcvSetup(node.win, type, key)
  <2>1. PICK type \in Requests, key \in Keys : node'.win = RcvSetup(node.win, type, key)
    BY <1>3
  <2>2. Window!Setup(type, key)
    BY <2>1, SameRemovals DEF Window!Setup
  <2> QED
    BY <2>2 DEF WindowStep, Window!Next, Window!RequestTypes, Requests, Keys
<1> QED
  BY <1>1, <1>2, <1>3 DEF Answered, WindowStep

LEMMA NodeFit == NodeInv => Fit(node, PoolSize)
  BY DEF NodeInv, Sound

LEMMA AppSendWindow ==
  ASSUME WindowInv, NEW f \in AppFlows, AppSend(f)
  PROVE  Tidy(node', 0) /\ WindowStep
<1> DEFINE p == Own("DATA", f, 0, 0)
<1>1. f \in Flows /\ f \in Keys
  BY SdnNodeAssumption DEF Keys
<1>2. Known(p) /\ ~ BySeq(p)
  BY <1>1, ZeroNumber, OwnKnown DEF ByFlow
<1>3. Fit(node, PoolSize) /\ Tidy(node, 0)
  BY NodeFit DEF WindowInv, ReportInv
<1>4. node' = GetAndEnqueue(node, p)
  BY DEF AppSend
<1> HIDE DEF p
<1> QED
  BY <1>2, <1>3, <1>4, GetTidy, GetFit DEF WindowStep, Known

LEMMA RegisterFlowWindow ==
  ASSUME WindowInv, NEW f \in AppFlows, RegisterFlow(f)
  PROVE  Tidy(node', 0) /\ WindowStep
<1> DEFINE entered == Insert(node, f, "RECEIVE")
           p == Own("REGISTER_FLOWID", f, FreshSeq, 0)
           t == GetAndEnqueue(entered, p)
<1>1. node' \in {t, node}
  BY DEF RegisterFlow
<1>2. Fit(node, PoolSize) /\ Tidy(node, 0)
  BY NodeFit DEF WindowInv, ReportInv
<1>3. FreshSeq \in Numbers /\ Unused(node, 0, FreshSeq)
  BY FreshNumber DEF WindowInv, ReportInv
<1>4. /\ Fit(entered, PoolSize) /\ entered.win = node.win
      /\ Tidy(entered, 0) /\ Unused(entered, 0, FreshSeq)
  BY <1>2, <1>3, InsertFit, InsertTidy DEF Actions
<1> HIDE DEF entered
<1>5. Known(p) /\ p.seq = FreshSeq
  <2>1. f \in Keys
    BY SdnNodeAssumption DEF Keys
  <2> QED
    BY <1>3, <2>1, OwnKnown DEF ByFlow
<1> HIDE DEF p
<1>6. Tidy(t, 0) /\ t.win = entered.win
  BY <1>4, <1>5, GetTidy, GetFit DEF Known
<1> HIDE DEF t
<1> QED
  BY <1>1, <1>2, <1>4, <1>6 DEF WindowStep

LEMMA NdEventWindow ==
  ASSUME WindowInv, NdEvent
  PROVE  Tidy(node', 0) /\ WindowStep /\ nbrs' \in 0 .. MaxReports
<1> DEFINE t == SendNeighborReport(node, FreshSeq, nbrs')
           u == [node EXCEPT !.owed = TRUE]
<1>1. node' \in {t, u}
  BY DEF NdEvent
<1>2. nbrs' \in 0 .. MaxReports
  BY SdnNodeAssumption DEF NdEvent, WindowInv
<1>3. Fit(node, PoolSize) /\ Tidy(node, 0)
  BY NodeFit DEF WindowInv, ReportInv
<1>4. FreshSeq \in Numbers /\ Unused(node, 0, FreshSeq)
  BY FreshNumber DEF WindowInv, ReportInv
<1>5. Tidy(t, 0) /\ (t.win = node.win \/ t.win = Purge(node.win, "NEIGHBOR_REPORT"))
  BY <1>2, <1>3, <1>4, ReportTidy
<1>6. Tidy(u, 0) /\ u.win = node.win
  <2>1. /\ u.win = node.win /\ u.sendQ = node.sendQ /\ u.keep = node.keep
        /\ u.phase = node.phase
    BY <1>3 DEF Fit, Parts, Fields
  <2> HIDE DEF u
  <2> QED
    BY <1>3, <2>1 DEF Tidy, AllKnown, Unique
<1> HIDE DEF t, u
<1>7. Answered(node.win, node'.win)
  BY <1>1, <1>5, <1>6 DEF Answered
<1> QED
  BY <1>1, <1>2, <1>5, <1>6, <1>7, AnsweredStep

LEMMA CdEventWindow ==
  ASSUME WindowInv, CdEvent
  PROVE  Tidy(node', 0) /\ WindowStep
<1> DEFINE steady == [node EXCEPT !.phase = "STEADY"]
           found == Insert(steady, CtrlFlow, "FORWARD")
           paid == [found EXCEPT !.owed = FALSE]
           t == SendNeighborReport(paid, FreshSeq, nbrs)
<1>1. node' \in {t, found}
  BY DEF CdEvent
<1>2. Fit(node, PoolSize) /\ Tidy(node, 0)
  BY NodeFit DEF WindowInv, ReportInv
<1>3. FreshSeq \in Numbers /\ Unused(node, 0, FreshSeq)
  BY FreshNumber DEF WindowInv, ReportInv
<1>4. Fit(steady, PoolSize)
  BY <1>2, PhaseFit
<1>5. /\ steady.win = node.win /\ steady.sendQ = node.sendQ
      /\ steady.keep = node.keep /\ steady.phase = "STEADY"
  BY <1>2 DEF Fit, Parts, Fields
<1> HIDE DEF steady
<1>6. Tidy(steady, 0) /\ Unused(steady, 0, FreshSeq)
  BY <1>2, <1>3, <1>5 DEF Tidy, AllKnown, Unique, Unused
<1>7. /\ Fit(found, PoolSize) /\ found.win = steady.win
      /\ Tidy(found, 0) /\ Unused(found, 0, FreshSeq)
  BY <1>4, <1>6, InsertFit, InsertTidy DEF Actions
<1> HIDE DEF found
<1>8. Fit(paid, PoolSize)
  BY <1>7, OwedFit
<1>9. /\ paid.win = found.win /\ paid.sendQ = found.sendQ
      /\ paid.keep = found.keep /\ paid.phase = found.phase
  BY <1>7 DEF Fit, Parts, Fields
<1> HIDE DEF paid
<1>10. Tidy(paid, 0) /\ Unused(paid, 0, FreshSeq)
  BY <1>7, <1>9 DEF Tidy, AllKnown, Unique, Unused
<1>11. Tidy(t, 0) /\ (t.win = paid.win \/ t.win = Purge(paid.win, "NEIGHBOR_REPORT"))
  BY <1>3, <1>8, <1>10, ReportTidy DEF WindowInv
<1> HIDE DEF t
<1>12. Answered(node.win, node'.win)
  BY <1>1, <1>5, <1>7, <1>9, <1>11 DEF Answered
<1> QED
  BY <1>1, <1>7, <1>11, <1>12, AnsweredStep

LEMMA ReceiveWindow ==
  ASSUME WindowInv, NEW p, Known(p), Receive(p)
  PROVE  /\ Tidy(node', 0) /\ WindowStep
         /\ \A i \in DOMAIN node'.recvQ : Known(node'.recvQ[i])
<1> DEFINE q == Append(node.recvQ, p)
           event == node.event \/ node.recvQ = <<>>
           t == [node EXCEPT !.pool = @ - 1, !.recvQ = q, !.event = event]
<1>1. node' \in {t, node}
  BY DEF Receive
<1> HIDE DEF event
<1>2. Fit(node, PoolSize) /\ Tidy(node, 0)
  BY NodeFit DEF WindowInv, ReportInv
<1>3. /\ t.recvQ = q /\ t.sendQ = node.sendQ /\ t.keep = node.keep
      /\ t.win = node.win /\ t.phase = node.phase
  BY <1>2 DEF Fit, Parts, Fields
<1> HIDE DEF t
<1>4. \A i \in DOMAIN q : Known(q[i])
  <2>1. /\ DOMAIN node.recvQ = 1 .. Len(node.recvQ) /\ Len(node.recvQ) \in Nat
        /\ DOMAIN q = 1 .. Len(node.recvQ) + 1
        /\ \A i \in DOMAIN node.recvQ : q[i] = node.recvQ[i]
        /\ q[Len(node.recvQ) + 1] = p
    BY <1>2, SeqLen, SeqAppend DEF Fit, Parts, IsQueue
  <2> HIDE DEF q
  <2>2. \A i \in DOMAIN q : i \in DOMAIN node.recvQ \/ i = Len(node.recvQ) + 1
    BY <2>1
  <2> QED
    BY <2>1, <2>2 DEF WindowInv
<1>5. Tidy(t, 0)
  BY <1>2, <1>3 DEF Tidy, AllKnown, Unique
<1> QED
  BY <1>1, <1>2, <1>3, <1>4, <1>5 DEF WindowStep, WindowInv

LEMMA InputKnown ==
  ASSUME NEW p \in Inputs
  PROVE  Known(p)
<1>1. RouteKey(p) \in Keys
  BY InputsAssumption, SdnNodeAssumption DEF RouteKey, Keys, ByFlow
<1>2. IsPacket(p) /\ ~ p.own /\ p.key \in Keys
  BY InputsAssumption DEF Keys
<1>3. p.type = "SRC_ROUTED_ACK" => Via(p) # "END"
  BY InputsAssumption DEF Via, ByFlow
<1> QED
  BY <1>1, <1>2, <1>3 DEF Known

LEMMA AckKnown ==
  ASSUME AirOK, NEW p \in onAir
  PROVE  Known(AckFor(p))
<1>1. p \in OwnPackets /\ p.type \in Numbered
  BY DEF AirOK, BySeq, Numbered
<1>2. p.key \in Keys /\ p.seq \in Numbers
  BY <1>1, SdnNodeAssumption DEF OwnPackets, Keys
<1>3. /\ AckFor(p).type = "SRC_ROUTED_ACK" /\ AckFor(p).key = p.key
      /\ AckFor(p).seq = p.seq /\ AckFor(p).own = FALSE
      /\ AckFor(p).act = p.type /\ AckFor(p).dest = Self
      /\ DOMAIN AckFor(p) = {"type", "key", "seq", "own", "ver", "via", "act", "dest"}
  BY DEF AckFor
<1>4. IsPacket(AckFor(p))
  BY <1>3 DEF IsPacket, IsSetup
<1>5. RouteKey(AckFor(p)) \in Keys
  BY <1>3, SdnNodeAssumption DEF RouteKey, ByFlow, Keys
<1> QED
  BY <1>1, <1>2, <1>3, <1>4, <1>5 DEF Known

LEMMA CoreStepWindow ==
  ASSUME WindowInv, CoreStep
  PROVE  /\ Tidy(node', 0) /\ WindowStep
         /\ \A i \in DOMAIN node'.recvQ : Known(node'.recvQ[i])
<1> DEFINE p == Head(node.recvQ)
           q == Tail(node.recvQ)
           popped == [node EXCEPT !.recvQ = q]
           sent == GetAndEnqueue(popped, p)
           treated == Treat(popped, p, FreshSeq)
           done == IF Action(popped, p) = "FORWARD" THEN sent ELSE treated
           event == done.recvQ # <<>>
           t == [done EXCEPT !.pool = @ + 1, !.event = event]
<1>0. NodeInv /\ Tidy(node, 0) /\ nbrs \in 0 .. MaxReports
  BY DEF WindowInv, ReportInv
<1>1. node' = t /\ node.recvQ # <<>>
  BY <1>0 DEF CoreStep, NodeInv, Sound
<1>2. IsQueue(node.recvQ) /\ IsSeq(node.recvQ)
  BY <1>0 DEF NodeInv, Sound, Fit, Parts, IsQueue
<1>3. /\ Known(p) /\ ~ p.own /\ IsQueue(q) /\ \A i \in DOMAIN q : Known(q[i])
      /\ Len(q) = Len(node.recvQ) - 1 /\ Len(node.recvQ) \in Nat \ {0}
  <2>1. /\ IsSeq(q) /\ Len(q) = Len(node.recvQ) - 1 /\ Len(node.recvQ) \in Nat \ {0}
        /\ 1 \in DOMAIN node.recvQ /\ p = node.recvQ[1]
        /\ \A i \in DOMAIN q : i + 1 \in DOMAIN node.recvQ /\ q[i] = node.recvQ[i + 1]
    BY <1>1, <1>2, SeqTail
  <2> HIDE DEF p, q
  <2> QED
    BY <1>2, <2>1 DEF IsQueue, NoneOwn, WindowInv, ReportInv
<1> HIDE DEF p, q
<1>4. /\ DOMAIN popped = Fields /\ popped.recvQ = q
      /\ popped.status = node.status /\ popped.sendQ = node.sendQ
      /\ popped.keep = node.keep /\ popped.pool = node.pool /\ popped.win = node.win
      /\ popped.table = node.table /\ popped.phase = node.phase
  BY <1>0 DEF NodeInv, Sound, Fit, Parts, Fields
<1> HIDE DEF popped
<1>5. Held(popped) = PoolSize - 1
  <2> DEFINE a == node.pool
             b == Len(node.sendQ)
             c == Len(node.recvQ)
             e == Cardinality(KeptAt(node.keep))
  <2>1. Held(popped) = a + b + (c - 1) + e
    BY <1>3, <1>4 DEF Held
  <2>2. a \in Nat /\ b \in Nat /\ c \in Nat /\ e \in Nat /\ PoolSize = a + b + c + e
    BY <1>0, HeldTypes DEF NodeInv, Sound, Fit
  <2> HIDE DEF a, b, c, e
  <2> QED
    BY <2>1, <2>2
<1>6. Parts(popped, PoolSize - 1)
  BY <1>0, <1>3, <1>4, <1>5 DEF NodeInv, Sound, Fit, Parts
<1>7. Fit(popped, PoolSize - 1) /\ Steady(popped)
  BY <1>0, <1>4, <1>6 DEF NodeInv, Sound, Fit, Awake, NoneWaits, Steady, Routed
<1>8. Tidy(popped, 0) /\ FreshSeq \in Numbers /\ Unused(popped, 0, FreshSeq)
  BY <1>0, <1>4, FreshNumber DEF WindowInv, Tidy, AllKnown, Unique, Unused
<1>9. ~ BySeq(p)
  BY <1>3 DEF BySeq
<1>10. /\ Fit(sent, PoolSize - 1) /\ Keeps(popped, sent) /\ Tidy(sent, 0)
       /\ sent.win = popped.win
  BY <1>3, <1>7, <1>8, <1>9, GetFit, GetTidy DEF Known
<1>11. /\ Fit(treated, PoolSize - 1) /\ Keeps(popped, treated) /\ Tidy(treated, 0)
       /\ Answered(popped.win, treated.win)
  BY <1>0, <1>3, <1>7, <1>8, <1>9, TreatFit, TreatTidy DEF Known
<1> HIDE DEF sent, treated
<1>12. /\ Fit(done, PoolSize - 1) /\ Keeps(popped, done) /\ Tidy(done, 0)
       /\ Answered(popped.win, done.win)
  BY <1>10, <1>11 DEF Answered
<1> HIDE DEF done, event
<1>13. /\ t.sendQ = done.sendQ /\ t.recvQ = done.recvQ /\ t.keep = done.keep
       /\ t.win = done.win /\ t.phase = done.phase
  BY <1>12 DEF Fit, Parts, Fields
<1> HIDE DEF t
<1>14. Tidy(t, 0) /\ t.recvQ = q
  BY <1>4, <1>12, <1>13 DEF Tidy, AllKnown, Unique, Keeps
<1>15. WindowStep
  BY <1>1, <1>4, <1>12, <1>13, AnsweredStep
<1> QED
  BY <1>1, <1>3, <1>14, <1>15

\* The head of the send queue is told apart from all the rest.
LEMMA HeadTidy ==
  ASSUME NEW s, NEW n, Fit(s, n), Tidy(s, 0), s.sendQ # <<>>
  PROVE  LET p == Head(s.sendQ)
         IN  /\ Tidy(s, 1) /\ Known(p) /\ 1 \in DOMAIN s.sendQ /\ p = s.sendQ[1]
             /\ BySeq(p) => Unused(s, 1, p.seq)
             /\ \A seq : Unused(s, 0, seq) => Unused(s, 1, seq)
<1> DEFINE p == Head(s.sendQ)
<1>1. 1 \in DOMAIN s.sendQ /\ p = s.sendQ[1] /\ DOMAIN s.sendQ \subseteq Nat
  BY SeqTail, SeqLen DEF Fit, Parts, IsQueue
<1> HIDE DEF p
<1>2. /\ 1 \in After(s.sendQ, 0)
      /\ \A i \in After(s.sendQ, 1) : i \in After(s.sendQ, 0) /\ i # 1
  BY <1>1 DEF After
<1>3. Tidy(s, 1) /\ \A seq : Unused(s, 0, seq) => Unused(s, 1, seq)
  BY <1>2 DEF Tidy, Unique, Unused
<1>4. Known(p)
  BY <1>1 DEF Tidy, AllKnown
<1>5. BySeq(p) => Unused(s, 1, p.seq)
  <2>1. /\ \A i \in After(s.sendQ, 1) : Apart(p, s.sendQ[i])
        /\ \A i \in KeptAt(s.keep) : Apart(p, s.keep[i])
        /\ \A i \in Slots : s.win.live[i] => Apart(p, s.win.pkt[i])
    BY <1>1, <1>2 DEF Tidy, Unique
  <2> QED
    BY <2>1 DEF Apart, Unused
<1> QED
  BY <1>1, <1>3, <1>4, <1>5 DEF p

LEMMA SendStepWindow ==
  ASSUME WindowInv, SendStep
  PROVE  Tidy(node', 0) /\ WindowStep /\ AirOK'
<1> DEFINE p == Head(node.sendQ)
<1>1. Fit(node, PoolSize) /\ Tidy(node, 0) /\ Steady(node)
  BY DEF WindowInv, ReportInv, NodeInv, Sound
<1>2. node.sendQ # <<>>
  BY <1>1 DEF Fit, Awake, SendStep
<1>3. /\ Tidy(node, 1) /\ Known(p) /\ (BySeq(p) => Unused(node, 1, p.seq))
      /\ \A seq : Unused(node, 0, seq) => Unused(node, 1, seq)
  BY <1>1, <1>2, HeadTidy
<1>4. FreshSeq \in Numbers /\ Unused(node, 1, FreshSeq)
  BY <1>3, FreshNumber DEF WindowInv, ReportInv
<1>5. CASE Action(node, p) = "FORWARD"
  <2> DEFINE t == [node EXCEPT !.status = "ACK_WAIT"]
  <2>1. /\ node' = t
        /\ \/ onAir' = onAir
           \/ BySeq(p) /\ Cardinality(onAir) < MaxOnAir /\ onAir' = onAir \cup {p}
    BY <1>5 DEF SendStep
  <2> HIDE DEF p
  <2>2. t.sendQ = node.sendQ /\ t.keep = node.keep /\ t.win = node.win
        /\ t.phase = node.phase
    BY <1>1 DEF Fit, Parts, Fields
  <2> HIDE DEF t
  <2>3. Tidy(t, 0)
    BY <1>1, <2>2 DEF Tidy, AllKnown, Unique
  <2>4. AirOK'
    <3>1. CASE onAir' = onAir
      BY <3>1 DEF WindowInv, AirOK
    <3>2. CASE BySeq(p) /\ Cardinality(onAir) < MaxOnAir /\ onAir' = onAir \cup {p}
      <4>1. p \in OwnPackets
        BY <1>3, <3>2 DEF BySeq, Known
      <4>2. IsFiniteSet(onAir) /\ Cardinality(onAir) \in Nat
        BY FS_CardinalityType DEF WindowInv, AirOK
      <4>3. /\ IsFiniteSet(onAir \cup {p})
            /\ Cardinality(onAir \cup {p}) \in {Cardinality(onAir), Cardinality(onAir) + 1}
        BY <4>2, FS_AddElement
      <4>4. Cardinality(onAir') <= MaxOnAir
        BY <3>2, <4>2, <4>3, SdnNodeAssumption
      <4> QED
        BY <3>2, <4>1, <4>3, <4>4 DEF WindowInv, AirOK
    <3> QED
      BY <2>1, <3>1, <3>2
  <2> QED
    BY <2>1, <2>2, <2>3, <2>4 DEF WindowStep
<1>6. CASE Action(node, p) # "FORWARD"
  <2> DEFINE u == Treat(node, p, FreshSeq)
             t == DequeueHead(u)
  <2>1. node' = t /\ onAir' = onAir
    BY <1>6 DEF SendStep
  <2> HIDE DEF p
  <2>2. Fit(u, PoolSize) /\ Keeps(node, u)
    BY <1>1, <1>3, TreatFit DEF Known
  <2>3. Tidy(u, 1) /\ Answered(node.win, u.win)
    BY <1>1, <1>3, <1>4, TreatTidy DEF WindowInv
  <2> HIDE DEF u
  <2>4. Tidy(t, 0) /\ t.win = u.win
    BY <1>2, <2>2, <2>3, DequeueTidy DEF Keeps
  <2> HIDE DEF t
  <2>5. WindowStep
    BY <2>1, <2>3, <2>4, AnsweredStep
  <2> QED
    BY <2>1, <2>4, <2>5 DEF WindowInv, AirOK
<1> QED
  BY <1>5, <1>6

\* A slot of the window holds what it held, or the awaited packet.
LEMMA AwaitAckSlots ==
  ASSUME NEW w, IsWindow(w), NEW p
  PROVE  LET v == AwaitAck(w, p)
         IN  \A i \in Slots :
               \/ v.pkt[i] = w.pkt[i] /\ (v.live[i] => w.live[i])
               \/ v.pkt[i] = p /\ p.type \in Reliable /\ p.own
<1> DEFINE v == AwaitAck(w, p)
           OK(u) == \A i \in Slots :
                      \/ u.pkt[i] = w.pkt[i] /\ (u.live[i] => w.live[i])
                      \/ u.pkt[i] = p
<1>1. OK(w)
  OBVIOUS
<1>2. OK(Refresh(w, p))
  <2> DEFINE R == Redundant(w, p)
             pkt == [i \in Slots |-> IF i \in R THEN p ELSE w.pkt[i]]
  <2>1. Refresh(w, p) = w \/ Refresh(w, p) = [pkt |-> pkt, live |-> w.live, count |-> w.count]
    BY DEF Refresh
  <2>2. \A i \in Slots : pkt[i] = w.pkt[i] \/ pkt[i] = p
    OBVIOUS
  <2> HIDE DEF pkt
  <2> QED
    BY <2>1, <2>2
<1>3. OK(GiveUp(w))
  BY DEF GiveUp, IsWindow
<1>4. OK(Store(w, p))
  <2> DEFINE f == First(FreeSlots(w))
             pkt == [w.pkt EXCEPT ![f] = p]
             live == [w.live EXCEPT ![f] = TRUE]
  <2>1. Store(w, p) = [pkt |-> pkt, live |-> live, count |-> f + 1]
    BY DEF Store
  <2> HIDE DEF f
  <2>2. \A i \in Slots : \/ pkt[i] = w.pkt[i] /\ (live[i] => w.live[i])
                         \/ pkt[i] = p
    BY DEF IsWindow
  <2> HIDE DEF pkt, live
  <2> QED
    BY <2>1, <2>2
<1>5. CASE p.type \notin Reliable \/ ~ p.own
  BY <1>5 DEF AwaitAck
<1>6. CASE ~ (p.type \notin Reliable \/ ~ p.own)
  <2>1. OK(v)
    BY <1>1, <1>2, <1>3, <1>4 DEF AwaitAck
  <2> HIDE DEF v
  <2>2. p.type \in Reliable /\ p.own
    BY <1>6
  <2> QED
    BY <2>1, <2>2 DEF v
<1> QED
  BY <1>5, <1>6

\* What the MAC layer is done with is what RetxWindow awaits.
LEMMA DoneStep ==
  ASSUME NEW p, Known(p), p.type \in Reliable, p.own, node'.win = AwaitAck(node.win, p),
         AllKnown(node), BySeq(p) => Unused(node, 1, p.seq)
  PROVE  Window!Next
<1>1. p \in OwnPackets
  BY DEF Known
<1>2. p \in Window!Packets
  BY <1>1 DEF OwnPackets, Window!Packets, Keys, Window!Reliable, Reliable, ByFlow
<1>3. Window!Distinct(p.type, p.seq)
  <2> SUFFICES ASSUME p.type \in Numbered, NEW i \in Slots, node.win.live[i],
                      node.win.pkt[i].type = p.type
               PROVE  node.win.pkt[i].seq # p.seq
    BY SameSlots DEF Window!Distinct, Window!AckTypes, Numbered
  <2>1. BySeq(p) /\ BySeq(node.win.pkt[i])
    BY DEF AllKnown, BySeq, Numbered
  <2> QED
    BY <2>1 DEF Unused
<1>4. Window!Done(p)
  BY <1>3, SameAwaitAck DEF Window!Done
<1> QED
  BY <1>2, <1>4 DEF Window!Next

LEMMA MacDoneWindow ==
  ASSUME WindowInv, MacDone
  PROVE  Tidy(node', 0) /\ WindowStep
<1> DEFINE p == Head(node.sendQ)
           w == AwaitAck(node.win, p)
           u == [node EXCEPT !.win = w]
           t == DequeueHead(u)
<1>1. node' = t
  BY DEF MacDone
<1>2. Fit(node, PoolSize) /\ Tidy(node, 0) /\ Single(node)
  BY DEF WindowInv, ReportInv, NodeInv, Sound
<1>3. node.sendQ # <<>>
  BY <1>2 DEF Fit, Awake, MacDone
<1>4. /\ Tidy(node, 1) /\ Known(p) /\ (BySeq(p) => Unused(node, 1, p.seq))
      /\ 1 \in DOMAIN node.sendQ /\ p = node.sendQ[1]
  BY <1>2, <1>3, HeadTidy
<1> HIDE DEF p
<1>5. /\ IsWindow(w)
      /\ \A i \in Slots : \/ w.pkt[i] = node.win.pkt[i] /\ (w.live[i] => node.win.live[i])
                          \/ w.pkt[i] = p /\ p.type \in Reliable /\ p.own
  BY <1>2, <1>4, AwaitAckWindow, AwaitAckSlots DEF Fit, Parts, Known
<1> HIDE DEF w
<1>6. Fit(u, PoolSize) /\ u.win = w /\ u.sendQ = node.sendQ /\ u.phase = node.phase
      /\ u.keep = node.keep
  <2>1. u.keep = node.keep
    BY <1>2 DEF Fit, Parts, Fields
  <2> HIDE DEF u
  <2> QED
    BY <1>2, <1>5, <2>1, WinFit DEF u
<1> HIDE DEF u
<1>7. AllKnown(u)
  BY <1>4, <1>5, <1>6 DEF Tidy, AllKnown
<1>8. Unique(u, 1)
  <2>1. BySeq(p) => /\ \A i \in After(u.sendQ, 1) : Apart(u.sendQ[i], p)
                    /\ \A i \in KeptAt(u.keep) : Apart(u.keep[i], p)
    BY <1>4, <1>6 DEF Unused, Apart
  <2>2. \A q : ~ BySeq(p) => Apart(q, p)
    BY DEF Apart
  <2> QED
    BY <1>4, <1>5, <1>6, <2>1, <2>2 DEF Tidy, Unique
<1>9. u.phase = "AWAITING" => ReportSlots(u.win) = {}
  <2> SUFFICES ASSUME node.phase = "AWAITING", NEW i \in Slots,
                      w.pkt[i].type = "NEIGHBOR_REPORT"
               PROVE  FALSE
    BY <1>6 DEF ReportSlots
  <2>1. ReportSlots(node.win) = {} /\ ReportsIn(node.sendQ) = {}
    BY <1>2 DEF Tidy, Single
  <2>2. ~ IsReport(p)
    BY <1>4, <2>1 DEF ReportsIn
  <2> QED
    BY <1>5, <2>1, <2>2 DEF ReportSlots, IsReport
<1>10. Tidy(t, 0) /\ t.win = w
  <2>1. Tidy(u, 1)
    BY <1>7, <1>8, <1>9 DEF Tidy
  <2> QED
    BY <1>3, <1>6, <2>1, DequeueTidy
<1> HIDE DEF t
<1>11. WindowStep
  <2>1. CASE p.type \in Reliable /\ p.own
    BY <1>1, <1>4, <1>10, <2>1, DoneStep DEF w, WindowStep, Tidy
  <2>2. CASE ~ (p.type \in Reliable /\ p.own)
    BY <1>1, <1>10, <2>2 DEF w, AwaitAck, WindowStep
  <2> QED
    BY <2>1, <2>2
<1> QED
  BY <1>1, <1>10, <1>11

LEMMA NumberedKnown ==
  ASSUME NEW p, Known(p), p.own, NEW seq \in Numbers
  PROVE  LET m == [p EXCEPT !.seq = seq]
         IN  /\ Known(m) /\ m.seq = seq /\ m.type = p.type /\ (BySeq(m) <=> BySeq(p))
             /\ m.own
<1> DEFINE m == [p EXCEPT !.seq = seq]
<1>1. p \in OwnPackets
  BY DEF Known
<1>2. /\ m \in OwnPackets /\ m.seq = seq /\ m.type = p.type /\ m.key = p.key
      /\ m.own = p.own /\ p.type \in ByFlow
  BY <1>1 DEF OwnPackets, ByFlow
<1>3. IsPacket(m)
  BY SeqPacket DEF Known
<1> HIDE DEF m
<1>4. RouteKey(m) = RouteKey(p)
  BY <1>2 DEF RouteKey
<1>5. p.type # "SRC_ROUTED_ACK"
  BY <1>2 DEF ByFlow
<1> QED
  BY <1>2, <1>3, <1>4, <1>5 DEF Known, BySeq, m

LEMMA TimerSlots ==
  ASSUME NEW w, IsWindow(w), NEW i \in Slots, NEW seq, "seq" \in DOMAIN w.pkt[i],
         "type" \in DOMAIN w.pkt[i]
  PROVE  LET v == TimerRequeued(w, i, seq)
         IN  /\ \A j \in Slots : v.live[j] => w.live[j] /\ v.pkt[j] = w.pkt[j]
             /\ ReportSlots(v) = ReportSlots(w)
<1> DEFINE p == [w.pkt[i] EXCEPT !.seq = seq]
           pkt == [w.pkt EXCEPT ![i] = p]
           u == [w EXCEPT !.pkt = pkt]
           live == [w.live EXCEPT ![i] = FALSE]
           v == TimerRequeued(w, i, seq)
<1>1. p.type = w.pkt[i].type
  OBVIOUS
<1>2. v = RemoveElement(u, i)
  BY DEF TimerRequeued
<1> HIDE DEF p
<1>3. /\ \A j \in Slots : pkt[j].type = w.pkt[j].type
      /\ \A j \in Slots : j # i => pkt[j] = w.pkt[j]
  BY <1>1 DEF IsWindow
<1> HIDE DEF pkt
<1>4. u.pkt = pkt /\ u.live = w.live
  BY DEF IsWindow
<1> HIDE DEF u
<1>5. v.pkt = pkt /\ v.live = live
  BY <1>2, <1>4 DEF RemoveElement
<1>6. \A j \in Slots : live[j] => w.live[j] /\ j # i
  BY DEF IsWindow
<1> HIDE DEF live, v
<1>7. ReportSlots(v) = ReportSlots(w)
  BY <1>3, <1>5 DEF ReportSlots
<1> QED
  BY <1>3, <1>5, <1>6, <1>7 DEF v

LEMMA RequeueWindow ==
  ASSUME WindowInv, NEW i \in Slots, Timer(i)
  PROVE  Tidy(node', 0) /\ WindowStep
<1> DEFINE p == node.win.pkt[i]
           seq == IF BySeq(p) THEN FreshSeq ELSE 0
           m == [p EXCEPT !.seq = seq]
           u == GetAndEnqueue(node, m)
           w == TimerRequeued(u.win, i, seq)
           t == [u EXCEPT !.win = w]
<1>1. node' = t /\ node.win.live[i]
  BY DEF Timer
<1>2. Fit(node, PoolSize) /\ Tidy(node, 0)
  BY DEF WindowInv, ReportInv, NodeInv, Sound
<1>3. Known(p) /\ p.own
  BY <1>1, <1>2 DEF Tidy, AllKnown
<1>4. seq \in Numbers /\ (BySeq(p) => Unused(node, 0, seq))
  BY ZeroNumber, FreshNumber DEF WindowInv, ReportInv
<1> HIDE DEF seq, p
<1>5. /\ Known(m) /\ m.seq = seq /\ (BySeq(m) <=> BySeq(p))
  BY <1>3, <1>4, NumberedKnown
<1> HIDE DEF m
<1>6. Fit(u, PoolSize) /\ u.win = node.win /\ Tidy(u, 0)
  BY <1>2, <1>4, <1>5, GetTidy, GetFit DEF Known
<1> HIDE DEF u
<1>7. IsWindow(w)
  BY <1>1, <1>6, TimerWindow DEF Fit, Parts
<1>8. /\ \A j \in Slots : w.live[j] => u.win.live[j] /\ w.pkt[j] = u.win.pkt[j]
      /\ ReportSlots(w) = ReportSlots(u.win)
  BY <1>3, <1>6, TimerSlots DEF Fit, Parts, Known, IsPacket, p
<1>9. Window!Timer(i, seq)
  <2>1. Window!Distinct(p.type, seq)
    <3> SUFFICES ASSUME p.type \in Numbered, NEW j \in Slots, node.win.live[j],
                        node.win.pkt[j].type = p.type
                 PROVE  node.win.pkt[j].seq # seq
      BY SameSlots DEF Window!Distinct, Window!AckTypes, Numbered
    <3>1. BySeq(p) /\ BySeq(node.win.pkt[j])
      BY <1>2, <1>3 DEF Tidy, AllKnown, BySeq, Numbered
    <3> QED
      BY <1>4, <3>1 DEF Unused
  <2>2. node'.win = w
    BY <1>1, <1>6 DEF Fit, Parts, Fields
  <2>3. w = Window!TimerRequeued(node.win, i, seq)
    BY <1>6, SameTimer
  <2> QED
    BY <1>1, <2>1, <2>2, <2>3 DEF Window!Timer, p
<1> HIDE DEF w
<1>10. /\ t.win = w /\ t.sendQ = u.sendQ /\ t.keep = u.keep /\ t.phase = u.phase
  BY <1>6 DEF Fit, Parts, Fields
<1> HIDE DEF t
<1>11. AllKnown(t) /\ Unique(t, 0)
  BY <1>6, <1>8, <1>10 DEF Tidy, AllKnown, Unique
<1>12. Tidy(t, 0)
  BY <1>6, <1>8, <1>10, <1>11 DEF Tidy
<1>13. WindowStep
  BY <1>4, <1>9, SameSlots DEF WindowStep, Window!Next
<1> QED
  BY <1>1, <1>12, <1>13

----------------------------------------------------------------------------
(* All together                                                            *)

LEMMA InitWindow == Init => WindowInv
<1> SUFFICES ASSUME Init PROVE WindowInv
  OBVIOUS
<1>1. ReportInv
  BY InitSound, InitReports DEF ReportInv
<1>2. /\ node.sendQ = <<>> /\ node.recvQ = <<>>
      /\ node.keep = [i \in 1 .. KeepMax |-> <<>>] /\ node.win = EmptyWindow
      /\ nbrs = 0 /\ onAir = {}
  BY DEF Init
<1>3. DOMAIN <<>> = {}
  OBVIOUS
<1>4. After(node.sendQ, 0) = {} /\ DOMAIN node.sendQ = {} /\ KeptAt(node.keep) = {}
  BY <1>2, <1>3 DEF After, KeptAt
<1>5. /\ \A i \in Slots : ~ node.win.live[i]
      /\ ReportSlots(node.win) = {}
  BY <1>2 DEF EmptyWindow, Blank, ReportSlots
<1>6. Tidy(node, 0)
  BY <1>4, <1>5 DEF Tidy, AllKnown, Unique
<1>7. AirOK
  BY <1>2, FS_EmptySet, SdnNodeAssumption DEF AirOK
<1> QED
  BY <1>1, <1>2, <1>3, <1>6, <1>7, SdnNodeAssumption DEF WindowInv

LEMMA LessOnAir == ASSUME AirOK, onAir' \subseteq onAir PROVE AirOK'
<1>1. /\ IsFiniteSet(onAir') /\ Cardinality(onAir') <= Cardinality(onAir)
      /\ Cardinality(onAir) \in Nat /\ Cardinality(onAir') \in Nat
  BY FS_Subset, FS_CardinalityType DEF AirOK
<1> QED
  BY <1>1, SdnNodeAssumption DEF AirOK

LEMMA NextWindow ==
  ASSUME WindowInv, [Next]_vars
  PROVE  WindowInv' /\ WindowStep
<1>0. ReportInv'
  BY NextReports DEF WindowInv
<1> DEFINE Heard == \A i \in DOMAIN node'.recvQ : Known(node'.recvQ[i])
           Good == Tidy(node', 0) /\ Heard /\ AirOK' /\ nbrs' \in 0 .. MaxReports /\ WindowStep
<1>1. CASE \E f \in AppFlows : AppSend(f) \/ RegisterFlow(f)
  <2> PICK f \in AppFlows : AppSend(f) \/ RegisterFlow(f)
    BY <1>1
  <2>1. node'.recvQ = node.recvQ /\ nbrs' = nbrs /\ onAir' = onAir
    BY AppSendReports, RegisterFlowReports DEF AppSend, RegisterFlow, WindowInv, ReportInv
  <2>2. Tidy(node', 0) /\ WindowStep
    BY AppSendWindow, RegisterFlowWindow
  <2>3. Good
    BY <2>1, <2>2 DEF WindowInv, AirOK
  <2> QED
    BY <1>0, <2>3 DEF WindowInv
<1>2. CASE NdEvent
  <2>1. node'.recvQ = node.recvQ /\ onAir' = onAir
    BY <1>2, NdEventReports DEF NdEvent, WindowInv, ReportInv
  <2>2. Good
    BY <1>2, <2>1, NdEventWindow DEF WindowInv, AirOK
  <2> QED
    BY <1>0, <2>2 DEF WindowInv
<1>3. CASE CdEvent
  <2>1. node'.recvQ = node.recvQ /\ nbrs' = nbrs /\ onAir' = onAir
    BY <1>3, CdEventReports DEF CdEvent, WindowInv, ReportInv
  <2>2. Good
    BY <1>3, <2>1, CdEventWindow DEF WindowInv, AirOK
  <2> QED
    BY <1>0, <2>2 DEF WindowInv
<1>4. CASE ReceiveInput
  <2> PICK p \in Inputs : Receive(p) /\ UNCHANGED onAir
    BY <1>4 DEF ReceiveInput
  <2>1. Known(p)
    BY InputKnown
  <2>2. Good
    BY <2>1, ReceiveWindow DEF Receive, WindowInv, AirOK
  <2> QED
    BY <1>0, <2>2 DEF WindowInv
<1>5. CASE ReceiveAck
  <2> PICK p \in onAir : Receive(AckFor(p)) /\ onAir' = onAir \ {p}
    BY <1>5 DEF ReceiveAck
  <2>1. Known(AckFor(p))
    BY AckKnown DEF WindowInv
  <2>2. Tidy(node', 0) /\ WindowStep /\ Heard
    BY <2>1, ReceiveWindow
  <2>3. AirOK' /\ nbrs' = nbrs
    BY LessOnAir DEF Receive, WindowInv
  <2> QED
    BY <1>0, <2>2, <2>3 DEF WindowInv
<1>6. CASE CoreStep
  <2>1. nbrs' = nbrs /\ onAir' = onAir
    BY <1>6 DEF CoreStep
  <2>2. Good
    BY <1>6, <2>1, CoreStepWindow DEF WindowInv, AirOK
  <2> QED
    BY <1>0, <2>2 DEF WindowInv
<1>7. CASE SendStep
  <2>1. node'.recvQ = node.recvQ /\ nbrs' = nbrs
    BY <1>7, SendStepReports DEF SendStep, WindowInv, ReportInv
  <2>2. Good
    BY <1>7, <2>1, SendStepWindow DEF WindowInv
  <2> QED
    BY <1>0, <2>2 DEF WindowInv
<1>8. CASE Lose
  <2>1. node' = node /\ nbrs' = nbrs /\ onAir' \subseteq onAir
    BY <1>8 DEF Lose
  <2>2. AirOK'
    BY <2>1, LessOnAir DEF WindowInv
  <2> QED
    BY <1>0, <2>1, <2>2 DEF WindowInv, WindowStep
<1>9. CASE MacDone
  <2>1. node'.recvQ = node.recvQ /\ nbrs' = nbrs /\ onAir' = onAir
    BY <1>9, MacDoneReports DEF MacDone, WindowInv, ReportInv
  <2>2. Good
    BY <1>9, <2>1, MacDoneWindow DEF WindowInv, AirOK
  <2> QED
    BY <1>0, <2>2 DEF WindowInv
<1>10. CASE \E i \in Slots : Timer(i)
  <2> PICK i \in Slots : Timer(i)
    BY <1>10
  <2>1. node'.recvQ = node.recvQ /\ nbrs' = nbrs /\ onAir' = onAir
    BY TimerReports DEF Timer, WindowInv, ReportInv
  <2>2. Good
    BY <2>1, RequeueWindow DEF WindowInv, AirOK
  <2> QED
    BY <1>0, <2>2 DEF WindowInv
<1>11. CASE UNCHANGED vars
  <2>1. node' = node /\ nbrs' = nbrs /\ onAir' = onAir
    BY <1>11 DEF vars
  <2> QED
    BY <1>0, <2>1 DEF WindowInv, WindowStep, AirOK
<1> QED
  BY <1>1, <1>2, <1>3, <1>4, <1>5, <1>6, <1>7, <1>8, <1>9, <1>10, <1>11 DEF Next

\* Nothing the node does changes its retransmission window in another way
\* than RetxWindow does: what is awaited is an own request or report with a
\* number no awaited packet has (sld_await_ack after sdn_send_done, sld_f),
\* slots are freed by the answer to them or by a newer report
\* (sdn-process-packets.c, sdn-send.c), and by nothing else.
THEOREM WindowRefined == Spec => ImplementsWindow
<1>1. Init => Window!Init
  BY SameEmpty DEF Init, Window!Init
<1>2. WindowInv /\ [Next]_vars => WindowInv'
  BY NextWindow
<1>3. WindowInv /\ [Next]_vars => [node'.win # node.win => Window!Next]_vars
  BY NextWindow DEF WindowStep
<1> QED
  BY <1>1, <1>2, <1>3, InitWindow, PTL DEF Spec, ImplementsWindow
=============================================================================
