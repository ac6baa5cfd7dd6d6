------------------------- MODULE ReliabilityProofs -------------------------
(***************************************************************************)
(* Proofs about the two ends of the retransmission.                        *)
(*                                                                         *)
(* RetxWindow, for windows of every size: its invariants, an action        *)
(* property, and that it implements PendingRequests.  The inductive        *)
(* invariant is Good(win): the type, the full prefix and the absence of    *)
(* shadows.  OnePerRequest alone is not inductive: that a refilled slot    *)
(* does not repeat a request needs the redundancy check over all live      *)
(* slots, and that an answer frees the slot it is meant for needs to know  *)
(* about the contents of freed slots too.  The full prefix gives both: a   *)
(* slot is only filled while all slots below it are live.                  *)
(*                                                                         *)
(* FlowSetup, for every set of flows and settings, every order of arrival  *)
(* and every retransmission time: see its section.                         *)
(***************************************************************************)
EXTENDS RetxWindow, FlowSetup, NumberLemmas

WindowType == [pkt   : [Slots -> Packets \cup {Blank}],
               live  : [Slots -> BOOLEAN],
               count : 0 .. MaxTxWindow]

Clash(p, q) ==
  \/ SameRequest(p, q)
  \/ q.type \in AckTypes /\ p.type = q.type /\ p.seq = q.seq

Full(w) == \A i \in Slots : i < w.count => w.live[i]

Unshadowed(w) == \A i, j \in Slots : i < j /\ w.live[j] => ~ Clash(w.pkt[i], w.pkt[j])

Good(w) == w \in WindowType /\ Full(w) /\ Unshadowed(w)

\* What Distinct says of a packet of the given type and number.
Unused(w, type, seq) ==
  type \in AckTypes =>
    \A i \in Slots : w.live[i] /\ w.pkt[i].type = type => w.pkt[i].seq # seq

----------------------------------------------------------------------------
\* A set of slots has a first one (the searches of sdn-send.c are for loops
\* that stop at the first match).
LEMMA FirstIsLeast ==
  ASSUME NEW S, S \subseteq Slots, S # {}
  PROVE  First(S) \in S /\ \A j \in S : First(S) <= j
<1>1. S \subseteq Nat
  BY MaxTxWindowAssumption DEF Slots
<1> QED
  BY <1>1, HasLeast DEF First

\* The parts of a window.
LEMMA WindowParts ==
  ASSUME NEW w \in WindowType
  PROVE  /\ w.pkt \in [Slots -> Packets \cup {Blank}]
         /\ w.live \in [Slots -> BOOLEAN]
         /\ w.count \in 0 .. MaxTxWindow
         /\ w = [pkt |-> w.pkt, live |-> w.live, count |-> w.count]
  BY DEF WindowType

LEMMA Remade ==
  ASSUME NEW pkt \in [Slots -> Packets \cup {Blank}],
         NEW live \in [Slots -> BOOLEAN],
         NEW count \in 0 .. MaxTxWindow
  PROVE  [pkt |-> pkt, live |-> live, count |-> count] \in WindowType
  BY DEF WindowType

\* Freeing a slot keeps a window good.
LEMMA RemoveElementGood ==
  ASSUME NEW w, Good(w), NEW i \in Slots
  PROVE  Good(RemoveElement(w, i))
<1> DEFINE v == RemoveElement(w, i)
           live == [w.live EXCEPT ![i] = FALSE]
           count == IF i < w.count THEN i ELSE w.count
<1>1. /\ w \in WindowType /\ w.pkt \in [Slots -> Packets \cup {Blank}]
      /\ w.live \in [Slots -> BOOLEAN] /\ w.count \in 0 .. MaxTxWindow
      /\ w = [pkt |-> w.pkt, live |-> w.live, count |-> w.count]
  BY WindowParts DEF Good
<1>2. v = [pkt |-> w.pkt, live |-> live, count |-> count]
  BY DEF RemoveElement
<1>3. live \in [Slots -> BOOLEAN] /\ count \in 0 .. MaxTxWindow
  BY <1>1, MaxTxWindowAssumption DEF Slots
<1>4. v \in WindowType
  <2> HIDE DEF v, live, count
  <2> QED
    BY <1>1, <1>2, <1>3, Remade
<1>5. /\ v.pkt = w.pkt /\ v.live = live /\ v.count = count
  BY <1>2
<1>6. Full(v)
  <2> SUFFICES ASSUME NEW j \in Slots, j < count PROVE live[j]
    BY <1>5 DEF Full
  <2>1. j < w.count /\ j # i
    BY <1>1, MaxTxWindowAssumption DEF Slots
  <2> QED
    BY <1>1, <2>1 DEF Good, Full
<1>7. Unshadowed(v)
  BY <1>1, <1>5 DEF Good, Unshadowed
<1> QED
  BY <1>4, <1>6, <1>7 DEF Good

LEMMA RemoveFirstGood ==
  ASSUME NEW w, Good(w), NEW S, S \subseteq Slots
  PROVE  Good(RemoveMatch(w, S))
  BY FirstIsLeast, RemoveElementGood DEF RemoveMatch

----------------------------------------------------------------------------
\* Filling the first free slot keeps a window good: all slots below it are
\* live, none of the live ones asks for the same or has the same number.
LEMMA StoreGood ==
  ASSUME NEW w, Good(w), NEW p \in Packets, Unused(w, p.type, p.seq),
         Redundant(w, p) = {}, FreeSlots(w) # {}
  PROVE  Good(Store(w, p))
<1> DEFINE i == First(FreeSlots(w))
           v == Store(w, p)
           pkt == [w.pkt EXCEPT ![i] = p]
           live == [w.live EXCEPT ![i] = TRUE]
<1>1. /\ w \in WindowType /\ w.pkt \in [Slots -> Packets \cup {Blank}]
      /\ w.live \in [Slots -> BOOLEAN] /\ w.count \in 0 .. MaxTxWindow
  BY WindowParts DEF Good
<1>2. i \in Slots /\ i \in FreeSlots(w) /\ \A j \in FreeSlots(w) : i <= j
  BY FirstIsLeast DEF FreeSlots
<1>3. \A j \in Slots : j < i => w.live[j]
  <2> SUFFICES ASSUME NEW j \in Slots, j < i PROVE w.live[j]
    OBVIOUS
  <2>1. CASE j < w.count
    BY <2>1 DEF Good, Full
  <2>2. CASE ~ (j < w.count)
    <3>1. j \notin FreeSlots(w)
      BY <1>2, MaxTxWindowAssumption DEF Slots
    <3>2. j >= w.count
      BY <1>1, <2>2, MaxTxWindowAssumption DEF Slots
    <3> QED
      BY <3>1, <3>2 DEF FreeSlots
  <2> QED
    BY <2>1, <2>2
<1>4. v = [pkt |-> pkt, live |-> live, count |-> i + 1]
  BY DEF Store
<1> HIDE DEF i
<1>5. v \in WindowType
  <2>1. pkt \in [Slots -> Packets \cup {Blank}] /\ live \in [Slots -> BOOLEAN]
    BY <1>1, <1>2
  <2>2. i + 1 \in 0 .. MaxTxWindow
    BY <1>2, MaxTxWindowAssumption DEF Slots
  <2> HIDE DEF v, pkt, live
  <2> QED
    BY <1>4, <2>1, <2>2, Remade
<1>6. v.pkt = pkt /\ v.live = live /\ v.count = i + 1
  BY <1>4
<1>7. Full(v)
  <2> SUFFICES ASSUME NEW j \in Slots, j < i + 1 PROVE live[j]
    BY <1>6 DEF Full
  <2>1. j < i \/ j = i
    BY <1>2, MaxTxWindowAssumption DEF Slots
  <2> QED
    BY <1>1, <1>2, <1>3, <2>1
<1>8. \A j \in Slots : w.live[j] => ~ Clash(w.pkt[j], p) /\ ~ Clash(p, w.pkt[j])
  BY DEF Redundant, Clash, SameRequest, Unused
<1>9. Unshadowed(v)
  <2> SUFFICES ASSUME NEW j \in Slots, NEW k \in Slots, j < k, live[k]
               PROVE  ~ Clash(pkt[j], pkt[k])
    BY <1>6 DEF Unshadowed
  <2>1. CASE k = i
    BY <1>1, <1>2, <1>3, <1>8, <2>1, MaxTxWindowAssumption DEF Slots
  <2>2. CASE j = i
    BY <1>1, <1>2, <1>8, <2>2, MaxTxWindowAssumption DEF Slots
  <2>3. CASE j # i /\ k # i
    BY <1>1, <1>2, <2>3 DEF Good, Unshadowed
  <2> QED
    BY <2>1, <2>2, <2>3
<1> QED
  BY <1>5, <1>7, <1>9 DEF Good

\* Reports are all about the controller's flow.
LEMMA ReportKey ==
  ASSUME NEW q \in Packets, q.type = "NEIGHBOR_REPORT"
  PROVE  q.key = CtrlFlow
<1> DEFINE Reports == [type : {"NEIGHBOR_REPORT"}, key : {CtrlFlow},
                       seq : Seqs, own : {TRUE}, ver : Vers]
           Others == [type : Reliable \ {"NEIGHBOR_REPORT"}, key : Keys,
                      seq : Seqs, own : {TRUE}, ver : {0}]
<1>1. q \in Reports \/ q \in Others
  BY DEF Packets
<1>2. CASE q \in Reports
  BY <1>2
<1>3. q \notin Others
  OBVIOUS
<1> QED
  BY <1>1, <1>2, <1>3

\* A newer report takes the place of the awaited one: the slots it is
\* compared with clash with it exactly if they clash with the old one.
LEMMA RefreshGood ==
  ASSUME NEW w, Good(w), NEW p \in Packets, p.type = "NEIGHBOR_REPORT"
  PROVE  Good(Refresh(w, p))
<1> DEFINE v == Refresh(w, p)
           R == Redundant(w, p)
           pkt == [i \in Slots |-> IF i \in R THEN p ELSE w.pkt[i]]
<1>1. /\ w \in WindowType /\ w.pkt \in [Slots -> Packets \cup {Blank}]
      /\ w.live \in [Slots -> BOOLEAN] /\ w.count \in 0 .. MaxTxWindow
      /\ w = [pkt |-> w.pkt, live |-> w.live, count |-> w.count]
  BY WindowParts DEF Good
<1>2. v = [pkt |-> pkt, live |-> w.live, count |-> w.count]
  BY <1>1 DEF Refresh
<1>3. v.pkt = pkt /\ v.live = w.live /\ v.count = w.count
  BY <1>2
<1>4. v \in WindowType
  <2>1. pkt \in [Slots -> Packets \cup {Blank}]
    BY <1>1
  <2> HIDE DEF v, pkt
  <2> QED
    BY <1>1, <1>2, <2>1, Remade
<1>5. Full(v)
  BY <1>3 DEF Good, Full
<1>6. \A i \in R : SameRequest(w.pkt[i], p)
  BY DEF Redundant
<1>7. \A q \in Packets \cup {Blank} :
        q.type = "NEIGHBOR_REPORT" => SameRequest(q, p)
  BY ReportKey DEF SameRequest, Blank
<1>8. Unshadowed(v)
  <2> SUFFICES ASSUME NEW j \in Slots, NEW k \in Slots, j < k, w.live[k]
               PROVE  ~ Clash(pkt[j], pkt[k])
    BY <1>3 DEF Unshadowed
  <2>1. ~ Clash(w.pkt[j], w.pkt[k])
    BY DEF Good, Unshadowed
  <2>2. CASE j \notin R /\ k \notin R
    BY <2>1, <2>2
  <2>3. CASE k \in R /\ j \notin R
    <3>1. ~ SameRequest(w.pkt[j], p)
      BY <1>6, <2>1, <2>3 DEF Clash, SameRequest
    <3>2. w.pkt[j].type # "NEIGHBOR_REPORT"
      BY <1>1, <1>7, <3>1
    <3> QED
      BY <2>3, <3>1, <3>2 DEF Clash
  <2>4. CASE j \in R /\ k \notin R
    <3>1. ~ SameRequest(p, w.pkt[k])
      BY <1>6, <2>1, <2>4 DEF Clash, SameRequest
    <3>2. w.pkt[k].type # "NEIGHBOR_REPORT"
      BY <1>1, <1>7, <3>1 DEF SameRequest
    <3> QED
      BY <2>4, <3>1, <3>2 DEF Clash
  <2>5. CASE j \in R /\ k \in R
    BY <1>6, <2>1, <2>5 DEF Clash, SameRequest
  <2> QED
    BY <2>2, <2>3, <2>4, <2>5
<1> QED
  BY <1>4, <1>5, <1>8 DEF Good

\* Every packet the MAC layer is done with leaves the window good.
LEMMA AwaitAckGood ==
  ASSUME NEW w, Good(w), NEW p \in Packets, Unused(w, p.type, p.seq)
  PROVE  Good(AwaitAck(w, p))
<1>1. p.type \in Reliable /\ p.own
  BY DEF Packets, Reliable
<1>2. CASE Redundant(w, p) # {}
  BY <1>1, <1>2, RefreshGood DEF AwaitAck, Refresh
<1>3. CASE Redundant(w, p) = {} /\ FreeSlots(w) # {}
  BY <1>1, <1>3, StoreGood DEF AwaitAck
<1>4. CASE Redundant(w, p) = {} /\ FreeSlots(w) = {}
  <2> DEFINE v == [pkt |-> w.pkt, live |-> w.live, count |-> MaxTxWindow]
  <2>1. /\ w.pkt \in [Slots -> Packets \cup {Blank}]
        /\ w.live \in [Slots -> BOOLEAN] /\ w.count \in 0 .. MaxTxWindow
        /\ w = [pkt |-> w.pkt, live |-> w.live, count |-> w.count]
    BY WindowParts DEF Good
  <2>2. AwaitAck(w, p) = v
    BY <1>1, <1>4, <2>1 DEF AwaitAck, GiveUp
  <2>3. v \in WindowType
    BY <2>1, Remade, MaxTxWindowAssumption
  <2>4. \A j \in Slots : w.live[j]
    BY <1>4, <2>1, MaxTxWindowAssumption DEF Good, Full, FreeSlots, Slots
  <2>5. Full(v) /\ Unshadowed(v)
    BY <2>4 DEF Good, Full, Unshadowed
  <2> QED
    BY <2>2, <2>3, <2>5 DEF Good
<1> QED
  BY <1>2, <1>3, <1>4

\* A slot whose packet was queued again under an unused number is freed.
LEMMA TimerGood ==
  ASSUME NEW w, Good(w), NEW i \in Slots, w.live[i], NEW seq \in Seqs,
         Unused(w, w.pkt[i].type, seq), w.pkt[i] \in Packets
  PROVE  Good(TimerRequeued(w, i, seq))
<1> DEFINE p == [w.pkt[i] EXCEPT !.seq = seq]
           pkt == [w.pkt EXCEPT ![i] = p]
           live == [w.live EXCEPT ![i] = FALSE]
           count == IF i < w.count THEN i ELSE w.count
           v == TimerRequeued(w, i, seq)
<1>1. /\ w.pkt \in [Slots -> Packets \cup {Blank}]
      /\ w.live \in [Slots -> BOOLEAN] /\ w.count \in 0 .. MaxTxWindow
      /\ w = [pkt |-> w.pkt, live |-> w.live, count |-> w.count]
  BY WindowParts DEF Good
<1>2. v = [pkt |-> pkt, live |-> live, count |-> count]
  BY <1>1 DEF TimerRequeued, RemoveElement
<1>3. /\ p \in Packets /\ p.type = w.pkt[i].type /\ p.key = w.pkt[i].key
      /\ p.seq = seq
  BY DEF Packets
<1> HIDE DEF p
<1>4. v \in WindowType
  <2>1. pkt \in [Slots -> Packets \cup {Blank}] /\ live \in [Slots -> BOOLEAN]
    BY <1>1, <1>3
  <2>2. count \in 0 .. MaxTxWindow
    BY <1>1, MaxTxWindowAssumption DEF Slots
  <2> HIDE DEF v, pkt, live, count
  <2> QED
    BY <1>2, <2>1, <2>2, Remade
<1>5. v.pkt = pkt /\ v.live = live /\ v.count = count
  BY <1>2
<1>6. Full(v)
  <2> SUFFICES ASSUME NEW j \in Slots, j < count PROVE live[j]
    BY <1>5 DEF Full
  <2>1. j < w.count /\ j # i
    BY <1>1, MaxTxWindowAssumption DEF Slots
  <2> QED
    BY <1>1, <2>1 DEF Good, Full
<1>7. Unshadowed(v)
  <2> SUFFICES ASSUME NEW j \in Slots, NEW k \in Slots, j < k, live[k]
               PROVE  ~ Clash(pkt[j], pkt[k])
    BY <1>5 DEF Unshadowed
  <2>1. k # i /\ w.live[k] /\ pkt[k] = w.pkt[k]
    BY <1>1
  <2>2. ~ Clash(w.pkt[j], w.pkt[k])
    BY <2>1 DEF Good, Unshadowed
  <2>3. CASE j # i
    BY <1>1, <2>1, <2>2, <2>3
  <2>4. CASE j = i
    <3>1. pkt[j] = p
      BY <1>1, <2>4
    <3> QED
      BY <1>3, <2>1, <2>2, <2>4, <3>1 DEF Clash, SameRequest, Unused
  <2> QED
    BY <2>3, <2>4
<1> QED
  BY <1>4, <1>6, <1>7 DEF Good

----------------------------------------------------------------------------
(* The theorems                                                            *)

LEMMA BlankIsNotAwaited == Blank.type \notin Reliable
  BY DEF Blank, Reliable

\* A live slot holds a packet: only sld_await_ack makes slots live, so the
\* window never retransmits the contents of a slot it has not filled.
LiveIsPacket == \A i \in Slots : win.live[i] => win.pkt[i] \in Packets

IInv == Good(win) /\ LiveIsPacket

LEMMA InitIInv == Init => IInv
<1> SUFFICES ASSUME Init PROVE IInv
  OBVIOUS
<1>1. /\ win = [pkt |-> win.pkt, live |-> win.live, count |-> win.count]
      /\ win.pkt = [i \in Slots |-> Blank]
      /\ win.live = [i \in Slots |-> FALSE]
      /\ win.count = 0
  BY DEF Init, EmptyWindow
<1>2. win \in WindowType
  <2>1. /\ win.pkt \in [Slots -> Packets \cup {Blank}]
        /\ win.live \in [Slots -> BOOLEAN]
        /\ win.count \in 0 .. MaxTxWindow
    BY <1>1, MaxTxWindowAssumption
  <2> DEFINE v == [pkt |-> win.pkt, live |-> win.live, count |-> win.count]
  <2>2. v \in WindowType
    BY <2>1, Remade
  <2> HIDE DEF v
  <2>3. win = v
    BY <1>1 DEF v
  <2> QED
    BY <2>2, <2>3
<1>3. Full(win)
  BY <1>1, MaxTxWindowAssumption DEF Full, Slots
<1>4. Unshadowed(win) /\ LiveIsPacket
  BY <1>1 DEF Unshadowed, LiveIsPacket
<1> QED
  BY <1>2, <1>3, <1>4 DEF IInv, Good

\* What the removals leave alone.
LEMMA RemoveFirstShrinks ==
  ASSUME NEW w \in WindowType, NEW S, S \subseteq Slots
  PROVE  /\ RemoveMatch(w, S).pkt = w.pkt
         /\ \A i \in Slots : RemoveMatch(w, S).live[i] <=>
                w.live[i] /\ ~ (S # {} /\ i = First(S))
  BY FirstIsLeast, WindowParts DEF RemoveMatch, RemoveElement

LEMMA AwaitAckLive ==
  ASSUME NEW w \in WindowType, NEW p \in Packets,
         \A i \in Slots : w.live[i] => w.pkt[i] \in Packets,
         NEW i \in Slots, AwaitAck(w, p).live[i]
  PROVE  AwaitAck(w, p).pkt[i] \in Packets
<1>1. /\ w.pkt \in [Slots -> Packets \cup {Blank}]
      /\ w.live \in [Slots -> BOOLEAN]
      /\ w = [pkt |-> w.pkt, live |-> w.live, count |-> w.count]
  BY WindowParts
<1>2. CASE AwaitAck(w, p) = w
  BY <1>2
<1>3. CASE AwaitAck(w, p) = Refresh(w, p)
  BY <1>1, <1>3 DEF Refresh
<1>4. CASE AwaitAck(w, p) = [w EXCEPT !.count = MaxTxWindow]
  BY <1>1, <1>4
<1>5. CASE AwaitAck(w, p) = Store(w, p)
  <2> DEFINE n == First(FreeSlots(w))
  <2>1. /\ AwaitAck(w, p).pkt = [w.pkt EXCEPT ![n] = p]
        /\ AwaitAck(w, p).live = [w.live EXCEPT ![n] = TRUE]
    BY <1>5 DEF Store
  <2> HIDE DEF n
  <2> QED
    BY <1>1, <2>1
<1> QED
  BY <1>2, <1>3, <1>4, <1>5 DEF AwaitAck, GiveUp

LEMMA NextIInv == IInv /\ [Next]_win => IInv'
<1> SUFFICES ASSUME IInv, [Next]_win PROVE IInv'
  OBVIOUS
<1>1. win \in WindowType /\ Good(win)
  BY DEF IInv, Good
<1>2. SUFFICES Good(win') /\ LiveIsPacket'
  BY DEF IInv, Good, Full, Unshadowed
<1>3. ASSUME NEW p \in Packets, Done(p) PROVE Good(win') /\ LiveIsPacket'
  <2>1. Unused(win, p.type, p.seq) /\ win' = AwaitAck(win, p)
    BY <1>3 DEF Done, Distinct, Unused
  <2> QED
    BY <1>1, <2>1, AwaitAckGood, AwaitAckLive DEF IInv, LiveIsPacket
<1>4. ASSUME NEW S, S \subseteq Slots, win' = RemoveMatch(win, S)
      PROVE  Good(win') /\ LiveIsPacket'
  BY <1>1, <1>4, RemoveFirstGood, RemoveFirstShrinks DEF IInv, LiveIsPacket
<1>5. ASSUME NEW type \in AckTypes, NEW seq \in Seqs, Ack(type, seq)
      PROVE  Good(win') /\ LiveIsPacket'
  BY <1>4, <1>5 DEF Ack, RcvAck
<1>6. ASSUME NEW type \in RequestTypes, NEW key \in Keys, Setup(type, key)
      PROVE  Good(win') /\ LiveIsPacket'
  BY <1>4, <1>6 DEF Setup, RcvSetup
<1>7. CASE NewReport
  BY <1>4, <1>7 DEF NewReport, Purge
<1>8. ASSUME NEW i \in Slots, NEW seq \in Seqs, Timer(i, seq)
      PROVE  Good(win') /\ LiveIsPacket'
  <2>1. win.live[i] /\ Unused(win, win.pkt[i].type, seq) /\ win.pkt[i] \in Packets
    BY <1>8 DEF Timer, Distinct, Unused, IInv, LiveIsPacket
  <2>2. Good(win')
    BY <1>1, <1>8, <2>1, TimerGood DEF Timer
  <2>3. /\ win'.pkt = [win.pkt EXCEPT ![i] = [win.pkt[i] EXCEPT !.seq = seq]]
        /\ win'.live = [win.live EXCEPT ![i] = FALSE]
    <3>1. win = [pkt |-> win.pkt, live |-> win.live, count |-> win.count]
      BY <1>1, WindowParts
    <3> QED
      BY <1>8, <3>1 DEF Timer, TimerRequeued, RemoveElement
  <2> QED
    BY <1>1, <2>2, <2>3, WindowParts DEF IInv, LiveIsPacket
<1>9. CASE UNCHANGED win
  BY <1>1, <1>9 DEF IInv, LiveIsPacket
<1> QED
  BY <1>3, <1>5, <1>6, <1>7, <1>8, <1>9 DEF Next

THEOREM Invariance == Spec => []IInv
<1>1. Init => IInv
  BY InitIInv
<1>2. IInv /\ [Next]_win => IInv'
  BY NextIInv
<1> QED
  BY <1>1, <1>2, PTL DEF Spec

\* The window is always well formed (sld_w, sld_l, sld_count).
THEOREM TypeCorrect == Spec => []TypeOK
<1>1. IInv => TypeOK
  BY DEF IInv, Good, WindowType, TypeOK
<1> QED
  BY <1>1, Invariance, PTL

\* The upward search of sld_await_ack for a free slot never misses one.
THEOREM PrefixAlwaysFull == Spec => []PrefixFull
<1>1. IInv => PrefixFull
  BY DEF IInv, Good, Full, PrefixFull
<1> QED
  BY <1>1, Invariance, PTL

\* Searches by contents find the live slot first: no slot below it matches.
THEOREM NothingShadowed == Spec => []NoShadow
<1>1. IInv => NoShadow
  BY DEF IInv, Good, Unshadowed, NoShadow, Clash
<1> QED
  BY <1>1, Invariance, PTL

\* No request is retransmitted from two slots.
THEOREM NoDuplicateRetransmission == Spec => []OnePerRequest
<1>1. IInv => OnePerRequest
  <2> SUFFICES ASSUME IInv, NEW i \in Slots, NEW j \in Slots,
                      win.live[i], win.live[j],
                      SameRequest(win.pkt[i], win.pkt[j]), i # j
               PROVE  FALSE
    BY DEF OnePerRequest
  <2>1. CASE i < j
    BY <2>1 DEF IInv, Good, Unshadowed, Clash
  <2>2. CASE j < i
    BY <2>2 DEF IInv, Good, Unshadowed, Clash, SameRequest
  <2> QED
    BY <2>1, <2>2, MaxTxWindowAssumption DEF Slots
<1> QED
  BY <1>1, Invariance, PTL

\* A setup frees the slot of the request it answers and no other.
THEOREM SetupEndsItsRequest == Spec => AnswerEndsRetransmission
<1>1. IInv => AnswersItsRequest
  <2> SUFFICES ASSUME IInv, NEW type \in RequestTypes, NEW key \in Keys,
                      Setup(type, key), NEW i \in Slots
               PROVE  win'.live[i] <=>
                        win.live[i] /\ ~ (win.pkt[i].type = type
                                          /\ win.pkt[i].key = key)
    BY DEF AnswersItsRequest
  <2> DEFINE S == {j \in Slots : win.pkt[j].type = type /\ win.pkt[j].key = key}
  <2>1. win \in WindowType /\ win' = RemoveMatch(win, S)
    BY DEF Setup, RcvSetup, IInv, Good
  <2>2. win'.live[i] <=> win.live[i] /\ ~ (S # {} /\ i = First(S))
    BY <2>1, RemoveFirstShrinks
  <2>3. S # {} => First(S) \in S /\ \A j \in S : First(S) <= j
    BY FirstIsLeast
  <2>4. ASSUME i \in S, win.live[i], i # First(S) PROVE FALSE
    <3> DEFINE f == First(S)
    <3>0. f \in Slots /\ f <= i
      BY <2>3, <2>4
    <3>1. f \in Slots /\ f < i
      <4> HIDE DEF f, S
      <4>1. f # i
        BY <2>4 DEF f
      <4> QED
        BY <3>0, <4>1, MaxTxWindowAssumption DEF Slots
    <3>2. SameRequest(win.pkt[First(S)], win.pkt[i])
      BY <2>3, <2>4 DEF SameRequest
    <3> QED
      BY <2>4, <3>1, <3>2 DEF IInv, Good, Unshadowed, Clash
  <2> QED
    BY <2>2, <2>3, <2>4
<1> QED
  BY <1>1, Invariance, PTL DEF AnswerEndsRetransmission

----------------------------------------------------------------------------
(***************************************************************************)
(* The retransmission window implements PendingRequests, for windows of    *)
(* every size.  The awaited packets are the contents of the live slots.    *)
(* By IInv live slots hold packets that differ from each other, and no     *)
(* search by contents finds a freed slot before a live one: so a removal   *)
(* takes away just what matches, and the window is full when, and only     *)
(* when, MaxTxWindow packets are awaited.                                  *)
(***************************************************************************)

LiveSlots == {i \in Slots : win.live[i]}

----------------------------------------------------------------------------
\* Of two live slots neither clashes with the other.
LEMMA LiveSlotsDiffer ==
  ASSUME IInv, NEW i \in LiveSlots, NEW j \in LiveSlots,
         Clash(win.pkt[i], win.pkt[j])
  PROVE  i = j
<1> SUFFICES ASSUME i # j PROVE FALSE
  OBVIOUS
<1>1. i \in Slots /\ j \in Slots /\ win.live[i] /\ win.live[j]
  BY DEF LiveSlots
<1>2. i < j \/ j < i
  BY <1>1, MaxTxWindowAssumption DEF Slots
<1>3. Clash(win.pkt[j], win.pkt[i])
  BY DEF Clash, SameRequest
<1> QED
  BY <1>1, <1>2, <1>3 DEF IInv, Good, Unshadowed

LEMMA AwaitedAreLive ==
  /\ AwaitedPackets = {win.pkt[i] : i \in LiveSlots}
  /\ IInv => AwaitedPackets \subseteq Packets
<1>1. AwaitedPackets = {win.pkt[i] : i \in LiveSlots}
  BY DEF AwaitedPackets, LiveSlots
<1>2. IInv => AwaitedPackets \subseteq Packets
  BY <1>1 DEF IInv, LiveIsPacket, LiveSlots
<1> QED
  BY <1>1, <1>2

\* As many packets are awaited as slots are live.
LEMMA AwaitedCount ==
  ASSUME IInv
  PROVE  /\ Cardinality(AwaitedPackets) = MaxTxWindow <=> LiveSlots = Slots
         /\ LiveSlots # Slots => Cardinality(AwaitedPackets) < MaxTxWindow
<1> DEFINE f == [i \in LiveSlots |-> win.pkt[i]]
<1>1. IsFiniteSet(Slots) /\ Cardinality(Slots) = MaxTxWindow
  BY FS_Interval, MaxTxWindowAssumption DEF Slots
<1>2. LiveSlots \subseteq Slots
  BY DEF LiveSlots
<1>3. /\ IsFiniteSet(LiveSlots) /\ Cardinality(LiveSlots) \in Nat
      /\ Cardinality(LiveSlots) <= MaxTxWindow
      /\ Cardinality(LiveSlots) = MaxTxWindow <=> LiveSlots = Slots
  BY <1>1, <1>2, FS_Subset, FS_CardinalityType
<1>4. f \in Bijection(LiveSlots, AwaitedPackets)
  <2>1. f \in [LiveSlots -> AwaitedPackets]
    BY AwaitedAreLive
  <2>2. \A i, j \in LiveSlots : f[i] = f[j] => i = j
    BY LiveSlotsDiffer DEF Clash, SameRequest
  <2>3. \A p \in AwaitedPackets : \E i \in LiveSlots : f[i] = p
    BY AwaitedAreLive
  <2> QED
    BY <2>1, <2>2, <2>3 DEF Bijection, Injection, Surjection, IsInjective
<1>5. Cardinality(AwaitedPackets) = Cardinality(LiveSlots)
  BY <1>3, <1>4, FS_Bijection DEF ExistsBijection
<1> QED
  BY <1>3, <1>5, MaxTxWindowAssumption

\* Freeing the first slot that matches takes away the packet of every live
\* slot that does, as at most the first one is live.
LEMMA MatchesRemoved ==
  ASSUME IInv, NEW S, S \subseteq Slots, win' = RemoveMatch(win, S),
         \A i, j \in S : win.live[j] => Clash(win.pkt[i], win.pkt[j])
  PROVE  AwaitedPackets' = {win.pkt[i] : i \in LiveSlots \ S}
<1>1. win \in WindowType
  BY DEF IInv, Good
<1>2. /\ win'.pkt = win.pkt
      /\ \A i \in Slots : win'.live[i] <=> win.live[i] /\ ~ (S # {} /\ i = First(S))
  BY <1>1, RemoveFirstShrinks
<1>3. S # {} => First(S) \in S /\ \A j \in S : First(S) <= j
  BY FirstIsLeast
<1>4. ASSUME NEW i \in S, win.live[i] PROVE i = First(S)
  <2> DEFINE f == First(S)
  <2>1. f \in Slots /\ i \in Slots /\ f <= i /\ Clash(win.pkt[f], win.pkt[i])
    BY <1>3, <1>4
  <2>2. ~ (f < i)
    BY <1>4, <2>1 DEF IInv, Good, Unshadowed
  <2> HIDE DEF f
  <2>3. f = i
    BY <2>1, <2>2, MaxTxWindowAssumption DEF Slots
  <2> QED
    BY <2>3 DEF f
<1>5. \A i \in Slots : win'.live[i] <=> i \in LiveSlots \ S
  BY <1>2, <1>3, <1>4 DEF LiveSlots
<1>6. AwaitedPackets' = {win'.pkt[i] : i \in {j \in Slots : win'.live[j]}}
  BY DEF AwaitedPackets
<1>7. {j \in Slots : win'.live[j]} = LiveSlots \ S
  BY <1>5 DEF LiveSlots
<1> QED
  BY <1>2, <1>6, <1>7

----------------------------------------------------------------------------
(* The operations                                                          *)

\* The abstract specification counts with an instance of FiniteSets.
LEMMA SameCardinality == Abstract!Cardinality(AwaitedPackets) = Cardinality(AwaitedPackets)
  BY DEF Abstract!Cardinality, Cardinality, Abstract!IsFiniteSet, IsFiniteSet

\* sld_await_ack adds the packet, refreshes the awaited one, or gives up.
LEMMA DoneImplements ==
  ASSUME IInv, NEW p \in Packets, Done(p)
  PROVE  Abstract!Repeat(p) \/ Abstract!Add(p) \/ Abstract!Ignore(p) 
<1> DEFINE R == Redundant(win, p)
           A == AwaitedPackets
<1>1. /\ win.pkt \in [Slots -> Packets \cup {Blank}] /\ win.live \in [Slots -> BOOLEAN]
      /\ win.count \in 0 .. MaxTxWindow
      /\ win = [pkt |-> win.pkt, live |-> win.live, count |-> win.count]
  BY WindowParts DEF IInv, Good
<1>2. p.type \in Reliable /\ p.own /\ win' = AwaitAck(win, p)
  BY DEF Done, Packets, Reliable
<1>3. Abstract!Similar(p) = {win.pkt[i] : i \in R}
  BY AwaitedAreLive DEF Abstract!Similar, Abstract!Asks, Redundant, SameRequest, LiveSlots
<1>4. A' = {win'.pkt[i] : i \in {j \in Slots : win'.live[j]}}
  BY DEF AwaitedPackets
<1>5. CASE R # {}
  <2>1. Abstract!Similar(p) # {}
    BY <1>3, <1>5
  <2>2. CASE p.type = "NEIGHBOR_REPORT"
    <3>1. /\ win'.pkt = [i \in Slots |-> IF i \in R THEN p ELSE win.pkt[i]]
          /\ win'.live = win.live
      BY <1>2, <1>5, <2>2 DEF AwaitAck, Refresh
    <3>2. R \subseteq LiveSlots
      BY DEF Redundant, LiveSlots
    <3>3. A' = {IF i \in R THEN p ELSE win.pkt[i] : i \in LiveSlots}
      BY <1>4, <3>1 DEF LiveSlots
    <3>4. A' = {win.pkt[i] : i \in LiveSlots \ R} \cup {p}
      BY <1>5, <3>2, <3>3
    <3>5. ASSUME NEW i \in LiveSlots \ R PROVE win.pkt[i] \notin Abstract!Similar(p)
      BY <3>5 DEF Abstract!Similar, Abstract!Asks, Redundant, SameRequest, LiveSlots
    <3>6. {win.pkt[i] : i \in LiveSlots \ R} = A \ Abstract!Similar(p)
      BY <1>3, <3>5, AwaitedAreLive
    <3> QED
      BY <2>1, <2>2, <3>4, <3>6 DEF Abstract!Repeat
  <2>3. CASE p.type # "NEIGHBOR_REPORT"
    <3>1. win' = win
      BY <1>2, <1>5, <2>3 DEF AwaitAck, Refresh
    <3> QED
      BY <1>4, <2>1, <2>3, <3>1 DEF Abstract!Repeat, AwaitedPackets
  <2> QED
    BY <2>2, <2>3
<1>6. CASE R = {} /\ FreeSlots(win) # {}
  <2> DEFINE n == First(FreeSlots(win))
  <2>1. n \in Slots /\ ~ win.live[n]
    BY <1>6, FirstIsLeast DEF FreeSlots
  <2>2. /\ win'.pkt = [win.pkt EXCEPT ![n] = p]
        /\ win'.live = [win.live EXCEPT ![n] = TRUE]
    BY <1>2, <1>6 DEF AwaitAck, Store
  <2> HIDE DEF n
  <2>3. {j \in Slots : win'.live[j]} = LiveSlots \cup {n} /\ n \notin LiveSlots
    BY <1>1, <2>1, <2>2 DEF LiveSlots
  <2>4. \A i \in LiveSlots \cup {n} : win'.pkt[i] = IF i = n THEN p ELSE win.pkt[i]
    BY <1>1, <2>1, <2>2 DEF LiveSlots
  <2>5. A' = A \cup {p}
    BY <1>4, <2>3, <2>4, AwaitedAreLive
  <2>6. Abstract!Similar(p) = {}
    BY <1>3, <1>6
  <2>7. Cardinality(A) < MaxTxWindow
    BY <2>1, <2>3, AwaitedCount
  <2> QED
    BY <2>5, <2>6, <2>7, SameCardinality DEF Abstract!Add
<1>7. CASE R = {} /\ FreeSlots(win) = {}
  <2>1. win'.pkt = win.pkt /\ win'.live = win.live
    BY <1>1, <1>2, <1>7 DEF AwaitAck, GiveUp
  <2>2. LiveSlots = Slots
    <3>1. \A j \in Slots : win.live[j]
      BY <1>1, <1>7, MaxTxWindowAssumption DEF IInv, Good, Full, FreeSlots, Slots
    <3> QED
      BY <3>1 DEF LiveSlots
  <2>3. Cardinality(A) = MaxTxWindow
    BY <2>2, AwaitedCount
  <2>4. A' = A
    BY <1>4, <2>1 DEF AwaitedPackets
  <2>5. Abstract!Similar(p) = {}
    BY <1>3, <1>7
  <2> QED
    BY <2>3, <2>4, <2>5, SameCardinality DEF Abstract!Ignore
<1> QED
  BY <1>5, <1>6, <1>7

\* An acknowledgement ends the wait for what it names.
LEMMA AckImplements ==
  ASSUME IInv, NEW type \in AckTypes, NEW seq \in Seqs, Ack(type, seq)
  PROVE  [Abstract!Next]_AwaitedPackets
<1> DEFINE S == {i \in Slots : win.pkt[i].type = type /\ win.pkt[i].seq = seq}
<1>1. win' = RemoveMatch(win, S)
  BY DEF Ack, RcvAck
<1>2. \A i, j \in S : win.live[j] => Clash(win.pkt[i], win.pkt[j])
  BY DEF Clash
<1>3. AwaitedPackets' = {win.pkt[i] : i \in LiveSlots \ S}
  BY <1>1, <1>2, MatchesRemoved
<1>4. AwaitedPackets' = {q \in AwaitedPackets : ~ (q.type = type /\ q.seq = seq)}
  BY <1>3, AwaitedAreLive DEF LiveSlots
<1>5. CASE \E q \in AwaitedPackets : q.type = type /\ q.seq = seq
  <2>1. PICK q \in AwaitedPackets : q.type = type /\ q.seq = seq
    BY <1>5
  <2>2. q \in Packets /\ Abstract!Acked(q.type, q.seq)
    BY <1>4, <2>1, AwaitedAreLive DEF Abstract!Acked
  <2> QED
    BY <2>2 DEF Abstract!Next
<1>6. CASE ~ \E q \in AwaitedPackets : q.type = type /\ q.seq = seq
  BY <1>4, <1>6
<1> QED
  BY <1>5, <1>6

\* A removal by type and flow ends the wait for one request.
LEMMA RequestRemoved ==
  ASSUME IInv, NEW S, S \subseteq Slots, win' = RemoveMatch(win, S), NEW type, NEW key,
         \A i \in Slots : win.live[i] => (i \in S <=> win.pkt[i].type = type /\ win.pkt[i].key = key),
         \A i, j \in S : win.live[j] => Clash(win.pkt[i], win.pkt[j])
  PROVE  [Abstract!Next]_AwaitedPackets
<1>1. AwaitedPackets' = {win.pkt[i] : i \in LiveSlots \ S}
  BY MatchesRemoved
<1>2. AwaitedPackets' = {q \in AwaitedPackets : ~ (q.type = type /\ q.key = key)}
  BY <1>1, AwaitedAreLive DEF LiveSlots
<1>3. CASE \E q \in AwaitedPackets : q.type = type /\ q.key = key
  <2>1. PICK q \in AwaitedPackets : q.type = type /\ q.key = key
    BY <1>3
  <2>2. q \in Packets /\ Abstract!Answered(q.type, q.key)
    BY <1>2, <2>1, AwaitedAreLive DEF Abstract!Answered, Abstract!Asks
  <2> QED
    BY <2>2 DEF Abstract!Next
<1>4. CASE ~ \E q \in AwaitedPackets : q.type = type /\ q.key = key
  BY <1>2, <1>4
<1> QED
  BY <1>3, <1>4

\* The timer takes one packet out.
LEMMA TimerImplements ==
  ASSUME IInv, NEW i \in Slots, NEW seq \in Seqs, Timer(i, seq)
  PROVE  \E q \in AwaitedPackets : Abstract!Expire(q)
<1>1. /\ win.pkt \in [Slots -> Packets \cup {Blank}] /\ win.live \in [Slots -> BOOLEAN]
      /\ win = [pkt |-> win.pkt, live |-> win.live, count |-> win.count]
  BY WindowParts DEF IInv, Good
<1>2. /\ win'.pkt = [win.pkt EXCEPT ![i] = [win.pkt[i] EXCEPT !.seq = seq]]
      /\ win'.live = [win.live EXCEPT ![i] = FALSE]
  BY <1>1 DEF Timer, TimerRequeued, RemoveElement
<1>3. i \in LiveSlots
  BY DEF Timer, LiveSlots
<1>4. {j \in Slots : win'.live[j]} = LiveSlots \ {i}
  BY <1>1, <1>2 DEF LiveSlots
<1>5. \A j \in LiveSlots \ {i} : win'.pkt[j] = win.pkt[j]
  BY <1>1, <1>2 DEF LiveSlots
<1>6. AwaitedPackets' = {win.pkt[j] : j \in LiveSlots \ {i}}
  BY <1>4, <1>5 DEF AwaitedPackets
<1>7. \A j \in LiveSlots \ {i} : win.pkt[j] # win.pkt[i]
  BY <1>3, LiveSlotsDiffer DEF Clash, SameRequest
<1>8. AwaitedPackets' = AwaitedPackets \ {win.pkt[i]}
  BY <1>3, <1>6, <1>7, AwaitedAreLive
<1> QED
  BY <1>3, <1>8, AwaitedAreLive DEF Abstract!Expire

LEMMA NextImplements == IInv /\ [Next]_win => [Abstract!Next]_AwaitedPackets
<1> SUFFICES ASSUME IInv, [Next]_win PROVE [Abstract!Next]_AwaitedPackets
  OBVIOUS
<1>1. ASSUME NEW p \in Packets, Done(p) PROVE Abstract!Next
  BY <1>1, DoneImplements DEF Abstract!Next
<1>2. ASSUME NEW type \in AckTypes, NEW seq \in Seqs, Ack(type, seq)
      PROVE  [Abstract!Next]_AwaitedPackets
  BY <1>2, AckImplements
<1>3. ASSUME NEW type \in RequestTypes, NEW key \in Keys, Setup(type, key)
      PROVE  [Abstract!Next]_AwaitedPackets
  <2> DEFINE S == {i \in Slots : win.pkt[i].type = type /\ win.pkt[i].key = key}
  <2>1. win' = RemoveMatch(win, S)
    BY <1>3 DEF Setup, RcvSetup
  <2>2. \A i, j \in S : Clash(win.pkt[i], win.pkt[j])
    BY DEF Clash, SameRequest
  <2> QED
    BY <2>1, <2>2, RequestRemoved
<1>4. CASE NewReport
  <2> DEFINE S == {i \in Slots : win.pkt[i].type = "NEIGHBOR_REPORT"}
  <2>1. win' = RemoveMatch(win, S)
    BY <1>4 DEF NewReport, Purge
  <2>2. \A i \in S : win.pkt[i].key = CtrlFlow
    <3>1. \A i \in S : win.pkt[i] \in Packets
      BY WindowParts DEF IInv, Good, Blank
    <3> QED
      BY <3>1, ReportKey
  <2>3. \A i, j \in S : Clash(win.pkt[i], win.pkt[j])
    BY <2>2 DEF Clash, SameRequest
  <2> QED
    BY <2>1, <2>2, <2>3, RequestRemoved
<1>5. ASSUME NEW i \in Slots, NEW seq \in Seqs, Timer(i, seq) PROVE Abstract!Next
  BY <1>5, TimerImplements DEF Abstract!Next
<1>6. CASE UNCHANGED win
  BY <1>6 DEF AwaitedPackets
<1> QED
  BY <1>1, <1>2, <1>3, <1>4, <1>5, <1>6 DEF Next

\* Whatever the node does with its window, it is a bounded set of pending
\* requests: no slot, no timer and no stale content shows.
THEOREM WindowImplementsPending == Spec => ImplementsPendingRequests
<1>1. Init => Abstract!Init
  BY DEF Init, EmptyWindow, Abstract!Init, AwaitedPackets
<1>2. IInv /\ [Next]_win => [Abstract!Next]_AwaitedPackets
  BY NextImplements
<1> QED
  BY <1>1, <1>2, Invariance, PTL DEF Spec, ImplementsPendingRequests, Abstract!Spec

----------------------------------------------------------------------------
(* The controller's entries: OfflineArmed and OnlineIsInstalled of         *)
(* FlowSetup                                                               *)

EntryOK ==
  entry \in [Flows -> [set : Settings \cup {"none"}, online : BOOLEAN,
                       countdown : -1 .. RetxTime]]

\* OfflineArmed is inductive together with the type of the entries: the
\* timer decrements every countdown, whatever it has become while the entry
\* was online.
Armed == EntryOK /\ OfflineArmed

LEMMA InitArmed == SetupInit => Armed
  BY FlowSetupAssumption DEF SetupInit, Armed, EntryOK, OfflineArmed, NoEntry

\* A changed entry is armed.
LEMMA ChangeArmed ==
  ASSUME Armed, NEW f \in Flows, NEW s \in Settings, Change(f, s)
  PROVE  Armed'
<1>1. entry' = [entry EXCEPT ![f] = Changed(s)]
  BY DEF Change
<1>2. Changed(s) \in [set : Settings \cup {"none"}, online : BOOLEAN,
                      countdown : -1 .. RetxTime]
      /\ Changed(s).countdown \in 1 .. RetxTime
  BY FlowSetupAssumption DEF Changed
<1>3. EntryOK'
  BY <1>1, <1>2 DEF Armed, EntryOK
<1>4. OfflineArmed'
  BY <1>1, <1>2 DEF Armed, EntryOK, OfflineArmed
<1> QED
  BY <1>3, <1>4 DEF Armed

\* An acknowledgement only takes entries out of the care of the timer.
LEMMA SetOnlineArmed ==
  ASSUME Armed, NEW f \in Flows, NEW s,
         entry' = [entry EXCEPT ![f] = SetOnline(entry[f], s)]
  PROVE  Armed'
<1>1. /\ SetOnline(entry[f], s) \in [set : Settings \cup {"none"},
                online : BOOLEAN, countdown : -1 .. RetxTime]
      /\ SetOnline(entry[f], s) = entry[f] \/ SetOnline(entry[f], s).online
  BY DEF SetOnline, Armed, EntryOK
<1>2. EntryOK'
  BY <1>1 DEF Armed, EntryOK
<1>3. OfflineArmed'
  BY <1>1 DEF Armed, EntryOK, OfflineArmed
<1> QED
  BY <1>2, <1>3 DEF Armed

\* A tick that brings a countdown to its end sends and starts it again.
LEMMA TickArmed ==
  ASSUME Armed, Tick
  PROVE  Armed'
<1> DEFINE e(f) == [entry[f] EXCEPT !.countdown =
                      IF Due(f) THEN RetxTime ELSE Down(entry[f].countdown)]
<1>1. \A f \in Flows : entry[f].set # "none" => entry'[f] = e(f)
  BY DEF Tick, Countdown
<1>2. \A f \in Flows : entry[f].set = "none" => entry'[f] = entry[f]
  BY DEF Tick
<1>3. \A f \in Flows : Down(entry[f].countdown) \in -1 .. RetxTime
  BY FlowSetupAssumption DEF Armed, EntryOK, Down
<1>4. \A f \in Flows : e(f) \in [set : Settings \cup {"none"},
                online : BOOLEAN, countdown : -1 .. RetxTime]
  BY <1>3, FlowSetupAssumption DEF Armed, EntryOK
<1>5. EntryOK'
  <2>1. entry' = [f \in Flows |-> entry'[f]]
    BY DEF Tick
  <2>2. \A f \in Flows : entry'[f] \in [set : Settings \cup {"none"},
                online : BOOLEAN, countdown : -1 .. RetxTime]
    BY <1>1, <1>2, <1>4 DEF Armed, EntryOK
  <2> QED
    BY <2>1, <2>2 DEF EntryOK
<1>6. OfflineArmed'
  <2> SUFFICES ASSUME NEW f \in Flows, entry'[f].set # "none", ~ entry'[f].online
               PROVE  entry'[f].countdown \in 1 .. RetxTime
    BY DEF OfflineArmed
  <2>1. entry[f].set # "none" /\ entry'[f] = e(f)
    BY <1>1, <1>2
  <2>2. ~ entry[f].online
    BY <2>1 DEF Armed, EntryOK
  <2>3. entry[f].countdown \in 1 .. RetxTime
    BY <2>1, <2>2 DEF Armed, OfflineArmed
  <2>4. entry'[f].countdown = IF Due(f) THEN RetxTime ELSE Down(entry[f].countdown)
    BY <2>1 DEF Armed, EntryOK
  <2> QED
    BY <2>1, <2>2, <2>3, <2>4, FlowSetupAssumption DEF Due, Down
<1> QED
  BY <1>5, <1>6 DEF Armed

LEMMA NextArmed == Armed /\ [SetupNext]_setupVars => Armed'
<1> SUFFICES ASSUME Armed, [SetupNext]_setupVars PROVE Armed'
  OBVIOUS
<1>1. CASE UNCHANGED entry
  BY <1>1 DEF Armed, EntryOK, OfflineArmed
<1>2. ASSUME NEW f \in Flows, NEW s \in Settings, RouteChange(f, s)
      PROVE  Armed'
  BY <1>2, ChangeArmed DEF RouteChange
<1>3. ASSUME NEW f \in Flows, NEW i \in DOMAIN up[f], Arrive(f, i)
      PROVE  Armed'
  <2>1. CASE up[f][i] # "ask"
    BY <1>3, <2>1, SetOnlineArmed DEF Arrive
  <2>2. CASE Answer(f)
    BY <1>1, <2>2, ChangeArmed DEF Answer
  <2> QED
    BY <1>3, <2>1, <2>2 DEF Arrive
<1>4. CASE Tick
  BY <1>4, TickArmed
<1>5. CASE \E f \in Flows : \E i \in DOMAIN down[f] : Install(f, i)
  BY <1>1, <1>5 DEF Install
<1>6. CASE \E f \in Flows : Ask(f) \/ Lose(f)
  BY <1>1, <1>6 DEF Ask, Lose
<1>7. CASE Restart
  BY <1>1, <1>7 DEF Restart
<1>8. CASE UNCHANGED setupVars
  BY <1>1, <1>8 DEF setupVars
<1> QED
  BY <1>2, <1>3, <1>4, <1>5, <1>6, <1>7, <1>8 DEF SetupNext

\* No sequence of route changes, ticks, requests and acknowledgements leaves
\* an unacknowledged entry that the timer will not send again
\* (sdn_reliability_timer_event, sdn_flow_id_table_add, _set_online).
THEOREM OfflineAlwaysArmed == SetupSpec => []OfflineArmed
<1>1. SetupInit => Armed
  BY InitArmed
<1>2. Armed /\ [SetupNext]_setupVars => Armed'
  BY NextArmed
<1>3. Armed => OfflineArmed
  BY DEF Armed
<1> QED
  BY <1>1, <1>2, <1>3, PTL DEF SetupSpec

----------------------------------------------------------------------------
(* What a packet of a smooth flow can still say.  The settings of an entry *)
(* that never returns to an old one come after each other in the order of  *)
(* the changes, so that once the newest has been installed nothing else is *)
(* on its way.                                                             *)

AllOf(q, s)   == \A i \in DOMAIN q : q[i] = s
Has(q, s)     == \E i \in DOMAIN q : q[i] = s
Ordered(q, s) == \A i, j \in DOMAIN q : i < j /\ q[i] = s => q[j] = s
Of(q, p)      == \A i \in DOMAIN q : q[i] = "ask" \/ q[i] \in p

SetupShape ==
  /\ EntryOK
  /\ down \in [Flows -> Seq(Settings)]
  /\ up \in [Flows -> Seq(Settings \cup {"ask"})]
  /\ past \in [Flows -> SUBSET Settings]
  /\ smooth \subseteq Flows

\* Every setting of a flow in the entry or under way is one it has had.
Seen(f) ==
  /\ entry[f].set # "none" => entry[f].set \in past[f]
  /\ Of(down[f], past[f])
  /\ Of(up[f], past[f])

\* An entry that is acknowledged, or is about to be, is in the table and no
\* other setup is under way.
InPlace(f) ==
  /\ Ordered(down[f], entry[f].set)
  /\ entry[f].online \/ Has(up[f], entry[f].set) =>
       /\ f \in DOMAIN table /\ table[f] = entry[f].set
       /\ AllOf(down[f], entry[f].set)

SmoothInv ==
  /\ SetupShape
  /\ \A f \in Flows : Seen(f)
  /\ \A f \in smooth : InPlace(f)

LEMMA AppendedIs ==
  ASSUME NEW S, NEW q \in Seq(S), NEW x \in S
  PROVE  /\ Append(q, x) \in Seq(S)
         /\ \A i \in DOMAIN Append(q, x) :
              \/ i \in DOMAIN q /\ Append(q, x)[i] = q[i]
              \/ i = Len(q) + 1 /\ Append(q, x)[i] = x
         /\ \A i \in DOMAIN q : i < Len(q) + 1
  OBVIOUS

LEMMA RemovedIs ==
  ASSUME NEW S, NEW q \in Seq(S), NEW i \in DOMAIN q
  PROVE  /\ RemoveAt(q, i) \in Seq(S)
         /\ DOMAIN RemoveAt(q, i) = 1 .. Len(q) - 1
         /\ \A k \in DOMAIN RemoveAt(q, i) :
              /\ k < i => k \in DOMAIN q /\ RemoveAt(q, i)[k] = q[k]
              /\ ~ (k < i) => k + 1 \in DOMAIN q /\ RemoveAt(q, i)[k] = q[k + 1]
<1> DEFINE a == SubSeq(q, 1, i - 1)
           b == SubSeq(q, i + 1, Len(q))
<1>1. Len(q) \in Nat /\ i \in 1 .. Len(q) /\ DOMAIN q = 1 .. Len(q)
  OBVIOUS
<1>2. /\ a \in Seq(S) /\ Len(a) = i - 1
      /\ \A k \in 1 .. i - 1 : a[k] = q[k]
  BY <1>1
<1>3. /\ b \in Seq(S) /\ Len(b) = Len(q) - i
      /\ \A k \in 1 .. Len(q) - i : b[k] = q[k + i]
  BY <1>1
<1>4. RemoveAt(q, i) = a \o b
  BY DEF RemoveAt
<1> HIDE DEF a, b
<1> DEFINE r == a \o b
<1>5. /\ r \in Seq(S) /\ Len(r) = Len(a) + Len(b) /\ DOMAIN r = 1 .. Len(r)
      /\ \A k \in 1 .. Len(a) + Len(b) :
           r[k] = IF k <= Len(a) THEN a[k] ELSE b[k - Len(a)]
  BY <1>2, <1>3
<1> HIDE DEF r
<1>6. Len(r) = Len(q) - 1 /\ DOMAIN r = 1 .. Len(q) - 1
  BY <1>1, <1>2, <1>3, <1>5
<1>7. ASSUME NEW k \in DOMAIN r
      PROVE  /\ k < i => k \in DOMAIN q /\ r[k] = q[k]
             /\ ~ (k < i) => k + 1 \in DOMAIN q /\ r[k] = q[k + 1]
  <2>1. CASE k < i
    <3>1. k \in 1 .. i - 1
      BY <1>1, <1>6, <2>1
    <3> QED
      BY <1>1, <1>2, <1>3, <1>5, <2>1, <3>1
  <2>2. CASE ~ (k < i)
    <3> DEFINE m == k - (i - 1)
    <3>1. m \in 1 .. Len(q) - i /\ m + i = k + 1 /\ k + 1 \in 1 .. Len(q)
      BY <1>1, <1>6, <2>2
    <3>2. r[k] = b[m]
      BY <1>1, <1>2, <1>3, <1>5, <1>6, <2>2
    <3> HIDE DEF m
    <3> QED
      BY <1>1, <1>3, <2>2, <3>1, <3>2
  <2> QED
    BY <2>1, <2>2
<1> QED
  BY <1>4, <1>5, <1>6, <1>7 DEF r

LEMMA RemovedKeeps ==
  ASSUME NEW S, NEW q \in Seq(S), NEW i \in DOMAIN q, NEW s, NEW p
  PROVE  /\ RemoveAt(q, i) \in Seq(S)
         /\ Ordered(q, s) => Ordered(RemoveAt(q, i), s)
         /\ AllOf(q, s) => AllOf(RemoveAt(q, i), s)
         /\ Has(RemoveAt(q, i), s) => Has(q, s)
         /\ Of(q, p) => Of(RemoveAt(q, i), p)
<1> DEFINE r == RemoveAt(q, i)
           was(k) == IF k < i THEN k ELSE k + 1
<1>1. /\ r \in Seq(S)
      /\ \A k \in DOMAIN r : was(k) \in DOMAIN q /\ r[k] = q[was(k)]
      /\ DOMAIN r \subseteq Nat /\ i \in Nat
  BY RemovedIs
<1>2. \A j, k \in DOMAIN r : j < k => was(j) < was(k)
  BY <1>1
<1> HIDE DEF r, was
<1>3. Ordered(q, s) => Ordered(r, s)
  BY <1>1, <1>2 DEF Ordered
<1> QED
  BY <1>1, <1>3 DEF AllOf, Has, Of, r

LEMMA AppendedKeeps ==
  ASSUME NEW S, NEW q \in Seq(S), NEW x \in S, NEW s, NEW p
  PROVE  /\ Append(q, x) \in Seq(S)
         /\ Ordered(q, s) /\ x = s => Ordered(Append(q, x), s)
         /\ Of(q, p) /\ x \notin p /\ x # "ask" => Ordered(Append(q, x), x)
         /\ AllOf(q, s) /\ x = s => AllOf(Append(q, x), s)
         /\ Has(Append(q, x), s) => Has(q, s) \/ x = s
         /\ Of(q, p) /\ (x = "ask" \/ x \in p) => Of(Append(q, x), p)
<1> DEFINE r == Append(q, x)
           n == Len(q) + 1
<1>1. /\ r \in Seq(S)
      /\ \A i \in DOMAIN r : \/ i \in DOMAIN q /\ r[i] = q[i]
                             \/ i = n /\ r[i] = x
      /\ \A i \in DOMAIN q : i < n /\ i \in Nat
      /\ n \in Nat
  BY AppendedIs
<1> HIDE DEF r, n
<1>2. Ordered(q, s) /\ x = s => Ordered(r, s)
  BY <1>1 DEF Ordered
<1>3. Of(q, p) /\ x \notin p /\ x # "ask" => Ordered(r, x)
  <2> SUFFICES ASSUME Of(q, p), x \notin p, x # "ask",
                      NEW i \in DOMAIN r, NEW j \in DOMAIN r, i < j, r[i] = x
               PROVE  r[j] = x
    BY DEF Ordered
  <2>1. i \notin DOMAIN q \/ r[i] # q[i]
    BY DEF Of
  <2>2. i = n
    BY <1>1, <2>1
  <2>3. j \notin DOMAIN q
    BY <1>1, <2>2
  <2> QED
    BY <1>1, <2>3
<1> QED
  BY <1>1, <1>2, <1>3 DEF AllOf, Has, Of, r

Channels(S) == [Flows -> Seq(S)]

LEMMA SendIs ==
  ASSUME NEW S, NEW channel \in Channels(S), NEW f \in Flows, NEW m \in S
  PROVE  /\ Send(channel, f, m) \in Channels(S)
         /\ \A g \in Flows \ {f} : Send(channel, f, m)[g] = channel[g]
         /\ \/ Send(channel, f, m)[f] = channel[f]
            \/ Send(channel, f, m)[f] = Append(channel[f], m)
<1>1. Append(channel[f], m) \in Seq(S)
  BY DEF Channels
<1> QED
  BY <1>1 DEF Send, Channels

LEMMA WithoutIs ==
  ASSUME NEW S, NEW channel \in Channels(S), NEW f \in Flows,
         NEW i \in DOMAIN channel[f]
  PROVE  /\ Without(channel, f, i) \in Channels(S)
         /\ \A g \in Flows \ {f} : Without(channel, f, i)[g] = channel[g]
         /\ Without(channel, f, i)[f] = RemoveAt(channel[f], i)
<1>1. RemoveAt(channel[f], i) \in Seq(S)
  <2>1. channel[f] \in Seq(S)
    BY DEF Channels
  <2> QED
    BY <2>1, RemovedKeeps
<1> QED
  BY <1>1 DEF Without, Channels

\* A setting is sent, or finds no room.
LEMMA SentOrNot ==
  ASSUME NEW d \in Seq(Settings), NEW e, NEW s \in Settings, NEW p,
         e = d \/ e = Append(d, s)
  PROVE  /\ Ordered(d, s) => Ordered(e, s)
         /\ Of(d, p) /\ s \notin p => Ordered(e, s)
         /\ AllOf(d, s) => AllOf(e, s)
         /\ Of(d, p) /\ s \in p => Of(e, p)
<1>1. s # "ask"
  BY FlowSetupAssumption
<1>2. CASE e = d
  BY <1>1, <1>2 DEF Of, Ordered
<1>3. CASE e = Append(d, s)
  <2> DEFINE a == Append(d, s)
  <2>1. /\ Ordered(d, s) /\ s = s => Ordered(a, s)
        /\ Of(d, p) /\ s \notin p /\ s # "ask" => Ordered(a, s)
        /\ AllOf(d, s) /\ s = s => AllOf(a, s)
        /\ Of(d, p) /\ (s = "ask" \/ s \in p) => Of(a, p)
    BY AppendedKeeps
  <2> HIDE DEF a
  <2>2. e = a
    BY <1>3 DEF a
  <2> QED
    BY <1>1, <2>1, <2>2
<1> QED
  BY <1>2, <1>3

\* A flow nothing happens to.
LEMMA OtherFlow ==
  ASSUME SmoothInv, NEW g \in Flows,
         entry'[g] = entry[g], down'[g] = down[g], up'[g] = up[g],
         past'[g] = past[g], g \in smooth' => g \in smooth,
         g \in DOMAIN table => g \in DOMAIN table' /\ table'[g] = table[g]
  PROVE  Seen(g)' /\ (g \in smooth' => InPlace(g)')
<1>1. Seen(g)'
  BY DEF SmoothInv, Seen
<1>2. ASSUME g \in smooth' PROVE InPlace(g)'
  BY <1>2 DEF SmoothInv, InPlace
<1> QED
  BY <1>1, <1>2

\* A setting the entry has not had is put at the end of the setups.
LEMMA ChangeSmooth ==
  ASSUME SmoothInv, NEW f \in Flows, NEW s \in Settings, Change(f, s),
         up' \in [Flows -> Seq(Settings \cup {"ask"})], UNCHANGED table,
         \A g \in Flows \ {f} : up'[g] = up[g],
         \A t \in Settings : Has(up'[f], t) => Has(up[f], t),
         Of(up'[f], past[f])
  PROVE  SmoothInv'
<1>1. /\ entry \in [Flows -> [set : Settings \cup {"none"}, online : BOOLEAN,
                              countdown : -1 .. RetxTime]]
      /\ down \in [Flows -> Seq(Settings)]
      /\ past \in [Flows -> SUBSET Settings] /\ smooth \subseteq Flows
  BY DEF SmoothInv, SetupShape, EntryOK
<1>2. /\ past' = [past EXCEPT ![f] = @ \cup {s}]
      /\ smooth' = IF s \notin past[f] THEN smooth ELSE smooth \ {f}
      /\ entry' = [entry EXCEPT ![f] = Changed(s)]
      /\ down' = Send(down, f, s)
  BY DEF Change, Still
<1>3. EntryOK'
  BY <1>1, <1>2, FlowSetupAssumption DEF EntryOK, Changed
<1>4. /\ down' \in [Flows -> Seq(Settings)]
      /\ \A g \in Flows \ {f} : down'[g] = down[g]
      /\ down'[f] = down[f] \/ down'[f] = Append(down[f], s)
  <2> DEFINE d == Send(down, f, s)
  <2>1. down \in Channels(Settings)
    BY <1>1 DEF Channels
  <2>2. /\ d \in Channels(Settings)
        /\ \A g \in Flows \ {f} : d[g] = down[g]
        /\ d[f] = down[f] \/ d[f] = Append(down[f], s)
    BY <2>1, SendIs
  <2>3. down' = d
    BY <1>2
  <2> HIDE DEF d
  <2> QED
    BY <2>2, <2>3 DEF Channels
<1>5. SetupShape'
  BY <1>1, <1>2, <1>3, <1>4 DEF SetupShape
<1>6. ASSUME NEW g \in Flows \ {f}
      PROVE  Seen(g)' /\ (g \in smooth' => InPlace(g)')
  BY <1>1, <1>2, <1>4, OtherFlow
<1>7. /\ entry'[f].set = s /\ ~ entry'[f].online /\ past'[f] = past[f] \cup {s}
  BY <1>1, <1>2 DEF Changed
<1>8. /\ Of(down[f], past[f]) /\ Of(up[f], past[f]) /\ down[f] \in Seq(Settings)
  BY <1>1 DEF SmoothInv, Seen
<1>9. s # "ask" /\ Of(down[f], past'[f])
  BY <1>7, <1>8, FlowSetupAssumption DEF Of
<1>10. Of(down'[f], past'[f])
  <2>1. s \in past'[f]
    BY <1>7
  <2> QED
    BY <1>4, <1>8, <1>9, <2>1, SentOrNot
<1>11. Seen(f)'
  BY <1>7, <1>10 DEF Seen, Of
<1>12. ASSUME f \in smooth' PROVE InPlace(f)'
  <2>1. s \notin past[f]
    BY <1>2, <1>12
  <2>2. Of(down[f], past[f]) /\ down[f] \in Seq(Settings)
    BY <1>8
  <2>3. Ordered(down'[f], s)
    BY <1>4, <2>1, <2>2, SentOrNot
  <2>4. ~ Has(up'[f], s)
    BY <1>8, <1>9, <2>1 DEF Of, Has
  <2> QED
    BY <1>7, <2>3, <2>4 DEF InPlace
<1> QED
  BY <1>1, <1>5, <1>6, <1>11, <1>12 DEF SmoothInv, SetupShape

\* A flow whose entry keeps its setting: setups of it may be sent again or
\* lost, acknowledgements of it lost or taken.
LEMMA SameSetting ==
  ASSUME SmoothInv, NEW f \in Flows,
         past'[f] = past[f], entry'[f].set = entry[f].set,
         Ordered(down[f], entry[f].set) => Ordered(down'[f], entry[f].set),
         AllOf(down[f], entry[f].set) => AllOf(down'[f], entry[f].set),
         Of(down'[f], past[f]), Of(up'[f], past[f]),
         entry'[f].online \/ Has(up'[f], entry[f].set) =>
           entry[f].online \/ Has(up[f], entry[f].set),
         f \in DOMAIN table => f \in DOMAIN table' /\ table'[f] = table[f],
         f \in smooth' => f \in smooth
  PROVE  Seen(f)' /\ (f \in smooth' => InPlace(f)')
<1>1. Seen(f)'
  BY DEF SmoothInv, Seen
<1>2. ASSUME f \in smooth' PROVE InPlace(f)'
  BY <1>2 DEF SmoothInv, InPlace
<1> QED
  BY <1>1, <1>2

\* The timer, or the answer to a request, sends the setting of the entry.
LEMMA TickSmooth ==
  ASSUME SmoothInv, Tick
  PROVE  SmoothInv'
<1>1. /\ EntryOK /\ EntryOK' /\ down \in Channels(Settings)
      /\ table' = table /\ up' = up /\ past' = past /\ smooth' = smooth
  <2>1. EntryOK'
    <3> DEFINE e(f) == [entry[f] EXCEPT !.countdown = Countdown(f)]
    <3>1. \A f \in Flows : Countdown(f) \in -1 .. RetxTime
      BY FlowSetupAssumption DEF SmoothInv, SetupShape, EntryOK, Down, Countdown
    <3>2. \A f \in Flows : e(f) \in [set : Settings \cup {"none"},
                  online : BOOLEAN, countdown : -1 .. RetxTime]
      BY <3>1 DEF SmoothInv, SetupShape, EntryOK
    <3>3. entry' = [f \in Flows |-> IF entry[f].set = "none" THEN entry[f] ELSE e(f)]
      BY DEF Tick
    <3> HIDE DEF e
    <3> QED
      BY <3>2, <3>3 DEF SmoothInv, SetupShape, EntryOK
  <2> QED
    BY <2>1 DEF Tick, SmoothInv, SetupShape, Channels
<1>2. ASSUME NEW f \in Flows
      PROVE  /\ entry'[f].set = entry[f].set /\ entry'[f].online = entry[f].online
             /\ \/ down'[f] = down[f]
                \/ entry[f].set \in Settings /\ down'[f] = Append(down[f], entry[f].set)
             /\ down'[f] \in Seq(Settings)
  <2>1. entry'[f].set = entry[f].set /\ entry'[f].online = entry[f].online
    BY <1>1 DEF Tick, EntryOK
  <2>2. down'[f] = IF Due(f) THEN Send(down, f, entry[f].set)[f] ELSE down[f]
    BY DEF Tick
  <2>3. CASE Due(f)
    <3>1. entry[f].set \in Settings
      BY <1>1, <2>3 DEF Due, EntryOK
    <3> DEFINE d == Send(down, f, entry[f].set)
    <3>2. /\ d \in Channels(Settings)
          /\ d[f] = down[f] \/ d[f] = Append(down[f], entry[f].set)
      BY <1>1, <3>1, SendIs
    <3> HIDE DEF d
    <3> QED
      BY <2>1, <2>2, <2>3, <3>1, <3>2 DEF Channels, d
  <2>4. CASE ~ Due(f)
    BY <1>1, <2>1, <2>2, <2>4 DEF Channels
  <2> QED
    BY <2>3, <2>4
<1>3. SetupShape'
  <2>1. down' = [f \in Flows |-> down'[f]]
    BY DEF Tick
  <2>2. down' \in [Flows -> Seq(Settings)]
    BY <1>2, <2>1
  <2> QED
    BY <1>1, <2>2 DEF SmoothInv, SetupShape
<1>4. ASSUME NEW f \in Flows
      PROVE  Seen(f)' /\ (f \in smooth' => InPlace(f)')
  <2> DEFINE d == down[f]
             e == down'[f]
             s == entry[f].set
  <2>1. d \in Seq(Settings) /\ Of(d, past[f]) /\ Of(up[f], past[f])
    BY <1>1 DEF Channels, SmoothInv, Seen
  <2>2. s # "none" => s \in past[f]
    BY DEF SmoothInv, Seen
  <2>3. e = d \/ (s \in Settings /\ e = Append(d, s))
    BY <1>2
  <2>4. s \in Settings => s \in past[f]
    BY <2>2, FlowSetupAssumption
  <2> HIDE DEF d, e, s
  <2>5. /\ Ordered(d, s) => Ordered(e, s)
        /\ AllOf(d, s) => AllOf(e, s)
        /\ Of(e, past[f])
    BY <2>1, <2>3, <2>4, SentOrNot
  <2> QED
    BY <1>1, <1>2, <2>1, <2>5, SameSetting DEF d, e, s
<1> QED
  BY <1>1, <1>3, <1>4 DEF SmoothInv, SetupShape

\* What SmoothInv says of the types, and of one flow.
LEMMA SmoothParts ==
  ASSUME SmoothInv
  PROVE  /\ EntryOK /\ down \in Channels(Settings)
         /\ up \in Channels(Settings \cup {"ask"})
         /\ past \in [Flows -> SUBSET Settings] /\ smooth \subseteq Flows
         /\ \A f \in Flows :
              /\ down[f] \in Seq(Settings) /\ up[f] \in Seq(Settings \cup {"ask"})
              /\ Of(down[f], past[f]) /\ Of(up[f], past[f])
              /\ entry[f].set # "none" => entry[f].set \in past[f]
  BY DEF SmoothInv, SetupShape, Channels, Seen

\* A packet of f is taken off its way to the controller.
LEMMA TakenUp ==
  ASSUME SmoothInv, NEW f \in Flows, NEW i \in DOMAIN up[f], NEW s
  PROVE  LET u == Without(up, f, i)
         IN  /\ u \in Channels(Settings \cup {"ask"})
             /\ \A g \in Flows \ {f} : u[g] = up[g]
             /\ Of(u[f], past[f])
             /\ Has(u[f], s) => Has(up[f], s)
<1> DEFINE u == Without(up, f, i)
<1>1. up \in Channels(Settings \cup {"ask"}) /\ up[f] \in Seq(Settings \cup {"ask"})
      /\ Of(up[f], past[f])
  BY SmoothParts
<1>2. /\ u \in Channels(Settings \cup {"ask"})
      /\ \A g \in Flows \ {f} : u[g] = up[g]
      /\ u[f] = RemoveAt(up[f], i)
  BY <1>1, WithoutIs
<1>3. /\ Of(up[f], past[f]) => Of(RemoveAt(up[f], i), past[f])
      /\ Has(RemoveAt(up[f], i), s) => Has(up[f], s)
  BY <1>1, RemovedKeeps
<1> HIDE DEF u
<1> QED
  BY <1>1, <1>2, <1>3 DEF u

\* A setup of f is taken off its way to the node.
LEMMA TakenDown ==
  ASSUME SmoothInv, NEW f \in Flows, NEW i \in DOMAIN down[f], NEW s
  PROVE  LET d == Without(down, f, i)
         IN  /\ d \in Channels(Settings)
             /\ \A g \in Flows \ {f} : d[g] = down[g]
             /\ Of(d[f], past[f])
             /\ Ordered(down[f], s) => Ordered(d[f], s)
             /\ AllOf(down[f], s) => AllOf(d[f], s)
<1> DEFINE d == Without(down, f, i)
<1>1. down \in Channels(Settings) /\ down[f] \in Seq(Settings) /\ Of(down[f], past[f])
  BY SmoothParts
<1>2. /\ d \in Channels(Settings)
      /\ \A g \in Flows \ {f} : d[g] = down[g]
      /\ d[f] = RemoveAt(down[f], i)
  BY <1>1, WithoutIs
<1>3. /\ Of(down[f], past[f]) => Of(RemoveAt(down[f], i), past[f])
      /\ Ordered(down[f], s) => Ordered(RemoveAt(down[f], i), s)
      /\ AllOf(down[f], s) => AllOf(RemoveAt(down[f], i), s)
  BY <1>1, RemovedKeeps
<1> HIDE DEF d
<1> QED
  BY <1>1, <1>2, <1>3 DEF d

LEMMA LoseSmooth ==
  ASSUME SmoothInv, NEW f \in Flows, Lose(f)
  PROVE  SmoothInv'
<1>1. entry' = entry /\ table' = table /\ past' = past /\ smooth' = smooth
  BY DEF Lose
<1>2. /\ down' \in Channels(Settings) /\ up' \in Channels(Settings \cup {"ask"})
      /\ \A g \in Flows \ {f} : down'[g] = down[g] /\ up'[g] = up[g]
      /\ Ordered(down[f], entry[f].set) => Ordered(down'[f], entry[f].set)
      /\ AllOf(down[f], entry[f].set) => AllOf(down'[f], entry[f].set)
      /\ Has(up'[f], entry[f].set) => Has(up[f], entry[f].set)
      /\ Of(down'[f], past[f]) /\ Of(up'[f], past[f])
  <2>1. CASE \E i \in DOMAIN down[f] : down' = Without(down, f, i) /\ UNCHANGED up
    BY <2>1, SmoothParts, TakenDown
  <2>2. CASE \E i \in DOMAIN up[f] : up' = Without(up, f, i) /\ UNCHANGED down
    BY <2>2, SmoothParts, TakenUp
  <2> QED
    BY <2>1, <2>2 DEF Lose
<1>3. SetupShape'
  BY <1>1, <1>2 DEF SmoothInv, SetupShape, EntryOK, Channels
<1>4. ASSUME NEW g \in Flows
      PROVE  Seen(g)' /\ (g \in smooth' => InPlace(g)')
  BY <1>1, <1>2, OtherFlow, SameSetting
<1> QED
  BY <1>1, <1>3, <1>4 DEF SmoothInv, SetupShape

LEMMA AskSmooth ==
  ASSUME SmoothInv, NEW f \in Flows, Ask(f)
  PROVE  SmoothInv'
<1>1. entry' = entry /\ table' = table /\ past' = past /\ smooth' = smooth
      /\ down' = down /\ up' = Send(up, f, "ask")
  BY DEF Ask
<1>2. /\ up' \in Channels(Settings \cup {"ask"})
      /\ \A g \in Flows \ {f} : up'[g] = up[g]
      /\ up'[f] = up[f] \/ up'[f] = Append(up[f], "ask")
  <2> DEFINE S == Settings \cup {"ask"}
             u == Send(up, f, "ask")
  <2>1. up \in Channels(S) /\ "ask" \in S
    BY SmoothParts
  <2> HIDE DEF S
  <2>2. /\ u \in Channels(S) /\ \A g \in Flows \ {f} : u[g] = up[g]
        /\ u[f] = up[f] \/ u[f] = Append(up[f], "ask")
    BY <2>1, SendIs
  <2> HIDE DEF u
  <2> QED
    BY <1>1, <2>2 DEF S, u
<1>3. Of(up'[f], past[f]) /\ (Has(up'[f], entry[f].set) => Has(up[f], entry[f].set))
  <2>1. CASE up'[f] = up[f]
    BY <2>1, SmoothParts
  <2>2. CASE up'[f] = Append(up[f], "ask")
    <3> DEFINE a == Append(up[f], "ask")
               S == Settings \cup {"ask"}
    <3>1. up[f] \in Seq(S) /\ "ask" \in S /\ Of(up[f], past[f])
      BY SmoothParts
    <3>2. entry[f].set # "ask"
      BY SmoothParts, FlowSetupAssumption DEF EntryOK
    <3> HIDE DEF S
    <3>3. /\ Has(a, entry[f].set) => Has(up[f], entry[f].set) \/ "ask" = entry[f].set
          /\ Of(up[f], past[f]) /\ ("ask" = "ask" \/ "ask" \in past[f]) => Of(a, past[f])
      BY <3>1, AppendedKeeps
    <3> HIDE DEF a
    <3> QED
      BY <2>2, <3>1, <3>2, <3>3 DEF a
  <2> QED
    BY <1>2, <2>1, <2>2
<1>4. SetupShape'
  BY <1>1, <1>2 DEF SmoothInv, SetupShape, EntryOK, Channels
<1>5. ASSUME NEW g \in Flows
      PROVE  Seen(g)' /\ (g \in smooth' => InPlace(g)')
  BY <1>1, <1>2, <1>3, SmoothParts, OtherFlow, SameSetting
<1> QED
  BY <1>1, <1>4, <1>5 DEF SmoothInv, SetupShape

\* The controller handles a packet of the node: an acknowledgement of what
\* the entry says was underway, a request is answered with the entry.
LEMMA ArriveSmooth ==
  ASSUME SmoothInv, NEW f \in Flows, NEW i \in DOMAIN up[f], Arrive(f, i)
  PROVE  SmoothInv'
<1> DEFINE s == entry[f].set
<1>1. table' = table /\ up' = Without(up, f, i)
  BY DEF Arrive
<1>2. /\ up' \in Channels(Settings \cup {"ask"})
      /\ \A g \in Flows \ {f} : up'[g] = up[g]
      /\ Of(up'[f], past[f])
      /\ \A t : Has(up'[f], t) => Has(up[f], t)
  BY <1>1, TakenUp
<1>3. CASE \E t \in Settings : Change(f, t)
  BY <1>1, <1>2, <1>3, ChangeSmooth DEF Channels
<1>4. CASE /\ entry' = entry /\ past' = past /\ smooth' = smooth
           /\ s # "none" /\ down' = Resent(f)
  <2>1. s \in Settings
    BY <1>4, SmoothParts DEF EntryOK
  <2>2. /\ down' \in Channels(Settings)
        /\ \A g \in Flows \ {f} : down'[g] = down[g]
        /\ down'[f] = down[f] \/ down'[f] = Append(down[f], s)
    <3> DEFINE d == Send(down, f, s)
    <3>1. down \in Channels(Settings)
      BY SmoothParts
    <3>2. /\ d \in Channels(Settings)
          /\ \A g \in Flows \ {f} : d[g] = down[g]
          /\ d[f] = down[f] \/ d[f] = Append(down[f], s)
      BY <2>1, <3>1, SendIs
    <3>3. down' = d \/ down' = down
      BY <1>4 DEF Resent
    <3> HIDE DEF d
    <3> QED
      BY <3>1, <3>2, <3>3
  <2>3. /\ Ordered(down[f], s) => Ordered(down'[f], s)
        /\ AllOf(down[f], s) => AllOf(down'[f], s)
        /\ Of(down'[f], past[f])
    <3>1. down[f] \in Seq(Settings) /\ Of(down[f], past[f]) /\ s \in past[f]
      BY <1>4, SmoothParts
    <3> DEFINE d == down'[f]
    <3>2. d = down[f] \/ d = Append(down[f], s)
      BY <2>2
    <3> HIDE DEF s, d
    <3>3. /\ Ordered(down[f], s) => Ordered(d, s)
          /\ AllOf(down[f], s) => AllOf(d, s)
          /\ Of(d, past[f])
      BY <2>1, <3>1, <3>2, SentOrNot
    <3> QED
      BY <3>3 DEF d
  <2>4. SetupShape'
    BY <1>2, <1>4, <2>2 DEF SmoothInv, SetupShape, EntryOK, Channels
  <2>5. ASSUME NEW g \in Flows
        PROVE  Seen(g)' /\ (g \in smooth' => InPlace(g)')
    BY <1>1, <1>2, <1>4, <2>2, <2>3, OtherFlow, SameSetting
  <2> QED
    BY <1>4, <2>4, <2>5 DEF SmoothInv, SetupShape
<1>5. CASE /\ up[f][i] # "ask"
           /\ entry' = [entry EXCEPT ![f] = SetOnline(@, up[f][i])]
           /\ smooth' = Still(f, i = 1) /\ down' = down /\ past' = past
  <2>1. /\ entry[f] \in [set : Settings \cup {"none"}, online : BOOLEAN,
                         countdown : -1 .. RetxTime]
        /\ EntryOK
    BY SmoothParts DEF EntryOK
  <2>2. /\ \A g \in Flows \ {f} : entry'[g] = entry[g]
        /\ entry'[f] = SetOnline(entry[f], up[f][i])
        /\ EntryOK'
    BY <1>5, <2>1 DEF EntryOK, SetOnline
  <2>3. /\ entry'[f].set = s
        /\ entry'[f].online => entry[f].online \/ up[f][i] = s
    BY <2>1, <2>2 DEF SetOnline
  <2>4. up[f][i] = s => Has(up[f], s)
    BY DEF Has
  <2>5. smooth' \subseteq smooth
    BY <1>5 DEF Still
  <2>6. SetupShape'
    BY <1>2, <1>5, <2>2, <2>5 DEF SmoothInv, SetupShape, Channels
  <2>7. ASSUME NEW g \in Flows
        PROVE  Seen(g)' /\ (g \in smooth' => InPlace(g)')
    <3>1. CASE g = f
      BY <1>1, <1>2, <1>5, <2>3, <2>4, <2>5, <3>1, SmoothParts, SameSetting
    <3>2. CASE g # f
      BY <1>1, <1>2, <1>5, <2>2, <2>5, <3>2, OtherFlow
    <3> QED
      BY <3>1, <3>2
  <2> QED
    BY <2>5, <2>6, <2>7 DEF SmoothInv, SetupShape
<1> QED
  BY <1>3, <1>4, <1>5 DEF Arrive, Answer

\* The node makes or changes an entry.  In a smooth flow this is the first
\* setup underway: if it is the newest, those behind it say the same, and if
\* it is not, no newer one has been acknowledged.
LEMMA InstallSmooth ==
  ASSUME SmoothInv, NEW f \in Flows, NEW i \in DOMAIN down[f], Install(f, i)
  PROVE  SmoothInv'
<1> DEFINE m == down[f][i]
           s == entry[f].set
<1>1. /\ entry' = entry /\ past' = past
      /\ down' = Without(down, f, i) /\ up' = Send(up, f, m)
      /\ smooth' = Still(f, i = 1 /\ HasRoom(f))
      /\ table' = IF ~ HasRoom(f) THEN table
                  ELSE [g \in DOMAIN table \cup {f} |-> IF g = f THEN m ELSE table[g]]
  BY DEF Install
<1>2. /\ down[f] \in Seq(Settings) /\ m \in Settings /\ m \in past[f]
  BY SmoothParts, FlowSetupAssumption DEF Of
<1>3. /\ down' \in Channels(Settings)
      /\ \A g \in Flows \ {f} : down'[g] = down[g]
      /\ Of(down'[f], past[f])
      /\ Ordered(down[f], s) => Ordered(down'[f], s)
      /\ AllOf(down[f], s) => AllOf(down'[f], s)
  BY <1>1, TakenDown
<1> HIDE DEF s, m
<1>4. /\ up' \in Channels(Settings \cup {"ask"})
      /\ \A g \in Flows \ {f} : up'[g] = up[g]
      /\ up'[f] = up[f] \/ up'[f] = Append(up[f], m)
  <2> DEFINE S == Settings \cup {"ask"}
             u == Send(up, f, m)
  <2>1. up \in Channels(S) /\ m \in S
    BY <1>2, SmoothParts
  <2> HIDE DEF S
  <2>2. /\ u \in Channels(S) /\ \A g \in Flows \ {f} : u[g] = up[g]
        /\ u[f] = up[f] \/ u[f] = Append(up[f], m)
    BY <2>1, SendIs
  <2> HIDE DEF u
  <2> QED
    BY <1>1, <2>2 DEF S, u
<1>5. Of(up'[f], past[f]) /\ (Has(up'[f], s) => Has(up[f], s) \/ m = s)
  <2>1. CASE up'[f] = up[f]
    BY <2>1, SmoothParts
  <2>2. CASE up'[f] = Append(up[f], m)
    <3> DEFINE a == Append(up[f], m)
               S == Settings \cup {"ask"}
    <3>1. up[f] \in Seq(S) /\ m \in S /\ Of(up[f], past[f])
      BY <1>2, SmoothParts
    <3> HIDE DEF S
    <3>2. /\ Has(a, s) => Has(up[f], s) \/ m = s
          /\ Of(up[f], past[f]) /\ (m = "ask" \/ m \in past[f]) => Of(a, past[f])
      BY <3>1, AppendedKeeps
    <3> HIDE DEF a
    <3> QED
      BY <1>2, <2>2, <3>1, <3>2 DEF a
  <2> QED
    BY <1>4, <2>1, <2>2
<1>6. smooth' \subseteq smooth /\ SetupShape'
  BY <1>1, <1>3, <1>4 DEF SmoothInv, SetupShape, EntryOK, Channels, Still
<1>7. ASSUME NEW g \in Flows \ {f}
      PROVE  Seen(g)' /\ (g \in smooth' => InPlace(g)')
  <2>1. g \in DOMAIN table => g \in DOMAIN table' /\ table'[g] = table[g]
    BY <1>1
  <2> QED
    BY <1>1, <1>3, <1>4, <1>6, <2>1, OtherFlow
<1>8. Seen(f)'
  BY <1>1, <1>3, <1>5, SmoothParts DEF Seen
<1>9. ASSUME f \in smooth' PROVE InPlace(f)'
  <2>1. f \in smooth /\ i = 1 /\ HasRoom(f) /\ InPlace(f)
    BY <1>1, <1>9 DEF Still, SmoothInv
  <2>2. f \in DOMAIN table' /\ table'[f] = m
    BY <1>1, <2>1
  <2>3. Ordered(down[f], s) /\ Ordered(down'[f], s)
    BY <1>3, <2>1 DEF InPlace, s
  <2>4. CASE m = s
    <3>1. AllOf(down[f], s)
      <4>1. \A j \in DOMAIN down[f] : j = 1 \/ 1 < j
        BY <1>2
      <4> QED
        BY <2>1, <2>3, <2>4, <4>1 DEF Ordered, AllOf, m
    <3> QED
      BY <1>1, <1>3, <2>2, <2>3, <2>4, <3>1 DEF InPlace, s
  <2>5. CASE m # s
    <3>1. ~ AllOf(down[f], s)
      BY <2>5 DEF AllOf, m
    <3>2. ~ entry[f].online /\ ~ Has(up[f], s)
      BY <2>1, <3>1 DEF InPlace, s
    <3> QED
      BY <1>1, <1>5, <2>3, <2>5, <3>2 DEF InPlace, s
  <2> QED
    BY <2>4, <2>5
<1> QED
  BY <1>6, <1>7, <1>8, <1>9 DEF SmoothInv, SetupShape

LEMMA InitSmooth == SetupInit => SmoothInv
<1> SUFFICES ASSUME SetupInit PROVE SmoothInv
  OBVIOUS
<1>1. /\ entry = [f \in Flows |-> NoEntry] /\ down = [f \in Flows |-> <<>>]
      /\ up = [f \in Flows |-> <<>>] /\ past = [f \in Flows |-> {}]
      /\ smooth = Flows
  BY DEF SetupInit
<1>2. <<>> \in Seq(Settings) /\ <<>> \in Seq(Settings \cup {"ask"})
  OBVIOUS
<1>3. SetupShape
  BY <1>1, <1>2, InitArmed DEF SetupShape, Armed
<1>4. ASSUME NEW f \in Flows PROVE Seen(f) /\ InPlace(f)
  BY <1>1 DEF Seen, InPlace, NoEntry, Of, Ordered, AllOf, Has
<1> QED
  BY <1>1, <1>3, <1>4 DEF SmoothInv

LEMMA NextSmooth == SmoothInv /\ [SetupNext]_setupVars => SmoothInv'
<1> SUFFICES ASSUME SmoothInv, [SetupNext]_setupVars PROVE SmoothInv'
  OBVIOUS
<1>1. CASE UNCHANGED setupVars
  BY <1>1 DEF setupVars, SmoothInv, SetupShape, EntryOK, Seen, InPlace
<1>2. ASSUME NEW f \in Flows, NEW s \in Settings, RouteChange(f, s)
      PROVE  SmoothInv'
  <2>1. Change(f, s) /\ table' = table /\ up' = up
    BY <1>2 DEF RouteChange
  <2>2. up \in [Flows -> Seq(Settings \cup {"ask"})] /\ Of(up[f], past[f])
    BY DEF SmoothInv, SetupShape, Seen
  <2> QED
    BY <2>1, <2>2, ChangeSmooth
<1>3. ASSUME NEW f \in Flows, NEW i \in DOMAIN up[f], Arrive(f, i)
      PROVE  SmoothInv'
  BY <1>3, ArriveSmooth
<1>4. CASE Tick
  BY <1>4, TickSmooth
<1>5. ASSUME NEW f \in Flows, NEW i \in DOMAIN down[f], Install(f, i)
      PROVE  SmoothInv'
  BY <1>5, InstallSmooth
<1>6. ASSUME NEW f \in Flows, Ask(f) PROVE SmoothInv'
  BY <1>6, AskSmooth
<1>7. ASSUME NEW f \in Flows, Lose(f) PROVE SmoothInv'
  BY <1>7, LoseSmooth
<1>8. CASE Restart
  <2>1. /\ entry' = entry /\ down' = down /\ up' = up /\ past' = past
        /\ smooth' = {}
    BY <1>8 DEF Restart
  <2> QED
    BY <2>1 DEF SmoothInv, SetupShape, EntryOK, Seen
<1> QED
  BY <1>1, <1>2, <1>3, <1>4, <1>5, <1>6, <1>7, <1>8 DEF SetupNext

\* However its packets are lost and sent again, and whatever old
\* acknowledgements still arrive, an entry of a smooth flow that is held
\* acknowledged is in the node's table ("confirmed by node ack",
\* sdn-flow-table-cache.h, 78).
THEOREM OnlineAlwaysInstalled == SetupSpec => []OnlineIsInstalled
<1>1. SmoothInv => OnlineIsInstalled
  <2> SUFFICES ASSUME SmoothInv, NEW f \in smooth, entry[f].online, Settled(f)
               PROVE  f \in DOMAIN table /\ table[f] = entry[f].set
    BY DEF OnlineIsInstalled, Installed
  <2> QED
    BY DEF SmoothInv, InPlace
<1> QED
  BY <1>1, InitSmooth, NextSmooth, PTL DEF SetupSpec
=============================================================================
