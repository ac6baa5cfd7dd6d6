------------------------------ MODULE Collect ------------------------------
(***************************************************************************)
(* Collect as the nodes run it (contiki-sdn/collect-sdn/collectsdn.c): a   *)
(* tree towards the sink, built from metrics that nodes announce, and      *)
(* packets sent up it hop by hop with acknowledgements.  The SDN opens it  *)
(* for the neighbor list and the parent; the packets it then sends are     *)
(* probes of links without an estimate.  collect_sdn_send, which nothing   *)
(* in the repository calls, is modelled as well.                           *)
(*                                                                         *)
(* A node's state is a record, and the handlers are operators on it.  Left *)
(* out: when announcements are sent (bump_advertisement), the keepalive    *)
(* timer, which the SDN does not set, statistics and the drawing of trees. *)
(* Contiki's neighbor list, link estimates, packet queue and MAC layer are *)
(* modelled from their use.                                                *)
(***************************************************************************)
EXTENDS Integers, Sequences, FiniteSets, SequencesExt

CONSTANTS
  Motes, Sink,
  NoNode,          \* linkaddr_null
  LinkUnit,        \* COLLECT_LINK_ESTIMATE_UNIT
  RtmetricMax,       \* RTMETRIC_MAX
  BadLink,         \* the estimate of a link after a failure
  QueueSize,       \* MAX_SENDING_QUEUE
  MinAvailable,    \* MIN_AVAILABLE_QUEUE_ENTRIES
  MacTries,        \* MAX_MAC_REXMITS
  Rexmits,         \* max_rexmits of a packet
  Hops,            \* MAX_HOPLIM
  NumRecent,       \* NUM_RECENT_PACKETS
  IdMod,           \* 2^COLLECT_PACKET_ID_BITS
  MaxSent,         \* bound: of each node, packets of its user
  MaxProbes,       \* bound: of each node, probes
  MaxAnnounced,    \* bound: of each node, announcements received
  MaxUsed,         \* bound: of all nodes, packets, probes and faults
  MaxFaults        \* bound: neighbors that go, packets that expire, frames not reported

ASSUME CollectAssumption ==
  /\ Sink \in Motes /\ NoNode \notin Motes
  /\ LinkUnit \in Nat \ {0} /\ RtmetricMax \in Nat /\ BadLink \in Nat \ {0}
  /\ QueueSize \in Nat \ {0} /\ MinAvailable \in 0 .. QueueSize
  /\ MacTries \in Nat \ {0} /\ Rexmits \in Nat \ {0} /\ Hops \in Nat \ {0}
  /\ NumRecent \in Nat \ {0} /\ IdMod \in Nat \ {0}
  /\ MaxSent \in [Motes -> Nat] /\ MaxProbes \in [Motes -> Nat]
  /\ MaxAnnounced \in [Motes -> Nat] /\ MaxUsed \in Nat /\ MaxFaults \in Nat

VARIABLES
  node,       \* of each node: its collect_conn, neighbor list, recent_packets and MAC queue
  bounds,     \* what was used up of the bounds
  \* History: what the properties refer to.
  took,       \* <<n, packet>> for what n took from a neighbor, and delivered at the sink
  orphan,     \* nodes whose parent left the list since they last sent to one
  expired     \* nodes that lost a packet to its lifetime since they last took a new number

collectVars == <<node, bounds, took, orphan, expired>>

----------------------------------------------------------------------------
(* The neighbor list and the route                                         *)

\* A neighbor: the metric it announced, and the estimate of the link to it.
Estimate == [none |-> LinkUnit, good |-> LinkUnit, bad |-> BadLink]

\* collect_neighbor_rtmetric_link_estimate
Cost(c, m) == c.nbrs[m].rt + Estimate[c.nbrs[m].le]

Known(c, m) == m \in DOMAIN c.nbrs

With(c, m, rt, le) ==
  [c EXCEPT !.nbrs = [x \in DOMAIN @ \cup {m} |->
                        IF x = m THEN [rt |-> rt, le |-> le] ELSE @[x]]]

WithRt(c, m, rt) == IF Known(c, m) THEN With(c, m, rt, c.nbrs[m].le) ELSE c

WithLe(c, m, le) == IF Known(c, m) THEN With(c, m, c.nbrs[m].rt, le) ELSE c

\* collect_neighbor_list_best
Candidates(c) == {m \in DOMAIN c.nbrs : Cost(c, m) < RtmetricMax}

Best(c) == CHOOSE m \in Candidates(c) : \A x \in Candidates(c) : Cost(c, m) <= Cost(c, x)

\* SIGNIFICANT_RTMETRIC_PARENT_CHANGE
Significant == LinkUnit + LinkUnit \div 2

UpdateParent(c) ==
  IF Candidates(c) = {} THEN [c EXCEPT !.parent = NoNode]
  ELSE IF ~ Known(c, c.parent) \/ Cost(c, Best(c)) + Significant < Cost(c, c.parent)
       THEN [c EXCEPT !.parent = Best(c)] ELSE c

\* rtmetric_compute; the sink's metric is not believed.
RtmetricCompute(c) ==
  IF ~ Known(c, c.parent) \/ Cost(c, c.parent) = 0 THEN RtmetricMax ELSE Cost(c, c.parent)

----------------------------------------------------------------------------
(* Sending                                                                 *)

Data(c, p) == [type |-> "DATA", to |-> c.current, id |-> c.seqno, rt |-> c.metric, packet |-> p,
               left |-> IF c.max - c.tx > MacTries THEN MacTries ELSE c.max - c.tx, tries |-> 0]

\* unicast_send; the timer is for a MAC layer that does not report.
SendPacket(c) ==
  [c EXCEPT !.mac = Append(@, Data(c, Head(c.queue))), !.timer = "not sent"]

\* The announced value tells that there is no route, where there is none.
SendQueued(c) ==
  IF c.sending \/ c.queue = <<>> THEN c
  ELSE IF ~ Known(c, c.parent) THEN [c EXCEPT !.announced = RtmetricMax]
  ELSE SendPacket([c EXCEPT !.sending = TRUE, !.current = c.parent, !.tx = 0,
                            !.max = Head(c.queue).rexmits])

\* Queued packets are sent when there is a route again.
UpdateRtmetric(c) ==
  IF c.metric = 0 THEN c
  ELSE LET p == UpdateParent(c)
           r == RtmetricCompute(p)
           u == [p EXCEPT !.metric = r, !.announced = r]
       IN  IF c.metric = RtmetricMax /\ r # RtmetricMax THEN SendQueued(u) ELSE u

\* Mutant of SendNext: the number stays.
SendNextSame(c) ==
  SendQueued([c EXCEPT !.queue = IF @ = <<>> THEN @ ELSE Tail(@),
                       !.timer = "off", !.sending = FALSE, !.tx = 0])

SendNext(c) ==
  SendQueued([c EXCEPT !.queue = IF @ = <<>> THEN @ ELSE Tail(@), !.seqno = (@ + 1) % IdMod,
                       !.timer = "off", !.sending = FALSE, !.tx = 0])

\* The packet goes to the parent of now, and counts anew if that is another.
RetransmitCurrent(c) ==
  IF c.queue = <<>> THEN c
  ELSE LET u == UpdateRtmetric(c)
           v == IF u.current = u.parent THEN u ELSE [u EXCEPT !.current = u.parent, !.tx = 0]
       IN  IF Known(v, v.current) THEN SendPacket([v EXCEPT !.sending = TRUE]) ELSE v

Timedout(c) ==
  SendNext(UpdateRtmetric(WithLe([c EXCEPT !.sending = FALSE], c.current, "bad")))

RetransmitCallback(c) ==
  IF c.tx >= c.max THEN Timedout(c) ELSE RetransmitCurrent([c EXCEPT !.sending = FALSE])

\* Mutant of NodePacketSent: no timer after the report.
NodePacketSentOnly(c, tries) ==
  LET u == [c EXCEPT !.tx = @ + tries]
  IN  IF u.tx >= u.max THEN Timedout(u) ELSE [u EXCEPT !.timer = "off"]

\* The MAC layer's report of a data frame.
NodePacketSent(c, tries) ==
  LET u == [c EXCEPT !.tx = @ + tries]
  IN  IF u.tx >= u.max THEN Timedout(u) ELSE [u EXCEPT !.timer = "rexmit"]

----------------------------------------------------------------------------
(* Receiving                                                               *)

Seen(c, p) == \E i \in DOMAIN c.recent : c.recent[i] = [org |-> p.org, no |-> p.no]

\* Mutant of AddToRecent: nothing is remembered.
AddNothing(c, p) == c

\* add_packet_to_recent_packets: probes are not remembered.
AddToRecent(c, p) ==
  IF p.probe THEN c
  ELSE [c EXCEPT !.recent = LET r == Append(@, [org |-> p.org, no |-> p.no])
                            IN  IF Len(r) > NumRecent THEN Tail(r) ELSE r]

SendAck(c, f, from, flags) ==
  [c EXCEPT !.mac = Append(@, [type |-> "ACK", to |-> from, id |-> f.id, rt |-> c.metric,
                               flags |-> flags])]

Congested(c) == IF Len(c.queue) >= QueueSize \div 2 THEN {"CONGESTED"} ELSE {}

\* Whether a node takes a data packet that it has not seen.
Delivers(c, p) == c.metric = 0
Forwards(c, p) == c.metric # 0 /\ p.ttl > 1 /\ c.metric # RtmetricMax
HasRoom(c) == Len(c.queue) <= QueueSize - MinAvailable

\* The metric in the header is the neighbor's news.
Heard(c, f, from) ==
  IF Known(c, from) THEN UpdateRtmetric(WithRt(c, from, f.rt)) ELSE c

\* There is one packet buffer.  When the news makes a route and a waiting
\* packet is sent, that packet is what the rest of the handler finds in it,
\* with the node's own address as the sender.
Overwritten(c, f, from) == ~ c.sending /\ Heard(c, f, from).sending

InBuffer(c, f, from) ==
  IF Overwritten(c, f, from)
  THEN [frame |-> Last(Heard(c, f, from).mac), from |-> f.to] ELSE [frame |-> f, from |-> from]

\* node_packet_received for a data packet.
ReceiveData(u, f, from) ==
  LET p == f.packet
  IN  IF Seen(u, p) THEN SendAck(u, f, from, Congested(u))
      ELSE IF Delivers(u, p) THEN SendAck(AddToRecent(u, p), f, from, {})
      ELSE IF Forwards(u, p)
           THEN IF HasRoom(u)
                THEN SendQueued(SendAck(AddToRecent([u EXCEPT !.queue = Append(@, [p EXCEPT !.ttl = @ - 1])], p),
                                        f, from, Congested(u)))
                ELSE SendAck(u, f, from, {"DROPPED", "CONGESTED"})
      ELSE IF p.ttl <= 1 THEN SendAck(u, f, from, Congested(u) \cup {"DROPPED", "LIFETIME"})
      ELSE u

Takes(c, f, from) ==
  LET u == Heard(c, f, from)
      p == f.packet
  IN  /\ ~ p.probe /\ ~ Overwritten(c, f, from) /\ ~ Seen(u, p)
      /\ Delivers(u, p) \/ (Forwards(u, p) /\ HasRoom(u))

AckMatches(c, f, from) == from = c.current /\ f.id = c.seqno

HandleAck(u, f, from) ==
  LET v == UpdateRtmetric(WithRt(WithLe(u, from, "good"), from, f.rt))
      w == IF "CONGESTED" \in f.flags THEN UpdateRtmetric(WithLe(v, from, "bad")) ELSE v
  IN  IF ~ AckMatches(u, f, from) THEN u
      ELSE IF "DROPPED" \in f.flags /\ "LIFETIME" \notin f.flags
           THEN [UpdateRtmetric(WithLe(w, from, "bad"))
                   EXCEPT !.tx = IF @ = 0 THEN MacTries ELSE @, !.timer = "rexmit"]
           ELSE SendNext(w)

NodePacketReceived(c, f, from) ==
  LET u == Heard(c, f, from)
      b == InBuffer(c, f, from)
  IN  IF b.frame.type = "DATA" THEN ReceiveData(u, b.frame, b.from) ELSE HandleAck(u, b.frame, b.from)

----------------------------------------------------------------------------
(* The network                                                             *)

Blank(n) ==
  [metric |-> IF n = Sink THEN 0 ELSE RtmetricMax, announced |-> IF n = Sink THEN 0 ELSE RtmetricMax,
   parent |-> NoNode, current |-> NoNode, nbrs |-> [m \in {} |-> 0],
   queue |-> <<>>, seqno |-> 0, eseqno |-> 0, sending |-> FALSE, tx |-> 0, max |-> 0,
   timer |-> "off", recent |-> <<>>, mac |-> <<>>]

\* collect_sdn_open and collect_sdn_set_sink
CollectInit ==
  /\ node = [n \in Motes |-> Blank(n)]
  /\ bounds = [sent |-> [n \in Motes |-> 0], probes |-> [n \in Motes |-> 0],
               announced |-> [n \in Motes |-> 0], used |-> 0, faults |-> 0]
  /\ took = {} /\ orphan = {} /\ expired = {}

\* A node whose number is a new one has got over the loss of a packet.
Numbered(n, c) == expired' = IF c.seqno # node[n].seqno THEN expired \ {n} ELSE expired

\* A node that sends and has a parent has got over the loss of one.
Step(n, c) ==
  /\ node' = [node EXCEPT ![n] = c]
  /\ orphan' = IF c.sending /\ Known(c, c.parent) THEN orphan \ {n} ELSE orphan
  /\ Numbered(n, c)

\* received_announcement
Announce(m, n) ==
  /\ m # n
  /\ bounds.announced[n] < MaxAnnounced[n]
  /\ bounds' = [bounds EXCEPT !.announced[n] = @ + 1]
  /\ LET c == node[n]
     IN  Step(n, UpdateRtmetric(With(c, m, node[m].announced,
                                     IF Known(c, m) THEN c.nbrs[m].le ELSE "none")))
  /\ UNCHANGED took

\* collect_sdn_send; the number skips 0 after it has come round.
Send(n) ==
  /\ n # Sink
  /\ bounds.sent[n] < MaxSent[n] /\ bounds.used < MaxUsed
  /\ bounds' = [bounds EXCEPT !.sent[n] = @ + 1, !.used = @ + 1]
  /\ LET c == node[n]
         next == (c.eseqno + 1) % IdMod
         u == [c EXCEPT !.eseqno = IF next = 0 THEN IdMod \div 2 ELSE next]
         p == [org |-> n, no |-> c.eseqno, ttl |-> Hops, rexmits |-> Rexmits, probe |-> FALSE]
     IN  Step(n, IF Len(c.queue) < QueueSize THEN SendQueued([u EXCEPT !.queue = Append(@, p)]) ELSE u)
  /\ UNCHANGED took

\* proactive_probing_callback: the neighbor is the parent while the probe is
\* sent.
Probe(n, m) ==
  /\ bounds.probes[n] < MaxProbes[n] /\ bounds.used < MaxUsed
  /\ LET c == node[n]
         dummy == [org |-> n, no |-> (c.eseqno - 1) % IdMod, ttl |-> 1, rexmits |-> Rexmits, probe |-> TRUE]
     IN  /\ c.metric \notin {0, RtmetricMax} /\ c.queue = <<>>
         /\ Known(c, m) /\ c.nbrs[m].rt + LinkUnit < c.metric /\ c.nbrs[m].le = "none"
         /\ Step(n, [SendQueued([c EXCEPT !.parent = m, !.queue = <<dummy>>]) EXCEPT !.parent = c.parent])
  /\ bounds' = [bounds EXCEPT !.probes[n] = @ + 1, !.used = @ + 1]
  /\ UNCHANGED took

\* The MAC layer sends the first frame once more; it arrives or not.
TryData(n) ==
  /\ node[n].mac # <<>> /\ Head(node[n].mac).type = "DATA"
  /\ Head(node[n].mac).tries < Head(node[n].mac).left
  /\ LET f == Head(node[n].mac)
         tried == [node EXCEPT ![n].mac[1].tries = @ + 1]
     IN  \/ node' = tried /\ UNCHANGED took
         \/ /\ node' = [tried EXCEPT ![f.to] = NodePacketReceived(tried[f.to], f, n)]
            /\ took' = IF Takes(node[f.to], f, n) THEN took \cup {<<f.to, f.packet.org, f.packet.no>>} ELSE took
  /\ UNCHANGED <<bounds, orphan, expired>>

\* Acknowledgements come once: what the MAC layer repeats has no effect, and
\* nobody waits for its report.
TryAck(n) ==
  /\ node[n].mac # <<>> /\ Head(node[n].mac).type = "ACK"
  /\ LET f == Head(node[n].mac)
         tried == [node EXCEPT ![n].mac = Tail(@)]
         after == NodePacketReceived(tried[f.to], f, n)
     IN  \/ node' = tried /\ UNCHANGED expired
         \/ f.to # n /\ node' = [tried EXCEPT ![f.to] = after] /\ Numbered(f.to, after)
  /\ UNCHANGED <<bounds, took, orphan>>

\* The MAC layer is done with a data frame, and reports it.
Report(n) ==
  /\ node[n].mac # <<>> /\ Head(node[n].mac).type = "DATA" /\ Head(node[n].mac).tries > 0
  /\ Step(n, NodePacketSent([node[n] EXCEPT !.mac = Tail(@)], Head(node[n].mac).tries))
  /\ UNCHANGED <<bounds, took>>

\* The MAC layer drops a frame without a report.
Silent(n) ==
  /\ node[n].mac # <<>> /\ bounds.faults < MaxFaults /\ bounds.used < MaxUsed
  /\ bounds' = [bounds EXCEPT !.faults = @ + 1, !.used = @ + 1]
  /\ node' = [node EXCEPT ![n].mac = Tail(@)]
  /\ UNCHANGED <<took, orphan, expired>>

\* The retransmission timer runs out: after a report, or long after the MAC
\* layer should have made one.
Timer(n) ==
  /\ LET c == node[n]
         f == [c EXCEPT !.timer = "off"]
     IN  \/ c.timer = "rexmit" /\ Step(n, RetransmitCallback(f))
         \/ /\ c.timer = "not sent" /\ \A i \in DOMAIN c.mac : c.mac[i].type # "DATA"
            /\ Step(n, RetransmitCallback([f EXCEPT !.tx = @ + MacTries + 1]))
  /\ UNCHANGED <<bounds, took>>

\* Contiki forgets a neighbor it has not heard of for long.
Gone(n, m) ==
  /\ Known(node[n], m) /\ bounds.faults < MaxFaults /\ bounds.used < MaxUsed
  /\ bounds' = [bounds EXCEPT !.faults = @ + 1, !.used = @ + 1]
  /\ node' = [node EXCEPT ![n].nbrs = [x \in DOMAIN @ \ {m} |-> @[x]]]
  /\ orphan' = IF node[n].parent = m THEN orphan \cup {n} ELSE orphan
  /\ UNCHANGED <<took, expired>>

\* The lifetime of a packet ends, and it leaves the queue.
Expire(n) ==
  /\ node[n].queue # <<>> /\ bounds.faults < MaxFaults /\ bounds.used < MaxUsed
  /\ bounds' = [bounds EXCEPT !.faults = @ + 1, !.used = @ + 1]
  /\ node' = [node EXCEPT ![n].queue = Tail(@)]
  /\ expired' = expired \cup {n}
  /\ UNCHANGED <<took, orphan>>

CollectNext ==
  \/ \E n \in Motes :
       \/ Send(n) \/ TryData(n) \/ TryAck(n) \/ Report(n) \/ Silent(n) \/ Timer(n) \/ Expire(n)
       \/ \E m \in Motes : Announce(m, n) \/ Probe(n, m) \/ Gone(n, m)

CollectSpec == CollectInit /\ [][CollectNext]_collectVars

----------------------------------------------------------------------------
(* Properties                                                              *)

\* The user of the sink gets no packet twice, however often it was sent and
\* over which neighbors: what has come before is among the recent packets.
DeliveredOnce ==
  \A n \in Motes : \A i \in DOMAIN node[n].mac :
    LET f == node[n].mac[i]
    IN  f.to = Sink /\ f.type = "DATA" /\ ~ f.packet.probe /\ <<Sink, f.packet.org, f.packet.no>> \in took =>
          Seen(node[Sink], f.packet)

\* An acknowledgement that takes a packet off the queue was sent for that
\* packet by a node that has taken it, or that had it first.  A node that lost a
\* packet to its lifetime is left out until its numbers go on.
AckedWasTaken ==
  \A m \in Motes : \A i \in DOMAIN node[m].mac :
    LET f == node[m].mac[i]
        c == node[f.to]
    IN  /\ f.type = "ACK" /\ "DROPPED" \notin f.flags /\ AckMatches(c, f, m)
        /\ c.queue # <<>> /\ ~ Head(c.queue).probe /\ f.to \notin expired
        => <<m, Head(c.queue).org, Head(c.queue).no>> \in took \/ Head(c.queue).org = m

\* A queue with packets moves: the MAC layer is to report on the first, or a
\* timer runs, or there is no route; except that nobody sends what waited when
\* the parent left the list and another neighbor has become the parent.
QueueMoves ==
  \A n \in Motes :
    LET c == node[n]
    IN  c.queue # <<>> =>
          IF c.sending THEN c.timer # "off" \/ \E i \in DOMAIN c.mac : c.mac[i].type = "DATA"
          ELSE ~ Known(c, c.parent) \/ n \in orphan
=============================================================================
