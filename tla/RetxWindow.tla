----------------------------- MODULE RetxWindow -----------------------------
(***************************************************************************)
(* The retransmission window driven by everything the node can do with it: *)
(* packets the MAC layer is done with, acknowledgements and flow setups    *)
(* from the controller, a newer neighbor report, and the slots' timers.    *)
(***************************************************************************)
EXTENDS SldWindow

CONSTANTS Keys,     \* flows and addresses requests can be about
          CtrlFlow, \* SDN_CONTROLLER_FLOW, the key of a neighbor report
          Seqs,     \* sequence numbers
          Vers      \* neighbor table contents a report can carry

ASSUME RetxWindowAssumption == CtrlFlow \in Keys

VARIABLE win

\* What a node can await: a report is about the controller's flow.
Packets ==
  [type : {"NEIGHBOR_REPORT"}, key : {CtrlFlow}, seq : Seqs,
   own : {TRUE}, ver : Vers]
  \cup [type : Reliable \ {"NEIGHBOR_REPORT"}, key : Keys, seq : Seqs,
        own : {TRUE}, ver : {0}]

Init == win = EmptyWindow

AckTypes == {"NEIGHBOR_REPORT", "REGISTER_FLOWID"}
RequestTypes == {"DATA_FLOW_REQUEST", "CONTROL_FLOW_REQUEST"}

\* Reports and registrations are answered by sequence number.  The number
\* is 8 bits wide and a slot is live for at most SDN_RETX_TIME_S seconds, so
\* a live slot never has the number of another packet: fewer than 256 own
\* packets are sent in the life of a slot.
Distinct(type, seq) ==
  type \in AckTypes =>
    \A i \in Slots : win.live[i] /\ win.pkt[i].type = type
                      => win.pkt[i].seq # seq

\* sdn_send_done.
Done(p) ==
  /\ Distinct(p.type, p.seq)
  /\ win' = AwaitAck(win, p)

\* An acknowledgement (SDN_PACKET_SRC_ROUTED_ACK or _ACK_BY_FLOW_ADDRESS).
Ack(type, seq) == win' = RcvAck(win, type, seq)

\* A data or control flow setup for this node.
Setup(type, key) == win' = RcvSetup(win, type, key)

\* sdn_send_neighbor_report drops the awaited report.
NewReport == win' = Purge(win, "NEIGHBOR_REPORT")

\* sld_f: with a pool buffer at hand the packet goes back to the send queue
\* under a new number and the slot is freed; without one the timer is set
\* again and the window stays as it is.
Timer(i, seq) ==
  /\ win.live[i]
  /\ Distinct(win.pkt[i].type, seq)
  /\ win' = TimerRequeued(win, i, seq)

Next ==
  \/ \E p \in Packets : Done(p)
  \/ \E type \in AckTypes, seq \in Seqs : Ack(type, seq)
  \/ \E type \in RequestTypes, key \in Keys : Setup(type, key)
  \/ NewReport
  \/ \E i \in Slots, seq \in Seqs : Timer(i, seq)

Spec == Init /\ [][Next]_win

----------------------------------------------------------------------------
(* Properties                                                              *)

TypeOK ==
  win \in [pkt   : [Slots -> Packets \cup {Blank}],
          live  : [Slots -> BOOLEAN],
          count : 0 .. MaxTxWindow]

\* The search for a free slot starts at sld_count and only goes up; it
\* misses no free slot because everything below sld_count is in use.
PrefixFull == \A i \in Slots : i < win.count => win.live[i]

\* No request is retransmitted from two slots ("retransmission generating
\* extra flow requests", CHANGELOG 0.4.1).
OnePerRequest ==
  \A i, j \in Slots :
    win.live[i] /\ win.live[j] /\ SameRequest(win.pkt[i], win.pkt[j]) => i = j

\* The searches by contents stop at the first match and do not look at the
\* slot's length: no slot below a live one, live or freed, may match what
\* the live one is searched by, or an answer would free the wrong slot.
NoShadow ==
  \A i, j \in Slots :
    i < j /\ win.live[j] =>
      /\ ~ SameRequest(win.pkt[i], win.pkt[j])
      /\ ~ (/\ win.pkt[j].type \in AckTypes
            /\ win.pkt[i].type = win.pkt[j].type
            /\ win.pkt[i].seq = win.pkt[j].seq)

\* The awaited packets as a set.
AwaitedPackets == {win.pkt[i] : i \in {j \in Slots : win.live[j]}}

\* What the window amounts to: the abstract set of pending requests.
Abstract == INSTANCE PendingRequests
              WITH pending <- AwaitedPackets, MaxPending <- MaxTxWindow

ImplementsPendingRequests == Abstract!Spec

\* A flow setup from the controller ends the retransmission of the request
\* it answers, and of nothing else (sld_rcv_flow_req, sld_rcv_addr_req).
AnswersItsRequest ==
  \A type \in RequestTypes, key \in Keys :
    Setup(type, key) =>
      \A i \in Slots :
        win'.live[i] <=> win.live[i] /\ ~ (win.pkt[i].type = type
                                           /\ win.pkt[i].key = key)

AnswerEndsRetransmission == [][AnswersItsRequest]_win
=============================================================================
