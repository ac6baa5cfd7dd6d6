------------------------------- MODULE SdnNode -------------------------------
(***************************************************************************)
(* A sensor node of the SDN: the packet buffer pool, the send queue and    *)
(* the process that empties it, the receive queue and the core process,    *)
(* the flow tables, the packets kept for want of a route, and the          *)
(* retransmission window.                                                  *)
(*                                                                         *)
(* Contiki processes and timers are cooperative: a handler runs to its end *)
(* before the next one starts, so each handler is one action.  The state   *)
(* a handler works on is the record node, and the functions it calls are   *)
(* operators from node states to node states, composed in the order of the *)
(* calls.                                                                  *)
(*                                                                         *)
(* Constants of the build that decide what is modelled: SDN_ENABLED_NODE,  *)
(* SDN_TX_RELIABILITY on, SDN_1HOP_RELIABILITY off, SDN_UNKNOWN_ROUTE_KEEP *)
(* and _ASK on.                                                            *)
(***************************************************************************)
EXTENDS SldWindow, Sequences, FiniteSets, Functions

CONSTANTS
  PoolSize,      \* SDN_PACKETBUF_POOL_SIZE
  SendMax,       \* SDN_SEND_QUEUE_SIZE
  RecvMax,       \* SDN_RECV_QUEUE_SIZE
  KeepMax,       \* SDN_UNKNOWN_ROUTE_KEEP_MAX
  TableSize,     \* SDN_FLOW_TABLES_SIZE, shared by both flow tables
  Flows,         \* flow identifiers
  Addrs,         \* node addresses
  CtrlFlow,      \* SDN_CONTROLLER_FLOW
  Self,          \* sdn_node_addr
  AppFlows,      \* flows this node's application sends and registers
  Inputs,        \* the packets neighbours can send to this node
  HasCd,         \* a controller discovery protocol runs (null_sdn_cd: FALSE)
  MaxReports,    \* bound: changes of the neighbor table
  MaxOnAir       \* bound: own packets the controller may still answer

ASSUME SdnNodeAssumption ==
  /\ PoolSize \in Nat \ {0} /\ SendMax \in Nat \ {0} /\ RecvMax \in Nat \ {0}
  /\ KeepMax \in Nat \ {0} /\ TableSize \in Nat \ {0}
  /\ CtrlFlow \in Flows /\ Self \in Addrs /\ Flows \cap Addrs = {}
  /\ AppFlows \subseteq Flows /\ HasCd \in BOOLEAN
  /\ MaxReports \in Nat /\ MaxOnAir \in Nat

VARIABLES
  node,      \* the node's own state, see Init
  nbrs,      \* the neighbor table, as the number of its last change
  handed,    \* what the MAC layer was given to send, <<>> when it is idle
  onAir      \* own reports and registrations that reached the controller,
             \* as sent, and whose acknowledgement may still arrive

vars == <<node, nbrs, handed, onAir>>

----------------------------------------------------------------------------
(* Packets.  The fields that matter to the node; packets routed by flow    *)
(* have five of them, the others also via, act and dest.                   *)

\* SDN_ROUTED_BY_FLOWID
ByFlow == {"CONTROL_FLOW_REQUEST", "DATA_FLOW_REQUEST", "NEIGHBOR_REPORT",
           "DATA", "ACK_BY_FLOW_ID", "REGISTER_FLOWID"}

IsSetup(p) == p.type \in {"DATA_FLOW_SETUP", "CONTROL_FLOW_SETUP"}

Actions == {"FORWARD", "RECEIVE", "DROP"}

\* A packet has the fields that its way of routing needs, and a setup says
\* one of the actions.
IsPacket(p) ==
  /\ {"type", "key", "seq", "own", "ver"} \subseteq DOMAIN p
  /\ p.type \notin ByFlow => {"via", "act", "dest"} \subseteq DOMAIN p
  /\ IsSetup(p) => p.act \in Actions

\* Packets of this node do not come back to it; what a packet is about is a
\* flow or a node; the acknowledgements for this node are ReceiveAck's.
ASSUME InputsAssumption ==
  \A p \in Inputs :
    /\ IsPacket(p) /\ ~ p.own
    /\ p.key \in Flows \cup Addrs
    /\ p.type \notin ByFlow => p.dest \in Addrs
    /\ p.type = "SRC_ROUTED_ACK" => p.via # "END"

Own(type, key, seq, ver) ==
  [type |-> type, key |-> key, seq |-> seq, own |-> TRUE, ver |-> ver]

Report(seq, ver) == Own("NEIGHBOR_REPORT", CtrlFlow, seq, ver)

\* Packets from and for the controller are routed by the controller's flow.
RouteKey(p) ==
  IF p.type = "DATA" THEN p.key
  ELSE IF p.type \in ByFlow THEN CtrlFlow
  ELSE p.dest

\* How the packet finds its next hop.  A source-routed packet is at the end
\* of its path here ("END"), passes through ("PASS"), ran out of path before
\* its destination ("SHORT") or leaves for the next hop ("NEXT"); a setup
\* that ran out of path goes on by address ("ADDR").
Via(p) == IF p.type \in ByFlow THEN "FLOW" ELSE p.via

\* Only reports and registrations are matched by sequence number.
BySeq(p) == p.own /\ p.type \in {"NEIGHBOR_REPORT", "REGISTER_FLOWID"}

Kept(s) == {p \in Range(s.keep) : p # <<>>}

Live(s) == {s.win.pkt[i] : i \in {j \in Slots : s.win.live[j]}}

\* sdn_seq_no++ gives the next of 256 numbers; here the first number that no
\* packet and no acknowledgement still carries.
FreshSeq ==
  LET carried == Range(node.sendQ) \cup Range(node.recvQ) \cup Kept(node)
                 \cup Live(node) \cup onAir
  IN  First((1 .. Cardinality(carried) + 1) \ {p.seq : p \in carried})

----------------------------------------------------------------------------
(* The send queue (sdn-send.c, sdn-queue.c, sdn-common-send.h)             *)

\* sdn_send_down_once
DownOnce(s) ==
  IF s.status = "IDLE" /\ s.sendQ # <<>> THEN [s EXCEPT !.status = "BUSY"]
  ELSE s

\* Mutant of EnqueueAndSend: a full queue keeps the buffer.
EnqueueAndLeak(s, p) ==
  IF Len(s.sendQ) < SendMax
  THEN DownOnce([s EXCEPT !.sendQ = Append(@, p)]) ELSE s

\* ENQUEUE_AND_SEND of a packet in a pool buffer: a full queue gives the
\* buffer back.
EnqueueAndSend(s, p) ==
  IF Len(s.sendQ) < SendMax
  THEN DownOnce([s EXCEPT !.sendQ = Append(@, p)])
  ELSE [s EXCEPT !.pool = @ + 1]

\* sdn_packetbuf_pool_get followed by ENQUEUE_AND_SEND, and ALLOC_AND_ENQUEUE.
GetAndEnqueue(s, p) ==
  IF s.pool = 0 THEN s ELSE EnqueueAndSend([s EXCEPT !.pool = @ - 1], p)

\* Mutant of DequeueHead: the send process is not posted to again.
DequeueOnly(s) ==
  [s EXCEPT !.sendQ = Tail(@), !.pool = @ + 1, !.status = "IDLE"]

\* The head leaves the queue, its buffer goes back and the next packet, if
\* any, is announced to the send process.
DequeueHead(s) ==
  DownOnce([s EXCEPT !.sendQ = Tail(@), !.pool = @ + 1, !.status = "IDLE"])

\* Mutant of QueuedReports: a queued report is not looked for.
NoQueuedReports(s) == {}

\* sdn_send_queue_find_by_type, own packets only.
QueuedReports(s) ==
  {i \in DOMAIN s.sendQ :
     s.sendQ[i].type = "NEIGHBOR_REPORT" /\ s.sendQ[i].own}

\* Mutant of Rewritten: a rewritten report gets a new number.
Renumbered(p, seq, ver) == [p EXCEPT !.ver = ver, !.seq = seq]

Rewritten(p, seq, ver) == [p EXCEPT !.ver = ver]

\* sdn_send_neighbor_report: a queued report is rewritten in place, under
\* its sequence number; otherwise a new one is queued.
SendNeighborReport(s, seq, ver) ==
  LET purged == [s EXCEPT !.win = Purge(@, "NEIGHBOR_REPORT")]
  IN  IF QueuedReports(s) # {}
      THEN [purged EXCEPT !.sendQ[First(QueuedReports(s))] =
                                         Rewritten(@, seq, ver)]
      ELSE IF s.pool = 0 THEN s
      ELSE GetAndEnqueue(purged, Report(seq, ver))

\* sdn_send_data_flow_request, sdn_send_control_flow_request
SendFlowRequest(s, key) ==
  LET type == IF key \in Flows THEN "DATA_FLOW_REQUEST"
                               ELSE "CONTROL_FLOW_REQUEST"
  IN  IF HasRetransmission(s.win, type, key) THEN s
      ELSE GetAndEnqueue(s, Own(type, key, 0, 0))

----------------------------------------------------------------------------
(* Packets without a route (sdn-unknown-route.c)                           *)

\* store_packet: into the first free place, if the pool has a buffer.
StorePacket(s, p) ==
  LET free == {i \in DOMAIN s.keep : s.keep[i] = <<>>}
  IN  IF free = {} \/ s.pool = 0 THEN s
      ELSE [s EXCEPT !.keep[First(free)] = p, !.pool = @ - 1]

\* sdn_unknown_flow, sdn_unknown_dest
UnknownRoute(s, p) ==
  LET kept == StorePacket(s, p)
  IN  IF s.phase = "AWAITING" THEN kept ELSE SendFlowRequest(kept, RouteKey(p))

\* sdn_solve_unknown_flow, sdn_solve_unknown_dest: the kept packets for key
\* move to the send queue in the order they are kept; those that find it
\* full give their buffer back.
SolveUnknown(s, key) ==
  LET hits   == {i \in DOMAIN s.keep : s.keep[i] # <<>> /\ RouteKey(s.keep[i]) = key}
      Hit(n) == CHOOSE i \in hits : Cardinality({j \in hits : j <= i}) = n
      found  == Cardinality(hits)
      room   == SendMax - Len(s.sendQ)
      moved  == IF found <= room THEN found ELSE room
  IN  DownOnce(
        [s EXCEPT
           !.sendQ = @ \o [n \in 1 .. moved |-> s.keep[Hit(n)]],
           !.pool  = @ + (found - moved),
           !.keep  = [i \in DOMAIN @ |-> IF i \in hits THEN <<>> ELSE @[i]]])

----------------------------------------------------------------------------
(* The flow tables (data-flow-table.c, control-flow-table.c): both take    *)
(* their entries from one pool and never remove them.                      *)

HasRoom(s, key) ==
  key \in DOMAIN s.table \/ Cardinality(DOMAIN s.table) < TableSize

\* Mutant of Insert: the packets kept for the entry stay where they are.
InsertOnly(s, key, act) ==
  [s EXCEPT !.table = [k \in DOMAIN @ \cup {key} |->
                         IF k = key THEN act ELSE @[k]]]

\* sdn_dataflow_insert, sdn_controlflow_insert; act is the stored action.
Insert(s, key, act) ==
  IF ~ HasRoom(s, key) THEN s
  ELSE SolveUnknown(
         [s EXCEPT !.table = [k \in DOMAIN @ \cup {key} |->
                                IF k = key THEN act ELSE @[k]]], key)

----------------------------------------------------------------------------
(* What is done with a packet for this node (sdn-process-packets.c)        *)

\* Mutants of EndsWait: any setup will do; every setup is followed by a report.
AnyEndsWait(s, p) == s.phase = "AWAITING"
AlwaysReports(s, p) == TRUE

EndsWait(s, p) == s.phase = "AWAITING" /\ p.key = CtrlFlow

\* treat_data_flow_setup: the request is answered and the acknowledgement
\* queued before the entry is made.  The first setup of the controller's
\* flow ends the wait for the controller.
TreatDataFlowSetup(s, p, seq) ==
  LET acked == GetAndEnqueue(
                 [s EXCEPT !.win = RcvSetup(@, "DATA_FLOW_REQUEST", p.key)],
                 Own("ACK_BY_FLOW_ID", p.key, 0, 0))
      done  == Insert(acked, p.key, p.act)
  IN  IF EndsWait(s, p)
      THEN SendNeighborReport([done EXCEPT !.phase = "STEADY"], seq, nbrs)
      ELSE done

\* treat_control_flow_setup
TreatControlFlowSetup(s, p) ==
  LET done == Insert(s, p.key, p.act)
  IN  GetAndEnqueue(
        [done EXCEPT !.win = RcvSetup(@, "CONTROL_FLOW_REQUEST", p.key)],
        Own("ACK_BY_FLOW_ID", p.key, 0, 0))

TreatFlowSetup(s, p, seq) ==
  IF p.type = "DATA_FLOW_SETUP" THEN TreatDataFlowSetup(s, p, seq)
                                ELSE TreatControlFlowSetup(s, p)

\* sdn_execute_action_receive.  Data goes to the application; the remaining
\* types are "not expected" at a node.
ExecuteReceive(s, p, seq) ==
  CASE IsSetup(p) /\ Via(p) \in {"END", "ADDR"} -> TreatFlowSetup(s, p, seq)
    [] IsSetup(p) /\ Via(p) = "SHORT" ->
         GetAndEnqueue(s, [p EXCEPT !.via = "ADDR"])
    [] Via(p) = "PASS" -> GetAndEnqueue(s, [p EXCEPT !.via = "NEXT"])
    [] p.type = "SRC_ROUTED_ACK" /\ Via(p) = "END" ->
         [s EXCEPT !.win = RcvAck(@, p.act, p.seq)]
    [] OTHER -> s

\* sdn_treat_packet, sdn_treat_packet_receiv: the action for a packet, and
\* the node after the packet was executed or found to have no route.
Action(s, p) ==
  CASE Via(p) = "NEXT" -> "FORWARD"
    [] Via(p) \in {"END", "PASS", "SHORT"} -> "RECEIVE"
    [] OTHER -> IF RouteKey(p) \in DOMAIN s.table THEN s.table[RouteKey(p)]
                ELSE "UNKNOWN"

Treat(s, p, seq) ==
  CASE Action(s, p) = "RECEIVE" -> ExecuteReceive(s, p, seq)
    [] Action(s, p) = "UNKNOWN" -> UnknownRoute(s, p)
    [] OTHER -> s

----------------------------------------------------------------------------
(* The handlers                                                            *)

\* sdn_init
Init ==
  /\ node = [status |-> "IDLE",  sendQ |-> <<>>, recvQ |-> <<>>,
             event  |-> FALSE,   keep  |-> [i \in 1 .. KeepMax |-> <<>>],
             pool   |-> PoolSize, win  |-> EmptyWindow,
             table  |-> [k \in {Self} |-> "RECEIVE"],
             phase  |-> "AWAITING", owed |-> FALSE]
  /\ nbrs = 0
  /\ handed = <<>>
  /\ onAir = {}

\* sdn_send: the application sends on one of its flows.
AppSend(f) ==
  /\ node' = GetAndEnqueue(node, Own("DATA", f, 0, 0))
  /\ UNCHANGED <<nbrs, handed, onAir>>

\* sdn_register_flowid: the node is a destination of the flow.
RegisterFlow(f) ==
  /\ node' = LET entered == Insert(node, f, "RECEIVE")
             IN  IF HasRoom(node, f)
                 THEN GetAndEnqueue(entered, Own("REGISTER_FLOWID", f, FreshSeq, 0))
                 ELSE node
  /\ UNCHANGED <<nbrs, handed, onAir>>

\* nd_event: the neighbor table changed.
NdEvent ==
  /\ nbrs < MaxReports
  /\ nbrs' = nbrs + 1
  /\ node' = IF node.phase = "STEADY"
             THEN SendNeighborReport(node, FreshSeq, nbrs')
             ELSE [node EXCEPT !.owed = TRUE]
  /\ UNCHANGED <<handed, onAir>>

\* cd_event: controller discovery has a next hop to the controller.
CdEvent ==
  /\ HasCd
  /\ node' = LET found == Insert([node EXCEPT !.phase = "STEADY"],
                                 CtrlFlow, "FORWARD")
             IN  IF node.owed
                 THEN SendNeighborReport([found EXCEPT !.owed = FALSE],
                                         FreshSeq, nbrs)
                 ELSE found
  /\ UNCHANGED <<nbrs, handed, onAir>>

\* sdn_receive: a packet that is no duplicate and whose THL is left comes in.
Receive(p) ==
  /\ node' = IF node.pool = 0 \/ Len(node.recvQ) = RecvMax THEN node
             ELSE [node EXCEPT !.pool  = @ - 1,
                               !.recvQ = Append(@, p),
                               !.event = @ \/ node.recvQ = <<>>]
  /\ UNCHANGED <<nbrs, handed>>

ReceiveInput == \E p \in Inputs : Receive(p) /\ UNCHANGED onAir

\* The controller's acknowledgement of a report or registration.
AckFor(p) == [type |-> "SRC_ROUTED_ACK", key |-> p.key, seq |-> p.seq,
              own |-> FALSE, ver |-> p.ver, via |-> "END", act |-> p.type,
              dest |-> Self]

ReceiveAck == \E p \in onAir : Receive(AckFor(p)) /\ onAir' = onAir \ {p}

\* The core process handles one SDN_EVENT_NEW_PACKET.  The received buffer
\* is held until the packet is treated; a packet to forward is copied.
CoreStep ==
  /\ node.event
  /\ LET p      == Head(node.recvQ)
         popped == [node EXCEPT !.recvQ = Tail(@)]
         done   == IF Action(popped, p) = "FORWARD" THEN GetAndEnqueue(popped, p)
                   ELSE Treat(popped, p, FreshSeq)
     IN  node' = [done EXCEPT !.pool = @ + 1, !.event = done.recvQ # <<>>]
  /\ UNCHANGED <<nbrs, handed, onAir>>

\* The send process handles SDN_EVENT_NEW_PACKET: the head of the queue is
\* handed to the MAC layer, or treated here and dropped from the queue.  The
\* frame may reach the controller before or after the MAC layer is done
\* with the first hop, or never.
SendStep ==
  /\ node.status = "BUSY"
  /\ LET p == Head(node.sendQ)
     IN  IF Action(node, p) = "FORWARD"
         THEN /\ node' = [node EXCEPT !.status = "ACK_WAIT"]
              /\ handed' = p
              /\ \/ UNCHANGED onAir
                 \/ /\ BySeq(p) /\ Cardinality(onAir) < MaxOnAir
                    /\ onAir' = onAir \cup {p}
         ELSE /\ node' = DequeueHead(Treat(node, p, FreshSeq))
              /\ UNCHANGED <<handed, onAir>>
  /\ UNCHANGED nbrs

\* The controller's answer gets lost.
Lose ==
  /\ \E p \in onAir : onAir' = onAir \ {p}
  /\ UNCHANGED <<node, nbrs, handed>>

\* sdn_send_done, with MAC_TX_OK or without: either way the packet is
\* awaited from here on.
MacDone ==
  /\ node.status = "ACK_WAIT"
  /\ node' = DequeueHead([node EXCEPT !.win = AwaitAck(@, Head(node.sendQ))])
  /\ handed' = <<>>
  /\ UNCHANGED <<nbrs, onAir>>

\* sld_f: the timer of slot i.  The slot is freed when a pool buffer could
\* be had, whether or not the send queue then took the packet.
Timer(i) ==
  /\ node.win.live[i]
  /\ node.pool > 0
  /\ LET p   == node.win.pkt[i]
         seq == IF BySeq(p) THEN FreshSeq ELSE 0
     IN  node' = [GetAndEnqueue(node, [p EXCEPT !.seq = seq])
                    EXCEPT !.win = TimerRequeued(@, i, seq)]
  /\ UNCHANGED <<nbrs, handed, onAir>>

Next ==
  \/ \E f \in AppFlows : AppSend(f) \/ RegisterFlow(f)
  \/ NdEvent
  \/ CdEvent
  \/ ReceiveInput
  \/ ReceiveAck
  \/ CoreStep
  \/ SendStep
  \/ Lose
  \/ MacDone
  \/ \E i \in Slots : Timer(i)

Spec == Init /\ [][Next]_vars
\* The two processes run when they are posted to, and the MAC layer reports
\* on every frame it is given.
FairSpec == Spec /\ WF_vars(CoreStep) /\ WF_vars(SendStep) /\ WF_vars(MacDone)

----------------------------------------------------------------------------
(* Properties                                                              *)

TypeOK ==
  /\ node.status \in {"IDLE", "BUSY", "ACK_WAIT"}
  /\ Len(node.sendQ) <= SendMax /\ Len(node.recvQ) <= RecvMax
  /\ node.event \in BOOLEAN /\ node.owed \in BOOLEAN
  /\ DOMAIN node.keep = 1 .. KeepMax
  /\ node.pool \in 0 .. PoolSize
  /\ DOMAIN node.table \subseteq Flows \cup Addrs
  /\ Range(node.table) \subseteq Actions
  /\ Cardinality(DOMAIN node.table) <= TableSize
  /\ node.phase \in {"AWAITING", "STEADY"}
  /\ nbrs \in 0 .. MaxReports /\ Cardinality(onAir) <= MaxOnAir

\* Between handlers every pool buffer is free, queued to send, queued as
\* received or kept for want of a route: none leaks on any of the error
\* paths, none is in two places.
BufferConservation ==
  node.pool + Len(node.sendQ) + Len(node.recvQ)
    + Cardinality({i \in DOMAIN node.keep : node.keep[i] # <<>>}) = PoolSize

\* The wake-ups of the two processes: the send process has an event
\* (BUSY) or a frame at the MAC layer exactly when its queue is not empty,
\* the core process has an event exactly when its queue is not empty.
WakeUps ==
  /\ node.status = "IDLE" <=> node.sendQ = <<>>
  /\ node.event <=> node.recvQ # <<>>

\* sdn_send_done takes the packet it reports on from the head of the send
\* queue: no handler that runs while the frame is at the MAC layer may put
\* another packet there.
HeadIsHandedOver ==
  /\ node.status = "ACK_WAIT" <=> handed # <<>>
  /\ handed # <<>> =>
       LET p == Head(node.sendQ)
       IN  SameRequest(p, handed) /\ p.seq = handed.seq /\ p.own = handed.own

\* A packet is kept only while its route is unknown: an entry made by any
\* handler sends the packets that wait for it on their way.
KeptHaveNoRoute == \A p \in Kept(node) : RouteKey(p) \notin DOMAIN node.table

\* The node leaves the wait for the controller only with a route to it, or
\* with a flow table that has no room for one.
SteadyHasRoute ==
  node.phase = "STEADY" /\ CtrlFlow \notin DOMAIN node.table
    => Cardinality(DOMAIN node.table) = TableSize

\* A node reports its neighbor table with one packet: of all the handlers
\* that queue, rewrite, re-queue and await reports, none leaves two of them
\* queued or awaited.
OneReport ==
  Cardinality({i \in DOMAIN node.sendQ : /\ node.sendQ[i].type = "NEIGHBOR_REPORT"
                                         /\ node.sendQ[i].own})
    + Cardinality({i \in Slots : /\ node.win.live[i]
                                 /\ node.win.pkt[i].type = "NEIGHBOR_REPORT"})
    <= 1

\* No more packets than these carry a number at a time.
Numbers == 0 .. PoolSize + MaxTxWindow + MaxOnAir + 1

Window == INSTANCE RetxWindow
            WITH win <- node.win, Keys <- Flows \cup Addrs,
                 Seqs <- Numbers, Vers <- 0 .. MaxReports

\* The retransmission window does nothing but what RetxWindow does: this is
\* Window!Spec, with the steps that leave the window alone told apart first.
ImplementsWindow ==
  Window!Init /\ [][node'.win # node.win => Window!Next]_vars

\* A node that has a route to the controller, or waits for one, empties its
\* queues: no packet is left behind without a wake-up, none goes round in the
\* node for ever.  (Without a route a flow request asks for its own route.)
Lost == node.phase = "STEADY" /\ CtrlFlow \notin DOMAIN node.table

QueuesDrain ==
  /\ \A n \in 1 .. SendMax : Len(node.sendQ) = n ~> Len(node.sendQ) # n \/ Lost
  /\ \A n \in 1 .. RecvMax : Len(node.recvQ) = n ~> Len(node.recvQ) # n

\* "packet is out in the network, lets wait an ACK from the destination"
\* (sdn-send.c, 291): an acknowledgement ends the retransmission of the
\* report the controller received, not of one with other contents.
AckedAsSent ==
  [][CoreStep => \A i \in Slots :
       /\ node.win.live[i] /\ ~ node'.win.live[i]
       /\ Head(node.recvQ).type = "SRC_ROUTED_ACK"
       => node.win.pkt[i].ver = Head(node.recvQ).ver]_vars
=============================================================================
