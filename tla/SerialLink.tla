----------------------------- MODULE SerialLink -----------------------------
(***************************************************************************)
(* The controller's way to the radio: the send loop of the controller PC   *)
(* (controller-server/sdn-serial-send.c), the serial line, and the sink    *)
(* mote that passes the frames on (applications/controller-node.c with the *)
(* send process of contiki-sdn/sdn-send.c).                                *)
(*                                                                         *)
(* The PC sends one frame and waits for the mote's ACK or NACK, which      *)
(* carries nothing that says what it answers.  The mote also sends beacons *)
(* of its own (neighbor and controller discovery) through the same queue.  *)
(* The line has no checksum and no retransmission: a frame whose boundary  *)
(* is damaged, or that finds the mote's event queue full, is gone.         *)
(***************************************************************************)
EXTENDS Integers, Sequences, FiniteSets

CONSTANTS
  PcMax,        \* SDN_SEND_QUEUE_SIZE of the PC
  MoteMax,      \* SDN_SEND_QUEUE_SIZE of the mote
  HeardMax,     \* SDN_RECV_QUEUE_SIZE of the mote
  MotePool,     \* SDN_PACKETBUF_POOL_SIZE of the mote
  MaxFailed,    \* bound: beacons of the mote the MAC layer fails to send
  MaxLost       \* bound: frames lost on the line

ASSUME SerialLinkAssumption ==
  /\ PcMax \in Nat \ {0} /\ MoteMax \in Nat \ {0} /\ HeardMax \in Nat
  /\ MotePool \in Nat /\ MaxFailed \in Nat /\ MaxLost \in Nat

VARIABLES
  pcQ,      \* the PC's send queue of [kind, id]
  waiting,  \* sdn_send_status of the PC is SDN_SEND_ACK_WAIT
  down,     \* frames on the line to the mote
  moteQ,    \* the mote's send queue of packet ids, Beacon for its own
  status,   \* sdn_send_status of the mote
  heard,    \* beacons of other nodes in the mote's receive queue
  free,     \* free buffers of the mote's pool
  up,       \* answers on the line to the PC, [ok, for]
  failed,   \* beacons the MAC layer failed to send so far
  lost      \* frames lost so far

pc   == <<pcQ, waiting>>
mote == <<moteQ, status, heard, free>>
vars == <<pc, down, mote, up, failed, lost>>

\* A packet for the radio, a message for the mote itself, and a packet the
\* PC turns out to have no next hop for (its own, or no route).
Kinds == {"RADIO", "CUSTOM", "LOCAL"}

Beacon == 0     \* no PC packet has this id

Init ==
  /\ pcQ = <<>> /\ waiting = FALSE
  /\ down = <<>> /\ up = <<>>
  /\ moteQ = <<>> /\ status = "IDLE" /\ heard = 0 /\ free = MotePool
  /\ failed = 0 /\ lost = 0

----------------------------------------------------------------------------
(* The controller PC                                                       *)

\* An id no packet and no answer carries.
FreshId ==
  LET used == {pcQ[i].id : i \in DOMAIN pcQ} \cup {down[i].id : i \in DOMAIN down}
              \cup {moteQ[i] : i \in DOMAIN moteQ} \cup {up[i].for : i \in DOMAIN up}
  IN  CHOOSE n \in 1 .. Cardinality(used) + 1 :
        n \notin used /\ \A m \in 1 .. n - 1 : m \in used

\* What sdn_send_down leaves in the queue: packets without a next hop are
\* treated and dropped until one can be sent.
ToSend(q) ==
  LET sendable == {i \in DOMAIN q : q[i].kind # "LOCAL"}
  IN  IF sendable = {} THEN <<>>
      ELSE LET first == CHOOSE i \in sendable : \A j \in sendable : i <= j
           IN  SubSeq(q, first, Len(q))

\* sdn_send_down in state SDN_SEND_IDLE, with q in the queue.
SendDown(q) ==
  /\ pcQ' = ToSend(q)
  /\ waiting' = (ToSend(q) # <<>>)
  /\ down' = IF ToSend(q) # <<>> THEN Append(down, Head(ToSend(q))) ELSE down

\* Mutant of CanSend: the next packet does not wait for the answer.
CanSendAlways == TRUE

CanSend == ~ waiting

\* ENQUEUE_AND_SEND on the PC; a full queue drops the packet.
PcQueue(kind) ==
  /\ LET q == IF Len(pcQ) < PcMax
              THEN Append(pcQ, [kind |-> kind, id |-> FreshId]) ELSE pcQ
     IN  IF CanSend THEN SendDown(q)
         ELSE pcQ' = q /\ UNCHANGED <<waiting, down>>
  /\ UNCHANGED <<mote, up, failed, lost>>

\* sdn_send_done: whatever answer comes takes the head off the queue.  An
\* empty queue hands out a slot of the past, whose packet is freed again;
\* the program is taken to survive that.
PcAnswer ==
  /\ up # <<>>
  /\ up' = Tail(up)
  /\ SendDown(IF pcQ = <<>> THEN <<>> ELSE Tail(pcQ))
  /\ UNCHANGED <<mote, failed, lost>>

----------------------------------------------------------------------------
(* The sink mote                                                           *)

Answer(ok, id) == up' = Append(up, [ok |-> ok, for |-> id])

\* sdn_send_queue_enqueue and sdn_send_down_once of a packet in a pool buffer
EnqueueDown(id) ==
  /\ moteQ' = Append(moteQ, id)
  /\ free' = free - 1
  /\ status' = IF status = "IDLE" THEN "BUSY" ELSE status

HasRoom == free > 0 /\ Len(moteQ) < MoteMax

\* Mutant of Refuse: the frame is dropped without an answer.
RefuseSilently(id) == UNCHANGED up

Refuse(id) == Answer(FALSE, id)

\* The core process handles a frame from the line: a message for the mote is
\* acknowledged at once, a radio packet when it has been sent, and refused
\* if there is no buffer or no place in the queue for it.
SerialIn ==
  /\ down # <<>>
  /\ down' = Tail(down)
  /\ LET frame == Head(down)
     IN  CASE frame.kind = "CUSTOM" -> Answer(TRUE, frame.id) /\ UNCHANGED mote
           [] frame.kind = "RADIO" /\ HasRoom ->
                EnqueueDown(frame.id) /\ UNCHANGED <<heard, up>>
           [] OTHER -> Refuse(frame.id) /\ UNCHANGED mote
  /\ UNCHANGED <<pc, failed, lost>>

\* sdn_send_nd, sdn_send_cd: a beacon of the mote's own, if it has room.
OwnBeacon ==
  /\ IF HasRoom THEN EnqueueDown(Beacon) /\ UNCHANGED heard ELSE UNCHANGED mote
  /\ UNCHANGED <<pc, down, up, failed, lost>>

\* sdn_receive: a neighbor's beacon; other packets go up the line at once.
BeaconHeard ==
  /\ free > 0 /\ heard < HeardMax
  /\ heard' = heard + 1 /\ free' = free - 1
  /\ UNCHANGED <<pc, down, moteQ, status, up, failed, lost>>

BeaconTreated ==
  /\ heard > 0
  /\ heard' = heard - 1 /\ free' = free + 1
  /\ UNCHANGED <<pc, down, moteQ, status, up, failed, lost>>

\* The send process hands the head of the queue to the MAC layer.
MoteSend ==
  /\ status = "BUSY"
  /\ status' = "ACK_WAIT"
  /\ UNCHANGED <<pc, down, moteQ, heard, free, up, failed, lost>>

\* Mutant of Answers: beacons are acknowledged.
AnswersAlways(ok, id) == TRUE

\* A packet that was sent is acknowledged unless it is a beacon; one that was
\* not is refused, a beacon too.
Answers(ok, id) == ~ ok \/ id # Beacon

\* sdn_packetbuf_pool_put
Put == free + 1

\* sdn_send_done on the mote.
MacDone(ok) ==
  /\ status = "ACK_WAIT"
  /\ IF Answers(ok, Head(moteQ)) THEN Answer(ok, Head(moteQ)) ELSE UNCHANGED up
  /\ moteQ' = Tail(moteQ)
  /\ free' = Put
  /\ status' = IF Tail(moteQ) # <<>> THEN "BUSY" ELSE "IDLE"
  /\ UNCHANGED <<pc, down, heard, lost>>

RadioDone ==
  \E ok \in BOOLEAN :
    /\ MacDone(ok)
    /\ IF Head(moteQ) = Beacon /\ ~ ok
       THEN failed < MaxFailed /\ failed' = failed + 1
       ELSE UNCHANGED failed

\* A frame is lost on the line.
Lose ==
  /\ lost < MaxLost
  /\ lost' = lost + 1
  /\ \/ down # <<>> /\ down' = Tail(down) /\ UNCHANGED up
     \/ up # <<>> /\ up' = Tail(up) /\ UNCHANGED down
  /\ UNCHANGED <<pc, mote, failed>>

Next ==
  \/ \E kind \in Kinds : PcQueue(kind)
  \/ PcAnswer
  \/ SerialIn
  \/ OwnBeacon
  \/ BeaconHeard
  \/ BeaconTreated
  \/ MoteSend
  \/ RadioDone
  \/ Lose

Spec == Init /\ [][Next]_vars

\* Each side reads its end of the line, and the mote's send process and its
\* MAC layer run.
Fairness ==
  /\ WF_vars(PcAnswer) /\ WF_vars(SerialIn)
  /\ WF_vars(MoteSend) /\ WF_vars(RadioDone)

FairSpec == Spec /\ Fairness

----------------------------------------------------------------------------
(* Properties                                                              *)

TypeOK ==
  /\ Len(pcQ) <= PcMax /\ waiting \in BOOLEAN
  /\ \A i \in DOMAIN pcQ : pcQ[i].kind \in Kinds /\ pcQ[i].id \in Nat \ {0}
  /\ Len(moteQ) <= MoteMax /\ status \in {"IDLE", "BUSY", "ACK_WAIT"}
  /\ heard \in 0 .. HeardMax /\ free \in 0 .. MotePool
  /\ failed \in 0 .. MaxFailed /\ lost \in 0 .. MaxLost

\* Where a packet of the PC can be between the PC and its answer.
Underway ==
  Len(down) + Cardinality({i \in DOMAIN moteQ : moteQ[i] # Beacon}) + Len(up)

\* The mote's buffers are free, queued or hold a heard beacon, whichever way
\* a packet was refused or sent.
MoteBuffers == free + Len(moteQ) + heard = MotePool

\* The PC has sent the head of its queue exactly when the queue is not empty,
\* although sdn_send_down_once does nothing while a packet is being treated
\* (send_flag) or an answer is awaited.
HeadIsSent ==
  /\ waiting <=> pcQ # <<>>
  /\ pcQ # <<>> => Head(pcQ).kind # "LOCAL"

\* As long as the mote's beacons get out, exactly one frame or answer is
\* underway, or was lost, when the PC waits, and none when it does not.
OneUnderway == failed = 0 => Underway + lost = IF waiting THEN 1 ELSE 0

\* The PC is never left waiting by either program, whatever the mote runs out
\* of: only a loss on the line can do that.
WaitsForSomething == waiting /\ lost = 0 => Underway > 0

\* The three together: one frame at a time, and always one when there are
\* packets to send.
StopAndWait == HeadIsSent /\ OneUnderway /\ WaitsForSomething

\* "status The status of the packet delivery." (sdn-serial-send.h, 102): as
\* long as the mote's own beacons get out, an answer that reaches the PC is
\* about the packet it takes off the queue.
AnswersMatch ==
  failed = 0 /\ up # <<>> /\ pcQ # <<>> => Head(up).for = Head(pcQ).id

\* The PC's queue does not stay full, unless the line loses a frame.
PcGoesOn == Len(pcQ) = PcMax ~> Len(pcQ) < PcMax \/ lost > 0
=============================================================================
