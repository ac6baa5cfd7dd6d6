--------------------------- MODULE SerialFraming ---------------------------
(***************************************************************************)
(* The octets of the serial line between the controller PC and its mote:   *)
(* frames between boundaries, with the two special octets escaped, sent by *)
(* frameDecode on either side, taken in octet by octet by byteReceived of  *)
(* the mote (contiki-sdn/sdn-serial.c, in the receive interrupt) and by    *)
(* processByte of the PC (controller-pc/serializer.cpp), and what the      *)
(* mote's processes do with the frames.  SerialLink takes frames as wholes *)
(* that arrive or not.                                                     *)
(*                                                                         *)
(* One direction at a time.  On the mote the interrupt fills one of two    *)
(* buffers, and Contiki's events carry pointers to them.  The PC sends a   *)
(* packet when the last was answered (SerialLink), and asks for the mote's *)
(* address, once a second until it knows it, or when a button is pressed.  *)
(* The mote sends as it likes, and what it prints goes over the line       *)
(* between the frames.  Octets can be lost.                                *)
(***************************************************************************)
EXTENDS Integers, Sequences, FiniteSets, SequencesExt

CONSTANTS
  Contents,      \* contents of frames, header included
  Texts,         \* what the mote prints
  HeaderLen,     \* sizeof(sdn_serial_packet_header_t)
  MaxLen,        \* sizeof(sdn_serial_packet_t)
  MaxFrames,     \* bound: frames sent
  MaxAsked,      \* bound: requests for the address before the mote catches up
  MaxPrinted,    \* bound: texts printed
  MaxHits        \* bound: octets lost

\* FRAME_BOUNDARY_OCTET and CONTROL_ESCAPE_OCTET, what they are with bit 5
\* inverted, and one other octet.
Boundary == "7E"
Escape == "7D"
Octets == {Boundary, Escape, "5E", "5D", "01", "21"}

\* A text ends with the end of a line.
ASSUME FramingAssumption ==
  /\ HeaderLen \in Nat \ {0} /\ MaxLen \in Nat /\ MaxAsked \in Nat
  /\ \A c \in Contents : c \in Seq(Octets) /\ HeaderLen <= Len(c) /\ Len(c) <= MaxLen
  /\ \A t \in Texts : t \in Seq(Octets) /\ (t # <<>> => t[Len(t)] # Escape)

VARIABLES
  side,       \* where the line ends: "mote" or "PC"
  sent,       \* frames sent, [kind, content]
  line,       \* octets on the line, each with the number of its frame, 0 for text
  rx,         \* escape_character, overflow and frame_length of the receiver
  buf,        \* p1 and p2 of the mote; packetData of the PC is buf[1]
  cur,        \* currentSerialPacket
  events,     \* Contiki's events: of serial_sembei_process and of the core
  waits,      \* serial_sembei_process waits for PROCESS_EVENT_CONTINUE
  pending,    \* the PC waits for the answer to a packet
  asked,      \* requests sent since the mote had nothing to do
  printed,    \* texts printed
  \* History: what the properties refer to.
  hits,       \* of each frame, octets lost
  found,      \* frames the receiver found just as they were sent
  forgotten   \* frames a process of the mote was told of and did not read

receiver == <<rx, buf, cur>>
processes == <<waits, pending, forgotten>>
framingVars == <<side, sent, line, receiver, events, processes, asked, printed, hits, found>>

Reset == [esc |-> FALSE, overflow |-> FALSE, len |-> 0]
Blank == [o |-> "00", of |-> 0]

FramingInit ==
  /\ side \in {"mote", "PC"}
  /\ sent = <<>> /\ line = <<>> /\ hits = <<>>
  /\ rx = Reset /\ buf = [b \in {1, 2} |-> [i \in 1 .. MaxLen |-> Blank]] /\ cur = 1
  /\ events = <<>> /\ waits = FALSE /\ pending = FALSE
  /\ asked = 0 /\ printed = 0 /\ found = {} /\ forgotten = {}

----------------------------------------------------------------------------
(* Sending                                                                 *)

\* Bit 5 inverted.
Inverted(o) ==
  CASE o = "7E" -> "5E" [] o = "5E" -> "7E" [] o = "7D" -> "5D" [] o = "5D" -> "7D"
    [] o = "01" -> "21" [] o = "21" -> "01"

Stuffed(o) == IF o \in {Boundary, Escape} THEN <<Escape, Inverted(o)>> ELSE <<o>>

Framed(content) ==
  <<Boundary>> \o FlattenSeq([i \in DOMAIN content |-> Stuffed(content[i])]) \o <<Boundary>>

OfFrame(k, octets) == [i \in DOMAIN octets |-> [o |-> octets[i], of |-> k]]

Transmit(kind) ==
  /\ Len(sent) < MaxFrames
  /\ \E content \in Contents :
       /\ sent' = Append(sent, [kind |-> kind, content |-> content])
       /\ line' = line \o OfFrame(Len(sent) + 1, Framed(content))
  /\ hits' = Append(hits, 0)
  /\ UNCHANGED <<side, receiver, events, waits, forgotten, printed, found>>

\* sendGenericPacket, when sdn_send_down may send.
SendPacket ==
  /\ side = "mote" /\ ~ pending
  /\ Transmit("packet")
  /\ pending' = TRUE /\ UNCHANGED asked

\* requestNodeId
RequestNodeId ==
  /\ side = "mote" /\ asked < MaxAsked
  /\ Transmit("request")
  /\ asked' = asked + 1 /\ UNCHANGED pending

\* sdn_serial_send of the mote
SendFromMote ==
  /\ side = "PC"
  /\ Transmit("packet")
  /\ UNCHANGED <<pending, asked>>

\* printf of the mote, by SDN_DEBUG and the applications
PrintText ==
  /\ side = "PC" /\ printed < MaxPrinted
  /\ \E text \in Texts : line' = line \o OfFrame(0, text)
  /\ printed' = printed + 1
  /\ UNCHANGED <<side, sent, receiver, events, processes, asked, hits, found>>

----------------------------------------------------------------------------
(* Receiving: byteReceived and processByte                                 *)

\* On the mote what goes past the end of the buffer, two octets at most, is
\* written to the other buffer or to something else.
Write(octet) ==
  LET i == rx.len + 1
  IN  IF i <= MaxLen THEN buf' = [buf EXCEPT ![cur][i] = octet]
      ELSE \/ UNCHANGED buf
           \/ buf' = [buf EXCEPT ![3 - cur][i - MaxLen] = octet]

StoreOnMote(octet) ==
  IF rx.len < MaxLen + 2
  THEN Write(octet) /\ rx' = [rx EXCEPT !.esc = FALSE, !.len = @ + 1]
  ELSE UNCHANGED buf /\ rx' = [rx EXCEPT !.esc = FALSE, !.overflow = TRUE]

\* The PC never sets its overflow flag, and takes octets that find no room for
\* read.
StoreOnPC(octet) ==
  IF rx.len < MaxLen
  THEN Write(octet) /\ rx' = [rx EXCEPT !.esc = FALSE, !.len = @ + 1]
  ELSE UNCHANGED buf /\ rx' = [rx EXCEPT !.esc = FALSE]

Store(octet) ==
  /\ IF side = "mote" THEN StoreOnMote(octet) ELSE StoreOnPC(octet)
  /\ UNCHANGED <<cur, events, found>>

\* What the receiver has between two boundaries.
Received == SubSeq(buf[cur], 1, IF rx.len < MaxLen THEN rx.len ELSE MaxLen)

\* The frame this is, just as it was sent, or 0.
FrameOf(content) ==
  IF \E k \in DOMAIN sent : content = OfFrame(k, sent[k].content) THEN Head(content).of ELSE 0

\* Mutant of NextBuffer, updateSerialPacketBuffer: the same one again.
SameBuffer == cur

NextBuffer == 3 - cur

\* The mote posts an event to serial_sembei_process; the PC decodes the packet.
FrameEnds ==
  /\ rx' = Reset /\ UNCHANGED buf
  /\ found' = found \cup {FrameOf(Received)}
  /\ IF side = "mote"
     THEN /\ events' = Append(events, [to |-> "sembei", buf |-> cur, content |-> Received])
          /\ cur' = NextBuffer
     ELSE UNCHANGED <<cur, events>>

\* Mutant of Resync: what came before the boundary is kept.
ResyncNot == UNCHANGED <<receiver, events, found>>

Resync == rx' = Reset /\ UNCHANGED <<buf, cur, events, found>>

\* A boundary: after an escape octet the mote forgets both, and the PC takes
\* the boundary for data; after an overflow, or less than a header, the next
\* frame begins.
TakeBoundary(octet) ==
  \/ rx.esc /\ side = "PC" /\ Store(octet)
  \/ rx.esc /\ side = "mote" /\ rx' = [rx EXCEPT !.esc = FALSE]
     /\ UNCHANGED <<buf, cur, events, found>>
  \/ ~ rx.esc /\ rx.overflow /\ Resync
  \/ ~ rx.esc /\ ~ rx.overflow /\ rx.len < HeaderLen /\ Resync
  \/ ~ rx.esc /\ ~ rx.overflow /\ rx.len >= HeaderLen /\ FrameEnds

TakeData(octet) ==
  \/ rx.esc /\ Store([octet EXCEPT !.o = Inverted(octet.o)])
  \/ ~ rx.esc /\ octet.o = Escape
     /\ rx' = [rx EXCEPT !.esc = TRUE] /\ UNCHANGED <<buf, cur, events, found>>
  \/ ~ rx.esc /\ octet.o # Escape /\ Store(octet)

ReceiveOctet ==
  /\ line # <<>>
  /\ line' = Tail(line)
  /\ IF Head(line).o = Boundary THEN TakeBoundary(Head(line)) ELSE TakeData(Head(line))
  /\ UNCHANGED <<side, sent, processes, asked, printed, hits>>

LoseOctet ==
  /\ line # <<>> /\ Head(line).of # 0
  /\ FoldLeft(+, 0, hits) < MaxHits
  /\ line' = Tail(line)
  /\ hits' = [hits EXCEPT ![Head(line).of] = @ + 1]
  /\ UNCHANGED <<side, sent, receiver, events, processes, asked, printed, found>>

----------------------------------------------------------------------------
(* The mote's processes: an event is over when its handler returns         *)

\* A process has handled the first event, and posted these.
Handled(posted) ==
  /\ events' = Tail(events) \o posted
  /\ asked' = IF events' = <<>> /\ line = <<>> THEN 0 ELSE asked
  /\ UNCHANGED <<side, sent, line, receiver, printed, hits, found>>

\* What decodeSerialPacket makes of a frame; of a damaged one, either.
MayBe(kind, content) ==
  LET k == FrameOf(content) IN k # 0 => sent[k].kind = kind

First(to) == events # <<>> /\ Head(events).to = to

\* serial_sembei_process answers a request at once.
AnswerRequest ==
  /\ First("sembei") /\ ~ waits
  /\ MayBe("request", Head(events).content)
  /\ Handled(<<>>)
  /\ UNCHANGED processes

\* It hands a packet to sdn_core_process, and waits until that must have
\* happened.
PassPacket ==
  /\ First("sembei") /\ ~ waits
  /\ MayBe("packet", Head(events).content)
  /\ Handled(<<[Head(events) EXCEPT !.to = "core"],
               [to |-> "continue", buf |-> 0, content |-> <<>>]>>)
  /\ waits' = TRUE /\ UNCHANGED <<pending, forgotten>>

\* Another frame while it waits is no PROCESS_EVENT_CONTINUE.
ForgetFrame ==
  /\ First("sembei") /\ waits
  /\ Handled(<<>>)
  /\ forgotten' = forgotten \cup {FrameOf(Head(events).content)}
  /\ UNCHANGED <<waits, pending>>

Continue ==
  /\ First("continue")
  /\ Handled(<<>>)
  /\ waits' = FALSE /\ UNCHANGED <<pending, forgotten>>

\* sdn_core_process reads the packet, and an answer goes to the PC.
ReadPacket ==
  /\ First("core")
  /\ Handled(<<>>)
  /\ pending' = FALSE /\ UNCHANGED <<waits, forgotten>>

FramingNext ==
  \/ SendPacket \/ RequestNodeId \/ SendFromMote \/ PrintText
  \/ ReceiveOctet \/ LoseOctet
  \/ AnswerRequest \/ PassPacket \/ ForgetFrame \/ Continue \/ ReadPacket

FramingSpec == FramingInit /\ [][FramingNext]_framingVars

----------------------------------------------------------------------------
(* Properties                                                              *)

\* "re-synchronization. Start over" (sdn-serial.c, 138): on both sides a frame
\* that lost nothing is found as it was sent, whatever is printed before it,
\* unless the frame before it lost two octets or more (a closing boundary and
\* the octet after an escape make two frames one).
LossIsLocal ==
  \A k \in DOMAIN sent :
    hits[k] = 0 /\ (k > 1 => hits[k - 1] <= 1)
      => \/ k \in found
         \/ \E i \in DOMAIN line : line[i].of = k

\* The interrupt fills the other buffer while the processes have yet to read
\* the first: every frame is still in its buffer when one is about to.  A frame
\* that lost its closing boundary is found only when the next one begins, so
\* that there may be three at once.
NoTornRead ==
  (\A k \in DOMAIN sent : hits[k] = 0)
    => \A i \in DOMAIN events :
         events[i].to \in {"sembei", "core"}
           => SubSeq(buf[events[i].buf], 1, Len(events[i].content)) = events[i].content

\* Of the two frames there can be at once, the one that finds
\* serial_sembei_process waiting is never a packet, as long as no frame is
\* damaged: the PC would wait for its answer for ever.
PacketsAreRead ==
  (\A k \in DOMAIN sent : hits[k] = 0)
    => \A k \in forgotten : sent[k].kind = "request"

\* What arrives intact is read, and read as it arrived.
FramesAreRead == NoTornRead /\ PacketsAreRead
=============================================================================
