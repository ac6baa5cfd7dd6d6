----------------------------- MODULE SldWindow -----------------------------
(***************************************************************************)
(* The retransmission window of a node (contiki-sdn/sdn-send.c, "sld_"):   *)
(* MaxTxWindow slots, each a copy of a control packet that is out in the   *)
(* network and not yet answered, with a timer that puts it back in the     *)
(* send queue.  The window is the record                                   *)
(*    [pkt   |-> slot contents (sld_w),                                    *)
(*     live  |-> whether the slot is in use (sld_l[i] > 0),                *)
(*     count |-> the helper sld_count, where the search for a free slot    *)
(*               starts].                                                  *)
(* A freed slot keeps its contents: sld_remove_element only zeroes the     *)
(* length, and the sld_rcv_* searches do not look at the length.           *)
(* A timer runs exactly for the live slots.                                *)
(*                                                                         *)
(* A packet is a record with at least the fields type, key (the flow or    *)
(* address a request is about; the controller's flow for a neighbor        *)
(* report), seq (the header's sequence number) and own (source is this     *)
(* node).                                                                  *)
(***************************************************************************)
EXTENDS Integers

CONSTANT MaxTxWindow     \* SDN_MAX_TX_WINDOW

ASSUME MaxTxWindowAssumption == MaxTxWindow \in Nat \ {0}

Slots == 0 .. MaxTxWindow - 1

\* The packet types the end-to-end mechanism covers.
Reliable == {"NEIGHBOR_REPORT", "DATA_FLOW_REQUEST",
             "CONTROL_FLOW_REQUEST", "REGISTER_FLOWID"}

\* A zeroed slot (type 0 is CONTROL_FLOW_SETUP, which is never awaited).
Blank == [type |-> "CONTROL_FLOW_SETUP", key |-> "none", seq |-> 0,
          own |-> FALSE, ver |-> 0]

EmptyWindow == [pkt   |-> [i \in Slots |-> Blank],
                live  |-> [i \in Slots |-> FALSE],
                count |-> 0]

\* Two packets that ask the controller for the same thing.
SameRequest(p, q) == p.type = q.type /\ p.key = q.key

\* The first of a set of slot numbers.
First(S) == CHOOSE i \in S : \A j \in S : i <= j

----------------------------------------------------------------------------
(* Freeing slots.  Every search takes the first slot whose CONTENTS match. *)

RemoveElement(w, i) ==
  [pkt   |-> w.pkt,
   live  |-> [w.live EXCEPT ![i] = FALSE],
   count |-> IF i < w.count THEN i ELSE w.count]

RemoveMatch(w, S) == IF S = {} THEN w ELSE RemoveElement(w, First(S))

\* sld_rcv_ack: an acknowledgement names the type and the sequence number.
RcvAck(w, type, seq) ==
  RemoveMatch(w, {i \in Slots : w.pkt[i].type = type /\ w.pkt[i].seq = seq})

\* sld_purge: a new neighbor report makes the awaited one obsolete.
Purge(w, type) == RemoveMatch(w, {i \in Slots : w.pkt[i].type = type})

\* Mutant of RcvSetup: a setup answers any request of its type.
RcvAnySetup(w, type, key) ==
  RemoveMatch(w, {i \in Slots : w.pkt[i].type = type})

\* sld_rcv_flow_req and sld_rcv_addr_req: a flow setup answers the request
\* of its type for its flow or address.
RcvSetup(w, type, key) ==
  RemoveMatch(w, {i \in Slots : w.pkt[i].type = type /\ w.pkt[i].key = key})

\* has_data_flow_request_retransmission and its control-flow twin.
HasRetransmission(w, type, key) ==
  \E i \in Slots : w.live[i] /\ w.pkt[i].type = type /\ w.pkt[i].key = key

----------------------------------------------------------------------------
(* Filling slots: sld_await_ack, called for every packet the MAC layer is  *)
(* done with.                                                              *)

\* Live slots with the same request: the packet is redundant.
Redundant(w, p) == {i \in Slots : w.live[i] /\ SameRequest(w.pkt[i], p)}

\* Mutant of FreeSlots: all above sld_count.
SlotsAbove(w) == {i \in Slots : i >= w.count}

\* The free slots the search that starts at sld_count can find.
FreeSlots(w) == {i \in Slots : i >= w.count /\ ~ w.live[i]}

\* A redundant neighbor report replaces the awaited one, a redundant
\* request is forgotten.
Refresh(w, p) ==
  IF p.type = "NEIGHBOR_REPORT"
  THEN [pkt   |-> [i \in Slots |-> IF i \in Redundant(w, p) THEN p
                                   ELSE w.pkt[i]],
        live  |-> w.live,
        count |-> w.count]
  ELSE w

Store(w, p) ==
  LET i == First(FreeSlots(w))
  IN  [pkt   |-> [w.pkt EXCEPT ![i] = p],
       live  |-> [w.live EXCEPT ![i] = TRUE],
       count |-> i + 1]

\* No free slot: the packet is not awaited, and the search has used up
\* sld_count.
GiveUp(w) == [w EXCEPT !.count = MaxTxWindow]

AwaitAck(w, p) ==
  IF p.type \notin Reliable \/ ~ p.own THEN w
  ELSE IF Redundant(w, p) # {} THEN Refresh(w, p)
  ELSE IF FreeSlots(w) = {} THEN GiveUp(w)
  ELSE Store(w, p)

\* The timer of slot i re-queued its packet under the new sequence number
\* seq (which INCREMENT_SEQ_NO also writes into the slot).
TimerRequeued(w, i, seq) ==
  RemoveElement([w EXCEPT !.pkt = [w.pkt EXCEPT ![i] = [w.pkt[i] EXCEPT !.seq = seq]]], i)
=============================================================================
