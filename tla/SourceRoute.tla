---------------------------- MODULE SourceRoute ----------------------------
(***************************************************************************)
(* The way packets take through the network.  The controller writes the    *)
(* nodes on the way to a node into the packet                              *)
(* (controller-server/sdn-process-packets-controller.c, send_src_rtd_...), *)
(* as many as fit; every node takes the last of them off and sends the     *)
(* packet there (sdn-common/sdn-process-packets.c, treat_src_routed_...    *)
(* and treat_mult_...); where the list ends early, a setup goes on by the  *)
(* flow tables.  Nodes send to the controller along the entries of its     *)
(* flow.  Every node drops what it takes for a duplicate: it keeps, for    *)
(* the senders it heard last, the number of one packet each                *)
(* (contiki-sdn/sdn-receive.c).                                            *)
(*                                                                         *)
(* Frames are delivered in order on every link, or lost, and the MAC layer *)
(* may repeat a frame before it sends the next.  Receive queue and send    *)
(* queue of a node are left out: a frame is treated when it is received,   *)
(* or dropped for lack of a buffer before or after the check.              *)
(***************************************************************************)
EXTENDS Integers, Sequences, FiniteSets, SequencesExt, TLC

CONSTANTS
  Nodes, Controller,
  Links,         \* <<m, n>>: n receives what m sends to it
  Parent,        \* next hop of each node's entry for the controller's flow
  NextHop,       \* <<n, d>> to the next hop of n's entry for address d
  MaxPath,       \* max_hops: addresses that fit in a packet
  NumberMod,        \* the numbers of a sender, 2^8
  MaxSeqnos,     \* SDN_MAX_SEQNOS
  Ttl,           \* SDN_DEFAULT_TTL
  Kinds,         \* what the controller sends
  MaxSent,       \* bound: of each node, packets it sends after a start
  MaxAir,        \* bound: frames underway
  MaxRepeats,    \* bound: frames the MAC layer repeats
  MaxRestarts    \* bound: of each node, restarts

ASSUME SourceRouteAssumption ==
  /\ Controller \in Nodes /\ Links \subseteq Nodes \X Nodes
  /\ Kinds \subseteq {"SETUP", "ACK", "MNGT", "MULT"}
  /\ Parent \in [Nodes \ {Controller} -> Nodes]
  /\ DOMAIN NextHop \subseteq Nodes \X Nodes /\ NextHop \in [DOMAIN NextHop -> Nodes]
  /\ MaxPath \in Nat /\ NumberMod \in Nat \ {0} /\ MaxSeqnos \in Nat \ {0} /\ Ttl \in Nat
  /\ MaxSent \in [Nodes -> Nat] /\ MaxAir \in Nat /\ MaxRepeats \in Nat
  /\ MaxRestarts \in [Nodes -> Nat]

VARIABLES
  air,        \* frames underway on each link
  seqnos,     \* received_seqnos of each node, the latest first
  sent,       \* of each node: packets sent since it started (sdn_seq_no)
  boot,       \* of each node: how often it restarted
  repeats,    \* frames repeated
  \* History since the last start of n: what the properties refer to.
  accepted,   \* <<n, packet's name>> for what n took for new
  set         \* <<n, owner>> for the elements of setups for several nodes

vars == <<air, seqnos, sent, boot, repeats, accepted, set>>

Init ==
  /\ air = [l \in Links |-> <<>>]
  /\ seqnos = [n \in Nodes |-> <<>>]
  /\ sent = [n \in Nodes |-> 0] /\ boot = [n \in Nodes |-> 0]
  /\ repeats = 0
  /\ accepted = {} /\ set = {}

Underway == SumFunction([l \in Links |-> Len(air[l])])

Name(p) == [src |-> p.src, boot |-> p.boot, no |-> p.no]

----------------------------------------------------------------------------
(* Sending                                                                 *)

\* A packet's number is no modulo NumberMod.  The field route is history: the
\* nodes that the controller wants it to visit; len counts addresses and
\* elements.
Packet(n, kind, dest, real, path, elems, route) ==
  [src |-> n, boot |-> boot[n], no |-> sent[n], thl |-> Ttl, kind |-> kind, dest |-> dest,
   real |-> real, path |-> path, elems |-> elems, len |-> Len(path) + Len(elems), route |-> route]

Put(m, p, links) ==
  IF <<m, p.dest>> \in DOMAIN links THEN [links EXCEPT ![<<m, p.dest>>] = Append(@, p)] ELSE links

\* The routes the digraph may give the controller: simple paths, from the
\* destination back to the controller.
Simple(s) == \A i, j \in DOMAIN s : s[i] = s[j] => i = j

RoutesTo(d) ==
  {r \in BoundedSeq(Nodes, Cardinality(Nodes)) :
     /\ Len(r) >= 2 /\ Head(r) = d /\ Last(r) = Controller /\ Simple(r)
     /\ \A i \in 1 .. Len(r) - 1 : <<r[i + 1], r[i]>> \in Links}

\* Mutant of Written: the hop that is sent to is written as well.
WrittenWhole(r) ==
  LET hops == IF Len(r) - 1 > MaxPath THEN MaxPath ELSE Len(r) - 1
      skip == Len(r) - 1 - hops
  IN  [path |-> SubSeq(r, skip + 1, skip + hops), dest |-> r[Len(r) - 1]]

\* The vertices between the controller's next hop and the destination, the
\* destination first; what does not fit is left out at that end.
Written(r) ==
  LET hops == IF Len(r) - 2 > MaxPath THEN MaxPath ELSE Len(r) - 2
      skip == Len(r) - 2 - hops
  IN  [path |-> SubSeq(r, skip + 1, skip + hops), dest |-> r[Len(r) - 1]]

SourceRouted(kind, r) ==
  LET w == Written(r)
  IN  Packet(Controller, kind, w.dest, Head(r), w.path, <<>>, Tail(Reverse(r)))

SendAlong(kind, d, r) ==
  /\ kind \in Kinds
  /\ sent[Controller] < MaxSent[Controller] /\ Underway < MaxAir
  /\ r \in RoutesTo(d)
  /\ air' = Put(Controller, SourceRouted(kind, r), air)
  /\ sent' = [sent EXCEPT ![Controller] = @ + 1]
  /\ UNCHANGED <<seqnos, boot, repeats, accepted, set>>

\* send_src_rtd_data_flow_setup and send_src_rtd_control_flow_setup
SendSetup(d, r) == SendAlong("SETUP", d, r)

\* sdn_send_src_rtd_ack
SendAck(d, r) == SendAlong("ACK", d, r)

\* A request for management data.
SendMngt(d, r) == SendAlong("MNGT", d, r)

\* A setup for several nodes, the last k of the nodes of r on its way: it is
\* routed by its source to the first of them and goes on along what it sets.
\* The elements are in reverse order, each with the next hop it sets.
ForSeveral(r, k) ==
  LET way   == Reverse(r)
      first == Len(way) - k + 1
      w     == Written(Reverse(SubSeq(way, 1, first)))
      elems == [i \in 1 .. k |-> [owner |-> r[i], next |-> IF i = 1 THEN r[1] ELSE r[i - 1]]]
  IN  Packet(Controller, "MULT", w.dest, way[first], w.path, elems, Tail(way))

\* Only tests/src-route-tests.c (test_send_mult_...) sends such packets.
SendMult(d, r, k) ==
  /\ "MULT" \in Kinds
  /\ sent[Controller] < MaxSent[Controller] /\ Underway < MaxAir
  /\ r \in RoutesTo(d) /\ k \in 2 .. Len(r) - 1
  /\ Len(r) - k - 1 <= MaxPath
  /\ air' = Put(Controller, ForSeveral(r, k), air)
  /\ sent' = [sent EXCEPT ![Controller] = @ + 1]
  /\ UNCHANGED <<seqnos, boot, repeats, accepted, set>>

\* A packet of a node to the controller.
Report(n) ==
  /\ n # Controller
  /\ sent[n] < MaxSent[n] /\ Underway < MaxAir
  /\ air' = Put(n, Packet(n, "FLOW", Parent[n], Controller, <<>>, <<>>, <<>>), air)
  /\ sent' = [sent EXCEPT ![n] = @ + 1]
  /\ UNCHANGED <<seqnos, boot, repeats, accepted, set>>

----------------------------------------------------------------------------
(* Receiving                                                               *)

From(n, src) == {i \in DOMAIN seqnos[n] : seqnos[n][i].src = src}

\* Mutant of IsDuplicate: what is older than the last is taken for seen.
IsDuplicateOld(n, p) ==
  \/ p.src = n
  \/ \E i \in From(n, p.src) : seqnos[n][i].seq >= p.no % NumberMod

\* sdn_seqno_is_duplicate
IsDuplicate(n, p) ==
  \/ p.src = n
  \/ \E i \in From(n, p.src) : seqnos[n][i].seq = p.no % NumberMod

\* Mutant of Place: a sender nobody remembers takes the first place.
PlaceInFront(n, src) ==
  IF From(n, src) = {} THEN 1 ELSE CHOOSE i \in From(n, src) : \A j \in From(n, src) : i <= j

\* The place of the sender's entry; of a new one the next that is free, or
\* the last, which is that of the sender heard least recently.
Place(n, src) ==
  IF From(n, src) # {} THEN CHOOSE i \in From(n, src) : \A j \in From(n, src) : i <= j
  ELSE IF Len(seqnos[n]) < MaxSeqnos THEN Len(seqnos[n]) + 1 ELSE Len(seqnos[n])

\* sdn_seqno_register: the entries before that place move back by one, and the
\* sender comes to the front with its new number.
Registered(n, p) ==
  LET at == Place(n, p.src)
  IN  [j \in DOMAIN seqnos[n] \cup {at} |->
         IF j = 1 THEN [src |-> p.src, seq |-> p.no % NumberMod]
         ELSE seqnos[n][IF j <= at THEN j - 1 ELSE j]]

\* What follows the fields of a packet: addresses and elements (len counts
\* both), as many as the packet says.
CheckPacketLen(p) == p.kind # "MNGT" => p.len >= Len(p.path) + Len(p.elems)

\* treat_src_routed_... on the way.
Advanced(p) == [p EXCEPT !.dest = Last(p.path), !.path = Front(p.path), !.len = @ - 1]

\* The rest of a setup for several nodes goes where this node's element says.
Rest(p) == [p EXCEPT !.dest = Last(p.elems).next, !.elems = Front(p.elems), !.len = @ - 1]

\* What the node's tables do with a packet routed by flow or address; without
\* an entry it waits for one (see SdnNode).
RoutedByTables(n, p) ==
  CASE p.kind = "FLOW" /\ n # Controller -> {[p EXCEPT !.dest = Parent[n]]}
    [] p.kind = "PLAIN" /\ p.real # n /\ <<n, p.real>> \in DOMAIN NextHop ->
         {[p EXCEPT !.dest = NextHop[n, p.real]]}
    [] OTHER -> {}

\* A setup whose addresses end early becomes a plain one; an acknowledgement
\* or a request does not go on.
RoutedBySource(n, p) ==
  CASE p.path # <<>> -> {Advanced(p)}
    [] p.path = <<>> /\ p.kind = "SETUP" /\ p.real # n ->
         RoutedByTables(n, [p EXCEPT !.kind = "PLAIN", !.len = 0])
    [] p.path = <<>> /\ p.kind = "MULT" /\ Len(p.elems) > 1 -> {Rest(p)}
    [] OTHER -> {}

\* sdn_treat_packet: the packet a node sends on, or none.
Onward(n, p) ==
  IF ~ CheckPacketLen(p) THEN {}
  ELSE IF p.kind \in {"FLOW", "PLAIN"} THEN RoutedByTables(n, p) ELSE RoutedBySource(n, p)

\* treat_mult_data_flow_setup: the node takes the last element.
Sets(n, p) ==
  IF p.kind = "MULT" /\ p.path = <<>> THEN {<<n, Last(p.elems).owner>>} ELSE {}

\* sdn_receive and the treatment by the core process: what is new is
\* registered and sent on, if there are buffers for that.
Accept(l) ==
  /\ air[l] # <<>>
  /\ LET n == l[2]
         p == Head(air[l])
         q == [p EXCEPT !.thl = @ - 1]
         taken == [air EXCEPT ![l] = Tail(@)]
     IN  /\ ~ IsDuplicate(n, p)
         /\ p.thl > 0
         /\ seqnos' = [seqnos EXCEPT ![n] = Registered(n, p)]
         /\ \/ air' = taken
            \/ \E o \in Onward(n, q) : air' = Put(n, o, taken)
         /\ set' = set \cup Sets(n, q)
         /\ accepted' = accepted \cup {<<n, Name(p)>>}
  /\ UNCHANGED <<sent, boot, repeats>>

Discard(l) ==
  /\ air[l] # <<>>
  /\ IsDuplicate(l[2], Head(air[l]))
  /\ air' = [air EXCEPT ![l] = Tail(@)]
  /\ UNCHANGED <<seqnos, sent, boot, repeats, accepted, set>>

\* Lost on the air, for lack of a buffer, or with its hop limit.
Lose(l) ==
  /\ air[l] # <<>>
  /\ air' = [air EXCEPT ![l] = Tail(@)]
  /\ UNCHANGED <<seqnos, sent, boot, repeats, accepted, set>>

\* The MAC layer repeats a frame it holds to be lost.
Repeat(l) ==
  /\ air[l] # <<>>
  /\ repeats < MaxRepeats /\ Underway < MaxAir
  /\ repeats' = repeats + 1
  /\ air' = [air EXCEPT ![l] = <<Head(@)>> \o @]
  /\ UNCHANGED <<seqnos, sent, boot, accepted, set>>

\* A node restarts: it counts from zero, and has heard nobody.
Restart(n) ==
  /\ boot[n] < MaxRestarts[n]
  /\ boot' = [boot EXCEPT ![n] = @ + 1]
  /\ sent' = [sent EXCEPT ![n] = 0]
  /\ seqnos' = [seqnos EXCEPT ![n] = <<>>]
  /\ accepted' = {x \in accepted : x[1] # n}
  /\ UNCHANGED <<air, repeats, set>>

Next ==
  \/ \E d \in Nodes : \E r \in RoutesTo(d) :
       \/ SendSetup(d, r) \/ SendAck(d, r) \/ SendMngt(d, r)
       \/ \E k \in 2 .. Cardinality(Nodes) : SendMult(d, r, k)
  \/ \E n \in Nodes : Report(n) \/ Restart(n)
  \/ \E l \in Links : Accept(l) \/ Discard(l) \/ Lose(l) \/ Repeat(l)

Spec == Init /\ [][Next]_vars

----------------------------------------------------------------------------
(* Properties                                                              *)

\* The nodes a packet that is underway is still to visit, as it says itself.
Ahead(p) ==
  <<p.dest>> \o Reverse(p.path) \o
  Reverse([i \in 1 .. Len(p.elems) - 1 |-> p.elems[i + 1].next])

\* What the controller wrote and the nodes took off it agree: a packet routed
\* by its source is on a link of its route, and what is left in it is the rest
\* of the route; all of it, if the route was not too long for a packet.
OnRoute ==
  \A l \in Links : \A i \in DOMAIN air[l] :
    LET p == air[l][i]
    IN  p.kind \in {"SETUP", "ACK", "MNGT", "MULT"} =>
          \E k \in DOMAIN p.route :
            /\ p.route[k] = l[2]
            /\ l[1] = IF k = 1 THEN Controller ELSE p.route[k - 1]
            /\ IsPrefix(Ahead(p), SubSeq(p.route, k, Len(p.route)))
            /\ CheckPacketLen(p)
            /\ Len(p.route) - 1 <= MaxPath => Len(Ahead(p)) = Len(p.route) - k + 1

\* What the next two properties rest on: there are no more senders than places
\* in the cache, and one way for the packets of each.  Carry[s] are the links
\* that carry what s sends; none leads back to s or nearer to it (Hops), and a
\* node hears s over one of them only.
OneWay(Carry, Hops) ==
  LET Senders == {s \in Nodes : MaxSent[s] > 0}
  IN  /\ IsFiniteSet(Senders) /\ Cardinality(Senders) <= MaxSeqnos
      /\ Carry \in [Nodes -> SUBSET Links] /\ Hops \in [Nodes -> [Nodes -> Nat]]
      /\ \A s \in Senders : \A l \in Carry[s] :
           /\ l[2] # s /\ Hops[s][l[1]] < Hops[s][l[2]]
           /\ \A k \in Carry[s] : l[2] = k[2] => l = k
      \* The controller's routes, and the entries its setups go on by.
      /\ Controller \in Senders =>
           /\ \A d \in Nodes : \A r \in RoutesTo(d) : \A i \in 1 .. Len(r) - 1 :
                <<r[i + 1], r[i]>> \in Carry[Controller]
           /\ \A x \in DOMAIN NextHop :
                <<x[1], NextHop[x]>> \in Links /\ NextHop[x] # Controller =>
                  <<x[1], NextHop[x]>> \in Carry[Controller]
      \* The entries for the controller's flow.
      /\ \A s \in Senders \ {Controller} : \A n \in Nodes \ {Controller} :
           (n = s \/ \E l \in Carry[s] : l[2] = n) /\ <<n, Parent[n]>> \in Links /\ Parent[n] # s =>
             <<n, Parent[n]>> \in Carry[s]

\* A node treats no packet twice, whatever the MAC layer repeats: what it has
\* accepted before is a duplicate when it comes again.  This is so where the
\* packets of each sender have one way.
AtMostOnce ==
  \A l \in Links :
    air[l] # <<>> /\ <<l[2], Name(Head(air[l]))>> \in accepted => IsDuplicate(l[2], Head(air[l]))

\* A packet that is new to a node is taken for a duplicate only if it returns
\* to its source, or if its number was used before: by an earlier life of its
\* sender, or by this one so long ago that the numbers came round.
NewIsNotTakenForOld ==
  \A l \in Links : air[l] # <<>> =>
    LET n == l[2]
        p == Head(air[l])
    IN  IsDuplicate(n, p) /\ <<n, Name(p)>> \notin accepted /\ p.src # n =>
          \E x \in accepted :
            /\ x[1] = n /\ x[2].src = p.src
            /\ x[2].no % NumberMod = p.no % NumberMod
            /\ x[2].boot # p.boot \/ x[2].no + NumberMod <= p.no
            \* Nothing of that sender came in between.
            /\ \A y \in accepted :
                 y[1] = n /\ y[2].src = p.src =>
                   y[2].boot < x[2].boot \/ (y[2].boot = x[2].boot /\ y[2].no <= x[2].no)

\* Every element of a setup for several nodes is set at the node it is for.
ElementsAtOwners == \A s \in set : s[1] = s[2]

\* Packets go where the controller meant them to, and so does what they say.
RouteIsFollowed == OnRoute /\ ElementsAtOwners
=============================================================================
