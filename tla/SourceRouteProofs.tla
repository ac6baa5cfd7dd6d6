------------------------- MODULE SourceRouteProofs -------------------------
(***************************************************************************)
(* Proofs about SourceRoute for any nodes, links, routes and bounds.       *)
(*                                                                         *)
(* RouteInv says of every frame what OnRoute says of it, element by        *)
(* element, so that one step of a packet is one place further on its       *)
(* route.                                                                  *)
(*                                                                         *)
(* Where the packets of each sender have one way (OneWay), the way is a    *)
(* tree: Ordered says that along it nothing overtakes.  What a node has    *)
(* accepted of a sender is no later than what it still hears of it, and    *)
(* Remembers says that the cache of the node holds, for each sender it     *)
(* heard, the number of the latest packet.  Both say together what a       *)
(* duplicate is taken for.                                                 *)
(***************************************************************************)
EXTENDS SourceRoute, NumberLemmas

----------------------------------------------------------------------------
(* Packets and routes                                                      *)

SourceKinds == {"SETUP", "ACK", "MNGT", "MULT"}

Elements == [owner : Nodes, next : Nodes]

Packets ==
  [src : Nodes, boot : Nat, no : Nat, thl : Int, kind : SourceKinds \cup {"FLOW", "PLAIN"},
   dest : Nodes, real : Nodes, path : Seq(Nodes), elems : Seq(Elements), len : Int,
   route : Seq(Nodes)]

\* The node before place k of a route.
Before(route, k) == IF k = 1 THEN Controller ELSE route[k - 1]

\* OnRoute of one packet, element by element: the packet is on the link to
\* place k of its route, and what it says lies ahead is what follows there.
Follows(l, p, k) ==
  /\ k \in 1 .. Len(p.route)
  /\ p.route[k] = l[2]
  /\ l[1] = Before(p.route, k)
  /\ \A j \in 1 .. Len(p.path) : p.path[Len(p.path) - j + 1] = p.route[k + j]
  /\ \A j \in 1 .. Len(p.elems) - 1 :
       p.elems[Len(p.elems) - j + 1].next = p.route[k + Len(p.path) + j]
  /\ \A j \in 0 .. Len(p.elems) - 1 :
       p.elems[Len(p.elems) - j].owner = p.route[k + Len(p.path) + j]
  /\ CheckPacketLen(p)
  /\ p.kind = "MULT" => /\ Len(p.elems) >= 1
                        /\ k + Len(p.path) + Len(p.elems) - 1 = Len(p.route)
  /\ p.kind # "MULT" => /\ Len(p.elems) = 0
                        /\ k + Len(p.path) <= Len(p.route)
                        /\ Len(p.route) - 1 <= MaxPath => k + Len(p.path) = Len(p.route)

\* The route is one that the controller's digraph gave.
Meant(route) == \E d \in Nodes : \E r \in RoutesTo(d) : route = Tail(Reverse(r))

Frame(l, p) ==
  /\ p \in Packets
  /\ p.dest = l[2]
  /\ p.kind = "FLOW" => p.src # Controller
  /\ p.kind # "FLOW" => p.src = Controller
  /\ p.kind \in SourceKinds => Meant(p.route) /\ \E k \in 1 .. Len(p.route) : Follows(l, p, k)

\* A route of the controller, in the order it is travelled.
LEMMA RouteFacts ==
  ASSUME NEW d \in Nodes, NEW r \in RoutesTo(d)
  PROVE  /\ r \in Seq(Nodes) /\ Len(r) >= 2
         /\ r[1] = d /\ r[Len(r)] = Controller
         /\ \A i \in 1 .. Len(r) - 1 : <<r[i + 1], r[i]>> \in Links
         /\ Tail(Reverse(r)) \in Seq(Nodes)
         /\ Len(Tail(Reverse(r))) = Len(r) - 1
         /\ \A j \in 1 .. Len(r) - 1 : Tail(Reverse(r))[j] = r[Len(r) - j]
<1>1. r \in Seq(Nodes) /\ Len(r) >= 2 BY DEF RoutesTo, BoundedSeq, SeqOf
<1>2. r[1] = d /\ r[Len(r)] = Controller BY <1>1 DEF RoutesTo, Last
<1>3. \A i \in 1 .. Len(r) - 1 : <<r[i + 1], r[i]>> \in Links BY DEF RoutesTo
<1>4. Reverse(r) \in Seq(Nodes) /\ Len(Reverse(r)) = Len(r) BY <1>1 DEF Reverse
<1>5. \A j \in 1 .. Len(r) : Reverse(r)[j] = r[Len(r) - j + 1] BY <1>1 DEF Reverse
<1> HIDE DEF Reverse
<1>6. Tail(Reverse(r)) \in Seq(Nodes) /\ Len(Tail(Reverse(r))) = Len(r) - 1 BY <1>1, <1>4
<1>7. ASSUME NEW j \in 1 .. Len(r) - 1 PROVE Tail(Reverse(r))[j] = r[Len(r) - j]
  <2>1. Tail(Reverse(r))[j] = Reverse(r)[j + 1] BY <1>1, <1>4
  <2>2. j + 1 \in 1 .. Len(r) /\ Len(r) - (j + 1) + 1 = Len(r) - j BY <1>1
  <2>3. Reverse(r)[j + 1] = r[Len(r) - (j + 1) + 1] BY <1>5, <2>2
  <2> QED BY <2>1, <2>2, <2>3
<1> QED BY <1>1, <1>2, <1>3, <1>6, <1>7

\* What send_src_rtd_... writes: the hops are the route's, from the second on.
LEMMA WrittenFacts ==
  ASSUME NEW s \in Seq(Nodes), Len(s) >= 2
  PROVE  /\ Written(s).dest = s[Len(s) - 1]
         /\ Written(s).path \in Seq(Nodes)
         /\ Len(Written(s).path) = IF Len(s) - 2 > MaxPath THEN MaxPath ELSE Len(s) - 2
         /\ \A j \in 1 .. Len(Written(s).path) :
              Written(s).path[Len(Written(s).path) - j + 1] = s[Len(s) - 1 - j]
<1> DEFINE hops == IF Len(s) - 2 > MaxPath THEN MaxPath ELSE Len(s) - 2
           skip == Len(s) - 2 - hops
           path == SubSeq(s, skip + 1, skip + hops)
<1>1. Written(s).path = path /\ Written(s).dest = s[Len(s) - 1] BY DEF Written
<1>a. MaxPath \in Nat /\ Len(s) \in Nat BY SourceRouteAssumption
<1>2. hops \in Nat /\ skip \in Nat /\ skip + hops = Len(s) - 2 BY <1>a
<1> HIDE DEF hops, skip
<1>3. path \in Seq(Nodes) /\ Len(path) = hops BY <1>2
<1>4. ASSUME NEW j \in 1 .. hops PROVE path[hops - j + 1] = s[Len(s) - 1 - j]
  <2>1. hops - j + 1 \in 1 .. hops BY <1>2
  <2>2. path[hops - j + 1] = s[skip + 1 + (hops - j + 1) - 1] BY <1>2, <2>1
  <2>3. skip + 1 + (hops - j + 1) - 1 = Len(s) - 1 - j BY <1>2
  <2> QED BY <2>2, <2>3
<1> HIDE DEF path
<1>5. hops = IF Len(s) - 2 > MaxPath THEN MaxPath ELSE Len(s) - 2 BY DEF hops
<1> QED BY <1>1, <1>3, <1>4, <1>5

\* A packet as its sender makes it.
LEMMA PacketMade ==
  ASSUME NEW n \in Nodes, boot[n] \in Nat, sent[n] \in Nat,
         NEW kind \in SourceKinds \cup {"FLOW", "PLAIN"}, NEW dest \in Nodes, NEW real \in Nodes,
         NEW path \in Seq(Nodes), NEW elems \in Seq(Elements), NEW route \in Seq(Nodes)
  PROVE  Packet(n, kind, dest, real, path, elems, route) \in Packets
<1>1. Ttl \in Int BY SourceRouteAssumption
<1>2. Len(path) + Len(elems) \in Int OBVIOUS
<1> QED BY <1>1, <1>2 DEF Packet, Packets

\* What the controller sends starts on its route.
LEMMA SourceRoutedFrame ==
  ASSUME NEW d \in Nodes, NEW r \in RoutesTo(d), NEW kind \in SourceKinds \ {"MULT"},
         boot[Controller] \in Nat, sent[Controller] \in Nat, NEW p, p = SourceRouted(kind, r)
  PROVE  /\ Frame(<<Controller, p.dest>>, p)
         /\ p.src = Controller /\ p.boot = boot[Controller] /\ p.no = sent[Controller]
         /\ <<Controller, p.dest>> = <<r[Len(r)], r[Len(r) - 1]>>
<1> DEFINE w == Written(r)
           route == Tail(Reverse(r))
<1>1. /\ r \in Seq(Nodes) /\ Len(r) >= 2 /\ r[1] = d /\ r[Len(r)] = Controller
      /\ route \in Seq(Nodes) /\ Len(route) = Len(r) - 1
      /\ \A j \in 1 .. Len(r) - 1 : route[j] = r[Len(r) - j]
  BY RouteFacts
<1>2. /\ w.dest = r[Len(r) - 1] /\ w.path \in Seq(Nodes)
      /\ Len(w.path) = IF Len(r) - 2 > MaxPath THEN MaxPath ELSE Len(r) - 2
      /\ \A j \in 1 .. Len(w.path) : w.path[Len(w.path) - j + 1] = r[Len(r) - 1 - j]
  BY <1>1, WrittenFacts
<1>3. p = Packet(Controller, kind, w.dest, r[1], w.path, <<>>, route)
  BY <1>1 DEF SourceRouted
<1>m. Meant(route) BY DEF Meant
<1> HIDE DEF w, route
<1>4. Len(r) \in Nat /\ Len(w.path) \in Nat /\ MaxPath \in Nat /\ Controller \in Nodes
  BY <1>1, <1>2, SourceRouteAssumption
<1>5. w.dest \in Nodes /\ r[1] \in Nodes BY <1>1, <1>2, <1>4
<1>k. kind \in SourceKinds \cup {"FLOW", "PLAIN"} /\ <<>> \in Seq(Elements) OBVIOUS
<1>6. p \in Packets
  <2>1. Packet(Controller, kind, w.dest, r[1], w.path, <<>>, route) \in Packets
    BY <1>1, <1>2, <1>4, <1>5, <1>k, PacketMade
  <2> QED BY <1>3, <2>1
<1>7. /\ p.src = Controller /\ p.boot = boot[Controller] /\ p.no = sent[Controller]
      /\ p.kind = kind /\ p.dest = w.dest /\ p.path = w.path /\ p.elems = <<>>
      /\ p.route = route /\ p.len = Len(w.path) + 0
  BY <1>3 DEF Packet
<1>8. route[1] = r[Len(r) - 1] BY <1>1, <1>4
<1>9. Follows(<<Controller, p.dest>>, p, 1)
  <2>1. ASSUME NEW j \in 1 .. Len(p.path) PROVE p.path[Len(p.path) - j + 1] = p.route[1 + j]
    <3>1. w.path[Len(w.path) - j + 1] = r[Len(r) - 1 - j] BY <1>2, <1>7
    <3>2. 1 + j \in 1 .. Len(r) - 1 /\ Len(r) - (1 + j) = Len(r) - 1 - j
      BY <1>2, <1>4, <1>7
    <3>3. route[1 + j] = r[Len(r) - (1 + j)] BY <1>1, <3>2
    <3> QED BY <1>7, <3>1, <3>2, <3>3
  <2>2. 1 \in 1 .. Len(p.route) BY <1>1, <1>4, <1>7
  <2>3. p.route[1] = p.dest BY <1>2, <1>7, <1>8
  <2>4. Len(p.elems) = 0 BY <1>7
  <2>5. /\ 1 + Len(p.path) <= Len(p.route)
        /\ Len(p.route) - 1 <= MaxPath => 1 + Len(p.path) = Len(p.route)
    BY <1>1, <1>2, <1>4, <1>7
  <2>6. CheckPacketLen(p) BY <1>4, <1>7, <2>4 DEF CheckPacketLen
  <2>7. p.kind # "MULT" BY <1>7
  <2> QED BY <2>1, <2>2, <2>3, <2>4, <2>5, <2>6, <2>7 DEF Follows, Before
<1>10. p.kind # "FLOW" BY <1>7 DEF SourceKinds
<1>11. \E k \in 1 .. Len(p.route) : Follows(<<Controller, p.dest>>, p, k)
  BY <1>1, <1>4, <1>7, <1>9
<1> QED BY <1>1, <1>2, <1>6, <1>7, <1>10, <1>11, <1>m DEF Frame

\* So does a setup for several nodes, and its elements are in the order of the
\* nodes on the rest of the route.
LEMMA MultFrame ==
  ASSUME NEW d \in Nodes, NEW r \in RoutesTo(d), NEW k \in 2 .. Len(r) - 1,
         boot[Controller] \in Nat, sent[Controller] \in Nat,
         Len(r) - k - 1 <= MaxPath, NEW p, p = ForSeveral(r, k)
  PROVE  /\ Frame(<<Controller, p.dest>>, p)
         /\ p.src = Controller /\ p.boot = boot[Controller] /\ p.no = sent[Controller]
         /\ <<Controller, p.dest>> = <<r[Len(r)], r[Len(r) - 1]>>
<1> DEFINE route == Tail(Reverse(r))
           way == Reverse(r)
           first == Len(way) - k + 1
           part == SubSeq(way, 1, first)
           s == Reverse(part)
           w == Written(s)
           elems == [i \in 1 .. k |-> [owner |-> r[i], next |-> IF i = 1 THEN r[1] ELSE r[i - 1]]]
<1>p. p = Packet(Controller, "MULT", w.dest, way[first], w.path, elems, route)
  BY DEF ForSeveral
<1>f. first = Len(way) - k + 1 OBVIOUS
<1>m. Meant(route) BY DEF Meant
<1>r. route = Tail(Reverse(r)) OBVIOUS
<1> HIDE DEF w, elems, first, route
<1>1. /\ r \in Seq(Nodes) /\ Len(r) >= 2 /\ r[1] = d /\ r[Len(r)] = Controller
      /\ route \in Seq(Nodes) /\ Len(route) = Len(r) - 1
      /\ \A j \in 1 .. Len(r) - 1 : route[j] = r[Len(r) - j]
  BY <1>r, RouteFacts
<1>2. Len(r) \in Nat /\ k \in Nat /\ 2 <= k /\ k <= Len(r) - 1 /\ MaxPath \in Nat /\ Controller \in Nodes
  <2>1. Len(r) \in Nat BY <1>1
  <2>2. k \in Nat /\ 2 <= k /\ k <= Len(r) - 1 BY <2>1
  <2> QED BY <2>1, <2>2, SourceRouteAssumption
<1>3. /\ way \in Seq(Nodes) /\ Len(way) = Len(r)
      /\ \A j \in 1 .. Len(r) : way[j] = r[Len(r) - j + 1]
  BY <1>1 DEF Reverse
<1> HIDE DEF way
<1>4. first = Len(r) - k + 1 /\ first \in 2 .. Len(r) BY <1>2, <1>3, <1>f
<1>5. /\ part \in Seq(Nodes) /\ Len(part) = first
      /\ \A i \in 1 .. first : part[i] = way[i]
  BY <1>2, <1>3, <1>4
<1> HIDE DEF part
<1>6. /\ s \in Seq(Nodes) /\ Len(s) = first
      /\ \A i \in 1 .. first : s[i] = part[first - i + 1]
  BY <1>4, <1>5 DEF Reverse
<1>7. ASSUME NEW i \in 1 .. first PROVE s[i] = r[k - 1 + i]
  <2>1. first - i + 1 \in 1 .. first /\ first - i + 1 \in 1 .. Len(r) BY <1>4
  <2>2. s[i] = way[first - i + 1] BY <1>5, <1>6, <2>1
  <2>3. way[first - i + 1] = r[Len(r) - (first - i + 1) + 1] BY <1>3, <2>1
  <2>4. Len(r) - (first - i + 1) + 1 = k - 1 + i BY <1>2, <1>4
  <2> QED BY <2>2, <2>3, <2>4
<1> HIDE DEF s
<1>8. /\ w.dest = s[first - 1] /\ w.path \in Seq(Nodes) /\ Len(w.path) = first - 2
      /\ \A j \in 1 .. Len(w.path) : w.path[Len(w.path) - j + 1] = s[first - 1 - j]
  <2>1. s \in Seq(Nodes) /\ Len(s) >= 2 /\ Len(s) = first BY <1>4, <1>6
  <2>2. /\ w.dest = s[Len(s) - 1] /\ w.path \in Seq(Nodes)
        /\ Len(w.path) = IF Len(s) - 2 > MaxPath THEN MaxPath ELSE Len(s) - 2
        /\ \A j \in 1 .. Len(w.path) : w.path[Len(w.path) - j + 1] = s[Len(s) - 1 - j]
    BY <2>1, WrittenFacts DEF w
  <2>3. Len(w.path) = first - 2 BY <1>2, <1>4, <2>1, <2>2
  <2> QED BY <2>1, <2>2, <2>3
<1>9. w.dest = r[Len(r) - 1]
  <2>1. first - 1 \in 1 .. first /\ k - 1 + (first - 1) = Len(r) - 1 BY <1>2, <1>4
  <2>2. s[first - 1] = r[k - 1 + (first - 1)] BY <1>7, <2>1
  <2> QED BY <1>8, <2>1, <2>2
<1>10. elems \in Seq(Elements) /\ Len(elems) = k
  <2>1. \A i \in 1 .. k : elems[i] \in Elements
    <3>1. ASSUME NEW i \in 1 .. k PROVE r[i] \in Nodes /\ r[1] \in Nodes /\ (i # 1 => r[i - 1] \in Nodes)
      BY <1>1, <1>2
    <3> QED BY <3>1 DEF Elements, elems
  <2>2. elems \in [1 .. k -> Elements] BY <2>1 DEF elems
  <2> QED BY <1>2, <2>2
<1>11. way[first] \in Nodes /\ w.dest \in Nodes BY <1>1, <1>2, <1>3, <1>4, <1>9
<1>12. p \in Packets
  <2>1. "MULT" \in SourceKinds \cup {"FLOW", "PLAIN"} BY DEF SourceKinds
  <2>2. Packet(Controller, "MULT", w.dest, way[first], w.path, elems, route) \in Packets
    BY <1>1, <1>2, <1>8, <1>10, <1>11, <2>1, PacketMade
  <2> QED BY <1>p, <2>2
<1>13. /\ p.src = Controller /\ p.boot = boot[Controller] /\ p.no = sent[Controller]
       /\ p.kind = "MULT" /\ p.dest = w.dest /\ p.path = w.path /\ p.elems = elems
       /\ p.route = route /\ p.len = Len(w.path) + Len(elems)
  BY <1>p DEF Packet
<1>n. Len(p.path) = first - 2 /\ Len(p.elems) = k /\ Len(p.route) = Len(r) - 1
  BY <1>1, <1>8, <1>10, <1>13
<1>l. first = Len(r) - k + 1 /\ Len(r) \in Nat /\ k \in Nat /\ 2 <= k /\ k <= Len(r) - 1
  BY <1>2, <1>4
<1>14. Follows(<<Controller, p.dest>>, p, 1)
  <2>1. ASSUME NEW j \in 1 .. Len(p.path) PROVE p.path[Len(p.path) - j + 1] = p.route[1 + j]
    <3>1. w.path[Len(w.path) - j + 1] = s[first - 1 - j] BY <1>8, <1>13
    <3>2. j \in 1 .. first - 2 BY <1>8, <1>13
    <3>3. first - 1 - j \in 1 .. first /\ k - 1 + (first - 1 - j) = Len(r) - (1 + j)
      BY <1>2, <1>4, <3>2
    <3>4. s[first - 1 - j] = r[k - 1 + (first - 1 - j)] BY <1>7, <3>3
    <3>5. 1 + j \in 1 .. Len(r) - 1 BY <1>2, <1>4, <3>2
    <3>6. route[1 + j] = r[Len(r) - (1 + j)] BY <1>1, <3>5
    <3> QED BY <1>13, <3>1, <3>3, <3>4, <3>6
  <2>2. ASSUME NEW j \in 1 .. Len(p.elems) - 1
        PROVE  p.elems[Len(p.elems) - j + 1].next = p.route[1 + Len(p.path) + j]
    <3>1. j \in 1 .. k - 1 /\ k - j + 1 \in 1 .. k /\ k - j + 1 # 1 BY <1>l, <1>n
    <3>2. elems[k - j + 1].next = r[k - j + 1 - 1] BY <3>1 DEF elems
    <3>3. 1 + Len(p.path) + j \in 1 .. Len(r) - 1 /\ Len(r) - (1 + Len(p.path) + j) = k - j + 1 - 1
      BY <1>l, <1>n, <3>1
    <3>4. route[1 + Len(p.path) + j] = r[Len(r) - (1 + Len(p.path) + j)] BY <1>1, <3>3
    <3> QED BY <1>10, <1>13, <3>2, <3>3, <3>4
  <2>3. ASSUME NEW j \in 0 .. Len(p.elems) - 1
        PROVE  p.elems[Len(p.elems) - j].owner = p.route[1 + Len(p.path) + j]
    <3>1. j \in 0 .. k - 1 /\ k - j \in 1 .. k BY <1>2, <1>10, <1>13
    <3>2. elems[k - j].owner = r[k - j] BY <3>1 DEF elems
    <3>3. 1 + Len(p.path) + j \in 1 .. Len(r) - 1 /\ Len(r) - (1 + Len(p.path) + j) = k - j
      BY <1>l, <1>n, <3>1
    <3>4. route[1 + Len(p.path) + j] = r[Len(r) - (1 + Len(p.path) + j)] BY <1>1, <3>3
    <3> QED BY <1>10, <1>13, <3>2, <3>3, <3>4
  <2>4. 1 \in 1 .. Len(p.route) BY <1>1, <1>2, <1>13
  <2>5. p.route[1] = p.dest BY <1>1, <1>2, <1>9, <1>13
  <2>6. Len(p.elems) >= 1 /\ 1 + Len(p.path) + Len(p.elems) - 1 = Len(p.route)
    BY <1>l, <1>n
  <2>7. CheckPacketLen(p) BY <1>2, <1>4, <1>8, <1>10, <1>13 DEF CheckPacketLen
  <2> QED BY <1>13, <2>1, <2>2, <2>3, <2>4, <2>5, <2>6, <2>7 DEF Follows, Before
<1>15. \E i \in 1 .. Len(p.route) : Follows(<<Controller, p.dest>>, p, i)
  BY <1>1, <1>2, <1>13, <1>14
<1> QED BY <1>1, <1>9, <1>12, <1>13, <1>15, <1>m DEF Frame

\* A hop more or less does not change where a packet goes.
LEMMA HopFrame ==
  ASSUME NEW l, NEW p, Frame(l, p), NEW q, q = [p EXCEPT !.thl = @ - 1]
  PROVE  Frame(l, q) /\ q.src = p.src /\ q.boot = p.boot /\ q.no = p.no
<1>1. p \in Packets BY DEF Frame
<1>2. q \in Packets
  <2>1. p.thl \in Int BY <1>1 DEF Packets
  <2> DEFINE hops == p.thl - 1
  <2>2. hops \in Int /\ q = [p EXCEPT !.thl = hops] BY <2>1
  <2> HIDE DEF hops
  <2> QED BY <1>1, <2>2 DEF Packets
<1>3. /\ q.src = p.src /\ q.boot = p.boot /\ q.no = p.no /\ q.kind = p.kind /\ q.dest = p.dest
      /\ q.path = p.path /\ q.elems = p.elems /\ q.len = p.len /\ q.route = p.route
  BY <1>1 DEF Packets
<1>4. \A k : Follows(l, p, k) => Follows(l, q, k) BY <1>3 DEF Follows, CheckPacketLen
<1>5. p.kind \in SourceKinds => Meant(p.route) /\ \E k \in 1 .. Len(p.route) : Follows(l, p, k)
  BY DEF Frame
<1>6. /\ q.dest = l[2]
      /\ q.kind = "FLOW" => q.src # Controller
      /\ q.kind # "FLOW" => q.src = Controller
  BY <1>3 DEF Frame
<1>7. q.kind \in SourceKinds => Meant(q.route) /\ \E k \in 1 .. Len(q.route) : Follows(l, q, k)
  BY <1>3, <1>4, <1>5
<1> QED BY <1>2, <1>3, <1>6, <1>7 DEF Frame

\* The node takes the last address off and sends the packet there.
LEMMA AdvancedFrame ==
  ASSUME NEW l, NEW p, Frame(l, p), p.kind \in SourceKinds, p.path # <<>>,
         NEW o, o = Advanced(p)
  PROVE  Frame(<<l[2], o.dest>>, o)
<1>1. /\ p \in Packets /\ p.kind # "FLOW" /\ p.src = Controller /\ Meant(p.route)
  BY DEF Frame, SourceKinds
<1>2. PICK k \in 1 .. Len(p.route) : Follows(l, p, k) BY DEF Frame
<1>3. /\ p.path \in Seq(Nodes) /\ p.elems \in Seq(Elements) /\ p.route \in Seq(Nodes) /\ p.len \in Int
  BY <1>1 DEF Packets
<1> DEFINE m == Len(p.path)
           e == Len(p.elems)
<1>4. m \in Nat /\ m >= 1 /\ e \in Nat /\ k \in Nat /\ k >= 1 /\ Len(p.route) \in Nat
  BY <1>2, <1>3
<1>5. /\ p.route[k] = l[2]
      /\ \A j \in 1 .. m : p.path[m - j + 1] = p.route[k + j]
      /\ \A j \in 1 .. e - 1 : p.elems[e - j + 1].next = p.route[k + m + j]
      /\ \A j \in 0 .. e - 1 : p.elems[e - j].owner = p.route[k + m + j]
      /\ CheckPacketLen(p)
      /\ p.kind = "MULT" => e >= 1 /\ k + m + e - 1 = Len(p.route)
      /\ p.kind # "MULT" => /\ e = 0 /\ k + m <= Len(p.route)
                            /\ Len(p.route) - 1 <= MaxPath => k + m = Len(p.route)
  BY <1>2 DEF Follows
<1>6. Front(p.path) \in Seq(Nodes) /\ Len(Front(p.path)) = m - 1
      /\ \A i \in 1 .. m - 1 : Front(p.path)[i] = p.path[i]
  BY <1>3, <1>4 DEF Front
<1>7. Last(p.path) \in Nodes /\ Last(p.path) = p.path[m] BY <1>3, <1>4 DEF Last
<1> HIDE DEF m, e
<1>8. /\ o.dest = p.path[m] /\ o.path = Front(p.path) /\ o.len = p.len - 1
      /\ o.src = p.src /\ o.kind = p.kind /\ o.elems = p.elems /\ o.route = p.route
  BY <1>1, <1>7 DEF Advanced, Packets
<1>9. o \in Packets
  <2> DEFINE to == Last(p.path)
             rest == Front(p.path)
             len == p.len - 1
  <2>1. to \in Nodes /\ rest \in Seq(Nodes) /\ len \in Int BY <1>3, <1>6, <1>7
  <2>2. o = [p EXCEPT !.dest = to, !.path = rest, !.len = len] BY DEF Advanced
  <2> HIDE DEF to, rest, len
  <2> QED BY <1>1, <2>1, <2>2 DEF Packets
<1>10. Len(o.path) = m - 1 /\ Len(o.elems) = e /\ Len(p.route) = Len(o.route)
  BY <1>6, <1>8 DEF e
<1>11. o.dest = p.route[k + 1]
  <2>1. 1 \in 1 .. m /\ m - 1 + 1 = m BY <1>4
  <2>2. p.path[m - 1 + 1] = p.route[k + 1] BY <1>5, <2>1
  <2> QED BY <1>8, <2>1, <2>2
<1>12. k + 1 <= Len(p.route)
  BY <1>4, <1>5
<1>13. Follows(<<l[2], o.dest>>, o, k + 1)
  <2>1. ASSUME NEW j \in 1 .. Len(o.path)
        PROVE  o.path[Len(o.path) - j + 1] = o.route[k + 1 + j]
    <3>1. m - 1 - j + 1 \in 1 .. m - 1 /\ j + 1 \in 1 .. m /\ m - 1 - j + 1 = m - (j + 1) + 1
      BY <1>4, <1>10
    <3>2. o.path[m - 1 - j + 1] = p.path[m - (j + 1) + 1] BY <1>6, <1>8, <3>1
    <3>3. p.path[m - (j + 1) + 1] = p.route[k + (j + 1)] BY <1>5, <3>1
    <3>4. k + (j + 1) = k + 1 + j BY <1>4
    <3> QED BY <1>8, <1>10, <3>2, <3>3, <3>4
  <2>2. ASSUME NEW j \in 1 .. Len(o.elems) - 1
        PROVE  o.elems[Len(o.elems) - j + 1].next = o.route[k + 1 + Len(o.path) + j]
    <3>1. k + 1 + (m - 1) + j = k + m + j BY <1>4, <1>10
    <3> QED BY <1>5, <1>8, <1>10, <3>1
  <2>3. ASSUME NEW j \in 0 .. Len(o.elems) - 1
        PROVE  o.elems[Len(o.elems) - j].owner = o.route[k + 1 + Len(o.path) + j]
    <3>1. k + 1 + (m - 1) + j = k + m + j BY <1>4, <1>10
    <3> QED BY <1>5, <1>8, <1>10, <3>1
  <2>4. CheckPacketLen(o)
    <3>1. p.kind # "MNGT" => p.len >= m + e BY <1>5 DEF CheckPacketLen, m, e
    <3>2. p.kind # "MNGT" => p.len - 1 >= m - 1 + e BY <1>3, <1>4, <3>1
    <3> QED BY <1>8, <1>10, <3>2 DEF CheckPacketLen
  <2>5. k + 1 \in 1 .. Len(o.route) /\ o.route[k + 1] = o.dest
    BY <1>4, <1>8, <1>11, <1>12
  <2>6. l[2] = Before(o.route, k + 1) BY <1>4, <1>5, <1>8 DEF Before
  <2>7. k + 1 + (m - 1) = k + m BY <1>4
  <2>8. /\ o.kind = "MULT" => /\ Len(o.elems) >= 1
                              /\ k + 1 + Len(o.path) + Len(o.elems) - 1 = Len(o.route)
        /\ o.kind # "MULT" => /\ Len(o.elems) = 0
                              /\ k + 1 + Len(o.path) <= Len(o.route)
                              /\ Len(o.route) - 1 <= MaxPath => k + 1 + Len(o.path) = Len(o.route)
    BY <1>5, <1>8, <1>10, <2>7
  <2> QED BY <2>1, <2>2, <2>3, <2>4, <2>5, <2>6, <2>8 DEF Follows
<1>14. k + 1 \in 1 .. Len(o.route) BY <1>4, <1>8, <1>12
<1> QED BY <1>1, <1>8, <1>9, <1>13, <1>14 DEF Frame

\* The node takes the last element off and sends the packet on along it.
LEMMA RestFrame ==
  ASSUME NEW l, NEW p, Frame(l, p), p.kind = "MULT", p.path = <<>>, Len(p.elems) > 1,
         NEW o, o = Rest(p)
  PROVE  Frame(<<l[2], o.dest>>, o)
<1>1. /\ p \in Packets /\ p.kind # "FLOW" /\ p.src = Controller /\ Meant(p.route)
      /\ p.kind \in SourceKinds
  BY DEF Frame, SourceKinds
<1>2. PICK k \in 1 .. Len(p.route) : Follows(l, p, k) BY <1>1 DEF Frame
<1>3. /\ p.path \in Seq(Nodes) /\ p.elems \in Seq(Elements) /\ p.route \in Seq(Nodes) /\ p.len \in Int
  BY <1>1 DEF Packets
<1> DEFINE e == Len(p.elems)
<1>4. e \in Nat /\ e >= 2 /\ k \in Nat /\ k >= 1 /\ Len(p.route) \in Nat /\ Len(p.path) = 0
  BY <1>2, <1>3
<1>5. /\ p.route[k] = l[2]
      /\ \A j \in 1 .. e - 1 : p.elems[e - j + 1].next = p.route[k + Len(p.path) + j]
      /\ \A j \in 0 .. e - 1 : p.elems[e - j].owner = p.route[k + Len(p.path) + j]
      /\ CheckPacketLen(p)
      /\ k + Len(p.path) + e - 1 = Len(p.route)
  BY <1>2 DEF Follows
<1>6. Front(p.elems) \in Seq(Elements) /\ Len(Front(p.elems)) = e - 1
      /\ \A i \in 1 .. e - 1 : Front(p.elems)[i] = p.elems[i]
  BY <1>3, <1>4 DEF Front
<1>7. Last(p.elems) \in Elements /\ Last(p.elems) = p.elems[e] BY <1>3, <1>4 DEF Last
<1>a. Last(p.elems).next \in Nodes BY <1>7 DEF Elements
<1> HIDE DEF e
<1>8. /\ o.dest = p.elems[e].next /\ o.elems = Front(p.elems) /\ o.len = p.len - 1
      /\ o.src = p.src /\ o.kind = p.kind /\ o.path = p.path /\ o.route = p.route
  BY <1>1, <1>7 DEF Rest, Packets
<1>9. o \in Packets
  <2> DEFINE to == Last(p.elems).next
             rest == Front(p.elems)
             len == p.len - 1
  <2>1. to \in Nodes /\ rest \in Seq(Elements) /\ len \in Int BY <1>3, <1>6, <1>a
  <2>2. o = [p EXCEPT !.dest = to, !.elems = rest, !.len = len] BY DEF Rest
  <2> HIDE DEF to, rest, len
  <2> QED BY <1>1, <2>1, <2>2 DEF Packets
<1>10. Len(o.path) = 0 /\ Len(o.elems) = e - 1 /\ Len(p.route) = Len(o.route)
  BY <1>4, <1>6, <1>8
<1>11. o.dest = p.route[k + 1]
  <2>1. 1 \in 1 .. e - 1 /\ e - 1 + 1 = e /\ k + Len(p.path) + 1 = k + 1 BY <1>4
  <2>2. p.elems[e - 1 + 1].next = p.route[k + Len(p.path) + 1] BY <1>5, <2>1
  <2> QED BY <1>8, <2>1, <2>2
<1>12. k + 1 <= Len(p.route) BY <1>4, <1>5
<1>13. Follows(<<l[2], o.dest>>, o, k + 1)
  <2>1. ASSUME NEW j \in 1 .. Len(o.path)
        PROVE  o.path[Len(o.path) - j + 1] = o.route[k + 1 + j]
    BY <1>10
  <2>2. ASSUME NEW j \in 1 .. Len(o.elems) - 1
        PROVE  o.elems[Len(o.elems) - j + 1].next = o.route[k + 1 + Len(o.path) + j]
    <3>1. /\ e - 1 - j + 1 \in 1 .. e - 1 /\ j + 1 \in 1 .. e - 1
          /\ e - 1 - j + 1 = e - (j + 1) + 1
          /\ k + Len(p.path) + (j + 1) = k + 1 + 0 + j
      BY <1>4, <1>10
    <3>2. o.elems[e - 1 - j + 1] = p.elems[e - (j + 1) + 1] BY <1>6, <1>8, <3>1
    <3>3. p.elems[e - (j + 1) + 1].next = p.route[k + Len(p.path) + (j + 1)] BY <1>5, <3>1
    <3> QED BY <1>8, <1>10, <3>1, <3>2, <3>3
  <2>3. ASSUME NEW j \in 0 .. Len(o.elems) - 1
        PROVE  o.elems[Len(o.elems) - j].owner = o.route[k + 1 + Len(o.path) + j]
    <3>1. /\ e - 1 - j \in 1 .. e - 1 /\ j + 1 \in 0 .. e - 1
          /\ e - 1 - j = e - (j + 1)
          /\ k + Len(p.path) + (j + 1) = k + 1 + 0 + j
      BY <1>4, <1>10
    <3>2. o.elems[e - 1 - j] = p.elems[e - (j + 1)] BY <1>6, <1>8, <3>1
    <3>3. p.elems[e - (j + 1)].owner = p.route[k + Len(p.path) + (j + 1)] BY <1>5, <3>1
    <3> QED BY <1>8, <1>10, <3>1, <3>2, <3>3
  <2>4. CheckPacketLen(o)
    <3>1. p.len >= Len(p.path) + e BY <1>5 DEF CheckPacketLen, e
    <3>2. p.len - 1 >= 0 + (e - 1) BY <1>3, <1>4, <3>1
    <3> QED BY <1>8, <1>10, <3>2 DEF CheckPacketLen
  <2>5. k + 1 \in 1 .. Len(o.route) /\ o.route[k + 1] = o.dest
    BY <1>4, <1>8, <1>11, <1>12
  <2>6. l[2] = Before(o.route, k + 1) BY <1>4, <1>5, <1>8 DEF Before
  <2>7. k + 1 + 0 + (e - 1) - 1 = k + Len(p.path) + e - 1 /\ e - 1 >= 1 BY <1>4
  <2>8. Len(o.elems) >= 1 /\ k + 1 + Len(o.path) + Len(o.elems) - 1 = Len(o.route)
    BY <1>5, <1>8, <1>10, <2>7
  <2>9. o.kind = "MULT" BY <1>8
  <2> QED BY <2>1, <2>2, <2>3, <2>4, <2>5, <2>6, <2>8, <2>9 DEF Follows
<1>14. k + 1 \in 1 .. Len(o.route) BY <1>4, <1>8, <1>12
<1> QED BY <1>1, <1>8, <1>9, <1>13, <1>14 DEF Frame

LEMMA SentTo ==
  ASSUME NEW p \in Packets, NEW d \in Nodes
  PROVE  [p EXCEPT !.dest = d] \in Packets
BY DEF Packets

LEMMA AsPlain ==
  ASSUME NEW p \in Packets PROVE [p EXCEPT !.kind = "PLAIN", !.len = 0] \in Packets
<1> DEFINE kind == "PLAIN"
           len == 0
<1>1. kind \in SourceKinds \cup {"FLOW", "PLAIN"} /\ len \in Int OBVIOUS
<1> HIDE DEF kind, len
<1>2. [p EXCEPT !.kind = kind, !.len = len] \in Packets BY <1>1 DEF Packets
<1> QED BY <1>2 DEF kind, len

\* What goes by the tables carries no route any more.
LEMMA ByTablesFrame ==
  ASSUME NEW n \in Nodes, NEW p \in Packets, p.kind \in {"FLOW", "PLAIN"},
         p.kind = "FLOW" => p.src # Controller, p.kind = "PLAIN" => p.src = Controller,
         NEW o \in RoutedByTables(n, p)
  PROVE  /\ Frame(<<n, o.dest>>, o)
         /\ o.src = p.src /\ o.boot = p.boot /\ o.no = p.no /\ o.kind = p.kind
         /\ p.kind = "FLOW" => n # Controller /\ o.dest = Parent[n]
         /\ p.kind = "PLAIN" => <<n, p.real>> \in DOMAIN NextHop /\ o.dest = NextHop[n, p.real]
<1>1. \/ p.kind = "FLOW" /\ n # Controller /\ o = [p EXCEPT !.dest = Parent[n]]
      \/ /\ p.kind = "PLAIN" /\ <<n, p.real>> \in DOMAIN NextHop
         /\ o = [p EXCEPT !.dest = NextHop[n, p.real]]
  BY DEF RoutedByTables
<1>2. n # Controller => Parent[n] \in Nodes BY SourceRouteAssumption
<1>3. <<n, p.real>> \in DOMAIN NextHop => NextHop[n, p.real] \in Nodes BY SourceRouteAssumption
<1>4. PICK d \in Nodes : /\ o = [p EXCEPT !.dest = d]
                         /\ p.kind = "FLOW" => n # Controller /\ d = Parent[n]
                         /\ p.kind = "PLAIN" => <<n, p.real>> \in DOMAIN NextHop /\ d = NextHop[n, p.real]
  BY <1>1, <1>2, <1>3
<1>5. o \in Packets BY <1>4, SentTo
<1>6. o.src = p.src /\ o.boot = p.boot /\ o.no = p.no /\ o.kind = p.kind /\ o.dest = d
  BY <1>4 DEF Packets
<1>7. o.kind \notin SourceKinds BY <1>6 DEF SourceKinds
<1> QED BY <1>4, <1>5, <1>6, <1>7 DEF Frame

\* Wherever a node sends a packet on, it is still on its route, and it is the
\* same packet.
LEMMA OnwardFrame ==
  ASSUME NEW n \in Nodes, NEW l, l[2] = n, NEW p, Frame(l, p), NEW o \in Onward(n, p)
  PROVE  /\ Frame(<<n, o.dest>>, o)
         /\ o.src = p.src /\ o.boot = p.boot /\ o.no = p.no
         /\ \/ o.kind = "FLOW" /\ n # Controller /\ o.dest = Parent[n]
            \/ /\ o.kind = "PLAIN"
               /\ \E d : <<n, d>> \in DOMAIN NextHop /\ o.dest = NextHop[n, d]
            \/ o.kind \in SourceKinds
<1>1. p \in Packets /\ p.dest = l[2] BY DEF Frame
<1>2. p.kind = "FLOW" => p.src # Controller BY DEF Frame
<1>3. p.kind # "FLOW" => p.src = Controller BY DEF Frame
<1>4. CASE p.kind \in {"FLOW", "PLAIN"}
  <2>1. o \in RoutedByTables(n, p) BY <1>4 DEF Onward
  <2>2. /\ Frame(<<n, o.dest>>, o)
        /\ o.src = p.src /\ o.boot = p.boot /\ o.no = p.no /\ o.kind = p.kind
        /\ p.kind = "FLOW" => n # Controller /\ o.dest = Parent[n]
        /\ p.kind = "PLAIN" => <<n, p.real>> \in DOMAIN NextHop /\ o.dest = NextHop[n, p.real]
    BY <1>1, <1>2, <1>3, <1>4, <2>1, ByTablesFrame
  <2> QED BY <1>4, <2>2
<1>5. CASE p.kind \notin {"FLOW", "PLAIN"}
  <2>1. o \in RoutedBySource(n, p) BY <1>5 DEF Onward
  <2>2. p.kind \in SourceKinds BY <1>1, <1>5 DEF Packets
  <2>3. CASE p.path # <<>>
    <3>1. o = Advanced(p) BY <2>1, <2>3 DEF RoutedBySource
    <3>2. o.src = p.src /\ o.boot = p.boot /\ o.no = p.no /\ o.kind = p.kind
      BY <1>1, <3>1 DEF Advanced, Packets
    <3> QED BY <2>2, <2>3, <3>1, <3>2, AdvancedFrame
  <2>4. CASE p.path = <<>> /\ p.kind = "SETUP" /\ p.real # n
    <3> DEFINE q == [p EXCEPT !.kind = "PLAIN", !.len = 0]
    <3>1. o \in RoutedByTables(n, q) BY <2>1, <2>4 DEF RoutedBySource
    <3>2. "PLAIN" \in SourceKinds \cup {"FLOW", "PLAIN"} OBVIOUS
    <3>3. q \in Packets BY <1>1, AsPlain
    <3>4. q.kind = "PLAIN" /\ q.src = p.src /\ q.boot = p.boot /\ q.no = p.no
      BY <1>1 DEF Packets
    <3> HIDE DEF q
    <3>5. /\ q.kind \in {"FLOW", "PLAIN"}
          /\ q.kind = "FLOW" => q.src # Controller
          /\ q.kind = "PLAIN" => q.src = Controller
      BY <1>3, <2>4, <3>4
    <3>6. /\ Frame(<<n, o.dest>>, o)
          /\ o.src = q.src /\ o.boot = q.boot /\ o.no = q.no /\ o.kind = q.kind
          /\ q.kind = "PLAIN" => <<n, q.real>> \in DOMAIN NextHop /\ o.dest = NextHop[n, q.real]
      BY <3>1, <3>3, <3>5, ByTablesFrame
    <3> QED BY <3>4, <3>6
  <2>5. CASE p.path = <<>> /\ p.kind = "MULT" /\ Len(p.elems) > 1
    <3>1. o = Rest(p) BY <2>1, <2>5 DEF RoutedBySource
    <3>2. o.src = p.src /\ o.boot = p.boot /\ o.no = p.no /\ o.kind = p.kind
      BY <1>1, <3>1 DEF Rest, Packets
    <3> QED BY <2>2, <2>5, <3>1, <3>2, RestFrame
  <2> QED BY <2>1, <2>3, <2>4, <2>5 DEF RoutedBySource
<1> QED BY <1>4, <1>5

\* The last element of a setup for several nodes is the one of the node that
\* the packet came to.
LEMMA SetsOwn ==
  ASSUME NEW n \in Nodes, NEW l, l[2] = n, NEW p, Frame(l, p), NEW x \in Sets(n, p)
  PROVE  x[1] = x[2]
<1>1. p.kind = "MULT" /\ p.path = <<>> /\ x = <<n, Last(p.elems).owner>> BY DEF Sets
<1>2. p \in Packets /\ p.kind \in SourceKinds BY <1>1 DEF Frame, SourceKinds
<1>3. PICK k \in 1 .. Len(p.route) : Follows(l, p, k) BY <1>2 DEF Frame
<1>4. /\ p.route[k] = l[2] /\ Len(p.elems) >= 1
      /\ \A j \in 0 .. Len(p.elems) - 1 :
           p.elems[Len(p.elems) - j].owner = p.route[k + Len(p.path) + j]
  BY <1>1, <1>3 DEF Follows
<1>5. p.elems \in Seq(Elements) /\ Len(p.path) = 0 /\ k \in Nat /\ p.route \in Seq(Nodes)
  BY <1>1, <1>2 DEF Packets
<1>6. Len(p.elems) \in Nat /\ 0 \in 0 .. Len(p.elems) - 1 BY <1>4, <1>5
<1>7. p.elems[Len(p.elems) - 0].owner = p.route[k + Len(p.path) + 0] BY <1>4, <1>6
<1>8. Len(p.elems) - 0 = Len(p.elems) /\ k + Len(p.path) + 0 = k BY <1>5, <1>6
<1>9. Last(p.elems).owner = p.route[k] BY <1>7, <1>8 DEF Last
<1> QED BY <1>1, <1>4, <1>9

LEMMA Joined ==
  ASSUME NEW S, NEW s \in Seq(S), NEW t \in Seq(S)
  PROVE  \A i \in 1 .. Len(s) + Len(t) :
           (s \o t)[i] = IF i <= Len(s) THEN s[i] ELSE t[i - Len(s)]
  OBVIOUS

\* Element by element or by prefixes, OnRoute says the same.
LEMMA FollowsAhead ==
  ASSUME NEW l, NEW p \in Packets, p.dest = l[2], p.kind \in SourceKinds,
         NEW k \in 1 .. Len(p.route), Follows(l, p, k)
  PROVE  /\ k \in DOMAIN p.route
         /\ p.route[k] = l[2]
         /\ l[1] = IF k = 1 THEN Controller ELSE p.route[k - 1]
         /\ IsPrefix(Ahead(p), SubSeq(p.route, k, Len(p.route)))
         /\ CheckPacketLen(p)
         /\ Len(p.route) - 1 <= MaxPath => Len(Ahead(p)) = Len(p.route) - k + 1
<1>1. /\ p.path \in Seq(Nodes) /\ p.elems \in Seq(Elements) /\ p.route \in Seq(Nodes)
      /\ p.dest \in Nodes
  BY DEF Packets
<1> DEFINE m == Len(p.path)
           e == Len(p.elems)
           rest == IF e = 0 THEN 0 ELSE e - 1
           D == [i \in 1 .. e - 1 |-> p.elems[i + 1].next]
           B == Reverse(p.path)
           C == Reverse(D)
           A == <<p.dest>> \o B \o C
           t == SubSeq(p.route, k, Len(p.route))
<1>2. m \in Nat /\ e \in Nat /\ rest \in Nat /\ k \in Nat /\ k >= 1 /\ Len(p.route) \in Nat
      /\ k <= Len(p.route) /\ 1 .. e - 1 = 1 .. rest
  BY <1>1
<1>3. /\ p.route[k] = l[2] /\ l[1] = Before(p.route, k)
      /\ \A j \in 1 .. m : p.path[m - j + 1] = p.route[k + j]
      /\ \A j \in 1 .. e - 1 : p.elems[e - j + 1].next = p.route[k + m + j]
      /\ CheckPacketLen(p)
      /\ p.kind = "MULT" => e >= 1 /\ k + m + e - 1 = Len(p.route)
      /\ p.kind # "MULT" => /\ e = 0 /\ k + m <= Len(p.route)
                            /\ Len(p.route) - 1 <= MaxPath => k + m = Len(p.route)
  BY DEF Follows
<1>4. \A i \in 1 .. rest : p.elems[i + 1].next \in Nodes
  <2>1. ASSUME NEW i \in 1 .. rest PROVE p.elems[i + 1] \in Elements BY <1>1, <1>2
  <2> QED BY <2>1 DEF Elements
<1> HIDE DEF rest
<1>5. D \in Seq(Nodes) /\ Len(D) = rest
  <2>1. D \in [1 .. rest -> Nodes] BY <1>2, <1>4
  <2> HIDE DEF D
  <2> QED BY <1>2, <2>1
<1>6. \A i \in 1 .. rest : D[i] = p.elems[i + 1].next BY <1>2
<1> HIDE DEF D
<1>7. B \in Seq(Nodes) /\ Len(B) = m /\ \A i \in 1 .. m : B[i] = p.path[m - i + 1]
  BY <1>1, <1>2 DEF Reverse
<1>8. C \in Seq(Nodes) /\ Len(C) = rest /\ \A i \in 1 .. rest : C[i] = D[rest - i + 1]
  BY <1>2, <1>5 DEF Reverse
<1>9. Ahead(p) = A BY DEF Ahead, D
<1> HIDE DEF B, C, m, e
<1>10. /\ A \in Seq(Nodes) /\ Len(A) = 1 + m + rest
       /\ A[1] = p.dest
       /\ \A i \in 1 .. m : A[1 + i] = B[i]
       /\ \A i \in 1 .. rest : A[1 + m + i] = C[i]
  <2> DEFINE H == <<p.dest>> \o B
  <2>1. /\ H \in Seq(Nodes) /\ Len(H) = 1 + m /\ H[1] = p.dest
        /\ \A i \in 1 .. m : H[1 + i] = B[i]
    BY <1>1, <1>2, <1>7
  <2> HIDE DEF H
  <2>2. A = H \o C BY DEF H
  <2>3. /\ H \o C \in Seq(Nodes) /\ Len(H \o C) = 1 + m + rest
        /\ \A i \in 1 .. 1 + m : (H \o C)[i] = H[i]
        /\ \A i \in 1 .. rest : (H \o C)[1 + m + i] = C[i]
    <3>1. H \o C \in Seq(Nodes) /\ Len(H \o C) = Len(H) + Len(C) BY <1>8, <2>1
    <3>2. \A i \in 1 .. Len(H) + Len(C) :
            (H \o C)[i] = IF i <= Len(H) THEN H[i] ELSE C[i - Len(H)]
      BY <1>8, <2>1, Joined
    <3>3. Len(H) = 1 + m /\ Len(C) = rest /\ Len(H) + Len(C) = 1 + m + rest BY <1>2, <1>8, <2>1
    <3>4. ASSUME NEW i \in 1 .. rest PROVE (H \o C)[1 + m + i] = C[i]
      <4> DEFINE x == 1 + m + i
      <4>1. x \in 1 .. Len(H) + Len(C) /\ ~ (x <= Len(H)) /\ x - Len(H) = i
        BY <1>2, <3>3
      <4> HIDE DEF x
      <4>2. (H \o C)[x] = C[x - Len(H)] BY <3>2, <4>1
      <4> QED BY <4>1, <4>2 DEF x
    <3>5. ASSUME NEW i \in 1 .. 1 + m PROVE (H \o C)[i] = H[i]
      <4>1. i \in 1 .. Len(H) + Len(C) /\ i <= Len(H) BY <1>2, <3>3
      <4> QED BY <3>2, <4>1
    <3> QED BY <3>1, <3>3, <3>4, <3>5
  <2>4. \A i \in 1 .. m : 1 + i \in 1 .. 1 + m BY <1>2
  <2>5. 1 \in 1 .. 1 + m BY <1>2
  <2> QED BY <2>1, <2>2, <2>3, <2>4, <2>5
<1> HIDE DEF A
<1>11. k + m + rest <= Len(p.route) BY <1>2, <1>3 DEF rest
<1>12. ASSUME NEW i \in 1 .. 1 + m + rest PROVE A[i] = p.route[k + i - 1]
  <2>1. CASE i = 1
    <3>1. k + i - 1 = k BY <1>2, <2>1
    <3> QED BY <1>3, <1>10, <2>1, <3>1
  <2>2. CASE i \in 2 .. 1 + m
    <3>1. i - 1 \in 1 .. m /\ 1 + (i - 1) = i /\ k + (i - 1) = k + i - 1 BY <1>2, <2>2
    <3>2. A[1 + (i - 1)] = B[i - 1] BY <1>10, <3>1
    <3>3. B[i - 1] = p.path[m - (i - 1) + 1] BY <1>7, <3>1
    <3>4. p.path[m - (i - 1) + 1] = p.route[k + (i - 1)] BY <1>3, <3>1
    <3> QED BY <3>1, <3>2, <3>3, <3>4
  <2>3. CASE i \in 2 + m .. 1 + m + rest
    <3> DEFINE j == i - 1 - m
    <3>1. /\ j \in 1 .. rest /\ 1 + m + j = i /\ k + m + j = k + i - 1
          /\ rest - j + 1 \in 1 .. rest
      BY <1>2, <2>3
    <3>2. j \in 1 .. e - 1 /\ rest - j + 1 + 1 = e - j + 1 BY <1>2, <2>3 DEF rest
    <3> HIDE DEF j
    <3>3. A[1 + m + j] = C[j] BY <1>10, <3>1
    <3>4. C[j] = D[rest - j + 1] BY <1>8, <3>1
    <3>5. D[rest - j + 1] = p.elems[rest - j + 1 + 1].next BY <1>6, <3>1
    <3>6. p.elems[e - j + 1].next = p.route[k + m + j] BY <1>3, <3>2
    <3> QED BY <3>1, <3>2, <3>3, <3>4, <3>5, <3>6
  <2> QED BY <1>2, <2>1, <2>2, <2>3
<1>13. /\ t \in Seq(Nodes) /\ Len(t) = Len(p.route) - k + 1
       /\ \A i \in 1 .. Len(p.route) - k + 1 : t[i] = p.route[k + i - 1]
  BY <1>1, <1>2
<1> HIDE DEF t
<1>14. IsPrefix(A, t)
  <2>1. Len(A) \in Nat /\ Len(t) \in Nat /\ Len(A) <= Len(t) BY <1>2, <1>10, <1>11, <1>13
  <2>2. ASSUME NEW i \in 1 .. Len(A) PROVE A[i] = t[i]
    <3>1. i \in 1 .. 1 + m + rest BY <1>10
    <3>2. i \in 1 .. Len(p.route) - k + 1 BY <1>2, <1>11, <3>1
    <3> QED BY <1>12, <1>13, <3>1, <3>2
  <2>3. SubSeq(A, 1, Len(A)) = SubSeq(t, 1, Len(A)) BY <1>10, <1>13, <2>1, <2>2
  <2> QED BY <2>1, <2>3 DEF IsPrefix
<1>15. Len(p.route) - 1 <= MaxPath => Len(A) = Len(p.route) - k + 1
  <2>1. SUFFICES ASSUME Len(p.route) - 1 <= MaxPath PROVE 1 + m + rest = Len(p.route) - k + 1
    BY <1>10
  <2>2. CASE p.kind = "MULT"
    <3>1. e >= 1 /\ k + m + e - 1 = Len(p.route) BY <1>3, <2>2
    <3> QED BY <1>2, <3>1 DEF rest
  <2>3. CASE p.kind # "MULT"
    <3>1. e = 0 /\ k + m = Len(p.route) BY <1>3, <2>1, <2>3
    <3> QED BY <1>2, <3>1 DEF rest
  <2> QED BY <2>2, <2>3
<1>16. k \in DOMAIN p.route BY <1>1, <1>2
<1> QED BY <1>3, <1>9, <1>14, <1>15, <1>16 DEF t, Before

----------------------------------------------------------------------------
(* Links                                                                   *)

Air == [Links -> Seq(Packets)]

\* In b nothing is on a link that is not in a, and what is comes in the order
\* of a.
Thinned(b, a) ==
  \A l \in Links : \A i, j \in 1 .. Len(b[l]) : i <= j =>
    \E u, v \in 1 .. Len(a[l]) : u <= v /\ b[l][i] = a[l][u] /\ b[l][j] = a[l][v]

AllFrames(a) == \A l \in Links : \A i \in 1 .. Len(a[l]) : Frame(l, a[l][i])

LEMMA ThinnedFrames ==
  ASSUME NEW a \in Air, NEW b \in Air, Thinned(b, a), AllFrames(a)
  PROVE  AllFrames(b)
<1> SUFFICES ASSUME NEW l \in Links, NEW i \in 1 .. Len(b[l]) PROVE Frame(l, b[l][i])
  BY DEF AllFrames
<1>1. i <= i BY DEF Air
<1>2. PICK u \in 1 .. Len(a[l]) : b[l][i] = a[l][u] BY <1>1 DEF Thinned
<1> QED BY <1>2 DEF AllFrames

Taken(a, l) == [a EXCEPT ![l] = Tail(@)]

\* The first frame of a link leaves it.
LEMMA TakenOff ==
  ASSUME NEW a \in Air, NEW l \in Links, a[l] # <<>>, NEW b, b = Taken(a, l)
  PROVE  /\ b \in Air /\ Thinned(b, a)
         /\ Head(a[l]) = a[l][1] /\ 1 \in 1 .. Len(a[l])
         /\ Len(b[l]) = Len(a[l]) - 1
         /\ \A i \in 1 .. Len(b[l]) : b[l][i] = a[l][i + 1]
         /\ \A k \in Links \ {l} : b[k] = a[k]
<1>1. a[l] \in Seq(Packets) /\ Len(a[l]) \in Nat /\ Len(a[l]) >= 1 BY DEF Air
<1> DEFINE t == Tail(a[l])
<1>2. /\ t \in Seq(Packets) /\ Len(t) = Len(a[l]) - 1
      /\ \A i \in 1 .. Len(t) : t[i] = a[l][i + 1]
  BY <1>1
<1>3. Head(a[l]) = a[l][1] /\ 1 \in 1 .. Len(a[l]) BY <1>1
<1> HIDE DEF t
<1>4. b = [a EXCEPT ![l] = t] BY DEF t, Taken
<1>5. b \in Air /\ b[l] = t /\ \A k \in Links \ {l} : b[k] = a[k] BY <1>2, <1>4 DEF Air
<1>6. Thinned(b, a)
  <2> SUFFICES ASSUME NEW k \in Links, NEW i \in 1 .. Len(b[k]), NEW j \in 1 .. Len(b[k]), i <= j
               PROVE  \E u, v \in 1 .. Len(a[k]) : u <= v /\ b[k][i] = a[k][u] /\ b[k][j] = a[k][v]
    BY DEF Thinned
  <2>1. CASE k = l
    <3>1. i + 1 \in 1 .. Len(a[k]) /\ j + 1 \in 1 .. Len(a[k]) /\ i + 1 <= j + 1
      BY <1>1, <1>2, <1>5, <2>1
    <3>2. b[k][i] = a[k][i + 1] /\ b[k][j] = a[k][j + 1] BY <1>2, <1>5, <2>1
    <3> QED BY <3>1, <3>2
  <2>2. CASE k # l BY <1>5, <2>2
  <2> QED BY <2>1, <2>2
<1> QED BY <1>2, <1>3, <1>5, <1>6

\* It comes twice.
LEMMA ComesTwice ==
  ASSUME NEW a \in Air, NEW l \in Links, a[l] # <<>>,
         NEW b, b = [a EXCEPT ![l] = <<Head(@)>> \o @]
  PROVE  b \in Air /\ Thinned(b, a)
<1>1. a[l] \in Seq(Packets) /\ Len(a[l]) \in Nat /\ Len(a[l]) >= 1 BY DEF Air
<1> DEFINE t == <<Head(a[l])>> \o a[l]
<1>2. /\ t \in Seq(Packets) /\ Len(t) = Len(a[l]) + 1
      /\ \A i \in 1 .. Len(t) : t[i] = a[l][IF i = 1 THEN 1 ELSE i - 1]
  BY <1>1
<1> HIDE DEF t
<1>4. b = [a EXCEPT ![l] = t] BY DEF t
<1>5. b \in Air /\ b[l] = t /\ \A k \in Links \ {l} : b[k] = a[k] BY <1>2, <1>4 DEF Air
<1>6. Thinned(b, a)
  <2> SUFFICES ASSUME NEW k \in Links, NEW i \in 1 .. Len(b[k]), NEW j \in 1 .. Len(b[k]), i <= j
               PROVE  \E u, v \in 1 .. Len(a[k]) : u <= v /\ b[k][i] = a[k][u] /\ b[k][j] = a[k][v]
    BY DEF Thinned
  <2>1. CASE k = l
    <3> DEFINE u == IF i = 1 THEN 1 ELSE i - 1
               v == IF j = 1 THEN 1 ELSE j - 1
    <3>1. u \in 1 .. Len(a[k]) /\ v \in 1 .. Len(a[k]) /\ u <= v
      BY <1>1, <1>2, <1>5, <2>1
    <3>2. b[k][i] = a[k][u] /\ b[k][j] = a[k][v] BY <1>2, <1>5, <2>1
    <3> HIDE DEF u, v
    <3> QED BY <3>1, <3>2
  <2>2. CASE k # l BY <1>5, <2>2
  <2> QED BY <2>1, <2>2
<1> QED BY <1>5, <1>6

\* A frame is put at the end of its link, if there is one.
LEMMA PutFacts ==
  ASSUME NEW a \in Air, NEW n \in Nodes, NEW p \in Packets, NEW b, b = Put(n, p, a)
  PROVE  /\ b \in Air
         /\ \A k \in Links : k # <<n, p.dest>> => b[k] = a[k]
         /\ \A k \in Links : k = <<n, p.dest>> =>
              /\ Len(b[k]) = Len(a[k]) + 1 /\ b[k][Len(b[k])] = p
              /\ \A i \in 1 .. Len(a[k]) : b[k][i] = a[k][i]
<1>1. DOMAIN a = Links BY DEF Air
<1>2. CASE <<n, p.dest>> \notin Links BY <1>1, <1>2 DEF Put
<1>3. CASE <<n, p.dest>> \in Links
  <2> DEFINE k == <<n, p.dest>>
             t == Append(a[k], p)
  <2>1. b = [a EXCEPT ![k] = t] BY <1>1, <1>3 DEF Put
  <2>2. a[k] \in Seq(Packets) BY <1>3 DEF Air
  <2>3. /\ t \in Seq(Packets) /\ Len(t) = Len(a[k]) + 1 /\ t[Len(t)] = p
        /\ \A i \in 1 .. Len(a[k]) : t[i] = a[k][i]
    BY <2>2
  <2>4. k \in Links BY <1>3
  <2> HIDE DEF k, t
  <2>5. b \in Air /\ b[k] = t /\ \A h \in Links : h # k => b[h] = a[h]
    BY <2>1, <2>3, <2>4 DEF Air
  <2> QED BY <2>3, <2>5 DEF k
<1> QED BY <1>2, <1>3

LEMMA PutFrames ==
  ASSUME NEW a \in Air, NEW n \in Nodes, NEW p, Frame(<<n, p.dest>>, p), AllFrames(a),
         NEW b, b = Put(n, p, a)
  PROVE  b \in Air /\ AllFrames(b)
<1>1. p \in Packets BY DEF Frame
<1>2. /\ b \in Air
      /\ \A k \in Links : k # <<n, p.dest>> => b[k] = a[k]
      /\ \A k \in Links : k = <<n, p.dest>> =>
           /\ Len(b[k]) = Len(a[k]) + 1 /\ b[k][Len(b[k])] = p
           /\ \A i \in 1 .. Len(a[k]) : b[k][i] = a[k][i]
  BY <1>1, PutFacts
<1>3. ASSUME NEW k \in Links, NEW i \in 1 .. Len(b[k]) PROVE Frame(k, b[k][i])
  <2>1. CASE k # <<n, p.dest>> BY <1>2, <2>1 DEF AllFrames
  <2>2. CASE k = <<n, p.dest>> /\ i = Len(b[k]) BY <1>2, <2>2
  <2>3. CASE k = <<n, p.dest>> /\ i # Len(b[k])
    <3>1. Len(a[k]) \in Nat BY DEF Air
    <3>2. i \in 1 .. Len(a[k]) BY <1>2, <2>3, <3>1
    <3> QED BY <1>2, <2>3, <3>2 DEF AllFrames
  <2> QED BY <2>1, <2>2, <2>3
<1> QED BY <1>2, <1>3 DEF AllFrames

----------------------------------------------------------------------------
(* Routes are followed                                                     *)

Counts == sent \in [Nodes -> Nat] /\ boot \in [Nodes -> Nat]

RouteInv == air \in Air /\ Counts /\ AllFrames(air) /\ ElementsAtOwners

LEMMA RouteInit == Init => RouteInv
<1> SUFFICES ASSUME Init PROVE RouteInv OBVIOUS
<1>1. air = [l \in Links |-> <<>>] /\ \A l \in Links : Len(air[l]) = 0 BY DEF Init
<1>2. air \in Air BY <1>1 DEF Air
<1>3. AllFrames(air) BY <1>1 DEF AllFrames
<1> QED BY <1>2, <1>3 DEF RouteInv, Counts, Init, ElementsAtOwners

\* What is accepted is on its route afterwards, and so are its elements.
LEMMA RouteAccept ==
  ASSUME RouteInv, NEW l \in Links, Accept(l)
  PROVE  air' \in Air /\ AllFrames(air') /\ ElementsAtOwners'
<1> DEFINE n == l[2]
           p == Head(air[l])
           q == [p EXCEPT !.thl = @ - 1]
           taken == Taken(air, l)
<1>1. /\ air[l] # <<>>
      /\ air' = taken \/ \E o \in Onward(n, q) : air' = Put(n, o, taken)
      /\ set' = set \cup Sets(n, q)
  BY DEF Accept, Taken
<1>2. n \in Nodes BY SourceRouteAssumption
<1>3. /\ taken \in Air /\ Thinned(taken, air) /\ p = air[l][1] /\ 1 \in 1 .. Len(air[l])
  BY <1>1, TakenOff DEF RouteInv
<1> HIDE DEF taken
<1>4. AllFrames(taken) BY <1>3, ThinnedFrames DEF RouteInv
<1>5. Frame(l, p) BY <1>3 DEF RouteInv, AllFrames
<1> HIDE DEF p
<1>6. Frame(l, q) BY <1>5, HopFrame
<1> HIDE DEF q
<1>7. air' \in Air /\ AllFrames(air')
  <2>1. CASE air' = taken BY <1>3, <1>4, <2>1
  <2>2. CASE \E o \in Onward(n, q) : air' = Put(n, o, taken)
    <3>1. PICK o \in Onward(n, q) : air' = Put(n, o, taken) BY <2>2
    <3>2. Frame(<<n, o.dest>>, o) BY <1>2, <1>6, OnwardFrame
    <3> QED BY <1>2, <1>3, <1>4, <3>1, <3>2, PutFrames
  <2> QED BY <1>1, <2>1, <2>2
<1>8. \A x \in Sets(n, q) : x[1] = x[2] BY <1>2, <1>6, SetsOwn
<1>9. ElementsAtOwners' BY <1>1, <1>8 DEF ElementsAtOwners, RouteInv
<1> QED BY <1>7, <1>9

\* What one of the nodes sends is put on a link, and only there.
LEMMA RouteSend ==
  ASSUME RouteInv, NEW n \in Nodes, NEW p, Frame(<<n, p.dest>>, p), air' = Put(n, p, air),
         sent' = [sent EXCEPT ![n] = @ + 1], UNCHANGED <<boot, set>>
  PROVE  RouteInv'
<1>1. air' \in Air /\ AllFrames(air') BY PutFrames DEF RouteInv
<1>2. Counts' BY DEF RouteInv, Counts
<1>3. ElementsAtOwners' BY DEF RouteInv, ElementsAtOwners
<1> QED BY <1>1, <1>2, <1>3 DEF RouteInv

\* What Report sends is no packet with a route.
LEMMA ReportFrame ==
  ASSUME NEW n \in Nodes, n # Controller, boot[n] \in Nat, sent[n] \in Nat,
         NEW p, p = Packet(n, "FLOW", Parent[n], Controller, <<>>, <<>>, <<>>)
  PROVE  /\ Frame(<<n, p.dest>>, p) /\ p.dest = Parent[n] /\ p.kind = "FLOW"
         /\ p.src = n /\ p.boot = boot[n] /\ p.no = sent[n]
<1>1. /\ Parent[n] \in Nodes /\ Controller \in Nodes /\ <<>> \in Seq(Nodes) /\ <<>> \in Seq(Elements)
      /\ "FLOW" \in SourceKinds \cup {"FLOW", "PLAIN"}
  BY SourceRouteAssumption
<1>2. Packet(n, "FLOW", Parent[n], Controller, <<>>, <<>>, <<>>) \in Packets BY <1>1, PacketMade
<1>3. /\ p.dest = Parent[n] /\ p.kind = "FLOW" /\ p.src = n /\ p.boot = boot[n] /\ p.no = sent[n]
  BY DEF Packet
<1>4. p.kind \notin SourceKinds BY <1>3 DEF SourceKinds
<1> QED BY <1>2, <1>3, <1>4 DEF Frame

LEMMA RouteNext == RouteInv /\ [Next]_vars => RouteInv'
<1> SUFFICES ASSUME RouteInv, [Next]_vars PROVE RouteInv' OBVIOUS
<1>1. boot[Controller] \in Nat /\ sent[Controller] \in Nat /\ Controller \in Nodes
  BY SourceRouteAssumption DEF RouteInv, Counts
<1>2. ASSUME NEW d \in Nodes, NEW r \in RoutesTo(d), NEW kind \in SourceKinds \ {"MULT"},
             SendAlong(kind, d, r)
      PROVE  RouteInv'
  <2>1. /\ air' = Put(Controller, SourceRouted(kind, r), air)
        /\ sent' = [sent EXCEPT ![Controller] = @ + 1] /\ UNCHANGED <<boot, set>>
    BY <1>2 DEF SendAlong
  <2>2. Frame(<<Controller, SourceRouted(kind, r).dest>>, SourceRouted(kind, r))
    BY <1>1, SourceRoutedFrame
  <2> QED BY <1>1, <2>1, <2>2, RouteSend
<1>3. ASSUME NEW d \in Nodes, NEW r \in RoutesTo(d), NEW k \in 2 .. Cardinality(Nodes),
             SendMult(d, r, k)
      PROVE  RouteInv'
  <2>1. /\ k \in 2 .. Len(r) - 1 /\ Len(r) - k - 1 <= MaxPath
        /\ air' = Put(Controller, ForSeveral(r, k), air)
        /\ sent' = [sent EXCEPT ![Controller] = @ + 1] /\ UNCHANGED <<boot, set>>
    BY <1>3 DEF SendMult
  <2>2. Frame(<<Controller, ForSeveral(r, k).dest>>, ForSeveral(r, k))
    BY <1>1, <2>1, MultFrame
  <2> QED BY <1>1, <2>1, <2>2, RouteSend
<1>4. ASSUME NEW n \in Nodes, Report(n) PROVE RouteInv'
  <2> DEFINE p == Packet(n, "FLOW", Parent[n], Controller, <<>>, <<>>, <<>>)
  <2>1. /\ n # Controller /\ air' = Put(n, p, air)
        /\ sent' = [sent EXCEPT ![n] = @ + 1] /\ UNCHANGED <<boot, set>>
    BY <1>4 DEF Report
  <2>2. boot[n] \in Nat /\ sent[n] \in Nat BY DEF RouteInv, Counts
  <2>3. Frame(<<n, p.dest>>, p) BY <2>1, <2>2, ReportFrame
  <2> HIDE DEF p
  <2> QED BY <2>1, <2>3, RouteSend
<1>5. ASSUME NEW n \in Nodes, Restart(n) PROVE RouteInv'
  BY <1>5 DEF Restart, RouteInv, Counts, ElementsAtOwners
<1>6. ASSUME NEW l \in Links, Accept(l) PROVE RouteInv'
  <2>1. Counts' BY <1>6 DEF Accept, RouteInv, Counts
  <2> QED BY <1>6, <2>1, RouteAccept DEF RouteInv
<1>7. ASSUME NEW l \in Links, Discard(l) \/ Lose(l) PROVE RouteInv'
  <2>1. air[l] # <<>> /\ air' = Taken(air, l) /\ UNCHANGED <<sent, boot, set>>
    BY <1>7 DEF Discard, Lose, Taken
  <2>2. air' \in Air /\ Thinned(air', air) BY <2>1, TakenOff DEF RouteInv
  <2>3. AllFrames(air') BY <2>2, ThinnedFrames DEF RouteInv
  <2> QED BY <2>1, <2>2, <2>3 DEF RouteInv, Counts, ElementsAtOwners
<1>8. ASSUME NEW l \in Links, Repeat(l) PROVE RouteInv'
  <2>1. /\ air[l] # <<>> /\ air' = [air EXCEPT ![l] = <<Head(@)>> \o @]
        /\ UNCHANGED <<sent, boot, set>>
    BY <1>8 DEF Repeat
  <2>2. air' \in Air /\ Thinned(air', air) BY <2>1, ComesTwice DEF RouteInv
  <2>3. AllFrames(air') BY <2>2, ThinnedFrames DEF RouteInv
  <2> QED BY <2>1, <2>2, <2>3 DEF RouteInv, Counts, ElementsAtOwners
<1>9. CASE UNCHANGED vars BY <1>9 DEF vars, RouteInv, Counts, ElementsAtOwners
<1>10. ASSUME NEW d \in Nodes, NEW r \in RoutesTo(d), SendSetup(d, r) \/ SendAck(d, r) \/ SendMngt(d, r)
       PROVE  RouteInv'
  <2>1. {"SETUP", "ACK", "MNGT"} \subseteq SourceKinds \ {"MULT"} BY DEF SourceKinds
  <2> QED BY <1>2, <1>10, <2>1 DEF SendSetup, SendAck, SendMngt
<1> QED BY <1>3, <1>4, <1>5, <1>6, <1>7, <1>8, <1>9, <1>10 DEF Next

LEMMA RouteHolds == RouteInv => RouteIsFollowed
<1> SUFFICES ASSUME RouteInv PROVE OnRoute BY DEF RouteIsFollowed, RouteInv
<1>1. ASSUME NEW l \in Links, NEW i \in DOMAIN air[l], air[l][i].kind \in SourceKinds
      PROVE  \E k \in DOMAIN air[l][i].route :
               /\ air[l][i].route[k] = l[2]
               /\ l[1] = IF k = 1 THEN Controller ELSE air[l][i].route[k - 1]
               /\ IsPrefix(Ahead(air[l][i]), SubSeq(air[l][i].route, k, Len(air[l][i].route)))
               /\ CheckPacketLen(air[l][i])
               /\ Len(air[l][i].route) - 1 <= MaxPath =>
                    Len(Ahead(air[l][i])) = Len(air[l][i].route) - k + 1
  <2> DEFINE p == air[l][i]
  <2>1. i \in 1 .. Len(air[l]) BY DEF RouteInv, Air
  <2>2. Frame(l, p) BY <2>1 DEF RouteInv, AllFrames
  <2>3. p.kind \in SourceKinds BY <1>1
  <2> HIDE DEF p
  <2>4. PICK k \in 1 .. Len(p.route) : Follows(l, p, k) BY <2>2, <2>3 DEF Frame
  <2>5. p \in Packets /\ p.dest = l[2] BY <2>2 DEF Frame
  <2>6. /\ k \in DOMAIN p.route
        /\ p.route[k] = l[2]
        /\ l[1] = IF k = 1 THEN Controller ELSE p.route[k - 1]
        /\ IsPrefix(Ahead(p), SubSeq(p.route, k, Len(p.route)))
        /\ CheckPacketLen(p)
        /\ Len(p.route) - 1 <= MaxPath => Len(Ahead(p)) = Len(p.route) - k + 1
    BY <2>3, <2>4, <2>5, FollowsAhead
  <2> QED BY <2>6 DEF p
<1> QED BY <1>1 DEF OnRoute, SourceKinds

\* Packets routed by their source, and setups for several nodes, go where the
\* controller's digraph led, for every set of links and routes, and whatever is
\* lost, repeated or restarted (send_src_rtd_... of the controller and
\* treat_src_routed_..., treat_mult_... of the nodes agree about the addresses).
THEOREM RouteFollowed == Spec => []RouteIsFollowed
<1>1. Spec => []RouteInv BY RouteInit, RouteNext, PTL DEF Spec
<1> QED BY <1>1, RouteHolds, PTL

----------------------------------------------------------------------------
(* The order of a sender's packets                                         *)

\* x was made before y, or they are the same.
NotAfter(x, y) == x.boot < y.boot \/ (x.boot = y.boot /\ x.no <= y.no)

\* The links of S over which what is on link k came to it: k, and with every
\* link those that lead to where it starts.
Above(S, k) ==
  {l \in S : \A B \in SUBSET S :
     k \in B /\ (\A h \in B : \A g \in S : g[2] = h[1] => g \in B) => l \in B}

LEMMA AboveSelf == ASSUME NEW S, NEW k \in S PROVE k \in Above(S, k)
BY DEF Above

LEMMA AboveUp ==
  ASSUME NEW S, NEW k \in S, NEW h \in Above(S, k), NEW g \in S, g[2] = h[1]
  PROVE  g \in Above(S, k)
<1> SUFFICES ASSUME NEW B \in SUBSET S, k \in B,
                    \A x \in B : \A y \in S : y[2] = x[1] => y \in B
             PROVE  g \in B
  BY DEF Above
<1>1. h \in B BY DEF Above
<1> QED BY <1>1

\* Only one link leads to where k starts: l.
LEMMA AboveFirst ==
  ASSUME NEW S, NEW k \in S, NEW l \in S, l[2] = k[1],
         \A x, y \in S : x[2] = y[2] => x = y, NEW g \in Above(S, k)
  PROVE  g = k \/ g \in Above(S, l)
<1> DEFINE B == {k} \cup Above(S, l)
<1>1. B \in SUBSET S BY DEF Above
<1>2. ASSUME NEW h \in B, NEW x \in S, x[2] = h[1] PROVE x \in B
  <2>1. CASE h = k BY <1>2, <2>1, AboveSelf
  <2>2. CASE h \in Above(S, l) BY <1>2, <2>2, AboveUp
  <2> QED BY <2>1, <2>2
<1>3. k \in B OBVIOUS
<1> HIDE DEF B
<1>4. g \in B BY <1>1, <1>2, <1>3 DEF Above
<1> QED BY <1>4 DEF B

\* None does.
LEMMA AboveNone ==
  ASSUME NEW S, NEW k \in S, \A x \in S : x[2] # k[1], NEW g \in Above(S, k)
  PROVE  g = k
<1>1. {k} \in SUBSET S OBVIOUS
<1>2. \A h \in {k} : \A x \in S : x[2] = h[1] => x \in {k} OBVIOUS
<1> QED BY <1>1, <1>2 DEF Above

\* What is above starts no farther away.
LEMMA AboveNearer ==
  ASSUME NEW S, S \subseteq Nodes \X Nodes, NEW hops \in [Nodes -> Nat],
         \A x \in S : hops[x[1]] < hops[x[2]], NEW k \in S, NEW g \in Above(S, k)
  PROVE  hops[g[1]] <= hops[k[1]]
<1> DEFINE B == {x \in S : hops[x[1]] <= hops[k[1]]}
<1>1. \A x \in S : hops[x[1]] \in Nat /\ hops[x[2]] \in Nat OBVIOUS
<1>2. k \in B BY <1>1
<1>3. ASSUME NEW h \in B, NEW x \in S, x[2] = h[1] PROVE x \in B
  <2>1. hops[x[1]] < hops[h[1]] /\ hops[h[1]] <= hops[k[1]] BY <1>3
  <2> QED BY <1>1, <2>1
<1>4. B \in SUBSET S OBVIOUS
<1> HIDE DEF B
<1>5. g \in B BY <1>2, <1>3, <1>4 DEF Above
<1> QED BY <1>5 DEF B

Frames(a, s, l) == {a[l][i] : i \in {j \in 1 .. Len(a[l]) : a[l][j].src = s}}

\* The frames of each sender are in the order they were made, on every link and
\* from every link to those behind it; and what a node accepted of a sender was
\* made before all that is still on its way there.
Ordered(C, a, acc) ==
  \A s \in Nodes : MaxSent[s] > 0 => \A k \in C[s] :
    /\ \A i, j \in 1 .. Len(a[k]) :
         i <= j /\ a[k][i].src = s /\ a[k][j].src = s => NotAfter(a[k][i], a[k][j])
    /\ \A l \in Above(C[s], k) \ {k} : \A p \in Frames(a, s, k) : \A q \in Frames(a, s, l) :
         NotAfter(p, q)
    /\ \A x \in acc : x[1] = k[2] /\ x[2].src = s =>
         \A l \in Above(C[s], k) : \A q \in Frames(a, s, l) : NotAfter(x[2], q)

LEMMA FramesThinned ==
  ASSUME NEW a \in Air, NEW b \in Air, Thinned(b, a), NEW s, NEW l \in Links
  PROVE  Frames(b, s, l) \subseteq Frames(a, s, l)
<1> SUFFICES ASSUME NEW i \in 1 .. Len(b[l]), b[l][i].src = s PROVE b[l][i] \in Frames(a, s, l)
  BY DEF Frames
<1>1. i <= i BY DEF Air
<1>2. PICK u \in 1 .. Len(a[l]) : b[l][i] = a[l][u] BY <1>1 DEF Thinned
<1> QED BY <1>2 DEF Frames

LEMMA OrderThinned ==
  ASSUME NEW C \in [Nodes -> SUBSET Links], NEW a \in Air, NEW b \in Air, Thinned(b, a),
         NEW acc, NEW less, less \subseteq acc, Ordered(C, a, acc)
  PROVE  Ordered(C, b, less)
<1> SUFFICES ASSUME NEW s \in Nodes, MaxSent[s] > 0, NEW k \in C[s]
             PROVE  /\ \A i, j \in 1 .. Len(b[k]) :
                         i <= j /\ b[k][i].src = s /\ b[k][j].src = s => NotAfter(b[k][i], b[k][j])
                    /\ \A l \in Above(C[s], k) \ {k} :
                         \A p \in Frames(b, s, k) : \A q \in Frames(b, s, l) : NotAfter(p, q)
                    /\ \A x \in less : x[1] = k[2] /\ x[2].src = s =>
                         \A l \in Above(C[s], k) : \A q \in Frames(b, s, l) : NotAfter(x[2], q)
  BY DEF Ordered
<1>1. C[s] \subseteq Links /\ Above(C[s], k) \subseteq Links BY DEF Above
<1>2. \A l \in Links : Frames(b, s, l) \subseteq Frames(a, s, l) BY FramesThinned
<1>3. /\ \A i, j \in 1 .. Len(a[k]) :
           i <= j /\ a[k][i].src = s /\ a[k][j].src = s => NotAfter(a[k][i], a[k][j])
      /\ \A l \in Above(C[s], k) \ {k} :
           \A p \in Frames(a, s, k) : \A q \in Frames(a, s, l) : NotAfter(p, q)
      /\ \A x \in acc : x[1] = k[2] /\ x[2].src = s =>
           \A l \in Above(C[s], k) : \A q \in Frames(a, s, l) : NotAfter(x[2], q)
  BY DEF Ordered
<1>4. ASSUME NEW i \in 1 .. Len(b[k]), NEW j \in 1 .. Len(b[k]), i <= j,
             b[k][i].src = s, b[k][j].src = s
      PROVE  NotAfter(b[k][i], b[k][j])
  <2>1. PICK u, v \in 1 .. Len(a[k]) : u <= v /\ b[k][i] = a[k][u] /\ b[k][j] = a[k][v]
    BY <1>1, <1>4 DEF Thinned
  <2> QED BY <1>3, <1>4, <2>1
<1>5. ASSUME NEW l \in Above(C[s], k) \ {k}, NEW p \in Frames(b, s, k), NEW q \in Frames(b, s, l)
      PROVE  NotAfter(p, q)
  BY <1>1, <1>2, <1>3
<1>6. ASSUME NEW x \in less, x[1] = k[2], x[2].src = s, NEW l \in Above(C[s], k),
             NEW q \in Frames(b, s, l)
      PROVE  NotAfter(x[2], q)
  BY <1>1, <1>2, <1>3, <1>6
<1> QED BY <1>4, <1>5, <1>6

LEMMA OrderAccepted ==
  ASSUME NEW C, NEW a, NEW acc, NEW n, NEW m, Ordered(C, a, acc),
         \A k \in C[m.src] : k[2] = n =>
           \A l \in Above(C[m.src], k) : \A q \in Frames(a, m.src, l) : NotAfter(m, q),
         NEW more, more = acc \cup {<<n, m>>}
  PROVE  Ordered(C, a, more)
<1> SUFFICES ASSUME NEW s \in Nodes, MaxSent[s] > 0, NEW k \in C[s],
                    NEW x \in more, x[1] = k[2], x[2].src = s,
                    NEW l \in Above(C[s], k), NEW q \in Frames(a, s, l)
             PROVE  NotAfter(x[2], q)
  BY DEF Ordered
<1>1. CASE x \in acc BY <1>1 DEF Ordered
<1>2. CASE x = <<n, m>> BY <1>2
<1> QED BY <1>1, <1>2

LEMMA PutHere ==
  ASSUME NEW a \in Air, NEW n \in Nodes, NEW p \in Packets, NEW b, b = Put(n, p, a),
         NEW l \in Links
  PROVE  /\ l # <<n, p.dest>> => b[l] = a[l]
         /\ l = <<n, p.dest>> =>
              /\ Len(b[l]) = Len(a[l]) + 1 /\ b[l][Len(b[l])] = p
              /\ \A i \in 1 .. Len(a[l]) : b[l][i] = a[l][i]
BY PutFacts

LEMMA FramesPut ==
  ASSUME NEW a \in Air, NEW n \in Nodes, NEW p \in Packets, NEW b, b = Put(n, p, a),
         NEW s, NEW l \in Links, NEW q \in Frames(b, s, l)
  PROVE  q \in Frames(a, s, l) \/ (q = p /\ p.src = s /\ l = <<n, p.dest>>)
<1>1. PICK i \in 1 .. Len(b[l]) : q = b[l][i] /\ b[l][i].src = s BY DEF Frames
<1>2. /\ l # <<n, p.dest>> => b[l] = a[l]
      /\ l = <<n, p.dest>> =>
           /\ Len(b[l]) = Len(a[l]) + 1 /\ b[l][Len(b[l])] = p
           /\ \A j \in 1 .. Len(a[l]) : b[l][j] = a[l][j]
  BY PutHere
<1>3. CASE l # <<n, p.dest>> BY <1>1, <1>2, <1>3 DEF Frames
<1>4. CASE l = <<n, p.dest>> /\ i = Len(b[l]) BY <1>1, <1>2, <1>4
<1>5. CASE l = <<n, p.dest>> /\ i # Len(b[l])
  <2>1. Len(a[l]) \in Nat BY DEF Air
  <2>2. i \in 1 .. Len(a[l]) BY <1>2, <1>5, <2>1
  <2> QED BY <1>1, <1>2, <1>5, <2>2 DEF Frames
<1> QED BY <1>3, <1>4, <1>5

\* A frame that is not before what is behind it, nor after what is ahead of it
\* (above), may be put on a link.
LEMMA OrderPut ==
  ASSUME NEW C \in [Nodes -> SUBSET Links], NEW a \in Air, NEW acc, Ordered(C, a, acc),
         NEW n \in Nodes, NEW p \in Packets, NEW k, k = <<n, p.dest>>,
         k \in C[p.src] =>
           /\ \A l \in Above(C[p.src], k) \ {k} : \A q \in Frames(a, p.src, l) : NotAfter(p, q)
           /\ \A h \in C[p.src] : k \in Above(C[p.src], h) =>
                /\ \A q \in Frames(a, p.src, h) : NotAfter(q, p)
                /\ \A x \in acc : x[1] = h[2] /\ x[2].src = p.src => NotAfter(x[2], p),
         NEW b, b = Put(n, p, a)
  PROVE  Ordered(C, b, acc)
<1> SUFFICES ASSUME NEW s \in Nodes, MaxSent[s] > 0, NEW g \in C[s]
             PROVE  /\ \A i, j \in 1 .. Len(b[g]) :
                         i <= j /\ b[g][i].src = s /\ b[g][j].src = s => NotAfter(b[g][i], b[g][j])
                    /\ \A l \in Above(C[s], g) \ {g} :
                         \A o \in Frames(b, s, g) : \A q \in Frames(b, s, l) : NotAfter(o, q)
                    /\ \A x \in acc : x[1] = g[2] /\ x[2].src = s =>
                         \A l \in Above(C[s], g) : \A q \in Frames(b, s, l) : NotAfter(x[2], q)
  BY DEF Ordered
<1>1. C[s] \subseteq Links /\ Above(C[s], g) \subseteq C[s] /\ g \in Links BY DEF Above
<1>2. /\ \A i, j \in 1 .. Len(a[g]) :
           i <= j /\ a[g][i].src = s /\ a[g][j].src = s => NotAfter(a[g][i], a[g][j])
      /\ \A l \in Above(C[s], g) \ {g} :
           \A o \in Frames(a, s, g) : \A q \in Frames(a, s, l) : NotAfter(o, q)
      /\ \A x \in acc : x[1] = g[2] /\ x[2].src = s =>
           \A l \in Above(C[s], g) : \A q \in Frames(a, s, l) : NotAfter(x[2], q)
  BY DEF Ordered
<1>3. \A l \in Links : \A q \in Frames(b, s, l) :
        q \in Frames(a, s, l) \/ (q = p /\ p.src = s /\ l = k)
  BY FramesPut
<1>4. ASSUME NEW i \in 1 .. Len(b[g]), NEW j \in 1 .. Len(b[g]), i <= j,
             b[g][i].src = s, b[g][j].src = s
      PROVE  NotAfter(b[g][i], b[g][j])
  <2>1. CASE g # k
    <3>1. b[g] = a[g] BY <1>1, <2>1, PutFacts
    <3> QED BY <1>2, <1>4, <3>1
  <2>2. CASE g = k
    <3>1. /\ Len(b[g]) = Len(a[g]) + 1 /\ b[g][Len(b[g])] = p
          /\ \A u \in 1 .. Len(a[g]) : b[g][u] = a[g][u]
      <4>1. /\ g # <<n, p.dest>> => b[g] = a[g]
            /\ g = <<n, p.dest>> =>
                 /\ Len(b[g]) = Len(a[g]) + 1 /\ b[g][Len(b[g])] = p
                 /\ \A u \in 1 .. Len(a[g]) : b[g][u] = a[g][u]
        BY <1>1, PutHere
      <4> QED BY <2>2, <4>1
    <3>2. Len(a[g]) \in Nat BY <1>1 DEF Air
    <3>3. CASE j # Len(b[g])
      <4>1. i \in 1 .. Len(a[g]) /\ j \in 1 .. Len(a[g]) BY <1>4, <3>1, <3>2, <3>3
      <4> QED BY <1>2, <1>4, <3>1, <4>1
    <3>4. CASE j = Len(b[g]) /\ i # Len(b[g])
      <4>1. i \in 1 .. Len(a[g]) BY <3>1, <3>2, <3>4
      <4>2. b[g][i] \in Frames(a, s, g) BY <1>4, <3>1, <4>1 DEF Frames
      <4>3. p.src = s /\ b[g][j] = p BY <1>4, <3>1, <3>4
      <4>4. g \in Above(C[p.src], g) BY <4>3, AboveSelf
      <4> QED BY <2>2, <4>2, <4>3, <4>4
    <3>5. CASE j = Len(b[g]) /\ i = Len(b[g])
      <4>1. b[g][i] = p /\ b[g][j] = p BY <3>1, <3>5
      <4> QED BY <4>1 DEF NotAfter, Packets
    <3> QED BY <3>3, <3>4, <3>5
  <2> QED BY <2>1, <2>2
<1>5. ASSUME NEW l \in Above(C[s], g) \ {g}, NEW o \in Frames(b, s, g), NEW q \in Frames(b, s, l)
      PROVE  NotAfter(o, q)
  <2>1. l \in Links /\ l \in C[s] /\ l # g BY <1>1
  <2>2. o \in Frames(a, s, g) \/ (o = p /\ p.src = s /\ g = k) BY <1>1, <1>3
  <2>3. q \in Frames(a, s, l) \/ (q = p /\ p.src = s /\ l = k) BY <1>3, <2>1
  <2>4. CASE o \in Frames(a, s, g) /\ q \in Frames(a, s, l) BY <1>2, <2>4
  <2>5. CASE o = p /\ p.src = s /\ g = k
    <3>1. q \in Frames(a, p.src, l) BY <2>1, <2>3, <2>5
    <3> QED BY <2>5, <3>1
  <2>6. CASE o \in Frames(a, s, g) /\ q = p /\ p.src = s /\ l = k
    BY <2>1, <2>6
  <2> QED BY <2>2, <2>3, <2>4, <2>5, <2>6
<1>6. ASSUME NEW x \in acc, x[1] = g[2], x[2].src = s, NEW l \in Above(C[s], g),
             NEW q \in Frames(b, s, l)
      PROVE  NotAfter(x[2], q)
  <2>1. l \in Links /\ l \in C[s] BY <1>1
  <2>2. q \in Frames(a, s, l) \/ (q = p /\ p.src = s /\ l = k) BY <1>3, <2>1
  <2> QED BY <1>2, <1>6, <2>1, <2>2
<1> QED BY <1>4, <1>5, <1>6

----------------------------------------------------------------------------
(* Each sender has one way                                                 *)

Names == [src : Nodes, boot : Nat, no : Nat]

\* p is a packet that its source sent, in this life or an earlier one.
Past(p, b, c) ==
  /\ MaxSent[p.src] > 0
  /\ p.boot < b[p.src] \/ (p.boot = b[p.src] /\ p.no < c[p.src])

\* Frames are on the links of their source's way, or return to it.
AllSent(C, a, b, c) ==
  \A l \in Links : \A i \in 1 .. Len(a[l]) :
    Past(a[l][i], b, c) /\ (l \in C[a[l][i].src] \/ l[2] = a[l][i].src)

HeardFrom(C, acc, b, c) ==
  /\ acc \subseteq Nodes \X Names
  /\ \A x \in acc : /\ Past(x[2], b, c) /\ x[1] # x[2].src
                    /\ \E l \in C[x[2].src] : l[2] = x[1]

WayInv(C) ==
  /\ RouteInv
  /\ AllSent(C, air, boot, sent)
  /\ HeardFrom(C, accepted, boot, sent)
  /\ Ordered(C, air, accepted)

\* OneWay, one sender at a time.
LEMMA WayFacts ==
  ASSUME NEW C, NEW H, OneWay(C, H), NEW s \in Nodes, MaxSent[s] > 0
  PROVE  /\ C \in [Nodes -> SUBSET Links] /\ C[s] \subseteq Links /\ C[s] \subseteq Nodes \X Nodes
         /\ H[s] \in [Nodes -> Nat]
         /\ \A l \in C[s] : l[2] # s /\ H[s][l[1]] < H[s][l[2]]
         /\ \A l, k \in C[s] : l[2] = k[2] => l = k
<1>1. s \in {n \in Nodes : MaxSent[n] > 0} OBVIOUS
<1>2. Links \subseteq Nodes \X Nodes BY SourceRouteAssumption
<1>3. C \in [Nodes -> SUBSET Links] /\ H \in [Nodes -> [Nodes -> Nat]] BY DEF OneWay
<1>4. \A l \in C[s] : /\ l[2] # s /\ H[s][l[1]] < H[s][l[2]]
                      /\ \A k \in C[s] : l[2] = k[2] => l = k
  BY <1>1 DEF OneWay
<1> QED BY <1>2, <1>3, <1>4

\* A packet with a route is on the controller's way.
LEMMA RoutedOnWay ==
  ASSUME NEW C, NEW H, OneWay(C, H), MaxSent[Controller] > 0,
         NEW l \in Links, NEW p, Frame(l, p), p.kind \in SourceKinds
  PROVE  l \in C[Controller]
<1>1. p \in Packets /\ Meant(p.route) BY DEF Frame
<1>2. PICK k \in 1 .. Len(p.route) : Follows(l, p, k) BY DEF Frame
<1>d. PICK d \in Nodes : \E r \in RoutesTo(d) : p.route = Tail(Reverse(r)) BY <1>1 DEF Meant
<1>3. PICK r \in RoutesTo(d) : p.route = Tail(Reverse(r)) BY <1>d
<1>4. /\ r \in Seq(Nodes) /\ Len(r) >= 2 /\ r[Len(r)] = Controller
      /\ Len(p.route) = Len(r) - 1
      /\ \A j \in 1 .. Len(r) - 1 : p.route[j] = r[Len(r) - j]
  BY <1>3, RouteFacts
<1>5. p.route[k] = l[2] /\ l[1] = IF k = 1 THEN Controller ELSE p.route[k - 1]
  BY <1>2 DEF Follows, Before
<1>6. Len(r) \in Nat /\ k \in 1 .. Len(r) - 1 BY <1>4
<1> DEFINE i == Len(r) - k
<1>7. i \in 1 .. Len(r) - 1 BY <1>6
<1>8. l[2] = r[i] BY <1>4, <1>5, <1>6
<1>9. l[1] = r[i + 1]
  <2>1. CASE k = 1
    <3>1. i + 1 = Len(r) BY <1>6, <2>1
    <3> QED BY <1>4, <1>5, <2>1, <3>1
  <2>2. CASE k # 1
    <3>1. k - 1 \in 1 .. Len(r) - 1 /\ Len(r) - (k - 1) = i + 1 BY <1>6, <2>2
    <3>2. p.route[k - 1] = r[Len(r) - (k - 1)] BY <1>4, <3>1
    <3> QED BY <1>5, <2>2, <3>1, <3>2
  <2> QED BY <2>1, <2>2
<1> HIDE DEF i
<1>10. l = <<r[i + 1], r[i]>> BY <1>8, <1>9, SourceRouteAssumption
<1>11. Controller \in {n \in Nodes : MaxSent[n] > 0} BY SourceRouteAssumption
<1>12. \A e \in Nodes : \A t \in RoutesTo(e) : \A j \in 1 .. Len(t) - 1 :
         <<t[j + 1], t[j]>> \in C[Controller]
  BY <1>11 DEF OneWay
<1> QED BY <1>7, <1>10, <1>12

LEMMA SentThinned ==
  ASSUME NEW C, NEW a \in Air, NEW e \in Air, Thinned(e, a), NEW b, NEW c, AllSent(C, a, b, c)
  PROVE  AllSent(C, e, b, c)
<1> SUFFICES ASSUME NEW l \in Links, NEW i \in 1 .. Len(e[l])
             PROVE  Past(e[l][i], b, c) /\ (l \in C[e[l][i].src] \/ l[2] = e[l][i].src)
  BY DEF AllSent
<1>1. i <= i BY DEF Air
<1>2. PICK u \in 1 .. Len(a[l]) : e[l][i] = a[l][u] BY <1>1 DEF Thinned
<1> QED BY <1>2 DEF AllSent

LEMMA SentPut ==
  ASSUME NEW C, NEW a \in Air, NEW b, NEW c, AllSent(C, a, b, c),
         NEW n \in Nodes, NEW p \in Packets, Past(p, b, c),
         <<n, p.dest>> \in Links => <<n, p.dest>> \in C[p.src] \/ p.dest = p.src,
         NEW e, e = Put(n, p, a)
  PROVE  AllSent(C, e, b, c)
<1> SUFFICES ASSUME NEW l \in Links, NEW i \in 1 .. Len(e[l])
             PROVE  Past(e[l][i], b, c) /\ (l \in C[e[l][i].src] \/ l[2] = e[l][i].src)
  BY DEF AllSent
<1>1. /\ l # <<n, p.dest>> => e[l] = a[l]
      /\ l = <<n, p.dest>> =>
           /\ Len(e[l]) = Len(a[l]) + 1 /\ e[l][Len(e[l])] = p
           /\ \A u \in 1 .. Len(a[l]) : e[l][u] = a[l][u]
  BY PutHere
<1>2. CASE l # <<n, p.dest>> BY <1>1, <1>2 DEF AllSent
<1>3. CASE l = <<n, p.dest>> /\ i = Len(e[l])
  <2>1. e[l][i] = p /\ l[2] = p.dest BY <1>1, <1>3
  <2> QED BY <1>3, <2>1
<1>4. CASE l = <<n, p.dest>> /\ i # Len(e[l])
  <2>1. Len(a[l]) \in Nat BY DEF Air
  <2>2. i \in 1 .. Len(a[l]) BY <1>1, <1>4, <2>1
  <2> QED BY <1>1, <1>4, <2>2 DEF AllSent
<1> QED BY <1>2, <1>3, <1>4

\* What was sent remains sent.
LEMMA PastGrows ==
  ASSUME NEW b \in [Nodes -> Nat], NEW c \in [Nodes -> Nat], NEW n \in Nodes,
         NEW p, p.src \in Nodes, p.boot \in Nat, p.no \in Nat, Past(p, b, c),
         NEW b2, NEW c2,
         \/ b2 = b /\ c2 = [c EXCEPT ![n] = @ + 1]
         \/ b2 = [b EXCEPT ![n] = @ + 1] /\ c2 = [c EXCEPT ![n] = 0]
  PROVE  Past(p, b2, c2)
<1>1. /\ b2[p.src] \in Nat /\ c2[p.src] \in Nat
      /\ b2[p.src] > b[p.src] \/ (b2[p.src] = b[p.src] /\ c2[p.src] >= c[p.src])
  OBVIOUS
<1>2. b[p.src] \in Nat /\ c[p.src] \in Nat OBVIOUS
<1> QED BY <1>1, <1>2 DEF Past

LEMMA AllGrows ==
  ASSUME NEW C, NEW a \in Air, NEW acc, NEW b \in [Nodes -> Nat], NEW c \in [Nodes -> Nat],
         NEW n \in Nodes, AllSent(C, a, b, c), HeardFrom(C, acc, b, c),
         NEW b2, NEW c2,
         \/ b2 = b /\ c2 = [c EXCEPT ![n] = @ + 1]
         \/ b2 = [b EXCEPT ![n] = @ + 1] /\ c2 = [c EXCEPT ![n] = 0]
  PROVE  AllSent(C, a, b2, c2) /\ HeardFrom(C, acc, b2, c2)
<1>1. ASSUME NEW l \in Links, NEW i \in 1 .. Len(a[l]) PROVE Past(a[l][i], b2, c2)
  <2>1. a[l][i] \in Packets BY DEF Air
  <2>2. a[l][i].src \in Nodes /\ a[l][i].boot \in Nat /\ a[l][i].no \in Nat
    BY <2>1 DEF Packets
  <2>3. Past(a[l][i], b, c) BY DEF AllSent
  <2> QED BY <2>2, <2>3, PastGrows
<1>2. ASSUME NEW x \in acc PROVE Past(x[2], b2, c2)
  <2>1. x[2] \in Names BY DEF HeardFrom
  <2>2. x[2].src \in Nodes /\ x[2].boot \in Nat /\ x[2].no \in Nat BY <2>1 DEF Names
  <2>3. Past(x[2], b, c) BY DEF HeardFrom
  <2> QED BY <2>2, <2>3, PastGrows
<1>3. AllSent(C, a, b2, c2) BY <1>1 DEF AllSent
<1>4. HeardFrom(C, acc, b2, c2) BY <1>2 DEF HeardFrom
<1> QED BY <1>3, <1>4

\* The packet a node sends is its latest.
LEMMA WaySend ==
  ASSUME NEW C, NEW H, OneWay(C, H), WayInv(C),
         NEW n \in Nodes, sent[n] < MaxSent[n],
         NEW p, Frame(<<n, p.dest>>, p), p.src = n, p.boot = boot[n], p.no = sent[n],
         <<n, p.dest>> \in Links => <<n, p.dest>> \in C[n] \/ p.dest = n,
         air' = Put(n, p, air), sent' = [sent EXCEPT ![n] = @ + 1], UNCHANGED <<boot, accepted>>
  PROVE  /\ AllSent(C, air', boot', sent') /\ HeardFrom(C, accepted', boot', sent')
         /\ Ordered(C, air', accepted')
<1>1. /\ air \in Air /\ sent \in [Nodes -> Nat] /\ boot \in [Nodes -> Nat]
      /\ AllSent(C, air, boot, sent) /\ HeardFrom(C, accepted, boot, sent)
      /\ Ordered(C, air, accepted)
  BY DEF WayInv, RouteInv, Counts
<1>2. p \in Packets BY DEF Frame
<1>3. sent[n] \in Nat /\ boot[n] \in Nat /\ MaxSent[n] \in Nat /\ MaxSent[n] > 0
  <2>1. sent[n] \in Nat /\ boot[n] \in Nat BY <1>1
  <2>2. MaxSent[n] \in Nat BY SourceRouteAssumption
  <2> QED BY <2>1, <2>2
<1>4. AllSent(C, air, boot, sent') /\ HeardFrom(C, accepted, boot, sent') BY <1>1, AllGrows
<1>5. Past(p, boot, sent') BY <1>1, <1>3 DEF Past
<1>6. AllSent(C, air', boot, sent') BY <1>1, <1>2, <1>4, <1>5, SentPut
<1>7. /\ C \in [Nodes -> SUBSET Links] /\ C[n] \subseteq Links
      /\ \A l \in C[n] : l[2] # n
  BY <1>3, WayFacts
<1> DEFINE k == <<n, p.dest>>
<1>8. ASSUME k \in C[n], NEW l \in Above(C[n], k) \ {k} PROVE FALSE
  <2>1. \A x \in C[n] : x[2] # k[1] BY <1>7
  <2>2. l = k BY <1>8, <2>1, AboveNone
  <2> QED BY <1>8, <2>2
<1>9. ASSUME NEW h \in C[n], NEW q \in Frames(air, n, h) PROVE NotAfter(q, p)
  <2>1. PICK i \in 1 .. Len(air[h]) : q = air[h][i] /\ q.src = n BY DEF Frames
  <2>2. Past(q, boot, sent) BY <1>1, <1>7, <2>1 DEF AllSent
  <2>3. q.boot < boot[n] \/ (q.boot = boot[n] /\ q.no < sent[n]) BY <2>1, <2>2 DEF Past
  <2>4. q \in Packets BY <1>1, <1>7, <2>1 DEF Air
  <2>5. q.no \in Nat BY <2>4 DEF Packets
  <2> QED BY <1>3, <2>3, <2>5 DEF NotAfter
<1>10. ASSUME NEW x \in accepted, x[2].src = n PROVE NotAfter(x[2], p)
  <2>1. Past(x[2], boot, sent) /\ x[2] \in Names BY <1>1 DEF HeardFrom
  <2>2. x[2].boot < boot[n] \/ (x[2].boot = boot[n] /\ x[2].no < sent[n])
    BY <1>10, <2>1 DEF Past
  <2>3. x[2].no \in Nat BY <2>1 DEF Names
  <2> QED BY <1>3, <2>2, <2>3 DEF NotAfter
<1>11. k \in C[p.src] =>
         /\ \A l \in Above(C[p.src], k) \ {k} : \A q \in Frames(air, p.src, l) : NotAfter(p, q)
         /\ \A h \in C[p.src] : k \in Above(C[p.src], h) =>
              /\ \A q \in Frames(air, p.src, h) : NotAfter(q, p)
              /\ \A x \in accepted : x[1] = h[2] /\ x[2].src = p.src => NotAfter(x[2], p)
  BY <1>8, <1>9, <1>10
<1> HIDE DEF k
<1>12. k = <<n, p.dest>> BY DEF k
<1>13. Ordered(C, air', accepted) BY <1>1, <1>2, <1>7, <1>11, <1>12, OrderPut
<1> QED BY <1>4, <1>6, <1>13

\* What a node accepts stays behind all that is on its way there, and ahead of
\* all that the node has sent on.
LEMMA WayAccept ==
  ASSUME NEW C, NEW H, OneWay(C, H), WayInv(C), NEW l \in Links, Accept(l)
  PROVE  /\ AllSent(C, air', boot', sent') /\ HeardFrom(C, accepted', boot', sent')
         /\ Ordered(C, air', accepted')
<1> DEFINE n == l[2]
           p == Head(air[l])
           q == [p EXCEPT !.thl = @ - 1]
           m == Name(p)
           taken == Taken(air, l)
<1>1. /\ air[l] # <<>> /\ ~ IsDuplicate(n, p)
      /\ air' = taken \/ \E o \in Onward(n, q) : air' = Put(n, o, taken)
      /\ accepted' = accepted \cup {<<n, m>>}
      /\ boot' = boot /\ sent' = sent
  BY DEF Accept, Taken
<1>2. /\ air \in Air /\ AllFrames(air)
      /\ AllSent(C, air, boot, sent) /\ HeardFrom(C, accepted, boot, sent)
      /\ Ordered(C, air, accepted)
  BY DEF WayInv, RouteInv
<1>3. n \in Nodes BY SourceRouteAssumption
<1>4. /\ taken \in Air /\ Thinned(taken, air) /\ p = air[l][1] /\ 1 \in 1 .. Len(air[l])
      /\ Len(taken[l]) = Len(air[l]) - 1
      /\ \A i \in 1 .. Len(taken[l]) : taken[l][i] = air[l][i + 1]
  <2>2. p = Head(air[l]) OBVIOUS
  <2> HIDE DEF p
  <2>3. air \in Air /\ air[l] # <<>> BY <1>1, <1>2
  <2>4. /\ taken \in Air /\ Thinned(taken, air)
        /\ Head(air[l]) = air[l][1] /\ 1 \in 1 .. Len(air[l])
        /\ Len(taken[l]) = Len(air[l]) - 1
    BY <2>3, TakenOff
  <2>5. \A i \in 1 .. Len(taken[l]) : taken[l][i] = air[l][i + 1]
    BY <2>3, TakenOff
  <2> QED BY <2>2, <2>4, <2>5
<1>5. Frame(l, p) /\ Past(p, boot, sent) /\ (l \in C[p.src] \/ l[2] = p.src)
  BY <1>2, <1>4 DEF AllFrames, AllSent
<1>6. p \in Packets BY <1>5 DEF Frame
<1>7. m.src = p.src /\ m.boot = p.boot /\ m.no = p.no /\ m \in Names
  <2>1. p.src \in Nodes /\ p.boot \in Nat /\ p.no \in Nat BY <1>6 DEF Packets
  <2> QED BY <2>1 DEF Name, Names
<1>8. p.src # n BY <1>1 DEF IsDuplicate
<1> HIDE DEF taken, p, m
<1>9. Frame(l, q) /\ q.src = p.src /\ q.boot = p.boot /\ q.no = p.no BY <1>5, HopFrame
<1> HIDE DEF q
<1> DEFINE s == p.src
<1>10. s \in Nodes /\ MaxSent[s] > 0 /\ l \in C[s] BY <1>5, <1>6, <1>8 DEF Packets, Past
<1> HIDE DEF n
<1>11. /\ C \in [Nodes -> SUBSET Links] /\ C[s] \subseteq Links /\ C[s] \subseteq Nodes \X Nodes
       /\ H[s] \in [Nodes -> Nat]
       /\ \A x \in C[s] : x[2] # s /\ H[s][x[1]] < H[s][x[2]]
       /\ \A x, k \in C[s] : x[2] = k[2] => x = k
  BY <1>10, WayFacts
<1>12. l[2] = n /\ n # s BY <1>8 DEF n
<1> HIDE DEF s
<1>13. p \in Frames(air, s, l) BY <1>4 DEF Frames, s
<1>14. /\ \A i, j \in 1 .. Len(air[l]) :
            i <= j /\ air[l][i].src = s /\ air[l][j].src = s => NotAfter(air[l][i], air[l][j])
       /\ \A g \in Above(C[s], l) \ {l} : \A f \in Frames(air, s, g) : NotAfter(p, f)
  BY <1>2, <1>10, <1>13 DEF Ordered
<1>15. ASSUME NEW g \in Above(C[s], l), NEW f \in Frames(taken, s, g) PROVE NotAfter(p, f)
  <2>1. CASE g = l
    <3>1. PICK i \in 1 .. Len(taken[l]) : f = taken[l][i] /\ f.src = s BY <2>1 DEF Frames
    <3>2. Len(air[l]) \in Nat BY <1>2 DEF Air
    <3>3. i + 1 \in 1 .. Len(air[l]) /\ 1 <= i + 1 BY <1>4, <3>1, <3>2
    <3>4. f = air[l][i + 1] BY <1>4, <3>1
    <3>5. p.src = s BY DEF s
    <3> QED BY <1>4, <1>14, <3>1, <3>3, <3>4, <3>5
  <2>2. CASE g # l
    <3>1. g \in Links BY <1>11 DEF Above
    <3>2. f \in Frames(air, s, g) BY <1>2, <1>4, <3>1, FramesThinned
    <3> QED BY <1>14, <2>2, <3>2
  <2> QED BY <2>1, <2>2
<1>16. Ordered(C, taken, accepted) BY <1>2, <1>4, <1>11, OrderThinned
<1>17. Ordered(C, taken, accepted')
  <2>1. ASSUME NEW k \in C[m.src], k[2] = n, NEW g \in Above(C[m.src], k),
               NEW f \in Frames(taken, m.src, g)
        PROVE  NotAfter(m, f)
    <3>1. m.src = s BY <1>7 DEF s
    <3>2. k = l BY <1>10, <1>11, <1>12, <2>1, <3>1
    <3>3. NotAfter(p, f) BY <1>15, <2>1, <3>1, <3>2
    <3> QED BY <1>7, <3>3 DEF NotAfter
  <2> QED BY <1>1, <1>16, <2>1, OrderAccepted
<1>18. HeardFrom(C, accepted', boot', sent')
  <2>1. <<n, m>> \in Nodes \X Names BY <1>3, <1>7
  <2>2. Past(m, boot, sent) BY <1>5, <1>7 DEF Past
  <2>3. n # m.src /\ \E x \in C[m.src] : x[2] = n BY <1>7, <1>10, <1>12 DEF s
  <2> QED BY <1>1, <1>2, <2>1, <2>2, <2>3 DEF HeardFrom
<1>19. AllSent(C, taken, boot, sent) BY <1>2, <1>4, SentThinned
<1>20. CASE air' = taken BY <1>1, <1>17, <1>18, <1>19, <1>20
<1>21. CASE \E o \in Onward(n, q) : air' = Put(n, o, taken)
  <2>1. PICK o \in Onward(n, q) : air' = Put(n, o, taken) BY <1>21
  <2>2. /\ Frame(<<n, o.dest>>, o)
        /\ o.src = q.src /\ o.boot = q.boot /\ o.no = q.no
        /\ \/ o.kind = "FLOW" /\ n # Controller /\ o.dest = Parent[n]
           \/ /\ o.kind = "PLAIN"
              /\ \E d : <<n, d>> \in DOMAIN NextHop /\ o.dest = NextHop[n, d]
           \/ o.kind \in SourceKinds
    BY <1>3, <1>9, <1>12, OnwardFrame
  <2>3. o.src = s /\ o.boot = p.boot /\ o.no = p.no BY <1>9, <2>2 DEF s
  <2>4. o \in Packets BY <2>2 DEF Frame
  <2> DEFINE k == <<n, o.dest>>
  <2>5. ASSUME k \in Links PROVE k \in C[s] \/ o.dest = s
    <3>1. CASE o.kind = "FLOW" /\ n # Controller /\ o.dest = Parent[n]
      <4>1. s # Controller BY <2>2, <2>3, <3>1 DEF Frame
      <4>2. s \in {x \in Nodes : MaxSent[x] > 0} \ {Controller} BY <1>10, <4>1
      <4>3. n \in Nodes \ {Controller} BY <1>3, <3>1
      <4>4. \E x \in C[s] : x[2] = n BY <1>10, <1>12
      <4>5. <<n, Parent[n]>> \in Links BY <2>5, <3>1
      <4>6. Parent[n] # s => <<n, Parent[n]>> \in C[s] BY <4>2, <4>3, <4>4, <4>5 DEF OneWay
      <4> QED BY <3>1, <4>6
    <3>2. CASE o.kind = "PLAIN"
      <4>1. PICK d : <<n, d>> \in DOMAIN NextHop /\ o.dest = NextHop[n, d]
        BY <2>2, <3>2 DEF SourceKinds
      <4>2. s = Controller BY <2>2, <2>3, <3>2 DEF Frame
      <4>3. Controller \in {x \in Nodes : MaxSent[x] > 0} BY <1>10, <4>2
      <4>4. \A x \in DOMAIN NextHop :
              <<x[1], NextHop[x]>> \in Links /\ NextHop[x] # Controller =>
                <<x[1], NextHop[x]>> \in C[Controller]
        BY <4>3 DEF OneWay
      <4> DEFINE x == <<n, d>>
      <4>5. x \in DOMAIN NextHop /\ x[1] = n /\ NextHop[x] = o.dest BY <4>1
      <4> HIDE DEF x
      <4> QED BY <2>5, <4>2, <4>4, <4>5
    <3>3. CASE o.kind \in SourceKinds
      <4>1. s = Controller BY <2>2, <2>3, <3>3 DEF Frame, SourceKinds
      <4>2. k \in C[Controller] BY <1>10, <2>2, <2>5, <3>3, <4>1, RoutedOnWay
      <4> QED BY <4>1, <4>2
    <3> QED BY <2>2, <3>1, <3>2, <3>3
  <2>6. Past(o, boot, sent) BY <1>5, <2>3 DEF Past, s
  <2>7. AllSent(C, air', boot, sent)
    <3>1. k \in Links => k \in C[o.src] \/ o.dest = o.src BY <2>3, <2>5
    <3> QED BY <1>3, <1>4, <1>19, <2>1, <2>4, <2>6, <3>1, SentPut
  <2>8. ASSUME k \in C[s]
        PROVE  /\ \A g \in Above(C[s], k) \ {k} : \A f \in Frames(taken, s, g) : NotAfter(o, f)
               /\ \A h \in C[s] : k \in Above(C[s], h) =>
                    /\ \A f \in Frames(taken, s, h) : NotAfter(f, o)
                    /\ \A x \in accepted' : x[1] = h[2] /\ x[2].src = s => NotAfter(x[2], o)
    <3>1. l[2] = k[1] BY <1>12
    <3>2. ASSUME NEW g \in Above(C[s], k) \ {k}, NEW f \in Frames(taken, s, g)
          PROVE  NotAfter(o, f)
      <4>1. g \in Above(C[s], l) BY <1>10, <1>11, <2>8, <3>1, <3>2, AboveFirst
      <4>2. NotAfter(p, f) BY <1>15, <3>2, <4>1
      <4> QED BY <2>3, <4>2 DEF NotAfter
    <3>3. ASSUME NEW h \in C[s], k \in Above(C[s], h)
          PROVE  /\ \A f \in Frames(taken, s, h) : NotAfter(f, o)
                 /\ \A x \in accepted' : x[1] = h[2] /\ x[2].src = s => NotAfter(x[2], o)
      <4>1. l \in Above(C[s], h) BY <1>10, <3>1, <3>3, AboveUp
      <4>2. l # h
        <5>1. H[s][k[1]] <= H[s][h[1]] BY <1>11, <3>3, AboveNearer
        <5>2. H[s][l[1]] < H[s][l[2]] BY <1>10, <1>11
        <5>3. H[s][l[1]] \in Nat /\ H[s][l[2]] \in Nat BY <1>10, <1>11
        <5> QED BY <3>1, <5>1, <5>2, <5>3
      <4>3. ASSUME NEW f \in Frames(taken, s, h) PROVE NotAfter(f, o)
        <5>1. f \in Frames(air, s, h) BY <1>2, <1>4, <1>11, FramesThinned
        <5>2. NotAfter(f, p) BY <1>2, <1>10, <1>13, <4>1, <4>2, <5>1 DEF Ordered
        <5> QED BY <2>3, <5>2 DEF NotAfter
      <4>4. ASSUME NEW x \in accepted', x[1] = h[2], x[2].src = s PROVE NotAfter(x[2], o)
        <5>1. CASE x \in accepted
          <6>1. NotAfter(x[2], p) BY <1>2, <1>10, <1>13, <4>1, <4>4, <5>1 DEF Ordered
          <6> QED BY <2>3, <6>1 DEF NotAfter
        <5>2. CASE x = <<n, m>>
          <6>1. x[2].boot = o.boot /\ x[2].no = o.no BY <1>7, <2>3, <5>2
          <6>2. o.no \in Nat BY <2>4 DEF Packets
          <6> QED BY <6>1, <6>2 DEF NotAfter
        <5> QED BY <1>1, <4>4, <5>1, <5>2
      <4> QED BY <4>3, <4>4
    <3> QED BY <3>2, <3>3
  <2>9. k \in C[o.src] =>
          /\ \A g \in Above(C[o.src], k) \ {k} : \A f \in Frames(taken, o.src, g) : NotAfter(o, f)
          /\ \A h \in C[o.src] : k \in Above(C[o.src], h) =>
               /\ \A f \in Frames(taken, o.src, h) : NotAfter(f, o)
               /\ \A x \in accepted' : x[1] = h[2] /\ x[2].src = o.src => NotAfter(x[2], o)
    BY <2>3, <2>8
  <2> HIDE DEF k
  <2>10. k = <<n, o.dest>> BY DEF k
  <2>11. Ordered(C, air', accepted')
    BY <1>3, <1>4, <1>11, <1>17, <2>1, <2>4, <2>9, <2>10, OrderPut
  <2> QED BY <1>1, <1>18, <2>7, <2>11
<1> QED BY <1>1, <1>20, <1>21

LEMMA WayInit == ASSUME NEW C, NEW H, OneWay(C, H), Init PROVE WayInv(C)
<1>1. RouteInv BY RouteInit
<1>2. \A l \in Links : Len(air[l]) = 0 BY DEF Init
<1>3. accepted = {} BY DEF Init
<1>4. AllSent(C, air, boot, sent) BY <1>2 DEF AllSent
<1>5. HeardFrom(C, accepted, boot, sent) BY <1>3 DEF HeardFrom
<1>6. Ordered(C, air, accepted)
  <2>1. C \in [Nodes -> SUBSET Links] BY DEF OneWay
  <2>2. \A s : \A l \in Links : Frames(air, s, l) = {} BY <1>2 DEF Frames
  <2>3. \A s \in Nodes : \A k \in C[s] : k \in Links /\ Above(C[s], k) \subseteq Links
    BY <2>1 DEF Above
  <2> QED BY <1>2, <1>3, <2>2, <2>3 DEF Ordered
<1> QED BY <1>1, <1>4, <1>5, <1>6 DEF WayInv

LEMMA WayNext == ASSUME NEW C, NEW H, OneWay(C, H), WayInv(C), [Next]_vars PROVE WayInv(C)'
<1>1. RouteInv /\ RouteInv' BY RouteNext DEF WayInv
<1>2. /\ air \in Air /\ sent \in [Nodes -> Nat] /\ boot \in [Nodes -> Nat]
      /\ AllSent(C, air, boot, sent) /\ HeardFrom(C, accepted, boot, sent)
      /\ Ordered(C, air, accepted)
  BY DEF WayInv, RouteInv, Counts
<1>3. C \in [Nodes -> SUBSET Links] BY DEF OneWay
<1>4. boot[Controller] \in Nat /\ sent[Controller] \in Nat /\ Controller \in Nodes
  BY <1>2, SourceRouteAssumption
<1> DEFINE Goal == /\ AllSent(C, air', boot', sent') /\ HeardFrom(C, accepted', boot', sent')
                   /\ Ordered(C, air', accepted')
<1> SUFFICES Goal BY <1>1 DEF WayInv
<1>5. ASSUME NEW d \in Nodes, NEW r \in RoutesTo(d), NEW p, Frame(<<Controller, p.dest>>, p),
             p.src = Controller, p.boot = boot[Controller], p.no = sent[Controller],
             <<Controller, p.dest>> = <<r[Len(r)], r[Len(r) - 1]>>,
             sent[Controller] < MaxSent[Controller],
             air' = Put(Controller, p, air), sent' = [sent EXCEPT ![Controller] = @ + 1],
             UNCHANGED <<boot, accepted>>
      PROVE  Goal
  <2>1. r \in Seq(Nodes) /\ Len(r) >= 2 BY RouteFacts
  <2> DEFINE i == Len(r) - 1
  <2>2. i \in 1 .. Len(r) - 1 /\ i + 1 = Len(r) BY <2>1
  <2>3. MaxSent[Controller] > 0
    <3>1. MaxSent[Controller] \in Nat BY SourceRouteAssumption
    <3> QED BY <1>4, <1>5, <3>1
  <2>4. Controller \in {x \in Nodes : MaxSent[x] > 0} BY <1>4, <2>3
  <2>5. \A e \in Nodes : \A t \in RoutesTo(e) : \A j \in 1 .. Len(t) - 1 :
          <<t[j + 1], t[j]>> \in C[Controller]
    BY <2>4 DEF OneWay
  <2>6. <<r[i + 1], r[i]>> \in C[Controller] BY <2>2, <2>5
  <2>7. <<Controller, p.dest>> \in C[Controller] BY <1>5, <2>2, <2>6
  <2> QED BY <1>4, <1>5, <2>7, WaySend
<1>6. ASSUME NEW d \in Nodes, NEW r \in RoutesTo(d), NEW kind \in SourceKinds \ {"MULT"},
             SendAlong(kind, d, r)
      PROVE  Goal
  <2> DEFINE p == SourceRouted(kind, r)
  <2>1. /\ air' = Put(Controller, p, air) /\ sent[Controller] < MaxSent[Controller]
        /\ sent' = [sent EXCEPT ![Controller] = @ + 1] /\ UNCHANGED <<boot, accepted>>
    BY <1>6 DEF SendAlong
  <2>2. /\ Frame(<<Controller, p.dest>>, p)
        /\ p.src = Controller /\ p.boot = boot[Controller] /\ p.no = sent[Controller]
        /\ <<Controller, p.dest>> = <<r[Len(r)], r[Len(r) - 1]>>
    BY <1>4, SourceRoutedFrame
  <2> HIDE DEF p
  <2> QED BY <1>5, <2>1, <2>2
<1>7. ASSUME NEW d \in Nodes, NEW r \in RoutesTo(d), NEW k \in 2 .. Cardinality(Nodes),
             SendMult(d, r, k)
      PROVE  Goal
  <2> DEFINE p == ForSeveral(r, k)
  <2>1. /\ k \in 2 .. Len(r) - 1 /\ Len(r) - k - 1 <= MaxPath
        /\ air' = Put(Controller, p, air) /\ sent[Controller] < MaxSent[Controller]
        /\ sent' = [sent EXCEPT ![Controller] = @ + 1] /\ UNCHANGED <<boot, accepted>>
    BY <1>7 DEF SendMult
  <2>2. /\ Frame(<<Controller, p.dest>>, p)
        /\ p.src = Controller /\ p.boot = boot[Controller] /\ p.no = sent[Controller]
        /\ <<Controller, p.dest>> = <<r[Len(r)], r[Len(r) - 1]>>
    BY <1>4, <2>1, MultFrame
  <2> HIDE DEF p
  <2> QED BY <1>5, <2>1, <2>2
<1>8. ASSUME NEW n \in Nodes, Report(n) PROVE Goal
  <2> DEFINE p == Packet(n, "FLOW", Parent[n], Controller, <<>>, <<>>, <<>>)
  <2>1. /\ n # Controller /\ air' = Put(n, p, air) /\ sent[n] < MaxSent[n]
        /\ sent' = [sent EXCEPT ![n] = @ + 1] /\ UNCHANGED <<boot, accepted>>
    BY <1>8 DEF Report
  <2>2. boot[n] \in Nat /\ sent[n] \in Nat /\ MaxSent[n] \in Nat BY <1>2, SourceRouteAssumption
  <2>3. /\ Frame(<<n, p.dest>>, p) /\ p.dest = Parent[n]
        /\ p.src = n /\ p.boot = boot[n] /\ p.no = sent[n]
    BY <2>1, <2>2, ReportFrame
  <2>4. n \in {s \in Nodes : MaxSent[s] > 0} \ {Controller} BY <2>1, <2>2
  <2>5. <<n, Parent[n]>> \in Links => <<n, Parent[n]>> \in C[n] \/ Parent[n] = n
    BY <2>4 DEF OneWay
  <2> HIDE DEF p
  <2> QED BY <2>1, <2>3, <2>5, WaySend
<1>9. ASSUME NEW n \in Nodes, Restart(n) PROVE Goal
  <2>1. /\ boot' = [boot EXCEPT ![n] = @ + 1] /\ sent' = [sent EXCEPT ![n] = 0]
        /\ accepted' \subseteq accepted /\ air' = air
    BY <1>9 DEF Restart
  <2>2. AllSent(C, air, boot', sent') /\ HeardFrom(C, accepted, boot', sent')
    BY <1>2, <2>1, AllGrows
  <2>3. HeardFrom(C, accepted', boot', sent') BY <2>1, <2>2 DEF HeardFrom
  <2>4. Thinned(air, air) BY DEF Thinned
  <2>5. Ordered(C, air, accepted') BY <1>2, <1>3, <2>1, <2>4, OrderThinned
  <2> QED BY <2>1, <2>2, <2>3, <2>5
<1>10. ASSUME NEW l \in Links, Accept(l) PROVE Goal BY <1>10, WayAccept
<1>11. ASSUME air' \in Air, Thinned(air', air), UNCHANGED <<sent, boot, accepted>> PROVE Goal
  <2>1. AllSent(C, air', boot, sent) BY <1>2, <1>11, SentThinned
  <2>2. Ordered(C, air', accepted) BY <1>2, <1>3, <1>11, OrderThinned
  <2> QED BY <1>2, <1>11, <2>1, <2>2
<1>12. ASSUME NEW l \in Links, Discard(l) \/ Lose(l) PROVE Goal
  <2>1. air[l] # <<>> /\ air' = Taken(air, l) /\ UNCHANGED <<sent, boot, accepted>>
    BY <1>12 DEF Discard, Lose, Taken
  <2> QED BY <1>2, <1>11, <2>1, TakenOff
<1>13. ASSUME NEW l \in Links, Repeat(l) PROVE Goal
  <2>1. /\ air[l] # <<>> /\ air' = [air EXCEPT ![l] = <<Head(@)>> \o @]
        /\ UNCHANGED <<sent, boot, accepted>>
    BY <1>13 DEF Repeat
  <2> QED BY <1>2, <1>11, <2>1, ComesTwice
<1>14. CASE UNCHANGED vars BY <1>2, <1>14 DEF vars
<1>15. ASSUME NEW d \in Nodes, NEW r \in RoutesTo(d), SendSetup(d, r) \/ SendAck(d, r) \/ SendMngt(d, r)
       PROVE  Goal
  <2>1. {"SETUP", "ACK", "MNGT"} \subseteq SourceKinds \ {"MULT"} BY DEF SourceKinds
  <2> QED BY <1>6, <1>15, <2>1 DEF SendSetup, SendAck, SendMngt
<1> HIDE DEF Goal
<1> QED BY <1>7, <1>8, <1>9, <1>10, <1>12, <1>13, <1>14, <1>15 DEF Next

----------------------------------------------------------------------------
(* What the nodes remember                                                 *)

Entries == [src : Nodes, seq : Nat]

\* Nothing that n accepted of the sender of x came later.
Latest(n, acc, x) ==
  x[1] = n /\ \A y \in acc : y[1] = n /\ y[2].src = x[2].src => NotAfter(y[2], x[2])

\* The places s of node n hold one number for each sender that n accepted
\* something of, that of the latest packet.
Knows(n, s, acc) ==
  /\ \A i, j \in 1 .. Len(s) : s[i].src = s[j].src => i = j
  /\ Len(s) <= MaxSeqnos
  /\ \A i \in 1 .. Len(s) :
       /\ MaxSent[s[i].src] > 0
       /\ \E x \in acc : /\ Latest(n, acc, x) /\ x[2].src = s[i].src
                         /\ x[2].no % NumberMod = s[i].seq
  /\ \A x \in acc : x[1] = n => \E i \in 1 .. Len(s) : s[i].src = x[2].src

Remembers == seqnos \in [Nodes -> Seq(Entries)] /\ \A n \in Nodes : Knows(n, seqnos[n], accepted)

\* t is s with the entry of the sender of p renewed and in front.
Renewed(s, p, t) ==
  /\ t \in Seq(Entries) /\ Len(t) >= 1 /\ Len(t) <= MaxSeqnos
  /\ t[1] = [src |-> p.src, seq |-> p.no % NumberMod]
  /\ \A i \in 2 .. Len(t) : \E j \in 1 .. Len(s) : t[i] = s[j] /\ s[j].src # p.src
  /\ \A j \in 1 .. Len(s) : s[j].src # p.src => \E i \in 2 .. Len(t) : t[i] = s[j]
  /\ \A i, j \in 1 .. Len(t) : t[i].src = t[j].src => i = j

OneEach(s) == Len(s) <= MaxSeqnos /\ \A i, j \in 1 .. Len(s) : s[i].src = s[j].src => i = j

RoomFor(s, src) == Len(s) < MaxSeqnos \/ \E i \in 1 .. Len(s) : s[i].src = src

\* sdn_seqno_register moves places but for the sender's own, which is the
\* first now, and loses none if there is room.
LEMMA RegisteredFacts ==
  ASSUME NEW n \in Nodes, NEW s \in Seq(Entries), s = seqnos[n], NEW p \in Packets,
         OneEach(s), RoomFor(s, p.src)
  PROVE  Renewed(s, p, Registered(n, p))
<1> DEFINE t == Registered(n, p)
<1>o. OneEach(s) /\ RoomFor(s, p.src) OBVIOUS
<1> USE <1>o DEF OneEach, RoomFor
<1> DEFINE at == Place(n, p.src)
           N  == IF at > Len(s) THEN at ELSE Len(s)
           this == [src |-> p.src, seq |-> p.no % NumberMod]
           old(i) == IF i <= at THEN i - 1 ELSE i
<1>1. Len(s) \in Nat /\ MaxSeqnos \in Nat /\ MaxSeqnos >= 1 BY SourceRouteAssumption
<1>2. From(n, p.src) = {i \in 1 .. Len(s) : s[i].src = p.src} BY DEF From
<1>3. /\ at \in 1 .. Len(s) + 1 /\ at <= MaxSeqnos
      /\ \A j \in 1 .. Len(s) : j # at => s[j].src # p.src
  <2>1. CASE From(n, p.src) # {}
    <3>1. PICK f \in 1 .. Len(s) : s[f].src = p.src BY <1>2, <2>1
    <3>2. From(n, p.src) = {f} BY <1>2, <3>1
    <3>3. at = CHOOSE i \in {f} : \A j \in {f} : i <= j BY <2>1, <3>2 DEF Place
    <3>4. f <= f BY <1>1, <3>1
    <3>5. at = f BY <3>3, <3>4
    <3> HIDE DEF at
    <3> QED BY <1>1, <3>1, <3>5
  <2>2. CASE From(n, p.src) = {}
    <3>1. \A i \in 1 .. Len(s) : s[i].src # p.src BY <1>2, <2>2
    <3>2. Len(s) < MaxSeqnos BY <3>1
    <3>3. at = Len(s) + 1 BY <2>2, <3>2 DEF Place
    <3> HIDE DEF at
    <3> QED BY <1>1, <3>1, <3>2, <3>3
  <2> QED BY <2>1, <2>2
<1>4. t = [j \in DOMAIN s \cup {at} |-> IF j = 1 THEN this ELSE s[old(j)]] BY DEF Registered
<1> HIDE DEF at, t
<1>5. N \in Nat /\ N >= 1 /\ N <= MaxSeqnos /\ DOMAIN s \cup {at} = 1 .. N
  BY <1>1, <1>3
<1>6. ASSUME NEW i \in 2 .. N
      PROVE  old(i) \in 1 .. Len(s) /\ old(i) # at
  BY <1>1, <1>3
<1>7. ASSUME NEW j \in 1 .. Len(s), j # at PROVE \E i \in 2 .. N : old(i) = j
  <2>1. CASE j < at
    <3>1. j + 1 \in 2 .. N /\ old(j + 1) = j BY <1>1, <1>3, <2>1
    <3> QED BY <3>1
  <2>2. CASE j > at
    <3>1. j \in 2 .. N /\ old(j) = j BY <1>1, <1>3, <2>2
    <3> QED BY <3>1
  <2> QED BY <1>1, <1>3, <1>7, <2>1, <2>2
<1>8. ASSUME NEW i \in 2 .. N, NEW j \in 2 .. N, old(i) = old(j) PROVE i = j
  BY <1>1, <1>3, <1>5, <1>8
<1> HIDE DEF N, old
<1>9. this \in Entries
  <2>1. p.src \in Nodes /\ p.no \in Nat BY DEF Packets
  <2>2. p.no % NumberMod \in Nat BY <2>1, SourceRouteAssumption
  <2> QED BY <2>1, <2>2 DEF Entries
<1>t. this.src = p.src OBVIOUS
<1> HIDE DEF this
<1>10. t = [j \in 1 .. N |-> IF j = 1 THEN this ELSE s[old(j)]] BY <1>4, <1>5
<1>11. ASSUME NEW i \in 1 .. N PROVE (IF i = 1 THEN this ELSE s[old(i)]) \in Entries
  <2>1. CASE i = 1 BY <1>9, <2>1
  <2>2. CASE i # 1
    <3>1. i \in 2 .. N BY <1>5, <2>2
    <3>2. old(i) \in 1 .. Len(s) BY <1>6, <3>1
    <3>3. s[old(i)] \in Entries BY <3>2
    <3> QED BY <2>2, <3>3
  <2> QED BY <2>1, <2>2
<1>12. t \in [1 .. N -> Entries] BY <1>10, <1>11
<1>13. t \in Seq(Entries) /\ Len(t) = N BY <1>5, <1>12
<1>14. t[1] = this BY <1>5, <1>10
<1>15. ASSUME NEW i \in 2 .. N PROVE t[i] = s[old(i)]
  <2>1. i \in 1 .. N /\ i # 1 BY <1>5
  <2> QED BY <1>10, <2>1
<1>16. ASSUME NEW i \in 2 .. N
       PROVE  old(i) \in 1 .. Len(s) /\ t[i] = s[old(i)] /\ s[old(i)].src # p.src
  BY <1>3, <1>6, <1>15
<1>17. ASSUME NEW j \in 1 .. Len(s), s[j].src # p.src PROVE \E i \in 2 .. N : t[i] = s[j]
  <2>1. CASE j # at
    <3>1. PICK i \in 2 .. N : old(i) = j BY <1>7, <2>1
    <3> QED BY <1>15, <3>1
  <2>2. CASE j = at
    \* The sender has no entry: then its place is behind the last one.
    <3>1. \E i \in 1 .. Len(s) : s[i].src = p.src
      <4>1. SUFFICES ASSUME Len(s) < MaxSeqnos, \A i \in 1 .. Len(s) : s[i].src # p.src PROVE FALSE
        OBVIOUS
      <4>2. From(n, p.src) = {} BY <1>2, <4>1
      <4>3. at = Len(s) + 1 BY <4>1, <4>2 DEF at, Place
      <4> QED BY <1>1, <2>2, <4>3
    <3> QED BY <1>3, <1>17, <2>2, <3>1
  <2> QED BY <2>1, <2>2
<1>18. ASSUME NEW i \in 1 .. N, NEW j \in 1 .. N, t[i].src = t[j].src PROVE i = j
  <2>1. ASSUME NEW k \in 1 .. N, k # 1 PROVE k \in 2 .. N BY <1>5, <2>1
  <2>2. CASE i = 1 /\ j = 1 BY <2>2
  <2>3. CASE i = 1 /\ j # 1 BY <1>14, <1>16, <1>18, <1>t, <2>1, <2>3
  <2>4. CASE i # 1 /\ j = 1 BY <1>14, <1>16, <1>18, <1>t, <2>1, <2>4
  <2>5. CASE i # 1 /\ j # 1
    <3>1. i \in 2 .. N /\ j \in 2 .. N BY <2>1, <2>5
    <3>2. old(i) \in 1 .. Len(s) /\ old(j) \in 1 .. Len(s) BY <1>16, <3>1
    <3>3. s[old(i)].src = s[old(j)].src BY <1>16, <1>18, <3>1
    <3>4. old(i) = old(j) BY <3>2, <3>3
    <3> QED BY <1>8, <3>1, <3>4
  <2> QED BY <2>2, <2>3, <2>4, <2>5
<1>19. t[1] = [src |-> p.src, seq |-> p.no % NumberMod] BY <1>14 DEF this
<1> QED BY <1>5, <1>13, <1>16, <1>17, <1>18, <1>19 DEF Renewed, t

\* No sender is forgotten for another: there are places for all of them.
LEMMA RoomForAll ==
  ASSUME NEW C, NEW H, OneWay(C, H), NEW n, NEW s \in Seq(Entries), NEW acc, Knows(n, s, acc),
         NEW src \in Nodes, MaxSent[src] > 0
  PROVE  RoomFor(s, src)
<1> DEFINE Senders == {m \in Nodes : MaxSent[m] > 0}
<1>1. IsFiniteSet(Senders) /\ Cardinality(Senders) <= MaxSeqnos BY DEF OneWay
<1>2. src \in Senders OBVIOUS
<1>3. ASSUME NEW i \in 1 .. Len(s) PROVE s[i].src \in Senders
  <2>1. s[i] \in Entries OBVIOUS
  <2> QED BY <2>1 DEF Entries, Knows
<1> HIDE DEF Senders
<1>4. Len(s) \in Nat /\ MaxSeqnos \in Nat /\ Len(s) <= MaxSeqnos BY SourceRouteAssumption DEF Knows
<1> SUFFICES ASSUME Len(s) = MaxSeqnos, \A i \in 1 .. Len(s) : s[i].src # src PROVE FALSE
  BY <1>4 DEF RoomFor
<1> DEFINE L == Len(s) + 1
           f == [i \in 1 .. L |-> IF i = L THEN src ELSE s[i].src]
<1>5. L \in Nat /\ L > MaxSeqnos BY <1>4
<1>6. \A i \in 1 .. L : i # L => i \in 1 .. Len(s) BY <1>4
<1> HIDE DEF L
<1>7. f \in [1 .. L -> Senders] BY <1>2, <1>3, <1>6
<1>8. \A i \in 1 .. L : f[i] = IF i = L THEN src ELSE s[i].src OBVIOUS
<1> HIDE DEF f
<1>9. IsFiniteSet(1 .. L) /\ Cardinality(1 .. L) = L
  <2>1. 1 \in Int /\ L \in Int BY <1>5
  <2>2. IsFiniteSet(1 .. L) /\ Cardinality(1 .. L) = IF 1 > L THEN 0 ELSE L - 1 + 1
    BY <2>1, FS_Interval
  <2> QED BY <1>4, <1>5, <2>2
<1>10. Cardinality(Senders) \in Nat BY <1>1, FS_CardinalityType
<1>11. Cardinality(Senders) < Cardinality(1 .. L) BY <1>1, <1>4, <1>5, <1>9, <1>10
<1>12. \E x, y \in 1 .. L : x # y /\ f[x] = f[y] BY <1>1, <1>7, <1>9, <1>11, FS_PigeonHole
<1>13. PICK x \in 1 .. L : \E y \in 1 .. L : x # y /\ f[x] = f[y] BY <1>12
<1>14. PICK y \in 1 .. L : x # y /\ f[x] = f[y] BY <1>13
<1>15. CASE x = L BY <1>6, <1>8, <1>14, <1>15
<1>16. CASE y = L BY <1>6, <1>8, <1>14, <1>16
<1>17. CASE x # L /\ y # L
  <2>1. x \in 1 .. Len(s) /\ y \in 1 .. Len(s) BY <1>6, <1>17
  <2>2. s[x].src = s[y].src BY <1>8, <1>14, <1>17
  <2> QED BY <1>14, <2>1, <2>2 DEF Knows
<1> QED BY <1>15, <1>16, <1>17

\* Only what n itself accepted counts.
LEMMA KnowsSame ==
  ASSUME NEW n, NEW s, NEW acc, NEW other, \A x : x[1] = n => (x \in acc <=> x \in other),
         Knows(n, s, acc)
  PROVE  Knows(n, s, other)
<1>1. \A x : Latest(n, acc, x) => Latest(n, other, x) BY DEF Latest
<1>2. ASSUME NEW i \in 1 .. Len(s)
      PROVE  \E x \in other : /\ Latest(n, other, x) /\ x[2].src = s[i].src
                              /\ x[2].no % NumberMod = s[i].seq
  <2>1. PICK x \in acc : /\ Latest(n, acc, x) /\ x[2].src = s[i].src
                         /\ x[2].no % NumberMod = s[i].seq
    BY DEF Knows
  <2>2. x \in other BY <2>1 DEF Latest
  <2> QED BY <1>1, <2>1, <2>2
<1> QED BY <1>2 DEF Knows

LEMMA KnowsAccepted ==
  ASSUME NEW C, NEW H, OneWay(C, H), NEW n \in Nodes, NEW s \in Seq(Entries), s = seqnos[n],
         NEW acc, Knows(n, s, acc), NEW p \in Packets, MaxSent[p.src] > 0,
         \A y \in acc : y[1] = n /\ y[2].src = p.src => NotAfter(y[2], p),
         NEW t, t = Registered(n, p), NEW more, more = acc \cup {<<n, Name(p)>>}
  PROVE  t \in Seq(Entries) /\ Knows(n, t, more)
<1> DEFINE m == Name(p)
           new == <<n, m>>
<1>1. /\ m.src = p.src /\ m.boot = p.boot /\ m.no = p.no
      /\ p.src \in Nodes /\ p.no \in Nat /\ p.boot \in Nat
  BY DEF Name, Packets
<1>2. new[1] = n /\ new[2] = m /\ new \in more OBVIOUS
<1>3. \A y \in more : y \in acc \/ y = new OBVIOUS
<1> HIDE DEF m, new
<1>4. RoomFor(s, p.src) BY <1>1, RoomForAll
<1>5. OneEach(s) BY DEF Knows, OneEach
<1>e. Renewed(s, p, t) BY <1>4, <1>5, RegisteredFacts
<1>6. /\ t \in Seq(Entries) /\ Len(t) >= 1 /\ Len(t) <= MaxSeqnos
      /\ t[1] = [src |-> p.src, seq |-> p.no % NumberMod]
      /\ \A i \in 2 .. Len(t) : \E j \in 1 .. Len(s) : t[i] = s[j] /\ s[j].src # p.src
      /\ \A j \in 1 .. Len(s) : s[j].src # p.src => \E i \in 2 .. Len(t) : t[i] = s[j]
      /\ \A i, j \in 1 .. Len(t) : t[i].src = t[j].src => i = j
  BY <1>e DEF Renewed
<1>7. Len(t) \in Nat /\ 1 \in 1 .. Len(t) /\ \A i \in 1 .. Len(t) : i # 1 => i \in 2 .. Len(t)
  BY <1>6
<1>8. ASSUME NEW i \in 1 .. Len(t)
      PROVE  /\ MaxSent[t[i].src] > 0
             /\ \E x \in more : /\ Latest(n, more, x) /\ x[2].src = t[i].src
                                /\ x[2].no % NumberMod = t[i].seq
  <2>1. CASE i = 1
    <3>1. t[i].src = p.src /\ t[i].seq = p.no % NumberMod BY <1>6, <2>1
    <3>2. Latest(n, more, new)
      <4>1. ASSUME NEW y \in more, y[1] = n, y[2].src = new[2].src PROVE NotAfter(y[2], new[2])
        <5>1. CASE y \in acc BY <1>1, <1>2, <4>1, <5>1 DEF NotAfter
        <5>2. CASE y = new BY <1>1, <1>2, <5>2 DEF NotAfter
        <5> QED BY <1>3, <5>1, <5>2
      <4> QED BY <1>2, <4>1 DEF Latest
    <3> QED BY <1>1, <1>2, <3>1, <3>2
  <2>2. CASE i # 1
    <3>1. PICK j \in 1 .. Len(s) : t[i] = s[j] /\ s[j].src # p.src BY <1>6, <1>7, <2>2
    <3>2. PICK x \in acc : /\ Latest(n, acc, x) /\ x[2].src = s[j].src
                           /\ x[2].no % NumberMod = s[j].seq
      BY DEF Knows
    <3>3. Latest(n, more, x)
      <4>1. ASSUME NEW y \in more, y[1] = n, y[2].src = x[2].src PROVE NotAfter(y[2], x[2])
        <5>1. y # new BY <1>1, <1>2, <3>1, <3>2, <4>1
        <5>2. y \in acc BY <1>3, <5>1
        <5> QED BY <3>2, <4>1, <5>2 DEF Latest
      <4> QED BY <3>2, <4>1 DEF Latest
    <3>4. x \in more OBVIOUS
    <3>5. MaxSent[s[j].src] > 0 BY DEF Knows
    <3> QED BY <3>1, <3>2, <3>3, <3>4, <3>5
  <2> QED BY <2>1, <2>2
<1>9. ASSUME NEW x \in more, x[1] = n PROVE \E i \in 1 .. Len(t) : t[i].src = x[2].src
  <2>1. CASE x[2].src = p.src
    <3>1. t[1].src = p.src BY <1>6
    <3> QED BY <1>7, <2>1, <3>1
  <2>2. CASE x[2].src # p.src
    <3>1. x \in acc BY <1>1, <1>2, <1>3, <2>2
    <3>2. PICK j \in 1 .. Len(s) : s[j].src = x[2].src BY <1>9, <3>1 DEF Knows
    <3>3. PICK i \in 2 .. Len(t) : t[i] = s[j] BY <1>6, <2>2, <3>2
    <3>4. i \in 1 .. Len(t) BY <1>7
    <3> QED BY <3>2, <3>3, <3>4
  <2> QED BY <2>1, <2>2
<1> QED BY <1>6, <1>8, <1>9 DEF Knows

\* What a node accepted of a sender was made before what it hears next of it.
LEMMA HeardInOrder ==
  ASSUME NEW C, NEW H, OneWay(C, H), WayInv(C), NEW l \in Links, air[l] # <<>>,
         NEW p, p = Head(air[l]), p.src # l[2]
  PROVE  /\ p \in Packets /\ MaxSent[p.src] > 0
         /\ \A x \in accepted : x[1] = l[2] /\ x[2].src = p.src => NotAfter(x[2], p)
<1>1. /\ air \in Air /\ AllSent(C, air, boot, sent) /\ Ordered(C, air, accepted)
  BY DEF WayInv, RouteInv
<1>2. p = air[l][1] /\ 1 \in 1 .. Len(air[l]) /\ p \in Packets BY <1>1 DEF Air
<1>3. Past(p, boot, sent) /\ (l \in C[p.src] \/ l[2] = p.src) BY <1>1, <1>2 DEF AllSent
<1>4. p.src \in Nodes /\ MaxSent[p.src] > 0 /\ l \in C[p.src] BY <1>2, <1>3 DEF Packets, Past
<1>5. p \in Frames(air, p.src, l) BY <1>2 DEF Frames
<1>6. l \in Above(C[p.src], l) BY <1>4, AboveSelf
<1> QED BY <1>1, <1>2, <1>4, <1>5, <1>6 DEF Ordered

----------------------------------------------------------------------------
(* No packet is treated twice                                              *)

CacheInv(C) == WayInv(C) /\ Remembers

LEMMA CacheInit == ASSUME NEW C, NEW H, OneWay(C, H), Init PROVE CacheInv(C)
<1>1. WayInv(C) BY WayInit
<1>2. accepted = {} /\ seqnos = [n \in Nodes |-> <<>>] BY DEF Init
<1>3. seqnos \in [Nodes -> Seq(Entries)] BY <1>2
<1>4. ASSUME NEW n \in Nodes PROVE Knows(n, seqnos[n], accepted)
  <2>1. seqnos[n] = <<>> BY <1>2
  <2>2. Len(seqnos[n]) = 0 BY <2>1
  <2>3. MaxSeqnos \in Nat BY SourceRouteAssumption
  <2> QED BY <1>2, <2>2, <2>3 DEF Knows
<1> QED BY <1>1, <1>3, <1>4 DEF CacheInv, Remembers

\* The receiver of l takes the first frame on it.
LEMMA RemembersAccept ==
  ASSUME NEW C, NEW H, OneWay(C, H), WayInv(C), Remembers, NEW l \in Links, Accept(l)
  PROVE  Remembers'
<1> DEFINE n == l[2]
           p == Head(air[l])
           new == <<n, Name(p)>>
<1>1. /\ air[l] # <<>> /\ ~ IsDuplicate(n, p)
      /\ seqnos' = [seqnos EXCEPT ![n] = Registered(n, p)]
      /\ accepted' = accepted \cup {new}
  BY DEF Accept
<1>2. n \in Nodes BY SourceRouteAssumption
<1>3. p.src # n BY <1>1 DEF IsDuplicate
<1>4. seqnos \in [Nodes -> Seq(Entries)] /\ \A m \in Nodes : Knows(m, seqnos[m], accepted)
  BY DEF Remembers
<1>5. new[1] = n OBVIOUS
<1>6. /\ p \in Packets /\ MaxSent[p.src] > 0
      /\ \A x \in accepted : x[1] = n /\ x[2].src = p.src => NotAfter(x[2], p)
  <2>1. p = Head(air[l]) /\ n = l[2] OBVIOUS
  <2> HIDE DEF p, n, new
  <2>2. /\ p \in Packets /\ MaxSent[p.src] > 0
        /\ \A x \in accepted : x[1] = l[2] /\ x[2].src = p.src => NotAfter(x[2], p)
    BY <1>1, <1>3, <2>1, HeardInOrder
  <2> QED BY <2>1, <2>2
<1>7. accepted' = accepted \cup {<<n, Name(p)>>} BY <1>1
<1> HIDE DEF n, p, new
<1>8. seqnos[n] \in Seq(Entries) /\ Knows(n, seqnos[n], accepted) BY <1>2, <1>4
<1>9. Registered(n, p) \in Seq(Entries) /\ Knows(n, Registered(n, p), accepted')
  BY <1>2, <1>6, <1>7, <1>8, KnowsAccepted
<1>10. ASSUME NEW m \in Nodes PROVE Knows(m, seqnos'[m], accepted')
  <2>1. CASE m = n BY <1>1, <1>2, <1>4, <1>9, <2>1
  <2>2. CASE m # n
    <3>1. seqnos'[m] = seqnos[m] BY <1>1, <1>4, <2>2
    <3>2. \A x : x[1] = m => (x \in accepted <=> x \in accepted') BY <1>1, <1>5, <2>2
    <3>3. Knows(m, seqnos[m], accepted) BY <1>4
    <3>4. Knows(m, seqnos[m], accepted') BY <3>2, <3>3, KnowsSame
    <3> QED BY <3>1, <3>4
  <2> QED BY <2>1, <2>2
<1>11. seqnos' \in [Nodes -> Seq(Entries)] BY <1>1, <1>4, <1>9
<1> QED BY <1>10, <1>11 DEF Remembers

\* A node that restarts remembers nothing, and has accepted nothing since.
LEMMA RemembersRestart ==
  ASSUME Remembers, NEW n \in Nodes, Restart(n) PROVE Remembers'
<1>1. /\ seqnos' = [seqnos EXCEPT ![n] = <<>>]
      /\ accepted' = {x \in accepted : x[1] # n}
  BY DEF Restart
<1>2. seqnos \in [Nodes -> Seq(Entries)] /\ \A m \in Nodes : Knows(m, seqnos[m], accepted)
  BY DEF Remembers
<1>3. ASSUME NEW m \in Nodes PROVE Knows(m, seqnos'[m], accepted')
  <2>1. CASE m = n
    <3>1. seqnos'[m] = <<>> BY <1>1, <1>2, <2>1
    <3>2. Len(seqnos'[m]) = 0 BY <3>1
    <3>3. \A x \in accepted' : x[1] # m BY <1>1, <2>1
    <3>4. MaxSeqnos \in Nat BY SourceRouteAssumption
    <3> QED BY <3>2, <3>3, <3>4 DEF Knows
  <2>2. CASE m # n
    <3>1. seqnos'[m] = seqnos[m] BY <1>1, <1>2, <2>2
    <3>2. \A x : x[1] = m => (x \in accepted <=> x \in accepted') BY <1>1, <2>2
    <3>3. Knows(m, seqnos[m], accepted) BY <1>2
    <3>4. Knows(m, seqnos[m], accepted') BY <3>2, <3>3, KnowsSame
    <3> QED BY <3>1, <3>4
  <2> QED BY <2>1, <2>2
<1>4. seqnos' \in [Nodes -> Seq(Entries)] BY <1>1, <1>2
<1> QED BY <1>3, <1>4 DEF Remembers

LEMMA CacheNext ==
  ASSUME NEW C, NEW H, OneWay(C, H), CacheInv(C), [Next]_vars PROVE CacheInv(C)'
<1>1. WayInv(C) /\ Remembers BY DEF CacheInv
<1>2. WayInv(C)' BY <1>1, WayNext
<1>3. UNCHANGED <<seqnos, accepted>> => Remembers' BY <1>1 DEF Remembers
<1>4. ASSUME NEW d \in Nodes, NEW r \in RoutesTo(d),
             \/ SendSetup(d, r) \/ SendAck(d, r) \/ SendMngt(d, r)
             \/ \E k \in 2 .. Cardinality(Nodes) : SendMult(d, r, k)
      PROVE  UNCHANGED <<seqnos, accepted>>
  BY <1>4 DEF SendSetup, SendAck, SendMngt, SendAlong, SendMult
<1>5. ASSUME NEW n \in Nodes, Report(n) PROVE UNCHANGED <<seqnos, accepted>>
  BY <1>5 DEF Report
<1>6. ASSUME NEW l \in Links, Discard(l) \/ Lose(l) \/ Repeat(l) PROVE UNCHANGED <<seqnos, accepted>>
  BY <1>6 DEF Discard, Lose, Repeat
<1>7. UNCHANGED vars => UNCHANGED <<seqnos, accepted>> BY DEF vars
<1>8. ASSUME NEW l \in Links, Accept(l) PROVE Remembers' BY <1>1, <1>8, RemembersAccept
<1>9. ASSUME NEW n \in Nodes, Restart(n) PROVE Remembers' BY <1>1, <1>9, RemembersRestart
<1>10. Remembers'
  BY <1>3, <1>4, <1>5, <1>6, <1>7, <1>8, <1>9 DEF Next
<1> QED BY <1>2, <1>10 DEF CacheInv

\* What the cache says about the packet a node hears next.
LEMMA CacheSays ==
  ASSUME NEW C, NEW H, OneWay(C, H), CacheInv(C), NEW l \in Links, air[l] # <<>>,
         NEW p, p = Head(air[l]), p.src # l[2]
  PROVE  /\ p.src \in Nodes /\ p.boot \in Nat /\ p.no \in Nat
         /\ Name(p) = [src |-> p.src, boot |-> p.boot, no |-> p.no]
         /\ accepted \subseteq Nodes \X Names
         /\ l[2] \in Nodes /\ Knows(l[2], seqnos[l[2]], accepted)
         /\ \A i : i \in From(l[2], p.src) <=>
                     i \in 1 .. Len(seqnos[l[2]]) /\ seqnos[l[2]][i].src = p.src
         /\ \A x \in accepted : x[1] = l[2] /\ x[2].src = p.src => NotAfter(x[2], p)
<1>1. WayInv(C) /\ Remembers BY DEF CacheInv
<1>2. accepted \subseteq Nodes \X Names BY <1>1 DEF WayInv, HeardFrom
<1>3. l[2] \in Nodes BY SourceRouteAssumption
<1>4. Knows(l[2], seqnos[l[2]], accepted) BY <1>1, <1>3 DEF Remembers
<1>5. p \in Packets /\ \A x \in accepted : x[1] = l[2] /\ x[2].src = p.src => NotAfter(x[2], p)
  BY <1>1, HeardInOrder
<1>6. /\ p.src \in Nodes /\ p.boot \in Nat /\ p.no \in Nat
      /\ Name(p) = [src |-> p.src, boot |-> p.boot, no |-> p.no]
  BY <1>5 DEF Packets, Name
<1>7. seqnos[l[2]] \in Seq(Entries) BY <1>1, <1>3 DEF Remembers
<1>8. DOMAIN seqnos[l[2]] = 1 .. Len(seqnos[l[2]]) BY <1>7
<1> QED BY <1>2, <1>3, <1>4, <1>5, <1>6, <1>8 DEF From

LEMMA CacheOnce ==
  ASSUME NEW C, NEW H, OneWay(C, H), CacheInv(C) PROVE AtMostOnce
<1> SUFFICES ASSUME NEW l \in Links, air[l] # <<>>, <<l[2], Name(Head(air[l]))>> \in accepted
             PROVE  IsDuplicate(l[2], Head(air[l]))
  BY DEF AtMostOnce
<1> DEFINE p == Head(air[l])
           n == l[2]
           it == <<n, Name(p)>>
<1>1. CASE p.src = n BY <1>1 DEF IsDuplicate
<1>2. CASE p.src # n
  <2>1. p = Head(air[l]) /\ n = l[2] /\ it \in accepted /\ it[1] = n /\ it[2] = Name(p) OBVIOUS
  <2> HIDE DEF p, n, it
  <2>2. /\ p.src \in Nodes /\ p.boot \in Nat /\ p.no \in Nat
        /\ Name(p) = [src |-> p.src, boot |-> p.boot, no |-> p.no]
        /\ accepted \subseteq Nodes \X Names
        /\ l[2] \in Nodes /\ Knows(l[2], seqnos[l[2]], accepted)
        /\ \A i : i \in From(l[2], p.src) <=>
                    i \in 1 .. Len(seqnos[l[2]]) /\ seqnos[l[2]][i].src = p.src
        /\ \A x \in accepted : x[1] = l[2] /\ x[2].src = p.src => NotAfter(x[2], p)
    BY <1>2, <2>1, CacheSays
  <2>3. it[2].src = p.src /\ it[2].boot = p.boot /\ it[2].no = p.no BY <2>1, <2>2
  <2>4. Knows(n, seqnos[n], accepted) BY <2>1, <2>2
  <2>5. PICK i \in 1 .. Len(seqnos[n]) : seqnos[n][i].src = p.src BY <2>1, <2>3, <2>4 DEF Knows
  <2>6. PICK x \in accepted : /\ Latest(n, accepted, x) /\ x[2].src = p.src
                              /\ x[2].no % NumberMod = seqnos[n][i].seq
    BY <2>4, <2>5 DEF Knows
  <2>7. NotAfter(it[2], x[2]) /\ x[1] = n BY <2>1, <2>3, <2>6 DEF Latest
  <2>8. NotAfter(x[2], p) BY <2>1, <2>2, <2>6, <2>7
  <2>9. x[2].boot \in Nat /\ x[2].no \in Nat BY <2>2 DEF Names
  <2>10. x[2].no = p.no BY <2>2, <2>3, <2>7, <2>8, <2>9 DEF NotAfter
  <2>11. i \in From(n, p.src) BY <2>1, <2>2, <2>5
  <2>12. IsDuplicate(n, p) BY <2>6, <2>10, <2>11 DEF IsDuplicate
  <2> QED BY <2>1, <2>12
<1> QED BY <1>1, <1>2

LEMMA CacheFresh ==
  ASSUME NEW C, NEW H, OneWay(C, H), CacheInv(C) PROVE NewIsNotTakenForOld
<1> DEFINE Old(n, p, x) ==
             /\ x[1] = n /\ x[2].src = p.src
             /\ x[2].no % NumberMod = p.no % NumberMod
             /\ x[2].boot # p.boot \/ x[2].no + NumberMod <= p.no
             /\ \A y \in accepted :
                  y[1] = n /\ y[2].src = p.src =>
                    y[2].boot < x[2].boot \/ (y[2].boot = x[2].boot /\ y[2].no <= x[2].no)
<1> SUFFICES ASSUME NEW l \in Links, air[l] # <<>>, NEW p, p = Head(air[l]), NEW n, n = l[2],
                    IsDuplicate(n, p), <<n, Name(p)>> \notin accepted, p.src # n
             PROVE  \E x \in accepted : Old(n, p, x)
  BY DEF NewIsNotTakenForOld
<1>1. /\ p.src \in Nodes /\ p.boot \in Nat /\ p.no \in Nat
      /\ Name(p) = [src |-> p.src, boot |-> p.boot, no |-> p.no]
      /\ accepted \subseteq Nodes \X Names
      /\ l[2] \in Nodes /\ Knows(l[2], seqnos[l[2]], accepted)
      /\ \A i : i \in From(l[2], p.src) <=>
                  i \in 1 .. Len(seqnos[l[2]]) /\ seqnos[l[2]][i].src = p.src
      /\ \A x \in accepted : x[1] = l[2] /\ x[2].src = p.src => NotAfter(x[2], p)
  BY CacheSays
<1>2. PICK i \in From(n, p.src) : seqnos[n][i].seq = p.no % NumberMod BY DEF IsDuplicate
<1>3. i \in 1 .. Len(seqnos[n]) /\ seqnos[n][i].src = p.src BY <1>1
<1>4. PICK x \in accepted : /\ Latest(n, accepted, x) /\ x[2].src = p.src
                            /\ x[2].no % NumberMod = p.no % NumberMod
  BY <1>1, <1>2, <1>3 DEF Knows
<1>5. /\ x[1] = n
      /\ \A y \in accepted : y[1] = n /\ y[2].src = p.src => NotAfter(y[2], x[2])
  BY <1>4 DEF Latest
<1>6. NotAfter(x[2], p) BY <1>1, <1>4, <1>5
<1>7. x \in Nodes \X Names BY <1>1
<1>8. x = <<x[1], x[2]>> /\ x[2] \in Names BY <1>7
<1>9. /\ x[2].boot \in Nat /\ x[2].no \in Nat
      /\ x[2] = [src |-> x[2].src, boot |-> x[2].boot, no |-> x[2].no]
  BY <1>8 DEF Names
<1>10. ASSUME x[2].boot = p.boot PROVE x[2].no + NumberMod <= p.no
  <2>1. x[2].no # p.no
    <3>1. SUFFICES ASSUME x[2].no = p.no PROVE FALSE OBVIOUS
    <3>2. x[2] = Name(p) BY <1>1, <1>4, <1>9, <1>10, <3>1
    <3> QED BY <1>5, <1>8, <3>2
  <2>2. x[2].no < p.no BY <1>1, <1>6, <1>9, <1>10, <2>1 DEF NotAfter
  <2> DEFINE a == x[2].no
             b == p.no
  <2>3. a \in Nat /\ b \in Nat /\ a < b /\ a % NumberMod = b % NumberMod
        /\ NumberMod \in Nat \ {0}
    BY <1>1, <1>4, <1>9, <2>2, SourceRouteAssumption
  <2> HIDE DEF a, b
  <2>4. a + NumberMod <= b BY <2>3, SameRemainder
  <2> QED BY <2>4 DEF a, b
<1>11. Old(n, p, x) BY <1>4, <1>5, <1>10 DEF NotAfter
<1> QED BY <1>11

\* A node takes no packet for new twice, whatever is lost, repeated or
\* restarted, wherever the senders fit in the cache and the packets of each
\* have one way: the number of a sender in received_seqnos is that of the
\* latest packet of it that the node heard, and no earlier one can follow.
THEOREM TreatedOnce ==
  ASSUME NEW C, NEW H, OneWay(C, H) PROVE Spec => []AtMostOnce
<1>1. Init => CacheInv(C) BY CacheInit
<1>2. CacheInv(C) /\ [Next]_vars => CacheInv(C)' BY CacheNext
<1>3. CacheInv(C) => AtMostOnce BY CacheOnce
<1> QED BY <1>1, <1>2, <1>3, PTL DEF Spec

\* Under the same conditions a node takes what is new for seen only where the
\* 8 bits of the number came round since the latest packet of the sender, or
\* the sender restarted.
THEOREM TakenForNew ==
  ASSUME NEW C, NEW H, OneWay(C, H) PROVE Spec => []NewIsNotTakenForOld
<1>1. Init => CacheInv(C) BY CacheInit
<1>2. CacheInv(C) /\ [Next]_vars => CacheInv(C)' BY CacheNext
<1>3. CacheInv(C) => NewIsNotTakenForOld BY CacheFresh
<1> QED BY <1>1, <1>2, <1>3, PTL DEF Spec
=============================================================================
