---------------------------- MODULE DiscoveryProofs ----------------------------
(***************************************************************************)
(* What nodes find out of each other and of the way: the next hops of      *)
(* SymmcheckCD, the neighbors of ImprovedNd, and the queues of Collect,    *)
(* for any nodes, links, losses and delays.                                *)
(*                                                                         *)
(* Next hops.  A metric never gets worse, so what a beacon underway says   *)
(* is never better than what its sender has now (BeaconsHonest), and a     *)
(* node that believes it is still above its next hop whenever it gets to   *)
(* it (Downhill).  In a set of nodes the one with the least metric has its *)
(* next hop outside.                                                       *)
(*                                                                         *)
(* Neighbors.  As long as no gap was wider than the room in the history,   *)
(* its ones and the zeros before its filled part are what the counters     *)
(* say (Matches); the rest follows the sums over parts of a history.       *)
(* Each beacon that may be missed is waited for as long as the last one    *)
(* told, so that the time left to an entry (Room) is more than the time to *)
(* the beacons that have to get lost before it goes (StayInv).             *)
(*                                                                         *)
(* Queues.  Who has no parent has a metric that says so (Rooted), so that  *)
(* the update that finds one is the update that sends what waits (Moving), *)
(* and who sends has a timer (Timed).  Each handler keeps the three of the *)
(* node it runs at (Kept), and no handler touches another node.            *)
(*                                                                         *)
(* Acknowledgements.  As long as numbers only grow, what is underway with  *)
(* the number of now is for the first packet of the queue (Firm), and an   *)
(* acknowledgement with it comes from a node that has had that packet      *)
(* (AckRight): a node with another first packet has another number, but    *)
(* for one that lost a packet to its lifetime.  The sink remembers what it *)
(* takes, and forgets nothing before there are more packets than it can    *)
(* remember (DeliveryInv).                                                 *)
(*                                                                         *)
(* The table that is copied from Collect's list.  A pass marks who is      *)
(* still listed, adds who is new and then drops who was not marked; with   *)
(* nobody twice in either (TableInv) each neighbor is met once, so that    *)
(* what a pass leaves can be told entry by entry (PassLeaves).             *)
(***************************************************************************)
EXTENDS SymmcheckCD, ImprovedNd, Collect, CollectNd, NumberLemmas

----------------------------------------------------------------------------
(* SymmcheckCD: the invariant                                              *)

\* Every step towards the controller makes the hop count smaller.
Downhill ==
  restarts = 0 => \A n \in Nodes \ {Controller} :
    Routed(n) => nextHop[n] \in Nodes /\ metric[nextHop[n]] < metric[n]

\* What n lists, n can hear.
Hears(n, S) == \A k \in S : <<k, n>> \in Links

NeighborsHeard == \A n \in Nodes : Hears(n, neighbors[n])

BeaconsHonest ==
  \A l \in Links : \A i \in 1 .. Len(air[l]) :
    /\ restarts = 0 => metric[l[1]] <= air[l][i].metric
    /\ Hears(l[1], air[l][i].listed)

IInv ==
  /\ TypeOK
  /\ metric[Controller] = 0
  /\ NeighborsHeard
  /\ BeaconsHonest
  /\ Downhill
  /\ SymmetricNextHop

-----------------------------------------------------------------------------

\* A queue of beacons keeps what all its elements have when one is taken
\* from its head.
LEMMA TailBeacons ==
  ASSUME NEW q \in Seq(Beacons), q # <<>>
  PROVE  /\ Head(q) \in Beacons /\ Head(q) = q[1] /\ Len(q) \in Nat \ {0}
         /\ Tail(q) \in Seq(Beacons)
         /\ Len(Tail(q)) = Len(q) - 1
         /\ \A i \in 1 .. Len(Tail(q)) : Tail(q)[i] = q[i + 1]
  OBVIOUS

\* Beacons leave the head of a queue: what is left was there before.
LEMMA TailKeepsHonest ==
  ASSUME TypeOK, BeaconsHonest, NEW l \in Links, air[l] # <<>>,
         air' = [air EXCEPT ![l] = Tail(@)]
  PROVE  /\ air' \in [Links -> Seq(Beacons)]
         /\ \A k \in Links : \A i \in 1 .. Len(air'[k]) :
              /\ restarts = 0 => metric[k[1]] <= air'[k][i].metric
              /\ Hears(k[1], air'[k][i].listed)
<1>1. air[l] \in Seq(Beacons)
  BY DEF TypeOK
<1>2. air' \in [Links -> Seq(Beacons)]
  BY <1>1, TailBeacons DEF TypeOK
<1>3. ASSUME NEW k \in Links, NEW i \in 1 .. Len(air'[k])
      PROVE  /\ restarts = 0 => metric[k[1]] <= air'[k][i].metric
             /\ Hears(k[1], air'[k][i].listed)
  <2>1. CASE k = l
    <3>1. air'[k] = Tail(air[l])
      BY <2>1 DEF TypeOK
    <3>2. /\ Len(air[l]) \in Nat \ {0}
          /\ Len(Tail(air[l])) = Len(air[l]) - 1
          /\ \A j \in 1 .. Len(Tail(air[l])) : Tail(air[l])[j] = air[l][j + 1]
      BY <1>1, TailBeacons
    <3>3. i \in 1 .. Len(Tail(air[l]))
      BY <1>3, <3>1
    <3>4. i + 1 \in 1 .. Len(air[l])
      <4>1. i \in 1 .. Len(air[l]) - 1
        BY <3>2, <3>3
      <4> QED
        BY <3>2, <4>1
    <3>5. air'[k][i] = air[l][i + 1]
      <4>1. Tail(air[l])[i] = air[l][i + 1]
        BY <3>2, <3>3
      <4> QED
        BY <3>1, <4>1
    <3> QED
      BY <2>1, <3>4, <3>5 DEF BeaconsHonest
  <2>2. CASE k # l
    <3>1. air'[k] = air[k]
      BY <2>2 DEF TypeOK
    <3> QED
      BY <1>3, <3>1 DEF BeaconsHonest
  <2> QED
    BY <2>1, <2>2
<1> QED
  BY <1>2, <1>3

\* A beacon that is sent says what its sender has.
LEMMA SendKeepsHonest ==
  ASSUME TypeOK, BeaconsHonest, NeighborsHeard, SymmcheckAssumption,
         NEW n \in Nodes, SendBeacon(n)
  PROVE  /\ air' \in [Links -> Seq(Beacons)]
         /\ \A l \in Links : \A i \in 1 .. Len(air'[l]) :
              /\ restarts = 0 => metric[l[1]] <= air'[l][i].metric
              /\ Hears(l[1], air'[l][i].listed)
<1> DEFINE b == Beacon(n)
<1>1. b \in Beacons /\ b.metric = metric[n] /\ b.listed = neighbors[n]
  BY DEF TypeOK, Beacons, Beacon
<1>2. \A l \in Links : air[l] \in Seq(Beacons)
  BY DEF TypeOK
<1>3. \A l \in Links : air'[l] = IF l[1] = n /\ Len(air[l]) < MaxTransit
                                 THEN Append(air[l], b) ELSE air[l]
  BY DEF SendBeacon
<1>4. air' \in [Links -> Seq(Beacons)]
  <2>1. \A l \in Links : Append(air[l], b) \in Seq(Beacons)
    <3> HIDE DEF b
    <3> QED
      BY <1>1, <1>2
  <2>2. \A l \in Links : air'[l] \in Seq(Beacons)
    BY <1>2, <1>3, <2>1
  <2> QED
    BY <2>2 DEF SendBeacon
<1>5. ASSUME NEW l \in Links, NEW i \in 1 .. Len(air'[l])
      PROVE  /\ restarts = 0 => metric[l[1]] <= air'[l][i].metric
             /\ Hears(l[1], air'[l][i].listed)
  <2>1. CASE i \in 1 .. Len(air[l]) /\ air'[l][i] = air[l][i]
    BY <2>1 DEF BeaconsHonest
  <2>2. CASE l[1] = n /\ air'[l][i] = b
    <3>1. metric[n] \in Int
      BY DEF TypeOK
    <3> QED
      BY <1>1, <2>2, <3>1 DEF NeighborsHeard
  <2>3. \/ i \in 1 .. Len(air[l]) /\ air'[l][i] = air[l][i]
        \/ l[1] = n /\ air'[l][i] = b
    <3>1. CASE l[1] = n /\ Len(air[l]) < MaxTransit
      <4>1. air'[l] = Append(air[l], b)
        BY <1>3, <3>1
      <4> HIDE DEF b
      <4> QED
        BY <1>1, <1>2, <1>5, <3>1, <4>1
    <3>2. CASE ~ (l[1] = n /\ Len(air[l]) < MaxTransit)
      BY <1>3, <1>5, <3>2
    <3> QED
      BY <3>1, <3>2
  <2> QED
    BY <2>1, <2>2, <2>3
<1> QED
  BY <1>4, <1>5

-----------------------------------------------------------------------------

LEMMA InitHolds == ASSUME SymmcheckAssumption, Init PROVE IInv
<1>1. TypeOK
  BY DEF SymmcheckAssumption, Init, InitMetric, TypeOK
<1>2. metric[Controller] = 0 /\ NeighborsHeard
  BY DEF SymmcheckAssumption, Init, InitMetric, NeighborsHeard, Hears
<1>3. BeaconsHonest
  BY DEF Init, BeaconsHonest
<1>4. \A n \in Nodes \ {Controller} : ~ Routed(n)
  BY DEF Init, InitMetric, Routed
<1> QED
  BY <1>1, <1>2, <1>3, <1>4 DEF IInv, Downhill, SymmetricNextHop

\* A step that leaves the metrics, the next hops and the neighbors alone
\* keeps what is said of them.
LEMMA SameRoutes ==
  ASSUME IInv, UNCHANGED <<metric, nextHop, neighbors, restarts>>
  PROVE  /\ metric'[Controller] = 0
         /\ NeighborsHeard' /\ Downhill' /\ SymmetricNextHop'
BY DEF IInv, NeighborsHeard, Hears, Downhill, SymmetricNextHop, Routed

LEMMA SendHolds ==
  ASSUME SymmcheckAssumption, IInv, NEW n \in Nodes, SendBeacon(n),
         UNCHANGED <<metric, nextHop, neighbors, restarts>>,
         announced' \in [Nodes -> Nat \cup {Forced}], urgent' \in [Nodes -> BOOLEAN]
  PROVE  IInv'
<1>1. TypeOK /\ BeaconsHonest /\ NeighborsHeard
  BY DEF IInv
<1>2. /\ air' \in [Links -> Seq(Beacons)]
      /\ \A l \in Links : \A i \in 1 .. Len(air'[l]) :
           /\ restarts = 0 => metric[l[1]] <= air'[l][i].metric
           /\ Hears(l[1], air'[l][i].listed)
  BY <1>1, SendKeepsHonest
<1>3. TypeOK'
  BY <1>1, <1>2 DEF TypeOK
<1>4. BeaconsHonest'
  BY <1>2 DEF BeaconsHonest, Hears
<1> QED
  BY <1>3, <1>4, SameRoutes DEF IInv

LEMMA DiscoverHolds ==
  ASSUME SymmcheckAssumption, IInv, NEW m \in Nodes, NEW n \in Nodes, Discover(n, m)
  PROVE  IInv'
<1>1. TypeOK'
  BY DEF IInv, TypeOK, Discover
<1>2. NeighborsHeard'
  BY DEF IInv, TypeOK, Discover, NeighborsHeard, Hears
<1>3. BeaconsHonest'
  BY DEF IInv, Discover, BeaconsHonest, Hears
<1>4. metric'[Controller] = 0 /\ Downhill' /\ SymmetricNextHop'
  BY DEF IInv, Discover, Downhill, SymmetricNextHop, Routed
<1> QED
  BY <1>1, <1>2, <1>3, <1>4 DEF IInv

\* A node that believes a beacon comes out above the sender, and lower than
\* it was.
LEMMA Believed ==
  ASSUME SymmcheckAssumption, IInv, NEW m \in Nodes, NEW n \in Nodes,
         <<m, n>> \in Links, air[<<m, n>>] # <<>>,
         Listed(n, Head(air[<<m, n>>])), Better(n, Head(air[<<m, n>>]))
  PROVE  LET k == Plus1(Head(air[<<m, n>>]).metric)
         IN  /\ k \in 0 .. MaxMetric /\ k < metric[n]
             /\ restarts = 0 => metric[m] < k
             /\ n # Controller /\ <<n, m>> \in Links
<1> DEFINE b == Head(air[<<m, n>>])
<1>1. air[<<m, n>>] \in Seq(Beacons)
  BY DEF IInv, TypeOK
<1>2. b \in Beacons /\ b = air[<<m, n>>][1] /\ Len(air[<<m, n>>]) \in Nat \ {0}
  BY <1>1, TailBeacons
<1>3. b.metric \in 0 .. MaxMetric /\ b.listed \in SUBSET Nodes
  BY <1>2 DEF Beacons
<1>4. 1 \in 1 .. Len(air[<<m, n>>])
  BY <1>2
<1>5. (restarts = 0 => metric[m] <= b.metric) /\ Hears(m, b.listed)
  <2>1. <<m, n>>[1] = m
    OBVIOUS
  <2> QED
    BY <1>2, <1>4, <2>1 DEF IInv, BeaconsHonest
<1>6. metric[m] \in 0 .. MaxMetric /\ metric[n] \in 0 .. MaxMetric /\ MaxMetric \in Nat
  BY DEF IInv, TypeOK, SymmcheckAssumption
<1>7. Plus1(b.metric) < metric[n] /\ Plus1(b.metric) > b.metric
  BY DEF Better
<1>8. /\ Plus1(b.metric) \in 0 .. MaxMetric
      /\ 0 < Plus1(b.metric)
      /\ restarts = 0 => metric[m] < Plus1(b.metric)
  <2> HIDE DEF b
  <2> QED
    BY <1>3, <1>5, <1>6, <1>7 DEF Plus1
<1>9. n # Controller
  BY <1>6, <1>7, <1>8 DEF IInv
<1>10. <<n, m>> \in Links
  BY <1>5 DEF Hears, Listed
<1> QED
  BY <1>7, <1>8, <1>9, <1>10

LEMMA InputHolds ==
  ASSUME SymmcheckAssumption, IInv, NEW m \in Nodes, NEW n \in Nodes, Input(m, n)
  PROVE  IInv'
<1> DEFINE b == Head(air[<<m, n>>])
           take == Listed(n, b) /\ Better(n, b)
<1>1. /\ <<m, n>> \in Links /\ air[<<m, n>>] # <<>>
      /\ air' = [air EXCEPT ![<<m, n>>] = Tail(@)]
      /\ UNCHANGED <<neighbors, restarts>>
  BY DEF Input
<1>2. /\ air' \in [Links -> Seq(Beacons)]
      /\ \A k \in Links : \A i \in 1 .. Len(air'[k]) :
           /\ restarts = 0 => metric[k[1]] <= air'[k][i].metric
           /\ Hears(k[1], air'[k][i].listed)
  <2>1. TypeOK /\ BeaconsHonest
    BY DEF IInv
  <2> QED
    BY <1>1, <2>1, TailKeepsHonest
<1>3. urgent' \in [Nodes -> BOOLEAN] /\ announced' \in [Nodes -> Nat \cup {Forced}]
  BY DEF Input, IInv, TypeOK
<1>4. NeighborsHeard'
  BY <1>1 DEF IInv, NeighborsHeard, Hears
<1>5. CASE ~ take
  <2>1. UNCHANGED <<metric, nextHop, neighbors, restarts>>
    BY <1>1, <1>5 DEF Input
  <2>2. TypeOK'
    BY <1>1, <1>2, <1>3, <2>1 DEF IInv, TypeOK
  <2>3. BeaconsHonest'
    BY <1>1, <1>2, <2>1 DEF BeaconsHonest, Hears
  <2> QED
    BY <2>1, <2>2, <2>3, SameRoutes DEF IInv
<1>6. CASE take
  <2> DEFINE k == Plus1(b.metric)
  <2>1. /\ k \in 0 .. MaxMetric /\ k < metric[n]
        /\ restarts = 0 => metric[m] < k
        /\ n # Controller /\ <<n, m>> \in Links
    BY <1>1, <1>6, Believed
  <2>2. /\ metric' = [metric EXCEPT ![n] = k]
        /\ nextHop' = [nextHop EXCEPT ![n] = m]
    BY <1>6 DEF Input
  <2> HIDE DEF k, take, b
  <2>3. metric \in [Nodes -> 0 .. MaxMetric] /\ nextHop \in [Nodes -> Nodes \cup {None}]
    BY DEF IInv, TypeOK
  <2>4. MaxMetric \in Nat
    BY DEF SymmcheckAssumption
  <2>5. TypeOK'
    BY <1>1, <1>2, <1>3, <2>1, <2>2, <2>3 DEF IInv, TypeOK
  <2>6. /\ metric'[n] = k /\ nextHop'[n] = m
        /\ restarts = 0 => m # n
        /\ \A x \in Nodes : x # n => metric'[x] = metric[x] /\ nextHop'[x] = nextHop[x]
        /\ \A x \in Nodes : metric'[x] <= metric[x] /\ metric[x] \in Int /\ metric'[x] \in Int
    BY <2>1, <2>2, <2>3, <2>4
  <2>7. metric'[Controller] = 0
    BY <2>1, <2>6 DEF IInv, SymmcheckAssumption
  <2>8. BeaconsHonest'
    <3>1. ASSUME NEW l \in Links, NEW i \in 1 .. Len(air'[l])
          PROVE  /\ restarts = 0 => metric'[l[1]] <= air'[l][i].metric
                /\ Hears(l[1], air'[l][i].listed)
      <4>1. /\ restarts = 0 => metric[l[1]] <= air'[l][i].metric
            /\ Hears(l[1], air'[l][i].listed)
        BY <1>2, <3>1
      <4>2. l[1] \in Nodes
        BY DEF SymmcheckAssumption
      <4>3. air'[l][i] \in Beacons
        BY <1>2, <3>1
      <4>4. air'[l][i].metric \in Int
        BY <2>4, <4>3 DEF Beacons
      <4> QED
        BY <2>6, <4>1, <4>2, <4>4
    <3> QED
      BY <1>1, <3>1 DEF BeaconsHonest, Hears
  <2>9. Downhill'
    <3>1. ASSUME restarts = 0, NEW x \in Nodes \ {Controller}, metric'[x] # MaxMetric
          PROVE  nextHop'[x] \in Nodes /\ metric'[nextHop'[x]] < metric'[x]
      <4>1. CASE x = n
        BY <2>1, <2>6, <3>1, <4>1
      <4>2. CASE x # n
        <5>1. nextHop[x] \in Nodes /\ metric[nextHop[x]] < metric[x]
          BY <2>6, <3>1, <4>2 DEF IInv, Downhill, Routed
        <5> QED
          BY <2>6, <4>2, <5>1
      <4> QED
        BY <4>1, <4>2
    <3> QED
      BY <1>1, <3>1 DEF Downhill, Routed
  <2>10. SymmetricNextHop'
    BY <1>1, <2>1, <2>6 DEF IInv, SymmetricNextHop, Routed
  <2> QED
    BY <1>4, <2>5, <2>7, <2>8, <2>9, <2>10 DEF IInv
<1> QED
  BY <1>5, <1>6

LEMMA LoseHolds ==
  ASSUME SymmcheckAssumption, IInv, NEW m \in Nodes, NEW n \in Nodes, Lose(m, n)
  PROVE  IInv'
<1>1. TypeOK /\ BeaconsHonest
  BY DEF IInv
<1>2. /\ air' \in [Links -> Seq(Beacons)]
      /\ \A l \in Links : \A i \in 1 .. Len(air'[l]) :
           /\ restarts = 0 => metric[l[1]] <= air'[l][i].metric
           /\ Hears(l[1], air'[l][i].listed)
  BY <1>1, TailKeepsHonest DEF Lose
<1>3. TypeOK'
  BY <1>1, <1>2 DEF TypeOK, Lose
<1>4. BeaconsHonest'
  BY <1>2 DEF BeaconsHonest, Hears, Lose
<1> QED
  BY <1>3, <1>4, SameRoutes DEF IInv, Lose

\* A restarted node has no route, and its beacons underway are still lists
\* of nodes it can hear.
LEMMA RestartHolds ==
  ASSUME SymmcheckAssumption, IInv, NEW n \in Nodes, Restart(n)
  PROVE  IInv'
<1>1. restarts' # 0
  BY DEF Restart, IInv, TypeOK, SymmcheckAssumption
<1>2. TypeOK'
  BY DEF SymmcheckAssumption, Restart, InitMetric, IInv, TypeOK
<1>3. metric'[Controller] = 0 /\ NeighborsHeard'
  BY DEF SymmcheckAssumption, Restart, IInv, TypeOK, NeighborsHeard, Hears
<1>4. BeaconsHonest' /\ Downhill'
  BY <1>1 DEF Restart, IInv, BeaconsHonest, Hears, Downhill
<1>5. SymmetricNextHop'
  BY DEF Restart, InitMetric, IInv, TypeOK, SymmetricNextHop, Routed
<1> QED
  BY <1>2, <1>3, <1>4, <1>5 DEF IInv

\* The inductive invariant holds in every state.
THEOREM Invariance == Spec => []IInv
<1>1. Init => IInv
  BY InitHolds, SymmcheckAssumption
<1>2. IInv /\ [Next]_vars => IInv'
  <2> SUFFICES ASSUME IInv, [Next]_vars PROVE IInv'
    OBVIOUS
  <2>1. ASSUME NEW n \in Nodes, TimerBeacon(n) PROVE IInv'
    <3>1. IsFiniteSet(neighbors[n])
      BY FS_Subset, SymmcheckAssumption DEF IInv, TypeOK, SymmcheckAssumption
    <3>2. Cardinality(neighbors[n]) \in Nat
      BY <3>1, FS_CardinalityType
    <3>3. announced' \in [Nodes -> Nat \cup {Forced}] /\ urgent' \in [Nodes -> BOOLEAN]
      BY <2>1, <3>2 DEF TimerBeacon, IInv, TypeOK
    <3> QED
      BY <2>1, <3>3, SendHolds, SymmcheckAssumption DEF TimerBeacon
  <2>2. ASSUME NEW n \in Nodes, UrgentBeacon(n) PROVE IInv'
    <3>1. announced' \in [Nodes -> Nat \cup {Forced}] /\ urgent' \in [Nodes -> BOOLEAN]
      BY <2>2 DEF UrgentBeacon, IInv, TypeOK
    <3> QED
      BY <2>2, <3>1, SendHolds, SymmcheckAssumption DEF UrgentBeacon
  <2>3. ASSUME NEW n \in Nodes, Restart(n) PROVE IInv'
    BY <2>3, RestartHolds, SymmcheckAssumption
  <2>4. ASSUME NEW m \in Nodes, NEW n \in Nodes, Discover(n, m) PROVE IInv'
    BY <2>4, DiscoverHolds, SymmcheckAssumption
  <2>5. ASSUME NEW m \in Nodes, NEW n \in Nodes, Input(m, n) PROVE IInv'
    BY <2>5, InputHolds, SymmcheckAssumption
  <2>6. ASSUME NEW m \in Nodes, NEW n \in Nodes, Lose(m, n) PROVE IInv'
    BY <2>6, LoseHolds, SymmcheckAssumption
  <2>7. CASE UNCHANGED vars
    <3>1. TypeOK' /\ BeaconsHonest'
      BY <2>7 DEF IInv, TypeOK, BeaconsHonest, Hears, vars
    <3> QED
      BY <2>7, <3>1, SameRoutes DEF IInv, vars
  <2> QED
    BY <2>1, <2>2, <2>3, <2>4, <2>5, <2>6, <2>7 DEF Next
<1> QED
  BY <1>1, <1>2, PTL DEF Spec

\* TypeOK in every state.
THEOREM TypeCorrect == Spec => []TypeOK
<1>1. IInv => TypeOK
  BY DEF IInv
<1> QED
  BY <1>1, Invariance, PTL

\* Next hops are at the other end of a bidirectional link, as the check of
\* the listed neighbors is meant to ensure.
THEOREM NextHopsSymmetric == Spec => []SymmetricNextHop
<1>1. IInv => SymmetricNextHop
  BY DEF IInv
<1> QED
  BY <1>1, Invariance, PTL

-----------------------------------------------------------------------------

\* A set of routed nodes has a node of least metric, and the next hop of
\* that one is not in the set.
LEMMA DownhillIsTree ==
  ASSUME SymmcheckAssumption, TypeOK, Downhill, restarts = 0
  PROVE  Tree
<1> SUFFICES ASSUME NEW S \in SUBSET {n \in Nodes \ {Controller} : Routed(n)},
                    S # {}
             PROVE  \E n \in S : nextHop[n] \notin S
  BY DEF Tree
<1> DEFINE M == {metric[n] : n \in S}
<1>1. M \subseteq Nat /\ M # {}
  BY DEF TypeOK, SymmcheckAssumption
<1>2. PICK k \in M : \A j \in M : k <= j
  <2> HIDE DEF M
  <2> QED
    BY <1>1, HasLeast
<1>3. PICK n \in S : metric[n] = k
  BY <1>2
<1>4. nextHop[n] \in Nodes /\ metric[nextHop[n]] < metric[n]
  BY DEF Downhill
<1>5. nextHop[n] \notin S
  <2> SUFFICES ASSUME nextHop[n] \in S PROVE FALSE
    OBVIOUS
  <2>1. k <= metric[nextHop[n]]
    BY <1>2
  <2>2. metric[nextHop[n]] \in Nat /\ k \in Nat
    BY <1>1, <1>4
  <2> QED
    BY <1>3, <1>4, <2>1, <2>2
<1> QED
  BY <1>5

\* Until a node restarts the next hops of the routed nodes lead to the
\* controller: they never go round in a set of nodes.
THEOREM NextHopsFormTree == Spec => []TreeUntilRestart
<1>1. IInv => TreeUntilRestart
  BY DownhillIsTree, SymmcheckAssumption DEF IInv, TreeUntilRestart
<1> QED
  BY <1>1, Invariance, PTL

----------------------------------------------------------------------------
(* The history of a neighbor and its two counters                          *)

History == {h \in Seq({0, 1}) : Len(h) = Bits}

\* The places of the ones.
Set(h) == {i \in DOMAIN h : h[i] = 1}

LEMMA OnesFacts ==
  ASSUME NEW h \in Seq({0, 1})
  PROVE  /\ IsFiniteSet(Set(h)) /\ Ones(h) = Cardinality(Set(h)) /\ Ones(h) \in Nat
         /\ Ones(h) <= Len(h) /\ DOMAIN h = 1 .. Len(h) /\ Len(h) \in Nat
<1>1. DOMAIN h = 1 .. Len(h) /\ Len(h) \in Nat OBVIOUS
<1>2. IsFiniteSet(1 .. Len(h)) /\ Cardinality(1 .. Len(h)) = Len(h)
  <2> DEFINE l == Len(h)
  <2>1. l \in Nat BY <1>1
  <2> HIDE DEF l
  <2>2. IsFiniteSet(1 .. l) /\ Cardinality(1 .. l) = IF 1 > l THEN 0 ELSE l - 1 + 1 BY <2>1, FS_Interval
  <2>3. IsFiniteSet(1 .. l) /\ Cardinality(1 .. l) = l BY <2>1, <2>2
  <2> QED BY <2>3 DEF l
<1>3. Set(h) \in SUBSET (1 .. Len(h)) BY <1>1 DEF Set
<1>4. IsFiniteSet(Set(h)) /\ Cardinality(Set(h)) <= Len(h) BY <1>2, <1>3, FS_Subset
<1>5. Cardinality(Set(h)) \in Nat BY <1>4, FS_CardinalityType
<1> QED BY <1>1, <1>4, <1>5 DEF Ones, Set

LEMMA OneMoreSet ==
  ASSUME NEW h \in Seq({0, 1}), NEW g \in Seq({0, 1}), NEW k, k \notin Set(h), Set(g) = Set(h) \cup {k}
  PROVE  Ones(g) = Ones(h) + 1
<1>1. IsFiniteSet(Set(h)) /\ Ones(h) = Cardinality(Set(h)) /\ Ones(g) = Cardinality(Set(g)) BY OnesFacts
<1> QED BY <1>1, FS_AddElement

\* Ones of a history are those of its parts.
LEMMA OnesOfParts ==
  ASSUME NEW h \in Seq({0, 1}), NEW c \in 0 .. Len(h)
  PROVE  /\ SubSeq(h, 1, c) \in Seq({0, 1}) /\ Len(SubSeq(h, 1, c)) = c
         /\ SubSeq(h, c + 1, Len(h)) \in Seq({0, 1}) /\ Len(SubSeq(h, c + 1, Len(h))) = Len(h) - c
         /\ \A i \in 1 .. Len(h) - c : SubSeq(h, c + 1, Len(h))[i] = h[c + i]
         /\ Ones(h) = Ones(SubSeq(h, 1, c)) + Ones(SubSeq(h, c + 1, Len(h)))
<1> DEFINE l == Len(h)
           a == SubSeq(h, 1, c)
           b == SubSeq(h, c + 1, l)
           B == {i \in 1 .. l : i > c /\ h[i] = 1}
<1>1. l \in Nat /\ c \in Nat /\ c <= l /\ DOMAIN h = 1 .. l OBVIOUS
<1>2. a \in Seq({0, 1}) /\ Len(a) = c /\ \A i \in 1 .. c : a[i] = h[i]
  <2>1. \A i \in 1 .. c : h[i] \in {0, 1} BY <1>1
  <2> QED BY <1>1, <2>1
<1>3. b \in Seq({0, 1}) /\ Len(b) = l - c /\ \A i \in 1 .. l - c : b[i] = h[c + i]
  <2>1. \A i \in c + 1 .. l : h[i] \in {0, 1} BY <1>1
  <2>2. Len(b) = l - c
    <3> HIDE DEF l
    <3>1. Len(SubSeq(h, c + 1, l)) = IF c + 1 <= l THEN l - (c + 1) + 1 ELSE 0
      <4>1. c + 1 \in Nat /\ c + 1 >= 1 BY <1>1
      <4> QED BY <1>1, <4>1
    <3> QED BY <1>1, <3>1
  <2>3. \A i \in 1 .. l - c : b[i] = h[c + i] /\ c + i \in c + 1 .. l BY <1>1
  <2>4. b \in Seq({0, 1}) BY <1>1, <2>1
  <2> QED BY <2>2, <2>3, <2>4
<1> HIDE DEF a, b, l
<1>4. Set(h) = Set(a) \cup B /\ Set(a) \cap B = {}
  <2>1. DOMAIN a = 1 .. c BY <1>1, <1>2
  <2>2. Set(a) = {i \in 1 .. c : h[i] = 1} BY <1>2, <2>1 DEF Set
  <2>3. Set(h) = {i \in 1 .. l : h[i] = 1} BY <1>1 DEF Set
  <2>4. \A i \in 1 .. l : i \in 1 .. c <=> ~ (i > c) BY <1>1
  <2>5. \A i \in 1 .. c : i \in 1 .. l BY <1>1
  <2> QED BY <2>2, <2>3, <2>4, <2>5
<1>5. IsFiniteSet(B) /\ Cardinality(B) = Ones(b)
  <2> DEFINE m == [j \in Set(b) |-> c + j]
  <2>1. Set(b) = {j \in 1 .. l - c : h[c + j] = 1}
    <3>1. DOMAIN b = 1 .. l - c BY <1>1, <1>3
    <3> QED BY <1>3, <3>1 DEF Set
  <2>2. \A j \in 1 .. l - c : c + j \in 1 .. l /\ c + j > c BY <1>1
  <2>3. m \in [Set(b) -> B] BY <2>1, <2>2
  <2>4. \A i, j \in Set(b) : m[i] = m[j] => i = j BY <1>1, <2>1
  <2>5. ASSUME NEW i \in B PROVE \E j \in Set(b) : m[j] = i
    <3>1. i - c \in 1 .. l - c /\ c + (i - c) = i BY <1>1
    <3>2. i - c \in Set(b) BY <2>1, <3>1
    <3> QED BY <3>1, <3>2
  <2>6. m \in Bijection(Set(b), B) BY <2>3, <2>4, <2>5 DEF Bijection, Injection, Surjection, IsInjective
  <2>7. IsFiniteSet(Set(b)) /\ Ones(b) = Cardinality(Set(b)) BY <1>3, OnesFacts
  <2>8. ExistsBijection(Set(b), B) BY <2>6 DEF ExistsBijection
  <2> QED BY <2>7, <2>8, FS_Bijection
<1>6. IsFiniteSet(Set(a)) /\ Ones(a) = Cardinality(Set(a)) /\ Ones(a) \in Nat BY <1>2, OnesFacts
<1>7. Ones(h) = Cardinality(Set(h)) /\ Ones(b) \in Nat BY <1>3, OnesFacts
<1>8. Cardinality(Set(a) \cup B) = Cardinality(Set(a)) + Cardinality(B)
  <2>1. Cardinality(Set(a) \cup B) = Cardinality(Set(a)) + Cardinality(B) - Cardinality(Set(a) \cap B)
    BY <1>5, <1>6, FS_Union
  <2>2. Cardinality(Set(a) \cap B) = 0 BY <1>4, FS_EmptySet
  <2> QED BY <1>5, <1>6, <1>7, <2>1, <2>2
<1> QED BY <1>2, <1>3, <1>4, <1>5, <1>6, <1>7, <1>8 DEF a, b, l

LEMMA ZerosFacts ==
  ASSUME NEW n \in Nat
  PROVE  Zeros(n) \in Seq({0, 1}) /\ Len(Zeros(n)) = n /\ \A i \in 1 .. n : Zeros(n)[i] = 0
BY DEF Zeros

\* Zeros and a one at the end.
LEMMA OnesAppended ==
  ASSUME NEW h \in Seq({0, 1}), NEW n \in Nat
  PROVE  /\ Append(h \o Zeros(n), 1) \in Seq({0, 1})
         /\ Len(Append(h \o Zeros(n), 1)) = Len(h) + n + 1
         /\ Ones(Append(h \o Zeros(n), 1)) = Ones(h) + 1
<1> DEFINE z == Zeros(n)
           l == Len(h)
           y == h \o z
           g == Append(y, 1)
<1>1. z \in Seq({0, 1}) /\ Len(z) = n /\ \A i \in 1 .. n : z[i] = 0 BY ZerosFacts
<1>2. l \in Nat /\ DOMAIN h = 1 .. l OBVIOUS
<1> HIDE DEF z
<1>3. /\ y \in Seq({0, 1}) /\ Len(y) = l + n /\ \A i \in 1 .. l : y[i] = h[i]
      /\ \A i \in 1 .. n : y[l + i] = 0
  <2>1. y \in Seq({0, 1}) /\ Len(y) = l + n BY <1>1
  <2>2. \A i \in 1 .. l : y[i] = h[i] BY <1>1
  <2>3. \A i \in 1 .. n : y[l + i] = z[i] BY <1>1
  <2> QED BY <1>1, <2>1, <2>2, <2>3
<1> HIDE DEF l, y
<1>4. /\ g \in Seq({0, 1}) /\ Len(g) = l + n + 1 /\ g[l + n + 1] = 1
      /\ \A i \in 1 .. l + n : g[i] = y[i]
  BY <1>2, <1>3
<1> HIDE DEF g
<1>5. DOMAIN g = 1 .. l + n + 1 BY <1>2, <1>4
<1>6. Set(g) = Set(h) \cup {l + n + 1} /\ l + n + 1 \notin Set(h)
  <2>1. \A i \in 1 .. l + n + 1 : \/ i \in 1 .. l \/ (\E j \in 1 .. n : i = l + j) \/ i = l + n + 1
    <3>1. TAKE i \in 1 .. l + n + 1
    <3>2. CASE i <= l BY <1>2, <3>2
    <3>3. CASE i = l + n + 1 BY <3>3
    <3>4. CASE ~ (i <= l) /\ i # l + n + 1
      <4>1. i - l \in 1 .. n /\ i = l + (i - l) BY <1>2, <3>4
      <4> QED BY <4>1
    <3> QED BY <3>2, <3>3, <3>4
  <2>2. \A i \in 1 .. l : i \in 1 .. l + n + 1 /\ g[i] = h[i] BY <1>2, <1>3, <1>4
  <2>3. \A j \in 1 .. n : g[l + j] = 0
    <3>1. \A j \in 1 .. n : l + j \in 1 .. l + n BY <1>2
    <3> QED BY <1>3, <1>4, <3>1
  <2>4. l + n + 1 \in 1 .. l + n + 1 /\ l + n + 1 \notin 1 .. l BY <1>2
  <2>5. \A i : i \in Set(g) <=> i \in 1 .. l + n + 1 /\ g[i] = 1 BY <1>5 DEF Set
  <2>6. \A i : i \in Set(h) <=> i \in 1 .. l /\ h[i] = 1 BY <1>2 DEF Set
  <2>7. ASSUME NEW i, i \in Set(g) PROVE i \in Set(h) \/ i = l + n + 1
    <3>1. i \in 1 .. l + n + 1 /\ g[i] = 1 BY <2>5, <2>7
    <3>2. i \in 1 .. l \/ i = l + n + 1 BY <2>1, <2>3, <3>1
    <3> QED BY <2>2, <2>6, <3>1, <3>2
  <2>8. ASSUME NEW i, i \in Set(h) PROVE i \in Set(g) BY <2>2, <2>5, <2>6, <2>8
  <2>9. l + n + 1 \in Set(g) BY <1>4, <2>4, <2>5
  <2> QED BY <2>4, <2>6, <2>7, <2>8, <2>9
<1>7. Ones(g) = Ones(h) + 1 BY <1>4, <1>6, OneMoreSet
<1> QED BY <1>4, <1>7 DEF g, y, l, z

----------------------------------------------------------------------------
(* What the table has of a neighbor                                        *)

Fields == {"expected", "count", "missable", "last", "history", "failures", "successes", "informed"}

Shaped(e) ==
  /\ DOMAIN e = Fields
  /\ e.history \in History /\ e.failures \in Nat /\ e.successes \in Nat /\ e.last \in Int

\* The counters are the zeros and the ones of the part of the history that is
\* filled.
Matches(e) ==
  /\ e.failures + e.successes <= Bits /\ e.successes = Ones(e.history)
  /\ \A i \in 1 .. Bits : i > e.failures + e.successes => e.history[i] = 0

LEMMA ShapedIsPresent == ASSUME NEW e, DOMAIN e = Fields PROVE Present(e)
<1> SUFFICES ASSUME e = Absent PROVE FALSE BY DEF Present
<1>1. DOMAIN Absent = {"none"} BY DEF Absent
<1>2. "none" \notin Fields BY DEF Fields
<1> QED BY <1>1, <1>2

LEMMA ZerosMatch ==
  ASSUME NEW e, e.history = Zeros(Bits), e.failures = 0, e.successes = 0
  PROVE  e.history \in History /\ Matches(e)
<1>1. Bits \in Nat BY ImprovedNdAssumption
<1>2. Zeros(Bits) \in Seq({0, 1}) /\ Len(Zeros(Bits)) = Bits /\ \A i \in 1 .. Bits : Zeros(Bits)[i] = 0
  BY <1>1, ZerosFacts
<1>3. Ones(Zeros(Bits)) = 0
  <2>1. Set(Zeros(Bits)) = {} BY <1>1, <1>2 DEF Set
  <2>2. Ones(Zeros(Bits)) = Cardinality(Set(Zeros(Bits))) BY <1>2, OnesFacts
  <2> QED BY <2>1, <2>2, FS_EmptySet
<1> QED BY <1>1, <1>2, <1>3 DEF History, Matches

LEMMA AllLostMatches ==
  ASSUME NEW e, Shaped(e)
  PROVE  /\ Shaped(AllLost(e)) /\ Matches(AllLost(e)) /\ AllLost(e).informed = e.informed
<1> DEFINE h == Append(Zeros(Bits - 1), 1)
<1>1. Bits \in Nat /\ Bits >= 1 /\ Bits - 1 \in Nat BY ImprovedNdAssumption
<1>2. <<>> \in Seq({0, 1}) /\ Len(<<>>) = 0 OBVIOUS
<1>3. Zeros(Bits - 1) = <<>> \o Zeros(Bits - 1)
  <2>1. Zeros(Bits - 1) \in Seq({0, 1}) BY <1>1, ZerosFacts
  <2> QED BY <2>1
<1>4. Ones(<<>>) = 0
  <2>1. {i \in DOMAIN <<>> : <<>>[i] = 1} = {} OBVIOUS
  <2> QED BY <2>1, FS_EmptySet DEF Ones
<1>5. h \in Seq({0, 1}) /\ Len(h) = Bits /\ Ones(h) = 1
  <2> DEFINE y == Append(<<>> \o Zeros(Bits - 1), 1)
  <2>1. /\ y \in Seq({0, 1}) /\ Len(y) = Len(<<>>) + (Bits - 1) + 1 /\ Ones(y) = Ones(<<>>) + 1
    BY <1>1, <1>2, OnesAppended
  <2>2. h = y BY <1>3
  <2> HIDE DEF h, y
  <2> QED BY <1>1, <1>2, <1>4, <2>1, <2>2
<1> HIDE DEF h
<1> DEFINE r == AllLost(e)
<1>6. r = [e EXCEPT !.history = h, !.failures = Bits - 1, !.successes = 1] BY DEF AllLost, h
<1> HIDE DEF r
<1>7. /\ DOMAIN r = Fields /\ r.history = h /\ r.failures = Bits - 1 /\ r.successes = 1
      /\ r.last = e.last /\ r.informed = e.informed
  BY <1>6 DEF Shaped, Fields
<1>8. Shaped(r) BY <1>1, <1>5, <1>7 DEF Shaped, History
<1>9. Matches(r) BY <1>1, <1>5, <1>7 DEF Matches
<1> QED BY <1>7, <1>8, <1>9 DEF r

LEMMA FilledMatches ==
  ASSUME NEW e, Shaped(e), NEW losses \in Nat, ~ Overflows(e, losses)
  PROVE  /\ Shaped(Filled(e, losses)) /\ Filled(e, losses).informed = e.informed
         /\ Matches(e) => Matches(Filled(e, losses))
<1> DEFINE n == e.failures + e.successes
           k == n + losses + 1
           h == e.history
           g == [h EXCEPT ![k] = 1]
           f2 == (e.failures + losses) % CountMod
           s2 == (e.successes + 1) % CountMod
           r == Filled(e, losses)
<1>1. Bits \in Nat /\ CountMod \in Nat \ {0} /\ Bits < CountMod BY ImprovedNdAssumption
<1>2. /\ h \in Seq({0, 1}) /\ Len(h) = Bits /\ DOMAIN h = 1 .. Bits
      /\ e.failures \in Nat /\ e.successes \in Nat /\ DOMAIN e = Fields /\ e.last \in Int
  BY DEF Shaped, History
<1>3. n \in Nat /\ k \in Nat /\ k >= 1 /\ k <= Bits
  BY <1>1, <1>2 DEF Overflows
<1>4. r = [e EXCEPT !.history = g, !.failures = f2, !.successes = s2] BY DEF Filled
<1>5. f2 \in Nat /\ s2 \in Nat BY <1>1, <1>2
<1> HIDE DEF r
<1>6. /\ DOMAIN r = Fields /\ r.history = g /\ r.failures = f2 /\ r.successes = s2
      /\ r.last = e.last /\ r.informed = e.informed
  BY <1>2, <1>4 DEF Fields
<1>7. g \in Seq({0, 1}) /\ Len(g) = Bits /\ \A i \in 1 .. Bits : g[i] = IF i = k THEN 1 ELSE h[i]
  <2>1. h \in [1 .. Bits -> {0, 1}] BY <1>2
  <2> HIDE DEF h, k
  <2>2. g \in [1 .. Bits -> {0, 1}] /\ \A i \in 1 .. Bits : g[i] = IF i = k THEN 1 ELSE h[i] BY <2>1
  <2> HIDE DEF g
  <2>3. g \in Seq({0, 1}) /\ Len(g) = Bits BY <1>1, <2>2
  <2> QED BY <2>2, <2>3
<1>8. Shaped(r) BY <1>2, <1>5, <1>6, <1>7 DEF Shaped, History
<1>9. ASSUME Matches(e) PROVE Matches(r)
  <2>1. n <= Bits /\ e.successes = Ones(h) /\ \A i \in 1 .. Bits : i > n => h[i] = 0
    BY <1>9 DEF Matches
  <2>2. f2 = e.failures + losses /\ s2 = e.successes + 1
    <3> DEFINE x == e.failures
               y == e.successes
    <3>1. x \in Nat /\ y \in Nat /\ x + y + losses + 1 <= Bits BY <1>2, <1>3
    <3> HIDE DEF x, y
    <3>2. x + losses < CountMod /\ y + 1 < CountMod BY <1>1, <3>1
    <3>3. (x + losses) % CountMod = x + losses /\ (y + 1) % CountMod = y + 1 BY <1>1, <3>1, <3>2
    <3> QED BY <3>3 DEF x, y
  <2>3. f2 + s2 = k BY <1>2, <2>2
  <2> HIDE DEF f2, s2, n, k, h, g
  <2>4. Ones(g) = Ones(h) + 1
    <3>1. k \in 1 .. Bits /\ k > n BY <1>3 DEF k
    <3>2. DOMAIN g = 1 .. Bits BY <1>1, <1>7
    <3>3. k \notin Set(h) BY <2>1, <3>1 DEF Set
    <3>4. Set(g) = Set(h) \cup {k} BY <1>2, <1>7, <3>1, <3>2 DEF Set
    <3> QED BY <1>2, <1>7, <3>3, <3>4, OneMoreSet
  <2>5. ASSUME NEW i \in 1 .. Bits, i > k PROVE g[i] = 0
    <3>1. i > n /\ i # k BY <1>3, <2>5 DEF k
    <3> QED BY <1>7, <2>1, <3>1
  <2>6. s2 = Ones(g) BY <2>1, <2>2, <2>4
  <2> QED BY <1>3, <1>6, <2>3, <2>5, <2>6 DEF Matches
<1> QED BY <1>6, <1>8, <1>9 DEF r

\* The history is full: what goes was counted.
LEMMA ShiftedMatches ==
  ASSUME NEW e, Shaped(e), NEW losses \in Nat, losses < Bits
  PROVE  /\ Shaped(Shifted(e, losses)) /\ Shifted(e, losses).informed = e.informed
         /\ Matches(e) /\ e.failures + e.successes = Bits => Matches(Shifted(e, losses))
<1> DEFINE c == losses + 1
           h == e.history
           out == SubSeq(h, 1, c)
           left == SubSeq(h, c + 1, Bits)
           g == Append(left \o Zeros(losses), 1)
           f2 == (e.failures + losses - (losses + 1 - Ones(out))) % CountMod
           s2 == (e.successes + 1 - Ones(out)) % CountMod
           r == Shifted(e, losses)
<1>1. Bits \in Nat /\ CountMod \in Nat \ {0} /\ Bits < CountMod BY ImprovedNdAssumption
<1>2. /\ h \in Seq({0, 1}) /\ Len(h) = Bits
      /\ e.failures \in Nat /\ e.successes \in Nat /\ DOMAIN e = Fields /\ e.last \in Int
  BY DEF Shaped, History
<1>3. c \in 0 .. Bits /\ c + 1 = losses + 2 BY <1>1
<1>4. r = [e EXCEPT !.failures = f2, !.successes = s2, !.history = g]
  BY <1>3 DEF Shifted
<1> HIDE DEF c, h
<1>5. /\ out \in Seq({0, 1}) /\ Len(out) = c /\ left \in Seq({0, 1}) /\ Len(left) = Bits - c
      /\ Ones(h) = Ones(out) + Ones(left)
  BY <1>2, <1>3, OnesOfParts
<1> HIDE DEF out, left
<1>6. Ones(out) \in Nat /\ Ones(out) <= c /\ Ones(left) \in Nat /\ Ones(left) <= Bits - c
  BY <1>5, OnesFacts
<1>7. g \in Seq({0, 1}) /\ Len(g) = Len(left) + losses + 1 /\ Ones(g) = Ones(left) + 1
  BY <1>5, OnesAppended
<1>8. Len(g) = Bits BY <1>1, <1>5, <1>7 DEF c
<1> HIDE DEF g
<1>9. f2 \in Nat /\ s2 \in Nat
  <2>1. \A x \in Int : x % CountMod \in Nat BY <1>1
  <2>2. e.failures + losses - (losses + 1 - Ones(out)) \in Int BY <1>2, <1>6
  <2>3. e.successes + 1 - Ones(out) \in Int BY <1>2, <1>6
  <2> QED BY <2>1, <2>2, <2>3
<1> HIDE DEF f2, s2, r
<1>10. /\ DOMAIN r = Fields /\ r.history = g /\ r.failures = f2 /\ r.successes = s2
       /\ r.last = e.last /\ r.informed = e.informed
  BY <1>2, <1>4 DEF Fields
<1>11. Shaped(r) BY <1>2, <1>7, <1>8, <1>9, <1>10 DEF Shaped, History
<1>12. ASSUME Matches(e), e.failures + e.successes = Bits PROVE Matches(r)
  <2>1. e.successes = Ones(h) BY <1>12 DEF Matches, h
  <2> DEFINE x == e.failures + losses - (losses + 1 - Ones(out))
             y == e.successes + 1 - Ones(out)
  <2>2. x \in Nat /\ y \in Nat /\ x + y = Bits /\ y = Ones(g)
    <3>1. x = e.failures - 1 + Ones(out) BY <1>2, <1>6
    <3>2. y = Ones(left) + 1 BY <1>5, <1>6, <2>1
    <3>3. x + y = Bits BY <1>2, <1>6, <1>12
    <3>4. e.failures = Bits - Ones(out) - Ones(left) BY <1>1, <1>2, <1>5, <1>6, <1>12, <2>1
    <3>5. x = Bits - Ones(left) - 1 BY <1>1, <1>6, <3>1, <3>4
    <3>6. Ones(left) + 1 <= Bits BY <1>1, <1>3, <1>6 DEF c
    <3>7. x \in Nat BY <1>1, <1>6, <3>5, <3>6
    <3> QED BY <1>6, <1>7, <3>2, <3>3, <3>7
  <2>3. x % CountMod = x /\ y % CountMod = y
    <3> HIDE DEF x, y
    <3>1. x < CountMod /\ y < CountMod BY <1>1, <2>2
    <3> QED BY <1>1, <2>2, <3>1
  <2>4. f2 = x /\ s2 = y BY <2>3 DEF f2, s2
  <2> HIDE DEF x, y
  <2>5. ~ \E i \in 1 .. Bits : i > x + y BY <1>1, <2>2
  <2> QED BY <1>1, <1>10, <2>2, <2>4, <2>5 DEF Matches
<1> QED BY <1>10, <1>11, <1>12 DEF r

LEMMA EstimatedMatches ==
  ASSUME NEW e, Shaped(e), NEW seq \in Int, NEW g \in BOOLEAN, ~ g => Matches(e)
  PROVE  /\ Shaped(Estimated(e, seq)) /\ Estimated(e, seq).informed = e.informed
         /\ (~ IF Losses(e, seq) >= Bits THEN FALSE
               ELSE g \/ (Overflows(e, Losses(e, seq)) /\ e.failures + e.successes < Bits))
              => Matches(Estimated(e, seq))
<1> DEFINE losses == Losses(e, seq)
<1>1. losses \in Nat
  <2>1. MacMod \in Nat \ {0} BY ImprovedNdAssumption
  <2>2. seq - e.last - 1 \in Int BY DEF Shaped
  <2> QED BY <2>1, <2>2 DEF Losses
<1>2. Bits \in Nat BY ImprovedNdAssumption
<1> HIDE DEF losses
<1>3. CASE losses >= Bits
  <2>1. Estimated(e, seq) = AllLost(e) BY <1>3 DEF Estimated, losses
  <2> QED BY <2>1, AllLostMatches
<1>4. CASE ~ (losses >= Bits) /\ Overflows(e, losses)
  <2>1. Estimated(e, seq) = Shifted(e, losses) BY <1>4 DEF Estimated, losses
  <2>2. losses < Bits BY <1>1, <1>2, <1>4
  <2>3. /\ Shaped(Shifted(e, losses)) /\ Shifted(e, losses).informed = e.informed
        /\ Matches(e) /\ e.failures + e.successes = Bits => Matches(Shifted(e, losses))
    BY <1>1, <2>2, ShiftedMatches
  <2>4. ASSUME ~ g, ~ (e.failures + e.successes < Bits) PROVE Matches(Shifted(e, losses))
    <3>1. Matches(e) /\ e.failures + e.successes <= Bits BY <2>4 DEF Matches
    <3>2. e.failures + e.successes = Bits BY <1>2, <2>4, <3>1 DEF Shaped
    <3> QED BY <2>3, <3>1, <3>2
  <2> QED BY <1>4, <2>1, <2>3, <2>4 DEF losses
<1>5. CASE ~ (losses >= Bits) /\ ~ Overflows(e, losses)
  <2>1. Estimated(e, seq) = Filled(e, losses) BY <1>5 DEF Estimated, losses
  <2>2. /\ Shaped(Filled(e, losses)) /\ Filled(e, losses).informed = e.informed
        /\ Matches(e) => Matches(Filled(e, losses))
    BY <1>1, <1>5, FilledMatches
  <2> QED BY <1>5, <2>1, <2>2 DEF losses
<1> QED BY <1>3, <1>4, <1>5

NdInv ==
  /\ neighbor \in [interval : Int, timer : Int, seq : Int] /\ gap \in BOOLEAN
  /\ Present(entry) => Shaped(entry) /\ (~ gap => Matches(entry))
  /\ reported \in BOOLEAN /\ (reported => Present(entry))
  /\ Present(entry) /\ ~ reported => entry.informed = Unknown

\* A frame of the neighbor is heard.
LEMMA InputKeeps ==
  ASSUME NdInv, NEW beacon, NEW interval, NEW seq \in Int, NdInput(beacon, interval, seq),
         neighbor' \in [interval : Int, timer : Int, seq : Int]
  PROVE  NdInv'
<1> DEFINE x == Expected(beacon, interval, entry)
           new == [expected |-> x, count |-> x, missable |-> Missable, last |-> seq,
                   history |-> <<>>, failures |-> 0, successes |-> 0, informed |-> Unknown]
           estimated == Estimated(entry, seq)
           again == Refreshed(estimated, x, seq)
<1>1. CASE ~ Present(entry) /\ full
  <2>1. UNCHANGED <<entry, reported, gap>> BY <1>1 DEF NdInput
  <2> QED BY <2>1 DEF NdInv
<1>2. CASE ~ Present(entry) /\ ~ full
  <2> DEFINE e == Initialized(new)
  <2>1. entry' = e /\ reported' = reported /\ gap' = FALSE
    BY <1>2 DEF NdInput, NdInv
  <2>2. /\ DOMAIN e = Fields /\ e.history = Zeros(Bits) /\ e.failures = 0 /\ e.successes = 0
        /\ e.last = seq /\ e.informed = Unknown
    BY DEF Initialized, Fields
  <2> HIDE DEF e
  <2>3. e.history \in History /\ Matches(e) BY <2>2, ZerosMatch
  <2>4. Shaped(e) BY <2>2, <2>3 DEF Shaped
  <2>5. ~ reported BY <1>2 DEF NdInv
  <2> QED BY <2>1, <2>2, <2>3, <2>4, <2>5 DEF NdInv
<1>3. CASE Present(entry)
  <2>1. Shaped(entry) /\ (~ gap => Matches(entry)) /\ gap \in BOOLEAN /\ reported \in BOOLEAN
        /\ (~ reported => entry.informed = Unknown)
    BY <1>3 DEF NdInv
  <2> DEFINE event == WorthEvent(again)
             said == [again EXCEPT !.informed = Rate(again)]
             gap2 == IF Losses(entry, seq) >= Bits THEN FALSE
                     ELSE gap \/ (Overflows(entry, Losses(entry, seq)) /\ entry.failures + entry.successes < Bits)
  <2>2. /\ entry' = IF event THEN said ELSE again
        /\ reported' = (reported \/ event) /\ gap' = gap2
    BY <1>3 DEF NdInput
  <2>3. Shaped(estimated) /\ estimated.informed = entry.informed /\ (~ gap2 => Matches(estimated))
    BY <2>1, EstimatedMatches
  <2>4. gap2 \in BOOLEAN BY <2>1 DEF Overflows
  <2> HIDE DEF estimated, gap2
  <2>5. /\ DOMAIN again = Fields /\ again.history = estimated.history
        /\ again.failures = estimated.failures /\ again.successes = estimated.successes
        /\ again.last = seq /\ again.informed = estimated.informed
    BY <2>3 DEF Refreshed, Shaped, Fields
  <2> HIDE DEF again
  <2>6. /\ DOMAIN said = Fields /\ said.history = again.history
        /\ said.failures = again.failures /\ said.successes = again.successes /\ said.last = again.last
    BY <2>5 DEF Fields
  <2> HIDE DEF said
  <2>7. Shaped(again) /\ Shaped(said) BY <2>3, <2>5, <2>6 DEF Shaped
  <2>8. Matches(estimated) => Matches(again) /\ Matches(said) BY <2>5, <2>6 DEF Matches
  <2>9. event \in BOOLEAN BY DEF WorthEvent
  <2> HIDE DEF event
  <2>10. Present(again) /\ Present(said) BY <2>5, <2>6, ShapedIsPresent
  <2>11. CASE event
    <3>1. entry' = said /\ reported' = TRUE BY <2>1, <2>2, <2>9, <2>11
    <3> QED BY <2>2, <2>3, <2>4, <2>7, <2>8, <2>10, <3>1 DEF NdInv
  <2>12. CASE ~ event
    <3>1. entry' = again /\ reported' = reported BY <2>1, <2>2, <2>9, <2>12
    <3> QED BY <2>1, <2>2, <2>3, <2>4, <2>5, <2>7, <2>8, <2>10, <3>1 DEF NdInv
  <2> QED BY <2>9, <2>11, <2>12
<1> QED BY <1>1, <1>2, <1>3

LEMMA NdStarts == ImprovedNdInit => NdInv
<1> SUFFICES ASSUME ImprovedNdInit PROVE NdInv OBVIOUS
<1>1. neighbor \in [interval : Int, timer : Int, seq : Int]
  <2>1. PICK i \in Unit .. 2 * Unit - 1 : neighbor = [interval |-> i, timer |-> i, seq |-> 0]
    BY DEF ImprovedNdInit
  <2>2. i \in Int BY ImprovedNdAssumption
  <2> QED BY <2>1, <2>2
<1>2. ~ Present(entry) /\ reported = FALSE /\ gap = FALSE BY DEF ImprovedNdInit, Present
<1> QED BY <1>1, <1>2 DEF NdInv

LEMMA NdKeeps ==
  ASSUME NdInv, [ImprovedNdNext]_beaconVars
  PROVE  NdInv'
<1>1. neighbor \in [interval : Int, timer : Int, seq : Int] /\ gap \in BOOLEAN /\ reported \in BOOLEAN
  BY DEF NdInv
<1>2. MacMod \in Nat \ {0} /\ MaxInterval \in Nat BY ImprovedNdAssumption
<1>3. (neighbor.seq + 1) % MacMod \in Int BY <1>1, <1>2
<1>4. ASSUME NEW beacon, NEW interval, Sent(beacon, interval, (neighbor.seq + 1) % MacMod),
             neighbor' \in [interval : Int, timer : Int, seq : Int]
      PROVE  NdInv'
  <2>1. CASE NdInput(beacon, interval, (neighbor.seq + 1) % MacMod) BY <1>3, <1>4, <2>1, InputKeeps
  <2>2. CASE UNCHANGED <<entry, reported, gap>> BY <1>4, <2>2 DEF NdInv
  <2> QED BY <1>4, <2>1, <2>2 DEF Sent
<1>5. CASE SendNdBeacon
  <2> DEFINE interval == Smaller(2 * neighbor.interval, MaxInterval)
  <2>1. /\ neighbor' = [interval |-> interval, timer |-> interval, seq |-> (neighbor.seq + 1) % MacMod]
        /\ Sent(TRUE, interval, (neighbor.seq + 1) % MacMod)
    BY <1>5 DEF SendNdBeacon
  <2>2. interval \in Int BY <1>1, <1>2 DEF Smaller
  <2> HIDE DEF interval
  <2>3. neighbor' \in [interval : Int, timer : Int, seq : Int] BY <1>3, <2>1, <2>2
  <2> QED BY <1>4, <2>1, <2>3
<1>6. CASE SendOther
  <2> DEFINE seq == (neighbor.seq + 1) % MacMod
  <2>1. PICK success \in BOOLEAN :
          neighbor' = [neighbor EXCEPT !.seq = seq, !.timer = IF success THEN neighbor.interval ELSE @]
    BY <1>6 DEF SendOther
  <2>2. Sent(FALSE, 0, seq) BY <1>6 DEF SendOther
  <2>3. neighbor' \in [interval : Int, timer : Int, seq : Int]
    <3>1. seq \in Int BY <1>3
    <3> HIDE DEF seq
    <3> QED BY <1>1, <2>1, <3>1
  <2> QED BY <1>4, <2>2, <2>3
<1>7. CASE Die BY <1>7 DEF Die, NdInv
<1>8. CASE Elapse
  <2>1. UNCHANGED <<entry, reported, gap>> BY <1>8 DEF Elapse
  <2>2. neighbor' \in [interval : Int, timer : Int, seq : Int] BY <1>1, <1>8 DEF Elapse
  <2> QED BY <2>1, <2>2 DEF NdInv
<1>9. CASE DecreaseLiveness
  <2> DEFINE counted == [entry EXCEPT !.count = @ - 1]
  <2>1. /\ entry' = IF ~ Present(entry) THEN entry
                    ELSE IF counted.count > 0 THEN counted
                    ELSE IF entry.missable > 1 THEN Missed(entry) ELSE Absent
        /\ reported' = (reported /\ Present(entry')) /\ UNCHANGED <<neighbor, gap>>
    BY <1>9 DEF DecreaseLiveness, Reported
  <2>2. ASSUME Present(entry), NEW e, e \in {counted, Missed(entry)}
        PROVE  /\ Shaped(e) /\ Present(e) /\ (~ gap => Matches(e)) /\ e.informed = entry.informed
    <3>1. Shaped(entry) /\ (~ gap => Matches(entry)) BY <2>2 DEF NdInv
    <3>2. /\ DOMAIN e = Fields /\ e.history = entry.history /\ e.failures = entry.failures
          /\ e.successes = entry.successes /\ e.last = entry.last /\ e.informed = entry.informed
      BY <2>2, <3>1 DEF Missed, Shaped, Fields
    <3>3. Shaped(e) /\ (Matches(entry) => Matches(e)) BY <3>1, <3>2 DEF Shaped, Matches
    <3> QED BY <3>1, <3>2, <3>3, ShapedIsPresent
  <2> HIDE DEF counted
  <2>3. CASE ~ Present(entry) BY <2>1, <2>3 DEF NdInv
  <2>4. CASE Present(entry) /\ entry' \in {counted, Missed(entry)}
    <3>1. /\ Shaped(entry') /\ Present(entry') /\ (~ gap => Matches(entry'))
          /\ entry'.informed = entry.informed
      BY <2>2, <2>4
    <3> QED BY <2>1, <2>4, <3>1 DEF NdInv
  <2>5. CASE entry' = Absent
    <3>1. ~ Present(entry') BY <2>5 DEF Present
    <3> QED BY <2>1, <3>1 DEF NdInv
  <2> QED BY <2>1, <2>3, <2>4, <2>5
<1>10. CASE Others
  <2>1. reported' = Present(entry) /\ UNCHANGED <<neighbor, entry, gap>> BY <1>10 DEF Others
  <2>2. Present(entry) \in BOOLEAN BY DEF Present
  <2> QED BY <2>1, <2>2 DEF NdInv
<1>11. CASE UNCHANGED beaconVars BY <1>11 DEF beaconVars, NdInv
<1> QED BY <1>5, <1>6, <1>7, <1>8, <1>9, <1>10, <1>11 DEF ImprovedNdNext

LEMMA EntryIsTrueThen == NdInv => EntryIsTrue
<1> SUFFICES ASSUME NdInv PROVE EntryIsTrue OBVIOUS
<1>1. ASSUME Present(entry), ~ gap PROVE HistoryMatches
  <2> DEFINE n == entry.failures + entry.successes
             h == entry.history
             p == SubSeq(h, 1, n)
  <2>1. Shaped(entry) /\ Matches(entry) BY <1>1 DEF NdInv
  <2>2. Bits \in Nat BY ImprovedNdAssumption
  <2>3. h \in Seq({0, 1}) /\ Len(h) = Bits /\ n \in Nat /\ n <= Bits /\ n \in 0 .. Len(h)
    BY <2>1, <2>2 DEF Shaped, Matches, History
  <2>4. entry.successes = Ones(h) /\ \A i \in 1 .. Bits : i > n => h[i] = 0 BY <2>1 DEF Matches
  <2> HIDE DEF n, h
  <2>5. p \in Seq({0, 1}) /\ Len(p) = n BY <2>3, OnesOfParts
  <2>6. \A i \in 1 .. n : p[i] = h[i] BY <2>2, <2>3
  <2> HIDE DEF p
  <2>7. Set(p) = Set(h)
    <3>1. DOMAIN p = 1 .. n /\ DOMAIN h = 1 .. Bits BY <2>2, <2>3, <2>5
    <3>2. \A i \in 1 .. Bits : h[i] = 1 => i \in 1 .. n BY <2>2, <2>3, <2>4
    <3>3. \A i \in 1 .. n : i \in 1 .. Bits BY <2>2, <2>3
    <3> QED BY <2>6, <3>1, <3>2, <3>3 DEF Set
  <2>8. Ones(p) = Ones(h) BY <2>3, <2>5, <2>7, OnesFacts
  <2> QED BY <2>3, <2>4, <2>8 DEF HistoryMatches, n, h, p
<1>2. HistoryMatches BY <1>1 DEF HistoryMatches
<1>3. NeighborWasReported BY DEF NdInv, NeighborWasReported
<1> QED BY <1>2, <1>3 DEF EntryIsTrue

\* The counters that the delivery rate of a neighbor is made of are the ones
\* and the zeros of its history, unless a gap was wider than the room that was
\* left in it, and the controller was told of a neighbor that has a rate worth
\* telling, and of every removal (update_info, improved_naive_nd_input,
\* decrease_neighbors_liveness): for histories, intervals and moduli of every
\* size.
THEOREM NeighborIsTrue == ImprovedNdSpec => []EntryIsTrue
<1>1. ImprovedNdInit => NdInv BY NdStarts
<1>2. NdInv /\ [ImprovedNdNext]_beaconVars => NdInv' BY NdKeeps
<1>3. NdInv => EntryIsTrue BY EntryIsTrueThen
<1> QED BY <1>1, <1>2, <1>3, PTL DEF ImprovedNdSpec

----------------------------------------------------------------------------
(* ImprovedNd: how long a silent neighbor stays                            *)

\* The time to the removal of an entry: w to the next count, c counts to go,
\* and x for each of m - 1 more beacons that may be missed.
TimeLeft(w, c, m, x) == w + (c + (m - 1) * x - 1) * Unit

Room == TimeLeft(wait, entry.count, entry.missable, entry.expected)

LEMMA UnitsCover ==
  ASSUME NEW i \in Nat
  PROVE  /\ i \div Unit \in Nat /\ (1 + i \div Unit) * Unit > i /\ (i \div Unit) * Unit <= i
<1>1. Unit \in Nat \ {0} BY ImprovedNdAssumption
<1>2. i = Unit * (i \div Unit) + (i % Unit) /\ i % Unit \in 0 .. Unit - 1 /\ i \div Unit \in Nat
  BY <1>1
<1> DEFINE d == i \div Unit
           r == i % Unit
<1>3. d \in Nat /\ r \in 0 .. Unit - 1 /\ i = Unit * d + r BY <1>2
<1> HIDE DEF d, r
<1>4. (1 + d) * Unit = Unit * d + Unit /\ d * Unit = Unit * d BY <1>1, <1>3
<1>5. Unit * d \in Nat BY <1>1, <1>3
<1>6. (1 + d) * Unit > i /\ d * Unit <= i BY <1>1, <1>3, <1>4, <1>5
<1> QED BY <1>3, <1>6 DEF d

LEMMA LongestIs == Longest \in Nat \ {0} /\ Longest * Unit > MaxInterval
BY UnitsCover, ImprovedNdAssumption DEF Longest

LEMMA TimePasses ==
  ASSUME NEW w \in Int, NEW c \in Int, NEW m \in Int, NEW x \in Int
  PROVE  TimeLeft(w, c, m, x) \in Int /\ TimeLeft(0, 1, 1, x) = 0
<1>0. Unit \in Int BY ImprovedNdAssumption
<1> DEFINE y == (m - 1) * x
<1>1. y \in Int OBVIOUS
<1>2. (1 - 1) * x = 0 OBVIOUS
<1> HIDE DEF y
<1>3. w + (c + y - 1) * Unit \in Int BY <1>0, <1>1
<1>4. TimeLeft(w, c, m, x) \in Int BY <1>3 DEF TimeLeft, y
<1>5. TimeLeft(0, 1, 1, x) = 0
  <2>1. 0 + (1 + 0 - 1) * Unit = 0 BY <1>0
  <2> QED BY <1>2, <2>1 DEF TimeLeft
<1> QED BY <1>4, <1>5

LEMMA TickPasses ==
  ASSUME NEW w \in Int, NEW c \in Int, NEW m \in Int, NEW x \in Int, NEW v, v = w - 1
  PROVE  TimeLeft(v, c, m, x) = TimeLeft(w, c, m, x) - 1
<1>0. Unit \in Int BY ImprovedNdAssumption
<1> DEFINE z == (c + (m - 1) * x - 1) * Unit
<1>1. z \in Int
  <2> DEFINE y == (m - 1) * x
  <2>1. y \in Int OBVIOUS
  <2> HIDE DEF y
  <2>2. (c + y - 1) * Unit \in Int BY <1>0, <2>1
  <2> QED BY <2>2 DEF y
<1>2. TimeLeft(v, c, m, x) = v + z /\ TimeLeft(w, c, m, x) = w + z BY DEF TimeLeft
<1> HIDE DEF z
<1>3. v + z = (w + z) - 1 BY <1>1
<1> QED BY <1>2, <1>3

LEMMA CountPasses ==
  ASSUME NEW c \in Int, NEW m \in Int, NEW x \in Int, NEW d, d = c - 1
  PROVE  TimeLeft(Unit, d, m, x) = TimeLeft(0, c, m, x)
<1>0. Unit \in Int BY ImprovedNdAssumption
<1> DEFINE y == (m - 1) * x
<1>1. y \in Int OBVIOUS
<1>2. TimeLeft(Unit, d, m, x) = Unit + (d + y - 1) * Unit BY DEF TimeLeft
<1>3. TimeLeft(0, c, m, x) = 0 + (c + y - 1) * Unit BY DEF TimeLeft
<1> HIDE DEF y
<1>4. Unit + (d + y - 1) * Unit = 0 + (c + y - 1) * Unit BY <1>0, <1>1
<1> QED BY <1>2, <1>3, <1>4

\* Each miss is as long as what the neighbor is expected within.
LEMMA MissPasses ==
  ASSUME NEW m \in Int, NEW x \in Int, NEW n, n = m - 1
  PROVE  TimeLeft(Unit, x, n, x) = TimeLeft(0, 1, m, x)
<1>0. Unit \in Int BY ImprovedNdAssumption
<1> DEFINE y == n * x
           z == (n - 1) * x
<1>1. y \in Int /\ z \in Int /\ x + z = y OBVIOUS
<1>2. TimeLeft(Unit, x, n, x) = Unit + (x + z - 1) * Unit BY DEF TimeLeft
<1>3. TimeLeft(0, 1, m, x) = 0 + (1 + y - 1) * Unit BY Zenon DEF TimeLeft
<1> HIDE DEF y, z
<1>4. Unit + (x + z - 1) * Unit = 0 + (1 + y - 1) * Unit BY <1>0, <1>1
<1> QED BY <1>2, <1>3, <1>4

LEMMA TwoMissable == ASSUME Patient PROVE Missable >= 2
<1>0. /\ Unit \in Nat \ {0} /\ MaxInterval \in Nat \ {0} /\ Missable \in Nat \ {0}
      /\ Longest \in Nat \ {0}
  BY ImprovedNdAssumption, LongestIs
<1>1. (MaxInterval \div Unit) * Unit <= MaxInterval /\ MaxInterval \div Unit \in Nat
  BY <1>0, UnitsCover
<1>2. ASSUME Missable = 1 PROVE FALSE
  <2>1. Missable * Longest - 1 = MaxInterval \div Unit BY <1>1, <1>2 DEF Longest
  <2>2. 3 * MaxInterval < (MaxInterval \div Unit) * Unit BY <2>1 DEF Patient
  <2> DEFINE d == (MaxInterval \div Unit) * Unit
  <2>3. d \in Int BY <1>0, <1>1
  <2>4. 3 * MaxInterval < d /\ d <= MaxInterval BY <1>1, <2>2
  <2> HIDE DEF d
  <2> QED BY <1>0, <2>3, <2>4
<1> QED BY <1>0, <1>2

\* What a frame gives: more than the interval, and if nothing is known of that,
\* or it is the longest there is, more than three of the longest.
LEMMA FreshTime ==
  ASSUME Patient, NEW w \in Nat, NEW x \in Nat \ {0}
  PROVE  /\ TimeLeft(w, x, Missable, x) >= x * Unit
         /\ x = Longest => TimeLeft(w, x, Missable, x) > 3 * MaxInterval
<1>0. Unit \in Nat \ {0} /\ MaxInterval \in Nat /\ Missable \in Nat /\ Missable >= 2
  BY ImprovedNdAssumption, TwoMissable
<1> DEFINE y == (Missable - 1) * x
<1>1. y \in Nat /\ y >= x
  <2>1. Missable - 1 \in Nat /\ Missable - 1 >= 1 BY <1>0
  <2>2. \A a, b \in Nat : a >= 1 => a * b \in Nat /\ a * b >= b
    <3> TAKE a, b \in Nat
    <3> HAVE a >= 1
    <3>1. a * b = (a - 1) * b + b OBVIOUS
    <3>2. (a - 1) * b \in Nat OBVIOUS
    <3> QED BY <3>1, <3>2
  <2> QED BY <2>1, <2>2
<1>2. x + y = Missable * x BY <1>0
<1> HIDE DEF y
<1>3. TimeLeft(w, x, Missable, x) = w + (x + y - 1) * Unit BY DEF TimeLeft, y
<1>4. (x + y - 1) * Unit >= x * Unit
  <2>1. (x + y - 1) * Unit = x * Unit + (y - 1) * Unit BY <1>0, <1>1
  <2>2. (y - 1) * Unit \in Nat
    <3>1. y - 1 \in Nat BY <1>1
    <3> QED BY <1>0, <3>1
  <2>3. x * Unit \in Nat BY <1>0
  <2> QED BY <2>1, <2>2, <2>3
<1>5. (x + y - 1) * Unit \in Int BY <1>0, <1>1
<1>6. x * Unit \in Int BY <1>0
<1>7. TimeLeft(w, x, Missable, x) >= x * Unit BY <1>3, <1>4, <1>5, <1>6
<1>8. ASSUME x = Longest PROVE TimeLeft(w, x, Missable, x) > 3 * MaxInterval
  <2>0. x + y - 1 = Missable * Longest - 1
    <3>1. x + y - 1 = Missable * x - 1 BY <1>0, <1>1, <1>2
    <3> QED BY <1>8, <3>1, Zenon
  <2>1. 3 * MaxInterval < (x + y - 1) * Unit BY <2>0 DEF Patient
  <2>2. 3 * MaxInterval \in Int BY <1>0
  <2> QED BY <1>3, <1>5, <2>1, <2>2
<1> QED BY <1>7, <1>8

\* An entry lasts: without a loss since a beacon longer than to the next beacon,
\* and where the intervals are the longest to that and the beacons after it, as
\* long as three were not lost.
StayInv ==
  /\ NdInv
  /\ wait \in 0 .. Unit /\ lost \in 0 .. 3 /\ alive \in BOOLEAN
  /\ neighbor.interval \in 0 .. MaxInterval /\ neighbor.timer \in 0 .. neighbor.interval
  /\ Present(entry) =>
       /\ entry.expected \in Nat \ {0} /\ entry.count \in Nat \ {0} /\ entry.missable \in Nat \ {0}
       /\ lost = 0 => entry.expected * Unit > neighbor.interval
       /\ alive /\ lost = 0 => Room > neighbor.timer
       /\ alive /\ lost < 3 /\ entry.expected = Longest
            => Room > neighbor.timer + (2 - lost) * MaxInterval

\* What a frame makes of the entry.
LEMMA InputRenews ==
  ASSUME NdInv, NEW beacon, NEW interval, NEW seq \in Int, NdInput(beacon, interval, seq)
  PROVE  \/ ~ Present(entry) /\ UNCHANGED <<entry, lost>>
         \/ /\ LET x == Expected(beacon, interval, entry)
               IN entry'.expected = x /\ entry'.count = x /\ entry'.missable = Missable
            /\ lost' = IF beacon \/ ~ Present(entry) THEN 0 ELSE lost
<1> DEFINE x == Expected(beacon, interval, entry)
           new == [expected |-> x, count |-> x, missable |-> Missable, last |-> seq,
                   history |-> <<>>, failures |-> 0, successes |-> 0, informed |-> Unknown]
           estimated == Estimated(entry, seq)
           again == Refreshed(estimated, x, seq)
           said == [again EXCEPT !.informed = Rate(again)]
<1>1. CASE ~ Present(entry) /\ full
  BY <1>1 DEF NdInput
<1>2. CASE ~ Present(entry) /\ ~ full
  <2> DEFINE e == Initialized(new)
  <2>1. entry' = e /\ lost' = 0
    BY <1>2 DEF NdInput
  <2>2. e.expected = x /\ e.count = x /\ e.missable = Missable
    BY DEF Initialized
  <2> QED BY <1>2, <2>1, <2>2
<1>3. CASE Present(entry)
  <2>1. Shaped(entry) /\ (~ gap => Matches(entry)) /\ gap \in BOOLEAN
    BY <1>3 DEF NdInv
  <2>2. /\ entry' = IF WorthEvent(again) THEN said ELSE again
        /\ lost' = IF beacon \/ ~ Present(entry) THEN 0 ELSE lost
    BY <1>3 DEF NdInput
  <2>3. Shaped(estimated) BY <2>1, EstimatedMatches
  <2> HIDE DEF estimated, x
  <2>4. /\ DOMAIN again = Fields /\ again.expected = x /\ again.count = x
        /\ again.missable = Missable
    BY <2>3 DEF Refreshed, Shaped, Fields
  <2> HIDE DEF again
  <2>5. said.expected = x /\ said.count = x /\ said.missable = Missable
    BY <2>4 DEF Fields
  <2> HIDE DEF said
  <2> QED BY <2>2, <2>4, <2>5 DEF x
<1> QED BY <1>1, <1>2, <1>3

\* After a frame that is heard.
LEMMA HeardStays ==
  ASSUME Patient, StayInv, NdInv', NEW beacon \in BOOLEAN, NEW interval, NEW seq \in Int,
         NdInput(beacon, interval, seq), UNCHANGED <<wait, alive>>,
         neighbor'.interval \in 0 .. MaxInterval, neighbor'.timer \in 0 .. neighbor'.interval,
         IF beacon THEN interval = neighbor'.interval ELSE UNCHANGED neighbor.interval
  PROVE  StayInv'
<1>0. /\ Unit \in Nat \ {0} /\ MaxInterval \in Nat \ {0} /\ Missable \in Nat \ {0}
      /\ Longest \in Nat \ {0} /\ Longest * Unit > MaxInterval
      /\ wait \in 0 .. Unit /\ lost \in 0 .. 3 /\ alive \in BOOLEAN
  BY ImprovedNdAssumption, LongestIs DEF StayInv
<1> DEFINE x == Expected(beacon, interval, entry)
<1>1. CASE ~ Present(entry) /\ UNCHANGED <<entry, lost>>
  BY <1>0, <1>1 DEF StayInv
<1>2. CASE /\ entry'.expected = x /\ entry'.count = x /\ entry'.missable = Missable
           /\ lost' = IF beacon \/ ~ Present(entry) THEN 0 ELSE lost
  <2>1. x \in Nat \ {0}
    <3>1. CASE beacon
      <4>1. x = 1 + interval \div Unit /\ interval \in Nat BY <3>1 DEF Expected
      <4> QED BY <4>1, UnitsCover
    <3>2. CASE ~ beacon /\ Present(entry)
      BY <3>2 DEF Expected, StayInv
    <3>3. CASE ~ beacon /\ ~ Present(entry)
      <4>1. x = Longest BY <3>3 DEF Expected, Longest
      <4> QED BY <1>0, <4>1
    <3> QED BY <3>1, <3>2, <3>3
  <2>2. ASSUME lost' = 0 PROVE x * Unit > neighbor'.interval
    <3>1. CASE beacon
      <4>1. x = 1 + interval \div Unit /\ interval \in Nat /\ interval = neighbor'.interval
        BY <3>1 DEF Expected
      <4> QED BY <4>1, UnitsCover
    <3>2. CASE ~ beacon /\ Present(entry)
      <4>1. x = entry.expected /\ lost = 0 /\ neighbor'.interval = neighbor.interval
        BY <1>2, <2>2, <3>2 DEF Expected
      <4>2. entry.expected * Unit > neighbor.interval BY <3>2, <4>1 DEF StayInv
      <4> QED BY <4>1, <4>2
    <3>3. CASE ~ beacon /\ ~ Present(entry)
      <4>1. x = Longest BY <3>3 DEF Expected, Longest
      <4>2. Longest * Unit > neighbor'.interval
        <5> DEFINE d == Longest * Unit
        <5>1. d \in Int /\ d > MaxInterval BY <1>0
        <5> HIDE DEF d
        <5>2. d > neighbor'.interval BY <1>0, <5>1
        <5> QED BY <5>2 DEF d
      <4> QED BY <4>1, <4>2
    <3> QED BY <3>1, <3>2, <3>3
  <2>3. wait' = wait /\ wait \in Nat /\ alive' = alive BY <1>0
  <2> HIDE DEF x
  <2>4. TimeLeft(wait, x, Missable, x) >= x * Unit BY <2>1, <2>3, FreshTime
  <2>5. x = Longest => TimeLeft(wait, x, Missable, x) > 3 * MaxInterval BY <2>1, <2>3, FreshTime
  <2>6. TimeLeft(wait, x, Missable, x) \in Int /\ x * Unit \in Int
    <3>1. TimeLeft(wait, x, Missable, x) \in Int BY <1>0, <2>1, TimePasses
    <3> QED BY <1>0, <2>1, <3>1
  <2>7. Room' = TimeLeft(wait, x, Missable, x) BY <1>2, <2>3 DEF Room
  <2>8. lost' \in 0 .. 3 BY <1>0, <1>2
  <2>9. lost' = 0 => Room' > neighbor'.timer
    <3> DEFINE r == TimeLeft(wait, x, Missable, x)
               d == x * Unit
    <3>1. r \in Int /\ d \in Int /\ r >= d /\ Room' = r BY <2>4, <2>6, <2>7
    <3>2. lost' = 0 => d > neighbor'.interval BY <2>2
    <3> HIDE DEF r, d
    <3> QED BY <1>0, <3>1, <3>2
  <2>10. x = Longest => Room' > neighbor'.timer + (2 - lost') * MaxInterval
    <3> DEFINE r == TimeLeft(wait, x, Missable, x)
    <3>1. r \in Int /\ Room' = r /\ (x = Longest => r > 3 * MaxInterval) BY <2>5, <2>6, <2>7
    <3> HIDE DEF r
    <3>2. (2 - lost') * MaxInterval <= 2 * MaxInterval /\ (2 - lost') * MaxInterval \in Int
      <4>1. lost' = 0 \/ lost' = 1 \/ lost' = 2 \/ lost' = 3 BY <2>8
      <4> QED BY <1>0, <4>1
    <3>3. neighbor'.timer \in Int /\ neighbor'.timer <= MaxInterval BY <1>0
    <3> DEFINE d == (2 - lost') * MaxInterval
    <3> HIDE DEF d
    <3>4. d \in Int /\ d <= 2 * MaxInterval BY <3>2 DEF d
    <3>5. x = Longest => r > neighbor'.timer + d BY <1>0, <3>1, <3>3, <3>4
    <3> QED BY <3>1, <3>5 DEF d
  <2> QED BY <1>0, <1>2, <2>1, <2>2, <2>3, <2>8, <2>9, <2>10 DEF StayInv
<1>3. \/ ~ Present(entry) /\ UNCHANGED <<entry, lost>>
      \/ /\ entry'.expected = x /\ entry'.count = x /\ entry'.missable = Missable
         /\ lost' = IF beacon \/ ~ Present(entry) THEN 0 ELSE lost
  BY InputRenews DEF StayInv
<1> QED BY <1>1, <1>2, <1>3

\* After a frame that is lost.
LEMMA LossStays ==
  ASSUME StayInv, NdInv', UNCHANGED <<wait, alive, entry>>, lost' = Smaller(3, lost + 1),
         neighbor'.interval \in 0 .. MaxInterval, neighbor'.timer \in 0 .. neighbor'.interval
  PROVE  StayInv'
<1>0. MaxInterval \in Nat \ {0} /\ wait \in 0 .. Unit /\ lost \in 0 .. 3 /\ alive \in BOOLEAN
      /\ Unit \in Nat /\ neighbor.timer \in Nat
  BY ImprovedNdAssumption DEF StayInv
<1>1. lost' \in 0 .. 3 /\ lost' # 0 /\ (lost' < 3 => lost < 3 /\ lost' = lost + 1)
  BY <1>0 DEF Smaller
<1>2. ASSUME Present(entry), alive, lost' < 3, entry.expected = Longest
      PROVE  Room' > neighbor'.timer + (2 - lost') * MaxInterval
  <2>1. Room > neighbor.timer + (2 - lost) * MaxInterval BY <1>1, <1>2 DEF StayInv
  <2>2. Room' = Room BY DEF Room
  <2>3. Room \in Int
    <3>1. entry.expected \in Int /\ entry.count \in Int /\ entry.missable \in Int
      BY <1>2 DEF StayInv
    <3>2. wait \in Int BY <1>0
    <3> QED BY <3>1, <3>2, TimePasses DEF Room
  <2> DEFINE d == (2 - lost) * MaxInterval
             e == (2 - lost') * MaxInterval
  <2>4. d = e + MaxInterval /\ d \in Int /\ e \in Int
    <3>1. lost' = lost + 1 BY <1>1, <1>2
    <3>2. (2 - lost) * MaxInterval = (2 - (lost + 1)) * MaxInterval + MaxInterval BY <1>0
    <3>3. (2 - lost) * MaxInterval \in Int /\ (2 - (lost + 1)) * MaxInterval \in Int BY <1>0
    <3> QED BY <3>1, <3>2, <3>3
  <2>5. Room > neighbor.timer + d BY <2>1
  <2> HIDE DEF d, e
  <2>6. Room > neighbor'.timer + e BY <1>0, <2>3, <2>4, <2>5
  <2> QED BY <2>2, <2>6 DEF e
<1> QED BY <1>0, <1>1, <1>2 DEF StayInv

LEMMA StayStarts == ImprovedNdInit => StayInv
<1> SUFFICES ASSUME ImprovedNdInit PROVE StayInv OBVIOUS
<1>1. PICK i \in Unit .. 2 * Unit - 1 : neighbor = [interval |-> i, timer |-> i, seq |-> 0]
  BY DEF ImprovedNdInit
<1>2. Unit \in Nat \ {0} /\ MaxInterval \in Nat /\ 2 * Unit <= MaxInterval BY ImprovedNdAssumption
<1>3. neighbor.interval \in 0 .. MaxInterval /\ neighbor.timer \in 0 .. neighbor.interval
  BY <1>1, <1>2
<1>4. ~ Present(entry) /\ wait = Unit /\ lost = 0 /\ alive = TRUE BY DEF ImprovedNdInit, Present
<1> QED BY <1>2, <1>3, <1>4, NdStarts DEF StayInv

\* What the count of liveness makes of an entry that stays, or when it goes.
LEMMA CountedIs ==
  ASSUME NdInv, Present(entry), DecreaseLiveness
  PROVE  \/ /\ entry'.expected = entry.expected /\ entry'.count = entry.count - 1
            /\ entry'.missable = entry.missable /\ entry.count - 1 > 0
         \/ /\ entry'.expected = entry.expected /\ entry'.count = entry.expected
            /\ entry'.missable = entry.missable - 1
            /\ ~ (entry.count - 1 > 0) /\ entry.missable > 1
         \/ ~ Present(entry') /\ ~ (entry.count - 1 > 0) /\ ~ (entry.missable > 1)
<1> DEFINE counted == [entry EXCEPT !.count = @ - 1]
<1>0. DOMAIN entry = Fields BY DEF NdInv, Shaped
<1>1. entry' = IF counted.count > 0 THEN counted
               ELSE IF entry.missable > 1 THEN Missed(entry) ELSE Absent
  BY DEF DecreaseLiveness
<1>2. /\ counted.expected = entry.expected /\ counted.count = entry.count - 1
      /\ counted.missable = entry.missable
  BY <1>0 DEF Fields
<1>3. /\ Missed(entry).expected = entry.expected /\ Missed(entry).count = entry.expected
      /\ Missed(entry).missable = entry.missable - 1
  BY <1>0 DEF Fields, Missed
<1> HIDE DEF counted
<1> QED BY <1>1, <1>2, <1>3 DEF Present

LEMMA StayKeeps ==
  ASSUME Patient, StayInv, [ImprovedNdNext]_beaconVars
  PROVE  StayInv'
<1>0. /\ Unit \in Nat \ {0} /\ MaxInterval \in Nat \ {0} /\ MacMod \in Nat \ {0}
      /\ wait \in 0 .. Unit /\ lost \in 0 .. 3 /\ alive \in BOOLEAN
      /\ neighbor.interval \in 0 .. MaxInterval /\ neighbor.timer \in 0 .. neighbor.interval
      /\ neighbor \in [interval : Int, timer : Int, seq : Int] /\ NdInv
  BY ImprovedNdAssumption DEF StayInv, NdInv
<1>1. NdInv' BY <1>0, NdKeeps
<1>2. (neighbor.seq + 1) % MacMod \in Int
  <2>1. neighbor.seq + 1 \in Int BY <1>0
  <2>2. \A a \in Int : a % MacMod \in Int BY <1>0
  <2> QED BY <2>1, <2>2
<1>3. ASSUME Present(entry)
      PROVE  /\ entry.expected \in Nat \ {0} /\ entry.count \in Nat \ {0}
             /\ entry.missable \in Nat \ {0} /\ Room \in Int
  <2>1. entry.expected \in Nat \ {0} /\ entry.count \in Nat \ {0} /\ entry.missable \in Nat \ {0}
    BY <1>3 DEF StayInv
  <2>2. wait \in Int /\ entry.expected \in Int /\ entry.count \in Int /\ entry.missable \in Int
    BY <1>0, <2>1
  <2>3. Room \in Int BY <2>2, TimePasses DEF Room
  <2> QED BY <2>1, <2>3
<1>4. ASSUME NEW beacon \in BOOLEAN, NEW interval, Sent(beacon, interval, (neighbor.seq + 1) % MacMod),
             UNCHANGED <<wait, alive>>,
             neighbor'.interval \in 0 .. MaxInterval, neighbor'.timer \in 0 .. neighbor'.interval,
             IF beacon THEN interval = neighbor'.interval ELSE UNCHANGED neighbor.interval
      PROVE  StayInv'
  <2>1. CASE NdInput(beacon, interval, (neighbor.seq + 1) % MacMod)
    <3> DEFINE seq == (neighbor.seq + 1) % MacMod
    <3>1. seq \in Int /\ NdInput(beacon, interval, seq) BY <1>2, <2>1
    <3> HIDE DEF seq
    <3> QED BY <1>1, <1>4, <3>1, HeardStays
  <2>2. CASE lost' = Smaller(3, lost + 1) /\ UNCHANGED <<entry, reported, gap>>
    BY <1>1, <1>4, <2>2, LossStays
  <2> QED BY <1>4, <2>1, <2>2 DEF Sent
<1>5. CASE SendNdBeacon
  <2> DEFINE interval == Smaller(2 * neighbor.interval, MaxInterval)
  <2>1. /\ neighbor' = [interval |-> interval, timer |-> interval, seq |-> (neighbor.seq + 1) % MacMod]
        /\ Sent(TRUE, interval, (neighbor.seq + 1) % MacMod) /\ UNCHANGED <<alive, wait>>
    BY <1>5 DEF SendNdBeacon
  <2>2. interval \in 0 .. MaxInterval BY <1>0 DEF Smaller
  <2> HIDE DEF interval
  <2>3. neighbor'.interval = interval /\ neighbor'.timer = interval BY <2>1
  <2>4. interval \in 0 .. interval BY <2>2
  <2> QED BY <1>4, <2>1, <2>2, <2>3, <2>4
<1>6. CASE SendOther
  <2> DEFINE seq == (neighbor.seq + 1) % MacMod
  <2>1. PICK success \in BOOLEAN :
          neighbor' = [neighbor EXCEPT !.seq = seq, !.timer = IF success THEN neighbor.interval ELSE @]
    BY <1>6 DEF SendOther
  <2>2. Sent(FALSE, 0, seq) /\ UNCHANGED <<alive, wait>> BY <1>6 DEF SendOther
  <2>3. neighbor'.interval = neighbor.interval
        /\ neighbor'.timer \in {neighbor.interval, neighbor.timer}
    <3> HIDE DEF seq
    <3> QED BY <1>0, <2>1
  <2>4. neighbor'.interval \in 0 .. MaxInterval /\ neighbor'.timer \in 0 .. neighbor'.interval
    BY <1>0, <2>3
  <2> QED BY <1>4, <2>2, <2>3, <2>4
<1>7. CASE Die
  <2>1. alive' = FALSE /\ UNCHANGED <<neighbor, entry, wait, lost>> BY <1>7 DEF Die
  <2> QED BY <1>1, <2>1 DEF StayInv
<1>8. CASE Elapse
  <2>1. /\ wait > 0 /\ wait' = wait - 1 /\ (alive => neighbor.timer > 0)
        /\ neighbor' = (IF alive THEN [neighbor EXCEPT !.timer = @ - 1] ELSE neighbor)
        /\ UNCHANGED <<alive, entry, lost>>
    BY <1>8 DEF Elapse
  <2>2. wait' \in 0 .. Unit BY <1>0, <2>1
  <2>3. neighbor'.interval = neighbor.interval
        /\ (alive => neighbor'.timer = neighbor.timer - 1) /\ (~ alive => neighbor'.timer = neighbor.timer)
    BY <1>0, <2>1
  <2>4. neighbor'.timer \in 0 .. neighbor'.interval BY <1>0, <2>1, <2>3
  <2>5. Present(entry) => Room' = Room - 1
    <3> SUFFICES ASSUME Present(entry) PROVE Room' = Room - 1 OBVIOUS
    <3>1. wait \in Int /\ entry.expected \in Int /\ entry.count \in Int /\ entry.missable \in Int
      BY <1>0, <1>3
    <3>2. TimeLeft(wait', entry.count, entry.missable, entry.expected)
            = TimeLeft(wait, entry.count, entry.missable, entry.expected) - 1
      BY <2>1, <3>1, TickPasses
    <3> QED BY <2>1, <3>2 DEF Room
  <2>6. ASSUME Present(entry), alive, lost = 0 PROVE Room' > neighbor'.timer
    <3>1. Room > neighbor.timer BY <2>6 DEF StayInv
    <3> QED BY <1>0, <1>3, <2>3, <2>5, <2>6, <3>1
  <2>7. ASSUME Present(entry), alive, lost < 3, entry.expected = Longest
        PROVE  Room' > neighbor'.timer + (2 - lost) * MaxInterval
    <3> DEFINE d == (2 - lost) * MaxInterval
    <3>1. Room > neighbor.timer + d BY <2>7 DEF StayInv
    <3>2. d \in Int BY <1>0
    <3> HIDE DEF d
    <3>3. Room' > neighbor'.timer + d BY <1>0, <1>3, <2>3, <2>5, <2>7, <3>1, <3>2
    <3> QED BY <3>3 DEF d
  <2> QED BY <1>0, <1>1, <2>1, <2>2, <2>3, <2>4, <2>6, <2>7 DEF StayInv
<1>9. CASE DecreaseLiveness
  <2>1. wait = 0 /\ wait' = Unit /\ UNCHANGED <<neighbor, alive, lost>>
        /\ (~ Present(entry) => entry' = entry)
    BY <1>9 DEF DecreaseLiveness
  <2>2. CASE ~ Present(entry')
    BY <1>0, <1>1, <2>1, <2>2 DEF StayInv
  <2>3. CASE Present(entry')
    <3>1. Present(entry) BY <2>1, <2>3
    <3>2. /\ entry.expected \in Nat \ {0} /\ entry.count \in Nat \ {0}
          /\ entry.missable \in Nat \ {0} /\ Room \in Int
      BY <1>3, <3>1
    <3>3. /\ entry'.expected = entry.expected /\ entry'.count \in Nat \ {0}
          /\ entry'.missable \in Nat \ {0} /\ Room' = Room
      <4>0. /\ entry.expected \in Int /\ entry.count \in Int /\ entry.missable \in Int
            /\ Room = TimeLeft(0, entry.count, entry.missable, entry.expected)
            /\ Room' = TimeLeft(Unit, entry'.count, entry'.missable, entry'.expected)
        BY <2>1, <3>2 DEF Room
      <4>1. CASE /\ entry'.expected = entry.expected /\ entry'.count = entry.count - 1
                 /\ entry'.missable = entry.missable /\ entry.count - 1 > 0
        <5>1. TimeLeft(Unit, entry'.count, entry.missable, entry.expected)
                = TimeLeft(0, entry.count, entry.missable, entry.expected)
          BY <4>0, <4>1, CountPasses
        <5>2. entry.count - 1 \in Nat \ {0} BY <3>2, <4>1
        <5> QED BY <3>2, <4>0, <4>1, <5>1, <5>2
      <4>2. CASE /\ entry'.expected = entry.expected /\ entry'.count = entry.expected
                 /\ entry'.missable = entry.missable - 1
                 /\ ~ (entry.count - 1 > 0) /\ entry.missable > 1
        <5>1. TimeLeft(Unit, entry.expected, entry'.missable, entry.expected)
                = TimeLeft(0, 1, entry.missable, entry.expected)
          BY <4>0, <4>2, MissPasses
        <5>2. entry.missable - 1 \in Nat \ {0} /\ entry.count = 1 BY <3>2, <4>2
        <5> QED BY <3>2, <4>0, <4>2, <5>1, <5>2
      <4> QED BY <1>0, <1>9, <2>3, <3>1, <4>1, <4>2, CountedIs
    <3>4. Unit \in 0 .. Unit BY <1>0
    <3> QED BY <1>1, <2>1, <3>1, <3>2, <3>3, <3>4 DEF StayInv
  <2> QED BY <2>2, <2>3
<1>10. CASE Others
  <2>1. UNCHANGED <<neighbor, alive, entry, wait, lost>> BY <1>10 DEF Others
  <2> QED BY <1>1, <2>1 DEF StayInv, Room
<1>11. CASE UNCHANGED beaconVars
  <2>1. UNCHANGED <<neighbor, alive, entry, wait, lost>> BY <1>11 DEF beaconVars
  <2> QED BY <1>1, <2>1 DEF StayInv, Room
<1> QED BY <1>5, <1>6, <1>7, <1>8, <1>9, <1>10, <1>11 DEF ImprovedNdNext

LEMMA NotEarly ==
  ASSUME StayInv, [ImprovedNdNext]_beaconVars, Present(entry), ~ Present(entry'), alive
  PROVE  lost >= IF entry.expected = Longest THEN 3 ELSE 1
<1>0. /\ lost \in 0 .. 3 /\ neighbor.timer \in Nat /\ MaxInterval \in Nat /\ NdInv
      /\ entry.expected \in Nat \ {0} /\ entry.count \in Nat \ {0} /\ entry.missable \in Nat \ {0}
  BY ImprovedNdAssumption DEF StayInv
<1>1. DecreaseLiveness
  <2>1. ASSUME NEW beacon, NEW interval, NEW seq \in Int, Sent(beacon, interval, seq)
        PROVE  FALSE
    <3>1. Shaped(entry) /\ (~ gap => Matches(entry)) /\ gap \in BOOLEAN BY <1>0 DEF NdInv
    <3>2. NdInput(beacon, interval, seq) BY <2>1 DEF Sent
    <3> DEFINE again == Refreshed(Estimated(entry, seq), Expected(beacon, interval, entry), seq)
               said == [again EXCEPT !.informed = Rate(again)]
    <3>3. Shaped(Estimated(entry, seq)) BY <3>1, EstimatedMatches
    <3>4. DOMAIN again = Fields BY <3>3 DEF Refreshed, Shaped
    <3>5. entry' = again \/ entry' = said BY <3>2 DEF NdInput
    <3> HIDE DEF again
    <3>6. DOMAIN said = Fields BY <3>4
    <3> HIDE DEF said
    <3> QED BY <3>4, <3>5, <3>6, ShapedIsPresent
  <2>2. (neighbor.seq + 1) % MacMod \in Int
    <3>1. neighbor.seq + 1 \in Int BY <1>0 DEF NdInv
    <3>2. MacMod \in Nat \ {0} BY ImprovedNdAssumption
    <3>3. \A a \in Int : a % MacMod \in Int BY <3>2
    <3> QED BY <3>1, <3>3
  <2>3. ~ SendNdBeacon BY <2>1, <2>2 DEF SendNdBeacon
  <2>4. ~ SendOther BY <2>1, <2>2 DEF SendOther
  <2>5. ~ UNCHANGED entry OBVIOUS
  <2> QED BY <2>3, <2>4, <2>5 DEF ImprovedNdNext, Die, Elapse, Others, beaconVars
<1>2. ~ (entry.count - 1 > 0) /\ ~ (entry.missable > 1)
  <2>1. \A e : e = entry' => ~ Present(e) OBVIOUS
  <2> DEFINE counted == [entry EXCEPT !.count = @ - 1]
  <2>2. entry' = IF counted.count > 0 THEN counted
                 ELSE IF entry.missable > 1 THEN Missed(entry) ELSE Absent
    BY <1>1 DEF DecreaseLiveness
  <2>3. DOMAIN entry = Fields BY <1>0 DEF NdInv, Shaped
  <2>4. counted.count = entry.count - 1 /\ DOMAIN counted = Fields BY <2>3 DEF Fields
  <2>5. DOMAIN Missed(entry) = Fields BY <2>3 DEF Missed
  <2> HIDE DEF counted
  <2>6. Present(counted) /\ Present(Missed(entry)) BY <2>4, <2>5, ShapedIsPresent
  <2> QED BY <2>1, <2>2, <2>4, <2>6
<1>3. entry.count = 1 /\ entry.missable = 1 BY <1>0, <1>2
<1>4. Room = 0
  <2>1. wait = 0 BY <1>1 DEF DecreaseLiveness
  <2>2. entry.expected \in Int BY <1>0
  <2>3. TimeLeft(0, 1, 1, entry.expected) = 0 BY <2>2, TimePasses
  <2> QED BY <1>3, <2>1, <2>3 DEF Room
<1>5. lost # 0 BY <1>0, <1>4 DEF StayInv
<1>6. ASSUME entry.expected = Longest, lost < 3 PROVE FALSE
  <2>1. 0 > neighbor.timer + (2 - lost) * MaxInterval BY <1>4, <1>6 DEF StayInv
  <2>2. (2 - lost) * MaxInterval \in Nat
    <3>1. 2 - lost \in Nat BY <1>0, <1>6
    <3> QED BY <1>0, <3>1
  <2> DEFINE d == (2 - lost) * MaxInterval
  <2> HIDE DEF d
  <2>3. d \in Nat /\ 0 > neighbor.timer + d BY <2>1, <2>2 DEF d
  <2> QED BY <1>0, <2>3
<1> QED BY <1>0, <1>5, <1>6

\* A neighbor that lives is not removed before frames of it were lost since a
\* beacon of it was heard, three where its interval does not grow any more,
\* however other frames put its beacons off (improved_naive_nd_input,
\* decrease_neighbors_liveness), where a silent neighbor stays long enough
\* (Patient).
THEOREM NeighborStays ==
  ASSUME Patient
  PROVE  ImprovedNdSpec => NotRemovedEarly
<1>1. StayInv /\ [ImprovedNdNext]_beaconVars => StayInv' BY StayKeeps
<1>2. StayInv /\ [ImprovedNdNext]_beaconVars
        => [Present(entry) /\ ~ Present(entry') /\ alive =>
              lost >= IF entry.expected = Longest THEN 3 ELSE 1]_beaconVars
  BY NotEarly
<1> QED BY <1>1, <1>2, StayStarts, PTL DEF ImprovedNdSpec, NotRemovedEarly

----------------------------------------------------------------------------
(* Collect: what a connection is                                           *)

ConnFields ==
  {"metric", "announced", "parent", "current", "nbrs", "queue", "seqno", "eseqno", "sending",
   "tx", "max", "timer", "recent", "mac"}

\* The neighbor list: metrics that were announced, and estimates.
Neighborhood(nbrs) ==
  /\ DOMAIN nbrs \subseteq Motes
  /\ \A m \in DOMAIN nbrs : nbrs[m].rt \in Nat /\ nbrs[m].le \in {"none", "good", "bad"}

\* The frames of the MAC layer carry the metric of their sender.
Frame(f) == f = [x \in DOMAIN f |-> f[x]] /\ "rt" \in DOMAIN f /\ f.rt \in Nat
Framed(q) == \E S : q \in Seq(S) /\ \A f \in S : Frame(f)

Conn(c) ==
  /\ c = [f \in ConnFields |-> c[f]]
  /\ c.metric \in Nat /\ c.announced \in Nat /\ c.sending \in BOOLEAN
  /\ Neighborhood(c.nbrs)
  /\ Framed(c.mac)

\* A packet underway has a timer.
Timed(c) == c.sending => c.timer # "off"

\* Who has no parent has announced that there is no route, or is the sink.
Rooted(c) == ~ Known(c, c.parent) => c.parent = NoNode /\ c.metric \in {0, RtmetricMax}

\* What waits has no parent to go to.
Moving(c) == ~ c.sending /\ c.queue # <<>> => ~ Known(c, c.parent)

\* The neighbors are the same.
SameList(c, d) == DOMAIN d.nbrs = DOMAIN c.nbrs

\* Who has begun to send has put the packet last in the queue of the MAC layer.
Begun(c, d) == d.sending /\ ~ c.sending => d.mac # <<>> /\ Last(d.mac).type = "DATA"

LEMMA FramedFacts ==
  ASSUME NEW q, Framed(q)
  PROVE  /\ Framed(Tail(q)) \/ q = <<>>
         /\ \A i \in DOMAIN q : Frame(q[i])
         /\ q # <<>> => Frame(Head(q)) /\ Frame(Last(q))
         /\ \A f : Frame(f) => Framed(Append(q, f)) /\ Append(q, f) # <<>> /\ Last(Append(q, f)) = f
<1>1. PICK S : q \in Seq(S) /\ \A f \in S : Frame(f) BY DEF Framed
<1>2. \A i \in DOMAIN q : q[i] \in S BY <1>1
<1>3. q # <<>> => Tail(q) \in Seq(S) /\ Head(q) \in S /\ Len(q) \in DOMAIN q BY <1>1
<1>4. ASSUME NEW f, Frame(f) PROVE Framed(Append(q, f)) /\ Append(q, f) # <<>> /\ Last(Append(q, f)) = f
  <2> DEFINE T == S \cup {f}
  <2>1. q \in Seq(T) /\ f \in T /\ \A g \in T : Frame(g)
    <3>1. S \subseteq T OBVIOUS
    <3> QED BY <1>1, <1>4, <3>1
  <2> HIDE DEF T
  <2>2. Append(q, f) \in Seq(T) /\ Len(Append(q, f)) = Len(q) + 1 /\ Append(q, f)[Len(q) + 1] = f /\ Len(q) \in Nat BY <2>1
  <2> QED BY <2>1, <2>2 DEF Framed, Last
<1> QED BY <1>1, <1>2, <1>3, <1>4 DEF Framed, Last

LEMMA CostFacts ==
  ASSUME NEW c, Conn(c), NEW m \in DOMAIN c.nbrs
  PROVE  Cost(c, m) \in Nat \ {0}
<1>1. c.nbrs[m].rt \in Nat /\ c.nbrs[m].le \in {"none", "good", "bad"} BY DEF Conn, Neighborhood
<1>2. Estimate[c.nbrs[m].le] \in Nat \ {0} BY <1>1, CollectAssumption DEF Estimate
<1>3. \A a \in Nat : \A b \in Nat \ {0} : a + b \in Nat \ {0} OBVIOUS
<1> QED BY <1>1, <1>2, <1>3, Zenon DEF Cost

LEMMA BestFacts ==
  ASSUME NEW c, Conn(c), Candidates(c) # {}
  PROVE  Best(c) \in Candidates(c) /\ Known(c, Best(c))
<1> DEFINE costs == {Cost(c, m) : m \in Candidates(c)}
<1>1. \A m \in Candidates(c) : m \in DOMAIN c.nbrs /\ Cost(c, m) \in Nat BY CostFacts DEF Candidates
<1>2. costs \subseteq Nat /\ costs # {} BY <1>1
<1>3. PICK k \in costs : \A j \in costs : k <= j BY <1>2, HasLeast
<1>4. \E m \in Candidates(c) : \A x \in Candidates(c) : Cost(c, m) <= Cost(c, x) BY <1>3
<1> QED BY <1>1, <1>4 DEF Best, Known

----------------------------------------------------------------------------
(* Collect: what the handlers keep                                         *)

\* A neighbor that is heard of is in the list.
LEMMA WithKeeps ==
  ASSUME NEW c, Conn(c), NEW m \in Motes, NEW rt \in Nat, NEW le \in {"none", "good", "bad"},
         NEW d, d = With(c, m, rt, le)
  PROVE  /\ Conn(d) /\ DOMAIN d.nbrs = DOMAIN c.nbrs \cup {m}
         /\ \A f \in ConnFields \ {"nbrs"} : d[f] = c[f]
<1> DEFINE nbrs == [x \in DOMAIN c.nbrs \cup {m} |-> IF x = m THEN [rt |-> rt, le |-> le] ELSE c.nbrs[x]]
<1>1. d = [c EXCEPT !.nbrs = nbrs] BY DEF With
<1>2. Neighborhood(nbrs) /\ DOMAIN nbrs = DOMAIN c.nbrs \cup {m}
  <2>1. DOMAIN nbrs = DOMAIN c.nbrs \cup {m} OBVIOUS
  <2>2. DOMAIN nbrs \subseteq Motes BY DEF Conn, Neighborhood
  <2>3. ASSUME NEW x \in DOMAIN nbrs PROVE nbrs[x].rt \in Nat /\ nbrs[x].le \in {"none", "good", "bad"}
    <3>1. CASE x = m
      <4>1. nbrs[x] = [rt |-> rt, le |-> le] BY <3>1
      <4> QED BY <4>1
    <3>2. CASE x # m
      <4>1. nbrs[x] = c.nbrs[x] /\ x \in DOMAIN c.nbrs BY <3>2
      <4> QED BY <4>1 DEF Conn, Neighborhood
    <3> QED BY <3>1, <3>2
  <2> QED BY <2>1, <2>2, <2>3 DEF Neighborhood
<1> HIDE DEF nbrs
<1>3. /\ d = [f \in ConnFields |-> d[f]] /\ d.nbrs = nbrs
      /\ \A f \in ConnFields \ {"nbrs"} : d[f] = c[f]
  BY <1>1 DEF Conn, ConnFields
<1>4. Conn(d) BY <1>2, <1>3 DEF Conn, ConnFields
<1> QED BY <1>2, <1>3, <1>4

\* News of who is in the list and of who is not.
LEMMA NewsKeeps ==
  ASSUME NEW c, Conn(c), NEW m, NEW d,
         \/ \E rt \in Nat : d = WithRt(c, m, rt)
         \/ \E le \in {"none", "good", "bad"} : d = WithLe(c, m, le)
  PROVE  /\ Conn(d) /\ SameList(c, d)
         /\ \A f \in ConnFields \ {"nbrs"} : d[f] = c[f]
<1>1. CASE ~ Known(c, m)
  BY <1>1 DEF WithRt, WithLe, SameList
<1>2. CASE Known(c, m)
  <2>1. m \in DOMAIN c.nbrs /\ m \in Motes /\ c.nbrs[m].rt \in Nat /\ c.nbrs[m].le \in {"none", "good", "bad"}
    BY <1>2 DEF Conn, Neighborhood, Known
  <2>2. PICK rt \in Nat, le \in {"none", "good", "bad"} : d = With(c, m, rt, le)
    BY <1>2, <2>1 DEF WithRt, WithLe
  <2>3. Conn(d) /\ DOMAIN d.nbrs = DOMAIN c.nbrs \cup {m} /\ \A f \in ConnFields \ {"nbrs"} : d[f] = c[f]
    <3>1. Conn(c) OBVIOUS
    <3>2. m \in Motes /\ rt \in Nat /\ le \in {"none", "good", "bad"} BY <2>1, <2>2
    <3>3. Conn(d) BY <3>1, <3>2, <2>2, WithKeeps
    <3>4. DOMAIN d.nbrs = DOMAIN c.nbrs \cup {m} BY <3>1, <3>2, <2>2, WithKeeps
    <3> QED BY <3>1, <3>2, <3>3, <3>4, <2>2, WithKeeps
  <2>4. DOMAIN c.nbrs \cup {m} = DOMAIN c.nbrs BY <2>1
  <2> QED BY <2>3, <2>4 DEF SameList
<1> QED BY <1>1, <1>2

LEMMA UpdateParentKeeps ==
  ASSUME NEW c, Conn(c)
  PROVE  LET d == UpdateParent(c)
         IN  /\ Conn(d) /\ \A f \in ConnFields \ {"parent"} : d[f] = c[f]
             /\ Known(d, d.parent) \/ d.parent = NoNode
             /\ ~ Known(d, d.parent) => RtmetricCompute(d) = RtmetricMax
             /\ RtmetricCompute(d) \in Nat
             /\ ~ Known(c, c.parent) /\ Known(d, d.parent) => RtmetricCompute(d) # RtmetricMax
<1> DEFINE d == UpdateParent(c)
<1>1. PICK p : /\ d = [c EXCEPT !.parent = p] \/ (d = c /\ p = c.parent)
               /\ p \in DOMAIN c.nbrs \/ p = NoNode
  <2>1. CASE Candidates(c) = {} BY <2>1 DEF UpdateParent
  <2>2. CASE Candidates(c) # {}
    <3>1. Best(c) \in DOMAIN c.nbrs BY <2>2, BestFacts DEF Known
    <3>2. d = [c EXCEPT !.parent = Best(c)] \/ (d = c /\ c.parent \in DOMAIN c.nbrs)
      BY <2>2 DEF UpdateParent, Known
    <3> QED BY <3>1, <3>2
  <2> QED BY <2>1, <2>2
<1>2. /\ d = [f \in ConnFields |-> d[f]] /\ d.parent = p
      /\ \A f \in ConnFields \ {"parent"} : d[f] = c[f]
  BY <1>1 DEF Conn, ConnFields
<1> HIDE DEF d
<1>3. Conn(d) BY <1>2 DEF Conn, ConnFields
<1>4. d.nbrs = c.nbrs BY <1>2 DEF ConnFields
<1>5. Known(d, d.parent) \/ d.parent = NoNode BY <1>1, <1>2, <1>4 DEF Known
<1>6. ~ Known(d, d.parent) => RtmetricCompute(d) = RtmetricMax BY DEF RtmetricCompute
<1>7. RtmetricCompute(d) \in Nat
  <2>1. CASE ~ Known(d, d.parent) BY <2>1, <1>6, CollectAssumption
  <2>2. CASE Known(d, d.parent)
    <3>1. Cost(d, d.parent) \in Nat BY <2>2, <1>3, CostFacts DEF Known
    <3> QED BY <3>1, CollectAssumption DEF RtmetricCompute
  <2> QED BY <2>1, <2>2
<1>8. ASSUME ~ Known(c, c.parent), Known(d, d.parent) PROVE RtmetricCompute(d) # RtmetricMax
  <2>1. Candidates(c) # {} /\ d = [c EXCEPT !.parent = Best(c)]
    <3>1. CASE Candidates(c) = {}
      <4>1. d = [c EXCEPT !.parent = NoNode] BY <3>1 DEF UpdateParent, d
      <4>2. d.parent = NoNode BY <4>1 DEF Conn, ConnFields
      <4> QED BY <4>2, <1>4, <1>8, CollectAssumption DEF Known, Conn, Neighborhood
    <3>2. CASE Candidates(c) # {}
      BY <3>2, <1>8 DEF UpdateParent, d
    <3> QED BY <3>1, <3>2
  <2>2. d.parent = Best(c) BY <2>1 DEF Conn, ConnFields
  <2>3. Best(c) \in DOMAIN c.nbrs /\ Cost(c, Best(c)) < RtmetricMax BY <2>1, BestFacts DEF Candidates
  <2>4. Cost(c, Best(c)) \in Nat \ {0} BY <2>3, CostFacts
  <2>5. Cost(d, d.parent) = Cost(c, Best(c)) BY <2>2, <1>4 DEF Cost
  <2> QED BY <2>3, <2>4, <2>5, <1>8, CollectAssumption DEF RtmetricCompute
<1> QED BY <1>2, <1>3, <1>5, <1>6, <1>7, <1>8 DEF d

\* A frame is added to the queue of the MAC layer.
LEMMA SendPacketKeeps ==
  ASSUME NEW c, Conn(c)
  PROVE  LET d == SendPacket(c)
         IN  /\ Conn(d) /\ \A f \in ConnFields \ {"mac", "timer"} : d[f] = c[f]
             /\ d.timer = "not sent" /\ d.mac # <<>> /\ Last(d.mac).type = "DATA"
<1> DEFINE f == Data(c, Head(c.queue))
           q == Append(c.mac, f)
           d == [c EXCEPT !.mac = q, !.timer = "not sent"]
<1>1. SendPacket(c) = d BY DEF SendPacket
<1>2. Frame(f) /\ f.type = "DATA" BY DEF Conn, Data, Frame
<1>3. Framed(q) /\ q # <<>> /\ Last(q) = f
  <2> HIDE DEF f
  <2> QED BY <1>2, FramedFacts DEF Conn
<1> HIDE DEF q
<1>4. /\ d = [x \in ConnFields |-> d[x]] /\ d.mac = q /\ d.timer = "not sent"
      /\ \A x \in ConnFields \ {"mac", "timer"} : d[x] = c[x]
  BY DEF Conn, ConnFields
<1> HIDE DEF d
<1>5. Conn(d) BY <1>3, <1>4 DEF Conn, ConnFields
<1> QED BY <1>1, <1>2, <1>3, <1>4, <1>5

LEMMA SendQueuedKeeps ==
  ASSUME NEW c, Conn(c), Timed(c)
  PROVE  LET d == SendQueued(c)
         IN  /\ Conn(d) /\ Timed(d) /\ Moving(d) /\ Begun(c, d)
             /\ \A f \in {"nbrs", "queue", "parent", "metric"} : d[f] = c[f]
             /\ c.sending => d.sending
             /\ c.queue # <<>> /\ Known(c, c.parent) => d.sending
<1> DEFINE d == SendQueued(c)
<1>1. CASE c.sending \/ c.queue = <<>>
  <2>1. d = c BY <1>1 DEF SendQueued
  <2> QED BY <1>1, <2>1 DEF Moving, Begun
<1>2. CASE ~ c.sending /\ c.queue # <<>> /\ ~ Known(c, c.parent)
  <2> DEFINE e == [c EXCEPT !.announced = RtmetricMax]
  <2>1. d = e BY <1>2 DEF SendQueued
  <2>2. /\ e = [x \in ConnFields |-> e[x]] /\ e.announced = RtmetricMax
        /\ \A x \in ConnFields \ {"announced"} : e[x] = c[x]
    BY DEF Conn, ConnFields
  <2> HIDE DEF e
  <2>3. Conn(e) BY <2>2, CollectAssumption DEF Conn, ConnFields
  <2>4. \A f \in {"nbrs", "queue", "parent", "metric", "sending", "timer"} : e[f] = c[f] BY <2>2 DEF ConnFields
  <2> QED BY <1>2, <2>1, <2>3, <2>4 DEF Timed, Moving, Begun, Known
<1>3. CASE ~ c.sending /\ c.queue # <<>> /\ Known(c, c.parent)
  <2> DEFINE e == [c EXCEPT !.sending = TRUE, !.current = c.parent, !.tx = 0, !.max = Head(c.queue).rexmits]
             g == SendPacket(e)
  <2>1. d = g BY <1>3 DEF SendQueued
  <2>2. /\ e = [x \in ConnFields |-> e[x]] /\ e.sending = TRUE
        /\ \A x \in ConnFields \ {"sending", "current", "tx", "max"} : e[x] = c[x]
    BY DEF Conn, ConnFields
  <2> HIDE DEF e
  <2>3. Conn(e) BY <2>2 DEF Conn, ConnFields
  <2>4. /\ Conn(g) /\ \A f \in ConnFields \ {"mac", "timer"} : g[f] = e[f]
        /\ g.timer = "not sent" /\ g.mac # <<>> /\ Last(g.mac).type = "DATA"
    BY <2>3, SendPacketKeeps
  <2> HIDE DEF g
  <2>5. g.sending = TRUE /\ \A f \in {"nbrs", "queue", "parent", "metric"} : g[f] = c[f] BY <2>2, <2>4 DEF ConnFields
  <2> QED BY <1>3, <2>1, <2>4, <2>5 DEF Timed, Moving, Begun
<1> QED BY <1>1, <1>2, <1>3

\* News are worked in.  No queue that moves stops; and nobody is rooted worse
\* than before.
LEMMA UpdateRtmetricKeeps ==
  ASSUME NEW c, Conn(c), Timed(c)
  PROVE  LET d == UpdateRtmetric(c)
         IN  /\ Conn(d) /\ Timed(d) /\ Begun(c, d) /\ SameList(c, d) /\ d.queue = c.queue
             /\ Rooted(c) => Rooted(d)
             /\ Rooted(c) /\ Moving(c) => Moving(d)
             /\ c.sending => d.sending
<1> DEFINE d == UpdateRtmetric(c)
<1>1. CASE c.metric = 0
  <2>1. d = c BY <1>1 DEF UpdateRtmetric
  <2> QED BY <2>1 DEF SameList, Begun
<1>2. CASE c.metric # 0
  <2> DEFINE p == UpdateParent(c)
             r == RtmetricCompute(p)
             u == [p EXCEPT !.metric = r, !.announced = r]
  <2>1. d = IF c.metric = RtmetricMax /\ r # RtmetricMax THEN SendQueued(u) ELSE u
    BY <1>2 DEF UpdateRtmetric
  <2>2. /\ Conn(p) /\ \A f \in ConnFields \ {"parent"} : p[f] = c[f]
        /\ Known(p, p.parent) \/ p.parent = NoNode
        /\ ~ Known(p, p.parent) => r = RtmetricMax
        /\ r \in Nat
        /\ ~ Known(c, c.parent) /\ Known(p, p.parent) => r # RtmetricMax
    BY UpdateParentKeeps
  <2> HIDE DEF p, r
  <2>3. /\ u = [x \in ConnFields |-> u[x]] /\ u.metric = r /\ u.announced = r
        /\ \A x \in ConnFields \ {"metric", "announced"} : u[x] = p[x]
    BY <2>2 DEF Conn, ConnFields
  <2> HIDE DEF u
  <2>4. Conn(u) BY <2>2, <2>3 DEF Conn, ConnFields
  <2>5. u.nbrs = c.nbrs /\ u.queue = c.queue /\ u.sending = c.sending /\ u.timer = c.timer /\ u.parent = p.parent
        /\ p.nbrs = c.nbrs
    BY <2>2, <2>3 DEF ConnFields
  <2>6. Timed(u) /\ Begun(c, u) /\ SameList(c, u) BY <2>5 DEF Timed, Begun, SameList
  <2>7. Rooted(u) BY <2>2, <2>3, <2>5 DEF Rooted, Known
  <2>8. CASE c.metric = RtmetricMax /\ r # RtmetricMax
    <3> DEFINE s == SendQueued(u)
    <3>1. /\ Conn(s) /\ Timed(s) /\ Moving(s) /\ Begun(u, s)
          /\ \A f \in {"nbrs", "queue", "parent", "metric"} : s[f] = u[f]
          /\ u.sending => s.sending
      BY <2>4, <2>6, SendQueuedKeeps
    <3>2. d = s BY <2>1, <2>8
    <3> HIDE DEF s, d
    <3>3. s.nbrs = u.nbrs /\ s.queue = u.queue /\ s.parent = u.parent /\ s.metric = u.metric BY <3>1
    <3>4. Rooted(s) BY <2>7, <3>3 DEF Rooted, Known
    <3>5. Begun(c, s) /\ SameList(c, s) BY <2>5, <3>1, <3>3 DEF Begun, SameList
    <3>6. s.queue = c.queue /\ (c.sending => s.sending) BY <2>5, <3>1, <3>3
    <3> QED BY <3>1, <3>2, <3>4, <3>5, <3>6 DEF d
  <2>9. CASE ~ (c.metric = RtmetricMax /\ r # RtmetricMax)
    <3>1. d = u BY <2>1, <2>9
    <3>2. ASSUME Rooted(c), Moving(c) PROVE Moving(u)
      <4>1. CASE Known(c, c.parent)
        BY <4>1, <3>2, <2>5 DEF Moving
      <4>2. CASE ~ Known(c, c.parent)
        <5>1. c.metric = RtmetricMax BY <4>2, <3>2, <1>2 DEF Rooted
        <5>2. r = RtmetricMax BY <5>1, <2>9
        <5>3. ~ Known(p, p.parent) BY <5>2, <4>2, <2>2
        <5> QED BY <5>3, <2>5 DEF Moving, Known
      <4> QED BY <4>1, <4>2
    <3> QED BY <3>1, <3>2, <2>4, <2>5, <2>6, <2>7
  <2> QED BY <2>8, <2>9
<1> QED BY <1>1, <1>2

\* What the timer and the reports of the MAC layer lead to: the next packet, or
\* the same again.  Where a parent is known, something is sent.
LEMMA SendNextKeeps ==
  ASSUME NEW c, Conn(c)
  PROVE  LET d == SendNext(c)
         IN  Conn(d) /\ Timed(d) /\ Moving(d) /\ (Rooted(c) => Rooted(d))
<1> DEFINE q == IF c.queue = <<>> THEN c.queue ELSE Tail(c.queue)
           k == (c.seqno + 1) % IdMod
           e == [c EXCEPT !.queue = q, !.seqno = k, !.timer = "off", !.sending = FALSE, !.tx = 0]
           s == SendQueued(e)
<1>1. SendNext(c) = s BY DEF SendNext
<1> HIDE DEF q, k
<1>2. /\ e = [x \in ConnFields |-> e[x]] /\ e.sending = FALSE
      /\ \A x \in ConnFields \ {"queue", "seqno", "timer", "sending", "tx"} : e[x] = c[x]
  BY DEF Conn, ConnFields
<1> HIDE DEF e
<1>3. Conn(e) /\ Timed(e) BY <1>2 DEF Conn, ConnFields, Timed
<1>4. /\ Conn(s) /\ Timed(s) /\ Moving(s)
      /\ \A f \in {"nbrs", "queue", "parent", "metric"} : s[f] = e[f]
  BY <1>3, SendQueuedKeeps
<1> HIDE DEF s
<1>5. s.nbrs = c.nbrs /\ s.parent = c.parent /\ s.metric = c.metric BY <1>2, <1>4 DEF ConnFields
<1> QED BY <1>1, <1>4, <1>5 DEF Rooted, Known

LEMMA TimedoutKeeps ==
  ASSUME NEW c, Conn(c)
  PROVE  LET d == Timedout(c)
         IN  Conn(d) /\ Timed(d) /\ Moving(d) /\ (Rooted(c) => Rooted(d))
<1> DEFINE e == [c EXCEPT !.sending = FALSE]
           w == WithLe(e, c.current, "bad")
           u == UpdateRtmetric(w)
<1>1. Timedout(c) = SendNext(u) BY DEF Timedout
<1>2. /\ e = [x \in ConnFields |-> e[x]] /\ e.sending = FALSE
      /\ \A x \in ConnFields \ {"sending"} : e[x] = c[x]
  BY DEF Conn, ConnFields
<1>3. \E le \in {"none", "good", "bad"} : w = WithLe(e, c.current, le) OBVIOUS
<1> HIDE DEF e, w, u
<1>4. Conn(e) BY <1>2 DEF Conn, ConnFields
<1>5. Conn(w) /\ SameList(e, w) /\ \A f \in ConnFields \ {"nbrs"} : w[f] = e[f] BY <1>3, <1>4, NewsKeeps
<1>6. w.sending = FALSE /\ w.parent = c.parent /\ w.metric = c.metric BY <1>2, <1>5 DEF ConnFields
<1>7. Timed(w) BY <1>6 DEF Timed
<1>8. Rooted(c) => Rooted(w)
  <2>1. DOMAIN w.nbrs = DOMAIN c.nbrs BY <1>2, <1>5 DEF SameList, ConnFields
  <2> QED BY <2>1, <1>6 DEF Rooted, Known
<1>9. Conn(u) /\ (Rooted(w) => Rooted(u)) BY <1>5, <1>7, UpdateRtmetricKeeps DEF u
<1> QED BY <1>1, <1>8, <1>9, SendNextKeeps

LEMMA RetransmitCurrentKeeps ==
  ASSUME NEW c, Conn(c), c.sending = FALSE
  PROVE  LET d == RetransmitCurrent(c)
         IN  Conn(d) /\ Timed(d) /\ Moving(d) /\ (Rooted(c) => Rooted(d))
<1> DEFINE d == RetransmitCurrent(c)
<1>0. Timed(c) BY DEF Timed
<1>1. CASE c.queue = <<>>
  <2>1. d = c BY <1>1 DEF RetransmitCurrent
  <2> QED BY <1>0, <1>1, <2>1 DEF Moving
<1>2. CASE c.queue # <<>>
  <2> DEFINE u == UpdateRtmetric(c)
             v == IF u.current = u.parent THEN u ELSE [u EXCEPT !.current = u.parent, !.tx = 0]
             e == [v EXCEPT !.sending = TRUE]
             g == SendPacket(e)
  <2>1. d = IF Known(v, v.current) THEN g ELSE v BY <1>2 DEF RetransmitCurrent
  <2>2. Conn(u) /\ Timed(u) /\ (Rooted(c) => Rooted(u)) BY <1>0, UpdateRtmetricKeeps
  <2> HIDE DEF u
  <2>3. /\ v = [x \in ConnFields |-> v[x]] /\ v.current = u.parent
        /\ \A x \in ConnFields \ {"current", "tx"} : v[x] = u[x]
    <3>1. CASE u.current = u.parent BY <3>1, <2>2 DEF Conn, ConnFields
    <3>2. CASE u.current # u.parent BY <3>2, <2>2 DEF Conn, ConnFields
    <3> QED BY <3>1, <3>2
  <2> HIDE DEF v
  <2>4. Conn(v) /\ Timed(v) BY <2>2, <2>3 DEF Conn, ConnFields, Timed
  <2>5. v.parent = u.parent /\ v.nbrs = u.nbrs /\ v.metric = u.metric BY <2>3 DEF ConnFields
  <2>6. Rooted(u) => Rooted(v) BY <2>5 DEF Rooted, Known
  <2>7. CASE ~ Known(v, v.current)
    <3>1. d = v BY <2>1, <2>7
    <3>2. Moving(v) BY <2>3, <2>5, <2>7 DEF Moving
    <3> QED BY <3>1, <3>2, <2>2, <2>4, <2>6
  <2>8. CASE Known(v, v.current)
    <3>1. /\ e = [x \in ConnFields |-> e[x]] /\ e.sending = TRUE
          /\ \A x \in ConnFields \ {"sending"} : e[x] = v[x]
      BY <2>4 DEF Conn, ConnFields
    <3> HIDE DEF e
    <3>2. Conn(e) BY <3>1, <2>4 DEF Conn, ConnFields
    <3>3. /\ Conn(g) /\ \A f \in ConnFields \ {"mac", "timer"} : g[f] = e[f]
          /\ g.timer = "not sent"
      BY <3>2, SendPacketKeeps
    <3>4. d = g BY <2>1, <2>8
    <3> HIDE DEF g, d
    <3>5. g.sending = TRUE /\ g.parent = v.current /\ g.nbrs = v.nbrs
      BY <3>1, <3>3, <2>3, <2>5 DEF ConnFields
    <3>6. Known(g, g.parent) BY <3>5, <2>8 DEF Known
    <3>7. Timed(g) /\ Moving(g) /\ Rooted(g) BY <3>3, <3>5, <3>6 DEF Timed, Moving, Rooted
    <3> QED BY <3>3, <3>4, <3>7 DEF d
  <2> QED BY <2>7, <2>8
<1> QED BY <1>1, <1>2

LEMMA RetransmitCallbackKeeps ==
  ASSUME NEW c, Conn(c)
  PROVE  LET d == RetransmitCallback(c)
         IN  Conn(d) /\ Timed(d) /\ Moving(d) /\ (Rooted(c) => Rooted(d))
<1> DEFINE d == RetransmitCallback(c)
<1>1. CASE c.tx >= c.max
  BY <1>1, TimedoutKeeps DEF RetransmitCallback
<1>2. CASE ~ (c.tx >= c.max)
  <2> DEFINE e == [c EXCEPT !.sending = FALSE]
  <2>1. d = RetransmitCurrent(e) BY <1>2 DEF RetransmitCallback
  <2>2. /\ e = [x \in ConnFields |-> e[x]] /\ e.sending = FALSE
        /\ \A x \in ConnFields \ {"sending"} : e[x] = c[x]
    BY DEF Conn, ConnFields
  <2> HIDE DEF e, d
  <2>3. Conn(e) BY <2>2 DEF Conn, ConnFields
  <2>4. e.parent = c.parent /\ e.nbrs = c.nbrs /\ e.metric = c.metric BY <2>2 DEF ConnFields
  <2>5. Rooted(c) => Rooted(e) BY <2>4 DEF Rooted, Known
  <2>6. Conn(d) /\ Timed(d) /\ Moving(d) /\ (Rooted(e) => Rooted(d))
    BY <2>1, <2>2, <2>3, RetransmitCurrentKeeps
  <2> QED BY <2>5, <2>6 DEF d
<1> QED BY <1>1, <1>2

LEMMA NodePacketSentKeeps ==
  ASSUME NEW c, Conn(c), NEW tries
  PROVE  LET d == NodePacketSent(c, tries)
         IN  /\ Conn(d) /\ Timed(d) /\ (Rooted(c) => Rooted(d))
             /\ Moving(c) => Moving(d)
<1> DEFINE tx == c.tx + tries
           u == [c EXCEPT !.tx = tx]
           d == NodePacketSent(c, tries)
           e == [u EXCEPT !.timer = "rexmit"]
<1>1. d = IF u.tx >= u.max THEN Timedout(u) ELSE e BY DEF NodePacketSent
<1> HIDE DEF tx
<1>2. /\ u = [x \in ConnFields |-> u[x]]
      /\ \A x \in ConnFields \ {"tx"} : u[x] = c[x]
  BY DEF Conn, ConnFields
<1> HIDE DEF u
<1>3. Conn(u) BY <1>2 DEF Conn, ConnFields
<1>4. /\ e = [x \in ConnFields |-> e[x]] /\ e.timer = "rexmit"
      /\ \A x \in ConnFields \ {"timer"} : e[x] = u[x]
  BY <1>3 DEF Conn, ConnFields
<1> HIDE DEF e
<1>5. Conn(e) BY <1>3, <1>4 DEF Conn, ConnFields
<1>6. /\ u.parent = c.parent /\ u.nbrs = c.nbrs /\ u.metric = c.metric /\ u.queue = c.queue /\ u.sending = c.sending
      /\ e.parent = c.parent /\ e.nbrs = c.nbrs /\ e.metric = c.metric /\ e.queue = c.queue /\ e.sending = c.sending
  BY <1>2, <1>4 DEF ConnFields
<1>7. Rooted(c) => Rooted(u) /\ Rooted(e) BY <1>6 DEF Rooted, Known
<1>8. (Moving(c) => Moving(e)) /\ Timed(e) BY <1>4, <1>6 DEF Moving, Timed, Known
<1>9. CASE u.tx >= u.max
  <2>1. d = Timedout(u) BY <1>1, <1>9
  <2> QED BY <2>1, <1>3, <1>7, TimedoutKeeps
<1>10. CASE ~ (u.tx >= u.max)
  <2>1. d = e BY <1>1, <1>10
  <2> QED BY <2>1, <1>5, <1>7, <1>8
<1> QED BY <1>9, <1>10

\* What every handler keeps of a connection.
Kept(c, d) ==
  /\ Conn(d) /\ Timed(d)
  /\ Rooted(c) => Rooted(d)
  /\ Rooted(c) /\ Moving(c) => Moving(d)

\* What does not touch the route nor the queue keeps it.
LEMMA KeptAside ==
  ASSUME NEW c, Timed(c), NEW d, Conn(d),
         d.nbrs = c.nbrs, d.queue = c.queue, d.parent = c.parent, d.metric = c.metric,
         d.sending = c.sending, d.timer = c.timer
  PROVE  Kept(c, d)
BY DEF Kept, Timed, Rooted, Moving, Known

LEMMA AddToRecentKeeps ==
  ASSUME NEW c, Conn(c), NEW p
  PROVE  LET d == AddToRecent(c, p)
         IN  Conn(d) /\ \A f \in ConnFields \ {"recent"} : d[f] = c[f]
<1> DEFINE d == AddToRecent(c, p)
<1>1. PICK r : d = c \/ d = [c EXCEPT !.recent = r] BY DEF AddToRecent
<1>2. d = [x \in ConnFields |-> d[x]] /\ \A f \in ConnFields \ {"recent"} : d[f] = c[f]
  BY <1>1 DEF Conn, ConnFields
<1> HIDE DEF d
<1>3. Conn(d) BY <1>2 DEF Conn, ConnFields
<1> QED BY <1>2, <1>3 DEF d

LEMMA SendAckKeeps ==
  ASSUME NEW c, Conn(c), NEW f, NEW from, NEW flags
  PROVE  LET d == SendAck(c, f, from, flags)
         IN  Conn(d) /\ \A x \in ConnFields \ {"mac"} : d[x] = c[x]
<1> DEFINE a == [type |-> "ACK", to |-> from, id |-> f.id, rt |-> c.metric, flags |-> flags]
           q == Append(c.mac, a)
           d == [c EXCEPT !.mac = q]
<1>1. SendAck(c, f, from, flags) = d BY DEF SendAck
<1>2. Frame(a) BY DEF Conn, Frame
<1>3. Framed(q)
  <2> HIDE DEF a
  <2> QED BY <1>2, FramedFacts DEF Conn
<1> HIDE DEF q
<1>4. d = [x \in ConnFields |-> d[x]] /\ d.mac = q /\ \A x \in ConnFields \ {"mac"} : d[x] = c[x]
  BY DEF Conn, ConnFields
<1> HIDE DEF d
<1>5. Conn(d) BY <1>3, <1>4 DEF Conn, ConnFields
<1> QED BY <1>1, <1>4, <1>5

LEMMA ReceiveDataKeeps ==
  ASSUME NEW c, Conn(c), Timed(c), NEW f, NEW from
  PROVE  Kept(c, ReceiveData(c, f, from))
<1> DEFINE p == f.packet
           d == ReceiveData(c, f, from)
           q == Append(c.queue, [p EXCEPT !.ttl = @ - 1])
           e == [c EXCEPT !.queue = q]
<1>1. ASSUME NEW g PROVE Kept(c, SendAck(c, f, from, g))
  <2> DEFINE a == SendAck(c, f, from, g)
  <2>1. Conn(a) /\ \A x \in ConnFields \ {"mac"} : a[x] = c[x] BY SendAckKeeps
  <2> HIDE DEF a
  <2> QED BY <2>1, KeptAside DEF ConnFields, a
<1>2. ASSUME NEW g PROVE Kept(c, SendAck(AddToRecent(c, p), f, from, g))
  <2> DEFINE r == AddToRecent(c, p)
             a == SendAck(r, f, from, g)
  <2>1. Conn(r) /\ \A x \in ConnFields \ {"recent"} : r[x] = c[x] BY AddToRecentKeeps
  <2> HIDE DEF r
  <2>2. Conn(a) /\ \A x \in ConnFields \ {"mac"} : a[x] = r[x] BY <2>1, SendAckKeeps
  <2> HIDE DEF a
  <2>3. Kept(c, a) BY <2>1, <2>2, KeptAside DEF ConnFields
  <2> QED BY <2>3 DEF a, r
<1>3. ASSUME NEW g PROVE Kept(c, SendQueued(SendAck(AddToRecent(e, p), f, from, g)))
  <2> HIDE DEF q
  <2>1. e = [x \in ConnFields |-> e[x]] /\ \A x \in ConnFields \ {"queue"} : e[x] = c[x]
    BY DEF Conn, ConnFields
  <2> HIDE DEF e
  <2>2. Conn(e) BY <2>1 DEF Conn, ConnFields
  <2> DEFINE r == AddToRecent(e, p)
             a == SendAck(r, f, from, g)
             s == SendQueued(a)
  <2>3. Conn(r) /\ \A x \in ConnFields \ {"recent"} : r[x] = e[x] BY <2>2, AddToRecentKeeps
  <2> HIDE DEF r
  <2>4. Conn(a) /\ \A x \in ConnFields \ {"mac"} : a[x] = r[x] BY <2>3, SendAckKeeps
  <2> HIDE DEF a
  <2>5. a.nbrs = c.nbrs /\ a.parent = c.parent /\ a.metric = c.metric /\ a.sending = c.sending /\ a.timer = c.timer
    BY <2>1, <2>3, <2>4 DEF ConnFields
  <2>6. Timed(a) BY <2>5 DEF Timed
  <2>7. Conn(s) /\ Timed(s) /\ Moving(s) /\ \A x \in {"nbrs", "queue", "parent", "metric"} : s[x] = a[x]
    BY <2>4, <2>6, SendQueuedKeeps
  <2> HIDE DEF s
  <2>8. Rooted(c) => Rooted(s) BY <2>5, <2>7 DEF Rooted, Known
  <2>9. Kept(c, s) BY <2>7, <2>8 DEF Kept
  <2> QED BY <2>9 DEF s, a, r
<1>4. Kept(c, c) BY DEF Kept
<1> HIDE DEF e, q
<1>5. \/ d = c
      \/ \E g : \/ d = SendAck(c, f, from, g)
                \/ d = SendAck(AddToRecent(c, p), f, from, g)
                \/ d = SendQueued(SendAck(AddToRecent(e, p), f, from, g))
  BY DEF ReceiveData, e, q
<1> QED BY <1>1, <1>2, <1>3, <1>4, <1>5

\* News of a neighbor are worked in.
LEMMA UpdateOfNews ==
  ASSUME NEW c, Conn(c), Timed(c), NEW m, NEW w,
         \/ \E rt \in Nat : w = WithRt(c, m, rt)
         \/ \E le \in {"none", "good", "bad"} : w = WithLe(c, m, le)
  PROVE  Kept(c, w) /\ Kept(c, UpdateRtmetric(w)) /\ Begun(c, UpdateRtmetric(w))
<1>1. Conn(w) /\ SameList(c, w) /\ \A f \in ConnFields \ {"nbrs"} : w[f] = c[f]
  <2>1. Conn(w) BY NewsKeeps
  <2>2. SameList(c, w) BY NewsKeeps
  <2> QED BY <2>1, <2>2, NewsKeeps
<1>2. /\ w.queue = c.queue /\ w.parent = c.parent /\ w.metric = c.metric
      /\ w.sending = c.sending /\ w.timer = c.timer
  BY <1>1 DEF ConnFields
<1>3. Kept(c, w) BY <1>1, <1>2 DEF Kept, SameList, Timed, Rooted, Moving, Known
<1> DEFINE u == UpdateRtmetric(w)
<1>4. /\ Conn(u) /\ Timed(u) /\ Begun(w, u)
      /\ Rooted(w) => Rooted(u)
      /\ Rooted(w) /\ Moving(w) => Moving(u)
  BY <1>3, UpdateRtmetricKeeps DEF Kept
<1> HIDE DEF u
<1>5. Kept(c, u) BY <1>3, <1>4 DEF Kept
<1>6. Begun(c, u) BY <1>2, <1>4 DEF Begun
<1> QED BY <1>3, <1>5, <1>6 DEF u

LEMMA KeptOn ==
  ASSUME NEW c, NEW d, NEW e, Kept(c, d), Kept(d, e)
  PROVE  Kept(c, e)
BY DEF Kept

LEMMA HandleAckKeeps ==
  ASSUME NEW c, Conn(c), Timed(c), NEW f, Frame(f), NEW from
  PROVE  Kept(c, HandleAck(c, f, from))
<1> DEFINE a == WithLe(c, from, "good")
           b == WithRt(a, from, f.rt)
           v == UpdateRtmetric(b)
           x == UpdateRtmetric(WithLe(v, from, "bad"))
           w == IF "CONGESTED" \in f.flags THEN x ELSE v
           y == UpdateRtmetric(WithLe(w, from, "bad"))
           tx == IF y.tx = 0 THEN MacTries ELSE y.tx
           z == [y EXCEPT !.tx = tx, !.timer = "rexmit"]
           d == HandleAck(c, f, from)
<1>1. d = c \/ d = z \/ d = SendNext(w) BY DEF HandleAck
<1>2. Kept(c, c) BY DEF Kept
<1>3. Kept(c, a) BY UpdateOfNews
<1>4. Kept(c, v)
  <2> HIDE DEF a
  <2>1. Conn(a) /\ Timed(a) /\ f.rt \in Nat BY <1>3 DEF Kept, Frame
  <2>2. Kept(a, v) BY <2>1, UpdateOfNews
  <2> QED BY <1>3, <2>2, KeptOn
<1>5. Kept(c, w)
  <2> HIDE DEF v
  <2>1. Conn(v) /\ Timed(v) BY <1>4 DEF Kept
  <2>2. Kept(v, x) BY <2>1, UpdateOfNews
  <2>3. Kept(c, x) BY <1>4, <2>2, KeptOn
  <2> HIDE DEF x
  <2> QED BY <1>4, <2>3
<1> HIDE DEF w, a, b, v, x
<1>6. Conn(w) /\ Timed(w) BY <1>5 DEF Kept
<1>7. Kept(c, y)
  <2>1. Kept(w, y) BY <1>6, UpdateOfNews
  <2> QED BY <1>5, <2>1, KeptOn
<1> HIDE DEF y, tx, d
<1>8. Kept(c, z)
  <2>1. Conn(y) /\ Timed(y) BY <1>7 DEF Kept
  <2>2. /\ z = [k \in ConnFields |-> z[k]] /\ z.timer = "rexmit"
        /\ \A k \in ConnFields \ {"tx", "timer"} : z[k] = y[k]
    BY <2>1 DEF Conn, ConnFields
  <2> HIDE DEF z
  <2>3. Conn(z) /\ Timed(z) BY <2>1, <2>2 DEF Conn, ConnFields, Timed
  <2>4. /\ z.nbrs = y.nbrs /\ z.queue = y.queue /\ z.parent = y.parent /\ z.metric = y.metric
        /\ z.sending = y.sending
    BY <2>2 DEF ConnFields
  <2>5. Kept(y, z) BY <2>3, <2>4 DEF Kept, Rooted, Moving, Known
  <2> QED BY <1>7, <2>5, KeptOn
<1>9. Kept(c, SendNext(w))
  <2> DEFINE s == SendNext(w)
  <2>1. Conn(s) /\ Timed(s) /\ Moving(s) /\ (Rooted(w) => Rooted(s)) BY <1>6, SendNextKeeps
  <2> HIDE DEF s
  <2>2. Kept(w, s) BY <2>1 DEF Kept
  <2>3. Kept(c, s) BY <1>5, <2>2, KeptOn
  <2> QED BY <2>3 DEF s
<1> QED BY <1>1, <1>2, <1>8, <1>9 DEF d

\* A frame that arrives.  What is found in the packet buffer is the frame, or
\* the data packet that was sent meanwhile.
LEMMA NodePacketReceivedKeeps ==
  ASSUME NEW c, Conn(c), Timed(c), NEW f, Frame(f), NEW from
  PROVE  Kept(c, NodePacketReceived(c, f, from))
<1> DEFINE u == Heard(c, f, from)
           b == InBuffer(c, f, from)
           d == NodePacketReceived(c, f, from)
<1>1. d = IF b.frame.type = "DATA" THEN ReceiveData(u, b.frame, b.from) ELSE HandleAck(u, b.frame, b.from)
  BY DEF NodePacketReceived
<1>2. Kept(c, u) /\ Begun(c, u)
  <2>1. CASE Known(c, from)
    <3>1. u = UpdateRtmetric(WithRt(c, from, f.rt)) BY <2>1 DEF Heard
    <3>2. f.rt \in Nat BY DEF Frame
    <3> QED BY <3>1, <3>2, UpdateOfNews
  <2>2. CASE ~ Known(c, from)
    <3>1. u = c BY <2>2 DEF Heard
    <3> QED BY <3>1 DEF Kept, Begun
  <2> QED BY <2>1, <2>2
<1>3. b.frame = f \/ b.frame.type = "DATA"
  <2>1. CASE Overwritten(c, f, from)
    <3>1. b.frame = Last(u.mac) BY <2>1 DEF InBuffer
    <3>2. Last(u.mac).type = "DATA" BY <1>2, <2>1 DEF Overwritten, Begun
    <3> QED BY <3>1, <3>2
  <2>2. CASE ~ Overwritten(c, f, from)
    BY <2>2 DEF InBuffer
  <2> QED BY <2>1, <2>2
<1> HIDE DEF u, b
<1>4. Conn(u) /\ Timed(u) BY <1>2 DEF Kept
<1>5. CASE b.frame.type = "DATA"
  <2>1. Kept(u, d) BY <1>1, <1>4, <1>5, ReceiveDataKeeps
  <2> QED BY <1>2, <2>1, KeptOn
<1>6. CASE b.frame.type # "DATA"
  <2>1. Frame(b.frame) BY <1>3, <1>6
  <2>2. Kept(u, d) BY <1>1, <1>4, <1>6, <2>1, HandleAckKeeps
  <2> QED BY <1>2, <2>2, KeptOn
<1> QED BY <1>5, <1>6

----------------------------------------------------------------------------
(* Collect: the actions                                                    *)

\* Every node is as the handlers leave it, but for the orphans, whose parent
\* left the list without a handler.
Sound(nodes, o) ==
  /\ nodes = [n \in Motes |-> nodes[n]]
  /\ \A n \in Motes :
       /\ Conn(nodes[n]) /\ Timed(nodes[n])
       /\ n \notin o => Rooted(nodes[n]) /\ Moving(nodes[n])

CollectInv == Sound(node, orphan)

LEMMA SoundWith ==
  ASSUME NEW nodes, NEW o, Sound(nodes, o), NEW n \in Motes, NEW d, Conn(d), Timed(d),
         n \notin o => Rooted(d) /\ Moving(d)
  PROVE  Sound([nodes EXCEPT ![n] = d], o)
BY DEF Sound

LEMMA SoundKept ==
  ASSUME NEW nodes, NEW o, Sound(nodes, o), NEW n, NEW d, n \in Motes => Kept(nodes[n], d)
  PROVE  Sound([nodes EXCEPT ![n] = d], o)
<1>1. CASE n \in Motes
  <2>1. Conn(d) /\ Timed(d) /\ (n \notin o => Rooted(d) /\ Moving(d)) BY <1>1 DEF Sound, Kept
  <2> QED BY <1>1, <2>1, SoundWith
<1>2. CASE n \notin Motes
  <2>1. [nodes EXCEPT ![n] = d] = nodes
    <3>1. DOMAIN nodes = Motes /\ nodes = [x \in Motes |-> nodes[x]] BY DEF Sound
    <3> QED BY <1>2, <3>1
  <2> QED BY <2>1
<1> QED BY <1>1, <1>2

\* Who sends to a parent is no orphan any more.
LEMMA SoundStep ==
  ASSUME NEW n \in Motes, NEW d, Sound(node, orphan), Conn(d), Timed(d),
         n \notin orphan => Rooted(d) /\ Moving(d), Step(n, d)
  PROVE  CollectInv'
<1>1. Sound(node', orphan) BY SoundWith DEF Step
<1>2. CASE orphan' = orphan BY <1>1, <1>2 DEF CollectInv
<1>3. CASE d.sending /\ Known(d, d.parent) /\ orphan' = orphan \ {n}
  <2>1. node'[n] = d BY DEF Step, Sound
  <2>2. Rooted(d) /\ Moving(d) BY <1>3 DEF Rooted, Moving
  <2>3. Sound(node', orphan \ {n}) BY <1>1, <2>1, <2>2 DEF Sound
  <2> QED BY <1>3, <2>3 DEF CollectInv
<1> QED BY <1>2, <1>3 DEF Step

LEMMA CollectInitSound == CollectInit => CollectInv
<1> SUFFICES ASSUME CollectInit PROVE CollectInv OBVIOUS
<1>1. node = [n \in Motes |-> Blank(n)] BY DEF CollectInit
<1>2. Framed(<<>>)
  <2> DEFINE S == {}
  <2>1. <<>> \in Seq(S) /\ \A f \in S : Frame(f) OBVIOUS
  <2> HIDE DEF S
  <2> QED BY <2>1 DEF Framed
<1>3. Neighborhood([m \in {} |-> 0]) BY DEF Neighborhood
<1>4. ASSUME NEW n \in Motes
      PROVE  Conn(Blank(n)) /\ Timed(Blank(n)) /\ Rooted(Blank(n)) /\ Moving(Blank(n))
  <2> DEFINE b == Blank(n)
             nbrs == [m \in {} |-> 0]
             r == IF n = Sink THEN 0 ELSE RtmetricMax
  <2>1. b = [metric |-> r, announced |-> r,
             parent |-> NoNode, current |-> NoNode, nbrs |-> nbrs,
             queue |-> <<>>, seqno |-> 0, eseqno |-> 0, sending |-> FALSE, tx |-> 0, max |-> 0,
             timer |-> "off", recent |-> <<>>, mac |-> <<>>]
    BY DEF Blank
  <2>2. r \in Nat /\ r \in {0, RtmetricMax} BY CollectAssumption
  <2>3. Neighborhood(nbrs) BY <1>3
  <2> HIDE DEF nbrs, r, b
  <2>4. /\ b = [x \in ConnFields |-> b[x]] /\ b.metric = r /\ b.announced = r /\ b.sending = FALSE
        /\ b.nbrs = nbrs /\ b.mac = <<>> /\ b.parent = NoNode /\ b.queue = <<>>
    BY <2>1 DEF ConnFields
  <2>5. Conn(b) BY <1>2, <2>2, <2>3, <2>4 DEF Conn
  <2>6. Timed(b) /\ Moving(b) /\ Rooted(b) BY <2>2, <2>4 DEF Timed, Moving, Rooted
  <2> QED BY <2>5, <2>6 DEF b
<1> QED BY <1>1, <1>4 DEF CollectInv, Sound

LEMMA AnnounceKeeps ==
  ASSUME CollectInv, NEW m \in Motes, NEW n \in Motes, Announce(m, n)
  PROVE  CollectInv'
<1> DEFINE c == node[n]
           rt == node[m].announced
           le == IF Known(c, m) THEN c.nbrs[m].le ELSE "none"
           w == With(c, m, rt, le)
           d == UpdateRtmetric(w)
<1>1. Step(n, d) BY DEF Announce
<1>2. Sound(node, orphan) BY DEF CollectInv
<1>3. /\ Conn(c) /\ Timed(c) /\ Conn(node[m])
      /\ n \notin orphan => Rooted(c) /\ Moving(c)
  BY <1>2 DEF Sound
<1>4. rt \in Nat /\ le \in {"none", "good", "bad"} BY <1>3 DEF Conn, Neighborhood, Known
<1> HIDE DEF c, rt, le
<1>5. Conn(w) BY <1>3, <1>4, WithKeeps
<1>6. DOMAIN w.nbrs = DOMAIN c.nbrs \cup {m} BY <1>3, <1>4, WithKeeps
<1>7. \A f \in ConnFields \ {"nbrs"} : w[f] = c[f]
  <2>1. Conn(c) /\ m \in Motes /\ rt \in Nat /\ le \in {"none", "good", "bad"} /\ w = With(c, m, rt, le)
    BY <1>3, <1>4 DEF w
  <2> HIDE DEF w
  <2> QED BY <2>1, WithKeeps
<1> HIDE DEF w
<1>8. /\ w.queue = c.queue /\ w.parent = c.parent /\ w.metric = c.metric
      /\ w.sending = c.sending /\ w.timer = c.timer
  BY <1>7 DEF ConnFields
<1>9. Timed(w) BY <1>3, <1>8 DEF Timed
<1>10. ASSUME Rooted(c), Moving(c) PROVE Rooted(w) /\ Moving(w)
  <2>1. Rooted(w) BY <1>6, <1>8, <1>10 DEF Rooted, Known
  <2>2. NoNode \notin DOMAIN w.nbrs BY <1>5, CollectAssumption DEF Conn, Neighborhood
  <2>3. ~ Known(c, c.parent) => ~ Known(w, w.parent) BY <1>8, <1>10, <2>2 DEF Rooted, Known
  <2>4. Moving(w) BY <1>8, <1>10, <2>3 DEF Moving
  <2> QED BY <2>1, <2>4
<1>11. /\ Conn(d) /\ Timed(d)
       /\ Rooted(w) => Rooted(d)
       /\ Rooted(w) /\ Moving(w) => Moving(d)
  BY <1>5, <1>9, UpdateRtmetricKeeps
<1>12. n \notin orphan => Rooted(d) /\ Moving(d) BY <1>3, <1>10, <1>11
<1> HIDE DEF d
<1> QED BY <1>1, <1>2, <1>11, <1>12, SoundStep

LEMMA CollectSendKeeps ==
  ASSUME CollectInv, NEW n \in Motes, Send(n)
  PROVE  CollectInv'
<1> DEFINE c == node[n]
           next == (c.eseqno + 1) % IdMod
           k == IF next = 0 THEN IdMod \div 2 ELSE next
           u == [c EXCEPT !.eseqno = k]
           p == [org |-> n, no |-> c.eseqno, ttl |-> Hops, rexmits |-> Rexmits, probe |-> FALSE]
           q == Append(u.queue, p)
           e == [u EXCEPT !.queue = q]
           d == IF Len(c.queue) < QueueSize THEN SendQueued(e) ELSE u
<1>1. Step(n, d) BY DEF Send
<1>2. Sound(node, orphan) BY DEF CollectInv
<1>3. /\ Conn(c) /\ Timed(c)
      /\ n \notin orphan => Rooted(c) /\ Moving(c)
  BY <1>2 DEF Sound
<1> HIDE DEF c, k, q
<1>4. u = [x \in ConnFields |-> u[x]] /\ \A x \in ConnFields \ {"eseqno"} : u[x] = c[x]
  BY <1>3 DEF Conn, ConnFields
<1> HIDE DEF u
<1>5. Conn(u) BY <1>3, <1>4 DEF Conn, ConnFields
<1>6. Kept(c, u) BY <1>3, <1>4, <1>5, KeptAside DEF ConnFields
<1>7. e = [x \in ConnFields |-> e[x]] /\ \A x \in ConnFields \ {"queue"} : e[x] = u[x]
  BY <1>5 DEF Conn, ConnFields
<1> HIDE DEF e
<1>8. Conn(e) BY <1>5, <1>7 DEF Conn, ConnFields
<1>9. /\ e.nbrs = c.nbrs /\ e.parent = c.parent /\ e.metric = c.metric
      /\ e.sending = c.sending /\ e.timer = c.timer
  BY <1>4, <1>7 DEF ConnFields
<1>10. Timed(e) BY <1>3, <1>9 DEF Timed
<1> DEFINE s == SendQueued(e)
<1>11. Conn(s) /\ Timed(s) /\ Moving(s) /\ \A x \in {"nbrs", "queue", "parent", "metric"} : s[x] = e[x]
  BY <1>8, <1>10, SendQueuedKeeps
<1> HIDE DEF s
<1>12. Rooted(c) => Rooted(s) BY <1>9, <1>11 DEF Rooted, Known
<1>13. d = s \/ d = u BY DEF s
<1> HIDE DEF d
<1>14. /\ Conn(d) /\ Timed(d)
       /\ n \notin orphan => Rooted(d) /\ Moving(d)
  BY <1>3, <1>6, <1>11, <1>12, <1>13 DEF Kept
<1> QED BY <1>1, <1>2, <1>14, SoundStep

LEMMA ProbeKeeps ==
  ASSUME CollectInv, NEW n \in Motes, NEW m \in Motes, Probe(n, m)
  PROVE  CollectInv'
<1> DEFINE c == node[n]
           dummy == [org |-> n, no |-> (c.eseqno - 1) % IdMod, ttl |-> 1, rexmits |-> Rexmits, probe |-> TRUE]
           q == <<dummy>>
           e == [c EXCEPT !.parent = m, !.queue = q]
           s == SendQueued(e)
           d == [s EXCEPT !.parent = c.parent]
<1>1. Step(n, d) /\ Known(c, m) /\ q # <<>> BY DEF Probe
<1>2. Sound(node, orphan) BY DEF CollectInv
<1>3. /\ Conn(c) /\ Timed(c)
      /\ n \notin orphan => Rooted(c) /\ Moving(c)
  BY <1>2 DEF Sound
<1> HIDE DEF c, q
<1>4. /\ e = [x \in ConnFields |-> e[x]] /\ e.parent = m /\ e.queue = q
      /\ \A x \in ConnFields \ {"parent", "queue"} : e[x] = c[x]
  BY <1>3 DEF Conn, ConnFields
<1> HIDE DEF e
<1>5. Conn(e) BY <1>3, <1>4 DEF Conn, ConnFields
<1>6. e.nbrs = c.nbrs /\ e.metric = c.metric /\ e.sending = c.sending /\ e.timer = c.timer
  BY <1>4 DEF ConnFields
<1>7. Timed(e) BY <1>3, <1>6 DEF Timed
<1>8. e.queue # <<>> /\ Known(e, e.parent) BY <1>1, <1>4, <1>6 DEF Known
<1>9. /\ Conn(s) /\ Timed(s) /\ s.sending
      /\ \A x \in {"nbrs", "queue", "parent", "metric"} : s[x] = e[x]
  BY <1>5, <1>7, <1>8, SendQueuedKeeps
<1> HIDE DEF s
<1>10. /\ d = [x \in ConnFields |-> d[x]] /\ d.parent = c.parent
       /\ \A x \in ConnFields \ {"parent"} : d[x] = s[x]
  BY <1>9 DEF Conn, ConnFields
<1> HIDE DEF d
<1>11. Conn(d) BY <1>9, <1>10 DEF Conn, ConnFields
<1>12. /\ d.nbrs = c.nbrs /\ d.metric = c.metric /\ d.sending = s.sending /\ d.timer = s.timer
  BY <1>6, <1>9, <1>10 DEF ConnFields
<1>13. Timed(d) /\ Moving(d) BY <1>9, <1>12 DEF Timed, Moving
<1>14. Rooted(c) => Rooted(d) BY <1>10, <1>12 DEF Rooted, Known
<1> QED BY <1>1, <1>2, <1>3, <1>11, <1>13, <1>14, SoundStep

\* The queue of the MAC layer without its first frame.
LEMMA MacTaken ==
  ASSUME NEW c, Conn(c), c.mac # <<>>, NEW d, d = [c EXCEPT !.mac = Tail(@)]
  PROVE  /\ Conn(d)
         /\ d.nbrs = c.nbrs /\ d.queue = c.queue /\ d.parent = c.parent /\ d.metric = c.metric
         /\ d.sending = c.sending /\ d.timer = c.timer
<1> DEFINE q == Tail(c.mac)
<1>1. Framed(q) BY FramedFacts DEF Conn
<1> HIDE DEF q
<1>2. d = [c EXCEPT !.mac = q] BY DEF q
<1>3. d = [x \in ConnFields |-> d[x]] /\ d.mac = q /\ \A x \in ConnFields \ {"mac"} : d[x] = c[x]
  BY <1>2 DEF Conn, ConnFields
<1>4. Conn(d) BY <1>1, <1>3 DEF Conn, ConnFields
<1> QED BY <1>3, <1>4 DEF ConnFields

\* The first frame was tried once more.
LEMMA MacTried ==
  ASSUME NEW c, Conn(c), c.mac # <<>>, NEW d, d = [c EXCEPT !.mac[1].tries = @ + 1]
  PROVE  /\ Conn(d)
         /\ d.nbrs = c.nbrs /\ d.queue = c.queue /\ d.parent = c.parent /\ d.metric = c.metric
         /\ d.sending = c.sending /\ d.timer = c.timer
<1> DEFINE k == c.mac[1].tries + 1
           g == [c.mac[1] EXCEPT !.tries = k]
           q == [c.mac EXCEPT ![1] = g]
<1>1. d = [c EXCEPT !.mac = q] OBVIOUS
<1> HIDE DEF k
<1>2. PICK S : c.mac \in Seq(S) /\ \A f \in S : Frame(f) BY DEF Conn, Framed
<1>3. 1 \in DOMAIN c.mac /\ c.mac[1] \in S BY <1>2
<1>4. Frame(c.mac[1]) BY <1>2, <1>3
<1>5. Frame(g)
  <2> DEFINE f == c.mac[1]
  <2>1. f = [x \in DOMAIN f |-> f[x]] /\ "rt" \in DOMAIN f /\ f["rt"] \in Nat BY <1>4 DEF Frame
  <2> HIDE DEF f
  <2>2. g = [f EXCEPT !.tries = k] BY DEF f
  <2>3. g = [x \in DOMAIN g |-> g[x]] /\ "rt" \in DOMAIN g /\ g["rt"] = f["rt"] BY <2>1, <2>2
  <2> QED BY <2>1, <2>3 DEF Frame
<1> HIDE DEF g
<1>6. Framed(q)
  <2> DEFINE T == S \cup {g}
  <2>1. c.mac \in Seq(T) /\ g \in T /\ \A f \in T : Frame(f)
    <3>1. S \subseteq T OBVIOUS
    <3> QED BY <1>2, <1>5, <3>1
  <2> HIDE DEF T
  <2>2. q \in Seq(T) BY <1>3, <2>1
  <2> HIDE DEF q
  <2> QED BY <2>1, <2>2 DEF Framed
<1> HIDE DEF q
<1>7. d = [x \in ConnFields |-> d[x]] /\ d.mac = q /\ \A x \in ConnFields \ {"mac"} : d[x] = c[x]
  BY <1>1 DEF Conn, ConnFields
<1>8. Conn(d) BY <1>6, <1>7 DEF Conn, ConnFields
<1> QED BY <1>7, <1>8 DEF ConnFields

\* A frame was sent, and is received or not.
LEMMA ArrivalKeeps ==
  ASSUME CollectInv, NEW n \in Motes, NEW e, Kept(node[n], e), NEW tried, tried = [node EXCEPT ![n] = e],
         NEW f, Frame(f), orphan' = orphan,
         node' = tried \/ node' = [tried EXCEPT ![f.to] = NodePacketReceived(tried[f.to], f, n)]
  PROVE  CollectInv'
<1> DEFINE g == NodePacketReceived(tried[f.to], f, n)
<1>1. Sound(tried, orphan) BY SoundKept DEF CollectInv
<1>2. f.to \in Motes => Kept(tried[f.to], g)
  <2>1. f.to \in Motes => Conn(tried[f.to]) /\ Timed(tried[f.to]) BY <1>1 DEF Sound
  <2> QED BY <2>1, NodePacketReceivedKeeps
<1>3. node' = tried \/ node' = [tried EXCEPT ![f.to] = g] OBVIOUS
<1> HIDE DEF g
<1>4. Sound([tried EXCEPT ![f.to] = g], orphan) BY <1>1, <1>2, SoundKept
<1> QED BY <1>1, <1>3, <1>4 DEF CollectInv

LEMMA TryDataKeeps ==
  ASSUME CollectInv, NEW n \in Motes, TryData(n)
  PROVE  CollectInv'
<1> DEFINE c == node[n]
           f == Head(c.mac)
           e == [c EXCEPT !.mac[1].tries = @ + 1]
           tried == [node EXCEPT ![n].mac[1].tries = @ + 1]
<1>1. /\ c.mac # <<>> /\ orphan' = orphan
      /\ node' = tried \/ node' = [tried EXCEPT ![f.to] = NodePacketReceived(tried[f.to], f, n)]
  BY DEF TryData
<1>2. Conn(c) /\ Timed(c) BY DEF CollectInv, Sound
<1>3. tried = [node EXCEPT ![n] = e] OBVIOUS
<1>4. Frame(f) BY <1>1, <1>2, FramedFacts DEF Conn
<1>5. Kept(c, e)
  <2> HIDE DEF c, f
  <2>1. /\ Conn(e)
        /\ e.nbrs = c.nbrs /\ e.queue = c.queue /\ e.parent = c.parent /\ e.metric = c.metric
        /\ e.sending = c.sending /\ e.timer = c.timer
    BY <1>1, <1>2, MacTried
  <2> HIDE DEF e
  <2> QED BY <1>2, <2>1, KeptAside
<1> HIDE DEF e, tried, f
<1> QED BY <1>1, <1>3, <1>4, <1>5, ArrivalKeeps

LEMMA TryAckKeeps ==
  ASSUME CollectInv, NEW n \in Motes, TryAck(n)
  PROVE  CollectInv'
<1> DEFINE c == node[n]
           f == Head(c.mac)
           e == [c EXCEPT !.mac = Tail(@)]
           tried == [node EXCEPT ![n].mac = Tail(@)]
<1>1. /\ c.mac # <<>> /\ orphan' = orphan
      /\ node' = tried \/ node' = [tried EXCEPT ![f.to] = NodePacketReceived(tried[f.to], f, n)]
  BY DEF TryAck
<1>2. Conn(c) /\ Timed(c) BY DEF CollectInv, Sound
<1>3. tried = [node EXCEPT ![n] = e] OBVIOUS
<1>4. Frame(f) BY <1>1, <1>2, FramedFacts DEF Conn
<1>5. Kept(c, e)
  <2> HIDE DEF c, f
  <2>1. /\ Conn(e)
        /\ e.nbrs = c.nbrs /\ e.queue = c.queue /\ e.parent = c.parent /\ e.metric = c.metric
        /\ e.sending = c.sending /\ e.timer = c.timer
    BY <1>1, <1>2, MacTaken
  <2> HIDE DEF e
  <2> QED BY <1>2, <2>1, KeptAside
<1> HIDE DEF e, tried, f
<1> QED BY <1>1, <1>3, <1>4, <1>5, ArrivalKeeps

LEMMA ReportKeeps ==
  ASSUME CollectInv, NEW n \in Motes, Report(n)
  PROVE  CollectInv'
<1> DEFINE c == node[n]
           e == [c EXCEPT !.mac = Tail(@)]
           tries == Head(c.mac).tries
           d == NodePacketSent(e, tries)
<1>1. c.mac # <<>> /\ Step(n, d) BY DEF Report
<1>2. Sound(node, orphan) BY DEF CollectInv
<1>3. /\ Conn(c) /\ Timed(c)
      /\ n \notin orphan => Rooted(c) /\ Moving(c)
  BY <1>2 DEF Sound
<1> HIDE DEF c, tries
<1>4. /\ Conn(e)
      /\ e.nbrs = c.nbrs /\ e.queue = c.queue /\ e.parent = c.parent /\ e.metric = c.metric
      /\ e.sending = c.sending /\ e.timer = c.timer
  BY <1>1, <1>3, MacTaken
<1> HIDE DEF e
<1>5. Kept(c, e) BY <1>3, <1>4, KeptAside
<1>6. Conn(d) /\ Timed(d) /\ (Rooted(e) => Rooted(d)) /\ (Moving(e) => Moving(d)) BY <1>4, NodePacketSentKeeps
<1> HIDE DEF d
<1> QED BY <1>1, <1>2, <1>3, <1>5, <1>6, SoundStep DEF Kept

LEMMA SilentKeeps ==
  ASSUME CollectInv, NEW n \in Motes, Silent(n)
  PROVE  CollectInv'
<1> DEFINE c == node[n]
           e == [c EXCEPT !.mac = Tail(@)]
<1>1. c.mac # <<>> /\ node' = [node EXCEPT ![n] = e] /\ orphan' = orphan BY DEF Silent
<1>2. Sound(node, orphan) BY DEF CollectInv
<1>3. Conn(c) /\ Timed(c) BY <1>2 DEF Sound
<1>4. Kept(c, e)
  <2> HIDE DEF c
  <2>1. /\ Conn(e)
        /\ e.nbrs = c.nbrs /\ e.queue = c.queue /\ e.parent = c.parent /\ e.metric = c.metric
        /\ e.sending = c.sending /\ e.timer = c.timer
    BY <1>1, <1>3, MacTaken
  <2> HIDE DEF e
  <2> QED BY <1>3, <2>1, KeptAside
<1> HIDE DEF e
<1> QED BY <1>1, <1>2, <1>4, SoundKept DEF CollectInv

\* The timer is off while its callback runs.
LEMMA TimerKeeps ==
  ASSUME CollectInv, NEW n \in Motes, Timer(n)
  PROVE  CollectInv'
<1> DEFINE c == node[n]
           f == [c EXCEPT !.timer = "off"]
           tx == f.tx + MacTries + 1
           g == [f EXCEPT !.tx = tx]
<1>1. Step(n, RetransmitCallback(f)) \/ Step(n, RetransmitCallback(g)) BY DEF Timer
<1>2. Sound(node, orphan) BY DEF CollectInv
<1>3. /\ Conn(c)
      /\ n \notin orphan => Rooted(c)
  BY <1>2 DEF Sound
<1> HIDE DEF c, tx
<1>4. f = [x \in ConnFields |-> f[x]] /\ \A x \in ConnFields \ {"timer"} : f[x] = c[x]
  BY <1>3 DEF Conn, ConnFields
<1> HIDE DEF f
<1>5. Conn(f) BY <1>3, <1>4 DEF Conn, ConnFields
<1>6. g = [x \in ConnFields |-> g[x]] /\ \A x \in ConnFields \ {"tx"} : g[x] = f[x]
  BY <1>5 DEF Conn, ConnFields
<1> HIDE DEF g
<1>7. Conn(g) BY <1>5, <1>6 DEF Conn, ConnFields
<1>8. /\ f.nbrs = c.nbrs /\ f.parent = c.parent /\ f.metric = c.metric
      /\ g.nbrs = c.nbrs /\ g.parent = c.parent /\ g.metric = c.metric
  BY <1>4, <1>6 DEF ConnFields
<1>9. Rooted(c) => Rooted(f) /\ Rooted(g) BY <1>8 DEF Rooted, Known
<1>10. ASSUME NEW e, Conn(e), Rooted(c) => Rooted(e), Step(n, RetransmitCallback(e)) PROVE CollectInv'
  <2> DEFINE d == RetransmitCallback(e)
  <2>1. Conn(d) /\ Timed(d) /\ Moving(d) /\ (Rooted(e) => Rooted(d)) BY <1>10, RetransmitCallbackKeeps
  <2>2. Step(n, d) BY <1>10
  <2> HIDE DEF d
  <2> QED BY <2>1, <2>2, <1>2, <1>3, <1>10, SoundStep
<1> QED BY <1>1, <1>5, <1>7, <1>9, <1>10

\* Whose parent is forgotten is an orphan.
LEMMA GoneKeeps ==
  ASSUME CollectInv, NEW n \in Motes, NEW m \in Motes, Gone(n, m)
  PROVE  CollectInv'
<1> DEFINE c == node[n]
           nbrs == [x \in DOMAIN c.nbrs \ {m} |-> c.nbrs[x]]
           d == [c EXCEPT !.nbrs = nbrs]
<1>1. /\ node' = [node EXCEPT ![n] = d]
      /\ orphan' = IF c.parent = m THEN orphan \cup {n} ELSE orphan
  BY DEF Gone
<1>2. Sound(node, orphan) BY DEF CollectInv
<1>3. /\ Conn(c) /\ Timed(c)
      /\ n \notin orphan => Rooted(c) /\ Moving(c)
  BY <1>2 DEF Sound
<1> HIDE DEF c
<1>4. Neighborhood(nbrs) /\ DOMAIN nbrs = DOMAIN c.nbrs \ {m} BY <1>3 DEF Conn, Neighborhood
<1> HIDE DEF nbrs
<1>5. d = [x \in ConnFields |-> d[x]] /\ d.nbrs = nbrs /\ \A x \in ConnFields \ {"nbrs"} : d[x] = c[x]
  BY <1>3 DEF Conn, ConnFields
<1> HIDE DEF d
<1>6. Conn(d) BY <1>3, <1>4, <1>5 DEF Conn, ConnFields
<1>7. /\ d.queue = c.queue /\ d.parent = c.parent /\ d.metric = c.metric
      /\ d.sending = c.sending /\ d.timer = c.timer
  BY <1>5 DEF ConnFields
<1>8. Timed(d) BY <1>3, <1>7 DEF Timed
<1>9. n \notin orphan' => n \notin orphan /\ Rooted(d) /\ Moving(d)
  <2>1. ASSUME n \notin orphan' PROVE n \notin orphan /\ (Known(d, d.parent) <=> Known(c, c.parent))
    <3>1. c.parent # m /\ n \notin orphan BY <1>1, <2>1
    <3> QED BY <3>1, <1>4, <1>5, <1>7 DEF Known
  <2> QED BY <2>1, <1>3, <1>7 DEF Rooted, Moving
<1>10. Sound(node, orphan')
  <2>1. orphan \subseteq orphan' BY <1>1
  <2> QED BY <2>1, <1>2 DEF Sound
<1> QED BY <1>1, <1>6, <1>8, <1>9, <1>10, SoundWith DEF CollectInv

LEMMA ExpireKeeps ==
  ASSUME CollectInv, NEW n \in Motes, Expire(n)
  PROVE  CollectInv'
<1> DEFINE c == node[n]
           q == Tail(c.queue)
           d == [c EXCEPT !.queue = q]
<1>1. c.queue # <<>> /\ node' = [node EXCEPT ![n] = d] /\ orphan' = orphan BY DEF Expire
<1>2. Sound(node, orphan) BY DEF CollectInv
<1>3. Conn(c) /\ Timed(c) BY <1>2 DEF Sound
<1> HIDE DEF q
<1>4. Kept(c, d)
  <2> HIDE DEF c
  <2>1. d = [x \in ConnFields |-> d[x]] /\ \A x \in ConnFields \ {"queue"} : d[x] = c[x]
    BY <1>3 DEF Conn, ConnFields
  <2> HIDE DEF d
  <2>2. Conn(d) BY <1>3, <2>1 DEF Conn, ConnFields
  <2>3. /\ d.nbrs = c.nbrs /\ d.parent = c.parent /\ d.metric = c.metric
        /\ d.sending = c.sending /\ d.timer = c.timer
    BY <2>1 DEF ConnFields
  <2> QED BY <1>1, <1>3, <2>2, <2>3 DEF Kept, Timed, Rooted, Moving, Known
<1> HIDE DEF d
<1> QED BY <1>1, <1>2, <1>4, SoundKept DEF CollectInv

LEMMA CollectInvariant == CollectSpec => []CollectInv
<1>1. CollectInv /\ [CollectNext]_collectVars => CollectInv'
  <2> SUFFICES ASSUME CollectInv, [CollectNext]_collectVars PROVE CollectInv' OBVIOUS
  <2>1. CASE UNCHANGED collectVars BY <2>1 DEF collectVars, CollectInv
  <2>2. CASE CollectNext
    BY <2>2, CollectSendKeeps, TryDataKeeps, TryAckKeeps, ReportKeeps, SilentKeeps, TimerKeeps,
       ExpireKeeps, AnnounceKeeps, ProbeKeeps, GoneKeeps
       DEF CollectNext
  <2> QED BY <2>1, <2>2
<1> QED BY <1>1, CollectInitSound, PTL DEF CollectSpec

\* No queue of Collect stands still (collectsdn.c, send_queued_packet and
\* rtmetric updates): whatever the order of announcements, acknowledgements,
\* reports, timers and losses, a packet that waits is underway with its timer,
\* or waits for a parent, or its parent left the list without notice.
THEOREM QueuesMove == CollectSpec => []QueueMoves
<1>1. CollectInv => QueueMoves
  <2> SUFFICES ASSUME CollectInv, NEW n \in Motes, node[n].queue # <<>>
               PROVE  IF node[n].sending
                      THEN node[n].timer # "off" \/ \E i \in DOMAIN node[n].mac : node[n].mac[i].type = "DATA"
                      ELSE ~ Known(node[n], node[n].parent) \/ n \in orphan
    BY DEF QueueMoves
  <2>1. Timed(node[n]) /\ (n \notin orphan => Moving(node[n])) BY DEF CollectInv, Sound
  <2> QED BY <2>1 DEF Timed, Moving
<1> QED BY <1>1, CollectInvariant, PTL

----------------------------------------------------------------------------
(* Collect: what an acknowledgement is for                                 *)

PacketNames == [org : Motes, no : Int]
Packets == [org : Motes, no : Int, ttl : Int, rexmits : Int, probe : BOOLEAN]
DataFrames == [type : {"DATA"}, to : Motes, id : Nat, rt : Int, packet : Packets, left : Int, tries : Int]
AckFrames ==
  [type : {"ACK"}, to : Motes, id : Nat, rt : Int, flags : SUBSET {"DROPPED", "CONGESTED", "LIFETIME"}]
Frames == DataFrames \cup AckFrames

Named(p) == [org |-> p.org, no |-> p.no]

\* Probes are not remembered.
Fine(K, p) == p.probe \/ Named(p) \in K

\* The connection of n, which has had the packets K.
Held(n, K, c) ==
  /\ c.queue \in Seq(Packets) /\ c.recent \in Seq(PacketNames) /\ c.mac \in Seq(Frames)
  /\ c.seqno \in Nat /\ c.eseqno \in Nat /\ c.tx \in Int /\ c.max \in Int
  /\ n \notin DOMAIN c.nbrs /\ c.parent # n /\ c.current # n
  /\ \A p \in Range(c.queue) : Fine(K, p)
  /\ Range(c.recent) \subseteq K
  /\ \A f \in Range(c.mac) : f.type = "DATA" => f.to # n /\ f.id <= c.seqno /\ Fine(K, f.packet)

Leads(c, p) == c.queue # <<>> /\ Head(c.queue) = p

\* What is underway with the number of now is the first packet of the queue.
Firm(c) == \A f \in Range(c.mac) : f.type = "DATA" /\ f.id = c.seqno => Leads(c, f.packet)

SameHead(c, d) == \A p : Leads(c, p) => Leads(d, p)

\* What every handler keeps that makes no acknowledgement: while the number is
\* the same so is the first packet.
Handled(n, K, c, d) ==
  /\ Held(n, K, d)
  /\ c.seqno <= d.seqno
  /\ d.seqno = c.seqno => SameHead(c, d) /\ (Firm(c) => Firm(d))
  /\ d.seqno # c.seqno => Firm(d)
  /\ \A f \in Range(d.mac) : f.type = "ACK" => f \in Range(c.mac)

LEMMA RangeFacts ==
  ASSUME NEW S, NEW s \in Seq(S)
  PROVE  /\ Range(s) \subseteq S
         /\ \A x : Range(Append(s, x)) = Range(s) \cup {x}
         /\ s # <<>> => Head(s) \in Range(s) /\ Last(s) \in Range(s) /\ Range(Tail(s)) \subseteq Range(s)
<1>1. Range(s) \subseteq S BY DEF Range
<1>2. ASSUME NEW x PROVE Range(Append(s, x)) = Range(s) \cup {x}
  <2> DEFINE a == Append(s, x)
  <2>1. /\ DOMAIN a = 1 .. Len(s) + 1 /\ DOMAIN s = 1 .. Len(s) /\ Len(s) \in Nat
        /\ \A i \in 1 .. Len(s) : a[i] = s[i]
        /\ a[Len(s) + 1] = x
    OBVIOUS
  <2> HIDE DEF a
  <2>2. \A i \in DOMAIN a : a[i] \in Range(s) \cup {x} BY <2>1 DEF Range
  <2>3. \A i \in DOMAIN s : s[i] \in Range(a) BY <2>1 DEF Range
  <2>4. x \in Range(a) BY <2>1 DEF Range
  <2> QED BY <2>2, <2>3, <2>4 DEF Range
<1>3. ASSUME s # <<>>
      PROVE Head(s) \in Range(s) /\ Last(s) \in Range(s) /\ Range(Tail(s)) \subseteq Range(s)
  <2>1. 1 \in DOMAIN s /\ Len(s) \in DOMAIN s /\ Head(s) = s[1] BY <1>3
  <2>2. \A i \in DOMAIN Tail(s) : i + 1 \in DOMAIN s /\ Tail(s)[i] = s[i + 1] BY <1>3
  <2> QED BY <2>1, <2>2 DEF Range, Last
<1> QED BY <1>1, <1>2, <1>3

LEMMA HandledOn ==
  ASSUME NEW n, NEW K, NEW c, NEW d, NEW e, Handled(n, K, c, d), Handled(n, K, d, e), c.seqno \in Nat
  PROVE  Handled(n, K, c, e)
<1>1. d.seqno \in Nat /\ e.seqno \in Nat BY DEF Handled, Held
<1>2. c.seqno <= d.seqno /\ d.seqno <= e.seqno BY DEF Handled
<1>3. c.seqno <= e.seqno BY <1>1, <1>2
<1>4. ASSUME e.seqno = c.seqno PROVE SameHead(c, e) /\ (Firm(c) => Firm(e))
  <2>1. d.seqno = c.seqno /\ e.seqno = d.seqno BY <1>1, <1>2, <1>4
  <2> QED BY <2>1 DEF Handled, SameHead
<1>5. ASSUME e.seqno # c.seqno PROVE Firm(e)
  <2>1. e.seqno # d.seqno \/ (e.seqno = d.seqno /\ d.seqno # c.seqno) BY <1>5
  <2> QED BY <2>1 DEF Handled
<1> QED BY <1>3, <1>4, <1>5 DEF Handled

\* What changes neither the queues nor numbers.
LEMMA HandledAside ==
  ASSUME NEW n, NEW K, NEW c, Held(n, K, c), NEW d,
         d.queue = c.queue, d.recent = c.recent, d.mac = c.mac, d.seqno = c.seqno,
         d.eseqno \in Nat, d.tx \in Int, d.max \in Int,
         n \notin DOMAIN d.nbrs, d.parent # n, d.current # n
  PROVE  Handled(n, K, c, d)
BY DEF Held, Handled, SameHead, Firm, Leads

\* What only Send and what is received change.
Quiet(c, d) == d.recent = c.recent /\ d.eseqno = c.eseqno /\ (c.metric = 0 => d.metric = 0)

LEMMA SendPacketHandles ==
  ASSUME NEW n, NEW K, NEW c, Conn(c), Held(n, K, c), c.queue # <<>>, Known(c, c.current)
  PROVE  LET d == SendPacket(c) IN Handled(n, K, c, d) /\ Quiet(c, d) /\ d.seqno = c.seqno
<1> DEFINE p == Head(c.queue)
           f == Data(c, p)
           q == Append(c.mac, f)
           d == [c EXCEPT !.mac = q, !.timer = "not sent"]
<1>1. SendPacket(c) = d BY DEF SendPacket
<1>2. p \in Packets /\ Fine(K, p)
  <2>1. p \in Range(c.queue) /\ Range(c.queue) \subseteq Packets BY RangeFacts DEF Held
  <2> QED BY <2>1 DEF Held
<1>3. f \in DataFrames /\ f.to = c.current /\ f.id = c.seqno /\ f.packet = p /\ f.type = "DATA"
  <2>1. c.current \in Motes BY DEF Known, Conn, Neighborhood
  <2>2. c.metric \in Nat BY DEF Conn
  <2>3. c.seqno \in Nat /\ c.tx \in Int /\ c.max \in Int BY DEF Held
  <2> DEFINE l == IF c.max - c.tx > MacTries THEN MacTries ELSE c.max - c.tx
  <2>4. l \in Int BY <2>3, CollectAssumption
  <2> HIDE DEF l, p
  <2>5. f = [type |-> "DATA", to |-> c.current, id |-> c.seqno, rt |-> c.metric, packet |-> p, left |-> l, tries |-> 0]
    BY DEF Data, l
  <2> QED BY <1>2, <2>1, <2>2, <2>3, <2>4, <2>5 DEF DataFrames
<1> HIDE DEF f
<1>4. q \in Seq(Frames) /\ Range(q) = Range(c.mac) \cup {f}
  <2>1. f \in Frames /\ c.mac \in Seq(Frames) BY <1>3 DEF Frames, Held
  <2> QED BY <2>1, RangeFacts
<1> HIDE DEF q
<1>5. /\ d.mac = q
      /\ \A x \in ConnFields \ {"mac", "timer"} : d[x] = c[x]
  BY DEF Conn, ConnFields
<1> HIDE DEF d
<1>6. /\ d.queue = c.queue /\ d.recent = c.recent /\ d.seqno = c.seqno /\ d.eseqno = c.eseqno
      /\ d.tx = c.tx /\ d.max = c.max /\ d.nbrs = c.nbrs /\ d.parent = c.parent /\ d.current = c.current
      /\ d.metric = c.metric
  BY <1>5 DEF ConnFields
<1>7. f.to # n BY <1>3 DEF Held, Known
<1>8. \A g \in Range(d.mac) : g.type = "DATA" => g.to # n /\ g.id <= d.seqno /\ Fine(K, g.packet)
  <2>1. c.seqno <= c.seqno BY DEF Held
  <2> QED BY <1>2, <1>3, <1>4, <1>5, <1>6, <1>7, <2>1 DEF Held
<1>9. Held(n, K, d) BY <1>4, <1>5, <1>6, <1>8 DEF Held
<1>10. Leads(d, f.packet) BY <1>3, <1>6 DEF Leads
<1>11. Firm(c) => Firm(d) BY <1>4, <1>5, <1>6, <1>10 DEF Firm, Leads
<1>12. SameHead(c, d) BY <1>6 DEF SameHead, Leads
<1>13. \A g \in Range(d.mac) : g.type = "ACK" => g \in Range(c.mac) BY <1>3, <1>4, <1>5
<1>14. c.seqno <= d.seqno BY <1>6 DEF Held
<1> QED BY <1>1, <1>6, <1>9, <1>11, <1>12, <1>13, <1>14 DEF Handled, Quiet

LEMMA SendQueuedHandles ==
  ASSUME NEW n, NEW K, NEW c, Conn(c), Held(n, K, c)
  PROVE  LET d == SendQueued(c) IN Handled(n, K, c, d) /\ Quiet(c, d) /\ d.seqno = c.seqno
<1> DEFINE d == SendQueued(c)
<1>1. CASE c.sending \/ c.queue = <<>>
  <2>1. d = c BY <1>1 DEF SendQueued
  <2>2. Handled(n, K, c, c) BY HandledAside DEF Held
  <2> QED BY <2>1, <2>2 DEF Quiet
<1>2. CASE ~ c.sending /\ c.queue # <<>> /\ ~ Known(c, c.parent)
  <2> DEFINE e == [c EXCEPT !.announced = RtmetricMax]
  <2>1. d = e BY <1>2 DEF SendQueued
  <2>2. \A x \in ConnFields \ {"announced"} : e[x] = c[x] BY DEF Conn, ConnFields
  <2> HIDE DEF e
  <2>3. /\ e.queue = c.queue /\ e.recent = c.recent /\ e.mac = c.mac /\ e.seqno = c.seqno /\ e.eseqno = c.eseqno
        /\ e.tx = c.tx /\ e.max = c.max /\ e.nbrs = c.nbrs /\ e.parent = c.parent /\ e.current = c.current
        /\ e.metric = c.metric
    BY <2>2 DEF ConnFields
  <2>4. Handled(n, K, c, e) BY <2>3, HandledAside DEF Held
  <2> QED BY <2>1, <2>3, <2>4 DEF Quiet
<1>3. CASE ~ c.sending /\ c.queue # <<>> /\ Known(c, c.parent)
  <2> DEFINE r == Head(c.queue).rexmits
             e == [c EXCEPT !.sending = TRUE, !.current = c.parent, !.tx = 0, !.max = r]
             g == SendPacket(e)
  <2>1. d = g BY <1>3 DEF SendQueued
  <2>2. r \in Int
    <3>1. Head(c.queue) \in Packets BY <1>3, RangeFacts DEF Held
    <3> QED BY <3>1 DEF Packets
  <2> HIDE DEF r
  <2>3. /\ e = [x \in ConnFields |-> e[x]] /\ e.sending = TRUE /\ e.current = c.parent /\ e.tx = 0 /\ e.max = r
        /\ \A x \in ConnFields \ {"sending", "current", "tx", "max"} : e[x] = c[x]
    BY DEF Conn, ConnFields
  <2> HIDE DEF e
  <2>4. Conn(e) BY <2>3 DEF Conn, ConnFields
  <2>5. /\ e.queue = c.queue /\ e.recent = c.recent /\ e.mac = c.mac /\ e.seqno = c.seqno /\ e.eseqno = c.eseqno
        /\ e.nbrs = c.nbrs /\ e.parent = c.parent /\ e.metric = c.metric
    BY <2>3 DEF ConnFields
  <2>6. Handled(n, K, c, e) BY <2>2, <2>3, <2>5, HandledAside DEF Held
  <2>7. Held(n, K, e) BY <2>6 DEF Handled
  <2>8. e.queue # <<>> /\ Known(e, e.current) BY <1>3, <2>3, <2>5 DEF Known
  <2>9. Handled(n, K, e, g) /\ Quiet(e, g) /\ g.seqno = e.seqno BY <2>4, <2>7, <2>8, SendPacketHandles
  <2> HIDE DEF g, d
  <2>10. Handled(n, K, c, g) BY <2>6, <2>9, HandledOn DEF Held
  <2> QED BY <2>1, <2>5, <2>9, <2>10 DEF Quiet, d
<1> QED BY <1>1, <1>2, <1>3

LEMMA UpdateRtmetricHandles ==
  ASSUME NEW n \in Motes, NEW K, NEW c, Conn(c), Held(n, K, c)
  PROVE  LET d == UpdateRtmetric(c) IN Handled(n, K, c, d) /\ Quiet(c, d) /\ d.seqno = c.seqno
<1> DEFINE d == UpdateRtmetric(c)
<1>1. CASE c.metric = 0
  <2>1. d = c BY <1>1 DEF UpdateRtmetric
  <2>2. Handled(n, K, c, c) BY HandledAside DEF Held
  <2> QED BY <2>1, <2>2 DEF Quiet
<1>2. CASE c.metric # 0
  <2> DEFINE p == UpdateParent(c)
             r == RtmetricCompute(p)
             u == [p EXCEPT !.metric = r, !.announced = r]
             s == SendQueued(u)
  <2>1. d = IF c.metric = RtmetricMax /\ r # RtmetricMax THEN s ELSE u
    BY <1>2 DEF UpdateRtmetric
  <2>2. /\ Conn(p) /\ \A f \in ConnFields \ {"parent"} : p[f] = c[f]
        /\ Known(p, p.parent) \/ p.parent = NoNode
        /\ r \in Nat
    BY UpdateParentKeeps
  <2> HIDE DEF p, r
  <2>3. /\ u = [x \in ConnFields |-> u[x]] /\ u.metric = r /\ u.announced = r
        /\ \A x \in ConnFields \ {"metric", "announced"} : u[x] = p[x]
    BY <2>2 DEF Conn, ConnFields
  <2> HIDE DEF u
  <2>4. Conn(u) BY <2>2, <2>3 DEF Conn, ConnFields
  <2>5. /\ u.queue = c.queue /\ u.recent = c.recent /\ u.mac = c.mac /\ u.seqno = c.seqno /\ u.eseqno = c.eseqno
        /\ u.tx = c.tx /\ u.max = c.max /\ u.nbrs = c.nbrs /\ u.parent = p.parent /\ u.current = c.current
        /\ p.nbrs = c.nbrs
    BY <2>2, <2>3 DEF ConnFields
  <2>6. u.parent # n BY <2>2, <2>5, CollectAssumption DEF Known, Held
  <2>7. Handled(n, K, c, u) BY <2>5, <2>6, HandledAside DEF Held
  <2>8. Held(n, K, u) BY <2>7 DEF Handled
  <2>9. Handled(n, K, u, s) /\ Quiet(u, s) /\ s.seqno = u.seqno BY <2>4, <2>8, SendQueuedHandles
  <2> HIDE DEF s, d
  <2>10. Handled(n, K, c, s) BY <2>7, <2>9, HandledOn DEF Held
  <2>11. Handled(n, K, c, d) BY <2>1, <2>7, <2>10
  <2>12. Quiet(c, d) /\ d.seqno = c.seqno BY <1>2, <2>1, <2>5, <2>9 DEF Quiet
  <2> QED BY <2>11, <2>12 DEF d
<1> QED BY <1>1, <1>2

\* News of a neighbor are worked in.
LEMMA NewsHandles ==
  ASSUME NEW n \in Motes, NEW K, NEW c, Conn(c), Held(n, K, c), NEW m, NEW w,
         \/ \E rt \in Nat : w = WithRt(c, m, rt)
         \/ \E le \in {"none", "good", "bad"} : w = WithLe(c, m, le)
  PROVE  /\ Conn(w) /\ Handled(n, K, c, w) /\ Quiet(c, w) /\ w.seqno = c.seqno
         /\ Handled(n, K, c, UpdateRtmetric(w)) /\ Quiet(c, UpdateRtmetric(w))
         /\ UpdateRtmetric(w).seqno = c.seqno
<1>1. Conn(w) /\ SameList(c, w) /\ \A f \in ConnFields \ {"nbrs"} : w[f] = c[f]
  <2>1. Conn(w) BY NewsKeeps
  <2>2. SameList(c, w) BY NewsKeeps
  <2> QED BY <2>1, <2>2, NewsKeeps
<1>2. /\ w.queue = c.queue /\ w.recent = c.recent /\ w.mac = c.mac /\ w.seqno = c.seqno /\ w.eseqno = c.eseqno
      /\ w.tx = c.tx /\ w.max = c.max /\ w.parent = c.parent /\ w.current = c.current
      /\ w.metric = c.metric
  BY <1>1 DEF ConnFields
<1>3. n \notin DOMAIN w.nbrs BY <1>1 DEF SameList, Held
<1>4. Handled(n, K, c, w) BY <1>2, <1>3, HandledAside DEF Held
<1>5. Held(n, K, w) BY <1>4 DEF Handled
<1> DEFINE u == UpdateRtmetric(w)
<1>6. Handled(n, K, w, u) /\ Quiet(w, u) /\ u.seqno = w.seqno BY <1>1, <1>5, UpdateRtmetricHandles
<1> HIDE DEF u
<1>7. Handled(n, K, c, u) BY <1>4, <1>6, HandledOn DEF Held
<1>8. Quiet(c, w) /\ Quiet(c, u) BY <1>2, <1>6 DEF Quiet
<1> QED BY <1>1, <1>2, <1>4, <1>6, <1>7, <1>8 DEF u

\* Nothing underway has the next number.
LEMMA SendNextHandles ==
  ASSUME NEW n \in Motes, NEW K, NEW c, Conn(c), Held(n, K, c), c.seqno < IdMod - 1
  PROVE  LET d == SendNext(c) IN Handled(n, K, c, d) /\ Quiet(c, d) /\ d.seqno = c.seqno + 1
<1> DEFINE q == IF c.queue = <<>> THEN c.queue ELSE Tail(c.queue)
           k == (c.seqno + 1) % IdMod
           e == [c EXCEPT !.queue = q, !.seqno = k, !.timer = "off", !.sending = FALSE, !.tx = 0]
           s == SendQueued(e)
<1>1. SendNext(c) = s BY DEF SendNext
<1>2. q \in Seq(Packets) /\ Range(q) \subseteq Range(c.queue)
  <2>1. c.queue \in Seq(Packets) BY DEF Held
  <2>2. c.queue # <<>> => Tail(c.queue) \in Seq(Packets) BY <2>1
  <2> QED BY <2>1, <2>2, RangeFacts
<1>3. k = c.seqno + 1 /\ c.seqno \in Nat
  <2>1. c.seqno \in Nat /\ IdMod \in Nat \ {0} BY CollectAssumption DEF Held
  <2>2. c.seqno + 1 \in 0 .. IdMod - 1 BY <2>1
  <2>3. \A a \in Nat : \A b \in Nat \ {0} : a \in 0 .. b - 1 => a % b = a OBVIOUS
  <2> QED BY <2>1, <2>2, <2>3
<1> HIDE DEF q, k
<1>4. /\ e = [x \in ConnFields |-> e[x]] /\ e.sending = FALSE /\ e.queue = q /\ e.seqno = k /\ e.tx = 0
      /\ \A x \in ConnFields \ {"queue", "seqno", "timer", "sending", "tx"} : e[x] = c[x]
  BY DEF Conn, ConnFields
<1> HIDE DEF e
<1>5. Conn(e) BY <1>4 DEF Conn, ConnFields
<1>6. /\ e.recent = c.recent /\ e.mac = c.mac /\ e.eseqno = c.eseqno
      /\ e.max = c.max /\ e.nbrs = c.nbrs /\ e.parent = c.parent /\ e.current = c.current
      /\ e.metric = c.metric
  BY <1>4 DEF ConnFields
<1>7. \A f \in Range(c.mac) : f.type = "DATA" => f.id <= c.seqno /\ f.id \in Nat
  <2>1. Range(c.mac) \subseteq Frames BY RangeFacts DEF Held
  <2> QED BY <2>1 DEF Held, Frames, DataFrames, AckFrames
<1>8. \A f \in Range(c.mac) : f.type = "DATA" => f.id <= k /\ f.id # k BY <1>3, <1>7
<1>9. Held(n, K, e)
  <2>1. /\ e.queue \in Seq(Packets) /\ e.recent \in Seq(PacketNames) /\ e.mac \in Seq(Frames)
        /\ e.seqno \in Nat /\ e.eseqno \in Nat /\ e.tx \in Int /\ e.max \in Int
    BY <1>2, <1>3, <1>4, <1>6 DEF Held
  <2>2. n \notin DOMAIN e.nbrs /\ e.parent # n /\ e.current # n BY <1>6 DEF Held
  <2>3. (\A p \in Range(e.queue) : Fine(K, p)) /\ Range(e.recent) \subseteq K BY <1>2, <1>4, <1>6 DEF Held
  <2>4. \A f \in Range(e.mac) : f.type = "DATA" => f.to # n /\ f.id <= e.seqno /\ Fine(K, f.packet)
    BY <1>4, <1>6, <1>8 DEF Held
  <2> QED BY <2>1, <2>2, <2>3, <2>4 DEF Held
<1>10. Firm(e) BY <1>4, <1>6, <1>8 DEF Firm
<1>11. k # c.seqno /\ c.seqno <= k BY <1>3
<1>12. Handled(n, K, c, e) BY <1>4, <1>6, <1>9, <1>10, <1>11 DEF Handled
<1>13. Handled(n, K, e, s) /\ Quiet(e, s) /\ s.seqno = e.seqno BY <1>5, <1>9, SendQueuedHandles
<1> HIDE DEF s
<1>14. Handled(n, K, c, s) BY <1>3, <1>12, <1>13, HandledOn
<1> QED BY <1>1, <1>3, <1>4, <1>6, <1>13, <1>14 DEF Quiet

LEMMA TimedoutHandles ==
  ASSUME NEW n \in Motes, NEW K, NEW c, Conn(c), Held(n, K, c), c.seqno < IdMod - 1
  PROVE  LET d == Timedout(c) IN Handled(n, K, c, d) /\ Quiet(c, d)
<1> DEFINE e == [c EXCEPT !.sending = FALSE]
           w == WithLe(e, c.current, "bad")
           u == UpdateRtmetric(w)
           s == SendNext(u)
<1>1. Timedout(c) = s BY DEF Timedout
<1>2. /\ e = [x \in ConnFields |-> e[x]] /\ e.sending = FALSE
      /\ \A x \in ConnFields \ {"sending"} : e[x] = c[x]
  BY DEF Conn, ConnFields
<1>3. \E le \in {"none", "good", "bad"} : w = WithLe(e, c.current, le) OBVIOUS
<1> HIDE DEF e, w
<1>4. Conn(e) BY <1>2 DEF Conn, ConnFields
<1>5. /\ e.queue = c.queue /\ e.recent = c.recent /\ e.mac = c.mac /\ e.seqno = c.seqno /\ e.eseqno = c.eseqno
      /\ e.tx = c.tx /\ e.max = c.max /\ e.nbrs = c.nbrs /\ e.parent = c.parent /\ e.current = c.current
      /\ e.metric = c.metric
  BY <1>2 DEF ConnFields
<1>6. Handled(n, K, c, e) BY <1>5, HandledAside DEF Held
<1>7. Held(n, K, e) BY <1>6 DEF Handled
<1>8. Conn(w) /\ Timed(w)
  <2>1. Timed(e) BY <1>2 DEF Timed
  <2>2. Kept(e, w) BY <1>3, <1>4, <2>1, UpdateOfNews
  <2> QED BY <2>2 DEF Kept
<1>9. Conn(u) BY <1>8, UpdateRtmetricKeeps
<1>10. Handled(n, K, e, u) /\ Quiet(e, u) /\ u.seqno = e.seqno BY <1>3, <1>4, <1>7, NewsHandles
<1> HIDE DEF u
<1>11. Held(n, K, u) /\ u.seqno < IdMod - 1 BY <1>5, <1>10 DEF Handled
<1>12. Handled(n, K, u, s) /\ Quiet(u, s) BY <1>9, <1>11, SendNextHandles
<1> HIDE DEF s
<1>13. Handled(n, K, c, u) BY <1>6, <1>10, HandledOn DEF Held
<1>14. Handled(n, K, c, s) BY <1>12, <1>13, HandledOn DEF Held
<1> QED BY <1>1, <1>5, <1>10, <1>12, <1>14 DEF Quiet

LEMMA RetransmitCurrentHandles ==
  ASSUME NEW n \in Motes, NEW K, NEW c, Conn(c), c.sending = FALSE, Held(n, K, c)
  PROVE  LET d == RetransmitCurrent(c) IN Handled(n, K, c, d) /\ Quiet(c, d)
<1> DEFINE d == RetransmitCurrent(c)
<1>0. Timed(c) BY DEF Timed
<1>1. CASE c.queue = <<>>
  <2>1. d = c BY <1>1 DEF RetransmitCurrent
  <2>2. Handled(n, K, c, c) BY HandledAside DEF Held
  <2> QED BY <2>1, <2>2 DEF Quiet
<1>2. CASE c.queue # <<>>
  <2> DEFINE u == UpdateRtmetric(c)
             v == IF u.current = u.parent THEN u ELSE [u EXCEPT !.current = u.parent, !.tx = 0]
             e == [v EXCEPT !.sending = TRUE]
             g == SendPacket(e)
  <2>1. d = IF Known(v, v.current) THEN g ELSE v BY <1>2 DEF RetransmitCurrent
  <2>2. Conn(u) /\ u.queue = c.queue BY <1>0, UpdateRtmetricKeeps
  <2>3. Handled(n, K, c, u) /\ Quiet(c, u) BY UpdateRtmetricHandles
  <2>4. Held(n, K, u) BY <2>3 DEF Handled
  <2> HIDE DEF u
  <2>5. /\ v = [x \in ConnFields |-> v[x]] /\ v.current = u.parent /\ v.tx \in Int
        /\ \A x \in ConnFields \ {"current", "tx"} : v[x] = u[x]
    <3>1. CASE u.current = u.parent BY <3>1, <2>2, <2>4 DEF Conn, ConnFields, Held
    <3>2. CASE u.current # u.parent
      <4> DEFINE x == [u EXCEPT !.current = u.parent, !.tx = 0]
      <4>1. v = x BY <3>2
      <4>2. /\ x = [y \in ConnFields |-> x[y]] /\ x.current = u.parent /\ x.tx = 0
            /\ \A y \in ConnFields \ {"current", "tx"} : x[y] = u[y]
        BY <2>2 DEF Conn, ConnFields
      <4> HIDE DEF x, v
      <4> QED BY <4>1, <4>2
    <3> QED BY <3>1, <3>2
  <2> HIDE DEF v
  <2>6. Conn(v) BY <2>2, <2>5 DEF Conn, ConnFields
  <2>7. /\ v.queue = u.queue /\ v.recent = u.recent /\ v.mac = u.mac /\ v.seqno = u.seqno /\ v.eseqno = u.eseqno
        /\ v.max = u.max /\ v.nbrs = u.nbrs /\ v.parent = u.parent /\ v.metric = u.metric
    BY <2>5 DEF ConnFields
  <2>8. Handled(n, K, u, v) BY <2>4, <2>5, <2>7, HandledAside DEF Held
  <2>9. Handled(n, K, c, v) /\ Quiet(c, v) BY <2>3, <2>7, <2>8, HandledOn DEF Held, Quiet
  <2>10. Held(n, K, v) BY <2>8 DEF Handled
  <2>11. CASE ~ Known(v, v.current)
    BY <2>1, <2>9, <2>11
  <2>12. CASE Known(v, v.current)
    <3>1. /\ e = [x \in ConnFields |-> e[x]] /\ e.sending = TRUE
          /\ \A x \in ConnFields \ {"sending"} : e[x] = v[x]
      BY <2>6 DEF Conn, ConnFields
    <3> HIDE DEF e
    <3>2. Conn(e) BY <3>1, <2>6 DEF Conn, ConnFields
    <3>3. /\ e.queue = v.queue /\ e.recent = v.recent /\ e.mac = v.mac /\ e.seqno = v.seqno /\ e.eseqno = v.eseqno
          /\ e.tx = v.tx /\ e.max = v.max /\ e.nbrs = v.nbrs /\ e.parent = v.parent /\ e.current = v.current
          /\ e.metric = v.metric
      BY <3>1 DEF ConnFields
    <3>4. Handled(n, K, v, e) BY <2>10, <3>3, HandledAside DEF Held
    <3>5. Held(n, K, e) BY <3>4 DEF Handled
    <3>6. e.queue # <<>> /\ Known(e, e.current) BY <1>2, <2>2, <2>7, <2>12, <3>3 DEF Known
    <3>7. Handled(n, K, e, g) /\ Quiet(e, g) BY <3>2, <3>5, <3>6, SendPacketHandles
    <3>8. d = g BY <2>1, <2>12
    <3> HIDE DEF g, d
    <3>9. Handled(n, K, c, e) BY <2>9, <3>4, HandledOn DEF Held
    <3>10. Handled(n, K, c, g) BY <3>7, <3>9, HandledOn DEF Held
    <3>11. Quiet(c, g) BY <2>9, <3>3, <3>7 DEF Quiet
    <3> QED BY <3>8, <3>10, <3>11 DEF d
  <2> QED BY <2>11, <2>12
<1> QED BY <1>1, <1>2

LEMMA RetransmitCallbackHandles ==
  ASSUME NEW n \in Motes, NEW K, NEW c, Conn(c), Held(n, K, c), c.seqno < IdMod - 1
  PROVE  LET d == RetransmitCallback(c) IN Handled(n, K, c, d) /\ Quiet(c, d)
<1> DEFINE d == RetransmitCallback(c)
<1>1. CASE c.tx >= c.max
  BY <1>1, TimedoutHandles DEF RetransmitCallback
<1>2. CASE ~ (c.tx >= c.max)
  <2> DEFINE e == [c EXCEPT !.sending = FALSE]
  <2>1. d = RetransmitCurrent(e) BY <1>2 DEF RetransmitCallback
  <2>2. /\ e = [x \in ConnFields |-> e[x]] /\ e.sending = FALSE
        /\ \A x \in ConnFields \ {"sending"} : e[x] = c[x]
    BY DEF Conn, ConnFields
  <2> HIDE DEF e, d
  <2>3. Conn(e) BY <2>2 DEF Conn, ConnFields
  <2>4. /\ e.queue = c.queue /\ e.recent = c.recent /\ e.mac = c.mac /\ e.seqno = c.seqno /\ e.eseqno = c.eseqno
        /\ e.tx = c.tx /\ e.max = c.max /\ e.nbrs = c.nbrs /\ e.parent = c.parent /\ e.current = c.current
        /\ e.metric = c.metric
    BY <2>2 DEF ConnFields
  <2>5. Handled(n, K, c, e) BY <2>4, HandledAside DEF Held
  <2>6. Held(n, K, e) BY <2>5 DEF Handled
  <2>7. Handled(n, K, e, d) /\ Quiet(e, d) BY <2>1, <2>2, <2>3, <2>6, RetransmitCurrentHandles
  <2>8. Handled(n, K, c, d) BY <2>5, <2>7, HandledOn DEF Held
  <2>9. Quiet(c, d) BY <2>4, <2>7 DEF Quiet
  <2> QED BY <2>8, <2>9 DEF d
<1> QED BY <1>1, <1>2

LEMMA NodePacketSentHandles ==
  ASSUME NEW n \in Motes, NEW K, NEW c, Conn(c), Held(n, K, c), c.seqno < IdMod - 1, NEW tries \in Int
  PROVE  LET d == NodePacketSent(c, tries) IN Handled(n, K, c, d) /\ Quiet(c, d)
<1> DEFINE tx == c.tx + tries
           u == [c EXCEPT !.tx = tx]
           d == NodePacketSent(c, tries)
           e == [u EXCEPT !.timer = "rexmit"]
<1>1. d = IF u.tx >= u.max THEN Timedout(u) ELSE e BY DEF NodePacketSent
<1>2. tx \in Int BY DEF Held
<1> HIDE DEF tx
<1>3. /\ u = [x \in ConnFields |-> u[x]] /\ u.tx = tx
      /\ \A x \in ConnFields \ {"tx"} : u[x] = c[x]
  BY DEF Conn, ConnFields
<1> HIDE DEF u
<1>4. Conn(u) BY <1>3 DEF Conn, ConnFields
<1>5. /\ u.queue = c.queue /\ u.recent = c.recent /\ u.mac = c.mac /\ u.seqno = c.seqno /\ u.eseqno = c.eseqno
      /\ u.max = c.max /\ u.nbrs = c.nbrs /\ u.parent = c.parent /\ u.current = c.current
      /\ u.metric = c.metric
  BY <1>3 DEF ConnFields
<1>6. Handled(n, K, c, u) BY <1>2, <1>3, <1>5, HandledAside DEF Held
<1>7. Held(n, K, u) BY <1>6 DEF Handled
<1>8. CASE u.tx >= u.max
  <2> DEFINE t == Timedout(u)
  <2>1. d = t BY <1>1, <1>8
  <2>2. u.seqno < IdMod - 1 BY <1>5
  <2>3. Handled(n, K, u, t) /\ Quiet(u, t) BY <1>4, <1>7, <2>2, TimedoutHandles
  <2> HIDE DEF t, d
  <2>4. Handled(n, K, c, t) BY <1>6, <2>3, HandledOn DEF Held
  <2> QED BY <1>5, <2>1, <2>3, <2>4 DEF Quiet, d
<1>9. CASE ~ (u.tx >= u.max)
  <2>1. d = e BY <1>1, <1>9
  <2>2. \A x \in ConnFields \ {"timer"} : e[x] = u[x] BY <1>4 DEF Conn, ConnFields
  <2> HIDE DEF e, d
  <2>3. /\ e.queue = u.queue /\ e.recent = u.recent /\ e.mac = u.mac /\ e.seqno = u.seqno /\ e.eseqno = u.eseqno
        /\ e.tx = u.tx /\ e.max = u.max /\ e.nbrs = u.nbrs /\ e.parent = u.parent /\ e.current = u.current
        /\ e.metric = u.metric
    BY <2>2 DEF ConnFields
  <2>4. Handled(n, K, u, e) BY <1>7, <2>3, HandledAside DEF Held
  <2>5. Handled(n, K, c, e) BY <1>6, <2>4, HandledOn DEF Held
  <2>6. Quiet(c, e) BY <1>5, <2>3 DEF Quiet
  <2> QED BY <2>1, <2>5, <2>6 DEF d
<1> QED BY <1>8, <1>9

\* The queue of the MAC layer without its first frame.
LEMMA MacTakenHandles ==
  ASSUME NEW n, NEW K, NEW c, Conn(c), Held(n, K, c), c.mac # <<>>, NEW d, d = [c EXCEPT !.mac = Tail(@)]
  PROVE  Handled(n, K, c, d) /\ Quiet(c, d) /\ d.seqno = c.seqno
<1> DEFINE q == Tail(c.mac)
<1>1. q \in Seq(Frames) /\ Range(q) \subseteq Range(c.mac)
  <2>1. c.mac \in Seq(Frames) BY DEF Held
  <2> QED BY <2>1, RangeFacts
<1>2. d = [c EXCEPT !.mac = q] OBVIOUS
<1> HIDE DEF q
<1>3. d.mac = q /\ \A x \in ConnFields \ {"mac"} : d[x] = c[x]
  BY <1>2 DEF Conn, ConnFields
<1>4. /\ d.queue = c.queue /\ d.recent = c.recent /\ d.seqno = c.seqno /\ d.eseqno = c.eseqno
      /\ d.tx = c.tx /\ d.max = c.max /\ d.nbrs = c.nbrs /\ d.parent = c.parent /\ d.current = c.current
      /\ d.metric = c.metric
  BY <1>3 DEF ConnFields
<1>5. Held(n, K, d) BY <1>1, <1>3, <1>4 DEF Held
<1>6. c.seqno <= d.seqno BY <1>4 DEF Held
<1>7. SameHead(c, d) /\ (Firm(c) => Firm(d)) BY <1>1, <1>3, <1>4 DEF SameHead, Firm, Leads
<1> QED BY <1>1, <1>3, <1>4, <1>5, <1>6, <1>7 DEF Handled, Quiet

\* The first frame was tried once more.
LEMMA MacTriedHandles ==
  ASSUME NEW n, NEW K, NEW c, Conn(c), Held(n, K, c), c.mac # <<>>, Head(c.mac).type = "DATA",
         NEW d, d = [c EXCEPT !.mac[1].tries = @ + 1]
  PROVE  Handled(n, K, c, d) /\ Quiet(c, d) /\ d.seqno = c.seqno
<1> DEFINE f == c.mac[1]
           k == f.tries + 1
           g == [f EXCEPT !.tries = k]
           q == [c.mac EXCEPT ![1] = g]
<1>1. d = [c EXCEPT !.mac = q] OBVIOUS
<1>2. f \in DataFrames /\ f \in Range(c.mac)
  <2>1. c.mac \in Seq(Frames) BY DEF Held
  <2>2. f = Head(c.mac) BY <2>1
  <2>3. f \in Range(c.mac) /\ Range(c.mac) \subseteq Frames BY <2>1, <2>2, RangeFacts
  <2> HIDE DEF f
  <2> QED BY <2>2, <2>3 DEF Frames, AckFrames
<1>3. /\ g \in DataFrames /\ g.to = f.to /\ g.id = f.id /\ g.packet = f.packet /\ g.type = "DATA"
      /\ f.type = "DATA"
  <2> HIDE DEF f
  <2>1. k \in Int BY <1>2 DEF DataFrames
  <2> HIDE DEF k
  <2> QED BY <1>2, <2>1 DEF DataFrames
<1> HIDE DEF g, f
<1>4. q \in Seq(Frames) /\ Range(q) \subseteq Range(c.mac) \cup {g}
  <2>1. c.mac \in Seq(Frames) /\ g \in Frames BY <1>3 DEF Held, Frames
  <2>2. q \in Seq(Frames) /\ DOMAIN q = DOMAIN c.mac BY <2>1
  <2>3. \A i \in DOMAIN c.mac : q[i] = c.mac[i] \/ q[i] = g BY <2>1
  <2> QED BY <2>2, <2>3 DEF Range
<1> HIDE DEF q
<1>5. d.mac = q /\ \A x \in ConnFields \ {"mac"} : d[x] = c[x]
  BY <1>1 DEF Conn, ConnFields
<1>6. /\ d.queue = c.queue /\ d.recent = c.recent /\ d.seqno = c.seqno /\ d.eseqno = c.eseqno
      /\ d.tx = c.tx /\ d.max = c.max /\ d.nbrs = c.nbrs /\ d.parent = c.parent /\ d.current = c.current
      /\ d.metric = c.metric
  BY <1>5 DEF ConnFields
<1>7. g.to # n /\ g.id <= c.seqno /\ Fine(K, g.packet) BY <1>2, <1>3 DEF Held
<1>8. \A x \in Range(d.mac) : x.type = "DATA" => x.to # n /\ x.id <= d.seqno /\ Fine(K, x.packet)
  <2>1. \A x \in Range(d.mac) : x \in Range(c.mac) \/ x = g BY <1>4, <1>5
  <2> QED BY <1>6, <1>7, <2>1 DEF Held
<1>9. Held(n, K, d) BY <1>4, <1>5, <1>6, <1>8 DEF Held
<1>10. c.seqno <= d.seqno BY <1>6 DEF Held
<1>11. SameHead(c, d) BY <1>6 DEF SameHead, Leads
<1>12. Firm(c) => Firm(d)
  <2> SUFFICES ASSUME Firm(c), NEW x \in Range(d.mac), x.type = "DATA", x.id = d.seqno
               PROVE  Leads(d, x.packet)
    BY DEF Firm
  <2>1. \/ x \in Range(c.mac)
        \/ x = g
    BY <1>4, <1>5
  <2>2. PICK y \in Range(c.mac) : y.type = "DATA" /\ y.id = x.id /\ y.packet = x.packet
    BY <2>1, <1>2, <1>3
  <2>3. Leads(c, y.packet) BY <1>6, <2>2 DEF Firm
  <2> QED BY <1>6, <2>2, <2>3 DEF Leads
<1>13. \A x \in Range(d.mac) : x.type = "ACK" => x \in Range(c.mac) BY <1>3, <1>4, <1>5
<1> QED BY <1>6, <1>9, <1>10, <1>11, <1>12, <1>13 DEF Handled, Quiet

\* The packets that a node has had become more.
LEMMA HeldMore ==
  ASSUME NEW n, NEW K, NEW c, Held(n, K, c), NEW L, K \subseteq L
  PROVE  Held(n, L, c)
BY DEF Held, Fine

\* A packet is added to the queue.
LEMMA GrownHandles ==
  ASSUME NEW n, NEW K, NEW c, Conn(c), Held(n, K, c), NEW p \in Packets, Fine(K, p),
         NEW d, d = [c EXCEPT !.queue = Append(c.queue, p)]
  PROVE  Conn(d) /\ Handled(n, K, c, d) /\ Quiet(c, d) /\ d.seqno = c.seqno
<1> DEFINE q == Append(c.queue, p)
<1>1. q \in Seq(Packets) /\ Range(q) = Range(c.queue) \cup {p} /\ q # <<>>
  <2>1. c.queue \in Seq(Packets) BY DEF Held
  <2> QED BY <2>1, RangeFacts
<1>2. c.queue # <<>> => Head(q) = Head(c.queue)
  <2>1. c.queue \in Seq(Packets) BY DEF Held
  <2> QED BY <2>1
<1>3. d = [c EXCEPT !.queue = q] OBVIOUS
<1> HIDE DEF q
<1>4. d = [x \in ConnFields |-> d[x]] /\ d.queue = q /\ \A x \in ConnFields \ {"queue"} : d[x] = c[x]
  BY <1>3 DEF Conn, ConnFields
<1>5. Conn(d) BY <1>4 DEF Conn, ConnFields
<1>6. /\ d.mac = c.mac /\ d.recent = c.recent /\ d.seqno = c.seqno /\ d.eseqno = c.eseqno
      /\ d.tx = c.tx /\ d.max = c.max /\ d.nbrs = c.nbrs /\ d.parent = c.parent /\ d.current = c.current
      /\ d.metric = c.metric
  BY <1>4 DEF ConnFields
<1>7. Held(n, K, d) BY <1>1, <1>4, <1>6 DEF Held
<1>8. c.seqno <= d.seqno BY <1>6 DEF Held
<1>9. SameHead(c, d) BY <1>1, <1>2, <1>4 DEF SameHead, Leads
<1>10. Firm(c) => Firm(d) BY <1>6, <1>9 DEF Firm, SameHead
<1> QED BY <1>5, <1>6, <1>7, <1>8, <1>9, <1>10 DEF Handled, Quiet

\* A packet is remembered.
LEMMA RecentHandles ==
  ASSUME NEW n, NEW K, NEW c, Conn(c), Held(n, K, c), NEW p \in Packets, Fine(K, p)
  PROVE  LET d == AddToRecent(c, p)
         IN  Conn(d) /\ Handled(n, K, c, d) /\ d.seqno = c.seqno
<1> DEFINE d == AddToRecent(c, p)
<1>1. CASE p.probe
  <2>1. d = c BY <1>1 DEF AddToRecent
  <2>2. Handled(n, K, c, c) BY HandledAside DEF Held
  <2> QED BY <2>1, <2>2
<1>2. CASE ~ p.probe
  <2> DEFINE r == Append(c.recent, Named(p))
             q == IF Len(r) > NumRecent THEN Tail(r) ELSE r
  <2>1. d = [c EXCEPT !.recent = q] BY <1>2 DEF AddToRecent, Named
  <2>2. Named(p) \in PacketNames /\ Named(p) \in K BY <1>2 DEF Fine, Named, Packets, PacketNames
  <2>3. r \in Seq(PacketNames) /\ Range(r) \subseteq K /\ r # <<>>
    <3>1. c.recent \in Seq(PacketNames) /\ Range(c.recent) \subseteq K BY DEF Held
    <3>2. Range(r) = Range(c.recent) \cup {Named(p)} BY <3>1, RangeFacts
    <3>3. r \in Seq(PacketNames) /\ r # <<>> BY <2>2, <3>1
    <3> QED BY <2>2, <3>1, <3>2, <3>3
  <2> HIDE DEF r
  <2>4. q \in Seq(PacketNames) /\ Range(q) \subseteq K
    <3>1. Tail(r) \in Seq(PacketNames) /\ Range(Tail(r)) \subseteq K BY <2>3, RangeFacts
    <3> QED BY <2>3, <3>1
  <2> HIDE DEF q
  <2>5. d = [x \in ConnFields |-> d[x]] /\ d.recent = q /\ \A x \in ConnFields \ {"recent"} : d[x] = c[x]
    BY <2>1 DEF Conn, ConnFields
  <2> HIDE DEF d
  <2>6. Conn(d) BY <2>5 DEF Conn, ConnFields
  <2>7. /\ d.mac = c.mac /\ d.queue = c.queue /\ d.seqno = c.seqno /\ d.eseqno = c.eseqno
        /\ d.tx = c.tx /\ d.max = c.max /\ d.nbrs = c.nbrs /\ d.parent = c.parent /\ d.current = c.current
    BY <2>5 DEF ConnFields
  <2>8. Held(n, K, d) BY <2>4, <2>5, <2>7 DEF Held
  <2>9. c.seqno <= d.seqno BY <2>7 DEF Held
  <2>10. SameHead(c, d) /\ (Firm(c) => Firm(d)) BY <2>7 DEF SameHead, Firm, Leads
  <2> QED BY <2>6, <2>7, <2>8, <2>9, <2>10 DEF Handled, d
<1> QED BY <1>1, <1>2

SameNumber(c, d) == d.seqno = c.seqno

LEMMA NewsNumber ==
  ASSUME NEW c, Conn(c), NEW m, NEW d,
         \/ \E rt \in Nat : d = WithRt(c, m, rt)
         \/ \E le \in {"none", "good", "bad"} : d = WithLe(c, m, le)
  PROVE  SameNumber(c, d)
<1>1. \A f \in ConnFields \ {"nbrs"} : d[f] = c[f] BY NewsKeeps
<1> QED BY <1>1 DEF SameNumber, ConnFields

\* An acknowledgement is handled.
LEMMA HandleAckHandles ==
  ASSUME NEW n \in Motes, NEW K, NEW c, Conn(c), Timed(c), Held(n, K, c), c.seqno < IdMod - 1,
         NEW f, f.rt \in Nat, NEW from
  PROVE  LET d == HandleAck(c, f, from) IN Handled(n, K, c, d) /\ Quiet(c, d)
<1> DEFINE a == WithLe(c, from, "good")
           b == WithRt(a, from, f.rt)
           v == UpdateRtmetric(b)
           x == UpdateRtmetric(WithLe(v, from, "bad"))
           w == IF "CONGESTED" \in f.flags THEN x ELSE v
           y == UpdateRtmetric(WithLe(w, from, "bad"))
           tx == IF y.tx = 0 THEN MacTries ELSE y.tx
           z == [y EXCEPT !.tx = tx, !.timer = "rexmit"]
           d == HandleAck(c, f, from)
           s == SendNext(w)
<1>1. d = c \/ d = z \/ d = s BY DEF HandleAck
<1> DEFINE Good(e) == Conn(e) /\ Timed(e) /\ Handled(n, K, c, e) /\ Quiet(c, e) /\ e.seqno = c.seqno
<1>2. Good(c)
  <2>1. Handled(n, K, c, c) BY HandledAside DEF Held
  <2> QED BY <2>1 DEF Quiet
<1>3. ASSUME NEW e, Good(e), NEW m, NEW g,
             \/ \E rt \in Nat : g = WithRt(e, m, rt)
             \/ \E le \in {"none", "good", "bad"} : g = WithLe(e, m, le)
      PROVE  Good(g) /\ Good(UpdateRtmetric(g))
  <2> DEFINE u == UpdateRtmetric(g)
  <2>1. Held(n, K, e) /\ Conn(e) BY <1>3 DEF Handled
  <2>2. /\ Conn(g) /\ Handled(n, K, e, g) /\ Quiet(e, g) /\ g.seqno = e.seqno
        /\ Handled(n, K, e, u) /\ Quiet(e, u) /\ u.seqno = e.seqno
    <3> HIDE DEF Good
    <3>1. \/ \E rt \in Nat : g = WithRt(e, m, rt)
          \/ \E le \in {"none", "good", "bad"} : g = WithLe(e, m, le)
      BY <1>3
    <3>2. Conn(g) BY <2>1, <3>1, NewsHandles
    <3>3. Handled(n, K, e, g) BY <2>1, <3>1, NewsHandles
    <3>4. Quiet(e, g) BY <2>1, <3>1, NewsHandles
    <3>5. g.seqno = e.seqno
      <4>1. SameNumber(e, g) BY <2>1, <3>1, NewsNumber
      <4> QED BY <4>1 DEF SameNumber
    <3>6. Handled(n, K, e, u) BY <2>1, <3>1, NewsHandles
    <3>7. Quiet(e, u) BY <2>1, <3>1, NewsHandles
    <3>8. u.seqno = e.seqno
      <4>1. Held(n, K, g) BY <3>3 DEF Handled
      <4>2. u.seqno = g.seqno BY <3>2, <4>1, UpdateRtmetricHandles
      <4> QED BY <3>5, <4>2
    <3> QED BY <3>2, <3>3, <3>4, <3>5, <3>6, <3>7, <3>8
  <2>3. Kept(e, g) /\ Kept(e, u) BY <1>3, UpdateOfNews
  <2> HIDE DEF u
  <2>4. Handled(n, K, c, g) /\ Handled(n, K, c, u) BY <1>3, <2>2, HandledOn DEF Held
  <2>5. Quiet(c, g) /\ Quiet(c, u) BY <1>3, <2>2 DEF Quiet
  <2>6. Good(g) BY <1>3, <2>2, <2>3, <2>4, <2>5 DEF Kept
  <2>7. Good(u) BY <1>3, <2>2, <2>3, <2>4, <2>5 DEF Kept
  <2> QED BY <2>6, <2>7 DEF u
<1> HIDE DEF Good
<1>4. Good(a) BY <1>2, <1>3
<1>5. Good(v)
  <2> HIDE DEF a
  <2> QED BY <1>3, <1>4
<1>6. Good(w)
  <2> HIDE DEF v
  <2>1. Good(x) BY <1>3, <1>5
  <2> HIDE DEF x
  <2> QED BY <1>5, <2>1
<1> HIDE DEF w, a, b, v, x
<1>7. Good(y) BY <1>3, <1>6
<1> HIDE DEF y, d
<1>8. Handled(n, K, c, z) /\ Quiet(c, z)
  <2>1. Conn(y) /\ Held(n, K, y) BY <1>7 DEF Good, Handled
  <2>2. tx \in Int BY <2>1, CollectAssumption DEF Held
  <2> HIDE DEF tx
  <2>3. z.tx = tx /\ \A k \in ConnFields \ {"tx", "timer"} : z[k] = y[k]
    BY <2>1 DEF Conn, ConnFields
  <2> HIDE DEF z
  <2>4. /\ z.queue = y.queue /\ z.recent = y.recent /\ z.mac = y.mac /\ z.seqno = y.seqno /\ z.eseqno = y.eseqno
        /\ z.max = y.max /\ z.nbrs = y.nbrs /\ z.parent = y.parent /\ z.current = y.current
        /\ z.metric = y.metric
    BY <2>3 DEF ConnFields
  <2>5. Handled(n, K, y, z) BY <2>1, <2>2, <2>3, <2>4, HandledAside DEF Held
  <2>6. Handled(n, K, c, y) /\ Quiet(c, y) BY <1>7 DEF Good
  <2>7. Handled(n, K, c, z) BY <2>5, <2>6, HandledOn DEF Held
  <2> QED BY <2>4, <2>6, <2>7 DEF Quiet
<1>9. Handled(n, K, c, s) /\ Quiet(c, s)
  <2>1. Conn(w) /\ Handled(n, K, c, w) /\ Quiet(c, w) /\ w.seqno = c.seqno BY <1>6 DEF Good
  <2>2. Held(n, K, w) /\ w.seqno < IdMod - 1 BY <2>1 DEF Handled
  <2>3. Handled(n, K, w, s) /\ Quiet(w, s) BY <2>1, <2>2, SendNextHandles
  <2> HIDE DEF s
  <2>4. Handled(n, K, c, s) BY <2>1, <2>3, HandledOn DEF Held
  <2> QED BY <2>1, <2>3, <2>4 DEF Quiet
<1>10. Handled(n, K, c, c) /\ Quiet(c, c) BY <1>2 DEF Good
<1> QED BY <1>1, <1>8, <1>9, <1>10 DEF d

\* Each node n has had the packets K[n], and those in E lost one to its lifetime
\* that may be underway with their number of now.  An acknowledgement of m with
\* the number of now is for the first packet of the queue, which m has had.
AckRight(N, K, E) ==
  /\ N = [n \in Motes |-> N[n]]
  /\ \A n \in Motes : Held(n, K[n], N[n])
  /\ \A n \in Motes \ E : Firm(N[n])
  /\ \A m \in Motes : \A f \in Range(N[m].mac) : f.type = "ACK" /\ f.to # m =>
       /\ f.id <= N[f.to].seqno
       /\ "DROPPED" \notin f.flags /\ f.id = N[f.to].seqno /\ f.to \notin E
            => \E p : Leads(N[f.to], p) /\ Fine(K[m], p)

LEMMA FramesAre ==
  ASSUME NEW n, NEW K, NEW c, Held(n, K, c), NEW f \in Range(c.mac)
  PROVE  /\ f \in Frames
         /\ f.type = "ACK" => f \in AckFrames
         /\ f.type = "DATA" => f \in DataFrames /\ f.to # n /\ f.id <= c.seqno /\ Fine(K, f.packet)
<1>1. f \in Frames BY RangeFacts DEF Held
<1>2. f \in DataFrames => f.type = "DATA" BY DEF DataFrames
<1>3. f \in AckFrames => f.type = "ACK" BY DEF AckFrames
<1> QED BY <1>1, <1>2, <1>3 DEF Frames, Held

LEMMA RightHandled ==
  ASSUME NEW N, NEW K, NEW E, AckRight(N, K, E), NEW L, \A m \in Motes : K[m] \subseteq L[m],
         NEW n \in Motes, NEW d, Handled(n, L[n], N[n], d),
         NEW F, F = IF d.seqno # N[n].seqno THEN E \ {n} ELSE E
  PROVE  AckRight([N EXCEPT ![n] = d], L, F)
<1> DEFINE M == [N EXCEPT ![n] = d]
<1>1. M = [m \in Motes |-> M[m]] /\ M[n] = d /\ \A m \in Motes \ {n} : M[m] = N[m]
  BY DEF AckRight
<1> HIDE DEF M
<1>2. \A m \in Motes : Held(m, L[m], M[m])
  <2> TAKE m \in Motes
  <2>1. CASE m = n BY <1>1, <2>1 DEF Handled
  <2>2. CASE m # n
    <3>1. Held(m, K[m], N[m]) BY DEF AckRight
    <3>2. K[m] \subseteq L[m] OBVIOUS
    <3>3. Held(m, L[m], N[m]) BY <3>1, <3>2, HeldMore
    <3> QED BY <1>1, <2>2, <3>3
  <2> QED BY <2>1, <2>2
<1>3. \A m \in Motes \ F : Firm(M[m])
  <2> TAKE m \in Motes \ F
  <2>1. CASE m # n BY <1>1, <2>1 DEF AckRight
  <2>2. CASE m = n /\ d.seqno # N[n].seqno BY <1>1, <2>2 DEF Handled
  <2>3. CASE m = n /\ d.seqno = N[n].seqno BY <1>1, <2>3 DEF Handled, AckRight
  <2> QED BY <2>1, <2>2, <2>3
<1>4. ASSUME NEW m \in Motes, NEW f \in Range(M[m].mac), f.type = "ACK", f.to # m
      PROVE  /\ f.id <= M[f.to].seqno
             /\ "DROPPED" \notin f.flags /\ f.id = M[f.to].seqno /\ f.to \notin F
                  => \E p : Leads(M[f.to], p) /\ Fine(L[m], p)
  <2>1. f \in Range(N[m].mac)
    <3>1. CASE m = n BY <1>1, <1>4, <3>1 DEF Handled
    <3>2. CASE m # n BY <1>1, <1>4, <3>2
    <3> QED BY <3>1, <3>2
  <2>2. Held(m, L[m], M[m]) BY <1>2
  <2>3. f \in AckFrames BY <1>4, <2>2, FramesAre
  <2>4. f.to \in Motes /\ f.id \in Nat BY <2>3 DEF AckFrames
  <2>5. /\ f.id <= N[f.to].seqno
        /\ "DROPPED" \notin f.flags /\ f.id = N[f.to].seqno /\ f.to \notin E
             => \E p : Leads(N[f.to], p) /\ Fine(K[m], p)
    BY <1>4, <2>1 DEF AckRight
  <2>6. \A p : Fine(K[m], p) => Fine(L[m], p) BY DEF Fine
  <2>7. CASE f.to # n
    <3>1. M[f.to] = N[f.to] BY <1>1, <2>4, <2>7
    <3>2. f.to \notin F => f.to \notin E BY <2>7
    <3> QED BY <2>5, <2>6, <3>1, <3>2
  <2>8. CASE f.to = n
    <3>1. M[f.to] = d BY <1>1, <2>8
    <3>2. N[n].seqno <= d.seqno /\ N[n].seqno \in Nat /\ d.seqno \in Nat BY DEF Handled, Held, AckRight
    <3>3. f.id <= N[n].seqno BY <2>5, <2>8
    <3>4. f.id <= d.seqno BY <2>4, <3>2, <3>3
    <3>5. ASSUME "DROPPED" \notin f.flags, f.id = d.seqno, f.to \notin F
          PROVE  \E p : Leads(d, p) /\ Fine(L[m], p)
      <4>1. d.seqno = N[n].seqno BY <2>4, <3>2, <3>3, <3>5
      <4>2. f.to \notin E BY <3>5, <4>1
      <4>3. PICK p : Leads(N[n], p) /\ Fine(K[m], p) BY <2>5, <2>8, <3>5, <4>1, <4>2
      <4>4. Leads(d, p) BY <4>1, <4>3 DEF Handled, SameHead
      <4> QED BY <2>6, <4>3, <4>4
    <3> QED BY <3>1, <3>4, <3>5
  <2> QED BY <2>7, <2>8
<1>5. AckRight(M, L, F) BY <1>1, <1>2, <1>3, <1>4 DEF AckRight
<1> QED BY <1>5 DEF M

\* An acknowledgement is added, to a node whose first packet n has had.
LEMMA RightAck ==
  ASSUME NEW N, NEW K, NEW E, AckRight(N, K, E), NEW n \in Motes, NEW c, c = N[n], Conn(c),
         NEW f, f.id \in Nat, NEW from \in Motes, NEW flags \in SUBSET {"DROPPED", "CONGESTED", "LIFETIME"},
         from # n => /\ f.id <= N[from].seqno
                     /\ "DROPPED" \notin flags /\ f.id = N[from].seqno /\ from \notin E
                          => \E p : Leads(N[from], p) /\ Fine(K[n], p)
  PROVE  LET d == SendAck(c, f, from, flags)
         IN  Conn(d) /\ AckRight([N EXCEPT ![n] = d], K, E) /\ Held(n, K[n], d) /\ d.seqno = c.seqno
<1> DEFINE a == [type |-> "ACK", to |-> from, id |-> f.id, rt |-> c.metric, flags |-> flags]
           q == Append(c.mac, a)
           d == [c EXCEPT !.mac = q]
           M == [N EXCEPT ![n] = d]
<1>1. SendAck(c, f, from, flags) = d BY DEF SendAck
<1>2. Conn(d)
  <2> HIDE DEF d
  <2> QED BY <1>1, SendAckKeeps
<1>3. a \in AckFrames /\ a.type = "ACK" /\ a.to = from /\ a.id = f.id /\ a.flags = flags
  <2>1. c.metric \in Int BY DEF Conn
  <2> QED BY <2>1 DEF AckFrames
<1> HIDE DEF a
<1>4. Held(n, K[n], c) BY DEF AckRight
<1>5. q \in Seq(Frames) /\ Range(q) = Range(c.mac) \cup {a}
  <2>1. c.mac \in Seq(Frames) /\ a \in Frames BY <1>3, <1>4 DEF Held, Frames
  <2> QED BY <2>1, RangeFacts
<1> HIDE DEF q
<1>6. d.mac = q /\ \A x \in ConnFields \ {"mac"} : d[x] = c[x] BY DEF Conn, ConnFields
<1> HIDE DEF d
<1>7. /\ d.queue = c.queue /\ d.recent = c.recent /\ d.seqno = c.seqno /\ d.eseqno = c.eseqno
      /\ d.tx = c.tx /\ d.max = c.max /\ d.nbrs = c.nbrs /\ d.parent = c.parent /\ d.current = c.current
  BY <1>6 DEF ConnFields
<1>8. Held(n, K[n], d) BY <1>3, <1>4, <1>5, <1>6, <1>7 DEF Held
<1>9. Firm(c) => Firm(d) BY <1>3, <1>5, <1>6, <1>7 DEF Firm, Leads
<1>10. M = [m \in Motes |-> M[m]] /\ M[n] = d /\ \A m \in Motes \ {n} : M[m] = N[m]
  BY DEF AckRight
<1> HIDE DEF M
<1>11. \A m \in Motes : M[m].seqno = N[m].seqno /\ \A p : Leads(M[m], p) <=> Leads(N[m], p)
  BY <1>7, <1>10 DEF Leads
<1>12. \A m \in Motes : Held(m, K[m], M[m]) BY <1>8, <1>10 DEF AckRight
<1>13. \A m \in Motes \ E : Firm(M[m]) BY <1>9, <1>10 DEF AckRight
<1>14. ASSUME NEW m \in Motes, NEW g \in Range(M[m].mac), g.type = "ACK", g.to # m
       PROVE  /\ g.id <= M[g.to].seqno
              /\ "DROPPED" \notin g.flags /\ g.id = M[g.to].seqno /\ g.to \notin E
                   => \E p : Leads(M[g.to], p) /\ Fine(K[m], p)
  <2>1. Held(m, K[m], M[m]) BY <1>12
  <2>2. g.to \in Motes
    <3>1. g \in AckFrames BY <1>14, <2>1, FramesAre
    <3> QED BY <3>1 DEF AckFrames
  <2>3. CASE g \in Range(N[m].mac)
    <3>1. /\ g.id <= N[g.to].seqno
          /\ "DROPPED" \notin g.flags /\ g.id = N[g.to].seqno /\ g.to \notin E
               => \E p : Leads(N[g.to], p) /\ Fine(K[m], p)
      BY <1>14, <2>3 DEF AckRight
    <3> QED BY <1>11, <2>2, <3>1
  <2>4. CASE g \notin Range(N[m].mac)
    <3>1. m = n BY <1>10, <1>14, <2>4
    <3>2. g = a BY <1>5, <1>6, <1>10, <1>14, <2>4, <3>1
    <3> QED BY <1>3, <1>11, <1>14, <2>2, <3>1, <3>2
  <2> QED BY <2>3, <2>4
<1>15. AckRight(M, K, E) BY <1>10, <1>12, <1>13, <1>14 DEF AckRight
<1> QED BY <1>1, <1>2, <1>7, <1>8, <1>15 DEF M

LEMMA RightOn ==
  ASSUME NEW N, N = [m \in Motes |-> N[m]], NEW K, NEW E, NEW n \in Motes, NEW c,
         AckRight([N EXCEPT ![n] = c], K, E), NEW d, Handled(n, K[n], c, d), SameNumber(c, d)
  PROVE  AckRight([N EXCEPT ![n] = d], K, E)
<1> DEFINE M == [N EXCEPT ![n] = c]
<1>1. M[n] = c /\ [M EXCEPT ![n] = d] = [N EXCEPT ![n] = d] OBVIOUS
<1>2. AckRight(M, K, E) OBVIOUS
<1> HIDE DEF M
<1>3. Handled(n, K[n], M[n], d) BY <1>1
<1>4. E = IF d.seqno # M[n].seqno THEN E \ {n} ELSE E BY <1>1 DEF SameNumber
<1>5. \A m \in Motes : K[m] \subseteq K[m] OBVIOUS
<1>6. AckRight([M EXCEPT ![n] = d], K, E) BY <1>2, <1>3, <1>4, <1>5, RightHandled
<1> QED BY <1>1, <1>6

\* What an acknowledgement of n says that is for another node.
Owed(N, K, E, n, id, from, flags) ==
  from # n => /\ id <= N[from].seqno
              /\ "DROPPED" \notin flags /\ id = N[from].seqno /\ from \notin E
                   => \E p : Leads(N[from], p) /\ Fine(K[n], p)

LEMMA RightAckOn ==
  ASSUME NEW N, N = [m \in Motes |-> N[m]], NEW K, NEW E, NEW n \in Motes, NEW c, Conn(c),
         AckRight([N EXCEPT ![n] = c], K, E),
         NEW f, f.id \in Nat, NEW from \in Motes, NEW flags \in SUBSET {"DROPPED", "CONGESTED", "LIFETIME"},
         Owed(N, K, E, n, f.id, from, flags),
         NEW d, d = SendAck(c, f, from, flags)
  PROVE  /\ Conn(d) /\ AckRight([N EXCEPT ![n] = d], K, E)
         /\ Held(n, K[n], d) /\ SameNumber(c, d)
<1> DEFINE M == [N EXCEPT ![n] = c]
<1>1. /\ c = M[n] /\ [M EXCEPT ![n] = d] = [N EXCEPT ![n] = d]
      /\ from # n => M[from] = N[from]
  OBVIOUS
<1>2. AckRight(M, K, E) OBVIOUS
<1> HIDE DEF M
<1>3. from # n => /\ f.id <= M[from].seqno
                  /\ "DROPPED" \notin flags /\ f.id = M[from].seqno /\ from \notin E
                       => \E p : Leads(M[from], p) /\ Fine(K[n], p)
  BY <1>1 DEF Owed
<1>4. Conn(d) /\ AckRight([M EXCEPT ![n] = d], K, E) /\ Held(n, K[n], d) /\ d.seqno = c.seqno
  BY <1>1, <1>2, <1>3, RightAck
<1> QED BY <1>1, <1>4 DEF SameNumber

\* A data frame is received: what is said not to be dropped, the node has had.
LEMMA RightReceive ==
  ASSUME NEW N, NEW K, NEW E, AckRight(N, K, E), NEW L, \A m \in Motes : K[m] \subseteq L[m],
         NEW n \in Motes, NEW c, c = N[n], Conn(c), NEW f \in DataFrames, NEW from \in Motes,
         from # n => /\ f.id <= N[from].seqno
                     /\ f.id = N[from].seqno /\ from \notin E => Leads(N[from], f.packet),
         ~ Seen(c, f.packet) /\ (Delivers(c, f.packet) \/ (Forwards(c, f.packet) /\ HasRoom(c)))
           => Fine(L[n], f.packet)
  PROVE  LET d == ReceiveData(c, f, from) IN AckRight([N EXCEPT ![n] = d], L, E) /\ SameNumber(c, d)
<1> DEFINE p == f.packet
           d == ReceiveData(c, f, from)
           g == [p EXCEPT !.ttl = @ - 1]
           e == [c EXCEPT !.queue = Append(c.queue, g)]
           r == AddToRecent(c, p)
           s == AddToRecent(e, p)
           Some == SUBSET {"DROPPED", "CONGESTED", "LIFETIME"}
           Right(x) == Conn(x) /\ Held(n, L[n], x) /\ AckRight([N EXCEPT ![n] = x], L, E) /\ SameNumber(c, x)
<1>1. N = [m \in Motes |-> N[m]] /\ Held(n, K[n], c) BY DEF AckRight
<1>2. f.id \in Nat /\ p \in Packets BY DEF DataFrames
<1>3. Right(c)
  <2>1. Held(n, L[n], c)
    <3>1. K[n] \subseteq L[n] OBVIOUS
    <3> QED BY <1>1, <3>1, HeldMore
  <2>2. Handled(n, L[n], N[n], c) BY <2>1, HandledAside DEF Held
  <2>3. E = IF c.seqno # N[n].seqno THEN E \ {n} ELSE E OBVIOUS
  <2>4. AckRight([N EXCEPT ![n] = c], L, E) BY <2>2, <2>3, RightHandled
  <2> QED BY <2>1, <2>4 DEF SameNumber
<1>4. ASSUME NEW x, Right(x), NEW y, Handled(n, L[n], x, y), Conn(y), y.seqno = x.seqno PROVE Right(y)
  <2>1. SameNumber(x, y) BY <1>4 DEF SameNumber
  <2>2. AckRight([N EXCEPT ![n] = y], L, E) BY <1>1, <1>4, <2>1, RightOn
  <2> QED BY <1>4, <2>2 DEF Handled, SameNumber
<1>5. ASSUME NEW x, Right(x), NEW flags \in Some, "DROPPED" \notin flags => Fine(L[n], p)
      PROVE  Right(SendAck(x, f, from, flags))
  <2> DEFINE y == SendAck(x, f, from, flags)
  <2>1. Owed(N, L, E, n, f.id, from, flags) BY <1>5 DEF Owed
  <2>2. Conn(x) /\ AckRight([N EXCEPT ![n] = x], L, E) BY <1>5
  <2>3. y = SendAck(x, f, from, flags) OBVIOUS
  <2> HIDE DEF y, Right
  <2>4. Conn(y) /\ AckRight([N EXCEPT ![n] = y], L, E) /\ Held(n, L[n], y) /\ SameNumber(x, y)
    BY <1>1, <1>2, <2>1, <2>2, <2>3, RightAckOn
  <2>5. Right(y) BY <1>5, <2>4 DEF Right, SameNumber
  <2> QED BY <2>5 DEF y
<1> HIDE DEF Right
<1>6. Congested(c) \in Some /\ Congested(c) \cup {"DROPPED", "LIFETIME"} \in Some /\ {"DROPPED", "CONGESTED"} \in Some
      /\ {} \in Some /\ "DROPPED" \notin Congested(c)
  BY DEF Congested
<1>7. CASE Seen(c, p)
  <2>1. d = SendAck(c, f, from, Congested(c)) BY <1>7 DEF ReceiveData
  <2>2. Fine(L[n], p)
    <3>1. Named(p) \in Range(c.recent) BY <1>7 DEF Seen, Named, Range
    <3>2. Range(c.recent) \subseteq L[n] BY <1>3 DEF Right, Held
    <3> QED BY <3>1, <3>2 DEF Fine
  <2>3. Right(d) BY <1>3, <1>5, <1>6, <2>1, <2>2
  <2> QED BY <2>3 DEF Right
<1>8. CASE ~ Seen(c, p) /\ Delivers(c, p)
  <2>1. d = SendAck(r, f, from, {}) BY <1>8 DEF ReceiveData
  <2>2. Fine(L[n], p) BY <1>8
  <2>3. Conn(r) /\ Handled(n, L[n], c, r) /\ r.seqno = c.seqno BY <1>2, <1>3, <2>2, RecentHandles DEF Right
  <2>4. Right(r) BY <1>3, <1>4, <2>3
  <2> HIDE DEF r
  <2>5. Right(d) BY <1>5, <1>6, <2>1, <2>2, <2>4
  <2> QED BY <2>5 DEF Right
<1>9. CASE ~ Seen(c, p) /\ ~ Delivers(c, p) /\ Forwards(c, p) /\ HasRoom(c)
  <2> DEFINE a == SendAck(s, f, from, Congested(c))
             t == SendQueued(a)
  <2>1. d = t BY <1>9 DEF ReceiveData
  <2>2. Fine(L[n], p) BY <1>9
  <2>3. g \in Packets /\ Fine(L[n], g)
    <3>1. g \in Packets /\ g.org = p.org /\ g.no = p.no /\ g.probe = p.probe
      <4> HIDE DEF p
      <4> QED BY <1>2 DEF Packets
    <3> HIDE DEF g, p
    <3> QED BY <2>2, <3>1 DEF Fine, Named
  <2>4. Conn(e) /\ Handled(n, L[n], c, e) /\ e.seqno = c.seqno
    <3>1. Conn(c) /\ Held(n, L[n], c) BY <1>3 DEF Right
    <3>2. e = [c EXCEPT !.queue = Append(c.queue, g)] OBVIOUS
    <3> HIDE DEF e, g
    <3> QED BY <2>3, <3>1, <3>2, GrownHandles
  <2>5. Right(e) BY <1>3, <1>4, <2>4
  <2> HIDE DEF e
  <2>6. Conn(s) /\ Handled(n, L[n], e, s) /\ s.seqno = e.seqno BY <1>2, <2>2, <2>5, RecentHandles DEF Right
  <2>7. Right(s) BY <1>4, <2>5, <2>6
  <2> HIDE DEF s
  <2>8. Right(a) BY <1>5, <1>6, <2>2, <2>7
  <2> HIDE DEF a
  <2>9. Handled(n, L[n], a, t) /\ t.seqno = a.seqno BY <2>8, SendQueuedHandles DEF Right
  <2> HIDE DEF t
  <2>10. SameNumber(a, t) /\ SameNumber(c, t) BY <2>8, <2>9 DEF Right, SameNumber
  <2>11. AckRight([N EXCEPT ![n] = t], L, E) BY <1>1, <2>8, <2>9, <2>10, RightOn DEF Right
  <2> QED BY <2>1, <2>10, <2>11
<1>10. CASE ~ Seen(c, p) /\ ~ Delivers(c, p) /\ Forwards(c, p) /\ ~ HasRoom(c)
  <2>1. d = SendAck(c, f, from, {"DROPPED", "CONGESTED"}) BY <1>10 DEF ReceiveData
  <2>2. Right(d) BY <1>3, <1>5, <1>6, <2>1
  <2> QED BY <2>2 DEF Right
<1>11. CASE ~ Seen(c, p) /\ ~ Delivers(c, p) /\ ~ Forwards(c, p)
  <2>1. d = SendAck(c, f, from, Congested(c) \cup {"DROPPED", "LIFETIME"}) \/ d = c
    BY <1>11 DEF ReceiveData
  <2>2. Right(SendAck(c, f, from, Congested(c) \cup {"DROPPED", "LIFETIME"})) BY <1>3, <1>5, <1>6
  <2> QED BY <1>3, <2>1, <2>2 DEF Right
<1> QED BY <1>7, <1>8, <1>9, <1>10, <1>11

LEMMA HeardHandles ==
  ASSUME NEW n \in Motes, NEW K, NEW c, Conn(c), Timed(c), Held(n, K, c), NEW f, f.rt \in Nat, NEW from
  PROVE  LET u == Heard(c, f, from)
         IN  Conn(u) /\ Timed(u) /\ Begun(c, u) /\ Handled(n, K, c, u) /\ Quiet(c, u) /\ u.seqno = c.seqno
<1> DEFINE u == Heard(c, f, from)
<1>1. CASE Known(c, from)
  <2> DEFINE w == WithRt(c, from, f.rt)
             x == UpdateRtmetric(w)
  <2>1. u = x BY <1>1 DEF Heard
  <2>2. \E rt \in Nat : w = WithRt(c, from, rt) OBVIOUS
  <2> HIDE DEF w
  <2>3. Kept(c, w) /\ Begun(c, x) BY <2>2, UpdateOfNews
  <2>4. Conn(w) /\ Timed(w) BY <2>3 DEF Kept
  <2>5. Conn(x) /\ Timed(x) BY <2>4, UpdateRtmetricKeeps
  <2>6. Handled(n, K, c, x) /\ Quiet(c, x) BY <2>2, NewsHandles
  <2>7. x.seqno = c.seqno
    <3>1. SameNumber(c, w) BY <2>2, NewsNumber
    <3>2. Held(n, K, w)
      <4>1. Handled(n, K, c, w) BY <2>2, NewsHandles
      <4> QED BY <4>1 DEF Handled
    <3>3. x.seqno = w.seqno BY <2>4, <3>2, UpdateRtmetricHandles
    <3> QED BY <3>1, <3>3 DEF SameNumber
  <2> HIDE DEF x, u
  <2> QED BY <2>1, <2>3, <2>5, <2>6, <2>7 DEF u
<1>2. CASE ~ Known(c, from)
  <2>1. u = c BY <1>2 DEF Heard
  <2>2. Handled(n, K, c, c) BY HandledAside DEF Held
  <2> QED BY <2>1, <2>2 DEF Quiet, Begun
<1> QED BY <1>1, <1>2

\* The frame f of another node is still for its first packet.
Meant(N, E, f, from) ==
  /\ f.id <= N[from].seqno
  /\ f.id = N[from].seqno /\ from \notin E => Leads(N[from], f.packet)

LEMMA RightArrival ==
  ASSUME NEW N, NEW K, NEW E, AckRight(N, K, E), NEW L, \A m \in Motes : K[m] \subseteq L[m],
         NEW n \in Motes, NEW c, c = N[n], Conn(c), Timed(c), c.seqno < IdMod - 1,
         NEW f \in Frames, f.rt \in Nat, f.to = n, NEW from \in Motes, from # n,
         f.type = "DATA" => Meant(N, E, f, from),
         f.type = "DATA" /\ Takes(c, f, from) => Fine(L[n], f.packet),
         NEW d, d = NodePacketReceived(c, f, from), NEW F, F = IF d.seqno # c.seqno THEN E \ {n} ELSE E
  PROVE  AckRight([N EXCEPT ![n] = d], L, F) /\ (f.type = "DATA" => SameNumber(c, d))
<1> DEFINE u == Heard(c, f, from)
           b == InBuffer(c, f, from)
           M == [N EXCEPT ![n] = u]
<1>1. d = IF b.frame.type = "DATA" THEN ReceiveData(u, b.frame, b.from) ELSE HandleAck(u, b.frame, b.from)
  BY DEF NodePacketReceived
<1>2. Held(n, K[n], c) /\ N = [m \in Motes |-> N[m]] BY DEF AckRight
<1>3. Conn(u) /\ Timed(u) /\ Begun(c, u) /\ Handled(n, K[n], c, u) /\ SameNumber(c, u)
  BY <1>2, HeardHandles DEF SameNumber
<1>4. /\ b = IF Overwritten(c, f, from) THEN [frame |-> Last(u.mac), from |-> n] ELSE [frame |-> f, from |-> from]
      /\ Overwritten(c, f, from) <=> ~ c.sending /\ u.sending
      /\ Takes(c, f, from) <=> /\ ~ f.packet.probe /\ ~ Overwritten(c, f, from) /\ ~ Seen(u, f.packet)
                               /\ Delivers(u, f.packet) \/ (Forwards(u, f.packet) /\ HasRoom(u))
  BY DEF InBuffer, Overwritten, Takes
<1> HIDE DEF u, b
<1>5. M[n] = u /\ (\A m \in Motes \ {n} : M[m] = N[m]) /\ \A x : [M EXCEPT ![n] = x] = [N EXCEPT ![n] = x]
  BY <1>2
<1>6. AckRight(M, K, E)
  <2>1. AckRight([N EXCEPT ![n] = c], K, E)
    <3>1. [N EXCEPT ![n] = c] = N BY <1>2
    <3> QED BY <3>1
  <2> QED BY <1>2, <1>3, <2>1, RightOn
<1> HIDE DEF M
<1>7. Held(n, K[n], u) /\ u.seqno = c.seqno BY <1>3 DEF Handled, SameNumber
<1>8. CASE b.frame.type = "DATA"
  <2> DEFINE g == b.frame
             x == ReceiveData(u, g, b.from)
  <2>1. d = x BY <1>1, <1>8
  <2>2. /\ g \in DataFrames /\ b.from \in Motes
        /\ b.from # n => Meant(M, E, g, b.from)
        /\ ~ Seen(u, g.packet) /\ (Delivers(u, g.packet) \/ (Forwards(u, g.packet) /\ HasRoom(u)))
             => Fine(L[n], g.packet)
    <3>1. CASE Overwritten(c, f, from)
      <4>1. g = Last(u.mac) /\ b.from = n BY <1>4, <3>1
      <4>2. u.mac # <<>> /\ u.mac \in Seq(Frames) BY <1>3, <1>4, <1>7, <3>1 DEF Begun, Held
      <4>3. g \in Range(u.mac) BY <4>1, <4>2, RangeFacts
      <4>4. g \in DataFrames /\ Fine(K[n], g.packet) BY <1>7, <1>8, <4>3, FramesAre
      <4>5. Fine(L[n], g.packet)
        <5>1. K[n] \subseteq L[n] OBVIOUS
        <5> QED BY <4>4, <5>1 DEF Fine
      <4> QED BY <4>1, <4>4, <4>5
    <3>2. CASE ~ Overwritten(c, f, from)
      <4>1. g = f /\ b.from = from BY <1>4, <3>2
      <4>2. f.type = "DATA" BY <1>8, <4>1
      <4>3. f \in DataFrames BY <4>2 DEF Frames, AckFrames
      <4>4. Meant(M, E, f, from)
        <5>1. Meant(N, E, f, from) BY <4>2
        <5>2. M[from] = N[from] BY <1>5
        <5> QED BY <5>1, <5>2 DEF Meant
      <4>5. ASSUME ~ Seen(u, f.packet), Delivers(u, f.packet) \/ (Forwards(u, f.packet) /\ HasRoom(u))
            PROVE  Fine(L[n], f.packet)
        <5>1. CASE f.packet.probe BY <5>1 DEF Fine
        <5>2. CASE ~ f.packet.probe
          <6>1. Takes(c, f, from) BY <1>4, <3>2, <4>5, <5>2
          <6> QED BY <4>2, <6>1
        <5> QED BY <5>1, <5>2
      <4> QED BY <4>1, <4>3, <4>4, <4>5
    <3> QED BY <3>1, <3>2
  <2>3. b.from # n => /\ g.id <= M[b.from].seqno
                      /\ g.id = M[b.from].seqno /\ b.from \notin E => Leads(M[b.from], g.packet)
    BY <2>2 DEF Meant
  <2> DEFINE from2 == b.from
  <2> HIDE DEF g
  <2>4. AckRight([M EXCEPT ![n] = x], L, E) /\ SameNumber(u, x)
    <3>1. u = M[n] BY <1>5
    <3>2. from2 \in Motes BY <2>2
    <3>3. x = ReceiveData(u, g, from2) OBVIOUS
    <3>4. from2 # n => /\ g.id <= M[from2].seqno
                       /\ g.id = M[from2].seqno /\ from2 \notin E => Leads(M[from2], g.packet)
      BY <2>3
    <3> HIDE DEF from2, x
    <3> QED BY <1>3, <1>6, <2>2, <3>1, <3>2, <3>3, <3>4, RightReceive
  <2> HIDE DEF x
  <2>5. d.seqno = c.seqno BY <1>7, <2>1, <2>4 DEF SameNumber
  <2>6. F = E BY <2>5
  <2> QED BY <1>5, <2>1, <2>4, <2>5, <2>6 DEF SameNumber
<1>9. CASE b.frame.type # "DATA"
  <2> DEFINE x == HandleAck(u, f, from)
  <2>1. b.frame = f /\ b.from = from
    <3>1. ~ Overwritten(c, f, from)
      <4> SUFFICES ASSUME Overwritten(c, f, from) PROVE FALSE OBVIOUS
      <4>1. b.frame = Last(u.mac) BY <1>4
      <4>2. Last(u.mac).type = "DATA" BY <1>3, <1>4 DEF Begun
      <4> QED BY <1>9, <4>1, <4>2
    <3> QED BY <1>4, <3>1
  <2>2. d = x /\ f.type # "DATA" BY <1>1, <1>9, <2>1
  <2>3. Held(n, L[n], u)
    <3>1. K[n] \subseteq L[n] OBVIOUS
    <3> QED BY <1>7, <3>1, HeldMore
  <2>4. u.seqno < IdMod - 1 BY <1>7
  <2>5. Handled(n, L[n], u, x) BY <1>3, <2>3, <2>4, HandleAckHandles
  <2> HIDE DEF x
  <2>6. Handled(n, L[n], M[n], d) /\ F = IF d.seqno # M[n].seqno THEN E \ {n} ELSE E
    BY <1>5, <1>7, <2>2, <2>5
  <2>7. AckRight([M EXCEPT ![n] = d], L, F) BY <1>6, <2>6, RightHandled
  <2> QED BY <1>5, <2>2, <2>7
<1> QED BY <1>8, <1>9

----------------------------------------------------------------------------
(* Collect: what is remembered of what is received                         *)

\* The recent packets r, with the packet p.
Remembered(r, p) ==
  IF p.probe THEN r
  ELSE IF Len(Append(r, Named(p))) > NumRecent THEN Tail(Append(r, Named(p))) ELSE Append(r, Named(p))

LEMMA SendQueuedQuiet ==
  ASSUME NEW c, Conn(c)
  PROVE  Quiet(c, SendQueued(c))
<1> DEFINE d == SendQueued(c)
<1>1. CASE c.sending \/ c.queue = <<>>
  <2>1. d = c BY <1>1 DEF SendQueued
  <2> QED BY <2>1 DEF Quiet
<1>2. CASE ~ c.sending /\ c.queue # <<>> /\ ~ Known(c, c.parent)
  <2> DEFINE e == [c EXCEPT !.announced = RtmetricMax]
  <2>1. d = e BY <1>2 DEF SendQueued
  <2>2. \A x \in ConnFields \ {"announced"} : e[x] = c[x] BY DEF Conn, ConnFields
  <2> HIDE DEF e
  <2>3. e.recent = c.recent /\ e.eseqno = c.eseqno /\ e.metric = c.metric BY <2>2 DEF ConnFields
  <2> QED BY <2>1, <2>3 DEF Quiet
<1>3. CASE ~ c.sending /\ c.queue # <<>> /\ Known(c, c.parent)
  <2> DEFINE r == Head(c.queue).rexmits
             e == [c EXCEPT !.sending = TRUE, !.current = c.parent, !.tx = 0, !.max = r]
             q == Append(e.mac, Data(e, Head(e.queue)))
             g == [e EXCEPT !.mac = q, !.timer = "not sent"]
  <2>1. d = SendPacket(e) BY <1>3 DEF SendQueued
  <2>2. SendPacket(e) = g BY DEF SendPacket
  <2> HIDE DEF r
  <2>3. /\ e = [x \in ConnFields |-> e[x]]
        /\ \A x \in ConnFields \ {"sending", "current", "tx", "max"} : e[x] = c[x]
    BY DEF Conn, ConnFields
  <2> HIDE DEF e, q
  <2>4. \A x \in ConnFields \ {"mac", "timer"} : g[x] = e[x] BY <2>3 DEF ConnFields
  <2> HIDE DEF g
  <2>5. g.recent = c.recent /\ g.eseqno = c.eseqno /\ g.metric = c.metric BY <2>3, <2>4 DEF ConnFields
  <2> QED BY <2>1, <2>2, <2>5 DEF Quiet
<1> QED BY <1>1, <1>2, <1>3

\* A packet that is taken is remembered, and nothing else is.
LEMMA ReceiveRemembers ==
  ASSUME NEW c, Conn(c), NEW f, NEW from
  PROVE  LET d == ReceiveData(c, f, from)
             p == f.packet
         IN  /\ d.eseqno = c.eseqno /\ (c.metric = 0 => d.metric = 0)
             /\ d.recent = IF ~ Seen(c, p) /\ (Delivers(c, p) \/ (Forwards(c, p) /\ HasRoom(c)))
                           THEN Remembered(c.recent, p) ELSE c.recent
<1> DEFINE p == f.packet
           d == ReceiveData(c, f, from)
           e == [c EXCEPT !.queue = Append(@, [p EXCEPT !.ttl = @ - 1])]
           Also(x, y) == Conn(y) /\ y.eseqno = x.eseqno /\ y.metric = x.metric
<1>1. ASSUME NEW x, Conn(x), NEW flags
      PROVE  LET a == SendAck(x, f, from, flags) IN Also(x, a) /\ a.recent = x.recent
  <2> DEFINE a == SendAck(x, f, from, flags)
  <2>1. Conn(a) /\ \A y \in ConnFields \ {"mac"} : a[y] = x[y] BY <1>1, SendAckKeeps
  <2> HIDE DEF a
  <2>2. a.eseqno = x.eseqno /\ a.metric = x.metric /\ a.recent = x.recent BY <2>1 DEF ConnFields
  <2> QED BY <2>1, <2>2 DEF a
<1>2. ASSUME NEW x, Conn(x)
      PROVE  LET a == AddToRecent(x, p) IN Also(x, a) /\ a.recent = Remembered(x.recent, p)
  <2> DEFINE a == AddToRecent(x, p)
  <2>1. Conn(a) /\ \A y \in ConnFields \ {"recent"} : a[y] = x[y] BY <1>2, AddToRecentKeeps
  <2>2. a.recent = Remembered(x.recent, p)
    <3> DEFINE r == Remembered(x.recent, p)
               g == [x EXCEPT !.recent = r]
    <3>1. CASE p.probe BY <3>1 DEF AddToRecent, Remembered
    <3>2. CASE ~ p.probe
      <4>1. a = g BY <3>2 DEF AddToRecent, Remembered, Named
      <4> HIDE DEF r
      <4>2. g.recent = r BY <1>2 DEF Conn, ConnFields
      <4> HIDE DEF a, g
      <4> QED BY <4>1, <4>2 DEF a, r
    <3> QED BY <3>1, <3>2
  <2> HIDE DEF a
  <2>3. a.eseqno = x.eseqno /\ a.metric = x.metric BY <2>1 DEF ConnFields
  <2> QED BY <2>1, <2>2, <2>3 DEF a
<1>3. Conn(e) /\ e.eseqno = c.eseqno /\ e.metric = c.metric /\ e.recent = c.recent
  <2> DEFINE q == Append(c.queue, [p EXCEPT !.ttl = @ - 1])
  <2>1. e = [c EXCEPT !.queue = q] OBVIOUS
  <2> HIDE DEF q
  <2>2. e = [x \in ConnFields |-> e[x]] /\ \A x \in ConnFields \ {"queue"} : e[x] = c[x]
    BY <2>1 DEF Conn, ConnFields
  <2> HIDE DEF e
  <2>3. Conn(e) BY <2>2 DEF Conn, ConnFields
  <2> QED BY <2>2, <2>3 DEF ConnFields
<1> HIDE DEF e
<1>4. CASE Seen(c, p)
  <2>1. d = SendAck(c, f, from, Congested(c)) BY <1>4 DEF ReceiveData
  <2> QED BY <1>1, <1>4, <2>1
<1>5. CASE ~ Seen(c, p) /\ Delivers(c, p)
  <2> DEFINE r == AddToRecent(c, p)
             a == SendAck(r, f, from, {})
  <2>1. d = a BY <1>5 DEF ReceiveData
  <2>2. Also(c, r) /\ r.recent = Remembered(c.recent, p) BY <1>2
  <2> HIDE DEF r
  <2>3. Also(r, a) /\ a.recent = r.recent BY <1>1, <2>2
  <2> HIDE DEF a
  <2> QED BY <1>5, <2>1, <2>2, <2>3
<1>6. CASE ~ Seen(c, p) /\ ~ Delivers(c, p) /\ Forwards(c, p) /\ HasRoom(c)
  <2> DEFINE r == AddToRecent(e, p)
             a == SendAck(r, f, from, Congested(c))
             s == SendQueued(a)
  <2>1. d = s BY <1>6 DEF ReceiveData, e
  <2>2. Also(e, r) /\ r.recent = Remembered(e.recent, p) BY <1>2, <1>3
  <2> HIDE DEF r
  <2>3. Also(r, a) /\ a.recent = r.recent BY <1>1, <2>2
  <2> HIDE DEF a
  <2>4. Quiet(a, s) BY <2>3, SendQueuedQuiet
  <2> HIDE DEF s, d
  <2>5. d.recent = Remembered(c.recent, p) BY <1>3, <2>1, <2>2, <2>3, <2>4 DEF Quiet
  <2>6. d.eseqno = c.eseqno BY <1>3, <2>1, <2>2, <2>3, <2>4 DEF Quiet
  <2>7. c.metric = 0 => d.metric = 0 BY <1>3, <2>1, <2>2, <2>3, <2>4 DEF Quiet
  <2> QED BY <1>6, <2>5, <2>6, <2>7 DEF d
<1>7. CASE ~ Seen(c, p) /\ ~ Delivers(c, p) /\ ~ (Forwards(c, p) /\ HasRoom(c))
  <2>1. d = c \/ \E flags : d = SendAck(c, f, from, flags) BY <1>7 DEF ReceiveData
  <2> HIDE DEF d
  <2>2. d.eseqno = c.eseqno /\ d.metric = c.metric /\ d.recent = c.recent BY <1>1, <2>1
  <2> QED BY <1>7, <2>2 DEF d
<1> QED BY <1>4, <1>5, <1>6, <1>7

\* The node with metric 0 takes what it has not seen.
LEMMA ArrivalRemembers ==
  ASSUME NEW n \in Motes, NEW K, NEW c, Conn(c), Timed(c), Held(n, K, c), c.seqno < IdMod - 1,
         NEW f, f.rt \in Nat, NEW from
  PROVE  LET d == NodePacketReceived(c, f, from)
         IN  /\ d.eseqno = c.eseqno
             /\ c.metric = 0 =>
                  /\ d.metric = 0
                  /\ d.recent = IF f.type = "DATA" /\ ~ Seen(c, f.packet)
                                THEN Remembered(c.recent, f.packet) ELSE c.recent
<1> DEFINE u == Heard(c, f, from)
           b == InBuffer(c, f, from)
           d == NodePacketReceived(c, f, from)
<1>1. d = IF b.frame.type = "DATA" THEN ReceiveData(u, b.frame, b.from) ELSE HandleAck(u, b.frame, b.from)
  BY DEF NodePacketReceived
<1>2. Conn(u) /\ Timed(u) /\ Begun(c, u) /\ Handled(n, K, c, u) /\ Quiet(c, u) /\ u.seqno = c.seqno
  BY HeardHandles
<1>3. b = IF ~ c.sending /\ u.sending THEN [frame |-> Last(u.mac), from |-> f.to] ELSE [frame |-> f, from |-> from]
  BY DEF InBuffer, Overwritten
<1>4. c.metric = 0 => u.sending = c.sending
  <2> SUFFICES ASSUME c.metric = 0 PROVE u.sending = c.sending OBVIOUS
  <2>1. CASE Known(c, from)
    <3> DEFINE w == With(c, from, f.rt, c.nbrs[from].le)
               nbrs == [x \in DOMAIN c.nbrs \cup {from} |->
                          IF x = from THEN [rt |-> f.rt, le |-> c.nbrs[from].le] ELSE c.nbrs[x]]
    <3>1. w = WithRt(c, from, f.rt) BY <2>1 DEF WithRt
    <3>2. w = [c EXCEPT !.nbrs = nbrs] BY DEF With
    <3> HIDE DEF nbrs, w
    <3>3. \A x \in ConnFields \ {"nbrs"} : w[x] = c[x] BY <3>2 DEF Conn, ConnFields
    <3>4. w.metric = 0 /\ w.sending = c.sending BY <3>3 DEF ConnFields
    <3>5. u = UpdateRtmetric(w) BY <2>1, <3>1 DEF Heard
    <3>6. u = w BY <3>4, <3>5 DEF UpdateRtmetric
    <3> QED BY <3>4, <3>6
  <2>2. CASE ~ Known(c, from) BY <2>2 DEF Heard
  <2> QED BY <2>1, <2>2
<1> HIDE DEF u, b
<1>5. CASE b.frame.type = "DATA"
  <2> DEFINE g == b.frame
             x == ReceiveData(u, g, b.from)
  <2>1. d = x BY <1>1, <1>5
  <2> DEFINE y == b.from
  <2>2. /\ x.eseqno = u.eseqno /\ (u.metric = 0 => x.metric = 0)
        /\ x.recent = IF ~ Seen(u, g.packet) /\ (Delivers(u, g.packet) \/ (Forwards(u, g.packet) /\ HasRoom(u)))
                      THEN Remembered(u.recent, g.packet) ELSE u.recent
    <3>1. x = ReceiveData(u, g, y) OBVIOUS
    <3> HIDE DEF g, y, x
    <3> QED BY <1>2, <3>1, ReceiveRemembers
  <2> HIDE DEF x, y, d
  <2>3. d.eseqno = c.eseqno BY <1>2, <2>1, <2>2 DEF Quiet
  <2>4. ASSUME c.metric = 0
        PROVE  /\ d.metric = 0
               /\ d.recent = IF f.type = "DATA" /\ ~ Seen(c, f.packet)
                             THEN Remembered(c.recent, f.packet) ELSE c.recent
    <3>1. g = f BY <1>3, <1>4, <2>4
    <3>2. u.metric = 0 /\ u.recent = c.recent BY <1>2, <2>4 DEF Quiet
    <3>3. Seen(u, g.packet) <=> Seen(c, f.packet) BY <3>1, <3>2 DEF Seen
    <3>4. Delivers(u, g.packet) BY <3>2 DEF Delivers
    <3> QED BY <1>5, <2>1, <2>2, <3>1, <3>2, <3>3, <3>4
  <2> QED BY <2>3, <2>4 DEF d
<1>6. CASE b.frame.type # "DATA"
  <2> DEFINE x == HandleAck(u, f, from)
  <2>1. b.frame = f /\ b.from = from
    <3>1. ~ (~ c.sending /\ u.sending)
      <4> SUFFICES ASSUME ~ c.sending, u.sending PROVE FALSE OBVIOUS
      <4>1. b.frame = Last(u.mac) BY <1>3
      <4>2. Last(u.mac).type = "DATA" BY <1>2 DEF Begun
      <4> QED BY <1>6, <4>1, <4>2
    <3> QED BY <1>3, <3>1
  <2>2. d = x /\ f.type # "DATA" BY <1>1, <1>6, <2>1
  <2>3. Held(n, K, u) BY <1>2 DEF Handled
  <2>4. Quiet(u, x) BY <1>2, <2>3, HandleAckHandles
  <2> HIDE DEF x, d
  <2>5. d.eseqno = c.eseqno /\ (c.metric = 0 => d.metric = 0 /\ d.recent = c.recent)
    BY <1>2, <2>2, <2>4 DEF Quiet
  <2> QED BY <2>2, <2>5 DEF d
<1> QED BY <1>5, <1>6

----------------------------------------------------------------------------
(* Collect: the acknowledgements that are underway                         *)

\* The packets that were sent, and those that m has had: its own, and what it
\* took.
Made(sent) == {x \in PacketNames : x.no \in 0 .. sent[x.org] - 1}
Had(T, sent) == [m \in Motes |-> {x \in Made(sent) : <<m, x.org, x.no>> \in T \/ x.org = m}]

\* No node has come to its last number.
Fresh == \A n \in Motes : node[n].seqno < IdMod - 1

AckInv ==
  /\ CollectInv
  /\ AckRight(node, Had(took, bounds.sent), expired)
  /\ bounds.sent \in [Motes -> Nat]
  /\ \A n \in Motes : node[n].eseqno <= bounds.sent[n]

LEMMA HadMore ==
  ASSUME NEW T, NEW U, T \subseteq U, NEW s \in [Motes -> Nat], NEW r \in [Motes -> Nat],
         \A n \in Motes : s[n] <= r[n]
  PROVE  /\ Made(s) \subseteq Made(r)
         /\ \A m \in Motes : Had(T, s)[m] \subseteq Had(U, r)[m]
<1>1. ASSUME NEW x \in Made(s) PROVE x \in Made(r)
  <2>1. x \in PacketNames /\ x.no \in 0 .. s[x.org] - 1 BY DEF Made
  <2>2. x.org \in Motes BY <2>1 DEF PacketNames
  <2>3. x.no \in 0 .. r[x.org] - 1 BY <2>1, <2>2
  <2> QED BY <2>1, <2>3 DEF Made
<1> QED BY <1>1 DEF Had

LEMMA AckReady ==
  ASSUME AckInv, NEW n \in Motes
  PROVE  /\ Conn(node[n]) /\ Timed(node[n])
         /\ Held(n, Had(took, bounds.sent)[n], node[n])
         /\ node[n].seqno \in Nat /\ node[n].eseqno \in Nat /\ node[n].tx \in Int /\ node[n].max \in Int
         /\ node = [m \in Motes |-> node[m]]
         /\ node[n].mac # <<>> =>
              LET f == Head(node[n].mac) IN f \in Range(node[n].mac) /\ f \in Frames /\ f.to \in Motes /\ f.rt \in Nat
<1>1. Conn(node[n]) /\ Timed(node[n]) /\ node = [m \in Motes |-> node[m]] BY DEF AckInv, CollectInv, Sound
<1>2. Held(n, Had(took, bounds.sent)[n], node[n]) BY DEF AckInv, AckRight
<1> DEFINE f == Head(node[n].mac)
<1>3. ASSUME node[n].mac # <<>> PROVE f \in Range(node[n].mac) /\ f \in Frames /\ f.to \in Motes /\ f.rt \in Nat
  <2>1. f \in Range(node[n].mac) BY <1>2, <1>3, RangeFacts DEF Held
  <2>2. f \in Frames BY <1>2, <2>1, FramesAre
  <2>3. Frame(f) BY <1>1, <1>3, FramedFacts DEF Conn
  <2> QED BY <2>1, <2>2, <2>3 DEF Frames, DataFrames, AckFrames, Frame
<1> QED BY <1>1, <1>2, <1>3 DEF Held

\* Nothing is taken, nor remembered by a node with metric 0.
Calm ==
  /\ took' = took
  /\ \A m \in Motes : node[m].metric = 0 => node'[m].metric = 0 /\ node'[m].recent = node[m].recent

\* A step of one node that makes no acknowledgement.
LEMMA AckStep ==
  ASSUME AckInv, CollectInv', NEW n \in Motes, NEW d,
         Handled(n, Had(took, bounds.sent)[n], node[n], d), Quiet(node[n], d),
         node' = [node EXCEPT ![n] = d],
         expired' = IF d.seqno # node[n].seqno THEN expired \ {n} ELSE expired,
         took' = took, bounds'.sent = bounds.sent
  PROVE  AckInv' /\ Calm
<1> DEFINE K == Had(took, bounds.sent)
<1>1. AckRight(node, K, expired) /\ \A m \in Motes : K[m] \subseteq K[m] BY DEF AckInv
<1>2. Handled(n, K[n], node[n], d) OBVIOUS
<1>3. Had(took', bounds'.sent) = K OBVIOUS
<1> HIDE DEF K
<1>4. AckRight(node', K, expired') BY <1>1, <1>2, RightHandled
<1>5. /\ \A m \in Motes : node'[m].eseqno = node[m].eseqno
      /\ Calm
  BY AckReady DEF Quiet, Calm
<1>6. bounds.sent \in [Motes -> Nat] /\ \A m \in Motes : node[m].eseqno <= bounds.sent[m] BY DEF AckInv
<1>7. bounds'.sent \in [Motes -> Nat] /\ \A m \in Motes : node'[m].eseqno <= bounds'.sent[m] BY <1>5, <1>6
<1> QED BY <1>3, <1>4, <1>5, <1>7 DEF AckInv

LEMMA AckInit == CollectInit => AckInv
<1> SUFFICES ASSUME CollectInit PROVE AckInv OBVIOUS
<1> DEFINE K == Had(took, bounds.sent)
<1>1. node = [n \in Motes |-> Blank(n)] /\ bounds.sent = [n \in Motes |-> 0] BY DEF CollectInit
<1>2. ASSUME NEW n \in Motes
      PROVE  /\ node[n].nbrs = [m \in {} |-> 0] /\ node[n].parent = NoNode /\ node[n].current = NoNode
             /\ node[n].queue = <<>> /\ node[n].recent = <<>> /\ node[n].mac = <<>>
             /\ node[n].seqno = 0 /\ node[n].eseqno = 0 /\ node[n].tx = 0 /\ node[n].max = 0
  BY <1>1 DEF Blank
<1> HIDE DEF K
<1>3. <<>> \in Seq(Packets) /\ <<>> \in Seq(PacketNames) /\ <<>> \in Seq(Frames) OBVIOUS
<1>4. Range(<<>>) = {} BY DEF Range
<1>5. \A n \in Motes : Held(n, K[n], node[n]) /\ Firm(node[n])
  <2> TAKE n \in Motes
  <2>1. n \notin DOMAIN node[n].nbrs /\ node[n].parent # n /\ node[n].current # n BY <1>2, CollectAssumption
  <2>2. Range(node[n].queue) = {} /\ Range(node[n].recent) = {} /\ Range(node[n].mac) = {} BY <1>2, <1>4
  <2>3. node[n].queue \in Seq(Packets) /\ node[n].recent \in Seq(PacketNames) /\ node[n].mac \in Seq(Frames)
    BY <1>2, <1>3, Zenon
  <2>4. node[n].seqno \in Nat /\ node[n].eseqno \in Nat /\ node[n].tx \in Int /\ node[n].max \in Int BY <1>2
  <2> QED BY <2>1, <2>2, <2>3, <2>4 DEF Held, Firm
<1>6. AckRight(node, K, expired)
  <2>1. node = [n \in Motes |-> node[n]] BY <1>1
  <2>2. \A m \in Motes : Range(node[m].mac) = {} BY <1>2, <1>4
  <2> QED BY <1>5, <2>1, <2>2 DEF AckRight
<1>7. bounds.sent \in [Motes -> Nat] /\ \A n \in Motes : node[n].eseqno <= bounds.sent[n] BY <1>1, <1>2
<1> QED BY <1>6, <1>7, CollectInitSound DEF AckInv, K

LEMMA AnnounceAcks ==
  ASSUME AckInv, NEW m \in Motes, NEW n \in Motes, Announce(m, n)
  PROVE  AckInv' /\ Calm
<1> DEFINE c == node[n]
           K == Had(took, bounds.sent)[n]
           rt == node[m].announced
           le == IF Known(c, m) THEN c.nbrs[m].le ELSE "none"
           w == With(c, m, rt, le)
           d == UpdateRtmetric(w)
<1>1. Step(n, d) /\ m # n /\ took' = took /\ bounds'.sent = bounds.sent
  <2>1. bounds' = [bounds EXCEPT !.announced[n] = @ + 1] BY DEF Announce
  <2>2. bounds'.sent = bounds.sent BY <2>1
  <2> QED BY <2>2 DEF Announce
<1>2. CollectInv' BY AnnounceKeeps DEF AckInv
<1>3. Conn(c) /\ Held(n, K, c) BY AckReady
<1>4. rt \in Nat /\ le \in {"none", "good", "bad"}
  <2>1. Conn(node[m]) BY AckReady
  <2> QED BY <1>3, <2>1 DEF Conn, Neighborhood, Known
<1> HIDE DEF K, rt, le
<1>5. Conn(w) /\ DOMAIN w.nbrs = DOMAIN c.nbrs \cup {m} /\ \A x \in ConnFields \ {"nbrs"} : w[x] = c[x]
  <2>1. w = With(c, m, rt, le) OBVIOUS
  <2> HIDE DEF w, c
  <2>2. Conn(w) /\ DOMAIN w.nbrs = DOMAIN c.nbrs \cup {m} BY <1>3, <1>4, <2>1, WithKeeps
  <2>3. \A x \in ConnFields \ {"nbrs"} : w[x] = c[x]
    <3> DEFINE nbrs == [x \in DOMAIN c.nbrs \cup {m} |-> IF x = m THEN [rt |-> rt, le |-> le] ELSE c.nbrs[x]]
    <3>1. w = [c EXCEPT !.nbrs = nbrs] BY <2>1 DEF With
    <3> HIDE DEF nbrs
    <3> QED BY <1>3, <3>1 DEF Conn, ConnFields
  <2> QED BY <2>2, <2>3
<1> HIDE DEF w
<1>6. /\ w.queue = c.queue /\ w.recent = c.recent /\ w.mac = c.mac /\ w.seqno = c.seqno /\ w.eseqno = c.eseqno
      /\ w.tx = c.tx /\ w.max = c.max /\ w.parent = c.parent /\ w.current = c.current
  BY <1>5 DEF ConnFields
<1>7. Handled(n, K, c, w)
  <2> HIDE DEF c
  <2> QED BY <1>1, <1>3, <1>5, <1>6, HandledAside DEF Held
<1>8. Held(n, K, w) BY <1>7 DEF Handled
<1>9. Handled(n, K, w, d) /\ Quiet(w, d) BY <1>5, <1>8, UpdateRtmetricHandles
<1> HIDE DEF d
<1>10. c.seqno \in Nat BY AckReady
<1>11. Handled(n, K, c, d) BY <1>7, <1>9, <1>10, HandledOn
<1>12. Quiet(c, d)
  <2>1. w.metric = c.metric BY <1>5 DEF ConnFields
  <2> QED BY <1>6, <1>9, <2>1 DEF Quiet
<1> QED BY <1>1, <1>2, <1>11, <1>12, AckStep DEF K, Step, Numbered

\* The neighbor is the parent while the probe is sent; nothing of the node is
\* underway with its number, unless something expired.
LEMMA ProbeAcks ==
  ASSUME AckInv, NEW n \in Motes, NEW m \in Motes, Probe(n, m)
  PROVE  AckInv' /\ Calm
<1> DEFINE c == node[n]
           K == Had(took, bounds.sent)[n]
           no == (c.eseqno - 1) % IdMod
           dummy == [org |-> n, no |-> no, ttl |-> 1, rexmits |-> Rexmits, probe |-> TRUE]
           e == [c EXCEPT !.parent = m, !.queue = <<dummy>>]
           s == SendQueued(e)
           d == [s EXCEPT !.parent = c.parent]
<1>1. Step(n, d) /\ Known(c, m) /\ c.queue = <<>> /\ took' = took /\ bounds'.sent = bounds.sent
  <2>1. bounds' = [bounds EXCEPT !.probes[n] = @ + 1, !.used = @ + 1] BY DEF Probe
  <2>2. bounds'.sent = bounds.sent BY <2>1
  <2> QED BY <2>2 DEF Probe
<1>2. CollectInv' BY ProbeKeeps DEF AckInv
<1>3. Conn(c) /\ Held(n, K, c) /\ c.seqno \in Nat BY AckReady
<1>4. dummy \in Packets /\ Fine(K, dummy)
  <2>1. c.eseqno - 1 \in Int BY <1>3 DEF Held
  <2>2. no \in Int
    <3> DEFINE k == c.eseqno - 1
    <3>1. k \in Int /\ no = k % IdMod BY <2>1
    <3> HIDE DEF k, no
    <3> QED BY <3>1, CollectAssumption
  <2> HIDE DEF no
  <2> QED BY <2>2, CollectAssumption DEF Packets, Fine
<1> HIDE DEF dummy, K
<1> DEFINE a == [c EXCEPT !.parent = m]
           g == [a EXCEPT !.queue = Append(a.queue, dummy)]
<1>5. a = [x \in ConnFields |-> a[x]] /\ a.parent = m /\ \A x \in ConnFields \ {"parent"} : a[x] = c[x]
  BY <1>3 DEF Conn, ConnFields
<1>6. e = g
  <2>1. Append(a.queue, dummy) = <<dummy>>
    <3>1. a.queue = <<>> BY <1>1, <1>5 DEF ConnFields
    <3> HIDE DEF a
    <3> QED BY <3>1
  <2> QED BY <2>1
<1> HIDE DEF a
<1>7. /\ a.queue = c.queue /\ a.recent = c.recent /\ a.mac = c.mac /\ a.seqno = c.seqno /\ a.eseqno = c.eseqno
      /\ a.tx = c.tx /\ a.max = c.max /\ a.nbrs = c.nbrs /\ a.current = c.current /\ a.metric = c.metric
  BY <1>5 DEF ConnFields
<1>8. Conn(a) BY <1>3, <1>5 DEF Conn, ConnFields
<1>9. m # n BY <1>1, <1>3 DEF Held, Known
<1>10. Handled(n, K, c, a)
  <2> HIDE DEF c
  <2> QED BY <1>3, <1>5, <1>7, <1>9, HandledAside DEF Held
<1>11. Held(n, K, a) BY <1>10 DEF Handled
<1>12. Conn(g) /\ Handled(n, K, a, g) /\ Quiet(a, g)
  <2>1. g = [a EXCEPT !.queue = Append(a.queue, dummy)] OBVIOUS
  <2> HIDE DEF g
  <2> QED BY <1>4, <1>8, <1>11, <2>1, GrownHandles
<1> HIDE DEF g
<1>13. s = SendQueued(g) BY <1>6
<1> HIDE DEF e, s
<1>14. Held(n, K, g) BY <1>12 DEF Handled
<1>15. Handled(n, K, g, s) /\ Quiet(g, s) BY <1>12, <1>13, <1>14, SendQueuedHandles
<1>16. Conn(s)
  <2>1. Conn(g) /\ Timed(g)
    <3>1. g.sending = c.sending /\ g.timer = c.timer
      <4>1. \A x \in ConnFields \ {"queue"} : g[x] = a[x] BY <1>8 DEF g, Conn, ConnFields
      <4> QED BY <1>5, <4>1 DEF ConnFields
    <3>2. Timed(c) BY AckReady
    <3> QED BY <1>12, <3>1, <3>2 DEF Timed
  <2> QED BY <1>13, <2>1, SendQueuedKeeps
<1>17. d = [x \in ConnFields |-> d[x]] /\ d.parent = c.parent /\ \A x \in ConnFields \ {"parent"} : d[x] = s[x]
  BY <1>16 DEF Conn, ConnFields
<1> HIDE DEF d
<1>18. /\ d.queue = s.queue /\ d.recent = s.recent /\ d.mac = s.mac /\ d.seqno = s.seqno /\ d.eseqno = s.eseqno
       /\ d.tx = s.tx /\ d.max = s.max /\ d.nbrs = s.nbrs /\ d.current = s.current /\ d.metric = s.metric
  BY <1>17 DEF ConnFields
<1>19. Held(n, K, s) BY <1>15 DEF Handled
<1>20. c.parent # n BY <1>3 DEF Held
<1>21. Handled(n, K, s, d) BY <1>17, <1>18, <1>19, <1>20, HandledAside DEF Held
<1>22. a.seqno \in Nat BY <1>11 DEF Held
<1>23. Handled(n, K, c, g)
  <2> HIDE DEF c
  <2> QED BY <1>3, <1>10, <1>12, HandledOn
<1>24. Handled(n, K, c, s)
  <2> HIDE DEF c
  <2> QED BY <1>3, <1>15, <1>23, HandledOn
<1>25. Handled(n, K, c, d)
  <2> HIDE DEF c
  <2> QED BY <1>3, <1>21, <1>24, HandledOn
<1>26. Quiet(c, d) BY <1>7, <1>12, <1>15, <1>18 DEF Quiet
<1> QED BY <1>1, <1>2, <1>25, <1>26, AckStep DEF K, Step, Numbered

LEMMA ReportAcks ==
  ASSUME AckInv, Fresh, NEW n \in Motes, Report(n)
  PROVE  AckInv' /\ Calm
<1> DEFINE c == node[n]
           K == Had(took, bounds.sent)[n]
           e == [c EXCEPT !.mac = Tail(@)]
           f == Head(c.mac)
           tries == f.tries
           d == NodePacketSent(e, tries)
<1>1. c.mac # <<>> /\ f.type = "DATA" /\ Step(n, d) /\ took' = took /\ bounds'.sent = bounds.sent BY DEF Report
<1>2. CollectInv' BY ReportKeeps DEF AckInv
<1>3. Conn(c) /\ Held(n, K, c) /\ c.seqno \in Nat /\ f \in Range(c.mac) /\ c.seqno < IdMod - 1
  BY <1>1, AckReady DEF Fresh
<1>4. tries \in Int
  <2>1. f \in DataFrames BY <1>1, <1>3, FramesAre
  <2> QED BY <2>1 DEF DataFrames
<1> HIDE DEF c, K, tries
<1>5. Conn(e) BY <1>1, <1>3, MacTaken
<1>6. Handled(n, K, c, e) /\ Quiet(c, e) /\ e.seqno = c.seqno BY <1>1, <1>3, MacTakenHandles
<1> HIDE DEF e
<1>7. Held(n, K, e) BY <1>6 DEF Handled
<1>8. Handled(n, K, e, d) /\ Quiet(e, d)
  <2>1. e.seqno < IdMod - 1 BY <1>3, <1>6
  <2> QED BY <1>4, <1>5, <1>7, <2>1, NodePacketSentHandles
<1> HIDE DEF d
<1>9. Handled(n, K, c, d) BY <1>3, <1>6, <1>8, HandledOn
<1>10. Quiet(c, d) BY <1>6, <1>8 DEF Quiet
<1> QED BY <1>1, <1>2, <1>9, <1>10, AckStep DEF K, c, Step, Numbered

LEMMA SilentAcks ==
  ASSUME AckInv, NEW n \in Motes, Silent(n)
  PROVE  AckInv' /\ Calm
<1> DEFINE c == node[n]
           K == Had(took, bounds.sent)[n]
           e == [c EXCEPT !.mac = Tail(@)]
<1>1. c.mac # <<>> /\ node' = [node EXCEPT ![n] = e] /\ took' = took /\ expired' = expired /\ bounds'.sent = bounds.sent
  <2>1. bounds' = [bounds EXCEPT !.faults = @ + 1, !.used = @ + 1] BY DEF Silent
  <2>2. bounds'.sent = bounds.sent BY <2>1
  <2> QED BY <2>2 DEF Silent
<1>2. CollectInv' BY SilentKeeps DEF AckInv
<1>3. Conn(c) /\ Held(n, K, c) BY AckReady
<1>4. Handled(n, K, c, e) /\ Quiet(c, e) /\ e.seqno = c.seqno
  <2> HIDE DEF c, K
  <2>1. e = [c EXCEPT !.mac = Tail(@)] OBVIOUS
  <2> HIDE DEF e
  <2> QED BY <1>1, <1>3, <2>1, MacTakenHandles
<1> HIDE DEF e
<1>5. expired' = IF e.seqno # c.seqno THEN expired \ {n} ELSE expired BY <1>1, <1>4
<1> QED BY <1>1, <1>2, <1>4, <1>5, AckStep

LEMMA TimerAcks ==
  ASSUME AckInv, Fresh, NEW n \in Motes, Timer(n)
  PROVE  AckInv' /\ Calm
<1> DEFINE c == node[n]
           K == Had(took, bounds.sent)[n]
           f == [c EXCEPT !.timer = "off"]
           tx == f.tx + MacTries + 1
           g == [f EXCEPT !.tx = tx]
<1>1. /\ Step(n, RetransmitCallback(f)) \/ Step(n, RetransmitCallback(g))
      /\ took' = took /\ bounds'.sent = bounds.sent
  BY DEF Timer
<1>2. CollectInv' BY TimerKeeps DEF AckInv
<1>3. Conn(c) /\ Held(n, K, c) /\ c.seqno \in Nat /\ c.seqno < IdMod - 1 /\ c.tx \in Int BY AckReady DEF Fresh
<1> HIDE DEF K
<1>4. f = [x \in ConnFields |-> f[x]] /\ \A x \in ConnFields \ {"timer"} : f[x] = c[x]
  BY <1>3 DEF Conn, ConnFields
<1>5. tx \in Int
  <2>1. f.tx = c.tx BY <1>4 DEF ConnFields
  <2> HIDE DEF f
  <2> QED BY <1>3, <2>1, CollectAssumption
<1> HIDE DEF f, tx
<1>6. Conn(f) BY <1>3, <1>4 DEF Conn, ConnFields
<1>7. g = [x \in ConnFields |-> g[x]] /\ g.tx = tx /\ \A x \in ConnFields \ {"tx"} : g[x] = f[x]
  BY <1>6 DEF Conn, ConnFields
<1> HIDE DEF g
<1>8. Conn(g) BY <1>6, <1>7 DEF Conn, ConnFields
<1>9. ASSUME NEW e, e = f \/ e = g, Step(n, RetransmitCallback(e)) PROVE AckInv' /\ Calm
  <2> DEFINE d == RetransmitCallback(e)
  <2>1. /\ e.queue = c.queue /\ e.recent = c.recent /\ e.mac = c.mac /\ e.seqno = c.seqno /\ e.eseqno = c.eseqno
        /\ e.tx \in Int /\ e.max = c.max /\ e.nbrs = c.nbrs /\ e.parent = c.parent /\ e.current = c.current
        /\ e.metric = c.metric
    BY <1>3, <1>4, <1>5, <1>7, <1>9 DEF ConnFields
  <2>2. Handled(n, K, c, e)
    <3> HIDE DEF c
    <3> QED BY <1>3, <2>1, HandledAside DEF Held
  <2>3. Conn(e) /\ Held(n, K, e) BY <1>6, <1>8, <1>9, <2>2 DEF Handled
  <2>4. Handled(n, K, e, d) /\ Quiet(e, d)
    <3>1. e.seqno < IdMod - 1 BY <1>3, <2>1
    <3> QED BY <2>3, <3>1, RetransmitCallbackHandles
  <2>5. Step(n, d) BY <1>9
  <2> HIDE DEF d
  <2>6. Handled(n, K, c, d)
    <3> HIDE DEF c
    <3> QED BY <1>3, <2>2, <2>4, HandledOn
  <2>7. Quiet(c, d) BY <2>1, <2>4 DEF Quiet
  <2> QED BY <1>1, <1>2, <2>5, <2>6, <2>7, AckStep DEF K, Step, Numbered
<1> QED BY <1>1, <1>9

LEMMA GoneAcks ==
  ASSUME AckInv, NEW n \in Motes, NEW m \in Motes, Gone(n, m)
  PROVE  AckInv' /\ Calm
<1> DEFINE c == node[n]
           K == Had(took, bounds.sent)[n]
           nbrs == [x \in DOMAIN c.nbrs \ {m} |-> c.nbrs[x]]
           d == [c EXCEPT !.nbrs = nbrs]
<1>1. node' = [node EXCEPT ![n] = d] /\ took' = took /\ expired' = expired /\ bounds'.sent = bounds.sent
  <2>1. bounds' = [bounds EXCEPT !.faults = @ + 1, !.used = @ + 1] BY DEF Gone
  <2>2. bounds'.sent = bounds.sent BY <2>1
  <2> QED BY <2>2 DEF Gone
<1>2. CollectInv' BY GoneKeeps DEF AckInv
<1>3. Conn(c) /\ Held(n, K, c) BY AckReady
<1>4. DOMAIN nbrs \subseteq DOMAIN c.nbrs OBVIOUS
<1> HIDE DEF nbrs, K
<1>5. d = [x \in ConnFields |-> d[x]] /\ d.nbrs = nbrs /\ \A x \in ConnFields \ {"nbrs"} : d[x] = c[x]
  BY <1>3 DEF Conn, ConnFields
<1> HIDE DEF d
<1>6. /\ d.queue = c.queue /\ d.recent = c.recent /\ d.mac = c.mac /\ d.seqno = c.seqno /\ d.eseqno = c.eseqno
      /\ d.tx = c.tx /\ d.max = c.max /\ d.parent = c.parent /\ d.current = c.current /\ d.metric = c.metric
  BY <1>5 DEF ConnFields
<1>7. Handled(n, K, c, d)
  <2>1. n \notin DOMAIN d.nbrs BY <1>3, <1>4, <1>5 DEF Held
  <2> HIDE DEF c
  <2> QED BY <1>3, <1>6, <2>1, HandledAside DEF Held
<1>8. expired' = IF d.seqno # c.seqno THEN expired \ {n} ELSE expired BY <1>1, <1>6
<1>9. Quiet(c, d) BY <1>6 DEF Quiet
<1> QED BY <1>1, <1>2, <1>7, <1>8, <1>9, AckStep DEF K

\* What is underway for the packet that left may now seem to be for the next.
LEMMA ExpireAcks ==
  ASSUME AckInv, NEW n \in Motes, Expire(n)
  PROVE  AckInv' /\ Calm
<1> DEFINE c == node[n]
           K == Had(took, bounds.sent)
           q == Tail(c.queue)
           d == [c EXCEPT !.queue = q]
<1>1. /\ c.queue # <<>> /\ node' = [node EXCEPT ![n] = d] /\ took' = took
      /\ expired' = expired \cup {n} /\ bounds'.sent = bounds.sent
  <2>1. bounds' = [bounds EXCEPT !.faults = @ + 1, !.used = @ + 1] BY DEF Expire
  <2>2. bounds'.sent = bounds.sent BY <2>1
  <2> QED BY <2>2 DEF Expire
<1>2. CollectInv' BY ExpireKeeps DEF AckInv
<1>3. Conn(c) /\ Held(n, K[n], c) /\ node = [m \in Motes |-> node[m]] BY AckReady
<1>4. q \in Seq(Packets) /\ Range(q) \subseteq Range(c.queue)
  <2>1. c.queue \in Seq(Packets) BY <1>3 DEF Held
  <2> QED BY <1>1, <2>1, RangeFacts
<1>5. AckRight(node, K, expired) /\ K = Had(took', bounds'.sent) BY <1>1 DEF AckInv
<1> HIDE DEF q, K
<1>6. d.queue = q /\ \A x \in ConnFields \ {"queue"} : d[x] = c[x]
  BY <1>3 DEF Conn, ConnFields
<1> HIDE DEF d
<1>7. /\ d.recent = c.recent /\ d.mac = c.mac /\ d.seqno = c.seqno /\ d.eseqno = c.eseqno
      /\ d.tx = c.tx /\ d.max = c.max /\ d.nbrs = c.nbrs /\ d.parent = c.parent /\ d.current = c.current
      /\ d.metric = c.metric
  BY <1>6 DEF ConnFields
<1>8. Held(n, K[n], d) BY <1>3, <1>4, <1>6, <1>7 DEF Held
<1>9. node'[n] = d /\ (\A m \in Motes \ {n} : node'[m] = node[m]) /\ node' = [m \in Motes |-> node'[m]]
  BY <1>1, <1>3
<1>10. AckRight(node', K, expired')
  <2>1. \A m \in Motes : Held(m, K[m], node'[m]) BY <1>5, <1>8, <1>9 DEF AckRight
  <2>2. \A m \in Motes \ expired' : Firm(node'[m]) BY <1>1, <1>5, <1>9 DEF AckRight
  <2>3. ASSUME NEW m \in Motes, NEW f \in Range(node'[m].mac), f.type = "ACK", f.to # m
        PROVE  /\ f.id <= node'[f.to].seqno
               /\ "DROPPED" \notin f.flags /\ f.id = node'[f.to].seqno /\ f.to \notin expired'
                    => \E p : Leads(node'[f.to], p) /\ Fine(K[m], p)
    <3>1. Held(m, K[m], node'[m]) BY <2>1
    <3>2. f \in AckFrames BY <2>3, <3>1, FramesAre
    <3>3. f.to \in Motes BY <3>2 DEF AckFrames
    <3>4. f \in Range(node[m].mac) BY <1>7, <1>9, <2>3
    <3>5. /\ f.id <= node[f.to].seqno
          /\ "DROPPED" \notin f.flags /\ f.id = node[f.to].seqno /\ f.to \notin expired
               => \E p : Leads(node[f.to], p) /\ Fine(K[m], p)
      BY <1>5, <2>3, <3>4 DEF AckRight
    <3>6. CASE f.to = n BY <1>1, <1>7, <1>9, <3>5, <3>6
    <3>7. CASE f.to # n
      <4>1. node'[f.to] = node[f.to] BY <1>9, <3>3, <3>7
      <4>2. f.to \notin expired' => f.to \notin expired BY <1>1
      <4> QED BY <3>5, <4>1, <4>2
    <3> QED BY <3>6, <3>7
  <2> QED BY <1>9, <2>1, <2>2, <2>3 DEF AckRight
<1>11. \A m \in Motes : node'[m].eseqno <= bounds'.sent[m]
  <2>1. \A m \in Motes : node'[m].eseqno = node[m].eseqno BY <1>7, <1>9
  <2> QED BY <1>1, <2>1 DEF AckInv
<1>12. bounds'.sent \in [Motes -> Nat] BY <1>1 DEF AckInv
<1>13. Calm BY <1>1, <1>7, <1>9 DEF Calm
<1> QED BY <1>2, <1>5, <1>10, <1>11, <1>12, <1>13 DEF AckInv

\* A new packet is its sender's own.
LEMMA SendAcks ==
  ASSUME AckInv, NEW n \in Motes, Send(n)
  PROVE  AckInv' /\ Calm
<1> DEFINE c == node[n]
           sent == [bounds.sent EXCEPT ![n] = @ + 1]
           K == Had(took, bounds.sent)
           L == Had(took, sent)
           next == (c.eseqno + 1) % IdMod
           k == IF next = 0 THEN IdMod \div 2 ELSE next
           p == [org |-> n, no |-> c.eseqno, ttl |-> Hops, rexmits |-> Rexmits, probe |-> FALSE]
           u == [c EXCEPT !.eseqno = k]
           e == [u EXCEPT !.queue = Append(u.queue, p)]
           s == SendQueued(e)
           d == IF Len(c.queue) < QueueSize THEN s ELSE u
<1>1. Step(n, d) /\ took' = took /\ bounds'.sent = sent
  <2>1. bounds' = [bounds EXCEPT !.sent[n] = @ + 1, !.used = @ + 1] BY DEF Send
  <2>2. bounds'.sent = sent BY <2>1
  <2>3. Step(n, d) BY DEF Send
  <2> QED BY <2>2, <2>3 DEF Send
<1>2. CollectInv' BY CollectSendKeeps DEF AckInv
<1>3. /\ Conn(c) /\ Held(n, K[n], c) /\ c.seqno \in Nat /\ c.eseqno \in Nat
      /\ bounds.sent \in [Motes -> Nat] /\ c.eseqno <= bounds.sent[n]
  BY AckReady DEF AckInv
<1>4. /\ sent \in [Motes -> Nat] /\ sent[n] = bounds.sent[n] + 1 /\ \A m \in Motes : bounds.sent[m] <= sent[m]
  BY <1>3
<1> HIDE DEF c, sent
<1>5. \A m \in Motes : K[m] \subseteq L[m] BY <1>3, <1>4, HadMore
<1>6. p \in Packets /\ Fine(L[n], p)
  <2>1. p \in Packets BY <1>3, CollectAssumption DEF Packets
  <2>2. Named(p) \in PacketNames /\ Named(p).org = n /\ Named(p).no = c.eseqno BY <1>3 DEF Named, PacketNames
  <2> DEFINE x == Named(p)
  <2> HIDE DEF x, p
  <2>3. x \in PacketNames /\ x.org = n /\ x.no = c.eseqno BY <2>2 DEF x
  <2>4. x.no \in 0 .. sent[x.org] - 1 BY <1>3, <1>4, <2>3
  <2>5. x \in Made(sent) BY <2>3, <2>4 DEF Made
  <2>6. x \in L[n] BY <2>3, <2>5 DEF Had
  <2> QED BY <2>1, <2>6 DEF Fine, x
<1>7. k \in Nat /\ k <= sent[n]
  <2>1. \A a \in Nat : \A m \in Nat \ {0} :
          LET x == (a + 1) % m IN IF x = 0 THEN m \div 2 \in Nat /\ m \div 2 <= a + 1 ELSE x \in Nat /\ x <= a + 1
    <3> TAKE a \in Nat
    <3> TAKE m \in Nat \ {0}
    <3>1. (a + 1) % m \in 0 .. m - 1 /\ m \div 2 \in Nat /\ m \div 2 <= m OBVIOUS
    <3>2. CASE a + 1 < m
      <4>1. (a + 1) % m = a + 1 BY <3>2
      <4> QED BY <4>1
    <3>3. CASE a + 1 >= m BY <3>1, <3>3
    <3> QED BY <3>2, <3>3
  <2>2. IdMod \in Nat \ {0} BY CollectAssumption
  <2>3. k \in Nat /\ k <= c.eseqno + 1 BY <1>3, <2>1, <2>2
  <2> HIDE DEF k
  <2> QED BY <1>3, <1>4, <2>3
<1> HIDE DEF K, L, p, k
<1>8. u = [x \in ConnFields |-> u[x]] /\ u.eseqno = k /\ \A x \in ConnFields \ {"eseqno"} : u[x] = c[x]
  BY <1>3 DEF Conn, ConnFields
<1> HIDE DEF u
<1>9. /\ u.queue = c.queue /\ u.recent = c.recent /\ u.mac = c.mac /\ u.seqno = c.seqno
      /\ u.tx = c.tx /\ u.max = c.max /\ u.nbrs = c.nbrs /\ u.parent = c.parent /\ u.current = c.current
      /\ u.metric = c.metric
  BY <1>8 DEF ConnFields
<1>10. Conn(u) BY <1>3, <1>8 DEF Conn, ConnFields
<1>11. Held(n, L[n], c)
  <2>1. K[n] \subseteq L[n] BY <1>5
  <2> QED BY <1>3, <2>1, HeldMore
<1>12. Handled(n, L[n], c, u) BY <1>7, <1>8, <1>9, <1>11, HandledAside DEF Held
<1>13. Held(n, L[n], u) BY <1>12 DEF Handled
<1>14. Conn(e) /\ Handled(n, L[n], u, e) /\ Quiet(u, e)
  <2>1. e = [u EXCEPT !.queue = Append(u.queue, p)] OBVIOUS
  <2> HIDE DEF e
  <2> QED BY <1>6, <1>10, <1>13, <2>1, GrownHandles
<1> HIDE DEF e
<1>15. Held(n, L[n], e) BY <1>14 DEF Handled
<1>16. Handled(n, L[n], e, s) /\ Quiet(e, s) BY <1>14, <1>15, SendQueuedHandles
<1> HIDE DEF s
<1>17. Handled(n, L[n], c, e) BY <1>3, <1>12, <1>14, HandledOn
<1>18. Handled(n, L[n], c, s) BY <1>3, <1>16, <1>17, HandledOn
<1>19. Handled(n, L[n], c, d) /\ d.eseqno = k BY <1>8, <1>12, <1>14, <1>16, <1>18 DEF Quiet
<1>20. d.recent = c.recent /\ (c.metric = 0 => d.metric = 0) BY <1>9, <1>14, <1>16 DEF Quiet
<1> HIDE DEF d
<1>21. node' = [node EXCEPT ![n] = d] /\ expired' = IF d.seqno # node[n].seqno THEN expired \ {n} ELSE expired
  BY <1>1 DEF Step, Numbered
<1>22. AckRight(node', L, expired')
  <2>1. AckRight(node, K, expired) BY DEF AckInv, K
  <2>2. Handled(n, L[n], node[n], d) BY <1>19 DEF c
  <2> QED BY <1>5, <1>21, <2>1, <2>2, RightHandled
<1>23. \A m \in Motes : node'[m].eseqno <= sent[m]
  <2> TAKE m \in Motes
  <2>1. node = [x \in Motes |-> node[x]] /\ node[m].eseqno <= bounds.sent[m] /\ node[m].eseqno \in Nat
    BY AckReady DEF AckInv
  <2>2. CASE m = n BY <1>7, <1>19, <1>21, <2>1, <2>2
  <2>3. CASE m # n
    <3>1. node'[m] = node[m] BY <1>21, <2>1, <2>3
    <3>2. bounds.sent[m] <= sent[m] /\ bounds.sent[m] \in Nat /\ sent[m] \in Nat BY <1>3, <1>4
    <3> QED BY <2>1, <3>1, <3>2
  <2> QED BY <2>2, <2>3
<1>24. Calm
  <2>1. node = [x \in Motes |-> node[x]] BY AckReady
  <2> QED BY <1>1, <1>20, <1>21, <2>1 DEF Calm, c
<1> QED BY <1>1, <1>2, <1>4, <1>22, <1>23, <1>24 DEF AckInv, L

\* A frame of n is received, or the MAC layer has only tried.
LEMMA ArrivalAcks ==
  ASSUME AckInv, Fresh, NEW n \in Motes, NEW e, NEW f \in Range(node[n].mac), f \in Frames, f.to \in Motes, f.rt \in Nat,
         f.to # n, NEW T, took \subseteq T,
         Handled(n, Had(took, bounds.sent)[n], node[n], e), e.seqno = node[n].seqno,
         f.type = "DATA" /\ Takes(node[f.to], f, n) => <<f.to, f.packet.org, f.packet.no>> \in T,
         NEW d, d = NodePacketReceived(node[f.to], f, n),
         NEW F, F = IF d.seqno # node[f.to].seqno THEN expired \ {f.to} ELSE expired
  PROVE  /\ AckRight([[node EXCEPT ![n] = e] EXCEPT ![f.to] = d], Had(T, bounds.sent), F)
         /\ f.type = "DATA" => F = expired
<1> DEFINE c == node[n]
           K == Had(took, bounds.sent)
           L == Had(T, bounds.sent)
           M == [node EXCEPT ![n] = e]
           m == f.to
           b == node[m]
<1>1. AckRight(node, K, expired) /\ bounds.sent \in [Motes -> Nat] BY DEF AckInv
<1>2. Conn(b) /\ Timed(b) /\ b.seqno < IdMod - 1 BY AckReady DEF Fresh
<1>3. Held(n, K[n], c) BY AckReady
<1>4. \A x \in Motes : K[x] \subseteq L[x]
  <2>1. \A x \in Motes : bounds.sent[x] <= bounds.sent[x] BY <1>1
  <2> QED BY <1>1, <2>1, HadMore
<1>5. f.type = "DATA" => f \in DataFrames /\ f.id <= c.seqno /\ Fine(K[n], f.packet)
  <2> HIDE DEF K, c
  <2> QED BY <1>3, FramesAre DEF c
<1>6. f.type = "DATA" /\ Takes(b, f, n) => Fine(L[m], f.packet)
  <2> SUFFICES ASSUME f.type = "DATA", Takes(b, f, n) PROVE Fine(L[m], f.packet) OBVIOUS
  <2>1. ~ f.packet.probe BY DEF Takes
  <2> DEFINE x == Named(f.packet)
  <2>2. x \in K[n] BY <1>5, <2>1 DEF Fine
  <2>3. x.org = f.packet.org /\ x.no = f.packet.no BY DEF Named
  <2> HIDE DEF x
  <2>4. x \in Made(bounds.sent) BY <2>2 DEF Had
  <2>5. <<m, x.org, x.no>> \in T BY <2>3
  <2>6. x \in L[m] BY <2>4, <2>5 DEF Had
  <2> QED BY <2>6 DEF Fine, x
<1>7. f.type = "DATA" => Meant(M, expired, f, n)
  <2> SUFFICES ASSUME f.type = "DATA" PROVE Meant(M, expired, f, n) OBVIOUS
  <2>1. M[n] = e BY <1>1 DEF AckRight
  <2>2. f.id <= e.seqno BY <1>5
  <2>3. ASSUME f.id = e.seqno, n \notin expired PROVE Leads(e, f.packet)
    <3>1. Firm(c) BY <1>1, <2>3 DEF AckRight
    <3>2. Leads(c, f.packet) BY <2>3, <3>1 DEF Firm
    <3> QED BY <3>2 DEF Handled, SameHead
  <2> QED BY <2>1, <2>2, <2>3 DEF Meant
<1> HIDE DEF K, L
<1>8. M[m] = b BY <1>1 DEF AckRight
<1>9. AckRight(M, K, expired)
  <2>1. \A x \in Motes : K[x] \subseteq K[x] OBVIOUS
  <2>2. Handled(n, K[n], node[n], e) BY DEF K
  <2>3. expired = IF e.seqno # node[n].seqno THEN expired \ {n} ELSE expired OBVIOUS
  <2> QED BY <1>1, <2>1, <2>2, <2>3, RightHandled
<1>10. AckRight([M EXCEPT ![m] = d], L, F) /\ (f.type = "DATA" => SameNumber(b, d))
  <2>1. d = NodePacketReceived(b, f, n) /\ F = IF d.seqno # b.seqno THEN expired \ {m} ELSE expired OBVIOUS
  <2>2. m \in Motes /\ n # m OBVIOUS
  <2>3. b = M[m] BY <1>8
  <2>4. f.to = m OBVIOUS
  <2>5. f \in Frames /\ f.rt \in Nat OBVIOUS
  <2> HIDE DEF M, b, m
  <2>6. AckRight([M EXCEPT ![m] = d], L, F)
    BY ONLY <1>2, <1>4, <1>6, <1>7, <1>9, <2>1, <2>2, <2>3, <2>4, <2>5, n \in Motes, RightArrival
  <2>7. f.type = "DATA" => SameNumber(b, d)
    BY ONLY <1>2, <1>4, <1>6, <1>7, <1>9, <2>1, <2>2, <2>3, <2>4, <2>5, n \in Motes, RightArrival
  <2> QED BY <2>6, <2>7
<1> QED BY <1>10 DEF SameNumber, L

\* The node that receives has sent no more packets of its own; and with metric
\* 0 it remembers what it takes.
LEMMA ArrivalLeaves ==
  ASSUME AckInv, Fresh, NEW n \in Motes, NEW e, Quiet(node[n], e), NEW f, f.to \in Motes, f.rt \in Nat,
         f.to # n, NEW d, d = NodePacketReceived(node[f.to], f, n),
         NEW N, N = [node EXCEPT ![n] = e] \/ N = [[node EXCEPT ![n] = e] EXCEPT ![f.to] = d]
  PROVE  \A x \in Motes :
           /\ N[x].eseqno = node[x].eseqno
           /\ node[x].metric = 0 =>
                /\ N[x].metric = 0
                /\ \/ N[x].recent = node[x].recent
                   \/ /\ x = f.to /\ f.type = "DATA" /\ ~ Seen(node[x], f.packet)
                      /\ N[x].recent = Remembered(node[x].recent, f.packet)
                /\ x = f.to /\ N[x] = d /\ f.type = "DATA" /\ ~ Seen(node[x], f.packet) =>
                     N[x].recent = Remembered(node[x].recent, f.packet)
<1> DEFINE m == f.to
           K == Had(took, bounds.sent)[m]
<1>1. /\ Conn(node[m]) /\ Timed(node[m]) /\ Held(m, K, node[m]) /\ node = [x \in Motes |-> node[x]]
      /\ node[m].seqno < IdMod - 1
  BY AckReady DEF Fresh
<1> HIDE DEF K
<1>2. /\ d.eseqno = node[m].eseqno
      /\ node[m].metric = 0 =>
           /\ d.metric = 0
           /\ d.recent = IF f.type = "DATA" /\ ~ Seen(node[m], f.packet)
                         THEN Remembered(node[m].recent, f.packet) ELSE node[m].recent
  BY <1>1, ArrivalRemembers
<1> HIDE DEF m
<1>3. m \in Motes /\ f.to = m /\ m # n BY DEF m
<1>4. ASSUME NEW x \in Motes, x # m
      PROVE N[x].eseqno = node[x].eseqno /\ (node[x].metric = 0 => N[x].metric = 0 /\ N[x].recent = node[x].recent)
  <2>1. N[x] = IF x = n THEN e ELSE node[x] BY <1>1, <1>3, <1>4
  <2> QED BY <2>1 DEF Quiet
<1>5. N[m] = d \/ N[m] = node[m] BY <1>1, <1>3
<1>6. ASSUME NEW x \in Motes, x = m
      PROVE  /\ N[x].eseqno = node[x].eseqno
             /\ node[x].metric = 0 =>
                  /\ N[x].metric = 0
                  /\ \/ N[x].recent = node[x].recent
                     \/ /\ x = f.to /\ f.type = "DATA" /\ ~ Seen(node[x], f.packet)
                        /\ N[x].recent = Remembered(node[x].recent, f.packet)
                  /\ x = f.to /\ N[x] = d /\ f.type = "DATA" /\ ~ Seen(node[x], f.packet) =>
                       N[x].recent = Remembered(node[x].recent, f.packet)
  <2>1. CASE N[m] = d BY <1>2, <1>3, <1>6, <2>1
  <2>2. CASE N[m] = node[m] BY <1>2, <1>3, <1>6, <2>2
  <2> QED BY <1>5, <2>1, <2>2
<1> QED BY <1>3, <1>4, <1>6

LEMMA TryDataAcks ==
  ASSUME AckInv, Fresh, NEW n \in Motes, TryData(n)
  PROVE  AckInv'
<1> DEFINE c == node[n]
           f == Head(c.mac)
           e == [c EXCEPT !.mac[1].tries = @ + 1]
           M == [node EXCEPT ![n] = e]
           d == NodePacketReceived(node[f.to], f, n)
           K == Had(took, bounds.sent)[n]
<1>1. c.mac # <<>> /\ f.type = "DATA" /\ expired' = expired /\ bounds' = bounds BY DEF TryData
<1>2. CollectInv' BY TryDataKeeps DEF AckInv
<1>3. /\ Conn(c) /\ Held(n, K, c) /\ c.seqno \in Nat /\ c.eseqno \in Nat
      /\ f \in Range(c.mac) /\ f \in Frames /\ f.to \in Motes /\ f.rt \in Nat
      /\ node = [m \in Motes |-> node[m]]
  BY <1>1, AckReady
<1>4. f.to # n
  <2> HIDE DEF c, f, K
  <2> QED BY <1>1, <1>3, FramesAre
<1>5. Handled(n, K, c, e) /\ e.seqno = c.seqno /\ Quiet(c, e)
  <2>1. e = [c EXCEPT !.mac[1].tries = @ + 1] OBVIOUS
  <2> HIDE DEF c, K, e
  <2> QED BY <1>1, <1>3, <2>1, MacTriedHandles
<1>6. \/ node' = M /\ took' = took
      \/ /\ node' = [M EXCEPT ![f.to] = d]
         /\ took' = IF Takes(node[f.to], f, n) THEN took \cup {<<f.to, f.packet.org, f.packet.no>>} ELSE took
  <2>1. [node EXCEPT ![n].mac[1].tries = @ + 1] = M OBVIOUS
  <2>2. M[f.to] = node[f.to] BY <1>3, <1>4
  <2>3. \/ node' = M /\ took' = took
        \/ /\ node' = [M EXCEPT ![f.to] = NodePacketReceived(M[f.to], f, n)]
           /\ took' = IF Takes(node[f.to], f, n) THEN took \cup {<<f.to, f.packet.org, f.packet.no>>} ELSE took
    BY <2>1 DEF TryData
  <2> HIDE DEF M, f
  <2> QED BY <2>2, <2>3
<1>7. AckRight(node', Had(took', bounds.sent), expired)
  <2>1. CASE node' = M /\ took' = took
    <3> DEFINE H == Had(took, bounds.sent)
    <3>1. AckRight(node, H, expired) /\ \A x \in Motes : H[x] \subseteq H[x] BY DEF AckInv
    <3>2. Handled(n, H[n], node[n], e) BY <1>5
    <3>3. expired = IF e.seqno # node[n].seqno THEN expired \ {n} ELSE expired BY <1>5
    <3>4. Had(took', bounds.sent) = H BY <2>1
    <3> HIDE DEF H, e
    <3>5. AckRight(M, H, expired) BY <3>1, <3>2, <3>3, RightHandled
    <3> QED BY <2>1, <3>4, <3>5
  <2>2. CASE /\ node' = [M EXCEPT ![f.to] = d]
             /\ took' = IF Takes(node[f.to], f, n) THEN took \cup {<<f.to, f.packet.org, f.packet.no>>} ELSE took
    <3> DEFINE F == IF d.seqno # node[f.to].seqno THEN expired \ {f.to} ELSE expired
    <3>1. took \subseteq took' BY <2>2
    <3>2. Takes(node[f.to], f, n) => <<f.to, f.packet.org, f.packet.no>> \in took' BY <2>2
    <3>3. f \in Range(node[n].mac) /\ f \in Frames /\ f.to \in Motes /\ f.rt \in Nat BY <1>3
    <3>4. Handled(n, Had(took, bounds.sent)[n], node[n], e) /\ e.seqno = node[n].seqno BY <1>5
    <3>5. d = NodePacketReceived(node[f.to], f, n) /\ F = IF d.seqno # node[f.to].seqno THEN expired \ {f.to} ELSE expired
      OBVIOUS
    <3> DEFINE T == took'
    <3>6. took \subseteq T /\ (f.type = "DATA" /\ Takes(node[f.to], f, n) => <<f.to, f.packet.org, f.packet.no>> \in T)
      BY <3>1, <3>2
    <3> HIDE DEF e, f, d, F, T
    <3>7. /\ AckRight([[node EXCEPT ![n] = e] EXCEPT ![f.to] = d], Had(T, bounds.sent), F)
          /\ f.type = "DATA" => F = expired
      BY <1>4, <3>3, <3>4, <3>5, <3>6, ArrivalAcks
    <3> QED BY <1>1, <2>2, <3>7 DEF T
  <2> QED BY <1>6, <2>1, <2>2
<1>8. \A x \in Motes : node'[x].eseqno = node[x].eseqno
  <2>1. d = NodePacketReceived(node[f.to], f, n) /\ Quiet(node[n], e) BY <1>5
  <2>2. node' = [node EXCEPT ![n] = e] \/ node' = [[node EXCEPT ![n] = e] EXCEPT ![f.to] = d] BY <1>6
  <2> HIDE DEF d, e, f
  <2> QED BY <1>3, <1>4, <2>1, <2>2, ArrivalLeaves
<1>9. bounds'.sent \in [Motes -> Nat] /\ \A x \in Motes : node'[x].eseqno <= bounds'.sent[x]
  BY <1>1, <1>8 DEF AckInv
<1> QED BY <1>1, <1>2, <1>7, <1>9 DEF AckInv

LEMMA TryAckAcks ==
  ASSUME AckInv, Fresh, NEW n \in Motes, TryAck(n)
  PROVE  AckInv' /\ Calm
<1> DEFINE c == node[n]
           f == Head(c.mac)
           e == [c EXCEPT !.mac = Tail(@)]
           M == [node EXCEPT ![n] = e]
           d == NodePacketReceived(node[f.to], f, n)
           H == Had(took, bounds.sent)
           F == IF d.seqno # node[f.to].seqno THEN expired \ {f.to} ELSE expired
<1>1. c.mac # <<>> /\ f.type = "ACK" /\ took' = took /\ bounds' = bounds BY DEF TryAck
<1>2. CollectInv' BY TryAckKeeps DEF AckInv
<1>3. /\ Conn(c) /\ Held(n, H[n], c) /\ c.seqno \in Nat /\ c.eseqno \in Nat
      /\ f \in Range(c.mac) /\ f \in Frames /\ f.to \in Motes /\ f.rt \in Nat
      /\ node = [m \in Motes |-> node[m]]
  BY <1>1, AckReady
<1>4. Handled(n, H[n], c, e) /\ e.seqno = c.seqno /\ Quiet(c, e)
  <2>1. e = [c EXCEPT !.mac = Tail(@)] OBVIOUS
  <2> HIDE DEF c, H, e
  <2> QED BY <1>1, <1>3, <2>1, MacTakenHandles
<1>5. \/ node' = M /\ expired' = expired
      \/ f.to # n /\ node' = [M EXCEPT ![f.to] = d] /\ expired' = F
  <2>1. [node EXCEPT ![n].mac = Tail(@)] = M OBVIOUS
  <2>2. f.to # n => M[f.to] = node[f.to] BY <1>3
  <2> DEFINE after == NodePacketReceived(M[f.to], f, n)
  <2>3. \/ node' = M /\ expired' = expired
        \/ f.to # n /\ node' = [M EXCEPT ![f.to] = after] /\ Numbered(f.to, after)
    BY <2>1 DEF TryAck
  <2>4. f.to # n => after = d BY <2>2
  <2> HIDE DEF M, f, d, after
  <2> QED BY <2>3, <2>4 DEF Numbered
<1>6. AckRight(node', H, expired')
  <2>1. CASE node' = M /\ expired' = expired
    <3>1. AckRight(node, H, expired) /\ \A x \in Motes : H[x] \subseteq H[x] BY DEF AckInv
    <3>2. Handled(n, H[n], node[n], e) BY <1>4
    <3>3. expired = IF e.seqno # node[n].seqno THEN expired \ {n} ELSE expired BY <1>4
    <3> HIDE DEF H, e
    <3>4. AckRight(M, H, expired) BY <3>1, <3>2, <3>3, RightHandled
    <3> QED BY <2>1, <3>4
  <2>2. CASE f.to # n /\ node' = [M EXCEPT ![f.to] = d] /\ expired' = F
    <3>1. f \in Range(node[n].mac) /\ f \in Frames /\ f.to \in Motes /\ f.rt \in Nat BY <1>3
    <3>2. Handled(n, Had(took, bounds.sent)[n], node[n], e) /\ e.seqno = node[n].seqno BY <1>4
    <3>3. d = NodePacketReceived(node[f.to], f, n) /\ F = IF d.seqno # node[f.to].seqno THEN expired \ {f.to} ELSE expired
      OBVIOUS
    <3>4. f.type # "DATA" BY <1>1
    <3>5. f.to # n BY <2>2
    <3> HIDE DEF e, f, d, F
    <3>6. AckRight([[node EXCEPT ![n] = e] EXCEPT ![f.to] = d], Had(took, bounds.sent), F)
      BY <3>1, <3>2, <3>3, <3>4, <3>5, ArrivalAcks
    <3> QED BY <2>2, <3>6
  <2> QED BY <1>5, <2>1, <2>2
<1>7. Calm /\ \A x \in Motes : node'[x].eseqno = node[x].eseqno
  <2>1. CASE node' = M
    <3>1. Quiet(node[n], e) BY <1>4
    <3> HIDE DEF e
    <3> QED BY <1>1, <1>3, <2>1, <3>1 DEF Quiet, Calm
  <2>2. CASE f.to # n /\ node' = [M EXCEPT ![f.to] = d]
    <3>1. d = NodePacketReceived(node[f.to], f, n) /\ Quiet(node[n], e) BY <1>4
    <3>2. node' = [[node EXCEPT ![n] = e] EXCEPT ![f.to] = d] BY <2>2
    <3>3. f.type # "DATA" BY <1>1
    <3> HIDE DEF d, e, f
    <3> QED BY <1>1, <1>3, <2>2, <3>1, <3>2, <3>3, ArrivalLeaves DEF Calm
  <2> QED BY <1>5, <2>1, <2>2
<1>8. bounds'.sent \in [Motes -> Nat] /\ \A x \in Motes : node'[x].eseqno <= bounds'.sent[x]
  BY <1>1, <1>7 DEF AckInv
<1>9. Had(took', bounds'.sent) = H BY <1>1
<1> QED BY <1>2, <1>6, <1>7, <1>8, <1>9 DEF AckInv

LEMMA AckInvNext ==
  ASSUME AckInv, Fresh, [CollectNext]_collectVars
  PROVE  AckInv'
<1>1. CASE UNCHANGED collectVars BY <1>1 DEF collectVars, AckInv, CollectInv
<1>2. CASE CollectNext
  BY <1>2, SendAcks, TryDataAcks, TryAckAcks, ReportAcks, SilentAcks, TimerAcks, ExpireAcks,
     AnnounceAcks, ProbeAcks, GoneAcks
     DEF CollectNext
<1> QED BY <1>1, <1>2

LEMMA AcksAreMeant == AckInv => AckedWasTaken
<1> SUFFICES ASSUME AckInv, NEW m \in Motes, NEW i \in DOMAIN node[m].mac,
                    NEW f, f = node[m].mac[i], NEW c, c = node[f.to],
                    f.type = "ACK", "DROPPED" \notin f.flags, AckMatches(c, f, m),
                    c.queue # <<>>, ~ Head(c.queue).probe, f.to \notin expired
             PROVE  <<m, Head(c.queue).org, Head(c.queue).no>> \in took \/ Head(c.queue).org = m
  BY DEF AckedWasTaken
<1> DEFINE K == Had(took, bounds.sent)
<1>1. AckRight(node, K, expired) BY DEF AckInv
<1>2. f \in Range(node[m].mac) BY DEF Range
<1>3. Held(m, K[m], node[m]) BY <1>1 DEF AckRight
<1>4. f.to \in Motes
  <2> HIDE DEF K
  <2>1. f \in AckFrames BY <1>2, <1>3, FramesAre
  <2> QED BY <2>1 DEF AckFrames
<1>5. Held(f.to, K[f.to], c) BY <1>1, <1>4 DEF AckRight
<1>6. f.to # m /\ f.id = c.seqno BY <1>5 DEF AckMatches, Held
<1>7. PICK p : Leads(c, p) /\ Fine(K[m], p) BY <1>1, <1>2, <1>6 DEF AckRight
<1>8. p = Head(c.queue) BY <1>7 DEF Leads
<1>9. Named(p) \in K[m] BY <1>7, <1>8 DEF Fine
<1>10. Named(p).org = p.org /\ Named(p).no = p.no BY DEF Named
<1> QED BY <1>8, <1>9, <1>10 DEF Had

----------------------------------------------------------------------------
(* Collect: what the sink remembers                                        *)

Once(l) == \A i, j \in 1 .. Len(l) : l[i] = l[j] => i = j

\* No more packets were sent than the sink remembers.
AllRemembered == Cardinality(Made(bounds.sent)) <= NumRecent

DeliveryInv ==
  /\ AckInv
  /\ IsFiniteSet(Made(bounds.sent))
  /\ node[Sink].metric = 0
  /\ Once(node[Sink].recent)
  /\ \A x \in PacketNames : <<Sink, x.org, x.no>> \in took => x \in Range(node[Sink].recent)

LEMMA OnceFits ==
  ASSUME NEW S, IsFiniteSet(S), NEW s \in Seq(S), Once(s), NEW x \in S, x \notin Range(s)
  PROVE  Len(s) + 1 <= Cardinality(S)
<1>1. Len(s) \in Nat /\ DOMAIN s = 1 .. Len(s) /\ s \in [1 .. Len(s) -> S] OBVIOUS
<1>2. Cardinality(1 .. Len(s)) = Len(s)
  <2>1. Cardinality(1 .. Len(s)) = IF 1 > Len(s) THEN 0 ELSE Len(s) - 1 + 1 BY <1>1, FS_Interval
  <2> QED BY <1>1, <2>1
<1>3. IsFiniteSet(S \ {x}) /\ Cardinality(S \ {x}) = Cardinality(S) - 1 BY FS_RemoveElement
<1>4. s \in Injection(1 .. Len(s), S \ {x})
  <2>1. \A i \in 1 .. Len(s) : s[i] \in S \ {x} BY <1>1 DEF Range
  <2>2. s \in [1 .. Len(s) -> S \ {x}] BY <1>1, <2>1
  <2>3. \A i, j \in 1 .. Len(s) : s[i] = s[j] => i = j BY DEF Once
  <2> QED BY <2>2, <2>3 DEF Injection, IsInjective
<1>5. Len(s) <= Cardinality(S \ {x}) BY <1>2, <1>3, <1>4, FS_Injection
<1>6. Cardinality(S) \in Nat BY FS_CardinalityType
<1> QED BY <1>1, <1>3, <1>5, <1>6

LEMMA OnceMore ==
  ASSUME NEW S, NEW s \in Seq(S), Once(s), NEW x \in S, x \notin Range(s)
  PROVE  Once(Append(s, x)) /\ Range(Append(s, x)) = Range(s) \cup {x}
<1> DEFINE a == Append(s, x)
<1>1. /\ Len(a) = Len(s) + 1 /\ Len(s) \in Nat /\ DOMAIN s = 1 .. Len(s)
      /\ (\A i \in 1 .. Len(s) : a[i] = s[i]) /\ a[Len(s) + 1] = x
  OBVIOUS
<1> HIDE DEF a
<1>2. \A i \in 1 .. Len(s) : s[i] # x BY <1>1 DEF Range
<1>3. Once(a)
  <2> SUFFICES ASSUME NEW i \in 1 .. Len(a), NEW j \in 1 .. Len(a), a[i] = a[j] PROVE i = j BY DEF Once
  <2>1. CASE i \in 1 .. Len(s) /\ j \in 1 .. Len(s) BY <1>1, <2>1 DEF Once
  <2>2. CASE i = Len(s) + 1 /\ j = Len(s) + 1 BY <2>2
  <2>3. CASE i = Len(s) + 1 /\ j \in 1 .. Len(s) BY <1>1, <1>2, <2>3
  <2>4. CASE j = Len(s) + 1 /\ i \in 1 .. Len(s) BY <1>1, <1>2, <2>4
  <2>5. (i \in 1 .. Len(s) \/ i = Len(s) + 1) /\ (j \in 1 .. Len(s) \/ j = Len(s) + 1) BY <1>1
  <2> QED BY <2>1, <2>2, <2>3, <2>4, <2>5
<1> QED BY <1>3, RangeFacts DEF a

LEMMA MadeGrows ==
  ASSUME AckInv, IsFiniteSet(Made(bounds.sent)), [CollectNext]_collectVars
  PROVE  IsFiniteSet(Made(bounds'.sent))
<1> DEFINE Rest == bounds'.sent = bounds.sent
<1>1. CASE UNCHANGED collectVars BY <1>1 DEF collectVars
<1>2. CASE \E n \in Motes : Send(n)
  <2>1. PICK n \in Motes : Send(n) BY <1>2
  <2> DEFINE s == bounds.sent
             r == [s EXCEPT ![n] = @ + 1]
             x == [org |-> n, no |-> s[n]]
  <2>2. bounds' = [bounds EXCEPT !.sent[n] = @ + 1, !.used = @ + 1] BY <2>1 DEF Send
  <2>3. bounds'.sent = r BY <2>2
  <2>4. s \in [Motes -> Nat] BY DEF AckInv
  <2>5. IsFiniteSet(Made(s)) OBVIOUS
  <2> HIDE DEF s
  <2>6. ASSUME NEW y \in Made(r) PROVE y \in Made(s) \cup {x}
    <3>1. y \in PacketNames /\ y.no \in 0 .. r[y.org] - 1 /\ y.org \in Motes BY DEF Made, PacketNames
    <3>2. CASE y.org # n BY <2>4, <3>1, <3>2 DEF Made
    <3>3. CASE y.org = n /\ y.no # s[n]
      <4>1. y.no \in 0 .. s[y.org] - 1 BY <2>4, <3>1, <3>3
      <4> QED BY <3>1, <4>1 DEF Made
    <3>4. CASE y.org = n /\ y.no = s[n]
      <4>1. y = x BY <3>1, <3>4 DEF PacketNames
      <4> QED BY <4>1
    <3> QED BY <3>2, <3>3, <3>4
  <2> HIDE DEF r, x
  <2>7. IsFiniteSet(Made(s) \cup {x}) BY <2>5, FS_AddElement
  <2>8. Made(r) \in SUBSET (Made(s) \cup {x}) BY <2>6
  <2>9. IsFiniteSet(Made(r)) BY <2>7, <2>8, FS_Subset
  <2> QED BY <2>3, <2>9
<1>3. CASE \E n \in Motes : TryData(n) \/ TryAck(n) \/ Report(n) \/ Timer(n)
  <2>1. bounds' = bounds BY <1>3 DEF TryData, TryAck, Report, Timer
  <2> QED BY <2>1
<1>4. CASE \E n \in Motes : Silent(n) \/ Expire(n) \/ \E m \in Motes : Gone(n, m)
  <2>1. bounds' = [bounds EXCEPT !.faults = @ + 1, !.used = @ + 1] BY <1>4 DEF Silent, Expire, Gone
  <2>2. Rest BY <2>1
  <2> QED BY <2>2
<1>5. CASE \E n, m \in Motes : Announce(m, n)
  <2>1. PICK n \in Motes, m \in Motes : Announce(m, n) BY <1>5
  <2>2. bounds' = [bounds EXCEPT !.announced[n] = @ + 1] BY <2>1 DEF Announce
  <2>3. Rest BY <2>2
  <2> QED BY <2>3
<1>6. CASE \E n, m \in Motes : Probe(n, m)
  <2>1. PICK n \in Motes, m \in Motes : Probe(n, m) BY <1>6
  <2>2. bounds' = [bounds EXCEPT !.probes[n] = @ + 1, !.used = @ + 1] BY <2>1 DEF Probe
  <2>3. Rest BY <2>2
  <2> QED BY <2>3
<1> QED BY <1>1, <1>2, <1>3, <1>4, <1>5, <1>6 DEF CollectNext

LEMMA DeliveryInit == CollectInit => DeliveryInv
<1> SUFFICES ASSUME CollectInit PROVE DeliveryInv OBVIOUS
<1>1. Sink \in Motes BY CollectAssumption
<1>2. node[Sink] = Blank(Sink) /\ bounds.sent = [n \in Motes |-> 0] /\ took = {} BY <1>1 DEF CollectInit
<1>3. node[Sink].metric = 0 /\ node[Sink].recent = <<>> BY <1>2 DEF Blank
<1>4. Once(node[Sink].recent) BY <1>3 DEF Once
<1>5. Made(bounds.sent) = {} BY <1>2 DEF Made, PacketNames
<1>6. IsFiniteSet(Made(bounds.sent)) BY <1>5, FS_EmptySet
<1> QED BY <1>2, <1>3, <1>4, <1>6, AckInit DEF DeliveryInv

\* What the sink takes is not yet among what it remembers, and there is room.
LEMMA TakingRemembers ==
  ASSUME DeliveryInv, Fresh, AllRemembered, NEW n \in Motes, TryData(n)
  PROVE  /\ node'[Sink].metric = 0 /\ Once(node'[Sink].recent)
         /\ \A x \in PacketNames : <<Sink, x.org, x.no>> \in took' => x \in Range(node'[Sink].recent)
<1> DEFINE c == node[n]
           f == Head(c.mac)
           e == [c EXCEPT !.mac[1].tries = @ + 1]
           M == [node EXCEPT ![n] = e]
           d == NodePacketReceived(node[f.to], f, n)
           K == Had(took, bounds.sent)
           b == node[Sink]
           p == f.packet
           S == Made(bounds.sent)
<1>1. c.mac # <<>> /\ f.type = "DATA" /\ Sink \in Motes /\ AckInv BY CollectAssumption DEF TryData, DeliveryInv
<1>2. /\ Conn(c) /\ Held(n, K[n], c) /\ Held(Sink, K[Sink], b)
      /\ f \in Range(c.mac) /\ f.to \in Motes /\ f.rt \in Nat
      /\ node = [m \in Motes |-> node[m]]
  BY <1>1, AckReady
<1>3. f.to # n /\ f \in DataFrames /\ Fine(K[n], p)
  <2> HIDE DEF c, f, K
  <2> QED BY <1>1, <1>2, FramesAre
<1>4. Quiet(c, e)
  <2> DEFINE H == K[n]
  <2>1. e = [c EXCEPT !.mac[1].tries = @ + 1] /\ Held(n, H, c) BY <1>2
  <2> HIDE DEF c, H, e
  <2> QED BY <1>1, <1>2, <2>1, MacTriedHandles
<1>5. \/ node' = M /\ took' = took
      \/ /\ node' = [M EXCEPT ![f.to] = d]
         /\ took' = IF Takes(node[f.to], f, n) THEN took \cup {<<f.to, p.org, p.no>>} ELSE took
  <2>1. [node EXCEPT ![n].mac[1].tries = @ + 1] = M OBVIOUS
  <2>2. M[f.to] = node[f.to] BY <1>2, <1>3
  <2>3. \/ node' = M /\ took' = took
        \/ /\ node' = [M EXCEPT ![f.to] = NodePacketReceived(M[f.to], f, n)]
           /\ took' = IF Takes(node[f.to], f, n) THEN took \cup {<<f.to, p.org, p.no>>} ELSE took
    BY <2>1 DEF TryData
  <2> HIDE DEF M, f
  <2> QED BY <2>2, <2>3
<1>6. /\ b.metric = 0 /\ Once(b.recent) /\ IsFiniteSet(S) /\ Cardinality(S) <= NumRecent
      /\ \A x \in PacketNames : <<Sink, x.org, x.no>> \in took => x \in Range(b.recent)
  BY DEF DeliveryInv, AllRemembered
<1> DEFINE b2 == node'[Sink]
<1>7. /\ b2.metric = 0
      /\ \/ b2.recent = b.recent
         \/ f.to = Sink /\ ~ Seen(b, p) /\ b2.recent = Remembered(b.recent, p)
      /\ f.to = Sink /\ b2 = d /\ ~ Seen(b, p) => b2.recent = Remembered(b.recent, p)
  <2>1. d = NodePacketReceived(node[f.to], f, n) /\ Quiet(node[n], e) BY <1>4
  <2>2. node' = [node EXCEPT ![n] = e] \/ node' = [[node EXCEPT ![n] = e] EXCEPT ![f.to] = d] BY <1>5
  <2> DEFINE N == node'
  <2>3. N = [node EXCEPT ![n] = e] \/ N = [[node EXCEPT ![n] = e] EXCEPT ![f.to] = d] BY <2>2
  <2> HIDE DEF d, e, f, N
  <2>4. /\ N[Sink].metric = 0
        /\ \/ N[Sink].recent = node[Sink].recent
           \/ /\ Sink = f.to /\ f.type = "DATA" /\ ~ Seen(node[Sink], f.packet)
              /\ N[Sink].recent = Remembered(node[Sink].recent, f.packet)
        /\ Sink = f.to /\ N[Sink] = d /\ f.type = "DATA" /\ ~ Seen(node[Sink], f.packet) =>
             N[Sink].recent = Remembered(node[Sink].recent, f.packet)
    BY <1>1, <1>2, <1>3, <1>6, <2>1, <2>3, ArrivalLeaves
  <2> QED BY <1>1, <2>4 DEF N
<1>8. K[Sink] \subseteq S /\ K[n] \subseteq S BY <1>1 DEF Had
<1>9. b.recent \in Seq(S)
  <2>1. b.recent \in Seq(PacketNames) /\ Range(b.recent) \subseteq S BY <1>2, <1>8 DEF Held
  <2> DEFINE r == b.recent
  <2> HIDE DEF r, S, b
  <2>2. DOMAIN r = 1 .. Len(r) /\ Len(r) \in Nat /\ \A i \in 1 .. Len(r) : r[i] \in S BY <2>1 DEF Range, r
  <2> QED BY <2>1, <2>2 DEF r
<1>10. ASSUME ~ p.probe, ~ Seen(b, p), b2.recent = Remembered(b.recent, p)
       PROVE  Once(b2.recent) /\ Range(b2.recent) = Range(b.recent) \cup {Named(p)}
  <2> DEFINE r == b.recent
             x == Named(p)
  <2>1. x \in S BY <1>3, <1>8, <1>10 DEF Fine
  <2>2. x \notin Range(r) BY <1>10 DEF Seen, Named, Range
  <2> HIDE DEF S, r, x
  <2>3. Len(r) + 1 <= Cardinality(S) BY <1>6, <1>9, <2>1, <2>2, OnceFits DEF r
  <2>4. Len(r) \in Nat /\ Len(Append(r, x)) = Len(r) + 1 BY <1>9, <2>1 DEF r
  <2>5. Cardinality(S) \in Nat /\ NumRecent \in Nat BY <1>6, FS_CardinalityType, CollectAssumption
  <2>6. ~ (Len(Append(r, x)) > NumRecent) BY <1>6, <2>3, <2>4, <2>5
  <2>7. b2.recent = Append(r, x) BY <1>10, <2>6 DEF Remembered, r, x
  <2>8. Once(Append(r, x)) /\ Range(Append(r, x)) = Range(r) \cup {x} BY <1>6, <1>9, <2>1, <2>2, OnceMore DEF r
  <2> QED BY <2>7, <2>8 DEF r, x
<1>11. Once(b2.recent) /\ Range(b.recent) \subseteq Range(b2.recent)
  <2>1. CASE b2.recent = b.recent BY <1>6, <2>1
  <2>2. CASE f.to = Sink /\ ~ Seen(b, p) /\ b2.recent = Remembered(b.recent, p) /\ p.probe
    BY <1>6, <2>2 DEF Remembered
  <2>3. CASE f.to = Sink /\ ~ Seen(b, p) /\ b2.recent = Remembered(b.recent, p) /\ ~ p.probe
    BY <1>10, <2>3
  <2> QED BY <1>7, <2>1, <2>2, <2>3
<1>12. ASSUME NEW x \in PacketNames, <<Sink, x.org, x.no>> \in took' PROVE x \in Range(b2.recent)
  <2>1. CASE <<Sink, x.org, x.no>> \in took BY <1>6, <1>11, <2>1
  <2>2. CASE <<Sink, x.org, x.no>> \notin took
    <3>1. /\ node' = [M EXCEPT ![f.to] = d] /\ Takes(node[f.to], f, n)
          /\ <<Sink, x.org, x.no>> = <<f.to, p.org, p.no>>
      <4> DEFINE tuple == <<Sink, x.org, x.no>>
                 taken == <<f.to, p.org, p.no>>
                 N == node'
                 T == took'
                 C == Takes(node[f.to], f, n)
                 Z == [M EXCEPT ![f.to] = d]
      <4>1. T = took \/ (N = Z /\ T = IF C THEN took \cup {taken} ELSE took) BY <1>5
      <4>2. tuple \in T /\ tuple \notin took BY <1>12, <2>2
      <4> HIDE DEF tuple, taken, N, T, C, Z, M, d, f, p
      <4>3. N = Z /\ C /\ tuple = taken BY <4>1, <4>2
      <4> QED BY <4>3 DEF N, Z, C, tuple, taken
    <3>2. f.to = Sink /\ x.org = p.org /\ x.no = p.no BY <3>1
    <3>3. b2 = d
      <4> DEFINE N == node'
      <4>1. N = [M EXCEPT ![f.to] = d] /\ DOMAIN M = Motes BY <1>2, <3>1
      <4> HIDE DEF M, d, f, N
      <4> QED BY <1>1, <3>2, <4>1 DEF N
    <3>4. ~ p.probe BY <3>1 DEF Takes
    <3>5. x = Named(p) BY <3>2 DEF PacketNames, Named
    <3>6. CASE Seen(b, p)
      <4>1. Named(p) \in Range(b.recent) BY <3>6 DEF Seen, Named, Range
      <4> QED BY <1>11, <3>5, <4>1
    <3>7. CASE ~ Seen(b, p)
      <4>1. b2.recent = Remembered(b.recent, p) BY <1>7, <3>2, <3>3, <3>7
      <4> QED BY <1>10, <3>4, <3>5, <3>7, <4>1
    <3> QED BY <3>6, <3>7
  <2> QED BY <2>1, <2>2
<1> QED BY <1>7, <1>11, <1>12

LEMMA DeliveryNext ==
  ASSUME DeliveryInv, Fresh, AllRemembered, [CollectNext]_collectVars
  PROVE  DeliveryInv'
<1>1. AckInv' /\ IsFiniteSet(Made(bounds'.sent)) BY AckInvNext, MadeGrows DEF DeliveryInv
<1>2. Calm \/ \E n \in Motes : TryData(n)
  <2>1. CASE UNCHANGED collectVars BY <2>1 DEF collectVars, Calm
  <2>2. CASE CollectNext
    BY <2>2, SendAcks, TryAckAcks, ReportAcks, SilentAcks, TimerAcks, ExpireAcks, AnnounceAcks, ProbeAcks, GoneAcks
       DEF CollectNext, DeliveryInv
  <2> QED BY <2>1, <2>2
<1>3. CASE Calm
  <2>1. node'[Sink].metric = 0 /\ node'[Sink].recent = node[Sink].recent /\ took' = took
    BY <1>3, CollectAssumption DEF Calm, DeliveryInv
  <2> QED BY <1>1, <2>1 DEF DeliveryInv
<1>4. CASE \E n \in Motes : TryData(n)
  BY <1>1, <1>4, TakingRemembers DEF DeliveryInv
<1> QED BY <1>2, <1>3, <1>4

LEMMA DeliveredIsSeen == DeliveryInv => DeliveredOnce
<1> SUFFICES ASSUME DeliveryInv, NEW n \in Motes, NEW i \in DOMAIN node[n].mac,
                    NEW p, p = node[n].mac[i].packet, node[n].mac[i].type = "DATA", ~ p.probe,
                    <<Sink, p.org, p.no>> \in took
             PROVE  Seen(node[Sink], p)
  BY DEF DeliveredOnce
<1> DEFINE K == Had(took, bounds.sent)
           f == node[n].mac[i]
<1>1. Held(n, K[n], node[n]) BY AckReady DEF DeliveryInv
<1>2. f \in Range(node[n].mac) BY DEF Range
<1>3. f \in DataFrames
  <2> HIDE DEF K
  <2> QED BY <1>1, <1>2, FramesAre
<1>4. p \in Packets BY <1>3 DEF DataFrames
<1>5. Named(p) \in PacketNames /\ Named(p).org = p.org /\ Named(p).no = p.no
  BY <1>4 DEF Packets, Named, PacketNames
<1>6. Named(p) \in Range(node[Sink].recent) BY <1>5 DEF DeliveryInv
<1> QED BY <1>6 DEF Range, Seen, Named

\* A packet leaves the queue of Collect for an acknowledgement only when the
\* node that sent it has had that very packet (collectsdn.c, handle_ack_packet,
\* which looks at the sender and the number alone): whatever the order of
\* frames, acknowledgements, reports and timers, and however late they come.
\* Two things are left out: a packet that left the queue for its lifetime, with
\* whose number the next is sent, and numbers that have come round.
THEOREM AcksAreTrue == CollectSpec /\ []Fresh => []AckedWasTaken
<1>1. AckInv /\ Fresh /\ [CollectNext]_collectVars => AckInv' BY AckInvNext
<1> QED BY <1>1, AckInit, AcksAreMeant, PTL DEF CollectSpec

\* The user of the sink gets no packet of Collect twice (collectsdn.c,
\* node_packet_received and add_packet_to_recent_packets): what it has got and
\* comes once more, by whatever neighbor and after whatever losses, is among
\* the packets that the sink remembers, as long as no more were sent than those,
\* and no number has come round.
THEOREM NothingTwice == CollectSpec /\ []Fresh /\ []AllRemembered => []DeliveredOnce
<1>1. DeliveryInv /\ Fresh /\ AllRemembered /\ [CollectNext]_collectVars => DeliveryInv' BY DeliveryNext
<1> QED BY <1>1, DeliveryInit, DeliveredIsSeen, PTL DEF CollectSpec

----------------------------------------------------------------------------
(* CollectNd: what the table holds and what was told of it                 *)

\* What the table holds, each neighbor once.
Rows == [name : Neighbors, metric : Nat, mark : {"EDIT", "STATIC", "CHANGED"}]

Distinct(t) == \A i, j \in 1 .. Len(t) : t[i].name = t[j].name => i = j

Tables == {t \in Seq(Rows) : Distinct(t)}

LEMMA MetricIs ==
  ASSUME NEW t \in Tables, NEW i \in 1 .. Len(t)
  PROVE  t[i].name \in Names(t) /\ Metric(t, t[i].name) = t[i].metric
<1> DEFINE j == CHOOSE k \in DOMAIN t : t[k].name = t[i].name
<1>1. t \in Seq(Rows) /\ DOMAIN t = 1 .. Len(t)
  BY DEF Tables
<1>2. j \in DOMAIN t /\ t[j].name = t[i].name
  BY <1>1
<1>3. Metric(t, t[i].name) = t[j].metric
  BY DEF Metric
<1> HIDE DEF j
<1>4. j = i
  BY <1>1, <1>2 DEF Tables, Distinct
<1> QED
  BY <1>1, <1>3, <1>4 DEF Names

LEMMA RowIs ==
  ASSUME NEW e \in Rows, NEW m \in Nat, NEW k \in {"EDIT", "STATIC", "CHANGED"}
  PROVE  /\ [e EXCEPT !.metric = m, !.mark = k] = [name |-> e.name, metric |-> m, mark |-> k]
         /\ [e EXCEPT !.mark = k] = [name |-> e.name, metric |-> e.metric, mark |-> k]
<1>1. PICK a, b, c : e = [name |-> a, metric |-> b, mark |-> c]
  BY DEF Rows
<1>2. [[name |-> a, metric |-> b, mark |-> c] EXCEPT !.mark = k] = [name |-> a, metric |-> b, mark |-> k]
  OBVIOUS
<1>3. [[name |-> a, metric |-> b, mark |-> c] EXCEPT !.metric = m, !.mark = k]
        = [name |-> a, metric |-> m, mark |-> k]
  <2>1. [[name |-> a, metric |-> b, mark |-> c] EXCEPT !.metric = m] = [name |-> a, metric |-> m, mark |-> c]
    OBVIOUS
  <2>2. [[name |-> a, metric |-> m, mark |-> c] EXCEPT !.mark = k] = [name |-> a, metric |-> m, mark |-> k]
    OBVIOUS
  <2> QED
    BY <2>1, <2>2, Zenon
<1>4. e.name = a /\ e.metric = b
  BY <1>1
<1> QED
  BY <1>1, <1>2, <1>3, <1>4, Zenon

LEMMA EditedIs ==
  ASSUME NEW t \in Tables
  PROVE  /\ Edited(t) \in Tables /\ Len(Edited(t)) = Len(t)
         /\ \A i \in 1 .. Len(t) : /\ Edited(t)[i].name = t[i].name
                                   /\ Edited(t)[i].metric = t[i].metric
                                   /\ Edited(t)[i].mark = "EDIT"
<1> DEFINE u == Edited(t)
<1>1. t \in Seq(Rows) /\ DOMAIN t = 1 .. Len(t) /\ Len(t) \in Nat
  BY DEF Tables
<1>2. ASSUME NEW i \in 1 .. Len(t)
      PROVE  /\ u[i] \in Rows /\ u[i].name = t[i].name
             /\ u[i].metric = t[i].metric /\ u[i].mark = "EDIT"
  <2>1. t[i] \in Rows
    BY <1>1
  <2>2. u[i] = [t[i] EXCEPT !.mark = "EDIT"]
    BY <1>1 DEF Edited
  <2>3. [t[i] EXCEPT !.mark = "EDIT"] = [name |-> t[i].name, metric |-> t[i].metric, mark |-> "EDIT"]
    BY <2>1, RowIs
  <2> QED
    BY <2>1, <2>2, <2>3 DEF Rows
<1>3. u = [i \in 1 .. Len(t) |-> u[i]]
  BY <1>1 DEF Edited
<1> HIDE DEF u
<1>4. u \in Seq(Rows) /\ Len(u) = Len(t)
  BY <1>1, <1>2, <1>3
<1>5. Distinct(u)
  BY <1>2, <1>4 DEF Tables, Distinct
<1> QED
  BY <1>2, <1>4, <1>5 DEF u, Tables

LEMMA InsertedIs ==
  ASSUME NEW t \in Tables, NEW x \in Neighbors
  PROVE  /\ Inserted(t, x) \in Tables
         /\ \/ Inserted(t, x) = t /\ (x \in Names(t) \/ Len(t) = TableSize)
            \/ /\ Len(Inserted(t, x)) = Len(t) + 1 /\ x \notin Names(t)
               /\ Inserted(t, x)[Len(t) + 1] = [name |-> x, metric |-> 0, mark |-> "EDIT"]
               /\ \A i \in 1 .. Len(t) : Inserted(t, x)[i] = t[i]
<1> DEFINE e == [name |-> x, metric |-> 0, mark |-> "EDIT"]
           u == Append(t, e)
<1>1. t \in Seq(Rows) /\ DOMAIN t = 1 .. Len(t) /\ Len(t) \in Nat
  BY DEF Tables
<1>2. CASE x \in Names(t) \/ Len(t) = TableSize
  BY <1>2 DEF Inserted
<1>3. CASE ~ (x \in Names(t) \/ Len(t) = TableSize)
  <2>1. Inserted(t, x) = u
    BY <1>3 DEF Inserted
  <2>2. e \in Rows /\ e.name = x
    BY DEF Rows
  <2> HIDE DEF e
  <2>3. /\ u \in Seq(Rows) /\ Len(u) = Len(t) + 1 /\ u[Len(t) + 1] = e
        /\ \A i \in 1 .. Len(t) : u[i] = t[i]
    BY <1>1, <2>2
  <2>4. \A i \in 1 .. Len(t) : t[i].name # x
    BY <1>1, <1>3 DEF Names
  <2> HIDE DEF u
  <2>5. Distinct(u)
    <3> SUFFICES ASSUME NEW i \in 1 .. Len(t) + 1, NEW j \in 1 .. Len(t) + 1, u[i].name = u[j].name
                 PROVE  i = j
      BY <2>3 DEF Distinct
    <3>1. (i = Len(t) + 1 \/ i \in 1 .. Len(t)) /\ (j = Len(t) + 1 \/ j \in 1 .. Len(t))
      BY <1>1
    <3> QED
      BY <2>2, <2>3, <2>4, <3>1 DEF Tables, Distinct
  <2> QED
    BY <1>3, <2>1, <2>3, <2>5 DEF Tables, e
<1> QED
  BY <1>2, <1>3

LEMMA RatedIs ==
  ASSUME NEW e \in Rows, NEW m \in Nat
  PROVE  /\ Rated(e, m) \in Rows /\ Rated(e, m).name = e.name
         /\ Rated(e, m).mark \in {"STATIC", "CHANGED"}
         /\ Rated(e, m).mark = "STATIC" => Rated(e, m).metric = e.metric
<1>1. [e EXCEPT !.metric = m, !.mark = "CHANGED"] = [name |-> e.name, metric |-> m, mark |-> "CHANGED"]
  BY RowIs
<1>2. [e EXCEPT !.mark = "STATIC"] = [name |-> e.name, metric |-> e.metric, mark |-> "STATIC"]
  BY RowIs
<1>3. \/ Rated(e, m) = [name |-> e.name, metric |-> m, mark |-> "CHANGED"]
      \/ Rated(e, m) = [name |-> e.name, metric |-> e.metric, mark |-> "STATIC"]
  BY <1>1, <1>2 DEF Rated
<1>4. e.name \in Neighbors /\ e.metric \in Nat
  BY DEF Rows
<1> QED
  BY <1>3, <1>4 DEF Rows

LEMMA RatedInIs ==
  ASSUME NEW t \in Tables, NEW x \in Neighbors, estimate \in [Neighbors -> Nat]
  PROVE  /\ RatedIn(t, x) \in Tables /\ Len(RatedIn(t, x)) = Len(t)
         /\ \A i \in 1 .. Len(t) :
               /\ RatedIn(t, x)[i].name = t[i].name
               /\ t[i].name # x => RatedIn(t, x)[i] = t[i]
               /\ t[i].name = x =>
                    /\ RatedIn(t, x)[i].mark \in {"STATIC", "CHANGED"}
                    /\ RatedIn(t, x)[i].mark = "STATIC" => RatedIn(t, x)[i].metric = t[i].metric
<1> DEFINE m == estimate[x] % MetricMod
           u == RatedIn(t, x)
<1>0. m \in Nat
  <2>1. estimate[x] \in Nat /\ MetricMod \in Nat \ {0}
    BY CollectNdAssumption
  <2> QED
    BY <2>1
<1>1. t \in Seq(Rows) /\ DOMAIN t = 1 .. Len(t) /\ Len(t) \in Nat
  BY DEF Tables
<1> HIDE DEF m
<1>2. ASSUME NEW i \in 1 .. Len(t)
      PROVE  /\ u[i] \in Rows /\ u[i].name = t[i].name
             /\ t[i].name # x => u[i] = t[i]
             /\ t[i].name = x =>
                  /\ u[i].mark \in {"STATIC", "CHANGED"}
                  /\ u[i].mark = "STATIC" => u[i].metric = t[i].metric
  <2>1. t[i] \in Rows
    BY <1>1
  <2>2. u[i] = IF t[i].name = x THEN Rated(t[i], m) ELSE t[i]
    BY <1>1 DEF RatedIn, m
  <2>3. /\ Rated(t[i], m) \in Rows /\ Rated(t[i], m).name = t[i].name
        /\ Rated(t[i], m).mark \in {"STATIC", "CHANGED"}
        /\ Rated(t[i], m).mark = "STATIC" => Rated(t[i], m).metric = t[i].metric
    BY <1>0, <2>1, RatedIs
  <2> HIDE DEF u
  <2>4. CASE t[i].name = x
    BY <2>2, <2>3, <2>4
  <2>5. CASE t[i].name # x
    BY <2>1, <2>2, <2>5
  <2> QED
    BY <2>4, <2>5
<1>3. u = [i \in 1 .. Len(t) |-> u[i]]
  BY <1>1 DEF RatedIn
<1> HIDE DEF u
<1>4. u \in Seq(Rows) /\ Len(u) = Len(t)
  BY <1>1, <1>2, <1>3
<1>5. Distinct(u)
  BY <1>2, <1>4 DEF Tables, Distinct
<1> QED
  BY <1>2, <1>4, <1>5 DEF u, Tables

\* How far the copying has come with the first k of the list: whom it has come
\* to is no longer marked EDIT, who is not marked CHANGED has the metric he
\* had, and whoever fits has been taken in.
Copying(k, u) ==
  /\ u \in Tables /\ Len(table) <= Len(u)
  /\ \A i \in 1 .. Len(table) : u[i].name = table[i].name
  /\ \A i \in 1 .. Len(u) :
       /\ u[i].mark # "EDIT" <=> \E j \in 1 .. k : list[j] = u[i].name
       /\ u[i].mark # "CHANGED" =>
            u[i].metric = IF i <= Len(table) THEN table[i].metric ELSE 0
       /\ i > Len(table) => u[i].mark # "EDIT"
  /\ Names(table) \subseteq ToSet(list) /\ Len(list) <= TableSize =>
       \A j \in 1 .. k : list[j] \in Names(u)

\* A table of neighbors in the list, one of them missing, is not full.
LEMMA RoomForOne ==
  ASSUME NEW l \in Seq(Neighbors), NEW t \in Tables, Names(t) \subseteq ToSet(l),
         NEW x \in ToSet(l), x \notin Names(t)
  PROVE  Len(t) < Len(l)
<1> DEFINE f == [i \in 1 .. Len(t) |-> t[i].name]
           S == ToSet(l)
<1>1. t \in Seq(Rows) /\ Len(t) \in Nat /\ DOMAIN t = 1 .. Len(t) /\ Len(l) \in Nat /\ DOMAIN l = 1 .. Len(l)
  BY DEF Tables
<1>2. l \in Surjection(1 .. Len(l), S)
  <2>1. l \in [1 .. Len(l) -> S] /\ \A y \in S : \E i \in 1 .. Len(l) : l[i] = y
    BY <1>1 DEF ToSet
  <2> QED
    BY <2>1 DEF Surjection
<1>3. IsFiniteSet(1 .. Len(l)) /\ Cardinality(1 .. Len(l)) = Len(l) /\ Cardinality(1 .. Len(t)) = Len(t)
  <2>1. \A n \in Nat : IsFiniteSet(1 .. n) /\ Cardinality(1 .. n) = n
    <3> SUFFICES ASSUME NEW n \in Nat PROVE IsFiniteSet(1 .. n) /\ Cardinality(1 .. n) = n
      OBVIOUS
    <3>1. IsFiniteSet(1 .. n) /\ Cardinality(1 .. n) = IF 1 > n THEN 0 ELSE n - 1 + 1
      BY FS_Interval
    <3> QED
      BY <3>1
  <2> QED
    BY <1>1, <2>1, Zenon
<1>4. IsFiniteSet(S) /\ Cardinality(S) <= Len(l)
  BY <1>2, <1>3, FS_Surjection
<1>5. IsFiniteSet(S \ {x}) /\ Cardinality(S \ {x}) = Cardinality(S) - 1
  BY <1>4, FS_RemoveElement
<1>6. f \in Injection(1 .. Len(t), S \ {x})
  <2>1. \A i \in 1 .. Len(t) : t[i].name \in S \ {x}
    BY <1>1 DEF Names
  <2>2. \A i, j \in 1 .. Len(t) : f[i] = f[j] => i = j
    BY <1>1 DEF Tables, Distinct
  <2>3. f \in [1 .. Len(t) -> S \ {x}]
    BY <2>1
  <2> HIDE DEF f, S
  <2> QED
    BY <2>2, <2>3 DEF Injection, IsInjective
<1>7. Len(t) <= Cardinality(S \ {x})
  <2> HIDE DEF f, S
  <2> QED
    BY <1>3, <1>5, <1>6, FS_Injection
<1>8. Cardinality(S) \in Nat
  BY <1>4, FS_CardinalityType
<1> QED
  BY <1>1, <1>4, <1>5, <1>7, <1>8

LEMMA CopyingBegins ==
  ASSUME table \in Tables
  PROVE  Copying(0, Edited(table))
<1>1. /\ Edited(table) \in Tables /\ Len(Edited(table)) = Len(table)
      /\ \A i \in 1 .. Len(table) : /\ Edited(table)[i].name = table[i].name
                                    /\ Edited(table)[i].metric = table[i].metric
                                    /\ Edited(table)[i].mark = "EDIT"
  BY EditedIs
<1>2. Len(table) \in Nat
  BY DEF Tables
<1>3. \A i \in 1 .. Len(table) : i <= Len(table) /\ ~ (i > Len(table))
  BY <1>2
<1>4. 1 .. 0 = {} /\ Len(table) <= Len(table)
  BY <1>2
<1> QED
  BY <1>1, <1>3, <1>4 DEF Copying

LEMMA CopyingGoesOn ==
  ASSUME list \in Seq(Neighbors), Once(list), estimate \in [Neighbors -> Nat], table \in Tables,
         NEW k \in 0 .. Len(list) - 1, NEW u, Copying(k, u)
  PROVE  Copying(k + 1, RatedIn(Inserted(u, list[k + 1]), list[k + 1]))
<1> DEFINE x == list[k + 1]
           v == Inserted(u, x)
           w == RatedIn(v, x)
<1>0. /\ k + 1 \in 1 .. Len(list) /\ Len(list) \in Nat /\ x \in Neighbors
      /\ Len(table) \in Nat /\ k \in Nat
  BY DEF Tables
<1>1. u \in Tables /\ Len(u) \in Nat /\ Len(table) <= Len(u) /\ DOMAIN u = 1 .. Len(u)
  BY DEF Copying, Tables
<1>2. /\ v \in Tables
      /\ \/ v = u /\ (x \in Names(u) \/ Len(u) = TableSize)
         \/ /\ Len(v) = Len(u) + 1 /\ x \notin Names(u)
            /\ v[Len(u) + 1] = [name |-> x, metric |-> 0, mark |-> "EDIT"]
            /\ \A i \in 1 .. Len(u) : v[i] = u[i]
  BY <1>0, <1>1, InsertedIs
<1> HIDE DEF v, x
<1>3. /\ w \in Tables /\ Len(w) = Len(v)
      /\ \A i \in 1 .. Len(v) :
            /\ w[i].name = v[i].name
            /\ v[i].name # x => w[i] = v[i]
            /\ v[i].name = x => /\ w[i].mark \in {"STATIC", "CHANGED"}
                                /\ w[i].mark = "STATIC" => w[i].metric = v[i].metric
  BY <1>0, <1>2, RatedInIs
<1> HIDE DEF w
<1>4. Len(v) \in Nat /\ Len(u) <= Len(v) /\ DOMAIN w = 1 .. Len(v) /\ DOMAIN v = 1 .. Len(v)
  BY <1>1, <1>2, <1>3 DEF Tables
<1>5. \A i \in 1 .. Len(v) : \/ i \in 1 .. Len(u) /\ v[i] = u[i]
                             \/ /\ i = Len(u) + 1 /\ i > Len(table)
                                /\ v[i] = [name |-> x, metric |-> 0, mark |-> "EDIT"]
  BY <1>0, <1>1, <1>2
<1>6. \A j \in 1 .. k : list[j] # x
  <2>1. \A j \in 1 .. k : j \in 1 .. Len(list) /\ j # k + 1
    BY <1>0
  <2> QED
    BY <1>0, <2>1 DEF Once, x
<1>7. \A y : (\E j \in 1 .. k + 1 : list[j] = y) <=> y = x \/ \E j \in 1 .. k : list[j] = y
  <2>1. 1 .. k + 1 = (1 .. k) \union {k + 1}
    BY <1>0
  <2> QED
    BY <2>1 DEF x
<1>8. ASSUME NEW i \in 1 .. Len(v)
      PROVE  /\ w[i].mark # "EDIT" <=> \E j \in 1 .. k + 1 : list[j] = w[i].name
             /\ w[i].mark # "CHANGED" =>
                  w[i].metric = IF i <= Len(table) THEN table[i].metric ELSE 0
             /\ i > Len(table) => w[i].mark # "EDIT"
  <2>1. CASE v[i].name = x
    <3>1. w[i].mark # "EDIT" /\ \E j \in 1 .. k + 1 : list[j] = w[i].name
      BY <1>3, <1>7, <2>1
    <3>2. v[i].mark = "EDIT" /\ v[i].metric = IF i <= Len(table) THEN table[i].metric ELSE 0
      <4>1. CASE i \in 1 .. Len(u) /\ v[i] = u[i]
        <5>1. u[i].mark = "EDIT"
          BY <1>6, <2>1, <4>1 DEF Copying
        <5> QED
          BY <4>1, <5>1 DEF Copying
      <4>2. CASE /\ i = Len(u) + 1 /\ i > Len(table)
                 /\ v[i] = [name |-> x, metric |-> 0, mark |-> "EDIT"]
        <5>1. ~ (i <= Len(table))
          BY <1>0, <1>1, <4>2
        <5> QED
          BY <4>2, <5>1
      <4> QED
        BY <1>5, <4>1, <4>2
    <3>3. w[i].mark # "CHANGED" => w[i].metric = v[i].metric
      BY <1>3, <2>1
    <3> QED
      BY <3>1, <3>2, <3>3
  <2>2. CASE v[i].name # x
    <3>1. i \in 1 .. Len(u) /\ w[i] = u[i] /\ u[i].name # x
      BY <1>3, <1>5, <2>2
    <3> QED
      BY <1>7, <3>1 DEF Copying
  <2> QED
    BY <2>1, <2>2
<1>9. \A i \in 1 .. Len(table) : w[i].name = table[i].name
  <2>1. \A i \in 1 .. Len(table) : i \in 1 .. Len(v) /\ i \in 1 .. Len(u) /\ i # Len(u) + 1
    BY <1>0, <1>1, <1>4
  <2> QED
    BY <1>3, <1>5, <2>1 DEF Copying
<1>10. ASSUME Names(table) \subseteq ToSet(list), Len(list) <= TableSize
       PROVE  \A j \in 1 .. k + 1 : list[j] \in Names(w)
  <2>1. Names(w) = Names(v)
    BY <1>3, <1>4 DEF Names
  <2>2. Names(u) \subseteq Names(v)
    <3>1. \A i \in 1 .. Len(u) : i \in 1 .. Len(v)
      BY <1>1, <1>4
    <3>2. \A i \in 1 .. Len(u) : i # Len(u) + 1
      BY <1>1
    <3>3. \A i \in 1 .. Len(u) : v[i] = u[i]
      BY <1>5, <3>1, <3>2
    <3> QED
      BY <1>1, <1>4, <3>1, <3>3 DEF Names
  <2>3. x \in Names(v)
    <3>1. CASE x \in Names(u)
      BY <2>2, <3>1
    <3>2. CASE Len(v) = Len(u) + 1 /\ v[Len(u) + 1] = [name |-> x, metric |-> 0, mark |-> "EDIT"]
      <4>1. Len(u) + 1 \in DOMAIN v /\ v[Len(u) + 1].name = x
        BY <1>1, <1>4, <3>2
      <4> QED
        BY <4>1 DEF Names
    <3>3. CASE Len(u) = TableSize /\ x \notin Names(u)
      <4>1. Names(u) \subseteq ToSet(list)
        <5> SUFFICES ASSUME NEW i \in 1 .. Len(u) PROVE u[i].name \in ToSet(list)
          BY <1>1 DEF Names
        <5>1. CASE i <= Len(table)
          <6>1. i \in 1 .. Len(table) /\ i \in DOMAIN table
            BY <1>0, <5>1 DEF Tables
          <6> QED
            BY <1>10, <6>1 DEF Copying, Names
        <5>2. CASE ~ (i <= Len(table))
          <6>1. i > Len(table)
            BY <1>0, <5>2
          <6>2. PICK j \in 1 .. k : list[j] = u[i].name
            BY <6>1 DEF Copying
          <6>3. j \in DOMAIN list
            BY <1>0
          <6> QED
            BY <6>2, <6>3 DEF ToSet
        <5> QED
          BY <5>1, <5>2
      <4>2. x \in ToSet(list)
        BY <1>0 DEF x, ToSet
      <4>3. Len(u) < Len(list)
        BY <1>1, <3>3, <4>1, <4>2, RoomForOne
      <4>4. TableSize \in Nat
        BY CollectNdAssumption
      <4> QED
        BY <1>0, <1>1, <1>10, <3>3, <4>3, <4>4
    <3> QED
      BY <1>2, <3>1, <3>2, <3>3
  <2>4. \A j \in 1 .. k : list[j] \in Names(u)
    BY <1>10 DEF Copying
  <2>5. \A j \in 1 .. k + 1 : list[j] = x \/ j \in 1 .. k
    BY <1>0 DEF x
  <2> QED
    BY <2>1, <2>2, <2>3, <2>4, <2>5
<1>11. Len(table) <= Len(w)
  BY <1>0, <1>1, <1>3, <1>4
<1>12. Copying(k + 1, w)
  BY <1>3, <1>8, <1>9, <1>10, <1>11 DEF Copying
<1> QED
  BY <1>12 DEF w, v, x

\* What a pass makes of the table before it removes anybody.
LEMMA CopiedCopies ==
  ASSUME list \in Seq(Neighbors), Once(list), estimate \in [Neighbors -> Nat], table \in Tables
  PROVE  Copying(Len(list), Copied(table))
<1> DEFINE n == Len(list)
           b == Edited(table)
           copied == CHOOSE f : f = [k \in 0 .. n |->
                       IF k = 0 THEN b ELSE RatedIn(Inserted(f[k - 1], list[k]), list[k])]
           step == [y \in Tables \X (1 .. n) |-> RatedIn(Inserted(y[1], list[y[2]]), list[y[2]])]
<1>0. n \in Nat
  OBVIOUS
<1>1. b \in Tables
  BY EditedIs
<1>2. Copied(table) = copied[n]
  BY DEF Copied
<1> HIDE DEF b
<1>3. \A t \in Tables, k \in 1 .. n : /\ step[<<t, k>>] = RatedIn(Inserted(t, list[k]), list[k])
                                      /\ step[<<t, k>>] \in Tables
  <2>1. ASSUME NEW t \in Tables, NEW k \in 1 .. n
        PROVE  RatedIn(Inserted(t, list[k]), list[k]) \in Tables
    <3>1. list[k] \in Neighbors
      OBVIOUS
    <3>2. Inserted(t, list[k]) \in Tables
      BY <3>1, InsertedIs
    <3> QED
      BY <3>1, <3>2, RatedInIs
  <2> QED
    BY <2>1
<1>4. PICK h \in [0 .. n -> Tables] : Goes(h, n, b, step)
  <2> HIDE DEF step, n
  <2>1. Stays(step, n, Tables)
    BY <1>3 DEF Stays
  <2>2. Runs(n, Tables, b, step)
    BY <1>0, <1>1, <2>1, Recursion
  <2> QED
    BY <2>2 DEF Runs
<1> HIDE DEF step, n
<1>5. h = [k \in 0 .. n |-> IF k = 0 THEN b ELSE RatedIn(Inserted(h[k - 1], list[k]), list[k])]
  <2>1. \A k \in 1 .. n : h[k - 1] \in Tables
    BY <1>0
  <2>2. \A k \in 1 .. n : h[k] = RatedIn(Inserted(h[k - 1], list[k]), list[k])
    BY <1>3, <1>4, <2>1 DEF Goes
  <2>3. h[0] = b
    BY <1>4 DEF Goes
  <2>4. \A k \in 0 .. n : k # 0 => k \in 1 .. n
    BY <1>0
  <2>5. \A k \in 0 .. n :
          h[k] = IF k = 0 THEN b ELSE RatedIn(Inserted(h[k - 1], list[k]), list[k])
    BY <2>2, <2>3, <2>4, Zenon
  <2>6. h = [k \in 0 .. n |-> h[k]]
    OBVIOUS
  <2> QED
    BY <2>5, <2>6, Zenon
<1>6. copied = [k \in 0 .. n |->
        IF k = 0 THEN b ELSE RatedIn(Inserted(copied[k - 1], list[k]), list[k])]
  BY <1>5
<1> HIDE DEF copied
<1>7. \A k \in 0 .. n :
        copied[k] = IF k = 0 THEN b ELSE RatedIn(Inserted(copied[k - 1], list[k]), list[k])
  BY <1>6
<1> DEFINE P == {k \in 0 .. n : Copying(k, copied[k])}
<1>8. 0 \in P
  <2>1. 0 \in 0 .. n
    BY <1>0
  <2>2. copied[0] = b
    BY <1>7, <2>1
  <2> QED
    BY <2>1, <2>2, CopyingBegins DEF b
<1>9. ASSUME NEW k \in 0 .. n - 1, k \in P PROVE k + 1 \in P
  <2>1. k + 1 \in 0 .. n /\ k + 1 # 0 /\ (k + 1) - 1 = k
    BY <1>0
  <2>2. copied[k + 1] = RatedIn(Inserted(copied[(k + 1) - 1], list[k + 1]), list[k + 1])
    BY <1>7, <2>1, Zenon
  <2>3. Copying(k + 1, RatedIn(Inserted(copied[k], list[k + 1]), list[k + 1]))
    BY <1>9, CopyingGoesOn DEF n
  <2> QED
    BY <2>1, <2>2, <2>3
<1>10. n \in P
  <2> HIDE DEF P
  <2>1. \A k \in 0 .. n - 1 : k \in P => k + 1 \in P
    BY <1>9
  <2>2. \A k \in 0 .. n : k \in P
    BY <1>0, <1>8, <2>1, Induct
  <2> QED
    BY <1>0, <2>2
<1> QED
  BY <1>2, <1>10 DEF n

\* Updated keeps the rows no longer marked EDIT, and no others.
LEMMA UpdatedIs ==
  ASSUME NEW t \in Tables
  PROVE  /\ Updated(t) \in Tables
         /\ \A i \in 1 .. Len(Updated(t)) :
              \E k \in 1 .. Len(t) : Updated(t)[i] = t[k] /\ t[k].mark # "EDIT"
         /\ \A k \in 1 .. Len(t) : t[k].mark # "EDIT" =>
              \E i \in 1 .. Len(Updated(t)) : Updated(t)[i] = t[k]
<1> DEFINE K == {e \in ToSet(t) : e.mark # "EDIT"}
           u == Only(t, K)
<1>0. t \in Seq(Rows) /\ DOMAIN t = 1 .. Len(t)
  BY DEF Tables
<1>1. Updated(t) = u
  BY DEF Updated
<1>2. \A k \in 1 .. Len(t) : t[k] \in K <=> t[k].mark # "EDIT"
  BY <1>0 DEF ToSet
<1> HIDE DEF K
<1>3. u \in Seq(Rows)
  BY <1>0, OnlyPicks
<1>4. PICK f : Picks(f, u, t, Len(t), K)
  BY <1>0, OnlyPicks
<1>5. \A x : (\E i \in 1 .. Len(u) : u[i] = x) <=> x \in K /\ \E k \in 1 .. Len(t) : t[k] = x
  BY <1>0, OnlySet
<1> HIDE DEF u
<1>6. ASSUME NEW i \in 1 .. Len(u), NEW j \in 1 .. Len(u), u[i].name = u[j].name PROVE i = j
  <2>1. f[i] \in 1 .. Len(t) /\ f[j] \in 1 .. Len(t) /\ t[f[i]] = u[i] /\ t[f[j]] = u[j]
    BY <1>4 DEF Picks
  <2>2. f[i] = f[j]
    BY <1>6, <2>1 DEF Tables, Distinct
  <2>3. ~ (i < j) /\ ~ (j < i)
    BY <1>4, <2>1, <2>2 DEF Picks
  <2> QED
    BY <1>3, <2>3
<1>7. u \in Tables
  BY <1>3, <1>6 DEF Tables, Distinct
<1>8. ASSUME NEW i \in 1 .. Len(u) PROVE \E k \in 1 .. Len(t) : u[i] = t[k] /\ t[k].mark # "EDIT"
  <2>1. PICK k \in 1 .. Len(t) : t[k] = u[i] /\ u[i] \in K
    BY <1>5
  <2> QED
    BY <1>2, <2>1
<1>9. ASSUME NEW k \in 1 .. Len(t), t[k].mark # "EDIT" PROVE \E i \in 1 .. Len(u) : u[i] = t[k]
  <2>1. t[k] \in K
    BY <1>2, <1>9
  <2> QED
    BY <1>5, <2>1
<1> QED
  BY <1>1, <1>7, <1>8, <1>9

\* The inductive invariant of the table: nobody twice in it or in Collect's
\* list, and nobody in it who was not in the list at the last pass.
TableInv ==
  /\ list \in Seq(Neighbors) /\ Once(list)
  /\ estimate \in [Neighbors -> Nat]
  /\ table \in Tables /\ told \in Tables
  /\ Names(table) \subseteq ToSet(before)
  /\ TableWasTold

\* What a pass leaves in the table.
LEMMA PassLeaves ==
  ASSUME TableInv, Pass
  PROVE  /\ Updated(Copied(table)) \in Tables
         /\ Names(Updated(Copied(table))) \subseteq ToSet(list)
         /\ ~ Changed(Copied(table)) =>
              /\ Names(table) \subseteq Names(Updated(Copied(table)))
              /\ \A x \in Names(Updated(Copied(table))) :
                   Metric(Updated(Copied(table)), x)
                     = IF x \in Names(table) THEN Metric(table, x) ELSE 0
         /\ Names(table) \subseteq ToSet(list) /\ Len(list) <= TableSize =>
              ToSet(list) \subseteq Names(Updated(Copied(table)))
<1> DEFINE t == Copied(table)
           u == Updated(t)
<1>0. /\ list \in Seq(Neighbors) /\ Once(list) /\ estimate \in [Neighbors -> Nat]
      /\ table \in Tables
      /\ DOMAIN list = 1 .. Len(list) /\ DOMAIN table = 1 .. Len(table) /\ Len(table) \in Nat
  BY DEF TableInv, Tables
<1>1. Copying(Len(list), t)
  BY <1>0, CopiedCopies
<1> HIDE DEF t
<1>2. t \in Tables /\ DOMAIN t = 1 .. Len(t) /\ Len(t) \in Nat /\ Len(table) <= Len(t)
  BY <1>1 DEF Copying, Tables
<1>3. /\ u \in Tables
      /\ \A i \in 1 .. Len(u) : \E k \in 1 .. Len(t) : u[i] = t[k] /\ t[k].mark # "EDIT"
      /\ \A k \in 1 .. Len(t) : t[k].mark # "EDIT" => \E i \in 1 .. Len(u) : u[i] = t[k]
  BY <1>2, UpdatedIs
<1> HIDE DEF u
<1>4. DOMAIN u = 1 .. Len(u)
  BY <1>3 DEF Tables
<1>5. ASSUME NEW i \in 1 .. Len(t), t[i].mark # "EDIT"
      PROVE  t[i].name \in Names(u) /\ Metric(u, t[i].name) = t[i].metric
  <2>1. PICK j \in 1 .. Len(u) : u[j] = t[i]
    BY <1>3, <1>5
  <2>2. u[j].name \in Names(u) /\ Metric(u, u[j].name) = u[j].metric
    BY <1>3, MetricIs
  <2> QED
    BY <2>1, <2>2
<1>6. Names(u) \subseteq ToSet(list)
  <2> SUFFICES ASSUME NEW i \in 1 .. Len(u) PROVE u[i].name \in ToSet(list)
    BY <1>4 DEF Names
  <2>1. PICK k \in 1 .. Len(t) : u[i] = t[k] /\ t[k].mark # "EDIT"
    BY <1>3
  <2>2. PICK j \in 1 .. Len(list) : list[j] = t[k].name
    BY <1>1, <2>1 DEF Copying
  <2> QED
    BY <1>0, <2>1, <2>2 DEF ToSet
<1>7. ASSUME ~ Changed(t)
      PROVE  /\ Names(table) \subseteq Names(u)
             /\ \A x \in Names(u) :
                  Metric(u, x) = IF x \in Names(table) THEN Metric(table, x) ELSE 0
  <2>1. \A i \in 1 .. Len(t) : t[i].mark = "STATIC"
    BY <1>2, <1>7 DEF Changed
  <2>2. ASSUME NEW i \in 1 .. Len(table)
        PROVE  table[i].name \in Names(u)
    <3>1. i \in 1 .. Len(t)
      BY <1>0, <1>2
    <3>2. t[i].name = table[i].name
      BY <1>1 DEF Copying
    <3> QED
      BY <1>5, <2>1, <3>1, <3>2
  <2>3. ASSUME NEW i \in 1 .. Len(u)
        PROVE  Metric(u, u[i].name) = IF u[i].name \in Names(table) THEN Metric(table, u[i].name) ELSE 0
    <3>1. PICK k \in 1 .. Len(t) : u[i] = t[k]
      BY <1>3
    <3>2. Metric(u, u[i].name) = t[k].metric
      BY <1>5, <2>1, <3>1
    <3>3. t[k].metric = IF k <= Len(table) THEN table[k].metric ELSE 0
      BY <1>1, <2>1, <3>1 DEF Copying
    <3>4. CASE k <= Len(table)
      <4>1. k \in 1 .. Len(table)
        BY <1>0, <3>4
      <4>2. table[k].name = u[i].name
        BY <1>1, <3>1, <4>1 DEF Copying
      <4>3. table[k].name \in Names(table) /\ Metric(table, table[k].name) = table[k].metric
        BY <1>0, <4>1, MetricIs
      <4> QED
        BY <3>2, <3>3, <3>4, <4>2, <4>3
    <3>5. CASE ~ (k <= Len(table))
      <4>1. ASSUME NEW j \in 1 .. Len(table) PROVE table[j].name # t[k].name
        <5>1. j \in 1 .. Len(t) /\ j # k
          BY <1>0, <1>2, <3>5
        <5>2. t[j].name = table[j].name
          BY <1>1 DEF Copying
        <5> QED
          BY <1>2, <5>1, <5>2 DEF Tables, Distinct
      <4>2. u[i].name \notin Names(table)
        BY <1>0, <3>1, <4>1 DEF Names
      <4> QED
        BY <3>2, <3>3, <3>5, <4>2
    <3> QED
      BY <3>4, <3>5
  <2> QED
    BY <1>0, <1>4, <2>2, <2>3 DEF Names
<1>8. ASSUME Names(table) \subseteq ToSet(list), Len(list) <= TableSize
      PROVE  ToSet(list) \subseteq Names(u)
  <2> SUFFICES ASSUME NEW j \in 1 .. Len(list) PROVE list[j] \in Names(u)
    BY <1>0 DEF ToSet
  <2>1. list[j] \in Names(t)
    BY <1>1, <1>8 DEF Copying
  <2>2. PICK i \in 1 .. Len(t) : t[i].name = list[j]
    BY <1>2, <2>1 DEF Names
  <2>3. t[i].mark # "EDIT"
    BY <1>1, <2>2 DEF Copying
  <2> QED
    BY <1>5, <2>2, <2>3
<1> QED
  BY <1>3, <1>6, <1>7, <1>8 DEF t, u

LEMMA PassKeepsTable ==
  ASSUME TableInv, Pass
  PROVE  TableInv'
<1> DEFINE t == Copied(table)
           u == Updated(t)
<1>1. /\ u \in Tables
      /\ Names(u) \subseteq ToSet(list)
      /\ ~ Changed(t) => /\ Names(table) \subseteq Names(u)
                         /\ \A x \in Names(u) :
                              Metric(u, x) = IF x \in Names(table) THEN Metric(table, x) ELSE 0
  BY PassLeaves
<1>2. /\ table' = u /\ told' = (IF Changed(t) THEN u ELSE told)
      /\ before' = list /\ UNCHANGED <<list, estimate>>
  BY DEF Pass
<1> HIDE DEF t, u
<1>3. /\ Names(told) \subseteq Names(table)
      /\ \A x \in Names(table) :
           IF x \in Names(told) THEN Metric(table, x) = Metric(told, x) ELSE Metric(table, x) = 0
  BY DEF TableInv, TableWasTold
<1>4. TableWasTold'
  <2>1. CASE Changed(t)
    BY <1>2, <2>1 DEF TableWasTold
  <2>2. CASE ~ Changed(t)
    <3>1. /\ Names(told) \subseteq Names(u)
          /\ \A x \in Names(u) :
               IF x \in Names(told) THEN Metric(u, x) = Metric(told, x) ELSE Metric(u, x) = 0
      BY <1>1, <1>3, <2>2
    <3>2. table' = u /\ told' = told
      BY <1>2, <2>2
    <3> QED
      BY <3>1, <3>2 DEF TableWasTold
  <2> QED
    BY <2>1, <2>2
<1>5. table' \in Tables /\ told' \in Tables
  BY <1>1, <1>2 DEF TableInv
<1>6. Names(table') \subseteq ToSet(before')
  BY <1>1, <1>2
<1> QED
  BY <1>2, <1>4, <1>5, <1>6 DEF TableInv

LEMMA HearKeepsTable ==
  ASSUME TableInv, NEW x \in Neighbors, Hear(x)
  PROVE  TableInv'
<1>0. /\ list \in Seq(Neighbors) /\ Once(list) /\ Len(list) \in Nat
      /\ DOMAIN list = 1 .. Len(list) /\ estimate \in [Neighbors -> Nat]
  BY DEF TableInv
<1>1. x \notin ToSet(list) /\ list' = <<x>> \o list /\ UNCHANGED <<table, told, before>>
  BY DEF Hear
<1>2. estimate' \in [Neighbors -> Nat]
  BY <1>0, CollectNdAssumption DEF Hear
<1> DEFINE l == <<x>> \o list
<1>3. l \in Seq(Neighbors) /\ Len(l) = Len(list) + 1
  BY <1>0
<1>4. l[1] = x /\ \A i \in 1 .. Len(list) + 1 : i # 1 => i - 1 \in 1 .. Len(list) /\ l[i] = list[i - 1]
  BY <1>0
<1> HIDE DEF l
<1>5. \A i \in 1 .. Len(list) : list[i] # x
  BY <1>0, <1>1 DEF ToSet
<1>6. Once(l)
  <2> SUFFICES ASSUME NEW i \in 1 .. Len(list) + 1, NEW j \in 1 .. Len(list) + 1, l[i] = l[j]
               PROVE  i = j
    BY <1>3 DEF Once
  <2>1. CASE i = 1 \/ j = 1
    BY <1>4, <1>5, <2>1
  <2>2. CASE i # 1 /\ j # 1
    <3>1. i - 1 = j - 1
      BY <1>0, <1>4, <2>2 DEF Once
    <3> QED
      BY <3>1, <1>0
  <2> QED
    BY <2>1, <2>2
<1>7. list' = l
  BY <1>1 DEF l
<1> QED
  BY <1>1, <1>2, <1>3, <1>6, <1>7 DEF TableInv, Once, TableWasTold

LEMMA ForgetKeepsTable ==
  ASSUME TableInv, NEW x \in Neighbors, Forget(x)
  PROVE  TableInv'
<1> DEFINE S == ToSet(list) \ {x}
           l == Only(list, S)
<1>0. list \in Seq(Neighbors) /\ Once(list)
  BY DEF TableInv
<1>1. list' = l /\ UNCHANGED <<estimate, table, told, before>>
  BY DEF Forget
<1> HIDE DEF S
<1>2. l \in Seq(Neighbors)
  BY <1>0, OnlyPicks
<1>3. \A i, j \in 1 .. Len(list) : list[i] = list[j] => i = j
  BY <1>0 DEF Once
<1>4. \A i, j \in 1 .. Len(l) : l[i] = l[j] => i = j
  BY <1>0, <1>3, OnlyOnce
<1> HIDE DEF l
<1>5. Once(l)
  BY <1>4 DEF Once
<1> QED
  BY <1>1, <1>2, <1>5 DEF TableInv, Once, TableWasTold

LEMMA TableInvNext ==
  ASSUME TableInv, [CollectNdNext]_ndVars
  PROVE  TableInv'
<1>1. CASE Pass
  BY <1>1, PassKeepsTable
<1>2. ASSUME NEW x \in Neighbors, Hear(x) PROVE TableInv'
  BY <1>2, HearKeepsTable
<1>3. ASSUME NEW x \in Neighbors, Forget(x) PROVE TableInv'
  BY <1>3, ForgetKeepsTable
<1>4. ASSUME NEW x \in Neighbors, LinkEstimateUpdate(x) PROVE TableInv'
  <2>1. estimate' \in [Neighbors -> Nat] /\ UNCHANGED <<list, table, told, before>>
    BY <1>4, CollectNdAssumption DEF LinkEstimateUpdate, TableInv
  <2> QED
    BY <2>1 DEF TableInv, TableWasTold
<1>5. CASE UNCHANGED ndVars
  BY <1>5 DEF TableInv, TableWasTold, ndVars
<1> QED
  BY <1>1, <1>2, <1>3, <1>4, <1>5 DEF CollectNdNext

LEMMA TableInvInit == CollectNdInit => TableInv
<1> SUFFICES ASSUME CollectNdInit PROVE TableInv
  OBVIOUS
<1>1. /\ list = <<>> /\ table = <<>> /\ told = <<>> /\ before = <<>>
      /\ estimate = [x \in Neighbors |-> 0]
  BY DEF CollectNdInit
<1>2. Once(<<>>) /\ <<>> \in Seq(Neighbors)
  BY DEF Once
<1>3. <<>> \in Tables /\ Names(<<>>) = {}
  BY DEF Tables, Distinct, Names
<1> QED
  BY <1>1, <1>2, <1>3 DEF TableInv, TableWasTold

\* What the node reports from is what its last report said: an entry that
\* came, went or moved by more than half since then has had a report sent
\* (sdn_neighbor_table_update), however Collect's list changes between
\* passes. TableInv is inductive.
THEOREM ReportsFollowTable == CollectNdSpec => []TableWasTold
<1>1. TableInv => TableWasTold
  BY DEF TableInv
<1> QED
  BY <1>1, TableInvInit, TableInvNext, PTL DEF CollectNdSpec

\* Two passes over the same neighbors are enough for the table to hold just
\* them, when they fit: after the first nobody else is in it, so the second
\* finds room for each.
THEOREM TwoPassesSettle == CollectNdSpec => TableSettles
<1>1. ASSUME TableInv, [CollectNdNext]_ndVars
      PROVE  [passes' # passes /\ list = before /\ Len(list) <= TableSize =>
                Names(table') = ToSet(list)]_ndVars
  <2> SUFFICES ASSUME passes' # passes, list = before, Len(list) <= TableSize
               PROVE  Names(table') = ToSet(list)
    OBVIOUS
  <2>1. Pass
    BY <1>1 DEF CollectNdNext, ndVars, Hear, Forget, LinkEstimateUpdate
  <2>2. table' = Updated(Copied(table))
    BY <2>1 DEF Pass
  <2>3. Names(table) \subseteq ToSet(list)
    BY <1>1 DEF TableInv
  <2>4. Names(Updated(Copied(table))) = ToSet(list)
    BY <1>1, <2>1, <2>3, PassLeaves
  <2> QED
    BY <2>2, <2>4
<1> QED
  BY <1>1, TableInvInit, TableInvNext, PTL DEF CollectNdSpec, TableSettles
=============================================================================
