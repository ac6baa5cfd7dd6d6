----------------------------- MODULE SymmcheckCD -----------------------------
(***************************************************************************)
(* Controller discovery with link symmetry check (contiki-sdn/sdn-cd/      *)
(* symmcheck-cd.c): every node keeps the hop count to the controller and   *)
(* the next hop it learned it from.  A beacon carries the sender's metric  *)
(* and its neighbors, and is believed only by those among them.            *)
(*                                                                         *)
(* Neighbor discovery, external to this module, adds to a node's neighbor  *)
(* table the nodes it can hear.  A beacon goes through the sender's send   *)
(* queue, the radio and the receiver's receive queue: in order on every    *)
(* link, at any later time, or not at all.                                 *)
(***************************************************************************)
EXTENDS Integers, Sequences, FiniteSets

CONSTANTS
  Nodes,
  Controller,
  Links,        \* <<m, n>>: n hears what m sends
  MaxMetric,    \* MAX_METRIC, all ones: adding one to it gives zero
  MaxTransit,   \* bound: beacons underway on a link
  MaxRestarts   \* bound: restarts of nodes

ASSUME SymmcheckAssumption ==
  /\ IsFiniteSet(Nodes) /\ Controller \in Nodes
  /\ Links \subseteq Nodes \X Nodes
  /\ MaxMetric \in Nat \ {0} /\ MaxTransit \in Nat /\ MaxRestarts \in Nat

VARIABLES
  metric,      \* to_c_metric
  nextHop,     \* next_hop_local
  neighbors,   \* the neighbor table
  announced,   \* last_neighbor_num: the neighbor count of the last beacon
  urgent,      \* a CD_LOCAL_EVENT with RIGHT_AWAY is posted
  air,         \* beacons underway on each link
  restarts     \* the number of restarts

vars == <<metric, nextHop, neighbors, announced, urgent, air, restarts>>

None == "none"     \* next_hop_local before it is set

Forced == -1       \* SDN_NEIGHBOR_TABLE_SIZE + 1: a count no table can have

Routed(n) == metric[n] # MaxMetric

\* symmcheck_cd_init
InitMetric(n) == IF n = Controller THEN 0 ELSE MaxMetric

Init ==
  /\ metric = [n \in Nodes |-> InitMetric(n)]
  /\ nextHop = [n \in Nodes |-> None]
  /\ neighbors = [n \in Nodes |-> {}]
  /\ announced = [n \in Nodes |-> 0]
  /\ urgent = [n \in Nodes |-> FALSE]
  /\ air = [l \in Links |-> <<>>]
  /\ restarts = 0

\* Neighbor discovery: n has heard m.
Discover(n, m) ==
  /\ <<m, n>> \in Links
  /\ m \notin neighbors[n]
  /\ neighbors' = [neighbors EXCEPT ![n] = @ \cup {m}]
  /\ UNCHANGED <<metric, nextHop, announced, urgent, air, restarts>>

Beacon(n) == [metric |-> metric[n], listed |-> neighbors[n]]

\* send_cd_beacon.  What does not fit the queues on its way is lost.
SendBeacon(n) ==
  air' = [l \in Links |-> IF l[1] = n /\ Len(air[l]) < MaxTransit
                          THEN Append(air[l], Beacon(n)) ELSE air[l]]

\* The beacon timer: there is something to say if the number of neighbors
\* is not what it was, or if the node looks for the controller.
TimerBeacon(n) ==
  /\ announced[n] # Cardinality(neighbors[n]) \/ ~ Routed(n)
  /\ announced' = [announced EXCEPT ![n] = Cardinality(neighbors[n])]
  /\ SendBeacon(n)
  /\ UNCHANGED <<metric, nextHop, neighbors, urgent, restarts>>

UrgentBeacon(n) ==
  /\ urgent[n]
  /\ urgent' = [urgent EXCEPT ![n] = FALSE]
  /\ SendBeacon(n)
  /\ UNCHANGED <<metric, nextHop, neighbors, announced, restarts>>

\* The comparison of symmcheck_cd_input, in 16-bit arithmetic.
Plus1(k) == IF k = MaxMetric THEN 0 ELSE k + 1

\* Mutant of Better: no check for overflow.
BetterWrapped(n, b) == Plus1(b.metric) < metric[n]

Better(n, b) == Plus1(b.metric) < metric[n] /\ Plus1(b.metric) > b.metric

\* Mutant of Listed: beacons are believed without the symmetry check.
ListedUnchecked(n, b) == TRUE

\* The sender of b hears n.
Listed(n, b) == n \in b.listed

\* Mutant of Asks: the lost are left alone.
AsksInVain(n, b) == FALSE

\* The sender of b looks for the controller and n knows the way.
Asks(n, b) == Listed(n, b) /\ b.metric = MaxMetric /\ Routed(n)

\* symmcheck_cd_input: a better way to the controller is taken and announced
\* at once; a neighbor without one is answered at the next timer.
Input(m, n) ==
  /\ <<m, n>> \in Links
  /\ air[<<m, n>>] # <<>>
  /\ LET b    == Head(air[<<m, n>>])
         take == Listed(n, b) /\ Better(n, b)
     IN  /\ metric' = IF take THEN [metric EXCEPT ![n] = Plus1(b.metric)] ELSE metric
         /\ nextHop' = IF take THEN [nextHop EXCEPT ![n] = m] ELSE nextHop
         /\ urgent' = IF take THEN [urgent EXCEPT ![n] = TRUE] ELSE urgent
         /\ announced' = IF Asks(n, b) THEN [announced EXCEPT ![n] = Forced]
                         ELSE announced
  /\ air' = [air EXCEPT ![<<m, n>>] = Tail(@)]
  /\ UNCHANGED <<neighbors, restarts>>

Lose(m, n) ==
  /\ <<m, n>> \in Links
  /\ air[<<m, n>>] # <<>>
  /\ air' = [air EXCEPT ![<<m, n>>] = Tail(@)]
  /\ UNCHANGED <<metric, nextHop, neighbors, announced, urgent, restarts>>

\* A node is reset: its tables are in RAM.
Restart(n) ==
  /\ n # Controller
  /\ restarts < MaxRestarts
  /\ restarts' = restarts + 1
  /\ metric' = [metric EXCEPT ![n] = InitMetric(n)]
  /\ nextHop' = [nextHop EXCEPT ![n] = None]
  /\ neighbors' = [neighbors EXCEPT ![n] = {}]
  /\ announced' = [announced EXCEPT ![n] = 0]
  /\ urgent' = [urgent EXCEPT ![n] = FALSE]
  /\ UNCHANGED air

Next ==
  \/ \E n \in Nodes : TimerBeacon(n) \/ UrgentBeacon(n) \/ Restart(n)
  \/ \E m, n \in Nodes : Discover(n, m) \/ Input(m, n) \/ Lose(m, n)

Spec == Init /\ [][Next]_vars

\* Timers and posted events are served, neighbors are discovered, and no
\* link loses every beacon.
Fairness ==
  /\ \A n \in Nodes : WF_vars(TimerBeacon(n)) /\ WF_vars(UrgentBeacon(n))
  /\ \A l \in Links : WF_vars(Discover(l[2], l[1])) /\ SF_vars(Input(l[1], l[2]))

FairSpec == Spec /\ Fairness

----------------------------------------------------------------------------
(* Properties                                                              *)

Beacons == [metric : 0 .. MaxMetric, listed : SUBSET Nodes]

TypeOK ==
  /\ metric \in [Nodes -> 0 .. MaxMetric]
  /\ nextHop \in [Nodes -> Nodes \cup {None}]
  /\ neighbors \in [Nodes -> SUBSET Nodes]
  /\ announced \in [Nodes -> Nat \cup {Forced}]
  /\ urgent \in [Nodes -> BOOLEAN]
  /\ air \in [Links -> Seq(Beacons)]
  /\ restarts \in 0 .. MaxRestarts

\* "Controller discovery that build a tree" (symmcheck-cd.c, 43): no set of
\* routed nodes sends its packets round within itself.
Tree ==
  \A S \in SUBSET {n \in Nodes \ {Controller} : Routed(n)} :
    S # {} => \E n \in S : nextHop[n] \notin S

\* Metrics only fall while no node loses its own, so that stale beacons are
\* never too good: losses, delays and reordering across links do no harm.
TreeUntilRestart == restarts = 0 => Tree

\* "and checks if links are bidirectional" (symmcheck-cd.c, 43).
SymmetricNextHop ==
  \A n \in Nodes \ {Controller} :
    Routed(n) => <<nextHop[n], n>> \in Links /\ <<n, nextHop[n]>> \in Links

\* Every node that symmetric links connect to the controller finds a way to
\* it, although a routed node announces itself only when its number of
\* neighbors changes or when it is asked.
Bidirectional == {l \in Links : <<l[2], l[1]>> \in Links}

Within[k \in 0 .. MaxMetric] ==
  IF k = 0 THEN {Controller}
  ELSE Within[k - 1] \cup
       {n \in Nodes : \E m \in Within[k - 1] : <<m, n>> \in Bidirectional}

AllFound == \A n \in Nodes : n \in Within[MaxMetric - 1] ~> Routed(n)
=============================================================================
