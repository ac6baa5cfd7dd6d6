------------------------------ MODULE Digraph ------------------------------
(***************************************************************************)
(* The graph of radio links the controller keeps                           *)
(* (controller-server/digraph/digraph.c).  It is a value: a set of         *)
(* vertices and, for every vertex, the ring of its outgoing edges with     *)
(* edge_header first.  An edge is [to, weight]; the weight is the scaled   *)
(* ETX, since battery levels reach no vertex (the only call of             *)
(* process_energy_metric is commented out).  The status of an edge         *)
(* (EDGE_NEW, EDGE_UPDATED, EDGE_STATIC, EDGE_DELETED) lives inside one    *)
(* report only and is what AddEdge and Sweep return.                       *)
(***************************************************************************)
EXTENDS Naturals, SequencesExt, Lists

CONSTANTS Nodes, MaxWeight

ASSUME MaxWeightAssumption == MaxWeight \in Nat \ {0}

Edges == [to : Nodes, weight : 1..MaxWeight]

Graphs == [vertices : SUBSET Nodes, ring : [Nodes -> Seq(Edges)]]

(* digraph_find_edge: the position in the ring, 0 for NULL. *)
FindEdge(g, from, to) == SelectInSeq(g.ring[from], LAMBDA e : e.to = to)

HasEdge(g, from, to) == FindEdge(g, from, to) # 0

EdgeWeight(g, from, to) == g.ring[from][FindEdge(g, from, to)].weight

AddVertice(g, v) == [g EXCEPT !.vertices = @ \union {v}]

(* A new edge goes right behind the header of the ring. *)
NewEdge(ring, e) ==
    IF ring = << >> THEN <<e>> ELSE InsertAt(ring, 2, e)

(* digraph_add_edge *)
AddEdge(g, from, to, weight) ==
    LET e == [to |-> to, weight |-> weight]
    IN IF HasEdge(g, from, to)
       THEN [g EXCEPT !.ring[from][FindEdge(g, from, to)] = e]
       ELSE [g EXCEPT !.ring[from] = NewEdge(@, e)]

(* status # EDGE_STATIC of the edge digraph_add_edge returns *)
EdgeChanges(g, from, to, weight) ==
    ~HasEdge(g, from, to) \/ EdgeWeight(g, from, to) # weight

(* What digraph_mark_edges_to_del_from marks and nobody un-marks is swept  *)
(* by digraph_del_marked_edges_to_del_from.                                *)
Sweep(g, from, kept) ==
    [g EXCEPT !.ring[from] = Only(@, {e \in ToSet(@) : e.to \in kept})]

(* The sweep starts at the edge after the header and comes to the header   *)
(* last, without setting edge_deleted, unless the header is alone.         *)
SweepTells(g, from, kept) ==
    LET ring == g.ring[from]
    IN \E i \in DOMAIN ring :
          ring[i].to \notin kept /\ (i # 1 \/ Len(ring) = 1)

=============================================================================
