------------------------------ MODULE Dijkstra ------------------------------
(***************************************************************************)
(* The route search of the controller (controller-server/digraph/          *)
(* dijkstra.c, PATH_FINDER_ALGORITHM = SHORTEST_PATH): the labels it       *)
(* leaves on the vertices, the routes read off them, and the check of a    *)
(* route that is in use.                                                   *)
(***************************************************************************)
EXTENDS Digraph, FiniteSets

CONSTANT None      \* NULL

ASSUME NoneAssumption == None \notin Nodes

(* A route is a path that visits no vertex twice, numbered from the target *)
(* (0) to the source: route->hops is the index.                            *)
Paths ==
    UNION {{p \in [0..n -> Nodes] : \A i, j \in 0..n : p[i] = p[j] => i = j} :
              n \in 1..(Cardinality(Nodes) - 1)}

Hops(p) == Cardinality(DOMAIN p) - 1
Source(p) == p[Hops(p)]

-----------------------------------------------------------------------------
(* dijkstra_queue_push: before the first queued vertex with a larger       *)
(* weight.  A vertex that gets cheaper later keeps its place.              *)
Push(queue, v, weight) ==
    LET i == SelectInSeq(queue, LAMBDA u : weight[v] < weight[u])
    IN IF i = 0 THEN Append(queue, v) ELSE InsertAt(queue, i, v)

(* Mutant of Relax: a cheaper way to a queued vertex changes its root and  *)
(* leaves the weight as it was.                                            *)
RelaxRoot(s, from, e) ==
    LET weight == [s.weight EXCEPT ![e.to] = s.weight[from] + e.weight]
        root   == [s.root EXCEPT ![e.to] = from]
    IN IF e.to \in s.visited
       THEN s
       ELSE IF s.root[e.to] = None
       THEN [s EXCEPT !.weight = weight, !.root = root,
                      !.queue = Push(s.queue, e.to, weight)]
       ELSE IF weight[e.to] < s.weight[e.to]
       THEN [s EXCEPT !.root = root]
       ELSE s

(* One edge of the vertex at hand. *)
Relax(s, from, e) ==
    LET weight == [s.weight EXCEPT ![e.to] = s.weight[from] + e.weight]
        root   == [s.root EXCEPT ![e.to] = from]
    IN IF e.to \in s.visited
       THEN s
       ELSE IF s.root[e.to] = None
       THEN [s EXCEPT !.weight = weight, !.root = root,
                      !.queue = Push(s.queue, e.to, weight)]
       ELSE IF weight[e.to] < s.weight[e.to]
       THEN [s EXCEPT !.weight = weight, !.root = root]
       ELSE s

Visit(g, s, v) ==
    LET ring == g.ring[v]
        relaxed[k \in 0..Len(ring)] ==
            IF k = 0 THEN [s EXCEPT !.visited = @ \union {v}]
            ELSE Relax(relaxed[k - 1], v, ring[k])
    IN relaxed[Len(ring)]

(* shortest_path_algorithm up to the cleaning of the attributes: visit the *)
(* source and then what the queue yields until it is empty.                *)
Labels(g, source) ==
    LET start == [visited |-> {}, weight |-> [v \in Nodes |-> 0],
                  root |-> [v \in Nodes |-> None], queue |-> << >>]
        run[n \in 0..Cardinality(Nodes)] ==
            IF n = 0 THEN Visit(g, start, source)
            ELSE LET s == run[n - 1]
                 IN IF s.queue = << >> THEN s
                    ELSE Visit(g, [s EXCEPT !.queue = Tail(@)], Head(s.queue))
    IN run[Cardinality(Nodes)]

(* The route to a target: its roots, back to the vertex without one. *)
RoutesTo(labels, target) ==
    {p \in Paths : /\ p[0] = target
                   /\ \A i \in DOMAIN p :
                         labels.root[p[i]] =
                             IF i = Hops(p) THEN None ELSE p[i + 1]}

(* route->route_weight of the vertex v on a route to target *)
RouteWeight(labels, target, v) == labels.weight[target] - labels.weight[v]

-----------------------------------------------------------------------------
(* dijkstra_checks_route on a route given from its source on: is every     *)
(* edge still there, what do they weigh, and does the check reach a vertex *)
(* with no edge at all, whose edge_header it dereferences?                 *)
Stands(g, route) ==
    \A i \in 1..(Len(route) - 1) : HasEdge(g, route[i], route[i + 1])

ReadsNull(g, route) ==
    \E i \in 1..(Len(route) - 1) :
        /\ g.ring[route[i]] = << >>
        /\ \A j \in 1..(i - 1) : HasEdge(g, route[j], route[j + 1])

WeightOf(g, route) ==
    SumUpto([i \in 1..(Len(route) - 1) |-> EdgeWeight(g, route[i], route[i + 1])],
            Len(route) - 1)

=============================================================================
