-------------------------- MODULE ControllerRoutes --------------------------
(***************************************************************************)
(* What the controller does with neighbor reports and flow requests        *)
(* (controller-server/sdn-process-packets-controller.c): it keeps the      *)
(* digraph, and for one flow a cached entry per source, which it checks    *)
(* against the digraph whenever a report changes that.                     *)
(*                                                                         *)
(* The module follows one flow: the CONTROLLER_FLOW, one flow id or one    *)
(* address.  The cache treats flows alike but for what "kind" decides, and *)
(* an entry of one flow is never read or written for another; what other   *)
(* flows do to this one is RegisterOther and RequestOther.  A pass over    *)
(* the cache (checks_flow_id_table_changes and its twin for addresses) is  *)
(* one step per entry; nothing else happens while "pass" is not 0.         *)
(***************************************************************************)
EXTENDS Dijkstra

CONSTANTS
    Ctl,           \* sdn_node_addr of the controller, a vertex from the start
    Address,       \* the one target of the flow when it is an address
    Registrants,   \* nodes that may register as targets of the flow id
    Requesters,    \* nodes that may ask for the flow
    Reports,       \* neighbor reports: [from, list of [to, weight]]
    MaxReports     \* bound: reports treated in one behaviour

MaxHops == 65535      \* ROUTE_MAX_HOPS, and ROUTE_MAX_WEIGHT

(* An address has two bytes, and the broadcast address is nobody's. *)
ASSUME RoutesAssumption ==
    /\ IsFiniteSet(Nodes) /\ Cardinality(Nodes) <= MaxHops
    /\ Ctl \in Nodes /\ Address \in Nodes
    /\ Registrants \subseteq Nodes /\ Requesters \subseteq Nodes
    /\ \A r \in Reports : r.from \in Nodes /\ r.list \in Seq(Edges)

VARIABLES
    kind,      \* which sort of flow the cache is followed for; never changes
    graph,     \* digraph_header
    targets,   \* the flow's entries in flow_id_list_table, in order
    entry,     \* the flow's entry for each source; act "none" if there is none
    order,     \* the sources in the order of the list
    asks,      \* self-made requests for the CONTROLLER_FLOW in the send queue
    pass,      \* 0, or the position the pass over the list has come to
    reports,   \* reports treated so far
    silent,    \* auxiliary: edges vanished since the last pass
    crashed    \* the process has dereferenced NULL

vars == <<kind, graph, targets, entry, order, asks, pass, reports, silent, crashed>>

Actions == {"none", "drop", "forward"}

NoEntry == [act |-> "none", next |-> Ctl, weight |-> 0, hops |-> 0, changed |-> FALSE]

(* SDN_ACTION_DROP with the source itself as next hop *)
Dropped(v) ==
    [act |-> "drop", next |-> v, weight |-> MaxHops, hops |-> MaxHops, changed |-> TRUE]

InitialTargets(k) ==
    CASE k = "controller" -> <<Ctl>>
      [] k = "address"    -> <<Address>>
      [] k = "flow"       -> << >>

Init ==
    /\ kind \in {"controller", "address", "flow"}
    /\ graph = [vertices |-> {Ctl}, ring |-> [v \in Nodes |-> << >>]]
    /\ targets = InitialTargets(kind)
    /\ entry = [v \in Nodes |-> NoEntry]
    /\ order = << >>
    /\ asks = << >>
    /\ pass = 0
    /\ reports = 0
    /\ silent = FALSE
    /\ crashed = FALSE

Idle == pass = 0 /\ ~crashed

-----------------------------------------------------------------------------
(* Neighbor reports. *)

(* A vertex no report has named is added and asks for its CONTROLLER_FLOW. *)
Meet(s, v) ==
    IF v \in s.graph.vertices THEN s
    ELSE [s EXCEPT !.graph = AddVertice(@, v), !.asks = Append(@, v)]

(* One neighbor of the report from n: the edge to it is added or updated,  *)
(* the edge back only if there is none.                                    *)
Neighbor(s, n, l) ==
    LET met  == Meet(s, l.to)
        out  == AddEdge(met.graph, n, l.to, l.weight)
        back == ~HasEdge(out, l.to, n)
    IN [met EXCEPT
          !.graph = IF back THEN AddEdge(out, l.to, n, l.weight) ELSE out,
          !.changed = @ \/ back \/ EdgeChanges(met.graph, n, l.to, l.weight)]

Links(g) == {e \in Nodes \X Nodes : HasEdge(g, e[1], e[2])}

(* process_neighbor_report *)
Report(r) ==
    LET met     == Meet([graph |-> graph, asks |-> asks,
                         changed |-> r.from \notin graph.vertices], r.from)
        heard[k \in 0..Len(r.list)] ==
            IF k = 0 THEN met ELSE Neighbor(heard[k - 1], r.from, r.list[k])
        added   == heard[Len(r.list)]
        kept    == {l.to : l \in ToSet(r.list)}
        swept   == Sweep(added.graph, r.from, kept)
        changed == added.changed \/ SweepTells(added.graph, r.from, kept)
    IN /\ Idle
       /\ reports < MaxReports
       /\ reports' = reports + 1
       /\ graph' = swept
       /\ asks' = IF kind = "controller" THEN added.asks ELSE asks
       /\ pass' = IF changed THEN 1 ELSE 0
       /\ silent' = (~changed /\ (silent \/ Links(swept) # Links(graph)))
       /\ UNCHANGED <<kind, targets, entry, order, crashed>>

-----------------------------------------------------------------------------
(* Routes. *)

(* digraph_get_vertice adds the vertices a route search names. *)
Searched(v) ==
    IF targets = << >> THEN graph
    ELSE [graph EXCEPT !.vertices = @ \union {v} \union ToSet(targets)]

(* get_flow_id_better_route: the targets with a route, and the one taken,  *)
(* the last of those with the least weight.                                *)
Found(labels) == {i \in DOMAIN targets : labels.root[targets[i]] # None}

Better(labels, i) ==
    /\ i \in Found(labels)
    /\ \A j \in Found(labels) :
          LET wi == labels.weight[targets[i]]
              wj == labels.weight[targets[j]]
          IN wi < wj \/ (wi = wj /\ j <= i)

(* get_current_route_from_flowid: follow FORWARD entries from v; << >> if  *)
(* the hops do not go down, which is taken for a loop.                     *)
CurrentRoute(v) ==
    LET walk[n \in 0..Cardinality(Nodes)] ==
          IF n = 0 THEN <<v>>
          ELSE LET r == walk[n - 1]
                   u == Last(r)
                   x == entry[u].next
               IN IF r = << >> \/ entry[u].act # "forward" THEN r
                  ELSE IF entry[x].act # "none" /\ entry[u].hops <= entry[x].hops
                  THEN << >>
                  ELSE Append(r, x)
        route == walk[Cardinality(Nodes)]
    IN IF Len(route) = 1 THEN << >> ELSE route

(* Mutant of Written: only the entry of the source is written. *)
WrittenAtSource(p, labels) ==
    [entry EXCEPT ![Source(p)] =
        [act |-> "forward", next |-> p[Hops(p) - 1], hops |-> Hops(p),
         weight |-> RouteWeight(labels, p[0], Source(p)), changed |-> TRUE]]

(* sdn_flow_id_table_add for every vertex of the route p but the target *)
Written(p, labels) ==
    [v \in Nodes |->
        IF \E i \in DOMAIN p : i # 0 /\ p[i] = v
        THEN LET i == CHOOSE i \in DOMAIN p : i # 0 /\ p[i] = v
             IN [act     |-> "forward",
                 next    |-> p[i - 1],
                 weight  |-> RouteWeight(labels, p[0], v),
                 hops    |-> i,
                 changed |-> entry[v].changed \/ entry[v].act # "forward"
                                              \/ entry[v].next # p[i - 1]]
        ELSE entry[v]]

(* New entries go to the end of the list. *)
Listed(p) ==
    order \o Only([i \in 1..Hops(p) |-> p[i]],
                  {v \in Nodes : entry[v].act = "none"})

(* Mutant of MuchBetter: the sensibility on the wrong side. *)
HalfAsGood(new, current) == 3 * new < current

(* SDN_ROUTE_SENSIBILITY is 0.5: new < current / 1.5 *)
MuchBetter(new, current) == 3 * new < 2 * current

(* configure_flow_id_route: keep the current route of v, its weight        *)
(* refreshed, unless it is gone or the new one p is much better.           *)
Configure(v, p, labels) ==
    LET current == CurrentRoute(v)
        new     == RouteWeight(labels, p[0], v)
        weight  == WeightOf(graph, current)
        keeps   == /\ current # << >>
                   /\ Stands(graph, current)
                   /\ ~MuchBetter(new, weight)
    IN IF ReadsNull(graph, current)
       THEN crashed' = TRUE /\ UNCHANGED <<entry, order>>
       ELSE /\ entry' = IF keeps THEN [entry EXCEPT ![v].weight = weight]
                                 ELSE Written(p, labels)
            /\ order' = IF keeps THEN order ELSE Listed(p)
            /\ UNCHANGED crashed

(* Mutant of GiveUp: every flow keeps its entry. *)
KeepEntry(v) == UNCHANGED <<entry, order, crashed>>

(* No route: a DROP entry, except that the CONTROLLER_FLOW is left alone. *)
GiveUp(v) ==
    /\ IF kind = "controller"
       THEN UNCHANGED <<entry, order>>
       ELSE /\ entry' = [entry EXCEPT ![v] =
                            IF @.act = "drop" THEN @ ELSE Dropped(v)]
            /\ order' = IF entry[v].act = "none" THEN Append(order, v) ELSE order
    /\ UNCHANGED crashed

Route(v) ==
    LET labels == Labels(graph, v)
    IN \/ /\ Found(labels) = {}
          /\ GiveUp(v)
       \/ \E i \in DOMAIN targets :
             /\ Better(labels, i)
             /\ \E p \in RoutesTo(labels, targets[i]) : Configure(v, p, labels)

-----------------------------------------------------------------------------
(* The pass over the cache: entries already changed are not looked at.     *)

CheckEntry ==
    /\ pass \in DOMAIN order
    /\ ~crashed
    /\ pass' = pass + 1
    /\ IF entry[order[pass]].changed
       THEN UNCHANGED <<graph, entry, order, crashed>>
       ELSE /\ graph' = Searched(order[pass])
            /\ Route(order[pass])
    /\ UNCHANGED <<kind, targets, asks, reports, silent>>

(* process_flow_id_table_changes: every changed entry is sent and cleared. *)
SendChanges ==
    /\ pass = Len(order) + 1
    /\ ~crashed
    /\ pass' = 0
    /\ entry' = [v \in Nodes |-> [entry[v] EXCEPT !.changed = FALSE]]
    /\ UNCHANGED <<kind, graph, targets, order, asks, reports, silent, crashed>>

(* process_data_flow_request_packet, process_control_flow_request: only    *)
(* without an entry is a route looked for; then the changes are sent.      *)
Treat(v) ==
    IF entry[v].act # "none"
    THEN UNCHANGED <<graph, entry, order, pass, crashed>>
    ELSE /\ graph' = Searched(v)
         /\ Route(v)
         /\ pass' = Len(order') + 1

Request(n) ==
    /\ Idle
    /\ Treat(n)
    /\ UNCHANGED <<kind, targets, asks, reports, silent>>

(* sdn_send_down_once comes to a request the controller made for a vertex. *)
SelfRequest ==
    /\ Idle
    /\ asks # << >>
    /\ asks' = Tail(asks)
    /\ Treat(Head(asks))
    /\ UNCHANGED <<kind, targets, reports, silent>>

(* process_register_flowid: the pass is made even for a known target. *)
Register(n) ==
    /\ Idle
    /\ kind = "flow"
    /\ targets' = IF n \in ToSet(targets) THEN targets ELSE Append(targets, n)
    /\ pass' = 1
    /\ silent' = FALSE
    /\ UNCHANGED <<kind, graph, entry, order, asks, reports, crashed>>

(* The registration of another flow makes the pass over all flow ids. *)
RegisterOther ==
    /\ Idle
    /\ kind # "address"
    /\ pass' = 1
    /\ silent' = FALSE
    /\ UNCHANGED <<kind, graph, targets, entry, order, asks, reports, crashed>>

(* A request of n for another flow: the route search adds n as a vertex,   *)
(* which matters to later reports only where they ask for n.               *)
RequestOther(n) ==
    /\ Idle
    /\ kind = "controller"
    /\ graph' = AddVertice(graph, n)
    /\ UNCHANGED <<kind, targets, entry, order, asks, pass, reports, silent, crashed>>

Next ==
    \/ \E r \in Reports : Report(r)
    \/ CheckEntry
    \/ SendChanges
    \/ \E n \in Requesters : Request(n)
    \/ SelfRequest
    \/ \E n \in Registrants : Register(n)
    \/ RegisterOther
    \/ \E n \in Requesters : RequestOther(n)

Spec == Init /\ [][Next]_vars

-----------------------------------------------------------------------------
(* Reference definitions: a path of links, the nodes that have one to a    *)
(* target, what the shortest one weighs, and a path along the entries.     *)

OverLinks(p) ==
    \A i \in DOMAIN p : i # 0 => HasEdge(graph, p[i], p[i - 1])

PathWeight(p) ==
    SumUpto([i \in 1..Hops(p) |-> EdgeWeight(graph, p[i], p[i - 1])], Hops(p))

Target(v) == v \in ToSet(targets)

WaysFrom(v) == {p \in Paths : Source(p) = v /\ Target(p[0]) /\ OverLinks(p)}

Installed(p) ==
    /\ Target(p[0])
    /\ \A i \in DOMAIN p :
          i # 0 => entry[p[i]].act = "forward" /\ entry[p[i]].next = p[i - 1]

(* The cache has come to terms with the digraph. *)
Settled == Idle /\ ~silent

-----------------------------------------------------------------------------
(* Types, and the order of the list: the nodes with an entry, once each. *)
TypeOK ==
    /\ kind \in {"controller", "address", "flow"}
    /\ graph \in Graphs
    /\ targets \in Seq(Nodes)
    /\ entry \in [Nodes -> [act : Actions, next : Nodes, weight : Nat,
                            hops : 0..MaxHops, changed : BOOLEAN]]
    /\ order \in Seq(Nodes)
    /\ IsInjective(order)
    /\ ToSet(order) = {v \in Nodes : entry[v].act # "none"}
    /\ asks \in Seq(Nodes)
    /\ pass \in 0..(Len(order) + 1)
    /\ reports \in 0..MaxReports
    /\ silent \in BOOLEAN /\ crashed \in BOOLEAN

(* Following the entries of the cache never leads round in a circle: every *)
(* set of nodes is left at a target, at a node that forwards to nobody or  *)
(* at one whose next hop is outside.  It holds in the middle of a pass     *)
(* too, although routes are kept, replaced and written over one another    *)
(* entry by entry.                                                         *)
LoopFree ==
    \A S \in SUBSET Nodes :
        S # {} => \E v \in S : \/ Target(v)
                              \/ entry[v].act # "forward"
                              \/ entry[v].next \notin S

(* When the cache has come to terms with the digraph, a node with an entry *)
(* from which links lead to a target has a route over existing links to    *)
(* one, hop by hop through the entries of the nodes on the way; nobody is  *)
(* left with DROP or with a next hop that is gone.                         *)
NobodyLeft ==
    Settled =>
        \A v \in ToSet(order) \ ToSet(targets) :
            WaysFrom(v) # {} =>
                \E p \in Paths : Source(p) = v /\ Installed(p) /\ OverLinks(p)

(* And the other way round: only the CONTROLLER_FLOW keeps forwarding from *)
(* a node that no links connect to a target.                               *)
NoDeadRoutes ==
    Settled /\ kind # "controller" =>
        \A v \in ToSet(order) : entry[v].act = "forward" => WaysFrom(v) # {}

(* The cache forwards just where links lead to a target.                   *)
RoutesLead == NobodyLeft /\ NoDeadRoutes

(* The search is exact for the digraph at hand. *)
Exact ==
    \A v \in Nodes : LET labels == Labels(graph, v) IN
        \A p \in Paths : Source(p) = v /\ OverLinks(p) =>
            labels.weight[p[0]] <= PathWeight(p)

(* SDN_ROUTE_SENSIBILITY: a route that is kept although there is a better  *)
(* one weighs at most half as much again, also after entries along it were *)
(* replaced for the sake of other sources.  The search has to be exact,    *)
(* and no target may forward the flow to another one: its own way out can  *)
(* be written over the way other nodes come in.                            *)
SinksOnly == \A v \in ToSet(targets) : entry[v].act # "forward"

Stretch ==
    Settled /\ Exact /\ SinksOnly =>
        \A p \in Paths : Installed(p) /\ OverLinks(p) =>
            \A q \in WaysFrom(Source(p)) : 2 * PathWeight(p) <= 3 * PathWeight(q)

(* The search of dijkstra.c against the reference: a route is found just   *)
(* when links lead to the vertex, it is over links, and the weight it is   *)
(* given is that of its edges.                                             *)
SearchSound ==
    Idle =>
      \A v \in Nodes : LET labels == Labels(graph, v) IN
        \A t \in Nodes \ {v} :
          LET ways == {p \in Paths : p[0] = t /\ Source(p) = v /\ OverLinks(p)}
          IN /\ labels.root[t] # None <=> ways # {}
             /\ labels.root[t] # None =>
                  \E p \in RoutesTo(labels, t) :
                     p \in ways /\ PathWeight(p) = labels.weight[t]

(* "route loop detected, discarding route": no entries lead in a circle,   *)
(* whether or not a target that forwards lies on it.                       *)
NoRouteLoop ==
    Idle =>
        \A S \in SUBSET Nodes :
            S # {} => \E v \in S : \/ entry[v].act # "forward"
                                  \/ entry[v].next \notin S

=============================================================================
