----------------------- MODULE ControllerRoutesProofs -----------------------
(***************************************************************************)
(* The entries of a flow never lead in a circle past its targets, for      *)
(* every graph of links, every list of targets and whatever the route      *)
(* search returns, as long as it is a path to a target.                    *)
(*                                                                         *)
(* The argument: entries change their next hop only when a whole route is  *)
(* written or one entry is dropped.  In a set of nodes that meets a new    *)
(* route, the node of the route nearest to its target is the target or has *)
(* its next hop outside the set; a set that does not meet it is left where *)
(* it was left before.  LoopFree is inductive next to the shape of the     *)
(* entries and the type of the target list.                                *)
(*                                                                         *)
(* The route search finds a route just where links lead.  After each       *)
(* visit a labelled vertex hangs by an edge on a visited one (Labelled),   *)
(* what is labelled and not visited waits in the queue, and what a visited *)
(* vertex has an edge to is labelled (Ready).  As edges weigh something    *)
(* the way back along the roots gets lighter and ends at the source.       *)
(*                                                                         *)
(* The cache serves whom a pass has come by (Serving): hop counts fall     *)
(* along entries but at targets (Legal), so that following them ends, and  *)
(* a way that meets a new route goes on along that (Joint).                *)
(*                                                                         *)
(* Served in this sense is also who has a route by its entries that is at  *)
(* most half as heavy again as any way (Near), as long as the search is    *)
(* exact and no target with a way out forwards.  A route kept is that by   *)
(* the test of the sensibility.  A route written is a best one, and so are *)
(* its parts (PartIsBest): who goes on along it from where its old way met *)
(* it last goes on no worse than before (WrittenNear).                     *)
(***************************************************************************)
EXTENDS ControllerRoutes, NumberLemmas

Shifted(r, s, i, e) ==
  \A k \in 1 .. Len(s) + 1 : r[k] = IF k < i THEN s[k] ELSE IF k = i THEN e ELSE s[k - 1]

LEMMA Inserted ==
  ASSUME NEW T, NEW s \in Seq(T), NEW i \in 1 .. Len(s) + 1, NEW e \in T
  PROVE  /\ InsertAt(s, i, e) \in Seq(T)
         /\ Len(InsertAt(s, i, e)) = Len(s) + 1
         /\ Shifted(InsertAt(s, i, e), s, i, e)
<1> DEFINE a == SubSeq(s, 1, i - 1)
           b == SubSeq(s, i, Len(s))
<1>0. Len(s) \in Nat /\ i \in Nat
  OBVIOUS
<1>1. a \in Seq(T) /\ Len(a) = i - 1 /\ \A k \in 1 .. i - 1 : a[k] = s[k]
  OBVIOUS
<1>2. b \in Seq(T) /\ Len(b) = Len(s) - i + 1 /\ \A k \in 1 .. Len(s) - i + 1 : b[k] = s[i + k - 1]
  OBVIOUS
<1> HIDE DEF a, b
<1>3. a \o <<e>> \in Seq(T) /\ Len(a \o <<e>>) = i
      /\ \A k \in 1 .. i : (a \o <<e>>)[k] = IF k < i THEN s[k] ELSE e
  BY <1>0, <1>1
<1>4. InsertAt(s, i, e) = (a \o <<e>>) \o b
  BY DEF InsertAt, a, b
<1> DEFINE c == a \o <<e>>
<1>5. c \in Seq(T) /\ Len(c) = i /\ \A k \in 1 .. i : c[k] = IF k < i THEN s[k] ELSE e
  BY <1>3
<1> HIDE DEF c
<1>6. c \o b \in Seq(T) /\ Len(c \o b) = Len(s) + 1
  <2>0. c \in Seq(T) /\ b \in Seq(T)
    BY <1>2, <1>5
  <2>1. c \o b \in Seq(T)
    BY <2>0
  <2>2. Len(c \o b) = Len(c) + Len(b)
    BY <2>0
  <2> QED
    BY <2>1, <2>2, <1>0, <1>2, <1>5
<1>7. ASSUME NEW k \in 1 .. Len(s) + 1
      PROVE  (c \o b)[k] = IF k < i THEN s[k] ELSE IF k = i THEN e ELSE s[k - 1]
  <2>1. CASE k <= i
    <3>1. (c \o b)[k] = c[k] /\ k \in 1 .. i
      BY <2>1, <1>0, <1>2, <1>5
    <3> QED
      BY <3>1, <1>5
  <2>2. CASE k > i
    <3>1. (c \o b)[k] = b[k - i] /\ k - i \in 1 .. Len(s) - i + 1 /\ i + (k - i) - 1 = k - 1
      BY <2>2, <1>0, <1>2, <1>5
    <3>2. b[k - i] = s[k - 1]
      BY <1>2, <3>1
    <3> QED
      BY <2>2, <3>1, <3>2, <1>0
  <2>3. k <= i \/ k > i
    BY <1>0
  <2> QED
    BY <2>1, <2>2, <2>3
<1> QED
  BY <1>4, <1>6, <1>7 DEF c, Shifted

\* What SelectInSeq finds, for the two searches of the model.
LEMMA LeastIs ==
  ASSUME NEW I, I \subseteq Nat, I # {}
  PROVE  Min(I) \in I /\ \A j \in I : Min(I) <= j
<1>1. \E k \in I : \A j \in I : k <= j
  BY HasLeast
<1> QED
  BY <1>1 DEF Min

LEMMA FindEdgeIs ==
  ASSUME NEW g, NEW u, NEW w, NEW n \in Nat, n = Len(g.ring[u])
  PROVE  /\ FindEdge(g, u, w) \in 0 .. n
         /\ FindEdge(g, u, w) # 0 => g.ring[u][FindEdge(g, u, w)].to = w
         /\ FindEdge(g, u, w) = 0 => \A i \in 1 .. n : g.ring[u][i].to # w
<1> DEFINE I == {i \in 1 .. Len(g.ring[u]) : g.ring[u][i].to = w}
<1>1. FindEdge(g, u, w) = IF I # {} THEN Min(I) ELSE 0
  BY DEF FindEdge, SelectInSeq
<1>2. CASE I = {}
  BY <1>1, <1>2
<1>3. CASE I # {}
  <2>1. I \subseteq Nat
    OBVIOUS
  <2>2. Min(I) \in I
    <3> HIDE DEF I
    <3> QED
      BY <1>3, <2>1, LeastIs
  <2> QED
    BY <1>1, <1>3, <2>2
<1> QED
  BY <1>2, <1>3

LEMMA PushIs ==
  ASSUME NEW q \in Seq(Nodes), NEW v \in Nodes, NEW weight,
         \A i \in 1 .. Len(q) : q[i] # v,
         \A i, j \in 1 .. Len(q) : q[i] = q[j] => i = j
  PROVE  /\ Push(q, v, weight) \in Seq(Nodes)
         /\ \A i, j \in 1 .. Len(Push(q, v, weight)) :
               Push(q, v, weight)[i] = Push(q, v, weight)[j] => i = j
         /\ \A x : (\E i \in 1 .. Len(Push(q, v, weight)) : Push(q, v, weight)[i] = x)
                     <=> x = v \/ \E i \in 1 .. Len(q) : q[i] = x
<1> DEFINE r == Push(q, v, weight)
           I == {i \in 1 .. Len(q) : weight[v] < weight[q[i]]}
<1>0. Len(q) \in Nat
  OBVIOUS
<1>1. \E m \in 1 .. Len(q) + 1 : r = IF m = Len(q) + 1 THEN Append(q, v) ELSE InsertAt(q, m, v)
  <2> DEFINE f == IF I # {} THEN Min(I) ELSE 0
  <2>1. r = IF f = 0 THEN Append(q, v) ELSE InsertAt(q, f, v)
    BY DEF Push, SelectInSeq
  <2>2. f = 0 \/ f \in 1 .. Len(q)
    <3>1. I \subseteq Nat /\ I \subseteq 1 .. Len(q)
      OBVIOUS
    <3>2. I # {} => Min(I) \in I
      <4> HIDE DEF I
      <4> QED
        BY <3>1, LeastIs
    <3> QED
      BY <3>1, <3>2
  <2> HIDE DEF f, r
  <2>3. CASE f = 0
    <3>1. Len(q) + 1 \in 1 .. Len(q) + 1
      BY <1>0
    <3> QED
      BY <2>1, <2>3, <3>1
  <2>4. CASE f \in 1 .. Len(q)
    <3>1. f \in 1 .. Len(q) + 1 /\ f # Len(q) + 1 /\ f # 0
      BY <2>4, <1>0
    <3> QED
      BY <2>1, <3>1
  <2> QED
    BY <2>2, <2>3, <2>4
<1>2. PICK m \in 1 .. Len(q) + 1 :
        r = IF m = Len(q) + 1 THEN Append(q, v) ELSE InsertAt(q, m, v)
  BY <1>1
<1> HIDE DEF r
<1>3. /\ r \in Seq(Nodes) /\ Len(r) = Len(q) + 1
      /\ \A k \in 1 .. Len(q) + 1 : r[k] = IF k < m THEN q[k] ELSE IF k = m THEN v ELSE q[k - 1]
  <2>1. CASE m = Len(q) + 1
    <3>1. r = Append(q, v)
      BY <1>2, <2>1
    <3> QED
      BY <3>1, <2>1, <1>0
  <2>2. CASE m # Len(q) + 1
    <3>1. r = InsertAt(q, m, v)
      BY <1>2, <2>2
    <3>2. r \in Seq(Nodes)
      BY <3>1, Inserted
    <3>3. Len(r) = Len(q) + 1
      BY <3>1, Inserted
    <3>4. Shifted(r, q, m, v)
      BY <3>1, Inserted
    <3> QED
      BY <3>2, <3>3, <3>4 DEF Shifted
  <2> QED
    BY <2>1, <2>2
<1>4. ASSUME NEW k \in 1 .. Len(q) + 1
      PROVE  \/ k = m /\ r[k] = v
             \/ k # m /\ \E i \in 1 .. Len(q) : r[k] = q[i] /\ i = IF k < m THEN k ELSE k - 1
  <2>1. CASE k < m
    <3>1. k \in 1 .. Len(q) /\ r[k] = q[k] /\ k # m
      BY <1>0, <1>2, <1>3, <2>1
    <3> QED
      BY <3>1, <2>1
  <2>2. CASE k = m
    BY <1>3, <2>2, <1>0
  <2>3. CASE k > m
    <3>1. k - 1 \in 1 .. Len(q) /\ r[k] = q[k - 1] /\ k # m /\ ~ (k < m)
      BY <1>0, <1>2, <1>3, <2>3
    <3> QED
      BY <3>1
  <2> QED
    BY <2>1, <2>2, <2>3, <1>0
<1>5. ASSUME NEW i \in 1 .. Len(q) + 1, NEW j \in 1 .. Len(q) + 1, r[i] = r[j]
      PROVE  i = j
  <2>1. CASE i = m \/ j = m
    BY <1>4, <1>5, <2>1
  <2>2. CASE i # m /\ j # m
    <3>1. PICK a \in 1 .. Len(q) : r[i] = q[a] /\ a = IF i < m THEN i ELSE i - 1
      BY <1>4, <2>2
    <3>2. PICK b \in 1 .. Len(q) : r[j] = q[b] /\ b = IF j < m THEN j ELSE j - 1
      BY <1>4, <2>2
    <3>3. a = b
      BY <1>5, <3>1, <3>2
    <3> QED
      BY <1>0, <2>2, <3>1, <3>2, <3>3
  <2> QED
    BY <2>1, <2>2
<1>6. ASSUME NEW i \in 1 .. Len(q) PROVE \E k \in 1 .. Len(q) + 1 : r[k] = q[i]
  <2>1. CASE i < m
    <3>1. i \in 1 .. Len(q) + 1 /\ r[i] = q[i]
      BY <1>0, <1>3, <2>1
    <3> QED
      BY <3>1
  <2>2. CASE ~ (i < m)
    <3>1. i + 1 \in 1 .. Len(q) + 1 /\ ~ (i + 1 < m) /\ i + 1 # m /\ (i + 1) - 1 = i
      BY <1>0, <2>2
    <3>2. r[i + 1] = q[i]
      BY <1>3, <3>1
    <3> QED
      BY <3>1, <3>2
  <2> QED
    BY <2>1, <2>2
<1>7. \E k \in 1 .. Len(q) + 1 : r[k] = v
  BY <1>3, <1>2
<1>8. \A x : (\E i \in 1 .. Len(r) : r[i] = x) <=> x = v \/ \E i \in 1 .. Len(q) : q[i] = x
  <2>1. Len(r) = Len(q) + 1
    BY <1>3
  <2>2. \A k \in 1 .. Len(q) + 1 : r[k] = v \/ \E i \in 1 .. Len(q) : r[k] = q[i]
    BY <1>4
  <2>3. ASSUME NEW x, NEW k \in 1 .. Len(q) + 1, r[k] = x
        PROVE  x = v \/ \E i \in 1 .. Len(q) : q[i] = x
    BY <2>2, <2>3
  <2>4. ASSUME NEW x, x = v \/ \E i \in 1 .. Len(q) : q[i] = x
        PROVE  \E k \in 1 .. Len(q) + 1 : r[k] = x
    BY <2>4, <1>6, <1>7
  <2> QED
    BY <2>1, <2>3, <2>4
<1>9. \A i, j \in 1 .. Len(r) : r[i] = r[j] => i = j
  BY <1>3, <1>5
<1> QED
  BY <1>3, <1>8, <1>9 DEF r

\* Every ring lists edges, none of them twice.
Ringed(g) ==
  \A u \in Nodes :
     /\ g.ring[u] \in Seq(Edges)
     /\ \A i, j \in 1 .. Len(g.ring[u]) : g.ring[u][i].to = g.ring[u][j].to => i = j

LEMMA EdgeIs ==
  ASSUME NEW g, Ringed(g), NEW u \in Nodes, NEW i \in 1 .. Len(g.ring[u])
  PROVE  /\ g.ring[u][i].to \in Nodes
         /\ g.ring[u][i].weight \in 1 .. MaxWeight
         /\ HasEdge(g, u, g.ring[u][i].to)
         /\ FindEdge(g, u, g.ring[u][i].to) = i
         /\ EdgeWeight(g, u, g.ring[u][i].to) = g.ring[u][i].weight
<1>1. g.ring[u] \in Seq(Edges) /\ Len(g.ring[u]) \in Nat
  BY DEF Ringed
<1>2. g.ring[u][i] \in Edges
  BY <1>1
<1> DEFINE w == g.ring[u][i].to
           f == FindEdge(g, u, w)
<1>3. f \in 0 .. Len(g.ring[u])
  BY <1>1, FindEdgeIs
<1>4. f # 0 => g.ring[u][f].to = w
  BY <1>1, FindEdgeIs
<1>5. f = 0 => \A j \in 1 .. Len(g.ring[u]) : g.ring[u][j].to # w
  BY <1>1, FindEdgeIs
<1>6. f # 0
  BY <1>5
<1>7. f \in 1 .. Len(g.ring[u])
  <2> HIDE DEF f
  <2> QED
    BY <1>1, <1>3, <1>6
<1>8. f = i
  <2>1. g.ring[u][f].to = g.ring[u][i].to
    BY <1>4, <1>6
  <2> HIDE DEF f, w
  <2> QED
    BY <1>7, <2>1 DEF Ringed
<1> QED
  BY <1>2, <1>8, <1>6 DEF HasEdge, EdgeWeight, Edges

LEMMA EdgeTyped ==
  ASSUME NEW g, Ringed(g), NEW u \in Nodes, NEW w, HasEdge(g, u, w)
  PROVE  \E i \in 1 .. Len(g.ring[u]) :
            /\ g.ring[u][i].to = w
            /\ w \in Nodes
            /\ EdgeWeight(g, u, w) = g.ring[u][i].weight
            /\ EdgeWeight(g, u, w) \in 1 .. MaxWeight
<1>1. g.ring[u] \in Seq(Edges) /\ Len(g.ring[u]) \in Nat
  BY DEF Ringed
<1> DEFINE f == FindEdge(g, u, w)
<1>2. f # 0
  BY DEF HasEdge
<1>3. f \in 0 .. Len(g.ring[u])
  BY <1>1, FindEdgeIs
<1>4. f # 0 => g.ring[u][f].to = w
  BY <1>1, FindEdgeIs
<1>5. EdgeWeight(g, u, w) = g.ring[u][f].weight
  BY DEF EdgeWeight
<1> HIDE DEF f
<1>6. f \in 1 .. Len(g.ring[u])
  BY <1>1, <1>2, <1>3
<1>7. g.ring[u][f] \in Edges
  BY <1>1, <1>6
<1> QED
  BY <1>2, <1>4, <1>5, <1>6, <1>7 DEF Edges

Searches ==
  [visited : SUBSET Nodes, weight : [Nodes -> Nat],
   root : [Nodes -> Nodes \union {None}], queue : Seq(Nodes)]

Queued(s, u) == \E i \in 1 .. Len(s.queue) : s.queue[i] = u

\* The labels of a search from src: who has a root is visited or waits for
\* it, and has his weight from a root that is visited.
Rooted(g, s, u) ==
  /\ s.root[u] \in s.visited
  /\ HasEdge(g, s.root[u], u)
  /\ s.weight[u] = s.weight[s.root[u]] + EdgeWeight(g, s.root[u], u)

Labelled(g, src, s) ==
  /\ src \in s.visited /\ s.root[src] = None /\ s.weight[src] = 0
  /\ \A u \in Nodes : u # src => (s.root[u] # None <=> u \in s.visited \/ Queued(s, u))
  /\ \A i \in 1 .. Len(s.queue) : s.queue[i] \notin s.visited
  /\ \A i, j \in 1 .. Len(s.queue) : s.queue[i] = s.queue[j] => i = j
  /\ \A u \in Nodes : s.root[u] # None => Rooted(g, s, u)

\* What a search never takes back.
Further(s, t) == \A u \in Nodes : s.root[u] # None => t.root[u] # None

\* The four fields of a state of the search.
LEMMA SearchFields ==
  ASSUME NEW s \in Searches
  PROVE  /\ s.visited \subseteq Nodes /\ s.weight \in [Nodes -> Nat]
         /\ s.root \in [Nodes -> Nodes \union {None}] /\ s.queue \in Seq(Nodes)
         /\ s = [visited |-> s.visited, weight |-> s.weight, root |-> s.root, queue |-> s.queue]
BY DEF Searches

\* Fields of a search state changed one after the other.
LEMMA WithWeight ==
  ASSUME NEW a, NEW b, NEW c, NEW d, NEW w
  PROVE  [[visited |-> a, weight |-> b, root |-> c, queue |-> d] EXCEPT !.weight = w]
        = [visited |-> a, weight |-> w, root |-> c, queue |-> d]
OBVIOUS

LEMMA WithRoot ==
  ASSUME NEW a, NEW b, NEW c, NEW d, NEW w
  PROVE  [[visited |-> a, weight |-> b, root |-> c, queue |-> d] EXCEPT !.root = w]
        = [visited |-> a, weight |-> b, root |-> w, queue |-> d]
OBVIOUS

LEMMA WithQueue ==
  ASSUME NEW a, NEW b, NEW c, NEW d, NEW w
  PROVE  [[visited |-> a, weight |-> b, root |-> c, queue |-> d] EXCEPT !.queue = w]
        = [visited |-> a, weight |-> b, root |-> c, queue |-> w]
OBVIOUS

LEMMA WithVisited ==
  ASSUME NEW a, NEW b, NEW c, NEW d, NEW w
  PROVE  [[visited |-> a, weight |-> b, root |-> c, queue |-> d] EXCEPT !.visited = w]
        = [visited |-> w, weight |-> b, root |-> c, queue |-> d]
OBVIOUS

LEMMA SearchWith ==
  ASSUME NEW s \in Searches, NEW w, NEW r
  PROVE  [s EXCEPT !.weight = w, !.root = r]
            = [visited |-> s.visited, weight |-> w, root |-> r, queue |-> s.queue]
<1>0. s = [visited |-> s.visited, weight |-> s.weight, root |-> s.root, queue |-> s.queue]
  BY SearchFields
<1>1. PICK x : x = [s EXCEPT !.weight = w]
  OBVIOUS
<1>2. PICK y : y = [x EXCEPT !.root = r]
  OBVIOUS
<1>3. x = [visited |-> s.visited, weight |-> w, root |-> s.root, queue |-> s.queue]
  BY <1>0, <1>1, WithWeight
<1>4. y = [visited |-> s.visited, weight |-> w, root |-> r, queue |-> s.queue]
  BY <1>2, <1>3, WithRoot
<1>5. [s EXCEPT !.weight = w, !.root = r] = y
  BY <1>1, <1>2, Zenon
<1> QED
  BY <1>4, <1>5

LEMMA RelaxNew ==
  ASSUME NEW s \in Searches, NEW v, NEW e, e.to \notin s.visited, s.root[e.to] = None
  PROVE  Relax(s, v, e) =
           [visited |-> s.visited,
            weight |-> [s.weight EXCEPT ![e.to] = s.weight[v] + e.weight],
            root |-> [s.root EXCEPT ![e.to] = v],
            queue |-> Push(s.queue, e.to, [s.weight EXCEPT ![e.to] = s.weight[v] + e.weight])]
<1> DEFINE w == [s.weight EXCEPT ![e.to] = s.weight[v] + e.weight]
           r == [s.root EXCEPT ![e.to] = v]
           q == Push(s.queue, e.to, w)
<1>1. Relax(s, v, e) = [s EXCEPT !.weight = w, !.root = r, !.queue = q]
  BY DEF Relax
<1> HIDE DEF w, r, q
<1>2. PICK y : y = [s EXCEPT !.weight = w, !.root = r]
  OBVIOUS
<1>3. y = [visited |-> s.visited, weight |-> w, root |-> r, queue |-> s.queue]
  BY <1>2, SearchWith, Zenon
<1>4. [y EXCEPT !.queue = q] = [visited |-> s.visited, weight |-> w, root |-> r, queue |-> q]
  BY <1>3
<1>5. [s EXCEPT !.weight = w, !.root = r, !.queue = q] = [y EXCEPT !.queue = q]
  BY <1>2, Zenon
<1> QED
  BY <1>1, <1>4, <1>5 DEF w, r, q

LEMMA RelaxLess ==
  ASSUME NEW s \in Searches, NEW v, NEW e, e.to \notin s.visited, s.root[e.to] # None,
         NEW w, w = [s.weight EXCEPT ![e.to] = s.weight[v] + e.weight]
  PROVE  Relax(s, v, e) =
           IF w[e.to] < s.weight[e.to]
           THEN [visited |-> s.visited, weight |-> w,
                 root |-> [s.root EXCEPT ![e.to] = v], queue |-> s.queue]
           ELSE s
<1> DEFINE r == [s.root EXCEPT ![e.to] = v]
<1>1. Relax(s, v, e) = IF w[e.to] < s.weight[e.to] THEN [s EXCEPT !.weight = w, !.root = r] ELSE s
  BY DEF Relax
<1> HIDE DEF r
<1>2. [s EXCEPT !.weight = w, !.root = r] =
        [visited |-> s.visited, weight |-> w, root |-> r, queue |-> s.queue]
  BY SearchWith, Zenon
<1> QED
  BY <1>1, <1>2 DEF r

\* One edge of a visited vertex.
LEMMA RelaxKeeps ==
  ASSUME NEW g, Ringed(g), NEW src \in Nodes, NEW s \in Searches, Labelled(g, src, s),
         NEW v \in s.visited, NEW i \in 1 .. Len(g.ring[v]),
         NEW t, t = Relax(s, v, g.ring[v][i])
  PROVE  /\ t \in Searches /\ Labelled(g, src, t) /\ Further(s, t)
         /\ t.visited = s.visited
         /\ g.ring[v][i].to = src \/ t.root[g.ring[v][i].to] # None
<1> DEFINE e == g.ring[v][i]
           x == e.to
           w == [s.weight EXCEPT ![x] = s.weight[v] + e.weight]
           r == [s.root EXCEPT ![x] = v]
<1>0. /\ v \in Nodes /\ v # None
      /\ s.visited \subseteq Nodes /\ s.weight \in [Nodes -> Nat]
      /\ s.root \in [Nodes -> Nodes \union {None}] /\ s.queue \in Seq(Nodes)
  BY NoneAssumption DEF Searches
<1>1. /\ x \in Nodes /\ e.weight \in 1 .. MaxWeight /\ HasEdge(g, v, x)
      /\ EdgeWeight(g, v, x) = e.weight
  BY <1>0, EdgeIs
<1>2. CASE x \in s.visited
  <2>1. t = s
    BY <1>2 DEF Relax
  <2> QED
    BY <1>1, <1>2, <2>1 DEF Labelled, Further
<1>3. e.weight \in Nat
  BY <1>1, MaxWeightAssumption
<1>4. w \in [Nodes -> Nat] /\ r \in [Nodes -> Nodes \union {None}]
  BY <1>0, <1>1, <1>3
<1>5. /\ w[x] = s.weight[v] + e.weight /\ r[x] = v
      /\ \A u \in Nodes : u # x => w[u] = s.weight[u] /\ r[u] = s.root[u]
  BY <1>0, <1>1
<1> HIDE DEF w, r, e, x
<1>6. CASE x \notin s.visited /\ s.root[x] = None
  <2> DEFINE q == Push(s.queue, x, w)
  <2>1. t = [visited |-> s.visited, weight |-> w, root |-> r, queue |-> q]
    BY <1>6, RelaxNew DEF w, r, e, x
  <2>2. x # src
    BY <1>6 DEF Labelled
  <2>3. \A j \in 1 .. Len(s.queue) : s.queue[j] # x
    BY <1>1, <1>6, <2>2 DEF Labelled, Queued
  <2>4. \A j, k \in 1 .. Len(s.queue) : s.queue[j] = s.queue[k] => j = k
    BY DEF Labelled
  <2>5. q \in Seq(Nodes)
    BY <1>0, <1>1, <2>3, <2>4, PushIs
  <2>6. \A j, k \in 1 .. Len(q) : q[j] = q[k] => j = k
    BY <1>0, <1>1, <2>3, <2>4, PushIs
  <2>7. \A y : (\E j \in 1 .. Len(q) : q[j] = y) <=> y = x \/ \E j \in 1 .. Len(s.queue) : s.queue[j] = y
    BY <1>0, <1>1, <2>3, <2>4, PushIs
  <2> HIDE DEF q
  <2>8. t \in Searches
    BY <1>0, <1>4, <2>1, <2>5 DEF Searches
  <2>9. /\ t.visited = s.visited /\ t.weight = w /\ t.root = r /\ t.queue = q
    BY <2>1
  <2>10. src \in t.visited /\ t.root[src] = None /\ t.weight[src] = 0
    BY <1>5, <2>2, <2>9 DEF Labelled
  <2>11. ASSUME NEW u \in Nodes, u # src
         PROVE  t.root[u] # None <=> u \in t.visited \/ Queued(t, u)
    <3>1. Queued(t, u) <=> u = x \/ Queued(s, u)
      BY <2>7, <2>9 DEF Queued
    <3>2. s.root[u] # None <=> u \in s.visited \/ Queued(s, u)
      BY <2>11 DEF Labelled
    <3> QED
      BY <1>0, <1>5, <2>9, <3>1, <3>2
  <2>12. ASSUME NEW j \in 1 .. Len(t.queue) PROVE t.queue[j] \notin t.visited
    <3>1. t.queue[j] = x \/ \E k \in 1 .. Len(s.queue) : s.queue[k] = t.queue[j]
      BY <2>7, <2>9
    <3> QED
      BY <1>6, <2>9, <3>1 DEF Labelled
  <2>13. ASSUME NEW u \in Nodes, t.root[u] # None PROVE Rooted(g, t, u)
    <3>1. CASE u = x
      BY <1>0, <1>1, <1>5, <1>6, <2>9, <3>1 DEF Rooted
    <3>2. CASE u # x
      <4>1. Rooted(g, s, u) /\ t.root[u] = s.root[u]
        BY <1>5, <2>9, <2>13, <3>2 DEF Labelled
      <4>2. s.root[u] \in s.visited /\ s.root[u] # x /\ s.root[u] \in Nodes
        BY <1>0, <1>6, <4>1 DEF Rooted
      <4>3. t.weight[u] = s.weight[u] /\ t.weight[s.root[u]] = s.weight[s.root[u]]
        BY <1>5, <2>9, <3>2, <4>2
      <4> QED
        BY <2>9, <4>1, <4>2, <4>3 DEF Rooted
    <3> QED
      BY <3>1, <3>2
  <2>14. Labelled(g, src, t)
    BY <2>6, <2>9, <2>10, <2>11, <2>12, <2>13 DEF Labelled
  <2>15. Further(s, t) /\ t.root[x] # None
    BY <1>0, <1>5, <2>9 DEF Further
  <2> QED
    BY <2>8, <2>9, <2>14, <2>15 DEF x, e
<1>7. CASE x \notin s.visited /\ s.root[x] # None
  <2>1. t = IF w[x] < s.weight[x]
            THEN [visited |-> s.visited, weight |-> w, root |-> r, queue |-> s.queue]
            ELSE s
    BY <1>7, RelaxLess DEF w, r, e, x
  <2>2. CASE t = s
    BY <1>7, <2>2 DEF Further, x, e
  <2>3. CASE t = [visited |-> s.visited, weight |-> w, root |-> r, queue |-> s.queue]
    <3>1. t \in Searches
      BY <1>0, <1>4, <2>3 DEF Searches
    <3>2. /\ t.visited = s.visited /\ t.weight = w /\ t.root = r /\ t.queue = s.queue
      BY <2>3
    <3>3. x # src
      BY <1>7 DEF Labelled
    <3>4. src \in t.visited /\ t.root[src] = None /\ t.weight[src] = 0
      BY <1>5, <3>2, <3>3 DEF Labelled
    <3>5. ASSUME NEW u \in Nodes, u # src
          PROVE  t.root[u] # None <=> u \in t.visited \/ Queued(t, u)
      <4>1. Queued(t, u) <=> Queued(s, u)
        BY <3>2 DEF Queued
      <4>2. s.root[u] # None <=> u \in s.visited \/ Queued(s, u)
        BY <3>5 DEF Labelled
      <4> QED
        BY <1>0, <1>5, <1>7, <3>2, <4>1, <4>2
    <3>6. ASSUME NEW u \in Nodes, t.root[u] # None PROVE Rooted(g, t, u)
      <4>1. CASE u = x
        BY <1>0, <1>1, <1>5, <1>7, <3>2, <4>1 DEF Rooted
      <4>2. CASE u # x
        <5>1. Rooted(g, s, u) /\ t.root[u] = s.root[u]
          BY <1>5, <3>2, <3>6, <4>2 DEF Labelled
        <5>2. s.root[u] \in s.visited /\ s.root[u] # x /\ s.root[u] \in Nodes
          BY <1>0, <1>7, <5>1 DEF Rooted
        <5>3. t.weight[u] = s.weight[u] /\ t.weight[s.root[u]] = s.weight[s.root[u]]
          BY <1>5, <3>2, <4>2, <5>2
        <5> QED
          BY <3>2, <5>1, <5>2, <5>3 DEF Rooted
      <4> QED
        BY <4>1, <4>2
    <3>7. Labelled(g, src, t)
      BY <3>2, <3>4, <3>5, <3>6 DEF Labelled
    <3>8. Further(s, t) /\ t.root[x] # None
      BY <1>0, <1>5, <3>2 DEF Further
    <3> QED
      BY <3>1, <3>2, <3>7, <3>8 DEF x, e
  <2> QED
    BY <2>1, <2>2, <2>3
<1> QED
  BY <1>2, <1>6, <1>7

\* What a visit of v makes of b.
Visited(g, src, b, v, t) ==
  /\ t \in Searches
  /\ Labelled(g, src, t)
  /\ Further(b, t)
  /\ t.visited = b.visited
  /\ \A w : HasEdge(g, v, w) => w = src \/ t.root[w] # None

\* A vertex and all of its edges: b is what the visit of v starts from.
LEMMA VisitKeeps ==
  ASSUME NEW g, Ringed(g), NEW src \in Nodes, NEW s, NEW v \in Nodes,
         NEW b \in Searches, b = [s EXCEPT !.visited = @ \union {v}],
         Labelled(g, src, b), v \in b.visited, NEW t, t = Visit(g, s, v)
  PROVE  Visited(g, src, b, v, t)
<1> DEFINE ring == g.ring[v]
           n == Len(ring)
           S == {x \in Searches : Labelled(g, src, x) /\ x.visited = b.visited}
           step == [y \in S \X (1 .. n) |-> Relax(y[1], v, ring[y[2]])]
<1>1. n \in Nat
  BY DEF Ringed
<1>2. ASSUME NEW x \in S, NEW k \in 1 .. n
      PROVE  /\ step[<<x, k>>] = Relax(x, v, ring[k])
             /\ Relax(x, v, ring[k]) \in S
             /\ Further(x, Relax(x, v, ring[k]))
             /\ ring[k].to = src \/ Relax(x, v, ring[k]).root[ring[k].to] # None
  <2>1. step[<<x, k>>] = Relax(x, v, ring[k])
    OBVIOUS
  <2>2. v \in x.visited /\ x \in Searches /\ Labelled(g, src, x)
    OBVIOUS
  <2> DEFINE y == Relax(x, v, ring[k])
  <2>3. y \in Searches
    BY <2>2, RelaxKeeps
  <2>4. Labelled(g, src, y)
    BY <2>2, RelaxKeeps
  <2>5. Further(x, y)
    BY <2>2, RelaxKeeps
  <2>6. y.visited = x.visited
    BY <2>2, RelaxKeeps
  <2>7. ring[k].to = src \/ y.root[ring[k].to] # None
    BY <2>2, RelaxKeeps
  <2> QED
    BY <2>1, <2>3, <2>4, <2>5, <2>6, <2>7
<1>3. b \in S
  OBVIOUS
<1>4. Stays(step, n, S)
  <2> HIDE DEF step, S
  <2> QED
    BY <1>2 DEF Stays
<1>5. Runs(n, S, b, step)
  <2> HIDE DEF step, S, n
  <2> QED
    BY <1>1, <1>3, <1>4, Recursion
<1>6. PICK h \in [0 .. n -> S] : Goes(h, n, b, step)
  BY <1>5 DEF Runs
<1> HIDE DEF S, step, n
<1>7. h[0] = b /\ \A k \in 1 .. n : h[k - 1] \in S /\ h[k] = Relax(h[k - 1], v, ring[k])
  <2>1. \A k \in 1 .. n : h[k - 1] \in S
    BY <1>1
  <2> QED
    BY <1>2, <1>6, <2>1 DEF Goes
<1> DEFINE d == CHOOSE f : f = [k \in 0 .. n |-> IF k = 0 THEN b ELSE Relax(f[k - 1], v, ring[k])]
<1>8. h = [k \in 0 .. n |-> IF k = 0 THEN b ELSE Relax(h[k - 1], v, ring[k])]
  BY <1>1, <1>7
<1>9. d = [k \in 0 .. n |-> IF k = 0 THEN b ELSE Relax(d[k - 1], v, ring[k])]
  BY <1>8
<1>10. t = d[n]
  BY DEF Visit, n
<1> HIDE DEF d
<1>11. d[0] = b /\ \A k \in 1 .. n : d[k] = Relax(d[k - 1], v, ring[k])
  <2>1. \A k \in 0 .. n : d[k] = IF k = 0 THEN b ELSE Relax(d[k - 1], v, ring[k])
    BY <1>9
  <2>2. 0 \in 0 .. n /\ \A k \in 1 .. n : k \in 0 .. n /\ k # 0
    BY <1>1
  <2>3. d[0] = b
    BY <2>1, <2>2, Zenon
  <2>4. \A k \in 1 .. n : d[k] = Relax(d[k - 1], v, ring[k])
    BY <2>1, <2>2, Zenon
  <2> QED
    BY <2>3, <2>4
<1> DEFINE Told(x, k) == \A i \in 1 .. k : ring[i].to = src \/ x.root[ring[i].to] # None
           P == {k \in 0 .. n : d[k] \in S /\ Further(b, d[k]) /\ Told(d[k], k)}
<1>12. 0 \in P
  <2>1. Further(b, b) /\ 0 \in 0 .. n
    BY <1>1 DEF Further
  <2> QED
    BY <1>3, <1>11, <2>1
<1>13. ASSUME NEW k \in 0 .. n - 1, k \in P PROVE k + 1 \in P
  <2>1. k + 1 \in 1 .. n /\ (k + 1) - 1 = k /\ k + 1 \in 0 .. n /\ k \in Nat
    BY <1>1
  <2>2. d[k] \in S /\ Further(b, d[k]) /\ Told(d[k], k)
    BY <1>13
  <2>3. d[k + 1] = Relax(d[k], v, ring[k + 1])
    BY <1>11, <2>1
  <2>4. /\ d[k + 1] \in S /\ Further(d[k], d[k + 1])
        /\ ring[k + 1].to = src \/ d[k + 1].root[ring[k + 1].to] # None
    BY <1>2, <2>1, <2>2, <2>3
  <2>5. Further(b, d[k + 1])
    BY <2>2, <2>4 DEF Further
  <2>6. ASSUME NEW i \in 1 .. k + 1
        PROVE  ring[i].to = src \/ d[k + 1].root[ring[i].to] # None
    <3>1. CASE i = k + 1
      BY <2>4, <3>1
    <3>2. CASE i # k + 1
      <4>1. i \in 1 .. k /\ i \in 1 .. n
        BY <1>1, <2>1, <3>2
      <4>2. ring[i].to = src \/ d[k].root[ring[i].to] # None
        BY <2>2, <4>1
      <4>3. ring[i].to \in Nodes
        BY <4>1, EdgeIs DEF n
      <4> QED
        BY <2>4, <4>2, <4>3 DEF Further
    <3> QED
      BY <3>1, <3>2
  <2> QED
    BY <2>1, <2>4, <2>5, <2>6
<1>14. n \in P
  <2> HIDE DEF P
  <2>1. \A k \in 0 .. n - 1 : k \in P => k + 1 \in P
    BY <1>13
  <2>2. \A k \in 0 .. n : k \in P
    BY <1>1, <1>12, <2>1, Induct
  <2> QED
    BY <1>1, <2>2
<1>15. t \in S /\ Further(b, t) /\ Told(t, n)
  BY <1>10, <1>14
<1>16. ASSUME NEW w, HasEdge(g, v, w) PROVE w = src \/ t.root[w] # None
  <2>1. PICK i \in 1 .. Len(ring) : ring[i].to = w
    BY <1>16, EdgeTyped
  <2> QED
    BY <1>15, <2>1 DEF n
<1> QED
  BY <1>15, <1>16 DEF S, Visited

\* Between two visits: the edges of every visited vertex are known.
Ready(g, src, s) ==
  /\ s \in Searches
  /\ Labelled(g, src, s)
  /\ \A u \in s.visited : \A w : HasEdge(g, u, w) => w = src \/ s.root[w] # None

\* The visit of the source.
LEMMA FirstVisit ==
  ASSUME NEW g, Ringed(g), NEW src \in Nodes, NEW s,
         s = [visited |-> {}, weight |-> [v \in Nodes |-> 0],
              root |-> [v \in Nodes |-> None], queue |-> << >>]
  PROVE  Ready(g, src, Visit(g, s, src)) /\ Visit(g, s, src).visited = {src}
<1> DEFINE b == [visited |-> {src}, weight |-> [v \in Nodes |-> 0],
                 root |-> [v \in Nodes |-> None], queue |-> << >>]
           t == Visit(g, s, src)
<1>1. b = [s EXCEPT !.visited = @ \union {src}]
  <2>1. PICK w, r, q : w = [v \in Nodes |-> 0] /\ r = [v \in Nodes |-> None] /\ q = << >>
    OBVIOUS
  <2>2. s = [visited |-> {}, weight |-> w, root |-> r, queue |-> q]
    BY <2>1
  <2>3. PICK y : y = s.visited \union {src}
    OBVIOUS
  <2>4. PICK x : x = [s EXCEPT !.visited = y]
    OBVIOUS
  <2>5. x = [visited |-> y, weight |-> w, root |-> r, queue |-> q]
    BY <2>2, <2>4, WithVisited
  <2>6. y = {src}
    BY <2>2, <2>3
  <2>7. x = [s EXCEPT !.visited = @ \union {src}]
    BY <2>3, <2>4, Zenon
  <2> QED
    BY <2>1, <2>5, <2>6, <2>7
<1>2. b \in Searches
  BY DEF Searches
<1>3. Labelled(g, src, b) /\ src \in b.visited
  BY DEF Labelled, Queued
<1>4. b.visited = {src}
  OBVIOUS
<1> HIDE DEF b
<1>5. Visited(g, src, b, src, t)
  BY <1>1, <1>2, <1>3, VisitKeeps
<1> QED
  BY <1>4, <1>5 DEF Ready, Visited

\* The visit of the vertex at the head of the queue.
LEMMA NextVisit ==
  ASSUME NEW g, Ringed(g), NEW src \in Nodes, NEW s, Ready(g, src, s), s.queue # << >>
  PROVE  /\ Ready(g, src, Visit(g, [s EXCEPT !.queue = Tail(@)], Head(s.queue)))
         /\ Head(s.queue) \notin s.visited
         /\ Visit(g, [s EXCEPT !.queue = Tail(@)], Head(s.queue)).visited
              = s.visited \union {Head(s.queue)}
<1> DEFINE q == Tail(s.queue)
           v == Head(s.queue)
           b == [visited |-> s.visited \union {v}, weight |-> s.weight,
                 root |-> s.root, queue |-> q]
           r == [s EXCEPT !.queue = Tail(@)]
           t == Visit(g, r, v)
<1>0. /\ s \in Searches /\ Labelled(g, src, s)
      /\ s.visited \subseteq Nodes /\ s.weight \in [Nodes -> Nat]
      /\ s.root \in [Nodes -> Nodes \union {None}] /\ s.queue \in Seq(Nodes)
      /\ s = [visited |-> s.visited, weight |-> s.weight, root |-> s.root, queue |-> s.queue]
  BY SearchFields DEF Ready
<1>1. /\ Len(s.queue) \in Nat \ {0} /\ v = s.queue[1] /\ v \in Nodes
      /\ q \in Seq(Nodes) /\ Len(q) = Len(s.queue) - 1
      /\ \A i \in 1 .. Len(q) : q[i] = s.queue[i + 1]
  BY <1>0
<1> HIDE DEF q, v
<1>2. b = [r EXCEPT !.visited = @ \union {v}]
  <2>1. r = [visited |-> s.visited, weight |-> s.weight, root |-> s.root, queue |-> q]
    <3>1. PICK x : x = [s EXCEPT !.queue = q]
      OBVIOUS
    <3>2. x = [visited |-> s.visited, weight |-> s.weight, root |-> s.root, queue |-> q]
      BY <1>0, <3>1, WithQueue
    <3>3. r = x
      BY <3>1 DEF q
    <3> QED
      BY <3>2, <3>3
  <2> HIDE DEF r
  <2>2. PICK y : y = r.visited \union {v}
    OBVIOUS
  <2>3. PICK x : x = [r EXCEPT !.visited = y]
    OBVIOUS
  <2>4. x = [visited |-> y, weight |-> s.weight, root |-> s.root, queue |-> q]
    BY <2>1, <2>3, WithVisited
  <2>5. y = s.visited \union {v} /\ x = [r EXCEPT !.visited = @ \union {v}]
    BY <2>1, <2>2, <2>3
  <2> QED
    BY <2>4, <2>5
<1>3. b \in Searches
  BY <1>0, <1>1 DEF Searches
<1>4. b.visited = s.visited \union {v} /\ b.weight = s.weight /\ b.root = s.root /\ b.queue = q
  OBVIOUS
<1> HIDE DEF b
<1>5. v \notin s.visited
  BY <1>0, <1>1 DEF Labelled
<1>6. v # src /\ Queued(s, v)
  BY <1>0, <1>1, <1>5 DEF Labelled, Queued
<1>7. \A u : Queued(s, u) <=> u = v \/ Queued(b, u)
  <2>1. ASSUME NEW u, Queued(s, u), u # v PROVE Queued(b, u)
    <3>1. PICK i \in 1 .. Len(s.queue) : s.queue[i] = u
      BY <2>1 DEF Queued
    <3>2. i # 1
      BY <1>1, <2>1, <3>1
    <3>3. i - 1 \in 1 .. Len(q) /\ (i - 1) + 1 = i
      BY <1>1, <3>2
    <3>4. q[i - 1] = u
      BY <1>1, <3>1, <3>3
    <3> QED
      BY <1>4, <3>3, <3>4 DEF Queued
  <2>2. ASSUME NEW u, Queued(b, u) PROVE Queued(s, u)
    <3>1. PICK i \in 1 .. Len(q) : q[i] = u
      BY <1>4, <2>2 DEF Queued
    <3>2. i + 1 \in 1 .. Len(s.queue) /\ s.queue[i + 1] = u
      BY <1>1, <3>1
    <3> QED
      BY <3>2 DEF Queued
  <2> QED
    BY <1>6, <2>1, <2>2
<1>8. ASSUME NEW i \in 1 .. Len(q)
      PROVE  i + 1 \in 1 .. Len(s.queue) /\ i + 1 # 1 /\ q[i] = s.queue[i + 1]
  BY <1>1
<1>9. \A i \in 1 .. Len(q) : q[i] \notin b.visited
  <2>1. ASSUME NEW i \in 1 .. Len(q) PROVE q[i] # v
    <3>1. 1 \in 1 .. Len(s.queue)
      BY <1>1
    <3> QED
      BY <1>0, <1>1, <1>8, <3>1 DEF Labelled
  <2>2. \A i \in 1 .. Len(q) : q[i] \notin s.visited
    BY <1>0, <1>8 DEF Labelled
  <2> QED
    BY <1>4, <2>1, <2>2
<1>10. \A i, j \in 1 .. Len(q) : q[i] = q[j] => i = j
  <2>1. ASSUME NEW i \in 1 .. Len(q), NEW j \in 1 .. Len(q), q[i] = q[j] PROVE i = j
    <3>1. i + 1 = j + 1
      <4>1. \A k, m \in 1 .. Len(s.queue) : s.queue[k] = s.queue[m] => k = m
        BY <1>0 DEF Labelled
      <4>2. i + 1 \in 1 .. Len(s.queue) /\ j + 1 \in 1 .. Len(s.queue)
        BY <1>8
      <4>3. s.queue[i + 1] = s.queue[j + 1]
        BY <1>8, <2>1
      <4> QED
        BY <4>1, <4>2, <4>3
    <3> QED
      BY <3>1
  <2> QED
    BY <2>1
<1>11. \A u \in Nodes : b.root[u] # None => Rooted(g, b, u)
  BY <1>0, <1>4 DEF Labelled, Rooted
<1>12. Labelled(g, src, b) /\ v \in b.visited
  <2>1. \A u \in Nodes : u # src => (b.root[u] # None <=> u \in b.visited \/ Queued(b, u))
    BY <1>0, <1>4, <1>7 DEF Labelled
  <2>2. src \in b.visited /\ b.root[src] = None /\ b.weight[src] = 0
    BY <1>0, <1>4 DEF Labelled
  <2> QED
    BY <1>4, <1>9, <1>10, <1>11, <2>1, <2>2 DEF Labelled
<1> HIDE DEF r
<1>13. Visited(g, src, b, v, t)
  BY <1>1, <1>2, <1>3, <1>12, VisitKeeps
<1> HIDE DEF t
<1>14. ASSUME NEW u \in t.visited, NEW w, HasEdge(g, u, w) PROVE w = src \/ t.root[w] # None
  <2>1. CASE u = v
    BY <1>13, <1>14, <2>1 DEF Visited
  <2>2. CASE u # v
    <3>1. u \in s.visited /\ u \in Nodes
      BY <1>0, <1>4, <1>13, <2>2 DEF Visited
    <3>2. w = src \/ s.root[w] # None
      BY <1>14, <3>1 DEF Ready
    <3>3. w \in Nodes
      BY <1>14, <3>1, EdgeTyped
    <3> QED
      BY <1>4, <1>13, <3>2, <3>3 DEF Further, Visited
  <2> QED
    BY <2>1, <2>2
<1>15. Ready(g, src, t)
  BY <1>13, <1>14 DEF Ready, Visited
<1> QED
  BY <1>4, <1>5, <1>13, <1>15 DEF t, r, v, Visited

\* The search from visit to visit.
Begun == [visited |-> {}, weight |-> [v \in Nodes |-> 0],
          root |-> [v \in Nodes |-> None], queue |-> << >>]

Advance(g, s) ==
  IF s.queue = << >> THEN s ELSE Visit(g, [s EXCEPT !.queue = Tail(@)], Head(s.queue))

Search(g, src, run) ==
  /\ Labels(g, src) = run[Cardinality(Nodes)]
  /\ run[0] = Visit(g, Begun, src)
  /\ \A k \in 0 .. Cardinality(Nodes) - 1 : run[k + 1] = Advance(g, run[k])

LEMMA AdvanceKeeps ==
  ASSUME NEW g, Ringed(g), NEW src \in Nodes, NEW s \in Searches, Ready(g, src, s)
  PROVE  /\ Advance(g, s) \in Searches /\ Ready(g, src, Advance(g, s))
         /\ s.queue = << >> => Advance(g, s) = s
         /\ s.queue # << >> =>
              \E v \in Nodes \ s.visited : Advance(g, s).visited = s.visited \union {v}
<1>1. CASE s.queue = << >>
  BY <1>1 DEF Advance
<1>2. CASE s.queue # << >>
  <2> DEFINE t == Visit(g, [s EXCEPT !.queue = Tail(@)], Head(s.queue))
  <2>0. /\ Ready(g, src, t) /\ Head(s.queue) \notin s.visited
        /\ t.visited = s.visited \union {Head(s.queue)}
    BY <1>2, NextVisit
  <2>a. Advance(g, s) = t
    BY <1>2 DEF Advance
  <2> HIDE DEF t
  <2>1. /\ Ready(g, src, Advance(g, s)) /\ Head(s.queue) \notin s.visited
        /\ Advance(g, s).visited = s.visited \union {Head(s.queue)}
    BY <2>0, <2>a
  <2>2. Advance(g, s) \in Searches /\ Head(s.queue) \in Nodes
    BY <1>2, <2>1 DEF Ready, Searches
  <2> QED
    BY <1>2, <2>1, <2>2
<1> QED
  BY <1>1, <1>2

LEMMA BegunReady ==
  ASSUME NEW g, Ringed(g), NEW src \in Nodes
  PROVE  /\ Visit(g, Begun, src) \in Searches /\ Ready(g, src, Visit(g, Begun, src))
         /\ Visit(g, Begun, src).visited = {src}
<1>1. Ready(g, src, Visit(g, Begun, src)) /\ Visit(g, Begun, src).visited = {src}
  BY FirstVisit DEF Begun
<1> QED
  BY <1>1 DEF Ready

LEMMA LabelsRun ==
  ASSUME NEW g, Ringed(g), NEW src \in Nodes, IsFiniteSet(Nodes)
  PROVE  \E run : Search(g, src, run)
<1> DEFINE n == Cardinality(Nodes)
           first == Visit(g, Begun, src)
           S == {s \in Searches : Ready(g, src, s)}
           step == [y \in S \X (1 .. n) |-> Advance(g, y[1])]
           run == CHOOSE r : r = [k \in 0 .. n |-> IF k = 0 THEN first ELSE Advance(g, r[k - 1])]
<1>1. n \in Nat
  BY FS_CardinalityType
<1>2. Labels(g, src) = run[n]
  BY DEF Labels, Begun, Advance
<1>3. first \in S
  BY BegunReady
<1>4. \A s \in S : Advance(g, s) \in S
  BY AdvanceKeeps
<1> HIDE DEF first
<1>5. \A s \in S, k \in 1 .. n : step[<<s, k>>] = Advance(g, s)
  OBVIOUS
<1>6. Stays(step, n, S)
  <2> HIDE DEF S, step
  <2> QED
    BY <1>4, <1>5 DEF Stays
<1>7. Runs(n, S, first, step)
  <2> HIDE DEF S, step, n
  <2> QED
    BY <1>1, <1>3, <1>6, Recursion
<1>8. PICK h \in [0 .. n -> S] : Goes(h, n, first, step)
  BY <1>7 DEF Runs
<1> HIDE DEF step, n, S
<1>9. h = [k \in 0 .. n |-> IF k = 0 THEN first ELSE Advance(g, h[k - 1])]
  <2>1. \A k \in 1 .. n : h[k - 1] \in S
    BY <1>1
  <2>2. \A k \in 1 .. n : h[k] = Advance(g, h[k - 1])
    BY <1>5, <1>8, <2>1 DEF Goes
  <2> QED
    BY <1>1, <1>8, <2>2 DEF Goes
<1>10. run = [k \in 0 .. n |-> IF k = 0 THEN first ELSE Advance(g, run[k - 1])]
  BY <1>9
<1> HIDE DEF run
<1>11. run[0] = first /\ \A k \in 0 .. n - 1 : run[k + 1] = Advance(g, run[k])
  <2>1. \A k \in 0 .. n : run[k] = IF k = 0 THEN first ELSE Advance(g, run[k - 1])
    BY <1>10
  <2>2. 0 \in 0 .. n /\ \A k \in 0 .. n - 1 : k + 1 \in 0 .. n /\ k + 1 # 0 /\ (k + 1) - 1 = k
    BY <1>1
  <2>3. run[0] = first
    BY <2>1, <2>2, Zenon
  <2>4. ASSUME NEW k \in 0 .. n - 1 PROVE run[k + 1] = Advance(g, run[k])
    <3>1. k + 1 \in 0 .. n /\ k + 1 # 0 /\ (k + 1) - 1 = k
      BY <2>2
    <3>2. run[k + 1] = Advance(g, run[(k + 1) - 1])
      BY <2>1, <3>1, Zenon
    <3> QED
      BY <3>1, <3>2
  <2> QED
    BY <2>3, <2>4
<1>12. Search(g, src, run)
  BY <1>2, <1>11 DEF Search, first, n
<1> QED
  BY <1>12

\* The labels the search leaves: it comes to an end, for each visit takes one
\* more vertex and a vertex is queued once.
LEMMA LabelsReady ==
  ASSUME NEW g, Ringed(g), NEW src \in Nodes, IsFiniteSet(Nodes)
  PROVE  Ready(g, src, Labels(g, src)) /\ Labels(g, src).queue = << >>
<1> DEFINE n == Cardinality(Nodes)
           first == Visit(g, Begun, src)
           next(s) == Advance(g, s)
           S == {s \in Searches : Ready(g, src, s)}
<1>1. n \in Nat
  BY FS_CardinalityType
<1>0. PICK run : Search(g, src, run)
  BY LabelsRun
<1>2. Labels(g, src) = run[n]
  BY <1>0 DEF Search
<1>3. first \in S /\ first.visited = {src}
  BY BegunReady
<1>4. ASSUME NEW s \in S
      PROVE  /\ next(s) \in S
             /\ s.queue = << >> => next(s) = s
             /\ s.queue # << >> => \E v \in Nodes \ s.visited : next(s).visited = s.visited \union {v}
  BY AdvanceKeeps
<1>11. run[0] = first /\ \A k \in 0 .. n - 1 : run[k + 1] = next(run[k])
  BY <1>0 DEF Search
<1> HIDE DEF first, next, n, S
<1> DEFINE P == {k \in 0 .. n : /\ run[k] \in S
                                /\ \/ run[k].queue = << >>
                                   \/ Cardinality(run[k].visited) = k + 1}
<1>12. \A s \in S : s.visited \in SUBSET Nodes
  BY DEF S, Searches
<1>13. 0 \in P
  <2>1. Cardinality({src}) = 1
    BY FS_Singleton
  <2>2. run[0] \in S /\ run[0].visited = {src} /\ 0 \in 0 .. n
    BY <1>1, <1>3, <1>11
  <2>3. Cardinality(run[0].visited) = 0 + 1
    BY <2>1, <2>2
  <2> QED
    BY <2>2, <2>3
<1>14. ASSUME NEW k \in 0 .. n - 1, k \in P PROVE k + 1 \in P
  <2>1. run[k] \in S /\ run[k + 1] = next(run[k]) /\ k + 1 \in 0 .. n
    BY <1>1, <1>11, <1>14
  <2>2. run[k + 1] \in S
    BY <1>4, <2>1
  <2>3. CASE run[k].queue = << >>
    BY <1>4, <2>1, <2>2, <2>3
  <2>4. CASE run[k].queue # << >>
    <3>1. Cardinality(run[k].visited) = k + 1
      BY <1>14, <2>4
    <3>2. PICK v \in Nodes \ run[k].visited : run[k + 1].visited = run[k].visited \union {v}
      BY <1>4, <2>1, <2>4
    <3>3. IsFiniteSet(run[k].visited)
      BY <1>12, <2>1, FS_Subset
    <3>4. Cardinality(run[k + 1].visited) = Cardinality(run[k].visited) + 1
      BY <3>2, <3>3, FS_AddElement
    <3> QED
      BY <2>1, <2>2, <3>1, <3>4
  <2> QED
    BY <2>3, <2>4
<1>15. n \in P
  <2> HIDE DEF P
  <2>1. \A k \in 0 .. n - 1 : k \in P => k + 1 \in P
    BY <1>14
  <2>2. \A k \in 0 .. n : k \in P
    BY <1>1, <1>13, <2>1, Induct
  <2> QED
    BY <1>1, <2>2
<1>16. run[n] \in S /\ run[n].queue = << >>
  <2>1. run[n] \in S /\ (run[n].queue = << >> \/ Cardinality(run[n].visited) = n + 1)
    BY <1>15
  <2>2. Cardinality(run[n].visited) <= n
    BY <1>12, <2>1, FS_Subset DEF n
  <2> QED
    BY <1>1, <2>1, <2>2
<1> QED
  BY <1>2, <1>16 DEF S

\* Roads and the numbers of their hops.
Road(n, p) == p \in [0 .. n -> Nodes] /\ \A i, j \in 0 .. n : p[i] = p[j] => i = j

LEMMA RoadIsPath ==
  ASSUME NEW n \in Nat \ {0}, NEW p, Road(n, p), IsFiniteSet(Nodes)
  PROVE  p \in Paths /\ Hops(p) = n /\ DOMAIN p = 0 .. n
<1>1. DOMAIN p = 0 .. n
  BY DEF Road
<1>2. IsFiniteSet(0 .. n) /\ Cardinality(0 .. n) = n + 1
  BY FS_Interval
<1>3. p \in Injection(0 .. n, Nodes)
  BY DEF Road, Injection, IsInjective
<1>4. Cardinality(0 .. n) <= Cardinality(Nodes)
  BY <1>3, FS_Injection
<1>5. Cardinality(Nodes) \in Nat
  BY FS_CardinalityType
<1>6. n \in 1 .. (Cardinality(Nodes) - 1)
  BY <1>2, <1>4, <1>5
<1>7. p \in {q \in [0 .. n -> Nodes] : \A i, j \in 0 .. n : q[i] = q[j] => i = j}
  BY DEF Road
<1>8. p \in Paths
  BY <1>6, <1>7 DEF Paths
<1> QED
  BY <1>1, <1>2, <1>8 DEF Hops

LEMMA PathIsRoad ==
  ASSUME NEW p \in Paths, IsFiniteSet(Nodes)
  PROVE  \E n \in Nat \ {0} : Road(n, p) /\ Hops(p) = n /\ DOMAIN p = 0 .. n
<1>1. PICK n \in 1 .. (Cardinality(Nodes) - 1) :
        p \in [0 .. n -> Nodes] /\ \A i, j \in 0 .. n : p[i] = p[j] => i = j
  BY DEF Paths
<1>2. n \in Nat \ {0}
  OBVIOUS
<1>3. Road(n, p)
  BY <1>1 DEF Road
<1> QED
  BY <1>2, <1>3, RoadIsPath

\* The way back along the roots, from t to where the search began.
LeadsBack(s, src, t, n, p) ==
  /\ Road(n, p) /\ p[0] = t /\ p[n] = src
  /\ \A i \in 0 .. n - 1 : s.root[p[i]] = p[i + 1]

Traces(s, src, t, n, p) ==
  LeadsBack(s, src, t, n, p) /\ \A i \in 0 .. n : s.weight[p[i]] <= s.weight[t]

LEMMA RootIsLighter ==
  ASSUME NEW g, Ringed(g), NEW src \in Nodes, NEW s, Ready(g, src, s),
         NEW t \in Nodes, s.root[t] # None
  PROVE  /\ s.root[t] \in Nodes /\ HasEdge(g, s.root[t], t)
         /\ EdgeWeight(g, s.root[t], t) \in 1 .. MaxWeight
         /\ s.weight[t] = s.weight[s.root[t]] + EdgeWeight(g, s.root[t], t)
         /\ s.weight[s.root[t]] < s.weight[t]
         /\ s.root[t] = src \/ s.root[s.root[t]] # None
<1>1. /\ s.root[t] \in s.visited /\ HasEdge(g, s.root[t], t) /\ s.visited \subseteq Nodes
      /\ s.weight[t] = s.weight[s.root[t]] + EdgeWeight(g, s.root[t], t)
  BY DEF Ready, Labelled, Rooted, Searches
<1>2. EdgeWeight(g, s.root[t], t) \in 1 .. MaxWeight
  BY <1>1, EdgeTyped
<1>3. s.weight \in [Nodes -> Nat]
  BY DEF Ready, Searches
<1>4. s.weight[s.root[t]] \in Nat /\ s.weight[t] \in Nat
  BY <1>1, <1>3
<1>5. s.weight[s.root[t]] < s.weight[t]
  BY <1>1, <1>2, <1>4, MaxWeightAssumption
<1>6. s.root[t] = src \/ s.root[s.root[t]] # None
  BY <1>1 DEF Ready, Labelled
<1> QED
  BY <1>1, <1>2, <1>5, <1>6

LEMMA TraceExists ==
  ASSUME NEW g, Ringed(g), NEW src \in Nodes, NEW s, Ready(g, src, s),
         NEW t \in Nodes, s.root[t] # None
  PROVE  \E n \in Nat \ {0} : \E p : Traces(s, src, t, n, p)
<1> DEFINE Lost == {u \in Nodes : s.root[u] # None /\ ~ \E n \in Nat \ {0} : \E p : Traces(s, src, u, n, p)}
           Sizes == {s.weight[u] : u \in Lost}
<1> SUFFICES ASSUME Lost # {} PROVE FALSE
  OBVIOUS
<1>0. s.weight \in [Nodes -> Nat]
  BY DEF Ready, Searches
<1>1. Sizes \subseteq Nat /\ Sizes # {}
  BY <1>0
<1>2. PICK m \in Sizes : \A k \in Sizes : m <= k
  <2> HIDE DEF Sizes
  <2> QED
    BY <1>1, HasLeast
<1>3. PICK u \in Lost : m = s.weight[u]
  OBVIOUS
<1>4. u \in Nodes /\ s.root[u] # None /\ s.weight[u] \in Nat
  BY <1>0
<1> DEFINE r == s.root[u]
<1>5. r \in Nodes /\ s.weight[r] < s.weight[u] /\ (r = src \/ s.root[r] # None)
  BY <1>4, RootIsLighter
<1>5a. s.weight[r] \in Nat
  BY <1>0, <1>5
<1>6. r \notin Lost
  <2>1. r \in Lost => s.weight[r] \in Sizes
    OBVIOUS
  <2> HIDE DEF Lost, Sizes
  <2> QED
    BY <1>2, <1>3, <1>4, <1>5, <1>5a, <2>1
<1>7. u # r
  BY <1>4, <1>5, <1>5a
<1>8. CASE r = src
  <2> DEFINE p == [i \in 0 .. 1 |-> IF i = 0 THEN u ELSE r]
  <2>1. Road(1, p)
    BY <1>4, <1>5, <1>7 DEF Road
  <2>2. p[0] = u /\ p[1] = src /\ 0 .. 1 = {0, 1} /\ 0 .. (1 - 1) = {0}
    BY <1>8
  <2>3. Traces(s, src, u, 1, p)
    BY <1>4, <1>5, <1>5a, <1>8, <2>1, <2>2 DEF Traces, LeadsBack
  <2> QED
    BY <2>3
<1>9. CASE r # src
  <2>0. PICK n \in Nat \ {0} : \E q : Traces(s, src, r, n, q)
    BY <1>5, <1>6, <1>9
  <2>1. PICK q : Traces(s, src, r, n, q)
    BY <2>0
  <2> DEFINE p == [i \in 0 .. n + 1 |-> IF i = 0 THEN u ELSE q[i - 1]]
  <2>2. /\ q \in [0 .. n -> Nodes] /\ q[0] = r /\ q[n] = src
        /\ \A i, j \in 0 .. n : q[i] = q[j] => i = j
        /\ \A i \in 0 .. n - 1 : s.root[q[i]] = q[i + 1]
        /\ \A i \in 0 .. n : s.weight[q[i]] <= s.weight[r]
    BY <2>1 DEF Traces, LeadsBack, Road
  <2>3. \A i \in 0 .. n + 1 : i = 0 \/ (i - 1 \in 0 .. n /\ i # 0)
    OBVIOUS
  <2>4. p[0] = u /\ \A i \in 0 .. n + 1 : i # 0 => p[i] = q[i - 1]
    OBVIOUS
  <2>5. p \in [0 .. n + 1 -> Nodes]
    BY <1>4, <2>2, <2>3
  <2> HIDE DEF p, r
  <2>6. ASSUME NEW i \in 0 .. n + 1, i # 0
        PROVE  s.weight[p[i]] <= s.weight[r] /\ p[i] # u
    <3>1. i - 1 \in 0 .. n
      BY <2>3, <2>6
    <3>2. s.weight[p[i]] <= s.weight[r]
      BY <2>2, <2>4, <2>6, <3>1
    <3> QED
      BY <1>4, <1>5, <1>5a, <3>2
  <2>7. ASSUME NEW i \in 0 .. n + 1, NEW j \in 0 .. n + 1, p[i] = p[j] PROVE i = j
    <3>1. CASE i = 0 \/ j = 0
      BY <2>4, <2>6, <2>7, <3>1
    <3>2. CASE i # 0 /\ j # 0
      <4>1. i - 1 \in 0 .. n /\ j - 1 \in 0 .. n /\ q[i - 1] = q[j - 1]
        BY <2>3, <2>4, <2>7, <3>2
      <4>2. i - 1 = j - 1
        BY <2>2, <4>1
      <4> QED
        BY <4>2
    <3> QED
      BY <3>1, <3>2
  <2>8. ASSUME NEW i \in 0 .. n PROVE s.root[p[i]] = p[i + 1]
    <3>0. i + 1 \in 0 .. n + 1 /\ i + 1 # 0 /\ (i + 1) - 1 = i /\ i \in 0 .. n + 1
      OBVIOUS
    <3>1. p[i + 1] = q[i]
      BY <2>4, <3>0
    <3>2. CASE i = 0
      BY <2>2, <2>4, <3>1, <3>2 DEF r
    <3>3. CASE i # 0
      <4>1. i - 1 \in 0 .. n - 1 /\ (i - 1) + 1 = i
        BY <3>3
      <4>2. p[i] = q[i - 1]
        BY <2>4, <3>0, <3>3
      <4> QED
        BY <2>2, <3>1, <4>1, <4>2
    <3> QED
      BY <3>2, <3>3
  <2>9. p[n + 1] = src
    <3>1. n + 1 \in 0 .. n + 1 /\ n + 1 # 0 /\ (n + 1) - 1 = n
      OBVIOUS
    <3> QED
      BY <2>2, <2>4, <3>1
  <2>10. ASSUME NEW i \in 0 .. n + 1 PROVE s.weight[p[i]] <= s.weight[u]
    <3>1. CASE i = 0
      BY <1>4, <2>4, <3>1
    <3>2. CASE i # 0
      <4>1. s.weight[p[i]] \in Nat
        BY <1>0, <2>5
      <4> QED
        BY <1>4, <1>5, <1>5a, <2>6, <3>2, <4>1
    <3> QED
      BY <3>1, <3>2
  <2>11. Road(n + 1, p)
    BY <2>5, <2>7 DEF Road
  <2>12. Traces(s, src, u, n + 1, p)
    <3>1. (n + 1) - 1 = n
      OBVIOUS
    <3> QED
      BY <2>4, <2>8, <2>9, <2>10, <2>11, <3>1 DEF Traces, LeadsBack
  <2>13. n + 1 \in Nat \ {0}
    OBVIOUS
  <2> QED
    BY <2>12, <2>13
<1> QED
  BY <1>8, <1>9

\* What the edges along it weigh is the weight the search gives t.
Weighs(g, p) == SumUpto([i \in 1 .. Hops(p) |-> EdgeWeight(g, p[i], p[i - 1])], Hops(p))

LEMMA TraceWeighs ==
  ASSUME NEW g, Ringed(g), NEW src \in Nodes, NEW s, Ready(g, src, s),
         NEW t \in Nodes, NEW n \in Nat \ {0}, NEW p, LeadsBack(s, src, t, n, p), Hops(p) = n
  PROVE  /\ \A i \in 1 .. n : HasEdge(g, p[i], p[i - 1])
         /\ Weighs(g, p) = s.weight[t]
<1> DEFINE f == [i \in 1 .. n |-> EdgeWeight(g, p[i], p[i - 1])]
           h == [k \in 0 .. n |-> s.weight[t] - s.weight[p[k]]]
<1>0. /\ p \in [0 .. n -> Nodes] /\ p[0] = t /\ p[n] = src
      /\ \A i \in 0 .. n - 1 : s.root[p[i]] = p[i + 1]
  BY DEF LeadsBack, Road
<1>1. s.weight \in [Nodes -> Nat] /\ s.weight[src] = 0
  BY DEF Ready, Searches, Labelled
<1>2. ASSUME NEW i \in 1 .. n
      PROVE  /\ HasEdge(g, p[i], p[i - 1])
             /\ EdgeWeight(g, p[i], p[i - 1]) \in 1 .. MaxWeight
             /\ s.weight[p[i - 1]] = s.weight[p[i]] + EdgeWeight(g, p[i], p[i - 1])
  <2>1. i - 1 \in 0 .. n - 1 /\ (i - 1) + 1 = i /\ i - 1 \in 0 .. n /\ i \in 0 .. n
    OBVIOUS
  <2>2. s.root[p[i - 1]] = p[i] /\ p[i] \in Nodes /\ p[i - 1] \in Nodes
    BY <1>0, <2>1
  <2>3. s.root[p[i - 1]] # None
    BY <2>2, NoneAssumption
  <2> QED
    BY <2>2, <2>3, RootIsLighter
<1>3. \A k \in 0 .. n : s.weight[p[k]] \in Nat /\ h[k] = s.weight[t] - s.weight[p[k]]
  BY <1>0, <1>1
<1>4. s.weight[t] \in Nat
  BY <1>1
<1>5. \A i \in 1 .. n : f[i] = EdgeWeight(g, p[i], p[i - 1]) /\ f[i] \in Nat
  BY <1>2, MaxWeightAssumption
<1>6. h = [k \in 0 .. n |-> IF k = 0 THEN 0 ELSE h[k - 1] + f[k]]
  <2>1. ASSUME NEW k \in 0 .. n PROVE h[k] = IF k = 0 THEN 0 ELSE h[k - 1] + f[k]
    <3>1. CASE k = 0
      BY <1>0, <1>3, <1>4, <3>1
    <3>2. CASE k # 0
      <4>1. k \in 1 .. n /\ k - 1 \in 0 .. n
        BY <3>2
      <4>2. s.weight[p[k - 1]] = s.weight[p[k]] + f[k] /\ f[k] \in Nat
        BY <1>2, <1>5, <4>1
      <4>3. /\ h[k] = s.weight[t] - s.weight[p[k]] /\ h[k - 1] = s.weight[t] - s.weight[p[k - 1]]
            /\ s.weight[p[k]] \in Nat /\ s.weight[p[k - 1]] \in Nat
        BY <1>3, <4>1
      <4> HIDE DEF h, f
      <4> QED
        BY <1>4, <3>2, <4>2, <4>3
    <3> QED
      BY <3>1, <3>2
  <2> DEFINE e == [k \in 0 .. n |-> IF k = 0 THEN 0 ELSE h[k - 1] + f[k]]
  <2>2. DOMAIN h = 0 .. n /\ h = [k \in 0 .. n |-> h[k]]
    OBVIOUS
  <2> HIDE DEF h, f
  <2> QED
    BY <2>1, <2>2
<1>7. SumUpto(f, n) = h[n]
  <2> HIDE DEF h, f
  <2> QED
    BY <1>6, SumUptoIs
<1>8. h[n] = s.weight[t]
  <2>1. n \in 0 .. n
    OBVIOUS
  <2>2. h[n] = s.weight[t] - s.weight[p[n]]
    BY <1>3, <2>1
  <2> HIDE DEF h
  <2> QED
    BY <1>0, <1>1, <1>4, <2>2
<1> QED
  BY <1>2, <1>7, <1>8 DEF Weighs

\* Who can be reached has been: along a road of links from the source
\* everybody is visited.
LEMMA ReachedIsRooted ==
  ASSUME NEW g, Ringed(g), NEW src \in Nodes, NEW s, Ready(g, src, s), s.queue = << >>,
         NEW n \in Nat \ {0}, NEW p, Road(n, p), p[n] = src,
         \A i \in 1 .. n : HasEdge(g, p[i], p[i - 1])
  PROVE  s.root[p[0]] # None
<1> DEFINE P == {k \in 0 .. n : p[n - k] \in s.visited}
<1>0. p \in [0 .. n -> Nodes]
  BY DEF Road
<1>1. \A u \in Nodes : u # src => (s.root[u] # None <=> u \in s.visited)
  BY DEF Ready, Labelled, Queued
<1>2. 0 \in P
  <2>1. n - 0 = n /\ 0 \in 0 .. n
    OBVIOUS
  <2> QED
    BY <2>1 DEF Ready, Labelled
<1>3. ASSUME NEW k \in 0 .. n - 1, k \in P PROVE k + 1 \in P
  <2>1. /\ n - k \in 1 .. n /\ (n - k) - 1 = n - (k + 1)
        /\ n - (k + 1) \in 0 .. n /\ k + 1 \in 0 .. n
    OBVIOUS
  <2>2. HasEdge(g, p[n - k], p[n - (k + 1)])
    BY <2>1
  <2>3. p[n - k] \in s.visited
    BY <1>3
  <2>4. p[n - (k + 1)] = src \/ s.root[p[n - (k + 1)]] # None
    BY <2>2, <2>3 DEF Ready
  <2>5. p[n - (k + 1)] \in Nodes
    BY <1>0, <2>1
  <2>6. p[n - (k + 1)] \in s.visited
    BY <1>1, <2>4, <2>5 DEF Ready, Labelled
  <2> QED
    BY <2>1, <2>6
<1>4. n \in P
  <2> HIDE DEF P
  <2>1. \A k \in 0 .. n - 1 : k \in P => k + 1 \in P
    BY <1>3
  <2>2. \A k \in 0 .. n : k \in P
    BY <1>2, <2>1, Induct
  <2> QED
    BY <2>2
<1>5. p[0] \in s.visited
  <2>1. n - n = 0
    OBVIOUS
  <2> QED
    BY <1>4, <2>1
<1>6. p[0] \in Nodes /\ p[0] # src
  <2>1. 0 \in 0 .. n /\ n \in 0 .. n /\ n # 0
    OBVIOUS
  <2> QED
    BY <1>0, <2>1 DEF Road
<1> QED
  BY <1>1, <1>5, <1>6

\* The graph stays one: rings of edges, no edge twice.
IsGraph(g) == g \in Graphs /\ Ringed(g)

LEMMA GraphFields ==
  ASSUME NEW g \in Graphs
  PROVE  /\ g = [vertices |-> g.vertices, ring |-> g.ring]
         /\ g.vertices \subseteq Nodes /\ g.ring \in [Nodes -> Seq(Edges)]
BY DEF Graphs

LEMMA WithRing ==
  ASSUME NEW g, IsGraph(g), NEW u \in Nodes, NEW q, q \in Seq(Edges),
         \A i, j \in 1 .. Len(q) : q[i].to = q[j].to => i = j,
         NEW h, h = [vertices |-> g.vertices, ring |-> [g.ring EXCEPT ![u] = q]]
  PROVE  IsGraph(h)
<1>1. g.ring \in [Nodes -> Seq(Edges)] /\ g.vertices \subseteq Nodes
  BY DEF IsGraph, Graphs
<1>2. h.vertices = g.vertices /\ h.ring \in [Nodes -> Seq(Edges)]
  BY <1>1
<1>3. h \in Graphs
  BY <1>1, <1>2 DEF Graphs
<1>4. \A v \in Nodes : h.ring[v] = IF v = u THEN q ELSE g.ring[v]
  BY <1>1
<1>5. Ringed(h)
  BY <1>4 DEF Ringed, IsGraph
<1> QED
  BY <1>3, <1>5 DEF IsGraph

LEMMA MoreVertices ==
  ASSUME NEW g, IsGraph(g), NEW V, V \subseteq Nodes,
         NEW h, h = [g EXCEPT !.vertices = V]
  PROVE  IsGraph(h) /\ h.ring = g.ring
<1>1. /\ g = [vertices |-> g.vertices, ring |-> g.ring]
      /\ g.vertices \subseteq Nodes /\ g.ring \in [Nodes -> Seq(Edges)]
  BY GraphFields DEF IsGraph
<1>2. PICK a, b : g = [vertices |-> a, ring |-> b]
  BY <1>1
<1>3. h = [vertices |-> V, ring |-> b]
  BY <1>2
<1>4. h.ring = g.ring /\ h.vertices = V
  BY <1>2, <1>3
<1>5. h \in Graphs
  BY <1>1, <1>2, <1>3 DEF Graphs
<1> QED
  BY <1>4, <1>5 DEF IsGraph, Ringed

LEMMA NewEdgeIs ==
  ASSUME NEW ring \in Seq(Edges), NEW e \in Edges,
         \A i \in 1 .. Len(ring) : ring[i].to # e.to,
         \A i, j \in 1 .. Len(ring) : ring[i].to = ring[j].to => i = j
  PROVE  /\ NewEdge(ring, e) \in Seq(Edges)
         /\ \A i, j \in 1 .. Len(NewEdge(ring, e)) :
               NewEdge(ring, e)[i].to = NewEdge(ring, e)[j].to => i = j
<1> DEFINE q == NewEdge(ring, e)
<1>0. Len(ring) \in Nat
  OBVIOUS
<1>1. CASE ring = << >>
  <2>1. q = <<e>>
    BY <1>1 DEF NewEdge
  <2> QED
    BY <2>1
<1>2. CASE ring # << >>
  <2>1. q = InsertAt(ring, 2, e) /\ 2 \in 1 .. Len(ring) + 1
    BY <1>0, <1>2 DEF NewEdge
  <2> HIDE DEF q
  <2>2. q \in Seq(Edges) /\ Len(q) = Len(ring) + 1
    BY <2>1, Inserted
  <2>3. Shifted(q, ring, 2, e)
    BY <2>1, Inserted
  <2>4. ASSUME NEW k \in 1 .. Len(ring) + 1
        PROVE  \/ k = 2 /\ q[k] = e
               \/ k # 2 /\ \E i \in 1 .. Len(ring) : q[k] = ring[i] /\ i = IF k < 2 THEN k ELSE k - 1
    <3>1. q[k] = IF k < 2 THEN ring[k] ELSE IF k = 2 THEN e ELSE ring[k - 1]
      BY <2>3 DEF Shifted
    <3>2. k < 2 => k \in 1 .. Len(ring)
      BY <1>0, <2>1
    <3>3. k > 2 => k - 1 \in 1 .. Len(ring)
      BY <1>0
    <3> QED
      BY <3>1, <3>2, <3>3
  <2>5. ASSUME NEW i \in 1 .. Len(ring) + 1, NEW j \in 1 .. Len(ring) + 1, q[i].to = q[j].to
        PROVE  i = j
    <3>1. CASE i = 2 \/ j = 2
      BY <2>4, <2>5, <3>1
    <3>2. CASE i # 2 /\ j # 2
      <4>1. PICK a \in 1 .. Len(ring) : q[i] = ring[a] /\ a = IF i < 2 THEN i ELSE i - 1
        BY <2>4, <3>2
      <4>2. PICK b \in 1 .. Len(ring) : q[j] = ring[b] /\ b = IF j < 2 THEN j ELSE j - 1
        BY <2>4, <3>2
      <4>3. a = b
        BY <2>5, <4>1, <4>2
      <4> QED
        BY <1>0, <3>2, <4>1, <4>2, <4>3
    <3> QED
      BY <3>1, <3>2
  <2> QED
    BY <2>2, <2>5 DEF q
<1> QED
  BY <1>1, <1>2

LEMMA AddEdgeKeeps ==
  ASSUME NEW g, IsGraph(g), NEW from \in Nodes, NEW to \in Nodes, NEW weight \in 1 .. MaxWeight
  PROVE  IsGraph(AddEdge(g, from, to, weight))
<1> DEFINE e == [to |-> to, weight |-> weight]
           ring == g.ring[from]
           f == FindEdge(g, from, to)
           h == AddEdge(g, from, to, weight)
<1>0. PICK a, b : g = [vertices |-> a, ring |-> b]
  BY GraphFields DEF IsGraph
<1>1. /\ ring \in Seq(Edges) /\ Len(ring) \in Nat
      /\ \A i, j \in 1 .. Len(ring) : ring[i].to = ring[j].to => i = j
  BY DEF IsGraph, Ringed
<1>2. f \in 0 .. Len(ring) /\ (f # 0 => ring[f].to = to)
      /\ (f = 0 => \A i \in 1 .. Len(ring) : ring[i].to # to)
  <2>1. f \in 0 .. Len(ring)
    BY <1>1, FindEdgeIs
  <2>2. f # 0 => ring[f].to = to
    BY <1>1, FindEdgeIs
  <2>3. f = 0 => \A i \in 1 .. Len(ring) : ring[i].to # to
    BY <1>1, FindEdgeIs
  <2> QED
    BY <2>1, <2>2, <2>3
<1>3. e \in Edges /\ e.to = to
  BY DEF Edges
<1>4. CASE f = 0
  <2>1. h = [g EXCEPT !.ring[from] = NewEdge(@, e)]
    BY <1>4 DEF AddEdge, HasEdge
  <2> DEFINE q == NewEdge(ring, e)
  <2>2. \A i \in 1 .. Len(ring) : ring[i].to # e.to
    BY <1>2, <1>3, <1>4
  <2> HIDE DEF ring, e
  <2>3. q \in Seq(Edges)
    BY <1>1, <1>3, <2>2, NewEdgeIs
  <2>4. \A i, j \in 1 .. Len(q) : q[i].to = q[j].to => i = j
    BY <1>1, <1>3, <2>2, NewEdgeIs
  <2>5. h = [vertices |-> g.vertices, ring |-> [g.ring EXCEPT ![from] = q]]
    BY <1>0, <2>1 DEF ring
  <2> HIDE DEF q, h
  <2>6. IsGraph(h)
    BY <2>3, <2>4, <2>5, WithRing
  <2> QED
    BY <2>6 DEF h
<1>5. CASE f # 0
  <2>1. h = [g EXCEPT !.ring[from][f] = e]
    BY <1>5 DEF AddEdge, HasEdge
  <2> DEFINE q == [ring EXCEPT ![f] = e]
  <2>2. f \in 1 .. Len(ring) /\ ring[f].to = to
    BY <1>1, <1>2, <1>5
  <2> HIDE DEF ring, e, f
  <2>3. q \in Seq(Edges) /\ Len(q) = Len(ring)
        /\ \A i \in 1 .. Len(ring) : q[i] = IF i = f THEN e ELSE ring[i]
    BY <1>1, <1>3, <2>2
  <2>4. \A i, j \in 1 .. Len(q) : q[i].to = q[j].to => i = j
    <3>1. \A i \in 1 .. Len(ring) : q[i].to = ring[i].to
      BY <1>3, <2>2, <2>3
    <3> QED
      BY <1>1, <2>3, <3>1
  <2>5. h = [vertices |-> g.vertices, ring |-> [g.ring EXCEPT ![from] = q]]
    BY <1>0, <2>1 DEF ring
  <2> HIDE DEF q, h
  <2>6. IsGraph(h)
    BY <2>3, <2>4, <2>5, WithRing
  <2> QED
    BY <2>6 DEF h
<1> QED
  BY <1>4, <1>5

LEMMA SweepKeeps ==
  ASSUME NEW g, IsGraph(g), NEW from \in Nodes, NEW kept
  PROVE  IsGraph(Sweep(g, from, kept))
<1> DEFINE ring == g.ring[from]
           K == {e \in ToSet(ring) : e.to \in kept}
           q == Only(ring, K)
           h == Sweep(g, from, kept)
<1>0. PICK a, b : g = [vertices |-> a, ring |-> b]
  BY GraphFields DEF IsGraph
<1>1. /\ ring \in Seq(Edges) /\ Len(ring) \in Nat
      /\ \A i, j \in 1 .. Len(ring) : ring[i].to = ring[j].to => i = j
  BY DEF IsGraph, Ringed
<1>2. h = [vertices |-> g.vertices, ring |-> [g.ring EXCEPT ![from] = q]]
  BY <1>0 DEF Sweep
<1> HIDE DEF ring, K, h
<1>3. q \in Seq(Edges)
  BY <1>1, OnlyPicks
<1>4. PICK f : Picks(f, q, ring, Len(ring), K)
  BY <1>1, OnlyPicks
<1> HIDE DEF q
<1>5. ASSUME NEW i \in 1 .. Len(q), NEW j \in 1 .. Len(q), q[i].to = q[j].to PROVE i = j
  <2>1. f[i] \in 1 .. Len(ring) /\ f[j] \in 1 .. Len(ring) /\ ring[f[i]] = q[i] /\ ring[f[j]] = q[j]
    BY <1>4 DEF Picks
  <2>2. f[i] = f[j]
    BY <1>1, <1>5, <2>1
  <2>3. ~ (i < j) /\ ~ (j < i)
    BY <1>4, <2>1, <2>2 DEF Picks
  <2> QED
    BY <1>3, <2>3
<1>6. IsGraph(h)
  BY <1>2, <1>3, <1>5, WithRing
<1> QED
  BY <1>6 DEF h

\* An edge added again as it is, and a sweep that takes no link, leave the
\* rings as they are, in the same order.
LEMMA AddEdgeSame ==
  ASSUME NEW g, IsGraph(g), NEW from \in Nodes, NEW to \in Nodes, NEW weight,
         ~ EdgeChanges(g, from, to, weight)
  PROVE  AddEdge(g, from, to, weight).ring = g.ring
<1> DEFINE e == [to |-> to, weight |-> weight]
           ring == g.ring[from]
           f == FindEdge(g, from, to)
<1>0. PICK a, b : g = [vertices |-> a, ring |-> b]
  BY GraphFields DEF IsGraph
<1>1. ring \in Seq(Edges) /\ Len(ring) \in Nat /\ g.ring \in [Nodes -> Seq(Edges)]
  BY GraphFields DEF IsGraph, Ringed
<1>2. f # 0 /\ ring[f].weight = weight
  BY DEF EdgeChanges, HasEdge, EdgeWeight
<1>3. f \in 0 .. Len(ring)
  BY <1>1, FindEdgeIs
<1>4. f # 0 => ring[f].to = to
  BY <1>1, FindEdgeIs
<1>5. AddEdge(g, from, to, weight) = [g EXCEPT !.ring[from][f] = e]
  BY <1>2 DEF AddEdge, HasEdge
<1> HIDE DEF ring, f
<1>6. f \in 1 .. Len(ring) /\ ring[f] \in Edges
  BY <1>1, <1>2, <1>3
<1>7. ring[f] = e
  BY <1>2, <1>4, <1>6 DEF Edges
<1>8. [ring EXCEPT ![f] = e] = ring
  BY <1>1, <1>6, <1>7
<1>9. AddEdge(g, from, to, weight) = [vertices |-> a, ring |-> [b EXCEPT ![from] = [ring EXCEPT ![f] = e]]]
  BY <1>0, <1>5 DEF ring
<1>10. [b EXCEPT ![from] = ring] = b
  BY <1>0, <1>1 DEF ring
<1> QED
  BY <1>0, <1>8, <1>9, <1>10

LEMMA SweepSame ==
  ASSUME NEW g, IsGraph(g), NEW from \in Nodes, NEW kept,
         Links(Sweep(g, from, kept)) = Links(g)
  PROVE  Sweep(g, from, kept).ring = g.ring
<1> DEFINE ring == g.ring[from]
           K == {e \in ToSet(ring) : e.to \in kept}
           q == Only(ring, K)
           h == Sweep(g, from, kept)
<1>0. PICK a, b : g = [vertices |-> a, ring |-> b]
  BY GraphFields DEF IsGraph
<1>1. ring \in Seq(Edges) /\ Len(ring) \in Nat /\ b \in [Nodes -> Seq(Edges)]
  BY <1>0, GraphFields DEF IsGraph, Ringed
<1>2. h = [vertices |-> a, ring |-> [b EXCEPT ![from] = q]]
  BY <1>0 DEF Sweep
<1>3. h.ring[from] = q
  BY <1>1, <1>2
<1>4. Ringed(h) /\ Ringed(g)
  BY SweepKeeps DEF IsGraph
<1>5. ASSUME NEW i \in 1 .. Len(ring) PROVE ring[i] \in K
  <2>1. ring[i].to \in Nodes /\ HasEdge(g, from, ring[i].to)
    BY <1>4, EdgeIs
  <2>2. <<from, ring[i].to>> \in Links(h)
    BY <2>1 DEF Links
  <2>3. HasEdge(h, from, ring[i].to)
    BY <2>2 DEF Links
  <2>4. PICK j \in 1 .. Len(q) : q[j].to = ring[i].to
    <3> DEFINE w == ring[i].to
    <3> HIDE DEF w, h, q
    <3>1. HasEdge(h, from, w)
      BY <2>3 DEF w
    <3>2. \E j \in 1 .. Len(h.ring[from]) : /\ h.ring[from][j].to = w
                                            /\ w \in Nodes
                                            /\ EdgeWeight(h, from, w) = h.ring[from][j].weight
                                            /\ EdgeWeight(h, from, w) \in 1 .. MaxWeight
      BY <1>4, <3>1, EdgeTyped
    <3> QED
      BY <1>3, <3>2 DEF w
  <2>5. q[j] \in K
    <3> HIDE DEF ring, K
    <3> QED
      BY <1>1, OnlySet
  <2>6. ring[i] \in ToSet(ring)
    BY DEF ToSet
  <2> QED
    BY <2>4, <2>5, <2>6
<1>6. q = ring
  <2> HIDE DEF ring, K
  <2> QED
    BY <1>1, <1>5, OnlyAll
<1>7. [b EXCEPT ![from] = ring] = b
  BY <1>0, <1>1
<1> HIDE DEF q, h
<1>8. h.ring = b
  BY <1>2, <1>6, <1>7
<1> QED
  BY <1>0, <1>8 DEF h

\* Routes by links and routes by entries, of a graph g, a set T of targets and
\* entries E.
Linked(g, p) == \A i \in DOMAIN p : i # 0 => HasEdge(g, p[i], p[i - 1])

Follows(E, p) ==
  \A i \in DOMAIN p : i # 0 => E[p[i]].act = "forward" /\ E[p[i]].next = p[i - 1]

Way(g, T, v) == \E p \in Paths : Source(p) = v /\ p[0] \in T /\ Linked(g, p)

Leads(g, T, E, v) ==
  \E p \in Paths : Source(p) = v /\ p[0] \in T /\ Follows(E, p) /\ Linked(g, p)

\* The labels of g are never heavier than a road.
ExactFor(g) ==
  \A v \in Nodes : \A p \in Paths :
    Source(p) = v /\ Linked(g, p) => Labels(g, v).weight[p[0]] <= Weighs(g, p)

\* No target forwards while there is a way on to another one.
Sunk(g, T, E) == \A v \in Nodes : v \in T /\ Way(g, T, v) => E[v].act # "forward"

\* A route by entries, at most half as heavy again as w.
LeadsIn(g, T, E, v, w) ==
  \E p \in Paths : /\ Source(p) = v /\ p[0] \in T /\ Follows(E, p) /\ Linked(g, p)
                   /\ 2 * Weighs(g, p) <= 3 * w

Near(g, T, E, v) ==
  \A q \in Paths : v \notin T /\ Source(q) = v /\ q[0] \in T /\ Linked(g, q)
                     => LeadsIn(g, T, E, v, Weighs(g, q))

\* What the entry of v is to be like.
Fine(k, g, T, E, v) ==
  /\ v \notin T /\ Way(g, T, v) => Leads(g, T, E, v)
  /\ k # "controller" /\ E[v].act = "forward" => Way(g, T, v)
  /\ ExactFor(g) /\ Sunk(g, T, E) => Near(g, T, E, v)

LEMMA RoadSource ==
  ASSUME NEW n \in Nat \ {0}, NEW p, Road(n, p), IsFiniteSet(Nodes)
  PROVE  Source(p) = p[n]
BY RoadIsPath DEF Source

\* The last part of a route is a route.
LEMMA RestOfRoad ==
  ASSUME NEW n \in Nat \ {0}, NEW p, Road(n, p), NEW i \in 1 .. n, IsFiniteSet(Nodes),
         NEW q, q = [j \in 0 .. i |-> p[j]]
  PROVE  /\ q \in Paths /\ Source(q) = p[i] /\ q[0] = p[0]
         /\ \A g : Linked(g, p) => Linked(g, q)
         /\ \A E : Follows(E, p) => Follows(E, q)
<1>1. Road(i, q) /\ i \in Nat \ {0} /\ 0 .. i \subseteq 0 .. n
  BY DEF Road
<1>2. q \in Paths /\ Source(q) = q[i] /\ DOMAIN q = 0 .. i /\ DOMAIN p = 0 .. n
  <2>1. q \in Paths /\ DOMAIN q = 0 .. i
    BY <1>1, RoadIsPath
  <2>2. Source(q) = q[i]
    BY <1>1, RoadSource
  <2> QED
    BY <2>1, <2>2 DEF Road
<1>3. q[i] = p[i] /\ q[0] = p[0] /\ \A j \in 0 .. i : j # 0 => q[j] = p[j] /\ q[j - 1] = p[j - 1]
  OBVIOUS
<1>4. \A g : Linked(g, p) => Linked(g, q)
  BY <1>1, <1>2, <1>3 DEF Linked
<1>5. \A E : Follows(E, p) => Follows(E, q)
  BY <1>1, <1>2, <1>3 DEF Follows
<1> QED
  BY <1>2, <1>3, <1>4, <1>5

\* From every vertex of a route but the target there is a way.
LEMMA WayAlong ==
  ASSUME NEW g, NEW T, NEW n \in Nat \ {0}, NEW p, Road(n, p), p[0] \in T, Linked(g, p),
         NEW i \in 1 .. n, IsFiniteSet(Nodes)
  PROVE  /\ Way(g, T, p[i])
         /\ \A E : Follows(E, p) => Leads(g, T, E, p[i])
<1> DEFINE q == [j \in 0 .. i |-> p[j]]
<1>1. q \in Paths /\ Source(q) = p[i] /\ q[0] = p[0]
  BY RestOfRoad
<1>2. Linked(g, q)
  BY RestOfRoad
<1>3. \A E : Follows(E, p) => Follows(E, q)
  BY RestOfRoad
<1> HIDE DEF q
<1> QED
  BY <1>1, <1>2, <1>3 DEF Way, Leads

\* The running sums of what a road weighs.
Sums(g, n, p, h) ==
  /\ h \in [0 .. n -> Nat] /\ h[0] = 0
  /\ \A k \in 1 .. n : h[k] = h[k - 1] + EdgeWeight(g, p[k], p[k - 1])

LEMMA SumsAre ==
  ASSUME NEW g, NEW n \in Nat \ {0}, NEW p, Hops(p) = n, NEW h, Sums(g, n, p, h)
  PROVE  Weighs(g, p) = h[n]
<1> DEFINE f == [i \in 1 .. n |-> EdgeWeight(g, p[i], p[i - 1])]
<1>1. \A k \in 0 .. n : h[k] = IF k = 0 THEN 0 ELSE h[k - 1] + f[k]
  <2>1. \A k \in 0 .. n : k # 0 => k \in 1 .. n
    OBVIOUS
  <2>2. \A k \in 1 .. n : h[k] = h[k - 1] + f[k] /\ k # 0
    BY DEF Sums
  <2>3. h[0] = 0
    BY DEF Sums
  <2> HIDE DEF f
  <2> QED
    BY <2>1, <2>2, <2>3
<1>2. h = [k \in 0 .. n |-> h[k]]
  BY DEF Sums
<1> HIDE DEF f
<1>3. h = [k \in 0 .. n |-> IF k = 0 THEN 0 ELSE h[k - 1] + f[k]]
  BY <1>1, <1>2
<1>4. SumUpto(f, n) = h[n]
  BY <1>3, SumUptoIs
<1> QED
  BY <1>4 DEF Weighs, f

LEMMA SumsOf ==
  ASSUME NEW g, Ringed(g), NEW n \in Nat \ {0}, NEW p, Road(n, p), Linked(g, p), IsFiniteSet(Nodes)
  PROVE  \E h : Sums(g, n, p, h) /\ Weighs(g, p) = h[n] /\ Weighs(g, p) \in Nat
<1> DEFINE f == [i \in 1 .. n |-> EdgeWeight(g, p[i], p[i - 1])]
<1>1. \A i \in 1 .. n : p[i] \in Nodes /\ i \in DOMAIN p /\ i # 0
  BY DEF Road
<1>2. \A i \in 1 .. n : EdgeWeight(g, p[i], p[i - 1]) \in Nat
  <2>1. \A i \in 1 .. n : EdgeWeight(g, p[i], p[i - 1]) \in 1 .. MaxWeight
    BY <1>1, EdgeTyped DEF Linked
  <2> QED
    BY <2>1, MaxWeightAssumption
<1>3. f \in [1 .. n -> Nat] /\ \A i \in 1 .. n : f[i] = EdgeWeight(g, p[i], p[i - 1])
  BY <1>2
<1> HIDE DEF f
<1>4. PICK h \in [0 .. n -> Nat] : h[0] = 0 /\ \A k \in 1 .. n : h[k] = h[k - 1] + f[k]
  BY <1>3, SumsExist
<1>5. Sums(g, n, p, h)
  BY <1>3, <1>4 DEF Sums
<1>6. Weighs(g, p) = h[n]
  BY <1>5, SumsAre, RoadIsPath
<1> QED
  BY <1>4, <1>5, <1>6

LEMMA SumsGrow ==
  ASSUME NEW g, NEW n \in Nat \ {0}, NEW p, NEW h, Sums(g, n, p, h), Ringed(g),
         Road(n, p), Linked(g, p), NEW i \in 0 .. n
  PROVE  \A k \in i .. n : h[i] <= h[k]
<1> DEFINE P == {d \in 0 .. n - i : h[i] <= h[i + d]}
<1>1. 0 \in P
  BY DEF Sums
<1>2. ASSUME NEW d \in 0 .. (n - i) - 1, d \in P PROVE d + 1 \in P
  <2>1. i + d \in 0 .. n /\ i + (d + 1) \in 1 .. n /\ (i + (d + 1)) - 1 = i + d /\ d + 1 \in 0 .. n - i
    OBVIOUS
  <2>2. h[i + (d + 1)] = h[i + d] + EdgeWeight(g, p[i + (d + 1)], p[i + d])
    BY <2>1 DEF Sums
  <2>3. EdgeWeight(g, p[i + (d + 1)], p[i + d]) \in Nat
    <3>1. p[i + (d + 1)] \in Nodes /\ HasEdge(g, p[i + (d + 1)], p[(i + (d + 1)) - 1])
      BY <2>1 DEF Road, Linked
    <3>2. EdgeWeight(g, p[i + (d + 1)], p[i + d]) \in 1 .. MaxWeight
      BY <2>1, <3>1, EdgeTyped
    <3> QED
      BY <3>2, MaxWeightAssumption
  <2>4. h[i] \in Nat /\ h[i + d] \in Nat /\ h[i] <= h[i + d]
    BY <1>2, <2>1 DEF Sums
  <2> QED
    BY <2>1, <2>2, <2>3, <2>4
<1>3. \A d \in 0 .. n - i : d \in P
  <2>1. n - i \in Nat
    OBVIOUS
  <2> HIDE DEF P
  <2> QED
    BY <1>1, <1>2, <2>1, Induct
<1>4. ASSUME NEW k \in i .. n PROVE h[i] <= h[k]
  <2>1. k - i \in 0 .. n - i /\ i + (k - i) = k
    OBVIOUS
  <2>2. h[i] <= h[i + (k - i)]
    BY <1>3, <2>1
  <2> QED
    BY <2>1, <2>2
<1> QED
  BY <1>4

LEMMA RestWeighs ==
  ASSUME NEW g, NEW n \in Nat \ {0}, NEW p, Road(n, p), NEW i \in 1 .. n, IsFiniteSet(Nodes),
         NEW h, Sums(g, n, p, h), NEW q, q = [j \in 0 .. i |-> p[j]]
  PROVE  Weighs(g, q) = h[i]
<1> DEFINE s == [j \in 0 .. i |-> h[j]]
<1>1. i \in Nat \ {0} /\ 0 .. i \subseteq 0 .. n /\ 1 .. i \subseteq 1 .. n /\ i \in 0 .. i
  OBVIOUS
<1>2. Road(i, q)
  BY <1>1 DEF Road
<1>3. s \in [0 .. i -> Nat] /\ s[0] = 0 /\ s[i] = h[i]
  BY <1>1 DEF Sums
<1>4. ASSUME NEW k \in 1 .. i PROVE s[k] = s[k - 1] + EdgeWeight(g, q[k], q[k - 1])
  <2>1. k \in 0 .. i /\ k - 1 \in 0 .. i /\ k \in 1 .. n
    BY <1>1
  <2>2. s[k] = h[k] /\ s[k - 1] = h[k - 1] /\ q[k] = p[k] /\ q[k - 1] = p[k - 1]
    BY <2>1
  <2>3. h[k] = h[k - 1] + EdgeWeight(g, p[k], p[k - 1])
    BY <2>1 DEF Sums
  <2> QED
    BY <2>2, <2>3
<1> HIDE DEF s
<1>5. Sums(g, i, q, s)
  BY <1>3, <1>4 DEF Sums
<1> QED
  BY <1>1, <1>2, <1>3, <1>5, SumsAre, RoadIsPath

\* A road q of m hops, followed from its source on, meets the road p last
\* where q[k] is p[i].
MeetsAt(n, p, m, q, k, i) ==
  q[k] = p[i] /\ \A j \in k + 1 .. m : \A l \in 0 .. n : q[j] # p[l]

LEMMA MeetLast ==
  ASSUME NEW n \in Nat, NEW p, NEW m \in Nat, NEW q,
         NEW a \in 0 .. m, NEW b \in 0 .. n, q[a] = p[b]
  PROVE  \E k \in a .. m, i \in 0 .. n : MeetsAt(n, p, m, q, k, i)
<1> DEFINE Meets == {j \in 0 .. m : \E l \in 0 .. n : q[m - j] = p[l]}
<1>1. m - a \in Meets
  <2>1. m - a \in 0 .. m /\ m - (m - a) = a
    OBVIOUS
  <2> QED
    BY <2>1
<1>2. PICK c \in Meets : \A j \in Meets : c <= j
  <2>1. Meets \subseteq Nat
    OBVIOUS
  <2> HIDE DEF Meets
  <2> QED
    BY <1>1, <2>1, HasLeast
<1>3. PICK i \in 0 .. n : q[m - c] = p[i]
  OBVIOUS
<1>4. c \in 0 .. m /\ c <= m - a /\ m - c \in a .. m
  BY <1>1, <1>2
<1>5. ASSUME NEW j \in (m - c) + 1 .. m PROVE \A l \in 0 .. n : q[j] # p[l]
  <2>1. m - j \in 0 .. m /\ m - (m - j) = j /\ ~ (c <= m - j)
    BY <1>4
  <2> QED
    BY <1>2, <2>1
<1> QED
  BY <1>3, <1>4, <1>5 DEF MeetsAt

\* What the entries E say of the nodes from p[a] to p[b].
Steers(E, p, a, b) ==
  \A j \in a .. b : E[p[j]].act = "forward" /\ E[p[j]].next = p[j - 1]

\* The route r is q, followed up to where it last meets p, and then p.
Joins(g, n, p, m, q, k, i, r) ==
  /\ Source(r) = q[m] /\ r[0] = p[0] /\ Linked(g, r)
  /\ \A E : Steers(E, p, 1, i) /\ Steers(E, q, k + 1, m) => Follows(E, r)
  /\ \A hp, hq : Sums(g, n, p, hp) /\ Sums(g, m, q, hq)
                   => Weighs(g, r) = hp[i] + (hq[m] - hq[k])

LEMMA Joint ==
  ASSUME NEW g, Ringed(g), IsFiniteSet(Nodes),
         NEW n \in Nat \ {0}, NEW p, Road(n, p), Linked(g, p),
         NEW m \in Nat \ {0}, NEW q, Road(m, q), Linked(g, q),
         NEW k \in 0 .. m - 1, NEW i \in 0 .. n, MeetsAt(n, p, m, q, k, i)
  PROVE  \E r \in Paths : Joins(g, n, p, m, q, k, i, r)
<1> DEFINE o == i + (m - k)
           r == [j \in 0 .. o |-> IF j <= i THEN p[j] ELSE q[j - i + k]]
<1>0. k \in Nat /\ i \in Nat /\ k < m /\ i <= n
  OBVIOUS
<1>a. q[k] = p[i] /\ \A j \in k + 1 .. m : \A l \in 0 .. n : q[j] # p[l]
  BY DEF MeetsAt
<1>1. o \in Nat \ {0}
  BY <1>0
<1>2. /\ p \in [0 .. n -> Nodes] /\ \A a, b \in 0 .. n : p[a] = p[b] => a = b
      /\ q \in [0 .. m -> Nodes] /\ \A a, b \in 0 .. m : q[a] = q[b] => a = b
  BY DEF Road
<1>3. ASSUME NEW j \in 0 .. o
      PROVE  \/ j \in 0 .. i /\ j \in 0 .. n /\ r[j] = p[j]
             \/ /\ j \notin 0 .. i /\ j > i
                /\ j - i + k \in k + 1 .. m /\ j - i + k \in 0 .. m
                /\ r[j] = q[j - i + k]
  <2>1. CASE j <= i
    BY <1>0, <2>1
  <2>2. CASE ~ (j <= i)
    BY <1>0, <2>2
  <2> QED
    BY <2>1, <2>2
<1> HIDE DEF r
<1>4. \A j \in 0 .. o : r[j] \in Nodes
  BY <1>2, <1>3
<1>5. r \in [0 .. o -> Nodes]
  BY <1>4 DEF r
<1>6. ASSUME NEW a \in 0 .. o, NEW b \in 0 .. o, r[a] = r[b] PROVE a = b
  <2>1. CASE a \in 0 .. i /\ b \in 0 .. i
    <3>1. r[a] = p[a] /\ r[b] = p[b] /\ a \in 0 .. n /\ b \in 0 .. n
      BY <1>3, <2>1
    <3> QED
      BY <1>2, <1>6, <3>1
  <2>2. CASE a \notin 0 .. i /\ b \notin 0 .. i
    <3>1. /\ r[a] = q[a - i + k] /\ r[b] = q[b - i + k]
          /\ a - i + k \in 0 .. m /\ b - i + k \in 0 .. m
      BY <1>3, <2>2
    <3>2. a - i + k = b - i + k
      BY <1>2, <1>6, <3>1
    <3> QED
      BY <3>2, <1>0
  <2>3. CASE a \in 0 .. i /\ b \notin 0 .. i
    BY <1>3, <1>6, <1>a, <2>3
  <2>4. CASE a \notin 0 .. i /\ b \in 0 .. i
    BY <1>3, <1>6, <1>a, <2>4
  <2> QED
    BY <2>1, <2>2, <2>3, <2>4
<1>7. Road(o, r)
  BY <1>5, <1>6 DEF Road
<1>8. DOMAIN p = 0 .. n /\ DOMAIN q = 0 .. m
  BY <1>2
<1>9. ASSUME NEW j \in 1 .. o
      PROVE  \/ /\ j \in 1 .. i /\ j - 1 \in 0 .. i /\ j \in DOMAIN p /\ j # 0
                /\ r[j] = p[j] /\ r[j - 1] = p[j - 1]
             \/ /\ j > i /\ j - i + k \in k + 1 .. m /\ j - i + k \in DOMAIN q /\ j - i + k # 0
                /\ r[j] = q[j - i + k] /\ r[j - 1] = q[(j - i + k) - 1]
  <2>0. j \in 0 .. o /\ j - 1 \in 0 .. o /\ j # 0 /\ j \in Nat
    BY <1>1
  <2>1. CASE j \in 0 .. i
    <3>1. j \in 1 .. i /\ j \in 0 .. n /\ j - 1 \in 0 .. i /\ j # 0
      BY <1>0, <2>0, <2>1
    <3>2. r[j] = p[j] /\ r[j - 1] = p[j - 1]
      BY <1>3, <2>0, <3>1
    <3> QED
      BY <1>8, <3>1, <3>2
  <2>2. CASE j \notin 0 .. i
    <3> DEFINE a == j - i + k
    <3>1. a \in k + 1 .. m /\ r[j] = q[a] /\ a \in 0 .. m /\ j > i
      BY <1>3, <2>0, <2>2
    <3>2. a # 0 /\ a \in Nat
      BY <1>0, <3>1
    <3>3. r[j - 1] = q[a - 1]
      <4>1. CASE j = i + 1
        <5>1. a - 1 = k /\ j - 1 = i /\ i \in 0 .. i
          BY <1>0, <4>1
        <5>2. r[i] = p[i]
          BY <1>3, <2>0, <5>1
        <5> QED
          BY <1>a, <5>1, <5>2
      <4>2. CASE j # i + 1
        <5>0. j - 1 > i
          BY <1>0, <2>0, <2>2, <4>2
        <5>1. j - 1 \notin 0 .. i
          BY <1>0, <5>0
        <5>2. (j - 1) - i + k = a - 1
          BY <1>0, <2>0
        <5> QED
          BY <1>3, <2>0, <5>1, <5>2
      <4> QED
        BY <4>1, <4>2
    <3> QED
      BY <1>8, <3>1, <3>2, <3>3
  <2> QED
    BY <2>1, <2>2
<1>10. r[0] = p[0] /\ r[o] = q[m]
  <2>1. 0 \in 0 .. o /\ 0 \in 0 .. i /\ o \in 0 .. o /\ o \notin 0 .. i /\ o - i + k = m
    BY <1>0, <1>1
  <2>2. r[0] = p[0]
    BY <1>3, <2>1
  <2>3. r[o] = q[o - i + k]
    BY <1>3, <2>1
  <2> QED
    BY <2>1, <2>2, <2>3
<1>11. r \in Paths /\ Source(r) = r[o] /\ DOMAIN r = 0 .. o /\ Hops(r) = o
  <2> HIDE DEF o
  <2> QED
    BY <1>1, <1>7, RoadIsPath, RoadSource
<1>12. \A j \in DOMAIN r : j # 0 => j \in 1 .. o
  BY <1>1, <1>11
<1>13. Linked(g, r)
  <2>1. ASSUME NEW j \in 1 .. o PROVE HasEdge(g, r[j], r[j - 1])
    BY <1>9 DEF Linked
  <2> QED
    BY <1>12, <2>1 DEF Linked
<1>14. ASSUME NEW E, Steers(E, p, 1, i), Steers(E, q, k + 1, m) PROVE Follows(E, r)
  <2>1. ASSUME NEW j \in 1 .. o PROVE E[r[j]].act = "forward" /\ E[r[j]].next = r[j - 1]
    BY <1>9, <1>14 DEF Steers
  <2> QED
    BY <1>12, <2>1 DEF Follows
<1>15. ASSUME NEW hp, NEW hq, Sums(g, n, p, hp), Sums(g, m, q, hq)
       PROVE  Weighs(g, r) = hp[i] + (hq[m] - hq[k])
  <2> DEFINE s == [j \in 0 .. o |-> IF j <= i THEN hp[j] ELSE hp[i] + (hq[j - i + k] - hq[k])]
  <2>0. /\ hp \in [0 .. n -> Nat] /\ hp[0] = 0 /\ hq \in [0 .. m -> Nat]
        /\ \A j \in 1 .. n : hp[j] = hp[j - 1] + EdgeWeight(g, p[j], p[j - 1])
        /\ \A j \in 1 .. m : hq[j] = hq[j - 1] + EdgeWeight(g, q[j], q[j - 1])
    BY <1>15 DEF Sums
  <2>1. \A j \in k .. m : hq[k] <= hq[j] /\ hq[j] \in Nat /\ hq[k] \in Nat
    <3>1. k \in 0 .. m /\ k .. m \subseteq 0 .. m
      BY <1>0
    <3>2. \A j \in k .. m : hq[k] <= hq[j]
      BY <1>15, <3>1, SumsGrow
    <3> QED
      BY <2>0, <3>1, <3>2
  <2>2. hp[i] \in Nat
    BY <2>0
  <2>3. \A j \in 0 .. i : j \in 0 .. o /\ s[j] = hp[j] /\ s[j] \in Nat
    BY <1>0, <2>0
  <2>4. \A j \in 0 .. o : j > i => /\ j - i + k \in k .. m
                                   /\ s[j] = hp[i] + (hq[j - i + k] - hq[k])
    BY <1>0
  <2>5. \A j \in 0 .. o : s[j] \in Nat
    <3>1. ASSUME NEW j \in 0 .. o PROVE s[j] \in Nat
      <4>1. CASE j \in 0 .. i
        BY <2>3, <4>1
      <4>2. CASE j \notin 0 .. i
        <5>1. j > i
          BY <1>0, <4>2
        <5>2. j - i + k \in k .. m /\ s[j] = hp[i] + (hq[j - i + k] - hq[k])
          BY <2>4, <5>1
        <5> HIDE DEF s
        <5> QED
          BY <2>1, <2>2, <5>2
      <4> QED
        BY <4>1, <4>2
    <3> QED
      BY <3>1
  <2>6. s \in [0 .. o -> Nat]
    BY <2>5
  <2>7. s[0] = 0
    BY <1>0, <2>0, <2>3
  <2>8. s[i] = hp[i]
    BY <1>0, <2>3
  <2> HIDE DEF s
  <2>9. ASSUME NEW j \in 1 .. o PROVE s[j] = s[j - 1] + EdgeWeight(g, r[j], r[j - 1])
    <3>1. CASE /\ j \in 1 .. i /\ j - 1 \in 0 .. i
               /\ r[j] = p[j] /\ r[j - 1] = p[j - 1]
      <4>1. j \in 1 .. n /\ j \in 0 .. i
        BY <1>0, <3>1
      <4>2. hp[j] = hp[j - 1] + EdgeWeight(g, p[j], p[j - 1])
        BY <2>0, <4>1
      <4> QED
        BY <2>3, <3>1, <4>1, <4>2
    <3>2. CASE /\ j > i /\ j - i + k \in k + 1 .. m
               /\ r[j] = q[j - i + k] /\ r[j - 1] = q[(j - i + k) - 1]
      <4> DEFINE a == j - i + k
      <4>1. a \in 1 .. m /\ a - 1 \in k .. m /\ a \in k .. m /\ j \in 0 .. o /\ j - 1 \in 0 .. o
            /\ (j - 1) - i + k = a - 1
        BY <1>0, <3>2
      <4>2. hq[a] = hq[a - 1] + EdgeWeight(g, q[a], q[a - 1])
        BY <2>0, <4>1
      <4>3. s[j] = hp[i] + (hq[a] - hq[k])
        BY <2>4, <3>2, <4>1
      <4>4. s[j - 1] = hp[i] + (hq[a - 1] - hq[k])
        <5>1. CASE j - 1 > i
          <6>1. s[j - 1] = hp[i] + (hq[(j - 1) - i + k] - hq[k])
            BY <2>4, <4>1, <5>1
          <6> QED
            BY <4>1, <6>1
        <5>2. CASE ~ (j - 1 > i)
          <6>1. j - 1 = i /\ a - 1 = k
            BY <1>0, <3>2, <5>2
          <6> HIDE DEF a
          <6> QED
            BY <2>1, <2>2, <2>8, <4>1, <6>1
        <5> QED
          BY <5>1, <5>2
      <4>5. EdgeWeight(g, r[j], r[j - 1]) = EdgeWeight(g, q[a], q[a - 1])
        BY <3>2
      <4>6. hq[a] \in Nat /\ hq[a - 1] \in Nat /\ hq[k] \in Nat
        BY <2>1, <4>1
      <4>7. EdgeWeight(g, q[a], q[a - 1]) \in Int
        <5>1. HasEdge(g, q[a], q[a - 1]) /\ q[a] \in Nodes
          BY <1>2, <1>8, <4>1 DEF Linked
        <5>2. EdgeWeight(g, q[a], q[a - 1]) \in 1 .. MaxWeight
          BY <5>1, EdgeTyped
        <5> QED
          BY <5>2, MaxWeightAssumption
      <4> HIDE DEF a
      <4> QED
        BY <2>2, <4>2, <4>3, <4>4, <4>5, <4>6, <4>7
    <3> QED
      BY <1>9, <3>1, <3>2
  <2>10. Sums(g, o, r, s)
    BY <2>6, <2>7, <2>9 DEF Sums
  <2>11. Weighs(g, r) = s[o]
    <3> HIDE DEF o
    <3> QED
      BY <1>1, <1>11, <2>10, SumsAre
  <2>12. s[o] = hp[i] + (hq[m] - hq[k])
    <3>1. o \in 0 .. o /\ o > i /\ o - i + k = m
      BY <1>0, <1>1
    <3>2. s[o] = hp[i] + (hq[o - i + k] - hq[k])
      BY <2>4, <3>1
    <3> QED
      BY <3>1, <3>2
  <2> QED
    BY <2>11, <2>12
<1> QED
  BY <1>10, <1>11, <1>13, <1>14, <1>15 DEF Joins

\* What is left of a best route is a best route.
LEMMA PartIsBest ==
  ASSUME NEW g, Ringed(g), IsFiniteSet(Nodes), NEW T,
         NEW n \in Nat \ {0}, NEW p, Road(n, p), Linked(g, p), p[n] \notin T,
         NEW h, Sums(g, n, p, h),
         \A q \in Paths : Source(q) = p[n] /\ q[0] \in T /\ Linked(g, q) => h[n] <= Weighs(g, q),
         NEW i \in 1 .. n,
         NEW q \in Paths, Source(q) = p[i], q[0] \in T, Linked(g, q)
  PROVE  h[i] <= Weighs(g, q)
<1>1. PICK m \in Nat \ {0} : Road(m, q) /\ Hops(q) = m /\ DOMAIN q = 0 .. m
  BY PathIsRoad
<1>2. q[m] = p[i] /\ m \in 0 .. m /\ i \in 0 .. n
  BY <1>1 DEF Source
<1>a. PICK k \in i .. n, j \in 0 .. m : MeetsAt(m, q, n, p, k, j)
  BY <1>2, MeetLast
<1>3. p[k] = q[j] /\ k \in i .. n /\ j \in 0 .. m
  BY <1>a DEF MeetsAt
<1>4. PICK hq : Sums(g, m, q, hq) /\ Weighs(g, q) = hq[m] /\ Weighs(g, q) \in Nat
  BY <1>1, SumsOf
<1>5. h[i] <= h[k] /\ h[i] \in Nat /\ h[k] \in Nat /\ h[n] \in Nat
  <2>1. h[i] <= h[k]
    BY <1>2, <1>3, SumsGrow
  <2>2. h \in [0 .. n -> Nat] /\ k \in 0 .. n /\ n \in 0 .. n
    BY <1>2, <1>3 DEF Sums
  <2> QED
    BY <1>2, <2>1, <2>2
<1>6. hq[j] <= hq[m] /\ hq[j] \in Nat /\ hq[m] \in Nat
  <2>1. m \in j .. m
    BY <1>3
  <2>2. hq[j] <= hq[m]
    BY <1>1, <1>3, <1>4, <2>1, SumsGrow
  <2> QED
    BY <1>2, <1>3, <1>4, <2>2 DEF Sums
<1>7. h[k] <= hq[j]
  <2>1. CASE k = n
    <3> DEFINE r == [l \in 0 .. j |-> q[l]]
    <3>1. j \in 1 .. m
      <4>1. q[j] # q[0]
        BY <1>3, <2>1
      <4> QED
        BY <1>3, <4>1
    <3>2. r \in Paths /\ Source(r) = q[j] /\ r[0] = q[0]
      BY <1>1, <3>1, RestOfRoad
    <3>3. Linked(g, r)
      BY <1>1, <3>1, RestOfRoad
    <3>4. Weighs(g, r) = hq[j]
      BY <1>1, <1>4, <3>1, RestWeighs
    <3> HIDE DEF r
    <3>5. h[n] <= Weighs(g, r)
      BY <1>3, <2>1, <3>2, <3>3
    <3> QED
      BY <2>1, <3>4, <3>5
  <2>2. CASE k # n
    <3>1. k \in 0 .. n - 1 /\ q[j] = p[k]
      BY <1>2, <1>3, <2>2
    <3>2. PICK r \in Paths : Joins(g, m, q, n, p, k, j, r)
      BY <1>1, <1>a, <3>1, Joint
    <3>3. Weighs(g, r) = hq[j] + (h[n] - h[k])
      BY <1>4, <3>2 DEF Joins
    <3>4. h[n] <= Weighs(g, r)
      BY <3>2 DEF Joins
    <3> QED
      BY <1>5, <1>6, <3>3, <3>4
  <2> QED
    BY <2>1, <2>2
<1> QED
  BY <1>4, <1>5, <1>6, <1>7

Fields(e) ==
  e = [act |-> e.act, next |-> e.next, weight |-> e.weight,
       hops |-> e.hops, changed |-> e.changed]

Shaped ==
  /\ entry = [v \in Nodes |-> entry[v]]
  /\ \A v \in Nodes : Fields(entry[v])

IInv ==
  /\ targets \in Seq(Nodes)
  /\ Shaped
  /\ LoopFree

\* The two fields that are changed on their own leave the others alone.
LEMMA WeightOnly ==
  ASSUME NEW e, Fields(e), NEW w
  PROVE  [e EXCEPT !.weight = w] =
           [act |-> e.act, next |-> e.next, weight |-> w,
            hops |-> e.hops, changed |-> e.changed]
<1>1. PICK a, n, x, h, c :
        e = [act |-> a, next |-> n, weight |-> x, hops |-> h, changed |-> c]
  BY DEF Fields
<1>2. [[act |-> a, next |-> n, weight |-> x, hops |-> h, changed |-> c]
         EXCEPT !.weight = w]
       = [act |-> a, next |-> n, weight |-> w, hops |-> h, changed |-> c]
  OBVIOUS
<1> QED
  BY <1>1, <1>2

LEMMA ChangedOnly ==
  ASSUME NEW e, Fields(e), NEW d
  PROVE  [e EXCEPT !.changed = d] =
           [act |-> e.act, next |-> e.next, weight |-> e.weight,
            hops |-> e.hops, changed |-> d]
<1>1. PICK a, n, x, h, c :
        e = [act |-> a, next |-> n, weight |-> x, hops |-> h, changed |-> c]
  BY DEF Fields
<1>2. [[act |-> a, next |-> n, weight |-> x, hops |-> h, changed |-> c]
         EXCEPT !.changed = d]
       = [act |-> a, next |-> n, weight |-> x, hops |-> h, changed |-> d]
  OBVIOUS
<1> QED
  BY <1>1, <1>2

\* A step after which every node forwards as before or not at all, and
\* every target is still one, keeps the entries free of loops.
LEMMA SameOrLess ==
  ASSUME LoopFree,
         \A v \in Nodes : Target(v) => Target(v)',
         \A v \in Nodes : \/ entry'[v].act # "forward"
                          \/ entry'[v].act = entry[v].act /\ entry'[v].next = entry[v].next
  PROVE  LoopFree'
<1> SUFFICES ASSUME NEW S \in SUBSET Nodes, S # {}
             PROVE  \E v \in S : \/ Target(v)'
                                 \/ entry'[v].act # "forward"
                                 \/ entry'[v].next \notin S
  BY DEF LoopFree
<1>1. PICK v \in S : Target(v) \/ entry[v].act # "forward" \/ entry[v].next \notin S
  BY DEF LoopFree
<1> QED
  BY <1>1

\* What Written makes of the entry of the i-th vertex of a route.
LEMMA WrittenOnRoute ==
  ASSUME NEW p \in Paths, NEW labels, NEW i \in DOMAIN p, i # 0
  PROVE  /\ Written(p, labels)[p[i]].act = "forward"
         /\ Written(p, labels)[p[i]].next = p[i - 1]
<1>1. PICK n \in 1 .. (Cardinality(Nodes) - 1) :
        p \in [0 .. n -> Nodes] /\ \A j, k \in 0 .. n : p[j] = p[k] => j = k
  BY DEF Paths
<1>2. p[i] \in Nodes /\ DOMAIN p = 0 .. n
  BY <1>1
<1> DEFINE k == CHOOSE k \in DOMAIN p : k # 0 /\ p[k] = p[i]
<1>3. k \in DOMAIN p /\ p[k] = p[i]
  OBVIOUS
<1>4. k = i
  BY <1>1, <1>2, <1>3
<1> QED
  BY <1>2, <1>4 DEF Written

\* Writing a route to a target keeps the entries free of loops.
LEMMA WritingKeepsLoopFree ==
  ASSUME LoopFree, NEW p \in Paths, NEW labels, Target(p[0]),
         entry' = Written(p, labels), targets' = targets
  PROVE  LoopFree'
<1> SUFFICES ASSUME NEW S \in SUBSET Nodes, S # {}
             PROVE  \E v \in S : \/ Target(v)
                                 \/ entry'[v].act # "forward"
                                 \/ entry'[v].next \notin S
  BY DEF LoopFree, Target
<1> DEFINE Meets == {i \in DOMAIN p : p[i] \in S}
<1>1. PICK n \in 1 .. (Cardinality(Nodes) - 1) : p \in [0 .. n -> Nodes]
  BY DEF Paths
<1>2. CASE Meets = {}
  <2>1. PICK v \in S : Target(v) \/ entry[v].act # "forward" \/ entry[v].next \notin S
    BY DEF LoopFree
  <2>2. entry'[v] = entry[v]
    BY <1>2 DEF Written
  <2> QED
    BY <2>1, <2>2
<1>3. CASE Meets # {}
  <2>1. Meets \subseteq Nat
    BY <1>1
  <2>2. PICK i \in Meets : \A j \in Meets : i <= j
    <3> HIDE DEF Meets
    <3> QED
      BY <1>3, <2>1, HasLeast
  <2>3. CASE i = 0
    BY <2>2, <2>3
  <2>4. CASE i # 0
    <3>1. i \in 1 .. n /\ i - 1 \in DOMAIN p /\ ~ (i <= i - 1)
      BY <1>1, <2>4
    <3>2. p[i - 1] \notin S
      BY <2>2, <3>1
    <3>3. entry'[p[i]].next = p[i - 1]
      BY <2>4, WrittenOnRoute
    <3> QED
      BY <3>2, <3>3
  <2> QED
    BY <2>3, <2>4
<1> QED
  BY <1>2, <1>3

\* One look for a route, whatever comes of it.
LEMMA RouteKeepsIInv ==
  ASSUME IInv, NEW v, Route(v), targets' = targets
  PROVE  IInv'
<1>1. CASE GiveUp(v)
  <2>1. CASE entry' = entry
    BY <2>1 DEF IInv, Shaped, LoopFree, Target
  <2>2. CASE entry' = [entry EXCEPT ![v] = IF @.act = "drop" THEN @ ELSE Dropped(v)]
    <3>1. \A u \in Nodes : entry'[u] = IF u = v /\ entry[v].act # "drop"
                                       THEN Dropped(v) ELSE entry[u]
      BY <2>2 DEF IInv, Shaped
    <3>2. Fields(Dropped(v)) /\ Dropped(v).act = "drop"
      BY DEF Fields, Dropped
    <3>3. Shaped'
      BY <2>2, <3>1, <3>2 DEF IInv, Shaped
    <3>4. LoopFree'
      BY <3>1, <3>2, SameOrLess DEF IInv, Target
    <3> QED
      BY <3>3, <3>4 DEF IInv
  <2> QED
    BY <1>1, <2>1, <2>2 DEF GiveUp
<1>2. ASSUME NEW labels, NEW i \in DOMAIN targets,
             NEW p \in RoutesTo(labels, targets[i]), Configure(v, p, labels)
      PROVE  IInv'
  <2>1. p \in Paths /\ Target(p[0])
    BY DEF RoutesTo, Target, ToSet
  <2>2. CASE entry' = entry
    BY <2>2 DEF IInv, Shaped, LoopFree, Target
  <2>3. ASSUME NEW w, entry' = [entry EXCEPT ![v].weight = w]
        PROVE  IInv'
    <3>1. \A u \in Nodes : /\ Fields(entry'[u])
                           /\ entry'[u].act = entry[u].act
                           /\ entry'[u].next = entry[u].next
      <4>1. \A u \in Nodes : entry'[u] = IF u = v THEN [entry[v] EXCEPT !.weight = w]
                                                  ELSE entry[u]
        BY <2>3 DEF IInv, Shaped
      <4>2. v \in Nodes =>
              [entry[v] EXCEPT !.weight = w] =
                [act |-> entry[v].act, next |-> entry[v].next, weight |-> w,
                 hops |-> entry[v].hops, changed |-> entry[v].changed]
        BY WeightOnly DEF IInv, Shaped
      <4> QED
        BY <4>1, <4>2 DEF IInv, Shaped, Fields
    <3>2. entry' = [u \in Nodes |-> entry'[u]]
      BY <2>3 DEF IInv, Shaped
    <3>3. LoopFree'
      BY <3>1, SameOrLess DEF IInv, Target
    <3> QED
      BY <3>1, <3>2, <3>3 DEF IInv, Shaped
  <2>4. CASE entry' = Written(p, labels)
    <3>1. Shaped'
      BY <2>4 DEF Written, IInv, Shaped, Fields
    <3>2. LoopFree'
      BY <2>1, <2>4, WritingKeepsLoopFree DEF IInv
    <3> QED
      BY <3>1, <3>2 DEF IInv
  <2> QED
    BY <1>2, <2>2, <2>3, <2>4 DEF Configure
<1> QED
  BY <1>1, <1>2 DEF Route

LEMMA InitIInv == Init => IInv
<1> SUFFICES ASSUME Init PROVE IInv
  OBVIOUS
<1>1. targets \in Seq(Nodes)
  BY RoutesAssumption DEF Init, InitialTargets
<1>2. Shaped
  BY DEF Init, Shaped, Fields, NoEntry
<1>3. LoopFree
  BY DEF Init, LoopFree, NoEntry
<1> QED
  BY <1>1, <1>2, <1>3 DEF IInv

LEMMA NextIInv == IInv /\ [Next]_vars => IInv'
<1> SUFFICES ASSUME IInv, [Next]_vars PROVE IInv'
  OBVIOUS
<1>1. ASSUME entry' = entry, targets' = targets PROVE IInv'
  BY <1>1 DEF IInv, Shaped, LoopFree, Target
<1>2. ASSUME NEW r \in Reports, Report(r) PROVE IInv'
  BY <1>1, <1>2 DEF Report
<1>3. CASE CheckEntry
  BY <1>1, <1>3, RouteKeepsIInv DEF CheckEntry
<1>4. CASE SendChanges
  <2>1. \A v \in Nodes : /\ Fields(entry'[v])
                         /\ entry'[v].act = entry[v].act
                         /\ entry'[v].next = entry[v].next
    <3>1. \A v \in Nodes : entry'[v] = [entry[v] EXCEPT !.changed = FALSE]
      BY <1>4 DEF SendChanges
    <3>2. \A v \in Nodes :
            [entry[v] EXCEPT !.changed = FALSE] =
              [act |-> entry[v].act, next |-> entry[v].next,
               weight |-> entry[v].weight, hops |-> entry[v].hops, changed |-> FALSE]
      BY ChangedOnly DEF IInv, Shaped
    <3> QED
      BY <3>1, <3>2 DEF IInv, Shaped, Fields
  <2>2. targets' = targets /\ entry' = [v \in Nodes |-> entry'[v]]
    BY <1>4 DEF SendChanges
  <2>3. LoopFree'
    BY <2>1, <2>2, SameOrLess DEF IInv, Target
  <2> QED
    BY <2>1, <2>2, <2>3 DEF IInv, Shaped
<1>5. ASSUME NEW v, Treat(v), targets' = targets PROVE IInv'
  BY <1>1, <1>5, RouteKeepsIInv DEF Treat
<1>6. ASSUME NEW n \in Requesters, Request(n) PROVE IInv'
  BY <1>5, <1>6 DEF Request
<1>7. CASE SelfRequest
  BY <1>5, <1>7 DEF SelfRequest
<1>8. ASSUME NEW n \in Registrants, Register(n) PROVE IInv'
  <2>1. targets' \in Seq(Nodes) /\ \A v \in Nodes : Target(v) => Target(v)'
    BY <1>8, RoutesAssumption DEF Register, IInv, Target, ToSet
  <2>2. entry' = entry
    BY <1>8 DEF Register
  <2>3. LoopFree'
    BY <2>1, <2>2, SameOrLess DEF IInv
  <2> QED
    BY <2>1, <2>2, <2>3 DEF IInv, Shaped
<1>9. CASE RegisterOther
  BY <1>1, <1>9 DEF RegisterOther
<1>10. ASSUME NEW n \in Requesters, RequestOther(n) PROVE IInv'
  BY <1>1, <1>10 DEF RequestOther
<1>11. CASE UNCHANGED vars
  BY <1>1, <1>11 DEF vars
<1> QED
  BY <1>2, <1>3, <1>4, <1>6, <1>7, <1>8, <1>9, <1>10, <1>11 DEF Next

\* The entries the controller caches for a flow, and so the setups it sends,
\* lead round in a circle nowhere but through a target of the flow.
THEOREM NoLoopPastTargets == Spec => []LoopFree
<1>1. IInv => LoopFree
  BY DEF IInv
<1> QED
  BY <1>1, InitIInv, NextIInv, PTL DEF Spec

-----------------------------------------------------------------------------
\* What a report makes of the graph and the requests, neighbor by neighbor.
Hearings ==
  {s \in [graph : Graphs, asks : Seq(Nodes), changed : BOOLEAN] : IsGraph(s.graph)}

LEMMA HearingIs ==
  ASSUME NEW a, IsGraph(a), NEW b \in Seq(Nodes), NEW c \in BOOLEAN,
         NEW s, s = [graph |-> a, asks |-> b, changed |-> c]
  PROVE  s \in Hearings
BY DEF Hearings, IsGraph

LEMMA HearingFields ==
  ASSUME NEW s \in Hearings
  PROVE  /\ s = [graph |-> s.graph, asks |-> s.asks, changed |-> s.changed]
         /\ IsGraph(s.graph) /\ s.asks \in Seq(Nodes) /\ s.changed \in BOOLEAN
BY DEF Hearings

LEMMA VerticeKeeps ==
  ASSUME NEW g, IsGraph(g), NEW v \in Nodes
  PROVE  IsGraph(AddVertice(g, v)) /\ AddVertice(g, v).ring = g.ring
<1> DEFINE V == g.vertices \union {v}
<1>1. V \subseteq Nodes
  BY DEF IsGraph, Graphs
<1>2. AddVertice(g, v) = [g EXCEPT !.vertices = V]
  BY DEF AddVertice
<1> HIDE DEF V
<1> QED
  BY <1>1, <1>2, MoreVertices

LEMMA MeetKeeps ==
  ASSUME NEW s \in Hearings, NEW v \in Nodes
  PROVE  Meet(s, v) \in Hearings
<1>1. CASE v \in s.graph.vertices
  BY <1>1 DEF Meet
<1>2. CASE v \notin s.graph.vertices
  <2>1. PICK a, b, c : s = [graph |-> a, asks |-> b, changed |-> c]
    BY HearingFields
  <2>2. IsGraph(a) /\ b \in Seq(Nodes) /\ c \in BOOLEAN
    BY <2>1, HearingFields
  <2>3. Meet(s, v) = [graph |-> AddVertice(a, v), asks |-> Append(b, v), changed |-> c]
    BY <1>2, <2>1 DEF Meet
  <2>4. IsGraph(AddVertice(a, v)) /\ Append(b, v) \in Seq(Nodes)
    BY <2>2, VerticeKeeps
  <2> QED
    BY <2>2, <2>3, <2>4, HearingIs
<1> QED
  BY <1>1, <1>2

LEMMA NeighborKeeps ==
  ASSUME NEW s \in Hearings, NEW n \in Nodes, NEW l \in Edges
  PROVE  Neighbor(s, n, l) \in Hearings
<1> DEFINE met  == Meet(s, l.to)
           out  == AddEdge(met.graph, n, l.to, l.weight)
           back == ~ HasEdge(out, l.to, n)
           new  == IF back THEN AddEdge(out, l.to, n, l.weight) ELSE out
<1>0. l.to \in Nodes /\ l.weight \in 1 .. MaxWeight
  BY DEF Edges
<1>1. met \in Hearings
  BY <1>0, MeetKeeps
<1>2. PICK a, b, c : met = [graph |-> a, asks |-> b, changed |-> c]
  BY <1>1, HearingFields
<1>3. IsGraph(a) /\ b \in Seq(Nodes) /\ c \in BOOLEAN
  BY <1>1, <1>2, HearingFields
<1> DEFINE d == c \/ back \/ EdgeChanges(a, n, l.to, l.weight)
<1>4. met.graph = a
  BY <1>2
<1>5. IsGraph(out)
  BY <1>0, <1>3, <1>4, AddEdgeKeeps
<1>6. IsGraph(new)
  <2>1. IsGraph(AddEdge(out, l.to, n, l.weight))
    BY <1>0, <1>5, AddEdgeKeeps
  <2> QED
    BY <1>5, <2>1
<1>7. Neighbor(s, n, l) = [met EXCEPT !.graph = new, !.changed = @ \/ back \/ EdgeChanges(met.graph, n, l.to, l.weight)]
  BY DEF Neighbor
<1> HIDE DEF met, out, back, new
<1>8. Neighbor(s, n, l) = [graph |-> new, asks |-> b, changed |-> d]
  BY <1>2, <1>4, <1>7
<1>9. d \in BOOLEAN
  BY <1>3 DEF back
<1> QED
  BY <1>3, <1>6, <1>8, <1>9, HearingIs

\* A neighbor that changes nothing leaves the rings as they are.
LEMMA NeighborSame ==
  ASSUME NEW s \in Hearings, NEW n \in Nodes, NEW l \in Edges,
         ~ Neighbor(s, n, l).changed
  PROVE  ~ s.changed /\ Neighbor(s, n, l).graph.ring = s.graph.ring
<1> DEFINE met  == Meet(s, l.to)
           out  == AddEdge(met.graph, n, l.to, l.weight)
           back == ~ HasEdge(out, l.to, n)
           new  == IF back THEN AddEdge(out, l.to, n, l.weight) ELSE out
<1>0. l.to \in Nodes /\ l.weight \in 1 .. MaxWeight
  BY DEF Edges
<1>1. met \in Hearings
  BY <1>0, MeetKeeps
<1>2. PICK a, b, c : met = [graph |-> a, asks |-> b, changed |-> c]
  BY <1>1, HearingFields
<1>3. IsGraph(a)
  BY <1>1, <1>2, HearingFields
<1>4. a.ring = s.graph.ring /\ c = s.changed
  <2>1. CASE l.to \in s.graph.vertices
    BY <1>2, <2>1 DEF Meet
  <2>2. CASE l.to \notin s.graph.vertices
    <3>1. PICK x, y, z : s = [graph |-> x, asks |-> y, changed |-> z]
      BY HearingFields
    <3>2. IsGraph(x)
      BY <3>1, HearingFields
    <3>3. met = [graph |-> AddVertice(x, l.to), asks |-> Append(y, l.to), changed |-> z]
      BY <2>2, <3>1 DEF Meet
    <3>4. AddVertice(x, l.to).ring = x.ring
      BY <1>0, <3>2, VerticeKeeps
    <3> QED
      BY <1>2, <3>1, <3>3, <3>4
  <2> QED
    BY <2>1, <2>2
<1>5. met.graph = a
  BY <1>2
<1>6. Neighbor(s, n, l) = [met EXCEPT !.graph = new, !.changed = @ \/ back \/ EdgeChanges(met.graph, n, l.to, l.weight)]
  BY DEF Neighbor
<1>7. back => new = AddEdge(out, l.to, n, l.weight)
  OBVIOUS
<1>8. ~ back => new = out
  OBVIOUS
<1>9. out = AddEdge(a, n, l.to, l.weight)
  BY <1>5
<1> HIDE DEF met, out, back, new
<1> DEFINE d == c \/ back \/ EdgeChanges(a, n, l.to, l.weight)
<1>10. Neighbor(s, n, l) = [graph |-> new, asks |-> b, changed |-> d]
  BY <1>2, <1>5, <1>6
<1>11. Neighbor(s, n, l).changed = d /\ Neighbor(s, n, l).graph = new
  BY <1>10
<1>12. ~ c /\ ~ back /\ ~ EdgeChanges(a, n, l.to, l.weight)
  BY <1>11
<1>13. out.ring = a.ring
  BY <1>0, <1>3, <1>9, <1>12, AddEdgeSame
<1> QED
  BY <1>4, <1>8, <1>11, <1>12, <1>13

\* What the whole report leaves.
LEMMA ReportKeeps ==
  ASSUME NEW r \in Reports, Report(r), IsGraph(graph), asks \in Seq(Nodes)
  PROVE  /\ IsGraph(graph)' /\ asks' \in Seq(Nodes)
         /\ pass' = 0 /\ Links(graph') = Links(graph) => graph'.ring = graph.ring
<1> DEFINE n    == Len(r.list)
           b    == Meet([graph |-> graph, asks |-> asks,
                         changed |-> r.from \notin graph.vertices], r.from)
           heard == CHOOSE f : f = [k \in 0 .. n |-> IF k = 0 THEN b ELSE Neighbor(f[k - 1], r.from, r.list[k])]
           kept == {l.to : l \in ToSet(r.list)}
           step == [y \in Hearings \X (1 .. n) |-> Neighbor(y[1], r.from, r.list[y[2]])]
<1>0. r.from \in Nodes /\ r.list \in Seq(Edges) /\ n \in Nat
  BY RoutesAssumption
<1>a. [graph |-> graph, asks |-> asks, changed |-> r.from \notin graph.vertices] \in Hearings
  BY HearingIs
<1>1. b \in Hearings
  BY <1>0, <1>a, MeetKeeps
<1>b. ~ b.changed => b.graph.ring = graph.ring
  <2>1. CASE r.from \in graph.vertices
    BY <2>1 DEF Meet
  <2>2. CASE r.from \notin graph.vertices
    BY <2>2 DEF Meet
  <2> QED
    BY <2>1, <2>2
<1>2. /\ graph' = Sweep(heard[n].graph, r.from, kept)
      /\ asks' = IF kind = "controller" THEN heard[n].asks ELSE asks
      /\ pass' = IF heard[n].changed \/ SweepTells(heard[n].graph, r.from, kept) THEN 1 ELSE 0
  BY DEF Report
<1> HIDE DEF b, kept
<1>3. \A s \in Hearings, k \in 1 .. n : /\ step[<<s, k>>] = Neighbor(s, r.from, r.list[k])
                                        /\ step[<<s, k>>] \in Hearings
  <2>1. ASSUME NEW s \in Hearings, NEW k \in 1 .. n
        PROVE  Neighbor(s, r.from, r.list[k]) \in Hearings
    <3>1. r.list[k] \in Edges
      BY <1>0
    <3> QED
      BY <1>0, <3>1, NeighborKeeps
  <2> QED
    BY <2>1
<1>4. PICK h \in [0 .. n -> Hearings] : Goes(h, n, b, step)
  <2> HIDE DEF step, n
  <2>1. Stays(step, n, Hearings)
    BY <1>3 DEF Stays
  <2>2. Runs(n, Hearings, b, step)
    BY <1>0, <1>1, <2>1, Recursion
  <2> QED
    BY <2>2 DEF Runs
<1> HIDE DEF step, n
<1>5. h = [k \in 0 .. n |-> IF k = 0 THEN b ELSE Neighbor(h[k - 1], r.from, r.list[k])]
  <2>1. \A k \in 1 .. n : h[k - 1] \in Hearings
    BY <1>0
  <2>2. \A k \in 1 .. n : h[k] = Neighbor(h[k - 1], r.from, r.list[k])
    BY <1>3, <1>4, <2>1 DEF Goes
  <2> QED
    BY <1>0, <1>4, <2>2 DEF Goes
<1>6. heard = [k \in 0 .. n |-> IF k = 0 THEN b ELSE Neighbor(heard[k - 1], r.from, r.list[k])]
  BY <1>5
<1> HIDE DEF heard
<1> DEFINE P == {k \in 0 .. n : /\ heard[k] \in Hearings
                                /\ ~ heard[k].changed => heard[k].graph.ring = graph.ring}
<1>7. \A k \in 0 .. n : heard[k] = IF k = 0 THEN b ELSE Neighbor(heard[k - 1], r.from, r.list[k])
  BY <1>6
<1>8. 0 \in P
  <2>1. 0 \in 0 .. n
    BY <1>0
  <2> QED
    BY <1>1, <1>b, <1>7, <2>1
<1>9. ASSUME NEW k \in 0 .. n - 1, k \in P PROVE k + 1 \in P
  <2>1. k + 1 \in 0 .. n /\ k + 1 # 0 /\ (k + 1) - 1 = k /\ k + 1 \in 1 .. n
    BY <1>0
  <2>2. heard[k + 1] = Neighbor(heard[(k + 1) - 1], r.from, r.list[k + 1])
    BY <1>7, <2>1, Zenon
  <2>3. r.list[k + 1] \in Edges
    BY <1>0, <2>1 DEF n
  <2>4. Neighbor(heard[k], r.from, r.list[k + 1]) \in Hearings
    BY <1>0, <1>9, <2>3, NeighborKeeps
  <2>5. ~ Neighbor(heard[k], r.from, r.list[k + 1]).changed
          => /\ ~ heard[k].changed
             /\ Neighbor(heard[k], r.from, r.list[k + 1]).graph.ring = heard[k].graph.ring
    BY <1>0, <1>9, <2>3, NeighborSame
  <2> QED
    BY <1>9, <2>1, <2>2, <2>4, <2>5
<1>10. heard[n] \in Hearings /\ (~ heard[n].changed => heard[n].graph.ring = graph.ring)
  <2> HIDE DEF P
  <2>1. \A k \in 0 .. n - 1 : k \in P => k + 1 \in P
    BY <1>9
  <2>2. \A k \in 0 .. n : k \in P
    BY <1>0, <1>8, <2>1, Induct
  <2> QED
    BY <1>0, <2>2 DEF P
<1>11. IsGraph(heard[n].graph) /\ heard[n].asks \in Seq(Nodes)
  BY <1>10, HearingFields
<1>12. IsGraph(graph')
  BY <1>0, <1>2, <1>11, SweepKeeps
<1>13. ASSUME pass' = 0, Links(graph') = Links(graph) PROVE graph'.ring = graph.ring
  <2>1. heard[n].graph.ring = graph.ring
    BY <1>2, <1>10, <1>13
  <2>2. Links(heard[n].graph) = Links(graph)
    BY <2>1 DEF Links, HasEdge, FindEdge
  <2>3. Links(Sweep(heard[n].graph, r.from, kept)) = Links(heard[n].graph)
    BY <1>2, <1>13, <2>2
  <2>4. Sweep(heard[n].graph, r.from, kept).ring = heard[n].graph.ring
    BY <1>0, <1>11, <2>3, SweepSame
  <2> QED
    BY <1>2, <2>1, <2>4
<1> QED
  BY <1>2, <1>11, <1>12, <1>13

\* The list grows at its end, by vertices of the route that have no entry.
LEMMA ListedIs ==
  ASSUME NEW p \in Paths, order \in Seq(Nodes)
  PROVE  \E t \in Seq(Nodes) :
            /\ Listed(p) = order \o t
            /\ \A i \in 1 .. Len(t) :
                  entry[t[i]].act = "none" /\ \E k \in DOMAIN p : k # 0 /\ p[k] = t[i]
<1>0. PICK n \in Nat \ {0} : Road(n, p) /\ Hops(p) = n /\ DOMAIN p = 0 .. n
  BY PathIsRoad, RoutesAssumption
<1> DEFINE q == [i \in 1 .. n |-> p[i]]
           S == {v \in Nodes : entry[v].act = "none"}
           t == Only(q, S)
<1>1. q \in Seq(Nodes) /\ Len(q) = n
  BY <1>0 DEF Road
<1>2. t \in Seq(Nodes)
  <2> HIDE DEF q, S
  <2> QED
    BY <1>1, OnlyPicks
<1>3. PICK f : Picks(f, t, q, Len(q), S)
  <2> HIDE DEF q, S
  <2> QED
    BY <1>1, OnlyPicks
<1>4. Listed(p) = order \o t
  BY <1>0 DEF Listed
<1> HIDE DEF t
<1>5. ASSUME NEW i \in 1 .. Len(t)
      PROVE  entry[t[i]].act = "none" /\ \E k \in DOMAIN p : k # 0 /\ p[k] = t[i]
  <2>1. t[i] \in S /\ f[i] \in 1 .. n /\ t[i] = q[f[i]]
    BY <1>1, <1>3 DEF Picks
  <2>2. f[i] \in DOMAIN p /\ f[i] # 0 /\ p[f[i]] = t[i]
    BY <1>0, <2>1
  <2> QED
    BY <2>1, <2>2
<1> QED
  BY <1>2, <1>4, <1>5

\* The types the search rests on.
Kept ==
  /\ IsGraph(graph)
  /\ targets \in Seq(Nodes)
  /\ order \in Seq(Nodes)
  /\ asks \in Seq(Nodes)

LEMMA SearchedKeeps ==
  ASSUME Kept, NEW v \in Nodes
  PROVE  IsGraph(Searched(v)) /\ Searched(v).ring = graph.ring
<1> DEFINE V == graph.vertices \union {v} \union ToSet(targets)
<1>1. V \subseteq Nodes
  BY DEF Kept, IsGraph, Graphs, ToSet
<1>2. Searched(v) = IF targets = << >> THEN graph ELSE [graph EXCEPT !.vertices = V]
  BY DEF Searched
<1> HIDE DEF V
<1> QED
  BY <1>1, <1>2, MoreVertices DEF Kept

LEMMA RouteKeepsOrder ==
  ASSUME Kept, NEW v \in Nodes, Route(v)
  PROVE  order' \in Seq(Nodes)
<1>1. CASE GiveUp(v)
  BY <1>1 DEF GiveUp, Kept
<1>2. ASSUME NEW labels, NEW i \in DOMAIN targets,
             NEW p \in RoutesTo(labels, targets[i]), Configure(v, p, labels)
      PROVE  order' \in Seq(Nodes)
  <2>1. p \in Paths
    BY DEF RoutesTo
  <2>2. order' = order \/ order' = Listed(p)
    BY <1>2 DEF Configure
  <2>3. Listed(p) \in Seq(Nodes)
    <3>1. order \in Seq(Nodes)
      BY DEF Kept
    <3>2. PICK t \in Seq(Nodes) : Listed(p) = order \o t
      BY <2>1, <3>1, ListedIs
    <3> QED
      BY <3>1, <3>2
  <2> QED
    BY <2>2, <2>3 DEF Kept
<1> QED
  BY <1>1, <1>2 DEF Route

LEMMA InitKept == Init => Kept
<1> SUFFICES ASSUME Init PROVE Kept
  OBVIOUS
<1>1. targets \in Seq(Nodes)
  BY RoutesAssumption DEF Init, InitialTargets
<1>2. graph = [vertices |-> {Ctl}, ring |-> [v \in Nodes |-> << >>]]
  BY DEF Init
<1>3. graph \in Graphs
  BY <1>2, RoutesAssumption DEF Graphs
<1>4. Ringed(graph)
  <2>1. \A u \in Nodes : graph.ring[u] = << >>
    BY <1>2
  <2>2. << >> \in Seq(Edges) /\ 1 .. Len(<< >>) = {}
    OBVIOUS
  <2> QED
    BY <2>1, <2>2 DEF Ringed
<1> QED
  BY <1>1, <1>3, <1>4 DEF Init, Kept, IsGraph

LEMMA NextKept == Kept /\ [Next]_vars => Kept'
<1> SUFFICES ASSUME Kept, [Next]_vars PROVE Kept'
  OBVIOUS
<1>1. ASSUME UNCHANGED <<graph, targets, order, asks>> PROVE Kept'
  BY <1>1 DEF Kept
<1>2. ASSUME NEW r \in Reports, Report(r) PROVE Kept'
  <2>1. IsGraph(graph)' /\ asks' \in Seq(Nodes)
    BY <1>2, ReportKeeps DEF Kept
  <2>2. UNCHANGED <<targets, order>>
    BY <1>2 DEF Report
  <2> QED
    BY <2>1, <2>2 DEF Kept
<1>3. CASE CheckEntry
  <2>1. order[pass] \in Nodes
    BY <1>3 DEF CheckEntry, Kept
  <2>2. UNCHANGED <<targets, asks>>
    BY <1>3 DEF CheckEntry
  <2>3. CASE UNCHANGED <<graph, order>>
    BY <2>2, <2>3 DEF Kept
  <2>4. CASE graph' = Searched(order[pass]) /\ Route(order[pass])
    <3>1. IsGraph(graph')
      BY <2>1, <2>4, SearchedKeeps
    <3>2. order' \in Seq(Nodes)
      BY <2>1, <2>4, RouteKeepsOrder
    <3> QED
      BY <2>2, <3>1, <3>2 DEF Kept
  <2> QED
    BY <1>3, <2>3, <2>4 DEF CheckEntry
<1>4. CASE SendChanges
  BY <1>1, <1>4 DEF SendChanges
<1>5. ASSUME NEW v \in Nodes, Treat(v), targets' = targets, asks' \in Seq(Nodes) PROVE Kept'
  <2>1. CASE UNCHANGED <<graph, order>>
    BY <1>5, <2>1 DEF Kept
  <2>2. CASE graph' = Searched(v) /\ Route(v)
    <3>1. IsGraph(graph')
      BY <2>2, SearchedKeeps
    <3>2. order' \in Seq(Nodes)
      BY <2>2, RouteKeepsOrder
    <3> QED
      BY <1>5, <3>1, <3>2 DEF Kept
  <2> QED
    BY <1>5, <2>1, <2>2 DEF Treat
<1>6. ASSUME NEW n \in Requesters, Request(n) PROVE Kept'
  BY <1>5, <1>6, RoutesAssumption DEF Request, Kept
<1>7. CASE SelfRequest
  <2>1. Head(asks) \in Nodes /\ asks' \in Seq(Nodes) /\ targets' = targets /\ Treat(Head(asks))
    BY <1>7 DEF SelfRequest, Kept
  <2> QED
    BY <1>5, <2>1
<1>8. ASSUME NEW n \in Registrants, Register(n) PROVE Kept'
  <2>1. targets' \in Seq(Nodes)
    BY <1>8, RoutesAssumption DEF Register, Kept
  <2>2. UNCHANGED <<graph, order, asks>>
    BY <1>8 DEF Register
  <2> QED
    BY <2>1, <2>2 DEF Kept
<1>9. CASE RegisterOther
  BY <1>1, <1>9 DEF RegisterOther
<1>10. ASSUME NEW n \in Requesters, RequestOther(n) PROVE Kept'
  <2>1. IsGraph(AddVertice(graph, n))
    BY RoutesAssumption, VerticeKeeps DEF Kept
  <2> QED
    BY <1>10, <2>1 DEF RequestOther, Kept
<1>11. CASE UNCHANGED vars
  BY <1>1, <1>11 DEF vars
<1> QED
  BY <1>2, <1>3, <1>4, <1>6, <1>7, <1>8, <1>9, <1>10, <1>11 DEF Next

\* What the search finds is what there is: a route to every vertex that links
\* lead to and to no other, over links, with the weight of its edges.
LEMMA SearchIsSound == Kept => SearchSound
<1> SUFFICES ASSUME Kept, NEW v \in Nodes, NEW t \in Nodes \ {v}
             PROVE  LET labels == Labels(graph, v)
                        ways == {p \in Paths : p[0] = t /\ Source(p) = v /\ OverLinks(p)}
                    IN  /\ labels.root[t] # None <=> ways # {}
                        /\ labels.root[t] # None =>
                             \E p \in RoutesTo(labels, t) :
                                p \in ways /\ PathWeight(p) = labels.weight[t]
  BY DEF SearchSound
<1> DEFINE labels == Labels(graph, v)
           ways == {p \in Paths : p[0] = t /\ Source(p) = v /\ OverLinks(p)}
<1>0. IsFiniteSet(Nodes) /\ Ringed(graph)
  BY RoutesAssumption DEF Kept, IsGraph
<1>1. Ready(graph, v, labels) /\ labels.queue = << >>
  BY <1>0, LabelsReady
<1> HIDE DEF labels
<1>2. ASSUME NEW p \in ways PROVE labels.root[t] # None
  <2>1. p \in Paths /\ p[0] = t /\ Source(p) = v /\ OverLinks(p)
    OBVIOUS
  <2>2. PICK n \in Nat \ {0} : Road(n, p) /\ Hops(p) = n /\ DOMAIN p = 0 .. n
    BY <1>0, <2>1, PathIsRoad
  <2>3. p[n] = v
    BY <2>1, <2>2 DEF Source
  <2>4. \A i \in 1 .. n : HasEdge(graph, p[i], p[i - 1])
    <3>1. \A i \in 1 .. n : i \in DOMAIN p /\ i # 0
      BY <2>2
    <3> QED
      BY <2>1, <3>1 DEF OverLinks
  <2>5. labels.root[p[0]] # None
    BY <1>0, <1>1, <2>2, <2>3, <2>4, ReachedIsRooted
  <2> QED
    BY <2>1, <2>5
<1>3. ASSUME labels.root[t] # None
      PROVE  \E p \in RoutesTo(labels, t) : p \in ways /\ PathWeight(p) = labels.weight[t]
  <2>1. PICK n \in Nat \ {0} : \E p : Traces(labels, v, t, n, p)
    BY <1>0, <1>1, <1>3, TraceExists
  <2>2. PICK p : Traces(labels, v, t, n, p)
    BY <2>1
  <2>a. LeadsBack(labels, v, t, n, p)
    BY <2>2 DEF Traces
  <2>3. Road(n, p) /\ p[0] = t /\ p[n] = v /\ \A i \in 0 .. n - 1 : labels.root[p[i]] = p[i + 1]
    BY <2>a DEF LeadsBack
  <2>4. p \in Paths /\ Hops(p) = n /\ DOMAIN p = 0 .. n
    BY <1>0, <2>3, RoadIsPath
  <2>5. \A i \in 1 .. n : HasEdge(graph, p[i], p[i - 1])
    BY <1>0, <1>1, <2>a, <2>4, TraceWeighs
  <2>6. Weighs(graph, p) = labels.weight[t]
    BY <1>0, <1>1, <2>a, <2>4, TraceWeighs
  <2>7. PathWeight(p) = labels.weight[t]
    BY <2>6 DEF PathWeight, Weighs
  <2>8. OverLinks(p)
    <3>1. \A i \in 0 .. n : i # 0 => i \in 1 .. n
      OBVIOUS
    <3> QED
      BY <2>4, <2>5, <3>1 DEF OverLinks
  <2>9. labels.root[v] = None
    BY <1>1 DEF Ready, Labelled
  <2>10. p \in RoutesTo(labels, t)
    <3>1. ASSUME NEW i \in DOMAIN p PROVE labels.root[p[i]] = IF i = Hops(p) THEN None ELSE p[i + 1]
      <4>1. CASE i = n
        BY <2>3, <2>4, <2>9, <4>1
      <4>2. CASE i # n
        <5>1. i \in 0 .. n - 1
          BY <2>4, <4>2
        <5> QED
          BY <2>3, <2>4, <4>2, <5>1
      <4> QED
        BY <4>1, <4>2
    <3> QED
      BY <2>3, <2>4, <3>1 DEF RoutesTo
  <2>11. p \in ways
    BY <2>3, <2>4, <2>8 DEF Source
  <2> QED
    BY <2>7, <2>10, <2>11
<1>4. ways # {} => labels.root[t] # None
  <2> HIDE DEF ways
  <2> QED
    BY <1>2
<1> HIDE DEF ways
<1>5. labels.root[t] # None <=> ways # {}
  BY <1>3, <1>4
<1> QED
  BY <1>3, <1>5 DEF labels, ways

\* The route search of the controller is right about every graph that reports
\* and requests can make.
THEOREM SearchFindsRoutes == Spec => []SearchSound
BY InitKept, NextKept, SearchIsSound, PTL DEF Spec

\* Searches, weights and routes are the same in a graph with the same edges.
LEMMA SameLabels ==
  ASSUME NEW g, NEW h, h.ring = g.ring, Ringed(g), Ringed(h), NEW v \in Nodes,
         IsFiniteSet(Nodes)
  PROVE  Labels(h, v) = Labels(g, v)
<1> DEFINE n == Cardinality(Nodes)
<1>0. n \in Nat
  BY FS_CardinalityType
<1>1. \A s, u : Visit(h, s, u) = Visit(g, s, u)
  BY DEF Visit
<1>2. \A s : Advance(h, s) = Advance(g, s)
  BY <1>1 DEF Advance
<1>3. PICK a : Search(g, v, a)
  BY LabelsRun
<1>4. PICK b : Search(h, v, b)
  BY LabelsRun
<1> DEFINE P == {k \in 0 .. n : b[k] = a[k]}
<1>5. 0 \in P
  BY <1>0, <1>1, <1>3, <1>4 DEF Search
<1>6. ASSUME NEW k \in 0 .. n - 1, k \in P PROVE k + 1 \in P
  <2>1. b[k + 1] = Advance(h, b[k]) /\ a[k + 1] = Advance(g, a[k])
    BY <1>3, <1>4 DEF Search
  <2>2. b[k] = a[k] /\ k + 1 \in 0 .. n
    BY <1>0, <1>6
  <2> QED
    BY <1>2, <2>1, <2>2
<1>7. n \in P
  <2> HIDE DEF P, n
  <2>1. \A k \in 0 .. n - 1 : k \in P => k + 1 \in P
    BY <1>6
  <2>2. \A k \in 0 .. n : k \in P
    BY <1>0, <1>5, <2>1, Induct
  <2> QED
    BY <1>0, <2>2
<1> QED
  BY <1>3, <1>4, <1>7 DEF Search

LEMMA SameWeighs ==
  ASSUME NEW g, NEW h, h.ring = g.ring, NEW p
  PROVE  Weighs(h, p) = Weighs(g, p)
<1>1. \A u, w : EdgeWeight(h, u, w) = EdgeWeight(g, u, w)
  BY DEF EdgeWeight, FindEdge
<1>2. [i \in 1 .. Hops(p) |-> EdgeWeight(h, p[i], p[i - 1])]
        = [i \in 1 .. Hops(p) |-> EdgeWeight(g, p[i], p[i - 1])]
  BY <1>1
<1> QED
  BY <1>2 DEF Weighs

LEMMA SameLinks ==
  ASSUME NEW g, NEW h, h.ring = g.ring, Ringed(g), Ringed(h), IsFiniteSet(Nodes),
         NEW k, NEW T, NEW E, NEW v, Fine(k, g, T, E, v)
  PROVE  Fine(k, h, T, E, v)
<1>1. \A u, w : HasEdge(h, u, w) = HasEdge(g, u, w)
  BY DEF HasEdge, FindEdge
<1>2. \A p : Linked(h, p) <=> Linked(g, p)
  BY <1>1 DEF Linked
<1>3. \A u : Way(h, T, u) <=> Way(g, T, u)
  BY <1>2 DEF Way
<1>4. Leads(h, T, E, v) <=> Leads(g, T, E, v)
  BY <1>2 DEF Leads
<1>5. \A p : Weighs(h, p) = Weighs(g, p)
  BY SameWeighs
<1>6. ExactFor(h) => ExactFor(g)
  <2>1. \A u \in Nodes : Labels(h, u) = Labels(g, u)
    BY SameLabels
  <2> QED
    BY <1>2, <1>5, <2>1 DEF ExactFor
<1>7. Sunk(h, T, E) => Sunk(g, T, E)
  BY <1>3 DEF Sunk
<1>8. Near(g, T, E, v) => Near(h, T, E, v)
  BY <1>2, <1>5 DEF Near, LeadsIn
<1> QED
  BY <1>3, <1>4, <1>6, <1>7, <1>8 DEF Fine

\* E and F forward alike from v.
Alike(E, F, v) == F[v].act = E[v].act /\ F[v].next = E[v].next

LEMMA SameEntries ==
  ASSUME NEW E, NEW F, \A u \in Nodes : Alike(E, F, u), IsFiniteSet(Nodes),
         NEW k, NEW g, NEW T, NEW v \in Nodes, Fine(k, g, T, E, v)
  PROVE  Fine(k, g, T, F, v)
<1>1. ASSUME NEW p \in Paths, Follows(E, p) PROVE Follows(F, p)
  <2>1. PICK n \in Nat \ {0} : Road(n, p) /\ Hops(p) = n /\ DOMAIN p = 0 .. n
    BY PathIsRoad
  <2>2. \A i \in DOMAIN p : Alike(E, F, p[i])
    BY <2>1 DEF Road
  <2> QED
    BY <1>1, <2>2 DEF Follows, Alike
<1>2. Leads(g, T, E, v) => Leads(g, T, F, v)
  BY <1>1 DEF Leads
<1>3. Near(g, T, E, v) => Near(g, T, F, v)
  BY <1>1 DEF Near, LeadsIn
<1>4. Sunk(g, T, F) => Sunk(g, T, E)
  BY DEF Sunk, Alike
<1> QED
  BY <1>2, <1>3, <1>4 DEF Fine, Alike

LEMMA LeadsIsWay ==
  ASSUME NEW g, NEW T, NEW E, NEW v, Leads(g, T, E, v)
  PROVE  Way(g, T, v)
BY DEF Leads, Way

\* A node from which there is no way is on nobody's route: its entry may go.
LEMMA Unused ==
  ASSUME NEW g, NEW T, NEW v \in Nodes, ~ Way(g, T, v), IsFiniteSet(Nodes),
         NEW E, NEW F, \A w \in Nodes \ {v} : Alike(E, F, w),
         NEW k, NEW u \in Nodes \ {v}, Fine(k, g, T, E, u)
  PROVE  Fine(k, g, T, F, u)
<1>1. ASSUME NEW p \in Paths, Source(p) = u, p[0] \in T, Follows(E, p), Linked(g, p)
      PROVE  Follows(F, p)
  <2>2. PICK n \in Nat \ {0} : Road(n, p) /\ Hops(p) = n /\ DOMAIN p = 0 .. n
    BY PathIsRoad
  <2>3. ASSUME NEW i \in 1 .. n PROVE p[i] # v
    <3>1. Way(g, T, p[i])
      BY <1>1, <2>2, WayAlong
    <3> QED
      BY <3>1
  <2>4. \A i \in DOMAIN p : i # 0 => i \in 1 .. n /\ p[i] \in Nodes \ {v}
    <3>1. \A i \in 0 .. n : i # 0 => i \in 1 .. n
      OBVIOUS
    <3> QED
      BY <2>2, <2>3, <3>1 DEF Road
  <2> QED
    BY <1>1, <2>4 DEF Follows, Alike
<1>2. Leads(g, T, E, u) => Leads(g, T, F, u)
  BY <1>1 DEF Leads
<1>3. Near(g, T, E, u) => Near(g, T, F, u)
  BY <1>1 DEF Near, LeadsIn
<1>4. Sunk(g, T, F) => Sunk(g, T, E)
  BY DEF Sunk, Alike
<1> QED
  BY <1>2, <1>3, <1>4 DEF Fine, Alike

\* A whole route is written: who is on it is served by it, and who was served
\* before is served again, if need be by what is left of it where the two
\* meet last.
LEMMA WrittenLeads ==
  ASSUME NEW g, Ringed(g), NEW T, NEW E, NEW F, IsFiniteSet(Nodes),
         NEW n \in Nat \ {0}, NEW p, Road(n, p), p[0] \in T, Linked(g, p), Follows(F, p),
         \A u \in Nodes : (\A i \in 1 .. n : p[i] # u) => Alike(E, F, u),
         NEW u \in Nodes, u \notin T,
         (\E i \in 1 .. n : p[i] = u) \/ Leads(g, T, E, u)
  PROVE  Leads(g, T, F, u)
<1>1. CASE \E i \in 1 .. n : p[i] = u
  BY <1>1, WayAlong
<1>2. CASE \A i \in 1 .. n : p[i] # u
  <2>1. PICK y \in Paths : Source(y) = u /\ y[0] \in T /\ Follows(E, y) /\ Linked(g, y)
    BY <1>2 DEF Leads
  <2>2. PICK m \in Nat \ {0} : Road(m, y) /\ Hops(y) = m /\ DOMAIN y = 0 .. m
    BY PathIsRoad
  <2>3. y[m] = u /\ y \in [0 .. m -> Nodes] /\ m \in 0 .. m
    BY <2>1, <2>2 DEF Source, Road
  <2>4. ASSUME NEW j \in 1 .. m, \A l \in 0 .. n : y[j] # p[l]
        PROVE  F[y[j]].act = "forward" /\ F[y[j]].next = y[j - 1]
    <3>1. j \in DOMAIN y /\ j # 0 /\ y[j] \in Nodes
      BY <2>2, <2>3
    <3>2. \A l \in 1 .. n : p[l] # y[j]
      BY <2>4
    <3>3. Alike(E, F, y[j])
      BY <3>1, <3>2
    <3> QED
      BY <2>1, <3>1, <3>3 DEF Follows, Alike
  <2>5. CASE \A j \in 0 .. m : \A l \in 0 .. n : y[j] # p[l]
    <3>1. \A j \in DOMAIN y : j # 0 => j \in 1 .. m /\ j \in 0 .. m
      BY <2>2
    <3>2. Follows(F, y)
      BY <2>4, <2>5, <3>1 DEF Follows
    <3> QED
      BY <2>1, <3>2 DEF Leads
  <2>6. CASE ~ \A j \in 0 .. m : \A l \in 0 .. n : y[j] # p[l]
    <3>1. PICK a \in 0 .. m, b \in 0 .. n : y[a] = p[b]
      BY <2>6
    <3>2. PICK k \in a .. m, i \in 0 .. n : MeetsAt(n, p, m, y, k, i)
      BY <3>1, MeetLast
    <3>3. y[k] = p[i] /\ \A j \in k + 1 .. m : \A l \in 0 .. n : y[j] # p[l]
      BY <3>2 DEF MeetsAt
    <3>4. k # m
      <4>1. i = 0 \/ i \in 1 .. n
        OBVIOUS
      <4> QED
        BY <1>2, <2>3, <3>3, <4>1
    <3>5. k \in 0 .. m - 1
      BY <3>4
    <3>6. PICK r \in Paths : Joins(g, n, p, m, y, k, i, r)
      BY <2>1, <2>2, <3>2, <3>5, Joint
    <3>7. Steers(F, p, 1, i)
      <4>1. \A j \in 1 .. i : j \in DOMAIN p /\ j # 0
        BY DEF Road
      <4> QED
        BY <4>1 DEF Steers, Follows
    <3>8. Steers(F, y, k + 1, m)
      <4>1. \A j \in k + 1 .. m : j \in 1 .. m
        BY <3>5
      <4> QED
        BY <2>4, <3>3, <4>1 DEF Steers
    <3>9. Source(r) = y[m] /\ r[0] = p[0] /\ Linked(g, r) /\ Follows(F, r)
      BY <3>6, <3>7, <3>8 DEF Joins
    <3> QED
      BY <2>3, <3>9 DEF Leads
  <2> QED
    BY <2>5, <2>6
<1> QED
  BY <1>1, <1>2

\* If it is a best route, then so are its parts, and who goes on along it goes
\* on no worse than before.
LEMMA WrittenNear ==
  ASSUME NEW g, Ringed(g), NEW T, NEW E, NEW F, IsFiniteSet(Nodes),
         NEW n \in Nat \ {0}, NEW p, Road(n, p), p[0] \in T, Linked(g, p), Follows(F, p),
         \A u \in Nodes : (\A i \in 1 .. n : p[i] # u) => Alike(E, F, u),
         \A q \in Paths : Source(q) = p[n] /\ q[0] \in T /\ Linked(g, q)
                            => Weighs(g, p) <= Weighs(g, q),
         Sunk(g, T, F), NEW u \in Nodes,
         (\E i \in 1 .. n : p[i] = u) \/ (Sunk(g, T, E) => Near(g, T, E, u))
  PROVE  Near(g, T, F, u)
<1> SUFFICES ASSUME NEW q \in Paths, u \notin T, Source(q) = u, q[0] \in T, Linked(g, q)
             PROVE  LeadsIn(g, T, F, u, Weighs(g, q))
  BY DEF Near
<1>0. PICK h : Sums(g, n, p, h) /\ Weighs(g, p) = h[n] /\ Weighs(g, p) \in Nat
  BY SumsOf
<1>1. ASSUME NEW i \in 1 .. n PROVE p[i] \notin T /\ p[i] \in Nodes
  <2>1. p[i] \in Nodes /\ i \in DOMAIN p /\ i # 0
    BY DEF Road
  <2>2. Way(g, T, p[i])
    BY WayAlong
  <2>3. F[p[i]].act = "forward"
    BY <2>1 DEF Follows
  <2> QED
    BY <2>1, <2>2, <2>3 DEF Sunk
<1>2. ASSUME NEW i \in 1 .. n, NEW r \in Paths, Source(r) = p[i], r[0] \in T, Linked(g, r)
      PROVE  h[i] <= Weighs(g, r)
  <2>1. p[n] \notin T
    BY <1>1
  <2>2. \A s \in Paths : Source(s) = p[n] /\ s[0] \in T /\ Linked(g, s) => h[n] <= Weighs(g, s)
    BY <1>0
  <2> QED
    BY <1>0, <1>2, <2>1, <2>2, PartIsBest
<1>3. Weighs(g, q) \in Nat
  <2>1. PICK m \in Nat \ {0} : Road(m, q) /\ Hops(q) = m /\ DOMAIN q = 0 .. m
    BY PathIsRoad
  <2>2. \E hq : Sums(g, m, q, hq) /\ Weighs(g, q) = hq[m] /\ Weighs(g, q) \in Nat
    BY <2>1, SumsOf
  <2> QED
    BY <2>2
<1>4. CASE \E i \in 1 .. n : p[i] = u
  <2>1. PICK i \in 1 .. n : p[i] = u
    BY <1>4
  <2> DEFINE r == [j \in 0 .. i |-> p[j]]
  <2>2. r \in Paths /\ Source(r) = p[i] /\ r[0] = p[0]
    BY RestOfRoad
  <2>3. Linked(g, r)
    BY RestOfRoad
  <2>4. Follows(F, r)
    BY RestOfRoad
  <2>5. Weighs(g, r) = h[i]
    BY <1>0, RestWeighs
  <2>6. h[i] <= Weighs(g, q)
    BY <1>2, <2>1
  <2>7. h[i] \in Nat
    BY <1>0 DEF Sums
  <2> HIDE DEF r
  <2>8. 2 * Weighs(g, r) <= 3 * Weighs(g, q)
    BY <1>3, <2>5, <2>6, <2>7
  <2> QED
    BY <2>1, <2>2, <2>3, <2>4, <2>8 DEF LeadsIn
<1>5. CASE \A i \in 1 .. n : p[i] # u
  <2>1. Sunk(g, T, E)
    <3> SUFFICES ASSUME NEW v \in Nodes, v \in T, Way(g, T, v) PROVE E[v].act # "forward"
      BY DEF Sunk
    <3>1. Alike(E, F, v)
      BY <1>1
    <3> QED
      BY <3>1 DEF Sunk, Alike
  <2>2. LeadsIn(g, T, E, u, Weighs(g, q))
    BY <1>5, <2>1 DEF Near
  <2>3. PICK y \in Paths : /\ Source(y) = u /\ y[0] \in T /\ Follows(E, y) /\ Linked(g, y)
                           /\ 2 * Weighs(g, y) <= 3 * Weighs(g, q)
    BY <2>2 DEF LeadsIn
  <2>4. PICK m \in Nat \ {0} : Road(m, y) /\ Hops(y) = m /\ DOMAIN y = 0 .. m
    BY PathIsRoad
  <2>5. y[m] = u /\ y \in [0 .. m -> Nodes] /\ m \in 0 .. m
    BY <2>3, <2>4 DEF Source, Road
  <2>6. ASSUME NEW j \in 1 .. m, \A l \in 0 .. n : y[j] # p[l]
        PROVE  F[y[j]].act = "forward" /\ F[y[j]].next = y[j - 1]
    <3>1. j \in DOMAIN y /\ j # 0 /\ y[j] \in Nodes
      BY <2>4, <2>5
    <3>2. \A l \in 1 .. n : p[l] # y[j]
      BY <2>6
    <3>3. Alike(E, F, y[j])
      BY <3>1, <3>2
    <3> QED
      BY <2>3, <3>1, <3>3 DEF Follows, Alike
  <2>7. CASE \A j \in 0 .. m : \A l \in 0 .. n : y[j] # p[l]
    <3>1. \A j \in DOMAIN y : j # 0 => j \in 1 .. m /\ j \in 0 .. m
      BY <2>4
    <3>2. Follows(F, y)
      BY <2>6, <2>7, <3>1 DEF Follows
    <3> QED
      BY <2>3, <3>2 DEF LeadsIn
  <2>8. CASE ~ \A j \in 0 .. m : \A l \in 0 .. n : y[j] # p[l]
    <3>1. PICK a \in 0 .. m, b \in 0 .. n : y[a] = p[b]
      BY <2>8
    <3>a. PICK k \in a .. m, i \in 0 .. n : MeetsAt(n, p, m, y, k, i)
      BY <3>1, MeetLast
    <3>2. y[k] = p[i] /\ \A j \in k + 1 .. m : \A l \in 0 .. n : y[j] # p[l]
      BY <3>a DEF MeetsAt
    <3>3. k # m
      <4>1. i # 0 => i \in 1 .. n
        OBVIOUS
      <4> QED
        BY <1>5, <2>5, <3>2, <4>1
    <3>4. k \in 0 .. m - 1 /\ k \in 0 .. m
      BY <3>2, <3>3
    <3>b. PICK r \in Paths : Joins(g, n, p, m, y, k, i, r)
      BY <2>3, <2>4, <3>a, <3>4, Joint
    <3>5. /\ Source(r) = y[m] /\ r[0] = p[0] /\ Linked(g, r)
          /\ \A D : Steers(D, p, 1, i) /\ Steers(D, y, k + 1, m) => Follows(D, r)
          /\ \A hp, hq : Sums(g, n, p, hp) /\ Sums(g, m, y, hq)
                           => Weighs(g, r) = hp[i] + (hq[m] - hq[k])
      BY <3>b DEF Joins
    <3>6. Steers(F, p, 1, i)
      <4>1. \A j \in 1 .. i : j \in DOMAIN p /\ j # 0
        BY DEF Road
      <4> QED
        BY <4>1 DEF Steers, Follows
    <3>7. Steers(F, y, k + 1, m)
      <4>1. \A j \in k + 1 .. m : j \in 1 .. m
        BY <3>4
      <4> QED
        BY <2>6, <3>2, <4>1 DEF Steers
    <3>8. Follows(F, r)
      BY <3>5, <3>6, <3>7
    <3>9. PICK hy : Sums(g, m, y, hy) /\ Weighs(g, y) = hy[m] /\ Weighs(g, y) \in Nat
      BY <2>3, <2>4, SumsOf
    <3>10. Weighs(g, r) = h[i] + (hy[m] - hy[k])
      BY <1>0, <3>5, <3>9
    <3>11. h[i] \in Nat /\ hy[k] \in Nat /\ hy[m] \in Nat
      BY <1>0, <3>4, <3>9 DEF Sums
    <3>12. h[i] <= hy[k]
      <4>1. CASE i = 0
        BY <1>0, <3>11, <4>1 DEF Sums
      <4>2. CASE i # 0
        <5> DEFINE s == [j \in 0 .. k |-> y[j]]
        <5>1. i \in 1 .. n
          BY <4>2
        <5>2. y[k] # y[0]
          BY <1>1, <2>3, <3>2, <5>1
        <5>3. k \in 1 .. m
          BY <3>4, <5>2
        <5>4. s \in Paths /\ Source(s) = y[k] /\ s[0] = y[0]
          BY <2>4, <5>3, RestOfRoad
        <5>5. Linked(g, s)
          BY <2>3, <2>4, <5>3, RestOfRoad
        <5>6. Weighs(g, s) = hy[k]
          BY <2>4, <3>9, <5>3, RestWeighs
        <5> HIDE DEF s
        <5>7. h[i] <= Weighs(g, s)
          BY <1>2, <2>3, <3>2, <5>1, <5>4, <5>5
        <5> QED
          BY <5>6, <5>7
      <4> QED
        BY <4>1, <4>2
    <3>13. 2 * Weighs(g, r) <= 3 * Weighs(g, q)
      <4>1. \A x, c, d, e \in Nat : x <= c /\ 2 * d <= 3 * e => 2 * (x + (d - c)) <= 3 * e
        BY SMT
      <4> QED
        BY <1>3, <2>3, <3>9, <3>10, <3>11, <3>12, <4>1
    <3> QED
      BY <2>3, <2>5, <3>5, <3>8, <3>13 DEF LeadsIn
  <2> QED
    BY <2>7, <2>8
<1> QED
  BY <1>4, <1>5

LEMMA WrittenServes ==
  ASSUME NEW g, Ringed(g), NEW T, NEW E, NEW F, IsFiniteSet(Nodes),
         NEW n \in Nat \ {0}, NEW p, Road(n, p), p[0] \in T, Linked(g, p), Follows(F, p),
         \A u \in Nodes : (\A i \in 1 .. n : p[i] # u) => Alike(E, F, u),
         ExactFor(g) => \A q \in Paths : Source(q) = p[n] /\ q[0] \in T /\ Linked(g, q)
                                           => Weighs(g, p) <= Weighs(g, q),
         NEW k, NEW u \in Nodes,
         (\E i \in 1 .. n : p[i] = u) \/ Fine(k, g, T, E, u)
  PROVE  Fine(k, g, T, F, u)
<1>1. ASSUME NEW i \in 1 .. n, p[i] = u PROVE Way(g, T, u)
  BY <1>1, WayAlong
<1>2. CASE \E i \in 1 .. n : p[i] = u
  <2>1. Way(g, T, u)
    BY <1>1, <1>2
  <2>2. u \notin T => Leads(g, T, F, u)
    BY <1>2, WrittenLeads
  <2>3. ExactFor(g) /\ Sunk(g, T, F) => Near(g, T, F, u)
    BY <1>2, WrittenNear
  <2> QED
    BY <2>1, <2>2, <2>3 DEF Fine
<1>3. CASE \A i \in 1 .. n : p[i] # u
  <2>1. Alike(E, F, u) /\ Fine(k, g, T, E, u)
    BY <1>3
  <2>2. u \notin T /\ Leads(g, T, E, u) => Leads(g, T, F, u)
    BY WrittenLeads
  <2>3. ASSUME ExactFor(g), Sunk(g, T, F) PROVE Near(g, T, F, u)
    <3>1. Sunk(g, T, E) => Near(g, T, E, u)
      BY <2>1, <2>3 DEF Fine
    <3> QED
      BY <2>3, <3>1, WrittenNear
  <2> QED
    BY <2>1, <2>2, <2>3 DEF Fine, Alike
<1> QED
  BY <1>2, <1>3

LEMMA MaxHopsIsNat == MaxHops \in Nat
BY SMT DEF MaxHops

\* Entries a pass can leave: they forward to a target or to a node with an
\* entry, and DROP has the largest number of hops.
Lawful(E, T, v) ==
  /\ E[v].act \in Actions
  /\ E[v].act = "forward" =>
       /\ E[v].next \in Nodes
       /\ E[v].hops \in 0 .. MaxHops
       /\ E[v].next \in T \/ E[E[v].next].act # "none"
  /\ E[v].act = "drop" => E[v].hops = MaxHops

Legal == \A v \in Nodes : Lawful(entry, ToSet(targets), v)

\* What get_current_route_from_flowid has walked through from v.
Walked(r) ==
  \A i \in 1 .. Len(r) - 1 :
     /\ entry[r[i]].act = "forward" /\ entry[r[i]].next = r[i + 1]
     /\ \/ entry[r[i + 1]].act = "none"
        \/ entry[r[i + 1]].act = "forward" /\ entry[r[i + 1]].hops < entry[r[i]].hops

Walks(v) == {r \in Seq(Nodes) : r # << >> => r[1] = v /\ Walked(r)}

Onward(r) ==
  LET u == Last(r)
      x == entry[u].next
  IN IF r = << >> \/ entry[u].act # "forward" THEN r
     ELSE IF entry[x].act # "none" /\ entry[u].hops <= entry[x].hops THEN << >>
     ELSE Append(r, x)

LEMMA OnwardWalks ==
  ASSUME Legal, NEW v \in Nodes, NEW r \in Walks(v)
  PROVE  /\ Onward(r) \in Walks(v)
         /\ \/ Onward(r) = << >>
            \/ Onward(r) = r /\ entry[Last(r)].act # "forward"
            \/ Len(Onward(r)) = Len(r) + 1
<1> DEFINE u == Last(r)
           x == entry[u].next
<1>1. CASE r = << >> \/ entry[u].act # "forward"
  BY <1>1 DEF Onward
<1>2. CASE r # << >> /\ entry[u].act = "forward"
  <2>0. r \in Seq(Nodes) /\ Len(r) \in Nat \ {0} /\ r[1] = v /\ Walked(r)
    BY <1>2 DEF Walks
  <2>1. u = r[Len(r)] /\ u \in Nodes
    BY <2>0 DEF Last
  <2>2. /\ x \in Nodes /\ entry[u].hops \in 0 .. MaxHops
        /\ Target(x) \/ entry[x].act # "none"
    BY <1>2, <2>1 DEF Legal, Lawful, Target
  <2>3. CASE entry[x].act # "none" /\ entry[u].hops <= entry[x].hops
    <3>1. Onward(r) = << >>
      BY <1>2, <2>3 DEF Onward
    <3> QED
      BY <3>1 DEF Walks
  <2>4. CASE ~ (entry[x].act # "none" /\ entry[u].hops <= entry[x].hops)
    <3>1. Onward(r) = Append(r, x)
      BY <1>2, <2>4 DEF Onward
    <3>2. \/ entry[x].act = "none"
          \/ entry[x].act = "forward" /\ entry[x].hops < entry[u].hops
      <4>1. entry[x].act \in Actions
        BY <2>2 DEF Legal, Lawful, Target
      <4>2. entry[x].act = "drop" => entry[x].hops = MaxHops
        BY <2>2 DEF Legal, Lawful, Target
      <4>3. entry[x].act # "drop"
        <5>1. ASSUME entry[x].act = "drop" PROVE FALSE
          <6>1. entry[x].hops = MaxHops /\ entry[x].act # "none"
            BY <4>2, <5>1
          <6>2. entry[u].hops <= MaxHops
            BY <2>2, MaxHopsIsNat
          <6> QED
            BY <2>4, <6>1, <6>2
        <5> QED
          BY <5>1
      <4>4. entry[x].act = "forward" => entry[x].hops \in 0 .. MaxHops
        BY <2>2 DEF Legal, Lawful, Target
      <4>5. entry[x].act = "none" \/ entry[x].act = "forward"
        BY <4>1, <4>3 DEF Actions
      <4>6. ASSUME entry[x].act = "forward" PROVE entry[x].hops < entry[u].hops
        <5>1. entry[x].hops \in Nat /\ entry[u].hops \in Nat
          BY <2>2, <4>4, <4>6, MaxHopsIsNat
        <5>2. ~ (entry[u].hops <= entry[x].hops)
          BY <2>4, <4>6
        <5> HIDE DEF x, u
        <5> QED
          BY <5>1, <5>2
      <4> QED
        BY <4>5, <4>6
    <3> DEFINE q == Append(r, x)
    <3> HIDE DEF x, u
    <3>3. q \in Seq(Nodes) /\ Len(q) = Len(r) + 1
      BY <2>0, <2>2
    <3>4. q[Len(r) + 1] = x /\ \A i \in 1 .. Len(r) : q[i] = r[i]
      BY <2>0
    <3>5. q[1] = v /\ q # << >>
      BY <2>0, <3>3, <3>4
    <3>6. ASSUME NEW i \in 1 .. Len(q) - 1
          PROVE  /\ entry[q[i]].act = "forward" /\ entry[q[i]].next = q[i + 1]
                 /\ \/ entry[q[i + 1]].act = "none"
                    \/ entry[q[i + 1]].act = "forward" /\ entry[q[i + 1]].hops < entry[q[i]].hops
      <4>0. i \in 1 .. Len(r)
        BY <2>0, <3>3
      <4>1. CASE i = Len(r)
        <5>1. q[i] = u /\ q[i + 1] = x
          BY <2>1, <3>4, <4>0, <4>1
        <5> QED
          BY <1>2, <3>2, <5>1 DEF x
      <4>2. CASE i # Len(r)
        <5>1. i \in 1 .. Len(r) - 1 /\ i + 1 \in 1 .. Len(r)
          BY <2>0, <4>0, <4>2
        <5>2. q[i] = r[i] /\ q[i + 1] = r[i + 1]
          BY <3>4, <4>0, <5>1
        <5> QED
          BY <2>0, <5>1, <5>2 DEF Walked
      <4> QED
        BY <4>1, <4>2
    <3> HIDE DEF q
    <3>7. Walked(q)
      BY <3>6 DEF Walked
    <3>8. q \in Walks(v)
      BY <3>3, <3>5, <3>7 DEF Walks
    <3> QED
      BY <3>1, <3>3, <3>8 DEF q, x, u
  <2> QED
    BY <2>3, <2>4
<1> QED
  BY <1>1, <1>2

\* The hops go down, so nobody is walked through twice.
LEMMA WalkIsRoad ==
  ASSUME Legal, NEW v \in Nodes, NEW r \in Walks(v), r # << >>
  PROVE  /\ \A i, j \in 1 .. Len(r) : r[i] = r[j] => i = j
         /\ Len(r) <= Cardinality(Nodes)
<1> DEFINE n == Len(r) - 1
           P == {j \in 0 .. n : \/ j = 0
                                \/ entry[r[j + 1]].act = "none"
                                \/ \A i \in 1 .. j : entry[r[j + 1]].hops < entry[r[i]].hops}
<1>0. r \in Seq(Nodes) /\ Len(r) \in Nat \ {0} /\ n \in Nat /\ Walked(r)
  BY DEF Walks
<1>1. \A i \in 1 .. n : /\ entry[r[i]].act = "forward"
                        /\ entry[r[i]].hops \in Nat
                        /\ \/ entry[r[i + 1]].act = "none"
                           \/ entry[r[i + 1]].hops < entry[r[i]].hops
  <2> SUFFICES ASSUME NEW i \in 1 .. n
               PROVE  /\ entry[r[i]].act = "forward"
                      /\ entry[r[i]].hops \in Nat
                      /\ \/ entry[r[i + 1]].act = "none"
                         \/ entry[r[i + 1]].hops < entry[r[i]].hops
    OBVIOUS
  <2>1. /\ entry[r[i]].act = "forward"
        /\ \/ entry[r[i + 1]].act = "none"
           \/ entry[r[i + 1]].hops < entry[r[i]].hops
    BY <1>0 DEF Walked
  <2>2. r[i] \in Nodes
    BY <1>0
  <2>3. entry[r[i]].hops \in 0 .. MaxHops
    BY <2>1, <2>2 DEF Legal, Lawful, Target
  <2>4. entry[r[i]].hops \in Nat
    BY <2>3, MaxHopsIsNat
  <2> QED
    BY <2>1, <2>4
<1>2. 0 \in P
  BY <1>0
<1>3. ASSUME NEW j \in 0 .. n - 1, j \in P PROVE j + 1 \in P
  <2>0. j + 1 \in 1 .. n /\ j + 1 \in 0 .. n
    BY <1>0
  <2>1. /\ entry[r[j + 1]].act = "forward" /\ entry[r[j + 1]].hops \in Nat
        /\ \/ entry[r[j + 1 + 1]].act = "none"
           \/ entry[r[j + 1 + 1]].hops < entry[r[j + 1]].hops
    BY <1>1, <2>0
  <2>2. CASE entry[r[j + 1 + 1]].act = "none"
    BY <2>0, <2>2
  <2>3. CASE entry[r[j + 1 + 1]].act # "none"
    <3>0. entry[r[j + 1 + 1]].act = "forward" \/ entry[r[j + 1 + 1]].act = "drop"
      <4>1. r[j + 1 + 1] \in Nodes
        BY <1>0
      <4> QED
        BY <2>3, <4>1 DEF Legal, Lawful, Target, Actions
    <3>1. entry[r[j + 1 + 1]].hops \in Nat
      <4>1. r[j + 1 + 1] \in Nodes
        BY <1>0
      <4>2. entry[r[j + 1 + 1]].hops \in 0 .. MaxHops \/ entry[r[j + 1 + 1]].hops = MaxHops
        BY <3>0, <4>1 DEF Legal, Lawful, Target
      <4> QED
        BY <4>2, MaxHopsIsNat
    <3>2. ASSUME NEW i \in 1 .. j + 1 PROVE entry[r[j + 1 + 1]].hops < entry[r[i]].hops
      <4>1. CASE i = j + 1
        BY <2>1, <2>3, <4>1
      <4>2. CASE i # j + 1
        <5>1. i \in 1 .. j /\ i \in 1 .. n /\ j # 0
          BY <1>0, <4>2
        <5>2. entry[r[j + 1]].hops < entry[r[i]].hops /\ entry[r[i]].hops \in Nat
          BY <1>1, <1>3, <2>1, <5>1
        <5> QED
          BY <2>1, <2>3, <3>1, <5>2
      <4> QED
        BY <4>1, <4>2
    <3> QED
      BY <2>0, <3>2
  <2> QED
    BY <2>2, <2>3
<1>4. \A j \in 0 .. n : j \in P
  <2> HIDE DEF P, n
  <2>1. \A j \in 0 .. n - 1 : j \in P => j + 1 \in P
    BY <1>3
  <2> QED
    BY <1>0, <1>2, <2>1, Induct
<1>5. ASSUME NEW i \in 1 .. Len(r), NEW j \in 1 .. Len(r), i < j PROVE r[i] # r[j]
  <2>0. i \in 1 .. n /\ j - 1 \in 0 .. n /\ (j - 1) + 1 = j /\ j - 1 # 0 /\ i \in 1 .. j - 1
    BY <1>0, <1>5
  <2>1. entry[r[j]].act = "none" \/ entry[r[j]].hops < entry[r[i]].hops
    <3>1. j - 1 \in P
      BY <1>4, <2>0
    <3> QED
      BY <2>0, <3>1
  <2>2. entry[r[i]].act = "forward" /\ entry[r[i]].hops \in Nat
    BY <1>1, <2>0
  <2> QED
    BY <2>1, <2>2
<1>6. \A i, j \in 1 .. Len(r) : r[i] = r[j] => i = j
  <2> SUFFICES ASSUME NEW i \in 1 .. Len(r), NEW j \in 1 .. Len(r), r[i] = r[j] PROVE i = j
    OBVIOUS
  <2>1. ~ (i < j) /\ ~ (j < i)
    BY <1>5
  <2> QED
    BY <1>0, <2>1
<1>7. Len(r) <= Cardinality(Nodes)
  <2>1. r \in Injection(1 .. Len(r), Nodes)
    BY <1>0, <1>6 DEF Injection, IsInjective
  <2>2. Cardinality(1 .. Len(r)) = Len(r) /\ IsFiniteSet(1 .. Len(r))
    BY <1>0, FS_Interval
  <2>3. Cardinality(1 .. Len(r)) <= Cardinality(Nodes)
    BY <2>1, FS_Injection, RoutesAssumption
  <2> QED
    BY <2>2, <2>3
<1> QED
  BY <1>6, <1>7

LEMMA CurrentRouteIs ==
  ASSUME Legal, NEW v \in Nodes, CurrentRoute(v) # << >>
  PROVE  /\ CurrentRoute(v) \in Walks(v) /\ Len(CurrentRoute(v)) > 1
         /\ entry[Last(CurrentRoute(v))].act # "forward"
<1> DEFINE n == Cardinality(Nodes)
           S == Walks(v)
           b == <<v>>
           step == [y \in S \X (1 .. n) |-> Onward(y[1])]
           walk == CHOOSE f : f = [k \in 0 .. n |-> IF k = 0 THEN b ELSE Onward(f[k - 1])]
<1>1. n \in Nat
  BY RoutesAssumption, FS_CardinalityType
<1>2. CurrentRoute(v) = IF Len(walk[n]) = 1 THEN << >> ELSE walk[n]
  BY DEF CurrentRoute, Onward
<1>3. b \in S
  BY DEF Walks, Walked
<1>4. \A s \in S, k \in 1 .. n : step[<<s, k>>] = Onward(s) /\ step[<<s, k>>] \in S
  <2>1. \A s \in S : Onward(s) \in S
    BY OnwardWalks
  <2> HIDE DEF S
  <2> QED
    BY <2>1
<1> HIDE DEF n, S, b
<1>5. Runs(n, S, b, step)
  <2> HIDE DEF step
  <2>1. Stays(step, n, S)
    BY <1>4 DEF Stays
  <2> QED
    BY <1>1, <1>3, <2>1, Recursion
<1>6. PICK h \in [0 .. n -> S] : Goes(h, n, b, step)
  BY <1>5 DEF Runs
<1> HIDE DEF step
<1>7. h = [k \in 0 .. n |-> IF k = 0 THEN b ELSE Onward(h[k - 1])]
  <2>1. \A k \in 1 .. n : h[k - 1] \in S
    BY <1>1
  <2>2. \A k \in 1 .. n : h[k] = Onward(h[k - 1])
    BY <1>4, <1>6, <2>1 DEF Goes
  <2> QED
    BY <1>1, <1>6, <2>2 DEF Goes
<1>8. walk = [k \in 0 .. n |-> IF k = 0 THEN b ELSE Onward(walk[k - 1])]
  BY <1>7
<1> HIDE DEF walk
<1>9. \A k \in 0 .. n : walk[k] = IF k = 0 THEN b ELSE Onward(walk[k - 1])
  BY <1>8
<1> DEFINE P == {k \in 0 .. n : /\ walk[k] \in S
                                /\ \/ walk[k] = << >>
                                   \/ entry[Last(walk[k])].act # "forward"
                                   \/ Len(walk[k]) = k + 1}
<1>10. 0 \in P
  <2>1. 0 \in 0 .. n /\ Len(b) = 0 + 1
    BY <1>1 DEF b
  <2>2. walk[0] = b
    BY <1>9, <2>1
  <2> QED
    BY <1>3, <2>1, <2>2
<1>11. ASSUME NEW k \in 0 .. n - 1, k \in P PROVE k + 1 \in P
  <2>1. k + 1 \in 0 .. n /\ k + 1 # 0 /\ (k + 1) - 1 = k
    BY <1>1
  <2>2. walk[k + 1] = Onward(walk[(k + 1) - 1])
    BY <1>9, <2>1, Zenon
  <2>3. walk[k + 1] = Onward(walk[k])
    BY <2>1, <2>2
  <2>4. walk[k] \in Walks(v)
    BY <1>11 DEF S
  <2>5. walk[k + 1] \in Walks(v)
    BY <2>3, <2>4, OnwardWalks
  <2>6. \/ walk[k + 1] = << >>
        \/ walk[k + 1] = walk[k] /\ entry[Last(walk[k])].act # "forward"
        \/ Len(walk[k + 1]) = Len(walk[k]) + 1
    BY <2>3, <2>4, OnwardWalks
  <2>7. CASE walk[k] = << >> \/ entry[Last(walk[k])].act # "forward"
    <3>1. walk[k + 1] = walk[k]
      BY <2>3, <2>7 DEF Onward
    <3> QED
      BY <2>1, <2>5, <2>7, <3>1 DEF S
  <2>8. CASE ~ (walk[k] = << >> \/ entry[Last(walk[k])].act # "forward")
    <3>1. Len(walk[k]) = k + 1
      BY <1>11, <2>8
    <3>2. walk[k + 1] = << >> \/ Len(walk[k + 1]) = k + 1 + 1
      BY <2>6, <2>8, <3>1
    <3> QED
      BY <2>1, <2>5, <3>2 DEF S
  <2> QED
    BY <2>7, <2>8
<1>12. n \in P
  <2> HIDE DEF P
  <2>1. \A k \in 0 .. n - 1 : k \in P => k + 1 \in P
    BY <1>11
  <2>2. \A k \in 0 .. n : k \in P
    BY <1>1, <1>10, <2>1, Induct
  <2> QED
    BY <1>1, <2>2
<1>13. walk[n] = CurrentRoute(v) /\ Len(walk[n]) # 1 /\ walk[n] # << >>
  BY <1>2
<1>14. walk[n] \in Walks(v) /\ Len(walk[n]) <= n
  <2>1. walk[n] \in Walks(v)
    BY <1>12 DEF S
  <2> QED
    BY <1>13, <2>1, WalkIsRoad DEF n
<1>15. entry[Last(walk[n])].act # "forward"
  BY <1>1, <1>12, <1>13, <1>14
<1>16. Len(walk[n]) > 1
  <2>1. walk[n] \in Seq(Nodes) /\ Len(walk[n]) # 1 /\ walk[n] # << >>
    BY <1>13, <1>14 DEF Walks
  <2>2. Len(walk[n]) \in Nat /\ Len(walk[n]) # 0
    BY <2>1
  <2>3. \A l \in Nat : l # 0 /\ l # 1 => l > 1
    OBVIOUS
  <2> QED
    BY <2>1, <2>2, <2>3, Zenon
<1> QED
  BY <1>13, <1>14, <1>15, <1>16

\* A road weighs what it weighs as a list from its source on.
LEMMA BackWeighs ==
  ASSUME NEW g, Ringed(g), IsFiniteSet(Nodes), NEW n \in Nat \ {0}, NEW p, Road(n, p),
         Linked(g, p), NEW r, Len(r) = n + 1, \A k \in 0 .. n : p[k] = r[(n + 1) - k]
  PROVE  Weighs(g, p) = WeightOf(g, r)
<1> DEFINE f == [i \in 1 .. n |-> EdgeWeight(g, r[i], r[i + 1])]
<1>1. PICK h : Sums(g, n, p, h) /\ Weighs(g, p) = h[n] /\ Weighs(g, p) \in Nat
  BY SumsOf
<1> DEFINE s == [k \in 0 .. n |-> h[n] - h[n - k]]
<1>2. /\ h \in [0 .. n -> Nat] /\ h[0] = 0
      /\ \A k \in 1 .. n : h[k] = h[k - 1] + EdgeWeight(g, p[k], p[k - 1])
  BY <1>1 DEF Sums
<1>3. \A k \in 0 .. n : n - k \in 0 .. n /\ s[k] = h[n] - h[n - k]
  OBVIOUS
<1>4. \A i \in 1 .. n : f[i] = EdgeWeight(g, r[i], r[i + 1])
  OBVIOUS
<1>5. s[0] = 0 /\ s[n] = h[n]
  <2>1. n - 0 = n /\ n - n = 0 /\ 0 \in 0 .. n /\ n \in 0 .. n
    OBVIOUS
  <2>2. s[0] = h[n] - h[n] /\ s[n] = h[n] - h[0] /\ h[n] \in Nat
    BY <1>2, <1>3, <2>1
  <2> HIDE DEF s
  <2> QED
    BY <1>2, <2>2
<1>6. s = [k \in 0 .. n |-> s[k]]
  OBVIOUS
<1> HIDE DEF s, f
<1>7. ASSUME NEW k \in 1 .. n PROVE s[k] = s[k - 1] + f[k]
  <2> DEFINE j == (n + 1) - k
  <2>1. /\ j \in 1 .. n /\ j - 1 = n - k /\ n - (k - 1) = j /\ k \in 0 .. n /\ k - 1 \in 0 .. n
        /\ (n + 1) - j = k /\ (n + 1) - (j - 1) = k + 1 /\ j \in 0 .. n /\ j - 1 \in 0 .. n
    OBVIOUS
  <2>2. p[j] = r[k] /\ p[j - 1] = r[k + 1]
    <3>1. p[j] = r[(n + 1) - j] /\ p[j - 1] = r[(n + 1) - (j - 1)]
      BY <2>1
    <3> HIDE DEF j
    <3> QED
      BY <2>1, <3>1
  <2> HIDE DEF j
  <2>3. h[j] = h[j - 1] + EdgeWeight(g, r[k], r[k + 1])
    BY <1>2, <2>1, <2>2
  <2>4. f[k] = EdgeWeight(g, r[k], r[k + 1])
    BY <1>4
  <2>5. s[k] = h[n] - h[j - 1] /\ s[k - 1] = h[n] - h[j]
    BY <1>3, <2>1
  <2>6. h[n] \in Nat /\ h[j] \in Nat /\ h[j - 1] \in Nat
    BY <1>2, <2>1
  <2>7. f[k] \in Int
    <3>1. p[j] \in Nodes /\ j \in DOMAIN p /\ j # 0
      BY <2>1 DEF Road
    <3>2. EdgeWeight(g, p[j], p[j - 1]) \in 1 .. MaxWeight
      BY <3>1, EdgeTyped DEF Linked
    <3> QED
      BY <2>2, <2>4, <3>2, MaxWeightAssumption
  <2> QED
    BY <2>3, <2>4, <2>5, <2>6, <2>7
<1>8. \A k \in 0 .. n : s[k] = IF k = 0 THEN 0 ELSE s[k - 1] + f[k]
  <2>1. \A k \in 0 .. n : k # 0 => k \in 1 .. n
    OBVIOUS
  <2> QED
    BY <1>5, <1>7, <2>1
<1>9. s = [k \in 0 .. n |-> IF k = 0 THEN 0 ELSE s[k - 1] + f[k]]
  BY <1>6, <1>8
<1>10. SumUpto(f, n) = s[n]
  BY <1>9, SumUptoIs
<1>11. WeightOf(g, r) = SumUpto(f, n)
  <2>1. Len(r) - 1 = n
    OBVIOUS
  <2> QED
    BY <2>1 DEF WeightOf, f
<1> QED
  BY <1>1, <1>5, <1>10, <1>11

\* The route p is in use from v, and weighs w.
InUse(v, p, w) ==
  /\ Source(p) = v /\ p[0] \in ToSet(targets) /\ Follows(entry, p) /\ Linked(graph, p)
  /\ Weighs(graph, p) = w

\* A route that the entries give and that stands leads to a target.
LEMMA CurrentLeads ==
  ASSUME Kept, Legal, NEW v \in Nodes, CurrentRoute(v) # << >>,
         Stands(graph, CurrentRoute(v))
  PROVE  \E p \in Paths : InUse(v, p, WeightOf(graph, CurrentRoute(v)))
<1> DEFINE r == CurrentRoute(v)
           n == Len(r) - 1
           p == [k \in 0 .. n |-> r[(n + 1) - k]]
<1>1. r \in Walks(v) /\ Len(r) > 1 /\ entry[Last(r)].act # "forward" /\ r # << >>
  BY CurrentRouteIs
<1>2. r \in Seq(Nodes) /\ r[1] = v /\ Walked(r)
  BY <1>1 DEF Walks
<1>3. \A i, j \in 1 .. Len(r) : r[i] = r[j] => i = j
  BY <1>1, WalkIsRoad
<1>4. \A i \in 1 .. Len(r) - 1 : HasEdge(graph, r[i], r[i + 1])
  BY DEF Stands
<1> HIDE DEF r
<1>5. n \in Nat \ {0} /\ Len(r) = n + 1
  <2>1. Len(r) \in Nat /\ Len(r) > 1
    BY <1>1, <1>2
  <2>2. \A l \in Nat : l > 1 => l - 1 \in Nat \ {0} /\ l = (l - 1) + 1
    OBVIOUS
  <2> QED
    BY <2>1, <2>2, Zenon
<1> HIDE DEF n
<1>6. \A k \in 0 .. n : (n + 1) - k \in 1 .. n + 1 /\ p[k] = r[(n + 1) - k]
  BY <1>5
<1>7. p \in [0 .. n -> Nodes]
  BY <1>2, <1>5, <1>6
<1> HIDE DEF p
<1>8. ASSUME NEW i \in 0 .. n, NEW j \in 0 .. n, p[i] = p[j] PROVE i = j
  <2>1. (n + 1) - i = (n + 1) - j
    BY <1>3, <1>5, <1>6, <1>8
  <2> QED
    BY <1>5, <2>1
<1>9. Road(n, p)
  BY <1>7, <1>8 DEF Road
<1>10. p[n] = v /\ p[0] = r[n + 1]
  <2>1. n \in 0 .. n /\ 0 \in 0 .. n /\ (n + 1) - n = 1 /\ (n + 1) - 0 = n + 1
    BY <1>5
  <2>2. p[n] = r[(n + 1) - n] /\ p[0] = r[(n + 1) - 0]
    BY <1>6, <2>1
  <2> QED
    BY <1>2, <2>1, <2>2
<1>11. ASSUME NEW k \in 1 .. n
       PROVE  /\ HasEdge(graph, p[k], p[k - 1])
              /\ entry[p[k]].act = "forward" /\ entry[p[k]].next = p[k - 1]
  <2> DEFINE i == (n + 1) - k
  <2>1. /\ k \in 0 .. n /\ k - 1 \in 0 .. n /\ i \in 1 .. Len(r) - 1
        /\ (n + 1) - (k - 1) = i + 1
    BY <1>5
  <2>2. p[k] = r[i] /\ p[k - 1] = r[i + 1]
    BY <1>6, <2>1
  <2> HIDE DEF i
  <2> QED
    BY <1>2, <1>4, <2>1, <2>2 DEF Walked
<1>12. p[0] \in ToSet(targets)
  <2>1. 1 \in 1 .. n /\ 1 - 1 = 0 /\ n \in 1 .. Len(r) - 1
    BY <1>5
  <2>2. entry[p[1]].act = "forward" /\ entry[p[1]].next = p[0]
    BY <1>11, <2>1
  <2>3. p[1] \in Nodes
    BY <1>5, <1>7
  <2>4. entry[p[0]].act # "forward"
    BY <1>1, <1>5, <1>10 DEF Last
  <2>5. entry[r[n + 1]].act = "none" \/ entry[r[n + 1]].act = "forward"
    BY <1>2, <2>1 DEF Walked
  <2> QED
    BY <1>10, <2>2, <2>3, <2>4, <2>5 DEF Legal, Lawful
<1>13. p \in Paths /\ DOMAIN p = 0 .. n /\ Source(p) = p[n]
  BY <1>5, <1>9, RoadIsPath, RoadSource, RoutesAssumption
<1>14. \A i \in DOMAIN p : i # 0 => i \in 1 .. n
  BY <1>5, <1>13
<1>15. Linked(graph, p) /\ Follows(entry, p)
  BY <1>11, <1>14 DEF Linked, Follows
<1>16. Weighs(graph, p) = WeightOf(graph, r)
  BY <1>5, <1>6, <1>9, <1>15, BackWeighs, RoutesAssumption DEF Kept, IsGraph
<1>17. InUse(v, p, WeightOf(graph, r))
  BY <1>10, <1>12, <1>13, <1>15, <1>16 DEF InUse
<1> QED
  BY <1>13, <1>17 DEF r

\* The routes the search gives are routes over links, from where it began.
LEMMA RouteIsWay ==
  ASSUME Kept, NEW v \in Nodes, NEW t, NEW p \in RoutesTo(Labels(graph, v), t)
  PROVE  \E n \in Nat \ {0} : /\ Road(n, p) /\ Hops(p) = n /\ DOMAIN p = 0 .. n
                              /\ p[0] = t /\ p[n] = v /\ Linked(graph, p)
<1> DEFINE labels == Labels(graph, v)
<1>0. IsFiniteSet(Nodes) /\ Ringed(graph)
  BY RoutesAssumption DEF Kept, IsGraph
<1>1. Ready(graph, v, labels)
  BY <1>0, LabelsReady
<1> HIDE DEF labels
<1>2. /\ p \in Paths /\ p[0] = t
      /\ \A i \in DOMAIN p : labels.root[p[i]] = IF i = Hops(p) THEN None ELSE p[i + 1]
  BY DEF RoutesTo, labels
<1>3. PICK n \in Nat \ {0} : Road(n, p) /\ Hops(p) = n /\ DOMAIN p = 0 .. n
  BY <1>0, <1>2, PathIsRoad
<1>4. p \in [0 .. n -> Nodes]
  BY <1>3 DEF Road
<1>5. ASSUME NEW i \in 1 .. n
      PROVE  HasEdge(graph, p[i], p[i - 1]) /\ (p[i] = v \/ labels.root[p[i]] # None)
  <2>1. i - 1 \in 0 .. n /\ i - 1 # n /\ (i - 1) + 1 = i /\ i \in 0 .. n
    BY <1>3
  <2>2. labels.root[p[i - 1]] = p[i]
    BY <1>2, <1>3, <2>1
  <2>3. p[i] # None /\ p[i - 1] \in Nodes
    BY <1>4, <2>1, NoneAssumption
  <2>4. HasEdge(graph, labels.root[p[i - 1]], p[i - 1])
    BY <1>0, <1>1, <2>2, <2>3, RootIsLighter
  <2>5. labels.root[p[i - 1]] = v \/ labels.root[labels.root[p[i - 1]]] # None
    BY <1>0, <1>1, <2>2, <2>3, RootIsLighter
  <2> QED
    BY <2>2, <2>4, <2>5
<1>6. p[n] = v
  <2>1. n \in 1 .. n /\ n \in 0 .. n
    BY <1>3
  <2>2. labels.root[p[n]] = None
    BY <1>2, <1>3, <2>1
  <2> QED
    BY <1>5, <2>1, <2>2
<1>7. Linked(graph, p)
  <2>1. \A i \in DOMAIN p : i # 0 => i \in 1 .. n
    BY <1>3
  <2> QED
    BY <1>5, <2>1 DEF Linked
<1> QED
  BY <1>2, <1>3, <1>6, <1>7

\* The search gives a target the weight of each route it gives to it.
LEMMA RouteWeighs ==
  ASSUME Kept, NEW v \in Nodes, NEW t \in Nodes, NEW p \in RoutesTo(Labels(graph, v), t)
  PROVE  /\ Weighs(graph, p) = RouteWeight(Labels(graph, v), t, v)
         /\ RouteWeight(Labels(graph, v), t, v) = Labels(graph, v).weight[t]
<1> DEFINE labels == Labels(graph, v)
<1>0. IsFiniteSet(Nodes) /\ Ringed(graph)
  BY RoutesAssumption DEF Kept, IsGraph
<1>1. Ready(graph, v, labels)
  BY <1>0, LabelsReady
<1>2. PICK n \in Nat \ {0} : /\ Road(n, p) /\ Hops(p) = n /\ DOMAIN p = 0 .. n
                             /\ p[0] = t /\ p[n] = v /\ Linked(graph, p)
  BY RouteIsWay
<1>3. \A i \in DOMAIN p : labels.root[p[i]] = IF i = Hops(p) THEN None ELSE p[i + 1]
  BY DEF RoutesTo
<1> HIDE DEF labels
<1>4. \A i \in 0 .. n - 1 : labels.root[p[i]] = p[i + 1]
  <2>1. \A i \in 0 .. n - 1 : i \in 0 .. n /\ i # n
    BY <1>2
  <2> QED
    BY <1>2, <1>3, <2>1
<1>5. LeadsBack(labels, v, t, n, p)
  BY <1>2, <1>4 DEF LeadsBack
<1>6. Weighs(graph, p) = labels.weight[t]
  BY <1>0, <1>1, <1>2, <1>5, TraceWeighs
<1>7. labels.weight[v] = 0 /\ labels.weight \in [Nodes -> Nat]
  BY <1>1 DEF Ready, Labelled, Searches
<1>8. RouteWeight(labels, t, v) = labels.weight[t]
  BY <1>7 DEF RouteWeight
<1> QED
  BY <1>6, <1>8 DEF labels

\* A target to which there is a way has been found.
LEMMA WayIsFound ==
  ASSUME Kept, NEW v \in Nodes, NEW q \in Paths, Source(q) = v, q[0] \in ToSet(targets),
         Linked(graph, q)
  PROVE  \E j \in Found(Labels(graph, v)) : targets[j] = q[0]
<1> DEFINE labels == Labels(graph, v)
<1>0. IsFiniteSet(Nodes) /\ Ringed(graph)
  BY RoutesAssumption DEF Kept, IsGraph
<1>1. Ready(graph, v, labels) /\ labels.queue = << >>
  BY <1>0, LabelsReady
<1> HIDE DEF labels
<1>4. PICK n \in Nat \ {0} : Road(n, q) /\ Hops(q) = n /\ DOMAIN q = 0 .. n
  BY <1>0, PathIsRoad
<1>5. q[n] = v
  BY <1>4 DEF Source
<1>6. \A i \in 1 .. n : HasEdge(graph, q[i], q[i - 1])
  <2>1. \A i \in 1 .. n : i \in DOMAIN q /\ i # 0
    BY <1>4
  <2> QED
    BY <2>1 DEF Linked
<1>7. labels.root[q[0]] # None
  BY <1>0, <1>1, <1>4, <1>5, <1>6, ReachedIsRooted
<1>8. PICK i \in DOMAIN targets : q[0] = targets[i]
  BY DEF ToSet
<1>9. i \in Found(labels)
  BY <1>7, <1>8 DEF Found
<1> QED
  BY <1>8, <1>9 DEF labels

\* Where the search is exact no way is better than the route it takes.
LEMMA BestIs ==
  ASSUME Kept, NEW v \in Nodes, NEW i \in DOMAIN targets, Better(Labels(graph, v), i),
         ExactFor(graph), NEW q \in Paths, Source(q) = v, q[0] \in ToSet(targets),
         Linked(graph, q)
  PROVE  /\ Labels(graph, v).weight[targets[i]] \in Nat /\ Weighs(graph, q) \in Nat
         /\ Labels(graph, v).weight[targets[i]] <= Weighs(graph, q)
<1> DEFINE w == Labels(graph, v).weight
<1>0. IsFiniteSet(Nodes) /\ Ringed(graph) /\ targets \in Seq(Nodes)
  BY RoutesAssumption DEF Kept, IsGraph
<1>1. w \in [Nodes -> Nat]
  BY <1>0, LabelsReady DEF Ready, Searches
<1>2. PICK j \in Found(Labels(graph, v)) : targets[j] = q[0]
  BY WayIsFound
<1>3. j \in DOMAIN targets
  BY DEF Found
<1>4. w[targets[i]] \in Nat /\ w[targets[j]] \in Nat
  BY <1>0, <1>1, <1>3
<1>5. w[targets[i]] <= w[targets[j]]
  BY <1>4 DEF Better
<1>6. w[q[0]] <= Weighs(graph, q)
  BY DEF ExactFor
<1>7. Weighs(graph, q) \in Nat
  <2>1. PICK n \in Nat \ {0} : Road(n, q) /\ Hops(q) = n /\ DOMAIN q = 0 .. n
    BY <1>0, PathIsRoad
  <2>2. \E h : Sums(graph, n, q, h) /\ Weighs(graph, q) = h[n] /\ Weighs(graph, q) \in Nat
    BY <1>0, <2>1, SumsOf
  <2> QED
    BY <2>2
<1> HIDE DEF w
<1>8. w[targets[i]] <= Weighs(graph, q)
  BY <1>2, <1>4, <1>5, <1>6, <1>7
<1> QED
  BY <1>4, <1>7, <1>8 DEF w

\* If the search finds no target there is no way to one.
LEMMA NotFound ==
  ASSUME Kept, NEW v \in Nodes, Found(Labels(graph, v)) = {}
  PROVE  ~ Way(graph, ToSet(targets), v)
BY WayIsFound DEF Way

\* What a step makes of the entries it leaves to forward as they did.
LEMMA WeightChanges ==
  ASSUME Shaped, NEW v \in Nodes, NEW w, NEW E, E = [entry EXCEPT ![v].weight = w]
  PROVE  \A u \in Nodes : /\ Alike(entry, E, u)
                          /\ E[u].hops = entry[u].hops
                          /\ E[u].changed = entry[u].changed
<1>1. \A u \in Nodes : E[u] = IF u = v THEN [entry[v] EXCEPT !.weight = w] ELSE entry[u]
  BY DEF Shaped
<1>2. [entry[v] EXCEPT !.weight = w] =
        [act |-> entry[v].act, next |-> entry[v].next, weight |-> w,
         hops |-> entry[v].hops, changed |-> entry[v].changed]
  BY WeightOnly DEF Shaped
<1> QED
  BY <1>1, <1>2 DEF Alike

\* What writing a route makes of all entries.
LEMMA WrittenIs ==
  ASSUME NEW n \in Nat \ {0}, NEW p, Road(n, p), NEW labels
  PROVE  /\ \A u \in Nodes : (\A i \in 1 .. n : p[i] # u) => Written(p, labels)[u] = entry[u]
         /\ \A i \in 1 .. n : /\ Written(p, labels)[p[i]].act = "forward"
                              /\ Written(p, labels)[p[i]].next = p[i - 1]
                              /\ Written(p, labels)[p[i]].hops = i
<1>0. p \in [0 .. n -> Nodes] /\ DOMAIN p = 0 .. n
      /\ \A i, j \in 0 .. n : p[i] = p[j] => i = j
  BY DEF Road
<1>1. \A i \in 1 .. n : i \in DOMAIN p /\ i # 0 /\ p[i] \in Nodes
  BY <1>0
<1>2. \A i \in DOMAIN p : i # 0 => i \in 1 .. n
  BY <1>0
<1>3. ASSUME NEW u \in Nodes, \A i \in 1 .. n : p[i] # u
      PROVE  Written(p, labels)[u] = entry[u]
  <2>1. ~ \E i \in DOMAIN p : i # 0 /\ p[i] = u
    BY <1>2, <1>3
  <2> QED
    BY <2>1 DEF Written
<1>4. ASSUME NEW i \in 1 .. n
      PROVE  /\ Written(p, labels)[p[i]].act = "forward"
             /\ Written(p, labels)[p[i]].next = p[i - 1]
             /\ Written(p, labels)[p[i]].hops = i
  <2> DEFINE k == CHOOSE k \in DOMAIN p : k # 0 /\ p[k] = p[i]
  <2>1. k \in DOMAIN p /\ p[k] = p[i]
    BY <1>1
  <2>2. k = i
    BY <1>0, <1>1, <2>1
  <2> QED
    BY <1>1, <2>2 DEF Written
<1> QED
  BY <1>3, <1>4

LEMMA RouteKeepsLegal ==
  ASSUME Kept, Shaped, Legal, NEW v \in Nodes, Route(v), targets' = targets
  PROVE  Legal'
<1> DEFINE T == ToSet(targets)
<1>0. ToSet(targets') = T /\ ToSet(targets)' = T
  OBVIOUS
<1> HIDE DEF T
<1>00. Legal' <=> \A u \in Nodes : Lawful(entry', T, u)
  BY <1>0 DEF Legal
<1>1. ASSUME \A u \in Nodes : Alike(entry, entry', u) /\ entry'[u].hops = entry[u].hops
      PROVE  Legal'
  BY <1>00, <1>1 DEF Legal, Lawful, Alike, T
<1>2. CASE GiveUp(v)
  <2>1. CASE entry' = entry
    BY <1>1, <2>1 DEF Alike
  <2>2. CASE entry' = [entry EXCEPT ![v] = IF @.act = "drop" THEN @ ELSE Dropped(v)]
    <3>1. \A u \in Nodes : entry'[u] = IF u = v /\ entry[v].act # "drop"
                                       THEN Dropped(v) ELSE entry[u]
      BY <2>2 DEF Shaped
    <3>2. Dropped(v).act = "drop" /\ Dropped(v).hops = MaxHops
      BY DEF Dropped
    <3>3. \A u \in Nodes : entry[u].act # "none" => entry'[u].act # "none"
      BY <3>1, <3>2
    <3> QED
      BY <1>00, <3>1, <3>2, <3>3 DEF Legal, Lawful, Actions, T
  <2> QED
    BY <1>2, <2>1, <2>2 DEF GiveUp
<1>3. ASSUME NEW labels, NEW i \in DOMAIN targets, labels = Labels(graph, v),
             NEW p \in RoutesTo(labels, targets[i]), Configure(v, p, labels)
      PROVE  Legal'
  <2>1. CASE entry' = entry
    BY <1>1, <2>1 DEF Alike
  <2>2. ASSUME NEW w, entry' = [entry EXCEPT ![v].weight = w]
        PROVE  Legal'
    <3>1. \A u \in Nodes : Alike(entry, entry', u)
      BY <2>2, WeightChanges
    <3>2. \A u \in Nodes : entry'[u].hops = entry[u].hops
      BY <2>2, WeightChanges
    <3> QED
      BY <1>1, <3>1, <3>2
  <2>3. CASE entry' = Written(p, labels)
    <3>1. PICK n \in Nat \ {0} : Road(n, p) /\ Hops(p) = n /\ p[0] = targets[i]
      BY <1>3, RouteIsWay
    <3>2. \A u \in Nodes : (\A j \in 1 .. n : p[j] # u) => entry'[u] = entry[u]
      BY <2>3, <3>1, WrittenIs
    <3>3. \A j \in 1 .. n : /\ entry'[p[j]].act = "forward"
                            /\ entry'[p[j]].next = p[j - 1]
                            /\ entry'[p[j]].hops = j
      BY <2>3, <3>1, WrittenIs
    <3>4. n <= MaxHops
      <4>1. p \in Paths
        BY <3>1, RoadIsPath, RoutesAssumption
      <4>2. n \in 1 .. Cardinality(Nodes) - 1
        <5>1. PICK m \in 1 .. Cardinality(Nodes) - 1 : p \in [0 .. m -> Nodes]
          BY <4>1 DEF Paths
        <5>2. 0 .. m = 0 .. n
          BY <3>1, <5>1 DEF Road
        <5>3. n \in 0 .. m /\ m \in 0 .. n
          BY <3>1, <5>1, <5>2
        <5> QED
          BY <5>1, <5>3
      <4>3. Cardinality(Nodes) \in Nat /\ Cardinality(Nodes) <= MaxHops
        BY RoutesAssumption, FS_CardinalityType
      <4> QED
        BY <4>2, <4>3, MaxHopsIsNat
    <3>5. p[0] \in T
      BY <3>1 DEF T, ToSet
    <3>6. \A u \in Nodes : entry[u].act # "none" => entry'[u].act # "none"
      BY <3>2, <3>3
    <3>7. ASSUME NEW u \in Nodes
          PROVE  Lawful(entry', T, u)
      <4>1. CASE \A j \in 1 .. n : p[j] # u
        BY <3>2, <3>6, <4>1 DEF Legal, Lawful, T
      <4>2. CASE \E j \in 1 .. n : p[j] = u
        <5>1. PICK j \in 1 .. n : p[j] = u
          BY <4>2
        <5>2. j - 1 \in 0 .. n /\ (j - 1 = 0 \/ j - 1 \in 1 .. n)
          BY <3>1
        <5>3. p[j - 1] \in Nodes
          BY <3>1, <5>2 DEF Road
        <5>4. j \in 0 .. MaxHops
          BY <3>1, <3>4, MaxHopsIsNat
        <5>5. p[j - 1] \in T \/ entry'[p[j - 1]].act # "none"
          BY <3>3, <3>5, <5>2
        <5>6. entry'[u].act = "forward" /\ entry'[u].next = p[j - 1] /\ entry'[u].hops = j
          BY <3>3, <5>1
        <5> QED
          BY <5>3, <5>4, <5>5, <5>6 DEF Actions, Lawful
      <4> QED
        BY <4>1, <4>2
    <3> QED
      BY <1>00, <3>7
  <2> QED
    BY <1>3, <2>1, <2>2, <2>3 DEF Configure
<1> QED
  BY <1>2, <1>3 DEF Route

\* What one look for a route from v is good for, by the links of a graph g
\* with the edges of this one: v is served, and so is who is new in the list
\* or newly marked; who was served stays it.
Improves(g, E, F, v, old, new) ==
  LET Was(u) == Fine(kind, graph, ToSet(targets), E, u)
      Is(u)  == Fine(kind, g, ToSet(targets), F, u)
  IN /\ Is(v)
     /\ \A u \in Nodes : Was(u) => Is(u)
     /\ \A u \in Nodes : ~ E[u].changed /\ F[u].changed => Is(u)
     /\ \E t \in Seq(Nodes) : new = old \o t /\ \A i \in 1 .. Len(t) : Is(t[i])

LEMMA GiveUpServes ==
  ASSUME Kept, Shaped, NEW v \in Nodes, Found(Labels(graph, v)) = {}, GiveUp(v)
  PROVE  Improves(graph, entry, entry', v, order, order')
<1> DEFINE T == ToSet(targets)
           Is(u) == Fine(kind, graph, T, entry', u)
<1>0. IsFiniteSet(Nodes)
  BY RoutesAssumption
<1>1. ~ Way(graph, T, v)
  BY NotFound
<1>2. \A u \in Nodes : entry'[u] = IF u = v /\ entry[v].act # "drop" /\ kind # "controller"
                                   THEN Dropped(v) ELSE entry[u]
  <2>1. CASE kind = "controller"
    BY <2>1 DEF GiveUp
  <2>2. CASE kind # "controller"
    <3>1. entry' = [entry EXCEPT ![v] = IF @.act = "drop" THEN @ ELSE Dropped(v)]
      BY <2>2 DEF GiveUp
    <3> QED
      BY <2>2, <3>1 DEF Shaped
  <2> QED
    BY <2>1, <2>2
<1>3. kind # "controller" => entry'[v].act = "drop"
  BY <1>2 DEF Dropped
<1>4. Is(v)
  <2>1. Near(graph, T, entry', v)
    BY <1>1 DEF Near, Way
  <2> QED
    BY <1>1, <1>3, <2>1 DEF Fine
<1>5. \A u \in Nodes \ {v} : Alike(entry, entry', u) /\ entry'[u] = entry[u]
  BY <1>2 DEF Alike
<1>6. ASSUME NEW u \in Nodes, Fine(kind, graph, T, entry, u) PROVE Is(u)
  <2>1. CASE u = v
    BY <1>4, <2>1
  <2>2. CASE u # v
    <3>1. u \in Nodes \ {v}
      BY <2>2
    <3>2. \A w \in Nodes \ {v} : Alike(entry, entry', w)
      BY <1>5
    <3> HIDE DEF T
    <3> QED
      BY <1>0, <1>1, <1>6, <3>1, <3>2, Unused
  <2> QED
    BY <2>1, <2>2
<1>7. \A u \in Nodes : ~ entry[u].changed /\ entry'[u].changed => Is(u)
  <2> HIDE DEF Is
  <2> QED
    BY <1>4, <1>5
<1>8. \E t \in Seq(Nodes) : order' = order \o t /\ \A i \in 1 .. Len(t) : t[i] = v
  <2>1. order \in Seq(Nodes)
    BY DEF Kept
  <2>2. order' = order \/ order' = Append(order, v)
    BY DEF GiveUp
  <2>3. CASE order' = order
    <3>1. << >> \in Seq(Nodes) /\ order = order \o << >> /\ \A i \in 1 .. Len(<< >>) : << >>[i] = v
      BY <2>1
    <3> QED
      BY <2>3, <3>1
  <2>4. CASE order' = Append(order, v)
    <3>1. <<v>> \in Seq(Nodes) /\ Append(order, v) = order \o <<v>> /\ \A i \in 1 .. Len(<<v>>) : <<v>>[i] = v
      BY <2>1
    <3> QED
      BY <2>4, <3>1
  <2> QED
    BY <2>2, <2>3, <2>4
<1>9. PICK t \in Seq(Nodes) : order' = order \o t /\ \A i \in 1 .. Len(t) : t[i] = v
  BY <1>8
<1>10. \A i \in 1 .. Len(t) : Is(t[i])
  <2> HIDE DEF Is
  <2> QED
    BY <1>4, <1>9
<1> QED
  BY <1>4, <1>6, <1>7, <1>9, <1>10 DEF Improves

LEMMA KeepServes ==
  ASSUME Kept, Shaped, Legal, NEW v \in Nodes, CurrentRoute(v) # << >>,
         Stands(graph, CurrentRoute(v)), NEW w, w = WeightOf(graph, CurrentRoute(v)),
         entry' = [entry EXCEPT ![v].weight = w], order' = order,
         NEW i \in DOMAIN targets, Better(Labels(graph, v), i),
         NEW p \in RoutesTo(Labels(graph, v), targets[i]),
         ~ MuchBetter(RouteWeight(Labels(graph, v), targets[i], v), w)
  PROVE  Improves(graph, entry, entry', v, order, order')
<1> DEFINE T == ToSet(targets)
           Is(u) == Fine(kind, graph, T, entry', u)
           best == Labels(graph, v).weight[targets[i]]
<1>0. IsFiniteSet(Nodes) /\ Ringed(graph) /\ targets[i] \in Nodes
  BY RoutesAssumption DEF Kept, IsGraph
<1>1. PICK r \in Paths : InUse(v, r, w)
  BY CurrentLeads
<1>2. /\ Source(r) = v /\ r[0] \in T /\ Follows(entry, r) /\ Linked(graph, r)
      /\ Weighs(graph, r) = w
  BY <1>1 DEF InUse
<1>3. Leads(graph, T, entry, v)
  BY <1>2 DEF Leads
<1>4. w \in Nat
  <2>1. PICK m \in Nat \ {0} : Road(m, r) /\ Hops(r) = m /\ DOMAIN r = 0 .. m
    BY <1>0, PathIsRoad
  <2>2. \E h : Sums(graph, m, r, h) /\ Weighs(graph, r) = h[m] /\ Weighs(graph, r) \in Nat
    BY <1>0, <1>2, <2>1, SumsOf
  <2> QED
    BY <1>2, <2>2
<1>5. RouteWeight(Labels(graph, v), targets[i], v) = best
  BY <1>0, RouteWeighs
<1>6. ASSUME ExactFor(graph) PROVE Near(graph, T, entry, v)
  <2> SUFFICES ASSUME NEW q \in Paths, Source(q) = v, q[0] \in T, Linked(graph, q)
               PROVE  LeadsIn(graph, T, entry, v, Weighs(graph, q))
    BY DEF Near
  <2>1. best \in Nat /\ Weighs(graph, q) \in Nat
    BY <1>6, BestIs
  <2>2. best <= Weighs(graph, q)
    BY <1>6, BestIs
  <2>3. ~ (3 * best < 2 * w)
    BY <1>5 DEF MuchBetter
  <2> HIDE DEF best
  <2>4. 2 * w <= 3 * Weighs(graph, q)
    BY <1>4, <2>1, <2>2, <2>3
  <2> QED
    BY <1>2, <2>4 DEF LeadsIn
<1>7. Fine(kind, graph, T, entry, v)
  BY <1>3, <1>6, LeadsIsWay DEF Fine
<1>8. \A u \in Nodes : Alike(entry, entry', u)
  BY WeightChanges
<1>9. \A u \in Nodes : entry'[u].changed = entry[u].changed
  BY WeightChanges
<1>10. ASSUME NEW u \in Nodes, Fine(kind, graph, T, entry, u) PROVE Is(u)
  <2> HIDE DEF T
  <2> QED
    BY <1>0, <1>8, <1>10, SameEntries
<1>11. Is(v)
  BY <1>7, <1>10
<1>12. << >> \in Seq(Nodes) /\ order' = order \o << >> /\ 1 .. Len(<< >>) = {}
  BY DEF Kept
<1> QED
  BY <1>9, <1>10, <1>11, <1>12 DEF Improves

LEMMA WriteServes ==
  ASSUME Kept, Shaped, NEW v \in Nodes,
         NEW i \in DOMAIN targets, Better(Labels(graph, v), i),
         NEW p \in RoutesTo(Labels(graph, v), targets[i]),
         NEW labels, entry' = Written(p, labels), order' = Listed(p)
  PROVE  Improves(graph, entry, entry', v, order, order')
<1> DEFINE T == ToSet(targets)
           Is(u) == Fine(kind, graph, T, entry', u)
<1>0. IsFiniteSet(Nodes) /\ Ringed(graph) /\ targets[i] \in Nodes
  BY RoutesAssumption DEF Kept, IsGraph
<1>1. PICK n \in Nat \ {0} : /\ Road(n, p) /\ Hops(p) = n /\ DOMAIN p = 0 .. n
                             /\ p[0] = targets[i] /\ p[n] = v /\ Linked(graph, p)
  BY RouteIsWay
<1>2. \A u \in Nodes : (\A j \in 1 .. n : p[j] # u) => entry'[u] = entry[u]
  BY <1>1, WrittenIs
<1>3. \A j \in 1 .. n : entry'[p[j]].act = "forward" /\ entry'[p[j]].next = p[j - 1]
  BY <1>1, WrittenIs
<1>4. p[0] \in T
  BY <1>1 DEF ToSet
<1>5. Follows(entry', p)
  <2>1. \A j \in DOMAIN p : j # 0 => j \in 1 .. n
    BY <1>1
  <2> QED
    BY <1>3, <2>1 DEF Follows
<1>6. \A u \in Nodes : (\A j \in 1 .. n : p[j] # u) => Alike(entry, entry', u)
  BY <1>2 DEF Alike
<1>a. Weighs(graph, p) = Labels(graph, v).weight[targets[i]]
  BY <1>0, RouteWeighs
<1>b. ASSUME ExactFor(graph), NEW q \in Paths, Source(q) = p[n], q[0] \in T, Linked(graph, q)
      PROVE  Weighs(graph, p) <= Weighs(graph, q)
  BY <1>1, <1>a, <1>b, BestIs
<1>7. ASSUME NEW u \in Nodes, (\E j \in 1 .. n : p[j] = u) \/ Fine(kind, graph, T, entry, u)
      PROVE  Is(u)
  <2> HIDE DEF T
  <2>1. Road(n, p) /\ Linked(graph, p)
    BY <1>1
  <2>2. ExactFor(graph) => \A q \in Paths : Source(q) = p[n] /\ q[0] \in T /\ Linked(graph, q)
                                                => Weighs(graph, p) <= Weighs(graph, q)
    BY <1>b
  <2> QED
    BY <1>0, <1>4, <1>5, <1>6, <1>7, <2>1, <2>2, WrittenServes
<1>8. \A j \in 1 .. n : p[j] \in Nodes
  BY <1>1 DEF Road
<1> HIDE DEF Is
<1>9. Is(v)
  <2>1. n \in 1 .. n
    OBVIOUS
  <2> QED
    BY <1>1, <1>7, <2>1
<1>10. \A u \in Nodes : ~ entry[u].changed /\ entry'[u].changed => Is(u)
  <2> SUFFICES ASSUME NEW u \in Nodes, ~ entry[u].changed, entry'[u].changed PROVE Is(u)
    OBVIOUS
  <2>1. ~ \A j \in 1 .. n : p[j] # u
    BY <1>2
  <2> QED
    BY <1>7, <2>1
<1>11. \E t \in Seq(Nodes) : order' = order \o t /\ \A k \in 1 .. Len(t) : Is(t[k])
  <2>0. p \in Paths /\ order \in Seq(Nodes)
    BY <1>0, <1>1, RoadIsPath DEF Kept
  <2>1. PICK t \in Seq(Nodes) :
           /\ Listed(p) = order \o t
           /\ \A k \in 1 .. Len(t) :
                 entry[t[k]].act = "none" /\ \E j \in DOMAIN p : j # 0 /\ p[j] = t[k]
    BY <2>0, ListedIs
  <2>2. ASSUME NEW k \in 1 .. Len(t) PROVE Is(t[k])
    <3>1. PICK j \in DOMAIN p : j # 0 /\ p[j] = t[k]
      BY <2>1
    <3>2. j \in 1 .. n
      BY <1>1, <3>1
    <3>3. t[k] \in Nodes
      BY <1>8, <3>1, <3>2
    <3> QED
      BY <1>7, <3>1, <3>2, <3>3
  <2> QED
    BY <2>1, <2>2
<1> QED
  BY <1>7, <1>9, <1>10, <1>11 DEF Improves, Is

LEMMA RouteServes ==
  ASSUME Kept, Shaped, Legal, NEW v \in Nodes, Route(v), graph' = Searched(v), ~ crashed'
  PROVE  Improves(graph', entry, entry', v, order, order')
<1>1. Improves(graph, entry, entry', v, order, order')
  <2>1. CASE Found(Labels(graph, v)) = {} /\ GiveUp(v)
    BY <2>1, GiveUpServes
  <2>2. ASSUME NEW i \in DOMAIN targets, Better(Labels(graph, v), i),
               NEW p \in RoutesTo(Labels(graph, v), targets[i]),
               Configure(v, p, Labels(graph, v))
        PROVE  Improves(graph, entry, entry', v, order, order')
    <3> DEFINE labels == Labels(graph, v)
               current == CurrentRoute(v)
               weight == WeightOf(graph, current)
               keeps == /\ current # << >>
                        /\ Stands(graph, current)
                        /\ ~ MuchBetter(RouteWeight(labels, p[0], v), weight)
    <3>0. p[0] = targets[i]
      BY DEF RoutesTo
    <3>1. /\ entry' = IF keeps THEN [entry EXCEPT ![v].weight = weight] ELSE Written(p, labels)
          /\ order' = IF keeps THEN order ELSE Listed(p)
      BY <2>2 DEF Configure
    <3>2. CASE keeps
      <4>1. entry' = [entry EXCEPT ![v].weight = weight] /\ order' = order
        BY <3>1, <3>2
      <4>2. current # << >> /\ Stands(graph, current)
        BY <3>2
      <4>3. ~ MuchBetter(RouteWeight(labels, targets[i], v), weight)
        BY <3>0, <3>2
      <4> HIDE DEF weight
      <4>4. weight = WeightOf(graph, CurrentRoute(v))
        BY DEF weight
      <4> QED
        BY <2>2, <4>1, <4>2, <4>3, <4>4, KeepServes
    <3>3. CASE ~ keeps
      <4>1. entry' = Written(p, labels) /\ order' = Listed(p)
        BY <3>1, <3>3
      <4> HIDE DEF labels
      <4> QED
        BY <2>2, <4>1, WriteServes
    <3> QED
      BY <3>2, <3>3
  <2> QED
    BY <2>1, <2>2 DEF Route
<1>2. /\ graph'.ring = graph.ring /\ Ringed(graph) /\ Ringed(graph')
      /\ IsFiniteSet(Nodes)
  BY SearchedKeeps, RoutesAssumption DEF Kept, IsGraph
<1>3. \A u \in Nodes : Fine(kind, graph, ToSet(targets), entry', u)
                         => Fine(kind, graph', ToSet(targets), entry', u)
  BY <1>2, SameLinks
<1>4. PICK t \in Seq(Nodes) :
         /\ order' = order \o t
         /\ \A i \in 1 .. Len(t) : Fine(kind, graph, ToSet(targets), entry', t[i])
  BY <1>1 DEF Improves
<1>5. \A i \in 1 .. Len(t) : t[i] \in Nodes
  OBVIOUS
<1>6. \A i \in 1 .. Len(t) : Fine(kind, graph', ToSet(targets), entry', t[i])
  BY <1>3, <1>4, <1>5
<1> QED
  BY <1>1, <1>3, <1>4, <1>6 DEF Improves

\* Between passes everybody in the list is served; during a pass whom it has
\* come by, and whose entry it has changed ahead of itself.
Served(v) == Fine(kind, graph, ToSet(targets), entry, v)

Checked(i) == pass = 0 \/ i < pass \/ entry[order[i]].changed

Serving ==
  ~ crashed /\ ~ silent => \A i \in DOMAIN order : Checked(i) => Served(order[i])

Unmarked == pass = 0 => \A v \in Nodes : ~ entry[v].changed

RInv ==
  /\ IInv /\ Kept /\ Legal
  /\ pass \in Nat
  /\ Unmarked
  /\ Serving

\* A look for a route from v serves the list on, if it is v that is checked.
LEMMA LookServes ==
  ASSUME RInv, NEW v \in Nodes, Route(v), graph' = Searched(v),
         UNCHANGED <<kind, targets, silent>>, ~ crashed,
         \A i \in DOMAIN order : pass' = 0 \/ i < pass' => Checked(i) \/ order[i] = v
  PROVE  Serving'
<1> SUFFICES ASSUME ~ crashed', ~ silent', NEW i \in DOMAIN order', Checked(i)'
             PROVE  Fine(kind', graph', ToSet(targets'), entry', order'[i])
  BY DEF Serving, Served
<1> DEFINE T == ToSet(targets)
           Is(u) == Fine(kind, graph', T, entry', u)
<1>0. order \in Seq(Nodes) /\ Len(order) \in Nat
  BY DEF RInv, Kept
<1>1. Improves(graph', entry, entry', v, order, order')
  BY RouteServes DEF RInv, IInv
<1>2. PICK t \in Seq(Nodes) : order' = order \o t /\ \A k \in 1 .. Len(t) : Is(t[k])
  BY <1>1 DEF Improves
<1>3. \A j \in DOMAIN order : Checked(j) => Fine(kind, graph, T, entry, order[j])
  BY DEF RInv, Serving, Served
<1>4. Is(order'[i]) => Fine(kind', graph', ToSet(targets'), entry', order'[i])
  OBVIOUS
<1>5. /\ Is(v)
      /\ \A u \in Nodes : Fine(kind, graph, T, entry, u) => Is(u)
      /\ \A u \in Nodes : ~ entry[u].changed /\ entry'[u].changed => Is(u)
  BY <1>1 DEF Improves
<1> HIDE DEF Is, T
<1>6. CASE i \in 1 .. Len(order)
  <2>1. order'[i] = order[i] /\ order[i] \in Nodes /\ i \in DOMAIN order
    BY <1>0, <1>2, <1>6
  <2>2. CASE Checked(i)
    BY <1>3, <1>4, <1>5, <2>1, <2>2
  <2>3. CASE order[i] = v
    BY <1>4, <1>5, <2>1, <2>3
  <2>4. CASE ~ Checked(i) /\ order[i] # v
    <3>1. ~ (pass' = 0 \/ i < pass')
      BY <2>1, <2>4
    <3>2. entry'[order[i]].changed
      BY <2>1, <3>1 DEF Checked
    <3>3. ~ entry[order[i]].changed
      BY <2>4 DEF Checked
    <3> QED
      BY <1>4, <1>5, <2>1, <3>2, <3>3
  <2> QED
    BY <2>2, <2>3, <2>4
<1>7. CASE i \notin 1 .. Len(order)
  <2>0. Len(t) \in Nat /\ DOMAIN order' = 1 .. Len(order) + Len(t)
    BY <1>0, <1>2
  <2>1. i - Len(order) \in 1 .. Len(t) /\ order'[i] = t[i - Len(order)]
    BY <1>0, <1>2, <1>7, <2>0
  <2> QED
    BY <1>2, <1>4, <2>1
<1> QED
  BY <1>6, <1>7

LEMMA InitRInv == Init => RInv
<1> SUFFICES ASSUME Init PROVE RInv
  OBVIOUS
<1>1. IInv /\ Kept
  BY InitIInv, InitKept
<1>2. \A v \in Nodes : entry[v] = NoEntry
  BY DEF Init
<1>3. Legal
  BY <1>2 DEF Legal, Lawful, NoEntry, Actions
<1>4. pass = 0 /\ Unmarked
  BY <1>2 DEF Init, Unmarked, NoEntry
<1>5. Serving
  BY DEF Init, Serving
<1> QED
  BY <1>1, <1>3, <1>4, <1>5 DEF RInv

LEMMA NextRInv == RInv /\ [Next]_vars => RInv'
<1> SUFFICES ASSUME RInv, [Next]_vars PROVE RInv'
  OBVIOUS
<1>0. IInv' /\ Kept'
  BY NextIInv, NextKept DEF RInv
<1>a. /\ Shaped /\ Kept /\ Legal /\ pass \in Nat /\ Unmarked /\ Serving
      /\ order \in Seq(Nodes) /\ Len(order) \in Nat /\ IsFiniteSet(Nodes)
  BY RoutesAssumption DEF RInv, IInv, Kept
<1>b. ASSUME Legal', pass' \in Nat, Unmarked', Serving' PROVE RInv'
  BY <1>0, <1>b DEF RInv
<1>c. ASSUME UNCHANGED <<entry, targets>> PROVE Legal'
  BY <1>a, <1>c DEF Legal
<1>d. ASSUME pass' = 1, UNCHANGED <<entry, order>>, pass = 0
      PROVE  pass' \in Nat /\ Unmarked' /\ Serving'
  <2>1. \A v \in Nodes : ~ entry[v].changed
    BY <1>a, <1>d DEF Unmarked
  <2>2. ASSUME NEW i \in DOMAIN order PROVE ~ Checked(i)'
    <3>1. i \in Nat \ {0} /\ order[i] \in Nodes
      BY <1>a
    <3>2. ~ (i < 1) /\ pass' # 0
      BY <1>d, <3>1
    <3> QED
      BY <1>d, <2>1, <3>1, <3>2 DEF Checked
  <2> QED
    BY <1>d, <2>2 DEF Unmarked, Serving
<1>e. ASSUME NEW v \in Nodes, Route(v), UNCHANGED targets PROVE Legal'
  BY <1>a, <1>e, RouteKeepsLegal
<1>1. ASSUME UNCHANGED vars PROVE RInv'
  <2>1. Legal' /\ pass' \in Nat /\ Unmarked'
    BY <1>1, <1>a, <1>c DEF vars, Unmarked
  <2>2. Serving'
    BY <1>1, <1>a DEF vars, Serving, Served, Checked
  <2> QED
    BY <1>b, <2>1, <2>2
<1>2. ASSUME NEW r \in Reports, Report(r) PROVE RInv'
  <2>1. /\ pass = 0 /\ ~ crashed
        /\ UNCHANGED <<kind, targets, entry, order, crashed>>
    BY <1>2 DEF Report, Idle
  <2>2. \/ pass' = 1
        \/ pass' = 0 /\ silent' = (silent \/ Links(graph') # Links(graph))
    BY <1>2 DEF Report
  <2>3. CASE pass' = 1
    BY <1>b, <1>c, <1>d, <2>1, <2>3
  <2>4. CASE pass' = 0 /\ silent' = (silent \/ Links(graph') # Links(graph))
    <3>1. Unmarked'
      BY <1>a, <2>1, <2>4 DEF Unmarked
    <3>2. ASSUME ~ silent' PROVE \A i \in DOMAIN order : Served(order[i])'
      <4>1. ~ silent /\ Links(graph') = Links(graph)
        BY <2>4, <3>2
      <4>2. graph'.ring = graph.ring /\ Ringed(graph) /\ Ringed(graph')
        <5>1. graph'.ring = graph.ring
          BY <1>2, <1>a, <2>4, <4>1, ReportKeeps DEF Kept
        <5> QED
          BY <1>0, <1>a, <5>1 DEF Kept, IsGraph
      <4>3. ASSUME NEW i \in DOMAIN order PROVE Served(order[i])'
        <5>1. Fine(kind, graph, ToSet(targets), entry, order[i])
          BY <1>a, <2>1, <4>1 DEF Serving, Checked, Served
        <5>2. Fine(kind, graph', ToSet(targets), entry, order[i])
          BY <1>a, <4>2, <5>1, SameLinks
        <5> QED
          BY <2>1, <5>2 DEF Served
      <4> QED
        BY <4>3
    <3>3. Serving'
      BY <2>1, <3>2 DEF Serving
    <3> QED
      BY <1>b, <1>c, <2>1, <2>4, <3>1, <3>3
  <2> QED
    BY <2>2, <2>3, <2>4
<1>3. CASE CheckEntry
  <2>1. /\ pass \in DOMAIN order /\ ~ crashed /\ pass' = pass + 1
        /\ UNCHANGED <<kind, targets, silent>>
    BY <1>3 DEF CheckEntry
  <2>2. pass' \in Nat /\ pass' # 0
    BY <1>a, <2>1
  <2>3. Unmarked'
    BY <2>2 DEF Unmarked
  <2>4. CASE entry[order[pass]].changed /\ UNCHANGED <<graph, entry, order, crashed>>
    <3>1. ASSUME NEW i \in DOMAIN order, Checked(i)' PROVE Checked(i)
      <4>1. i \in Nat /\ (i < pass + 1 => i < pass \/ i = pass)
        BY <1>a
      <4> QED
        BY <2>1, <2>2, <2>4, <3>1, <4>1 DEF Checked
    <3>2. ASSUME NEW i \in DOMAIN order, Checked(i)', ~ crashed', ~ silent' PROVE Served(order[i])'
      <4>1. Served(order[i])
        BY <1>a, <2>1, <3>1, <3>2 DEF Serving
      <4> QED
        BY <2>1, <2>4, <4>1 DEF Served
    <3>3. Serving'
      BY <2>4, <3>2 DEF Serving
    <3> QED
      BY <1>b, <1>c, <2>1, <2>2, <2>3, <2>4, <3>3
  <2>5. CASE graph' = Searched(order[pass]) /\ Route(order[pass])
    <3>1. order[pass] \in Nodes
      BY <1>a, <2>1
    <3>2. ASSUME NEW i \in DOMAIN order, pass' = 0 \/ i < pass'
          PROVE  Checked(i) \/ order[i] = order[pass]
      <4>1. i \in Nat /\ (i < pass + 1 => i < pass \/ i = pass)
        BY <1>a
      <4> QED
        BY <2>1, <2>2, <3>2, <4>1 DEF Checked
    <3>3. Serving'
      BY <2>1, <2>5, <3>1, <3>2, LookServes
    <3> QED
      BY <1>b, <1>e, <2>1, <2>2, <2>3, <2>5, <3>1, <3>3
  <2> QED
    BY <1>3, <2>4, <2>5 DEF CheckEntry
<1>4. CASE SendChanges
  <2>1. /\ pass = Len(order) + 1 /\ ~ crashed /\ pass' = 0
        /\ UNCHANGED <<kind, graph, targets, order, silent, crashed>>
        /\ \A v \in Nodes : entry'[v] = [entry[v] EXCEPT !.changed = FALSE]
    BY <1>4 DEF SendChanges
  <2>2. \A v \in Nodes :
          [entry[v] EXCEPT !.changed = FALSE] =
            [act |-> entry[v].act, next |-> entry[v].next,
             weight |-> entry[v].weight, hops |-> entry[v].hops, changed |-> FALSE]
    BY <1>a, ChangedOnly DEF Shaped
  <2>3. \A v \in Nodes : /\ Alike(entry, entry', v) /\ entry'[v].hops = entry[v].hops
                         /\ ~ entry'[v].changed
    BY <2>1, <2>2 DEF Alike
  <2>4. Legal'
    BY <1>a, <2>1, <2>3 DEF Legal, Lawful, Alike
  <2>5. Unmarked'
    BY <2>3 DEF Unmarked
  <2>6. ASSUME NEW i \in DOMAIN order, ~ silent PROVE Served(order[i])'
    <3>1. i < pass /\ order[i] \in Nodes
      BY <1>a, <2>1
    <3>2. Fine(kind, graph, ToSet(targets), entry, order[i])
      BY <1>a, <2>1, <2>6, <3>1 DEF Serving, Checked, Served
    <3>3. \A u \in Nodes : Alike(entry, entry', u)
      BY <2>3
    <3>4. Fine(kind, graph, ToSet(targets), entry', order[i])
      BY <1>a, <3>1, <3>2, <3>3, SameEntries
    <3> QED
      BY <2>1, <3>4 DEF Served
  <2>7. Serving'
    BY <2>1, <2>6 DEF Serving
  <2> QED
    BY <1>b, <2>1, <2>4, <2>5, <2>7
<1>5. ASSUME NEW v \in Nodes, Treat(v), Idle, UNCHANGED <<kind, targets, silent>> PROVE RInv'
  <2>1. pass = 0 /\ ~ crashed
    BY <1>5 DEF Idle
  <2>2. CASE UNCHANGED <<graph, entry, order, pass, crashed>>
    <3>1. Unmarked' /\ Legal' /\ pass' \in Nat
      BY <1>5, <1>a, <1>c, <2>2 DEF Unmarked
    <3>2. Serving'
      BY <1>5, <1>a, <2>2 DEF Serving, Served, Checked
    <3> QED
      BY <1>b, <3>1, <3>2
  <2>3. CASE graph' = Searched(v) /\ Route(v) /\ pass' = Len(order') + 1
    <3>1. pass' \in Nat /\ pass' # 0
      <4>1. Len(order') \in Nat
        BY <1>0 DEF Kept
      <4> QED
        BY <2>3, <4>1
    <3>2. Unmarked'
      BY <3>1 DEF Unmarked
    <3>3. \A i \in DOMAIN order : Checked(i)
      BY <2>1 DEF Checked
    <3>4. Serving'
      BY <1>5, <2>1, <2>3, <3>3, LookServes
    <3> QED
      BY <1>5, <1>b, <1>e, <2>3, <3>1, <3>2, <3>4
  <2> QED
    BY <1>5, <2>2, <2>3 DEF Treat
<1>6. ASSUME NEW n \in Requesters, Request(n) PROVE RInv'
  BY <1>5, <1>6, RoutesAssumption DEF Request
<1>7. CASE SelfRequest
  <2>1. Head(asks) \in Nodes
    BY <1>7, <1>a DEF SelfRequest, Kept
  <2> QED
    BY <1>5, <1>7, <2>1 DEF SelfRequest
<1>8. ASSUME NEW n \in Registrants, Register(n) PROVE RInv'
  <2>1. pass = 0 /\ pass' = 1 /\ UNCHANGED <<entry, order>>
    BY <1>8 DEF Register, Idle
  <2>2. ToSet(targets) \subseteq ToSet(targets')
    <3>1. targets \in Seq(Nodes) /\ (targets' = targets \/ targets' = Append(targets, n))
      BY <1>8, <1>a DEF Register, Kept
    <3>2. \A i \in DOMAIN targets : i \in DOMAIN targets' /\ targets'[i] = targets[i]
      BY <3>1
    <3> QED
      BY <3>2 DEF ToSet
  <2>3. Legal'
    BY <1>a, <2>1, <2>2 DEF Legal, Lawful
  <2> QED
    BY <1>b, <1>d, <2>1, <2>3
<1>9. CASE RegisterOther
  <2>1. pass = 0 /\ pass' = 1 /\ UNCHANGED <<entry, order, targets>>
    BY <1>9 DEF RegisterOther, Idle
  <2> QED
    BY <1>b, <1>c, <1>d, <2>1
<1>10. ASSUME NEW n \in Requesters, RequestOther(n) PROVE RInv'
  <2>1. UNCHANGED <<kind, targets, entry, order, pass, silent, crashed>>
    BY <1>10 DEF RequestOther
  <2>2. graph'.ring = graph.ring /\ Ringed(graph) /\ Ringed(graph')
    <3>1. graph'.ring = graph.ring
      BY <1>10, <1>a, VerticeKeeps, RoutesAssumption DEF RequestOther, Kept
    <3> QED
      BY <1>0, <1>a, <3>1 DEF Kept, IsGraph
  <2>3. Unmarked' /\ Legal' /\ pass' \in Nat
    BY <1>a, <1>c, <2>1 DEF Unmarked
  <2>4. ASSUME NEW i \in DOMAIN order, Checked(i), ~ crashed, ~ silent
        PROVE  Served(order[i])'
    <3>1. Fine(kind, graph, ToSet(targets), entry, order[i])
      BY <1>a, <2>4 DEF Serving, Served
    <3>2. Fine(kind, graph', ToSet(targets), entry, order[i])
      BY <1>a, <2>2, <3>1, SameLinks
    <3> QED
      BY <2>1, <3>2 DEF Served
  <2>5. Serving'
    BY <2>1, <2>4 DEF Serving, Checked
  <2> QED
    BY <1>b, <2>3, <2>5
<1> QED
  BY <1>1, <1>2, <1>3, <1>4, <1>6, <1>7, <1>8, <1>9, <1>10 DEF Next

LEMMA ServingLeads == RInv => RoutesLead
<1> SUFFICES ASSUME RInv, Settled PROVE NobodyLeft /\ NoDeadRoutes
  BY DEF RoutesLead, NobodyLeft, NoDeadRoutes
<1>0. order \in Seq(Nodes) /\ pass = 0 /\ ~ crashed /\ ~ silent
  BY DEF RInv, Kept, Settled, Idle
<1>1. ASSUME NEW v \in ToSet(order)
      PROVE  Fine(kind, graph, ToSet(targets), entry, v)
  <2>1. PICK i \in DOMAIN order : v = order[i]
    BY DEF ToSet
  <2> QED
    BY <1>0, <2>1 DEF RInv, Serving, Checked, Served
<1>2. \A v : Way(graph, ToSet(targets), v) <=> WaysFrom(v) # {}
  BY DEF Way, WaysFrom, Target, Linked, OverLinks
<1>3. \A v : Leads(graph, ToSet(targets), entry, v)
               => \E p \in Paths : Source(p) = v /\ Installed(p) /\ OverLinks(p)
  BY DEF Leads, Installed, Target, Linked, Follows, OverLinks
<1>4. NobodyLeft
  BY <1>1, <1>2, <1>3 DEF NobodyLeft, Fine
<1>5. NoDeadRoutes
  BY <1>1, <1>2 DEF NoDeadRoutes, Fine
<1> QED
  BY <1>4, <1>5

\* Once the cache has come to terms with the digraph it forwards just where
\* links lead to a target, hop by hop over links that exist.
THEOREM CacheForwards == Spec => []RoutesLead
BY InitRInv, NextRInv, ServingLeads, PTL DEF Spec

-----------------------------------------------------------------------------
\* Who has an entry is in the list.
Entered == \A v \in Nodes : entry[v].act # "none" => \E i \in DOMAIN order : order[i] = v

LEMMA ListedAll ==
  ASSUME NEW n \in Nat \ {0}, NEW p, Road(n, p), Hops(p) = n, order \in Seq(Nodes),
         NEW u \in Nodes,
         \/ \E i \in DOMAIN order : order[i] = u
         \/ entry[u].act = "none" /\ \E j \in 1 .. n : p[j] = u
  PROVE  \E i \in DOMAIN Listed(p) : Listed(p)[i] = u
<1> DEFINE q == [i \in 1 .. n |-> p[i]]
           S == {v \in Nodes : entry[v].act = "none"}
           t == Only(q, S)
<1>0. q \in Seq(Nodes)
  BY DEF Road
<1>1. Len(q) = n /\ \A j \in 1 .. n : q[j] = p[j]
  BY DEF Road
<1>2. t \in Seq(Nodes)
  <2> HIDE DEF q, S
  <2> QED
    BY <1>0, OnlyPicks
<1>3. \A x : (\E i \in 1 .. Len(t) : t[i] = x) <=> x \in S /\ \E k \in 1 .. Len(q) : q[k] = x
  <2> HIDE DEF q, S
  <2> QED
    BY <1>0, OnlySet
<1>4. Listed(p) = order \o t
  BY DEF Listed
<1> HIDE DEF t, q
<1>5. CASE \E i \in DOMAIN order : order[i] = u
  <2>1. PICK i \in DOMAIN order : order[i] = u
    BY <1>5
  <2>2. i \in DOMAIN (order \o t) /\ (order \o t)[i] = u
    BY <1>2, <2>1
  <2> QED
    BY <1>4, <2>2
<1>6. CASE entry[u].act = "none" /\ \E j \in 1 .. n : p[j] = u
  <2>1. u \in S /\ \E k \in 1 .. Len(q) : q[k] = u
    BY <1>1, <1>6
  <2>2. PICK i \in 1 .. Len(t) : t[i] = u
    BY <1>3, <2>1
  <2>3. Len(order) + i \in DOMAIN (order \o t) /\ (order \o t)[Len(order) + i] = u
    BY <1>2, <2>2
  <2> QED
    BY <1>4, <2>3
<1> QED
  BY <1>5, <1>6

LEMMA RouteEnters ==
  ASSUME Kept, Shaped, Entered, NEW v \in Nodes, Route(v)
  PROVE  Entered'
<1>0. order \in Seq(Nodes) /\ IsFiniteSet(Nodes)
  BY RoutesAssumption DEF Kept
<1>1. ASSUME \A u \in Nodes : Alike(entry, entry', u), order' = order PROVE Entered'
  BY <1>1 DEF Entered, Alike
<1>2. CASE GiveUp(v)
  <2>1. CASE kind = "controller"
    BY <1>1, <1>2, <2>1 DEF GiveUp, Alike
  <2>2. CASE kind # "controller"
    <3>1. /\ entry' = [entry EXCEPT ![v] = IF @.act = "drop" THEN @ ELSE Dropped(v)]
          /\ order' = IF entry[v].act = "none" THEN Append(order, v) ELSE order
      BY <1>2, <2>2 DEF GiveUp
    <3>2. \A u \in Nodes \ {v} : entry'[u] = entry[u]
      BY <3>1 DEF Shaped
    <3>3. \A i \in DOMAIN order : i \in DOMAIN order' /\ order'[i] = order[i]
      BY <1>0, <3>1
    <3>4. entry[v].act = "none" => Len(order) + 1 \in DOMAIN order' /\ order'[Len(order) + 1] = v
      BY <1>0, <3>1
    <3>5. \E i \in DOMAIN order' : order'[i] = v
      BY <3>3, <3>4 DEF Entered
    <3> QED
      BY <3>2, <3>3, <3>5 DEF Entered
  <2> QED
    BY <2>1, <2>2
<1>3. ASSUME NEW labels, NEW i \in DOMAIN targets, labels = Labels(graph, v),
             NEW p \in RoutesTo(labels, targets[i]), Configure(v, p, labels)
      PROVE  Entered'
  <2>1. CASE entry' = entry /\ order' = order
    BY <1>1, <2>1 DEF Alike
  <2>2. ASSUME NEW w, entry' = [entry EXCEPT ![v].weight = w], order' = order
        PROVE  Entered'
    <3>1. \A u \in Nodes : Alike(entry, entry', u)
      BY <2>2, WeightChanges
    <3> QED
      BY <1>1, <2>2, <3>1
  <2>3. CASE entry' = Written(p, labels) /\ order' = Listed(p)
    <3>1. PICK n \in Nat \ {0} : Road(n, p) /\ Hops(p) = n
      BY <1>3, RouteIsWay
    <3>2. \A u \in Nodes : (\A j \in 1 .. n : p[j] # u) => entry'[u] = entry[u]
      BY <2>3, <3>1, WrittenIs
    <3>3. ASSUME NEW u \in Nodes, entry'[u].act # "none"
          PROVE  \E k \in DOMAIN order' : order'[k] = u
      <4>1. \/ \E k \in DOMAIN order : order[k] = u
            \/ entry[u].act = "none" /\ \E j \in 1 .. n : p[j] = u
        BY <3>2, <3>3 DEF Entered
      <4>2. \E k \in DOMAIN Listed(p) : Listed(p)[k] = u
        BY <1>0, <3>1, <4>1, ListedAll
      <4> QED
        BY <2>3, <4>2
    <3> QED
      BY <3>3 DEF Entered
  <2> QED
    BY <1>3, <2>1, <2>2, <2>3 DEF Configure
<1> QED
  BY <1>2, <1>3 DEF Route

LEMMA InitEntered == Init => Entered
BY DEF Init, Entered, NoEntry

LEMMA NextEntered == RInv /\ Entered /\ [Next]_vars => Entered'
<1> SUFFICES ASSUME RInv, Entered, [Next]_vars PROVE Entered'
  OBVIOUS
<1>0. Kept /\ Shaped
  BY DEF RInv, IInv
<1>1. ASSUME UNCHANGED <<entry, order>> PROVE Entered'
  BY <1>1 DEF Entered
<1>2. CASE CheckEntry
  <2>1. CASE UNCHANGED <<entry, order>>
    BY <1>1, <2>1
  <2>2. CASE Route(order[pass])
    <3>1. order[pass] \in Nodes
      BY <1>0, <1>2 DEF CheckEntry, Kept
    <3> QED
      BY <1>0, <2>2, <3>1, RouteEnters
  <2> QED
    BY <1>2, <2>1, <2>2 DEF CheckEntry
<1>3. CASE SendChanges
  <2>1. order' = order /\ \A v \in Nodes : entry'[v] = [entry[v] EXCEPT !.changed = FALSE]
    BY <1>3 DEF SendChanges
  <2>2. \A v \in Nodes :
          [entry[v] EXCEPT !.changed = FALSE] =
            [act |-> entry[v].act, next |-> entry[v].next,
             weight |-> entry[v].weight, hops |-> entry[v].hops, changed |-> FALSE]
    BY <1>0, ChangedOnly DEF Shaped
  <2>3. \A v \in Nodes : entry'[v].act = entry[v].act
    BY <2>1, <2>2
  <2> QED
    BY <2>1, <2>3 DEF Entered
<1>4. ASSUME NEW v \in Nodes, Treat(v) PROVE Entered'
  <2>1. CASE UNCHANGED <<entry, order>>
    BY <1>1, <2>1
  <2>2. CASE Route(v)
    BY <1>0, <2>2, RouteEnters
  <2>3. entry[v].act # "none" => UNCHANGED entry
    BY <1>4 DEF Treat
  <2> QED
    BY <1>4, <2>1, <2>2, <2>3 DEF Treat
<1>5. ASSUME NEW n \in Requesters, Request(n) PROVE Entered'
  BY <1>4, <1>5, RoutesAssumption DEF Request
<1>6. CASE SelfRequest
  <2>1. Head(asks) \in Nodes
    BY <1>0, <1>6 DEF SelfRequest, Kept
  <2> QED
    BY <1>4, <1>6, <2>1 DEF SelfRequest
<1>7. ASSUME UNCHANGED vars PROVE Entered'
  BY <1>1, <1>7 DEF vars
<1>8. ASSUME NEW r \in Reports, Report(r) PROVE Entered'
  BY <1>1, <1>8 DEF Report
<1>9. ASSUME NEW n \in Registrants, Register(n) PROVE Entered'
  BY <1>1, <1>9 DEF Register
<1>10. CASE RegisterOther
  BY <1>1, <1>10 DEF RegisterOther
<1>11. ASSUME NEW n \in Requesters, RequestOther(n) PROVE Entered'
  BY <1>1, <1>11 DEF RequestOther
<1> QED
  BY <1>2, <1>3, <1>5, <1>6, <1>7, <1>8, <1>9, <1>10, <1>11 DEF Next

\* From one node the entries give one road to where nobody forwards.
LEMMA SameRoad ==
  ASSUME IsFiniteSet(Nodes), NEW E, NEW p \in Paths, NEW q \in Paths, Source(p) = Source(q),
         Follows(E, p), Follows(E, q), E[p[0]].act # "forward", E[q[0]].act # "forward"
  PROVE  p = q
<1>1. PICK n \in Nat \ {0} : Road(n, p) /\ Hops(p) = n /\ DOMAIN p = 0 .. n
  BY PathIsRoad
<1>2. PICK m \in Nat \ {0} : Road(m, q) /\ Hops(q) = m /\ DOMAIN q = 0 .. m
  BY PathIsRoad
<1>3. p[n] = q[m]
  BY <1>1, <1>2 DEF Source
<1>4. \A i \in 1 .. n : E[p[i]].act = "forward" /\ E[p[i]].next = p[i - 1]
  <2>1. \A i \in 1 .. n : i \in DOMAIN p /\ i # 0
    BY <1>1
  <2> QED
    BY <2>1 DEF Follows
<1>5. \A i \in 1 .. m : E[q[i]].act = "forward" /\ E[q[i]].next = q[i - 1]
  <2>1. \A i \in 1 .. m : i \in DOMAIN q /\ i # 0
    BY <1>2
  <2> QED
    BY <2>1 DEF Follows
<1> DEFINE P == {k \in 0 .. n : k <= m /\ p[n - k] = q[m - k]}
<1>6. 0 \in P
  <2>1. n - 0 = n /\ m - 0 = m /\ 0 \in 0 .. n /\ 0 <= m
    OBVIOUS
  <2>2. p[n - 0] = q[m - 0]
    BY <1>3, <2>1
  <2> QED
    BY <2>1, <2>2
<1>7. ASSUME NEW k \in 0 .. n - 1, k \in P PROVE k + 1 \in P
  <2> DEFINE i == n - k
             j == m - k
  <2>1. /\ k <= m /\ p[i] = q[j] /\ i \in 1 .. n /\ j \in 0 .. m /\ k + 1 \in 0 .. n
        /\ n - (k + 1) = i - 1 /\ m - (k + 1) = j - 1
    BY <1>7
  <2>2. j # 0 => j \in 1 .. m /\ k + 1 <= m
    BY <2>1
  <2> HIDE DEF i, j
  <2>3. E[p[i]].act = "forward" /\ E[p[i]].next = p[i - 1]
    BY <1>4, <2>1
  <2>4. j # 0
    BY <2>1, <2>3
  <2>5. E[q[j]].next = q[j - 1]
    BY <1>5, <2>2, <2>4
  <2>6. p[i - 1] = q[j - 1]
    BY <2>1, <2>3, <2>5
  <2>7. p[n - (k + 1)] = q[m - (k + 1)]
    BY <2>1, <2>6
  <2> QED
    BY <2>1, <2>2, <2>4, <2>7
<1>8. \A k \in 0 .. n : k \in P
  <2> HIDE DEF P
  <2>1. \A k \in 0 .. n - 1 : k \in P => k + 1 \in P
    BY <1>7
  <2> QED
    BY <1>6, <2>1, Induct
<1>9. \A k \in 0 .. n : k <= m /\ p[n - k] = q[m - k]
  BY <1>8
<1>10. n = m
  <2>1. n \in 0 .. n /\ n - n = 0
    OBVIOUS
  <2>2. n <= m /\ p[n - n] = q[m - n]
    BY <1>9, <2>1
  <2>3. p[0] = q[m - n]
    BY <2>1, <2>2
  <2>4. ASSUME n # m PROVE FALSE
    <3>1. m - n \in 1 .. m
      BY <2>2, <2>4
    <3>2. E[q[m - n]].act = "forward"
      BY <1>5, <3>1
    <3> QED
      BY <2>3, <3>2
  <2> QED
    BY <2>4
<1>11. ASSUME NEW i \in 0 .. n PROVE p[i] = q[i]
  <2>1. n - i \in 0 .. n /\ n - (n - i) = i
    OBVIOUS
  <2>2. p[n - (n - i)] = q[m - (n - i)]
    BY <1>9, <2>1
  <2> QED
    BY <1>10, <2>1, <2>2
<1>12. p \in [0 .. n -> Nodes] /\ q \in [0 .. n -> Nodes]
  BY <1>1, <1>2, <1>10 DEF Road
<1> QED
  BY <1>11, <1>12

LEMMA ServingIsNear == RInv /\ Entered => Stretch
<1> SUFFICES ASSUME RInv, Entered, Settled, Exact, SinksOnly,
                    NEW p \in Paths, Installed(p), OverLinks(p), NEW q \in WaysFrom(Source(p))
             PROVE  2 * PathWeight(p) <= 3 * PathWeight(q)
  BY DEF Stretch
<1> DEFINE v == Source(p)
           T == ToSet(targets)
<1>0. /\ order \in Seq(Nodes) /\ pass = 0 /\ ~ crashed /\ ~ silent
      /\ IsFiniteSet(Nodes) /\ targets \in Seq(Nodes)
  BY RoutesAssumption DEF RInv, Kept, Settled, Idle
<1>1. p[0] \in T /\ Follows(entry, p)
  BY DEF Installed, Target, Follows
<1>2. q \in Paths /\ Source(q) = v /\ q[0] \in T /\ Linked(graph, q)
  BY DEF WaysFrom, Target, Linked, OverLinks
<1>3. Sunk(graph, T, entry)
  BY DEF SinksOnly, Sunk
<1>4. ExactFor(graph)
  BY DEF Exact, ExactFor, OverLinks, Linked, PathWeight, Weighs
<1>5. v \in Nodes /\ entry[v].act = "forward"
  <2>1. PICK n \in Nat \ {0} : Road(n, p) /\ Hops(p) = n /\ DOMAIN p = 0 .. n
    BY <1>0, PathIsRoad
  <2>2. v = p[n] /\ n \in DOMAIN p /\ n # 0
    BY <2>1 DEF Source
  <2> HIDE DEF v
  <2> QED
    BY <1>1, <2>1, <2>2 DEF Follows, Road
<1>6. v \notin T
  BY <1>5 DEF SinksOnly
<1>7. Fine(kind, graph, T, entry, v)
  <2>1. PICK i \in DOMAIN order : order[i] = v
    BY <1>5 DEF Entered
  <2> HIDE DEF v
  <2> QED
    BY <1>0, <2>1 DEF RInv, Serving, Checked, Served
<1>8. Near(graph, T, entry, v)
  BY <1>3, <1>4, <1>7 DEF Fine
<1>9. LeadsIn(graph, T, entry, v, Weighs(graph, q))
  <2> HIDE DEF v, T
  <2> QED
    BY <1>2, <1>6, <1>8 DEF Near
<1>10. PICK r \in Paths : /\ Source(r) = v /\ r[0] \in T /\ Follows(entry, r) /\ Linked(graph, r)
                          /\ 2 * Weighs(graph, r) <= 3 * Weighs(graph, q)
  BY <1>9 DEF LeadsIn
<1>11. r = p
  <2>1. entry[r[0]].act # "forward" /\ entry[p[0]].act # "forward"
    BY <1>1, <1>10 DEF SinksOnly
  <2> QED
    BY <1>0, <1>1, <1>10, <2>1, SameRoad
<1>12. PathWeight(p) = Weighs(graph, p) /\ PathWeight(q) = Weighs(graph, q)
  BY DEF PathWeight, Weighs
<1> QED
  BY <1>10, <1>11, <1>12

\* Where the search is exact and no target forwards, the route the entries give
\* a node weighs at most half as much again as any way it has to a target, for
\* all that entries along it were written for the sake of other sources.
THEOREM StretchHolds == Spec => []Stretch
<1>1. RInv /\ Entered /\ [Next]_vars => (RInv /\ Entered)'
  BY NextRInv, NextEntered
<1>2. Init => RInv /\ Entered
  BY InitRInv, InitEntered
<1> QED
  BY <1>1, <1>2, ServingIsNear, PTL DEF Spec

=============================================================================
