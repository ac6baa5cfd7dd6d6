--------------------------- MODULE MCSourceRoute ---------------------------
(***************************************************************************)
(* SourceRoute on a tree: the controller's mote c, behind it n1, n2 and    *)
(* n3 in a row.  Only one address fits in a packet, so the route to n3 is  *)
(* too long; n2 has an entry for n3.  Numbers come round after two         *)
(* packets, and the cache has one place for each of the two senders.       *)
(***************************************************************************)
EXTENDS SourceRoute

CONSTANTS c, n1, n2, n3

Pairs == {<<c, n1>>, <<n1, n2>>, <<n2, n3>>}

TreeLinks == Pairs \cup {<<p[2], p[1]>> : p \in Pairs}

TreeParent == n1 :> c @@ n2 :> n1 @@ n3 :> n2

TreeRestarts == c :> 1 @@ n1 :> 0 @@ n2 :> 0 @@ n3 :> 0

TreeSent == c :> 1 @@ n1 :> 0 @@ n2 :> 0 @@ n3 :> 3

\* Each of the two senders has one way to every node.
TreeCarry == c :> Pairs @@ n1 :> {} @@ n2 :> {} @@ n3 :> {<<p[2], p[1]>> : p \in Pairs}

TreeHops ==
  LET Down == c :> 0 @@ n1 :> 1 @@ n2 :> 2 @@ n3 :> 3
  IN  [s \in {c, n1, n2, n3} |-> IF s = n3 THEN [n \in DOMAIN Down |-> 3 - Down[n]] ELSE Down]

ASSUME TreeIsOneWay == OneWay(TreeCarry, TreeHops)

TreeNextHop == <<n2, n3>> :> n3
=============================================================================
