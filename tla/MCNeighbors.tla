---------------------------- MODULE MCNeighbors ----------------------------
(***************************************************************************)
(* What a node knows its neighbors by: Collect among three nodes, the      *)
(* table a node makes from Collect's list, and the beacons that replace    *)
(* both in another build.  Each is checked by itself: Collect and the      *)
(* table share a list that the one changes in its own time and the other   *)
(* copies, and CollectNd takes every list there can be.                    *)
(***************************************************************************)
EXTENDS Collect, CollectNd, ImprovedNd, TLC

CONSTANTS root, n1, n2

VARIABLE part

Announced == root :> 0 @@ n1 :> 2 @@ n2 :> 2
Sents == root :> 0 @@ n1 :> 2 @@ n2 :> 2
Probed == root :> 0 @@ n1 :> 0 @@ n2 :> 1

\* The intervals of this run are such that a silent neighbor stays long enough.
ASSUME IntervalsArePatient == Patient

\* Three nodes and two things that happen; or two nodes and four.
Few ==
  /\ bounds'.used <= 2 /\ bounds'.faults <= 1
  /\ bounds'.announced[n1] <= 1 /\ bounds'.sent[n1] <= 1

Two == bounds'.announced[n2] = 0 /\ UNCHANGED node[n2]

MCInit ==
  /\ part \in {"three", "two", "table", "beacons"}
  /\ CollectInit /\ CollectNdInit
  /\ ImprovedNdInit /\ (part # "beacons" => neighbor.interval = Unit)

MCNext ==
  \/ part = "three" /\ CollectNext /\ Few /\ UNCHANGED <<part, ndVars, beaconVars>>
  \/ part = "two" /\ CollectNext /\ Two /\ UNCHANGED <<part, ndVars, beaconVars>>
  \/ part = "table" /\ CollectNdNext /\ UNCHANGED <<part, collectVars, beaconVars>>
  \/ part = "beacons" /\ ImprovedNdNext /\ UNCHANGED <<part, collectVars, ndVars>>

MCSpec == MCInit /\ [][MCNext]_<<part, collectVars, ndVars, beaconVars>>

Symmetry == Permutations(Neighbors)
=============================================================================
