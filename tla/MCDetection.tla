------------------------------ MODULE MCDetection ------------------------------
(***************************************************************************)
(* Intrusion detection as built: with DIST_DETECT, with CENTR_DETECT.  The *)
(* two share no state but the pool and the send queue of a node, which     *)
(* both modules leave open, so that a build with both adds nothing.        *)
(***************************************************************************)
EXTENDS DistributedDetection, CentralDetection, TLC

CONSTANTS n1, s1, s2, sink, mote

VARIABLE build

MCInit == build \in {"DIST_DETECT", "CENTR_DETECT"} /\ Init /\ CentralInit

MCNext ==
  \/ build = "DIST_DETECT" /\ Next /\ UNCHANGED <<build, centralVars>>
  \/ build = "CENTR_DETECT" /\ CentralNext /\ UNCHANGED <<build, vars>>

MCSpec == MCInit /\ [][MCNext]_<<build, vars, centralVars>>

Symmetry == Permutations({s1, s2})
=============================================================================
