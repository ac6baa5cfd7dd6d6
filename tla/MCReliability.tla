--------------------------- MODULE MCReliability ---------------------------
(***************************************************************************)
(* Retransmission at both ends, each with everything the other can do to   *)
(* it: the node's window of what it asked and told the controller, and the *)
(* controller's timer for what it told the node.                           *)
(*                                                                         *)
(* RetxWindow has a window of three slots and three sequence numbers: a    *)
(* report and two registrations can be awaited at once, and the requests   *)
(* fill the window.                                                        *)
(*                                                                         *)
(* FlowSetup has one flow and three settings.  A countdown of two seconds  *)
(* has a tick that sends and one that does not; with two packets each way  *)
(* an old setup or acknowledgement can be overtaken.  Flows share nothing  *)
(* but the room in the node's table.                                       *)
(*                                                                         *)
(* The sequence numbers, which are interchangeable, occur in the window    *)
(* only, of which no liveness is asked.                                    *)
(***************************************************************************)
EXTENDS RetxWindow, FlowSetup, TLC

VARIABLE end

MCInit == end \in {"node", "controller"} /\ Init /\ SetupInit

AtNode == end = "node" /\ Next /\ UNCHANGED <<end, setupVars>>

AtController == end = "controller" /\ SetupNext /\ UNCHANGED <<end, win>>

MCSpec ==
  /\ MCInit /\ [][AtNode \/ AtController]_<<end, win, setupVars>>
  /\ end = "controller" => SetupFairness

SeqSymmetry == Permutations(Seqs)
=============================================================================
