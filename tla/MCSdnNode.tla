----------------------------- MODULE MCSdnNode -----------------------------
(***************************************************************************)
(* SdnNode on small queues.  The packets a neighbour can send are the flow *)
(* setups that matter: of the controller's flow, of an application flow,   *)
(* of a route to a node, one to pass on by its path and one that has run   *)
(* out of path and goes on by address; and another node's data.            *)
(***************************************************************************)
EXTENDS SdnNode

CONSTANTS ctrl, f1, self, n1

MCFlows == {ctrl, f1}
MCAddrs == {self, n1}

Setup(type, key, via, act, dest) ==
  [type |-> type, key |-> key, seq |-> 0, own |-> FALSE, ver |-> 0,
   via |-> via, act |-> act, dest |-> dest]

DataSetup(key, act) == Setup("DATA_FLOW_SETUP", key, "END", act, self)

CtrlSetup == DataSetup(ctrl, "FORWARD")

\* Another node's packet on an application flow.
Foreign(f) == [type |-> "DATA", key |-> f, seq |-> 0, own |-> FALSE, ver |-> 0]

ReportInputs == {CtrlSetup}

FlowInputs    == {CtrlSetup, DataSetup(f1, "FORWARD"),
                  Setup("DATA_FLOW_SETUP", f1, "SHORT", "FORWARD", n1),
                  Foreign(f1)}
AddressInputs == {CtrlSetup,
                  Setup("CONTROL_FLOW_SETUP", n1, "END", "FORWARD", self),
                  Setup("DATA_FLOW_SETUP", f1, "PASS", "FORWARD", n1)}
=============================================================================
