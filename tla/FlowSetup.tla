------------------------------ MODULE FlowSetup ------------------------------
(***************************************************************************)
(* How the controller keeps the flow table of one node up to date: the     *)
(* controller's flow table cache (sdn-flow-table-cache.c) with its         *)
(* retransmission timer (sdn-reliability.c), the requests and              *)
(* acknowledgements it handles (sdn-process-packets*.c), the node's flow   *)
(* table, and the network between them, which loses and reorders packets.  *)
(*                                                                         *)
(* A setting is what an entry says, an action and a next hop.  How the     *)
(* controller comes to it is not modelled here: a route change may choose  *)
(* any.  The address table of the controller and the control flow table    *)
(* of the node follow the same protocol as the flow id tables do.          *)
(***************************************************************************)
EXTENDS Integers, Sequences, FiniteSets, Functions, SequencesExt

CONSTANTS
  Flows,        \* the flows the node can have entries for
  Settings,     \* what an entry can say
  RetxTime,     \* SDN_RETRANSMIT_TIME_S
  TableSize,    \* SDN_FLOW_TABLES_SIZE at the node
  MaxChanges,   \* bound: route changes
  MaxTransit,   \* bound: packets of a flow in transit each way
  MaxRestarts   \* bound: restarts of the node

ASSUME FlowSetupAssumption ==
  /\ RetxTime \in Nat \ {0} /\ TableSize \in Nat
  /\ MaxChanges \in Nat /\ MaxTransit \in Nat /\ MaxRestarts \in Nat
  /\ "ask" \notin Settings /\ "none" \notin Settings

VARIABLES
  entry,     \* the cache's entry for each flow; set = "none": no entry
  table,     \* the node's flow table
  down,      \* setups in transit, per flow
  up,        \* acknowledgements and flow requests in transit, per flow
  past,      \* the settings each flow's entry has had
  smooth,    \* the flows none of whose packets overtook another, whose entry
             \* never went back to what it was, that the node had room for
             \* and has not lost by a restart
  changes,   \* the number of route changes
  restarts   \* the number of restarts of the node

setupVars == <<entry, table, down, up, past, smooth, changes, restarts>>

NoEntry == [set |-> "none", online |-> FALSE, countdown |-> 0]

\* Mutant of Changed: the timer is not armed.
ChangedUnarmed(s) == [set |-> s, online |-> FALSE, countdown |-> 0]

\* sdn_flow_id_table_new, and sdn_flow_id_table_add of a changed route
Changed(s) == [set |-> s, online |-> FALSE, countdown |-> RetxTime]

\* A packet leaves; what does not fit the queues on its way is lost.
Send(channel, f, m) ==
  IF Len(channel[f]) < MaxTransit
  THEN [channel EXCEPT ![f] = Append(@, m)] ELSE channel

\* What remains smooth when something happens to f that may not.
Still(f, ok) == IF ok THEN smooth ELSE smooth \ {f}

Without(channel, f, i) == [channel EXCEPT ![f] = RemoveAt(@, i)]

SetupInit ==
  /\ entry = [f \in Flows |-> NoEntry]
  /\ table = [f \in {} |-> "none"]
  /\ down = [f \in Flows |-> <<>>]
  /\ up = [f \in Flows |-> <<>>]
  /\ past = [f \in Flows |-> {}]
  /\ smooth = Flows
  /\ changes = 0
  /\ restarts = 0

----------------------------------------------------------------------------
(* The controller                                                          *)

\* sdn_flow_id_table_add and process_flow_id_table_changes: a changed entry
\* is sent at once, and the timer is armed whether or not that succeeded.
Change(f, s) ==
  /\ changes < MaxChanges
  /\ past' = [past EXCEPT ![f] = @ \cup {s}]
  /\ smooth' = Still(f, s \notin past[f])
  /\ changes' = changes + 1
  /\ entry' = [entry EXCEPT ![f] = Changed(s)]
  /\ down' = Send(down, f, s)

RouteChange(f, s) ==
  /\ s # entry[f].set
  /\ Change(f, s)
  /\ UNCHANGED <<table, up, restarts>>

\* Mutant of Resent: an acknowledged setting is taken to be in place.
NotResent(f) == down

Resent(f) == IF entry[f].online THEN Send(down, f, entry[f].set) ELSE down

\* process_data_flow_request_packet: an acknowledged setting is sent again,
\* one that is not will be by the timer, and a new flow gets an entry.
Answer(f) ==
  IF entry[f].set = "none" THEN \E s \in Settings : Change(f, s)
  ELSE /\ down' = Resent(f)
       /\ UNCHANGED <<entry, past, smooth, changes>>

\* Mutant of SetOnline: any acknowledgement of the flow will do.
SetOnlineAnyway(e, s) == [e EXCEPT !.online = TRUE]

\* sdn_flow_id_table_set_online: an acknowledgement of what the entry says.
SetOnline(e, s) == IF e.set = s THEN [e EXCEPT !.online = TRUE] ELSE e

Arrive(f, i) ==
  LET m == up[f][i]
  IN  /\ up' = Without(up, f, i)
      /\ IF m = "ask" THEN Answer(f)
         ELSE /\ entry' = [entry EXCEPT ![f] = SetOnline(@, m)]
              /\ smooth' = Still(f, i = 1)
              /\ UNCHANGED <<down, past, changes>>
      /\ UNCHANGED <<table, restarts>>

Down(n) == IF n >= 0 THEN n - 1 ELSE n

Due(f) == /\ entry[f].set # "none" /\ ~ entry[f].online
          /\ Down(entry[f].countdown) = 0

\* Mutant of Countdown: the timer is not set again.
CountdownOnce(f) == Down(entry[f].countdown)

Countdown(f) == IF Due(f) THEN RetxTime ELSE Down(entry[f].countdown)

\* sdn_reliability_timer_event, once a second.
Tick ==
  /\ entry' = [f \in Flows |->
       IF entry[f].set = "none" THEN entry[f]
       ELSE [entry[f] EXCEPT !.countdown = Countdown(f)]]
  /\ down' = [f \in Flows |->
       IF Due(f) THEN Send(down, f, entry[f].set)[f] ELSE down[f]]
  /\ UNCHANGED <<table, up, past, smooth, changes, restarts>>

----------------------------------------------------------------------------
(* The node and the network                                                *)

\* sdn_dataflow_insert: there is an entry for f or place for one.
HasRoom(f) == f \in DOMAIN table \/ Cardinality(DOMAIN table) < TableSize

\* treat_data_flow_setup: the acknowledgement is sent before the entry is
\* made, and whether or not it can be made.
Install(f, i) ==
  LET s == down[f][i]
  IN  /\ down' = Without(down, f, i)
      /\ up' = Send(up, f, s)
      /\ table' = IF ~ HasRoom(f) THEN table
                  ELSE [g \in DOMAIN table \cup {f} |->
                          IF g = f THEN s ELSE table[g]]
      /\ smooth' = Still(f, i = 1 /\ HasRoom(f))
      /\ UNCHANGED <<entry, past, changes, restarts>>

\* sdn_unknown_flow: the node has a packet of a flow it has no entry for.
Ask(f) ==
  /\ f \notin DOMAIN table
  /\ "ask" \notin Range(up[f])
  /\ up' = Send(up, f, "ask")
  /\ UNCHANGED <<entry, table, down, past, smooth, changes, restarts>>

\* sdn_init after a reset: the tables are in RAM.
Restart ==
  /\ restarts < MaxRestarts
  /\ restarts' = restarts + 1
  /\ table' = [f \in {} |-> "none"]
  /\ smooth' = {}
  /\ UNCHANGED <<entry, down, up, past, changes>>

Lose(f) ==
  /\ \/ \E i \in DOMAIN down[f] : down' = Without(down, f, i) /\ UNCHANGED up
     \/ \E i \in DOMAIN up[f] : up' = Without(up, f, i) /\ UNCHANGED down
  /\ UNCHANGED <<entry, table, past, smooth, changes, restarts>>

SetupNext ==
  \/ \E f \in Flows, s \in Settings : RouteChange(f, s)
  \/ \E f \in Flows : \E i \in DOMAIN up[f] : Arrive(f, i)
  \/ Tick
  \/ \E f \in Flows : \E i \in DOMAIN down[f] : Install(f, i)
  \/ \E f \in Flows : Ask(f)
  \/ Restart
  \/ \E f \in Flows : Lose(f)

SetupSpec == SetupInit /\ [][SetupNext]_setupVars

\* The timer runs, an application that has packets to send goes on having
\* them, and the network does not lose every packet of a flow for ever.
SetupFairness ==
  /\ WF_setupVars(Tick)
  /\ \A f \in Flows :
       /\ WF_setupVars(Ask(f))
       /\ SF_setupVars(\E i \in DOMAIN up[f] : Arrive(f, i))
       /\ SF_setupVars(\E i \in DOMAIN down[f] : Install(f, i))

FairSetupSpec == SetupSpec /\ SetupFairness

----------------------------------------------------------------------------
(* Properties                                                              *)

SetupTypeOK ==
  /\ entry \in [Flows -> [set : Settings \cup {"none"}, online : BOOLEAN,
                          countdown : -1 .. RetxTime]]
  /\ DOMAIN table \subseteq Flows
  /\ \A f \in DOMAIN table : table[f] \in Settings
  /\ Cardinality(DOMAIN table) <= TableSize
  /\ down \in [Flows -> Seq(Settings)]
  /\ up \in [Flows -> Seq(Settings \cup {"ask"})]
  /\ past \in [Flows -> SUBSET Settings] /\ smooth \subseteq Flows
  /\ changes \in 0 .. MaxChanges /\ restarts \in 0 .. MaxRestarts

\* An entry that is not acknowledged is always about to be sent again: no
\* sequence of changes, ticks, requests and acknowledgements leaves it
\* offline with a countdown that has run out.
OfflineArmed ==
  \A f \in Flows :
    entry[f].set # "none" /\ ~ entry[f].online
      => entry[f].countdown \in 1 .. RetxTime

\* Setups and acknowledgements of a flow in transit.
Settled(f) == down[f] = <<>> /\ \A i \in DOMAIN up[f] : up[f][i] = "ask"

\* With nothing left in transit the node has what the entry says.
Installed(f) == Settled(f) => f \in DOMAIN table /\ table[f] = entry[f].set

\* "confirmed by node ack" (sdn-flow-table-cache.h, 78), for a flow that goes
\* smoothly: losses, retransmissions and late
\* acknowledgements of other settings do not put an entry online that the
\* node does not have.
OnlineIsInstalled == \A f \in smooth : entry[f].online => Installed(f)

\* The last change of an entry is acknowledged in the end.
Converges == \A f \in Flows : entry[f].set # "none" ~> entry[f].online

\* A node without the entry that the controller has for a flow it has packets
\* for gets it, after a restart too, when the controller believes the entry to
\* be in place.
NodeRecovers ==
  \A f \in Flows :
    entry[f].set # "none" /\ f \notin DOMAIN table ~> f \in DOMAIN table
=============================================================================
