----------------------------- MODULE CollectNd -----------------------------
(***************************************************************************)
(* Neighbor discovery from Collect (contiki-sdn/sdn-nd/collect-nd.c): from *)
(* time to time a process copies the neighbors of Collect's list into the  *)
(* table the SDN reports from (sdn-neighbor-table.c), and has a report     *)
(* sent when the copy changed.                                             *)
(*                                                                         *)
(* Collect's list is a sequence here, which Contiki and Collect change as  *)
(* they like between two passes; estimates are link estimates of Contiki.  *)
(* Nothing else runs during a pass.                                        *)
(***************************************************************************)
EXTENDS Integers, SequencesExt, Lists

CONSTANTS
  Neighbors,
  TableSize,       \* SDN_NEIGHBOR_TABLE_SIZE
  Delta,           \* SDN_NEIGHBOR_ETX_DELTA
  MetricMod,       \* 2^8, the width metrics are compared in
  Estimates,       \* values of etx_accumulator
  MaxList,         \* bound: Collect's neighbors at a time
  MaxPasses        \* bound: passes

ASSUME CollectNdAssumption ==
  /\ TableSize \in Nat \ {0} /\ Delta \in Nat /\ MetricMod \in Nat \ {0}
  /\ Estimates \subseteq Nat /\ MaxList \in Nat /\ MaxPasses \in Nat

VARIABLES
  list,       \* Collect's list of neighbors, the newest first
  estimate,   \* etx_accumulator of each of them
  table,      \* the neighbor table: neighbor_addr and metric, in order
  passes,
  \* History: what the properties refer to.
  told,       \* the table at the last event
  before      \* the list at the last pass

ndVars == <<list, estimate, table, passes, told, before>>

Names(t) == {t[i].name : i \in DOMAIN t}

CollectNdInit ==
  /\ list = <<>> /\ estimate = [x \in Neighbors |-> 0] /\ table = <<>> /\ passes = 0
  /\ told = <<>> /\ before = <<>>

----------------------------------------------------------------------------
(* A pass                                                                  *)

\* Whether the metric of an entry is replaced: it differs by more than Delta
\* and by more than half.
Differs(old, new) ==
  /\ new < old - Delta \/ new > old + Delta
  /\ 2 * new > 3 * old \/ 3 * new < 2 * old

\* Mutant of Rated: the metric follows in silence.
RatedSilently(e, new) == [e EXCEPT !.metric = new, !.mark = "STATIC"]

Rated(e, new) ==
  IF Differs(e.metric, new) THEN [e EXCEPT !.metric = new, !.mark = "CHANGED"]
  ELSE [e EXCEPT !.mark = "STATIC"]

\* sdn_neighbor_table_edit
Edited(t) == [i \in DOMAIN t |-> [t[i] EXCEPT !.mark = "EDIT"]]

\* sdn_neighbor_table_insert: an entry there is found, a new one has metric 0,
\* and a full table takes none.
Inserted(t, x) ==
  IF x \in Names(t) \/ Len(t) = TableSize THEN t
  ELSE Append(t, [name |-> x, metric |-> 0, mark |-> "EDIT"])

\* Every neighbor of Collect in its order, with its estimate in 8 bits.
RatedIn(t, x) ==
  [i \in DOMAIN t |-> IF t[i].name = x THEN Rated(t[i], estimate[x] % MetricMod) ELSE t[i]]

Copied(t) ==
  LET copied[k \in 0 .. Len(list)] ==
        IF k = 0 THEN Edited(t) ELSE RatedIn(Inserted(copied[k - 1], list[k]), list[k])
  IN  copied[Len(list)]

\* Mutant of Updated: what is no neighbor of Collect stays.
UpdatedNot(t) == t

\* sdn_neighbor_table_update: who is no neighbor of Collect is removed.
Updated(t) == Only(t, {e \in ToSet(t) : e.mark # "EDIT"})

Changed(t) == \E i \in DOMAIN t : t[i].mark # "STATIC"

Pass ==
  /\ passes < MaxPasses /\ passes' = passes + 1
  /\ LET t == Copied(table)
     IN  /\ table' = Updated(t)
         /\ told' = IF Changed(t) THEN table' ELSE told
  /\ before' = list
  /\ UNCHANGED <<list, estimate>>

----------------------------------------------------------------------------
(* Between passes: Collect, and link_estimate_update                       *)

Hear(x) ==
  /\ x \notin ToSet(list) /\ Len(list) < MaxList
  /\ list' = <<x>> \o list
  /\ \E e \in Estimates : estimate' = [estimate EXCEPT ![x] = e]
  /\ UNCHANGED <<table, passes, told, before>>

Forget(x) ==
  /\ list' = Only(list, ToSet(list) \ {x})
  /\ UNCHANGED <<estimate, table, passes, told, before>>

LinkEstimateUpdate(x) ==
  /\ x \in ToSet(list)
  /\ \E e \in Estimates : estimate' = [estimate EXCEPT ![x] = e]
  /\ UNCHANGED <<list, table, passes, told, before>>

CollectNdNext == Pass \/ \E x \in Neighbors : Hear(x) \/ Forget(x) \/ LinkEstimateUpdate(x)

CollectNdSpec == CollectNdInit /\ [][CollectNdNext]_ndVars

----------------------------------------------------------------------------
(* Properties                                                              *)

Metric(t, x) == LET i == CHOOSE j \in DOMAIN t : t[j].name = x IN t[i].metric

\* The controller can know the table: it is what the last event had reported,
\* but for neighbors that came with an estimate of nothing, which are in it
\* with metric 0 and reported with the next change.
TableWasTold ==
  /\ Names(told) \subseteq Names(table)
  /\ \A x \in Names(table) :
       IF x \in Names(told) THEN Metric(table, x) = Metric(told, x) ELSE Metric(table, x) = 0

\* A pass that finds the neighbors of the one before leaves all of them in
\* the table, when they fit, and nobody else: one that came while the table
\* was full of neighbors that had gone waits one pass.
TableSettles ==
  [][passes' # passes /\ list = before /\ Len(list) <= TableSize =>
       Names(table') = ToSet(list)]_ndVars
=============================================================================
