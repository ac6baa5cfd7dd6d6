-------------------------- MODULE CentralDetection --------------------------
(***************************************************************************)
(* Centralised intrusion detection.  Nodes count the control and data      *)
(* packets they send, sinks the data packets they receive                  *)
(* (sdn-common/manage-info.c), and report the counts to the controller in  *)
(* management packets; the sink mote reports its own over the serial line  *)
(* and then signals that a sampling period is over.  The controller adds   *)
(* the counts up (controller-server/sdn-metrics-cal.c) and takes a sample  *)
(* of each metric into a time series that it tests for a change            *)
(* (controller-server/sdn-security-module.c, second half).                 *)
(*                                                                         *)
(* The delivery rate is a multiple of the packets received, and is kept as *)
(* their number.  The verdict of the test, a comparison of floating point  *)
(* numbers, is left open.                                                  *)
(***************************************************************************)
EXTENDS Integers, Sequences, FiniteSets, FiniteSetsExt

CONSTANTS
  EnabledNodes,  \* nodes that send data
  Sinks,         \* sinks of data
  Mote,          \* the controller's sink mote
  SSkip,         \* S_SKIP: samples at the start that are not used
  CentralMWin,   \* M_WIN: samples before the test begins
  MaxCounted,    \* bound: packets counted of each kind
  MaxReports,    \* bound: reports of each node and sink
  MaxCentral     \* bound: reports of the mote, hence samples

ASSUME CentralAssumption ==
  /\ SSkip \in Nat /\ CentralMWin \in Nat /\ SSkip < CentralMWin
  /\ IsFiniteSet(EnabledNodes) /\ IsFiniteSet(Sinks)
  /\ Mote \notin EnabledNodes \cup Sinks /\ EnabledNodes \cap Sinks = {}
  /\ MaxCounted \in Nat /\ MaxReports \in Nat /\ MaxCentral \in Nat

VARIABLES
  ctrlTx,     \* ctrl_tx of the nodes and the mote
  dataTx,     \* data_tx of the nodes
  dataRx,     \* data_rx of the sinks
  reports,    \* the number of reports of each node and sink, and of the mote
  mngt,       \* management packets underway
  line,       \* serial frames from the mote to the controller
  current,    \* current_control_pckts_tx, current_data_pckts_tx
  total,      \* total_control_pckts_tx, total_data_pckts_tx and _rx
  rate,       \* current_data_pckts_dr
  series,     \* ctrl_overhead and data_pckt_dr
  sums,       \* their sums of training and of the watch
  attacks,    \* what security_global_attack_identifier has named
  \* History: what the properties refer to.
  counted,    \* packets counted by anyone
  lost        \* counts that went with a packet that did not get through

nodeVars == <<ctrlTx, dataTx, dataRx, reports>>
pcVars == <<current, total, rate, series, sums, attacks>>
centralVars == <<nodeVars, mngt, line, pcVars, counted, lost>>

Metrics == {"CTRL_PCKTS_OVHD", "DATA_PCKTS_DR"}

CentralInit ==
  /\ ctrlTx = [n \in EnabledNodes \cup {Mote} |-> 0]
  /\ dataTx = [n \in EnabledNodes |-> 0] /\ dataRx = [s \in Sinks |-> 0]
  /\ reports = [n \in EnabledNodes \cup Sinks \cup {Mote} |-> 0]
  /\ mngt = {} /\ line = <<>>
  /\ current = [ctrl |-> 0, data |-> 0]
  /\ total = [ctrl |-> 0, data |-> 0, rx |-> 0]
  /\ rate = 0
  /\ series = [m \in Metrics |-> <<>>]
  /\ sums = [m \in Metrics |-> [q1 |-> 0, q2 |-> 0]]
  /\ attacks = {}
  /\ counted = [ctrl |-> 0, data |-> 0, rx |-> 0]
  /\ lost = [ctrl |-> 0, data |-> 0, rx |-> 0]

\* manag_update, when sdn_send_process hands a packet of the node's own to
\* the MAC layer, the commutator one that is not the SDN's, or a data packet
\* is received.
CountCtrl(n) ==
  /\ counted.ctrl < MaxCounted
  /\ ctrlTx' = [ctrlTx EXCEPT ![n] = @ + 1]
  /\ counted' = [counted EXCEPT !.ctrl = @ + 1]
  /\ UNCHANGED <<dataTx, dataRx, reports, mngt, line, pcVars, lost>>

CountDataTx(n) ==
  /\ counted.data < MaxCounted
  /\ dataTx' = [dataTx EXCEPT ![n] = @ + 1]
  /\ counted' = [counted EXCEPT !.data = @ + 1]
  /\ UNCHANGED <<ctrlTx, dataRx, reports, mngt, line, pcVars, lost>>

CountDataRx(s) ==
  /\ counted.rx < MaxCounted
  /\ dataRx' = [dataRx EXCEPT ![s] = @ + 1]
  /\ counted' = [counted EXCEPT !.rx = @ + 1]
  /\ UNCHANGED <<ctrlTx, dataTx, reports, mngt, line, pcVars, lost>>

\* Mutant of AfterReading: reading leaves the counter as it is.
AfterReadingOnly(counter, n) == counter

\* manag_get_info, which resets the counter it returns.
AfterReading(counter, n) == [counter EXCEPT ![n] = 0]

WithLost(p) == [lost EXCEPT !.ctrl = @ + p.ctrl, !.data = @ + p.data, !.rx = @ + p.rx]

\* sdn_send_data_management once it has a buffer: the counters are read, and
\* the packet is dropped if the send queue is full.
Enqueue(p) ==
  /\ reports[p.from] < MaxReports
  /\ reports' = [reports EXCEPT ![p.from] = @ + 1]
  /\ \/ mngt' = mngt \cup {p} /\ UNCHANGED lost
     \/ lost' = WithLost(p) /\ UNCHANGED mngt

\* The node's report: data packets sent and control packets sent.
ReportNode(n) ==
  /\ Enqueue([from |-> n, no |-> reports[n], ctrl |-> ctrlTx[n], data |-> dataTx[n], rx |-> 0])
  /\ ctrlTx' = AfterReading(ctrlTx, n)
  /\ dataTx' = AfterReading(dataTx, n)
  /\ UNCHANGED <<dataRx, line, pcVars, counted>>

\* The sink's report: data packets received.
ReportSink(s) ==
  /\ Enqueue([from |-> s, no |-> reports[s], ctrl |-> 0, data |-> 0, rx |-> dataRx[s]])
  /\ dataRx' = AfterReading(dataRx, s)
  /\ UNCHANGED <<ctrlTx, dataTx, line, pcVars, counted>>

\* The mote's security timer: its own count, and the end of the period.
MoteTimer ==
  /\ reports[Mote] < MaxCentral
  /\ reports' = [reports EXCEPT ![Mote] = @ + 1]
  /\ line' = line \o <<[type |-> "CTRL_PCKT_TX", value |-> ctrlTx[Mote]], [type |-> "SEC", value |-> 0]>>
  /\ ctrlTx' = AfterReading(ctrlTx, Mote)
  /\ UNCHANGED <<dataTx, dataRx, mngt, pcVars, counted, lost>>

LosePacket(p) ==
  /\ mngt' = mngt \ {p}
  /\ lost' = WithLost(p)
  /\ UNCHANGED <<nodeVars, line, pcVars, counted>>

LoseFrame ==
  /\ line # <<>>
  /\ line' = Tail(line)
  /\ lost' = [lost EXCEPT !.ctrl = @ + Head(line).value]
  /\ UNCHANGED <<nodeVars, mngt, pcVars, counted>>

\* process_mngt_data of a node's report (sdn_process_node_metrics, twice).
NodeMetrics(p) ==
  /\ p \in mngt
  /\ p.from \in EnabledNodes
  /\ mngt' = mngt \ {p}
  /\ current' = [ctrl |-> current.ctrl + p.ctrl, data |-> current.data + p.data]
  /\ UNCHANGED <<nodeVars, line, total, rate, series, sums, attacks, counted, lost>>

\* process_mngt_data of a sink's report (sdn_process_sink_metrics): the rate
\* is that of the last sink to report.
SinkMetrics(p) ==
  /\ p \in mngt
  /\ p.from \in Sinks
  /\ mngt' = mngt \ {p}
  /\ rate' = p.rx
  /\ total' = [total EXCEPT !.rx = @ + p.rx, !.data = @ + current.data]
  /\ current' = [current EXCEPT !.data = 0]
  /\ UNCHANGED <<nodeVars, line, series, sums, attacks, counted, lost>>

CtrlFrame ==
  /\ line # <<>>
  /\ Head(line).type = "CTRL_PCKT_TX"
  /\ line' = Tail(line)
  /\ current' = [current EXCEPT !.ctrl = @ + Head(line).value]
  /\ UNCHANGED <<nodeVars, mngt, total, rate, series, sums, attacks, counted, lost>>

Sum(ts, ks) == MapThenSumSet(LAMBDA k : ts[k], ks)

\* security_sum_q1 and security_sum_q2.
Summed(s, ts) ==
  [q1 |-> IF Len(ts) = CentralMWin THEN s.q1 + Sum(ts, SSkip + 1 .. CentralMWin) ELSE s.q1,
   q2 |-> IF Len(ts) > CentralMWin THEN s.q2 + ts[Len(ts)] ELSE s.q2]

\* What security_global_attack_identifier names if the test finds a change.
AttackOf == [m \in Metrics |-> IF m = "CTRL_PCKTS_OVHD" THEN "FDFF" ELSE "FNI"]

\* What security_ts_construction appends: sdn_cal_control_overhead and
\* ret_data_dr.
Measured == [m \in Metrics |-> IF m = "CTRL_PCKTS_OVHD" THEN current.ctrl ELSE rate]

\* The metrics security_cp_detector is applied to after the sample ts.
TestedMetrics(ts) == {m \in Metrics : Len(ts[m]) > CentralMWin}

\* sdn_security_sample: both metrics are sampled, sdn_cal_control_overhead
\* moves the current count of control packets to the total.
Sample ==
  /\ line # <<>>
  /\ Head(line).type = "SEC"
  /\ line' = Tail(line)
  /\ total' = [total EXCEPT !.ctrl = @ + current.ctrl]
  /\ current' = [current EXCEPT !.ctrl = 0]
  /\ series' = [m \in Metrics |-> Append(series[m], Measured[m])]
  /\ sums' = [m \in Metrics |-> Summed(sums[m], series'[m])]
  /\ \E found \in SUBSET TestedMetrics(series') :
       attacks' = attacks \cup {AttackOf[m] : m \in found}
  /\ UNCHANGED <<nodeVars, mngt, rate, counted, lost>>

CentralNext ==
  \/ \E n \in EnabledNodes \cup {Mote} : CountCtrl(n)
  \/ \E n \in EnabledNodes : CountDataTx(n) \/ ReportNode(n)
  \/ \E s \in Sinks : CountDataRx(s) \/ ReportSink(s)
  \/ MoteTimer \/ LoseFrame \/ CtrlFrame \/ Sample
  \/ \E p \in mngt : LosePacket(p) \/ NodeMetrics(p) \/ SinkMetrics(p)

CentralSpec == CentralInit /\ [][CentralNext]_centralVars

----------------------------------------------------------------------------
(* Properties                                                              *)

\* Every packet counted is in one place: a counter, a report underway or
\* lost, the controller's current count or (control packets) one sample, or
\* (data packets) the total.
InPackets(f) == MapThenSumSet(LAMBDA p : p[f], mngt)
OnLine == MapThenSumSet(LAMBDA i : line[i].value, DOMAIN line)
Sampled(m) == Sum(series[m], DOMAIN series[m])

EveryPacketCountsOnce ==
  /\ counted.ctrl = Sum(ctrlTx, DOMAIN ctrlTx) + InPackets("ctrl") + OnLine
                    + current.ctrl + Sampled("CTRL_PCKTS_OVHD") + lost.ctrl
  /\ counted.data = Sum(dataTx, DOMAIN dataTx) + InPackets("data")
                    + current.data + total.data + lost.data
  /\ counted.rx = Sum(dataRx, DOMAIN dataRx) + InPackets("rx") + total.rx + lost.rx
  /\ total.ctrl = Sampled("CTRL_PCKTS_OVHD")

\* The test compares as many samples as it is told: M = M_WIN - S_SKIP of the
\* training and i_s, all of those after it, of the watch.
SumsOfSeries ==
  \A m \in Metrics :
    LET len == Len(series[m])
    IN  /\ len >= CentralMWin => sums[m].q1 = Sum(series[m], SSkip + 1 .. CentralMWin)
        /\ sums[m].q2 = Sum(series[m], CentralMWin + 1 .. len)

\* From the counters of the nodes to the sums that are compared.
CountsAddUp == EveryPacketCountsOnce /\ SumsOfSeries
=============================================================================
