------------------------ MODULE DistributedDetection ------------------------
(***************************************************************************)
(* Distributed intrusion detection.  Every node takes a sample of a metric *)
(* at a fixed period, learns from MWin - 1 of them, compares the following *)
(* ones with those (a CUSUM test) and names to the controller, once, the   *)
(* sender it has most often met without a flow entry                       *)
(* (sdn-common/sdn-node-security-module.c).  The controller counts what    *)
(* each sender is accused of and lists it as an attacker when it reaches   *)
(* half the number of its neighbors                                        *)
(* (controller-server/sdn-security-module.c).                              *)
(*                                                                         *)
(* A sample is its own number, so that sums tell which samples they add.   *)
(* The test compares floating point numbers: its verdict is left open.     *)
(***************************************************************************)
EXTENDS Integers, Sequences, FiniteSets, FiniteSetsExt

CONSTANTS
  Nodes,
  Senders,      \* sources of data packets
  NoAddr,       \* sdnaddr_null
  MWin,         \* m_win: samples of the training, the first one not used
  DWin,         \* d_win: samples watched before the training moves on
  SusBuff,      \* sus_buff
  AlarmWidth,   \* values of the counter alarms, a uint8_t
  Degrees,      \* bound: numbers of neighbors of a sender in the digraph
  MaxSamples,   \* bound: samples a node takes
  MaxRestarts   \* bound: restarts of nodes, of all together

\* "ts_counter < 2000 is hard code, just for these simulations": with longer
\* windows a node would not get to test them.
ASSUME DetectionAssumption ==
  /\ MWin \in Nat /\ DWin \in Nat \ {0} /\ MWin > DWin + 1 /\ MWin + DWin < 2000
  /\ SusBuff \in Nat /\ SusBuff > 1 /\ AlarmWidth \in Nat \ {0}
  /\ NoAddr \notin Senders
  /\ Degrees \subseteq Nat /\ MaxSamples \in Nat /\ MaxRestarts \in Nat

VARIABLES
  cusum,       \* of each node: training, monitoring, the sums, ts_counter
  suspects,    \* of each node: suspects_list and add_counter
  net,         \* alarms underway
  accused,     \* sus_list: a sequence of [id, alarms]
  blocklist,   \* att_list: a sequence of addresses
  degree,      \* digraph_count_edges of each sender
  restarts,    \* of each node: how often it has restarted
  \* History: what the properties refer to.
  heard,       \* of each node: the suspects added, the latest last
  raised,      \* the alarms that got out of a node
  lowest       \* the least degree of each sender, but for zero

vars == <<cusum, suspects, net, accused, blocklist, degree, restarts, heard, raised, lowest>>

SumOf(samples, ks) == MapThenSumSet(LAMBDA k : samples[k], ks)

\* ts_counter once a change is found: 2000, and one more.
Detected == 2001

NoCusum ==
  [training |-> [k \in 0 .. MWin - 1 |-> 0], monitoring |-> [k \in 0 .. DWin |-> 0],
   q1 |-> 0, q2 |-> 0, ts |-> 0, taken |-> 0]

NoSuspects == [list |-> [k \in 0 .. SusBuff - 1 |-> NoAddr], add |-> 0]

Init ==
  /\ cusum = [n \in Nodes |-> NoCusum]
  /\ suspects = [n \in Nodes |-> NoSuspects]
  /\ net = {} /\ accused = <<>> /\ blocklist = <<>>
  /\ degree \in [Senders -> Degrees]
  /\ restarts = [n \in Nodes |-> 0]
  /\ heard = [n \in Nodes |-> <<>>]
  /\ raised = {}
  /\ lowest = [s \in Senders |-> degree[s]]

controller == <<accused, blocklist, degree, lowest>>

\* security_node_sum_q1, which adds to the sum it finds.
SumQ1(q1, training) == q1 + SumOf(training, 1 .. MWin - 1)

\* A sample of the training, up to the one that ends it.
Trained(c, sample) ==
  LET training == [c.training EXCEPT ![c.ts] = sample]
  IN  [c EXCEPT !.training = training, !.ts = c.ts + 1, !.taken = sample,
                !.q1 = IF c.ts = MWin - 1 THEN SumQ1(@, training) ELSE @]

\* A sample of the watch.  The last one of a period is written behind the end
\* of monitoring, whose indexes end at DWin - 1, and read back from there.
Watched(c, sample) ==
  [c EXCEPT !.monitoring[c.ts - MWin] = sample, !.q2 = @ + sample, !.taken = sample]

\* Mutant of NewPeriod: the sum of the watch is not reset.
NewPeriodOnSum(c) ==
  LET training == [k \in 0 .. MWin - 1 |->
                     IF k = 0 THEN c.training[0]
                     ELSE IF k < MWin - DWin THEN c.training[k + DWin]
                     ELSE c.monitoring[k - (MWin - DWin)]]
  IN  [c EXCEPT !.training = training, !.q1 = SumQ1(0, training), !.ts = MWin,
                !.monitoring = [k \in 0 .. DWin |-> IF k < DWin THEN 0 ELSE @[k]]]

\* security_new_period: the watched samples become the newest of the training.
NewPeriod(c) ==
  LET training == [k \in 0 .. MWin - 1 |->
                     IF k = 0 THEN c.training[0]
                     ELSE IF k < MWin - DWin THEN c.training[k + DWin]
                     ELSE c.monitoring[k - (MWin - DWin)]]
  IN  [c EXCEPT !.training = training, !.q1 = SumQ1(0, training), !.q2 = 0, !.ts = MWin,
                !.monitoring = [k \in 0 .. DWin |-> IF k < DWin THEN 0 ELSE @[k]]]

\* A sample taken now is tested (security_node_variance_ts prepares the test,
\* security_node_cp_detector applies it).
Tested(c) == c.ts \in MWin .. MWin + DWin

Train(n) ==
  /\ cusum[n].taken < MaxSamples
  /\ cusum[n].ts < MWin
  /\ cusum' = [cusum EXCEPT ![n] = Trained(@, @.taken + 1)]
  /\ UNCHANGED <<suspects, net, restarts, heard, raised, controller>>

\* No change is found.
Watch(n) ==
  /\ cusum[n].taken < MaxSamples
  /\ Tested(cusum[n])
  /\ LET c == Watched(cusum[n], cusum[n].taken + 1)
     IN  cusum' = [cusum EXCEPT ![n] = IF c.ts = MWin + DWin THEN NewPeriod(c)
                                       ELSE [c EXCEPT !.ts = @ + 1]]
  /\ UNCHANGED <<suspects, net, restarts, heard, raised, controller>>

Occurs(list, s) == Cardinality({j \in DOMAIN list : list[j] = s})

\* security_node_choose_suspect: the most frequent of the list, the first one
\* of several, and a null pointer when the list is empty.
ChooseSuspect(u) ==
  LET filled == {i \in 0 .. SusBuff - 1 : \A j \in 0 .. i : u.list[j] # NoAddr}
      best   == {i \in filled : \A j \in filled : Occurs(u.list, u.list[j]) <= Occurs(u.list, u.list[i])}
  IN  IF filled = {} THEN NoAddr ELSE u.list[Min(best)]

\* Mutant of Stopped: the watch goes on.
GoesOn(c) == [c EXCEPT !.ts = IF c.ts = MWin + DWin THEN MWin ELSE @ + 1]

Stopped(c) == [c EXCEPT !.ts = Detected]

\* A change is found.  The alarm is sent if the pool and the send queue have
\* room, and the process stops either way.  What is read through the null
\* pointer of an empty list is taken to be no address of a sender.
Detect(n) ==
  /\ cusum[n].taken < MaxSamples
  /\ Tested(cusum[n])
  /\ cusum' = [cusum EXCEPT ![n] = Stopped(Watched(@, @.taken + 1))]
  /\ LET alarm == [node |-> n, boot |-> restarts[n],
                   suspect |-> ChooseSuspect(suspects[n])]
     IN  \/ /\ net' = net \cup {alarm}
            /\ raised' = raised \cup {alarm}
         \/ UNCHANGED <<net, raised>>
  /\ UNCHANGED <<suspects, restarts, heard, controller>>

\* Mutant of AddSuspect: a full list keeps what it has.
AddWhileRoom(u, s) ==
  IF u.add = SusBuff - 1 THEN u ELSE [list |-> [u.list EXCEPT ![u.add] = s], add |-> u.add + 1]

\* security_node_add_suspect: the last entry of the list is never used.
AddSuspect(u, s) ==
  LET at == IF u.add = SusBuff - 1 THEN 0 ELSE u.add
  IN  [list |-> [u.list EXCEPT ![at] = s], add |-> at + 1]

Latest(seq, k) == IF Len(seq) <= k THEN seq ELSE SubSeq(seq, Len(seq) - k + 1, Len(seq))

\* A data packet for whose flow n has no entry (sdn_treat_packet_receiv).
Suspect(n, s) ==
  /\ suspects' = [suspects EXCEPT ![n] = AddSuspect(@, s)]
  /\ heard' = [heard EXCEPT ![n] = Latest(Append(@, s), SusBuff - 1)]
  /\ UNCHANGED <<cusum, net, restarts, raised, controller>>

Restart(n) ==
  /\ SumOf(restarts, Nodes) < MaxRestarts
  /\ restarts' = [restarts EXCEPT ![n] = @ + 1]
  /\ cusum' = [cusum EXCEPT ![n] = NoCusum]
  /\ suspects' = [suspects EXCEPT ![n] = NoSuspects]
  /\ heard' = [heard EXCEPT ![n] = <<>>]
  /\ UNCHANGED <<net, raised, controller>>

Lose(alarm) ==
  /\ net' = net \ {alarm}
  /\ UNCHANGED <<cusum, suspects, restarts, heard, raised, controller>>

\* security_find_suspect and the counting of security_process_node_alarm.
Accused(s) ==
  IF \E i \in DOMAIN accused : accused[i].id = s
  THEN [i \in DOMAIN accused |->
          IF accused[i].id = s THEN [accused[i] EXCEPT !.alarms = (@ + 1) % AlarmWidth]
          ELSE accused[i]]
  ELSE Append(accused, [id |-> s, alarms |-> 1])

Degree(s) == IF s \in Senders THEN degree[s] ELSE 0

\* security_attacker_ident, with D_THRESHOLD one half.
IsAttacker(s, list) ==
  /\ Degree(s) # 0
  /\ \E i \in DOMAIN list : list[i].id = s /\ 2 * list[i].alarms >= Degree(s)

InBlocklist(s) == \E i \in DOMAIN blocklist : blocklist[i] = s

\* security_node_to_blocklist
ToBlocklist(s) == Append(blocklist, s)

\* process_mngt_data hands the alarm to security_process_node_alarm, which
\* makes no use of who sent it.
Alarm(alarm) ==
  /\ net' = net \ {alarm}
  /\ accused' = Accused(alarm.suspect)
  /\ blocklist' =
       IF IsAttacker(alarm.suspect, accused') /\ ~ InBlocklist(alarm.suspect)
       THEN ToBlocklist(alarm.suspect) ELSE blocklist
  /\ UNCHANGED <<cusum, suspects, restarts, heard, raised, degree, lowest>>

\* The digraph changes with the neighbor reports.
Topology(s, d) ==
  /\ degree' = [degree EXCEPT ![s] = d]
  /\ lowest' = [lowest EXCEPT ![s] = IF d # 0 /\ (@ = 0 \/ d < @) THEN d ELSE @]
  /\ UNCHANGED <<cusum, suspects, net, accused, blocklist, restarts, heard, raised>>

Next ==
  \/ \E n \in Nodes : Train(n) \/ Watch(n) \/ Detect(n) \/ Restart(n)
  \/ \E n \in Nodes, s \in Senders : Suspect(n, s)
  \/ \E alarm \in net : Lose(alarm) \/ Alarm(alarm)
  \/ \E s \in Senders, d \in Degrees : Topology(s, d)

Spec == Init /\ [][Next]_vars

----------------------------------------------------------------------------
(* Properties                                                              *)

\* The test compares what it should: the training is MWin - 1 samples in the
\* order they were taken, q1 is their sum, and q2 is the sum of the samples
\* since.  No sample counts twice, and none is left out but the last one of a
\* period, the one behind the end of monitoring.
WindowsMatch ==
  \A n \in Nodes :
    LET c     == cusum[n]
        since == c.ts - MWin
    IN  c.ts \in MWin .. MWin + DWin =>
          /\ \A k \in 1 .. MWin - 2 : c.training[k + 1] - c.training[k] \in {1, 2}
          /\ c.training[MWin - 1] \in {c.taken - since - 1, c.taken - since}
          /\ c.q1 = SumOf(c.training, 1 .. MWin - 1)
          /\ c.q2 = SumOf([i \in 1 .. c.taken |-> i], c.taken - since + 1 .. c.taken)

\* An alarm names a sender that no other one exceeds among the suspects the
\* list has room for, and no sender only when there was no suspect.
Times(n, s) == Cardinality({i \in DOMAIN heard[n] : heard[n][i] = s})

NamesTheMostFrequent ==
  [][\A a \in raised' \ raised :
       /\ a.suspect = NoAddr => heard[a.node] = <<>>
       /\ \A s \in Senders : a.suspect # NoAddr => Times(a.node, s) <= Times(a.node, a.suspect)]_vars

\* The blocklist takes agreement: as each node raises one alarm a boot, a
\* sender on it has been accused by half as many nodes (or boots of nodes) as
\* it ever had neighbors, and it is on the list once.
Accusers(s) == {<<a.node, a.boot>> : a \in {b \in raised : b.suspect = s}}

BlockedByMany ==
  \A i \in DOMAIN blocklist :
    /\ 2 * Cardinality(Accusers(blocklist[i])) >= lowest[blocklist[i]]
    /\ \A j \in DOMAIN blocklist : blocklist[i] = blocklist[j] => i = j
=============================================================================
