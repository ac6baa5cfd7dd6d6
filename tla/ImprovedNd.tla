----------------------------- MODULE ImprovedNd -----------------------------
(***************************************************************************)
(* Neighbor discovery by beacons (contiki-sdn/sdn-nd/improved-naive-nd.c): *)
(* a node sends beacons at intervals that double, puts one off whenever it *)
(* has sent something else, and takes everything it hears or overhears as  *)
(* a sign of life.  What did not come shows in the gaps of the sequence    *)
(* numbers of the MAC layer, and the last of it is kept as a bit vector.   *)
(*                                                                         *)
(* One node and one of its neighbors; the others matter for the room they  *)
(* leave in the table, and for their events.  Within a step of time the    *)
(* order is open.  The metric is a function of the two counters; that it   *)
(* is raised with a missed beacon, until the next frame, is left out.      *)
(***************************************************************************)
EXTENDS Integers, Sequences, FiniteSets

CONSTANTS
  Unit,            \* RECEIVE_BEACON_UNIT, in steps of time
  MaxInterval,     \* MAX_BEACON_INTERVAL, in steps of time
  Missable,        \* DEFAULT_MISSABLE_BEACONS
  Bits,            \* the bits of history
  MacMod, CountMod,    \* 2^8: of the sequence numbers and of the counters
  Near             \* 48, the change of a metric that is not worth a report

ASSUME ImprovedNdAssumption ==
  /\ Unit \in Nat \ {0} /\ MaxInterval \in Nat \ {0} /\ 2 * Unit <= MaxInterval
  /\ Missable \in Nat \ {0} /\ Bits \in Nat \ {0} /\ MacMod \in Nat \ {0} /\ CountMod \in Nat \ {0}
  /\ Bits < CountMod /\ Near \in Nat

VARIABLES
  neighbor,   \* its beacon_interval, the time to send_beacon_timer, and MAC number
  alive,
  entry,      \* what the table has of it, or Absent
  wait,       \* time to receive_beacon_timer
  full,       \* the others fill the table
  \* History: what the properties refer to.
  reported,       \* it was in the table at the last event
  lost,       \* frames lost since a beacon was heard, up to 3
  gap         \* the history vector had a gap of more than what it had room for

beaconVars == <<neighbor, alive, entry, wait, full, reported, lost, gap>>

Absent == [none |-> TRUE]
Present(e) == e # Absent

Smaller(a, b) == IF a < b THEN a ELSE b

\* improved_naive_nd_init: the first interval comes from the address.
ImprovedNdInit ==
  /\ \E i \in Unit .. 2 * Unit - 1 : neighbor = [interval |-> i, timer |-> i, seq |-> 0]
  /\ alive = TRUE /\ entry = Absent /\ wait = Unit /\ full = FALSE
  /\ reported = FALSE /\ lost = 0 /\ gap = FALSE

----------------------------------------------------------------------------
(* The history                                                             *)

Zeros(n) == [i \in 1 .. n |-> 0]
Ones(h) == Cardinality({i \in DOMAIN h : h[i] = 1})

\* initialize_info: no delivery rate until a second frame.
Unknown == 273

\* initialize_info
Initialized(e) ==
  [e EXCEPT !.history = Zeros(Bits), !.failures = 0, !.successes = 0, !.informed = Unknown]

\* Only the last frame of so many was received.
AllLost(e) ==
  [e EXCEPT !.history = Append(Zeros(Bits - 1), 1), !.failures = Bits - 1, !.successes = 1]

\* The oldest go as the newest come.
Shifted(e, losses) ==
  LET out == SubSeq(e.history, 1, losses + 1)
  IN  [e EXCEPT !.failures = (@ + losses - (losses + 1 - Ones(out))) % CountMod,
                !.successes = (@ + 1 - Ones(out)) % CountMod,
                !.history = Append(SubSeq(@, losses + 2, Bits) \o Zeros(losses), 1)]

\* Mutant of Filled: one bit too far.
FilledBehind(e, losses) ==
  [e EXCEPT !.history = [@ EXCEPT ![Smaller(Bits, e.failures + e.successes + losses + 2)] = 1],
            !.failures = (@ + losses) % CountMod, !.successes = (@ + 1) % CountMod]

Filled(e, losses) ==
  [e EXCEPT !.history = [@ EXCEPT ![e.failures + e.successes + losses + 1] = 1],
            !.failures = (@ + losses) % CountMod, !.successes = (@ + 1) % CountMod]

Losses(e, seq) == (seq - e.last - 1) % MacMod

Overflows(e, losses) == e.failures + e.successes + losses + 1 > Bits

Rate(e) == 1 + (255 * e.failures) \div (e.failures + e.successes)

\* update_info, but for the event.
Estimated(e, seq) ==
  LET losses == Losses(e, seq)
  IN  IF losses >= Bits THEN AllLost(e)
      ELSE IF Overflows(e, losses) THEN Shifted(e, losses) ELSE Filled(e, losses)

WorthEvent(e) == Rate(e) > e.informed + Near \/ Rate(e) + Near < e.informed

----------------------------------------------------------------------------
(* Frames of the neighbor                                                  *)

\* The time to the next beacon: it is told, kept, or the longest there is.
Expected(beacon, interval, e) ==
  IF beacon THEN 1 + interval \div Unit ELSE IF Present(e) THEN e.expected ELSE 1 + MaxInterval \div Unit

\* Mutant of Refreshed: what was missed before counts on.
RefreshedOnce(e, x, seq) == [e EXCEPT !.expected = x, !.count = x, !.last = seq]

Refreshed(e, x, seq) == [e EXCEPT !.expected = x, !.count = x, !.missable = Missable, !.last = seq]

\* improved_naive_nd_input
NdInput(beacon, interval, seq) ==
  LET x == Expected(beacon, interval, entry)
      new == [expected |-> x, count |-> x, missable |-> Missable, last |-> seq,
              history |-> <<>>, failures |-> 0, successes |-> 0, informed |-> Unknown]
      heard == IF Present(entry)
               THEN Refreshed(Estimated(entry, seq), x, seq)
               ELSE Initialized(new)
      event == Present(entry) /\ WorthEvent(heard)
  IN  IF ~ Present(entry) /\ full THEN UNCHANGED <<entry, reported, lost, gap>>
      ELSE /\ entry' = IF event THEN [heard EXCEPT !.informed = Rate(heard)] ELSE heard
           /\ reported' = (reported \/ event)
           /\ lost' = IF beacon \/ ~ Present(entry) THEN 0 ELSE lost
           /\ LET losses == Losses(entry, seq)
              IN  gap' = IF ~ Present(entry) \/ losses >= Bits THEN FALSE
                         ELSE gap \/ (Overflows(entry, losses) /\ entry.failures + entry.successes < Bits)

\* A frame is heard, or lost.
Sent(beacon, interval, seq) ==
  \/ NdInput(beacon, interval, seq)
  \/ lost' = Smaller(3, lost + 1) /\ UNCHANGED <<entry, reported, gap>>

\* improved_naive_nd_process, of the neighbor: the beacon tells the new interval.
SendNdBeacon ==
  /\ alive /\ neighbor.timer = 0
  /\ LET interval == Smaller(2 * neighbor.interval, MaxInterval)
         seq == (neighbor.seq + 1) % MacMod
     IN  /\ neighbor' = [interval |-> interval, timer |-> interval, seq |-> seq]
         /\ Sent(TRUE, interval, seq)
  /\ UNCHANGED <<alive, wait, full>>

\* A frame to some other node; improved_naive_link_estimate_update when the
\* MAC layer reports success.
SendOther ==
  /\ alive /\ neighbor.timer > 0
  /\ LET seq == (neighbor.seq + 1) % MacMod
     IN  /\ \E success \in BOOLEAN :
              neighbor' = [neighbor EXCEPT !.seq = seq, !.timer = IF success THEN neighbor.interval ELSE @]
         /\ Sent(FALSE, 0, seq)
  /\ UNCHANGED <<alive, wait, full>>

Die == alive /\ alive' = FALSE /\ UNCHANGED <<neighbor, entry, wait, full, reported, lost, gap>>

----------------------------------------------------------------------------
(* Time                                                                    *)

Elapse ==
  /\ wait > 0 /\ (alive => neighbor.timer > 0)
  /\ wait' = wait - 1
  /\ neighbor' = IF alive THEN [neighbor EXCEPT !.timer = @ - 1] ELSE neighbor
  /\ UNCHANGED <<alive, entry, full, reported, lost, gap>>

Missed(e) == [e EXCEPT !.count = e.expected, !.missable = @ - 1]

\* The event at a removal.
Reported(e) == reported /\ Present(e)

\* decrease_neighbors_liveness
DecreaseLiveness ==
  /\ wait = 0 /\ wait' = Unit
  /\ LET counted == [entry EXCEPT !.count = @ - 1]
     IN  entry' = IF ~ Present(entry) THEN entry
                  ELSE IF counted.count > 0 THEN counted
                  ELSE IF entry.missable > 1 THEN Missed(entry) ELSE Absent
  /\ reported' = Reported(entry')
  /\ UNCHANGED <<neighbor, alive, full, lost, gap>>

\* Other neighbors come and go, with an event.
Others ==
  /\ full' \in BOOLEAN
  /\ reported' = Present(entry)
  /\ UNCHANGED <<neighbor, alive, entry, wait, lost, gap>>

ImprovedNdNext == SendNdBeacon \/ SendOther \/ Die \/ Elapse \/ DecreaseLiveness \/ Others

ImprovedNdSpec == ImprovedNdInit /\ [][ImprovedNdNext]_beaconVars

----------------------------------------------------------------------------
(* Properties                                                              *)

\* What an entry is expected within that no beacon tells of.
Longest == 1 + MaxInterval \div Unit

\* A neighbor that lives is removed only after frames of it were lost since a
\* beacon of it was heard, although other frames put its beacons off: three of
\* them when its interval does not grow any more, and one at least before.
NotRemovedEarly ==
  [][Present(entry) /\ ~ Present(entry') /\ alive =>
       lost >= IF entry.expected = Longest THEN 3 ELSE 1]_beaconVars

\* Three of the longest intervals are less than what a silent neighbor stays,
\* even if the first of its units is almost over: with 120 and 10 seconds and
\* 3 missable beacons, 360 of 380.
Patient == 3 * MaxInterval < (Missable * Longest - 1) * Unit

\* The delivery rate is that of the history: the counters, kept by sums and
\* differences, are the ones and zeros of the vector.  It does not hold after
\* a gap that made a vector not yet full give up more than it had to.
HistoryMatches ==
  Present(entry) /\ ~ gap =>
    LET n == entry.failures + entry.successes
    IN  /\ n <= Bits
        /\ entry.successes = Ones(SubSeq(entry.history, 1, n))
        /\ entry.successes = Ones(entry.history)

\* Of a neighbor that is no longer in the table the controller is told; of
\* one in it unless its delivery rate is bad from the start.
NeighborWasReported ==
  /\ reported => Present(entry)
  /\ Present(entry) /\ ~ reported => entry.informed = Unknown

\* The controller knows the neighbor, and its rate is what was heard of it.
EntryIsTrue == HistoryMatches /\ NeighborWasReported
=============================================================================
