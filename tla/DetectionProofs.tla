-------------------------- MODULE DetectionProofs --------------------------
(***************************************************************************)
(* Proofs about DistributedDetection and CentralDetection for any nodes,   *)
(* windows, lists and numbers of samples, restarts and packets.            *)
(***************************************************************************)
EXTENDS DistributedDetection, CentralDetection, NumberLemmas

----------------------------------------------------------------------------
(* The list of suspects holds the latest of them, the oldest one behind    *)
(* the place where the next one is written.                                *)

Room == SusBuff - 1

\* Which of len suspects is at place i of the list.
Place(i, add, len) == IF i < add THEN len - add + i + 1 ELSE i - add + 1

Tracks(u, h) ==
  /\ h \in Seq(Senders) /\ Len(h) <= Room
  /\ u \in [list : [0 .. SusBuff - 1 -> Senders \cup {NoAddr}], add : 0 .. Room]
  /\ \A i \in 0 .. SusBuff - 1 : i >= Len(h) => u.list[i] = NoAddr
  /\ Len(h) < Room => u.add = Len(h)
  /\ \A i \in 0 .. Len(h) - 1 : u.list[i] = h[Place(i, u.add, Len(h))]

LEMMA PlaceIn ==
  ASSUME NEW len \in Nat, NEW add \in 0 .. len, NEW i \in 0 .. len - 1
  PROVE  /\ Place(i, add, len) \in 1 .. len
         /\ \A j \in 0 .. len - 1 : Place(i, add, len) = Place(j, add, len) => i = j
  BY DEF Place

LEMMA PlaceOnto ==
  ASSUME NEW len \in Nat, NEW add \in 0 .. len, NEW k \in 1 .. len
  PROVE  \E i \in 0 .. len - 1 : Place(i, add, len) = k
<1> DEFINE i == IF k <= len - add THEN add + k - 1 ELSE k - (len - add) - 1
<1>1. i \in 0 .. len - 1 /\ Place(i, add, len) = k
  BY DEF Place
<1> QED
  BY <1>1

LEMMA TracksFacts ==
  ASSUME NEW u, NEW h, Tracks(u, h)
  PROVE  /\ SusBuff \in Nat /\ Room \in Nat \ {0} /\ Room = SusBuff - 1
         /\ Len(h) \in Nat /\ DOMAIN h = 1 .. Len(h) /\ Len(h) <= Room
         /\ \A i \in 1 .. Len(h) : h[i] \in Senders
         /\ DOMAIN u.list = 0 .. SusBuff - 1
         /\ u.add \in 0 .. Len(h) /\ u.add \in 0 .. Room /\ (Len(h) < Room => u.add = Len(h))
         /\ NoAddr \notin Senders
<1>1. SusBuff \in Nat /\ Room \in Nat \ {0} /\ Room = SusBuff - 1 /\ NoAddr \notin Senders
  BY DetectionAssumption DEF Room
<1>2. /\ Len(h) \in Nat /\ DOMAIN h = 1 .. Len(h) /\ Len(h) <= Room
      /\ \A i \in 1 .. Len(h) : h[i] \in Senders
      /\ DOMAIN u.list = 0 .. SusBuff - 1
      /\ u.add \in 0 .. Room /\ (Len(h) < Room => u.add = Len(h))
  BY DEF Tracks
<1> QED
  BY <1>1, <1>2

\* The latest Room of the suspects, and the next one.
LEMMA LatestOf ==
  ASSUME NEW h \in Seq(Senders), Len(h) <= Room, NEW s \in Senders
  PROVE  LET l == Latest(Append(h, s), Room)
         IN  /\ l \in Seq(Senders)
             /\ Len(h) < Room => /\ Len(l) = Len(h) + 1
                                 /\ \A i \in 1 .. Len(h) : l[i] = h[i]
             /\ Len(h) = Room => /\ Len(l) = Room
                                 /\ \A i \in 1 .. Room - 1 : l[i] = h[i + 1]
             /\ l[Len(l)] = s
<1> DEFINE a == Append(h, s)
           l == Latest(a, Room)
<1>1. /\ a \in Seq(Senders) /\ Len(a) = Len(h) + 1 /\ a[Len(h) + 1] = s
      /\ \A i \in 1 .. Len(h) : a[i] = h[i]
      /\ Len(h) \in Nat /\ Room \in Nat \ {0}
  BY DetectionAssumption DEF Room
<1> HIDE DEF a
<1>2. CASE Len(h) < Room
  <2>1. l = a
    BY <1>1, <1>2 DEF Latest
  <2> HIDE DEF l
  <2> QED
    BY <1>1, <1>2, <2>1 DEF l, a
<1>3. CASE Len(h) = Room
  <2>1. l = SubSeq(a, 2, Room + 1)
    BY <1>1, <1>3 DEF Latest
  <2>2. /\ l \in Seq(Senders) /\ Len(l) = Room
        /\ \A i \in 1 .. Room : l[i] = a[i + 1]
    BY <1>1, <1>3, <2>1
  <2> HIDE DEF l
  <2>3. l[Room] = s /\ \A i \in 1 .. Room - 1 : l[i] = h[i + 1]
    BY <1>1, <1>3, <2>2
  <2> QED
    BY <1>1, <1>3, <2>2, <2>3 DEF l, a
<1> QED
  BY <1>1, <1>2, <1>3

LEMMA AddTracks ==
  ASSUME NEW u, NEW h, Tracks(u, h), NEW s \in Senders
  PROVE  Tracks(AddSuspect(u, s), Latest(Append(h, s), Room))
<1> DEFINE l == Latest(Append(h, s), Room)
           at == IF u.add = Room THEN 0 ELSE u.add
           list == [u.list EXCEPT ![at] = s]
           v == AddSuspect(u, s)
           n == Len(h)
<1>0. SusBuff \in Nat /\ Room \in Nat \ {0} /\ Room = SusBuff - 1 /\ n \in Nat
  BY TracksFacts
<1>1. /\ l \in Seq(Senders) /\ Len(l) \in Nat
      /\ n < Room => Len(l) = n + 1 /\ \A i \in 1 .. n : l[i] = h[i]
      /\ n = Room => Len(l) = Room /\ \A i \in 1 .. Room - 1 : l[i] = h[i + 1]
      /\ l[Len(l)] = s
  BY LatestOf DEF Tracks
<1> HIDE DEF l
<1>2. v.list = list /\ v.add = at + 1 /\ v = [list |-> list, add |-> at + 1]
  BY DEF AddSuspect, Room
<1>3. /\ at \in 0 .. Room - 1 /\ n <= Room /\ (n < Room => at = n)
      /\ u.add \in 0 .. Room /\ (at = u.add \/ (at = 0 /\ u.add = Room))
  BY <1>0 DEF Tracks
<1>4. /\ list \in [0 .. SusBuff - 1 -> Senders \cup {NoAddr}]
      /\ \A i \in 0 .. SusBuff - 1 : list[i] = IF i = at THEN s ELSE u.list[i]
  BY <1>0, <1>3 DEF Tracks
<1> HIDE DEF list, at, v
<1>5. v \in [list : [0 .. SusBuff - 1 -> Senders \cup {NoAddr}], add : 0 .. Room]
  BY <1>0, <1>2, <1>3, <1>4
<1>6. CASE n < Room
  <2>1. at = n /\ Len(l) = n + 1 /\ v.add = n + 1
    BY <1>1, <1>2, <1>3, <1>6
  <2>2. ASSUME NEW i \in 0 .. n PROVE list[i] = l[Place(i, v.add, n + 1)]
    <3>1. Place(i, v.add, n + 1) = i + 1
      BY <1>0, <2>1 DEF Place
    <3>2. CASE i = n
      BY <1>0, <1>1, <1>4, <1>6, <2>1, <3>1, <3>2
    <3>3. CASE i # n
      <4>1. i \in 0 .. n - 1 /\ i \in 0 .. SusBuff - 1 /\ i + 1 \in 1 .. n
        BY <1>0, <1>6, <3>3
      <4>2. u.list[i] = h[i + 1]
        BY <1>0, <1>6, <4>1 DEF Tracks, Place
      <4> QED
        BY <1>1, <1>4, <1>6, <2>1, <3>1, <3>3, <4>1, <4>2
    <3> QED
      BY <3>2, <3>3
  <2>3. \A i \in 0 .. SusBuff - 1 : i >= n + 1 => list[i] = NoAddr
    BY <1>0, <1>4, <2>1 DEF Tracks
  <2>4. Len(l) - 1 = n /\ Len(l) <= Room
    BY <1>0, <1>6, <2>1
  <2>5. Tracks(v, l)
    BY <1>1, <1>2, <1>5, <2>1, <2>2, <2>3, <2>4 DEF Tracks
  <2> QED
    BY <2>5 DEF l, v
<1>7. CASE n = Room
  <2>1. Len(l) = Room /\ v.add = at + 1
    BY <1>1, <1>2, <1>7
  <2>2. ASSUME NEW i \in 0 .. Room - 1 PROVE list[i] = l[Place(i, at + 1, Room)]
    <3>1. i \in 0 .. SusBuff - 1 /\ u.list[i] = h[Place(i, u.add, Room)]
      BY <1>0, <1>7 DEF Tracks
    <3>2. CASE i = at
      <4>1. Place(i, at + 1, Room) = Room
        BY <1>0, <1>3, <3>2 DEF Place
      <4> QED
        BY <1>1, <1>4, <2>1, <3>1, <3>2, <4>1
    <3>3. CASE i < at
      <4>1. /\ at = u.add
            /\ Place(i, at + 1, Room) = Room - at + i
            /\ Place(i, u.add, Room) = Room - at + i + 1
            /\ Room - at + i \in 1 .. Room - 1
        BY <1>0, <1>3, <3>3 DEF Place
      <4> QED
        BY <1>1, <1>4, <1>7, <3>1, <3>3, <4>1
    <3>4. CASE i > at
      <4>1. /\ Place(i, at + 1, Room) = i - at
            /\ Place(i, u.add, Room) = i - at + 1
            /\ i - at \in 1 .. Room - 1
        BY <1>0, <1>3, <3>4 DEF Place
      <4> QED
        BY <1>1, <1>4, <1>7, <3>1, <3>4, <4>1
    <3> QED
      BY <1>3, <3>2, <3>3, <3>4
  <2>3. \A i \in 0 .. SusBuff - 1 : i >= Room => list[i] = NoAddr
    BY <1>0, <1>3, <1>4, <1>7 DEF Tracks
  <2> QED
    BY <1>0, <1>1, <1>2, <1>5, <1>7, <2>1, <2>2, <2>3 DEF Tracks, l, v
<1> QED
  BY <1>0, <1>3, <1>6, <1>7

\* A suspect is in the list as often as among the latest.
LEMMA OccursTimes ==
  ASSUME NEW u, NEW h, Tracks(u, h), NEW s, s # NoAddr
  PROVE  /\ Occurs(u.list, s) = Cardinality({i \in DOMAIN h : h[i] = s})
         /\ Occurs(u.list, s) \in Nat /\ Occurs(u.list, s) <= SusBuff
<1> DEFINE n == Len(h)
           add == u.add
           J == {j \in DOMAIN u.list : u.list[j] = s}
           I == {i \in DOMAIN h : h[i] = s}
           g == [j \in J |-> Place(j, add, n)]
<1>1. /\ SusBuff \in Nat /\ Room = SusBuff - 1 /\ n \in Nat /\ n <= Room
      /\ DOMAIN u.list = 0 .. SusBuff - 1 /\ DOMAIN h = 1 .. n /\ add \in 0 .. n
  BY TracksFacts
<1>2. /\ \A j \in 0 .. n - 1 : u.list[j] = h[Place(j, add, n)]
      /\ \A j \in 0 .. SusBuff - 1 : j >= n => u.list[j] = NoAddr
  BY DEF Tracks
<1> HIDE DEF n, add
<1>3. \A j \in J : j \in 0 .. n - 1 /\ u.list[j] = s
  BY <1>1, <1>2
<1>4. \A j \in J : Place(j, add, n) \in I
  BY <1>1, <1>2, <1>3, PlaceIn
<1>5. \A i, j \in J : Place(i, add, n) = Place(j, add, n) => i = j
  BY <1>1, <1>3, PlaceIn
<1>6. ASSUME NEW i \in I PROVE \E j \in J : Place(j, add, n) = i
  <2>1. i \in 1 .. n /\ h[i] = s
    BY <1>1
  <2>2. PICK j \in 0 .. n - 1 : Place(j, add, n) = i
    BY <1>1, <2>1, PlaceOnto
  <2>3. u.list[j] = s /\ j \in 0 .. SusBuff - 1
    BY <1>1, <1>2, <2>1, <2>2
  <2> QED
    BY <1>1, <2>2, <2>3
<1>8. /\ IsFiniteSet(J) /\ Cardinality(J) \in Nat /\ Cardinality(J) <= SusBuff
  <2>1. IsFiniteSet(0 .. SusBuff - 1) /\ Cardinality(0 .. SusBuff - 1) = SusBuff
    BY <1>1, FS_Interval
  <2>2. J \in SUBSET (0 .. SusBuff - 1)
    BY <1>1
  <2> QED
    BY <2>1, <2>2, FS_Subset, FS_CardinalityType
<1>10. Occurs(u.list, s) = Cardinality(J)
  BY DEF Occurs
<1> HIDE DEF I, J
<1>7. g \in Bijection(J, I)
  <2>1. g \in [J -> I] /\ \A i \in J, j \in J : g[i] = g[j] => i = j
    BY <1>4, <1>5
  <2>2. \A i \in I : \E j \in J : g[j] = i
    BY <1>6
  <2> HIDE DEF g
  <2> QED
    BY <2>1, <2>2 DEF Bijection, Injection, Surjection, IsInjective
<1>9. Cardinality(J) = Cardinality(I)
  <2> HIDE DEF g
  <2>1. ExistsBijection(J, I)
    BY <1>7 DEF ExistsBijection
  <2> QED
    BY <1>8, <2>1, FS_Bijection
<1> QED
  BY <1>8, <1>9, <1>10 DEF I

\* The choice from the list is one of the most frequent suspects.
LEMMA ChosenIsMost ==
  ASSUME NEW u, NEW h, Tracks(u, h)
  PROVE  LET c == ChooseSuspect(u)
             T(s) == Cardinality({i \in DOMAIN h : h[i] = s})
         IN  /\ c \in Senders \cup {NoAddr}
             /\ c = NoAddr => h = <<>>
             /\ c # NoAddr => \A s \in Senders : T(s) <= T(c)
<1> DEFINE n == Len(h)
           filled == {i \in 0 .. SusBuff - 1 : \A j \in 0 .. i : u.list[j] # NoAddr}
           O(i) == Occurs(u.list, u.list[i])
           best == {i \in filled : \A j \in filled : O(j) <= O(i)}
           c == ChooseSuspect(u)
           T(s) == Cardinality({i \in DOMAIN h : h[i] = s})
<1>0. SusBuff \in Nat /\ Room \in Nat \ {0} /\ Room = SusBuff - 1 /\ n \in Nat
      /\ NoAddr \notin Senders
  BY TracksFacts
<1>1. /\ DOMAIN u.list = 0 .. SusBuff - 1 /\ n <= Room /\ DOMAIN h = 1 .. n
      /\ \A i \in 1 .. n : h[i] \in Senders
      /\ u.add \in 0 .. n
  BY TracksFacts
<1>2. ASSUME NEW i \in 0 .. n - 1 PROVE u.list[i] \in Senders
  <2>1. Place(i, u.add, n) \in 1 .. n
    <3> DEFINE add == u.add
    <3>1. add \in 0 .. n
      BY <1>1
    <3> HIDE DEF add, n
    <3>2. Place(i, add, n) \in 1 .. n
      BY <1>0, <3>1, PlaceIn
    <3> QED
      BY <3>2 DEF add
  <2> QED
    BY <1>1, <2>1 DEF Tracks
<1>3. filled = 0 .. n - 1
  <2>1. ASSUME NEW i \in 0 .. n - 1 PROVE i \in filled
    BY <1>0, <1>1, <1>2
  <2>2. ASSUME NEW i \in filled PROVE i \in 0 .. n - 1
    <3>1. i \in 0 .. SusBuff - 1 /\ u.list[i] # NoAddr
      OBVIOUS
    <3> QED
      BY <1>0, <3>1 DEF Tracks
  <2> QED
    BY <2>1, <2>2
<1>4. c = IF filled = {} THEN NoAddr ELSE u.list[Min(best)]
  BY DEF ChooseSuspect
<1> HIDE DEF filled, c
<1>5. CASE n = 0
  <2>1. filled = {} /\ h = <<>>
    BY <1>0, <1>3, <1>5 DEF Tracks
  <2> QED
    BY <1>4, <2>1 DEF c
<1>6. CASE n # 0
  <2>0. 0 \in filled
    BY <1>0, <1>3, <1>6
  <2>1. \A i \in filled : O(i) \in Nat /\ O(i) <= SusBuff
    BY <1>0, <1>2, <1>3, OccursTimes
  <2>2. best # {} /\ best \subseteq Nat
    <3> DEFINE short == {SusBuff - O(i) : i \in filled}
    <3> HIDE DEF O
    <3>1. short \subseteq Nat /\ short # {}
      BY <1>0, <2>0, <2>1
    <3>2. PICK k \in short : \A l \in short : k <= l
      <4> HIDE DEF short
      <4> QED
        BY <3>1, HasLeast
    <3>3. PICK i \in filled : k = SusBuff - O(i)
      BY <3>2
    <3>4. ASSUME NEW j \in filled PROVE O(j) <= O(i)
      <4>1. k <= SusBuff - O(j) /\ O(i) \in Nat /\ O(j) \in Nat
        BY <2>1, <3>2
      <4> QED
        BY <1>0, <3>3, <4>1
    <3> QED
      BY <1>3, <3>3, <3>4
  <2> DEFINE m == Min(best)
  <2>3. m \in best
    <3> HIDE DEF best
    <3>1. \E k \in best : \A l \in best : k <= l
      BY <2>2, HasLeast
    <3> QED
      BY <3>1 DEF Min
  <2> HIDE DEF m
  <2>4. m \in 0 .. n - 1 /\ c = u.list[m]
    BY <1>3, <1>4, <2>0, <2>3 DEF m
  <2>5. c \in Senders /\ c # NoAddr
    BY <1>0, <1>2, <2>4
  <2>6. ASSUME NEW s \in Senders PROVE T(s) <= T(c)
    <3>1. T(s) = Occurs(u.list, s) /\ T(c) = Occurs(u.list, c)
          /\ Occurs(u.list, c) \in Nat
      <4>1. s # NoAddr
        BY <1>0
      <4> QED
        BY <2>5, <4>1, OccursTimes
    <3>2. CASE \E j \in DOMAIN u.list : u.list[j] = s
      <4>1. PICK j \in 0 .. SusBuff - 1 : u.list[j] = s
        BY <1>1, <3>2
      <4>2. j \in filled
        <5>1. ~ (j >= n)
          BY <1>0, <4>1 DEF Tracks
        <5> QED
          BY <1>0, <1>3, <5>1
      <4> QED
        BY <2>3, <2>4, <3>1, <4>1, <4>2
    <3>3. CASE ~ \E j \in DOMAIN u.list : u.list[j] = s
      <4>1. Occurs(u.list, s) = 0
        BY <3>3, FS_EmptySet DEF Occurs
      <4> QED
        BY <3>1, <4>1
    <3> QED
      BY <3>2, <3>3
  <2> QED
    BY <2>5, <2>6 DEF c
<1> QED
  BY <1>5, <1>6

AllTrack ==
  /\ DOMAIN suspects = Nodes /\ DOMAIN heard = Nodes
  /\ \A n \in Nodes : Tracks(suspects[n], heard[n])

LEMMA NothingTracked == Tracks(NoSuspects, <<>>)
<1>1. SusBuff \in Nat /\ Room = SusBuff - 1 /\ Room \in Nat \ {0}
  BY DetectionAssumption DEF Room
<1>2. /\ <<>> \in Seq(Senders) /\ Len(<<>>) = 0
      /\ NoSuspects \in [list : [0 .. SusBuff - 1 -> Senders \cup {NoAddr}], add : 0 .. Room]
      /\ NoSuspects.add = 0
      /\ \A i \in 0 .. SusBuff - 1 : NoSuspects.list[i] = NoAddr
  BY <1>1 DEF NoSuspects
<1> QED
  BY <1>1, <1>2 DEF Tracks

LEMMA TrackInit == Init => AllTrack
  BY NothingTracked DEF Init, AllTrack

LEMMA TrackNext == AllTrack /\ [Next]_vars => AllTrack'
<1> SUFFICES ASSUME AllTrack, [Next]_vars PROVE AllTrack'
  OBVIOUS
<1>1. CASE \E n \in Nodes : Restart(n)
  BY <1>1, NothingTracked DEF Restart, AllTrack
<1>2. CASE \E n \in Nodes, s \in Senders : Suspect(n, s)
  <2> PICK n \in Nodes, s \in Senders : Suspect(n, s)
    BY <1>2
  <2>1. /\ suspects' = [suspects EXCEPT ![n] = AddSuspect(suspects[n], s)]
        /\ heard' = [heard EXCEPT ![n] = Latest(Append(heard[n], s), Room)]
    BY DEF Suspect, Room
  <2>2. Tracks(AddSuspect(suspects[n], s), Latest(Append(heard[n], s), Room))
    BY AddTracks DEF AllTrack
  <2> QED
    BY <2>1, <2>2 DEF AllTrack
<1>3. CASE UNCHANGED <<suspects, heard>>
  BY <1>3 DEF AllTrack
<1>4. \/ \E n \in Nodes : Restart(n)
      \/ \E n \in Nodes, s \in Senders : Suspect(n, s)
      \/ UNCHANGED <<suspects, heard>>
  BY DEF Next, Train, Watch, Detect, Lose, Alarm, Topology, vars
<1> QED
  BY <1>1, <1>2, <1>3, <1>4

\* An alarm names a sender that is most frequent among the suspects that
\* the list has room for (security_node_choose_suspect), whatever was
\* overwritten before in the list that security_node_add_suspect fills in
\* turn, and nobody only if there was no suspect.
THEOREM MostFrequentNamed == Spec => NamesTheMostFrequent
<1> DEFINE Named == \A a \in raised' \ raised :
             /\ a.suspect = NoAddr => heard[a.node] = <<>>
             /\ \A s \in Senders : a.suspect # NoAddr => Times(a.node, s) <= Times(a.node, a.suspect)
<1>1. AllTrack /\ [Next]_vars => [Named]_vars
  <2> SUFFICES ASSUME AllTrack, Next, NEW a \in raised', a \notin raised
               PROVE  /\ a.suspect = NoAddr => heard[a.node] = <<>>
                      /\ \A s \in Senders :
                           a.suspect # NoAddr => Times(a.node, s) <= Times(a.node, a.suspect)
    OBVIOUS
  <2>1. \E n \in Nodes : Detect(n)
    BY DEF Next, Train, Watch, Restart, Suspect, Lose, Alarm, Topology
  <2>2. PICK n \in Nodes : a = [node |-> n, boot |-> restarts[n],
                                suspect |-> ChooseSuspect(suspects[n])]
    BY <2>1 DEF Detect
  <2>3. a.node = n /\ a.suspect = ChooseSuspect(suspects[n])
    BY <2>2
  <2>4. Tracks(suspects[n], heard[n])
    BY DEF AllTrack
  <2> QED
    BY <2>3, <2>4, ChosenIsMost DEF Times
<1> QED
  BY <1>1, TrackInit, TrackNext, PTL DEF Spec, NamesTheMostFrequent

----------------------------------------------------------------------------
(* The samples a node keeps, and their sums.                               *)

Cusums ==
  [training : [0 .. MWin - 1 -> Nat], monitoring : [0 .. DWin -> Nat],
   q1 : Int, q2 : Int, ts : Nat, taken : Nat]

\* The sums of the model are totals.
LEMMA SumIsTotal == ASSUME NEW f, NEW S PROVE SumOf(f, S) = Total(f, S)
<1>1. SumOf(f, S) =
        (CHOOSE it : it = [s \in SUBSET S |->
           IF s = {} THEN 0
           ELSE f[CHOOSE x \in s : TRUE] + it[s \ {CHOOSE x \in s : TRUE}]])[S]
  BY DEF SumOf, MapThenSumSet, MapThenFoldSet
<1> QED
  BY <1>1 DEF Total, Adds, Picked

Upto(t) == [i \in 1 .. t |-> i]

\* The window is full of the first samples, or moves on with every period.
Kept(c) ==
  LET since == c.ts - MWin
  IN  /\ c \in Cusums
      /\ c.ts \in 0 .. MWin + DWin \cup {Detected}
      /\ c.ts < MWin => /\ c.taken = c.ts /\ c.q1 = 0 /\ c.q2 = 0
                        /\ \A k \in 0 .. c.ts - 1 : c.training[k] = k + 1
      /\ Tested(c) =>
           /\ \A k \in 1 .. MWin - 2 : c.training[k + 1] - c.training[k] \in {1, 2}
           /\ c.training[MWin - 1] \in {c.taken - since - 1, c.taken - since}
           /\ since <= c.taken
           /\ \A j \in 0 .. since - 1 : c.monitoring[j] = c.taken - since + 1 + j
           /\ c.q1 = Total(c.training, 1 .. MWin - 1)
           /\ c.q2 = Total(Upto(c.taken), c.taken - since + 1 .. c.taken)

LEMMA Sizes ==
  /\ MWin \in Nat /\ DWin \in Nat /\ DWin > 0 /\ MWin > DWin + 1
  /\ MWin + DWin < Detected /\ Detected = 2001
  BY DetectionAssumption DEF Detected

LEMMA CusumFields ==
  ASSUME NEW c \in Cusums
  PROVE  /\ c.training \in [0 .. MWin - 1 -> Nat] /\ c.monitoring \in [0 .. DWin -> Nat]
         /\ c.q1 \in Int /\ c.q2 \in Int /\ c.ts \in Nat /\ c.taken \in Nat
         /\ c = [training |-> c.training, monitoring |-> c.monitoring,
                 q1 |-> c.q1, q2 |-> c.q2, ts |-> c.ts, taken |-> c.taken]
  BY DEF Cusums

LEMMA TrainingSum ==
  ASSUME NEW f \in [0 .. MWin - 1 -> Nat]
  PROVE  Total(f, 1 .. MWin - 1) \in Int /\ SumQ1(0, f) = Total(f, 1 .. MWin - 1)
<1> DEFINE S == 1 .. MWin - 1
<1>1. IsFiniteSet(S) /\ \A x \in S : f[x] \in Int
  BY Sizes, FS_Interval
<1> HIDE DEF S
<1>2. Total(f, S) \in Int /\ SumOf(f, S) = Total(f, S)
  BY <1>1, TotalRemove, SumIsTotal
<1> QED
  BY <1>2 DEF S, SumQ1

LEMMA WatchSum ==
  ASSUME NEW t \in Nat, NEW a \in Nat, a >= 1, a <= t + 1
  PROVE  /\ Total(Upto(t), a .. t) \in Int
         /\ Total(Upto(t + 1), a .. t + 1) = Total(Upto(t), a .. t) + t + 1
<1> DEFINE S == a .. t
           u == t + 1
           f == Upto(t)
           g == Upto(u)
           R == a .. u
<1>1. /\ IsFiniteSet(S) /\ u \notin S /\ R = S \cup {u}
      /\ g[u] = u /\ u \in Int /\ u = t + 1
      /\ \A x \in S : f[x] = g[x] /\ g[x] \in Int /\ f[x] \in Int
  <2>1. IsFiniteSet(S)
    BY FS_Interval
  <2>2. u \notin S /\ R = S \cup {u} /\ u \in Int /\ u \in 1 .. u
    OBVIOUS
  <2>3. \A x \in S : x \in 1 .. t /\ x \in 1 .. u /\ x \in Int
    OBVIOUS
  <2> QED
    BY <2>1, <2>2, <2>3 DEF Upto
<1> HIDE DEF S, u, f, g, R
<1>2. Total(f, S) = Total(g, S)
  BY <1>1, TotalSame
<1>3. Total(g, S \cup {u}) = g[u] + Total(g, S) /\ Total(g, S) \in Int
  BY <1>1, TotalAdd
<1>4. Total(f, S) \in Int /\ Total(g, R) = Total(f, S) + u
  BY <1>1, <1>2, <1>3
<1> QED
  BY <1>1, <1>4 DEF S, f, g, u, R

LEMMA KeptNothing == Kept(NoCusum)
<1>1. /\ NoCusum \in Cusums /\ NoCusum.ts = 0 /\ NoCusum.taken = 0
      /\ NoCusum.q1 = 0 /\ NoCusum.q2 = 0
  BY Sizes DEF NoCusum, Cusums
<1> QED
  BY <1>1, Sizes DEF Kept, Tested

LEMMA KeptTrained ==
  ASSUME NEW c, Kept(c), c.ts < MWin
  PROVE  Kept(Trained(c, c.taken + 1))
<1> DEFINE d == Trained(c, c.taken + 1)
           training == [c.training EXCEPT ![c.ts] = c.taken + 1]
<1>1. /\ c \in Cusums /\ c.ts \in Nat /\ c.taken = c.ts /\ c.q1 = 0 /\ c.q2 = 0
      /\ \A k \in 0 .. c.ts - 1 : c.training[k] = k + 1
      /\ c.training \in [0 .. MWin - 1 -> Nat]
  BY DEF Kept, Cusums
<1> DEFINE ts == c.ts
<1>2. /\ training \in [0 .. MWin - 1 -> Nat]
      /\ \A k \in 0 .. ts : training[k] = k + 1
  <2>1. ts \in 0 .. MWin - 1 /\ c.taken + 1 \in Nat /\ c.taken + 1 = ts + 1
    BY <1>1, Sizes
  <2>2. \A k \in 0 .. ts - 1 : c.training[k] = k + 1 /\ k \in 0 .. MWin - 1 /\ k # ts
    BY <1>1, Sizes
  <2> DEFINE old == c.training
             x == c.taken + 1
  <2>3. training = [old EXCEPT ![ts] = x] /\ old \in [0 .. MWin - 1 -> Nat]
        /\ ts \in Nat /\ x \in Nat /\ x = ts + 1
    BY <1>1, <2>1
  <2> HIDE DEF training, old, x, ts
  <2>4. training \in [0 .. MWin - 1 -> Nat] /\ training[ts] = x
    BY <2>1, <2>3
  <2>5. ASSUME NEW k \in 0 .. ts - 1 PROVE training[k] = k + 1
    BY <2>2, <2>3 DEF old
  <2> QED
    BY <2>3, <2>4, <2>5
<1> HIDE DEF training, ts
<1>3. /\ d.training = training /\ d.ts = c.ts + 1 /\ d.taken = c.taken + 1
      /\ d.monitoring = c.monitoring /\ d.q2 = 0
      /\ d.q1 = IF c.ts = MWin - 1 THEN SumQ1(0, training) ELSE 0
      /\ d = [training |-> d.training, monitoring |-> d.monitoring,
              q1 |-> d.q1, q2 |-> d.q2, ts |-> d.ts, taken |-> d.taken]
  <2> DEFINE q == IF c.ts = MWin - 1 THEN SumQ1(c.q1, training) ELSE c.q1
  <2>1. d = [c EXCEPT !.training = training, !.ts = c.ts + 1, !.taken = c.taken + 1, !.q1 = q]
    BY DEF Trained, training
  <2>2. q = IF c.ts = MWin - 1 THEN SumQ1(0, training) ELSE 0
    BY <1>1
  <2> DEFINE t == c.taken + 1
             next == c.ts + 1
  <2> HIDE DEF q, d, t, next
  <2>4. d = [c EXCEPT !.training = training, !.ts = next, !.taken = t, !.q1 = q]
    BY <2>1 DEF t, next
  <2>3. d = [training |-> training, monitoring |-> c.monitoring, q1 |-> q,
             q2 |-> c.q2, ts |-> c.ts + 1, taken |-> c.taken + 1]
    BY <1>1, <2>4 DEF Cusums, t, next
  <2> QED
    BY <1>1, <2>2, <2>3
<1>4. d.q1 = (IF c.ts = MWin - 1 THEN Total(training, 1 .. MWin - 1) ELSE 0) /\ d.q1 \in Int
  BY <1>2, <1>3, TrainingSum
<1> HIDE DEF d
<1>5. d \in Cusums
  BY <1>1, <1>2, <1>3, <1>4 DEF Cusums
<1>6. CASE c.ts = MWin - 1
  <2>1. d.ts = MWin /\ d.taken = MWin /\ Tested(d)
    BY <1>1, <1>3, <1>6, Sizes DEF Tested
  <2>2. /\ \A k \in 1 .. MWin - 2 : d.training[k + 1] - d.training[k] \in {1, 2}
        /\ d.training[MWin - 1] = MWin
    <3>1. \A k \in 0 .. MWin - 1 : d.training[k] = k + 1
      BY <1>2, <1>3, <1>6 DEF ts
    <3>2. MWin - 1 \in 0 .. MWin - 1 /\ (MWin - 1) + 1 = MWin
      BY Sizes
    <3>3. ASSUME NEW k \in 1 .. MWin - 2 PROVE d.training[k + 1] - d.training[k] \in {1, 2}
      <4>1. /\ k \in 0 .. MWin - 1 /\ k + 1 \in 0 .. MWin - 1 /\ ((k + 1) + 1) - (k + 1) = 1
        BY Sizes
      <4> QED
        BY <3>1, <4>1
    <3> QED
      BY <3>1, <3>2, <3>3
  <2>3. d.q2 = Total(Upto(d.taken), d.taken + 1 .. d.taken)
    <3>1. d.taken + 1 .. d.taken = {}
      BY <2>1, Sizes
    <3> QED
      BY <1>3, <3>1, TotalEmpty
  <2>4. d.ts - MWin = 0 /\ d.taken - 0 = d.taken
    BY <2>1, Sizes
  <2>5. d.q1 = Total(d.training, 1 .. MWin - 1)
    BY <1>3, <1>4, <1>6
  <2>6. d.ts \in 0 .. MWin + DWin /\ ~ (d.ts < MWin)
    BY <2>1, Sizes
  <2>7. \A j \in 0 .. 0 - 1 : FALSE
    OBVIOUS
  <2>8. d.taken - 0 + 1 = d.taken + 1 /\ MWin \in {d.taken - 0 - 1, d.taken - 0} /\ 0 <= d.taken
    BY <2>1, Sizes
  <2>9. Kept(d)
    BY <1>5, <2>1, <2>2, <2>3, <2>4, <2>5, <2>6, <2>7, <2>8 DEF Kept
  <2> QED
    BY <2>9 DEF d
<1>7. CASE c.ts # MWin - 1
  <2>1. /\ d.ts \in Nat /\ d.ts < MWin /\ d.taken = d.ts /\ d.q1 = 0 /\ d.q2 = 0
        /\ \A k \in 0 .. d.ts - 1 : d.training[k] = k + 1
        /\ ~ Tested(d) /\ d.ts \in 0 .. MWin + DWin
    <3>1. d.ts \in Nat /\ d.ts < MWin /\ d.taken = d.ts /\ d.q1 = 0 /\ d.q2 = 0
      BY <1>1, <1>3, <1>4, <1>7, Sizes
    <3>2. \A k \in 0 .. d.ts - 1 : d.training[k] = k + 1
      BY <1>1, <1>2, <1>3 DEF ts
    <3> QED
      BY <3>1, <3>2, Sizes DEF Tested
  <2> QED
    <3>1. Kept(d)
      BY <1>5, <2>1 DEF Kept
    <3> QED
      BY <3>1 DEF d
<1> QED
  BY <1>6, <1>7 DEF d

\* What a tested sample finds and leaves.
LEMMA KeptWatched ==
  ASSUME NEW c, Kept(c), Tested(c)
  PROVE  LET d     == Watched(c, c.taken + 1)
             since == c.ts - MWin
         IN  /\ d \in Cusums /\ d.ts = c.ts /\ d.training = c.training /\ d.q1 = c.q1
             /\ c.ts \in Nat /\ since \in 0 .. DWin /\ c.taken \in Nat /\ since <= c.taken
             /\ d.taken = c.taken + 1
             /\ \A j \in 0 .. since : d.monitoring[j] = c.taken - since + 1 + j
             /\ d.q2 = Total(Upto(d.taken), c.taken - since + 1 .. d.taken)
<1> DEFINE d == Watched(c, c.taken + 1)
           since == c.ts - MWin
           monitoring == [c.monitoring EXCEPT ![since] = c.taken + 1]
<1>1. /\ c \in Cusums /\ c.ts \in Nat /\ c.taken \in Nat /\ since \in 0 .. DWin
      /\ c.monitoring \in [0 .. DWin -> Nat] /\ c.q2 \in Int
      /\ since <= c.taken
      /\ \A j \in 0 .. since - 1 : c.monitoring[j] = c.taken - since + 1 + j
      /\ c.q2 = Total(Upto(c.taken), c.taken - since + 1 .. c.taken)
  <2>1. c \in Cusums /\ c.ts \in MWin .. MWin + DWin
    BY DEF Kept, Tested
  <2>2. since \in 0 .. DWin
    BY <2>1, Sizes
  <2> HIDE DEF since
  <2> QED
    BY <2>1, <2>2, CusumFields DEF Kept, since
<1>2. /\ monitoring \in [0 .. DWin -> Nat]
      /\ \A j \in 0 .. since : monitoring[j] = c.taken - since + 1 + j
  <2> DEFINE old == c.monitoring
             x == c.taken + 1
             t == c.taken
  <2>1. /\ monitoring = [old EXCEPT ![since] = x] /\ old \in [0 .. DWin -> Nat]
        /\ since \in 0 .. DWin /\ x \in Nat /\ x = t + 1 /\ t \in Nat
        /\ \A j \in 0 .. since - 1 : old[j] = t - since + 1 + j
    BY <1>1
  <2> HIDE DEF monitoring, old, x, since, t
  <2>2. monitoring \in [0 .. DWin -> Nat] /\ monitoring[since] = x
    BY <2>1
  <2>3. ASSUME NEW j \in 0 .. since - 1 PROVE monitoring[j] = t - since + 1 + j
    <3>1. j # since /\ j \in 0 .. DWin
      BY <2>1, Sizes
    <3> QED
      BY <2>1, <3>1
  <2>4. x = t - since + 1 + since
    BY <2>1, Sizes
  <2>5. \A j \in 0 .. since : j \in 0 .. since - 1 \/ j = since
    BY <2>1, Sizes
  <2> QED
    BY <2>2, <2>3, <2>4, <2>5 DEF t
<1>3. Total(Upto(c.taken + 1), c.taken - since + 1 .. c.taken + 1) = c.q2 + c.taken + 1
  <2> DEFINE a == c.taken - since + 1
             t == c.taken
  <2>1. a \in Nat /\ a >= 1 /\ a <= t + 1 /\ t \in Nat
    <3>1. since \in Nat /\ t \in Nat /\ since <= t /\ a = t - since + 1
      BY <1>1, Sizes
    <3> HIDE DEF since, t, a
    <3> QED
      BY <3>1
  <2> HIDE DEF a, t
  <2>2. Total(Upto(t + 1), a .. t + 1) = Total(Upto(t), a .. t) + t + 1
    BY <2>1, WatchSum
  <2> QED
    BY <1>1, <2>2 DEF a, t
<1> HIDE DEF monitoring, since
<1>4. /\ d.training = c.training /\ d.ts = c.ts /\ d.taken = c.taken + 1 /\ d.q1 = c.q1
      /\ d.monitoring = monitoring /\ d.q2 = c.q2 + (c.taken + 1)
      /\ d \in Cusums
  <2>1. d = [training |-> c.training, monitoring |-> monitoring,
             q1 |-> c.q1, q2 |-> c.q2 + (c.taken + 1), ts |-> c.ts, taken |-> c.taken + 1]
    <3>1. d = [c EXCEPT !.monitoring = monitoring, !.q2 = c.q2 + (c.taken + 1),
                        !.taken = c.taken + 1]
      <4>1. c = [training |-> c.training, monitoring |-> c.monitoring,
                 q1 |-> c.q1, q2 |-> c.q2, ts |-> c.ts, taken |-> c.taken]
        BY <1>1, CusumFields
      <4> QED
        BY <4>1 DEF Watched, monitoring, since
    <3> DEFINE q2 == c.q2 + (c.taken + 1)
               t == c.taken + 1
    <3> HIDE DEF d, q2, t
    <3>2. d = [c EXCEPT !.monitoring = monitoring, !.q2 = q2, !.taken = t]
      BY <3>1 DEF q2, t
    <3> QED
      BY <1>1, <3>2 DEF Cusums, q2, t
  <2> QED
    BY <1>1, <1>2, <2>1 DEF Cusums
<1>5. c.q2 + (c.taken + 1) = c.q2 + c.taken + 1
  BY <1>1
<1> HIDE DEF d
<1> QED
  BY <1>1, <1>2, <1>3, <1>4, <1>5 DEF d, since

LEMMA KeptOn ==
  ASSUME NEW c, Kept(c), Tested(c), NEW d, d = Watched(c, c.taken + 1), d.ts # MWin + DWin
  PROVE  Kept([d EXCEPT !.ts = @ + 1])
<1> DEFINE since == c.ts - MWin
           e == [d EXCEPT !.ts = @ + 1]
<1>1. /\ d \in Cusums /\ d.ts = c.ts /\ d.training = c.training /\ d.q1 = c.q1
      /\ c.ts \in Nat /\ since \in 0 .. DWin /\ c.taken \in Nat /\ since <= c.taken
      /\ d.taken = c.taken + 1
      /\ \A j \in 0 .. since : d.monitoring[j] = c.taken - since + 1 + j
      /\ d.q2 = Total(Upto(d.taken), c.taken - since + 1 .. d.taken)
  BY KeptWatched
<1>2. /\ \A k \in 1 .. MWin - 2 : c.training[k + 1] - c.training[k] \in {1, 2}
      /\ c.training[MWin - 1] \in {c.taken - since - 1, c.taken - since}
      /\ c.q1 = Total(c.training, 1 .. MWin - 1)
  BY DEF Kept
<1>3. /\ e \in Cusums /\ e.ts = c.ts + 1 /\ e.training = c.training /\ e.q1 = c.q1
      /\ e.monitoring = d.monitoring /\ e.q2 = d.q2 /\ e.taken = c.taken + 1
  <2>1. e = [training |-> d.training, monitoring |-> d.monitoring,
             q1 |-> d.q1, q2 |-> d.q2, ts |-> d.ts + 1, taken |-> d.taken]
    BY <1>1, CusumFields
  <2> HIDE DEF e
  <2> QED
    BY <1>1, <2>1, CusumFields DEF Cusums
<1> HIDE DEF e
<1>4. /\ e.ts - MWin = since + 1 /\ e.ts \in 0 .. MWin + DWin /\ ~ (e.ts < MWin)
      /\ e.taken - (since + 1) = c.taken - since
      /\ since + 1 <= e.taken
  <2> DEFINE ts == c.ts
             t == c.taken
  <2>1. /\ e.ts = ts + 1 /\ e.taken = t + 1 /\ ts \in Nat /\ t \in Nat /\ since = ts - MWin
        /\ since \in 0 .. DWin /\ since <= t /\ ts # MWin + DWin
    BY <1>1, <1>3
  <2> HIDE DEF ts, t, since
  <2>2. (ts + 1) - MWin = since + 1 /\ ts + 1 \in 0 .. MWin + DWin /\ ~ (ts + 1 < MWin)
        /\ (t + 1) - (since + 1) = t - since /\ since + 1 <= t + 1
    BY <2>1, Sizes
  <2> QED
    BY <2>1, <2>2 DEF t
<1>5. \A j \in 0 .. (since + 1) - 1 : e.monitoring[j] = e.taken - (since + 1) + 1 + j
  <2>1. (since + 1) - 1 = since
    BY <1>1, Sizes
  <2> HIDE DEF since
  <2> QED
    BY <1>1, <1>3, <1>4, <2>1
<1> HIDE DEF since
<1>6. e.q2 = Total(Upto(e.taken), e.taken - (since + 1) + 1 .. e.taken)
  BY <1>1, <1>3, <1>4
<1> QED
  BY <1>2, <1>3, <1>4, <1>5, <1>6 DEF Kept, e

LEMMA KeptPeriod ==
  ASSUME NEW c, Kept(c), Tested(c), NEW d, d = Watched(c, c.taken + 1), d.ts = MWin + DWin
  PROVE  Kept(NewPeriod(d))
<1> DEFINE e == NewPeriod(d)
           training == [k \in 0 .. MWin - 1 |->
                          IF k = 0 THEN d.training[0]
                          ELSE IF k < MWin - DWin THEN d.training[k + DWin]
                          ELSE d.monitoring[k - (MWin - DWin)]]
<1>0. c.ts - MWin = DWin /\ c.ts = MWin + DWin
  BY Sizes, KeptWatched
<1>1. /\ d \in Cusums /\ d.training = c.training
      /\ c.taken \in Nat /\ DWin <= c.taken /\ d.taken = c.taken + 1
      /\ \A j \in 0 .. DWin : d.monitoring[j] = c.taken - DWin + 1 + j
  BY <1>0, KeptWatched
<1>2. /\ \A k \in 1 .. MWin - 2 : d.training[k + 1] - d.training[k] \in {1, 2}
      /\ d.training[MWin - 1] \in {c.taken - DWin - 1, c.taken - DWin}
  BY <1>0, <1>1 DEF Kept
<1>3. /\ d.training \in [0 .. MWin - 1 -> Nat] /\ d.monitoring \in [0 .. DWin -> Nat]
  BY <1>1 DEF Cusums
<1>4. training \in [0 .. MWin - 1 -> Nat]
  <2> SUFFICES ASSUME NEW k \in 0 .. MWin - 1 PROVE training[k] \in Nat
    OBVIOUS
  <2>1. CASE k = 0
    BY <1>3, <2>1, Sizes
  <2>2. CASE k # 0 /\ k < MWin - DWin
    <3>1. k + DWin \in 0 .. MWin - 1
      BY <2>2, Sizes
    <3> QED
      BY <1>3, <2>2, <3>1
  <2>3. CASE k # 0 /\ ~ (k < MWin - DWin)
    <3>1. k - (MWin - DWin) \in 0 .. DWin
      BY <2>3, Sizes
    <3> QED
      BY <1>3, <2>3, <3>1
  <2> QED
    BY <2>1, <2>2, <2>3
<1>5. /\ training[MWin - 1] = c.taken
      /\ \A k \in 1 .. MWin - 2 : training[k + 1] - training[k] \in {1, 2}
  <2>1. training[MWin - 1] = c.taken
    <3>1. /\ MWin - 1 \in 0 .. MWin - 1 /\ MWin - 1 # 0 /\ ~ (MWin - 1 < MWin - DWin)
          /\ (MWin - 1) - (MWin - DWin) = DWin - 1 /\ DWin - 1 \in 0 .. DWin
      BY Sizes
    <3>2. training[MWin - 1] = d.monitoring[DWin - 1]
      BY <3>1
    <3> QED
      BY <1>1, <3>1, <3>2, Sizes
  <2>2. ASSUME NEW k \in 1 .. MWin - 2 PROVE training[k + 1] - training[k] \in {1, 2}
    <3>1. CASE k + 1 < MWin - DWin
      <4>1. /\ training[k + 1] = d.training[(k + DWin) + 1] /\ training[k] = d.training[k + DWin]
            /\ k + DWin \in 1 .. MWin - 2
        <5>1. (k + 1) + DWin = (k + DWin) + 1
          BY Sizes
        <5> QED
          BY <3>1, <5>1, Sizes
      <4> QED
        BY <1>2, <4>1
    <3>2. CASE k + 1 = MWin - DWin
      <4>1. /\ (k + 1) - (MWin - DWin) = 0 /\ k + DWin = MWin - 1 /\ k < MWin - DWin
            /\ k # 0 /\ k + 1 # 0 /\ k \in 0 .. MWin - 1 /\ k + 1 \in 0 .. MWin - 1
            /\ ~ (k + 1 < MWin - DWin) /\ 0 \in 0 .. DWin
        BY <3>2, Sizes
      <4>2. training[k + 1] = d.monitoring[0] /\ training[k] = d.training[MWin - 1]
        BY <4>1
      <4>3. training[k + 1] = c.taken - DWin + 1
        BY <1>1, <4>1, <4>2, Sizes
      <4> HIDE DEF training
      <4> QED
        BY <1>1, <1>2, <4>2, <4>3, Sizes
    <3>3. CASE k + 1 > MWin - DWin
      <4> DEFINE j == k - (MWin - DWin)
      <4>1. /\ j \in 0 .. DWin /\ j + 1 \in 0 .. DWin /\ (k + 1) - (MWin - DWin) = j + 1
            /\ k # 0 /\ k + 1 # 0 /\ k \in 0 .. MWin - 1 /\ k + 1 \in 0 .. MWin - 1
            /\ ~ (k + 1 < MWin - DWin) /\ ~ (k < MWin - DWin)
        BY <3>3, Sizes
      <4>2. training[k + 1] = d.monitoring[j + 1] /\ training[k] = d.monitoring[j]
        BY <4>1
      <4> HIDE DEF training, j
      <4>3. training[k + 1] = c.taken - DWin + 1 + (j + 1) /\ training[k] = c.taken - DWin + 1 + j
        BY <1>1, <4>1, <4>2
      <4> QED
        BY <1>1, <4>1, <4>3, Sizes
    <3> QED
      BY <3>1, <3>2, <3>3, Sizes
  <2> QED
    BY <2>1, <2>2
<1> DEFINE monitoring == [k \in 0 .. DWin |-> IF k < DWin THEN 0 ELSE d.monitoring[k]]
<1>6. monitoring \in [0 .. DWin -> Nat]
  BY <1>3, Sizes
<1>7. e = [training |-> training, monitoring |-> monitoring, q1 |-> SumQ1(0, training),
           q2 |-> 0, ts |-> MWin, taken |-> c.taken + 1]
  <2>1. e = [d EXCEPT !.training = training, !.q1 = SumQ1(0, training), !.q2 = 0, !.ts = MWin,
                      !.monitoring = monitoring]
    BY DEF NewPeriod
  <2> HIDE DEF training, monitoring
  <2> QED
    BY <1>1, <2>1 DEF Cusums
<1> HIDE DEF training, monitoring
<1>8. /\ e.training = training /\ e.q1 = Total(training, 1 .. MWin - 1) /\ e.q2 = 0
      /\ e.ts = MWin /\ e.taken = c.taken + 1 /\ e \in Cusums
  <2>1. SumQ1(0, training) = Total(training, 1 .. MWin - 1) /\ SumQ1(0, training) \in Int
    BY <1>4, TrainingSum
  <2> DEFINE q == SumQ1(0, training)
             t == c.taken + 1
  <2>2. e = [training |-> training, monitoring |-> monitoring, q1 |-> q, q2 |-> 0,
             ts |-> MWin, taken |-> t]
    BY <1>7
  <2>3. t \in Nat /\ MWin \in Nat
    BY <1>1, Sizes
  <2> HIDE DEF e, q, t
  <2>4. /\ e.training = training /\ e.q1 = q /\ e.q2 = 0 /\ e.ts = MWin /\ e.taken = t
    BY <2>2
  <2>5. e \in Cusums
    BY <1>4, <1>6, <2>1, <2>2, <2>3 DEF Cusums, q
  <2> QED
    BY <2>1, <2>4, <2>5 DEF q, t
<1> HIDE DEF e
<1>9. e.q2 = Total(Upto(e.taken), e.taken - 0 + 1 .. e.taken)
  <2>1. e.taken - 0 + 1 .. e.taken = {}
    BY <1>1, <1>8
  <2> QED
    BY <1>8, <2>1, TotalEmpty
<1>10. /\ e.ts - MWin = 0 /\ e.ts \in 0 .. MWin + DWin /\ ~ (e.ts < MWin) /\ 0 <= e.taken
       /\ e.taken - 0 - 1 = c.taken
  BY <1>1, <1>8, Sizes
<1>11. \A j \in 0 .. 0 - 1 : FALSE
  OBVIOUS
<1> QED
  BY <1>5, <1>8, <1>9, <1>10, <1>11 DEF Kept, e

LEMMA KeptStopped ==
  ASSUME NEW c, Kept(c), Tested(c)
  PROVE  /\ Kept(Stopped(Watched(c, c.taken + 1)))
         /\ ~ Tested(Stopped(Watched(c, c.taken + 1)))
<1> DEFINE d == Watched(c, c.taken + 1)
<1>1. d \in Cusums
  BY KeptWatched
<1> HIDE DEF d
<1>2. Stopped(d) \in Cusums /\ Stopped(d).ts = Detected
  BY <1>1 DEF Cusums, Stopped, Detected
<1> QED
  BY <1>2, Sizes DEF Kept, Tested, d

AllKept == DOMAIN cusum = Nodes /\ \A n \in Nodes : Kept(cusum[n])

LEMMA KeptInit == Init => AllKept
  BY KeptNothing DEF Init, AllKept

LEMMA KeptNext == AllKept /\ [Next]_vars => AllKept'
<1> SUFFICES ASSUME AllKept, [Next]_vars PROVE AllKept'
  OBVIOUS
<1>1. ASSUME NEW n \in Nodes, Train(n) PROVE AllKept'
  <2>1. Kept(cusum[n]) /\ cusum[n].ts < MWin
    BY <1>1 DEF AllKept, Train
  <2>2. cusum' = [cusum EXCEPT ![n] = Trained(cusum[n], cusum[n].taken + 1)]
    BY <1>1 DEF Train
  <2> QED
    BY <2>1, <2>2, KeptTrained DEF AllKept
<1>2. ASSUME NEW n \in Nodes, Watch(n) PROVE AllKept'
  <2> DEFINE c == Watched(cusum[n], cusum[n].taken + 1)
             e == IF c.ts = MWin + DWin THEN NewPeriod(c) ELSE [c EXCEPT !.ts = @ + 1]
  <2>1. Kept(cusum[n]) /\ Tested(cusum[n])
    BY <1>2 DEF AllKept, Watch
  <2>2. cusum' = [cusum EXCEPT ![n] = e]
    BY <1>2 DEF Watch
  <2>3. Kept(e)
    <3> HIDE DEF c
    <3>1. CASE c.ts = MWin + DWin
      BY <2>1, <3>1, KeptPeriod DEF c
    <3>2. CASE c.ts # MWin + DWin
      BY <2>1, <3>2, KeptOn DEF c
    <3> QED
      BY <3>1, <3>2
  <2> HIDE DEF e
  <2> QED
    BY <2>2, <2>3 DEF AllKept
<1>3. ASSUME NEW n \in Nodes, Detect(n) PROVE AllKept'
  <2>1. Kept(cusum[n]) /\ Tested(cusum[n])
    BY <1>3 DEF AllKept, Detect
  <2>2. cusum' = [cusum EXCEPT ![n] = Stopped(Watched(cusum[n], cusum[n].taken + 1))]
    BY <1>3 DEF Detect
  <2> QED
    BY <2>1, <2>2, KeptStopped DEF AllKept
<1>4. ASSUME NEW n \in Nodes, Restart(n) PROVE AllKept'
  BY <1>4, KeptNothing DEF AllKept, Restart
<1>5. CASE UNCHANGED cusum
  BY <1>5 DEF AllKept
<1>6. \/ \E n \in Nodes : Train(n) \/ Watch(n) \/ Detect(n) \/ Restart(n)
      \/ UNCHANGED cusum
  BY DEF Next, Suspect, Lose, Alarm, Topology, vars
<1> QED
  BY <1>1, <1>2, <1>3, <1>4, <1>5, <1>6

\* The test compares what it should, after any number of periods: the
\* training is MWin - 1 samples in the order they were taken, and q1 and q2
\* are the sums of those and of all samples since (security_node_sum_q1,
\* security_new_period), the sample that security_node_variance_ts writes
\* behind the end of monitoring notwithstanding.
THEOREM TestsMatch == Spec => []WindowsMatch
<1>1. AllKept => WindowsMatch
  <2> SUFFICES ASSUME AllKept, NEW n \in Nodes, cusum[n].ts \in MWin .. MWin + DWin
               PROVE  LET c     == cusum[n]
                          since == c.ts - MWin
                      IN  /\ \A k \in 1 .. MWin - 2 : c.training[k + 1] - c.training[k] \in {1, 2}
                          /\ c.training[MWin - 1] \in {c.taken - since - 1, c.taken - since}
                          /\ c.q1 = SumOf(c.training, 1 .. MWin - 1)
                          /\ c.q2 = SumOf([i \in 1 .. c.taken |-> i],
                                          c.taken - since + 1 .. c.taken)
    BY DEF WindowsMatch
  <2>1. Kept(cusum[n]) /\ Tested(cusum[n])
    BY DEF AllKept, Tested
  <2> QED
    BY <2>1, SumIsTotal DEF Kept, Upto
<1> QED
  BY <1>1, KeptInit, KeptNext, PTL DEF Spec

----------------------------------------------------------------------------
(* Alarms: what the controller counts, nodes have raised.                  *)

By(alarms, s) == {a \in alarms : a.suspect = s}

LEMMA ByGrows ==
  ASSUME NEW A, IsFiniteSet(A), NEW B \in SUBSET A, NEW s
  PROVE  /\ Cardinality(By(A, s)) \in Nat /\ Cardinality(By(B, s)) \in Nat
         /\ Cardinality(By(B, s)) <= Cardinality(By(A, s))
<1>1. By(A, s) \in SUBSET A /\ By(B, s) \in SUBSET By(A, s)
  BY DEF By
<1> QED
  BY <1>1, FS_Subset, FS_CardinalityType

LEMMA ByAdd ==
  ASSUME NEW A, IsFiniteSet(A), NEW a, a \notin A
  PROVE  LET s == a.suspect
         IN  /\ Cardinality(By(A, s)) \in Nat
             /\ Cardinality(By(A \cup {a}, s)) = Cardinality(By(A, s)) + 1
<1> DEFINE S == By(A, a.suspect)
<1>1. S \in SUBSET A /\ By(A \cup {a}, a.suspect) = S \cup {a} /\ a \notin S
  BY DEF By
<1> HIDE DEF S
<1>2. IsFiniteSet(S)
  BY <1>1, FS_Subset
<1>3. Cardinality(S \cup {a}) = Cardinality(S) + 1 /\ Cardinality(S) \in Nat
  BY <1>1, <1>2, FS_AddElement, FS_CardinalityType
<1> QED
  BY <1>1, <1>3 DEF S

Stops(c) == ~ Tested(c) /\ ~ (c.ts < MWin)

\* A node has raised one alarm a boot at most, after which it tests no more.
Raised ==
  /\ restarts \in [Nodes -> Nat]
  /\ IsFiniteSet(raised) /\ net \subseteq raised
  /\ \A a \in raised :
       /\ a.node \in Nodes /\ a.boot \in Nat /\ a.suspect \in Senders \cup {NoAddr}
       /\ a.boot <= restarts[a.node]
       /\ a.boot = restarts[a.node] => Stops(cusum[a.node])
       /\ \A b \in raised : a.node = b.node /\ a.boot = b.boot => a = b

\* The counts the controller keeps are of alarms it has got.
IsCount(list, got) ==
  /\ list \in Seq([id : Senders \cup {NoAddr}, alarms : Nat])
  /\ \A i \in DOMAIN list : list[i].alarms <= Cardinality(By(got, list[i].id))

DegreesKnown ==
  /\ degree \in [Senders -> Nat] /\ lowest \in [Senders -> Nat]
  /\ \A s \in Senders : degree[s] # 0 => lowest[s] # 0 /\ lowest[s] <= degree[s]

Blocked ==
  /\ blocklist \in Seq(Senders)
  /\ \A i \in DOMAIN blocklist :
       /\ lowest[blocklist[i]] # 0
       /\ 2 * Cardinality(By(raised, blocklist[i])) >= lowest[blocklist[i]]
       /\ \A j \in DOMAIN blocklist : blocklist[i] = blocklist[j] => i = j

Counted == IsCount(accused, raised \ net)

BInv == AllTrack /\ AllKept /\ Raised /\ Counted /\ DegreesKnown /\ Blocked

LEMMA BInvInit == Init => BInv
<1> SUFFICES ASSUME Init PROVE BInv
  OBVIOUS
<1>1. AllTrack /\ AllKept
  BY TrackInit, KeptInit
<1>2. Raised
  BY FS_EmptySet DEF Init, Raised
<1>3. Counted
  BY DEF Init, Counted, IsCount
<1>4. DegreesKnown
  <2>1. Degrees \subseteq Nat /\ degree \in [Senders -> Degrees]
        /\ lowest = [s \in Senders |-> degree[s]]
    BY DetectionAssumption DEF Init
  <2>2. degree \in [Senders -> Nat] /\ lowest \in [Senders -> Nat]
    BY <2>1
  <2>3. ASSUME NEW s \in Senders PROVE lowest[s] <= degree[s]
    <3>1. lowest[s] = degree[s] /\ degree[s] \in Nat
      BY <2>1, <2>2
    <3> QED
      BY <3>1
  <2> QED
    BY <2>1, <2>2, <2>3 DEF DegreesKnown
<1>5. Blocked
  BY DEF Init, Blocked
<1> QED
  BY <1>1, <1>2, <1>3, <1>4, <1>5 DEF BInv

\* Which actions change what.
LEMMA StepChanges ==
  [Next]_vars =>
    /\ \/ \E n \in Nodes : Train(n)
       \/ \E n \in Nodes : Watch(n)
       \/ \E n \in Nodes : Detect(n)
       \/ \E n \in Nodes : Restart(n)
       \/ \E a \in net : net' = net \ {a} /\ UNCHANGED <<restarts, cusum, raised>>
       \/ UNCHANGED <<restarts, cusum, raised, net>>
    /\ \/ \E a \in net : Alarm(a)
       \/ UNCHANGED <<accused, blocklist>>
    /\ \/ \E s \in Senders, d \in Degrees : Topology(s, d)
       \/ UNCHANGED <<degree, lowest>>
    /\ raised \subseteq raised'
    /\ \A a \in net : Alarm(a) => UNCHANGED raised
    /\ \A s \in Senders, d \in Degrees : Topology(s, d) => UNCHANGED <<accused, blocklist, net, raised>>
  BY DEF Next, Train, Watch, Detect, Restart, Suspect, Lose, Alarm, Topology, vars, controller

LEMMA RaisedNext ==
  BInv /\ [Next]_vars => Raised'
<1> SUFFICES ASSUME BInv, [Next]_vars PROVE Raised'
  OBVIOUS
<1>0. Raised /\ AllKept /\ AllTrack
  BY DEF BInv
<1>1. ASSUME NEW n \in Nodes, Train(n) PROVE Raised'
  <2>1. UNCHANGED <<restarts, raised, net>> /\ cusum[n].ts < MWin
        /\ \A m \in Nodes : m # n => cusum'[m] = cusum[m]
    BY <1>0, <1>1 DEF Train, AllKept
  <2>2. \A a \in raised : a.boot = restarts[a.node] => a.node # n
    BY <1>0, <2>1 DEF Raised, Stops
  <2> QED
    BY <1>0, <2>1, <2>2 DEF Raised
<1>2. ASSUME NEW n \in Nodes, Watch(n) PROVE Raised'
  <2>1. UNCHANGED <<restarts, raised, net>> /\ Tested(cusum[n])
        /\ \A m \in Nodes : m # n => cusum'[m] = cusum[m]
    BY <1>0, <1>2 DEF Watch, AllKept
  <2>2. \A a \in raised : a.boot = restarts[a.node] => a.node # n
    BY <1>0, <2>1 DEF Raised, Stops
  <2> QED
    BY <1>0, <2>1, <2>2 DEF Raised
<1>3. ASSUME NEW n \in Nodes, Detect(n) PROVE Raised'
  <2> DEFINE alarm == [node |-> n, boot |-> restarts[n], suspect |-> ChooseSuspect(suspects[n])]
  <2>1. /\ UNCHANGED restarts /\ Tested(cusum[n])
        /\ cusum' = [cusum EXCEPT ![n] = Stopped(Watched(cusum[n], cusum[n].taken + 1))]
        /\ \/ net' = net \cup {alarm} /\ raised' = raised \cup {alarm}
           \/ UNCHANGED <<net, raised>>
    BY <1>3 DEF Detect
  <2>2. /\ Stops(cusum'[n])
        /\ \A m \in Nodes : m # n => cusum'[m] = cusum[m]
    <3>1. cusum'[n] = Stopped(Watched(cusum[n], cusum[n].taken + 1))
          /\ \A m \in Nodes : m # n => cusum'[m] = cusum[m]
      BY <1>0, <2>1 DEF AllKept
    <3>2. Kept(cusum[n])
      BY <1>0 DEF AllKept
    <3>3. Watched(cusum[n], cusum[n].taken + 1) \in Cusums
      BY <2>1, <3>2, KeptWatched
    <3>4. Stopped(Watched(cusum[n], cusum[n].taken + 1)).ts = Detected
      BY <3>3 DEF Stopped, Cusums
    <3>5. ~ Tested(Stopped(Watched(cusum[n], cusum[n].taken + 1)))
      BY <2>1, <3>2, KeptStopped
    <3> QED
      BY <3>1, <3>4, <3>5, Sizes DEF Stops
  <2>3. /\ alarm.node = n /\ alarm.boot = restarts[n] /\ restarts[n] \in Nat
        /\ alarm.suspect \in Senders \cup {NoAddr}
    <3>1. ChooseSuspect(suspects[n]) \in Senders \cup {NoAddr}
      BY <1>0, ChosenIsMost DEF AllTrack
    <3> QED
      BY <1>0, <3>1 DEF Raised
  <2>4. \A a \in raised : ~ (a.node = n /\ a.boot = restarts[n])
    BY <1>0, <2>1 DEF Raised, Stops
  <2>5. IsFiniteSet(raised \cup {alarm})
    BY <1>0, FS_AddElement DEF Raised
  <2> HIDE DEF alarm
  <2>6. CASE UNCHANGED <<net, raised>>
    BY <1>0, <2>1, <2>2, <2>4, <2>6 DEF Raised
  <2>7. CASE net' = net \cup {alarm} /\ raised' = raised \cup {alarm}
    <3>1. restarts' \in [Nodes -> Nat] /\ IsFiniteSet(raised') /\ net' \subseteq raised'
      BY <1>0, <2>1, <2>5, <2>7 DEF Raised
    <3>2. ASSUME NEW a \in raised'
          PROVE  /\ a.node \in Nodes /\ a.boot \in Nat /\ a.suspect \in Senders \cup {NoAddr}
                 /\ a.boot <= restarts[a.node]
                 /\ a.boot = restarts[a.node] => Stops(cusum'[a.node])
      <4>1. CASE a = alarm
        BY <2>2, <2>3, <4>1
      <4>2. CASE a \in raised
        BY <1>0, <2>2, <2>4, <4>2 DEF Raised
      <4> QED
        BY <2>7, <4>1, <4>2
    <3>3. ASSUME NEW a \in raised', NEW b \in raised', a.node = b.node, a.boot = b.boot
          PROVE  a = b
      BY <1>0, <2>3, <2>4, <2>7, <3>3 DEF Raised
    <3> QED
      BY <2>1, <3>1, <3>2, <3>3 DEF Raised
  <2> QED
    BY <2>1, <2>6, <2>7
<1>4. ASSUME NEW n \in Nodes, Restart(n) PROVE Raised'
  <2>1. /\ restarts' = [restarts EXCEPT ![n] = restarts[n] + 1] /\ UNCHANGED <<net, raised>>
        /\ \A m \in Nodes : m # n => cusum'[m] = cusum[m]
    BY <1>0, <1>4 DEF Restart, AllKept
  <2>2. /\ restarts' \in [Nodes -> Nat] /\ restarts[n] \in Nat /\ restarts'[n] = restarts[n] + 1
        /\ \A m \in Nodes : m # n => restarts'[m] = restarts[m]
    BY <1>0, <2>1 DEF Raised, Stops
  <2>3. ASSUME NEW a \in raised
        PROVE  /\ a.boot <= restarts'[a.node]
               /\ a.boot = restarts'[a.node] => Stops(cusum'[a.node])
    <3>1. CASE a.node = n
      <4>1. a.boot <= restarts[n] /\ a.boot \in Nat
        BY <1>0, <3>1 DEF Raised
      <4>2. a.boot <= restarts'[n] /\ a.boot # restarts'[n]
        BY <2>2, <4>1
      <4> QED
        BY <3>1, <4>2
    <3>2. CASE a.node # n
      BY <1>0, <2>1, <2>2, <3>2 DEF Raised
    <3> QED
      BY <3>1, <3>2
  <2> QED
    BY <1>0, <2>1, <2>2, <2>3 DEF Raised
<1>5. CASE \E a \in net : net' = net \ {a} /\ UNCHANGED <<restarts, cusum, raised>>
  BY <1>0, <1>5 DEF Raised
<1>6. CASE UNCHANGED <<restarts, cusum, raised, net>>
  BY <1>0, <1>6 DEF Raised
<1> QED
  BY <1>1, <1>2, <1>3, <1>4, <1>5, <1>6, StepChanges

LEMMA CountFields ==
  ASSUME NEW list, NEW got, IsCount(list, got), NEW i \in DOMAIN list
  PROVE  /\ list[i] \in [id : Senders \cup {NoAddr}, alarms : Nat]
         /\ list[i].id \in Senders \cup {NoAddr} /\ list[i].alarms \in Nat
         /\ list[i].alarms <= Cardinality(By(got, list[i].id))
<1> DEFINE Rec == [id : Senders \cup {NoAddr}, alarms : Nat]
<1>1. list \in Seq(Rec)
  BY DEF IsCount
<1> HIDE DEF Rec
<1>2. list[i] \in Rec
  BY <1>1
<1> QED
  BY <1>2 DEF IsCount, Rec

LEMMA CountGrows ==
  ASSUME NEW list, NEW got, IsCount(list, got), NEW more, IsFiniteSet(more), got \subseteq more
  PROVE  IsCount(list, more)
<1> SUFFICES ASSUME NEW i \in DOMAIN list
             PROVE  list[i].alarms <= Cardinality(By(more, list[i].id))
  BY DEF IsCount
<1>1. list[i].alarms \in Nat /\ list[i].alarms <= Cardinality(By(got, list[i].id))
  BY CountFields
<1>2. /\ Cardinality(By(more, list[i].id)) \in Nat /\ Cardinality(By(got, list[i].id)) \in Nat
      /\ Cardinality(By(got, list[i].id)) <= Cardinality(By(more, list[i].id))
  BY ByGrows
<1> QED
  BY <1>1, <1>2

LEMMA Wraps ==
  ASSUME NEW x \in Nat, NEW w \in Nat \ {0}
  PROVE  x % w \in Nat /\ x % w <= x
<1>1. CASE x < w
  BY <1>1
<1>2. CASE x >= w
  BY <1>2
<1> QED
  BY <1>1, <1>2

LEMMA CountAlarm ==
  ASSUME NEW got, IsFiniteSet(got), IsCount(accused, got), NEW a, a \notin got,
         a.suspect \in Senders \cup {NoAddr}
  PROVE  IsCount(Accused(a.suspect), got \cup {a})
<1> DEFINE s == a.suspect
           more == got \cup {a}
           l == Accused(s)
           Rec == [id : Senders \cup {NoAddr}, alarms : Nat]
<1>1. /\ IsFiniteSet(more) /\ got \subseteq more
      /\ Cardinality(By(got, s)) \in Nat /\ Cardinality(By(more, s)) = Cardinality(By(got, s)) + 1
  BY ByAdd, FS_AddElement
<1>2. IsCount(accused, more)
  BY <1>1, CountGrows
<1>3. accused \in Seq(Rec) /\ AlarmWidth \in Nat \ {0}
  BY DetectionAssumption DEF IsCount
<1>4. \A i \in DOMAIN accused :
        /\ accused[i] \in Rec /\ accused[i].id \in Senders \cup {NoAddr} /\ accused[i].alarms \in Nat
        /\ accused[i].alarms <= Cardinality(By(got, accused[i].id))
        /\ accused[i].alarms <= Cardinality(By(more, accused[i].id))
  BY <1>2, CountFields
<1> HIDE DEF more
<1>5. CASE \E i \in DOMAIN accused : accused[i].id = s
  <2>1. l = [i \in DOMAIN accused |->
               IF accused[i].id = s
               THEN [accused[i] EXCEPT !.alarms = (accused[i].alarms + 1) % AlarmWidth]
               ELSE accused[i]]
    BY <1>5 DEF Accused
  <2>2. ASSUME NEW i \in DOMAIN accused
        PROVE  l[i] \in Rec /\ l[i].alarms <= Cardinality(By(more, l[i].id))
    <3>1. CASE accused[i].id = s
      <4> DEFINE x == (accused[i].alarms + 1) % AlarmWidth
      <4>1. x \in Nat /\ x <= accused[i].alarms + 1
        <5> DEFINE y == accused[i].alarms + 1
        <5>1. y \in Nat
          BY <1>4
        <5> HIDE DEF y
        <5>2. y % AlarmWidth \in Nat /\ y % AlarmWidth <= y
          BY <1>3, <5>1, Wraps
        <5> QED
          BY <5>2 DEF y
      <4>2. l[i] = [accused[i] EXCEPT !.alarms = x]
        BY <2>1, <3>1
      <4> HIDE DEF x, l
      <4>3. l[i] \in Rec /\ l[i].id = s /\ l[i].alarms = x
        BY <1>4, <3>1, <4>1, <4>2
      <4>4. accused[i].alarms \in Nat /\ accused[i].alarms <= Cardinality(By(got, s))
        BY <1>4, <3>1
      <4> HIDE DEF s
      <4> QED
        BY <1>1, <4>1, <4>3, <4>4
    <3>2. CASE accused[i].id # s
      BY <1>4, <2>1, <3>2
    <3> QED
      BY <3>1, <3>2
  <2>3. l \in Seq(Rec) /\ DOMAIN l = DOMAIN accused
    <3>1. DOMAIN accused = 1 .. Len(accused) /\ Len(accused) \in Nat
      BY <1>3
    <3>2. DOMAIN l = DOMAIN accused /\ l = [i \in DOMAIN accused |-> l[i]]
      BY <2>1
    <3> HIDE DEF l, Rec
    <3> QED
      BY <2>2, <3>1, <3>2
  <2> QED
    BY <2>2, <2>3 DEF IsCount, more
<1>6. CASE ~ \E i \in DOMAIN accused : accused[i].id = s
  <2> DEFINE r == [id |-> s, alarms |-> 1]
  <2>1. l = Append(accused, r)
    BY <1>6 DEF Accused
  <2>2. r \in Rec /\ r.id = s /\ r.alarms = 1
    OBVIOUS
  <2> HIDE DEF l, r, Rec
  <2>3. /\ l \in Seq(Rec) /\ DOMAIN l = 1 .. Len(accused) + 1 /\ Len(accused) \in Nat
        /\ \A i \in 1 .. Len(accused) : i \in DOMAIN accused /\ l[i] = accused[i]
        /\ l[Len(accused) + 1] = r
    BY <1>3, <2>1, <2>2
  <2>4. ASSUME NEW i \in DOMAIN l PROVE l[i].alarms <= Cardinality(By(more, l[i].id))
    <3>1. CASE i \in 1 .. Len(accused)
      BY <1>4, <2>3, <3>1
    <3>2. CASE i = Len(accused) + 1
      <4>1. l[i].alarms = 1 /\ l[i].id = s
        BY <2>2, <2>3, <3>2
      <4> HIDE DEF s
      <4> QED
        BY <1>1, <4>1
    <3> QED
      BY <2>3, <3>1, <3>2
  <2> QED
    BY <2>3, <2>4 DEF IsCount, more, l, Rec
<1> QED
  BY <1>5, <1>6

LEMMA CountedNext == BInv /\ Raised' /\ [Next]_vars => Counted'
<1> SUFFICES ASSUME BInv, Raised', [Next]_vars PROVE Counted'
  OBVIOUS
<1>0. Raised /\ Counted
  BY DEF BInv
<1>1. IsFiniteSet(raised \ net) /\ IsFiniteSet(raised' \ net')
  BY <1>0, FS_Subset DEF Raised
<1>2. CASE \E a \in net : Alarm(a)
  <2>1. PICK a \in net : Alarm(a)
    BY <1>2
  <2>2. /\ accused' = Accused(a.suspect) /\ a \notin raised \ net
        /\ raised' \ net' = (raised \ net) \cup {a}
        /\ a.suspect \in Senders \cup {NoAddr}
    BY <1>0, <2>1 DEF Alarm, Raised
  <2>3. IsCount(accused', (raised \ net) \cup {a})
    BY <1>0, <1>1, <2>2, CountAlarm DEF Counted
  <2> QED
    BY <2>2, <2>3 DEF Counted
<1>3. CASE UNCHANGED accused
  <2>1. raised \ net \subseteq raised' \ net'
    <3>1. CASE \E n \in Nodes : Detect(n)
      <4>1. PICK n \in Nodes : Detect(n)
        BY <3>1
      <4>2. Tested(cusum[n]) /\ \A a \in raised : ~ (a.node = n /\ a.boot = restarts[n])
        BY <1>0, <4>1 DEF Detect, Raised, Stops
      <4> DEFINE alarm == [node |-> n, boot |-> restarts[n],
                           suspect |-> ChooseSuspect(suspects[n])]
      <4>3. alarm \notin raised
        BY <4>2
      <4> QED
        BY <4>1, <4>3 DEF Detect
    <3>2. CASE ~ \E n \in Nodes : Detect(n)
      BY <3>2 DEF Next, Train, Watch, Restart, Suspect, Lose, Alarm, Topology, vars
    <3> QED
      BY <3>1, <3>2
  <2> QED
    BY <1>0, <1>1, <1>3, <2>1, CountGrows DEF Counted
<1> QED
  BY <1>2, <1>3, StepChanges

LEMMA DegreesNext ==
  BInv /\ [Next]_vars =>
    /\ DegreesKnown'
    /\ \A s \in Senders : lowest[s] # 0 => lowest'[s] # 0 /\ lowest'[s] <= lowest[s]
<1> SUFFICES ASSUME BInv, [Next]_vars
             PROVE  /\ DegreesKnown'
                    /\ \A s \in Senders :
                         lowest[s] # 0 => lowest'[s] # 0 /\ lowest'[s] <= lowest[s]
  OBVIOUS
<1>0. DegreesKnown
  BY DEF BInv
<1>1. CASE UNCHANGED <<degree, lowest>>
  BY <1>0, <1>1 DEF DegreesKnown
<1>2. CASE \E s \in Senders, d \in Degrees : Topology(s, d)
  <2>1. PICK s \in Senders, d \in Degrees : Topology(s, d)
    BY <1>2
  <2> DEFINE low == IF d # 0 /\ (lowest[s] = 0 \/ d < lowest[s]) THEN d ELSE lowest[s]
  <2>2. degree' = [degree EXCEPT ![s] = d] /\ lowest' = [lowest EXCEPT ![s] = low] /\ d \in Nat
    BY <2>1, DetectionAssumption DEF Topology
  <2>3. low \in Nat /\ (d # 0 => low # 0 /\ low <= d)
        /\ (lowest[s] # 0 => low # 0 /\ low <= lowest[s])
    BY <1>0, <2>2 DEF DegreesKnown
  <2> HIDE DEF low
  <2>4. /\ degree' \in [Senders -> Nat] /\ lowest' \in [Senders -> Nat]
        /\ degree'[s] = d /\ lowest'[s] = low
        /\ \A t \in Senders : t # s => degree'[t] = degree[t] /\ lowest'[t] = lowest[t]
    BY <1>0, <2>2, <2>3 DEF DegreesKnown
  <2> QED
    BY <1>0, <2>3, <2>4 DEF DegreesKnown
<1> QED
  BY <1>1, <1>2, StepChanges

LEMMA BlockedKept ==
  BInv /\ Raised' /\ [Next]_vars /\ UNCHANGED blocklist => Blocked'
<1> SUFFICES ASSUME BInv, Raised', [Next]_vars, UNCHANGED blocklist PROVE Blocked'
  OBVIOUS
<1>0. Raised /\ Blocked /\ DegreesKnown
  BY DEF BInv
<1>1. SUFFICES ASSUME NEW i \in DOMAIN blocklist
               PROVE  /\ lowest'[blocklist[i]] # 0
                      /\ 2 * Cardinality(By(raised', blocklist[i])) >= lowest'[blocklist[i]]
  BY <1>0 DEF Blocked
<1> DEFINE s == blocklist[i]
           old == Cardinality(By(raised, s))
           new == Cardinality(By(raised', s))
           was == lowest[s]
           is == lowest'[s]
<1>2. s \in Senders /\ was # 0 /\ 2 * old >= was /\ was \in Nat
  BY <1>0 DEF Blocked, DegreesKnown
<1>3. is # 0 /\ is <= was /\ is \in Nat
  BY <1>2, DegreesNext DEF DegreesKnown
<1>4. old \in Nat /\ new \in Nat /\ old <= new
  <2>1. raised \in SUBSET raised' /\ IsFiniteSet(raised')
    BY StepChanges DEF Raised
  <2> QED
    BY <2>1, ByGrows
<1> HIDE DEF s, old, new, was, is
<1>5. 2 * new >= is
  BY <1>2, <1>3, <1>4
<1> QED
  BY <1>3, <1>5 DEF s, new, is

LEMMA BlockedNext == BInv /\ Raised' /\ Counted' /\ [Next]_vars => Blocked'
<1> SUFFICES ASSUME BInv, Raised', Counted', [Next]_vars PROVE Blocked'
  OBVIOUS
<1>0. Raised /\ Blocked /\ DegreesKnown
  BY DEF BInv
<1>1. CASE UNCHANGED blocklist
  BY <1>1, BlockedKept
<1>2. CASE ~ UNCHANGED blocklist
  <2>1. PICK a \in net : Alarm(a)
    BY <1>2, StepChanges
  <2> DEFINE s == a.suspect
  <2>2. /\ IsAttacker(s, accused') /\ ~ InBlocklist(s) /\ blocklist' = Append(blocklist, s)
        /\ UNCHANGED <<degree, lowest, raised>>
    BY <1>2, <2>1 DEF Alarm, ToBlocklist
  <2>3. s \in Senders /\ degree[s] # 0 /\ degree[s] \in Nat
        /\ lowest[s] # 0 /\ lowest[s] <= degree[s] /\ lowest[s] \in Nat
    BY <1>0, <2>2 DEF IsAttacker, Degree, DegreesKnown
  <2>4. 2 * Cardinality(By(raised, s)) >= lowest[s]
    <3>1. PICK i \in DOMAIN accused' : accused'[i].id = s /\ 2 * accused'[i].alarms >= degree[s]
      BY <2>2, <2>3 DEF IsAttacker, Degree
    <3>2. accused'[i].alarms \in Nat
          /\ accused'[i].alarms <= Cardinality(By(raised' \ net', s))
      <4>1. IsCount(accused', raised' \ net')
        BY DEF Counted
      <4> QED
        BY <3>1, <4>1, CountFields
    <3>3. /\ Cardinality(By(raised, s)) \in Nat /\ Cardinality(By(raised' \ net', s)) \in Nat
          /\ Cardinality(By(raised' \ net', s)) <= Cardinality(By(raised, s))
      <4>1. raised' \ net' \in SUBSET raised /\ IsFiniteSet(raised)
        BY <1>0, <2>2 DEF Raised
      <4> QED
        BY <4>1, ByGrows
    <3> DEFINE x == accused'[i].alarms
               y == Cardinality(By(raised' \ net', s))
               z == Cardinality(By(raised, s))
    <3>4. x \in Nat /\ y \in Nat /\ z \in Nat /\ 2 * x >= degree[s] /\ x <= y /\ y <= z
      BY <3>1, <3>2, <3>3
    <3> HIDE DEF x, y, z
    <3>5. 2 * z >= lowest[s]
      BY <2>3, <3>4
    <3> QED
      BY <3>5 DEF z
  <2> HIDE DEF s
  <2>5. /\ blocklist' \in Seq(Senders) /\ DOMAIN blocklist' = 1 .. Len(blocklist) + 1
        /\ Len(blocklist) \in Nat /\ blocklist'[Len(blocklist) + 1] = s
        /\ \A i \in 1 .. Len(blocklist) :
             i \in DOMAIN blocklist /\ blocklist'[i] = blocklist[i] /\ blocklist[i] # s
    BY <1>0, <2>2, <2>3 DEF Blocked, InBlocklist
  <2>6. ASSUME NEW i \in DOMAIN blocklist'
        PROVE  /\ lowest[blocklist'[i]] # 0
               /\ 2 * Cardinality(By(raised, blocklist'[i])) >= lowest[blocklist'[i]]
               /\ \A j \in DOMAIN blocklist' : blocklist'[i] = blocklist'[j] => i = j
    <3>1. CASE i \in 1 .. Len(blocklist)
      BY <1>0, <2>5, <3>1 DEF Blocked
    <3>2. CASE i = Len(blocklist) + 1
      BY <2>3, <2>4, <2>5, <3>2
    <3> QED
      BY <2>5, <3>1, <3>2
  <2> QED
    BY <2>2, <2>5, <2>6 DEF Blocked
<1> QED
  BY <1>1, <1>2

\* Each alarm of a sender is one accuser.
LEMMA AccuserEach ==
  ASSUME Raised, NEW s
  PROVE  Cardinality(Accusers(s)) = Cardinality(By(raised, s))
<1> DEFINE B == By(raised, s)
           g == [a \in B |-> <<a.node, a.boot>>]
<1>1. IsFiniteSet(B)
  BY FS_Subset DEF Raised, By
<1>2. g \in [B -> Accusers(s)] /\ \A y \in Accusers(s) : \E x \in B : g[x] = y
  BY DEF Accusers, By
<1>3. \A x \in B, y \in B : g[x] = g[y] => x = y
  BY DEF By, Raised
<1> HIDE DEF B, g
<1>4. g \in Bijection(B, Accusers(s))
  BY <1>2, <1>3 DEF Bijection, Injection, Surjection, IsInjective
<1>5. ExistsBijection(B, Accusers(s))
  BY <1>4 DEF ExistsBijection
<1> QED
  BY <1>1, <1>5, FS_Bijection DEF B

\* A sender on the blocklist has been accused by half as many boots of nodes
\* as it ever had neighbors, and is on it once: the counter of
\* security_process_node_alarm, which wraps, never counts an alarm twice,
\* and a node whose process has stopped raises none until it restarts.
THEOREM ManyBlock == Spec => []BlockedByMany
<1>1. Init => BInv
  BY BInvInit
<1>2. BInv /\ [Next]_vars => BInv'
  <2> SUFFICES ASSUME BInv, [Next]_vars PROVE BInv'
    OBVIOUS
  <2>1. AllTrack' /\ AllKept'
    BY TrackNext, KeptNext DEF BInv
  <2>2. Raised'
    BY RaisedNext
  <2>3. Counted' /\ DegreesKnown'
    BY <2>2, CountedNext, DegreesNext
  <2>4. Blocked'
    BY <2>2, <2>3, BlockedNext
  <2> QED
    BY <2>1, <2>2, <2>3, <2>4 DEF BInv
<1>3. BInv => BlockedByMany
  BY AccuserEach DEF BInv, Blocked, BlockedByMany
<1> QED
  BY <1>1, <1>2, <1>3, PTL DEF Spec

----------------------------------------------------------------------------
(* The counts at the controller.  First, what the sums of the model are.   *)

LEMMA SeriesTotal == ASSUME NEW f, NEW S PROVE Sum(f, S) = Total(f, S)
<1>1. Sum(f, S) =
        (CHOOSE it : it = [s \in SUBSET S |->
           IF s = {} THEN 0
           ELSE f[CHOOSE x \in s : TRUE] + it[s \ {CHOOSE x \in s : TRUE}]])[S]
  BY DEF Sum, MapThenSumSet, MapThenFoldSet
<1> QED
  BY <1>1 DEF Total, Adds, Picked

PacketSum(M, f) == Total([p \in M |-> p[f]], M)

LEMMA PacketsTotal == ASSUME NEW f PROVE InPackets(f) = PacketSum(mngt, f)
<1> DEFINE g == [p \in mngt |-> p[f]]
           A(it) == it = [s \in SUBSET mngt |->
                      IF s = {} THEN 0
                      ELSE (CHOOSE x \in s : TRUE)[f] + it[s \ {CHOOSE x \in s : TRUE}]]
<1>1. InPackets(f) = (CHOOSE it : A(it))[mngt]
  BY DEF InPackets, MapThenSumSet, MapThenFoldSet
<1>2. ASSUME NEW it PROVE A(it) <=> Adds(g, mngt, it)
  <2>1. \A s \in SUBSET mngt : s # {} => Picked(s) \in s /\ g[Picked(s)] = Picked(s)[f]
    BY DEF Picked
  <2>2. [s \in SUBSET mngt |-> IF s = {} THEN 0 ELSE Picked(s)[f] + it[s \ {Picked(s)}]]
        = [s \in SUBSET mngt |-> IF s = {} THEN 0 ELSE g[Picked(s)] + it[s \ {Picked(s)}]]
    <3> HIDE DEF g
    <3> QED
      BY <2>1
  <2> QED
    BY <2>2 DEF Adds, Picked
<1> HIDE DEF A
<1>3. (CHOOSE it : A(it)) = (CHOOSE it : Adds(g, mngt, it))
  BY <1>2
<1> QED
  BY <1>1, <1>3 DEF PacketSum, Total

Values(q) == [i \in DOMAIN q |-> q[i].value]

\* The sum of a sequence of numbers.
SeqSum(v) == Total(v, DOMAIN v)

LEMMA LineTotal == OnLine = SeqSum(Values(line))
<1> DEFINE g == Values(line)
           S == DOMAIN line
           A(it) == it = [s \in SUBSET S |->
                      IF s = {} THEN 0
                      ELSE line[CHOOSE x \in s : TRUE].value + it[s \ {CHOOSE x \in s : TRUE}]]
<1>1. OnLine = (CHOOSE it : A(it))[S]
  BY DEF OnLine, MapThenSumSet, MapThenFoldSet
<1>2. ASSUME NEW it PROVE A(it) <=> Adds(g, S, it)
  <2>1. \A s \in SUBSET S : s # {} => Picked(s) \in s /\ g[Picked(s)] = line[Picked(s)].value
    BY DEF Picked, Values
  <2>2. [s \in SUBSET S |-> IF s = {} THEN 0 ELSE line[Picked(s)].value + it[s \ {Picked(s)}]]
        = [s \in SUBSET S |-> IF s = {} THEN 0 ELSE g[Picked(s)] + it[s \ {Picked(s)}]]
    <3> HIDE DEF g, S
    <3> QED
      BY <2>1
  <2> QED
    BY <2>2 DEF Adds, Picked
<1> HIDE DEF A
<1>3. (CHOOSE it : A(it)) = (CHOOSE it : Adds(g, S, it))
  BY <1>2
<1>4. DOMAIN g = S
  BY DEF Values
<1> QED
  BY <1>1, <1>3, <1>4 DEF Total, SeqSum

\* How the sums change.
LEMMA PacketSumAdd ==
  ASSUME NEW M, IsFiniteSet(M), NEW p, p \notin M, NEW N, N = M \cup {p},
         NEW f, p[f] \in Int, \A q \in M : q[f] \in Int
  PROVE  /\ PacketSum(M, f) \in Int
         /\ PacketSum(N, f) = PacketSum(M, f) + p[f]
<1> DEFINE g == [q \in N |-> q[f]]
           h == [q \in M |-> q[f]]
<1>1. /\ g[p] = p[f] /\ g[p] \in Int
      /\ \A q \in M : g[q] \in Int /\ h[q] = g[q]
  OBVIOUS
<1> HIDE DEF g, h
<1>2. Total(h, M) = Total(g, M)
  BY <1>1, TotalSame
<1>3. Total(g, M \cup {p}) = g[p] + Total(g, M) /\ Total(g, M) \in Int
  BY <1>1, TotalAdd
<1>4. Total(g, N) = Total(h, M) + p[f] /\ Total(h, M) \in Int
  BY <1>1, <1>2, <1>3
<1> QED
  BY <1>4 DEF g, h, PacketSum

LEMMA PacketSumRemove ==
  ASSUME NEW M, IsFiniteSet(M), NEW p \in M, NEW f, \A q \in M : q[f] \in Int
  PROVE  /\ PacketSum(M, f) \in Int /\ PacketSum(M \ {p}, f) \in Int
         /\ PacketSum(M \ {p}, f) = PacketSum(M, f) - p[f]
<1> DEFINE N == M \ {p}
<1>1. /\ IsFiniteSet(N) /\ p \notin N /\ M = N \cup {p} /\ p[f] \in Int
      /\ \A q \in N : q[f] \in Int
  BY OneLess
<1> HIDE DEF N
<1>2. PacketSum(N, f) \in Int /\ PacketSum(M, f) = PacketSum(N, f) + p[f]
  BY <1>1, PacketSumAdd
<1> QED
  BY <1>1, <1>2 DEF N

LEMMA SeqSumInt ==
  ASSUME NEW v \in Seq(Int)
  PROVE  SeqSum(v) \in Int /\ IsFiniteSet(DOMAIN v)
<1>1. DOMAIN v = 1 .. Len(v) /\ Len(v) \in Nat /\ \A i \in DOMAIN v : v[i] \in Int
  OBVIOUS
<1>2. IsFiniteSet(DOMAIN v)
  BY <1>1, FS_Interval
<1> QED
  BY <1>1, <1>2, TotalRemove DEF SeqSum

LEMMA SeqSumAppend ==
  ASSUME NEW v \in Seq(Int), NEW x \in Int
  PROVE  /\ Append(v, x) \in Seq(Int)
         /\ SeqSum(Append(v, x)) = SeqSum(v) + x
<1> DEFINE w == Append(v, x)
           k == Len(v) + 1
           D == DOMAIN v
<1>1. /\ w \in Seq(Int) /\ DOMAIN w = D \cup {k} /\ k \notin D /\ w[k] = x
      /\ \A i \in D : w[i] = v[i] /\ w[i] \in Int /\ v[i] \in Int
  <2>1. /\ D = 1 .. Len(v) /\ Len(v) \in Nat /\ k = Len(v) + 1 /\ w \in Seq(Int)
        /\ DOMAIN w = 1 .. k /\ w[k] = x /\ \A i \in 1 .. Len(v) : w[i] = v[i]
        /\ \A i \in D : v[i] \in Int
    OBVIOUS
  <2> HIDE DEF w, k, D
  <2> QED
    BY <2>1
<1>2. IsFiniteSet(D)
  BY SeqSumInt
<1> HIDE DEF w, k, D
<1>3. Total(w, D) = Total(v, D)
  BY <1>1, <1>2, TotalSame
<1>4. Total(w, D \cup {k}) = w[k] + Total(w, D) /\ Total(w, D) \in Int
  BY <1>1, <1>2, TotalAdd
<1>5. SeqSum(w) = SeqSum(v) + x
  <2>1. SeqSum(w) = Total(w, D \cup {k}) /\ SeqSum(v) = Total(v, D)
    BY <1>1 DEF SeqSum, D
  <2> QED
    BY <1>1, <1>3, <1>4, <2>1
<1> QED
  BY <1>1, <1>5 DEF w

LEMMA SeqSumTail ==
  ASSUME NEW v \in Seq(Int), v # <<>>
  PROVE  /\ Tail(v) \in Seq(Int) /\ v[1] \in Int
         /\ SeqSum(Tail(v)) = SeqSum(v) - v[1]
<1> DEFINE w == Tail(v)
           n == Len(v)
           S == 2 .. n
           h == [i \in S |-> i - 1]
<1>1. /\ n \in Nat /\ n > 0 /\ DOMAIN v = 1 .. n /\ w \in Seq(Int) /\ DOMAIN w = 1 .. n - 1
      /\ \A i \in 1 .. n : v[i] \in Int
      /\ \A i \in 1 .. n - 1 : w[i] = v[i + 1]
  OBVIOUS
<1> HIDE DEF w, n
<1>2. IsFiniteSet(1 .. n) /\ 1 \in 1 .. n /\ S = (1 .. n) \ {1} /\ IsFiniteSet(S)
  <2>1. 1 \in 1 .. n /\ S = (1 .. n) \ {1}
    BY <1>1
  <2>2. IsFiniteSet(1 .. n)
    BY <1>1, FS_Interval
  <2> QED
    BY <2>1, <2>2, OneLess
<1>3. h \in Bijection(S, 1 .. n - 1)
  <2>1. /\ h \in [S -> 1 .. n - 1] /\ \A i, j \in S : h[i] = h[j] => i = j
    BY <1>1
  <2>2. \A k \in 1 .. n - 1 : k + 1 \in S /\ h[k + 1] = k
    BY <1>1
  <2> HIDE DEF h, S
  <2> QED
    BY <2>1, <2>2 DEF Bijection, Injection, Surjection, IsInjective
<1>4. \A i \in S : v[i] \in Int /\ w[h[i]] = v[i]
  <2> TAKE i \in S
  <2>1. i \in 1 .. n /\ h[i] = i - 1 /\ i - 1 \in 1 .. n - 1 /\ (i - 1) + 1 = i
    BY <1>1
  <2> HIDE DEF h
  <2> QED
    BY <1>1, <2>1
<1> HIDE DEF h, S
<1>5. Total(w, 1 .. n - 1) = Total(v, S) /\ Total(v, S) \in Int
  BY <1>2, <1>3, <1>4, TotalRenamed
<1>6. Total(v, 1 .. n) = v[1] + Total(v, S) /\ v[1] \in Int
  <2>1. Total(v, 1 .. n) = v[1] + Total(v, (1 .. n) \ {1})
    BY <1>1, <1>2, TotalRemove
  <2> QED
    BY <1>1, <1>2, <2>1
<1> QED
  BY <1>1, <1>5, <1>6 DEF SeqSum, w

\* Counter n of those of S is set to x.
Changes(c, d, S, n, x) ==
  /\ c \in [S -> Int] /\ d \in [S -> Int] /\ n \in S /\ d[n] = x
  /\ \A y \in S \ {n} : d[y] = c[y]

LEMMA CounterChange ==
  ASSUME NEW S, IsFiniteSet(S), NEW c, NEW d, NEW n, NEW x, Changes(c, d, S, n, x)
  PROVE  Total(c, S) \in Int /\ Total(d, S) = Total(c, S) - c[n] + x
<1>1. /\ n \in S /\ d[n] = x /\ \A y \in S \ {n} : c[y] = d[y]
      /\ \A y \in S : c[y] \in Int /\ d[y] \in Int
  BY DEF Changes
<1> QED
  BY <1>1, TotalChange

Frames == [type : {"CTRL_PCKT_TX", "SEC"}, value : Int]

LEMMA ValuesFacts ==
  ASSUME NEW q \in Seq(Frames)
  PROVE  /\ Values(q) \in Seq(Int)
         /\ q # <<>> => /\ Head(q) \in Frames /\ Tail(q) \in Seq(Frames)
                        /\ Values(Tail(q)) = Tail(Values(q))
                        /\ Values(q) # <<>> /\ Values(q)[1] = Head(q).value
                        /\ Head(q) = q[1] /\ 1 \in DOMAIN q
                        /\ \A i \in DOMAIN Tail(q) : i + 1 \in DOMAIN q /\ Tail(q)[i] = q[i + 1]
<1> DEFINE v == Values(q)
<1>1. /\ Len(q) \in Nat /\ DOMAIN q = 1 .. Len(q) /\ \A i \in 1 .. Len(q) : q[i] \in Frames
  OBVIOUS
<1>2. /\ v = [i \in 1 .. Len(q) |-> q[i].value]
      /\ \A i \in 1 .. Len(q) : v[i] = q[i].value /\ v[i] \in Int
  BY <1>1 DEF Values, Frames
<1> HIDE DEF v
<1>3. v \in Seq(Int) /\ Len(v) = Len(q)
  BY <1>1, <1>2
<1>4. CASE q # <<>>
  <2>1. /\ Head(q) = q[1] /\ Tail(q) \in Seq(Frames) /\ Len(q) > 0 /\ Len(Tail(q)) = Len(q) - 1
        /\ DOMAIN Tail(q) = 1 .. Len(q) - 1
        /\ \A i \in 1 .. Len(q) - 1 : Tail(q)[i] = q[i + 1]
    BY <1>4
  <2>2. v # <<>> /\ v[1] = q[1].value /\ q[1] \in Frames /\ 1 \in 1 .. Len(q)
    BY <1>1, <1>2, <1>3, <2>1
  <2>3. /\ Tail(v) \in Seq(Int) /\ DOMAIN Tail(v) = 1 .. Len(q) - 1
        /\ \A i \in 1 .. Len(q) - 1 : Tail(v)[i] = v[i + 1]
        /\ Tail(v) = [i \in 1 .. Len(q) - 1 |-> Tail(v)[i]]
    <3> v \in Seq(Int) /\ v # <<>> /\ Len(v) = Len(q) /\ Len(q) \in Nat
      BY <1>1, <1>3, <2>2
    <3>1. /\ Tail(v) \in Seq(Int) /\ Len(Tail(v)) = Len(q) - 1
          /\ \A i \in 1 .. Len(q) - 1 : Tail(v)[i] = v[i + 1]
      OBVIOUS
    <3> DEFINE t == Tail(v)
    <3> HIDE DEF t
    <3>2. t \in Seq(Int) /\ Len(t) = Len(q) - 1
      BY <3>1 DEF t
    <3>3. DOMAIN t = 1 .. Len(q) - 1 /\ t = [i \in 1 .. Len(q) - 1 |-> t[i]]
      BY <3>2
    <3> QED
      BY <3>1, <3>3 DEF t
  <2>4. \A i \in 1 .. Len(q) - 1 : i + 1 \in 1 .. Len(q)
    BY <1>1
  <2>5. Values(Tail(q)) = Tail(v)
    <3>1. Values(Tail(q)) = [i \in 1 .. Len(q) - 1 |-> Tail(q)[i].value]
      BY <2>1 DEF Values
    <3>2. \A i \in 1 .. Len(q) - 1 : Tail(q)[i].value = Tail(v)[i]
      BY <1>2, <2>1, <2>3, <2>4
    <3> DEFINE t == Tail(v)
    <3> HIDE DEF t
    <3> QED
      BY <2>3, <3>1, <3>2 DEF t
  <2> QED
    BY <1>1, <1>3, <2>1, <2>2, <2>4, <2>5 DEF v
<1> QED
  BY <1>3, <1>4 DEF v

LEMMA ValuesTwo ==
  ASSUME NEW q \in Seq(Frames), NEW a \in Frames, NEW b \in Frames, NEW r \in Seq(Frames),
         Len(r) = Len(q) + 2, r[Len(q) + 1] = a, r[Len(q) + 2] = b,
         \A i \in 1 .. Len(q) : r[i] = q[i]
  PROVE  /\ SeqSum(Values(q)) \in Int
         /\ SeqSum(Values(r)) = (SeqSum(Values(q)) + a.value) + b.value
         /\ \A i \in DOMAIN r : (i \in DOMAIN q /\ r[i] = q[i]) \/ r[i] = a \/ r[i] = b
<1> DEFINE v == Values(q)
           w == Append(Append(v, a.value), b.value)
           n == Len(q)
<1>1. /\ r \in Seq(Frames) /\ n \in Nat /\ DOMAIN r = 1 .. n + 2 /\ DOMAIN q = 1 .. n
      /\ r[n + 1] = a /\ r[n + 2] = b /\ \A i \in 1 .. n : r[i] = q[i]
  OBVIOUS
<1>2. v \in Seq(Int) /\ Len(v) = n /\ \A i \in 1 .. n : v[i] = q[i].value
  <2>1. v \in Seq(Int)
    BY ValuesFacts
  <2>2. DOMAIN v = 1 .. n /\ \A i \in 1 .. n : v[i] = q[i].value
    BY <1>1 DEF Values
  <2> QED
    BY <1>1, <2>1, <2>2
<1>3. a.value \in Int /\ b.value \in Int
  BY DEF Frames
<1> HIDE DEF v, n
<1>4. /\ w \in Seq(Int) /\ DOMAIN w = 1 .. n + 2 /\ w = [i \in 1 .. n + 2 |-> w[i]]
      /\ w[n + 1] = a.value /\ w[n + 2] = b.value /\ \A i \in 1 .. n : w[i] = q[i].value
  BY <1>1, <1>2, <1>3
<1>5. Values(r) = [i \in 1 .. n + 2 |-> r[i].value]
  BY <1>1 DEF Values
<1>6. \A i \in 1 .. n + 2 : i \in 1 .. n \/ i = n + 1 \/ i = n + 2
  BY <1>1
<1> HIDE DEF w
<1>7. \A i \in 1 .. n + 2 : r[i].value = w[i]
  BY <1>1, <1>4, <1>6
<1>8. Values(r) = w
  BY <1>4, <1>5, <1>7
<1>9. SeqSum(v) \in Int /\ SeqSum(w) = (SeqSum(v) + a.value) + b.value
  <2> DEFINE x == Append(v, a.value)
  <2>1. SeqSum(v) \in Int /\ x \in Seq(Int) /\ SeqSum(x) = SeqSum(v) + a.value
    BY <1>2, <1>3, SeqSumInt, SeqSumAppend
  <2>2. w = Append(x, b.value)
    BY DEF w
  <2> HIDE DEF x
  <2>3. SeqSum(Append(x, b.value)) = SeqSum(x) + b.value
    BY <1>3, <2>1, SeqSumAppend
  <2> QED
    BY <2>1, <2>2, <2>3
<1> QED
  BY <1>1, <1>6, <1>8, <1>9 DEF v

CtrlNodes == EnabledNodes \cup {Mote}
Reporters == EnabledNodes \cup Sinks
Packets == [from : Reporters, no : Nat, ctrl : Int, data : Int, rx : Int]

CentralTypes ==
  /\ ctrlTx \in [CtrlNodes -> Int] /\ dataTx \in [EnabledNodes -> Int] /\ dataRx \in [Sinks -> Int]
  /\ reports \in [Reporters \cup {Mote} -> Nat]
  /\ current \in [ctrl : Int, data : Int] /\ rate \in Int
  /\ total \in [ctrl : Int, data : Int, rx : Int]
  /\ counted \in [ctrl : Int, data : Int, rx : Int]
  /\ lost \in [ctrl : Int, data : Int, rx : Int]
  /\ series \in [Metrics -> Seq(Int)]

\* Reports underway are each their own packet, and of the kind that the
\* controller takes from who sent it.
Underway ==
  /\ IsFiniteSet(mngt) /\ mngt \subseteq Packets
  /\ \A p \in mngt : /\ p.no < reports[p.from]
                     /\ p.from \in EnabledNodes => p.rx = 0
                     /\ p.from \in Sinks => p.ctrl = 0 /\ p.data = 0

OnTheLine ==
  /\ line \in Seq(Frames)
  /\ \A i \in DOMAIN line : line[i].type = "SEC" => line[i].value = 0

AtNodes == Total(ctrlTx, CtrlNodes)
AtSenders == Total(dataTx, EnabledNodes)
AtSinks == Total(dataRx, Sinks)
OnSerial == SeqSum(Values(line))
InSamples == SeqSum(series["CTRL_PCKTS_OVHD"])
InMngt(f) == PacketSum(mngt, f)

Balanced ==
  /\ counted.ctrl = AtNodes + InMngt("ctrl") + OnSerial + current.ctrl + InSamples + lost.ctrl
  /\ counted.data = AtSenders + InMngt("data") + current.data + total.data + lost.data
  /\ counted.rx = AtSinks + InMngt("rx") + total.rx + lost.rx
  /\ total.ctrl = InSamples

Ledger == CentralTypes /\ Underway /\ OnTheLine /\ Balanced

LEMMA Finite ==
  /\ IsFiniteSet(CtrlNodes) /\ IsFiniteSet(EnabledNodes) /\ IsFiniteSet(Sinks)
  /\ Mote \notin Reporters /\ EnabledNodes \cap Sinks = {}
  BY CentralAssumption, FS_AddElement DEF CtrlNodes, Reporters

LEMMA PacketFields ==
  ASSUME NEW p \in Packets
  PROVE  /\ p.from \in Reporters /\ p.no \in Nat /\ p.ctrl \in Int /\ p.data \in Int /\ p.rx \in Int
         /\ p["ctrl"] = p.ctrl /\ p["data"] = p.data /\ p["rx"] = p.rx
  BY DEF Packets

LEMMA LedgerInt ==
  ASSUME Ledger
  PROVE  /\ AtNodes \in Int /\ AtSenders \in Int /\ AtSinks \in Int
         /\ OnSerial \in Int /\ InSamples \in Int
         /\ InMngt("ctrl") \in Int /\ InMngt("data") \in Int /\ InMngt("rx") \in Int
         /\ current.ctrl \in Int /\ current.data \in Int
         /\ total.ctrl \in Int /\ total.data \in Int /\ total.rx \in Int
         /\ counted.ctrl \in Int /\ counted.data \in Int /\ counted.rx \in Int
         /\ lost.ctrl \in Int /\ lost.data \in Int /\ lost.rx \in Int
<1>1. AtNodes \in Int /\ AtSenders \in Int /\ AtSinks \in Int
  <2>1. /\ \A x \in CtrlNodes : ctrlTx[x] \in Int
        /\ \A x \in EnabledNodes : dataTx[x] \in Int
        /\ \A x \in Sinks : dataRx[x] \in Int
    BY DEF Ledger, CentralTypes
  <2> QED
    BY <2>1, Finite, TotalRemove DEF AtNodes, AtSenders, AtSinks
<1>2. OnSerial \in Int
  <2>1. Values(line) \in Seq(Int)
    BY ValuesFacts DEF Ledger, OnTheLine, Frames
  <2> QED
    BY <2>1, SeqSumInt DEF OnSerial
<1>3. InSamples \in Int
  <2>1. series["CTRL_PCKTS_OVHD"] \in Seq(Int)
    BY DEF Ledger, CentralTypes, Metrics
  <2> QED
    BY <2>1, SeqSumInt DEF InSamples
<1>4. ASSUME NEW f \in {"ctrl", "data", "rx"} PROVE InMngt(f) \in Int
  <2> DEFINE g == [p \in mngt |-> p[f]]
  <2>1. \A p \in mngt : g[p] \in Int
    BY PacketFields DEF Ledger, Underway
  <2> HIDE DEF g
  <2>2. Total(g, mngt) \in Int
    BY <2>1, TotalRemove DEF Ledger, Underway
  <2> QED
    BY <2>2 DEF InMngt, PacketSum, g
<1> QED
  BY <1>1, <1>2, <1>3, <1>4 DEF Ledger, CentralTypes

LEMMA LedgerInit == CentralInit => Ledger
<1> SUFFICES ASSUME CentralInit PROVE Ledger
  OBVIOUS
<1>1. CentralTypes
  BY DEF CentralInit, CentralTypes, CtrlNodes, Reporters
<1>2. Underway /\ OnTheLine
  BY FS_EmptySet DEF CentralInit, Underway, OnTheLine
<1>3. ASSUME NEW S, IsFiniteSet(S) PROVE Total([x \in S |-> 0], S) = 0
  <2> DEFINE z == [x \in S |-> 0]
             Bad == {T \in SUBSET S : Total(z, T) # 0}
  <2>1. \A T \in SUBSET S : IsFiniteSet(T) /\ \A x \in T : z[x] = 0
    BY <1>3, FS_Subset
  <2> HIDE DEF z
  <2>2. Bad = {}
    <3> SUFFICES ASSUME Bad # {} PROVE FALSE
      OBVIOUS
    <3>1. PICK T \in Bad : \A U \in Bad : Cardinality(T) <= Cardinality(U)
      <4>1. \A T \in Bad : IsFiniteSet(T)
        BY <2>1
      <4> HIDE DEF Bad
      <4> QED
        BY <4>1, HasSmallest
    <3>2. T # {}
      BY TotalEmpty
    <3>3. PICK x \in T : TRUE
      BY <3>2
    <3>4. Total(z, T) = z[x] + Total(z, T \ {x}) /\ Total(z, T \ {x}) \in Int
      <4>1. IsFiniteSet(T) /\ (\A y \in T : z[y] \in Int) /\ x \in T
        BY <2>1, <3>3
      <4> QED
        BY <4>1, TotalRemove
    <3>5. z[x] = 0 /\ T \ {x} \in SUBSET S /\ Cardinality(T \ {x}) = Cardinality(T) - 1
          /\ Cardinality(T) \in Nat
      BY <2>1, OneLess
    <3>6. Total(z, T \ {x}) # 0
      BY <3>4, <3>5
    <3>7. T \ {x} \in Bad
      BY <3>5, <3>6
    <3>8. Cardinality(T) <= Cardinality(T \ {x})
      BY <3>1, <3>7
    <3> QED
      BY <3>5, <3>8
  <2> QED
    BY <2>2 DEF z
<1>4. AtNodes = 0 /\ AtSenders = 0 /\ AtSinks = 0
  BY <1>3, Finite DEF CentralInit, AtNodes, AtSenders, AtSinks, CtrlNodes
<1>5. OnSerial = 0 /\ InSamples = 0 /\ \A f : InMngt(f) = 0
  <2>1. DOMAIN Values(line) = {}
    BY DEF CentralInit, Values
  <2>2. DOMAIN series["CTRL_PCKTS_OVHD"] = {}
    BY DEF CentralInit, Metrics
  <2>3. mngt = {}
    BY DEF CentralInit
  <2> QED
    BY <2>1, <2>2, <2>3, TotalEmpty DEF OnSerial, InSamples, InMngt, SeqSum, PacketSum
<1>6. Balanced
  BY <1>4, <1>5 DEF CentralInit, Balanced
<1> QED
  BY <1>1, <1>2, <1>6 DEF Ledger

Counts == [ctrl : Int, data : Int, rx : Int]

LEMMA LedgerCounts ==
  Ledger => /\ total \in Counts /\ counted \in Counts /\ lost \in Counts
            /\ current \in [ctrl : Int, data : Int]
  BY DEF Ledger, CentralTypes, Counts

\* One lemma for each action.
LEMMA LedgerCountCtrl ==
  ASSUME Ledger, NEW n \in CtrlNodes, CountCtrl(n) PROVE Ledger'
<1> DEFINE x == ctrlTx[n] + 1
           y == counted.ctrl + 1
<1>1. /\ ctrlTx' = [ctrlTx EXCEPT ![n] = x]
      /\ counted' = [counted EXCEPT !.ctrl = y]
      /\ UNCHANGED <<dataTx, dataRx, reports, mngt, line, current, total, rate, series, lost>>
  BY DEF CountCtrl, pcVars
<1>2. CentralTypes /\ ctrlTx[n] \in Int /\ x = ctrlTx[n] + 1
      /\ counted.ctrl \in Int /\ y = counted.ctrl + 1 /\ counted \in Counts
  BY DEF Ledger, CentralTypes, Counts
<1> HIDE DEF x, y
<1>3. ctrlTx' \in [CtrlNodes -> Int] /\ AtNodes' = AtNodes + 1
  <2>1. x \in Int /\ ctrlTx \in [CtrlNodes -> Int]
    BY <1>2 DEF CentralTypes
  <2>2. Changes(ctrlTx, ctrlTx', CtrlNodes, n, x)
    BY <1>1, <2>1 DEF Changes
  <2>3. Total(ctrlTx, CtrlNodes) \in Int
        /\ Total(ctrlTx', CtrlNodes) = Total(ctrlTx, CtrlNodes) - ctrlTx[n] + x
    BY <2>2, Finite, CounterChange
  <2> QED
    BY <1>2, <2>2, <2>3 DEF AtNodes, Changes
<1>4. counted' \in Counts
      /\ counted'.ctrl = counted.ctrl + 1 /\ counted'.data = counted.data /\ counted'.rx = counted.rx
  BY <1>1, <1>2 DEF Counts
<1>5. CentralTypes'
  BY <1>1, <1>2, <1>3, <1>4 DEF CentralTypes, Counts
<1>6. Underway' /\ OnTheLine'
  BY <1>1 DEF Ledger, Underway, OnTheLine
<1>7. /\ UNCHANGED <<AtSenders, AtSinks, OnSerial, InSamples, current, total, lost>>
      /\ \A f : InMngt(f)' = InMngt(f)
  BY <1>1 DEF AtSenders, AtSinks, OnSerial, InSamples, InMngt
<1>8. Balanced'
  BY <1>3, <1>4, <1>7, LedgerInt DEF Balanced, Ledger
<1> QED
  BY <1>5, <1>6, <1>8 DEF Ledger

LEMMA LedgerCountDataTx ==
  ASSUME Ledger, NEW n \in EnabledNodes, CountDataTx(n) PROVE Ledger'
<1> DEFINE x == dataTx[n] + 1
           y == counted.data + 1
<1>1. /\ dataTx' = [dataTx EXCEPT ![n] = x]
      /\ counted' = [counted EXCEPT !.data = y]
      /\ UNCHANGED <<ctrlTx, dataRx, reports, mngt, line, current, total, rate, series, lost>>
  BY DEF CountDataTx, pcVars
<1>2. CentralTypes /\ dataTx[n] \in Int /\ x = dataTx[n] + 1
      /\ counted.data \in Int /\ y = counted.data + 1 /\ counted \in Counts
  BY DEF Ledger, CentralTypes, Counts
<1> HIDE DEF x, y
<1>3. dataTx' \in [EnabledNodes -> Int] /\ AtSenders' = AtSenders + 1
  <2>1. x \in Int /\ dataTx \in [EnabledNodes -> Int]
    BY <1>2 DEF CentralTypes
  <2>2. Changes(dataTx, dataTx', EnabledNodes, n, x)
    BY <1>1, <2>1 DEF Changes
  <2>3. Total(dataTx, EnabledNodes) \in Int
        /\ Total(dataTx', EnabledNodes) = Total(dataTx, EnabledNodes) - dataTx[n] + x
    BY <2>2, Finite, CounterChange
  <2> QED
    BY <1>2, <2>2, <2>3 DEF AtSenders, Changes
<1>4. counted' \in Counts
      /\ counted'.ctrl = counted.ctrl /\ counted'.data = counted.data + 1 /\ counted'.rx = counted.rx
  BY <1>1, <1>2 DEF Counts
<1>5. CentralTypes'
  BY <1>1, <1>2, <1>3, <1>4 DEF CentralTypes, Counts
<1>6. Underway' /\ OnTheLine'
  BY <1>1 DEF Ledger, Underway, OnTheLine
<1>7. /\ UNCHANGED <<AtNodes, AtSinks, OnSerial, InSamples, current, total, lost>>
      /\ \A f : InMngt(f)' = InMngt(f)
  BY <1>1 DEF AtNodes, AtSinks, OnSerial, InSamples, InMngt
<1>8. Balanced'
  BY <1>3, <1>4, <1>7, LedgerInt DEF Balanced, Ledger
<1> QED
  BY <1>5, <1>6, <1>8 DEF Ledger

LEMMA LedgerCountDataRx ==
  ASSUME Ledger, NEW n \in Sinks, CountDataRx(n) PROVE Ledger'
<1> DEFINE x == dataRx[n] + 1
           y == counted.rx + 1
<1>1. /\ dataRx' = [dataRx EXCEPT ![n] = x]
      /\ counted' = [counted EXCEPT !.rx = y]
      /\ UNCHANGED <<ctrlTx, dataTx, reports, mngt, line, current, total, rate, series, lost>>
  BY DEF CountDataRx, pcVars
<1>2. CentralTypes /\ dataRx[n] \in Int /\ x = dataRx[n] + 1
      /\ counted.rx \in Int /\ y = counted.rx + 1 /\ counted \in Counts
  BY DEF Ledger, CentralTypes, Counts
<1> HIDE DEF x, y
<1>3. dataRx' \in [Sinks -> Int] /\ AtSinks' = AtSinks + 1
  <2>1. x \in Int /\ dataRx \in [Sinks -> Int]
    BY <1>2 DEF CentralTypes
  <2>2. Changes(dataRx, dataRx', Sinks, n, x)
    BY <1>1, <2>1 DEF Changes
  <2>3. Total(dataRx, Sinks) \in Int
        /\ Total(dataRx', Sinks) = Total(dataRx, Sinks) - dataRx[n] + x
    BY <2>2, Finite, CounterChange
  <2> QED
    BY <1>2, <2>2, <2>3 DEF AtSinks, Changes
<1>4. counted' \in Counts
      /\ counted'.ctrl = counted.ctrl /\ counted'.data = counted.data /\ counted'.rx = counted.rx + 1
  BY <1>1, <1>2 DEF Counts
<1>5. CentralTypes'
  BY <1>1, <1>2, <1>3, <1>4 DEF CentralTypes, Counts
<1>6. Underway' /\ OnTheLine'
  BY <1>1 DEF Ledger, Underway, OnTheLine
<1>7. /\ UNCHANGED <<AtNodes, AtSenders, OnSerial, InSamples, current, total, lost>>
      /\ \A f : InMngt(f)' = InMngt(f)
  BY <1>1 DEF AtNodes, AtSenders, OnSerial, InSamples, InMngt
<1>8. Balanced'
  BY <1>3, <1>4, <1>7, LedgerInt DEF Balanced, Ledger
<1> QED
  BY <1>5, <1>6, <1>8 DEF Ledger

\* Reading a counter.
LEMMA ReadingResets ==
  ASSUME NEW S, IsFiniteSet(S), NEW c \in [S -> Int], NEW n \in S, NEW d, d = AfterReading(c, n)
  PROVE  /\ d \in [S -> Int] /\ c[n] \in Int /\ Total(c, S) \in Int
         /\ Total(d, S) = Total(c, S) - c[n]
<1>1. Changes(c, d, S, n, 0) /\ c[n] \in Int
  BY DEF Changes, AfterReading
<1>2. Total(c, S) \in Int /\ Total(d, S) = Total(c, S) - c[n] + 0
  BY <1>1, CounterChange
<1> QED
  BY <1>1, <1>2 DEF Changes

Kinds == {"ctrl", "data", "rx"}

LEMMA LostAdds ==
  ASSUME Ledger, NEW p \in Packets, lost' = WithLost(p)
  PROVE  lost' \in Counts /\ \A f \in Kinds : lost'[f] = lost[f] + p[f]
<1> DEFINE a == lost.ctrl + p.ctrl
           b == lost.data + p.data
           c == lost.rx + p.rx
<1>1. lost \in Counts /\ lost.ctrl \in Int /\ lost.data \in Int /\ lost.rx \in Int
      /\ a \in Int /\ b \in Int /\ c \in Int
  <2>1. lost \in Counts
    BY DEF Ledger, CentralTypes, Counts
  <2> QED
    BY <2>1, LedgerInt, PacketFields
<1>2. lost' = [lost EXCEPT !.ctrl = a, !.data = b, !.rx = c]
  BY DEF WithLost
<1> HIDE DEF a, b, c
<1>3. lost' \in Counts /\ lost'.ctrl = a /\ lost'.data = b /\ lost'.rx = c
  BY <1>1, <1>2 DEF Counts
<1> QED
  BY <1>3 DEF Kinds, a, b, c

\* A report goes underway, or is lost with its counts.
LEMMA EnqueueSums ==
  ASSUME Ledger, NEW p \in Packets, Enqueue(p), p.no = reports[p.from],
         p.from \in EnabledNodes => p.rx = 0, p.from \in Sinks => p.ctrl = 0 /\ p.data = 0
  PROVE  /\ Underway' /\ reports' \in [Reporters \cup {Mote} -> Nat] /\ lost' \in Counts
         /\ \A f \in Kinds : InMngt(f)' = InMngt(f) + lost[f] + p[f] - lost'[f]
<1> DEFINE from == p.from
           up == reports[from] + 1
<1>1. /\ reports' = [reports EXCEPT ![from] = up]
      /\ \/ mngt' = mngt \cup {p} /\ UNCHANGED lost
         \/ lost' = WithLost(p) /\ UNCHANGED mngt
  BY DEF Enqueue
<1>2. /\ reports \in [Reporters \cup {Mote} -> Nat] /\ from \in Reporters
      /\ reports[from] \in Nat /\ up \in Nat /\ up = reports[from] + 1 /\ lost \in Counts
      /\ IsFiniteSet(mngt) /\ mngt \subseteq Packets
      /\ \A q \in mngt : q.no < reports[q.from]
  <2>1. /\ reports \in [Reporters \cup {Mote} -> Nat] /\ lost \in Counts
        /\ IsFiniteSet(mngt) /\ mngt \subseteq Packets
        /\ \A q \in mngt : q.no < reports[q.from]
    BY DEF Ledger, CentralTypes, Underway, Counts
  <2>2. from \in Reporters
    BY PacketFields
  <2> HIDE DEF from
  <2> QED
    BY <2>1, <2>2
<1> HIDE DEF up
<1>3. /\ reports' \in [Reporters \cup {Mote} -> Nat] /\ reports'[from] = up
      /\ \A r \in Reporters : r # from => reports'[r] = reports[r]
  BY <1>1, <1>2
<1>4. p \notin mngt /\ p.no < reports'[from]
  BY <1>2, <1>3
<1>5. \A q \in mngt : q.no < reports'[q.from]
  <2> SUFFICES ASSUME NEW q \in mngt PROVE q.no < reports'[q.from]
    OBVIOUS
  <2>1. q.from \in Reporters /\ q.no \in Nat /\ q.no < reports[q.from]
    BY <1>2, PacketFields
  <2> HIDE DEF from
  <2> QED
    BY <1>2, <1>3, <2>1
<1>6. Underway'
  <2>1. IsFiniteSet(mngt')
    BY <1>1, <1>2, FS_AddElement
  <2> QED
    BY <1>1, <1>4, <1>5, <2>1 DEF Ledger, Underway
<1>7. ASSUME NEW f \in Kinds PROVE InMngt(f)' = InMngt(f) + lost[f] + p[f] - lost'[f]
  <2>1. /\ \A q \in mngt : q[f] \in Int
        /\ p[f] \in Int /\ lost[f] \in Int
    BY <1>2, PacketFields DEF Kinds, Counts
  <2>2. InMngt(f) \in Int
    BY LedgerInt DEF Kinds
  <2>3. CASE mngt' = mngt \cup {p} /\ UNCHANGED lost
    <3>1. PacketSum(mngt', f) = PacketSum(mngt, f) + p[f]
      BY <1>2, <1>4, <2>1, <2>3, PacketSumAdd
    <3>2. InMngt(f)' = InMngt(f) + p[f]
      BY <2>3, <3>1 DEF InMngt
    <3> QED
      BY <2>1, <2>2, <2>3, <3>2
  <2>4. CASE lost' = WithLost(p) /\ UNCHANGED mngt
    <3>1. InMngt(f)' = InMngt(f)
      BY <2>4 DEF InMngt
    <3>2. lost'[f] = lost[f] + p[f]
      BY <2>4, LostAdds
    <3> QED
      BY <2>1, <2>2, <3>1, <3>2
  <2> QED
    BY <1>1, <2>3, <2>4
<1>8. lost' \in Counts
  BY <1>1, <1>2, LostAdds
<1> QED
  BY <1>3, <1>6, <1>7, <1>8

\* A packet is taken or lost.
LEMMA PacketGone ==
  ASSUME Ledger, NEW p \in mngt, mngt' = mngt \ {p}, UNCHANGED reports
  PROVE  /\ Underway' /\ p \in Packets
         /\ \A f \in Kinds : InMngt(f)' = InMngt(f) - p[f]
         /\ p.from \in EnabledNodes => p.rx = 0
         /\ p.from \in Sinks => p.ctrl = 0 /\ p.data = 0
<1>1. IsFiniteSet(mngt) /\ mngt \subseteq Packets /\ p \in Packets /\ IsFiniteSet(mngt \ {p})
  BY OneLess DEF Ledger, Underway
<1>2. Underway'
  BY <1>1 DEF Ledger, Underway
<1>3. ASSUME NEW f \in Kinds PROVE InMngt(f)' = InMngt(f) - p[f]
  <2>1. \A q \in mngt : q[f] \in Int
    BY <1>1, PacketFields DEF Kinds
  <2>2. PacketSum(mngt \ {p}, f) = PacketSum(mngt, f) - p[f]
    BY <1>1, <2>1, PacketSumRemove
  <2> QED
    BY <2>2 DEF InMngt
<1> QED
  BY <1>1, <1>2, <1>3 DEF Ledger, Underway

\* A frame is taken or lost.
LEMMA FrameGone ==
  ASSUME Ledger, line # <<>>, line' = Tail(line)
  PROVE  /\ OnTheLine' /\ Head(line).value \in Int /\ OnSerial' = OnSerial - Head(line).value
         /\ Head(line).type = "SEC" => Head(line).value = 0
<1>1. line \in Seq(Frames) /\ \A i \in DOMAIN line : line[i].type = "SEC" => line[i].value = 0
  BY DEF Ledger, OnTheLine
<1>2. /\ Values(line) \in Seq(Int)
      /\ Head(line) \in Frames /\ Tail(line) \in Seq(Frames)
      /\ Values(Tail(line)) = Tail(Values(line)) /\ Values(line) # <<>>
      /\ Values(line)[1] = Head(line).value /\ Head(line) = line[1] /\ 1 \in DOMAIN line
      /\ \A i \in DOMAIN Tail(line) : i + 1 \in DOMAIN line /\ Tail(line)[i] = line[i + 1]
  BY <1>1, ValuesFacts DEF Frames
<1>3. SeqSum(Tail(Values(line))) = SeqSum(Values(line)) - Values(line)[1]
  BY <1>2, SeqSumTail
<1>4. OnSerial' = OnSerial - Head(line).value
  BY <1>2, <1>3 DEF OnSerial
<1>5. OnTheLine'
  BY <1>1, <1>2 DEF OnTheLine
<1> QED
  BY <1>1, <1>2, <1>4, <1>5 DEF Frames

LEMMA LedgerReportNode ==
  ASSUME Ledger, NEW n \in EnabledNodes, ReportNode(n) PROVE Ledger'
<1> DEFINE p == [from |-> n, no |-> reports[n], ctrl |-> ctrlTx[n], data |-> dataTx[n], rx |-> 0]
<1>1. /\ Enqueue(p) /\ ctrlTx' = AfterReading(ctrlTx, n) /\ dataTx' = AfterReading(dataTx, n)
      /\ UNCHANGED <<dataRx, line, current, total, rate, series, counted>>
  BY DEF ReportNode, pcVars
<1>2. CentralTypes /\ n \in CtrlNodes /\ n \in Reporters /\ n \notin Sinks
  BY Finite DEF Ledger, CtrlNodes, Reporters
<1>3. /\ ctrlTx[n] \in Int /\ dataTx[n] \in Int /\ reports[n] \in Nat
      /\ ctrlTx \in [CtrlNodes -> Int] /\ dataTx \in [EnabledNodes -> Int]
  BY <1>2 DEF CentralTypes
<1>4. /\ p \in Packets /\ p.from = n /\ p.no = reports[n] /\ p["ctrl"] = ctrlTx[n]
      /\ p["data"] = dataTx[n] /\ p["rx"] = 0 /\ p.rx = 0
  BY <1>2, <1>3 DEF Packets
<1> HIDE DEF p
<1>5. /\ Underway' /\ reports' \in [Reporters \cup {Mote} -> Nat] /\ lost' \in Counts
      /\ \A f \in Kinds : InMngt(f)' = InMngt(f) + lost[f] + p[f] - lost'[f]
  BY <1>1, <1>2, <1>4, EnqueueSums
<1>6. /\ ctrlTx' \in [CtrlNodes -> Int] /\ AtNodes' = AtNodes - ctrlTx[n]
      /\ dataTx' \in [EnabledNodes -> Int] /\ AtSenders' = AtSenders - dataTx[n]
  BY <1>1, <1>2, <1>3, Finite, ReadingResets DEF AtNodes, AtSenders
<1>7. CentralTypes'
  BY <1>1, <1>2, <1>5, <1>6 DEF CentralTypes, Counts
<1>8. OnTheLine'
  BY <1>1 DEF Ledger, OnTheLine
<1>9. /\ AtSinks' = AtSinks /\ OnSerial' = OnSerial /\ InSamples' = InSamples
      /\ UNCHANGED <<current, total, counted>>
  BY <1>1 DEF AtSinks, OnSerial, InSamples
<1>10. /\ InMngt("ctrl")' = InMngt("ctrl") + lost.ctrl + ctrlTx[n] - lost'.ctrl
       /\ InMngt("data")' = InMngt("data") + lost.data + dataTx[n] - lost'.data
       /\ InMngt("rx")' = InMngt("rx") + lost.rx + 0 - lost'.rx
  BY <1>4, <1>5 DEF Kinds
<1>11. lost'.ctrl \in Int /\ lost'.data \in Int /\ lost'.rx \in Int
  BY <1>5 DEF Counts
<1>12. Balanced'
  BY <1>3, <1>6, <1>9, <1>10, <1>11, LedgerInt DEF Balanced, Ledger
<1> QED
  BY <1>5, <1>7, <1>8, <1>12 DEF Ledger

LEMMA LedgerReportSink ==
  ASSUME Ledger, NEW s \in Sinks, ReportSink(s) PROVE Ledger'
<1> DEFINE p == [from |-> s, no |-> reports[s], ctrl |-> 0, data |-> 0, rx |-> dataRx[s]]
<1>1. /\ Enqueue(p) /\ dataRx' = AfterReading(dataRx, s)
      /\ UNCHANGED <<ctrlTx, dataTx, line, current, total, rate, series, counted>>
  BY DEF ReportSink, pcVars
<1>2. CentralTypes /\ s \in Reporters /\ s \notin EnabledNodes
  BY Finite DEF Ledger, Reporters
<1>3. dataRx[s] \in Int /\ reports[s] \in Nat /\ dataRx \in [Sinks -> Int]
  BY <1>2 DEF CentralTypes
<1>4. /\ p \in Packets /\ p.from = s /\ p.no = reports[s] /\ p["ctrl"] = 0
      /\ p["data"] = 0 /\ p["rx"] = dataRx[s] /\ p.ctrl = 0 /\ p.data = 0
  BY <1>2, <1>3 DEF Packets
<1> HIDE DEF p
<1>5. /\ Underway' /\ reports' \in [Reporters \cup {Mote} -> Nat] /\ lost' \in Counts
      /\ \A f \in Kinds : InMngt(f)' = InMngt(f) + lost[f] + p[f] - lost'[f]
  BY <1>1, <1>2, <1>4, EnqueueSums
<1>6. dataRx' \in [Sinks -> Int] /\ AtSinks' = AtSinks - dataRx[s]
  BY <1>1, <1>3, Finite, ReadingResets DEF AtSinks
<1>7. CentralTypes'
  BY <1>1, <1>2, <1>5, <1>6 DEF CentralTypes, Counts
<1>8. OnTheLine'
  BY <1>1 DEF Ledger, OnTheLine
<1>9. /\ AtNodes' = AtNodes /\ AtSenders' = AtSenders /\ OnSerial' = OnSerial /\ InSamples' = InSamples
      /\ UNCHANGED <<current, total, counted>>
  BY <1>1 DEF AtNodes, AtSenders, OnSerial, InSamples
<1>10. /\ InMngt("ctrl")' = InMngt("ctrl") + lost.ctrl + 0 - lost'.ctrl
       /\ InMngt("data")' = InMngt("data") + lost.data + 0 - lost'.data
       /\ InMngt("rx")' = InMngt("rx") + lost.rx + dataRx[s] - lost'.rx
  BY <1>4, <1>5 DEF Kinds
<1>11. lost'.ctrl \in Int /\ lost'.data \in Int /\ lost'.rx \in Int
  BY <1>5 DEF Counts
<1>12. Balanced'
  BY <1>3, <1>6, <1>9, <1>10, <1>11, LedgerInt DEF Balanced, Ledger
<1> QED
  BY <1>5, <1>7, <1>8, <1>12 DEF Ledger

LEMMA LedgerMoteTimer ==
  ASSUME Ledger, MoteTimer PROVE Ledger'
<1> DEFINE a == [type |-> "CTRL_PCKT_TX", value |-> ctrlTx[Mote]]
           b == [type |-> "SEC", value |-> 0]
           up == reports[Mote] + 1
<1>1. /\ reports' = [reports EXCEPT ![Mote] = up]
      /\ line' = line \o <<a, b>> /\ ctrlTx' = AfterReading(ctrlTx, Mote)
      /\ UNCHANGED <<dataTx, dataRx, mngt, current, total, rate, series, counted, lost>>
  BY DEF MoteTimer, pcVars
<1>2. CentralTypes /\ Mote \in CtrlNodes /\ Mote \notin Reporters
  BY Finite DEF Ledger, CtrlNodes
<1>3. /\ ctrlTx[Mote] \in Int /\ ctrlTx \in [CtrlNodes -> Int]
      /\ reports \in [Reporters \cup {Mote} -> Nat] /\ reports[Mote] \in Nat /\ up \in Nat
  BY <1>2 DEF CentralTypes
<1> HIDE DEF up
<1>4. a \in Frames /\ b \in Frames /\ a.value = ctrlTx[Mote] /\ b.value = 0 /\ a.type # "SEC"
  BY <1>3 DEF Frames
<1> HIDE DEF a, b
<1>5. line \in Seq(Frames) /\ \A i \in DOMAIN line : line[i].type = "SEC" => line[i].value = 0
  BY DEF Ledger, OnTheLine
<1>6. /\ line' \in Seq(Frames)
      /\ SeqSum(Values(line)) \in Int
      /\ SeqSum(Values(line')) = (SeqSum(Values(line)) + a.value) + b.value
      /\ \A i \in DOMAIN line' : \/ i \in DOMAIN line /\ line'[i] = line[i]
                                 \/ line'[i] = a \/ line'[i] = b
  <2> DEFINE q == line
             r == line'
  <2>1. q \in Seq(Frames) /\ a \in Frames /\ b \in Frames /\ r = q \o <<a, b>>
    BY <1>1, <1>4, <1>5
  <2> HIDE DEF q, r
  <2>2. /\ r \in Seq(Frames) /\ Len(r) = Len(q) + 2 /\ r[Len(q) + 1] = a /\ r[Len(q) + 2] = b
        /\ \A i \in 1 .. Len(q) : r[i] = q[i]
    BY <2>1
  <2>6. q \in Seq(Frames) /\ a \in Frames /\ b \in Frames
    BY <2>1
  <2>3. SeqSum(Values(q)) \in Int
    BY <2>2, <2>6, ValuesTwo
  <2>4. SeqSum(Values(r)) = (SeqSum(Values(q)) + a.value) + b.value
    BY <2>2, <2>6, ValuesTwo
  <2>5. \A i \in DOMAIN r : (i \in DOMAIN q /\ r[i] = q[i]) \/ r[i] = a \/ r[i] = b
    BY <2>2, <2>6, ValuesTwo
  <2> QED
    BY <2>2, <2>3, <2>4, <2>5 DEF q, r
<1>7. OnTheLine'
  BY <1>4, <1>5, <1>6 DEF OnTheLine
<1>8. OnSerial' = OnSerial + ctrlTx[Mote]
  BY <1>3, <1>4, <1>6 DEF OnSerial
<1>9. ctrlTx' \in [CtrlNodes -> Int] /\ AtNodes' = AtNodes - ctrlTx[Mote]
  BY <1>1, <1>2, <1>3, Finite, ReadingResets DEF AtNodes
<1>10. reports' \in [Reporters \cup {Mote} -> Nat] /\ \A r \in Reporters : reports'[r] = reports[r]
  BY <1>1, <1>2, <1>3
<1>11. CentralTypes'
  BY <1>1, <1>2, <1>9, <1>10 DEF CentralTypes
<1>12. Underway'
  <2>1. \A p \in mngt : p.from \in Reporters
    BY PacketFields DEF Ledger, Underway
  <2> QED
    BY <1>1, <1>10, <2>1 DEF Ledger, Underway
<1>13. /\ AtSenders' = AtSenders /\ AtSinks' = AtSinks /\ InSamples' = InSamples
       /\ UNCHANGED <<current, total, counted, lost>>
       /\ InMngt("ctrl")' = InMngt("ctrl") /\ InMngt("data")' = InMngt("data")
       /\ InMngt("rx")' = InMngt("rx")
  BY <1>1 DEF AtSenders, AtSinks, InSamples, InMngt
<1>14. Balanced'
  BY <1>3, <1>8, <1>9, <1>13, LedgerInt DEF Balanced, Ledger
<1> QED
  BY <1>7, <1>11, <1>12, <1>14 DEF Ledger

LEMMA LedgerLosePacket ==
  ASSUME Ledger, NEW p \in mngt, LosePacket(p) PROVE Ledger'
<1>1. /\ mngt' = mngt \ {p} /\ lost' = WithLost(p)
      /\ UNCHANGED <<ctrlTx, dataTx, dataRx, reports, line, current, total, rate, series, counted>>
  BY DEF LosePacket, nodeVars, pcVars
<1>2. /\ Underway' /\ p \in Packets /\ \A f \in Kinds : InMngt(f)' = InMngt(f) - p[f]
  BY <1>1, PacketGone
<1>3. lost' \in Counts /\ \A f \in Kinds : lost'[f] = lost[f] + p[f]
  BY <1>1, <1>2, LostAdds
<1>4. CentralTypes' /\ OnTheLine'
  BY <1>1, <1>3 DEF Ledger, CentralTypes, Counts, OnTheLine
<1>5. /\ InMngt("ctrl")' = InMngt("ctrl") - p.ctrl /\ lost'.ctrl = lost.ctrl + p.ctrl
      /\ InMngt("data")' = InMngt("data") - p.data /\ lost'.data = lost.data + p.data
      /\ InMngt("rx")' = InMngt("rx") - p.rx /\ lost'.rx = lost.rx + p.rx
      /\ p.ctrl \in Int /\ p.data \in Int /\ p.rx \in Int
  BY <1>2, <1>3, PacketFields DEF Kinds
<1>6. /\ AtNodes' = AtNodes /\ AtSenders' = AtSenders /\ AtSinks' = AtSinks
      /\ OnSerial' = OnSerial /\ InSamples' = InSamples
      /\ UNCHANGED <<current, total, counted>>
  BY <1>1 DEF AtNodes, AtSenders, AtSinks, OnSerial, InSamples
<1>7. Balanced'
  BY <1>5, <1>6, LedgerInt DEF Balanced, Ledger
<1> QED
  BY <1>2, <1>4, <1>7 DEF Ledger

LEMMA LedgerLoseFrame ==
  ASSUME Ledger, LoseFrame PROVE Ledger'
<1> DEFINE x == Head(line).value
           y == lost.ctrl + x
<1>1. /\ line # <<>> /\ line' = Tail(line) /\ lost' = [lost EXCEPT !.ctrl = y]
      /\ UNCHANGED <<ctrlTx, dataTx, dataRx, reports, mngt, current, total, rate, series, counted>>
  BY DEF LoseFrame, nodeVars, pcVars
<1>2. OnTheLine' /\ x \in Int /\ OnSerial' = OnSerial - x
  BY <1>1, FrameGone
<1>3. lost \in Counts /\ y \in Int /\ y = lost.ctrl + x
  BY <1>2, LedgerInt, LedgerCounts
<1> HIDE DEF x, y
<1>4. lost' \in Counts /\ lost'.ctrl = y /\ lost'.data = lost.data /\ lost'.rx = lost.rx
  BY <1>1, <1>3 DEF Counts
<1>5. CentralTypes' /\ Underway'
  BY <1>1, <1>4 DEF Ledger, CentralTypes, Counts, Underway
<1>6. /\ AtNodes' = AtNodes /\ AtSenders' = AtSenders /\ AtSinks' = AtSinks /\ InSamples' = InSamples
      /\ UNCHANGED <<current, total, counted>>
      /\ InMngt("ctrl")' = InMngt("ctrl") /\ InMngt("data")' = InMngt("data")
      /\ InMngt("rx")' = InMngt("rx")
  BY <1>1 DEF AtNodes, AtSenders, AtSinks, InSamples, InMngt
<1>7. Balanced'
  BY <1>2, <1>3, <1>4, <1>6, LedgerInt DEF Balanced, Ledger
<1> QED
  BY <1>2, <1>5, <1>7 DEF Ledger

LEMMA LedgerNodeMetrics ==
  ASSUME Ledger, NEW p \in mngt, NodeMetrics(p) PROVE Ledger'
<1>1. /\ mngt' = mngt \ {p} /\ p.from \in EnabledNodes
      /\ current' = [ctrl |-> current.ctrl + p.ctrl, data |-> current.data + p.data]
      /\ UNCHANGED <<ctrlTx, dataTx, dataRx, reports, line, total, rate, series, counted, lost>>
  BY DEF NodeMetrics, nodeVars
<1>2. /\ Underway' /\ p \in Packets /\ p.rx = 0 /\ \A f \in Kinds : InMngt(f)' = InMngt(f) - p[f]
  BY <1>1, PacketGone
<1>3. /\ InMngt("ctrl")' = InMngt("ctrl") - p.ctrl /\ InMngt("data")' = InMngt("data") - p.data
      /\ InMngt("rx")' = InMngt("rx") - 0
      /\ p.ctrl \in Int /\ p.data \in Int /\ p.rx \in Int
  BY <1>2, PacketFields DEF Kinds
<1>4. /\ current' \in [ctrl : Int, data : Int]
      /\ current'.ctrl = current.ctrl + p.ctrl /\ current'.data = current.data + p.data
  BY <1>1, <1>3, LedgerInt
<1>5. CentralTypes' /\ OnTheLine'
  BY <1>1, <1>4 DEF Ledger, CentralTypes, OnTheLine
<1>6. /\ AtNodes' = AtNodes /\ AtSenders' = AtSenders /\ AtSinks' = AtSinks
      /\ OnSerial' = OnSerial /\ InSamples' = InSamples
      /\ UNCHANGED <<total, counted, lost>>
  BY <1>1 DEF AtNodes, AtSenders, AtSinks, OnSerial, InSamples
<1>7. Balanced'
  BY <1>3, <1>4, <1>6, LedgerInt DEF Balanced, Ledger
<1> QED
  BY <1>2, <1>5, <1>7 DEF Ledger

LEMMA LedgerSinkMetrics ==
  ASSUME Ledger, NEW p \in mngt, SinkMetrics(p) PROVE Ledger'
<1> DEFINE x == total.rx + p.rx
           y == total.data + current.data
<1>1. /\ mngt' = mngt \ {p} /\ p.from \in Sinks /\ rate' = p.rx
      /\ total' = [total EXCEPT !.rx = x, !.data = y]
      /\ current' = [current EXCEPT !.data = 0]
      /\ UNCHANGED <<ctrlTx, dataTx, dataRx, reports, line, series, counted, lost>>
  BY DEF SinkMetrics, nodeVars
<1>2. /\ Underway' /\ p \in Packets /\ p.ctrl = 0 /\ p.data = 0
      /\ \A f \in Kinds : InMngt(f)' = InMngt(f) - p[f]
  BY <1>1, PacketGone
<1>3. /\ InMngt("ctrl")' = InMngt("ctrl") - 0 /\ InMngt("data")' = InMngt("data") - 0
      /\ InMngt("rx")' = InMngt("rx") - p.rx /\ p.rx \in Int
  BY <1>2, PacketFields DEF Kinds
<1>4. /\ total \in Counts /\ current \in [ctrl : Int, data : Int]
      /\ x \in Int /\ x = total.rx + p.rx /\ y \in Int /\ y = total.data + current.data
  BY <1>3, LedgerInt, LedgerCounts
<1> HIDE DEF x, y
<1>5. /\ total' \in Counts /\ total'.rx = x /\ total'.data = y /\ total'.ctrl = total.ctrl
      /\ current' \in [ctrl : Int, data : Int] /\ current'.ctrl = current.ctrl /\ current'.data = 0
  <2>1. total' \in Counts /\ total'.rx = x /\ total'.data = y /\ total'.ctrl = total.ctrl
    BY <1>1, <1>4 DEF Counts
  <2> QED
    BY <1>1, <1>4, <2>1
<1>6. CentralTypes' /\ OnTheLine'
  BY <1>1, <1>3, <1>5 DEF Ledger, CentralTypes, Counts, OnTheLine
<1>7. /\ AtNodes' = AtNodes /\ AtSenders' = AtSenders /\ AtSinks' = AtSinks
      /\ OnSerial' = OnSerial /\ InSamples' = InSamples
      /\ UNCHANGED <<counted, lost>>
  BY <1>1 DEF AtNodes, AtSenders, AtSinks, OnSerial, InSamples
<1>8. Balanced'
  BY <1>3, <1>4, <1>5, <1>7, LedgerInt DEF Balanced, Ledger
<1> QED
  BY <1>2, <1>6, <1>8 DEF Ledger

LEMMA LedgerCtrlFrame ==
  ASSUME Ledger, CtrlFrame PROVE Ledger'
<1> DEFINE x == Head(line).value
           y == current.ctrl + x
<1>1. /\ line # <<>> /\ line' = Tail(line) /\ current' = [current EXCEPT !.ctrl = y]
      /\ UNCHANGED <<ctrlTx, dataTx, dataRx, reports, mngt, total, rate, series, counted, lost>>
  BY DEF CtrlFrame, nodeVars
<1>2. OnTheLine' /\ x \in Int /\ OnSerial' = OnSerial - x
  BY <1>1, FrameGone
<1>3. current \in [ctrl : Int, data : Int] /\ y \in Int /\ y = current.ctrl + x
  BY <1>2, LedgerInt, LedgerCounts
<1> HIDE DEF x, y
<1>4. /\ current' \in [ctrl : Int, data : Int] /\ current'.ctrl = y
      /\ current'.data = current.data
  BY <1>1, <1>3
<1>5. CentralTypes' /\ Underway'
  BY <1>1, <1>4 DEF Ledger, CentralTypes, Underway
<1>6. /\ AtNodes' = AtNodes /\ AtSenders' = AtSenders /\ AtSinks' = AtSinks /\ InSamples' = InSamples
      /\ UNCHANGED <<total, counted, lost>>
      /\ InMngt("ctrl")' = InMngt("ctrl") /\ InMngt("data")' = InMngt("data")
      /\ InMngt("rx")' = InMngt("rx")
  BY <1>1 DEF AtNodes, AtSenders, AtSinks, InSamples, InMngt
<1>7. Balanced'
  BY <1>2, <1>3, <1>4, <1>6, LedgerInt DEF Balanced, Ledger
<1> QED
  BY <1>2, <1>5, <1>7 DEF Ledger

LEMMA MeasuredInt ==
  ASSUME Ledger
  PROVE  Measured \in [Metrics -> Int] /\ Measured["CTRL_PCKTS_OVHD"] = current.ctrl
<1>1. current.ctrl \in Int /\ rate \in Int
  BY LedgerInt DEF Ledger, CentralTypes
<1> QED
  BY <1>1 DEF Measured, Metrics

LEMMA LedgerSample ==
  ASSUME Ledger, Sample PROVE Ledger'
<1> DEFINE x == current.ctrl
           y == total.ctrl + x
           old == series["CTRL_PCKTS_OVHD"]
<1>1. /\ line # <<>> /\ Head(line).type = "SEC" /\ line' = Tail(line)
      /\ total' = [total EXCEPT !.ctrl = y] /\ current' = [current EXCEPT !.ctrl = 0]
      /\ series' = [m \in Metrics |-> Append(series[m], Measured[m])]
      /\ UNCHANGED <<ctrlTx, dataTx, dataRx, reports, mngt, rate, counted, lost>>
  BY DEF Sample, nodeVars
<1>2. OnTheLine' /\ OnSerial' = OnSerial - 0
  BY <1>1, FrameGone
<1>3. /\ current \in [ctrl : Int, data : Int] /\ total \in Counts /\ x \in Int /\ y \in Int
      /\ y = total.ctrl + x /\ x = current.ctrl
  BY LedgerInt DEF Ledger, CentralTypes, Counts
<1>4. old \in Seq(Int) /\ series \in [Metrics -> Seq(Int)]
  BY DEF Ledger, CentralTypes, Metrics
<1>5. series'["CTRL_PCKTS_OVHD"] = Append(old, x) /\ series' \in [Metrics -> Seq(Int)]
  <2>1. \A m \in Metrics : series[m] \in Seq(Int) /\ Measured[m] \in Int
    BY <1>4, MeasuredInt
  <2>2. \A m \in Metrics : Append(series[m], Measured[m]) \in Seq(Int)
    BY <2>1
  <2>3. "CTRL_PCKTS_OVHD" \in Metrics
    BY DEF Metrics
  <2> QED
    BY <1>1, <2>2, <2>3, MeasuredInt
<1> HIDE DEF x, y, old
<1>6. InSamples' = InSamples + x
  <2>1. SeqSum(Append(old, x)) = SeqSum(old) + x
    BY <1>3, <1>4, SeqSumAppend
  <2> QED
    BY <1>5, <2>1 DEF InSamples, old
<1>7. /\ total' \in Counts /\ total'.ctrl = y /\ total'.data = total.data /\ total'.rx = total.rx
      /\ current' \in [ctrl : Int, data : Int] /\ current'.ctrl = 0 /\ current'.data = current.data
  <2>1. total' \in Counts /\ total'.ctrl = y /\ total'.data = total.data /\ total'.rx = total.rx
    <3>1. total \in Counts /\ y \in Int /\ total' = [total EXCEPT !.ctrl = y]
      BY <1>1, <1>3
    <3> QED
      BY <3>1 DEF Counts
  <2>2. current \in [ctrl : Int, data : Int] /\ current' = [current EXCEPT !.ctrl = 0]
    BY <1>1, <1>3
  <2> QED
    BY <2>1, <2>2
<1>8. CentralTypes' /\ Underway'
  BY <1>1, <1>5, <1>7 DEF Ledger, CentralTypes, Counts, Underway
<1>9. /\ AtNodes' = AtNodes /\ AtSenders' = AtSenders /\ AtSinks' = AtSinks
      /\ UNCHANGED <<counted, lost>>
      /\ InMngt("ctrl")' = InMngt("ctrl") /\ InMngt("data")' = InMngt("data")
      /\ InMngt("rx")' = InMngt("rx")
  BY <1>1 DEF AtNodes, AtSenders, AtSinks, InMngt
<1>10. Balanced'
  BY <1>2, <1>3, <1>6, <1>7, <1>9, LedgerInt DEF Balanced, Ledger
<1> QED
  BY <1>2, <1>8, <1>10 DEF Ledger

LEMMA LedgerNext == Ledger /\ [CentralNext]_centralVars => Ledger'
<1> SUFFICES ASSUME Ledger, [CentralNext]_centralVars PROVE Ledger'
  OBVIOUS
<1>1. CASE UNCHANGED centralVars
  <2>1. UNCHANGED <<ctrlTx, dataTx, dataRx, reports, mngt, line, current, total, rate, series,
                    counted, lost>>
    BY <1>1 DEF centralVars, nodeVars, pcVars
  <2> QED
    BY <2>1 DEF Ledger, CentralTypes, Underway, OnTheLine, Balanced, AtNodes, AtSenders,
                AtSinks, OnSerial, InSamples, InMngt
<1>2. CASE CentralNext
  BY <1>2, LedgerCountCtrl, LedgerCountDataTx, LedgerCountDataRx, LedgerReportNode,
     LedgerReportSink, LedgerMoteTimer, LedgerLosePacket, LedgerLoseFrame, LedgerNodeMetrics,
     LedgerSinkMetrics, LedgerCtrlFrame, LedgerSample
     DEF CentralNext, CtrlNodes
<1> QED
  BY <1>1, <1>2

\* The sums that are compared, of each metric.
Compared(s, v) ==
  /\ Len(v) < CentralMWin => s.q1 = 0
  /\ Len(v) >= CentralMWin => s.q1 = Total(v, SSkip + 1 .. CentralMWin)
  /\ s.q2 = Total(v, CentralMWin + 1 .. Len(v))

LEMMA PartSum ==
  ASSUME NEW v \in Seq(Int), NEW w \in Seq(Int), Len(v) <= Len(w),
         \A i \in 1 .. Len(v) : w[i] = v[i],
         NEW a \in Nat, NEW b \in Nat, b <= Len(v)
  PROVE  /\ Total(w, a + 1 .. b) = Total(v, a + 1 .. b)
         /\ Total(v, a + 1 .. b) \in Int /\ IsFiniteSet(a + 1 .. b)
<1> DEFINE S == a + 1 .. b
<1>1. IsFiniteSet(S)
  BY FS_Interval
<1>2. \A i \in S : v[i] \in Int /\ w[i] = v[i]
  OBVIOUS
<1> HIDE DEF S
<1>3. Total(w, S) = Total(v, S) /\ Total(v, S) \in Int
  BY <1>1, <1>2, TotalSame, TotalRemove
<1> QED
  BY <1>1, <1>3 DEF S

LEMMA ComparedNext ==
  ASSUME NEW s \in [q1 : Int, q2 : Int], NEW v \in Seq(Int), NEW x \in Int, Compared(s, v)
  PROVE  /\ Summed(s, Append(v, x)) \in [q1 : Int, q2 : Int]
         /\ Compared(Summed(s, Append(v, x)), Append(v, x))
<1> DEFINE w == Append(v, x)
           n == Len(v)
           r == Summed(s, w)
<1>1. /\ w \in Seq(Int) /\ Len(w) = n + 1 /\ n \in Nat /\ w[n + 1] = x
      /\ Len(v) <= Len(w) /\ \A i \in 1 .. n : w[i] = v[i]
  OBVIOUS
<1>2. CentralMWin \in Nat /\ SSkip \in Nat /\ SSkip < CentralMWin
  BY CentralAssumption
<1>3. s.q1 \in Int /\ s.q2 \in Int
  OBVIOUS
<1> HIDE DEF w
<1>4. /\ r.q1 = IF n + 1 = CentralMWin THEN s.q1 + Sum(w, SSkip + 1 .. CentralMWin) ELSE s.q1
      /\ r.q2 = IF n + 1 > CentralMWin THEN s.q2 + x ELSE s.q2
      /\ r = [q1 |-> r.q1, q2 |-> r.q2]
  BY <1>1 DEF Summed
<1> HIDE DEF r, n
<1>5. /\ n + 1 < CentralMWin => r.q1 = 0
      /\ n + 1 >= CentralMWin => r.q1 = Total(w, SSkip + 1 .. CentralMWin)
      /\ r.q1 \in Int
  <2>1. CASE n + 1 < CentralMWin
    BY <1>1, <1>2, <1>3, <1>4, <2>1 DEF Compared, n
  <2>2. CASE n + 1 = CentralMWin
    <3>1. s.q1 = 0
      BY <1>1, <1>2, <2>2 DEF Compared, n
    <3>2. Total(w, SSkip + 1 .. CentralMWin) \in Int
      BY <1>1, <1>2, <2>2, PartSum
    <3> QED
      BY <1>2, <1>4, <2>2, <3>1, <3>2, SeriesTotal
  <2>3. CASE n + 1 > CentralMWin
    <3>1. n >= CentralMWin
      BY <1>1, <1>2, <2>3
    <3>2. s.q1 = Total(v, SSkip + 1 .. CentralMWin)
      BY <3>1 DEF Compared, n
    <3>3. Total(w, SSkip + 1 .. CentralMWin) = Total(v, SSkip + 1 .. CentralMWin)
      BY <1>1, <1>2, <3>1, PartSum DEF n
    <3> QED
      BY <1>1, <1>2, <1>3, <1>4, <2>3, <3>2, <3>3
  <2> QED
    BY <1>1, <1>2, <2>1, <2>2, <2>3
<1>6. r.q2 = Total(w, CentralMWin + 1 .. n + 1) /\ r.q2 \in Int
  <2>0. s.q2 = Total(v, CentralMWin + 1 .. n)
    BY DEF Compared, n
  <2>1. CASE n + 1 > CentralMWin
    <3> DEFINE S == CentralMWin + 1 .. n
               T == CentralMWin + 1 .. n + 1
               k == n + 1
    <3>1. /\ IsFiniteSet(S) /\ Total(w, S) = Total(v, S) /\ Total(v, S) \in Int
      <4>1. /\ Len(v) <= Len(w) /\ Len(v) \in Nat /\ \A i \in 1 .. Len(v) : w[i] = v[i]
            /\ Len(v) <= Len(v) /\ w \in Seq(Int) /\ CentralMWin \in Nat
        BY <1>1, <1>2 DEF n
      <4>2. LET R == CentralMWin + 1 .. Len(v)
            IN  IsFiniteSet(R) /\ Total(w, R) = Total(v, R) /\ Total(v, R) \in Int
        BY <4>1, PartSum
      <4> QED
        BY <4>2 DEF n
    <3>2. T = S \cup {k} /\ k \notin S /\ \A i \in S : i \in 1 .. n
      BY <1>1, <1>2, <2>1
    <3>3. \A i \in S : w[i] \in Int
      BY <1>1, <3>2 DEF n
    <3>4. w[k] = x
      BY <1>1
    <3> HIDE DEF S, T, k
    <3>5. Total(w, S \cup {k}) = w[k] + Total(w, S)
      BY <3>1, <3>2, <3>3, <3>4, TotalAdd
    <3>6. Total(w, T) = x + Total(v, S)
      BY <3>1, <3>2, <3>4, <3>5
    <3> QED
      BY <1>3, <1>4, <2>0, <2>1, <3>1, <3>6 DEF S, T
  <2>2. CASE ~ (n + 1 > CentralMWin)
    <3>1. CentralMWin + 1 .. n = {} /\ CentralMWin + 1 .. n + 1 = {}
      BY <1>1, <1>2, <2>2
    <3> QED
      BY <1>3, <1>4, <2>0, <2>2, <3>1, TotalEmpty
  <2> QED
    BY <2>1, <2>2
<1>7. r \in [q1 : Int, q2 : Int]
  BY <1>4, <1>5, <1>6
<1>8. Len(w) = n + 1
  BY <1>1
<1> QED
  BY <1>5, <1>6, <1>7, <1>8 DEF Compared, r, w

AllCompared ==
  /\ sums \in [Metrics -> [q1 : Int, q2 : Int]]
  /\ \A m \in Metrics : Compared(sums[m], series[m])

LEMMA ComparedInit == CentralInit => AllCompared
<1> SUFFICES ASSUME CentralInit, NEW m \in Metrics PROVE Compared(sums[m], series[m])
  BY DEF CentralInit, AllCompared
<1>1. sums[m].q1 = 0 /\ sums[m].q2 = 0 /\ series[m] = <<>>
  BY DEF CentralInit
<1>2. Len(<<>>) = 0 /\ CentralMWin \in Nat /\ CentralMWin > 0 /\ CentralMWin + 1 .. 0 = {}
  BY CentralAssumption
<1> QED
  BY <1>1, <1>2, TotalEmpty DEF Compared

LEMMA AllComparedNext == Ledger /\ AllCompared /\ [CentralNext]_centralVars => AllCompared'
<1> SUFFICES ASSUME Ledger, AllCompared, [CentralNext]_centralVars PROVE AllCompared'
  OBVIOUS
<1>1. CASE Sample
  <2>1. /\ series' = [m \in Metrics |-> Append(series[m], Measured[m])]
        /\ sums' = [m \in Metrics |-> Summed(sums[m], series'[m])]
    BY <1>1 DEF Sample
  <2>2. ASSUME NEW m \in Metrics
        PROVE  sums'[m] \in [q1 : Int, q2 : Int] /\ Compared(sums'[m], series'[m])
    <3> DEFINE v == series[m]
               x == Measured[m]
               s == sums[m]
    <3>1. v \in Seq(Int) /\ x \in Int /\ s \in [q1 : Int, q2 : Int] /\ Compared(s, v)
      BY MeasuredInt DEF Ledger, CentralTypes, AllCompared
    <3>2. series'[m] = Append(v, x) /\ sums'[m] = Summed(s, Append(v, x))
      BY <2>1
    <3> HIDE DEF v, x, s
    <3> QED
      BY <3>1, <3>2, ComparedNext
  <2>3. sums' \in [Metrics -> [q1 : Int, q2 : Int]]
    BY <2>1, <2>2
  <2> QED
    BY <2>2, <2>3 DEF AllCompared
<1>2. CASE UNCHANGED <<series, sums>>
  BY <1>2 DEF AllCompared
<1>3. Sample \/ UNCHANGED <<series, sums>>
  BY DEF CentralNext, CountCtrl, CountDataTx, CountDataRx, ReportNode, ReportSink, MoteTimer,
         LosePacket, LoseFrame, NodeMetrics, SinkMetrics, CtrlFrame, centralVars, pcVars
<1> QED
  BY <1>1, <1>2, <1>3

\* Every packet that a node, a sink or the mote has counted is, once, in a
\* counter (manag_get_info resets what it returns), in a report underway or
\* lost, or in what the controller has added up (sdn_process_node_metrics,
\* sdn_process_sink_metrics, sdn_cal_control_overhead), and the sums the test
\* compares are those of the samples (security_sum_q1, security_sum_q2).
THEOREM AllCount == CentralSpec => []CountsAddUp
<1>1. CentralInit => Ledger /\ AllCompared
  BY LedgerInit, ComparedInit
<1>2. Ledger /\ AllCompared /\ [CentralNext]_centralVars => (Ledger /\ AllCompared)'
  BY LedgerNext, AllComparedNext
<1>3. Ledger => EveryPacketCountsOnce
  <2> SUFFICES ASSUME Ledger PROVE EveryPacketCountsOnce
    OBVIOUS
  <2>1. DOMAIN ctrlTx = CtrlNodes /\ DOMAIN dataTx = EnabledNodes /\ DOMAIN dataRx = Sinks
    BY DEF Ledger, CentralTypes
  <2>2. /\ Sum(ctrlTx, DOMAIN ctrlTx) = AtNodes /\ Sum(dataTx, DOMAIN dataTx) = AtSenders
        /\ Sum(dataRx, DOMAIN dataRx) = AtSinks
    BY <2>1, SeriesTotal DEF AtNodes, AtSenders, AtSinks
  <2>3. OnLine = OnSerial /\ \A f : InPackets(f) = InMngt(f)
    BY LineTotal, PacketsTotal DEF OnSerial, InMngt
  <2>4. Sampled("CTRL_PCKTS_OVHD") = InSamples
    BY SeriesTotal DEF Sampled, InSamples, SeqSum
  <2> QED
    BY <2>2, <2>3, <2>4 DEF Ledger, Balanced, EveryPacketCountsOnce
<1>4. AllCompared => SumsOfSeries
  BY SeriesTotal DEF AllCompared, Compared, SumsOfSeries
<1> QED
  BY <1>1, <1>2, <1>3, <1>4, PTL DEF CentralSpec, CountsAddUp
=============================================================================
