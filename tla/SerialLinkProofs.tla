-------------------------- MODULE SerialLinkProofs --------------------------
(***************************************************************************)
(* Proofs about the serial line at both its levels.                        *)
(*                                                                         *)
(* SerialLink, for queues and pools of every size and any number of losses *)
(* and failures: the PC and the mote stop and wait, and an answer is about *)
(* the packet it takes off the queue.                                      *)
(*                                                                         *)
(* SerialFraming, for contents, texts and buffers of every length and any  *)
(* number of frames: an octet that is lost costs at most its own frame and *)
(* the next, and the mote's processes read every frame as it was sent.     *)
(* Every octet on the line has its frame and its place in that frame       *)
(* (Stream), and the receiver has of a frame without damage what was sent  *)
(* of it up to that place (Clean, Taken).                                  *)
(***************************************************************************)
EXTENDS SerialLink, SerialFraming, NumberLemmas

Packet == [kind : Kinds, id : Nat \ {0}]
Frame  == [kind : {"RADIO", "CUSTOM"}, id : Nat \ {0}]
Reply  == [ok : BOOLEAN, for : Nat]

\* Positions of the PC's packets in the mote's queue.
FromPc(q) == {i \in DOMAIN q : q[i] # Beacon}

----------------------------------------------------------------------------
(* Lemmas                                                                  *)

LEMMA FromPcFinite ==
  ASSUME NEW q \in Seq(Nat)
  PROVE  IsFiniteSet(FromPc(q)) /\ Cardinality(FromPc(q)) \in Nat
<1>1. DOMAIN q = 1 .. Len(q) /\ Len(q) \in Nat
  OBVIOUS
<1>2. IsFiniteSet(1 .. Len(q))
  BY <1>1, FS_Interval
<1>3. FromPc(q) \in SUBSET (1 .. Len(q))
  BY <1>1 DEF FromPc
<1> QED
  BY <1>2, <1>3, FS_Subset, FS_CardinalityType

LEMMA FromPcAppended ==
  ASSUME NEW q \in Seq(Nat), NEW id \in Nat
  PROVE  Cardinality(FromPc(Append(q, id)))
           = Cardinality(FromPc(q)) + (IF id # Beacon THEN 1 ELSE 0)
<1> DEFINE n == Len(q) + 1
<1>1. /\ Len(q) \in Nat /\ DOMAIN q = 1 .. Len(q)
      /\ DOMAIN Append(q, id) = 1 .. n /\ Append(q, id)[n] = id
      /\ \A i \in 1 .. Len(q) : Append(q, id)[i] = q[i]
  OBVIOUS
<1>2. 1 .. n = (1 .. Len(q)) \cup {n} /\ n \notin 1 .. Len(q)
  BY <1>1
<1>3. n \notin FromPc(q)
  BY <1>1, <1>2 DEF FromPc
<1>4. FromPc(Append(q, id)) = IF id # Beacon THEN FromPc(q) \cup {n} ELSE FromPc(q)
  <2> HIDE DEF n
  <2> QED
    BY <1>1, <1>2 DEF FromPc
<1>5. IsFiniteSet(FromPc(q)) /\ Cardinality(FromPc(q)) \in Nat
  BY FromPcFinite
<1> HIDE DEF n
<1>6. Cardinality(FromPc(q) \cup {n}) = Cardinality(FromPc(q)) + 1
  BY <1>3, <1>5, FS_AddElement
<1> QED
  BY <1>4, <1>5, <1>6

LEMMA FromPcTail ==
  ASSUME NEW q \in Seq(Nat), q # <<>>
  PROVE  Cardinality(FromPc(q))
           = Cardinality(FromPc(Tail(q))) + (IF Head(q) # Beacon THEN 1 ELSE 0)
<1> DEFINE T == FromPc(Tail(q))
           S == FromPc(q) \ {1}
           f == [i \in T |-> i + 1]
<1>1. /\ Len(q) \in Nat \ {0} /\ DOMAIN q = 1 .. Len(q) /\ Head(q) = q[1]
      /\ Tail(q) \in Seq(Nat) /\ DOMAIN Tail(q) = 1 .. Len(q) - 1
      /\ \A i \in 1 .. Len(q) - 1 : Tail(q)[i] = q[i + 1]
  OBVIOUS
<1>2. f \in Bijection(T, S)
  <2>1. f \in [T -> S]
    BY <1>1 DEF FromPc
  <2>2. \A i, j \in T : f[i] = f[j] => i = j
    BY <1>1 DEF FromPc
  <2>3. ASSUME NEW j \in S PROVE \E i \in T : f[i] = j
    <3>1. j \in 1 .. Len(q) /\ j # 1 /\ q[j] # Beacon
      BY <1>1 DEF FromPc
    <3>2. j - 1 \in 1 .. Len(q) - 1 /\ Tail(q)[j - 1] = q[j]
      BY <1>1, <3>1
    <3>3. j - 1 \in T
      BY <1>1, <3>1, <3>2 DEF FromPc
    <3> QED
      BY <3>1, <3>3
  <2> QED
    BY <2>1, <2>2, <2>3 DEF Bijection, Injection, Surjection, IsInjective
<1>3. IsFiniteSet(FromPc(q)) /\ Cardinality(FromPc(q)) \in Nat
      /\ IsFiniteSet(T) /\ Cardinality(T) \in Nat
  BY <1>1, FromPcFinite
<1>4. Cardinality(S) = Cardinality(T)
  BY <1>2, <1>3, FS_Bijection DEF ExistsBijection
<1>5. 1 \in FromPc(q) <=> Head(q) # Beacon
  BY <1>1 DEF FromPc
<1>6. Cardinality(S) = IF Head(q) # Beacon THEN Cardinality(FromPc(q)) - 1 ELSE Cardinality(FromPc(q))
  BY <1>3, <1>5, FS_RemoveElement
<1> HIDE DEF S, T
<1> QED
  BY <1>3, <1>4, <1>6 DEF T

\* The ids in a sequence are finitely many.
LEMMA ValuesFinite ==
  ASSUME NEW T, NEW q \in Seq(T), NEW v, DOMAIN v = DOMAIN q
  PROVE  IsFiniteSet({v[i] : i \in DOMAIN q})
<1>1. IsFiniteSet(DOMAIN q)
  BY FS_Interval
<1> DEFINE V == {v[i] : i \in DOMAIN q}
           g == [i \in DOMAIN q |-> v[i]]
<1>2. g \in Surjection(DOMAIN q, V)
  BY DEF Surjection
<1> QED
  BY <1>1, <1>2, FS_Surjection

\* There is an id that nothing carries.
LEMMA FreshIdExists ==
  ASSUME NEW used, IsFiniteSet(used)
  PROVE  \E n \in 1 .. Cardinality(used) + 1 : n \notin used /\ \A m \in 1 .. n - 1 : m \in used
<1> DEFINE c == Cardinality(used)
           Unused == {n \in Nat \ {0} : n \notin used}
<1>1. c \in Nat
  BY FS_CardinalityType
<1>2. \E n \in 1 .. c + 1 : n \notin used
  <2> SUFFICES ASSUME 1 .. c + 1 \subseteq used PROVE FALSE
    OBVIOUS
  <2>1. Cardinality(1 .. c + 1) = c + 1
    BY <1>1, FS_Interval
  <2>2. Cardinality(1 .. c + 1) <= c
    BY FS_Subset
  <2> QED
    BY <1>1, <2>1, <2>2
<1>3. Unused \subseteq Nat /\ Unused # {}
  BY <1>1, <1>2
<1>4. PICK n \in Unused : \A j \in Unused : n <= j
  BY <1>3, HasLeast
<1>5. n \in 1 .. c + 1
  <2>1. PICK j \in 1 .. c + 1 : j \notin used
    BY <1>2
  <2>2. n <= j
    BY <1>1, <1>4, <2>1
  <2> QED
    BY <1>1, <2>1, <2>2
<1>6. \A m \in 1 .. n - 1 : m \in used
  <2> SUFFICES ASSUME NEW m \in 1 .. n - 1, m \notin used PROVE FALSE
    OBVIOUS
  <2>1. m \in Unused /\ m < n
    BY <1>5, <1>1
  <2> QED
    BY <1>4, <2>1
<1> QED
  BY <1>5, <1>6

LEMMA FreshIdType ==
  ASSUME pcQ \in Seq(Packet), down \in Seq(Frame), moteQ \in Seq(Nat), up \in Seq(Reply)
  PROVE  FreshId \in Nat \ {0}
<1> DEFINE used == {pcQ[i].id : i \in DOMAIN pcQ} \cup {down[i].id : i \in DOMAIN down}
                   \cup {moteQ[i] : i \in DOMAIN moteQ} \cup {up[i].for : i \in DOMAIN up}
           a == [i \in DOMAIN pcQ |-> pcQ[i].id]
           b == [i \in DOMAIN down |-> down[i].id]
           d == [i \in DOMAIN up |-> up[i].for]
<1>1. IsFiniteSet({a[i] : i \in DOMAIN pcQ})
  BY ValuesFinite
<1>2. IsFiniteSet({b[i] : i \in DOMAIN down})
  BY ValuesFinite
<1>3. IsFiniteSet({d[i] : i \in DOMAIN up})
  BY ValuesFinite
<1>4. IsFiniteSet({moteQ[i] : i \in DOMAIN moteQ})
  BY ValuesFinite
<1>5. /\ {a[i] : i \in DOMAIN pcQ} = {pcQ[i].id : i \in DOMAIN pcQ}
      /\ {b[i] : i \in DOMAIN down} = {down[i].id : i \in DOMAIN down}
      /\ {d[i] : i \in DOMAIN up} = {up[i].for : i \in DOMAIN up}
  OBVIOUS
<1> HIDE DEF a, b, d
<1>6. IsFiniteSet(used)
  BY <1>1, <1>2, <1>3, <1>4, <1>5, FS_Union
<1>7. FreshId \in 1 .. Cardinality(used) + 1
  <2>1. FreshId = CHOOSE n \in 1 .. Cardinality(used) + 1 :
                    n \notin used /\ \A m \in 1 .. n - 1 : m \in used
    BY DEF FreshId
  <2> HIDE DEF used
  <2> QED
    BY <1>6, <2>1, FreshIdExists
<1> QED
  BY <1>7

LEMMA NotLocal ==
  ASSUME NEW p \in Packet, p.kind # "LOCAL"
  PROVE  p \in Frame
  BY DEF Packet, Frame, Kinds

\* What sdn_send_down leaves in the queue begins with a packet to send.
LEMMA ToSendType ==
  ASSUME NEW q \in Seq(Packet)
  PROVE  /\ ToSend(q) \in Seq(Packet)
         /\ ToSend(q) # <<>> => Head(ToSend(q)) \in Frame
<1> DEFINE sendable == {i \in DOMAIN q : q[i].kind # "LOCAL"}
           first == CHOOSE i \in sendable : \A j \in sendable : i <= j
<1>1. CASE sendable = {}
  BY <1>1 DEF ToSend
<1>2. CASE sendable # {}
  <2>1. sendable \subseteq Nat
    OBVIOUS
  <2>2. first \in sendable
    BY <1>2, <2>1, HasLeast
  <2>3. ToSend(q) = SubSeq(q, first, Len(q))
    BY <1>2 DEF ToSend
  <2> HIDE DEF first
  <2>4. first \in 1 .. Len(q) /\ q[first].kind # "LOCAL"
    BY <2>2
  <2>5. /\ SubSeq(q, first, Len(q)) \in Seq(Packet)
        /\ Len(SubSeq(q, first, Len(q))) = Len(q) - first + 1
        /\ SubSeq(q, first, Len(q))[1] = q[first]
    BY <2>4
  <2>6. q[first] \in Packet
    BY <2>4
  <2>7. q[first] \in Frame
    BY <2>4, <2>6, NotLocal
  <2> QED
    BY <2>3, <2>5, <2>7
<1> QED
  BY <1>1, <1>2

----------------------------------------------------------------------------
(* The inductive invariant                                                 *)

Shape ==
  /\ pcQ \in Seq(Packet) /\ waiting \in BOOLEAN
  /\ down \in Seq(Frame) /\ up \in Seq(Reply)
  /\ moteQ \in Seq(Nat) /\ status \in {"IDLE", "BUSY", "ACK_WAIT"}
  /\ status # "IDLE" => moteQ # <<>>
  /\ failed \in Nat /\ lost \in Nat

\* Frames and answers are not fewer than the PC waits for, and not more
\* while every beacon of the mote gets out.
Counts ==
  /\ Underway + lost >= IF waiting THEN 1 ELSE 0
  /\ OneUnderway

\* While every beacon gets out, all that is underway is the head of the queue.
Matches ==
  failed = 0 /\ pcQ # <<>> =>
    /\ \A i \in DOMAIN down : down[i].id = Head(pcQ).id
    /\ \A i \in FromPc(moteQ) : moteQ[i] = Head(pcQ).id
    /\ \A i \in DOMAIN up : up[i].for = Head(pcQ).id

IInv == Shape /\ HeadIsSent /\ Counts /\ Matches

\* Before and after a step, the frames and answers underway are counted.
LEMMA UnderwayIs ==
  /\ Underway = Len(down) + Cardinality(FromPc(moteQ)) + Len(up)
  /\ Underway' = Len(down') + Cardinality(FromPc(moteQ')) + Len(up')
<1>1. Underway = Len(down) + Cardinality(FromPc(moteQ)) + Len(up)
  BY DEF Underway, FromPc
<1>2. Underway' = Len(down') + Cardinality(FromPc(moteQ')) + Len(up')
  BY DEF Underway, FromPc
<1> QED
  BY <1>1, <1>2

LEMMA CountTypes ==
  ASSUME NEW d \in Seq(Frame), NEW m \in Seq(Nat), NEW u \in Seq(Reply)
  PROVE  Len(d) \in Nat /\ Cardinality(FromPc(m)) \in Nat /\ Len(u) \in Nat
  BY FromPcFinite

\* The PC takes a packet off its queue or has a first one, and sends what is
\* next: nothing may be underway then, but for the mote's failures.
LEMMA SendDownKeeps ==
  ASSUME Shape, NEW q \in Seq(Packet), SendDown(q), up' \in Seq(Reply),
         moteQ' = moteQ, status' = status, failed' = failed, lost' = lost,
         failed = 0 => Len(down) + Cardinality(FromPc(moteQ)) + Len(up') + lost = 0
  PROVE  IInv'
<1> DEFINE c == Cardinality(FromPc(moteQ))
           r == ToSend(q)
<1>1. /\ Len(down) \in Nat /\ Len(up') \in Nat /\ c \in Nat /\ lost \in Nat
      /\ Underway' = Len(down') + c + Len(up')
      /\ failed = 0 => Len(down) + c + Len(up') + lost = 0
  <2>1. Underway' = Len(down') + Cardinality(FromPc(moteQ')) + Len(up')
    BY UnderwayIs
  <2> QED
    BY <2>1, CountTypes DEF Shape
<1>2. r \in Seq(Packet) /\ (r # <<>> => Head(r) \in Frame)
  BY ToSendType
<1>3. /\ pcQ' = r /\ waiting' = (r # <<>>)
      /\ down' = IF r # <<>> THEN Append(down, Head(r)) ELSE down
  BY DEF SendDown
<1> HIDE DEF r, c
<1>4. /\ down' \in Seq(Frame)
      /\ Len(down') = IF r # <<>> THEN Len(down) + 1 ELSE Len(down)
  BY <1>2, <1>3 DEF Shape
<1>5. Shape'
  BY <1>2, <1>3, <1>4 DEF Shape
<1>6. HeadIsSent'
  BY <1>2, <1>3 DEF HeadIsSent, Frame
<1>7. Counts'
  <2> DEFINE u == Underway'
  <2>1. /\ u + lost >= IF r # <<>> THEN 1 ELSE 0
        /\ failed = 0 => u + lost = IF r # <<>> THEN 1 ELSE 0
    BY <1>1, <1>4
  <2> HIDE DEF u
  <2>2. /\ u + lost' >= IF waiting' THEN 1 ELSE 0
        /\ failed' = 0 => u + lost' = IF waiting' THEN 1 ELSE 0
    BY <1>3, <2>1
  <2> QED
    BY <2>2 DEF Counts, OneUnderway, u
<1>8. Matches'
  <2> SUFFICES ASSUME failed = 0, r # <<>>
               PROVE  /\ \A i \in DOMAIN down' : down'[i].id = Head(r).id
                      /\ \A i \in FromPc(moteQ) : moteQ[i] = Head(r).id
                      /\ \A i \in DOMAIN up' : up'[i].for = Head(r).id
    BY <1>3 DEF Matches, FromPc
  <2>1. Len(down) = 0 /\ c = 0 /\ Len(up') = 0
    BY <1>1
  <2>2. down = <<>> /\ up' = <<>>
    BY <2>1 DEF Shape
  <2>3. FromPc(moteQ) = {}
    BY <2>1, FromPcFinite, FS_EmptySet DEF Shape, c
  <2>4. down' = <<Head(r)>>
    BY <1>3, <2>2
  <2> QED
    BY <2>2, <2>3, <2>4
<1> QED
  BY <1>5, <1>6, <1>7, <1>8 DEF IInv

\* Whatever moves between the two ends, or joins the end of the PC's queue,
\* keeps the balance.
LEMMA MovesKeep ==
  ASSUME IInv, Shape', waiting' = waiting, pcQ = <<>> <=> pcQ' = <<>>,
         pcQ # <<>> => Head(pcQ') = Head(pcQ),
         \/ failed' = failed /\ Underway' + lost' = Underway + lost
         \/ failed' # 0 /\ Underway' + lost' >= Underway + lost,
         failed' = 0 /\ pcQ # <<>> => Matches'
  PROVE  IInv'
<1>1. HeadIsSent'
  BY DEF IInv, HeadIsSent
<1>2. Underway \in Nat /\ lost \in Nat
  <2>1. /\ down \in Seq(Frame) /\ moteQ \in Seq(Nat) /\ up \in Seq(Reply)
        /\ lost \in Nat
    BY DEF IInv, Shape
  <2>2. Len(down) \in Nat /\ Cardinality(FromPc(moteQ)) \in Nat /\ Len(up) \in Nat
    BY <2>1, CountTypes
  <2> QED
    BY <2>1, <2>2, UnderwayIs
<1>3. Underway' \in Nat /\ lost' \in Nat
  <2>1. /\ down' \in Seq(Frame) /\ moteQ' \in Seq(Nat) /\ up' \in Seq(Reply)
        /\ lost' \in Nat
    BY DEF Shape
  <2>2. Len(down') \in Nat /\ Cardinality(FromPc(moteQ')) \in Nat /\ Len(up') \in Nat
    BY <2>1, CountTypes
  <2> QED
    BY <2>1, <2>2, UnderwayIs
<1>4. Counts'
  <2> DEFINE u == Underway
             v == Underway'
             l == lost'
             w == IF waiting THEN 1 ELSE 0
  <2>1. u + lost >= w /\ (failed = 0 => u + lost = w)
    BY DEF IInv, Counts, OneUnderway
  <2>2. u \in Nat /\ v \in Nat /\ lost \in Nat /\ l \in Nat /\ w \in Nat
    BY <1>2, <1>3
  <2>3. \/ failed' = failed /\ v + l = u + lost
        \/ failed' # 0 /\ v + l >= u + lost
    OBVIOUS
  <2>4. w = IF waiting' THEN 1 ELSE 0
    OBVIOUS
  <2> HIDE DEF u, v, w, l
  <2>5. v + l >= w
    BY <2>1, <2>2, <2>3
  <2>6. failed' = 0 => v + l = w
    BY <2>1, <2>3
  <2>7. /\ v + l >= IF waiting' THEN 1 ELSE 0
        /\ failed' = 0 => v + l = IF waiting' THEN 1 ELSE 0
    BY <2>4, <2>5, <2>6
  <2> QED
    BY <2>7 DEF Counts, OneUnderway, v, l
<1>5. Matches'
  BY DEF Matches
<1> QED
  BY <1>1, <1>4, <1>5 DEF IInv

\* Elements of what is left of a sequence, and of a sequence with one more.
LEMMA TailElements ==
  ASSUME NEW S, NEW q \in Seq(S), q # <<>>
  PROVE  /\ Head(q) \in S /\ Tail(q) \in Seq(S) /\ Len(Tail(q)) = Len(q) - 1
         /\ 1 \in DOMAIN q /\ Head(q) = q[1]
         /\ \A i \in DOMAIN Tail(q) : i + 1 \in DOMAIN q /\ Tail(q)[i] = q[i + 1]
  OBVIOUS

LEMMA AppendElements ==
  ASSUME NEW S, NEW q \in Seq(S), NEW x \in S
  PROVE  /\ Append(q, x) \in Seq(S) /\ Len(Append(q, x)) = Len(q) + 1
         /\ Append(q, x) # <<>>
         /\ \A i \in DOMAIN Append(q, x) :
              Append(q, x)[i] = x \/ (i \in DOMAIN q /\ Append(q, x)[i] = q[i])
  OBVIOUS

----------------------------------------------------------------------------
(* The actions keep the invariant                                          *)

LEMMA InitIInv == Init => IInv
<1> SUFFICES ASSUME Init PROVE IInv
  OBVIOUS
<1>1. /\ pcQ = <<>> /\ waiting = FALSE /\ down = <<>> /\ up = <<>>
      /\ moteQ = <<>> /\ status = "IDLE" /\ failed = 0 /\ lost = 0
  BY DEF Init
<1>2. Shape
  <2>1. <<>> \in Seq(Packet) /\ <<>> \in Seq(Frame) /\ <<>> \in Seq(Reply) /\ <<>> \in Seq(Nat)
    OBVIOUS
  <2> QED
    BY <1>1, <2>1 DEF Shape
<1>3. HeadIsSent /\ Matches
  BY <1>1 DEF HeadIsSent, Matches
<1>4. FromPc(moteQ) = {}
  BY <1>1 DEF FromPc
<1>5. Underway = 0
  BY <1>1, <1>4, UnderwayIs, FS_EmptySet
<1>6. Counts
  BY <1>1, <1>5 DEF Counts, OneUnderway
<1> QED
  BY <1>2, <1>3, <1>6 DEF IInv

LEMMA PcQueueKeeps ==
  ASSUME IInv, NEW kind \in Kinds, PcQueue(kind)
  PROVE  IInv'
<1> DEFINE q == IF Len(pcQ) < PcMax
                THEN Append(pcQ, [kind |-> kind, id |-> FreshId]) ELSE pcQ
<1>1. Shape /\ HeadIsSent
  BY DEF IInv
<1>2. [kind |-> kind, id |-> FreshId] \in Packet
  <2>1. FreshId \in Nat \ {0}
    BY <1>1, FreshIdType DEF Shape
  <2> QED
    BY <2>1 DEF Packet
<1>3. /\ q \in Seq(Packet)
      /\ pcQ # <<>> => q # <<>> /\ Head(q) = Head(pcQ)
  <2> DEFINE x == [kind |-> kind, id |-> FreshId]
  <2> HIDE DEF x
  <2>1. pcQ \in Seq(Packet) /\ x \in Packet
    BY <1>1, <1>2 DEF Shape, x
  <2>2. q = IF Len(pcQ) < PcMax THEN Append(pcQ, x) ELSE pcQ
    BY DEF x
  <2> HIDE DEF q
  <2> QED
    BY <2>1, <2>2
<1>4. /\ moteQ' = moteQ /\ status' = status /\ up' = up
      /\ failed' = failed /\ lost' = lost
  BY DEF PcQueue, mote
<1>5. IF CanSend THEN SendDown(q) ELSE pcQ' = q /\ UNCHANGED <<waiting, down>>
  BY DEF PcQueue
<1> HIDE DEF q
<1>6. CASE waiting
  <2>1. pcQ' = q /\ waiting' = waiting /\ down' = down
    BY <1>5, <1>6 DEF CanSend
  <2>2. pcQ # <<>>
    BY <1>1, <1>6 DEF HeadIsSent
  <2>3. Shape'
    BY <1>1, <1>3, <1>4, <2>1 DEF Shape
  <2>4. Underway' = Underway
    BY <1>4, <2>1, UnderwayIs
  <2>5. failed' = 0 => Matches'
    <3> SUFFICES ASSUME failed' = 0 PROVE Matches'
      OBVIOUS
    <3>1. /\ \A i \in DOMAIN down : down[i].id = Head(pcQ).id
          /\ \A i \in FromPc(moteQ) : moteQ[i] = Head(pcQ).id
          /\ \A i \in DOMAIN up : up[i].for = Head(pcQ).id
      BY <1>4, <2>2 DEF IInv, Matches
    <3> QED
      BY <1>3, <1>4, <2>1, <2>2, <3>1 DEF Matches, FromPc
  <2> QED
    BY <1>3, <1>4, <2>1, <2>2, <2>3, <2>4, <2>5, MovesKeep
<1>7. CASE ~ waiting
  <2>1. SendDown(q)
    BY <1>5, <1>7 DEF CanSend
  <2>2. failed = 0 => Underway + lost = 0
    BY <1>7 DEF IInv, Counts, OneUnderway
  <2>3. failed = 0 => Len(down) + Cardinality(FromPc(moteQ)) + Len(up') + lost = 0
    BY <1>4, <2>2, UnderwayIs
  <2>4. up' \in Seq(Reply)
    BY <1>1, <1>4 DEF Shape
  <2> QED
    BY <1>1, <1>3, <1>4, <2>1, <2>3, <2>4, SendDownKeeps
<1> QED
  BY <1>1, <1>6, <1>7 DEF Shape

LEMMA PcAnswerKeeps ==
  ASSUME IInv, PcAnswer
  PROVE  IInv'
<1> DEFINE q == IF pcQ = <<>> THEN <<>> ELSE Tail(pcQ)
<1>1. Shape
  BY DEF IInv
<1>2. /\ up # <<>> /\ up' = Tail(up) /\ SendDown(q)
      /\ moteQ' = moteQ /\ status' = status /\ failed' = failed /\ lost' = lost
  BY DEF PcAnswer, mote
<1>3. q \in Seq(Packet)
  BY <1>1 DEF Shape
<1>4. up' \in Seq(Reply) /\ Len(up') = Len(up) - 1 /\ Len(up) \in Nat \ {0}
  BY <1>1, <1>2 DEF Shape
<1> HIDE DEF q
<1>5. failed = 0 => Len(down) + Cardinality(FromPc(moteQ)) + Len(up') + lost = 0
  <2> SUFFICES ASSUME failed = 0
               PROVE  Len(down) + Cardinality(FromPc(moteQ)) + Len(up') + lost = 0
    OBVIOUS
  <2>1. Underway + lost \in {0, 1}
    BY DEF IInv, Counts, OneUnderway
  <2>2. /\ Len(down) \in Nat /\ Cardinality(FromPc(moteQ)) \in Nat
        /\ lost \in Nat
    BY <1>1, CountTypes DEF Shape
  <2> QED
    BY <1>4, <2>1, <2>2, UnderwayIs
<1> QED
  BY <1>1, <1>2, <1>3, <1>4, <1>5, SendDownKeeps

LEMMA SerialInKeeps ==
  ASSUME IInv, SerialIn
  PROVE  IInv'
<1> DEFINE frame == Head(down)
<1>1. Shape
  BY DEF IInv
<1>2. /\ down # <<>> /\ down' = Tail(down)
      /\ pcQ' = pcQ /\ waiting' = waiting /\ failed' = failed /\ lost' = lost
  BY DEF SerialIn, pc
<1>3. /\ frame \in Frame /\ down' \in Seq(Frame) /\ Len(down') = Len(down) - 1
      /\ \A i \in DOMAIN down' : i + 1 \in DOMAIN down /\ down'[i] = down[i + 1]
      /\ 1 \in DOMAIN down /\ frame = down[1] /\ Len(down) \in Nat
  BY <1>1, <1>2, TailElements DEF Shape
<1>4. frame.id \in Nat \ {0} /\ Beacon = 0
  BY <1>3 DEF Frame, Beacon
<1>5. \/ /\ moteQ' = moteQ /\ status' = status
         /\ \E ok \in BOOLEAN : up' = Append(up, [ok |-> ok, for |-> frame.id])
      \/ /\ moteQ' = Append(moteQ, frame.id) /\ up' = up
         /\ status' = IF status = "IDLE" THEN "BUSY" ELSE status
  <2>1. \/ Answer(TRUE, frame.id) /\ UNCHANGED mote
        \/ EnqueueDown(frame.id) /\ UNCHANGED <<heard, up>>
        \/ Refuse(frame.id) /\ UNCHANGED mote
    BY <1>3 DEF SerialIn, Frame
  <2> QED
    BY <2>1 DEF Answer, Refuse, EnqueueDown, mote
<1> HIDE DEF frame
<1>6. ASSUME moteQ' = moteQ, status' = status, NEW ok \in BOOLEAN,
             up' = Append(up, [ok |-> ok, for |-> frame.id])
      PROVE  IInv'
  <2>1. [ok |-> ok, for |-> frame.id] \in Reply
    BY <1>4 DEF Reply
  <2>2. /\ up' \in Seq(Reply) /\ Len(up') = Len(up) + 1
        /\ \A i \in DOMAIN up' : \/ up'[i] = [ok |-> ok, for |-> frame.id]
                                 \/ i \in DOMAIN up /\ up'[i] = up[i]
    BY <1>1, <1>6, <2>1, AppendElements DEF Shape
  <2>3. Shape'
    BY <1>1, <1>2, <1>3, <1>6, <2>2 DEF Shape
  <2>4. Underway' = Underway
    <3>1. Len(down) \in Nat /\ Len(up) \in Nat /\ Cardinality(FromPc(moteQ)) \in Nat
      BY <1>1, CountTypes DEF Shape
    <3> QED
      BY <1>3, <1>6, <2>2, <3>1, UnderwayIs
  <2>5. failed' = 0 /\ pcQ # <<>> => Matches'
    <3> SUFFICES ASSUME failed = 0, pcQ # <<>>
                 PROVE  /\ \A i \in DOMAIN down' : down'[i].id = Head(pcQ).id
                        /\ \A i \in FromPc(moteQ) : moteQ[i] = Head(pcQ).id
                        /\ \A i \in DOMAIN up' : up'[i].for = Head(pcQ).id
      BY <1>2, <1>6 DEF Matches, FromPc
    <3>1. /\ \A i \in DOMAIN down : down[i].id = Head(pcQ).id
          /\ \A i \in FromPc(moteQ) : moteQ[i] = Head(pcQ).id
          /\ \A i \in DOMAIN up : up[i].for = Head(pcQ).id
      BY DEF IInv, Matches
    <3>2. frame.id = Head(pcQ).id
      BY <1>3, <3>1
    <3>3. \A i \in DOMAIN up' : up'[i].for = Head(pcQ).id
      <4> SUFFICES ASSUME NEW i \in DOMAIN up' PROVE up'[i].for = Head(pcQ).id
        OBVIOUS
      <4>1. CASE up'[i] = [ok |-> ok, for |-> frame.id]
        BY <3>2, <4>1
      <4>2. CASE i \in DOMAIN up /\ up'[i] = up[i]
        BY <3>1, <4>2
      <4> QED
        BY <2>2, <4>1, <4>2
    <3> QED
      BY <1>3, <3>1, <3>3
  <2> QED
    BY <1>2, <2>3, <2>4, <2>5, MovesKeep
<1>7. ASSUME moteQ' = Append(moteQ, frame.id), up' = up,
             status' = IF status = "IDLE" THEN "BUSY" ELSE status
      PROVE  IInv'
  <2>1. /\ moteQ' \in Seq(Nat) /\ moteQ' # <<>>
        /\ \A i \in DOMAIN moteQ' :
             moteQ'[i] = frame.id \/ (i \in DOMAIN moteQ /\ moteQ'[i] = moteQ[i])
    BY <1>1, <1>4, <1>7, AppendElements DEF Shape
  <2>2. Shape'
    BY <1>1, <1>2, <1>3, <1>7, <2>1 DEF Shape
  <2>3. Underway' = Underway
    <3>1. Len(down) \in Nat /\ Len(up) \in Nat /\ Cardinality(FromPc(moteQ)) \in Nat
      BY <1>1, CountTypes DEF Shape
    <3>2. Cardinality(FromPc(moteQ')) = Cardinality(FromPc(moteQ)) + 1
      BY <1>1, <1>4, <1>7, FromPcAppended DEF Shape
    <3> QED
      BY <1>3, <1>7, <3>1, <3>2, UnderwayIs
  <2>4. failed' = 0 /\ pcQ # <<>> => Matches'
    BY <1>2, <1>3, <1>7, <2>1 DEF IInv, Matches, FromPc
  <2> QED
    BY <1>2, <2>2, <2>3, <2>4, MovesKeep
<1> QED
  BY <1>5, <1>6, <1>7

LEMMA OwnBeaconKeeps ==
  ASSUME IInv, OwnBeacon
  PROVE  IInv'
<1>1. Shape
  BY DEF IInv
<1>2. /\ pcQ' = pcQ /\ waiting' = waiting /\ down' = down /\ up' = up
      /\ failed' = failed /\ lost' = lost
  BY DEF OwnBeacon, pc
<1>3. \/ moteQ' = moteQ /\ status' = status
      \/ /\ moteQ' = Append(moteQ, Beacon)
         /\ status' = IF status = "IDLE" THEN "BUSY" ELSE status
  BY DEF OwnBeacon, EnqueueDown, mote
<1>4. Shape' /\ FromPc(moteQ') \subseteq FromPc(moteQ)
      /\ Cardinality(FromPc(moteQ')) = Cardinality(FromPc(moteQ))
      /\ \A i \in FromPc(moteQ') : moteQ'[i] = moteQ[i]
  <2>1. CASE moteQ' = moteQ /\ status' = status
    BY <1>1, <1>2, <2>1 DEF Shape
  <2>2. CASE /\ moteQ' = Append(moteQ, Beacon)
             /\ status' = IF status = "IDLE" THEN "BUSY" ELSE status
    <3>1. Beacon \in Nat
      BY DEF Beacon
    <3>2. /\ moteQ' \in Seq(Nat) /\ moteQ' # <<>>
          /\ \A i \in DOMAIN moteQ' :
               moteQ'[i] = Beacon \/ (i \in DOMAIN moteQ /\ moteQ'[i] = moteQ[i])
      <4>1. moteQ \in Seq(Nat) /\ moteQ' = Append(moteQ, Beacon)
        BY <1>1, <2>2 DEF Shape
      <4> QED
        BY <3>1, <4>1, AppendElements
    <3>3. Shape'
      BY <1>1, <1>2, <2>2, <3>2 DEF Shape
    <3>4. Cardinality(FromPc(moteQ')) = Cardinality(FromPc(moteQ)) + 0
      BY <1>1, <2>2, <3>1, FromPcAppended DEF Shape
    <3>5. Cardinality(FromPc(moteQ)) \in Nat
      BY <1>1, CountTypes DEF Shape
    <3> QED
      BY <3>2, <3>3, <3>4, <3>5 DEF FromPc
  <2> QED
    BY <1>3, <2>1, <2>2
<1>5. Underway' = Underway
  BY <1>2, <1>4, UnderwayIs
<1>6. failed' = 0 /\ pcQ # <<>> => Matches'
  BY <1>2, <1>4 DEF IInv, Matches
<1> QED
  BY <1>2, <1>4, <1>5, <1>6, MovesKeep

LEMMA LocalKeeps ==
  ASSUME IInv, BeaconHeard \/ BeaconTreated \/ MoteSend
  PROVE  IInv'
<1>1. /\ pcQ' = pcQ /\ waiting' = waiting /\ down' = down /\ up' = up
      /\ moteQ' = moteQ /\ failed' = failed /\ lost' = lost
      /\ status' = status \/ (status = "BUSY" /\ status' = "ACK_WAIT")
  <2>1. CASE BeaconHeard
    BY <2>1 DEF BeaconHeard, pc
  <2>2. CASE BeaconTreated
    BY <2>2 DEF BeaconTreated, pc
  <2>3. CASE MoteSend
    BY <2>3 DEF MoteSend, pc
  <2> QED
    BY <2>1, <2>2, <2>3
<1>2. Shape'
  BY <1>1 DEF IInv, Shape
<1>3. Underway' = Underway
  BY <1>1, UnderwayIs
<1>4. failed' = 0 /\ pcQ # <<>> => Matches'
  BY <1>1 DEF IInv, Matches, FromPc
<1> QED
  BY <1>1, <1>2, <1>3, <1>4, MovesKeep

LEMMA RadioDoneKeeps ==
  ASSUME IInv, NEW ok \in BOOLEAN, MacDone(ok),
         IF Head(moteQ) = Beacon /\ ~ ok THEN failed' = failed + 1 ELSE UNCHANGED failed
  PROVE  IInv'
<1> DEFINE id == Head(moteQ)
           reply == [ok |-> ok, for |-> id]
           answers == ~ ok \/ id # Beacon
           b == IF id # Beacon THEN 1 ELSE 0
           u == IF answers THEN 1 ELSE 0
<1>1. Shape
  BY DEF IInv
<1>2. /\ pcQ' = pcQ /\ waiting' = waiting /\ down' = down /\ lost' = lost
      /\ moteQ' = Tail(moteQ) /\ moteQ # <<>>
      /\ up' = IF answers THEN Append(up, reply) ELSE up
      /\ status' = IF Tail(moteQ) # <<>> THEN "BUSY" ELSE "IDLE"
  BY <1>1 DEF MacDone, Answers, Answer, Shape, pc
<1>3. /\ id \in Nat /\ moteQ' \in Seq(Nat)
      /\ 1 \in DOMAIN moteQ /\ id = moteQ[1]
      /\ \A i \in DOMAIN moteQ' : i + 1 \in DOMAIN moteQ /\ moteQ'[i] = moteQ[i + 1]
  <2>1. moteQ \in Seq(Nat) /\ moteQ # <<>> /\ moteQ' = Tail(moteQ)
    BY <1>1, <1>2 DEF Shape
  <2> QED
    BY <2>1, TailElements
<1>4. Cardinality(FromPc(moteQ)) = Cardinality(FromPc(moteQ')) + b
  <2>1. moteQ \in Seq(Nat) /\ moteQ # <<>> /\ moteQ' = Tail(moteQ)
    BY <1>1, <1>2 DEF Shape
  <2> QED
    BY <2>1, FromPcTail
<1>5. reply \in Reply
  BY <1>3 DEF Reply
<1>6. /\ failed' \in Nat
      /\ id = Beacon /\ answers => failed' # 0
      /\ ~ (id = Beacon /\ answers) => failed' = failed
  BY <1>1 DEF Shape
<1> HIDE DEF reply
<1>7. /\ up' \in Seq(Reply) /\ Len(up') = Len(up) + u
      /\ \A i \in DOMAIN up' :
           (answers /\ up'[i] = reply) \/ (i \in DOMAIN up /\ up'[i] = up[i])
  <2>1. up \in Seq(Reply)
    BY <1>1 DEF Shape
  <2>2. CASE answers
    BY <1>2, <1>5, <2>1, <2>2, AppendElements
  <2>3. CASE ~ answers
    BY <1>2, <2>1, <2>3
  <2> QED
    BY <2>2, <2>3
<1>8. Shape'
  BY <1>1, <1>2, <1>3, <1>6, <1>7 DEF Shape
<1>9. Underway' + lost' = Underway + lost + (u - b)
  <2>1. /\ Len(down) \in Nat /\ Len(up) \in Nat /\ Cardinality(FromPc(moteQ)) \in Nat
        /\ lost \in Nat
    BY <1>1, CountTypes DEF Shape
  <2>2. Cardinality(FromPc(moteQ')) \in Nat
    BY <1>3, FromPcFinite
  <2> DEFINE c == Cardinality(FromPc(moteQ))
             d == Cardinality(FromPc(moteQ'))
  <2>3. /\ Underway' = Len(down) + d + (Len(up) + u)
        /\ Underway = Len(down) + c + Len(up)
        /\ lost' = lost /\ c = d + b
    BY <1>2, <1>4, <1>7, UnderwayIs
  <2>4. u \in Int /\ b \in Int /\ c \in Nat /\ d \in Nat
    BY <2>1, <2>2
  <2> HIDE DEF c, d, u, b
  <2>5. Len(down) + d + (Len(up) + u) + lost = Len(down) + c + Len(up) + lost + (u - b)
    BY <2>1, <2>3, <2>4
  <2> QED
    BY <2>3, <2>5
<1>10. Underway + lost \in Nat
  <2>1. /\ Len(down) \in Nat /\ Len(up) \in Nat /\ Cardinality(FromPc(moteQ)) \in Nat
        /\ lost \in Nat
    BY <1>1, CountTypes DEF Shape
  <2> QED
    BY <2>1, UnderwayIs
<1>11. \/ failed' = failed /\ Underway' + lost' = Underway + lost
       \/ failed' # 0 /\ Underway' + lost' >= Underway + lost
  <2>1. CASE id = Beacon /\ answers
    <3>1. u - b = 1
      BY <2>1
    <3> QED
      BY <1>6, <1>9, <1>10, <2>1, <3>1
  <2>2. CASE ~ (id = Beacon /\ answers)
    <3>1. u - b = 0
      BY <2>2
    <3> QED
      BY <1>6, <1>9, <1>10, <2>2, <3>1
  <2> QED
    BY <2>1, <2>2
<1>12. failed' = 0 /\ pcQ # <<>> => Matches'
  <2> SUFFICES ASSUME failed' = 0, pcQ # <<>>
               PROVE  /\ \A i \in DOMAIN down' : down'[i].id = Head(pcQ).id
                      /\ \A i \in FromPc(moteQ') : moteQ'[i] = Head(pcQ).id
                      /\ \A i \in DOMAIN up' : up'[i].for = Head(pcQ).id
    BY <1>2 DEF Matches
  <2>1. failed = 0 /\ ~ (id = Beacon /\ answers)
    BY <1>6
  <2>2. /\ \A i \in DOMAIN down : down[i].id = Head(pcQ).id
        /\ \A i \in FromPc(moteQ) : moteQ[i] = Head(pcQ).id
        /\ \A i \in DOMAIN up : up[i].for = Head(pcQ).id
    BY <2>1 DEF IInv, Matches
  <2>3. answers => id = Head(pcQ).id
    BY <1>3, <2>1, <2>2 DEF FromPc
  <2>4. \A i \in DOMAIN up' : up'[i].for = Head(pcQ).id
    <3> SUFFICES ASSUME NEW i \in DOMAIN up' PROVE up'[i].for = Head(pcQ).id
      OBVIOUS
    <3>1. CASE answers /\ up'[i] = reply
      BY <2>3, <3>1 DEF reply
    <3>2. CASE i \in DOMAIN up /\ up'[i] = up[i]
      BY <2>2, <3>2
    <3> QED
      BY <1>7, <3>1, <3>2
  <2>5. \A i \in FromPc(moteQ') : i + 1 \in FromPc(moteQ) /\ moteQ'[i] = moteQ[i + 1]
    BY <1>3 DEF FromPc
  <2> QED
    BY <1>2, <2>2, <2>4, <2>5
<1> QED
  BY <1>2, <1>8, <1>11, <1>12, MovesKeep

LEMMA LoseKeeps ==
  ASSUME IInv, Lose
  PROVE  IInv'
<1>1. Shape
  BY DEF IInv
<1>2. /\ pcQ' = pcQ /\ waiting' = waiting /\ moteQ' = moteQ /\ status' = status
      /\ failed' = failed /\ lost' = lost + 1
      /\ \/ down # <<>> /\ down' = Tail(down) /\ up' = up
         \/ up # <<>> /\ up' = Tail(up) /\ down' = down
  BY DEF Lose, pc, mote
<1>3. /\ down' \in Seq(Frame) /\ up' \in Seq(Reply)
      /\ Len(down') + Len(up') = Len(down) + Len(up) - 1
      /\ \A i \in DOMAIN down' : \E j \in DOMAIN down : down'[i] = down[j]
      /\ \A i \in DOMAIN up' : \E j \in DOMAIN up : up'[i] = up[j]
  <2>0. down \in Seq(Frame) /\ up \in Seq(Reply) /\ Len(down) \in Nat /\ Len(up) \in Nat
    BY <1>1 DEF Shape
  <2>1. CASE down # <<>> /\ down' = Tail(down) /\ up' = up
    <3>1. /\ down' \in Seq(Frame) /\ Len(down') = Len(down) - 1
          /\ \A i \in DOMAIN down' : i + 1 \in DOMAIN down /\ down'[i] = down[i + 1]
      BY <2>0, <2>1, TailElements
    <3> QED
      BY <2>0, <2>1, <3>1
  <2>2. CASE up # <<>> /\ up' = Tail(up) /\ down' = down
    <3>1. /\ up' \in Seq(Reply) /\ Len(up') = Len(up) - 1
          /\ \A i \in DOMAIN up' : i + 1 \in DOMAIN up /\ up'[i] = up[i + 1]
      BY <2>0, <2>2, TailElements
    <3> QED
      BY <2>0, <2>2, <3>1
  <2> QED
    BY <1>2, <2>1, <2>2
<1>4. Shape'
  BY <1>1, <1>2, <1>3 DEF Shape
<1>5. Underway' + lost' = Underway + lost
  <2>1. /\ Len(down) \in Nat /\ Len(up) \in Nat /\ Cardinality(FromPc(moteQ)) \in Nat
        /\ lost \in Nat
    BY <1>1, CountTypes DEF Shape
  <2>2. Len(down') \in Nat /\ Len(up') \in Nat
    BY <1>3
  <2>3. /\ Underway' = Len(down') + Cardinality(FromPc(moteQ)) + Len(up')
        /\ Underway = Len(down) + Cardinality(FromPc(moteQ)) + Len(up)
        /\ lost' = lost + 1 /\ Len(down') + Len(up') = Len(down) + Len(up) - 1
    BY <1>2, <1>3, UnderwayIs
  <2> DEFINE c == Cardinality(FromPc(moteQ))
             d == Len(down')
             e == Len(up')
  <2>4. d \in Nat /\ e \in Nat /\ c \in Nat /\ d + e = Len(down) + Len(up) - 1
    BY <2>1, <2>2, <2>3
  <2> HIDE DEF c, d, e
  <2>5. d + c + e + (lost + 1) = Len(down) + c + Len(up) + lost
    BY <2>1, <2>4
  <2> QED
    BY <2>3, <2>5 DEF c, d, e
<1>6. failed' = 0 /\ pcQ # <<>> => Matches'
  <2> SUFFICES ASSUME failed = 0, pcQ # <<>>
               PROVE  /\ \A i \in DOMAIN down' : down'[i].id = Head(pcQ).id
                      /\ \A i \in FromPc(moteQ) : moteQ[i] = Head(pcQ).id
                      /\ \A i \in DOMAIN up' : up'[i].for = Head(pcQ).id
    BY <1>2 DEF Matches, FromPc
  <2>1. /\ \A i \in DOMAIN down : down[i].id = Head(pcQ).id
        /\ \A i \in FromPc(moteQ) : moteQ[i] = Head(pcQ).id
        /\ \A i \in DOMAIN up : up[i].for = Head(pcQ).id
    BY DEF IInv, Matches
  <2> QED
    BY <1>3, <2>1
<1> QED
  BY <1>2, <1>4, <1>5, <1>6, MovesKeep

----------------------------------------------------------------------------
(* The theorems                                                            *)

LEMMA StepIInv == IInv /\ [Next]_vars => IInv'
<1> SUFFICES ASSUME IInv, [Next]_vars PROVE IInv'
  OBVIOUS
<1>1. CASE UNCHANGED vars
  <2>1. /\ pcQ' = pcQ /\ waiting' = waiting /\ down' = down /\ up' = up
        /\ moteQ' = moteQ /\ status' = status /\ failed' = failed /\ lost' = lost
    BY <1>1 DEF vars, pc, mote
  <2>2. Underway' = Underway
    BY <2>1, UnderwayIs
  <2>3. Shape' /\ (failed' = 0 /\ pcQ # <<>> => Matches')
    BY <2>1 DEF IInv, Shape, Matches, FromPc
  <2> QED
    BY <2>1, <2>2, <2>3, MovesKeep
<1>2. ASSUME NEW kind \in Kinds, PcQueue(kind) PROVE IInv'
  BY <1>2, PcQueueKeeps
<1>3. CASE PcAnswer
  BY <1>3, PcAnswerKeeps
<1>4. CASE SerialIn
  BY <1>4, SerialInKeeps
<1>5. CASE OwnBeacon
  BY <1>5, OwnBeaconKeeps
<1>6. CASE BeaconHeard \/ BeaconTreated \/ MoteSend
  BY <1>6, LocalKeeps
<1>7. CASE RadioDone
  <2>1. PICK ok \in BOOLEAN :
          /\ MacDone(ok)
          /\ IF Head(moteQ) = Beacon /\ ~ ok
             THEN failed < MaxFailed /\ failed' = failed + 1
             ELSE UNCHANGED failed
    BY <1>7 DEF RadioDone
  <2>2. IF Head(moteQ) = Beacon /\ ~ ok THEN failed' = failed + 1 ELSE UNCHANGED failed
    BY <2>1
  <2> QED
    BY <2>1, <2>2, RadioDoneKeeps
<1>8. CASE Lose
  BY <1>8, LoseKeeps
<1> QED
  BY <1>1, <1>2, <1>3, <1>4, <1>5, <1>6, <1>7, <1>8 DEF Next

LEMMA Invariance == Spec => []IInv
  BY InitIInv, StepIInv, PTL DEF Spec

\* Whatever the sizes of the queues and of the pool, the PC has sent the head
\* of its queue, waits for one frame or answer at most while the mote's
\* beacons get out, and never for none unless the line lost one
\* (sdn_send_down_once and sdn_send_done of sdn-serial-send.c).
THEOREM StopAndWaitHolds == Spec => []StopAndWait
<1>1. IInv => StopAndWait
  <2> SUFFICES ASSUME IInv PROVE StopAndWait
    OBVIOUS
  <2>1. HeadIsSent /\ OneUnderway
    BY DEF IInv, Counts
  <2>2. Underway + lost >= IF waiting THEN 1 ELSE 0
    BY DEF IInv, Counts
  <2>3. Underway \in Nat
    <3>1. down \in Seq(Frame) /\ moteQ \in Seq(Nat) /\ up \in Seq(Reply)
      BY DEF IInv, Shape
    <3>2. Len(down) \in Nat /\ Cardinality(FromPc(moteQ)) \in Nat /\ Len(up) \in Nat
      BY <3>1, CountTypes
    <3> QED
      BY <3>2, UnderwayIs
  <2>4. WaitsForSomething
    <3> SUFFICES ASSUME waiting, lost = 0 PROVE Underway > 0
      BY DEF WaitsForSomething
    <3> QED
      BY <2>2, <2>3
  <2> QED
    BY <2>1, <2>4 DEF StopAndWait
<1> QED
  BY <1>1, Invariance, PTL

\* An answer of the mote is about the packet that it takes off the PC's
\* queue, as long as no beacon of the mote's own fails ("The status of the
\* packet delivery.", sdn-serial-send.h, 102).
THEOREM AnswersMatchHolds == Spec => []AnswersMatch
<1>1. IInv => AnswersMatch
  <2> SUFFICES ASSUME IInv, failed = 0, up # <<>>, pcQ # <<>>
               PROVE  Head(up).for = Head(pcQ).id
    BY DEF AnswersMatch
  <2>1. up \in Seq(Reply) /\ \A i \in DOMAIN up : up[i].for = Head(pcQ).id
    BY DEF IInv, Shape, Matches
  <2>2. 1 \in DOMAIN up /\ Head(up) = up[1]
    BY <2>1, TailElements
  <2> QED
    BY <2>1, <2>2
<1> QED
  BY <1>1, Invariance, PTL

----------------------------------------------------------------------------
(* What frameDecode sends for a content                                    *)

\* F is content between boundaries, octet n of it after place pos[n - 1].
Sends(content, F, pos) ==
  /\ F \in Seq(Octets) /\ Len(F) >= 2 /\ F[1] = Boundary /\ F[Len(F)] = Boundary
  /\ pos \in [0 .. Len(content) -> Nat]
  /\ pos[0] = 1 /\ pos[Len(content)] = Len(F) - 1
  /\ \A n \in 0 .. Len(content) : pos[n] <= Len(F) - 1
  /\ \A n \in 1 .. Len(content) :
       IF content[n] \in {Boundary, Escape}
       THEN /\ pos[n] = pos[n - 1] + 2
            /\ F[pos[n - 1] + 1] = Escape /\ F[pos[n - 1] + 2] = Inverted(content[n])
       ELSE pos[n] = pos[n - 1] + 1 /\ F[pos[n - 1] + 1] = content[n]

Flat(seqs, f) ==
  f = [i \in 1 .. Len(seqs) |-> IF i = 1 THEN seqs[i] ELSE f[i - 1] \o seqs[i]]

LEMMA FlatIs ==
  ASSUME NEW S, NEW seqs \in Seq(Seq(S)), Len(seqs) >= 1, \E f : Flat(seqs, f)
  PROVE  \E f : Flat(seqs, f) /\ FlattenSeq(seqs) = f[Len(seqs)]
<1>1. Len(seqs) # 0 OBVIOUS
<1> DEFINE g == CHOOSE f : f = [i \in 1 .. Len(seqs) |-> IF i = 1 THEN seqs[i] ELSE f[i - 1] \o seqs[i]]
<1>2. FlattenSeq(seqs) = g[Len(seqs)] BY <1>1, Zenon DEF FlattenSeq
<1>3. Flat(seqs, g) BY Zenon DEF Flat
<1> QED BY <1>2, <1>3

LEMMA FlatExists ==
  ASSUME NEW S, NEW seqs \in Seq(Seq(S)), Len(seqs) >= 1
  PROVE  \E f : Flat(seqs, f)
<1> DEFINE Upto(n, f) == f = [i \in 1 .. n |-> IF i = 1 THEN seqs[i] ELSE f[i - 1] \o seqs[i]]
           Bad == {n \in Nat : n >= 1 /\ ~ \E f : Upto(n, f)}
<1>1. Len(seqs) \in Nat OBVIOUS
<1>2. SUFFICES ASSUME Bad # {} PROVE FALSE BY <1>1 DEF Flat
<1>3. PICK n \in Bad : \A m \in Bad : n <= m
  <2>1. Bad \subseteq Nat OBVIOUS
  <2> HIDE DEF Bad
  <2> QED BY <1>2, <2>1, HasLeast
<1>4. n \in Nat /\ n >= 1 /\ ~ \E f : Upto(n, f) OBVIOUS
<1>5. CASE n = 1
  <2> DEFINE f == [i \in 1 .. 1 |-> seqs[1]]
  <2>1. Upto(1, f) OBVIOUS
  <2> QED BY <1>4, <1>5, <2>1
<1>6. CASE n # 1
  <2>1. n - 1 \in Nat /\ n - 1 >= 1 /\ n - 1 \notin Bad
    <3>1. n \in Nat /\ n - 1 \in Nat /\ n - 1 >= 1 /\ ~ (n <= n - 1) BY <1>4, <1>6
    <3> HIDE DEF Bad
    <3> QED BY <1>3, <3>1
  <2>2. PICK f : Upto(n - 1, f) BY <2>1
  <2> DEFINE g == [i \in 1 .. n |-> IF i = n THEN f[n - 1] \o seqs[n] ELSE f[i]]
  <2>3. \A i \in 1 .. n - 1 : g[i] = f[i] BY <1>4
  <2>4. g[n] = f[n - 1] \o seqs[n]
    <3>1. n \in 1 .. n BY <1>4
    <3> DEFINE v == f[n - 1] \o seqs[n]
    <3> HIDE DEF v
    <3>2. [i \in 1 .. n |-> IF i = n THEN v ELSE f[i]][n] = v BY <3>1
    <3> QED BY <3>2 DEF v
  <2>5. ASSUME NEW i \in 1 .. n
        PROVE  g[i] = IF i = 1 THEN seqs[i] ELSE g[i - 1] \o seqs[i]
    <3>1. CASE i = n
      <4>1. g[n - 1] = f[n - 1] BY <2>1, <2>3
      <4> HIDE DEF g
      <4> QED BY <1>4, <1>6, <2>4, <3>1, <4>1
    <3>2. CASE i # n
      <4>1. i \in 1 .. n - 1 BY <1>4, <3>2
      <4>2. f[i] = IF i = 1 THEN seqs[i] ELSE f[i - 1] \o seqs[i] BY <2>2, <4>1
      <4>3. i # 1 => i - 1 \in 1 .. n - 1 BY <4>1
      <4>4. i # 1 => g[i - 1] = f[i - 1] BY <2>3, <4>3
      <4>5. g[i] = f[i] BY <2>3, <4>1
      <4> HIDE DEF g
      <4> QED BY <4>2, <4>4, <4>5
    <3> QED BY <3>1, <3>2
  <2>6. g = [i \in 1 .. n |-> g[i]] OBVIOUS
  <2> HIDE DEF g
  <2>7. Upto(n, g) BY <2>5, <2>6
  <2> QED BY <1>4, <2>7
<1> QED BY <1>5, <1>6

\* What a sequence of flattenings has: each goes on from the one before.
LEMMA FlatGrows ==
  ASSUME NEW S, NEW seqs \in Seq(Seq(S)), NEW f, Flat(seqs, f), NEW n \in 1 .. Len(seqs)
  PROVE  /\ f[n] \in Seq(S)
         /\ \A m \in 1 .. n : /\ f[m] \in Seq(S) /\ Len(f[m]) <= Len(f[n])
                              /\ \A j \in 1 .. Len(f[m]) : f[n][j] = f[m][j]
<1> DEFINE Good(k) == /\ f[k] \in Seq(S)
                      /\ \A m \in 1 .. k : /\ f[m] \in Seq(S) /\ Len(f[m]) <= Len(f[k])
                                           /\ \A j \in 1 .. Len(f[m]) : f[k][j] = f[m][j]
           Bad == {k \in 1 .. Len(seqs) : ~ Good(k)}
<1>1. Len(seqs) \in Nat OBVIOUS
<1>2. SUFFICES ASSUME Bad # {} PROVE FALSE OBVIOUS
<1>3. PICK k \in Bad : \A m \in Bad : k <= m
  <2>1. Bad \subseteq Nat BY <1>1
  <2> HIDE DEF Bad
  <2> QED BY <1>2, <2>1, HasLeast
<1>4. k \in 1 .. Len(seqs) /\ ~ Good(k) OBVIOUS
<1>5. f[k] = IF k = 1 THEN seqs[k] ELSE f[k - 1] \o seqs[k]
  <2>1. f = [i \in 1 .. Len(seqs) |-> IF i = 1 THEN seqs[i] ELSE f[i - 1] \o seqs[i]] BY DEF Flat
  <2> QED BY <1>4, <2>1
<1>6. seqs[k] \in Seq(S) BY <1>4
<1>7. CASE k = 1
  <2>1. f[1] \in Seq(S) BY <1>5, <1>6, <1>7
  <2>2. Len(f[1]) \in Nat BY <2>1
  <2>3. Good(1) BY <2>1, <2>2
  <2> QED BY <1>4, <1>7, <2>3
<1>8. CASE k # 1
  <2>1. k - 1 \in 1 .. Len(seqs) /\ k - 1 \notin Bad BY <1>1, <1>3, <1>4, <1>8
  <2>2. Good(k - 1) BY <2>1
  <2>3. f[k] = f[k - 1] \o seqs[k] /\ f[k - 1] \in Seq(S) BY <1>5, <1>8, <2>2
  <2>4. /\ f[k] \in Seq(S) /\ Len(f[k - 1]) <= Len(f[k])
        /\ \A j \in 1 .. Len(f[k - 1]) : f[k][j] = f[k - 1][j]
    <3> DEFINE a == f[k - 1]
               b == seqs[k]
    <3>1. a \in Seq(S) /\ b \in Seq(S) /\ f[k] = a \o b BY <1>6, <2>3
    <3> HIDE DEF a, b
    <3>2. /\ a \o b \in Seq(S) /\ Len(a) <= Len(a \o b)
          /\ \A j \in 1 .. Len(a) : (a \o b)[j] = a[j]
      BY <3>1
    <3> QED BY <3>1, <3>2 DEF a
  <2>5. ASSUME NEW m \in 1 .. k
        PROVE  /\ f[m] \in Seq(S) /\ Len(f[m]) <= Len(f[k])
               /\ \A j \in 1 .. Len(f[m]) : f[k][j] = f[m][j]
    <3>1. CASE m = k
      <4>1. Len(f[k]) \in Nat BY <2>4
      <4> QED BY <2>4, <3>1, <4>1
    <3>2. CASE m # k
      <4>1. m \in 1 .. k - 1 BY <1>4, <3>2
      <4>2. /\ f[m] \in Seq(S) /\ Len(f[m]) <= Len(f[k - 1])
            /\ \A j \in 1 .. Len(f[m]) : f[k - 1][j] = f[m][j]
        BY <2>2, <4>1
      <4> DEFINE fm == f[m]
                 fp == f[k - 1]
                 fk == f[k]
      <4>a. fm \in Seq(S) /\ fp \in Seq(S) /\ fk \in Seq(S) BY <2>3, <2>4, <4>2
      <4>b. Len(fm) <= Len(fp) /\ \A j \in 1 .. Len(fm) : fp[j] = fm[j] BY <4>2
      <4>c. Len(fp) <= Len(fk) /\ \A j \in 1 .. Len(fp) : fk[j] = fp[j] BY <2>4
      <4> HIDE DEF fm, fp, fk
      <4>3. Len(fm) \in Nat /\ Len(fp) \in Nat /\ Len(fk) \in Nat BY <4>a
      <4>4. fm \in Seq(S) /\ Len(fm) <= Len(fk) /\ \A j \in 1 .. Len(fm) : fk[j] = fm[j]
        BY <4>3, <4>a, <4>b, <4>c
      <4> QED BY <4>4 DEF fm, fk
    <3> QED BY <3>1, <3>2
  <2>6. Good(k) BY <2>4, <2>5
  <2> QED BY <1>4, <2>6
<1> QED BY <1>7, <1>8

LEMMA FramedFacts ==
  ASSUME NEW content \in Contents
  PROVE  \E pos : Sends(content, Framed(content), pos)
<1> DEFINE L == Len(content)
           seqs == [i \in DOMAIN content |-> Stuffed(content[i])]
           F == Framed(content)
<1>1. content \in Seq(Octets) /\ L \in Nat /\ L >= 1 /\ DOMAIN content = 1 .. L BY FramingAssumption
<1>2. ASSUME NEW n \in 1 .. L
      PROVE  /\ Stuffed(content[n]) \in Seq(Octets)
             /\ IF content[n] \in {Boundary, Escape}
                THEN Stuffed(content[n]) = <<Escape, Inverted(content[n])>>
                ELSE Stuffed(content[n]) = <<content[n]>>
  <2>1. content[n] \in Octets BY <1>1
  <2>2. content[n] \in {Boundary, Escape} => Inverted(content[n]) \in Octets
    BY DEF Octets, Boundary, Escape, Inverted
  <2>3. Escape \in Octets BY DEF Octets
  <2> QED BY <2>1, <2>2, <2>3 DEF Stuffed
<1> HIDE DEF L
<1>3. seqs \in Seq(Seq(Octets)) /\ Len(seqs) = L /\ \A n \in 1 .. L : seqs[n] = Stuffed(content[n])
  <2>1. seqs \in [1 .. L -> Seq(Octets)] BY <1>1, <1>2
  <2> QED BY <1>1, <2>1
<1>4. F = <<Boundary>> \o FlattenSeq(seqs) \o <<Boundary>> BY DEF Framed
<1> HIDE DEF seqs, F
<1>5. PICK f : Flat(seqs, f) /\ FlattenSeq(seqs) = f[L] BY <1>1, <1>3, FlatExists, FlatIs
<1>6. ASSUME NEW n \in 1 .. L
      PROVE  /\ f[n] \in Seq(Octets)
             /\ \A m \in 1 .. n : /\ f[m] \in Seq(Octets) /\ Len(f[m]) <= Len(f[n])
                                  /\ \A j \in 1 .. Len(f[m]) : f[n][j] = f[m][j]
  BY <1>3, <1>5, FlatGrows
<1> DEFINE B == f[L]
           pos == [n \in 0 .. L |-> IF n = 0 THEN 1 ELSE 1 + Len(f[n])]
<1>7. /\ B \in Seq(Octets) /\ Len(B) \in Nat
      /\ \A n \in 1 .. L : /\ Len(f[n]) <= Len(B) /\ Len(f[n]) \in Nat
                           /\ \A j \in 1 .. Len(f[n]) : B[j] = f[n][j]
  <2>1. L \in 1 .. L BY <1>1
  <2> QED BY <1>6, <2>1
<1>8. \A n \in 1 .. L : f[n] = IF n = 1 THEN seqs[n] ELSE f[n - 1] \o seqs[n]
  <2>1. f = [i \in 1 .. L |-> IF i = 1 THEN seqs[i] ELSE f[i - 1] \o seqs[i]] BY <1>3, <1>5 DEF Flat
  <2> QED BY <2>1
<1>b. FlattenSeq(seqs) = B BY <1>5
<1> HIDE DEF B
<1>9. /\ F \in Seq(Octets) /\ Len(F) = Len(B) + 2 /\ F[1] = Boundary /\ F[Len(F)] = Boundary
      /\ \A j \in 1 .. Len(B) : F[j + 1] = B[j]
  <2>1. Boundary \in Octets BY DEF Octets
  <2> DEFINE H == <<Boundary>> \o B
             x == Len(B) + 2
  <2>2. /\ H \in Seq(Octets) /\ Len(H) = Len(B) + 1 /\ H[1] = Boundary
        /\ \A j \in 1 .. Len(B) : H[j + 1] = B[j]
    BY <1>7, <2>1
  <2>3. F = H \o <<Boundary>> BY <1>4, <1>b
  <2> HIDE DEF H
  <2>4. F \in Seq(Octets) /\ Len(F) = x BY <1>7, <2>1, <2>2, <2>3
  <2>5. \A j \in 1 .. Len(B) + 1 : F[j] = H[j] BY <1>7, <2>1, <2>2, <2>3
  <2>6. F[x] = Boundary
    <3>1. x = Len(H) + 1 BY <2>2
    <3> HIDE DEF x
    <3> QED BY <2>1, <2>2, <2>3, <3>1
  <2>7. \A j \in 1 .. Len(B) : j + 1 \in 1 .. Len(B) + 1 BY <1>7
  <2>8. 1 \in 1 .. Len(B) + 1 BY <1>7
  <2> QED BY <2>2, <2>4, <2>5, <2>6, <2>7, <2>8
<1>10. /\ pos \in [0 .. L -> Nat] /\ pos[0] = 1 /\ pos[L] = Len(F) - 1
       /\ \A n \in 1 .. L : pos[n] = 1 + Len(f[n])
       /\ \A n \in 0 .. L : pos[n] <= Len(F) - 1
  <2>1. pos \in [0 .. L -> Nat] BY <1>7, <1>1
  <2>2. \A n \in 1 .. L : pos[n] = 1 + Len(f[n]) BY <1>1
  <2>3. pos[0] = 1 BY <1>1
  <2>4. L \in 1 .. L BY <1>1
  <2>5. pos[L] = 1 + Len(B) BY <2>2, <2>4 DEF B
  <2>6. ASSUME NEW n \in 0 .. L PROVE pos[n] <= Len(F) - 1
    <3>1. CASE n = 0 BY <1>7, <1>9, <2>3, <3>1
    <3>2. CASE n # 0
      <4>1. n \in 1 .. L BY <1>1, <3>2
      <4>2. pos[n] = 1 + Len(f[n]) /\ Len(f[n]) <= Len(B) /\ Len(f[n]) \in Nat BY <1>7, <2>2, <4>1
      <4> HIDE DEF pos
      <4> QED BY <1>7, <1>9, <4>2
    <3> QED BY <3>1, <3>2
  <2> HIDE DEF pos
  <2> QED BY <1>7, <1>9, <2>1, <2>2, <2>3, <2>5, <2>6
<1> HIDE DEF pos
<1>11. ASSUME NEW n \in 1 .. L
       PROVE  IF content[n] \in {Boundary, Escape}
              THEN /\ pos[n] = pos[n - 1] + 2
                   /\ F[pos[n - 1] + 1] = Escape /\ F[pos[n - 1] + 2] = Inverted(content[n])
              ELSE pos[n] = pos[n - 1] + 1 /\ F[pos[n - 1] + 1] = content[n]
  <2> DEFINE s == seqs[n]
             a == IF n = 1 THEN <<>> ELSE f[n - 1]
             b == f[n]
  <2>1. a \in Seq(Octets) /\ pos[n - 1] = 1 + Len(a)
    <3>1. CASE n = 1 BY <1>10, <3>1
    <3>2. CASE n # 1
      <4>1. n - 1 \in 1 .. L BY <1>1, <3>2
      <4> QED BY <1>6, <1>10, <3>2, <4>1
    <3> QED BY <3>1, <3>2
  <2>2. s \in Seq(Octets) /\ s = Stuffed(content[n]) BY <1>2, <1>3
  <2>3. b = a \o s
    <3>1. CASE n = 1
      <4>1. b = s BY <1>8, <3>1
      <4>2. a = <<>> BY <3>1
      <4> HIDE DEF a, b, s
      <4> QED BY <2>2, <4>1, <4>2
    <3>2. CASE n # 1 BY <1>8, <3>2
    <3> QED BY <3>1, <3>2
  <2>4. pos[n] = 1 + Len(b) BY <1>10
  <2>5. \A j \in 1 .. Len(b) : F[j + 1] = b[j]
    <3>1. Len(b) <= Len(B) /\ Len(b) \in Nat /\ \A j \in 1 .. Len(b) : B[j] = b[j] BY <1>7
    <3> HIDE DEF b
    <3> QED BY <1>7, <1>9, <3>1
  <2> HIDE DEF a, b, s
  <2> DEFINE y == Len(a)
  <2>6. y \in Nat /\ Len(b) = y + Len(s) BY <2>1, <2>2, <2>3
  <2>7. \A j \in 1 .. Len(s) : b[y + j] = s[j]
    <3>1. TAKE j \in 1 .. Len(s)
    <3> DEFINE x == y + j
    <3>2. x \in 1 .. Len(a) + Len(s) /\ ~ (x <= Len(a)) /\ x - Len(a) = j BY <2>1, <2>2
    <3> HIDE DEF x, y
    <3>3. b[x] = s[x - Len(a)] BY <2>1, <2>2, <2>3, <3>2
    <3> QED BY <3>2, <3>3 DEF x
  <2>8. pos[n - 1] = 1 + y BY <2>1
  <2> HIDE DEF y
  <2>9. \A j \in 1 .. Len(s) : F[y + j + 1] = s[j]
    <3>1. TAKE j \in 1 .. Len(s)
    <3> DEFINE x == y + j
    <3>2. x \in 1 .. Len(b) BY <2>2, <2>6
    <3>3. F[x + 1] = b[x] BY <2>5, <3>2
    <3> QED BY <2>7, <3>3
  <2>10. CASE content[n] \in {Boundary, Escape}
    <3>1. Len(s) = 2 /\ s[1] = Escape /\ s[2] = Inverted(content[n]) BY <1>2, <2>2, <2>10
    <3>2. 1 \in 1 .. Len(s) /\ 2 \in 1 .. Len(s) BY <3>1
    <3>3. F[y + 1 + 1] = Escape /\ F[y + 2 + 1] = Inverted(content[n]) BY <2>9, <3>1, <3>2
    <3>4. pos[n - 1] + 1 = y + 1 + 1 /\ pos[n - 1] + 2 = y + 2 + 1 /\ pos[n] = pos[n - 1] + 2
      BY <2>4, <2>6, <2>8, <3>1
    <3> QED BY <2>10, <3>3, <3>4
  <2>11. CASE content[n] \notin {Boundary, Escape}
    <3>1. Len(s) = 1 /\ s[1] = content[n] BY <1>2, <2>2, <2>11
    <3>2. 1 \in 1 .. Len(s) BY <3>1
    <3>3. F[y + 1 + 1] = content[n] BY <2>9, <3>1, <3>2
    <3>4. pos[n - 1] + 1 = y + 1 + 1 /\ pos[n] = pos[n - 1] + 1 BY <2>4, <2>6, <2>8, <3>1
    <3> QED BY <2>11, <3>3, <3>4
  <2> QED BY <2>10, <2>11
<1>12. Sends(content, F, pos)
  <2>1. Len(F) >= 2 BY <1>7, <1>9
  <2>2. L = Len(content) BY DEF L
  <2> QED BY <1>9, <1>10, <1>11, <2>1, <2>2 DEF Sends
<1> QED BY <1>12 DEF F

PosOf(content) == CHOOSE pos : Sends(content, Framed(content), pos)

\* Up to place p of its frame, n octets of a content are taken.
Upto(content, n, esc, p) ==
  /\ n \in 0 .. Len(content)
  /\ IF esc THEN /\ n < Len(content) /\ content[n + 1] \in {Boundary, Escape}
                 /\ p = PosOf(content)[n] + 1
     ELSE p = PosOf(content)[n]

LEMMA PosFacts ==
  ASSUME NEW content \in Contents
  PROVE  /\ Sends(content, Framed(content), PosOf(content))
         /\ content \in Seq(Octets) /\ Len(content) \in Nat /\ Len(content) >= 1
         /\ Framed(content) \in Seq(Octets) /\ Len(Framed(content)) \in Nat /\ Len(Framed(content)) >= 2
<1>1. Sends(content, Framed(content), PosOf(content)) BY FramedFacts, Zenon DEF PosOf
<1>2. content \in Seq(Octets) /\ Len(content) \in Nat /\ Len(content) >= 1 BY FramingAssumption
<1>3. Framed(content) \in Seq(Octets) /\ Len(Framed(content)) >= 2 BY <1>1 DEF Sends
<1>4. Len(Framed(content)) \in Nat BY <1>3
<1> QED BY <1>1, <1>2, <1>3, <1>4

LEMMA PosPositive ==
  ASSUME NEW content \in Contents, NEW n \in 0 .. Len(content)
  PROVE  PosOf(content)[n] >= 1
<1> DEFINE F == Framed(content)
           L == Len(content)
           pos == PosOf(content)
<1>1. Sends(content, F, pos) /\ L \in Nat BY PosFacts
<1>2. CASE n = 0
  <2>1. pos[0] = 1 BY <1>1 DEF Sends
  <2> QED BY <1>2, <2>1
<1>3. CASE n # 0
  <2>1. n \in 1 .. L /\ n - 1 \in 0 .. L BY <1>1, <1>3
  <2>2. pos[n - 1] \in Nat /\ (pos[n] = pos[n - 1] + 2 \/ pos[n] = pos[n - 1] + 1)
    BY <1>1, <2>1 DEF Sends
  <2> QED BY <2>2
<1> QED BY <1>2, <1>3

LEMMA InvertedFacts ==
  \A o \in Octets : /\ Inverted(o) \in Octets
                    /\ o \in {Boundary, Escape} => /\ Inverted(o) \notin {Boundary, Escape}
                                                   /\ Inverted(Inverted(o)) = o
  BY DEF Octets, Boundary, Escape, Inverted

\* The octet after so many.
OctetNext(content, n, esc, p) ==
  LET F == Framed(content)
      L == Len(content)
  IN  /\ p \in Nat /\ p >= 1 /\ n \in 0 .. L
      /\ ~ esc /\ n = L => p + 1 = Len(F)
      /\ ~ esc /\ n # L => /\ p + 1 < Len(F) /\ F[p + 1] # Boundary /\ n + 1 \in 1 .. L
                           /\ F[p + 1] = Escape => Upto(content, n, TRUE, p + 1)
                           /\ F[p + 1] # Escape => /\ F[p + 1] = content[n + 1]
                                                   /\ Upto(content, n + 1, FALSE, p + 1)
      /\ esc => /\ p + 1 < Len(F) /\ F[p + 1] # Boundary /\ n + 1 \in 1 .. L
                /\ Inverted(F[p + 1]) = content[n + 1]
                /\ Upto(content, n + 1, FALSE, p + 1)

LEMMA NextOctet ==
  ASSUME NEW content \in Contents, NEW n, NEW esc \in BOOLEAN, NEW p, Upto(content, n, esc, p)
  PROVE  OctetNext(content, n, esc, p)
<1> DEFINE F == Framed(content)
           L == Len(content)
           pos == PosOf(content)
<1>1. Sends(content, F, pos) /\ L \in Nat /\ L >= 1 /\ content \in Seq(Octets) /\ Len(F) \in Nat
  BY PosFacts
<1>2. n \in 0 .. L BY DEF Upto
<1>3. pos[n] \in Nat /\ pos[0] = 1 /\ pos[L] = Len(F) - 1 /\ pos[n] <= Len(F) - 1
  BY <1>1, <1>2 DEF Sends
<1>4. pos[n] >= 1 BY <1>2, PosPositive
<1>5. ASSUME n # L
      PROVE  /\ n + 1 \in 1 .. L /\ content[n + 1] \in Octets
             /\ IF content[n + 1] \in {Boundary, Escape}
                THEN /\ pos[n + 1] = pos[n] + 2 /\ pos[n] + 2 <= Len(F) - 1
                     /\ F[pos[n] + 1] = Escape /\ F[pos[n] + 2] = Inverted(content[n + 1])
                ELSE /\ pos[n + 1] = pos[n] + 1 /\ pos[n] + 1 <= Len(F) - 1
                     /\ F[pos[n] + 1] = content[n + 1]
  <2> DEFINE m == n + 1
  <2>1. m \in 1 .. L /\ m \in 0 .. L /\ m - 1 = n BY <1>1, <1>2, <1>5
  <2>2. pos[m] <= Len(F) - 1 BY <1>1, <2>1 DEF Sends
  <2>3. IF content[m] \in {Boundary, Escape}
        THEN /\ pos[m] = pos[m - 1] + 2
             /\ F[pos[m - 1] + 1] = Escape /\ F[pos[m - 1] + 2] = Inverted(content[m])
        ELSE pos[m] = pos[m - 1] + 1 /\ F[pos[m - 1] + 1] = content[m]
    BY <1>1, <2>1 DEF Sends
  <2>4. content[m] \in Octets BY <1>1, <2>1
  <2> HIDE DEF m, pos, F, L
  <2>5. /\ m \in 1 .. L /\ content[m] \in Octets
        /\ IF content[m] \in {Boundary, Escape}
           THEN /\ pos[m] = pos[n] + 2 /\ pos[n] + 2 <= Len(F) - 1
                /\ F[pos[n] + 1] = Escape /\ F[pos[n] + 2] = Inverted(content[m])
           ELSE /\ pos[m] = pos[n] + 1 /\ pos[n] + 1 <= Len(F) - 1
                /\ F[pos[n] + 1] = content[m]
    BY <2>1, <2>2, <2>3, <2>4
  <2> QED BY <2>5 DEF m
<1>6. Boundary # Escape BY DEF Boundary, Escape
<1>7. /\ esc => n # L /\ content[n + 1] \in {Boundary, Escape} /\ p = pos[n] + 1
      /\ ~ esc => p = pos[n]
  BY <1>1, <1>2 DEF Upto
<1>8. \A m \in 1 .. L : m \in 0 .. L BY <1>1
<1>9. ~ esc /\ n # L => /\ p + 1 < Len(F) /\ F[p + 1] # Boundary /\ n + 1 \in 1 .. L
                        /\ F[p + 1] = Escape => Upto(content, n, TRUE, p + 1)
                        /\ F[p + 1] # Escape => /\ F[p + 1] = content[n + 1]
                                                /\ Upto(content, n + 1, FALSE, p + 1)
  <2> SUFFICES ASSUME ~ esc, n # L
               PROVE  /\ p + 1 < Len(F) /\ F[p + 1] # Boundary /\ n + 1 \in 1 .. L
                      /\ F[p + 1] = Escape => Upto(content, n, TRUE, p + 1)
                      /\ F[p + 1] # Escape => /\ F[p + 1] = content[n + 1]
                                              /\ Upto(content, n + 1, FALSE, p + 1)
    OBVIOUS
  <2>1. p = pos[n] /\ n + 1 \in 1 .. L /\ n + 1 \in 0 .. L /\ n < L BY <1>1, <1>2, <1>5, <1>7, <1>8
  <2>2. CASE content[n + 1] \in {Boundary, Escape}
    <3>1. F[p + 1] = Escape /\ p + 1 < Len(F) BY <1>1, <1>3, <1>5, <2>1, <2>2
    <3>2. Upto(content, n, TRUE, p + 1) BY <1>2, <2>1, <2>2 DEF Upto
    <3> QED BY <1>6, <2>1, <3>1, <3>2
  <2>3. CASE content[n + 1] \notin {Boundary, Escape}
    <3>1. F[p + 1] = content[n + 1] /\ p + 1 < Len(F) BY <1>1, <1>3, <1>5, <2>1, <2>3
    <3>2. p + 1 = pos[n + 1] BY <1>5, <2>1, <2>3
    <3>3. Upto(content, n + 1, FALSE, p + 1) BY <2>1, <3>2 DEF Upto
    <3> QED BY <2>1, <2>3, <3>1, <3>3
  <2> QED BY <2>2, <2>3
<1>10. esc => /\ p + 1 < Len(F) /\ F[p + 1] # Boundary /\ n + 1 \in 1 .. L
              /\ Inverted(F[p + 1]) = content[n + 1]
              /\ Upto(content, n + 1, FALSE, p + 1)
  <2> SUFFICES ASSUME esc
               PROVE  /\ p + 1 < Len(F) /\ F[p + 1] # Boundary /\ n + 1 \in 1 .. L
                      /\ Inverted(F[p + 1]) = content[n + 1]
                      /\ Upto(content, n + 1, FALSE, p + 1)
    OBVIOUS
  <2>1. /\ p = pos[n] + 1 /\ n + 1 \in 1 .. L /\ n + 1 \in 0 .. L /\ n # L
        /\ content[n + 1] \in {Boundary, Escape} /\ content[n + 1] \in Octets
    BY <1>5, <1>7, <1>8
  <2>2. p + 1 = pos[n] + 2 BY <1>3, <2>1
  <2>3. /\ pos[n + 1] = p + 1 /\ p + 1 < Len(F) /\ F[p + 1] = Inverted(content[n + 1])
    BY <1>1, <1>3, <1>5, <2>1, <2>2
  <2>4. Inverted(F[p + 1]) = content[n + 1] /\ F[p + 1] # Boundary BY <2>1, <2>3, InvertedFacts
  <2>5. Upto(content, n + 1, FALSE, p + 1) BY <2>1, <2>3 DEF Upto
  <2> QED BY <2>1, <2>3, <2>4, <2>5
<1>11. p \in Nat /\ p >= 1 BY <1>3, <1>4, <1>7
<1>12. ~ esc /\ n = L => p + 1 = Len(F) BY <1>1, <1>3, <1>7
<1> QED BY <1>2, <1>9, <1>10, <1>11, <1>12 DEF OctetNext

\* The last octet of a content is no escape octet on the line.
LEMMA LastOctet ==
  ASSUME NEW content \in Contents
  PROVE  LET F == Framed(content)
         IN  /\ Len(F) \in Nat /\ Len(F) >= 3 /\ F[1] = Boundary /\ F[Len(F)] = Boundary
             /\ F[Len(F) - 1] # Escape /\ F \in Seq(Octets)
<1> DEFINE F == Framed(content)
           L == Len(content)
           pos == PosOf(content)
<1>1. /\ Sends(content, F, pos) /\ L \in Nat /\ L >= 1 /\ content \in Seq(Octets)
      /\ Len(F) \in Nat /\ F \in Seq(Octets)
  BY PosFacts
<1>2. L \in 1 .. L /\ L - 1 \in 0 .. L BY <1>1
<1>3. pos[L - 1] \in Nat /\ pos[L] = Len(F) - 1 /\ F[1] = Boundary /\ F[Len(F)] = Boundary
  BY <1>1, <1>2 DEF Sends
<1>4. IF content[L] \in {Boundary, Escape}
      THEN /\ pos[L] = pos[L - 1] + 2
           /\ F[pos[L - 1] + 1] = Escape /\ F[pos[L - 1] + 2] = Inverted(content[L])
      ELSE pos[L] = pos[L - 1] + 1 /\ F[pos[L - 1] + 1] = content[L]
  BY <1>1, <1>2 DEF Sends
<1>5. content[L] \in Octets BY <1>1, <1>2
<1>6. pos[L - 1] >= 1 BY <1>2, PosPositive
<1>7. Len(F) >= 3 BY <1>1, <1>3, <1>4, <1>6
<1>8. F[pos[L]] # Escape
  <2>1. CASE content[L] \in {Boundary, Escape}
    <3>1. F[pos[L]] = Inverted(content[L]) BY <1>4, <2>1
    <3> QED BY <1>5, <2>1, <3>1, InvertedFacts
  <2>2. CASE content[L] \notin {Boundary, Escape} BY <1>4, <2>2
  <2> QED BY <2>1, <2>2
<1> QED BY <1>1, <1>3, <1>7, <1>8

----------------------------------------------------------------------------
(* What is on the line: the end of all that was sent                       *)

FrameSent == [kind : {"packet", "request"}, content : Contents]
OnLine == [o : Octets, of : Nat]

Closing(S, k) == Len(Framed(S[k].content))

\* An octet of the k-th frame, at place p; or of a text after it, at place 0.
Placed(S, octet, k, p) ==
  IF p = 0 THEN octet.of = 0
  ELSE /\ k >= 1 /\ octet.of = k /\ p <= Closing(S, k)
       /\ octet.o = Framed(S[k].content)[p]

Complete(S, octet, k, p) == (p = 0 /\ octet.o # Escape) \/ (k >= 1 /\ p >= 1 /\ p = Closing(S, k))

Follows(S, octet, k, p, k2, p2) ==
  \/ p >= 1 /\ p < Closing(S, k) /\ k2 = k /\ p2 = p + 1
  \/ p = 0 /\ k2 = k /\ p2 = 0
  \/ Complete(S, octet, k, p) /\ ((k2 = k /\ p2 = 0) \/ (k2 = k + 1 /\ p2 = 1))

\* D frames are off the line.
Stream(S, ln, D, fr, pl) ==
  /\ D \in 0 .. Len(S)
  /\ fr \in [1 .. Len(ln) -> 0 .. Len(S)] /\ pl \in [1 .. Len(ln) -> Nat]
  /\ \A i \in 1 .. Len(ln) : Placed(S, ln[i], fr[i], pl[i])
  /\ \A i \in 1 .. Len(ln) : i + 1 <= Len(ln) => Follows(S, ln[i], fr[i], pl[i], fr[i + 1], pl[i + 1])
  /\ ln = <<>> => D = Len(S)
  /\ ln # <<>> => /\ D = (IF pl[1] = 0 THEN fr[1] ELSE fr[1] - 1)
                  /\ Complete(S, ln[Len(ln)], fr[Len(ln)], pl[Len(ln)]) /\ fr[Len(ln)] = Len(S)
  /\ \A k \in 1 .. Len(S) : k > D => \E i \in 1 .. Len(ln) : fr[i] = k /\ pl[i] = Closing(S, k)

\* The places after the first octet is gone.
Rest(f, m) == [i \in 1 .. m - 1 |-> f[i + 1]]

LEMMA ClosingFacts ==
  ASSUME NEW S \in Seq(FrameSent), NEW k \in 1 .. Len(S)
  PROVE  /\ S[k].content \in Contents /\ Closing(S, k) \in Nat /\ Closing(S, k) >= 3
         /\ Framed(S[k].content)[1] = Boundary /\ Framed(S[k].content)[Closing(S, k)] = Boundary
         /\ Framed(S[k].content)[Closing(S, k) - 1] # Escape
<1>1. S[k] \in FrameSent OBVIOUS
<1>2. S[k].content \in Contents BY <1>1 DEF FrameSent
<1> QED BY <1>2, LastOctet DEF Closing

LEMMA TailFacts ==
  ASSUME NEW T, NEW ln \in Seq(T), ln # <<>>
  PROVE  /\ Len(ln) \in Nat /\ Len(ln) >= 1 /\ Head(ln) = ln[1] /\ ln[1] \in T
         /\ Tail(ln) \in Seq(T) /\ Len(Tail(ln)) = Len(ln) - 1
         /\ \A i \in 1 .. Len(ln) - 1 : Tail(ln)[i] = ln[i + 1]
  OBVIOUS

LEMMA StreamShorter ==
  ASSUME NEW S \in Seq(FrameSent), NEW ln \in Seq(OnLine), ln # <<>>, NEW D, NEW fr, NEW pl,
         Stream(S, ln, D, fr, pl)
  PROVE  LET E == IF pl[1] >= 1 /\ pl[1] = Closing(S, fr[1]) THEN D + 1 ELSE D
         IN  Stream(S, Tail(ln), E, Rest(fr, Len(ln)), Rest(pl, Len(ln)))
<1> DEFINE E == IF pl[1] >= 1 /\ pl[1] = Closing(S, fr[1]) THEN D + 1 ELSE D
           m == Len(ln)
           tl == Tail(ln)
           f == Rest(fr, m)
           p == Rest(pl, m)
<1>1. /\ m \in Nat /\ m >= 1 /\ tl \in Seq(OnLine) /\ Len(tl) = m - 1
      /\ \A i \in 1 .. m - 1 : tl[i] = ln[i + 1]
  BY TailFacts
<1>2. /\ D \in 0 .. Len(S) /\ Len(S) \in Nat
      /\ fr \in [1 .. m -> 0 .. Len(S)] /\ pl \in [1 .. m -> Nat]
      /\ \A i \in 1 .. m : Placed(S, ln[i], fr[i], pl[i])
      /\ \A i \in 1 .. m : i + 1 <= m => Follows(S, ln[i], fr[i], pl[i], fr[i + 1], pl[i + 1])
      /\ D = (IF pl[1] = 0 THEN fr[1] ELSE fr[1] - 1)
      /\ Complete(S, ln[m], fr[m], pl[m]) /\ fr[m] = Len(S)
      /\ \A k \in 1 .. Len(S) : k > D => \E i \in 1 .. m : fr[i] = k /\ pl[i] = Closing(S, k)
  BY DEF Stream
<1>3. \A i \in 1 .. m - 1 : i + 1 \in 1 .. m /\ f[i] = fr[i + 1] /\ p[i] = pl[i + 1]
  BY <1>1 DEF Rest
<1>4. f \in [1 .. m - 1 -> 0 .. Len(S)] /\ p \in [1 .. m - 1 -> Nat]
  BY <1>1, <1>2 DEF Rest
<1>d. DOMAIN f = 1 .. m - 1 /\ DOMAIN p = 1 .. m - 1 BY <1>4
<1> HIDE DEF m, tl, f, p
<1>5. fr[1] \in 0 .. Len(S) /\ pl[1] \in Nat /\ Placed(S, ln[1], fr[1], pl[1])
  BY <1>1, <1>2
<1>6. pl[1] # 0 => fr[1] \in 1 .. Len(S) /\ pl[1] <= Closing(S, fr[1])
  BY <1>2, <1>5 DEF Placed
<1>7. E \in 0 .. Len(S) BY <1>2, <1>5, <1>6
<1>8. \A i \in 1 .. m - 1 : Placed(S, tl[i], f[i], p[i]) BY <1>1, <1>2, <1>3
<1>9. ASSUME NEW i \in 1 .. m - 1, i + 1 <= m - 1
      PROVE  Follows(S, tl[i], f[i], p[i], f[i + 1], p[i + 1])
  <2> DEFINE j == i + 1
  <2>1. j \in 1 .. m /\ j + 1 <= m /\ j \in 1 .. m - 1 BY <1>1, <1>9
  <2>2. Follows(S, ln[j], fr[j], pl[j], fr[j + 1], pl[j + 1]) BY <1>2, <2>1
  <2>3. tl[i] = ln[j] /\ f[i] = fr[j] /\ p[i] = pl[j] BY <1>1, <1>3
  <2>4. f[j] = fr[j + 1] /\ p[j] = pl[j + 1] BY <1>3, <2>1
  <2> QED BY <2>2, <2>3, <2>4
<1>10. tl = <<>> => E = Len(S)
  <2> SUFFICES ASSUME tl = <<>> PROVE E = Len(S) OBVIOUS
  <2>1. m = 1 BY <1>1
  <2>2. Complete(S, ln[1], fr[1], pl[1]) /\ fr[1] = Len(S) BY <1>2, <2>1
  <2>3. CASE pl[1] = 0 BY <1>2, <2>2, <2>3
  <2>4. CASE pl[1] # 0 BY <1>2, <1>5, <2>2, <2>4 DEF Complete
  <2> QED BY <2>3, <2>4
<1>11. tl # <<>> => E = (IF p[1] = 0 THEN f[1] ELSE f[1] - 1)
  <2> SUFFICES ASSUME tl # <<>> PROVE E = (IF p[1] = 0 THEN f[1] ELSE f[1] - 1) OBVIOUS
  <2>1. 1 \in 1 .. m - 1 /\ m >= 2 BY <1>1
  <2>2. f[1] = fr[2] /\ p[1] = pl[2] BY <1>3, <2>1
  <2>3. Follows(S, ln[1], fr[1], pl[1], fr[2], pl[2]) BY <1>1, <1>2, <2>1
  <2>4. fr[1] \in 0 .. Len(S) /\ fr[2] \in 0 .. Len(S) /\ pl[1] \in Nat /\ pl[2] \in Nat
    BY <1>1, <1>2, <2>1
  <2> HIDE DEF E
  <2>5. pl[1] # 0 => Closing(S, fr[1]) \in Nat BY <1>6, ClosingFacts
  <2>6. E = (IF pl[1] >= 1 /\ pl[1] = Closing(S, fr[1]) THEN D + 1 ELSE D) BY DEF E
  <2>7. D = (IF pl[1] = 0 THEN fr[1] ELSE fr[1] - 1) BY <1>2
  <2>8. CASE pl[1] = 0 BY <2>2, <2>3, <2>4, <2>6, <2>7, <2>8 DEF Follows, Complete
  <2>9. CASE pl[1] # 0 /\ pl[1] = Closing(S, fr[1])
    BY <2>2, <2>3, <2>4, <2>5, <2>6, <2>7, <2>9 DEF Follows, Complete
  <2>10. CASE pl[1] # 0 /\ pl[1] # Closing(S, fr[1])
    BY <2>2, <2>3, <2>4, <2>5, <2>6, <2>7, <2>10 DEF Follows, Complete
  <2> QED BY <2>8, <2>9, <2>10
<1>12. tl # <<>> => Complete(S, tl[m - 1], f[m - 1], p[m - 1]) /\ f[m - 1] = Len(S)
  <2> SUFFICES ASSUME tl # <<>>
               PROVE  Complete(S, tl[m - 1], f[m - 1], p[m - 1]) /\ f[m - 1] = Len(S)
    OBVIOUS
  <2> DEFINE j == m - 1
  <2>1. j \in 1 .. m - 1 /\ j + 1 = m BY <1>1
  <2>2. tl[j] = ln[m] /\ f[j] = fr[m] /\ p[j] = pl[m] BY <1>1, <1>3, <2>1
  <2> QED BY <1>2, <2>2
<1>13. ASSUME NEW k \in 1 .. Len(S), k > E
       PROVE  \E i \in 1 .. m - 1 : f[i] = k /\ p[i] = Closing(S, k)
  <2>1. k > D BY <1>2, <1>13
  <2>2. PICK i \in 1 .. m : fr[i] = k /\ pl[i] = Closing(S, k) BY <1>2, <2>1
  <2>3. i # 1
    <3> SUFFICES ASSUME i = 1 PROVE FALSE OBVIOUS
    <3>1. Closing(S, k) >= 3 /\ Closing(S, k) \in Nat BY ClosingFacts
    <3>2. pl[1] >= 1 /\ pl[1] = Closing(S, fr[1]) /\ fr[1] = k /\ pl[1] # 0 BY <2>2, <3>1
    <3>3. E = D + 1 /\ D = k - 1 BY <1>2, <3>2
    <3> QED BY <1>2, <1>13, <3>3
  <2> DEFINE j == i - 1
  <2>4. j \in 1 .. m - 1 /\ j + 1 = i BY <1>1, <2>3
  <2>5. f[j] = fr[i] /\ p[j] = pl[i] BY <1>3, <2>4
  <2> QED BY <2>2, <2>4, <2>5
<1> HIDE DEF E
<1>14. Stream(S, tl, E, f, p)
  <2>1. Len(tl) = m - 1 BY <1>1
  <2>2. tl # <<>> => Complete(S, tl[Len(tl)], f[Len(tl)], p[Len(tl)]) /\ f[Len(tl)] = Len(S)
    BY <1>12, <2>1
  <2> QED BY <1>4, <1>7, <1>8, <1>9, <1>10, <1>11, <1>13, <2>1, <2>2 DEF Stream
<1> QED BY <1>14 DEF E, tl, m, f, p

\* What is sent after it, a frame or a text.
Added(S, T, add, a, b) ==
  /\ T \in Seq(FrameSent) /\ Len(S) <= Len(T) /\ \A k \in 1 .. Len(S) : T[k] = S[k]
  /\ add \in Seq(OnLine) /\ Len(add) >= 1
  /\ a \in [1 .. Len(add) -> 0 .. Len(T)] /\ b \in [1 .. Len(add) -> Nat]
  /\ \A i \in 1 .. Len(add) : Placed(T, add[i], a[i], b[i])
  /\ \A i \in 1 .. Len(add) :
       i + 1 <= Len(add) => Follows(T, add[i], a[i], b[i], a[i + 1], b[i + 1])
  /\ Complete(T, add[Len(add)], a[Len(add)], b[Len(add)]) /\ a[Len(add)] = Len(T)
  /\ (b[1] = 0 /\ a[1] = Len(S)) \/ (b[1] = 1 /\ a[1] = Len(S) + 1)
  /\ \A k \in 1 .. Len(T) : k > Len(S) => \E i \in 1 .. Len(add) : a[i] = k /\ b[i] = Closing(T, k)

Joint(f, m, g, n) == [i \in 1 .. m + n |-> IF i <= m THEN f[i] ELSE g[i - m]]

LEMMA JoinedLines ==
  ASSUME NEW T, NEW x \in Seq(T), NEW y \in Seq(T)
  PROVE  /\ x \o y \in Seq(T) /\ Len(x \o y) = Len(x) + Len(y) /\ Len(x) \in Nat /\ Len(y) \in Nat
         /\ \A i \in 1 .. Len(x) : (x \o y)[i] = x[i]
         /\ \A i \in 1 .. Len(y) : (x \o y)[Len(x) + i] = y[i]
<1> DEFINE z == x \o y
           m == Len(x)
           n == Len(y)
<1>1. z \in Seq(T) /\ Len(z) = m + n /\ m \in Nat /\ n \in Nat /\ \A i \in 1 .. m : z[i] = x[i]
  OBVIOUS
<1>2. \A i \in 1 .. m + n : i > m => z[i] = y[i - m] OBVIOUS
<1>3. \A i \in 1 .. n : m + i \in 1 .. m + n /\ m + i > m /\ (m + i) - m = i BY <1>1
<1> HIDE DEF z, m, n
<1>4. \A i \in 1 .. n : z[m + i] = y[i] BY <1>2, <1>3
<1> QED BY <1>1, <1>4 DEF z, m, n

LEMMA StreamLonger ==
  ASSUME NEW S \in Seq(FrameSent), NEW ln \in Seq(OnLine), NEW D, NEW fr, NEW pl,
         Stream(S, ln, D, fr, pl),
         NEW T, NEW add, NEW a, NEW b, Added(S, T, add, a, b)
  PROVE  Stream(T, ln \o add, D, Joint(fr, Len(ln), a, Len(add)), Joint(pl, Len(ln), b, Len(add)))
<1> DEFINE m == Len(ln)
           n == Len(add)
           ln2 == ln \o add
           f == Joint(fr, m, a, n)
           p == Joint(pl, m, b, n)
           LS == Len(S)
           LT == Len(T)
<1>1. /\ T \in Seq(FrameSent) /\ LS <= LT /\ \A k \in 1 .. LS : T[k] = S[k]
      /\ add \in Seq(OnLine) /\ n >= 1
      /\ a \in [1 .. n -> 0 .. LT] /\ b \in [1 .. n -> Nat]
      /\ \A i \in 1 .. n : Placed(T, add[i], a[i], b[i])
      /\ \A i \in 1 .. n : i + 1 <= n => Follows(T, add[i], a[i], b[i], a[i + 1], b[i + 1])
      /\ Complete(T, add[n], a[n], b[n]) /\ a[n] = LT
      /\ (b[1] = 0 /\ a[1] = LS) \/ (b[1] = 1 /\ a[1] = LS + 1)
      /\ \A k \in 1 .. LT : k > LS => \E i \in 1 .. n : a[i] = k /\ b[i] = Closing(T, k)
  BY DEF Added
<1>2. /\ D \in 0 .. LS
      /\ fr \in [1 .. m -> 0 .. LS] /\ pl \in [1 .. m -> Nat]
      /\ \A i \in 1 .. m : Placed(S, ln[i], fr[i], pl[i])
      /\ \A i \in 1 .. m : i + 1 <= m => Follows(S, ln[i], fr[i], pl[i], fr[i + 1], pl[i + 1])
      /\ ln = <<>> => D = LS
      /\ ln # <<>> => /\ D = (IF pl[1] = 0 THEN fr[1] ELSE fr[1] - 1)
                      /\ Complete(S, ln[m], fr[m], pl[m]) /\ fr[m] = LS
      /\ \A k \in 1 .. LS : k > D => \E i \in 1 .. m : fr[i] = k /\ pl[i] = Closing(S, k)
  BY DEF Stream
<1>3. LS \in Nat /\ LT \in Nat /\ m \in Nat /\ n \in Nat /\ (ln # <<>> => m >= 1) /\ (ln = <<>> => m = 0)
  BY <1>1
<1>4. /\ ln2 \in Seq(OnLine) /\ Len(ln2) = m + n
      /\ \A i \in 1 .. m : ln2[i] = ln[i]
      /\ \A i \in 1 .. n : ln2[m + i] = add[i]
  BY <1>1, JoinedLines
<1>5. /\ \A i \in 1 .. m : f[i] = fr[i] /\ p[i] = pl[i]
      /\ \A i \in 1 .. n : f[m + i] = a[i] /\ p[m + i] = b[i]
  <2>1. \A i \in 1 .. m : i \in 1 .. m + n /\ i <= m BY <1>3
  <2>2. \A i \in 1 .. n : m + i \in 1 .. m + n /\ ~ (m + i <= m) /\ (m + i) - m = i BY <1>3
  <2> HIDE DEF m, n
  <2> QED BY <2>1, <2>2 DEF Joint
<1>6. DOMAIN f = 1 .. m + n /\ DOMAIN p = 1 .. m + n BY DEF Joint
<1>7. f = [i \in 1 .. m + n |-> f[i]] /\ p = [i \in 1 .. m + n |-> p[i]] BY DEF Joint
<1>8. \A k \in 1 .. LS : Closing(T, k) = Closing(S, k) BY <1>1 DEF Closing
<1>b. \A k \in 1 .. LS : Closing(S, k) \in Nat /\ Closing(S, k) >= 3 BY ClosingFacts
<1> HIDE DEF m, n, ln2, f, p, LS, LT
<1>9. \A i \in 1 .. m + n : i \in 1 .. m \/ \E j \in 1 .. n : i = m + j
  <2>1. TAKE i \in 1 .. m + n
  <2>2. CASE i <= m BY <1>3, <2>2
  <2>3. CASE ~ (i <= m)
    <3>1. i - m \in 1 .. n /\ i = m + (i - m) BY <1>3, <2>3
    <3> QED BY <3>1
  <2> QED BY <2>2, <2>3
<1>10. ASSUME NEW i \in 1 .. m + n
       PROVE  f[i] \in 0 .. LT /\ p[i] \in Nat /\ Placed(T, ln2[i], f[i], p[i])
  <2>1. CASE i \in 1 .. m
    <3>1. fr[i] \in 0 .. LS /\ pl[i] \in Nat /\ Placed(S, ln[i], fr[i], pl[i]) BY <1>2, <2>1
    <3>2. Placed(T, ln[i], fr[i], pl[i])
      <4>1. CASE pl[i] = 0 BY <3>1, <4>1 DEF Placed
      <4>2. CASE pl[i] # 0
        <5>1. fr[i] \in 1 .. LS BY <1>3, <3>1, <4>2 DEF Placed
        <5>2. T[fr[i]] = S[fr[i]] /\ Closing(T, fr[i]) = Closing(S, fr[i]) BY <1>1, <1>8, <5>1
        <5> QED BY <3>1, <4>2, <5>2 DEF Placed
      <4> QED BY <4>1, <4>2
    <3>3. ln2[i] = ln[i] /\ f[i] = fr[i] /\ p[i] = pl[i] BY <1>4, <1>5, <2>1
    <3>4. fr[i] \in 0 .. LT BY <1>1, <1>3, <3>1
    <3> QED BY <3>1, <3>2, <3>3, <3>4
  <2>2. ASSUME NEW j \in 1 .. n, i = m + j
        PROVE  f[i] \in 0 .. LT /\ p[i] \in Nat /\ Placed(T, ln2[i], f[i], p[i])
    <3>1. a[j] \in 0 .. LT /\ b[j] \in Nat /\ Placed(T, add[j], a[j], b[j]) BY <1>1
    <3>2. ln2[m + j] = add[j] /\ f[m + j] = a[j] /\ p[m + j] = b[j] BY <1>4, <1>5
    <3> QED BY <2>2, <3>1, <3>2
  <2> QED BY <1>9, <2>1, <2>2
\* The last of the old part is complete in T too.
<1>11. ln # <<>> => Complete(T, ln[m], fr[m], pl[m]) /\ fr[m] = LS
  <2> SUFFICES ASSUME ln # <<>> PROVE Complete(T, ln[m], fr[m], pl[m]) /\ fr[m] = LS OBVIOUS
  <2>1. Complete(S, ln[m], fr[m], pl[m]) /\ fr[m] = LS BY <1>2
  <2>2. fr[m] >= 1 => fr[m] \in 1 .. LS BY <1>3, <2>1
  <2>3. fr[m] >= 1 => Closing(T, fr[m]) = Closing(S, fr[m]) BY <1>8, <2>2
  <2> QED BY <2>1, <2>3 DEF Complete
<1>12. ASSUME NEW i \in 1 .. m + n, i + 1 <= m + n
       PROVE  Follows(T, ln2[i], f[i], p[i], f[i + 1], p[i + 1])
  <2>1. CASE i \in 1 .. m /\ i # m
    <3>1. i + 1 \in 1 .. m /\ i + 1 <= m BY <1>3, <2>1
    <3>2. Follows(S, ln[i], fr[i], pl[i], fr[i + 1], pl[i + 1]) BY <1>2, <2>1, <3>1
    <3>3. fr[i] \in 0 .. LS /\ pl[i] \in Nat /\ Placed(S, ln[i], fr[i], pl[i]) BY <1>2, <2>1
    <3>4. pl[i] # 0 => Closing(T, fr[i]) = Closing(S, fr[i])
      <4>1. pl[i] # 0 => fr[i] \in 1 .. LS BY <1>3, <3>3 DEF Placed
      <4> QED BY <1>8, <4>1
    <3>5. Follows(T, ln[i], fr[i], pl[i], fr[i + 1], pl[i + 1])
      BY <3>2, <3>3, <3>4 DEF Follows, Complete
    <3>6. ln2[i] = ln[i] /\ f[i] = fr[i] /\ p[i] = pl[i] BY <1>4, <1>5, <2>1
    <3>7. f[i + 1] = fr[i + 1] /\ p[i + 1] = pl[i + 1] BY <1>5, <3>1
    <3> QED BY <3>5, <3>6, <3>7
  <2>2. CASE i = m
    <3>1. m \in 1 .. m /\ m >= 1 /\ ln # <<>> /\ 1 \in 1 .. n BY <1>1, <1>3, <2>2
    <3>2. ln2[m] = ln[m] /\ f[m] = fr[m] /\ p[m] = pl[m] BY <1>4, <1>5, <3>1
    <3>3. f[m + 1] = a[1] /\ p[m + 1] = b[1] BY <1>5, <3>1
    <3>4. Complete(T, ln[m], fr[m], pl[m]) /\ fr[m] = LS BY <1>11, <3>1
    <3>5. Follows(T, ln[m], fr[m], pl[m], a[1], b[1]) BY <1>1, <3>4 DEF Follows
    <3> QED BY <2>2, <3>2, <3>3, <3>5
  <2>3. ASSUME NEW j \in 1 .. n, i = m + j
        PROVE  Follows(T, ln2[i], f[i], p[i], f[i + 1], p[i + 1])
    <3>1. j + 1 \in 1 .. n /\ j + 1 <= n /\ i + 1 = m + (j + 1) BY <1>3, <1>12, <2>3
    <3>2. Follows(T, add[j], a[j], b[j], a[j + 1], b[j + 1]) BY <1>1, <3>1
    <3>3. ln2[m + j] = add[j] /\ f[m + j] = a[j] /\ p[m + j] = b[j] BY <1>4, <1>5
    <3>4. f[m + (j + 1)] = a[j + 1] /\ p[m + (j + 1)] = b[j + 1] BY <1>5, <3>1
    <3> QED BY <2>3, <3>1, <3>2, <3>3, <3>4
  <2> QED BY <1>9, <2>1, <2>2, <2>3
<1>13. ln2 # <<>> /\ n \in 1 .. n /\ 1 \in 1 .. n BY <1>1, <1>3, <1>4
<1>14. D = (IF p[1] = 0 THEN f[1] ELSE f[1] - 1)
  <2>1. CASE ln = <<>>
    <3>1. m = 0 /\ D = LS BY <1>2, <1>3, <2>1
    <3>2. f[0 + 1] = a[1] /\ p[0 + 1] = b[1] BY <1>5, <1>13, <3>1
    <3>3. f[1] = a[1] /\ p[1] = b[1] BY <3>2
    <3>4. (b[1] = 0 /\ a[1] = LS) \/ (b[1] = 1 /\ a[1] = LS + 1) BY <1>1
    <3> QED BY <1>3, <3>1, <3>3, <3>4
  <2>2. CASE ln # <<>>
    <3>1. 1 \in 1 .. m BY <1>3, <2>2
    <3> QED BY <1>2, <1>5, <2>2, <3>1
  <2> QED BY <2>1, <2>2
<1>15. Complete(T, ln2[m + n], f[m + n], p[m + n]) /\ f[m + n] = LT
  BY <1>1, <1>4, <1>5, <1>13
<1>16. ASSUME NEW k \in 1 .. LT, k > D
       PROVE  \E i \in 1 .. m + n : f[i] = k /\ p[i] = Closing(T, k)
  <2>1. CASE k <= LS
    <3>1. k \in 1 .. LS BY <1>3, <2>1
    <3>2. PICK i \in 1 .. m : fr[i] = k /\ pl[i] = Closing(S, k) BY <1>2, <1>16, <3>1
    <3>3. i \in 1 .. m + n /\ f[i] = k /\ p[i] = Closing(T, k) BY <1>3, <1>5, <1>8, <3>1, <3>2
    <3> QED BY <3>3
  <2>2. CASE ~ (k <= LS)
    <3>a. k > LS BY <1>3, <2>2
    <3>b. \A q \in 1 .. LT : q > LS => \E i \in 1 .. n : a[i] = q /\ b[i] = Closing(T, q) BY <1>1
    <3>1. PICK i \in 1 .. n : a[i] = k /\ b[i] = Closing(T, k) BY <3>a, <3>b
    <3>2. m + i \in 1 .. m + n /\ f[m + i] = k /\ p[m + i] = Closing(T, k) BY <1>3, <1>5, <3>1
    <3> QED BY <3>2
  <2> QED BY <2>1, <2>2
<1>17. D \in 0 .. LT BY <1>1, <1>2, <1>3
<1>18. f \in [1 .. m + n -> 0 .. LT] /\ p \in [1 .. m + n -> Nat] BY <1>7, <1>10
<1>19. Stream(T, ln2, D, f, p)
  <2>1. \A i \in 1 .. m + n : Placed(T, ln2[i], f[i], p[i]) BY <1>10
  <2> QED BY <1>4, <1>12, <1>13, <1>14, <1>15, <1>16, <1>17, <1>18, <2>1 DEF Stream, LT
<1> QED BY <1>19 DEF ln2, f, p, m, n

LEMMA OfFrameFacts ==
  ASSUME NEW k \in Nat, NEW octets \in Seq(Octets)
  PROVE  /\ OfFrame(k, octets) \in Seq(OnLine) /\ Len(OfFrame(k, octets)) = Len(octets)
         /\ Len(octets) \in Nat
         /\ \A i \in 1 .. Len(octets) : OfFrame(k, octets)[i] = [o |-> octets[i], of |-> k]
<1>1. DOMAIN octets = 1 .. Len(octets) /\ Len(octets) \in Nat OBVIOUS
<1>2. \A i \in 1 .. Len(octets) : octets[i] \in Octets OBVIOUS
<1>3. OfFrame(k, octets) \in [1 .. Len(octets) -> OnLine] BY <1>1, <1>2 DEF OfFrame, OnLine
<1>4. OfFrame(k, octets) \in Seq(OnLine) /\ Len(OfFrame(k, octets)) = Len(octets)
  <2> DEFINE g == OfFrame(k, octets)
  <2> HIDE DEF g
  <2>1. g \in [1 .. Len(octets) -> OnLine] BY <1>3 DEF g
  <2>2. g \in Seq(OnLine) /\ Len(g) = Len(octets) BY <1>1, <2>1
  <2> QED BY <2>2 DEF g
<1> QED BY <1>1, <1>4 DEF OfFrame

LEMMA AddedFrame ==
  ASSUME NEW S \in Seq(FrameSent), NEW rec \in FrameSent
  PROVE  LET F == Framed(rec.content)
         IN  Added(S, Append(S, rec), OfFrame(Len(S) + 1, F),
                   [i \in 1 .. Len(F) |-> Len(S) + 1], [i \in 1 .. Len(F) |-> i])
<1> DEFINE F == Framed(rec.content)
           n == Len(F)
           K == Len(S) + 1
           T == Append(S, rec)
           add == OfFrame(K, F)
           a == [i \in 1 .. n |-> K]
           b == [i \in 1 .. n |-> i]
<1>1. rec.content \in Contents BY DEF FrameSent
<1>2. n \in Nat /\ n >= 3 /\ F \in Seq(Octets) BY <1>1, LastOctet
<1>3. Len(S) \in Nat /\ K \in Nat /\ K >= 1 OBVIOUS
<1>4. /\ T \in Seq(FrameSent) /\ Len(T) = K /\ T[K] = rec /\ \A k \in 1 .. Len(S) : T[k] = S[k]
  OBVIOUS
<1>5. add \in Seq(OnLine) /\ Len(add) = n /\ \A i \in 1 .. n : add[i] = [o |-> F[i], of |-> K]
  BY <1>2, <1>3, OfFrameFacts
<1>6. Closing(T, K) = n BY <1>4 DEF Closing
<1>7. a \in [1 .. n -> 0 .. K] /\ b \in [1 .. n -> Nat] /\ \A i \in 1 .. n : a[i] = K /\ b[i] = i
  BY <1>2, <1>3
<1> HIDE DEF F, n, K, T, add, a, b
<1>8. \A i \in 1 .. n : Placed(T, add[i], a[i], b[i])
  <2>1. TAKE i \in 1 .. n
  <2>2. i # 0 /\ i <= n BY <1>2
  <2>3. F = Framed(T[K].content) BY <1>4 DEF F
  <2>4. add[i].of = K /\ add[i].o = F[i] BY <1>5
  <2> QED BY <1>3, <1>6, <1>7, <2>2, <2>3, <2>4 DEF Placed
<1>9. \A i \in 1 .. n : i + 1 <= n => Follows(T, add[i], a[i], b[i], a[i + 1], b[i + 1])
  <2>1. TAKE i \in 1 .. n
  <2>2. HAVE i + 1 <= n
  <2>3. i + 1 \in 1 .. n /\ i >= 1 /\ i < n BY <1>2, <2>2
  <2> QED BY <1>6, <1>7, <2>3 DEF Follows
<1>10. n \in 1 .. n /\ 1 \in 1 .. n BY <1>2
<1>11. Complete(T, add[n], a[n], b[n]) BY <1>2, <1>3, <1>6, <1>7, <1>10 DEF Complete
<1>12. \A k \in 1 .. K : k > Len(S) => \E i \in 1 .. n : a[i] = k /\ b[i] = Closing(T, k)
  <2>1. TAKE k \in 1 .. K
  <2>2. HAVE k > Len(S)
  <2>3. k = K BY <1>3, <2>2 DEF K
  <2> QED BY <1>6, <1>7, <1>10, <2>3
<1>13. a[1] = Len(S) + 1 /\ b[1] = 1 BY <1>7, <1>10 DEF K
<1>14. Len(S) <= K BY <1>3 DEF K
<1>15. Added(S, T, add, a, b)
  <2>1. Len(T) = K /\ Len(add) = n BY <1>4, <1>5
  <2> QED BY <1>2, <1>4, <1>5, <1>7, <1>8, <1>9, <1>10, <1>11, <1>12, <1>13, <1>14, <2>1 DEF Added
<1> QED BY <1>15 DEF F, n, K, T, add, a, b

LEMMA AddedText ==
  ASSUME NEW S \in Seq(FrameSent), NEW text \in Texts, text # <<>>
  PROVE  Added(S, S, OfFrame(0, text),
               [i \in 1 .. Len(text) |-> Len(S)], [i \in 1 .. Len(text) |-> 0])
<1> DEFINE n == Len(text)
           K == Len(S)
           add == OfFrame(0, text)
           a == [i \in 1 .. n |-> K]
           b == [i \in 1 .. n |-> 0]
<1>1. text \in Seq(Octets) /\ text[n] # Escape BY FramingAssumption
<1>2. n \in Nat /\ n >= 1 BY <1>1
<1>3. K \in Nat OBVIOUS
<1>5. add \in Seq(OnLine) /\ Len(add) = n /\ \A i \in 1 .. n : add[i] = [o |-> text[i], of |-> 0]
  BY <1>1, OfFrameFacts
<1>7. a \in [1 .. n -> 0 .. K] /\ b \in [1 .. n -> Nat] /\ \A i \in 1 .. n : a[i] = K /\ b[i] = 0
  BY <1>2, <1>3
<1> HIDE DEF n, add, a, b
<1>8. \A i \in 1 .. n : Placed(S, add[i], a[i], b[i])
  <2>1. \A i \in 1 .. n : add[i].of = 0 BY <1>5
  <2> QED BY <1>7, <2>1 DEF Placed
<1>9. \A i \in 1 .. n : i + 1 <= n => Follows(S, add[i], a[i], b[i], a[i + 1], b[i + 1])
  <2>1. TAKE i \in 1 .. n
  <2>2. HAVE i + 1 <= n
  <2>3. i + 1 \in 1 .. n BY <1>2, <2>2
  <2> QED BY <1>7, <2>3 DEF Follows
<1>10. n \in 1 .. n /\ 1 \in 1 .. n BY <1>2
<1>11. Complete(S, add[n], a[n], b[n])
  <2>1. add[n].o = text[n] BY <1>5, <1>10
  <2> QED BY <1>1, <1>7, <1>10, <2>1 DEF Complete
<1>12. \A k \in 1 .. K : ~ (k > Len(S)) BY <1>3
<1>13. a[1] = Len(S) /\ b[1] = 0 BY <1>7, <1>10
<1>14. Added(S, S, add, a, b)
  <2>1. Len(add) = n BY <1>5
  <2> QED BY <1>2, <1>3, <1>5, <1>7, <1>8, <1>9, <1>10, <1>11, <1>12, <1>13, <2>1 DEF Added
<1> QED BY <1>14 DEF n, add, a, b

----------------------------------------------------------------------------
(* Receiving                                                               *)

InBuffer == [o : Octets \cup {"00"}, of : Nat]
Receiver == [esc : BOOLEAN, overflow : BOOLEAN, len : Nat]

FramingTypes ==
  /\ side \in {"mote", "PC"} /\ sent \in Seq(FrameSent) /\ line \in Seq(OnLine)
  /\ hits \in Seq(Nat) /\ Len(hits) = Len(sent)
  /\ rx \in Receiver /\ buf \in [{1, 2} -> [1 .. MaxLen -> InBuffer]] /\ cur \in {1, 2}

\* Octet o is put into the buffer.
PutInBuffer(o) ==
  /\ rx' = [esc |-> FALSE, overflow |-> FALSE, len |-> rx.len + 1] /\ UNCHANGED <<cur, events>>
  /\ buf' = [buf EXCEPT ![cur] = [@ EXCEPT ![rx.len + 1] = o]]

LEMMA StoreFacts ==
  ASSUME FramingTypes, NEW octet \in InBuffer, Store(octet)
  PROVE  /\ rx' \in Receiver /\ buf' \in [{1, 2} -> [1 .. MaxLen -> InBuffer]]
         /\ cur' = cur /\ ~ rx'.esc /\ found' = found /\ events' = events
         /\ ~ rx.overflow /\ rx.len < MaxLen => PutInBuffer(octet)
<1>1. MaxLen \in Nat /\ rx \in Receiver /\ rx.len \in Nat /\ cur \in {1, 2} /\ rx.overflow \in BOOLEAN
  BY FramingAssumption DEF FramingTypes, Receiver
<1>2. buf \in [{1, 2} -> [1 .. MaxLen -> InBuffer]] BY DEF FramingTypes
<1>3. 3 - cur \in {1, 2} BY <1>1
<1>4. Write(octet) => buf' \in [{1, 2} -> [1 .. MaxLen -> InBuffer]]
  <2>1. ASSUME NEW c \in {1, 2}, NEW j
        PROVE  [buf EXCEPT ![c][j] = octet] \in [{1, 2} -> [1 .. MaxLen -> InBuffer]]
    <3>1. [buf[c] EXCEPT ![j] = octet] \in [1 .. MaxLen -> InBuffer] BY <1>2
    <3> QED BY <1>2, <3>1
  <2>2. [buf EXCEPT ![cur][rx.len + 1] = octet] \in [{1, 2} -> [1 .. MaxLen -> InBuffer]] BY <1>1, <2>1
  <2>3. [buf EXCEPT ![3 - cur][(rx.len + 1) - MaxLen] = octet] \in [{1, 2} -> [1 .. MaxLen -> InBuffer]]
    BY <1>3, <2>1
  <2> DEFINE Bufs == [{1, 2} -> [1 .. MaxLen -> InBuffer]]
  <2>4. buf \in Bufs BY <1>2
  <2> HIDE DEF Bufs
  <2>5. Write(octet) => \/ buf' = [buf EXCEPT ![cur][rx.len + 1] = octet]
                        \/ buf' = buf
                        \/ buf' = [buf EXCEPT ![3 - cur][(rx.len + 1) - MaxLen] = octet]
    BY DEF Write
  <2>6. Write(octet) => buf' \in Bufs
    <3>1. buf' = [buf EXCEPT ![cur][rx.len + 1] = octet] => buf' \in Bufs BY <2>2 DEF Bufs
    <3>2. buf' = [buf EXCEPT ![3 - cur][(rx.len + 1) - MaxLen] = octet] => buf' \in Bufs BY <2>3 DEF Bufs
    <3> QED BY <2>4, <2>5, <3>1, <3>2
  <2> QED BY <2>6 DEF Bufs
<1>5. /\ Write(octet) \/ buf' = buf
      /\ rx' = [rx EXCEPT !.esc = FALSE, !.len = @ + 1]
         \/ rx' = [rx EXCEPT !.esc = FALSE, !.overflow = TRUE] \/ rx' = [rx EXCEPT !.esc = FALSE]
      /\ rx.len < MaxLen => Write(octet) /\ rx' = [rx EXCEPT !.esc = FALSE, !.len = @ + 1]
      /\ cur' = cur /\ events' = events /\ found' = found
  BY <1>1 DEF Store, StoreOnMote, StoreOnPC
<1>6. rx' \in Receiver /\ ~ rx'.esc
  <2>1. CASE rx' = [rx EXCEPT !.esc = FALSE, !.len = @ + 1]
    <3>1. rx' = [esc |-> FALSE, overflow |-> rx.overflow, len |-> rx.len + 1]
      BY <1>1, <2>1 DEF Receiver
    <3>2. rx.len + 1 \in Nat BY <1>1
    <3> QED BY <1>1, <3>1, <3>2 DEF Receiver
  <2>2. CASE rx' = [rx EXCEPT !.esc = FALSE, !.overflow = TRUE] BY <1>1, <2>2 DEF Receiver
  <2>3. CASE rx' = [rx EXCEPT !.esc = FALSE] BY <1>1, <2>3 DEF Receiver
  <2> QED BY <1>5, <2>1, <2>2, <2>3
<1>7. ~ rx.overflow /\ rx.len < MaxLen => PutInBuffer(octet)
  <2> SUFFICES ASSUME ~ rx.overflow, rx.len < MaxLen PROVE PutInBuffer(octet) OBVIOUS
  <2>1. rx.len + 1 <= MaxLen BY <1>1
  <2>2. buf' = [buf EXCEPT ![cur][rx.len + 1] = octet] BY <1>5, <2>1 DEF Write
  <2>3. rx' = [esc |-> FALSE, overflow |-> FALSE, len |-> rx.len + 1] BY <1>1, <1>5 DEF Receiver
  <2> QED BY <1>5, <2>2, <2>3 DEF PutInBuffer
<1> QED BY <1>2, <1>4, <1>5, <1>6, <1>7

LEMMA ReceiveFacts ==
  ASSUME FramingTypes, ReceiveOctet
  PROVE  /\ rx' \in Receiver /\ buf' \in [{1, 2} -> [1 .. MaxLen -> InBuffer]] /\ cur' \in {1, 2}
         /\ found \subseteq found'
         /\ Head(line).o # Escape => ~ rx'.esc
         /\ Head(line).o = Boundary /\ ~ rx.esc => rx' = Reset
         /\ Head(line).o = Boundary /\ ~ rx.esc /\ ~ rx.overflow /\ rx.len >= HeaderLen => FrameEnds
         /\ Head(line).o # Boundary /\ ~ rx.overflow /\ rx.len < MaxLen
              => /\ rx.esc => PutInBuffer([Head(line) EXCEPT !.o = Inverted(Head(line).o)])
                 /\ ~ rx.esc /\ Head(line).o # Escape => PutInBuffer(Head(line))
                 /\ ~ rx.esc /\ Head(line).o = Escape
                      => rx' = [rx EXCEPT !.esc = TRUE] /\ UNCHANGED <<buf, cur, events>>
         /\ Head(line).o = Boundary /\ ~ rx.esc /\ ~ rx.overflow /\ rx.len < HeaderLen
              => UNCHANGED <<buf, cur, events>>
<1> DEFINE h == Head(line)
           h2 == [h EXCEPT !.o = Inverted(h.o)]
<1>1. /\ line \in Seq(OnLine) /\ line # <<>> /\ rx \in Receiver /\ cur \in {1, 2}
      /\ buf \in [{1, 2} -> [1 .. MaxLen -> InBuffer]] /\ rx.len \in Nat /\ HeaderLen \in Nat
      /\ rx.esc \in BOOLEAN /\ rx.overflow \in BOOLEAN
  BY FramingAssumption DEF FramingTypes, Receiver, ReceiveOctet
<1>2. h \in OnLine BY <1>1
<1>3. h \in InBuffer /\ h2 \in InBuffer BY <1>2, InvertedFacts DEF OnLine, InBuffer
<1>4. Reset \in Receiver /\ ~ Reset.esc BY DEF Receiver, Reset
<1>5. Boundary # Escape BY DEF Boundary, Escape
<1>6. IF h.o = Boundary THEN TakeBoundary(h) ELSE TakeData(h) BY DEF ReceiveOctet
<1> HIDE DEF h, h2
<1>7. CASE h.o = Boundary
  <2>1. TakeBoundary(h) BY <1>6, <1>7
  <2>2. CASE rx.esc /\ side = "PC" /\ Store(h) BY <1>1, <1>3, <1>5, <1>7, <2>2, StoreFacts DEF h
  <2>3. CASE /\ rx.esc /\ side = "mote" /\ rx' = [rx EXCEPT !.esc = FALSE]
             /\ UNCHANGED <<buf, cur, events, found>>
    <3>1. rx' \in Receiver /\ ~ rx'.esc BY <1>1, <2>3 DEF Receiver
    <3> QED BY <1>1, <1>5, <1>7, <2>3, <3>1 DEF h
  <2>4. CASE ~ rx.esc /\ rx.overflow /\ Resync BY <1>1, <1>4, <1>5, <1>7, <2>4 DEF h, Resync
  <2>5. CASE ~ rx.esc /\ ~ rx.overflow /\ rx.len < HeaderLen /\ Resync
    BY <1>1, <1>4, <1>5, <1>7, <2>5 DEF h, Resync
  <2>6. CASE ~ rx.esc /\ ~ rx.overflow /\ rx.len >= HeaderLen /\ FrameEnds
    <3>1. rx' = Reset /\ buf' = buf /\ found \subseteq found' /\ cur' \in {1, 2}
      BY <1>1, <2>6 DEF FrameEnds, NextBuffer
    <3>2. ~ (rx.len < HeaderLen) BY <1>1, <2>6
    <3> QED BY <3>2, <1>1, <1>4, <1>5, <1>7, <2>6, <3>1 DEF h
  <2> QED BY <2>1, <2>2, <2>3, <2>4, <2>5, <2>6 DEF TakeBoundary
<1>8. CASE h.o # Boundary
  <2>1. TakeData(h) BY <1>6, <1>8
  <2>2. CASE rx.esc /\ Store(h2) BY <1>1, <1>3, <1>8, <2>2, StoreFacts DEF h, h2
  <2>3. CASE ~ rx.esc /\ h.o = Escape /\ rx' = [rx EXCEPT !.esc = TRUE]
             /\ UNCHANGED <<buf, cur, events, found>>
    <3>1. rx' \in Receiver BY <1>1, <2>3 DEF Receiver
    <3> QED BY <1>1, <1>8, <2>3, <3>1 DEF h
  <2>4. CASE ~ rx.esc /\ h.o # Escape /\ Store(h) BY <1>1, <1>3, <1>8, <2>4, StoreFacts DEF h
  <2>5. \/ rx.esc /\ Store(h2)
        \/ /\ ~ rx.esc /\ h.o = Escape /\ rx' = [rx EXCEPT !.esc = TRUE]
           /\ UNCHANGED <<buf, cur, events, found>>
        \/ ~ rx.esc /\ h.o # Escape /\ Store(h)
    BY <2>1 DEF TakeData, h2
  <2> QED BY <2>2, <2>3, <2>4, <2>5
<1> QED BY <1>7, <1>8

----------------------------------------------------------------------------
(* Damage is local                                                         *)

\* Neither a frame nor the closing boundary and more of the one before is lost.
Intact(ht, k) == ht[k] = 0 /\ (k > 1 => ht[k - 1] <= 1)

\* The receiver is ready for the next frame, unless the one before lost two octets.
Clean(S, ln, ht, esc, D, fr, pl) ==
  /\ esc /\ (ln = <<>> \/ pl[1] = 1) => D >= 1 /\ ht[D] >= 2
  /\ esc /\ ln # <<>> /\ pl[1] >= 1 /\ pl[1] = Closing(S, fr[1]) => ht[fr[1]] >= 1

\* The first e octets of the k-th frame are taken, those before the last for a
\* part of its content.
HasTaken(content, k, e, r, bf, cr) ==
  \E n \in 0 .. Len(content) :
    /\ ~ r.overflow /\ r.len = n /\ Upto(content, n, r.esc, e)
    /\ \A i \in 1 .. n : bf[cr][i] = [o |-> content[i], of |-> k]

Taken(S, ln, ht, r, bf, cr, fr, pl) ==
  ln # <<>> /\ pl[1] >= 2 /\ Intact(ht, fr[1])
    => HasTaken(S[fr[1]].content, fr[1], pl[1] - 1, r, bf, cr)

Found(ht, fd, D) == \A k \in 1 .. D : Intact(ht, k) => k \in fd

Framing(D, fr, pl) ==
  /\ Stream(sent, line, D, fr, pl) /\ Clean(sent, line, hits, rx.esc, D, fr, pl)
  /\ Taken(sent, line, hits, rx, buf, cur, fr, pl) /\ Found(hits, found, D)

FramingInv == FramingTypes /\ \E D, fr, pl : Framing(D, fr, pl)

\* What the first octet on the line is, and what it is followed by.
LEMMA HeadOfLine ==
  ASSUME NEW S \in Seq(FrameSent), NEW ln \in Seq(OnLine), ln # <<>>, NEW D, NEW fr, NEW pl,
         Stream(S, ln, D, fr, pl)
  PROVE  LET k == fr[1]
             p == pl[1]
             f == Rest(fr, Len(ln))
             q == Rest(pl, Len(ln))
         IN  /\ k \in 0 .. Len(S) /\ p \in Nat /\ Placed(S, ln[1], k, p)
             /\ p # 0 => k \in 1 .. Len(S) /\ p <= Closing(S, k) /\ D = k - 1
             /\ Tail(ln) = <<>> => Complete(S, ln[1], k, p)
             /\ Tail(ln) # <<>> => /\ Follows(S, ln[1], k, p, f[1], q[1])
                                   /\ f[1] \in 0 .. Len(S) /\ q[1] \in Nat
                                   /\ q[1] # 0 => f[1] >= 1 /\ f[1] \in 1 .. Len(S)
<1> DEFINE m == Len(ln)
           f == Rest(fr, m)
           q == Rest(pl, m)
<1>1. m \in Nat /\ m >= 1 BY TailFacts
<1>t. (Tail(ln) = <<>> => m = 1) /\ (Tail(ln) # <<>> => m >= 2)
  <2> DEFINE t == Tail(ln)
  <2>1. t \in Seq(OnLine) /\ Len(t) = m - 1 BY TailFacts
  <2> HIDE DEF t, m
  <2>2. (t = <<>> => m = 1) /\ (t # <<>> => m >= 2) BY <1>1, <2>1
  <2> QED BY <2>2 DEF t
<1>2. /\ fr \in [1 .. m -> 0 .. Len(S)] /\ pl \in [1 .. m -> Nat]
      /\ \A i \in 1 .. m : Placed(S, ln[i], fr[i], pl[i])
      /\ \A i \in 1 .. m : i + 1 <= m => Follows(S, ln[i], fr[i], pl[i], fr[i + 1], pl[i + 1])
      /\ D = (IF pl[1] = 0 THEN fr[1] ELSE fr[1] - 1)
      /\ Complete(S, ln[m], fr[m], pl[m])
  BY DEF Stream
<1>3. 1 \in 1 .. m BY <1>1
<1>4. fr[1] \in 0 .. Len(S) /\ pl[1] \in Nat /\ Placed(S, ln[1], fr[1], pl[1]) BY <1>2, <1>3
<1>5. pl[1] # 0 => fr[1] \in 1 .. Len(S) /\ pl[1] <= Closing(S, fr[1]) /\ D = fr[1] - 1
  BY <1>2, <1>4 DEF Placed
<1>6. Tail(ln) = <<>> => Complete(S, ln[1], fr[1], pl[1])
  <2>1. Tail(ln) = <<>> => m = 1 BY <1>t
  <2> QED BY <1>2, <2>1
<1>7. ASSUME Tail(ln) # <<>>
      PROVE  /\ Follows(S, ln[1], fr[1], pl[1], f[1], q[1])
             /\ f[1] \in 0 .. Len(S) /\ q[1] \in Nat
             /\ q[1] # 0 => f[1] >= 1 /\ f[1] \in 1 .. Len(S)
  <2>1. m >= 2 BY <1>7, <1>t
  <2>2. 1 \in 1 .. m - 1 /\ 2 \in 1 .. m BY <1>1, <2>1
  <2>3. f[1] = fr[1 + 1] /\ q[1] = pl[1 + 1] BY <2>2 DEF Rest
  <2> HIDE DEF f, q
  <2>4. Follows(S, ln[1], fr[1], pl[1], f[1], q[1]) BY <1>2, <1>3, <2>1, <2>3
  <2>5. f[1] \in 0 .. Len(S) /\ q[1] \in Nat /\ Placed(S, ln[2], f[1], q[1]) BY <1>2, <2>2, <2>3
  <2>6. q[1] # 0 => f[1] >= 1 BY <2>5 DEF Placed
  <2> QED BY <2>4, <2>5, <2>6
<1> QED BY <1>4, <1>5, <1>6, <1>7

LEMMA CompleteOctet ==
  ASSUME NEW S \in Seq(FrameSent), NEW octet, NEW k \in 0 .. Len(S), NEW p \in Nat,
         Placed(S, octet, k, p), Complete(S, octet, k, p)
  PROVE  octet.o # Escape
<1>1. CASE p = 0 BY <1>1 DEF Complete
<1>2. CASE p # 0
  <2>1. k \in 1 .. Len(S) /\ p = Closing(S, k) /\ octet.o = Framed(S[k].content)[p]
    BY <1>2 DEF Placed, Complete
  <2>2. octet.o = Boundary BY <2>1, ClosingFacts
  <2> QED BY <2>2 DEF Boundary, Escape
<1> QED BY <1>1, <1>2

OtherKept == UNCHANGED <<cur, events>> /\ \A c \in {1, 2} : c # cur => buf'[c] = buf[c]

\* An intact frame is taken octet by octet.
LEMMA TakesNext ==
  ASSUME FramingTypes, ReceiveOctet, NEW D, NEW fr, NEW pl, Framing(D, fr, pl),
         pl[1] >= 1, pl[1] < Closing(sent, fr[1]), Intact(hits, fr[1])
  PROVE  /\ HasTaken(sent[fr[1]].content, fr[1], pl[1], rx', buf', cur')
         /\ pl[1] # 1 => OtherKept
<1> DEFINE k == fr[1]
           p == pl[1]
           content == sent[fr[1]].content
           F == Framed(content)
           h == Head(line)
<1>1. /\ sent \in Seq(FrameSent) /\ line \in Seq(OnLine) /\ line # <<>> /\ Len(sent) \in Nat
      /\ hits \in Seq(Nat) /\ Len(hits) = Len(sent)
      /\ rx \in Receiver /\ buf \in [{1, 2} -> [1 .. MaxLen -> InBuffer]] /\ cur \in {1, 2}
  BY DEF FramingTypes, ReceiveOctet
<1>2. /\ Stream(sent, line, D, fr, pl) /\ Clean(sent, line, hits, rx.esc, D, fr, pl)
      /\ Taken(sent, line, hits, rx, buf, cur, fr, pl)
  BY DEF Framing
<1>3. h = line[1] /\ h \in OnLine BY <1>1, TailFacts
<1>4. k \in 1 .. Len(sent) /\ p \in Nat /\ D = k - 1 /\ Placed(sent, h, k, p)
  BY <1>1, <1>2, <1>3, HeadOfLine
<1>5. content \in Contents /\ Closing(sent, k) \in Nat /\ Closing(sent, k) = Len(F) /\ F[1] = Boundary
  BY <1>1, <1>4, ClosingFacts DEF Closing
<1>6. h.of = k /\ h.o = F[p] BY <1>4 DEF Placed
<1>7. content \in Seq(Octets) /\ Len(content) \in Nat /\ Len(content) <= MaxLen /\ MaxLen \in Nat
  BY <1>5, FramingAssumption
<1>8. CASE p = 1
  <2>1. ~ rx.esc
    <3>1. rx.esc => D >= 1 /\ hits[D] >= 2 BY <1>2, <1>8 DEF Clean
    <3>2. k > 1 => hits[k - 1] <= 1 BY DEF Intact
    <3>3. rx.esc => k - 1 \in 1 .. Len(hits) /\ k > 1 BY <1>1, <1>4, <3>1
    <3>4. rx.esc => hits[k - 1] \in Nat BY <1>1, <3>3
    <3> QED BY <1>4, <3>1, <3>2, <3>3, <3>4
  <2>2. rx' = Reset BY <1>5, <1>6, <1>8, <2>1, ReceiveFacts
  <2>3. Upto(content, 0, FALSE, 1)
    <3>1. PosOf(content)[0] = 1 BY <1>5, PosFacts DEF Sends
    <3> QED BY <1>7, <3>1 DEF Upto
  <2>4. ~ rx'.overflow /\ rx'.len = 0 /\ rx'.esc = FALSE BY <2>2 DEF Reset
  <2>5. 0 \in 0 .. Len(content) /\ \A i \in 1 .. 0 : FALSE BY <1>7
  <2> QED BY <1>8, <2>3, <2>4, <2>5 DEF HasTaken
<1>9. CASE p # 1
  <2>1. p >= 2 /\ (p - 1) + 1 = p BY <1>4, <1>9
  <2>2. HasTaken(content, k, p - 1, rx, buf, cur) BY <1>1, <1>2, <2>1 DEF Taken
  <2>3. PICK n \in 0 .. Len(content) :
          /\ ~ rx.overflow /\ rx.len = n /\ Upto(content, n, rx.esc, p - 1)
          /\ \A i \in 1 .. n : buf[cur][i] = [o |-> content[i], of |-> k]
    BY <2>2 DEF HasTaken
  <2>4. rx.esc \in BOOLEAN BY <1>1 DEF Receiver
  <2> HIDE DEF k, content, F, h, p
  <2>5. /\ ~ rx.esc /\ n = Len(content) => p = Len(F)
        /\ ~ rx.esc /\ n # Len(content)
             => /\ F[p] # Boundary /\ n + 1 \in 1 .. Len(content)
                /\ F[p] = Escape => Upto(content, n, TRUE, p)
                /\ F[p] # Escape => F[p] = content[n + 1] /\ Upto(content, n + 1, FALSE, p)
        /\ rx.esc => /\ F[p] # Boundary /\ n + 1 \in 1 .. Len(content)
                     /\ Inverted(F[p]) = content[n + 1] /\ Upto(content, n + 1, FALSE, p)
    <3> DEFINE e == p - 1
    <3>1. e + 1 = p BY <2>1
    <3>2. content \in Contents /\ Upto(content, n, rx.esc, e) BY <1>5, <2>3 DEF content
    <3> HIDE DEF e
    <3>3. OctetNext(content, n, rx.esc, e) BY <2>4, <3>2, NextOctet
    <3>4. OctetNext(content, n, rx.esc, e)
            => /\ ~ rx.esc /\ n = Len(content) => e + 1 = Len(F)
               /\ ~ rx.esc /\ n # Len(content)
                    => /\ F[e + 1] # Boundary /\ n + 1 \in 1 .. Len(content)
                       /\ F[e + 1] = Escape => Upto(content, n, TRUE, e + 1)
                       /\ F[e + 1] # Escape => F[e + 1] = content[n + 1] /\ Upto(content, n + 1, FALSE, e + 1)
               /\ rx.esc => /\ F[e + 1] # Boundary /\ n + 1 \in 1 .. Len(content)
                            /\ Inverted(F[e + 1]) = content[n + 1] /\ Upto(content, n + 1, FALSE, e + 1)
      BY DEF OctetNext, F
    <3> QED BY <3>1, <3>3, <3>4
  <2>6. n # Len(content) \/ rx.esc BY <1>5, <2>5 DEF k, p, F
  <2>7. n + 1 \in 1 .. Len(content) /\ h.o # Boundary /\ h.o = F[p] /\ h.of = k
    BY <1>6, <2>5, <2>6
  <2>8. rx.len < MaxLen /\ n + 1 \in 1 .. MaxLen /\ n \in Nat BY <1>7, <2>3, <2>7
  <2>9. ASSUME NEW o, PutInBuffer(o), o = [o |-> content[n + 1], of |-> k], Upto(content, n + 1, FALSE, p)
        PROVE  HasTaken(content, k, p, rx', buf', cur') /\ OtherKept
    <3>1. /\ rx' = [esc |-> FALSE, overflow |-> FALSE, len |-> n + 1] /\ cur' = cur
          /\ buf' = [buf EXCEPT ![cur] = [@ EXCEPT ![n + 1] = o]]
      BY <2>3, <2>9 DEF PutInBuffer
    <3>2. buf'[cur][n + 1] = o /\ \A i \in 1 .. n : buf'[cur][i] = buf[cur][i]
      <4> DEFINE old == buf[cur]
                 new == [old EXCEPT ![n + 1] = o]
      <4>1. old \in [1 .. MaxLen -> InBuffer] BY <1>1
      <4>2. buf' = [buf EXCEPT ![cur] = new] BY <3>1
      <4> HIDE DEF old
      <4>3. new[n + 1] = o /\ \A i \in 1 .. n : new[i] = old[i] BY <2>8, <4>1
      <4> HIDE DEF new
      <4>4. buf'[cur] = new BY <1>1, <4>2
      <4> QED BY <4>3, <4>4 DEF old
    <3>3. ASSUME NEW i \in 1 .. n + 1
          PROVE  buf'[cur'][i] = [o |-> content[i], of |-> k]
      <4>1. CASE i = n + 1 BY <2>9, <3>1, <3>2, <4>1
      <4>2. CASE i # n + 1
        <5>1. i \in 1 .. n BY <2>8, <4>2
        <5> QED BY <2>3, <3>1, <3>2, <5>1
      <4> QED BY <4>1, <4>2
    <3>4. n + 1 \in 0 .. Len(content) BY <2>7
    <3>5. ~ rx'.overflow /\ rx'.len = n + 1 /\ rx'.esc = FALSE BY <3>1
    <3>6. OtherKept
      <4> DEFINE new == [buf[cur] EXCEPT ![n + 1] = o]
      <4>1. buf' = [buf EXCEPT ![cur] = new] BY <3>1
      <4> HIDE DEF new
      <4>2. \A c \in {1, 2} : c # cur => buf'[c] = buf[c] BY <1>1, <4>1
      <4> QED BY <2>9, <4>2 DEF OtherKept, PutInBuffer
    <3>7. HasTaken(content, k, p, rx', buf', cur') BY <2>9, <3>3, <3>4, <3>5 DEF HasTaken
    <3> QED BY <3>6, <3>7
  <2>10. CASE rx.esc
    <3> DEFINE o == [h EXCEPT !.o = Inverted(h.o)]
    <3>1. PutInBuffer(o) BY <2>3, <2>7, <2>8, <2>10, ReceiveFacts DEF h
    <3>2. o = [o |-> content[n + 1], of |-> k]
      <4>1. h = [o |-> h.o, of |-> h.of] BY <1>3 DEF OnLine
      <4>2. o = [o |-> Inverted(h.o), of |-> h.of] BY <4>1
      <4> QED BY <2>5, <2>7, <2>10, <4>2
    <3> HIDE DEF o
    <3>3. HasTaken(content, k, p, rx', buf', cur') /\ OtherKept BY <2>5, <2>9, <2>10, <3>1, <3>2
    <3> QED BY <3>3 DEF content, k, p
  <2>11. CASE ~ rx.esc /\ h.o = Escape
    <3>1. rx' = [rx EXCEPT !.esc = TRUE] /\ buf' = buf /\ cur' = cur /\ events' = events
      BY <2>3, <2>7, <2>8, <2>11, ReceiveFacts DEF h
    <3>2. ~ rx'.overflow /\ rx'.len = n /\ rx'.esc = TRUE BY <1>1, <2>3, <3>1 DEF Receiver
    <3>3. Upto(content, n, TRUE, p) BY <2>5, <2>6, <2>7, <2>11
    <3>4. HasTaken(content, k, p, rx', buf', cur') BY <2>3, <3>1, <3>2, <3>3 DEF HasTaken
    <3>5. OtherKept BY <3>1 DEF OtherKept
    <3> QED BY <3>4, <3>5 DEF content, k, p
  <2>12. CASE ~ rx.esc /\ h.o # Escape
    <3>1. PutInBuffer(h) BY <2>3, <2>7, <2>8, <2>12, ReceiveFacts DEF h
    <3>2. h = [o |-> content[n + 1], of |-> k]
      <4>1. h = [o |-> h.o, of |-> h.of] BY <1>3 DEF OnLine
      <4> QED BY <2>5, <2>6, <2>7, <2>12, <4>1
    <3>3. HasTaken(content, k, p, rx', buf', cur') /\ OtherKept BY <2>5, <2>6, <2>7, <2>9, <2>12, <3>1, <3>2
    <3> QED BY <3>3 DEF content, k, p
  <2> QED BY <2>10, <2>11, <2>12
<1> QED BY <1>4, <1>8, <1>9

LEMMA FrameOfIs ==
  ASSUME sent \in Seq(FrameSent), NEW k \in 1 .. Len(sent)
  PROVE  FrameOf(OfFrame(k, sent[k].content)) = k
<1> DEFINE content == sent[k].content
           X == OfFrame(k, content)
<1>1. \E j \in DOMAIN sent : X = OfFrame(j, sent[j].content)
  <2>1. k \in DOMAIN sent OBVIOUS
  <2> QED BY <2>1
<1>2. content \in Contents BY ClosingFacts
<1>3. content \in Seq(Octets) /\ Len(content) >= 1 /\ k \in Nat BY <1>2, FramingAssumption
<1>4. X \in Seq(OnLine) /\ Len(X) >= 1 /\ X[1] = [o |-> content[1], of |-> k]
  <2> HIDE DEF content
  <2>1. 1 \in 1 .. Len(content) BY <1>3
  <2> QED BY <1>3, <2>1, OfFrameFacts
<1> HIDE DEF X, content
<1>5. Head(X) = X[1] BY <1>4
<1>6. Head(X).of = k BY <1>4, <1>5
<1>7. FrameOf(X) = k BY <1>1, <1>6 DEF FrameOf, content
<1> QED BY <1>7 DEF X, content

\* An intact frame is found when its closing boundary is taken.
LEMMA FindsIntact ==
  ASSUME FramingTypes, ReceiveOctet, NEW D, NEW fr, NEW pl, Framing(D, fr, pl),
         pl[1] >= 1, pl[1] = Closing(sent, fr[1]), Intact(hits, fr[1])
  PROVE  /\ FrameEnds /\ fr[1] \in found'
         /\ Received = OfFrame(fr[1], sent[fr[1]].content)
         /\ Received = SubSeq(buf[cur], 1, Len(Received))
<1> DEFINE k == fr[1]
           p == pl[1]
           content == sent[fr[1]].content
           F == Framed(content)
           L == Len(content)
           h == Head(line)
<1>1. /\ sent \in Seq(FrameSent) /\ line \in Seq(OnLine) /\ line # <<>>
      /\ rx \in Receiver /\ buf \in [{1, 2} -> [1 .. MaxLen -> InBuffer]] /\ cur \in {1, 2}
  BY DEF FramingTypes, ReceiveOctet
<1>2. /\ Stream(sent, line, D, fr, pl) /\ Taken(sent, line, hits, rx, buf, cur, fr, pl)
  BY DEF Framing
<1>3. h = line[1] BY <1>1, TailFacts
<1>4. k \in 1 .. Len(sent) /\ p \in Nat /\ Placed(sent, h, k, p)
  BY <1>1, <1>2, <1>3, HeadOfLine
<1>5. /\ content \in Contents /\ Closing(sent, k) = Len(F) /\ F[Closing(sent, k)] = Boundary
      /\ Closing(sent, k) >= 3
  BY <1>1, <1>4, ClosingFacts DEF Closing
<1>6. h.o = Boundary BY <1>4, <1>5 DEF Placed
<1>7. /\ content \in Seq(Octets) /\ L \in Nat /\ L <= MaxLen /\ MaxLen \in Nat /\ HeaderLen \in Nat
      /\ HeaderLen >= 1 /\ HeaderLen <= L
  BY <1>5, FramingAssumption
<1>8. p >= 2 /\ (p - 1) + 1 = p BY <1>4, <1>5
<1>9. HasTaken(content, k, p - 1, rx, buf, cur) BY <1>1, <1>2, <1>8 DEF Taken
<1>10. PICK n \in 0 .. L :
          /\ ~ rx.overflow /\ rx.len = n /\ Upto(content, n, rx.esc, p - 1)
          /\ \A i \in 1 .. n : buf[cur][i] = [o |-> content[i], of |-> k]
  BY <1>9 DEF HasTaken
<1>11. rx.esc \in BOOLEAN BY <1>1 DEF Receiver
<1>12. ~ rx.esc /\ n = L
  <2> DEFINE e == p - 1
  <2>1. e + 1 = p /\ e + 1 = Len(F) BY <1>5, <1>8
  <2>2. content \in Contents /\ Upto(content, n, rx.esc, e) BY <1>5, <1>10
  <2> HIDE DEF e, content
  <2>3. OctetNext(content, n, rx.esc, e) BY <1>11, <2>2, NextOctet
  <2>4. Len(F) \in Nat BY <1>5, LastOctet DEF content
  <2>5. (~ rx.esc /\ n # L => e + 1 < Len(F)) /\ (rx.esc => e + 1 < Len(F)) BY <2>3 DEF OctetNext
  <2> HIDE DEF F, L
  <2> QED BY <2>1, <2>4, <2>5
<1> HIDE DEF k, p, content, F, L, h
<1>13. FrameEnds BY <1>6, <1>7, <1>10, <1>12, ReceiveFacts DEF h
<1>14. Received = OfFrame(k, content)
  <2> DEFINE row == buf[cur]
             X == OfFrame(k, content)
  <2>1. row \in [1 .. MaxLen -> InBuffer] BY <1>1
  <2>2. Received = SubSeq(row, 1, L)
    <3>1. (IF rx.len < MaxLen THEN rx.len ELSE MaxLen) = L BY <1>7, <1>10, <1>12
    <3> QED BY <3>1 DEF Received
  <2>3. \A i \in 1 .. L : row[i] = [o |-> content[i], of |-> k] BY <1>10, <1>12
  <2> HIDE DEF row
  <2>4. SubSeq(row, 1, L) = [i \in 1 .. L |-> row[i]]
    <3>1. row \in Seq(InBuffer) /\ Len(row) = MaxLen BY <1>7, <2>1
    <3> DEFINE z == SubSeq(row, 1, L)
    <3>2. z \in Seq(InBuffer) /\ Len(z) = L /\ \A i \in 1 .. L : z[i] = row[i] BY <1>7, <3>1
    <3> HIDE DEF z
    <3>3. z = [i \in 1 .. L |-> z[i]] BY <3>2
    <3>4. z = [i \in 1 .. L |-> row[i]] BY <3>2, <3>3
    <3> QED BY <3>4 DEF z
  <2>5. DOMAIN content = 1 .. L BY <1>7 DEF L
  <2>6. X = [i \in 1 .. L |-> [o |-> content[i], of |-> k]] BY <2>5 DEF OfFrame
  <2> QED BY <2>2, <2>3, <2>4, <2>6
<1>b. Received = SubSeq(buf[cur], 1, Len(Received))
  <2>1. (IF rx.len < MaxLen THEN rx.len ELSE MaxLen) = L BY <1>7, <1>10, <1>12
  <2>2. Len(OfFrame(k, content)) = L
    <3>1. k \in Nat BY <1>4
    <3> QED BY <1>7, <3>1, OfFrameFacts DEF L
  <2>3. Received = SubSeq(buf[cur], 1, L) BY <2>1 DEF Received
  <2>4. Len(Received) = L BY <1>14, <2>2
  <2> QED BY <2>3, <2>4
<1>15. FrameOf(Received) = k BY <1>1, <1>4, <1>14, FrameOfIs DEF content, k
<1>16. k \in found' BY <1>13, <1>15 DEF FrameEnds
<1> QED BY <1>13, <1>14, <1>16, <1>b DEF k, content

\* The receiver is ready again at the end of a frame, and of a text.
CleanNext(S, octet, none, k, p, f, q) ==
  /\ none \/ q = 1 => octet.o # Escape /\ Complete(S, octet, k, p)
  /\ ~ none /\ q >= 1 /\ q = Closing(S, f) => octet.o # Escape /\ f = k /\ p >= 1
  /\ ~ none /\ q >= 2 => f = k /\ q = p + 1 /\ p >= 1 /\ p < Closing(S, k)

LEMMA CleanAfter ==
  ASSUME NEW S \in Seq(FrameSent), NEW ln \in Seq(OnLine), ln # <<>>, NEW D, NEW fr, NEW pl,
         Stream(S, ln, D, fr, pl)
  PROVE  CleanNext(S, ln[1], Tail(ln) = <<>>, fr[1], pl[1], Rest(fr, Len(ln))[1], Rest(pl, Len(ln))[1])
<1> DEFINE k == fr[1]
           p == pl[1]
           f == Rest(fr, Len(ln))[1]
           q == Rest(pl, Len(ln))[1]
           E == Tail(ln) = <<>>
<1>1. /\ k \in 0 .. Len(S) /\ p \in Nat /\ Placed(S, ln[1], k, p)
      /\ p # 0 => k \in 1 .. Len(S)
      /\ E => Complete(S, ln[1], k, p)
      /\ ~ E => /\ Follows(S, ln[1], k, p, f, q)
                /\ f \in 0 .. Len(S) /\ q \in Nat
                /\ q # 0 => f \in 1 .. Len(S)
  BY HeadOfLine
<1> HIDE DEF k, p, f, q, E
<1>e. Tail(ln) = <<>> => E BY DEF E
<1>2. E \/ q = 1 => Complete(S, ln[1], k, p)
  <2>1. ~ E /\ q = 1 => Complete(S, ln[1], k, p) BY <1>1 DEF Follows
  <2> QED BY <1>1, <2>1
<1>3. E \/ q = 1 => ln[1].o # Escape BY <1>1, <1>2, CompleteOctet
<1>4. ~ E /\ q >= 2 => f = k /\ q = p + 1 /\ p >= 1 /\ p < Closing(S, k)
  BY <1>1 DEF Follows
<1>5. ~ E /\ q >= 1 /\ q = Closing(S, f) => ln[1].o # Escape /\ f = k /\ p >= 1
  <2> SUFFICES ASSUME ~ E, q >= 1, q = Closing(S, f) PROVE ln[1].o # Escape /\ f = k /\ p >= 1 OBVIOUS
  <2>1. f \in 1 .. Len(S) /\ q \in Nat BY <1>1
  <2>2. q >= 3 /\ Framed(S[f].content)[q - 1] # Escape BY <2>1, ClosingFacts
  <2>3. f = k /\ q = p + 1 /\ p >= 1 BY <1>4, <2>1, <2>2
  <2>4. p = q - 1 /\ p # 0 BY <1>1, <2>3
  <2>5. ln[1].o = Framed(S[k].content)[p] BY <1>1, <2>4 DEF Placed
  <2> QED BY <2>2, <2>3, <2>4, <2>5
<1>6. CleanNext(S, ln[1], E, k, p, f, q) BY <1>2, <1>3, <1>4, <1>5 DEF CleanNext
<1> QED BY <1>6 DEF k, p, f, q, E

\* Receiving an octet.
LEMMA ReceiveFraming ==
  ASSUME FramingTypes, NEW D, NEW fr, NEW pl, Framing(D, fr, pl), ReceiveOctet
  PROVE  /\ FramingTypes'
         /\ \E D2, fr2, pl2 :
              /\ Framing(D2, fr2, pl2)'
              /\ D2 = IF pl[1] >= 1 /\ pl[1] = Closing(sent, fr[1]) THEN D + 1 ELSE D
              /\ fr2 = Rest(fr, Len(line)) /\ pl2 = Rest(pl, Len(line))
<1>1. FramingTypes OBVIOUS
<1>2. Framing(D, fr, pl) OBVIOUS
<1> DEFINE m == Len(line)
           f == Rest(fr, m)
           q == Rest(pl, m)
           k == fr[1]
           p == pl[1]
           E == IF p >= 1 /\ p = Closing(sent, k) THEN D + 1 ELSE D
<1>3. /\ line \in Seq(OnLine) /\ line # <<>> /\ sent \in Seq(FrameSent) /\ hits \in Seq(Nat)
      /\ line' = Tail(line) /\ sent' = sent /\ hits' = hits /\ side' = side
  BY <1>1 DEF FramingTypes, ReceiveOctet
<1>4. FramingTypes'
  <2>1. line' \in Seq(OnLine) BY <1>3, TailFacts
  <2>2. rx' \in Receiver /\ buf' \in [{1, 2} -> [1 .. MaxLen -> InBuffer]] /\ cur' \in {1, 2}
    BY <1>1, ReceiveFacts
  <2> QED BY <1>1, <1>3, <2>1, <2>2 DEF FramingTypes
<1>5. /\ Stream(sent, line, D, fr, pl) /\ Clean(sent, line, hits, rx.esc, D, fr, pl)
      /\ Taken(sent, line, hits, rx, buf, cur, fr, pl) /\ Found(hits, found, D)
  BY <1>2 DEF Framing
<1>6. Stream(sent, Tail(line), E, f, q) BY <1>3, <1>5, StreamShorter
<1>7. /\ k \in 0 .. Len(sent) /\ p \in Nat
      /\ p # 0 => k \in 1 .. Len(sent) /\ p <= Closing(sent, k) /\ D = k - 1
  BY <1>3, <1>5, HeadOfLine
<1>8. /\ Tail(line) = <<>> \/ q[1] = 1 => line[1].o # Escape
      /\ Tail(line) # <<>> /\ q[1] >= 1 /\ q[1] = Closing(sent, f[1]) => line[1].o # Escape
      /\ Tail(line) # <<>> /\ q[1] >= 2
           => f[1] = fr[1] /\ q[1] = pl[1] + 1 /\ pl[1] >= 1 /\ pl[1] < Closing(sent, fr[1])
  <2>1. CleanNext(sent, line[1], Tail(line) = <<>>, fr[1], pl[1], f[1], q[1]) BY <1>3, <1>5, CleanAfter
  <2> HIDE DEF f, q
  <2> QED BY <2>1 DEF CleanNext
<1>9. line[1].o # Escape => ~ rx'.esc BY <1>1, <1>3, ReceiveFacts, TailFacts
<1>10. Clean(sent, Tail(line), hits, rx'.esc, E, f, q)
  <2> HIDE DEF f, q, E
  <2> QED BY <1>8, <1>9 DEF Clean
<1>11. Taken(sent, Tail(line), hits, rx', buf', cur', f, q)
  <2> SUFFICES ASSUME Tail(line) # <<>>, q[1] >= 2, Intact(hits, f[1])
               PROVE  HasTaken(sent[f[1]].content, f[1], q[1] - 1, rx', buf', cur')
    BY DEF Taken
  <2>1. f[1] = fr[1] /\ q[1] = pl[1] + 1 /\ pl[1] >= 1 /\ pl[1] < Closing(sent, fr[1]) BY <1>8
  <2>2. HasTaken(sent[fr[1]].content, fr[1], pl[1], rx', buf', cur')
    BY <1>1, <1>2, <2>1, TakesNext
  <2>3. q[1] - 1 = pl[1] BY <1>7, <2>1
  <2> QED BY <2>1, <2>2, <2>3
<1>12. Found(hits, found', E)
  <2>1. found \subseteq found' BY <1>1, ReceiveFacts
  <2>2. ASSUME NEW j \in 1 .. E, Intact(hits, j) PROVE j \in found'
    <3>1. D \in Nat BY <1>5 DEF Stream
    <3>2. CASE j <= D
      <4>1. j \in 1 .. D BY <3>1, <3>2
      <4> QED BY <1>5, <2>1, <2>2, <4>1 DEF Found
    <3>3. CASE ~ (j <= D)
      <4>1. p >= 1 /\ p = Closing(sent, k) /\ j = D + 1 BY <3>1, <3>3
      <4>2. D = k - 1 /\ k \in 1 .. Len(sent) BY <1>7, <4>1
      <4>3. j = k BY <4>1, <4>2
      <4> QED BY <1>1, <1>2, <2>2, <4>1, <4>3, FindsIntact
    <3> QED BY <3>2, <3>3
  <2> QED BY <2>2 DEF Found
<1> HIDE DEF E, f, q
<1>13. PICK D2, fr2, pl2 :
         /\ Stream(sent, Tail(line), D2, fr2, pl2)
         /\ Clean(sent, Tail(line), hits, rx'.esc, D2, fr2, pl2)
         /\ Taken(sent, Tail(line), hits, rx', buf', cur', fr2, pl2)
         /\ Found(hits, found', D2)
         /\ D2 = E /\ fr2 = f /\ pl2 = q
  BY <1>6, <1>10, <1>11, <1>12
<1>14. Framing(D2, fr2, pl2)' BY <1>3, <1>13 DEF Framing
<1> QED BY <1>4, <1>13, <1>14 DEF E, f, q

LEMMA ReceiveKeeps ==
  ASSUME FramingInv, ReceiveOctet
  PROVE  FramingInv'
  BY ReceiveFraming DEF FramingInv

\* Losing one.
LEMMA LossKeeps ==
  ASSUME FramingInv, LoseOctet
  PROVE  FramingInv' /\ \E j \in DOMAIN hits' : hits'[j] # 0
<1>1. FramingTypes BY DEF FramingInv
<1>2. PICK D, fr, pl : Framing(D, fr, pl) BY DEF FramingInv
<1> DEFINE m == Len(line)
           f == Rest(fr, m)
           q == Rest(pl, m)
           k == fr[1]
           p == pl[1]
           E == IF p >= 1 /\ p = Closing(sent, k) THEN D + 1 ELSE D
<1>3. /\ line \in Seq(OnLine) /\ line # <<>> /\ sent \in Seq(FrameSent) /\ hits \in Seq(Nat)
      /\ Len(hits) = Len(sent) /\ Head(line) = line[1] /\ line[1].of # 0 /\ Tail(line) \in Seq(OnLine)
      /\ line' = Tail(line) /\ sent' = sent /\ UNCHANGED <<side, rx, buf, cur, found>>
      /\ hits' = [hits EXCEPT ![line[1].of] = @ + 1]
  <2>1. line \in Seq(OnLine) /\ line # <<>> BY <1>1 DEF FramingTypes, LoseOctet
  <2>2. Head(line) = line[1] /\ Tail(line) \in Seq(OnLine) BY <2>1, TailFacts
  <2> QED BY <1>1, <2>1, <2>2 DEF FramingTypes, LoseOctet, receiver
<1>5. /\ Stream(sent, line, D, fr, pl) /\ Clean(sent, line, hits, rx.esc, D, fr, pl)
      /\ Found(hits, found, D)
  BY <1>2 DEF Framing
<1>6. Stream(sent, Tail(line), E, f, q) BY <1>3, <1>5, StreamShorter
<1>7. /\ k \in 0 .. Len(sent) /\ p \in Nat /\ Placed(sent, line[1], k, p)
      /\ p # 0 => k \in 1 .. Len(sent) /\ p <= Closing(sent, k) /\ D = k - 1
  BY <1>3, <1>5, HeadOfLine
<1>8. p # 0 /\ p >= 1 /\ line[1].of = k /\ k \in 1 .. Len(sent) /\ D = k - 1
  BY <1>3, <1>7 DEF Placed
<1>9. /\ hits' \in Seq(Nat) /\ Len(hits') = Len(hits) /\ hits'[k] = hits[k] + 1 /\ hits[k] \in Nat
      /\ \A j \in 1 .. Len(hits) : hits'[j] >= hits[j] /\ hits[j] \in Nat /\ hits'[j] \in Nat
      /\ \A j \in 1 .. Len(hits) : j # k => hits'[j] = hits[j]
  <2>1. k \in 1 .. Len(hits) /\ hits' = [hits EXCEPT ![k] = @ + 1] BY <1>3, <1>8
  <2>2. \A j \in 1 .. Len(hits) : hits[j] \in Nat BY <1>3
  <2> HIDE DEF k
  <2>3. hits[k] + 1 \in Nat BY <2>1, <2>2
  <2>4. hits' \in Seq(Nat) /\ Len(hits') = Len(hits) BY <1>3, <2>1, <2>3
  <2>5. hits'[k] = hits[k] + 1 /\ \A j \in 1 .. Len(hits) : j # k => hits'[j] = hits[j]
    BY <1>3, <2>1
  <2> QED BY <2>1, <2>2, <2>4, <2>5
<1>4. FramingTypes' BY <1>1, <1>3, <1>9 DEF FramingTypes
<1>10. /\ Tail(line) = <<>> \/ q[1] = 1 => Complete(sent, line[1], k, p)
       /\ Tail(line) # <<>> /\ q[1] >= 1 /\ q[1] = Closing(sent, f[1]) => f[1] = k
       /\ Tail(line) # <<>> /\ q[1] >= 2 => f[1] = k
  <2>1. CleanNext(sent, line[1], Tail(line) = <<>>, fr[1], pl[1], f[1], q[1]) BY <1>3, <1>5, CleanAfter
  <2> HIDE DEF f, q
  <2> QED BY <2>1 DEF CleanNext
<1>11. hits'[k] >= 1 /\ ~ Intact(hits', k) BY <1>9 DEF Intact
<1>12. Clean(sent, Tail(line), hits', rx.esc, E, f, q)
  <2>1. ASSUME rx.esc, Tail(line) = <<>> \/ q[1] = 1
        PROVE  E >= 1 /\ hits'[E] >= 2
    <3>1. p = Closing(sent, k) BY <1>8, <1>10, <2>1 DEF Complete
    <3>2. E = k BY <1>8, <3>1
    <3>3. hits[k] >= 1 BY <1>3, <1>5, <1>8, <2>1, <3>1 DEF Clean
    <3> HIDE DEF E, k
    <3>4. hits'[k] >= 2 BY <1>9, <3>3
    <3> QED BY <1>8, <3>2, <3>4
  <2> HIDE DEF f, q, E, k
  <2> QED BY <1>10, <1>11, <2>1 DEF Clean
<1>13. Taken(sent, Tail(line), hits', rx, buf, cur, f, q)
  <2> HIDE DEF f, q, k
  <2> QED BY <1>10, <1>11 DEF Taken
<1>14. Found(hits', found, E)
  <2> SUFFICES ASSUME NEW j \in 1 .. E, Intact(hits', j) PROVE j \in found BY DEF Found
  <2>1. j # k BY <1>11
  <2>2. D \in Nat /\ Len(sent) \in Nat BY <1>7, <1>8
  <2>3. j \in 1 .. D
    <3>1. E = D \/ E = k BY <1>8
    <3> HIDE DEF E, k
    <3> QED BY <1>8, <2>1, <2>2, <3>1
  <2>4. j \in 1 .. Len(hits) /\ (j > 1 => j - 1 \in 1 .. Len(hits)) BY <1>3, <1>8, <2>2, <2>3
  <2>5. Intact(hits, j)
    <3>1. hits'[j] = 0 /\ (j > 1 => hits'[j - 1] <= 1) BY DEF Intact
    <3>2. hits[j] = 0 BY <1>9, <2>1, <2>4, <3>1
    <3>3. j > 1 => hits[j - 1] <= 1
      <4> SUFFICES ASSUME j > 1 PROVE hits[j - 1] <= 1 OBVIOUS
      <4> DEFINE i == j - 1
      <4>1. i \in 1 .. Len(hits) /\ hits'[i] <= 1 BY <2>4, <3>1
      <4> HIDE DEF i
      <4>2. hits[i] <= 1 BY <1>9, <4>1
      <4> QED BY <4>2 DEF i
    <3> QED BY <3>2, <3>3 DEF Intact
  <2> QED BY <1>5, <2>3, <2>5 DEF Found
<1> HIDE DEF E, f, q
<1>15. PICK D2, fr2, pl2 :
         /\ Stream(sent, Tail(line), D2, fr2, pl2)
         /\ Clean(sent, Tail(line), hits', rx.esc, D2, fr2, pl2)
         /\ Taken(sent, Tail(line), hits', rx, buf, cur, fr2, pl2)
         /\ Found(hits', found, D2)
  BY <1>6, <1>12, <1>13, <1>14
<1>16. Framing(D2, fr2, pl2)' BY <1>3, <1>15 DEF Framing
<1>17. k \in DOMAIN hits' /\ hits'[k] # 0 BY <1>3, <1>8, <1>9
<1> QED BY <1>4, <1>16, <1>17 DEF FramingInv

LEMMA OctetCount ==
  ASSUME NEW x \in Seq(Nat), NEW n \in Nat
  PROVE  /\ Append(x, n) \in Seq(Nat) /\ Len(Append(x, n)) = Len(x) + 1 /\ Len(x) \in Nat
         /\ \A i \in 1 .. Len(x) : Append(x, n)[i] = x[i]
         /\ Append(x, n)[Len(x) + 1] = n
  OBVIOUS

\* Sending a frame.
LEMMA TransmitFraming ==
  ASSUME FramingTypes, NEW D, NEW fr, NEW pl, Framing(D, fr, pl),
         NEW kind \in {"packet", "request"}, Transmit(kind)
  PROVE  /\ FramingTypes'
         /\ \E fr2, pl2 : /\ Framing(D, fr2, pl2)'
                          /\ pl2[1] = IF line = <<>> THEN 1 ELSE pl[1]
                          /\ (\A i \in 1 .. Len(line) : pl[i] >= 1)
                               => \A i \in 1 .. Len(line') : pl2[i] >= 1
         /\ line' # <<>> /\ hits' = Append(hits, 0) /\ Len(sent') = Len(sent) + 1
         /\ sent'[Len(sent) + 1].kind = kind /\ \A j \in 1 .. Len(sent) : sent'[j] = sent[j]
<1>1. FramingTypes OBVIOUS
<1>2. Framing(D, fr, pl) OBVIOUS
<1>3. /\ line \in Seq(OnLine) /\ sent \in Seq(FrameSent) /\ hits \in Seq(Nat) /\ Len(hits) = Len(sent)
      /\ UNCHANGED <<side, rx, buf, cur, found>> /\ hits' = Append(hits, 0)
  BY <1>1 DEF FramingTypes, Transmit, receiver
<1>4. PICK content \in Contents :
        /\ sent' = Append(sent, [kind |-> kind, content |-> content])
        /\ line' = line \o OfFrame(Len(sent) + 1, Framed(content))
  BY DEF Transmit
<1> DEFINE rec == [kind |-> kind, content |-> content]
           S == sent
           F == Framed(content)
           n == Len(F)
           add == OfFrame(Len(S) + 1, F)
           a == [i \in 1 .. n |-> Len(S) + 1]
           b == [i \in 1 .. n |-> i]
           m == Len(line)
           f == Joint(fr, m, a, Len(add))
           q == Joint(pl, m, b, Len(add))
           T == Append(S, rec)
<1>5. rec \in FrameSent /\ rec.content = content BY DEF FrameSent
<1>6. n \in Nat /\ n >= 3 /\ F \in Seq(Octets) BY LastOctet
<1>7. /\ Stream(S, line, D, fr, pl) /\ Clean(S, line, hits, rx.esc, D, fr, pl)
      /\ Taken(S, line, hits, rx, buf, cur, fr, pl) /\ Found(hits, found, D)
  BY <1>2 DEF Framing
<1>8. Added(S, T, add, a, b) BY <1>3, <1>5, AddedFrame
<1>9. Stream(T, line \o add, D, f, q) BY <1>3, <1>7, <1>8, StreamLonger
<1>10. add \in Seq(OnLine) /\ Len(add) = n /\ Len(S) \in Nat
  <2>1. Len(S) \in Nat /\ Len(S) + 1 \in Nat BY <1>3
  <2> HIDE DEF F
  <2>2. OfFrame(Len(S) + 1, F) \in Seq(OnLine) /\ Len(OfFrame(Len(S) + 1, F)) = Len(F)
    BY <1>6, <2>1, OfFrameFacts
  <2> QED BY <2>1, <2>2
<1>11. T \in Seq(FrameSent) /\ Len(T) = Len(S) + 1 /\ \A j \in 1 .. Len(S) : T[j] = S[j]
  BY <1>3, <1>5
<1>12. /\ hits' \in Seq(Nat) /\ Len(hits') = Len(hits) + 1 /\ hits'[Len(hits) + 1] = 0
       /\ \A j \in 1 .. Len(hits) : hits'[j] = hits[j]
  BY <1>3, OctetCount
<1>13. FramingTypes'
  <2>1. line' \in Seq(OnLine) BY <1>3, <1>4, <1>10
  <2>2. sent' \in Seq(FrameSent) /\ Len(sent') = Len(hits') BY <1>3, <1>4, <1>11, <1>12
  <2> QED BY <1>1, <1>3, <1>12, <2>1, <2>2 DEF FramingTypes
<1>14. D \in 0 .. Len(S) /\ (line = <<>> => D = Len(S)) BY <1>7 DEF Stream
<1>15. Found(hits', found, D)
  <2> SUFFICES ASSUME NEW j \in 1 .. D, Intact(hits', j) PROVE j \in found BY DEF Found
  <2>1. j \in 1 .. Len(hits) /\ (j > 1 => j - 1 \in 1 .. Len(hits)) BY <1>3, <1>10, <1>14
  <2>2. Intact(hits, j) BY <1>12, <2>1 DEF Intact
  <2> QED BY <1>7, <2>2 DEF Found
<1>16. m \in Nat /\ (line # <<>> => m >= 1) /\ (line = <<>> => m = 0) BY <1>3
<1>17. line # <<>> => f[1] = fr[1] /\ q[1] = pl[1]
  <2>1. line # <<>> => 1 \in 1 .. m + Len(add) /\ 1 <= m BY <1>6, <1>10, <1>16
  <2> HIDE DEF m, a, b, add
  <2> QED BY <2>1 DEF Joint
<1>18. line = <<>> => q[1] = 1
  <2> SUFFICES ASSUME line = <<>> PROVE q[1] = 1 OBVIOUS
  <2>1. 1 \in 1 .. m + Len(add) /\ ~ (1 <= m) /\ 1 - m = 1 BY <1>6, <1>10, <1>16
  <2>2. b[1] = 1 BY <1>6
  <2> HIDE DEF m, a, b, add
  <2> QED BY <2>1, <2>2 DEF Joint
<1>19. line # <<>> /\ pl[1] # 0 => fr[1] \in 1 .. Len(S) BY <1>3, <1>7, HeadOfLine
<1>20. line # <<>> => pl[1] \in Nat BY <1>3, <1>7, HeadOfLine
<1>21. line \o add # <<>> BY <1>3, <1>6, <1>10
<1>22. ASSUME NEW j \in 1 .. Len(S)
       PROVE  /\ Closing(T, j) = Closing(S, j) /\ T[j] = S[j] /\ hits'[j] = hits[j]
              /\ Intact(hits', j) => Intact(hits, j)
  <2>1. j \in 1 .. Len(hits) /\ (j > 1 => j - 1 \in 1 .. Len(hits)) BY <1>3, <1>10
  <2> QED BY <1>11, <1>12, <2>1 DEF Closing, Intact
<1>a. (\A i \in 1 .. m : pl[i] >= 1) => \A i \in 1 .. Len(line \o add) : q[i] >= 1
  <2> SUFFICES ASSUME \A i \in 1 .. m : pl[i] >= 1, NEW i \in 1 .. Len(line \o add)
               PROVE  q[i] >= 1
    OBVIOUS
  <2>1. i \in 1 .. m + n /\ m \in Nat BY <1>3, <1>10, JoinedLines
  <2>2. CASE i <= m BY <1>6, <1>10, <2>1, <2>2 DEF Joint
  <2>3. CASE ~ (i <= m)
    <3>1. i - m \in 1 .. n BY <1>6, <2>1, <2>3
    <3>2. q[i] = b[i - m] BY <1>10, <2>1, <2>3 DEF Joint
    <3> QED BY <3>1, <3>2
  <2> QED BY <2>2, <2>3
<1>c. T[Len(S) + 1].kind = kind BY <1>3, <1>5
<1> HIDE DEF f, q, T, add, m, a, b
<1>23. Clean(T, line \o add, hits', rx.esc, D, f, q)
  <2>1. ASSUME rx.esc, q[1] = 1 PROVE D >= 1 /\ hits'[D] >= 2
    <3>1. D >= 1 /\ hits[D] >= 2 BY <1>7, <1>17, <2>1 DEF Clean
    <3>2. D \in 1 .. Len(hits) BY <1>3, <1>14, <3>1
    <3> QED BY <1>12, <3>1, <3>2
  <2>2. ASSUME rx.esc, q[1] >= 1, q[1] = Closing(T, f[1]) PROVE hits'[f[1]] >= 1
    <3>1. CASE line = <<>>
      <4>1. q[1] = 1 BY <1>18, <3>1
      <4>2. f[1] \in 1 .. Len(T)
        <5>1. line \o add \in Seq(OnLine) BY <1>3, <1>10
        <5>2. q[1] # 0 => f[1] \in 1 .. Len(T) BY <1>9, <1>11, <1>21, <5>1, HeadOfLine
        <5> QED BY <2>2, <5>2
      <4>3. Closing(T, f[1]) >= 3 BY <1>11, <4>2, ClosingFacts
      <4> QED BY <2>2, <4>1, <4>3
    <3>2. CASE line # <<>>
      <4>1. f[1] = fr[1] /\ q[1] = pl[1] BY <1>17, <3>2
      <4>2. fr[1] \in 1 .. Len(S) BY <1>19, <1>20, <2>2, <3>2, <4>1
      <4>3. hits[fr[1]] >= 1 BY <1>7, <1>22, <2>2, <3>2, <4>1, <4>2 DEF Clean
      <4> QED BY <1>22, <4>1, <4>2, <4>3
    <3> QED BY <3>1, <3>2
  <2> QED BY <1>21, <2>1, <2>2 DEF Clean
<1>24. Taken(T, line \o add, hits', rx, buf, cur, f, q)
  <2> SUFFICES ASSUME q[1] >= 2, Intact(hits', f[1])
               PROVE  HasTaken(T[f[1]].content, f[1], q[1] - 1, rx, buf, cur)
    BY DEF Taken
  <2>1. line # <<>> BY <1>18
  <2>2. f[1] = fr[1] /\ q[1] = pl[1] BY <1>17, <2>1
  <2>3. fr[1] \in 1 .. Len(S) BY <1>19, <1>20, <2>1, <2>2
  <2>4. Intact(hits, fr[1]) BY <1>22, <2>2, <2>3
  <2>5. HasTaken(S[fr[1]].content, fr[1], pl[1] - 1, rx, buf, cur) BY <1>7, <2>1, <2>2, <2>4 DEF Taken
  <2> QED BY <1>22, <2>2, <2>3, <2>5
<1>25. PICK fr2, pl2 :
         /\ Stream(T, line \o add, D, fr2, pl2)
         /\ Clean(T, line \o add, hits', rx.esc, D, fr2, pl2)
         /\ Taken(T, line \o add, hits', rx, buf, cur, fr2, pl2)
         /\ fr2 = f /\ pl2 = q
  BY <1>9, <1>23, <1>24
<1>26. sent' = T /\ line' = line \o add BY <1>4 DEF T, add
<1>27. Framing(D, fr2, pl2)' BY <1>3, <1>15, <1>25, <1>26 DEF Framing
<1>28. pl2[1] = IF line = <<>> THEN 1 ELSE pl[1] BY <1>17, <1>18, <1>25
<1>29. (\A i \in 1 .. Len(line) : pl[i] >= 1) => \A i \in 1 .. Len(line') : pl2[i] >= 1
  BY <1>25, <1>26, <1>a DEF m
<1> QED BY <1>3, <1>11, <1>13, <1>21, <1>26, <1>27, <1>28, <1>29, <1>c

LEMMA TransmitKeeps ==
  ASSUME FramingInv, NEW kind \in {"packet", "request"}, Transmit(kind)
  PROVE  FramingInv'
<1>1. PICK D, fr, pl : Framing(D, fr, pl) BY DEF FramingInv
<1>2. FramingTypes BY DEF FramingInv
<1> QED BY <1>1, <1>2, TransmitFraming DEF FramingInv

\* Printing a text.
LEMMA PrintKeeps ==
  ASSUME FramingInv, PrintText
  PROVE  FramingInv'
<1>1. FramingTypes BY DEF FramingInv
<1>2. PICK D, fr, pl : Framing(D, fr, pl) BY DEF FramingInv
<1>3. /\ line \in Seq(OnLine) /\ sent \in Seq(FrameSent) /\ Len(sent) \in Nat
      /\ UNCHANGED <<side, sent, rx, buf, cur, hits, found>>
  BY <1>1 DEF FramingTypes, PrintText, receiver
<1>4. PICK text \in Texts : line' = line \o OfFrame(0, text) BY DEF PrintText
<1>5. text \in Seq(Octets) BY FramingAssumption
<1> DEFINE add == OfFrame(0, text)
<1>6. add \in Seq(OnLine) /\ Len(add) = Len(text) /\ Len(text) \in Nat BY <1>5, OfFrameFacts
<1>7. FramingTypes'
  <2>1. line' \in Seq(OnLine) BY <1>3, <1>4, <1>6
  <2> QED BY <1>1, <1>3, <2>1 DEF FramingTypes
<1>8. CASE text = <<>>
  <2> HIDE DEF add
  <2>1. Len(add) = 0 BY <1>6, <1>8
  <2>2. add = <<>> BY <1>6, <2>1
  <2>3. line' = line BY <1>3, <1>4, <2>2 DEF add
  <2>4. Framing(D, fr, pl)' BY <1>2, <1>3, <2>3 DEF Framing
  <2> QED BY <1>7, <2>4 DEF FramingInv
<1>9. CASE text # <<>>
  <2> DEFINE a == [i \in 1 .. Len(text) |-> Len(sent)]
             b == [i \in 1 .. Len(text) |-> 0]
             m == Len(line)
             f == Joint(fr, m, a, Len(add))
             q == Joint(pl, m, b, Len(add))
  <2>1. /\ Stream(sent, line, D, fr, pl) /\ Clean(sent, line, hits, rx.esc, D, fr, pl)
        /\ Taken(sent, line, hits, rx, buf, cur, fr, pl) /\ Found(hits, found, D)
    BY <1>2 DEF Framing
  <2>2. Added(sent, sent, add, a, b) BY <1>3, <1>9, AddedText
  <2>3. Stream(sent, line \o add, D, f, q) BY <1>3, <2>1, <2>2, StreamLonger
  <2>4. Len(text) >= 1 BY <1>5, <1>9
  <2>5. m \in Nat /\ (line # <<>> => m >= 1) /\ (line = <<>> => m = 0) BY <1>3
  <2>6. b[1] = 0 BY <2>4
  <2> HIDE DEF add, a, b
  <2>7. line # <<>> => f[1] = fr[1] /\ q[1] = pl[1]
    <3>1. line # <<>> => 1 \in 1 .. m + Len(add) /\ 1 <= m BY <1>6, <2>4, <2>5
    <3> HIDE DEF m
    <3> QED BY <3>1 DEF Joint
  <2>8. line = <<>> => q[1] = 0
    <3> SUFFICES ASSUME line = <<>> PROVE q[1] = 0 OBVIOUS
    <3>1. 1 \in 1 .. m + Len(add) /\ ~ (1 <= m) /\ 1 - m = 1 BY <1>6, <2>4, <2>5
    <3> HIDE DEF m
    <3> QED BY <2>6, <3>1 DEF Joint
  <2>9. line \o add # <<>> BY <1>3, <1>6, <2>4
  <2> HIDE DEF f, q
  <2>10. Clean(sent, line \o add, hits, rx.esc, D, f, q)
    <3>1. CASE line = <<>> BY <2>8, <2>9, <3>1 DEF Clean
    <3>2. CASE line # <<>> BY <2>1, <2>7, <2>9, <3>2 DEF Clean
    <3> QED BY <3>1, <3>2
  <2>11. Taken(sent, line \o add, hits, rx, buf, cur, f, q)
    <3>1. CASE line = <<>> BY <2>8, <3>1 DEF Taken
    <3>2. CASE line # <<>> BY <2>1, <2>7, <3>2 DEF Taken
    <3> QED BY <3>1, <3>2
  <2>12. PICK D2, fr2, pl2 :
           /\ Stream(sent, line \o add, D2, fr2, pl2)
           /\ Clean(sent, line \o add, hits, rx.esc, D2, fr2, pl2)
           /\ Taken(sent, line \o add, hits, rx, buf, cur, fr2, pl2)
           /\ Found(hits, found, D2)
    BY <2>1, <2>3, <2>10, <2>11
  <2>13. line' = line \o add BY <1>4 DEF add
  <2>14. Framing(D2, fr2, pl2)' BY <1>3, <2>12, <2>13 DEF Framing
  <2> QED BY <1>7, <2>14 DEF FramingInv
<1> QED BY <1>8, <1>9

LEMMA FramingStarts == FramingInit => FramingInv
<1> SUFFICES ASSUME FramingInit PROVE FramingInv OBVIOUS
<1>1. FramingTypes
  <2>1. buf \in [{1, 2} -> [1 .. MaxLen -> InBuffer]] BY DEF FramingInit, Blank, InBuffer
  <2>2. rx \in Receiver BY DEF FramingInit, Reset, Receiver
  <2> QED BY <2>1, <2>2 DEF FramingInit, FramingTypes
<1> DEFINE none == [i \in 1 .. 0 |-> 0]
<1>2. Stream(sent, line, 0, none, none) BY DEF FramingInit, Stream
<1>3. rx.esc = FALSE /\ line = <<>> BY DEF FramingInit, Reset
<1>4. Framing(0, none, none) BY <1>2, <1>3 DEF Framing, Clean, Taken, Found
<1> QED BY <1>1, <1>4 DEF FramingInv

LEMMA FramingKeeps ==
  ASSUME FramingInv, [FramingNext]_framingVars
  PROVE  FramingInv'
<1>1. CASE UNCHANGED <<side, sent, line, receiver, hits, found>>
  BY <1>1 DEF FramingInv, FramingTypes, Framing, receiver
<1>2. CASE SendPacket BY <1>2, TransmitKeeps DEF SendPacket
<1>3. CASE RequestNodeId BY <1>3, TransmitKeeps DEF RequestNodeId
<1>4. CASE SendFromMote BY <1>4, TransmitKeeps DEF SendFromMote
<1>5. CASE PrintText BY <1>5, PrintKeeps
<1>6. CASE ReceiveOctet BY <1>6, ReceiveKeeps
<1>7. CASE LoseOctet BY <1>7, LossKeeps
<1>8. CASE UNCHANGED framingVars BY <1>1, <1>8 DEF framingVars
<1>9. CASE AnswerRequest \/ PassPacket \/ ForgetFrame \/ Continue \/ ReadPacket
  <2>1. UNCHANGED <<side, sent, line, receiver, hits, found>>
    BY <1>9 DEF AnswerRequest, PassPacket, ForgetFrame, Continue, ReadPacket, Handled
  <2> QED BY <1>1, <2>1
<1> QED BY <1>2, <1>3, <1>4, <1>5, <1>6, <1>7, <1>8, <1>9 DEF FramingNext

LEMMA LossIsLocalThen ==
  ASSUME FramingInv
  PROVE  LossIsLocal
<1> SUFFICES ASSUME NEW k \in DOMAIN sent, Intact(hits, k), k \notin found
             PROVE  \E i \in DOMAIN line : line[i].of = k
  BY DEF LossIsLocal, Intact
<1>1. PICK D, fr, pl : Framing(D, fr, pl) BY DEF FramingInv
<1>2. /\ sent \in Seq(FrameSent) /\ line \in Seq(OnLine) /\ k \in 1 .. Len(sent)
      /\ DOMAIN line = 1 .. Len(line)
  BY DEF FramingInv, FramingTypes
<1>3. Stream(sent, line, D, fr, pl) /\ Found(hits, found, D) BY <1>1 DEF Framing
<1>4. D \in Nat BY <1>3 DEF Stream
<1>5. k > D
  <2>1. k \notin 1 .. D BY <1>3 DEF Found
  <2> QED BY <1>2, <1>4, <2>1
<1>6. PICK i \in 1 .. Len(line) : fr[i] = k /\ pl[i] = Closing(sent, k) /\ Placed(sent, line[i], fr[i], pl[i])
  BY <1>2, <1>3, <1>5 DEF Stream
<1>7. pl[i] >= 3 BY <1>2, <1>6, ClosingFacts
<1>8. line[i].of = k BY <1>6, <1>7 DEF Placed
<1> QED BY <1>2, <1>8

\* Frames are found as they were sent, whatever is printed between them and
\* whatever octets are lost, unless a frame itself or two octets or more of the
\* one before it are (byteReceived, processByte, frameDecode): for contents,
\* texts and buffers of every length, and any number of losses.
THEOREM DamageIsLocal == FramingSpec => []LossIsLocal
<1>1. FramingInit => FramingInv BY FramingStarts
<1>2. FramingInv /\ [FramingNext]_framingVars => FramingInv' BY FramingKeeps
<1>3. FramingInv => LossIsLocal BY LossIsLocalThen
<1> QED BY <1>1, <1>2, <1>3, PTL DEF FramingSpec

----------------------------------------------------------------------------
(* What the mote's processes read                                          *)

NoHits(ht) == \A k \in DOMAIN ht : ht[k] = 0

\* The buffer of the k-th frame.
BufOf(k) == IF k % 2 = 1 THEN 1 ELSE 2

\* ev[i] is the frame of the i-th event, or 0.
Posted(D, ev) ==
  /\ ev \in [1 .. Len(events) -> 0 .. D]
  /\ \A i \in 1 .. Len(events) :
       IF ev[i] = 0 THEN events[i].to = "continue"
       ELSE /\ events[i].to \in {"sembei", "core"}
            /\ events[i].buf = BufOf(ev[i]) /\ events[i].content = OfFrame(ev[i], sent[ev[i]].content)
            /\ SubSeq(buf[BufOf(ev[i])], 1, Len(events[i].content)) = events[i].content
            /\ events[i].to = "core" => sent[ev[i]].kind = "packet"

\* Frames are told of in their order, each once, and a packet goes on to the
\* core before the next frame.
InOrder(evs, D, ev) ==
  /\ \A i, j \in 1 .. Len(evs) :
       evs[j].to = "sembei" /\ (evs[i].to = "core" \/ (evs[i].to = "sembei" /\ i < j)) => ev[i] < ev[j]
  /\ \A i, j \in 1 .. Len(evs) : evs[i].to = "core" /\ evs[j].to = "core" => i = j
  /\ \A i \in 1 .. Len(evs) : evs[i].to = "sembei" /\ ev[i] < D
       => \E j \in 1 .. Len(evs) : evs[j].to = "sembei" /\ ev[j] = ev[i] + 1

\* On the line, or in an event.
IsOut(k, D, ev) == k > D \/ \E i \in DOMAIN ev : ev[i] = k

\* One packet and one request at a time.
OneOfEach(D, ev) ==
  /\ \A k \in 1 .. Len(sent) : IsOut(k, D, ev)
       => (sent[k].kind = "packet" => pending) /\ (sent[k].kind = "request" => asked = 1)
  /\ \A k, l \in 1 .. Len(sent) :
       IsOut(k, D, ev) /\ IsOut(l, D, ev) /\ sent[k].kind = sent[l].kind => k = l

\* Of two frames that are out the first is not overwritten: no third one comes.
Late(D, ev) ==
  \A i \in 1 .. Len(events) : ev[i] # 0 /\ ev[i] < D => line = <<>> /\ pending /\ asked = 1

Waiting ==
  /\ waits => \E j \in 1 .. Len(events) : events[j].to = "continue"
  /\ \A j \in 1 .. Len(events) : events[j].to = "continue" /\ j > 1 => events[j - 1].to = "core"

Reading(D, pl, ev) ==
  /\ \A i \in 1 .. Len(line) : pl[i] >= 1
  /\ line = <<>> \/ pl[1] = 1 => rx = Reset
  /\ cur = BufOf(D + 1) /\ asked \in {0, 1}
  /\ Posted(D, ev) /\ InOrder(events, D, ev) /\ OneOfEach(D, ev) /\ Late(D, ev) /\ Waiting
  /\ \A k \in forgotten : k \in 1 .. Len(sent) /\ sent[k].kind = "request"

Event == [to : {"sembei", "core", "continue"}, buf : Nat, content : Seq(InBuffer)]

ReadingInv ==
  /\ FramingTypes /\ events \in Seq(Event)
  /\ side = "PC" => events = <<>> /\ forgotten = {}
  /\ \E D, fr, pl : /\ Framing(D, fr, pl)
                    /\ side = "mote" /\ NoHits(hits) => \E ev : Reading(D, pl, ev)

LEMMA BufOfFacts ==
  ASSUME NEW k \in Nat
  PROVE  BufOf(k) \in {1, 2} /\ BufOf(k + 1) = 3 - BufOf(k) /\ BufOf(k + 1) # BufOf(k)
<1>1. k % 2 \in {0, 1} /\ (k + 1) % 2 = 1 - (k % 2) OBVIOUS
<1> QED BY <1>1 DEF BufOf

LEMMA FramesAreReadThen ==
  ASSUME ReadingInv
  PROVE  FramesAreRead
<1>1. FramingTypes /\ events \in Seq(Event) BY DEF ReadingInv
<1>2. DOMAIN hits = 1 .. Len(hits) /\ DOMAIN sent = 1 .. Len(hits) /\ DOMAIN events = 1 .. Len(events)
  BY <1>1 DEF FramingTypes
<1>3. SUFFICES ASSUME NoHits(hits)
               PROVE  /\ \A i \in DOMAIN events :
                           events[i].to \in {"sembei", "core"}
                             => SubSeq(buf[events[i].buf], 1, Len(events[i].content)) = events[i].content
                      /\ \A k \in forgotten : sent[k].kind = "request"
  BY <1>2 DEF FramesAreRead, NoTornRead, PacketsAreRead, NoHits
<1>4. CASE side = "PC"
  <2>1. events = <<>> /\ forgotten = {} BY <1>4 DEF ReadingInv
  <2> QED BY <2>1
<1>5. CASE side = "mote"
  <2>1. PICK D, pl, ev : Reading(D, pl, ev) BY <1>3, <1>5 DEF ReadingInv
  <2>2. Posted(D, ev) /\ \A k \in forgotten : sent[k].kind = "request" BY <2>1 DEF Reading
  <2>3. ASSUME NEW i \in 1 .. Len(events), events[i].to \in {"sembei", "core"}
        PROVE  SubSeq(buf[events[i].buf], 1, Len(events[i].content)) = events[i].content
    <3>1. ev[i] # 0 BY <2>2, <2>3 DEF Posted
    <3> QED BY <2>2, <3>1 DEF Posted
  <2> QED BY <1>2, <2>2, <2>3
<1> QED BY <1>1, <1>4, <1>5 DEF FramingTypes

LEMMA ReadingStarts == FramingInit => ReadingInv
<1> SUFFICES ASSUME FramingInit PROVE ReadingInv OBVIOUS
<1>1. FramingTypes
  <2>1. FramingInv BY FramingStarts
  <2> QED BY <2>1 DEF FramingInv
<1> DEFINE none == [i \in 1 .. 0 |-> 0]
<1>2. Framing(0, none, none)
  <2>1. Stream(sent, line, 0, none, none) BY DEF FramingInit, Stream
  <2>2. rx.esc = FALSE /\ line = <<>> BY DEF FramingInit, Reset
  <2> QED BY <2>1, <2>2 DEF Framing, Clean, Taken, Found
<1>3. Reading(0, none, none)
  <2>1. events = <<>> /\ line = <<>> /\ sent = <<>> /\ rx = Reset /\ cur = 1 /\ asked = 0 /\ forgotten = {}
        /\ waits = FALSE /\ Len(events) = 0 /\ Len(sent) = 0 /\ Len(line) = 0
    BY DEF FramingInit
  <2>2. cur = BufOf(0 + 1)
    <3>1. 1 % 2 = 1 OBVIOUS
    <3> QED BY <2>1, <3>1 DEF BufOf
  <2>3. Posted(0, none) BY <2>1 DEF Posted
  <2>4. InOrder(events, 0, none) /\ OneOfEach(0, none) /\ Late(0, none) /\ Waiting
    BY <2>1 DEF InOrder, OneOfEach, Late, Waiting
  <2> QED BY <2>1, <2>2, <2>3, <2>4 DEF Reading
<1>4. events \in Seq(Event) /\ events = <<>> /\ forgotten = {} BY DEF FramingInit
<1> QED BY <1>1, <1>2, <1>3, <1>4 DEF ReadingInv

LEMMA OneMore ==
  ASSUME NEW T, NEW x \in Seq(T), NEW e \in T
  PROVE  /\ Append(x, e) \in Seq(T) /\ Len(Append(x, e)) = Len(x) + 1 /\ Len(x) \in Nat
         /\ \A i \in 1 .. Len(x) : Append(x, e)[i] = x[i]
         /\ Append(x, e)[Len(x) + 1] = e
  OBVIOUS

OnlyTwo(D, ev, k, l) ==
  /\ pending /\ asked = 1
  /\ \A j \in 1 .. Len(sent) : IsOut(j, D, ev) => j \in {k, l}

\* Three frames are never out.
LEMMA NoThird ==
  ASSUME sent \in Seq(FrameSent), NEW D, NEW ev, OneOfEach(D, ev),
         NEW k \in 1 .. Len(sent), NEW l \in 1 .. Len(sent), k # l, IsOut(k, D, ev), IsOut(l, D, ev)
  PROVE  OnlyTwo(D, ev, k, l)
<1>1. \A j \in 1 .. Len(sent) : sent[j].kind \in {"packet", "request"}
  <2>1. \A j \in 1 .. Len(sent) : sent[j] \in FrameSent OBVIOUS
  <2> QED BY <2>1 DEF FrameSent
<1> DEFINE Kind(j) == sent[j].kind
<1>2. \A j \in 1 .. Len(sent) : IsOut(j, D, ev)
        => (Kind(j) = "packet" => pending) /\ (Kind(j) = "request" => asked = 1)
  BY DEF OneOfEach
<1>3. \A i, j \in 1 .. Len(sent) : IsOut(i, D, ev) /\ IsOut(j, D, ev) /\ Kind(i) = Kind(j) => i = j
  BY DEF OneOfEach
<1>4. Kind(k) \in {"packet", "request"} /\ Kind(l) \in {"packet", "request"} /\ Kind(k) # Kind(l)
  BY <1>1, <1>3
<1>5. pending /\ asked = 1 BY <1>2, <1>4
<1>6. ASSUME NEW j \in 1 .. Len(sent), IsOut(j, D, ev) PROVE j \in {k, l}
  <2>1. Kind(j) \in {"packet", "request"} BY <1>1
  <2>2. Kind(j) = Kind(k) \/ Kind(j) = Kind(l) BY <1>4, <2>1
  <2> QED BY <1>3, <1>6, <2>2
<1> QED BY <1>5, <1>6 DEF OnlyTwo

\* What a reading mote has on its line, without a text and without damage.
LEMMA ReadingLine ==
  ASSUME FramingTypes, line # <<>>, NEW D, NEW fr, NEW pl, Framing(D, fr, pl),
         \A i \in 1 .. Len(line) : pl[i] >= 1, NoHits(hits)
  PROVE  /\ fr[1] = D + 1 /\ fr[1] \in 1 .. Len(sent) /\ pl[1] >= 1 /\ pl[1] <= Closing(sent, fr[1])
         /\ pl[1] \in Nat /\ Closing(sent, fr[1]) \in Nat
         /\ Intact(hits, fr[1]) /\ Head(line).o = Framed(sent[fr[1]].content)[pl[1]]
         /\ \A i \in 1 .. Len(Tail(line)) : Rest(pl, Len(line))[i] >= 1
         /\ pl[1] # Closing(sent, fr[1]) => Tail(line) # <<>> /\ Rest(pl, Len(line))[1] # 1
         /\ pl[1] = Closing(sent, fr[1]) /\ Tail(line) # <<>> => D + 2 \in 1 .. Len(sent)
<1>1. /\ line \in Seq(OnLine) /\ sent \in Seq(FrameSent) /\ hits \in Seq(Nat) /\ Len(hits) = Len(sent)
      /\ Stream(sent, line, D, fr, pl)
  BY DEF FramingTypes, Framing
<1> DEFINE k == fr[1]
           p == pl[1]
           m == Len(line)
           f == Rest(fr, m)
           q == Rest(pl, m)
<1>2. /\ m \in Nat /\ m >= 1 /\ Head(line) = line[1] /\ Len(Tail(line)) = m - 1
      /\ Tail(line) \in Seq(OnLine)
  BY <1>1, TailFacts
<1>3. /\ k \in 0 .. Len(sent) /\ p \in Nat /\ Placed(sent, line[1], k, p)
      /\ p # 0 => k \in 1 .. Len(sent) /\ p <= Closing(sent, k) /\ D = k - 1
      /\ Tail(line) # <<>> => /\ Follows(sent, line[1], k, p, f[1], q[1])
                              /\ f[1] \in 0 .. Len(sent) /\ q[1] \in Nat
  BY <1>1, HeadOfLine
<1>4. p >= 1 /\ p # 0 BY <1>2, <1>3
<1>5. Intact(hits, k)
  <2>1. \A j \in 1 .. Len(hits) : hits[j] = 0 BY <1>1 DEF NoHits
  <2>2. k \in 1 .. Len(hits) /\ (k > 1 => k - 1 \in 1 .. Len(hits)) BY <1>1, <1>3, <1>4
  <2> QED BY <2>1, <2>2 DEF Intact
<1>6. line[1].o = Framed(sent[k].content)[p] BY <1>3, <1>4 DEF Placed
<1>7. \A i \in 1 .. m - 1 : q[i] >= 1
  <2>1. \A i \in 1 .. m - 1 : i + 1 \in 1 .. m /\ q[i] = pl[i + 1] BY <1>2 DEF Rest
  <2> QED BY <2>1
<1>8. Closing(sent, k) \in Nat BY <1>1, <1>3, <1>4, ClosingFacts
<1>9. CleanNext(sent, line[1], Tail(line) = <<>>, k, p, f[1], q[1]) BY <1>1, CleanAfter
<1> HIDE DEF f, q
<1>10. p # Closing(sent, k) => Tail(line) # <<>> /\ q[1] # 1
  BY <1>4, <1>9 DEF CleanNext, Complete
<1>11. ASSUME p = Closing(sent, k), Tail(line) # <<>> PROVE D + 2 \in 1 .. Len(sent)
  <2>1. m >= 2
    <3> DEFINE t == Tail(line)
    <3>1. t \in Seq(OnLine) /\ t # <<>> /\ Len(t) = m - 1 BY <1>2, <1>11
    <3> HIDE DEF t
    <3>2. Len(t) >= 1 BY <3>1
    <3> QED BY <1>2, <3>1, <3>2
  <2>2. q[1] >= 1 BY <1>2, <1>7, <2>1
  <2>3. f[1] = k + 1 BY <1>3, <1>4, <1>8, <1>11, <2>2 DEF Follows
  <2> QED BY <1>1, <1>3, <1>4, <1>11, <2>3
<1> QED BY <1>1, <1>2, <1>3, <1>4, <1>5, <1>6, <1>7, <1>8, <1>10, <1>11 DEF f, q

\* An octet inside a frame leaves what is read alone.
LEMMA ReadingOn ==
  ASSUME FramingTypes, ReceiveOctet, NEW D \in Nat, NEW fr, NEW pl, Framing(D, fr, pl), NoHits(hits),
         NEW ev, Reading(D, pl, ev), pl[1] # Closing(sent, fr[1]), NEW pl2, pl2 = Rest(pl, Len(line))
  PROVE  Reading(D, pl2, ev)'
<1>1. /\ line # <<>> /\ line' = Tail(line) /\ UNCHANGED <<sent, waits, pending, forgotten, asked>>
  BY DEF ReceiveOctet, processes
<1>2. /\ \A i \in 1 .. Len(line) : pl[i] >= 1
      /\ line = <<>> \/ pl[1] = 1 => rx = Reset
      /\ cur = BufOf(D + 1) /\ asked \in {0, 1}
      /\ Posted(D, ev) /\ InOrder(events, D, ev) /\ OneOfEach(D, ev) /\ Late(D, ev) /\ Waiting
      /\ \A k \in forgotten : k \in 1 .. Len(sent) /\ sent[k].kind = "request"
  BY DEF Reading
<1>3. /\ fr[1] \in 1 .. Len(sent) /\ pl[1] >= 1 /\ pl[1] < Closing(sent, fr[1])
      /\ Intact(hits, fr[1]) /\ Head(line).o = Framed(sent[fr[1]].content)[pl[1]]
      /\ \A i \in 1 .. Len(Tail(line)) : pl2[i] >= 1
      /\ Tail(line) # <<>> /\ pl2[1] # 1
  BY <1>1, <1>2, ReadingLine
<1>4. sent \in Seq(FrameSent) BY DEF FramingTypes
<1>5. OtherKept
  <2>1. CASE pl[1] # 1 BY <1>3, <2>1, TakesNext
  <2>2. CASE pl[1] = 1
    <3>1. Head(line).o = Boundary BY <1>3, <1>4, <2>2, ClosingFacts
    <3>2. ~ rx.esc /\ ~ rx.overflow /\ rx.len < HeaderLen
      <4>1. rx = Reset /\ HeaderLen \in Nat \ {0} BY <1>2, <2>2, FramingAssumption
      <4> QED BY <4>1 DEF Reset
    <3>3. UNCHANGED <<buf, cur, events>> BY <3>1, <3>2, ReceiveFacts
    <3> QED BY <3>3 DEF OtherKept
  <2> QED BY <2>1, <2>2
<1>6. cur' = cur /\ events' = events /\ \A c \in {1, 2} : c # cur => buf'[c] = buf[c]
  BY <1>5 DEF OtherKept
<1>7. \A i \in 1 .. Len(events) : ev[i] \in 0 .. D /\ (ev[i] # 0 => ev[i] = D)
  <2>1. \A i \in 1 .. Len(events) : ev[i] \in 0 .. D BY <1>2 DEF Posted
  <2> QED BY <1>1, <1>2, <2>1 DEF Late
<1>8. Posted(D, ev)'
  <2>1. ASSUME NEW i \in 1 .. Len(events), ev[i] # 0
        PROVE  buf'[BufOf(ev[i])] = buf[BufOf(ev[i])]
    <3>1. ev[i] = D BY <1>7, <2>1
    <3>2. BufOf(D) \in {1, 2} /\ BufOf(D) # cur BY <1>2, BufOfFacts
    <3> QED BY <1>6, <3>1, <3>2
  <2>2. ASSUME NEW i \in 1 .. Len(events), ev[i] # 0
        PROVE  SubSeq(buf'[BufOf(ev[i])], 1, Len(events[i].content)) = events[i].content
    <3>1. SubSeq(buf[BufOf(ev[i])], 1, Len(events[i].content)) = events[i].content
      BY <1>2, <2>2 DEF Posted
    <3>2. buf'[BufOf(ev[i])] = buf[BufOf(ev[i])] BY <2>1, <2>2
    <3> QED BY <3>1, <3>2
  <2>3. sent' = sent /\ events' = events BY <1>1, <1>6
  <2>4. /\ ev \in [1 .. Len(events) -> 0 .. D]
        /\ \A i \in 1 .. Len(events) :
             IF ev[i] = 0 THEN events[i].to = "continue"
             ELSE /\ events[i].to \in {"sembei", "core"}
                  /\ events[i].buf = BufOf(ev[i]) /\ events[i].content = OfFrame(ev[i], sent[ev[i]].content)
                  /\ events[i].to = "core" => sent[ev[i]].kind = "packet"
    BY <1>2 DEF Posted
  <2> QED BY <2>2, <2>3, <2>4 DEF Posted
<1>9. InOrder(events, D, ev)' BY <1>2, <1>6
<1>10. OneOfEach(D, ev)' BY <1>1, <1>2 DEF OneOfEach
<1>11. Late(D, ev)' BY <1>6, <1>7 DEF Late
<1>12. Waiting' BY <1>1, <1>2, <1>6 DEF Waiting
<1>13. ~ (line' = <<>> \/ pl2[1] = 1) BY <1>1, <1>3
<1>14. \A i \in 1 .. Len(line') : pl2[i] >= 1 BY <1>1, <1>3
<1> QED BY <1>1, <1>2, <1>6, <1>8, <1>9, <1>10, <1>11, <1>12, <1>13, <1>14 DEF Reading

\* A frame's closing boundary posts an event of it.
LEMMA ReadingEnd ==
  ASSUME FramingTypes, events \in Seq(Event), side = "mote", ReceiveOctet,
         NEW D \in Nat, NEW fr, NEW pl, Framing(D, fr, pl), NoHits(hits),
         NEW ev, Reading(D, pl, ev), pl[1] = Closing(sent, fr[1]), NEW pl2, pl2 = Rest(pl, Len(line)),
         NEW ev2, ev2 = [i \in 1 .. Len(events) + 1 |-> IF i <= Len(events) THEN ev[i] ELSE D + 1]
  PROVE  Reading(D + 1, pl2, ev2)'
<1> DEFINE n == Len(events)
           K == D + 1
           rec == [to |-> "sembei", buf |-> cur, content |-> Received]
<1>1. /\ line # <<>> /\ line' = Tail(line) /\ UNCHANGED <<sent, waits, pending, forgotten, asked>>
  BY DEF ReceiveOctet, processes
<1>2. /\ \A i \in 1 .. Len(line) : pl[i] >= 1
      /\ cur = BufOf(D + 1) /\ asked \in {0, 1}
      /\ Posted(D, ev) /\ InOrder(events, D, ev) /\ OneOfEach(D, ev) /\ Late(D, ev) /\ Waiting
      /\ \A k \in forgotten : k \in 1 .. Len(sent) /\ sent[k].kind = "request"
  BY DEF Reading
<1>3. /\ fr[1] = K /\ K \in 1 .. Len(sent) /\ pl[1] >= 1 /\ Intact(hits, fr[1])
      /\ \A i \in 1 .. Len(Tail(line)) : pl2[i] >= 1
      /\ Tail(line) # <<>> => D + 2 \in 1 .. Len(sent)
  BY <1>1, <1>2, ReadingLine
<1>4. /\ FrameEnds /\ Received = OfFrame(K, sent[K].content)
      /\ Received = SubSeq(buf[cur], 1, Len(Received))
  BY <1>3, FindsIntact
<1>5. sent \in Seq(FrameSent) /\ cur \in {1, 2} /\ n \in Nat BY DEF FramingTypes
<1>6. rx' = Reset /\ buf' = buf /\ events' = Append(events, rec) /\ cur' = 3 - cur
  BY <1>4 DEF FrameEnds, NextBuffer
<1>7. cur' = BufOf(K + 1) BY <1>2, <1>6, BufOfFacts
<1>8. /\ Len(events') = n + 1 /\ events'[n + 1] = rec /\ \A i \in 1 .. n : events'[i] = events[i]
  <2>1. Len(Append(events, rec)) = n + 1 /\ Append(events, rec)[n + 1] = rec
        /\ \A i \in 1 .. n : Append(events, rec)[i] = events[i]
    OBVIOUS
  <2> QED BY <1>6, <2>1
<1>9. ev \in [1 .. n -> 0 .. D]
      /\ \A i \in 1 .. n :
             IF ev[i] = 0 THEN events[i].to = "continue"
             ELSE /\ events[i].to \in {"sembei", "core"}
                  /\ events[i].buf = BufOf(ev[i]) /\ events[i].content = OfFrame(ev[i], sent[ev[i]].content)
                  /\ SubSeq(buf[BufOf(ev[i])], 1, Len(events[i].content)) = events[i].content
                  /\ events[i].to = "core" => sent[ev[i]].kind = "packet"
  BY <1>2 DEF Posted
<1>10. /\ ev2 \in [1 .. n + 1 -> 0 .. K] /\ ev2[n + 1] = K /\ \A i \in 1 .. n : ev2[i] = ev[i]
  BY <1>5, <1>9
<1>11. \A i \in 1 .. n : ev[i] \in 0 .. D /\ ev[i] < K BY <1>9
<1>r. rec.to = "sembei" /\ rec.buf = cur /\ rec.content = Received OBVIOUS
<1> HIDE DEF n, K, rec
<1>12. \A i \in 1 .. n + 1 : i \in 1 .. n \/ i = n + 1 BY <1>5
<1>13. Posted(K, ev2)'
  <2>1. ASSUME NEW i \in 1 .. n + 1
        PROVE  IF ev2[i] = 0 THEN events'[i].to = "continue"
               ELSE /\ events'[i].to \in {"sembei", "core"}
                    /\ events'[i].buf = BufOf(ev2[i])
                    /\ events'[i].content = OfFrame(ev2[i], sent[ev2[i]].content)
                    /\ SubSeq(buf[BufOf(ev2[i])], 1, Len(events'[i].content)) = events'[i].content
                    /\ events'[i].to = "core" => sent[ev2[i]].kind = "packet"
    <3>1. CASE i \in 1 .. n
      <4>1. ev2[i] = ev[i] /\ events'[i] = events[i] BY <1>8, <1>10, <3>1
      <4> QED BY <1>9, <3>1, <4>1
    <3>2. CASE i = n + 1
      <4>1. ev2[i] = K /\ events'[i] = rec /\ K # 0 BY <1>3, <1>8, <1>10, <3>2
      <4>2. cur = BufOf(K) BY <1>2 DEF K
      <4>3. SubSeq(buf[BufOf(K)], 1, Len(rec.content)) = rec.content BY <1>4, <1>r, <4>2
      <4> QED BY <1>4, <1>r, <4>1, <4>2, <4>3
    <3> QED BY <1>12, <3>1, <3>2
  <2>2. sent' = sent /\ buf' = buf /\ Len(events') = n + 1 BY <1>1, <1>6, <1>8
  <2> QED BY <1>10, <2>1, <2>2 DEF Posted, K
<1>14. InOrder(events', K, ev2)
  <2>1. /\ \A i, j \in 1 .. n :
             events[j].to = "sembei" /\ (events[i].to = "core" \/ (events[i].to = "sembei" /\ i < j)) => ev[i] < ev[j]
        /\ \A i, j \in 1 .. n : events[i].to = "core" /\ events[j].to = "core" => i = j
        /\ \A i \in 1 .. n : events[i].to = "sembei" /\ ev[i] < D
             => \E j \in 1 .. n : events[j].to = "sembei" /\ ev[j] = ev[i] + 1
    BY <1>2 DEF InOrder, n
  <2>2. events'[n + 1].to = "sembei" /\ ev2[n + 1] = K /\ n + 1 \in 1 .. n + 1 BY <1>5, <1>8, <1>10, <1>r
  <2>3. \A i \in 1 .. n : events'[i] = events[i] /\ ev2[i] = ev[i] /\ ev2[i] < K /\ i \in 1 .. n + 1
    BY <1>5, <1>8, <1>10, <1>11
  <2>4. ASSUME NEW i \in 1 .. n + 1, NEW j \in 1 .. n + 1, events'[j].to = "sembei",
               events'[i].to = "core" \/ (events'[i].to = "sembei" /\ i < j)
        PROVE  ev2[i] < ev2[j]
    <3>1. i \in 1 .. n
      <4>1. CASE events'[i].to = "core" BY <1>12, <2>2, <4>1
      <4>2. CASE i < j BY <1>5, <4>2
      <4> QED BY <2>4, <4>1, <4>2
    <3>2. CASE j \in 1 .. n BY <2>1, <2>3, <2>4, <3>1, <3>2
    <3>3. CASE j = n + 1 BY <2>2, <2>3, <3>1, <3>3
    <3> QED BY <1>12, <3>2, <3>3
  <2>5. ASSUME NEW i \in 1 .. n + 1, NEW j \in 1 .. n + 1, events'[i].to = "core", events'[j].to = "core"
        PROVE  i = j
    <3>1. i \in 1 .. n /\ j \in 1 .. n BY <1>12, <2>2, <2>5
    <3> QED BY <2>1, <2>3, <2>5, <3>1
  <2>6. ASSUME NEW i \in 1 .. n + 1, events'[i].to = "sembei", ev2[i] < K
        PROVE  \E j \in 1 .. n + 1 : events'[j].to = "sembei" /\ ev2[j] = ev2[i] + 1
    <3>1. i \in 1 .. n
      <4>1. i # n + 1 BY <1>3, <2>2, <2>6
      <4> QED BY <1>12, <4>1
    <3>2. CASE ev[i] < D
      <4>1. PICK j \in 1 .. n : events[j].to = "sembei" /\ ev[j] = ev[i] + 1 BY <2>1, <2>3, <2>6, <3>1, <3>2
      <4> QED BY <2>3, <3>1, <4>1
    <3>3. CASE ~ (ev[i] < D)
      <4>1. ev[i] = D BY <1>11, <3>1, <3>3
      <4>2. ev2[n + 1] = ev2[i] + 1 BY <2>2, <2>3, <3>1, <4>1 DEF K
      <4> QED BY <2>2, <4>2
    <3> QED BY <3>2, <3>3
  <2>7. Len(events') = n + 1 BY <1>8
  <2> QED BY <2>4, <2>5, <2>6, <2>7 DEF InOrder
<1>15. \A j \in 1 .. Len(sent) : IsOut(j, K, ev2) <=> IsOut(j, D, ev)
  <2>1. DOMAIN ev = 1 .. n /\ DOMAIN ev2 = 1 .. n + 1 BY <1>9, <1>10
  <2>2. TAKE j \in 1 .. Len(sent)
  <2>3. j > D <=> j > K \/ j = K BY DEF K
  <2>4. (\E i \in 1 .. n + 1 : ev2[i] = j) <=> (j = K \/ \E i \in 1 .. n : ev[i] = j)
    <3>1. ASSUME NEW i \in 1 .. n + 1, ev2[i] = j PROVE j = K \/ \E x \in 1 .. n : ev[x] = j
      BY <1>10, <1>12, <3>1
    <3>2. ASSUME NEW i \in 1 .. n, ev[i] = j PROVE \E x \in 1 .. n + 1 : ev2[x] = j
      <4>1. i \in 1 .. n + 1 /\ ev2[i] = j BY <1>5, <1>10, <3>2
      <4> QED BY <4>1
    <3>3. n + 1 \in 1 .. n + 1 BY <1>5
    <3> QED BY <1>10, <3>1, <3>2, <3>3
  <2> QED BY <2>1, <2>3, <2>4 DEF IsOut
<1>16. OneOfEach(K, ev2)
  BY <1>2, <1>15 DEF OneOfEach
<1>17. \A i \in 1 .. n + 1 : ev2[i] # 0 /\ ev2[i] < K => line' = <<>> /\ pending /\ asked = 1
  <2> SUFFICES ASSUME NEW i \in 1 .. n + 1, ev2[i] # 0, ev2[i] < K
               PROVE  line' = <<>> /\ pending /\ asked = 1
    OBVIOUS
  <2> DEFINE j == ev2[i]
  <2>1. j \in 1 .. Len(sent) /\ j # K /\ IsOut(j, K, ev2)
    <3>1. j \in 0 .. K /\ i \in DOMAIN ev2 BY <1>10
    <3> QED BY <1>3, <1>5, <3>1 DEF IsOut
  <2>2. K \in 1 .. Len(sent) /\ IsOut(K, K, ev2)
    <3>1. n + 1 \in DOMAIN ev2 /\ ev2[n + 1] = K BY <1>5, <1>10
    <3> QED BY <1>3, <3>1 DEF IsOut
  <2> HIDE DEF j
  <2>3. /\ pending /\ asked = 1
        /\ \A l \in 1 .. Len(sent) : IsOut(l, K, ev2) => l \in {j, K}
    <3>1. OnlyTwo(K, ev2, j, K) BY <1>5, <1>16, <2>1, <2>2, NoThird
    <3> QED BY <3>1 DEF OnlyTwo
  <2>4. Tail(line) = <<>>
    <3> SUFFICES ASSUME Tail(line) # <<>> PROVE FALSE OBVIOUS
    <3> DEFINE l == D + 2
    <3>1. l \in 1 .. Len(sent) /\ l > K /\ l # K BY <1>3 DEF K
    <3> HIDE DEF l
    <3>2. IsOut(l, K, ev2) BY <3>1 DEF IsOut
    <3>3. l = j BY <2>3, <3>1, <3>2
    <3>4. j < K BY DEF j
    <3> QED BY <1>3, <2>1, <3>1, <3>3, <3>4
  <2> QED BY <1>1, <2>3, <2>4
<1>18. Waiting'
  <2>1. /\ waits => \E j \in 1 .. n : events[j].to = "continue"
        /\ \A j \in 1 .. n : events[j].to = "continue" /\ j > 1 => events[j - 1].to = "core"
    BY <1>2 DEF Waiting, n
  <2>2. waits' => \E j \in 1 .. n + 1 : events'[j].to = "continue" BY <1>1, <1>5, <1>8, <2>1
  <2>3. ASSUME NEW j \in 1 .. n + 1, events'[j].to = "continue", j > 1
        PROVE  events'[j - 1].to = "core"
    <3>1. j # n + 1 BY <1>8, <1>r, <2>3
    <3>2. j \in 1 .. n /\ j - 1 \in 1 .. n BY <1>5, <1>12, <2>3, <3>1
    <3> QED BY <1>8, <2>1, <2>3, <3>2
  <2> QED BY <1>8, <2>2, <2>3 DEF Waiting
<1>19. InOrder(events, K, ev2)' /\ OneOfEach(K, ev2)' /\ Late(K, ev2)'
  <2>1. OneOfEach(K, ev2)' BY <1>1, <1>16 DEF OneOfEach, K
  <2>2. Late(K, ev2)' BY <1>1, <1>8, <1>17 DEF Late, K
  <2>3. InOrder(events, K, ev2)' BY <1>14 DEF K
  <2> QED BY <2>1, <2>2, <2>3
<1>20. \A i \in 1 .. Len(line') : pl2[i] >= 1 BY <1>1, <1>3
<1>21. Reading(K, pl2, ev2)'
  BY <1>1, <1>2, <1>6, <1>7, <1>13, <1>18, <1>19, <1>20 DEF Reading, K
<1> QED BY <1>21 DEF K

LEMMA ReadingReceive ==
  ASSUME ReadingInv, ReceiveOctet
  PROVE  ReadingInv'
<1>1. FramingTypes /\ events \in Seq(Event) BY DEF ReadingInv
<1>2. PICK D, fr, pl : /\ Framing(D, fr, pl)
                       /\ side = "mote" /\ NoHits(hits) => \E ev : Reading(D, pl, ev)
  BY DEF ReadingInv
<1>3. PICK D2, fr2, pl2 :
        /\ Framing(D2, fr2, pl2)'
        /\ D2 = IF pl[1] >= 1 /\ pl[1] = Closing(sent, fr[1]) THEN D + 1 ELSE D
        /\ fr2 = Rest(fr, Len(line)) /\ pl2 = Rest(pl, Len(line))
  BY <1>1, <1>2, ReceiveFraming
<1>4. FramingTypes' BY <1>1, <1>2, ReceiveFraming
<1>5. side' = side /\ hits' = hits /\ forgotten' = forgotten /\ line # <<>>
  BY DEF ReceiveOctet, processes
<1>6. events' \in Seq(Event) /\ (side = "PC" => events' = events)
  <2>1. FrameEnds \/ events' = events
    BY DEF ReceiveOctet, TakeBoundary, TakeData, Store, Resync
  <2>2. CASE FrameEnds
    <3>1. Received \in Seq(InBuffer)
      <4> DEFINE row == buf[cur]
                 z == IF rx.len < MaxLen THEN rx.len ELSE MaxLen
      <4>1. row \in [1 .. MaxLen -> InBuffer] /\ MaxLen \in Nat /\ z \in Nat /\ z <= MaxLen
        <5>1. rx.len \in Nat /\ MaxLen \in Nat BY <1>1, FramingAssumption DEF FramingTypes, Receiver
        <5>2. row \in [1 .. MaxLen -> InBuffer] BY <1>1 DEF FramingTypes
        <5>3. z \in Nat /\ z <= MaxLen
          <6> DEFINE l == rx.len
          <6>1. l \in Nat BY <5>1
          <6> HIDE DEF l
          <6>2. (IF l < MaxLen THEN l ELSE MaxLen) \in Nat /\ (IF l < MaxLen THEN l ELSE MaxLen) <= MaxLen
            BY <5>1, <6>1
          <6> QED BY <6>2 DEF l
        <5> QED BY <5>1, <5>2, <5>3
      <4>2. row \in Seq(InBuffer) /\ Len(row) = MaxLen BY <4>1
      <4> HIDE DEF row, z
      <4>3. SubSeq(row, 1, z) \in Seq(InBuffer) BY <4>1, <4>2
      <4> QED BY <4>3 DEF row, z, Received
    <3>2. [to |-> "sembei", buf |-> cur, content |-> Received] \in Event
      BY <1>1, <3>1 DEF Event, FramingTypes
    <3> QED BY <1>1, <2>2, <3>2, OneMore DEF FrameEnds
  <2>3. CASE events' = events BY <1>1, <2>3
  <2>4. side = "PC" => events' = events BY <2>1 DEF FrameEnds
  <2> QED BY <2>1, <2>2, <2>3, <2>4
<1>7. ASSUME side = "mote", NoHits(hits)
      PROVE  \E ev : Reading(D2, pl2, ev)'
  <2>1. PICK ev : Reading(D, pl, ev) BY <1>2, <1>7
  <2>2. D \in Nat BY <1>2 DEF Framing, Stream
  <2>3. pl[1] >= 1
    <3>1. \A i \in 1 .. Len(line) : pl[i] >= 1 BY <2>1 DEF Reading
    <3> QED BY <1>1, <1>2, <1>5, <1>7, <3>1, ReadingLine
  <2>4. CASE pl[1] # Closing(sent, fr[1])
    <3>1. D2 = D BY <1>3, <2>4
    <3>2. Reading(D, pl2, ev)' BY <1>1, <1>2, <1>3, <1>7, <2>1, <2>2, <2>4, ReadingOn
    <3> QED BY <3>1, <3>2
  <2>5. CASE pl[1] = Closing(sent, fr[1])
    <3>1. D2 = D + 1 BY <1>3, <2>3, <2>5
    <3>2. PICK ev2 : ev2 = [i \in 1 .. Len(events) + 1 |-> IF i <= Len(events) THEN ev[i] ELSE D + 1]
      OBVIOUS
    <3>3. Reading(D + 1, pl2, ev2)'
      BY <1>1, <1>2, <1>3, <1>7, <2>1, <2>2, <2>5, <3>2, ReadingEnd
    <3> QED BY <3>1, <3>3
  <2> QED BY <2>4, <2>5
<1>8. side' = "PC" => events' = <<>> /\ forgotten' = {} BY <1>5, <1>6 DEF ReadingInv
<1> QED BY <1>3, <1>4, <1>5, <1>6, <1>7, <1>8 DEF ReadingInv

LEMMA ReadingLose ==
  ASSUME ReadingInv, LoseOctet
  PROVE  ReadingInv'
<1>1. FramingInv BY DEF ReadingInv, FramingInv
<1>2. FramingInv' /\ ~ NoHits(hits') BY <1>1, LossKeeps DEF NoHits
<1>3. UNCHANGED <<side, events, forgotten>> BY DEF LoseOctet, processes
<1> QED BY <1>2, <1>3 DEF ReadingInv, FramingInv

\* The PC sends when it may.
LEMMA ReadingSends ==
  ASSUME FramingTypes, NEW D, NEW fr, NEW pl, Framing(D, fr, pl), NEW ev, Reading(D, pl, ev),
         NEW kind \in {"packet", "request"}, Transmit(kind),
         kind = "packet" => ~ pending /\ pending' /\ asked' = asked,
         kind = "request" => asked = 0 /\ asked' = 1 /\ pending' = pending,
         NEW pl2, pl2[1] = IF line = <<>> THEN 1 ELSE pl[1], \A i \in 1 .. Len(line') : pl2[i] >= 1,
         line' # <<>>, Len(sent') = Len(sent) + 1, sent'[Len(sent) + 1].kind = kind,
         \A j \in 1 .. Len(sent) : sent'[j] = sent[j]
  PROVE  Reading(D, pl2, ev)'
<1>1. UNCHANGED <<rx, buf, cur, events, waits, forgotten>> BY DEF Transmit, receiver
<1>2. /\ line = <<>> \/ pl[1] = 1 => rx = Reset
      /\ cur = BufOf(D + 1) /\ asked \in {0, 1}
      /\ Posted(D, ev) /\ InOrder(events, D, ev) /\ OneOfEach(D, ev) /\ Late(D, ev) /\ Waiting
      /\ \A k \in forgotten : k \in 1 .. Len(sent) /\ sent[k].kind = "request"
  BY DEF Reading
<1> DEFINE K == Len(sent) + 1
<1>3. sent \in Seq(FrameSent) /\ Len(sent) \in Nat /\ D \in 0 .. Len(sent)
  BY DEF FramingTypes, Framing, Stream
<1>4. asked' \in {0, 1} BY <1>2
<1>5. Posted(D, ev)'
  <2>1. ev \in [1 .. Len(events) -> 0 .. D] BY <1>2 DEF Posted
  <2>2. ASSUME NEW i \in 1 .. Len(events), ev[i] # 0 PROVE sent'[ev[i]] = sent[ev[i]]
    <3>1. ev[i] \in 1 .. Len(sent) BY <1>3, <2>1, <2>2
    <3> QED BY <3>1
  <2> QED BY <1>1, <1>2, <2>1, <2>2 DEF Posted
<1>6. \A i \in 1 .. Len(events) : ~ (ev[i] # 0 /\ ev[i] < D) BY <1>2 DEF Late
<1>7. Late(D, ev)' BY <1>1, <1>6 DEF Late
<1>8. InOrder(events, D, ev)' /\ Waiting' BY <1>1, <1>2 DEF Waiting
<1>9. \A j \in 1 .. Len(sent') : j \in 1 .. Len(sent) \/ j = K BY <1>3
<1>10. sent'[K].kind = kind OBVIOUS
<1> HIDE DEF K
<1>11. OneOfEach(D, ev)'
  <2>1. ASSUME NEW k \in 1 .. Len(sent'), IsOut(k, D, ev)
        PROVE  (sent'[k].kind = "packet" => pending') /\ (sent'[k].kind = "request" => asked' = 1)
    <3>1. CASE k = K BY <1>10, <3>1
    <3>2. CASE k \in 1 .. Len(sent)
      <4>1. (sent[k].kind = "packet" => pending) /\ (sent[k].kind = "request" => asked = 1)
        BY <1>2, <2>1, <3>2 DEF OneOfEach
      <4>2. sent'[k] = sent[k] BY <3>2
      <4>3. CASE kind = "packet" BY <4>1, <4>2, <4>3
      <4>4. CASE kind = "request" BY <4>1, <4>2, <4>4
      <4> QED BY <4>3, <4>4
    <3> QED BY <1>9, <3>1, <3>2
  <2>2. ASSUME NEW k \in 1 .. Len(sent'), NEW l \in 1 .. Len(sent'), IsOut(k, D, ev), IsOut(l, D, ev),
               sent'[k].kind = sent'[l].kind
        PROVE  k = l
    <3>1. ASSUME NEW x \in 1 .. Len(sent), IsOut(x, D, ev) PROVE sent'[x].kind # kind
      <4>1. (sent[x].kind = "packet" => pending) /\ (sent[x].kind = "request" => asked = 1)
        BY <1>2, <3>1 DEF OneOfEach
      <4>2. sent'[x] = sent[x] OBVIOUS
      <4>3. CASE kind = "packet" BY <4>1, <4>2, <4>3
      <4>4. CASE kind = "request" BY <4>1, <4>2, <4>4
      <4> QED BY <4>3, <4>4
    <3>2. CASE k \in 1 .. Len(sent) /\ l \in 1 .. Len(sent)
      <4>1. sent[k].kind = sent[l].kind BY <2>2, <3>2
      <4> QED BY <1>2, <2>2, <3>2, <4>1 DEF OneOfEach
    <3>3. CASE k = K /\ l \in 1 .. Len(sent) BY <1>10, <2>2, <3>1, <3>3
    <3>4. CASE k \in 1 .. Len(sent) /\ l = K BY <1>10, <2>2, <3>1, <3>4
    <3> QED BY <1>9, <3>2, <3>3, <3>4
  <2> QED BY <2>1, <2>2 DEF OneOfEach
<1>12. \A k \in forgotten' : k \in 1 .. Len(sent') /\ sent'[k].kind = "request"
  <2>1. \A k \in 1 .. Len(sent) : k \in 1 .. Len(sent') /\ sent'[k] = sent[k] BY <1>3
  <2> QED BY <1>1, <1>2, <2>1
<1> QED BY <1>1, <1>2, <1>4, <1>5, <1>7, <1>8, <1>11, <1>12 DEF Reading

LEMMA ReadingTransmits ==
  ASSUME ReadingInv, MaxAsked <= 1, NEW kind \in {"packet", "request"}, Transmit(kind),
         side = "mote" => \/ kind = "packet" /\ ~ pending /\ pending' /\ asked' = asked
                          \/ kind = "request" /\ asked < MaxAsked /\ asked' = asked + 1 /\ pending' = pending
  PROVE  ReadingInv'
<1>1. FramingTypes /\ events \in Seq(Event) BY DEF ReadingInv
<1>2. PICK D, fr, pl : /\ Framing(D, fr, pl)
                       /\ side = "mote" /\ NoHits(hits) => \E ev : Reading(D, pl, ev)
  BY DEF ReadingInv
<1>3. /\ FramingTypes' /\ line' # <<>> /\ hits' = Append(hits, 0) /\ Len(sent') = Len(sent) + 1
      /\ sent'[Len(sent) + 1].kind = kind /\ \A j \in 1 .. Len(sent) : sent'[j] = sent[j]
  BY <1>1, <1>2, TransmitFraming
<1>4. PICK fr2, pl2 : /\ Framing(D, fr2, pl2)'
                      /\ pl2[1] = IF line = <<>> THEN 1 ELSE pl[1]
                      /\ (\A i \in 1 .. Len(line) : pl[i] >= 1)
                           => \A i \in 1 .. Len(line') : pl2[i] >= 1
  BY <1>1, <1>2, TransmitFraming
<1>5. UNCHANGED <<side, events, forgotten>> BY DEF Transmit
<1>6. NoHits(hits') => NoHits(hits)
  <2>1. hits \in Seq(Nat) BY <1>1 DEF FramingTypes
  <2>2. \A j \in 1 .. Len(hits) : j \in DOMAIN hits' /\ hits'[j] = hits[j] BY <1>3, <2>1, OctetCount
  <2> QED BY <2>1, <2>2 DEF NoHits
<1>7. ASSUME side = "mote", NoHits(hits') PROVE \E ev : Reading(D, pl2, ev)'
  <2>1. PICK ev : Reading(D, pl, ev) BY <1>2, <1>6, <1>7
  <2>2. \A i \in 1 .. Len(line) : pl[i] >= 1 BY <2>1 DEF Reading
  <2>3. \A i \in 1 .. Len(line') : pl2[i] >= 1 BY <1>4, <2>2
  <2>4. asked \in {0, 1} BY <2>1 DEF Reading
  <2>5. kind = "packet" => ~ pending /\ pending' /\ asked' = asked BY <1>7
  <2>6. kind = "request" => asked = 0 /\ asked' = 1 /\ pending' = pending
    <3>1. CASE kind = "request"
      <4>1. asked < MaxAsked /\ asked' = asked + 1 /\ pending' = pending BY <1>7, <3>1
      <4>2. asked = 0
        <5>1. CASE asked = 1 BY <2>4, <4>1, <5>1, FramingAssumption
        <5> QED BY <2>4, <5>1
      <4> QED BY <4>1, <4>2
    <3> QED BY <3>1
  <2>7. Reading(D, pl2, ev)' BY <1>1, <1>2, <1>3, <1>4, <2>1, <2>3, <2>5, <2>6, ReadingSends
  <2> QED BY <2>7
<1>8. side' = "PC" => events' = <<>> /\ forgotten' = {} BY <1>5 DEF ReadingInv
<1> QED BY <1>1, <1>3, <1>4, <1>5, <1>7, <1>8 DEF ReadingInv

LEMMA ReadingPrints ==
  ASSUME ReadingInv, PrintText
  PROVE  ReadingInv'
<1>1. FramingInv BY DEF ReadingInv, FramingInv
<1>2. FramingInv' BY <1>1, PrintKeeps
<1>3. side = "PC" /\ UNCHANGED <<side, events, forgotten>> BY DEF PrintText, processes
<1> QED BY <1>2, <1>3 DEF ReadingInv, FramingInv

LEMMA EventsFacts ==
  ASSUME events \in Seq(Event), events # <<>>
  PROVE  /\ Len(events) \in Nat /\ Len(events) >= 1 /\ Head(events) = events[1] /\ events[1] \in Event
         /\ Tail(events) \in Seq(Event) /\ Len(Tail(events)) = Len(events) - 1
         /\ \A i \in 1 .. Len(events) - 1 : Tail(events)[i] = events[i + 1]
  BY TailFacts

\* After a process has handled an event that is no more.
LEMMA ReadingTail ==
  ASSUME FramingTypes, events \in Seq(Event), events # <<>>, Handled(<<>>),
         NEW D, NEW fr, NEW pl, Framing(D, fr, pl), NEW ev, Reading(D, pl, ev),
         pending' = pending \/ (events[1].to = "core" /\ ~ pending'),
         waits' => waits /\ events[1].to # "continue",
         \A k \in forgotten' : k \in 1 .. Len(sent) /\ sent[k].kind = "request"
  PROVE  \E ev2 : Reading(D, pl, ev2)'
<1> DEFINE n == Len(events)
<1>z. PICK ev2 : ev2 = Rest(ev, n) OBVIOUS
<1>1. /\ n \in Nat /\ n >= 1 /\ Tail(events) \in Seq(Event) /\ Len(Tail(events)) = n - 1
      /\ \A i \in 1 .. n - 1 : Tail(events)[i] = events[i + 1]
  BY EventsFacts
<1>2. /\ events' = Tail(events) /\ asked' = (IF events' = <<>> /\ line = <<>> THEN 0 ELSE asked)
      /\ UNCHANGED <<sent, line, rx, buf, cur>>
  BY <1>1 DEF Handled, receiver
<1>3. /\ \A i \in 1 .. Len(line) : pl[i] >= 1
      /\ line = <<>> \/ pl[1] = 1 => rx = Reset
      /\ cur = BufOf(D + 1) /\ asked \in {0, 1}
      /\ Posted(D, ev) /\ InOrder(events, D, ev) /\ OneOfEach(D, ev) /\ Late(D, ev) /\ Waiting
  BY DEF Reading
<1>4. sent \in Seq(FrameSent) /\ Len(sent) \in Nat /\ D \in 0 .. Len(sent) /\ (line = <<>> => D = Len(sent))
  BY DEF FramingTypes, Framing, Stream
<1>5. ev \in [1 .. n -> 0 .. D] BY <1>3 DEF Posted
<1>6. \A i \in 1 .. n - 1 : i + 1 \in 1 .. n /\ ev2[i] = ev[i + 1] BY <1>1, <1>z DEF Rest
<1>7. ev2 \in [1 .. n - 1 -> 0 .. D] BY <1>1, <1>5, <1>z DEF Rest
<1> HIDE DEF n
<1>8. Len(events') = n - 1 /\ \A i \in 1 .. n - 1 : events'[i] = events[i + 1] BY <1>1, <1>2
<1>9. /\ \A i, j \in 1 .. n :
            events[j].to = "sembei" /\ (events[i].to = "core" \/ (events[i].to = "sembei" /\ i < j)) => ev[i] < ev[j]
      /\ \A i, j \in 1 .. n : events[i].to = "core" /\ events[j].to = "core" => i = j
      /\ \A i \in 1 .. n : events[i].to = "sembei" /\ ev[i] < D
            => \E j \in 1 .. n : events[j].to = "sembei" /\ ev[j] = ev[i] + 1
  BY <1>3 DEF InOrder, n
<1>10. \A i \in 2 .. n : i - 1 \in 1 .. n - 1 /\ (i - 1) + 1 = i BY <1>1
<1>11. Posted(D, ev2)'
  <2>1. ASSUME NEW i \in 1 .. n - 1
        PROVE  IF ev2[i] = 0 THEN events'[i].to = "continue"
               ELSE /\ events'[i].to \in {"sembei", "core"}
                    /\ events'[i].buf = BufOf(ev2[i])
                    /\ events'[i].content = OfFrame(ev2[i], sent[ev2[i]].content)
                    /\ SubSeq(buf[BufOf(ev2[i])], 1, Len(events'[i].content)) = events'[i].content
                    /\ events'[i].to = "core" => sent[ev2[i]].kind = "packet"
    <3>1. i + 1 \in 1 .. n /\ ev2[i] = ev[i + 1] /\ events'[i] = events[i + 1] BY <1>6, <1>8
    <3> QED BY <1>3, <3>1 DEF Posted, n
  <2> QED BY <1>2, <1>7, <1>8, <2>1 DEF Posted
<1>12. InOrder(events', D, ev2)
  <2>1. ASSUME NEW i \in 1 .. n - 1, NEW j \in 1 .. n - 1, events'[j].to = "sembei",
               events'[i].to = "core" \/ (events'[i].to = "sembei" /\ i < j)
        PROVE  ev2[i] < ev2[j]
    <3>1. i + 1 \in 1 .. n /\ ev2[i] = ev[i + 1] /\ events'[i] = events[i + 1] BY <1>6, <1>8
    <3>2. j + 1 \in 1 .. n /\ ev2[j] = ev[j + 1] /\ events'[j] = events[j + 1] BY <1>6, <1>8
    <3>3. i < j => i + 1 < j + 1 BY <1>1
    <3> QED BY <1>9, <2>1, <3>1, <3>2, <3>3
  <2>2. ASSUME NEW i \in 1 .. n - 1, NEW j \in 1 .. n - 1, events'[i].to = "core", events'[j].to = "core"
        PROVE  i = j
    <3>1. i + 1 \in 1 .. n /\ events'[i] = events[i + 1] BY <1>6, <1>8
    <3>2. j + 1 \in 1 .. n /\ events'[j] = events[j + 1] BY <1>6, <1>8
    <3>3. i + 1 = j + 1 BY <1>9, <2>2, <3>1, <3>2
    <3> QED BY <3>3
  <2>3. ASSUME NEW i \in 1 .. n - 1, events'[i].to = "sembei", ev2[i] < D
        PROVE  \E j \in 1 .. n - 1 : events'[j].to = "sembei" /\ ev2[j] = ev2[i] + 1
    <3> DEFINE m == i + 1
    <3>1. m \in 1 .. n /\ ev2[i] = ev[m] /\ events'[i] = events[m] /\ 1 < m BY <1>6, <1>8
    <3>2. PICK j \in 1 .. n : events[j].to = "sembei" /\ ev[j] = ev[m] + 1 BY <1>9, <2>3, <3>1
    <3>3. j # 1
      <4>1. ev[m] \in Nat BY <1>5, <3>1
      <4>2. j = 1 => ev[1] < ev[m] BY <1>9, <2>3, <3>1, <3>2
      <4> QED BY <3>2, <4>1, <4>2
    <3>4. j - 1 \in 1 .. n - 1 /\ (j - 1) + 1 = j BY <1>1, <3>3
    <3>5. events'[j - 1] = events[j] /\ ev2[j - 1] = ev[j] BY <1>6, <1>8, <3>4
    <3> QED BY <3>1, <3>2, <3>4, <3>5
  <2> QED BY <1>8, <2>1, <2>2, <2>3 DEF InOrder
<1>13. ASSUME NEW k \in 1 .. Len(sent), IsOut(k, D, ev2)
       PROVE  IsOut(k, D, ev) /\ (k > D \/ \E i \in 1 .. n : i > 1 /\ ev[i] = k)
  <2>1. k > D \/ \E i \in 1 .. n : i > 1 /\ ev[i] = k
    <3>1. CASE k > D BY <3>1
    <3>2. CASE \E i \in DOMAIN ev2 : ev2[i] = k
      <4>1. PICK i \in 1 .. n - 1 : ev2[i] = k BY <1>7, <3>2
      <4>2. i + 1 \in 1 .. n /\ i + 1 > 1 /\ ev[i + 1] = k BY <1>6, <4>1
      <4> QED BY <4>2
    <3> QED BY <1>13, <3>1, <3>2 DEF IsOut
  <2> QED BY <1>5, <2>1 DEF IsOut
\* The packet that was read was the only one.
<1>14. ASSUME events[1].to = "core", NEW k \in 1 .. Len(sent), IsOut(k, D, ev2)
       PROVE  /\ sent[k].kind # "packet" /\ k # ev[1]
              /\ ev[1] \in 1 .. Len(sent) /\ IsOut(ev[1], D, ev)
  <2>1. 1 \in 1 .. n BY <1>1
  <2>2. ev[1] \in 0 .. D /\ ev[1] # 0 /\ sent[ev[1]].kind = "packet" BY <1>3, <1>5, <1>14, <2>1 DEF Posted, n
  <2>3. ev[1] \in 1 .. Len(sent) /\ IsOut(ev[1], D, ev)
    <3>1. 1 \in DOMAIN ev BY <1>5, <2>1
    <3> QED BY <1>4, <2>2, <3>1 DEF IsOut
  <2>4. k # ev[1]
    <3>1. CASE k > D BY <1>4, <2>2, <3>1
    <3>2. CASE \E i \in 1 .. n : i > 1 /\ ev[i] = k
      <4>1. PICK i \in 1 .. n : i > 1 /\ ev[i] = k BY <3>2
      <4>2. events[i].to \in {"sembei", "core"} /\ ev[i] \in Nat BY <1>3, <1>5, <1>14, <4>1 DEF Posted, n
      <4>3. events[i].to # "core" BY <1>9, <1>14, <2>1, <4>1
      <4>4. ev[1] < ev[i] BY <1>9, <1>14, <2>1, <4>2, <4>3
      <4> QED BY <2>2, <4>1, <4>4
    <3> QED BY <1>13, <1>14, <3>1, <3>2
  <2>5. sent[k].kind # "packet"
    <3>1. IsOut(k, D, ev) BY <1>13, <1>14
    <3> QED BY <1>3, <2>2, <2>3, <2>4, <3>1 DEF OneOfEach
  <2> QED BY <2>3, <2>4, <2>5
<1>15. OneOfEach(D, ev2)'
  <2>1. ASSUME NEW k \in 1 .. Len(sent), IsOut(k, D, ev2)
        PROVE  (sent[k].kind = "packet" => pending') /\ (sent[k].kind = "request" => asked' = 1)
    <3>1. (sent[k].kind = "packet" => pending) /\ (sent[k].kind = "request" => asked = 1)
      BY <1>3, <1>13, <2>1 DEF OneOfEach
    <3>2. asked' = asked
      <4>1. CASE k > D
        <5>1. line # <<>> BY <1>4, <4>1
        <5> QED BY <1>2, <5>1
      <4>2. CASE ~ (k > D)
        <5>1. PICK i \in 1 .. n - 1 : ev2[i] = k BY <1>7, <2>1, <4>2 DEF IsOut
        <5>2. Len(events') # 0 BY <1>1, <1>8, <5>1
        <5>3. events' # <<>> BY <5>2
        <5> QED BY <1>2, <5>3
      <4> QED BY <4>1, <4>2
    <3>3. CASE pending' = pending BY <3>1, <3>2, <3>3
    <3>4. CASE events[1].to = "core" BY <1>14, <2>1, <3>1, <3>2, <3>4
    <3> QED BY <3>3, <3>4
  <2>2. ASSUME NEW k \in 1 .. Len(sent), NEW l \in 1 .. Len(sent), IsOut(k, D, ev2), IsOut(l, D, ev2),
               sent[k].kind = sent[l].kind
        PROVE  k = l
    <3>1. IsOut(k, D, ev) /\ IsOut(l, D, ev) BY <1>13, <2>2
    <3> QED BY <1>3, <2>2, <3>1 DEF OneOfEach
  <2> QED BY <1>2, <2>1, <2>2 DEF OneOfEach
<1>16. Late(D, ev2)'
  <2> SUFFICES ASSUME NEW i \in 1 .. n - 1, ev2[i] # 0, ev2[i] < D
               PROVE  line = <<>> /\ pending' /\ asked' = 1
    BY <1>2, <1>8 DEF Late
  <2> DEFINE m == i + 1
             k == ev2[i]
  <2>1. m \in 1 .. n /\ k = ev[m] /\ events'[i] = events[m] /\ 1 < m BY <1>6, <1>8
  <2>2. line = <<>> /\ pending /\ asked = 1 BY <1>3, <2>1 DEF Late, n
  <2>3. asked' = asked
    <3>1. Len(events') # 0 BY <1>1, <1>8
    <3>2. events' # <<>> BY <3>1
    <3> QED BY <1>2, <3>2
  <2>4. CASE pending' = pending BY <2>2, <2>3, <2>4
  <2>5. CASE events[1].to = "core"
    <3>1. k \in 1 .. Len(sent) /\ IsOut(k, D, ev2)
      <4>1. k \in 0 .. D /\ i \in DOMAIN ev2 BY <1>7
      <4> QED BY <1>4, <4>1 DEF IsOut
    <3>2. k # ev[1] /\ ev[1] \in 1 .. Len(sent) /\ IsOut(ev[1], D, ev) BY <1>14, <2>5, <3>1
    <3>3. events[m].to = "sembei"
      <4>1. events[m].to \in {"sembei", "core"} BY <1>3, <2>1 DEF Posted, n
      <4>2. 1 \in 1 .. n /\ m # 1 BY <1>1, <2>1
      <4> QED BY <1>9, <2>1, <2>5, <4>1, <4>2
    <3>4. PICK j \in 1 .. n : events[j].to = "sembei" /\ ev[j] = ev[m] + 1 BY <1>9, <2>1, <3>3
    <3> DEFINE l == ev[j]
    <3>5. l \in 1 .. Len(sent) /\ l = k + 1 /\ IsOut(l, D, ev) /\ IsOut(k, D, ev)
      <4>1. j \in DOMAIN ev /\ l \in 0 .. D /\ k \in Nat /\ l = k + 1 BY <1>5, <2>1, <3>1, <3>4
      <4>2. IsOut(k, D, ev) BY <1>13, <3>1
      <4> QED BY <1>4, <4>1, <4>2 DEF IsOut
    <3>6. ev[1] < l
      <4>1. 1 \in 1 .. n BY <1>1
      <4> QED BY <1>9, <2>5, <3>4, <4>1
    <3> HIDE DEF k, l
    <3>7. k # l /\ ev[1] # l BY <3>1, <3>5, <3>6, <3>2
    <3>8. OnlyTwo(D, ev, k, l) BY <1>3, <1>4, <3>1, <3>5, <3>7, NoThird
    <3>9. ev[1] \in {k, l} BY <3>2, <3>8 DEF OnlyTwo
    <3> QED BY <3>2, <3>7, <3>9
  <2> QED BY <2>4, <2>5
<1>17. Waiting'
  <2>1. /\ waits => \E j \in 1 .. n : events[j].to = "continue"
        /\ \A j \in 1 .. n : events[j].to = "continue" /\ j > 1 => events[j - 1].to = "core"
    BY <1>3 DEF Waiting, n
  <2>2. ASSUME waits' PROVE \E j \in 1 .. n - 1 : events'[j].to = "continue"
    <3>1. PICK j \in 1 .. n : events[j].to = "continue" BY <2>1, <2>2
    <3>2. j # 1 BY <2>2, <3>1
    <3>3. j - 1 \in 1 .. n - 1 /\ (j - 1) + 1 = j BY <1>1, <3>2
    <3>4. events'[j - 1] = events[j] BY <1>8, <3>3
    <3> QED BY <3>1, <3>3, <3>4
  <2>3. ASSUME NEW j \in 1 .. n - 1, events'[j].to = "continue", j > 1
        PROVE  events'[j - 1].to = "core"
    <3>1. j + 1 \in 1 .. n /\ j + 1 > 1 /\ events'[j] = events[j + 1] /\ (j + 1) - 1 = j BY <1>6, <1>8
    <3>2. events[j].to = "core" BY <2>1, <2>3, <3>1
    <3> DEFINE i == j - 1
    <3>3. i \in 1 .. n - 1 /\ i + 1 = j BY <1>1, <2>3
    <3>4. events'[i] = events[j] BY <1>8, <3>3
    <3> QED BY <3>2, <3>4
  <2> QED BY <1>8, <2>2, <2>3 DEF Waiting
<1>18. asked' \in {0, 1} BY <1>2, <1>3
<1>19. InOrder(events, D, ev2)' BY <1>12
<1>20. Reading(D, pl, ev2)' BY <1>2, <1>3, <1>11, <1>15, <1>16, <1>17, <1>18, <1>19 DEF Reading
<1> QED BY <1>20

\* The mote's process hands the packet of its event to the core.
LEMMA ReadingPasses ==
  ASSUME FramingTypes, events \in Seq(Event), PassPacket,
         NEW D, NEW fr, NEW pl, Framing(D, fr, pl), NEW ev, Reading(D, pl, ev)
  PROVE  \E ev2 : Reading(D, pl, ev2)'
<1> DEFINE n == Len(events)
           passed == [events[1] EXCEPT !.to = "core"]
           continue == [to |-> "continue", buf |-> 0, content |-> <<>>]
<1>z. PICK ev2 : ev2 = [i \in 1 .. n + 1 |-> IF i < n THEN ev[i + 1] ELSE IF i = n THEN ev[1] ELSE 0]
  OBVIOUS
<1>1. /\ events # <<>> /\ n \in Nat /\ n >= 1 /\ Head(events) = events[1] /\ events[1] \in Event
      /\ Tail(events) \in Seq(Event) /\ Len(Tail(events)) = n - 1
      /\ \A i \in 1 .. n - 1 : Tail(events)[i] = events[i + 1]
  BY EventsFacts DEF PassPacket, First
<1>2. /\ events[1].to = "sembei" /\ MayBe("packet", events[1].content)
      /\ events' = Tail(events) \o <<passed, continue>>
      /\ asked' = (IF events' = <<>> /\ line = <<>> THEN 0 ELSE asked)
      /\ UNCHANGED <<sent, line, rx, buf, cur, pending, forgotten>>
  BY <1>1 DEF PassPacket, First, Handled, receiver
<1>3. /\ \A i \in 1 .. Len(line) : pl[i] >= 1
      /\ line = <<>> \/ pl[1] = 1 => rx = Reset
      /\ cur = BufOf(D + 1) /\ asked \in {0, 1}
      /\ Posted(D, ev) /\ InOrder(events, D, ev) /\ OneOfEach(D, ev) /\ Late(D, ev) /\ Waiting
      /\ \A k \in forgotten : k \in 1 .. Len(sent) /\ sent[k].kind = "request"
  BY DEF Reading
<1>4. sent \in Seq(FrameSent) /\ Len(sent) \in Nat /\ D \in 0 .. Len(sent)
  BY DEF FramingTypes, Framing, Stream
<1>5. ev \in [1 .. n -> 0 .. D] BY <1>3 DEF Posted
<1>6. passed.to = "core" /\ passed.buf = events[1].buf /\ passed.content = events[1].content
  BY <1>1 DEF Event
<1>7. continue.to = "continue" OBVIOUS
<1>8. /\ Len(events') = n + 1 /\ events'[n] = passed /\ events'[n + 1] = continue
      /\ \A i \in 1 .. n - 1 : events'[i] = events[i + 1] /\ i \in 1 .. n + 1 /\ i + 1 \in 1 .. n /\ i # n
  <2> DEFINE t == Tail(events)
  <2>1. passed \in Event /\ continue \in Event BY <1>1 DEF Event
  <2>2. t \in Seq(Event) /\ Len(t) = n - 1 /\ \A i \in 1 .. n - 1 : t[i] = events[i + 1] BY <1>1
  <2> HIDE DEF t, passed, continue, n
  <2>3. /\ Len(t \o <<passed, continue>>) = n + 1
        /\ (t \o <<passed, continue>>)[n] = passed /\ (t \o <<passed, continue>>)[n + 1] = continue
        /\ \A i \in 1 .. n - 1 : (t \o <<passed, continue>>)[i] = t[i]
    BY <1>1, <2>1, <2>2
  <2>4. events' = t \o <<passed, continue>> BY <1>2 DEF t
  <2>5. \A i \in 1 .. n - 1 : i \in 1 .. n + 1 /\ i + 1 \in 1 .. n /\ i # n BY <1>1
  <2>6. \A i \in 1 .. n - 1 : events'[i] = events[i + 1] BY <2>2, <2>3, <2>4
  <2> QED BY <2>3, <2>4, <2>5, <2>6
<1> HIDE DEF n, passed, continue
<1>9. /\ ev2[n] = ev[1] /\ ev2[n + 1] = 0 /\ ev2 \in [1 .. n + 1 -> 0 .. D]
      /\ \A i \in 1 .. n - 1 : ev2[i] = ev[i + 1]
  <2>1. \A i \in 1 .. n + 1 : i < n => i + 1 \in 1 .. n BY <1>1
  <2>2. 1 \in 1 .. n /\ 0 \in 0 .. D BY <1>1, <1>4
  <2> QED BY <1>1, <1>5, <1>z, <2>1, <2>2
<1>10. \A i \in 1 .. n + 1 : i \in 1 .. n - 1 \/ i = n \/ i = n + 1 BY <1>1
<1>11. /\ 1 \in 1 .. n /\ n \in 1 .. n + 1 /\ n + 1 \in 1 .. n + 1
       /\ ev[1] \in 1 .. Len(sent) /\ ev[1] \in 0 .. D /\ events[1].content = OfFrame(ev[1], sent[ev[1]].content)
       /\ events[1].buf = BufOf(ev[1])
       /\ SubSeq(buf[BufOf(ev[1])], 1, Len(events[1].content)) = events[1].content
  <2>1. 1 \in 1 .. n /\ n \in 1 .. n + 1 /\ n + 1 \in 1 .. n + 1 BY <1>1
  <2>2. ev[1] # 0 BY <1>2, <1>3, <2>1 DEF Posted, n
  <2>3. ev[1] \in 0 .. D /\ ev[1] \in 1 .. Len(sent) BY <1>4, <1>5, <2>1, <2>2
  <2> QED BY <1>3, <2>1, <2>2, <2>3 DEF Posted, n
<1>12. sent[ev[1]].kind = "packet"
  <2>1. FrameOf(events[1].content) = ev[1] BY <1>4, <1>11, FrameOfIs
  <2>2. ev[1] # 0 BY <1>11
  <2> QED BY <1>2, <2>1, <2>2 DEF MayBe
<1>13. /\ \A i, j \in 1 .. n :
            events[j].to = "sembei" /\ (events[i].to = "core" \/ (events[i].to = "sembei" /\ i < j)) => ev[i] < ev[j]
       /\ \A i, j \in 1 .. n : events[i].to = "core" /\ events[j].to = "core" => i = j
       /\ \A i \in 1 .. n : events[i].to = "sembei" /\ ev[i] < D
            => \E j \in 1 .. n : events[j].to = "sembei" /\ ev[j] = ev[i] + 1
  BY <1>3 DEF InOrder, n
\* No other packet is out.
<1>14. \A i \in 1 .. n : events[i].to # "core"
  <2> SUFFICES ASSUME NEW i \in 1 .. n, events[i].to = "core" PROVE FALSE OBVIOUS
  <2>1. ev[i] < ev[1] /\ ev[i] \in 0 .. D BY <1>2, <1>5, <1>11, <1>13
  <2>2. ev[i] # 0 /\ sent[ev[i]].kind = "packet" BY <1>3 DEF Posted, n
  <2>3. IsOut(ev[i], D, ev) /\ IsOut(ev[1], D, ev) BY <1>5, <1>11 DEF IsOut
  <2>4. ev[i] \in 1 .. Len(sent) BY <1>4, <2>1, <2>2
  <2>5. ev[i] = ev[1] BY <1>3, <1>11, <1>12, <2>2, <2>3, <2>4 DEF OneOfEach
  <2> QED BY <1>11, <2>1, <2>5
<1>15. Posted(D, ev2)'
  <2>1. ASSUME NEW i \in 1 .. n + 1
        PROVE  IF ev2[i] = 0 THEN events'[i].to = "continue"
               ELSE /\ events'[i].to \in {"sembei", "core"}
                    /\ events'[i].buf = BufOf(ev2[i])
                    /\ events'[i].content = OfFrame(ev2[i], sent[ev2[i]].content)
                    /\ SubSeq(buf[BufOf(ev2[i])], 1, Len(events'[i].content)) = events'[i].content
                    /\ events'[i].to = "core" => sent[ev2[i]].kind = "packet"
    <3>1. CASE i \in 1 .. n - 1
      <4>1. i + 1 \in 1 .. n /\ ev2[i] = ev[i + 1] /\ events'[i] = events[i + 1] BY <1>8, <1>9, <3>1
      <4> QED BY <1>3, <4>1 DEF Posted, n
    <3>2. CASE i = n
      <4>1. ev2[i] = ev[1] /\ events'[i] = passed /\ ev[1] # 0 BY <1>8, <1>9, <1>11, <3>2
      <4> QED BY <1>6, <1>11, <1>12, <4>1
    <3>3. CASE i = n + 1 BY <1>7, <1>8, <1>9, <3>3
    <3> QED BY <1>10, <3>1, <3>2, <3>3
  <2>2. sent' = sent /\ buf' = buf /\ Len(events') = n + 1 BY <1>2, <1>8
  <2> QED BY <1>9, <2>1, <2>2 DEF Posted
<1>16. \A i \in 1 .. n + 1 : /\ events'[i].to = "sembei" => i \in 1 .. n - 1
                             /\ events'[i].to = "core" => i = n
  <2>1. TAKE i \in 1 .. n + 1
  <2>2. CASE i \in 1 .. n - 1
    <3>1. i + 1 \in 1 .. n /\ events'[i] = events[i + 1] BY <1>8, <2>2
    <3> QED BY <1>14, <2>2, <3>1
  <2>3. CASE i = n BY <1>6, <1>8, <2>3
  <2>4. CASE i = n + 1 BY <1>7, <1>8, <2>4
  <2> QED BY <1>10, <2>2, <2>3, <2>4
<1>17. InOrder(events', D, ev2)
  <2>1. ASSUME NEW i \in 1 .. n + 1, NEW j \in 1 .. n + 1, events'[j].to = "sembei",
               events'[i].to = "core" \/ (events'[i].to = "sembei" /\ i < j)
        PROVE  ev2[i] < ev2[j]
    <3>1. j \in 1 .. n - 1 BY <1>16, <2>1
    <3>2. j + 1 \in 1 .. n /\ ev2[j] = ev[j + 1] /\ events'[j] = events[j + 1] /\ 1 < j + 1 BY <1>8, <1>9, <3>1
    <3>3. CASE events'[i].to = "core"
      <4>1. i = n BY <1>16, <3>3
      <4>2. ev2[i] = ev[1] BY <1>9, <4>1
      <4> QED BY <1>2, <1>11, <1>13, <2>1, <3>2, <4>2
    <3>4. CASE events'[i].to = "sembei" /\ i < j
      <4>1. i \in 1 .. n - 1 BY <1>16, <3>4
      <4>2. i + 1 \in 1 .. n /\ ev2[i] = ev[i + 1] /\ events'[i] = events[i + 1] BY <1>8, <1>9, <4>1
      <4>3. i + 1 < j + 1 BY <1>1, <3>1, <3>4, <4>1
      <4> QED BY <1>13, <2>1, <3>2, <3>4, <4>2, <4>3
    <3> QED BY <2>1, <3>3, <3>4
  <2>2. ASSUME NEW i \in 1 .. n + 1, NEW j \in 1 .. n + 1, events'[i].to = "core", events'[j].to = "core"
        PROVE  i = j
    BY <1>16, <2>2
  <2>3. ASSUME NEW i \in 1 .. n + 1, events'[i].to = "sembei", ev2[i] < D
        PROVE  \E j \in 1 .. n + 1 : events'[j].to = "sembei" /\ ev2[j] = ev2[i] + 1
    <3> DEFINE m == i + 1
    <3>1. i \in 1 .. n - 1 BY <1>16, <2>3
    <3>2. m \in 1 .. n /\ ev2[i] = ev[m] /\ events'[i] = events[m] /\ 1 < m BY <1>8, <1>9, <3>1
    <3>3. PICK j \in 1 .. n : events[j].to = "sembei" /\ ev[j] = ev[m] + 1 BY <1>13, <2>3, <3>2
    <3>4. j # 1
      <4>1. ev[m] \in Nat BY <1>5, <3>2
      <4>2. ev[1] < ev[m] BY <1>2, <1>11, <1>13, <2>3, <3>2
      <4>3. ev[1] \in Nat BY <1>11
      <4> QED BY <3>3, <4>1, <4>2, <4>3
    <3>5. j - 1 \in 1 .. n - 1 /\ (j - 1) + 1 = j BY <1>1, <3>4
    <3>6. events'[j - 1] = events[j] /\ ev2[j - 1] = ev[j] /\ j - 1 \in 1 .. n + 1 BY <1>8, <1>9, <3>5
    <3> QED BY <3>2, <3>3, <3>6
  <2> QED BY <1>8, <2>1, <2>2, <2>3 DEF InOrder
<1>18. \A i \in 1 .. n + 1 : ev2[i] # 0 => \E j \in 1 .. n : ev2[i] = ev[j]
  <2>1. TAKE i \in 1 .. n + 1
  <2>2. CASE i \in 1 .. n - 1
    <3>1. i + 1 \in 1 .. n /\ ev2[i] = ev[i + 1] BY <1>8, <1>9, <2>2
    <3> QED BY <3>1
  <2>3. CASE i = n BY <1>9, <1>11, <2>3
  <2>4. CASE i = n + 1 BY <1>9, <2>4
  <2> QED BY <1>10, <2>2, <2>3, <2>4
<1>19. asked' = asked
  <2>1. Len(events') # 0 BY <1>1, <1>8
  <2>2. events' # <<>> BY <2>1
  <2> QED BY <1>2, <2>2
<1>20. OneOfEach(D, ev2)'
  <2>1. \A k \in 1 .. Len(sent) : IsOut(k, D, ev2) => IsOut(k, D, ev)
    <3> SUFFICES ASSUME NEW k \in 1 .. Len(sent), NEW i \in 1 .. n + 1, ev2[i] = k
                 PROVE  \E j \in 1 .. n : ev[j] = k
      BY <1>5, <1>9 DEF IsOut
    <3>1. ev2[i] # 0 OBVIOUS
    <3> QED BY <1>18, <3>1
  <2> QED BY <1>2, <1>3, <1>19, <2>1 DEF OneOfEach
<1>21. Late(D, ev2)'
  <2> SUFFICES ASSUME NEW i \in 1 .. n + 1, ev2[i] # 0, ev2[i] < D
               PROVE  line = <<>> /\ pending /\ asked = 1
    BY <1>2, <1>8, <1>19 DEF Late
  <2>1. PICK j \in 1 .. n : ev2[i] = ev[j] BY <1>18
  <2> QED BY <1>3, <2>1 DEF Late, n
<1>22. Waiting'
  <2>1. \A j \in 1 .. n : events[j].to = "continue" /\ j > 1 => events[j - 1].to = "core"
    BY <1>3 DEF Waiting, n
  <2>2. \E j \in 1 .. n + 1 : events'[j].to = "continue" BY <1>7, <1>8, <1>11
  <2>3. ASSUME NEW j \in 1 .. n + 1, events'[j].to = "continue", j > 1
        PROVE  events'[j - 1].to = "core"
    <3>1. CASE j \in 1 .. n - 1
      <4>1. j + 1 \in 1 .. n /\ j + 1 > 1 /\ events'[j] = events[j + 1] /\ (j + 1) - 1 = j BY <1>8, <3>1
      <4>2. events[j].to = "core" BY <2>1, <2>3, <4>1
      <4>3. j \in 1 .. n BY <1>1, <3>1
      <4> QED BY <1>14, <4>2, <4>3
    <3>2. CASE j = n BY <1>6, <1>8, <2>3, <3>2
    <3>3. CASE j = n + 1
      <4>1. j - 1 = n BY <1>1, <3>3
      <4> QED BY <1>6, <1>8, <4>1
    <3> QED BY <1>10, <3>1, <3>2, <3>3
  <2> QED BY <1>8, <2>2, <2>3 DEF Waiting
<1>23. InOrder(events, D, ev2)' BY <1>17
<1>24. Reading(D, pl, ev2)' BY <1>2, <1>3, <1>15, <1>19, <1>20, <1>21, <1>22, <1>23 DEF Reading
<1> QED BY <1>24

\* Every packet that waits to be read and is not the one the core has comes
\* after it, so that a frame that finds the process waiting is a request.
LEMMA ForgottenIsRequest ==
  ASSUME FramingTypes, events \in Seq(Event), events # <<>>, events[1].to = "sembei", waits,
         NEW D, NEW fr, NEW pl, Framing(D, fr, pl), NEW ev, Reading(D, pl, ev)
  PROVE  /\ ev[1] \in 1 .. Len(sent) /\ sent[ev[1]].kind = "request"
         /\ FrameOf(events[1].content) = ev[1]
<1> DEFINE n == Len(events)
<1>1. n \in Nat /\ n >= 1 /\ 1 \in 1 .. n
  <2>1. n \in Nat /\ n >= 1 BY EventsFacts
  <2> QED BY <2>1
<1>2. Posted(D, ev) /\ InOrder(events, D, ev) /\ OneOfEach(D, ev) /\ Waiting BY DEF Reading
<1>3. sent \in Seq(FrameSent) /\ Len(sent) \in Nat /\ D \in 0 .. Len(sent)
  BY DEF FramingTypes, Framing, Stream
<1>4. ev \in [1 .. n -> 0 .. D] BY <1>2 DEF Posted
<1>5. ev[1] # 0 /\ events[1].content = OfFrame(ev[1], sent[ev[1]].content) BY <1>1, <1>2 DEF Posted
<1>6. ev[1] \in 1 .. Len(sent)
  <2>1. ev[1] \in 0 .. D BY <1>1, <1>4
  <2> QED BY <1>3, <1>5, <2>1
<1>7. FrameOf(events[1].content) = ev[1] BY <1>3, <1>5, <1>6, FrameOfIs
<1>8. PICK j \in 1 .. n : events[j].to = "continue" BY <1>2 DEF Waiting
<1>9. j # 1 /\ j > 1
  <2>1. j # 1 BY <1>8
  <2> QED BY <1>1, <2>1
<1>10. PICK i \in 1 .. n : events[i].to = "core"
  <2>1. events[j - 1].to = "core" BY <1>2, <1>8, <1>9 DEF Waiting
  <2>2. j - 1 \in 1 .. n BY <1>1, <1>9
  <2> QED BY <2>1, <2>2
<1>11. ev[i] < ev[1] BY <1>1, <1>2, <1>10 DEF InOrder
<1>12. ev[i] \in 1 .. Len(sent) /\ sent[ev[i]].kind = "packet"
  <2>1. ev[i] # 0 /\ sent[ev[i]].kind = "packet" BY <1>2, <1>10 DEF Posted
  <2>2. ev[i] \in 0 .. D BY <1>4
  <2> QED BY <1>3, <2>1, <2>2
<1>13. IsOut(ev[i], D, ev) /\ IsOut(ev[1], D, ev) BY <1>1, <1>4 DEF IsOut
<1>14. sent[ev[1]].kind # "packet"
  <2> SUFFICES ASSUME sent[ev[1]].kind = "packet" PROVE FALSE OBVIOUS
  <2>1. ev[i] = ev[1] BY <1>2, <1>6, <1>12, <1>13 DEF OneOfEach
  <2> QED BY <1>6, <1>11, <2>1
<1>15. sent[ev[1]].kind \in {"packet", "request"}
  <2>1. sent[ev[1]] \in FrameSent BY <1>3, <1>6
  <2> QED BY <2>1 DEF FrameSent
<1> QED BY <1>6, <1>7, <1>14, <1>15

LEMMA ReadingHandles ==
  ASSUME ReadingInv, AnswerRequest \/ PassPacket \/ ForgetFrame \/ Continue \/ ReadPacket
  PROVE  ReadingInv'
<1>1. FramingTypes /\ events \in Seq(Event) BY DEF ReadingInv
<1>2. PICK D, fr, pl : /\ Framing(D, fr, pl)
                       /\ side = "mote" /\ NoHits(hits) => \E ev : Reading(D, pl, ev)
  BY DEF ReadingInv
<1>3. /\ UNCHANGED <<side, sent, line, rx, buf, cur, hits, found>> /\ events # <<>>
      /\ PassPacket \/ Handled(<<>>)
  BY DEF AnswerRequest, PassPacket, ForgetFrame, Continue, ReadPacket, First, Handled, receiver
<1>4. side # "PC" /\ side = "mote"
  <2>1. side # "PC" BY <1>3 DEF ReadingInv
  <2> QED BY <1>1, <2>1 DEF FramingTypes
<1>5. FramingTypes' BY <1>1, <1>3 DEF FramingTypes
<1>6. Framing(D, fr, pl)' BY <1>2, <1>3 DEF Framing, Stream, Clean, Taken, Found
<1>7. events' \in Seq(Event)
  <2>1. Tail(events) \in Seq(Event) /\ Head(events) \in Event BY <1>1, <1>3, EventsFacts
  <2> DEFINE passed == [Head(events) EXCEPT !.to = "core"]
             continue == [to |-> "continue", buf |-> 0, content |-> <<>>]
             t == Tail(events)
  <2>2. passed \in Event /\ continue \in Event
    <3> DEFINE first == Head(events)
    <3>1. [first EXCEPT !.to = "core"] \in Event
      <4>1. first \in Event BY <2>1
      <4> HIDE DEF first
      <4> QED BY <4>1 DEF Event
    <3>2. <<>> \in Seq(InBuffer) OBVIOUS
    <3> QED BY <3>1, <3>2 DEF Event
  <2>3. events' = t \o <<>> \/ events' = t \o <<passed, continue>>
    BY <1>3 DEF PassPacket, Handled
  <2> HIDE DEF passed, continue, t
  <2>4. t \in Seq(Event) BY <2>1 DEF t
  <2>5. t \o <<>> \in Seq(Event) /\ t \o <<passed, continue>> \in Seq(Event) BY <2>2, <2>4
  <2> QED BY <2>3, <2>5
<1>8. ASSUME NoHits(hits) PROVE \E ev2 : Reading(D, pl, ev2)'
  <2>1. PICK ev : Reading(D, pl, ev) BY <1>2, <1>4, <1>8
  <2>2. \A k \in forgotten : k \in 1 .. Len(sent) /\ sent[k].kind = "request" BY <2>1 DEF Reading
  <2>3. CASE PassPacket BY <1>1, <1>2, <2>1, <2>3, ReadingPasses
  <2>4. CASE AnswerRequest
    <3>1. Handled(<<>>) /\ pending' = pending /\ waits' = waits /\ forgotten' = forgotten /\ ~ waits
      BY <2>4 DEF AnswerRequest, processes
    <3> QED BY <1>1, <1>2, <1>3, <2>1, <2>2, <3>1, ReadingTail
  <2>5. CASE ForgetFrame
    <3>1. /\ Handled(<<>>) /\ pending' = pending /\ waits' = waits /\ waits /\ Head(events).to = "sembei"
          /\ forgotten' = forgotten \cup {FrameOf(Head(events).content)} /\ Head(events) = events[1]
      BY <1>1, <2>5, EventsFacts DEF ForgetFrame, First
    <3>2. ev[1] \in 1 .. Len(sent) /\ sent[ev[1]].kind = "request" /\ FrameOf(events[1].content) = ev[1]
      BY <1>1, <1>2, <1>3, <2>1, <3>1, ForgottenIsRequest
    <3>3. \A k \in forgotten' : k \in 1 .. Len(sent) /\ sent[k].kind = "request" BY <2>2, <3>1, <3>2
    <3>4. events[1].to # "continue" BY <3>1
    <3> QED BY <1>1, <1>2, <1>3, <2>1, <3>1, <3>3, <3>4, ReadingTail
  <2>6. CASE Continue
    <3>1. Handled(<<>>) /\ pending' = pending /\ ~ waits' /\ forgotten' = forgotten
      BY <2>6 DEF Continue
    <3> QED BY <1>1, <1>2, <1>3, <2>1, <2>2, <3>1, ReadingTail
  <2>7. CASE ReadPacket
    <3>1. /\ Handled(<<>>) /\ ~ pending' /\ waits' = waits /\ forgotten' = forgotten
          /\ events[1].to = "core" /\ events[1].to # "continue"
      BY <1>1, <2>7, EventsFacts DEF ReadPacket, First
    <3> QED BY <1>1, <1>2, <1>3, <2>1, <2>2, <3>1, ReadingTail
  <2> QED BY <2>3, <2>4, <2>5, <2>6, <2>7
<1>9. side' # "PC" BY <1>3, <1>4
<1>10. side' = "mote" /\ NoHits(hits') => \E ev2 : Reading(D, pl, ev2)' BY <1>3, <1>8
<1> QED BY <1>5, <1>6, <1>7, <1>9, <1>10 DEF ReadingInv

LEMMA ReadingKeeps ==
  ASSUME MaxAsked <= 1, ReadingInv, [FramingNext]_framingVars
  PROVE  ReadingInv'
<1>1. CASE SendPacket
  <2>1. side = "mote" /\ ~ pending /\ Transmit("packet") /\ pending' /\ asked' = asked
    BY <1>1 DEF SendPacket
  <2> QED BY <2>1, ReadingTransmits
<1>2. CASE RequestNodeId
  <2>1. /\ side = "mote" /\ asked < MaxAsked /\ Transmit("request")
        /\ asked' = asked + 1 /\ pending' = pending
    BY <1>2 DEF RequestNodeId
  <2> QED BY <2>1, ReadingTransmits
<1>3. CASE SendFromMote
  <2>1. side # "mote" /\ Transmit("packet") BY <1>3 DEF SendFromMote
  <2> QED BY <2>1, ReadingTransmits
<1>4. CASE PrintText BY <1>4, ReadingPrints
<1>5. CASE ReceiveOctet BY <1>5, ReadingReceive
<1>6. CASE LoseOctet BY <1>6, ReadingLose
<1>7. CASE AnswerRequest \/ PassPacket \/ ForgetFrame \/ Continue \/ ReadPacket BY <1>7, ReadingHandles
<1>8. CASE UNCHANGED framingVars
  <2>1. UNCHANGED <<side, sent, line, rx, buf, cur, events, waits, pending, asked, hits, found, forgotten>>
    BY <1>8 DEF framingVars, receiver, processes
  <2>2. FramingTypes' /\ events' \in Seq(Event) /\ (side' = "PC" => events' = <<>> /\ forgotten' = {})
    BY <2>1 DEF ReadingInv, FramingTypes
  <2>3. PICK D, fr, pl : /\ Framing(D, fr, pl)
                         /\ side = "mote" /\ NoHits(hits) => \E ev : Reading(D, pl, ev)
    BY DEF ReadingInv
  <2>4. Framing(D, fr, pl)' BY <2>1, <2>3 DEF Framing, Stream, Clean, Taken, Found
  <2>5. ASSUME NEW ev, Reading(D, pl, ev) PROVE Reading(D, pl, ev)'
    BY <2>1, <2>5 DEF Reading, Posted, InOrder, OneOfEach, Late, Waiting
  <2>6. side' = "mote" /\ NoHits(hits') => \E ev : Reading(D, pl, ev)' BY <2>1, <2>3, <2>5
  <2> QED BY <2>2, <2>4, <2>6 DEF ReadingInv
<1> QED BY <1>1, <1>2, <1>3, <1>4, <1>5, <1>6, <1>7, <1>8 DEF FramingNext

\* As long as no octet is lost, every frame is still in its buffer when the
\* process it was posted to reads it, and the frame that finds
\* serial_sembei_process waiting is never a packet, as long as the PC asks for
\* the mote's address no more than once before the mote has done everything
\* there is (byteReceived and its two buffers, serial_sembei_process,
\* sdn_core_process): for contents and buffers of every length, and any number
\* of frames.
THEOREM FramesRead ==
  ASSUME MaxAsked <= 1
  PROVE  FramingSpec => []FramesAreRead
<1>1. FramingInit => ReadingInv BY ReadingStarts
<1>2. ReadingInv /\ [FramingNext]_framingVars => ReadingInv' BY ReadingKeeps
<1>3. ReadingInv => FramesAreRead BY FramesAreReadThen
<1> QED BY <1>1, <1>2, <1>3, PTL DEF FramingSpec
=============================================================================
