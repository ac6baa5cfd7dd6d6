-------------------------- MODULE PendingRequests --------------------------
(***************************************************************************)
(* What the retransmission window promises: a set of at most MaxPending    *)
(* awaited packets, one per request, from which an answer removes exactly  *)
(* what it answers.  RetxWindow implements it with slots, timers and stale *)
(* slot contents.                                                          *)
(***************************************************************************)
EXTENDS Integers, FiniteSets

CONSTANTS Packets,      \* the own reliable packets a node can have sent
          MaxPending    \* how many of them can be awaited

VARIABLE pending

Init == pending = {}

Asks(p, type, key) == p.type = type /\ p.key = key

Similar(p) == {q \in pending : Asks(q, p.type, p.key)}

\* A neighbor report supersedes an awaited one; a repeated request adds
\* nothing.
Repeat(p) ==
  /\ Similar(p) # {}
  /\ pending' = IF p.type = "NEIGHBOR_REPORT"
                THEN (pending \ Similar(p)) \cup {p}
                ELSE pending

Add(p) ==
  /\ Similar(p) = {}
  /\ Cardinality(pending) < MaxPending
  /\ pending' = pending \cup {p}

\* The only packets never awaited are those sent while all places are taken.
Ignore(p) ==
  /\ Similar(p) = {}
  /\ Cardinality(pending) = MaxPending
  /\ UNCHANGED pending

Answered(type, key) ==
  pending' = {q \in pending : ~ Asks(q, type, key)}

Acked(type, seq) ==
  pending' = {q \in pending : ~ (q.type = type /\ q.seq = seq)}

\* The timer hands one awaited packet back to the sender.
Expire(q) == pending' = pending \ {q}

Next ==
  \/ \E p \in Packets : Repeat(p) \/ Add(p) \/ Ignore(p)
                        \/ Answered(p.type, p.key) \/ Acked(p.type, p.seq)
  \/ \E q \in pending : Expire(q)

Spec == Init /\ [][Next]_pending
=============================================================================
