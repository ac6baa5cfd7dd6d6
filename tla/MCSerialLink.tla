---------------------------- MODULE MCSerialLink ----------------------------
(***************************************************************************)
(* The serial line at both levels.  As frames: a PC queue of three         *)
(* packets, a mote queue of two and a pool of two buffers that heard       *)
(* beacons share, so that the mote refuses frames for want of a buffer as  *)
(* well as of a place in the queue.  As octets: frames of the shortest and *)
(* of the greatest length, with every special octet in them.               *)
(***************************************************************************)
EXTENDS SerialLink, SerialFraming

VARIABLE level

MCContents == {<<"01", "7E">>, <<"7D", "5E", "01", "7D">>}
MCTexts == {<<"01">>, <<"7D", "01", "5E">>}

MCInit == level \in {"frames", "octets"} /\ Init /\ FramingInit /\ (level = "frames" => side = "PC")

FrameLevel == level = "frames" /\ Next /\ UNCHANGED <<level, framingVars>>

OctetLevel == level = "octets" /\ FramingNext /\ UNCHANGED <<level, vars>>

MCSpec ==
  /\ MCInit /\ [][FrameLevel \/ OctetLevel]_<<level, vars, framingVars>>
  /\ level = "frames" => Fairness
=============================================================================
