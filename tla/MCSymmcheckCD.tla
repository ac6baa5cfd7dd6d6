---------------------------- MODULE MCSymmcheckCD ----------------------------
(***************************************************************************)
(* SymmcheckCD on three nodes: in a line, with every beacon lost or        *)
(* delivered, and in a triangle in which n2 hears the controller and the   *)
(* controller does not hear n2.                                            *)
(***************************************************************************)
EXTENDS SymmcheckCD

CONSTANTS ctl, n1, n2

Both(m, n) == {<<m, n>>, <<n, m>>}

Line     == Both(ctl, n1) \cup Both(n1, n2)
Triangle == Line \cup {<<ctl, n2>>}
=============================================================================
