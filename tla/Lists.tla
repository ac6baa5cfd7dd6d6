------------------------------- MODULE Lists -------------------------------
(***************************************************************************)
(* Two folds over lists, as functions of how far they have come: the       *)
(* elements of a list that are in a set, in their order, and the sum of    *)
(* the first n numbers of a list.                                          *)
(***************************************************************************)
EXTENDS Naturals, Sequences

Only(s, S) ==
    LET kept[k \in 0..Len(s)] ==
            IF k = 0 THEN << >>
            ELSE IF s[k] \in S THEN Append(kept[k - 1], s[k])
            ELSE kept[k - 1]
    IN kept[Len(s)]

SumUpto(f, n) ==
    LET sum[k \in 0..n] == IF k = 0 THEN 0 ELSE sum[k - 1] + f[k]
    IN sum[n]

=============================================================================
