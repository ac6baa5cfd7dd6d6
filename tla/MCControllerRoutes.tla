------------------------- MODULE MCControllerRoutes -------------------------
(* A diamond: the controller c and a node d, joined through a and b. *)
EXTENDS ControllerRoutes

CONSTANTS c, a, b, d

Heard(v, w) == [to |-> v, weight |-> w]
From(n, list) == [from |-> n, list |-> list]

DiamondReports ==
    {From(a, <<Heard(c, 1), Heard(d, 1)>>),
     From(a, <<Heard(c, 4)>>),
     From(a, << >>),
     From(b, <<Heard(c, 1), Heard(d, 4)>>),
     From(b, <<Heard(d, 4)>>),
     From(d, <<Heard(a, 1), Heard(c, 4), Heard(b, 4)>>),
     From(c, <<Heard(b, 2)>>)}

=============================================================================
