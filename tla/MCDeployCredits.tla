--------------------------- MODULE MCDeployCredits ---------------------------
(* A first period that has ended, the renewal, whose invoice also bills    *)
(* usage, and a downgrade in the second period, which nets a refund.       *)
EXTENDS DeployCredits

CONSTANTS w1, w2

Fee(amount, discount, end) ==
    [fee |-> TRUE, amount |-> amount, discount |-> discount, end |-> end]
Usage(amount, end) == [fee |-> FALSE, amount |-> amount, discount |-> 0, end |-> end]

MCLines ==
    [subscribe |-> <<Fee(2, 0, 0)>>,
     renewal   |-> <<Usage(4, 0), Fee(4, 1, 1)>>,
     downgrade |-> <<Fee(1, 0, 1), Fee(0 - 2, 0, 1)>>]
===============================================================================
