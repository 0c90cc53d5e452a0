---------------------------- MODULE MCUsageLimiter ----------------------------
(* Small instances of UsageLimiter for TLC. *)
EXTENDS UsageLimiter, TLC

CONSTANTS r1, n1, n2, g1, g2, w1

OneRegion == [n \in Nodes |-> r1]
SetAny == {2, Unlimited}
SetUnlimited == {Unlimited}
Symm == Permutations(Calls) \cup Permutations(Nodes)
==============================================================================
