--------------------------- MODULE MCComputeBilling ---------------------------
(* Small instances of ComputeBilling for TLC. *)
EXTENDS ComputeBilling, TLC

CONSTANTS s1, s2, p1, p2, w1

Symm == Permutations(Subs) \cup Permutations(Plans)
===============================================================================
