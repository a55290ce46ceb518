------------------------- MODULE MC_ClaimRegistry -------------------------
(* A small instance of ClaimRegistry for TLC: three signers (symmetric),   *)
(* one proof key, one P2SH address, the empty secret and two others, and   *)
(* two blocks so that a transfer can happen in a later block than the      *)
(* claim's creation.                                                       *)
EXTENDS ClaimRegistry, TLC

CONSTANTS a1, a2, a3, p1, d1, s0, s1, s2

MC_Accounts == {a1, a2, a3}
MC_ProofKeys == {p1}
MC_Addresses == {d1}
MC_Secrets == {s0, s1, s2}
MC_EmptySecret == s0
MC_MaxBlock == 2

MC_Symmetry == Permutations(MC_Accounts)
=============================================================================
