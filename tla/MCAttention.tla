---------------------------- MODULE MCAttention ----------------------------
(* Small instances of Attention for TLC. *)
EXTENDS Attention, TLC

CONSTANTS s1, s2, c1, c2

\* Neither sessions nor calls are ordered except by what the sessions did.
SessionSymmetry == Permutations(Sessions) \cup Permutations(Calls)
=============================================================================
