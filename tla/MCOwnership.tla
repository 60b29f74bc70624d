----------------------------- MODULE MCOwnership -----------------------------
(* Small instances of Ownership for TLC: two builds. *)
EXTENDS Ownership, TLC

CONSTANTS d1, d2, d3

TwoBuilds == [d \in Daemons |-> IF d = d1 THEN 1 ELSE 2]
=============================================================================
