------------------------- MODULE MCAttentionSafety -------------------------
(* A behaviour plays one of two scenarios: nothing fails and handlers run  *)
(* as they like, or one fault happens and at most one wait and one attach  *)
(* handler run at a time.                                                  *)
EXTENDS MCAttention, FiniteSets

VARIABLE scenario

Healthy == INSTANCE Attention WITH MaxFaults <- 0
Faulty == INSTANCE Attention WITH MaxFaults <- 1

Busy == {c \in Calls : call[c].pc # "free"}

MCInit == Init /\ scenario \in {"healthy", "faulty"}

Play(name, Step) == scenario = name /\ Step /\ UNCHANGED scenario

MCNext ==
    \/ Play("healthy", Healthy!Next)
    \/ Play("faulty", Faulty!Next /\ Cardinality(Busy') <= 1
                               /\ Cardinality(attaching') <= 1)

MCSpec == MCInit /\ [][MCNext]_<<vars, scenario>>
=============================================================================
