---------------------------- MODULE MCConditions ----------------------------
(* Small instances of Conditions for TLC.  A behaviour is about inboxes, or *)
(* about the conditions that other handlers raise.                          *)
EXTENDS Conditions

CONSTANTS a1, c1, p1, p2, host, startup

VARIABLE scenario

MCInit == Init /\ scenario \in {"inboxes", "handlers"}

MCNext ==
    /\ Next
    /\ \/ scenario = "inboxes" /\ \A s \in Others : condition'[s] = condition[s]
       \/ scenario = "handlers" /\ mail' = mail /\ archived' = archived
    /\ UNCHANGED scenario

MCSpec == MCInit /\ [][MCNext]_<<vars, scenario>> /\ WF_vars(Pass)
=============================================================================
