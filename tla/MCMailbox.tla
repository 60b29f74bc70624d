----------------------------- MODULE MCMailbox -----------------------------
(* Small instances of Mailbox for TLC.  A behaviour is about leases, of       *)
(* deliveries that ask for no wake and are claimed again and again by three   *)
(* actors, or, with two of the actors and one claim of a delivery, about      *)
(* wakes and a daemon that crashes, or about archival.                        *)
EXTENDS Mailbox

CONSTANTS m1

VARIABLE scenario

MCInit == Init /\ scenario \in {"leases", "wakes", "archival"}

OneClaimEach == \A m \in Messages, r \in Actors : delivery'[m][r].attempt <= 1

MCNext ==
    /\ Next
    /\ \A m \in Messages : message'[m].state # "unsent" => message'[m].wake = (scenario = "wakes")
    /\ scenario # "leases"   => OneClaimEach /\ 3 \notin live'
    /\ scenario # "archival" => archived' = archived
    /\ scenario # "wakes"    => crashes' = crashes
    /\ UNCHANGED scenario

MCSpec ==
    /\ MCInit /\ [][MCNext]_<<vars, scenario>>
    /\ WF_<<vars, scenario>>(scenario = "wakes" /\ WorkerStep /\ UNCHANGED scenario)
    /\ \A m \in Messages, a \in Actors :
          WF_<<vars, scenario>>(scenario = "wakes" /\ JobDue(m, a) /\ UNCHANGED scenario)
=============================================================================
