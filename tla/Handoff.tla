------------------------------ MODULE Handoff ------------------------------
(***************************************************************************)
(* What the attention broker promises about wait_attention calls, without  *)
(* sessions, presences, connections or channels: at most one call at a     *)
(* time may be handed a notice; a call is told one thing at most and       *)
(* nothing takes its place; a call that may be handed a notice does not    *)
(* return before it gave that up; and who was dismissed is handed none.    *)
(***************************************************************************)
CONSTANTS Waits, Dismissals

VARIABLE wait

Out     == [phase |-> "out", word |-> "none"]
Offered == [phase |-> "offered", word |-> "none"]

Init == wait = [w \in Waits |-> Out]

\* A call becomes the one that may be handed a notice.
Enter(w) ==
    /\ wait[w] = Out
    /\ \A v \in Waits : wait[v] # Offered
    /\ wait' = [wait EXCEPT ![w] = Offered]

\* The notice is the call's for good.
Accept(w) ==
    /\ wait[w] = Offered
    /\ wait' = [wait EXCEPT ![w] = [phase |-> "told", word |-> "notice"]]

\* It is no longer offered a notice, and will be told why ...
Dismiss(w, word) ==
    /\ wait[w] = Offered
    /\ wait' = [wait EXCEPT ![w] = [phase |-> "dismissed", word |-> word]]

\* ... unless it returns first.
Tell(w) ==
    /\ wait[w].phase = "dismissed"
    /\ wait' = [wait EXCEPT ![w] = [phase |-> "told", word |-> wait[w].word]]

\* Its time is over before anything happened.
GiveUp(w) ==
    /\ wait[w] = Offered
    /\ wait' = [wait EXCEPT ![w] = [phase |-> "gone", word |-> "none"]]

Return(w) ==
    /\ wait[w].phase \in {"told", "dismissed", "gone"}
    /\ wait' = [wait EXCEPT ![w] = Out]

\* The broker's process dies.
Fail == wait' = [w \in Waits |-> Out]

Step ==
    \/ \E w \in Waits : \/ Enter(w) \/ Accept(w) \/ Tell(w) \/ GiveUp(w) \/ Return(w)
                        \/ \E word \in Dismissals : Dismiss(w, word)
    \/ Fail

\* A failure with nobody waiting changes nothing.
Next == wait' # wait /\ Step

Spec == Init /\ [][Next]_wait
=============================================================================
