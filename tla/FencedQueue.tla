---------------------------- MODULE FencedQueue ----------------------------
(***************************************************************************)
(* What the mailbox promises about each delivery, without tokens, tables,  *)
(* adoptions or wakes: an item is held by one generation at a time, a      *)
(* running hold is never taken away except by being given back, only the   *)
(* newest generation settles an item, and a settled or withdrawn item      *)
(* stays so.                                                               *)
(***************************************************************************)
EXTENDS Naturals

CONSTANT Items

VARIABLE item

Absent == [phase |-> "absent", gen |-> 0, winner |-> 0]

\* An overdue holder still holds the item, until somebody takes it.
Held(i) == item[i].phase \in {"held", "overdue"}

Init == item = [i \in Items |-> Absent]

\* The items that a step touches.
Touched == {i \in Items : item'[i] # item[i]}

\* Some items appear together, free to take.
Publish ==
    /\ \A i \in Touched : item[i].phase = "absent"
    /\ item' = [i \in Items |-> IF i \in Touched THEN [item[i] EXCEPT !.phase = "available"] ELSE item[i]]

\* A new generation takes a free item, or one whose holder is overdue.
Take(i) ==
    /\ item[i].phase \in {"available", "overdue"}
    /\ item' = [item EXCEPT ![i] = [phase |-> "held", gen |-> item[i].gen + 1, winner |-> item[i].winner]]

\* The holder runs out of time, or is given more.
Overrun(i, phase) ==
    /\ Held(i)
    /\ item' = [item EXCEPT ![i].phase = phase]

\* The hold ends without a decision.
Return(i) ==
    /\ Held(i)
    /\ item' = [item EXCEPT ![i].phase = "available"]

\* Some items are withdrawn for good, from whoever holds them.
Withdraw ==
    /\ \A i \in Touched : item[i].phase = "available" \/ Held(i)
    /\ item' = [i \in Items |-> IF i \in Touched THEN [item[i] EXCEPT !.phase = "withdrawn"] ELSE item[i]]

\* The newest generation decides the item.
Settle(i, decision) ==
    /\ Held(i)
    /\ item' = [item EXCEPT ![i] = [phase |-> decision, gen |-> item[i].gen, winner |-> item[i].gen]]

Next ==
    \/ Publish \/ Withdraw
    \/ \E i \in Items : \/ Take(i)
                        \/ \E phase \in {"held", "overdue"} : Overrun(i, phase)
                        \/ Return(i)
                        \/ \E decision \in {"acked", "dead"} : Settle(i, decision)

Spec == Init /\ [][Next]_item
=============================================================================
