------------------------- MODULE DeliveryTransition -------------------------
(***************************************************************************)
(* The verdict on a finish that both delivery stores share: the mailbox of *)
(* direct messages and the managed deliveries of conversations.  A token   *)
(* is the number of the claim that minted it, so it is unique in its row.  *)
(***************************************************************************)
EXTENDS Naturals

NoToken == 0

Settled(row)   == row.state \in {"acked", "dead"}
Unsettled(row) == row.state \in {"queued", "claimed"}

\* Variant of finishDeliveryState: any token ever issued finishes a claimed row.
finishDeliveryState_anyToken(row, token, next) ==
    IF row.state = "claimed" THEN "finish" ELSE "mismatch"

\* What a late, repeated or stale finish gets.  Only "finish" writes the row.
finishDeliveryState(row, token, next) ==
    CASE Settled(row) /\ row.state = next /\ row.terminal = token          -> "repeated"
      [] row.state = "queued" /\ row.terminal = token /\ token # NoToken   -> "terminal"
      [] Settled(row) /\ ~(row.state = next /\ row.terminal = token)       -> "terminal"
      [] row.state = "claimed" /\ row.token = token                        -> "finish"
      [] OTHER                                                             -> "mismatch"

\* The row after an accepted Ack, final Nack or Nack.
finishedRow(row, token, next) ==
    [row EXCEPT !.state = next, !.token = NoToken, !.lease = "none",
                !.terminal = IF next = "queued" THEN NoToken ELSE token]
=============================================================================
