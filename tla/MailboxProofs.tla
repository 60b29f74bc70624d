--------------------------- MODULE MailboxProofs ---------------------------
(***************************************************************************)
(* Proofs about Mailbox for any set of actors and messages and any bounds. *)
(***************************************************************************)
EXTENDS Mailbox, TLAPS

-----------------------------------------------------------------------------
(* The rows and jobs that the operations write have their types. *)

LEMMA ClaimedRowType ==
    ASSUME NEW row \in DeliveryRow, row.attempt < MaxClaims
    PROVE  claimedRow(row) \in DeliveryRow
<1>1. row.attempt + 1 \in 0 .. MaxClaims
  BY MaxClaimsIsNat DEF DeliveryRow
<1> QED BY <1>1 DEF DeliveryRow, claimedRow

LEMMA FinishedRowType ==
    ASSUME NEW row \in DeliveryRow, NEW token \in 0 .. MaxClaims,
           NEW next \in {"acked", "dead", "queued"}
    PROVE  finishedRow(row, token, next) \in DeliveryRow
<1>1. 0 \in 0 .. MaxClaims
  BY MaxClaimsIsNat
<1> QED BY <1>1 DEF DeliveryRow, finishedRow, NoToken

LEMMA RevokedRowType ==
    ASSUME NEW row \in DeliveryRow
    PROVE  revokedRow(row) \in DeliveryRow
<1>1. 0 \in 0 .. MaxClaims
  BY MaxClaimsIsNat
<1> QED BY <1>1 DEF DeliveryRow, revokedRow, NoToken

LEMMA NewRowTypes == NoRow \in DeliveryRow /\ QueuedRow \in DeliveryRow
BY MaxClaimsIsNat DEF DeliveryRow, NoRow, QueuedRow, NoToken

LEMMA NewJobTypes == NoJob \in Job /\ NewJob \in Job
BY MaxAttemptsIsPos DEF Job, NoJob, NewJob

LEMMA JobTypes ==
    ASSUME NEW job \in Job
    PROVE  /\ DoneJob(job) \in Job
           /\ closedJob(job) \in Job
           /\ \A next \in {"pending", "accepted", "done"} : finishedJob(job, next) \in Job
BY MaxAttemptsIsPos DEF Job, DoneJob, closedJob, finishedJob

LEMMA DispositionType ==
    ASSUME NEW outcome, NEW attempt
    PROVE  dispositionState(outcome, attempt) \in {"pending", "accepted", "done"}
BY DEF dispositionState

\* A live clock reading is a Boolean, so the stale cases are covered too.
LEMMA ReadingsAreBool == Readings \subseteq BOOLEAN
BY DEF Readings

LEMMA EffectiveType ==
    ASSUME TypeOK, NEW r \in Actors
    PROVE  Effective(r) \in Actors
BY DEF TypeOK, Effective, NoActor

LEMMA AdoptJobsType ==
    ASSUME TypeOK, NEW m \in Messages, NEW s \in Actors, NEW a \in Actors, NEW stale \in BOOLEAN
    PROVE  adoptJobs(m, s, a, stale) \in [Actors -> Job]
<1>1. outbox[m] \in [Actors -> Job] /\ outbox[m][s] \in Job
  BY DEF TypeOK
<1>2. [state |-> "pending", attempt |-> outbox[m][s].attempt, due |-> TRUE] \in Job
  BY <1>1 DEF Job
<1>3. DoneJob(outbox[m][s]) \in Job
  BY <1>1, JobTypes
<1> QED BY <1>1, <1>2, <1>3, NewJobTypes DEF adoptJobs

-----------------------------------------------------------------------------
(* Type correctness. *)

LEMMA TypeInit == Init => TypeOK
BY NewRowTypes, NewJobTypes, MaxCrashesIsNat DEF Init, TypeOK, MessageRow, NoActor

LEMMA TypeClient == TypeOK /\ ClientStep => TypeOK'
<1> SUFFICES ASSUME TypeOK, ClientStep PROVE TypeOK'
  OBVIOUS
<1>1. ASSUME NEW from \in Actors, NEW m \in Messages, NEW to \in SUBSET Recipients, NEW wake \in Wakes,
             Send(from, m, to, wake)
      PROVE  TypeOK'
  <2>1. message' \in [Messages -> MessageRow]
    BY <1>1, WakesAreBool DEF Send, TypeOK, MessageRow
  <2>2. delivery' \in [Messages -> [Actors -> DeliveryRow]]
    BY <1>1, NewRowTypes DEF Send, TypeOK
  <2>3. outbox' \in [Messages -> [Actors -> Job]]
    BY <1>1, NewJobTypes DEF Send, TypeOK
  <2> QED BY <1>1, <2>1, <2>2, <2>3 DEF Send, TypeOK
<1>2. ASSUME NEW a \in Actors, NEW r \in Actors, NEW m \in Messages, NEW stale \in Readings,
             Claim(a, m, r, stale)
      PROVE  TypeOK'
  <2>1. claimedRow(delivery[m][r]) \in DeliveryRow
    BY <1>2, ClaimedRowType DEF Claim, TypeOK
  <2>2. delivery' \in [Messages -> [Actors -> DeliveryRow]]
    BY <1>2, <2>1 DEF Claim, TypeOK
  <2>3. closedJob(outbox[m][a]) \in Job
    BY JobTypes DEF TypeOK
  <2>4. outbox' \in [Messages -> [Actors -> Job]]
    BY <1>2, <2>3 DEF Claim, TypeOK
  <2>5. holder' \in [Messages -> [Actors -> Actors \cup {NoActor}]]
    BY <1>2 DEF Claim, TypeOK
  <2> QED BY <1>2, <2>2, <2>4, <2>5 DEF Claim, TypeOK
<1>3. ASSUME NEW a \in Actors, NEW r \in Actors, NEW m \in Messages, NEW token \in 1 .. MaxClaims,
             NEW stale \in Readings, Extend(a, m, r, token, stale)
      PROVE  TypeOK'
  <2>1. delivery[m][r] \in DeliveryRow
    BY DEF TypeOK
  <2>2. [delivery[m][r] EXCEPT !.lease = IF @ = "lapsed" THEN "fresh" ELSE @] \in DeliveryRow
    BY <2>1 DEF DeliveryRow
  <2>3. delivery' \in [Messages -> [Actors -> DeliveryRow]]
    BY <1>3, <2>2 DEF Extend, TypeOK
  <2> QED BY <1>3, <2>3 DEF Extend, TypeOK
<1>4. ASSUME NEW a \in Actors, NEW r \in Actors, NEW m \in Messages, NEW token \in 1 .. MaxClaims,
             NEW next \in {"acked", "dead", "queued"}, Finish(a, m, r, token, next)
      PROVE  TypeOK'
  <2>1. token \in 0 .. MaxClaims
    BY MaxClaimsIsNat
  <2>2. finishedRow(delivery[m][r], token, next) \in DeliveryRow
    BY <2>1, FinishedRowType DEF TypeOK
  <2>3. delivery' \in [Messages -> [Actors -> DeliveryRow]]
    BY <1>4, <2>2 DEF Finish, TypeOK
  <2> QED BY <1>4, <2>3 DEF Finish, TypeOK
<1> QED BY <1>1, <1>2, <1>3, <1>4 DEF ClientStep

\* A revoked token is recorded as one that was issued: that a claimed row has
\* a token at all is what SettledByNewestClaim adds to the types.
LEMMA TypeOperator == TypeOK /\ SettledByNewestClaim /\ OperatorStep => TypeOK'
<1> SUFFICES ASSUME TypeOK, SettledByNewestClaim, OperatorStep PROVE TypeOK'
  OBVIOUS
<1>1. ASSUME NEW s \in Actors, NEW a \in Actors, NEW stale \in Readings, Adopt(s, a, stale)
      PROVE  TypeOK'
  <2>1. outbox' \in [Messages -> [Actors -> Job]]
    BY <1>1, AdoptJobsType, ReadingsAreBool DEF Adopt
  <2>2. adopter' \in [Actors -> Actors \cup {NoActor}]
    BY <1>1 DEF Adopt, TypeOK
  <2> QED BY <1>1, <2>1, <2>2 DEF Adopt, TypeOK
<1>2. ASSUME NEW m \in Messages, NEW r \in Actors, NEW stale \in Readings, Revoke(m, r, stale)
      PROVE  TypeOK'
  <2>1. delivery[m][r] \in DeliveryRow /\ revokedRow(delivery[m][r]) \in DeliveryRow
    BY RevokedRowType DEF TypeOK
  <2>2. delivery' \in [Messages -> [Actors -> DeliveryRow]]
    BY <1>2, <2>1 DEF Revoke, TypeOK
  <2>3. outbox[m][r] \in Job
    BY DEF TypeOK
  <2>4. [outbox[m][r] EXCEPT !.state = "pending", !.due = TRUE] \in Job
    BY <2>3 DEF Job
  <2>5. outbox' \in [Messages -> [Actors -> Job]]
    BY <1>2, <2>3, <2>4 DEF Revoke, TypeOK
  <2>6. delivery[m][r].token \in 1 .. MaxClaims
    <3>1. delivery[m][r].token = delivery[m][r].attempt /\ delivery[m][r].attempt > 0
      BY <1>2 DEF Revoke, SettledByNewestClaim
    <3> QED BY <2>1, <3>1, MaxClaimsIsNat DEF DeliveryRow
  <2>7. revoked' \in [Messages -> [Actors -> SUBSET (1 .. MaxClaims)]]
    BY <1>2, <2>6 DEF Revoke, TypeOK
  <2> QED BY <1>2, <2>2, <2>5, <2>7 DEF Revoke, TypeOK
<1>3. ASSUME NEW a \in Actors, NEW allowUnread \in BOOLEAN, Archive(a, allowUnread)
      PROVE  TypeOK'
  BY <1>3 DEF Archive, TypeOK
<1>4. ASSUME NEW a \in Actors, Restore(a)
      PROVE  TypeOK'
  BY <1>4 DEF Restore, TypeOK
<1> QED BY <1>1, <1>2, <1>3, <1>4 DEF OperatorStep

LEMMA TypePresence == TypeOK /\ PresenceStep => TypeOK'
<1> SUFFICES ASSUME TypeOK, NEW a \in Actors, PresenceStarts(a) \/ PresenceEnds(a) \/ Rearm(a)
             PROVE  TypeOK'
  BY DEF PresenceStep
<1>1. CASE PresenceStarts(a)
  BY <1>1 DEF PresenceStarts, TypeOK, store
<1>2. CASE PresenceEnds(a)
  BY <1>2 DEF PresenceEnds, TypeOK, store
<1>3. CASE Rearm(a)
  <2>1. ASSUME NEW job \in Job
        PROVE  DoneJob(job) \in Job /\ [job EXCEPT !.state = "pending", !.due = TRUE] \in Job
    BY JobTypes DEF Job
  <2> DEFINE rearmed(m) == IF outbox[m][a].state # "accepted" THEN outbox[m][a]
                           ELSE IF message[m].state = "expired" \/ outbox[m][a].attempt >= MaxAttempts
                                THEN DoneJob(outbox[m][a])
                           ELSE [outbox[m][a] EXCEPT !.state = "pending", !.due = TRUE]
  <2>2. outbox' = [m \in Messages |-> [outbox[m] EXCEPT ![a] = rearmed(m)]]
    BY <1>3 DEF Rearm
  <2>3. \A m \in Messages : outbox[m] \in [Actors -> Job] /\ outbox[m][a] \in Job
    BY DEF TypeOK
  <2>4. \A m \in Messages : rearmed(m) \in Job
    BY <2>1, <2>3
  <2> HIDE DEF rearmed
  <2>5. outbox' \in [Messages -> [Actors -> Job]]
    BY <2>2, <2>3, <2>4
  <2> QED BY <1>3, <2>5 DEF Rearm, TypeOK
<1> QED BY <1>1, <1>2, <1>3

LEMMA TypeWorker == TypeOK /\ WorkerStep => TypeOK'
<1> SUFFICES ASSUME TypeOK, WorkerStep PROVE TypeOK'
  OBVIOUS
<1>1. ASSUME NEW m \in Messages, NEW a \in Actors, ClaimNotification(m, a)
      PROVE  TypeOK'
  <2> DEFINE attempt == IF outbox[m][a].attempt < MaxAttempts THEN outbox[m][a].attempt + 1
                                                              ELSE MaxAttempts
  <2>1. attempt \in 1 .. MaxAttempts /\ attempt \in 0 .. MaxAttempts
    <3>1. outbox[m][a].attempt \in 0 .. MaxAttempts
      BY DEF TypeOK, Job
    <3> QED BY <3>1, MaxAttemptsIsPos
  <2> HIDE DEF attempt
  <2>2. [state |-> "processing", attempt |-> attempt, due |-> FALSE] \in Job
    BY <2>1 DEF Job
  <2>3. \A mm \in Messages, aa \in Actors : outbox[mm][aa] \in Job /\ DoneJob(outbox[mm][aa]) \in Job
    BY JobTypes DEF TypeOK
  <2>4. outbox' \in [Messages -> [Actors -> Job]]
    BY <1>1, <2>2, <2>3 DEF ClaimNotification, attempt
  <2>5. worker' = [pc |-> "claimed", msg |-> m, actor |-> a, attempt |-> attempt]
    BY <1>1 DEF ClaimNotification, attempt
  <2>6. worker' \in [pc : {"claimed"}, msg : Messages, actor : Actors, attempt : 1 .. MaxAttempts]
    BY <2>1, <2>5
  <2> QED BY <1>1, <2>4, <2>6 DEF ClaimNotification, TypeOK
<1>2. ASSUME NEW outcome \in Outcomes, Notify(outcome)
      PROVE  TypeOK'
  <2>1. worker.msg \in Messages /\ worker.actor \in Actors /\ worker.attempt \in 1 .. MaxAttempts
    BY <1>2 DEF Notify, TypeOK
  <2>2. worker' \in [pc : {"notified"}, msg : Messages, actor : Actors, attempt : 1 .. MaxAttempts,
                     outcome : Outcomes]
    BY <1>2, <2>1 DEF Notify
  <2> QED BY <1>2, <2>2 DEF Notify, TypeOK, store
<1>3. ASSUME FinishNotification
      PROVE  TypeOK'
  <2>1. worker.msg \in Messages /\ worker.actor \in Actors
    BY <1>3 DEF FinishNotification, TypeOK
  <2>2. finishedJob(outbox[worker.msg][worker.actor],
                    dispositionState(worker.outcome, worker.attempt)) \in Job
    <3>1. outbox[worker.msg][worker.actor] \in Job
      BY <2>1 DEF TypeOK
    <3>2. dispositionState(worker.outcome, worker.attempt) \in {"pending", "accepted", "done"}
      BY DispositionType
    <3> QED BY <3>1, <3>2, JobTypes
  <2>3. outbox' \in [Messages -> [Actors -> Job]]
    BY <1>3, <2>1, <2>2 DEF FinishNotification, TypeOK
  <2>4. worker' \in [pc : {"idle"}]
    BY <1>3 DEF FinishNotification
  <2> QED BY <1>3, <2>3, <2>4 DEF FinishNotification, TypeOK
<1> QED BY <1>1, <1>2, <1>3 DEF WorkerStep

LEMMA TypeTime == TypeOK /\ TimeStep => TypeOK'
<1> SUFFICES ASSUME TypeOK, TimeStep PROVE TypeOK'
  OBVIOUS
<1>1. ASSUME NEW m \in Messages, MessageExpires(m)
      PROVE  TypeOK'
  <2>0. message[m] \in MessageRow
    BY DEF TypeOK
  <2>1. [message[m] EXCEPT !.state = "expired"] \in MessageRow
    BY <2>0 DEF MessageRow
  <2>2. message' \in [Messages -> MessageRow]
    BY <1>1, <2>1 DEF MessageExpires, TypeOK
  <2> QED BY <1>1, <2>2 DEF MessageExpires, TypeOK
<1>2. ASSUME NEW m \in Messages, NEW r \in Actors, CrashGracePasses(m, r) \/ LeaseLapses(m, r)
      PROVE  TypeOK'
  <2>0. delivery[m][r] \in DeliveryRow
    BY DEF TypeOK
  <2>1. /\ [delivery[m][r] EXCEPT !.lease = "aged"] \in DeliveryRow
        /\ [delivery[m][r] EXCEPT !.lease = "lapsed"] \in DeliveryRow
    BY <2>0 DEF DeliveryRow
  <2>2. delivery' \in [Messages -> [Actors -> DeliveryRow]]
    <3>1. CASE CrashGracePasses(m, r)
      BY <3>1, <2>1 DEF CrashGracePasses, TypeOK
    <3>2. CASE LeaseLapses(m, r)
      BY <3>2, <2>1 DEF LeaseLapses, TypeOK
    <3> QED BY <1>2, <3>1, <3>2
  <2> QED BY <1>2, <2>2 DEF CrashGracePasses, LeaseLapses, TypeOK
<1>3. ASSUME NEW m \in Messages, NEW a \in Actors, JobDue(m, a)
      PROVE  TypeOK'
  <2>0. outbox[m][a] \in Job
    BY DEF TypeOK
  <2>1. [outbox[m][a] EXCEPT !.due = TRUE] \in Job
    BY <2>0 DEF Job
  <2>2. outbox' \in [Messages -> [Actors -> Job]]
    BY <1>3, <2>1 DEF JobDue, TypeOK
  <2> QED BY <1>3, <2>2 DEF JobDue, TypeOK
<1> QED BY <1>1, <1>2, <1>3 DEF TimeStep

LEMMA TypeStep == TypeOK /\ SettledByNewestClaim /\ [Next]_vars => TypeOK'
<1> SUFFICES ASSUME TypeOK, SettledByNewestClaim, [Next]_vars PROVE TypeOK'
  OBVIOUS
<1>1. CASE Crash
  <2>1. worker' \in [pc : {"idle"}] /\ crashes' \in 0 .. MaxCrashes
    BY <1>1, MaxCrashesIsNat DEF Crash, TypeOK
  <2> QED BY <1>1, <2>1 DEF Crash, TypeOK, store
<1>2. CASE UNCHANGED vars
  BY <1>2 DEF vars, TypeOK
<1> QED BY <1>1, <1>2, TypeClient, TypeOperator, TypePresence, TypeWorker, TypeTime DEF Next

-----------------------------------------------------------------------------
(* The life of one delivery row. *)

NewestDecides(row) ==
    /\ row.state = "claimed" => row.token = row.attempt /\ row.attempt > 0
    /\ row.state # "claimed" => row.token = NoToken
    /\ Settled(row) => row.terminal = row.attempt /\ row.attempt > 0

LeaseWhileClaimed(row) == row.lease # "none" => row.state = "claimed"

\* The revoked tokens of a row are older than its newest claim, and older than
\* the claim that holds or settled it.
RevokedIsOlder(row, tokens) ==
    \A token \in tokens : /\ token <= row.attempt
                          /\ row.state \in {"claimed", "acked", "dead"} => token < row.attempt

\* The inductive invariant of the rows.
RowInv ==
    /\ TypeOK
    /\ \A m \in Messages, r \in Actors :
          /\ NewestDecides(delivery[m][r])
          /\ LeaseWhileClaimed(delivery[m][r])
          /\ RevokedIsOlder(delivery[m][r], revoked[m][r])
          /\ message[m].state = "unsent" => delivery[m][r] = NoRow

\* What one step may do to a row and to its revoked tokens.
Kept(m, r) ==
    /\ delivery'[m][r] = delivery[m][r]
    /\ revoked'[m][r] = revoked[m][r]
    /\ message'[m].state = "unsent" => message[m].state = "unsent"
Sent(m, r) ==
    /\ message[m].state = "unsent" /\ message'[m].state # "unsent"
    /\ delivery'[m][r] \in {QueuedRow, NoRow}
    /\ revoked'[m][r] = revoked[m][r]
Claimed(m, r) ==
    /\ delivery[m][r].state = "queued"
          \/ (delivery[m][r].state = "claimed" /\ delivery[m][r].lease = "lapsed")
    /\ delivery[m][r].attempt < MaxClaims
    /\ delivery'[m][r] = claimedRow(delivery[m][r])
    /\ revoked'[m][r] = revoked[m][r]
    /\ message'[m] = message[m]
Timed(m, r) ==
    /\ delivery[m][r].state = "claimed"
    /\ \E lease \in {"fresh", "aged", "lapsed"} :
          delivery'[m][r] = [delivery[m][r] EXCEPT !.lease = lease]
    /\ revoked'[m][r] = revoked[m][r]
    /\ message'[m] = message[m]
Finished(m, r) ==
    /\ delivery[m][r].state = "claimed"
    /\ \E next \in {"acked", "dead", "queued"} :
          delivery'[m][r] = finishedRow(delivery[m][r], delivery[m][r].token, next)
    /\ revoked'[m][r] = revoked[m][r]
    /\ message'[m] = message[m]
Revoked(m, r) ==
    /\ delivery[m][r].state = "claimed"
    /\ delivery'[m][r] = revokedRow(delivery[m][r])
    /\ revoked'[m][r] = revoked[m][r] \cup {delivery[m][r].token}
    /\ message'[m] = message[m]

RowStep(m, r) ==
    Kept(m, r) \/ Sent(m, r) \/ Claimed(m, r) \/ Timed(m, r) \/ Finished(m, r) \/ Revoked(m, r)

LEMMA FinishVerdict ==
    ASSUME NEW row \in DeliveryRow, NEW token, NEW next, finishDeliveryState(row, token, next) = "finish"
    PROVE  row.state = "claimed" /\ row.token = token
BY DEF finishDeliveryState, Settled, DeliveryRow

\* Every step is, for every row, one of these.
LEMMA StepOfRow ==
    ASSUME RowInv, [Next]_vars, NEW m \in Messages, NEW r \in Actors
    PROVE  RowStep(m, r)
<1> USE DEF RowStep
<1>0. TypeOK /\ delivery[m][r] \in DeliveryRow
  BY DEF RowInv, TypeOK
<1>a. ASSUME UNCHANGED <<delivery, revoked, message>> PROVE RowStep(m, r)
  BY <1>a DEF Kept
<1>1. ASSUME NEW from \in Actors, NEW mm \in Messages, NEW to \in SUBSET Recipients, NEW wake \in Wakes,
             Send(from, mm, to, wake)
      PROVE  RowStep(m, r)
  <2>1. CASE mm = m
    BY <1>0, <1>1, <2>1 DEF Send, Sent, TypeOK
  <2>2. CASE mm # m
    BY <1>0, <1>1, <2>2 DEF Send, Kept, TypeOK
  <2> QED BY <2>1, <2>2
<1>2. ASSUME NEW a \in Actors, NEW rr \in Actors, NEW mm \in Messages, NEW stale \in Readings,
             Claim(a, mm, rr, stale)
      PROVE  RowStep(m, r)
  <2>1. CASE mm = m /\ rr = r
    BY <1>0, <1>2, <2>1 DEF Claim, Claimed, ClaimableAt, LapsedAt, TypeOK
  <2>2. CASE ~(mm = m /\ rr = r)
    BY <1>0, <1>2, <2>2 DEF Claim, Kept, TypeOK
  <2> QED BY <2>1, <2>2
<1>3. ASSUME NEW a \in Actors, NEW rr \in Actors, NEW mm \in Messages, NEW token \in 1 .. MaxClaims,
             NEW stale \in Readings, Extend(a, mm, rr, token, stale)
      PROVE  RowStep(m, r)
  <2>1. CASE mm = m /\ rr = r
    <3> DEFINE lease == IF delivery[m][r].lease = "lapsed" THEN "fresh" ELSE delivery[m][r].lease
    <3>1. delivery'[m][r] = [delivery[m][r] EXCEPT !.lease = lease]
      BY <1>0, <1>3, <2>1 DEF Extend, TypeOK
    <3>2. CASE lease = "none"
      <4>1. delivery'[m][r] = delivery[m][r]
        BY <1>0, <3>1, <3>2 DEF DeliveryRow
      <4> QED BY <4>1, <1>3 DEF Extend, Kept
    <3>3. CASE lease # "none"
      <4>1. lease \in {"fresh", "aged", "lapsed"}
        BY <1>0, <3>3 DEF DeliveryRow
      <4> QED BY <3>1, <4>1, <1>3, <2>1 DEF Extend, Timed
    <3> QED BY <3>2, <3>3
  <2>2. CASE ~(mm = m /\ rr = r)
    BY <1>0, <1>3, <2>2 DEF Extend, Kept, TypeOK
  <2> QED BY <2>1, <2>2
<1>4. ASSUME NEW a \in Actors, NEW rr \in Actors, NEW mm \in Messages, NEW token \in 1 .. MaxClaims,
             NEW next \in {"acked", "dead", "queued"}, Finish(a, mm, rr, token, next)
      PROVE  RowStep(m, r)
  <2>1. CASE mm = m /\ rr = r
    <3>1. delivery[m][r].state = "claimed" /\ delivery[m][r].token = token
      BY <1>0, <1>4, <2>1, FinishVerdict DEF Finish
    <3> QED BY <1>0, <1>4, <2>1, <3>1 DEF Finish, Finished, TypeOK
  <2>2. CASE ~(mm = m /\ rr = r)
    BY <1>0, <1>4, <2>2 DEF Finish, Kept, TypeOK
  <2> QED BY <2>1, <2>2
<1>5. ASSUME NEW mm \in Messages, NEW rr \in Actors, NEW stale \in Readings, Revoke(mm, rr, stale)
      PROVE  RowStep(m, r)
  <2>1. CASE mm = m /\ rr = r
    BY <1>0, <1>5, <2>1 DEF Revoke, Revoked, TypeOK
  <2>2. CASE ~(mm = m /\ rr = r)
    BY <1>0, <1>5, <2>2 DEF Revoke, Kept, TypeOK
  <2> QED BY <2>1, <2>2
<1>6. ASSUME NEW mm \in Messages, MessageExpires(mm) PROVE RowStep(m, r)
  BY <1>0, <1>6 DEF MessageExpires, Kept, TypeOK, MessageRow
<1>7. ASSUME NEW mm \in Messages, NEW rr \in Actors, NEW lease \in {"aged", "lapsed"},
             delivery[mm][rr].lease \in {"fresh", "aged"},
             delivery' = [delivery EXCEPT ![mm][rr].lease = lease],
             UNCHANGED <<message, revoked>>
      PROVE  RowStep(m, r)
  <2>1. CASE mm = m /\ rr = r
    <3>1. delivery[m][r].state = "claimed"
      BY <1>7, <2>1 DEF RowInv, LeaseWhileClaimed
    <3>2. delivery'[m][r] = [delivery[m][r] EXCEPT !.lease = lease]
      BY <1>0, <1>7, <2>1 DEF TypeOK
    <3> QED BY <1>7, <3>1, <3>2 DEF Timed
  <2>2. CASE ~(mm = m /\ rr = r)
    <3>1. delivery'[m][r] = delivery[m][r]
      BY <1>0, <1>7, <2>2 DEF TypeOK
    <3> QED BY <1>7, <3>1 DEF Kept
  <2> QED BY <2>1, <2>2
<1>8. CASE OperatorStep
  BY <1>8, <1>5, <1>a DEF OperatorStep, Adopt, Archive, Restore
<1>9. CASE PresenceStep \/ WorkerStep \/ Crash
  BY <1>9, <1>a DEF PresenceStep, PresenceStarts, PresenceEnds, Rearm, WorkerStep, ClaimNotification,
                    Notify, FinishNotification, Crash, store
<1>10. CASE TimeStep
  BY <1>10, <1>6, <1>7, <1>a DEF TimeStep, JobDue, CrashGracePasses, LeaseLapses
<1>11. CASE UNCHANGED vars
  BY <1>11, <1>a DEF vars
<1> QED BY <1>1, <1>2, <1>3, <1>4, <1>8, <1>9, <1>10, <1>11 DEF Next, ClientStep

\* Each of them keeps what the invariant says of the row.
LEMMA RowStepKeepsRow ==
    ASSUME NEW m \in Messages, NEW r \in Actors, RowInv, RowStep(m, r)
    PROVE  /\ NewestDecides(delivery'[m][r])
           /\ LeaseWhileClaimed(delivery'[m][r])
           /\ RevokedIsOlder(delivery'[m][r], revoked'[m][r])
           /\ message'[m].state = "unsent" => delivery'[m][r] = NoRow
<1> DEFINE row == delivery[m][r]
           rows == delivery'[m][r]
<1>0. /\ row \in DeliveryRow /\ revoked[m][r] \in SUBSET (1 .. MaxClaims)
      /\ NewestDecides(row) /\ LeaseWhileClaimed(row) /\ RevokedIsOlder(row, revoked[m][r])
      /\ message[m].state = "unsent" => row = NoRow
  BY DEF RowInv, TypeOK
<1> HIDE DEF row
<1>1. CASE Kept(m, r)
  BY <1>0, <1>1 DEF Kept, row
<1>2. CASE Sent(m, r)
  <2>1. row = NoRow
    BY <1>0, <1>2 DEF Sent
  <2>2. revoked[m][r] = {}
    BY <1>0, <2>1, MaxClaimsIsNat DEF RevokedIsOlder, NoRow
  <2> QED BY <1>2, <2>2 DEF Sent, NewestDecides, LeaseWhileClaimed, RevokedIsOlder, Settled, QueuedRow, NoRow
<1>3. CASE Claimed(m, r)
  <2>1. row.attempt \in Nat /\ message[m].state # "unsent"
    BY <1>0, <1>3, MaxClaimsIsNat DEF Claimed, DeliveryRow, NoRow, row
  <2>2. /\ rows.state = "claimed" /\ rows.attempt = row.attempt + 1
        /\ rows.token = row.attempt + 1
    BY <1>0, <1>3 DEF Claimed, claimedRow, DeliveryRow, row
  <2>3. \A token \in revoked[m][r] : token \in Nat /\ token <= row.attempt
    BY <1>0, MaxClaimsIsNat DEF RevokedIsOlder
  <2> QED BY <1>3, <2>1, <2>2, <2>3 DEF Claimed, NewestDecides, LeaseWhileClaimed, RevokedIsOlder, Settled
<1>4. CASE Timed(m, r)
  <2>1. /\ row.state = "claimed" /\ rows.state = "claimed" /\ rows.attempt = row.attempt
        /\ rows.token = row.token
    BY <1>0, <1>4 DEF Timed, DeliveryRow, row
  <2> QED BY <1>0, <1>4, <2>1 DEF Timed, NewestDecides, LeaseWhileClaimed, RevokedIsOlder, Settled, NoRow
<1>5. CASE Finished(m, r)
  <2>1. PICK next \in {"acked", "dead", "queued"} : rows = finishedRow(row, row.token, next)
    BY <1>5 DEF Finished, row
  <2>2. /\ row.state = "claimed" /\ rows.state = next /\ rows.attempt = row.attempt
        /\ rows.token = NoToken /\ rows.lease = "none"
        /\ next # "queued" => rows.terminal = row.token
    BY <1>0, <1>5, <2>1 DEF Finished, finishedRow, DeliveryRow, row
  <2> QED BY <1>0, <1>5, <2>2 DEF Finished, NewestDecides, LeaseWhileClaimed, RevokedIsOlder, Settled, NoRow
<1>6. CASE Revoked(m, r)
  <2>1. /\ row.state = "claimed" /\ rows.state = "queued" /\ rows.attempt = row.attempt
        /\ rows.token = NoToken /\ rows.lease = "none"
    BY <1>0, <1>6 DEF Revoked, revokedRow, DeliveryRow, row
  <2>2. row.token = row.attempt /\ row.attempt \in Nat
    BY <1>0, <2>1, MaxClaimsIsNat DEF NewestDecides, DeliveryRow
  <2> QED BY <1>0, <1>6, <2>1, <2>2 DEF Revoked, NewestDecides, LeaseWhileClaimed, RevokedIsOlder, Settled, NoRow, row
<1> QED BY <1>1, <1>2, <1>3, <1>4, <1>5, <1>6 DEF RowStep

-----------------------------------------------------------------------------
(* The invariants of the rows. *)

LEMMA RowInvInit == Init => RowInv
<1> SUFFICES ASSUME Init PROVE RowInv
  OBVIOUS
<1>1. TypeOK
  BY TypeInit
<1>2. ASSUME NEW m \in Messages, NEW r \in Actors
      PROVE  delivery[m][r] = NoRow /\ revoked[m][r] = {}
  BY DEF Init
<1> QED BY <1>1, <1>2 DEF RowInv, NewestDecides, LeaseWhileClaimed, RevokedIsOlder, Settled, NoRow

LEMMA RowInvIsSettled == RowInv => SettledByNewestClaim
BY DEF RowInv, NewestDecides, SettledByNewestClaim

LEMMA RowInvStep == RowInv /\ [Next]_vars => RowInv'
<1> SUFFICES ASSUME RowInv, [Next]_vars PROVE RowInv'
  OBVIOUS
<1>1. TypeOK'
  BY TypeStep, RowInvIsSettled DEF RowInv
<1>2. ASSUME NEW m \in Messages, NEW r \in Actors
      PROVE  /\ NewestDecides(delivery'[m][r])
             /\ LeaseWhileClaimed(delivery'[m][r])
             /\ RevokedIsOlder(delivery'[m][r], revoked'[m][r])
             /\ message'[m].state = "unsent" => delivery'[m][r] = NoRow
  BY StepOfRow, RowStepKeepsRow
<1> QED BY <1>1, <1>2 DEF RowInv, NewestDecides, LeaseWhileClaimed, RevokedIsOlder, Settled

\* The inductive invariant holds in every reachable state.
THEOREM RowInvariance == Spec => []RowInv
<1> QED BY RowInvInit, RowInvStep, PTL DEF Spec

\* The tables and the worker stay well formed, whatever clients, operator,
\* worker, crashes and deadlines do.
THEOREM TypeCorrect == Spec => []TypeOK
<1>1. RowInv => TypeOK
  BY DEF RowInv
<1> QED BY <1>1, RowInvariance, PTL

\* Store.Claim, Extend, finish and RevokeDeliveryLease together: one current
\* token per delivery, the newest, and only it settles the delivery.
THEOREM NewestClaimDecides == Spec => []SettledByNewestClaim
<1> QED BY RowInvIsSettled, RowInvariance, PTL

\* Store.RevokeDeliveryLease: a revoked token never comes back.
THEOREM RevocationFences == Spec => []RevokedIsFenced
<1>1. RowInv => RevokedIsFenced
  <2> SUFFICES ASSUME RowInv, NEW m \in Messages, NEW r \in Actors, NEW token \in revoked[m][r]
               PROVE  /\ delivery[m][r].token # token
                      /\ Settled(delivery[m][r]) => delivery[m][r].terminal # token
    BY DEF RevokedIsFenced
  <2>1. /\ NewestDecides(delivery[m][r]) /\ RevokedIsOlder(delivery[m][r], revoked[m][r])
        /\ delivery[m][r] \in DeliveryRow /\ token \in 1 .. MaxClaims
    BY DEF RowInv, TypeOK
  <2>2. token \in Nat /\ token > 0 /\ delivery[m][r].attempt \in Nat
    BY <2>1, MaxClaimsIsNat DEF DeliveryRow
  <2> QED BY <2>1, <2>2 DEF NewestDecides, RevokedIsOlder, Settled, NoToken
<1> QED BY <1>1, RowInvariance, PTL

-----------------------------------------------------------------------------
(* Adoption. *)

LEMMA ForwardingStep == TypeOK /\ ForwardingReachesAnInbox /\ [Next]_vars => ForwardingReachesAnInbox'
<1> SUFFICES ASSUME TypeOK, ForwardingReachesAnInbox, [Next]_vars PROVE ForwardingReachesAnInbox'
  OBVIOUS
<1>1. ASSUME NEW s \in Actors, NEW a \in Actors, NEW stale \in Readings, Adopt(s, a, stale)
      PROVE  ForwardingReachesAnInbox'
  <2>1. /\ adopter' = [adopter EXCEPT ![s] = a] /\ s # a
        /\ adopter[a] = NoActor /\ \A x \in Actors : adopter[x] # s
    BY <1>1 DEF Adopt, Chained
  <2>2. adopter \in [Actors -> Actors \cup {NoActor}] /\ NoActor \notin Actors
    BY ActorsAreNamed DEF TypeOK, NoActor
  <2>3. ASSUME NEW x \in Actors, adopter'[x] # NoActor
        PROVE  adopter'[adopter'[x]] = NoActor /\ adopter'[x] # x
    BY <2>1, <2>2, <2>3 DEF ForwardingReachesAnInbox
  <2> QED BY <2>3 DEF ForwardingReachesAnInbox
<1>2. CASE UNCHANGED adopter
  BY <1>2 DEF ForwardingReachesAnInbox
<1>3. [Next]_vars => UNCHANGED adopter \/ \E s, a \in Actors, stale \in Readings : Adopt(s, a, stale)
  <2>1. ClientStep => UNCHANGED adopter
    BY DEF ClientStep, Send, Claim, Extend, Finish
  <2>2. OperatorStep => UNCHANGED adopter \/ \E s, a \in Actors, stale \in Readings : Adopt(s, a, stale)
    BY DEF OperatorStep, Revoke, Archive, Restore
  <2>3. PresenceStep => UNCHANGED adopter
    BY DEF PresenceStep, PresenceStarts, PresenceEnds, Rearm, store
  <2>4. WorkerStep => UNCHANGED adopter
    BY DEF WorkerStep, ClaimNotification, Notify, FinishNotification, store
  <2>5. TimeStep => UNCHANGED adopter
    BY DEF TimeStep, MessageExpires, CrashGracePasses, LeaseLapses, JobDue, store
  <2>6. Crash => UNCHANGED adopter
    BY DEF Crash, store
  <2> QED BY <2>1, <2>2, <2>3, <2>4, <2>5, <2>6 DEF Next, vars
<1> QED BY <1>1, <1>2, <1>3

\* Store.AdoptActor: what is forwarded is forwarded once, to an actor that can
\* register and claim.
THEOREM ForwardingIsFlat == Spec => []ForwardingReachesAnInbox
<1>1. Init => ForwardingReachesAnInbox
  BY DEF Init, ForwardingReachesAnInbox
<1> QED BY <1>1, ForwardingStep, TypeCorrect, PTL DEF Spec

-----------------------------------------------------------------------------
(* The mailbox implements the fenced queue: every step of the store maps,   *)
(* row by row, to a step of FencedQueue or to a stutter.                    *)

Rows == Messages \X Actors
Item == [i \in Rows |-> queueItem(delivery[i[1]][i[2]])]

LEMMA ItemOfRow ==
    ASSUME NEW m \in Messages, NEW r \in Actors
    PROVE  <<m, r>> \in Rows /\ Item[<<m, r>>] = queueItem(delivery[m][r])
BY DEF Rows, Item

\* A step that writes one row writes one item.
LEMMA OneItem ==
    ASSUME TypeOK, NEW m \in Messages, NEW r \in Actors, NEW row,
           delivery' = [delivery EXCEPT ![m][r] = row]
    PROVE  Item' = [Item EXCEPT ![<<m, r>>] = queueItem(row)]
<1>1. ASSUME NEW i \in Rows
      PROVE  queueItem(delivery'[i[1]][i[2]])
                = IF i = <<m, r>> THEN queueItem(row) ELSE queueItem(delivery[i[1]][i[2]])
  <2>1. PICK n \in Messages, q \in Actors : i = <<n, q>>
    BY <1>1 DEF Rows
  <2>2. delivery'[n][q] = IF n = m /\ q = r THEN row ELSE delivery[n][q]
    BY DEF TypeOK
  <2> QED BY <2>1, <2>2
<1> QED BY <1>1 DEF Item

LEMMA HeldItem ==
    ASSUME NEW row, row.state = "claimed"
    PROVE  queueItem(row) = [phase  |-> IF row.lease = "lapsed" THEN "overdue" ELSE "held",
                             gen    |-> row.attempt,
                             winner |-> 0]
BY DEF queueItem, Phase, Settled

LEMMA FreeItem ==
    ASSUME NEW row, row.state = "queued"
    PROVE  queueItem(row) = [phase |-> "available", gen |-> row.attempt, winner |-> 0]
BY DEF queueItem, Phase, Settled

LEMMA ClaimIsTake ==
    ASSUME NEW row \in DeliveryRow,
           row.state = "queued" \/ (row.state = "claimed" /\ row.lease = "lapsed")
    PROVE  /\ queueItem(row).phase \in {"available", "overdue"}
           /\ queueItem(claimedRow(row))
                 = [phase |-> "held", gen |-> queueItem(row).gen + 1, winner |-> queueItem(row).winner]
<1>1. /\ claimedRow(row).state = "claimed" /\ claimedRow(row).attempt = row.attempt + 1
      /\ claimedRow(row).lease = "fresh"
  BY DEF claimedRow, DeliveryRow
<1>2. queueItem(claimedRow(row)) = [phase |-> "held", gen |-> row.attempt + 1, winner |-> 0]
  BY <1>1, HeldItem
<1>3. CASE row.state = "queued"
  <2>1. queueItem(row) = [phase |-> "available", gen |-> row.attempt, winner |-> 0]
    BY <1>3, FreeItem
  <2>2. queueItem(row).gen = row.attempt /\ queueItem(row).phase = "available" /\ queueItem(row).winner = 0
    BY <2>1
  <2> QED BY <1>2, <2>2, Zenon
<1>4. CASE row.state = "claimed" /\ row.lease = "lapsed"
  <2>1. queueItem(row) = [phase |-> "overdue", gen |-> row.attempt, winner |-> 0]
    BY <1>4, HeldItem
  <2>2. queueItem(row).gen = row.attempt /\ queueItem(row).phase = "overdue" /\ queueItem(row).winner = 0
    BY <2>1
  <2> QED BY <1>2, <2>2, Zenon
<1> QED BY <1>3, <1>4

LEMMA TimedIsOverrun ==
    ASSUME NEW row \in DeliveryRow, row.state = "claimed", NEW lease
    PROVE  /\ queueItem(row).phase \in {"held", "overdue"}
           /\ queueItem([row EXCEPT !.lease = lease])
                 = [queueItem(row) EXCEPT !.phase = IF lease = "lapsed" THEN "overdue" ELSE "held"]
<1>1. /\ [row EXCEPT !.lease = lease].state = "claimed"
      /\ [row EXCEPT !.lease = lease].attempt = row.attempt
      /\ [row EXCEPT !.lease = lease].lease = lease
  BY DEF DeliveryRow
<1>2. queueItem([row EXCEPT !.lease = lease])
        = [phase |-> IF lease = "lapsed" THEN "overdue" ELSE "held", gen |-> row.attempt, winner |-> 0]
  BY <1>1, HeldItem
<1>3. queueItem(row) = [phase |-> IF row.lease = "lapsed" THEN "overdue" ELSE "held",
                        gen |-> row.attempt, winner |-> 0]
  BY HeldItem
<1> QED BY <1>2, <1>3

LEMMA NackIsReturn ==
    ASSUME NEW row \in DeliveryRow, row.state = "claimed", NEW token
    PROVE  /\ queueItem(row).phase \in {"held", "overdue"}
           /\ queueItem(finishedRow(row, token, "queued")) = [queueItem(row) EXCEPT !.phase = "available"]
           /\ queueItem(revokedRow(row)) = [queueItem(row) EXCEPT !.phase = "available"]
<1>1. /\ finishedRow(row, token, "queued").state = "queued"
      /\ finishedRow(row, token, "queued").attempt = row.attempt
  BY DEF finishedRow, DeliveryRow
<1>2. revokedRow(row).state = "queued" /\ revokedRow(row).attempt = row.attempt
  BY DEF revokedRow, DeliveryRow
<1> QED BY <1>1, <1>2, HeldItem, FreeItem

LEMMA FinishIsSettle ==
    ASSUME NEW row \in DeliveryRow, row.state = "claimed", NewestDecides(row),
           NEW decision \in {"acked", "dead"}
    PROVE  /\ queueItem(row).phase \in {"held", "overdue"}
           /\ queueItem(finishedRow(row, row.token, decision))
                 = [phase |-> decision, gen |-> queueItem(row).gen, winner |-> queueItem(row).gen]
<1>1. /\ finishedRow(row, row.token, decision).state = decision
      /\ finishedRow(row, row.token, decision).attempt = row.attempt
      /\ finishedRow(row, row.token, decision).terminal = row.attempt
  BY DEF finishedRow, DeliveryRow, NewestDecides
<1>2. queueItem(finishedRow(row, row.token, decision))
        = [phase |-> decision, gen |-> row.attempt, winner |-> row.attempt]
  BY <1>1 DEF queueItem, Phase, Settled
<1>3. queueItem(row) = [phase |-> IF row.lease = "lapsed" THEN "overdue" ELSE "held",
                        gen |-> row.attempt, winner |-> 0]
  BY HeldItem
<1>4. queueItem(row).gen = row.attempt /\ queueItem(row).phase \in {"held", "overdue"}
  BY <1>3
<1> QED BY <1>2, <1>4, Zenon

-----------------------------------------------------------------------------
LEMMA QueueInit == Init => Queue!Init
<1> SUFFICES ASSUME Init PROVE Item = [i \in Rows |-> Queue!Absent]
  BY DEF Queue!Init, Item, Rows
<1>1. ASSUME NEW i \in Rows PROVE queueItem(delivery[i[1]][i[2]]) = Queue!Absent
  <2>1. delivery[i[1]][i[2]] = NoRow
    BY <1>1 DEF Init, Rows
  <2> QED BY <2>1 DEF queueItem, NoRow, Phase, Settled, Queue!Absent
<1> QED BY <1>1 DEF Item

LEMMA QueueStep == RowInv /\ [Next]_vars => Queue!Next \/ Item' = Item
<1> SUFFICES ASSUME RowInv, [Next]_vars PROVE Queue!Next \/ Item' = Item
  OBVIOUS
<1>0. TypeOK /\ \A m \in Messages, r \in Actors : delivery[m][r] \in DeliveryRow /\ NewestDecides(delivery[m][r])
  BY DEF RowInv, TypeOK
<1>a. CASE UNCHANGED delivery
  BY <1>a DEF Item
<1>1. ASSUME NEW from \in Actors, NEW m \in Messages, NEW to \in SUBSET Recipients, NEW wake \in Wakes,
             Send(from, m, to, wake)
      PROVE  Queue!Next
  <2> DEFINE S == {m} \X to
  <2>1. S \subseteq Rows
    BY RecipientsActors DEF Rows
  <2>2. ASSUME NEW i \in Rows
        PROVE  /\ i \in S => Item[i].phase = "absent"
               /\ Item'[i] = IF i \in S THEN [Item[i] EXCEPT !.phase = "available"] ELSE Item[i]
    <3>1. PICK n \in Messages, q \in Actors : i = <<n, q>>
      BY <2>2 DEF Rows
    <3>2. Item[i] = queueItem(delivery[n][q]) /\ Item'[i] = queueItem(delivery'[n][q])
      BY <3>1, <2>2 DEF Item
    <3>3. CASE n = m
      <4>1. delivery[n][q] = NoRow
        BY <1>1, <3>3 DEF Send, RowInv
      <4>2. delivery'[n][q] = IF q \in to THEN QueuedRow ELSE NoRow
        BY <1>0, <1>1, <3>3 DEF Send, TypeOK
      <4>3. i \in S <=> q \in to
        BY <3>1, <3>3
      <4> HIDE DEF S
      <4>4. queueItem(NoRow).phase = "absent"
        BY DEF queueItem, NoRow, Phase
      <4>5. queueItem(QueuedRow) = [queueItem(NoRow) EXCEPT !.phase = "available"]
        BY DEF queueItem, NoRow, QueuedRow, Phase, Settled
      <4> QED BY <3>2, <4>1, <4>2, <4>3, <4>4, <4>5
    <3>4. CASE n # m
      <4>1. i \notin S
        BY <3>1, <3>4
      <4>2. delivery'[n][q] = delivery[n][q]
        BY <1>0, <1>1, <3>4 DEF Send, TypeOK
      <4> QED BY <3>2, <4>1, <4>2
    <3> QED BY <3>3, <3>4
  <2> HIDE DEF S
  <2>3. Item' = [i \in Rows |-> IF i \in S THEN [Item[i] EXCEPT !.phase = "available"] ELSE Item[i]]
    <3>1. Item' = [i \in Rows |-> Item'[i]]
      BY DEF Item
    <3> QED BY <2>2, <3>1
  <2>4. Queue!Touched = S
    <3>1. ASSUME NEW i \in S PROVE Item'[i] # Item[i]
      <4>1. Item[i] = queueItem(delivery[i[1]][i[2]])
        BY <2>1, <3>1 DEF Item
      <4>2. Item[i].phase = "absent" /\ Item'[i].phase = "available"
        BY <2>1, <2>2, <3>1, <4>1 DEF queueItem
      <4> QED BY <4>2
    <3>2. Queue!Touched = {i \in Rows : Item'[i] # Item[i]}
      BY DEF Queue!Touched, Item, Rows
    <3>3. ASSUME NEW i \in Rows, i \notin S PROVE Item'[i] = Item[i]
      BY <2>2, <3>3
    <3> QED BY <2>1, <3>1, <3>2, <3>3
  <2>5. Queue!Publish
    <3>1. Queue!Publish <=>
             /\ \A i \in Queue!Touched : Item[i].phase = "absent"
             /\ Item' = [i \in Rows |-> IF i \in Queue!Touched
                                       THEN [Item[i] EXCEPT !.phase = "available"] ELSE Item[i]]
      BY DEF Queue!Publish, Item, Rows
    <3> QED BY <2>1, <2>2, <2>3, <2>4, <3>1
  <2> QED BY <2>5 DEF Queue!Next
<1>2. ASSUME NEW a \in Actors, NEW r \in Actors, NEW m \in Messages, NEW stale \in Readings,
             Claim(a, m, r, stale)
      PROVE  Queue!Next
  <2>1. Item' = [Item EXCEPT ![<<m, r>>] = queueItem(claimedRow(delivery[m][r]))]
    BY <1>0, <1>2, OneItem DEF Claim
  <2>2. delivery[m][r].state = "queued" \/ (delivery[m][r].state = "claimed" /\ delivery[m][r].lease = "lapsed")
    BY <1>2 DEF Claim, ClaimableAt, LapsedAt
  <2>a. /\ queueItem(delivery[m][r]).phase \in {"available", "overdue"}
        /\ queueItem(claimedRow(delivery[m][r]))
              = [phase |-> "held", gen |-> queueItem(delivery[m][r]).gen + 1,
                 winner |-> queueItem(delivery[m][r]).winner]
    BY <1>0, <2>2, ClaimIsTake
  <2>3. Queue!Take(<<m, r>>)
    BY <2>1, <2>a, ItemOfRow DEF Queue!Take, Queue!Held, Item, Rows
  <2> QED BY <2>3, ItemOfRow DEF Queue!Next, Rows
<1>3. ASSUME NEW m \in Messages, NEW r \in Actors, NEW lease, delivery[m][r].state = "claimed",
             delivery' = [delivery EXCEPT ![m][r] = [delivery[m][r] EXCEPT !.lease = lease]]
      PROVE  Queue!Next
  <2>1. Item' = [Item EXCEPT ![<<m, r>>] = queueItem([delivery[m][r] EXCEPT !.lease = lease])]
    BY <1>0, <1>3, OneItem
  <2> DEFINE phase == IF lease = "lapsed" THEN "overdue" ELSE "held"
  <2>2. /\ queueItem(delivery[m][r]).phase \in {"held", "overdue"}
        /\ queueItem([delivery[m][r] EXCEPT !.lease = lease]) = [queueItem(delivery[m][r]) EXCEPT !.phase = phase]
    BY <1>0, <1>3, TimedIsOverrun
  <2>3. <<m, r>> \in Rows /\ Item[<<m, r>>] = queueItem(delivery[m][r])
    BY ItemOfRow
  <2>4. Item' = [Item EXCEPT ![<<m, r>>] = [Item[<<m, r>>] EXCEPT !.phase = phase]]
    BY <2>1, <2>2, <2>3
  <2>5. phase \in {"held", "overdue"}
    OBVIOUS
  <2> HIDE DEF phase
  <2>6. Queue!Overrun(<<m, r>>, phase)
    BY <2>2, <2>3, <2>4 DEF Queue!Overrun, Queue!Held, Item, Rows
  <2> QED BY <2>3, <2>5, <2>6 DEF Queue!Next, Rows
<1>4. ASSUME NEW a \in Actors, NEW r \in Actors, NEW m \in Messages, NEW token \in 1 .. MaxClaims,
             NEW next \in {"acked", "dead", "queued"}, Finish(a, m, r, token, next)
      PROVE  Queue!Next
  <2>1. Item' = [Item EXCEPT ![<<m, r>>] = queueItem(finishedRow(delivery[m][r], token, next))]
    BY <1>0, <1>4, OneItem DEF Finish
  <2>2. delivery[m][r].state = "claimed" /\ delivery[m][r].token = token
    BY <1>0, <1>4, FinishVerdict DEF Finish
  <2>3. CASE next = "queued"
    <3>a. /\ queueItem(delivery[m][r]).phase \in {"held", "overdue"}
          /\ queueItem(finishedRow(delivery[m][r], token, next))
                = [queueItem(delivery[m][r]) EXCEPT !.phase = "available"]
      BY <1>0, <2>2, <2>3, NackIsReturn
    <3>1. Queue!Return(<<m, r>>)
      BY <2>1, <3>a, ItemOfRow DEF Queue!Return, Queue!Held, Item, Rows
    <3> QED BY <3>1, ItemOfRow DEF Queue!Next, Rows
  <2>4. CASE next \in {"acked", "dead"}
    <3>a. /\ queueItem(delivery[m][r]).phase \in {"held", "overdue"}
          /\ queueItem(finishedRow(delivery[m][r], token, next))
                = [phase |-> next, gen |-> queueItem(delivery[m][r]).gen, winner |-> queueItem(delivery[m][r]).gen]
      BY <1>0, <2>2, <2>4, FinishIsSettle
    <3>1. Queue!Settle(<<m, r>>, next)
      BY <2>1, <3>a, ItemOfRow DEF Queue!Settle, Queue!Held, Item, Rows
    <3> QED BY <3>1, <2>4, ItemOfRow DEF Queue!Next, Rows
  <2> QED BY <2>3, <2>4
<1>5. ASSUME NEW m \in Messages, NEW r \in Actors, NEW stale \in Readings, Revoke(m, r, stale)
      PROVE  Queue!Next
  <2>1. Item' = [Item EXCEPT ![<<m, r>>] = queueItem(revokedRow(delivery[m][r]))]
    BY <1>0, <1>5, OneItem DEF Revoke
  <2>2. Queue!Return(<<m, r>>)
    BY <1>0, <1>5, <2>1, ItemOfRow, NackIsReturn DEF Revoke, Queue!Return, Queue!Held, Item, Rows
  <2> QED BY <2>2, ItemOfRow DEF Queue!Next, Rows
<1>6. ASSUME NEW m \in Messages, NEW r \in Actors, CrashGracePasses(m, r) \/ LeaseLapses(m, r)
      PROVE  Queue!Next
  <2>1. delivery[m][r].state = "claimed"
    BY <1>6 DEF CrashGracePasses, LeaseLapses, RowInv, LeaseWhileClaimed
  <2>2. CASE CrashGracePasses(m, r)
    BY <1>0, <1>3, <2>1, <2>2 DEF CrashGracePasses
  <2>3. CASE LeaseLapses(m, r)
    BY <1>0, <1>3, <2>1, <2>3 DEF LeaseLapses
  <2> QED BY <1>6, <2>2, <2>3
<1>7. ASSUME NEW a \in Actors, NEW r \in Actors, NEW m \in Messages, NEW token \in 1 .. MaxClaims,
             NEW stale \in Readings, Extend(a, m, r, token, stale)
      PROVE  Queue!Next
  BY <1>0, <1>3, <1>7 DEF Extend
<1>8. CASE ClientStep
  BY <1>8, <1>1, <1>2, <1>4, <1>7 DEF ClientStep
<1>9. CASE OperatorStep
  BY <1>9, <1>5, <1>a DEF OperatorStep, Adopt, Archive, Restore
<1>10. CASE PresenceStep \/ WorkerStep \/ Crash
  BY <1>10, <1>a DEF PresenceStep, PresenceStarts, PresenceEnds, Rearm, WorkerStep, ClaimNotification,
                     Notify, FinishNotification, Crash, store
<1>11. CASE TimeStep
  BY <1>11, <1>6, <1>a DEF TimeStep, MessageExpires, JobDue
<1>12. CASE UNCHANGED vars
  BY <1>12, <1>a DEF vars
<1> QED BY <1>8, <1>9, <1>10, <1>11, <1>12 DEF Next

\* Claims, late and repeated finishes, extensions, adoptions and revocations
\* implement the fenced queue: no delivery has two holders with running leases,
\* no old claim settles it, and a settled delivery stays settled.
THEOREM MailboxIsFencedQueue == Spec => DeliveriesAreFenced
<1>1. RowInv /\ [Next]_vars => [Queue!Next]_Item
  BY QueueStep
<1> QED BY <1>1, QueueInit, RowInvariance, PTL DEF Spec, DeliveriesAreFenced, Queue!Spec, Item, Rows

-----------------------------------------------------------------------------
(* The wakes follow the deliveries: nobody adopted is woken, nobody is      *)
(* woken for what it has claimed, and every delivery that wants a wake has  *)
(* a job with who can claim it.                                             *)

\* Only a message that was sent and asks for a wake has jobs.
JobsAreWanted ==
    \A m \in Messages, a \in Actors :
        outbox[m][a].state # "none" => message[m].state # "unsent" /\ message[m].wake

\* A row is claimed by its recipient, or by somebody who has no row of its own.
HoldersPrefer ==
    \A m \in Messages, r \in Actors : delivery[m][r].state = "claimed" =>
        /\ holder[m][r] \in Actors
        /\ holder[m][r] = r \/ delivery[m][holder[m][r]].state = "none"

\* The claimant of a live message had a job for it, and it is closed.
ClaimantsAreDone ==
    \A m \in Messages, r \in Actors :
        message[m].state = "live" /\ message[m].wake /\ delivery[m][r].state = "claimed"
            => outbox[m][holder[m][r]].state = "done"

\* Taken together these are inductive.
WakeInv ==
    /\ JobsAreWanted /\ HoldersPrefer /\ ClaimantsAreDone
    /\ WakeFollowsDelivery /\ AdoptedIsNotWoken

\* What is known where a step starts.
Before == RowInv /\ ForwardingReachesAnInbox /\ WakeInv

-----------------------------------------------------------------------------
\* A job is never in two of the three conditions that the invariant tells apart.
LEMMA JobStates ==
    ASSUME NEW job \in Job
    PROVE  job.state = "done" <=> job.state # "none" /\ ~Open(job)
BY DEF Job, Open

\* An actor that was not adopted receives its own mail, an adopted one's goes
\* to one that was not.
LEMMA Forwarded ==
    ASSUME TypeOK, ForwardingReachesAnInbox, NEW r \in Actors
    PROVE  Effective(r) \in Actors /\ adopter[Effective(r)] = NoActor
BY EffectiveType DEF ForwardingReachesAnInbox, Effective, TypeOK

-----------------------------------------------------------------------------
(* Steps that neither open a job nor make or remove one. *)

Quiet ==
    \A m \in Messages, a \in Actors :
        /\ outbox'[m][a].state = "none" <=> outbox[m][a].state = "none"
        /\ Open(outbox'[m][a]) => Open(outbox[m][a])

\* A row keeps existing and stays as it is, becomes claimed from unsettled, or
\* goes on; only Send creates one.
RowsGoOn ==
    \A m \in Messages, r \in Actors :
        /\ delivery'[m][r].state = "none" <=> delivery[m][r].state = "none"
        /\ Unsettled(delivery'[m][r]) => Unsettled(delivery[m][r])

MessagesGoOn ==
    \A m \in Messages :
        /\ message'[m].wake = message[m].wake
        /\ message'[m].state = "live" => message[m].state = "live"
        /\ message[m].state # "unsent" => message'[m].state # "unsent"

\* Every claimed row was claimed before, by the same actor.
NoNewClaim ==
    \A m \in Messages, r \in Actors : delivery'[m][r].state = "claimed" =>
        delivery[m][r].state = "claimed" /\ holder'[m][r] = holder[m][r]

\* Without new jobs and new rows, what is said of jobs and adoptions still holds.
LEMMA QuietJobs ==
    ASSUME Before, Quiet, RowsGoOn, MessagesGoOn, UNCHANGED adopter,
           \A m \in Messages, r \in Actors : revoked[m][r] \subseteq revoked'[m][r]
    PROVE  JobsAreWanted' /\ WakeFollowsDelivery' /\ AdoptedIsNotWoken'
<1> USE DEF Before, WakeInv
<1>1. JobsAreWanted'
  BY DEF JobsAreWanted, Quiet, MessagesGoOn
<1>2. WakeFollowsDelivery'
  <2>1. \A r \in Actors : Effective(r)' = Effective(r)
    BY DEF Effective
  <2>2. \A r \in Actors : Effective(r) \in Actors
    BY EffectiveType DEF RowInv
  <2> QED  BY <2>1, <2>2 DEF WakeFollowsDelivery, Quiet, RowsGoOn, MessagesGoOn
<1>3. AdoptedIsNotWoken'
  BY DEF AdoptedIsNotWoken, Quiet
<1> QED  BY <1>1, <1>2, <1>3

\* A closed job stays closed in a quiet step.
LEMMA QuietKeepsDone ==
    ASSUME TypeOK, TypeOK', Quiet, NEW m \in Messages, NEW a \in Actors, outbox[m][a].state = "done"
    PROVE  outbox'[m][a].state = "done"
<1>1. outbox[m][a] \in Job /\ outbox'[m][a] \in Job
  BY DEF TypeOK
<1> QED  BY <1>1, JobStates DEF Quiet

\* A step that touches neither jobs nor claims nor adoptions keeps the invariant.
LEMMA QuietStep ==
    ASSUME Before, TypeOK', Quiet, RowsGoOn, MessagesGoOn, NoNewClaim, UNCHANGED adopter,
           \A m \in Messages, r \in Actors : revoked[m][r] \subseteq revoked'[m][r]
    PROVE  WakeInv'
<1> USE DEF Before, WakeInv
<1>1. HoldersPrefer'
  BY DEF HoldersPrefer, RowsGoOn, NoNewClaim
<1>2. ClaimantsAreDone'
  <2> SUFFICES ASSUME NEW m \in Messages, NEW r \in Actors, message'[m].state = "live", message'[m].wake,
                      delivery'[m][r].state = "claimed"
               PROVE  outbox'[m][holder'[m][r]].state = "done"
    BY DEF ClaimantsAreDone
  <2>1. /\ message[m].state = "live" /\ message[m].wake
        /\ delivery[m][r].state = "claimed" /\ holder'[m][r] = holder[m][r]
    BY DEF MessagesGoOn, NoNewClaim
  <2>2. holder[m][r] \in Actors /\ outbox[m][holder[m][r]].state = "done"
    BY <2>1 DEF HoldersPrefer, ClaimantsAreDone
  <2> QED  BY <2>1, <2>2, QuietKeepsDone DEF RowInv
<1> QED  BY <1>1, <1>2, QuietJobs

-----------------------------------------------------------------------------
(* Which steps are quiet. *)

\* Rows are created by Send alone, and no step unsettles a settled one.
LEMMA RowsStay ==
    ASSUME Before, [Next]_vars,
           \A m \in Messages : message[m].state = "unsent" => message'[m].state = "unsent"
    PROVE  RowsGoOn
<1> SUFFICES ASSUME NEW m \in Messages, NEW r \in Actors
             PROVE  /\ delivery'[m][r].state = "none" <=> delivery[m][r].state = "none"
                    /\ Unsettled(delivery'[m][r]) => Unsettled(delivery[m][r])
  BY DEF RowsGoOn
<1>1. RowStep(m, r) /\ ~Sent(m, r)
  BY StepOfRow DEF Before, Sent
<1>2. delivery[m][r] \in DeliveryRow
  BY DEF Before, RowInv, TypeOK
<1>3. CASE Kept(m, r)
  BY <1>3 DEF Kept
<1>4. CASE Claimed(m, r)
  BY <1>2, <1>4 DEF Claimed, claimedRow, Unsettled, DeliveryRow
<1>5. CASE Timed(m, r)
  BY <1>2, <1>5 DEF Timed, Unsettled, DeliveryRow
<1>6. CASE Finished(m, r)
  BY <1>2, <1>6 DEF Finished, finishedRow, Unsettled, DeliveryRow
<1>7. CASE Revoked(m, r)
  BY <1>2, <1>7 DEF Revoked, revokedRow, Unsettled, DeliveryRow
<1> QED  BY <1>1, <1>3, <1>4, <1>5, <1>6, <1>7 DEF RowStep

\* A lease that is extended or runs out, or a finish: no claim and no job.
LEMMA LeaseSteps ==
    ASSUME Before, TypeOK', [Next]_vars,
           \/ \E a, r \in Actors, m \in Messages, token \in 1 .. MaxClaims, stale \in Readings :
                 Extend(a, m, r, token, stale)
           \/ \E a, r \in Actors, m \in Messages, token \in 1 .. MaxClaims, next \in {"acked", "dead", "queued"} :
                 Finish(a, m, r, token, next)
           \/ \E m \in Messages, r \in Actors : CrashGracePasses(m, r) \/ LeaseLapses(m, r)
    PROVE  WakeInv'
<1>1. UNCHANGED <<message, adopter, outbox, holder, revoked>>
  BY DEF Extend, Finish, CrashGracePasses, LeaseLapses
<1>2. RowsGoOn
  BY <1>1, RowsStay
<1>3. NoNewClaim
  <2>1. ASSUME NEW m \in Messages, NEW r \in Actors PROVE delivery[m][r] \in DeliveryRow
    BY DEF Before, RowInv, TypeOK
  <2>2. delivery \in [Messages -> [Actors -> DeliveryRow]]
    BY DEF Before, RowInv, TypeOK
  <2>3. ASSUME NEW a \in Actors, NEW r \in Actors, NEW m \in Messages, NEW token \in 1 .. MaxClaims,
               NEW stale \in Readings, Extend(a, m, r, token, stale)
        PROVE  NoNewClaim
    BY <1>1, <2>1, <2>2, <2>3 DEF Extend, NoNewClaim, DeliveryRow
  <2>4. ASSUME NEW a \in Actors, NEW r \in Actors, NEW m \in Messages, NEW token \in 1 .. MaxClaims,
               NEW next \in {"acked", "dead", "queued"}, Finish(a, m, r, token, next)
        PROVE  NoNewClaim
    <3>1. delivery[m][r].state = "claimed"
      BY <2>1, <2>4, FinishVerdict DEF Finish
    <3> QED  BY <1>1, <2>2, <2>4, <3>1 DEF Finish, NoNewClaim
  <2>5. ASSUME NEW m \in Messages, NEW r \in Actors, CrashGracePasses(m, r) \/ LeaseLapses(m, r)
        PROVE  NoNewClaim
    <3>1. delivery[m][r].state = "claimed"
      BY <2>5 DEF CrashGracePasses, LeaseLapses, Before, RowInv, LeaseWhileClaimed
    <3>2. CASE CrashGracePasses(m, r)
      BY <1>1, <2>2, <3>1, <3>2 DEF CrashGracePasses, NoNewClaim
    <3>3. CASE LeaseLapses(m, r)
      BY <1>1, <2>2, <3>1, <3>3 DEF LeaseLapses, NoNewClaim
    <3> QED  BY <2>5, <3>2, <3>3
  <2> QED  BY <2>3, <2>4, <2>5
<1> QED  BY <1>1, <1>2, <1>3, QuietStep DEF Quiet, MessagesGoOn

\* The steps of the presence, the worker and the operator's archive: no row
\* changes, and jobs are only worked on or closed.
LEMMA WorkSteps ==
    ASSUME Before, TypeOK',
           \/ PresenceStep \/ WorkerStep \/ Crash
           \/ \E m \in Messages : MessageExpires(m)
           \/ \E m \in Messages, r \in Actors : JobDue(m, r)
           \/ \E a \in Actors, allowUnread \in BOOLEAN : Archive(a, allowUnread)
           \/ \E a \in Actors : Restore(a)
           \/ UNCHANGED vars
    PROVE  WakeInv'
<1>1. UNCHANGED <<delivery, adopter, holder, revoked>>
  BY DEF PresenceStep, PresenceStarts, PresenceEnds, Rearm, WorkerStep, ClaimNotification, Notify,
         FinishNotification, Crash, MessageExpires, JobDue, Archive, Restore, store, vars
<1>2. MessagesGoOn
  <2>1. message \in [Messages -> MessageRow]
    BY DEF Before, RowInv, TypeOK
  <2>2. CASE \E m \in Messages : MessageExpires(m)
    BY <2>1, <2>2 DEF MessageExpires, MessagesGoOn, MessageRow
  <2>3. CASE UNCHANGED message
    BY <2>3 DEF MessagesGoOn
  <2> QED  BY <2>2, <2>3 DEF PresenceStep, PresenceStarts, PresenceEnds, Rearm, WorkerStep,
              ClaimNotification, Notify, FinishNotification, Crash, JobDue, Archive, Restore, store, vars
<1>3. Quiet
  <2>1. outbox \in [Messages -> [Actors -> Job]]
    BY DEF Before, RowInv, TypeOK
  <2>2. CASE UNCHANGED outbox
    BY <2>2 DEF Quiet
  <2>3. ASSUME NEW a \in Actors, Rearm(a) PROVE Quiet
    <3>1. ASSUME NEW m \in Messages, NEW aa \in Actors
          PROVE  /\ outbox'[m][aa].state = "none" <=> outbox[m][aa].state = "none"
                 /\ Open(outbox'[m][aa]) => Open(outbox[m][aa])
      <4>1. outbox[m][aa] \in Job /\ outbox[m][a] \in Job
        BY <2>1
      <4>2. CASE aa # a \/ outbox[m][a].state # "accepted"
        <5> outbox'[m][aa] = outbox[m][aa]
          BY <2>1, <2>3, <4>2 DEF Rearm
        <5> QED  OBVIOUS
      <4>3. CASE aa = a /\ outbox[m][a].state = "accepted"
        <5>1. outbox'[m][a] \in {DoneJob(outbox[m][a]), [outbox[m][a] EXCEPT !.state = "pending", !.due = TRUE]}
          BY <2>1, <2>3, <4>3 DEF Rearm
        <5>2. outbox'[m][a].state \in {"done", "pending"}
          BY <4>1, <5>1 DEF DoneJob, Job
        <5> QED  BY <4>3, <5>2 DEF Open
      <4> QED  BY <4>2, <4>3
    <3> QED  BY <3>1 DEF Quiet
  <2>4. ASSUME NEW m \in Messages, NEW a \in Actors, ClaimNotification(m, a) PROVE Quiet
    <3>1. ASSUME NEW mm \in Messages, NEW aa \in Actors
          PROVE  /\ outbox'[mm][aa].state = "none" <=> outbox[mm][aa].state = "none"
                 /\ Open(outbox'[mm][aa]) => Open(outbox[mm][aa])
      <4>1. outbox[mm][aa] \in Job
        BY <2>1
      <4>2. CASE mm = m /\ aa = a
        <5>1. outbox'[mm][aa].state = "processing"
          BY <2>4, <4>2 DEF ClaimNotification
        <5> QED  BY <2>4, <4>2, <5>1 DEF ClaimNotification, Open
      <4>3. CASE ~(mm = m /\ aa = a)
        <5>1. outbox'[mm][aa] = outbox[mm][aa]
                \/ (Open(outbox[mm][aa]) /\ outbox'[mm][aa] = DoneJob(outbox[mm][aa]))
          BY <2>4, <4>3 DEF ClaimNotification
        <5> QED  BY <4>1, <5>1 DEF Open, DoneJob, Job
      <4> QED  BY <4>2, <4>3
    <3> QED  BY <3>1 DEF Quiet
  <2>5. ASSUME FinishNotification PROVE Quiet
    <3>1. worker.msg \in Messages /\ worker.actor \in Actors
      BY <2>5 DEF FinishNotification, Before, RowInv, TypeOK
    <3>2. \A job \in Job, next \in {"pending", "accepted", "done"} :
              LET after == finishedJob(job, next)
              IN  (after.state = "none" <=> job.state = "none") /\ (Open(after) => Open(job))
      BY DEF finishedJob, Open, Job
    <3>3. PICK next \in {"pending", "accepted", "done"} :
              outbox' = [outbox EXCEPT ![worker.msg][worker.actor] = finishedJob(@, next)]
      BY <2>5, DispositionType DEF FinishNotification
    <3>4. ASSUME NEW m \in Messages, NEW a \in Actors
          PROVE  outbox'[m][a] = outbox[m][a] \/ outbox'[m][a] = finishedJob(outbox[m][a], next)
      BY <2>1, <3>1, <3>3
    <3>5. ASSUME NEW m \in Messages, NEW a \in Actors
          PROVE  /\ outbox'[m][a].state = "none" <=> outbox[m][a].state = "none"
                 /\ Open(outbox'[m][a]) => Open(outbox[m][a])
      <4>1. outbox[m][a] \in Job
        BY <2>1
      <4> QED  BY <3>2, <3>4, <4>1
    <3> QED  BY <3>5 DEF Quiet
  <2>6. ASSUME NEW m \in Messages, NEW a \in Actors, JobDue(m, a) PROVE Quiet
    BY <2>1, <2>6 DEF JobDue, Quiet, Open, Job
  <2> QED  BY <2>2, <2>3, <2>4, <2>5, <2>6 DEF PresenceStep, PresenceStarts, PresenceEnds, WorkerStep,
              Notify, Crash, MessageExpires, Archive, Restore, store, vars
<1> QED  BY <1>1, <1>2, <1>3, QuietStep DEF RowsGoOn, NoNewClaim

-----------------------------------------------------------------------------
(* The steps that claim, create or hand over. *)

\* Store.Claim closes the job of whoever claims, who had one if it was wanted.
LEMMA ClaimStep ==
    ASSUME Before, TypeOK', [Next]_vars,
           NEW a \in Actors, NEW r \in Actors, NEW m \in Messages, NEW stale \in Readings,
           Claim(a, m, r, stale)
    PROVE  WakeInv'
<1> USE DEF Before, WakeInv
<1>1. UNCHANGED <<message, adopter, revoked>>
  BY DEF Claim
<1>2. RowsGoOn /\ MessagesGoOn
  BY <1>1, RowsStay DEF MessagesGoOn
<1>3. /\ outbox'[m][a] = closedJob(outbox[m][a])
      /\ \A mm \in Messages, aa \in Actors : mm # m \/ aa # a => outbox'[mm][aa] = outbox[mm][aa]
  BY DEF Claim, RowInv, TypeOK
<1>4. /\ Unsettled(delivery[m][r]) /\ holder'[m][r] = a
      /\ \A mm \in Messages, rr \in Actors : mm # m \/ rr # r =>
            delivery'[mm][rr] = delivery[mm][rr] /\ holder'[mm][rr] = holder[mm][rr]
  BY DEF Claim, ClaimableAt, Unsettled, RowInv, TypeOK
<1>5. outbox[m][a] \in Job
  BY DEF RowInv, TypeOK
<1>6. Quiet
  <2>1. /\ closedJob(outbox[m][a]).state = "none" <=> outbox[m][a].state = "none"
        /\ ~Open(closedJob(outbox[m][a]))
    BY <1>5 DEF closedJob, DoneJob, Open, Job
  <2> QED  BY <1>3, <2>1 DEF Quiet
<1>7. Effective(r) = a /\ (r = a \/ delivery[m][a].state = "none")
  <2>1. r \in Candidates(a, m) /\ (r = a \/ a \notin Candidates(a, m))
    BY DEF Claim, Preferred
  <2>2. CASE r # a
    <3>1. adopter[r] = a /\ adopter[r] # NoActor
      BY <2>1, <2>2 DEF Candidates, Effective
    <3>2. Effective(a) = a
      BY <3>1 DEF ForwardingReachesAnInbox, Effective
    <3> QED  BY <2>1, <2>2, <3>2 DEF Candidates
  <2> QED  BY <2>1, <2>2 DEF Candidates
<1>8. HoldersPrefer'
  BY <1>2, <1>4, <1>7 DEF HoldersPrefer, RowsGoOn
<1>9. ClaimantsAreDone'
  <2> SUFFICES ASSUME NEW mm \in Messages, NEW rr \in Actors, message'[mm].state = "live", message'[mm].wake,
                      delivery'[mm][rr].state = "claimed"
               PROVE  outbox'[mm][holder'[mm][rr]].state = "done"
    BY DEF ClaimantsAreDone
  <2>1. CASE mm = m /\ rr = r
    <3>1. outbox[m][a].state # "none"
      BY <1>1, <1>4, <1>7, <2>1 DEF WakeFollowsDelivery
    <3>2. closedJob(outbox[m][a]).state = "done"
      BY <1>5, <3>1, JobStates DEF closedJob, DoneJob, Job
    <3> QED  BY <1>3, <1>4, <2>1, <3>2
  <2>2. CASE mm # m \/ rr # r
    <3>1. delivery[mm][rr].state = "claimed" /\ holder'[mm][rr] = holder[mm][rr]
      BY <1>4, <2>2
    <3>2. holder[mm][rr] \in Actors /\ outbox[mm][holder[mm][rr]].state = "done"
      BY <1>1, <3>1 DEF HoldersPrefer, ClaimantsAreDone
    <3> QED  BY <1>6, <3>1, <3>2, QuietKeepsDone DEF RowInv
  <2> QED  BY <2>1, <2>2
<1> QED  BY <1>1, <1>2, <1>6, <1>8, <1>9, QuietJobs

\* Store.Send writes the first jobs of the message, for those who can claim it.
LEMMA SendStep ==
    ASSUME Before, TypeOK',
           NEW from \in Actors, NEW m \in Messages, NEW to \in SUBSET Recipients, NEW wake \in Wakes,
           Send(from, m, to, wake)
    PROVE  WakeInv'
<1> USE DEF Before, WakeInv
<1>1. UNCHANGED <<adopter, holder, revoked>> /\ message[m].state = "unsent"
  BY DEF Send
<1>2. \A mm \in Messages \ {m} : UNCHANGED <<message[mm], delivery[mm], outbox[mm]>>
  BY DEF Send, RowInv, TypeOK
<1>3. /\ message'[m] = [state |-> "live", wake |-> wake]
      /\ \A r \in Actors : delivery'[m][r] = IF r \in to THEN QueuedRow ELSE NoRow
      /\ \A a \in Actors :
            outbox'[m][a] = IF wake /\ \E r \in to : Effective(r) = a THEN NewJob ELSE NoJob
  BY DEF Send, RowInv, TypeOK
<1>4. /\ QueuedRow.state = "queued" /\ NoRow.state = "none"
      /\ NewJob.state = "pending" /\ NoJob.state = "none"
  BY DEF QueuedRow, NoRow, NewJob, NoJob
<1>5. to \subseteq Actors
  BY RecipientsActors
<1>6. \A r \in Actors : Effective(r)' = Effective(r) /\ Effective(r) \in Actors
                         /\ adopter[Effective(r)] = NoActor
  BY <1>1, Forwarded DEF Effective, RowInv
<1>7. \A r \in Actors : delivery'[m][r].state # "claimed"
  BY <1>3, <1>4
<1>8. JobsAreWanted'
  BY <1>2, <1>3, <1>4 DEF JobsAreWanted
<1>9. HoldersPrefer'
  BY <1>1, <1>2, <1>7 DEF HoldersPrefer
<1>10. ClaimantsAreDone'
  BY <1>1, <1>2, <1>7 DEF ClaimantsAreDone
<1>11. WakeFollowsDelivery'
  <2> SUFFICES ASSUME NEW mm \in Messages, NEW r \in Actors, message'[mm].state = "live", message'[mm].wake,
                      Unsettled(delivery'[mm][r])
               PROVE  outbox'[mm][Effective(r)'].state # "none"
    BY DEF WakeFollowsDelivery
  <2>1. CASE mm = m
    <3>1. wake /\ r \in to
      BY <1>3, <1>4, <2>1 DEF Unsettled
    <3> QED  BY <1>3, <1>4, <1>6, <2>1, <3>1
  <2>2. CASE mm # m
    BY <1>2, <1>6, <2>2 DEF WakeFollowsDelivery
  <2> QED  BY <2>1, <2>2
<1>12. AdoptedIsNotWoken'
  <2> SUFFICES ASSUME NEW mm \in Messages, NEW s \in Actors, adopter'[s] # NoActor, revoked'[mm][s] = {}
               PROVE  ~Open(outbox'[mm][s])
    BY DEF AdoptedIsNotWoken
  <2>1. CASE mm = m
    <3>1. \A r \in to : Effective(r) # s
      BY <1>1, <1>5, <1>6
    <3> QED  BY <1>3, <1>4, <2>1, <3>1 DEF Open
  <2>2. CASE mm # m
    BY <1>1, <1>2, <2>2 DEF AdoptedIsNotWoken
  <2> QED  BY <2>1, <2>2
<1> QED  BY <1>8, <1>9, <1>10, <1>11, <1>12

\* Store.RevokeDeliveryLease asks again for the wake of the recipient, who
\* has a row and therefore holds no claim on another one.
LEMMA RevokeStep ==
    ASSUME Before, TypeOK', [Next]_vars,
           NEW m \in Messages, NEW r \in Actors, NEW stale \in Readings, Revoke(m, r, stale)
    PROVE  WakeInv'
<1> USE DEF Before, WakeInv
<1>1. UNCHANGED <<message, adopter, holder>> /\ delivery[m][r].state = "claimed"
  BY DEF Revoke
<1>2. /\ delivery[m][r] \in DeliveryRow /\ outbox[m][r] \in Job
      /\ delivery[m][r].token \in revoked'[m][r]
      /\ \A mm \in Messages, rr \in Actors : revoked[mm][rr] \subseteq revoked'[mm][rr]
  BY DEF Revoke, RowInv, TypeOK
<1>3. RowsGoOn /\ MessagesGoOn
  BY <1>1, RowsStay DEF MessagesGoOn
<1>4. /\ delivery'[m][r].state = "queued"
      /\ \A mm \in Messages, rr \in Actors : mm # m \/ rr # r => delivery'[mm][rr] = delivery[mm][rr]
  <2>1. revokedRow(delivery[m][r]).state = "queued"
    BY <1>2 DEF revokedRow, DeliveryRow
  <2> QED  BY <2>1 DEF Revoke, RowInv, TypeOK
<1>5. /\ outbox'[m][r] = outbox[m][r] \/ (message[m].wake /\ outbox'[m][r].state = "pending")
      /\ \A mm \in Messages, aa \in Actors : mm # m \/ aa # r => outbox'[mm][aa] = outbox[mm][aa]
  <2>1. [outbox[m][r] EXCEPT !.state = "pending", !.due = TRUE].state = "pending"
    BY <1>2 DEF Job
  <2> QED  BY <2>1 DEF Revoke, RowInv, TypeOK
<1>6. message[m].state # "unsent"
  BY <1>1 DEF RowInv, NoRow
<1>7. JobsAreWanted'
  BY <1>1, <1>5, <1>6 DEF JobsAreWanted
<1>8. HoldersPrefer'
  BY <1>1, <1>3, <1>4 DEF HoldersPrefer, RowsGoOn
<1>9. ClaimantsAreDone'
  <2> SUFFICES ASSUME NEW mm \in Messages, NEW rr \in Actors, message'[mm].state = "live", message'[mm].wake,
                      delivery'[mm][rr].state = "claimed"
               PROVE  outbox'[mm][holder'[mm][rr]].state = "done"
    BY DEF ClaimantsAreDone
  <2>1. mm # m \/ rr # r
    BY <1>4
  <2>2. delivery[mm][rr].state = "claimed"
    BY <1>4, <2>1
  <2>3. /\ holder[mm][rr] \in Actors /\ outbox[mm][holder[mm][rr]].state = "done"
        /\ holder[mm][rr] = rr \/ delivery[mm][holder[mm][rr]].state = "none"
    BY <1>1, <2>2 DEF HoldersPrefer, ClaimantsAreDone
  <2>4. mm # m \/ holder[mm][rr] # r
    BY <1>1, <2>1, <2>3
  <2> QED  BY <1>1, <1>5, <2>3, <2>4
<1>10. WakeFollowsDelivery'
  <2>1. \A x \in Actors : Effective(x)' = Effective(x) /\ Effective(x) \in Actors
    BY <1>1, EffectiveType DEF Effective, RowInv
  <2>2. \A mm \in Messages, aa \in Actors : outbox[mm][aa].state # "none" => outbox'[mm][aa].state # "none"
    BY <1>5
  <2> QED  BY <1>1, <1>3, <2>1, <2>2 DEF WakeFollowsDelivery, RowsGoOn
<1>11. AdoptedIsNotWoken'
  <2> SUFFICES ASSUME NEW mm \in Messages, NEW s \in Actors, adopter'[s] # NoActor, revoked'[mm][s] = {}
               PROVE  ~Open(outbox'[mm][s])
    BY DEF AdoptedIsNotWoken
  <2>1. (mm # m \/ s # r) /\ revoked[mm][s] = {}
    BY <1>2
  <2> QED  BY <1>1, <1>5, <2>1 DEF AdoptedIsNotWoken
<1> QED  BY <1>7, <1>8, <1>9, <1>10, <1>11

\* What an adoption leaves of the jobs of one message: the source has none to
\* be worked on, and a closed job is neither reopened nor lost.
LEMMA AdoptedJobs ==
    ASSUME TypeOK, NEW m \in Messages, NEW s \in Actors, NEW a \in Actors, NEW stale \in BOOLEAN, s # a
    PROVE  LET before == outbox[m]
               after  == adoptJobs(m, s, a, stale)
           IN  /\ \A x \in Actors \ {s, a} : after[x] = before[x]
               /\ ~Open(after[s])
               /\ before[s].state = "done" => after[s].state = "done"
               /\ after[s].state # "none" => before[s].state # "none"
               /\ before[a].state # "none" => after[a] = before[a]
               /\ after[a].state # "none" => \/ before[a].state # "none" \/ before[s].state # "none"
                                             \/ message[m].wake /\ Adoptable(m, s, stale)
               /\ message[m].wake /\ Adoptable(m, s, stale) => after[a].state # "none"
<1> DEFINE job == outbox[m][s]
<1>1. outbox[m] \in [Actors -> Job] /\ job \in Job
  BY DEF TypeOK
<1>2. /\ DoneJob(job).state = "done" /\ NoJob.state = "none" /\ NewJob.state = "pending"
      /\ [state |-> "pending", attempt |-> job.attempt, due |-> TRUE].state = "pending"
  BY <1>1 DEF DoneJob, NoJob, NewJob, Job
<1>3. Open(job) <=> job.state # "none" /\ job.state # "done"
  BY <1>1 DEF Job, Open
<1>4. ASSUME outbox[m][a].state # "none"
      PROVE  adoptJobs(m, s, a, stale)
                = [outbox[m] EXCEPT ![s] = IF job.state # "none" THEN DoneJob(job) ELSE job]
  BY <1>1, <1>4 DEF adoptJobs
<1>5. ASSUME outbox[m][a].state = "none", Open(job)
      PROVE  adoptJobs(m, s, a, stale)
                = [outbox[m] EXCEPT ![s] = NoJob,
                                    ![a] = [state |-> "pending", attempt |-> job.attempt, due |-> TRUE]]
  BY <1>1, <1>5 DEF adoptJobs
<1>6. ASSUME outbox[m][a].state = "none", ~Open(job)
      PROVE  adoptJobs(m, s, a, stale)
                = [outbox[m] EXCEPT ![a] = IF Adoptable(m, s, stale) /\ message[m].wake THEN NewJob ELSE @]
  BY <1>1, <1>6 DEF adoptJobs
<1>7. CASE outbox[m][a].state # "none"
  BY <1>1, <1>2, <1>3, <1>4, <1>7 DEF Open
<1>8. CASE outbox[m][a].state = "none" /\ Open(job)
  BY <1>1, <1>2, <1>3, <1>5, <1>8 DEF Open
<1>9. CASE outbox[m][a].state = "none" /\ ~Open(job)
  BY <1>1, <1>2, <1>3, <1>6, <1>9
<1> QED  BY <1>7, <1>8, <1>9

\* Store.AdoptActor refuses a source that holds a running lease, so every
\* delivery the source has left to handle is handed over with a wake.
LEMMA AdoptStep ==
    ASSUME Before, TypeOK',
           NEW s \in Actors, NEW a \in Actors, NEW stale \in Readings, Adopt(s, a, stale)
    PROVE  WakeInv'
<1> USE DEF Before, WakeInv
<1>1. UNCHANGED <<message, delivery, holder, revoked>>
  BY DEF Adopt
<1>2. /\ s # a /\ adopter[s] = NoActor /\ adopter[a] = NoActor
      /\ \A x \in Actors : adopter[x] # s
  BY DEF Adopt, Chained
<1>3. adopter'[s] = a /\ \A x \in Actors \ {s} : adopter'[x] = adopter[x]
  BY DEF Adopt, RowInv, TypeOK
<1>4. stale \in BOOLEAN /\ \A m \in Messages : outbox'[m] = adoptJobs(m, s, a, stale)
  BY ReadingsAreBool DEF Adopt
<1>5. \A m \in Messages :
        /\ \A x \in Actors \ {s, a} : outbox'[m][x] = outbox[m][x]
        /\ ~Open(outbox'[m][s])
        /\ outbox[m][s].state = "done" => outbox'[m][s].state = "done"
        /\ outbox'[m][s].state # "none" => outbox[m][s].state # "none"
        /\ outbox[m][a].state # "none" => outbox'[m][a] = outbox[m][a]
        /\ outbox'[m][a].state # "none" => \/ outbox[m][a].state # "none" \/ outbox[m][s].state # "none"
                                           \/ message[m].wake /\ Adoptable(m, s, stale)
        /\ message[m].wake /\ Adoptable(m, s, stale) => outbox'[m][a].state # "none"
  BY <1>2, <1>4, AdoptedJobs DEF RowInv
<1>6. JobsAreWanted'
  <2>1. \A m \in Messages : Adoptable(m, s, stale) => message[m].state # "unsent"
    BY DEF Adoptable, UnexpiredAt
  <2> QED  BY <1>1, <1>5, <2>1 DEF JobsAreWanted
<1>7. HoldersPrefer'
  BY <1>1 DEF HoldersPrefer
<1>8. ClaimantsAreDone'
  <2> SUFFICES ASSUME NEW m \in Messages, NEW r \in Actors, message[m].state = "live", message[m].wake,
                      delivery[m][r].state = "claimed"
               PROVE  outbox'[m][holder[m][r]].state = "done"
    BY <1>1 DEF ClaimantsAreDone
  <2>1. holder[m][r] \in Actors /\ outbox[m][holder[m][r]].state = "done"
    BY DEF HoldersPrefer, ClaimantsAreDone
  <2> QED  BY <1>5, <2>1
<1>9. WakeFollowsDelivery'
  <2> SUFFICES ASSUME NEW m \in Messages, NEW r \in Actors, message[m].state = "live", message[m].wake,
                      Unsettled(delivery[m][r])
               PROVE  outbox'[m][Effective(r)'].state # "none"
    BY <1>1 DEF WakeFollowsDelivery
  <2>1. CASE r = s
    <3>1. Effective(r)' = a
      BY <1>2, <1>3, <2>1, ActorsAreNamed DEF Effective, NoActor
    <3>2. ~(ActiveClaimAt(delivery[m][s], stale) /\ UnexpiredAt(m, stale))
      BY DEF Adopt
    <3>3. Adoptable(m, s, stale)
      BY <2>1, <3>2 DEF Adoptable, ActiveClaimAt, ClaimableAt, UnexpiredAt, Unsettled
    <3> QED  BY <1>5, <3>1, <3>3
  <2>2. CASE r # s
    <3>1. Effective(r)' = Effective(r) /\ Effective(r) # s
      BY <1>2, <1>3, <2>2 DEF Effective
    <3>2. Effective(r) \in Actors /\ outbox[m][Effective(r)].state # "none"
      BY EffectiveType DEF WakeFollowsDelivery, RowInv
    <3> QED  BY <1>5, <3>1, <3>2
  <2> QED  BY <2>1, <2>2
<1>10. AdoptedIsNotWoken'
  <2> SUFFICES ASSUME NEW m \in Messages, NEW x \in Actors, adopter'[x] # NoActor, revoked[m][x] = {}
               PROVE  ~Open(outbox'[m][x])
    BY <1>1 DEF AdoptedIsNotWoken
  <2>1. CASE x = s
    BY <1>5, <2>1
  <2>2. CASE x # s
    <3>1. adopter[x] # NoActor /\ x # a
      BY <1>2, <1>3, <2>2
    <3> QED  BY <1>5, <2>2, <3>1 DEF AdoptedIsNotWoken
  <2> QED  BY <2>1, <2>2
<1> QED  BY <1>6, <1>7, <1>8, <1>9, <1>10

-----------------------------------------------------------------------------
LEMMA WakeInvInit == Init => WakeInv
BY DEF Init, WakeInv, JobsAreWanted, HoldersPrefer, ClaimantsAreDone, WakeFollowsDelivery,
       AdoptedIsNotWoken, NoRow, NoJob, Unsettled, Open

LEMMA WakeInvStep == Before /\ TypeOK' /\ [Next]_vars => WakeInv'
<1> SUFFICES ASSUME Before, TypeOK', [Next]_vars PROVE WakeInv'
  OBVIOUS
<1>1. CASE ClientStep
  <2>1. CASE \E from \in Actors, m \in Messages, to \in SUBSET Recipients, wake \in Wakes : Send(from, m, to, wake)
    BY <2>1, SendStep
  <2>2. CASE \E a, r \in Actors, m \in Messages, stale \in Readings : Claim(a, m, r, stale)
    BY <2>2, ClaimStep
  <2> QED  BY <1>1, <2>1, <2>2, LeaseSteps DEF ClientStep
<1>2. CASE OperatorStep
  <2>1. CASE \E s, a \in Actors, stale \in Readings : Adopt(s, a, stale)
    BY <2>1, AdoptStep
  <2>2. CASE \E m \in Messages, r \in Actors, stale \in Readings : Revoke(m, r, stale)
    BY <2>2, RevokeStep
  <2> QED  BY <1>2, <2>1, <2>2, WorkSteps DEF OperatorStep
<1>3. CASE TimeStep
  BY <1>3, LeaseSteps, WorkSteps DEF TimeStep
<1>4. CASE PresenceStep \/ WorkerStep \/ Crash \/ UNCHANGED vars
  BY <1>4, WorkSteps
<1> QED  BY <1>1, <1>2, <1>3, <1>4 DEF Next

\* The inductive invariant of the wakes holds in every reachable state.
THEOREM WakeInvariance == Spec => []WakeInv
<1>1. RowInv /\ ForwardingReachesAnInbox /\ RowInv' /\ WakeInv /\ [Next]_vars => WakeInv'
  BY WakeInvStep DEF Before, RowInv
<1> QED  BY <1>1, WakeInvInit, RowInvariance, ForwardingIsFlat, PTL DEF Spec

\* Store.AdoptActor and the worker: an adopted actor holds no wake job that is
\* still to be worked on, unless the operator revoked that very row.
THEOREM AdoptedStaySilent == Spec => []AdoptedIsNotWoken
<1>1. WakeInv => AdoptedIsNotWoken
  BY DEF WakeInv
<1> QED  BY <1>1, WakeInvariance, PTL

\* Store.Claim against the worker: while its claim stands, nobody is woken for
\* a message it has claimed.
THEOREM ClaimsSilence == Spec => []ClaimSilencesWake
<1>1. TypeOK /\ WakeInv => ClaimSilencesWake
  <2> SUFFICES ASSUME TypeOK, WakeInv, NEW m \in Messages, NEW r \in Actors,
                      message[m].state = "live", delivery[m][r].state = "claimed"
               PROVE  ~Open(outbox[m][holder[m][r]])
    BY DEF ClaimSilencesWake
  <2>1. holder[m][r] \in Actors
    BY DEF WakeInv, HoldersPrefer
  <2>2. outbox[m][holder[m][r]].state \in {"none", "done"}
    BY <2>1 DEF WakeInv, JobsAreWanted, ClaimantsAreDone
  <2> QED  BY <2>2 DEF Open
<1> QED  BY <1>1, TypeCorrect, WakeInvariance, PTL

\* Store.Send, Claim, AdoptActor and RevokeDeliveryLease: a delivery of a live
\* message that wants a wake has a job in the name of who can claim it.
THEOREM WakesFollow == Spec => []WakeFollowsDelivery
<1>1. WakeInv => WakeFollowsDelivery
  BY DEF WakeInv
<1> QED  BY <1>1, WakeInvariance, PTL
=============================================================================
