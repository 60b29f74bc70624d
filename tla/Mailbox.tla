------------------------------ MODULE Mailbox ------------------------------
(***************************************************************************)
(* The direct-message mailbox that hollerd keeps in SQLite: messages, one  *)
(* delivery row per recipient, the leases under which deliveries are       *)
(* claimed, inbox adoption, archival, and the notification outbox with the *)
(* daemon's worker that drains it.                                         *)
(*                                                                         *)
(* Every Store method runs in one transaction on the only connection to    *)
(* the database, so each method is one action.  What interleaves is: any   *)
(* client call (a token may be presented late, twice, or by a process that *)
(* outlived its lease), the operator's calls, the worker, which holds a    *)
(* job over an adapter call made outside any transaction, daemon crashes,  *)
(* and the passing of time.                                                *)
(*                                                                         *)
(* Time.  Lease lengths, message lifetimes, crash graces and backoffs are  *)
(* chosen by callers or are much longer than a transaction, so only the    *)
(* order in which deadlines pass matters: each deadline is an event.  A    *)
(* call reads the clock before it waits for the connection; a "stale"      *)
(* reading was taken before any deadline that has passed since.            *)
(***************************************************************************)
EXTENDS DeliveryTransition, FiniteSets

CONSTANTS
    Actors,       \* actor names; < is the order of ORDER BY recipient_actor
    Messages,     \* message identifiers
    MaxClaims,    \* bound: claims of one delivery row
    MaxAttempts,  \* notification attempts before a job is given up (5)
    MaxCrashes,   \* bound: crashes of the daemon
    Recipients,   \* bound: the actors that messages are addressed to
    Wakes,        \* bound: the message attentions sent (TRUE asks for a wake)
    Archivable,   \* bound: the actors the operator may archive
    StaleClock    \* may a call act on a clock reading taken before a lapse?

ASSUME ActorsAreNamed    == Actors \subseteq Nat \ {0}
ASSUME MaxClaimsIsNat    == MaxClaims \in Nat
ASSUME MaxAttemptsIsPos  == MaxAttempts \in Nat \ {0}
ASSUME MaxCrashesIsNat   == MaxCrashes \in Nat
ASSUME RecipientsActors  == Recipients \subseteq Actors
ASSUME WakesAreBool      == Wakes \subseteq BOOLEAN
ASSUME ArchivableActors  == Archivable \subseteq Actors
ASSUME StaleClockIsBool  == StaleClock \in BOOLEAN

VARIABLES
    message,   \* messages table: is it sent, has it expired, does it want a wake
    delivery,  \* deliveries table: one row per message and recipient
    adopter,   \* actor_adoptions table: source actor -> adopting actor
    live,      \* actors with a live registration
    archived,  \* actors archived in actor_lifecycle
    outbox,    \* notification_outbox table: one job per message and actor
    worker,    \* the notification worker's job in hand (lost in a crash)
    crashes,   \* crashes so far
    holder,    \* history: who made the latest claim of a delivery row
    revoked    \* history: the tokens of a delivery row the operator revoked

store == <<message, delivery, adopter, archived, outbox>>
vars  == <<message, delivery, adopter, live, archived, outbox, worker, crashes,
           holder, revoked>>

NoActor == 0

-----------------------------------------------------------------------------
(* Rows. *)

MessageRow  == [state : {"unsent", "live", "expired"}, wake : BOOLEAN]

\* A lease token is the number of the claim that minted it: unique in its row.
\* lease: "fresh" until the crash grace has passed, then "aged", then "lapsed".
DeliveryRow == [state    : {"none", "queued", "claimed", "acked", "dead"},
                attempt  : 0 .. MaxClaims,
                token    : 0 .. MaxClaims,
                terminal : 0 .. MaxClaims,
                lease    : {"none", "fresh", "aged", "lapsed"}]

\* attempt saturates at MaxAttempts: only "reached the limit" is ever asked.
Job         == [state   : {"none", "pending", "processing", "accepted", "done"},
                attempt : 0 .. MaxAttempts,
                due     : BOOLEAN]

Outcomes    == {"accepted", "retry", "complete"}

NoRow     == [state |-> "none", attempt |-> 0, token |-> NoToken, terminal |-> NoToken, lease |-> "none"]
QueuedRow == [NoRow EXCEPT !.state = "queued"]
NoJob     == [state |-> "none", attempt |-> 0, due |-> FALSE]
NewJob    == [state |-> "pending", attempt |-> 0, due |-> TRUE]
DoneJob(job) == [job EXCEPT !.state = "done", !.due = FALSE]

\* A job the worker may still act on, or whose wake awaits the claim.
Open(job) == job.state \in {"pending", "processing", "accepted"}

-----------------------------------------------------------------------------
(* Clock readings. *)

Readings == IF StaleClock THEN BOOLEAN ELSE {FALSE}

LapsedAt(row, stale)  == row.lease = "lapsed" /\ ~stale
UnexpiredAt(m, stale) == message[m].state = "live" \/ (message[m].state = "expired" /\ stale)

\* Variant of ClaimableAt: a claim does not hide the row from other claims.
ClaimableAt_ignoresLease(row, stale) == row.state \in {"queued", "claimed"}

\* state = queued, or claimed under a lease that has run out
ClaimableAt(row, stale) ==
    \/ row.state = "queued"
    \/ row.state = "claimed" /\ LapsedAt(row, stale)

ActiveClaimAt(row, stale) == row.state = "claimed" /\ ~LapsedAt(row, stale)

-----------------------------------------------------------------------------
(* Routing through adoptions. *)

\* COALESCE(adopting_actor, recipient_actor)
Effective(r) == IF adopter[r] = NoActor THEN r ELSE adopter[r]

Candidates(a, m) == {r \in Actors : delivery[m][r].state # "none" /\ Effective(r) = a}

\* The one row of m that a may claim and finish: its own, or else the first
\* in name order of the rows of actors it adopted.
Preferred(a, m, r) ==
    /\ r \in Candidates(a, m)
    /\ \/ r = a
       \/ a \notin Candidates(a, m) /\ \A q \in Candidates(a, m) : r <= q

-----------------------------------------------------------------------------
TypeOK ==
    /\ message  \in [Messages -> MessageRow]
    /\ delivery \in [Messages -> [Actors -> DeliveryRow]]
    /\ adopter  \in [Actors -> Actors \cup {NoActor}]
    /\ live     \subseteq Actors
    /\ archived \subseteq Actors
    /\ outbox   \in [Messages -> [Actors -> Job]]
    /\ worker   \in [pc : {"idle"}]
                    \cup [pc : {"claimed"}, msg : Messages, actor : Actors, attempt : 1 .. MaxAttempts]
                    \cup [pc : {"notified"}, msg : Messages, actor : Actors, attempt : 1 .. MaxAttempts,
                          outcome : Outcomes]
    /\ crashes  \in 0 .. MaxCrashes
    /\ holder   \in [Messages -> [Actors -> Actors \cup {NoActor}]]
    /\ revoked  \in [Messages -> [Actors -> SUBSET (1 .. MaxClaims)]]

Init ==
    /\ message  = [m \in Messages |-> [state |-> "unsent", wake |-> FALSE]]
    /\ delivery = [m \in Messages |-> [r \in Actors |-> NoRow]]
    /\ adopter  = [a \in Actors |-> NoActor]
    /\ live     = {}
    /\ archived = {}
    /\ outbox   = [m \in Messages |-> [a \in Actors |-> NoJob]]
    /\ worker   = [pc |-> "idle"]
    /\ crashes  = 0
    /\ holder   = [m \in Messages |-> [r \in Actors |-> NoActor]]
    /\ revoked  = [m \in Messages |-> [r \in Actors |-> {}]]

-----------------------------------------------------------------------------
(* Client calls. *)

\* Store.Send, once its routes are resolved to the recipients in to.  A job is
\* keyed by the actor who will claim: INSERT OR IGNORE merges an adopter's jobs.
Send(from, m, to, wake) ==
    /\ message[m].state = "unsent"
    /\ adopter[from] = NoActor
    /\ to # {}
    /\ \A r \in to : r \in archived => adopter[r] # NoActor
    /\ message'  = [message EXCEPT ![m] = [state |-> "live", wake |-> wake]]
    /\ delivery' = [delivery EXCEPT ![m] = [r \in Actors |-> IF r \in to THEN QueuedRow ELSE NoRow]]
    /\ outbox'   = [outbox EXCEPT ![m] = [a \in Actors |->
                       IF wake /\ \E r \in to : Effective(r) = a THEN NewJob ELSE NoJob]]
    /\ UNCHANGED <<adopter, live, archived, worker, crashes, holder, revoked>>

\* deliveries row after Store.Claim; terminal_lease_token is left as it was.
claimedRow(row) == [row EXCEPT !.state = "claimed", !.attempt = @ + 1,
                               !.token = row.attempt + 1, !.lease = "fresh"]

\* Variant of closedJob: a job that an adapter accepted is forgotten.
closedJob_skipsAccepted(job) == IF job.state = "pending" THEN DoneJob(job) ELSE job

closedJob(job) == IF Open(job) THEN DoneJob(job) ELSE job

\* Store.Claim mints a token, starts a lease and closes the claimant's own job.
Claim(a, m, r, stale) ==
    /\ Preferred(a, m, r)
    /\ ClaimableAt(delivery[m][r], stale)
    /\ UnexpiredAt(m, stale)
    /\ delivery[m][r].attempt < MaxClaims
    /\ delivery' = [delivery EXCEPT ![m][r] = claimedRow(@)]
    /\ holder'   = [holder EXCEPT ![m][r] = a]
    /\ outbox'   = [outbox EXCEPT ![m][a] = closedJob(@)]
    /\ UNCHANGED <<message, adopter, live, archived, worker, crashes, revoked>>

\* Store.Extend: a new deadline for a lease seen to be running.
Extend(a, m, r, token, stale) ==
    /\ Preferred(a, m, r)
    /\ delivery[m][r].state = "claimed" /\ delivery[m][r].token = token
    /\ ~LapsedAt(delivery[m][r], stale)
    /\ delivery' = [delivery EXCEPT ![m][r].lease = IF @ = "lapsed" THEN "fresh" ELSE @]
    /\ UNCHANGED <<message, adopter, live, archived, outbox, worker, crashes, holder, revoked>>

\* Store.finish by any process that was ever given the token; only the
\* "finish" verdict writes.  next is acked (Ack), dead (final Nack) or queued (Nack).
Finish(a, m, r, token, next) ==
    /\ Preferred(a, m, r)
    /\ token \in 1 .. delivery[m][r].attempt
    /\ finishDeliveryState(delivery[m][r], token, next) = "finish"
    /\ delivery' = [delivery EXCEPT ![m][r] = finishedRow(@, token, next)]
    /\ UNCHANGED <<message, adopter, live, archived, outbox, worker, crashes, holder, revoked>>

-----------------------------------------------------------------------------
(* Presence, adoption and the operator. *)

\* RegisterSession, a heartbeat or AttachMonitor: all refuse an adopted actor.
PresenceStarts(a) ==
    /\ a \notin live
    /\ adopter[a] = NoActor
    /\ live' = live \cup {a}
    /\ UNCHANGED <<store, worker, crashes, holder, revoked>>

\* ExpireRegistration, or the registration's lease runs out.
PresenceEnds(a) ==
    /\ a \in live
    /\ live' = live \ {a}
    /\ UNCHANGED <<store, worker, crashes, holder, revoked>>

\* A delivery of the source that the adopter can take over.
Adoptable(m, s, stale) == ClaimableAt(delivery[m][s], stale) /\ UnexpiredAt(m, stale)

\* Variant of adoptJobs: a wake that already ended is not asked for again.
adoptJobs_movesOnly(m, s, a, stale) ==
    IF outbox[m][a].state = "none" /\ Open(outbox[m][s])
    THEN [outbox[m] EXCEPT ![s] = NoJob, ![a] = [outbox[m][s] EXCEPT !.state = "pending", !.due = TRUE]]
    ELSE outbox[m]

\* The jobs of one message after a adopts s: a source job whose target exists
\* is retired, an unfinished one moves to a, and a claimable delivery that
\* wants a wake gets a fresh job when a has none.
adoptJobs(m, s, a, stale) ==
    LET retire == outbox[m][s].state # "none" /\ outbox[m][a].state # "none"
        move   == outbox[m][a].state = "none" /\ Open(outbox[m][s])
        insert == outbox[m][a].state = "none" /\ ~move
                  /\ Adoptable(m, s, stale) /\ message[m].wake
    IN  [outbox[m] EXCEPT
            ![s] = IF retire THEN DoneJob(@) ELSE IF move THEN NoJob ELSE @,
            ![a] = IF move THEN [state |-> "pending", attempt |-> outbox[m][s].attempt, due |-> TRUE]
                   ELSE IF insert THEN NewJob ELSE @]

\* Variant of Chained: only the adopting side is inspected.
Chained_targetOnly(s, a) == adopter[a] # NoActor

\* An adopter is not adopted and an adopted actor does not adopt.
Chained(s, a) == adopter[a] # NoActor \/ \E x \in Actors : adopter[x] = s

\* Store.AdoptActor.  A repeat of a recorded adoption changes nothing.
Adopt(s, a, stale) ==
    /\ s # a
    /\ adopter[s] = NoActor
    /\ ~Chained(s, a)
    /\ s \notin live /\ a \in live
    /\ \A m \in Messages : ~(ActiveClaimAt(delivery[m][s], stale) /\ UnexpiredAt(m, stale))
    /\ \E m \in Messages : Adoptable(m, s, stale)
    /\ adopter' = [adopter EXCEPT ![s] = a]
    /\ outbox'  = [m \in Messages |-> adoptJobs(m, s, a, stale)]
    /\ UNCHANGED <<message, delivery, live, archived, worker, crashes, holder, revoked>>

\* Variant of revokedRow: the lease is cut short but its token stays current.
revokedRow_keepsToken(row) == [row EXCEPT !.lease = "lapsed"]

\* deliveries row after a revocation: the token is terminally fenced.
revokedRow(row) == [row EXCEPT !.state = "queued", !.terminal = row.token,
                               !.token = NoToken, !.lease = "none"]

\* Store.RevokeDeliveryLease: the operator names the row's recipient, whose
\* presence must be gone; the token becomes terminal and the wake is re-armed.
Revoke(m, r, stale) ==
    /\ r \notin live
    /\ delivery[m][r].state = "claimed"
    /\ delivery[m][r].lease = "aged" \/ (delivery[m][r].lease = "lapsed" /\ stale)
    /\ delivery' = [delivery EXCEPT ![m][r] = revokedRow(@)]
    /\ outbox'   = [outbox EXCEPT ![m][r] =
                       IF message[m].wake THEN [@ EXCEPT !.state = "pending", !.due = TRUE] ELSE @]
    /\ revoked'  = [revoked EXCEPT ![m][r] = @ \cup {delivery[m][r].token}]
    /\ UNCHANGED <<message, adopter, live, archived, worker, crashes, holder>>

\* Store.ArchiveActor, decided by the checks inside its transaction (they imply
\* the preflight's); a stale reading only refuses more.
Archive(a, allowUnread) ==
    /\ a \in Archivable \ archived
    /\ a \notin live
    /\ \A m \in Messages, r \in Actors :
          Effective(r) = a => /\ ~ActiveClaimAt(delivery[m][r], FALSE)
                              /\ Adoptable(m, r, FALSE) => allowUnread
    /\ archived' = archived \cup {a}
    /\ UNCHANGED <<message, delivery, adopter, live, outbox, worker, crashes, holder, revoked>>

\* Store.RestoreActor
Restore(a) ==
    /\ a \in archived
    /\ archived' = archived \ {a}
    /\ UNCHANGED <<message, delivery, adopter, live, outbox, worker, crashes, holder, revoked>>

-----------------------------------------------------------------------------
(* The notification worker. *)

\* Store.ClaimNotification.  Any due job may be the oldest one.  Jobs of
\* expired messages are closed by the same transaction, which commits only
\* when it found a job.
ClaimNotification(m, a) ==
    /\ worker.pc = "idle"
    /\ outbox[m][a].state \in {"pending", "processing"} /\ outbox[m][a].due
    /\ message[m].state = "live"
    /\ LET attempt == IF outbox[m][a].attempt < MaxAttempts THEN outbox[m][a].attempt + 1
                                                            ELSE MaxAttempts
       IN  /\ outbox' = [mm \in Messages |-> [aa \in Actors |->
                            IF mm = m /\ aa = a
                            THEN [state |-> "processing", attempt |-> attempt, due |-> FALSE]
                            ELSE IF message[mm].state = "expired" /\ Open(outbox[mm][aa])
                            THEN DoneJob(outbox[mm][aa]) ELSE outbox[mm][aa]]]
           /\ worker' = [pc |-> "claimed", msg |-> m, actor |-> a, attempt |-> attempt]
    /\ UNCHANGED <<message, delivery, adopter, live, archived, crashes, holder, revoked>>

\* Runtime.Notify and notificationOutcome: an actor without a live registration
\* is retried; otherwise the adapter decides.
Notify(outcome) ==
    /\ worker.pc = "claimed"
    /\ worker.actor \notin live => outcome = "retry"
    /\ worker' = [pc |-> "notified", msg |-> worker.msg, actor |-> worker.actor,
                  attempt |-> worker.attempt, outcome |-> outcome]
    /\ UNCHANGED <<store, live, crashes, holder, revoked>>

\* Variant of dispositionState: retries are never given up.
dispositionState_retriesForever(outcome, attempt) ==
    IF outcome = "retry" THEN "pending" ELSE IF outcome = "accepted" THEN "accepted" ELSE "done"

\* The state FinishNotification asks for.
dispositionState(outcome, attempt) ==
    CASE outcome = "accepted"                        -> "accepted"
      [] outcome = "retry" /\ attempt < MaxAttempts -> "pending"
      [] OTHER                                       -> "done"

\* Variant of finishedJob: the job is written whatever happened meanwhile.
finishedJob_unfenced(job, next) == [job EXCEPT !.state = next, !.due = FALSE]

\* UPDATE ... WHERE state = 'processing'
finishedJob(job, next) ==
    IF job.state = "processing" THEN [job EXCEPT !.state = next, !.due = FALSE] ELSE job

\* Store.FinishNotification
FinishNotification ==
    /\ worker.pc = "notified"
    /\ outbox' = [outbox EXCEPT ![worker.msg][worker.actor] =
                     finishedJob(@, dispositionState(worker.outcome, worker.attempt))]
    /\ worker' = [pc |-> "idle"]
    /\ UNCHANGED <<message, delivery, adopter, live, archived, crashes, holder, revoked>>

\* Store.RearmAcceptedNotifications, run when an actor's attention presence
\* changes: accepted wakes nobody claimed are offered again, up to the limit.
\* It is a callback that checks nothing: the presence may be gone again.
Rearm(a) ==
    /\ \E m \in Messages : outbox[m][a].state = "accepted"
    /\ outbox' = [m \in Messages |-> [outbox[m] EXCEPT ![a] =
                     IF @.state # "accepted" THEN @
                     ELSE IF message[m].state = "expired" \/ @.attempt >= MaxAttempts THEN DoneJob(@)
                     ELSE [@ EXCEPT !.state = "pending", !.due = TRUE]]]
    /\ UNCHANGED <<message, delivery, adopter, live, archived, worker, crashes, holder, revoked>>

\* The daemon dies and restarts: the worker's job in hand is forgotten.
Crash ==
    /\ crashes < MaxCrashes
    /\ crashes' = crashes + 1
    /\ worker' = [pc |-> "idle"]
    /\ UNCHANGED <<store, live, holder, revoked>>

-----------------------------------------------------------------------------
(* Deadlines. *)

\* A message sent with an expiry may reach it at any time; one without never does.
MessageExpires(m) ==
    /\ message[m].state = "live"
    /\ message' = [message EXCEPT ![m].state = "expired"]
    /\ UNCHANGED <<delivery, adopter, live, archived, outbox, worker, crashes, holder, revoked>>

CrashGracePasses(m, r) ==
    /\ delivery[m][r].lease = "fresh"
    /\ delivery' = [delivery EXCEPT ![m][r].lease = "aged"]
    /\ UNCHANGED <<message, adopter, live, archived, outbox, worker, crashes, holder, revoked>>

LeaseLapses(m, r) ==
    /\ delivery[m][r].lease \in {"fresh", "aged"}
    /\ delivery' = [delivery EXCEPT ![m][r].lease = "lapsed"]
    /\ UNCHANGED <<message, adopter, live, archived, outbox, worker, crashes, holder, revoked>>

\* A backoff, or the 30s for which a claimed job is hidden, is over.
JobDue(m, a) ==
    /\ outbox[m][a].state \in {"pending", "processing"} /\ ~outbox[m][a].due
    /\ outbox' = [outbox EXCEPT ![m][a].due = TRUE]
    /\ UNCHANGED <<message, delivery, adopter, live, archived, worker, crashes, holder, revoked>>

-----------------------------------------------------------------------------
ClientStep ==
    \/ \E from \in Actors, m \in Messages, to \in SUBSET Recipients, wake \in Wakes :
          Send(from, m, to, wake)
    \/ \E a, r \in Actors, m \in Messages, stale \in Readings : Claim(a, m, r, stale)
    \/ \E a, r \in Actors, m \in Messages, token \in 1 .. MaxClaims, stale \in Readings :
          Extend(a, m, r, token, stale)
    \/ \E a, r \in Actors, m \in Messages, token \in 1 .. MaxClaims, next \in {"acked", "dead", "queued"} :
          Finish(a, m, r, token, next)

OperatorStep ==
    \/ \E s, a \in Actors, stale \in Readings : Adopt(s, a, stale)
    \/ \E m \in Messages, r \in Actors, stale \in Readings : Revoke(m, r, stale)
    \/ \E a \in Actors, allowUnread \in BOOLEAN : Archive(a, allowUnread)
    \/ \E a \in Actors : Restore(a)

PresenceStep == \E a \in Actors : PresenceStarts(a) \/ PresenceEnds(a) \/ Rearm(a)

WorkerStep ==
    \/ \E m \in Messages, a \in Actors : ClaimNotification(m, a)
    \/ \E outcome \in Outcomes : Notify(outcome)
    \/ FinishNotification

TimeStep ==
    \/ \E m \in Messages : MessageExpires(m)
    \/ \E m \in Messages, r \in Actors : CrashGracePasses(m, r) \/ LeaseLapses(m, r) \/ JobDue(m, r)

Next == ClientStep \/ OperatorStep \/ PresenceStep \/ WorkerStep \/ TimeStep \/ Crash

Spec == Init /\ [][Next]_vars

\* The worker loops for as long as the daemon runs, and backoffs end.
Fairness ==
    /\ WF_vars(WorkerStep)
    /\ \A m \in Messages, a \in Actors : WF_vars(JobDue(m, a))

FairSpec == Spec /\ Fairness

-----------------------------------------------------------------------------
(* Properties. *)

\* At most one token of a row is current, it is the newest one, and the token
\* recorded on an acked or dead-lettered row is the newest: a process that lost
\* its lease to a later claim never decides the delivery (Store.finish).
SettledByNewestClaim ==
    \A m \in Messages, r \in Actors : LET row == delivery[m][r] IN
        /\ row.state = "claimed" => row.token = row.attempt /\ row.attempt > 0
        /\ row.state # "claimed" => row.token = NoToken
        /\ Settled(row) => row.terminal = row.attempt /\ row.attempt > 0

\* "The old token is terminally fenced" (API.md): a token the operator revoked
\* is never current again and never the one that settles the delivery.
RevokedIsFenced ==
    \A m \in Messages, r \in Actors : \A token \in revoked[m][r] :
        /\ delivery[m][r].token # token
        /\ Settled(delivery[m][r]) => delivery[m][r].terminal # token

\* Adoptions never form a chain, so the actor that a delivery is forwarded to
\* can itself claim: no delivery is forwarded to an inbox nobody reads.
ForwardingReachesAnInbox ==
    \A s \in Actors : adopter[s] # NoActor => adopter[adopter[s]] = NoActor /\ adopter[s] # s

\* An adopted actor, who can never register again, holds no wake job that is
\* still to be worked on, whatever the worker had in hand when the adoption
\* committed.  Only an operator's revocation of that very row re-creates one.
AdoptedIsNotWoken ==
    \A m \in Messages, s \in Actors :
        adopter[s] # NoActor /\ revoked[m][s] = {} => ~Open(outbox[m][s])

\* "A successful claim ... closes the actor-scoped notification job and stops
\* further wake retries": while its claim stands the claimant is not woken for
\* that message, though an adapter call was in flight when it claimed.  The
\* job of an expired message is never offered.
ClaimSilencesWake ==
    \A m \in Messages, r \in Actors :
        message[m].state = "live" /\ delivery[m][r].state = "claimed"
            => ~Open(outbox[m][holder[m][r]])

\* A live message that asked for attention has, for every delivery not yet
\* settled, a wake job in the name of the actor who can now claim it.
WakeFollowsDelivery ==
    \A m \in Messages, r \in Actors :
        message[m].state = "live" /\ message[m].wake /\ Unsettled(delivery[m][r])
            => outbox[m][Effective(r)].state # "none"

\* Every job the worker may take is eventually accepted, closed or handed to
\* an adopter; jobs of expired messages wait for the next job's transaction.
JobsAreResolved ==
    \A m \in Messages, a \in Actors :
        outbox[m][a].state \in {"pending", "processing"}
            ~> \/ outbox[m][a].state \in {"none", "accepted", "done"}
               \/ message[m].state = "expired"

-----------------------------------------------------------------------------
(* What a delivery row looks like to a consumer of the queue. *)

Phase(row) == CASE row.state = "none"                              -> "absent"
                [] row.state = "queued"                            -> "available"
                [] row.state = "claimed" /\ row.lease # "lapsed"   -> "held"
                [] row.state = "claimed" /\ row.lease = "lapsed"   -> "overdue"
                [] OTHER                                           -> row.state

queueItem(row) == [phase  |-> Phase(row),
                   gen    |-> row.attempt,
                   winner |-> IF Settled(row) THEN row.terminal ELSE 0]

Queue == INSTANCE FencedQueue WITH
            Items <- Messages \X Actors,
            item  <- [i \in Messages \X Actors |-> queueItem(delivery[i[1]][i[2]])]

\* Claims, late and repeated finishes, extensions, adoption and revocation
\* together never give a delivery to two holders with running leases, never
\* let an old claim settle it and never reopen a settled one.
DeliveriesAreFenced == Queue!Spec
=============================================================================
