# Holler in TLA+

Holler is a local message bus for terminal agents. One daemon, `hollerd`, owns
an SQLite database and a Unix socket; agent sessions reach it through an MCP
server, a CLI and hooks. This directory holds TLA+ models of its core, TLC
configurations that check them on small instances, and TLAPS proofs.

## 1. The system

| Component | State | Operations | Hard behaviour |
|---|---|---|---|
| Delivery mailbox (`store.go`, `delivery_transition.go`) | `messages`, `deliveries` | Send, CheckInbox, Claim, Extend, Ack, Nack | leases that run out, late and repeated finishes, the clock read before the transaction begins |
| Inbox adoption (`adoption.go`) | `actor_adoptions` | AdoptActor | re-routes existing and future deliveries and their wake jobs; no chains |
| Notification outbox and worker (`notification_outbox.go`, `daemon.go`) | `notification_outbox`, the job in hand | ClaimNotification, adapter call, FinishNotification, re-arm | the job changes during the adapter call; crashes; retry limit |
| Archival, lease revocation (`lifecycle.go`) | `actor_lifecycle` | ArchiveActor, RestoreActor, RevokeDeliveryLease, 30-day sweep | checks against presence and claims that change |
| Session registrations (`registration.go`) | `registrations` | RegisterSession, heartbeat, AttachMonitor, ExpireRegistration | newest session wins; ended is final, lapsed is not |
| Attention broker (`broker.go`) | `waiters`, `current` in memory | Attach, Wait, Notify, Cancel | outcomes are sent after the unlock; contexts end at any time |
| API handlers (`api.go`, `fdliveness`) | connections | monitor_attach, wait_attention, expire_registration, ... | store first, broker second; hang-ups |
| Claude monitor (`cmd/holler/main.go`) | remembered wakes, one lock per session | attach, reconcile inbox, wait, reconnect | lost replies, restarts, continuation chains |
| Actor identity (`identity.go`, `binding.go`) | names, allocations, bindings | BindActor, reserve, finalize, release | provisional actors across restarts, takeover |
| Aliases and routing (`alias.go`) | `actor_aliases`, history, tombstones | set, claim if absent, remove, resolve | idempotent retries across a re-point |
| Operator conditions (`conditions.go`, `availability.go`) | `operator_conditions` | observe, resolve, acknowledge, snooze, present, reconcile | generations, predicates read outside the transaction |
| Conversations (`conversation*.go`) | channels, grants, managed deliveries, responses, tokens | create, post, membership, claim, finish, respond, continue | revoked grants, floors, stale continuation tokens |
| Store ownership and migration (`store.go`) | lock file, exclusive connection, backup | Open, migrate | crash between backup and migration |
| Host attention, human gateway (`api.go`, `gateway.go`) | admitted hosts, browser sessions | serve, admit, stream | reconnects, expiry |
| MCP server and API client (`mcp/server.go`, `api.Client`) | one connection, its identity, a mutex | tool calls, heartbeat, reconnect, repeat | answers of abandoned calls, repeated calls, a rebound identity |
| Discovery, setup/doctor/certify, lab | none of their own | reports, installation | - |

How they interact: a client call is one handler of the daemon, which calls one
or two Store methods and sometimes the broker. Each Store method is one
transaction on the only connection to the database, so Store methods are atomic
with respect to each other. What is not atomic: the clock is read before the
transaction begins; some handlers make a store call and then a broker call; the
worker holds a job across an adapter call; a monitor's requests and replies
travel over a connection that may break; the daemon may die between any two
transactions.

What makes the parts correct: a delivery is settled once, by the newest claim;
a message that wants attention keeps a wake job in the name of the actor who can
claim it, and nobody else is woken; jobs end; a parked monitor is never
forgotten and never loses a notice the worker was told it accepted; a handle
leads to one name that exists; a name is an actor or an alias and never both,
and a repeated request is recognised whatever others did to the names in it;
messages of a conversation reach the audience their author was shown, and
nothing pends on somebody who was removed; conditions converge to the mail they
are about; one daemon owns the database and upgrades lose nothing; a client call
that may not be repeated runs once.

## 2. Modules

| Module | Stands for |
|---|---|
| `DeliveryTransition` | the verdict on a finish, shared by both delivery stores |
| `Mailbox` | deliveries, leases, adoption, archival, revocation, outbox, worker |
| `FencedQueue` | abstract specification: what a store promises about each delivery |
| `MailboxProofs` | inductive invariants of the rows and of the notification jobs, the theorems, the refinement |
| `Attention`, `AttentionProofs` | registrations of one run, broker, handlers, worker, monitors |
| `Handoff` | abstract specification: what the broker promises about each wait_attention call |
| `Identity`, `IdentityProofs` | names, reservations, continuity handles, the handshake, supersession |
| `Routing`, `RoutingProofs` | names, aliases and their history, Send's routes, repeated requests |
| `Conversation`, `ConversationProofs` | channels, grants, posts, managed deliveries, responses, continuations, managed wakes |
| `Conditions`, `ConditionsProofs` | operator conditions, the pass over stale mail |
| `Ownership`, `OwnershipProofs` | socket, locks, backup and migration of starting and crashing daemons |
| `Client`, `ClientProofs` | one MCP process, its API client, heartbeat and the daemon's connections |
| `MC...` | model values, symmetry and scenarios for TLC |

`Attention` implements `Handoff`. `Mailbox` and `Conversation` both use `DeliveryTransition` and both implement
`FencedQueue`. The other modules share tables of the database but not
variables: each keeps of the others' tables what its own code reads.

### Mailbox

Each action is a whole Store method. `delivery[m][r]` is the row of the
`deliveries` table: state, attempt, `lease_token`, `terminal_lease_token` and
where its lease stands. A random token is modelled by the number of the claim
that minted it, which is unique in its row as the random one is. `lease` goes
from `fresh` to `aged` when the crash grace the operator chose has passed since the claim,
and to `lapsed` at its deadline. `outbox[m][a]` is a row of
`notification_outbox`; `due` says that `available_at_ns` has passed. `adopter`
is `actor_adoptions`; `live` abstracts `registrations` to whether an actor has
a live one.

Time is abstracted to events: each deadline passes in an action of its own, in
any order, because lease lengths, lifetimes and graces are chosen by callers. A
call with `stale = TRUE` acts on a clock reading taken before every deadline
that has passed since; `StaleClock` says whether such calls exist. A
read-only or refused call is a stutter, a finish that repeats its own verdict too.

Choices a reader should know: Send starts where the routes are resolved to
canonical recipients (`Routing` has the part before). Archive uses the checks inside its
transaction, which imply those of the preflight; aliases and channel grants
that block it are in `Routing` and `Conversation`. A job's `attempt` stops at the limit, since
only reaching the limit is ever asked. `PresenceStarts` covers registration,
heartbeat and monitor attach. `Rearm` may happen without live presence: it is a
callback of the broker that checks none. `holder` and `revoked` are history.

### Attention

One actor, one run, several sessions with the `hook-long-poll` adapter and one
message. Store transactions and broker critical sections are steps.
`monitor_attach` is `AttachMonitor` then `Attach` (or `AttachFails`, when the
connection is gone and the re-arm's transaction fails with its context);
`expire_registration` is `ExpireRegistration` then `Cancel`; Attach and Cancel
leave an outcome in `sends` that `SendOutcome` delivers later. `wait_attention`
is `Wait`, then `Receive` and `ReturnReceived`, or `ContextDone`, `Leave` and
`ReturnLeft`: after `remove()` the call looks into its channel once more.
A call whose `client` is FALSE is a handler whose connection is gone.
`monitor[s]` is the loop of `runMonitor`: `reconciled` is `reconciledInbox`,
`seen` the remembered wake. A connection can be lost in two ways. A wait that
fails, or a reconnection or repeat that fails, resets the loop, which reads the
inbox again after its next attach. But `monitor_attach` and `check_inbox` are
repeated by `Client.call` on a connection of its own, without a delay, and the loop
keeps what it knew (`repeats`, `repeated`); after a crash each monitor in one of
these calls may take either way. SQLite errors of a healthy connection are not
modelled; neither are host-injected attention and the Codex and OpenCode
adapters, which in `Mailbox` are the nondeterministic outcome of `Notify`.
Two orphaned attach handlers of the same session are represented by one.
A registration takes any unused clock reading (`at`), since the handler reads the
clock before its transaction begins.

### Identity

An actor is a pair of a configured base and a random suffix, or `None` for the
configured name itself. `allocated`, `named`, `bound` and `instance` are the
tables `actor_allocations`, `actor_names`, `continuity_bindings` and
`harness_instance_bindings`; `presence` is `registrations` by actor and run
(one session of each). `BindActor` is one step with six alternatives, one per
outcome of the Go function; a refused hello is a stutter. `conn` is the
handler of a connection: `fencing` and `greeting` before READY is written,
`ready`, `checked` between the check of its handles and the finalization, `calling`
before the operation's own transaction. Only tracked connections (`ready` on)
are found by `Fence`. `open = FALSE` says that the client, or the daemon, closed
the connection; the handler notices later.

Choices: a random suffix is never drawn twice (`minted`), so `Suffixes` bounds
how many names are drawn. An operation is a registration, a heartbeat, an end of
session or a message; others finalize a reservation and do nothing else to this
state. Mail is abstracted to `active`, the actors that have some waiting.
`Requests`, `Addressees` and `Retirable` say which operations, recipients and
archivals an instance has; `Hellos` which greetings clients send. Human
identities, aliases as names, malformed hellos and exact hellos for an allocated
name are left out.

### Routing

Actors (`known`), reservations, archival and adoption, aliases with their
history and claim requests, and the messages that Send stored. `alias[n]` is a
row of `actor_aliases`, `history` the table that makes tombstones and answers
repeated requests. Each Store method is one action; `ClaimOutcome`,
`ChangeOutcome` and `SendOutcome` name the outcome of the Go function's checks in
their order. A refused call is a stutter. `RepeatAlias` is the replay of a stored
answer; the table `answered` is history. Bodies, threads and projects are part of
a request's identity; a request past its own expiry, which is refused before
anything is looked up, and names of humans are left out.

### Conversation

`channel`, `grant`, `link`, `enrolled` are the tables of channels, grants, declared
supervisors and humans; `message`, `delivery`, `response`, `job` the rows a post
writes; `operations` the recorded requests of creations and of continuations; `preview` the signed
continuation previews that are out; `audience` is
history: what each policy revision showed. A preview is not used up: until it
expires its token serves commits under any number of keys, each looked up and
recorded under its own, and a channel that a commit opens is recorded under a key
derived from it. `shown` is what the preview displays: for a new channel
`supervisionDigestTx` lists every supervisor of its members, one that is a member
itself included, while an existing channel's observers are those that are not participants. `PostOutcome` has the checks of
`channelPostTx` in their order. A revoked grant stays in its table and no query
reads it, so revoking drops it. `worker` is the managed worker's job in hand. The
events that take a number in `channel_seq` but are only compared to posts and
grants (claims and attempts) take none here.

### Conditions

`condition[s]` is the row of one kind and subject; `mail[a]` the ages of an
inbox's waiting mail; `pass` the worker's pass: what it read (`stale`) and what it
has still to write; `archiving` where `ArchiveActor` is after its commit. `seen`
is history: the generations some list showed. Conditions of other kinds are
raised and resolved by their handlers at any time, since their predicates belong
to other modules. Mail is `quiet` (it asks for no wake), `fresh` or `stale`, and a pass asks
only for the stale; an archived inbox may keep any of them (`LeftUnread`).

### Ownership

A daemon's `pc` walks through `Run`, `Open` and `Serve`; every system call on a shared
path is an action, and `OpenFails`, `ServeFails` and `Crash` may take the place of the
next one. `db` is a schema version and a content, `backups` the published `.bak`
files, `migrated` the databases a migration replaced (history). Waiting for a
lock is a step that is not taken. `RestoreBackup` is the operator's rollback,
which is outside the code (`RELEASE-NOTES.md`).

### Client

`call[t]` is what a goroutine of the MCP process does (the tool calls and the
heartbeat), `lock` the mutex of `api.Client`, `client` its connection and identity,
`server[c]` the handler of a connection with the requests it has not read. A
handler takes a request in up to three transactions and keeps working when
the client has given up. A call is repeated by the client (`Again`, `Reassigned`),
by the MCP server when the identity was rebound (`Require`), and by the agent,
who repeats a message with its key. What `BindActor` does is one handle that
leads to a reservation, to an actor or to the actor of the session a hook resumed.

## 3. Runs

| Run | Bounds | Shows |
|---|---|---|
| `mailbox_scenarios` | 1 message to up to 2 of 3 actors, stale clocks; `leases`: 3 claims per row, no wakes; `wakes` and `archival`: 2 live actors, 1 claim, limit 2 for notification attempts, 1 crash, fair worker | `SettledByNewestClaim`, `RevokedIsFenced`, `ForwardingReachesAnInbox`, `AdoptedIsNotWoken`, `ClaimSilencesWake`, `WakeFollowsDelivery`, `JobsAreResolved`, refinement `DeliveriesAreFenced` |
| `attention_safety` | 2 sessions, 2 registrations, 2 starts, symmetric; 2 waits and no fault, or 1 fault with 1 wait and 1 attach handler at a time | `NoStrandedWait`, `AcceptedNoticeIsHeard`, refinement `WaitsAreHandedOff` |
| `attention_liveness` | 1 session, 2 handlers, limit 2, 2 starts, 2 faults, lapsing lease | `AcceptedNoticeSurfaces` |
| `identity_scenarios` | 2 connections, 2 runs, 2 suffixes, 2 sessions, 2 processes; five scenarios | `HandleReachesActor`, `ProvisionalIsInvisible`, `AdoptedIsNotLive`, `ArchivedIsUnreachable`, `HandleMovesOnlyFromRetired`, `NewInstanceNeverSteals` |
| `routing_names` | 4 names (2 actors, a process's name, a free one), 3 messages, 6 alias requests, 4 sends, 3 revisions | `NamesStayDisjoint`, `SendRetryIsRecognised`, `AnswersAreStable`, `AliasTargetIsActive` |
| `routing_provisional` | the same names, two requests that alias the process's name | violated: finding 1 |
| `conversation_scenarios` | 2 agents, 1 human, 3 channels, 3 messages, 2 keys for continuations, 3 revisions, 2 claims, limit 2 for wakes, 1 crash; five scenarios | `PostReachesShownAudience`, `NothingPendsOnTheRemoved`, `AttemptsAreLimited`, `AnsweredExactlyOnce`, `ObserversAreDeclared`, `ArchivedIsNoParticipant`, `JoinForward`, `ContinuationLandsAsShown`, refinement `ManagedDeliveriesAreFenced` |
| `conditions_inboxes` | 1 inbox, 1 other subject, 2 presenters, 3 generations, 1 failed pass or crash, fair pass | `HiddenWasShown`, `StaleUnreadIsRaised`, `ReadInboxIsResolved` |
| `conditions_archival` | the same | `LeftUnreadStaysRaised` violated: finding 3 |
| `ownership_upgrades` | 3 daemons of 2 builds, 2 starts each, 2 commits | `OneOwner`, `UpgradeKeepsThePast` |
| `client_calls` | 1 tool call and 1 heartbeat, 3 connections, 1 fault, a hook | `RunAtMostOnce`, `AnswerIsOwn`, `CallsReturn` |
| `client_send_twice` | the same | violated: finding 2 |

`MCMailbox`, `MCIdentity`, `MCAttentionSafety`, `MCConversation` and `MCConditions` add a
variable `scenario` that Init chooses and no step changes: each scenario is an
instance of the module with its own requests, operations or fault bound, and one
run checks every property in all of them. Those of `MCMailbox` are `leases` (claims,
finishes, adoptions, revocations of messages that ask for no wake), `wakes` (the outbox,
its worker and a crash) and `archival`, which plays without wakes or crashes; the worker
is fair in `wakes`. The scenarios of `MCIdentity` are
`startup` (an unproven MCP process and two hooks; registration, heartbeat and
end of session), `resume` (two proven processes, one session, takeover), `exact`
(exact, plain and allocating hellos of one process), `adoption` (a harness, mail
to it, a configured adopter) and `archival` (archive and restore while sessions
resume). Those of `MCConversation` are `membership` (admission and removal during
posts, claims and finishes), `asking` (response requests, their answers, refusal and
withdrawal), `waking` (the managed outbox, removal and a crash), `observing`
(supervisors, adoption, archival, and direct channels of the same pair) and
`continuing` `continuing` (continuations into a direct, a new and the same channel, with tokens used
again under another key and a supervisor who is to be a member of the new channel)..

Why these bounds. Three actors are needed for one adopter with two sources,
two claims for a lost lease and three for a lost lease after a revocation
(the `leases` scenario; the wakes need one). Limit
2 for attempts distinguishes "again" from "given up"; the code has 5. Two
sessions and two handlers are needed for a leaving wait to meet a newer one, and for
two attach handlers to cross. The identity runs have two connections, which is what
every race between two handlers needs, two runs and two suffixes, one for each
side of a takeover or before and after a rename, and two sessions for handles that
disagree about their actor. An alias needs three revisions to be claimed, re-pointed and
removed, and a reply needs a message to answer and one to be repeated. A
conversation needs a second channel to continue into, a third one for a token that opens two, three revisions for
removal and readmission, and a third message for an answer to a question
that was already answered. Three daemons are needed for an older build to start while a
newer one hands over to another. Two generations show a recurrence, a third
one a recurrence of what an archival acknowledged. Three connections are one
that fails, its successor and one that a second fault or a rebinding needs. Each
scenario takes the requests and events of one question, since all of them
together are too many states. Every bound is a named constant that only
restricts how often something happens.

Deadlock is not checked: with every bound used up and every message settled a
model has nothing left to do. The safety properties of `Client` were also checked
once with two tool calls (7.6 million states) and the wake properties of `Mailbox`
with two messages; those instances are too large to be kept as runs. The type invariants of
the modules are proved (section 5) and are not among the runs' properties; `Conversation`'s is proved
without its bounds, which held in the same instances. Every invariant that a proof below carries
was checked by TLC on the instance of its module first.

The variants named `..._...` before a definition are plausible bugs of that definition; each
property is violated when the variant replaces it.

### Fairness

`Mailbox!FairSpec`: the worker's loop keeps running (`runNotificationWorker`
retries on a 100 ms ticker for as long as the daemon runs; crashes are bounded and a restart
continues with the durable rows), and backoffs end. Nothing is assumed of
clients, operators or adapters other than that an adapter call returns, which
the code's notification time-out enforces.

`Attention!FairSpec`: the worker and handlers proceed, the loop of a
running monitor proceeds, and a wait ends (its context has a deadline of at most 25 s).
No hook, registration, heartbeat or claim is assumed to happen, and nothing of
how soon a broken connection is noticed. `AcceptedNoticeSurfaces` is therefore about
notices whose reply the monitor still reads; section 4 has the other case.

`MCConditions!MCSpec` has weak fairness of the pass: the worker turns to it
whenever the outbox has nothing due, and every job of that backs off or ends.
Handlers, operators and mail are not assumed to do anything.

`Client!FairSpec`: a goroutine that has something to do does it, its
deadline passes, and a goroutine that waits for the mutex gets it in the end
(strong fairness of `Lock` and `Require`: Go's `sync.Mutex` hands itself over to a
waiter that starves). Nothing is assumed of the daemon, which may never answer.

## 4. Findings

1. **A name can be an actor and an alias** (`identity.go:373`). `API.md:151`
   promises one namespace. Aliases accept a target that is only provisionally
   allocated (`identity.go:816`), and releasing the allocation does not look at
   aliases. The released name can become an alias, and a Send through the first
   alias then writes it into `actor_names`. `NamesBreakAtProvisionalTargets` proves that
   nothing else breaks the promise: only a step that points an alias at a provisional name does.
2. **A retried message is stored twice** (`identity.go:332`). `README.md:391`
   promises that idempotency keys prevent this. The check of a provisional
   connection's handles, the finalization and the send are three transactions; a hook
   that resumes a session drops the reservation between the first two, and the finalization
   finds no row and reports success. The message is stored under the dropped name;
   the client, whose connection was broken, repeats it as the resumed actor, and
   the key is unknown for that sender.
3. **The condition of an archived inbox is resolved** (`conditions.go:296`).
   `API.md:389` says that it "stays acknowledged but unresolved" while unread mail is
   preserved. `ArchiveActor` raises and acknowledges it (`lifecycle.go:213`), but the
   worker's pass knows only wake-requested mail older than the threshold and resolves the
   condition of every other inbox, archived ones included: mail that asks for no wake,
   or is younger, is left with no condition.

Observations that no run singles out. Each is what the modelled code does, and
the models follow it:

* After an adoption the operator can revoke the lease of a live adopter:
  `lifecycle.go:253` asks for the presence of the row's recipient (`API.md:391`: "only
  after presence is gone").
* Two `monitor_attach` handlers that cross between store and broker
  (`api.go:1085`) stop the newer session's monitor as superseded.
* A process whose handle came to a session's actor while its holder was not registered
  supersedes the holder that registered since (`identity.go:586`; `API.md:145`).
* A proven process that reports the run of another process and a session of its own
  comes to the actor of that session without takeover, and supersedes its other
  runs: only session and launch handles are compared with live predecessors
  (`identity.go:540`). `NewInstanceNeverSteals` says what is left of the rule: where
  the session leads to the predecessor, nobody else supersedes it.
* A registration in flight clears the mark of a superseded run
  (`registration.go:111`), which `API.md:126` calls permanent.
* A proven harness whose actor was adopted cannot be given a fresh name:
  its process is still bound to the adopted one (`identity.go:435`; `API.md:162`).
* A handler that cannot write READY returns before it would release its
  reservation (`api.go:629`, action `GreetFails`).
* The row that `finish` and `Extend` act on is looked up again (`store.go:1032`), so a later
  adoption of a source that sorts first can make them miss the row a running
  lease belongs to. Such a finish is refused, which `DeliveriesAreFenced` permits: no property is about it.
* A daemon that gives up after it took the socket path, or stops, removes the path whoever listens there
  by then (`daemon.go:77`); the store itself stays safe (`OneOwner`).
* An adopted participant can neither be removed from a conversation nor
  archived (`CONVERSATIONS.md:28`, `:30`); wakes that a crash cut short are counted
  beyond the limit of five (`CONVERSATIONS.md:118`, `AttemptsAreLimited` allows one more per crash). A
  `FinishManagedNotification` that fails while the daemon stays up would add one too; such
  failures are not modelled.
* Observing a condition again ends a presentation that is being made (`API.md:381`).
* A wait of a lost connection stays parked until the daemon notices (`api.go:411`). A
  monitor that meanwhile re-attached to the same session and read its inbox learns nothing
  of a notice which that wait accepts, and the message waits for the next
  reconnect or session start. `fdliveness.Watch` wakes when the peer closes and the loop
  sleeps 250 ms before it dials again, but neither waits for the other.
* An API client whose identity is rebound between the computation of a thread id and the send is
  refused with an idempotency conflict; a connection that ends releases a
  reservation that a later connection of the same process uses.
* A program other than hollerd that writes between `VACUUM INTO` and the
  migration's `BEGIN IMMEDIATE` is not in the backup (`store.go:250`).

## 5. Proofs

For every value of the constants (assumptions: those named in the modules),
TLAPS proves:

* `TypeCorrect`, `NewestClaimDecides`, `RevocationFences`, `ForwardingIsFlat`
  in `MailboxProofs`. The safety invariants are not inductive: that a settled row's token is
  the newest needs that a claimed row's is, that only claimed rows have a lease,
  and that revoked tokens are older than any later claim. `RowInv` conjoins
  these with `TypeOK` and with "the rows of an unsent message are empty".
  `StepOfRow` reduces every step to the few ways a single row can change, and
  `RowStepKeepsRow` shows that each keeps the invariant of the row.
* `MailboxIsFencedQueue`, the refinement: the row mapping `queueItem`
  turns every step into a step of `FencedQueue` or a stutter. One lemma per kind
  of row change shows what the mapping makes of it.
* `AdoptedStaySilent`, `ClaimsSilence`, `WakesFollow` in the same module, which
  are not inductive one by one: that a claim closes a job needs that the job was there
  (`WakeFollowsDelivery`), that a revocation does not wake another claimant needs that
  nobody with a row of its own claims another's (`HoldersPrefer`), and that an adoption
  leaves a claimant's closed job alone is `ClaimantsAreDone`. Most steps are quiet
  (`QuietStep`); Send, Claim, AdoptActor and RevokeDeliveryLease have a lemma each.
  `ClaimSilencesWake` is about live messages: a claim that acts on an old clock reading of
  an expired message may coincide with a job that an adoption moved, and such a
  job is never offered.
* `RetriesAreRecognised` and `AnswersStay` in `RoutingProofs`, from an invariant
  that relates the tables: a current alias has its revision in the history
  (`CurrentHasHistory`), every stored message has routes that its request still
  resolves to (`StoredNames`: names only ever turn from unknown to alias, and the
  names on an old-style list are actors or aliases once stored), one record per
  caller and key (`OneRecordPerKey`, `OneClaimPerKey`), and what a caller was told
  is what is stored (`ToldIsStored`). `NamesBreakAtProvisionalTargets` assumes nothing of the
  requests: while names are disjoint and every alias leads to an active actor, which
  need each other, every step keeps both unless it points an alias at a name that is provisional
  then (`AimsAtProvisional`); finding 1 begins with such a step. The part that
  needs no exception is `AliasesAvoidTheArchived`.
* `OnlyTheShownIsHidden` in `ConditionsProofs`: what an archival acknowledges
  without a list is a generation it just raised (`ArchivalKnows`), and only a snooze
  can be due (`DueIsSnoozed`).
* `OneDaemonOwnsTheStore` and `UpgradesKeepThePast` in `OwnershipProofs`: a
  daemon past the exclusive lock holds it and its schema is the file's; a
  migration starts from a database that is in a backup since its daemon holds
  the migration lock.
* `RunsOnce` and `AnswersAreOwn` in `ClientProofs`. `ClientInv` says that whoever dials,
  writes or reads has the mutex (`HoldsLock`), so that at most one call waits on the
  connection; that identifiers on it are no newer than the client's last
  (`IdsAreOld`), so that what carries that one belongs to the waiting call
  (`OwnIsNewest`); that a delicate request is in one queue once, unrun, or has run
  (`WaitsOnce`); and that a call not yet written, or answered with
  `binding_reassigned`, has done neither (`UnwrittenIsUnrun`), which is why that
  repetition is safe. Daemon steps, faults and the hook make queues fade or serve
  one request (`DaemonFades`); all turns of a goroutine but the write are
  instances of `TurnKeeps`.
* `TypeCorrect`, `WaitersAreCurrent`, `NoWaitIsStranded` and `AcceptedNoticesAreHeard` in
  `AttentionProofs`. The broker's map alone says too little: `WaiterIsParked` ties it to
  the handlers (a waiter is a handler of that session which has not yet removed
  itself) and `CallsAreWhole` says that a handler that does not exist has nothing in its
  channel. From these, a call that leaves removes only its own entry
  (`RemovedFacts`), a newer wait of the session keeps its place (`GoneKeeps`), and whoever is taken
  out of the map by Attach, Cancel or Notify has a result on its way. A handler ends only by
  returning what it received or saw at its last look, or with the daemon (`CallsEnd`), which
  is what makes an accepted notice heard.
* `BrokerHandsOff` in the same module: the broker implements `Handoff`, which knows
  calls and nothing else. A call is out, offered, told something, dismissed or gone;
  `handoff` reads that from the handler, its channel, the map and the outcomes still
  to be sent. One call at most is offered a notice; what is told stays until the
  call returns; a dismissed call is not offered anything again and returns told
  why, or because its own time was over. `HandInv` is what the mapping
  needs: a registered waiter's channel is empty and nothing is on its way there
  (`OfferedIsClear`), and one outcome at most is on its way to a call, whose channel is
  empty (`OneOnTheWay`): the non-blocking send after the unlock never finds the
  channel in use. `Wait` enters, `Notify` accepts, `Attach` and `Cancel` dismiss
  (`DropHands`), `SendOutcome` tells, and a wait's own end gives up or changes nothing.
* Seven theorems in `IdentityProofs`: `TypeCorrect`, `HandlesReachActors`,
  `ProvisionalInvisible`, `AdoptedNeverLive`, `ArchivedUnreachable`,
  `HandlesMoveFromRetired` and `InstancesNeverSteal`, for hellos and requests that are
  typed and handles of different kinds that differ. `TablesInv` relates the tables: names in use were drawn or are
  configured (`OnlyDrawnNames`), archived ones were in the directory (`ArchivedWereNamed`), and the four
  invariants above hold together. `ConnectionsActAsNames` says what a handler may still rely on
  between its transactions: its name was drawn, and it knows when the name is provisional. The six kinds of hello
  differ in what they settle before they bind handles; `Bindable` says what each has settled, and one lemma
  shows that `Bind` then keeps the tables.
* Nine theorems in `ConversationProofs`, for requests that are typed (`CreationsAreTyped`,
  `DraftsAreTyped`, `IntentsAreTyped`, `BoundsAreActors`, `MemberIsNobody`): `PostsReachTheShown`,
  `NothingIsOwedByTheRemoved`, `RequestsAreAnsweredOnce`, `ObserversAreTheDeclared`,
  `ArchivedStayOut`, `HistoryIsJoinForward`, `WakesAreLimited`, `ContinuationsLand` and
  `ConversationIsFencedQueue`. `AudienceInv` is about channels and grants: no grant begins
  in the future (`GrantsAreOld`), the reading grants are the supervisors'
  (`ReadersSupervise`, `SupervisorsRead`), and what was shown under the current
  revision is the membership (`AudienceIsCurrent`). `MessageInv` is about messages: their numbers
  and revisions lie in the past, so that a new grant does not reach back
  (`MessagesAreNumbered`); while a message's revision stands its rows are its channel's
  participants (`RowsAreCurrent`), which a later listing of that revision then shows;
  whatever waits is owed by an entitled participant (`OwedToMembers`). Each audience
  operation is shown to satisfy `Moves`, which is all that the messages need to know of it;
  the operations on rows are instances of `RowsKeep`. Attempts need which job the worker
  has in hand (`JobsAreLimited`), continuations that a channel's grants change only with its
  revision (`StepStands`, `PreviewsAreCurrent`), and the refinement that a claimed row
  carries the newest token (`RowsAreSound`).

Only model-checked: liveness (`JobsAreResolved`, `AcceptedNoticeSurfaces`, `StaleUnreadIsRaised`,
`ReadInboxIsResolved`, `CallsReturn`), since fairness and ENABLED are outside the prover's reach. The three
violated properties are refuted by TLC.

## 6. Not modelled

Host-injected attention and the human gateway: an HTTP front end with cookies and
streams, whose protocol steps are those of the conversations behind it. The
30-day sweep: a query and a loop of ordinary archivals, which stops at the
first actor that became ineligible. The predicates of the operator conditions
other than stale mail. The translation of each MCP tool's arguments. Human
identities as names of sessions. Views, reads, lists and previews that write
nothing, where no other call depends on what they showed.

Left out for good: discovery and other read-only reports, flag parsing, output
and hook formats, installation, doctor and certification (files and processes of
other programs), the lab.
