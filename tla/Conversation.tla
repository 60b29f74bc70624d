---------------------------- MODULE Conversation ----------------------------
(***************************************************************************)
(* The managed conversations of hollerd: direct and named private          *)
(* channels, the grants that say who may read and post, declared           *)
(* supervisors, messages with their deliveries, attention jobs and         *)
(* response requests, and continuations from one channel into another.     *)
(*                                                                         *)
(* Every Store method runs in one transaction on the only connection, so   *)
(* each is one action.  What makes the module hard is that callers act on  *)
(* what they saw: a post names the policy revision its author looked at, a *)
(* continuation carries a signed preview, a request may be sent twice, and *)
(* the membership, the supervision or the lease changed in between.        *)
(*                                                                         *)
(* channel_seq numbers every event of a channel, but it is only compared   *)
(* between posts and grants; claims and attempts take no number here.  A   *)
(* revoked grant stays in its table and no query reads it: revoking drops  *)
(* it.  Deadlines are events, as in Mailbox.                               *)
(***************************************************************************)
EXTENDS DeliveryTransition, FiniteSets

CONSTANTS
    Agents, Humans,   \* canonical actors; humans speak through the gateway
    None,
    Channels,         \* channel ids and message ids, in order of creation
    Messages,
    Creations,        \* bound: the channel.create requests
    Drafts,           \* bound: the channel.post requests, but for the revision
    Intents,          \* bound: the continuations that are previewed
    CommitKeys,       \* bound: the idempotency keys of their commits
    Admissible,       \* bound: the actors that creators admit and remove
    Supervised,       \* bound: the agents whose supervisor changes
    Calls,            \* bound: the other calls that are made
    MaxRevision,      \* bound: policy revisions of a channel
    MaxClaims,        \* bound: claims of one delivery
    MaxAttempts,      \* attempts after which a wake is given up (5)
    MaxCrashes        \* bound: crashes of the daemon

Actors == Agents \cup Humans

ASSUME HumansAreNotAgents == Agents \cap Humans = {}
ASSUME NoneIsNobody       == None \notin Actors
ASSUME ChannelsAreNats    == Channels \subseteq Nat \ {0}
ASSUME MessagesAreNats    == Messages \subseteq Nat \ {0}
ASSUME BoundsAreActors    == Admissible \subseteq Actors /\ Supervised \subseteq Agents
ASSUME BoundsAreNat       == {MaxRevision, MaxClaims, MaxCrashes} \subseteq Nat
ASSUME MaxAttemptsIsPos   == MaxAttempts \in Nat \ {0}
ASSUME CreationsAreTyped  ==
    \A r \in Creations : r.actor \in Actors /\ r.kind \in {"dm", "named"} /\ r.members \subseteq Actors
ASSUME DraftsAreTyped     ==
    \A d \in Drafts : /\ d.from \in Actors /\ d.channel \in Channels /\ d.attention \subseteq Actors
                      /\ {d.answers, d.parent} \subseteq Messages \cup {0}
ASSUME IntentsAreTyped    ==
    \A t \in Intents : /\ t.actor \in Actors /\ t.members \subseteq Actors /\ t.into \subseteq Channels
                       /\ \/ t.kind \in {"dm", "named"} /\ t.actor \in t.members
                          \/ t.kind = "into" /\ t.into # {}

VARIABLES
    channel,   \* channels table
    operations, \* channel_operations table, of "create" and "continue"
    grant,     \* channel_grants table, the rows that are not revoked
    link,      \* supervision_links table
    enrolled,  \* human_actors table
    adopted,   \* agents whose inbox was adopted
    archived,  \* agents archived in actor_lifecycle
    message,   \* messages table, managed rows, with channel_message_requests
    delivery,  \* managed_deliveries table
    response,  \* channel_responses table, by the message that asks
    job,       \* notification_outbox table, managed rows
    ready,     \* agents with a live registration that negotiated managed wakes
    worker,    \* the managed worker's job in hand (lost in a crash)
    preview,   \* continuation tokens signed by the running daemon
    crashes,   \* crashes so far
    audience   \* history: what channel.get could show, by channel and revision

people  == <<link, enrolled, adopted, archived>>
rows    == <<message, delivery, response, job>>
daemon  == <<ready, worker, preview, crashes>>
vars    == <<channel, operations, grant, people, rows, daemon, audience>>

-----------------------------------------------------------------------------
(* Rows. *)

Member == "participant"     \* a grant's source: this, or the agent supervised
ASSUME MemberIsNobody == Member \notin Actors

NoChannel == [kind |-> "none", creator |-> None, revision |-> 0, next |-> 1]
NoMessage == [request |-> None, seq |-> 0, thread |-> 0]
NoRow     == [state |-> "none", attempt |-> 0, token |-> NoToken, terminal |-> NoToken, lease |-> "none"]
QueuedRow == [NoRow EXCEPT !.state = "queued"]
NoRequest == [state |-> "none", answer |-> 0]
NoJob     == [state |-> "none", attempt |-> 0, due |-> FALSE]
NewJob    == [state |-> "pending", attempt |-> 0, due |-> TRUE]
DoneJob(j) == [j EXCEPT !.state = "done", !.due = FALSE]
OpenJob(j) == j.state \in {"pending", "processing", "accepted"}

\* What the commit of a continuation posts: a reference to its source.
continuation(t, c, key) ==
    [from |-> t.actor, channel |-> c, key |-> key, attention |-> t.attention,
     respondent |-> t.respondent, answers |-> 0, parent |-> 0, source |-> t.source]

Requests == UNION {[draft : Drafts, revision : 1 .. MaxRevision],
                   [draft : {continuation(t, c, key) : t \in Intents, c \in Channels, key \in CommitKeys},
                    revision : 1 .. MaxRevision]}

Known(c)  == channel[c].kind # "none"
Posted(m) == message[m].seq # 0
Home(m)   == message[m].request.draft.channel
Author(m) == message[m].request.draft.from

-----------------------------------------------------------------------------
(* Who may do what: channelTx and channelMessageTx. *)

membersOf(g, c)   == {x.actor : x \in {y \in g : y.channel = c /\ y.source = Member}}
observersOf(g, c) == {x.actor : x \in {y \in g : y.channel = c}} \ membersOf(g, c)

Participants(c) == membersOf(grant, c)
Observers(c)    == observersOf(grant, c)

CanManage(a, c) == a \in Participants(c) /\ channel[c].creator = a /\ channel[c].kind = "named"

\* seq >= MIN(history_from) over the actor's grants
Visible(a, m) ==
    Posted(m) /\ \E g \in grant : g.actor = a /\ g.channel = Home(m) /\ g.floor <= message[m].seq

\* a posting grant that reaches back to the message
Entitled(a, m) ==
    \E g \in grant : g.actor = a /\ g.channel = Home(m) /\ g.source = Member /\ g.floor <= message[m].seq

\* channelDeliveryTx
Deliverable(a, m) ==
    /\ a \notin adopted
    /\ Visible(a, m) /\ Entitled(a, m)
    /\ delivery[m][a].state # "none"

-----------------------------------------------------------------------------
TypeOK ==
    /\ channel  \in [Channels -> [kind : {"none", "dm", "named"}, creator : Actors \cup {None},
                                  revision : 0 .. MaxRevision, next : Nat]]
    /\ \A op \in operations :
          \/ op.op = "create"   /\ op.actor \in Actors /\ op.channel \in Channels
          \/ op.op = "continue" /\ op.actor \in Actors /\ op.key \in CommitKeys /\ op.message \in Messages
    /\ grant    \subseteq [channel : Channels, actor : Actors, source : Agents \cup {Member}, floor : Nat]
    /\ link     \in [Agents -> [human : Humans \cup {None}, revision : 0 .. MaxRevision]]
    /\ enrolled \subseteq Humans
    /\ adopted  \subseteq Agents
    /\ archived \subseteq Agents
    /\ message  \in [Messages -> [request : Requests \cup {None}, seq : Nat, thread : Messages \cup {0}]]
    /\ delivery \in [Messages -> [Actors ->
                       [state : {"none", "queued", "claimed", "acked", "dead", "revoked"},
                        attempt : 0 .. MaxClaims, token : 0 .. MaxClaims, terminal : 0 .. MaxClaims,
                        lease : {"none", "running", "lapsed"}]]]
    /\ response \in [Messages -> [state : {"none", "open", "answered", "declined", "withdrawn", "revoked"},
                                  answer : Messages \cup {0}]]
    /\ job      \in [Messages -> [Actors -> [state : {"none", "pending", "processing", "accepted", "done"},
                                             attempt : 0 .. MaxAttempts + MaxCrashes, due : BOOLEAN]]]
    /\ ready    \subseteq Agents
    /\ worker   \in [pc : {"idle"}]
                    \cup [pc : {"claimed"}, msg : Messages, actor : Actors, attempt : Nat]
                    \cup [pc : {"notified"}, msg : Messages, actor : Actors, attempt : Nat,
                          outcome : {"accepted", "retry", "complete"}]
    /\ \A t \in preview : t.intent \in Intents /\ t.destination \in Channels \cup {0}
    /\ crashes  \in 0 .. MaxCrashes

Init ==
    /\ channel  = [c \in Channels |-> NoChannel]
    /\ operations = {}
    /\ grant    = {}
    /\ link     = [a \in Agents |-> [human |-> None, revision |-> 0]]
    /\ enrolled = {}
    /\ adopted  = {} /\ archived = {}
    /\ message  = [m \in Messages |-> NoMessage]
    /\ delivery = [m \in Messages |-> [a \in Actors |-> NoRow]]
    /\ response = [m \in Messages |-> NoRequest]
    /\ job      = [m \in Messages |-> [a \in Actors |-> NoJob]]
    /\ ready    = {}
    /\ worker   = [pc |-> "idle"]
    /\ preview  = {}
    /\ crashes  = 0
    /\ audience = {}

\* What channel.get may show from now on; a history, for the properties.
RecordAudience ==
    audience' = audience \cup
        {[channel |-> c, revision |-> channel'[c].revision,
          members |-> membersOf(grant', c), observers |-> observersOf(grant', c)] :
             c \in {x \in Channels : channel'[x].kind # "none"}}

-----------------------------------------------------------------------------
(* Channels. *)

\* channelGrantTx: a posting grant, and a reading one for an agent's supervisor.
GrantsFor(c, a, floor) ==
    {[channel |-> c, actor |-> a, source |-> Member, floor |-> floor]}
        \cup IF a \in Agents /\ link[a].human # None
             THEN {[channel |-> c, actor |-> link[a].human, source |-> a, floor |-> floor]}
             ELSE {}

SamePair(members) ==
    {c \in Channels : channel[c].kind = "dm" /\ Participants(c) = members}

Joinable(a) == a \notin adopted \cup archived /\ (a \in Humans => a \in enrolled)

NextChannel(c) == ~Known(c) /\ \A d \in Channels : d < c => Known(d)
NextMessage(m) == ~Posted(m) /\ \A n \in Messages : n < m => Posted(n)

\* channelOperation finds a row.
Recorded(name, a, key) == \E op \in operations : op.op = name /\ op.actor = a /\ op.key = key

creation(a, key, c) == [op |-> "create", actor |-> a, key |-> key, channel |-> c]

\* createChannelTx once the pair and the key are known to be new.
OpensAs(c, members) ==
    /\ NextChannel(c)
    /\ \A a \in members : Joinable(a)
    /\ grant' = grant \cup UNION {GrantsFor(c, a, 0) : a \in members}

\* The channel.created event takes the first number.
NewChannel(actor, kind) == [kind |-> kind, creator |-> actor, revision |-> 1, next |-> 2]

\* Store.ChannelCreate.  A repeat of a recorded request changes nothing, and a
\* pair that has a direct channel gets that one.
CreateChannel(r) ==
    /\ ~Recorded("create", r.actor, r.key)
    /\ r.kind = "dm" => SamePair(r.members) = {}
    /\ \E c \in Channels :
          /\ OpensAs(c, r.members)
          /\ operations' = operations \cup {creation(r.actor, r.key, c)}
          /\ channel' = [channel EXCEPT ![c] = NewChannel(r.actor, r.kind)]
    /\ RecordAudience
    /\ UNCHANGED <<people, rows, daemon>>

FindDirect(r) ==
    /\ ~Recorded("create", r.actor, r.key)
    /\ r.kind = "dm"
    /\ \E c \in SamePair(r.members) :
          operations' = operations \cup {creation(r.actor, r.key, c)}
    /\ UNCHANGED <<channel, grant, people, rows, daemon, audience>>

\* Variant of FirstRead: a newcomer reads the channel from its beginning.
FirstRead_all(seq) == 0

\* Admission and enrollment are join-forward: history starts at their event.
FirstRead(seq) == seq

\* A policy change takes a number and moves the revision on.
Changed(ch) == [ch EXCEPT !.revision = @ + 1, !.next = @ + 1]

\* Store.ChannelMembershipChange "add", by the creator who saw the current
\* revision.  Repeats find the revision gone, so their keys are left out.
AddMember(creator, c, a) ==
    /\ CanManage(creator, c)
    /\ a \notin Participants(c)
    /\ Joinable(a)
    /\ channel[c].revision < MaxRevision
    /\ grant'   = grant \cup GrantsFor(c, a, FirstRead(channel[c].next))
    /\ channel' = [channel EXCEPT ![c] = Changed(@)]
    /\ RecordAudience
    /\ UNCHANGED <<operations, people, rows, daemon>>

\* Variant of revokedRow: a delivery in hand is left to its holder.
revokedRow_queuedOnly(row) ==
    IF row.state = "queued" THEN [row EXCEPT !.state = "revoked"] ELSE row

\* managed_deliveries row of an actor who is removed.
revokedRow(row) ==
    IF Unsettled(row)
    THEN [row EXCEPT !.state = "revoked", !.terminal = row.token, !.token = NoToken, !.lease = "none"]
    ELSE row

\* Variant of grantsOf: the supervisor of a removed agent goes on reading.
grantsOf_memberOnly(c, a) == {g \in grant : g.channel = c /\ g.actor = a /\ g.source = Member}

\* The grants that end with a membership: the actor's own, its supervisor's.
grantsOf(c, a) ==
    {g \in grant : g.channel = c /\ ((g.source = Member /\ g.actor = a) \/ g.source = a)}

\* Store.ChannelMembershipChange "remove".  Whatever the actor had not settled
\* in the channel is revoked with the grants.  An adopted actor is refused.
RemoveMember(creator, c, a) ==
    /\ CanManage(creator, c)
    /\ a \in Participants(c) \ {channel[c].creator}
    /\ a \notin adopted
    /\ channel[c].revision < MaxRevision
    /\ grant'    = grant \ grantsOf(c, a)
    /\ channel'  = [channel EXCEPT ![c] = Changed(@)]
    /\ LET here(m) == Posted(m) /\ Home(m) = c
       IN  /\ delivery' = [m \in Messages |-> [delivery[m] EXCEPT ![a] = IF here(m) THEN revokedRow(@) ELSE @]]
           /\ job'      = [m \in Messages |-> [job[m] EXCEPT ![a] =
                              IF here(m) /\ @.state # "none" THEN DoneJob(@) ELSE @]]
           /\ response' = [m \in Messages |->
                              IF here(m) /\ response[m].state = "open"
                                         /\ message[m].request.draft.respondent = a
                              THEN [response[m] EXCEPT !.state = "revoked"] ELSE response[m]]
    /\ RecordAudience
    /\ UNCHANGED <<operations, people, message, daemon>>

-----------------------------------------------------------------------------
(* Supervision and the actors' own life. *)

\* Store.RegisterHuman
Enroll(h) ==
    /\ "enroll" \in Calls
    /\ h \notin enrolled
    /\ enrolled' = enrolled \cup {h}
    /\ UNCHANGED <<channel, operations, grant, link, adopted, archived, rows, daemon, audience>>

\* supervisionPreviewTx: the channels whose audience the change touches.
supervisedIn(agent) == {c \in Channels : agent \in Participants(c)}

\* Store.SupervisionChange by an administrator whose preview, the link and the
\* revision of every channel of the agent, is still current.  h = None ends it.
Supervise(agent, h) ==
    /\ h = None => link[agent].human # None
    /\ h # None => h \in enrolled
    /\ link[agent].revision < MaxRevision
    /\ \A c \in supervisedIn(agent) : channel[c].revision < MaxRevision
    /\ link'    = [link EXCEPT ![agent] = [human |-> h, revision |-> @.revision + 1]]
    /\ grant'   = {g \in grant : ~(g.source = agent /\ g.channel \in supervisedIn(agent))}
                      \cup IF h = None THEN {}
                           ELSE {[channel |-> c, actor |-> h, source |-> agent,
                                  floor |-> FirstRead(channel[c].next)] : c \in supervisedIn(agent)}
    /\ channel' = [c \in Channels |-> IF c \in supervisedIn(agent) THEN Changed(channel[c]) ELSE channel[c]]
    /\ RecordAudience
    /\ UNCHANGED <<operations, enrolled, adopted, archived, rows, daemon>>

\* Store.AdoptActor does not ask about channels: adoption moves direct messages.
Adopt(a) ==
    /\ "adopt" \in Calls
    /\ a \notin adopted \cup ready
    /\ adopted' = adopted \cup {a}
    /\ UNCHANGED <<channel, operations, grant, link, enrolled, archived, rows, daemon, audience>>

\* Variant of Archivable: only the grants to post keep an actor.
Archivable_ignoresGrants(a) == a \notin archived \cup ready

\* Store.ArchiveActor, also of an adopted actor: no grant may be left.
Archivable(a) == a \notin archived \cup ready /\ ~\E g \in grant : g.actor = a

Archive(a) ==
    /\ "archive" \in Calls
    /\ Archivable(a)
    /\ archived' = archived \cup {a}
    /\ UNCHANGED <<channel, operations, grant, link, enrolled, adopted, rows, daemon, audience>>

-----------------------------------------------------------------------------
(* Posts. *)

Prior(draft) == {m \in Messages : Posted(m) /\ Author(m) = draft.from
                                            /\ message[m].request.draft.key = draft.key}

\* The question that an answer replies to is its parent unless it names another.
parentOf(draft) == IF draft.parent = 0 THEN draft.answers ELSE draft.parent

\* channelPostTx's checks of the request against the channel.  An open response
\* request is at its first revision: resolving it is what moves the revision.
Wellformed(draft) ==
    LET c == draft.channel
        parent == parentOf(draft)
        others == Participants(c) \ {draft.from}
    IN  /\ draft.answers # 0 => /\ Posted(draft.answers) /\ Home(draft.answers) = c
                                /\ response[draft.answers].state = "open"
                                /\ message[draft.answers].request.draft.respondent = draft.from
                                /\ parent # 0 => message[parent].thread = message[draft.answers].thread
        /\ parent # 0 => Visible(draft.from, parent) /\ Home(parent) = c
        /\ draft.attention \subseteq others
        /\ draft.respondent \in others \cup {None}
        /\ draft.source # 0 => Visible(draft.from, draft.source)

\* Variant of PostOutcome: the author need not have seen the current audience.
PostOutcome_anyRevision(r) ==
    IF r.draft.from \notin Participants(r.draft.channel) THEN "denied"
    ELSE IF Prior(r.draft) # {} THEN "duplicate"
    ELSE IF Wellformed(r.draft) THEN "post" ELSE "refused"

\* channelPostTx in the order of its checks: a repeat is recognised before the
\* revision is compared.  Only "post" writes.
PostOutcome(r) ==
    IF r.draft.from \notin Participants(r.draft.channel) THEN "denied"
    ELSE IF r.draft.from \in adopted THEN "adopted"
    ELSE IF \E m \in Prior(r.draft) : message[m].request = r /\ Visible(r.draft.from, m) THEN "duplicate"
    ELSE IF \E m \in Prior(r.draft) : message[m].request = r THEN "denied"
    ELSE IF Prior(r.draft) # {} THEN "conflict"
    ELSE IF r.revision # channel[r.draft.channel].revision THEN "changed"
    ELSE IF Wellformed(r.draft) THEN "post" ELSE "refused"

\* The response requests after message m: the one it asks, the one it answers.
asked(m, draft) ==
    [n \in Messages |->
        IF n = m /\ draft.respondent # None THEN [state |-> "open", answer |-> 0]
        ELSE IF n # 0 /\ n = draft.answers THEN [state |-> "answered", answer |-> m]
        ELSE response[n]]

\* The rows that message m of request r writes, given the grants and the
\* channel's number.  Every other participant gets a delivery, targets a job.
Writes(m, r, grants, seq) ==
    LET d == r.draft
    IN  /\ message'  = [message EXCEPT ![m] =
                           [request |-> r, seq |-> seq,
                            thread  |-> IF parentOf(d) = 0 THEN m ELSE message[parentOf(d)].thread]]
        /\ delivery' = [delivery EXCEPT ![m] = [a \in Actors |->
                           IF a \in membersOf(grants, d.channel) \ {d.from} THEN QueuedRow ELSE NoRow]]
        /\ job'      = [job EXCEPT ![m] = [a \in Actors |-> IF a \in d.attention THEN NewJob ELSE NoJob]]
        /\ response' = asked(m, d)

\* Store.ChannelPost
Post(r) ==
    /\ Known(r.draft.channel)
    /\ PostOutcome(r) = "post"
    /\ \E m \in Messages : NextMessage(m) /\ Writes(m, r, grant, channel[r.draft.channel].next)
    /\ channel' = [channel EXCEPT ![r.draft.channel].next = @ + 1]
    /\ UNCHANGED <<operations, grant, people, daemon, audience>>

-----------------------------------------------------------------------------
(* Continuations. *)

\* supervisionDigestTx: what it signs and whom it shows.
Links(members)       == [a \in members \cap Agents |-> link[a]]
supervisors(members) == {link[a].human : a \in members \cap Agents} \ {None}

\* Store.ChannelContinuationPreflight: signs what the author was shown.  An
\* existing direct channel of the pair stands in for a new one.  A supervisor who
\* is a participant of a new channel is shown as its observer too.
Preflight(t) ==
    /\ preview = {}                     \* bound: one preview at a time
    /\ Visible(t.actor, t.source)
    /\ LET old == IF t.kind = "dm" THEN SamePair(t.members) ELSE t.into
           new == old = {}
           shown(c) == [members |-> Participants(c), observers |-> Observers(c)]
       IN  \E c \in (IF new THEN {0} ELSE old) :
              /\ ~new => t.actor \in Participants(c)
              /\ preview' = {[intent |-> t, destination |-> c,
                              source   |-> channel[Home(t.source)].revision,
                              revision |-> IF new THEN 0 ELSE channel[c].revision,
                              links    |-> IF new THEN Links(t.members) ELSE Links({}),
                              shown    |-> IF new THEN [members   |-> t.members,
                                                        observers |-> supervisors(t.members)]
                                           ELSE shown(c)]}
    /\ UNCHANGED <<channel, operations, grant, people, rows, ready, worker, crashes, audience>>

\* Ten minutes pass.  Until then the token serves any number of commits.
PreviewExpires(t) ==
    /\ preview' = preview \ {t}
    /\ UNCHANGED <<channel, operations, grant, people, rows, ready, worker, crashes, audience>>

\* Variant of StillShown: only the source is compared with the preview.
StillShown_sourceOnly(t) == Visible(t.intent.actor, t.intent.source)

\* The source, and the destination or the supervisors of a new one, unchanged.
StillShown(t) ==
    /\ Visible(t.intent.actor, t.intent.source)
    /\ channel[Home(t.intent.source)].revision = t.source
    /\ IF t.destination # 0 THEN channel[t.destination].revision = t.revision
       ELSE /\ Links(t.intent.members) = t.links
            /\ t.intent.kind = "dm" => SamePair(t.intent.members) = {}

\* The row that a commit saves; its result is the message.
commitment(t, key, m) ==
    [op |-> "continue", actor |-> t.intent.actor, key |-> key, token |-> t, message |-> m]

\* Store.ChannelContinuationCommit up to its post.  The lookup of the key comes
\* first: a repeat, or another token under the key, writes nothing.
Commits(t, key) == ~Recorded("continue", t.intent.actor, key) /\ StillShown(t)

\* Store.ChannelContinuationCommit into the channel that was previewed.  The post
\* may turn out to be a repeat of one made without a continuation.
ContinueInto(t, key) ==
    LET r == [draft |-> continuation(t.intent, t.destination, key), revision |-> channel[t.destination].revision]
    IN  /\ t.destination # 0
        /\ Commits(t, key)
        /\ \E m \in Messages :
              /\ operations' = operations \cup {commitment(t, key, m)}
              /\ \/ /\ PostOutcome(r) = "post" /\ NextMessage(m)
                    /\ Writes(m, r, grant, channel[t.destination].next)
                    /\ channel' = [channel EXCEPT ![t.destination].next = @ + 1]
                 \/ /\ PostOutcome(r) = "duplicate" /\ m \in Prior(r.draft) /\ message[m].request = r
                    /\ UNCHANGED <<channel, rows>>
        /\ UNCHANGED <<grant, people, daemon, audience>>

\* Store.ChannelContinuationCommit that opens a channel and posts into it, in
\* one transaction.  The channel's creation is recorded under a key derived from
\* the commit's, where only a commit with the same key would look it up.  A post
\* under the key elsewhere is a conflict and undoes the channel.
ContinueNew(t, key) ==
    /\ t.destination = 0
    /\ Commits(t, key)
    /\ \E c \in Channels, m \in Messages :
          LET i == t.intent  r == [draft |-> continuation(i, c, key), revision |-> 1]
          IN  /\ OpensAs(c, i.members)
              /\ i.actor \notin adopted /\ Prior(r.draft) = {}
              /\ i.attention \cup ({i.respondent} \ {None}) \subseteq i.members \ {i.actor}
              /\ NextMessage(m) /\ Writes(m, r, grant', NewChannel(i.actor, i.kind).next)
              /\ channel' = [channel EXCEPT ![c] = [NewChannel(i.actor, i.kind) EXCEPT !.next = @ + 1]]
              /\ operations' = operations \cup {creation(i.actor, <<"continuation", key>>, c), commitment(t, key, m)}
    /\ RecordAudience
    /\ UNCHANGED <<people, daemon>>

-----------------------------------------------------------------------------
(* Deliveries and responses. *)

\* Each claim mints the token of its number.
claimedRow(row) ==
    [row EXCEPT !.state = "claimed", !.attempt = row.attempt + 1, !.token = row.attempt + 1, !.lease = "running"]

\* Store.ChannelClaim: mints a token and closes the claimant's job.
Claim(a, m) ==
    /\ "claim" \in Calls
    /\ Deliverable(a, m)
    /\ delivery[m][a].state = "queued" \/ (delivery[m][a].state = "claimed" /\ delivery[m][a].lease = "lapsed")
    /\ delivery[m][a].attempt < MaxClaims
    /\ delivery' = [delivery EXCEPT ![m][a] = claimedRow(@)]
    /\ job' = [job EXCEPT ![m][a] = IF @.state = "none" THEN @ ELSE DoneJob(@)]
    /\ UNCHANGED <<channel, operations, grant, people, message, response, daemon, audience>>

\* Store.ChannelDeliveryUpdate "ack", "dead_letter" or "nack", with a token
\* that was once current.  A running lease extended changes nothing here.
DeliveryUpdate(a, m, token, next) ==
    /\ "claim" \in Calls
    /\ Deliverable(a, m)
    /\ token \in 1 .. delivery[m][a].attempt
    /\ finishDeliveryState(delivery[m][a], token, next) = "finish"
    /\ delivery' = [delivery EXCEPT ![m][a] = finishedRow(@, token, next)]
    /\ UNCHANGED <<channel, operations, grant, people, message, response, job, daemon, audience>>

LeaseLapses(a, m) ==
    /\ delivery[m][a].lease = "running"
    /\ delivery' = [delivery EXCEPT ![m][a].lease = "lapsed"]
    /\ UNCHANGED <<channel, operations, grant, people, message, response, job, daemon, audience>>

\* Variant of Resolvable: a request is resolved whatever became of it.
Resolvable_anyState(a, m, verdict) ==
    /\ Visible(a, m) /\ response[m].state # "none"
    /\ verdict = "declined"  => message[m].request.draft.respondent = a
    /\ verdict = "withdrawn" => Author(m) = a

\* The respondent declines, the requester withdraws; both must see the question.
Resolvable(a, m, verdict) ==
    /\ Visible(a, m)
    /\ response[m].state = "open"
    /\ verdict = "declined"  => message[m].request.draft.respondent = a
    /\ verdict = "withdrawn" => Author(m) = a

\* Store.ChannelResponseResolve
Resolve(a, m, verdict) ==
    /\ Resolvable(a, m, verdict)
    /\ response' = [response EXCEPT ![m].state = verdict]
    /\ UNCHANGED <<channel, operations, grant, people, message, delivery, job, daemon, audience>>

-----------------------------------------------------------------------------
(* Managed attention. *)

\* EnableChannelAttention and a live registration; a hello without the
\* capability, ResetChannelAttention, or the end of the registration.
Enable(a) ==
    /\ "attend" \in Calls
    /\ a \notin ready \cup adopted \cup archived
    /\ ready' = ready \cup {a}
    /\ UNCHANGED <<channel, operations, grant, people, rows, worker, preview, crashes, audience>>

Reset(a) ==
    /\ a \in ready
    /\ ready' = ready \ {a}
    /\ UNCHANGED <<channel, operations, grant, people, rows, worker, preview, crashes, audience>>

\* A job that may still wake: its delivery waits and its actor may post.
Wanted(m, a) == delivery[m][a].state = "queued" /\ Entitled(a, m)

\* Store.ClaimManagedNotification
ClaimManagedNotification(m, a) ==
    /\ "attend" \in Calls
    /\ worker.pc = "idle"
    /\ job[m][a].state \in {"pending", "processing"} /\ job[m][a].due
    /\ Wanted(m, a)
    /\ job' = [job EXCEPT ![m][a] = [state |-> "processing", attempt |-> @.attempt + 1, due |-> FALSE]]
    /\ worker' = [pc |-> "claimed", msg |-> m, actor |-> a, attempt |-> job[m][a].attempt + 1]
    /\ UNCHANGED <<channel, operations, grant, people, message, delivery, response, ready, preview, crashes, audience>>

\* Runtime.Notify of a managed message: an adapter is called only for a
\* registration that ManagedNotificationAllowed accepts.
Notify(outcome) ==
    /\ worker.pc = "claimed"
    /\ outcome = "accepted" => worker.actor \in ready /\ Wanted(worker.msg, worker.actor)
    /\ worker' = [pc |-> "notified", msg |-> worker.msg, actor |-> worker.actor,
                  attempt |-> worker.attempt, outcome |-> outcome]
    /\ UNCHANGED <<channel, operations, grant, people, rows, ready, preview, crashes, audience>>

\* UPDATE ... WHERE state = 'managed-processing' AND attempt = ?
finishedJob(j, w, next) ==
    IF j.state = "processing" /\ j.attempt = w.attempt THEN [j EXCEPT !.state = next, !.due = FALSE] ELSE j

\* Store.FinishManagedNotification
FinishManagedNotification ==
    /\ worker.pc = "notified"
    /\ LET next == CASE worker.outcome = "accepted" -> "accepted"
                     [] worker.outcome = "retry" /\ worker.attempt < MaxAttempts -> "pending"
                     [] OTHER -> "done"
       IN  job' = [job EXCEPT ![worker.msg][worker.actor] = finishedJob(@, worker, next)]
    /\ worker' = [pc |-> "idle"]
    /\ UNCHANGED <<channel, operations, grant, people, message, delivery, response, ready, preview, crashes, audience>>

\* Variant of Rearmable: an accepted wake is renewed without end.
Rearmable_always(j) == j.state = "accepted" /\ j.due

\* An accepted wake that nobody followed within the stale interval.
Rearmable(j) == j.state = "accepted" /\ j.due /\ j.attempt < MaxAttempts

\* Store.RearmStaleManagedNotifications, one statement for every stale job.
Rearm ==
    LET stale(m, a) == Rearmable(job[m][a]) /\ a \in ready /\ Wanted(m, a)
    IN  /\ "attend" \in Calls
        /\ \E m \in Messages, a \in Actors : stale(m, a)
        /\ job' = [m \in Messages |-> [a \in Actors |->
                      IF stale(m, a) THEN [job[m][a] EXCEPT !.state = "pending"] ELSE job[m][a]]]
        /\ UNCHANGED <<channel, operations, grant, people, message, delivery, response, daemon, audience>>

\* A backoff ends, a claimed job's 30s or the stale interval passes.
JobDue(m, a) ==
    /\ OpenJob(job[m][a]) /\ ~job[m][a].due
    /\ job' = [job EXCEPT ![m][a].due = TRUE]
    /\ UNCHANGED <<channel, operations, grant, people, message, delivery, response, daemon, audience>>

\* A new process has no job in hand and a new conversation secret.
Crash ==
    /\ crashes < MaxCrashes
    /\ crashes' = crashes + 1
    /\ worker'  = [pc |-> "idle"]
    /\ preview' = {}
    /\ UNCHANGED <<channel, operations, grant, people, rows, ready, audience>>

-----------------------------------------------------------------------------
AudienceStep ==
    \/ \E r \in Creations : CreateChannel(r) \/ FindDirect(r)
    \/ \E creator \in Actors, c \in Channels, a \in Admissible :
          AddMember(creator, c, a) \/ RemoveMember(creator, c, a)
    \/ \E h \in Humans : Enroll(h)
    \/ \E agent \in Supervised, h \in Humans \cup {None} : Supervise(agent, h)
    \/ \E a \in Agents : Adopt(a) \/ Archive(a)

MessageStep ==
    \/ \E draft \in Drafts, revision \in 1 .. MaxRevision : Post([draft |-> draft, revision |-> revision])
    \/ \E t \in Intents : Preflight(t)
    \/ \E t \in preview :
          PreviewExpires(t) \/ \E key \in CommitKeys : ContinueInto(t, key) \/ ContinueNew(t, key)
    \/ \E a \in Actors, m \in Messages :
          \/ Claim(a, m) \/ LeaseLapses(a, m)
          \/ \E token \in 1 .. MaxClaims, next \in {"acked", "dead", "queued"} : DeliveryUpdate(a, m, token, next)
          \/ \E verdict \in {"declined", "withdrawn"} : Resolve(a, m, verdict)

AttentionStep ==
    \/ \E a \in Agents : Enable(a) \/ Reset(a)
    \/ \E m \in Messages, a \in Actors : ClaimManagedNotification(m, a) \/ JobDue(m, a)
    \/ \E outcome \in {"accepted", "retry", "complete"} : Notify(outcome)
    \/ FinishManagedNotification
    \/ Rearm
    \/ Crash

Next == AudienceStep \/ MessageStep \/ AttentionStep

Spec == Init /\ [][Next]_vars

-----------------------------------------------------------------------------
(* Properties. *)

\* "Inspect its participants/observers and policy_revision, then post with
\* expected_policy_revision" (CONVERSATIONS.md): a message was delivered to
\* exactly the participants shown under the revision its author named, however
\* long ago that was and whatever else changed (channelPostTx).
PostReachesShownAudience ==
    \A m \in Messages : Posted(m) =>
        \A seen \in audience :
            seen.channel = Home(m) /\ seen.revision = message[m].request.revision =>
                seen.members = {Author(m)} \cup {a \in Actors : delivery[m][a].state # "none"}

\* "Join-forward" and "regrant never restores revoked history": a message that
\* somebody cannot read stays unreadable to them, through admissions, removals,
\* readmissions and changes of supervisor.
JoinForward ==
    [][\A m \in Messages, a \in Actors :
          Posted(m) /\ ~Visible(a, m) => ~Visible(a, m)']_vars

\* Nothing waits for an actor who can no longer see it: unsettled deliveries,
\* open wakes and open response requests belong to current participants whose
\* history reaches back to the message.
NothingPendsOnTheRemoved ==
    \A m \in Messages, a \in Actors :
        LET pending == \/ Unsettled(delivery[m][a])
                       \/ OpenJob(job[m][a])
                       \/ response[m].state = "open" /\ message[m].request.draft.respondent = a
        IN  pending => Entitled(a, m)

\* "Up to five total attempts" hold for a daemon that stays up: answers, renewals
\* and retries stop at the limit, and each crash with a job in hand adds one
\* (ClaimManagedNotification counts a job that it takes over).
AttemptsAreLimited ==
    \A m \in Messages, a \in Actors : job[m][a].attempt <= MaxAttempts + crashes

\* Answer, refusal, withdrawal and removal exclude each other: a request that
\* is answered has one answer, its respondent's, in its own thread, and one
\* that ended otherwise has none.
AnsweredExactlyOnce ==
    \A q \in Messages :
        LET answers == {m \in Messages : Posted(m) /\ message[m].request.draft.answers = q}
        IN  IF response[q].state = "answered"
            THEN /\ answers = {response[q].answer}
                 /\ Author(response[q].answer) = message[q].request.draft.respondent
                 /\ message[response[q].answer].thread = message[q].thread
            ELSE answers = {}

\* Observers are declared: a human reads a channel without being a participant
\* exactly when it is the current supervisor of a current participant.
ObserversAreDeclared ==
    \A c \in Channels :
        {<<g.actor, g.source>> : g \in {x \in grant : x.channel = c /\ x.source # Member}}
            = {<<link[a].human, a>> : a \in {x \in Participants(c) \cap Agents : link[x].human # None}}

\* A confirmed continuation lands in front of the participants its preview showed,
\* and nobody but them and the shown observers reads the channel; also when the
\* confirmation opens the channel, and however often the token was used before.
ContinuationLandsAsShown ==
    [][\A t \in preview, key \in CommitKeys, m \in Messages :
          commitment(t, key, m) \in operations' \ operations =>
              /\ membersOf(grant', Home(m)')   = t.shown.members
              /\ observersOf(grant', Home(m)') = t.shown.observers \ t.shown.members]_vars

\* An archived actor takes part in no conversation (ArchiveActor's check of the
\* grants against the admissions' check of the archive).
ArchivedIsNoParticipant == \A g \in grant : g.actor \notin archived

-----------------------------------------------------------------------------
(* What a managed delivery looks like to a consumer of the queue. *)

Phase(row) == CASE row.state = "none"                             -> "absent"
                [] row.state = "queued"                           -> "available"
                [] row.state = "claimed" /\ row.lease = "running" -> "held"
                [] row.state = "claimed" /\ row.lease # "running" -> "overdue"
                [] row.state = "revoked"                          -> "withdrawn"
                [] OTHER                                          -> row.state

queueItem(row) == [phase  |-> Phase(row), gen |-> row.attempt,
                   winner |-> IF Settled(row) THEN row.terminal ELSE 0]

Queue == INSTANCE FencedQueue WITH
            Items <- Messages \X Actors,
            item  <- [i \in Messages \X Actors |-> queueItem(delivery[i[1]][i[2]])]

\* Claims, late finishes and removals never let an old claim settle a managed
\* delivery, and neither reopen a settled one nor give back a revoked one.
ManagedDeliveriesAreFenced == Queue!Spec
=============================================================================
