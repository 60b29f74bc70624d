------------------------------ MODULE Routing ------------------------------
(***************************************************************************)
(* Names and routes of the store: actors, durable aliases with their       *)
(* tombstones, and how Send turns what a caller wrote into recipients.     *)
(*                                                                         *)
(* A name on an old-style recipient list is an alias if it ever was one,   *)
(* and an actor otherwise.  Callers repeat requests whose answer they      *)
(* lost, after others have claimed, re-pointed and removed aliases, so     *)
(* every answer must come out of what was stored with the first request.   *)
(*                                                                         *)
(* Each Store method is one transaction, hence one action.  Bodies,        *)
(* threads and projects only take part in the comparison of a repeated     *)
(* request; they are part of its identity here.  A request that is past    *)
(* its own expiry is refused before anything is looked up, and is left     *)
(* out, as are names of humans, which aliases and Send refuse.             *)
(***************************************************************************)
EXTENDS Naturals

CONSTANTS
    Names,            \* what may become an actor or an alias
    None,
    Messages,
    AliasRequests,    \* bound: the set, remove and claim requests
    Sends,            \* bound: the send requests
    Provisional,      \* bound: names that are allocated to a process
    Retirable,        \* bound: actors that are archived or adopted
    MaxRevision       \* bound: revisions of one alias

ASSUME NoneIsNoName     == None \notin Names
ASSUME MaxRevisionIsNat == MaxRevision \in Nat
ASSUME ActorsAreNames   == Provisional \subseteq Names /\ Retirable \subseteq Names

VARIABLES
    known,      \* actor_names table
    reserved,   \* actor_allocations rows that are provisional
    adopted,    \* sources of actor_adoptions
    archived,   \* archived rows of actor_lifecycle
    alias,      \* actor_aliases table
    history,    \* actor_alias_history table
    claims,     \* actor_alias_claim_requests table
    message,    \* messages table, with the deliveries' recipients
    answered    \* history: what the callers of alias requests were told

lifecycle == <<known, reserved, adopted, archived>>
aliases   == <<alias, history, claims, answered>>
routing   == <<lifecycle, aliases, message>>

-----------------------------------------------------------------------------
NoAlias   == [actor |-> None, revision |-> 0]
NoMessage == [request |-> None, routes |-> {}, to |-> {}]

Answer(actor, revision, result) == [actor |-> actor, revision |-> revision, result |-> result]

Route(kind, value) == [kind |-> kind, value |-> value]

Sent(m)   == message[m].request # None
Author(m) == message[m].request.from

\* Every name that is or was an alias.
AliasNames == {h.alias : h \in history}

Targets == {alias[n].actor : n \in Names} \ {None}

\* actorIdentityExistsTx: a provisional name counts.
Existing == known \cup reserved

\* getMessageByIdempotencyTx
Prior(r) == {m \in Messages : Sent(m) /\ Author(m) = r.from /\ message[m].request.key = r.key}

-----------------------------------------------------------------------------
\* The normalized requests: an actor is required, and not taken by a removal.
AliasRequest == {r \in [op : {"set", "remove", "claim"}, by : Names, key : {q.key : q \in AliasRequests},
                        alias : Names, actor : Names \cup {None}] :
                    r.op = "remove" <=> r.actor = None}

\* NormalizeSendRequest: typed routes exclude the others, and there is a route.
SendRequest  == {r \in [from : Names, key : {q.key : q \in Sends}, typed : SUBSET [kind : {"actor", "alias"}, value : Names],
                        plain : SUBSET Names, parent : Messages \cup {None}] :
                    /\ r.typed # {} => r.plain = {} /\ r.parent = None
                    /\ r.typed # {} \/ r.plain # {} \/ r.parent # None}
Replied      == [actor : Names, revision : Nat, result : {"set", "remove", "won", "lost"}]
Posted       == [request : Sends, to : SUBSET Names,
                 routes : SUBSET [kind : {"actor", "alias", "reply"}, value : Names \cup Messages]]

ASSUME RequestsAreTyped == AliasRequests \subseteq AliasRequest /\ Sends \subseteq SendRequest

TypeOK ==
    /\ known    \subseteq Names
    /\ reserved \subseteq Provisional
    /\ adopted  \subseteq Names
    /\ archived \subseteq Names
    /\ alias    \in [Names -> [actor : Names, revision : 1 .. MaxRevision] \cup {NoAlias}]
    /\ history  \subseteq [alias : Names, revision : 1 .. MaxRevision, actor : Names, action : {"set", "remove", "claim"},
                           by : Names, key : {r.key : r \in AliasRequests}]
    /\ claims   \subseteq [request : AliasRequests, answer : Replied]
    /\ answered \subseteq [request : AliasRequests, answer : Replied]
    /\ message  \in [Messages -> Posted \cup {NoMessage}]

Init ==
    /\ known = {} /\ reserved = {} /\ adopted = {} /\ archived = {}
    /\ alias = [n \in Names |-> NoAlias]
    /\ history = {} /\ claims = {} /\ answered = {}
    /\ message = [m \in Messages |-> NoMessage]

-----------------------------------------------------------------------------
(* Actors. *)

\* Variant of Reservable: only a current alias keeps its name.
Reservable_currentOnly(n) == alias[n].actor = None

\* assertActorNameNotAliasTx: a name that ever was an alias stays one.
Reservable(n) == n \notin AliasNames

\* ReserveActorName, and the binding of an actor that is not provisional.
ReserveName(n) ==
    /\ n \notin known
    /\ Reservable(n)
    /\ known' = known \cup {n}
    /\ UNCHANGED <<reserved, adopted, archived, aliases, message>>

\* allocateActorTx for a process that has done nothing yet.
Allocate(n) ==
    /\ n \notin Existing
    /\ Reservable(n)
    /\ reserved' = reserved \cup {n}
    /\ UNCHANGED <<known, adopted, archived, aliases, message>>

\* finalizeActorAllocationTx, before the first operation of the process.
Finalize(n) ==
    /\ n \in reserved
    /\ known'    = known \cup {n}
    /\ reserved' = reserved \ {n}
    /\ UNCHANGED <<adopted, archived, aliases, message>>

\* ReleaseProvisionalActor, when the process ends; mail keeps the name.
Release(n) ==
    /\ n \in reserved
    /\ \A m \in Messages : n \notin message[m].to
    /\ reserved' = reserved \ {n}
    /\ UNCHANGED <<known, adopted, archived, aliases, message>>

\* Store.AdoptActor: the source keeps its name, its aliases and its mail.
Adopt(a) ==
    /\ a \in known \ adopted
    /\ adopted' = adopted \cup {a}
    /\ UNCHANGED <<known, reserved, archived, aliases, message>>

\* Variant of Unaliased: in the transaction, the aliases are not looked at again.
Unaliased_preflightOnly(a) == TRUE

\* The alias check that ArchiveActor's transaction repeats.
Unaliased(a) == a \notin Targets

\* Store.ArchiveActor, its transaction.
Archive(a) ==
    /\ a \in known
    /\ Unaliased(a)
    /\ archived' = archived \cup {a}
    /\ UNCHANGED <<known, reserved, adopted, aliases, message>>

\* Store.RestoreActor
Restore(a) ==
    /\ a \in archived
    /\ archived' = archived \ {a}
    /\ UNCHANGED <<known, reserved, adopted, aliases, message>>

-----------------------------------------------------------------------------
(* Aliases. *)

PriorChange(r) == {h \in history : h.by = r.by /\ h.key = r.key}
PriorClaim(r)  == {c \in claims : c.request.by = r.by /\ c.request.key = r.key}

NextRevision(n) ==
    CHOOSE k \in 1 .. MaxRevision + 1 :
        /\ \A h \in history : h.alias = n => h.revision < k
        /\ k = 1 \/ \E h \in history : h.alias = n /\ h.revision = k - 1

\* RemoveAlias finds the alias.
Removable(n) == alias[n] # NoAlias

\* mutateAlias in the order of its checks.  Only "write" writes.
ChangeOutcome(r) ==
    LET same(h) == h.alias = r.alias /\ h.action = r.op /\ (r.op = "set" => h.actor = r.actor)
    IN  IF \E h \in PriorChange(r) : same(h) THEN "duplicate"
        ELSE IF PriorChange(r) # {} \/ PriorClaim(r) # {} THEN "conflict"
        ELSE IF r.op = "set"
             THEN IF r.alias # r.by /\ r.actor \in Existing \ archived /\ r.alias \notin Existing
                  THEN "write" ELSE "refused"
             ELSE IF Removable(r.alias) THEN "write" ELSE "refused"

\* ClaimAliasIfAbsent in the order of its checks.  A lost claim is stored too.
ClaimOutcome(r) ==
    IF \E c \in PriorClaim(r) : c.request = r THEN "duplicate"
    ELSE IF PriorClaim(r) # {} \/ PriorChange(r) # {} THEN "conflict"
    ELSE IF r.actor \notin Existing \ archived THEN "refused"
    ELSE IF alias[r.alias] # NoAlias THEN "lost"
    ELSE IF r.alias \in AliasNames \cup Existing THEN "refused" ELSE "won"

Record(r, actor, revision) ==
    history' = history \cup {[alias |-> r.alias, revision |-> revision, actor |-> actor, action |-> r.op,
                              by |-> r.by, key |-> r.key]}

Tell(r, answer) == answered' = answered \cup {[request |-> r, answer |-> answer]}

\* Store.SetAlias and Store.RemoveAlias
ChangeAlias(r) ==
    LET revision == NextRevision(r.alias)
        target   == IF r.op = "set" THEN r.actor ELSE alias[r.alias].actor
    IN  /\ r.op \in {"set", "remove"} /\ r.by \in known
        /\ ChangeOutcome(r) = "write"
        /\ revision \in 1 .. MaxRevision
        /\ Record(r, target, revision)
        /\ alias' = [alias EXCEPT ![r.alias] = IF r.op = "set" THEN [actor |-> target, revision |-> revision]
                                               ELSE NoAlias]
        /\ Tell(r, Answer(target, revision, r.op))
        /\ UNCHANGED <<lifecycle, claims, message>>

\* Store.ClaimAliasIfAbsent.  The loser is told who has the alias.
ClaimAlias(r) ==
    LET won    == ClaimOutcome(r) = "won"
        answer == IF won THEN Answer(r.actor, 1, "won")
                  ELSE Answer(alias[r.alias].actor, alias[r.alias].revision, "lost")
    IN  /\ r.op = "claim" /\ r.by \in known
        /\ ClaimOutcome(r) \in {"won", "lost"}
        /\ MaxRevision > 0
        /\ IF won THEN /\ Record(r, r.actor, 1)
                       /\ alias' = [alias EXCEPT ![r.alias] = [actor |-> r.actor, revision |-> 1]]
                  ELSE UNCHANGED <<history, alias>>
        /\ claims' = claims \cup {[request |-> r, answer |-> answer]}
        /\ Tell(r, answer)
        /\ UNCHANGED <<lifecycle, message>>

\* Variant of StoredAnswer: a repeated change is told the alias as it is now.
StoredAnswer_current(r) ==
    IF r.op = "claim" THEN (CHOOSE c \in PriorClaim(r) : TRUE).answer
    ELSE Answer(IF alias[r.alias] = NoAlias THEN r.by ELSE alias[r.alias].actor, alias[r.alias].revision, r.op)

\* What a repeated request is told: the history record or the stored result.
StoredAnswer(r) ==
    IF r.op = "claim" THEN (CHOOSE c \in PriorClaim(r) : TRUE).answer
    ELSE LET h == CHOOSE h \in PriorChange(r) : TRUE IN Answer(h.actor, h.revision, h.action)

\* A repeated alias request writes nothing.
RepeatAlias(r) ==
    /\ IF r.op = "claim" THEN ClaimOutcome(r) = "duplicate" ELSE ChangeOutcome(r) = "duplicate"
    /\ Tell(r, StoredAnswer(r))
    /\ UNCHANGED <<lifecycle, alias, history, claims, message>>

-----------------------------------------------------------------------------
(* Send. *)

\* Variant of classify: an untyped name is an alias while it resolves.
classify_current(n) == Route(IF alias[n] # NoAlias THEN "alias" ELSE "actor", n)

\* classifyLegacyRoutesTx
classify(n) == Route(IF n \in AliasNames THEN "alias" ELSE "actor", n)

\* The routes a request asks for: a reply goes to its parent, whoever sent it.
RequestedRoutes(r) ==
    IF r.parent # None THEN {Route("reply", r.parent)}
    ELSE IF r.typed # {} THEN r.typed
    ELSE {classify(n) : n \in r.plain}

\* EquivalentRequest, of a stored message and a request with its routes.
Equivalent(m, r) ==
    /\ message[m].request.parent = r.parent
    /\ message[m].routes = RequestedRoutes(r)

\* resolveRoutesTx
Resolvable(route) == IF route.kind = "alias" THEN alias[route.value] # NoAlias ELSE route.value \notin AliasNames
Target(route)     == IF route.kind = "alias" THEN alias[route.value].actor ELSE route.value

\* The recipients, and whether the routes lead to them.
Recipients(r) ==
    IF r.parent # None THEN {Author(r.parent)} ELSE {Target(route) : route \in RequestedRoutes(r)}

Routable(r) ==
    IF r.parent = None THEN \A route \in RequestedRoutes(r) : Resolvable(route)
    ELSE /\ \A n \in r.plain : Resolvable(classify(n))
         /\ r.plain = {} \/ {Target(classify(n)) : n \in r.plain} = {Author(r.parent)}

\* Mail of an adopted actor is forwarded, also when it was archived since.
Accepts(a) == a \notin archived \/ a \in adopted

\* Store.Send in the order of its checks.  Only "sent" writes.
SendOutcome(r) ==
    IF r.from \in adopted THEN "adopted"
    ELSE IF r.parent # None /\ ~Sent(r.parent) THEN "refused"
    ELSE IF \E m \in Prior(r) : Equivalent(m, r) THEN "duplicate"
    ELSE IF Prior(r) # {} THEN "conflict"
    ELSE IF Routable(r) /\ \A a \in Recipients(r) : Accepts(a) THEN "sent"
    ELSE "refused"

\* Store.Send by a bound actor.  Its names are reserved with the message.
Send(r, m) ==
    /\ r.from \in known
    /\ SendOutcome(r) = "sent"
    /\ ~Sent(m)
    /\ known'   = known \cup {r.from} \cup Recipients(r)
    /\ message' = [message EXCEPT ![m] = [request |-> r, routes |-> RequestedRoutes(r), to |-> Recipients(r)]]
    /\ UNCHANGED <<reserved, adopted, archived, aliases>>

-----------------------------------------------------------------------------
Next ==
    \/ \E n \in Names : ReserveName(n)
    \/ \E n \in Provisional : Allocate(n) \/ Finalize(n) \/ Release(n)
    \/ \E a \in Retirable : Adopt(a) \/ Archive(a) \/ Restore(a)
    \/ \E r \in AliasRequests : ChangeAlias(r) \/ ClaimAlias(r) \/ RepeatAlias(r)
    \/ \E r \in Sends, m \in Messages : Send(r, m)

Spec == Init /\ [][Next]_routing

-----------------------------------------------------------------------------
(* Properties. *)

\* A name is an actor or an alias, for good: what Send reserves, what hellos
\* reserve and what aliases take never meet, in whatever order they come, or a
\* message would go to somebody else than the name says.
NamesStayDisjoint == Existing \cap AliasNames = {}

\* A sender that lost the answer and repeats its request is given its first
\* message, though aliases were claimed, re-pointed or removed, and recipients
\* archived or adopted, since (Store.Send classifies the names again before it
\* looks the key up).
SendRetryIsRecognised ==
    \A m \in Messages :
        Sent(m) /\ Author(m) \notin adopted => SendOutcome(message[m].request) = "duplicate"

\* "Both winning and losing outcomes are durably idempotent so retry timing
\* cannot change the decision": nobody is ever told two different things about
\* one alias request.
AnswersAreStable ==
    \A x, y \in answered : x.request = y.request => x.answer = y.answer

\* An alias leads to a known actor that is not archived, whichever of archival
\* and alias change comes first (Store.ArchiveActor, mutateAlias).
AliasTargetIsActive ==
    \A n \in Names : alias[n] # NoAlias => alias[n].actor \in known \ archived
=============================================================================
