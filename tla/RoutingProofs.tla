--------------------------- MODULE RoutingProofs ---------------------------
(***************************************************************************)
(* Proofs about Routing, for any names, requests and bounds.               *)
(*                                                                         *)
(* The heart is StoredNames: a name written as an actor is reserved with   *)
(* the message, so it can never become an alias afterwards, and a repeated *)
(* request is classified as it was the first time.                         *)
(***************************************************************************)
EXTENDS Routing, TLAPS

\* An alias that is set has a history.
CurrentHasHistory == \A n \in Names : alias[n] # NoAlias => n \in AliasNames

\* The routes stored for a request are what it asks for, its author and the
\* actors it names are reserved and its parent is stored.
Stored(r, routes) ==
    /\ r.from \in known
    /\ routes = RequestedRoutes(r)
    /\ r.parent = None => \A n \in Names : Route("actor", n) \in routes => n \in known
    /\ r.parent # None => Sent(r.parent)

StoredNames == \A m \in Messages : Sent(m) => Stored(message[m].request, message[m].routes)

\* A change and a claim are stored once under their caller's key.
OneRecordPerKey ==
    \A g, h \in history : g.by = h.by /\ g.key = h.key => g = h

OneClaimPerKey ==
    \A c, d \in claims : c.request.by = d.request.by /\ c.request.key = d.request.key => c = d

\* What was told is what is stored.
ToldIsStored ==
    \A x \in answered :
        /\ x.request.op = "claim" => x \in claims
        /\ x.request.op # "claim" =>
              \E h \in history : /\ h.by = x.request.by /\ h.key = x.request.key
                                 /\ x.answer = Answer(h.actor, h.revision, h.action)

IInv ==
    /\ TypeOK /\ CurrentHasHistory /\ StoredNames
    /\ OneRecordPerKey /\ OneClaimPerKey /\ ToldIsStored

\* The step points an alias at a name that is provisional now.
AimsAtProvisional == \E n \in Names : alias'[n] # alias[n] /\ alias'[n].actor \in reserved

-----------------------------------------------------------------------------
\* An alias request has the fields of AliasRequest, a send those of SendRequest.
LEMMA Requests ==
    /\ \A r \in AliasRequests : r.op \in {"set", "remove", "claim"} /\ r.by \in Names /\ r.alias \in Names
                                /\ r.actor \in Names \cup {None}
    /\ \A r \in Sends : /\ r.from \in Names /\ r.plain \subseteq Names /\ r.parent \in Messages \cup {None}
                        /\ r.typed \subseteq [kind : {"actor", "alias"}, value : Names]
<1>1. \A r \in AliasRequests : r \in AliasRequest
  BY RequestsAreTyped
<1>2. \A r \in Sends : r \in SendRequest
  BY RequestsAreTyped
<1> QED  BY <1>1, <1>2 DEF AliasRequest, SendRequest

\* The initial state satisfies the invariant.
LEMMA InitIInv == Init => IInv
<1> SUFFICES ASSUME Init PROVE IInv
  OBVIOUS
<1>1. AliasNames = {} /\ \A n \in Names : alias[n] = NoAlias
  BY DEF Init, AliasNames
<1>2. \A m \in Messages : message[m] = NoMessage
  BY DEF Init
<1>3. \A m \in Messages : ~Sent(m)
  BY <1>2 DEF Sent, NoMessage
<1>4. TypeOK
  BY DEF Init, TypeOK
<1>5. CurrentHasHistory
  BY <1>1 DEF CurrentHasHistory
<1>6. StoredNames
  BY <1>3 DEF StoredNames
<1>7. OneRecordPerKey /\ OneClaimPerKey /\ ToldIsStored
  BY DEF Init, OneRecordPerKey, OneClaimPerKey, ToldIsStored
<1> QED  BY <1>4, <1>5, <1>6, <1>7 DEF IInv

-----------------------------------------------------------------------------
\* A change records the alias under its caller's key, for the first time; it
\* takes no name of an actor.
LEMMA ChangeFacts ==
    ASSUME TypeOK, CurrentHasHistory, NEW r \in AliasRequests, ChangeAlias(r)
    PROVE  \E target \in Names, revision \in 1 .. MaxRevision :
              /\ PriorChange(r) = {}
              /\ r.alias \notin Existing \/ r.alias \in AliasNames
              /\ r.op = "set" => target = r.actor /\ target \in Existing \ archived
              /\ Record(r, target, revision)
              /\ alias' = [alias EXCEPT ![r.alias] = IF r.op = "set" THEN [actor |-> target, revision |-> revision]
                                                    ELSE NoAlias]
              /\ Tell(r, Answer(target, revision, r.op))
<1> DEFINE target   == IF r.op = "set" THEN r.actor ELSE alias[r.alias].actor
           revision == NextRevision(r.alias)
<1>1. r.op \in {"set", "remove"} /\ ChangeOutcome(r) = "write"
  BY DEF ChangeAlias
<1>2. PriorChange(r) = {}
  BY <1>1 DEF ChangeOutcome
<1>3. r.alias \in Names
  BY Requests
<1>4. /\ target \in Names
      /\ r.alias \notin Existing \/ r.alias \in AliasNames
      /\ r.op = "set" => target = r.actor /\ target \in Existing \ archived
  <2>1. CASE r.op = "set"
    <3>1. r.actor \in Existing \ archived /\ r.alias \notin Existing
      BY <1>1, <1>2, <2>1 DEF ChangeOutcome
    <3> QED  BY <3>1, <2>1, ActorsAreNames DEF Existing, TypeOK
  <2>2. CASE r.op = "remove"
    <3>1. alias[r.alias] # NoAlias
      BY <1>1, <1>2, <2>2 DEF ChangeOutcome, Removable
    <3>2. r.alias \in AliasNames
      BY <3>1, <1>3 DEF CurrentHasHistory
    <3>3. alias[r.alias].actor \in Names
      BY <3>1, <1>3 DEF TypeOK
    <3> QED  BY <3>2, <3>3, <2>2
  <2> QED  BY <2>1, <2>2, <1>1
<1>5. revision \in 1 .. MaxRevision
  BY DEF ChangeAlias
<1>6. /\ Record(r, target, revision)
      /\ Tell(r, Answer(target, revision, r.op))
      /\ alias' = [alias EXCEPT ![r.alias] = IF r.op = "set" THEN [actor |-> target, revision |-> revision]
                                            ELSE NoAlias]
  BY <1>1 DEF ChangeAlias
<1> HIDE DEF target, revision
<1> QED  BY <1>2, <1>4, <1>5, <1>6

\* A claim that wins records the alias under its caller's key, for the first
\* time, and takes no name of an actor; one that loses changes no alias.
LEMMA ClaimFacts ==
    ASSUME TypeOK, NEW r \in AliasRequests, ClaimAlias(r)
    PROVE  \E answer \in Replied :
              /\ PriorClaim(r) = {} /\ PriorChange(r) = {}
              /\ claims' = claims \cup {[request |-> r, answer |-> answer]}
              /\ Tell(r, answer)
              /\ \/ /\ r.op = "claim" /\ r.actor \in Names /\ r.actor \in Existing \ archived
                    /\ r.alias \notin Existing
                    /\ 1 \in 1 .. MaxRevision
                    /\ Record(r, r.actor, 1)
                    /\ alias' = [alias EXCEPT ![r.alias] = [actor |-> r.actor, revision |-> 1]]
                 \/ UNCHANGED <<history, alias>>
<1> DEFINE won    == ClaimOutcome(r) = "won"
           answer == IF won THEN Answer(r.actor, 1, "won")
                     ELSE Answer(alias[r.alias].actor, alias[r.alias].revision, "lost")
<1>1. r.op = "claim" /\ ClaimOutcome(r) \in {"won", "lost"} /\ MaxRevision > 0
  BY DEF ClaimAlias
<1>2. PriorClaim(r) = {} /\ PriorChange(r) = {}
  BY <1>1 DEF ClaimOutcome
<1>3. r.alias \in Names
  BY Requests
<1>4. r.actor \in Names /\ r.actor \in Existing \ archived
  <2>1. r.actor \in Existing \ archived
    BY <1>1, <1>2 DEF ClaimOutcome
  <2> QED  BY <2>1, ActorsAreNames DEF Existing, TypeOK
<1>5. 1 \in 1 .. MaxRevision
  BY <1>1, MaxRevisionIsNat
<1>6. CASE won
  <2>1. r.alias \notin Existing
    BY <1>6, <1>2 DEF ClaimOutcome
  <2>2. answer \in Replied
    BY <1>6, <1>4 DEF Answer, Replied
  <2>3. /\ claims' = claims \cup {[request |-> r, answer |-> answer]}
        /\ Tell(r, answer)
        /\ Record(r, r.actor, 1)
        /\ alias' = [alias EXCEPT ![r.alias] = [actor |-> r.actor, revision |-> 1]]
    BY <1>6 DEF ClaimAlias
  <2> HIDE DEF answer, won
  <2> QED  BY <1>1, <1>2, <1>4, <1>5, <2>1, <2>2, <2>3
<1>7. CASE ~won
  <2>1. alias[r.alias] # NoAlias
    BY <1>7, <1>1, <1>2 DEF ClaimOutcome
  <2>2. alias[r.alias] \in [actor : Names, revision : 1 .. MaxRevision]
    BY <2>1, <1>3 DEF TypeOK
  <2>3. answer \in Replied
    BY <1>7, <2>2, MaxRevisionIsNat DEF Answer, Replied
  <2>4. /\ claims' = claims \cup {[request |-> r, answer |-> answer]}
        /\ Tell(r, answer)
        /\ UNCHANGED <<history, alias>>
    BY <1>7 DEF ClaimAlias
  <2> HIDE DEF answer, won
  <2> QED  BY <1>2, <2>3, <2>4
<1> QED  BY <1>6, <1>7

\* What a repeated request is told is in the tables.
LEMMA RepeatFacts ==
    ASSUME TypeOK, OneClaimPerKey, NEW r \in AliasRequests, RepeatAlias(r)
    PROVE  /\ r.op = "claim" => [request |-> r, answer |-> StoredAnswer(r)] \in claims
           /\ r.op # "claim" => \E h \in PriorChange(r) : StoredAnswer(r) = Answer(h.actor, h.revision, h.action)
<1>1. CASE r.op = "claim"
  <2>1. PICK c \in PriorClaim(r) : c.request = r
    BY <1>1 DEF RepeatAlias, ClaimOutcome
  <2> DEFINE d == CHOOSE d \in PriorClaim(r) : TRUE
  <2>2. d \in PriorClaim(r)
    BY <2>1
  <2>3. d = c
    BY <2>1, <2>2 DEF OneClaimPerKey, PriorClaim
  <2>4. StoredAnswer(r) = c.answer
    BY <2>3, <1>1 DEF StoredAnswer
  <2>5. c \in claims /\ c = [request |-> c.request, answer |-> c.answer]
    BY DEF PriorClaim, TypeOK
  <2> QED  BY <2>1, <2>4, <2>5, <1>1
<1>2. CASE r.op # "claim"
  <2>1. \E h \in PriorChange(r) : TRUE
    BY <1>2 DEF RepeatAlias, ChangeOutcome
  <2> DEFINE h == CHOOSE h \in PriorChange(r) : TRUE
  <2>2. h \in PriorChange(r)
    BY <2>1
  <2>3. StoredAnswer(r) = Answer(h.actor, h.revision, h.action)
    BY <1>2 DEF StoredAnswer
  <2> QED  BY <2>2, <2>3, <1>2
<1> QED  BY <1>1, <1>2

-----------------------------------------------------------------------------
\* The steps that are neither alias requests nor messages leave those tables be.
Named ==
    \/ \E n \in Names : ReserveName(n)
    \/ \E n \in Provisional : Allocate(n) \/ Finalize(n) \/ Release(n)
    \/ \E a \in Retirable : Adopt(a) \/ Archive(a) \/ Restore(a)

\* No name is lost but a released one, and a new one is no alias.
LEMMA NamedFacts ==
    ASSUME TypeOK, Named
    PROVE  /\ UNCHANGED <<alias, history, claims, answered, message>>
           /\ known \subseteq known' /\ known' \subseteq Names
           /\ reserved' \subseteq Provisional /\ adopted' \subseteq Names /\ archived' \subseteq Names
           /\ \A n \in Existing' : n \in Existing \/ n \notin AliasNames
           /\ \A n \in archived' : n \in archived \/ n \notin Targets
<1> USE ActorsAreNames DEF TypeOK, Existing, aliases
<1>1. CASE \E n \in Names : ReserveName(n)
  BY <1>1 DEF ReserveName, Reservable
<1>2. CASE \E n \in Provisional : Allocate(n)
  BY <1>2 DEF Allocate, Reservable
<1>3. CASE \E n \in Provisional : Finalize(n)
  BY <1>3 DEF Finalize
<1>4. CASE \E n \in Provisional : Release(n)
  BY <1>4 DEF Release
<1>5. CASE \E a \in Retirable : Adopt(a)
  BY <1>5 DEF Adopt
<1>6. CASE \E a \in Retirable : Archive(a)
  BY <1>6 DEF Archive, Unaliased
<1>7. CASE \E a \in Retirable : Restore(a)
  BY <1>7 DEF Restore
<1> QED  BY <1>1, <1>2, <1>3, <1>4, <1>5, <1>6, <1>7 DEF Named

\* What a message writes: the routes asked for, and the names they lead to.
LEMMA SendFacts ==
    ASSUME TypeOK, NEW r \in Sends, NEW m \in Messages, Send(r, m)
    PROVE  /\ UNCHANGED <<reserved, adopted, archived, aliases>>
           /\ ~Sent(m)
           /\ message' = [message EXCEPT ![m] = [request |-> r, routes |-> RequestedRoutes(r), to |-> Recipients(r)]]
           /\ known' = known \cup {r.from} \cup Recipients(r)
           /\ r.from \in known /\ Recipients(r) \subseteq Names
           /\ r.parent # None => Sent(r.parent)
           /\ r.parent = None => \A route \in RequestedRoutes(r) : Resolvable(route) /\ Target(route) \in Recipients(r)
           /\ r.parent = None => \A route \in RequestedRoutes(r) : route.kind \in {"actor", "alias"} /\ route.value \in Names
<1>1. r.from \in known /\ ~Sent(m) /\ SendOutcome(r) = "sent"
  BY DEF Send
<1>2. Routable(r) /\ (r.parent # None => Sent(r.parent))
  BY <1>1 DEF SendOutcome
<1>3. r.parent = None => \A route \in RequestedRoutes(r) : route.kind \in {"actor", "alias"} /\ route.value \in Names
  <2> SUFFICES ASSUME r.parent = None, NEW route \in RequestedRoutes(r)
               PROVE  route.kind \in {"actor", "alias"} /\ route.value \in Names
    OBVIOUS
  <2>1. CASE r.typed # {}
    BY <2>1, Requests DEF RequestedRoutes
  <2>2. CASE r.typed = {}
    <3>1. PICK n \in r.plain : route = classify(n)
      BY <2>2 DEF RequestedRoutes
    <3> QED  BY <3>1, Requests DEF classify, Route
  <2> QED  BY <2>1, <2>2
<1>4. r.parent = None => \A route \in RequestedRoutes(r) : Resolvable(route) /\ Target(route) \in Recipients(r)
  BY <1>2 DEF Routable, Recipients
<1>5. Recipients(r) \subseteq Names
  <2>1. CASE r.parent # None
    <3>1. r.parent \in Messages /\ Sent(r.parent)
      BY <2>1, <1>2, Requests
    <3>2. message[r.parent] \in Posted
      BY <3>1 DEF TypeOK, Sent, NoMessage
    <3>3. Author(r.parent) \in Names
      BY <3>2, Requests DEF Posted, Author
    <3> QED  BY <2>1, <3>3 DEF Recipients
  <2>2. CASE r.parent = None
    <3> SUFFICES ASSUME NEW route \in RequestedRoutes(r) PROVE Target(route) \in Names
      BY <2>2 DEF Recipients
    <3>1. route.kind \in {"actor", "alias"} /\ route.value \in Names /\ Resolvable(route)
      BY <1>3, <1>4, <2>2
    <3>2. CASE route.kind = "alias"
      BY <3>1, <3>2 DEF Resolvable, Target, TypeOK
    <3>3. CASE route.kind # "alias"
      BY <3>1, <3>3 DEF Target
    <3> QED  BY <3>2, <3>3
  <2> QED  BY <2>1, <2>2
<1>6. /\ UNCHANGED <<reserved, adopted, archived, aliases>>
      /\ message' = [message EXCEPT ![m] = [request |-> r, routes |-> RequestedRoutes(r), to |-> Recipients(r)]]
      /\ known' = known \cup {r.from} \cup Recipients(r)
  BY DEF Send
<1> QED  BY <1>1, <1>2, <1>3, <1>4, <1>5, <1>6

-----------------------------------------------------------------------------
\* Every step is one of these.
LEMMA Steps ==
    ASSUME [Next]_routing
    PROVE  \/ Named
           \/ \E r \in AliasRequests : ChangeAlias(r)
           \/ \E r \in AliasRequests : ClaimAlias(r)
           \/ \E r \in AliasRequests : RepeatAlias(r)
           \/ \E r \in Sends, m \in Messages : Send(r, m)
           \/ UNCHANGED routing
BY DEF Next, Named

\* The rows keep their types.
LEMMA TypeStep == IInv /\ [Next]_routing => TypeOK'
<1> SUFFICES ASSUME IInv, [Next]_routing PROVE TypeOK'
  OBVIOUS
<1> USE DEF IInv
<1>1. CASE Named
  <2>1. /\ UNCHANGED <<alias, history, claims, answered, message>>
        /\ known' \subseteq Names /\ reserved' \subseteq Provisional /\ adopted' \subseteq Names /\ archived' \subseteq Names
    BY <1>1, NamedFacts
  <2> QED  BY <2>1 DEF TypeOK
<1>2. ASSUME NEW r \in AliasRequests, ChangeAlias(r) PROVE TypeOK'
  <2>1. PICK target \in Names, revision \in 1 .. MaxRevision :
              /\ Record(r, target, revision)
              /\ alias' = [alias EXCEPT ![r.alias] = IF r.op = "set" THEN [actor |-> target, revision |-> revision]
                                                    ELSE NoAlias]
              /\ Tell(r, Answer(target, revision, r.op))
    BY <1>2, ChangeFacts
  <2>2. UNCHANGED <<known, reserved, adopted, archived, claims, message>> /\ r.op \in {"set", "remove"}
    BY <1>2 DEF ChangeAlias, lifecycle
  <2>3. alias' \in [Names -> [actor : Names, revision : 1 .. MaxRevision] \cup {NoAlias}]
    BY <2>1, Requests DEF TypeOK
  <2>4. history' \subseteq [alias : Names, revision : 1 .. MaxRevision, actor : Names, action : {"set", "remove", "claim"},
                           by : Names, key : {q.key : q \in AliasRequests}]
    BY <2>1, Requests DEF TypeOK, Record
  <2>5. Answer(target, revision, r.op) \in Replied
    BY <2>2, MaxRevisionIsNat DEF Answer, Replied
  <2>6. answered' \subseteq [request : AliasRequests, answer : Replied]
    BY <2>1, <2>5 DEF TypeOK, Tell
  <2> QED  BY <2>2, <2>3, <2>4, <2>6 DEF TypeOK
<1>3. ASSUME NEW r \in AliasRequests, ClaimAlias(r) PROVE TypeOK'
  <2>1. PICK answer \in Replied :
              /\ claims' = claims \cup {[request |-> r, answer |-> answer]}
              /\ Tell(r, answer)
              /\ \/ /\ r.actor \in Names
                    /\ 1 \in 1 .. MaxRevision
                    /\ Record(r, r.actor, 1)
                    /\ alias' = [alias EXCEPT ![r.alias] = [actor |-> r.actor, revision |-> 1]]
                 \/ UNCHANGED <<history, alias>>
    BY <1>3, ClaimFacts
  <2>2. UNCHANGED <<known, reserved, adopted, archived, message>>
    BY <1>3 DEF ClaimAlias, lifecycle
  <2>3. alias' \in [Names -> [actor : Names, revision : 1 .. MaxRevision] \cup {NoAlias}]
    BY <2>1, Requests DEF TypeOK
  <2>4. history' \subseteq [alias : Names, revision : 1 .. MaxRevision, actor : Names, action : {"set", "remove", "claim"},
                           by : Names, key : {q.key : q \in AliasRequests}]
    BY <2>1, Requests DEF TypeOK, Record
  <2>5. /\ answered' \subseteq [request : AliasRequests, answer : Replied]
        /\ claims' \subseteq [request : AliasRequests, answer : Replied]
    BY <2>1 DEF TypeOK, Tell
  <2> QED  BY <2>2, <2>3, <2>4, <2>5 DEF TypeOK
<1>4. ASSUME NEW r \in AliasRequests, RepeatAlias(r) PROVE TypeOK'
  <2>1. UNCHANGED <<known, reserved, adopted, archived, alias, history, claims, message>> /\ Tell(r, StoredAnswer(r))
    BY <1>4 DEF RepeatAlias, lifecycle
  <2>2. StoredAnswer(r) \in Replied
    <3>1. CASE r.op = "claim"
      BY <3>1, <1>4, RepeatFacts DEF TypeOK
    <3>2. CASE r.op # "claim"
      <4>1. PICK h \in PriorChange(r) : StoredAnswer(r) = Answer(h.actor, h.revision, h.action)
        BY <3>2, <1>4, RepeatFacts
      <4>2. h \in history /\ h.actor \in Names /\ h.revision \in Nat
        BY MaxRevisionIsNat DEF PriorChange, TypeOK
      <4>3. h.action \in {"set", "remove"}
        <5>1. PICK g \in PriorChange(r) : g.action = r.op
          <6>1. ChangeOutcome(r) = "duplicate"
            BY <3>2, <1>4 DEF RepeatAlias
          <6> QED  BY <6>1 DEF ChangeOutcome
        <5>2. g = h
          BY <4>2 DEF OneRecordPerKey, PriorChange
        <5> QED  BY <5>1, <5>2, <3>2, Requests
      <4> QED  BY <4>1, <4>2, <4>3 DEF Answer, Replied
    <3> QED  BY <3>1, <3>2
  <2> QED  BY <2>1, <2>2 DEF TypeOK, Tell
<1>5. ASSUME NEW r \in Sends, NEW m \in Messages, Send(r, m) PROVE TypeOK'
  <2>1. /\ UNCHANGED <<reserved, adopted, archived, alias, history, claims, answered>>
        /\ message' = [message EXCEPT ![m] = [request |-> r, routes |-> RequestedRoutes(r), to |-> Recipients(r)]]
        /\ known' = known \cup {r.from} \cup Recipients(r) /\ r.from \in known /\ Recipients(r) \subseteq Names
    BY <1>5, SendFacts DEF aliases
  <2>2. RequestedRoutes(r) \subseteq [kind : {"actor", "alias", "reply"}, value : Names \cup Messages]
    BY Requests DEF RequestedRoutes, Route, classify
  <2>3. message' \in [Messages -> Posted \cup {NoMessage}]
    BY <2>1, <2>2 DEF TypeOK, Posted
  <2> QED  BY <2>1, <2>3 DEF TypeOK
<1>6. CASE UNCHANGED routing
  BY <1>6 DEF TypeOK, routing, lifecycle, aliases
<1> QED  BY <1>1, <1>2, <1>3, <1>4, <1>5, <1>6, Steps

\* A record adds its alias to the names that are or were aliases.
LEMMA RecordedName ==
    ASSUME NEW r, NEW actor, NEW revision, Record(r, actor, revision)
    PROVE  AliasNames' = AliasNames \cup {r.alias} /\ history \subseteq history'
<1> DEFINE g == [alias |-> r.alias, revision |-> revision, actor |-> actor, action |-> r.op, by |-> r.by, key |-> r.key]
<1>1. history' = history \cup {g} /\ g.alias = r.alias
  BY DEF Record
<1> HIDE DEF g
<1> QED  BY <1>1 DEF AliasNames

\* What is set has a history, which only grows.
LEMMA HistoryStep ==
    IInv /\ [Next]_routing => CurrentHasHistory' /\ history \subseteq history'
<1> SUFFICES ASSUME IInv, [Next]_routing PROVE CurrentHasHistory' /\ history \subseteq history'
  OBVIOUS
<1> USE DEF IInv
<1>1. ASSUME NEW r \in AliasRequests, ChangeAlias(r) PROVE CurrentHasHistory' /\ history \subseteq history'
  <2>1. PICK target \in Names, revision \in 1 .. MaxRevision :
              /\ Record(r, target, revision)
              /\ alias' = [alias EXCEPT ![r.alias] = IF r.op = "set" THEN [actor |-> target, revision |-> revision]
                                                    ELSE NoAlias]
    BY <1>1, ChangeFacts
  <2>2. AliasNames' = AliasNames \cup {r.alias} /\ history \subseteq history'
    BY <2>1, RecordedName
  <2> QED  BY <2>1, <2>2, Requests DEF CurrentHasHistory, TypeOK
<1>2. ASSUME NEW r \in AliasRequests, ClaimAlias(r) PROVE CurrentHasHistory' /\ history \subseteq history'
  <2>1. CASE UNCHANGED <<history, alias>>
    BY <2>1 DEF CurrentHasHistory, AliasNames
  <2>2. CASE ~UNCHANGED <<history, alias>>
    <3>1. Record(r, r.actor, 1) /\ alias' = [alias EXCEPT ![r.alias] = [actor |-> r.actor, revision |-> 1]]
      BY <1>2, <2>2, ClaimFacts
    <3>2. AliasNames' = AliasNames \cup {r.alias} /\ history \subseteq history'
      BY <3>1, RecordedName
    <3> QED  BY <3>1, <3>2, Requests DEF CurrentHasHistory, TypeOK
  <2> QED  BY <2>1, <2>2
<1>3. CASE UNCHANGED <<history, alias>>
  BY <1>3 DEF CurrentHasHistory, AliasNames
<1>4. CASE Named
  BY <1>3, <1>4, NamedFacts
<1>5. ASSUME NEW r \in AliasRequests, RepeatAlias(r) PROVE UNCHANGED <<history, alias>>
  BY <1>5 DEF RepeatAlias
<1>6. ASSUME NEW r \in Sends, NEW m \in Messages, Send(r, m) PROVE UNCHANGED <<history, alias>>
  BY <1>6 DEF Send, aliases
<1>7. UNCHANGED routing => UNCHANGED <<history, alias>>
  BY DEF routing, aliases
<1> QED  BY <1>1, <1>2, <1>3, <1>4, <1>5, <1>6, <1>7, Steps

\* A name of an actor never turns into an alias.
LEMMA ActorsStayActors ==
    IInv /\ [Next]_routing => /\ known \subseteq known'
                             /\ AliasNames \subseteq AliasNames'
                             /\ \A n \in AliasNames' : n \in AliasNames \/ n \notin Existing
<1> SUFFICES ASSUME IInv, [Next]_routing
             PROVE  /\ known \subseteq known' /\ AliasNames \subseteq AliasNames'
                    /\ \A n \in AliasNames' : n \in AliasNames \/ n \notin Existing
  OBVIOUS
<1> USE DEF IInv
<1>1. AliasNames \subseteq AliasNames'
  BY HistoryStep DEF AliasNames
<1>2. ASSUME NEW r \in AliasRequests, ChangeAlias(r)
      PROVE  known \subseteq known' /\ \A n \in AliasNames' : n \in AliasNames \/ n \notin Existing
  <2>1. PICK target \in Names, revision \in 1 .. MaxRevision :
              Record(r, target, revision) /\ (r.alias \notin Existing \/ r.alias \in AliasNames)
    BY <1>2, ChangeFacts
  <2>2. AliasNames' = AliasNames \cup {r.alias}
    BY <2>1, RecordedName
  <2> QED  BY <1>2, <2>1, <2>2 DEF ChangeAlias, lifecycle
<1>3. ASSUME NEW r \in AliasRequests, ClaimAlias(r)
      PROVE  known \subseteq known' /\ \A n \in AliasNames' : n \in AliasNames \/ n \notin Existing
  <2>1. CASE UNCHANGED history
    BY <1>3, <2>1 DEF ClaimAlias, lifecycle, AliasNames
  <2>2. CASE ~UNCHANGED history
    <3>1. Record(r, r.actor, 1) /\ r.alias \notin Existing
      BY <1>3, <2>2, ClaimFacts
    <3>2. AliasNames' = AliasNames \cup {r.alias}
      BY <3>1, RecordedName
    <3> QED  BY <1>3, <3>1, <3>2 DEF ClaimAlias, lifecycle
  <2> QED  BY <2>1, <2>2
<1>4. CASE Named
  BY <1>4, NamedFacts DEF AliasNames
<1>5. ASSUME NEW r \in AliasRequests, RepeatAlias(r)
      PROVE  known \subseteq known' /\ AliasNames' = AliasNames
  BY <1>5 DEF RepeatAlias, AliasNames, lifecycle
<1>6. ASSUME NEW r \in Sends, NEW m \in Messages, Send(r, m)
      PROVE  known \subseteq known' /\ AliasNames' = AliasNames
  BY <1>6 DEF Send, AliasNames, aliases
<1>7. CASE UNCHANGED routing
  BY <1>7 DEF routing, lifecycle, aliases, AliasNames
<1> QED  BY <1>1, <1>2, <1>3, <1>4, <1>5, <1>6, <1>7, Steps

\* A request is classified again as it was before, if its names are taken.
LEMMA SameRoutes ==
    ASSUME IInv, [Next]_routing, NEW r \in Sends,
           r.parent = None => \A n \in Names : Route("actor", n) \in RequestedRoutes(r) => n \in known
    PROVE  RequestedRoutes(r)' = RequestedRoutes(r)
<1>1. CASE r.parent # None \/ r.typed # {}
  BY <1>1 DEF RequestedRoutes, Route
<1>2. CASE r.parent = None /\ r.typed = {}
  <2>1. RequestedRoutes(r) = {classify(n) : n \in r.plain} /\ RequestedRoutes(r)' = {classify(n)' : n \in r.plain}
    BY <1>2 DEF RequestedRoutes
  <2>2. ASSUME NEW n \in r.plain PROVE classify(n)' = classify(n)
    <3>1. CASE n \in AliasNames
      BY <3>1, ActorsStayActors DEF classify, Route
    <3>2. CASE n \notin AliasNames
      <4>1. Route("actor", n) \in RequestedRoutes(r)
        BY <2>1, <3>2 DEF classify
      <4>2. n \in known
        BY <4>1, <1>2, Requests
      <4>3. n \notin AliasNames'
        BY <4>2, <3>2, ActorsStayActors DEF Existing
      <4> QED  BY <3>2, <4>3 DEF classify, Route
    <3> QED  BY <3>1, <3>2
  <2> QED  BY <2>1, <2>2
<1> QED  BY <1>1, <1>2

\* What is stored for a request stays what it asks for.
LEMMA StillStored ==
    ASSUME IInv, [Next]_routing, \A k \in Messages : Sent(k) => Sent(k)',
           NEW r \in Sends, NEW routes, Stored(r, routes)
    PROVE  Stored(r, routes)'
<1>1. RequestedRoutes(r)' = RequestedRoutes(r)
  BY SameRoutes DEF Stored
<1>2. known \subseteq known' /\ (r.parent # None => r.parent \in Messages)
  BY ActorsStayActors, Requests
<1> QED  BY <1>1, <1>2 DEF Stored

\* Every step leaves what Stored says of each stored message as it is.
LEMMA StoredStep == IInv /\ [Next]_routing => StoredNames'
<1> SUFFICES ASSUME IInv, [Next]_routing PROVE StoredNames'
  OBVIOUS
<1> USE DEF IInv
<1>1. ASSUME NEW m \in Messages, Sent(m)', message'[m] = message[m],
             \A k \in Messages : Sent(k) => Sent(k)'
      PROVE  Stored(message[m].request, message[m].routes)'
  <2>1. Sent(m)
    BY <1>1 DEF Sent
  <2>2. message[m].request \in Sends
    BY <2>1 DEF TypeOK, Posted, Sent, NoMessage
  <2>3. PICK r \in Sends : r = message[m].request
    BY <2>2
  <2>4. PICK routes : routes = message[m].routes
    OBVIOUS
  <2>5. Stored(r, routes)
    BY <2>1, <2>3, <2>4 DEF StoredNames
  <2>6. Stored(r, routes)'
    BY <1>1, <2>5, StillStored
  <2> QED  BY <1>1, <2>3, <2>4, <2>6
<1>2. CASE UNCHANGED message
  <2>1. \A k \in Messages : (Sent(k) <=> Sent(k)') /\ message'[k] = message[k]
    BY <1>2 DEF Sent
  <2> QED  BY <1>1, <2>1 DEF StoredNames
<1>3. ASSUME NEW r \in Sends, NEW m \in Messages, Send(r, m) PROVE StoredNames'
  <2>1. /\ ~Sent(m)
        /\ message' = [message EXCEPT ![m] = [request |-> r, routes |-> RequestedRoutes(r), to |-> Recipients(r)]]
        /\ Recipients(r) \subseteq known' /\ r.from \in known'
        /\ r.parent # None => Sent(r.parent)
        /\ r.parent = None => \A route \in RequestedRoutes(r) : Target(route) \in Recipients(r)
        /\ UNCHANGED aliases
    BY <1>3, SendFacts
  <2>2. \A k \in Messages : k # m => message'[k] = message[k]
    BY <2>1 DEF TypeOK
  <2>3. message'[m] = [request |-> r, routes |-> RequestedRoutes(r), to |-> Recipients(r)]
    BY <2>1 DEF TypeOK
  <2>4. \A k \in Messages : Sent(k) => k # m /\ Sent(k)'
    BY <2>1, <2>2 DEF Sent
  <2>5. RequestedRoutes(r)' = RequestedRoutes(r)
    BY <2>1 DEF RequestedRoutes, classify, Route, AliasNames, aliases
  <2>6. r.parent = None => \A n \in Names : Route("actor", n) \in RequestedRoutes(r) => n \in known'
    <3> SUFFICES ASSUME r.parent = None, NEW n \in Names, Route("actor", n) \in RequestedRoutes(r) PROVE n \in known'
      OBVIOUS
    <3>1. Target(Route("actor", n)) = n
      BY DEF Target, Route
    <3> QED  BY <2>1, <3>1
  <2>7. r.parent # None => Sent(r.parent)'
    BY <2>1, <2>4, Requests
  <2>8. ASSUME NEW routes, routes = RequestedRoutes(r) PROVE Stored(r, routes)'
    BY <2>1, <2>5, <2>6, <2>7, <2>8 DEF Stored
  <2>9. Stored(message[m].request, message[m].routes)'
    BY <2>3, <2>8
  <2>10. ASSUME NEW k \in Messages, k # m, Sent(k)' PROVE Stored(message[k].request, message[k].routes)'
    BY <1>1, <2>2, <2>4, <2>10
  <2> QED  BY <2>9, <2>10 DEF StoredNames
<1>4. CASE Named
  BY <1>2, <1>4, NamedFacts
<1>5. ASSUME NEW r \in AliasRequests, ChangeAlias(r) \/ ClaimAlias(r) \/ RepeatAlias(r) PROVE UNCHANGED message
  BY <1>5 DEF ChangeAlias, ClaimAlias, RepeatAlias
<1>6. UNCHANGED routing => UNCHANGED message
  BY DEF routing
<1> QED  BY <1>2, <1>3, <1>4, <1>5, <1>6, Steps

\* Under one key there is one change and one claim, and what is told is stored.
LEMMA KeysStep == IInv /\ [Next]_routing => OneRecordPerKey' /\ OneClaimPerKey' /\ ToldIsStored'
<1> SUFFICES ASSUME IInv, [Next]_routing PROVE OneRecordPerKey' /\ OneClaimPerKey' /\ ToldIsStored'
  OBVIOUS
<1> USE DEF IInv
<1>1. ASSUME NEW r \in AliasRequests, ChangeAlias(r)
      PROVE  OneRecordPerKey' /\ OneClaimPerKey' /\ ToldIsStored'
  <2>1. PICK target \in Names, revision \in 1 .. MaxRevision :
              PriorChange(r) = {} /\ Record(r, target, revision) /\ Tell(r, Answer(target, revision, r.op))
    BY <1>1, ChangeFacts
  <2>2. r.op # "claim" /\ UNCHANGED claims
    BY <1>1 DEF ChangeAlias
  <2> DEFINE g == [alias |-> r.alias, revision |-> revision, actor |-> target, action |-> r.op, by |-> r.by, key |-> r.key]
  <2>3. history' = history \cup {g} /\ g.by = r.by /\ g.key = r.key
    BY <2>1 DEF Record
  <2>4. Answer(target, revision, r.op) = Answer(g.actor, g.revision, g.action)
    OBVIOUS
  <2>5. answered' = answered \cup {[request |-> r, answer |-> Answer(target, revision, r.op)]}
    BY <2>1 DEF Tell
  <2> HIDE DEF g
  <2>6. \A h \in history : h.by # r.by \/ h.key # r.key
    BY <2>1 DEF PriorChange
  <2>7. OneRecordPerKey'
    BY <2>3, <2>6 DEF OneRecordPerKey
  <2>8. OneClaimPerKey'
    BY <2>2 DEF OneClaimPerKey
  <2>9. ToldIsStored'
    BY <2>2, <2>3, <2>4, <2>5 DEF ToldIsStored
  <2> QED  BY <2>7, <2>8, <2>9
<1>2. ASSUME NEW r \in AliasRequests, ClaimAlias(r)
      PROVE  OneRecordPerKey' /\ OneClaimPerKey' /\ ToldIsStored'
  <2>1. PICK answer \in Replied :
              /\ PriorClaim(r) = {} /\ PriorChange(r) = {}
              /\ claims' = claims \cup {[request |-> r, answer |-> answer]}
              /\ Tell(r, answer)
              /\ UNCHANGED history \/ Record(r, r.actor, 1)
    BY <1>2, ClaimFacts
  <2>2. r.op = "claim"
    BY <1>2 DEF ClaimAlias
  <2>3. answered' = answered \cup {[request |-> r, answer |-> answer]}
    BY <2>1 DEF Tell
  <2>4. OneClaimPerKey'
    BY <2>1 DEF OneClaimPerKey, PriorClaim
  <2>5. OneRecordPerKey' /\ history \subseteq history'
    <3>1. CASE UNCHANGED history
      BY <3>1 DEF OneRecordPerKey
    <3>2. CASE Record(r, r.actor, 1)
      <4> DEFINE g == [alias |-> r.alias, revision |-> 1, actor |-> r.actor, action |-> r.op, by |-> r.by, key |-> r.key]
      <4>1. history' = history \cup {g} /\ g.by = r.by /\ g.key = r.key
        BY <3>2 DEF Record
      <4>2. \A h \in history : h.by # r.by \/ h.key # r.key
        BY <2>1 DEF PriorChange
      <4> HIDE DEF g
      <4> QED  BY <4>1, <4>2 DEF OneRecordPerKey
    <3> QED  BY <2>1, <3>1, <3>2
  <2>6. ToldIsStored'
    BY <2>1, <2>2, <2>3, <2>5 DEF ToldIsStored
  <2> QED  BY <2>4, <2>5, <2>6
<1>3. ASSUME NEW r \in AliasRequests, RepeatAlias(r)
      PROVE  OneRecordPerKey' /\ OneClaimPerKey' /\ ToldIsStored'
  <2>1. UNCHANGED <<history, claims>> /\ answered' = answered \cup {[request |-> r, answer |-> StoredAnswer(r)]}
    BY <1>3 DEF RepeatAlias, Tell
  <2>2. /\ r.op = "claim" => [request |-> r, answer |-> StoredAnswer(r)] \in claims
        /\ r.op # "claim" => \E h \in history : /\ h.by = r.by /\ h.key = r.key
                                               /\ StoredAnswer(r) = Answer(h.actor, h.revision, h.action)
    BY <1>3, RepeatFacts DEF PriorChange
  <2>3. OneRecordPerKey' /\ OneClaimPerKey'
    BY <2>1 DEF OneRecordPerKey, OneClaimPerKey
  <2>4. ToldIsStored'
    BY <2>1, <2>2 DEF ToldIsStored
  <2> QED  BY <2>3, <2>4
<1>4. CASE UNCHANGED <<history, claims, answered>>
  BY <1>4 DEF OneRecordPerKey, OneClaimPerKey, ToldIsStored
<1>5. CASE Named
  BY <1>4, <1>5, NamedFacts
<1>6. ASSUME NEW r \in Sends, NEW m \in Messages, Send(r, m) PROVE UNCHANGED <<history, claims, answered>>
  BY <1>6 DEF Send, aliases
<1>7. UNCHANGED routing => UNCHANGED <<history, claims, answered>>
  BY DEF routing, aliases
<1> QED  BY <1>1, <1>2, <1>3, <1>4, <1>5, <1>6, <1>7, Steps

\* The invariant, for all behaviours.
THEOREM Invariance == Spec => []IInv
<1>1. IInv /\ [Next]_routing => IInv'
  BY TypeStep, HistoryStep, StoredStep, KeysStep DEF IInv
<1> QED  BY <1>1, InitIInv, PTL DEF Spec

-----------------------------------------------------------------------------
\* Every row, route and answer has its type.
THEOREM TypeCorrect == Spec => []TypeOK
<1>1. IInv => TypeOK
  BY DEF IInv
<1> QED  BY <1>1, Invariance, PTL

\* A repeated Send is given its first message: the stored routes are still what
\* the request asks for.
THEOREM RetriesAreRecognised == Spec => []SendRetryIsRecognised
<1>1. IInv => SendRetryIsRecognised
  <2> SUFFICES ASSUME IInv, NEW m \in Messages, Sent(m), Author(m) \notin adopted
               PROVE  SendOutcome(message[m].request) = "duplicate"
    BY DEF SendRetryIsRecognised
  <2>1. Stored(message[m].request, message[m].routes)
    BY DEF IInv, StoredNames
  <2>2. Equivalent(m, message[m].request) /\ m \in Prior(message[m].request)
    BY <2>1 DEF Equivalent, Prior, Stored, Author
  <2>3. message[m].request.from \notin adopted
    BY DEF Author
  <2>4. ~(message[m].request.parent # None /\ ~Sent(message[m].request.parent))
    BY <2>1 DEF Stored
  <2> QED  BY <2>2, <2>3, <2>4 DEF SendOutcome
<1> QED  BY <1>1, Invariance, PTL

\* Nobody is told two answers to one alias request.
THEOREM AnswersStay == Spec => []AnswersAreStable
<1>1. IInv => AnswersAreStable
  <2> SUFFICES ASSUME IInv, NEW x \in answered, NEW y \in answered, x.request = y.request
               PROVE  x.answer = y.answer
    BY DEF AnswersAreStable
  <2>1. CASE x.request.op = "claim"
    <3>1. x \in claims /\ y \in claims
      BY <2>1 DEF IInv, ToldIsStored
    <3> QED  BY <3>1 DEF IInv, OneClaimPerKey
  <2>2. CASE x.request.op # "claim"
    <3>1. PICK g \in history : /\ g.by = x.request.by /\ g.key = x.request.key
                               /\ x.answer = Answer(g.actor, g.revision, g.action)
      BY <2>2 DEF IInv, ToldIsStored
    <3>2. PICK h \in history : /\ h.by = y.request.by /\ h.key = y.request.key
                               /\ y.answer = Answer(h.actor, h.revision, h.action)
      BY <2>2 DEF IInv, ToldIsStored
    <3>3. g = h
      BY <3>1, <3>2 DEF IInv, OneRecordPerKey
    <3> QED  BY <3>1, <3>2, <3>3
  <2> QED  BY <2>1, <2>2
<1> QED  BY <1>1, Invariance, PTL

-----------------------------------------------------------------------------
\* Who wrote a message is a known actor.
LEMMA AuthorsAreKnown == IInv => \A m \in Messages : Sent(m) => Author(m) \in known
BY DEF IInv, StoredNames, Stored, Author

\* A step that does not keeps the two name spaces apart and aliases at active
\* actors.
LEMMA NamesStep ==
    ASSUME IInv, NamesStayDisjoint, AliasTargetIsActive, [Next]_routing, ~AimsAtProvisional
    PROVE  NamesStayDisjoint' /\ AliasTargetIsActive'
<1> USE DEF IInv
<1>1. ASSUME NEW n \in Names, alias'[n] # NoAlias, alias'[n].actor \in Existing \ archived
      PROVE  alias'[n].actor \in known \ archived
  <2>1. CASE alias'[n] = alias[n]
    BY <1>1, <2>1 DEF AliasTargetIsActive
  <2>2. CASE alias'[n] # alias[n]
    BY <1>1, <2>2 DEF AimsAtProvisional, Existing
  <2> QED  BY <2>1, <2>2
<1>2. CASE Named
  <2>1. /\ UNCHANGED <<alias, history>> /\ known \subseteq known'
        /\ \A n \in Existing' : n \in Existing \/ n \notin AliasNames
        /\ \A n \in archived' : n \in archived \/ n \notin Targets
    BY <1>2, NamedFacts
  <2>2. NamesStayDisjoint'
    BY <2>1 DEF NamesStayDisjoint, AliasNames
  <2>3. \A n \in Names : alias[n] # NoAlias => alias[n].actor \in Targets
    BY NoneIsNoName DEF Targets, TypeOK
  <2>4. AliasTargetIsActive'
    BY <2>1, <2>3 DEF AliasTargetIsActive
  <2> QED  BY <2>2, <2>4
<1>3. ASSUME NEW r \in AliasRequests, ChangeAlias(r)
      PROVE  NamesStayDisjoint' /\ AliasTargetIsActive'
  <2>1. PICK target \in Names, revision \in 1 .. MaxRevision :
              /\ r.op = "set" => target = r.actor /\ target \in Existing \ archived
              /\ r.alias \notin Existing \/ r.alias \in AliasNames
              /\ Record(r, target, revision)
              /\ alias' = [alias EXCEPT ![r.alias] = IF r.op = "set" THEN [actor |-> target, revision |-> revision]
                                                    ELSE NoAlias]
    BY <1>3, ChangeFacts
  <2>2. UNCHANGED <<known, reserved, archived>> /\ r.alias \in Names
    BY <1>3, Requests DEF ChangeAlias, lifecycle
  <2>3. AliasNames' = AliasNames \cup {r.alias}
    BY <2>1, RecordedName
  <2>4. NamesStayDisjoint'
    BY <2>1, <2>2, <2>3 DEF NamesStayDisjoint, Existing
  <2>5. AliasTargetIsActive'
    <3> SUFFICES ASSUME NEW n \in Names, alias'[n] # NoAlias PROVE alias'[n].actor \in known \ archived
      BY <2>2 DEF AliasTargetIsActive
    <3>1. alias'[n] = alias[n] \/ (r.op = "set" /\ alias'[n].actor = target)
      BY <2>1, <2>2 DEF TypeOK
    <3>2. CASE alias'[n] = alias[n]
      BY <3>2 DEF AliasTargetIsActive
    <3>3. CASE r.op = "set" /\ alias'[n].actor = target
      BY <1>1, <2>1, <3>3
    <3> QED  BY <3>1, <3>2, <3>3
  <2> QED  BY <2>4, <2>5
<1>4. ASSUME NEW r \in AliasRequests, ClaimAlias(r)
      PROVE  NamesStayDisjoint' /\ AliasTargetIsActive'
  <2>1. UNCHANGED <<known, reserved, archived>> /\ r.alias \in Names
    BY <1>4, Requests DEF ClaimAlias, lifecycle
  <2>2. CASE UNCHANGED <<history, alias>>
    BY <2>1, <2>2 DEF NamesStayDisjoint, AliasTargetIsActive, AliasNames, Existing
  <2>3. CASE ~UNCHANGED <<history, alias>>
    <3>1. /\ r.op = "claim" /\ r.actor \in Existing \ archived /\ r.alias \notin Existing
          /\ Record(r, r.actor, 1)
          /\ alias' = [alias EXCEPT ![r.alias] = [actor |-> r.actor, revision |-> 1]]
      BY <1>4, <2>3, ClaimFacts
    <3>2. AliasNames' = AliasNames \cup {r.alias}
      BY <3>1, RecordedName
    <3>3. NamesStayDisjoint'
      BY <2>1, <3>1, <3>2 DEF NamesStayDisjoint, Existing
    <3>4. AliasTargetIsActive'
      <4> SUFFICES ASSUME NEW n \in Names, alias'[n] # NoAlias PROVE alias'[n].actor \in known \ archived
        BY <2>1 DEF AliasTargetIsActive
      <4>1. alias'[n] = alias[n] \/ alias'[n].actor = r.actor
        BY <2>1, <3>1 DEF TypeOK
      <4>2. CASE alias'[n] = alias[n]
        BY <4>2 DEF AliasTargetIsActive
      <4>3. CASE alias'[n].actor = r.actor
        BY <1>1, <3>1, <4>3
      <4> QED  BY <4>1, <4>2, <4>3
    <3> QED  BY <3>3, <3>4
  <2> QED  BY <2>2, <2>3
<1>5. ASSUME NEW r \in AliasRequests, RepeatAlias(r)
      PROVE  NamesStayDisjoint' /\ AliasTargetIsActive'
  <2>1. UNCHANGED <<known, reserved, archived, alias, history>>
    BY <1>5 DEF RepeatAlias, lifecycle
  <2> QED  BY <2>1 DEF NamesStayDisjoint, AliasTargetIsActive, AliasNames, Existing
<1>6. ASSUME NEW r \in Sends, NEW m \in Messages, Send(r, m)
      PROVE  NamesStayDisjoint' /\ AliasTargetIsActive'
  <2>1. /\ UNCHANGED <<reserved, archived, alias, history>>
        /\ known' = known \cup {r.from} \cup Recipients(r) /\ r.from \in known
    BY <1>6, SendFacts DEF aliases
  <2>2. AliasTargetIsActive'
    BY <2>1 DEF AliasTargetIsActive
  <2>3. \A n \in Recipients(r) : n \notin AliasNames
    <3>1. CASE r.parent # None
      <4>1. r.parent \in Messages /\ Sent(r.parent) /\ Recipients(r) = {Author(r.parent)}
        BY <1>6, <3>1, SendFacts, Requests DEF Recipients
      <4> QED  BY <4>1, AuthorsAreKnown DEF NamesStayDisjoint, Existing
    <3>2. CASE r.parent = None
      <4> SUFFICES ASSUME NEW route \in RequestedRoutes(r) PROVE Target(route) \notin AliasNames
        BY <3>2 DEF Recipients
      <4>1. Resolvable(route) /\ route.value \in Names /\ route.kind \in {"actor", "alias"}
        BY <1>6, <3>2, SendFacts
      <4>2. CASE route.kind = "alias"
        <5>1. alias[route.value].actor \in known
          BY <4>1, <4>2 DEF Resolvable, AliasTargetIsActive
        <5> QED  BY <5>1, <4>2 DEF Target, NamesStayDisjoint, Existing
      <4>3. CASE route.kind = "actor"
        BY <4>1, <4>3 DEF Resolvable, Target
      <4> QED  BY <4>1, <4>2, <4>3
    <3> QED  BY <3>1, <3>2
  <2>4. NamesStayDisjoint'
    BY <2>1, <2>3 DEF NamesStayDisjoint, Existing, AliasNames
  <2> QED  BY <2>2, <2>4
<1>7. CASE UNCHANGED routing
  BY <1>7 DEF NamesStayDisjoint, AliasTargetIsActive, AliasNames, Existing, routing, lifecycle, aliases
<1> QED  BY <1>2, <1>3, <1>4, <1>5, <1>6, <1>7, Steps

\* No name is an actor and an alias, and every alias leads to a known actor that
\* is not archived, until a step points an alias at a name that is provisional
\* then: what sends, hellos, archivals and other alias changes take, in any order,
\* keeps both (Store.Send, mutateAlias, Store.ReserveActorName, Store.ArchiveActor).
\* The two need each other: a send that names an alias reserves where it leads.
THEOREM NamesBreakAtProvisionalTargets ==
    Spec => [][NamesStayDisjoint /\ AliasTargetIsActive =>
                  (NamesStayDisjoint /\ AliasTargetIsActive)' \/ AimsAtProvisional]_routing
<1>1. IInv /\ [Next]_routing =>
         [NamesStayDisjoint /\ AliasTargetIsActive =>
             (NamesStayDisjoint /\ AliasTargetIsActive)' \/ AimsAtProvisional]_routing
  BY NamesStep
<1> QED  BY <1>1, Invariance, PTL DEF Spec

\* No alias leads to an archived actor, whatever it was pointed at, and whichever
\* of archival and alias change came first: each looks at the other's rows in its
\* own transaction (Store.ArchiveActor, mutateAlias, ClaimAliasIfAbsent).
THEOREM AliasesAvoidTheArchived == Spec => [](Targets \cap archived = {})
<1>1. Init => Targets \cap archived = {}
  BY DEF Init
<1>2. ASSUME IInv, Targets \cap archived = {}, [Next]_routing
      PROVE  (Targets \cap archived = {})'
  <2> USE DEF IInv
  <2>1. CASE Named
    <3>1. UNCHANGED alias /\ \A n \in archived' : n \in archived \/ n \notin Targets
      BY <1>2, <2>1, NamedFacts
    <3> QED  BY <1>2, <3>1 DEF Targets
  <2>2. ASSUME NEW r \in AliasRequests, NEW target, target = None \/ target \notin archived, UNCHANGED archived,
               NEW row, row.actor = target, alias' = [alias EXCEPT ![r.alias] = row]
        PROVE  (Targets \cap archived = {})'
    <3>1. \A n \in Names : alias'[n].actor \in {alias[n].actor, target}
      BY <1>2, <2>2 DEF TypeOK
    <3> QED  BY <1>2, <2>2, <3>1 DEF Targets
  <2>3. CASE \E r \in AliasRequests : ChangeAlias(r)
    <3>1. PICK r \in AliasRequests : ChangeAlias(r)
      BY <2>3
    <3>2. PICK target \in Names, revision \in 1 .. MaxRevision :
                /\ r.op = "set" => target \in Existing \ archived
                /\ alias' = [alias EXCEPT ![r.alias] = IF r.op = "set" THEN [actor |-> target, revision |-> revision]
                                                      ELSE NoAlias]
      BY <1>2, <3>1, ChangeFacts
    <3>3. UNCHANGED archived
      BY <3>1 DEF ChangeAlias, lifecycle
    <3>4. CASE r.op = "set"
      <4> DEFINE row == [actor |-> target, revision |-> revision]
      <4>1. row.actor = target /\ alias' = [alias EXCEPT ![r.alias] = row] /\ target \notin archived
        BY <3>2, <3>4
      <4> HIDE DEF row
      <4> QED  BY <2>2, <3>3, <4>1
    <3>5. CASE r.op # "set"
      <4>1. NoAlias.actor = None /\ alias' = [alias EXCEPT ![r.alias] = NoAlias]
        BY <3>2, <3>5 DEF NoAlias
      <4> QED  BY <2>2, <3>3, <4>1
    <3> QED  BY <3>4, <3>5
  <2>4. CASE \E r \in AliasRequests : ClaimAlias(r)
    <3>1. PICK r \in AliasRequests : ClaimAlias(r)
      BY <2>4
    <3>2. UNCHANGED archived
      BY <3>1 DEF ClaimAlias, lifecycle
    <3>3. CASE UNCHANGED alias
      BY <1>2, <3>2, <3>3 DEF Targets
    <3>4. CASE ~UNCHANGED alias
      <4> DEFINE row == [actor |-> r.actor, revision |-> 1]
      <4>1. row.actor = r.actor /\ r.actor \notin archived /\ alias' = [alias EXCEPT ![r.alias] = row]
        BY <1>2, <3>1, <3>4, ClaimFacts
      <4> HIDE DEF row
      <4> QED  BY <2>2, <3>2, <4>1
    <3> QED  BY <3>3, <3>4
  <2>5. CASE \/ \E r \in AliasRequests : RepeatAlias(r)
             \/ \E r \in Sends, m \in Messages : Send(r, m)
             \/ UNCHANGED routing
    <3>1. UNCHANGED <<alias, archived>>
      BY <2>5 DEF RepeatAlias, Send, routing, lifecycle, aliases
    <3> QED  BY <1>2, <3>1 DEF Targets
  <2> QED  BY <1>2, <2>1, <2>3, <2>4, <2>5, Steps
<1> QED  BY <1>1, <1>2, Invariance, PTL DEF Spec
=============================================================================
