---------------------------- MODULE ClientProofs ----------------------------
(***************************************************************************)
(* A call that may not be repeated runs once and every answer is that of   *)
(* its own request, for any number of calls, heartbeats, connections and   *)
(* faults.                                                                 *)
(***************************************************************************)
EXTENDS Client, TLAPS

\* What the daemon may mint, whatever is in use.
Minted == {CHOOSE a \in free : \A b \in free : a <= b : free \in SUBSET Names}

Actor     == Names \cup Minted \cup {Session, None}
Operation == Ops \cup {"send", Beat.op}
Key       == Keys \cup {None}
Asker     == [by : Threads, n : Nat]
Sent      == [id : Nat, from : Asker, op : Operation, key : Key, thread : Actor]
Reply     == [id : Nat, to : Asker, outcome : {"ok", "conflict", "not_found", "reassigned"}]
Handler   == [at : {"closed", "reading", "finalize", "run", "ending"}, actor : Actor,
              provisional : BOOLEAN, broken : BOOLEAN, requests : Seq(Sent), replies : Seq(Reply)]
Caller    == [pc : {"ready", "require", "lock", "connect", "write", "read"}, n : Nat,
              request : [op : Operation, key : Key], as : Actor, tries : {0, 1},
              again : BOOLEAN, late : BOOLEAN]

TypeOK ==
    /\ bound  \in Actor
    /\ server \in [Connections -> Handler]
    /\ client \in [conn : Connections \cup {0}, actor : Actor, id : Nat]
    /\ lock   \in Threads \cup {None}
    /\ call   \in [Threads -> Caller]
    /\ runs   \in [1 .. MaxCalls -> Nat]

\* Who dials, writes or reads has the mutex; it dials when there is no connection.
HoldsLock ==
    \A t \in Threads : call[t].pc \in {"connect", "write", "read"} =>
        lock = t /\ (call[t].pc = "connect" <=> client.conn = 0)

\* A handler past its check has the request it checked in hand.
HasRequest ==
    \A c \in Connections : server[c].at \in {"finalize", "run"} => server[c].requests # <<>>

\* No tool call beyond the last one has begun; heartbeats are heartbeats.
CallsAreCounted ==
    /\ call["tool"].n <= MaxCalls
    /\ call["tool"].pc # "ready" => call["tool"].n > 0
    /\ call["heartbeat"].request = Beat

\* An operation nobody may repeat is a tool call that has begun.
DelicateAreTool ==
    \A c \in Connections : \A i \in 1 .. Len(server[c].requests) :
        server[c].requests[i].op \in Delicate =>
            server[c].requests[i].from.by = "tool" /\ server[c].requests[i].from.n \in 1 .. MaxCalls

\* Identifiers on the connection in use are no newer than the client's last.
IdsAreOld ==
    \A c \in Connections : client.conn = c =>
        /\ \A i \in 1 .. Len(server[c].requests) : server[c].requests[i].id <= client.id
        /\ \A i \in 1 .. Len(server[c].replies) : server[c].replies[i].id <= client.id

\* What carries the identifier somebody waits for is its own.
OwnIsNewest ==
    \A t \in Threads, c \in Connections : call[t].pc = "read" /\ client.conn = c =>
        /\ \A i \in 1 .. Len(server[c].requests) :
              server[c].requests[i].id = client.id =>
                  /\ server[c].requests[i].from = [by |-> t, n |-> call[t].n]
                  /\ server[c].requests[i].op = call[t].request.op
        /\ \A i \in 1 .. Len(server[c].replies) :
              server[c].replies[i].id = client.id =>
                  server[c].replies[i].to = [by |-> t, n |-> call[t].n]

\* The i-th request of connection c is that of tool call n, and delicate.
Waits(n, c, i) ==
    /\ i \in 1 .. Len(server[c].requests)
    /\ server[c].requests[i].op \in Delicate
    /\ server[c].requests[i].from.n = n

\* Tool call n has neither run nor is it waiting to.
Unrun(n) == runs[n] = 0 /\ \A c \in Connections, i \in Nat : ~Waits(n, c, i)

\* A delicate call is waiting once or has run once, never both.
WaitsOnce ==
    \A n \in 1 .. MaxCalls :
        /\ \A c, d \in Connections, i, j \in Nat : Waits(n, c, i) /\ Waits(n, d, j) => c = d /\ i = j
        /\ \A c \in Connections, i \in Nat : Waits(n, c, i) => runs[n] = 0
        /\ runs[n] <= 1

\* A call that has not been written, or that was told that it was not run, was not.
UnwrittenIsUnrun ==
    LET k == call["tool"] IN
    /\ \A n \in 1 .. MaxCalls : n > k.n => Unrun(n)
    /\ k.request.op \in Delicate /\ k.pc \in {"require", "lock", "connect", "write"} => Unrun(k.n)
    /\ k.request.op \in Delicate /\ k.pc = "read" =>
          \A c \in Connections : client.conn = c =>
              \A i \in 1 .. Len(server[c].replies) :
                  server[c].replies[i].id = client.id /\ server[c].replies[i].outcome = "reassigned" => Unrun(k.n)

ClientInv ==
    /\ TypeOK /\ HoldsLock /\ HasRequest /\ CallsAreCounted /\ DelicateAreTool
    /\ IdsAreOld /\ OwnIsNewest /\ WaitsOnce /\ UnwrittenIsUnrun
    /\ AnswerIsOwn

-----------------------------------------------------------------------------
(* Queues. *)

LEMMA Popped ==
    ASSUME NEW S, NEW q \in Seq(S), q # <<>>
    PROVE  /\ Len(q) \in Nat \ {0} /\ Head(q) = q[1] /\ Head(q) \in S
           /\ Tail(q) \in Seq(S) /\ Len(Tail(q)) = Len(q) - 1
           /\ \A i \in 1 .. Len(Tail(q)) : Tail(q)[i] = q[i + 1]
OBVIOUS

LEMMA Pushed ==
    ASSUME NEW S, NEW q \in Seq(S), NEW x \in S
    PROVE  /\ Len(q) \in Nat /\ Append(q, x) \in Seq(S) /\ Len(Append(q, x)) = Len(q) + 1
           /\ \A i \in 1 .. Len(q) : Append(q, x)[i] = q[i]
           /\ Append(q, x)[Len(q) + 1] = x
OBVIOUS

LEMMA Elements ==
    ASSUME NEW S, NEW q \in Seq(S)
    PROVE  \A i \in 1 .. Len(q) : q[i] \in S
OBVIOUS

-----------------------------------------------------------------------------
(* Type correctness. *)

LEMMA BeatType == Beat \in [op : Operation, key : Key] /\ Beat.op \notin Delicate
BY DEF Beat, Operation, Key, Delicate

LEMMA RestingType ==
    ASSUME NEW n \in Nat
    PROVE  Resting(n) \in Caller /\ Resting(n).pc = "ready" /\ Resting(n).n = n /\ Resting(n).request = Beat
BY BeatType DEF Resting, Caller, Actor

LEMMA OpenedType ==
    ASSUME NEW actor \in Actor, NEW provisional \in BOOLEAN, NEW lost \in BOOLEAN
    PROVE  /\ Closed \in Handler /\ Closed.requests = <<>> /\ Closed.replies = <<>> /\ Closed.at = "closed"
           /\ Opened(actor, provisional) \in Handler
           /\ [Opened(actor, provisional) EXCEPT !.broken = lost] \in Handler
           /\ [Opened(actor, provisional) EXCEPT !.broken = lost].requests = <<>>
           /\ [Opened(actor, provisional) EXCEPT !.broken = lost].replies = <<>>
           /\ [Opened(actor, provisional) EXCEPT !.broken = lost].at = "reading"
<1>1. Closed \in Handler
  BY DEF Closed, Handler, Actor
<1> QED  BY <1>1 DEF Closed, Opened, Handler

LEMMA NextNameType == NextName \in Actor
BY DEF NextName, Unused, Actor, Minted

\* A handler takes a request off its queue and may append one reply.
LEMMA AnswersType ==
    ASSUME TypeOK, NEW c \in Connections, server[c].requests # <<>>,
           NEW outcome \in {"ok", "conflict", "not_found", "reassigned"}
    PROVE  LET r     == Head(server[c].requests)
               reply == [id |-> r.id, to |-> r.from, outcome |-> outcome]
               after == Answers(c, outcome)
           IN  /\ after \in Handler /\ after.at \in {"reading", "ending"} /\ reply \in Reply
               /\ after.requests = Tail(server[c].requests)
               /\ after.replies \in {server[c].replies, Append(server[c].replies, reply)}
<1> DEFINE r == Head(server[c].requests)
           reply == [id |-> r.id, to |-> r.from, outcome |-> outcome]
<1>1. server[c] \in Handler /\ server[c].requests \in Seq(Sent) /\ server[c].replies \in Seq(Reply)
  BY DEF TypeOK, Handler
<1>2. r \in Sent /\ Tail(server[c].requests) \in Seq(Sent)
  BY <1>1, Popped
<1>3. reply \in Reply
  BY <1>2 DEF Sent, Reply
<1>4. Append(server[c].replies, reply) \in Seq(Reply)
  BY <1>1, <1>3, Pushed
<1> HIDE DEF r, reply
<1>5. Answers(c, outcome) =
         IF server[c].broken
         THEN [[server[c] EXCEPT !.requests = Tail(server[c].requests)] EXCEPT !.at = "ending"]
         ELSE [[server[c] EXCEPT !.requests = Tail(server[c].requests)] EXCEPT
                  !.at = "reading", !.replies = Append(server[c].replies, reply)]
  BY <1>1 DEF Answers, Handler, r, reply
<1> QED  BY <1>1, <1>2, <1>3, <1>4, <1>5 DEF Handler, r, reply

-----------------------------------------------------------------------------
(* What steps do to the daemon's connections. *)

\* Every connection keeps its queues or loses them.
Fades ==
    \A c \in Connections :
        \/ server'[c].requests = server[c].requests /\ server'[c].replies = server[c].replies
        \/ server'[c].requests = <<>> /\ server'[c].replies = <<>>

\* Handler c answers the request it has in hand.
Serves(c, outcome) ==
    /\ server[c].requests # <<>>
    /\ server' = [server EXCEPT ![c] = Answers(c, outcome)]

\* The daemon's own steps, the hook's and the faults: the client notices nothing.
DaemonStep == (\E c \in Connections : Daemon(c) \/ Break(c)) \/ HookBinds \/ Crash

\* A fade keeps the types and what handlers have in hand.
LEMMA DaemonFades ==
    ASSUME TypeOK, HasRequest, DelicateAreTool, DaemonStep
    PROVE  /\ UNCHANGED <<process, told>> /\ TypeOK' /\ HasRequest'
           /\ \/ Fades /\ UNCHANGED runs
              \/ \E c \in Connections :
                    /\ Serves(c, "not_found") \/ Serves(c, "reassigned")
                    /\ UNCHANGED runs
              \/ \E c \in Connections : \E outcome \in {"ok", "conflict"} :
                    /\ Serves(c, outcome)
                    /\ LET r == Head(server[c].requests)
                       IN  runs' = IF r.op \in Delicate THEN [runs EXCEPT ![r.from.n] = @ + 1] ELSE runs
<1> DEFINE Fading == Fades /\ UNCHANGED runs
           Checking == \E c \in Connections :
                          (Serves(c, "not_found") \/ Serves(c, "reassigned")) /\ UNCHANGED runs
           Running == \E c \in Connections : \E outcome \in {"ok", "conflict"} :
                         /\ Serves(c, outcome)
                         /\ LET r == Head(server[c].requests)
                            IN  runs' = IF r.op \in Delicate THEN [runs EXCEPT ![r.from.n] = @ + 1] ELSE runs
           Result == /\ UNCHANGED <<process, told>> /\ TypeOK' /\ HasRequest'
                     /\ Fading \/ Checking \/ Running
<1>1. \A c \in Connections : server[c] \in Handler
  BY DEF TypeOK
<1>2. server \in [Connections -> Handler]
  BY DEF TypeOK
<1>3. None \in Actor /\ Session \in Actor
  BY DEF Actor
<1>4. Closed \in Handler /\ Closed.requests = <<>> /\ Closed.replies = <<>> /\ Closed.at = "closed"
  BY <1>3, OpenedType
<1>5. ASSUME NEW c \in Connections, NEW outcome \in {"ok", "conflict", "not_found", "reassigned"}, Serves(c, outcome)
      PROVE  server' \in [Connections -> Handler] /\ HasRequest'
  <2>1. Answers(c, outcome) \in Handler /\ Answers(c, outcome).at \in {"reading", "ending"}
    BY <1>5, AnswersType DEF Serves
  <2> QED  BY <1>2, <1>5, <2>1 DEF Serves, HasRequest
<1>6. ASSUME NEW c \in Connections, Check(c) PROVE Result
  <2>0. UNCHANGED <<tables, process, history>>
    BY <1>6 DEF Check
  <2>1. CASE bound # server[c].actor
    <3>1. PICK outcome \in {"not_found", "reassigned"} : Serves(c, outcome)
      BY <1>2, <1>6, <2>1 DEF Check, Serves
    <3> QED  BY <1>5, <2>0, <3>1 DEF tables, process, history, TypeOK
  <2>2. CASE bound = server[c].actor
    <3>1. PICK at \in {"finalize", "run"} : server' = [server EXCEPT ![c].at = at]
      BY <1>2, <1>6, <2>2 DEF Check
    <3>2. [server[c] EXCEPT !.at = at] \in Handler
      BY <1>1 DEF Handler
    <3>3. server' \in [Connections -> Handler] /\ Fades /\ HasRequest'
      <4>1. server[c].requests # <<>>
        BY <1>6 DEF Check
      <4>2. /\ server'[c] = [server[c] EXCEPT !.at = at]
            /\ \A d \in Connections \ {c} : server'[d] = server[d]
        BY <1>2, <3>1
      <4>3. server'[c].requests = server[c].requests /\ server'[c].replies = server[c].replies
        BY <1>1, <4>2 DEF Handler
      <4>4. server' \in [Connections -> Handler]
        BY <1>2, <3>1, <3>2
      <4> QED  BY <4>1, <4>2, <4>3, <4>4 DEF Fades, HasRequest
    <3> QED  BY <2>0, <3>3 DEF tables, process, history, TypeOK
  <2> QED  BY <2>1, <2>2
<1>7. ASSUME NEW c \in Connections, FinalizeActorAllocation(c) PROVE Result
  <2>1. [server[c] EXCEPT !.at = "run", !.provisional = FALSE] \in Handler
    BY <1>1 DEF Handler
  <2>2. server' \in [Connections -> Handler] /\ Fades /\ HasRequest'
    BY <1>1, <1>2, <1>7, <2>1 DEF FinalizeActorAllocation, Fades, HasRequest, Handler
  <2> QED  BY <1>7, <2>2 DEF FinalizeActorAllocation, process, history, TypeOK
<1>8. ASSUME NEW c \in Connections, Run(c) PROVE Result
  <2> DEFINE r == Head(server[c].requests)
  <2>1. server[c].requests # <<>>
    BY <1>8 DEF Run, HasRequest
  <2>2. PICK outcome \in {"ok", "conflict"} : server' = [server EXCEPT ![c] = Answers(c, outcome)]
    BY <1>8 DEF Run, Outcome
  <2>3. /\ runs' = IF r.op \in Delicate THEN [runs EXCEPT ![r.from.n] = @ + 1] ELSE runs
        /\ UNCHANGED <<bound, process, told>>
    BY <1>8 DEF Run
  <2>4. runs' \in [1 .. MaxCalls -> Nat]
    <3>1. runs \in [1 .. MaxCalls -> Nat] /\ server[c].requests \in Seq(Sent)
      BY <1>1 DEF TypeOK, Handler
    <3>2. r = server[c].requests[1] /\ 1 \in 1 .. Len(server[c].requests)
      BY <2>1, <3>1, Popped
    <3>3. r.op \in Delicate => r.from.n \in 1 .. MaxCalls
      BY <3>2 DEF DelicateAreTool
    <3> HIDE DEF r
    <3> QED  BY <2>3, <3>1, <3>3
  <2>5. Serves(c, outcome)
    BY <2>1, <2>2 DEF Serves
  <2>6. server' \in [Connections -> Handler] /\ HasRequest'
    BY <1>5, <2>5
  <2> QED  BY <2>3, <2>4, <2>5, <2>6 DEF process, TypeOK
<1>9. ASSUME NEW c \in Connections, HangUp(c) PROVE Result
  <2>1. [server[c] EXCEPT !.at = "ending"] \in Handler
    BY <1>1 DEF Handler
  <2>2. server' \in [Connections -> Handler] /\ Fades /\ HasRequest'
    BY <1>1, <1>2, <1>9, <2>1 DEF HangUp, Fades, HasRequest, Handler
  <2> QED  BY <1>9, <2>2 DEF HangUp, tables, process, history, TypeOK
<1>10. ASSUME NEW c \in Connections, End(c) PROVE Result
  <2>1. server' \in [Connections -> Handler] /\ Fades /\ HasRequest'
    BY <1>2, <1>4, <1>10 DEF End, Fades, HasRequest
  <2>2. bound' \in Actor
    BY <1>3, <1>10 DEF End, TypeOK
  <2> QED  BY <1>10, <2>1, <2>2 DEF End, process, history, TypeOK
<1>11. ASSUME NEW c \in Connections, Break(c) PROVE Result
  <2>1. [server[c] EXCEPT !.broken = TRUE] \in Handler
    BY <1>1 DEF Handler
  <2>2. server' \in [Connections -> Handler] /\ Fades /\ HasRequest'
    BY <1>1, <1>2, <1>11, <2>1 DEF Break, Fades, HasRequest, Handler
  <2> QED  BY <1>11, <2>2 DEF Break, tables, process, history, TypeOK
<1>12. CASE HookBinds
  <2>1. Fades /\ HasRequest'
    BY <1>12 DEF HookBinds, Fades, HasRequest
  <2> QED  BY <1>3, <1>12, <2>1 DEF HookBinds, process, history, TypeOK
<1>13. CASE Crash
  <2>1. server' \in [Connections -> Handler] /\ Fades /\ HasRequest'
    BY <1>4, <1>13 DEF Crash, Fades, HasRequest
  <2>2. bound' \in Actor
    BY <1>3, <1>13 DEF Crash, TypeOK
  <2> QED  BY <1>13, <2>1, <2>2 DEF Crash, process, history, TypeOK
<1> QED  BY <1>6, <1>7, <1>8, <1>9, <1>10, <1>11, <1>12, <1>13 DEF DaemonStep, Daemon

-----------------------------------------------------------------------------
(* The queues shrink. *)

\* No request is new; replies may also be taken.
Shrinks ==
    \A c \in Connections :
        /\ server'[c].requests \in {server[c].requests, <<>>}
        /\ \A i \in 1 .. Len(server'[c].replies) :
              \E j \in 1 .. Len(server[c].replies) : server'[c].replies[i] = server[c].replies[j]

LEMMA EmptyQueue == Len(<<>>) = 0 /\ \A i \in Nat : i \notin 1 .. 0
OBVIOUS

LEMMA FadesShrink == Fades => Shrinks
BY EmptyQueue DEF Fades, Shrinks

\* A delicate call that waits, waited.
LEMMA ShrinkingKeeps ==
    ASSUME ClientInv, Shrinks, UNCHANGED runs
    PROVE  /\ DelicateAreTool' /\ WaitsOnce'
           /\ \A n \in Nat : Unrun(n) => Unrun(n)'
<1>1. ASSUME NEW n, NEW c \in Connections, NEW i \in Nat, Waits(n, c, i)'
      PROVE  Waits(n, c, i)
  BY <1>1, EmptyQueue DEF Shrinks, Waits
<1>2. DelicateAreTool'
  BY EmptyQueue DEF Shrinks, ClientInv, DelicateAreTool
<1>3. WaitsOnce'
  BY <1>1 DEF ClientInv, WaitsOnce
<1> QED  BY <1>1, <1>2, <1>3 DEF Unrun

\* Nothing is new on the connection in use, if it is the same.
LEMMA ShrinkingKeepsIds ==
    ASSUME ClientInv, Shrinks, client'.id = client.id, client'.conn \in {client.conn, 0}
    PROVE  IdsAreOld'
<1> SUFFICES ASSUME NEW c \in Connections, client'.conn = c
             PROVE  /\ \A i \in 1 .. Len(server'[c].requests) : server'[c].requests[i].id <= client.id
                    /\ \A i \in 1 .. Len(server'[c].replies) : server'[c].replies[i].id <= client.id
  BY DEF IdsAreOld
<1>1. client.conn = c
  BY ConnectionsAreNats
<1>2. /\ \A i \in 1 .. Len(server[c].requests) : server[c].requests[i].id <= client.id
      /\ \A i \in 1 .. Len(server[c].replies) : server[c].replies[i].id <= client.id
  BY <1>1 DEF ClientInv, IdsAreOld
<1>3. \A i \in 1 .. Len(server'[c].requests) : server'[c].requests[i].id <= client.id
  <2>1. CASE server'[c].requests = server[c].requests
    BY <1>2, <2>1
  <2>2. CASE server'[c].requests = <<>>
    BY <2>2
  <2> QED  BY <2>1, <2>2 DEF Shrinks
<1>4. \A i \in 1 .. Len(server'[c].replies) : server'[c].replies[i].id <= client.id
  BY <1>2 DEF Shrinks
<1> QED  BY <1>3, <1>4

\* The callers are where they were, but for their deadlines.
SamePlace == \A t \in Threads : /\ call'[t].pc = call[t].pc /\ call'[t].n = call[t].n
                                /\ call'[t].request = call[t].request

LEMMA FadingKeeps ==
    ASSUME ClientInv, TypeOK', HasRequest', Fades, SamePlace, UNCHANGED <<client, lock, told, runs>>
    PROVE  ClientInv'
<1> USE DEF ClientInv
<1>1. Shrinks
  BY FadesShrink
<1>2. /\ DelicateAreTool' /\ WaitsOnce' /\ IdsAreOld'
      /\ \A n \in Nat : Unrun(n) => Unrun(n)'
  BY <1>1, ShrinkingKeeps, ShrinkingKeepsIds
<1>3. HoldsLock' /\ CallsAreCounted'
  BY DEF HoldsLock, CallsAreCounted, SamePlace, Threads
<1>4. OwnIsNewest'
  BY EmptyQueue DEF OwnIsNewest, Fades, SamePlace
<1>5. UnwrittenIsUnrun'
  <2>1. "tool" \in Threads /\ call["tool"].n \in Nat
    BY DEF Threads, TypeOK, Caller
  <2>2. \A n \in 1 .. MaxCalls : n \in Nat
    BY MaxCallsIsNat
  <2> QED  BY <1>2, <2>1, <2>2, EmptyQueue DEF UnwrittenIsUnrun, Fades, SamePlace
<1> QED  BY <1>2, <1>3, <1>4, <1>5 DEF AnswerIsOwn

-----------------------------------------------------------------------------
(* The daemon answers. *)

LEMMA ServingKeeps ==
    ASSUME ClientInv, TypeOK', HasRequest', UNCHANGED <<process, told>>,
           NEW c \in Connections, NEW outcome \in {"ok", "conflict", "not_found", "reassigned"},
           Serves(c, outcome),
           LET r == Head(server[c].requests)
               ran == r.op \in Delicate /\ outcome \in {"ok", "conflict"}
           IN  runs' = IF ran THEN [runs EXCEPT ![r.from.n] = @ + 1] ELSE runs
    PROVE  ClientInv'
<1> USE DEF ClientInv
<1> DEFINE r == Head(server[c].requests)
           ran == r.op \in Delicate /\ outcome \in {"ok", "conflict"}
           reply == [id |-> r.id, to |-> r.from, outcome |-> outcome]
<1>1. /\ server[c].requests \in Seq(Sent) /\ server[c].replies \in Seq(Reply) /\ server[c].requests # <<>>
      /\ runs \in [1 .. MaxCalls -> Nat] /\ client.id \in Nat
  BY DEF Serves, TypeOK, Handler
<1>2. /\ r = server[c].requests[1] /\ r \in Sent /\ 1 \in 1 .. Len(server[c].requests)
      /\ Len(server[c].requests) \in Nat
  BY <1>1, Popped
<1>3. /\ server'[c].requests = Tail(server[c].requests) /\ reply \in Reply
      /\ server'[c].replies \in {server[c].replies, Append(server[c].replies, reply)}
      /\ \A d \in Connections \ {c} : server'[d] = server[d]
  BY AnswersType DEF Serves, TypeOK
<1>4. ASSUME NEW i \in 1 .. Len(server'[c].requests)
      PROVE  i + 1 \in 1 .. Len(server[c].requests) /\ server'[c].requests[i] = server[c].requests[i + 1]
  <2> DEFINE q == server[c].requests
  <2>1. /\ Len(q) \in Nat \ {0} /\ Len(Tail(q)) = Len(q) - 1
        /\ \A j \in 1 .. Len(Tail(q)) : Tail(q)[j] = q[j + 1]
    BY <1>1, Popped
  <2>2. server'[c].requests = Tail(q)
    BY <1>3
  <2> HIDE DEF q
  <2>3. i \in 1 .. Len(Tail(q)) /\ i + 1 \in 1 .. Len(q)
    BY <1>4, <2>1, <2>2
  <2>4. Tail(q)[i] = q[i + 1]
    BY <2>1, <2>3
  <2> QED  BY <2>2, <2>3, <2>4 DEF q
<1>5. ASSUME NEW i \in 1 .. Len(server'[c].replies)
      PROVE  \/ server'[c].replies[i] = reply
             \/ i \in 1 .. Len(server[c].replies) /\ server'[c].replies[i] = server[c].replies[i]
  <2>1. CASE server'[c].replies = server[c].replies
    BY <1>5, <2>1
  <2>2. CASE server'[c].replies = Append(server[c].replies, reply)
    <3> DEFINE old == server[c].replies
    <3>1. /\ Len(old) \in Nat /\ Len(Append(old, reply)) = Len(old) + 1
          /\ \A j \in 1 .. Len(old) : Append(old, reply)[j] = old[j]
          /\ Append(old, reply)[Len(old) + 1] = reply
      <4>1. old \in Seq(Reply) /\ reply \in Reply
        BY <1>1, <1>3
      <4> HIDE DEF old, reply
      <4> QED  BY <4>1, Pushed
    <3>2. i \in 1 .. Len(old) \/ i = Len(old) + 1
      BY <1>5, <2>2, <3>1
    <3> QED  BY <2>2, <3>1, <3>2
  <2> QED  BY <1>3, <2>1, <2>2
<1>6. \A n, i : Waits(n, c, i)' => i + 1 \in Nat /\ i + 1 # 1 /\ Waits(n, c, i + 1)
  <2> SUFFICES ASSUME NEW n, NEW i, Waits(n, c, i)'
               PROVE  i + 1 \in Nat /\ i + 1 # 1 /\ Waits(n, c, i + 1)
    OBVIOUS
  <2>1. i \in 1 .. Len(server'[c].requests) /\ Len(server'[c].requests) \in Nat
    <3>1. Tail(server[c].requests) \in Seq(Sent)
      BY <1>1, Popped
    <3> QED  BY <1>3, <3>1 DEF Waits
  <2> QED  BY <1>4, <2>1 DEF Waits
<1>7. \A n, i : \A d \in Connections \ {c} : Waits(n, d, i)' => Waits(n, d, i)
  BY <1>3 DEF Waits
<1>8. r.op \in Delicate => /\ r.from.by = "tool" /\ r.from.n \in 1 .. MaxCalls
                           /\ Waits(r.from.n, c, 1) /\ runs[r.from.n] = 0
  BY <1>2 DEF DelicateAreTool, Waits, WaitsOnce
<1>9. ASSUME NEW n \in 1 .. MaxCalls, r.op \in Delicate, r.from.n = n,
             NEW d \in Connections, NEW i \in Nat, Waits(n, d, i)'
      PROVE  FALSE
  <2>1. Waits(n, c, 1)
    BY <1>8, <1>9
  <2>2. CASE d = c
    BY <1>6, <1>9, <2>1, <2>2 DEF WaitsOnce
  <2>3. CASE d # c
    BY <1>7, <1>9, <2>1, <2>3 DEF WaitsOnce
  <2> QED  BY <2>2, <2>3
<1>10. \A n \in 1 .. MaxCalls : runs'[n] = runs[n] \/ (ran /\ n = r.from.n /\ runs'[n] = 1)
  <2>1. CASE ran
    <3>1. r.from.n \in 1 .. MaxCalls /\ runs[r.from.n] = 0
      BY <1>8, <2>1
    <3>2. runs' = [runs EXCEPT ![r.from.n] = @ + 1]
      BY <2>1
    <3> DEFINE x == r.from.n
    <3> HIDE DEF r, ran, x
    <3>3. \A n \in 1 .. MaxCalls : runs'[n] = IF n = x THEN runs[x] + 1 ELSE runs[n]
      BY <1>1, <3>2 DEF x
    <3>4. runs[x] = 0
      BY <3>1 DEF x
    <3> QED  BY <2>1, <3>3, <3>4 DEF x
  <2>2. CASE ~ran
    BY <2>2
  <2> QED  BY <2>1, <2>2
<1> HIDE DEF r, ran, reply
<1>11. DelicateAreTool'
  <2>1. ASSUME NEW d \in Connections \ {c}, NEW i \in 1 .. Len(server'[d].requests)
        PROVE  i \in 1 .. Len(server[d].requests) /\ server'[d].requests[i] = server[d].requests[i]
    BY <1>3
  <2>2. ASSUME NEW i \in 1 .. Len(server'[c].requests), server'[c].requests[i].op \in Delicate
        PROVE  server'[c].requests[i].from.by = "tool" /\ server'[c].requests[i].from.n \in 1 .. MaxCalls
    <3>1. PICK j \in 1 .. Len(server[c].requests) : server'[c].requests[i] = server[c].requests[j]
      BY <1>4
    <3> QED  BY <2>2, <3>1 DEF DelicateAreTool
  <2>3. ASSUME NEW d \in Connections, NEW i \in 1 .. Len(server'[d].requests),
               server'[d].requests[i].op \in Delicate
        PROVE  server'[d].requests[i].from.by = "tool" /\ server'[d].requests[i].from.n \in 1 .. MaxCalls
    <3>1. CASE d = c
      BY <2>2, <2>3, <3>1
    <3>2. CASE d # c
      <4>1. i \in 1 .. Len(server[d].requests) /\ server'[d].requests[i] = server[d].requests[i]
        BY <2>1, <2>3, <3>2
      <4> QED  BY <2>3, <4>1 DEF DelicateAreTool
    <3> QED  BY <3>1, <3>2
  <2> QED  BY <2>3 DEF DelicateAreTool
<1>12. WaitsOnce'
  <2> SUFFICES ASSUME NEW n \in 1 .. MaxCalls
               PROVE  /\ \A d, e \in Connections, i, j \in Nat :
                            Waits(n, d, i)' /\ Waits(n, e, j)' => d = e /\ i = j
                      /\ \A d \in Connections, i \in Nat : Waits(n, d, i)' => runs'[n] = 0
                      /\ runs'[n] <= 1
    BY DEF WaitsOnce
  <2>1. ASSUME NEW d \in Connections, NEW e \in Connections, NEW i \in Nat, NEW j \in Nat,
               Waits(n, d, i)', Waits(n, e, j)'
        PROVE  d = e /\ i = j
    <3>1. Waits(n, d, IF d = c THEN i + 1 ELSE i) /\ Waits(n, e, IF e = c THEN j + 1 ELSE j)
      BY <1>6, <1>7, <2>1
    <3>2. d = e /\ (IF d = c THEN i + 1 ELSE i) = (IF e = c THEN j + 1 ELSE j)
      BY <3>1 DEF WaitsOnce
    <3> QED  BY <3>2
  <2>2. ASSUME NEW d \in Connections, NEW i \in Nat, Waits(n, d, i)'
        PROVE  runs'[n] = 0
    <3>1. \E j \in Nat : Waits(n, d, j)
      BY <1>6, <1>7, <2>2
    <3>2. runs[n] = 0
      BY <3>1 DEF WaitsOnce
    <3>3. ~(ran /\ n = r.from.n)
      BY <1>9, <2>2 DEF ran
    <3> QED  BY <1>10, <3>2, <3>3
  <2>3. runs'[n] <= 1
    <3>1. runs[n] <= 1
      BY DEF WaitsOnce
    <3> QED  BY <1>10, <3>1
  <2> QED  BY <2>1, <2>2, <2>3
<1>13. ASSUME NEW n \in 1 .. MaxCalls, Unrun(n) PROVE Unrun(n)'
  <2>1. ~(ran /\ n = r.from.n)
    BY <1>8, <1>13 DEF ran, Unrun
  <2>2. \A d \in Connections, i \in Nat : ~Waits(n, d, i)'
    BY <1>6, <1>7, <1>13 DEF Unrun
  <2> QED  BY <1>10, <1>13, <2>1, <2>2 DEF Unrun
<1>14. HoldsLock' /\ CallsAreCounted' /\ AnswerIsOwn'
  BY DEF HoldsLock, CallsAreCounted, AnswerIsOwn, process
<1>15. reply.id = r.id /\ reply.to = r.from /\ reply.outcome = outcome
  BY DEF reply
<1>16. IdsAreOld'
  <2>1. r.id <= client.id \/ client.conn # c
    BY <1>2 DEF IdsAreOld
  <2> SUFFICES ASSUME NEW d \in Connections, client.conn = d
               PROVE  /\ \A i \in 1 .. Len(server'[d].requests) : server'[d].requests[i].id <= client.id
                      /\ \A i \in 1 .. Len(server'[d].replies) : server'[d].replies[i].id <= client.id
    BY DEF IdsAreOld, process
  <2>2. /\ \A i \in 1 .. Len(server[d].requests) : server[d].requests[i].id <= client.id
        /\ \A i \in 1 .. Len(server[d].replies) : server[d].replies[i].id <= client.id
    BY DEF IdsAreOld
  <2>3. CASE d = c
    <3>1. ASSUME NEW i \in 1 .. Len(server'[c].requests)
          PROVE  server'[c].requests[i].id <= client.id
      <4>1. i + 1 \in 1 .. Len(server[c].requests) /\ server'[c].requests[i] = server[c].requests[i + 1]
        BY <1>4, <3>1
      <4> QED  BY <2>2, <2>3, <4>1
    <3>2. ASSUME NEW i \in 1 .. Len(server'[c].replies)
          PROVE  server'[c].replies[i].id <= client.id
      <4>1. CASE server'[c].replies[i] = reply
        BY <1>15, <2>1, <2>3, <4>1
      <4>2. CASE i \in 1 .. Len(server[c].replies) /\ server'[c].replies[i] = server[c].replies[i]
        BY <2>2, <2>3, <4>2
      <4> QED  BY <1>5, <3>2, <4>1, <4>2
    <3> QED  BY <2>3, <3>1, <3>2
  <2>4. CASE d # c
    BY <1>3, <2>2, <2>4
  <2> QED  BY <2>3, <2>4
<1>17. ASSUME NEW t \in Threads, call[t].pc = "read", client.conn = c, r.id = client.id
       PROVE  r.from = [by |-> t, n |-> call[t].n] /\ r.op = call[t].request.op
  BY <1>2, <1>17 DEF OwnIsNewest
<1>18. OwnIsNewest'
  <2> SUFFICES ASSUME NEW t \in Threads, NEW d \in Connections, call[t].pc = "read", client.conn = d
               PROVE  /\ \A i \in 1 .. Len(server'[d].requests) :
                            server'[d].requests[i].id = client.id =>
                                /\ server'[d].requests[i].from = [by |-> t, n |-> call[t].n]
                                /\ server'[d].requests[i].op = call[t].request.op
                      /\ \A i \in 1 .. Len(server'[d].replies) :
                            server'[d].replies[i].id = client.id =>
                                server'[d].replies[i].to = [by |-> t, n |-> call[t].n]
    BY DEF OwnIsNewest, process
  <2>1. CASE d = c
    <3>1. ASSUME NEW i \in 1 .. Len(server'[c].requests), server'[c].requests[i].id = client.id
          PROVE  /\ server'[c].requests[i].from = [by |-> t, n |-> call[t].n]
                 /\ server'[c].requests[i].op = call[t].request.op
      <4>1. PICK j \in 1 .. Len(server[c].requests) : server'[c].requests[i] = server[c].requests[j]
        BY <1>4
      <4> QED  BY <2>1, <3>1, <4>1 DEF OwnIsNewest
    <3>2. ASSUME NEW i \in 1 .. Len(server'[c].replies), server'[c].replies[i].id = client.id
          PROVE  server'[c].replies[i].to = [by |-> t, n |-> call[t].n]
      BY <1>5, <1>15, <1>17, <2>1, <3>2 DEF OwnIsNewest
    <3> QED  BY <2>1, <3>1, <3>2
  <2>2. CASE d # c
    BY <1>3, <2>2 DEF OwnIsNewest
  <2> QED  BY <2>1, <2>2
<1>19. UnwrittenIsUnrun'
  <2> DEFINE k == call["tool"]
  <2>1. "tool" \in Threads /\ call' = call /\ client' = client
    BY DEF Threads, process
  <2>2. k.pc # "ready" => k.n \in 1 .. MaxCalls
    BY <2>1, MaxCallsIsNat DEF CallsAreCounted, TypeOK, Caller
  <2>3. ASSUME NEW n \in 1 .. MaxCalls, n = k.n, k.request.op \in Delicate, k.pc = "read",
               NEW d \in Connections, client.conn = d, NEW i \in 1 .. Len(server'[d].replies),
               server'[d].replies[i].id = client.id, server'[d].replies[i].outcome = "reassigned"
        PROVE  Unrun(n)'
    <3>1. CASE d = c /\ server'[c].replies[i] = reply
      <4>1. r.from = [by |-> "tool", n |-> n] /\ r.op \in Delicate /\ outcome = "reassigned"
        BY <1>15, <1>17, <2>1, <2>3, <3>1
      <4>2. r.from.n = n
        BY <4>1
      <4>3. runs'[n] = 0
        BY <1>8, <1>10, <4>1, <4>2 DEF ran
      <4>4. \A e \in Connections, j \in Nat : ~Waits(n, e, j)'
        BY <1>9, <4>1, <4>2
      <4> QED  BY <4>3, <4>4 DEF Unrun
    <3>2. CASE ~(d = c /\ server'[c].replies[i] = reply)
      <4>1. i \in 1 .. Len(server[d].replies) /\ server'[d].replies[i] = server[d].replies[i]
        BY <1>3, <1>5, <3>2
      <4>2. Unrun(n)
        BY <2>3, <4>1 DEF UnwrittenIsUnrun
      <4> QED  BY <1>13, <4>2
    <3> QED  BY <3>1, <3>2
  <2>4. ASSUME NEW n \in 1 .. MaxCalls, n > k.n PROVE Unrun(n)'
    BY <1>13, <2>4 DEF UnwrittenIsUnrun
  <2>5. ASSUME NEW n \in 1 .. MaxCalls, n = k.n, k.request.op \in Delicate,
               k.pc \in {"require", "lock", "connect", "write"}
        PROVE  Unrun(n)'
    BY <1>13, <2>5 DEF UnwrittenIsUnrun
  <2> QED  BY <2>1, <2>2, <2>3, <2>4, <2>5 DEF UnwrittenIsUnrun
<1> QED  BY <1>11, <1>12, <1>14, <1>16, <1>18, <1>19

-----------------------------------------------------------------------------
(* The client's goroutines. *)

Holding == {"connect", "write", "read"}

\* A goroutine moves on, returns, or begins a new call, while the other one
\* does not hold the mutex.
LEMMA TurnKeeps ==
    ASSUME ClientInv, TypeOK', HasRequest', Shrinks, UNCHANGED runs, AnswerIsOwn', NEW t \in Threads,
           \A u \in Threads \ {t} : call'[u] = call[u] /\ call[u].pc \notin Holding,
           \/ client' = client
           \/ client'.conn = 0 /\ client'.id = client.id
           \/ \E c \in Connections : client'.conn = c /\ server'[c].requests = <<>> /\ server'[c].replies = <<>>,
           call'[t].pc # "read",
           call'[t].pc = "connect" => lock' = t /\ client'.conn = 0,
           call'[t].pc = "write" => lock' = t /\ client'.conn # 0,
           \/ call'[t].pc = "ready" /\ call'[t].n = call[t].n /\ call'[t].request = Beat
           \/ /\ call[t].pc # "ready" /\ call'[t].n = call[t].n /\ call'[t].request = call[t].request
              /\ call[t].request.op \in Delicate =>
                    call[t].pc \in {"require", "lock", "connect", "write"} \/ Unrun(call[t].n)
           \/ /\ call'[t].n = call[t].n + 1
              /\ t = "tool" => call[t].n < MaxCalls
              /\ t = "heartbeat" => call'[t].request = Beat
    PROVE  ClientInv'
<1> USE DEF ClientInv
<1>1. /\ DelicateAreTool' /\ WaitsOnce' /\ \A n \in Nat : Unrun(n) => Unrun(n)'
  BY ShrinkingKeeps
<1>2. \A u \in Threads : call'[u].pc # "read" /\ call'[u] \in Caller /\ call[u] \in Caller
  BY DEF Holding, TypeOK
<1>3. HoldsLock'
  BY DEF HoldsLock, Holding
<1>4. "tool" \in Threads /\ "heartbeat" \in Threads /\ "tool" # "heartbeat"
  BY DEF Threads
<1>5. \A u \in Threads : call[u].n \in Nat /\ call'[u].n \in Nat /\ call'[u].n >= call[u].n
  BY <1>2 DEF Caller
<1>6. CallsAreCounted'
  <2>1. CASE t = "tool"
    BY <1>4, <1>5, <2>1, MaxCallsIsNat DEF CallsAreCounted
  <2>2. CASE t = "heartbeat"
    BY <1>4, <1>5, <2>2 DEF CallsAreCounted
  <2> QED  BY <2>1, <2>2 DEF Threads
<1>7. IdsAreOld'
  <2>1. CASE client'.id = client.id /\ client'.conn \in {client.conn, 0}
    BY <2>1, ShrinkingKeepsIds
  <2>2. ASSUME NEW c \in Connections, client'.conn = c, server'[c].requests = <<>>, server'[c].replies = <<>>
        PROVE  IdsAreOld'
    BY <2>2, EmptyQueue DEF IdsAreOld
  <2> QED  BY <2>1, <2>2
<1>8. OwnIsNewest'
  BY <1>2 DEF OwnIsNewest
<1>9. UnwrittenIsUnrun'
  <2>1. ASSUME NEW n \in 1 .. MaxCalls, n > call'["tool"].n PROVE Unrun(n)'
    <3>1. n > call["tool"].n /\ n \in Nat
      BY <1>4, <1>5, <2>1, MaxCallsIsNat
    <3> QED  BY <1>1, <3>1 DEF UnwrittenIsUnrun
  <2>2. ASSUME call'["tool"].request.op \in Delicate, NEW n \in Nat, n = call'["tool"].n,
               call'["tool"].pc \in {"require", "lock", "connect", "write"}
        PROVE  Unrun(n)'
    <3>1. CASE t = "heartbeat"
      <4>1. call'["tool"] = call["tool"]
        BY <1>4, <3>1
      <4>2. Unrun(n)
        BY <2>2, <4>1 DEF UnwrittenIsUnrun
      <4> QED  BY <1>1, <4>2
    <3>2. CASE t = "tool" /\ call[t].pc # "ready" /\ call'[t].n = call[t].n /\ call'[t].request = call[t].request
              /\ (call[t].request.op \in Delicate =>
                    call[t].pc \in {"require", "lock", "connect", "write"} \/ Unrun(call[t].n))
      <4>1. Unrun(n)
        BY <2>2, <3>2 DEF UnwrittenIsUnrun
      <4> QED  BY <1>1, <4>1
    <3>3. CASE t = "tool" /\ call'[t].n = call[t].n + 1 /\ call[t].n < MaxCalls
      <4>1. n \in 1 .. MaxCalls /\ n > call["tool"].n
        BY <1>5, <2>2, <3>3, MaxCallsIsNat
      <4>2. Unrun(n)
        BY <4>1 DEF UnwrittenIsUnrun
      <4> QED  BY <1>1, <4>2
    <3> QED  BY <2>2, <3>1, <3>2, <3>3 DEF Threads
  <2> QED  BY <1>2, <1>4, <1>5, <2>1, <2>2 DEF UnwrittenIsUnrun
<1> QED  BY <1>1, <1>3, <1>6, <1>7, <1>8, <1>9

\* Only the holder of the mutex dials, writes or reads.
LEMMA HolderIsAlone ==
    ASSUME HoldsLock, NEW t \in Threads, lock = None \/ call[t].pc \in Holding
    PROVE  \A u \in Threads \ {t} : call[u].pc \notin Holding
BY NoneIsNoThread DEF HoldsLock, Holding

\* Client.requireActor, and what a call does before it has the mutex.
LEMMA BeginKeeps ==
    ASSUME ClientInv, NEW t \in Threads, Begin(t) \/ Require(t) \/ Lock(t)
    PROVE  ClientInv'
<1> USE DEF ClientInv
<1>1. UNCHANGED <<bound, server, client, told, runs>>
  BY DEF Begin, Require, Lock, tables, history
<1>2. lock = None /\ call[t] \in Caller /\ call \in [Threads -> Caller] /\ client.actor \in Actor
  BY DEF Begin, Require, Lock, TypeOK
<1>3. \A u \in Threads \ {t} : call[u].pc \notin Holding
  BY <1>2, HolderIsAlone
<1>4. Shrinks /\ HasRequest' /\ AnswerIsOwn'
  BY <1>1 DEF Shrinks, HasRequest, AnswerIsOwn
<1>5. ASSUME NEW r \in [op : Operation, key : Key], Ask(t, r), UNCHANGED lock,
             t = "tool" => call[t].n < MaxCalls, t = "heartbeat" => r = Beat
      PROVE  ClientInv'
  <2> DEFINE new == [Resting(call[t].n + 1) EXCEPT !.request = r, !.as = client.actor,
                        !.pc = IF Compared(r.op) THEN "require" ELSE "lock"]
  <2>1. call[t].n + 1 \in Nat
    BY <1>2 DEF Caller
  <2>2. /\ new \in Caller /\ new.pc \in {"require", "lock"} /\ new.n = call[t].n + 1 /\ new.request = r
    <3>1. PICK pc \in {"require", "lock"} :
              new = [Resting(call[t].n + 1) EXCEPT !.request = r, !.as = client.actor, !.pc = pc]
      OBVIOUS
    <3>2. Resting(call[t].n + 1) \in Caller /\ Resting(call[t].n + 1).n = call[t].n + 1
      BY <2>1, RestingType
    <3> DEFINE k == Resting(call[t].n + 1)
               asked == [k EXCEPT !.request = r, !.as = client.actor, !.pc = pc]
    <3> HIDE DEF k
    <3>3. k \in Caller /\ k.n = call[t].n + 1
      BY <3>2 DEF k
    <3>4. asked \in Caller /\ asked.pc = pc /\ asked.n = k.n /\ asked.request = r
      BY <1>2, <3>3 DEF Caller
    <3> HIDE DEF new
    <3> QED  BY <3>1, <3>3, <3>4 DEF k
  <2>3. call' = [call EXCEPT ![t] = new]
    BY <1>5 DEF Ask
  <2> HIDE DEF new
  <2>4. TypeOK'
    BY <1>1, <1>2, <1>5, <2>2, <2>3 DEF TypeOK
  <2> QED  BY <1>1, <1>2, <1>3, <1>4, <1>5, <2>2, <2>3, <2>4, TurnKeeps
<1>6. CASE Begin(t)
  <2>1. \A r \in Requests : r \in [op : Operation, key : Key]
    BY DEF Requests, Operation, Key
  <2> QED  BY <1>5, <1>6, <2>1, BeatType DEF Begin
<1>7. CASE Require(t)
  <2>1. PICK new \in {[call[t] EXCEPT !.pc = "lock"], Resting(call[t].n),
                      [call[t] EXCEPT !.as = client.actor, !.again = TRUE]} : call' = [call EXCEPT ![t] = new]
    BY <1>7 DEF Require
  <2>2. /\ new \in Caller /\ new.pc \in {"require", "lock", "ready"} /\ new.n = call[t].n
        /\ new.pc = "ready" => new.request = Beat
        /\ new.pc # "ready" => new.request = call[t].request
    <3>1. call[t].pc = "require" /\ call[t].n \in Nat
      BY <1>2, <1>7 DEF Require, Caller
    <3>2. Resting(call[t].n) \in Caller /\ Resting(call[t].n).pc = "ready"
          /\ Resting(call[t].n).n = call[t].n /\ Resting(call[t].n).request = Beat
      BY <3>1, RestingType
    <3>3. /\ [call[t] EXCEPT !.pc = "lock"] \in Caller /\ [call[t] EXCEPT !.pc = "lock"].pc = "lock"
          /\ [call[t] EXCEPT !.pc = "lock"].n = call[t].n
          /\ [call[t] EXCEPT !.pc = "lock"].request = call[t].request
      BY <1>2 DEF Caller
    <3>4. LET new4 == [call[t] EXCEPT !.as = client.actor, !.again = TRUE]
          IN  new4 \in Caller /\ new4.pc = call[t].pc /\ new4.n = call[t].n /\ new4.request = call[t].request
      BY <1>2 DEF Caller
    <3> QED  BY <2>1, <3>1, <3>2, <3>3, <3>4
  <2>3. TypeOK' /\ call[t].pc = "require"
    BY <1>1, <1>2, <1>7, <2>1, <2>2 DEF TypeOK, Require
  <2> QED  BY <1>1, <1>2, <1>3, <1>4, <2>1, <2>2, <2>3, TurnKeeps
<1>8. CASE Lock(t)
  <2>1. PICK next \in {"connect", "write"} :
            call' = [call EXCEPT ![t].pc = next] /\ (next = "connect" <=> client.conn = 0)
    BY <1>8 DEF Lock, Step
  <2>2. call[t].pc = "lock" /\ lock' = t
    BY <1>8 DEF Lock, Step
  <2>3. [call[t] EXCEPT !.pc = next] \in Caller
    BY <1>2 DEF Caller
  <2>4. /\ call'[t] = [call[t] EXCEPT !.pc = next]
        /\ call'[t].pc = next /\ call'[t].n = call[t].n /\ call'[t].request = call[t].request
        /\ \A u \in Threads \ {t} : call'[u] = call[u]
    BY <1>2, <2>1 DEF Caller
  <2>5. TypeOK'
    BY <1>1, <1>2, <2>1, <2>2, <2>3 DEF TypeOK
  <2> QED  BY <1>1, <1>3, <1>4, <2>1, <2>2, <2>4, <2>5, TurnKeeps
<1> QED  BY <1>6, <1>7, <1>8

LEMMA DeadlineKeeps ==
    ASSUME ClientInv, NEW t \in Threads, DeadlinePasses(t)
    PROVE  ClientInv'
<1> USE DEF ClientInv
<1>1. call \in [Threads -> Caller] /\ call' = [call EXCEPT ![t].late = TRUE]
  BY DEF TypeOK, DeadlinePasses
<1>2. [call[t] EXCEPT !.late = TRUE] \in Caller
  BY <1>1 DEF Caller
<1>3. UNCHANGED <<bound, server, client, lock, told, runs>>
  BY DEF DeadlinePasses, tables, history
<1>4. TypeOK'
  BY <1>1, <1>2, <1>3 DEF TypeOK
<1>5. SamePlace
  BY <1>1 DEF SamePlace, Caller
<1>6. Fades /\ HasRequest'
  BY <1>3 DEF Fades, HasRequest
<1> QED  BY <1>3, <1>4, <1>5, <1>6, FadingKeeps

\* connectAttemptLocked: the new connection starts with empty queues.
LEMMA HelloOpens ==
    ASSUME TypeOK, HasRequest, NEW c \in Connections, NEW lost \in BOOLEAN, Hello(c, lost)
    PROVE  /\ bound' \in Actor /\ server' \in [Connections -> Handler] /\ HasRequest' /\ Fades
           /\ server'[c].requests = <<>> /\ server'[c].replies = <<>> /\ server'[c].actor \in Actor
<1> DEFINE actor == IF bound = None THEN NextName ELSE bound
           provisional == bound = None \/ actor \in reserved
           opened == [Opened(actor, provisional) EXCEPT !.broken = lost]
<1>1. actor \in Actor /\ provisional \in BOOLEAN
  BY NextNameType DEF TypeOK
<1>2. bound' = actor /\ server' = [server EXCEPT ![c] = opened]
  BY DEF Hello
<1> HIDE DEF actor, provisional
<1>3. /\ opened \in Handler /\ opened.requests = <<>> /\ opened.replies = <<>> /\ opened.at = "reading"
  BY <1>1, OpenedType
<1> HIDE DEF opened
<1>4. server \in [Connections -> Handler]
  BY DEF TypeOK
<1>5. opened.actor \in Actor
  BY <1>3 DEF Handler
<1> QED  BY <1>1, <1>2, <1>3, <1>4, <1>5 DEF HasRequest, Fades

\* closeLocked
LEMMA Closes ==
    ASSUME TypeOK, HasRequest, client.conn # 0, CloseLocked
    PROVE  /\ server' \in [Connections -> Handler] /\ HasRequest' /\ Fades
           /\ client' \in [conn : Connections \cup {0}, actor : Actor, id : Nat]
           /\ client'.conn = 0 /\ client'.id = client.id
<1>1. client.conn \in Connections
  BY DEF TypeOK
<1>2. server \in [Connections -> Handler] /\ server[client.conn] \in Handler
  BY <1>1 DEF TypeOK
<1>3. [server[client.conn] EXCEPT !.broken = TRUE] \in Handler
  BY <1>2 DEF Handler
<1>4. server' \in [Connections -> Handler] /\ HasRequest' /\ Fades
  BY <1>1, <1>2, <1>3 DEF CloseLocked, HasRequest, Fades, Handler
<1> QED  BY <1>4 DEF CloseLocked, TypeOK

LEMMA ReturnKeeps ==
    ASSUME ClientInv, NEW t \in Threads, call[t].pc \in Holding, Returns(t),
           bound' \in Actor, server' \in [Connections -> Handler], HasRequest', Shrinks, AnswerIsOwn',
           UNCHANGED runs,
           client' \in [conn : Connections \cup {0}, actor : Actor, id : Nat],
           client' = client \/ (client'.conn = 0 /\ client'.id = client.id)
    PROVE  ClientInv'
<1> USE DEF ClientInv
<1>1. call \in [Threads -> Caller] /\ call[t].n \in Nat
  BY DEF TypeOK, Caller
<1>2. call' = [call EXCEPT ![t] = Resting(call[t].n)] /\ lock' = None
  BY DEF Returns
<1>3. \A u \in Threads \ {t} : call'[u] = call[u] /\ call[u].pc \notin Holding
  BY <1>1, <1>2, HolderIsAlone
<1>4. call'[t] \in Caller /\ call'[t].pc = "ready" /\ call'[t].n = call[t].n /\ call'[t].request = Beat
  BY <1>1, <1>2, RestingType
<1>5. call' \in [Threads -> Caller]
  BY <1>1, <1>2, RestingType
<1>6. TypeOK'
  BY <1>2, <1>5 DEF TypeOK
<1> QED  BY <1>3, <1>4, <1>6, TurnKeeps

LEMMA AgainKeeps ==
    ASSUME ClientInv, NEW t \in Threads, call[t].pc \in Holding, client.conn # 0, CloseLocked, Again(t),
           UNCHANGED <<bound, lock, told, runs>>,
           call[t].request.op \in Delicate => Unrun(call[t].n)
    PROVE  ClientInv'
<1> USE DEF ClientInv
<1>1. call \in [Threads -> Caller] /\ call[t] \in Caller
  BY DEF TypeOK
<1>2. call' = [call EXCEPT ![t] = [call[t] EXCEPT !.pc = "connect", !.tries = 1]]
  BY <1>1 DEF Again
<1>3. \A u \in Threads \ {t} : call'[u] = call[u] /\ call[u].pc \notin Holding
  BY <1>1, <1>2, HolderIsAlone
<1>4. /\ call'[t] \in Caller /\ call'[t].pc = "connect" /\ call'[t].n = call[t].n
      /\ call'[t].request = call[t].request
  <2>1. LET new == [call[t] EXCEPT !.pc = "connect", !.tries = 1]
        IN  new \in Caller /\ new.pc = "connect" /\ new.n = call[t].n /\ new.request = call[t].request
    BY <1>1 DEF Caller
  <2> QED  BY <1>1, <1>2, <2>1
<1>5. /\ server' \in [Connections -> Handler] /\ HasRequest' /\ Shrinks
      /\ client' \in [conn : Connections \cup {0}, actor : Actor, id : Nat]
      /\ client'.conn = 0 /\ client'.id = client.id
  BY Closes, FadesShrink
<1>6. TypeOK'
  <2>1. call' \in [Threads -> Caller]
    BY <1>1, <1>2, <1>4
  <2> QED  BY <1>5, <2>1 DEF TypeOK
<1>7. lock' = t /\ call[t].pc # "ready"
  BY DEF HoldsLock, Holding
<1>8. AnswerIsOwn'
  BY DEF AnswerIsOwn
<1> QED  BY <1>3, <1>4, <1>5, <1>6, <1>7, <1>8, TurnKeeps

\* Client.connectLocked
LEMMA ConnectKeeps ==
    ASSUME ClientInv, NEW t \in Threads, Connect(t)
    PROVE  ClientInv'
<1> USE DEF ClientInv
<1>1. call \in [Threads -> Caller] /\ call[t] \in Caller /\ call[t].pc = "connect"
  BY DEF TypeOK, Connect, Step
<1>2. call' = [call EXCEPT ![t] = [call[t] EXCEPT !.pc = "write"]] /\ UNCHANGED <<lock, told, runs>>
  BY <1>1 DEF Connect, Step, history
<1>3. \A u \in Threads \ {t} : call'[u] = call[u] /\ call[u].pc \notin Holding
  BY <1>1, <1>2, HolderIsAlone DEF Holding
<1>4. /\ call'[t] \in Caller /\ call'[t].pc = "write" /\ call'[t].n = call[t].n
      /\ call'[t].request = call[t].request
  <2>1. LET new == [call[t] EXCEPT !.pc = "write"]
        IN  new \in Caller /\ new.pc = "write" /\ new.n = call[t].n /\ new.request = call[t].request
    BY <1>1 DEF Caller
  <2> QED  BY <1>1, <1>2, <2>1
<1>5. PICK c \in Connections : Hello(c, FALSE) /\ client' = [conn |-> c, actor |-> server'[c].actor, id |-> 1]
  BY DEF Connect
<1>6. /\ bound' \in Actor /\ server' \in [Connections -> Handler] /\ HasRequest' /\ Shrinks
      /\ server'[c].requests = <<>> /\ server'[c].replies = <<>> /\ server'[c].actor \in Actor
  BY <1>5, HelloOpens, FadesShrink
<1>7. /\ client' \in [conn : Connections \cup {0}, actor : Actor, id : Nat]
      /\ client'.conn = c /\ client'.conn # 0
  BY <1>5, <1>6, ConnectionsAreNats
<1>8. TypeOK'
  <2>1. call' \in [Threads -> Caller]
    BY <1>1, <1>2, <1>4
  <2> QED  BY <1>2, <1>6, <1>7, <2>1 DEF TypeOK
<1>9. lock' = t
  BY <1>1, <1>2 DEF HoldsLock
<1>10. AnswerIsOwn'
  BY <1>2 DEF AnswerIsOwn
<1> QED  BY <1>1, <1>2, <1>3, <1>4, <1>6, <1>7, <1>8, <1>9, <1>10, TurnKeeps

\* A failed call gives up, or repeats an operation that may be repeated.
LEMMA FailureKeeps ==
    ASSUME ClientInv, NEW t \in Threads,
           HelloLost(t) \/ ConnectFails(t) \/ FirstFailure(t) \/ SecondFailure(t)
    PROVE  ClientInv'
<1> USE DEF ClientInv
<1>1. bound \in Actor /\ server \in [Connections -> Handler]
      /\ client \in [conn : Connections \cup {0}, actor : Actor, id : Nat]
  BY DEF TypeOK
<1>2. CASE HelloLost(t)
  <2>1. PICK c \in Connections : Hello(c, TRUE)
    BY <1>2 DEF HelloLost
  <2>2. bound' \in Actor /\ server' \in [Connections -> Handler] /\ HasRequest' /\ Shrinks
    BY <2>1, HelloOpens, FadesShrink
  <2>3. call[t].pc \in Holding /\ Returns(t) /\ UNCHANGED <<client, told, runs>> /\ AnswerIsOwn'
    BY <1>2 DEF HelloLost, Holding, AnswerIsOwn, history
  <2> QED  BY <1>1, <2>2, <2>3, ReturnKeeps
<1>3. CASE ConnectFails(t) \/ SecondFailure(t)
  <2>1. /\ call[t].pc \in Holding /\ Returns(t) /\ UNCHANGED <<bound, server, client, told, runs>>
        /\ AnswerIsOwn'
    BY <1>3 DEF ConnectFails, SecondFailure, TransportFails, Holding, AnswerIsOwn, tables, history
  <2>2. Shrinks /\ HasRequest'
    BY <2>1 DEF Shrinks, HasRequest
  <2> QED  BY <1>1, <2>1, <2>2, ReturnKeeps
<1>4. CASE FirstFailure(t)
  <2>1. /\ call[t].pc \in Holding /\ client.conn # 0 /\ CloseLocked /\ UNCHANGED <<bound, told, runs>>
        /\ AnswerIsOwn'
    BY <1>4 DEF FirstFailure, TransportFails, Holding, HoldsLock, AnswerIsOwn, tables, history
  <2>2. CASE Repeatable(call[t].request.op) /\ Again(t) /\ UNCHANGED lock
    <3>1. call[t].request.op \notin Delicate
      BY <2>2 DEF Repeatable, Delicate
    <3> QED  BY <2>1, <2>2, <3>1, AgainKeeps
  <2>3. CASE Returns(t)
    <3>1. /\ server' \in [Connections -> Handler] /\ HasRequest' /\ Shrinks
          /\ client' \in [conn : Connections \cup {0}, actor : Actor, id : Nat]
          /\ client'.conn = 0 /\ client'.id = client.id
      BY <2>1, Closes, FadesShrink
    <3> QED  BY <1>1, <2>1, <2>3, <3>1, ReturnKeeps
  <2> QED  BY <1>4, <2>2, <2>3 DEF FirstFailure
<1> QED  BY <1>2, <1>3, <1>4

\* A response is read: its identifier is the one that was waited for.
LEMMA ReadKeeps ==
    ASSUME ClientInv, NEW t \in Threads, Read(t)
    PROVE  ClientInv'
<1> USE DEF ClientInv
<1> DEFINE c == client.conn
           reply == Head(server[c].replies)
<1>1. /\ call[t].pc = "read" /\ call[t].pc \in Holding /\ Returns(t) /\ server[c].replies # <<>>
      /\ reply.id = client.id /\ server' = [server EXCEPT ![c].replies = Tail(server[c].replies)]
      /\ told' = told \cup {[asked |-> [by |-> t, n |-> call[t].n], answered |-> reply.to]}
      /\ UNCHANGED <<bound, client, runs>>
  BY DEF Read, Matches, Holding, tables
<1>2. c \in Connections /\ server[c] \in Handler /\ server \in [Connections -> Handler]
  BY <1>1 DEF TypeOK, HoldsLock
<1>3. server[c].replies \in Seq(Reply)
  BY <1>2 DEF Handler
<1>4. /\ reply = server[c].replies[1] /\ 1 \in 1 .. Len(server[c].replies)
      /\ Tail(server[c].replies) \in Seq(Reply)
      /\ \A i \in 1 .. Len(Tail(server[c].replies)) :
            /\ i + 1 \in 1 .. Len(server[c].replies)
            /\ Tail(server[c].replies)[i] = server[c].replies[i + 1]
  BY <1>1, <1>3, Popped
<1>5. reply.to = [by |-> t, n |-> call[t].n]
  <2>1. \A i \in 1 .. Len(server[c].replies) :
            server[c].replies[i].id = client.id => server[c].replies[i].to = [by |-> t, n |-> call[t].n]
    BY <1>1, <1>2 DEF OwnIsNewest
  <2> HIDE DEF reply
  <2> QED  BY <1>1, <1>4, <2>1
<1>6. AnswerIsOwn'
  BY <1>1, <1>5 DEF AnswerIsOwn
<1> DEFINE rest == Tail(server[c].replies)
           after == [server[c] EXCEPT !.replies = rest]
<1>7. rest \in Seq(Reply) /\ \A i \in 1 .. Len(rest) : \E j \in 1 .. Len(server[c].replies) :
          rest[i] = server[c].replies[j]
  BY <1>4
<1>8. server' = [server EXCEPT ![c] = after]
  BY <1>1, <1>2
<1> HIDE DEF c, rest, reply
<1>9. after \in Handler /\ after.replies = rest /\ after.requests = server[c].requests /\ after.at = server[c].at
  BY <1>2, <1>7 DEF Handler
<1> HIDE DEF after
<1>10. /\ server' \in [Connections -> Handler] /\ server'[c] = after
       /\ \A d \in Connections \ {c} : server'[d] = server[d]
  BY <1>2, <1>8, <1>9
<1>11. HasRequest' /\ Shrinks
  BY <1>7, <1>9, <1>10 DEF HasRequest, Shrinks
<1>12. bound \in Actor /\ client \in [conn : Connections \cup {0}, actor : Actor, id : Nat]
  BY DEF TypeOK
<1> QED  BY <1>1, <1>6, <1>10, <1>11, <1>12, ReturnKeeps

\* binding_reassigned: the request that the daemon says it has not run, it has not.
LEMMA ReassignedKeeps ==
    ASSUME ClientInv, NEW t \in Threads, Reassigned(t)
    PROVE  ClientInv'
<1> USE DEF ClientInv
<1> DEFINE c == client.conn
           reply == Head(server[c].replies)
<1>1. /\ call[t].pc = "read" /\ call[t].pc \in Holding /\ CloseLocked /\ Again(t)
      /\ server[c].replies # <<>> /\ reply.id = client.id /\ reply.outcome = "reassigned"
      /\ UNCHANGED <<bound, lock, told, runs>>
  BY DEF Reassigned, Matches, Holding, tables, history
<1>2. client.conn # 0 /\ c \in Connections
  BY <1>1 DEF HoldsLock, TypeOK
<1>3. server[c].replies \in Seq(Reply)
  BY <1>2 DEF TypeOK, Handler
<1>4. reply = server[c].replies[1] /\ 1 \in 1 .. Len(server[c].replies)
  BY <1>1, <1>3, Popped
<1>5. call[t].request.op \in Delicate => Unrun(call[t].n)
  <2>1. CASE t = "tool"
    BY <1>1, <1>2, <1>4, <2>1 DEF UnwrittenIsUnrun
  <2>2. CASE t = "heartbeat"
    BY <2>2, BeatType DEF CallsAreCounted
  <2> QED  BY <2>1, <2>2 DEF Threads
<1> QED  BY <1>1, <1>2, <1>5, AgainKeeps

\* callOnceLocked: a request with a new identifier, of a call that has not run.
LEMMA WriteKeeps ==
    ASSUME ClientInv, NEW t \in Threads, Write(t)
    PROVE  ClientInv'
<1> USE DEF ClientInv
<1> DEFINE c == client.conn
           k == call[t]
           old == server[c].requests
           r == [id |-> client.id + 1, from |-> [by |-> t, n |-> k.n], op |-> k.request.op,
                 key |-> k.request.key, thread |-> IF k.request.op = "send" THEN k.as ELSE None]
           queue == Append(old, r)
           after == [server[c] EXCEPT !.requests = queue]
<1>1. /\ k.pc = "write" /\ call' = [call EXCEPT ![t].pc = "read"]
      /\ client' = [client EXCEPT !.id = client.id + 1]
      /\ server' = [server EXCEPT ![c].requests = queue]
      /\ UNCHANGED <<bound, lock, told, runs>>
  BY DEF Write, Step, tables, history, TypeOK
<1>2. /\ call \in [Threads -> Caller] /\ k \in Caller /\ k.n \in Nat
      /\ client \in [conn : Connections \cup {0}, actor : Actor, id : Nat] /\ client.id \in Nat
      /\ server \in [Connections -> Handler]
  BY DEF TypeOK, Caller
<1>3. c \in Connections /\ lock = t
  BY <1>1, <1>2 DEF HoldsLock
<1>4. server[c] \in Handler /\ old \in Seq(Sent)
  BY <1>2, <1>3 DEF Handler
<1>5. /\ r \in Sent /\ r.id = client.id + 1 /\ r.from = [by |-> t, n |-> k.n] /\ r.op = k.request.op
      /\ r.from.by = t /\ r.from.n = k.n
  <2>1. k.request \in [op : Operation, key : Key] /\ k.as \in Actor /\ None \in Actor
    BY <1>2 DEF Caller, Actor
  <2> HIDE DEF k
  <2> QED  BY <1>2, <2>1 DEF Sent, Asker
<1>6. \A u \in Threads \ {t} : call'[u] = call[u] /\ call[u].pc \notin Holding
  BY <1>1, <1>2, HolderIsAlone DEF Holding
<1>7. /\ call'[t] \in Caller /\ call'[t].pc = "read" /\ call'[t].n = k.n /\ call'[t].request = k.request
      /\ call' \in [Threads -> Caller]
  <2>1. /\ [k EXCEPT !.pc = "read"] \in Caller /\ [k EXCEPT !.pc = "read"].pc = "read"
        /\ [k EXCEPT !.pc = "read"].n = k.n /\ [k EXCEPT !.pc = "read"].request = k.request
    BY <1>2 DEF Caller
  <2> QED  BY <1>1, <1>2, <2>1
<1>8. client'.conn = c /\ client'.id = client.id + 1
      /\ client' \in [conn : Connections \cup {0}, actor : Actor, id : Nat]
  BY <1>1, <1>2
<1> HIDE DEF r
<1>9. /\ queue \in Seq(Sent) /\ Len(old) \in Nat /\ Len(queue) = Len(old) + 1
      /\ \A i \in 1 .. Len(old) : queue[i] = old[i]
      /\ queue[Len(old) + 1] = r
  BY <1>4, <1>5, Pushed
<1>10. server' = [server EXCEPT ![c] = after]
  BY <1>1, <1>2
<1> HIDE DEF queue
<1>11. /\ after \in Handler /\ after.requests = queue /\ after.replies = server[c].replies
       /\ after.at = server[c].at
  BY <1>4, <1>9 DEF Handler
<1> HIDE DEF after
<1>12. /\ server' \in [Connections -> Handler] /\ server'[c] = after
       /\ \A d \in Connections \ {c} : server'[d] = server[d]
  BY <1>2, <1>3, <1>10, <1>11
<1>13. TypeOK'
  BY <1>1, <1>7, <1>8, <1>12 DEF TypeOK
<1>14. ASSUME NEW d \in Connections, NEW i \in 1 .. Len(server'[d].requests)
       PROVE  \/ i \in 1 .. Len(server[d].requests) /\ server'[d].requests[i] = server[d].requests[i]
              \/ d = c /\ i = Len(old) + 1 /\ server'[d].requests[i] = r
  <2>1. CASE d # c
    BY <1>12, <2>1
  <2>2. CASE d = c
    <3>1. i \in 1 .. Len(queue) /\ server'[d].requests = queue
      BY <1>11, <1>12, <2>2
    <3>2. i \in 1 .. Len(old) \/ i = Len(old) + 1
      BY <1>9, <3>1
    <3> QED  BY <1>9, <2>2, <3>1, <3>2
  <2> QED  BY <2>1, <2>2
<1>15. \A d \in Connections : server'[d].replies = server[d].replies /\ server'[d].at = server[d].at
  BY <1>11, <1>12
<1>16. HasRequest'
  <2>1. queue # <<>>
    BY <1>9, EmptyQueue
  <2> QED  BY <1>11, <1>12, <1>15, <2>1 DEF HasRequest
<1>17. HoldsLock' /\ AnswerIsOwn'
  BY <1>1, <1>3, <1>6, <1>7, <1>8, ConnectionsAreNats DEF HoldsLock, AnswerIsOwn, Holding
<1>18. "tool" \in Threads /\ "heartbeat" \in Threads /\ Threads = {"tool", "heartbeat"}
  BY DEF Threads
<1>19. CallsAreCounted'
  BY <1>1, <1>6, <1>7, <1>18 DEF CallsAreCounted
<1>20. r.op \in Delicate => t = "tool" /\ k.n \in 1 .. MaxCalls /\ Unrun(k.n)
  <2>1. CASE t = "heartbeat"
    BY <1>5, <2>1, BeatType DEF CallsAreCounted
  <2>2. CASE t = "tool"
    <3>1. k.n \in 1 .. MaxCalls
      BY <1>1, <1>2, <2>2, MaxCallsIsNat DEF CallsAreCounted
    <3>2. r.op \in Delicate => Unrun(k.n)
      BY <1>1, <1>5, <2>2 DEF UnwrittenIsUnrun
    <3> QED  BY <2>2, <3>1, <3>2
  <2> QED  BY <1>18, <2>1, <2>2
<1>21. DelicateAreTool'
  <2> SUFFICES ASSUME NEW d \in Connections, NEW i \in 1 .. Len(server'[d].requests),
                      server'[d].requests[i].op \in Delicate
               PROVE  server'[d].requests[i].from.by = "tool" /\ server'[d].requests[i].from.n \in 1 .. MaxCalls
    BY DEF DelicateAreTool
  <2>1. CASE i \in 1 .. Len(server[d].requests) /\ server'[d].requests[i] = server[d].requests[i]
    BY <2>1 DEF DelicateAreTool
  <2>2. CASE server'[d].requests[i] = r
    BY <1>5, <1>20, <2>2
  <2> QED  BY <1>14, <2>1, <2>2
<1>22. IdsAreOld'
  <2>1. /\ \A i \in 1 .. Len(server[c].requests) : server[c].requests[i].id <= client.id
        /\ \A i \in 1 .. Len(server[c].replies) : server[c].replies[i].id <= client.id
    BY <1>3 DEF IdsAreOld
  <2>2. \A i \in 1 .. Len(server[c].requests) : server[c].requests[i] \in Sent
    BY <1>4, Elements
  <2>3. \A i \in 1 .. Len(server[c].replies) : server[c].replies[i] \in Reply
    <3>1. server[c].replies \in Seq(Reply)
      BY <1>4 DEF Handler
    <3> QED  BY <3>1, Elements
  <2>4. ASSUME NEW i \in 1 .. Len(server'[c].requests)
        PROVE  server'[c].requests[i].id <= client.id + 1
    <3>1. CASE server'[c].requests[i] = r
      BY <1>2, <1>5, <3>1
    <3>2. CASE i \in 1 .. Len(server[c].requests) /\ server'[c].requests[i] = server[c].requests[i]
      <4>1. server[c].requests[i].id \in Nat /\ server[c].requests[i].id <= client.id
        BY <2>1, <2>2, <3>2 DEF Sent
      <4> QED  BY <1>2, <3>2, <4>1
    <3> QED  BY <1>3, <1>14, <3>1, <3>2
  <2>5. \A i \in 1 .. Len(server'[c].replies) : server'[c].replies[i].id <= client.id + 1
    <3>1. \A i \in 1 .. Len(server[c].replies) : server[c].replies[i].id \in Nat
      BY <2>3 DEF Reply
    <3> QED  BY <1>2, <1>3, <1>15, <2>1, <3>1
  <2> QED  BY <1>8, <2>4, <2>5 DEF IdsAreOld
<1>23. /\ \A i \in 1 .. Len(server[c].requests) : server[c].requests[i].id # client.id + 1
       /\ \A i \in 1 .. Len(server[c].replies) : server[c].replies[i].id # client.id + 1
  <2>1. /\ \A i \in 1 .. Len(server[c].requests) : server[c].requests[i].id <= client.id
        /\ \A i \in 1 .. Len(server[c].replies) : server[c].replies[i].id <= client.id
    BY <1>3 DEF IdsAreOld
  <2> QED  BY <1>2, <2>1
<1>24. OwnIsNewest'
  <2>1. \A u \in Threads : call'[u].pc = "read" => u = t
    BY <1>6 DEF Holding
  <2>2. \A i \in 1 .. Len(server'[c].requests) :
            server'[c].requests[i].id = client.id + 1 => server'[c].requests[i] = r
    BY <1>3, <1>14, <1>23
  <2>3. \A i \in 1 .. Len(server'[c].replies) : server'[c].replies[i].id # client.id + 1
    BY <1>3, <1>15, <1>23
  <2> QED  BY <1>5, <1>7, <1>8, <2>1, <2>2, <2>3 DEF OwnIsNewest
<1>25. ASSUME NEW n, NEW d \in Connections, NEW i, Waits(n, d, i)'
       PROVE  \/ Waits(n, d, i)
              \/ d = c /\ i = Len(old) + 1 /\ r.op \in Delicate /\ n = k.n
  BY <1>5, <1>14, <1>25 DEF Waits
<1>26. WaitsOnce'
  <2> SUFFICES ASSUME NEW n \in 1 .. MaxCalls
               PROVE  /\ \A d, e \in Connections, i, j \in Nat :
                            Waits(n, d, i)' /\ Waits(n, e, j)' => d = e /\ i = j
                      /\ \A d \in Connections, i \in Nat : Waits(n, d, i)' => runs[n] = 0
                      /\ runs[n] <= 1
    BY <1>1 DEF WaitsOnce
  <2>1. CASE r.op \in Delicate /\ n = k.n
    <3>1. Unrun(n)
      BY <1>20, <2>1
    <3>2. \A d \in Connections, i \in Nat : Waits(n, d, i)' => d = c /\ i = Len(old) + 1
      BY <1>25, <3>1 DEF Unrun
    <3> QED  BY <3>1, <3>2 DEF Unrun, WaitsOnce
  <2>2. CASE ~(r.op \in Delicate /\ n = k.n)
    <3>1. \A d \in Connections, i \in Nat : Waits(n, d, i)' => Waits(n, d, i)
      BY <1>25, <2>2
    <3> QED  BY <3>1 DEF WaitsOnce
  <2> QED  BY <2>1, <2>2
<1>27. ASSUME NEW n \in Nat, Unrun(n), ~(r.op \in Delicate /\ n = k.n)
       PROVE  Unrun(n)'
  BY <1>1, <1>25, <1>27 DEF Unrun
<1>28. UnwrittenIsUnrun'
  <2>1. ASSUME NEW n \in 1 .. MaxCalls, n > call'["tool"].n PROVE Unrun(n)'
    <3>1. call'["tool"].n = call["tool"].n /\ call["tool"].n \in Nat /\ n \in Nat
      BY <1>2, <1>6, <1>7, <1>18, MaxCallsIsNat DEF Caller
    <3>2. ~(r.op \in Delicate /\ n = k.n)
      BY <1>20, <2>1, <3>1
    <3>3. Unrun(n)
      BY <2>1, <3>1 DEF UnwrittenIsUnrun
    <3> QED  BY <1>27, <3>1, <3>2, <3>3
  <2>2. ASSUME NEW n \in Nat, n = call'["tool"].n, call'["tool"].request.op \in Delicate,
               call'["tool"].pc \in {"require", "lock", "connect", "write"}
        PROVE  Unrun(n)'
    <3>1. t # "tool"
      BY <1>7, <2>2
    <3>2. call'["tool"] = call["tool"] /\ r.op \notin Delicate
      BY <1>6, <1>18, <1>20, <3>1
    <3>3. Unrun(n)
      BY <2>2, <3>2 DEF UnwrittenIsUnrun
    <3> QED  BY <1>27, <3>2, <3>3
  <2>3. \A d \in Connections : client'.conn = d =>
            \A i \in 1 .. Len(server'[d].replies) : server'[d].replies[i].id # client'.id
    BY <1>8, <1>15, <1>23
  <2>4. call'["tool"].n \in Nat
    BY <1>7, <1>18 DEF Caller
  <2> QED  BY <2>1, <2>2, <2>3, <2>4 DEF UnwrittenIsUnrun
<1> QED  BY <1>13, <1>16, <1>17, <1>19, <1>21, <1>22, <1>24, <1>26, <1>28

-----------------------------------------------------------------------------
(* The specification. *)

LEMMA ClientInit == Init => ClientInv
<1> SUFFICES ASSUME Init PROVE ClientInv
  OBVIOUS
<1>1. bound \in Actor /\ None \in Actor
  BY NamesAreNats DEF Init, Actor
<1>2. PICK provisional \in BOOLEAN :
          server = [c \in Connections |-> IF c = 1 THEN Opened(bound, provisional) ELSE Closed]
  BY DEF Init
<1>3. \A c \in Connections : /\ server[c] \in Handler /\ server[c].requests = <<>> /\ server[c].replies = <<>>
                             /\ server[c].at \in {"closed", "reading"}
  <2>1. /\ Closed \in Handler /\ Closed.requests = <<>> /\ Closed.replies = <<>> /\ Closed.at = "closed"
    BY <1>1, OpenedType
  <2>2. /\ Opened(bound, provisional) \in Handler /\ Opened(bound, provisional).requests = <<>>
        /\ Opened(bound, provisional).replies = <<>> /\ Opened(bound, provisional).at = "reading"
    BY <1>1, OpenedType DEF Opened, Closed
  <2> HIDE DEF Opened, Closed
  <2> QED  BY <1>2, <2>1, <2>2
<1>4. \A t \in Threads : /\ call[t] = Resting(0) /\ call[t].pc = "ready" /\ call[t].n = 0
                         /\ call[t] \in Caller /\ call[t].request = Beat
  BY RestingType DEF Init
<1>5. TypeOK
  <2>1. client \in [conn : Connections \cup {0}, actor : Actor, id : Nat]
    BY <1>1, ConnectionsAreNats DEF Init
  <2>2. call \in [Threads -> Caller]
    <3>1. Resting(0) \in Caller
      BY RestingType
    <3> QED  BY <3>1 DEF Init
  <2>3. server \in [Connections -> Handler]
    BY <1>2, <1>3
  <2> QED  BY <1>1, <2>1, <2>2, <2>3 DEF Init, TypeOK
<1>6. \A n, i : \A c \in Connections : ~Waits(n, c, i)
  BY <1>3, EmptyQueue DEF Waits
<1>7. WaitsOnce /\ (\A n \in 1 .. MaxCalls : Unrun(n))
  BY <1>6 DEF Init, WaitsOnce, Unrun
<1>8. "tool" \in Threads /\ "heartbeat" \in Threads
  BY DEF Threads
<1>9. HoldsLock /\ HasRequest /\ CallsAreCounted
  BY <1>3, <1>4, <1>8, MaxCallsIsNat DEF HoldsLock, HasRequest, CallsAreCounted
<1>10. DelicateAreTool /\ IdsAreOld /\ OwnIsNewest
  BY <1>3, <1>4, EmptyQueue DEF DelicateAreTool, IdsAreOld, OwnIsNewest
<1>11. UnwrittenIsUnrun /\ AnswerIsOwn
  BY <1>4, <1>7, <1>8 DEF UnwrittenIsUnrun, AnswerIsOwn, Init
<1> QED  BY <1>5, <1>7, <1>9, <1>10, <1>11 DEF ClientInv

LEMMA DaemonKeeps ==
    ASSUME ClientInv, DaemonStep
    PROVE  ClientInv'
<1>1. /\ TypeOK' /\ HasRequest' /\ UNCHANGED <<process, told>>
      /\ \/ Fades /\ UNCHANGED runs
         \/ \E c \in Connections : (Serves(c, "not_found") \/ Serves(c, "reassigned")) /\ UNCHANGED runs
         \/ \E c \in Connections : \E outcome \in {"ok", "conflict"} :
               /\ Serves(c, outcome)
               /\ LET r == Head(server[c].requests)
                  IN  runs' = IF r.op \in Delicate THEN [runs EXCEPT ![r.from.n] = @ + 1] ELSE runs
  BY DaemonFades DEF ClientInv
<1>2. CASE Fades /\ UNCHANGED runs
  BY <1>1, <1>2, FadingKeeps DEF process, SamePlace
<1>3. CASE \E c \in Connections : (Serves(c, "not_found") \/ Serves(c, "reassigned")) /\ UNCHANGED runs
  <2>1. PICK c \in Connections : (Serves(c, "not_found") \/ Serves(c, "reassigned")) /\ UNCHANGED runs
    BY <1>3
  <2>2. PICK outcome \in {"not_found", "reassigned"} : Serves(c, outcome)
    BY <2>1
  <2>3. outcome \notin {"ok", "conflict"} /\ outcome \in {"ok", "conflict", "not_found", "reassigned"}
    BY <2>2
  <2> QED  BY <1>1, <2>1, <2>2, <2>3, ServingKeeps
<1>4. CASE \E c \in Connections : \E outcome \in {"ok", "conflict"} :
              /\ Serves(c, outcome)
              /\ LET r == Head(server[c].requests)
                 IN  runs' = IF r.op \in Delicate THEN [runs EXCEPT ![r.from.n] = @ + 1] ELSE runs
  BY <1>1, <1>4, ServingKeeps
<1> QED  BY <1>1, <1>2, <1>3, <1>4

LEMMA ClientStep == ClientInv /\ [Next]_vars => ClientInv'
<1> SUFFICES ASSUME ClientInv, [Next]_vars PROVE ClientInv'
  OBVIOUS
<1>1. CASE DaemonStep
  BY <1>1, DaemonKeeps
<1>2. ASSUME NEW t \in Threads,
             Begin(t) \/ Require(t) \/ DeadlinePasses(t) \/ Lock(t) \/ Continue(t)
      PROVE  ClientInv'
  BY <1>2, BeginKeeps, DeadlineKeeps, ConnectKeeps, FailureKeeps, WriteKeeps, ReadKeeps, ReassignedKeeps
     DEF Continue
<1>3. CASE UNCHANGED vars
  <2>1. UNCHANGED <<bound, server, client, lock, call, told, runs>>
    BY <1>3 DEF vars, tables, process, history
  <2>2. TypeOK' /\ HasRequest' /\ Fades /\ SamePlace
    BY <2>1 DEF ClientInv, TypeOK, HasRequest, Fades, SamePlace
  <2> QED  BY <2>1, <2>2, FadingKeeps
<1> QED  BY <1>1, <1>2, <1>3 DEF Next, DaemonStep

\* The mutex has one holder, the identifier it waits for is the newest on its
\* connection, and a call that may not be repeated waits once or has run once.
THEOREM ClientInvariance == Spec => []ClientInv
BY ClientInit, ClientStep, PTL DEF Spec

\* A claim and a capability write run at most once, through all reconnections,
\* repetitions after binding_reassigned and handlers that outlive their client.
THEOREM RunsOnce == Spec => []RunAtMostOnce
<1>1. ClientInv => RunAtMostOnce
  BY DEF ClientInv, WaitsOnce, RunAtMostOnce
<1> QED  BY <1>1, ClientInvariance, PTL

\* No call is given the answer of another, also not one that an earlier call
\* left under way on the connection.
THEOREM AnswersAreOwn == Spec => []AnswerIsOwn
<1>1. ClientInv => AnswerIsOwn
  BY DEF ClientInv
<1> QED  BY <1>1, ClientInvariance, PTL
=============================================================================
