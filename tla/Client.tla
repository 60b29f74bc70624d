-------------------------------- MODULE Client --------------------------------
(***************************************************************************)
(* One MCP server process and its api.Client: the tool calls of the agent  *)
(* and the heartbeat share one connection to the daemon and one mutex.     *)
(* A call that fails is repeated by three layers: the client reconnects    *)
(* after a transport failure or when the daemon says that the connection's *)
(* name was reassigned, the MCP server asks again when the identity was    *)
(* rebound under it, and the agent repeats a request with its key.         *)
(*                                                                         *)
(* The daemon handles the requests of a connection one after the other,    *)
(* each in up to three transactions, and goes on with the one in hand when *)
(* the client has long given it up.  What BindActor does is reduced to one *)
(* process handle: it leads to a reservation, to an actor minted from it   *)
(* or to the actor of the session that a hook resumed (see Identity).      *)
(***************************************************************************)
EXTENDS Naturals, Sequences

CONSTANTS
    Names,          \* what the daemon mints, in order
    Session,        \* the actor of the resumed session
    None,
    Keys,           \* idempotency keys of the agent's messages
    Ops,            \* bound: what the agent asks for besides
    Connections,
    MaxCalls,       \* bound: tool calls
    MaxBeats,       \* bound: heartbeats
    MaxFaults       \* bound: broken connections, crashes, failed dials

ASSUME SessionIsNotMinted == Session \notin Names /\ None \notin Names \cup {Session}
ASSUME NamesAreNats       == Names \subseteq Nat /\ 1 \in Names
ASSUME ConnectionsAreNats == Connections \subseteq Nat \ {0} /\ 1 \in Connections
ASSUME MaxCallsIsNat      == MaxCalls \in Nat

VARIABLES
    bound,       \* continuity_bindings, of the process handle
    reserved,    \* actor_allocations that are provisional
    known,       \* actor_names
    message,     \* messages table
    server,      \* serveConnection, per connection
    client,      \* api.Client: the connection, the identity and the last id
    lock,        \* its mutex
    call,        \* what each goroutine is doing
    told,        \* history: which call's answer each call was given
    runs,        \* history: how often the daemon ran each tool call that
                 \* nobody may repeat
    faults

tables  == <<bound, reserved, known, message>>
process == <<client, lock, call>>
history == <<told, runs>>
vars    == <<tables, server, process, history, faults>>

Threads == {"tool", "heartbeat"}
ASSUME NoneIsNoThread == None \notin Threads

-----------------------------------------------------------------------------
Beat     == [op |-> "heartbeat_registrations", key |-> None]

\* "neither a claim nor a generic capability write is silently repeated"
Delicate == {"claim", "invoke_write_capability"}

Requests == [op : {"send"}, key : Keys] \cup [op : Ops, key : {None}]

Closed == [at |-> "closed", actor |-> None, provisional |-> FALSE, broken |-> TRUE,
           requests |-> <<>>, replies |-> <<>>]

Opened(actor, provisional) ==
    [Closed EXCEPT !.at = "reading", !.actor = actor, !.provisional = provisional, !.broken = FALSE]

Resting(n) == [pc |-> "ready", n |-> n, request |-> Beat, as |-> None,
               tries |-> 0, again |-> FALSE, late |-> FALSE]

\* The process has just dialled, before or after the session's hook.
Init ==
    /\ bound \in {1, Session}
    /\ reserved = {bound} \ {Session}
    /\ known    = {Session}
    /\ message  = {}
    /\ server   = [c \in Connections |-> IF c = 1 THEN Opened(bound, bound # Session) ELSE Closed]
    /\ client   = [conn |-> 1, actor |-> bound, id |-> 1]
    /\ lock     = None
    /\ call     = [t \in Threads |-> Resting(0)]
    /\ told     = {}
    /\ runs     = [n \in 1 .. MaxCalls |-> 0]
    /\ faults   = 0

\* provisionalActorIdleTx
Idle(a) == a \in reserved /\ \A m \in message : m.from # a

-----------------------------------------------------------------------------
(* The daemon. *)

\* finalizesProvisionalActor
Finalizes(op) ==
    op \notin {"ping", "list_events", "who", "list_aliases", "resolve_alias", "list_capabilities",
               "invoke_read_capability", "live_registrations", "heartbeat_registrations", "list_conditions"}

\* The response is written, or cannot be and the handler returns.
Answers(c, outcome) ==
    LET r == Head(server[c].requests)
        s == [server[c] EXCEPT !.requests = Tail(@)]
    IN  IF s.broken THEN [s EXCEPT !.at = "ending"]
        ELSE [s EXCEPT !.at = "reading",
                       !.replies = Append(@, [id |-> r.id, to |-> r.from, outcome |-> outcome])]

\* CurrentActorForContinuity, before each request of a provisional connection.
Check(c) ==
    /\ server[c].at = "reading" /\ server[c].provisional /\ server[c].requests # <<>>
    /\ server' = [server EXCEPT ![c] =
                     IF bound = server[c].actor
                     THEN [@ EXCEPT !.at = IF Finalizes(Head(server[c].requests).op) THEN "finalize" ELSE "run"]
                     ELSE Answers(c, IF bound = None THEN "not_found" ELSE "reassigned")]
    /\ UNCHANGED <<tables, process, history, faults>>

\* FinalizeActorAllocation: no row, no error.
FinalizeActorAllocation(c) ==
    /\ server[c].at = "finalize"
    /\ server'   = [server EXCEPT ![c].at = "run", ![c].provisional = FALSE]
    /\ known'    = known \cup ({server[c].actor} \cap reserved)
    /\ reserved' = reserved \ {server[c].actor}
    /\ UNCHANGED <<bound, message, process, history, faults>>

\* The message that a key of the sender already stands for.
Stored(actor, r) == {m \in message : m.from = actor /\ m.key = r.key}

\* Store.Send; the retry of another request under the key is refused.
Send(actor, r) ==
    LET m == [from |-> actor, key |-> r.key, thread |-> r.thread]
    IN  /\ message' = IF Stored(actor, r) = {} THEN message \cup {m} ELSE message
        /\ known'   = IF Stored(actor, r) = {} THEN known \cup {actor} ELSE known

Outcome(actor, r) ==
    IF r.op = "send" /\ \E m \in Stored(actor, r) : m.thread # r.thread THEN "conflict" ELSE "ok"

\* The request's own transaction.
Run(c) ==
    LET r     == Head(server[c].requests)
        actor == server[c].actor
    IN  /\ \/ server[c].at = "run"
           \/ server[c].at = "reading" /\ ~server[c].provisional /\ server[c].requests # <<>>
        /\ IF r.op = "send" THEN Send(actor, r) ELSE UNCHANGED <<message, known>>
        /\ server' = [server EXCEPT ![c] = Answers(c, Outcome(actor, r))]
        /\ runs' = IF r.op \in Delicate THEN [runs EXCEPT ![r.from.n] = @ + 1] ELSE runs
        /\ UNCHANGED <<bound, reserved, process, told, faults>>

\* A hang-up ends the read, fails the write or cancels the transaction.
HangUp(c) ==
    /\ server[c].at \notin {"closed", "ending"} /\ server[c].broken
    /\ server' = [server EXCEPT ![c].at = "ending"]
    /\ UNCHANGED <<tables, process, history, faults>>

\* The deferred ReleaseProvisionalActor.
End(c) ==
    /\ server[c].at = "ending"
    /\ server' = [server EXCEPT ![c] = Closed]
    /\ IF server[c].provisional /\ Idle(server[c].actor)
       THEN /\ reserved' = reserved \ {server[c].actor}
            /\ bound'    = IF bound = server[c].actor THEN None ELSE bound
       ELSE UNCHANGED <<reserved, bound>>
    /\ UNCHANGED <<known, message, process, history, faults>>

\* The SessionStart hook's hello carries the session and the process.
HookBinds ==
    /\ bound = None \/ (bound \in Names /\ Idle(bound))
    /\ bound'    = Session
    /\ reserved' = reserved \ {bound}
    /\ UNCHANGED <<known, message, server, process, history, faults>>

Break(c) ==
    /\ faults < MaxFaults /\ server[c].at # "closed" /\ ~server[c].broken
    /\ server' = [server EXCEPT ![c].broken = TRUE]
    /\ faults' = faults + 1
    /\ UNCHANGED <<tables, process, history>>

\* The daemon restarts; opening the store drops the reservations nobody used.
Crash ==
    /\ faults < MaxFaults
    /\ server'   = [c \in Connections |-> Closed]
    /\ reserved' = {a \in reserved : ~Idle(a)}
    /\ bound'    = IF Idle(bound) THEN None ELSE bound
    /\ faults'   = faults + 1
    /\ UNCHANGED <<known, message, process, history>>

-----------------------------------------------------------------------------
(* A call of the MCP server, of its tool loop or its heartbeat. *)

Step(t, from, to) == call[t].pc = from /\ call' = [call EXCEPT ![t].pc = to]

\* The methods of Client that call requireActor first.
Compared(op) ==
    op \in {"check_inbox", "wait_attention", "monitor_attach", "claim", "ack", "extend", "nack",
            "set_actor_profile", "register_session", "live_registrations", "record_hydration",
            "expire_registration", "heartbeat_registrations"}

Ask(t, request) ==
    call' = [call EXCEPT ![t] = [Resting(@.n + 1) EXCEPT !.request = request, !.as = client.actor,
                                    !.pc = IF Compared(request.op) THEN "require" ELSE "lock"]]

\* callTool and heartbeat read the identity first.
Begin(t) ==
    /\ call[t].pc = "ready" /\ lock = None
    /\ \/ t = "tool" /\ call[t].n < MaxCalls /\ \E r \in Requests : Ask(t, r)
       \/ t = "heartbeat" /\ call[t].n < MaxBeats /\ Ask(t, Beat)
    /\ UNCHANGED <<tables, server, client, lock, history, faults>>

\* requireActor; withBoundIdentityRetry asks once more if the identity moved.
Require(t) ==
    /\ call[t].pc = "require" /\ lock = None
    /\ call' = [call EXCEPT ![t] =
                   IF client.actor = @.as THEN [@ EXCEPT !.pc = "lock"]
                   ELSE IF @.again THEN Resting(@.n)
                   ELSE [@ EXCEPT !.as = client.actor, !.again = TRUE]]
    /\ UNCHANGED <<tables, server, client, lock, history, faults>>

\* The deadline of Client.call runs while it waits for the mutex, too.
DeadlinePasses(t) ==
    /\ call[t].pc \in {"lock", "connect", "write", "read"} /\ ~call[t].late
    /\ call' = [call EXCEPT ![t].late = TRUE]
    /\ UNCHANGED <<tables, server, client, lock, history, faults>>

\* Variant of TimesOut: the deadline is not set on the connection.
TimesOut_never(t) == call[t].pc = "connect" /\ call[t].late

\* callOnceLocked and connectAttemptLocked set it on the connection.
TimesOut(t) == call[t].late

Lock(t) ==
    /\ lock = None
    /\ Step(t, "lock", IF client.conn = 0 THEN "connect" ELSE "write")
    /\ lock' = t
    /\ UNCHANGED <<tables, server, client, history, faults>>

Returns(t) ==
    /\ call' = [call EXCEPT ![t] = Resting(@.n)]
    /\ lock' = None

Unused   == Names \ (known \cup reserved)
NextName == CHOOSE a \in Unused : \A b \in Unused : a <= b
Free     == {c \in Connections : server[c].at = "closed"}

\* The daemon's side of a hello: BindActor finds the binding or makes a
\* reservation, and the connection c becomes that actor's.
Hello(c, lost) ==
    LET new   == bound = None
        actor == IF new THEN NextName ELSE bound
    IN  /\ new => Unused # {}
        /\ c \in Free /\ \A d \in Free : c <= d
        /\ bound'    = actor
        /\ reserved' = IF new THEN reserved \cup {actor} ELSE reserved
        /\ server'   = [server EXCEPT ![c] = [Opened(actor, new \/ actor \in reserved) EXCEPT !.broken = lost]]
        /\ UNCHANGED <<known, message>>

\* connectLocked
Connect(t) ==
    /\ ~TimesOut(t)
    /\ Step(t, "connect", "write")
    /\ \E c \in Connections :
          Hello(c, FALSE) /\ client' = [conn |-> c, actor |-> server'[c].actor, id |-> 1]
    /\ UNCHANGED <<lock, history, faults>>

\* The daemon has answered the hello, but the client has given it up.
HelloLost(t) ==
    /\ call[t].pc = "connect" /\ faults < MaxFaults
    /\ \E c \in Connections : Hello(c, TRUE)
    /\ faults' = faults + 1
    /\ Returns(t)
    /\ UNCHANGED <<client, history>>

ConnectFails(t) ==
    /\ call[t].pc = "connect"
    /\ TimesOut(t) \/ faults < MaxFaults
    /\ faults' = IF TimesOut(t) THEN faults ELSE faults + 1
    /\ Returns(t)
    /\ UNCHANGED <<tables, server, client, history>>

\* callOnceLocked, until the request is written.
Write(t) ==
    LET c == client.conn
        r == [id |-> client.id + 1, from |-> [by |-> t, n |-> call[t].n], op |-> call[t].request.op,
              key |-> call[t].request.key, thread |-> IF call[t].request.op = "send" THEN call[t].as ELSE None]
    IN  /\ Step(t, "write", "read")
        /\ ~TimesOut(t) /\ ~server[c].broken
        /\ client' = [client EXCEPT !.id = @ + 1]
        /\ server' = [server EXCEPT ![c].requests = Append(@, r)]
        /\ UNCHANGED <<tables, lock, history, faults>>

\* Variant of Matches: the id of a response is not looked at.
Matches_any(reply, id) == TRUE

Matches(reply, id) == reply.id = id

\* A response that ends the call, whatever it says.
Read(t) ==
    LET c == client.conn
        reply == Head(server[c].replies)
    IN  /\ call[t].pc = "read" /\ ~TimesOut(t) /\ server[c].replies # <<>>
        /\ Matches(reply, client.id)
        /\ reply.outcome = "reassigned" => call[t].tries > 0
        /\ Returns(t)
        /\ server' = [server EXCEPT ![c].replies = Tail(@)]
        /\ told'   = told \cup {[asked |-> [by |-> t, n |-> call[t].n], answered |-> reply.to]}
        /\ UNCHANGED <<tables, client, runs, faults>>

\* closeLocked
CloseLocked ==
    /\ client' = [client EXCEPT !.conn = 0]
    /\ server' = [server EXCEPT ![client.conn].broken = TRUE]

Again(t) == call' = [call EXCEPT ![t].pc = "connect", ![t].tries = 1]

\* binding_reassigned: the request was not run, and is repeated.
Reassigned(t) ==
    LET c == client.conn
    IN  /\ call[t].pc = "read" /\ ~TimesOut(t) /\ call[t].tries = 0
        /\ server[c].replies # <<>>
        /\ Matches(Head(server[c].replies), client.id) /\ Head(server[c].replies).outcome = "reassigned"
        /\ CloseLocked /\ Again(t)
        /\ UNCHANGED <<tables, lock, history, faults>>

\* What the client meets instead of a response: a broken connection, its
\* deadline, or the response of an earlier request.
TransportFails(t) ==
    /\ call[t].pc \in {"write", "read"}
    /\ \/ TimesOut(t)
       \/ server[client.conn].broken
       \/ /\ call[t].pc = "read" /\ server[client.conn].replies # <<>>
          /\ ~Matches(Head(server[client.conn].replies), client.id)

\* Variant of Repeatable: every operation is repeated.
Repeatable_all(op) == TRUE

\* retryAfterReconnect
Repeatable(op) ==
    op \in {"ping", "send", "check_inbox", "ack", "extend", "list_events", "who", "set_alias", "remove_alias",
            "list_aliases", "resolve_alias", "alias_preflight", "list_capabilities", "invoke_read_capability",
            "live_registrations", "monitor_attach", "expire_registration", "heartbeat_registrations",
            "list_conditions", "claim_condition_presentation", "archive_preflight"}

\* A first failure closes the connection, and may be repeated.
FirstFailure(t) ==
    /\ TransportFails(t) /\ call[t].tries = 0
    /\ CloseLocked
    /\ IF Repeatable(call[t].request.op) /\ ~call[t].late
       THEN Again(t) /\ UNCHANGED lock
       ELSE Returns(t)
    /\ UNCHANGED <<tables, history, faults>>

\* A second one is returned, and the connection is kept as it is.
SecondFailure(t) ==
    /\ TransportFails(t) /\ call[t].tries > 0
    /\ Returns(t)
    /\ UNCHANGED <<tables, server, client, history, faults>>

-----------------------------------------------------------------------------
Daemon(c) ==
    Check(c) \/ FinalizeActorAllocation(c) \/ Run(c) \/ HangUp(c) \/ End(c)

Continue(t) ==
    \/ Connect(t) \/ HelloLost(t) \/ ConnectFails(t)
    \/ Write(t) \/ Read(t) \/ Reassigned(t) \/ FirstFailure(t) \/ SecondFailure(t)

Next ==
    \/ \E c \in Connections : Daemon(c) \/ Break(c)
    \/ HookBinds \/ Crash
    \/ \E t \in Threads : Begin(t) \/ Require(t) \/ DeadlinePasses(t) \/ Lock(t) \/ Continue(t)

Spec == Init /\ [][Next]_vars

\* Goroutines run, timers fire and the mutex is handed over; the daemon may
\* take for ever.
FairSpec ==
    /\ Spec
    /\ \A t \in Threads :
          /\ WF_vars(Continue(t)) /\ WF_vars(DeadlinePasses(t))
          /\ SF_vars(Lock(t)) /\ SF_vars(Require(t))

-----------------------------------------------------------------------------
\* A claim and a capability write of the agent are run by the daemon at most
\* once, though the client, the MCP server and the daemon's abandoned handlers
\* all may run a call again.
RunAtMostOnce == \A n \in 1 .. MaxCalls : runs[n] <= 1

\* The answer a call is given is that of its own request, also on a connection
\* that a failed repetition left with a response under way.
AnswerIsOwn == \A x \in told : x.asked = x.answered

\* Every call of the process returns, though the daemon may never answer, the
\* connection break at any point and the heartbeat hold the mutex.
CallsReturn == \A t \in Threads : call[t].pc # "ready" ~> call[t].pc = "ready"

\* "Idempotency keys prevent a retry from creating a second durable message":
\* whoever repeats a request of the process, its key is stored once.
SentOnce == \A x, y \in message : x.key = y.key => x = y
=============================================================================
