------------------------------ MODULE Identity ------------------------------
(***************************************************************************)
(* How a connection to the daemon gets the name it acts under.             *)
(*                                                                         *)
(* A hello is bound to an actor by BindActor, in one transaction over the  *)
(* allocated names, the continuity bindings and the registrations.  What   *)
(* follows is not one transaction: the connections of superseded runs are  *)
(* closed, READY is written, and only then is the connection tracked and   *)
(* its reservation released when it ends.  A first operation on a          *)
(* provisional connection is three transactions: the check of the binding, *)
(* the finalization of the name, and the operation itself.                 *)
(*                                                                         *)
(* Aliases, which share the name space, and the mail itself belong to      *)
(* other modules: here an actor is `active' once it has mail.  A run has   *)
(* one registration per actor (one session), an allocated name is never    *)
(* drawn twice, and exact and plain hellos name configured actors only.    *)
(***************************************************************************)
EXTENDS Naturals

CONSTANTS
    Bases,      \* the names connectors are configured with
    Suffixes,   \* what an allocated name may end in
    Runs,       \* self-reported runs; a run is also its own process handle
    Sessions,   \* session and launch handles, the authoritative ones
    Instances,  \* handles of harness processes, derived by the daemon
    Conns,      \* connection handlers
    Hellos,     \* the greetings clients may send
    Requests,   \* the operations they may ask for
    Addressees, \* the actors mail may be sent to
    Retirable,  \* the actors the operator may archive
    None

Handles == Runs \cup Sessions \cup Instances

\* An allocated name is a base and a suffix; a configured name has no suffix.
Actors == Bases \X (Suffixes \cup {None})
Plain(base) == <<base, None>>
BaseOf(actor) == actor[1]

Operations == {"register", "heartbeat", "expire", "send"}

Hello == [mode : {"plain", "exact", "allocate"}, name : Bases, run : Runs,
          sessions : SUBSET Sessions, instance : Instances \cup {None},
          takeover : BOOLEAN]

ASSUME HandlesAreDisjoint ==
    /\ Runs \cap Sessions = {}
    /\ Runs \cap Instances = {}
    /\ Sessions \cap Instances = {}
ASSUME NoneIsNothing == None \notin Handles \cup Suffixes
ASSUME NoneIsNobody == None \notin Actors
ASSUME HellosAreHellos == Hellos \subseteq Hello
ASSUME RequestsAreOperations == Requests \subseteq Operations
ASSUME ActorsAreActors == Addressees \cup Retirable \subseteq Actors

VARIABLES
    allocated,  \* actor_allocations: none, provisional or final
    minted,     \* the random suffixes drawn so far
    named,      \* actor_names
    bound,      \* continuity_bindings: the actor of each handle
    instance,   \* harness_instance_bindings: actor and canonical run
    presence,   \* registrations of each actor and run
    active,     \* actors with mail waiting
    adopter,    \* actor_adoptions
    archived,   \* actor_lifecycle
    conn        \* the connection handlers

tables == <<allocated, minted, named, bound, instance>>
lives == <<presence, active, adopter, archived>>
vars == <<allocated, minted, named, bound, instance,
          presence, active, adopter, archived, conn>>

Presence == {"none", "live", "lapsed", "ended", "superseded"}

Off == [pc |-> "off", open |-> FALSE, actor |-> None, run |-> None,
        handles |-> {}, instance |-> None, takeover |-> FALSE,
        provisional |-> FALSE, rivals |-> {}, op |-> "none"]

Connection ==
    {Off} \cup
    [pc : {"fencing", "greeting", "ready", "checked", "calling"},
     open : BOOLEAN, actor : Actors, run : Runs, handles : SUBSET Handles,
     instance : Instances \cup {None}, takeover : BOOLEAN,
     provisional : BOOLEAN, rivals : SUBSET Runs,
     op : Operations \cup {"none"}]

\* Type correctness of the tables and of the connection handlers.
TypeOK ==
    /\ allocated \in [Actors -> {"none", "provisional", "final"}]
    /\ minted \subseteq Actors
    /\ named \subseteq Actors
    /\ bound \in [Handles -> Actors \cup {None}]
    /\ instance \in [Instances -> [actor : Actors, run : Runs] \cup {None}]
    /\ presence \in [Actors -> [Runs -> Presence]]
    /\ active \subseteq Actors
    /\ adopter \in [Actors -> Actors \cup {None}]
    /\ archived \subseteq Actors
    /\ conn \in [Conns -> Connection]

Init ==
    /\ allocated = [a \in Actors |-> "none"]
    /\ minted = {}
    /\ named = {}
    /\ bound = [h \in Handles |-> None]
    /\ instance = [i \in Instances |-> None]
    /\ presence = [a \in Actors |-> [r \in Runs |-> "none"]]
    /\ active = {}
    /\ adopter = [a \in Actors |-> None]
    /\ archived = {}
    /\ conn = [c \in Conns |-> Off]

-----------------------------------------------------------------------------
(* What BindActor reads *)

\* actorIdentityExistsTx, over the given allocations.
KnownIn(alloc, a) ==
    \/ alloc[a] # "none"
    \/ a \in named \cup active
    \/ \E r \in Runs : presence[a][r] # "none"

Live(a) == \E r \in Runs : presence[a][r] = "live"
LiveElsewhere(a, run) == {r \in Runs \ {run} : presence[a][r] = "live"}
Owners(handles) == {bound[h] : h \in handles} \ {None}
Agree(owners) == \E a \in owners : owners = {a}
Adopted(a) == adopter[a] # None

\* The handles a hello presents; the process handle comes with allocation.
Presented(h) ==
    (IF h.mode = "allocate" THEN {h.run} \cup h.sessions ELSE {})
        \cup ({h.instance} \ {None})

\* The run the daemon knows the harness process by, else the reported one.
CanonicalRun(h) ==
    IF h.instance # None /\ instance[h.instance] # None
    THEN instance[h.instance].run ELSE h.run

\* A reservation nobody has used: it may be dropped.
Idle(a) ==
    /\ allocated[a] = "provisional"
    /\ a \notin Owners(Sessions)
    /\ \A r \in Runs : presence[a][r] = "none"
    /\ a \notin active

\* The names allocateActorTx may draw for a base.
Fresh(base) ==
    {a \in {base} \X Suffixes : ~KnownIn(allocated, a) /\ a \notin minted}

\* The harness process belongs to another actor that still exists.
InstanceTaken(h, a, alloc) ==
    /\ h.instance # None
    /\ instance[h.instance] # None
    /\ instance[h.instance].actor # a
    /\ KnownIn(alloc, instance[h.instance].actor)

Predecessors_none(h) == {}

\* The actor of the hello's session handles, live under a run of another
\* harness process: the hello may not have it without a takeover.
Predecessors(h) ==
    {a \in Owners(h.sessions) :
        /\ h.instance # None
        /\ Agree(Owners(h.sessions))
        /\ bound[h.instance] # a
        /\ LiveElsewhere(a, CanonicalRun(h)) # {}}

\* A run that was superseded may not have the actor back.
Refused(a, run) == presence[a][run] = "superseded"

-----------------------------------------------------------------------------
(* A hello *)

Finalized(alloc, a) ==
    IF alloc[a] = "provisional" THEN [alloc EXCEPT ![a] = "final"] ELSE alloc
Reserved(alloc, a) == [alloc EXCEPT ![a] = "provisional"]

\* Session and launch handles make a name durable, other handles do not.
Vouched(alloc, a, handles) ==
    IF handles \cap Sessions = {} THEN alloc ELSE Finalized(alloc, a)

\* The rest of BindActor, once it is settled that hello h acts as a: write
\* the handles, supersede the rival runs and bind the harness process.
Bind(c, h, a, alloc, binding, accepted, rivals) ==
    LET run == CanonicalRun(h)
        provisional == alloc[a] = "provisional"
    IN /\ ~InstanceTaken(h, a, alloc)
       /\ allocated' = alloc
       /\ bound' = [x \in Handles |-> IF x \in accepted THEN a ELSE binding[x]]
       /\ named' = IF provisional THEN named ELSE named \cup {a}
       /\ instance' = IF h.instance = None THEN instance
                      ELSE [instance EXCEPT ![h.instance] =
                                [actor |-> a, run |-> run]]
       /\ presence' = [presence EXCEPT ![a] = [r \in Runs |->
                           IF r \in rivals THEN "superseded" ELSE @[r]]]
       /\ conn' = [conn EXCEPT ![c] =
              [pc |-> IF rivals = {} THEN "greeting" ELSE "fencing",
               open |-> TRUE, actor |-> a, run |-> run, handles |-> accepted,
               instance |-> h.instance, takeover |-> h.takeover,
               provisional |-> provisional, rivals |-> rivals, op |-> "none"]]
       /\ UNCHANGED <<active, adopter, archived>>

\* A connector of the first protocol only reserves its name.
PlainHello(c, h) ==
    /\ h.mode = "plain"
    /\ Bind(c, [h EXCEPT !.instance = None], Plain(h.name),
            allocated, bound, {}, {})
    /\ UNCHANGED minted

\* An exact name: not while it is live under another run.
ExactHello(c, h) ==
    LET a == Plain(h.name)
        rivals == LiveElsewhere(a, CanonicalRun(h))
    IN /\ h.mode = "exact"
       /\ a \notin archived
       /\ Owners(Presented(h)) \subseteq {a}
       /\ ~Adopted(a)
       /\ rivals = {} \/ h.takeover
       /\ Bind(c, h, a, allocated, bound, Presented(h), rivals)
       /\ UNCHANGED minted

\* The session belongs to an actor that is live elsewhere: act as another
\* actor, the one this harness process already waits as or a new one.
PendingHello(c, h) ==
    /\ h.mode = "allocate"
    /\ ~h.takeover
    /\ Predecessors(h) # {}
    /\ \A p \in Owners(h.sessions) : ~Refused(p, CanonicalRun(h))
    /\ LET waiting == {bound[h.instance]} \ {None}
           accepted == {x \in Presented(h) : bound[x] \in waiting \cup {None}}
       IN \/ \E a \in waiting :
               /\ Bind(c, h, a, Vouched(allocated, a, accepted),
                       bound, accepted, {})
               /\ UNCHANGED minted
          \/ /\ waiting = {}
             /\ \E a \in Fresh(h.name) :
                  /\ Bind(c, h, a, Vouched(Reserved(allocated, a), a, accepted),
                          bound, accepted, {})
                  /\ minted' = minted \cup {a}

\* No handle is known: a new name, provisional unless a session vouches.
AllocateHello(c, h) ==
    /\ h.mode = "allocate"
    /\ Owners(Presented(h)) = {}
    /\ \E a \in Fresh(h.name) :
         /\ Bind(c, h, a, Vouched(Reserved(allocated, a), a, h.sessions),
                 bound, Presented(h), {})
         /\ minted' = minted \cup {a}

Reconciled_anyReservation(h) ==
    {w \in Owners(h.sessions) : Agree(Owners(h.sessions))}

\* The actor the handles agree on, once idle reservations of other handles
\* give way to the session's actor.
Reconciled(h) ==
    LET owners == Owners(Presented(h))
        vouched == Owners(h.sessions)
    IN IF Agree(owners) THEN owners
       ELSE {w \in vouched : /\ Agree(vouched)
                             /\ \A a \in owners \ {w} : Idle(a)}

GivenWay(h, w) == Owners(Presented(h)) \ {w}
Unbound_keeps(gone) == bound

Dropped(alloc, gone) ==
    [a \in Actors |-> IF a \in gone THEN "none" ELSE alloc[a]]
Unbound(gone) == [x \in Handles |-> IF bound[x] \in gone THEN None ELSE bound[x]]

\* What a reclaim and a rename after adoption have in common.
Reclaimable(h, w) ==
    /\ h.mode = "allocate"
    /\ w \in Reconciled(h)
    /\ Predecessors(h) = {} \/ h.takeover
    /\ h.instance # None /\ Agree(Owners(h.sessions)) =>
          \A p \in Owners(h.sessions) : ~Refused(p, CanonicalRun(h))
    /\ w \notin archived
    /\ h.instance # None => BaseOf(w) = h.name

\* The handles lead to an actor: have it back and supersede its other runs.
ReclaimHello(c, h) ==
    \E w \in Reconciled(h) :
      LET gone == GivenWay(h, w)
          alloc == Dropped(allocated, gone)
      IN /\ Reclaimable(h, w)
         /\ ~Adopted(w)
         /\ ~Refused(w, CanonicalRun(h))
         /\ Bind(c, h, w, Vouched(alloc, w, h.sessions), Unbound(gone),
                 Presented(h), LiveElsewhere(w, CanonicalRun(h)))
         /\ UNCHANGED minted

\* The handles lead to an actor that was adopted: take a new name.
RenameHello(c, h) ==
    \E w \in Reconciled(h) :
      LET gone == GivenWay(h, w) IN
      /\ Reclaimable(h, w)
      /\ Adopted(w)
      /\ \E a \in Fresh(BaseOf(w)) :
           /\ Bind(c, h, a,
                   Vouched(Reserved(Dropped(allocated, gone), a), a, h.sessions),
                   Unbound(gone), Presented(h), {})
           /\ minted' = minted \cup {a}

BindActor(c, h) ==
    /\ conn[c].pc = "off"
    /\ \/ PlainHello(c, h)
       \/ ExactHello(c, h)
       \/ PendingHello(c, h)
       \/ AllocateHello(c, h)
       \/ ReclaimHello(c, h)
       \/ RenameHello(c, h)

-----------------------------------------------------------------------------
(* The rest of the handshake *)

\* fenceIdentityConnections finds only the connections that are tracked.
Tracked(c) == conn[c].pc \in {"ready", "checked", "calling"}

\* The connections of the superseded runs are closed.
Fence(c) ==
    /\ conn[c].pc = "fencing"
    /\ conn' = [d \in Conns |->
          IF d = c THEN [conn[c] EXCEPT !.pc = "greeting", !.rivals = {}]
          ELSE IF /\ Tracked(d)
                  /\ conn[d].actor = conn[c].actor
                  /\ conn[d].run \in conn[c].rivals
               THEN [conn[d] EXCEPT !.open = FALSE]
               ELSE conn[d]]
    /\ UNCHANGED <<tables, lives>>

\* READY is written, the connection is tracked and will release its
\* reservation.
Greet(c) ==
    /\ conn[c].pc = "greeting"
    /\ conn' = [conn EXCEPT ![c].pc = "ready"]
    /\ UNCHANGED <<tables, lives>>

\* The client is gone and READY cannot be written: the handler returns.
GreetFails(c) ==
    /\ conn[c].pc = "greeting"
    /\ ~conn[c].open
    /\ conn' = [conn EXCEPT ![c] = Off]
    /\ UNCHANGED <<tables, lives>>

\* The client closes the connection, or dies.
HangUp(c) ==
    /\ conn[c].open
    /\ conn' = [conn EXCEPT ![c].open = FALSE]
    /\ UNCHANGED <<tables, lives>>

-----------------------------------------------------------------------------
(* Operations of a connection *)

Finalizes_notRegister(op) == op \notin {"heartbeat", "register"}

Finalizes(op) == op # "heartbeat"

\* A provisional connection first looks whether its handles still lead to
\* its actor; if not, the operation is refused and nothing changes.
Request(c, op) ==
    /\ conn[c].pc = "ready"
    /\ conn[c].open
    /\ conn[c].provisional => Owners(conn[c].handles) = {conn[c].actor}
    /\ conn' = [conn EXCEPT ![c].op = op,
                    ![c].pc = IF conn[c].provisional /\ Finalizes(op)
                              THEN "checked" ELSE "calling"]
    /\ UNCHANGED <<tables, lives>>

\* The reservation becomes a durable name; if it is gone nothing is written.
FinalizeActorAllocation(c) ==
    LET a == conn[c].actor IN
    /\ conn[c].pc = "checked"
    /\ allocated' = Finalized(allocated, a)
    /\ named' = IF allocated[a] = "provisional" THEN named \cup {a} ELSE named
    /\ conn' = [conn EXCEPT ![c].pc = "calling", ![c].provisional = FALSE]
    /\ UNCHANGED <<minted, bound, instance, lives>>

\* The connection ended first: the handler stays provisional.
FinalizeFails(c) ==
    /\ conn[c].pc = "checked"
    /\ ~conn[c].open
    /\ conn' = [conn EXCEPT ![c].pc = "ready", ![c].op = "none"]
    /\ UNCHANGED <<tables, lives>>

Returned(c) == conn' = [conn EXCEPT ![c].pc = "ready", ![c].op = "none"]

\* The registration of the connection's run.
SetPresence(c, state) ==
    presence' = [presence EXCEPT ![conn[c].actor][conn[c].run] = state]

RegisterSession_afterAdoption(c) ==
    /\ conn[c].pc = "calling" /\ conn[c].op = "register"
    /\ SetPresence(c, "live")
    /\ Returned(c)
    /\ UNCHANGED <<tables, active, adopter, archived>>

RegisterSession(c) ==
    /\ conn[c].pc = "calling" /\ conn[c].op = "register"
    /\ ~Adopted(conn[c].actor)
    /\ SetPresence(c, "live")
    /\ Returned(c)
    /\ UNCHANGED <<tables, active, adopter, archived>>

HeartbeatRegistrations(c) ==
    /\ conn[c].pc = "calling" /\ conn[c].op = "heartbeat"
    /\ ~Adopted(conn[c].actor)
    /\ IF presence[conn[c].actor][conn[c].run] = "lapsed"
       THEN SetPresence(c, "live") ELSE UNCHANGED presence
    /\ Returned(c)
    /\ UNCHANGED <<tables, active, adopter, archived>>

\* A superseded registration that also ends still counts as superseded.
ExpireRegistration(c) ==
    /\ conn[c].pc = "calling" /\ conn[c].op = "expire"
    /\ IF presence[conn[c].actor][conn[c].run] \in {"live", "lapsed"}
       THEN SetPresence(c, "ended") ELSE UNCHANGED presence
    /\ Returned(c)
    /\ UNCHANGED <<tables, active, adopter, archived>>

\* A message, to a name that somebody has or is configured with.  A sender
\* is named by it, and needs no other trace here.
Send(c) ==
    /\ conn[c].pc = "calling" /\ conn[c].op = "send"
    /\ ~Adopted(conn[c].actor)
    /\ \E b \in Addressees \cap (named \cup {Plain(base) : base \in Bases}) :
         /\ b \in archived => Adopted(b)
         /\ active' = active \cup {b}
         /\ named' = named \cup {conn[c].actor, b}
    /\ Returned(c)
    /\ UNCHANGED <<allocated, minted, bound, instance,
                   presence, adopter, archived>>

\* The operation is refused, or its context ended with the connection.
CallFails(c) ==
    /\ conn[c].pc = "calling"
    /\ Adopted(conn[c].actor) \/ ~conn[c].open
    /\ Returned(c)
    /\ UNCHANGED <<tables, lives>>

\* The handler reads the end of the stream and releases its reservation.
ReleaseProvisionalActor(c) ==
    LET gone == {a \in {conn[c].actor} : conn[c].provisional /\ Idle(a)} IN
    /\ conn[c].pc = "ready"
    /\ ~conn[c].open
    /\ allocated' = Dropped(allocated, gone)
    /\ bound' = Unbound(gone)
    /\ instance' = [i \in Instances |->
           IF instance[i] # None /\ instance[i].actor \in gone
           THEN None ELSE instance[i]]
    /\ conn' = [conn EXCEPT ![c] = Off]
    /\ UNCHANGED <<minted, named, lives>>

-----------------------------------------------------------------------------
(* The rest of the system *)

PresenceLapses(a, r) ==
    /\ presence[a][r] = "live"
    /\ presence' = [presence EXCEPT ![a][r] = "lapsed"]
    /\ UNCHANGED <<tables, active, adopter, archived, conn>>

\* A live actor takes over the inbox of one that is not live.
AdoptActor(a, b) ==
    /\ a # b
    /\ a \in active /\ ~Adopted(a) /\ ~Live(a)
    /\ \A x \in Actors : adopter[x] # a
    /\ ~Adopted(b) /\ Live(b)
    /\ adopter' = [adopter EXCEPT ![a] = b]
    /\ UNCHANGED <<tables, presence, active, archived, conn>>

ArchiveActor(a) ==
    /\ a \in named
    /\ ~Live(a)
    /\ archived' = archived \cup {a}
    /\ bound' = Unbound({a})
    /\ instance' = [i \in Instances |->
           IF instance[i] # None /\ instance[i].actor = a
           THEN None ELSE instance[i]]
    /\ UNCHANGED <<allocated, minted, named, presence, active, adopter,
                   conn>>

RestoreActor(a) ==
    /\ a \in archived
    /\ archived' = archived \ {a}
    /\ UNCHANGED <<tables, presence, active, adopter, conn>>

\* The daemon restarts: no connection survives, unused reservations go.
Restart ==
    LET gone == {a \in Actors : Idle(a)} IN
    /\ \E c \in Conns : conn[c].pc # "off"
    /\ conn' = [c \in Conns |-> Off]
    /\ allocated' = Dropped(allocated, gone)
    /\ bound' = Unbound(gone)
    /\ named' = named \cup active
                  \cup {a \in Actors : \/ allocated[a] = "final"
                                       \/ \E r \in Runs : presence[a][r] # "none"}
    /\ UNCHANGED <<minted, instance, lives>>

Handler(c) ==
    \/ \E h \in Hellos : BindActor(c, h)
    \/ Fence(c)
    \/ Greet(c)
    \/ GreetFails(c)
    \/ HangUp(c)
    \/ \E op \in Requests : Request(c, op)
    \/ FinalizeActorAllocation(c)
    \/ FinalizeFails(c)
    \/ RegisterSession(c)
    \/ HeartbeatRegistrations(c)
    \/ ExpireRegistration(c)
    \/ Send(c)
    \/ CallFails(c)
    \/ ReleaseProvisionalActor(c)

Next ==
    \/ \E c \in Conns : Handler(c)
    \/ \E a \in Actors, r \in Runs : PresenceLapses(a, r)
    \/ \E a, b \in Actors : AdoptActor(a, b)
    \/ \E a \in Retirable : ArchiveActor(a) \/ RestoreActor(a)
    \/ Restart

Spec == Init /\ [][Next]_vars
-----------------------------------------------------------------------------
(* Properties *)

\* A continuity handle never leads to a name that is gone: releasing,
\* reconciling, archiving and restarting drop the bindings of the names they
\* drop, in the same transaction.
HandleReachesActor ==
    \A h \in Handles : bound[h] # None =>
        allocated[bound[h]] # "none" \/ bound[h] \in named

\* A reservation is invisible until it is finalized: no session or launch
\* handle leads to it, nobody is registered under it, it is not in the
\* directory and no mail waits for it.  Whatever the order in which the
\* hook and the MCP process connect, it can therefore still be dropped.
ProvisionalIsInvisible ==
    \A a \in Actors : allocated[a] = "provisional" =>
        Idle(a) /\ a \notin named

\* An adopted name is retired: it has no live registration again, not even
\* from calls that were under way when it was adopted.
AdoptedIsNotLive == \A a \in Actors : Adopted(a) => ~Live(a)

\* No handle leads to an archived name: whoever resumes its session gets a
\* new one, until the operator restores it.
ArchivedIsUnreachable == \A h \in Handles : bound[h] \notin archived

\* A handle moves from one actor to another, or to none, only when the first
\* was adopted, was archived or was a reservation nobody used.
HandleMovesOnlyFromRetired ==
    [][\A h \in Handles : bound[h] # None /\ bound'[h] # bound[h] =>
           \/ Adopted(bound[h])
           \/ Idle(bound[h])
           \/ bound[h] \in archived']_vars

\* The hello of connection c is answered in this step and supersedes run r.
Supersedes(c, a, r) ==
    /\ presence[a][r] = "live" /\ presence'[a][r] = "superseded"
    /\ conn[c].pc = "off" /\ conn'[c].actor = a

\* A live registration is superseded only by the hello of a connection that
\* asked for takeover, that has no proven harness process, whose process
\* already held the actor, or whose sessions led nowhere: a session that
\* leads to the actor of a live predecessor does not (API.md, allocate mode
\* and harness instances).
NewInstanceNeverSteals ==
    [][\A c \in Conns, a \in Actors, r \in Runs : Supersedes(c, a, r) =>
           \/ conn'[c].takeover
           \/ conn'[c].instance = None
           \/ bound[conn'[c].instance] = a
           \/ Owners(conn'[c].handles \cap Sessions) = {}]_vars
=============================================================================
