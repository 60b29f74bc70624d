--------------------------- MODULE IdentityProofs ---------------------------
(***************************************************************************)
(* Proofs about Identity, for any names, handles, greetings and handlers.  *)
(*                                                                         *)
(* Six kinds of hello end in one Bind.  Bindable is what each of them has  *)
(* settled by then; the invariants are proved from it, not from the kind   *)
(* of hello.                                                               *)
(***************************************************************************)
EXTENDS Identity, TLAPS

Status == {"none", "provisional", "final"}
PlainNames == {Plain(base) : base \in Bases}
Drawn == minted \cup PlainNames

\* The connections that have a handler.
Acting == [pc : {"fencing", "greeting", "ready", "checked", "calling"},
           open : BOOLEAN, actor : Actors, run : Runs, handles : SUBSET Handles,
           instance : Instances \cup {None}, takeover : BOOLEAN,
           provisional : BOOLEAN, rivals : SUBSET Runs, op : Operations \cup {"none"}]

\* Whoever is known was drawn or is configured; no configured name is allocated.
OnlyDrawnNames ==
    /\ \A a \in Actors : KnownIn(allocated, a) => a \in Drawn
    /\ \A a \in PlainNames : allocated[a] = "none"

\* Only an actor of the directory is archived.
ArchivedWereNamed == archived \subseteq named

\* A handler acts under a drawn name, and knows when the name is provisional:
\* what it then calls is a heartbeat.
ConnectionsActAsNames ==
    \A c \in Conns : conn[c].pc # "off" =>
        /\ conn[c].actor \in Drawn
        /\ conn[c].provisional \/ allocated[conn[c].actor] # "provisional"
        /\ conn[c].pc = "calling" /\ conn[c].provisional => conn[c].op = "heartbeat"

\* The part of the invariant about the tables.
TablesInv ==
    /\ OnlyDrawnNames /\ ArchivedWereNamed
    /\ HandleReachesActor /\ ProvisionalIsInvisible
    /\ AdoptedIsNotLive /\ ArchivedIsUnreachable

IInv == TypeOK /\ TablesInv /\ ConnectionsActAsNames

\* The reservation of a is one that this step makes, or made earlier.
Reservable(a) ==
    \/ allocated[a] = "provisional"
    \/ ~KnownIn(allocated, a) /\ a \notin Drawn

\* What a hello has settled when it binds its connection to actor a.
Bindable(a, alloc, binding, accepted, rivals) ==
    /\ alloc \in [Actors -> Status] /\ binding \in [Handles -> Actors \cup {None}]
    /\ minted \subseteq minted' /\ minted' \subseteq Actors
    /\ a \in minted' \cup PlainNames
    /\ accepted # {} => a \notin archived
    /\ \A r \in rivals : presence[a][r] = "live"
    /\ \A x \in Actors \ {a} :
          \/ alloc[x] = allocated[x]
          \/ alloc[x] = "none" /\ Idle(x) /\ \A y \in Handles : binding[y] # x
    /\ alloc[a] = "provisional" => accepted \cap Sessions = {} /\ Reservable(a)
    /\ alloc[a] # "none" => a \notin PlainNames
    /\ \A y \in Handles : \/ binding[y] = bound[y]
                          \/ binding[y] = None /\ (bound[y] # None => Idle(bound[y]))
    /\ \A y \in accepted : bound[y] \in {None, a} \/ Adopted(bound[y]) \/ Idle(bound[y])

\* The hello g may supersede the rivals of its actor a.
MaySupersede(g, a, accepted, rivals) ==
    rivals = {} \/ g.takeover \/ g.instance = None \/ bound[g.instance] = a
    \/ Owners(accepted \cap Sessions) = {}

\* What a Bind leaves behind, field by field.
Effect(c, g, a, alloc, binding, accepted, rivals) ==
    /\ allocated' = alloc
    /\ \A y \in Handles : bound'[y] = IF y \in accepted THEN a ELSE binding[y]
    /\ named' = IF alloc[a] = "provisional" THEN named ELSE named \cup {a}
    /\ \A x \in Actors, r \in Runs :
          presence'[x][r] = IF x = a /\ r \in rivals THEN "superseded" ELSE presence[x][r]
    /\ UNCHANGED <<active, adopter, archived>>
    /\ \A d \in Conns \ {c} : conn'[d] = conn[d]
    /\ conn'[c].pc \in {"greeting", "fencing"} /\ conn'[c].actor = a
    /\ conn'[c].handles = accepted /\ conn'[c].instance = g.instance
    /\ conn'[c].takeover = g.takeover
    /\ conn'[c].provisional <=> alloc[a] = "provisional"

\* The hello of handler c is bound: what it settled and who it may supersede.
Settled(c) ==
    \E g \in Hello, a \in Actors, accepted \in SUBSET Handles, rivals \in SUBSET Runs :
       \E alloc, binding :
          /\ Bind(c, g, a, alloc, binding, accepted, rivals)
          /\ Bindable(a, alloc, binding, accepted, rivals)
          /\ MaySupersede(g, a, accepted, rivals)

-----------------------------------------------------------------------------
\* A configured name is an actor, one with a suffix is another.
LEMMA Names ==
    /\ PlainNames \subseteq Actors
    /\ \A base \in Bases : \A a \in {base} \X Suffixes : a \in Actors \ PlainNames
    /\ \A a \in Actors : BaseOf(a) \in Bases
<1>1. None \notin Suffixes
  BY NoneIsNothing
<1> QED  BY <1>1 DEF PlainNames, Plain, Actors, BaseOf

\* The fields of a hello, of a connection, and what a hello presents.
LEMMA HelloFields ==
    ASSUME NEW h \in Hello
    PROVE  /\ h.name \in Bases /\ h.run \in Runs /\ h.sessions \subseteq Sessions
           /\ h.instance \in Instances \cup {None} /\ h.takeover \in BOOLEAN
           /\ Presented(h) \subseteq Handles /\ h.sessions \subseteq Handles
           /\ h.mode = "allocate" => Presented(h) \cap Sessions = h.sessions /\ h.sessions \subseteq Presented(h)
           /\ TypeOK => CanonicalRun(h) \in Runs
<1>1. /\ h.name \in Bases /\ h.run \in Runs /\ h.sessions \subseteq Sessions
      /\ h.instance \in Instances \cup {None} /\ h.takeover \in BOOLEAN
  BY DEF Hello
<1>2. Presented(h) \subseteq Handles /\ h.sessions \subseteq Handles
  BY <1>1 DEF Presented, Handles
<1>3. ASSUME h.mode = "allocate"
      PROVE  Presented(h) \cap Sessions = h.sessions /\ h.sessions \subseteq Presented(h)
  BY <1>1, <1>3, HandlesAreDisjoint DEF Presented
<1>4. ASSUME TypeOK PROVE CanonicalRun(h) \in Runs
  <2>1. CASE h.instance # None /\ instance[h.instance] # None
    <3>1. instance[h.instance] \in [actor : Actors, run : Runs]
      BY <1>1, <1>4, <2>1 DEF TypeOK
    <3> QED  BY <3>1, <2>1 DEF CanonicalRun
  <2>2. CASE ~(h.instance # None /\ instance[h.instance] # None)
    BY <1>1, <2>2 DEF CanonicalRun
  <2> QED  BY <2>1, <2>2
<1> QED  BY <1>1, <1>2, <1>3, <1>4

LEMMA ConnectionFields ==
    ASSUME NEW x \in Connection
    PROVE  \/ x = Off /\ x.pc = "off" /\ x.actor = None /\ x.op = "none" /\ x.open = FALSE
           \/ /\ x \in Acting /\ x.pc # "off"
              /\ x.actor \in Actors /\ x.run \in Runs /\ x.handles \subseteq Handles
BY DEF Connection, Off, Acting

\* Who owns a handle is an actor.
LEMMA OwnersAreActors ==
    ASSUME TypeOK, NEW handles \in SUBSET Handles
    PROVE  /\ Owners(handles) \subseteq Actors
           /\ \A y \in handles : bound[y] \in Owners(handles) \cup {None}
           /\ \A a \in Owners(handles) : \E y \in handles : bound[y] = a /\ a # None
<1>1. \A y \in handles : bound[y] \in Actors \cup {None}
  BY DEF TypeOK
<1> QED  BY <1>1 DEF Owners

\* A name that can be drawn is nobody's yet.
LEMMA FreshFacts ==
    ASSUME TypeOK, TablesInv, NEW base \in Bases, NEW a \in Fresh(base)
    PROVE  /\ a \in Actors \ PlainNames /\ a \notin Drawn /\ ~KnownIn(allocated, a)
           /\ allocated[a] = "none" /\ a \notin archived
           /\ \A y \in Handles : bound[y] # a
<1>1. a \in {base} \X Suffixes /\ ~KnownIn(allocated, a) /\ a \notin minted
  BY DEF Fresh
<1>2. a \in Actors \ PlainNames
  BY <1>1, Names
<1>3. allocated[a] = "none" /\ a \notin named
  BY <1>1 DEF KnownIn
<1>4. a \notin archived
  BY <1>3 DEF TablesInv, ArchivedWereNamed
<1>5. \A y \in Handles : bound[y] # a
  BY <1>2, <1>3, NoneIsNobody DEF TablesInv, HandleReachesActor
<1> QED  BY <1>1, <1>2, <1>3, <1>4, <1>5 DEF Drawn

\* Who a handle leads to was drawn, is not archived and is known.
LEMMA OwnerFacts ==
    ASSUME TypeOK, TablesInv, NEW y \in Handles, bound[y] # None
    PROVE  /\ bound[y] \in Actors /\ bound[y] \in Drawn /\ bound[y] \notin archived
           /\ KnownIn(allocated, bound[y])
           /\ allocated[bound[y]] # "none" => bound[y] \notin PlainNames
<1>1. bound[y] \in Actors
  BY DEF TypeOK
<1>2. KnownIn(allocated, bound[y])
  BY DEF TablesInv, HandleReachesActor, KnownIn
<1> QED  BY <1>1, <1>2 DEF TablesInv, OnlyDrawnNames, ArchivedIsUnreachable

\* What finalizing, reserving and vouching for a name do to its allocation.
LEMMA AllocationFacts ==
    ASSUME NEW alloc \in [Actors -> Status], NEW a \in Actors, NEW handles
    PROVE  /\ Finalized(alloc, a) \in [Actors -> Status]
           /\ Vouched(alloc, a, handles) \in [Actors -> Status]
           /\ Reserved(alloc, a) \in [Actors -> Status]
           /\ Reserved(alloc, a)[a] = "provisional"
           /\ \A x \in Actors \ {a} : /\ Vouched(alloc, a, handles)[x] = alloc[x]
                                      /\ Finalized(alloc, a)[x] = alloc[x]
                                      /\ Reserved(alloc, a)[x] = alloc[x]
           /\ Finalized(alloc, a)[a] # "provisional"
           /\ Finalized(alloc, a)[a] # "none" <=> alloc[a] # "none"
           /\ Vouched(alloc, a, handles)[a] = "provisional" =>
                 handles \cap Sessions = {} /\ alloc[a] = "provisional"
           /\ Vouched(alloc, a, handles)[a] # "none" <=> alloc[a] # "none"
<1>1. /\ Reserved(alloc, a) \in [Actors -> Status] /\ Reserved(alloc, a)[a] = "provisional"
      /\ \A x \in Actors \ {a} : Reserved(alloc, a)[x] = alloc[x]
  BY DEF Reserved, Status
<1>2. /\ Finalized(alloc, a) \in [Actors -> Status]
      /\ \A x \in Actors \ {a} : Finalized(alloc, a)[x] = alloc[x]
      /\ Finalized(alloc, a)[a] # "provisional"
      /\ Finalized(alloc, a)[a] # "none" <=> alloc[a] # "none"
  BY DEF Finalized, Status
<1>3. CASE handles \cap Sessions = {}
  BY <1>1, <1>2, <1>3 DEF Vouched
<1>4. CASE handles \cap Sessions # {}
  BY <1>1, <1>2, <1>4 DEF Vouched
<1> QED  BY <1>3, <1>4

\* Dropping idle reservations drops what leads to them.
LEMMA DroppingFacts ==
    ASSUME TypeOK, NEW gone \in SUBSET Actors
    PROVE  /\ Dropped(allocated, gone) \in [Actors -> Status]
           /\ \A x \in Actors : Dropped(allocated, gone)[x] =
                 IF x \in gone THEN "none" ELSE allocated[x]
           /\ Unbound(gone) \in [Handles -> Actors \cup {None}]
           /\ \A y \in Handles : Unbound(gone)[y] = IF bound[y] \in gone THEN None ELSE bound[y]
           /\ \A y \in Handles : Unbound(gone)[y] \notin gone
BY NoneIsNobody DEF Dropped, Unbound, TypeOK, Status

-----------------------------------------------------------------------------
(* What each kind of hello has settled. *)

\* A name drawn now, or kept, with the handles that lead nowhere else.
LEMMA FreshIsBindable ==
    ASSUME IInv, NEW base \in Bases, NEW a \in Fresh(base), NEW gone \in SUBSET Actors,
           NEW accepted \in SUBSET Handles, NEW handles, accepted \cap Sessions \subseteq handles,
           \A x \in gone : Idle(x),
           minted' = minted \cup {a},
           \A y \in accepted : bound[y] = None \/ Adopted(bound[y]) \/ Idle(bound[y])
    PROVE  Bindable(a, Vouched(Reserved(Dropped(allocated, gone), a), a, handles),
                    Unbound(gone), accepted, {})
<1> DEFINE kept == Dropped(allocated, gone)
           reserved == Reserved(kept, a)
           alloc == Vouched(reserved, a, handles)
<1>1. TypeOK /\ TablesInv
  BY DEF IInv
<1>2. /\ a \in Actors \ PlainNames /\ a \notin Drawn /\ ~KnownIn(allocated, a) /\ a \notin archived
  BY <1>1, FreshFacts
<1>3. /\ kept \in [Actors -> Status]
      /\ \A x \in Actors : kept[x] = IF x \in gone THEN "none" ELSE allocated[x]
      /\ Unbound(gone) \in [Handles -> Actors \cup {None}]
      /\ \A y \in Handles : Unbound(gone)[y] = IF bound[y] \in gone THEN None ELSE bound[y]
      /\ \A y \in Handles : Unbound(gone)[y] \notin gone
  BY <1>1, DroppingFacts
<1> HIDE DEF kept
<1>4. reserved \in [Actors -> Status] /\ \A x \in Actors \ {a} : reserved[x] = kept[x]
  BY <1>2, <1>3, AllocationFacts
<1> HIDE DEF reserved
<1>5. /\ alloc \in [Actors -> Status] /\ \A x \in Actors \ {a} : alloc[x] = reserved[x]
      /\ alloc[a] = "provisional" => handles \cap Sessions = {}
  BY <1>2, <1>4, AllocationFacts
<1> HIDE DEF alloc
<1>6. minted \subseteq minted' /\ minted' \subseteq Actors /\ a \in minted' \cup PlainNames
  BY <1>1, <1>2 DEF TypeOK
<1>7. \A x \in Actors \ {a} : \/ alloc[x] = allocated[x]
                              \/ alloc[x] = "none" /\ Idle(x) /\ \A y \in Handles : Unbound(gone)[y] # x
  BY <1>3, <1>4, <1>5
<1>8. alloc[a] = "provisional" => accepted \cap Sessions = {} /\ Reservable(a)
  BY <1>2, <1>5 DEF Reservable
<1>9. \A y \in Handles : \/ Unbound(gone)[y] = bound[y]
                         \/ Unbound(gone)[y] = None /\ (bound[y] # None => Idle(bound[y]))
  BY <1>3
<1>10. Bindable(a, alloc, Unbound(gone), accepted, {})
  BY <1>2, <1>3, <1>5, <1>6, <1>7, <1>8, <1>9 DEF Bindable
<1> QED  BY <1>10 DEF alloc, reserved, kept

\* A name that a handle leads to and that was not given away.
LEMMA OwnedIsBindable ==
    ASSUME IInv, NEW owner \in Handles, NEW a, a = bound[owner], a # None, NEW gone \in SUBSET Actors, a \notin gone,
           NEW accepted \in SUBSET Handles, NEW handles, accepted \cap Sessions \subseteq handles,
           NEW rivals, \A r \in rivals : presence[a][r] = "live",
           \A x \in gone : Idle(x),
           minted' = minted,
           \A y \in accepted : bound[y] \in {None, a} \/ Adopted(bound[y]) \/ Idle(bound[y])
    PROVE  Bindable(a, Vouched(Dropped(allocated, gone), a, handles), Unbound(gone), accepted, rivals)
<1> DEFINE kept == Dropped(allocated, gone)
           alloc == Vouched(kept, a, handles)
<1>1. TypeOK /\ TablesInv
  BY DEF IInv
<1>2. /\ a \in Actors /\ a \in Drawn /\ a \notin archived
      /\ allocated[a] # "none" => a \notin PlainNames
  BY <1>1, OwnerFacts
<1>3. /\ kept \in [Actors -> Status]
      /\ \A x \in Actors : kept[x] = IF x \in gone THEN "none" ELSE allocated[x]
      /\ Unbound(gone) \in [Handles -> Actors \cup {None}]
      /\ \A y \in Handles : Unbound(gone)[y] = IF bound[y] \in gone THEN None ELSE bound[y]
      /\ \A y \in Handles : Unbound(gone)[y] \notin gone
  BY <1>1, DroppingFacts
<1> HIDE DEF kept
<1>4. /\ alloc \in [Actors -> Status] /\ \A x \in Actors \ {a} : alloc[x] = kept[x]
      /\ alloc[a] = "provisional" => handles \cap Sessions = {} /\ kept[a] = "provisional"
      /\ alloc[a] # "none" => kept[a] # "none"
  BY <1>2, <1>3, AllocationFacts
<1> HIDE DEF alloc
<1>5. minted \subseteq minted' /\ minted' \subseteq Actors /\ a \in minted' \cup PlainNames
  BY <1>1, <1>2 DEF TypeOK, Drawn
<1>6. \A x \in Actors \ {a} : \/ alloc[x] = allocated[x]
                              \/ alloc[x] = "none" /\ Idle(x) /\ \A y \in Handles : Unbound(gone)[y] # x
  BY <1>3, <1>4
<1>7. /\ alloc[a] = "provisional" => accepted \cap Sessions = {} /\ Reservable(a)
      /\ alloc[a] # "none" => a \notin PlainNames
  BY <1>2, <1>3, <1>4 DEF Reservable
<1>8. \A y \in Handles : \/ Unbound(gone)[y] = bound[y]
                         \/ Unbound(gone)[y] = None /\ (bound[y] # None => Idle(bound[y]))
  BY <1>3
<1>9. Bindable(a, alloc, Unbound(gone), accepted, rivals)
  BY <1>2, <1>3, <1>4, <1>5, <1>6, <1>7, <1>8 DEF Bindable
<1> QED  BY <1>9 DEF alloc, kept

\* Nothing is dropped for a hello without idle reservations.
LEMMA NothingDropped ==
    ASSUME TypeOK PROVE Dropped(allocated, {}) = allocated /\ Unbound({}) = bound
BY DEF TypeOK, Dropped, Unbound

\* The rivals of a name are live.
LEMMA RivalsAreLive ==
    ASSUME NEW a, NEW run PROVE \A r \in LiveElsewhere(a, run) : presence[a][r] = "live" /\ r \in Runs
BY DEF LiveElsewhere

\* A plain hello binds its configured name, with no handle and no rival.
LEMMA PlainSettles ==
    ASSUME IInv, NEW c \in Conns, NEW h \in Hello, PlainHello(c, h) PROVE Settled(c)
<1> DEFINE g == [h EXCEPT !.instance = None]
           a == Plain(h.name)
<1>1. Bind(c, g, a, allocated, bound, {}, {}) /\ minted' = minted
  BY DEF PlainHello
<1>2. g \in Hello
  BY DEF Hello
<1>3. a \in Actors /\ a \in PlainNames
  BY HelloFields, Names DEF PlainNames
<1>4. allocated[a] = "none"
  BY <1>3 DEF IInv, TablesInv, OnlyDrawnNames
<1>5. Bindable(a, allocated, bound, {}, {})
  BY <1>1, <1>3, <1>4 DEF Bindable, IInv, TypeOK, Status
<1>6. MaySupersede(g, a, {}, {})
  BY DEF MaySupersede
<1> HIDE DEF g, a
<1> QED  BY <1>1, <1>2, <1>3, <1>5, <1>6 DEF Settled

\* An exact hello binds its configured name, and only takeover has rivals.
LEMMA ExactSettles ==
    ASSUME IInv, NEW c \in Conns, NEW h \in Hello, ExactHello(c, h) PROVE Settled(c)
<1> DEFINE a == Plain(h.name)
           rivals == LiveElsewhere(a, CanonicalRun(h))
<1>1. /\ Bind(c, h, a, allocated, bound, Presented(h), rivals) /\ minted' = minted
      /\ a \notin archived /\ Owners(Presented(h)) \subseteq {a}
      /\ rivals = {} \/ h.takeover
  BY DEF ExactHello
<1>2. a \in Actors /\ a \in PlainNames
  BY HelloFields, Names DEF PlainNames
<1>3. allocated[a] = "none"
  BY <1>2 DEF IInv, TablesInv, OnlyDrawnNames
<1>4. rivals \in SUBSET Runs /\ \A r \in rivals : presence[a][r] = "live"
  BY RivalsAreLive
<1>5. Presented(h) \in SUBSET Handles
  BY HelloFields
<1>6. \A y \in Presented(h) : bound[y] \in {None, a}
  BY <1>1, <1>5, OwnersAreActors DEF IInv
<1> HIDE DEF rivals
<1>7. Bindable(a, allocated, bound, Presented(h), rivals)
  BY <1>1, <1>2, <1>3, <1>4, <1>6 DEF Bindable, IInv, TypeOK, Status
<1>8. MaySupersede(h, a, Presented(h), rivals)
  BY <1>1 DEF MaySupersede
<1> HIDE DEF a
<1> QED  BY <1>1, <1>2, <1>4, <1>5, <1>7, <1>8 DEF Settled

\* A hello whose session is live elsewhere binds the actor its process waits
\* as, or a new one, and takes no handle of the live one.
LEMMA PendingSettles ==
    ASSUME IInv, NEW c \in Conns, NEW h \in Hello, PendingHello(c, h) PROVE Settled(c)
<1> DEFINE waiting == {bound[h.instance]} \ {None}
           accepted == {x \in Presented(h) : bound[x] \in waiting \cup {None}}
<1>1. h.instance \in Instances
  <2>1. \E p : p \in Predecessors(h)
    BY DEF PendingHello
  <2> QED  BY <2>1, HelloFields DEF Predecessors
<1>2. h.instance \in Handles
  BY <1>1 DEF Handles
<1>3. accepted \in SUBSET Handles
  BY HelloFields
<1>4. Dropped(allocated, {}) = allocated /\ Unbound({}) = bound
  BY NothingDropped DEF IInv
<1>5. ASSUME NEW a \in waiting,
             Bind(c, h, a, Vouched(allocated, a, accepted), bound, accepted, {}), minted' = minted
      PROVE  Settled(c)
  <2>1. a = bound[h.instance] /\ a # None
    OBVIOUS
  <2>2. a \in Actors
    BY <1>2, <2>1, OwnerFacts DEF IInv
  <2>3. \A y \in accepted : bound[y] \in {None, a}
    BY <2>1
  <2> HIDE DEF accepted, waiting
  <2>4. Bindable(a, Vouched(Dropped(allocated, {}), a, accepted), Unbound({}), accepted, {})
    BY <1>2, <1>3, <1>5, <2>1, <2>3, OwnedIsBindable
  <2>5. MaySupersede(h, a, accepted, {})
    BY DEF MaySupersede
  <2> QED  BY <1>3, <1>4, <1>5, <2>2, <2>4, <2>5 DEF Settled
<1>6. ASSUME waiting = {}, NEW a \in Fresh(h.name),
             Bind(c, h, a, Vouched(Reserved(allocated, a), a, accepted), bound, accepted, {}),
             minted' = minted \cup {a}
      PROVE  Settled(c)
  <2>1. h.name \in Bases
    BY HelloFields
  <2>2. a \in Actors
    BY <2>1, FreshFacts DEF IInv
  <2>3. \A y \in accepted : bound[y] = None
    BY <1>6
  <2> HIDE DEF accepted, waiting
  <2>4. Bindable(a, Vouched(Reserved(Dropped(allocated, {}), a), a, accepted), Unbound({}), accepted, {})
    BY <1>3, <1>6, <2>1, <2>3, FreshIsBindable
  <2>5. MaySupersede(h, a, accepted, {})
    BY DEF MaySupersede
  <2> QED  BY <1>3, <1>4, <1>6, <2>2, <2>4, <2>5 DEF Settled
<1> QED  BY <1>5, <1>6 DEF PendingHello

\* A hello with handles nobody knows binds a new name.
LEMMA AllocateSettles ==
    ASSUME IInv, NEW c \in Conns, NEW h \in Hello, AllocateHello(c, h) PROVE Settled(c)
<1>1. /\ h.mode = "allocate" /\ Owners(Presented(h)) = {}
  BY DEF AllocateHello
<1>2. PICK a \in Fresh(h.name) :
         /\ Bind(c, h, a, Vouched(Reserved(allocated, a), a, h.sessions), bound, Presented(h), {})
         /\ minted' = minted \cup {a}
  BY DEF AllocateHello
<1>3. /\ h.name \in Bases /\ Presented(h) \in SUBSET Handles
      /\ Presented(h) \cap Sessions \subseteq h.sessions
  BY <1>1, HelloFields
<1>4. a \in Actors
  BY <1>3, FreshFacts DEF IInv
<1>5. \A y \in Presented(h) : bound[y] = None
  BY <1>1, <1>3, OwnersAreActors DEF IInv
<1>6. Dropped(allocated, {}) = allocated /\ Unbound({}) = bound
  BY NothingDropped DEF IInv
<1>7. Bindable(a, Vouched(Reserved(Dropped(allocated, {}), a), a, h.sessions), Unbound({}), Presented(h), {})
  BY <1>2, <1>3, <1>5, FreshIsBindable
<1>8. MaySupersede(h, a, Presented(h), {})
  BY DEF MaySupersede
<1> QED  BY <1>2, <1>3, <1>4, <1>6, <1>7, <1>8 DEF Settled

\* The actor the handles agree on owns one of them, and every other owner is
\* an idle reservation; if a session leads anywhere, it is the sessions' actor.
LEMMA ReconciledFacts ==
    ASSUME TypeOK, NEW h \in Hello, h.mode = "allocate", NEW w \in Reconciled(h)
    PROVE  /\ \E y \in Presented(h) : bound[y] = w
           /\ w # None /\ w \in Actors
           /\ GivenWay(h, w) \in SUBSET Actors /\ w \notin GivenWay(h, w)
           /\ \A x \in GivenWay(h, w) : Idle(x)
           /\ \A y \in Presented(h) : bound[y] \in {None, w} \/ Idle(bound[y])
           /\ Owners(h.sessions) # {} => w \in Owners(h.sessions) /\ Agree(Owners(h.sessions))
<1> DEFINE owners == Owners(Presented(h))
           vouched == Owners(h.sessions)
<1>1. Presented(h) \in SUBSET Handles /\ h.sessions \in SUBSET Handles /\ h.sessions \subseteq Presented(h)
  BY HelloFields
<1>2. vouched \subseteq owners
  BY <1>1 DEF Owners
<1>3. /\ owners \subseteq Actors
      /\ \A y \in Presented(h) : bound[y] \in owners \cup {None}
      /\ \A a \in owners : \E y \in Presented(h) : bound[y] = a /\ a # None
  BY <1>1, OwnersAreActors
<1>4. w \in owners /\ \A x \in owners \ {w} : Idle(x)
  <2>1. CASE Agree(owners)
    BY <2>1 DEF Reconciled, Agree
  <2>2. CASE ~Agree(owners)
    BY <1>2, <2>2 DEF Reconciled
  <2> QED  BY <2>1, <2>2
<1>5. vouched # {} => w \in vouched /\ Agree(vouched)
  <2>1. CASE Agree(owners)
    BY <1>2, <2>1 DEF Reconciled, Agree
  <2>2. CASE ~Agree(owners)
    BY <2>2 DEF Reconciled
  <2> QED  BY <2>1, <2>2
<1>6. GivenWay(h, w) = owners \ {w}
  BY DEF GivenWay
<1> HIDE DEF owners, vouched
<1>7. \A y \in Presented(h) : bound[y] \in {None, w} \/ Idle(bound[y])
  BY <1>3, <1>4
<1>8. Owners(h.sessions) # {} => w \in Owners(h.sessions) /\ Agree(Owners(h.sessions))
  BY <1>5 DEF vouched
<1> QED  BY <1>3, <1>4, <1>6, <1>7, <1>8

\* A reclaim binds the reconciled actor; a proven process that did not hold it
\* supersedes nobody without takeover, unless no session leads anywhere.
LEMMA ReclaimSettles ==
    ASSUME IInv, NEW c \in Conns, NEW h \in Hello, ReclaimHello(c, h) PROVE Settled(c)
<1>1. PICK w \in Reconciled(h) :
         /\ Reclaimable(h, w)
         /\ Bind(c, h, w, Vouched(Dropped(allocated, GivenWay(h, w)), w, h.sessions),
                 Unbound(GivenWay(h, w)), Presented(h), LiveElsewhere(w, CanonicalRun(h)))
         /\ minted' = minted
  BY DEF ReclaimHello
<1> DEFINE rivals == LiveElsewhere(w, CanonicalRun(h))
<1>2. h.mode = "allocate" /\ (Predecessors(h) = {} \/ h.takeover)
  BY <1>1 DEF Reclaimable
<1>3. TypeOK
  BY DEF IInv
<1>4. /\ Presented(h) \in SUBSET Handles /\ Presented(h) \cap Sessions = h.sessions
      /\ Presented(h) \cap Sessions \subseteq h.sessions
  BY <1>2, HelloFields
<1>5. /\ \E y \in Presented(h) : bound[y] = w
      /\ w # None /\ w \in Actors
      /\ GivenWay(h, w) \in SUBSET Actors /\ w \notin GivenWay(h, w)
      /\ \A x \in GivenWay(h, w) : Idle(x)
      /\ \A y \in Presented(h) : bound[y] \in {None, w} \/ Idle(bound[y])
      /\ Owners(h.sessions) # {} => w \in Owners(h.sessions) /\ Agree(Owners(h.sessions))
  BY <1>2, <1>3, ReconciledFacts
<1>6. rivals \in SUBSET Runs /\ \A r \in rivals : presence[w][r] = "live"
  BY RivalsAreLive
<1>7. MaySupersede(h, w, Presented(h), rivals)
  <2>1. CASE Predecessors(h) = {}
    <3>1. w \notin Predecessors(h)
      BY <2>1
    <3> QED  BY <1>4, <1>5, <3>1 DEF Predecessors, MaySupersede
  <2>2. CASE h.takeover
    BY <2>2 DEF MaySupersede
  <2> QED  BY <1>2, <2>1, <2>2
<1> HIDE DEF rivals
<1>8. PICK owner \in Handles : bound[owner] = w
  BY <1>4, <1>5
<1>9. Bindable(w, Vouched(Dropped(allocated, GivenWay(h, w)), w, h.sessions), Unbound(GivenWay(h, w)),
               Presented(h), rivals)
  BY <1>1, <1>4, <1>5, <1>6, <1>8, OwnedIsBindable
<1>10. Bind(c, h, w, Vouched(Dropped(allocated, GivenWay(h, w)), w, h.sessions),
            Unbound(GivenWay(h, w)), Presented(h), rivals)
  BY <1>1 DEF rivals
<1> QED  BY <1>4, <1>5, <1>6, <1>7, <1>9, <1>10 DEF Settled

\* A rename binds a new name with the handles of the adopted one.
LEMMA RenameSettles ==
    ASSUME IInv, NEW c \in Conns, NEW h \in Hello, RenameHello(c, h) PROVE Settled(c)
<1> PICK w \in Reconciled(h) :
         /\ Reclaimable(h, w) /\ Adopted(w)
         /\ \E a \in Fresh(BaseOf(w)) :
              /\ Bind(c, h, a, Vouched(Reserved(Dropped(allocated, GivenWay(h, w)), a), a, h.sessions),
                      Unbound(GivenWay(h, w)), Presented(h), {})
              /\ minted' = minted \cup {a}
  BY DEF RenameHello
<1>1. PICK a \in Fresh(BaseOf(w)) :
         /\ Reclaimable(h, w) /\ Adopted(w)
         /\ Bind(c, h, a, Vouched(Reserved(Dropped(allocated, GivenWay(h, w)), a), a, h.sessions),
                 Unbound(GivenWay(h, w)), Presented(h), {})
         /\ minted' = minted \cup {a}
  OBVIOUS
<1>2. h.mode = "allocate"
  BY <1>1 DEF Reclaimable
<1>3. TypeOK
  BY DEF IInv
<1>4. Presented(h) \in SUBSET Handles /\ Presented(h) \cap Sessions \subseteq h.sessions
  BY <1>2, HelloFields
<1>5. /\ w \in Actors
      /\ GivenWay(h, w) \in SUBSET Actors
      /\ \A x \in GivenWay(h, w) : Idle(x)
      /\ \A y \in Presented(h) : bound[y] \in {None, w} \/ Idle(bound[y])
  BY <1>2, <1>3, ReconciledFacts
<1>6. BaseOf(w) \in Bases
  BY <1>5, Names
<1>7. a \in Actors
  BY <1>6, FreshFacts DEF IInv
<1>8. \A y \in Presented(h) : bound[y] = None \/ Adopted(bound[y]) \/ Idle(bound[y])
  BY <1>1, <1>5
<1>9. Bindable(a, Vouched(Reserved(Dropped(allocated, GivenWay(h, w)), a), a, h.sessions),
               Unbound(GivenWay(h, w)), Presented(h), {})
  BY <1>1, <1>4, <1>5, <1>6, <1>8, FreshIsBindable
<1>10. MaySupersede(h, a, Presented(h), {})
  BY DEF MaySupersede
<1> QED  BY <1>1, <1>4, <1>7, <1>9, <1>10 DEF Settled

\* Whatever the kind of hello.
LEMMA HelloSettles ==
    ASSUME IInv, NEW c \in Conns, NEW h \in Hellos, BindActor(c, h) PROVE Settled(c)
<1>1. h \in Hello
  BY HellosAreHellos
<1> QED  BY <1>1, PlainSettles, ExactSettles, PendingSettles, AllocateSettles, ReclaimSettles, RenameSettles DEF BindActor

-----------------------------------------------------------------------------
(* The step that binds a connection keeps the invariant. *)

\* A Bind keeps the types, and has no other effect.
LEMMA BindFacts ==
    ASSUME IInv, NEW c \in Conns, NEW g \in Hello, NEW a \in Actors, NEW accepted \in SUBSET Handles,
           NEW rivals \in SUBSET Runs, NEW alloc, NEW binding,
           Bind(c, g, a, alloc, binding, accepted, rivals),
           Bindable(a, alloc, binding, accepted, rivals)
    PROVE  TypeOK' /\ Effect(c, g, a, alloc, binding, accepted, rivals)
<1> DEFINE run == CanonicalRun(g)
           new == [pc |-> IF rivals = {} THEN "greeting" ELSE "fencing",
                   open |-> TRUE, actor |-> a, run |-> run, handles |-> accepted,
                   instance |-> g.instance, takeover |-> g.takeover,
                   provisional |-> (alloc[a] = "provisional"), rivals |-> rivals, op |-> "none"]
<1>1. /\ TypeOK
      /\ g.instance \in Instances \cup {None} /\ g.takeover \in BOOLEAN
      /\ run \in Runs
  BY HelloFields DEF IInv
<1>2. /\ allocated' = alloc
      /\ bound' = [x \in Handles |-> IF x \in accepted THEN a ELSE binding[x]]
      /\ named' = IF alloc[a] = "provisional" THEN named ELSE named \cup {a}
      /\ instance' = IF g.instance = None THEN instance
                     ELSE [instance EXCEPT ![g.instance] = [actor |-> a, run |-> run]]
      /\ presence' = [presence EXCEPT ![a] = [r \in Runs |->
                          IF r \in rivals THEN "superseded" ELSE presence[a][r]]]
      /\ conn' = [conn EXCEPT ![c] = new]
      /\ UNCHANGED <<active, adopter, archived>>
  BY DEF Bind
<1>3. /\ alloc \in [Actors -> Status] /\ binding \in [Handles -> Actors \cup {None}]
      /\ minted' \subseteq Actors
  BY DEF Bindable
<1>4. new \in Connection /\ new.pc \in {"greeting", "fencing"}
  BY <1>1 DEF Connection
<1>5. /\ conn' \in [Conns -> Connection] /\ conn'[c] = new
      /\ \A d \in Conns \ {c} : conn'[d] = conn[d]
  BY <1>1, <1>2, <1>4 DEF TypeOK
<1>6. /\ new.actor = a /\ new.handles = accepted /\ new.instance = g.instance
      /\ new.takeover = g.takeover /\ new.provisional = (alloc[a] = "provisional")
  OBVIOUS
<1> HIDE DEF run, new
<1>7. bound' \in [Handles -> Actors \cup {None}]
  BY <1>2, <1>3
<1>8. /\ presence' \in [Actors -> [Runs -> Presence]]
      /\ \A x \in Actors, r \in Runs :
            presence'[x][r] = IF x = a /\ r \in rivals THEN "superseded" ELSE presence[x][r]
  BY <1>1, <1>2 DEF TypeOK, Presence
<1>9. instance' \in [Instances -> [actor : Actors, run : Runs] \cup {None}]
  BY <1>1, <1>2 DEF TypeOK
<1>10. TypeOK'
  BY <1>1, <1>2, <1>3, <1>5, <1>7, <1>8, <1>9 DEF TypeOK, Status
<1>11. Effect(c, g, a, alloc, binding, accepted, rivals)
  BY <1>2, <1>4, <1>5, <1>6, <1>7, <1>8 DEF Effect
<1> QED  BY <1>10, <1>11

\* The tables after a hello.
LEMMA SettledKeepsTables ==
    ASSUME IInv, NEW c \in Conns, Settled(c) PROVE TypeOK' /\ TablesInv'
<1> PICK g \in Hello, a \in Actors, accepted \in SUBSET Handles, rivals \in SUBSET Runs :
       \E alloc, binding : /\ Bind(c, g, a, alloc, binding, accepted, rivals)
                           /\ Bindable(a, alloc, binding, accepted, rivals)
  BY DEF Settled
<1> PICK alloc, binding : /\ Bind(c, g, a, alloc, binding, accepted, rivals)
                          /\ Bindable(a, alloc, binding, accepted, rivals)
  OBVIOUS
<1>0. TypeOK' /\ Effect(c, g, a, alloc, binding, accepted, rivals)
  BY BindFacts
<1>1. /\ TypeOK'
      /\ allocated' = alloc
      /\ \A y \in Handles : bound'[y] = IF y \in accepted THEN a ELSE binding[y]
      /\ named' = IF alloc[a] = "provisional" THEN named ELSE named \cup {a}
      /\ \A x \in Actors, r \in Runs :
            presence'[x][r] = IF x = a /\ r \in rivals THEN "superseded" ELSE presence[x][r]
      /\ UNCHANGED <<active, adopter, archived>>
  BY <1>0 DEF Effect
<1>2. /\ minted \subseteq minted' /\ a \in minted' \cup PlainNames
      /\ accepted # {} => a \notin archived
      /\ \A r \in rivals : presence[a][r] = "live"
      /\ \A x \in Actors \ {a} :
            \/ alloc[x] = allocated[x]
            \/ alloc[x] = "none" /\ Idle(x) /\ \A y \in Handles : binding[y] # x
      /\ alloc[a] = "provisional" => accepted \cap Sessions = {} /\ Reservable(a)
      /\ alloc[a] # "none" => a \notin PlainNames
      /\ \A y \in Handles : \/ binding[y] = bound[y]
                            \/ binding[y] = None /\ (bound[y] # None => Idle(bound[y]))
  BY DEF Bindable
<1>3. TypeOK /\ TablesInv
  BY DEF IInv
<1>4. OnlyDrawnNames'
  <2>1. ASSUME NEW x \in Actors, KnownIn(allocated, x)' PROVE x \in Drawn'
    <3>1. CASE x = a
      BY <1>2, <3>1 DEF Drawn
    <3>2. CASE x # a
      <4>1. KnownIn(allocated, x)
        BY <1>1, <1>2, <2>1, <3>2 DEF KnownIn, Idle
      <4> QED  BY <1>2, <1>3, <4>1 DEF TablesInv, OnlyDrawnNames, Drawn
    <3> QED  BY <3>1, <3>2
  <2>2. ASSUME NEW x \in PlainNames PROVE allocated'[x] = "none"
    <3>1. allocated[x] = "none"
      BY <1>3 DEF TablesInv, OnlyDrawnNames
    <3> QED  BY <1>1, <1>2, <3>1, Names
  <2> QED  BY <2>1, <2>2 DEF OnlyDrawnNames
<1>5. ArchivedWereNamed'
  BY <1>1, <1>3 DEF TablesInv, ArchivedWereNamed
<1>6. HandleReachesActor'
  <2> SUFFICES ASSUME NEW y \in Handles, bound'[y] # None
               PROVE  allocated'[bound'[y]] # "none" \/ bound'[y] \in named'
    BY DEF HandleReachesActor
  <2>1. CASE bound'[y] = a
    BY <1>1, <2>1
  <2>2. CASE bound'[y] # a
    <3>1. bound'[y] = binding[y] /\ binding[y] = bound[y]
      BY <1>1, <1>2, <2>2
    <3>2. bound[y] \in Actors \ {a} /\ (allocated[bound[y]] # "none" \/ bound[y] \in named)
      BY <1>3, <2>2, <3>1 DEF TypeOK, TablesInv, HandleReachesActor
    <3> QED  BY <1>1, <1>2, <3>1, <3>2
  <2> QED  BY <2>1, <2>2
<1>7. ProvisionalIsInvisible'
  <2> SUFFICES ASSUME NEW x \in Actors, allocated'[x] = "provisional"
               PROVE  Idle(x)' /\ x \notin named'
    BY DEF ProvisionalIsInvisible
  <2>1. /\ \A y \in Sessions : bound[y] # x
        /\ \A r \in Runs : presence[x][r] = "none"
        /\ x \notin active /\ x \notin named
    <3>1. CASE allocated[x] = "provisional"
      <4>1. Idle(x) /\ x \notin named
        BY <1>3, <3>1 DEF TablesInv, ProvisionalIsInvisible
      <4>2. \A y \in Sessions : bound[y] # x
        BY <4>1, NoneIsNobody DEF Idle, Owners
      <4> QED  BY <4>1, <4>2 DEF Idle
    <3>2. CASE allocated[x] # "provisional"
      <4>1. x = a /\ ~KnownIn(allocated, x)
        BY <1>1, <1>2, <3>2 DEF Reservable
      <4>2. \A y \in Handles : bound[y] # x
        BY <1>3, <4>1, OwnerFacts, NoneIsNobody
      <4> QED  BY <4>1, <4>2 DEF KnownIn, Handles
    <3> QED  BY <3>1, <3>2
  <2>2. \A y \in Sessions : bound'[y] # x
    BY <1>1, <1>2, <2>1, NoneIsNobody DEF Handles
  <2>3. \A r \in Runs : presence'[x][r] = "none"
    BY <1>1, <1>2, <2>1
  <2>4. x \notin active' /\ x \notin named'
    BY <1>1, <2>1
  <2> QED  BY <2>2, <2>3, <2>4 DEF Idle, Owners
<1>8. AdoptedIsNotLive'
  BY <1>1, <1>3 DEF TablesInv, AdoptedIsNotLive, Adopted, Live
<1>9. ArchivedIsUnreachable'
  <2>1. None \notin archived
    BY <1>3, NoneIsNobody DEF TypeOK
  <2> QED  BY <1>1, <1>2, <1>3, <2>1 DEF TablesInv, ArchivedIsUnreachable
<1> QED  BY <1>1, <1>4, <1>5, <1>6, <1>7, <1>8, <1>9 DEF TablesInv

\* The handlers after a hello: a name reserved now is nobody's.
LEMMA SettledKeepsHandlers ==
    ASSUME IInv, NEW c \in Conns, Settled(c) PROVE ConnectionsActAsNames'
<1> PICK g \in Hello, a \in Actors, accepted \in SUBSET Handles, rivals \in SUBSET Runs :
       \E alloc, binding : /\ Bind(c, g, a, alloc, binding, accepted, rivals)
                           /\ Bindable(a, alloc, binding, accepted, rivals)
  BY DEF Settled
<1> PICK alloc, binding : /\ Bind(c, g, a, alloc, binding, accepted, rivals)
                          /\ Bindable(a, alloc, binding, accepted, rivals)
  OBVIOUS
<1>0. TypeOK' /\ Effect(c, g, a, alloc, binding, accepted, rivals)
  BY BindFacts
<1>1. /\ allocated' = alloc
      /\ \A d \in Conns \ {c} : conn'[d] = conn[d]
      /\ conn'[c].pc \in {"greeting", "fencing"} /\ conn'[c].actor = a
      /\ conn'[c].provisional <=> alloc[a] = "provisional"
  BY <1>0 DEF Effect
<1>2. /\ minted \subseteq minted' /\ a \in minted' \cup PlainNames
      /\ \A x \in Actors \ {a} : alloc[x] = allocated[x] \/ alloc[x] = "none"
      /\ alloc[a] = "provisional" => Reservable(a)
  BY DEF Bindable
<1> SUFFICES ASSUME NEW d \in Conns, conn'[d].pc # "off"
             PROVE  /\ conn'[d].actor \in Drawn'
                    /\ conn'[d].provisional \/ allocated'[conn'[d].actor] # "provisional"
                    /\ conn'[d].pc = "calling" /\ conn'[d].provisional => conn'[d].op = "heartbeat"
  BY DEF ConnectionsActAsNames
<1>3. CASE d = c
  BY <1>1, <1>2, <1>3 DEF Drawn
<1>4. CASE d # c
  <2>1. /\ conn'[d] = conn[d]
        /\ conn[d].actor \in Drawn
        /\ conn[d].provisional \/ allocated[conn[d].actor] # "provisional"
        /\ conn[d].pc = "calling" /\ conn[d].provisional => conn[d].op = "heartbeat"
    BY <1>1, <1>4 DEF IInv, ConnectionsActAsNames
  <2>2. conn[d].actor \in Actors
    BY <2>1, Names DEF IInv, TypeOK, Drawn
  <2>3. alloc[conn[d].actor] = "provisional" => allocated[conn[d].actor] = "provisional"
    BY <1>2, <2>1, <2>2 DEF Reservable
  <2> QED  BY <1>1, <1>2, <2>1, <2>3 DEF Drawn
<1> QED  BY <1>3, <1>4

-----------------------------------------------------------------------------
(* The steps of handlers that only move on. *)

\* A handler ends or moves on under the name it has; on a provisional
\* connection it calls only heartbeats.
GoesOn(x, y) ==
    /\ y \in Connection
    /\ \/ y.pc = "off"
       \/ /\ x.pc # "off" /\ y.actor = x.actor
          /\ y.provisional <=> x.provisional
          /\ y.pc = "calling" /\ y.provisional => y.op = "heartbeat"

HandlersGoOn == \A d \in Conns : GoesOn(conn[d], conn'[d])

\* The moves that handlers make.
LEMMA Moves ==
    ASSUME IInv, NEW c \in Conns
    PROVE  /\ GoesOn(conn[c], conn[c]) /\ GoesOn(conn[c], Off)
           /\ conn[c].pc # "off" =>
                /\ GoesOn(conn[c], [conn[c] EXCEPT !.open = FALSE])
                /\ GoesOn(conn[c], [conn[c] EXCEPT !.pc = "greeting", !.rivals = {}])
                /\ GoesOn(conn[c], [conn[c] EXCEPT !.pc = "ready"])
                /\ GoesOn(conn[c], [conn[c] EXCEPT !.pc = "ready", !.op = "none"])
                /\ \A p \in {"checked", "calling"}, o \in Operations :
                      (p = "calling" /\ conn[c].provisional => o = "heartbeat")
                          => GoesOn(conn[c], [conn[c] EXCEPT !.op = o, !.pc = p])
<1>1. PICK x \in Connection : x = conn[c]
  BY DEF IInv, TypeOK
<1>2. x.pc = "calling" /\ x.provisional => x.op = "heartbeat"
  BY <1>1, ConnectionFields DEF IInv, ConnectionsActAsNames
<1>3. GoesOn(x, x) /\ GoesOn(x, Off)
  BY <1>2 DEF GoesOn, Connection, Off
<1>4. ASSUME x.pc # "off"
      PROVE  /\ GoesOn(x, [x EXCEPT !.open = FALSE])
             /\ GoesOn(x, [x EXCEPT !.pc = "greeting", !.rivals = {}])
             /\ GoesOn(x, [x EXCEPT !.pc = "ready"])
             /\ GoesOn(x, [x EXCEPT !.pc = "ready", !.op = "none"])
             /\ \A p \in {"checked", "calling"}, o \in Operations :
                   (p = "calling" /\ x.provisional => o = "heartbeat")
                       => GoesOn(x, [x EXCEPT !.op = o, !.pc = p])
  <2>1. x \in Acting
    BY <1>4, ConnectionFields
  <2>2. GoesOn(x, [x EXCEPT !.open = FALSE])
    BY <1>2, <1>4, <2>1 DEF GoesOn, Connection, Acting
  <2>3. /\ GoesOn(x, [x EXCEPT !.pc = "greeting", !.rivals = {}])
        /\ GoesOn(x, [x EXCEPT !.pc = "ready"])
        /\ GoesOn(x, [x EXCEPT !.pc = "ready", !.op = "none"])
    BY <1>4, <2>1 DEF GoesOn, Connection, Acting
  <2>4. ASSUME NEW p \in {"checked", "calling"}, NEW o \in Operations,
               p = "calling" /\ x.provisional => o = "heartbeat"
        PROVE  GoesOn(x, [x EXCEPT !.op = o, !.pc = p])
    BY <1>4, <2>1, <2>4 DEF GoesOn, Connection, Acting
  <2> QED  BY <2>2, <2>3, <2>4
<1> QED  BY <1>1, <1>3, <1>4

\* The handler of a call goes back to reading requests.
LEMMA ReturnedGoesOn ==
    ASSUME IInv, NEW c \in Conns, conn[c].pc # "off", Returned(c)
    PROVE  HandlersGoOn /\ conn' \in [Conns -> Connection]
<1>1. /\ conn'[c] = [conn[c] EXCEPT !.pc = "ready", !.op = "none"]
      /\ \A d \in Conns \ {c} : conn'[d] = conn[d]
  BY DEF Returned, IInv, TypeOK
<1>2. HandlersGoOn
  BY <1>1, Moves DEF HandlersGoOn
<1>3. conn' = [d \in Conns |-> conn'[d]]
  BY DEF Returned, IInv, TypeOK
<1> QED  BY <1>2, <1>3 DEF HandlersGoOn, GoesOn

\* The steps that concern handlers only.
LEMMA HandlerSteps ==
    ASSUME IInv, NEW c \in Conns,
           \/ Fence(c) \/ Greet(c) \/ GreetFails(c) \/ HangUp(c)
           \/ \E op \in Requests : Request(c, op)
           \/ FinalizeFails(c) \/ CallFails(c)
    PROVE  HandlersGoOn /\ UNCHANGED <<tables, lives>> /\ conn' \in [Conns -> Connection]
<1>1. conn \in [Conns -> Connection] /\ \A d \in Conns : conn[d].open => conn[d].pc # "off"
  BY ConnectionFields DEF IInv, TypeOK
<1>2. ASSUME conn' \in [Conns -> {conn'[d] : d \in Conns}], HandlersGoOn PROVE conn' \in [Conns -> Connection]
  BY <1>2 DEF HandlersGoOn, GoesOn
<1>3. CASE Fence(c)
  <2>1. \A d \in Conns :
           conn'[d] = IF d = c THEN [conn[c] EXCEPT !.pc = "greeting", !.rivals = {}]
                      ELSE IF /\ Tracked(d)
                              /\ conn[d].actor = conn[c].actor
                              /\ conn[d].run \in conn[c].rivals
                           THEN [conn[d] EXCEPT !.open = FALSE]
                           ELSE conn[d]
    BY <1>3 DEF Fence
  <2>2. \A d \in Conns : Tracked(d) => conn[d].pc # "off"
    BY DEF Tracked
  <2>3. conn[c].pc # "off"
    BY <1>3 DEF Fence
  <2>4. HandlersGoOn
    BY <2>1, <2>2, <2>3, Moves DEF HandlersGoOn
  <2>5. conn' \in [Conns -> {conn'[d] : d \in Conns}]
    BY <1>3 DEF Fence
  <2> QED  BY <1>2, <1>3, <2>4, <2>5 DEF Fence
<1>4. CASE Greet(c) \/ GreetFails(c) \/ HangUp(c) \/ FinalizeFails(c) \/ CallFails(c)
  <2>1. /\ conn[c].pc # "off"
        /\ \E x \in {Off, [conn[c] EXCEPT !.open = FALSE], [conn[c] EXCEPT !.pc = "ready"],
                     [conn[c] EXCEPT !.pc = "ready", !.op = "none"]} : conn' = [conn EXCEPT ![c] = x]
        /\ UNCHANGED <<tables, lives>>
    BY <1>1, <1>4 DEF Greet, GreetFails, HangUp, FinalizeFails, CallFails, Returned
  <2>2. /\ conn'[c] \in {Off, [conn[c] EXCEPT !.open = FALSE], [conn[c] EXCEPT !.pc = "ready"],
                         [conn[c] EXCEPT !.pc = "ready", !.op = "none"]}
        /\ \A d \in Conns \ {c} : conn'[d] = conn[d]
        /\ conn' \in [Conns -> {conn'[d] : d \in Conns}]
    BY <1>1, <2>1
  <2>3. HandlersGoOn
    BY <2>1, <2>2, Moves DEF HandlersGoOn
  <2> QED  BY <1>2, <2>1, <2>2, <2>3
<1>5. ASSUME NEW op \in Requests, Request(c, op)
      PROVE  HandlersGoOn /\ UNCHANGED <<tables, lives>> /\ conn' \in [Conns -> Connection]
  <2> DEFINE p == IF conn[c].provisional /\ Finalizes(op) THEN "checked" ELSE "calling"
  <2>1. conn[c].pc # "off" /\ conn' = [conn EXCEPT ![c] = [conn[c] EXCEPT !.op = op, !.pc = p]]
    BY <1>5 DEF Request
  <2>2. /\ op \in Operations /\ p \in {"checked", "calling"}
        /\ p = "calling" /\ conn[c].provisional => op = "heartbeat"
    BY RequestsAreOperations DEF Finalizes
  <2> HIDE DEF p
  <2>3. /\ conn'[c] = [conn[c] EXCEPT !.op = op, !.pc = p]
        /\ \A d \in Conns \ {c} : conn'[d] = conn[d]
        /\ conn' \in [Conns -> {conn'[d] : d \in Conns}]
    BY <1>1, <2>1
  <2>4. HandlersGoOn
    BY <2>1, <2>2, <2>3, Moves DEF HandlersGoOn
  <2> QED  BY <1>2, <1>5, <2>3, <2>4 DEF Request
<1> QED  BY <1>3, <1>4, <1>5

\* Handlers that go on act under their names as long as no name is reserved.
LEMMA GoingOnKeeps ==
    ASSUME IInv, HandlersGoOn, minted \subseteq minted',
           \A x \in Actors : allocated'[x] = "provisional" => allocated[x] = "provisional"
    PROVE  ConnectionsActAsNames'
<1> SUFFICES ASSUME NEW d \in Conns, conn'[d].pc # "off"
             PROVE  /\ conn'[d].actor \in Drawn'
                    /\ conn'[d].provisional \/ allocated'[conn'[d].actor] # "provisional"
                    /\ conn'[d].pc = "calling" /\ conn'[d].provisional => conn'[d].op = "heartbeat"
  BY DEF ConnectionsActAsNames
<1>1. /\ conn[d].pc # "off" /\ conn'[d].actor = conn[d].actor
      /\ conn'[d].provisional <=> conn[d].provisional
      /\ conn'[d].pc = "calling" /\ conn'[d].provisional => conn'[d].op = "heartbeat"
  BY DEF HandlersGoOn, GoesOn
<1>2. /\ conn[d].actor \in Drawn
      /\ conn[d].provisional \/ allocated[conn[d].actor] # "provisional"
  BY <1>1 DEF IInv, ConnectionsActAsNames
<1>3. conn[d].actor \in Actors
  BY <1>2, Names DEF Drawn, IInv, TypeOK
<1> QED  BY <1>1, <1>2, <1>3 DEF Drawn

\* Tables that nobody writes stay right.
LEMMA IdleTables ==
    ASSUME IInv, UNCHANGED <<tables, lives>>, conn' \in [Conns -> Connection] PROVE TypeOK' /\ TablesInv'
<1>1. UNCHANGED <<allocated, minted, named, bound, instance, presence, active, adopter, archived>>
  BY DEF tables, lives
<1>2. TypeOK'
  BY <1>1 DEF IInv, TypeOK
<1>3. /\ OnlyDrawnNames' /\ ArchivedWereNamed' /\ HandleReachesActor'
      /\ AdoptedIsNotLive' /\ ArchivedIsUnreachable'
  BY <1>1 DEF IInv, TablesInv, OnlyDrawnNames, ArchivedWereNamed, HandleReachesActor, AdoptedIsNotLive,
              ArchivedIsUnreachable, KnownIn, Drawn, Adopted, Live
<1>4. ProvisionalIsInvisible'
  BY <1>1 DEF IInv, TablesInv, ProvisionalIsInvisible, Idle, Owners
<1> QED  BY <1>2, <1>3, <1>4 DEF TablesInv

\* A registration is written under a durable name that is live only if it was
\* not adopted.
LEMMA PresenceWritten ==
    ASSUME IInv, NEW a \in Actors, NEW r \in Runs, NEW state \in Presence,
           a \in Drawn, allocated[a] # "provisional", state = "live" => ~Adopted(a),
           presence' = [presence EXCEPT ![a][r] = state],
           UNCHANGED <<tables, active, adopter, archived>>, conn' \in [Conns -> Connection]
    PROVE  TypeOK' /\ TablesInv'
<1>1. UNCHANGED <<allocated, minted, named, bound, instance, active, adopter, archived>>
  BY DEF tables
<1>2. /\ presence' \in [Actors -> [Runs -> Presence]]
      /\ \A x \in Actors, q \in Runs : presence'[x][q] = IF x = a /\ q = r THEN state ELSE presence[x][q]
  BY DEF IInv, TypeOK
<1>3. TypeOK'
  BY <1>1, <1>2 DEF IInv, TypeOK
<1>4. OnlyDrawnNames'
  <2>1. ASSUME NEW x \in Actors, KnownIn(allocated, x)' PROVE x \in Drawn
    <3>1. CASE x = a
      BY <3>1
    <3>2. CASE x # a
      BY <1>1, <1>2, <2>1, <3>2 DEF KnownIn, IInv, TablesInv, OnlyDrawnNames
    <3> QED  BY <3>1, <3>2
  <2> QED  BY <1>1, <2>1 DEF IInv, TablesInv, OnlyDrawnNames, Drawn
<1>5. ArchivedWereNamed' /\ HandleReachesActor' /\ ArchivedIsUnreachable'
  BY <1>1 DEF IInv, TablesInv, ArchivedWereNamed, HandleReachesActor, ArchivedIsUnreachable
<1>6. ProvisionalIsInvisible'
  BY <1>1, <1>2 DEF IInv, TablesInv, ProvisionalIsInvisible, Idle, Owners
<1>7. AdoptedIsNotLive'
  BY <1>1, <1>2 DEF IInv, TablesInv, AdoptedIsNotLive, Adopted, Live
<1> QED  BY <1>3, <1>4, <1>5, <1>6, <1>7 DEF TablesInv

\* Idle reservations are dropped with what leads to them, and names that are
\* known enter the directory.
LEMMA NamesDropped ==
    ASSUME IInv, NEW gone \in SUBSET Actors, \A x \in gone : Idle(x),
           allocated' = Dropped(allocated, gone), bound' = Unbound(gone),
           named \subseteq named', named' \subseteq Actors,
           \A x \in named' \ named : KnownIn(allocated, x) /\ allocated[x] # "provisional",
           instance' \in [Instances -> [actor : Actors, run : Runs] \cup {None}],
           UNCHANGED <<minted, lives>>, conn' \in [Conns -> Connection]
    PROVE  TypeOK' /\ TablesInv'
<1>1. UNCHANGED <<minted, presence, active, adopter, archived>> /\ TypeOK /\ TablesInv
  BY DEF lives, IInv
<1>2. /\ allocated' \in [Actors -> Status]
      /\ \A x \in Actors : allocated'[x] = IF x \in gone THEN "none" ELSE allocated[x]
      /\ bound' \in [Handles -> Actors \cup {None}]
      /\ \A y \in Handles : bound'[y] = IF bound[y] \in gone THEN None ELSE bound[y]
      /\ \A y \in Handles : bound'[y] \notin gone
  BY <1>1, DroppingFacts
<1>3. TypeOK'
  BY <1>1, <1>2 DEF TypeOK, Status
<1>4. OnlyDrawnNames'
  <2>1. ASSUME NEW x \in Actors, KnownIn(allocated, x)' PROVE KnownIn(allocated, x)
    BY <1>1, <1>2, <2>1 DEF KnownIn
  <2>2. \A x \in PlainNames : allocated'[x] = "none"
    BY <1>1, <1>2, Names DEF TablesInv, OnlyDrawnNames
  <2> QED  BY <1>1, <2>1, <2>2 DEF TablesInv, OnlyDrawnNames, Drawn
<1>5. ArchivedWereNamed'
  BY <1>1 DEF TablesInv, ArchivedWereNamed
<1>6. HandleReachesActor'
  BY <1>1, <1>2 DEF TablesInv, HandleReachesActor, TypeOK
<1>7. ProvisionalIsInvisible'
  <2> SUFFICES ASSUME NEW x \in Actors, allocated'[x] = "provisional" PROVE Idle(x)' /\ x \notin named'
    BY DEF ProvisionalIsInvisible
  <2>1. allocated[x] = "provisional" /\ Idle(x) /\ x \notin named
    BY <1>1, <1>2 DEF TablesInv, ProvisionalIsInvisible
  <2>2. \A y \in Sessions : bound'[y] # x
    BY <1>2, <2>1, NoneIsNobody DEF Idle, Owners, Handles
  <2> QED  BY <1>1, <1>2, <2>1, <2>2 DEF Idle, Owners
<1>8. AdoptedIsNotLive'
  BY <1>1 DEF TablesInv, AdoptedIsNotLive, Adopted, Live
<1>9. ArchivedIsUnreachable'
  <2>1. None \notin archived
    BY <1>1, NoneIsNobody DEF TypeOK
  <2> QED  BY <1>1, <1>2, <2>1 DEF TablesInv, ArchivedIsUnreachable
<1> QED  BY <1>3, <1>4, <1>5, <1>6, <1>7, <1>8, <1>9 DEF TablesInv

-----------------------------------------------------------------------------
(* The other steps. *)

\* The actor of a handler is an actor, drawn, and durable unless the handler
\* knows better.
LEMMA HandlerFacts ==
    ASSUME IInv, NEW c \in Conns, conn[c].pc # "off"
    PROVE  /\ conn[c].actor \in Actors /\ conn[c].actor \in Drawn /\ conn[c].run \in Runs
           /\ conn[c].provisional \/ allocated[conn[c].actor] # "provisional"
           /\ conn[c].pc = "calling" /\ conn[c].provisional => conn[c].op = "heartbeat"
           /\ conn[c] \in Acting
BY ConnectionFields DEF IInv, TypeOK, ConnectionsActAsNames

\* FinalizeActorAllocation turns a reservation into a name of the directory.
LEMMA FinalizeKeeps ==
    ASSUME IInv, NEW c \in Conns, FinalizeActorAllocation(c) PROVE IInv'
<1> DEFINE a == conn[c].actor
           new == [conn[c] EXCEPT !.pc = "calling", !.provisional = FALSE]
<1>1. /\ conn[c].pc # "off" /\ allocated' = Finalized(allocated, a)
      /\ named' = IF allocated[a] = "provisional" THEN named \cup {a} ELSE named
      /\ UNCHANGED <<minted, bound, instance, presence, active, adopter, archived>>
      /\ conn' = [conn EXCEPT ![c] = new]
  BY DEF FinalizeActorAllocation, lives
<1>2. a \in Actors /\ a \in Drawn /\ conn[c] \in Acting /\ TypeOK /\ TablesInv
  BY <1>1, HandlerFacts DEF IInv
<1>3. /\ allocated' \in [Actors -> Status]
      /\ \A x \in Actors \ {a} : allocated'[x] = allocated[x]
      /\ allocated'[a] # "provisional" /\ (allocated'[a] # "none" <=> allocated[a] # "none")
  BY <1>1, <1>2 DEF TypeOK, Status, Finalized
<1>4. new \in Connection /\ new.pc = "calling" /\ new.actor = a /\ new.provisional = FALSE
  BY <1>2 DEF Connection, Acting
<1>5. /\ conn' \in [Conns -> Connection] /\ conn'[c] = new
      /\ \A d \in Conns \ {c} : conn'[d] = conn[d]
  BY <1>1, <1>2, <1>4 DEF TypeOK
<1> HIDE DEF a, new
<1>6. TypeOK'
  BY <1>1, <1>2, <1>3, <1>5 DEF TypeOK, Status
<1>7. OnlyDrawnNames'
  <2>1. ASSUME NEW x \in Actors, KnownIn(allocated, x)' PROVE x \in Drawn
    <3>1. CASE x = a
      BY <1>2, <3>1
    <3>2. CASE x # a
      BY <1>1, <1>2, <1>3, <2>1, <3>2 DEF KnownIn, TablesInv, OnlyDrawnNames
    <3> QED  BY <3>1, <3>2
  <2>2. ASSUME NEW x \in PlainNames PROVE allocated'[x] = "none"
    BY <1>2, <1>3, Names DEF TablesInv, OnlyDrawnNames
  <2> QED  BY <1>1, <2>1, <2>2 DEF OnlyDrawnNames, Drawn
<1>8. ArchivedWereNamed' /\ ArchivedIsUnreachable'
  BY <1>1, <1>2 DEF TablesInv, ArchivedWereNamed, ArchivedIsUnreachable
<1>9. HandleReachesActor'
  BY <1>1, <1>2, <1>3 DEF TablesInv, HandleReachesActor, TypeOK
<1>10. ProvisionalIsInvisible'
  <2> SUFFICES ASSUME NEW x \in Actors, allocated'[x] = "provisional" PROVE Idle(x)' /\ x \notin named'
    BY DEF ProvisionalIsInvisible
  <2>1. x # a /\ allocated[x] = "provisional"
    BY <1>3
  <2>2. Idle(x) /\ x \notin named
    BY <1>2, <2>1 DEF TablesInv, ProvisionalIsInvisible
  <2> QED  BY <1>1, <2>1, <2>2 DEF Idle, Owners
<1>11. AdoptedIsNotLive'
  BY <1>1, <1>2 DEF TablesInv, AdoptedIsNotLive, Adopted, Live
<1>12. ConnectionsActAsNames'
  <2> SUFFICES ASSUME NEW d \in Conns, conn'[d].pc # "off"
               PROVE  /\ conn'[d].actor \in Drawn'
                      /\ conn'[d].provisional \/ allocated'[conn'[d].actor] # "provisional"
                      /\ conn'[d].pc = "calling" /\ conn'[d].provisional => conn'[d].op = "heartbeat"
    BY DEF ConnectionsActAsNames
  <2>1. CASE d = c
    BY <1>1, <1>2, <1>3, <1>4, <1>5, <2>1 DEF Drawn
  <2>2. CASE d # c
    <3>1. conn'[d] = conn[d]
      BY <1>5, <2>2
    <3>2. /\ conn[d].actor \in Actors /\ conn[d].actor \in Drawn
          /\ conn[d].provisional \/ allocated[conn[d].actor] # "provisional"
          /\ conn[d].pc = "calling" /\ conn[d].provisional => conn[d].op = "heartbeat"
      BY <3>1, HandlerFacts
    <3>3. allocated'[conn[d].actor] = "provisional" => allocated[conn[d].actor] = "provisional"
      BY <1>3, <3>2
    <3> QED  BY <1>1, <3>1, <3>2, <3>3 DEF Drawn
  <2> QED  BY <2>1, <2>2
<1> QED  BY <1>6, <1>7, <1>8, <1>9, <1>10, <1>11, <1>12 DEF IInv, TablesInv

\* A registration is written by a handler whose name is durable, or only
\* renewed: a reservation has no registration to renew.
LEMMA RegistrationKeeps ==
    ASSUME IInv, NEW c \in Conns, RegisterSession(c) \/ HeartbeatRegistrations(c) \/ ExpireRegistration(c)
    PROVE  IInv'
<1> DEFINE a == conn[c].actor
           r == conn[c].run
<1>1. /\ conn[c].pc = "calling" /\ conn[c].pc # "off" /\ Returned(c)
      /\ UNCHANGED <<tables, active, adopter, archived>>
  BY DEF RegisterSession, HeartbeatRegistrations, ExpireRegistration
<1>2. /\ a \in Actors /\ a \in Drawn /\ r \in Runs
      /\ conn[c].provisional \/ allocated[a] # "provisional"
      /\ conn[c].provisional => conn[c].op = "heartbeat"
  BY <1>1, HandlerFacts
<1>3. HandlersGoOn /\ conn' \in [Conns -> Connection]
  BY <1>1, ReturnedGoesOn
<1>4. UNCHANGED <<allocated, minted>>
  BY <1>1 DEF tables
<1>5. \/ UNCHANGED presence
      \/ \E state \in Presence :
            /\ presence' = [presence EXCEPT ![a][r] = state]
            /\ state = "live" => ~Adopted(a)
            /\ conn[c].op # "heartbeat" \/ presence[a][r] = "lapsed"
  BY DEF RegisterSession, HeartbeatRegistrations, ExpireRegistration, SetPresence, Presence
<1>6. TypeOK' /\ TablesInv'
  <2>1. CASE UNCHANGED presence
    BY <1>1, <1>3, <2>1, IdleTables DEF lives
  <2>2. ASSUME NEW state \in Presence, presence' = [presence EXCEPT ![a][r] = state],
               state = "live" => ~Adopted(a), conn[c].op # "heartbeat" \/ presence[a][r] = "lapsed"
        PROVE  TypeOK' /\ TablesInv'
    <3>1. allocated[a] # "provisional"
      <4>1. CASE conn[c].op # "heartbeat"
        BY <1>2, <4>1
      <4>2. CASE presence[a][r] = "lapsed"
        BY <1>2, <4>2 DEF IInv, TablesInv, ProvisionalIsInvisible, Idle
      <4> QED  BY <2>2, <4>1, <4>2
    <3> HIDE DEF a, r
    <3> QED  BY <1>1, <1>2, <1>3, <2>2, <3>1, PresenceWritten
  <2> QED  BY <1>5, <2>1, <2>2
<1> HIDE DEF a, r
<1>7. ConnectionsActAsNames'
  BY <1>3, <1>4, GoingOnKeeps
<1> QED  BY <1>6, <1>7 DEF IInv

\* A registration lapses.
LEMMA LapseKeeps ==
    ASSUME IInv, NEW a \in Actors, NEW r \in Runs, PresenceLapses(a, r) PROVE IInv'
<1>1. /\ presence[a][r] = "live" /\ presence' = [presence EXCEPT ![a][r] = "lapsed"]
      /\ UNCHANGED <<tables, active, adopter, archived, conn>> /\ UNCHANGED <<allocated, minted>>
  BY DEF PresenceLapses, tables
<1>2. KnownIn(allocated, a) /\ allocated[a] # "provisional"
  BY <1>1 DEF KnownIn, IInv, TablesInv, ProvisionalIsInvisible, Idle
<1>3. a \in Drawn
  BY <1>2 DEF IInv, TablesInv, OnlyDrawnNames
<1>4. HandlersGoOn /\ conn' \in [Conns -> Connection]
  BY <1>1, Moves DEF HandlersGoOn, IInv, TypeOK
<1>5. TypeOK' /\ TablesInv'
  <2>1. PICK state \in Presence : state = "lapsed"
    BY DEF Presence
  <2>2. presence' = [presence EXCEPT ![a][r] = state] /\ (state = "live" => ~Adopted(a))
    BY <1>1, <2>1
  <2> QED  BY <1>1, <1>2, <1>3, <1>4, <2>2, PresenceWritten
<1>6. ConnectionsActAsNames'
  BY <1>1, <1>4, GoingOnKeeps
<1> QED  BY <1>5, <1>6 DEF IInv

\* Mail goes to a name that is known or configured, and its sender is durable:
\* both enter the directory.
LEMMA SendKeeps ==
    ASSUME IInv, NEW c \in Conns, Send(c) PROVE IInv'
<1> DEFINE a == conn[c].actor
<1>1. /\ conn[c].pc = "calling" /\ conn[c].pc # "off" /\ conn[c].op = "send" /\ Returned(c)
      /\ UNCHANGED <<allocated, minted, bound, instance, presence, adopter, archived>>
  BY DEF Send
<1>2. PICK b \in Addressees \cap (named \cup PlainNames) :
         active' = active \cup {b} /\ named' = named \cup {a, b}
  BY DEF Send, PlainNames
<1>3. TypeOK /\ TablesInv
  BY DEF IInv
<1>4. /\ a \in Actors /\ a \in Drawn /\ allocated[a] # "provisional"
  BY <1>1, HandlerFacts
<1>5. /\ b \in Actors /\ b \in Drawn /\ allocated[b] # "provisional"
  <2>1. b \in Actors
    BY ActorsAreActors
  <2>2. CASE b \in named
    BY <1>3, <2>1, <2>2 DEF TablesInv, OnlyDrawnNames, KnownIn, ProvisionalIsInvisible
  <2>3. CASE b \in PlainNames
    BY <1>3, <2>1, <2>3 DEF TablesInv, OnlyDrawnNames, Drawn
  <2> QED  BY <1>2, <2>1, <2>2, <2>3
<1>6. HandlersGoOn /\ conn' \in [Conns -> Connection]
  BY <1>1, ReturnedGoesOn
<1> HIDE DEF a
<1>7. TypeOK'
  BY <1>1, <1>2, <1>3, <1>4, <1>5, <1>6 DEF TypeOK
<1>8. OnlyDrawnNames'
  <2>1. ASSUME NEW x \in Actors, KnownIn(allocated, x)' PROVE x \in Drawn
    <3>1. CASE x \in {a, b}
      BY <1>4, <1>5, <3>1
    <3>2. CASE x \notin {a, b}
      BY <1>1, <1>2, <1>3, <2>1, <3>2 DEF KnownIn, TablesInv, OnlyDrawnNames
    <3> QED  BY <3>1, <3>2
  <2> QED  BY <1>1, <1>3, <2>1 DEF TablesInv, OnlyDrawnNames, Drawn
<1>9. ArchivedWereNamed' /\ ArchivedIsUnreachable'
  BY <1>1, <1>2, <1>3 DEF TablesInv, ArchivedWereNamed, ArchivedIsUnreachable
<1>10. HandleReachesActor'
  BY <1>1, <1>2, <1>3 DEF TablesInv, HandleReachesActor
<1>11. ProvisionalIsInvisible'
  <2> SUFFICES ASSUME NEW x \in Actors, allocated'[x] = "provisional" PROVE Idle(x)' /\ x \notin named'
    BY DEF ProvisionalIsInvisible
  <2>1. x \notin {a, b} /\ allocated[x] = "provisional"
    BY <1>1, <1>4, <1>5
  <2>2. Idle(x) /\ x \notin named
    BY <1>3, <2>1 DEF TablesInv, ProvisionalIsInvisible
  <2> QED  BY <1>1, <1>2, <2>1, <2>2 DEF Idle, Owners
<1>12. AdoptedIsNotLive'
  BY <1>1, <1>3 DEF TablesInv, AdoptedIsNotLive, Adopted, Live
<1>13. ConnectionsActAsNames'
  BY <1>1, <1>6, GoingOnKeeps
<1> QED  BY <1>7, <1>8, <1>9, <1>10, <1>11, <1>12, <1>13 DEF IInv, TablesInv

\* The handler that ends drops its reservation if nobody used it.
LEMMA ReleaseKeeps ==
    ASSUME IInv, NEW c \in Conns, ReleaseProvisionalActor(c) PROVE IInv'
<1> DEFINE gone == {a \in {conn[c].actor} : conn[c].provisional /\ Idle(a)}
<1>1. /\ conn[c].pc # "off" /\ allocated' = Dropped(allocated, gone) /\ bound' = Unbound(gone)
      /\ instance' = [i \in Instances |-> IF instance[i] # None /\ instance[i].actor \in gone
                                         THEN None ELSE instance[i]]
      /\ conn' = [conn EXCEPT ![c] = Off]
      /\ UNCHANGED <<minted, named, lives>>
  BY DEF ReleaseProvisionalActor
<1>2. gone \in SUBSET Actors /\ \A x \in gone : Idle(x)
  BY <1>1, HandlerFacts
<1> HIDE DEF gone
<1>3. instance' \in [Instances -> [actor : Actors, run : Runs] \cup {None}] /\ named \subseteq Actors
  BY <1>1 DEF IInv, TypeOK
<1>4. HandlersGoOn /\ conn' \in [Conns -> Connection]
  <2>1. conn'[c] = Off /\ (\A d \in Conns \ {c} : conn'[d] = conn[d]) /\ conn' = [d \in Conns |-> conn'[d]]
    BY <1>1 DEF IInv, TypeOK
  <2>2. HandlersGoOn
    BY <2>1, Moves DEF HandlersGoOn
  <2> QED  BY <2>1, <2>2 DEF HandlersGoOn, GoesOn
<1>5. TypeOK' /\ TablesInv'
  BY <1>1, <1>2, <1>3, <1>4, NamesDropped
<1>6. \A x \in Actors : allocated'[x] = "provisional" => allocated[x] = "provisional"
  BY <1>1, <1>2, DroppingFacts DEF IInv
<1>7. ConnectionsActAsNames'
  BY <1>1, <1>4, <1>6, GoingOnKeeps
<1> QED  BY <1>5, <1>7 DEF IInv

\* A restart drops every reservation: by the invariant all of them are unused.
LEMMA RestartKeeps ==
    ASSUME IInv, Restart PROVE IInv'
<1> DEFINE gone == {a \in Actors : Idle(a)}
<1>1. /\ conn' = [c \in Conns |-> Off] /\ allocated' = Dropped(allocated, gone) /\ bound' = Unbound(gone)
      /\ named' = named \cup active \cup
            {a \in Actors : allocated[a] = "final" \/ \E r \in Runs : presence[a][r] # "none"}
      /\ UNCHANGED <<minted, instance, lives>>
  BY DEF Restart
<1>2. gone \in SUBSET Actors /\ \A x \in gone : Idle(x)
  OBVIOUS
<1> HIDE DEF gone
<1>3. named \subseteq named' /\ named' \subseteq Actors
  BY <1>1 DEF IInv, TypeOK
<1>4. \A x \in named' \ named : KnownIn(allocated, x) /\ allocated[x] # "provisional"
  BY <1>1, <1>3 DEF KnownIn, IInv, TablesInv, ProvisionalIsInvisible, Idle
<1>5. instance' \in [Instances -> [actor : Actors, run : Runs] \cup {None}]
  BY <1>1 DEF IInv, TypeOK
<1>6. HandlersGoOn /\ conn' \in [Conns -> Connection]
  <2>1. \A d \in Conns : conn'[d] = Off
    BY <1>1
  <2>2. HandlersGoOn
    BY <2>1, Moves DEF HandlersGoOn
  <2> QED  BY <1>1, <2>2 DEF HandlersGoOn, GoesOn
<1>7. TypeOK' /\ TablesInv'
  BY <1>1, <1>2, <1>3, <1>4, <1>5, <1>6, NamesDropped
<1>8. \A x \in Actors : allocated'[x] = "provisional" => allocated[x] = "provisional"
  BY <1>1, <1>2, DroppingFacts DEF IInv
<1>9. ConnectionsActAsNames'
  BY <1>1, <1>6, <1>8, GoingOnKeeps
<1> QED  BY <1>7, <1>9 DEF IInv

\* Adoption retires an actor that is not live.
LEMMA AdoptKeeps ==
    ASSUME IInv, NEW a \in Actors, NEW b \in Actors, AdoptActor(a, b) PROVE IInv'
<1>1. /\ ~Live(a) /\ adopter' = [adopter EXCEPT ![a] = b]
      /\ UNCHANGED <<allocated, minted, named, bound, instance, presence, active, archived, conn>>
  BY DEF AdoptActor, tables
<1>2. TypeOK'
  BY <1>1 DEF IInv, TypeOK
<1>3. AdoptedIsNotLive'
  <2>1. \A x \in Actors \ {a} : adopter'[x] = adopter[x]
    BY <1>1 DEF IInv, TypeOK
  <2> QED  BY <1>1, <2>1 DEF IInv, TablesInv, AdoptedIsNotLive, Adopted, Live
<1>4. OnlyDrawnNames' /\ ArchivedWereNamed' /\ HandleReachesActor' /\ ArchivedIsUnreachable'
  BY <1>1 DEF IInv, TablesInv, OnlyDrawnNames, ArchivedWereNamed, HandleReachesActor,
              ArchivedIsUnreachable, KnownIn, Drawn
<1>5. ProvisionalIsInvisible'
  BY <1>1 DEF IInv, TablesInv, ProvisionalIsInvisible, Idle, Owners
<1>6. HandlersGoOn
  BY <1>1, Moves DEF HandlersGoOn
<1>7. ConnectionsActAsNames'
  BY <1>1, <1>6, GoingOnKeeps
<1> QED  BY <1>2, <1>3, <1>4, <1>5, <1>7 DEF IInv, TablesInv

\* Archival takes an actor of the directory away from every handle; restoring
\* it leads no handle back.
LEMMA ArchivalKeeps ==
    ASSUME IInv, NEW a \in Retirable, ArchiveActor(a) \/ RestoreActor(a) PROVE IInv'
<1>1. TypeOK /\ TablesInv /\ a \in Actors
  BY ActorsAreActors DEF IInv
<1>2. /\ UNCHANGED <<allocated, minted, named, presence, active, adopter, conn>>
      /\ archived' \subseteq archived \cup {a} /\ archived' \subseteq named
      /\ instance' \in [Instances -> [actor : Actors, run : Runs] \cup {None}]
      /\ \/ bound' = Unbound({a})
         \/ UNCHANGED bound /\ a \notin archived'
  <2>1. CASE ArchiveActor(a)
    BY <1>1, <2>1 DEF ArchiveActor, TypeOK, TablesInv, ArchivedWereNamed
  <2>2. CASE RestoreActor(a)
    BY <1>1, <2>2 DEF RestoreActor, TypeOK, TablesInv, ArchivedWereNamed, tables
  <2> QED  BY <2>1, <2>2
<1>3. /\ bound' \in [Handles -> Actors \cup {None}]
      /\ \A y \in Handles : bound'[y] = bound[y] \/ bound'[y] = None
      /\ \A y \in Handles : bound'[y] # a \/ a \notin archived'
  <2>1. CASE bound' = Unbound({a})
    <3>1. PICK gone \in SUBSET Actors : gone = {a}
      BY <1>1
    <3>2. bound' = Unbound(gone)
      BY <2>1, <3>1
    <3>3. /\ Unbound(gone) \in [Handles -> Actors \cup {None}]
          /\ \A y \in Handles : Unbound(gone)[y] = IF bound[y] \in gone THEN None ELSE bound[y]
          /\ \A y \in Handles : Unbound(gone)[y] \notin gone
      BY <1>1, DroppingFacts
    <3> QED  BY <3>1, <3>2, <3>3
  <2>2. CASE UNCHANGED bound /\ a \notin archived'
    BY <1>1, <2>2 DEF TypeOK
  <2> QED  BY <1>2, <2>1, <2>2
<1>4. TypeOK'
  BY <1>1, <1>2, <1>3 DEF TypeOK
<1>5. OnlyDrawnNames' /\ ArchivedWereNamed' /\ HandleReachesActor'
  BY <1>1, <1>2, <1>3 DEF TablesInv, OnlyDrawnNames, ArchivedWereNamed, HandleReachesActor, KnownIn, Drawn
<1>6. ArchivedIsUnreachable'
  <2>1. None \notin archived'
    BY <1>4, NoneIsNobody DEF TypeOK
  <2> QED  BY <1>1, <1>2, <1>3, <2>1 DEF TablesInv, ArchivedIsUnreachable
<1>7. ProvisionalIsInvisible'
  <2> SUFFICES ASSUME NEW x \in Actors, allocated'[x] = "provisional" PROVE Idle(x)' /\ x \notin named'
    BY DEF ProvisionalIsInvisible
  <2>1. Idle(x) /\ x \notin named
    BY <1>1, <1>2 DEF TablesInv, ProvisionalIsInvisible
  <2>2. \A y \in Sessions : bound'[y] # x
    BY <1>3, <2>1, NoneIsNobody DEF Idle, Owners, Handles
  <2> QED  BY <1>2, <2>1, <2>2 DEF Idle, Owners
<1>8. AdoptedIsNotLive'
  BY <1>1, <1>2 DEF TablesInv, AdoptedIsNotLive, Adopted, Live
<1>9. HandlersGoOn
  BY <1>2, Moves DEF HandlersGoOn
<1>10. ConnectionsActAsNames'
  BY <1>2, <1>9, GoingOnKeeps
<1> QED  BY <1>4, <1>5, <1>6, <1>7, <1>8, <1>10 DEF IInv, TablesInv

-----------------------------------------------------------------------------
(* The invariant. *)

\* At first there is no name and no handler.
LEMMA InitIInv == Init => IInv
<1> SUFFICES ASSUME Init PROVE IInv
  OBVIOUS
<1>1. TypeOK
  BY DEF Init, TypeOK, Connection, Presence
<1>2. TablesInv
  BY Names, NoneIsNobody DEF Init, TablesInv, OnlyDrawnNames, KnownIn, ArchivedWereNamed, HandleReachesActor,
     ProvisionalIsInvisible, AdoptedIsNotLive, Adopted, ArchivedIsUnreachable
<1>3. ConnectionsActAsNames
  BY DEF Init, ConnectionsActAsNames, Off
<1> QED  BY <1>1, <1>2, <1>3 DEF IInv

\* Every step of a handler keeps the invariant.
LEMMA HandlerKeeps ==
    ASSUME IInv, NEW c \in Conns, Handler(c) PROVE IInv'
<1>1. ASSUME NEW h \in Hellos, BindActor(c, h) PROVE IInv'
  BY <1>1, HelloSettles, SettledKeepsTables, SettledKeepsHandlers DEF IInv
<1>2. CASE \/ Fence(c) \/ Greet(c) \/ GreetFails(c) \/ HangUp(c)
           \/ \E op \in Requests : Request(c, op)
           \/ FinalizeFails(c) \/ CallFails(c)
  <2>1. HandlersGoOn /\ UNCHANGED <<tables, lives>> /\ conn' \in [Conns -> Connection]
    BY <1>2, HandlerSteps
  <2>2. TypeOK' /\ TablesInv'
    BY <2>1, IdleTables
  <2>3. UNCHANGED <<allocated, minted>>
    BY <2>1 DEF tables
  <2>4. ConnectionsActAsNames'
    BY <2>1, <2>3, GoingOnKeeps
  <2> QED  BY <2>2, <2>4 DEF IInv
<1>3. CASE FinalizeActorAllocation(c)
  BY <1>3, FinalizeKeeps
<1>4. CASE RegisterSession(c) \/ HeartbeatRegistrations(c) \/ ExpireRegistration(c)
  BY <1>4, RegistrationKeeps
<1>5. CASE Send(c)
  BY <1>5, SendKeeps
<1>6. CASE ReleaseProvisionalActor(c)
  BY <1>6, ReleaseKeeps
<1> QED  BY <1>1, <1>2, <1>3, <1>4, <1>5, <1>6 DEF Handler

\* Every step keeps the invariant.
LEMMA NextIInv == IInv /\ [Next]_vars => IInv'
<1> SUFFICES ASSUME IInv, [Next]_vars PROVE IInv'
  OBVIOUS
<1>1. ASSUME NEW c \in Conns, Handler(c) PROVE IInv'
  BY <1>1, HandlerKeeps
<1>2. ASSUME NEW a \in Actors, NEW r \in Runs, PresenceLapses(a, r) PROVE IInv'
  BY <1>2, LapseKeeps
<1>3. ASSUME NEW a \in Actors, NEW b \in Actors, AdoptActor(a, b) PROVE IInv'
  BY <1>3, AdoptKeeps
<1>4. ASSUME NEW a \in Retirable, ArchiveActor(a) \/ RestoreActor(a) PROVE IInv'
  BY <1>4, ArchivalKeeps
<1>5. CASE Restart
  BY <1>5, RestartKeeps
<1>6. CASE UNCHANGED vars
  <2>1. UNCHANGED <<tables, lives>> /\ UNCHANGED <<allocated, minted, conn>>
    BY <1>6 DEF vars, tables, lives
  <2>2. conn' \in [Conns -> Connection]
    BY <2>1 DEF IInv, TypeOK
  <2>3. TypeOK' /\ TablesInv'
    BY <2>1, <2>2, IdleTables
  <2>4. HandlersGoOn
    BY <2>1, Moves DEF HandlersGoOn
  <2>5. ConnectionsActAsNames'
    BY <2>1, <2>4, GoingOnKeeps
  <2> QED  BY <2>3, <2>5 DEF IInv
<1> QED  BY <1>1, <1>2, <1>3, <1>4, <1>5, <1>6 DEF Next

LEMMA SpecIInv == Spec => []IInv
BY InitIInv, NextIInv, PTL DEF Spec

\* The tables and the handlers keep their types.
THEOREM TypeCorrect == Spec => []TypeOK
BY SpecIInv, PTL DEF IInv

\* A handle never leads to a name that is gone, whatever hello, release,
\* archival or restart dropped names.
THEOREM HandlesReachActors == Spec => []HandleReachesActor
<1>1. IInv => HandleReachesActor
  BY DEF IInv, TablesInv
<1> QED  BY <1>1, SpecIInv, PTL

\* A reservation is invisible until a handler finalizes it or a session handle
\* vouches for it.
THEOREM ProvisionalInvisible == Spec => []ProvisionalIsInvisible
<1>1. IInv => ProvisionalIsInvisible
  BY DEF IInv, TablesInv
<1> QED  BY <1>1, SpecIInv, PTL

\* An adopted actor is never live again.
THEOREM AdoptedNeverLive == Spec => []AdoptedIsNotLive
<1>1. IInv => AdoptedIsNotLive
  BY DEF IInv, TablesInv
<1> QED  BY <1>1, SpecIInv, PTL

\* No handle leads to an archived actor.
THEOREM ArchivedUnreachable == Spec => []ArchivedIsUnreachable
<1>1. IInv => ArchivedIsUnreachable
  BY DEF IInv, TablesInv
<1> QED  BY <1>1, SpecIInv, PTL

-----------------------------------------------------------------------------
(* The action properties. *)

\* A hello moves handles from adopted actors and unused reservations only, and
\* supersedes whom it may.
LEMMA HelloMoves ==
    ASSUME IInv, NEW c \in Conns, Settled(c)
    PROVE  /\ \A y \in Handles : bound[y] # None /\ bound'[y] # bound[y] => Adopted(bound[y]) \/ Idle(bound[y])
           /\ \A d \in Conns \ {c} : conn'[d] = conn[d]
           /\ \A a \in Actors, r \in Runs : Supersedes(c, a, r) =>
                 \/ conn'[c].takeover
                 \/ conn'[c].instance = None
                 \/ bound[conn'[c].instance] = a
                 \/ Owners(conn'[c].handles \cap Sessions) = {}
<1> PICK g \in Hello, a \in Actors, accepted \in SUBSET Handles, rivals \in SUBSET Runs :
       \E alloc, binding : /\ Bind(c, g, a, alloc, binding, accepted, rivals)
                           /\ Bindable(a, alloc, binding, accepted, rivals)
                           /\ MaySupersede(g, a, accepted, rivals)
  BY DEF Settled
<1> PICK alloc, binding : /\ Bind(c, g, a, alloc, binding, accepted, rivals)
                          /\ Bindable(a, alloc, binding, accepted, rivals)
                          /\ MaySupersede(g, a, accepted, rivals)
  OBVIOUS
<1>1. Effect(c, g, a, alloc, binding, accepted, rivals)
  BY BindFacts
<1>2. /\ \A y \in Handles : \/ binding[y] = bound[y]
                            \/ binding[y] = None /\ (bound[y] # None => Idle(bound[y]))
      /\ \A y \in accepted : bound[y] \in {None, a} \/ Adopted(bound[y]) \/ Idle(bound[y])
  BY DEF Bindable
<1>3. \A y \in Handles : bound[y] # None /\ bound'[y] # bound[y] => Adopted(bound[y]) \/ Idle(bound[y])
  BY <1>1, <1>2 DEF Effect
<1>4. \A d \in Conns \ {c} : conn'[d] = conn[d]
  BY <1>1 DEF Effect
<1>5. ASSUME NEW x \in Actors, NEW r \in Runs, Supersedes(c, x, r)
      PROVE  \/ conn'[c].takeover
             \/ conn'[c].instance = None
             \/ bound[conn'[c].instance] = x
             \/ Owners(conn'[c].handles \cap Sessions) = {}
  <2>1. conn'[c].actor = a /\ conn'[c].takeover = g.takeover /\ conn'[c].instance = g.instance
        /\ conn'[c].handles = accepted
    BY <1>1 DEF Effect
  <2>2. x = a /\ r \in rivals
    BY <1>1, <1>5, <2>1 DEF Effect, Supersedes
  <2> QED  BY <2>1, <2>2 DEF MaySupersede
<1> QED  BY <1>3, <1>4, <1>5

SomeHello == \E c \in Conns, h \in Hellos : BindActor(c, h)

\* Nobody but a hello opens a handler, and no other step moves a handle from an
\* actor that is in use.
LEMMA OtherStepsMove ==
    ASSUME IInv, [Next]_vars, ~SomeHello
    PROVE  /\ \A d \in Conns : conn[d].pc = "off" => conn'[d].pc = "off"
           /\ \A y \in Handles : bound[y] # None /\ bound'[y] # bound[y] =>
                 Idle(bound[y]) \/ bound[y] \in archived'
<1> DEFINE Opens == \E d \in Conns : conn[d].pc = "off" /\ conn'[d].pc # "off"
           Moved == \A y \in Handles : bound[y] # None /\ bound'[y] # bound[y] =>
                       Idle(bound[y]) \/ bound[y] \in archived'
<1>1. TypeOK
  BY DEF IInv
<1>2. ASSUME NEW gone \in SUBSET Actors, bound' = Unbound(gone), \A x \in gone : Idle(x) \/ x \in archived'
      PROVE  Moved
  <2>1. \A y \in Handles : bound'[y] = IF bound[y] \in gone THEN None ELSE bound[y]
    BY <1>1, <1>2, DroppingFacts
  <2> QED  BY <1>2, <2>1
<1>3. ASSUME NEW c \in Conns, Handler(c) PROVE ~Opens /\ Moved
  <2>1. CASE \/ Fence(c) \/ Greet(c) \/ GreetFails(c) \/ HangUp(c)
             \/ \E op \in Requests : Request(c, op)
             \/ FinalizeFails(c) \/ CallFails(c)
    <3>1. HandlersGoOn /\ UNCHANGED <<tables, lives>>
      BY <2>1, HandlerSteps
    <3> QED  BY <3>1 DEF HandlersGoOn, GoesOn, tables
  <2>2. CASE FinalizeActorAllocation(c)
    <3>1. conn[c].pc # "off" /\ (\A d \in Conns \ {c} : conn'[d] = conn[d]) /\ UNCHANGED bound
      BY <1>1, <2>2 DEF FinalizeActorAllocation, TypeOK
    <3> QED  BY <3>1
  <2>3. CASE RegisterSession(c) \/ HeartbeatRegistrations(c) \/ ExpireRegistration(c) \/ Send(c)
    <3>1. conn[c].pc # "off" /\ Returned(c) /\ UNCHANGED bound
      BY <2>3 DEF RegisterSession, HeartbeatRegistrations, ExpireRegistration, Send, tables
    <3>2. HandlersGoOn
      BY <3>1, ReturnedGoesOn
    <3> QED  BY <3>1, <3>2 DEF HandlersGoOn, GoesOn
  <2>4. CASE ReleaseProvisionalActor(c)
    <3> DEFINE gone == {a \in {conn[c].actor} : conn[c].provisional /\ Idle(a)}
    <3>1. conn[c].pc # "off" /\ (\A d \in Conns \ {c} : conn'[d] = conn[d]) /\ bound' = Unbound(gone)
      BY <1>1, <2>4 DEF ReleaseProvisionalActor, TypeOK
    <3>2. gone \in SUBSET Actors /\ \A x \in gone : Idle(x)
      BY <3>1, HandlerFacts
    <3> HIDE DEF gone
    <3>3. Moved
      BY <1>2, <3>1, <3>2
    <3> QED  BY <3>1, <3>3
  <2>5. ~\E h \in Hellos : BindActor(c, h)
    BY DEF SomeHello
  <2> QED  BY <1>3, <2>1, <2>2, <2>3, <2>4, <2>5 DEF Handler
<1>4. ASSUME NEW a \in Actors, NEW r \in Runs, PresenceLapses(a, r) PROVE ~Opens /\ Moved
  BY <1>4 DEF PresenceLapses, tables
<1>5. ASSUME NEW a \in Actors, NEW b \in Actors, AdoptActor(a, b) PROVE ~Opens /\ Moved
  BY <1>5 DEF AdoptActor, tables
<1>6. ASSUME NEW a \in Retirable, ArchiveActor(a) \/ RestoreActor(a) PROVE ~Opens /\ Moved
  <2>1. CASE ArchiveActor(a)
    <3>1. PICK gone \in SUBSET Actors : gone = {a}
      BY ActorsAreActors
    <3>2. bound' = Unbound(gone) /\ a \in archived' /\ UNCHANGED conn
      BY <2>1, <3>1 DEF ArchiveActor
    <3>3. Moved
      BY <1>2, <3>1, <3>2
    <3> QED  BY <3>2, <3>3
  <2>2. CASE RestoreActor(a)
    BY <2>2 DEF RestoreActor, tables
  <2> QED  BY <1>6, <2>1, <2>2
<1>7. CASE Restart
  <2> DEFINE gone == {a \in Actors : Idle(a)}
  <2>1. bound' = Unbound(gone) /\ \A d \in Conns : conn'[d].pc = "off"
    BY <1>7 DEF Restart, Off
  <2>2. gone \in SUBSET Actors /\ \A x \in gone : Idle(x)
    OBVIOUS
  <2> HIDE DEF gone
  <2>3. Moved
    BY <1>2, <2>1, <2>2
  <2> QED  BY <2>1, <2>3
<1>8. CASE UNCHANGED vars
  BY <1>8 DEF vars
<1>9. ~Opens /\ Moved
  BY <1>3, <1>4, <1>5, <1>6, <1>7, <1>8 DEF Next
<1> QED  BY <1>9

\* A handle leaves an actor only when it was adopted, is archived or was a
\* reservation nobody used, whatever kind of hello takes it.
THEOREM HandlesMoveFromRetired == Spec => HandleMovesOnlyFromRetired
<1>1. IInv /\ [Next]_vars =>
        \A h \in Handles : bound[h] # None /\ bound'[h] # bound[h] =>
           \/ Adopted(bound[h])
           \/ Idle(bound[h])
           \/ bound[h] \in archived'
  <2> SUFFICES ASSUME IInv, [Next]_vars, NEW h \in Handles, bound[h] # None, bound'[h] # bound[h]
               PROVE  Adopted(bound[h]) \/ Idle(bound[h]) \/ bound[h] \in archived'
    OBVIOUS
  <2>1. ASSUME NEW c \in Conns, NEW x \in Hellos, BindActor(c, x)
        PROVE  Adopted(bound[h]) \/ Idle(bound[h])
    BY <2>1, HelloSettles, HelloMoves
  <2>2. CASE ~SomeHello
    BY <2>2, OtherStepsMove
  <2> QED  BY <2>1, <2>2 DEF SomeHello
<1> QED  BY <1>1, SpecIInv, PTL DEF Spec, HandleMovesOnlyFromRetired

\* A proven harness process whose session leads to a live actor supersedes it
\* only with takeover, for any number of processes, sessions and hellos.
THEOREM InstancesNeverSteal == Spec => NewInstanceNeverSteals
<1>1. IInv /\ [Next]_vars =>
        \A c \in Conns, a \in Actors, r \in Runs : Supersedes(c, a, r) =>
           \/ conn'[c].takeover
           \/ conn'[c].instance = None
           \/ bound[conn'[c].instance] = a
           \/ Owners(conn'[c].handles \cap Sessions) = {}
  <2> SUFFICES ASSUME IInv, [Next]_vars, NEW c \in Conns, NEW a \in Actors, NEW r \in Runs, Supersedes(c, a, r)
               PROVE  \/ conn'[c].takeover
                      \/ conn'[c].instance = None
                      \/ bound[conn'[c].instance] = a
                      \/ Owners(conn'[c].handles \cap Sessions) = {}
    OBVIOUS
  <2>1. conn[c].pc = "off" /\ conn'[c].actor = a
    BY DEF Supersedes
  <2>2. conn[c].actor = None /\ None # a
    BY <2>1, ConnectionFields, NoneIsNobody DEF IInv, TypeOK
  <2>3. TypeOK'
    BY NextIInv DEF IInv
  <2>4. conn'[c].pc # "off"
    BY <2>1, <2>2, <2>3, ConnectionFields DEF TypeOK
  <2>5. PICK d \in Conns, h \in Hellos : BindActor(d, h)
    BY <2>1, <2>4, OtherStepsMove DEF SomeHello
  <2>6. Settled(d)
    BY <2>5, HelloSettles
  <2>7. d = c
    <3>1. \A e \in Conns \ {d} : conn'[e] = conn[e]
      BY <2>6, HelloMoves
    <3> QED  BY <2>1, <2>2, <3>1
  <2>8. Settled(c)
    BY <2>6, <2>7
  <2> QED  BY <2>8, HelloMoves
<1> QED  BY <1>1, SpecIInv, PTL DEF Spec, NewInstanceNeverSteals
=============================================================================
