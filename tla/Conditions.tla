------------------------------ MODULE Conditions ------------------------------
(***************************************************************************)
(* Operator conditions: what the daemon tells the operator is wrong.  A    *)
(* condition is one row per kind and subject.  It is raised and resolved   *)
(* by code that looked at its predicate some time before; the operator     *)
(* acknowledges or snoozes the generation a list showed, and the hooks of  *)
(* starting sessions claim the right to tell the user about it.            *)
(*                                                                         *)
(* The stale_unread kind is followed to its predicate: mail that asks for  *)
(* attention and is unread for too long.  The worker's pass reads that     *)
(* mail, raises the conditions one by one, lists them and resolves the     *)
(* rest one by one, while mail comes and goes and actors are archived.     *)
(* The other kinds are raised and resolved by handlers whose predicates    *)
(* are in Identity, Attention and Routing; here they may do so any time.   *)
(* The list's limit of 500 rows is not reached.                            *)
(***************************************************************************)
EXTENDS Naturals

CONSTANTS
    Actors,
    Others,           \* subjects of the conditions that other handlers raise
    Reasons,          \* the reasons they give
    Presenters,       \* runs whose hook tells the user about conditions
    None,
    MaxGeneration,    \* bound: recurrences the surroundings may cause
    MaxFaults         \* bound: crashes and failed passes

ASSUME DisjointSubjects == Actors \cap Others = {}
ASSUME NoneIsNoSubject  == None \notin Actors \cup Presenters \cup Reasons
ASSUME BoundsAreNat     == MaxGeneration \in Nat /\ MaxFaults \in Nat

VARIABLES
    condition,   \* operator_conditions table
    mail,        \* per actor, the ages of the mail it could claim
    archived,    \* actors archived in actor_lifecycle
    archiving,   \* per actor, where ArchiveActor is after its commit
    pass,        \* ReconcileStaleUnreadConditions of the worker
    seen,        \* history: generations that a list has shown
    faults

vars == <<condition, mail, archived, archiving, pass, seen, faults>>

Subjects == Actors \cup Others

-----------------------------------------------------------------------------
NoCondition == [state |-> "none", generation |-> 0, reason |-> None,
                due |-> FALSE, owner |-> None]

Active(row) == row.state \in {"visible", "snoozed", "acknowledged"}
Hidden(row) == row.state \in {"snoozed", "acknowledged"}

\* Mail is quiet if it asks for no attention, else fresh or, after
\* staleAfter, stale.  Unclaimed mail and lapsed claims both count.
Ages == {"quiet", "fresh", "stale"}
Stale(a) == "stale" \in mail[a]

Row == [state : {"none", "visible", "snoozed", "acknowledged", "resolved"},
        generation : Nat, reason : Reasons \cup {"threshold", "archived", None},
        due : BOOLEAN, owner : Presenters \cup {None}]

TypeOK ==
    /\ condition \in [Subjects -> Row]
    /\ mail      \in [Actors -> SUBSET Ages]
    /\ archived  \subseteq Actors
    /\ archiving \in [Actors -> [at : {"no", "observe", "acknowledge"}, generation : Nat]]
    /\ pass      \in [at : {"idle", "observing", "resolving"}, stale : SUBSET Actors, todo : SUBSET Actors]
    /\ seen      \subseteq Subjects \X Nat
    /\ faults    \in 0 .. MaxFaults

Idle         == [at |-> "idle", stale |-> {}, todo |-> {}]
NotArchiving == [at |-> "no", generation |-> 0]

Init ==
    /\ condition = [s \in Subjects |-> NoCondition]
    /\ mail      = [a \in Actors |-> {}]
    /\ archived  = {}
    /\ archiving = [a \in Actors |-> NotArchiving]
    /\ pass      = Idle
    /\ seen      = {}
    /\ faults    = 0

-----------------------------------------------------------------------------
(* What the statements of the store do to a row. *)

\* Variant of observed: a condition is raised once and for all.
observed_once(row, reason) ==
    [row EXCEPT !.generation = IF @ = 0 THEN 1 ELSE @,
                !.state      = IF row.state = "none" \/ row.due THEN "visible" ELSE @,
                !.reason     = reason, !.due = FALSE, !.owner = None]

\* ObserveCondition: a recurrence is a new, visible generation; while active
\* the condition stays hidden, unless its snooze is over.
observed(row, reason) ==
    [row EXCEPT !.generation = IF Active(row) THEN @ ELSE @ + 1,
                !.state      = IF Active(row) /\ ~row.due THEN @ ELSE "visible",
                !.reason     = reason, !.due = FALSE, !.owner = None]

\* ResolveCondition
resolved(row) ==
    IF Active(row) THEN [row EXCEPT !.state = "resolved", !.due = FALSE, !.owner = None] ELSE row

\* ListConditions ends the snoozes that are over.
unsnoozed(row) == IF row.due THEN [row EXCEPT !.state = "visible", !.due = FALSE] ELSE row

\* Variant of Presentable: the update does not name the generation.
Presentable_anyGeneration(row, g) == Active(row)

\* The row an operator's or a presenter's update finds.
Presentable(row, g) == Active(row) /\ row.generation = g

\* changeConditionPresentation
presented(row, g, state) ==
    IF Presentable(row, g) THEN [row EXCEPT !.state = state, !.due = FALSE, !.owner = None] ELSE row

Observe(s, reason) == condition' = [condition EXCEPT ![s] = observed(@, reason)]

-----------------------------------------------------------------------------
(* The operator and the hooks of starting sessions. *)

ListConditions ==
    /\ condition' = [s \in Subjects |-> unsnoozed(condition[s])]
    /\ seen' = seen \cup {<<s, condition[s].generation>> : s \in {t \in Subjects : condition[t] # NoCondition}}
    /\ UNCHANGED <<mail, archived, archiving, pass, faults>>

\* AcknowledgeCondition and SnoozeCondition, of a generation the caller saw.
Hide(s, g, state) ==
    /\ <<s, g>> \in seen
    /\ state \in {"acknowledged", "snoozed"}
    /\ condition' = [condition EXCEPT ![s] = presented(@, g, state)]
    /\ UNCHANGED <<mail, archived, archiving, pass, seen, faults>>

\* ClaimConditionPresentation by the SessionStart hook.
ClaimPresentation(s, g, p) ==
    /\ <<s, g>> \in seen
    /\ Presentable(condition[s], g) /\ condition[s].state = "visible"
    /\ condition[s].owner \in {None, p}
    /\ condition' = [condition EXCEPT ![s].owner = p]
    /\ UNCHANGED <<mail, archived, archiving, pass, seen, faults>>

PresentationLapses(s) ==
    /\ condition[s].owner # None
    /\ condition' = [condition EXCEPT ![s].owner = None]
    /\ UNCHANGED <<mail, archived, archiving, pass, seen, faults>>

SnoozeLapses(s) ==
    /\ condition[s].state = "snoozed" /\ ~condition[s].due
    /\ condition' = [condition EXCEPT ![s].due = TRUE]
    /\ UNCHANGED <<mail, archived, archiving, pass, seen, faults>>

-----------------------------------------------------------------------------
(* Handlers that raise and resolve the other kinds.  Each does so after    *)
(* the transaction it reports on, in a transaction of its own.             *)

Report(s, reason) ==
    /\ s \in Others /\ condition[s].generation < MaxGeneration
    /\ Observe(s, reason)
    /\ UNCHANGED <<mail, archived, archiving, pass, seen, faults>>

Clear(s) ==
    /\ s \in Others
    /\ condition' = [condition EXCEPT ![s] = resolved(@)]
    /\ UNCHANGED <<mail, archived, archiving, pass, seen, faults>>

\* ResolveConditionIfReason: the last reason given decides.
ClearIfReason(s, reason) ==
    /\ s \in Others /\ condition[s].reason = reason
    /\ condition' = [condition EXCEPT ![s] = resolved(@)]
    /\ UNCHANGED <<mail, archived, archiving, pass, seen, faults>>

-----------------------------------------------------------------------------
(* Mail, as the worker's query and the archival see it. *)

\* A message is sent, or its claim lapses.  Nobody sends to an archived
\* actor, and a running claim prevents the archival.
MailWaits(a, age) ==
    /\ a \notin archived /\ condition[a].generation < MaxGeneration
    /\ mail' = [mail EXCEPT ![a] = @ \cup {age}]
    /\ UNCHANGED <<condition, archived, archiving, pass, seen, faults>>

MailAges(a) ==
    /\ "fresh" \in mail[a]
    /\ mail' = [mail EXCEPT ![a] = (@ \ {"fresh"}) \cup {"stale"}]
    /\ UNCHANGED <<condition, archived, archiving, pass, seen, faults>>

\* The last message of an age is claimed, or expires.
MailGoes(a, age) ==
    /\ age \in mail[a]
    /\ mail' = [mail EXCEPT ![a] = @ \ {age}]
    /\ UNCHANGED <<condition, archived, archiving, pass, seen, faults>>

-----------------------------------------------------------------------------
(* ArchiveActor commits; if the actor has unread mail and the caller       *)
(* allowed that, it raises the condition and acknowledges what it raised,  *)
(* each in a transaction of its own.  The sweep of the worker passes by    *)
(* actors with unread mail.                                                *)

ArchiveActor(a) ==
    /\ archiving[a] = NotArchiving /\ condition[a].generation < MaxGeneration
    /\ archived'  = archived \cup {a}
    /\ archiving' = IF mail[a] = {} THEN archiving ELSE [archiving EXCEPT ![a].at = "observe"]
    /\ UNCHANGED <<condition, mail, pass, seen, faults>>

ArchiveObserves(a) ==
    /\ archiving[a].at = "observe"
    /\ Observe(a, "archived")
    /\ archiving' = [archiving EXCEPT ![a] = [at |-> "acknowledge", generation |-> condition'[a].generation]]
    /\ seen' = seen \cup {<<a, condition'[a].generation>>}
    /\ UNCHANGED <<mail, archived, pass, faults>>

ArchiveAcknowledges(a) ==
    /\ archiving[a].at = "acknowledge"
    /\ condition' = [condition EXCEPT ![a] = presented(@, archiving[a].generation, "acknowledged")]
    /\ archiving' = [archiving EXCEPT ![a] = NotArchiving]
    /\ UNCHANGED <<mail, archived, pass, seen, faults>>

RestoreActor(a) ==
    /\ a \in archived
    /\ archived' = archived \ {a}
    /\ UNCHANGED <<condition, mail, archiving, pass, seen, faults>>

-----------------------------------------------------------------------------
(* The worker's pass, at its start and every half minute. *)

StaleActors == {a \in Actors : Stale(a)}

PassStarts ==
    /\ pass = Idle
    /\ pass' = [at |-> "observing", stale |-> StaleActors, todo |-> StaleActors]
    /\ UNCHANGED <<condition, mail, archived, archiving, seen, faults>>

PassObserves(a) ==
    /\ pass.at = "observing" /\ a \in pass.todo
    /\ Observe(a, "threshold")
    /\ pass' = [pass EXCEPT !.todo = @ \ {a}]
    /\ UNCHANGED <<mail, archived, archiving, seen, faults>>

\* Variant of Forgotten: conditions that are hidden are left alone.
Forgotten_visible(stale) == {a \in Actors \ stale : condition[a].state = "visible"}

\* The active conditions that the query did not give.
Forgotten(stale) == {a \in Actors \ stale : Active(condition[a])}

PassLists ==
    /\ pass.at = "observing" /\ pass.todo = {}
    /\ condition' = [s \in Subjects |-> unsnoozed(condition[s])]
    /\ pass' = [pass EXCEPT !.at = "resolving", !.todo = Forgotten(pass.stale)]
    /\ UNCHANGED <<mail, archived, archiving, seen, faults>>

PassResolves(a) ==
    /\ pass.at = "resolving" /\ a \in pass.todo
    /\ condition' = [condition EXCEPT ![a] = resolved(@)]
    /\ pass' = [pass EXCEPT !.todo = @ \ {a}]
    /\ UNCHANGED <<mail, archived, archiving, seen, faults>>

PassEnds ==
    /\ pass.at = "resolving" /\ pass.todo = {}
    /\ pass' = Idle
    /\ UNCHANGED <<condition, mail, archived, archiving, seen, faults>>

\* A statement of the pass fails and the rest of the pass is left out.
PassFails ==
    /\ pass # Idle /\ faults < MaxFaults
    /\ faults' = faults + 1
    /\ pass' = Idle
    /\ UNCHANGED <<condition, mail, archived, archiving, seen>>

\* The daemon restarts; what a call had still to do is not done.
Crash ==
    /\ faults < MaxFaults
    /\ faults' = faults + 1
    /\ pass' = Idle
    /\ archiving' = [a \in Actors |-> NotArchiving]
    /\ UNCHANGED <<condition, mail, archived, seen>>

-----------------------------------------------------------------------------
Operator ==
    \/ ListConditions
    \/ \E s \in Subjects, g \in 1 .. MaxGeneration + 1 :
         \/ \E state \in {"acknowledged", "snoozed"} : Hide(s, g, state)
         \/ \E p \in Presenters : ClaimPresentation(s, g, p)

Handlers ==
    \E s \in Others :
        \/ Clear(s)
        \/ \E reason \in Reasons : Report(s, reason) \/ ClearIfReason(s, reason)

Clock ==
    \/ \E s \in Subjects : PresentationLapses(s) \/ SnoozeLapses(s)
    \/ \E a \in Actors : MailAges(a)

Mail == \E a \in Actors, age \in Ages : MailWaits(a, age) \/ MailGoes(a, age)

Archival(a) == ArchiveObserves(a) \/ ArchiveAcknowledges(a)

Pass ==
    \/ PassStarts \/ PassLists \/ PassEnds
    \/ \E a \in Actors : PassObserves(a) \/ PassResolves(a)

Next ==
    \/ Operator \/ Handlers \/ Clock \/ Mail \/ Pass \/ PassFails \/ Crash
    \/ \E a \in Actors : ArchiveActor(a) \/ Archival(a) \/ RestoreActor(a)

Spec == Init /\ [][Next]_vars

\* The worker turns to its pass whenever the notification outbox has nothing
\* due, and every job of that backs off or ends.
FairSpec == Spec /\ WF_vars(Pass)

-----------------------------------------------------------------------------
\* Only what was shown can be hidden: an acknowledgement or a snooze of an
\* earlier occurrence, however late, never hides the recurrence.
HiddenWasShown == \A s \in Subjects : Hidden(condition[s]) => <<s, condition[s].generation>> \in seen

\* An inbox whose mail stays stale has an active condition in the end,
\* whatever snapshot an earlier pass resolved it from.
StaleUnreadIsRaised == \A a \in Actors : <>[]Stale(a) => <>[]Active(condition[a])

\* Mail that was left unread in an archived inbox, by the operator's choice.
LeftUnread(a) == a \in archived /\ mail[a] # {}

\* An inbox whose stale mail is gone has no active condition in the end,
\* although a pass may still raise it from an old reading, an operator hid it,
\* or an archival acknowledged it in between.  An archived inbox with mail left
\* unread is not asked about: see the next property.
ReadInboxIsResolved ==
    \A a \in Actors : <>[](~Stale(a) /\ ~LeftUnread(a)) => <>[]~Active(condition[a])

\* "Preserving unread mail requires allow_unread; its stale-inbox condition stays
\* acknowledged but unresolved" (API.md): once the archival has acknowledged the
\* condition, nothing resolves it for as long as the mail is left unread.
LeftUnreadStaysRaised ==
    [][\A a \in Actors :
          LeftUnread(a) /\ LeftUnread(a)' /\ condition[a].state = "acknowledged" /\ archiving[a] = NotArchiving
              => Active(condition'[a])]_vars
=============================================================================
