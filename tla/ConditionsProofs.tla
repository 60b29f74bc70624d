--------------------------- MODULE ConditionsProofs ---------------------------
(* Nothing hides a condition from an operator who was not shown it.        *)
EXTENDS Conditions, TLAPS

\* An archival acknowledges a generation that it was given.
ArchivalKnows ==
    \A a \in Actors : archiving[a].at = "acknowledge" => <<a, archiving[a].generation>> \in seen

\* A snooze that is over is the snooze of a snoozed condition.
DueIsSnoozed == \A s \in Subjects : condition[s].due => condition[s].state = "snoozed"

\* A run keeps the right to tell the user only about a visible condition:
\* neither a snooze nor a recurrence leaves a claim that silences the next.
PresentedIsVisible == \A s \in Subjects : condition[s].owner # None => condition[s].state = "visible"

IInv == TypeOK /\ DueIsSnoozed /\ ArchivalKnows /\ HiddenWasShown /\ PresentedIsVisible

\* A row that may stand for subject s once the generations in shown were seen.
Proper(row, s, shown) ==
    /\ row \in Row
    /\ row.due => row.state = "snoozed"
    /\ Hidden(row) => <<s, row.generation>> \in shown
    /\ row.owner # None => row.state = "visible"

-----------------------------------------------------------------------------
\* No condition has been raised, and nothing runs.
LEMMA InitIInv == Init => IInv
<1> SUFFICES ASSUME Init PROVE IInv  OBVIOUS
<1>1. NoCondition \in Row
  BY DEF NoCondition, Row
<1>2. TypeOK
  BY <1>1, BoundsAreNat DEF Init, TypeOK, Idle, NotArchiving
<1>3. DueIsSnoozed /\ HiddenWasShown /\ PresentedIsVisible
  BY DEF Init, DueIsSnoozed, HiddenWasShown, PresentedIsVisible, NoCondition, Hidden
<1>4. ArchivalKnows
  BY DEF Init, ArchivalKnows, NotArchiving
<1> QED  BY <1>2, <1>3, <1>4 DEF IInv

\* The invariant says of every row that it is proper.
LEMMA RowsAreProper == IInv => \A s \in Subjects : Proper(condition[s], s, seen)
  BY DEF IInv, TypeOK, DueIsSnoozed, HiddenWasShown, PresentedIsVisible, Proper

\* A step after which every row is proper, and which leaves the rest of the
\* types and the archivals in order, keeps the invariant.
LEMMA ProperStep ==
    ASSUME condition' \in [Subjects -> Row], \A s \in Subjects : Proper(condition'[s], s, seen'),
           ArchivalKnows', mail' \in [Actors -> SUBSET Ages], archived' \subseteq Actors,
           archiving' \in [Actors -> [at : {"no", "observe", "acknowledge"}, generation : Nat]],
           pass' \in [at : {"idle", "observing", "resolving"}, stale : SUBSET Actors, todo : SUBSET Actors],
           seen' \subseteq Subjects \X Nat, faults' \in 0 .. MaxFaults
    PROVE  IInv'
  BY DEF IInv, TypeOK, DueIsSnoozed, HiddenWasShown, PresentedIsVisible, Proper

\* What was proper stays so when more is shown.
LEMMA ShownGrows ==
    ASSUME NEW row, NEW s, NEW shown, NEW more, Proper(row, s, shown), shown \subseteq more
    PROVE  Proper(row, s, more)
  BY DEF Proper

\* Raising and resolving a condition, and the end of a snooze, never hide it.
LEMMA StatementsAreProper ==
    ASSUME NEW row, NEW s, NEW shown, Proper(row, s, shown),
           NEW reason \in Reasons \cup {"threshold", "archived"}
    PROVE  /\ Proper(observed(row, reason), s, shown)
           /\ Proper(resolved(row), s, shown)
           /\ Proper(unsnoozed(row), s, shown)
<1> USE DEF Proper, Hidden, Active, Row
<1>1. Proper(observed(row, reason), s, shown)
  <2>1. CASE Active(row)
    <3>1. observed(row, reason) = [row EXCEPT !.state = IF row.due THEN "visible" ELSE @,
                                              !.reason = reason, !.due = FALSE, !.owner = None]
      BY <2>1 DEF observed
    <3> QED  BY <2>1, <3>1
  <2>2. CASE ~Active(row)
    <3>1. observed(row, reason) = [row EXCEPT !.generation = @ + 1, !.state = "visible",
                                              !.reason = reason, !.due = FALSE, !.owner = None]
      BY <2>2 DEF observed
    <3>2. observed(row, reason) \in Row
      <4>1. row \in Row /\ row.generation + 1 \in Nat
        OBVIOUS
      <4>2. \A n \in Nat : [row EXCEPT !.generation = n, !.state = "visible",
                                       !.reason = reason, !.due = FALSE, !.owner = None] \in Row
        BY <4>1
      <4> QED  BY <3>1, <4>1, <4>2
    <3>3. /\ observed(row, reason).state = "visible" /\ ~observed(row, reason).due
          /\ observed(row, reason).owner = None
      BY <3>1
    <3> QED  BY <3>2, <3>3
  <2> QED  BY <2>1, <2>2
<1>2. Proper(resolved(row), s, shown) /\ Proper(unsnoozed(row), s, shown)
  BY DEF resolved, unsnoozed
<1> QED  BY <1>1, <1>2

\* An acknowledgement or a snooze hides a generation that was shown.
LEMMA HidingIsProper ==
    ASSUME NEW row, NEW s, NEW shown, Proper(row, s, shown),
           NEW g, <<s, g>> \in shown, NEW state \in {"acknowledged", "snoozed"}
    PROVE  Proper(presented(row, g, state), s, shown)
  BY DEF Proper, Hidden, Active, Row, presented, Presentable

\* A statement on the row of one subject that keeps it proper, beside which
\* nothing but the pass and the faults moves.
LEMMA OneRow ==
    ASSUME IInv, NEW s \in Subjects, NEW row, Proper(row, s, seen),
           condition' = [condition EXCEPT ![s] = row],
           UNCHANGED <<mail, archived, archiving, seen>>,
           pass' \in [at : {"idle", "observing", "resolving"}, stale : SUBSET Actors, todo : SUBSET Actors],
           faults' \in 0 .. MaxFaults
    PROVE  IInv'
<1>1. condition' \in [Subjects -> Row]
  BY DEF IInv, TypeOK, Proper
<1>2. \A t \in Subjects : Proper(condition'[t], t, seen')
  BY RowsAreProper DEF IInv, TypeOK
<1>3. ArchivalKnows'
  BY DEF IInv, ArchivalKnows
<1> QED  BY <1>1, <1>2, <1>3, ProperStep DEF IInv, TypeOK

\* The expiry of snoozes, by whoever lists the conditions.
LEMMA Unsnoozing ==
    ASSUME IInv, condition' = [s \in Subjects |-> unsnoozed(condition[s])],
           seen \subseteq seen', seen' \subseteq Subjects \X Nat,
           UNCHANGED <<mail, archived, archiving>>,
           pass' \in [at : {"idle", "observing", "resolving"}, stale : SUBSET Actors, todo : SUBSET Actors],
           faults' \in 0 .. MaxFaults
    PROVE  IInv'
<1>1. \A s \in Subjects : Proper(condition'[s], s, seen')
  BY RowsAreProper, StatementsAreProper, ShownGrows
<1>2. condition' \in [Subjects -> Row]
  BY <1>1 DEF Proper
<1>3. ArchivalKnows'
  BY DEF IInv, ArchivalKnows
<1> QED  BY <1>1, <1>2, <1>3, ProperStep DEF IInv, TypeOK

-----------------------------------------------------------------------------
\* The operator and the presenters.
LEMMA OperatorStep == IInv /\ Operator => IInv'
<1> SUFFICES ASSUME IInv, Operator PROVE IInv'  OBVIOUS
<1>1. CASE ListConditions
  <2>1. seen' \subseteq Subjects \X Nat
    BY <1>1 DEF ListConditions, IInv, TypeOK, Row
  <2> QED  BY <1>1, <2>1, Unsnoozing DEF ListConditions, IInv, TypeOK
<1>2. ASSUME NEW s \in Subjects, NEW g, NEW state, Hide(s, g, state) PROVE IInv'
  <2>1. Proper(presented(condition[s], g, state), s, seen)
    BY <1>2, RowsAreProper, HidingIsProper DEF Hide
  <2> QED  BY <1>2, <2>1, OneRow DEF Hide, IInv, TypeOK
<1>3. ASSUME NEW s \in Subjects, NEW g, NEW p \in Presenters, ClaimPresentation(s, g, p) PROVE IInv'
  <2>1. Proper([condition[s] EXCEPT !.owner = p], s, seen)
    BY <1>3, RowsAreProper DEF ClaimPresentation, Proper, Row, Hidden
  <2> QED  BY <1>3, <2>1, OneRow DEF ClaimPresentation, IInv, TypeOK
<1> QED  BY <1>1, <1>2, <1>3 DEF Operator

\* The other handlers, and the clock.
LEMMA HandlerStep == IInv /\ (Handlers \/ Clock) => IInv'
<1> SUFFICES ASSUME IInv, Handlers \/ Clock PROVE IInv'  OBVIOUS
<1>1. ASSUME NEW s \in Others, NEW reason \in Reasons, Report(s, reason) PROVE IInv'
  <2>1. Proper(observed(condition[s], reason), s, seen)
    BY RowsAreProper, StatementsAreProper DEF Subjects
  <2> QED  BY <1>1, <2>1, OneRow DEF Report, Observe, Subjects, IInv, TypeOK
<1>2. ASSUME NEW s \in Others, Clear(s) \/ \E reason \in Reasons : ClearIfReason(s, reason) PROVE IInv'
  <2>1. Proper(resolved(condition[s]), s, seen)
    BY RowsAreProper, StatementsAreProper DEF Subjects
  <2> QED  BY <1>2, <2>1, OneRow DEF Clear, ClearIfReason, Subjects, IInv, TypeOK
<1>3. ASSUME NEW s \in Subjects, PresentationLapses(s) PROVE IInv'
  <2>1. Proper([condition[s] EXCEPT !.owner = None], s, seen)
    BY RowsAreProper DEF Proper, Row, Hidden
  <2> QED  BY <1>3, <2>1, OneRow DEF PresentationLapses, IInv, TypeOK
<1>4. ASSUME NEW s \in Subjects, SnoozeLapses(s) PROVE IInv'
  <2>1. Proper([condition[s] EXCEPT !.due = TRUE], s, seen)
    BY <1>4, RowsAreProper DEF SnoozeLapses, Proper, Row, Hidden
  <2> QED  BY <1>4, <2>1, OneRow DEF SnoozeLapses, IInv, TypeOK
<1>5. ASSUME NEW a \in Actors, MailAges(a) PROVE IInv'
  <2>1. mail' \in [Actors -> SUBSET Ages]
    BY <1>5 DEF MailAges, IInv, TypeOK, Ages
  <2> QED  BY <1>5, <2>1, ProperStep, RowsAreProper DEF MailAges, IInv, TypeOK, ArchivalKnows
<1> QED  BY <1>1, <1>2, <1>3, <1>4, <1>5 DEF Handlers, Clock

\* Mail comes and goes, actors are archived and restored.
LEMMA InboxStep ==
    IInv /\ (Mail \/ \E a \in Actors : ArchiveActor(a) \/ Archival(a) \/ RestoreActor(a)) => IInv'
<1> SUFFICES ASSUME IInv, Mail \/ \E a \in Actors : ArchiveActor(a) \/ Archival(a) \/ RestoreActor(a)
             PROVE  IInv'
  OBVIOUS
<1>1. CASE Mail
  <2>1. mail' \in [Actors -> SUBSET Ages]
    BY <1>1 DEF Mail, MailWaits, MailGoes, IInv, TypeOK
  <2> QED  BY <1>1, <2>1, ProperStep, RowsAreProper DEF Mail, MailWaits, MailGoes, IInv, TypeOK, ArchivalKnows
<1>2. ASSUME NEW a \in Actors, ArchiveActor(a) PROVE IInv'
  <2>1. /\ archiving' \in [Actors -> [at : {"no", "observe", "acknowledge"}, generation : Nat]]
        /\ ArchivalKnows' /\ archived' \subseteq Actors
    BY <1>2 DEF ArchiveActor, IInv, TypeOK, ArchivalKnows
  <2> QED  BY <1>2, <2>1, ProperStep, RowsAreProper DEF ArchiveActor, IInv, TypeOK
<1>3. ASSUME NEW a \in Actors, ArchiveObserves(a) PROVE IInv'
  <2>1. a \in Subjects /\ condition'[a] = observed(condition[a], "archived")
        /\ \A s \in Subjects \ {a} : condition'[s] = condition[s]
    BY <1>3 DEF ArchiveObserves, Observe, IInv, TypeOK, Subjects
  <2>2. Proper(condition'[a], a, seen)
    BY <2>1, RowsAreProper, StatementsAreProper
  <2>3. seen' = seen \cup {<<a, condition'[a].generation>>} /\ condition'[a].generation \in Nat
    BY <1>3, <2>2 DEF ArchiveObserves, Proper, Row
  <2>4. \A s \in Subjects : Proper(condition'[s], s, seen')
    BY <2>1, <2>2, <2>3, RowsAreProper, ShownGrows
  <2>5. condition' \in [Subjects -> Row]
    BY <1>3, <2>2 DEF ArchiveObserves, Observe, IInv, TypeOK, Proper
  <2>6. ArchivalKnows' /\ archiving' \in [Actors -> [at : {"no", "observe", "acknowledge"}, generation : Nat]]
    BY <1>3, <2>3 DEF ArchiveObserves, IInv, TypeOK, ArchivalKnows
  <2>7. seen' \subseteq Subjects \X Nat
    BY <2>1, <2>3 DEF IInv, TypeOK
  <2>8. UNCHANGED <<mail, archived, pass, faults>>
    BY <1>3 DEF ArchiveObserves
  <2> QED  BY <2>4, <2>5, <2>6, <2>7, <2>8, ProperStep DEF IInv, TypeOK
<1>4. ASSUME NEW a \in Actors, ArchiveAcknowledges(a) PROVE IInv'
  <2>1. a \in Subjects /\ Proper(presented(condition[a], archiving[a].generation, "acknowledged"), a, seen)
    BY <1>4, RowsAreProper, HidingIsProper DEF ArchiveAcknowledges, IInv, ArchivalKnows, Subjects
  <2>2. condition' \in [Subjects -> Row] /\ \A s \in Subjects : Proper(condition'[s], s, seen)
    BY <1>4, <2>1, RowsAreProper DEF ArchiveAcknowledges, IInv, TypeOK, Proper
  <2>3. ArchivalKnows' /\ archiving' \in [Actors -> [at : {"no", "observe", "acknowledge"}, generation : Nat]]
    BY <1>4 DEF ArchiveAcknowledges, IInv, TypeOK, ArchivalKnows, NotArchiving
  <2> QED  BY <1>4, <2>2, <2>3, ProperStep DEF ArchiveAcknowledges, IInv, TypeOK
<1>5. ASSUME NEW a \in Actors, RestoreActor(a) PROVE IInv'
  BY <1>5, ProperStep, RowsAreProper DEF RestoreActor, IInv, TypeOK, ArchivalKnows
<1> QED  BY <1>1, <1>2, <1>3, <1>4, <1>5 DEF Archival

\* The worker's pass, complete or cut short.
LEMMA PassStep == IInv /\ (Pass \/ PassFails \/ Crash) => IInv'
<1> SUFFICES ASSUME IInv, Pass \/ PassFails \/ Crash PROVE IInv'  OBVIOUS
<1> DEFINE Passes == [at : {"idle", "observing", "resolving"}, stale : SUBSET Actors, todo : SUBSET Actors]
<1>1. pass' \in Passes
  <2>1. CASE PassStarts
    BY <2>1 DEF PassStarts, StaleActors
  <2>2. CASE PassLists
    BY <2>2 DEF PassLists, Forgotten, IInv, TypeOK
  <2>3. CASE PassEnds \/ PassFails \/ Crash
    BY <2>3 DEF PassEnds, PassFails, Crash, Idle
  <2>4. ASSUME NEW a \in Actors, PassObserves(a) \/ PassResolves(a) PROVE pass' \in Passes
    BY <2>4 DEF PassObserves, PassResolves, IInv, TypeOK
  <2> QED  BY <2>1, <2>2, <2>3, <2>4 DEF Pass
<1>2. CASE PassStarts \/ PassEnds \/ PassFails
  BY <1>1, <1>2, ProperStep, RowsAreProper, BoundsAreNat
     DEF PassStarts, PassEnds, PassFails, IInv, TypeOK, ArchivalKnows
<1>3. CASE PassLists
  BY <1>1, <1>3, Unsnoozing DEF PassLists, IInv, TypeOK
<1>4. ASSUME NEW a \in Actors, PassObserves(a) PROVE IInv'
  <2>1. a \in Subjects /\ Proper(observed(condition[a], "threshold"), a, seen)
    BY RowsAreProper, StatementsAreProper DEF Subjects
  <2> QED  BY <1>1, <1>4, <2>1, OneRow DEF PassObserves, Observe, IInv, TypeOK
<1>5. ASSUME NEW a \in Actors, PassResolves(a) PROVE IInv'
  <2>1. a \in Subjects /\ Proper(resolved(condition[a]), a, seen)
    BY RowsAreProper, StatementsAreProper DEF Subjects
  <2> QED  BY <1>1, <1>5, <2>1, OneRow DEF PassResolves, IInv, TypeOK
<1>6. CASE Crash
  <2>1. ArchivalKnows' /\ archiving' \in [Actors -> [at : {"no", "observe", "acknowledge"}, generation : Nat]]
    BY <1>6 DEF Crash, ArchivalKnows, NotArchiving
  <2> QED  BY <1>1, <1>6, <2>1, ProperStep, RowsAreProper, BoundsAreNat DEF Crash, IInv, TypeOK
<1> QED  BY <1>2, <1>3, <1>4, <1>5, <1>6 DEF Pass

\* The invariant is inductive.
THEOREM Invariance == Spec => []IInv
<1>1. IInv /\ [Next]_vars => IInv'
  <2> SUFFICES ASSUME IInv, [Next]_vars PROVE IInv'  OBVIOUS
  <2>1. CASE UNCHANGED vars
    BY <2>1, ProperStep, RowsAreProper DEF vars, IInv, TypeOK, ArchivalKnows
  <2> QED  BY <2>1, OperatorStep, HandlerStep, InboxStep, PassStep DEF Next
<1> QED  BY InitIInv, <1>1, PTL DEF Spec

\* For any actors, handlers, presenters and faults, a hidden condition is one
\* whose present occurrence was shown.
THEOREM OnlyTheShownIsHidden == Spec => []HiddenWasShown
<1>1. IInv => HiddenWasShown
  BY DEF IInv
<1> QED  BY <1>1, Invariance, PTL
=============================================================================
