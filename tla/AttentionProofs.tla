-------------------------- MODULE AttentionProofs --------------------------
(***************************************************************************)
(* Proofs about Attention, for any sessions, wait handlers and bounds.     *)
(*                                                                         *)
(* The critical sections of the broker are short, but what they leave to   *)
(* be done after the unlock is not: an outcome still to be sent, a call    *)
(* that left without its result, an entry that is no longer the caller's.  *)
(* WaiterIsParked is the fact that ties the broker's map to the handlers.  *)
(***************************************************************************)
EXTENDS Attention, TLAPS

Outcomes == {"superseded", "ended"}

\* The types the broker's invariants need.
BrokerTypes ==
    /\ current \in Sessions \cup {None}
    /\ waiter \in [Sessions -> Calls \cup {None}]
    /\ call \in [Calls -> Call]
    /\ monitor \in [Sessions -> Monitor]
    /\ faults \in Nat
    /\ worker \in [pc : {"idle", "lookup", "notify", "finish"}, target : Sessions \cup {None},
                   accepted : BOOLEAN]
    /\ worker.pc = "notify" => worker.target \in Sessions

\* A handler that does not exist has no session and nothing in its channel.
CallsAreWhole ==
    \A c \in Calls : IF call[c].pc = "free" THEN call[c] = FreeCall ELSE call[c].session \in Sessions

\* A waiter is a handler of that session which has not yet removed itself.
WaiterIsParked ==
    \A s \in Sessions : waiter[s] # None =>
        call[waiter[s]].session = s /\ call[waiter[s]].pc \in {"parked", "received", "leaving"}

\* Only the current presence has a waiter.
WaiterIsCurrent == \A s \in Sessions : waiter[s] # None => current = s

\* Whoever is parked is in the map, or has a result or one on its way.
ParkedIsKept ==
    \A c \in Calls : call[c].pc = "parked" =>
        \/ waiter[call[c].session] = c
        \/ call[c].box # "empty"
        \/ \E outcome \in {"superseded", "ended"} : <<c, outcome>> \in sends

IInv == BrokerTypes /\ CallsAreWhole /\ WaiterIsParked /\ WaiterIsCurrent /\ ParkedIsKept

-----------------------------------------------------------------------------
\* The fields of a call and of a monitor, and what updates make of them.
LEMMA CallFields ==
    ASSUME NEW x \in Call
    PROVE  /\ x.pc \in {"free", "parked", "received", "leaving", "left"} /\ x.session \in Sessions \cup {None}
           /\ x.client \in BOOLEAN /\ x.box \in {"empty", "notice", "superseded", "ended"}
           /\ \A p \in {"received", "leaving", "left"} :
                 /\ [x EXCEPT !.pc = p] \in Call /\ [x EXCEPT !.pc = p].pc = p
                 /\ [x EXCEPT !.pc = p].session = x.session /\ [x EXCEPT !.pc = p].box = x.box
                 /\ [x EXCEPT !.pc = p].client = x.client
           /\ \A b \in {"notice", "superseded", "ended"} :
                 /\ [x EXCEPT !.box = b] \in Call /\ [x EXCEPT !.box = b].pc = x.pc
                 /\ [x EXCEPT !.box = b].session = x.session /\ [x EXCEPT !.box = b].box = b
                 /\ [x EXCEPT !.box = b].client = x.client
           /\ [x EXCEPT !.client = FALSE] \in Call /\ [x EXCEPT !.client = FALSE].pc = x.pc
           /\ [x EXCEPT !.client = FALSE].session = x.session /\ [x EXCEPT !.client = FALSE].box = x.box
BY DEF Call

LEMMA MonitorFields ==
    ASSUME NEW x \in Monitor
    PROVE  /\ \A p \in Stopped \cup Running : [x EXCEPT !.pc = p] \in Monitor /\ [x EXCEPT !.pc = p].seen = x.seen
           /\ [x EXCEPT !.pc = "woke", !.seen = TRUE] \in Monitor
           /\ [x EXCEPT !.pc = "woke", !.seen = TRUE].seen = TRUE
           /\ reset(x) \in Monitor /\ reset(x).seen = x.seen
           /\ repeated(x) \in Monitor /\ repeated(x).seen = x.seen
           /\ x.seen \in BOOLEAN
BY DEF Monitor, reset, repeated, Stopped, Running

\* A monitor that hears a notice has seen the message.
LEMMA HeardFacts ==
    ASSUME NEW x \in Monitor, NEW result
    PROVE  Heard(x, result) \in Monitor /\ (result = "notice" => Heard(x, result).seen)
<1>1. CASE result = "notice" /\ ~x.seen
  BY <1>1, MonitorFields DEF Heard
<1>2. CASE result \in Outcomes
  BY <1>2, MonitorFields DEF Heard, Outcomes, Stopped
<1>3. CASE ~(result = "notice" /\ ~x.seen) /\ result \notin Outcomes
  <2>1. PICK p \in Stopped \cup Running : Heard(x, result) = [x EXCEPT !.pc = p]
    BY <1>3 DEF Heard, Outcomes, Running
  <2>2. Heard(x, result) \in Monitor /\ Heard(x, result).seen = x.seen
    BY <2>1 DEF Monitor
  <2>3. result = "notice" => x.seen
    BY <1>3
  <2> QED  BY <2>2, <2>3
<1> QED  BY <1>1, <1>2, <1>3 DEF Outcomes

\* The initial state.
LEMMA InitIInv == Init => IInv
<1> SUFFICES ASSUME Init PROVE IInv
  OBVIOUS
<1>1. BrokerTypes
  BY DEF Init, BrokerTypes, Call, FreeCall, Monitor, Stopped, Idle
<1>2. CallsAreWhole /\ WaiterIsParked /\ WaiterIsCurrent /\ ParkedIsKept
  BY DEF Init, CallsAreWhole, WaiterIsParked, WaiterIsCurrent, ParkedIsKept, FreeCall
<1> QED  BY <1>1, <1>2 DEF IInv

\* A step that leaves the broker and its calls alone keeps their invariants.
LEMMA ElsewhereKeeps ==
    ASSUME IInv, UNCHANGED <<current, waiter, call, sends>>, BrokerTypes' PROVE IInv'
BY DEF IInv, CallsAreWhole, WaiterIsParked, WaiterIsCurrent, ParkedIsKept

\* The registrations, the job and the monitors that talk to nobody.
LEMMA ElsewhereSteps ==
    ASSUME IInv,
           \/ \E s \in Sessions : \/ RegisterSession(s) \/ HeartbeatRegistrations(s) \/ RegistrationLapses(s)
                                  \/ AttachFails(s) \/ ExpireRegistration(s) \/ AttachMonitor(s) \/ ReconcileInbox(s)
                                  \/ \E continuing \in BOOLEAN : MonitorStarts(s, continuing)
           \/ TakeJob \/ LiveRegistrations \/ FinishNotification \/ SendMessage \/ ClaimMessage
           \/ UNCHANGED vars
    PROVE  UNCHANGED <<current, waiter, call, sends, faults>> /\ BrokerTypes'
<1>1. BrokerTypes
  BY DEF IInv
<1>2. ASSUME UNCHANGED <<current, waiter, call, sends, faults>>, monitor' \in [Sessions -> Monitor],
             worker' \in [pc : {"idle", "lookup", "notify", "finish"}, target : Sessions \cup {None},
                         accepted : BOOLEAN],
             worker'.pc = "notify" => worker'.target \in Sessions
      PROVE  BrokerTypes'
  BY <1>1, <1>2 DEF BrokerTypes
<1>3. ASSUME NEW s \in Sessions, AttachMonitor(s)
      PROVE  UNCHANGED <<current, waiter, call, sends, faults>> /\ BrokerTypes'
  <2>1. monitor[s] \in Monitor
    BY <1>1 DEF BrokerTypes
  <2>2. PICK p \in Stopped \cup Running : monitor' = [monitor EXCEPT ![s] = [monitor[s] EXCEPT !.pc = p]]
    BY <1>3 DEF AttachMonitor, Stopped, Running
  <2>3. monitor' \in [Sessions -> Monitor]
    BY <1>1, <2>1, <2>2, MonitorFields DEF BrokerTypes
  <2>4. UNCHANGED <<current, waiter, call, sends, faults, worker>>
    BY <1>3 DEF AttachMonitor, broker, outbox
  <2> QED  BY <1>1, <1>2, <2>3, <2>4 DEF BrokerTypes
<1>4. ASSUME NEW s \in Sessions, ReconcileInbox(s)
      PROVE  UNCHANGED <<current, waiter, call, sends, faults>> /\ BrokerTypes'
  <2> DEFINE surface == unread /\ job.state # "none" /\ ~monitor[s].seen
             new == [pc |-> IF surface THEN "woke" ELSE "wait", reconciled |-> TRUE,
                     seen |-> surface \/ monitor[s].seen]
  <2>1. monitor[s].seen \in BOOLEAN
    BY <1>1, MonitorFields DEF BrokerTypes
  <2>2. new \in Monitor
    BY <2>1 DEF Monitor, Stopped, Running
  <2>3. monitor' = [monitor EXCEPT ![s] = new]
    BY <1>4 DEF ReconcileInbox
  <2> HIDE DEF new
  <2>4. monitor' \in [Sessions -> Monitor]
    BY <1>1, <2>2, <2>3 DEF BrokerTypes
  <2>5. UNCHANGED <<current, waiter, call, sends, faults, worker>>
    BY <1>4 DEF ReconcileInbox, broker, outbox
  <2> QED  BY <1>1, <1>2, <2>4, <2>5 DEF BrokerTypes
<1>5. ASSUME NEW s \in Sessions, NEW continuing \in BOOLEAN, MonitorStarts(s, continuing)
      PROVE  UNCHANGED <<current, waiter, call, sends, faults>> /\ BrokerTypes'
  <2>1. monitor[s].seen \in BOOLEAN
    BY <1>1, MonitorFields DEF BrokerTypes
  <2>2. [pc |-> "attach", reconciled |-> FALSE, seen |-> continuing /\ monitor[s].seen] \in Monitor
    BY <2>1 DEF Monitor, Stopped, Running
  <2>3. monitor' \in [Sessions -> Monitor]
    BY <1>1, <1>5, <2>2 DEF BrokerTypes, MonitorStarts
  <2>4. UNCHANGED <<current, waiter, call, sends, faults, worker>>
    BY <1>5 DEF MonitorStarts, broker, outbox
  <2> QED  BY <1>1, <1>2, <2>3, <2>4 DEF BrokerTypes
<1>6. CASE \E s \in Sessions : \/ RegisterSession(s) \/ HeartbeatRegistrations(s) \/ RegistrationLapses(s)
                               \/ AttachFails(s) \/ ExpireRegistration(s)
  <2>1. UNCHANGED <<current, waiter, call, sends, faults, worker, monitor>>
    BY <1>6 DEF RegisterSession, HeartbeatRegistrations, RegistrationLapses, AttachFails, ExpireRegistration,
                broker, outbox
  <2> QED  BY <1>1, <1>2, <2>1 DEF BrokerTypes
<1>7. CASE TakeJob \/ LiveRegistrations \/ FinishNotification \/ SendMessage \/ ClaimMessage
  <2>1. UNCHANGED <<current, waiter, call, sends, faults, monitor>>
    BY <1>7 DEF TakeJob, LiveRegistrations, FinishNotification, SendMessage, ClaimMessage, broker
  <2> DEFINE Typed == /\ worker' \in [pc : {"idle", "lookup", "notify", "finish"},
                                   target : Sessions \cup {None}, accepted : BOOLEAN]
                      /\ worker'.pc = "notify" => worker'.target \in Sessions
  <2>2. Typed
    <3>1. CASE TakeJob
      BY <3>1 DEF TakeJob, Idle
    <3>2. CASE LiveRegistrations
      <4>1. worker.pc = "lookup"
        BY <3>2 DEF LiveRegistrations
      <4>2. CASE \E s \in Sessions : worker' = [worker EXCEPT !.pc = "notify", !.target = s]
        BY <4>2, <1>1 DEF BrokerTypes
      <4>3. CASE worker' = [worker EXCEPT !.pc = "finish"]
        BY <4>1, <4>3, <1>1 DEF BrokerTypes
      <4> QED  BY <3>2, <4>2, <4>3 DEF LiveRegistrations
    <3>3. CASE FinishNotification
      BY <3>3 DEF FinishNotification, Idle
    <3>4. CASE SendMessage \/ ClaimMessage
      BY <1>1, <3>4 DEF SendMessage, ClaimMessage, BrokerTypes
    <3> QED  BY <1>7, <3>1, <3>2, <3>3, <3>4
  <2> QED  BY <1>1, <1>2, <2>1, <2>2 DEF BrokerTypes
<1>8. CASE UNCHANGED vars
  BY <1>1, <1>8 DEF vars, BrokerTypes
<1> QED  BY <1>3, <1>4, <1>5, <1>6, <1>7, <1>8

-----------------------------------------------------------------------------
(* The broker's critical sections. *)

\* Attach: the waiter that is released has its outcome on the way, and it was
\* the only one.
LEMMA AttachKeeps ==
    ASSUME IInv, NEW s \in Sessions, NEW heard \in BOOLEAN, Attach(s, heard) PROVE IInv'
<1>1. /\ BrokerTypes /\ CallsAreWhole /\ WaiterIsParked /\ WaiterIsCurrent /\ ParkedIsKept
  BY DEF IInv
<1>2. /\ current' = s /\ UNCHANGED <<call, worker, faults>>
      /\ monitor' = AttachReplied(s, heard)
  BY DEF Attach
<1>3. \/ current = s /\ UNCHANGED <<waiter, sends>>
      \/ /\ current # s /\ current \in Sessions /\ waiter[current] # None
         /\ waiter' = [waiter EXCEPT ![current] = None]
         /\ sends' = sends \cup {<<waiter[current], "superseded">>}
      \/ /\ current # s /\ (current = None \/ waiter[current] = None)
         /\ UNCHANGED <<waiter, sends>>
  BY <1>1 DEF Attach, BrokerTypes
<1>4. monitor' \in [Sessions -> Monitor]
  <2>1. monitor[s] \in Monitor
    BY <1>1 DEF BrokerTypes
  <2>2. CASE ~heard
    BY <1>1, <1>2, <2>2 DEF AttachReplied, BrokerTypes
  <2>3. CASE heard
    <3>1. PICK p \in Stopped \cup Running : monitor' = [monitor EXCEPT ![s] = [monitor[s] EXCEPT !.pc = p]]
      BY <1>2, <2>3 DEF AttachReplied, Running
    <3> QED  BY <1>1, <2>1, <3>1, MonitorFields DEF BrokerTypes
  <2> QED  BY <2>2, <2>3
<1>5. \A t \in Sessions : waiter'[t] = IF current # s /\ t = current THEN None ELSE waiter[t]
  BY <1>1, <1>3, NoneIsOutside DEF BrokerTypes
<1>6. BrokerTypes'
  BY <1>1, <1>2, <1>3, <1>4 DEF BrokerTypes
<1>7. CallsAreWhole' /\ WaiterIsParked'
  BY <1>1, <1>2, <1>5 DEF CallsAreWhole, WaiterIsParked
<1>8. WaiterIsCurrent'
  BY <1>1, <1>2, <1>5 DEF WaiterIsCurrent
<1>9. ParkedIsKept'
  <2> SUFFICES ASSUME NEW c \in Calls, call'[c].pc = "parked"
               PROVE  \/ waiter'[call'[c].session] = c
                      \/ call'[c].box # "empty"
                      \/ \E outcome \in {"superseded", "ended"} : <<c, outcome>> \in sends'
    BY DEF ParkedIsKept
  <2>1. call[c].pc = "parked" /\ call'[c] = call[c] /\ call[c].session \in Sessions
    BY <1>1, <1>2 DEF CallsAreWhole
  <2>2. sends \subseteq sends'
    BY <1>3
  <2>3. CASE waiter[call[c].session] = c
    <3>1. c # None
      BY NoneIsOutside
    <3>2. current = call[c].session
      BY <1>1, <2>1, <2>3, <3>1 DEF WaiterIsCurrent
    <3>3. current # s => <<c, "superseded">> \in sends'
      BY <1>3, <2>1, <2>3, <3>1, <3>2, NoneIsOutside
    <3> QED  BY <1>5, <2>1, <2>3, <3>3
  <2>4. CASE waiter[call[c].session] # c
    BY <1>1, <2>1, <2>2, <2>4 DEF ParkedIsKept
  <2> QED  BY <2>3, <2>4
<1> QED  BY <1>6, <1>7, <1>8, <1>9 DEF IInv

\* Cancel: the session's waiter has its outcome on the way.
LEMMA CancelKeeps ==
    ASSUME IInv, NEW s \in Sessions, Cancel(s) PROVE IInv'
<1>1. /\ BrokerTypes /\ CallsAreWhole /\ WaiterIsParked /\ WaiterIsCurrent /\ ParkedIsKept
  BY DEF IInv
<1>2. /\ current' = IF current = s THEN None ELSE current
      /\ waiter' = [waiter EXCEPT ![s] = None]
      /\ sends' = IF waiter[s] = None THEN sends ELSE sends \cup {<<waiter[s], "ended">>}
      /\ UNCHANGED <<call, monitor, worker, faults>>
  BY DEF Cancel, outbox
<1>3. \A t \in Sessions : waiter'[t] = IF t = s THEN None ELSE waiter[t]
  BY <1>1, <1>2 DEF BrokerTypes
<1>4. BrokerTypes'
  BY <1>1, <1>2 DEF BrokerTypes
<1>5. CallsAreWhole' /\ WaiterIsParked'
  BY <1>1, <1>2, <1>3 DEF CallsAreWhole, WaiterIsParked
<1>6. WaiterIsCurrent'
  BY <1>1, <1>2, <1>3 DEF WaiterIsCurrent
<1>7. ParkedIsKept'
  <2> SUFFICES ASSUME NEW c \in Calls, call'[c].pc = "parked"
               PROVE  \/ waiter'[call'[c].session] = c
                      \/ call'[c].box # "empty"
                      \/ \E outcome \in {"superseded", "ended"} : <<c, outcome>> \in sends'
    BY DEF ParkedIsKept
  <2>1. call[c].pc = "parked" /\ call'[c] = call[c] /\ call[c].session \in Sessions
    BY <1>1, <1>2 DEF CallsAreWhole
  <2>2. sends \subseteq sends'
    BY <1>2
  <2>3. CASE waiter[call[c].session] = c
    <3>1. c # None
      BY NoneIsOutside
    <3>2. call[c].session = s => <<c, "ended">> \in sends'
      BY <1>2, <2>3, <3>1
    <3> QED  BY <1>3, <2>1, <2>3, <3>2
  <2>4. CASE waiter[call[c].session] # c
    BY <1>1, <2>1, <2>2, <2>4 DEF ParkedIsKept
  <2> QED  BY <2>3, <2>4
<1> QED  BY <1>4, <1>5, <1>6, <1>7 DEF IInv

\* SendOutcome: what was on the way is in the channel, or something else is.
LEMMA SendOutcomeKeeps ==
    ASSUME IInv, NEW c \in Calls, NEW outcome \in Outcomes, SendOutcome(c, outcome) PROVE IInv'
<1>1. /\ BrokerTypes /\ CallsAreWhole /\ WaiterIsParked /\ WaiterIsCurrent /\ ParkedIsKept
  BY DEF IInv
<1> DEFINE sent == call[c].pc # "free" /\ call[c].box = "empty"
<1>2. /\ sends' = sends \ {<<c, outcome>>}
      /\ call' = [call EXCEPT ![c] = [call[c] EXCEPT !.box = IF sent THEN outcome ELSE call[c].box]]
      /\ UNCHANGED <<current, waiter, monitor, worker, faults>>
  BY DEF SendOutcome, outbox
<1>3. /\ call' \in [Calls -> Call]
      /\ \A d \in Calls : /\ call'[d].pc = call[d].pc /\ call'[d].session = call[d].session
                          /\ d # c => call'[d] = call[d]
      /\ call'[c].box = IF sent THEN outcome ELSE call[c].box
      /\ ~sent => call'[c] = call[c]
  <2>1. PICK x \in Call : x = call[c]
    BY <1>1 DEF BrokerTypes
  <2>2. CASE sent
    <3>1. /\ [x EXCEPT !.box = outcome] \in Call /\ [x EXCEPT !.box = outcome].pc = x.pc
          /\ [x EXCEPT !.box = outcome].session = x.session /\ [x EXCEPT !.box = outcome].box = outcome
      BY DEF Call, Outcomes
    <3>2. call' = [call EXCEPT ![c] = [x EXCEPT !.box = outcome]]
      BY <1>2, <2>1, <2>2
    <3> QED  BY <1>1, <2>1, <2>2, <3>1, <3>2 DEF BrokerTypes
  <2>3. CASE ~sent
    <3>1. [x EXCEPT !.box = x.box] = x
      BY DEF Call
    <3>2. call' = [call EXCEPT ![c] = x]
      BY <1>2, <2>1, <2>3, <3>1
    <3> QED  BY <1>1, <2>1, <2>3, <3>2 DEF BrokerTypes
  <2> QED  BY <2>2, <2>3
<1>4. BrokerTypes'
  BY <1>1, <1>2, <1>3 DEF BrokerTypes
<1>5. CallsAreWhole'
  BY <1>1, <1>3 DEF CallsAreWhole
<1>6. WaiterIsParked' /\ WaiterIsCurrent'
  BY <1>1, <1>2, <1>3 DEF WaiterIsParked, WaiterIsCurrent, BrokerTypes
<1>7. ParkedIsKept'
  <2> SUFFICES ASSUME NEW d \in Calls, call'[d].pc = "parked"
               PROVE  \/ waiter'[call'[d].session] = d
                      \/ call'[d].box # "empty"
                      \/ \E o \in {"superseded", "ended"} : <<d, o>> \in sends'
    BY DEF ParkedIsKept
  <2>1. call[d].pc = "parked" /\ call'[d].session = call[d].session
    BY <1>3
  <2>2. CASE d = c
    BY <1>3, <2>1, <2>2 DEF Outcomes
  <2>3. CASE d # c
    <3>1. \A o \in {"superseded", "ended"} : <<d, o>> \in sends => <<d, o>> \in sends'
      BY <1>2, <2>3
    <3> QED  BY <1>1, <1>2, <1>3, <2>1, <2>3, <3>1 DEF ParkedIsKept
  <2> QED  BY <2>2, <2>3
<1> QED  BY <1>4, <1>5, <1>6, <1>7 DEF IInv

-----------------------------------------------------------------------------
(* The handlers of wait_attention. *)

\* Wait: a call parks only under the current session, where nobody waits.
LEMMA WaitKeeps ==
    ASSUME IInv, NEW s \in Sessions, NEW c \in Calls, Wait(s, c) PROVE IInv'
<1>1. /\ BrokerTypes /\ CallsAreWhole /\ WaiterIsParked /\ WaiterIsCurrent /\ ParkedIsKept
  BY DEF IInv
<1>2. /\ call[c].pc = "free" /\ monitor[s] \in Monitor /\ UNCHANGED <<current, sends, worker, faults>>
  BY <1>1 DEF Wait, BrokerTypes, outbox
<1>3. CASE current = s /\ waiter[s] = None
  <2> DEFINE new == [pc |-> "parked", session |-> s, client |-> TRUE, box |-> "empty"]
  <2>1. /\ waiter' = [waiter EXCEPT ![s] = c] /\ call' = [call EXCEPT ![c] = new]
        /\ monitor' = [monitor EXCEPT ![s] = [monitor[s] EXCEPT !.pc = "parked"]]
    BY <1>3 DEF Wait
  <2>2. new \in Call /\ new.pc = "parked" /\ new.session = s
    BY DEF Call
  <2>3. [monitor[s] EXCEPT !.pc = "parked"] \in Monitor
    BY <1>2 DEF Monitor, Running
  <2> HIDE DEF new
  <2>4. /\ \A t \in Sessions : waiter'[t] = IF t = s THEN c ELSE waiter[t]
        /\ \A d \in Calls : call'[d] = IF d = c THEN new ELSE call[d]
    BY <1>1, <2>1 DEF BrokerTypes
  <2>5. BrokerTypes'
    BY <1>1, <1>2, <2>1, <2>2, <2>3 DEF BrokerTypes
  <2>6. CallsAreWhole'
    BY <1>1, <2>2, <2>4 DEF CallsAreWhole
  <2>7. WaiterIsParked'
    <3> SUFFICES ASSUME NEW t \in Sessions, waiter'[t] # None
                 PROVE  call'[waiter'[t]].session = t /\ call'[waiter'[t]].pc \in {"parked", "received", "leaving"}
      BY DEF WaiterIsParked
    <3>1. CASE t = s
      BY <2>2, <2>4, <3>1
    <3>2. CASE t # s
      <4>1. /\ waiter'[t] = waiter[t] /\ waiter[t] \in Calls /\ call[waiter[t]].session = t
            /\ call[waiter[t]].pc \in {"parked", "received", "leaving"}
        BY <1>1, <2>4, <3>2 DEF BrokerTypes, WaiterIsParked
      <4>2. waiter[t] # c
        BY <1>2, <4>1
      <4> QED  BY <2>4, <4>1, <4>2
    <3> QED  BY <3>1, <3>2
  <2>8. WaiterIsCurrent'
    BY <1>1, <1>2, <1>3, <2>4 DEF WaiterIsCurrent
  <2>9. ParkedIsKept'
    <3> SUFFICES ASSUME NEW d \in Calls, call'[d].pc = "parked"
                 PROVE  \/ waiter'[call'[d].session] = d
                        \/ call'[d].box # "empty"
                        \/ \E o \in {"superseded", "ended"} : <<d, o>> \in sends'
      BY DEF ParkedIsKept
    <3>1. CASE d = c
      BY <2>2, <2>4, <3>1
    <3>2. CASE d # c
      <4>1. call'[d] = call[d] /\ call[d].pc = "parked" /\ call[d].session \in Sessions
        BY <1>1, <2>4, <3>2 DEF CallsAreWhole
      <4>2. waiter[call[d].session] = d => waiter'[call[d].session] = d
        BY <1>3, <2>4, <4>1, NoneIsOutside
      <4> QED  BY <1>1, <1>2, <4>1, <4>2 DEF ParkedIsKept
    <3> QED  BY <3>1, <3>2
  <2> QED  BY <2>5, <2>6, <2>7, <2>8, <2>9 DEF IInv
<1>4. CASE ~(current = s /\ waiter[s] = None)
  <2>1. PICK result : monitor' = [monitor EXCEPT ![s] = Heard(monitor[s], result)]
    BY <1>4 DEF Wait
  <2>2. Heard(monitor[s], result) \in Monitor
    BY <1>2, HeardFacts
  <2>3. UNCHANGED <<waiter, call>> /\ monitor' \in [Sessions -> Monitor]
    BY <1>1, <1>4, <2>1, <2>2 DEF Wait, BrokerTypes
  <2>4. BrokerTypes'
    BY <1>1, <1>2, <2>3 DEF BrokerTypes
  <2> QED  BY <1>2, <2>3, <2>4, ElsewhereKeeps
<1> QED  BY <1>3, <1>4

\* Receive and ContextDone: a call that is chosen by select still holds its entry.
LEMMA SelectKeeps ==
    ASSUME IInv, NEW c \in Calls, Receive(c) \/ ContextDone(c) PROVE IInv'
<1>1. /\ BrokerTypes /\ CallsAreWhole /\ WaiterIsParked /\ WaiterIsCurrent /\ ParkedIsKept
  BY DEF IInv
<1>2. PICK p \in {"received", "leaving"} :
         call[c].pc = "parked" /\ call' = [call EXCEPT ![c] = [call[c] EXCEPT !.pc = p]]
  BY DEF Receive, ContextDone
<1>3. UNCHANGED <<current, waiter, sends, monitor, worker, faults>>
  BY DEF Receive, ContextDone, broker, outbox
<1>4. call[c] \in Call
  BY <1>1 DEF BrokerTypes
<1>5. /\ [call[c] EXCEPT !.pc = p] \in Call /\ [call[c] EXCEPT !.pc = p].pc = p
      /\ [call[c] EXCEPT !.pc = p].session = call[c].session
  BY <1>4 DEF Call
<1>6. /\ call' \in [Calls -> Call] /\ call'[c].pc = p /\ call'[c].session = call[c].session
      /\ \A d \in Calls \ {c} : call'[d] = call[d]
  BY <1>1, <1>2, <1>5 DEF BrokerTypes
<1>7. BrokerTypes'
  BY <1>1, <1>3, <1>6 DEF BrokerTypes
<1>8. CallsAreWhole'
  BY <1>1, <1>2, <1>6 DEF CallsAreWhole
<1>9. WaiterIsParked' /\ WaiterIsCurrent'
  BY <1>1, <1>2, <1>3, <1>6 DEF WaiterIsParked, WaiterIsCurrent, BrokerTypes
<1>10. ParkedIsKept'
  BY <1>1, <1>3, <1>6 DEF ParkedIsKept
<1> QED  BY <1>7, <1>8, <1>9, <1>10 DEF IInv

\* A call that goes removes only its own entry: the waiter of its session, if
\* any, is another call, which keeps its place.
LEMMA RemovedFacts ==
    ASSUME IInv, NEW c \in Calls, call[c].session \in Sessions, waiter' = removed(c)
    PROVE  /\ waiter' \in [Sessions -> Calls \cup {None}]
           /\ \A t \in Sessions : waiter'[t] = IF waiter[t] = c THEN None ELSE waiter[t]
<1>1. BrokerTypes /\ WaiterIsParked
  BY DEF IInv
<1>2. \A t \in Sessions : waiter[t] = c => t = call[c].session
  BY <1>1, NoneIsOutside DEF WaiterIsParked
<1>3. waiter' = [waiter EXCEPT ![call[c].session] =
                     IF waiter[call[c].session] = c THEN None ELSE waiter[call[c].session]]
  BY DEF removed
<1> QED  BY <1>1, <1>2, <1>3 DEF BrokerTypes

\* A call that goes away, with or without its entry, strands nobody.
LEMMA GoneKeeps ==
    ASSUME IInv, BrokerTypes', NEW c \in Calls, UNCHANGED <<current, sends>>,
           \A d \in Calls \ {c} : call'[d] = call[d],
           call'[c] = FreeCall \/ (call'[c].pc = "left" /\ call'[c].session \in Sessions),
           \A t \in Sessions : waiter'[t] = IF waiter[t] = c THEN None ELSE waiter[t]
    PROVE  IInv'
<1>1. /\ BrokerTypes /\ CallsAreWhole /\ WaiterIsParked /\ WaiterIsCurrent /\ ParkedIsKept
  BY DEF IInv
<1>2. FreeCall.pc = "free"
  BY DEF FreeCall
<1>3. CallsAreWhole'
  BY <1>1, <1>2 DEF CallsAreWhole
<1>4. WaiterIsParked' /\ WaiterIsCurrent'
  BY <1>1 DEF WaiterIsParked, WaiterIsCurrent, BrokerTypes
<1>5. ParkedIsKept'
  <2> SUFFICES ASSUME NEW d \in Calls, call'[d].pc = "parked"
               PROVE  \/ waiter'[call'[d].session] = d
                      \/ call'[d].box # "empty"
                      \/ \E o \in {"superseded", "ended"} : <<d, o>> \in sends'
    BY DEF ParkedIsKept
  <2>1. d # c
    BY <1>2
  <2>2. call'[d] = call[d] /\ call[d].session \in Sessions
    BY <1>1, <2>1 DEF CallsAreWhole
  <2>3. waiter[call[d].session] = d => waiter'[call[d].session] = d
    BY <2>1, <2>2
  <2> QED  BY <1>1, <2>2, <2>3 DEF ParkedIsKept
<1> QED  BY <1>3, <1>4, <1>5 DEF IInv

\* The monitor that hears a result stays a monitor.
LEMMA RepliedFacts ==
    ASSUME BrokerTypes, NEW c \in Calls, call[c].session \in Sessions, NEW result, Replied(c, result)
    PROVE  /\ monitor' \in [Sessions -> Monitor] /\ call' \in [Calls -> Call]
           /\ call'[c] = FreeCall /\ \A d \in Calls \ {c} : call'[d] = call[d]
           /\ call[c].client /\ result = "notice" => monitor'[call[c].session].seen
<1> DEFINE s == call[c].session
<1>1. monitor[s] \in Monitor
  BY DEF BrokerTypes
<1>2. Heard(monitor[s], result) \in Monitor /\ (result = "notice" => Heard(monitor[s], result).seen)
  BY <1>1, HeardFacts
<1>3. monitor' = IF call[c].client THEN [monitor EXCEPT ![s] = Heard(monitor[s], result)] ELSE monitor
  BY DEF Replied
<1>4. FreeCall \in Call
  BY DEF FreeCall, Call
<1>5. /\ call' \in [Calls -> Call] /\ call'[c] = FreeCall /\ \A d \in Calls \ {c} : call'[d] = call[d]
  BY <1>4 DEF Replied, BrokerTypes
<1> HIDE DEF s
<1>6. CASE call[c].client
  <2>1. /\ monitor' = [monitor EXCEPT ![s] = Heard(monitor[s], result)] /\ s \in Sessions
    BY <1>3, <1>6 DEF s
  <2>2. monitor' \in [Sessions -> Monitor] /\ monitor'[s] = Heard(monitor[s], result)
    BY <1>2, <2>1 DEF BrokerTypes
  <2> QED  BY <1>2, <1>5, <2>2 DEF s
<1>7. CASE ~call[c].client
  BY <1>3, <1>5, <1>7 DEF BrokerTypes
<1> QED  BY <1>6, <1>7

\* ReturnReceived, Leave and ReturnLeft.
LEMMA GoingKeeps ==
    ASSUME IInv, NEW c \in Calls, ReturnReceived(c) \/ Leave(c) \/ ReturnLeft(c) PROVE IInv'
<1>1. BrokerTypes /\ CallsAreWhole /\ WaiterIsParked
  BY DEF IInv
<1>2. call[c].pc # "free" /\ UNCHANGED <<current, sends, worker, faults>>
  BY DEF ReturnReceived, Leave, ReturnLeft, broker, outbox
<1>3. call[c].session \in Sessions
  BY <1>1, <1>2 DEF CallsAreWhole
<1>4. CASE ReturnReceived(c)
  <2>1. waiter' = removed(c) /\ Replied(c, call[c].box)
    BY <1>4 DEF ReturnReceived
  <2>2. /\ waiter' \in [Sessions -> Calls \cup {None}]
        /\ \A t \in Sessions : waiter'[t] = IF waiter[t] = c THEN None ELSE waiter[t]
    BY <1>3, <2>1, RemovedFacts
  <2>3. /\ monitor' \in [Sessions -> Monitor] /\ call' \in [Calls -> Call]
        /\ call'[c] = FreeCall /\ \A d \in Calls \ {c} : call'[d] = call[d]
    BY <1>1, <1>3, <2>1, RepliedFacts
  <2>4. BrokerTypes'
    BY <1>1, <1>2, <2>2, <2>3 DEF BrokerTypes
  <2> QED  BY <1>2, <2>2, <2>3, <2>4, GoneKeeps
<1>5. CASE Leave(c)
  <2>1. waiter' = removed(c) /\ call' = [call EXCEPT ![c] = [call[c] EXCEPT !.pc = "left"]] /\ UNCHANGED monitor
    BY <1>5 DEF Leave
  <2>2. /\ waiter' \in [Sessions -> Calls \cup {None}]
        /\ \A t \in Sessions : waiter'[t] = IF waiter[t] = c THEN None ELSE waiter[t]
    BY <1>3, <2>1, RemovedFacts
  <2>3. call[c] \in Call
    BY <1>1 DEF BrokerTypes
  <2>4. /\ [call[c] EXCEPT !.pc = "left"] \in Call /\ [call[c] EXCEPT !.pc = "left"].pc = "left"
        /\ [call[c] EXCEPT !.pc = "left"].session = call[c].session
    BY <2>3 DEF Call
  <2>5. /\ call' \in [Calls -> Call] /\ call'[c].pc = "left" /\ call'[c].session \in Sessions
        /\ \A d \in Calls \ {c} : call'[d] = call[d]
    BY <1>1, <1>3, <2>1, <2>4 DEF BrokerTypes
  <2>6. BrokerTypes'
    BY <1>1, <1>2, <2>1, <2>2, <2>5 DEF BrokerTypes
  <2> QED  BY <1>2, <2>2, <2>5, <2>6, GoneKeeps
<1>6. CASE ReturnLeft(c)
  <2>1. Replied(c, lastLook(call[c].box)) /\ UNCHANGED waiter /\ call[c].pc = "left"
    BY <1>6 DEF ReturnLeft, broker
  <2>2. \A t \in Sessions : waiter'[t] = IF waiter[t] = c THEN None ELSE waiter[t]
    BY <1>1, <2>1, NoneIsOutside DEF WaiterIsParked
  <2>3. /\ monitor' \in [Sessions -> Monitor] /\ call' \in [Calls -> Call]
        /\ call'[c] = FreeCall /\ \A d \in Calls \ {c} : call'[d] = call[d]
    BY <1>1, <1>3, <2>1, RepliedFacts
  <2>4. BrokerTypes'
    BY <1>1, <1>2, <2>1, <2>3 DEF BrokerTypes
  <2> QED  BY <1>2, <2>2, <2>3, <2>4, GoneKeeps
<1> QED  BY <1>4, <1>5, <1>6

-----------------------------------------------------------------------------
(* Lost connections, the worker and the crash. *)

\* What hungUp leaves of a call.
LEMMA HungUpFacts ==
    ASSUME call \in [Calls -> Call], NEW s \in Sessions, call' = hungUp(s)
    PROVE  /\ call' \in [Calls -> Call]
           /\ \A c \in Calls : call'[c].pc = call[c].pc
           /\ \A c \in Calls : call'[c].session = call[c].session
           /\ \A c \in Calls : call'[c].box = call[c].box
           /\ \A c \in Calls : call[c].session # s => call'[c] = call[c]
<1>1. \A c \in Calls : call'[c] = IF call[c].session = s THEN [call[c] EXCEPT !.client = FALSE] ELSE call[c]
  BY DEF hungUp
<1>2. \A x \in Call : /\ [x EXCEPT !.client = FALSE] \in Call /\ [x EXCEPT !.client = FALSE].pc = x.pc
                      /\ [x EXCEPT !.client = FALSE].session = x.session
                      /\ [x EXCEPT !.client = FALSE].box = x.box
  BY DEF Call
<1>3. call' = [c \in Calls |-> call'[c]]
  BY DEF hungUp
<1>4. \A c \in Calls : call[c] \in Call
  OBVIOUS
<1>5. \A c \in Calls : call'[c] \in Call
  BY <1>1, <1>2, <1>4
<1>6. \A c \in Calls : call'[c].pc = call[c].pc
  BY <1>1, <1>2, <1>4
<1>7. \A c \in Calls : call'[c].session = call[c].session
  BY <1>1, <1>2, <1>4
<1>8. \A c \in Calls : call'[c].box = call[c].box
  BY <1>1, <1>2, <1>4
<1>9. call' \in [Calls -> Call]
  BY <1>3, <1>5
<1> QED  BY <1>1, <1>6, <1>7, <1>8, <1>9

\* A connection that is lost leaves the calls where they are, unread.
LEMMA HangUpKeeps ==
    ASSUME IInv, NEW s \in Sessions, ConnectionBreaks(s) \/ MonitorDies(s) PROVE IInv'
<1>1. /\ BrokerTypes /\ CallsAreWhole /\ WaiterIsParked /\ WaiterIsCurrent /\ ParkedIsKept
  BY DEF IInv
<1>2. /\ UNCHANGED <<current, waiter, sends, worker>> /\ call' = hungUp(s) /\ faults' \in Nat
  BY <1>1 DEF ConnectionBreaks, MonitorDies, broker, outbox, BrokerTypes
<1>3. monitor' \in [Sessions -> Monitor]
  <2>1. monitor[s] \in Monitor
    BY <1>1 DEF BrokerTypes
  <2>2. /\ reset(monitor[s]) \in Monitor /\ repeated(monitor[s]) \in Monitor
        /\ [monitor[s] EXCEPT !.pc = "off"] \in Monitor
    BY <2>1, MonitorFields DEF Stopped
  <2>3. \E new \in Monitor : monitor' = [monitor EXCEPT ![s] = new]
    BY <2>2 DEF ConnectionBreaks, MonitorDies
  <2> QED  BY <1>1, <2>3 DEF BrokerTypes
<1>4. /\ call' \in [Calls -> Call]
      /\ \A c \in Calls : call'[c].pc = call[c].pc
      /\ \A c \in Calls : call'[c].session = call[c].session
      /\ \A c \in Calls : call'[c].box = call[c].box
      /\ \A c \in Calls : call[c].session # s => call'[c] = call[c]
  BY <1>1, <1>2, HungUpFacts DEF BrokerTypes
<1>5. BrokerTypes'
  BY <1>1, <1>2, <1>3, <1>4 DEF BrokerTypes
<1>6. CallsAreWhole'
  <2> SUFFICES ASSUME NEW c \in Calls
               PROVE  IF call'[c].pc = "free" THEN call'[c] = FreeCall ELSE call'[c].session \in Sessions
    BY DEF CallsAreWhole
  <2>1. CASE call[c].pc = "free"
    <3>1. call[c] = FreeCall
      BY <1>1, <2>1 DEF CallsAreWhole
    <3>2. call[c].session # s
      BY <3>1, NoneIsOutside DEF FreeCall
    <3> QED  BY <1>4, <2>1, <3>1, <3>2
  <2>2. CASE call[c].pc # "free"
    BY <1>1, <1>4, <2>2 DEF CallsAreWhole
  <2> QED  BY <2>1, <2>2
<1>7. WaiterIsCurrent'
  BY <1>1, <1>2 DEF WaiterIsCurrent
<1>8. WaiterIsParked'
  <2> SUFFICES ASSUME NEW t \in Sessions, waiter'[t] # None
               PROVE  /\ call'[waiter'[t]].session = t
                      /\ call'[waiter'[t]].pc \in {"parked", "received", "leaving"}
    BY DEF WaiterIsParked
  <2>1. waiter'[t] = waiter[t] /\ waiter[t] \in Calls
    BY <1>1, <1>2 DEF BrokerTypes
  <2>2. call[waiter[t]].session = t /\ call[waiter[t]].pc \in {"parked", "received", "leaving"}
    BY <1>1, <2>1 DEF WaiterIsParked
  <2> QED  BY <1>4, <2>1, <2>2
<1>9. ParkedIsKept'
  <2> SUFFICES ASSUME NEW c \in Calls, call'[c].pc = "parked"
               PROVE  \/ waiter'[call'[c].session] = c
                      \/ call'[c].box # "empty"
                      \/ \E o \in {"superseded", "ended"} : <<c, o>> \in sends'
    BY DEF ParkedIsKept
  <2>1. call[c].pc = "parked" /\ call'[c].session = call[c].session /\ call'[c].box = call[c].box
    BY <1>4
  <2> QED  BY <1>1, <1>2, <2>1 DEF ParkedIsKept
<1> QED  BY <1>5, <1>6, <1>7, <1>8, <1>9 DEF IInv

\* Notify: the wait it consumes has the notice in its channel.
LEMMA NotifyKeeps ==
    ASSUME IInv, Notify PROVE IInv'
<1> DEFINE s == worker.target
           c == waiter[s]
           ok == current = s /\ c # None /\ call[c].box = "empty"
<1>1. /\ BrokerTypes /\ CallsAreWhole /\ WaiterIsParked /\ WaiterIsCurrent /\ ParkedIsKept
  BY DEF IInv
<1>2. /\ call'   = IF ok THEN [call EXCEPT ![c] = [call[c] EXCEPT !.box = "notice"]] ELSE call
      /\ waiter' = IF ok THEN [waiter EXCEPT ![s] = None] ELSE waiter
      /\ worker' = [worker EXCEPT !.pc = "finish", !.accepted = ok]
      /\ UNCHANGED <<current, sends, monitor, faults>>
      /\ worker.pc = "notify"
  BY DEF Notify
<1>3. s \in Sessions
  BY <1>1, <1>2 DEF BrokerTypes
<1>4. /\ worker' \in [pc : {"idle", "lookup", "notify", "finish"}, target : Sessions \cup {None},
                      accepted : BOOLEAN]
      /\ worker'.pc # "notify"
  BY <1>1, <1>2 DEF BrokerTypes
<1> HIDE DEF s
<1>5. CASE ok
  <2>1. c \in Calls /\ call[c] \in Call /\ call[c].session = s /\ call[c].pc \in {"parked", "received", "leaving"}
    BY <1>1, <1>3, <1>5 DEF BrokerTypes, WaiterIsParked
  <2>2. /\ [call[c] EXCEPT !.box = "notice"] \in Call /\ [call[c] EXCEPT !.box = "notice"].pc = call[c].pc
        /\ [call[c] EXCEPT !.box = "notice"].session = s /\ [call[c] EXCEPT !.box = "notice"].box = "notice"
    BY <2>1 DEF Call
  <2>3. /\ call' \in [Calls -> Call] /\ call'[c].pc = call[c].pc /\ call'[c].session = s
        /\ call'[c].box = "notice" /\ \A d \in Calls \ {c} : call'[d] = call[d]
    BY <1>1, <1>2, <1>5, <2>1, <2>2 DEF BrokerTypes
  <2>4. /\ waiter' \in [Sessions -> Calls \cup {None}]
        /\ \A t \in Sessions : waiter'[t] = IF t = s THEN None ELSE waiter[t]
    BY <1>1, <1>2, <1>5 DEF BrokerTypes
  <2>5. \A t \in Sessions \ {s} : waiter[t] # c
    BY <1>1, <2>1, <1>5 DEF WaiterIsParked
  <2> HIDE DEF c
  <2>6. BrokerTypes'
    BY <1>1, <1>2, <1>4, <2>3, <2>4 DEF BrokerTypes
  <2>7. CallsAreWhole'
    BY <1>1, <1>3, <2>1, <2>3 DEF CallsAreWhole
  <2>8. WaiterIsParked' /\ WaiterIsCurrent'
    BY <1>1, <1>2, <2>3, <2>4, <2>5 DEF WaiterIsParked, WaiterIsCurrent, BrokerTypes
  <2>9. ParkedIsKept'
    <3> SUFFICES ASSUME NEW d \in Calls, call'[d].pc = "parked"
                 PROVE  \/ waiter'[call'[d].session] = d
                        \/ call'[d].box # "empty"
                        \/ \E o \in {"superseded", "ended"} : <<d, o>> \in sends'
      BY DEF ParkedIsKept
    <3>1. CASE d = c
      BY <2>3, <3>1
    <3>2. CASE d # c
      <4>1. call'[d] = call[d] /\ call[d].session \in Sessions
        BY <1>1, <2>3, <3>2 DEF CallsAreWhole
      <4>2. waiter[call[d].session] = d => waiter'[call[d].session] = d
        BY <2>4, <3>2, <4>1 DEF c
      <4> QED  BY <1>1, <1>2, <4>1, <4>2 DEF ParkedIsKept
    <3> QED  BY <3>1, <3>2
  <2> QED  BY <2>6, <2>7, <2>8, <2>9 DEF IInv
<1>6. CASE ~ok
  <2>1. UNCHANGED <<current, waiter, call, sends>>
    BY <1>2, <1>6
  <2>2. BrokerTypes'
    BY <1>1, <1>2, <1>4, <2>1 DEF BrokerTypes
  <2> QED  BY <2>1, <2>2, ElsewhereKeeps
<1> QED  BY <1>5, <1>6

\* Crash: nobody waits any more.
LEMMA CrashKeeps ==
    ASSUME IInv, Crash PROVE IInv'
<1>1. BrokerTypes
  BY DEF IInv
<1>2. /\ current' = None /\ waiter' = [s \in Sessions |-> None] /\ call' = [c \in Calls |-> FreeCall]
      /\ worker' = Idle /\ faults' = faults + 1
  BY DEF Crash
<1>3. monitor' \in [Sessions -> Monitor]
  <2>1. \A s \in Sessions : /\ monitor[s] \in Monitor
                            /\ reset(monitor[s]) \in Monitor /\ repeated(monitor[s]) \in Monitor
    BY <1>1, MonitorFields DEF BrokerTypes
  <2>2. PICK unaware \in SUBSET Sessions :
           monitor' = [s \in Sessions |-> IF s \in unaware THEN repeated(monitor[s])
                                          ELSE IF monitor[s].pc \in Running THEN reset(monitor[s])
                                          ELSE monitor[s]]
    BY DEF Crash
  <2> QED  BY <2>1, <2>2
<1>4. BrokerTypes'
  BY <1>1, <1>2, <1>3 DEF BrokerTypes, FreeCall, Call, Idle
<1>5. FreeCall.pc = "free"
  BY DEF FreeCall
<1>6. CallsAreWhole' /\ WaiterIsParked' /\ WaiterIsCurrent' /\ ParkedIsKept'
  BY <1>2, <1>5 DEF CallsAreWhole, WaiterIsParked, WaiterIsCurrent, ParkedIsKept
<1> QED  BY <1>4, <1>6 DEF IInv

-----------------------------------------------------------------------------
(* The invariant of the specification. *)

LEMMA NextIInv == IInv /\ [Next]_vars => IInv'
<1> SUFFICES ASSUME IInv, [Next]_vars PROVE IInv'
  OBVIOUS
<1>1. ASSUME \/ \E s \in Sessions : \/ RegisterSession(s) \/ HeartbeatRegistrations(s) \/ RegistrationLapses(s)
                                    \/ AttachFails(s) \/ ExpireRegistration(s) \/ AttachMonitor(s) \/ ReconcileInbox(s)
                                    \/ \E continuing \in BOOLEAN : MonitorStarts(s, continuing)
             \/ TakeJob \/ LiveRegistrations \/ FinishNotification \/ SendMessage \/ ClaimMessage
             \/ UNCHANGED vars
      PROVE  IInv'
  BY <1>1, ElsewhereSteps, ElsewhereKeeps
<1>2. ASSUME NEW s \in Sessions, AttachStep(s) PROVE IInv'
  BY <1>1, <1>2, AttachKeeps DEF AttachStep
<1>3. ASSUME NEW s \in Sessions, MonitorStep(s) PROVE IInv'
  BY <1>1, <1>3, WaitKeeps DEF MonitorStep
<1>4. ASSUME NEW c \in Calls, CallStep(c) \/ ContextDone(c) PROVE IInv'
  BY <1>4, SelectKeeps, GoingKeeps DEF CallStep
<1>5. ASSUME NEW c \in Calls, NEW outcome \in Outcomes, SendOutcome(c, outcome) PROVE IInv'
  BY <1>5, SendOutcomeKeeps
<1>6. ASSUME WorkerStep PROVE IInv'
  BY <1>1, <1>6, NotifyKeeps DEF WorkerStep
<1>7. ASSUME NEW s \in Sessions, Cancel(s) \/ ConnectionBreaks(s) \/ MonitorDies(s) PROVE IInv'
  BY <1>7, CancelKeeps, HangUpKeeps
<1>8. CASE Next
  BY <1>1, <1>2, <1>3, <1>4, <1>5, <1>6, <1>7, <1>8, CrashKeeps DEF Next, Outcomes
<1> QED  BY <1>1, <1>8

LEMMA SpecIInv == Spec => []IInv
BY InitIInv, NextIInv, PTL DEF Spec

\* Only the current presence of the broker has a parked waiter (Broker.Attach,
\* Cancel and Wait), for any number of sessions and handlers.
THEOREM WaitersAreCurrent == Spec => []WaiterIsCurrent
BY SpecIInv, PTL DEF IInv

\* No handler stays parked without being the current presence's waiter or having
\* a result in its channel or on its way there (Broker.Attach, Cancel, Notify and
\* the remove() of Wait), however their steps interleave.
THEOREM NoWaitIsStranded == Spec => []NoStrandedWait
<1>1. IInv => NoStrandedWait
  <2> SUFFICES ASSUME IInv, NEW c \in Calls, call[c].pc = "parked"
               PROVE  \/ waiter[call[c].session] = c /\ current = call[c].session
                      \/ call[c].box # "empty"
                      \/ \E o \in Outcomes : <<c, o>> \in sends
    BY DEF NoStrandedWait, Outcomes
  <2>1. call[c].session \in Sessions
    BY DEF IInv, CallsAreWhole
  <2>2. waiter[call[c].session] = c => current = call[c].session
    BY <2>1, NoneIsOutside DEF IInv, WaiterIsCurrent
  <2> QED  BY <2>2 DEF IInv, ParkedIsKept, Outcomes
<1> QED  BY <1>1, SpecIInv, PTL

-----------------------------------------------------------------------------
(* The types of everything else. *)

RestTypes ==
    /\ reg        \in [Sessions -> Registration]
    /\ sends      \subseteq Calls \X Outcomes
    /\ attaching  \subseteq Sessions \X BOOLEAN
    /\ cancelling \subseteq Sessions
    /\ job        \in [state   : {"none", "pending", "processing", "accepted", "done"},
                       attempt : 0 .. MaxAttempts]
    /\ unread     \in BOOLEAN
    /\ faults     \in 0 .. MaxFaults
    /\ spent      \in [registrations : 0 .. MaxRegistrations, starts : 0 .. MaxStarts]

\* The store's part: registrations.
LEMMA StoreTypes ==
    ASSUME RestTypes, NEW s \in Sessions,
           \/ RegisterSession(s) \/ HeartbeatRegistrations(s) \/ RegistrationLapses(s)
           \/ AttachMonitor(s) \/ ExpireRegistration(s)
    PROVE  RestTypes'
<1>1. reg \in [Sessions -> Registration]
  BY DEF RestTypes
<1>2. \A x \in Registration : /\ [x EXCEPT !.lapsed = FALSE] \in Registration
                              /\ [x EXCEPT !.lapsed = TRUE] \in Registration
                              /\ [x EXCEPT !.superseded = TRUE] \in Registration
                              /\ [x EXCEPT !.state = "ended", !.lapsed = TRUE] \in Registration
  BY DEF Registration
<1>3. CASE RegisterSession(s)
  <2>1. PICK at \in 1 .. MaxRegistrations :
           reg' = [reg EXCEPT ![s] = [state |-> "open", superseded |-> FALSE, lapsed |-> FALSE, at |-> at]]
    BY <1>3 DEF RegisterSession
  <2>2. reg' \in [Sessions -> Registration]
    <3>1. [state |-> "open", superseded |-> FALSE, lapsed |-> FALSE, at |-> at] \in Registration
      BY BoundsAreNat DEF Registration
    <3> QED  BY <1>1, <2>1, <3>1
  <2>3. spent' \in [registrations : 0 .. MaxRegistrations, starts : 0 .. MaxStarts]
    BY <1>3, BoundsAreNat DEF RegisterSession, RestTypes
  <2>4. UNCHANGED <<sends, attaching, cancelling, job, unread, faults>>
    BY <1>3 DEF RegisterSession, broker, outbox
  <2> QED  BY <2>2, <2>3, <2>4 DEF RestTypes
<1>4. CASE HeartbeatRegistrations(s) \/ RegistrationLapses(s)
  <2>1. PICK b \in BOOLEAN : reg' = [reg EXCEPT ![s] = [reg[s] EXCEPT !.lapsed = b]]
    BY <1>4 DEF HeartbeatRegistrations, RegistrationLapses
  <2>2. reg' \in [Sessions -> Registration]
    BY <1>1, <1>2, <2>1
  <2>3. UNCHANGED <<sends, attaching, cancelling, job, unread, faults, spent>>
    BY <1>4 DEF HeartbeatRegistrations, RegistrationLapses, broker, outbox
  <2> QED  BY <2>2, <2>3 DEF RestTypes
<1>5. CASE AttachMonitor(s)
  <2>1. reg' \in [Sessions -> Registration]
    <3>1. CASE UNCHANGED reg
      BY <1>1, <3>1
    <3>2. CASE reg' = [reg EXCEPT ![s] = [reg[s] EXCEPT !.superseded = TRUE]]
      BY <1>1, <1>2, <3>2
    <3>3. CASE reg' = [t \in Sessions |-> IF t = s THEN [reg[s] EXCEPT !.lapsed = FALSE]
                                          ELSE IF Standing(t) THEN [reg[t] EXCEPT !.superseded = TRUE]
                                          ELSE reg[t]]
      <4>1. \A t \in Sessions : reg'[t] \in Registration
        BY <1>1, <1>2, <3>3
      <4> QED  BY <3>3, <4>1
    <3> QED  BY <1>5, <3>1, <3>2, <3>3 DEF AttachMonitor
  <2>2. attaching' \subseteq Sessions \X BOOLEAN
    <3>1. attaching' = attaching \/ attaching' = attaching \cup {<<s, TRUE>>}
      BY <1>5 DEF AttachMonitor
    <3>2. attaching \subseteq Sessions \X BOOLEAN
      BY DEF RestTypes
    <3>3. <<s, TRUE>> \in Sessions \X BOOLEAN
      OBVIOUS
    <3> QED  BY <3>1, <3>2, <3>3
  <2>3. UNCHANGED <<sends, cancelling, job, unread, faults, spent>>
    BY <1>5 DEF AttachMonitor, broker, outbox
  <2> QED  BY <2>1, <2>2, <2>3 DEF RestTypes
<1>6. CASE ExpireRegistration(s)
  <2>1. reg' = [reg EXCEPT ![s] = [reg[s] EXCEPT !.state = "ended", !.lapsed = TRUE]]
    BY <1>1, <1>6 DEF ExpireRegistration
  <2>2. reg' \in [Sessions -> Registration]
    BY <1>1, <1>2, <2>1
  <2>3. cancelling' \subseteq Sessions
    BY <1>6 DEF ExpireRegistration, RestTypes
  <2>4. UNCHANGED <<sends, attaching, job, unread, faults, spent>>
    BY <1>6 DEF ExpireRegistration, broker, outbox
  <2> QED  BY <2>2, <2>3, <2>4 DEF RestTypes
<1> QED  BY <1>3, <1>4, <1>5, <1>6

\* The broker's part: only handlers it knows are sent an outcome.
LEMMA BrokerStepTypes ==
    ASSUME BrokerTypes, RestTypes, NEW s \in Sessions,
           AttachFails(s) \/ Cancel(s) \/ \E heard \in BOOLEAN : Attach(s, heard)
    PROVE  RestTypes'
<1>1. CASE AttachFails(s)
  <2>1. UNCHANGED <<reg, sends, cancelling, job, unread, faults, spent>>
    BY <1>1 DEF AttachFails, broker, outbox
  <2>2. attaching' \subseteq attaching
    BY <1>1 DEF AttachFails
  <2> QED  BY <2>1, <2>2 DEF RestTypes
<1>2. CASE Cancel(s)
  <2>1. UNCHANGED <<reg, attaching, job, unread, faults, spent>> /\ cancelling' \subseteq cancelling
    BY <1>2 DEF Cancel, outbox
  <2>2. sends' \subseteq Calls \X Outcomes
    BY <1>2 DEF Cancel, BrokerTypes, RestTypes, Outcomes
  <2> QED  BY <2>1, <2>2 DEF RestTypes
<1>3. ASSUME NEW heard \in BOOLEAN, Attach(s, heard) PROVE RestTypes'
  <2>1. UNCHANGED <<reg, cancelling, unread, faults, spent>> /\ attaching' \subseteq attaching
    BY <1>3 DEF Attach
  <2>2. sends' \subseteq Calls \X Outcomes
    <3>1. CASE UNCHANGED sends
      BY <3>1 DEF RestTypes
    <3>2. CASE current # None /\ waiter[current] # None /\ sends' = sends \cup {<<waiter[current], "superseded">>}
      <4>1. waiter[current] \in Calls
        BY <3>2 DEF BrokerTypes
      <4> QED  BY <3>2, <4>1 DEF RestTypes, Outcomes
    <3> QED  BY <1>3, <3>1, <3>2 DEF Attach
  <2>3. job' \in [state : {"none", "pending", "processing", "accepted", "done"}, attempt : 0 .. MaxAttempts]
    BY <1>3 DEF Attach, Rearmed, RestTypes
  <2> QED  BY <2>1, <2>2, <2>3 DEF RestTypes
<1> QED  BY <1>1, <1>2, <1>3

\* Monitors, handlers and lost connections.
LEMMA MonitorTypes ==
    ASSUME RestTypes, NEW s \in Sessions,
           \/ ReconcileInbox(s) \/ ConnectionBreaks(s) \/ MonitorDies(s)
           \/ \E continuing \in BOOLEAN : MonitorStarts(s, continuing)
           \/ \E c \in Calls : Wait(s, c)
    PROVE  RestTypes'
<1>1. CASE ReconcileInbox(s) \/ \E c \in Calls : Wait(s, c)
  <2>1. UNCHANGED <<reg, sends, attaching, cancelling, job, unread, faults, spent>>
    BY <1>1 DEF ReconcileInbox, Wait, broker, outbox
  <2> QED  BY <2>1 DEF RestTypes
<1>2. CASE ConnectionBreaks(s) \/ MonitorDies(s)
  <2>1. UNCHANGED <<reg, sends, cancelling, job, unread, spent>>
    BY <1>2 DEF ConnectionBreaks, MonitorDies, broker, outbox
  <2>2. attaching' = deserted(s)
    BY <1>2 DEF ConnectionBreaks, MonitorDies
  <2>3. attaching' \subseteq Sessions \X BOOLEAN
    <3>1. attaching' \subseteq attaching \cup {<<s, FALSE>>}
      BY <2>2 DEF deserted
    <3>2. attaching \subseteq Sessions \X BOOLEAN
      BY DEF RestTypes
    <3>3. <<s, FALSE>> \in Sessions \X BOOLEAN
      OBVIOUS
    <3> QED  BY <3>1, <3>2, <3>3
  <2>4. faults' \in 0 .. MaxFaults
    BY <1>2, BoundsAreNat DEF ConnectionBreaks, MonitorDies, RestTypes
  <2> QED  BY <2>1, <2>3, <2>4 DEF RestTypes
<1>3. CASE \E continuing \in BOOLEAN : MonitorStarts(s, continuing)
  <2>1. UNCHANGED <<reg, sends, attaching, cancelling, job, unread, faults>>
    BY <1>3 DEF MonitorStarts, broker, outbox
  <2>2. spent' \in [registrations : 0 .. MaxRegistrations, starts : 0 .. MaxStarts]
    BY <1>3, BoundsAreNat DEF MonitorStarts, RestTypes
  <2> QED  BY <2>1, <2>2 DEF RestTypes
<1> QED  BY <1>1, <1>2, <1>3

\* Handlers, the job and the worker, and the crash.
LEMMA OtherTypes ==
    ASSUME RestTypes,
           \/ \E c \in Calls : CallStep(c) \/ ContextDone(c)
           \/ \E c \in Calls, outcome \in Outcomes : SendOutcome(c, outcome)
           \/ WorkerStep \/ SendMessage \/ ClaimMessage \/ Crash \/ UNCHANGED vars
    PROVE  RestTypes'
<1> DEFINE Jobs == [state : {"none", "pending", "processing", "accepted", "done"}, attempt : 0 .. MaxAttempts]
<1>1. job \in Jobs
  BY DEF RestTypes
<1>2. CASE \/ \E c \in Calls : CallStep(c) \/ ContextDone(c)
           \/ LiveRegistrations \/ Notify \/ UNCHANGED vars
  <2>1. UNCHANGED <<reg, sends, attaching, cancelling, job, unread, faults, spent>>
    BY <1>2 DEF CallStep, ContextDone, Receive, ReturnReceived, Leave, ReturnLeft, LiveRegistrations, Notify,
                broker, outbox, vars
  <2> QED  BY <2>1 DEF RestTypes
<1>3. CASE \E c \in Calls, outcome \in Outcomes : SendOutcome(c, outcome)
  <2>1. UNCHANGED <<reg, attaching, cancelling, job, unread, faults, spent>> /\ sends' \subseteq sends
    BY <1>3 DEF SendOutcome, outbox
  <2> QED  BY <2>1 DEF RestTypes
<1>4. CASE TakeJob \/ FinishNotification \/ SendMessage
  <2>1. UNCHANGED <<reg, sends, attaching, cancelling, unread, faults, spent>>
    BY <1>4 DEF TakeJob, FinishNotification, SendMessage, broker
  <2>2. job' \in Jobs
    <3>1. CASE TakeJob
      BY <1>1, <3>1, AttemptsArePos DEF TakeJob
    <3>2. CASE FinishNotification
      BY <1>1, <3>2 DEF FinishNotification
    <3>3. CASE SendMessage
      BY <3>3, AttemptsArePos DEF SendMessage
    <3> QED  BY <1>4, <3>1, <3>2, <3>3
  <2> QED  BY <2>1, <2>2 DEF RestTypes
<1>5. CASE ClaimMessage
  <2>1. UNCHANGED <<reg, sends, attaching, cancelling, faults, spent>> /\ unread' = FALSE
    BY <1>5 DEF ClaimMessage, broker
  <2>2. job' \in Jobs
    BY <1>1, <1>5 DEF ClaimMessage
  <2> QED  BY <2>1, <2>2 DEF RestTypes
<1>6. CASE Crash
  <2>1. UNCHANGED <<reg, job, unread, spent>> /\ sends' = {} /\ attaching' = {} /\ cancelling' = {}
    BY <1>6 DEF Crash
  <2>2. faults' \in 0 .. MaxFaults
    BY <1>6, BoundsAreNat DEF Crash, RestTypes
  <2> QED  BY <2>1, <2>2 DEF RestTypes
<1> QED  BY <1>2, <1>3, <1>4, <1>5, <1>6 DEF WorkerStep

LEMMA RestStep ==
    ASSUME BrokerTypes, RestTypes, [Next]_vars PROVE RestTypes'
<1>1. CASE \E s \in Sessions :
              \/ RegisterSession(s) \/ HeartbeatRegistrations(s) \/ RegistrationLapses(s)
              \/ AttachStep(s) \/ ExpireRegistration(s) \/ Cancel(s)
              \/ MonitorStep(s) \/ ConnectionBreaks(s) \/ MonitorDies(s)
              \/ \E continuing \in BOOLEAN : MonitorStarts(s, continuing)
  BY <1>1, StoreTypes, BrokerStepTypes, MonitorTypes DEF AttachStep, MonitorStep
<1>2. CASE \/ \E c \in Calls : CallStep(c) \/ ContextDone(c)
           \/ \E c \in Calls, outcome \in Outcomes : SendOutcome(c, outcome)
           \/ WorkerStep \/ SendMessage \/ ClaimMessage \/ Crash \/ UNCHANGED vars
  BY <1>2, OtherTypes
<1> QED  BY <1>1, <1>2 DEF Next, Outcomes

\* Registrations, the broker's map, handlers, monitors, the job and the worker
\* keep their types: every handler in the map and every one that is to be sent
\* an outcome is one that wait_attention made.
THEOREM TypeCorrect == Spec => []TypeOK
<1>1. Init => RestTypes
  BY AttemptsArePos, BoundsAreNat DEF Init, RestTypes, Registration, Outcomes
<1>2. IInv /\ RestTypes /\ [Next]_vars => RestTypes'
  BY RestStep DEF IInv
<1>3. IInv /\ RestTypes => TypeOK
  BY DEF IInv, BrokerTypes, RestTypes, TypeOK, Outcomes
<1> QED  BY <1>1, <1>2, <1>3, SpecIInv, PTL DEF Spec

-----------------------------------------------------------------------------
(* What happens to an accepted notice. *)

\* A handler ends by returning a result it received or found at its last look,
\* or with the daemon.
LEMMA CallsEnd ==
    ASSUME IInv, [Next]_vars, NEW c \in Calls, call[c].pc # "free", call'[c].pc = "free"
    PROVE  ReturnReceived(c) \/ ReturnLeft(c) \/ Crash
<1>1. BrokerTypes
  BY DEF IInv
<1>2. ASSUME NEW d \in Calls, NEW x, call' = [call EXCEPT ![d] = x], d = c => x.pc # "free" PROVE FALSE
  BY <1>1, <1>2 DEF BrokerTypes
<1>3. ASSUME NEW d \in Calls, NEW b, call' = [call EXCEPT ![d] = [call[d] EXCEPT !.box = b]] PROVE FALSE
  <2>1. PICK x \in Call : x = call[d]
    BY <1>1 DEF BrokerTypes
  <2>2. [x EXCEPT !.box = b].pc = x.pc
    BY DEF Call
  <2> QED  BY <1>2, <1>3, <2>1, <2>2
<1>4. ASSUME NEW d \in Calls, NEW p \in {"received", "leaving", "left"},
             call' = [call EXCEPT ![d] = [call[d] EXCEPT !.pc = p]]
      PROVE  FALSE
  <2>1. PICK x \in Call : x = call[d]
    BY <1>1 DEF BrokerTypes
  <2>2. [x EXCEPT !.pc = p].pc = p
    BY DEF Call
  <2> QED  BY <1>2, <1>4, <2>1, <2>2
<1>5. ASSUME UNCHANGED call PROVE FALSE
  BY <1>5
<1>6. ASSUME \/ \E s \in Sessions : \/ RegisterSession(s) \/ HeartbeatRegistrations(s) \/ RegistrationLapses(s)
                                    \/ AttachFails(s) \/ ExpireRegistration(s) \/ AttachMonitor(s) \/ ReconcileInbox(s)
                                    \/ \E continuing \in BOOLEAN : MonitorStarts(s, continuing)
             \/ TakeJob \/ LiveRegistrations \/ FinishNotification \/ SendMessage \/ ClaimMessage
             \/ UNCHANGED vars
      PROVE  FALSE
  BY <1>5, <1>6, ElsewhereSteps
<1>7. ASSUME NEW s \in Sessions, AttachStep(s) \/ Cancel(s) PROVE FALSE
  <2>1. CASE \E heard \in BOOLEAN : Attach(s, heard)
    BY <1>5, <2>1 DEF Attach
  <2>2. CASE Cancel(s)
    BY <1>5, <2>2 DEF Cancel
  <2> QED  BY <1>6, <1>7, <2>1, <2>2 DEF AttachStep
<1>8. ASSUME NEW s \in Sessions, MonitorStep(s) PROVE FALSE
  <2>1. ASSUME NEW d \in Calls, Wait(s, d) PROVE FALSE
    <3>1. CASE UNCHANGED call
      BY <1>5, <3>1
    <3>2. CASE call' = [call EXCEPT ![d] = [pc |-> "parked", session |-> s, client |-> TRUE, box |-> "empty"]]
      BY <1>2, <3>2
    <3> QED  BY <2>1, <3>1, <3>2 DEF Wait
  <2> QED  BY <1>6, <1>8, <2>1 DEF MonitorStep
<1>9. ASSUME NEW s \in Sessions, ConnectionBreaks(s) \/ MonitorDies(s) PROVE FALSE
  <2>1. call' = hungUp(s)
    BY <1>9 DEF ConnectionBreaks, MonitorDies
  <2> QED  BY <1>1, <2>1, HungUpFacts DEF BrokerTypes
<1>10. ASSUME NEW d \in Calls, Receive(d) \/ ContextDone(d) \/ Leave(d) PROVE FALSE
  BY <1>4, <1>10 DEF Receive, ContextDone, Leave
<1>11. ASSUME NEW d \in Calls, ReturnReceived(d) \/ ReturnLeft(d) PROVE d = c
  BY <1>2, <1>11 DEF ReturnReceived, ReturnLeft, Replied
<1>12. ASSUME NEW d \in Calls, NEW outcome \in Outcomes, SendOutcome(d, outcome) PROVE FALSE
  BY <1>3, <1>12 DEF SendOutcome
<1>13. ASSUME Notify PROVE FALSE
  <2> DEFINE s == worker.target
             d == waiter[s]
  <2>1. s \in Sessions
    BY <1>1, <1>13 DEF Notify, BrokerTypes
  <2>2. CASE current = s /\ d # None /\ call[d].box = "empty"
    <3>1. d \in Calls
      BY <1>1, <2>1, <2>2 DEF BrokerTypes
    <3>2. call' = [call EXCEPT ![d] = [call[d] EXCEPT !.box = "notice"]]
      BY <1>13, <2>2 DEF Notify
    <3> QED  BY <1>3, <3>1, <3>2
  <2>3. CASE ~(current = s /\ d # None /\ call[d].box = "empty")
    BY <1>5, <1>13, <2>3 DEF Notify
  <2> QED  BY <2>2, <2>3
<1>14. ASSUME WorkerStep PROVE FALSE
  BY <1>6, <1>13, <1>14 DEF WorkerStep
<1>15. CASE Next
  <2>1. CASE \E s \in Sessions :
                \/ RegisterSession(s) \/ HeartbeatRegistrations(s) \/ RegistrationLapses(s)
                \/ AttachStep(s) \/ ExpireRegistration(s) \/ Cancel(s)
                \/ MonitorStep(s) \/ ConnectionBreaks(s) \/ MonitorDies(s)
                \/ \E continuing \in BOOLEAN : MonitorStarts(s, continuing)
    BY <1>6, <1>7, <1>8, <1>9, <2>1
  <2>2. CASE \E d \in Calls : CallStep(d) \/ ContextDone(d)
    BY <1>10, <1>11, <2>2 DEF CallStep
  <2>3. CASE \E d \in Calls, outcome \in Outcomes : SendOutcome(d, outcome)
    BY <1>12, <2>3
  <2>4. CASE WorkerStep \/ SendMessage \/ ClaimMessage
    BY <1>6, <1>14, <2>4
  <2> QED  BY <1>15, <2>1, <2>2, <2>3, <2>4 DEF Next, Outcomes
<1> QED  BY <1>6, <1>15

\* The step in which a handler that holds a notice ends makes its monitor see
\* the notice, unless the daemon died.
LEMMA NoticeIsHeard ==
    ASSUME IInv, [Next]_vars, NEW c \in Calls,
           call[c].box = "notice", call[c].client, call'[c].pc = "free"
    PROVE  monitor'[call[c].session].seen \/ faults' # faults
<1>1. BrokerTypes /\ CallsAreWhole
  BY DEF IInv
<1>2. call[c].pc # "free"
  BY <1>1 DEF CallsAreWhole, FreeCall
<1>3. call[c].session \in Sessions
  BY <1>1, <1>2 DEF CallsAreWhole
<1>4. CASE ReturnReceived(c)
  BY <1>1, <1>3, <1>4, RepliedFacts DEF ReturnReceived
<1>5. CASE ReturnLeft(c)
  <2>1. Replied(c, "notice")
    BY <1>5 DEF ReturnLeft, lastLook
  <2> QED  BY <1>1, <1>3, <2>1, RepliedFacts
<1>6. CASE Crash
  BY <1>1, <1>6 DEF Crash, BrokerTypes
<1> QED  BY <1>2, <1>4, <1>5, <1>6, CallsEnd

\* A notice that Broker.Notify reported as accepted is heard by the monitor
\* that reads the call's reply, even when the wait ended at the same moment
\* ("Prefer that accepted delivery over reporting a timeout").
THEOREM AcceptedNoticesAreHeard == Spec => AcceptedNoticeIsHeard
<1>1. IInv /\ [Next]_vars =>
        [\A c \in Calls :
           LET s == call[c].session IN
           call[c].box = "notice" /\ call[c].client /\ call'[c].pc = "free"
               => monitor'[s].seen \/ faults' # faults]_vars
  BY NoticeIsHeard
<1> QED  BY <1>1, SpecIInv, PTL DEF Spec, AcceptedNoticeIsHeard

-----------------------------------------------------------------------------
(* The broker hands over what Handoff promises. *)

\* Who may still be handed a notice has nothing in its channel and nothing on
\* the way there.
OfferedIsClear ==
    \A s \in Sessions : waiter[s] # None =>
        call[waiter[s]].box = "empty" /\ \A o \in Outcomes : <<waiter[s], o>> \notin sends

\* One outcome is on the way to a call at most, and finds its channel empty.
OneOnTheWay ==
    \A c \in Calls, o \in Outcomes : <<c, o>> \in sends =>
        /\ call[c].pc # "free" => call[c].box = "empty"
        /\ \A p \in Outcomes : <<c, p>> \in sends => p = o

ReceivedIsTold == \A c \in Calls : call[c].pc = "received" => call[c].box # "empty"

HandInv == OfferedIsClear /\ OneOnTheWay /\ ReceivedIsTold

\* What a step does to the calls as Handoff sees them.
HandsGoOn == HandInv' /\ (Broker!Step \/ hands' = hands)

LEMMA HandInit == Init => HandInv /\ Broker!Init
<1> SUFFICES ASSUME Init PROVE HandInv /\ Broker!Init
  OBVIOUS
<1>1. HandInv
  BY DEF Init, HandInv, OfferedIsClear, OneOnTheWay, ReceivedIsTold, FreeCall
<1>2. \A c \in Calls : handoff(c) = Broker!Out
  BY DEF Init, FreeCall, handoff, Broker!Out
<1> QED  BY <1>1, <1>2 DEF Broker!Init, hands

LEMMA BoxSet ==
    ASSUME call \in [Calls -> Call], NEW c \in Calls, NEW b,
           call' = [call EXCEPT ![c] = [call[c] EXCEPT !.box = b]]
    PROVE  /\ \A d \in Calls : call'[d].pc = call[d].pc /\ call'[d].session = call[d].session
           /\ \A d \in Calls \ {c} : call'[d] = call[d]
           /\ call'[c].box = b
<1>1. PICK x \in Call : x = call[c]
  OBVIOUS
<1>2. [x EXCEPT !.box = b].pc = x.pc /\ [x EXCEPT !.box = b].session = x.session /\ [x EXCEPT !.box = b].box = b
  BY DEF Call
<1> QED  BY <1>1, <1>2

LEMMA PcSet ==
    ASSUME call \in [Calls -> Call], NEW c \in Calls, NEW p,
           call' = [call EXCEPT ![c] = [call[c] EXCEPT !.pc = p]]
    PROVE  /\ \A d \in Calls : call'[d].box = call[d].box /\ call'[d].session = call[d].session
           /\ \A d \in Calls \ {c} : call'[d] = call[d]
           /\ call'[c].pc = p
<1>1. PICK x \in Call : x = call[c]
  OBVIOUS
<1>2. [x EXCEPT !.pc = p].box = x.box /\ [x EXCEPT !.pc = p].session = x.session /\ [x EXCEPT !.pc = p].pc = p
  BY DEF Call
<1> QED  BY <1>1, <1>2

\* What Handoff sees of a call.
LEMMA SameHand ==
    ASSUME NEW d \in Calls,
           (call'[d].pc = "free") <=> (call[d].pc = "free"), call'[d].box = call[d].box,
           call[d].pc # "free" => ((waiter'[call'[d].session] = d) <=> (waiter[call[d].session] = d)),
           \A o \in Outcomes : (<<d, o>> \in sends') <=> (<<d, o>> \in sends)
    PROVE  handoff(d)' = handoff(d)
BY DEF handoff, Outcomes

LEMMA OneHand ==
    ASSUME NEW c \in Calls, \A d \in Calls \ {c} : handoff(d)' = handoff(d)
    PROVE  hands[c] = handoff(c) /\ hands' = [hands EXCEPT ![c] = handoff(c)']
BY DEF hands

LEMMA OfferedHand ==
    ASSUME NEW c \in Calls
    PROVE  /\ call[c].pc # "free" /\ call[c].box = "empty" /\ waiter[call[c].session] = c
                => handoff(c) = Broker!Offered
           /\ handoff(c) = Broker!Offered => call[c].pc # "free" /\ waiter[call[c].session] = c
BY DEF handoff, Broker!Offered

\* Steps that neither enter nor leave the map, nor touch a channel.
LEMMA QuietHands ==
    ASSUME IInv, HandInv, UNCHANGED <<waiter, sends>>,
           \A c \in Calls : call'[c].session = call[c].session,
           \A c \in Calls : call'[c].box = call[c].box,
           \A c \in Calls : \/ call'[c].pc = call[c].pc
                            \/ call[c].pc = "parked" /\ call'[c].pc = "leaving"
                            \/ call[c].pc = "parked" /\ call'[c].pc = "received" /\ call[c].box # "empty"
    PROVE  HandsGoOn
<1>1. waiter \in [Sessions -> Calls \cup {None}]
  BY DEF IInv, BrokerTypes
<1>2. OfferedIsClear'
  BY <1>1 DEF HandInv, OfferedIsClear
<1>3. OneOnTheWay'
  BY DEF HandInv, OneOnTheWay
<1>4. ReceivedIsTold'
  BY DEF HandInv, ReceivedIsTold
<1>5. \A c \in Calls : handoff(c)' = handoff(c)
  BY SameHand
<1> QED  BY <1>2, <1>3, <1>4, <1>5 DEF HandsGoOn, HandInv, hands

\* Attach and Cancel: the waiter of session x, if any, is dismissed.
LEMMA DropHands ==
    ASSUME IInv, HandInv, NEW x \in Sessions, NEW o \in Outcomes, UNCHANGED call,
           waiter' = [waiter EXCEPT ![x] = None],
           sends' = IF waiter[x] = None THEN sends ELSE sends \cup {<<waiter[x], o>>}
    PROVE  HandsGoOn
<1>1. /\ waiter \in [Sessions -> Calls \cup {None}] /\ WaiterIsParked /\ CallsAreWhole
      /\ OfferedIsClear /\ OneOnTheWay /\ ReceivedIsTold
  BY DEF IInv, BrokerTypes, HandInv
<1>2. CASE waiter[x] = None
  <2>1. UNCHANGED <<waiter, sends>>
    BY <1>1, <1>2
  <2> QED  BY <2>1, QuietHands
<1>3. CASE waiter[x] # None
  <2>0. PICK c \in Calls : c = waiter[x]
    BY <1>1, <1>3
  <2>1. /\ c \in Calls /\ call[c].session = x /\ call[c].pc # "free" /\ call[c].box = "empty"
        /\ \A p \in Outcomes : <<c, p>> \notin sends
    BY <1>1, <1>3, <2>0 DEF WaiterIsParked, OfferedIsClear
  <2>2. \A t \in Sessions : waiter'[t] = IF t = x THEN None ELSE waiter[t]
    BY <1>1
  <2>3. sends' = sends \cup {<<c, o>>} /\ \A t \in Sessions \ {x} : waiter[t] # c
    BY <1>1, <1>3, <2>0, <2>1, NoneIsOutside DEF WaiterIsParked
  <2>4. OfferedIsClear'
    BY <1>1, <2>2, <2>3 DEF OfferedIsClear
  <2>5. OneOnTheWay'
    BY <1>1, <2>1, <2>3 DEF OneOnTheWay
  <2>6. ReceivedIsTold'
    BY <1>1 DEF ReceivedIsTold
  <2>7. ASSUME NEW d \in Calls \ {c} PROVE handoff(d)' = handoff(d)
    <3>1. call[d].pc # "free" => call[d].session \in Sessions
      BY <1>1 DEF CallsAreWhole
    <3>2. waiter[x] # d /\ None # d
      BY <2>0, <2>7, NoneIsOutside
    <3>3. call[d].pc # "free" => ((waiter'[call'[d].session] = d) <=> (waiter[call[d].session] = d))
      BY <2>2, <3>1, <3>2
    <3>4. \A p \in Outcomes : (<<d, p>> \in sends') <=> (<<d, p>> \in sends)
      BY <2>3, <2>7
    <3> QED  BY <2>7, <3>3, <3>4, SameHand
  <2>8. handoff(c) = Broker!Offered
    BY <2>0, <2>1, OfferedHand
  <2>9. handoff(c)' = [phase |-> "dismissed", word |-> o]
    <3>1. waiter'[call'[c].session] # c
      BY <2>1, <2>2, NoneIsOutside
    <3>2. \A p \in Outcomes : (<<c, p>> \in sends') <=> p = o
      BY <2>1, <2>3
    <3> QED  BY <2>1, <3>1, <3>2 DEF handoff, Outcomes
  <2>10. Broker!Dismiss(c, o)
    BY <2>1, <2>7, <2>8, <2>9, OneHand DEF Broker!Dismiss
  <2> QED  BY <2>1, <2>4, <2>5, <2>6, <2>10 DEF HandsGoOn, HandInv, Broker!Step, Outcomes
<1> QED  BY <1>2, <1>3

\* SendOutcome: whoever is still there is told; nobody else's channel is used.
LEMMA SentHands ==
    ASSUME IInv, HandInv, NEW c \in Calls, NEW o \in Outcomes, SendOutcome(c, o) PROVE HandsGoOn
<1>1. /\ waiter \in [Sessions -> Calls \cup {None}] /\ call \in [Calls -> Call]
      /\ OfferedIsClear /\ OneOnTheWay /\ ReceivedIsTold /\ CallsAreWhole
  BY DEF IInv, BrokerTypes, HandInv
<1>2. /\ <<c, o>> \in sends /\ sends' = sends \ {<<c, o>>} /\ UNCHANGED waiter
      /\ call' = [call EXCEPT ![c] = [call[c] EXCEPT !.box =
                     IF call[c].pc # "free" /\ call[c].box = "empty" THEN o ELSE call[c].box]]
  BY DEF SendOutcome
<1>3. /\ \A d \in Calls : call'[d].pc = call[d].pc /\ call'[d].session = call[d].session
      /\ \A d \in Calls \ {c} : call'[d] = call[d]
      /\ call'[c].box = IF call[c].pc # "free" /\ call[c].box = "empty" THEN o ELSE call[c].box
  BY <1>1, <1>2, BoxSet
<1>4. \A s \in Sessions : waiter[s] # c
  BY <1>1, <1>2, NoneIsOutside DEF OfferedIsClear
<1>5. OfferedIsClear'
  BY <1>1, <1>2, <1>3, <1>4 DEF OfferedIsClear
<1>6. OneOnTheWay'
  BY <1>1, <1>2, <1>3 DEF OneOnTheWay
<1>7. ReceivedIsTold'
  BY <1>1, <1>3 DEF ReceivedIsTold, Outcomes
<1>8. ASSUME NEW d \in Calls \ {c} PROVE handoff(d)' = handoff(d)
  <2>1. \A p \in Outcomes : (<<d, p>> \in sends') <=> (<<d, p>> \in sends)
    BY <1>2, <1>8
  <2> QED  BY <1>2, <1>3, <1>8, <2>1, SameHand
<1>9. CASE call[c].pc = "free"
  <2>1. handoff(c)' = handoff(c)
    BY <1>3, <1>9 DEF handoff
  <2>2. hands' = hands
    BY <1>8, <2>1 DEF hands
  <2> QED  BY <1>5, <1>6, <1>7, <2>2 DEF HandsGoOn, HandInv
<1>10. CASE call[c].pc # "free"
  <2>1. call[c].box = "empty" /\ \A p \in Outcomes : <<c, p>> \in sends => p = o
    BY <1>1, <1>2, <1>10 DEF OneOnTheWay
  <2>2. waiter[call[c].session] # c
    BY <1>1, <1>4, <1>10 DEF CallsAreWhole
  <2>3. handoff(c) = [phase |-> "dismissed", word |-> o]
    BY <1>2, <1>10, <2>1, <2>2 DEF handoff, Outcomes
  <2>4. handoff(c)' = [phase |-> "told", word |-> o]
    BY <1>3, <1>10, <2>1 DEF handoff, Outcomes
  <2>5. Broker!Tell(c)
    BY <1>8, <2>3, <2>4, OneHand DEF Broker!Tell
  <2> QED  BY <1>5, <1>6, <1>7, <2>5 DEF HandsGoOn, HandInv, Broker!Step
<1> QED  BY <1>9, <1>10

\* A call parks while nobody else does: the presence it was called for has no
\* waiter, and no other session is the presence.
LEMMA WaitHands ==
    ASSUME IInv, HandInv, NEW s \in Sessions, NEW c \in Calls, Wait(s, c) PROVE HandsGoOn
<1>1. /\ waiter \in [Sessions -> Calls \cup {None}] /\ call \in [Calls -> Call]
      /\ WaiterIsParked /\ WaiterIsCurrent /\ CallsAreWhole
      /\ OfferedIsClear /\ OneOnTheWay /\ ReceivedIsTold
  BY DEF IInv, BrokerTypes, HandInv
<1>2. call[c].pc = "free" /\ UNCHANGED sends /\ \A o \in Outcomes : <<c, o>> \notin sends
  BY DEF Wait, Outcomes
<1>3. CASE ~(current = s /\ waiter[s] = None)
  <2>1. UNCHANGED <<waiter, call, sends>>
    BY <1>3 DEF Wait
  <2> QED  BY <2>1, QuietHands
<1>4. CASE current = s /\ waiter[s] = None
  <2>1. waiter' = [waiter EXCEPT ![s] = c]
    BY <1>4 DEF Wait
  <2>2. call' = [call EXCEPT ![c] = [pc |-> "parked", session |-> s, client |-> TRUE, box |-> "empty"]]
    BY <1>4 DEF Wait
  <2>3. /\ call'[c].pc = "parked" /\ call'[c].session = s /\ call'[c].box = "empty"
        /\ \A d \in Calls \ {c} : call'[d] = call[d]
    BY <1>1, <2>2
  <2>4. waiter'[s] = c /\ \A t \in Sessions \ {s} : waiter'[t] = waiter[t]
    BY <1>1, <2>1
  <2>5. \A t \in Sessions : waiter[t] # c
    BY <1>1, <1>2, NoneIsOutside DEF WaiterIsParked
  <2>6. OfferedIsClear'
    BY <1>1, <1>2, <2>3, <2>4, <2>5 DEF OfferedIsClear
  <2>7. OneOnTheWay'
    BY <1>1, <1>2, <2>3 DEF OneOnTheWay
  <2>8. ReceivedIsTold'
    BY <1>1, <2>3 DEF ReceivedIsTold
  <2>9. ASSUME NEW d \in Calls \ {c} PROVE handoff(d)' = handoff(d)
    <3>1. call[d].pc # "free" => ((waiter'[call'[d].session] = d) <=> (waiter[call[d].session] = d))
      <4> SUFFICES ASSUME call[d].pc # "free"
                   PROVE  (waiter'[call'[d].session] = d) <=> (waiter[call[d].session] = d)
        OBVIOUS
      <4>1. call[d].session \in Sessions /\ call'[d].session = call[d].session
        BY <1>1, <2>3 DEF CallsAreWhole
      <4> QED  BY <1>4, <2>4, <2>9, <4>1, NoneIsOutside
    <3> QED  BY <1>2, <2>3, <2>9, <3>1, SameHand
  <2>10. ASSUME NEW v \in Calls, handoff(v) = Broker!Offered PROVE FALSE
    <3>1. call[v].pc # "free" /\ waiter[call[v].session] = v
      BY <2>10, OfferedHand
    <3>2. call[v].session \in Sessions
      BY <1>1, <3>1 DEF CallsAreWhole
    <3>3. call[v].session = s
      BY <1>1, <1>4, <3>1, <3>2, NoneIsOutside DEF WaiterIsCurrent
    <3> QED  BY <1>4, <3>1, <3>3, NoneIsOutside
  <2>11. handoff(c) = Broker!Out
    BY <1>2 DEF handoff, Broker!Out
  <2>12. handoff(c)' = Broker!Offered
    BY <2>3, <2>4 DEF handoff, Broker!Offered
  <2>13. hands[c] = Broker!Out /\ hands' = [hands EXCEPT ![c] = Broker!Offered]
    BY <2>9, <2>11, <2>12, OneHand
  <2>14. \A v \in Calls : hands[v] # Broker!Offered
    BY <2>10 DEF hands
  <2>15. Broker!Enter(c)
    BY <2>13, <2>14 DEF Broker!Enter
  <2> QED  BY <2>6, <2>7, <2>8, <2>15 DEF HandsGoOn, HandInv, Broker!Step
<1> QED  BY <1>3, <1>4

\* Notify hands the notice to the waiter, whose channel it finds empty.
LEMMA NotifyHands == ASSUME IInv, HandInv, Notify PROVE HandsGoOn
<1> DEFINE s == worker.target
<1>1. /\ waiter \in [Sessions -> Calls \cup {None}] /\ call \in [Calls -> Call] /\ s \in Sessions
      /\ WaiterIsParked /\ CallsAreWhole /\ OfferedIsClear /\ OneOnTheWay /\ ReceivedIsTold
  BY DEF IInv, BrokerTypes, HandInv, Notify
<1>2. UNCHANGED sends
  BY DEF Notify
<1>3. CASE ~(current = s /\ waiter[s] # None /\ call[waiter[s]].box = "empty")
  <2>1. UNCHANGED <<waiter, call, sends>>
    BY <1>3 DEF Notify
  <2> QED  BY <2>1, QuietHands
<1>4. CASE current = s /\ waiter[s] # None /\ call[waiter[s]].box = "empty"
  <2>1. PICK x \in Sessions : x = s
    BY <1>1
  <2>2. PICK c \in Calls : c = waiter[x]
    BY <1>1, <1>4, <2>1
  <2>3. waiter' = [waiter EXCEPT ![x] = None]
    BY <1>4, <2>1 DEF Notify
  <2>4. call' = [call EXCEPT ![c] = [call[c] EXCEPT !.box = "notice"]]
    BY <1>4, <2>1, <2>2 DEF Notify
  <2>5. /\ \A d \in Calls : call'[d].pc = call[d].pc /\ call'[d].session = call[d].session
        /\ \A d \in Calls \ {c} : call'[d] = call[d]
        /\ call'[c].box = "notice"
    BY <1>1, <2>4, BoxSet
  <2>6. /\ call[c].session = x /\ call[c].pc # "free" /\ call[c].box = "empty"
        /\ \A o \in Outcomes : <<c, o>> \notin sends
    BY <1>1, <2>2, NoneIsOutside DEF WaiterIsParked, OfferedIsClear
  <2>7. waiter'[x] = None /\ \A t \in Sessions \ {x} : waiter'[t] = waiter[t]
    BY <1>1, <2>3
  <2>8. \A t \in Sessions \ {x} : waiter[t] # c
    BY <1>1, <2>6, NoneIsOutside DEF WaiterIsParked
  <2>9. OfferedIsClear'
    BY <1>1, <1>2, <2>5, <2>7, <2>8 DEF OfferedIsClear
  <2>10. OneOnTheWay'
    BY <1>1, <1>2, <2>5, <2>6 DEF OneOnTheWay
  <2>11. ReceivedIsTold'
    BY <1>1, <2>5 DEF ReceivedIsTold
  <2>12. ASSUME NEW d \in Calls \ {c} PROVE handoff(d)' = handoff(d)
    <3>1. call[d].pc # "free" => ((waiter'[call'[d].session] = d) <=> (waiter[call[d].session] = d))
      <4> SUFFICES ASSUME call[d].pc # "free"
                   PROVE  (waiter'[call'[d].session] = d) <=> (waiter[call[d].session] = d)
        OBVIOUS
      <4>1. call[d].session \in Sessions /\ call'[d].session = call[d].session
        BY <1>1, <2>5 DEF CallsAreWhole
      <4> QED  BY <2>2, <2>7, <2>12, <4>1, NoneIsOutside
    <3> QED  BY <1>2, <2>5, <2>12, <3>1, SameHand
  <2>13. handoff(c) = Broker!Offered
    BY <2>2, <2>6, OfferedHand
  <2>14. handoff(c)' = [phase |-> "told", word |-> "notice"]
    BY <2>5, <2>6 DEF handoff
  <2>15. Broker!Accept(c)
    BY <2>12, <2>13, <2>14, OneHand DEF Broker!Accept
  <2> QED  BY <2>9, <2>10, <2>11, <2>15 DEF HandsGoOn, HandInv, Broker!Step
<1> QED  BY <1>3, <1>4

\* A call whose time is over takes its entry away, if it still is its own.
LEMMA LeaveHands == ASSUME IInv, HandInv, NEW c \in Calls, Leave(c) PROVE HandsGoOn
<1>1. /\ waiter \in [Sessions -> Calls \cup {None}] /\ call \in [Calls -> Call]
      /\ CallsAreWhole /\ OfferedIsClear /\ OneOnTheWay /\ ReceivedIsTold
  BY DEF IInv, BrokerTypes, HandInv
<1>2. call[c].pc = "leaving" /\ UNCHANGED sends /\ call' = [call EXCEPT ![c] = [call[c] EXCEPT !.pc = "left"]]
  BY DEF Leave
<1>3. call[c].session \in Sessions
  BY <1>1, <1>2 DEF CallsAreWhole
<1>4. /\ \A d \in Calls : call'[d].box = call[d].box /\ call'[d].session = call[d].session
      /\ \A d \in Calls \ {c} : call'[d] = call[d]
      /\ call'[c].pc = "left"
  BY <1>1, <1>2, PcSet
<1>5. \A t \in Sessions : waiter'[t] = IF waiter[t] = c THEN None ELSE waiter[t]
  BY <1>3, RemovedFacts DEF Leave
<1>6. OfferedIsClear'
  BY <1>1, <1>2, <1>4, <1>5 DEF OfferedIsClear
<1>7. OneOnTheWay'
  BY <1>1, <1>2, <1>4 DEF OneOnTheWay
<1>8. ReceivedIsTold'
  BY <1>1, <1>4 DEF ReceivedIsTold
<1>9. ASSUME NEW d \in Calls \ {c} PROVE handoff(d)' = handoff(d)
  <2>1. call[d].pc # "free" => ((waiter'[call'[d].session] = d) <=> (waiter[call[d].session] = d))
    <3> SUFFICES ASSUME call[d].pc # "free"
                 PROVE  (waiter'[call'[d].session] = d) <=> (waiter[call[d].session] = d)
      OBVIOUS
    <3>1. call[d].session \in Sessions /\ call'[d].session = call[d].session
      BY <1>1, <1>4 DEF CallsAreWhole
    <3> QED  BY <1>5, <1>9, <3>1, NoneIsOutside
  <2> QED  BY <1>2, <1>4, <1>9, <2>1, SameHand
<1>10. waiter'[call'[c].session] # c
  BY <1>3, <1>4, <1>5, NoneIsOutside
<1>11. CASE waiter[call[c].session] = c
  <2>1. call[c].box = "empty" /\ \A o \in Outcomes : <<c, o>> \notin sends
    BY <1>1, <1>3, <1>11, NoneIsOutside DEF OfferedIsClear
  <2>2. handoff(c) = Broker!Offered
    BY <1>2, <1>11, <2>1, OfferedHand
  <2>3. handoff(c)' = [phase |-> "gone", word |-> "none"]
    BY <1>2, <1>4, <1>10, <2>1 DEF handoff, Outcomes
  <2>4. Broker!GiveUp(c)
    BY <1>9, <2>2, <2>3, OneHand DEF Broker!GiveUp
  <2> QED  BY <1>6, <1>7, <1>8, <2>4 DEF HandsGoOn, HandInv, Broker!Step
<1>12. CASE waiter[call[c].session] # c
  <2>1. handoff(c)' = handoff(c)
    BY <1>2, <1>4, <1>10, <1>12, SameHand
  <2>2. hands' = hands
    BY <1>9, <2>1 DEF hands
  <2> QED  BY <1>6, <1>7, <1>8, <2>2 DEF HandsGoOn, HandInv
<1> QED  BY <1>11, <1>12

\* A call returns when it was told something or has no entry any more.
LEMMA ReturnHands ==
    ASSUME IInv, HandInv, NEW c \in Calls, ReturnReceived(c) \/ ReturnLeft(c) PROVE HandsGoOn
<1>1. /\ BrokerTypes /\ waiter \in [Sessions -> Calls \cup {None}] /\ WaiterIsParked /\ CallsAreWhole
      /\ OfferedIsClear /\ OneOnTheWay /\ ReceivedIsTold
  BY DEF IInv, BrokerTypes, HandInv
<1>2. UNCHANGED sends /\ call[c].pc \in {"received", "left"}
  BY DEF ReturnReceived, ReturnLeft, broker
<1>3. call[c].session \in Sessions
  BY <1>1, <1>2 DEF CallsAreWhole
<1>4. call'[c] = FreeCall /\ \A d \in Calls \ {c} : call'[d] = call[d]
  BY <1>1, <1>3, RepliedFacts DEF ReturnReceived, ReturnLeft
<1>5. \A t \in Sessions : waiter'[t] = IF waiter[t] = c THEN None ELSE waiter[t]
  <2>1. CASE ReturnReceived(c)
    BY <1>3, <2>1, RemovedFacts DEF ReturnReceived
  <2>2. CASE ReturnLeft(c)
    <3>1. UNCHANGED waiter /\ call[c].pc = "left"
      BY <2>2 DEF ReturnLeft, broker
    <3>2. \A t \in Sessions : waiter[t] # c
      BY <1>1, <3>1, NoneIsOutside DEF WaiterIsParked
    <3> QED  BY <3>1, <3>2
  <2> QED  BY <2>1, <2>2
<1>6. OfferedIsClear'
  BY <1>1, <1>2, <1>4, <1>5 DEF OfferedIsClear
<1>7. OneOnTheWay'
  BY <1>1, <1>2, <1>4 DEF OneOnTheWay, FreeCall
<1>8. ReceivedIsTold'
  BY <1>1, <1>4 DEF ReceivedIsTold, FreeCall
<1>9. ASSUME NEW d \in Calls \ {c} PROVE handoff(d)' = handoff(d)
  <2>1. call[d].pc # "free" => ((waiter'[call'[d].session] = d) <=> (waiter[call[d].session] = d))
    <3> SUFFICES ASSUME call[d].pc # "free"
                 PROVE  (waiter'[call'[d].session] = d) <=> (waiter[call[d].session] = d)
      OBVIOUS
    <3>1. call[d].session \in Sessions /\ call'[d].session = call[d].session
      BY <1>1, <1>4, <1>9 DEF CallsAreWhole
    <3> QED  BY <1>5, <1>9, <3>1, NoneIsOutside
  <2> QED  BY <1>2, <1>4, <1>9, <2>1, SameHand
<1>10. handoff(c)' = Broker!Out
  BY <1>4 DEF handoff, FreeCall, Broker!Out
<1>11. handoff(c).phase \in {"told", "dismissed", "gone"}
  <2>1. CASE call[c].box # "empty"
    BY <1>2, <2>1 DEF handoff
  <2>2. CASE call[c].box = "empty"
    <3>1. call[c].pc = "left"
      BY <1>1, <1>2, <2>2 DEF ReceivedIsTold
    <3>2. waiter[call[c].session] # c
      BY <1>1, <1>3, <3>1, NoneIsOutside DEF WaiterIsParked
    <3> QED  BY <1>2, <2>2, <3>2 DEF handoff
  <2> QED  BY <2>1, <2>2
<1>12. Broker!Return(c)
  BY <1>9, <1>10, <1>11, OneHand DEF Broker!Return
<1> QED  BY <1>6, <1>7, <1>8, <1>12 DEF HandsGoOn, HandInv, Broker!Step

LEMMA CrashHands == ASSUME Crash PROVE HandsGoOn
<1>1. /\ call' = [c \in Calls |-> FreeCall] /\ sends' = {} /\ waiter' = [s \in Sessions |-> None]
  BY DEF Crash
<1>2. HandInv'
  BY <1>1 DEF HandInv, OfferedIsClear, OneOnTheWay, ReceivedIsTold, FreeCall
<1>3. \A c \in Calls : handoff(c)' = Broker!Out
  BY <1>1 DEF handoff, FreeCall, Broker!Out
<1>4. Broker!Fail
  BY <1>3 DEF Broker!Fail, hands
<1> QED  BY <1>2, <1>4 DEF HandsGoOn, Broker!Step

\* Attach releases the waiter of the presence it replaces.
LEMMA AttachHands ==
    ASSUME IInv, HandInv, NEW s \in Sessions, NEW heard \in BOOLEAN, Attach(s, heard) PROVE HandsGoOn
<1>1. current \in Sessions \cup {None} /\ UNCHANGED call
  BY DEF IInv, BrokerTypes, Attach
<1>2. CASE current # s /\ current # None /\ waiter[current] # None
  <2>1. PICK x \in Sessions : x = current
    BY <1>1, <1>2
  <2>2. waiter' = [waiter EXCEPT ![x] = None]
    BY <1>2, <2>1 DEF Attach
  <2>3. sends' = sends \cup {<<waiter[x], "superseded">>}
    BY <1>2, <2>1 DEF Attach
  <2>4. "superseded" \in Outcomes /\ waiter[x] # None
    BY <1>2, <2>1 DEF Outcomes
  <2> QED  BY <1>1, <2>2, <2>3, <2>4, DropHands
<1>3. CASE ~(current # s /\ current # None /\ waiter[current] # None)
  <2>1. UNCHANGED <<waiter, sends>>
    BY <1>3 DEF Attach
  <2> QED  BY <1>1, <2>1, QuietHands
<1> QED  BY <1>2, <1>3

LEMMA CancelHands == ASSUME IInv, HandInv, NEW s \in Sessions, Cancel(s) PROVE HandsGoOn
<1>1. /\ UNCHANGED call /\ waiter' = [waiter EXCEPT ![s] = None]
      /\ sends' = IF waiter[s] = None THEN sends ELSE sends \cup {<<waiter[s], "ended">>}
  BY DEF Cancel
<1>2. "ended" \in Outcomes
  BY DEF Outcomes
<1> QED  BY <1>1, <1>2, DropHands

\* Steps that change what nobody is told.
LEMMA OtherHands ==
    ASSUME IInv, HandInv,
           \/ \E s \in Sessions : ConnectionBreaks(s) \/ MonitorDies(s)
           \/ \E c \in Calls : Receive(c) \/ ContextDone(c)
    PROVE  HandsGoOn
<1>1. call \in [Calls -> Call]
  BY DEF IInv, BrokerTypes
<1>2. ASSUME NEW s \in Sessions, ConnectionBreaks(s) \/ MonitorDies(s) PROVE HandsGoOn
  <2>1. call' = hungUp(s) /\ UNCHANGED <<waiter, sends>>
    BY <1>2 DEF ConnectionBreaks, MonitorDies, broker
  <2> QED  BY <1>1, <2>1, HungUpFacts, QuietHands
<1>3. ASSUME NEW c \in Calls, NEW p \in {"received", "leaving"}, UNCHANGED <<waiter, sends>>,
             call' = [call EXCEPT ![c] = [call[c] EXCEPT !.pc = p]],
             call[c].pc = "parked", p = "received" => call[c].box # "empty"
      PROVE  HandsGoOn
  <2>1. /\ \A d \in Calls : call'[d].box = call[d].box /\ call'[d].session = call[d].session
        /\ \A d \in Calls \ {c} : call'[d] = call[d]
        /\ call'[c].pc = p
    BY <1>1, <1>3, PcSet
  <2>2. \A d \in Calls : \/ call'[d].pc = call[d].pc
                         \/ call[d].pc = "parked" /\ call'[d].pc = "leaving"
                         \/ call[d].pc = "parked" /\ call'[d].pc = "received" /\ call[d].box # "empty"
    BY <1>3, <2>1
  <2> QED  BY <1>3, <2>1, <2>2, QuietHands
<1>4. ASSUME NEW c \in Calls, Receive(c) PROVE HandsGoOn
  BY <1>3, <1>4 DEF Receive, broker
<1>5. ASSUME NEW c \in Calls, ContextDone(c) PROVE HandsGoOn
  BY <1>3, <1>5 DEF ContextDone, broker
<1> QED  BY <1>2, <1>4, <1>5

\* Every step of the broker is a step of Handoff or changes nothing there.
LEMMA NextHands == ASSUME IInv, HandInv, [Next]_vars PROVE HandsGoOn
<1>1. ASSUME UNCHANGED <<waiter, call, sends>> PROVE HandsGoOn
  BY <1>1, QuietHands
<1>2. ASSUME \/ \E s \in Sessions : \/ RegisterSession(s) \/ HeartbeatRegistrations(s) \/ RegistrationLapses(s)
                                    \/ AttachFails(s) \/ ExpireRegistration(s) \/ AttachMonitor(s)
                                    \/ ReconcileInbox(s)
                                    \/ \E continuing \in BOOLEAN : MonitorStarts(s, continuing)
             \/ TakeJob \/ LiveRegistrations \/ FinishNotification \/ SendMessage \/ ClaimMessage
             \/ UNCHANGED vars
      PROVE  HandsGoOn
  BY <1>1, <1>2, ElsewhereSteps
<1>3. CASE UNCHANGED vars
  BY <1>2, <1>3
<1>4. CASE Next
  <2>1. ASSUME NEW s \in Sessions, AttachStep(s) PROVE HandsGoOn
    BY <1>2, <2>1, AttachHands DEF AttachStep
  <2>2. ASSUME NEW s \in Sessions, MonitorStep(s) PROVE HandsGoOn
    BY <1>2, <2>2, WaitHands DEF MonitorStep
  <2>3. CASE \E s \in Sessions :
                \/ RegisterSession(s) \/ HeartbeatRegistrations(s) \/ RegistrationLapses(s)
                \/ AttachStep(s) \/ ExpireRegistration(s) \/ Cancel(s)
                \/ MonitorStep(s) \/ ConnectionBreaks(s) \/ MonitorDies(s)
                \/ \E continuing \in BOOLEAN : MonitorStarts(s, continuing)
    BY <1>2, <2>1, <2>2, <2>3, CancelHands, OtherHands
  <2>4. CASE \E c \in Calls : CallStep(c) \/ ContextDone(c)
    BY <2>4, LeaveHands, ReturnHands, OtherHands DEF CallStep
  <2>5. CASE \E c \in Calls, o \in Outcomes : SendOutcome(c, o)
    BY <2>5, SentHands
  <2>6. CASE WorkerStep \/ SendMessage \/ ClaimMessage
    BY <1>2, <2>6, NotifyHands DEF WorkerStep
  <2> QED  BY <1>4, <2>3, <2>4, <2>5, <2>6, CrashHands DEF Next, Outcomes
<1> QED  BY <1>3, <1>4

\* Broker.Wait, Notify, Attach and Cancel hand the calls over as Handoff says,
\* though an outcome is sent after the unlock and a call looks into its channel
\* after it removed itself.
THEOREM BrokerHandsOff == Spec => WaitsAreHandedOff
<1>1. Init => HandInv /\ Broker!Init
  BY HandInit
<1>2. IInv /\ HandInv /\ [Next]_vars => HandInv' /\ [Broker!Next]_hands
  BY NextHands DEF HandsGoOn, Broker!Next
<1> QED  BY <1>1, <1>2, SpecIInv, PTL DEF Spec, WaitsAreHandedOff, Broker!Spec
=============================================================================
