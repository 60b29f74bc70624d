----------------------------- MODULE Attention -----------------------------
(***************************************************************************)
(* How one wake reaches a parked harness monitor: the sessions one run of  *)
(* an actor registers, the in-memory attention broker, the daemon handlers *)
(* that call it, the notification worker, and the monitor process each     *)
(* session runs.                                                           *)
(*                                                                         *)
(* A store transaction and a broker critical section are one step each.    *)
(* Everything between them interleaves: monitor_attach and                 *)
(* expire_registration first write the store and then the broker; a        *)
(* broker call that releases a waiter sends the outcome after it unlocked; *)
(* a wait whose context ends removes itself in one critical section and    *)
(* looks into its channel afterwards; the worker looks a registration up   *)
(* before it notifies it.  Connections break and the daemon crashes.       *)
(***************************************************************************)
EXTENDS Naturals

CONSTANTS
    Sessions,          \* session identifiers of one actor and run
    Calls,             \* bound: wait_attention handlers that exist at a time
    MaxAttempts,       \* notification attempts before a job is given up (5)
    MaxRegistrations,  \* bound: RegisterSession calls
    MaxStarts,         \* bound: monitor processes started
    MaxFaults,         \* bound: broken connections and daemon crashes
    Lapsing,           \* bound: the sessions whose registration lease may run out
    None               \* no session, no call

ASSUME NoneIsOutside == None \notin Sessions /\ None \notin Calls
ASSUME AttemptsArePos == MaxAttempts \in Nat \ {0}
ASSUME BoundsAreNat == MaxRegistrations \in Nat /\ MaxStarts \in Nat /\ MaxFaults \in Nat

VARIABLES
    reg,         \* registrations table
    current,     \* Broker.current of the actor
    waiter,      \* Broker.waiters: session -> the parked call
    call,        \* wait_attention handlers and their result channels
    sends,       \* outcomes that Attach and Cancel have yet to send
    attaching,   \* monitor_attach handlers that have left the store: the session,
                 \* and whether somebody still reads the reply
    cancelling,  \* sessions whose expire_registration has left the store
    monitor,     \* the monitor process of each session
    job,         \* the notification job of one message
    worker,      \* the notification worker
    unread,      \* the message is unclaimed
    faults,      \* faults so far
    spent        \* registrations and monitor starts so far

vars == <<reg, current, waiter, call, sends, attaching, cancelling,
          monitor, job, worker, unread, faults, spent>>
broker   == <<current, waiter, sends>>
outbox   == <<job, worker>>

Stopped == {"off", "superseded", "ended", "woke"}
Running == {"attach", "attaching", "inbox", "wait", "parked"}

\* at: registered_at_ns, the clock when the handler of the registration began.
Registration == [state : {"none", "open", "ended"}, superseded : BOOLEAN, lapsed : BOOLEAN,
                 at : 0 .. MaxRegistrations]
\* client: somebody still reads the reply.
Call    == [pc      : {"free", "parked", "received", "leaving", "left"},
            session : Sessions \cup {None},
            client  : BOOLEAN,
            box     : {"empty", "notice", "superseded", "ended"}]
Monitor == [pc : Stopped \cup Running, reconciled : BOOLEAN, seen : BOOLEAN]

FreeCall == [pc |-> "free", session |-> None, client |-> FALSE, box |-> "empty"]

TypeOK ==
    /\ reg        \in [Sessions -> Registration]
    /\ current    \in Sessions \cup {None}
    /\ waiter     \in [Sessions -> Calls \cup {None}]
    /\ call       \in [Calls -> Call]
    /\ sends      \subseteq Calls \X {"superseded", "ended"}
    /\ attaching  \subseteq Sessions \X BOOLEAN
    /\ cancelling \subseteq Sessions
    /\ monitor    \in [Sessions -> Monitor]
    /\ job        \in [state   : {"none", "pending", "processing", "accepted", "done"},
                       attempt : 0 .. MaxAttempts]
    /\ worker     \in [pc : {"idle", "lookup", "notify", "finish"},
                       target : Sessions \cup {None}, accepted : BOOLEAN]
    /\ unread     \in BOOLEAN
    /\ faults     \in 0 .. MaxFaults
    /\ spent      \in [registrations : 0 .. MaxRegistrations, starts : 0 .. MaxStarts]

Idle == [pc |-> "idle", target |-> None, accepted |-> FALSE]

Init ==
    /\ reg        = [s \in Sessions |-> [state |-> "none", superseded |-> FALSE, lapsed |-> FALSE, at |-> 0]]
    /\ current    = None
    /\ waiter     = [s \in Sessions |-> None]
    /\ call       = [c \in Calls |-> FreeCall]
    /\ sends      = {}
    /\ attaching  = {}
    /\ cancelling = {}
    /\ monitor    = [s \in Sessions |-> [pc |-> "off", reconciled |-> FALSE, seen |-> FALSE]]
    /\ job        = [state |-> "none", attempt |-> 0]
    /\ worker     = Idle
    /\ unread     = TRUE
    /\ faults     = 0
    /\ spent      = [registrations |-> 0, starts |-> 0]

\* Not ended and not superseded: a lapsed lease is recoverable.
Standing(s) == reg[s].state = "open" /\ ~reg[s].superseded
Live(s)     == Standing(s) /\ ~reg[s].lapsed

Newer(t, s) == Standing(t) /\ reg[t].at > reg[s].at

-----------------------------------------------------------------------------
(* The store's registrations. *)

\* Store.RegisterSession, by a SessionStart hook or by the monitor itself.  The
\* clock is read before the transaction: registrations may commit out of order.
RegisterSession(s) ==
    /\ spent.registrations < MaxRegistrations
    /\ spent' = [spent EXCEPT !.registrations = @ + 1]
    /\ \E at \in 1 .. MaxRegistrations :
          /\ \A t \in Sessions \ {s} : reg[t].at # at
          /\ reg' = [reg EXCEPT ![s] = [state |-> "open", superseded |-> FALSE, lapsed |-> FALSE, at |-> at]]
    /\ UNCHANGED <<broker, call, attaching, cancelling, monitor, outbox, unread, faults>>

\* Store.HeartbeatRegistrations: only the newest registration of the run.
HeartbeatRegistrations(s) ==
    /\ \A t \in Sessions : reg[t].at <= reg[s].at
    /\ Standing(s) /\ reg[s].lapsed
    /\ reg' = [reg EXCEPT ![s].lapsed = FALSE]
    /\ UNCHANGED <<broker, call, attaching, cancelling, monitor, outbox, unread, faults, spent>>

RegistrationLapses(s) ==
    /\ s \in Lapsing /\ Live(s)
    /\ reg' = [reg EXCEPT ![s].lapsed = TRUE]
    /\ UNCHANGED <<broker, call, attaching, cancelling, monitor, outbox, unread, faults, spent>>

-----------------------------------------------------------------------------
(* monitor_attach: the store first, then the broker. *)

\* Store.AttachMonitor: an older registration is refused and superseded, the
\* newest supersedes the others and renews its lease.
AttachMonitor(s) ==
    /\ monitor[s].pc = "attach"
    /\ reg[s].state # "none"
    /\ \/ /\ reg[s].state = "ended"
          /\ monitor' = [monitor EXCEPT ![s].pc = "ended"]
          /\ UNCHANGED <<reg, attaching>>
       \/ /\ reg[s].state = "open" /\ reg[s].superseded
          /\ monitor' = [monitor EXCEPT ![s].pc = "superseded"]
          /\ UNCHANGED <<reg, attaching>>
       \/ /\ Standing(s) /\ \E t \in Sessions : Newer(t, s)
          /\ reg' = [reg EXCEPT ![s].superseded = TRUE]
          /\ monitor' = [monitor EXCEPT ![s].pc = "superseded"]
          /\ UNCHANGED attaching
       \/ /\ Standing(s) /\ ~\E t \in Sessions : Newer(t, s)
          /\ reg' = [t \in Sessions |-> IF t = s THEN [reg[s] EXCEPT !.lapsed = FALSE]
                                        ELSE IF Standing(t) THEN [reg[t] EXCEPT !.superseded = TRUE]
                                        ELSE reg[t]]
          /\ attaching' = attaching \cup {<<s, TRUE>>}
          /\ monitor' = [monitor EXCEPT ![s].pc = "attaching"]
    /\ UNCHANGED <<broker, call, cancelling, outbox, unread, faults, spent>>

\* Store.RearmAcceptedNotifications, the callback of a presence transition.
Rearmed(j) == IF j.state # "accepted" THEN j
              ELSE [j EXCEPT !.state = IF j.attempt >= MaxAttempts THEN "done" ELSE "pending"]

\* The monitor that reads the reply looks into the inbox unless it has done so
\* since it was last reset.
AttachReplied(s, heard) ==
    IF heard THEN [monitor EXCEPT ![s].pc = IF monitor[s].reconciled THEN "wait" ELSE "inbox"]
             ELSE monitor

\* Variant of Attach: the previous presence keeps its waiter.
Attach_keepsPreviousWaiter(s, heard) ==
    /\ <<s, heard>> \in attaching
    /\ attaching' = attaching \ {<<s, heard>>}
    /\ current' = s
    /\ job' = IF current = s THEN job ELSE Rearmed(job)
    /\ monitor' = AttachReplied(s, heard)
    /\ UNCHANGED <<reg, waiter, sends, call, cancelling, worker, unread, faults, spent>>

\* Broker.Attach: a transition re-arms accepted wakes and releases the waiter
\* of the presence it replaces; the outcome is sent after the unlock.
Attach(s, heard) ==
    /\ <<s, heard>> \in attaching
    /\ attaching' = attaching \ {<<s, heard>>}
    /\ current' = s
    /\ IF current = s THEN UNCHANGED <<job, waiter, sends>>
       ELSE /\ job' = Rearmed(job)
            /\ IF current # None /\ waiter[current] # None
               THEN /\ waiter' = [waiter EXCEPT ![current] = None]
                    /\ sends'  = sends \cup {<<waiter[current], "superseded">>}
               ELSE UNCHANGED <<waiter, sends>>
    /\ monitor' = AttachReplied(s, heard)
    /\ UNCHANGED <<reg, call, cancelling, worker, unread, faults, spent>>

\* The connection is gone, so the transition's transaction fails with its
\* context and the broker changes nothing.
AttachFails(s) ==
    /\ <<s, FALSE>> \in attaching
    /\ current # s
    /\ attaching' = attaching \ {<<s, FALSE>>}
    /\ UNCHANGED <<reg, broker, call, cancelling, monitor, outbox, unread, faults, spent>>

\* The deferred, non-blocking send of Attach and Cancel.
SendOutcome(c, outcome) ==
    /\ <<c, outcome>> \in sends
    /\ sends' = sends \ {<<c, outcome>>}
    /\ call' = [call EXCEPT ![c].box = IF call[c].pc # "free" /\ @ = "empty" THEN outcome ELSE @]
    /\ UNCHANGED <<reg, current, waiter, attaching, cancelling, monitor, outbox, unread, faults, spent>>

-----------------------------------------------------------------------------
(* expire_registration: the store first, then the broker. *)

ExpireRegistration(s) ==
    /\ s \notin cancelling
    /\ reg[s].state = "open"
    /\ reg' = [reg EXCEPT ![s].state = "ended", ![s].lapsed = TRUE]
    /\ cancelling' = cancelling \cup {s}
    /\ UNCHANGED <<broker, call, attaching, monitor, outbox, unread, faults, spent>>

\* Broker.Cancel
Cancel(s) ==
    /\ s \in cancelling
    /\ cancelling' = cancelling \ {s}
    /\ current' = IF current = s THEN None ELSE current
    /\ waiter' = [waiter EXCEPT ![s] = None]
    /\ sends' = IF waiter[s] = None THEN sends ELSE sends \cup {<<waiter[s], "ended">>}
    /\ UNCHANGED <<reg, call, attaching, monitor, outbox, unread, faults, spent>>

-----------------------------------------------------------------------------
(* wait_attention: Broker.Wait. *)

\* A reply to a monitor that waits for it: it wakes the harness unless this
\* message already woke it in this continuation chain, stops, or loops.
Heard(mon, result) ==
    CASE result = "notice" /\ ~mon.seen -> [mon EXCEPT !.pc = "woke", !.seen = TRUE]
      [] result \in {"superseded", "ended"} -> [mon EXCEPT !.pc = result]
      [] OTHER -> [mon EXCEPT !.pc = "attach"]

\* Wait up to the point where it parks, or returns at once.
Wait(s, c) ==
    /\ monitor[s].pc = "wait"
    /\ call[c].pc = "free" /\ ~\E outcome \in {"superseded", "ended"} : <<c, outcome>> \in sends
    /\ IF current = s /\ waiter[s] = None
       THEN /\ waiter'  = [waiter EXCEPT ![s] = c]
            /\ call'    = [call EXCEPT ![c] = [pc |-> "parked", session |-> s, client |-> TRUE, box |-> "empty"]]
            /\ monitor' = [monitor EXCEPT ![s].pc = "parked"]
       ELSE /\ monitor' = [monitor EXCEPT ![s] =
                  Heard(@, IF current \notin {s, None} THEN "superseded" ELSE "retry")]
            /\ UNCHANGED <<waiter, call>>
    /\ UNCHANGED <<reg, current, sends, attaching, cancelling, outbox, unread, faults, spent>>

\* select: the result arm, or the ctx.Done arm even when a result is there too.
Receive(c) ==
    /\ call[c].pc = "parked" /\ call[c].box # "empty"
    /\ call' = [call EXCEPT ![c].pc = "received"]
    /\ UNCHANGED <<reg, broker, attaching, cancelling, monitor, outbox, unread, faults, spent>>

ContextDone(c) ==
    /\ call[c].pc = "parked"
    /\ call' = [call EXCEPT ![c].pc = "leaving"]
    /\ UNCHANGED <<reg, broker, attaching, cancelling, monitor, outbox, unread, faults, spent>>

\* Variant of removed: whoever leaves removes the session's entry.
removed_anyEntry(c) == [waiter EXCEPT ![call[c].session] = None]

\* remove(): only this call's own entry.
removed(c) == [waiter EXCEPT ![call[c].session] = IF @ = c THEN None ELSE @]

\* The monitor's view when call c returns result.
Replied(c, result) ==
    /\ monitor' = IF call[c].client
                  THEN [monitor EXCEPT ![call[c].session] = Heard(@, result)] ELSE monitor
    /\ call'    = [call EXCEPT ![c] = FreeCall]

ReturnReceived(c) ==
    /\ call[c].pc = "received"
    /\ waiter' = removed(c)
    /\ Replied(c, call[c].box)
    /\ UNCHANGED <<reg, current, sends, attaching, cancelling, outbox, unread, faults, spent>>

Leave(c) ==
    /\ call[c].pc = "leaving"
    /\ waiter' = removed(c)
    /\ call' = [call EXCEPT ![c].pc = "left"]
    /\ UNCHANGED <<reg, current, sends, attaching, cancelling, monitor, outbox, unread, faults, spent>>

\* Variant of lastLook: a call whose context ended reports the timeout.
lastLook_timeout(box) == "timeout"

\* "Prefer that accepted delivery over reporting a timeout."
lastLook(box) == IF box = "empty" THEN "timeout" ELSE box

ReturnLeft(c) ==
    /\ call[c].pc = "left"
    /\ Replied(c, lastLook(call[c].box))
    /\ UNCHANGED <<reg, broker, attaching, cancelling, outbox, unread, faults, spent>>

-----------------------------------------------------------------------------
(* The monitor process. *)

\* A hook starts the monitor; a Stop-hook continuation keeps the remembered
\* wakes.  The monitor lock admits one process per session.
MonitorStarts(s, continuing) ==
    /\ monitor[s].pc \in Stopped
    /\ spent.starts < MaxStarts
    /\ spent' = [spent EXCEPT !.starts = @ + 1]
    /\ monitor' = [monitor EXCEPT ![s] = [pc |-> "attach", reconciled |-> FALSE,
                                          seen |-> continuing /\ monitor[s].seen]]
    /\ UNCHANGED <<reg, broker, call, attaching, cancelling, outbox, unread, faults>>

\* CheckInbox after the first attach since the monitor was reset.
ReconcileInbox(s) ==
    /\ monitor[s].pc = "inbox"
    /\ LET surface == unread /\ job.state # "none" /\ ~monitor[s].seen
       IN  monitor' = [monitor EXCEPT ![s] = [pc |-> IF surface THEN "woke" ELSE "wait",
                                              reconciled |-> TRUE, seen |-> surface \/ @.seen]]
    /\ UNCHANGED <<reg, broker, call, attaching, cancelling, outbox, unread, faults, spent>>

\* Nobody reads the replies of the session's handlers any more.
deserted(s) == IF <<s, TRUE>> \in attaching THEN (attaching \ {<<s, TRUE>>}) \cup {<<s, FALSE>>}
                                            ELSE attaching
hungUp(s) == [c \in Calls |-> IF call[c].session = s THEN [call[c] EXCEPT !.client = FALSE] ELSE call[c]]

\* Variant of reset: the inbox is not read again after the next attach.
reset_keepsReconciled(mon) == [mon EXCEPT !.pc = "attach"]

\* resetClient and reconciledInbox = false
reset(mon) == [mon EXCEPT !.pc = "attach", !.reconciled = FALSE]

\* Client.call reconnects and repeats monitor_attach and check_inbox by itself:
\* the loop does not learn that the connection was lost, and resets nothing.
repeats(mon)  == mon.pc \in {"attach", "attaching", "inbox"}
repeated(mon) == [mon EXCEPT !.pc = IF @ = "inbox" THEN @ ELSE "attach"]

\* A handler outlives the connection it was called on (fdliveness.Watch).  The
\* loop is reset when a wait fails, or when the reconnection or the repeat does.
ConnectionBreaks(s) ==
    /\ monitor[s].pc \in Running
    /\ faults < MaxFaults /\ faults' = faults + 1
    /\ \/ monitor' = [monitor EXCEPT ![s] = reset(@)]
       \/ repeats(monitor[s]) /\ monitor' = [monitor EXCEPT ![s] = repeated(@)]
    /\ call' = hungUp(s) /\ attaching' = deserted(s)
    /\ UNCHANGED <<reg, broker, cancelling, outbox, unread, spent>>

\* The harness closes the result channel.
MonitorDies(s) ==
    /\ monitor[s].pc \in Running
    /\ monitor' = [monitor EXCEPT ![s].pc = "off"]
    /\ call' = hungUp(s) /\ attaching' = deserted(s)
    /\ UNCHANGED <<reg, broker, cancelling, outbox, unread, faults, spent>>

-----------------------------------------------------------------------------
(* The job, the worker and the recipient. *)

SendMessage ==
    /\ job.state = "none"
    /\ job' = [state |-> "pending", attempt |-> 0]
    /\ UNCHANGED <<reg, broker, call, attaching, cancelling, monitor, worker, unread, faults, spent>>

ClaimMessage ==
    /\ unread /\ job.state # "none"
    /\ unread' = FALSE
    /\ job' = [job EXCEPT !.state = "done"]
    /\ UNCHANGED <<reg, broker, call, attaching, cancelling, monitor, worker, faults, spent>>

\* A job left processing by a crash is taken again once its 30s have passed.
TakeJob ==
    /\ worker.pc = "idle"
    /\ job.state \in {"pending", "processing"}
    /\ job' = [state |-> "processing",
               attempt |-> IF job.attempt < MaxAttempts THEN job.attempt + 1 ELSE MaxAttempts]
    /\ worker' = [Idle EXCEPT !.pc = "lookup"]
    /\ UNCHANGED <<reg, broker, call, attaching, cancelling, monitor, unread, faults, spent>>

\* Store.LiveRegistrations; Runtime.Notify keeps the newest one of the run.
LiveRegistrations ==
    /\ worker.pc = "lookup"
    /\ IF \E s \in Sessions : Live(s)
       THEN \E s \in Sessions :
               /\ Live(s) /\ \A t \in Sessions : Live(t) => reg[t].at <= reg[s].at
               /\ worker' = [worker EXCEPT !.pc = "notify", !.target = s]
       ELSE worker' = [worker EXCEPT !.pc = "finish"]
    /\ UNCHANGED <<reg, broker, call, attaching, cancelling, monitor, job, unread, faults, spent>>

\* Broker.Notify: acceptance consumes the parked wait.
Notify ==
    /\ worker.pc = "notify"
    /\ LET s == worker.target  c == waiter[s]
           ok == current = s /\ c # None /\ call[c].box = "empty"
       IN  /\ call'   = IF ok THEN [call EXCEPT ![c].box = "notice"] ELSE call
           /\ waiter' = IF ok THEN [waiter EXCEPT ![s] = None] ELSE waiter
           /\ worker' = [worker EXCEPT !.pc = "finish", !.accepted = ok]
    /\ UNCHANGED <<reg, current, sends, attaching, cancelling, monitor, job, unread, faults, spent>>

\* Store.FinishNotification
FinishNotification ==
    /\ worker.pc = "finish"
    /\ worker' = Idle
    /\ job' = IF job.state # "processing" THEN job
              ELSE [job EXCEPT !.state = IF worker.accepted THEN "accepted"
                                         ELSE IF job.attempt < MaxAttempts THEN "pending" ELSE "done"]
    /\ UNCHANGED <<reg, broker, call, attaching, cancelling, monitor, unread, faults, spent>>

\* The daemon dies and restarts: the broker has no durable state, and a monitor
\* learns of it like of any lost connection, or not at all when its repeated
\* call finds the new daemon.
Crash ==
    /\ faults < MaxFaults /\ faults' = faults + 1
    /\ current' = None
    /\ waiter' = [s \in Sessions |-> None]
    /\ call' = [c \in Calls |-> FreeCall]
    /\ sends' = {} /\ attaching' = {} /\ cancelling' = {}
    /\ worker' = Idle
    /\ \E unaware \in SUBSET {s \in Sessions : repeats(monitor[s])} :
          monitor' = [s \in Sessions |-> IF s \in unaware THEN repeated(monitor[s])
                                         ELSE IF monitor[s].pc \in Running THEN reset(monitor[s])
                                         ELSE monitor[s]]
    /\ UNCHANGED <<reg, job, unread, spent>>

-----------------------------------------------------------------------------
AttachStep(s) == AttachFails(s) \/ \E heard \in BOOLEAN : Attach(s, heard)

MonitorStep(s) == AttachMonitor(s) \/ ReconcileInbox(s) \/ \E c \in Calls : Wait(s, c)

CallStep(c) == Receive(c) \/ ReturnReceived(c) \/ Leave(c) \/ ReturnLeft(c)

WorkerStep == TakeJob \/ LiveRegistrations \/ Notify \/ FinishNotification

Next ==
    \/ \E s \in Sessions :
          \/ RegisterSession(s) \/ HeartbeatRegistrations(s) \/ RegistrationLapses(s)
          \/ AttachStep(s) \/ ExpireRegistration(s) \/ Cancel(s)
          \/ MonitorStep(s) \/ ConnectionBreaks(s) \/ MonitorDies(s)
          \/ \E continuing \in BOOLEAN : MonitorStarts(s, continuing)
    \/ \E c \in Calls : CallStep(c) \/ ContextDone(c)
    \/ \E c \in Calls, outcome \in {"superseded", "ended"} : SendOutcome(c, outcome)
    \/ WorkerStep
    \/ SendMessage \/ ClaimMessage \/ Crash

Spec == Init /\ [][Next]_vars

\* Handlers, the worker and a running monitor's loop keep going, and a wait
\* ends after at most 25 seconds.  Nothing is assumed of hooks, harness or agent.
Fairness ==
    /\ WF_vars(WorkerStep)
    /\ \A s \in Sessions : WF_vars(MonitorStep(s)) /\ WF_vars(AttachStep(s)) /\ WF_vars(Cancel(s))
    /\ \A c \in Calls : WF_vars(CallStep(c)) /\ WF_vars(ContextDone(c))
    /\ \A c \in Calls, outcome \in {"superseded", "ended"} : WF_vars(SendOutcome(c, outcome))

FairSpec == Spec /\ Fairness

-----------------------------------------------------------------------------
(* Properties. *)

\* A parked wait is never stranded: it is registered for the current presence, or
\* its result is in its channel or about to be sent, though attach, expiry and wait
\* handlers of different sessions run at once (Broker.Attach, Cancel, Wait).
NoStrandedWait ==
    \A c \in Calls : call[c].pc = "parked" =>
        \/ waiter[call[c].session] = c /\ current = call[c].session
        \/ call[c].box # "empty"
        \/ \E outcome \in {"superseded", "ended"} : <<c, outcome>> \in sends

\* A notice that Notify reported as accepted reaches the monitor that still
\* reads the call's reply, even when the wait timed out at the same moment; it
\* wakes the harness unless this continuation chain was already woken for it.
AcceptedNoticeIsHeard ==
    [][\A c \in Calls :
          LET s == call[c].session IN
          call[c].box = "notice" /\ call[c].client /\ call'[c].pc = "free"
              => monitor'[s].seen \/ faults' # faults]_vars

\* What a call looks like to the abstract specification Handoff.
handoff(c) ==
    CASE call[c].pc = "free"      -> [phase |-> "out", word |-> "none"]
      [] call[c].pc # "free" /\ call[c].box # "empty" -> [phase |-> "told", word |-> call[c].box]
      [] OTHER ->
            IF waiter[call[c].session] = c THEN [phase |-> "offered", word |-> "none"]
            ELSE IF <<c, "superseded">> \in sends THEN [phase |-> "dismissed", word |-> "superseded"]
            ELSE IF <<c, "ended">> \in sends THEN [phase |-> "dismissed", word |-> "ended"]
            ELSE [phase |-> "gone", word |-> "none"]

hands == [c \in Calls |-> handoff(c)]

Broker == INSTANCE Handoff WITH
            Waits      <- Calls,
            Dismissals <- {"superseded", "ended"},
            wait       <- hands

\* Whatever handlers of several sessions attach, wait, expire and leave at once,
\* at most one wait can be handed a notice, none is told two things, and none
\* that was dismissed is handed a notice (the sends after the unlock never find
\* a channel in use).
WaitsAreHandedOff == Broker!Spec

\* A notice accepted for a monitor that still reads the reply is not lost: the
\* monitor surfaces the message, even when the connection or the daemon breaks
\* before the reply is read and the broker forgets that it handed the notice over.
\* A lost connection that Client.call hides may not skip the inbox then: a failed
\* wait resets reconciledInbox, and the repeated attach keeps it reset.
AcceptedNoticeSurfaces ==
    \A s \in Sessions :
        (/\ unread
         /\ \E c \in Calls : call[c].session = s /\ call[c].client /\ call[c].box = "notice")
            ~> (monitor[s].seen \/ ~unread \/ monitor[s].pc \in Stopped)
=============================================================================
