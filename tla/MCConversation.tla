--------------------------- MODULE MCConversation ---------------------------
(***************************************************************************)
(* Small instances of Conversation for TLC.  A behaviour plays one         *)
(* scenario: all kinds of calls together have too many states.             *)
(***************************************************************************)
EXTENDS Conversation

CONSTANTS a, b, h, k, p, q, n    \* agents a and b, a human, idempotency keys

VARIABLE scenario

Create(actor, kind, members, key) == [actor |-> actor, kind |-> kind, members |-> members, key |-> key]

Draft(from, c, key) ==
    [from |-> from, channel |-> c, key |-> key, attention |-> {}, respondent |-> None,
     answers |-> 0, parent |-> 0, source |-> 0]

\* a opens a named channel for itself and b, or one for itself and the human.
Pair  == Create(a, "named", {a, b}, k)
Group == Create(a, "named", {a, b, h}, k)

\* Members come and go while posts, claims and answers are under way.
MemberDrafts == {Draft(a, 1, p), Draft(b, 1, p), [Draft(a, 1, q) EXCEPT !.parent = 1]}

\* A question to b and to the human, its answers, and a second answer.
AskDrafts ==
    {[Draft(a, 1, p) EXCEPT !.respondent = b], [Draft(b, 1, p) EXCEPT !.answers = 1],
     [Draft(b, 1, q) EXCEPT !.answers = 1, !.parent = 1], [Draft(b, 1, n) EXCEPT !.respondent = a]}

\* A message that wakes b, who is removed and admitted again meanwhile.
WakeDrafts == {[Draft(a, 1, p) EXCEPT !.attention = {b}]}

\* Two authors write while supervisors change.
ObservedDrafts == {Draft(a, 1, p), Draft(b, 1, q)}

\* From the pair's channel into a direct channel, a new named one or itself.
Intent(kind, members, into) ==
    [actor |-> a, source |-> 1, kind |-> kind, members |-> members, into |-> into,
     attention |-> {}, respondent |-> None]

SideIntents ==
    {Intent("dm", {a, b}, {}), Intent("named", {a, b, h}, {}), Intent("into", {}, {1})}

\* The source, and a post that one of the commits repeats.
SideDrafts == {Draft(b, 1, p), [Draft(a, 1, n) EXCEPT !.source = 1]}

AllCreations == {Pair, Group, Create(a, "dm", {a, b}, p), Create(b, "dm", {a, b}, p), Create(a, "dm", {a, b}, q)}
AllDrafts    == SideDrafts \cup MemberDrafts \cup AskDrafts \cup WakeDrafts \cup ObservedDrafts

Membership == INSTANCE Conversation WITH
    Creations <- {Pair}, Drafts <- MemberDrafts, Intents <- {}, Admissible <- {b},
    Supervised <- {}, Calls <- {"claim"}
Asking == INSTANCE Conversation WITH
    Creations <- {Group}, Drafts <- AskDrafts, Intents <- {}, Admissible <- {b},
    Supervised <- {}, Calls <- {"enroll"}
Waking == INSTANCE Conversation WITH
    Creations <- {Pair}, Drafts <- WakeDrafts, Intents <- {}, Admissible <- {b},
    Supervised <- {}, Calls <- {"claim", "attend"}
Observing == INSTANCE Conversation WITH
    Creations <- {Pair, Group, Create(a, "dm", {a, b}, p)}, Drafts <- ObservedDrafts,
    Intents <- {}, Admissible <- {b}, Supervised <- {b}, Calls <- {"enroll", "adopt", "archive"}
Continuing == INSTANCE Conversation WITH
    Creations <- {Pair, Create(b, "dm", {a, b}, p)}, Drafts <- SideDrafts,
    Intents <- SideIntents, Admissible <- {h}, Supervised <- {b}, Calls <- {"enroll"}, MaxRevision <- 2

Scenarios == {"membership", "asking", "waking", "observing", "continuing"}

MCInit == Init /\ scenario \in Scenarios

Play(name, Step) == scenario = name /\ Step /\ UNCHANGED scenario

MCNext ==
    \/ Play("membership", Membership!Next)
    \/ Play("asking", Asking!Next)
    \/ Play("waking", Waking!Next)
    \/ Play("observing", Observing!Next)
    \/ Play("continuing", Continuing!Next)

MCSpec == MCInit /\ [][MCNext]_<<vars, scenario>>
=============================================================================
