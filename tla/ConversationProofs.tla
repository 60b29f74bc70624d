-------------------------- MODULE ConversationProofs --------------------------
(***************************************************************************)
(* Who reads, owes and answers what in the channels, for any actors,       *)
(* channels, messages and requests.                                        *)
(***************************************************************************)
EXTENDS Conversation, TLAPS

-----------------------------------------------------------------------------
(* The invariant: channels, grants and links. *)

Channel == [kind : {"none", "dm", "named"}, creator : Actors \cup {None}, revision : Nat, next : Nat \ {0}]
Grant   == [channel : Channels, actor : Actors, source : Agents \cup {Member}, floor : Nat]

AudienceType ==
    /\ channel  \in [Channels -> Channel]
    /\ grant    \subseteq Grant
    /\ link     \in [Agents -> [human : Humans \cup {None}, revision : Nat]]
    /\ enrolled \subseteq Humans
    /\ archived \subseteq Agents

\* No grant begins in the future, none is for a channel that is yet to come.
GrantsAreOld == \A g \in grant : Known(g.channel) /\ g.floor <= channel[g.channel].next

\* A reading grant is the current supervisor's of a participant, ...
ReadersSupervise ==
    \A g \in grant : g.source # Member =>
        /\ g.source \in Agents \cap Participants(g.channel)
        /\ g.actor = link[g.source].human /\ g.actor # None

\* ... and every such supervisor has one.
SupervisorsRead ==
    \A c \in Channels, a \in Agents : a \in Participants(c) /\ link[a].human # None =>
        \E g \in grant : g.channel = c /\ g.source = a /\ g.actor = link[a].human

\* What was shown under the current revision is the current membership.
AudienceIsCurrent ==
    \A seen \in audience :
        /\ seen.channel \in Channels /\ seen.revision \in Nat /\ Known(seen.channel)
        /\ seen.revision <= channel[seen.channel].revision
        /\ seen.revision = channel[seen.channel].revision => seen.members = Participants(seen.channel)

AudienceInv ==
    /\ AudienceType /\ GrantsAreOld /\ ReadersSupervise /\ SupervisorsRead /\ AudienceIsCurrent
    /\ ArchivedIsNoParticipant

-----------------------------------------------------------------------------
(* The invariant: messages and what they wait for. *)

Draft   == Drafts \cup {continuation(t, c, key) : t \in Intents, c \in Channels, key \in CommitKeys}
Request == [draft : Draft, revision : Nat]
Row     == [state : {"none", "queued", "claimed", "acked", "dead", "revoked"},
            attempt : Nat, token : Nat, terminal : Nat, lease : {"none", "running", "lapsed"}]
Job     == [state : {"none", "pending", "processing", "accepted", "done"}, attempt : Nat, due : BOOLEAN]
Asking  == [state : {"none", "open", "answered", "declined", "withdrawn", "revoked"}, answer : Messages \cup {0}]

MessageType ==
    /\ message  \in [Messages -> [request : Request \cup {None}, seq : Nat, thread : Messages \cup {0}]]
    /\ \A m \in Messages : Posted(m) => message[m].request \in Request
    /\ delivery \in [Messages -> [Actors -> Row]]
    /\ job      \in [Messages -> [Actors -> Job]]
    /\ response \in [Messages -> Asking]
    /\ \A t \in preview : /\ t.intent \in Intents /\ t.destination \in Channels \cup {0}
                          /\ t.destination = 0 => t.intent.kind # "into"

\* A message's number and revision are its channel's at some time in the past.
MessagesAreNumbered ==
    \A m \in Messages : Posted(m) =>
        /\ Known(Home(m)) /\ message[m].seq < channel[Home(m)].next
        /\ message[m].request.revision <= channel[Home(m)].revision

\* While the revision stands, a message has a row for every participant.
RowsAreCurrent ==
    \A m \in Messages : Posted(m) /\ message[m].request.revision = channel[Home(m)].revision =>
        Participants(Home(m)) = {Author(m)} \cup {a \in Actors : delivery[m][a].state # "none"}

Pends(m, a) ==
    \/ Unsettled(delivery[m][a])
    \/ OpenJob(job[m][a])
    \/ response[m].state = "open" /\ message[m].request.draft.respondent = a

OwedToMembers == \A m \in Messages, a \in Actors : Pends(m, a) => Posted(m) /\ Entitled(a, m)

\* x answers q.
Answers(x, q) == Posted(x) /\ message[x].request.draft.answers = q

OnlyTheAnsweredIsAnswered ==
    \A q, x \in Messages : Answers(x, q) => response[q].state = "answered" /\ response[q].answer = x

AnsweredByRespondent ==
    \A q \in Messages : response[q].state = "answered" =>
        \E x \in Messages :
            /\ response[q].answer = x /\ Posted(q) /\ Answers(x, q)
            /\ Author(x) = message[q].request.draft.respondent
            /\ message[x].thread = message[q].thread

MessageInv ==
    /\ MessageType /\ MessagesAreNumbered /\ RowsAreCurrent /\ OwedToMembers
    /\ OnlyTheAnsweredIsAnswered /\ AnsweredByRespondent /\ PostReachesShownAudience

ConversationInv == AudienceInv /\ MessageInv

-----------------------------------------------------------------------------
(* Steps of the audience. *)

\* Channels move on, memberships only with their revision; what is newly shown
\* is what is so; a new grant does not reach back.
Moves ==
    /\ \A c \in Channels : Known(c) =>
          /\ channel'[c].kind # "none"
          /\ channel'[c].next >= channel[c].next /\ channel'[c].revision >= channel[c].revision
          /\ channel'[c].revision = channel[c].revision => membersOf(grant', c) = membersOf(grant, c)
    /\ \A seen \in audience' \ audience :
          /\ seen.channel \in Channels /\ channel'[seen.channel].kind # "none"
          /\ seen.revision = channel'[seen.channel].revision
          /\ seen.members = membersOf(grant', seen.channel)
    /\ \A g \in grant' \ grant : ~Known(g.channel) \/ g.floor >= channel[g.channel].next

KeepsMembers == \A g \in grant : g.source = Member => g \in grant'

LEMMA MembersOf ==
    ASSUME NEW grants, NEW c, NEW a
    PROVE  a \in membersOf(grants, c) <=> \E g \in grants : g.channel = c /\ g.source = Member /\ g.actor = a
BY DEF membersOf

LEMMA ShownIsSo ==
    ASSUME RecordAudience
    PROVE  \A seen \in audience' \ audience :
              /\ seen.channel \in Channels /\ channel'[seen.channel].kind # "none"
              /\ seen.revision = channel'[seen.channel].revision
              /\ seen.members = membersOf(grant', seen.channel)
BY DEF RecordAudience

LEMMA CurrentStays ==
    ASSUME AudienceInv, AudienceType', Moves
    PROVE  AudienceIsCurrent'
<1> SUFFICES ASSUME NEW seen \in audience'
             PROVE  /\ seen.channel \in Channels /\ seen.revision \in Nat
                    /\ channel'[seen.channel].kind # "none"
                    /\ seen.revision <= channel'[seen.channel].revision
                    /\ seen.revision = channel'[seen.channel].revision =>
                          seen.members = membersOf(grant', seen.channel)
  BY DEF AudienceIsCurrent, Known, Participants
<1>1. \A c \in Channels : channel[c].revision \in Nat /\ channel'[c].revision \in Nat
  BY DEF AudienceInv, AudienceType, Channel
<1>2. CASE seen \notin audience
  BY <1>1, <1>2 DEF Moves
<1>3. CASE seen \in audience
  <2>1. /\ seen.channel \in Channels /\ seen.revision \in Nat /\ Known(seen.channel)
        /\ seen.revision <= channel[seen.channel].revision
        /\ seen.revision = channel[seen.channel].revision => seen.members = membersOf(grant, seen.channel)
    BY <1>3 DEF AudienceInv, AudienceIsCurrent, Participants
  <2> QED  BY <1>1, <2>1 DEF Moves
<1> QED  BY <1>2, <1>3

\* A participant's grant and its supervisor's.
LEMMA GrantsForMember ==
    ASSUME AudienceInv, NEW c \in Channels, NEW a \in Actors, NEW floor \in Nat
    PROVE  /\ GrantsFor(c, a, floor) \subseteq Grant
           /\ \E g \in GrantsFor(c, a, floor) : g.channel = c /\ g.source = Member /\ g.actor = a
           /\ \A g \in GrantsFor(c, a, floor) :
                 /\ g.channel = c /\ g.floor = floor
                 /\ \/ g.source = Member /\ g.actor = a
                    \/ /\ g.source = a /\ a \in Agents /\ g.source # Member
                       /\ g.actor = link[a].human /\ g.actor \in Humans
           /\ a \in Agents /\ link[a].human # None =>
                 \E g \in GrantsFor(c, a, floor) : g.channel = c /\ g.source = a /\ g.actor = link[a].human
<1>1. a \in Agents => link[a].human \in Humans \cup {None} /\ a # Member
  BY MemberIsNobody DEF AudienceInv, AudienceType, Actors
<1>2. Humans \subseteq Actors
  BY DEF Actors
<1> DEFINE own     == [channel |-> c, actor |-> a, source |-> Member, floor |-> floor]
           reading == [channel |-> c, actor |-> link[a].human, source |-> a, floor |-> floor]
<1>3. GrantsFor(c, a, floor) = {own} \cup IF a \in Agents /\ link[a].human # None THEN {reading} ELSE {}
  BY DEF GrantsFor
<1>4. own \in Grant /\ own.channel = c /\ own.source = Member /\ own.actor = a /\ own.floor = floor
  BY DEF Grant
<1>5. a \in Agents /\ link[a].human # None =>
          /\ reading \in Grant /\ reading.channel = c /\ reading.source = a /\ reading.actor = link[a].human
          /\ reading.floor = floor
  BY <1>1, <1>2 DEF Grant
<1> HIDE DEF own, reading
<1> QED  BY <1>1, <1>3, <1>4, <1>5

\* createChannelTx
LEMMA OpeningKeeps ==
    ASSUME AudienceInv, NEW c \in Channels, NEW members \in SUBSET Actors, ~Known(c),
           \A a \in members : Joinable(a), grant' = grant \cup UNION {GrantsFor(c, a, 0) : a \in members},
           NEW new \in Channel, new.kind # "none",
           channel' = [channel EXCEPT ![c] = new], RecordAudience, UNCHANGED people
    PROVE  /\ AudienceInv' /\ Moves /\ KeepsMembers
           /\ \A g \in grant' \ grant : g.channel = c /\ g.floor = 0
           /\ \A g \in grant : g.channel # c
           /\ membersOf(grant', c) = members
<1> USE DEF AudienceInv
<1> DEFINE added == UNION {GrantsFor(c, a, 0) : a \in members}
<1>1. ~Known(c) /\ grant' = grant \cup added /\ \A a \in members : Joinable(a)
  OBVIOUS
<1>2. UNCHANGED <<link, enrolled, adopted, archived>>
  BY DEF people
<1>3. channel \in [Channels -> Channel] /\ channel' \in [Channels -> Channel] /\ channel'[c] = new
      /\ \A d \in Channels \ {c} : channel'[d] = channel[d]
  BY DEF AudienceType
<1>4. ASSUME NEW g \in added
      PROVE  \E a \in members : g \in GrantsFor(c, a, 0)
  OBVIOUS
<1>5. \A a \in members : GrantsFor(c, a, 0) \subseteq added
  OBVIOUS
<1> HIDE DEF added
<1>6. ASSUME NEW g \in added
      PROVE  /\ g \in Grant /\ g.channel = c /\ g.floor = 0
             /\ \E a \in members :
                   \/ g.source = Member /\ g.actor = a
                   \/ /\ g.source = a /\ a \in Agents /\ g.source # Member
                      /\ g.actor = link[a].human /\ g.actor \in Humans
  <2>1. PICK a \in members : g \in GrantsFor(c, a, 0)
    BY <1>4
  <2>2. /\ GrantsFor(c, a, 0) \subseteq Grant
        /\ \A x \in GrantsFor(c, a, 0) :
              /\ x.channel = c /\ x.floor = 0
              /\ \/ x.source = Member /\ x.actor = a
                 \/ /\ x.source = a /\ a \in Agents /\ x.source # Member
                    /\ x.actor = link[a].human /\ x.actor \in Humans
    BY GrantsForMember
  <2> QED  BY <2>1, <2>2
<1>7. ASSUME NEW a \in members
      PROVE  /\ \E g \in added : g.channel = c /\ g.source = Member /\ g.actor = a
             /\ a \in Agents /\ link[a].human # None =>
                   \E g \in added : g.channel = c /\ g.source = a /\ g.actor = link[a].human
  BY <1>5, GrantsForMember
<1>8. \A g \in grant : g.channel # c /\ g.channel \in Channels /\ Known(g.channel)
  BY <1>1 DEF AudienceType, GrantsAreOld, Grant
<1>10. membersOf(grant', c) = members
  <2>1. ASSUME NEW a \in membersOf(grant', c) PROVE a \in members
    <3>1. PICK g \in grant' : g.channel = c /\ g.source = Member /\ g.actor = a
      BY MembersOf
    <3>2. g \in added
      BY <1>1, <1>8, <3>1
    <3> QED  BY <1>6, <3>1, <3>2
  <2>2. ASSUME NEW a \in members PROVE a \in membersOf(grant', c)
    BY <1>1, <1>7, MembersOf
  <2> QED  BY <2>1, <2>2
<1>11. \A d \in Channels \ {c} : membersOf(grant', d) = membersOf(grant, d)
  <2> SUFFICES ASSUME NEW d \in Channels \ {c}, NEW a
               PROVE  a \in membersOf(grant', d) <=> a \in membersOf(grant, d)
    OBVIOUS
  <2> QED  BY <1>1, <1>6, MembersOf
<1>12. AudienceType'
  BY <1>1, <1>2, <1>3, <1>6 DEF AudienceType
<1>13. Moves
  <2>1. \A d \in Channels : channel[d].next \in Nat /\ channel[d].revision \in Nat
    BY <1>3 DEF Channel
  <2>2. \A g \in grant' \ grant : ~Known(g.channel)
    BY <1>1, <1>6
  <2>3. ASSUME NEW d \in Channels, Known(d)
        PROVE  channel'[d] = channel[d] /\ membersOf(grant', d) = membersOf(grant, d)
    BY <1>1, <1>3, <1>11, <2>3
  <2> QED  BY <2>1, <2>2, <2>3, ShownIsSo DEF Moves, Known
<1>14. GrantsAreOld'
  <2>1. \A d \in Channels : channel'[d].next \in Nat
    BY <1>3 DEF Channel
  <2> QED  BY <1>1, <1>3, <1>6, <1>8, <2>1 DEF GrantsAreOld, Known
<1>15. ReadersSupervise'
  <2> SUFFICES ASSUME NEW g \in grant', g.source # Member
               PROVE  /\ g.source \in Agents /\ g.source \in membersOf(grant', g.channel)
                      /\ g.actor = link[g.source].human /\ g.actor # None
    BY <1>2 DEF ReadersSupervise, Participants
  <2>1. CASE g \in added
    BY <1>6, <1>10, <2>1, NoneIsNobody DEF Actors
  <2>2. CASE g \in grant
    BY <1>8, <1>11, <2>2 DEF ReadersSupervise, Participants
  <2> QED  BY <1>1, <2>1, <2>2
<1>16. SupervisorsRead'
  <2> SUFFICES ASSUME NEW d \in Channels, NEW a \in Agents, a \in membersOf(grant', d), link[a].human # None
               PROVE  \E g \in grant' : g.channel = d /\ g.source = a /\ g.actor = link[a].human
    BY <1>2 DEF SupervisorsRead, Participants
  <2>1. CASE d = c
    BY <1>1, <1>7, <1>10, <2>1
  <2>2. CASE d # c
    <3>1. a \in membersOf(grant, d)
      BY <1>11, <2>2
    <3>2. PICK g \in grant : g.channel = d /\ g.source = a /\ g.actor = link[a].human
      BY <3>1 DEF SupervisorsRead, Participants
    <3> QED  BY <1>1, <3>2
  <2> QED  BY <2>1, <2>2
<1>17. ArchivedIsNoParticipant'
  <2>1. \A a \in members : a \notin archived
    BY <1>1 DEF Joinable
  <2>2. \A h \in Humans : h \notin archived
    BY HumansAreNotAgents DEF AudienceType
  <2> QED  BY <1>1, <1>2, <1>6, <2>1, <2>2 DEF ArchivedIsNoParticipant
<1>18. KeepsMembers
  BY <1>1 DEF KeepsMembers
<1> QED  BY <1>1, <1>6, <1>8, <1>10, <1>12, <1>13, <1>14, <1>15, <1>16, <1>17, <1>18, CurrentStays

\* What AddMember, RemoveMember and Supervise do to a channel.
LEMMA ChangedType ==
    ASSUME NEW ch \in Channel
    PROVE  /\ Changed(ch) \in Channel /\ Changed(ch).kind = ch.kind /\ Changed(ch).creator = ch.creator
           /\ Changed(ch).revision = ch.revision + 1 /\ Changed(ch).next = ch.next + 1
           /\ ch.revision \in Nat /\ ch.next \in Nat
<1>1. ch.revision \in Nat /\ ch.next \in Nat \ {0}
  BY DEF Channel
<1> DEFINE revision == ch.revision + 1
           next     == ch.next + 1
<1>2. revision \in Nat /\ next \in Nat \ {0}
  BY <1>1
<1>3. Changed(ch) = [ch EXCEPT !.revision = revision, !.next = next]
  BY DEF Changed, Channel
<1> HIDE DEF revision, next
<1>4. LET new == [ch EXCEPT !.revision = revision, !.next = next]
      IN  /\ new \in Channel /\ new.kind = ch.kind /\ new.creator = ch.creator
          /\ new.revision = revision /\ new.next = next
  BY <1>2 DEF Channel
<1> QED  BY <1>1, <1>3, <1>4 DEF revision, next

\* Store.ChannelMembershipChange "add"
LEMMA AddingKeeps ==
    ASSUME AudienceInv, NEW creator, NEW c \in Channels, NEW a \in Actors, AddMember(creator, c, a)
    PROVE  AudienceInv' /\ Moves /\ KeepsMembers
<1> USE DEF AudienceInv
<1> DEFINE added == GrantsFor(c, a, channel[c].next)
<1>1. /\ Known(c) /\ Joinable(a) /\ grant' = grant \cup added /\ RecordAudience
      /\ channel' = [channel EXCEPT ![c] = Changed(channel[c])]
      /\ UNCHANGED <<link, enrolled, adopted, archived>>
  BY DEF AddMember, CanManage, Known, FirstRead, people
<1>2. channel \in [Channels -> Channel]
  BY DEF AudienceType
<1>3. /\ channel' \in [Channels -> Channel] /\ channel'[c].kind = channel[c].kind
      /\ channel'[c].revision = channel[c].revision + 1 /\ channel'[c].next = channel[c].next + 1
      /\ \A d \in Channels \ {c} : channel'[d] = channel[d]
  BY <1>1, <1>2, ChangedType
<1>4. \A d \in Channels : channel[d].next \in Nat /\ channel[d].revision \in Nat
  BY <1>2 DEF Channel
<1>5. /\ added \subseteq Grant
      /\ \E g \in added : g.channel = c /\ g.source = Member /\ g.actor = a
      /\ \A g \in added :
            /\ g.channel = c /\ g.floor = channel[c].next
            /\ \/ g.source = Member /\ g.actor = a
               \/ /\ g.source = a /\ a \in Agents /\ g.source # Member
                  /\ g.actor = link[a].human /\ g.actor \in Humans
      /\ a \in Agents /\ link[a].human # None =>
            \E g \in added : g.channel = c /\ g.source = a /\ g.actor = link[a].human
  BY <1>4, GrantsForMember
<1> HIDE DEF added
<1>6. AudienceType'
  BY <1>1, <1>3, <1>5 DEF AudienceType
<1>7. \A d \in Channels : \A x : x \in membersOf(grant', d) <=> x \in membersOf(grant, d) \/ (x = a /\ d = c)
  <2> SUFFICES ASSUME NEW d \in Channels, NEW x
               PROVE  x \in membersOf(grant', d) <=> x \in membersOf(grant, d) \/ (x = a /\ d = c)
    OBVIOUS
  <2> QED  BY <1>1, <1>5, MembersOf
<1>8. \A g \in grant : g.channel \in Channels /\ Known(g.channel) /\ g.floor <= channel[g.channel].next
                       /\ g.floor \in Nat
  BY DEF AudienceType, GrantsAreOld, Grant
<1>9. Moves
  <2>1. \A d \in Channels : /\ Known(d) => channel'[d].kind # "none"
                            /\ channel'[d].next >= channel[d].next
                            /\ channel'[d].revision >= channel[d].revision
    BY <1>3, <1>4 DEF Known
  <2>2. \A d \in Channels : channel'[d].revision = channel[d].revision =>
            membersOf(grant', d) = membersOf(grant, d)
    <3> SUFFICES ASSUME NEW d \in Channels, channel'[d].revision = channel[d].revision
                 PROVE  membersOf(grant', d) = membersOf(grant, d)
      OBVIOUS
    <3>1. d # c
      BY <1>3, <1>4
    <3>2. \A x : x \in membersOf(grant', d) <=> x \in membersOf(grant, d)
      BY <1>7, <3>1
    <3> QED  BY <3>2 DEF membersOf
  <2>3. \A g \in grant' \ grant : g.floor >= channel[g.channel].next
    BY <1>1, <1>4, <1>5
  <2> QED  BY <1>1, <2>1, <2>2, <2>3, ShownIsSo DEF Moves
<1>10. GrantsAreOld'
  <2> SUFFICES ASSUME NEW g \in grant'
               PROVE  channel'[g.channel].kind # "none" /\ g.floor <= channel'[g.channel].next
    BY DEF GrantsAreOld, Known
  <2>1. CASE g \in grant
    BY <1>3, <1>4, <1>8, <2>1 DEF Known
  <2>2. CASE g \in added
    BY <1>1, <1>3, <1>4, <1>5, <2>2 DEF Known
  <2> QED  BY <1>1, <2>1, <2>2
<1>11. ReadersSupervise'
  <2> SUFFICES ASSUME NEW g \in grant', g.source # Member
               PROVE  /\ g.source \in Agents /\ g.source \in membersOf(grant', g.channel)
                      /\ g.actor = link[g.source].human /\ g.actor # None
    BY <1>1 DEF ReadersSupervise, Participants
  <2>1. CASE g \in added
    BY <1>5, <1>7, <2>1, NoneIsNobody DEF Actors
  <2>2. CASE g \in grant
    BY <1>7, <1>8, <2>2 DEF ReadersSupervise, Participants
  <2> QED  BY <1>1, <2>1, <2>2
<1>12. SupervisorsRead'
  <2> SUFFICES ASSUME NEW d \in Channels, NEW x \in Agents, x \in membersOf(grant', d), link[x].human # None
               PROVE  \E g \in grant' : g.channel = d /\ g.source = x /\ g.actor = link[x].human
    BY <1>1 DEF SupervisorsRead, Participants
  <2>1. CASE x = a /\ d = c
    BY <1>1, <1>5, <2>1
  <2>2. CASE x \in membersOf(grant, d)
    <3>1. PICK g \in grant : g.channel = d /\ g.source = x /\ g.actor = link[x].human
      BY <2>2 DEF SupervisorsRead, Participants
    <3> QED  BY <1>1, <3>1
  <2> QED  BY <1>7, <2>1, <2>2
<1>13. ArchivedIsNoParticipant'
  <2>1. a \notin archived
    BY <1>1 DEF Joinable
  <2>2. \A h \in Humans : h \notin archived
    BY HumansAreNotAgents DEF AudienceType
  <2> QED  BY <1>1, <1>5, <2>1, <2>2 DEF ArchivedIsNoParticipant
<1>14. KeepsMembers
  BY <1>1 DEF KeepsMembers
<1> QED  BY <1>6, <1>9, <1>10, <1>11, <1>12, <1>13, <1>14, CurrentStays

\* Store.ChannelMembershipChange "remove": the member's grant, its supervisor's.
LEMMA RemovingKeeps ==
    ASSUME AudienceInv, NEW creator, NEW c \in Channels, NEW a \in Actors, RemoveMember(creator, c, a)
    PROVE  /\ AudienceInv' /\ Moves
           /\ \A g \in grant : g.source = Member /\ ~(g.channel = c /\ g.actor = a) => g \in grant'
<1> USE DEF AudienceInv
<1>1. /\ Known(c) /\ grant' = grant \ grantsOf(c, a) /\ RecordAudience
      /\ channel' = [channel EXCEPT ![c] = Changed(channel[c])]
      /\ UNCHANGED <<link, enrolled, archived>>
  BY DEF RemoveMember, CanManage, Known, people
<1>2. channel \in [Channels -> Channel]
  BY DEF AudienceType
<1>3. /\ channel' \in [Channels -> Channel] /\ channel'[c].kind = channel[c].kind
      /\ channel'[c].revision = channel[c].revision + 1 /\ channel'[c].next = channel[c].next + 1
      /\ \A d \in Channels \ {c} : channel'[d] = channel[d]
  BY <1>1, <1>2, ChangedType
<1>4. \A d \in Channels : channel[d].next \in Nat /\ channel[d].revision \in Nat
  BY <1>2 DEF Channel
<1>5. \A g : g \in grant' <=> /\ g \in grant
                              /\ ~(g.channel = c /\ ((g.source = Member /\ g.actor = a) \/ g.source = a))
  BY <1>1 DEF grantsOf
<1>6. AudienceType'
  BY <1>1, <1>3, <1>5 DEF AudienceType
<1>7. \A d \in Channels : \A x :
          x \in membersOf(grant', d) <=> x \in membersOf(grant, d) /\ ~(x = a /\ d = c)
  <2> SUFFICES ASSUME NEW d \in Channels, NEW x
               PROVE  x \in membersOf(grant', d) <=> x \in membersOf(grant, d) /\ ~(x = a /\ d = c)
    OBVIOUS
  <2> QED  BY <1>5, MembersOf, MemberIsNobody
<1>8. \A g \in grant : g.channel \in Channels /\ Known(g.channel) /\ g.floor <= channel[g.channel].next
                       /\ g.floor \in Nat
  BY DEF AudienceType, GrantsAreOld, Grant
<1>9. Moves
  <2>1. \A d \in Channels : /\ Known(d) => channel'[d].kind # "none"
                            /\ channel'[d].next >= channel[d].next
                            /\ channel'[d].revision >= channel[d].revision
    BY <1>3, <1>4 DEF Known
  <2>2. \A d \in Channels : channel'[d].revision = channel[d].revision =>
            membersOf(grant', d) = membersOf(grant, d)
    <3> SUFFICES ASSUME NEW d \in Channels, channel'[d].revision = channel[d].revision
                 PROVE  membersOf(grant', d) = membersOf(grant, d)
      OBVIOUS
    <3>1. d # c
      BY <1>3, <1>4
    <3>2. \A x : x \in membersOf(grant', d) <=> x \in membersOf(grant, d)
      BY <1>7, <3>1
    <3> QED  BY <3>2 DEF membersOf
  <2> QED  BY <1>1, <1>5, <2>1, <2>2, ShownIsSo DEF Moves
<1>10. GrantsAreOld'
  BY <1>3, <1>4, <1>5, <1>8 DEF GrantsAreOld, Known
<1>11. ReadersSupervise'
  <2> SUFFICES ASSUME NEW g \in grant', g.source # Member
               PROVE  /\ g.source \in Agents /\ g.source \in membersOf(grant', g.channel)
                      /\ g.actor = link[g.source].human /\ g.actor # None
    BY <1>1 DEF ReadersSupervise, Participants
  <2> QED  BY <1>5, <1>7, <1>8 DEF ReadersSupervise, Participants
<1>12. SupervisorsRead'
  <2> SUFFICES ASSUME NEW d \in Channels, NEW x \in Agents, x \in membersOf(grant', d), link[x].human # None
               PROVE  \E g \in grant' : g.channel = d /\ g.source = x /\ g.actor = link[x].human
    BY <1>1 DEF SupervisorsRead, Participants
  <2>1. x \in membersOf(grant, d) /\ ~(x = a /\ d = c) /\ x # Member
    BY <1>7, MemberIsNobody DEF Actors
  <2>2. PICK g \in grant : g.channel = d /\ g.source = x /\ g.actor = link[x].human
    BY <2>1 DEF SupervisorsRead, Participants
  <2> QED  BY <1>5, <2>1, <2>2
<1>13. ArchivedIsNoParticipant'
  BY <1>1, <1>5 DEF ArchivedIsNoParticipant
<1>14. \A g \in grant : g.source = Member /\ ~(g.channel = c /\ g.actor = a) => g \in grant'
  BY <1>5, MemberIsNobody
<1> QED  BY <1>6, <1>9, <1>10, <1>11, <1>12, <1>13, <1>14, CurrentStays

\* Store.SupervisionChange: the reading grants of the agent change hands.
LEMMA SupervisingKeeps ==
    ASSUME AudienceInv, NEW agent \in Agents, NEW h \in Humans \cup {None}, Supervise(agent, h)
    PROVE  AudienceInv' /\ Moves /\ KeepsMembers
<1> USE DEF AudienceInv
<1> DEFINE moved == supervisedIn(agent)
           added == IF h = None THEN {}
                    ELSE {[channel |-> c, actor |-> h, source |-> agent, floor |-> channel[c].next] : c \in moved}
<1>1. /\ grant' = {g \in grant : ~(g.source = agent /\ g.channel \in moved)} \cup added
      /\ channel' = [c \in Channels |-> IF c \in moved THEN Changed(channel[c]) ELSE channel[c]]
      /\ link' = [link EXCEPT ![agent] = [human |-> h, revision |-> link[agent].revision + 1]]
      /\ RecordAudience /\ UNCHANGED <<enrolled, archived>>
  BY DEF Supervise, FirstRead
<1>2. channel \in [Channels -> Channel] /\ link \in [Agents -> [human : Humans \cup {None}, revision : Nat]]
  BY DEF AudienceType
<1>3. /\ \A d \in Channels : d \in moved <=> agent \in membersOf(grant, d)
      /\ moved \subseteq Channels
  BY DEF supervisedIn, Participants
<1>4. agent # Member /\ agent \in Actors /\ (h # None => h \in Humans /\ h \in Actors)
  BY MemberIsNobody DEF Actors
<1>5. \A d \in Channels : channel[d].next \in Nat /\ channel[d].revision \in Nat
  BY <1>2 DEF Channel
<1> HIDE DEF moved
<1>6. \A g \in added : /\ g \in Grant /\ g.channel \in moved /\ g.actor = h /\ g.source = agent
                       /\ g.floor = channel[g.channel].next /\ h # None
  <2> SUFFICES ASSUME h # None, NEW c \in moved
               PROVE  LET g == [channel |-> c, actor |-> h, source |-> agent, floor |-> channel[c].next]
                      IN  /\ g \in Grant /\ g.channel \in moved /\ g.actor = h /\ g.source = agent
                          /\ g.floor = channel[g.channel].next
    OBVIOUS
  <2>1. channel[c].next \in Nat /\ c \in Channels
    BY <1>3, <1>5
  <2> QED  BY <1>4, <2>1 DEF Grant
<1>7. h # None => \A c \in moved : \E g \in added : g.channel = c /\ g.source = agent /\ g.actor = h
  <2> SUFFICES ASSUME h # None, NEW c \in moved
               PROVE  \E g \in added : g.channel = c /\ g.source = agent /\ g.actor = h
    OBVIOUS
  <2> DEFINE g == [channel |-> c, actor |-> h, source |-> agent, floor |-> channel[c].next]
  <2> WITNESS g \in added
  <2> QED  OBVIOUS
<1> HIDE DEF added
<1>8. ASSUME NEW d \in Channels
      PROVE  /\ channel'[d] \in Channel /\ channel'[d].kind = channel[d].kind
             /\ d \in moved => /\ channel'[d].revision = channel[d].revision + 1
                               /\ channel'[d].next = channel[d].next + 1
             /\ d \notin moved => channel'[d] = channel[d]
  <2>1. channel[d] \in Channel
    BY <1>2
  <2>2. CASE d \in moved
    <3>1. channel'[d] = Changed(channel[d])
      BY <1>1, <2>2
    <3> QED  BY <2>1, <2>2, <3>1, ChangedType
  <2>3. CASE d \notin moved
    <3>1. channel'[d] = channel[d]
      BY <1>1, <2>3
    <3> QED  BY <2>1, <2>3, <3>1
  <2> QED  BY <2>2, <2>3
<1>9. channel' \in [Channels -> Channel]
  BY <1>1, <1>8
<1>10. /\ link' \in [Agents -> [human : Humans \cup {None}, revision : Nat]]
       /\ link'[agent].human = h /\ \A x \in Agents \ {agent} : link'[x] = link[x]
  <2> DEFINE new == [human |-> h, revision |-> link[agent].revision + 1]
  <2>1. new \in [human : Humans \cup {None}, revision : Nat] /\ new.human = h
    BY <1>2
  <2>2. link' = [link EXCEPT ![agent] = new]
    BY <1>1
  <2> HIDE DEF new
  <2> QED  BY <1>2, <2>1, <2>2
<1>11. AudienceType'
  BY <1>1, <1>6, <1>9, <1>10 DEF AudienceType
<1>12. \A g \in grant : g.channel \in Channels /\ Known(g.channel) /\ g.floor <= channel[g.channel].next
                        /\ g.floor \in Nat
  BY DEF AudienceType, GrantsAreOld, Grant
<1>13. \A g \in grant : g.source = agent => g.channel \in moved
  BY <1>3, <1>4, <1>12 DEF ReadersSupervise, Participants
<1>14. \A g : g \in grant' <=> (g \in grant /\ g.source # agent) \/ g \in added
  BY <1>1, <1>13
<1>15. \A d \in Channels : membersOf(grant', d) = membersOf(grant, d)
  <2> SUFFICES ASSUME NEW d \in Channels, NEW x
               PROVE  x \in membersOf(grant', d) <=> x \in membersOf(grant, d)
    BY DEF membersOf
  <2> QED  BY <1>4, <1>6, <1>14, MembersOf
<1>16. Moves
  <2>1. \A d \in Channels : /\ Known(d) => channel'[d].kind # "none"
                            /\ channel'[d].next >= channel[d].next
                            /\ channel'[d].revision >= channel[d].revision
    BY <1>5, <1>8 DEF Known
  <2>2. \A g \in grant' \ grant : g.floor >= channel[g.channel].next
    BY <1>3, <1>5, <1>6, <1>14
  <2> QED  BY <1>1, <1>15, <2>1, <2>2, ShownIsSo DEF Moves
<1>17. \A d \in moved : channel[d].kind # "none"
  <2> SUFFICES ASSUME NEW d \in moved PROVE channel[d].kind # "none"
    OBVIOUS
  <2>1. PICK g \in grant : g.channel = d
    BY <1>3, MembersOf
  <2> QED  BY <1>12, <2>1 DEF Known
<1>18. GrantsAreOld'
  <2> SUFFICES ASSUME NEW g \in grant'
               PROVE  channel'[g.channel].kind # "none" /\ g.floor <= channel'[g.channel].next
    BY DEF GrantsAreOld, Known
  <2>1. CASE g \in grant
    BY <1>5, <1>8, <1>12, <2>1 DEF Known
  <2>2. CASE g \in added
    BY <1>3, <1>5, <1>6, <1>8, <1>17, <2>2
  <2> QED  BY <1>14, <2>1, <2>2
<1>19. ReadersSupervise'
  <2> SUFFICES ASSUME NEW g \in grant', g.source # Member
               PROVE  /\ g.source \in Agents /\ g.source \in membersOf(grant', g.channel)
                      /\ g.actor = link'[g.source].human /\ g.actor # None
    BY DEF ReadersSupervise, Participants
  <2>1. CASE g \in added
    BY <1>3, <1>6, <1>10, <1>15, <2>1
  <2>2. CASE g \in grant /\ g.source # agent
    BY <1>10, <1>12, <1>15, <2>2 DEF ReadersSupervise, Participants
  <2> QED  BY <1>14, <2>1, <2>2
<1>20. SupervisorsRead'
  <2> SUFFICES ASSUME NEW d \in Channels, NEW x \in Agents, x \in membersOf(grant, d), link'[x].human # None
               PROVE  \E g \in grant' : g.channel = d /\ g.source = x /\ g.actor = link'[x].human
    BY <1>15 DEF SupervisorsRead, Participants
  <2>1. CASE x = agent
    BY <1>3, <1>7, <1>10, <1>14, <2>1
  <2>2. CASE x # agent
    <3>1. PICK g \in grant : g.channel = d /\ g.source = x /\ g.actor = link[x].human
      BY <1>10, <2>2 DEF SupervisorsRead, Participants
    <3> QED  BY <1>10, <1>14, <2>2, <3>1
  <2> QED  BY <2>1, <2>2
<1>21. ArchivedIsNoParticipant'
  <2>1. h \notin archived \/ h = None
    BY HumansAreNotAgents DEF AudienceType
  <2> QED  BY <1>1, <1>6, <1>14, <2>1 DEF ArchivedIsNoParticipant
<1>22. KeepsMembers
  BY <1>4, <1>14 DEF KeepsMembers
<1> QED  BY <1>11, <1>16, <1>18, <1>19, <1>20, <1>21, <1>22, CurrentStays

\* A channel's number grows, or an actor is enrolled or archived.
LEMMA StandingKeeps ==
    ASSUME AudienceInv, UNCHANGED <<grant, link, audience>>,
           enrolled' \subseteq Humans, archived' \subseteq Agents,
           \A a \in archived' \ archived : ~\E g \in grant : g.actor = a,
           channel' \in [Channels -> Channel],
           \A c \in Channels : /\ channel'[c].kind = channel[c].kind
                               /\ channel'[c].revision = channel[c].revision
                               /\ channel'[c].next >= channel[c].next
    PROVE  AudienceInv' /\ Moves /\ KeepsMembers
<1> USE DEF AudienceInv
<1>1. \A c \in Channels : /\ channel[c].next \in Nat /\ channel[c].revision \in Nat
                          /\ channel'[c].next \in Nat /\ channel'[c].revision \in Nat
  BY DEF AudienceType, Channel
<1>2. \A g \in grant : g.channel \in Channels /\ g.floor \in Nat
  BY DEF AudienceType, Grant
<1>3. AudienceType'
  BY DEF AudienceType
<1>4. Moves /\ KeepsMembers
  BY <1>1 DEF Moves, KeepsMembers, Known
<1>5. GrantsAreOld'
  BY <1>1, <1>2 DEF GrantsAreOld, Known
<1>6. ReadersSupervise' /\ SupervisorsRead'
  BY DEF ReadersSupervise, SupervisorsRead, Participants
<1>7. ArchivedIsNoParticipant'
  BY DEF ArchivedIsNoParticipant
<1> QED  BY <1>3, <1>4, <1>5, <1>6, <1>7, CurrentStays

-----------------------------------------------------------------------------
(* Messages that stand. *)

LEMMA DraftType ==
    ASSUME NEW d \in Draft
    PROVE  d.from \in Actors /\ d.channel \in Channels /\ parentOf(d) \in Messages \cup {0}
           /\ d.answers \in Messages \cup {0}
<1>1. CASE d \in Drafts
  BY <1>1, DraftsAreTyped DEF parentOf
<1>2. CASE \E t \in Intents, c \in Channels, key \in CommitKeys : d = continuation(t, c, key)
  BY <1>2, IntentsAreTyped DEF continuation, parentOf
<1> QED  BY <1>1, <1>2 DEF Draft

LEMMA PostedType ==
    ASSUME MessageType, NEW m \in Messages, Posted(m)
    PROVE  /\ message[m].request \in Request /\ Home(m) \in Channels /\ Author(m) \in Actors
           /\ message[m].request.revision \in Nat /\ message[m].seq \in Nat
BY DraftType DEF MessageType, Request, Home, Author

LEMMA EntitledStays ==
    ASSUME KeepsMembers, NEW m, NEW a, message'[m] = message[m], Entitled(a, m)
    PROVE  Entitled(a, m)'
BY DEF KeepsMembers, Entitled, Home

\* Whatever happens to the channel, a message stays in it with its audience.
LEMMA MessageStands ==
    ASSUME AudienceInv, MessageInv, AudienceInv', Moves, NEW m \in Messages, Posted(m),
           message'[m] = message[m],
           \A a \in Actors : delivery'[m][a].state = "none" <=> delivery[m][a].state = "none"
    PROVE  /\ Known(Home(m))' /\ message'[m].seq < channel'[Home(m)].next
           /\ message'[m].request.revision <= channel'[Home(m)].revision
           /\ message'[m].request.revision = channel'[Home(m)].revision =>
                 membersOf(grant', Home(m)) =
                     {Author(m)} \cup {a \in Actors : delivery'[m][a].state # "none"}
           /\ \A seen \in audience' :
                 seen.channel = Home(m) /\ seen.revision = message'[m].request.revision =>
                     seen.members = {Author(m)} \cup {a \in Actors : delivery'[m][a].state # "none"}
<1> DEFINE c == Home(m)
           reached == {a \in Actors : delivery[m][a].state # "none"}
<1>1. c \in Channels /\ message[m].request.revision \in Nat /\ message[m].seq \in Nat
  BY PostedType DEF MessageInv
<1>2. channel[c] \in Channel /\ channel'[c] \in Channel
  BY <1>1 DEF AudienceInv, AudienceType
<1>3. /\ channel[c].next \in Nat /\ channel[c].revision \in Nat
      /\ channel'[c].next \in Nat /\ channel'[c].revision \in Nat
  BY <1>2 DEF Channel
<1>4. /\ Known(c) /\ message[m].seq < channel[c].next
      /\ message[m].request.revision <= channel[c].revision
  BY DEF MessageInv, MessagesAreNumbered
<1>5. /\ channel'[c].kind # "none" /\ channel'[c].next >= channel[c].next
      /\ channel'[c].revision >= channel[c].revision
      /\ channel'[c].revision = channel[c].revision => membersOf(grant', c) = membersOf(grant, c)
  BY <1>1, <1>4 DEF Moves
<1>6. {a \in Actors : delivery'[m][a].state # "none"} = reached
  OBVIOUS
<1>7. message[m].request.revision = channel[c].revision => membersOf(grant, c) = {Author(m)} \cup reached
  BY DEF MessageInv, RowsAreCurrent, Participants
<1>8. \A seen \in audience : seen.channel = c /\ seen.revision = message[m].request.revision =>
          seen.members = {Author(m)} \cup reached
  BY DEF MessageInv, PostReachesShownAudience
<1>9. c' = c
  BY DEF Home
<1> HIDE DEF c, reached
<1>10. message[m].request.revision = channel'[c].revision => membersOf(grant', c) = {Author(m)} \cup reached
  BY <1>1, <1>3, <1>4, <1>5, <1>7
<1>11. ASSUME NEW seen \in audience', seen.channel = c, seen.revision = message[m].request.revision
       PROVE  seen.members = {Author(m)} \cup reached
  <2>1. CASE seen \in audience
    BY <1>8, <1>11, <2>1
  <2>2. CASE seen \notin audience
    <3>1. seen.revision = channel'[c].revision /\ seen.members = membersOf(grant', c)
      BY <1>11, <2>2 DEF Moves
    <3> QED  BY <1>10, <1>11, <3>1
  <2> QED  BY <2>1, <2>2
<1>12. channel'[c].kind # "none" /\ message[m].seq < channel'[c].next
       /\ message[m].request.revision <= channel'[c].revision
  BY <1>1, <1>3, <1>4, <1>5
<1> QED  BY <1>6, <1>9, <1>10, <1>11, <1>12 DEF Known, c

\* No message, no new debt, no new answer.
Quiet ==
    /\ UNCHANGED message
    /\ \A m \in Messages, a \in Actors :
          /\ Pends(m, a)' => Pends(m, a) /\ Entitled(a, m)'
          /\ delivery'[m][a].state = "none" <=> delivery[m][a].state = "none"
    /\ \A q \in Messages :
          /\ response'[q].state = "answered" <=> response[q].state = "answered"
          /\ response[q].state = "answered" => response'[q].answer = response[q].answer

LEMMA QuietKeeps ==
    ASSUME AudienceInv, MessageInv, AudienceInv', Moves, Quiet, MessageType'
    PROVE  MessageInv'
<1>1. \A m \in Messages : Posted(m)' <=> Posted(m)
  BY DEF Quiet, Posted
<1>2. ASSUME NEW m \in Messages, Posted(m)
      PROVE  /\ Known(Home(m))' /\ message'[m].seq < channel'[Home(m)].next
             /\ message'[m].request.revision <= channel'[Home(m)].revision
             /\ message'[m].request.revision = channel'[Home(m)].revision =>
                   membersOf(grant', Home(m)) =
                       {Author(m)} \cup {a \in Actors : delivery'[m][a].state # "none"}
             /\ \A seen \in audience' :
                   seen.channel = Home(m) /\ seen.revision = message'[m].request.revision =>
                       seen.members = {Author(m)} \cup {a \in Actors : delivery'[m][a].state # "none"}
  <2>1. /\ message'[m] = message[m]
        /\ \A a \in Actors : delivery'[m][a].state = "none" <=> delivery[m][a].state = "none"
    BY DEF Quiet
  <2> QED  BY <1>2, <2>1, MessageStands
<1>3. \A m \in Messages : Home(m)' = Home(m) /\ Author(m)' = Author(m)
  BY DEF Quiet, Home, Author
<1>4. MessagesAreNumbered'
  BY <1>1, <1>2, <1>3 DEF MessagesAreNumbered
<1>5. RowsAreCurrent'
  BY <1>1, <1>2, <1>3 DEF RowsAreCurrent, Participants
<1>6. PostReachesShownAudience'
  BY <1>1, <1>2, <1>3 DEF PostReachesShownAudience
<1>7. OwedToMembers'
  BY <1>1 DEF Quiet, MessageInv, OwedToMembers
<1>8. \A q, x \in Messages : Answers(x, q)' <=> Answers(x, q)
  BY DEF Quiet, Answers, Posted
<1>9. OnlyTheAnsweredIsAnswered'
  BY <1>8 DEF Quiet, MessageInv, OnlyTheAnsweredIsAnswered
<1>10. AnsweredByRespondent'
  <2> SUFFICES ASSUME NEW q \in Messages, response'[q].state = "answered"
               PROVE  \E x \in Messages :
                          /\ response'[q].answer = x /\ Posted(q)' /\ Answers(x, q)'
                          /\ Author(x)' = message'[q].request.draft.respondent
                          /\ message'[x].thread = message'[q].thread
    BY DEF AnsweredByRespondent
  <2>1. response[q].state = "answered" /\ response'[q].answer = response[q].answer /\ message' = message
    BY DEF Quiet
  <2>2. PICK x \in Messages : x = response[q].answer /\ Posted(q) /\ Answers(x, q)
            /\ Author(x) = message[q].request.draft.respondent /\ message[x].thread = message[q].thread
    BY <2>1 DEF MessageInv, AnsweredByRespondent
  <2> QED  BY <2>1, <2>2 DEF Answers, Posted, Author
<1> QED  BY <1>4, <1>5, <1>6, <1>7, <1>9, <1>10 DEF MessageInv

-----------------------------------------------------------------------------
(* Messages that are posted. *)

\* The rows that channelPostTx writes, for members of the audience it checked.
LEMMA WritingKeeps ==
    ASSUME AudienceInv, MessageInv, AudienceInv', Moves, KeepsMembers,
           NEW m \in Messages, ~Posted(m), NEW r \in Request, NEW c, c = r.draft.channel,
           NEW seq \in Nat \ {0}, Writes(m, r, grant', seq),
           channel'[c].kind # "none", seq < channel'[c].next, r.revision = channel'[c].revision,
           \A g \in grant' : g.channel = c => g.floor <= seq,
           r.draft.from \in membersOf(grant', c),
           r.draft.attention \subseteq membersOf(grant', c) \ {r.draft.from},
           r.draft.respondent \in (membersOf(grant', c) \ {r.draft.from}) \cup {None},
           r.draft.answers # 0 =>
               /\ Posted(r.draft.answers) /\ response[r.draft.answers].state = "open"
               /\ message[r.draft.answers].request.draft.respondent = r.draft.from
               /\ parentOf(r.draft) # 0
               /\ message[parentOf(r.draft)].thread = message[r.draft.answers].thread,
           preview' \subseteq preview
    PROVE  MessageInv'
<1> USE DEF MessageInv
<1> DEFINE d == r.draft
           thread == IF parentOf(d) = 0 THEN m ELSE message[parentOf(d)].thread
           posted == [request |-> r, seq |-> seq, thread |-> thread]
           to == membersOf(grant', c) \ {d.from}
           dues == [a \in Actors |-> IF a \in to THEN QueuedRow ELSE NoRow]
           wakes == [a \in Actors |-> IF a \in d.attention THEN NewJob ELSE NoJob]
<1>1. /\ message' = [message EXCEPT ![m] = posted] /\ delivery' = [delivery EXCEPT ![m] = dues]
      /\ job' = [job EXCEPT ![m] = wakes] /\ response' = asked(m, d)
  BY DEF Writes
<1>2. /\ message \in [Messages -> [request : Request \cup {None}, seq : Nat, thread : Messages \cup {0}]]
      /\ delivery \in [Messages -> [Actors -> Row]] /\ job \in [Messages -> [Actors -> Job]]
      /\ response \in [Messages -> Asking]
  BY DEF MessageType
<1>3. d \in Draft /\ r.revision \in Nat
  BY DEF Request
<1>4. /\ d.from \in Actors /\ c \in Channels /\ parentOf(d) \in Messages \cup {0}
      /\ d.answers \in Messages \cup {0}
  BY <1>3, DraftType
<1>5. thread \in Messages \cup {0}
  BY <1>2, <1>4
<1>6. dues \in [Actors -> Row] /\ wakes \in [Actors -> Job]
  <2>1. NoRow \in Row /\ QueuedRow \in Row
    BY DEF NoRow, QueuedRow, Row, NoToken
  <2>2. NoJob \in Job /\ NewJob \in Job
    BY DEF NoJob, NewJob, Job
  <2> QED  BY <2>1, <2>2
<1>7. /\ posted \in [request : Request \cup {None}, seq : Nat, thread : Messages \cup {0}]
      /\ posted.request = r /\ posted.seq = seq /\ posted.thread = thread
  <2> HIDE DEF thread
  <2> QED  BY <1>5
<1>8. \A a \in Actors : /\ dues[a].state = IF a \in to THEN "queued" ELSE "none"
                        /\ OpenJob(wakes[a]) => a \in d.attention
  BY DEF QueuedRow, NoRow, NewJob, NoJob, OpenJob
<1> HIDE DEF posted, dues, wakes
<1>9. /\ message' \in [Messages -> [request : Request \cup {None}, seq : Nat, thread : Messages \cup {0}]]
      /\ message'[m].request = r /\ message'[m].seq = seq /\ message'[m].thread = thread
      /\ delivery'[m] = dues /\ job'[m] = wakes
      /\ \A n \in Messages \ {m} :
            message'[n] = message[n] /\ delivery'[n] = delivery[n] /\ job'[n] = job[n]
  BY <1>1, <1>2, <1>7
<1>10. ASSUME NEW n \in Messages
       PROVE  response'[n] = IF n = m /\ d.respondent # None THEN [state |-> "open", answer |-> 0]
                             ELSE IF n = d.answers THEN [state |-> "answered", answer |-> m]
                             ELSE response[n]
  BY <1>1, MessagesAreNats DEF asked
<1>11. Posted(m)' /\ Home(m)' = c /\ Author(m)' = d.from
  BY <1>9 DEF Posted, Home, Author
<1>12. \A n \in Messages \ {m} : /\ Posted(n)' <=> Posted(n)
                                 /\ Home(n)' = Home(n) /\ Author(n)' = Author(n)
  BY <1>9 DEF Posted, Home, Author
<1>13. MessageType'
  <2>1. \A n \in Messages : response'[n] \in Asking
    <3>1. /\ [state |-> "open", answer |-> 0] \in Asking /\ [state |-> "answered", answer |-> m] \in Asking
      BY DEF Asking
    <3> QED  BY <1>2, <1>10, <3>1
  <2>2. response' \in [Messages -> Asking]
    <3>1. response' = [n \in Messages |-> response'[n]]
      BY <1>1 DEF asked
    <3> QED  BY <2>1, <3>1
  <2>3. \A n \in Messages : Posted(n)' => message'[n].request \in Request
    BY <1>9, <1>12 DEF MessageType
  <2>4. delivery' \in [Messages -> [Actors -> Row]] /\ job' \in [Messages -> [Actors -> Job]]
    BY <1>1, <1>2, <1>6
  <2> QED  BY <1>9, <2>2, <2>3, <2>4 DEF MessageType
<1>14. membersOf(grant', c) \subseteq Actors
  <2>1. \A g \in grant' : g.actor \in Actors
    BY DEF AudienceInv, AudienceType, Grant
  <2> QED  BY <2>1 DEF membersOf
<1>15. membersOf(grant', c) = {d.from} \cup {a \in Actors : delivery'[m][a].state # "none"}
  BY <1>4, <1>8, <1>9, <1>14
<1>16. ASSUME NEW n \in Messages \ {m}, Posted(n)
       PROVE  /\ Known(Home(n))' /\ message'[n].seq < channel'[Home(n)].next
              /\ message'[n].request.revision <= channel'[Home(n)].revision
              /\ message'[n].request.revision = channel'[Home(n)].revision =>
                    membersOf(grant', Home(n)) =
                        {Author(n)} \cup {a \in Actors : delivery'[n][a].state # "none"}
              /\ \A seen \in audience' :
                    seen.channel = Home(n) /\ seen.revision = message'[n].request.revision =>
                        seen.members = {Author(n)} \cup {a \in Actors : delivery'[n][a].state # "none"}
  <2>1. /\ message'[n] = message[n]
        /\ \A a \in Actors : delivery'[n][a].state = "none" <=> delivery[n][a].state = "none"
    BY <1>9
  <2> QED  BY <1>16, <2>1, MessageStands
<1>17. MessagesAreNumbered'
  <2> SUFFICES ASSUME NEW n \in Messages, Posted(n)'
               PROVE  /\ Known(Home(n))' /\ message'[n].seq < channel'[Home(n)'].next
                      /\ message'[n].request.revision <= channel'[Home(n)'].revision
    BY DEF MessagesAreNumbered
  <2>1. CASE n = m
    BY <1>3, <1>9, <1>11, <2>1 DEF Known
  <2>2. CASE n # m
    BY <1>12, <1>16, <2>2
  <2> QED  BY <2>1, <2>2
<1>18. RowsAreCurrent'
  <2> SUFFICES ASSUME NEW n \in Messages, Posted(n)', message'[n].request.revision = channel'[Home(n)'].revision
               PROVE  membersOf(grant', Home(n)') =
                          {Author(n)'} \cup {a \in Actors : delivery'[n][a].state # "none"}
    BY DEF RowsAreCurrent, Participants
  <2>1. CASE n = m
    BY <1>11, <1>15, <2>1
  <2>2. CASE n # m
    BY <1>12, <1>16, <2>2
  <2> QED  BY <2>1, <2>2
<1>19. PostReachesShownAudience'
  <2> SUFFICES ASSUME NEW n \in Messages, Posted(n)', NEW seen \in audience',
                      seen.channel = Home(n)', seen.revision = message'[n].request.revision
               PROVE  seen.members = {Author(n)'} \cup {a \in Actors : delivery'[n][a].state # "none"}
    BY DEF PostReachesShownAudience
  <2>1. CASE n = m
    <3>1. seen.members = membersOf(grant', c)
      BY <1>9, <1>11, <2>1 DEF AudienceInv, AudienceIsCurrent, Participants
    <3> QED  BY <1>11, <1>15, <2>1, <3>1
  <2>2. CASE n # m
    BY <1>12, <1>16, <2>2
  <2> QED  BY <2>1, <2>2
<1>20. OwedToMembers'
  <2> SUFFICES ASSUME NEW n \in Messages, NEW a \in Actors, Pends(n, a)'
               PROVE  Posted(n)' /\ Entitled(a, n)'
    BY DEF OwedToMembers
  <2>1. CASE n = m
    <3>1. a \in membersOf(grant', c)
      <4>1. CASE Unsettled(delivery[n][a])'
        BY <1>8, <1>9, <2>1, <4>1 DEF Unsettled
      <4>2. CASE OpenJob(job[n][a])'
        BY <1>8, <1>9, <2>1, <4>2 DEF OpenJob
      <4>3. CASE message'[n].request.draft.respondent = a
        BY <1>9, <2>1, <4>3, NoneIsNobody
      <4> QED  BY <4>1, <4>2, <4>3 DEF Pends
    <3>2. PICK g \in grant' : g.channel = c /\ g.source = Member /\ g.actor = a
      BY <3>1, MembersOf
    <3> QED  BY <1>9, <1>11, <2>1, <3>2 DEF Entitled
  <2>2. CASE n # m
    <3>1. Pends(n, a)
      <4>1. response'[n].state = "open" => response[n].state = "open"
        BY <1>10, <2>2
      <4> QED  BY <1>9, <2>2, <4>1 DEF Pends, Unsettled, OpenJob
    <3>2. Posted(n) /\ Entitled(a, n) /\ message'[n] = message[n]
      BY <1>9, <2>2, <3>1 DEF OwedToMembers
    <3> QED  BY <1>12, <2>2, <3>2, EntitledStays
  <2> QED  BY <2>1, <2>2
<1>21. \A q \in Messages : Posted(q) => q # m
  OBVIOUS
<1>22. \A q \in Messages, x \in Messages \ {m} : Answers(x, q)' <=> Answers(x, q)
  BY <1>9 DEF Answers, Posted
<1>23. \A q \in Messages : Answers(m, q)' <=> d.answers = q
  BY <1>9, <1>11 DEF Answers
<1>24. OnlyTheAnsweredIsAnswered'
  <2> SUFFICES ASSUME NEW q \in Messages, NEW x \in Messages, Answers(x, q)'
               PROVE  response'[q].state = "answered" /\ response'[q].answer = x
    BY DEF OnlyTheAnsweredIsAnswered
  <2>1. CASE x = m
    <3>1. d.answers = q /\ q # 0
      BY <1>23, <2>1, MessagesAreNats
    <3>2. q # m
      BY <3>1
    <3> QED  BY <1>10, <2>1, <3>1, <3>2
  <2>2. CASE x # m
    <3>1. response[q].state = "answered" /\ response[q].answer = x
      BY <1>22, <2>2 DEF OnlyTheAnsweredIsAnswered
    <3>2. Posted(q)
      BY <3>1 DEF AnsweredByRespondent
    <3>3. q # m /\ q # d.answers
      BY <1>21, <3>1, <3>2, MessagesAreNats
    <3> QED  BY <1>10, <3>1, <3>3
  <2> QED  BY <2>1, <2>2
<1>25. AnsweredByRespondent'
  <2> SUFFICES ASSUME NEW q \in Messages, response'[q].state = "answered"
               PROVE  \E x \in Messages :
                          /\ response'[q].answer = x /\ Posted(q)' /\ Answers(x, q)'
                          /\ Author(x)' = message'[q].request.draft.respondent
                          /\ message'[x].thread = message'[q].thread
    BY DEF AnsweredByRespondent
  <2>1. CASE q = d.answers
    <3>1. q # 0 /\ Posted(q) /\ q # m
      BY <2>1, MessagesAreNats
    <3>2. response'[q].answer = m
      BY <1>10, <2>1, <3>1
    <3>3. Posted(q)' /\ Answers(m, q)'
      BY <1>12, <1>23, <2>1, <3>1
    <3>4. Author(m)' = message'[q].request.draft.respondent /\ message'[m].thread = message'[q].thread
      BY <1>9, <1>11, <2>1, <3>1
    <3> QED  BY <3>2, <3>3, <3>4
  <2>2. CASE q # d.answers
    <3>1. response'[q] = response[q]
      BY <1>10, <2>2
    <3>2. PICK x \in Messages :
              /\ response[q].answer = x /\ Posted(q) /\ Answers(x, q)
              /\ Author(x) = message[q].request.draft.respondent /\ message[x].thread = message[q].thread
      BY <3>1 DEF AnsweredByRespondent
    <3>3. x # m /\ q # m
      BY <3>2 DEF Answers
    <3>4. Posted(q)' /\ Answers(x, q)' /\ Author(x)' = Author(x)
      BY <1>12, <1>22, <3>2, <3>3
    <3> QED  BY <1>9, <3>1, <3>2, <3>3, <3>4
  <2> QED  BY <2>1, <2>2
<1> QED  BY <1>13, <1>17, <1>18, <1>19, <1>20, <1>24, <1>25

LEMMA NumberType ==
    ASSUME NEW ch \in Channel
    PROVE  LET new == [ch EXCEPT !.next = ch.next + 1]
           IN  /\ new \in Channel /\ new.kind = ch.kind /\ new.revision = ch.revision
               /\ new.next = ch.next + 1 /\ ch.next \in Nat \ {0} /\ ch.revision \in Nat
<1>1. ch.next \in Nat \ {0} /\ ch.revision \in Nat
  BY DEF Channel
<1> DEFINE next == ch.next + 1
<1>2. next \in Nat \ {0}
  BY <1>1
<1> HIDE DEF next
<1>3. LET new == [ch EXCEPT !.next = next]
      IN  /\ new \in Channel /\ new.kind = ch.kind /\ new.revision = ch.revision /\ new.next = next
  BY <1>2 DEF Channel
<1> QED  BY <1>1, <1>3 DEF next

\* A recipient's call writes rows that exist and nothing else.
LEMMA CallsWriteRows ==
    ASSUME NEW a \in Actors, NEW m \in Messages,
           \/ Claim(a, m)
           \/ LeaseLapses(a, m)
           \/ \E token \in 1 .. MaxClaims, next \in {"acked", "dead", "queued"} : DeliveryUpdate(a, m, token, next)
           \/ \E verdict \in {"declined", "withdrawn"} : Resolve(a, m, verdict)
    PROVE  UNCHANGED <<channel, operations, grant, people, message, daemon, audience>>
<1>1. CASE Claim(a, m)
  BY <1>1 DEF Claim
<1>2. CASE LeaseLapses(a, m)
  BY <1>2 DEF LeaseLapses
<1>3. CASE \E token \in 1 .. MaxClaims, next \in {"acked", "dead", "queued"} : DeliveryUpdate(a, m, token, next)
  BY <1>3 DEF DeliveryUpdate
<1>4. CASE \E verdict \in {"declined", "withdrawn"} : Resolve(a, m, verdict)
  BY <1>4 DEF Resolve
<1> QED  BY <1>1, <1>2, <1>3, <1>4

\* The message steps, those that write rows only taken together.
LEMMA MessageSteps ==
    ASSUME MessageStep
    PROVE  \/ \E draft \in Drafts, revision \in 1 .. MaxRevision : Post([draft |-> draft, revision |-> revision])
           \/ \E t \in Intents : Preflight(t)
           \/ \E t \in preview : PreviewExpires(t)
           \/ \E t \in preview, key \in CommitKeys : ContinueInto(t, key) \/ ContinueNew(t, key)
           \/ UNCHANGED <<channel, operations, grant, people, message, daemon, audience>>
BY CallsWriteRows DEF MessageStep

\* The post of a continuation into a channel that exists.
PostsInto(t, key) ==
    LET r == [draft |-> continuation(t.intent, t.destination, key), revision |-> channel[t.destination].revision]
    IN  /\ PostOutcome(r) = "post"
        /\ \E m \in Messages : NextMessage(m) /\ Writes(m, r, grant, channel[t.destination].next)
        /\ channel' = [channel EXCEPT ![t.destination].next = @ + 1]

\* Such a continuation posts, or finds its message in place.
LEMMA IntoPosts ==
    ASSUME NEW t, NEW key, ContinueInto(t, key)
    PROVE  /\ t.destination # 0 /\ UNCHANGED <<grant, people, daemon, audience>>
           /\ PostsInto(t, key) \/ UNCHANGED <<channel, rows>>
<1> DEFINE r == [draft |-> continuation(t.intent, t.destination, key), revision |-> channel[t.destination].revision]
<1>1. /\ t.destination # 0 /\ UNCHANGED <<grant, people, daemon, audience>>
      /\ \E m \in Messages :
            \/ /\ PostOutcome(r) = "post" /\ NextMessage(m)
               /\ Writes(m, r, grant, channel[t.destination].next)
               /\ channel' = [channel EXCEPT ![t.destination].next = @ + 1]
            \/ UNCHANGED <<channel, rows>>
  BY DEF ContinueInto
<1> HIDE DEF r
<1>2. \/ /\ PostOutcome(r) = "post"
         /\ \E m \in Messages : NextMessage(m) /\ Writes(m, r, grant, channel[t.destination].next)
         /\ channel' = [channel EXCEPT ![t.destination].next = @ + 1]
      \/ UNCHANGED <<channel, rows>>
  BY <1>1
<1> QED  BY <1>1, <1>2 DEF PostsInto, r

\* channelPostTx into a channel that exists.
LEMMA PostingKeeps ==
    ASSUME ConversationInv, NEW r \in Request, PostOutcome(r) = "post",
           NEW m \in Messages, NextMessage(m), Writes(m, r, grant, channel[r.draft.channel].next),
           channel' = [channel EXCEPT ![r.draft.channel].next = @ + 1],
           UNCHANGED <<grant, people, audience>>, preview' \subseteq preview
    PROVE  ConversationInv'
<1> USE DEF ConversationInv
<1> DEFINE d == r.draft
           c == d.channel
           new == [channel[c] EXCEPT !.next = channel[c].next + 1]
<1>1. d \in Draft /\ d.from \in Actors /\ c \in Channels
  BY DraftType DEF Request
<1>2. channel \in [Channels -> Channel]
  BY DEF AudienceInv, AudienceType
<1>3. channel' = [channel EXCEPT ![c] = new]
  BY <1>2
<1>4. /\ new \in Channel /\ new.kind = channel[c].kind /\ new.revision = channel[c].revision
      /\ new.next = channel[c].next + 1 /\ channel[c].next \in Nat \ {0}
  BY <1>1, <1>2, NumberType
<1> HIDE DEF new
<1>5. /\ channel' \in [Channels -> Channel] /\ channel'[c] = new
      /\ \A e \in Channels \ {c} : channel'[e] = channel[e]
  BY <1>1, <1>2, <1>3, <1>4
<1>6. \A e \in Channels : channel[e].next \in Nat
  BY <1>2 DEF Channel
<1>7. AudienceInv' /\ Moves /\ KeepsMembers
  <2>1. \A e \in Channels : /\ channel'[e].kind = channel[e].kind
                            /\ channel'[e].revision = channel[e].revision
                            /\ channel'[e].next >= channel[e].next
    BY <1>4, <1>5, <1>6
  <2>2. enrolled' \subseteq Humans /\ archived' \subseteq Agents /\ archived' = archived /\ link' = link
    BY DEF AudienceInv, AudienceType, people
  <2> QED  BY <1>5, <2>1, <2>2, StandingKeeps
<1>8. /\ d.from \in Participants(c) /\ r.revision = channel[c].revision /\ Wellformed(d)
  BY DEF PostOutcome
<1>9. /\ d.attention \subseteq Participants(c) \ {d.from}
      /\ d.respondent \in (Participants(c) \ {d.from}) \cup {None}
      /\ d.answers # 0 =>
            /\ Posted(d.answers) /\ response[d.answers].state = "open"
            /\ message[d.answers].request.draft.respondent = d.from
            /\ parentOf(d) # 0
            /\ message[parentOf(d)].thread = message[d.answers].thread
  BY <1>8 DEF Wellformed, parentOf
<1>10. channel[c].kind # "none" /\ \A g \in grant : g.channel = c => g.floor <= channel[c].next
  <2>1. PICK g \in grant : g.channel = c
    BY <1>8, MembersOf DEF Participants
  <2> QED  BY <2>1 DEF AudienceInv, GrantsAreOld, Known
<1>11. ~Posted(m) /\ Writes(m, r, grant', channel[c].next)
  BY DEF NextMessage
<1>12. channel'[c].kind # "none" /\ channel[c].next < channel'[c].next /\ r.revision = channel'[c].revision
  <2>1. channel'[c].kind = channel[c].kind /\ channel'[c].revision = channel[c].revision
        /\ channel'[c].next = channel[c].next + 1
    BY <1>4, <1>5
  <2> QED  BY <1>4, <1>8, <1>10, <2>1
<1> QED  BY <1>4, <1>7, <1>8, <1>9, <1>10, <1>11, <1>12, WritingKeeps DEF Participants

\* Store.ChannelPost
LEMMA PostKeeps ==
    ASSUME ConversationInv, NEW draft \in Drafts, NEW revision \in 1 .. MaxRevision,
           Post([draft |-> draft, revision |-> revision])
    PROVE  ConversationInv'
<1> DEFINE r == [draft |-> draft, revision |-> revision]
<1>1. r \in Request /\ r.draft = draft
  BY BoundsAreNat DEF Request, Draft
<1>2. PICK m \in Messages : NextMessage(m) /\ Writes(m, r, grant, channel[r.draft.channel].next)
  BY DEF Post
<1>3. /\ PostOutcome(r) = "post" /\ channel' = [channel EXCEPT ![r.draft.channel].next = @ + 1]
      /\ UNCHANGED <<grant, people, audience>> /\ preview' \subseteq preview
  BY DEF Post, daemon
<1> HIDE DEF r
<1> QED  BY <1>1, <1>2, <1>3, PostingKeeps

\* Store.ChannelContinuationCommit that opens the channel it posts into.
LEMMA OpeningContinuationKeeps ==
    ASSUME ConversationInv, NEW t \in preview, NEW key \in CommitKeys, ContinueNew(t, key)
    PROVE  ConversationInv'
<1> USE DEF ConversationInv
<1> DEFINE i == t.intent
<1>1. i \in Intents /\ i.kind # "into"
  BY DEF MessageInv, MessageType, ContinueNew
<1>2. i.kind \in {"dm", "named"} /\ i.actor \in i.members /\ i.actor \in Actors /\ i.members \in SUBSET Actors
  BY <1>1, IntentsAreTyped
<1>3. PICK c \in Channels, m \in Messages :
          LET r == [draft |-> continuation(i, c, key), revision |-> 1]
          IN  /\ OpensAs(c, i.members)
              /\ i.attention \cup ({i.respondent} \ {None}) \subseteq i.members \ {i.actor}
              /\ NextMessage(m) /\ Writes(m, r, grant', NewChannel(i.actor, i.kind).next)
              /\ channel' = [channel EXCEPT ![c] = [NewChannel(i.actor, i.kind) EXCEPT !.next = @ + 1]]
  BY DEF ContinueNew
<1>4. preview' \subseteq preview /\ RecordAudience /\ UNCHANGED people
  BY DEF ContinueNew, daemon
<1> DEFINE r == [draft |-> continuation(i, c, key), revision |-> 1]
           first == NewChannel(i.actor, i.kind)
           new == [first EXCEPT !.next = first.next + 1]
<1>5. first \in Channel /\ first.next = 2 /\ first.kind = i.kind /\ first.revision = 1
  BY <1>2 DEF NewChannel, Channel
<1>6. /\ OpensAs(c, i.members)
      /\ i.attention \cup ({i.respondent} \ {None}) \subseteq i.members \ {i.actor}
      /\ NextMessage(m) /\ Writes(m, r, grant', first.next)
      /\ channel' = [channel EXCEPT ![c] = new]
  <2>1. new = [first EXCEPT !.next = @ + 1]
    BY <1>5
  <2> HIDE DEF new
  <2> QED  BY <1>3, <2>1
<1> HIDE DEF first
<1>7. new \in Channel /\ new.kind = i.kind /\ new.revision = 1 /\ new.next = 3 /\ new.kind # "none"
  BY <1>2, <1>5, NumberType
<1> HIDE DEF new
<1>8. /\ AudienceInv' /\ Moves /\ KeepsMembers
      /\ \A g \in grant' \ grant : g.channel = c /\ g.floor = 0
      /\ \A g \in grant : g.channel # c
      /\ membersOf(grant', c) = i.members
  <2>1. AudienceInv /\ c \in Channels
    OBVIOUS
  <2>2. /\ ~Known(c) /\ grant' = grant \cup UNION {GrantsFor(c, a, 0) : a \in i.members}
        /\ \A a \in i.members : Joinable(a)
        /\ channel' = [channel EXCEPT ![c] = new]
    BY <1>6 DEF OpensAs, NextChannel
  <2>3. new \in Channel /\ new.kind # "none" /\ i.members \in SUBSET Actors
    BY <1>2, <1>7
  <2> HIDE DEF i, ConversationInv
  <2> QED  BY <1>4, <2>1, <2>2, <2>3, OpeningKeeps
<1>9. channel'[c] = new
  BY <1>6 DEF AudienceInv, AudienceType
<1>10. /\ r \in Request /\ r.draft.channel = c /\ r.draft.from = i.actor /\ r.draft.attention = i.attention
       /\ r.draft.respondent = i.respondent /\ r.draft.answers = 0 /\ r.revision = 1
  BY <1>1 DEF Request, Draft, continuation
<1> HIDE DEF r
<1>11. ~Posted(m) /\ Writes(m, r, grant', 2)
  BY <1>5, <1>6 DEF NextMessage
<1>12. \A g \in grant' : g.channel = c => g.floor <= 2
  BY <1>8
<1>13. /\ i.actor \in membersOf(grant', c)
       /\ i.attention \subseteq membersOf(grant', c) \ {i.actor}
       /\ i.respondent \in (membersOf(grant', c) \ {i.actor}) \cup {None}
  BY <1>2, <1>6, <1>8
<1>14. channel'[c].kind # "none" /\ 2 < channel'[c].next /\ channel'[c].revision = 1
  BY <1>7, <1>9
<1> QED  BY <1>4, <1>8, <1>10, <1>11, <1>12, <1>13, <1>14, WritingKeeps

-----------------------------------------------------------------------------
(* Rows that go on. *)

\* No member, channel or message changes, and rows only move on.
LEMMA RowsKeep ==
    ASSUME ConversationInv, MessageType',
           UNCHANGED <<channel, grant, link, audience, message>>,
           enrolled' \subseteq Humans, archived' \subseteq Agents,
           \A a \in archived' \ archived : ~\E g \in grant : g.actor = a,
           \A m \in Messages, a \in Actors :
              /\ Unsettled(delivery'[m][a]) => Unsettled(delivery[m][a])
              /\ delivery'[m][a].state = "none" <=> delivery[m][a].state = "none"
              /\ OpenJob(job'[m][a]) => OpenJob(job[m][a]),
           \A q \in Messages :
              /\ response'[q].state = "open" => response[q].state = "open"
              /\ response'[q].state = "answered" <=> response[q].state = "answered"
              /\ response[q].state = "answered" => response'[q].answer = response[q].answer
    PROVE  ConversationInv'
<1> USE DEF ConversationInv
<1>1. AudienceInv' /\ Moves /\ KeepsMembers
  <2>1. /\ channel' \in [Channels -> Channel]
        /\ \A c \in Channels : channel[c].next \in Nat
    BY DEF AudienceInv, AudienceType, Channel
  <2> QED  BY <2>1, StandingKeeps
<1>2. ASSUME NEW m \in Messages, NEW a \in Actors, Pends(m, a)'
      PROVE  Pends(m, a) /\ Entitled(a, m)'
  <2>1. Pends(m, a)
    BY <1>2 DEF Pends
  <2>2. Entitled(a, m)
    BY <2>1 DEF MessageInv, OwedToMembers
  <2> QED  BY <1>1, <2>1, <2>2, EntitledStays
<1>3. Quiet
  BY <1>2 DEF Quiet
<1> QED  BY <1>1, <1>3, QuietKeeps

LEMMA CellWritten ==
    ASSUME NEW S, NEW table \in [Messages -> [Actors -> S]], NEW m \in Messages, NEW a \in Actors, NEW row \in S
    PROVE  LET new == [table EXCEPT ![m][a] = row]
           IN  /\ new \in [Messages -> [Actors -> S]] /\ new[m][a] = row
               /\ \A n \in Messages, b \in Actors : (n = m /\ b = a) \/ new[n][b] = table[n][b]
OBVIOUS

\* One delivery is written: claimed, finished, or its lease runs out.
LEMMA DeliveryKeeps ==
    ASSUME ConversationInv, NEW m \in Messages, NEW a \in Actors, NEW row \in Row,
           Unsettled(delivery[m][a]), row.state # "none",
           delivery' = [delivery EXCEPT ![m][a] = row],
           job' = job \/ job' = [job EXCEPT ![m][a] = DoneJob(job[m][a])],
           UNCHANGED <<channel, grant, people, message, response, preview, audience>>
    PROVE  ConversationInv'
<1>1. /\ delivery \in [Messages -> [Actors -> Row]] /\ job \in [Messages -> [Actors -> Job]]
  BY DEF ConversationInv, MessageInv, MessageType
<1>2. /\ delivery' \in [Messages -> [Actors -> Row]] /\ delivery'[m][a] = row
      /\ \A n \in Messages, b \in Actors : (n = m /\ b = a) \/ delivery'[n][b] = delivery[n][b]
  BY <1>1, CellWritten
<1>3. DoneJob(job[m][a]) \in Job /\ ~OpenJob(DoneJob(job[m][a]))
  <2>1. job[m][a] \in Job
    BY <1>1
  <2> QED  BY <2>1 DEF DoneJob, OpenJob, Job
<1>4. /\ job' \in [Messages -> [Actors -> Job]]
      /\ \A n \in Messages, b \in Actors : job'[n][b] = job[n][b] \/ ~OpenJob(job'[n][b])
  <2>1. CASE job' = job
    BY <1>1, <2>1
  <2>2. CASE job' = [job EXCEPT ![m][a] = DoneJob(job[m][a])]
    <3> DEFINE done == DoneJob(job[m][a])
    <3> HIDE DEF done
    <3>1. done \in Job /\ ~OpenJob(done)
      BY <1>3 DEF done
    <3>2. job' = [job EXCEPT ![m][a] = done]
      BY <2>2 DEF done
    <3>3. /\ job' \in [Messages -> [Actors -> Job]] /\ job'[m][a] = done
          /\ \A n \in Messages, b \in Actors : (n = m /\ b = a) \/ job'[n][b] = job[n][b]
      BY <1>1, <3>1, <3>2, CellWritten
    <3> QED  BY <3>1, <3>3
  <2> QED  BY <2>1, <2>2
<1>5. MessageType'
  BY <1>2, <1>4 DEF ConversationInv, MessageInv, MessageType, Posted
<1>6. \A n \in Messages, b \in Actors :
          /\ Unsettled(delivery'[n][b]) => Unsettled(delivery[n][b])
          /\ delivery'[n][b].state = "none" <=> delivery[n][b].state = "none"
          /\ OpenJob(job'[n][b]) => OpenJob(job[n][b])
  BY <1>2, <1>4 DEF Unsettled
<1>7. enrolled' \subseteq Humans /\ archived' \subseteq Agents /\ archived' = archived /\ link' = link
  BY DEF people, ConversationInv, AudienceInv, AudienceType
<1> QED  BY <1>5, <1>6, <1>7, RowsKeep

\* Jobs are written, of those that are open.
LEMMA JobsKeep ==
    ASSUME ConversationInv, job' \in [Messages -> [Actors -> Job]],
           \A m \in Messages, a \in Actors : OpenJob(job'[m][a]) => OpenJob(job[m][a]),
           UNCHANGED <<channel, grant, people, message, delivery, response, preview, audience>>
    PROVE  ConversationInv'
<1>1. MessageType'
  BY DEF ConversationInv, MessageInv, MessageType, Posted
<1>2. enrolled' \subseteq Humans /\ archived' \subseteq Agents /\ archived' = archived /\ link' = link
  BY DEF people, ConversationInv, AudienceInv, AudienceType
<1> QED  BY <1>1, <1>2, RowsKeep

LEMMA JobKeeps ==
    ASSUME ConversationInv, NEW m \in Messages, NEW a \in Actors, NEW new \in Job,
           job' = [job EXCEPT ![m][a] = new], OpenJob(job[m][a]),
           UNCHANGED <<channel, grant, people, message, delivery, response, preview, audience>>
    PROVE  ConversationInv'
<1>1. job \in [Messages -> [Actors -> Job]]
  BY DEF ConversationInv, MessageInv, MessageType
<1>2. /\ job' \in [Messages -> [Actors -> Job]]
      /\ \A n \in Messages, b \in Actors : (n = m /\ b = a) \/ job'[n][b] = job[n][b]
  BY <1>1, CellWritten
<1> QED  BY <1>2, JobsKeep

\* What touches neither the channels nor their rows.
LEMMA OutsideKeeps ==
    ASSUME ConversationInv, UNCHANGED <<channel, grant, link, rows, audience>>,
           enrolled' \subseteq Humans, archived' \subseteq Agents,
           \A a \in archived' \ archived : ~\E g \in grant : g.actor = a,
           \A t \in preview' : /\ t.intent \in Intents /\ t.destination \in Channels \cup {0}
                               /\ t.destination = 0 => t.intent.kind # "into"
    PROVE  ConversationInv'
<1>1. UNCHANGED <<message, delivery, response, job>>
  BY DEF rows
<1>2. MessageType'
  BY <1>1 DEF ConversationInv, MessageInv, MessageType, Posted
<1> QED  BY <1>1, <1>2, RowsKeep

-----------------------------------------------------------------------------
(* The operations. *)

\* A change of the audience that leaves the rows alone.
LEMMA AudienceKeeps ==
    ASSUME ConversationInv, AudienceInv', Moves, KeepsMembers, UNCHANGED <<rows, preview>>
    PROVE  ConversationInv'
<1> USE DEF ConversationInv
<1>1. UNCHANGED <<message, delivery, response, job, preview>>
  BY DEF rows
<1>2. MessageType'
  BY <1>1 DEF MessageInv, MessageType, Posted
<1>3. ASSUME NEW m \in Messages, NEW a \in Actors, Pends(m, a)'
      PROVE  Pends(m, a) /\ Entitled(a, m)'
  <2>1. Pends(m, a)
    BY <1>1, <1>3 DEF Pends
  <2>2. Entitled(a, m)
    BY <2>1 DEF MessageInv, OwedToMembers
  <2> QED  BY <1>1, <2>1, <2>2, EntitledStays
<1>4. Quiet
  BY <1>1, <1>3 DEF Quiet
<1> QED  BY <1>2, <1>4, QuietKeeps

\* Store.ChannelCreate
LEMMA CreateKeeps ==
    ASSUME ConversationInv, NEW r \in Creations, CreateChannel(r)
    PROVE  ConversationInv'
<1>1. PICK c \in Channels : /\ OpensAs(c, r.members)
                            /\ channel' = [channel EXCEPT ![c] = NewChannel(r.actor, r.kind)]
  BY DEF CreateChannel
<1> DEFINE new == NewChannel(r.actor, r.kind)
<1>2. new \in Channel /\ new.kind # "none" /\ r.members \in SUBSET Actors
  BY CreationsAreTyped DEF NewChannel, Channel
<1>3. /\ ~Known(c) /\ grant' = grant \cup UNION {GrantsFor(c, a, 0) : a \in r.members}
      /\ \A a \in r.members : Joinable(a)
  BY <1>1 DEF OpensAs, NextChannel
<1>4. RecordAudience /\ UNCHANGED <<people, rows, preview>> /\ channel' = [channel EXCEPT ![c] = new]
  BY <1>1 DEF CreateChannel, daemon
<1> HIDE DEF new
<1>5. AudienceInv' /\ Moves /\ KeepsMembers
  BY <1>2, <1>3, <1>4, OpeningKeeps DEF ConversationInv
<1> QED  BY <1>4, <1>5, AudienceKeeps

\* Store.ChannelMembershipChange "remove": nothing of the member's is left open.
LEMMA RemoveKeeps ==
    ASSUME ConversationInv, NEW creator, NEW c \in Channels, NEW a \in Actors, RemoveMember(creator, c, a)
    PROVE  ConversationInv'
<1> USE DEF ConversationInv
<1> DEFINE here(m) == Posted(m) /\ Home(m) = c
<1>1. /\ AudienceInv' /\ Moves
      /\ \A g \in grant : g.source = Member /\ ~(g.channel = c /\ g.actor = a) => g \in grant'
  BY RemovingKeeps
<1>2. /\ delivery \in [Messages -> [Actors -> Row]] /\ job \in [Messages -> [Actors -> Job]]
      /\ response \in [Messages -> Asking]
  BY DEF MessageInv, MessageType
<1>3. /\ delivery' = [m \in Messages |-> [delivery[m] EXCEPT ![a] = IF here(m) THEN revokedRow(@) ELSE @]]
      /\ job' = [m \in Messages |-> [job[m] EXCEPT ![a] = IF here(m) /\ @.state # "none" THEN DoneJob(@) ELSE @]]
      /\ response' = [m \in Messages |->
                         IF here(m) /\ response[m].state = "open" /\ message[m].request.draft.respondent = a
                         THEN [response[m] EXCEPT !.state = "revoked"] ELSE response[m]]
      /\ UNCHANGED <<message, preview>>
  BY DEF RemoveMember, daemon
<1>4. ASSUME NEW row \in Row
      PROVE  /\ revokedRow(row) \in Row /\ ~Unsettled(revokedRow(row))
             /\ revokedRow(row).state = "none" <=> row.state = "none"
  BY DEF revokedRow, Row, Unsettled, NoToken
<1>5. ASSUME NEW j \in Job
      PROVE  DoneJob(j) \in Job /\ ~OpenJob(DoneJob(j))
  BY DEF DoneJob, OpenJob, Job
<1>6. ASSUME NEW m \in Messages, NEW x \in Actors
      PROVE  /\ delivery'[m] \in [Actors -> Row] /\ job'[m] \in [Actors -> Job]
             /\ x # a \/ ~here(m) => delivery'[m][x] = delivery[m][x] /\ job'[m][x] = job[m][x]
             /\ x = a /\ here(m) => ~Unsettled(delivery'[m][x]) /\ ~OpenJob(job'[m][x])
             /\ delivery'[m][x].state = "none" <=> delivery[m][x].state = "none"
  <2> DEFINE row == IF here(m) THEN revokedRow(delivery[m][a]) ELSE delivery[m][a]
             wake == IF here(m) /\ job[m][a].state # "none" THEN DoneJob(job[m][a]) ELSE job[m][a]
  <2>1. delivery[m] \in [Actors -> Row] /\ job[m] \in [Actors -> Job]
    BY <1>2
  <2>2. delivery'[m] = [delivery[m] EXCEPT ![a] = row] /\ job'[m] = [job[m] EXCEPT ![a] = wake]
    BY <1>3
  <2>3. row \in Row /\ wake \in Job /\ (here(m) => ~Unsettled(row) /\ ~OpenJob(wake))
        /\ (row.state = "none" <=> delivery[m][a].state = "none")
    <3>1. delivery[m][a] \in Row /\ job[m][a] \in Job
      BY <2>1
    <3>2. job[m][a].state = "none" => ~OpenJob(job[m][a])
      BY DEF OpenJob
    <3> HIDE DEF here
    <3> QED  BY <1>4, <1>5, <3>1, <3>2
  <2>4. ~here(m) => row = delivery[m][a] /\ wake = job[m][a]
    OBVIOUS
  <2> HIDE DEF row, wake, here
  <2> QED  BY <2>1, <2>2, <2>3, <2>4
<1>7. ASSUME NEW m \in Messages
      PROVE  /\ response'[m] \in Asking
             /\ response'[m].state = "open" =>
                   response[m].state = "open" /\ ~(here(m) /\ message[m].request.draft.respondent = a)
             /\ response'[m].state = "answered" <=> response[m].state = "answered"
             /\ response[m].state = "answered" => response'[m].answer = response[m].answer
  <2>1. [response[m] EXCEPT !.state = "revoked"] \in Asking
        /\ [response[m] EXCEPT !.state = "revoked"].state = "revoked"
    BY <1>2 DEF Asking
  <2> QED  BY <1>2, <1>3, <2>1
<1>8. MessageType'
  <2>1. delivery' \in [Messages -> [Actors -> Row]]
    <3>1. delivery' = [m \in Messages |-> delivery'[m]]
      BY <1>3
    <3> QED  BY <1>6, <3>1
  <2>2. job' \in [Messages -> [Actors -> Job]]
    <3>1. job' = [m \in Messages |-> job'[m]]
      BY <1>3
    <3> QED  BY <1>6, <3>1
  <2>3. response' \in [Messages -> Asking]
    <3>1. response' = [m \in Messages |-> response'[m]]
      BY <1>3
    <3> QED  BY <1>7, <3>1
  <2> QED  BY <1>3, <2>1, <2>2, <2>3 DEF MessageInv, MessageType, Posted
<1>9. ASSUME NEW m \in Messages, NEW x \in Actors, Pends(m, x)'
      PROVE  Pends(m, x) /\ Entitled(x, m)'
  <2>1. Pends(m, x) /\ ~(x = a /\ here(m))
    BY <1>3, <1>6, <1>7, <1>9 DEF Pends
  <2>2. Posted(m) /\ Entitled(x, m)
    BY <2>1 DEF MessageInv, OwedToMembers
  <2>3. PICK g \in grant : /\ g.actor = x /\ g.channel = Home(m) /\ g.source = Member
                           /\ g.floor <= message[m].seq
    BY <2>2 DEF Entitled
  <2>4. g \in grant'
    BY <1>1, <2>1, <2>2, <2>3
  <2> QED  BY <1>3, <2>1, <2>3, <2>4 DEF Entitled, Home
<1>10. Quiet
  BY <1>3, <1>6, <1>7, <1>9 DEF Quiet
<1> QED  BY <1>1, <1>8, <1>10, QuietKeeps

\* Store.ChannelMembershipChange "add"
LEMMA AddKeeps ==
    ASSUME ConversationInv, NEW creator, NEW c \in Channels, NEW a \in Actors, AddMember(creator, c, a)
    PROVE  ConversationInv'
<1>1. AudienceInv' /\ Moves /\ KeepsMembers
  BY AddingKeeps DEF ConversationInv
<1>2. UNCHANGED <<rows, preview>>
  BY DEF AddMember, daemon
<1> QED  BY <1>1, <1>2, AudienceKeeps

\* Store.SupervisionChange
LEMMA SuperviseKeeps ==
    ASSUME ConversationInv, NEW agent \in Agents, NEW h \in Humans \cup {None}, Supervise(agent, h)
    PROVE  ConversationInv'
<1>1. AudienceInv' /\ Moves /\ KeepsMembers
  BY SupervisingKeeps DEF ConversationInv
<1>2. UNCHANGED <<rows, preview>>
  BY DEF Supervise, daemon
<1> QED  BY <1>1, <1>2, AudienceKeeps

\* What only names actors: a found channel, an enrollment, an adoption, an archival.
LEMMA PeopleKeep ==
    ASSUME ConversationInv,
           \/ \E r \in Creations : FindDirect(r)
           \/ \E h \in Humans : Enroll(h)
           \/ \E a \in Agents : Adopt(a) \/ Archive(a)
    PROVE  ConversationInv'
<1>1. /\ enrolled \subseteq Humans /\ archived \subseteq Agents
      /\ \A t \in preview : /\ t.intent \in Intents /\ t.destination \in Channels \cup {0}
                            /\ t.destination = 0 => t.intent.kind # "into"
  BY DEF ConversationInv, AudienceInv, AudienceType, MessageInv, MessageType
<1>2. CASE \E r \in Creations : FindDirect(r)
  <2>1. UNCHANGED <<channel, grant, link, enrolled, archived, rows, preview, audience>>
    BY <1>2 DEF FindDirect, people, daemon
  <2> QED  BY <1>1, <2>1, OutsideKeeps
<1>3. CASE \E h \in Humans : Enroll(h)
  <2>1. /\ UNCHANGED <<channel, grant, link, archived, rows, preview, audience>>
        /\ enrolled' \subseteq Humans
    BY <1>1, <1>3 DEF Enroll, daemon
  <2> QED  BY <1>1, <2>1, OutsideKeeps
<1>4. CASE \E a \in Agents : Adopt(a)
  <2>1. UNCHANGED <<channel, grant, link, enrolled, archived, rows, preview, audience>>
    BY <1>4 DEF Adopt, daemon
  <2> QED  BY <1>1, <2>1, OutsideKeeps
<1>5. CASE \E a \in Agents : Archive(a)
  <2>1. PICK a \in Agents : Archive(a)
    BY <1>5
  <2>2. /\ UNCHANGED <<channel, grant, link, enrolled, rows, preview, audience>>
        /\ archived' = archived \cup {a} /\ ~\E g \in grant : g.actor = a
    BY <2>1 DEF Archive, Archivable, daemon
  <2> QED  BY <1>1, <2>2, OutsideKeeps
<1> QED  BY <1>2, <1>3, <1>4, <1>5

\* Store.ChannelContinuationPreflight
LEMMA PreflightKeeps ==
    ASSUME ConversationInv, NEW t \in Intents, Preflight(t)
    PROVE  ConversationInv'
<1> DEFINE old == IF t.kind = "dm" THEN SamePair(t.members) ELSE t.into
           shown(c) == IF old = {} THEN [members   |-> t.members,
                                         observers |-> supervisors(t.members)]
                       ELSE [members |-> Participants(c), observers |-> Observers(c)]
           written(c) == [intent |-> t, destination |-> c, source |-> channel[Home(t.source)].revision,
                          revision |-> IF old = {} THEN 0 ELSE channel[c].revision,
                          links |-> IF old = {} THEN Links(t.members) ELSE Links({}), shown |-> shown(c)]
<1>1. \E c \in (IF old = {} THEN {0} ELSE old) : preview' = {written(c)}
  BY Zenon DEF Preflight
<1>2. old \subseteq Channels /\ (t.kind = "into" => old # {})
  BY IntentsAreTyped DEF SamePair
<1>3. \A c \in (IF old = {} THEN {0} ELSE old) : c \in Channels \cup {0} /\ (c = 0 => t.kind # "into")
  BY <1>2, ChannelsAreNats
<1> HIDE DEF old, shown
<1>4. \A x \in preview' : /\ x.intent \in Intents /\ x.destination \in Channels \cup {0}
                          /\ x.destination = 0 => x.intent.kind # "into"
  BY <1>1, <1>3
<1>5. UNCHANGED <<channel, grant, link, enrolled, archived, rows, audience>>
  BY DEF Preflight, people
<1>6. enrolled \subseteq Humans /\ archived \subseteq Agents
  BY DEF ConversationInv, AudienceInv, AudienceType
<1> QED  BY <1>4, <1>5, <1>6, OutsideKeeps

\* Its other form, into a channel that exists.
LEMMA ContinuingKeeps ==
    ASSUME ConversationInv, NEW t \in preview, NEW key \in CommitKeys, ContinueInto(t, key)
    PROVE  ConversationInv'
<1>1. t.intent \in Intents /\ t.destination \in Channels
  BY IntoPosts DEF ConversationInv, MessageInv, MessageType
<1>2. UNCHANGED <<grant, people, daemon, audience>>
  BY IntoPosts
<1>3. CASE PostsInto(t, key)
  <2> DEFINE r == [draft |-> continuation(t.intent, t.destination, key), revision |-> channel[t.destination].revision]
  <2>1. r \in Request /\ r.draft.channel = t.destination
    <3>1. channel[t.destination].revision \in Nat
      BY <1>1 DEF ConversationInv, AudienceInv, AudienceType, Channel
    <3> QED  BY <1>1, <3>1 DEF Request, Draft, continuation
  <2>2. PICK m \in Messages : NextMessage(m) /\ Writes(m, r, grant, channel[t.destination].next)
    BY <1>3 DEF PostsInto
  <2>3. PostOutcome(r) = "post" /\ channel' = [channel EXCEPT ![t.destination].next = @ + 1]
    BY <1>3 DEF PostsInto
  <2>4. preview' \subseteq preview
    BY <1>2 DEF daemon
  <2> HIDE DEF r
  <2> QED  BY <1>2, <2>1, <2>2, <2>3, <2>4, PostingKeeps
<1>4. CASE UNCHANGED <<channel, rows>>
  <2>1. UNCHANGED <<channel, grant, link, enrolled, archived, rows, preview, audience>>
    BY <1>2, <1>4 DEF people, daemon
  <2>2. /\ enrolled \subseteq Humans /\ archived \subseteq Agents
        /\ \A u \in preview : /\ u.intent \in Intents /\ u.destination \in Channels \cup {0}
                              /\ u.destination = 0 => u.intent.kind # "into"
    BY DEF ConversationInv, AudienceInv, AudienceType, MessageInv, MessageType
  <2> QED  BY <2>1, <2>2, OutsideKeeps
<1> QED  BY <1>3, <1>4, IntoPosts

\* The token of a preview runs out.
LEMMA ExpiryKeeps ==
    ASSUME ConversationInv, NEW t \in preview, PreviewExpires(t)
    PROVE  ConversationInv'
<1>1. /\ enrolled \subseteq Humans /\ archived \subseteq Agents
      /\ \A u \in preview : /\ u.intent \in Intents /\ u.destination \in Channels \cup {0}
                            /\ u.destination = 0 => u.intent.kind # "into"
  BY DEF ConversationInv, AudienceInv, AudienceType, MessageInv, MessageType
<1>2. UNCHANGED <<channel, grant, link, enrolled, archived, rows, audience>> /\ preview' \subseteq preview
  BY DEF PreviewExpires, people
<1> QED  BY <1>1, <1>2, OutsideKeeps

\* The rows that claims and finishes write.
LEMMA ClaimedType ==
    ASSUME NEW row \in Row
    PROVE  claimedRow(row) \in Row /\ claimedRow(row).state = "claimed"
<1> DEFINE n == row.attempt + 1
<1>1. n \in Nat
  BY DEF Row
<1>2. claimedRow(row) = [row EXCEPT !.state = "claimed", !.attempt = n, !.token = n, !.lease = "running"]
  BY DEF claimedRow
<1> HIDE DEF n
<1> QED  BY <1>1, <1>2 DEF Row

LEMMA FinishedType ==
    ASSUME NEW row \in Row, NEW token \in Nat, NEW next \in {"acked", "dead", "queued"}
    PROVE  finishedRow(row, token, next) \in Row /\ finishedRow(row, token, next).state = next
BY DEF finishedRow, Row, NoToken

\* Store.ChannelClaim
LEMMA ClaimKeeps ==
    ASSUME ConversationInv, NEW a \in Actors, NEW m \in Messages, Claim(a, m)
    PROVE  ConversationInv'
<1> DEFINE old == delivery[m][a]
           row == claimedRow(old)
<1>1. old \in Row /\ job \in [Messages -> [Actors -> Job]] /\ delivery \in [Messages -> [Actors -> Row]]
  BY DEF ConversationInv, MessageInv, MessageType
<1>2. old.state \in {"queued", "claimed"}
  BY DEF Claim
<1>3. row \in Row /\ row.state = "claimed"
  BY <1>1, ClaimedType
<1>4. delivery' = [delivery EXCEPT ![m][a] = row]
  BY DEF Claim
<1>5. job' = job \/ job' = [job EXCEPT ![m][a] = DoneJob(job[m][a])]
  <2>1. job' = [job EXCEPT ![m][a] = IF job[m][a].state = "none" THEN job[m][a] ELSE DoneJob(job[m][a])]
    BY DEF Claim
  <2>2. job = [job EXCEPT ![m][a] = job[m][a]]
    BY <1>1
  <2> QED  BY <2>1, <2>2
<1>6. UNCHANGED <<channel, grant, people, message, response, preview, audience>>
  BY DEF Claim, daemon
<1>7. Unsettled(old)
  BY <1>2 DEF Unsettled
<1> HIDE DEF row
<1> QED  BY <1>3, <1>4, <1>5, <1>6, <1>7, DeliveryKeeps

\* Store.ChannelDeliveryUpdate
LEMMA UpdateKeeps ==
    ASSUME ConversationInv, NEW a \in Actors, NEW m \in Messages, NEW token \in 1 .. MaxClaims,
           NEW next \in {"acked", "dead", "queued"}, DeliveryUpdate(a, m, token, next)
    PROVE  ConversationInv'
<1> DEFINE old == delivery[m][a]
           row == finishedRow(old, token, next)
<1>1. old \in Row
  BY DEF ConversationInv, MessageInv, MessageType
<1>2. old.state = "claimed"
  BY DEF DeliveryUpdate, finishDeliveryState
<1>3. row \in Row /\ row.state = next
  <2>1. token \in Nat
    BY BoundsAreNat
  <2> QED  BY <1>1, <2>1, FinishedType
<1>4. delivery' = [delivery EXCEPT ![m][a] = row]
  BY DEF DeliveryUpdate
<1>5. UNCHANGED <<channel, grant, people, message, response, job, preview, audience>>
  BY DEF DeliveryUpdate, daemon
<1>6. Unsettled(old)
  BY <1>2 DEF Unsettled
<1> HIDE DEF row
<1> QED  BY <1>3, <1>4, <1>5, <1>6, DeliveryKeeps

LEMMA LapseKeeps ==
    ASSUME ConversationInv, NEW a \in Actors, NEW m \in Messages, LeaseLapses(a, m)
    PROVE  ConversationInv'
<1> DEFINE row == [delivery[m][a] EXCEPT !.lease = "lapsed"]
<1>1. delivery \in [Messages -> [Actors -> Row]] /\ delivery[m][a] \in Row
  BY DEF ConversationInv, MessageInv, MessageType
<1>2. row \in Row /\ row.state = delivery[m][a].state
  BY <1>1 DEF Row
<1>3. delivery' = [delivery EXCEPT ![m][a] = row]
  BY DEF LeaseLapses
<1>4. UNCHANGED <<channel, grant, link, enrolled, archived, message, response, job, preview, audience>>
  BY DEF LeaseLapses, people, daemon
<1> HIDE DEF row
<1>5. /\ delivery' \in [Messages -> [Actors -> Row]] /\ delivery'[m][a] = row
      /\ \A n \in Messages, b \in Actors : (n = m /\ b = a) \/ delivery'[n][b] = delivery[n][b]
  BY <1>1, <1>2, <1>3, CellWritten
<1>6. MessageType'
  BY <1>4, <1>5 DEF ConversationInv, MessageInv, MessageType, Posted
<1>7. \A n \in Messages, b \in Actors :
          /\ Unsettled(delivery'[n][b]) => Unsettled(delivery[n][b])
          /\ delivery'[n][b].state = "none" <=> delivery[n][b].state = "none"
  BY <1>2, <1>5 DEF Unsettled
<1>8. enrolled' \subseteq Humans /\ archived' \subseteq Agents
  BY <1>4 DEF ConversationInv, AudienceInv, AudienceType
<1> QED  BY <1>4, <1>6, <1>7, <1>8, RowsKeep

\* Store.ChannelResponseResolve
LEMMA ResolveKeeps ==
    ASSUME ConversationInv, NEW a \in Actors, NEW m \in Messages,
           NEW verdict \in {"declined", "withdrawn"}, Resolve(a, m, verdict)
    PROVE  ConversationInv'
<1> DEFINE new == [response[m] EXCEPT !.state = verdict]
<1>1. response \in [Messages -> Asking] /\ response[m].state = "open"
  BY DEF ConversationInv, MessageInv, MessageType, Resolve, Resolvable
<1>2. new \in Asking /\ new.state = verdict
  BY <1>1 DEF Asking
<1>3. response' = [response EXCEPT ![m] = new]
  BY DEF Resolve
<1>4. UNCHANGED <<channel, grant, link, enrolled, archived, message, delivery, job, preview, audience>>
  BY DEF Resolve, people, daemon
<1> HIDE DEF new
<1>5. response' \in [Messages -> Asking] /\ response'[m] = new
      /\ \A q \in Messages \ {m} : response'[q] = response[q]
  BY <1>1, <1>2, <1>3
<1>6. MessageType'
  BY <1>4, <1>5 DEF ConversationInv, MessageInv, MessageType, Posted
<1>7. \A q \in Messages :
          /\ response'[q].state = "open" => response[q].state = "open"
          /\ response'[q].state = "answered" <=> response[q].state = "answered"
          /\ response[q].state = "answered" => response'[q].answer = response[q].answer
  BY <1>1, <1>2, <1>5
<1>8. enrolled' \subseteq Humans /\ archived' \subseteq Agents
  BY <1>4 DEF ConversationInv, AudienceInv, AudienceType
<1> QED  BY <1>4, <1>6, <1>7, <1>8, RowsKeep

\* Store.ClaimManagedNotification and the passing of time.
LEMMA WakeKeeps ==
    ASSUME ConversationInv, NEW m \in Messages, NEW a \in Actors,
           ClaimManagedNotification(m, a) \/ JobDue(m, a)
    PROVE  ConversationInv'
<1>1. job \in [Messages -> [Actors -> Job]] /\ job[m][a] \in Job
  BY DEF ConversationInv, MessageInv, MessageType
<1>2. CASE ClaimManagedNotification(m, a)
  <2> DEFINE n   == job[m][a].attempt + 1
             new == [state |-> "processing", attempt |-> n, due |-> FALSE]
  <2>1. n \in Nat
    BY <1>1 DEF Job
  <2>2. job' = [job EXCEPT ![m][a] = new] /\ OpenJob(job[m][a])
    BY <1>2 DEF ClaimManagedNotification, OpenJob
  <2>3. UNCHANGED <<channel, grant, people, message, delivery, response, preview, audience>>
    BY <1>2 DEF ClaimManagedNotification
  <2> HIDE DEF n
  <2>4. new \in Job
    BY <2>1 DEF Job
  <2> HIDE DEF new
  <2> QED  BY <2>2, <2>3, <2>4, JobKeeps
<1>3. CASE JobDue(m, a)
  <2> DEFINE new == [job[m][a] EXCEPT !.due = TRUE]
  <2>1. job' = [job EXCEPT ![m][a] = new] /\ OpenJob(job[m][a])
    BY <1>3 DEF JobDue
  <2>2. UNCHANGED <<channel, grant, people, message, delivery, response, preview, audience>>
    BY <1>3 DEF JobDue, daemon
  <2>3. new \in Job
    BY <1>1 DEF Job
  <2> HIDE DEF new
  <2> QED  BY <2>1, <2>2, <2>3, JobKeeps
<1> QED  BY <1>2, <1>3

\* Store.FinishManagedNotification
LEMMA FinishKeeps ==
    ASSUME ConversationInv, FinishManagedNotification
    PROVE  ConversationInv'
<1>1. job \in [Messages -> [Actors -> Job]]
  BY DEF ConversationInv, MessageInv, MessageType
<1>2. PICK next \in {"accepted", "pending", "done"} :
         job' = [job EXCEPT ![worker.msg][worker.actor] = finishedJob(job[worker.msg][worker.actor], worker, next)]
  BY DEF FinishManagedNotification
<1>3. UNCHANGED <<channel, grant, people, message, delivery, response, preview, audience>>
  BY DEF FinishManagedNotification
<1>4. CASE worker.msg \in Messages /\ worker.actor \in Actors
  <2> DEFINE m   == worker.msg
             a   == worker.actor
             old == job[m][a]
             new == finishedJob(old, worker, next)
  <2>1. old \in Job /\ m \in Messages /\ a \in Actors /\ job' = [job EXCEPT ![m][a] = new]
    BY <1>1, <1>2, <1>4
  <2>2. new \in Job /\ (OpenJob(new) => OpenJob(old))
    BY <2>1 DEF finishedJob, Job, OpenJob
  <2> HIDE DEF new, m, a
  <2>3. /\ job' \in [Messages -> [Actors -> Job]] /\ job'[m][a] = new
        /\ \A n \in Messages, b \in Actors : (n = m /\ b = a) \/ job'[n][b] = job[n][b]
    BY <1>1, <2>1, <2>2, CellWritten
  <2> QED  BY <1>3, <2>2, <2>3, JobsKeep
<1>5. CASE ~(worker.msg \in Messages /\ worker.actor \in Actors)
  <2>1. job' = job
    BY <1>1, <1>2, <1>5
  <2> QED  BY <1>1, <1>3, <2>1, JobsKeep
<1> QED  BY <1>4, <1>5

\* Store.RearmStaleManagedNotifications
LEMMA RearmKeeps ==
    ASSUME ConversationInv, Rearm
    PROVE  ConversationInv'
<1> DEFINE stale(m, a) == Rearmable(job[m][a]) /\ a \in ready /\ Wanted(m, a)
<1>1. job \in [Messages -> [Actors -> Job]]
  BY DEF ConversationInv, MessageInv, MessageType
<1>2. /\ job' = [m \in Messages |-> [a \in Actors |->
                   IF stale(m, a) THEN [job[m][a] EXCEPT !.state = "pending"] ELSE job[m][a]]]
      /\ UNCHANGED <<channel, grant, people, message, delivery, response, preview, audience>>
  BY DEF Rearm, daemon
<1>3. ASSUME NEW j \in Job, Rearmable(j)
      PROVE  [j EXCEPT !.state = "pending"] \in Job /\ OpenJob(j)
  BY <1>3 DEF Job, OpenJob, Rearmable
<1>4. ASSUME NEW m \in Messages, NEW a \in Actors
      PROVE  job'[m][a] \in Job /\ (OpenJob(job'[m][a]) => OpenJob(job[m][a]))
  <2>1. stale(m, a) => Rearmable(job[m][a])
    OBVIOUS
  <2>2. job'[m][a] = IF stale(m, a) THEN [job[m][a] EXCEPT !.state = "pending"] ELSE job[m][a]
    BY <1>2
  <2> HIDE DEF stale
  <2> QED  BY <1>1, <1>3, <2>1, <2>2
<1>5. job' = [m \in Messages |-> [a \in Actors |-> job'[m][a]]]
  BY <1>2
<1> HIDE DEF stale
<1> QED  BY <1>2, <1>4, <1>5, JobsKeep

\* What only concerns the daemon: registrations, adapter calls, its end.
LEMMA DaemonKeeps ==
    ASSUME ConversationInv,
           \/ \E a \in Agents : Enable(a) \/ Reset(a)
           \/ \E outcome \in {"accepted", "retry", "complete"} : Notify(outcome)
           \/ Crash
    PROVE  ConversationInv'
<1>1. /\ enrolled \subseteq Humans /\ archived \subseteq Agents
      /\ \A t \in preview : /\ t.intent \in Intents /\ t.destination \in Channels \cup {0}
                            /\ t.destination = 0 => t.intent.kind # "into"
  BY DEF ConversationInv, AudienceInv, AudienceType, MessageInv, MessageType
<1>2. /\ UNCHANGED <<channel, grant, link, enrolled, archived, rows, audience>>
      /\ preview' = preview \/ preview' = {}
  BY DEF Enable, Reset, Notify, Crash, people
<1> QED  BY <1>1, <1>2, OutsideKeeps

-----------------------------------------------------------------------------
(* The invariant holds. *)

LEMMA ConversationInit ==
    Init => ConversationInv
<1> SUFFICES ASSUME Init PROVE ConversationInv
  OBVIOUS
<1>1. \A c \in Channels : channel[c] \in Channel /\ ~Known(c)
  BY DEF Init, NoChannel, Channel, Known
<1>2. AudienceType
  BY <1>1 DEF Init, AudienceType
<1>3. AudienceInv
  <2>1. \A c \in Channels : Participants(c) = {}
    BY DEF Init, Participants, membersOf
  <2> QED  BY <1>2, <2>1 DEF Init, AudienceInv, GrantsAreOld, ReadersSupervise, SupervisorsRead,
                             AudienceIsCurrent, ArchivedIsNoParticipant
<1>4. /\ \A m \in Messages : message[m] = NoMessage /\ response[m] = NoRequest
      /\ \A m \in Messages, a \in Actors : delivery[m][a] = NoRow /\ job[m][a] = NoJob
  BY DEF Init
<1>5. NoRow \in Row /\ NoJob \in Job /\ NoRequest \in Asking
  BY DEF NoRow, NoJob, NoRequest, Row, Job, Asking, NoToken
<1>6. \A m \in Messages : ~Posted(m)
  BY <1>4 DEF NoMessage, Posted
<1>7. MessageType
  <2>1. NoMessage \in [request : Request \cup {None}, seq : Nat, thread : Messages \cup {0}]
    BY DEF NoMessage
  <2> QED  BY <1>5, <1>6, <2>1 DEF Init, MessageType
<1>8. \A m \in Messages, a \in Actors : ~Pends(m, a)
  BY <1>4 DEF NoRow, NoJob, NoRequest, Pends, Unsettled, OpenJob
<1> QED  BY <1>3, <1>4, <1>6, <1>7, <1>8
         DEF ConversationInv, MessageInv, MessagesAreNumbered, RowsAreCurrent, OwedToMembers, Answers,
             OnlyTheAnsweredIsAnswered, AnsweredByRespondent, PostReachesShownAudience, NoRequest

LEMMA ConversationStep ==
    ConversationInv /\ [Next]_vars => ConversationInv'
<1> SUFFICES ASSUME ConversationInv, [Next]_vars PROVE ConversationInv'
  OBVIOUS
<1>1. CASE AudienceStep
  <2>1. CASE \E r \in Creations : CreateChannel(r)
    BY <2>1, CreateKeeps
  <2>2. CASE \E creator \in Actors, c \in Channels, a \in Admissible :
                AddMember(creator, c, a) \/ RemoveMember(creator, c, a)
    BY <2>2, AddKeeps, RemoveKeeps, BoundsAreActors
  <2>3. CASE \E agent \in Supervised, h \in Humans \cup {None} : Supervise(agent, h)
    BY <2>3, SuperviseKeeps, BoundsAreActors
  <2>4. CASE \/ \E r \in Creations : FindDirect(r)
             \/ \E h \in Humans : Enroll(h)
             \/ \E a \in Agents : Adopt(a) \/ Archive(a)
    BY <2>4, PeopleKeep
  <2> QED  BY <1>1, <2>1, <2>2, <2>3, <2>4 DEF AudienceStep
<1>2. CASE MessageStep
  <2>1. CASE \E draft \in Drafts, revision \in 1 .. MaxRevision : Post([draft |-> draft, revision |-> revision])
    BY <2>1, PostKeeps
  <2>2. CASE \E t \in Intents : Preflight(t)
    BY <2>2, PreflightKeeps
  <2>3. CASE \E t \in preview, key \in CommitKeys : ContinueInto(t, key) \/ ContinueNew(t, key)
    BY <2>3, ContinuingKeeps, OpeningContinuationKeeps
  <2>7. CASE \E t \in preview : PreviewExpires(t)
    BY <2>7, ExpiryKeeps
  <2>4. CASE \E a \in Actors, m \in Messages : Claim(a, m) \/ LeaseLapses(a, m)
    BY <2>4, ClaimKeeps, LapseKeeps
  <2>5. CASE \E a \in Actors, m \in Messages, token \in 1 .. MaxClaims, next \in {"acked", "dead", "queued"} :
                DeliveryUpdate(a, m, token, next)
    BY <2>5, UpdateKeeps
  <2>6. CASE \E a \in Actors, m \in Messages, verdict \in {"declined", "withdrawn"} : Resolve(a, m, verdict)
    BY <2>6, ResolveKeeps
  <2> QED  BY <1>2, <2>1, <2>2, <2>3, <2>4, <2>5, <2>6, <2>7 DEF MessageStep
<1>3. CASE AttentionStep
  <2>1. CASE \E m \in Messages, a \in Actors : ClaimManagedNotification(m, a) \/ JobDue(m, a)
    BY <2>1, WakeKeeps
  <2>2. CASE FinishManagedNotification
    BY <2>2, FinishKeeps
  <2>3. CASE Rearm
    BY <2>3, RearmKeeps
  <2>4. CASE \/ \E a \in Agents : Enable(a) \/ Reset(a)
             \/ \E outcome \in {"accepted", "retry", "complete"} : Notify(outcome)
             \/ Crash
    BY <2>4, DaemonKeeps
  <2> QED  BY <1>3, <2>1, <2>2, <2>3, <2>4 DEF AttentionStep
<1>4. CASE UNCHANGED vars
  <2>1. UNCHANGED <<channel, grant, link, enrolled, archived, rows, preview, audience>>
    BY <1>4 DEF vars, people, daemon
  <2>2. /\ enrolled \subseteq Humans /\ archived \subseteq Agents
        /\ \A t \in preview : /\ t.intent \in Intents /\ t.destination \in Channels \cup {0}
                              /\ t.destination = 0 => t.intent.kind # "into"
    BY DEF ConversationInv, AudienceInv, AudienceType, MessageInv, MessageType
  <2> QED  BY <2>1, <2>2, OutsideKeeps
<1> QED  BY <1>1, <1>2, <1>3, <1>4 DEF Next

\* The invariant behind the theorems below, in every behaviour.
THEOREM ConversationInvariance == Spec => []ConversationInv
<1> QED  BY ConversationInit, ConversationStep, PTL DEF Spec

-----------------------------------------------------------------------------
(* What it says. *)

\* A message was delivered to exactly the participants that channel.get showed
\* under the revision its author named: channelPostTx compares that revision
\* with the channel's in the transaction that writes the deliveries.
THEOREM PostsReachTheShown == Spec => []PostReachesShownAudience
<1>1. ConversationInv => PostReachesShownAudience
  BY DEF ConversationInv, MessageInv
<1> QED  BY <1>1, ConversationInvariance, PTL

\* Unsettled deliveries, open wakes and open response requests belong to current
\* participants whose history reaches back to the message: whatever ends a
\* membership revokes what the member has open, in the same transaction.
THEOREM NothingIsOwedByTheRemoved == Spec => []NothingPendsOnTheRemoved
<1>1. ConversationInv => NothingPendsOnTheRemoved
  BY DEF ConversationInv, MessageInv, OwedToMembers, Pends, NothingPendsOnTheRemoved
<1> QED  BY <1>1, ConversationInvariance, PTL

\* An answered request has one answer, its respondent's, in its own thread, and
\* a declined, withdrawn or revoked one has none (channelPostTx's and
\* ChannelResponseResolve's checks of the open request).
THEOREM RequestsAreAnsweredOnce == Spec => []AnsweredExactlyOnce
<1>1. ASSUME ConversationInv, NEW q \in Messages
      PROVE  LET answers == {m \in Messages : Posted(m) /\ message[m].request.draft.answers = q}
             IN  IF response[q].state = "answered"
                 THEN /\ answers = {response[q].answer}
                      /\ Author(response[q].answer) = message[q].request.draft.respondent
                      /\ message[response[q].answer].thread = message[q].thread
                 ELSE answers = {}
  <2> DEFINE answers == {m \in Messages : Posted(m) /\ message[m].request.draft.answers = q}
  <2>1. \A x \in answers : response[q].state = "answered" /\ response[q].answer = x
    BY <1>1 DEF ConversationInv, MessageInv, OnlyTheAnsweredIsAnswered, Answers
  <2>2. CASE response[q].state = "answered"
    <3>1. PICK x \in Messages : /\ response[q].answer = x /\ Answers(x, q)
                                /\ Author(x) = message[q].request.draft.respondent
                                /\ message[x].thread = message[q].thread
      BY <1>1, <2>2 DEF ConversationInv, MessageInv, AnsweredByRespondent
    <3>2. x \in answers
      BY <3>1 DEF Answers
    <3> HIDE DEF answers
    <3>3. answers = {x}
      BY <2>1, <3>1, <3>2
    <3> QED  BY <2>2, <3>1, <3>3 DEF answers
  <2>3. CASE response[q].state # "answered"
    BY <2>1, <2>3
  <2> QED  BY <2>2, <2>3
<1>2. ConversationInv => AnsweredExactlyOnce
  BY <1>1 DEF AnsweredExactlyOnce
<1> QED  BY <1>2, ConversationInvariance, PTL

\* The observers of a channel are the current supervisors of its current
\* participants: every admission, removal and SupervisionChange moves both
\* together (channelGrantTx).
THEOREM ObserversAreTheDeclared == Spec => []ObserversAreDeclared
<1>1. ASSUME ConversationInv, NEW c \in Channels
      PROVE  {<<g.actor, g.source>> : g \in {x \in grant : x.channel = c /\ x.source # Member}}
                 = {<<link[a].human, a>> : a \in {x \in Participants(c) \cap Agents : link[x].human # None}}
  <2> DEFINE reading  == {x \in grant : x.channel = c /\ x.source # Member}
             watched  == {x \in Participants(c) \cap Agents : link[x].human # None}
  <2>1. ASSUME NEW g \in reading
        PROVE  g.source \in watched /\ g.actor = link[g.source].human
    BY <1>1 DEF ConversationInv, AudienceInv, ReadersSupervise
  <2>2. ASSUME NEW a \in watched
        PROVE  \E g \in reading : g.source = a /\ g.actor = link[a].human
    <3>1. PICK g \in grant : g.channel = c /\ g.source = a /\ g.actor = link[a].human
      BY <1>1 DEF ConversationInv, AudienceInv, SupervisorsRead
    <3>2. a # Member
      BY MemberIsNobody DEF Actors
    <3> QED  BY <3>1, <3>2
  <2> HIDE DEF reading, watched
  <2>3. ASSUME NEW x
        PROVE  x \in {<<g.actor, g.source>> : g \in reading} <=> x \in {<<link[a].human, a>> : a \in watched}
    <3>1. ASSUME NEW g \in reading, x = <<g.actor, g.source>>
          PROVE  \E a \in watched : x = <<link[a].human, a>>
      BY <2>1, <3>1
    <3>2. ASSUME NEW a \in watched, x = <<link[a].human, a>>
          PROVE  \E g \in reading : x = <<g.actor, g.source>>
      BY <2>2, <3>2
    <3> QED  BY <3>1, <3>2
  <2>4. {<<g.actor, g.source>> : g \in reading} = {<<link[a].human, a>> : a \in watched}
    BY <2>3
  <2> QED  BY <2>4 DEF reading, watched
<1>2. ConversationInv => ObserversAreDeclared
  BY <1>1 DEF ObserversAreDeclared
<1> QED  BY <1>2, ConversationInvariance, PTL

\* An archived actor takes part in no conversation: ArchiveActor refuses one
\* with a grant, and admissions, creations and continuations an archived one.
THEOREM ArchivedStayOut == Spec => []ArchivedIsNoParticipant
<1>1. ConversationInv => ArchivedIsNoParticipant
  BY DEF ConversationInv, AudienceInv
<1> QED  BY <1>1, ConversationInvariance, PTL

-----------------------------------------------------------------------------
(* History. *)

\* Messages are for ever, and new grants do not reach back to them.
Forward ==
    /\ \A m \in Messages : Posted(m) => message'[m] = message[m]
    /\ \A g \in grant' \ grant : ~Known(g.channel) \/ g.floor >= channel[g.channel].next

LEMMA WritingIsForward ==
    ASSUME ConversationInv, NEW m \in Messages, NextMessage(m), NEW r, NEW grants, NEW seq, Writes(m, r, grants, seq)
    PROVE  \A n \in Messages : Posted(n) => message'[n] = message[n]
BY DEF ConversationInv, MessageInv, MessageType, NextMessage, Writes

LEMMA StepIsForward ==
    ASSUME ConversationInv, [Next]_vars
    PROVE  Forward
<1> SUFFICES ASSUME ~UNCHANGED <<grant, message>> PROVE Forward
  BY DEF Forward
<1>1. CASE \E r \in Creations : CreateChannel(r)
  <2>1. PICK r \in Creations, c \in Channels : OpensAs(c, r.members)
    BY <1>1 DEF CreateChannel
  <2>2. \A g \in grant' \ grant : g.channel = c
    BY <2>1 DEF OpensAs, GrantsFor
  <2> QED  BY <1>1, <2>1, <2>2 DEF CreateChannel, Forward, OpensAs, NextChannel, rows
<1>2. CASE \E creator \in Actors, c \in Channels, a \in Admissible :
              AddMember(creator, c, a) \/ RemoveMember(creator, c, a)
  <2>1. PICK creator \in Actors, c \in Channels, a \in Actors :
                 AddMember(creator, c, a) \/ RemoveMember(creator, c, a)
    BY <1>2, BoundsAreActors
  <2>2. Moves
    BY <2>1, AddingKeeps, RemovingKeeps DEF ConversationInv
  <2>3. UNCHANGED message
    BY <2>1 DEF AddMember, RemoveMember, rows
  <2> QED  BY <2>2, <2>3 DEF Moves, Forward
<1>3. CASE \E agent \in Supervised, h \in Humans \cup {None} : Supervise(agent, h)
  <2>1. PICK agent \in Agents, h \in Humans \cup {None} : Supervise(agent, h)
    BY <1>3, BoundsAreActors
  <2>2. Moves
    BY <2>1, SupervisingKeeps DEF ConversationInv
  <2>3. UNCHANGED message
    BY <2>1 DEF Supervise, rows
  <2> QED  BY <2>2, <2>3 DEF Moves, Forward
<1>4. CASE \/ \E draft \in Drafts, revision \in 1 .. MaxRevision : Post([draft |-> draft, revision |-> revision])
           \/ \E t \in preview, key \in CommitKeys : ContinueInto(t, key)
  <2>1. UNCHANGED grant
    BY <1>4, IntoPosts DEF Post
  <2>2. UNCHANGED message \/ \E r, seq : \E m \in Messages : NextMessage(m) /\ Writes(m, r, grant, seq)
    BY <1>4, IntoPosts DEF Post, PostsInto, rows
  <2> QED  BY <2>1, <2>2, WritingIsForward DEF Forward
<1>5. CASE \E t \in preview, key \in CommitKeys : ContinueNew(t, key)
  <2>1. PICK t \in preview, c \in Channels, m \in Messages :
          /\ OpensAs(c, t.intent.members)
          /\ NextMessage(m)
          /\ \E r, seq : Writes(m, r, grant', seq)
    BY <1>5 DEF ContinueNew
  <2>2. \A g \in grant' \ grant : g.channel = c
    BY <2>1 DEF OpensAs, GrantsFor
  <2>3. \A n \in Messages : Posted(n) => message'[n] = message[n]
    BY <2>1, WritingIsForward
  <2> QED  BY <2>1, <2>2, <2>3 DEF Forward, OpensAs, NextChannel
<1>6. CASE UNCHANGED vars
  BY <1>6 DEF vars, rows
<1>7. CASE AudienceStep
  BY <1>1, <1>2, <1>3, <1>7 DEF AudienceStep, FindDirect, Enroll, Adopt, Archive, rows
<1>8. CASE MessageStep
  <2>1. CASE \E t \in Intents : Preflight(t)
    BY <2>1 DEF Preflight, rows
  <2>2. CASE UNCHANGED <<channel, operations, grant, people, message, daemon, audience>>
    BY <2>2
  <2>3. CASE \E t \in preview : PreviewExpires(t)
    BY <2>3 DEF PreviewExpires, rows
  <2> QED  BY <1>4, <1>5, <1>8, <2>1, <2>2, <2>3, MessageSteps
<1>9. CASE AttentionStep
  BY <1>9 DEF AttentionStep, Enable, Reset, ClaimManagedNotification, JobDue, Notify, FinishManagedNotification,
              Rearm, Crash, rows
<1> QED  BY <1>6, <1>7, <1>8, <1>9 DEF Next

\* A message that somebody cannot read stays unreadable to them, through
\* admissions, removals, readmissions and changes of supervisor: every grant
\* made later starts at a number that no message has (channelGrantTx).
THEOREM HistoryIsJoinForward == Spec => JoinForward
<1>1. ASSUME ConversationInv, [Next]_vars, NEW m \in Messages, NEW a \in Actors, Posted(m), ~Visible(a, m)
      PROVE  ~Visible(a, m)'
  <2>1. Forward
    BY <1>1, StepIsForward
  <2>2. /\ Known(Home(m)) /\ message[m].seq < channel[Home(m)].next
        /\ message[m].seq \in Nat /\ channel[Home(m)].next \in Nat
    BY <1>1, PostedType DEF ConversationInv, MessageInv, MessagesAreNumbered, AudienceInv, AudienceType, Channel
  <2>3. message'[m] = message[m]
    BY <1>1, <2>1 DEF Forward
  <2>4. ASSUME NEW g \in grant', g.actor = a, g.channel = Home(m), g.floor <= message[m].seq
        PROVE  FALSE
    <3>1. g \notin grant
      BY <1>1, <2>4 DEF Visible
    <3>2. g.floor >= channel[Home(m)].next
      BY <2>1, <2>2, <2>4, <3>1 DEF Forward
    <3>3. AudienceType'
      BY <1>1, ConversationStep DEF ConversationInv, AudienceInv
    <3>4. g.floor \in Nat
      BY <3>3 DEF AudienceType, Grant
    <3> QED  BY <2>2, <2>4, <3>2, <3>4
  <2> QED  BY <2>3, <2>4 DEF Visible, Home
<1>2. ConversationInv /\ [Next]_vars =>
         [\A m \in Messages, a \in Actors : Posted(m) /\ ~Visible(a, m) => ~Visible(a, m)']_vars
  BY <1>1
<1> QED  BY <1>2, ConversationInvariance, PTL DEF Spec, JoinForward

-----------------------------------------------------------------------------
(* Attempts. *)

InHand(m, a) ==
    /\ worker.pc \in {"claimed", "notified"}
    /\ worker.msg = m /\ worker.actor = a /\ worker.attempt = job[m][a].attempt

\* A waiting job has attempts left; one that is being worked on, but not by this
\* worker, was left behind by a crash, which allows for one more.
JobIsLimited(m, a) ==
    /\ job[m][a].attempt <= MaxAttempts + crashes
    /\ job[m][a].state = "pending" => job[m][a].attempt < MaxAttempts
    /\ job[m][a].state = "processing" /\ ~InHand(m, a) => job[m][a].attempt < MaxAttempts + crashes

JobsAreLimited ==
    /\ crashes \in Nat /\ worker.pc \in {"idle", "claimed", "notified"}
    /\ \A m \in Messages, a \in Actors : JobIsLimited(m, a)

\* Nothing is claimed: jobs are new, closed, renewed or as they were.
LEMMA JobsStayLimited ==
    ASSUME ConversationInv, JobsAreLimited, UNCHANGED <<worker, crashes>>,
           \A m \in Messages, a \in Actors :
              \/ /\ job'[m][a].attempt = job[m][a].attempt
                 /\ \/ job'[m][a].state = job[m][a].state
                    \/ job'[m][a].state \notin {"pending", "processing"}
                    \/ job'[m][a].state = "pending" /\ job[m][a].attempt < MaxAttempts
              \/ job'[m][a] \in {NewJob, NoJob}
    PROVE  JobsAreLimited'
<1> SUFFICES ASSUME NEW m \in Messages, NEW a \in Actors PROVE JobIsLimited(m, a)'
  BY DEF JobsAreLimited
<1>1. JobIsLimited(m, a) /\ crashes \in Nat /\ MaxAttempts \in Nat \ {0} /\ job[m][a].attempt \in Nat
  BY MaxAttemptsIsPos DEF JobsAreLimited, ConversationInv, MessageInv, MessageType, Job
<1>2. CASE job'[m][a] \in {NewJob, NoJob}
  BY <1>1, <1>2 DEF JobIsLimited, NewJob, NoJob
<1>3. CASE job'[m][a].attempt = job[m][a].attempt /\ job'[m][a].state = job[m][a].state
  BY <1>1, <1>3 DEF JobIsLimited, InHand
<1>4. CASE /\ job'[m][a].attempt = job[m][a].attempt
           /\ \/ job'[m][a].state \notin {"pending", "processing"}
              \/ job'[m][a].state = "pending" /\ job[m][a].attempt < MaxAttempts
  BY <1>1, <1>4 DEF JobIsLimited
<1> QED  BY <1>2, <1>3, <1>4

LEMMA JobsLimitedStep ==
    ConversationInv /\ JobsAreLimited /\ [Next]_vars => JobsAreLimited'
<1> SUFFICES ASSUME ConversationInv, JobsAreLimited, [Next]_vars PROVE JobsAreLimited'
  OBVIOUS
<1>1. job \in [Messages -> [Actors -> Job]] /\ crashes \in Nat /\ MaxAttempts \in Nat \ {0}
  BY MaxAttemptsIsPos DEF ConversationInv, MessageInv, MessageType, JobsAreLimited
<1>2. CASE UNCHANGED <<job, worker, crashes>>
  BY <1>2, JobsStayLimited
<1>3. CASE \E creator \in Actors, c \in Channels, a \in Actors : RemoveMember(creator, c, a)
  <2>1. PICK creator \in Actors, c \in Channels, a \in Actors : RemoveMember(creator, c, a)
    BY <1>3
  <2>2. UNCHANGED <<worker, crashes>>
    BY <2>1 DEF RemoveMember, daemon
  <2> DEFINE here(m) == Posted(m) /\ Home(m) = c
  <2>3. job' = [m \in Messages |-> [job[m] EXCEPT ![a] = IF here(m) /\ job[m][a].state # "none"
                                                         THEN DoneJob(job[m][a]) ELSE job[m][a]]]
    BY <2>1 DEF RemoveMember
  <2> HIDE DEF here
  <2>4. ASSUME NEW j \in Job PROVE DoneJob(j).attempt = j.attempt /\ DoneJob(j).state = "done"
    BY DEF DoneJob, Job
  <2>5. ASSUME NEW m \in Messages, NEW b \in Actors
        PROVE  \/ job'[m][b] = job[m][b]
               \/ job'[m][b].attempt = job[m][b].attempt /\ job'[m][b].state = "done"
    <3> DEFINE new == IF here(m) /\ job[m][a].state # "none" THEN DoneJob(job[m][a]) ELSE job[m][a]
    <3>1. job[m] \in [Actors -> Job] /\ job'[m] = [job[m] EXCEPT ![a] = new]
      BY <1>1, <2>3
    <3>2. job[m][a] \in Job
      BY <3>1
    <3>3. new = job[m][a] \/ (new.attempt = job[m][a].attempt /\ new.state = "done")
      BY <2>4, <3>2
    <3> HIDE DEF new
    <3>4. b = a => job'[m][b] = new
      BY <3>1
    <3>5. b # a => job'[m][b] = job[m][b]
      BY <3>1
    <3> QED  BY <3>3, <3>4, <3>5
  <2> QED  BY <2>2, <2>5, JobsStayLimited
<1>4. CASE \/ \E draft \in Drafts, revision \in 1 .. MaxRevision : Post([draft |-> draft, revision |-> revision])
           \/ \E t \in preview, key \in CommitKeys : (PostsInto(t, key) /\ UNCHANGED daemon) \/ ContinueNew(t, key)
  <2>1. UNCHANGED <<worker, crashes>>
    BY <1>4 DEF Post, ContinueNew, daemon
  <2>2. \E r, grants, seq : \E m \in Messages : Writes(m, r, grants, seq)
    <3>1. CASE \E draft \in Drafts, revision \in 1 .. MaxRevision : Post([draft |-> draft, revision |-> revision])
      BY <3>1 DEF Post
    <3>2. CASE \E t \in preview, key \in CommitKeys : PostsInto(t, key)
      BY <3>2 DEF PostsInto
    <3>3. CASE \E t \in preview, key \in CommitKeys : ContinueNew(t, key)
      <4>1. PICK t \in preview, key \in CommitKeys, c \in Channels, m \in Messages :
               Writes(m, [draft |-> continuation(t.intent, c, key), revision |-> 1], grant',
                      NewChannel(t.intent.actor, t.intent.kind).next)
        BY <3>3 DEF ContinueNew
      <4> QED  BY <4>1
    <3> QED  BY <1>4, <3>1, <3>2, <3>3
  <2>3. PICK r : \E m \in Messages :
           job' = [job EXCEPT ![m] = [a \in Actors |-> IF a \in r.draft.attention THEN NewJob ELSE NoJob]]
    BY <2>2 DEF Writes
  <2>4. \A n \in Messages, b \in Actors : job'[n][b] = job[n][b] \/ job'[n][b] \in {NewJob, NoJob}
    BY <1>1, <2>3
  <2> QED  BY <2>1, <2>4, JobsStayLimited
<1>5. CASE \E a \in Actors, m \in Messages : Claim(a, m) \/ JobDue(m, a)
  <2>1. PICK a \in Actors, m \in Messages : Claim(a, m) \/ JobDue(m, a)
    BY <1>5
  <2>2. UNCHANGED <<worker, crashes>>
    BY <2>1 DEF Claim, JobDue, daemon
  <2>3. PICK j \in {job[m][a], DoneJob(job[m][a]), [job[m][a] EXCEPT !.due = TRUE]} :
           job' = [job EXCEPT ![m][a] = j]
    BY <2>1 DEF Claim, JobDue
  <2>4. j.attempt = job[m][a].attempt /\ (j.state = job[m][a].state \/ j.state = "done")
    <3>1. job[m][a] \in Job
      BY <1>1
    <3> QED  BY <3>1 DEF DoneJob, Job
  <2>5. \A n \in Messages, b \in Actors :
           /\ job'[n][b].attempt = job[n][b].attempt
           /\ job'[n][b].state = job[n][b].state \/ job'[n][b].state = "done"
    BY <1>1, <2>3, <2>4
  <2> QED  BY <2>2, <2>5, JobsStayLimited
<1>6. CASE Rearm
  <2> DEFINE stale(m, a) == Rearmable(job[m][a]) /\ a \in ready /\ Wanted(m, a)
  <2>1. /\ UNCHANGED <<worker, crashes>>
        /\ job' = [m \in Messages |-> [a \in Actors |->
                     IF stale(m, a) THEN [job[m][a] EXCEPT !.state = "pending"] ELSE job[m][a]]]
    BY <1>6 DEF Rearm, daemon
  <2>2. ASSUME NEW m \in Messages, NEW a \in Actors
        PROVE  \/ job'[m][a] = job[m][a]
               \/ /\ job'[m][a].attempt = job[m][a].attempt
                  /\ job'[m][a].state = "pending" /\ job[m][a].attempt < MaxAttempts
    <3>1. stale(m, a) => job[m][a].attempt < MaxAttempts
      BY DEF Rearmable
    <3>2. job'[m][a] = IF stale(m, a) THEN [job[m][a] EXCEPT !.state = "pending"] ELSE job[m][a]
      BY <2>1
    <3>3. job[m][a] \in Job
      BY <1>1
    <3> HIDE DEF stale
    <3> QED  BY <3>1, <3>2, <3>3 DEF Job
  <2> QED  BY <2>1, <2>2, JobsStayLimited
<1>7. CASE \E m \in Messages, a \in Actors : ClaimManagedNotification(m, a)
  <2>1. PICK m \in Messages, a \in Actors : ClaimManagedNotification(m, a)
    BY <1>7
  <2> DEFINE n   == job[m][a].attempt + 1
             new == [state |-> "processing", attempt |-> n, due |-> FALSE]
  <2>2. /\ worker.pc = "idle" /\ job[m][a].state \in {"pending", "processing"} /\ crashes' = crashes
        /\ job' = [job EXCEPT ![m][a] = new]
        /\ worker' = [pc |-> "claimed", msg |-> m, actor |-> a, attempt |-> n]
    BY <2>1 DEF ClaimManagedNotification
  <2>3. job[m][a].attempt \in Nat
    BY <1>1 DEF Job
  <2>4. n <= MaxAttempts + crashes
    BY <1>1, <2>2, <2>3 DEF JobsAreLimited, JobIsLimited, InHand
  <2> HIDE DEF n
  <2>5. job'[m][a] = new /\ \A x \in Messages, b \in Actors : (x = m /\ b = a) \/ job'[x][b] = job[x][b]
    BY <1>1, <2>2
  <2>6. JobIsLimited(m, a)'
    BY <2>2, <2>4, <2>5 DEF JobIsLimited, InHand
  <2>7. ASSUME NEW x \in Messages, NEW b \in Actors, ~(x = m /\ b = a)
        PROVE  JobIsLimited(x, b)'
    <3>1. JobIsLimited(x, b) /\ job'[x][b] = job[x][b] /\ ~InHand(x, b)
      BY <2>2, <2>5, <2>7 DEF JobsAreLimited, InHand
    <3> QED  BY <2>2, <3>1 DEF JobIsLimited
  <2> QED  BY <1>1, <2>2, <2>6, <2>7 DEF JobsAreLimited
<1>8. CASE \E outcome \in {"accepted", "retry", "complete"} : Notify(outcome)
  <2>1. /\ UNCHANGED <<job, crashes>> /\ worker.pc = "claimed" /\ worker'.pc = "notified"
        /\ worker'.msg = worker.msg /\ worker'.actor = worker.actor /\ worker'.attempt = worker.attempt
    BY <1>8 DEF Notify, rows
  <2>2. \A m, a : InHand(m, a)' <=> InHand(m, a)
    BY <2>1 DEF InHand
  <2> QED  BY <1>1, <2>1, <2>2 DEF JobsAreLimited, JobIsLimited
<1>9. CASE FinishManagedNotification
  <2>1. PICK next \in {"accepted", "pending", "done"} :
           /\ job' = [job EXCEPT ![worker.msg][worker.actor] = finishedJob(job[worker.msg][worker.actor], worker, next)]
           /\ next = "pending" => worker.attempt < MaxAttempts
    BY <1>9 DEF FinishManagedNotification
  <2>2. worker'.pc = "idle" /\ crashes' = crashes
    BY <1>9 DEF FinishManagedNotification
  <2>3. ASSUME NEW m \in Messages, NEW a \in Actors
        PROVE  JobIsLimited(m, a)'
    <3>1. job[m][a] \in Job /\ JobIsLimited(m, a) /\ ~InHand(m, a)'
      BY <1>1, <2>2 DEF JobsAreLimited, InHand
    <3>2. CASE worker.msg = m /\ worker.actor = a
      <4> DEFINE old == job[m][a]
                 new == finishedJob(old, worker, next)
      <4>1. job'[m][a] = new
        BY <1>1, <2>1, <3>2
      <4>2. CASE old.state = "processing" /\ old.attempt = worker.attempt
        <5>1. new.state = next /\ new.attempt = old.attempt
          BY <3>1, <4>2 DEF finishedJob, Job
        <5> HIDE DEF new
        <5> QED  BY <2>1, <2>2, <3>1, <4>1, <4>2, <5>1 DEF JobIsLimited
      <4>3. CASE ~(old.state = "processing" /\ old.attempt = worker.attempt)
        <5>1. new = old
          BY <4>3 DEF finishedJob
        <5>2. old.state = "processing" => ~InHand(m, a)
          BY <4>3 DEF InHand
        <5> QED  BY <2>2, <3>1, <4>1, <5>1, <5>2 DEF JobIsLimited
      <4> QED  BY <4>2, <4>3
    <3>3. CASE ~(worker.msg = m /\ worker.actor = a)
      <4>1. job'[m][a] = job[m][a] /\ ~InHand(m, a)
        BY <1>1, <2>1, <3>3 DEF InHand
      <4> QED  BY <2>2, <3>1, <4>1 DEF JobIsLimited
    <3> QED  BY <3>2, <3>3
  <2> QED  BY <1>1, <2>2, <2>3 DEF JobsAreLimited
<1>10. CASE Crash
  <2>1. worker'.pc = "idle" /\ crashes' = crashes + 1 /\ job' = job
    BY <1>10 DEF Crash, rows
  <2>2. ASSUME NEW m \in Messages, NEW a \in Actors
        PROVE  JobIsLimited(m, a)'
    <3>1. JobIsLimited(m, a) /\ job[m][a].attempt \in Nat
      BY <1>1 DEF JobsAreLimited, Job
    <3> QED  BY <1>1, <2>1, <3>1 DEF JobIsLimited
  <2> QED  BY <1>1, <2>1, <2>2 DEF JobsAreLimited
<1>11. CASE UNCHANGED vars
  BY <1>2, <1>11 DEF vars, rows, daemon
<1>12. CASE AudienceStep
  BY <1>2, <1>3, <1>12, BoundsAreActors
     DEF AudienceStep, CreateChannel, FindDirect, AddMember, Enroll, Supervise, Adopt, Archive, rows, daemon
<1>13. CASE MessageStep
  <2>1. CASE \E t \in preview, key \in CommitKeys : ContinueInto(t, key)
    <3>1. PICK t \in preview, key \in CommitKeys : ContinueInto(t, key)
      BY <2>1
    <3>2. UNCHANGED daemon /\ (PostsInto(t, key) \/ UNCHANGED rows)
      BY <3>1, IntoPosts
    <3> QED  BY <1>2, <1>4, <3>2 DEF rows, daemon
  <2>2. CASE ~\E t \in preview, key \in CommitKeys : ContinueInto(t, key)
    BY <1>2, <1>4, <1>5, <1>13, <2>2
       DEF MessageStep, Preflight, PreviewExpires, LeaseLapses, DeliveryUpdate, Resolve, rows, daemon
  <2> QED  BY <2>1, <2>2
<1>14. CASE AttentionStep
  BY <1>2, <1>5, <1>6, <1>7, <1>8, <1>9, <1>10, <1>14 DEF AttentionStep, Enable, Reset, rows
<1> QED  BY <1>11, <1>12, <1>13, <1>14 DEF Next

\* A wake is tried at most MaxAttempts times, and once more for each crash: claims
\* by the worker, retries and renewals count together (ClaimManagedNotification,
\* FinishManagedNotification, RearmStaleManagedNotifications).
THEOREM WakesAreLimited == Spec => []AttemptsAreLimited
<1>1. Init => JobsAreLimited
  BY MaxAttemptsIsPos DEF Init, JobsAreLimited, JobIsLimited, NoJob
<1>2. JobsAreLimited => AttemptsAreLimited
  BY DEF JobsAreLimited, JobIsLimited, AttemptsAreLimited
<1> QED  BY <1>1, <1>2, JobsLimitedStep, ConversationInvariance, PTL DEF Spec

-----------------------------------------------------------------------------
(* Continuations. *)

\* A channel's grants only change with its revision.
Stands ==
    \A c \in Channels : Known(c) =>
        /\ channel'[c].kind # "none" /\ channel'[c].revision >= channel[c].revision
        /\ channel'[c].revision = channel[c].revision => \A g : g.channel = c => (g \in grant' <=> g \in grant)

LEMMA StandingAudience ==
    ASSUME NEW c, \A g : g.channel = c => (g \in grant' <=> g \in grant)
    PROVE  membersOf(grant', c) = membersOf(grant, c) /\ observersOf(grant', c) = observersOf(grant, c)
<1>1. {y \in grant' : y.channel = c} = {y \in grant : y.channel = c}
  OBVIOUS
<1>2. {y \in grant' : y.channel = c /\ y.source = Member} = {y \in grant : y.channel = c /\ y.source = Member}
  OBVIOUS
<1> QED  BY <1>1, <1>2 DEF membersOf, observersOf

LEMMA StepStands ==
    ASSUME ConversationInv, [Next]_vars
    PROVE  Stands
<1>1. /\ channel \in [Channels -> Channel]
      /\ \A c \in Channels : /\ channel[c] \in Channel /\ channel[c].revision \in Nat
                             /\ Changed(channel[c]).kind = channel[c].kind
                             /\ Changed(channel[c]).revision = channel[c].revision + 1
  BY ChangedType DEF ConversationInv, AudienceInv, AudienceType, Channel
<1>2. CASE UNCHANGED <<channel, grant>>
  BY <1>1, <1>2 DEF Stands, Known
<1>3. CASE /\ UNCHANGED grant
           /\ \E c \in Channels : channel' = [channel EXCEPT ![c].next = @ + 1]
  <2>1. PICK c \in Channels : channel' = [channel EXCEPT ![c] = [channel[c] EXCEPT !.next = channel[c].next + 1]]
    BY <1>3
  <2>2. \A d \in Channels : channel'[d].revision = channel[d].revision /\ channel'[d].kind = channel[d].kind
    BY <1>1, <2>1, NumberType
  <2> QED  BY <1>1, <1>3, <2>2 DEF Stands, Known
<1>4. ASSUME NEW c \in Channels, ~Known(c), NEW members, NEW new,
             grant' = grant \cup UNION {GrantsFor(c, a, 0) : a \in members}, channel' = [channel EXCEPT ![c] = new]
      PROVE  Stands
  <2>1. \A d \in Channels : Known(d) => d # c /\ channel'[d] = channel[d]
    BY <1>1, <1>4
  <2>2. \A g \in grant' : g \in grant \/ g.channel = c
    BY <1>4 DEF GrantsFor
  <2> QED  BY <1>1, <1>4, <2>1, <2>2 DEF Stands, Known
<1>5. CASE \E creator \in Actors, c \in Channels, a \in Actors : AddMember(creator, c, a) \/ RemoveMember(creator, c, a)
  <2>1. PICK c \in Channels, a \in Actors :
           /\ channel' = [channel EXCEPT ![c] = Changed(channel[c])]
           /\ grant' = grant \cup GrantsFor(c, a, FirstRead(channel[c].next)) \/ grant' = grant \ grantsOf(c, a)
    BY <1>5 DEF AddMember, RemoveMember
  <2>2. \A g : g.channel # c => (g \in grant' <=> g \in grant)
    BY <2>1 DEF GrantsFor, grantsOf
  <2>3. \A d \in Channels : channel'[d] = IF d = c THEN Changed(channel[c]) ELSE channel[d]
    BY <1>1, <2>1
  <2> QED  BY <1>1, <2>2, <2>3 DEF Stands, Known
<1>6. CASE \E agent \in Agents, h \in Humans \cup {None} : Supervise(agent, h)
  <2>1. PICK agent \in Agents, h \in Humans \cup {None} : Supervise(agent, h)
    BY <1>6
  <2> DEFINE moved == supervisedIn(agent)
  <2>2. /\ grant' = {g \in grant : ~(g.source = agent /\ g.channel \in moved)}
                       \cup IF h = None THEN {}
                            ELSE {[channel |-> c, actor |-> h, source |-> agent,
                                   floor |-> FirstRead(channel[c].next)] : c \in moved}
        /\ channel' = [c \in Channels |-> IF c \in moved THEN Changed(channel[c]) ELSE channel[c]]
    BY <2>1 DEF Supervise
  <2> HIDE DEF moved
  <2>3. \A g : g.channel \notin moved => (g \in grant' <=> g \in grant)
    BY <2>2
  <2> QED  BY <1>1, <2>2, <2>3 DEF Stands, Known
<1>7. CASE AudienceStep
  <2>1. CASE \E r \in Creations : CreateChannel(r)
    BY <1>4, <2>1 DEF CreateChannel, OpensAs, NextChannel
  <2> QED  BY <1>2, <1>5, <1>6, <1>7, <2>1, BoundsAreActors DEF AudienceStep, FindDirect, Enroll, Adopt, Archive
<1>8. CASE MessageStep
  <2>1. CASE \E draft \in Drafts, revision \in 1 .. MaxRevision : Post([draft |-> draft, revision |-> revision])
    BY <1>3, <2>1, DraftsAreTyped DEF Post
  <2>2. CASE \E t \in preview, key \in CommitKeys : ContinueInto(t, key)
    <3>1. PICK t \in preview, key \in CommitKeys : ContinueInto(t, key)
      BY <2>2
    <3>2. t.destination \in Channels /\ UNCHANGED grant /\ (PostsInto(t, key) \/ UNCHANGED channel)
      BY <3>1, IntoPosts DEF ConversationInv, MessageInv, MessageType
    <3>3. CASE PostsInto(t, key)
      <4>1. channel' = [channel EXCEPT ![t.destination].next = @ + 1]
        BY <3>3 DEF PostsInto
      <4> QED  BY <1>3, <3>2, <4>1
    <3> QED  BY <1>2, <3>2, <3>3
  <2>3. CASE \E t \in preview, key \in CommitKeys : ContinueNew(t, key)
    <3>1. PICK t \in preview, key \in CommitKeys : ContinueNew(t, key)
      BY <2>3
    <3> DEFINE new == [NewChannel(t.intent.actor, t.intent.kind) EXCEPT !.next = @ + 1]
    <3>2. PICK c \in Channels :
             /\ OpensAs(c, t.intent.members)
             /\ channel' = [channel EXCEPT ![c] = new]
      BY <3>1 DEF ContinueNew
    <3> HIDE DEF new
    <3> QED  BY <1>4, <3>2 DEF OpensAs, NextChannel
  <2>6. CASE \E t \in preview : PreviewExpires(t)
    BY <1>2, <2>6 DEF PreviewExpires
  <2>4. CASE \E t \in Intents : Preflight(t)
    BY <1>2, <2>4 DEF Preflight
  <2>5. CASE UNCHANGED <<channel, operations, grant, people, message, daemon, audience>>
    BY <1>2, <2>5
  <2> QED  BY <1>8, <2>1, <2>2, <2>3, <2>4, <2>5, <2>6, MessageSteps
<1>9. CASE AttentionStep
  BY <1>2, <1>9 DEF AttentionStep, Enable, Reset, ClaimManagedNotification, JobDue, Notify,
                    FinishManagedNotification, Rearm, Crash
<1>10. CASE UNCHANGED vars
  BY <1>2, <1>10 DEF vars
<1> QED  BY <1>7, <1>8, <1>9, <1>10 DEF Next

\* What a preview showed is what is so, for as long as its revisions stand.
PreviewIsCurrent(t) ==
    IF t.destination = 0
    THEN t.shown = [members   |-> t.intent.members,
                    observers |-> {t.links[a].human : a \in t.intent.members \cap Agents} \ {None}]
    ELSE /\ Known(t.destination) /\ t.revision \in Nat /\ t.revision <= channel[t.destination].revision
         /\ t.revision = channel[t.destination].revision =>
               t.shown = [members |-> Participants(t.destination), observers |-> Observers(t.destination)]

PreviewsAreCurrent == \A t \in preview : PreviewIsCurrent(t)

LEMMA PreflightIsCurrent ==
    ASSUME ConversationInv, NEW i \in Intents, Preflight(i), NEW t \in preview'
    PROVE  PreviewIsCurrent(t)'
<1> DEFINE old      == IF i.kind = "dm" THEN SamePair(i.members) ELSE i.into
           new      == old = {}
           shown(c) == [members |-> Participants(c), observers |-> Observers(c)]
<1>1. PICK c \in (IF new THEN {0} ELSE old) :
         /\ ~new => i.actor \in Participants(c)
         /\ t = [intent |-> i, destination |-> c,
                 source   |-> channel[Home(i.source)].revision,
                 revision |-> IF new THEN 0 ELSE channel[c].revision,
                 links    |-> IF new THEN Links(i.members) ELSE Links({}),
                 shown    |-> IF new THEN [members   |-> i.members,
                                           observers |-> supervisors(i.members)]
                              ELSE shown(c)]
  BY DEF Preflight
<1>2. old \subseteq Channels
  BY IntentsAreTyped DEF SamePair
<1>3. UNCHANGED <<channel, grant>>
  BY DEF Preflight
<1> HIDE DEF old
<1>4. CASE new
  <2>1. /\ t.destination = 0 /\ t.intent = i /\ t.links = Links(i.members)
        /\ t.shown = [members   |-> i.members,
                      observers |-> {link[a].human : a \in i.members \cap Agents} \ {None}]
    BY <1>1, <1>4 DEF supervisors
  <2>2. \A a \in i.members \cap Agents : t.links[a] = link[a]
    BY <2>1 DEF Links
  <2>3. {link[a].human : a \in i.members \cap Agents} = {t.links[a].human : a \in i.members \cap Agents}
    BY <2>2
  <2> QED  BY <2>1, <2>3 DEF PreviewIsCurrent
<1>5. CASE ~new
  <2>1. c \in Channels /\ c # 0 /\ i.actor \in Participants(c)
    BY <1>1, <1>2, <1>5, ChannelsAreNats
  <2>2. t.destination = c /\ t.revision = channel[c].revision /\ t.shown = shown(c)
    BY <1>1, <1>5
  <2>3. Known(c) /\ channel[c].revision \in Nat
    BY <2>1, MembersOf DEF ConversationInv, AudienceInv, AudienceType, GrantsAreOld, Participants, Channel
  <2> QED  BY <1>3, <2>1, <2>2, <2>3 DEF PreviewIsCurrent, Known, Participants, Observers
<1> QED  BY <1>4, <1>5

LEMMA PreviewStep ==
    ConversationInv /\ PreviewsAreCurrent /\ [Next]_vars => PreviewsAreCurrent'
<1> SUFFICES ASSUME ConversationInv, PreviewsAreCurrent, [Next]_vars, NEW t \in preview'
             PROVE  PreviewIsCurrent(t)'
  BY DEF PreviewsAreCurrent
<1>1. CASE t \in preview
  <2>1. Stands /\ PreviewIsCurrent(t)
    BY <1>1, StepStands DEF PreviewsAreCurrent
  <2>2. CASE t.destination = 0
    BY <2>1, <2>2 DEF PreviewIsCurrent
  <2>3. CASE t.destination # 0
    <3> DEFINE c == t.destination
    <3>1. c \in Channels
      BY <1>1, <2>3 DEF ConversationInv, MessageInv, MessageType
    <3>2. channel[c].revision \in Nat /\ channel'[c].revision \in Nat
      BY <3>1, ConversationStep DEF ConversationInv, AudienceInv, AudienceType, Channel
    <3>3. /\ Known(c) /\ t.revision \in Nat /\ t.revision <= channel[c].revision
          /\ t.revision = channel[c].revision =>
                t.shown = [members |-> membersOf(grant, c), observers |-> observersOf(grant, c)]
      BY <2>1, <2>3 DEF PreviewIsCurrent, Participants, Observers
    <3>4. /\ channel'[c].kind # "none" /\ channel'[c].revision >= channel[c].revision
          /\ channel'[c].revision = channel[c].revision =>
                membersOf(grant', c) = membersOf(grant, c) /\ observersOf(grant', c) = observersOf(grant, c)
      BY <2>1, <3>1, <3>3, StandingAudience DEF Stands
    <3>5. t.revision = channel'[c].revision => channel'[c].revision = channel[c].revision
      BY <3>2, <3>3, <3>4
    <3>6. t.revision <= channel'[c].revision
      BY <3>2, <3>3, <3>4
    <3> QED  BY <2>3, <3>3, <3>4, <3>5, <3>6 DEF PreviewIsCurrent, Known, Participants, Observers
  <2> QED  BY <2>2, <2>3
<1>2. CASE \E i \in Intents : Preflight(i)
  BY <1>2, PreflightIsCurrent
<1>3. CASE ~\E i \in Intents : Preflight(i)
  <2>1. AudienceStep => preview' = preview
    BY DEF AudienceStep, CreateChannel, FindDirect, AddMember, RemoveMember, Enroll, Supervise, Adopt, Archive, daemon
  <2>2. MessageStep => preview' \subseteq preview
    <3>1. ASSUME NEW r, Post(r) PROVE preview' \subseteq preview
      BY <3>1 DEF Post, daemon
    <3>2. ASSUME NEW token, NEW key, ContinueInto(token, key) \/ ContinueNew(token, key) PROVE preview' \subseteq preview
      BY <3>2 DEF ContinueInto, ContinueNew, daemon
    <3>4. ASSUME NEW token, PreviewExpires(token) PROVE preview' \subseteq preview
      BY <3>4 DEF PreviewExpires
    <3>3. CASE UNCHANGED <<channel, operations, grant, people, message, daemon, audience>>
      BY <3>3 DEF daemon
    <3> QED  BY <1>3, <3>1, <3>2, <3>3, <3>4, MessageSteps
  <2>3. AttentionStep => preview' \subseteq preview
    BY DEF AttentionStep, Enable, Reset, ClaimManagedNotification, JobDue, Notify, FinishManagedNotification,
           Rearm, Crash, daemon
  <2>4. preview' \subseteq preview
    BY <2>1, <2>2, <2>3 DEF Next, vars, daemon
  <2> QED  BY <1>1, <2>4
<1> QED  BY <1>2, <1>3

\* Who reads a channel that was opened for the members.
LEMMA OpenedAudience ==
    ASSUME AudienceInv, NEW c \in Channels, ~Known(c), NEW members,
           grant' = grant \cup UNION {GrantsFor(c, a, 0) : a \in members}
    PROVE  /\ membersOf(grant', c) = members
           /\ observersOf(grant', c) = {link[a].human : a \in members \cap Agents} \ (members \cup {None})
<1> DEFINE added == UNION {GrantsFor(c, a, 0) : a \in members}
           heard == {link[a].human : a \in {x \in members \cap Agents : link[x].human # None}}
<1>1. \A g \in grant : g.channel # c
  BY DEF AudienceInv, GrantsAreOld
<1>2. ASSUME NEW a \in members, NEW g \in GrantsFor(c, a, 0)
      PROVE  /\ g.channel = c
             /\ \/ g.source = Member /\ g.actor = a
                \/ /\ g.source = a /\ a \in Agents /\ a # Member
                   /\ link[a].human # None /\ g.actor = link[a].human
  BY MemberIsNobody DEF GrantsFor, Actors
<1>3. ASSUME NEW a \in members
      PROVE  /\ \E g \in added : g.channel = c /\ g.source = Member /\ g.actor = a
             /\ a \in Agents /\ link[a].human # None => \E g \in added : g.channel = c /\ g.actor = link[a].human
  <2> DEFINE own     == [channel |-> c, actor |-> a, source |-> Member, floor |-> 0]
             reading == [channel |-> c, actor |-> link[a].human, source |-> a, floor |-> 0]
  <2>1. own \in GrantsFor(c, a, 0) /\ (a \in Agents /\ link[a].human # None => reading \in GrantsFor(c, a, 0))
    BY DEF GrantsFor
  <2>2. GrantsFor(c, a, 0) \subseteq added
    OBVIOUS
  <2>3. own.channel = c /\ own.source = Member /\ own.actor = a
        /\ reading.channel = c /\ reading.actor = link[a].human
    OBVIOUS
  <2> HIDE DEF own, reading, added
  <2> QED  BY <2>1, <2>2, <2>3
<1>4. ASSUME NEW g \in added
      PROVE  \E a \in members : g \in GrantsFor(c, a, 0)
  OBVIOUS
<1>5. grant' = grant \cup added
  OBVIOUS
<1> HIDE DEF added
<1>6. membersOf(grant', c) = members
  <2>1. ASSUME NEW a
        PROVE  a \in membersOf(grant', c) <=> a \in members
    BY <1>1, <1>2, <1>3, <1>4, <1>5, MembersOf
  <2> QED  BY <2>1
<1>7. {x.actor : x \in {y \in grant' : y.channel = c}} = members \cup heard
  <2>1. ASSUME NEW g \in grant', g.channel = c
        PROVE  g.actor \in members \cup heard
    <3>1. PICK a \in members : g \in GrantsFor(c, a, 0)
      BY <1>1, <1>4, <1>5, <2>1
    <3> QED  BY <1>2, <3>1
  <2>2. ASSUME NEW a \in members \cup heard
        PROVE  \E g \in grant' : g.channel = c /\ g.actor = a
    BY <1>3, <1>5
  <2> HIDE DEF heard
  <2>3. \A a : a \in {x.actor : x \in {y \in grant' : y.channel = c}} <=> a \in members \cup heard
    BY <2>1, <2>2
  <2> QED  BY <2>3
<1>8. heard = {link[a].human : a \in members \cap Agents} \ {None}
  OBVIOUS
<1> QED  BY <1>6, <1>7, <1>8 DEF observersOf

\* The row of a commit names its token, its key and its message.
LEMMA CommitmentsDiffer ==
    /\ \A t, key, m, u, k, n :
          commitment(t, key, m) = commitment(u, k, n) => t = u /\ key = k /\ m = n
    /\ \A t, key, m, a, k, c : commitment(t, key, m) # creation(a, k, c)
<1>1. ASSUME NEW t, NEW key, NEW m, NEW u, NEW k, NEW n, commitment(t, key, m) = commitment(u, k, n)
      PROVE  t = u /\ key = k /\ m = n
  <2>1. commitment(t, key, m).token = t /\ commitment(t, key, m).key = key /\ commitment(t, key, m).message = m
    BY DEF commitment
  <2>2. commitment(u, k, n).token = u /\ commitment(u, k, n).key = k /\ commitment(u, k, n).message = n
    BY DEF commitment
  <2> QED  BY <1>1, <2>1, <2>2
<1>2. ASSUME NEW t, NEW key, NEW m, NEW a, NEW k, NEW c
      PROVE  commitment(t, key, m) # creation(a, k, c)
  <2>1. commitment(t, key, m).op = "continue" /\ creation(a, k, c).op = "create"
    BY DEF commitment, creation
  <2> QED  BY <2>1
<1> QED  BY <1>1, <1>2

\* Only the commit of a continuation records one.
LEMMA CommitsRecord ==
    ASSUME [Next]_vars, NEW t, NEW key, NEW m, commitment(t, key, m) \in operations' \ operations
    PROVE  \E u \in preview, k \in CommitKeys : ContinueInto(u, k) \/ ContinueNew(u, k)
<1>1. operations' # operations
  OBVIOUS
<1>2. ~AudienceStep
  <2>1. CASE \E r \in Creations : CreateChannel(r) \/ FindDirect(r)
    BY <2>1, CommitmentsDiffer DEF CreateChannel, FindDirect
  <2>2. CASE ~\E r \in Creations : CreateChannel(r) \/ FindDirect(r)
    BY <1>1, <2>2 DEF AudienceStep, AddMember, RemoveMember, Enroll, Supervise, Adopt, Archive
  <2> QED  BY <2>1, <2>2
<1>3. ~AttentionStep
  BY <1>1 DEF AttentionStep, Enable, Reset, ClaimManagedNotification, JobDue, Notify, FinishManagedNotification,
              Rearm, Crash
<1>4. MessageStep
  BY <1>1, <1>2, <1>3 DEF Next, vars
<1> QED  BY <1>1, <1>4, MessageSteps DEF Post, Preflight, PreviewExpires

\* The message that a commit names is in the channel that it continues into.
LEMMA WrittenRequest ==
    ASSUME ConversationInv, NEW m \in Messages, NEW r, NEW grants, NEW seq, Writes(m, r, grants, seq)
    PROVE  Home(m)' = r.draft.channel
<1>1. message \in [Messages -> [request : Request \cup {None}, seq : Nat, thread : Messages \cup {0}]]
  BY DEF ConversationInv, MessageInv, MessageType
<1>2. PICK thread : message' = [message EXCEPT ![m] = [request |-> r, seq |-> seq, thread |-> thread]]
  BY DEF Writes
<1>3. message'[m] = [request |-> r, seq |-> seq, thread |-> thread]
  BY <1>1, <1>2
<1> QED  BY <1>3 DEF Home

LEMMA Landing ==
    ASSUME ConversationInv, PreviewsAreCurrent, [Next]_vars, NEW t \in preview, NEW key \in CommitKeys,
           NEW m \in Messages, commitment(t, key, m) \in operations' \ operations
    PROVE  /\ membersOf(grant', Home(m)')   = t.shown.members
           /\ observersOf(grant', Home(m)') = t.shown.observers \ t.shown.members
<1>1. PreviewIsCurrent(t) /\ t.intent \in Intents /\ t.destination \in Channels \cup {0}
  BY DEF PreviewsAreCurrent, ConversationInv, MessageInv, MessageType
<1>2. PICK u \in preview, k \in CommitKeys : ContinueInto(u, k) \/ ContinueNew(u, k)
  BY CommitsRecord
<1>3. CASE ContinueInto(u, k)
  <2> DEFINE c == u.destination
             r == [draft |-> continuation(u.intent, c, k), revision |-> channel[c].revision]
  <2>1. PICK n \in Messages :
           /\ operations' = operations \cup {commitment(u, k, n)}
           /\ \/ Writes(n, r, grant, channel[c].next)
              \/ message[n].request = r /\ UNCHANGED message
    BY <1>3 DEF ContinueInto, rows
  <2>2. u = t /\ n = m
    BY <2>1, CommitmentsDiffer
  <2>3. r.draft.channel = c
    BY DEF continuation
  <2> HIDE DEF r
  <2>4. Home(m)' = c
    BY <2>1, <2>2, <2>3, WrittenRequest DEF Home
  <2>5. c # 0 /\ channel[c].revision = t.revision /\ UNCHANGED grant
    BY <1>3, <2>2 DEF ContinueInto, Commits, StillShown
  <2>6. t.shown = [members |-> membersOf(grant, c), observers |-> observersOf(grant, c)]
    BY <1>1, <2>2, <2>5 DEF PreviewIsCurrent, Participants, Observers
  <2> QED  BY <2>4, <2>5, <2>6 DEF observersOf
<1>4. CASE ContinueNew(u, k)
  <2> DEFINE i == u.intent
  <2>1. u.destination = 0 /\ Links(i.members) = u.links
    BY <1>4 DEF ContinueNew, Commits, StillShown
  <2>2. PICK c \in Channels, n \in Messages :
           /\ ~Known(c) /\ grant' = grant \cup UNION {GrantsFor(c, a, 0) : a \in i.members}
           /\ Writes(n, [draft |-> continuation(i, c, k), revision |-> 1], grant', NewChannel(i.actor, i.kind).next)
           /\ operations' = operations \cup {creation(i.actor, <<"continuation", k>>, c), commitment(u, k, n)}
    BY <1>4 DEF ContinueNew, OpensAs, NextChannel
  <2>3. u = t /\ n = m
    BY <2>2, CommitmentsDiffer
  <2>4. Home(m)' = c
    BY <2>2, <2>3, WrittenRequest DEF continuation
  <2>5. /\ membersOf(grant', c) = i.members
        /\ observersOf(grant', c) = {link[a].human : a \in i.members \cap Agents} \ (i.members \cup {None})
    BY <2>2, OpenedAudience DEF ConversationInv
  <2>6. \A a \in i.members \cap Agents : t.links[a] = link[a]
    BY <2>1, <2>3 DEF Links
  <2>7. {link[a].human : a \in i.members \cap Agents} = {t.links[a].human : a \in i.members \cap Agents}
    BY <2>6
  <2>8. /\ t.shown.members = i.members
        /\ t.shown.observers = {t.links[a].human : a \in i.members \cap Agents} \ {None}
    BY <1>1, <2>1, <2>3 DEF PreviewIsCurrent
  <2> QED  BY <2>4, <2>5, <2>7, <2>8
<1> QED  BY <1>2, <1>3, <1>4

\* A confirmed continuation lands in front of the participants its preview showed
\* and no observer but the shown ones, also when the confirmation opens its channel
\* and however often its token is used: the commit compares the revisions and the
\* supervision that the preview was signed with.
THEOREM ContinuationsLand == Spec => ContinuationLandsAsShown
<1>1. Init => PreviewsAreCurrent
  BY DEF Init, PreviewsAreCurrent
<1>2. ConversationInv /\ PreviewsAreCurrent /\ [Next]_vars =>
         [\A t \in preview, key \in CommitKeys, m \in Messages :
             commitment(t, key, m) \in operations' \ operations =>
                 /\ membersOf(grant', Home(m)')   = t.shown.members
                 /\ observersOf(grant', Home(m)') = t.shown.observers \ t.shown.members]_vars
  BY Landing
<1> QED  BY <1>1, <1>2, PreviewStep, ConversationInvariance, PTL DEF Spec, ContinuationLandsAsShown

-----------------------------------------------------------------------------
(* Managed deliveries implement the fenced queue. *)

\* Only a claimed row has a lease, its token is the newest, and an absent row is empty.
RowIsSound(row) ==
    /\ row \in Row
    /\ row.state = "none" => row = NoRow
    /\ row.lease # "none" => row.state = "claimed"
    /\ row.state = "claimed" => row.token = row.attempt /\ row.lease \in {"running", "lapsed"}

RowsAreSound ==
    /\ delivery \in [Messages -> [Actors -> Row]]
    /\ \A m \in Messages, a \in Actors :
          RowIsSound(delivery[m][a]) /\ (~Posted(m) => delivery[m][a] = NoRow)

Takable(row) == row.state = "queued" \/ (row.state = "claimed" /\ row.lease = "lapsed")

LEMMA SoundRows ==
    ASSUME NEW row, RowIsSound(row)
    PROVE  /\ RowIsSound(claimedRow(row)) /\ RowIsSound(revokedRow(row)) /\ RowIsSound(QueuedRow) /\ RowIsSound(NoRow)
           /\ row.lease = "running" => RowIsSound([row EXCEPT !.lease = "lapsed"])
           /\ \A token \in Nat, next \in {"acked", "dead", "queued"} : RowIsSound(finishedRow(row, token, next))
<1> DEFINE n == row.attempt + 1
<1>1. n \in Nat /\ row \in Row
  BY DEF RowIsSound, Row
<1>2. claimedRow(row) = [row EXCEPT !.state = "claimed", !.attempt = n, !.token = n, !.lease = "running"]
  BY DEF claimedRow
<1> HIDE DEF n
<1>3. RowIsSound(claimedRow(row))
  <2> DEFINE new == [row EXCEPT !.state = "claimed", !.attempt = n, !.token = n, !.lease = "running"]
  <2>1. new \in Row /\ new.state = "claimed" /\ new.token = n /\ new.attempt = n /\ new.lease = "running"
    BY <1>1 DEF Row
  <2> HIDE DEF new
  <2>2. RowIsSound(new)
    BY <2>1 DEF RowIsSound
  <2> QED  BY <1>2, <2>2 DEF new
<1>4. RowIsSound(revokedRow(row))
  <2>1. CASE Unsettled(row)
    <3> DEFINE new == [row EXCEPT !.state = "revoked", !.terminal = row.token, !.token = 0, !.lease = "none"]
    <3>1. row.token \in Nat
      BY <1>1 DEF Row
    <3>2. new \in Row /\ new.state = "revoked" /\ new.lease = "none"
      BY <1>1, <3>1 DEF Row
    <3>3. revokedRow(row) = new
      BY <2>1 DEF revokedRow, NoToken
    <3> HIDE DEF new
    <3> QED  BY <3>2, <3>3 DEF RowIsSound
  <2>2. CASE ~Unsettled(row)
    BY <2>2 DEF revokedRow
  <2> QED  BY <2>1, <2>2
<1>5. RowIsSound(QueuedRow) /\ RowIsSound(NoRow)
  BY DEF RowIsSound, QueuedRow, NoRow, Row, NoToken
<1>6. row.lease = "running" => RowIsSound([row EXCEPT !.lease = "lapsed"])
  <2> DEFINE new == [row EXCEPT !.lease = "lapsed"]
  <2>1. new \in Row /\ new.state = row.state /\ new.token = row.token /\ new.attempt = row.attempt
        /\ new.lease = "lapsed"
    BY <1>1 DEF Row
  <2> HIDE DEF new
  <2>2. row.lease = "running" => RowIsSound(new)
    BY <2>1 DEF RowIsSound
  <2> QED  BY <2>2 DEF new
<1>7. ASSUME NEW token \in Nat, NEW next \in {"acked", "dead", "queued"}
      PROVE  RowIsSound(finishedRow(row, token, next))
  <2>1. finishedRow(row, token, next) \in Row /\ finishedRow(row, token, next).state = next
    BY <1>1, FinishedType
  <2>2. finishedRow(row, token, next).lease = "none"
    BY <1>1 DEF finishedRow, Row
  <2> QED  BY <2>1, <2>2 DEF RowIsSound
<1> QED  BY <1>3, <1>4, <1>5, <1>6, <1>7

\* The ways a step writes the rows: one of them, a message's, a member's.
WritesRow(m, a) ==
    \/ /\ Takable(delivery[m][a])
       /\ delivery' = [delivery EXCEPT ![m][a] = claimedRow(delivery[m][a])]
    \/ /\ delivery[m][a].lease = "running"
       /\ delivery' = [delivery EXCEPT ![m][a] = [delivery[m][a] EXCEPT !.lease = "lapsed"]]
    \/ \E token \in Nat, next \in {"acked", "dead", "queued"} :
          /\ delivery[m][a].state = "claimed" /\ delivery[m][a].token = token
          /\ delivery' = [delivery EXCEPT ![m][a] = finishedRow(delivery[m][a], token, next)]

WritesRows ==
    \/ UNCHANGED delivery
    \/ \E m \in Messages : /\ ~Posted(m) /\ Posted(m)'
                           /\ \E to : delivery' = [delivery EXCEPT ![m] =
                                                 [a \in Actors |-> IF a \in to THEN QueuedRow ELSE NoRow]]
    \/ \E a \in Actors : \E here :
          delivery' = [m \in Messages |-> [delivery[m] EXCEPT ![a] = IF m \in here THEN revokedRow(@) ELSE @]]
    \/ \E m \in Messages, a \in Actors : WritesRow(m, a)

LEMMA StepWritesRows ==
    ASSUME ConversationInv, [Next]_vars
    PROVE  WritesRows
<1>1. CASE \E creator \in Actors, c \in Channels, a \in Actors : RemoveMember(creator, c, a)
  <2>1. PICK creator \in Actors, c \in Channels, a \in Actors : RemoveMember(creator, c, a)
    BY <1>1
  <2> DEFINE here == {m \in Messages : Posted(m) /\ Home(m) = c}
  <2>2. delivery' = [m \in Messages |-> [delivery[m] EXCEPT ![a] =
                       IF Posted(m) /\ Home(m) = c THEN revokedRow(delivery[m][a]) ELSE delivery[m][a]]]
    BY <2>1 DEF RemoveMember
  <2>3. delivery' = [m \in Messages |-> [delivery[m] EXCEPT ![a] =
                       IF m \in here THEN revokedRow(delivery[m][a]) ELSE delivery[m][a]]]
    BY <2>2
  <2> HIDE DEF here
  <2> QED  BY <2>3 DEF WritesRows
<1>2. CASE \E m \in Messages : \E r, grants : \E seq \in Nat \ {0} : NextMessage(m) /\ Writes(m, r, grants, seq)
  <2>1. PICK m \in Messages : \E r, grants : \E seq \in Nat \ {0} : NextMessage(m) /\ Writes(m, r, grants, seq)
    BY <1>2
  <2>2. PICK r, grants : \E seq \in Nat \ {0} : NextMessage(m) /\ Writes(m, r, grants, seq)
    BY <2>1
  <2>3. PICK seq \in Nat \ {0} : NextMessage(m) /\ Writes(m, r, grants, seq)
    BY <2>2
  <2> DEFINE to == membersOf(grants, r.draft.channel) \ {r.draft.from}
  <2>4. /\ ~Posted(m)
        /\ delivery' = [delivery EXCEPT ![m] = [a \in Actors |-> IF a \in to THEN QueuedRow ELSE NoRow]]
    BY <2>3 DEF Writes, NextMessage
  <2>5. PICK thread : message' = [message EXCEPT ![m] = [request |-> r, seq |-> seq, thread |-> thread]]
    BY <2>3 DEF Writes
  <2>6. Posted(m)'
    BY <2>5 DEF ConversationInv, MessageInv, MessageType, Posted
  <2> HIDE DEF to
  <2> QED  BY <2>4, <2>6 DEF WritesRows
<1>3. CASE \E a \in Actors, m \in Messages : Claim(a, m)
  BY <1>3 DEF WritesRows, WritesRow, Claim, Takable
<1>4. CASE \E a \in Actors, m \in Messages : LeaseLapses(a, m)
  BY <1>4 DEF WritesRows, WritesRow, LeaseLapses
<1>5. CASE \E a \in Actors, m \in Messages, token \in 1 .. MaxClaims, next \in {"acked", "dead", "queued"} :
              DeliveryUpdate(a, m, token, next)
  <2>1. PICK a \in Actors, m \in Messages, token \in 1 .. MaxClaims, next \in {"acked", "dead", "queued"} :
              DeliveryUpdate(a, m, token, next)
    BY <1>5
  <2>2. token \in Nat
    BY BoundsAreNat
  <2>3. delivery[m][a].state = "claimed" /\ delivery[m][a].token = token
    BY <2>1 DEF DeliveryUpdate, finishDeliveryState
  <2> QED  BY <2>1, <2>2, <2>3 DEF WritesRows, WritesRow, DeliveryUpdate
<1>6. CASE UNCHANGED delivery
  BY <1>6 DEF WritesRows
<1>7. AudienceStep => UNCHANGED delivery \/ \E creator \in Actors, c \in Channels, a \in Actors : RemoveMember(creator, c, a)
  BY BoundsAreActors DEF AudienceStep, CreateChannel, FindDirect, AddMember, Enroll, Supervise, Adopt, Archive, rows
<1>8. CASE MessageStep
  <2>1. \A c \in Channels : channel[c].next \in Nat \ {0}
    BY DEF ConversationInv, AudienceInv, AudienceType, Channel
  <2>2. CASE \E draft \in Drafts, revision \in 1 .. MaxRevision : Post([draft |-> draft, revision |-> revision])
    BY <1>2, <2>1, <2>2, DraftsAreTyped DEF Post
  <2>3. CASE \E t \in preview, key \in CommitKeys : ContinueInto(t, key)
    <3>1. PICK t \in preview, key \in CommitKeys : ContinueInto(t, key)
      BY <2>3
    <3>2. t.destination \in Channels /\ (PostsInto(t, key) \/ UNCHANGED delivery)
      BY <3>1, IntoPosts DEF ConversationInv, MessageInv, MessageType, rows
    <3> QED  BY <1>2, <1>6, <2>1, <3>2 DEF PostsInto, continuation
  <2>4. CASE \E t \in preview, key \in CommitKeys : ContinueNew(t, key)
    BY <1>2, <2>4 DEF ContinueNew, NewChannel
  <2>5. CASE \E t \in preview : PreviewExpires(t)
    BY <1>6, <2>5 DEF PreviewExpires, rows
  <2> QED  BY <1>3, <1>4, <1>5, <1>6, <1>8, <2>2, <2>3, <2>4, <2>5 DEF MessageStep, Preflight, Resolve, rows
<1>9. AttentionStep => UNCHANGED delivery
  BY DEF AttentionStep, Enable, Reset, ClaimManagedNotification, JobDue, Notify, FinishManagedNotification,
         Rearm, Crash, rows
<1> QED  BY <1>1, <1>6, <1>7, <1>8, <1>9 DEF Next, vars, rows

LEMMA RowsSoundStep ==
    ConversationInv /\ RowsAreSound /\ [Next]_vars => RowsAreSound'
<1> SUFFICES ASSUME ConversationInv, RowsAreSound, [Next]_vars PROVE RowsAreSound'
  OBVIOUS
<1>1. WritesRows /\ \A m \in Messages : Posted(m) => Posted(m)'
  BY StepWritesRows, StepIsForward DEF Forward, Posted
<1>2. /\ delivery \in [Messages -> [Actors -> Row]]
      /\ \A m \in Messages, a \in Actors : RowIsSound(delivery[m][a]) /\ (~Posted(m) => delivery[m][a] = NoRow)
  BY DEF RowsAreSound
<1>3. /\ delivery' \in [Messages -> [Actors -> Row]]
  BY ConversationStep DEF ConversationInv, MessageInv, MessageType
<1>4. revokedRow(NoRow) = NoRow /\ NoRow.state = "none" /\ NoRow.lease = "none"
  BY DEF revokedRow, NoRow, Unsettled
<1>5. ASSUME NEW m \in Messages, NEW a \in Actors
      PROVE  RowIsSound(delivery'[m][a]) /\ (~Posted(m)' => delivery'[m][a] = NoRow)
  <2>1. CASE UNCHANGED delivery
    BY <1>1, <1>2, <2>1
  <2>2. CASE \E n \in Messages : /\ ~Posted(n) /\ Posted(n)'
                                 /\ \E to : delivery' = [delivery EXCEPT ![n] = [b \in Actors |-> IF b \in to THEN QueuedRow ELSE NoRow]]
    <3>1. PICK n \in Messages : /\ Posted(n)'
                                /\ \E to : delivery' = [delivery EXCEPT ![n] = [b \in Actors |-> IF b \in to THEN QueuedRow ELSE NoRow]]
      BY <2>2
    <3>2. PICK to : delivery' = [delivery EXCEPT ![n] = [b \in Actors |-> IF b \in to THEN QueuedRow ELSE NoRow]]
      BY <3>1
    <3>3. CASE m = n
      <4>1. delivery'[m][a] \in {QueuedRow, NoRow}
        BY <1>2, <3>2, <3>3
      <4> QED  BY <1>2, <3>1, <3>3, <4>1, SoundRows
    <3>4. CASE m # n
      BY <1>1, <1>2, <3>2, <3>4
    <3> QED  BY <3>3, <3>4
  <2>3. CASE \E b \in Actors : \E here :
                delivery' = [n \in Messages |-> [delivery[n] EXCEPT ![b] = IF n \in here THEN revokedRow(delivery[n][b]) ELSE delivery[n][b]]]
    <3>1. delivery'[m][a] \in {delivery[m][a], revokedRow(delivery[m][a])}
      BY <1>2, <2>3
    <3> QED  BY <1>1, <1>2, <1>4, <3>1, SoundRows
  <2>4. ASSUME NEW n \in Messages, NEW b \in Actors, NEW row, delivery' = [delivery EXCEPT ![n][b] = row],
               RowIsSound(row), delivery[n][b] # NoRow
        PROVE  RowIsSound(delivery'[m][a]) /\ (~Posted(m)' => delivery'[m][a] = NoRow)
    <3>1. delivery'[m][a] = delivery[m][a] \/ (n = m /\ b = a /\ delivery'[m][a] = row)
      BY <1>2, <2>4
    <3> QED  BY <1>1, <1>2, <2>4, <3>1
  <2>5. CASE \E n \in Messages, b \in Actors :
               Takable(delivery[n][b]) /\ delivery' = [delivery EXCEPT ![n][b] = claimedRow(delivery[n][b])]
    <3>1. PICK n \in Messages, b \in Actors :
               Takable(delivery[n][b]) /\ delivery' = [delivery EXCEPT ![n][b] = claimedRow(delivery[n][b])]
      BY <2>5
    <3>2. RowIsSound(claimedRow(delivery[n][b])) /\ delivery[n][b] # NoRow
      BY <1>2, <1>4, <3>1, SoundRows DEF Takable
    <3> QED  BY <2>4, <3>1, <3>2
  <2>6. CASE \E n \in Messages, b \in Actors :
               /\ delivery[n][b].lease = "running"
               /\ delivery' = [delivery EXCEPT ![n][b] = [delivery[n][b] EXCEPT !.lease = "lapsed"]]
    <3>1. PICK n \in Messages, b \in Actors :
               /\ delivery[n][b].lease = "running"
               /\ delivery' = [delivery EXCEPT ![n][b] = [delivery[n][b] EXCEPT !.lease = "lapsed"]]
      BY <2>6
    <3>2. RowIsSound([delivery[n][b] EXCEPT !.lease = "lapsed"]) /\ delivery[n][b] # NoRow
      BY <1>2, <1>4, <3>1, SoundRows
    <3> QED  BY <2>4, <3>1, <3>2
  <2>7. CASE \E n \in Messages, b \in Actors, token \in Nat, next \in {"acked", "dead", "queued"} :
               /\ delivery[n][b].state = "claimed"
               /\ delivery' = [delivery EXCEPT ![n][b] = finishedRow(delivery[n][b], token, next)]
    <3>1. PICK n \in Messages, b \in Actors, token \in Nat, next \in {"acked", "dead", "queued"} :
               /\ delivery[n][b].state = "claimed"
               /\ delivery' = [delivery EXCEPT ![n][b] = finishedRow(delivery[n][b], token, next)]
      BY <2>7
    <3>2. RowIsSound(finishedRow(delivery[n][b], token, next)) /\ delivery[n][b] # NoRow
      BY <1>2, <1>4, <3>1, SoundRows
    <3> QED  BY <2>4, <3>1, <3>2
  <2>8. \/ \E n \in Messages, b \in Actors :
              Takable(delivery[n][b]) /\ delivery' = [delivery EXCEPT ![n][b] = claimedRow(delivery[n][b])]
        \/ \E n \in Messages, b \in Actors :
              /\ delivery[n][b].lease = "running"
              /\ delivery' = [delivery EXCEPT ![n][b] = [delivery[n][b] EXCEPT !.lease = "lapsed"]]
        \/ \E n \in Messages, b \in Actors, token \in Nat, next \in {"acked", "dead", "queued"} :
              /\ delivery[n][b].state = "claimed"
              /\ delivery' = [delivery EXCEPT ![n][b] = finishedRow(delivery[n][b], token, next)]
        \/ ~\E n \in Messages, b \in Actors : WritesRow(n, b)
    BY DEF WritesRow
  <2>9. CASE ~\E n \in Messages, b \in Actors : WritesRow(n, b)
    BY <1>1, <2>1, <2>2, <2>3, <2>9 DEF WritesRows
  <2> QED  BY <2>5, <2>6, <2>7, <2>8, <2>9
<1> QED  BY <1>3, <1>5 DEF RowsAreSound

Rows == Messages \X Actors
Item == [i \in Rows |-> queueItem(delivery[i[1]][i[2]])]

LEMMA ItemOfRow ==
    ASSUME NEW m \in Messages, NEW a \in Actors
    PROVE  <<m, a>> \in Rows /\ Item[<<m, a>>] = queueItem(delivery[m][a])
BY DEF Rows, Item

\* A step that writes one row writes one item.
LEMMA OneItem ==
    ASSUME RowsAreSound, NEW m \in Messages, NEW a \in Actors, NEW row,
           delivery' = [delivery EXCEPT ![m][a] = row]
    PROVE  Item' = [Item EXCEPT ![<<m, a>>] = queueItem(row)]
<1>1. ASSUME NEW i \in Rows
      PROVE  queueItem(delivery'[i[1]][i[2]])
                = IF i = <<m, a>> THEN queueItem(row) ELSE queueItem(delivery[i[1]][i[2]])
  <2>1. PICK n \in Messages, b \in Actors : i = <<n, b>>
    BY <1>1 DEF Rows
  <2>2. delivery'[n][b] = IF n = m /\ b = a THEN row ELSE delivery[n][b]
    BY DEF RowsAreSound
  <2> QED  BY <2>1, <2>2
<1> QED  BY <1>1 DEF Item

\* A step that changes several items in the same way.
LEMMA ManyItems ==
    ASSUME NEW phase,
           \A i \in Rows : Item'[i] = Item[i] \/ Item'[i] = [Item[i] EXCEPT !.phase = phase]
    PROVE  /\ Queue!Touched = {i \in Rows : Item'[i] # Item[i]}
           /\ Item' = [i \in Rows |-> IF i \in Queue!Touched THEN [Item[i] EXCEPT !.phase = phase] ELSE Item[i]]
<1>1. Queue!Touched = {i \in Rows : Item'[i] # Item[i]}
  BY DEF Queue!Touched, Item, Rows
<1>2. Item' = [i \in Rows |-> Item'[i]]
  BY DEF Item
<1> QED  BY <1>1, <1>2

\* What the mapping makes of the rows that are written.
LEMMA HeldItem ==
    ASSUME NEW row, row.state = "claimed", row.lease \in {"running", "lapsed"}
    PROVE  queueItem(row) = [phase  |-> IF row.lease = "lapsed" THEN "overdue" ELSE "held",
                             gen    |-> row.attempt, winner |-> 0]
BY DEF queueItem, Phase, Settled

LEMMA FreeItem ==
    ASSUME NEW row, row.state = "queued"
    PROVE  queueItem(row) = [phase |-> "available", gen |-> row.attempt, winner |-> 0]
BY DEF queueItem, Phase, Settled

LEMMA TakenItem ==
    ASSUME NEW row, RowIsSound(row), Takable(row)
    PROVE  /\ queueItem(row).phase \in {"available", "overdue"}
           /\ queueItem(claimedRow(row))
                 = [phase |-> "held", gen |-> queueItem(row).gen + 1, winner |-> queueItem(row).winner]
<1>1. /\ claimedRow(row).state = "claimed" /\ claimedRow(row).attempt = row.attempt + 1
      /\ claimedRow(row).lease = "running"
  BY DEF claimedRow, RowIsSound, Row
<1>2. queueItem(claimedRow(row)) = [phase |-> "held", gen |-> row.attempt + 1, winner |-> 0]
  BY <1>1, HeldItem
<1>3. queueItem(row).gen = row.attempt /\ queueItem(row).phase \in {"available", "overdue"} /\ queueItem(row).winner = 0
  <2>1. CASE row.state = "queued"
    BY <2>1, FreeItem
  <2>2. CASE row.state = "claimed" /\ row.lease = "lapsed"
    BY <2>2, HeldItem
  <2> QED  BY <2>1, <2>2 DEF Takable
<1> QED  BY <1>2, <1>3, Zenon

LEMMA OverdueItem ==
    ASSUME NEW row, RowIsSound(row), row.lease = "running"
    PROVE  /\ queueItem(row).phase \in {"held", "overdue"}
           /\ queueItem([row EXCEPT !.lease = "lapsed"]) = [queueItem(row) EXCEPT !.phase = "overdue"]
<1>1. row.state = "claimed" /\ row \in Row
  BY DEF RowIsSound
<1>2. /\ [row EXCEPT !.lease = "lapsed"].state = "claimed" /\ [row EXCEPT !.lease = "lapsed"].attempt = row.attempt
      /\ [row EXCEPT !.lease = "lapsed"].lease = "lapsed"
  BY <1>1 DEF Row
<1>3. queueItem([row EXCEPT !.lease = "lapsed"]) = [phase |-> "overdue", gen |-> row.attempt, winner |-> 0]
  BY <1>2, HeldItem
<1>4. queueItem(row) = [phase |-> "held", gen |-> row.attempt, winner |-> 0]
  BY <1>1, HeldItem
<1> QED  BY <1>3, <1>4

LEMMA FinishedItem ==
    ASSUME NEW row, RowIsSound(row), row.state = "claimed", NEW next \in {"acked", "dead", "queued"}
    PROVE  /\ queueItem(row).phase \in {"held", "overdue"}
           /\ next = "queued" =>
                 queueItem(finishedRow(row, row.token, next)) = [queueItem(row) EXCEPT !.phase = "available"]
           /\ next # "queued" =>
                 queueItem(finishedRow(row, row.token, next))
                    = [phase |-> next, gen |-> queueItem(row).gen, winner |-> queueItem(row).gen]
<1>1. row.lease \in {"running", "lapsed"} /\ row.token = row.attempt /\ row \in Row
  BY DEF RowIsSound
<1>2. queueItem(row) = [phase |-> IF row.lease = "lapsed" THEN "overdue" ELSE "held", gen |-> row.attempt, winner |-> 0]
  BY <1>1, HeldItem
<1>3. queueItem(row).phase \in {"held", "overdue"} /\ queueItem(row).gen = row.attempt
  BY <1>2
<1>4. CASE next = "queued"
  <2>1. /\ finishedRow(row, row.token, next).state = "queued"
        /\ finishedRow(row, row.token, next).attempt = row.attempt
    BY <1>1, <1>4 DEF finishedRow, Row
  <2>2. queueItem(finishedRow(row, row.token, next)) = [phase |-> "available", gen |-> row.attempt, winner |-> 0]
    BY <2>1, FreeItem
  <2> QED  BY <1>2, <1>3, <1>4, <2>2
<1>5. CASE next # "queued"
  <2>1. /\ finishedRow(row, row.token, next).state = next
        /\ finishedRow(row, row.token, next).attempt = row.attempt
        /\ finishedRow(row, row.token, next).terminal = row.attempt
    BY <1>1, <1>5 DEF finishedRow, Row
  <2>2. queueItem(finishedRow(row, row.token, next)) = [phase |-> next, gen |-> row.attempt, winner |-> row.attempt]
    BY <1>5, <2>1 DEF queueItem, Phase, Settled
  <2> QED  BY <1>3, <1>5, <2>2, Zenon
<1> QED  BY <1>4, <1>5

LEMMA RevokedItem ==
    ASSUME NEW row, RowIsSound(row)
    PROVE  \/ revokedRow(row) = row
           \/ /\ queueItem(row).phase \in {"available", "held", "overdue"}
              /\ queueItem(revokedRow(row)) = [queueItem(row) EXCEPT !.phase = "withdrawn"]
<1>1. CASE ~Unsettled(row)
  BY <1>1 DEF revokedRow
<1>2. CASE Unsettled(row)
  <2>1. revokedRow(row).state = "revoked" /\ revokedRow(row).attempt = row.attempt
    BY <1>2 DEF revokedRow, RowIsSound, Row
  <2>2. queueItem(revokedRow(row)) = [phase |-> "withdrawn", gen |-> row.attempt, winner |-> 0]
    BY <2>1 DEF queueItem, Phase, Settled
  <2>3. /\ queueItem(row).phase \in {"available", "held", "overdue"}
        /\ queueItem(row) = [phase |-> queueItem(row).phase, gen |-> row.attempt, winner |-> 0]
    BY <1>2 DEF queueItem, Phase, Settled, Unsettled, RowIsSound
  <2> HIDE DEF queueItem
  <2> QED  BY <2>2, <2>3
<1> QED  BY <1>1, <1>2

LEMMA QueueInit == Init => RowsAreSound /\ Queue!Init
<1> SUFFICES ASSUME Init PROVE RowsAreSound /\ Item = [i \in Rows |-> Queue!Absent]
  BY DEF Queue!Init, Item, Rows
<1>1. \A m \in Messages, a \in Actors : delivery[m][a] = NoRow
  BY DEF Init
<1>2. RowsAreSound
  BY <1>1 DEF Init, RowsAreSound, RowIsSound, NoRow, Row, NoToken
<1>3. ASSUME NEW i \in Rows PROVE queueItem(delivery[i[1]][i[2]]) = Queue!Absent
  <2>1. delivery[i[1]][i[2]] = NoRow
    BY <1>1 DEF Rows
  <2> QED  BY <2>1 DEF queueItem, NoRow, Phase, Settled, Queue!Absent
<1> QED  BY <1>2, <1>3 DEF Item

LEMMA RowWrittenIsStep ==
    ASSUME RowsAreSound, NEW m \in Messages, NEW a \in Actors, WritesRow(m, a)
    PROVE  Queue!Next
<1> DEFINE i   == <<m, a>>
           row == delivery[m][a]
<1>1. RowIsSound(row) /\ i \in Rows /\ Item[i] = queueItem(row)
  BY ItemOfRow DEF RowsAreSound
<1>2. CASE Takable(row) /\ delivery' = [delivery EXCEPT ![m][a] = claimedRow(row)]
  <2>1. Item' = [Item EXCEPT ![i] = queueItem(claimedRow(row))]
    BY <1>2, OneItem
  <2>2. Item[i].phase \in {"available", "overdue"}
        /\ queueItem(claimedRow(row)) = [phase |-> "held", gen |-> Item[i].gen + 1, winner |-> Item[i].winner]
    BY <1>1, <1>2, TakenItem
  <2>3. Queue!Take(i)
    BY <2>1, <2>2 DEF Queue!Take, Item, Rows
  <2> QED  BY <1>1, <2>3 DEF Queue!Next, Rows
<1>3. CASE row.lease = "running" /\ delivery' = [delivery EXCEPT ![m][a] = [row EXCEPT !.lease = "lapsed"]]
  <2>1. Item' = [Item EXCEPT ![i] = queueItem([row EXCEPT !.lease = "lapsed"])]
    BY <1>3, OneItem
  <2>2. Item[i].phase \in {"held", "overdue"}
        /\ queueItem([row EXCEPT !.lease = "lapsed"]) = [Item[i] EXCEPT !.phase = "overdue"]
    BY <1>1, <1>3, OverdueItem
  <2>3. Queue!Overrun(i, "overdue")
    BY <2>1, <2>2 DEF Queue!Overrun, Queue!Held, Item, Rows
  <2> QED  BY <1>1, <2>3 DEF Queue!Next, Rows
<1>4. ASSUME NEW next \in {"acked", "dead", "queued"}, row.state = "claimed",
             delivery' = [delivery EXCEPT ![m][a] = finishedRow(row, row.token, next)]
      PROVE  Queue!Next
  <2>1. Item' = [Item EXCEPT ![i] = queueItem(finishedRow(row, row.token, next))]
    BY <1>4, OneItem
  <2>2. /\ Item[i].phase \in {"held", "overdue"}
        /\ next = "queued" => queueItem(finishedRow(row, row.token, next)) = [Item[i] EXCEPT !.phase = "available"]
        /\ next # "queued" => queueItem(finishedRow(row, row.token, next))
                                 = [phase |-> next, gen |-> Item[i].gen, winner |-> Item[i].gen]
    <3>1. /\ queueItem(row).phase \in {"held", "overdue"}
          /\ next = "queued" =>
                queueItem(finishedRow(row, row.token, next)) = [queueItem(row) EXCEPT !.phase = "available"]
          /\ next # "queued" =>
                queueItem(finishedRow(row, row.token, next))
                   = [phase |-> next, gen |-> queueItem(row).gen, winner |-> queueItem(row).gen]
      BY <1>1, <1>4, FinishedItem
    <3> QED  BY <1>1, <3>1, Zenon
  <2>3. CASE next = "queued"
    <3>1. Queue!Return(i)
      BY <2>1, <2>2, <2>3 DEF Queue!Return, Queue!Held, Item, Rows
    <3> QED  BY <1>1, <3>1 DEF Queue!Next, Rows
  <2>4. CASE next # "queued"
    <3>1. Queue!Settle(i, next)
      BY <2>1, <2>2, <2>4 DEF Queue!Settle, Queue!Held, Item, Rows
    <3> QED  BY <1>1, <2>4, <3>1 DEF Queue!Next, Rows
  <2> QED  BY <2>3, <2>4
<1> QED  BY <1>2, <1>3, <1>4 DEF WritesRow

LEMMA QueueStep ==
    ConversationInv /\ RowsAreSound /\ [Next]_vars => Queue!Next \/ Item' = Item
<1> SUFFICES ASSUME ConversationInv, RowsAreSound, [Next]_vars PROVE Queue!Next \/ Item' = Item
  OBVIOUS
<1>1. WritesRows
  BY StepWritesRows
<1>2. /\ delivery \in [Messages -> [Actors -> Row]]
      /\ \A m \in Messages, a \in Actors : RowIsSound(delivery[m][a]) /\ (~Posted(m) => delivery[m][a] = NoRow)
  BY DEF RowsAreSound
<1>3. CASE UNCHANGED delivery
  BY <1>3 DEF Item
<1>4. CASE \E m \in Messages : /\ ~Posted(m)
                               /\ \E to : delivery' = [delivery EXCEPT ![m] =
                                                     [a \in Actors |-> IF a \in to THEN QueuedRow ELSE NoRow]]
  <2>1. PICK m \in Messages : /\ ~Posted(m)
                              /\ \E to : delivery' = [delivery EXCEPT ![m] =
                                                    [a \in Actors |-> IF a \in to THEN QueuedRow ELSE NoRow]]
    BY <1>4
  <2>2. PICK to : delivery' = [delivery EXCEPT ![m] = [a \in Actors |-> IF a \in to THEN QueuedRow ELSE NoRow]]
    BY <2>1
  <2>3. /\ queueItem(NoRow).phase = "absent"
        /\ queueItem(QueuedRow) = [queueItem(NoRow) EXCEPT !.phase = "available"]
    BY DEF queueItem, NoRow, QueuedRow, Phase, Settled
  <2>4. ASSUME NEW i \in Rows
        PROVE  \/ Item'[i] = Item[i]
               \/ Item[i].phase = "absent" /\ Item'[i] = [Item[i] EXCEPT !.phase = "available"]
    <3>1. PICK n \in Messages, b \in Actors : i = <<n, b>>
      BY <2>4 DEF Rows
    <3>2. Item[i] = queueItem(delivery[n][b]) /\ Item'[i] = queueItem(delivery'[n][b])
      BY <3>1 DEF Item, Rows
    <3>3. delivery'[n][b] = delivery[n][b] \/ (delivery[n][b] = NoRow /\ delivery'[n][b] \in {QueuedRow, NoRow})
      BY <1>2, <2>1, <2>2
    <3> QED  BY <2>3, <3>2, <3>3
  <2>5. Queue!Publish
    <3>1. /\ Queue!Touched = {i \in Rows : Item'[i] # Item[i]}
          /\ Item' = [i \in Rows |-> IF i \in Queue!Touched THEN [Item[i] EXCEPT !.phase = "available"] ELSE Item[i]]
      BY <2>4, ManyItems
    <3>2. \A i \in Queue!Touched : Item[i].phase = "absent"
      BY <2>4, <3>1
    <3> QED  BY <3>1, <3>2 DEF Queue!Publish, Item, Rows
  <2> QED  BY <2>5 DEF Queue!Next
<1>5. CASE \E a \in Actors : \E here :
              delivery' = [m \in Messages |-> [delivery[m] EXCEPT ![a] =
                             IF m \in here THEN revokedRow(delivery[m][a]) ELSE delivery[m][a]]]
  <2>1. ASSUME NEW i \in Rows
        PROVE  \/ Item'[i] = Item[i]
               \/ /\ Item[i].phase \in {"available", "held", "overdue"}
                  /\ Item'[i] = [Item[i] EXCEPT !.phase = "withdrawn"]
    <3>1. PICK n \in Messages, b \in Actors : i = <<n, b>>
      BY <2>1 DEF Rows
    <3>2. Item[i] = queueItem(delivery[n][b]) /\ Item'[i] = queueItem(delivery'[n][b])
      BY <3>1 DEF Item, Rows
    <3>3. delivery'[n][b] \in {delivery[n][b], revokedRow(delivery[n][b])}
      BY <1>2, <1>5
    <3> QED  BY <1>2, <3>2, <3>3, RevokedItem
  <2>2. Queue!Withdraw
    <3>1. /\ Queue!Touched = {i \in Rows : Item'[i] # Item[i]}
          /\ Item' = [i \in Rows |-> IF i \in Queue!Touched THEN [Item[i] EXCEPT !.phase = "withdrawn"] ELSE Item[i]]
      BY <2>1, ManyItems
    <3>2. \A i \in Queue!Touched : Item[i].phase = "available" \/ Item[i].phase \in {"held", "overdue"}
      BY <2>1, <3>1
    <3> QED  BY <3>1, <3>2 DEF Queue!Withdraw, Queue!Held, Item, Rows
  <2> QED  BY <2>2 DEF Queue!Next
<1>6. CASE \E m \in Messages, a \in Actors : WritesRow(m, a)
  BY <1>6, RowWrittenIsStep
<1> QED  BY <1>1, <1>3, <1>4, <1>5, <1>6 DEF WritesRows

\* Claims, late finishes and removals implement the fenced queue: no managed
\* delivery has two holders with running leases, no old claim settles it, and a
\* settled or revoked delivery stays so (ChannelClaim, ChannelDeliveryUpdate,
\* ChannelMembershipChange).
THEOREM ConversationIsFencedQueue == Spec => ManagedDeliveriesAreFenced
<1>1. ConversationInv /\ RowsAreSound /\ [Next]_vars => [Queue!Next]_Item
  BY QueueStep
<1> QED  BY <1>1, QueueInit, RowsSoundStep, ConversationInvariance, PTL
         DEF Spec, ManagedDeliveriesAreFenced, Queue!Spec, Item, Rows
===============================================================================
