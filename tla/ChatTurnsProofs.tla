--------------------------- MODULE ChatTurnsProofs ---------------------------
(***************************************************************************)
(* Proofs about ChatTurns: for any chats and sessions and any limit of the *)
(* history, replies follow their questions in every session and every      *)
(* history, and the memory service knows whole turns only.                 *)
(***************************************************************************)
EXTENDS ChatTurns, TLAPS

\* What a chat is at while save_turn runs.
Saving == {"savingQuestion", "savingReply", "consolidating"}

Phases ==
    {"idle", "searching", "answering", "recording", "done"} \cup Saving

Types ==
    /\ session \in [Chats -> Sessions]
    /\ saves \in SUBSET Chats
    /\ messages \in [Sessions -> Seq(MessageType)]
    /\ events \in Seq(MessageType)
    /\ consolidated \in 0 .. Len(events)
    /\ pc \in [Chats -> Phases]
    /\ history \in [Chats -> Seq(MessageType)]
    /\ result \in [Chats -> {"none", "answered", "failed", "saved", "unsaved"}]

\* Every reply in s stands right after its question.
Paired(s) ==
    \A i \in DOMAIN s : s[i].role = "assistant" =>
        i > 1 /\ s[i - 1] = Question(s[i].chat)

\* The same of a part of a session, which may begin with a reply.
PairedFromSecond(s) ==
    \A i \in 2 .. Len(s) : s[i].role = "assistant" =>
        s[i - 1] = Question(s[i].chat)

\* The phases in which a message of the role has been stored: of c no message
\* but these can be in its session.
After(role) ==
    Saving \cup {"done"} \cup (IF role = "user" THEN {"recording"} ELSE {})

\* Each session holds messages of its own chats, each of them once.
SessionsHoldTurns ==
    \A s \in Sessions :
        /\ IsInjective(messages[s])
        /\ Paired(messages[s])
        /\ \A i \in DOMAIN messages[s] :
              /\ session[messages[s][i].chat] = s
              /\ pc[messages[s][i].chat] \in After(messages[s][i].role)

\* Between its two messages a chat is alone, and its question is the last
\* message of its session.
RecordingIsAlone ==
    \A c \in Chats : pc[c] = "recording" =>
        /\ \A d \in Chats : pc[d] = "recording" => d = c
        /\ Len(messages[session[c]]) > 0
        /\ messages[session[c]][Len(messages[session[c]])] = Question(c)

\* The session shows both messages of c.
Shown(c) ==
    {Question(c), Reply(c)} \subseteq ToSet(messages[session[c]])

SavedTurnsAreShown == \A c \in Chats : pc[c] \in Saving => Shown(c)

HistoriesArePaired == \A c \in Chats : PairedFromSecond(history[c])

\* The phases in which an event of the role may have been delivered.
AfterPost(role) ==
    {"consolidating", "done"} \cup
        (IF role = "user" THEN {"savingReply"} ELSE {})

EventsAreTurns ==
    /\ IsInjective(events)
    /\ \A i \in DOMAIN events :
          /\ Shown(events[i].chat)
          /\ pc[events[i].chat] \in AfterPost(events[i].role)
          /\ events[i].role = "assistant" =>
                \E j \in 1 .. i - 1 : events[j] = Question(events[i].chat)

\* What save_turn has delivered before the post it is at.
PostsAreDelivered ==
    \A c \in Chats :
        /\ pc[c] = "savingReply" => Question(c) \in ToSet(events)
        /\ pc[c] = "consolidating" => Reply(c) \in ToSet(events)
        /\ result[c] = "saved" =>
              \E i \in 1 .. consolidated : events[i] = Reply(c)

ChatInvariant ==
    /\ Types
    /\ SessionsHoldTurns
    /\ RecordingIsAlone
    /\ SavedTurnsAreShown
    /\ HistoriesArePaired
    /\ EventsAreTurns
    /\ PostsAreDelivered

-----------------------------------------------------------------------------
(***************************************************************************)
(* Messages and sequences of them.                                         *)
(***************************************************************************)

\* A message is the question or the reply of its chat, and never both.
LEMMA MessagesAreTurns ==
  /\ \A c \in Chats :
        /\ Question(c) \in MessageType /\ Reply(c) \in MessageType
        /\ Question(c).chat = c /\ Question(c).role = "user"
        /\ Reply(c).chat = c /\ Reply(c).role = "assistant"
        /\ Question(c) # Reply(c)
  /\ \A m \in MessageType :
        /\ m.chat \in Chats
        /\ m.role = "user" => m = Question(m.chat)
        /\ m.role # "user" => m.role = "assistant" /\ m = Reply(m.chat)
BY DEF Question, Reply, MessageType

\* What Append does to the members of a sequence.
LEMMA AppendAdds ==
  ASSUME NEW S, NEW q \in Seq(S), NEW e \in S
  PROVE  /\ Append(q, e) \in Seq(S)
         /\ Len(q) \in Nat
         /\ Len(Append(q, e)) = Len(q) + 1
         /\ DOMAIN q = 1 .. Len(q)
         /\ DOMAIN Append(q, e) = 1 .. Len(q) + 1
         /\ \A i \in DOMAIN q : Append(q, e)[i] = q[i] /\ q[i] \in S
         /\ Append(q, e)[Len(q) + 1] = e
         /\ ToSet(Append(q, e)) = ToSet(q) \cup {e}
<1>1. /\ Append(q, e) \in Seq(S)
      /\ Len(q) \in Nat
      /\ Len(Append(q, e)) = Len(q) + 1
      /\ DOMAIN q = 1 .. Len(q)
      /\ DOMAIN Append(q, e) = 1 .. Len(q) + 1
      /\ \A i \in DOMAIN q : Append(q, e)[i] = q[i] /\ q[i] \in S
      /\ Append(q, e)[Len(q) + 1] = e
  OBVIOUS
<1>2. ToSet(Append(q, e)) = ToSet(q) \cup {e}
  <2>1. DOMAIN Append(q, e) = DOMAIN q \cup {Len(q) + 1}
    BY <1>1
  <2>2. QED
    BY <1>1, <2>1 DEF ToSet
<1>3. QED
  BY <1>1, <1>2

\* No message comes to be there twice by appending one that is not there.
LEMMA AppendKeepsInjective ==
  ASSUME NEW S, NEW q \in Seq(S), NEW e \in S, IsInjective(q),
         e \notin ToSet(q)
  PROVE  IsInjective(Append(q, e))
<1>1. \A i \in DOMAIN q : q[i] # e
  BY DEF ToSet
<1>2. QED
  BY <1>1, AppendAdds DEF IsInjective

-----------------------------------------------------------------------------
(***************************************************************************)
(* What a step can do.                                                     *)
(***************************************************************************)

Forward ==
    {<<"idle", "searching">>, <<"searching", "answering">>,
     <<"answering", "recording">>, <<"recording", "savingQuestion">>,
     <<"savingQuestion", "savingReply">>, <<"savingReply", "consolidating">>}

\* A chat goes on by one phase or ends; it enters the phases that count by
\* one action only.
LEMMA PhasesAdvance ==
  ASSUME Types, [Next]_vars, NEW c \in Chats
  PROVE  /\ pc'[c] = pc[c] \/ pc'[c] = "done" \/ <<pc[c], pc'[c]>> \in Forward
         /\ pc'[c] = "recording" => pc[c] = "recording" \/ AddQuestion(c)
         /\ pc'[c] \in Saving => pc[c] \in Saving \/ AddReply(c)
         /\ pc'[c] \in Saving /\ pc'[c] # pc[c] => AddReply(c) \/ Post(c)
         /\ result'[c] = "saved" =>
               result[c] = "saved" \/ (Post(c) /\ pc[c] = "consolidating")
<1>1. CASE UNCHANGED vars
  BY <1>1 DEF vars
<1>2. CASE Crash
  BY <1>2 DEF Crash, Types, Saving
<1>3. ASSUME NEW d \in Chats, Start(d) \/ Search(d) \/ AddQuestion(d)
      PROVE  /\ result' = result
             /\ \/ pc'[c] = pc[c]
                \/ c = d /\ <<pc[c], pc'[c]>> \in Forward
             /\ pc'[c] = "recording" => pc[c] = "recording" \/ AddQuestion(c)
             /\ pc'[c] \in Saving => pc'[c] = pc[c]
  BY <1>3 DEF Start, Search, AddQuestion, Goto, Forward, Types, Saving
<1>4. ASSUME NEW d \in Chats, AddReply(d)
      PROVE  /\ result'[c] = result[c] \/ result'[c] # "saved"
             /\ \/ pc'[c] = pc[c]
                \/ c = d /\ pc[c] = "recording"
                         /\ pc'[c] \in {"savingQuestion", "done"}
  BY <1>4 DEF AddReply, Goto, Finish, Types
<1>5. ASSUME NEW d \in Chats, Raise(d) \/ PostFails(d)
      PROVE  /\ result'[c] = result[c] \/ result'[c] # "saved"
             /\ pc'[c] = pc[c] \/ pc'[c] = "done"
  BY <1>5 DEF Raise, PostFails, GiveUp, Finish, Types
<1>6. ASSUME NEW d \in Chats, Post(d)
      PROVE  /\ pc[d] \in Saving
             /\ pc'[d] = Following[pc[d]]
             /\ result'[c] = "saved" => result[c] = "saved" \/
                                         (c = d /\ pc[c] = "consolidating")
             /\ c # d => pc'[c] = pc[c]
  BY <1>6 DEF Post, Delivered, GoOn, Types, Saving
<1>7. ASSUME NEW d \in Chats, Post(d)
      PROVE  /\ pc[d] \in Saving
             /\ pc'[d] = "done" \/ <<pc[d], pc'[d]>> \in Forward
             /\ pc'[d] # "recording"
  BY <1>6, <1>7 DEF Following, Forward, Saving
<1>8. ASSUME NEW d \in Chats, AddReply(d)
      PROVE  c = d /\ pc[c] = "recording" /\ pc'[c] = "savingQuestion" =>
                <<pc[c], pc'[c]>> \in Forward
  BY DEF Forward
<1>9. CASE \E d \in Chats : Start(d) \/ Search(d) \/ AddQuestion(d)
  BY <1>3, <1>9
<1>10. CASE \E d \in Chats : AddReply(d)
  BY <1>4, <1>8, <1>10 DEF Saving
<1>11. CASE \E d \in Chats : Raise(d) \/ PostFails(d)
  BY <1>5, <1>11 DEF Saving
<1>12. CASE \E d \in Chats : Post(d)
  BY <1>6, <1>7, <1>12
<1>13. QED
  BY <1>1, <1>2, <1>9, <1>10, <1>11, <1>12 DEF Next

\* What each table owes its changes to.
LEMMA WritersOfTables ==
  ASSUME [Next]_vars
  PROVE  /\ session' = session /\ saves' = saves
         /\ messages' = messages \/ \E c \in Chats : AddQuestion(c) \/ AddReply(c)
         /\ history' = history \/ \E c \in Chats : Start(c)
         /\ \/ events' = events /\ consolidated' = consolidated
            \/ \E c \in Chats : (Post(c) \/ PostFails(c)) /\ Delivered(c)
BY DEF Next, vars, asked, remote, Start, Search, AddQuestion, AddReply, Raise,
       Post, PostFails, Crash

\* Once stored or delivered, a message stays allowed by the phase of its chat.
LEMMA AfterIsKept ==
  ASSUME Types, [Next]_vars, NEW c \in Chats, NEW r \in {"user", "assistant"}
  PROVE  /\ pc[c] \in After(r) => pc'[c] \in After(r)
         /\ pc[c] \in AfterPost(r) => pc'[c] \in AfterPost(r)
BY PhasesAdvance DEF After, AfterPost, Saving, Forward

\* Delivered appends the message of the phase to the events, or asks for a
\* consolidation of all of them.
LEMMA DeliveredAdds ==
  ASSUME Types, NEW c \in Chats, Delivered(c)
  PROVE  \/ /\ pc[c] \in {"savingQuestion", "savingReply"}
            /\ events' = Append(events, IF pc[c] = "savingQuestion"
                                        THEN Question(c) ELSE Reply(c))
            /\ consolidated' = consolidated
         \/ /\ pc[c] = "consolidating"
            /\ events' = events /\ consolidated' = Len(events)
BY DEF Delivered

\* A history is the end of its session, from some message on.
LEMMA StartCopiesEnd ==
  ASSUME Types, NEW c \in Chats, Start(c)
  PROVE  /\ messages[session[c]] \in Seq(MessageType)
         /\ \E m \in Nat \ {0} :
              history' = [history EXCEPT ![c] =
                  SubSeq(messages[session[c]], m, Len(messages[session[c]]))]
<1>1. messages[session[c]] \in Seq(MessageType)
  BY DEF Types
<1>2. Len(messages[session[c]]) \in Nat
  BY <1>1
<1> DEFINE m == IF Len(messages[session[c]]) > HistoryLimit
                THEN Len(messages[session[c]]) - HistoryLimit + 1 ELSE 1
<1>3. m \in Nat \ {0}
  BY <1>2, ChatAssumption
<1>4. history' = [history EXCEPT ![c] =
          SubSeq(messages[session[c]], m, Len(messages[session[c]]))]
  BY DEF Start
<1>5. QED
  BY <1>1, <1>3, <1>4

\* Every step keeps the types.
LEMMA TypesAreKept ==
  ASSUME Types, [Next]_vars
  PROVE  Types'
<1>1. session' \in [Chats -> Sessions] /\ saves' \in SUBSET Chats
  BY WritersOfTables DEF Types
<1>2. messages' \in [Sessions -> Seq(MessageType)]
  <2>1. CASE messages' = messages
    BY <2>1 DEF Types
  <2>2. ASSUME NEW c \in Chats, NEW e \in MessageType, AddMessage(c, e)
        PROVE  messages' \in [Sessions -> Seq(MessageType)]
    <3>1. session[c] \in Sessions
      BY DEF Types
    <3>2. Append(messages[session[c]], e) \in Seq(MessageType)
      BY <3>1, AppendAdds DEF Types
    <3>3. QED
      BY <2>2, <3>1, <3>2 DEF AddMessage, Types
  <2>3. QED
    BY <2>1, <2>2, WritersOfTables, MessagesAreTurns DEF AddQuestion, AddReply
<1>3. events' \in Seq(MessageType) /\ consolidated' \in 0 .. Len(events')
  <2>1. CASE events' = events /\ consolidated' = consolidated
    BY <2>1 DEF Types
  <2>2. ASSUME NEW c \in Chats, Delivered(c)
        PROVE  events' \in Seq(MessageType) /\ consolidated' \in 0 .. Len(events')
    <3>1. ASSUME NEW e \in MessageType, events' = Append(events, e),
                 consolidated' = consolidated
          PROVE  events' \in Seq(MessageType) /\ consolidated' \in 0 .. Len(events')
      BY <3>1, AppendAdds DEF Types
    <3>2. CASE events' = events /\ consolidated' = Len(events)
      BY <3>2 DEF Types
    <3>3. QED
      BY <2>2, <3>1, <3>2, DeliveredAdds, MessagesAreTurns
  <2>3. QED
    BY <2>1, <2>2, WritersOfTables
<1>4. history' \in [Chats -> Seq(MessageType)]
  <2>1. CASE history' = history
    BY <2>1 DEF Types
  <2>2. ASSUME NEW c \in Chats, Start(c)
        PROVE  history' \in [Chats -> Seq(MessageType)]
    <3>1. PICK q \in Seq(MessageType), m \in Nat \ {0} :
             history' = [history EXCEPT ![c] = SubSeq(q, m, Len(q))]
      BY <2>2, StartCopiesEnd
    <3>2. SubSeq(q, m, Len(q)) \in Seq(MessageType)
      <4>1. Len(q) \in Nat /\ \A i \in 1 .. Len(q) : q[i] \in MessageType
        OBVIOUS
      <4>2. \A i \in 1 .. 1 + Len(q) - m : m + i - 1 \in 1 .. Len(q)
        BY <4>1
      <4>3. QED
        BY <4>1, <4>2
    <3>3. QED
      BY <3>1, <3>2 DEF Types
  <2>3. QED
    BY <2>1, <2>2, WritersOfTables
<1>5. /\ pc' \in [Chats -> Phases]
      /\ result' \in [Chats -> {"none", "answered", "failed", "saved", "unsaved"}]
  <2>1. CASE UNCHANGED vars
    BY <2>1 DEF vars, Types
  <2>2. CASE Crash
    BY <2>2 DEF Crash, Types, Phases
  <2>3. ASSUME NEW c \in Chats,
               Start(c) \/ Search(c) \/ AddQuestion(c) \/ AddReply(c) \/ Raise(c)
        PROVE  /\ pc' \in [Chats -> Phases]
               /\ result' \in
                    [Chats -> {"none", "answered", "failed", "saved", "unsaved"}]
    BY <2>3 DEF Start, Search, AddQuestion, AddReply, Raise, Goto, Finish,
                Types, Phases, Saving
  <2>4. ASSUME NEW c \in Chats, Post(c) \/ PostFails(c)
        PROVE  /\ pc' \in [Chats -> Phases]
               /\ result' \in
                    [Chats -> {"none", "answered", "failed", "saved", "unsaved"}]
    <3>1. pc[c] \in Saving
      BY <2>4 DEF Post, PostFails, Delivered, Following, Saving
    <3>2. Following[pc[c]] \in Phases
      BY <3>1 DEF Following, Phases, Saving
    <3>3. QED
      BY <2>4, <3>2 DEF Post, PostFails, GoOn, GiveUp, Finish, Types, Phases
  <2>5. QED
    BY <2>1, <2>2, <2>3, <2>4 DEF Next
<1>6. QED
  BY <1>1, <1>2, <1>3, <1>4, <1>5 DEF Types

-----------------------------------------------------------------------------
(***************************************************************************)
(* Sessions and histories.                                                 *)
(***************************************************************************)

\* What is appended to a session keeps it in pairs: a question, or a reply
\* to the question it ends with.
LEMMA AppendKeepsPairs ==
  ASSUME NEW q \in Seq(MessageType), NEW e \in MessageType, Paired(q),
         e.role = "assistant" =>
            Len(q) > 0 /\ q[Len(q)] = Question(e.chat)
  PROVE  Paired(Append(q, e))
<1>1. SUFFICES ASSUME NEW i \in DOMAIN Append(q, e),
                      Append(q, e)[i].role = "assistant"
               PROVE  /\ i > 1
                      /\ Append(q, e)[i - 1] = Question(Append(q, e)[i].chat)
  BY DEF Paired
<1>2. CASE i \in DOMAIN q
  <2>1. i > 1 /\ q[i - 1] = Question(q[i].chat)
    BY <1>1, <1>2, AppendAdds DEF Paired
  <2>2. i - 1 \in DOMAIN q
    BY <1>2, <2>1, AppendAdds
  <2>3. QED
    BY <1>2, <2>1, <2>2, AppendAdds
<1>3. CASE i = Len(q) + 1
  <2>1. Len(q) > 0 /\ q[Len(q)] = Question(e.chat)
    BY <1>1, <1>3, AppendAdds
  <2>2. Len(q) \in DOMAIN q
    BY <2>1, AppendAdds
  <2>3. QED
    BY <1>3, <2>1, <2>2, AppendAdds
<1>4. QED
  BY <1>2, <1>3, AppendAdds

\* The end of a session, from any message on, is in pairs from its second.
LEMMA EndsArePaired ==
  ASSUME NEW q \in Seq(MessageType), Paired(q), NEW m \in Nat \ {0}
  PROVE  PairedFromSecond(SubSeq(q, m, Len(q)))
<1> DEFINE p == SubSeq(q, m, Len(q))
<1>1. /\ Len(p) \in Nat
      /\ \A i \in 1 .. Len(p) : p[i] = q[m + i - 1] /\ m + i - 1 \in DOMAIN q
  OBVIOUS
<1>2. SUFFICES ASSUME NEW i \in 2 .. Len(p), p[i].role = "assistant"
               PROVE  p[i - 1] = Question(p[i].chat)
  BY DEF PairedFromSecond
<1>3. /\ p[i] = q[m + i - 1] /\ m + i - 1 \in DOMAIN q
      /\ p[i - 1] = q[m + (i - 1) - 1]
      /\ m + (i - 1) - 1 = (m + i - 1) - 1
  <2>1. i \in 1 .. Len(p) /\ i - 1 \in 1 .. Len(p)
    BY <1>1
  <2>2. QED
    BY <1>1, <2>1
<1> HIDE DEF p
<1>4. QED
  BY <1>2, <1>3 DEF Paired

\* A message that enters a session is new there.
LEMMA AddedIsNew ==
  ASSUME ChatInvariant, NEW c \in Chats, AddQuestion(c) \/ AddReply(c)
  PROVE  \E e \in MessageType :
            /\ AddMessage(c, e)
            /\ e.chat = c
            /\ pc'[c] \in After(e.role)
            /\ e \notin ToSet(messages[session[c]])
            /\ e.role = "assistant" =>
                  /\ Len(messages[session[c]]) > 0
                  /\ messages[session[c]][Len(messages[session[c]])] = Question(c)
<1> DEFINE q == messages[session[c]]
<1>1. session[c] \in Sessions /\ q \in Seq(MessageType)
  BY DEF ChatInvariant, Types
<1>2. \A i \in DOMAIN q :
         q[i].chat = c => pc[c] \in After(q[i].role)
  BY <1>1 DEF ChatInvariant, SessionsHoldTurns
<1>3. CASE AddQuestion(c)
  <2>1. pc[c] = "answering" /\ pc'[c] = "recording"
    BY <1>3 DEF AddQuestion, Goto, ChatInvariant, Types
  <2>2. Question(c) \notin ToSet(q)
    BY <1>2, <2>1, MessagesAreTurns DEF ToSet, After, Saving
  <2>3. QED
    BY <1>3, <2>1, <2>2, MessagesAreTurns DEF AddQuestion, After
<1>4. CASE AddReply(c)
  <2>1. pc[c] = "recording" /\ pc'[c] \in {"savingQuestion", "done"}
    BY <1>4 DEF AddReply, Goto, Finish, ChatInvariant, Types
  <2>2. Reply(c) \notin ToSet(q)
    BY <1>2, <2>1, MessagesAreTurns DEF ToSet, After, Saving
  <2>3. Len(q) > 0 /\ q[Len(q)] = Question(c)
    BY <2>1 DEF ChatInvariant, RecordingIsAlone
  <2>4. QED
    BY <1>4, <2>1, <2>2, <2>3, MessagesAreTurns DEF AddReply, After, Saving
<1>5. QED
  BY <1>3, <1>4

\* Sessions go on to hold their turns.
LEMMA SessionsStay ==
  ASSUME ChatInvariant, [Next]_vars
  PROVE  SessionsHoldTurns'
<1> USE DEF ChatInvariant
<1>1. \A s \in Sessions : \A i \in DOMAIN messages[s] :
         /\ session'[messages[s][i].chat] = s
         /\ pc'[messages[s][i].chat] \in After(messages[s][i].role)
  <2>1. SUFFICES ASSUME NEW s \in Sessions, NEW i \in DOMAIN messages[s]
                 PROVE  /\ session'[messages[s][i].chat] = s
                        /\ pc'[messages[s][i].chat] \in After(messages[s][i].role)
    OBVIOUS
  <2>2. messages[s][i] \in MessageType
    BY DEF Types
  <2>3. messages[s][i].chat \in Chats /\ messages[s][i].role \in {"user", "assistant"}
    BY <2>2 DEF MessageType
  <2>4. QED
    BY <2>3, AfterIsKept, WritersOfTables DEF SessionsHoldTurns
<1>2. CASE messages' = messages
  BY <1>1, <1>2 DEF SessionsHoldTurns
<1>3. ASSUME NEW c \in Chats, AddQuestion(c) \/ AddReply(c)
      PROVE  SessionsHoldTurns'
  <2> DEFINE q == messages[session[c]]
  <2>1. PICK e \in MessageType :
            /\ AddMessage(c, e)
            /\ e.chat = c
            /\ pc'[c] \in After(e.role)
            /\ e \notin ToSet(q)
            /\ e.role = "assistant" => Len(q) > 0 /\ q[Len(q)] = Question(c)
    BY <1>3, AddedIsNew
  <2>2. session[c] \in Sessions /\ q \in Seq(MessageType)
    BY DEF Types
  <2>3. IsInjective(q) /\ Paired(q)
    BY <2>2 DEF SessionsHoldTurns
  <2>4. IsInjective(Append(q, e)) /\ Paired(Append(q, e))
    BY <2>1, <2>2, <2>3, AppendKeepsInjective, AppendKeepsPairs
  <2>5. \A i \in DOMAIN Append(q, e) :
           /\ session'[Append(q, e)[i].chat] = session[c]
           /\ pc'[Append(q, e)[i].chat] \in After(Append(q, e)[i].role)
    BY <1>1, <2>1, <2>2, AppendAdds, WritersOfTables
  <2>6. SUFFICES ASSUME NEW s \in Sessions
                 PROVE  /\ IsInjective(messages'[s])
                        /\ Paired(messages'[s])
                        /\ \A i \in DOMAIN messages'[s] :
                              /\ session'[messages'[s][i].chat] = s
                              /\ pc'[messages'[s][i].chat] \in After(messages'[s][i].role)
    BY DEF SessionsHoldTurns
  <2>7. messages'[s] = IF s = session[c] THEN Append(q, e) ELSE messages[s]
    BY <2>1, <2>2 DEF AddMessage, Types
  <2>8. CASE s = session[c]
    BY <2>4, <2>5, <2>7, <2>8
  <2>9. CASE s # session[c]
    BY <1>1, <2>7, <2>9 DEF SessionsHoldTurns
  <2>10. QED
    BY <2>8, <2>9
<1>4. QED
  BY <1>2, <1>3, WritersOfTables

\* The chat that stores its question runs alone until it goes on; no other
\* chat appends to a session meanwhile.
LEMMA RecordingStays ==
  ASSUME ChatInvariant, [Next]_vars
  PROVE  RecordingIsAlone'
<1> USE DEF ChatInvariant
<1>1. SUFFICES ASSUME NEW c \in Chats, pc'[c] = "recording"
               PROVE  /\ \A d \in Chats : pc'[d] = "recording" => d = c
                      /\ Len(messages'[session[c]]) > 0
                      /\ messages'[session[c]][Len(messages'[session[c]])]
                            = Question(c)
  BY WritersOfTables DEF RecordingIsAlone
<1>2. /\ session[c] \in Sessions
      /\ messages[session[c]] \in Seq(MessageType)
  BY DEF Types
<1>3. CASE AddQuestion(c)
  <2>1. \A d \in Chats : pc'[d] = "recording" => d = c
    BY <1>3 DEF AddQuestion, Runs, Goto, Types
  <2>2. messages'[session[c]] = Append(messages[session[c]], Question(c))
    BY <1>2, <1>3 DEF AddQuestion, AddMessage, Types
  <2>3. QED
    BY <1>2, <2>1, <2>2, AppendAdds, MessagesAreTurns
<1>4. CASE ~ AddQuestion(c)
  <2>1. pc[c] = "recording"
    BY <1>1, <1>4, PhasesAdvance
  <2>2. ASSUME NEW d \in Chats PROVE ~ AddQuestion(d)
    BY <1>4, <2>1 DEF AddQuestion, Runs
  <2>3. ASSUME NEW d \in Chats PROVE ~ AddReply(d)
    <3>1. SUFFICES ASSUME AddReply(d) PROVE FALSE
      OBVIOUS
    <3>2. d = c
      BY <2>1, <3>1 DEF AddReply, RecordingIsAlone
    <3>3. pc'[c] \in {"savingQuestion", "done"}
      BY <3>1, <3>2 DEF AddReply, Goto, Finish, Types
    <3>4. QED
      BY <1>1, <3>3
  <2>4. messages' = messages
    BY <2>2, <2>3, WritersOfTables
  <2>5. ASSUME NEW d \in Chats, pc'[d] = "recording" PROVE d = c
    <3>1. pc[d] = "recording"
      BY <2>2, <2>5, PhasesAdvance
    <3>2. QED
      BY <2>1, <3>1 DEF RecordingIsAlone
  <2>6. QED
    BY <2>1, <2>4, <2>5 DEF RecordingIsAlone
<1>5. QED
  BY <1>3, <1>4

\* A session loses no message.
LEMMA ShownStays ==
  ASSUME ChatInvariant, [Next]_vars, NEW s \in Sessions
  PROVE  ToSet(messages[s]) \subseteq ToSet(messages'[s])
<1>1. CASE messages' = messages
  BY <1>1
<1>2. ASSUME NEW c \in Chats, AddQuestion(c) \/ AddReply(c)
      PROVE  ToSet(messages[s]) \subseteq ToSet(messages'[s])
  <2>1. PICK e \in MessageType : AddMessage(c, e)
    BY <1>2, AddedIsNew
  <2>2. messages[s] \in Seq(MessageType)
    BY DEF ChatInvariant, Types
  <2>3. messages'[s] = messages[s] \/ messages'[s] = Append(messages[s], e)
    BY <2>1 DEF AddMessage, ChatInvariant, Types
  <2>4. ToSet(Append(messages[s], e)) = ToSet(messages[s]) \cup {e}
    BY <2>2, AppendAdds
  <2>5. QED
    BY <2>3, <2>4
<1>3. QED
  BY <1>1, <1>2, WritersOfTables

\* A chat that saves its turn shows it: it has stored its reply, and before
\* that its question.
LEMMA SavedTurnsStayShown ==
  ASSUME ChatInvariant, [Next]_vars
  PROVE  SavedTurnsAreShown'
<1> USE DEF ChatInvariant
<1>1. SUFFICES ASSUME NEW c \in Chats, pc'[c] \in Saving
               PROVE  {Question(c), Reply(c)} \subseteq ToSet(messages'[session[c]])
  BY WritersOfTables DEF SavedTurnsAreShown, Shown
<1>2. session[c] \in Sessions /\ messages[session[c]] \in Seq(MessageType)
  BY DEF Types
<1>3. CASE pc[c] \in Saving
  BY <1>2, <1>3, ShownStays DEF SavedTurnsAreShown, Shown
<1>4. CASE AddReply(c)
  <2> DEFINE q == messages[session[c]]
  <2>1. Len(q) > 0 /\ q[Len(q)] = Question(c)
    BY <1>4 DEF AddReply, RecordingIsAlone
  <2>2. Question(c) \in ToSet(q)
    <3>1. Len(q) \in DOMAIN q
      BY <1>2, <2>1
    <3>2. QED
      BY <2>1, <3>1 DEF ToSet
  <2>3. messages'[session[c]] = Append(q, Reply(c))
    BY <1>2, <1>4 DEF AddReply, AddMessage, Types
  <2>4. QED
    BY <1>2, <2>2, <2>3, AppendAdds, MessagesAreTurns
<1>5. QED
  BY <1>1, <1>3, <1>4, PhasesAdvance

\* A history is copied from a session in pairs, once.
LEMMA HistoriesStayPaired ==
  ASSUME ChatInvariant, [Next]_vars
  PROVE  HistoriesArePaired'
<1> USE DEF ChatInvariant
<1>1. SUFFICES ASSUME NEW c \in Chats
               PROVE  PairedFromSecond(history'[c])
  BY DEF HistoriesArePaired
<1>2. CASE history'[c] = history[c]
  BY <1>2 DEF HistoriesArePaired
<1>3. CASE Start(c)
  <2> DEFINE q == messages[session[c]]
  <2>1. q \in Seq(MessageType) /\ Paired(q)
    BY DEF Types, SessionsHoldTurns
  <2>2. PICK m \in Nat \ {0} :
           history' = [history EXCEPT ![c] = SubSeq(q, m, Len(q))]
    BY <1>3, StartCopiesEnd
  <2>3. history'[c] = SubSeq(q, m, Len(q))
    BY <2>2 DEF Types
  <2>4. QED
    BY <2>1, <2>3, EndsArePaired
<1>4. ASSUME NEW d \in Chats, Start(d), d # c
      PROVE  history'[c] = history[c]
  BY <1>4 DEF Start, Types
<1>5. QED
  BY <1>2, <1>3, <1>4, WritersOfTables

-----------------------------------------------------------------------------
(***************************************************************************)
(* Events.                                                                 *)
(***************************************************************************)

\* The post of a chat delivers what no earlier one has, the reply after the
\* question.
LEMMA DeliveredIsNew ==
  ASSUME ChatInvariant, NEW c \in Chats, NEW e \in MessageType,
         \/ pc[c] = "savingQuestion" /\ e = Question(c)
         \/ pc[c] = "savingReply" /\ e = Reply(c)
  PROVE  /\ e.chat = c
         /\ e \notin ToSet(events)
         /\ Shown(c)
         /\ e.role = "assistant" => Question(c) \in ToSet(events)
<1> USE DEF ChatInvariant
<1>1. \A i \in DOMAIN events :
         events[i].chat = c => pc[c] \in AfterPost(events[i].role)
  BY DEF EventsAreTurns
<1>2. e \notin ToSet(events)
  BY <1>1, MessagesAreTurns DEF ToSet, AfterPost
<1>3. Shown(c)
  BY DEF SavedTurnsAreShown, Saving
<1>4. QED
  BY <1>2, <1>3, MessagesAreTurns DEF PostsAreDelivered

\* The chat of a post that reaches the service goes on or ends.
LEMMA PosterMoves ==
  ASSUME Types, NEW c \in Chats, Post(c) \/ PostFails(c)
  PROVE  \/ pc'[c] = "done"
         \/ pc[c] = "savingQuestion" /\ pc'[c] = "savingReply"
         \/ pc[c] = "savingReply" /\ pc'[c] = "consolidating"
<1>1. CASE Post(c)
  <2>1. pc[c] \in Saving /\ pc'[c] = Following[pc[c]]
    BY <1>1 DEF Post, Delivered, GoOn, Types, Saving
  <2>2. QED
    BY <2>1 DEF Following, Saving
<1>2. CASE PostFails(c)
  BY <1>2 DEF PostFails, GiveUp, Finish, Types
<1>3. QED
  BY <1>1, <1>2

\* Events only grow, by one that is new and belongs to a turn that is shown.
LEMMA EventsGrow ==
  ASSUME ChatInvariant, [Next]_vars, events' # events
  PROVE  \E c \in Chats, e \in MessageType :
            /\ events' = Append(events, e) /\ consolidated' = consolidated
            /\ e.chat = c
            /\ e \notin ToSet(events)
            /\ Shown(c)
            /\ pc'[c] \in AfterPost(e.role)
            /\ e.role = "assistant" => Question(c) \in ToSet(events)
<1> USE DEF ChatInvariant
<1>1. PICK c \in Chats : (Post(c) \/ PostFails(c)) /\ Delivered(c)
  BY WritersOfTables
<1>2. PICK e \in MessageType :
         /\ \/ pc[c] = "savingQuestion" /\ e = Question(c)
            \/ pc[c] = "savingReply" /\ e = Reply(c)
         /\ events' = Append(events, e) /\ consolidated' = consolidated
  BY <1>1, DeliveredAdds, MessagesAreTurns
<1>3. pc'[c] \in AfterPost(e.role)
  BY <1>1, <1>2, PosterMoves, MessagesAreTurns DEF AfterPost
<1>4. QED
  BY <1>2, <1>3, DeliveredIsNew

\* What an event says of its chat stays so.
LEMMA EventsKeepTurns ==
  ASSUME ChatInvariant, [Next]_vars, NEW m \in MessageType,
         Shown(m.chat), pc[m.chat] \in AfterPost(m.role)
  PROVE  Shown(m.chat)' /\ pc'[m.chat] \in AfterPost(m.role)
<1>1. m.chat \in Chats /\ m.role \in {"user", "assistant"}
  BY DEF MessageType
<1>2. session[m.chat] \in Sessions /\ session' = session
  BY <1>1, WritersOfTables DEF ChatInvariant, Types
<1>3. QED
  BY <1>1, <1>2, AfterIsKept, ShownStays DEF ChatInvariant, Shown

\* The events stay those of turns, each once, each reply after its question.
LEMMA EventsStayTurns ==
  ASSUME ChatInvariant, [Next]_vars
  PROVE  EventsAreTurns'
<1> USE DEF ChatInvariant
<1>1. events \in Seq(MessageType)
  BY DEF Types
<1> DEFINE Kept(m) == Shown(m.chat)' /\ pc'[m.chat] \in AfterPost(m.role)
<1>2. ASSUME NEW i \in DOMAIN events, NEW m \in MessageType, m = events[i]
      PROVE  Kept(m)
  BY <1>2, EventsKeepTurns DEF EventsAreTurns
<1> HIDE DEF Kept
<1>3. CASE events' = events
  <2>1. SUFFICES ASSUME NEW i \in DOMAIN events, NEW m \in MessageType,
                        m = events[i]
                 PROVE  Kept(m)
    BY <1>1, <1>3 DEF EventsAreTurns, Kept
  <2>2. QED
    BY <1>2, <2>1
<1>4. CASE events' # events
  <2>1. PICK c \in Chats, e \in MessageType :
            /\ events' = Append(events, e)
            /\ e.chat = c
            /\ e \notin ToSet(events)
            /\ Shown(c)
            /\ pc'[c] \in AfterPost(e.role)
            /\ e.role = "assistant" => Question(c) \in ToSet(events)
    BY <1>4, EventsGrow
  <2>2. IsInjective(events')
    BY <1>1, <2>1, AppendKeepsInjective DEF EventsAreTurns
  <2>3. Kept(e)
    <3>1. {Question(c), Reply(c)} \subseteq ToSet(messages'[session[c]])
      BY <2>1, ShownStays DEF Shown, Types
    <3>2. QED
      BY <2>1, <3>1, WritersOfTables DEF Kept, Shown
  <2>4. /\ DOMAIN events' = DOMAIN events \cup {Len(events) + 1}
        /\ DOMAIN events = 1 .. Len(events) /\ Len(events) \in Nat
        /\ \A i \in DOMAIN events :
              events'[i] = events[i] /\ events[i] \in MessageType
        /\ events'[Len(events) + 1] = e
    BY <1>1, <2>1, AppendAdds
  <2>5. ASSUME NEW i \in DOMAIN events', NEW m \in MessageType, m = events'[i]
        PROVE  /\ Kept(m)
               /\ m.role = "assistant" =>
                     \E j \in 1 .. i - 1 : events'[j] = Question(m.chat)
    <3>1. CASE i \in DOMAIN events
      <4>1. Kept(m)
        BY <1>2, <2>4, <2>5, <3>1
      <4>2. m.role = "assistant" =>
               \E j \in 1 .. i - 1 : events[j] = Question(m.chat)
        BY <2>4, <2>5, <3>1 DEF EventsAreTurns
      <4>3. \A j \in 1 .. i - 1 : events'[j] = events[j]
        BY <2>4, <3>1
      <4>4. QED
        BY <4>1, <4>2, <4>3
    <3>2. CASE i = Len(events) + 1
      <4>1. m = e
        BY <2>4, <2>5, <3>2
      <4>2. e.role = "assistant" =>
               \E j \in DOMAIN events : events'[j] = Question(c)
        BY <2>1, <2>4 DEF ToSet
      <4>3. DOMAIN events = 1 .. i - 1
        BY <2>4, <3>2
      <4>4. QED
        BY <2>1, <2>3, <4>1, <4>2, <4>3
    <3>3. QED
      BY <2>4, <3>1, <3>2
  <2>6. ASSUME NEW i \in DOMAIN events' PROVE events'[i] \in MessageType
    BY <2>4
  <2>7. QED
    BY <2>2, <2>5, <2>6 DEF EventsAreTurns, Kept
<1>5. QED
  BY <1>3, <1>4

\* The index of a message among the events and the count of a consolidation
\* say the same of the events that are there.
LEMMA EventsStay ==
  ASSUME ChatInvariant, [Next]_vars
  PROVE  /\ ToSet(events) \subseteq ToSet(events')
         /\ \A i \in DOMAIN events :
               i \in DOMAIN events' /\ events'[i] = events[i]
<1> USE DEF ChatInvariant
<1>1. CASE events' = events
  BY <1>1
<1>2. CASE events' # events
  <2>1. PICK e \in MessageType : events' = Append(events, e)
    BY <1>2, EventsGrow
  <2>2. events \in Seq(MessageType)
    BY DEF Types
  <2>3. ToSet(events') = ToSet(events) \cup {e}
    BY <2>1, <2>2, AppendAdds
  <2>4. \A i \in DOMAIN events :
           i \in DOMAIN events' /\ events'[i] = events[i]
    BY <2>1, <2>2, AppendAdds
  <2>5. QED
    BY <2>3, <2>4
<1>3. QED
  BY <1>1, <1>2

\* A post that counts as made has been delivered.
LEMMA PostsStayDelivered ==
  ASSUME ChatInvariant, [Next]_vars
  PROVE  PostsAreDelivered'
<1> USE DEF ChatInvariant
<1>1. events \in Seq(MessageType) /\ consolidated \in 0 .. Len(events)
  BY DEF Types
<1>2. ASSUME NEW c \in Chats, Post(c),
             pc[c] = "savingQuestion" \/ pc[c] = "savingReply"
      PROVE  IF pc[c] = "savingQuestion" THEN Question(c) \in ToSet(events')
                                         ELSE Reply(c) \in ToSet(events')
  <2>1. events' = Append(events, IF pc[c] = "savingQuestion"
                                 THEN Question(c) ELSE Reply(c))
    BY <1>2, DeliveredAdds DEF Post
  <2>2. QED
    BY <1>1, <1>2, <2>1, AppendAdds, MessagesAreTurns
<1>3. ASSUME NEW c \in Chats, pc'[c] = "savingReply"
      PROVE  Question(c) \in ToSet(events')
  <2>1. CASE pc[c] = "savingReply"
    BY <2>1, EventsStay DEF PostsAreDelivered
  <2>2. CASE pc[c] # "savingReply"
    <3>1. AddReply(c) \/ Post(c)
      BY <1>3, <2>2, PhasesAdvance DEF Saving
    <3>2. ~ AddReply(c)
      BY <1>3 DEF AddReply, Goto, Finish, Types
    <3>3. pc[c] = "savingQuestion"
      BY <1>3, <2>2, <3>1, <3>2, PosterMoves
    <3>4. QED
      BY <1>2, <3>1, <3>2, <3>3
  <2>3. QED
    BY <2>1, <2>2
<1>4. ASSUME NEW c \in Chats, pc'[c] = "consolidating"
      PROVE  Reply(c) \in ToSet(events')
  <2>1. CASE pc[c] = "consolidating"
    BY <2>1, EventsStay DEF PostsAreDelivered
  <2>2. CASE pc[c] # "consolidating"
    <3>1. AddReply(c) \/ Post(c)
      BY <1>4, <2>2, PhasesAdvance DEF Saving
    <3>2. ~ AddReply(c)
      BY <1>4 DEF AddReply, Goto, Finish, Types
    <3>3. pc[c] = "savingReply"
      BY <1>4, <2>2, <3>1, <3>2, PosterMoves
    <3>4. QED
      BY <1>2, <3>1, <3>2, <3>3
  <2>3. QED
    BY <2>1, <2>2
<1>5. consolidated' = consolidated \/ consolidated' = Len(events)
  <2>1. ASSUME NEW c \in Chats, Delivered(c)
        PROVE  consolidated' = consolidated \/ consolidated' = Len(events)
    BY <2>1, DeliveredAdds
  <2>2. QED
    BY <2>1, WritersOfTables
<1>6. ASSUME NEW c \in Chats, result'[c] = "saved"
      PROVE  \E i \in 1 .. consolidated' : events'[i] = Reply(c)
  <2>1. \E i \in DOMAIN events : i <= consolidated' /\ events[i] = Reply(c)
    <3>1. CASE result[c] = "saved"
      <4>1. PICK i \in 1 .. consolidated : events[i] = Reply(c)
        BY <3>1 DEF PostsAreDelivered
      <4>2. i \in DOMAIN events /\ i <= consolidated'
        BY <1>1, <1>5, <4>1
      <4>3. QED
        BY <4>1, <4>2
    <3>2. CASE Post(c) /\ pc[c] = "consolidating"
      <4>1. consolidated' = Len(events)
        BY <3>2, DeliveredAdds DEF Post
      <4>2. Reply(c) \in ToSet(events)
        BY <3>2 DEF PostsAreDelivered
      <4>3. \A i \in DOMAIN events : i <= Len(events)
        BY <1>1
      <4>4. QED
        BY <4>1, <4>2, <4>3 DEF ToSet
    <3>3. QED
      BY <1>6, <3>1, <3>2, PhasesAdvance
  <2>2. PICK i \in DOMAIN events : i <= consolidated' /\ events[i] = Reply(c)
    BY <2>1
  <2>3. i \in 1 .. consolidated' /\ events'[i] = Reply(c)
    BY <1>1, <1>5, <2>2, EventsStay
  <2>4. QED
    BY <2>3
<1>7. QED
  BY <1>3, <1>4, <1>6 DEF PostsAreDelivered

-----------------------------------------------------------------------------
(***************************************************************************)
(* The theorems.                                                           *)
(***************************************************************************)

\* Nothing is stored or delivered when the chatbot starts.
LEMMA InitChats == ASSUME Init PROVE ChatInvariant
<1>1. \A s \in Sessions : messages[s] = <<>>
  BY DEF Init
<1>2. \A c \in Chats :
         history[c] = <<>> /\ pc[c] = "idle" /\ result[c] = "none"
  BY DEF Init
<1>3. Types
  BY DEF Init, Types, Phases
<1>4. SessionsHoldTurns
  BY <1>1 DEF SessionsHoldTurns, IsInjective, Paired
<1>5. RecordingIsAlone /\ SavedTurnsAreShown
  BY <1>2 DEF RecordingIsAlone, SavedTurnsAreShown, Saving
<1>6. HistoriesArePaired
  BY <1>2 DEF HistoriesArePaired, PairedFromSecond
<1>7. EventsAreTurns
  BY DEF Init, EventsAreTurns, IsInjective
<1>8. PostsAreDelivered
  BY <1>2 DEF PostsAreDelivered
<1>9. QED
  BY <1>3, <1>4, <1>5, <1>6, <1>7, <1>8 DEF ChatInvariant

\* In every state of every behaviour, whatever runs at the same time, fails
\* or crashes, the invariant holds.
THEOREM ChatsInvariance == Spec => []ChatInvariant
<1>1. ChatInvariant /\ [Next]_vars => ChatInvariant'
  <2>1. SUFFICES ASSUME ChatInvariant, [Next]_vars PROVE ChatInvariant'
    OBVIOUS
  <2>2. Types'
    BY <2>1, TypesAreKept DEF ChatInvariant
  <2>3. /\ SessionsHoldTurns'
        /\ RecordingIsAlone'
        /\ SavedTurnsAreShown'
        /\ HistoriesArePaired'
    BY <2>1, SessionsStay, RecordingStays, SavedTurnsStayShown,
       HistoriesStayPaired
  <2>4. EventsAreTurns' /\ PostsAreDelivered'
    BY <2>1, EventsStayTurns, PostsStayDelivered
  <2>5. QED
    BY <2>2, <2>3, <2>4 DEF ChatInvariant
<1>2. QED
  BY <1>1, InitChats, PTL DEF Spec

\* For any number of chats in any sessions at the same time: every reply is
\* right after its question, in the session and in what a model is given,
\* and no message is there twice.
THEOREM RepliesFollow == Spec => []RepliesFollowQuestions
<1>1. ChatInvariant => RepliesFollowQuestions
  BY DEF ChatInvariant, SessionsHoldTurns, Paired, HistoriesArePaired,
         PairedFromSecond, RepliesFollowQuestions
<1>2. QED
  BY <1>1, ChatsInvariance, PTL

\* The place of an event is where it is.
LEMMA PositionIsIndex ==
  ASSUME IsInjective(events), NEW i \in DOMAIN events
  PROVE  Position(events, events[i]) = i
<1>1. \A j \in DOMAIN events : events[j] = events[i] => j = i
  BY DEF IsInjective
<1>2. QED
  BY <1>1 DEF Position

\* The memory service is given whole turns that their session shows, each
\* message once and in order, and a turn reported as saved is there up to
\* the last consolidation.
THEOREM ReportedStaysRemembered == Spec => []ReportedIsRemembered
<1>1. ASSUME ChatInvariant PROVE ReportedIsRemembered
  <2>1. /\ IsInjective(events)
        /\ events \in Seq(MessageType)
        /\ consolidated \in 0 .. Len(events)
    BY <1>1 DEF ChatInvariant, EventsAreTurns, Types
  <2>2. ASSUME NEW e \in ToSet(events)
        PROVE  {Question(e.chat), Reply(e.chat)}
                  \subseteq ToSet(messages[session[e.chat]])
    BY <1>1, <2>2 DEF ChatInvariant, EventsAreTurns, Shown, ToSet
  <2>3. ASSUME NEW c \in Chats, Reply(c) \in ToSet(events)
        PROVE  /\ Question(c) \in ToSet(events)
               /\ Position(events, Question(c)) < Position(events, Reply(c))
    <3>1. PICK i \in DOMAIN events : events[i] = Reply(c)
      BY <2>3 DEF ToSet
    <3>2. PICK j \in 1 .. i - 1 : events[j] = Question(c)
      BY <1>1, <3>1, MessagesAreTurns DEF ChatInvariant, EventsAreTurns
    <3>3. j \in DOMAIN events /\ j < i
      BY <2>1, <3>1, <3>2
    <3>4. Position(events, Reply(c)) = i /\ Position(events, Question(c)) = j
      BY <2>1, <3>1, <3>2, <3>3, PositionIsIndex
    <3>5. QED
      BY <3>2, <3>3, <3>4 DEF ToSet
  <2>4. ASSUME NEW c \in Chats, result[c] = "saved"
        PROVE  /\ Reply(c) \in ToSet(events)
               /\ Position(events, Reply(c)) <= consolidated
    <3>1. PICK i \in 1 .. consolidated : events[i] = Reply(c)
      BY <1>1, <2>4 DEF ChatInvariant, PostsAreDelivered
    <3>2. i \in DOMAIN events /\ i <= consolidated
      BY <2>1, <3>1
    <3>3. Position(events, Reply(c)) = i
      BY <2>1, <3>1, <3>2, PositionIsIndex
    <3>4. QED
      BY <3>1, <3>2, <3>3 DEF ToSet
  <2>5. QED
    BY <2>1, <2>2, <2>3, <2>4 DEF ReportedIsRemembered
<1>2. QED
  BY <1>1, ChatsInvariance, PTL

=============================================================================
