------------------------------ MODULE ChatTurns ------------------------------
(***************************************************************************)
(* The chatbot: turns of POST /chat, each with its session's history in    *)
(* SQLite and, if asked for, two events and a consolidation in the memory  *)
(* service.  Chats run on one event loop: a chat gives way to the others   *)
(* only where it awaits the search, the model or the memory service.       *)
(*                                                                         *)
(* Texts, titles and the retrieved context are left out; a message is the  *)
(* chat it belongs to and its role.                                        *)
(***************************************************************************)
EXTENDS Naturals, FiniteSets, SequencesExt

CONSTANTS
    Chats,         \* requests of /chat
    Sessions,
    HistoryLimit   \* history_limit

ASSUME ChatAssumption == HistoryLimit \in Nat

VARIABLES
    session,       \* session_id of each chat
    saves,         \* the chats with save_memory
    messages,      \* table messages: of each session, in the order of its ids
    events,        \* chat events in the memory service
    consolidated,  \* how many of them a consolidation was asked for
    pc, history, result

asked == <<session, saves>>
remote == <<events, consolidated>>
vars == <<asked, messages, remote, pc, history, result>>

Question(c) == [chat |-> c, role |-> "user"]
Reply(c) == [chat |-> c, role |-> "assistant"]
MessageType == [chat: Chats, role: {"user", "assistant"}]

AddMessage(c, e) ==
    messages' = [messages EXCEPT ![session[c]] = Append(@, e)]

Init ==
    /\ session \in [Chats -> Sessions]
    /\ saves \in SUBSET Chats
    /\ messages = [s \in Sessions |-> <<>>]
    /\ events = <<>>
    /\ consolidated = 0
    /\ pc = [c \in Chats |-> "idle"]
    /\ history = [c \in Chats |-> <<>>]
    /\ result = [c \in Chats |-> "none"]

\* Fault: something is awaited between the two messages of a turn.
RunsAnyTime(c) == TRUE

\* The event loop has given the turn to c: no other chat is between its two
\* messages, where nothing is awaited.
Runs(c) == \A d \in Chats \ {c} : pc[d] # "recording"

Goto(c, from, to) ==
    /\ pc[c] = from
    /\ pc' = [pc EXCEPT ![c] = to]

Finish(c, r) ==
    /\ pc' = [pc EXCEPT ![c] = "done"]
    /\ result' = [result EXCEPT ![c] = r]

\* get_recent_llm_messages, before anything is awaited.
Start(c) ==
    LET earlier == messages[session[c]]
        from == IF Len(earlier) > HistoryLimit
                THEN Len(earlier) - HistoryLimit + 1 ELSE 1
    IN  /\ Runs(c)
        /\ Goto(c, "idle", "searching")
        /\ history' = [history EXCEPT ![c] = SubSeq(earlier, from, Len(earlier))]
        /\ UNCHANGED <<asked, messages, remote, result>>

\* search_memory: an error is an empty context.
Search(c) ==
    /\ Runs(c)
    /\ Goto(c, "searching", "answering")
    /\ UNCHANGED <<asked, messages, remote, history, result>>

\* The model has answered; the question is stored only now.
AddQuestion(c) ==
    /\ Runs(c)
    /\ Goto(c, "answering", "recording")
    /\ AddMessage(c, Question(c))
    /\ UNCHANGED <<asked, remote, history, result>>

AddReply(c) ==
    /\ pc[c] = "recording"
    /\ AddMessage(c, Reply(c))
    /\ IF c \in saves
       THEN Goto(c, "recording", "savingQuestion") /\ UNCHANGED result
       ELSE Finish(c, "answered")
    /\ UNCHANGED <<asked, remote, history>>

\* The model or a statement of SQLite fails: what was stored stays.
Raise(c) ==
    /\ Runs(c)
    /\ pc[c] \in {"answering", "recording"}
    /\ Finish(c, "failed")
    /\ UNCHANGED <<asked, messages, remote, history>>

-----------------------------------------------------------------------------
(* save_turn: three posts, each of them once.                              *)

\* What a post that reaches the service changes.
Delivered(c) ==
    \/ /\ pc[c] = "savingQuestion"
       /\ events' = Append(events, Question(c))
       /\ UNCHANGED consolidated
    \/ /\ pc[c] = "savingReply"
       /\ events' = Append(events, Reply(c))
       /\ UNCHANGED consolidated
    \/ /\ pc[c] = "consolidating"
       /\ consolidated' = Len(events)
       /\ UNCHANGED events

Following ==
    [savingQuestion |-> "savingReply", savingReply |-> "consolidating",
     consolidating |-> "done"]

GoOn(c) ==
    /\ pc' = [pc EXCEPT ![c] = Following[@]]
    /\ result' = [result EXCEPT ![c] =
                    IF pc[c] = "consolidating" THEN "saved" ELSE @]

Post(c) ==
    /\ Runs(c)
    /\ Delivered(c) /\ GoOn(c)
    /\ UNCHANGED <<asked, messages, history>>

\* Fault: raise_for_status is forgotten, a refused post counts as made.
GiveUpSilently(c) == GoOn(c)

\* Any exception ends save_turn with an error in the answer.
GiveUp(c) == Finish(c, "unsaved")

\* The service cannot be found or refuses the post, or does what it is asked
\* and the answer is lost or late.
PostFails(c) ==
    /\ Runs(c)
    /\ pc[c] \in DOMAIN Following
    /\ Delivered(c) \/ UNCHANGED remote
    /\ GiveUp(c)
    /\ UNCHANGED <<asked, messages, history>>

\* The chatbot dies; the two stores keep what they have.
Crash ==
    LET dying == {c \in Chats : pc[c] \notin {"idle", "done"}}
    IN  /\ dying # {}
        /\ pc' = [c \in Chats |-> IF c \in dying THEN "done" ELSE pc[c]]
        /\ result' = [c \in Chats |-> IF c \in dying THEN "failed" ELSE result[c]]
        /\ UNCHANGED <<asked, messages, remote, history>>

Next ==
    \/ \E c \in Chats :
          \/ Start(c) \/ Search(c) \/ AddQuestion(c) \/ AddReply(c) \/ Raise(c)
          \/ Post(c) \/ PostFails(c)
    \/ Crash

Spec == Init /\ [][Next]_vars

-----------------------------------------------------------------------------
(* Correctness.                                                            *)

Position(s, e) == CHOOSE i \in DOMAIN s : s[i] = e

\* Chats of one session that run at the same time never mix their messages:
\* each reply stands right after its question, in the session and in every
\* history the model is given (which may begin with a reply), and no message
\* is stored twice.
RepliesFollowQuestions ==
    /\ \A s \in Sessions :
          /\ IsInjective(messages[s])
          /\ \A i \in DOMAIN messages[s] : messages[s][i].role = "assistant" =>
                /\ i > 1
                /\ messages[s][i - 1] = Question(messages[s][i].chat)
    /\ \A c \in Chats : \A i \in 2 .. Len(history[c]) :
          history[c][i].role = "assistant" =>
              history[c][i - 1] = Question(history[c][i].chat)

\* Whatever fails on the way, the memory service knows only turns that the
\* session shows in full, and each event once; a turn reported as saved has
\* its question before its reply there, both in reach of a consolidation.
ReportedIsRemembered ==
    /\ IsInjective(events)
    /\ \A e \in ToSet(events) :
          {Question(e.chat), Reply(e.chat)} \subseteq
              ToSet(messages[session[e.chat]])
    /\ \A c \in Chats : Reply(c) \in ToSet(events) =>
          /\ Question(c) \in ToSet(events)
          /\ Position(events, Question(c)) < Position(events, Reply(c))
    /\ \A c \in Chats : result[c] = "saved" =>
          /\ Reply(c) \in ToSet(events)
          /\ Position(events, Reply(c)) <= consolidated

=============================================================================
