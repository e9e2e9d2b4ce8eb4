---------------------------- MODULE Conversation ----------------------------
(***************************************************************************)
(* A message to the agent: its session is found or created, the message is *)
(* stored, the recent history becomes a request to the LLM, the tools the  *)
(* LLM asks for are run one after the other, at most MaxToolRounds times,  *)
(* and the reply is stored.  Messages are handled concurrently, also those *)
(* of one session.  A session is named after the message that created it.  *)
(***************************************************************************)
EXTENDS Naturals, Sequences, FiniteSets

CONSTANTS
    Messages, Texts,
    Rooms,          \* session ids of channels that have their own: no session has them
    None,
    Earlier,        \* messages answered before: each a session of its own
    Window,         \* how much history is loaded: 20
    MaxToolRounds,  \* 8
    MaxCalls,       \* bound: tool calls in one answer of the LLM
    MaxFaults       \* bound: failing statements, calls and tools, expired contexts

MsgRoleEnum == {"user", "assistant", "tool", "system"}
Entries == [by : Messages, role : MsgRoleEnum,
            text : Texts \union {None, "empty", "answer", "limit reached"}, calls : 0..MaxCalls]

ASSUME NamesAssumption == None \notin Messages \union Rooms /\ Earlier \subseteq Messages
ASSUME TextsAssumption == Texts # {} /\ None \notin Seq(Entries)
ASSUME BoundsAssumption ==
    /\ Window \in Nat \ {0} /\ MaxToolRounds \in Nat \ {0}
    /\ MaxCalls \in Nat /\ MaxFaults \in Nat

VARIABLES
    log,        \* conversation_messages by session; None if there is no such session
    text,       \* per message: what it says
    given,      \* the session id it came with
    session,    \* the session it was put into
    request,    \* the messages of the next request to the LLM
    round,      \* answers of the LLM so far that asked for tools
    pending,    \* tool calls still to be run
    reply,      \* the final text; "empty" is ""
    pc, expired,
    before,     \* history: the messages that had been answered when it came
    faults

input == <<text, given, before>>
loop == <<request, round, pending, reply>>
vars == <<log, input, session, loop, pc, expired, faults>>

Active == {"session", "create", "save_user", "history", "ask", "tools", "save_reply"}

\* A message of a request: those of the history keep the message they belong to.
Entry(m, role, t, calls) == [by |-> m, role |-> role, text |-> t, calls |-> calls]

\* The API answers with an id of its own if the client gave none.
Invented(m) == <<m>>
Returned == {Invented(m) : m \in {d \in Messages : pc[d] = "done" /\ given[d] = None}}
Known == {s \in Messages : log[s] # None}

Turn(m, t) == <<Entry(m, "user", t, 0), Entry(m, "assistant", "answer", 0)>>

Init ==
    /\ text = [m \in Messages |-> IF m \in Earlier THEN CHOOSE t \in Texts : TRUE ELSE None]
    /\ log = [s \in Messages |-> IF s \in Earlier THEN Turn(s, text[s]) ELSE None]
    /\ given = [m \in Messages |-> None]
    /\ session = [m \in Messages |-> IF m \in Earlier THEN m ELSE None]
    /\ request = [m \in Messages |-> <<>>]
    /\ round = [m \in Messages |-> 0] /\ pending = [m \in Messages |-> 0]
    /\ reply = [m \in Messages |-> "none"]
    /\ pc = [m \in Messages |-> IF m \in Earlier THEN "done" ELSE "idle"]
    /\ expired = [m \in Messages |-> FALSE]
    /\ before = [m \in Messages |-> {}] /\ faults = 0

Goto(m, l) == pc' = [pc EXCEPT ![m] = l]
Fault == faults < MaxFaults /\ faults' = faults + 1

\* The handler returns, and its variables are gone.
Return(m, l) ==
    /\ Goto(m, l) /\ request' = [request EXCEPT ![m] = <<>>]
    /\ round' = [round EXCEPT ![m] = 0] /\ pending' = [pending EXCEPT ![m] = 0]
    /\ reply' = [reply EXCEPT ![m] = "none"] /\ expired' = [expired EXCEPT ![m] = FALSE]

\* What needs the context works until the context ends; it may fail before.
Works(m) == ~expired[m] /\ UNCHANGED faults
Fails(m) ==
    \/ expired[m] /\ UNCHANGED faults
    \/ ~expired[m] /\ Fault

-----------------------------------------------------------------------------
Receive(m) ==
    /\ pc[m] = "idle" /\ Goto(m, "session")
    /\ \E t \in Texts : text' = [text EXCEPT ![m] = t]
    /\ \E id \in {None} \union Rooms \union Returned \union Known :
          given' = [given EXCEPT ![m] = id]
    /\ before' = [before EXCEPT ![m] = {d \in Messages : pc[d] = "done"}]
    /\ UNCHANGED <<log, session, loop, expired, faults>>

\* GetOrCreateSession: any error of the lookup is taken for an unknown session.
GetSession(m) ==
    /\ pc[m] = "session"
    /\ \/ /\ given[m] \in Known /\ Works(m) /\ Goto(m, "save_user")
          /\ session' = [session EXCEPT ![m] = given[m]]
          /\ UNCHANGED <<loop, expired>>
       \/ /\ given[m] \notin Known /\ Works(m) /\ Goto(m, "create")
          /\ UNCHANGED <<session, loop, expired>>
       \/ Fails(m) /\ Goto(m, "create") /\ UNCHANGED <<session, loop, expired>>
       \/ given[m] \in Known /\ Fails(m) /\ Return(m, "failed") /\ UNCHANGED session
    /\ UNCHANGED <<log, input>>

CreateSession(m) ==
    /\ pc[m] = "create"
    /\ \/ /\ Works(m) /\ Goto(m, "save_user")
          /\ session' = [session EXCEPT ![m] = m] /\ log' = [log EXCEPT ![m] = <<>>]
          /\ UNCHANGED <<loop, expired>>
       \/ Fails(m) /\ Return(m, "failed") /\ UNCHANGED <<session, log>>
    /\ UNCHANGED input

\* Its error is logged, no more.
SaveMessage(m, role, t) ==
    \/ /\ Works(m)
       /\ log' = [log EXCEPT ![session[m]] = Append(@, Entry(m, role, t, 0))]
    \/ Fails(m) /\ UNCHANGED log

SaveUserMessage_UntilStored(m) ==
    /\ pc[m] = "save_user"
    /\ \/ Works(m) /\ SaveMessage(m, "user", text[m]) /\ Goto(m, "history")
       \/ Fails(m) /\ UNCHANGED <<log, pc>>
    /\ UNCHANGED <<input, session, loop, expired>>
SaveUserMessage(m) ==
    /\ pc[m] = "save_user" /\ SaveMessage(m, "user", text[m]) /\ Goto(m, "history")
    /\ UNCHANGED <<input, session, loop, expired>>

\* The newest Window messages, oldest first.
Recent_Oldest(s) == SubSeq(log[s], 1, IF Len(log[s]) < Window THEN Len(log[s]) ELSE Window)
Recent(s) ==
    LET first == IF Len(log[s]) > Window THEN Len(log[s]) - Window + 1 ELSE 1
    IN  SubSeq(log[s], first, Len(log[s]))

\* buildMessages skips every user message of the history that says the same as this one,
\* the stored copy of this one among them.
Repeats_Never(e, t) == FALSE
Repeats(e, t) == e.role = "user" /\ e.text = t

\* The messages of s that do not, in their order.
Others(s, t) ==
    LET kept[i \in 0 .. Len(s)] ==
            IF i = 0 THEN <<>>
            ELSE IF Repeats(s[i], t) THEN kept[i - 1] ELSE Append(kept[i - 1], s[i])
    IN  kept[Len(s)]

BuildMessages(m) ==
    <<Entry(m, "system", None, 0)>>
        \o Others(Recent(session[m]), text[m])
        \o <<Entry(m, "user", text[m], 0)>>

\* Memories are recalled on the way; an error there is ignored.
LoadHistory(m) ==
    /\ pc[m] = "history"
    /\ \/ /\ Works(m) /\ Goto(m, "ask")
          /\ request' = [request EXCEPT ![m] = BuildMessages(m)]
          /\ UNCHANGED <<round, pending, reply, expired>>
       \/ Fails(m) /\ Return(m, "failed")
    /\ UNCHANGED <<log, input, session>>

\* The LLM answers with a text, perhaps empty, or asks for tools; its tool calls are not
\* looked at when it says that it has stopped.
Answers(m, calls, content) ==
    request' = [request EXCEPT ![m] = Append(@, Entry(m, "assistant", content, calls))]

AskLLM(m) ==
    /\ pc[m] = "ask"
    /\ \/ /\ Works(m) /\ Goto(m, "save_reply")
          /\ \E calls \in {0, MaxCalls}, content \in {"empty", "answer"} :
                Answers(m, calls, content) /\ reply' = [reply EXCEPT ![m] = content]
          /\ UNCHANGED <<round, pending, expired>>
       \/ /\ Works(m) /\ Goto(m, "tools")
          /\ \E calls \in 1..MaxCalls :
                Answers(m, calls, "empty") /\ pending' = [pending EXCEPT ![m] = calls]
          /\ UNCHANGED <<round, reply, expired>>
       \/ Fails(m) /\ Return(m, "failed")
    /\ UNCHANGED <<log, input, session>>

\* An error is a result as well.
WithResult_ErrorsDropped(r, m, failed) == IF failed THEN r ELSE Append(r, Entry(m, "tool", None, 0))
WithResult(r, m, failed) == Append(r, Entry(m, "tool", None, 0))

NextRound(m) == round[m] + 1
LimitReached_Later(m) == NextRound(m) > MaxToolRounds
LimitReached(m) == NextRound(m) >= MaxToolRounds

ExecuteTool(m) ==
    /\ pc[m] = "tools" /\ pending' = [pending EXCEPT ![m] = @ - 1]
    /\ \/ Works(m) /\ request' = [request EXCEPT ![m] = WithResult(@, m, FALSE)]
       \/ Fails(m) /\ request' = [request EXCEPT ![m] = WithResult(@, m, TRUE)]
    /\ \/ pending[m] > 1 /\ UNCHANGED <<round, reply, pc>>
       \/ /\ pending[m] = 1 /\ round' = [round EXCEPT ![m] = NextRound(m)]
          /\ \/ ~LimitReached(m) /\ Goto(m, "ask") /\ UNCHANGED reply
             \/ /\ LimitReached(m) /\ Goto(m, "save_reply")
                /\ reply' = [reply EXCEPT ![m] = "empty"]
    /\ UNCHANGED <<log, input, session, expired>>

\* An empty text, whatever the reason, becomes the notice that the limit was reached.
FinalText(m) == IF reply[m] = "empty" THEN "limit reached" ELSE reply[m]

SaveReply(m) ==
    /\ pc[m] = "save_reply" /\ SaveMessage(m, "assistant", FinalText(m)) /\ Return(m, "done")
    /\ UNCHANGED <<input, session>>

\* The client goes, four minutes are over, the process is asked to end.
Expire(m) ==
    /\ pc[m] \in Active /\ ~expired[m] /\ Fault
    /\ expired' = [expired EXCEPT ![m] = TRUE]
    /\ UNCHANGED <<log, input, session, loop, pc>>

Settled == (\A m \in Messages : pc[m] \in {"done", "failed"}) /\ UNCHANGED vars

Handle(m) ==
    \/ GetSession(m) \/ CreateSession(m) \/ SaveUserMessage(m) \/ LoadHistory(m)
    \/ AskLLM(m) \/ ExecuteTool(m) \/ SaveReply(m)

Next == (\E m \in Messages : Receive(m) \/ Handle(m) \/ Expire(m)) \/ Settled

\* Goroutines run; the LLM, the tools and the database answer or fail.
Spec == Init /\ [][Next]_vars
FairSpec == Spec /\ \A m \in Messages : WF_vars(Handle(m))

-----------------------------------------------------------------------------
TypeOK ==
    /\ log \in [Messages -> Seq(Entries) \union {None}]
    /\ text \in [Messages -> Texts \union {None}]
    /\ given \in [Messages -> {None} \union Rooms \union Messages
                                   \union {Invented(d) : d \in Messages}]
    /\ session \in [Messages -> Messages \union {None}]
    /\ \A m \in Messages : session[m] # None => session[m] \in Known
    /\ request \in [Messages -> Seq(Entries)]
    /\ round \in [Messages -> 0..MaxToolRounds] /\ pending \in [Messages -> 0..MaxCalls]
    /\ reply \in [Messages -> {"none", "empty", "answer"}]
    /\ pc \in [Messages -> {"idle", "done", "failed"} \union Active]
    /\ expired \in [Messages -> BOOLEAN]
    /\ before \in [Messages -> SUBSET Messages] /\ faults \in 0..MaxFaults

\* The message is in its request once, as the last one before the handler's own rounds,
\* whether it could be stored or not and whoever else wrote to the session meanwhile: the
\* copy that was stored is no second question.
QuestionAskedOnce ==
    \A m \in Messages : request[m] # <<>> =>
        \E i \in DOMAIN request[m] :
            /\ request[m][i] = Entry(m, "user", text[m], 0)
            /\ \A j \in DOMAIN request[m] :
                  /\ j < i => request[m][j].by # m \/ request[m][j].role = "system"
                  /\ j > i => request[m][j].by = m /\ request[m][j].role \in {"assistant", "tool"}

Position(s, e) == CHOOSE i \in DOMAIN log[s] : log[s][i] = e
Remembered(m) == {e \in {request[m][i] : i \in DOMAIN request[m]} : e.by # m}

\* What was said before the message came is in its request, unless the window is full, and
\* then the oldest turns go.  Only a turn of the user with the very words of the question
\* may be missing from its place, with room in the window too: the question says it.
RecentTurnsSeen ==
    \A m \in Messages : request[m] # <<>> =>
        LET s == session[m] IN
        \A i \in DOMAIN log[s] :
            LET e == log[s][i] IN
            e.by \in before[m] =>
                \/ e \in Remembered(m)
                \/ e.role = "user" /\ e.text = text[m]
                \/ Len(log[s]) > Window /\ \A h \in Remembered(m) : Position(s, h) > i

\* Every tool call of an answer has its result before the LLM is asked again: a request
\* without them would be refused, and the conversation with it.
CallsAnswered ==
    \A m \in Messages : pc[m] = "ask" =>
        \A i \in DOMAIN request[m] :
            LET n == request[m][i].calls IN
            \A j \in i+1..i+n : j \in DOMAIN request[m] /\ request[m][j].role = "tool"

\* Every message is answered or refused: the rounds of tools come to an end.
EveryMessageEnds ==
    \A m \in Messages : pc[m] = "session" ~> pc[m] \in {"done", "failed"}

\* A message with the session id of an earlier answer continues that session.
SessionContinues ==
    \A m, d \in Messages :
        given[m] = Invented(d) /\ session[m] # None => session[m] = session[d]

=============================================================================
