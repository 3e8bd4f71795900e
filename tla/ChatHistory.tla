----------------------------- MODULE ChatHistory -----------------------------
(***************************************************************************)
(* The chat agent (mcp_server/chat_agent.py) behind POST /chat: one agent, *)
(* hence one conversation_history, for the whole server.                   *)
(*                                                                         *)
(* A turn awaits the model, perhaps its tools, and the model again; turns  *)
(* of different requests interleave at those awaits and append to the one  *)
(* list.  Messages are records of their role and the turn they belong to.  *)
(***************************************************************************)
EXTENDS Integers, Sequences, SequencesExt

CONSTANTS
  Requests,       \* slots for POST /chat requests in progress
  WindowSize,     \* the 20 of _history_window
  MaxTools,       \* bound: tool calls in one answer of the model
  MaxTurns        \* bound: turns of the conversation

ASSUME WindowAssumption == WindowSize \in Nat \ {0}
ASSUME ToolsAssumption == MaxTools \in Nat \ {0}
ASSUME TurnsAssumption == MaxTurns \in Nat

VARIABLES
  history,        \* conversation_history
  turns,          \* how many turns were begun
  pc,             \* the await each request stands at
  turn,           \* the turn of each request
  called,         \* how many tools its turn has called
  sent            \* the latest request to the model: its turn, its messages and,
                  \* as history, whether that turn had the chat for itself

vars == <<history, turns, pc, turn, called, sent>>

Stages == {"idle", "asking", "tools", "concluding"}
Turns == 1..MaxTurns
Messages ==
  [role : {"user", "assistant"}, turn : Turns]
  \cup [role : {"calls"}, turn : Turns, count : 1..MaxTools]
  \cup [role : {"tool"}, turn : Turns, index : 1..MaxTools]

User(t) == [role |-> "user", turn |-> t]
Assistant(t) == [role |-> "assistant", turn |-> t]
Calls(t, n) == [role |-> "calls", turn |-> t, count |-> n]
(* Variant that numbers the results from 0:                                *)
ResultsFromZero(t, n) ==
  [i \in 1..n |-> [role |-> "tool", turn |-> t, index |-> i - 1]]

Results(t, n) == [i \in 1..n |-> [role |-> "tool", turn |-> t, index |-> i]]

TypeOK ==
  /\ history \in Seq(Messages)
  /\ turns \in 0..MaxTurns
  /\ pc \in [Requests -> Stages]
  /\ turn \in [Requests -> 0..MaxTurns]
  /\ called \in [Requests -> 0..MaxTools]
  /\ sent.messages \in Seq(Messages)
  /\ sent.turn \in 0..MaxTurns /\ sent.alone \in BOOLEAN

Init ==
  /\ history = <<>>
  /\ turns = 0
  /\ pc = [r \in Requests |-> "idle"]
  /\ turn = [r \in Requests |-> 0]
  /\ called = [r \in Requests |-> 0]
  /\ sent = [turn |-> 0, alone |-> FALSE, messages |-> <<>>]

-----------------------------------------------------------------------------
Latest(h) ==
  IF Len(h) <= WindowSize THEN h
  ELSE SubSeq(h, Len(h) - WindowSize + 1, Len(h))

(* _history_window: the last messages, leading tool messages dropped.      *)
Window(h) ==
  LET w == Latest(h)
      start == SelectInSeq(w, LAMBDA m : m.role # "tool")
  IN IF start = 0 THEN <<>> ELSE SubSeq(w, start, Len(w))

(* No other turn is in progress or added a message since t was asked.      *)
Alone(r, t, h) ==
  /\ \A q \in Requests \ {r} : pc[q] = "idle"
  /\ \A i, j \in 1..Len(h) : h[i] = User(t) /\ i < j => h[j].turn = t

Send(r, t, h) ==
  sent' = [turn |-> t, alone |-> Alone(r, t, h), messages |-> Window(h)]

(* chat: the user message is appended; out of scope it is refused without  *)
(* the model, otherwise the window is sent.                                *)
Ask(r) ==
  /\ pc[r] = "idle" /\ turns < MaxTurns
  /\ turns' = turns + 1
  /\ turn' = [turn EXCEPT ![r] = turns + 1]
  /\ \/ /\ history' = history \o <<User(turns + 1), Assistant(turns + 1)>>
        /\ UNCHANGED <<pc, sent>>
     \/ /\ history' = Append(history, User(turns + 1))
        /\ Send(r, turns + 1, history')
        /\ pc' = [pc EXCEPT ![r] = "asking"]
  /\ UNCHANGED called

Finish(r) == pc' = [pc EXCEPT ![r] = "idle"]

(* The model answers in prose, to the first or to the second request.      *)
ModelAnswers(r) ==
  /\ pc[r] \in {"asking", "concluding"}
  /\ history' = Append(history, Assistant(turn[r]))
  /\ Finish(r)
  /\ UNCHANGED <<turns, turn, called, sent>>

ModelCallsTools(r) ==
  /\ pc[r] = "asking"
  /\ \E n \in 1..MaxTools :
       /\ history' = Append(history, Calls(turn[r], n))
       /\ called' = [called EXCEPT ![r] = n]
  /\ pc' = [pc EXCEPT ![r] = "tools"]
  /\ UNCHANGED <<turns, turn, sent>>

(* The last tool has returned: a result for each call, whether it failed   *)
(* or not, is appended at once, and the second request is sent.            *)
(* Variant that leaves out the results of failed tools:                    *)
ToolsReturnSome(r) ==
  /\ pc[r] = "tools"
  /\ \E n \in 0..called[r] : history' = history \o Results(turn[r], n)
  /\ Send(r, turn[r], history')
  /\ pc' = [pc EXCEPT ![r] = "concluding"]
  /\ UNCHANGED <<turns, turn, called>>

ToolsReturn(r) ==
  /\ pc[r] = "tools"
  /\ history' = history \o Results(turn[r], called[r])
  /\ Send(r, turn[r], history')
  /\ pc' = [pc EXCEPT ![r] = "concluding"]
  /\ UNCHANGED <<turns, turn, called>>

(* The model call raises: what was appended stays.                         *)
ModelFails(r) ==
  /\ pc[r] \in {"asking", "concluding"}
  /\ Finish(r)
  /\ UNCHANGED <<history, turns, turn, called, sent>>

Next ==
  \E r \in Requests :
    \/ Ask(r) \/ ModelAnswers(r) \/ ModelCallsTools(r)
    \/ ToolsReturn(r) \/ ModelFails(r)

Spec == Init /\ [][Next]_vars

-----------------------------------------------------------------------------
Is(m, role) == m.role = role

(* Results directly follow the calls they answer, one for each.            *)
Answered(w, j) ==
  \A i \in 1..w[j].count :
    j + i <= Len(w) /\ w[j + i] = Results(w[j].turn, w[j].count)[i]

(* No message of another turn lies between those of turn t.               *)
Undivided(h, t) ==
  \A i, j, k \in 1..Len(h) :
    i < j /\ j < k /\ h[i].turn = t /\ h[k].turn = t => h[j].turn = t

(* What is sent to the model is a conversation it accepts: every tool call *)
(* is followed by its results, every result is preceded by its call.  This *)
(* holds of a turn that has the chat for itself, whatever failed before    *)
(* and wherever the window cuts the history, as long as the window holds   *)
(* nothing of earlier turns that overlapped.                               *)
SentWellFormed ==
  LET w == sent.messages IN
    sent.alone /\ (\A i \in 1..Len(w) : Undivided(history, w[i].turn)) =>
      /\ \A j \in 1..Len(w) : Is(w[j], "calls") => Answered(w, j)
      /\ \A i \in 1..Len(w) : Is(w[i], "tool") =>
           \E j \in 1..(i - 1) :
             Is(w[j], "calls") /\ w[j].turn = w[i].turn /\ j + w[i].index = i

(* The model is always shown the question it is to answer, by a turn that  *)
(* has the chat for itself and calls fewer tools than the window holds.    *)
QuestionSent ==
  sent.alone =>
    \E i \in 1..Len(sent.messages) : sent.messages[i] = User(sent.turn)

(* Both: a turn that has the chat for itself sends what can be answered.   *)
SentIsAnswerable == SentWellFormed /\ QuestionSent
=============================================================================
