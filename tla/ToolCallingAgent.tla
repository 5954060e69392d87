------------------------- MODULE ToolCallingAgent --------------------------
(***************************************************************************)
(* The LiteLLM tool-calling agent: the chat it keeps and sends to the      *)
(* model, and how it turns the model's reply into an action.  A provider   *)
(* refuses a chat in which a tool call has no tool message, so what        *)
(* matters is which calls of an assistant message have been answered.      *)
(***************************************************************************)
EXTENDS Naturals, Sequences, FiniteSets

CONSTANTS AgentSteps,  \* max_steps of the agent
          MaxReply     \* bound on the tool calls of one reply

ASSUME AgentAssumption == AgentSteps \in Nat /\ MaxReply \in Nat

VARIABLES
  chat,     \* assistant messages, each with the number of tool messages that
            \* follow it for each of its tool calls
  reacts,   \* _step_count
  action    \* what react() returned last; None is empty

agent == <<chat, reacts, action>>

\* A tool call that was validated against the benchmark's actions.  A message
\* is no tool of the model's, so a call of that name is an unknown action.
Calls == {[name |-> n, valid |-> v] : n \in {"tool", "finish"}, v \in BOOLEAN}
           \cup {[name |-> n, valid |-> FALSE] : n \in {"unknown", "message"}}

\* What the model says: tool calls, possibly none, or a text.
Message == <<[name |-> "message", valid |-> TRUE]>>
Replies == (UNION {[1 .. n -> Calls] : n \in 0 .. MaxReply}) \cup {Message}

\* An assistant message, and how often each of its calls is answered.
Messages == UNION {[calls : [1 .. n -> Calls], answers : [1 .. n -> Nat]] : n \in Nat}

AgentInit == chat = <<>> /\ reacts = 0 /\ action = <<>>

\* How often an observation answers the single action i.
TimesIn(seen, i) == Cardinality({j \in DOMAIN seen : seen[j] = i})

\* _observe: the answer of a call becomes a tool message, unless the action it
\* answers is a message, whose answer the user says.
ToolMessages(last, seen) ==
  [i \in DOMAIN last.calls |->
     IF last.calls[i].name = "message" THEN last.answers[i]
     ELSE last.answers[i] + TimesIn(seen, i)]

Observed(seen) ==
  IF chat = <<>> THEN chat
  ELSE [chat EXCEPT ![Len(chat)].answers = ToolMessages(chat[Len(chat)], seen)]

AssistantMessage(calls) == [calls |-> calls, answers |-> [i \in DOMAIN calls |-> 0]]

\* react() gives up without looking at the observation.
GivesUp ==
  /\ reacts >= AgentSteps
  /\ reacts' = reacts + 1 /\ action' = <<>>
  /\ UNCHANGED chat

\* The model is asked with the chat, and fails or is cut off.
CompletionFails(seen) ==
  /\ reacts < AgentSteps
  /\ reacts' = reacts + 1 /\ chat' = Observed(seen)
  /\ UNCHANGED action

\* The model is asked and answers; its reply is the next message of the chat.
Asks(seen, reply) ==
  /\ reacts < AgentSteps
  /\ reacts' = reacts + 1
  /\ chat' = Append(Observed(seen), AssistantMessage(IF reply = Message THEN <<>> ELSE reply))
  /\ action' = reply
=============================================================================
