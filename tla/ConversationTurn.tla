--------------------------- MODULE ConversationTurn ---------------------------
(***************************************************************************)
(* The loop of one conversation (agent/conversation.py, turn_controller.py) *)
(* and its requests to the model (llm_channel.py): budgets, messages queued *)
(* by other threads, compaction of the context, retries, the switch from    *)
(* streaming to a plain request, and cancellation, which closes the client  *)
(* of the request from another thread.                                      *)
(***************************************************************************)
EXTENDS Naturals, FiniteSets, TLAPS

CONSTANTS MaxTurns,     \* turns of the conversation
          MaxInbox,     \* messages other threads queue
          TokenLimit,   \* MAX_AGENT_TOTAL_TOKENS
          CallLimit,    \* MAX_AGENT_TOOL_CALLS
          Attempts,     \* LLM_MAX_RETRIES + 1
          Window,       \* size of the context
          Threshold     \* size at which the context is compacted

VARIABLES pc,           \* idle, top, request, answered, tools, after
          turns,        \* turns begun
          inbox,        \* [queued |-> messages waiting, given |-> delivered, sent |-> put in]
          fallback,     \* [tokens, calls, stop] of the turn
          warned,       \* budget_warnings of the turn
          pending,      \* pending_budget_warnings
          told,         \* warnings the model was given in the turn
          size,         \* size of the context
          request,      \* [mode, attempt, saw, shown] of the request under way
          client,       \* [open, refresh, callback, late]: see below
          cancelled,    \* the token of the turn
          ended         \* how the last turn ended

vars == <<pc, turns, inbox, fallback, warned, pending, told, size, request, client, cancelled, ended>>

Warnings == {"tool_calls", "total_tokens"}
NoRequest == [mode |-> "none", attempt |-> 0, saw |-> FALSE, shown |-> 0]

\* The client: whether it is open, whether _client_needs_refresh, whether the callback that closes
\* it is registered, and whether a cancellation has taken the callback over but not run it yet.
Init ==
    /\ pc = "idle" /\ turns = 0 /\ inbox = [queued |-> 0, given |-> 0, sent |-> 0]
    /\ fallback = [tokens |-> 0, calls |-> 0, stop |-> FALSE]
    /\ warned = {} /\ pending = {} /\ told = {} /\ size = 1 /\ request = NoRequest
    /\ client = [open |-> TRUE, refresh |-> FALSE, callback |-> FALSE, late |-> FALSE]
    /\ cancelled = FALSE /\ ended = "none"

\* add_user_turn: what belongs to a turn starts afresh.
Submit ==
    /\ pc = "idle" /\ turns < MaxTurns /\ size < Window
    /\ pc' = "top" /\ turns' = turns + 1 /\ size' = size + 1 /\ cancelled' = FALSE /\ ended' = "none"
    /\ fallback' = [tokens |-> 0, calls |-> 0, stop |-> FALSE]
    /\ warned' = {} /\ pending' = {} /\ told' = {}
    /\ UNCHANGED <<inbox, request, client>>

QueueMessage ==
    /\ inbox.sent < MaxInbox
    /\ inbox' = [inbox EXCEPT !.queued = @ + 1, !.sent = @ + 1]
    /\ UNCHANGED <<pc, turns, fallback, warned, pending, told, size, request, client, cancelled, ended>>

Drained == [inbox EXCEPT !.queued = 0, !.given = @ + inbox.queued]

Finish(how) == pc' = "idle" /\ ended' = how

\* The limits: the tokens of a turn may go over theirs by one answer, the calls may not.
OverTokensLater == fallback.tokens > TokenLimit + 1
OverTokens == fallback.tokens > TokenLimit
OverCalls == fallback.calls >= CallLimit

Growth == {0, 1}

\* The head of the loop, up to the compaction of the context.
Top ==
    /\ pc = "top"
    /\ IF cancelled THEN Finish("cancelled") /\ UNCHANGED <<inbox, fallback, pending, told, size>>
       ELSE /\ inbox' = Drained
            /\ IF OverTokens \/ OverCalls
                 THEN /\ fallback' = [fallback EXCEPT !.stop = TRUE] /\ Finish("fallback")
                      /\ UNCHANGED <<pending, told, size>>
                 ELSE /\ told' = told \union pending /\ pending' = {}
                      /\ size' = IF inbox.queued > 0 /\ size < Window THEN size + 1 ELSE size
                      /\ pc' = "compact" /\ UNCHANGED <<fallback, ended>>
    /\ UNCHANGED <<turns, warned, request, client, cancelled>>

\* A summary may fail, or not be enough; the context is then used as it is, or refused. A
\* cancellation during the summary reads as a failure of it.
Compact ==
    /\ pc = "compact"
    /\ \E after \in (IF size >= Threshold THEN 1 .. size ELSE {size}) :
          /\ size' = after
          /\ IF after >= Window
               THEN /\ fallback' = [fallback EXCEPT !.stop = TRUE] /\ Finish("fallback")
                    /\ UNCHANGED <<request, client>>
               ELSE /\ pc' = "request" /\ request' = [NoRequest EXCEPT !.mode = "stream", !.attempt = 1]
                    /\ client' = [client EXCEPT !.open = @ \/ client.refresh, !.refresh = FALSE,
                                                !.callback = TRUE]
                    /\ UNCHANGED <<fallback, ended>>
    /\ UNCHANGED <<turns, inbox, warned, pending, told, cancelled>>

(***************************************************************************)
(* The request.                                                             *)
(***************************************************************************)
Given(state) == [state EXCEPT !.callback = FALSE]

Raise(how) ==
    /\ Finish(IF cancelled THEN "cancelled" ELSE how)
    /\ request' = NoRequest

\* The first text of an attempt reaches the user.
Chunk ==
    /\ pc = "request" /\ request.mode = "stream" /\ ~request.saw /\ client.open
    /\ request' = [request EXCEPT !.saw = TRUE, !.shown = @ + 1]
    /\ UNCHANGED <<pc, turns, inbox, fallback, warned, pending, told, size, client, cancelled, ended>>

\* An error of the provider or of the transport: tried again while nothing was shown.
Retryable == ~request.saw

RetryError ==
    /\ pc = "request"
    /\ IF ~cancelled /\ Retryable /\ request.attempt < Attempts
         THEN /\ request' = [request EXCEPT !.attempt = @ + 1, !.saw = FALSE]
              /\ UNCHANGED <<pc, client, ended>>
         ELSE Raise("failed") /\ client' = Given(client)
    /\ UNCHANGED <<turns, inbox, fallback, warned, pending, told, size, cancelled>>

\* Any other error: what was shown is not asked for again; the plain request has the callback
\* registered anew, and its own attempts.
OtherError ==
    /\ pc = "request"
    /\ IF cancelled \/ request.saw \/ request.mode = "plain"
         THEN Raise("failed") /\ client' = Given(client)
         ELSE /\ request' = [request EXCEPT !.mode = "plain", !.attempt = 1]
              /\ UNCHANGED <<pc, client, ended>>
    /\ UNCHANGED <<turns, inbox, fallback, warned, pending, told, size, cancelled>>

\* A stream that makes no progress: its client is given up, and the turn with it.
TimeOut ==
    /\ pc = "request"
    /\ Raise("timeout")
    /\ client' = IF request.mode = "stream" /\ ~cancelled
                 THEN [client EXCEPT !.open = FALSE, !.refresh = TRUE, !.callback = FALSE]
                 ELSE Given(client)
    /\ UNCHANGED <<turns, inbox, fallback, warned, pending, told, size, cancelled>>

\* A warning once per turn and limit, when half of it is used.
Warned(tokens, calls) ==
    (IF 2 * tokens >= TokenLimit THEN {"total_tokens"} ELSE {})
    \union (IF 2 * calls >= CallLimit THEN {"tool_calls"} ELSE {})

WarnAbout(new) == warned' = warned \union new /\ pending' = pending \union (new \ warned)

\* The answer arrives, over an open client; its tokens count even if the turn was stopped by then.
Answer ==
    /\ pc = "request" /\ client.open
    /\ \E used \in {1, 2} : fallback' = [fallback EXCEPT !.tokens = @ + used]
    /\ WarnAbout(Warned(fallback'.tokens, 0))
    /\ client' = Given(client) /\ request' = NoRequest
    /\ pc' = "answered"
    /\ UNCHANGED <<turns, inbox, told, size, cancelled, ended>>

\* The answer goes into the history, unless the turn was stopped.
Answered ==
    /\ pc = "answered"
    /\ IF cancelled THEN Finish("cancelled") /\ UNCHANGED <<inbox, fallback, size>>
       ELSE \E growth \in Growth :
            /\ size' = IF size + growth > Window THEN Window ELSE size + growth
            /\ IF OverTokens
                 THEN fallback' = [fallback EXCEPT !.stop = TRUE] /\ Finish("fallback") /\ UNCHANGED inbox
                 ELSE /\ UNCHANGED fallback
                      /\ \/ pc' = "tools" /\ UNCHANGED <<inbox, ended>>
                         \/ inbox.queued > 0 /\ inbox' = Drained /\ pc' = "top" /\ UNCHANGED ended
                         \* after_no_tool_calls: nothing queued; a middleware may not let it end.
                         \/ inbox.queued = 0 /\ pc' = "top" /\ UNCHANGED <<inbox, ended>>
                         \/ inbox.queued = 0 /\ Finish("finished") /\ UNCHANGED inbox
    /\ UNCHANGED <<turns, warned, pending, told, request, client, cancelled>>

\* The tools of the answer (module ToolBatch): each call is charged before it runs, and the
\* batch stops at the one that would go over.
Tools ==
    /\ pc = "tools"
    /\ IF cancelled THEN Finish("cancelled") /\ UNCHANGED <<fallback, warned, pending>>
       ELSE IF OverCalls
         THEN fallback' = [fallback EXCEPT !.stop = TRUE] /\ Finish("fallback") /\ UNCHANGED <<warned, pending>>
         ELSE /\ fallback' = [fallback EXCEPT !.calls = @ + 1]
              /\ WarnAbout(Warned(0, fallback'.calls))
              /\ pc' \in {"tools", "after"} /\ UNCHANGED ended
    /\ UNCHANGED <<turns, inbox, told, size, request, client, cancelled>>

\* after_tool_calls: queued messages go on, whatever the finish reason.
AfterTools ==
    /\ pc = "after"
    /\ \/ pc' = "top" /\ UNCHANGED ended
       \/ inbox.queued = 0 /\ Finish("finished")
    /\ inbox' = Drained
    /\ UNCHANGED <<turns, fallback, warned, pending, told, size, request, client, cancelled>>

(***************************************************************************)
(* Another thread cancels the turn: it sets the token, and then runs the    *)
(* callback it has taken over, which closes the client the request began   *)
(* with.                                                                    *)
(***************************************************************************)
Cancel ==
    /\ pc # "idle" /\ ~cancelled
    /\ cancelled' = TRUE
    /\ client' = [client EXCEPT !.late = client.callback]
    /\ UNCHANGED <<pc, turns, inbox, fallback, warned, pending, told, size, request, ended>>

Callback ==
    /\ client.late
    /\ client' = [client EXCEPT !.open = FALSE, !.late = FALSE, !.refresh = TRUE]
    /\ UNCHANGED <<pc, turns, inbox, fallback, warned, pending, told, size, request, cancelled, ended>>

LoopSteps ==
    \/ Top \/ Compact \/ Answered \/ Tools \/ AfterTools
    \/ RetryError \/ OtherError \/ TimeOut \/ Answer

Next == Submit \/ QueueMessage \/ LoopSteps \/ Chunk \/ Cancel \/ Callback

\* The loop goes on, and every request of it ends in one of the ways above (the client has an idle
\* timeout).
Spec == Init /\ [][Next]_vars /\ WF_vars(LoopSteps)

(***************************************************************************)
(* What must hold.                                                          *)
(***************************************************************************)
TypeOK ==
    /\ pc \in {"idle", "top", "compact", "request", "answered", "tools", "after"}
    /\ turns \in 0 .. MaxTurns /\ size \in 1 .. Window
    /\ fallback.tokens \in 0 .. TokenLimit + 2 /\ fallback.calls \in 0 .. CallLimit
    /\ {warned, pending, told} \subseteq SUBSET Warnings
    /\ inbox.sent \in 0 .. MaxInbox /\ request.attempt \in 0 .. Attempts

\* No way through the loop sends another request for a turn whose budget is spent: not an answer
\* without tools that a middleware refuses, not a queued message, not a truncated answer
\* (AgentConversation.run_until_idle).
RequestsWithinBudget ==
    /\ pc = "request" => fallback.tokens <= TokenLimit /\ fallback.calls < CallLimit /\ size < Window
    /\ ended = "finished" => ~fallback.stop

\* The user is never shown the beginning of two answers to one request (LlmChannel: "once deltas
\* were produced the caller already saw them").
ShownOnce == request.shown <= 1 /\ (request.mode = "plain" => request.shown = 0)

\* A client that was closed by a stop or a timeout is replaced before the next request, unless the
\* thread that closes it has not come round to say so.
ClosedClientIsReplaced == client.open \/ client.refresh

\* The model is told of a budget once, not for what an earlier turn used, and what was queued is
\* given to it exactly once.
ToldOnce ==
    /\ pending \intersect told = {} /\ told \union pending \subseteq warned
    /\ inbox.given + inbox.queued = inbox.sent

\* A turn cannot go on for ever, whatever the model answers and whatever is queued.
TurnsEnd == pc # "idle" ~> pc = "idle"

-----------------------------------------------------------------------------
(***************************************************************************)
(* Proofs: a turn keeps its budgets, shows one answer and uses an open     *)
(* client, for every limit, every number of retries and every size of the  *)
(* context.                                                                *)
(***************************************************************************)

\* A request is tried once at least, and the context has room for a message.
Limits ==
    /\ MaxTurns \in Nat /\ MaxInbox \in Nat /\ TokenLimit \in Nat /\ CallLimit \in Nat
    /\ Attempts \in Nat \ {0} /\ Window \in Nat \ {0}

\* The types of the variables, without their bounds.
Types ==
    /\ pc \in {"idle", "top", "compact", "request", "answered", "tools", "after"}
    /\ turns \in 0 .. MaxTurns /\ size \in 1 .. Window
    /\ DOMAIN inbox = {"queued", "given", "sent"}
    /\ inbox.queued \in Nat /\ inbox.given \in Nat /\ inbox.sent \in 0 .. MaxInbox
    /\ DOMAIN fallback = {"tokens", "calls", "stop"} /\ fallback.tokens \in Nat /\ fallback.calls \in Nat
    /\ warned \subseteq Warnings /\ pending \subseteq Warnings /\ told \subseteq Warnings
    /\ DOMAIN request = {"mode", "attempt", "saw", "shown"} /\ request.mode \in {"none", "stream", "plain"}
    /\ request.attempt \in 0 .. Attempts /\ request.shown \in Nat
    /\ DOMAIN client = {"open", "refresh", "callback", "late"}

\* What is used of a budget; a request starts below the limits, and one answer goes over by two.
Used ==
    /\ fallback.tokens <= TokenLimit + 2 /\ fallback.calls <= CallLimit
    /\ pc \in {"compact", "request"} => fallback.tokens <= TokenLimit /\ fallback.calls < CallLimit
    /\ pc = "request" => size < Window

\* A turn that is to stop has ended, and did not finish.
StopIsFinal == fallback.stop => pc = "idle" /\ ended = "fallback"

\* Something was shown exactly when the attempt under way has seen text, which no plain request does.
ShownWasSeen ==
    /\ request.shown = IF request.saw THEN 1 ELSE 0
    /\ request.mode = "plain" => ~request.saw

IInv == Types /\ Used /\ StopIsFinal /\ ShownWasSeen /\ ClosedClientIsReplaced /\ ToldOnce

\* The state of the first turn (AgentConversation, LlmChannel).
LEMMA Initially == ASSUME Limits, Init PROVE IInv
  BY DEF Limits, Init, IInv, Types, Used, StopIsFinal, ShownWasSeen,
         ClosedClientIsReplaced, ToldOnce, NoRequest, Warnings

\* What _drain_inbox leaves.
LEMMA DrainedInbox ==
    ASSUME Types
    PROVE  /\ DOMAIN Drained = {"queued", "given", "sent"}
           /\ Drained.queued = 0 /\ Drained.given = inbox.given + inbox.queued /\ Drained.sent = inbox.sent
  BY DEF Drained, Types

\* What an error, or the start of a request, makes of it.
LEMMA RequestAfter ==
    /\ Compact => request' \in {request, [mode |-> "stream", attempt |-> 1, saw |-> FALSE, shown |-> 0]}
    /\ RetryError =>
          \/ request' = NoRequest
          \/ /\ request' = [request EXCEPT !.attempt = @ + 1, !.saw = FALSE]
             /\ request.attempt < Attempts
    /\ RetryError => request' = NoRequest \/ ~request.saw
    /\ OtherError =>
          \/ request' = NoRequest
          \/ request' = [request EXCEPT !.mode = "plain", !.attempt = 1] /\ ~request.saw
  <1>1. Compact => request' \in {request, [mode |-> "stream", attempt |-> 1, saw |-> FALSE, shown |-> 0]}
    BY DEF Compact, NoRequest
  <1>2. ASSUME RetryError
        PROVE  \/ request' = NoRequest
               \/ /\ request' = [request EXCEPT !.attempt = @ + 1, !.saw = FALSE]
                  /\ request.attempt < Attempts
    BY <1>2 DEF RetryError, Raise
  <1>3. RetryError => request' = NoRequest \/ ~request.saw
    BY DEF RetryError, Raise, Retryable
  <1>4. ASSUME OtherError
        PROVE  \/ request' = NoRequest
               \/ request' = [request EXCEPT !.mode = "plain", !.attempt = 1] /\ ~request.saw
    BY <1>4 DEF OtherError, Raise
  <1> QED  BY <1>1, <1>2, <1>3, <1>4

\* One step of the loop, of the request or of another thread keeps the types.
LEMMA TypesStep == Limits /\ IInv /\ [Next]_vars => Types'
  <1> USE DEF Limits, Types
  <1>1. ASSUME Limits, Types, Submit PROVE Types'
    BY <1>1 DEF Submit
  <1>2. ASSUME Limits, Types, QueueMessage PROVE Types'
    BY <1>2 DEF QueueMessage
  <1>3. ASSUME Limits, Types, Top PROVE Types'
    BY <1>3, DrainedInbox DEF Top, Finish
  <1>4. ASSUME Limits, Types, Compact PROVE Types'
    <2>1. request' \in {request, [mode |-> "stream", attempt |-> 1, saw |-> FALSE, shown |-> 0]}
      BY <1>4, RequestAfter
    <2>2. DOMAIN client' = {"open", "refresh", "callback", "late"}
      BY <1>4 DEF Compact
    <2> QED  BY <1>4, <2>1, <2>2 DEF Compact, Finish
  <1>5. ASSUME Limits, Types, Answered PROVE Types'
    BY <1>5, DrainedInbox DEF Answered, Finish, Growth
  <1>6. ASSUME Limits, Types, Tools PROVE Types'
    BY <1>6 DEF Tools, Finish, WarnAbout, Warned, Warnings
  <1>7. ASSUME Limits, Types, AfterTools PROVE Types'
    BY <1>7, DrainedInbox DEF AfterTools, Finish
  <1>8. ASSUME Limits, Types, RetryError \/ OtherError \/ TimeOut PROVE Types'
    <2>1. DOMAIN client' = {"open", "refresh", "callback", "late"}
      BY <1>8 DEF RetryError, OtherError, TimeOut, Given
    <2>2. pc' \in {"idle", "request"}
      BY <1>8 DEF RetryError, OtherError, TimeOut, Raise, Finish
    <2>3. UNCHANGED <<turns, inbox, fallback, warned, pending, told, size>>
      BY <1>8 DEF RetryError, OtherError, TimeOut
    <2>4. /\ DOMAIN request' = {"mode", "attempt", "saw", "shown"}
          /\ request'.mode \in {"none", "stream", "plain"}
          /\ request'.attempt \in 0 .. Attempts /\ request'.shown \in Nat
      <3>1. CASE request' = NoRequest
        BY <1>8, <3>1 DEF NoRequest
      <3>2. CASE request' = [request EXCEPT !.attempt = @ + 1, !.saw = FALSE] /\ request.attempt < Attempts
        BY <1>8, <3>2
      <3>3. CASE request' = [request EXCEPT !.mode = "plain", !.attempt = 1]
        BY <1>8, <3>3
      <3>4. TimeOut => request' = NoRequest
        BY DEF TimeOut, Raise
      <3> QED  BY <1>8, <3>1, <3>2, <3>3, <3>4, RequestAfter
    <2> QED  BY <1>8, <2>1, <2>2, <2>3, <2>4
  <1>9. ASSUME Limits, Types, Answer PROVE Types'
    BY <1>9 DEF Answer, Given, NoRequest, WarnAbout, Warned, Warnings
  <1>10. ASSUME Limits, Types, Chunk \/ Cancel \/ Callback PROVE Types'
    <2>1. CASE Chunk
      BY <1>10, <2>1 DEF Chunk
    <2>2. CASE Cancel
      BY <1>10, <2>2 DEF Cancel
    <2>3. CASE Callback
      BY <1>10, <2>3 DEF Callback
    <2> QED  BY <1>10, <2>1, <2>2, <2>3
  <1>11. ASSUME Limits, Types, UNCHANGED vars PROVE Types'
    BY <1>11 DEF vars
  <1> QED  BY <1>1, <1>2, <1>3, <1>4, <1>5, <1>6, <1>7, <1>8, <1>9, <1>10, <1>11 DEF Next, LoopSteps, IInv

\* The budgets are looked at before every request and every call, and nothing goes on after a stop.
LEMMA BudgetStep == Limits /\ IInv /\ [Next]_vars => Used' /\ StopIsFinal'
  <1> USE DEF Limits, Types, Used, StopIsFinal
  <1>1. ASSUME Limits, Types, Used, StopIsFinal, Submit PROVE Used' /\ StopIsFinal'
    BY <1>1 DEF Submit
  <1>2. ASSUME Limits, Types, Used, StopIsFinal, QueueMessage PROVE Used' /\ StopIsFinal'
    BY <1>2 DEF QueueMessage
  <1>3. ASSUME Limits, Types, Used, StopIsFinal, Top PROVE Used' /\ StopIsFinal'
    BY <1>3 DEF Top, Finish, OverTokens, OverCalls
  <1>4. ASSUME Limits, Types, Used, StopIsFinal, Compact PROVE Used' /\ StopIsFinal'
    BY <1>4 DEF Compact, Finish
  <1>5. ASSUME Limits, Types, Used, StopIsFinal, Answered PROVE Used' /\ StopIsFinal'
    BY <1>5 DEF Answered, Finish, OverTokens
  <1>6. ASSUME Limits, Types, Used, StopIsFinal, Tools PROVE Used' /\ StopIsFinal'
    BY <1>6 DEF Tools, Finish, OverCalls
  <1>7. ASSUME Limits, Types, Used, StopIsFinal, AfterTools PROVE Used' /\ StopIsFinal'
    BY <1>7 DEF AfterTools, Finish
  <1>8. ASSUME Limits, Types, Used, StopIsFinal, RetryError \/ OtherError \/ TimeOut PROVE Used' /\ StopIsFinal'
    BY <1>8 DEF RetryError, OtherError, TimeOut, Raise, Finish
  <1>9. ASSUME Limits, Types, Used, StopIsFinal, Answer PROVE Used' /\ StopIsFinal'
    BY <1>9 DEF Answer
  <1>10. ASSUME Limits, Types, Used, StopIsFinal, Chunk \/ Cancel \/ Callback PROVE Used' /\ StopIsFinal'
    BY <1>10 DEF Chunk, Cancel, Callback
  <1>11. ASSUME Limits, Types, Used, StopIsFinal, UNCHANGED vars PROVE Used' /\ StopIsFinal'
    BY <1>11 DEF vars
  <1> QED  BY <1>1, <1>2, <1>3, <1>4, <1>5, <1>6, <1>7, <1>8, <1>9, <1>10, <1>11 DEF Next, LoopSteps, IInv

\* A request is repeated, or asked for plainly, only while nothing was shown; whoever closes a client
\* says that it is to be replaced.
LEMMA RequestStep == Limits /\ IInv /\ [Next]_vars => ShownWasSeen' /\ ClosedClientIsReplaced'
  <1> USE DEF Types, ShownWasSeen, ClosedClientIsReplaced
  <1>1. ASSUME Types, ShownWasSeen, ClosedClientIsReplaced, Compact
        PROVE  ShownWasSeen' /\ ClosedClientIsReplaced'
    BY <1>1 DEF Compact, NoRequest
  <1>2. ASSUME Types, ShownWasSeen, ClosedClientIsReplaced, RetryError \/ OtherError \/ TimeOut PROVE ShownWasSeen' /\ ClosedClientIsReplaced'
    <2>1. ClosedClientIsReplaced'
      BY <1>2 DEF RetryError, OtherError, TimeOut, Given
    <2>2. CASE request' = NoRequest
      BY <2>1, <2>2 DEF NoRequest
    <2>3. CASE request' = [request EXCEPT !.attempt = @ + 1, !.saw = FALSE] /\ ~request.saw
      BY <1>2, <2>1, <2>3
    <2>4. CASE request' = [request EXCEPT !.mode = "plain", !.attempt = 1] /\ ~request.saw
      BY <1>2, <2>1, <2>4
    <2>5. TimeOut => request' = NoRequest
      BY DEF TimeOut, Raise
    <2> QED  BY <1>2, <2>2, <2>3, <2>4, <2>5, RequestAfter
  <1>3. ASSUME Types, ShownWasSeen, ClosedClientIsReplaced, Answer PROVE ShownWasSeen' /\ ClosedClientIsReplaced'
    BY <1>3 DEF Answer, Given, NoRequest
  <1>4. ASSUME Types, ShownWasSeen, ClosedClientIsReplaced, Chunk \/ Cancel \/ Callback PROVE ShownWasSeen' /\ ClosedClientIsReplaced'
    <2>1. ShownWasSeen'
      <3>1. CASE Chunk
        BY <1>4, <3>1 DEF Chunk
      <3>2. CASE Cancel \/ Callback
        BY <1>4, <3>2 DEF Cancel, Callback
      <3> QED  BY <1>4, <3>1, <3>2
    <2>2. CASE Chunk \/ Callback
      BY <1>4, <2>1, <2>2 DEF Chunk, Callback
    <2>3. CASE Cancel
      BY <1>4, <2>1, <2>3 DEF Cancel
    <2> QED  BY <1>4, <2>2, <2>3
  <1>5. ASSUME Types, ShownWasSeen, ClosedClientIsReplaced, Submit \/ QueueMessage \/ Top \/ Answered \/ Tools \/ AfterTools \/ UNCHANGED vars PROVE ShownWasSeen' /\ ClosedClientIsReplaced'
    BY <1>5 DEF Submit, QueueMessage, Top, Answered, Tools, AfterTools, vars
  <1> QED  BY <1>1, <1>2, <1>3, <1>4, <1>5 DEF Next, LoopSteps, IInv

\* A warning that was given or waits to be is not given again; what is taken out of the inbox counts.
LEMMA ToldStep == Limits /\ IInv /\ [Next]_vars => ToldOnce'
  <1> USE DEF Types, ToldOnce
  <1>1. ASSUME Types, ToldOnce, Submit \/ QueueMessage PROVE ToldOnce'
    <2>1. CASE Submit
      BY <1>1, <2>1 DEF Submit
    <2>2. CASE QueueMessage
      BY <1>1, <2>2 DEF QueueMessage
    <2> QED  BY <1>1, <2>1, <2>2
  <1>2. ASSUME Types, ToldOnce, Top PROVE ToldOnce'
    BY <1>2, DrainedInbox DEF Top
  <1>3. ASSUME Types, ToldOnce, Answered \/ AfterTools PROVE ToldOnce'
    BY <1>3, DrainedInbox DEF Answered, AfterTools
  <1>4. ASSUME Types, ToldOnce, Tools \/ Answer PROVE ToldOnce'
    BY <1>4 DEF Tools, Answer, WarnAbout
  <1>5. ASSUME Types, ToldOnce, Compact \/ RetryError \/ OtherError \/ TimeOut \/ Chunk \/ Cancel \/ Callback \/ UNCHANGED vars PROVE ToldOnce'
    BY <1>5 DEF Compact, RetryError, OtherError, TimeOut, Chunk, Cancel, Callback, vars
  <1> QED  BY <1>1, <1>2, <1>3, <1>4, <1>5 DEF Next, LoopSteps, IInv

LEMMA Inductive == ASSUME Limits, IInv, [Next]_vars PROVE IInv'
  BY TypesStep, BudgetStep, RequestStep, ToldStep DEF IInv

\* What it says of the invariants of the runs.
LEMMA Followed ==
    ASSUME Limits, IInv
    PROVE  TypeOK /\ RequestsWithinBudget /\ ShownOnce /\ ClosedClientIsReplaced /\ ToldOnce
  <1>1. TypeOK
    BY DEF Limits, IInv, Types, Used, TypeOK, Warnings
  <1>2. RequestsWithinBudget
    BY DEF IInv, Types, Used, StopIsFinal, RequestsWithinBudget
  <1>3. ShownOnce
    BY DEF IInv, Types, ShownWasSeen, ShownOnce
  <1> QED  BY <1>1, <1>2, <1>3 DEF IInv

\* Types are kept, and no turn goes over its tokens by more than one answer, nor over its calls.
THEOREM TypeCorrect == ASSUME Limits PROVE Spec => []TypeOK
  <1>1. Init => IInv
    BY Initially
  <1>2. IInv /\ [Next]_vars => IInv'
    BY Inductive
  <1>3. IInv => TypeOK
    BY Followed
  <1> QED  BY <1>1, <1>2, <1>3, PTL DEF Spec

\* AgentConversation.run_until_idle: whatever the model answers, whatever other threads queue and
\* however requests fail, no request is sent for a turn whose budget is spent.
THEOREM BudgetIsKept == ASSUME Limits PROVE Spec => []RequestsWithinBudget
  <1>1. Init => IInv
    BY Initially
  <1>2. IInv /\ [Next]_vars => IInv'
    BY Inductive
  <1>3. IInv => RequestsWithinBudget
    BY Followed
  <1> QED  BY <1>1, <1>2, <1>3, PTL DEF Spec

\* LlmChannel: with any number of retries and the switch to a plain request, the user sees the
\* beginning of one answer.
THEOREM AnswersAreShownOnce == ASSUME Limits PROVE Spec => []ShownOnce
  <1>1. Init => IInv
    BY Initially
  <1>2. IInv /\ [Next]_vars => IInv'
    BY Inductive
  <1>3. IInv => ShownOnce
    BY Followed
  <1> QED  BY <1>1, <1>2, <1>3, PTL DEF Spec

\* LlmChannel: a client closed under a request by the thread that cancels is known as such.
THEOREM ClientsAreReplaced == ASSUME Limits PROVE Spec => []ClosedClientIsReplaced
  <1>1. Init => IInv
    BY Initially
  <1>2. IInv /\ [Next]_vars => IInv'
    BY Inductive
  <1>3. IInv => ClosedClientIsReplaced
    BY Followed
  <1> QED  BY <1>1, <1>2, <1>3, PTL DEF Spec

\* turn_controller: every warning reaches the model once, every queued message is delivered once.
THEOREM WarningsAreToldOnce == ASSUME Limits PROVE Spec => []ToldOnce
  <1>1. Init => IInv
    BY Initially
  <1>2. IInv /\ [Next]_vars => IInv'
    BY Inductive
  <1>3. IInv => ToldOnce
    BY Followed
  <1> QED  BY <1>1, <1>2, <1>3, PTL DEF Spec

=============================================================================
