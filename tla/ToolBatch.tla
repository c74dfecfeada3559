------------------------------ MODULE ToolBatch ------------------------------
(***************************************************************************)
(* The tool calls of one model message (agent/tool_executor.py), planned   *)
(* by their claims (runtime/execution_planner.py), run in the pool of the   *)
(* project and answered in the order of the message.  A call that was       *)
(* started and did not end before its message was given up goes on; the     *)
(* resource coordinator of the session keeps it apart from later ones.      *)
(***************************************************************************)
EXTENDS ToolCalls, FiniteSets, FiniteSetsExt

CONSTANTS Sizes,      \* calls of each message, in the order of the messages
          Budget,     \* MAX_AGENT_TOOL_CALLS
          FreshIds    \* whether the provider names the calls itself

VARIABLES phase,      \* idle, plan, check, start, wait, record, settle, repair
          messages,   \* the history: <<"assistant", ids>>, <<"tool", id, answer>>, <<"user">>
          number,     \* messages with calls so far
          effects,    \* effect of each call of the message at hand
          call,       \* where each call is
          result,     \* the result the executor holds for each call
          recorded,   \* calls recorded in order (next_record)
          ran,        \* calls whose tool was started
          left,       \* calls of earlier messages that still run: <<message, index, effect>>
          charged,    \* fallback.tool_call_count
          stop,       \* fallback.stop_requested
          cancelled,  \* the token of the turn
          deferred    \* whether a user message is deferred

vars == <<phase, messages, number, effects, call, result, recorded, ran, left, charged, stop,
          cancelled, deferred>>

\* Reads and writes of two files, a write that needs an approval, a call that is rejected, and a
\* control tool, which claims nothing and runs in the thread of the executor.
Effects == {"read a", "write a", "write b", "ask a", "rejected", "control"}

File(key, access) == [domain |-> "workspace", key |-> <<key>>, scope |-> "exact", access |-> access]

ClaimsOf(effect) ==
    CASE effect = "read a" -> {File("a", "read")}
      [] effect \in {"write a", "ask a"} -> {File("a", "write")}
      [] effect = "write b" -> {File("b", "write")}
      [] effect = "rejected" -> {[domain |-> "global", key |-> <<"*">>, scope |-> "global", access |-> "write"]}
      [] effect = "control" -> {}

Calls == DOMAIN effects
In(states) == {i \in Calls : call[i] \in states}

\* The id of a call; one the provider did not give is made from its index ("call_<index>").
Id(message, i) == IF FreshIds THEN <<message, i>> ELSE <<0, i>>

Init ==
    /\ phase = "idle" /\ messages = <<>> /\ number = 0 /\ effects = <<>> /\ call = <<>>
    /\ result = <<>> /\ recorded = 0 /\ ran = {} /\ left = {} /\ charged = 0
    /\ stop = FALSE /\ cancelled = FALSE /\ deferred = FALSE

\* A message with calls: they are validated, classified and put before the planner.
Begin(chosen) ==
    /\ phase = "idle" /\ number < Len(Sizes) /\ Len(chosen) = Sizes[number + 1]
    /\ phase' = "plan" /\ number' = number + 1 /\ effects' = chosen
    /\ messages' = Append(messages, <<"assistant", [i \in DOMAIN chosen |-> Id(number', i)]>>)
    /\ call' = [i \in DOMAIN chosen |-> "pending"] /\ result' = [i \in DOMAIN chosen |-> "none"]
    /\ recorded' = 0 /\ ran' = {} /\ stop' = FALSE /\ cancelled' = FALSE
    /\ UNCHANGED <<left, charged, deferred>>

\* The conflict graph: a barrier depends on all before it, and all after it on the barrier.
Dependencies(i) ==
    {j \in 1 .. i - 1 : "rejected" \in {effects[i], effects[j]}
                        \/ SetsConflict(ClaimsOf(effects[i]), ClaimsOf(effects[j]))}

Ready == {i \in In({"pending"}) : Dependencies(i) \subseteq In({"over"})}
Safe == {i \in Ready : effects[i] # "ask a"}

\* The exception path: what was not started is cancelled, the tokens of the others are set.
Broken ==
    /\ phase' = "settle"
    /\ call' = [i \in Calls |-> IF call[i] = "queued" THEN "gone" ELSE call[i]]

Choose ==
    /\ phase = "plan" /\ In({"pending"}) # {}
    /\ IF cancelled THEN Broken
       ELSE LET group == IF Safe # {} THEN Safe ELSE {Min(Ready)} IN
            /\ call' = [i \in Calls |-> IF i \in group THEN "chosen" ELSE call[i]]
            /\ phase' = "check"
    /\ UNCHANGED <<messages, number, effects, result, recorded, ran, left, charged, stop, cancelled, deferred>>

\* One call of the group, in the order of the message: over with a result of its own, or allowed.
Over(i, answer) ==
    /\ call' = [call EXCEPT ![i] = "over"] /\ result' = [result EXCEPT ![i] = answer]

\* The budget is spent: the rest of the group is not looked at.
RefuseForBudget(i) ==
    /\ charged >= Budget
    /\ call' = [j \in Calls |-> IF j = i THEN "over" ELSE IF call[j] = "chosen" THEN "pending" ELSE call[j]]
    /\ result' = [result EXCEPT ![i] = "blocked"] /\ stop' = TRUE
    /\ UNCHANGED charged

Reject(i) == effects[i] = "rejected" /\ Over(i, "blocked") /\ UNCHANGED stop

\* A middleware answers instead of the tool; it may ask for the end of the turn.
Intercept(i) ==
    /\ effects[i] # "rejected"
    /\ \/ Over(i, "blocked") /\ UNCHANGED stop
       \/ /\ stop' = TRUE /\ result' = [result EXCEPT ![i] = "blocked"]
          /\ call' = [j \in Calls |-> IF j = i THEN "over" ELSE IF call[j] = "chosen" THEN "pending" ELSE call[j]]

Allow(i) == effects[i] # "rejected" /\ call' = [call EXCEPT ![i] = "allowed"] /\ UNCHANGED <<result, stop>>

Check ==
    /\ phase = "check" /\ In({"chosen"}) # {}
    /\ LET i == Min(In({"chosen"})) IN
       IF cancelled THEN Broken /\ UNCHANGED <<result, stop, charged>>
       ELSE /\ \/ RefuseForBudget(i)
               \/ /\ charged < Budget /\ charged' = charged + 1
                  /\ Reject(i) \/ Intercept(i) \/ Allow(i)
            /\ UNCHANGED phase
    /\ UNCHANGED <<messages, number, effects, recorded, ran, left, cancelled, deferred>>

Checked ==
    /\ phase = "check" /\ In({"chosen"}) = {}
    /\ phase' = IF In({"allowed"}) = {} THEN "record" ELSE "start"
    /\ UNCHANGED <<messages, number, effects, call, result, recorded, ran, left, charged, stop, cancelled, deferred>>

\* A control tool runs here and now; the others go to the pool, which may be shut.
Start ==
    /\ phase = "start" /\ In({"allowed"}) # {}
    /\ LET i == Min(In({"allowed"})) IN
       \/ /\ effects[i] # "control" /\ call' = [call EXCEPT ![i] = "queued"] /\ UNCHANGED <<ran, phase>>
       \/ /\ effects[i] = "control" /\ \E end \in {"returned", "raised"} : call' = [call EXCEPT ![i] = end]
          /\ ran' = ran \union {i} /\ UNCHANGED phase
       \/ effects[i] # "control" /\ Broken /\ UNCHANGED ran
    /\ UNCHANGED <<messages, number, effects, result, recorded, left, charged, stop, cancelled, deferred>>

Started ==
    /\ phase = "start" /\ In({"allowed"}) = {}
    /\ phase' = "wait"
    /\ UNCHANGED <<messages, number, effects, call, result, recorded, ran, left, charged, stop, cancelled, deferred>>

(***************************************************************************)
(* The threads of the pool.                                                 *)
(***************************************************************************)
Held == {effects[i] : i \in In({"active"})} \union {run[3] : run \in left}

\* The resource coordinator of the session: a call waits for what conflicts, or for its token.
Acquire(i) ==
    /\ i \in In({"queued"})
    /\ \/ /\ ~cancelled /\ \A e \in Held : ~SetsConflict(ClaimsOf(effects[i]), ClaimsOf(e))
          /\ call' = [call EXCEPT ![i] = "active"] /\ ran' = ran \union {i}
       \/ (cancelled /\ call' = [call EXCEPT ![i] = "raised"] /\ UNCHANGED ran)
    /\ UNCHANGED <<phase, messages, number, effects, result, recorded, left, charged, stop, cancelled, deferred>>

Finish(i) ==
    /\ i \in In({"active"})
    /\ \E end \in {"returned", "raised"} : call' = [call EXCEPT ![i] = end]
    /\ UNCHANGED <<phase, messages, number, effects, result, recorded, ran, left, charged, stop, cancelled, deferred>>

FinishLeft ==
    /\ \E run \in left : left' = left \ {run}
    /\ UNCHANGED <<phase, messages, number, effects, call, result, recorded, ran, charged, stop, cancelled, deferred>>

Cancel ==
    /\ phase # "idle" /\ ~cancelled
    /\ cancelled' = TRUE
    /\ UNCHANGED <<phase, messages, number, effects, call, result, recorded, ran, left, charged, stop, deferred>>

(***************************************************************************)
(* The executor waits for the group, and records its results.               *)
(***************************************************************************)
Collect(i) ==
    /\ phase = "wait" /\ ~cancelled /\ i \in In({"returned", "raised"})
    /\ Over(i, IF call[i] = "returned" THEN "own" ELSE "error")
    /\ UNCHANGED <<phase, messages, number, effects, recorded, ran, left, charged, stop, cancelled, deferred>>

Interrupt ==
    /\ phase = "wait" /\ cancelled
    /\ Broken
    /\ UNCHANGED <<messages, number, effects, result, recorded, ran, left, charged, stop, cancelled, deferred>>

GroupDone ==
    /\ phase = "wait" /\ ~cancelled /\ In({"queued", "active", "returned", "raised"}) = {}
    /\ phase' = "record"
    /\ UNCHANGED <<messages, number, effects, call, result, recorded, ran, left, charged, stop, cancelled, deferred>>

Buffered == recorded < Len(effects) /\ call[recorded + 1] = "over"

Answered(i) == Append(messages, <<"tool", Id(number, i), result[i]>>)

\* The next result: policies may defer guidance for the model or ask for the end of the turn, and
\* the question after repeated conflicts is interrupted by a cancellation.
Record ==
    /\ phase = "record" /\ Buffered
    /\ \/ /\ messages' = Answered(recorded + 1) /\ recorded' = recorded + 1
          /\ deferred' \in {deferred, TRUE} /\ stop' \in {stop, TRUE} /\ UNCHANGED <<phase, call>>
       \/ cancelled /\ Broken /\ UNCHANGED <<messages, recorded, deferred, stop>>
    /\ UNCHANGED <<number, effects, result, ran, left, charged, cancelled>>

\* Nothing to record: the next group, or the answers of all that will not run.
Recorded ==
    /\ phase = "record" /\ ~Buffered /\ recorded < Len(effects)
    /\ IF stop
         THEN /\ call' = [i \in Calls |-> IF call[i] = "pending" THEN "over" ELSE call[i]]
              /\ result' = [i \in Calls |-> IF call[i] = "pending" THEN "blocked" ELSE result[i]]
              /\ UNCHANGED phase
         ELSE phase' = "plan" /\ UNCHANGED <<call, result>>
    /\ UNCHANGED <<messages, number, effects, recorded, ran, left, charged, stop, cancelled, deferred>>

\* _flush_deferred_user_messages, and the end of execute().
End ==
    /\ phase = "record" /\ recorded = Len(effects)
    /\ phase' = "idle" /\ deferred' = FALSE
    /\ messages' = IF deferred THEN Append(messages, <<"user">>) ELSE messages
    /\ UNCHANGED <<number, effects, call, result, recorded, ran, left, charged, stop, cancelled>>

\* A bounded wait for what was cancelled, after which the results that are there are kept.
Salvage ==
    /\ phase = "settle"
    /\ \E told \in SUBSET (In({"raised"}) \intersect ran) :
          result' = [i \in Calls |-> IF result[i] = "none" /\ (call[i] = "returned" \/ i \in told)
                                     THEN "own" ELSE result[i]]
    /\ phase' = "repair"
    /\ UNCHANGED <<messages, number, effects, call, recorded, ran, left, charged, stop, cancelled, deferred>>

\* _repair_orphaned_tool_calls: every id the history has no tool message for is answered.
AnsweredIds == {m[2] : m \in {messages[k] : k \in {p \in DOMAIN messages : messages[p][1] = "tool"}}}
Orphans == {i \in Calls : Id(number, i) \notin AnsweredIds}

\* Their tool messages, in the order of the calls: the k-th has k - 1 before it.
Nth(calls, k) == CHOOSE i \in calls : Cardinality({j \in calls : j <= i}) = k
Repaired(calls) ==
    [k \in 1 .. Cardinality(calls) |->
        LET i == Nth(calls, k)
        IN <<"tool", Id(number, i), IF result[i] = "none" THEN "cancelled" ELSE result[i]>>]

\* execute() ends by an exception: tools that do not stop run on without it.
GiveUp ==
    /\ left' = left \union {<<number, i, effects[i]>> : i \in In({"active"})}
    /\ phase' = "idle" /\ deferred' = FALSE /\ call' = [i \in Calls |-> "over"]
    /\ UNCHANGED <<number, effects, result, recorded, ran, charged, stop, cancelled>>

\* A repair that answers the calls of the group only.
RepairFromGroup ==
    /\ phase = "repair" /\ GiveUp
    /\ messages' = messages \o Repaired(In({"gone", "active", "returned", "raised"}))

Repair ==
    /\ phase = "repair" /\ GiveUp
    /\ messages' = messages \o Repaired(Orphans)

ExecutorSteps ==
    \/ Choose \/ Check \/ Checked \/ Start \/ Started \/ Interrupt \/ GroupDone
    \/ (\E i \in Calls : Collect(i)) \/ Record \/ Recorded \/ End \/ Salvage \/ Repair

Next ==
    \/ \E n \in 1 .. 3 : \E chosen \in [1 .. n -> Effects] : Begin(chosen)
    \/ ExecutorSteps \/ Cancel
    \/ (\E i \in Calls : Acquire(i) \/ Finish(i)) \/ FinishLeft

\* The thread of the executor goes on; no tool ever has to end.
Spec == Init /\ [][Next]_vars /\ WF_vars(ExecutorSteps)

(***************************************************************************)
(* What must hold.                                                          *)
(***************************************************************************)
TypeOK ==
    /\ phase \in {"idle", "plan", "check", "start", "wait", "record", "settle", "repair"}
    /\ effects \in Seq(Effects) /\ number \in 0 .. Len(Sizes) /\ charged \in 0 .. Budget
    /\ recorded \in 0 .. Len(effects) /\ ran \subseteq Calls
    /\ \A i \in Calls :
          /\ call[i] \in {"pending", "chosen", "allowed", "queued", "active", "returned", "raised", "gone", "over"}
          /\ result[i] \in {"none", "own", "error", "blocked"}

\* "answer every call the API still expects so the next request is not rejected": between two
\* messages each call has its one tool message, in order, right after the message that made it,
\* and user messages come after them (ToolExecutor.execute, tool_pairs_closed).
CallsAreAnswered ==
    phase = "idle" =>
        \A p \in DOMAIN messages :
            /\ messages[p][1] = "assistant" =>
                  \A i \in DOMAIN messages[p][2] :
                      /\ p + i <= Len(messages) /\ messages[p + i][1] = "tool"
                      /\ messages[p + i][2] = messages[p][2][i]
            /\ messages[p][1] = "tool" =>
                  \E a \in 1 .. p - 1 : messages[a][1] = "assistant" /\ p - a <= Len(messages[a][2])

\* Calls that conflict never run together, not even with those of an earlier message that were
\* given up, and within a message they run in its order (ExecutionPlanner, ResourceCoordinator).
ConflictsKeepOrder ==
    \A i \in In({"active"}) :
        /\ \A run \in left : ~SetsConflict(ClaimsOf(effects[i]), ClaimsOf(run[3]))
        /\ \A j \in Calls \ {i} : SetsConflict(ClaimsOf(effects[i]), ClaimsOf(effects[j])) =>
              /\ call[j] # "active"
              /\ j > i => j \notin ran

\* What the model is told is so: a call that was said not to have been executed never was, and
\* one that brought a result is not said to have been cancelled before it did.
AnswersAreTrue ==
    \A p \in DOMAIN messages : \A i \in Calls :
        messages[p][1] = "tool" /\ messages[p][2] = Id(number, i) =>
            /\ messages[p][3] = "blocked" => i \notin ran
            /\ messages[p][3] = "own" => i \in ran

\* A stop gets through, though no tool reacts to it.
StopEndsBatch == cancelled /\ phase # "idle" ~> phase = "idle"

=============================================================================
