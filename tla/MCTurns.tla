------------------------------ MODULE MCTurns ------------------------------
(***************************************************************************)
(* What runs a turn: the loop of the conversation ("turn"), its context     *)
(* ("context"), the tool calls of its messages ("batch"), what repeated     *)
(* failures lead to ("failures"), the cancellation that reaches all of it   *)
(* ("tokens"), the budget it shares with other sessions ("budget"), the     *)
(* claims that order its calls ("claims"), the tools it is shown ("tools"), *)
(* what decides on one call ("gate"), and the ledger of the runs that       *)
(* evaluate it ("results").  The initial state chooses the part that moves. *)
(***************************************************************************)
EXTENDS ToolCalls, Naturals

CONSTANTS Root, Dir, Leaf, Other, R, A, B, S1, S2, C1, C2, C3,
          Session, Call, CallOf, Limit, MaxBudgets,  \* ProjectResources
          Token, TopToken, ParentOf,  \* CancellationTree
          Sizes, CallBudget,          \* ToolBatch
          Deferred, MaxRevision,      \* ToolDisclosure
          FreshIds        \* FALSE for a provider that gives calls no ids (see ToolBatch)

VARIABLES left, right, verdict,
          part,
          pc, turns, inbox, fallback, warned, pending, told, size, request, client, cancelled, ended,
          context, said, turnStart, turn, covered, events,
          phase, messages, number, effects, call, result, recorded, ran, running, charged, stop,
          token, deferred,
          past, message, streaks, cost, conflicts, halt,
          created, set, callbacks, toRun, future, tracked, shut, toCancel, draining,
          current, made, owners, closed, state, budget, waiting, used, stopped,
          clock, run, disk, rows, summary, reported, applied,
          offered, revision, registry, taken, profile, discovered, revealed, shown, queries, signature,
          places, found, dropped, overtaken,
          asked, policy, stage, decision, approved, entered, outcome, heard

\* claims_conflict on every pair of claims over two domains, the domain "global" and a small tree of
\* paths: Root is an ancestor of both Dir and Other, Dir of Leaf; "*" stands apart.
vars == <<left, right, verdict>>

Paths == {<<Root>>, <<Root, Dir>>, <<Root, Dir, Leaf>>, <<Root, Other>>, <<"*">>}
Domains == {"workspace", "browser", "global"}
AllClaims == ClaimsOver(Domains, Paths)

Init == left \in AllClaims /\ right \in AllClaims /\ verdict = "none"

Decide ==
    /\ verdict = "none"
    /\ verdict' = IF Conflict(left, right) THEN "conflict" ELSE "free"
    /\ UNCHANGED <<left, right>>

loop == <<pc, turns, inbox, fallback, warned, pending, told, size, request, client, cancelled, ended>>
window == <<context, said, turnStart, turn, covered, events>>
batch == <<phase, messages, number, effects, call, result, recorded, ran, running, charged, stop,
           token, deferred>>
failing == <<past, message, streaks, cost, conflicts, halt>>
tree == <<created, set, callbacks, toRun, future, tracked, shut, toCancel, draining>>
shared == <<current, made, owners, closed, state, budget, waiting, used, stopped>>
eval == <<clock, run, disk, rows, summary, reported, applied>>
tools == <<offered, revision, registry, taken, profile, discovered, revealed, shown, queries, signature,
           places, found, dropped, overtaken>>
gate == <<asked, policy, stage, decision, approved, entered, outcome, heard>>

\* Three tokens, each the child of the one before.
Chain == [t \in {A, B} |-> IF t = A THEN R ELSE A]

\* A message of two calls, and one of one.
TwoThenOne == <<2, 1>>

\* Two calls of one session, and one of another.
Owners == [c \in {C1, C2, C3} |-> IF c = C3 THEN S2 ELSE S1]

T == INSTANCE ConversationTurn
        WITH MaxTurns <- 2, MaxInbox <- 1, TokenLimit <- 3, CallLimit <- 2, Attempts <- 2,
             Window <- 4, Threshold <- 3
W == INSTANCE ContextCompaction
        WITH messages <- context, MaxSaid <- 8, TailLimit <- 3, MinRecent <- 2, MinRegion <- 2
X == INSTANCE ToolBatch
        WITH left <- running, cancelled <- token, Budget <- CallBudget
F == INSTANCE ToolFailures
        WITH stop <- halt, Tool <- {"run_bash", "ghost"}, Details <- {1, 2}, MaxCalls <- 4,
             Kinds <- {"success", "invalid_arguments", "unknown_tool", "process_failed",
                       "approval_denied", "workspace_conflict"}
K == INSTANCE CancellationTree
        WITH made <- created, running <- toRun, Root <- TopToken
P == INSTANCE ProjectResources
        WITH shut <- closed, call <- waiting
E == INSTANCE EvalLedger
        WITH pending <- summary, Task <- {"t1"}, Inventory <- {"t1", "t2"}, Excluded <- {"t2"},
             KeepFailed <- 2, MaxTime <- 4
D == INSTANCE ToolDisclosure
        WITH phase <- places, result <- found, Tool <- Deferred
G == INSTANCE ToolGate
        WITH call <- asked, phase <- stage, ran <- entered, result <- outcome, events <- heard

\* The claims are compared in every pair where they move, and stand still elsewhere.
MCInit ==
    /\ part \in {"turn", "context", "batch", "failures", "tokens", "budget", "claims", "tools",
                "gate", "results"}
    /\ IF part = "claims" THEN Init
       ELSE /\ right = [domain |-> "global", key |-> <<"*">>, scope |-> "global", access |-> "read"]
            /\ left = right /\ verdict = "none"
    /\ T!Init /\ W!Init /\ X!Init /\ F!Init /\ K!Init /\ P!Init /\ E!Init /\ D!Init /\ G!Init
    /\ part # "tools" => offered = [t \in Deferred |-> 0]
    /\ part # "gate" =>
          asked = G!AskedCall("unnamed", "read", G!NoShell, TRUE, FALSE) /\ policy = G!PolicyOf("llm-auto", "main", FALSE)

Turn ==
    part = "turn" /\ T!Next /\ UNCHANGED <<part, vars, window, batch, failing, tree, shared, eval, tools, gate>>
Context ==
    part = "context" /\ W!Next /\ UNCHANGED <<part, vars, loop, batch, failing, tree, shared, eval, tools, gate>>
Batch ==
    part = "batch" /\ X!Next /\ UNCHANGED <<part, vars, loop, window, failing, tree, shared, eval, tools, gate>>
Failures ==
    part = "failures" /\ F!Next /\ UNCHANGED <<part, vars, loop, window, batch, tree, shared, eval, tools, gate>>
Tokens ==
    part = "tokens" /\ K!Next /\ UNCHANGED <<part, vars, loop, window, batch, failing, shared, eval, tools, gate>>
Budget ==
    part = "budget" /\ P!Next /\ UNCHANGED <<part, vars, loop, window, batch, failing, tree, eval, tools, gate>>
Claims ==
    part = "claims" /\ Decide /\ UNCHANGED <<part, loop, window, batch, failing, tree, shared, eval, tools, gate>>

Results ==
    part = "results" /\ E!Next /\ UNCHANGED <<part, vars, loop, window, batch, failing, tree, shared, tools, gate>>
Tools == part = "tools" /\ D!Next /\ UNCHANGED <<part, vars, loop, window, batch, failing, tree, shared, eval, gate>>

Gate ==
    part = "gate" /\ G!Next
    /\ UNCHANGED <<part, vars, loop, window, batch, failing, tree, shared, eval, tools>>

MCNext == Turn \/ Context \/ Batch \/ Failures \/ Tokens \/ Budget \/ Claims \/ Tools \/ Gate \/ Results

\* The fairness of each part, while that part is the one that moves.
MCSpec ==
    /\ MCInit /\ [][MCNext]_<<part, vars, loop, window, batch, failing, tree, shared, eval, tools, gate>>
    /\ WF_loop(part = "turn" /\ T!LoopSteps)
    /\ WF_batch(part = "batch" /\ X!ExecutorSteps)
    /\ \A t \in Token : WF_tree(part = "tokens" /\ K!BornCancelled(t))
    /\ \A t, child \in Token : WF_tree(part = "tokens" /\ K!RunCallback(t, child))
    /\ \A c \in Call :
          WF_shared(part = "budget" /\ P!Grant(c)) /\ WF_shared(part = "budget" /\ P!GiveUp(c))

\* The messages of a turn alone.
BatchSpec ==
    /\ MCInit /\ part = "batch"
    /\ [][MCNext]_<<part, vars, loop, window, batch, failing, tree, shared, eval, tools, gate>>

\* Each call has its one tool message, right after the message that made it, whatever ids the
\* provider gives (ToolExecutor.execute, tool_pairs_closed).
CallsAreAnswered == X!CallsAreAnswered

\* The types of the part that moves.
TurnsTypeOK ==
    CASE part = "turn" -> T!TypeOK [] part = "context" -> W!TypeOK [] part = "batch" -> X!TypeOK
      [] part = "failures" -> F!TypeOK [] part = "tokens" -> K!TypeOK [] part = "budget" -> P!TypeOK
      [] part = "results" -> E!TypeOK [] part = "tools" -> D!TypeOK
      [] part = "gate" -> G!TypeOK
      [] OTHER -> TRUE

\* claims_conflict answers TRUE exactly when one claim writes something that both touch: a FALSE for
\* two overlapping writers would let two sessions write one file, a TRUE for disjoint ones would make
\* them wait for nothing.
VerdictIsOverlap ==
    verdict # "none" =>
        ((verdict = "conflict") <=> SharedWrite(left, right, Domains, Paths))

\* A turn stays within its budgets, shows one answer, uses an open client and tells the model of
\* each limit once (AgentConversation.run_until_idle, LlmChannel).
TurnsKeepBudget ==
    part = "turn" =>
        T!RequestsWithinBudget /\ T!ShownOnce /\ T!ClosedClientIsReplaced /\ T!ToldOnce

\* The context loses nothing to a summary, and finds its turn again (ContextManager.compact).
ContextIsWhole == part = "context" => W!NothingIsLost /\ W!TurnIsFound

\* Every call is answered, truly, and those that conflict keep apart (ToolExecutor.execute); the tools
\* the model is shown are those it may call (search_tools, _tool_schemas_for_agent_config); and one
\* call runs only as decided and is told whole (decide_tool_call, execute_tool_result).
BatchesAreSound ==
    /\ part = "batch" => X!CallsAreAnswered /\ X!ConflictsKeepOrder /\ X!AnswersAreTrue
    /\ part = "tools" => D!ShownIsCallable /\ D!DiscoverySurvives /\ D!RepetitionIsMounted
    /\ part = "gate" =>
          G!DecisionsAreOrdered /\ G!RunsArePermitted /\ G!FailuresAreTrue /\ G!EventsAreWhole

\* A failure counts once per message that repeats it, and only repeated mistakes end a turn
\* (FailureTracker, ToolFailurePolicyMiddleware); and the results of the evaluations stand when the
\* artifacts of other attempts are deleted (eval_ledger).
CountsAreTrue ==
    /\ part = "failures" => F!StreaksAreHonest /\ F!OnlyMistakesStop /\ F!MistakesStop
    /\ part = "results" =>
          /\ E!FinalsStand /\ E!PassesStand /\ E!DeletionSettles
          /\ E!TrajectoryIsKept /\ E!ReportAddsUp

\* No token or tool escapes a cancellation, and no call the limit of the project or an open pool
\* (CancellationToken, ToolTaskSupervisor, ProjectExecutionBudget).
NothingEscapes ==
    /\ part = "tokens" => K!NoChildEscapes /\ K!ClosedAreForgotten /\ K!NoToolEscapes
    /\ part = "budget" => P!ProjectWithinLimit /\ P!OpenWhileOwned

\* Turns end, and a stop gets through batches, waits and every level of the tokens.
StopsReach == T!TurnsEnd /\ X!StopEndsBatch /\ K!CancellationReaches /\ P!StopEndsWait

=============================================================================
