---------------------------- MODULE ToolFailures ----------------------------
(***************************************************************************)
(* What repeated failures of tools lead to: the taxonomy and the streaks of *)
(* runtime/tool_failures.py, the decision of tool_failure_policy.py, and    *)
(* what the executor does with it.  Calls of one message are observed one   *)
(* after the other, in the order of the message.                            *)
(***************************************************************************)
EXTENDS Naturals, FiniteSets, Sequences, SequencesExt, ToolCalls

CONSTANTS Tool,         \* names of tools
          Kinds,        \* kinds of outcomes that occur, see KindSpec
          Details,      \* arguments and error texts: fingerprints within one kind
          MaxCalls      \* calls of a turn

VARIABLES past,         \* what was observed in the turn: [message, tool, kind, detail]
          message,      \* [number, left]: the message at hand and its calls still to come
          streaks,      \* _streaks: [category, kind, count, batch, detail] of a tool
          cost,         \* turn_failure_count
          conflicts,    \* workspace_conflict_attempts of one path
          stop          \* the stop requested: none, or its limit_type

vars == <<past, message, streaks, cost, conflicts, stop>>

\* A conflict of versions is an execution failure with a treatment of its own.
IsConflict(kind) == kind = "workspace_conflict"

NoStreak == [category |-> "none", kind |-> "none", count |-> 0, batch |-> 0, detail |-> "none"]

Fresh ==
    /\ past = <<>> /\ message = [number |-> 0, left |-> 0]
    /\ streaks = [t \in Tool |-> NoStreak] /\ cost = 0
    /\ conflicts = 0 /\ stop = "none"

Init == Fresh

\* begin_turn: "Streaks are scoped to one user turn."
BeginTurn ==
    /\ past # <<>> /\ message.left = 0
    /\ past' = <<>> /\ message' = [number |-> 0, left |-> 0]
    /\ streaks' = [t \in Tool |-> NoStreak] /\ cost' = 0
    /\ conflicts' = 0 /\ stop' = "none"

\* The model's next message, unless the turn is to stop; its ids make the batch key.
NextMessage ==
    /\ message.left = 0 /\ stop = "none" /\ Len(past) < MaxCalls
    /\ \E calls \in 1 .. 2 :
          Len(past) + calls <= MaxCalls /\ message' = [number |-> message.number + 1, left |-> calls]
    /\ UNCHANGED <<past, streaks, cost, conflicts, stop>>

\* observe: the streak of a tool after one more failure.
SameStreak(old, kind, detail) ==
    /\ old.category = Category(kind) /\ old.kind = kind
    /\ Category(kind) = "invalid_call" \/ old.detail = detail

CountAnyway(old) == old.count + 1
CountOf(old) == IF old.batch = message.number THEN old.count ELSE old.count + 1

Observed(old, kind, detail) ==
    [category |-> Category(kind), kind |-> kind, batch |-> message.number, detail |-> detail,
     count |-> IF SameStreak(old, kind, detail) THEN CountOf(old) ELSE 1]

\* on_tool_failure: the limit type of the stop it asks for, if any.
StopForMore(kind, attempt) ==
    IF Protocol(kind) /\ attempt > 3 THEN "schema_failures"
    ELSE IF kind = "unknown_tool" /\ attempt >= 2 THEN "unknown_tool"
    ELSE IF kind = "approval_denied" THEN "approval_denied"
    ELSE "none"

StopFor(kind, attempt) ==
    IF Protocol(kind) /\ attempt >= 3 THEN "schema_failures"
    ELSE IF kind = "unknown_tool" /\ attempt >= 2 THEN "unknown_tool"
    ELSE IF kind = "approval_denied" THEN "approval_denied"
    ELSE "none"

\* One result: it is observed, decided on, and the decision is carried out.
Record(tool, kind, detail) ==
    LET attempt == IF Counted(kind) THEN Observed(streaks[tool], kind, detail).count ELSE 1 IN
    /\ message.left > 0
    /\ (kind = "unknown_tool") <=> (tool = "ghost")
    /\ past' = Append(past, [message |-> message.number, tool |-> tool, kind |-> kind, detail |-> detail])
    /\ message' = [message EXCEPT !.left = @ - 1]
    /\ streaks' = CASE kind = "success" -> [streaks EXCEPT ![tool] = NoStreak]
                    [] Counted(kind) -> [streaks EXCEPT ![tool] = Observed(@, kind, detail)]
                    [] OTHER -> streaks
    /\ cost' = IF Counted(kind) /\ ~Protocol(kind) THEN cost + 1 ELSE cost
    \* The third conflict in a row is the user's to decide; "retry" starts the count again.
    /\ \E answer \in (IF IsConflict(kind) /\ conflicts >= 2 THEN {"stop", "retry"} ELSE {"none"}) :
          /\ conflicts' = IF ~IsConflict(kind) THEN conflicts
                          ELSE IF answer = "retry" THEN 0 ELSE conflicts + 1
          /\ stop' = IF stop # "none" THEN stop
                     ELSE IF answer = "stop" THEN "workspace_conflict"
                     ELSE IF kind = "success" THEN "none" ELSE StopFor(kind, attempt)

Next ==
    \/ BeginTurn \/ NextMessage
    \/ \E t \in Tool, k \in Kinds, d \in Details : Record(t, k, d)

Spec == Init /\ [][Next]_vars

(***************************************************************************)
(* What must hold.                                                          *)
(***************************************************************************)
TypeOK ==
    /\ message.left \in 0 .. 2 /\ message.number \in 0 .. MaxCalls
    /\ Len(past) <= MaxCalls /\ cost \in 0 .. Len(past) /\ conflicts \in 0 .. MaxCalls
    /\ \A t \in Tool : streaks[t].count \in 0 .. message.number

\* The last failures of a tool that are alike, without a success of it between them: the messages
\* they came in.
Mine(t) == SelectSeq(past, LAMBDA p : p.tool = t /\ (Counted(p.kind) \/ p.kind = "success"))

Alike(p, q) ==
    /\ p.kind = q.kind /\ p.kind # "success"
    /\ Category(p.kind) = "invalid_call" \/ p.detail = q.detail

Trail(t) ==
    LET mine == Mine(t) IN
    {mine[i].message : i \in {j \in DOMAIN mine : \A k \in j .. Len(mine) : Alike(mine[k], Last(mine))}}

\* A streak counts the messages of the turn that repeated one failure: parallel calls of one
\* message are "a single decision", whatever other tools do between, and a changed command or error
\* starts anew (FailureTracker.observe).
StreaksAreHonest ==
    /\ \A t \in Tool : streaks[t].count = Cardinality(Trail(t))
    /\ cost = Cardinality({i \in DOMAIN past : Counted(past[i].kind) /\ ~Protocol(past[i].kind)})

\* Only these end a turn: the same tool called wrongly in three messages, an unknown one in two, a
\* denial of the user; "repetition earns guidance, never a stop" (ToolFailurePolicyMiddleware).
OnlyMistakesStop ==
    /\ stop = "schema_failures" =>
          \E t \in Tool : Cardinality({p.message : p \in {past[i] : i \in {j \in DOMAIN past :
                              past[j].tool = t /\ Protocol(past[j].kind)}}}) >= 3
    /\ stop = "unknown_tool" =>
          Cardinality({past[i].message : i \in {j \in DOMAIN past : past[j].kind = "unknown_tool"}}) >= 2
    /\ stop = "approval_denied" => \E i \in DOMAIN past : past[i].kind = "approval_denied"

\* And they do: after them the turn is over, so no further message is asked for.
MistakesStop ==
    \A t \in Tool : message.left = 0 /\ stop = "none" =>
        ~(Cardinality(Trail(t)) >= 3 /\ Protocol(Last(Mine(t)).kind))

=============================================================================
