-------------------------- MODULE SessionTranscript --------------------------
(***************************************************************************)
(* What a turn looks like: the events of the session are turned into rows  *)
(* of the transcript (tui/state.py) and into the state of the work          *)
(* (tui/projection.py), and the streamed text into segments of the group of *)
(* the turn (tui_bridge.py).  The worker streams and calls tools; a         *)
(* subagent emits the events of its own calls on another thread, under the  *)
(* lock of the event bus, which the streamed text does not take.            *)
(* Streamed pieces of text are numbered.                                    *)
(***************************************************************************)
EXTENDS Naturals, Sequences, SequencesExt

CONSTANTS Tools,      \* names of tools; the first of them also is a check (browser_test)
          Check,
          Helpers,    \* whether a subagent works beside the turns
          MaxTurns, MaxPieces, MaxTodos,
          MaxCalls, MaxPlanCalls   \* calls without a plan, and when there is one

VARIABLES worker,     \* idle, taken, opened, turn, delta, blocked, answered, finished, stopped
          taken, turn, said, todos,   \* how many tasks, turns, pieces and lists so far
          group,      \* _assistant_group_id, 0 when there is none
          groups,     \* the state of each group that was opened
          segment,    \* _assistant_id, 0 when there is none
          segments,   \* the texts shown: the group, the pieces and the state of each
          text,       \* _assistant_text
          since,      \* pieces said before the last call of the worker
          split,      \* whether a subagent ended a segment of the worker
          rows,       \* the rows of tool calls: whose call, its tool, its state, its result
          active,     \* active_tool_blocks: rows by the name of the tool
          calls,      \* calls so far: the tool, who made it, and where it is
          mixed,      \* tools of which two calls were open at once
          plan, evidence, check

streams == <<said, segment, segments, text, since, split>>
blocks == <<rows, active, calls, mixed>>
work == <<plan, evidence, check>>
vars == <<worker, taken, turn, todos, group, groups, streams, blocks, work>>

Steps == 2    \* steps of a plan
Undone == [i \in 1 .. Steps |-> FALSE]
NoPlan == [status |-> "none", steps |-> Undone]

Init ==
    /\ worker = "idle" /\ taken = 0 /\ turn = 0 /\ said = 0 /\ todos = 0 /\ group = 0 /\ groups = <<>>
    /\ segment = 0 /\ segments = <<>> /\ text = <<>> /\ since = 0 /\ split = FALSE
    /\ rows = <<>> /\ active = [t \in Tools |-> <<>>] /\ calls = <<>> /\ mixed = {}
    /\ plan = NoPlan /\ evidence = Undone /\ check = "none"

(***************************************************************************)
(* Segments and groups.                                                    *)
(***************************************************************************)
\* _begin_assistant: a new segment, unless one is open.
SegmentsBegun(in) ==
    IF segment # 0 THEN segments
    ELSE Append(segments, [group |-> in, body |-> <<>>, state |-> "running"])

\* Mutant: the text of the segment stays behind.
ResetKeepingText(state) ==
    /\ segments' = IF segment = 0 THEN segments
                   ELSE [segments EXCEPT ![segment] = [@ EXCEPT !.body = text, !.state = state]]
    /\ segment' = 0 /\ UNCHANGED text

\* _reset_assistant_segment(state): the segment gets the text so far, and none is open.
Reset(state) ==
    /\ segments' = IF segment = 0 THEN segments
                   ELSE [segments EXCEPT ![segment] = [@ EXCEPT !.body = text, !.state = state]]
    /\ segment' = 0 /\ text' = <<>>

\* _close_assistant_group(state): ends its segment as well, and does nothing without a group.
CloseGroup(state) ==
    IF group = 0 THEN UNCHANGED <<group, groups, segment, segments, text>>
    ELSE /\ groups' = [groups EXCEPT ![group] = state] /\ group' = 0 /\ Reset(state)

(***************************************************************************)
(* The worker (_worker_loop, _run_task) and its turns (_turn_scope).       *)
(***************************************************************************)
Take ==
    /\ worker = "idle" /\ turn < MaxTurns /\ taken < MaxTurns
    /\ worker' = "taken" /\ taken' = taken + 1 /\ segment' = 0 /\ text' = <<>>
    /\ IF group = 0 THEN UNCHANGED <<group, groups>>
       ELSE groups' = [groups EXCEPT ![group] = "success"] /\ group' = 0
    /\ UNCHANGED <<turn, todos, said, segments, since, split, blocks, work>>

\* Mutant: turn_started opens a group of its own.
OpenAlways == groups' = Append(groups, "running") /\ group' = Len(groups')

\* _begin_assistant_group: before the routing, and at turn_started when it is not open.
OpenGroup ==
    IF group # 0 THEN UNCHANGED <<group, groups>>
    ELSE groups' = Append(groups, "running") /\ group' = Len(groups')

\* The worker opens it before the turn is routed and prepared.
Prepare ==
    /\ worker = "taken" /\ worker' = "opened"
    /\ OpenGroup /\ segment' = 0 /\ text' = <<>>
    /\ UNCHANGED <<taken, turn, todos, said, segments, since, split, blocks, work>>

\* turn_started: a new turn, also one more of the same task (a plan that is carried out); the
\* checks of the last turn go, and a plan left incomplete is taken up.
TurnStarts ==
    /\ worker \in {"opened", "finished"} /\ turn < MaxTurns
    /\ worker' = "turn" /\ turn' = turn + 1 /\ since' = said
    /\ OpenGroup /\ segment' = 0 /\ text' = <<>> /\ UNCHANGED segments
    /\ check' = "none"
    /\ plan' = IF plan.status = "incomplete" THEN [plan EXCEPT !.status = "executing"] ELSE plan
    /\ UNCHANGED <<taken, todos, said, split, blocks, evidence>>

\* _stream_delta in two steps: a segment is there ...
DeltaBegins ==
    /\ worker = "turn" /\ said < MaxPieces
    /\ worker' = "delta"
    /\ segments' = SegmentsBegun(group)
    /\ IF segment = 0 THEN segment' = Len(segments') /\ text' = <<>> ELSE UNCHANGED <<segment, text>>
    /\ UNCHANGED <<taken, turn, todos, group, groups, said, since, split, blocks, work>>

\* ... and the piece goes into it, or nowhere when there no longer is one.
DeltaEnds ==
    /\ worker = "delta" /\ worker' = "turn"
    /\ said' = said + 1 /\ text' = Append(text, said')
    /\ segments' = IF segment = 0 THEN segments
                   ELSE [segments EXCEPT ![segment].body = Append(@, said')]
    /\ UNCHANGED <<taken, turn, todos, group, groups, segment, since, split, blocks, work>>

\* assistant_message: the open segment gets the whole last message; without one a row of its own.
Answer ==
    /\ worker = "turn" /\ said > since /\ worker' = "answered"
    /\ LET whole == [i \in 1 .. said - since |-> since + i] IN
       segments' = IF segment # 0
                   THEN [segments EXCEPT ![segment] = [@ EXCEPT !.body = whole, !.state = "success"]]
                   ELSE Append(segments, [group |-> group, body |-> whole, state |-> "success"])
    /\ segment' = 0 /\ text' = <<>> /\ since' = said
    /\ UNCHANGED <<taken, turn, todos, group, groups, said, split, blocks, work>>

(***************************************************************************)
(* Calls of tools: the worker's, and those of a subagent, which end in any *)
(* order and come at any time.                                             *)
(***************************************************************************)
OpenCalls(t) == {c \in DOMAIN calls : calls[c].tool = t /\ calls[c].at = "open"}

\* A boundary of a tool ends the segment; split tells that it was not the worker's.
Boundary(by) ==
    /\ Reset("success")
    /\ IF by = "worker" THEN since' = said /\ UNCHANGED split
       ELSE split' = (split \/ segment # 0) /\ UNCHANGED since

\* tool_call: a row that runs, last among the active ones of its name.
Call(by, t) ==
    /\ Len(calls) < (IF plan = NoPlan THEN MaxCalls ELSE MaxPlanCalls)
    /\ calls' = Append(calls, [tool |-> t, by |-> by, at |-> "open"])
    /\ rows' = Append(rows, [call |-> Len(calls'), tool |-> t, state |-> "running", result |-> 0])
    /\ active' = [active EXCEPT ![t] = Append(@, Len(rows'))]
    /\ mixed' = IF OpenCalls(t) = {} THEN mixed ELSE mixed \union {t}
    /\ Boundary(by)
    /\ check' = IF t = Check THEN "running" ELSE check
    /\ UNCHANGED <<taken, turn, todos, group, groups, said, plan>>

\* A call that was allowed runs; one that was intercepted is put on record with its result.
WorkerCalls(t) ==
    /\ worker = "turn" /\ Call("worker", t) /\ worker' \in {"turn", "blocked"}
    /\ UNCHANGED evidence
HelperCalls(t) == Helpers /\ Call("helper", t) /\ UNCHANGED <<worker, evidence>>

\* Mutant: the oldest of any name.
OldestOfAll(waiting) == IF \A t \in Tools : active[t] = <<>> THEN 0
                        ELSE Head(active[CHOOSE t \in Tools : active[t] # <<>>])

\* _take_active_tool_block: the oldest active row of the name, 0 without any.
Oldest(waiting) == IF waiting = <<>> THEN 0 ELSE Head(waiting)
Others(waiting) == IF waiting = <<>> THEN waiting ELSE Tail(waiting)

\* The result goes into the row, or into one of its own.
Shown(row, c, state) ==
    IF row # 0 THEN [rows EXCEPT ![row] = [@ EXCEPT !.state = state, !.result = c]]
    ELSE Append(rows, [call |-> 0, tool |-> calls[c].tool, state |-> state, result |-> c])

\* tool_result (_apply_tool_result): a refusal takes an active row and leaves it as it is; one of
\* the guard shows nothing more, one of the user takes the next row.
Result(c, outcome) ==
    LET t == calls[c].tool
        first == active[t]
        rest == IF outcome \in {"denied", "guarded"} THEN Others(first) ELSE first
    IN  /\ calls[c].at = "open" /\ calls' = [calls EXCEPT ![c].at = "over"]
        /\ IF outcome = "guarded" THEN UNCHANGED rows /\ active' = [active EXCEPT ![t] = rest]
           ELSE /\ rows' = Shown(Oldest(rest), c, IF outcome = "success" THEN "success" ELSE "failed")
                /\ active' = [active EXCEPT ![t] = Others(rest)]
        /\ Boundary(calls[c].by)
        /\ check' = IF t = Check /\ check \in {"none", "running"}
                    THEN (IF outcome = "success" THEN "passed" ELSE "failed") ELSE check
        /\ UNCHANGED <<taken, turn, todos, group, groups, said, mixed, plan, evidence>>

\* The results of the worker's calls are put on record in the order of the message.
WorkerResult(c) ==
    /\ worker = "turn" /\ calls[c].by = "worker"
    /\ \/ Result(c, "success")
       \/ Result(c, "failed")
    /\ UNCHANGED worker
BlockedResult ==
    /\ worker = "blocked" /\ worker' = "turn"
    /\ LET c == SelectLastInSeq(calls, LAMBDA k : k.by = "worker")
       IN  \/ Result(c, "denied")
           \/ Result(c, "guarded")
HelperResult(c) ==
    /\ calls[c].by = "helper"
    /\ \/ Result(c, "success")
       \/ Result(c, "failed")
    /\ UNCHANGED worker

(***************************************************************************)
(* The plan and the list of tasks (WorkStateProjection).                   *)
(***************************************************************************)
\* plan_ready: the steps as the text of the plan has them, ticked off or not.
PlanReady ==
    /\ worker = "answered" /\ plan = NoPlan /\ Len(calls) <= MaxPlanCalls
    /\ \E first \in BOOLEAN :
          /\ evidence' = [Undone EXCEPT ![1] = first]
          /\ plan' = [status |-> "ready", steps |-> evidence']
    /\ UNCHANGED <<worker, taken, turn, todos, group, groups, streams, blocks, check>>

\* profile_switched to carry out the plan, before the turn that does.
ExecutePlan ==
    /\ worker \in {"opened", "finished"} /\ plan.status \in {"ready", "incomplete"}
    /\ turn < MaxTurns /\ plan' = [plan EXCEPT !.status = "executing"]
    /\ UNCHANGED <<worker, taken, turn, todos, group, groups, streams, blocks, evidence, check>>

\* Mutant: a list of any length ticks off the steps it has.
AlignedShort(list) == [i \in 1 .. Steps |-> IF i <= Len(list) THEN list[i] ELSE plan.steps[i]]

\* _align_plan_steps: only a list as long as the plan speaks of its steps.
Aligned(list) == IF Len(list) = Steps THEN list ELSE plan.steps

\* update_todo, whose row is hidden; its boundary ends the segment all the same.
Todo ==
    /\ worker = "turn" /\ todos < MaxTodos /\ todos' = todos + 1
    /\ Boundary("worker")
    /\ IF plan.status # "executing" THEN UNCHANGED <<plan, evidence>>
       ELSE \E n \in 1 .. Steps : \E tasks \in [1 .. n -> BOOLEAN] :
               /\ plan' = [plan EXCEPT !.steps = Aligned(tasks)]
               /\ evidence' = IF n = Steps THEN tasks ELSE evidence
    /\ UNCHANGED <<worker, taken, turn, group, groups, said, blocks, check>>

\* Mutant: the end of a turn is taken for the end of the plan.
FinishedPlanAnyway ==
    IF plan.status = "executing" THEN [plan EXCEPT !.status = "completed"] ELSE plan

FinishedPlan ==
    IF plan.status # "executing" THEN plan
    ELSE [plan EXCEPT !.status = IF \A i \in 1 .. Steps : plan.steps[i] THEN "completed"
                                 ELSE "incomplete"]

(***************************************************************************)
(* The end of a turn and of a task.                                        *)
(***************************************************************************)
\* turn_finished: no row is active any more, of a subagent neither, and the group is closed.
TurnEnds ==
    /\ \/ worker = "answered" /\ worker' = "finished" /\ CloseGroup("success")
       \/ worker = "turn" /\ worker' = "stopped" /\ CloseGroup("cancelled")
       \/ worker = "turn" /\ worker' = "stopped" /\ CloseGroup("error")
    /\ active' = [t \in Tools |-> <<>>]
    /\ calls' = [c \in DOMAIN calls |->
                     IF calls[c].by = "worker" /\ calls[c].at = "open"
                     THEN [calls[c] EXCEPT !.at = "gone"] ELSE calls[c]]
    /\ plan' = FinishedPlan
    /\ UNCHANGED <<taken, turn, todos, said, since, split, rows, mixed, evidence, check>>

TaskEnds ==
    /\ worker = "finished" /\ worker' = "idle"
    /\ UNCHANGED <<taken, turn, todos, group, groups, streams, blocks, work>>

\* A stop or an error before the turn began.
Fails ==
    /\ worker \in {"taken", "opened"} /\ worker' = "stopped"
    /\ UNCHANGED <<taken, turn, todos, group, groups, streams, blocks, work>>

\* _finish_interrupted_assistant: what is open says that it was stopped, or a segment of its own.
Interrupted ==
    /\ worker = "stopped" /\ worker' = "idle"
    /\ LET last == IF segment = 0 THEN Len(segments) + 1 ELSE segment
       IN  segments' = [SegmentsBegun(group) EXCEPT ![last] =
                           [@ EXCEPT !.body = Append(text, 0), !.state = "failed"]]
    /\ segment' = 0 /\ text' = <<>>
    /\ IF group = 0 THEN UNCHANGED <<group, groups>>
       ELSE groups' = [groups EXCEPT ![group] = "failed"] /\ group' = 0
    /\ UNCHANGED <<taken, turn, todos, said, since, split, blocks, work>>

Next ==
    \/ Take \/ Prepare \/ TurnStarts \/ DeltaBegins \/ DeltaEnds \/ Answer
    \/ PlanReady \/ ExecutePlan \/ Todo \/ TurnEnds \/ TaskEnds \/ Fails \/ Interrupted
    \/ BlockedResult
    \/ \E t \in Tools : WorkerCalls(t) \/ HelperCalls(t)
    \/ \E c \in DOMAIN calls : WorkerResult(c) \/ HelperResult(c)

Spec == Init /\ [][Next]_vars

-----------------------------------------------------------------------------
TypeOK ==
    /\ worker \in {"idle", "taken", "opened", "turn", "delta", "blocked", "answered", "finished",
                    "stopped"}
    /\ group \in 0 .. Len(groups) /\ segment \in 0 .. Len(segments)
    /\ \A t \in Tools : \A i \in DOMAIN active[t] : rows[active[t][i]].tool = t
    /\ check \in {"none", "running", "passed", "failed"}
    /\ plan.status \in {"none", "ready", "executing", "incomplete", "completed"}

\* The text that was streamed is shown whole, once and in order when the worker is done, through
\* calls, stops and several turns of a task (_stream_delta, _reset_assistant_segment,
\* _finish_interrupted_assistant) -- unless a subagent's event came between its pieces.
TextIsShownOnce ==
    worker = "idle" /\ ~split =>
        SelectSeq(FlattenSeq([i \in DOMAIN segments |-> segments[i].body]), LAMBDA p : p # 0)
            = [i \in 1 .. said |-> i]

\* While a turn runs it has its group, and nothing but the open group and segment is shown as
\* running (_begin_assistant_group, _close_assistant_group).
GroupsClose ==
    /\ worker \in {"turn", "delta", "blocked", "answered"} => group # 0
    /\ worker = "idle" => group = 0
    /\ \A g \in DOMAIN groups : groups[g] = "running" <=> g = group
    /\ \A i \in DOMAIN segments : segments[i].state = "running" => i = segment

\* A result is shown in one row, that of its call when only one call of the tool was open at a
\* time (_apply_tool_result), and a check runs only as long as a call of it may.
ResultsAreTheirs ==
    /\ \A r \in DOMAIN rows :
          rows[r].result # 0 /\ rows[r].call # 0 /\ rows[r].tool \notin mixed
              => rows[r].result = rows[r].call
    /\ \A r, s \in DOMAIN rows : rows[r].result # 0 /\ rows[r].result = rows[s].result => r = s
    /\ check = "running" => \E c \in DOMAIN calls : calls[c].tool = Check /\ calls[c].at # "over"

\* A plan is complete when a list as long as it said so of each of its steps, never because a turn
\* ended (_align_plan_steps, turn_finished).
PlanIsEarned ==
    /\ plan.steps = evidence
    /\ plan.status = "completed" => \A i \in 1 .. Steps : evidence[i]

=============================================================================
