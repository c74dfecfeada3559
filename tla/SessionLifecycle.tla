-------------------------- MODULE SessionLifecycle --------------------------
(***************************************************************************)
(* The runtime of one session from its construction to its end             *)
(* (core/interactive.py, runtime/lifecycle.py, runtime/task_supervisor.py): *)
(* turns, the tools they leave behind, changes of the runtime between       *)
(* turns, automatic suspension, and close(), whose waits end after a while  *)
(* and which may be called again.                                           *)
(*                                                                          *)
(* The condition of the session is held from the check of a change to its   *)
(* end, and by close() up to the end of the turn, but for its wait.         *)
(***************************************************************************)
EXTENDS Naturals, FiniteSets

CONSTANTS Tool,        \* tool calls a turn may start
          MaxTurns,    \* turns
          MaxTimeouts  \* waits of close() that give up

VARIABLES turn,       \* the turn: none, running, or unwinding after its cancellation
          turns,      \* turns so far
          tools,      \* state of each tool call's future
          closing, closed,
          changer,    \* whether a change of the runtime holds the condition
          closer,     \* where close() is
          suspend,    \* whether this close() is a suspension
          open,       \* resources of the lifecycle scope, by name
          saved,      \* whether suspended.json is on disk
          finished,   \* work of subagents and shells that is over and kept in memory
          timeouts

vars == <<turn, turns, tools, closing, closed, changer, closer, suspend, open, saved, finished,
          timeouts>>

\* The scope's entries and the order each was registered with; the highest is closed first.
Order == [project_resources |-> 100, conversation |-> 40, agent_coordinator |-> 30,
          tool_tasks |-> 20, mcp |-> 10]
Resource == DOMAIN Order

Pending(s) == {t \in Tool : tools[t] \in s}
Running == {"running", "cancelled"}

Init ==
    /\ turn = "none" /\ turns = 0 /\ tools = [t \in Tool |-> "idle"]
    /\ closing = FALSE /\ closed = FALSE /\ changer = FALSE /\ closer = "idle"
    /\ suspend = FALSE /\ open = Resource /\ saved = FALSE /\ finished \in BOOLEAN
    /\ timeouts = 0

ConditionFree == ~changer /\ closer # "waits"

(***************************************************************************)
(* Turns, their tools, and changes between them.                            *)
(***************************************************************************)
\* No tool of an earlier turn may still be at work, whoever started it.
Begin ==
    /\ ConditionFree /\ turns < MaxTurns
    /\ ~closed /\ ~closing /\ turn = "none" /\ Pending(Running) = {}
    /\ turn' = "running" /\ turns' = turns + 1
    /\ UNCHANGED <<tools, closing, closed, changer, closer, suspend, open, saved, finished, timeouts>>

\* The future is tracked, with the token of the turn; a closed supervisor refuses it.
StartTool(t) ==
    /\ turn = "running" /\ tools[t] = "idle"
    /\ tools' = [tools EXCEPT ![t] = IF "tool_tasks" \in open THEN "running" ELSE "done"]
    /\ UNCHANGED <<turn, turns, closing, closed, changer, closer, suspend, open, saved, finished,
                   timeouts>>

\* A tool ends by itself; one that was cancelled sees to it in its own time.
ToolEnds(t) ==
    /\ tools[t] \in Running
    /\ tools' = [tools EXCEPT ![t] = "done"]
    /\ finished' \in {finished, TRUE}
    /\ UNCHANGED <<turn, turns, closing, closed, changer, closer, suspend, open, saved, timeouts>>

\* The turn ends with its tools done, or leaves those behind that a stop did not end.
EndTurn ==
    /\ \/ turn = "running" /\ Pending(Running) = {}
       \/ turn = "cancelled"
    /\ turn' = "none"
    /\ UNCHANGED <<turns, tools, closing, closed, changer, closer, suspend, open, saved, finished,
                   timeouts>>

\* The user stops the turn: its token, and with it those of its calls, are cancelled.
StopTurn ==
    /\ turn = "running"
    /\ turn' = "cancelled"
    /\ tools' = [t \in Tool |-> IF tools[t] = "running" THEN "cancelled" ELSE tools[t]]
    /\ UNCHANGED <<turns, closing, closed, changer, closer, suspend, open, saved, finished, timeouts>>

\* The decorator runtime_change.
ChangeAllowed == ~closed /\ ~closing /\ turn = "none" /\ Pending(Running) = {}

Change ==
    /\ ConditionFree /\ ChangeAllowed
    /\ changer' = TRUE
    /\ UNCHANGED <<turn, turns, tools, closing, closed, closer, suspend, open, saved, finished, timeouts>>

ChangeEnds ==
    /\ changer /\ changer' = FALSE
    /\ UNCHANGED <<turn, turns, tools, closing, closed, closer, suspend, open, saved, finished, timeouts>>

(***************************************************************************)
(* close(), with or without suspend.                                        *)
(***************************************************************************)
SuspendBlocked == turn # "none" \/ Pending(Running) # {}

CloseBeginsAnyway ==
    /\ closer = "idle" /\ ~closed /\ ConditionFree
    /\ suspend' \in BOOLEAN
    /\ closing' = TRUE /\ closer' = "waits"
    /\ UNCHANGED <<turn, tools>>
    /\ UNCHANGED <<turns, closed, changer, open, saved, finished, timeouts>>

\* A refused suspension leaves everything as it was.
CloseBegins ==
    /\ closer = "idle" /\ ~closed /\ ConditionFree
    /\ suspend' \in BOOLEAN
    /\ suspend' => ~SuspendBlocked
    /\ closing' = TRUE /\ closer' = "waits"
    /\ IF turn = "running"
         THEN /\ turn' = "cancelled"
              /\ tools' = [t \in Tool |-> IF tools[t] = "running" THEN "cancelled" ELSE tools[t]]
         ELSE UNCHANGED <<turn, tools>>
    /\ UNCHANGED <<turns, closed, changer, open, saved, finished, timeouts>>

\* The turn is over: what it left behind is cancelled, the subagents are closed.
CloseCancels ==
    /\ closer = "waits" /\ turn = "none"
    /\ tools' = [t \in Tool |-> IF tools[t] = "running" THEN "cancelled" ELSE tools[t]]
    /\ closer' = "drains"
    /\ UNCHANGED <<turn, turns, closing, closed, changer, suspend, open, saved, finished, timeouts>>

\* wait_idle: the tools have ended, and the session is closed for good.
CloseDrainedEarly == closer = "drains"
CloseDrained == closer = "drains" /\ Pending(Running) = {}

CloseFinal ==
    /\ CloseDrained
    /\ closed' = TRUE /\ closer' = "scope"
    /\ UNCHANGED <<turn, turns, tools, closing, changer, suspend, open, saved, finished, timeouts>>

\* A wait gives up: the resources are kept, and the session stays marked as closing.
CloseGivesUp ==
    /\ timeouts < MaxTimeouts
    /\ \/ closer = "waits" /\ turn # "none"
       \/ closer = "drains" /\ Pending(Running) # {}
    /\ timeouts' = timeouts + 1
    /\ closer' = "idle"
    /\ UNCHANGED <<turn, turns, tools, closing, closed, changer, suspend, open, saved, finished>>

\* LifecycleScope.close: one entry after the other, whatever an entry raises.
CloseEntry ==
    /\ closer = "scope" /\ open # {}
    /\ \E r \in open :
          /\ \A other \in open : Order[other] <= Order[r]
          /\ open' = open \ {r}
    /\ UNCHANGED <<turn, turns, tools, closing, closed, changer, closer, suspend, saved, finished,
                   timeouts>>

\* A suspension saves what is over; any other end removes what a suspension saved.
CloseSaves ==
    /\ closer = "scope" /\ open = {}
    /\ closer' = "done"
    /\ saved' = suspend /\ finished' = (suspend /\ finished)
    /\ UNCHANGED <<turn, turns, tools, closing, closed, changer, suspend, open, timeouts>>

\* The session is built again from what is on disk: jobs and agents, then the file is removed.
Rebuild ==
    /\ closer = "done" /\ suspend
    /\ turn' = "none" /\ tools' = [t \in Tool |-> "idle"]
    /\ closing' = FALSE /\ closed' = FALSE /\ closer' = "idle" /\ suspend' = FALSE
    /\ open' = Resource /\ saved' = FALSE /\ finished' = (saved /\ finished)
    /\ UNCHANGED <<turns, changer, timeouts>>

CloseSteps == CloseCancels \/ CloseFinal \/ CloseEntry \/ CloseSaves

Next ==
    \/ Begin \/ EndTurn \/ StopTurn \/ Change \/ ChangeEnds
    \/ \E t \in Tool : StartTool(t) \/ ToolEnds(t)
    \/ CloseBegins \/ CloseCancels \/ CloseFinal \/ CloseGivesUp \/ CloseEntry \/ CloseSaves
    \/ Rebuild

\* A turn that was stopped ends, a tool ends once it is cancelled, and close() goes on.
Fairness ==
    /\ WF_vars(CloseSteps) /\ WF_vars(ChangeEnds)
    /\ WF_vars(turn = "cancelled" /\ EndTurn)
    /\ \A t \in Tool : WF_vars(tools[t] = "cancelled" /\ ToolEnds(t))

Spec == Init /\ [][Next]_vars /\ Fairness

(***************************************************************************)
(* What must hold.                                                          *)
(***************************************************************************)
TypeOK ==
    /\ turn \in {"none", "running", "cancelled"} /\ turns \in 0 .. MaxTurns
    /\ tools \in [Tool -> {"idle", "running", "cancelled", "done"}]
    /\ closer \in {"idle", "waits", "drains", "scope", "done"}
    /\ {closing, closed, changer, suspend, saved, finished} \subseteq BOOLEAN
    /\ open \subseteq Resource /\ timeouts \in 0 .. MaxTimeouts
    /\ closed => closing

\* No resource of the session is taken from under a turn, or from under a tool that outlived its
\* turn ("资源未释放"; InteractiveSession.close).
ResourcesOutliveWork ==
    closed \/ open # Resource => turn = "none" /\ Pending(Running) = {}

\* While the runtime is being changed nothing runs in it, and nothing begins (runtime_change).
ChangesAlone == changer => turn = "none" /\ Pending(Running) = {} /\ ~closed

\* close() comes back: it has closed the session, or given up and left it to be called again.
ClosingReturns == closer = "waits" ~> closer \in {"idle", "done"}

=============================================================================
