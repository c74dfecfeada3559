--------------------------- MODULE SessionBridge ---------------------------
(***************************************************************************)
(* The bridge of one session (tui_bridge.py): the loop over stdin, the     *)
(* worker thread that runs queued tasks one by one, the thread that builds *)
(* the session, the maintenance thread that suspends an idle session, a    *)
(* control thread that queues the application of a worktree, and the       *)
(* thread that closes the bridge.                                          *)
(*                                                                         *)
(* The locks are modelled where one is held while another is asked for;    *)
(* a section under one lock that waits for nothing is one step.  A task is *)
(* a record: "turn" a prepared prompt, "request" a request handed over     *)
(* because the session slept, "external" a prompt that needs an approval   *)
(* first, "rewind" and "apply" the two operations on the session.          *)
(***************************************************************************)
EXTENDS Naturals, Sequences

CONSTANTS MaxRequests,     \* requests of the frontend
          MaxSessions,     \* constructions of the session
          MaxCloses,       \* calls of close(), which may be repeated after a failure
          Controls         \* whether a control thread queues tasks as well

ASSUME BridgeBounds ==
    /\ MaxRequests \in Nat /\ MaxSessions \in Nat /\ MaxCloses \in Nat
    /\ Controls \in BOOLEAN

Thread == {"stdin", "worker", "control", "maintain", "close"}
Method == {"submit", "external", "rewind", "toggle"}
Kind == {"turn", "request", "external", "rewind", "apply"}
NoTask == [kind |-> "none", method |-> "none", of |-> 0]
\* of is the generation of the session a task holds on to, 0 when it asks for one.
Task == [kind : Kind, method : Method \cup {"none"}, of : 0 .. 2 * MaxSessions + MaxCloses]

VARIABLES
    pc,              \* where each thread is
    method,          \* the request the loop over stdin is serving
    sent,            \* number of requests so far
    tasks,           \* _tasks, a queue.Queue
    unfinished,      \* its unfinished_tasks
    task,            \* what the worker has taken
    workerLock,      \* owner of _worker_lock, "free" when nobody holds it
    activeLock,      \* owner of _active_lock
    active,          \* _active_token: "none", "live" or "cancelled"
    seen,            \* the token a cancel has read: "none", "active", or "past" once its turn is over
    stopping,        \* _stopping
    rewindPending,   \* _rewind_pending
    session,         \* _session: "none", "warm" or "shut" (closed, still referenced)
    generation,      \* _session_generation
    builder,         \* the construction thread: "none", "building", "built", "installed"
    built,           \* the generation it builds
    builds,          \* number of constructions so far
    tools,           \* whether a foreground tool of the session still runs
    users,           \* _runtime_users
    suspending,      \* not _not_suspending.is_set()
    closing,         \* _closing
    closes,          \* number of calls of close()
    dropped          \* history: a rewind was given up between its taking and its beginning

locks == <<workerLock, activeLock>>
queue == <<tasks, unfinished>>
turns == <<task, active, stopping, rewindPending>>
runtime == <<session, generation, builder, built, builds, users, suspending>>
ending == <<closing, closes, dropped>>
vars == <<pc, method, sent, seen, locks, queue, turns, runtime, tools, ending>>

Go(t, label) == pc' = [pc EXCEPT ![t] = label]

Init ==
    /\ pc = [t \in Thread |-> IF t = "worker" THEN "none" ELSE "idle"]
    /\ method = "none" /\ sent = 0 /\ seen = "none"
    /\ tasks = <<>> /\ unfinished = 0 /\ task = NoTask
    /\ workerLock = "free" /\ activeLock = "free"
    /\ active = "none" /\ stopping = FALSE /\ rewindPending = FALSE
    /\ session = "none" /\ generation = 0 /\ builder = "none" /\ built = 0 /\ builds = 0
    /\ users = 0 /\ tools = FALSE /\ suspending = FALSE /\ closing = FALSE /\ closes = 0
    /\ dropped = FALSE

\* Whether the construction thread lives.
Constructing == builder # "none"

\* Mutant: the users of the runtime are not asked.
QuietDespiteUsers == unfinished = 0 /\ ~tools /\ ~Constructing
\* resource_state(): nothing is queued, running, in use or being built.  Jobs,
\* agents and budgets in use keep a session warm as well: Suspend need not be taken.
Quiet == unfinished = 0 /\ users = 0 /\ ~tools /\ ~Constructing

\* _runtime_lock is held across steps only by a thread that is about to start
\* the construction.
RuntimeFree == \A t \in Thread : pc[t] # "start"

\* Mutant: no worker is started before there is a session.
StartsWithSession == pc["worker"] = "none" /\ session # "none"

(***************************************************************************)
(* _enqueue_task(): under _worker_lock, refused while closing, starts a    *)
(* worker when there is none.  Both are stated for thread t going on at    *)
(* next.                                                                   *)
(***************************************************************************)
StartsWorker == pc["worker"] = "none"

Enqueue(t, new, next) ==
    /\ workerLock = "free" /\ ~closing
    /\ tasks' = Append(tasks, new) /\ unfinished' = unfinished + 1
    /\ pc' = [pc EXCEPT ![t] = next, !["worker"] = IF StartsWorker THEN "head" ELSE @]

EnqueueRefused(t, next) ==
    /\ workerLock = "free" /\ closing
    /\ Go(t, next) /\ UNCHANGED queue

(***************************************************************************)
(* The loop over stdin: one request at a time.  _handle_request() reserves *)
(* the session, or hands the request to the worker when the session is     *)
(* absent, being built or being suspended.                                 *)
(***************************************************************************)
Receive ==
    /\ pc["stdin"] = "idle" /\ pc["close"] = "idle" /\ sent < MaxRequests
    /\ \E m \in Method \cup {"cancel"} :
          /\ method' = m
          /\ Go("stdin", IF m = "cancel" THEN "cancel" ELSE "use")
    /\ sent' = sent + 1
    /\ UNCHANGED <<seen, locks, queue, turns, runtime, tools, ending>>

Usable == session # "none" /\ ~Constructing /\ ~suspending

Reserve ==
    /\ pc["stdin"] = "use" /\ RuntimeFree
    /\ \/ closing /\ Go("stdin", "idle") /\ UNCHANGED users
       \/ ~closing /\ Usable /\ users' = users + 1 /\ Go("stdin", "check")
       \/ ~closing /\ ~Usable /\ Go("stdin", "hand_over") /\ UNCHANGED users
    /\ UNCHANGED <<method, sent, seen, locks, queue, turns, session, generation, builder, built,
                   builds, suspending, tools, ending>>

HandOver ==
    /\ pc["stdin"] = "hand_over"
    /\ \/ Enqueue("stdin", [kind |-> "request", method |-> method, of |-> 0], "idle")
       \/ EnqueueRefused("stdin", "idle")
    /\ UNCHANGED <<method, sent, seen, locks, turns, runtime, tools, ending>>

\* _dispatch_request(): a prompt is refused while a rewind is pending or a turn
\* stops; a rewind is refused, under _active_lock, while anything else is on.
SubmitCheck ==
    /\ pc["stdin"] = "check" /\ method \in {"submit", "external"}
    /\ Go("stdin", IF rewindPending \/ stopping THEN "leave" ELSE "put")
    /\ UNCHANGED <<method, sent, seen, locks, queue, turns, runtime, tools, ending>>

TurnTask == [kind |-> "turn", method |-> "none", of |-> 0]
Holding(kind) == [kind |-> kind, method |-> "none", of |-> generation]

SubmitPut ==
    /\ pc["stdin"] = "put" /\ method \in {"submit", "external"}
    /\ \/ Enqueue("stdin", IF method = "submit" THEN TurnTask ELSE Holding("external"), "leave")
       \/ EnqueueRefused("stdin", "leave")
    /\ UNCHANGED <<method, sent, seen, locks, turns, runtime, tools, ending>>

\* _queue_rewind(), own when the worker itself serves the request.
RewindBlocked(own) ==
    \/ active # "none" /\ ~own
    \/ rewindPending \/ stopping
    \/ unfinished > IF own THEN 1 ELSE 0

RewindCheck(t, own, next) ==
    /\ activeLock = "free"
    /\ IF tools \/ RewindBlocked(own)
         THEN Go(t, next) /\ UNCHANGED <<activeLock, rewindPending>>
         ELSE /\ activeLock' = t /\ rewindPending' = TRUE
              /\ Go(t, "put")
    /\ UNCHANGED <<method, sent, seen, workerLock, queue, task, active, stopping, runtime, tools, ending>>

RewindPut(t, next) ==
    /\ activeLock = t
    /\ Enqueue(t, Holding("rewind"), next) \/ EnqueueRefused(t, next)
    /\ activeLock' = "free"
    /\ UNCHANGED <<method, sent, seen, workerLock, turns, runtime, tools, ending>>

StdinRewind ==
    \/ pc["stdin"] = "check" /\ method = "rewind" /\ RewindCheck("stdin", FALSE, "leave")
    \/ pc["stdin"] = "put" /\ method = "rewind" /\ RewindPut("stdin", "leave")

\* A change of the runtime: refused while a task runs, otherwise made under the
\* lock of the session that a rewind keeps while it asks the user.
Toggle ==
    /\ method = "toggle"
    /\ \/ /\ pc["stdin"] = "check" /\ activeLock = "free"
          /\ Go("stdin", IF active # "none" \/ tools THEN "leave" ELSE "toggle")
       \/ pc["stdin"] = "toggle" /\ pc["worker"] # "confirm" /\ Go("stdin", "leave")
    /\ UNCHANGED <<method, sent, seen, locks, queue, turns, runtime, tools, ending>>

\* Leaves _runtime_use().
Leave ==
    /\ pc["stdin"] = "leave" /\ RuntimeFree
    /\ users' = users - 1 /\ Go("stdin", "idle")
    /\ UNCHANGED <<method, sent, seen, locks, queue, turns, session, generation, builder, built,
                   builds, suspending, tools, ending>>

\* Mutant: a cancel copies what it reads of the token.
CancelCopies ==
    /\ pc["stdin"] = "cancel" /\ activeLock = "free"
    /\ seen' = active /\ Go("stdin", "stop")
    /\ UNCHANGED <<method, sent, locks, queue, turns, runtime, tools, ending>>

\* "cancel": reads the token, sets _stopping and cancels the token it read,
\* then clears _stopping if there was none.
CancelRead ==
    /\ pc["stdin"] = "cancel" /\ activeLock = "free"
    /\ seen' = IF active = "none" THEN "none" ELSE "active"
    /\ Go("stdin", "stop")
    /\ UNCHANGED <<method, sent, locks, queue, turns, runtime, tools, ending>>

CancelSet ==
    /\ pc["stdin"] = "stop"
    /\ stopping' = TRUE
    /\ active' = IF seen = "active" THEN "cancelled" ELSE active
    /\ Go("stdin", "stopped")
    /\ UNCHANGED <<method, sent, seen, locks, queue, task, rewindPending, runtime, tools, ending>>

CancelEnd ==
    /\ pc["stdin"] = "stopped"
    /\ stopping' = (stopping /\ seen # "none")
    /\ Go("stdin", "idle") /\ seen' = "none"
    /\ UNCHANGED <<method, sent, locks, queue, task, active, rewindPending, runtime, tools, ending>>

StdinServes ==
    \/ Reserve \/ HandOver \/ SubmitCheck \/ SubmitPut \/ StdinRewind \/ Toggle \/ Leave
    \/ CancelRead \/ CancelSet \/ CancelEnd

(***************************************************************************)
(* _require_session() for the worker and the control thread: waits while a *)
(* suspension is under way, starts the construction if there is neither a  *)
(* session nor a thread that builds one, and waits for that thread.  The   *)
(* worker gives up when its token is cancelled, both when the bridge       *)
(* closes; fail is where they go on then.                                  *)
(***************************************************************************)
GivesUp(t) == closing \/ (t = "worker" /\ active = "cancelled")

Fails(t) == IF t = "worker" /\ task.kind # "request" THEN "end" ELSE "unuse"

Need(t) ==
    /\ pc[t] = "need" /\ RuntimeFree
    /\ \/ GivesUp(t) /\ Go(t, Fails(t))
       \/ ~GivesUp(t) /\ ~suspending
            /\ Go(t, IF Constructing THEN "join" ELSE IF session = "none" THEN "start" ELSE "ready")
    /\ UNCHANGED <<method, sent, seen, locks, queue, turns, runtime, tools, ending>>

Start(t) ==
    /\ pc[t] = "start"
    /\ generation' = generation + 1 /\ builds' = builds + 1
    /\ builder' = "building" /\ built' = generation'
    /\ Go(t, "join")
    /\ UNCHANGED <<method, sent, seen, locks, queue, turns, session, users, suspending, tools, ending>>

\* The wait for the thread also ends after 30 s.
Join(t) ==
    /\ pc[t] = "join" /\ RuntimeFree
    /\ Go(t, IF GivesUp(t) \/ Constructing \/ session = "none" THEN Fails(t) ELSE "ready")
    /\ UNCHANGED <<method, sent, seen, locks, queue, turns, runtime, tools, ending>>

Use(t) ==
    /\ RuntimeFree
    /\ IF closing THEN Go(t, IF t = "worker" THEN "end" ELSE "idle") /\ UNCHANGED users
                  ELSE Go(t, "need") /\ users' = users + 1
    /\ UNCHANGED <<method, sent, seen, locks, queue, turns, session, generation, builder, built,
                   builds, suspending, tools, ending>>

Unuse(t, next) ==
    /\ pc[t] = "unuse" /\ RuntimeFree
    /\ users' = users - 1 /\ Go(t, next)
    /\ UNCHANGED <<method, sent, seen, locks, queue, turns, session, generation, builder, built,
                   builds, suspending, tools, ending>>

(***************************************************************************)
(* _worker_loop().                                                         *)
(***************************************************************************)
Loop ==
    /\ pc["worker"] = "head"
    /\ Go("worker", IF closing THEN "none" ELSE "take")
    /\ UNCHANGED <<method, sent, seen, locks, queue, turns, runtime, tools, ending>>

\* Under _worker_lock; with a task in hand the lock is kept while _active_lock
\* is asked for.
Take ==
    /\ pc["worker"] = "take" /\ workerLock = "free"
    /\ IF tasks = <<>>
         THEN Go("worker", "none") /\ UNCHANGED <<tasks, task, workerLock>>
         ELSE /\ task' = Head(tasks) /\ tasks' = Tail(tasks)
              /\ workerLock' = "worker" /\ Go("worker", "token")
    /\ UNCHANGED <<method, sent, seen, activeLock, unfinished, active, stopping, rewindPending,
                   runtime, tools, ending>>

MakeToken ==
    /\ pc["worker"] = "token" /\ activeLock = "free"
    /\ active' = "live" /\ workerLock' = "free" /\ Go("worker", "peek")
    /\ UNCHANGED <<method, sent, seen, activeLock, queue, task, stopping, rewindPending, runtime,
                   tools, ending>>

\* Before a task the worker waits for the foreground tools of the session it
\* sees, without asking for the session: if a suspension takes the session away
\* after the first look, or the wait is cancelled, the task is lost.  A rewind that
\* is lost has no finally block to run yet: _rewind_pending stays.
Peek ==
    /\ pc["worker"] = "peek"
    /\ Go("worker", IF session = "none" THEN "serve" ELSE "look")
    /\ UNCHANGED <<method, sent, seen, locks, queue, turns, runtime, tools, ending>>

Look ==
    /\ pc["worker"] = "look"
    /\ \/ session # "none" /\ ~tools /\ Go("worker", "serve") /\ UNCHANGED dropped
       \/ /\ session = "none" \/ (tools /\ active = "cancelled")
          /\ Go("worker", "end")
          /\ dropped' = IF task.kind = "rewind" THEN TRUE ELSE dropped
    /\ UNCHANGED <<method, sent, seen, locks, queue, turns, runtime, tools, closing, closes>>

Serve ==
    /\ pc["worker"] = "serve"
    /\ \/ task.kind = "request" /\ Use("worker")
       \/ /\ \/ task.kind \in {"turn", "apply"} /\ Go("worker", "need")
             \/ task.kind = "external" /\ Go("worker", IF task.of = generation THEN "ask" ELSE "end")
             \/ task.kind = "rewind" /\ Go("worker", "rewind")
          /\ UNCHANGED <<method, sent, seen, locks, queue, turns, runtime, tools, ending>>

\* A request that was handed over is dispatched here: a prompt becomes the turn
\* of this very task.
Dispatch ==
    /\ pc["worker"] = "ready" /\ task.kind = "request"
    /\ \/ /\ task.method = "submit"
          /\ task' = IF rewindPending \/ stopping THEN task ELSE [task EXCEPT !.method = "none"]
          /\ Go("worker", "unuse")
          /\ UNCHANGED <<queue, rewindPending, locks>>
       \/ /\ task.method = "toggle" /\ Go("worker", "unuse")
          /\ UNCHANGED <<task, queue, rewindPending, locks>>
       \/ /\ task.method = "external"
          /\ \/ (rewindPending \/ stopping) /\ Go("worker", "unuse") /\ UNCHANGED queue
             \/ ~rewindPending /\ ~stopping /\ Enqueue("worker", Holding("external"), "unuse")
             \/ ~rewindPending /\ ~stopping /\ EnqueueRefused("worker", "unuse")
          /\ UNCHANGED <<task, rewindPending, locks>>
    /\ UNCHANGED <<method, sent, seen, active, stopping, runtime, tools, ending>>

OwnRewind ==
    /\ task.kind = "request" /\ task.method = "rewind"
    /\ \/ pc["worker"] = "ready" /\ RewindCheck("worker", TRUE, "unuse")
       \/ pc["worker"] = "put" /\ RewindPut("worker", "unuse")

WorkerUnuse ==
    Unuse("worker", IF task.kind = "request" /\ task.method = "none" THEN "need_again" ELSE "end")

\* The prepared prompt of a request asks for the session once more.
PromptOfRequest ==
    /\ pc["worker"] = "need_again"
    /\ task' = TurnTask /\ Go("worker", "need")
    /\ UNCHANGED <<method, sent, seen, locks, queue, active, stopping, rewindPending, runtime,
                   tools, ending>>

\* A turn, or the application of a worktree: refused by a session that is closed.
Begin ==
    /\ pc["worker"] = "ready" /\ task.kind \in {"turn", "apply"}
    /\ Go("worker", IF session = "shut" \/ tools \/ active = "cancelled" THEN "end" ELSE "turn")
    /\ UNCHANGED <<method, sent, seen, locks, queue, turns, runtime, tools, ending>>

\* The turn comes to its end, which may take for ever; the command to exit sets
\* _closing.
TurnEnds ==
    /\ pc["worker"] = "turn" /\ Go("worker", "end")
    /\ \/ UNCHANGED closing
       \/ task.kind = "turn" /\ closing' = TRUE
    /\ UNCHANGED <<method, sent, seen, locks, queue, turns, runtime, tools, closes, dropped>>

\* Mutant: the wait for an approval does not look at the token.
CancelledTurnOnly ==
    /\ pc["worker"] = "turn" /\ active = "cancelled" /\ Go("worker", "end")
    /\ tools' \in BOOLEAN
    /\ UNCHANGED <<method, sent, seen, locks, queue, turns, runtime, ending>>

\* Every wait of a turn and of an approval looks at the token.  A turn leaves
\* behind the tools that do not.
Cancelled ==
    /\ pc["worker"] \in {"turn", "ask"} /\ active = "cancelled" /\ Go("worker", "end")
    /\ tools' \in {FALSE, pc["worker"] = "turn"}
    /\ UNCHANGED <<method, sent, seen, locks, queue, turns, runtime, ending>>

ToolEnds ==
    /\ tools /\ tools' = FALSE
    /\ UNCHANGED <<pc, method, sent, seen, locks, queue, turns, runtime, ending>>

\* The prompt with files from outside is approved and queued again, or denied.
Answered ==
    /\ pc["worker"] = "ask"
    /\ \/ Enqueue("worker", TurnTask, "end")
       \/ EnqueueRefused("worker", "end")
       \/ Go("worker", "end") /\ UNCHANGED queue
    /\ UNCHANGED <<method, sent, seen, locks, turns, runtime, tools, ending>>

\* rewind_to_point(): asks the user, under the lock of the session, and rewinds
\* or does not.  The answer reaches it through the loop over stdin.
AskRewind ==
    /\ pc["worker"] = "rewind"
    /\ Go("worker", "confirm")
    /\ UNCHANGED <<method, sent, seen, locks, queue, turns, runtime, tools, ending>>

Rewind ==
    /\ pc["worker"] = "confirm"
    /\ pc["stdin"] = "idle" \/ active = "cancelled"
    /\ rewindPending' = FALSE /\ Go("worker", "end")
    /\ UNCHANGED <<method, sent, seen, locks, queue, task, active, stopping, runtime, tools, ending>>

DropToken ==
    /\ pc["worker"] = "end" /\ activeLock = "free"
    /\ active' = "none" /\ seen' = IF seen = "active" THEN "past" ELSE seen
    /\ Go("worker", "done")
    /\ UNCHANGED <<method, sent, locks, queue, task, stopping, rewindPending, runtime, tools, ending>>

Done ==
    /\ pc["worker"] = "done"
    /\ stopping' = FALSE /\ unfinished' = unfinished - 1 /\ task' = NoTask
    /\ Go("worker", "head")
    /\ UNCHANGED <<method, sent, seen, locks, tasks, active, rewindPending, runtime, tools, ending>>

\* What the worker does without anyone else's doing.
WorkerSteps ==
    \/ Loop \/ Take \/ MakeToken \/ Peek \/ Look \/ Serve \/ Dispatch \/ OwnRewind
    \/ WorkerUnuse \/ PromptOfRequest \/ Begin \/ Cancelled \/ AskRewind \/ Rewind \/ DropToken \/ Done
    \/ Need("worker") \/ Start("worker") \/ Join("worker")

(***************************************************************************)
(* The construction thread: a session that was built for an earlier        *)
(* generation, or for a bridge that closes, is closed again.               *)
(***************************************************************************)
Stale == built # generation \/ closing

Build ==
    /\ builder = "building"
    /\ \/ builder' = "built"
       \/ builds < MaxSessions /\ builder' = "none"
    /\ UNCHANGED <<pc, method, sent, seen, locks, queue, turns, session, generation, built, builds,
                   users, suspending, tools, ending>>

Install ==
    /\ builder = "built"
    /\ session' = IF Stale THEN session ELSE "warm"
    /\ builder' = "installed"
    /\ UNCHANGED <<pc, method, sent, seen, locks, queue, turns, generation, built, builds, users,
                   suspending, tools, ending>>

BuilderEnds ==
    /\ builder = "installed" /\ builder' = "none"
    /\ UNCHANGED <<pc, method, sent, seen, locks, queue, turns, session, generation, built, builds,
                   users, suspending, tools, ending>>

BuilderSteps == Build \/ Install \/ BuilderEnds

(***************************************************************************)
(* suspend_if_idle(), called by the maintenance thread until the workbench *)
(* closes.  The session refuses while a turn runs in it.                   *)
(***************************************************************************)
Suspend ==
    /\ pc["maintain"] = "idle" /\ RuntimeFree /\ closes = 0 /\ builds < MaxSessions
    /\ session = "warm" /\ Quiet
    /\ suspending' = TRUE /\ Go("maintain", "close")
    /\ UNCHANGED <<method, sent, seen, locks, queue, turns, session, generation, builder, built,
                   builds, users, tools, ending>>

SuspendCloses ==
    /\ pc["maintain"] = "close" /\ pc["worker"] \notin {"turn", "confirm"}
    /\ session' = "shut" /\ Go("maintain", "drop")
    /\ UNCHANGED <<method, sent, seen, locks, queue, turns, generation, builder, built, builds,
                   users, suspending, tools, ending>>

SuspendRefused ==
    /\ pc["maintain"] = "close"
    /\ suspending' = FALSE /\ Go("maintain", "idle")
    /\ UNCHANGED <<method, sent, seen, locks, queue, turns, session, generation, builder, built,
                   builds, users, tools, ending>>

DropSession ==
    /\ pc["maintain"] = "drop" /\ RuntimeFree
    /\ generation' = generation + 1 /\ session' = "none"
    /\ suspending' = FALSE /\ Go("maintain", "idle")
    /\ UNCHANGED <<method, sent, seen, locks, queue, turns, builder, built, builds, users, tools, ending>>

SuspensionSteps == SuspendCloses \/ SuspendRefused \/ DropSession

(***************************************************************************)
(* A control thread (BridgeServer._start_control): queues the application  *)
(* of a worktree, or uses the session itself for a panel.                  *)
(***************************************************************************)
ControlBegins ==
    /\ Controls /\ pc["control"] = "idle" /\ pc["close"] = "idle" /\ sent < MaxRequests
    /\ sent' = sent + 1
    /\ \E next \in {"apply", "use"} : Go("control", next)
    /\ UNCHANGED <<method, seen, locks, queue, turns, runtime, tools, ending>>

ControlSteps ==
    \/ /\ pc["control"] = "apply"
       /\ \/ Enqueue("control", [kind |-> "apply", method |-> "none", of |-> 0], "idle")
          \/ EnqueueRefused("control", "idle")
       /\ UNCHANGED <<method, sent, seen, locks, turns, runtime, tools, ending>>
    \/ pc["control"] = "use" /\ Use("control")
    \/ Need("control") \/ Start("control") \/ Join("control")
    \/ /\ pc["control"] = "ready" /\ Go("control", "unuse")
       /\ UNCHANGED <<method, sent, seen, locks, queue, turns, runtime, tools, ending>>
    \/ Unuse("control", "idle")

(***************************************************************************)
(* close(): the waits for the construction, for the turn and for the       *)
(* worker are bounded, and one that runs out leaves the rest for a second  *)
(* call.                                                                   *)
(***************************************************************************)
CloseBegins ==
    /\ pc["close"] = "idle" /\ pc["stdin"] = "idle" /\ pc["maintain"] = "idle"
    /\ closes < MaxCloses
    /\ closes' = closes + 1 /\ closing' = TRUE
    /\ generation' = generation + 1
    /\ Go("close", "cancel")
    /\ UNCHANGED <<method, sent, seen, locks, queue, turns, session, builder, built, builds, users,
                   suspending, tools, dropped>>

CloseCancels ==
    /\ pc["close"] = "cancel" /\ activeLock = "free"
    /\ active' = IF active = "live" THEN "cancelled" ELSE active
    /\ Go("close", "discard")
    /\ UNCHANGED <<method, sent, seen, locks, queue, task, stopping, rewindPending, runtime, tools, ending>>

\* _discard_queued_tasks(), one task at a time.
CloseDiscards ==
    /\ pc["close"] = "discard"
    /\ IF tasks = <<>>
         THEN Go("close", "join_builder") /\ UNCHANGED <<queue, rewindPending>>
         ELSE /\ tasks' = Tail(tasks) /\ unfinished' = unfinished - 1
              /\ rewindPending' = IF Head(tasks).kind = "turn" THEN rewindPending ELSE FALSE
              /\ UNCHANGED pc
    /\ UNCHANGED <<method, sent, seen, locks, task, active, stopping, runtime, tools, ending>>

CloseJoinsBuilder ==
    /\ pc["close"] = "join_builder"
    /\ Go("close", IF Constructing THEN "idle" ELSE "close_session")
    /\ UNCHANGED <<method, sent, seen, locks, queue, turns, runtime, tools, ending>>

\* session.close() cancels the turn and waits for its end.
CloseStopsTurn ==
    /\ pc["close"] = "close_session" /\ pc["worker"] # "confirm"
    /\ active' = IF pc["worker"] = "turn" /\ session = "warm" THEN "cancelled" ELSE active
    /\ Go("close", "await_turn")
    /\ UNCHANGED <<method, sent, seen, locks, queue, task, stopping, rewindPending, runtime, tools, ending>>

CloseShuts ==
    /\ pc["close"] = "await_turn"
    /\ \/ pc["worker"] # "turn" /\ Go("close", "join_worker")
          /\ session' = IF session = "warm" THEN "shut" ELSE session
       \/ (pc["worker"] = "turn" \/ tools) /\ Go("close", "idle") /\ UNCHANGED session
    /\ UNCHANGED <<method, sent, seen, locks, queue, turns, generation, builder, built, builds,
                   users, suspending, tools, ending>>

CloseJoinsWorker ==
    /\ pc["close"] = "join_worker"
    /\ Go("close", IF pc["worker"] = "none" THEN "done" ELSE "idle")
    /\ UNCHANGED <<method, sent, seen, locks, queue, turns, runtime, tools, ending>>

CloseSteps ==
    \/ CloseCancels \/ CloseDiscards \/ CloseJoinsBuilder \/ CloseStopsTurn \/ CloseShuts
    \/ CloseJoinsWorker

Next ==
    \/ Receive \/ StdinServes
    \/ WorkerSteps \/ TurnEnds \/ Answered \/ ToolEnds
    \/ BuilderSteps
    \/ Suspend \/ SuspensionSteps
    \/ ControlBegins \/ ControlSteps
    \/ CloseBegins \/ CloseSteps

Spec == Init /\ [][Next]_vars

\* Each thread goes on while it can.  Nothing makes the frontend send a request,
\* a turn come to its end or the user answer.
Fairness ==
    /\ WF_vars(StdinServes) /\ WF_vars(WorkerSteps) /\ WF_vars(BuilderSteps)
    /\ WF_vars(SuspensionSteps) /\ WF_vars(ControlSteps) /\ WF_vars(CloseSteps)

FairSpec == Spec /\ Fairness

----------------------------------------------------------------------------
TypeOK ==
    /\ pc \in [Thread -> STRING]
    /\ method \in Method \cup {"none", "cancel"} /\ sent \in 0 .. MaxRequests
    /\ tasks \in Seq(Task) /\ unfinished \in Nat /\ task \in Task \cup {NoTask}
    /\ workerLock \in {"free", "worker"} /\ activeLock \in {"free", "stdin", "worker"}
    /\ active \in {"none", "live", "cancelled"} /\ seen \in {"none", "active", "past"}
    /\ stopping \in BOOLEAN /\ rewindPending \in BOOLEAN
    /\ session \in {"none", "warm", "shut"} /\ generation \in Nat /\ built \in 0 .. generation
    /\ builder \in {"none", "building", "built", "installed"}
    /\ builds \in 0 .. MaxSessions /\ users \in 0 .. 3
    /\ tools \in BOOLEAN /\ suspending \in BOOLEAN /\ closing \in BOOLEAN /\ closes \in 0 .. MaxCloses
    /\ dropped \in BOOLEAN

\* A session is suspended only while nobody is inside it: not the loop over
\* stdin, not a control thread, and not the worker, apart from its look at the
\* foreground tools before a task.
SuspendAlone ==
    suspending =>
        /\ pc["stdin"] \notin {"check", "put", "toggle"}
        /\ pc["control"] # "ready"
        /\ pc["worker"] \notin {"ready", "put", "turn", "ask", "rewind", "confirm"}

\* Whatever is in the queue has a worker that will come to it.
WorkerPresent ==
    tasks # <<>> /\ ~closing => pc["worker"] # "none"

\* A task that holds on to a session runs on the session of the bridge: the
\* session was not replaced while the task waited.
CapturedIsCurrent ==
    pc["worker"] \in {"serve", "ask", "rewind", "confirm"} /\ task.of # 0 /\ ~closing =>
        task.of = generation /\ session = "warm"

\* Prompts are refused because of a rewind only while that rewind is being
\* queued, waits in the queue or runs; unless the worker gave the rewind up while
\* it waited for the foreground tools of a stopped turn.
RewindPendingHonest ==
    rewindPending /\ ~closing /\ ~dropped =>
        \/ \E t \in {"stdin", "worker"} : activeLock = t
        \/ task.kind = "rewind"
        \/ \E i \in 1 .. Len(tasks) : tasks[i].kind = "rewind"

\* A closed bridge stays closed: no worker, and no session that a construction
\* which was under way has put in place afterwards.
ClosedForGood ==
    pc["close"] = "done" => session # "warm" /\ pc["worker"] = "none"

\* What the user stops comes to its end.
StopWorks == active = "cancelled" ~> active = "none"

\* The loop over stdin comes back from every request, so that answers to what
\* the session asks can reach it.
StdinReturns == pc["stdin"] # "idle" ~> pc["stdin"] = "idle"

=============================================================================
