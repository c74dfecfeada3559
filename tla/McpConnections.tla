---------------------------- MODULE McpConnections ----------------------------
(***************************************************************************)
(* One MCP server of a session (runtime/mcp.py): its connection, owned by a *)
(* worker task, and the tools it published, used by tool calls of the main  *)
(* agent and of a subagent and changed by commands of the user, which run   *)
(* when no turn does; and the tool registry of the session, built from what *)
(* is published (core/interactive.py).  A worker is known by its number, a  *)
(* list of tools by the number of the worker that published it; 0 is none.  *)
(***************************************************************************)
EXTENDS Naturals, FiniteSets

CONSTANTS MaxWorkers,    \* bound: workers started
          MaxChanges     \* bound: revisions after which the user gives no more commands

VARIABLES at,          \* what each thread does
          lock,        \* owner of _connect_lock
          tasks,       \* connects on the event loop: <<thread, worker, given up>>
          started, live,   \* workers started so far; those that run
          conn,        \* _connections
          bound, cached, catalogOnly,  \* tool_bindings, _schema_cache, _catalog_only
          revision,    \* connection_revision
          calling,     \* worker each thread's call was sent to
          probe, old,  \* worker register_server holds; worker that is being closed
          closed,      \* _closed
          registry, recorded   \* tools in the session's registry, revision it was built from

vars == <<at, lock, tasks, started, live, conn, bound, cached, catalogOnly, revision, calling, probe,
          old, closed, registry, recorded>>

catalog == <<bound, cached, catalogOnly, revision>>
session == <<registry, recorded>>

Thread == {"main", "sub", "user"}

Init ==
    /\ at = [t \in Thread |-> "idle"] /\ lock = "none" /\ tasks = {}
    /\ started = 0 /\ live = {} /\ conn = 0 /\ bound = 0 /\ cached = 0 /\ catalogOnly = FALSE
    /\ revision = 0 /\ calling = [t \in Thread |-> 0] /\ probe = 0 /\ old = 0 /\ closed = FALSE
    /\ registry = 0 /\ recorded = 0

Goes(t, place) == at' = [at EXCEPT ![t] = place]

(***************************************************************************)
(* The event loop: connects and workers.                                    *)
(***************************************************************************)
\* _connect_one: a slot of the project, and a worker.
Connect(t) ==
    /\ at[t] = "connect" /\ started < MaxWorkers
    /\ started' = started + 1 /\ live' = live \union {started'}
    /\ tasks' = tasks \union {<<t, started', FALSE>>} /\ Goes(t, "connecting")
    /\ UNCHANGED <<lock, conn, catalog, calling, probe, old, closed, session>>

\* _store_connection: the tools of the worker, or the cached ones when they are the same.
Published(w) ==
    /\ conn' = w /\ cached' = w /\ catalogOnly' = FALSE /\ revision' = revision + 1
    /\ bound' \in {w} \union (IF catalogOnly THEN {bound} ELSE {})

\* A connect succeeds: its worker is stored; the probe of register_server is handed over instead.
Connected(task) ==
    /\ task \in tasks /\ task[2] \in live /\ tasks' = tasks \ {task}
    /\ IF task[1] = "user" /\ at["user"] = "probing"
         THEN probe' = task[2] /\ Goes("user", "save") /\ UNCHANGED <<conn, catalog>>
         ELSE /\ Published(task[2]) /\ UNCHANGED probe
              /\ IF task[3] THEN UNCHANGED at ELSE Goes(task[1], "leave")
    /\ UNCHANGED <<lock, started, live, calling, old, closed, session>>

\* It fails, times out, or is cancelled by a caller that gave it up: the worker is reaped.
ConnectFails(task) ==
    /\ task \in tasks /\ tasks' = tasks \ {task} /\ live' = live \ {task[2]}
    /\ IF task[3] THEN UNCHANGED at
       ELSE Goes(task[1], IF at[task[1]] = "probing" THEN "save" ELSE "fail")
    /\ UNCHANGED <<lock, started, conn, catalog, calling, probe, old, closed, session>>

Dropped == bound' = 0 /\ catalogOnly' = FALSE /\ revision' = revision + 1 /\ UNCHANGED cached

\* A worker exits on its own: _on_worker_done takes its tools away, if it still is the connection.
WorkerExits(w) ==
    /\ w \in live /\ w \notin {task[2] : task \in tasks}
    /\ live' = live \ {w}
    /\ IF conn = w THEN conn' = 0 /\ Dropped ELSE UNCHANGED <<conn, catalog>>
    /\ UNCHANGED <<at, lock, tasks, started, calling, probe, old, closed, session>>

(***************************************************************************)
(* ensure_connected, in the thread of its caller.                           *)
(***************************************************************************)
Lock(t) ==
    /\ at[t] = "lock" /\ lock = "none"
    /\ IF conn # 0 THEN Goes(t, "dispatch") /\ UNCHANGED lock
       ELSE IF closed THEN Goes(t, "fail") /\ UNCHANGED lock
       ELSE Goes(t, "connect") /\ lock' = t
    /\ UNCHANGED <<tasks, started, live, conn, catalog, calling, probe, old, closed, session>>

\* With no worker left to start, the model lets the connect fail.
ConnectFailsAtOnce(t) ==
    /\ at[t] = "connect" /\ started = MaxWorkers /\ Goes(t, "fail")
    /\ UNCHANGED <<lock, tasks, started, live, conn, catalog, calling, probe, old, closed, session>>

Leave(t) ==
    /\ at[t] \in {"leave", "fail"} /\ lock' = IF lock = t THEN "none" ELSE lock
    /\ Goes(t, IF at[t] = "leave" THEN "dispatch" ELSE IF t = "user" THEN "rebuild" ELSE "idle")
    /\ UNCHANGED <<tasks, started, live, conn, catalog, calling, probe, old, closed, session>>

\* The turn is cancelled: the caller goes at once, its connect is cancelled by the loop.
GiveUp(t) ==
    /\ t # "user" /\ at[t] \in {"lock", "connect", "connecting"}
    /\ lock' = (IF lock = t THEN "none" ELSE lock) /\ Goes(t, "idle")
    /\ tasks' = {IF task[1] = t THEN <<t, task[2], TRUE>> ELSE task : task \in tasks}
    /\ UNCHANGED <<started, live, conn, catalog, calling, probe, old, closed, session>>

(***************************************************************************)
(* Tool calls and search_tools.                                             *)
(***************************************************************************)
Call(t) ==
    /\ t \in {"main", "sub"} /\ at[t] = "idle" /\ registry # 0 /\ at["user"] = "idle"
    /\ Goes(t, IF bound # 0 THEN "lock" ELSE "dispatch")
    /\ UNCHANGED <<lock, tasks, started, live, conn, catalog, calling, probe, old, closed, session>>

\* _dispatch_tool: in one step of the loop, the binding the caller's registry holds is still the
\* one that is published, and there is a worker for it; otherwise the call fails.
Dispatch(t) ==
    /\ at[t] = "dispatch"
    /\ IF t = "user" THEN Goes(t, "rebuild") /\ UNCHANGED calling
       ELSE IF bound # 0 /\ bound = registry /\ conn # 0
         THEN Goes(t, "called") /\ calling' = [calling EXCEPT ![t] = conn]
         ELSE Goes(t, IF t = "main" THEN "register" ELSE "idle") /\ UNCHANGED calling
    /\ UNCHANGED <<lock, tasks, started, live, conn, catalog, probe, old, closed, session>>

\* An answer, an error, the time limit of the tool, a cancellation, or the end of the worker.
CallOnlyAnswered(t) ==
    /\ at[t] = "called" /\ calling[t] \in live
    /\ Goes(t, "idle") /\ calling' = [calling EXCEPT ![t] = 0]
    /\ UNCHANGED <<lock, tasks, started, live, conn, catalog, probe, old, closed, session>>

CallEnds(t) ==
    /\ at[t] = "called" /\ Goes(t, "idle") /\ calling' = [calling EXCEPT ![t] = 0]
    /\ UNCHANGED <<lock, tasks, started, live, conn, catalog, probe, old, closed, session>>

\* discover: prime_catalog puts the cached tools where none are, and connects if there are none.
Discover ==
    /\ at["main"] = "idle" /\ at["user"] = "idle" /\ lock = "none"
    /\ bound' = (IF bound = 0 THEN cached ELSE bound)
    /\ catalogOnly' = (catalogOnly \/ (bound = 0 /\ cached # 0))
    /\ Goes("main", IF bound' = 0 THEN "lock" ELSE "register")
    /\ UNCHANGED <<lock, tasks, started, live, conn, cached, revision, calling, probe, old, closed, session>>

\* register_tools adds what is published; then the revision is read.
RegisterTools ==
    /\ at["main"] = "register" /\ Goes("main", "record")
    /\ registry' = IF bound = 0 THEN registry ELSE bound
    /\ UNCHANGED <<lock, tasks, started, live, conn, catalog, calling, probe, old, closed, recorded>>

RecordRevision ==
    /\ at["main"] = "record" /\ Goes("main", "idle") /\ recorded' = revision
    /\ UNCHANGED <<lock, tasks, started, live, conn, catalog, calling, probe, old, closed, registry>>

\* _rebuild_mcp_state, from one snapshot: after a command, and before a turn if the revision moved.
Rebuild ==
    /\ \/ at["user"] = "rebuild" /\ Goes("user", "idle")
       \/ at["main"] = "idle" /\ at["user"] = "idle" /\ recorded # revision /\ UNCHANGED at
    /\ registry' = bound /\ recorded' = revision
    /\ UNCHANGED <<lock, tasks, started, live, conn, catalog, calling, probe, old, closed>>

(***************************************************************************)
(* Commands of the user: they start when no turn and no tool runs.          *)
(***************************************************************************)
Quiet == at["main"] = "idle" /\ at["sub"] = "idle" /\ at["user"] = "idle" /\ ~closed

\* reload_server and remove_server: _drop_server takes the connection out and closes it.
Drop ==
    /\ Quiet /\ revision < MaxChanges /\ Goes("user", "drop")
    /\ old' = conn /\ conn' = 0
    /\ UNCHANGED <<lock, tasks, started, live, catalog, calling, probe, closed, session>>

\* The close ends, or its time is up; the worker reaps its calls either way.
DropEnds ==
    /\ at["user"] = "drop" /\ live' = live \ {old} /\ old' = 0 /\ Dropped
    /\ Goes("user", "lock") \/ Goes("user", "rebuild")
    /\ UNCHANGED <<lock, tasks, started, conn, calling, probe, closed, session>>

\* register_server: a probe, which takes no lock; the entry is written whether it succeeds or not.
Probe ==
    /\ Quiet /\ started < MaxWorkers /\ revision < MaxChanges /\ Goes("user", "probing")
    /\ started' = started + 1 /\ live' = live \union {started'}
    /\ tasks' = tasks \union {<<"user", started', FALSE>>}
    /\ UNCHANGED <<lock, conn, catalog, calling, probe, old, closed, session>>

\* The write of the configuration fails, and the probe is closed; or the replacement begins.
Save ==
    /\ at["user"] = "save"
    /\ \/ live' = live \ {probe} /\ probe' = 0 /\ Goes("user", "idle") /\ UNCHANGED <<conn, old>>
       \/ Goes("user", IF probe = 0 THEN "drop" ELSE "replace")
          /\ old' = conn /\ conn' = 0 /\ UNCHANGED <<live, probe>>
    /\ UNCHANGED <<lock, tasks, started, catalog, calling, closed, session>>

\* _register_connection: the old one is closed, its tools go, the new one is stored if it lives.
Replace ==
    /\ at["user"] = "replace" /\ Goes("user", "rebuild")
    /\ live' = live \ {old} /\ old' = 0 /\ probe' = 0
    /\ IF probe \in live THEN /\ conn' = probe /\ cached' = probe /\ bound' = probe
                              /\ catalogOnly' = FALSE /\ revision' = revision + 2
       ELSE Dropped /\ UNCHANGED conn
    /\ UNCHANGED <<lock, tasks, started, calling, closed, session>>

\* close(): all connections, then the loop with the connects on it.
Close ==
    /\ Quiet /\ closed' = TRUE
    /\ conn' = 0 /\ live' = live \ ({conn} \union {task[2] : task \in tasks}) /\ tasks' = {}
    /\ UNCHANGED <<at, lock, started, catalog, calling, probe, old, session>>

LoopSteps(t) ==
    \/ Lock(t) \/ Connect(t) \/ ConnectFailsAtOnce(t) \/ Leave(t) \/ Dispatch(t) \/ CallEnds(t)
    \/ \E task \in tasks : task[1] = t /\ (Connected(task) \/ ConnectFails(task))
    \/ t = "main" /\ (RegisterTools \/ RecordRevision)
    \/ t = "user" /\ (DropEnds \/ Save \/ Replace \/ (at["user"] = "rebuild" /\ Rebuild))

Next ==
    \/ \E t \in Thread : LoopSteps(t) \/ GiveUp(t) \/ Call(t)
    \/ \E w \in live : WorkerExits(w)
    \/ Discover \/ Rebuild \/ Drop \/ Probe \/ Close

Spec == Init /\ [][Next]_vars /\ \A t \in Thread : SF_vars(LoopSteps(t))

(***************************************************************************)
(* What must hold.                                                          *)
(***************************************************************************)
TypeOK ==
    /\ at \in [Thread -> {"idle", "lock", "connect", "connecting", "leave", "fail", "dispatch", "called",
                          "register", "record", "rebuild", "drop", "probing", "save", "replace"}]
    /\ live \subseteq 1 .. MaxWorkers /\ {conn, bound, cached, registry} \subseteq 0 .. MaxWorkers
    /\ recorded <= revision /\ revision <= MaxChanges + 2 * MaxWorkers + 2

\* Tools that are listed as connected have their connection, unless a command is just closing it,
\* and a connection that is listed has a worker (_on_worker_done, _drop_server_async).
ListedIsConnected ==
    /\ conn # 0 => conn \in live
    /\ bound # 0 /\ ~catalogOnly /\ ~closed => conn # 0 \/ at["user"] \in {"drop", "replace"}

\* Only one thread holds the lock, and it is one that connects (ensure_connected).
LockIsHeldToConnect == lock # "none" => at[lock] \in {"connect", "connecting", "leave", "fail"}

\* Calls and commands return, though servers hang, die or never answer.
CallsReturn == \A t \in Thread : at[t] # "idle" ~> at[t] = "idle"

=============================================================================
