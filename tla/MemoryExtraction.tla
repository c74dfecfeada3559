-------------------------- MODULE MemoryExtraction --------------------------
(***************************************************************************)
(* Background extraction of memories (memory/extraction.py and             *)
(* memory/background.py).  Each completed turn of a session enqueues a     *)
(* task that covers its journal up to the end of that turn.  Workers of    *)
(* several processes claim the tasks of the project's database under a     *)
(* lease, ask the model about one piece of the journal after another and   *)
(* commit what was found together with the checkpoint of the session.      *)
(*                                                                         *)
(* One session, in process Home; the other processes work on the same      *)
(* database.  Pieces are the journal entries worth extracting, each small  *)
(* enough for one request; a boundary is a number of pieces.  A piece that *)
(* was written while memory generation was off is skipped.                 *)
(***************************************************************************)
EXTENDS Naturals, FiniteSets, Sequences

CONSTANTS Process,      \* processes that open the database
          Home,         \* the process of the session
          MaxPieces,    \* bound: entries of the journal
          MaxOrders     \* bound: commands of the user, crashes and failed calls

VARIABLES
    journal,     \* one BOOLEAN per piece: written while generation was on
    session,     \* the row of the session, and its process
    task,        \* extraction_tasks, by boundary
    checkpoint,  \* extraction_checkpoints
    found,       \* ghost: how often each piece was committed
    worker,      \* one worker thread per process, and its schedule
    orders,      \* orders and mishaps so far
    putBack      \* ghost: a task of an earlier boundary moved the checkpoint back

vars == <<journal, session, task, checkpoint, found, worker, orders, putBack>>

Boundaries == 0..MaxPieces
NoTask == [st |-> "none", failures |-> 0, late |-> FALSE, lease |-> "none", holder |-> "nobody"]
Idle == [at |-> "off", on |-> 0, start |-> 0, running |-> FALSE, rerun |-> FALSE,
         timer |-> FALSE, called |-> FALSE]

TypeOK ==
    /\ journal \in UNION {[1..n -> BOOLEAN] : n \in Boundaries}
    /\ session \in [open : BOOLEAN, generate : BOOLEAN, enabled : BOOLEAN, active : BOOLEAN,
                    turn : {"none", "tracked", "untracked"}]
    /\ task \in [Boundaries ->
          [st : {"none", "pending", "running", "done", "failed", "superseded", "cancelled"},
           failures : 0..3, late : BOOLEAN, lease : {"none", "held", "expired"},
           holder : Process \cup {"nobody"}]]
    /\ checkpoint \in Boundaries
    /\ found \in [1..MaxPieces -> 0..2]
    /\ worker \in [Process ->
          [at : {"off", "claims", "prepares", "asked", "rests", "ends"}, on : Boundaries,
           start : Boundaries, running : BOOLEAN, rerun : BOOLEAN, timer : BOOLEAN,
           called : BOOLEAN]]

\* The worker of the other processes runs; the session was registered when it opened.
Init ==
    /\ journal = <<>>
    /\ session = [open |-> TRUE, generate |-> TRUE, enabled |-> TRUE, active |-> FALSE,
                  turn |-> "none"]
    /\ task = [b \in Boundaries |-> NoTask]
    /\ checkpoint = 0
    /\ found = [i \in 1..MaxPieces |-> 0]
    /\ worker = [p \in Process |-> IF p = Home THEN [Idle EXCEPT !.called = TRUE] ELSE Idle]
    /\ orders = 0
    /\ putBack = FALSE

Open(p) == p # Home \/ session.open
Unfinished(t) == t.st \in {"pending", "running"}
Queued(t) == [t EXCEPT !.st = "pending", !.lease = "none", !.holder = "nobody"]
StartWorker == worker' = [worker EXCEPT ![Home].called = TRUE]

-----------------------------------------------------------------------------
(* The session                                                             *)

\* set_active: the session extends its lease on the foreground and takes
\* running tasks back; a heartbeat keeps it up.
BeginTurn ==
    /\ session.open /\ session.turn = "none" /\ Len(journal) < MaxPieces
    /\ session' = IF session.generate THEN [session EXCEPT !.turn = "tracked", !.active = TRUE]
                  ELSE [session EXCEPT !.turn = "untracked", !.active = FALSE]
    /\ task' = [b \in Boundaries |-> IF session.generate /\ task[b].st = "running"
                                     THEN Queued(task[b]) ELSE task[b]]
    /\ journal' = Append(journal, session.generate)
    /\ UNCHANGED <<checkpoint, found, worker, orders, putBack>>

\* enqueue: tasks of earlier boundaries are superseded; a task that is there
\* is made due if it waits, else kept.
Enqueue(old, boundary) ==
    [b \in Boundaries |->
        IF b < boundary /\ Unfinished(old[b])
        THEN [Queued(old[b]) EXCEPT !.st = "superseded"]
        ELSE IF b # boundary THEN old[b]
        ELSE IF old[b].st = "none" THEN [NoTask EXCEPT !.st = "pending"]
        ELSE IF old[b].st = "pending" THEN [old[b] EXCEPT !.late = FALSE] ELSE old[b]]

\* finish_memory_turn: only a turn that completed is enqueued.
FinishTurn(completed) ==
    /\ session.turn # "none"
    /\ session' = IF session.turn = "tracked" THEN [session EXCEPT !.turn = "none", !.active = FALSE]
                  ELSE [session EXCEPT !.turn = "none"]
    /\ task' = IF session.turn = "tracked" /\ completed /\ session.generate
               THEN Enqueue(task, Len(journal)) ELSE task
    /\ IF session.turn = "tracked" THEN StartWorker ELSE UNCHANGED worker
    /\ UNCHANGED <<journal, checkpoint, found, orders, putBack>>

\* The foreground lease of a process that died lapses.
ActivityLapses ==
    /\ session.active /\ session.turn # "tracked"
    /\ session' = [session EXCEPT !.active = FALSE]
    /\ UNCHANGED <<journal, task, checkpoint, found, worker, orders, putBack>>

\* /memory generate off: every task of the session is cancelled.
GenerateOff ==
    /\ session.open /\ session.generate /\ orders < MaxOrders
    /\ session' = [session EXCEPT !.generate = FALSE, !.enabled = FALSE]
    /\ task' = [b \in Boundaries |-> IF Unfinished(task[b])
                                     THEN [Queued(task[b]) EXCEPT !.st = "cancelled"] ELSE task[b]]
    /\ orders' = orders + 1
    /\ UNCHANGED <<journal, checkpoint, found, worker, putBack>>

\* /memory generate on: what was cancelled is pending again.
GenerateOn ==
    /\ session.open /\ ~session.generate
    /\ session' = [session EXCEPT !.generate = TRUE, !.enabled = TRUE]
    /\ task' = [b \in Boundaries |-> IF task[b].st = "cancelled"
                                     THEN [task[b] EXCEPT !.st = "pending", !.late = FALSE]
                                     ELSE task[b]]
    /\ StartWorker
    /\ UNCHANGED <<journal, checkpoint, found, orders, putBack>>

\* /memory retry: failed tasks get three new attempts, whatever came after them.
Retry ==
    /\ session.open /\ orders < MaxOrders /\ \E b \in Boundaries : task[b].st = "failed"
    /\ task' = [b \in Boundaries |-> IF task[b].st = "failed"
                                     THEN [NoTask EXCEPT !.st = "pending"] ELSE task[b]]
    /\ StartWorker
    /\ orders' = orders + 1
    /\ UNCHANGED <<journal, session, checkpoint, found, putBack>>

\* close_memory_session: the client leaves and its timer is cancelled.
CloseSession ==
    /\ session.open /\ session.turn = "none" /\ orders < MaxOrders
    /\ session' = [session EXCEPT !.open = FALSE, !.active = FALSE]
    /\ worker' = [worker EXCEPT ![Home].timer = FALSE]
    /\ orders' = orders + 1
    /\ UNCHANGED <<journal, task, checkpoint, found, putBack>>

\* The process of the session dies; its leases stay in the database.
Crash ==
    /\ session.open /\ orders < MaxOrders
    /\ session' = [session EXCEPT !.open = FALSE, !.turn = "none"]
    /\ worker' = [worker EXCEPT ![Home] = Idle]
    /\ orders' = orders + 1
    /\ UNCHANGED <<journal, task, checkpoint, found, putBack>>

\* open_memory_session, for a session that is resumed: generation is on, and
\* the row stays disabled if it was.
Reopen ==
    /\ ~session.open
    /\ session' = [session EXCEPT !.open = TRUE, !.generate = TRUE]
    /\ StartWorker
    /\ UNCHANGED <<journal, task, checkpoint, found, orders, putBack>>

-----------------------------------------------------------------------------
(* The worker thread of a process                                          *)

\* _start_service_worker, from a caller or a timer of the process.
WorkerStarts(p) ==
    /\ worker[p].called \/ worker[p].timer
    /\ worker' = [worker EXCEPT ![p] =
          IF ~Open(p) THEN [@ EXCEPT !.called = FALSE, !.timer = FALSE]
          ELSE IF @.running THEN [@ EXCEPT !.called = FALSE, !.timer = FALSE, !.rerun = TRUE]
          ELSE [Idle EXCEPT !.at = "claims", !.running = TRUE]]
    /\ UNCHANGED <<journal, session, task, checkpoint, found, orders, putBack>>

\* The workers of the other processes look again from time to time.
OtherLooks(p) ==
    /\ p # Home /\ worker[p].at = "off"
    /\ \E b \in Boundaries : Unfinished(task[b])
    /\ worker' = [worker EXCEPT ![p] = [Idle EXCEPT !.at = "claims", !.running = TRUE]]
    /\ UNCHANGED <<journal, session, task, checkpoint, found, orders, putBack>>

\* An expired lease counts as a failed attempt.
Expired(t) ==
    IF t.st = "running" /\ t.lease = "expired"
    THEN [Queued(t) EXCEPT !.st = IF t.failures >= 2 THEN "failed" ELSE "pending",
                           !.failures = t.failures + 1]
    ELSE t
Claimable(ts) ==
    {b \in Boundaries : /\ ts[b].st = "pending" /\ ~ts[b].late /\ ts[b].failures < 3
                        /\ session.enabled /\ ~session.active}
Swept == [b \in Boundaries |-> Expired(task[b])]

\* claim: the oldest task that is due, for a session that is enabled and idle.
Claim(p) ==
    /\ worker[p].at = "claims"
    /\ IF ~Open(p) \/ Claimable(Swept) = {}
       THEN /\ worker' = [worker EXCEPT ![p].at = "rests"]
            /\ task' = IF Open(p) THEN Swept ELSE task
       ELSE LET b == CHOOSE c \in Claimable(Swept) : \A d \in Claimable(Swept) : c <= d
            IN /\ task' = [Swept EXCEPT ![b] = [@ EXCEPT !.st = "running", !.lease = "held",
                                                         !.holder = p]]
               /\ worker' = [worker EXCEPT ![p].at = "prepares", ![p].on = b, ![p].start = checkpoint]
    /\ UNCHANGED <<journal, session, checkpoint, found, orders, putBack>>

Ready(p) ==
    LET t == task[worker[p].on]
    IN t.st = "running" /\ t.holder = p /\ t.lease = "held" /\ session.enabled /\ ~session.active

\* The worker gives the task up, unless the task is no longer its own.
Gives(p, t) ==
    /\ task' = IF task[worker[p].on].st = "running" /\ task[worker[p].on].holder = p
               THEN [task EXCEPT ![worker[p].on] = t] ELSE task
    /\ worker' = [worker EXCEPT ![p].at = "claims"]

\* process: the piece at the checkpoint, or the next one that may be extracted.
NextPiece(from, boundary) ==
    LET open == {i \in from + 1 .. boundary : journal[i]}
    IN IF open = {} THEN 0 ELSE CHOOSE i \in open : \A j \in open : i <= j

Prepare(p) ==
    /\ worker[p].at = "prepares"
    /\ Ready(p) /\ Open(p)
    /\ NextPiece(checkpoint, worker[p].on) # 0
    /\ worker' = [worker EXCEPT ![p].at = "asked", ![p].start = checkpoint]
    /\ UNCHANGED <<journal, session, task, checkpoint, found, orders, putBack>>

\* _commit, one transaction: the lease and the checkpoint are as they were.
CommitAt(p, start, end, piece) ==
    /\ IF Ready(p) /\ checkpoint = start
       THEN /\ checkpoint' = end
            /\ putBack' = (putBack \/ end < checkpoint)
            /\ found' = IF piece = 0 THEN found ELSE [found EXCEPT ![piece] = IF @ < 2 THEN @ + 1 ELSE 2]
            /\ task' = IF end = worker[p].on
                       THEN [task EXCEPT ![worker[p].on] =
                               [Queued(@) EXCEPT !.st = "done"]]
                       ELSE task
            /\ worker' = [worker EXCEPT ![p].at = IF end = worker[p].on THEN "claims"
                                                  ELSE "prepares"]
       ELSE /\ worker' = [worker EXCEPT ![p].at = "claims"]
            /\ UNCHANGED <<task, checkpoint, found, putBack>>
    /\ UNCHANGED <<journal, session, orders>>
CommitBlind(p, start, end, piece) ==
    /\ checkpoint' = end
    /\ putBack' = (putBack \/ end < start)
    /\ found' = IF piece = 0 THEN found ELSE [found EXCEPT ![piece] = IF @ < 2 THEN @ + 1 ELSE 2]
    /\ task' = IF end = worker[p].on THEN [task EXCEPT ![worker[p].on] = [Queued(@) EXCEPT !.st = "done"]]
               ELSE task
    /\ worker' = [worker EXCEPT ![p].at = IF end = worker[p].on THEN "claims" ELSE "prepares"]
    /\ UNCHANGED <<journal, session, orders>>
Commit(p, start, end, piece) == CommitAt(p, start, end, piece)

\* Nothing is left up to the boundary: the checkpoint goes there.
Complete(p) ==
    /\ worker[p].at = "prepares" /\ Ready(p) /\ Open(p)
    /\ NextPiece(checkpoint, worker[p].on) = 0
    /\ Commit(p, checkpoint, worker[p].on, 0)

Answered(p) ==
    /\ worker[p].at = "asked" /\ Open(p)
    /\ LET i == NextPiece(worker[p].start, worker[p].on)
       IN Commit(p, worker[p].start, i, i)

\* The lease is no longer the worker's: it leaves the task alone.
Obsolete(p) ==
    /\ worker[p].at = "prepares" /\ ~Ready(p)
    /\ worker' = [worker EXCEPT ![p].at = "claims"]
    /\ UNCHANGED <<journal, session, task, checkpoint, found, orders, putBack>>

\* The budget of calls is spent, or the last client left.
Release(p) ==
    /\ worker[p].at \in {"prepares", "asked"} /\ Ready(p)
    /\ (worker[p].at = "prepares" /\ worker[p].start < checkpoint) \/ ~Open(p)
    /\ Gives(p, [Queued(task[worker[p].on]) EXCEPT !.late = Open(p)])
    /\ UNCHANGED <<journal, session, checkpoint, found, orders, putBack>>

\* The last client left while the model answered for a lease that was lost.
LeavesObsolete(p) ==
    /\ worker[p].at = "asked" /\ ~Open(p) /\ ~Ready(p)
    /\ worker' = [worker EXCEPT ![p].at = "claims"]
    /\ UNCHANGED <<journal, session, task, checkpoint, found, orders, putBack>>

\* The call or the answer is no good: an attempt is used up.
AttemptFails(p) ==
    /\ worker[p].at = "asked" /\ orders < MaxOrders
    /\ Gives(p, LET t == task[worker[p].on]
                IN [Queued(t) EXCEPT !.st = IF t.failures >= 2 THEN "failed" ELSE "pending",
                                     !.failures = t.failures + 1, !.late = TRUE])
    /\ orders' = orders + 1
    /\ UNCHANGED <<journal, session, checkpoint, found, putBack>>

\* _run: again if the worker was called meanwhile.
Rests(p) ==
    /\ worker[p].at = "rests"
    /\ worker' = [worker EXCEPT ![p] = IF Open(p) /\ @.rerun
                                       THEN [@ EXCEPT !.at = "claims", !.rerun = FALSE]
                                       ELSE [@ EXCEPT !.at = "ends"]]
    /\ UNCHANGED <<journal, session, task, checkpoint, found, orders, putBack>>

\* The thread ends; a timer is set when work is left for later.
LeavesTimer(p) == Open(p) /\ session.enabled /\ \E b \in Boundaries : Unfinished(task[b])
LeavesNothing(p) == FALSE
Schedules(p) == LeavesTimer(p)
Ends(p) ==
    /\ worker[p].at = "ends"
    /\ worker' = [worker EXCEPT ![p] = [Idle EXCEPT !.timer = Schedules(p),
                                                    !.called = worker[p].called]]
    /\ UNCHANGED <<journal, session, task, checkpoint, found, orders, putBack>>

-----------------------------------------------------------------------------
(* Time                                                                    *)

Due(b) ==
    /\ task[b].late
    /\ task' = [task EXCEPT ![b].late = FALSE]
    /\ UNCHANGED <<journal, session, checkpoint, found, worker, orders, putBack>>

\* A lease runs out when its holder is gone, or slower than the lease allows.
LeaseExpires(b) ==
    /\ task[b].st = "running" /\ task[b].lease = "held"
    /\ \/ worker[task[b].holder].on # b \/ worker[task[b].holder].at \notin {"prepares", "asked"}
       \/ orders < MaxOrders
    /\ task' = [task EXCEPT ![b].lease = "expired"]
    /\ orders' = IF worker[task[b].holder].on = b /\ worker[task[b].holder].at \in {"prepares", "asked"}
                 THEN orders + 1 ELSE orders
    /\ UNCHANGED <<journal, session, checkpoint, found, worker, putBack>>

SessionSteps ==
    \/ BeginTurn \/ GenerateOff \/ GenerateOn \/ Retry \/ CloseSession \/ Crash \/ Reopen
    \/ \E completed \in BOOLEAN : FinishTurn(completed)

WorkerSteps(p) ==
    \/ WorkerStarts(p) \/ Claim(p) \/ Prepare(p) \/ Complete(p) \/ Answered(p)
    \/ Obsolete(p) \/ Release(p) \/ LeavesObsolete(p) \/ Rests(p) \/ Ends(p)

Next ==
    \/ SessionSteps \/ ActivityLapses
    \/ \E p \in Process : WorkerSteps(p) \/ OtherLooks(p) \/ AttemptFails(p)
    \/ \E b \in Boundaries : Due(b) \/ LeaseExpires(b)

\* The worker thread and its timers run, turns end, leases and delays run out.
Fairness ==
    /\ WF_vars(WorkerSteps(Home))
    /\ WF_vars(\E p \in Process \ {Home} : WorkerSteps(p))
    /\ WF_vars(\E completed \in BOOLEAN : FinishTurn(completed))
    /\ WF_vars(ActivityLapses)
    /\ WF_vars(\E b \in Boundaries : Due(b))
    /\ WF_vars(\E b \in Boundaries : LeaseExpires(b))

Spec == Init /\ [][Next]_vars /\ Fairness

-----------------------------------------------------------------------------
(* Properties                                                              *)

\* What lies before the checkpoint was extracted, whichever worker committed
\* it, whoever lost a lease and however tasks superseded each other.
NothingSkipped ==
    \A i \in 1..checkpoint : journal[i] => found[i] >= 1

\* A piece is committed twice only after a task of an earlier boundary, retried
\* or resumed once a later one was done, put the checkpoint back.
ExtractedOnce == putBack \/ \A i \in 1..MaxPieces : found[i] <= 1

\* Work of an open session that generates memories is never without a worker,
\* a timer or a call that will start one.
WorkIsKept ==
    session.open /\ session.enabled /\ (\E b \in Boundaries : Unfinished(task[b]))
        => \/ session.turn # "none"
           \/ worker[Home].running \/ worker[Home].timer \/ worker[Home].called

\* In the end a session that stays open has no task left that could be done.
TasksSettle ==
    <>[](session.open /\ session.enabled => \A b \in Boundaries : ~Unfinished(task[b]))

=============================================================================
