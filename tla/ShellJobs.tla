------------------------------ MODULE ShellJobs ------------------------------
(***************************************************************************)
(* The shell jobs of a session (workspace/shell_jobs.py): the start of a    *)
(* job with its write lease and private directory, the processes it grows,  *)
(* the thread that waits for all it can see of them, stop() and close().    *)
(* Every job has a root process, which may fork one child, and that one     *)
(* another; a child may give up the pipes to the reader threads.            *)
(***************************************************************************)
EXTENDS Naturals, FiniteSets

CONSTANTS Job

VARIABLES starting,   \* where the start of each job stands; "none" outside of start()
          status,     \* status of the stored job
          lease,      \* jobs whose write lease is held
          alive, piped,   \* running processes of each job, and those that hold its pipes
          born,       \* processes each job has had
          tracked,    \* _processes: those the job knows of and has not seen end
          monitor,    \* what the monitor thread of each job waits for
          closing, closer, toStop, closed   \* _closing; where close() stands, the jobs it has to stop; _closed

vars == <<starting, status, lease, alive, piped, born, tracked, monitor, closing, closer, toStop, closed>>

ParentOf == [child |-> "root", grandchild |-> "child"]
Final == {"exited", "stopped", "failed"}
Running == {"running", "stopping"}

Init ==
    /\ starting = [j \in Job |-> "none"] /\ status = [j \in Job |-> "none"]
    /\ lease = {} /\ alive = [j \in Job |-> {}] /\ piped = [j \in Job |-> {}]
    /\ born = [j \in Job |-> {}] /\ tracked = [j \in Job |-> {}]
    /\ monitor = [j \in Job |-> "none"] /\ toStop = {}
    /\ closing = FALSE /\ closer = "none" /\ closed = FALSE

others == <<alive, piped, born, tracked, monitor, closing, closer, toStop, closed>>

(***************************************************************************)
(* start(): its token is a child of _start_token, which close() cancels.    *)
(***************************************************************************)
Start(j) ==
    /\ starting[j] = "none" /\ status[j] = "none" /\ ~closing
    /\ starting' = [starting EXCEPT ![j] = "lease"]
    /\ UNCHANGED <<status, lease, others>>

Leave(j) == starting' = [starting EXCEPT ![j] = "over"]

\* The lease is granted, or the wait for it ends: with an error, which is stored as a failed job,
\* or with the cancellation, which is not.
TakeLease(j) ==
    /\ starting[j] = "lease"
    /\ \/ /\ ~closing /\ lease' = lease \union {j}
          /\ starting' = [starting EXCEPT ![j] = "launch"] /\ UNCHANGED status
       \/ status' = [status EXCEPT ![j] = "failed"] /\ Leave(j) /\ UNCHANGED lease
       \/ Leave(j) /\ UNCHANGED <<status, lease>>
    /\ UNCHANGED others

\* A failure that keeps the lease.
LaunchFailsHolding(j) ==
    /\ starting[j] = "launch" /\ Leave(j) /\ status' = [status EXCEPT ![j] = "failed"]
    /\ UNCHANGED <<lease, others>>

\* The directories, and the process; what goes wrong gives the lease back.
LaunchFails(j) ==
    /\ starting[j] = "launch"
    /\ lease' = lease \ {j} /\ Leave(j)
    /\ IF closing THEN UNCHANGED status ELSE status' = [status EXCEPT ![j] = "failed"]
    /\ UNCHANGED others

Launch(j) ==
    /\ starting[j] = "launch"
    /\ starting' = [starting EXCEPT ![j] = "store"]
    /\ alive' = [alive EXCEPT ![j] = {"root"}] /\ piped' = [piped EXCEPT ![j] = {"root"}]
    /\ born' = [born EXCEPT ![j] = {"root"}]
    /\ UNCHANGED <<status, lease, tracked, monitor, closing, closer, toStop, closed>>

\* _track_process_tree: while the root runs, it and what descends from it through running
\* processes; later the known processes and their children.
Below(j, known) == known \union {p \in DOMAIN ParentOf \intersect alive[j] : ParentOf[p] \in known \intersect alive[j]}
Seen(j) ==
    LET known == IF "root" \in alive[j] THEN {"root"} ELSE tracked[j] \intersect alive[j]
    IN tracked[j] \union Below(j, Below(j, known))

Store(j) ==
    /\ starting[j] = "store"
    /\ status' = [status EXCEPT ![j] = "running"] /\ Leave(j)
    /\ tracked' = [tracked EXCEPT ![j] = Seen(j)] /\ monitor' = [monitor EXCEPT ![j] = "root"]
    /\ UNCHANGED <<lease, alive, piped, born, closing, closer, toStop, closed>>

(***************************************************************************)
(* The processes.                                                           *)
(***************************************************************************)
Fork(j) ==
    /\ \E p \in DOMAIN ParentOf, quiet \in BOOLEAN :
          /\ ParentOf[p] \in alive[j] /\ p \notin born[j]
          /\ alive' = [alive EXCEPT ![j] = @ \union {p}] /\ born' = [born EXCEPT ![j] = @ \union {p}]
          /\ piped' = IF quiet \/ ParentOf[p] \notin piped[j] THEN piped ELSE [piped EXCEPT ![j] = @ \union {p}]
    /\ UNCHANGED <<starting, status, lease, tracked, monitor, closing, closer, toStop, closed>>

Exit(j) ==
    /\ \E p \in alive[j] :
          alive' = [alive EXCEPT ![j] = @ \ {p}] /\ piped' = [piped EXCEPT ![j] = @ \ {p}]
    /\ UNCHANGED <<starting, status, lease, born, tracked, monitor, closing, closer, toStop, closed>>

(***************************************************************************)
(* The monitor thread.                                                      *)
(***************************************************************************)
\* mark: the private directory goes, and in any case the lease.
Mark(j) ==
    /\ status' = [status EXCEPT ![j] = IF @ = "stopping" THEN "stopped" ELSE "exited"]
    /\ lease' = lease \ {j}

Poll(j) ==
    /\ monitor[j] = "root"
    /\ IF "root" \in alive[j]
         THEN /\ Seen(j) # tracked[j] \/ ~(tracked[j] \subseteq alive[j])
              /\ tracked' = [tracked EXCEPT ![j] = Seen(j) \intersect alive[j]] /\ UNCHANGED monitor
         ELSE monitor' = [monitor EXCEPT ![j] = "tree"] /\ UNCHANGED tracked
    /\ UNCHANGED <<starting, status, lease, alive, piped, born, closing, closer, toStop, closed>>

WaitForTree(j) ==
    /\ monitor[j] = "tree"
    /\ tracked' = [tracked EXCEPT ![j] = Seen(j)]
    /\ monitor' = [monitor EXCEPT ![j] = IF Seen(j) \intersect alive[j] = {} THEN "readers" ELSE "tree"]
    /\ monitor' # monitor \/ tracked' # tracked
    /\ UNCHANGED <<starting, status, lease, alive, piped, born, closing, closer, toStop, closed>>

\* The monitor that marks the job when its root has ended.
JoinAtOnce(j) ==
    /\ monitor[j] = "readers" /\ monitor' = [monitor EXCEPT ![j] = "over"] /\ Mark(j)
    /\ UNCHANGED <<starting, alive, piped, born, tracked, closing, closer, toStop, closed>>

Join(j) ==
    /\ monitor[j] = "readers" /\ piped[j] = {}
    /\ monitor' = [monitor EXCEPT ![j] = "over"] /\ Mark(j)
    /\ UNCHANGED <<starting, alive, piped, born, tracked, closing, closer, toStop, closed>>

\* "Process exit could not be confirmed": the job goes on for the manager.
MonitorFails(j) ==
    /\ monitor[j] \in {"root", "tree"}
    /\ monitor' = [monitor EXCEPT ![j] = "failed"]
    /\ UNCHANGED <<starting, status, lease, alive, piped, born, tracked, closing, closer, toStop, closed>>

(***************************************************************************)
(* stop(), by a tool or by close(): it kills what is known, and does not    *)
(* wait for ever.                                                           *)
(***************************************************************************)
Stop(j) ==
    /\ status[j] \in Running
    /\ status' = [status EXCEPT ![j] = "stopping"]
    /\ tracked' = [tracked EXCEPT ![j] = Seen(j)]
    /\ \E dead \in SUBSET (Seen(j) \intersect alive[j]) :
          alive' = [alive EXCEPT ![j] = @ \ dead] /\ piped' = [piped EXCEPT ![j] = @ \ dead]
    /\ UNCHANGED <<starting, lease, born, monitor>>

StopByTool(j) == Stop(j) /\ UNCHANGED <<closing, closer, toStop, closed>>

(***************************************************************************)
(* close().                                                                 *)
(***************************************************************************)
Close ==
    /\ closer = "none" /\ ~closed
    /\ closing' = TRUE /\ closer' = "starts"
    /\ UNCHANGED <<starting, status, lease, alive, piped, born, tracked, monitor, toStop, closed>>

\* It waits for the starts that are under way and takes the jobs there are, or gives up.
CloseUnawaited ==
    /\ closer = "starts" /\ closer' = "stops" /\ toStop' = {j \in Job : status[j] \in Running}
    /\ UNCHANGED <<starting, status, lease, alive, piped, born, tracked, monitor, closing, closed>>

CloseWaits ==
    /\ closer = "starts"
    /\ IF \A j \in Job : starting[j] \in {"none", "over"}
         THEN closer' = "stops" /\ toStop' = {j \in Job : status[j] \in Running}
         ELSE closer' = "none" /\ UNCHANGED toStop
    /\ UNCHANGED <<starting, status, lease, alive, piped, born, tracked, monitor, closing, closed>>

CloseStops(j) ==
    /\ j \in toStop /\ toStop' = toStop \ {j}
    /\ \/ Stop(j)
       \/ status[j] \notin Running /\ UNCHANGED <<starting, status, lease, alive, piped, born, tracked, monitor>>
    /\ UNCHANGED <<closing, closer, closed>>

\* All were stopped or have ended: closed, unless one of them still runs.
CloseEnds ==
    /\ closer = "stops" /\ toStop = {} /\ closer' = "none"
    /\ closed' = \A j \in Job : status[j] \notin Running
    /\ UNCHANGED <<starting, status, lease, alive, piped, born, tracked, monitor, closing, toStop>>

StartSteps(j) == TakeLease(j) \/ LaunchFails(j) \/ Launch(j) \/ Store(j)
MonitorSteps(j) == Poll(j) \/ WaitForTree(j) \/ Join(j)

Next ==
    \/ \E j \in Job :
          Start(j) \/ StartSteps(j) \/ Fork(j) \/ Exit(j) \/ MonitorSteps(j) \/ MonitorFails(j)
          \/ StopByTool(j) \/ CloseStops(j)
    \/ Close \/ CloseWaits \/ CloseEnds

\* The threads go on; no process has to end.
Fairness ==
    /\ WF_vars(CloseWaits \/ CloseEnds)
    /\ \A j \in Job :
          WF_vars(StartSteps(j)) /\ WF_vars(MonitorSteps(j)) /\ WF_vars(CloseStops(j))

Spec == Init /\ [][Next]_vars /\ Fairness

(***************************************************************************)
(* What must hold.                                                          *)
(***************************************************************************)
TypeOK ==
    /\ \A j \in Job :
          /\ starting[j] \in {"none", "lease", "launch", "store", "over"}
          /\ status[j] \in Final \union Running \union {"none"}
          /\ piped[j] \subseteq alive[j] /\ alive[j] \subseteq born[j] /\ tracked[j] \subseteq born[j]
          /\ monitor[j] \in {"none", "root", "tree", "readers", "over", "failed"}
    /\ toStop \subseteq Job /\ closer \in {"none", "starts", "stops"}

\* A job is only over when nothing it knows of and nothing that can still write its output runs,
\* and until then no other session may write its directories (_wait_for_exit, mark).
LeaseCoversProcesses ==
    \A j \in Job :
        /\ status[j] \in Running => j \in lease
        /\ status[j] \in Final =>
              j \notin lease /\ (tracked[j] \union piped[j]) \intersect alive[j] = {}

\* A start that fails keeps nothing (_start_job).
NoStrayLease == \A j \in lease : starting[j] \in {"launch", "store"} \/ status[j] \in Running

\* After close() nothing of the session runs that it knows of (ShellJobManager.close).
ClosedIsEmpty ==
    closed => lease = {} /\ \A j \in Job : starting[j] \in {"none", "over"} /\ tracked[j] \intersect alive[j] = {}

\* Closing returns, and a job whose processes have all ended is marked so.
JobsEnd ==
    /\ closer # "none" ~> closer = "none"
    /\ \A j \in Job : (status[j] \in Running /\ alive[j] = {}) ~>
                        (status[j] \in Final \/ monitor[j] = "failed")

=============================================================================
