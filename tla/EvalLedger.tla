----------------------------- MODULE EvalLedger -----------------------------
(***************************************************************************)
(* The ledger of the evaluation runs (eval/scripts/eval_ledger.py,         *)
(* rebuild_eval_results.py, run_terminal_bench_eval.py).  A run leaves a   *)
(* Harbor job per task and, at its end, a summary; the ledger is rebuilt   *)
(* from whatever is on the disk: attempts are scanned from both, the same  *)
(* attempt seen twice is counted once, one final result is selected per    *)
(* task, and a plan names the artifacts to delete.  Applying the plan      *)
(* changes what the next ledger is rebuilt from.                           *)
(*                                                                         *)
(* A job is the record of what it was when it ended; of its directory the  *)
(* disk keeps the job ("job"), in it the trial ("trial"), and in that the  *)
(* trajectory ("trajectory").  Files of a run's own (stdout, stderr) have  *)
(* one attempt and are left out.  Every run is of the benchmark, version   *)
(* 2.1.                                                                    *)
(***************************************************************************)
EXTENDS Naturals, FiniteSets

CONSTANTS
    Task,        \* the tasks that are evaluated
    Inventory,   \* the tasks of the benchmark
    Excluded,    \* those counted as failures (EXCLUDED_TASKS)
    KeepFailed,  \* failures kept per task (FAILED_KEEP_COUNT)
    MaxTime      \* bound: seconds

VARIABLES
    clock,     \* the time, in the seconds that name runs and jobs
    run,       \* the run under way: its start and the tasks it has left, or NoRun
    disk,      \* what is left of the jobs, pairs of a job and "job", "trial" or "trajectory"
    rows,      \* the rows of the summaries, as the jobs they tell of
    pending,   \* the rows of the run under way
    reported,  \* the final results when artifacts were last deleted
    applied    \* how often they were deleted since a run last left something, up to 3

vars == <<clock, run, disk, rows, pending, reported, applied>>

NoRun == [at |-> 0, todo |-> {}]
Part == {"job", "trial", "trajectory"}
Status == {"passed", "failed"}
\* A job of no run (run = 0) was started by hand, under the top-level jobs directory.
Jobs == [task : Task, run : 0..MaxTime, at : 1..MaxTime, status : Status]

Init ==
    /\ clock = 0 /\ run = NoRun /\ disk = {} /\ rows = {} /\ pending = {}
    /\ reported = {} /\ applied = 0

-----------------------------------------------------------------------------
(* The attempts on the disk. *)

On(piece) == {p[1] : p \in {q \in disk : q[2] = piece}}

\* The job as an attempt seen at a time, in a source of a rank, with the piece of it that is named.
Attempt(j, at, rank, piece) ==
    [task |-> j.task, at |-> at, status |-> j.status, rank |-> rank, place |-> <<j, piece>>]

\* Harbor's trials of a run, and its job only where no trial is left.
HarborAttempts ==
    {Attempt(j, j.at, 4, "trial") : j \in {k \in On("trial") : k.run # 0}}
    \cup {Attempt(j, j.at, 1, "job") : j \in {k \in On("job") \ On("trial") : k.run # 0}}

\* The rows of the summaries, which carry the time of their run and know the trajectory.
SummaryAttempts == {Attempt(j, j.run, 3, "trajectory") : j \in rows}

TopLevelAttempts == {Attempt(j, j.at, 2, "job") : j \in {k \in On("job") : k.run = 0}}

Scanned == HarborAttempts \cup SummaryAttempts \cup TopLevelAttempts

SameAttempt(a, b) == a.task = b.task /\ a.at = b.at /\ a.status = b.status

\* Of the same attempt the source of the highest rank counts.
Attempts == LET all == Scanned IN {a \in all : ~\E b \in all : SameAttempt(a, b) /\ b.rank > a.rank}

Latest(set) == CHOOSE a \in set : \A b \in set : b.at <= a.at

\* Mutant: the latest attempt, whether it passed or not.
BestLatest(set) == Latest(set)

\* The final result of the attempts of a task: the latest pass, or the latest failure.
Best(set) ==
    LET passes == {a \in set : a.status = "passed"} IN Latest(IF passes # {} THEN passes ELSE set)

Result(a) == [task |-> a.task, at |-> a.at, status |-> a.status]
ByTask(attempts) == {{a \in attempts : a.task = task} : task \in {a.task : a \in attempts}}
Finals == {Result(Best(set)) : set \in ByTask(Attempts)}

-----------------------------------------------------------------------------
(* The retention plan. *)

\* Mutant: the oldest failures are kept.
Oldest(set) == {a \in set : Cardinality({b \in set : b.at < a.at}) < KeepFailed}

Newest(set) == {a \in set : Cardinality({b \in set : b.at > a.at}) < KeepFailed}

\* Of the attempts of a task: the final one if it passed, and otherwise the latest failures.
KeptOf(set) == LET best == Best(set) IN IF best.status = "passed" THEN {best} ELSE Newest(set)

Kept(attempts) == UNION {KeptOf(set) : set \in ByTask(attempts)}

\* What the plan deletes: the places of the other attempts that are there.
Doomed == LET all == Attempts IN {a.place : a \in all \ Kept(all)} \cap disk

\* A directory goes with all that is in it.
Removed(place) ==
    {place[1]} \X (CASE place[2] = "job" -> Part
                     [] place[2] = "trial" -> {"trial", "trajectory"}
                     [] OTHER -> {"trajectory"})

\* rebuild with --apply-retention: the ledger, its plan, and the deletions.
ApplyRetention ==
    /\ run = NoRun /\ applied < 3
    /\ disk' = disk \ UNION {Removed(place) : place \in Doomed}
    /\ reported' = Finals
    /\ applied' = applied + 1
    /\ UNCHANGED <<clock, run, rows, pending>>

-----------------------------------------------------------------------------
(* The counts of the report. *)

PassedIn(finals) == {f.task : f \in {g \in finals : g.status = "passed"}}

\* The whole inventory, unless something was observed that is not in it.
Total(finals) ==
    IF finals # {} /\ {f.task : f \in finals} \subseteq Inventory THEN Cardinality(Inventory)
    ELSE Cardinality(finals)

\* The excluded tasks are reported apart, and count in the same way.
Passed(finals) ==
    Cardinality(PassedIn(finals) \ Excluded) + Cardinality(PassedIn(finals) \cap Excluded)

-----------------------------------------------------------------------------
(* The runs. *)

StartRun(tasks) ==
    /\ run = NoRun /\ clock < MaxTime /\ tasks # {}
    /\ clock' = clock + 1
    /\ run' = [at |-> clock', todo |-> tasks]
    /\ UNCHANGED <<disk, rows, pending, reported, applied>>

\* A task of the run, its job in the second the run began in or a later one. 
RunTask(task) ==
    /\ task \in run.todo
    /\ run' = [run EXCEPT !.todo = @ \ {task}]
    /\ clock' \in {clock, clock + 1} /\ clock' <= MaxTime
    /\ \E status \in Status :
          LET j == [task |-> task, run |-> run.at, at |-> clock', status |-> status]
          IN disk' = disk \cup ({j} \X Part) /\ pending' = pending \cup {j}
    /\ applied' = 0
    /\ UNCHANGED <<rows, reported>>

\* A task whose launcher fails, or is timed out, before its trial: a row and nothing else.
LaunchFails(task) ==
    /\ task \in run.todo
    /\ run' = [run EXCEPT !.todo = @ \ {task}]
    /\ LET j == [task |-> task, run |-> run.at, at |-> clock, status |-> "failed"]
       IN pending' = pending \cup {j}
    /\ UNCHANGED <<clock, disk, rows, reported, applied>>

\* The summary is written when the last task has ended.
EndRun ==
    /\ run # NoRun /\ run.todo = {}
    /\ run' = NoRun /\ rows' = rows \cup pending /\ pending' = {} /\ applied' = 0
    /\ UNCHANGED <<clock, disk, reported>>

\* A run that is killed leaves its jobs and no summary.
RunDies ==
    /\ run # NoRun
    /\ run' = NoRun /\ pending' = {}
    /\ UNCHANGED <<clock, disk, rows, reported, applied>>

\* A task started by hand.
RunByHand(task) ==
    /\ run = NoRun /\ clock < MaxTime
    /\ clock' = clock + 1
    /\ \E status \in Status :
          LET j == [task |-> task, run |-> 0, at |-> clock', status |-> status]
          IN disk' = disk \cup ({j} \X Part)
    /\ applied' = 0
    /\ UNCHANGED <<run, rows, pending, reported>>

Next ==
    \/ \E tasks \in SUBSET Task : StartRun(tasks)
    \/ \E task \in Task : RunTask(task) \/ LaunchFails(task) \/ RunByHand(task)
    \/ EndRun \/ RunDies \/ ApplyRetention

Spec == Init /\ [][Next]_vars

-----------------------------------------------------------------------------
TypeOK ==
    /\ clock \in 0..MaxTime /\ applied \in 0..3
    /\ run \in [at : 0..MaxTime, todo : SUBSET Task]
    /\ disk \subseteq Jobs \X Part /\ rows \cup pending \subseteq Jobs
    /\ reported \subseteq [task : Task, at : 1..MaxTime, status : Status]

\* Deleting artifacts changes no final result: the ledger rebuilt from what is left selects the same
\* (build_retention_plan, apply_retention_plan), though attempts that were deleted come back from
\* the jobs they were part of.
FinalsStand == applied > 0 => Finals = reported

\* A task once reported passed stays passed.
PassesStand == PassedIn(reported) \subseteq PassedIn(Finals)

\* Deleting comes to an end: what the first deletion uncovers goes with the second.
DeletionSettles == applied >= 2 => Doomed = {}

\* A trial that is kept has its trajectory, unless the summary of its run tells of it too, at the
\* earlier second the run began in, and thus as another attempt, deleted with the same trajectory.
TrajectoryIsKept ==
    \A a \in Kept(Attempts) : a.place[2] = "trial" =>
        LET j == a.place[1] IN <<j, "trajectory">> \in disk \/ (j \in rows /\ j.at # j.run)

\* No report counts more passes than tasks.
ReportAddsUp == LET finals == Finals IN Passed(finals) <= Total(finals)

=============================================================================
