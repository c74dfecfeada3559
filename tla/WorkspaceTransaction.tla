------------------------ MODULE WorkspaceTransaction ------------------------
(***************************************************************************)
(* Session-owned file changes, their rewind as a recoverable transaction,  *)
(* and the recovery of interrupted ones: workspace/access.py with its      *)
(* callers in workspace/service.py and core/interactive.py.                *)
(*                                                                         *)
(* Sessions of several processes write files of one project under write    *)
(* leases (see WorkspaceLease: here a lease is the set of files a live     *)
(* actor holds), and each write inserts a row into the table "changes".  A *)
(* rewind restores the files a session changed after one of its recovery   *)
(* points together with the session's records, its participants: a row is  *)
(* inserted into the table "transactions", the files are written one by    *)
(* one, then the participants, then one database commit marks the changes  *)
(* reverted and deletes the row.  An exception on the way undoes what was  *)
(* written.  A process that dies leaves its row behind, and the next       *)
(* coordinator that is constructed over the project, by any process, rolls *)
(* it back or refuses to.  Editors outside change files at any time.       *)
(*                                                                         *)
(* The participants of a session (journal, events, metadata, todo) are one *)
(* append-only record here, of which only the length matters.              *)
(***************************************************************************)
EXTENDS Integers, Sequences, FiniteSets, FiniteSetsExt

CONSTANTS
    Session, Proc,      \* the sessions, and the processes that run them
    ProcOf,             \* [Session -> Proc]
    File,               \* files of the project
    Content,            \* what a file may hold, Absent included
    Absent,             \* the file does not exist
    NoPath,             \* the path of a row that limits recovery (NULL)
    None,
    MaxRows,            \* bound: rows of "changes"
    MaxTurns,           \* bound: records of one session
    MaxOutside,         \* bound: edits from outside the workbench
    MaxCrashes,         \* bound: processes that die
    MaxErrors,          \* bound: transactions whose block raises
    MaxRewinds,         \* bound: rewinds the user confirms
    MaxOpens,           \* bound: constructors that find a pending transaction
    RollbackMayFail     \* TRUE if undoing a transaction may raise as well

ASSUME TransactionAssumption ==
    /\ ProcOf \in [Session -> Proc]
    /\ Absent \in Content
    /\ NoPath \notin File /\ None \notin File \cup {NoPath} \cup Session
    /\ File # {} /\ Session \cap Proc = {}   \* a lease is of something, and of one actor
    /\ {MaxRows, MaxTurns, MaxOutside, MaxCrashes, MaxErrors,
        MaxRewinds, MaxOpens} \subseteq Nat
    /\ RollbackMayFail \in BOOLEAN

VARIABLES
    disk,       \* [File -> Content]
    rows,       \* the table "changes", in the order of its sequence column
    txs,        \* the table "transactions"
    log,        \* [Session -> Nat]: length of the session's records
    kept,       \* [Session -> Nat]: history; records of completed turns and rewinds
    points,     \* [Session -> Seq(point)]: its recovery points
    lease,      \* [actor -> SUBSET File]: what live actors hold
    up,         \* [Proc -> BOOLEAN]
    op,         \* [Session -> the file operation it is in]
    rec,        \* [Proc -> the recovery a coordinator under construction is in]
    budget      \* what is left of the bounds on faults

vars == <<disk, rows, txs, log, kept, points, lease, up, op, rec, budget>>

Actor == Session \cup Proc

\* The file operation of a session that is in none.
Resting == [pc |-> "idle", file |-> None, old |-> None, point |-> 0, todo |-> {}]
\* The construction of a coordinator that found nothing to recover.
NotRecovering == [pc |-> "none", queue |-> {}, at |-> None, todo |-> {}]

-----------------------------------------------------------------------------
(* Leases, rows and points.                                                *)

\* No live actor but a holds any of the files: its acquire() is granted.
Free(files, a) == \A b \in Actor \ {a} : lease[b] \cap files = {}

ChangeRow(s, path, before, after) ==
    [session |-> s, path |-> path, before |-> before, after |-> after, reverted |-> FALSE]

\* record(): a row is inserted only for a change that changed something.
Recorded(s, f, before, after) ==
    IF before = after THEN rows ELSE Append(rows, ChangeRow(s, f, before, after))

\* The history kept with the points: f changed, and not through session s.
\* None stands for an editor outside, or a write that was never recorded.
Foreign(s, f) ==
    [t \in Session |->
        IF t = s THEN points[t]
        ELSE [k \in DOMAIN points[t] |->
                [points[t][k] EXCEPT !.foreign = @ \cup {f}]]]

\* owned_changes(): sequence numbers of the session's changes after a cursor.
OwnedChanges(s, cursor) ==
    {i \in cursor + 1..Len(rows) : rows[i].session = s /\ ~rows[i].reverted}

\* ... those of one file, and the files they are about.
ChangesOf(s, cursor, f) == {i \in OwnedChanges(s, cursor) : rows[i].path = f}
ChangedFiles(s, cursor) == {rows[i].path : i \in OwnedChanges(s, cursor)}

\* check_rewind(): an operation nobody could trace lies behind the cursor.
Untraceable(s, cursor) == \E i \in OwnedChanges(s, cursor) : rows[i].path = NoPath

\* The grouping of rewind_transaction: each change of a file starts from what
\* the previous one of the session left.
Chained(s, cursor, f) ==
    \A i, j \in ChangesOf(s, cursor, f) :
        /\ i < j
        /\ \A k \in ChangesOf(s, cursor, f) : k <= i \/ k >= j
        => rows[i].after = rows[j].before

\* The file is as the session's last change of it left it, and no other session
\* changed it since.
IgnoresIntervening(s, cursor, f) ==
    disk[f] = rows[Max(ChangesOf(s, cursor, f))].after
Untouched(s, cursor, f) ==
    LET last == Max(ChangesOf(s, cursor, f))
    IN  /\ disk[f] = rows[last].after
        /\ ~\E j \in last + 1..Len(rows) :
              rows[j].path = f /\ rows[j].session # s /\ ~rows[j].reverted

\* What the rewind writes: the content before the first of the changes.
TargetBeforeLast(s, cursor, f) == rows[Max(ChangesOf(s, cursor, f))].before
Target(s, cursor, f) == rows[Min(ChangesOf(s, cursor, f))].before

\* rewind_transaction goes ahead.
MayRewind(s, cursor) ==
    /\ ~Untraceable(s, cursor)
    /\ \A f \in ChangedFiles(s, cursor) : Chained(s, cursor, f) /\ Untouched(s, cursor, f)

Cursor(s) == points[s][op[s].point].cursor

\* The transaction a session has prepared, while its rewind is under way.
TxOf(s) == CHOOSE x \in txs : x.session = s /\ x.live
WithoutTx(x) == {y \in txs : y.id # x.id}

\* The same rows when the session is no longer in its transaction.
Abandoned(s) == {[x EXCEPT !.live = @ /\ x.session # s] : x \in txs}

\* The smallest number that is no id yet, for a fresh uuid.
FreshId(n) == LET ids == {x.id : x \in txs} IN n \notin ids /\ 1..n - 1 \subseteq ids

-----------------------------------------------------------------------------
Init ==
    /\ disk = [f \in File |-> Absent]
    /\ rows = <<>>
    /\ txs = {}
    /\ log = [s \in Session |-> 0]
    /\ kept = [s \in Session |-> 0]
    /\ points = [s \in Session |-> <<[cursor |-> 0, files |-> disk, foreign |-> {}]>>]
    /\ lease = [a \in Actor |-> {}]
    /\ up = [p \in Proc |-> TRUE]
    /\ op = [s \in Session |-> Resting]
    /\ rec = [p \in Proc |-> NotRecovering]
    /\ budget = [outside |-> MaxOutside, crashes |-> MaxCrashes, errors |-> MaxErrors,
                 rewinds |-> MaxRewinds, opens |-> MaxOpens]

Idle(s) == up[ProcOf[s]] /\ op[s].pc = "idle"

\* A turn of the session ends: its records grow and a recovery point is
\* published at the cursor of the table of changes (_finish_recovery_turn).
CompleteTurn(s) ==
    /\ Idle(s)
    /\ log[s] < MaxTurns
    /\ log' = [log EXCEPT ![s] = @ + 1]
    /\ kept' = [kept EXCEPT ![s] = log'[s]]
    /\ points' = [points EXCEPT ![s] =
                    Append(@, [cursor |-> Len(rows), files |-> disk, foreign |-> {}])]
    /\ UNCHANGED <<disk, rows, txs, lease, up, op, rec, budget>>

\* _path_lock: the lease on the file, and the content it has under it.
WriteBegin(s, f) ==
    /\ Idle(s)
    /\ Len(rows) < MaxRows
    /\ Free({f}, s)
    /\ lease' = [lease EXCEPT ![s] = {f}]
    /\ op' = [op EXCEPT ![s] = [Resting EXCEPT !.pc = "write", !.file = f, !.old = disk[f]]]
    /\ UNCHANGED <<disk, rows, txs, log, kept, points, up, rec, budget>>

\* atomic_bytes, or unlink.
WriteFile(s, v) ==
    LET f == op[s].file
    IN  /\ op[s].pc = "write"
        /\ disk[f] # v
        /\ disk' = [disk EXCEPT ![f] = v]
        /\ points' = Foreign(s, f)
        /\ op' = [op EXCEPT ![s].pc = "written"]
        /\ UNCHANGED <<rows, txs, log, kept, lease, up, rec, budget>>

\* The finally of _path_lock, after the write or instead of it: the file is
\* read again, a difference is recorded, the lease is given back.
WriteEnd(s) ==
    /\ op[s].pc \in {"write", "written"}
    /\ rows' = Recorded(s, op[s].file, op[s].old, disk[op[s].file])
    /\ lease' = [lease EXCEPT ![s] = {}]
    /\ op' = [op EXCEPT ![s] = Resting]
    /\ UNCHANGED <<disk, txs, log, kept, points, up, rec, budget>>

\* A command whose writes cannot be traced leases the project, and limits
\* recovery before it runs (_execute_one with a global or subtree claim).
UntracedBegin(s) ==
    /\ Idle(s)
    /\ Len(rows) < MaxRows
    /\ Free(File, s)
    /\ lease' = [lease EXCEPT ![s] = File]
    /\ rows' = Append(rows, ChangeRow(s, NoPath, None, None))
    /\ op' = [op EXCEPT ![s] = [Resting EXCEPT !.pc = "untraced"]]
    /\ UNCHANGED <<disk, txs, log, kept, points, up, rec, budget>>

UntracedEnd(s) ==
    /\ op[s].pc = "untraced"
    /\ \E f \in File, v \in Content :
          /\ disk' = [disk EXCEPT ![f] = v]
          /\ points' = Foreign(s, f)
    /\ lease' = [lease EXCEPT ![s] = {}]
    /\ op' = [op EXCEPT ![s] = Resting]
    /\ UNCHANGED <<rows, txs, log, kept, up, rec, budget>>

\* An editor outside the workbench, which knows nothing of leases.
OutsideEdit(f, v) ==
    /\ budget.outside > 0
    /\ disk[f] # v
    /\ disk' = [disk EXCEPT ![f] = v]
    /\ points' = Foreign(None, f)
    /\ txs' = {[x EXCEPT !.outside = @ \cup {f}] : x \in txs}
    /\ budget' = [budget EXCEPT !.outside = @ - 1]
    /\ UNCHANGED <<rows, log, kept, lease, up, op, rec>>

-----------------------------------------------------------------------------
(* A rewind.                                                               *)

\* rewind_to_point was confirmed: the lease on the whole project.
RewindBegin(s, k) ==
    /\ Idle(s)
    /\ k \in DOMAIN points[s]
    /\ budget.rewinds > 0
    /\ budget' = [budget EXCEPT !.rewinds = @ - 1]
    /\ Free(File, s)
    /\ lease' = [lease EXCEPT ![s] = File]
    /\ op' = [op EXCEPT ![s] = [Resting EXCEPT !.pc = "check", !.point = k]]
    /\ UNCHANGED <<disk, rows, txs, log, kept, points, up, rec>>

\* A WorkspaceConflict: nothing was written yet.
RewindRefuse(s) ==
    /\ op[s].pc = "check"
    /\ ~MayRewind(s, Cursor(s))
    /\ lease' = [lease EXCEPT ![s] = {}]
    /\ op' = [op EXCEPT ![s] = Resting]
    /\ UNCHANGED <<disk, rows, txs, log, kept, points, up, rec, budget>>

\* The checks pass.
RewindCheck(s) ==
    /\ op[s].pc = "check"
    /\ MayRewind(s, Cursor(s))
    /\ op' = [op EXCEPT ![s].pc = "prepare"]
    /\ UNCHANGED <<disk, rows, txs, log, kept, points, lease, up, rec, budget>>

\* The participants' bytes a transaction saves.
SavedTooShort(s) == log[s] - 1
Saved(s) == log[s]

\* transaction() reads the originals and the participants and inserts its row.
\* History: live, the rewind is under way; cursor, the last change then;
\* outside, the files edited from outside since.
RewindPrepare(s) ==
    LET files == ChangedFiles(s, Cursor(s))
    IN  /\ op[s].pc = "prepare"
        /\ \E n \in 1..MaxRewinds :
              /\ FreshId(n)
              /\ txs' = txs \cup
                    {[id |-> n, session |-> s,
                      before |-> [f \in files |-> disk[f]],
                      after |-> [f \in files |-> Target(s, Cursor(s), f)],
                      saved |-> Saved(s), live |-> TRUE, cursor |-> Len(rows),
                      outside |-> {}]}
        /\ op' = [op EXCEPT ![s].pc = "files", ![s].todo = files]
        /\ UNCHANGED <<disk, rows, log, kept, points, lease, up, rec, budget>>

\* One file of the loop over the changes.
RewindFile(s, f) ==
    /\ op[s].pc = "files"
    /\ f \in op[s].todo
    /\ disk' = [disk EXCEPT ![f] = TxOf(s).after[f]]
    /\ points' = Foreign(s, f)
    /\ op' = [op EXCEPT ![s].todo = @ \ {f}]
    /\ UNCHANGED <<rows, txs, log, kept, lease, up, rec, budget>>

\* The block under the transaction: the rewind is noted in the session's
\* journal, events and metadata, and the todo list is put back.
RewindParticipants(s) ==
    /\ op[s].pc = "files"
    /\ op[s].todo = {}
    /\ log' = [log EXCEPT ![s] = @ + 1]
    /\ op' = [op EXCEPT ![s].pc = "commit"]
    /\ UNCHANGED <<disk, rows, txs, kept, points, lease, up, rec, budget>>

\* One commit reverts the changes and deletes the transaction; then the session
\* continues from the point, and points after it are no longer offered.
RewindCommitLeavingRow(s) ==
    /\ op[s].pc = "commit"
    /\ rows' = [i \in DOMAIN rows |->
                  [rows[i] EXCEPT !.reverted = @ \/ i \in OwnedChanges(s, Cursor(s))]]
    /\ txs' = Abandoned(s)
    /\ kept' = [kept EXCEPT ![s] = log[s]]
    /\ points' = [points EXCEPT ![s] = SubSeq(@, 1, op[s].point)]
    /\ lease' = [lease EXCEPT ![s] = {}]
    /\ op' = [op EXCEPT ![s] = Resting]
    /\ UNCHANGED <<disk, log, up, rec, budget>>
RewindCommit(s) ==
    /\ op[s].pc = "commit"
    /\ rows' = [i \in DOMAIN rows |->
                  [rows[i] EXCEPT !.reverted = @ \/ i \in OwnedChanges(s, Cursor(s))]]
    /\ txs' = WithoutTx(TxOf(s))
    /\ kept' = [kept EXCEPT ![s] = log[s]]
    /\ points' = [points EXCEPT ![s] = SubSeq(@, 1, op[s].point)]
    /\ lease' = [lease EXCEPT ![s] = {}]
    /\ op' = [op EXCEPT ![s] = Resting]
    /\ UNCHANGED <<disk, log, up, rec, budget>>

\* A write, the block or the commit raises: everything is to be undone.
RewindError(s) ==
    /\ op[s].pc \in {"files", "commit"}
    /\ budget.errors > 0
    /\ budget' = [budget EXCEPT !.errors = @ - 1]
    /\ op' = [op EXCEPT ![s].pc = "undo", ![s].todo = DOMAIN TxOf(s).before]
    /\ UNCHANGED <<disk, rows, txs, log, kept, points, lease, up, rec>>

\* The except of transaction(): each original is put back, written or not,
RollbackFile(s, f) ==
    /\ op[s].pc = "undo"
    /\ f \in op[s].todo
    /\ disk' = [disk EXCEPT ![f] = TxOf(s).before[f]]
    /\ points' = Foreign(s, f)
    /\ op' = [op EXCEPT ![s].todo = @ \ {f}]
    /\ UNCHANGED <<rows, txs, log, kept, lease, up, rec, budget>>

\* ... then the participants, and the row is deleted.
RollbackDone(s) ==
    /\ op[s].pc = "undo"
    /\ op[s].todo = {}
    /\ log' = [log EXCEPT ![s] = TxOf(s).saved]
    /\ txs' = WithoutTx(TxOf(s))
    /\ lease' = [lease EXCEPT ![s] = {}]
    /\ op' = [op EXCEPT ![s] = Resting]
    /\ UNCHANGED <<disk, rows, kept, points, up, rec, budget>>

\* The file that could not be written cannot be restored either: the exception
\* leaves the except block, the row stays.  rewind_to_point puts its own copies
\* of the participants back, the lease is given back, the session goes on.
RollbackError(s) ==
    /\ RollbackMayFail
    /\ op[s].pc = "undo"
    /\ op[s].todo # {}
    /\ log' = [log EXCEPT ![s] = TxOf(s).saved]
    /\ txs' = Abandoned(s)
    /\ lease' = [lease EXCEPT ![s] = {}]
    /\ op' = [op EXCEPT ![s] = Resting]
    /\ UNCHANGED <<disk, rows, kept, points, up, rec, budget>>

-----------------------------------------------------------------------------
(* Processes die; coordinators are constructed and recover.                *)

\* A process dies.  A file it had written without a row yet is changed for
\* everybody, its own session included.
Crash(p) ==
    LET lost == {op[s].file : s \in {t \in Session : ProcOf[t] = p /\ op[t].pc = "written"}}
    IN  /\ up[p]
        /\ budget.crashes > 0
        /\ budget' = [budget EXCEPT !.crashes = @ - 1]
        /\ up' = [up EXCEPT ![p] = FALSE]
        /\ lease' = [a \in Actor |->
                        IF a = p \/ (a \in Session /\ ProcOf[a] = p) THEN {} ELSE lease[a]]
        /\ op' = [s \in Session |-> IF ProcOf[s] = p THEN Resting ELSE op[s]]
        /\ rec' = [rec EXCEPT ![p] = NotRecovering]
        /\ txs' = {[x EXCEPT !.live = @ /\ ProcOf[x.session] # p] : x \in txs}
        /\ points' = [t \in Session |->
                        [k \in DOMAIN points[t] |->
                            [points[t][k] EXCEPT !.foreign = @ \cup lost]]]
        /\ UNCHANGED <<disk, rows, log, kept>>

\* The constructor finds the table of transactions empty.
OpenClean(p) ==
    /\ ~up[p]
    /\ rec[p].pc = "none"
    /\ txs = {}
    /\ up' = [up EXCEPT ![p] = TRUE]
    /\ UNCHANGED <<disk, rows, txs, log, kept, points, lease, op, rec, budget>>

\* It finds a row, be it of a live transaction; the process may be starting, or
\* run already and construct one more coordinator (another session, a shell).
OpenPending(p) ==
    /\ rec[p].pc = "none"
    /\ txs # {}
    /\ budget.opens > 0
    /\ budget' = [budget EXCEPT !.opens = @ - 1]
    /\ rec' = [rec EXCEPT ![p].pc = "lease"]
    /\ UNCHANGED <<disk, rows, txs, log, kept, points, lease, up, op>>

\* The construction is over: a starting process is now up.
Opened(p) ==
    /\ rec' = [rec EXCEPT ![p] = NotRecovering]
    /\ up' = [up EXCEPT ![p] = TRUE]
    /\ lease' = [lease EXCEPT ![p] = {}]

\* recover_interrupted() gets the lease on the project and reads the rows anew.
RecoverLease(p) ==
    /\ rec[p].pc = "lease"
    /\ Free(File, p)
    /\ lease' = [lease EXCEPT ![p] = File]
    /\ rec' = [rec EXCEPT ![p].pc = "check", ![p].queue = txs]
    /\ UNCHANGED <<disk, rows, txs, log, kept, points, up, op, budget>>

\* Neither the original nor the new content: a later change that is not to be
\* overwritten.
ChangedLater(x) == \E f \in DOMAIN x.before : disk[f] \notin {x.before[f], x.after[f]}

\* WorkspaceConflict leaves the constructor: the row stays, and so does the
\* process, down if it was starting.  The rows come in any order.
RecoverRefuse(p) ==
    /\ rec[p].pc = "check"
    /\ \E x \in rec[p].queue : ChangedLater(x)
    /\ rec' = [rec EXCEPT ![p] = NotRecovering]
    /\ lease' = [lease EXCEPT ![p] = {}]
    /\ UNCHANGED <<disk, rows, txs, log, kept, points, up, op, budget>>

RecoverCheck(p) ==
    /\ rec[p].pc = "check"
    /\ \E x \in rec[p].queue :
          /\ ~ChangedLater(x)
          /\ rec' = [rec EXCEPT ![p].pc = "restore", ![p].at = x, ![p].todo = DOMAIN x.before]
    /\ UNCHANGED <<disk, rows, txs, log, kept, points, lease, up, op, budget>>

RecoverFile(p, f) ==
    LET x == rec[p].at
    IN  /\ rec[p].pc = "restore"
        /\ f \in rec[p].todo
        /\ disk' = [disk EXCEPT ![f] = x.before[f]]
        /\ points' = Foreign(x.session, f)
        /\ rec' = [rec EXCEPT ![p].todo = @ \ {f}]
        /\ UNCHANGED <<rows, txs, log, kept, lease, up, op, budget>>

\* The participants are put back without a look at what they hold now.
RecoverParticipantsForgotten(p) ==
    /\ rec[p].pc = "restore"
    /\ rec[p].todo = {}
    /\ rec' = [rec EXCEPT ![p].pc = "delete"]
    /\ UNCHANGED <<disk, rows, txs, log, kept, points, lease, up, op, budget>>
RecoverParticipants(p) ==
    LET x == rec[p].at
    IN  /\ rec[p].pc = "restore"
        /\ rec[p].todo = {}
        /\ log' = [log EXCEPT ![x.session] = x.saved]
        /\ rec' = [rec EXCEPT ![p].pc = "delete"]
        /\ UNCHANGED <<disk, rows, txs, kept, points, lease, up, op, budget>>

RecoverDelete(p) ==
    /\ rec[p].pc = "delete"
    /\ txs' = WithoutTx(rec[p].at)
    /\ rec' = [rec EXCEPT ![p].pc = "check", ![p].queue = @ \ {rec[p].at}, ![p].at = None]
    /\ UNCHANGED <<disk, rows, log, kept, points, lease, up, op, budget>>

RecoverDone(p) ==
    /\ rec[p].pc = "check"
    /\ rec[p].queue = {}
    /\ Opened(p)
    /\ UNCHANGED <<disk, rows, txs, log, kept, points, op, budget>>

-----------------------------------------------------------------------------
\* The steps of an operation that has begun; its process schedules them.
Proceed(s) ==
    \/ \E v \in Content : WriteFile(s, v)
    \/ WriteEnd(s)
    \/ UntracedEnd(s)
    \/ RewindRefuse(s)
    \/ RewindCheck(s)
    \/ RewindPrepare(s)
    \/ \E f \in File : RewindFile(s, f)
    \/ RewindParticipants(s)
    \/ RewindCommit(s)
    \/ \E f \in File : RollbackFile(s, f)
    \/ RollbackDone(s)
    \/ RollbackError(s)

Recover(p) ==
    \/ RecoverLease(p)
    \/ RecoverRefuse(p)
    \/ RecoverCheck(p)
    \/ \E f \in File : RecoverFile(p, f)
    \/ RecoverParticipants(p)
    \/ RecoverDelete(p)
    \/ RecoverDone(p)

Next ==
    \/ \E s \in Session :
        \/ CompleteTurn(s)
        \/ \E f \in File : WriteBegin(s, f)
        \/ UntracedBegin(s)
        \/ \E k \in 1..MaxTurns + 1 : RewindBegin(s, k)
        \/ RewindError(s)
        \/ Proceed(s)
    \/ \E f \in File, v \in Content : OutsideEdit(f, v)
    \/ \E p \in Proc : Crash(p) \/ OpenClean(p) \/ OpenPending(p) \/ Recover(p)

Spec == Init /\ [][Next]_vars

\* Operations and recoveries that have begun go on; no operation must begin.
FairSpec ==
    /\ Spec
    /\ \A s \in Session : WF_vars(Proceed(s))
    /\ \A p \in Proc : WF_vars(Recover(p))

-----------------------------------------------------------------------------
(* What makes it correct.                                                  *)

RowType ==
    [session: Session, path: File \cup {NoPath}, before: Content \cup {None},
     after: Content \cup {None}, reverted: BOOLEAN]

OpType ==
    [pc: {"idle", "write", "written", "untraced", "check", "prepare", "files", "commit", "undo"},
     file: File \cup {None}, old: Content \cup {None}, point: Nat, todo: SUBSET File]

TxOK(x) ==
    /\ x.session \in Session
    /\ x.saved \in Nat
    /\ DOMAIN x.before \in SUBSET File
    /\ x.before \in [DOMAIN x.before -> Content]
    /\ x.after \in [DOMAIN x.before -> Content]

PointOK(point) ==
    /\ point.cursor \in 0..Len(rows)
    /\ point.files \in [File -> Content]
    /\ point.foreign \subseteq File

TypeOK ==
    /\ disk \in [File -> Content]
    /\ \A i \in DOMAIN rows : rows[i] \in RowType
    /\ \A x \in txs : TxOK(x)
    /\ log \in [Session -> Nat]
    /\ kept \in [Session -> Nat]
    /\ \A s \in Session : \A k \in DOMAIN points[s] : PointOK(points[s][k])
    /\ lease \in [Actor -> SUBSET File]
    /\ up \in [Proc -> BOOLEAN]
    /\ op \in [Session -> OpType]
    /\ \A p \in Proc : rec[p].pc \in {"none", "lease", "check", "restore", "delete"}

\* A rewind that is about to commit has put every file back to what it held at
\* the recovery point, except the files that somebody else changed since (they
\* are not the session's to restore).  Whatever mixture of recorded writes,
\* failed writes, earlier rewinds, untraced commands, crashes and recoveries
\* happened in between, changes of the session itself never survive unnoticed.
RewindRestoresPoint ==
    \A s \in DOMAIN op : op[s].pc = "commit" =>
        LET point == points[s][op[s].point]
        IN  \A f \in DOMAIN disk \ (point.foreign \cup TxOf(s).outside) : disk[f] = point.files[f]

\* From the checks to the commit, each file a rewind writes was last changed by
\* the session itself, and nobody else is writing it: the lease on the project
\* covers the checks and the writes (rewind_transaction).
RewindTouchesOwnWork ==
    \A s \in DOMAIN op : op[s].pc \in {"prepare", "files", "commit"} =>
        \A f \in ChangedFiles(s, Cursor(s)) :
            /\ \A t \in DOMAIN op \ {s} : op[t].file # f
            /\ \A j \in DOMAIN rows :
                  rows[j].path = f /\ rows[j].session # s /\ ~rows[j].reverted =>
                      \E i \in ChangesOf(s, Cursor(s), f) : j < i

\* A rewind restores its point, and touches nothing but what its session wrote
\* (WorkspaceService.rewind).
RewindsAreExact == RewindRestoresPoint /\ RewindTouchesOwnWork

\* All files, all participants and the changes' marks: a transaction that is
\* over happened completely or not at all, be it ended by its commit, by its
\* except block or by recover_interrupted() in another process.
FilesAre(x, content) ==
    \A f \in DOMAIN content \ x.outside : disk'[f] = content[f]
Undone(x) ==
    /\ FilesAre(x, x.before)
    /\ log'[x.session] = x.saved
    /\ rows' = rows
Done(x) ==
    /\ x.live
    /\ FilesAre(x, x.after)
    /\ log'[x.session] = x.saved + 1
    /\ \A i \in Cursor(x.session) + 1..Len(rows) :
          rows'[i].session = x.session => rows'[i].reverted
EndsWhole ==
    \A x \in txs : (\A y \in txs' : y.id # x.id) => Undone(x) \/ Done(x)
AllOrNothing == [][EndsWhole]_vars

\* Records of completed turns and of committed rewinds are never lost again:
\* no rollback and no recovery cuts the journal and the events below them.
CompletedTurnsSurvive == \A s \in DOMAIN log : log[s] >= kept[s]

\* No file operation of a live session runs while interrupted transactions are
\* being rolled back: a pending row may belong to a live rewind, and only the
\* lease tells (recover_interrupted re-reads the rows under it).
RecoveryRunsAlone ==
    \A p \in DOMAIN rec : rec[p].pc \in {"check", "restore", "delete"} =>
        \A s \in DOMAIN op : op[s].pc = "idle"

\* Recovery keeps the turns that completed, and the work under way.
WorkSurvivesRecovery == CompletedTurnsSurvive /\ RecoveryRunsAlone

\* Once the sessions come to rest, the construction of a coordinator ends, with
\* every transaction rolled back or with a refusal: no refused, failed, killed
\* or finished operation leaves the project leased.
RecoveryEnds ==
    <>[](\A s \in Session : op[s].pc = "idle") =>
        \A p \in Proc : rec[p].pc # "none" ~> rec[p].pc = "none"

\* Recovery leaves alone what another session changed after the transaction was
\* interrupted, as its refusal says it does ("an unfinished transaction met
\* later modifications, the scene is kept").
RecoveryKeepsLaterChanges ==
    \A p \in Proc : rec[p].pc = "restore" =>
        LET x == rec[p].at
        IN  \A f \in rec[p].todo : disk[f] # x.before[f] =>
                ~\E j \in x.cursor + 1..Len(rows) :
                    rows[j].path = f /\ rows[j].session # x.session /\ ~rows[j].reverted

=============================================================================
