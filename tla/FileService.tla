----------------------------- MODULE FileService -----------------------------
(***************************************************************************)
(* Reading and writing files through WorkspaceService (workspace/service   *)
(* .py) and the tools over it (runtime/builtins/filesystem.py).            *)
(*                                                                         *)
(* Each session has one service; its main agent, the tool calls it makes   *)
(* in parallel and its read-only subagents share it (each is an "agent"    *)
(* here). The service remembers the version of each file it saw last and   *)
(* refuses a write when the file has another one by now. A write leases    *)
(* its files (see WorkspaceLease: leases exclude other sessions only) and  *)
(* then locks them within its service, one by one in the order of their    *)
(* names; it checks, writes, charges the quota and lets go. A batch, which *)
(* applies the proposal of a subagent, puts every file back if one fails.  *)
(* Programs outside change files at any time.                              *)
(***************************************************************************)
EXTENDS Integers, Sequences, FiniteSets, SequencesExt, FiniteSetsExt

CONSTANTS
    Agent, Service,
    ServiceOf,      \* [Agent -> Service]
    Readers,        \* the agents whose role does not let them write
    Sorted,         \* the files, in the order of their names
    Content,        \* what a file may hold, Absent included
    Absent,
    Unobserved,     \* the service never saw a version of the file
    Size,           \* [Content -> bytes]
    Quota,          \* WORKSPACE_WRITE_QUOTA_BYTES
    Obedient,       \* an agent whose read failed halfway writes the file only
                    \* after a read of it that succeeded
    MaxWrites,      \* bound: writes begun
    MaxOutside,     \* bound: edits from outside
    MaxErrors,      \* bound: writes that raise
    UndoMayFail     \* TRUE if putting a batch back may raise as well

File == ToSet(Sorted)

ASSUME FileAssumption ==
    /\ ServiceOf \in [Agent -> Service] /\ Readers \subseteq Agent
    /\ Sorted \in Seq(File) \ {<<>>}
    /\ \A i, j \in DOMAIN Sorted : Sorted[i] = Sorted[j] => i = j
    /\ Absent \in Content /\ Unobserved \notin Content
    /\ Size \in [Content -> Nat] /\ Size[Absent] = 0
    /\ Quota \in Nat \ {0}           \* 0 switches it off
    /\ {MaxWrites, MaxOutside, MaxErrors} \subseteq Nat
    /\ {Obedient, UndoMayFail} \subseteq BOOLEAN

VARIABLES
    disk,       \* [File -> Content]
    versions,   \* [Service -> [File -> Content or Unobserved]]: _versions
    charged,    \* [Service -> Nat]: _charged_bytes
    op,         \* [Agent -> the write it is in]
    read,       \* [Agent -> the read_file it is in]
    seen,       \* [Agent -> [File -> Content]]: history, read or written last
    told,       \* [Agent -> SUBSET File]: reads that failed, to be repeated
    fresh,      \* [Agent -> SUBSET File]: history, read and not changed since
    raced,      \* SUBSET File: history, edited outside in the middle of a write
    budget      \* what is left of the bounds

vars == <<disk, versions, charged, op, read, seen, told, fresh, raced, budget>>

NoWrite ==
    [pc |-> "idle", kind |-> "none", todo |-> <<>>, held |-> <<>>, locked |-> {},
     new |-> <<>>, base |-> <<>>, old |-> <<>>, rest |-> <<>>, raised |-> FALSE]
NoRead == [pc |-> "idle", file |-> Head(Sorted), moved |-> FALSE]

Idle(a) == op[a].pc = "idle" /\ read[a].pc = "idle"
Siblings(a) == {b \in Agent \ {a} : ServiceOf[b] = ServiceOf[a]}
Strangers(a) == {b \in Agent : ServiceOf[b] # ServiceOf[a]}

\* A file changes: reads under way will notice, what agents read is outdated.
Touched(f) ==
    /\ read' = [a \in Agent |->
                    [read[a] EXCEPT !.moved = @ \/ (read[a].pc # "idle" /\ read[a].file = f)]]
    /\ fresh' = [a \in Agent |-> fresh[a] \ {f}]

Init ==
    /\ disk \in [File -> Content]
    /\ versions = [s \in Service |-> [f \in File |-> Unobserved]]
    /\ charged = [s \in Service |-> 0]
    /\ op = [a \in Agent |-> NoWrite]
    /\ read = [a \in Agent |-> NoRead]
    /\ seen = [a \in Agent |-> [f \in File |-> Absent]]
    /\ told = [a \in Agent |-> {}]
    /\ fresh = [a \in Agent |-> {}]
    /\ raced = {}
    /\ budget = [writes |-> MaxWrites, outside |-> MaxOutside, errors |-> MaxErrors]

-----------------------------------------------------------------------------
(* read_file takes no lock: it compares the file's status before and after.*)

\* The file is not there: the read fails and no version is noted.
ReadMissing(a, f) ==
    /\ Idle(a)
    /\ disk[f] = Absent
    /\ fresh' = [fresh EXCEPT ![a] = @ \cup {f}]
    /\ UNCHANGED <<disk, versions, charged, op, read, seen, told, raced, budget>>

ReadBegin(a, f) ==
    /\ Idle(a)
    /\ disk[f] # Absent
    /\ f \notin fresh[a]             \* bound: to read it again changes nothing
    /\ read' = [read EXCEPT ![a] = [pc |-> "digest", file |-> f, moved |-> FALSE]]
    /\ UNCHANGED <<disk, versions, charged, op, seen, told, fresh, raced, budget>>

\* The version is noted before the content is read.  A file that is gone by
\* now raises here.
ReadDigest(a) ==
    LET f == read[a].file
    IN  /\ read[a].pc = "digest"
        /\ \/ /\ disk[f] = Absent
              /\ read' = [read EXCEPT ![a] = NoRead]
              /\ told' = [told EXCEPT ![a] = @ \cup {f}]
              /\ UNCHANGED versions
           \/ /\ disk[f] # Absent
              /\ versions' = [versions EXCEPT ![ServiceOf[a]][f] = disk[f]]
              /\ read' = [read EXCEPT ![a].pc = "lines"]
              /\ UNCHANGED told
        /\ UNCHANGED <<disk, charged, op, seen, fresh, raced, budget>>

\* The lines are returned, unless the file changed since the read began.
ReadEnd(a) ==
    LET f == read[a].file
    IN  /\ read[a].pc = "lines"
        /\ IF read[a].moved
           THEN /\ told' = [told EXCEPT ![a] = @ \cup {f}]
                /\ UNCHANGED <<seen, fresh>>
           ELSE /\ told' = [told EXCEPT ![a] = @ \ {f}]
                /\ seen' = [seen EXCEPT ![a][f] = disk[f]]
                /\ fresh' = [fresh EXCEPT ![a] = @ \cup {f}]
        /\ read' = [read EXCEPT ![a] = NoRead]
        /\ UNCHANGED <<disk, versions, charged, op, raced, budget>>

-----------------------------------------------------------------------------
(* The writes: write_text, apply_text_patch, write_text_batch.             *)

\* The order in which the files of a write are leased and locked: that of their names.
OrdersAsGiven(files) == {order \in [1 .. Cardinality(files) -> files] : ToSet(order) = files}
InOrder(order) ==
    \A i, j \in DOMAIN order :
        i < j => \E k, l \in DOMAIN Sorted : k < l /\ Sorted[k] = order[i] /\ Sorted[l] = order[j]
Orders(files) == {order \in OrdersAsGiven(files) : InOrder(order)}

Begin(a, kind, new, base) ==
    /\ a \notin Readers
    /\ Idle(a)
    /\ budget.writes > 0
    /\ budget' = [budget EXCEPT !.writes = @ - 1]
    /\ \E order \in Orders(DOMAIN new) :
          op' = [op EXCEPT ![a] = [NoWrite EXCEPT
                    !.pc = "lease", !.kind = kind, !.todo = order, !.new = new, !.base = base]]
    /\ UNCHANGED <<disk, versions, charged, read, seen, told, fresh, raced>>

\* write_file: new content for a file as the agent knows it.
WriteBegin(a, f, v) ==
    /\ Obedient => f \notin told[a]
    /\ Begin(a, "write", [g \in {f} |-> v], [g \in {f} |-> seen[a][f]])

\* apply_patch: the new content is made from the current one, under the lock.
PatchBegin(a, f, v) ==
    Begin(a, "patch", [g \in {f} |-> v], [g \in {f} |-> Absent])

\* A proposal is merged with the files as they are, without a lock; they are
\* the expected versions of the batch.
BatchBegin(a, new) ==
    Begin(a, "batch", new, [f \in DOMAIN new |-> disk[f]])

Raise(a) == op' = [op EXCEPT ![a].pc = "end", ![a].raised = TRUE]

\* The lease on the next file.
Lease(a) ==
    LET f == Head(op[a].todo)
    IN  /\ op[a].pc = "lease"
        /\ \A b \in Strangers(a) : f \notin ToSet(op[b].held)
        /\ op' = [op EXCEPT ![a].pc = "lock", ![a].todo = Tail(@), ![a].held = Append(@, f)]
        /\ UNCHANGED <<disk, versions, charged, read, seen, told, fresh, raced, budget>>

\* The version to be found: what the service saw last, or what is expected.
VersionIgnored(a, f) == FALSE
VersionMoved(a, f) ==
    IF op[a].kind = "batch" THEN op[a].base[f] # disk[f]
    ELSE versions[ServiceOf[a]][f] \notin {Unobserved, disk[f]}

\* The lock on it, and the comparison of versions of _path_lock.
Lock(a) ==
    LET f == Last(op[a].held)
    IN  /\ op[a].pc = "lock"
        /\ \A b \in Siblings(a) : f \notin op[b].locked
        /\ op' = [op EXCEPT ![a].locked = @ \cup {f},
                            ![a].raised = VersionMoved(a, f),
                            ![a].pc = CASE VersionMoved(a, f) -> "end"
                                        [] ~VersionMoved(a, f) /\ op[a].todo # <<>> -> "lease"
                                        [] OTHER -> "check"]
        /\ UNCHANGED <<disk, versions, charged, read, seen, told, fresh, raced, budget>>

\* A file that exists must have been read before it is written over; a patch
\* needs the file, and its search text in it.
MayFail(a) ==
    \E f \in DOMAIN op[a].new :
        \/ /\ op[a].kind = "write"
           /\ disk[f] # Absent /\ versions[ServiceOf[a]][f] = Unobserved
        \/ op[a].kind = "patch" /\ disk[f] = Absent

Bytes(content) == FoldSet(LAMBDA f, n : n + Size[content[f]], 0, DOMAIN content)
NetBytes(a) == Bytes(op[a].new) - Bytes(op[a].old)

\* The checks pass: the originals are read.
Check(a) ==
    LET files == DOMAIN op[a].new
        old == [f \in files |-> disk[f]]
    IN  /\ op[a].pc = "check"
        /\ ~MayFail(a)
        /\ op' = [op EXCEPT ![a].pc = "quota", ![a].old = old, ![a].rest = op[a].held,
                            ![a].base = IF op[a].kind = "patch" THEN old ELSE @]
        /\ UNCHANGED <<disk, versions, charged, read, seen, told, fresh, raced, budget>>

\* They do not, or the search text of a patch does not match exactly once.
CheckFails(a) ==
    /\ op[a].pc = "check"
    /\ MayFail(a) \/ op[a].kind = "patch"
    /\ Raise(a)
    /\ UNCHANGED <<disk, versions, charged, read, seen, told, fresh, raced, budget>>

\* _check_write_quota
QuotaUnchecked(a) == FALSE
OverQuota(a) == NetBytes(a) > 0 /\ charged[ServiceOf[a]] + NetBytes(a) > Quota

CheckQuota(a) ==
    /\ op[a].pc = "quota"
    /\ op' = [op EXCEPT ![a].pc = IF OverQuota(a) THEN "end" ELSE "put",
                        ![a].raised = OverQuota(a)]
    /\ UNCHANGED <<disk, versions, charged, read, seen, told, fresh, raced, budget>>

\* atomic_bytes for one file; the files of a batch are written one by one.
Put(a) ==
    LET f == Head(op[a].rest)
    IN  /\ op[a].pc = "put"
        /\ disk' = [disk EXCEPT ![f] = op[a].new[f]]
        /\ Touched(f)
        /\ op' = [op EXCEPT ![a].rest = Tail(@),
                            ![a].pc = IF Len(op[a].rest) = 1 THEN "charge" ELSE "put"]
        /\ UNCHANGED <<versions, charged, seen, told, raced, budget>>

\* It raises.  A batch puts all of its files back,
\* written or not, the last one first.
PutErrorKeepsBatch(a) ==
    /\ op[a].pc = "put"
    /\ budget.errors > 0
    /\ budget' = [budget EXCEPT !.errors = @ - 1]
    /\ Raise(a)
    /\ UNCHANGED <<disk, versions, charged, read, seen, told, fresh, raced>>
PutError(a) ==
    /\ op[a].pc = "put"
    /\ budget.errors > 0
    /\ budget' = [budget EXCEPT !.errors = @ - 1]
    /\ IF op[a].kind = "batch"
       THEN op' = [op EXCEPT ![a].pc = "undo", ![a].raised = TRUE, ![a].rest = Reverse(op[a].held)]
       ELSE Raise(a)
    /\ UNCHANGED <<disk, versions, charged, read, seen, told, fresh, raced>>

Undo(a) ==
    LET f == Head(op[a].rest)
    IN  /\ op[a].pc = "undo"
        /\ disk' = [disk EXCEPT ![f] = op[a].old[f]]
        /\ Touched(f)
        /\ op' = [op EXCEPT ![a].rest = Tail(@),
                            ![a].pc = IF Len(op[a].rest) = 1 THEN "end" ELSE "undo"]
        /\ UNCHANGED <<versions, charged, seen, told, raced, budget>>

\* Putting a file back raises as well: the rest stays as it is.
UndoError(a) ==
    /\ UndoMayFail
    /\ op[a].pc = "undo"
    /\ Raise(a)
    /\ UNCHANGED <<disk, versions, charged, read, seen, told, fresh, raced, budget>>

\* _charge_quota
ChargeNet(a) ==
    /\ op[a].pc = "charge"
    /\ charged' = [charged EXCEPT ![ServiceOf[a]] = @ + NetBytes(a)]
    /\ op' = [op EXCEPT ![a].pc = "end"]
    /\ UNCHANGED <<disk, versions, read, seen, told, fresh, raced, budget>>
Charge(a) ==
    /\ op[a].pc = "charge"
    /\ charged' = [charged EXCEPT ![ServiceOf[a]] = @ + Max({0, NetBytes(a)})]
    /\ op' = [op EXCEPT ![a].pc = "end"]
    /\ UNCHANGED <<disk, versions, read, seen, told, fresh, raced, budget>>

\* The finally of _path_lock, last file first: the version is noted when the
\* body came to its end, then the lock and the lease are given back.
End(a) ==
    LET f == Last(op[a].held)
        rest == Front(op[a].held)
        done == ~op[a].raised
    IN  /\ op[a].pc = "end"
        /\ versions' = IF done THEN [versions EXCEPT ![ServiceOf[a]][f] = disk[f]] ELSE versions
        /\ seen' = IF done THEN [seen EXCEPT ![a][f] = op[a].new[f]] ELSE seen
        /\ op' = [op EXCEPT ![a] = IF rest = <<>> THEN NoWrite
                                   ELSE [op[a] EXCEPT !.held = rest, !.locked = op[a].locked \ {f}]]
        /\ UNCHANGED <<disk, charged, read, told, fresh, raced, budget>>

\* An editor, or a shell in the background, which knows nothing of leases.
OutsideEdit(f, v) ==
    /\ budget.outside > 0
    /\ disk[f] # v
    /\ budget' = [budget EXCEPT !.outside = @ - 1]
    /\ disk' = [disk EXCEPT ![f] = v]
    /\ Touched(f)
    /\ raced' = IF \E a \in Agent : f \in op[a].locked THEN raced \cup {f} ELSE raced
    /\ UNCHANGED <<versions, charged, op, seen, told>>

Proceed(a) ==
    \/ ReadDigest(a)
    \/ ReadEnd(a)
    \/ Lease(a)
    \/ Lock(a)
    \/ Check(a)
    \/ CheckFails(a)
    \/ CheckQuota(a)
    \/ Put(a)
    \/ Undo(a)
    \/ UndoError(a)
    \/ Charge(a)
    \/ End(a)

Next ==
    \/ \E a \in Agent :
        \/ \E f \in File : ReadMissing(a, f) \/ ReadBegin(a, f)
        \/ \E f \in File, v \in Content \ {Absent} : WriteBegin(a, f, v) \/ PatchBegin(a, f, v)
        \/ \E new \in [File -> Content \ {Absent}] : BatchBegin(a, new)
        \/ PutError(a)
        \/ Proceed(a)
    \/ \E f \in File, v \in Content : OutsideEdit(f, v)

Spec == Init /\ [][Next]_vars

\* A read or a write that has begun goes on.
FairSpec == Spec /\ \A a \in Agent : WF_vars(Proceed(a))

-----------------------------------------------------------------------------
OpType(o) ==
    /\ o.pc \in {"idle", "lease", "lock", "check", "quota", "put", "undo", "charge", "end"}
    /\ o.locked \subseteq ToSet(o.held)
    /\ ToSet(o.held) \cup ToSet(o.todo) \subseteq File
    /\ ToSet(o.rest) \subseteq DOMAIN o.new

TypeOK ==
    /\ disk \in [File -> Content]
    /\ versions \in [Service -> [File -> Content \cup {Unobserved}]]
    /\ charged \in [Service -> Nat]
    /\ \A a \in Agent : OpType(op[a])
    /\ read \in [Agent -> [pc: {"idle", "digest", "lines"}, file: File, moved: BOOLEAN]]
    /\ seen \in [Agent -> [File -> Content]]
    /\ told \in [Agent -> SUBSET File]

\* No lost update: the content a write is about to replace is the content it
\* was made from: what the agent read or wrote last, what the batch was merged
\* with, what the patch found.  Neither another session nor a program outside
\* changed the file in between, unless it did so in the middle of the write,
\* which nothing can prevent (the versions of _path_lock).
NoLostUpdate ==
    \A a \in Agent : op[a].pc = "put" =>
        \A f \in ToSet(op[a].rest) \ raced : disk[f] = op[a].base[f]

\* A batch that lets go of its files has written all of them or none.
BatchAtomic ==
    \A a \in Agent : op[a].kind = "batch" /\ op[a].pc = "end" =>
        LET held == ToSet(op[a].held) \ raced
        IN  IF op[a].raised
            THEN op[a].old # <<>> => \A f \in held : disk[f] = op[a].old[f]
            ELSE \A f \in held : disk[f] = op[a].new[f]

\* A session never charges more than its quota (_check_write_quota rejects a
\* write that would cross it).
QuotaHolds == \A s \in Service : charged[s] <= Quota

\* Every read and write that has begun ends: two batches, or a batch and a
\* write of a sibling, never wait for each other's leases and locks.
OperationsEnd == \A a \in Agent : ~Idle(a) ~> Idle(a)

\* A write refused because the file has changed is accepted after the agent
\* has tried to read the file again and nothing has changed since, as the
\* refusal says ("the version has changed, read again and recompute").
RereadAccepted ==
    \A a \in Agent : op[a].kind = "write" /\ op[a].pc = "lock" =>
        LET f == Last(op[a].held)
        IN  f \in fresh[a] => ~VersionMoved(a, f)

=============================================================================
