--------------------------- MODULE WorkspaceLease ---------------------------
(***************************************************************************)
(* The project-wide write leases of workspace/access.py.                   *)
(*                                                                         *)
(* Threads of several processes share one SQLite database.  A thread asks  *)
(* for a set of write claims by scanning the rows of the table "leases" in *)
(* one immediate transaction: the rows of dead processes are deleted, and  *)
(* the thread's own row is inserted unless a row of another owner          *)
(* conflicts with it.  A blocked thread sleeps for 50ms and scans again.   *)
(* Leases nest: a tool call holds a lease, and the file service it calls   *)
(* takes one of its own under the same owner (the context variable         *)
(* _owner), as does a batch of writes, one file after another.             *)
(*                                                                         *)
(* A process may die at any point, leaving its rows behind, and its        *)
(* successor may get the same pid: a row names the birth time too.         *)
(***************************************************************************)
EXTENDS ToolCalls, Integers, FiniteSets

CONSTANTS
    Proc,         \* pids
    Thread,       \* threads, each of one process
    ProcOf,       \* [Thread -> Proc]
    Owner,        \* [Thread -> owner]: a session id, or a fresh uuid
    Claim,        \* the claims that exist
    Wanted,       \* [Thread -> Seq(SUBSET Claim)]: leases taken, outermost first
    MaxBirths,    \* bound: processes born under one pid
    Repeats       \* TRUE if a thread that is through may start again

\* The constants describe threads of processes that nest at least one lease.
ASSUME LeaseAssumption ==
    /\ ProcOf \in [Thread -> Proc]
    /\ DOMAIN Owner = Thread
    /\ Wanted \in [Thread -> Seq(SUBSET Claim)]
    /\ MaxBirths \in Nat \ {0}
    /\ Repeats \in BOOLEAN

VARIABLES
    leases,     \* the rows of the table "leases"
    up,         \* [Proc -> BOOLEAN]: a process with this pid runs
    born,       \* [Proc -> Nat]: its birth time, or that of the last one
    pc,         \* [Thread -> where the thread is]
    depth,      \* [Thread -> Nat]: leases it holds, nested
    cancelled   \* [Thread -> BOOLEAN]: its cancellation token is set

vars == <<leases, up, born, pc, depth, cancelled>>

Locations == {"idle", "try", "wait", "granted", "body", "unwind", "done"}

Levels(t) == 1..Len(Wanted[t])

\* lease() keeps the write claims only.
WriteClaims(t, i) == {c \in Wanted[t][i] : c.access = "write"}

\* The row a thread inserts for its i-th lease; <<t, i>> stands for the uuid.
Row(t, i) ==
    [id |-> <<t, i>>, owner |-> Owner[t], pid |-> ProcOf[t], born |-> born[ProcOf[t]],
     claims |-> WriteClaims(t, i)]

\* _alive: the process of the row still runs, and is not a later one that was
\* given the same pid.
AliveByPidOnly(row) == up[row.pid]
Alive(row) == up[row.pid] /\ born[row.pid] = row.born

AliveRows == {row \in leases : Alive(row)}

\* The check of the token at the head of the polling loop of lease().
LoopCheckSkipped(t) == FALSE
LoopCancelled(t) == cancelled[t]

\* A row of another owner stands in the way of these claims.
BlockedBySameClaim(t, claims) ==
    \E row \in AliveRows : row.owner # Owner[t] /\ claims \cap row.claims # {}
Blocked(t, claims) ==
    \E row \in AliveRows : row.owner # Owner[t] /\ SetsConflict(claims, row.claims)

-----------------------------------------------------------------------------
Init ==
    /\ leases = {}
    /\ up = [p \in Proc |-> TRUE]
    /\ born = [p \in Proc |-> 1]
    /\ pc = [t \in Thread |-> "idle"]
    /\ depth = [t \in Thread |-> 0]
    /\ cancelled = [t \in Thread |-> FALSE]

\* A thread enters the outermost acquire() of its work, with a fresh token.
Start(t) ==
    /\ up[ProcOf[t]]
    /\ pc[t] = "idle"
    /\ pc' = [pc EXCEPT ![t] = IF Wanted[t] = <<>> THEN "body" ELSE "try"]
    /\ cancelled' = [cancelled EXCEPT ![t] = FALSE]
    /\ UNCHANGED <<leases, up, born, depth>>

\* lease() without a write claim returns at once: no scan, no row, no check.
GrantNothing(t) ==
    /\ pc[t] = "try"
    /\ WriteClaims(t, depth[t] + 1) = {}
    /\ depth' = [depth EXCEPT ![t] = @ + 1]
    /\ pc' = [pc EXCEPT ![t] = "granted"]
    /\ UNCHANGED <<leases, up, born, cancelled>>

\* The token is checked before each scan; CancelledError unwinds the thread.
RefuseCancelled(t) ==
    /\ pc[t] = "try"
    /\ WriteClaims(t, depth[t] + 1) # {}
    /\ LoopCancelled(t)
    /\ pc' = [pc EXCEPT ![t] = "unwind"]
    /\ UNCHANGED <<leases, up, born, depth, cancelled>>

\* One scan, the row inserted: dead rows are deleted in the same transaction.
GrantReplacing(t) ==
    /\ pc[t] = "try" /\ WriteClaims(t, depth[t] + 1) # {} /\ ~LoopCancelled(t)
    /\ ~Blocked(t, WriteClaims(t, depth[t] + 1))
    /\ leases' = {row \in AliveRows : row.owner # Owner[t]} \cup {Row(t, depth[t] + 1)}
    /\ depth' = [depth EXCEPT ![t] = @ + 1] /\ pc' = [pc EXCEPT ![t] = "granted"]
    /\ UNCHANGED <<up, born, cancelled>>
Grant(t) ==
    LET claims == WriteClaims(t, depth[t] + 1)
    IN  /\ pc[t] = "try"
        /\ claims # {}
        /\ ~LoopCancelled(t)
        /\ ~Blocked(t, claims)
        /\ leases' = AliveRows \cup {Row(t, depth[t] + 1)}
        /\ depth' = [depth EXCEPT ![t] = @ + 1]
        /\ pc' = [pc EXCEPT ![t] = "granted"]
        /\ UNCHANGED <<up, born, cancelled>>

\* One scan that finds the thread blocked; dead rows are deleted all the same.
Block(t) ==
    LET claims == WriteClaims(t, depth[t] + 1)
    IN  /\ pc[t] = "try"
        /\ claims # {}
        /\ ~LoopCancelled(t)
        /\ Blocked(t, claims)
        /\ leases' = AliveRows
        /\ pc' = [pc EXCEPT ![t] = "wait"]
        /\ UNCHANGED <<up, born, depth, cancelled>>

\* The 50ms are over, or the token woke the thread: scan again.
Retry(t) ==
    /\ pc[t] = "wait"
    /\ pc' = [pc EXCEPT ![t] = "try"]
    /\ UNCHANGED <<leases, up, born, depth, cancelled>>

\* acquire() checks the token once more with the lease in hand, then runs what
\* the lease is for: the next nested acquire(), or the body of the innermost.
Enter(t) ==
    /\ pc[t] = "granted"
    /\ pc' = [pc EXCEPT ![t] = CASE cancelled[t] -> "unwind"
                                 [] ~cancelled[t] /\ depth[t] < Len(Wanted[t]) -> "try"
                                 [] OTHER -> "body"]
    /\ UNCHANGED <<leases, up, born, depth, cancelled>>

\* The work under the lease returns or raises; what it did to the files is
\* the business of WorkspaceTransaction.
Finish(t) ==
    /\ pc[t] = "body"
    /\ pc' = [pc EXCEPT ![t] = "unwind"]
    /\ UNCHANGED <<leases, up, born, depth, cancelled>>

\* The finally of acquire(): the innermost lease's row is deleted by its id.
ReleaseByOwner(t) ==
    /\ pc[t] = "unwind"
    /\ depth[t] > 0
    /\ leases' = {row \in leases : row.owner # Owner[t]}
    /\ depth' = [depth EXCEPT ![t] = @ - 1]
    /\ UNCHANGED <<up, born, pc, cancelled>>
ReleaseOnceMore(t) ==
    /\ pc[t] = "unwind"
    /\ leases' = {row \in leases : row.id # <<t, depth[t]>> \/ row.born # born[ProcOf[t]]}
    /\ depth' = [depth EXCEPT ![t] = @ - 1]
    /\ UNCHANGED <<up, born, pc, cancelled>>
Release(t) ==
    /\ pc[t] = "unwind"
    /\ depth[t] > 0
    /\ leases' = {row \in leases : row.id # <<t, depth[t]>> \/ row.born # born[ProcOf[t]]}
    /\ depth' = [depth EXCEPT ![t] = @ - 1]
    /\ UNCHANGED <<up, born, pc, cancelled>>

\* The outermost acquire() has returned or raised.
Return(t) ==
    /\ pc[t] = "unwind"
    /\ depth[t] = 0
    /\ pc' = [pc EXCEPT ![t] = IF Repeats THEN "idle" ELSE "done"]
    /\ UNCHANGED <<leases, up, born, depth, cancelled>>

\* The user, a deadline or a closing session cancels the thread's work.
Cancel(t) ==
    /\ up[ProcOf[t]]
    /\ pc[t] \notin {"idle", "done"}
    /\ ~cancelled[t]
    /\ cancelled' = [cancelled EXCEPT ![t] = TRUE]
    /\ UNCHANGED <<leases, up, born, pc, depth>>

\* The process dies: its threads are gone, its rows stay in the database.  The
\* last process born under a pid (MaxBirths) is not killed.
Crash(p) ==
    /\ up[p]
    /\ born[p] < MaxBirths
    /\ up' = [up EXCEPT ![p] = FALSE]
    /\ pc' = [t \in Thread |-> IF ProcOf[t] = p THEN "idle" ELSE pc[t]]
    /\ depth' = [t \in Thread |-> IF ProcOf[t] = p THEN 0 ELSE depth[t]]
    /\ cancelled' = [t \in Thread |-> IF ProcOf[t] = p THEN FALSE ELSE cancelled[t]]
    /\ UNCHANGED <<leases, born>>

\* Another workbench is started and is given the pid of a dead one.
Restart(p) ==
    /\ ~up[p]
    /\ up' = [up EXCEPT ![p] = TRUE]
    /\ born' = [born EXCEPT ![p] = @ + 1]
    /\ UNCHANGED <<leases, pc, depth, cancelled>>

\* One thread's own steps, the ones its process schedules.
Step(t) ==
    \/ GrantNothing(t)
    \/ RefuseCancelled(t)
    \/ Grant(t)
    \/ Block(t)
    \/ Retry(t)
    \/ Enter(t)
    \/ Finish(t)
    \/ Release(t)
    \/ Return(t)

Next ==
    \/ \E t \in Thread : Start(t) \/ Step(t) \/ Cancel(t)
    \/ \E p \in Proc : Crash(p) \/ Restart(p)

Spec == Init /\ [][Next]_vars

\* Threads are scheduled; nobody is bound to start, to cancel or to crash.
FairSpec == Spec /\ \A t \in Thread : WF_vars(Step(t))

-----------------------------------------------------------------------------
\* A lease as the table holds it.
RowType ==
    [id: Thread \X Nat, owner: {Owner[t] : t \in Thread}, pid: Proc, born: Nat,
     claims: SUBSET Claim]

TypeOK ==
    /\ leases \subseteq RowType
    /\ up \in [Proc -> BOOLEAN]
    /\ born \in [Proc -> Nat]
    /\ pc \in [Thread -> Locations]
    /\ depth \in [Thread -> Nat]
    /\ cancelled \in [Thread -> BOOLEAN]

\* The claims a thread believes it holds.
HeldClaims(t) == UNION {WriteClaims(t, i) : i \in 1..depth[t]}

\* Two threads of different owners never hold conflicting claims at once,
\* whichever processes they run in, whatever died or was cancelled before, and
\* however their scans interleave (lease() scans and inserts in one immediate
\* transaction; the rows of the dead are purged by it, those of the living not).
WritersExclude ==
    \A t, u \in Thread :
        Owner[t] # Owner[u] => ~SetsConflict(HeldClaims(t), HeldClaims(u))

\* The rows the living threads own, one for each lease with a write claim.
HeldRows ==
    UNION {{Row(t, i) : i \in {j \in 1..depth[t] : WriteClaims(t, j) # {}}} : t \in Thread}

\* The rows of the living are exactly the leases their threads hold: a thread
\* that was cancelled, at any of the points where the token is checked, leaves
\* no row behind to block others until its process ends, and no thread works
\* under a lease whose row is gone (acquire() releases in its finally).
RowsMatchHolders == AliveRows = HeldRows

\* Only the thread that took a lease ends it: a step that makes the row of a
\* live process disappear is a release by that row's thread; the purge of a
\* blocked or granted scan never takes it.
NoLeaseStolen ==
    [][\A row \in leases :
          Alive(row) /\ row \notin leases' =>
              \E t \in Thread : row.id[1] = t /\ depth'[t] = depth[t] - 1]_vars

\* Under repeated use by others and even when nested leases wait for each
\* other, a cancelled thread gets out of lease() and gives back what it holds:
\* the token is checked before every scan of the polling loop.
CancelledThreadReturns ==
    \A t \in Thread : cancelled[t] ~> pc[t] \in {"idle", "done"}

\* Every acquire ends: nobody waits for ever for a lease of a dead process, of
\* a cancelled thread or of another waiting thread.
EveryAcquireEnds ==
    \A t \in Thread : pc[t] # "idle" ~> pc[t] \in {"idle", "done"}

\* The abstract promise, with the claims of the live threads as what is held.
Regions == INSTANCE ExclusiveRegions WITH held <- [t \in Thread |-> HeldClaims(t)]

\* The lease table implements exclusive regions.
ImplementsRegions == Regions!Spec

=============================================================================
