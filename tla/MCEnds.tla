------------------------------- MODULE MCEnds -------------------------------
(***************************************************************************)
(* Whatever is begun in the workspace ends: the leases of two processes    *)
(* ("leases"), the writes and batches of two agents of one session         *)
(* ("files"), and the recovery of an interrupted transaction by two        *)
(* processes ("recovery").  The initial state chooses the part that moves. *)
(***************************************************************************)
EXTENDS FileService

CONSTANTS A1, A2, SA, SB, F1, F2, C1, C2, P1, P2, Rewind, Tool, Batch, S1, S2, NoPath, None

MCAgent == {A1, A2}
TwoServices == {SA, SB}
Together == [a \in MCAgent |-> SA]
Nobody == {}
TwoFiles == <<F1, F2>>
OneContent == {Absent, C1}
OneSize == [c \in OneContent |-> IF c = Absent THEN 0 ELSE 1]

VARIABLES part,
          leases, up, born, pc, depth, cancelled,
          tdisk, rows, txs, log, kept, points, lease, tup, top, rec, tbudget

leaseVars == <<leases, up, born, pc, depth, cancelled>>
transactionVars == <<tdisk, rows, txs, log, kept, points, lease, tup, top, rec, tbudget>>

Processes == {P1, P2}
Threads == {Rewind, Tool, Batch}

WriteOf(key, scope) ==
    [domain |-> "workspace", key |-> key, scope |-> scope, access |-> "write"]

Project == <<"root">>
FileA == <<"root", "a">>
FileB == <<"root", "d", "b">>

\* A rewind and a tool call of one process, a batch of another.
L == INSTANCE WorkspaceLease
         WITH Proc <- Processes, Thread <- Threads,
              ProcOf <- [t \in Threads |-> IF t = Batch THEN P2 ELSE P1],
              Owner <- [t \in Threads |-> t],
              Claim <- {WriteOf(Project, "subtree"), WriteOf(FileA, "exact"), WriteOf(FileB, "exact")},
              Wanted <- [t \in Threads |->
                            CASE t = Rewind -> <<{WriteOf(Project, "subtree")}>>
                              [] t = Tool -> <<{WriteOf(FileA, "exact")}, {WriteOf(FileA, "exact")}>>
                              [] t = Batch -> <<{WriteOf(FileA, "exact")}, {WriteOf(FileB, "exact")}>>],
              MaxBirths <- 2, Repeats <- FALSE

\* Two sessions in two processes, one file, one error, one crash, one opening.
T == INSTANCE WorkspaceTransaction
         WITH Session <- {S1, S2}, Proc <- Processes,
              ProcOf <- [s \in {S1, S2} |-> IF s = S1 THEN P1 ELSE P2],
              File <- {F1}, Content <- {Absent, C1}, MaxRows <- 2, MaxTurns <- 0, MaxOutside <- 1,
              MaxCrashes <- 1, MaxErrors <- 1, MaxRewinds <- 1, MaxOpens <- 1,
              RollbackMayFail <- TRUE,
              disk <- tdisk, up <- tup, op <- top, budget <- tbudget

\* The project starts with neither of the two files written.
MCInit == part \in {"files", "leases", "recovery"} /\ Init /\ disk = [f \in File |-> Absent] /\ L!Init /\ T!Init

FilesNext == part = "files" /\ Next /\ UNCHANGED <<part, leaseVars, transactionVars>>
LeasesNext == part = "leases" /\ L!Next /\ UNCHANGED <<part, vars, transactionVars>>
RecoveryNext == part = "recovery" /\ T!Next /\ UNCHANGED <<part, vars, leaseVars>>

MCNext == FilesNext \/ LeasesNext \/ RecoveryNext

\* The fairness of each part, while that part is the one that moves.
MCSpec ==
    /\ MCInit /\ [][MCNext]_<<part, vars, leaseVars, transactionVars>>
    /\ \A a \in Agent : WF_vars(part = "files" /\ Proceed(a))
    /\ \A t \in Threads : WF_leaseVars(part = "leases" /\ L!Step(t))
    /\ \A s \in {S1, S2} : WF_transactionVars(part = "recovery" /\ T!Proceed(s))
    /\ \A p \in Processes : WF_transactionVars(part = "recovery" /\ T!Recover(p))

\* Writes and batches, acquires and recoveries all come to an end.
WorkspaceEnds == OperationsEnd /\ L!EveryAcquireEnds /\ T!RecoveryEnds

=============================================================================
