------------------------------ MODULE MCLedger ------------------------------
(***************************************************************************)
(* The ledger of changes in two instances: "rewind", two sessions of one   *)
(* process that write one file of two contents; "recovery", a session in   *)
(* each of two processes, two files, a failure and a death.  The initial   *)
(* state chooses between them.                                             *)
(***************************************************************************)
EXTENDS WorkspaceTransaction, TLC

CONSTANTS S1, S2, P1, P2, F1, F2, C1, C2, T1, T2, F3, F4, C3

MCSession == {S1, S2}
MCProc == {P1, P2}
MCProcOf == [s \in MCSession |-> IF s = S1 THEN P1 ELSE P2]

\* Two sessions of one workbench.
OneProc == {P1}
OneProcOf == [s \in MCSession |-> P1]

VARIABLE instance

R == INSTANCE WorkspaceTransaction
         WITH Session <- {T1, T2}, ProcOf <- [s \in {T1, T2} |-> IF s = T1 THEN P1 ELSE P2],
              Proc <- {P1, P2}, File <- {F3, F4}, Content <- {Absent, C3}, MaxRows <- 2,
              MaxOutside <- 0, MaxCrashes <- 1, MaxErrors <- 1, MaxRewinds <- 1, MaxOpens <- 1

LedgerInit ==
    \/ instance = "rewind" /\ Init
    \/ instance = "recovery" /\ R!Init

\* Two rewinds, or one rewind and an edit from outside.
LedgerNext ==
    /\ \/ instance = "rewind" /\ Next /\ budget'.rewinds + budget'.outside > 0
       \/ instance = "recovery" /\ R!Next
    /\ UNCHANGED instance

LedgerSpec == LedgerInit /\ [][LedgerNext]_<<vars, instance>>

\* The session of the first instance that dies, alone.
StaleSpec == instance = "rewind" /\ Init /\ [][Next /\ UNCHANGED instance]_<<vars, instance>>

\* Sessions and contents of the one instance; the files of the other, swapped
\* together with the sessions of the first.
Interchangeable ==
    {p \in Permutations({S1, S2, C1, C2, F3, F4}) :
        /\ p[S1] \in {S1, S2} /\ p[S2] \in {S1, S2}
        /\ p[C1] \in {C1, C2} /\ p[C2] \in {C1, C2}
        /\ p[F3] = F3 <=> p[S1] = S1}

\* The types of the instance that is explored.
LedgerTypeOK == IF instance = "rewind" THEN TypeOK ELSE R!TypeOK

=============================================================================
