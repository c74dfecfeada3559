------------------------ MODULE WorkspaceLease_proofs ------------------------
(***************************************************************************)
(* Proofs about the write leases, for any number of processes, threads,    *)
(* nested leases and births: type correctness, the agreement of the table  *)
(* with the threads, mutual exclusion of the writers, and that the table   *)
(* implements ExclusiveRegions.                                            *)
(***************************************************************************)
EXTENDS WorkspaceLease, TLAPS

\* Where a thread is agrees with the leases it holds, and a thread under way
\* belongs to a process that runs.
DepthInv ==
    \A t \in Thread :
        /\ depth[t] <= Len(Wanted[t])
        /\ pc[t] \in {"try", "wait"} => depth[t] < Len(Wanted[t])
        /\ pc[t] \in {"idle", "done"} => depth[t] = 0
        /\ pc[t] \notin {"idle", "done"} => up[ProcOf[t]]

\* Every row was inserted by a process born no later than the last one.
BirthInv == \A row \in leases : row.born <= born[row.pid]

\* RowsMatchHolders, one inclusion at a time and element by element.
AliveRowsHeld ==
    \A row \in leases : Alive(row) =>
        \E t \in Thread : \E i \in 1..depth[t] :
            WriteClaims(t, i) # {} /\ row = Row(t, i)

HeldRowsPresent ==
    \A t \in Thread : \A i \in 1..depth[t] :
        WriteClaims(t, i) # {} => Row(t, i) \in leases

IInv ==
    /\ TypeOK
    /\ DepthInv
    /\ BirthInv
    /\ AliveRowsHeld
    /\ HeldRowsPresent
    /\ WritersExclude

-----------------------------------------------------------------------------
\* claims_conflict does not depend on the order of its arguments: the scan of
\* lease() tests each pair of claims in one direction only.
LEMMA ConflictSymmetric ==
    ASSUME NEW a, NEW b
    PROVE  Conflict(a, b) <=> Conflict(b, a)
  BY DEF Conflict, SameResource

LEMMA SetsConflictSymmetric ==
    ASSUME NEW S, NEW T
    PROVE  SetsConflict(S, T) <=> SetsConflict(T, S)
  BY ConflictSymmetric DEF SetsConflict

LEMMA WriteClaimsType ==
    ASSUME NEW t \in Thread, NEW i \in 1..Len(Wanted[t])
    PROVE  WriteClaims(t, i) \subseteq Claim
  <1>1. Wanted[t] \in Seq(SUBSET Claim)
    BY LeaseAssumption
  <1>2. Wanted[t][i] \in SUBSET Claim
    BY <1>1
  <1> QED  BY <1>2 DEF WriteClaims

LEMMA RowTyped ==
    ASSUME TypeOK, NEW t \in Thread, NEW i \in 1..Len(Wanted[t])
    PROVE  Row(t, i) \in RowType
  <1>1. WriteClaims(t, i) \in SUBSET Claim
    BY WriteClaimsType
  <1>2. ProcOf[t] \in Proc /\ born[ProcOf[t]] \in Nat
    BY LeaseAssumption DEF TypeOK
  <1>3. <<t, i>> \in Thread \X Nat
    OBVIOUS
  <1> QED  BY <1>1, <1>2, <1>3 DEF Row, RowType

LEMMA InitIInv == Init => IInv
  <1> SUFFICES ASSUME Init PROVE IInv
    OBVIOUS
  <1>1. TypeOK
    BY LeaseAssumption DEF Init, TypeOK, Locations
  <1>2. DepthInv
    BY LeaseAssumption DEF Init, DepthInv
  <1>3. BirthInv /\ AliveRowsHeld /\ HeldRowsPresent
    BY DEF Init, BirthInv, AliveRowsHeld, HeldRowsPresent
  <1>4. WritersExclude
    BY DEF Init, WritersExclude, HeldClaims, SetsConflict
  <1> QED  BY <1>1, <1>2, <1>3, <1>4 DEF IInv

-----------------------------------------------------------------------------
(* Type correctness and the agreement of pc with depth.                    *)

LEMMA TypeStep == IInv /\ [Next]_vars => TypeOK' /\ DepthInv'
  <1> SUFFICES ASSUME IInv, [Next]_vars PROVE TypeOK' /\ DepthInv'
    OBVIOUS
  <1> USE LeaseAssumption DEF IInv, TypeOK, DepthInv, Locations
  <1>1. ASSUME NEW t \in Thread, Start(t) PROVE TypeOK' /\ DepthInv'
    <2>1. Wanted[t] # <<>> => Len(Wanted[t]) > 0
      BY DEF Start
    <2> QED  BY <1>1, <2>1 DEF Start
  <1>2. ASSUME NEW t \in Thread, GrantNothing(t) PROVE TypeOK' /\ DepthInv'
    BY <1>2 DEF GrantNothing
  <1>3. ASSUME NEW t \in Thread, RefuseCancelled(t) PROVE TypeOK' /\ DepthInv'
    BY <1>3 DEF RefuseCancelled
  <1>4. ASSUME NEW t \in Thread, Grant(t) PROVE TypeOK' /\ DepthInv'
    <2>1. depth[t] + 1 \in 1..Len(Wanted[t])
      BY <1>4 DEF Grant
    <2>2. Row(t, depth[t] + 1) \in RowType
      BY <2>1, RowTyped
    <2>3. leases' \subseteq RowType
      BY <1>4, <2>2 DEF Grant, AliveRows
    <2> QED  BY <1>4, <2>1, <2>3 DEF Grant
  <1>5. ASSUME NEW t \in Thread, Block(t) PROVE TypeOK' /\ DepthInv'
    BY <1>5 DEF Block, AliveRows
  <1>6. ASSUME NEW t \in Thread, Retry(t) PROVE TypeOK' /\ DepthInv'
    BY <1>6 DEF Retry
  <1>7. ASSUME NEW t \in Thread, Enter(t) PROVE TypeOK' /\ DepthInv'
    <2>1. CASE cancelled[t]
      BY <1>7, <2>1 DEF Enter
    <2>2. CASE ~cancelled[t] /\ depth[t] < Len(Wanted[t])
      BY <1>7, <2>2 DEF Enter
    <2>3. CASE ~cancelled[t] /\ ~(depth[t] < Len(Wanted[t]))
      BY <1>7, <2>3 DEF Enter
    <2> QED  BY <2>1, <2>2, <2>3
  <1>8. ASSUME NEW t \in Thread, Finish(t) PROVE TypeOK' /\ DepthInv'
    BY <1>8 DEF Finish
  <1>9. ASSUME NEW t \in Thread, Release(t) PROVE TypeOK' /\ DepthInv'
    BY <1>9 DEF Release
  <1>10. ASSUME NEW t \in Thread, Return(t) PROVE TypeOK' /\ DepthInv'
    BY <1>10 DEF Return
  <1>11. ASSUME NEW t \in Thread, Cancel(t) PROVE TypeOK' /\ DepthInv'
    BY <1>11 DEF Cancel
  <1>12. ASSUME NEW p \in Proc, Crash(p) PROVE TypeOK' /\ DepthInv'
    <2>1. up' \in [Proc -> BOOLEAN] /\ pc' \in [Thread -> Locations]
      BY <1>12 DEF Crash
    <2>2. depth' \in [Thread -> Nat] /\ cancelled' \in [Thread -> BOOLEAN]
      BY <1>12 DEF Crash
    <2>3. TypeOK'
      BY <1>12, <2>1, <2>2 DEF Crash
    <2>4. ASSUME NEW t \in Thread, ProcOf[t] = p PROVE DepthInv!(t)'
      BY <1>12, <2>4 DEF Crash
    <2>5. ASSUME NEW t \in Thread, ProcOf[t] # p PROVE DepthInv!(t)'
      BY <1>12, <2>5 DEF Crash
    <2> QED  BY <2>3, <2>4, <2>5
  <1>13. ASSUME NEW p \in Proc, Restart(p) PROVE TypeOK' /\ DepthInv'
    BY <1>13 DEF Restart
  <1>14. CASE UNCHANGED vars
    BY <1>14 DEF vars
  <1> QED
    BY <1>1, <1>2, <1>3, <1>4, <1>5, <1>6, <1>7, <1>8, <1>9, <1>10, <1>11,
       <1>12, <1>13, <1>14 DEF Next, Step

-----------------------------------------------------------------------------
(* The table agrees with the threads.                                      *)

\* What HeldClaims, Row and Alive read: if no step of it changes, neither do they.
LEMMA SameHolders ==
    ASSUME UNCHANGED <<leases, up, born, depth>>,
           BirthInv, AliveRowsHeld, HeldRowsPresent, WritersExclude
    PROVE  BirthInv' /\ AliveRowsHeld' /\ HeldRowsPresent' /\ WritersExclude'
  <1>1. \A t, i : Row(t, i)' = Row(t, i)
    BY DEF Row, WriteClaims
  <1>2. \A row : Alive(row)' <=> Alive(row)
    BY DEF Alive
  <1>3. \A t : HeldClaims(t)' = HeldClaims(t)
    BY DEF HeldClaims, WriteClaims
  <1> QED
    BY <1>1, <1>2, <1>3 DEF BirthInv, AliveRowsHeld, HeldRowsPresent, WritersExclude, WriteClaims

\* Dropping dead rows, as every scan does, changes nothing for the living.
LEMMA PurgeStep ==
    ASSUME leases' = AliveRows, UNCHANGED <<up, born, depth>>,
           IInv
    PROVE  BirthInv' /\ AliveRowsHeld' /\ HeldRowsPresent' /\ WritersExclude'
  <1> USE DEF IInv
  <1>1. \A t, i : Row(t, i)' = Row(t, i)
    BY DEF Row, WriteClaims
  <1>2. \A row : Alive(row)' <=> Alive(row)
    BY DEF Alive
  <1>3. \A t : HeldClaims(t)' = HeldClaims(t)
    BY DEF HeldClaims, WriteClaims
  <1>4. BirthInv' /\ AliveRowsHeld'
    BY <1>1, <1>2 DEF BirthInv, AliveRowsHeld, AliveRows, WriteClaims
  <1>5. ASSUME NEW t \in Thread, NEW i \in 1..depth[t] PROVE Alive(Row(t, i))
    <2>1. depth[t] # 0
      BY DEF TypeOK
    <2>2. up[ProcOf[t]]
      BY <2>1, LeaseAssumption DEF DepthInv, TypeOK, Locations
    <2> QED  BY <2>2 DEF Alive, Row
  <1>6. HeldRowsPresent'
    BY <1>1, <1>5 DEF HeldRowsPresent, AliveRows, WriteClaims
  <1>7. WritersExclude'
    BY <1>3 DEF WritersExclude
  <1> QED  BY <1>4, <1>6, <1>7

\* A thread that holds a lease runs, so the rows it owns are alive.
LEMMA HeldRowsAlive ==
    ASSUME IInv, NEW t \in Thread, NEW i \in 1..depth[t]
    PROVE  up[ProcOf[t]] /\ Alive(Row(t, i)) /\ i \in 1..Len(Wanted[t])
  <1> USE DEF IInv
  <1>1. depth[t] # 0 /\ depth[t] <= Len(Wanted[t]) /\ Len(Wanted[t]) \in Nat
    BY LeaseAssumption DEF TypeOK, DepthInv
  <1>2. up[ProcOf[t]]
    BY <1>1, LeaseAssumption DEF DepthInv, TypeOK, Locations
  <1> QED  BY <1>1, <1>2 DEF Alive, Row, TypeOK

\* A thread takes one more lease: with a row, or with no write claim at all.
LEMMA GrantStep ==
    ASSUME IInv, NEW t \in Thread, Grant(t)
    PROVE  BirthInv' /\ AliveRowsHeld' /\ HeldRowsPresent' /\ WritersExclude'
  <1> USE DEF IInv
  <1> DEFINE n == depth[t] + 1
             new == Row(t, n)
  <1>1. /\ n \in Nat /\ n \in 1..Len(Wanted[t])
        /\ depth' = [depth EXCEPT ![t] = n]
        /\ leases' = AliveRows \cup {new}
        /\ UNCHANGED <<up, born>>
        /\ ~Blocked(t, WriteClaims(t, n))
        /\ WriteClaims(t, n) # {}
    BY LeaseAssumption DEF Grant, TypeOK, DepthInv
  <1>2. \A u, i : Row(u, i)' = Row(u, i)
    BY <1>1 DEF Row, WriteClaims
  <1>3. \A row : Alive(row)' <=> Alive(row)
    BY <1>1 DEF Alive
  <1>4. \A u, i : WriteClaims(u, i)' = WriteClaims(u, i)
    BY DEF WriteClaims
  <1>5. BirthInv'
    <2>1. new.pid = ProcOf[t] /\ new.born = born[ProcOf[t]]
      BY DEF Row
    <2>2. new.born <= born[new.pid]
      BY <2>1, LeaseAssumption DEF TypeOK
    <2>3. \A row \in AliveRows : row.born <= born[row.pid]
      BY DEF BirthInv, AliveRows
    <2> HIDE DEF new
    <2> QED  BY <1>1, <2>2, <2>3 DEF BirthInv
  <1>6. AliveRowsHeld'
    <2> SUFFICES ASSUME NEW row \in leases', Alive(row)
                 PROVE  \E u \in Thread : \E i \in 1..depth'[u] :
                            WriteClaims(u, i) # {} /\ row = Row(u, i)
      BY <1>2, <1>3, <1>4 DEF AliveRowsHeld
    <2>1. CASE row = new
      BY <1>1, <2>1 DEF TypeOK
    <2>2. CASE row \in AliveRows
      <3>0. PICK u \in Thread :
                \E i \in 1..depth[u] : WriteClaims(u, i) # {} /\ row = Row(u, i)
        BY <2>2 DEF AliveRowsHeld, AliveRows
      <3>1. PICK i \in 1..depth[u] : WriteClaims(u, i) # {} /\ row = Row(u, i)
        BY <3>0
      <3>2. i \in 1..depth'[u]
        BY <1>1, <3>1 DEF TypeOK
      <3> QED  BY <3>1, <3>2
    <2> QED  BY <1>1, <2>1, <2>2
  <1>7. HeldRowsPresent'
    <2> SUFFICES ASSUME NEW u \in Thread, NEW i \in 1..depth'[u], WriteClaims(u, i) # {}
                 PROVE  Row(u, i) \in leases'
      BY <1>2, <1>4 DEF HeldRowsPresent
    <2>1. CASE i \in 1..depth[u]
      BY <1>1, <2>1, HeldRowsAlive DEF HeldRowsPresent, AliveRows
    <2>2. CASE i \notin 1..depth[u]
      <3>1. u = t /\ i = n
        BY <1>1, <2>2 DEF TypeOK
      <3> QED  BY <1>1, <3>1
    <2> QED  BY <2>1, <2>2
  <1>8. ASSUME NEW u \in Thread, Owner[u] # Owner[t]
        PROVE  ~SetsConflict(WriteClaims(t, n), HeldClaims(u))
    <2> SUFFICES ASSUME NEW a \in WriteClaims(t, n), NEW i \in 1..depth[u],
                        NEW b \in WriteClaims(u, i), Conflict(a, b)
                 PROVE  FALSE
      BY DEF SetsConflict, HeldClaims
    <2>1. Row(u, i) \in AliveRows
      BY HeldRowsAlive DEF HeldRowsPresent, AliveRows
    <2>2. Row(u, i).owner = Owner[u] /\ Row(u, i).claims = WriteClaims(u, i)
      BY DEF Row
    <2>3. SetsConflict(WriteClaims(t, n), Row(u, i).claims)
      BY <2>2 DEF SetsConflict
    <2> QED  BY <1>1, <1>8, <2>1, <2>2, <2>3 DEF Blocked
  <1>9. HeldClaims(t)' = HeldClaims(t) \cup WriteClaims(t, n)
    <2>1. 1..depth'[t] = 1..depth[t] \cup {n}
      BY <1>1 DEF TypeOK
    <2> QED  BY <1>4, <2>1 DEF HeldClaims
  <1>10. \A u \in Thread : u # t => HeldClaims(u)' = HeldClaims(u)
    BY <1>1, <1>4 DEF HeldClaims, TypeOK
  <1>11. WritersExclude'
    <2> SUFFICES ASSUME NEW u \in Thread, NEW v \in Thread, Owner[u] # Owner[v]
                 PROVE  ~SetsConflict(HeldClaims(u)', HeldClaims(v)')
      BY DEF WritersExclude
    <2>1. ~SetsConflict(HeldClaims(u), HeldClaims(v))
      BY DEF WritersExclude
    <2>2. CASE u = t
      BY <1>8, <1>9, <1>10, <2>1, <2>2 DEF SetsConflict
    <2>3. CASE v = t
      <3>1. ~SetsConflict(HeldClaims(u), WriteClaims(t, n))
        BY <1>8, <2>3, SetsConflictSymmetric
      <3> QED  BY <1>9, <1>10, <2>1, <2>3, <3>1 DEF SetsConflict
    <2> QED  BY <1>10, <2>1, <2>2, <2>3
  <1> QED  BY <1>5, <1>6, <1>7, <1>11

LEMMA GrantNothingStep ==
    ASSUME IInv, NEW t \in Thread, GrantNothing(t)
    PROVE  BirthInv' /\ AliveRowsHeld' /\ HeldRowsPresent' /\ WritersExclude'
  <1> USE DEF IInv
  <1> DEFINE n == depth[t] + 1
  <1>1. /\ n \in Nat
        /\ depth' = [depth EXCEPT ![t] = n]
        /\ UNCHANGED <<leases, up, born>>
        /\ WriteClaims(t, n) = {}
    BY DEF GrantNothing, TypeOK
  <1>2. \A u, i : Row(u, i)' = Row(u, i) /\ WriteClaims(u, i)' = WriteClaims(u, i)
    BY <1>1 DEF Row, WriteClaims
  <1>3. \A row : Alive(row)' <=> Alive(row)
    BY <1>1 DEF Alive
  <1>4. ASSUME NEW u \in Thread, NEW i \in 1..depth'[u]
        PROVE  i \in 1..depth[u] \/ WriteClaims(u, i) = {}
    BY <1>1 DEF TypeOK
  <1>5. \A u \in Thread : 1..depth[u] \subseteq 1..depth'[u]
    BY <1>1 DEF TypeOK
  <1>6. \A u \in Thread : HeldClaims(u)' = HeldClaims(u)
    BY <1>2, <1>4, <1>5 DEF HeldClaims
  <1>7. BirthInv' /\ HeldRowsPresent'
    BY <1>1, <1>2, <1>4 DEF BirthInv, HeldRowsPresent
  <1>8. AliveRowsHeld'
    BY <1>1, <1>2, <1>3, <1>5 DEF AliveRowsHeld
  <1>9. WritersExclude'
    BY <1>6 DEF WritersExclude
  <1> QED  BY <1>7, <1>8, <1>9

\* The innermost lease ends: its row goes, and no other row of the living.
LEMMA ReleaseStep ==
    ASSUME IInv, NEW t \in Thread, Release(t)
    PROVE  BirthInv' /\ AliveRowsHeld' /\ HeldRowsPresent' /\ WritersExclude'
  <1> USE DEF IInv
  <1> DEFINE n == depth[t]
  <1>1. /\ n \in Nat /\ n > 0
        /\ depth' = [depth EXCEPT ![t] = n - 1]
        /\ leases' = {row \in leases : row.id # <<t, n>> \/ row.born # born[ProcOf[t]]}
        /\ UNCHANGED <<up, born>>
    BY DEF Release, TypeOK
  <1>2. \A u, i : Row(u, i)' = Row(u, i) /\ WriteClaims(u, i)' = WriteClaims(u, i)
    BY <1>1 DEF Row, WriteClaims
  <1>3. \A row : Alive(row)' <=> Alive(row)
    BY <1>1 DEF Alive
  <1>4. \A u \in Thread : 1..depth'[u] \subseteq 1..depth[u]
    BY <1>1 DEF TypeOK
  <1>5. ASSUME NEW u \in Thread, NEW i \in 1..depth[u], ~(u = t /\ i = n)
        PROVE  i \in 1..depth'[u]
    BY <1>1, <1>5 DEF TypeOK
  <1>6. BirthInv'
    BY <1>1 DEF BirthInv
  <1>7. AliveRowsHeld'
    <2> SUFFICES ASSUME NEW row \in leases', Alive(row)
                 PROVE  \E u \in Thread : \E i \in 1..depth'[u] :
                            WriteClaims(u, i) # {} /\ row = Row(u, i)
      BY <1>2, <1>3 DEF AliveRowsHeld
    <2>1. PICK u \in Thread :
              \E i \in 1..depth[u] : WriteClaims(u, i) # {} /\ row = Row(u, i)
      BY <1>1 DEF AliveRowsHeld
    <2>2. PICK i \in 1..depth[u] : WriteClaims(u, i) # {} /\ row = Row(u, i)
      BY <2>1
    <2>3. row.id = <<u, i>> /\ row.born = born[ProcOf[u]]
      BY <2>2 DEF Row
    <2>4. ~(u = t /\ i = n)
      BY <1>1, <2>3
    <2> QED  BY <1>5, <2>2, <2>4
  <1>8. HeldRowsPresent'
    <2> SUFFICES ASSUME NEW u \in Thread, NEW i \in 1..depth'[u], WriteClaims(u, i) # {}
                 PROVE  Row(u, i) \in leases'
      BY <1>2 DEF HeldRowsPresent
    <2>1. Row(u, i) \in leases
      BY <1>4 DEF HeldRowsPresent
    <2>2. Row(u, i).id = <<u, i>>
      BY DEF Row
    <2>3. ~(u = t /\ i = n)
      BY <1>1 DEF TypeOK
    <2> QED  BY <1>1, <2>1, <2>2, <2>3
  <1>9. WritersExclude'
    <2>1. \A u \in Thread : HeldClaims(u)' \subseteq HeldClaims(u)
      BY <1>2, <1>4 DEF HeldClaims
    <2> QED  BY <2>1 DEF WritersExclude, SetsConflict
  <1> QED  BY <1>6, <1>7, <1>8, <1>9

\* A process dies: none of its rows is alive any more, none of its threads
\* holds anything.
LEMMA CrashStep ==
    ASSUME IInv, NEW p \in Proc, Crash(p)
    PROVE  BirthInv' /\ AliveRowsHeld' /\ HeldRowsPresent' /\ WritersExclude'
  <1> USE DEF IInv
  <1>1. /\ up' = [up EXCEPT ![p] = FALSE]
        /\ depth' = [t \in Thread |-> IF ProcOf[t] = p THEN 0 ELSE depth[t]]
        /\ UNCHANGED <<leases, born>>
    BY DEF Crash
  <1>2. \A u, i : Row(u, i)' = Row(u, i) /\ WriteClaims(u, i)' = WriteClaims(u, i)
    BY <1>1 DEF Row, WriteClaims
  <1>3. \A u \in Thread : 1..depth'[u] \subseteq 1..depth[u]
    BY <1>1 DEF TypeOK
  <1>4. BirthInv' /\ HeldRowsPresent'
    BY <1>1, <1>2, <1>3 DEF BirthInv, HeldRowsPresent
  <1>5. AliveRowsHeld'
    <2> SUFFICES ASSUME NEW row \in leases, Alive(row)'
                 PROVE  \E u \in Thread : \E i \in 1..depth'[u] :
                            WriteClaims(u, i) # {} /\ row = Row(u, i)
      BY <1>1, <1>2 DEF AliveRowsHeld
    <2>1. row.pid \in Proc
      BY DEF TypeOK, RowType
    <2>2. Alive(row) /\ row.pid # p
      BY <1>1, <2>1 DEF Alive, TypeOK
    <2>3. PICK u \in Thread :
              \E i \in 1..depth[u] : WriteClaims(u, i) # {} /\ row = Row(u, i)
      BY <2>2 DEF AliveRowsHeld
    <2>4. ProcOf[u] # p
      BY <2>2, <2>3 DEF Row
    <2>5. depth'[u] = depth[u]
      BY <1>1, <2>4
    <2> QED  BY <2>3, <2>5
  <1>6. WritersExclude'
    <2>1. \A u \in Thread : HeldClaims(u)' \subseteq HeldClaims(u)
      BY <1>2, <1>3 DEF HeldClaims
    <2> QED  BY <2>1 DEF WritersExclude, SetsConflict
  <1> QED  BY <1>4, <1>5, <1>6

\* A process is born: the rows its predecessor left under the same pid stay
\* dead, and none of its threads holds anything yet.
LEMMA RestartStep ==
    ASSUME IInv, NEW p \in Proc, Restart(p)
    PROVE  BirthInv' /\ AliveRowsHeld' /\ HeldRowsPresent' /\ WritersExclude'
  <1> USE DEF IInv
  <1>1. /\ ~up[p]
        /\ up' = [up EXCEPT ![p] = TRUE]
        /\ born' = [born EXCEPT ![p] = born[p] + 1]
        /\ UNCHANGED <<leases, depth>>
    BY DEF Restart
  <1>2. \A u, i : WriteClaims(u, i)' = WriteClaims(u, i)
    BY DEF WriteClaims
  <1>3. ASSUME NEW u \in Thread, NEW i \in 1..depth[u] PROVE Row(u, i)' = Row(u, i)
    <2>1. ProcOf[u] # p
      BY <1>1, HeldRowsAlive
    <2>2. born'[ProcOf[u]] = born[ProcOf[u]]
      BY <1>1, <2>1, LeaseAssumption DEF TypeOK
    <2> QED  BY <1>2, <2>2 DEF Row
  <1>4. BirthInv'
    <2> SUFFICES ASSUME NEW row \in leases PROVE row.born <= born'[row.pid]
      BY <1>1 DEF BirthInv
    <2>1. row.pid \in Proc /\ row.born \in Nat /\ row.born <= born[row.pid]
      BY DEF TypeOK, RowType, BirthInv
    <2> QED  BY <1>1, <2>1 DEF TypeOK
  <1>5. HeldRowsPresent'
    BY <1>1, <1>2, <1>3 DEF HeldRowsPresent
  <1>6. AliveRowsHeld'
    <2> SUFFICES ASSUME NEW row \in leases, Alive(row)'
                 PROVE  \E u \in Thread : \E i \in 1..depth[u] :
                            WriteClaims(u, i) # {} /\ row = Row(u, i)'
      BY <1>1, <1>2 DEF AliveRowsHeld
    <2>1. row.pid \in Proc /\ row.born \in Nat /\ row.born <= born[row.pid]
      BY DEF TypeOK, RowType, BirthInv
    <2>2. row.pid # p
      BY <1>1, <2>1 DEF Alive, TypeOK
    <2>3. Alive(row)
      BY <1>1, <2>1, <2>2 DEF Alive, TypeOK
    <2>4. PICK u \in Thread :
              \E i \in 1..depth[u] : WriteClaims(u, i) # {} /\ row = Row(u, i)
      BY <2>3 DEF AliveRowsHeld
    <2> QED  BY <1>3, <2>4
  <1>7. WritersExclude'
    <2>1. \A u \in Thread : HeldClaims(u)' = HeldClaims(u)
      BY <1>1, <1>2 DEF HeldClaims
    <2> QED  BY <2>1 DEF WritersExclude
  <1> QED  BY <1>4, <1>5, <1>6, <1>7

-----------------------------------------------------------------------------
(* The inductive invariant, and what follows from it.                      *)

LEMMA NextIInv == IInv /\ [Next]_vars => IInv'
  <1> SUFFICES ASSUME IInv, [Next]_vars
               PROVE  BirthInv' /\ AliveRowsHeld' /\ HeldRowsPresent' /\ WritersExclude'
    BY TypeStep DEF IInv
  <1>1. ASSUME NEW t \in Thread,
               \/ Start(t) \/ RefuseCancelled(t) \/ Retry(t) \/ Enter(t) \/ Finish(t)
               \/ Return(t) \/ Cancel(t)
        PROVE  UNCHANGED <<leases, up, born, depth>>
    BY <1>1 DEF Start, RefuseCancelled, Retry, Enter, Finish, Return, Cancel
  <1>2. ASSUME NEW t \in Thread, Block(t)
        PROVE  leases' = AliveRows /\ UNCHANGED <<up, born, depth>>
    BY <1>2 DEF Block
  <1>3. UNCHANGED vars => UNCHANGED <<leases, up, born, depth>>
    BY DEF vars
  <1>4. CASE UNCHANGED <<leases, up, born, depth>>
    BY <1>4, SameHolders DEF IInv
  <1>5. CASE \E t \in Thread : Block(t)
    BY <1>2, <1>5, PurgeStep
  <1>6. CASE \E t \in Thread : GrantNothing(t) \/ Grant(t) \/ Release(t)
    BY <1>6, GrantNothingStep, GrantStep, ReleaseStep
  <1>7. CASE \E p \in Proc : Crash(p) \/ Restart(p)
    BY <1>7, CrashStep, RestartStep
  <1> QED
    BY <1>1, <1>3, <1>4, <1>5, <1>6, <1>7 DEF Next, Step

LEMMA AlwaysIInv == Spec => []IInv
  BY InitIInv, NextIInv, PTL DEF Spec

\* The rows and the control state keep their types.
THEOREM TypeCorrect == Spec => []TypeOK
  <1>1. IInv => TypeOK
    BY DEF IInv
  <1> QED  BY <1>1, AlwaysIInv, PTL

\* However the processes run, die and are born again: two threads of different
\* owners never hold conflicting write claims at once (lease(), release()).
THEOREM MutualExclusion == Spec => []WritersExclude
  <1>1. IInv => WritersExclude
    BY DEF IInv
  <1> QED  BY <1>1, AlwaysIInv, PTL

\* The live rows of the table are exactly the leases the threads hold: no lease
\* leaks when a thread is cancelled or raises, none vanishes under its holder.
THEOREM TableMatchesThreads == Spec => []RowsMatchHolders
  <1>1. ASSUME IInv PROVE RowsMatchHolders
    <2> USE <1>1
    <2>1. ASSUME NEW row \in AliveRows PROVE row \in HeldRows
      <3>1. row \in leases /\ Alive(row)
        BY DEF AliveRows
      <3>2. PICK t \in Thread :
                \E i \in 1..depth[t] : WriteClaims(t, i) # {} /\ row = Row(t, i)
        BY <3>1 DEF IInv, AliveRowsHeld
      <3> QED  BY <3>2 DEF HeldRows
    <2>2. ASSUME NEW row \in HeldRows PROVE row \in AliveRows
      <3>1. PICK t \in Thread :
                \E i \in 1..depth[t] : WriteClaims(t, i) # {} /\ row = Row(t, i)
        BY DEF HeldRows
      <3> QED  BY <3>1, HeldRowsAlive DEF IInv, HeldRowsPresent, AliveRows
    <2> QED  BY <2>1, <2>2 DEF RowsMatchHolders
  <1> QED  BY <1>1, AlwaysIInv, PTL

\* A row of a live process is deleted by the thread that inserted it only.
THEOREM LeasesEndWithTheirThread == Spec => NoLeaseStolen
  <1>1. ASSUME IInv, [Next]_vars, NEW row \in leases, Alive(row), row \notin leases'
        PROVE  \E t \in Thread : row.id[1] = t /\ depth'[t] = depth[t] - 1
    <2> USE <1>1
    <2>1. PICK t \in Thread : Release(t)
      <3>1. \A t \in Thread : ~Block(t) /\ ~Grant(t)
        BY DEF Block, Grant, AliveRows
      <3> QED
        BY <3>1 DEF Next, Step, vars, Start, GrantNothing, RefuseCancelled, Retry, Enter,
                    Finish, Return, Cancel, Crash, Restart
    <2>2. row.id = <<t, depth[t]>>
      BY <2>1 DEF Release
    <2>3. depth'[t] = depth[t] - 1
      BY <2>1 DEF Release, IInv, TypeOK
    <2> QED  BY <2>2, <2>3
  <1>2. IInv /\ [Next]_vars =>
            [\A row \in leases :
                Alive(row) /\ row \notin leases' =>
                    \E t \in Thread : row.id[1] = t /\ depth'[t] = depth[t] - 1]_vars
    BY <1>1
  <1> QED  BY <1>2, AlwaysIInv, PTL DEF Spec, NoLeaseStolen

-----------------------------------------------------------------------------
(* The table of leases implements the exclusive regions it promises.       *)

\* The conflict relation the instance carries is the one of this module.
LEMMA SameConflict ==
    ASSUME NEW S, NEW T
    PROVE  Regions!SetsConflict(S, T) <=> SetsConflict(S, T)
  <1>1. \A a, b : Regions!SameOrChild(a, b) <=> SameOrChild(a, b)
    BY DEF Regions!SameOrChild, SameOrChild, Regions!IsPrefix, IsPrefix
  <1>2. \A a, b : Regions!Conflict(a, b) <=> Conflict(a, b)
    BY <1>1 DEF Regions!Conflict, Conflict, Regions!SameResource, SameResource
  <1> QED  BY <1>2 DEF Regions!SetsConflict, SetsConflict

\* A step of the lease table is a step of the exclusive regions, or none.
LEMMA RegionsStep ==
    ASSUME IInv, IInv', [Next]_vars
    PROVE  [Regions!Next]_([t \in Thread |-> HeldClaims(t)])
  <1> DEFINE h == [t \in Thread |-> HeldClaims(t)]
  <1>1. \A u, i : WriteClaims(u, i)' = WriteClaims(u, i)
    BY DEF WriteClaims
  <1>2. h' \in [Thread -> SUBSET Claim]
    <2>1. ASSUME NEW t \in Thread, NEW i \in 1..depth'[t] PROVE i \in 1..Len(Wanted[t])
      BY LeaseAssumption DEF IInv, TypeOK, DepthInv
    <2>2. \A t \in Thread : HeldClaims(t)' \subseteq Claim
      BY <1>1, <2>1, WriteClaimsType DEF HeldClaims
    <2> QED  BY <2>2
  <1>3. ASSUME NEW t \in Thread, Grant(t) PROVE Regions!Next
    <2> DEFINE n == depth[t] + 1
               claims == WriteClaims(t, n)
    <2>1. /\ n \in Nat /\ n \in 1..Len(Wanted[t])
          /\ depth' = [depth EXCEPT ![t] = n]
      BY <1>3, LeaseAssumption DEF Grant, IInv, TypeOK, DepthInv
    <2>2. 1..depth'[t] = 1..depth[t] \cup {n}
      BY <2>1 DEF IInv, TypeOK
    <2>3. HeldClaims(t)' = HeldClaims(t) \cup claims
      BY <1>1, <2>2 DEF HeldClaims
    <2>4. \A u \in Thread : u # t => HeldClaims(u)' = HeldClaims(u)
      BY <1>1, <2>1 DEF HeldClaims, IInv, TypeOK
    <2>5. h' = [h EXCEPT ![t] = @ \cup claims]
      BY <2>3, <2>4
    <2>6. ASSUME NEW u \in Thread, Owner[u] # Owner[t]
          PROVE  ~SetsConflict(claims, h[u])
      <3>1. claims \subseteq HeldClaims(t)' /\ HeldClaims(u)' = HeldClaims(u)
        BY <2>3, <2>4, <2>6
      <3>2. ~SetsConflict(HeldClaims(t)', HeldClaims(u)')
        BY <2>6 DEF IInv, WritersExclude
      <3> QED  BY <3>1, <3>2 DEF SetsConflict
    <2>7. claims \in SUBSET Claim
      BY <2>1, WriteClaimsType
    <2>8. Regions!Take(t, claims)
      BY <2>5, <2>6, SameConflict DEF Regions!Take
    <2> QED  BY <2>7, <2>8 DEF Regions!Next
  <1>4. ASSUME \A u \in Thread : HeldClaims(u)' \subseteq HeldClaims(u)
        PROVE  Regions!Next
    BY <1>2, <1>4 DEF Regions!Next, Regions!Drop
  <1>5. ASSUME depth' = depth PROVE Regions!Next
    BY <1>1, <1>4, <1>5 DEF HeldClaims
  <1>6. ASSUME NEW t \in Thread, GrantNothing(t) PROVE Regions!Next
    <2>1. \A u \in Thread : \A i \in 1..depth'[u] :
              i \in 1..depth[u] \/ WriteClaims(u, i) = {}
      BY <1>6 DEF GrantNothing, IInv, TypeOK
    <2> QED  BY <1>1, <1>4, <2>1 DEF HeldClaims
  <1>7. ASSUME NEW t \in Thread, Release(t) PROVE Regions!Next
    <2>1. \A u \in Thread : 1..depth'[u] \subseteq 1..depth[u]
      BY <1>7 DEF Release, IInv, TypeOK
    <2> QED  BY <1>1, <1>4, <2>1 DEF HeldClaims
  <1>8. ASSUME NEW p \in Proc, Crash(p) PROVE Regions!Next
    <2>1. \A u \in Thread : 1..depth'[u] \subseteq 1..depth[u]
      BY <1>8 DEF Crash, IInv, TypeOK
    <2> QED  BY <1>1, <1>4, <2>1 DEF HeldClaims
  <1>9. ASSUME UNCHANGED vars PROVE UNCHANGED h
    BY <1>1, <1>9 DEF vars, HeldClaims
  <1> QED
    BY <1>3, <1>5, <1>6, <1>7, <1>8, <1>9
       DEF Next, Step, Start, RefuseCancelled, Block, Retry, Enter, Finish, Return, Cancel,
           Restart

\* Threads that obey the table of leases behave as if each lease were taken
\* and given back in one atomic step on one exclusive set of regions.
THEOREM LeasesImplementRegions == Spec => ImplementsRegions
  <1>1. Init => Regions!Init
    BY DEF Init, Regions!Init, HeldClaims
  <1>2. IInv /\ IInv' /\ [Next]_vars => [Regions!Next]_([t \in Thread |-> HeldClaims(t)])
    BY RegionsStep
  <1> QED  BY <1>1, <1>2, AlwaysIInv, PTL DEF Spec, ImplementsRegions, Regions!Spec

=============================================================================
