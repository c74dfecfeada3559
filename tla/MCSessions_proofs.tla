-------------------------- MODULE MCSessions_proofs --------------------------
(***************************************************************************)
(* The runtime of a session and the tables of sessions of the workbenches, *)
(* for every number of processes, sessions and tools.                      *)
(***************************************************************************)
EXTENDS MCSessions, TLAPS

parts == <<part, vars, lifecycle, registry, transcript, views>>

-----------------------------------------------------------------------------
(* The runtime of one session (SessionLifecycle).                          *)

\* The values of its variables.
LifeTyped ==
    /\ lturn \in {"none", "running", "cancelled"}
    /\ tools \in [Tool -> {"idle", "running", "cancelled", "done"}]
    /\ closer \in {"idle", "waits", "drains", "scope", "done"}
    /\ closing \in BOOLEAN /\ closed \in BOOLEAN /\ changer \in BOOLEAN
    /\ open \subseteq L!Resource

Quiet == lturn = "none" /\ L!Pending(L!Running) = {}

\* A close() that has got past the turn finds no other behind it: none begins once the session is
\* marked as closing, and no resource is given back before the session is closed for good.
LifeInv ==
    /\ LifeTyped
    /\ closer # "idle" \/ closed => closing
    /\ closer = "drains" => lturn = "none"
    /\ closer \in {"scope", "done"} <=> closed
    /\ open # L!Resource => closed
    /\ closed => Quiet
    /\ changer => Quiet /\ ~closing

\* The lifecycle starts open, with nothing under way.
LEMMA LifeInitially == L!Init => LifeInv
  BY DEF L!Init, LifeInv, LifeTyped, L!Pending, L!Running, Quiet

\* Every step of a turn, a tool, a change or close() keeps it.
LEMMA LifeInductive == LifeInv /\ [L!Next]_(L!vars) => LifeInv'
  <1> SUFFICES ASSUME LifeInv, [L!Next]_(L!vars) PROVE LifeInv'
    OBVIOUS
  <1> USE DEF LifeInv, LifeTyped, L!Pending, L!Running, Quiet
  <1>1. CASE L!Begin
    BY <1>1 DEF L!Begin, L!ConditionFree
  <1>2. CASE L!EndTurn
    BY <1>2 DEF L!EndTurn
  <1>3. CASE L!StopTurn
    BY <1>3 DEF L!StopTurn
  <1>4. CASE L!Change
    BY <1>4 DEF L!Change, L!ChangeAllowed
  <1>5. CASE L!ChangeEnds
    BY <1>5 DEF L!ChangeEnds
  <1>6. ASSUME NEW t \in Tool, L!StartTool(t) PROVE LifeInv'
    BY <1>6 DEF L!StartTool
  <1>7. ASSUME NEW t \in Tool, L!ToolEnds(t) PROVE LifeInv'
    BY <1>7 DEF L!ToolEnds
  <1>8. CASE L!CloseBegins
    BY <1>8 DEF L!CloseBegins, L!ConditionFree
  <1>9. CASE L!CloseCancels
    BY <1>9 DEF L!CloseCancels
  <1>10. CASE L!CloseFinal
    BY <1>10 DEF L!CloseFinal, L!CloseDrained
  <1>11. CASE L!CloseGivesUp
    BY <1>11 DEF L!CloseGivesUp
  <1>12. CASE L!CloseEntry
    BY <1>12 DEF L!CloseEntry
  <1>13. CASE L!CloseSaves
    BY <1>13 DEF L!CloseSaves
  <1>14. CASE L!Rebuild
    BY <1>14 DEF L!Rebuild
  <1>15. CASE UNCHANGED L!vars
    BY <1>15 DEF L!vars
  <1> QED
    BY <1>1, <1>2, <1>3, <1>4, <1>5, <1>6, <1>7, <1>8, <1>9, <1>10, <1>11, <1>12, <1>13, <1>14,
       <1>15 DEF L!Next

-----------------------------------------------------------------------------
(* The tables of sessions (SessionRegistry).                               *)

\* Nobody is no process and no session; one of the processes is the first.
Workbenches == None \notin Process \cup Session /\ P1 \in Process

\* One entry of a table of tables is replaced.
LEMMA OneEntry ==
    ASSUME NEW P, NEW S, NEW W, NEW f \in [P -> [S -> W]], NEW p \in P, NEW s \in S, NEW v \in W,
           NEW g, g = [f EXCEPT ![p] = [f[p] EXCEPT ![s] = v]]
    PROVE  /\ g \in [P -> [S -> W]] /\ g[p][s] = v
           /\ \A q \in P, z \in S : q # p \/ z # s => g[q][z] = f[q][z]
  OBVIOUS

\* The values of its variables.
TableTyped ==
    /\ rows \in [Session -> (Process \cup {None}) \X Nat]
    /\ up \in [Process -> BOOLEAN] /\ birth \in [Process -> Nat]
    /\ host \in [Process -> [Session -> {"absent", "building", "ready", "closed"}]]
    /\ visible \in [Process -> SUBSET Session] /\ active \in [Process -> Session \cup {None}]
    /\ caller \in [Process -> [G!Thread -> [at : {"idle", "build", "announce", "close"},
                                            id : Session \cup {None}, previous : Session \cup {None}]]]
    /\ toClose \in [Process -> SUBSET Session]
    /\ shown \in [Process -> [active : Session \cup {None}, visible : SUBSET Session]]

\* A runtime that is being built, or is there, has the row of its session, and its process runs.
RowsCover ==
    \A p \in Process, s \in Session :
        host[p][s] \in {"building", "ready"} => up[p] /\ rows[s] = <<p, birth[p]>>

\* A thread that builds a runtime is the only one that does.
BuildersAlone ==
    \A p \in Process, t \in G!Thread :
        caller[p][t].at = "build" =>
            /\ caller[p][t].id \in Session
            /\ host[p][caller[p][t].id] = "building"
            /\ \A other \in G!Thread \ {t} :
                  caller[p][other].at = "build" => caller[p][other].id # caller[p][t].id

TableInv == TableTyped /\ RowsCover /\ BuildersAlone /\ G!ActiveIsShown /\ G!FrontEndIsCurrent

LEMMA TableInitially == G!Init => TableInv
  BY DEF G!Init, TableInv, TableTyped, RowsCover, BuildersAlone, G!ActiveIsShown, G!FrontEndIsCurrent,
         G!Idle, G!Thread

LEMMA TableInductive == ASSUME Workbenches PROVE TableInv /\ [G!Next]_(G!vars) => TableInv'
  <1> SUFFICES ASSUME TableInv, [G!Next]_(G!vars) PROVE TableInv'
    OBVIOUS
  <1> USE DEF TableInv, TableTyped, RowsCover, BuildersAlone, G!ActiveIsShown, G!FrontEndIsCurrent,
              G!Idle, G!At, G!Goes, G!Thread, G!Records
  <1>1. ASSUME NEW p \in Process, G!CloseBegins(p) PROVE TableInv'
    BY <1>1 DEF G!CloseBegins
  <1>2. ASSUME NEW p \in Process, G!CloseEnds(p) PROVE TableInv'
    BY <1>2 DEF G!CloseEnds
  <1>3. ASSUME NEW p \in Process, G!Ends(p) PROVE TableInv'
    <2>1. TableTyped'
      BY <1>3 DEF G!Ends, G!Show
    <2>2. RowsCover'
      BY <1>3 DEF G!Ends, G!Show
    <2>3. BuildersAlone'
      BY <1>3 DEF G!Ends, G!Show
    <2>4. G!ActiveIsShown'
      BY <1>3 DEF G!Ends, G!Show
    <2>5. G!FrontEndIsCurrent'
      BY <1>3 DEF G!Ends, G!Show
    <2> QED  BY <2>1, <2>2, <2>3, <2>4, <2>5
  <1>4. ASSUME NEW p \in Process, G!Restart(p) PROVE TableInv'
    BY <1>4 DEF G!Restart
  <1>5. ASSUME NEW p \in Process, NEW s \in Session, G!Hide(p, s) PROVE TableInv'
    <2>1. TableTyped'
      <3>1. visible' \in [Process -> SUBSET Session] /\ visible'[p] \subseteq Session
        BY <1>5 DEF G!Hide
      <3>a. active' = active \/ \E a \in Session \cup {None} : active' = [active EXCEPT ![p] = a]
        BY <1>5, <3>1 DEF G!Hide, G!FallBack
      <3>b. active' \in [Process -> Session \cup {None}]
        BY <3>a
      <3>2. caller' = [caller EXCEPT ![p]["stdin"] = [at |-> "announce", id |-> s, previous |-> None]]
        BY <1>5 DEF G!Hide
      <3> QED  BY <1>5, <3>1, <3>b, <3>2 DEF G!Hide
    <2>2. RowsCover'
      BY <1>5 DEF G!Hide, G!FallBack
    <2>3. BuildersAlone'
      BY <1>5 DEF G!Hide, G!FallBack
    <2>4. G!ActiveIsShown'
      BY <1>5 DEF G!Hide, G!FallBack
    <2>5. G!FrontEndIsCurrent'
      BY <1>5 DEF G!Hide, G!FallBack
    <2> QED  BY <2>1, <2>2, <2>3, <2>4, <2>5
  <1>6. ASSUME NEW p \in Process, NEW s \in Session, G!CloseOne(p, s) PROVE TableInv'
    <2>a. \/ host' = host
          \/ /\ host[p][s] \in {"ready", "closed"}
             /\ host' = [host EXCEPT ![p] = [host[p] EXCEPT ![s] = "closed"]]
      BY <1>6 DEF G!CloseOne
    <2>0. toClose' \in [Process -> SUBSET Session]
      BY <1>6 DEF G!CloseOne
    <2>1. TableTyped'
      <3>1. rows' \in [Session -> (Process \cup {None}) \X Nat]
        BY <1>6 DEF G!CloseOne
      <3>2. host' \in [Process -> [Session -> {"absent", "building", "ready", "closed"}]]
        <4>1. CASE host' = host
          BY <4>1
        <4>2. CASE host' = [host EXCEPT ![p] = [host[p] EXCEPT ![s] = "closed"]]
          BY <4>2, OneEntry
        <4> QED  BY <2>a, <4>1, <4>2
      <3> QED  BY <1>6, <2>0, <3>1, <3>2 DEF G!CloseOne
    <2>2. RowsCover'
      <3>1. CASE UNCHANGED <<host, rows>>
        BY <1>6, <3>1 DEF G!CloseOne
      <3>2. CASE host[p][s] \in {"ready", "closed"}
                 /\ host' = [host EXCEPT ![p][s] = "closed"]
                 /\ rows' = [rows EXCEPT ![s] = IF @ = <<p, birth[p]>> THEN <<None, 0>> ELSE @]
        <4> SUFFICES ASSUME NEW q \in Process, NEW z \in Session, host'[q][z] \in {"building", "ready"}
                     PROVE  up'[q] /\ rows'[z] = <<q, birth'[q]>>
          OBVIOUS
        <4>1. host[q][z] = host'[q][z] /\ <<q, z>> # <<p, s>>
          BY <3>2
        <4>2. up[q] /\ rows[z] = <<q, birth[q]>>
          BY <4>1
        <4>3. rows'[z] = rows[z]
          BY <3>2, <4>1, <4>2
        <4> QED  BY <1>6, <4>2, <4>3 DEF G!CloseOne
      <3> QED  BY <1>6, <3>1, <3>2 DEF G!CloseOne
    <2>3. BuildersAlone'
      <3>1. caller' = caller
        BY <1>6 DEF G!CloseOne
      <3>2. \A q \in Process, z \in Session : host[q][z] = "building" => host'[q][z] = "building"
        <4>1. CASE host' = host
          BY <4>1
        <4>2. CASE /\ host[p][s] \in {"ready", "closed"}
                   /\ host' = [host EXCEPT ![p] = [host[p] EXCEPT ![s] = "closed"]]
          BY <4>2, OneEntry
        <4> QED  BY <2>a, <4>1, <4>2
      <3> QED  BY <3>1, <3>2
    <2>4. G!ActiveIsShown'
      BY <1>6, Workbenches DEF G!CloseOne, Workbenches
    <2>5. G!FrontEndIsCurrent'
      BY <1>6, Workbenches DEF G!CloseOne, Workbenches
    <2> QED  BY <2>1, <2>2, <2>3, <2>4, <2>5
  <1>7. ASSUME NEW p \in Process, NEW t \in G!Thread, G!Built(p, t) PROVE TableInv'
    BY <1>7 DEF G!Built
  <1>8. ASSUME NEW p \in Process, NEW t \in G!Thread, G!BuildFails(p, t) PROVE TableInv'
    <2>1. TableTyped'
      <3>1. visible' \in [Process -> SUBSET Session] /\ visible'[p] \subseteq Session
        BY <1>8 DEF G!BuildFails
      <3>a. active' = active \/ \E a \in Session \cup {None} : active' = [active EXCEPT ![p] = a]
        BY <1>8 DEF G!BuildFails, G!FallBack
      <3>b. active' \in [Process -> Session \cup {None}]
        BY <3>a
      <3>2. rows' \in [Session -> (Process \cup {None}) \X Nat]
        BY <1>8 DEF G!BuildFails
      <3>3. caller' = [caller EXCEPT ![p][t] = [at |-> "announce", id |-> caller[p][t].id,
                                                previous |-> None]]
        BY <1>8 DEF G!BuildFails
      <3> QED  BY <1>8, <3>1, <3>b, <3>2, <3>3 DEF G!BuildFails
    <2>2. RowsCover'
      BY <1>8 DEF G!BuildFails, G!FallBack
    <2>3. BuildersAlone'
      BY <1>8 DEF G!BuildFails, G!FallBack
    <2>4. G!ActiveIsShown'
      BY <1>8 DEF G!BuildFails, G!FallBack
    <2>5. G!FrontEndIsCurrent'
      BY <1>8 DEF G!BuildFails, G!FallBack
    <2> QED  BY <2>1, <2>2, <2>3, <2>4, <2>5
  <1>9. ASSUME NEW p \in Process, NEW t \in G!Thread, G!Announce(p, t) PROVE TableInv'
    BY <1>9 DEF G!Announce
  <1>10. ASSUME NEW p \in Process, NEW t \in G!Thread, NEW s \in Session, G!Switch(p, t, s)
         PROVE TableInv'
    BY <1>10 DEF G!Switch
  <1>11. ASSUME NEW p \in Process, NEW t \in G!Thread, NEW s \in Session, G!Create(p, t, s)
         PROVE TableInv'
    BY <1>11, Workbenches DEF G!Create, G!Reservable, G!Alive, Workbenches
  <1>12. CASE UNCHANGED G!vars
    BY <1>12 DEF G!vars
  <1> HIDE DEF TableInv, TableTyped, RowsCover, BuildersAlone, G!ActiveIsShown, G!FrontEndIsCurrent,
               G!Idle, G!At, G!Goes, G!Thread, G!Records
  <1> QED
    BY <1>1, <1>2, <1>3, <1>4, <1>5, <1>6, <1>7, <1>8, <1>9, <1>10, <1>11, <1>12
    DEF G!Next, G!Steps

-----------------------------------------------------------------------------
(* What the run "sessions" checks.                                         *)

\* Every part leaves the lifecycle and the tables alone, or takes one of their steps.
LEMMA PartsKeep ==
    ASSUME Workbenches
    PROVE  LifeInv /\ TableInv /\ [MCNext]_parts => (LifeInv /\ TableInv)'
  <1> SUFFICES ASSUME LifeInv, TableInv, [MCNext]_parts PROVE (LifeInv /\ TableInv)'
    OBVIOUS
  <1>1. [L!Next]_(L!vars)
    BY DEF MCNext, History, Lifecycle, OneWorkbench, TwoWorkbenches, Transcript, View, parts,
           lifecycle, L!vars
  <1>2. [G!Next]_(G!vars)
    BY DEF Workbenches, MCNext, History, Lifecycle, OneWorkbench, TwoWorkbenches, Transcript, View,
           parts, registry, G!vars, G!Next
  <1> QED  BY <1>1, <1>2, LifeInductive, TableInductive

LEMMA LifeGives == LifeInv => L!ResourcesOutliveWork /\ L!ChangesAlone
  BY DEF LifeInv, Quiet, L!ResourcesOutliveWork, L!ChangesAlone

LEMMA TableGives == ASSUME Workbenches PROVE TableInv => G!OneRuntime
  BY DEF TableInv, TableTyped, RowsCover, G!OneRuntime

\* A runtime is taken apart, suspended or bound to another profile only while no turn and no tool
\* runs, whichever thread closes it and whatever times out (close, runtime_change, _turn_scope).
THEOREM WorkIsOutlived == L!Spec => [](L!ResourcesOutliveWork /\ L!ChangesAlone)
  <1> QED  BY LifeInitially, LifeInductive, LifeGives, PTL DEF L!Spec

\* Any number of workbenches have at most one runtime for a session between them, whichever of
\* them die and start again; and in each the active session is one that is shown, and announced
\* to the front end (reserve_runtime; create, switch, hide, announce).
THEOREM SessionsHaveOneRuntime ==
    ASSUME Workbenches
    PROVE  G!Spec => [](G!OneRuntime /\ G!ActiveIsShown /\ G!FrontEndIsCurrent)
  <1>1. TableInv => G!OneRuntime /\ G!ActiveIsShown /\ G!FrontEndIsCurrent
    BY TableGives DEF TableInv
  <1> QED  BY <1>1, TableInitially, TableInductive, PTL DEF G!Spec

\* Both hold beside the other parts of the run (InteractiveSession.close, reserve_runtime).
THEOREM RuntimesAreGuarded == ASSUME Workbenches PROVE MCSpec => []RuntimeIsGuarded
  <1>1. MCInit => LifeInv /\ TableInv
    BY LifeInitially, TableInitially DEF MCInit
  <1>2. LifeInv /\ TableInv => RuntimeIsGuarded
    BY LifeGives, TableGives DEF RuntimeIsGuarded
  <1> QED  BY <1>1, <1>2, PartsKeep, PTL DEF MCSpec, parts

\* The tabs of each workbench (SessionRuntimeRegistry.create, switch, hide, announce).
THEOREM TabsAreShown == ASSUME Workbenches PROVE MCSpec => []TabsAreTrue
  <1>1. MCInit => LifeInv /\ TableInv
    BY LifeInitially, TableInitially DEF MCInit
  <1>2. TableInv => TabsAreTrue
    BY DEF TableInv, TabsAreTrue
  <1> QED  BY <1>1, <1>2, PartsKeep, PTL DEF MCSpec, parts

=============================================================================
